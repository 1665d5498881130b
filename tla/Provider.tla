------------------------------- MODULE Provider -------------------------------
(***************************************************************************)
(* Model calls and what is counted of them (llm/provider.py).              *)
(*                                                                         *)
(* A node of the graph calls chat, chat_stream or chat_json.  The model is *)
(* the one that the settings name when the call begins; a request that     *)
(* fails is repeated once on the local model, if the settings allow it     *)
(* then; a stream that breaks goes on as a chat; a reply that is not JSON  *)
(* is asked for again.  What a provider says of the tokens is folded into  *)
(* the accumulator of the pass whose context the caller has inherited.     *)
(* The settings change at any time: they are rows, and the vault may be    *)
(* locked in the middle of a run.  The settings page, loaded at any time,  *)
(* says which model is active.                                             *)
(*                                                                         *)
(* What a provider answers is not modelled, only whether it answers.  A    *)
(* reply may carry a usage, one that cannot be read, or none; a stream may *)
(* bring any number of them; litellm's tokenizer may fail.                 *)
(*                                                                         *)
(* Calls share the settings and the accumulator, to which each adds: the   *)
(* module is about one of them.                                            *)
(***************************************************************************)
EXTENDS Integers, Sequences, FiniteSets

CONSTANTS
    Clouds,     \* cloud providers, in the order of CLOUD_ENV
    Offered,    \* the settings that occur
    MaxTokens,  \* bound on the tokens of a stream
    MaxUsages,  \* bound on the readable usages of a stream
    JsonTries,  \* the argument retries of chat_json
    MaxChanges  \* bound on changes of the settings

\* kind, provider: active_llm.  keys: providers with a usable key.  custom: the
\* self-hosted endpoint is configured.  local: use_local_llm.
Kinds == {"auto", "cloud", "ollama", "custom"}
Providers == {Clouds[i] : i \in DOMAIN Clouds}
Settings == [kind : Kinds, provider : Providers, keys : SUBSET Providers,
             custom : BOOLEAN, local : BOOLEAN]

ASSUME ProviderAssumption ==
    /\ Clouds \in Seq(STRING)
    /\ Providers \cap {"custom", "local", "larger", "none"} = {}
    /\ Offered \subseteq Settings
    /\ MaxTokens \in Nat /\ MaxUsages \in Nat /\ MaxChanges \in Nat
    /\ JsonTries \in Nat \ {0}

VARIABLES
    settings,  \* as stored
    listed,    \* the local server answered the last probe with some model
    how,       \* the function called: "chat", "stream" or "json"
    raw,       \* the model that the caller insists on, or "none"
    at,        \* its position
    model,     \* the model the last request went to
    again,     \* requests for JSON so far
    out,       \* what a stream has yielded: "token"s, and "text" for a whole answer
    page,      \* the settings page: the keys read for it, what it shows
    requests,  \* history: per request, how it went, what the provider told of
               \* its usage and how often it was counted
    changes    \* history: changes of the settings so far

callVars == <<how, raw, at, model, again, out, requests>>
llmVars == <<settings, listed, callVars, page, changes>>

-----------------------------------------------------------------------------
(***************************************************************************)
(* Which model, for a role that the settings give none of its own          *)
(***************************************************************************)
\* The first provider with a key, in the order of CLOUD_ENV.
FirstCloud(keys) == Clouds[CHOOSE i \in DOMAIN Clouds : /\ Clouds[i] \in keys
                                                        /\ \A j \in 1 .. i - 1 : Clouds[j] \notin keys]

\* _default_model: what the user pinned, as far as it is there, and otherwise a
\* cloud key, the endpoint, the local server.
Default(s) ==
    CASE s.kind = "ollama" -> "local"
      [] s.kind = "custom" /\ s.custom -> "custom"
      [] s.kind = "cloud" /\ s.provider \in s.keys -> s.provider
      [] OTHER -> IF s.keys # {} THEN FirstCloud(s.keys) ELSE IF s.custom THEN "custom" ELSE "local"

\* escalate: the stronger model of the same provider, or the next local one if the
\* machine has room for it.
Escalated(m) == IF m = "local" THEN {"local", "larger"} ELSE {m}

\* ollama_models lists nothing, unasked, when local models are switched off.
Models(s) == s.local /\ listed

\* llm_status: what the settings page and the banner say is active, of the keys
\* and the local models that were found.
Status(s, keys, models) ==
    CASE s.kind = "custom" /\ s.custom -> "custom"
      [] s.kind = "ollama" /\ models -> "local"
      [] s.kind = "cloud" /\ s.provider \in keys -> s.provider
      [] OTHER -> IF keys # {} THEN FirstCloud(keys) ELSE IF s.custom THEN "custom"
                  ELSE IF models THEN "local" ELSE "none"

-----------------------------------------------------------------------------
LlmInit ==
    /\ settings \in Offered
    /\ listed \in BOOLEAN
    /\ how \in {"chat", "stream", "json"}
    /\ raw \in {"none"} \cup (IF how = "json" THEN Escalated(Default(settings)) ELSE {})
    /\ at = "idle"
    /\ model = "none"
    /\ again = 0
    /\ out = <<>>
    /\ page = [at |-> "closed", keys |-> {}, mode |-> "none", model |-> "none"]
    /\ requests = <<>>
    /\ changes = 0

\* A role is looked up when the call begins; the judge that checks a contested
\* claim again was chosen earlier.
Resolve == IF raw = "none" THEN Default(settings) ELSE raw

Last == Len(requests)
Request(m) ==
    /\ model' = m
    /\ requests' = Append(requests, [to |-> m, end |-> "open", saw |-> FALSE,
                                     told |-> 0, counted |-> 0])

\* What a reply, or a chunk of a stream, says of its tokens.
Usages == {"none", "unreadable", "readable"}
Readable(usage) == IF usage = "readable" THEN 1 ELSE 0

\* _record_usage: what cannot be read is not counted.
Recorded(usage) == IF usage = "readable" THEN 1 ELSE 0

\* The last request goes on or ends; it brought a usage, and a guess was counted.
Reports(end, usage, guess) ==
    requests' = [requests EXCEPT ![Last] =
        [to |-> @.to, end |-> end, saw |-> @.saw \/ usage # "none",
         told |-> @.told + Readable(usage), counted |-> @.counted + Recorded(usage) + guess]]

-----------------------------------------------------------------------------
(***************************************************************************)
(* chat and chat_json                                                      *)
(***************************************************************************)
\* chat_stream comes here when its stream has broken.
Ask ==
    /\ \/ at = "idle" /\ how # "stream"
       \/ at = "ask"
    /\ Request(Resolve)
    /\ at' = "first"
    /\ again' = again + 1
    /\ UNCHANGED <<settings, listed, page, how, raw, out, changes>>

\* The end of chat: with a text or with "".  Only chat_json looks whether it can
\* be parsed; only the stream has yielded anything.
Finish(text) ==
    /\ out' = IF how = "stream" /\ text THEN Append(out, "text") ELSE out
    /\ \E parsed \in (IF how = "json" THEN {FALSE, text} ELSE {TRUE}) :
          at' = IF parsed \/ again = JsonTries THEN "done" ELSE "ask"

\* The usage is recorded before the reply is taken apart: a reply without a
\* choice is counted and repeated.
FirstAnswers ==
    /\ at = "first"
    /\ \E usage \in Usages : Reports("complete", usage, 0)
    /\ \/ \E text \in BOOLEAN : Finish(text)
       \/ at' = "fallback" /\ UNCHANGED out
    /\ UNCHANGED <<settings, listed, page, how, raw, model, again, changes>>

FirstFails ==
    /\ at = "first"
    /\ Reports("failed", "none", 0)
    /\ at' = "fallback"
    /\ UNCHANGED <<settings, listed, page, how, raw, model, again, out, changes>>

\* use_local_llm is read now, not when the call began.
Fallback ==
    /\ at = "fallback"
    /\ settings.local
    /\ model # "local"
    /\ Request("local")
    /\ at' = "second"
    /\ UNCHANGED <<settings, listed, page, how, raw, again, out, changes>>

NoFallback ==
    /\ at = "fallback"
    /\ ~settings.local \/ model = "local"
    /\ Finish(FALSE)
    /\ UNCHANGED <<settings, listed, page, how, raw, model, again, requests, changes>>

SecondAnswers ==
    /\ at = "second"
    /\ \E usage \in Usages : Reports("complete", usage, 0)
    /\ \E text \in BOOLEAN : Finish(text)
    /\ UNCHANGED <<settings, listed, page, how, raw, model, again, changes>>

SecondFails ==
    /\ at = "second"
    /\ Reports("failed", "none", 0)
    /\ Finish(FALSE)
    /\ UNCHANGED <<settings, listed, page, how, raw, model, again, changes>>

-----------------------------------------------------------------------------
(***************************************************************************)
(* chat_stream                                                             *)
(***************************************************************************)
OpenStream ==
    /\ at = "idle"
    /\ how = "stream"
    /\ Request(Resolve)
    /\ at' = "stream"
    /\ UNCHANGED <<settings, listed, page, how, raw, again, out, changes>>

Streaming == at = "stream"

Token ==
    /\ Streaming
    /\ Len(out) < MaxTokens
    /\ out' = Append(out, "token")
    /\ UNCHANGED <<settings, listed, page, how, raw, at, model, again, requests, changes>>

\* Nothing in the loop expects a usage in the last chunk only.
UsageChunk ==
    /\ Streaming
    /\ \E usage \in Usages \ {"none"} :
         /\ requests[Last].told + Readable(usage) <= MaxUsages
         /\ Reports("open", usage, 0)
    /\ UNCHANGED <<settings, listed, page, how, raw, at, model, again, out, changes>>

\* Mutant of Estimates: whether or not the provider sent a usage.
EstimatesAlways == IF out = <<>> THEN {0} ELSE {0, 1}

\* Without a usage chunk the tokens are estimated from the text, which may fail.
Estimates == IF requests[Last].saw \/ out = <<>> THEN {0} ELSE {0, 1}

StreamEnds ==
    /\ Streaming
    /\ \E guess \in Estimates : Reports("complete", "none", guess)
    /\ at' = "done"
    /\ UNCHANGED <<settings, listed, page, how, raw, model, again, out, changes>>

\* Opening it fails, or it breaks after some tokens: the answer of a chat, from
\* its beginning, is yielded after them.
StreamBreaks ==
    /\ at = "stream"
    /\ Reports("failed", "none", 0)
    /\ at' = "ask"
    /\ UNCHANGED <<settings, listed, page, how, raw, model, again, out, changes>>

-----------------------------------------------------------------------------
(***************************************************************************)
(* The settings and their page                                             *)
(***************************************************************************)
Change ==
    /\ changes < MaxChanges
    /\ settings' \in Offered \ {settings}
    /\ changes' = changes + 1
    /\ UNCHANGED <<listed, page, callVars>>

\* llm_status after the probe: everything but the keys is read now.
Shows(keys, models) ==
    page' = [at |-> "shown", keys |-> {}, mode |-> Status(settings, keys, models),
             model |-> Default(settings)]

\* The probe of the local server is cached for ten seconds, and not sent at all
\* when local models are switched off.
PageAtOnce ==
    /\ page.at # "probing"
    /\ Shows(settings.keys, Models(settings))
    /\ UNCHANGED <<settings, listed, callVars, changes>>

\* The keys are read before the probe is awaited.
PageProbes ==
    /\ page.at # "probing"
    /\ settings.local
    /\ page' = [page EXCEPT !.at = "probing", !.keys = settings.keys]
    /\ UNCHANGED <<settings, listed, callVars, changes>>

PageShows ==
    /\ page.at = "probing"
    /\ listed' \in BOOLEAN
    /\ Shows(page.keys, listed')
    /\ UNCHANGED <<settings, callVars, changes>>

\* A cancel or a disconnect ends the task: CancelledError passes the handlers.
Running == at \notin {"idle", "done", "cut"}
CutCall ==
    /\ Running
    /\ at' = "cut"
    /\ UNCHANGED <<settings, listed, page, how, raw, model, again, out, requests, changes>>

Proceed ==
    \/ Ask \/ FirstAnswers \/ FirstFails \/ Fallback \/ NoFallback
    \/ SecondAnswers \/ SecondFails
    \/ OpenStream \/ Token \/ UsageChunk \/ StreamEnds \/ StreamBreaks
    \/ CutCall

PageNext == PageAtOnce \/ PageProbes \/ PageShows

LlmNext == Proceed \/ PageNext \/ Change

LlmSpec == LlmInit /\ [][LlmNext]_llmVars

-----------------------------------------------------------------------------
PageModes == Providers \cup {"custom", "local", "none"}

\* Every part of the state has its type.
LlmTypeOK ==
    /\ settings \in Settings
    /\ listed \in BOOLEAN
    /\ how \in {"chat", "stream", "json"}
    /\ raw \in Providers \cup {"custom", "local", "larger", "none"}
    /\ at \in {"idle", "ask", "first", "fallback", "second", "stream", "done", "cut"}
    /\ model \in Providers \cup {"custom", "local", "larger", "none"}
    /\ again \in 0 .. JsonTries
    /\ out \in Seq({"token", "text"})
    /\ page \in [at : {"closed", "probing", "shown"}, keys : SUBSET Providers,
                 mode : PageModes, model : PageModes]
    /\ requests \in Seq([to : Providers \cup {"custom", "local", "larger"},
                         end : {"open", "complete", "failed"},
                         saw : BOOLEAN, told : Nat, counted : Nat])
    /\ changes \in 0 .. MaxChanges

\* provider.py:40 "a provider that omits usage simply contributes 0": through
\* breaks, fallbacks and repetitions a request is counted as often as its
\* provider told a usage, never more; only a stream that ended, with a text and
\* without any usage, may be counted once by its estimate.
CountedAsTold ==
    \A r \in 1 .. Last :
        LET q == requests[r] IN
        \/ q.counted = q.told
        \/ /\ q.counted = 1 /\ ~q.saw /\ q.end = "complete"
           /\ how = "stream" /\ r = 1 /\ out # <<>>

\* provider.py:223 "this matches llm_status()'s mode ordering exactly": the model
\* that a page shows as active is the one that its own map gives the roles.
\* Not so for a pinned local server that lists nothing, nor for a key that is
\* taken away while the page waits for the probe.
StatusTellsModel ==
    page.at = "shown" /\ page.mode # "none" => page.mode = page.model
=============================================================================
