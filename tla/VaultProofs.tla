----------------------------- MODULE VaultProofs -----------------------------
(***************************************************************************)
(* Theorems about Vault, for any callers, names, keys and passwords.       *)
(***************************************************************************)
EXTENDS Vault, TLAPS

USE DEF rows, memory, history

\* The local variables of a call.
Calls == [pc : Pcs, name : OrNothing(Names), value : OrNothing(Values),
          password : OrNothing(Passwords), key : OrNothing(Salts),
          meta : OrNothing(Metas), blob : Blobs, cache : Caches]

Keyed(row) == row.password # Nothing => row.salt \in Salts

\* A call in these places has a name, a value, a key or a row at hand, and a
\* row with a password has its salt.
HasLocals(l) ==
    /\ l.pc \in {"set_read", "set_secrets", "set_names", "set_meta", "set_memory"}
         => l.name \in Names /\ l.value \in Values /\ l.key \in Salts
    /\ l.pc \in {"delete_read", "delete_secrets", "delete_names", "delete_meta",
                  "delete_memory"} => l.name \in Names
    /\ l.pc \in {"setup_meta", "setup_secrets", "setup_memory", "unlock_secrets",
                  "unlock_memory", "change_meta", "change_secrets", "change_memory"}
         => l.key \in Salts
    /\ l.pc \in {"setup_meta", "change_meta", "change_copy"} => l.password \in Passwords
    /\ l.pc \in {"set_meta", "delete_meta"} => l.meta \in Metas /\ Keyed(l.meta)

Salted(m) == m # Nothing => Keyed(m)

IInv ==
    /\ VaultTypeOK
    /\ \A c \in Callers : HasLocals(call[c]) /\ Salted(call[c].meta)
    /\ Salted(meta)

-----------------------------------------------------------------------------
(***************************************************************************)
(* Operators                                                               *)
(***************************************************************************)
LEMMA NothingIsApart ==
  /\ Nothing \notin Salts
  /\ Nothing \notin Caches
  /\ Nothing \notin Values
BY VaultAssumption DEF Salts, Caches, OrNothing

LEMMA EmptyFits == Empty \in Blobs /\ Empty \in Caches
BY DEF Empty, Blobs, Caches, OrNothing

LEMMA OpenFits ==
  ASSUME NEW k \in Salts, NEW blob \in Blobs
  PROVE  Open(k, blob) \in Caches
<1>1. ASSUME NEW n \in Names, blob[n] # Nothing PROVE blob[n].value \in Values
  BY <1>1 DEF Blobs, OrNothing, Sealed
<1> QED
  BY <1>1 DEF Open, Caches, OrNothing

LEMMA SealFits ==
  ASSUME NEW k \in Salts, NEW values \in Caches
  PROVE  Seal(k, values) \in Blobs
<1>1. ASSUME NEW n \in Names, values[n] # Nothing
      PROVE  [key |-> k, value |-> values[n]] \in Sealed
  BY <1>1 DEF Caches, OrNothing, Sealed
<1> QED
  BY <1>1 DEF Seal, Blobs, OrNothing

LEMMA RowFits ==
  ASSUME NEW salt \in OrNothing(Salts), NEW password \in OrNothing(Passwords),
         NEW names \in SUBSET Names
  PROVE  MetaRow(salt, password, names) \in Metas
BY DEF MetaRow, Metas

LEMMA NoMetaFits ==
  /\ NoMeta \in Metas /\ Keyed(NoMeta) /\ Salted(NoMeta)
  /\ NoMeta.salt = Nothing /\ NoMeta.password = Nothing
BY RowFits DEF NoMeta, MetaRow, OrNothing, Salted, Keyed

LEMMA InitIInv == VaultInit => IInv
<1> SUFFICES ASSUME VaultInit PROVE IInv
  OBVIOUS
<1>1. NoCall \in Calls
  BY EmptyFits DEF NoCall, Calls, Pcs, OrNothing
<1>2. call \in [Callers -> Calls]
  BY <1>1 DEF VaultInit
<1>3. salts \in 0 .. MaxSalts
  BY VaultAssumption DEF VaultInit
<1>4. expected \in [Names -> SUBSET OrNothing(Values)]
  BY DEF VaultInit, OrNothing
<1>5. VaultTypeOK
  BY <1>2, <1>3, <1>4, EmptyFits DEF VaultInit, VaultTypeOK, OrNothing, Calls
<1>6. \A c \in Callers : HasLocals(call[c]) /\ Salted(call[c].meta)
  BY DEF VaultInit, NoCall, HasLocals, Salted, Keyed
<1> QED
  BY <1>5, <1>6 DEF VaultInit, IInv, Salted, Keyed

-----------------------------------------------------------------------------
(***************************************************************************)
(* Types                                                                   *)
(***************************************************************************)
\* The state outside the calls keeps its types, and a stored row its salt.
Sound ==
    /\ meta \in OrNothing(Metas) /\ Salted(meta)
    /\ secrets \in Blobs
    /\ key \in OrNothing(Salts)
    /\ cache \in OrNothing(Caches)
    /\ salts \in 0 .. MaxSalts
    /\ expected \in [Names -> SUBSET OrNothing(Values)]
    /\ doubt \in BOOLEAN

LEMMA IInvSplit ==
  IInv <=> /\ Sound
           /\ call \in [Callers -> Calls]
           /\ \A c \in Callers : HasLocals(call[c]) /\ Salted(call[c].meta)
BY DEF IInv, VaultTypeOK, Sound, Calls

\* One call has new local variables, sound like the rest.
LEMMA OneCall ==
  ASSUME IInv, Sound', NEW c \in Callers, NEW l \in Calls,
         HasLocals(l), Salted(l.meta), call' = [call EXCEPT ![c] = l]
  PROVE  IInv'
<1>1. call \in [Callers -> Calls]
  BY IInvSplit
<1>2. call' \in [Callers -> Calls]
  BY <1>1
<1>3. \A d \in Callers : call'[d] = IF d = c THEN l ELSE call[d]
  BY <1>1
<1>4. \A d \in Callers : HasLocals(call'[d]) /\ Salted(call'[d].meta)
  BY <1>3 DEF IInv
<1> QED
  BY <1>2, <1>4 DEF IInv, VaultTypeOK, Sound, Calls

LEMMA NoCallFits == NoCall \in Calls /\ HasLocals(NoCall) /\ Salted(NoCall.meta)
BY EmptyFits DEF NoCall, Calls, Pcs, OrNothing, HasLocals, Salted, Keyed

LEMMA ReturnKeeps ==
  ASSUME IInv, Sound', NEW c \in Callers, Back(c)
  PROVE  IInv'
BY NoCallFits, OneCall DEF Back

LEMMA GotoKeeps ==
  ASSUME IInv, Sound', NEW c \in Callers, NEW pc \in Pcs, Goto(c, pc),
         HasLocals([call[c] EXCEPT !.pc = pc])
  PROVE  IInv'
<1>1. call[c] \in Calls /\ Salted(call[c].meta)
  BY IInvSplit
<1> DEFINE l == [call[c] EXCEPT !.pc = pc]
<1>2. l \in Calls /\ l.meta = call[c].meta
  BY <1>1 DEF Calls
<1>3. call' = [call EXCEPT ![c] = l]
  BY DEF Goto
<1> QED
  BY <1>1, <1>2, <1>3, OneCall

\* What a caller can count on.
LEMMA AtHand ==
  ASSUME IInv, NEW c \in Callers
  PROVE  call[c] \in Calls /\ HasLocals(call[c]) /\ Salted(call[c].meta) /\ Sound
BY IInvSplit

LEMMA SetupStarts ==
  ASSUME IInv, NEW c \in Callers, NEW p \in Passwords, Setup(c, p)
  PROVE  IInv'
<1> DEFINE l == [NoCall EXCEPT !.pc = "setup_meta", !.password = p, !.key = salts + 1]
<1>1. Sound
  BY IInvSplit
<1>2. salts + 1 \in Salts /\ salts' = salts + 1
  BY <1>1, VaultAssumption DEF Setup, FreshSalt, Sound, Salts
<1>3. salts' \in 0 .. MaxSalts
  BY <1>2, VaultAssumption DEF Salts
<1>4. Sound'
  BY <1>1, <1>3 DEF Setup, Sound, Salted, Keyed
<1>5. l \in Calls /\ HasLocals(l) /\ Salted(l.meta)
  BY <1>2, NoCallFits DEF NoCall, Calls, Pcs, HasLocals, OrNothing
<1> QED
  BY <1>4, <1>5, OneCall DEF Setup, Start

LEMMA SetupTypes ==
  ASSUME IInv, NEW c \in Callers, SetupMeta(c) \/ SetupSecrets(c) \/ SetupMemory(c)
  PROVE  IInv'
<1> USE AtHand
<1>1. CASE SetupMeta(c)
  <2>1. call[c].key \in Salts /\ call[c].password \in Passwords
    BY <1>1 DEF SetupMeta, At, HasLocals
  <2>2. Sound'
    BY <1>1, <2>1, RowFits DEF SetupMeta, Sound, Salted, Keyed, MetaRow, OrNothing
  <2> QED
    BY <1>1, <2>1, <2>2, GotoKeeps DEF SetupMeta, HasLocals, Pcs, Calls
<1>2. CASE SetupSecrets(c)
  <2>1. call[c].key \in Salts
    BY <1>2 DEF SetupSecrets, At, HasLocals
  <2>2. Sound'
    BY <1>2, EmptyFits DEF SetupSecrets, Sound
  <2> QED
    BY <1>2, <2>1, <2>2, GotoKeeps DEF SetupSecrets, HasLocals, Pcs, Calls
<1>3. CASE SetupMemory(c)
  <2>1. Sound'
    BY <1>3, EmptyFits DEF SetupMemory, At, HasLocals, Sound, OrNothing
  <2> QED
    BY <1>3, <2>1, ReturnKeeps DEF SetupMemory
<1> QED
  BY <1>1, <1>2, <1>3

LEMMA UnlockTypes ==
  ASSUME IInv, NEW c \in Callers,
         \/ Unlock(c, "unlock", Nothing)
         \/ \E p \in Passwords : Unlock(c, "change", p)
         \/ UnlockSecrets(c) \/ UnlockMemory(c) \/ Lock(c)
  PROVE  IInv'
<1> USE AtHand
<1>1. ASSUME NEW op, NEW p \in OrNothing(Passwords), Unlock(c, op, p) PROVE IInv'
  <2> DEFINE l == [NoCall EXCEPT !.pc = "unlock_secrets", !.key = meta.salt, !.password = p]
  <2>1. meta.salt \in Salts /\ Sound'
    BY <1>1 DEF Unlock, Configured, Sound, Salted, Keyed
  <2>2. l \in Calls /\ HasLocals(l) /\ Salted(l.meta)
    BY <2>1, NoCallFits DEF NoCall, Calls, Pcs, HasLocals, OrNothing
  <2> QED
    BY <1>1, <2>1, <2>2, OneCall DEF Unlock, Start
<1>2. CASE UnlockSecrets(c)
  <2> DEFINE l == [call[c] EXCEPT !.pc = "unlock_memory",
                                  !.cache = Open(call[c].key, secrets)]
  <2>1. call[c].key \in Salts /\ Sound'
    BY <1>2 DEF UnlockSecrets, At, HasLocals, Sound, Salted, Keyed
  <2>2. Open(call[c].key, secrets) \in Caches
    BY <2>1, OpenFits DEF Sound
  <2>3. l \in Calls /\ HasLocals(l) /\ Salted(l.meta)
    <3> HIDE DEF HasLocals
    <3>1. l \in Calls /\ l.meta = call[c].meta
      BY <2>2 DEF Calls, Pcs
    <3>2. l.pc = "unlock_memory" /\ l.key = call[c].key
      BY DEF Calls
    <3> QED
      BY <2>1, <3>1, <3>2 DEF HasLocals
  <2> QED
    BY <1>2, <2>1, <2>3, OneCall DEF UnlockSecrets
<1>3. CASE UnlockMemory(c)
  <2>1. Sound'
    BY <1>3 DEF UnlockMemory, At, HasLocals, Sound, Salted, Keyed, Calls, OrNothing
  <2>2. CASE call[c].password = Nothing
    BY <1>3, <2>1, <2>2, ReturnKeeps DEF UnlockMemory
  <2>3. CASE call[c].password # Nothing
    BY <1>3, <2>1, <2>3, GotoKeeps DEF UnlockMemory, HasLocals, Pcs, Calls, OrNothing
  <2> QED
    BY <2>2, <2>3
<1>4. CASE Lock(c)
  <2>1. Sound' /\ call' = call
    BY <1>4 DEF Lock, Sound, Salted, Keyed, OrNothing
  <2>2. call \in [Callers -> Calls]
    BY IInvSplit
  <2> QED
    BY <2>1, <2>2 DEF IInv, VaultTypeOK, Sound, Calls
<1> QED
  BY <1>1, <1>2, <1>3, <1>4 DEF OrNothing

LEMMA ChangeTypes ==
  ASSUME IInv, NEW c \in Callers,
         ChangeCopy(c) \/ ChangeMeta(c) \/ ChangeSecrets(c) \/ ChangeMemory(c)
  PROVE  IInv'
<1> USE AtHand
<1>1. CASE ChangeCopy(c)
  <2> DEFINE copy == IF cache = Nothing THEN Empty ELSE cache
             l == [call[c] EXCEPT !.pc = "change_meta", !.key = salts + 1, !.cache = copy]
  <2>1. salts + 1 \in Salts /\ Sound'
    BY <1>1, VaultAssumption DEF ChangeCopy, FreshSalt, Sound, Salts, Salted, Keyed
  <2>2. copy \in Caches
    BY EmptyFits DEF Sound, OrNothing
  <2>3. call[c].password \in Passwords
    BY <1>1 DEF ChangeCopy, At, HasLocals
  <2>4. l \in Calls /\ l.meta = call[c].meta
    BY <2>1, <2>2 DEF Calls, Pcs, OrNothing
  <2>5. l.pc = "change_meta" /\ l.key = salts + 1 /\ l.password = call[c].password
    BY DEF Calls
  <2>6. HasLocals(l)
    BY <2>1, <2>3, <2>5 DEF HasLocals
  <2> QED
    BY <1>1, <2>1, <2>4, <2>6, OneCall DEF ChangeCopy
<1>2. CASE ChangeMeta(c)
  <2>1. call[c].key \in Salts /\ call[c].password \in Passwords
    BY <1>2 DEF ChangeMeta, At, HasLocals
  <2>2. Held(call[c].cache) \in SUBSET Names
    BY DEF Held
  <2>3. Sound'
    BY <1>2, <2>1, <2>2, RowFits DEF ChangeMeta, Sound, Salted, Keyed, MetaRow, OrNothing
  <2> QED
    BY <1>2, <2>1, <2>3, GotoKeeps DEF ChangeMeta, HasLocals, Pcs, Calls
<1>3. CASE ChangeSecrets(c)
  <2>1. call[c].key \in Salts
    BY <1>3 DEF ChangeSecrets, At, HasLocals
  <2>2. Sound'
    BY <1>3, <2>1, SealFits DEF ChangeSecrets, Sound, Salted, Keyed, Calls
  <2> QED
    BY <1>3, <2>1, <2>2, GotoKeeps DEF ChangeSecrets, HasLocals, Pcs, Calls
<1>4. CASE ChangeMemory(c)
  <2>1. Sound'
    BY <1>4 DEF ChangeMemory, At, HasLocals, Sound, Salted, Keyed, Calls, OrNothing
  <2> QED
    BY <1>4, <2>1, ReturnKeeps DEF ChangeMemory
<1> QED
  BY <1>1, <1>2, <1>3, <1>4

LEMMA ResetTypes ==
  ASSUME IInv, NEW c \in Callers,
         Reset(c) \/ ResetMeta(c) \/ ResetSecrets(c) \/ ResetMemory(c)
  PROVE  IInv'
<1> USE AtHand
<1>1. CASE Reset(c)
  <2> DEFINE l == [NoCall EXCEPT !.pc = "reset_meta"]
  <2>1. Sound'
    BY <1>1 DEF Reset, Sound, Salted, Keyed, OrNothing
  <2>2. l \in Calls /\ HasLocals(l) /\ Salted(l.meta)
    BY NoCallFits DEF NoCall, Calls, Pcs, HasLocals
  <2> QED
    BY <1>1, <2>1, <2>2, OneCall DEF Reset, Start
<1>2. CASE ResetMeta(c)
  <2>1. Sound'
    BY <1>2 DEF ResetMeta, Sound, Salted, Keyed, OrNothing
  <2> QED
    BY <1>2, <2>1, GotoKeeps DEF ResetMeta, HasLocals, Pcs, Calls
<1>3. CASE ResetSecrets(c)
  <2>1. Sound'
    BY <1>3, EmptyFits DEF ResetSecrets, Sound, Salted, Keyed
  <2> QED
    BY <1>3, <2>1, GotoKeeps DEF ResetSecrets, HasLocals, Pcs, Calls
<1>4. CASE ResetMemory(c)
  <2>1. Sound'
    BY <1>4 DEF ResetMemory, Sound, Salted, Keyed, OrNothing
  <2> QED
    BY <1>4, <2>1, ReturnKeeps DEF ResetMemory
<1> QED
  BY <1>1, <1>2, <1>3, <1>4

\* The entry set_key writes, or nothing, keeps the row of secrets one.
LEMMA EntryFits ==
  ASSUME NEW blob \in Blobs, NEW n \in Names, NEW entry \in OrNothing(Sealed)
  PROVE  [blob EXCEPT ![n] = entry] \in Blobs
BY DEF Blobs

LEMMA CacheFits ==
  ASSUME NEW values \in Caches, NEW n \in Names, NEW v \in OrNothing(Values)
  PROVE  [values EXCEPT ![n] = v] \in Caches
BY DEF Caches

LEMMA ToldFits ==
  ASSUME Sound, NEW n \in Names, NEW S \in SUBSET OrNothing(Values), Expect(n, S)
  PROVE  expected' \in [Names -> SUBSET OrNothing(Values)]
BY DEF Sound, Expect

LEMMA SetTypes ==
  ASSUME IInv, NEW c \in Callers,
         (\E n \in Names, v \in Values : SetKey(c, n, v)) \/ SetRead(c) \/ SetSecrets(c)
           \/ SetNames(c) \/ SetMeta(c) \/ SetMemory(c)
  PROVE  IInv'
<1> USE AtHand
<1>1. ASSUME NEW n \in Names, NEW v \in Values, SetKey(c, n, v) PROVE IInv'
  <2> DEFINE l == [NoCall EXCEPT !.pc = "set_read", !.name = n, !.value = v, !.key = key]
  <2>1. expected[n] \cup {v} \in SUBSET OrNothing(Values)
    BY DEF Sound, OrNothing
  <2>2. expected' \in [Names -> SUBSET OrNothing(Values)]
    BY <1>1, <2>1, ToldFits DEF SetKey
  <2>3. key \in Salts /\ Sound'
    BY <1>1, <2>2 DEF SetKey, Sound, Salted, Keyed, OrNothing
  <2>4. l \in Calls /\ HasLocals(l) /\ Salted(l.meta)
    BY <2>3, NoCallFits DEF NoCall, Calls, Pcs, HasLocals, OrNothing
  <2> QED
    BY <1>1, <2>3, <2>4, OneCall DEF SetKey, Start
<1>2. CASE SetRead(c)
  <2> DEFINE l == [call[c] EXCEPT !.pc = "set_secrets", !.blob = secrets]
  <2>1. Sound' /\ call[c].pc = "set_read" /\ secrets \in Blobs
    BY <1>2 DEF SetRead, ReadSecrets, At, Sound, Salted, Keyed
  <2>2. /\ l \in Calls /\ l.meta = call[c].meta /\ l.pc = "set_secrets"
        /\ l.name = call[c].name /\ l.value = call[c].value /\ l.key = call[c].key
    BY <2>1 DEF Calls, Pcs
  <2>3. HasLocals(l)
    BY <2>1, <2>2 DEF HasLocals
  <2> QED
    BY <1>2, <2>1, <2>2, <2>3, OneCall DEF SetRead, ReadSecrets
<1>3. CASE SetSecrets(c)
  <2> DEFINE entry == [key |-> call[c].key, value |-> call[c].value]
  <2>1. /\ call[c].name \in Names /\ call[c].pc = "set_secrets"
        /\ call[c].key \in Salts /\ call[c].value \in Values /\ call[c].blob \in Blobs
    BY <1>3 DEF SetSecrets, WriteSecrets, At, HasLocals, Calls
  <2>2. entry \in OrNothing(Sealed)
    BY <2>1 DEF Sealed, OrNothing
  <2>3. Sound'
    BY <1>3, <2>1, <2>2, EntryFits DEF SetSecrets, WriteSecrets, Sound, Salted, Keyed
  <2>4. Goto(c, "set_names")
    BY <1>3 DEF SetSecrets, WriteSecrets
  <2> QED
    BY <2>1, <2>3, <2>4, GotoKeeps DEF HasLocals, Pcs, Calls
<1>4. CASE SetNames(c)
  <2> DEFINE m == IF meta = Nothing THEN NoMeta ELSE meta
             l == [call[c] EXCEPT !.pc = "set_meta", !.meta = m]
  <2>1. Sound' /\ call[c].pc = "set_names"
    BY <1>4 DEF SetNames, ReadMeta, At, Sound, Salted, Keyed
  <2>2. m \in Metas /\ Keyed(m) /\ Salted(m)
    BY NoMetaFits DEF Sound, OrNothing, Salted
  <2>3. /\ l \in Calls /\ l.meta = m /\ l.pc = "set_meta"
        /\ l.name = call[c].name /\ l.value = call[c].value /\ l.key = call[c].key
    BY <2>2 DEF Calls, Pcs, OrNothing
  <2>4. HasLocals(l)
    BY <2>1, <2>2, <2>3 DEF HasLocals
  <2> QED
    BY <1>4, <2>1, <2>2, <2>3, <2>4, OneCall DEF SetNames, ReadMeta
<1>5. CASE SetMeta(c)
  <2> DEFINE names == call[c].meta.names \cup {call[c].name}
  <2>1. /\ call[c].name \in Names /\ call[c].pc = "set_meta"
        /\ call[c].meta \in Metas /\ Keyed(call[c].meta)
    BY <1>5 DEF SetMeta, At, HasLocals
  <2>2. WriteNames(c, "set_meta", "set_memory", names)
    BY <1>5 DEF SetMeta
  <2>3. [call[c].meta EXCEPT !.names = names] \in Metas
    BY <2>1 DEF Metas
  <2>4. Salted([call[c].meta EXCEPT !.names = names])
    BY <2>1 DEF Salted, Keyed, Metas
  <2>5. Sound'
    BY <2>2, <2>3, <2>4 DEF WriteNames, Sound, OrNothing
  <2> QED
    BY <2>1, <2>2, <2>5, GotoKeeps DEF WriteNames, HasLocals, Pcs, Calls
<1>6. CASE SetMemory(c)
  <2> DEFINE old == IF cache = Nothing THEN Empty ELSE cache
  <2>1. call[c].name \in Names /\ call[c].value \in Values
    BY <1>6 DEF SetMemory, At, HasLocals
  <2>2. old \in Caches /\ call[c].value \in OrNothing(Values)
    BY <2>1, EmptyFits DEF Sound, OrNothing
  <2>3. cache' \in OrNothing(Caches)
    BY <1>6, <2>1, <2>2, CacheFits DEF SetMemory, OrNothing
  <2>4. expected' \in [Names -> SUBSET OrNothing(Values)]
    BY <1>6, <2>1, <2>2, ToldFits DEF SetMemory
  <2>5. Sound'
    BY <1>6, <2>3, <2>4 DEF SetMemory, Sound, Salted, Keyed
  <2> QED
    BY <1>6, <2>5, ReturnKeeps DEF SetMemory
<1> QED
  BY <1>1, <1>2, <1>3, <1>4, <1>5, <1>6

LEMMA DeleteTypes ==
  ASSUME IInv, NEW c \in Callers,
         (\E n \in Names : DeleteKey(c, n)) \/ DeleteRead(c) \/ DeleteSecrets(c) \/ DeleteNames(c)
           \/ DeleteMeta(c) \/ DeleteMemory(c)
  PROVE  IInv'
<1> USE AtHand
<1>1. ASSUME NEW n \in Names, DeleteKey(c, n) PROVE IInv'
  <2> DEFINE l == [NoCall EXCEPT !.pc = "delete_read", !.name = n]
  <2>1. expected[n] \cup {Nothing} \in SUBSET OrNothing(Values)
    BY DEF Sound, OrNothing
  <2>2. expected' \in [Names -> SUBSET OrNothing(Values)]
    BY <1>1, <2>1, ToldFits DEF DeleteKey
  <2>3. Sound'
    BY <1>1, <2>2 DEF DeleteKey, Sound, Salted, Keyed
  <2>4. l \in Calls /\ HasLocals(l) /\ Salted(l.meta)
    BY NoCallFits DEF NoCall, Calls, Pcs, HasLocals, OrNothing
  <2> QED
    BY <1>1, <2>3, <2>4, OneCall DEF DeleteKey, Start
<1>2. CASE DeleteRead(c)
  <2> DEFINE l == [call[c] EXCEPT !.pc = "delete_secrets", !.blob = secrets]
  <2>1. Sound' /\ call[c].name \in Names /\ secrets \in Blobs
    BY <1>2 DEF DeleteRead, ReadSecrets, At, HasLocals, Sound, Salted, Keyed
  <2>2. l \in Calls /\ l.meta = call[c].meta /\ l.pc = "delete_secrets" /\ l.name = call[c].name
    BY <2>1 DEF Calls, Pcs
  <2>3. HasLocals(l)
    BY <2>1, <2>2 DEF HasLocals
  <2> QED
    BY <1>2, <2>1, <2>2, <2>3, OneCall DEF DeleteRead, ReadSecrets
<1>3. CASE DeleteSecrets(c)
  <2>1. call[c].name \in Names /\ call[c].blob \in Blobs /\ call[c].pc = "delete_secrets"
    BY <1>3 DEF DeleteSecrets, WriteSecrets, At, HasLocals, Calls
  <2>2. Sound'
    BY <1>3, <2>1, EntryFits DEF DeleteSecrets, WriteSecrets, Sound, Salted, Keyed, OrNothing
  <2>3. Goto(c, "delete_names")
    BY <1>3 DEF DeleteSecrets, WriteSecrets
  <2> QED
    BY <2>1, <2>2, <2>3, GotoKeeps DEF HasLocals, Pcs, Calls
<1>4. CASE DeleteNames(c)
  <2> DEFINE m == IF meta = Nothing THEN NoMeta ELSE meta
             l == [call[c] EXCEPT !.pc = "delete_meta", !.meta = m]
  <2>1. Sound' /\ call[c].name \in Names
    BY <1>4 DEF DeleteNames, ReadMeta, At, HasLocals, Sound, Salted, Keyed
  <2>2. m \in Metas /\ Keyed(m) /\ Salted(m)
    BY NoMetaFits DEF Sound, OrNothing, Salted
  <2>3. l \in Calls /\ l.meta = m /\ l.pc = "delete_meta" /\ l.name = call[c].name
    BY <2>2 DEF Calls, Pcs, OrNothing
  <2>4. HasLocals(l)
    BY <2>1, <2>2, <2>3 DEF HasLocals
  <2> QED
    BY <1>4, <2>1, <2>2, <2>3, <2>4, OneCall DEF DeleteNames, ReadMeta
<1>5. CASE DeleteMeta(c)
  <2> DEFINE names == call[c].meta.names \ {call[c].name}
  <2>1. /\ call[c].name \in Names /\ call[c].pc = "delete_meta"
        /\ call[c].meta \in Metas /\ Keyed(call[c].meta)
    BY <1>5 DEF DeleteMeta, At, HasLocals
  <2>2. WriteNames(c, "delete_meta", "delete_memory", names)
    BY <1>5 DEF DeleteMeta
  <2>3. [call[c].meta EXCEPT !.names = names] \in Metas
    BY <2>1 DEF Metas
  <2>4. Salted([call[c].meta EXCEPT !.names = names])
    BY <2>1 DEF Salted, Keyed, Metas
  <2>5. Sound'
    BY <2>2, <2>3, <2>4 DEF WriteNames, Sound, OrNothing
  <2> QED
    BY <2>1, <2>2, <2>5, GotoKeeps DEF WriteNames, HasLocals, Pcs, Calls
<1>6. CASE DeleteMemory(c)
  <2>1. call[c].name \in Names /\ {Nothing} \in SUBSET OrNothing(Values)
    BY <1>6 DEF DeleteMemory, At, HasLocals, OrNothing
  <2>2. cache' \in OrNothing(Caches)
    BY <1>6, <2>1, CacheFits DEF DeleteMemory, Sound, OrNothing
  <2>3. expected' \in [Names -> SUBSET OrNothing(Values)]
    BY <1>6, <2>1, ToldFits DEF DeleteMemory
  <2>4. Sound'
    BY <1>6, <2>2, <2>3 DEF DeleteMemory, Sound, Salted, Keyed
  <2> QED
    BY <1>6, <2>4, ReturnKeeps DEF DeleteMemory
<1> QED
  BY <1>1, <1>2, <1>3, <1>4, <1>5, <1>6

LEMMA FaultTypes ==
  ASSUME IInv, Crash \/ \E c \in Callers : WriteFails(c)
  PROVE  IInv'
<1>1. CASE Crash
  <2>1. Sound'
    BY <1>1, IInvSplit DEF Crash, Sound, Salted, OrNothing
  <2>2. call' \in [Callers -> Calls]
    BY <1>1, NoCallFits DEF Crash
  <2>3. \A c \in Callers : HasLocals(call'[c]) /\ Salted(call'[c].meta)
    BY <1>1, NoCallFits DEF Crash
  <2> QED
    BY <2>1, <2>2, <2>3 DEF IInv, VaultTypeOK, Sound, Calls
<1>2. ASSUME NEW c \in Callers, WriteFails(c) PROVE IInv'
  <2>1. Sound'
    BY <1>2, IInvSplit DEF WriteFails, Cuts, At, Sound, Salted
  <2> QED
    BY <1>2, <2>1, ReturnKeeps DEF WriteFails
<1> QED
  BY <1>1, <1>2

\* The row is not read, and the call goes on as if there were none.
LEMMA MisreadTypes ==
  ASSUME IInv, NEW c \in Callers, ReadFails(c)
  PROVE  IInv'
<1>1. call[c] \in Calls /\ HasLocals(call[c]) /\ Salted(call[c].meta) /\ Sound
  BY AtHand
<1>2. Sound'
  BY <1>1 DEF ReadFails, Sound, Salted, Keyed
<1>3. ASSUME NEW l \in Calls, HasLocals(l), Salted(l.meta), call' = [call EXCEPT ![c] = l]
      PROVE  IInv'
  BY <1>2, <1>3, OneCall
<1>4. ASSUME NEW from, NEW pc \in Pcs,
             Misread(c, from, [call[c] EXCEPT !.pc = pc, !.cache = Empty]),
             from = "unlock_secrets", pc = "unlock_memory"
      PROVE  IInv'
  <2> DEFINE l == [call[c] EXCEPT !.pc = pc, !.cache = Empty]
  <2>1. l \in Calls /\ l.meta = call[c].meta /\ l.pc = pc /\ l.key = call[c].key
    BY <1>1, EmptyFits DEF Calls
  <2>2. call' = [call EXCEPT ![c] = l] /\ call[c].pc = from
    BY <1>4 DEF Misread, At
  <2>3. HasLocals(l)
    BY <1>1, <1>4, <2>1, <2>2 DEF HasLocals
  <2> QED
    BY <1>1, <1>3, <2>1, <2>2, <2>3
<1>5. ASSUME NEW from, NEW pc \in Pcs,
             Misread(c, from, [call[c] EXCEPT !.pc = pc, !.blob = Empty]),
             \/ from = "set_read" /\ pc = "set_secrets"
             \/ from = "delete_read" /\ pc = "delete_secrets"
      PROVE  IInv'
  <2> DEFINE l == [call[c] EXCEPT !.pc = pc, !.blob = Empty]
  <2>1. /\ l \in Calls /\ l.meta = call[c].meta /\ l.pc = pc
        /\ l.name = call[c].name /\ l.value = call[c].value /\ l.key = call[c].key
    BY <1>1, EmptyFits DEF Calls
  <2>2. call' = [call EXCEPT ![c] = l] /\ call[c].pc = from
    BY <1>5 DEF Misread, At
  <2>3. HasLocals(l)
    BY <1>1, <1>5, <2>1, <2>2 DEF HasLocals
  <2> QED
    BY <1>1, <1>3, <2>1, <2>2, <2>3
<1>6. ASSUME NEW from, NEW pc \in Pcs,
             Misread(c, from, [call[c] EXCEPT !.pc = pc, !.meta = NoMeta]),
             \/ from = "set_names" /\ pc = "set_meta"
             \/ from = "delete_names" /\ pc = "delete_meta"
      PROVE  IInv'
  <2> DEFINE l == [call[c] EXCEPT !.pc = pc, !.meta = NoMeta]
  <2>1. /\ l \in Calls /\ l.meta = NoMeta /\ l.pc = pc
        /\ l.name = call[c].name /\ l.value = call[c].value /\ l.key = call[c].key
    BY <1>1, NoMetaFits DEF Calls, OrNothing
  <2>2. call' = [call EXCEPT ![c] = l] /\ call[c].pc = from
    BY <1>6 DEF Misread, At
  <2>3. HasLocals(l)
    BY <1>1, <1>6, <2>1, <2>2, NoMetaFits DEF HasLocals
  <2> QED
    BY <1>3, <2>1, <2>2, <2>3, NoMetaFits
<1>7. {"unlock_memory", "set_secrets", "delete_secrets", "set_meta", "delete_meta"} \subseteq Pcs
  BY DEF Pcs
<1> QED
  BY <1>4, <1>5, <1>6, <1>7 DEF ReadFails

LEMMA StepIInv == IInv /\ [VaultNext]_vaultVars => IInv'
<1> SUFFICES ASSUME IInv, [VaultNext]_vaultVars PROVE IInv'
  OBVIOUS
<1>1. CASE Crash \/ \E c \in Callers : WriteFails(c) \/ ReadFails(c)
  BY <1>1, FaultTypes, MisreadTypes
<1>2. ASSUME NEW c \in Callers, Begin(c) PROVE IInv'
  <2>1. ASSUME NEW p \in Passwords, Setup(c, p) PROVE IInv'
    BY <2>1, SetupStarts
  <2>2. CASE Unlock(c, "unlock", Nothing) \/ \E p \in Passwords : Unlock(c, "change", p)
    BY <2>2, UnlockTypes
  <2>3. CASE Lock(c)
    BY <2>3, UnlockTypes
  <2>4. CASE Reset(c)
    BY <2>4, ResetTypes
  <2>5. ASSUME NEW n \in Names, DeleteKey(c, n) PROVE IInv'
    BY <2>5, DeleteTypes
  <2>6. ASSUME NEW n \in Names, NEW v \in Values, SetKey(c, n, v) PROVE IInv'
    BY <2>6, SetTypes
  <2> QED
    BY <1>2, <2>1, <2>2, <2>3, <2>4, <2>5, <2>6 DEF Begin
<1>3. ASSUME NEW c \in Callers, Continue(c) PROVE IInv'
  <2>1. CASE SetupMeta(c) \/ SetupSecrets(c) \/ SetupMemory(c)
    BY <2>1, SetupTypes
  <2>2. CASE UnlockSecrets(c) \/ UnlockMemory(c)
    BY <2>2, UnlockTypes
  <2>3. CASE ChangeCopy(c) \/ ChangeMeta(c) \/ ChangeSecrets(c) \/ ChangeMemory(c)
    BY <2>3, ChangeTypes
  <2>4. CASE ResetMeta(c) \/ ResetSecrets(c) \/ ResetMemory(c)
    BY <2>4, ResetTypes
  <2>5. CASE SetRead(c) \/ SetSecrets(c) \/ SetNames(c) \/ SetMeta(c) \/ SetMemory(c)
    BY <2>5, SetTypes
  <2>6. CASE DeleteRead(c) \/ DeleteSecrets(c) \/ DeleteNames(c) \/ DeleteMeta(c)
               \/ DeleteMemory(c)
    BY <2>6, DeleteTypes
  <2> QED
    BY <1>3, <2>1, <2>2, <2>3, <2>4, <2>5, <2>6 DEF Continue
<1>4. CASE UNCHANGED vaultVars
  BY <1>4 DEF vaultVars, IInv, VaultTypeOK, Salted
<1> QED
  BY <1>1, <1>2, <1>3, <1>4 DEF VaultNext

LEMMA IInvAlways == VaultSpec => []IInv
BY InitIInv, StepIInv, PTL DEF VaultSpec

\* Every reachable state is well typed.
THEOREM TypeCorrect == VaultSpec => []VaultTypeOK
<1>1. IInv => VaultTypeOK
  BY DEF IInv
<1> QED
  BY <1>1, IInvAlways, PTL

-----------------------------------------------------------------------------
(***************************************************************************)
(* What is in memory                                                       *)
(***************************************************************************)
SetPcs == {"set_read", "set_secrets", "set_names", "set_meta", "set_memory"}

Whole == NotTorn /\ \A c \in Callers : call[c].pc \notin SetPcs

LEMMA OtherPlaces ==
  ASSUME IInv, Whole, NEW c \in Callers, NEW l,
         call' = [call EXCEPT ![c] = l], l.pc \notin SetPcs
  PROVE  \A d \in Callers : call'[d].pc \notin SetPcs
<1>1. call \in [Callers -> Calls] /\ \A d \in Callers : call[d].pc \notin SetPcs
  BY IInvSplit DEF Whole
<1> QED
  BY <1>1

LEMMA NewPlace ==
  ASSUME IInv, Whole, NEW c \in Callers,
         \/ Back(c)
         \/ \E pc \in Pcs \ SetPcs : Goto(c, pc)
         \/ \E op, l : Start(c, op, l) /\ l.pc \notin SetPcs
  PROVE  \A d \in Callers : call'[d].pc \notin SetPcs
<1>1. CASE Back(c)
  BY <1>1, OtherPlaces DEF Back, NoCall, SetPcs
<1>2. ASSUME NEW pc \in Pcs \ SetPcs, Goto(c, pc)
      PROVE  \A d \in Callers : call'[d].pc \notin SetPcs
  <2> DEFINE l == [call[c] EXCEPT !.pc = pc]
  <2>1. call[c] \in Calls
    BY IInvSplit
  <2>2. l.pc = pc
    BY <2>1 DEF Calls
  <2> QED
    BY <1>2, <2>2, OtherPlaces DEF Goto
<1>3. ASSUME NEW op, NEW l, Start(c, op, l), l.pc \notin SetPcs
      PROVE  \A d \in Callers : call'[d].pc \notin SetPcs
  BY <1>3, OtherPlaces DEF Start
<1> QED
  BY <1>1, <1>2, <1>3

\* Setups, unlocks, locks, changes and resets.
LEMMA WholeInOperations ==
  ASSUME IInv, Whole, NEW c \in Callers, NEW p \in OrNothing(Passwords), NEW op,
         \/ Setup(c, p) \/ SetupMeta(c) \/ SetupSecrets(c) \/ SetupMemory(c)
         \/ Unlock(c, op, p) \/ UnlockSecrets(c) \/ UnlockMemory(c) \/ Lock(c)
         \/ ChangeCopy(c) \/ ChangeMeta(c) \/ ChangeSecrets(c) \/ ChangeMemory(c)
         \/ Reset(c) \/ ResetMeta(c) \/ ResetSecrets(c) \/ ResetMemory(c)
  PROVE  Whole'
<1>1. call[c] \in Calls /\ HasLocals(call[c])
  BY AtHand
<1>2. NotTorn
  BY DEF Whole
<1>3. SUFFICES NotTorn' /\ \A d \in Callers : call'[d].pc \notin SetPcs
  BY DEF Whole
<1>4. CASE Setup(c, p) \/ Unlock(c, op, p) \/ Reset(c)
  <2>1. NotTorn'
    BY <1>2, <1>4 DEF Setup, Unlock, Reset, NotTorn
  <2>2. /\ [NoCall EXCEPT !.pc = "setup_meta", !.password = p, !.key = salts + 1].pc
             \notin SetPcs
        /\ [NoCall EXCEPT !.pc = "unlock_secrets", !.key = meta.salt, !.password = p].pc
             \notin SetPcs
        /\ [NoCall EXCEPT !.pc = "reset_meta"].pc \notin SetPcs
    BY DEF NoCall, SetPcs
  <2> QED
    BY <1>4, <2>1, <2>2, NewPlace DEF Setup, Unlock, Reset
<1>5. CASE SetupMeta(c) \/ SetupSecrets(c) \/ ChangeMeta(c) \/ ChangeSecrets(c)
             \/ ResetMeta(c) \/ ResetSecrets(c)
  <2>1. NotTorn'
    BY <1>2, <1>5 DEF SetupMeta, SetupSecrets, ChangeMeta, ChangeSecrets, ResetMeta,
                      ResetSecrets, NotTorn
  <2>2. {"setup_secrets", "setup_memory", "change_secrets", "change_memory",
         "reset_secrets", "reset_memory"} \subseteq Pcs \ SetPcs
    BY DEF Pcs, SetPcs
  <2> QED
    BY <1>5, <2>1, <2>2, NewPlace
       DEF SetupMeta, SetupSecrets, ChangeMeta, ChangeSecrets, ResetMeta, ResetSecrets
<1>6. CASE SetupMemory(c) \/ ChangeMemory(c)
  <2>1. NotTorn'
    BY <1>1, <1>6, NothingIsApart, EmptyFits
       DEF SetupMemory, ChangeMemory, At, HasLocals, Calls, NotTorn
  <2> QED
    BY <1>6, <2>1, NewPlace DEF SetupMemory, ChangeMemory
<1>7. CASE UnlockMemory(c)
  <2>1. NotTorn'
    BY <1>1, <1>7, NothingIsApart DEF UnlockMemory, At, HasLocals, Calls, NotTorn
  <2>2. "change_copy" \in Pcs \ SetPcs
    BY DEF Pcs, SetPcs
  <2> QED
    BY <1>7, <2>1, <2>2, NewPlace DEF UnlockMemory
<1>8. CASE UnlockSecrets(c) \/ ChangeCopy(c)
  <2>1. NotTorn'
    BY <1>2, <1>8 DEF UnlockSecrets, ChangeCopy, NotTorn
  <2>2. CASE UnlockSecrets(c)
    <3> DEFINE l == [call[c] EXCEPT !.pc = "unlock_memory",
                                    !.cache = Open(call[c].key, secrets)]
    <3>1. call' = [call EXCEPT ![c] = l]
      BY <2>2 DEF UnlockSecrets
    <3>2. l.pc = "unlock_memory"
      BY <1>1 DEF Calls
    <3>3. l.pc \notin SetPcs
      BY <3>2 DEF SetPcs
    <3> HIDE DEF l
    <3> QED
      BY <2>1, <3>1, <3>3, OtherPlaces
  <2>3. CASE ChangeCopy(c)
    <3> DEFINE l == [call[c] EXCEPT !.pc = "change_meta", !.key = salts + 1,
                          !.cache = IF cache = Nothing THEN Empty ELSE cache]
    <3>1. call' = [call EXCEPT ![c] = l]
      BY <2>3 DEF ChangeCopy
    <3>2. l.pc = "change_meta"
      BY <1>1 DEF Calls
    <3>3. l.pc \notin SetPcs
      BY <3>2 DEF SetPcs
    <3> HIDE DEF l
    <3> QED
      BY <2>1, <3>1, <3>3, OtherPlaces
  <2> QED
    BY <1>8, <2>2, <2>3
<1>9. CASE Lock(c)
  BY <1>9 DEF Lock, NotTorn, Whole
<1>10. CASE ResetMemory(c)
  <2>1. NotTorn'
    BY <1>10 DEF ResetMemory, NotTorn
  <2> QED
    BY <1>10, <2>1, NewPlace DEF ResetMemory
<1> QED
  BY <1>4, <1>5, <1>6, <1>7, <1>8, <1>9, <1>10

LEMMA WholeInDeletes ==
  ASSUME IInv, Whole, NEW c \in Callers,
         (\E n \in Names : DeleteKey(c, n)) \/ DeleteRead(c) \/ DeleteSecrets(c)
           \/ DeleteNames(c) \/ DeleteMeta(c) \/ DeleteMemory(c) \/ WriteFails(c) \/ ReadFails(c)
  PROVE  Whole'
<1>1. call[c] \in Calls /\ HasLocals(call[c]) /\ Sound
  BY AtHand
<1>2. NotTorn
  BY DEF Whole
<1>3. SUFFICES NotTorn' /\ \A d \in Callers : call'[d].pc \notin SetPcs
  BY DEF Whole
<1>4. ASSUME NEW n \in Names, DeleteKey(c, n)
      PROVE  NotTorn' /\ \A d \in Callers : call'[d].pc \notin SetPcs
  <2>1. NotTorn'
    BY <1>2, <1>4 DEF DeleteKey, NotTorn
  <2>2. [NoCall EXCEPT !.pc = "delete_read", !.name = n].pc \notin SetPcs
    BY DEF NoCall, SetPcs
  <2> QED
    BY <1>4, <2>1, <2>2, NewPlace DEF DeleteKey
<1>5. CASE DeleteSecrets(c) \/ DeleteMeta(c)
  <2>1. NotTorn'
    BY <1>2, <1>5 DEF DeleteSecrets, DeleteMeta, WriteSecrets, WriteNames, NotTorn
  <2>2. {"delete_names", "delete_memory"} \subseteq Pcs \ SetPcs
    BY DEF Pcs, SetPcs
  <2> QED
    BY <1>5, <2>1, <2>2, NewPlace DEF DeleteSecrets, DeleteMeta, WriteSecrets, WriteNames
<1>6. CASE DeleteRead(c) \/ DeleteNames(c)
  <2>1. NotTorn'
    BY <1>2, <1>6 DEF DeleteRead, DeleteNames, ReadSecrets, ReadMeta, NotTorn
  <2>2. CASE DeleteRead(c)
    <3> DEFINE l == [call[c] EXCEPT !.pc = "delete_secrets", !.blob = secrets]
    <3>1. call' = [call EXCEPT ![c] = l]
      BY <2>2 DEF DeleteRead, ReadSecrets
    <3>2. l.pc = "delete_secrets"
      BY <1>1 DEF Calls
    <3>3. l.pc \notin SetPcs
      BY <3>2 DEF SetPcs
    <3> HIDE DEF l
    <3> QED
      BY <2>1, <3>1, <3>3, OtherPlaces
  <2>3. CASE DeleteNames(c)
    <3> DEFINE l == [call[c] EXCEPT !.pc = "delete_meta",
                          !.meta = IF meta = Nothing THEN NoMeta ELSE meta]
    <3>1. call' = [call EXCEPT ![c] = l]
      BY <2>3 DEF DeleteNames, ReadMeta
    <3>2. l.pc = "delete_meta"
      BY <1>1 DEF Calls
    <3>3. l.pc \notin SetPcs
      BY <3>2 DEF SetPcs
    <3> HIDE DEF l
    <3> QED
      BY <2>1, <3>1, <3>3, OtherPlaces
  <2> QED
    BY <1>6, <2>2, <2>3
<1>7. CASE DeleteMemory(c)
  <2>1. call[c].name \in Names
    BY <1>1, <1>7 DEF DeleteMemory, At, HasLocals
  <2>2. cache # Nothing => [cache EXCEPT ![call[c].name] = Nothing] \in Caches
    BY <1>1, <2>1, CacheFits DEF Sound, OrNothing
  <2>3. NotTorn'
    BY <1>2, <1>7, <2>2, NothingIsApart DEF DeleteMemory, NotTorn
  <2> QED
    BY <1>7, <2>3, NewPlace DEF DeleteMemory
<1>8. CASE WriteFails(c)
  <2>1. NotTorn'
    BY <1>2, <1>8 DEF WriteFails, NotTorn
  <2> QED
    BY <1>8, <2>1, NewPlace DEF WriteFails
<1>9. CASE ReadFails(c)
  <2>1. NotTorn'
    BY <1>2, <1>9 DEF ReadFails, NotTorn
  <2> DEFINE l1 == [call[c] EXCEPT !.pc = "unlock_memory", !.cache = Empty]
             l2 == [call[c] EXCEPT !.pc = "delete_secrets", !.blob = Empty]
             l3 == [call[c] EXCEPT !.pc = "delete_meta", !.meta = NoMeta]
  <2>2. \/ call' = [call EXCEPT ![c] = l1]
        \/ call' = [call EXCEPT ![c] = l2]
        \/ call' = [call EXCEPT ![c] = l3]
    <3>1. ~At(c, "set_read") /\ ~At(c, "set_names")
      BY DEF Whole, At, SetPcs
    <3> QED
      BY <1>9, <3>1 DEF ReadFails, Misread
  <2>3. l1.pc = "unlock_memory" /\ l2.pc = "delete_secrets" /\ l3.pc = "delete_meta"
    BY <1>1 DEF Calls
  <2>4. l1.pc \notin SetPcs /\ l2.pc \notin SetPcs /\ l3.pc \notin SetPcs
    BY <2>3 DEF SetPcs
  <2> HIDE DEF l1, l2, l3
  <2> QED
    BY <2>1, <2>2, <2>4, OtherPlaces
<1> QED
  BY <1>4, <1>5, <1>6, <1>7, <1>8, <1>9

LEMMA WholeStep ==
  ASSUME "set" \notin Ops
  PROVE  IInv /\ Whole /\ [VaultNext]_vaultVars => Whole'
<1> SUFFICES ASSUME IInv, Whole, [VaultNext]_vaultVars PROVE Whole'
  OBVIOUS
<1>1. CASE Crash
  BY <1>1 DEF Crash, Whole, NotTorn, NoCall, SetPcs
<1>2. ASSUME NEW c \in Callers, Begin(c) PROVE Whole'
  <2>1. ~ \E n \in Names, v \in Values : SetKey(c, n, v)
    BY DEF SetKey, Start
  <2> QED
    BY <1>2, <2>1, WholeInOperations, WholeInDeletes DEF Begin, OrNothing
<1>3. ASSUME NEW c \in Callers, Continue(c) \/ WriteFails(c) \/ ReadFails(c) PROVE Whole'
  <2>1. ~ (SetRead(c) \/ SetSecrets(c) \/ SetNames(c) \/ SetMeta(c) \/ SetMemory(c))
    BY DEF Whole, SetPcs, SetRead, SetSecrets, SetNames, SetMeta, SetMemory,
           ReadSecrets, WriteSecrets, ReadMeta, At
  <2> QED
    BY <1>3, <2>1, WholeInOperations, WholeInDeletes DEF Continue, OrNothing
<1>4. CASE UNCHANGED vaultVars
  BY <1>4 DEF vaultVars, Whole, NotTorn
<1> QED
  BY <1>1, <1>2, <1>3, <1>4 DEF VaultNext

\* However many callers set up, unlock, lock, change passwords, delete keys and
\* reset, in whatever order: there are opened keys in memory exactly while the
\* vault is unlocked.  Only set_key can break that.
THEOREM NotTornHolds ==
  ASSUME "set" \notin Ops
  PROVE  VaultSpec => []NotTorn
<1>1. VaultInit => Whole
  BY DEF VaultInit, Whole, NotTorn, NoCall, SetPcs
<1>2. Whole => NotTorn
  BY DEF Whole
<1> QED
  BY <1>1, <1>2, WholeStep, IInvAlways, PTL DEF VaultSpec

-----------------------------------------------------------------------------
(***************************************************************************)
(* One caller at a time                                                    *)
(***************************************************************************)
ToldIn(values) == \A n \in Names : values[n] \in expected[n]

\* Salts are drawn once: whatever is sealed or opened is so with a drawn one,
\* and nothing stored is sealed with the one that a setup or change has drawn.
Drawn(l) ==
    /\ \A n \in Names : secrets[n] # Nothing => secrets[n].key <= salts
    /\ \A n \in Names : l.blob[n] # Nothing => l.blob[n].key <= salts
    /\ key \in Salts => key <= salts
    /\ l.key \in Salts => l.key <= salts
    /\ meta # Nothing /\ meta.salt \in Salts => meta.salt <= salts
    /\ l.meta # Nothing /\ l.meta.salt \in Salts => l.meta.salt <= salts
    /\ l.pc \in {"setup_meta", "setup_secrets", "change_meta", "change_secrets"}
         => \A n \in Names : secrets[n] # Nothing => secrets[n].key # l.key

\* set_key began with a key, and nobody has locked the vault since.
Together(l) == NotTorn /\ (l.pc \in SetPcs => key # Nothing)

DeletePcs == {"delete_read", "delete_secrets", "delete_names", "delete_meta", "delete_memory"}

\* What a step leaves for the next one, as long as nothing is in doubt.
Lasting(l) ==
    /\ l.pc # "change_secrets" => ToldIn(Stored)
    /\ cache # Nothing => ToldIn(cache)
    /\ l.pc \notin {"change_secrets", "change_memory", "reset_secrets", "reset_memory"}
         => (key # Nothing => Configured /\ key = meta.salt)
    /\ l.pc \in {"setup_meta", "setup_secrets", "setup_memory"} => key = Nothing
    /\ l.pc \in {"setup_meta", "setup_secrets", "setup_memory",
                 "reset_meta", "reset_secrets", "reset_memory"} => ToldIn(Empty)
    /\ l.pc \in {"setup_secrets", "setup_memory", "unlock_secrets", "unlock_memory",
                 "change_secrets", "change_memory"} => Configured /\ meta.salt = l.key
    /\ l.pc \in {"unlock_memory", "change_meta", "change_secrets", "change_memory"}
         => ToldIn(l.cache)
    /\ l.pc = "change_copy" => cache # Nothing
    /\ l.pc \in SetPcs => key # Nothing /\ l.key = key /\ l.value \in expected[l.name]
    /\ l.pc \in DeletePcs => key # Nothing /\ Nothing \in expected[l.name]
    /\ l.pc \in {"set_secrets", "delete_secrets"} => l.blob = secrets
    /\ l.pc \in {"set_meta", "delete_meta"} => l.meta = meta
    /\ l.pc \in {"set_names", "set_meta", "set_memory"} => Stored[l.name] = l.value
    /\ l.pc \in {"delete_names", "delete_meta", "delete_memory"} => Stored[l.name] = Nothing

Alone(l) == Drawn(l) /\ Together(l) /\ (doubt \/ Lasting(l))

\* The caller after it has gone on, returned or begun.
LEMMA Gone ==
  ASSUME IInv, NEW c \in Callers, NEW pc, Goto(c, pc)
  PROVE  /\ call'[c].pc = pc /\ call'[c].name = call[c].name /\ call'[c].value = call[c].value
         /\ call'[c].key = call[c].key /\ call'[c].meta = call[c].meta
         /\ call'[c].blob = call[c].blob /\ call'[c].cache = call[c].cache
<1> DEFINE l == [call[c] EXCEPT !.pc = pc]
<1>1. call \in [Callers -> Calls] /\ call[c] \in Calls
  BY IInvSplit
<1>2. call' = [call EXCEPT ![c] = l]
  BY DEF Goto
<1>3. /\ l.pc = pc /\ l.name = call[c].name /\ l.value = call[c].value
      /\ l.key = call[c].key /\ l.meta = call[c].meta
      /\ l.blob = call[c].blob /\ l.cache = call[c].cache
  BY <1>1 DEF Calls
<1> HIDE DEF l
<1>4. call'[c] = l
  BY <1>1, <1>2
<1> QED
  BY <1>3, <1>4

LEMMA Returned ==
  ASSUME IInv, NEW c \in Callers, Back(c)
  PROVE  call'[c] = NoCall
BY IInvSplit DEF Back

LEMMA Started ==
  ASSUME IInv, NEW c \in Callers, NEW op, NEW l, Start(c, op, l)
  PROVE  call'[c] = l /\ call[c].pc = "idle"
BY IInvSplit DEF Start, At

LEMMA NoCallIs ==
  /\ NoCall.pc = "idle" /\ NoCall.key = Nothing /\ NoCall.meta = Nothing
  /\ \A n \in Names : NoCall.blob[n] = Nothing
BY DEF NoCall, Empty

\* A caller that has returned leaves nothing behind.
LEMMA AtRest ==
  ASSUME NEW c \in Callers, call'[c] = NoCall,
         \A n \in Names : secrets'[n] # Nothing => secrets'[n].key <= salts',
         key' \in Salts => key' <= salts',
         meta' # Nothing /\ meta'.salt \in Salts => meta'.salt <= salts',
         NotTorn',
         \/ doubt'
         \/ /\ ToldIn(Stored)'
            /\ cache' # Nothing => ToldIn(cache)'
            /\ key' # Nothing => Configured' /\ key' = meta'.salt
  PROVE  Alone(call[c])'
<1>1. Drawn(call[c])'
  BY NoCallIs, NothingIsApart DEF Drawn
<1>2. Together(call[c])'
  BY NoCallIs DEF Together, SetPcs
<1>3. doubt' \/ Lasting(call[c])'
  BY NoCallIs DEF Lasting, SetPcs, DeletePcs
<1> QED
  BY <1>1, <1>2, <1>3 DEF Alone

\* What is written, and what is drawn.
LEMMA RowIs ==
  ASSUME NEW salt, NEW password, NEW names
  PROVE  /\ MetaRow(salt, password, names).salt = salt
         /\ MetaRow(salt, password, names).password = password
BY DEF MetaRow

LEMMA RowsAreThere ==
  /\ Nothing \notin Sealed
  /\ Nothing \notin Metas
BY VaultAssumption DEF Sealed, Metas, OrNothing, Salts

LEMMA SealOpens ==
  ASSUME NEW k \in Salts, NEW values \in Caches
  PROVE  Open(k, Seal(k, values)) = values
<1>1. \A n \in Names : Open(k, Seal(k, values))[n] = values[n]
  BY RowsAreThere DEF Open, Seal, Sealed, Caches, OrNothing
<1> QED
  BY <1>1 DEF Open, Caches

\* Rows that nobody writes store the same.
LEMMA StoredStays ==
  ASSUME UNCHANGED <<meta, secrets>>
  PROVE  Stored' = Stored /\ Configured' = Configured
BY DEF Stored, Configured, Open

LEMMA NotConfigured ==
  ASSUME ~Configured
  PROVE  Stored = Empty
BY DEF Stored

\* What may be told grows when a call begins.
LEMMA Promised ==
  ASSUME NEW n \in Names, NEW S, expected \in [Names -> SUBSET OrNothing(Values)],
         Expect(n, expected[n] \cup S)
  PROVE  /\ \A m \in Names : expected[m] \subseteq expected'[m]
         /\ S \subseteq expected'[n]
BY DEF Expect

LEMMA AloneInSetups ==
  ASSUME IInv, NEW c \in Callers, Alone(call[c]),
         (\E p \in Passwords : Setup(c, p)) \/ SetupMeta(c) \/ SetupSecrets(c) \/ SetupMemory(c)
  PROVE  Alone(call[c])'
<1>1. call[c] \in Calls /\ HasLocals(call[c]) /\ Sound
  BY AtHand
<1>2. ASSUME NEW p \in Passwords, Setup(c, p) PROVE Alone(call[c])'
  <2> DEFINE l == [NoCall EXCEPT !.pc = "setup_meta", !.password = p, !.key = salts + 1]
  <2>1. /\ l.pc = "setup_meta" /\ l.key = salts + 1 /\ l.meta = Nothing
        /\ \A n \in Names : l.blob[n] = Nothing
    BY DEF NoCall, Empty
  <2>2. call'[c] = l /\ call[c].pc = "idle"
    BY <1>2, Started DEF Setup
  <2> HIDE DEF l
  <2>3. /\ UNCHANGED <<meta, secrets, key, cache, expected>>
        /\ doubt' = (doubt \/ Configured)
        /\ salts \in Nat /\ salts + 1 \in Salts /\ salts' = salts + 1
        /\ Stored' = Stored /\ (~Configured => Stored = Empty)
        /\ Configured' = Configured
    <3>1. /\ UNCHANGED <<meta, secrets, key, cache, expected>> /\ FreshSalt
          /\ doubt' = (doubt \/ Configured)
      BY <1>2 DEF Setup
    <3>2. salts \in Nat /\ salts + 1 \in Salts /\ salts' = salts + 1
      BY <1>1, <3>1, VaultAssumption DEF FreshSalt, Sound, Salts
    <3> QED
      BY <3>1, <3>2, StoredStays, NotConfigured
  <2>4. /\ \A n \in Names : secrets[n] # Nothing => secrets[n].key \in Nat
        /\ key \in Salts => key \in Nat
        /\ meta # Nothing /\ meta.salt \in Salts => meta.salt \in Nat
    BY <1>1 DEF Sound, Blobs, Sealed, OrNothing, Salts
  <2>5. Drawn(call[c])'
    BY <2>1, <2>2, <2>3, <2>4, NothingIsApart DEF Alone, Drawn
  <2>6. Together(call[c])'
    BY <2>1, <2>2, <2>3 DEF Alone, Together, NotTorn, SetPcs
  <2>7. ASSUME ~doubt' PROVE Lasting(call[c])'
    <3>1. Lasting(call[c]) /\ ~Configured
      BY <2>3, <2>7 DEF Alone
    <3>2. key = Nothing /\ ToldIn(Empty) /\ (cache # Nothing => ToldIn(cache))
      BY <2>2, <2>3, <3>1 DEF Lasting
    <3>3. ToldIn(Stored)' /\ ToldIn(Empty)' /\ (cache' # Nothing => ToldIn(cache)')
      BY <2>3, <3>1, <3>2 DEF ToldIn, Empty
    <3> QED
      BY <2>1, <2>2, <2>3, <3>2, <3>3 DEF Lasting, SetPcs, DeletePcs
  <2> QED
    BY <2>3, <2>5, <2>6, <2>7 DEF Alone
<1>3. CASE SetupMeta(c)
  <2>1. /\ call[c].pc = "setup_meta" /\ call[c].key \in Salts
        /\ call[c].password \in Passwords /\ Goto(c, "setup_secrets")
        /\ meta' = MetaRow(call[c].key, call[c].password, {})
        /\ UNCHANGED <<secrets, key, cache, expected, doubt, salts>>
    BY <1>1, <1>3 DEF SetupMeta, At, HasLocals
  <2>2. /\ call'[c].pc = "setup_secrets" /\ call'[c].key = call[c].key
        /\ call'[c].meta = call[c].meta /\ call'[c].blob = call[c].blob
    BY <2>1, Gone
  <2>3. meta' # Nothing /\ meta'.salt = call[c].key /\ meta'.password # Nothing
    BY <2>1, RowIs, RowFits, RowsAreThere, VaultAssumption DEF OrNothing
  <2>4. Drawn(call[c])'
    BY <2>1, <2>2, <2>3 DEF Alone, Drawn
  <2>5. Together(call[c])'
    BY <2>1, <2>2 DEF Alone, Together, NotTorn, SetPcs
  <2>6. ASSUME ~doubt PROVE Lasting(call[c])'
    <3>1. Lasting(call[c]) /\ Drawn(call[c])
      BY <2>6 DEF Alone
    <3>2. key = Nothing /\ ToldIn(Empty) /\ (cache # Nothing => ToldIn(cache))
      BY <2>1, <3>1 DEF Lasting
    <3>3. Configured' /\ Stored' = Empty
      BY <2>1, <2>3, <3>1 DEF Drawn, Configured, Stored, Open, Empty
    <3>4. ToldIn(Stored)' /\ ToldIn(Empty)' /\ (cache' # Nothing => ToldIn(cache)')
      BY <2>1, <3>2, <3>3 DEF ToldIn, Empty
    <3> QED
      BY <2>1, <2>2, <2>3, <3>2, <3>3, <3>4 DEF Lasting, SetPcs, DeletePcs
  <2> QED
    BY <2>1, <2>4, <2>5, <2>6 DEF Alone
<1>4. CASE SetupSecrets(c)
  <2>1. /\ call[c].pc = "setup_secrets" /\ Goto(c, "setup_memory") /\ secrets' = Empty
        /\ UNCHANGED <<meta, key, cache, expected, doubt, salts>>
    BY <1>4 DEF SetupSecrets, At
  <2>2. /\ call'[c].pc = "setup_memory" /\ call'[c].key = call[c].key
        /\ call'[c].meta = call[c].meta /\ call'[c].blob = call[c].blob
    BY <2>1, Gone
  <2>3. \A n \in Names : secrets'[n] = Nothing
    BY <2>1 DEF Empty
  <2>4. Drawn(call[c])'
    BY <2>1, <2>2, <2>3 DEF Alone, Drawn
  <2>5. Together(call[c])'
    BY <2>1, <2>2 DEF Alone, Together, NotTorn, SetPcs
  <2>6. ASSUME ~doubt PROVE Lasting(call[c])'
    <3>1. Lasting(call[c])
      BY <2>6 DEF Alone
    <3>2. /\ key = Nothing /\ ToldIn(Empty) /\ (cache # Nothing => ToldIn(cache))
          /\ Configured /\ meta.salt = call[c].key
      BY <2>1, <3>1 DEF Lasting
    <3>3. Configured' /\ Stored' = Empty
      BY <2>1, <2>3, <3>2 DEF Configured, Stored, Open, Empty
    <3>4. ToldIn(Stored)' /\ ToldIn(Empty)' /\ (cache' # Nothing => ToldIn(cache)')
      BY <2>1, <3>2, <3>3 DEF ToldIn, Empty
    <3> QED
      BY <2>1, <2>2, <3>2, <3>3, <3>4 DEF Lasting, SetPcs, DeletePcs
  <2> QED
    BY <2>1, <2>4, <2>5, <2>6 DEF Alone
<1>5. CASE SetupMemory(c)
  <2>1. /\ call[c].pc = "setup_memory" /\ call[c].key \in Salts /\ Back(c)
        /\ key' = call[c].key /\ cache' = Empty
        /\ UNCHANGED <<meta, secrets, expected, doubt, salts>>
    BY <1>1, <1>5 DEF SetupMemory, At, HasLocals
  <2>2. call'[c] = NoCall /\ Stored' = Stored /\ Configured' = Configured
    BY <2>1, Returned, StoredStays
  <2>3. NotTorn'
    BY <2>1, EmptyFits, NothingIsApart DEF NotTorn
  <2>4. ASSUME ~doubt
        PROVE  /\ ToldIn(Stored)'
               /\ cache' # Nothing => ToldIn(cache)'
               /\ key' # Nothing => Configured' /\ key' = meta'.salt
    <3>1. ToldIn(Stored) /\ ToldIn(Empty) /\ Configured /\ meta.salt = call[c].key
      BY <2>1, <2>4 DEF Alone, Lasting
    <3> QED
      BY <2>1, <2>2, <3>1 DEF ToldIn
  <2> QED
    BY <2>1, <2>2, <2>3, <2>4, AtRest DEF Alone, Drawn
<1> QED
  BY <1>2, <1>3, <1>4, <1>5

LEMMA AloneInUnlocks ==
  ASSUME IInv, NEW c \in Callers, Alone(call[c]),
         (\E op, p : Unlock(c, op, p)) \/ UnlockSecrets(c) \/ UnlockMemory(c) \/ Lock(c)
  PROVE  Alone(call[c])'
<1>1. call[c] \in Calls /\ HasLocals(call[c]) /\ Sound
  BY AtHand
<1>2. ASSUME NEW op, NEW p, Unlock(c, op, p) PROVE Alone(call[c])'
  <2> DEFINE l == [NoCall EXCEPT !.pc = "unlock_secrets", !.key = meta.salt, !.password = p]
  <2>1. /\ l.pc = "unlock_secrets" /\ l.key = meta.salt /\ l.meta = Nothing
        /\ \A n \in Names : l.blob[n] = Nothing
    BY DEF NoCall, Empty
  <2>2. call'[c] = l /\ call[c].pc = "idle"
    BY <1>2, Started DEF Unlock
  <2> HIDE DEF l
  <2>3. /\ UNCHANGED <<meta, secrets, key, cache, expected, doubt, salts>>
        /\ Stored' = Stored /\ Configured' = Configured /\ Configured /\ meta # Nothing
    BY <1>2, StoredStays DEF Unlock, Configured
  <2>4. Drawn(call[c])'
    BY <2>1, <2>2, <2>3 DEF Alone, Drawn
  <2>5. Together(call[c])'
    BY <2>1, <2>2, <2>3 DEF Alone, Together, NotTorn, SetPcs
  <2>6. ASSUME ~doubt PROVE Lasting(call[c])'
    <3>1. /\ ToldIn(Stored) /\ (cache # Nothing => ToldIn(cache))
          /\ key # Nothing => key = meta.salt
      BY <2>2, <2>6 DEF Alone, Lasting
    <3>2. ToldIn(Stored)' /\ (cache' # Nothing => ToldIn(cache)')
      BY <2>3, <3>1 DEF ToldIn
    <3> QED
      BY <2>1, <2>2, <2>3, <3>1, <3>2 DEF Lasting, SetPcs, DeletePcs
  <2> QED
    BY <2>3, <2>4, <2>5, <2>6 DEF Alone
<1>3. CASE UnlockSecrets(c)
  <2> DEFINE l == [call[c] EXCEPT !.pc = "unlock_memory", !.cache = Open(call[c].key, secrets)]
  <2>1. /\ l.pc = "unlock_memory" /\ l.key = call[c].key /\ l.meta = call[c].meta
        /\ l.blob = call[c].blob /\ l.cache = Open(call[c].key, secrets)
    BY <1>1 DEF Calls
  <2>2. call \in [Callers -> Calls] /\ call' = [call EXCEPT ![c] = l]
    BY <1>3, IInvSplit DEF UnlockSecrets
  <2> HIDE DEF l
  <2>3. call'[c] = l
    BY <2>2
  <2>4. /\ call[c].pc = "unlock_secrets"
        /\ UNCHANGED <<meta, secrets, key, cache, expected, doubt, salts>>
        /\ Stored' = Stored /\ Configured' = Configured
    BY <1>3, StoredStays DEF UnlockSecrets, At
  <2>5. Drawn(call[c])'
    BY <2>1, <2>3, <2>4 DEF Alone, Drawn
  <2>6. Together(call[c])'
    BY <2>1, <2>3, <2>4 DEF Alone, Together, NotTorn, SetPcs
  <2>7. ASSUME ~doubt PROVE Lasting(call[c])'
    <3>1. /\ ToldIn(Stored) /\ (cache # Nothing => ToldIn(cache))
          /\ key # Nothing => key = meta.salt
          /\ Configured /\ meta.salt = call[c].key
      BY <2>4, <2>7 DEF Alone, Lasting
    <3>2. l.cache = Stored
      BY <2>1, <3>1 DEF Stored
    <3>3. ToldIn(Stored)' /\ (cache' # Nothing => ToldIn(cache)') /\ ToldIn(call[c].cache)'
      BY <2>3, <2>4, <3>1, <3>2 DEF ToldIn
    <3> QED
      BY <2>1, <2>3, <2>4, <3>1, <3>3 DEF Lasting, SetPcs, DeletePcs
  <2> QED
    BY <2>4, <2>5, <2>6, <2>7 DEF Alone
<1>4. CASE UnlockMemory(c)
  <2>1. /\ call[c].pc = "unlock_memory" /\ call[c].key \in Salts /\ call[c].cache \in Caches
        /\ key' = call[c].key /\ cache' = call[c].cache
        /\ UNCHANGED <<meta, secrets, expected, doubt, salts>>
        /\ Back(c) \/ Goto(c, "change_copy")
    BY <1>1, <1>4 DEF UnlockMemory, At, HasLocals, Calls
  <2>2. Stored' = Stored /\ Configured' = Configured
    BY <2>1, StoredStays
  <2>3. NotTorn' /\ cache' # Nothing
    BY <2>1, NothingIsApart DEF NotTorn
  <2>4. ASSUME ~doubt
        PROVE  /\ ToldIn(Stored)' /\ ToldIn(cache)' /\ Configured' /\ key' = meta'.salt
    <3>1. ToldIn(Stored) /\ ToldIn(call[c].cache) /\ Configured /\ meta.salt = call[c].key
      BY <2>1, <2>4 DEF Alone, Lasting
    <3> QED
      BY <2>1, <2>2, <3>1 DEF ToldIn
  <2>5. CASE Back(c)
    <3>1. call'[c] = NoCall
      BY <2>5, Returned
    <3> QED
      BY <2>1, <2>3, <2>4, <3>1, AtRest DEF Alone, Drawn
  <2>6. CASE Goto(c, "change_copy")
    <3>1. /\ call'[c].pc = "change_copy" /\ call'[c].key = call[c].key
          /\ call'[c].meta = call[c].meta /\ call'[c].blob = call[c].blob
      BY <2>6, Gone
    <3>2. Drawn(call[c])'
      BY <2>1, <3>1 DEF Alone, Drawn
    <3>3. Together(call[c])'
      BY <2>3, <3>1 DEF Together, SetPcs
    <3>4. ASSUME ~doubt PROVE Lasting(call[c])'
      BY <2>3, <2>4, <3>1, <3>4 DEF Lasting, SetPcs, DeletePcs
    <3> QED
      BY <2>1, <3>2, <3>3, <3>4 DEF Alone
  <2> QED
    BY <2>1, <2>5, <2>6
<1>5. CASE Lock(c)
  <2>1. /\ call[c].pc = "idle" /\ key' = Nothing /\ cache' = Nothing
        /\ UNCHANGED <<meta, secrets, call, expected, doubt, salts>>
        /\ Stored' = Stored /\ Configured' = Configured
    BY <1>5, StoredStays DEF Lock, At
  <2>2. Drawn(call[c])'
    BY <2>1, NothingIsApart DEF Alone, Drawn
  <2>3. Together(call[c])'
    BY <2>1 DEF Together, NotTorn, SetPcs
  <2>4. ASSUME ~doubt PROVE Lasting(call[c])'
    <3>1. ToldIn(Stored)'
      BY <2>1, <2>4 DEF Alone, Lasting, ToldIn
    <3> QED
      BY <2>1, <3>1 DEF Lasting, SetPcs, DeletePcs
  <2> QED
    BY <2>1, <2>2, <2>3, <2>4 DEF Alone
<1> QED
  BY <1>2, <1>3, <1>4, <1>5

LEMMA AloneInChanges ==
  ASSUME IInv, NEW c \in Callers, Alone(call[c]),
         ChangeCopy(c) \/ ChangeMeta(c) \/ ChangeSecrets(c) \/ ChangeMemory(c)
  PROVE  Alone(call[c])'
<1>1. call[c] \in Calls /\ HasLocals(call[c]) /\ Sound
  BY AtHand
<1>2. CASE ChangeCopy(c)
  <2> DEFINE copy == IF cache = Nothing THEN Empty ELSE cache
             l == [call[c] EXCEPT !.pc = "change_meta", !.key = salts + 1, !.cache = copy]
  <2>1. /\ l.pc = "change_meta" /\ l.key = salts + 1 /\ l.meta = call[c].meta
        /\ l.blob = call[c].blob /\ l.cache = copy
    BY <1>1 DEF Calls
  <2>2. call \in [Callers -> Calls] /\ call' = [call EXCEPT ![c] = l]
    BY <1>2, IInvSplit DEF ChangeCopy
  <2> HIDE DEF l
  <2>3. call'[c] = l
    BY <2>2
  <2>4. /\ call[c].pc = "change_copy" /\ UNCHANGED <<meta, secrets, key, cache, expected, doubt>>
        /\ salts \in Nat /\ salts + 1 \in Salts /\ salts' = salts + 1
    BY <1>1, <1>2, VaultAssumption DEF ChangeCopy, At, FreshSalt, Sound, Salts
  <2>5. Stored' = Stored /\ Configured' = Configured
    BY <2>4, StoredStays
  <2>6. /\ \A n \in Names : secrets[n] # Nothing => secrets[n].key \in Nat
        /\ \A n \in Names : call[c].blob[n] # Nothing => call[c].blob[n].key \in Nat
        /\ key \in Salts => key \in Nat
        /\ meta # Nothing /\ meta.salt \in Salts => meta.salt \in Nat
        /\ call[c].meta # Nothing /\ call[c].meta.salt \in Salts => call[c].meta.salt \in Nat
    BY <1>1 DEF Sound, Calls, Blobs, Sealed, OrNothing, Salts
  <2>7. Drawn(call[c])'
    BY <2>1, <2>3, <2>4, <2>6 DEF Alone, Drawn
  <2>8. Together(call[c])'
    BY <2>1, <2>3, <2>4 DEF Alone, Together, NotTorn, SetPcs
  <2>9. ASSUME ~doubt PROVE Lasting(call[c])'
    <3>1. /\ ToldIn(Stored) /\ cache # Nothing /\ ToldIn(cache)
          /\ key # Nothing => Configured /\ key = meta.salt
      BY <2>4, <2>9 DEF Alone, Lasting
    <3>2. ToldIn(Stored)' /\ ToldIn(cache)' /\ ToldIn(call[c].cache)'
      BY <2>1, <2>3, <2>4, <2>5, <3>1 DEF ToldIn
    <3> QED
      BY <2>1, <2>3, <2>4, <2>5, <3>1, <3>2 DEF Lasting, SetPcs, DeletePcs
  <2> QED
    BY <2>4, <2>7, <2>8, <2>9 DEF Alone
<1>3. CASE ChangeMeta(c)
  <2>1. /\ call[c].pc = "change_meta" /\ call[c].key \in Salts
        /\ call[c].password \in Passwords /\ Goto(c, "change_secrets")
        /\ meta' = MetaRow(call[c].key, call[c].password, Held(call[c].cache))
        /\ Held(call[c].cache) \in SUBSET Names
        /\ UNCHANGED <<secrets, key, cache, expected, doubt, salts>>
    BY <1>1, <1>3 DEF ChangeMeta, At, HasLocals, Held
  <2>2. /\ call'[c].pc = "change_secrets" /\ call'[c].key = call[c].key
        /\ call'[c].meta = call[c].meta /\ call'[c].blob = call[c].blob
        /\ call'[c].cache = call[c].cache
    BY <2>1, Gone
  <2>3. meta' # Nothing /\ meta'.salt = call[c].key /\ meta'.password # Nothing
    BY <2>1, RowIs, RowFits, RowsAreThere, VaultAssumption DEF OrNothing
  <2>4. Drawn(call[c])'
    BY <2>1, <2>2, <2>3 DEF Alone, Drawn
  <2>5. Together(call[c])'
    BY <2>1, <2>2 DEF Alone, Together, NotTorn, SetPcs
  <2>6. ASSUME ~doubt PROVE Lasting(call[c])'
    <3>1. (cache # Nothing => ToldIn(cache)) /\ ToldIn(call[c].cache)
      BY <2>1, <2>6 DEF Alone, Lasting
    <3>2. (cache' # Nothing => ToldIn(cache)') /\ ToldIn(call[c].cache)' /\ Configured'
      BY <2>1, <2>2, <2>3, <3>1 DEF ToldIn, Configured
    <3> QED
      BY <2>2, <2>3, <3>2 DEF Lasting, SetPcs, DeletePcs
  <2> QED
    BY <2>1, <2>4, <2>5, <2>6 DEF Alone
<1>4. CASE ChangeSecrets(c)
  <2>1. /\ call[c].pc = "change_secrets" /\ call[c].key \in Salts /\ call[c].cache \in Caches
        /\ Goto(c, "change_memory") /\ secrets' = Seal(call[c].key, call[c].cache)
        /\ UNCHANGED <<meta, key, cache, expected, doubt, salts>>
    BY <1>1, <1>4 DEF ChangeSecrets, At, HasLocals, Calls
  <2>2. /\ call'[c].pc = "change_memory" /\ call'[c].key = call[c].key
        /\ call'[c].meta = call[c].meta /\ call'[c].blob = call[c].blob
        /\ call'[c].cache = call[c].cache
    BY <2>1, Gone
  <2>3. \A n \in Names : secrets'[n] # Nothing => secrets'[n].key = call[c].key
    BY <2>1 DEF Seal
  <2>4. Drawn(call[c])'
    BY <2>1, <2>2, <2>3 DEF Alone, Drawn
  <2>5. Together(call[c])'
    BY <2>1, <2>2 DEF Alone, Together, NotTorn, SetPcs
  <2>6. ASSUME ~doubt PROVE Lasting(call[c])'
    <3>1. /\ cache # Nothing => ToldIn(cache)
          /\ ToldIn(call[c].cache) /\ Configured /\ meta.salt = call[c].key
      BY <2>1, <2>6 DEF Alone, Lasting
    <3>2. Configured' /\ Stored' = call[c].cache
      BY <2>1, <3>1, SealOpens DEF Configured, Stored
    <3>3. ToldIn(Stored)' /\ (cache' # Nothing => ToldIn(cache)') /\ ToldIn(call[c].cache)'
      BY <2>1, <2>2, <3>1, <3>2 DEF ToldIn
    <3> QED
      BY <2>1, <2>2, <3>1, <3>2, <3>3 DEF Lasting, SetPcs, DeletePcs
  <2> QED
    BY <2>1, <2>4, <2>5, <2>6 DEF Alone
<1>5. CASE ChangeMemory(c)
  <2>1. /\ call[c].pc = "change_memory" /\ call[c].key \in Salts /\ call[c].cache \in Caches
        /\ Back(c) /\ key' = call[c].key /\ cache' = call[c].cache
        /\ UNCHANGED <<meta, secrets, expected, doubt, salts>>
    BY <1>1, <1>5 DEF ChangeMemory, At, HasLocals, Calls
  <2>2. call'[c] = NoCall /\ Stored' = Stored /\ Configured' = Configured
    BY <2>1, Returned, StoredStays
  <2>3. NotTorn'
    BY <2>1, NothingIsApart DEF NotTorn
  <2>4. ASSUME ~doubt
        PROVE  /\ ToldIn(Stored)'
               /\ cache' # Nothing => ToldIn(cache)'
               /\ key' # Nothing => Configured' /\ key' = meta'.salt
    <3>1. ToldIn(Stored) /\ ToldIn(call[c].cache) /\ Configured /\ meta.salt = call[c].key
      BY <2>1, <2>4 DEF Alone, Lasting
    <3> QED
      BY <2>1, <2>2, <3>1 DEF ToldIn
  <2> QED
    BY <2>1, <2>2, <2>3, <2>4, AtRest DEF Alone, Drawn
<1> QED
  BY <1>2, <1>3, <1>4, <1>5

LEMMA AloneInResets ==
  ASSUME IInv, NEW c \in Callers, Alone(call[c]),
         Reset(c) \/ ResetMeta(c) \/ ResetSecrets(c) \/ ResetMemory(c)
  PROVE  Alone(call[c])'
<1>1. call[c] \in Calls /\ HasLocals(call[c]) /\ Sound
  BY AtHand
<1>2. CASE Reset(c)
  <2> DEFINE l == [NoCall EXCEPT !.pc = "reset_meta"]
  <2>1. /\ l.pc = "reset_meta" /\ l.key = Nothing /\ l.meta = Nothing
        /\ \A n \in Names : l.blob[n] = Nothing
    BY DEF NoCall, Empty
  <2>2. call'[c] = l /\ call[c].pc = "idle"
    BY <1>2, Started DEF Reset
  <2> HIDE DEF l
  <2>3. /\ UNCHANGED <<meta, secrets, key, cache, salts, doubt>>
        /\ expected' = [n \in Names |-> expected[n] \cup {Nothing}]
        /\ Stored' = Stored /\ Configured' = Configured
    BY <1>2, StoredStays DEF Reset
  <2>4. Drawn(call[c])'
    BY <2>1, <2>2, <2>3, NothingIsApart DEF Alone, Drawn
  <2>5. Together(call[c])'
    BY <2>1, <2>2, <2>3 DEF Alone, Together, NotTorn, SetPcs
  <2>6. ASSUME ~doubt PROVE Lasting(call[c])'
    <3>1. /\ ToldIn(Stored) /\ (cache # Nothing => ToldIn(cache))
          /\ key # Nothing => Configured /\ key = meta.salt
      BY <2>2, <2>6 DEF Alone, Lasting
    <3>2. ToldIn(Stored)' /\ (cache' # Nothing => ToldIn(cache)') /\ ToldIn(Empty)'
      BY <2>3, <3>1 DEF ToldIn, Empty
    <3> QED
      BY <2>1, <2>2, <2>3, <3>1, <3>2 DEF Lasting, SetPcs, DeletePcs
  <2> QED
    BY <2>3, <2>4, <2>5, <2>6 DEF Alone
<1>3. CASE ResetMeta(c)
  <2>1. /\ call[c].pc = "reset_meta" /\ Goto(c, "reset_secrets")
        /\ meta' = Nothing \/ meta' = meta
        /\ UNCHANGED <<secrets, key, cache, expected, salts, doubt>>
    BY <1>3 DEF ResetMeta, At
  <2>2. /\ call'[c].pc = "reset_secrets" /\ call'[c].key = call[c].key
        /\ call'[c].meta = call[c].meta /\ call'[c].blob = call[c].blob
    BY <2>1, Gone
  <2>3. Drawn(call[c])'
    BY <2>1, <2>2 DEF Alone, Drawn
  <2>4. Together(call[c])'
    BY <2>1, <2>2 DEF Alone, Together, NotTorn, SetPcs
  <2>5. ASSUME ~doubt PROVE Lasting(call[c])'
    <3>1. ToldIn(Stored) /\ (cache # Nothing => ToldIn(cache)) /\ ToldIn(Empty)
      BY <2>1, <2>5 DEF Alone, Lasting
    <3>2. Stored' = Empty \/ Stored' = Stored
      BY <2>1, StoredStays DEF Stored, Configured
    <3>3. ToldIn(Stored)' /\ (cache' # Nothing => ToldIn(cache)') /\ ToldIn(Empty)'
      BY <2>1, <3>1, <3>2 DEF ToldIn, Empty
    <3> QED
      BY <2>2, <3>3 DEF Lasting, SetPcs, DeletePcs
  <2> QED
    BY <2>1, <2>3, <2>4, <2>5 DEF Alone
<1>4. CASE ResetSecrets(c)
  <2>1. /\ call[c].pc = "reset_secrets" /\ Goto(c, "reset_memory")
        /\ secrets' = Empty \/ secrets' = secrets
        /\ UNCHANGED <<meta, key, cache, expected, salts, doubt>>
    BY <1>4 DEF ResetSecrets, At
  <2>2. /\ call'[c].pc = "reset_memory" /\ call'[c].key = call[c].key
        /\ call'[c].meta = call[c].meta /\ call'[c].blob = call[c].blob
    BY <2>1, Gone
  <2>3. \A n \in Names : secrets'[n] # Nothing => secrets'[n] = secrets[n]
    BY <2>1 DEF Empty
  <2>4. Drawn(call[c])'
    BY <2>1, <2>2, <2>3 DEF Alone, Drawn
  <2>5. Together(call[c])'
    BY <2>1, <2>2 DEF Alone, Together, NotTorn, SetPcs
  <2>6. ASSUME ~doubt PROVE Lasting(call[c])'
    <3>1. ToldIn(Stored) /\ (cache # Nothing => ToldIn(cache)) /\ ToldIn(Empty)
      BY <2>1, <2>6 DEF Alone, Lasting
    <3>2. Stored' = Empty \/ Stored' = Stored
      BY <2>1, StoredStays DEF Stored, Configured, Open, Empty
    <3>3. ToldIn(Stored)' /\ (cache' # Nothing => ToldIn(cache)') /\ ToldIn(Empty)'
      BY <2>1, <3>1, <3>2 DEF ToldIn, Empty
    <3> QED
      BY <2>2, <3>3 DEF Lasting, SetPcs, DeletePcs
  <2> QED
    BY <2>1, <2>4, <2>5, <2>6 DEF Alone
<1>5. CASE ResetMemory(c)
  <2>1. /\ call[c].pc = "reset_memory" /\ Back(c) /\ key' = Nothing /\ cache' = Nothing
        /\ UNCHANGED <<meta, secrets, expected, salts, doubt>>
    BY <1>5 DEF ResetMemory, At
  <2>2. call'[c] = NoCall /\ Stored' = Stored
    BY <2>1, Returned, StoredStays
  <2>3. NotTorn'
    BY <2>1 DEF NotTorn
  <2>4. ASSUME ~doubt PROVE ToldIn(Stored)'
    BY <2>1, <2>2, <2>4 DEF Alone, Lasting, ToldIn
  <2> QED
    BY <2>1, <2>2, <2>3, <2>4, NothingIsApart, AtRest DEF Alone, Drawn
<1> QED
  BY <1>2, <1>3, <1>4, <1>5

LEMMA AloneInSets ==
  ASSUME IInv, NEW c \in Callers, Alone(call[c]),
         (\E n \in Names, v \in Values : SetKey(c, n, v)) \/ SetRead(c) \/ SetSecrets(c)
           \/ SetNames(c) \/ SetMeta(c) \/ SetMemory(c)
  PROVE  Alone(call[c])'
<1>1. call[c] \in Calls /\ HasLocals(call[c]) /\ Sound
  BY AtHand
<1>2. ASSUME NEW n \in Names, NEW v \in Values, SetKey(c, n, v) PROVE Alone(call[c])'
  <2> DEFINE l == [NoCall EXCEPT !.pc = "set_read", !.name = n, !.value = v, !.key = key]
  <2>1. /\ l.pc = "set_read" /\ l.key = key /\ l.meta = Nothing
        /\ l.name = n /\ l.value = v /\ \A m \in Names : l.blob[m] = Nothing
    BY DEF NoCall, Empty
  <2>2. call'[c] = l /\ call[c].pc = "idle"
    BY <1>2, Started DEF SetKey
  <2> HIDE DEF l
  <2>3. /\ UNCHANGED <<meta, secrets, key, cache, salts, doubt>> /\ key # Nothing
        /\ Stored' = Stored /\ Configured' = Configured
    BY <1>2, StoredStays DEF SetKey
  <2>4. v \in expected'[n] /\ \A m \in Names : expected[m] \subseteq expected'[m]
    BY <1>1, <1>2, Promised DEF SetKey, Sound
  <2>5. Drawn(call[c])'
    BY <2>1, <2>2, <2>3 DEF Alone, Drawn
  <2>6. Together(call[c])'
    BY <2>1, <2>2, <2>3 DEF Alone, Together, NotTorn
  <2>7. ASSUME ~doubt PROVE Lasting(call[c])'
    <3>1. /\ ToldIn(Stored) /\ (cache # Nothing => ToldIn(cache))
          /\ Configured /\ key = meta.salt
      BY <2>2, <2>3, <2>7 DEF Alone, Lasting
    <3>2. ToldIn(Stored)' /\ (cache' # Nothing => ToldIn(cache)')
      BY <2>3, <2>4, <3>1 DEF ToldIn
    <3> QED
      BY <2>1, <2>2, <2>3, <2>4, <3>1, <3>2 DEF Lasting, SetPcs, DeletePcs
  <2> QED
    BY <2>3, <2>5, <2>6, <2>7 DEF Alone
<1>3. CASE SetRead(c)
  <2> DEFINE l == [call[c] EXCEPT !.pc = "set_secrets", !.blob = secrets]
  <2>1. /\ l.pc = "set_secrets" /\ l.key = call[c].key /\ l.meta = call[c].meta
        /\ l.name = call[c].name /\ l.value = call[c].value /\ l.blob = secrets
    BY <1>1 DEF Calls
  <2>2. call \in [Callers -> Calls] /\ call' = [call EXCEPT ![c] = l]
    BY <1>3, IInvSplit DEF SetRead, ReadSecrets
  <2> HIDE DEF l
  <2>3. call'[c] = l
    BY <2>2
  <2>4. /\ call[c].pc = "set_read"
        /\ UNCHANGED <<meta, secrets, key, cache, expected, salts, doubt>>
        /\ Stored' = Stored /\ Configured' = Configured
    BY <1>3, StoredStays DEF SetRead, ReadSecrets, At
  <2>5. Drawn(call[c])'
    BY <2>1, <2>3, <2>4 DEF Alone, Drawn
  <2>6. Together(call[c])'
    BY <2>1, <2>3, <2>4 DEF Alone, Together, NotTorn, SetPcs
  <2>7. ASSUME ~doubt PROVE Lasting(call[c])'
    <3>1. /\ ToldIn(Stored) /\ (cache # Nothing => ToldIn(cache))
          /\ Configured /\ key = meta.salt
          /\ key # Nothing /\ call[c].key = key /\ call[c].value \in expected[call[c].name]
      BY <2>4, <2>7 DEF Alone, Lasting, SetPcs
    <3>2. ToldIn(Stored)' /\ (cache' # Nothing => ToldIn(cache)')
      BY <2>4, <3>1 DEF ToldIn
    <3> QED
      BY <2>1, <2>3, <2>4, <3>1, <3>2 DEF Lasting, SetPcs, DeletePcs
  <2> QED
    BY <2>4, <2>5, <2>6, <2>7 DEF Alone
<1>4. CASE SetSecrets(c)
  <2> DEFINE entry == [key |-> call[c].key, value |-> call[c].value]
  <2>1. /\ call[c].pc = "set_secrets" /\ Goto(c, "set_names")
        /\ call[c].name \in Names /\ call[c].key \in Salts /\ call[c].value \in Values
        /\ call[c].blob \in Blobs
        /\ secrets' = [call[c].blob EXCEPT ![call[c].name] = entry]
        /\ UNCHANGED <<meta, key, cache, expected, salts, doubt>>
    BY <1>1, <1>4 DEF SetSecrets, WriteSecrets, At, HasLocals, Calls
  <2>2. /\ call'[c].pc = "set_names" /\ call'[c].key = call[c].key
        /\ call'[c].name = call[c].name /\ call'[c].value = call[c].value
        /\ call'[c].meta = call[c].meta /\ call'[c].blob = call[c].blob
    BY <2>1, Gone
  <2>3. entry # Nothing /\ entry.key = call[c].key /\ entry.value = call[c].value
    BY <2>1, RowsAreThere DEF Sealed
  <2> HIDE DEF entry
  <2>4. \A m \in Names : secrets'[m] = IF m = call[c].name THEN entry ELSE call[c].blob[m]
    BY <2>1 DEF Blobs
  <2>5. Drawn(call[c])'
    BY <2>1, <2>2, <2>3, <2>4 DEF Alone, Drawn
  <2>6. Together(call[c])'
    BY <2>1, <2>2 DEF Alone, Together, NotTorn, SetPcs
  <2>7. ASSUME ~doubt PROVE Lasting(call[c])'
    <3>1. /\ ToldIn(Stored) /\ (cache # Nothing => ToldIn(cache))
          /\ Configured /\ key = meta.salt /\ call[c].blob = secrets
          /\ key # Nothing /\ call[c].key = key /\ call[c].value \in expected[call[c].name]
      BY <2>1, <2>7 DEF Alone, Lasting, SetPcs
    <3>2. /\ Configured'
          /\ Stored' = [m \in Names |-> IF m = call[c].name THEN call[c].value ELSE Stored[m]]
      BY <2>1, <2>3, <2>4, <3>1 DEF Configured, Stored, Open
    <3>3. ToldIn(Stored)' /\ (cache' # Nothing => ToldIn(cache)')
      BY <2>1, <3>1, <3>2 DEF ToldIn
    <3>4. Stored'[call[c].name] = call[c].value
      BY <2>1, <3>2
    <3> QED
      BY <2>1, <2>2, <3>1, <3>2, <3>3, <3>4 DEF Lasting, SetPcs, DeletePcs
  <2> QED
    BY <2>1, <2>5, <2>6, <2>7 DEF Alone
<1>5. CASE SetNames(c)
  <2> DEFINE m == IF meta = Nothing THEN NoMeta ELSE meta
             l == [call[c] EXCEPT !.pc = "set_meta", !.meta = m]
  <2>1. /\ l.pc = "set_meta" /\ l.key = call[c].key /\ l.meta = m
        /\ l.name = call[c].name /\ l.value = call[c].value /\ l.blob = call[c].blob
    BY <1>1 DEF Calls
  <2>2. call \in [Callers -> Calls] /\ call' = [call EXCEPT ![c] = l]
    BY <1>5, IInvSplit DEF SetNames, ReadMeta
  <2>3. m = meta \/ m.salt = Nothing
    BY NoMetaFits
  <2>4. meta # Nothing => m = meta
    OBVIOUS
  <2> HIDE DEF l, m
  <2>5. call'[c] = l
    BY <2>2
  <2>6. /\ call[c].pc = "set_names"
        /\ UNCHANGED <<meta, secrets, key, cache, expected, salts, doubt>>
        /\ Stored' = Stored /\ Configured' = Configured
    BY <1>5, StoredStays DEF SetNames, ReadMeta, At
  <2>7. Drawn(call[c])'
    BY <2>1, <2>3, <2>5, <2>6, NothingIsApart DEF Alone, Drawn
  <2>8. Together(call[c])'
    BY <2>1, <2>5, <2>6 DEF Alone, Together, NotTorn, SetPcs
  <2>9. ASSUME ~doubt PROVE Lasting(call[c])'
    <3>1. /\ ToldIn(Stored) /\ (cache # Nothing => ToldIn(cache))
          /\ Configured /\ key = meta.salt /\ Stored[call[c].name] = call[c].value
          /\ key # Nothing /\ call[c].key = key /\ call[c].value \in expected[call[c].name]
      BY <2>6, <2>9 DEF Alone, Lasting, SetPcs
    <3>2. ToldIn(Stored)' /\ (cache' # Nothing => ToldIn(cache)') /\ m = meta
      BY <2>4, <2>6, <3>1 DEF ToldIn, Configured
    <3> QED
      BY <2>1, <2>5, <2>6, <3>1, <3>2 DEF Lasting, SetPcs, DeletePcs
  <2> QED
    BY <2>6, <2>7, <2>8, <2>9 DEF Alone
<1>6. CASE SetMeta(c)
  <2> DEFINE m == [call[c].meta EXCEPT !.names = call[c].meta.names \cup {call[c].name}]
  <2>1. /\ call[c].pc = "set_meta" /\ Goto(c, "set_memory") /\ call[c].meta \in Metas
        /\ meta' = m /\ UNCHANGED <<secrets, key, cache, expected, salts, doubt>>
    BY <1>1, <1>6 DEF SetMeta, WriteNames, At, HasLocals
  <2>2. /\ call'[c].pc = "set_memory" /\ call'[c].key = call[c].key
        /\ call'[c].name = call[c].name /\ call'[c].value = call[c].value
        /\ call'[c].meta = call[c].meta /\ call'[c].blob = call[c].blob
    BY <2>1, Gone
  <2>3. m \in Metas /\ m.salt = call[c].meta.salt /\ m.password = call[c].meta.password
    BY <1>1, <1>6 DEF Metas, SetMeta, At, HasLocals
  <2> HIDE DEF m
  <2>4. m # Nothing /\ call[c].meta # Nothing
    BY <2>1, <2>3, RowsAreThere
  <2>5. Drawn(call[c])'
    BY <2>1, <2>2, <2>3, <2>4 DEF Alone, Drawn
  <2>6. Together(call[c])'
    BY <2>1, <2>2 DEF Alone, Together, NotTorn, SetPcs
  <2>7. ASSUME ~doubt PROVE Lasting(call[c])'
    <3>1. /\ ToldIn(Stored) /\ (cache # Nothing => ToldIn(cache))
          /\ Configured /\ key = meta.salt /\ Stored[call[c].name] = call[c].value
          /\ key # Nothing /\ call[c].key = key /\ call[c].value \in expected[call[c].name]
          /\ call[c].meta = meta
      BY <2>1, <2>7 DEF Alone, Lasting, SetPcs
    <3>2. Configured' /\ Stored' = Stored
      BY <2>1, <2>3, <2>4, <3>1 DEF Configured, Stored, Open
    <3>3. ToldIn(Stored)' /\ (cache' # Nothing => ToldIn(cache)')
      BY <2>1, <3>1, <3>2 DEF ToldIn
    <3> QED
      BY <2>1, <2>2, <2>3, <3>1, <3>2, <3>3 DEF Lasting, SetPcs, DeletePcs
  <2> QED
    BY <2>1, <2>5, <2>6, <2>7 DEF Alone
<1>7. CASE SetMemory(c)
  <2> DEFINE old == IF cache = Nothing THEN Empty ELSE cache
  <2>1. /\ call[c].pc = "set_memory" /\ Back(c)
        /\ call[c].name \in Names /\ call[c].value \in Values
        /\ cache' = [old EXCEPT ![call[c].name] = call[c].value]
        /\ Expect(call[c].name, {call[c].value})
        /\ UNCHANGED <<meta, secrets, key, salts, doubt>>
    BY <1>1, <1>7 DEF SetMemory, At, HasLocals
  <2>2. call'[c] = NoCall /\ Stored' = Stored /\ Configured' = Configured
    BY <2>1, Returned, StoredStays
  <2>3. old \in Caches /\ (cache # Nothing => old = cache)
    BY <1>1, EmptyFits DEF Sound, OrNothing
  <2> HIDE DEF old
  <2>4. cache' \in Caches /\ key # Nothing /\ cache # Nothing
    BY <2>1, <2>3, CacheFits DEF OrNothing, Alone, Together, NotTorn, SetPcs
  <2>5. NotTorn'
    BY <2>1, <2>4, NothingIsApart DEF NotTorn
  <2>6. ASSUME ~doubt
        PROVE  /\ ToldIn(Stored)'
               /\ cache' # Nothing => ToldIn(cache)'
               /\ key' # Nothing => Configured' /\ key' = meta'.salt
    <3>1. /\ ToldIn(Stored) /\ ToldIn(cache) /\ Configured /\ key = meta.salt
          /\ Stored[call[c].name] = call[c].value
      BY <2>1, <2>4, <2>6 DEF Alone, Lasting
    <3>2. \A n \in Names : expected'[n] = IF n = call[c].name THEN {call[c].value} ELSE expected[n]
      BY <1>1, <2>1 DEF Sound, Expect
    <3>3. \A n \in Names : cache'[n] = IF n = call[c].name THEN call[c].value ELSE cache[n]
      BY <2>1, <2>3, <2>4 DEF Caches
    <3> QED
      BY <2>1, <2>2, <3>1, <3>2, <3>3 DEF ToldIn
  <2> QED
    BY <2>1, <2>2, <2>5, <2>6, AtRest DEF Alone, Drawn
<1> QED
  BY <1>2, <1>3, <1>4, <1>5, <1>6, <1>7

LEMMA AloneInDeletes ==
  ASSUME IInv, NEW c \in Callers, Alone(call[c]),
         (\E n \in Names : DeleteKey(c, n)) \/ DeleteRead(c) \/ DeleteSecrets(c)
           \/ DeleteNames(c) \/ DeleteMeta(c) \/ DeleteMemory(c)
  PROVE  Alone(call[c])'
<1>1. call[c] \in Calls /\ HasLocals(call[c]) /\ Sound
  BY AtHand
<1>2. ASSUME NEW n \in Names, DeleteKey(c, n) PROVE Alone(call[c])'
  <2> DEFINE l == [NoCall EXCEPT !.pc = "delete_read", !.name = n]
  <2>1. /\ l.pc = "delete_read" /\ l.key = Nothing /\ l.meta = Nothing
        /\ l.name = n /\ \A m \in Names : l.blob[m] = Nothing
    BY DEF NoCall, Empty
  <2>2. call'[c] = l /\ call[c].pc = "idle"
    BY <1>2, Started DEF DeleteKey
  <2> HIDE DEF l
  <2>3. /\ UNCHANGED <<meta, secrets, key, cache, salts, doubt>> /\ key # Nothing
        /\ Stored' = Stored /\ Configured' = Configured
    BY <1>2, StoredStays DEF DeleteKey
  <2>4. Nothing \in expected'[n] /\ \A m \in Names : expected[m] \subseteq expected'[m]
    BY <1>1, <1>2, Promised DEF DeleteKey, Sound
  <2>5. Drawn(call[c])'
    BY <2>1, <2>2, <2>3, NothingIsApart DEF Alone, Drawn
  <2>6. Together(call[c])'
    BY <2>1, <2>2, <2>3 DEF Alone, Together, NotTorn
  <2>7. ASSUME ~doubt PROVE Lasting(call[c])'
    <3>1. /\ ToldIn(Stored) /\ (cache # Nothing => ToldIn(cache))
          /\ Configured /\ key = meta.salt
      BY <2>2, <2>3, <2>7 DEF Alone, Lasting
    <3>2. ToldIn(Stored)' /\ (cache' # Nothing => ToldIn(cache)')
      BY <2>3, <2>4, <3>1 DEF ToldIn
    <3> QED
      BY <2>1, <2>2, <2>3, <2>4, <3>1, <3>2 DEF Lasting, SetPcs, DeletePcs
  <2> QED
    BY <2>3, <2>5, <2>6, <2>7 DEF Alone
<1>3. CASE DeleteRead(c)
  <2> DEFINE l == [call[c] EXCEPT !.pc = "delete_secrets", !.blob = secrets]
  <2>1. /\ l.pc = "delete_secrets" /\ l.key = call[c].key /\ l.meta = call[c].meta
        /\ l.name = call[c].name /\ l.blob = secrets
    BY <1>1 DEF Calls
  <2>2. call \in [Callers -> Calls] /\ call' = [call EXCEPT ![c] = l]
    BY <1>3, IInvSplit DEF DeleteRead, ReadSecrets
  <2> HIDE DEF l
  <2>3. call'[c] = l
    BY <2>2
  <2>4. /\ call[c].pc = "delete_read"
        /\ UNCHANGED <<meta, secrets, key, cache, expected, salts, doubt>>
        /\ Stored' = Stored /\ Configured' = Configured
    BY <1>3, StoredStays DEF DeleteRead, ReadSecrets, At
  <2>5. Drawn(call[c])'
    BY <2>1, <2>3, <2>4 DEF Alone, Drawn
  <2>6. Together(call[c])'
    BY <2>1, <2>3, <2>4 DEF Alone, Together, NotTorn, SetPcs, DeletePcs
  <2>7. ASSUME ~doubt PROVE Lasting(call[c])'
    <3>1. /\ ToldIn(Stored) /\ (cache # Nothing => ToldIn(cache))
          /\ Configured /\ key = meta.salt
          /\ key # Nothing /\ Nothing \in expected[call[c].name]
      BY <2>4, <2>7 DEF Alone, Lasting, SetPcs, DeletePcs
    <3>2. ToldIn(Stored)' /\ (cache' # Nothing => ToldIn(cache)')
      BY <2>4, <3>1 DEF ToldIn
    <3> QED
      BY <2>1, <2>3, <2>4, <3>1, <3>2 DEF Lasting, SetPcs, DeletePcs
  <2> QED
    BY <2>4, <2>5, <2>6, <2>7 DEF Alone
<1>4. CASE DeleteSecrets(c)
  <2>1. /\ call[c].pc = "delete_secrets" /\ Goto(c, "delete_names")
        /\ call[c].name \in Names
        /\ call[c].blob \in Blobs
        /\ secrets' = [call[c].blob EXCEPT ![call[c].name] = Nothing]
        /\ UNCHANGED <<meta, key, cache, expected, salts, doubt>>
    BY <1>1, <1>4 DEF DeleteSecrets, WriteSecrets, At, HasLocals, Calls
  <2>2. /\ call'[c].pc = "delete_names" /\ call'[c].key = call[c].key
        /\ call'[c].name = call[c].name 
        /\ call'[c].meta = call[c].meta /\ call'[c].blob = call[c].blob
    BY <2>1, Gone
  <2>4. \A m \in Names : secrets'[m] = IF m = call[c].name THEN Nothing ELSE call[c].blob[m]
    BY <2>1 DEF Blobs
  <2>5. Drawn(call[c])'
    BY <2>1, <2>2, <2>4 DEF Alone, Drawn
  <2>6. Together(call[c])'
    BY <2>1, <2>2 DEF Alone, Together, NotTorn, SetPcs, DeletePcs
  <2>7. ASSUME ~doubt PROVE Lasting(call[c])'
    <3>1. /\ ToldIn(Stored) /\ (cache # Nothing => ToldIn(cache))
          /\ Configured /\ key = meta.salt /\ call[c].blob = secrets
          /\ key # Nothing /\ Nothing \in expected[call[c].name]
      BY <2>1, <2>7 DEF Alone, Lasting, SetPcs, DeletePcs
    <3>2. /\ Configured'
          /\ Stored' = [m \in Names |-> IF m = call[c].name THEN Nothing ELSE Stored[m]]
      BY <2>1, <2>4, <3>1 DEF Configured, Stored, Open
    <3>3. ToldIn(Stored)' /\ (cache' # Nothing => ToldIn(cache)')
      BY <2>1, <3>1, <3>2 DEF ToldIn
    <3>4. Stored'[call[c].name] = Nothing
      BY <2>1, <3>2
    <3> QED
      BY <2>1, <2>2, <3>1, <3>2, <3>3, <3>4 DEF Lasting, SetPcs, DeletePcs
  <2> QED
    BY <2>1, <2>5, <2>6, <2>7 DEF Alone
<1>5. CASE DeleteNames(c)
  <2> DEFINE m == IF meta = Nothing THEN NoMeta ELSE meta
             l == [call[c] EXCEPT !.pc = "delete_meta", !.meta = m]
  <2>1. /\ l.pc = "delete_meta" /\ l.key = call[c].key /\ l.meta = m
        /\ l.name = call[c].name /\ l.blob = call[c].blob
    BY <1>1 DEF Calls
  <2>2. call \in [Callers -> Calls] /\ call' = [call EXCEPT ![c] = l]
    BY <1>5, IInvSplit DEF DeleteNames, ReadMeta
  <2>3. m = meta \/ m.salt = Nothing
    BY NoMetaFits
  <2>4. meta # Nothing => m = meta
    OBVIOUS
  <2> HIDE DEF l, m
  <2>5. call'[c] = l
    BY <2>2
  <2>6. /\ call[c].pc = "delete_names"
        /\ UNCHANGED <<meta, secrets, key, cache, expected, salts, doubt>>
        /\ Stored' = Stored /\ Configured' = Configured
    BY <1>5, StoredStays DEF DeleteNames, ReadMeta, At
  <2>7. Drawn(call[c])'
    BY <2>1, <2>3, <2>5, <2>6, NothingIsApart DEF Alone, Drawn
  <2>8. Together(call[c])'
    BY <2>1, <2>5, <2>6 DEF Alone, Together, NotTorn, SetPcs, DeletePcs
  <2>9. ASSUME ~doubt PROVE Lasting(call[c])'
    <3>1. /\ ToldIn(Stored) /\ (cache # Nothing => ToldIn(cache))
          /\ Configured /\ key = meta.salt /\ Stored[call[c].name] = Nothing
          /\ key # Nothing /\ Nothing \in expected[call[c].name]
      BY <2>6, <2>9 DEF Alone, Lasting, SetPcs, DeletePcs
    <3>2. ToldIn(Stored)' /\ (cache' # Nothing => ToldIn(cache)') /\ m = meta
      BY <2>4, <2>6, <3>1 DEF ToldIn, Configured
    <3> QED
      BY <2>1, <2>5, <2>6, <3>1, <3>2 DEF Lasting, SetPcs, DeletePcs
  <2> QED
    BY <2>6, <2>7, <2>8, <2>9 DEF Alone
<1>6. CASE DeleteMeta(c)
  <2> DEFINE m == [call[c].meta EXCEPT !.names = call[c].meta.names \ {call[c].name}]
  <2>1. /\ call[c].pc = "delete_meta" /\ Goto(c, "delete_memory") /\ call[c].meta \in Metas
        /\ meta' = m /\ UNCHANGED <<secrets, key, cache, expected, salts, doubt>>
    BY <1>1, <1>6 DEF DeleteMeta, WriteNames, At, HasLocals
  <2>2. /\ call'[c].pc = "delete_memory" /\ call'[c].key = call[c].key
        /\ call'[c].name = call[c].name 
        /\ call'[c].meta = call[c].meta /\ call'[c].blob = call[c].blob
    BY <2>1, Gone
  <2>3. m \in Metas /\ m.salt = call[c].meta.salt /\ m.password = call[c].meta.password
    BY <1>1, <1>6 DEF Metas, DeleteMeta, At, HasLocals
  <2> HIDE DEF m
  <2>4. m # Nothing /\ call[c].meta # Nothing
    BY <2>1, <2>3, RowsAreThere
  <2>5. Drawn(call[c])'
    BY <2>1, <2>2, <2>3, <2>4 DEF Alone, Drawn
  <2>6. Together(call[c])'
    BY <2>1, <2>2 DEF Alone, Together, NotTorn, SetPcs, DeletePcs
  <2>7. ASSUME ~doubt PROVE Lasting(call[c])'
    <3>1. /\ ToldIn(Stored) /\ (cache # Nothing => ToldIn(cache))
          /\ Configured /\ key = meta.salt /\ Stored[call[c].name] = Nothing
          /\ key # Nothing /\ Nothing \in expected[call[c].name]
          /\ call[c].meta = meta
      BY <2>1, <2>7 DEF Alone, Lasting, SetPcs, DeletePcs
    <3>2. Configured' /\ Stored' = Stored
      BY <2>1, <2>3, <2>4, <3>1 DEF Configured, Stored, Open
    <3>3. ToldIn(Stored)' /\ (cache' # Nothing => ToldIn(cache)')
      BY <2>1, <3>1, <3>2 DEF ToldIn
    <3> QED
      BY <2>1, <2>2, <2>3, <3>1, <3>2, <3>3 DEF Lasting, SetPcs, DeletePcs
  <2> QED
    BY <2>1, <2>5, <2>6, <2>7 DEF Alone
<1>7. CASE DeleteMemory(c)
  <2>1. /\ call[c].pc = "delete_memory" /\ Back(c) /\ call[c].name \in Names
        /\ cache' = IF cache = Nothing THEN Nothing
                    ELSE [cache EXCEPT ![call[c].name] = Nothing]
        /\ Expect(call[c].name, {Nothing})
        /\ UNCHANGED <<meta, secrets, key, salts, doubt>>
    BY <1>1, <1>7 DEF DeleteMemory, At, HasLocals
  <2>2. call'[c] = NoCall /\ Stored' = Stored /\ Configured' = Configured
    BY <2>1, Returned, StoredStays
  <2>3. cache # Nothing => cache \in Caches /\ cache' \in Caches
    BY <1>1, <2>1, CacheFits DEF Sound, OrNothing
  <2>4. NotTorn'
    BY <2>1, <2>3, NothingIsApart DEF NotTorn, Alone, Together
  <2>5. ASSUME ~doubt
        PROVE  /\ ToldIn(Stored)'
               /\ cache' # Nothing => ToldIn(cache)'
               /\ key' # Nothing => Configured' /\ key' = meta'.salt
    <3>1. /\ ToldIn(Stored) /\ (cache # Nothing => ToldIn(cache))
          /\ Configured /\ key = meta.salt /\ Stored[call[c].name] = Nothing
      BY <2>1, <2>5 DEF Alone, Lasting, DeletePcs
    <3>2. \A n \in Names : expected'[n] = IF n = call[c].name THEN {Nothing} ELSE expected[n]
      BY <1>1, <2>1 DEF Sound, Expect
    <3>3. cache # Nothing =>
            \A n \in Names : cache'[n] = IF n = call[c].name THEN Nothing ELSE cache[n]
      BY <2>1, <2>3 DEF Caches
    <3> QED
      BY <2>1, <2>2, <3>1, <3>2, <3>3 DEF ToldIn
  <2> QED
    BY <2>1, <2>2, <2>4, <2>5, AtRest DEF Alone, Drawn
<1> QED
  BY <1>2, <1>3, <1>4, <1>5, <1>6, <1>7

LEMMA AloneInFaults ==
  ASSUME IInv, NEW c \in Callers, Alone(call[c]), Crash \/ WriteFails(c)
  PROVE  Alone(call[c])'
<1>1. UNCHANGED <<meta, secrets, salts, expected>>
  BY DEF Crash, WriteFails
<1>2. Stored' = Stored /\ Configured' = Configured
  BY <1>1, StoredStays
<1>3. CASE Crash
  <2>1. /\ call'[c] = NoCall /\ key' = Nothing /\ cache' = Nothing
        /\ doubt' = (doubt \/ \E d \in Callers : Cuts(d))
    BY <1>3 DEF Crash
  <2>2. NotTorn'
    BY <2>1 DEF NotTorn
  <2>3. ASSUME ~doubt' PROVE ToldIn(Stored)'
    <3>1. ~doubt /\ call[c].pc # "change_secrets"
      BY <2>1, <2>3 DEF Cuts, At
    <3> QED
      BY <1>1, <1>2, <3>1 DEF Alone, Lasting, ToldIn
  <2> QED
    BY <1>1, <2>1, <2>2, <2>3, NothingIsApart, AtRest DEF Alone, Drawn
<1>4. CASE WriteFails(c)
  <2>1. /\ Back(c) /\ UNCHANGED <<key, cache>> /\ doubt' = (doubt \/ Cuts(c))
        /\ call[c].pc \notin {"change_memory", "reset_secrets", "reset_memory"}
    BY <1>4 DEF WriteFails
  <2>2. call'[c] = NoCall
    BY <2>1, Returned
  <2>3. NotTorn'
    BY <2>1 DEF NotTorn, Alone, Together
  <2>4. ASSUME ~doubt'
        PROVE  /\ ToldIn(Stored)'
               /\ cache' # Nothing => ToldIn(cache)'
               /\ key' # Nothing => Configured' /\ key' = meta'.salt
    <3>1. ~doubt /\ call[c].pc # "change_secrets"
      BY <2>1, <2>4 DEF Cuts, At
    <3>2. /\ ToldIn(Stored) /\ (cache # Nothing => ToldIn(cache))
          /\ key # Nothing => Configured /\ key = meta.salt
      BY <2>1, <3>1 DEF Alone, Lasting
    <3> QED
      BY <1>1, <1>2, <2>1, <3>2 DEF ToldIn
  <2> QED
    BY <1>1, <2>1, <2>2, <2>3, <2>4, AtRest DEF Alone, Drawn
<1> QED
  BY <1>3, <1>4

LEMMA AloneInMisreads ==
  ASSUME IInv, NEW c \in Callers, Alone(call[c]), ReadFails(c)
  PROVE  Alone(call[c])'
<1>1. /\ call \in [Callers -> Calls] /\ call[c] \in Calls
      /\ UNCHANGED <<meta, secrets, key, cache, salts, expected>> /\ doubt'
  BY AtHand, IInvSplit DEF ReadFails
<1>2. ASSUME NEW l, call' = [call EXCEPT ![c] = l], l.key = call[c].key,
             l.pc \in SetPcs => call[c].pc \in SetPcs,
             l.pc \notin {"setup_meta", "setup_secrets", "change_meta", "change_secrets"},
             l.blob = call[c].blob \/ l.blob = Empty,
             l.meta = call[c].meta \/ l.meta = NoMeta
      PROVE  Alone(call[c])'
  <2>1. call'[c] = l
    BY <1>1, <1>2
  <2>2. Drawn(call[c])'
    BY <1>1, <1>2, <2>1, NoMetaFits, NothingIsApart DEF Alone, Drawn, Empty
  <2>3. Together(call[c])'
    BY <1>1, <1>2, <2>1 DEF Alone, Together, NotTorn
  <2> QED
    BY <1>1, <2>2, <2>3 DEF Alone
<1>3. ASSUME NEW pc, pc = "unlock_memory",
             call' = [call EXCEPT ![c] = [call[c] EXCEPT !.pc = pc, !.cache = Empty]]
      PROVE  Alone(call[c])'
  <2> DEFINE l == [call[c] EXCEPT !.pc = pc, !.cache = Empty]
  <2>1. l.pc = pc /\ l.key = call[c].key /\ l.blob = call[c].blob /\ l.meta = call[c].meta
    BY <1>1 DEF Calls
  <2> HIDE DEF l
  <2> QED
    BY <1>2, <1>3, <2>1 DEF SetPcs, l
<1>4. ASSUME NEW pc, call' = [call EXCEPT ![c] = [call[c] EXCEPT !.pc = pc, !.blob = Empty]],
             \/ pc = "set_secrets" /\ call[c].pc = "set_read"
             \/ pc = "delete_secrets"
      PROVE  Alone(call[c])'
  <2> DEFINE l == [call[c] EXCEPT !.pc = pc, !.blob = Empty]
  <2>1. l.pc = pc /\ l.key = call[c].key /\ l.blob = Empty /\ l.meta = call[c].meta
    BY <1>1 DEF Calls
  <2> HIDE DEF l
  <2> QED
    BY <1>2, <1>4, <2>1 DEF SetPcs, l
<1>5. ASSUME NEW pc, call' = [call EXCEPT ![c] = [call[c] EXCEPT !.pc = pc, !.meta = NoMeta]],
             \/ pc = "set_meta" /\ call[c].pc = "set_names"
             \/ pc = "delete_meta"
      PROVE  Alone(call[c])'
  <2> DEFINE l == [call[c] EXCEPT !.pc = pc, !.meta = NoMeta]
  <2>1. l.pc = pc /\ l.key = call[c].key /\ l.blob = call[c].blob /\ l.meta = NoMeta
    BY <1>1 DEF Calls
  <2> HIDE DEF l
  <2> QED
    BY <1>2, <1>5, <2>1 DEF SetPcs, l
<1> QED
  BY <1>3, <1>4, <1>5 DEF ReadFails, Misread, At

LEMMA AloneFirst ==
  ASSUME NEW c \in Callers, VaultInit
  PROVE  Alone(call[c])
<1>1. call[c] = NoCall /\ Stored = Empty /\ \A n \in Names : secrets[n] = Nothing
  BY NotConfigured DEF VaultInit, Configured, Empty
<1>2. Drawn(call[c])
  BY <1>1, NoCallIs, NothingIsApart DEF VaultInit, Drawn
<1>3. Together(call[c])
  BY <1>1, NoCallIs DEF VaultInit, Together, NotTorn, SetPcs
<1>4. ToldIn(Stored)
  BY <1>1 DEF VaultInit, ToldIn, Empty
<1>5. Lasting(call[c])
  BY <1>1, <1>4, NoCallIs DEF VaultInit, Lasting, SetPcs, DeletePcs
<1> QED
  BY <1>2, <1>3, <1>5 DEF Alone

LEMMA AloneStays ==
  ASSUME NEW c, UNCHANGED vaultVars, Alone(call[c])
  PROVE  Alone(call[c])'
<1>1. UNCHANGED <<meta, secrets, key, cache, call, salts, expected, doubt>>
  BY DEF vaultVars
<1>2. Stored' = Stored /\ Configured' = Configured
  BY <1>1, StoredStays
<1>3. Drawn(call[c])'
  BY <1>1 DEF Alone, Drawn
<1>4. Together(call[c])'
  BY <1>1 DEF Alone, Together, NotTorn
<1>5. ASSUME ~doubt PROVE Lasting(call[c])'
  BY <1>1, <1>2, <1>5 DEF Alone, Lasting, ToldIn
<1> QED
  BY <1>1, <1>3, <1>4, <1>5 DEF Alone

LEMMA AloneStep ==
  ASSUME NEW c, Callers = {c}
  PROVE  IInv /\ Alone(call[c]) /\ [VaultNext]_vaultVars => Alone(call[c])'
<1> SUFFICES ASSUME IInv, Alone(call[c]), [VaultNext]_vaultVars PROVE Alone(call[c])'
  OBVIOUS
<1>1. c \in Callers
  OBVIOUS
<1>2. CASE Crash \/ WriteFails(c) \/ ReadFails(c)
  BY <1>1, <1>2, AloneInFaults, AloneInMisreads
<1>3. CASE Begin(c)
  BY <1>1, <1>3, AloneInSetups, AloneInUnlocks, AloneInResets, AloneInSets, AloneInDeletes
     DEF Begin
<1>4. CASE Continue(c)
  BY <1>1, <1>4, AloneInSetups, AloneInUnlocks, AloneInChanges, AloneInResets, AloneInSets,
     AloneInDeletes DEF Continue
<1>5. CASE UNCHANGED vaultVars
  BY <1>5, AloneStays
<1> QED
  BY <1>2, <1>3, <1>4, <1>5 DEF VaultNext

LEMMA AloneAlways ==
  ASSUME NEW c, Callers = {c}
  PROVE  VaultSpec => [](IInv /\ Alone(call[c]))
<1>1. VaultInit => Alone(call[c])
  BY AloneFirst
<1> QED
  BY <1>1, AloneStep, IInvAlways, PTL DEF VaultSpec

\* One caller at a time, whatever it does in whatever order, and with writes
\* that fail and the process dying between any two steps: as long as no
\* password change was cut between its two rows, and no row that is there read
\* as absent, every name opens to what the last acknowledged call left there, or
\* to what a cut call wanted there.
THEOREM KeysDurableForOne ==
  ASSUME NEW c, Callers = {c}
  PROVE  VaultSpec => []KeysDurable
<1>1. Alone(call[c]) => KeysDurable
  BY DEF Alone, Lasting, KeysDurable, KeysSurvive, Idle, At, ToldIn
<1> QED
  BY <1>1, AloneAlways, PTL

\* Likewise an unlocked vault holds the key its password derives, and offers
\* what is stored or what a failed call has left in doubt.
THEOREM MemoryAgreesForOne ==
  ASSUME NEW c, Callers = {c}
  PROVE  VaultSpec => []MemoryAgrees
<1>1. Alone(call[c]) => MemoryAgrees
  BY DEF Alone, Together, NotTorn, Lasting, MemoryAgrees, Idle, At, ToldIn
<1> QED
  BY <1>1, AloneAlways, PTL
=============================================================================
