-------------------------------- MODULE Vault --------------------------------
(***************************************************************************)
(* The key vault (llm/vault.py): API keys sealed under a key derived from  *)
(* a master password, stored in two rows of app_settings, and opened into  *)
(* memory while the vault is unlocked.                                     *)
(*                                                                         *)
(* Every operation runs in a worker thread of its own (routes_settings.py) *)
(* and reads and writes each row in a separate transaction; only the two   *)
(* variables in memory are changed together, under _state_lock.  An action *)
(* is one access to a row or to memory, and a thread may be overtaken      *)
(* between any two.                                                        *)
(*                                                                         *)
(* A sealed key is a pair of the key it was sealed with and its value; the *)
(* key derived from a password and a salt is the salt's number, and a      *)
(* password that is not the verifier's derives no key, so calls that are   *)
(* refused change nothing and are left out.  A read that raises is taken   *)
(* for an absent row (_get); a write that raises ends the operation.       *)
(***************************************************************************)
EXTENDS Naturals

CONSTANTS
    Callers,     \* threads that may be inside an operation at once
    Names,       \* providers, and "custom"
    Values,      \* API keys
    Passwords,   \* master passwords
    Ops,         \* the operations a configuration looks at
    VaultFaults, \* what may go wrong: "crash", "failing_write", "failing_read"
    MaxSalts,    \* bound on the salts drawn, one by each setup and change
    Nothing      \* no row, no entry, None

ASSUME VaultAssumption ==
    /\ Nothing \notin Values \cup Passwords
    /\ Nothing \notin Nat
    /\ Nothing \notin [Names -> Values \cup {Nothing}]
    /\ Nothing \notin [key : Nat, value : Values]
    /\ Nothing \notin [salt : Nat \cup {Nothing}, password : Passwords \cup {Nothing},
                       names : SUBSET Names]
    /\ MaxSalts \in Nat

VARIABLES
    meta,     \* the vault_meta row
    secrets,  \* the vault_secrets row; an absent row reads as an empty one
    key,      \* _derived_key
    cache,    \* _secrets_cache
    call,     \* where each caller is, and its local variables
    \* history: salts drawn, what a caller may expect each name to hold, and
    \* whether a password change was cut between its two rows or a row that
    \* could not be read was taken for an absent one
    salts, expected, doubt

rows    == <<meta, secrets>>
memory  == <<key, cache>>
history == <<salts, expected, doubt>>
vaultVars == <<rows, memory, call, history>>

-----------------------------------------------------------------------------
OrNothing(S) == S \cup {Nothing}

Salts == 1 .. MaxSalts
Sealed == [key : Salts, value : Values]
Metas == [salt : OrNothing(Salts), password : OrNothing(Passwords), names : SUBSET Names]
Blobs == [Names -> OrNothing(Sealed)]
Caches == [Names -> OrNothing(Values)]

Empty == [n \in Names |-> Nothing]

Pcs == {"idle", "setup_meta", "setup_secrets", "setup_memory",
        "unlock_secrets", "unlock_memory",
        "change_copy", "change_meta", "change_secrets", "change_memory",
        "reset_meta", "reset_secrets", "reset_memory",
        "set_read", "set_secrets", "set_names", "set_meta", "set_memory",
        "delete_read", "delete_secrets", "delete_names", "delete_meta", "delete_memory"}

NoCall == [pc |-> "idle", name |-> Nothing, value |-> Nothing, password |-> Nothing,
           key |-> Nothing, meta |-> Nothing, blob |-> Empty, cache |-> Empty]

VaultInit ==
    /\ meta = Nothing
    /\ secrets = Empty
    /\ key = Nothing
    /\ cache = Nothing
    /\ call = [c \in Callers |-> NoCall]
    /\ salts = 0
    /\ expected = [n \in Names |-> {Nothing}]
    /\ doubt = FALSE

\* is_configured
Configured == meta # Nothing /\ (meta # Nothing => meta.password # Nothing)

At(c, pc) == call[c].pc = pc

Idle == \A c \in Callers : At(c, "idle")

\* A new call with these local variables, the next step of one, and its end.
Start(c, op, locals) ==
    /\ op \in Ops
    /\ At(c, "idle")
    /\ call' = [call EXCEPT ![c] = locals]

Goto(c, pc) == call' = [call EXCEPT ![c].pc = pc]

Back(c) == call' = [call EXCEPT ![c] = NoCall]

\* os.urandom and _derive
FreshSalt == salts < MaxSalts /\ salts' = salts + 1

MetaRow(salt, password, names) == [salt |-> salt, password |-> password, names |-> names]

\* What the stored secrets hold for whoever has key k: an entry sealed with
\* another key is skipped as corrupt.
Open(k, blob) ==
    [n \in Names |-> IF blob[n] # Nothing /\ (blob[n] # Nothing => blob[n].key = k)
                     THEN blob[n].value ELSE Nothing]

Seal(k, values) ==
    [n \in Names |-> IF values[n] = Nothing THEN Nothing
                     ELSE [key |-> k, value |-> values[n]]]

Held(values) == {n \in Names : values[n] # Nothing}

-----------------------------------------------------------------------------
(***************************************************************************)
(* setup                                                                   *)
(***************************************************************************)
\* Not configured yet, or the row cannot be read: draw a salt, derive a key.
Setup(c, password) ==
    /\ ~Configured \/ "failing_read" \in VaultFaults
    /\ doubt' = (doubt \/ Configured)
    /\ FreshSalt
    /\ Start(c, "setup", [NoCall EXCEPT !.pc = "setup_meta", !.password = password,
                                        !.key = salts + 1])
    /\ UNCHANGED <<rows, memory, expected>>

SetupMeta(c) ==
    /\ At(c, "setup_meta")
    /\ meta' = MetaRow(call[c].key, call[c].password, {})
    /\ Goto(c, "setup_secrets")
    /\ UNCHANGED <<secrets, memory, history>>

SetupSecrets(c) ==
    /\ At(c, "setup_secrets")
    /\ secrets' = Empty
    /\ Goto(c, "setup_memory")
    /\ UNCHANGED <<meta, memory, history>>

SetupMemory(c) ==
    /\ At(c, "setup_memory")
    /\ key' = call[c].key
    /\ cache' = Empty
    /\ Back(c)
    /\ UNCHANGED <<rows, history>>

-----------------------------------------------------------------------------
(***************************************************************************)
(* unlock, lock, change_password, reset                                    *)
(***************************************************************************)
\* The password is right; a password change unlocks first, and carries the
\* new password along.
Unlock(c, op, newPassword) ==
    /\ Configured
    /\ Start(c, op, [NoCall EXCEPT !.pc = "unlock_secrets", !.key = meta.salt,
                                   !.password = newPassword])
    /\ UNCHANGED <<rows, memory, history>>

UnlockSecrets(c) ==
    /\ At(c, "unlock_secrets")
    /\ call' = [call EXCEPT ![c].pc = "unlock_memory",
                            ![c].cache = Open(call[c].key, secrets)]
    /\ UNCHANGED <<rows, memory, history>>

UnlockMemory(c) ==
    /\ At(c, "unlock_memory")
    /\ key' = call[c].key
    /\ cache' = call[c].cache
    /\ IF call[c].password = Nothing THEN Back(c) ELSE Goto(c, "change_copy")
    /\ UNCHANGED <<rows, history>>

Lock(c) ==
    /\ "lock" \in Ops
    /\ At(c, "idle")
    /\ key' = Nothing
    /\ cache' = Nothing
    /\ UNCHANGED <<rows, call, history>>

\* Copies what is in memory and draws a new salt.
ChangeCopy(c) ==
    /\ At(c, "change_copy")
    /\ FreshSalt
    /\ call' = [call EXCEPT ![c].pc = "change_meta", ![c].key = salts + 1,
                            ![c].cache = IF cache = Nothing THEN Empty ELSE cache]
    /\ UNCHANGED <<rows, memory, expected, doubt>>

ChangeMeta(c) ==
    /\ At(c, "change_meta")
    /\ meta' = MetaRow(call[c].key, call[c].password, Held(call[c].cache))
    /\ Goto(c, "change_secrets")
    /\ UNCHANGED <<secrets, memory, history>>

\* Mutant: seals the copies with the key in memory, which is the old one.
ChangeSecretsOldKey(c) ==
    /\ At(c, "change_secrets")
    /\ secrets' = Seal(key, call[c].cache)
    /\ Goto(c, "change_memory")
    /\ UNCHANGED <<meta, memory, history>>

ChangeSecrets(c) ==
    /\ At(c, "change_secrets")
    /\ secrets' = Seal(call[c].key, call[c].cache)
    /\ Goto(c, "change_memory")
    /\ UNCHANGED <<meta, memory, history>>

ChangeMemory(c) ==
    /\ At(c, "change_memory")
    /\ key' = call[c].key
    /\ cache' = call[c].cache
    /\ Back(c)
    /\ UNCHANGED <<rows, history>>

Reset(c) ==
    /\ Start(c, "reset", [NoCall EXCEPT !.pc = "reset_meta"])
    /\ expected' = [n \in Names |-> expected[n] \cup {Nothing}]
    /\ UNCHANGED <<rows, memory, salts, doubt>>

\* _delete hides its failures: the row may stay.
ResetMeta(c) ==
    /\ At(c, "reset_meta")
    /\ \/ meta' = Nothing
       \/ "failing_write" \in VaultFaults /\ UNCHANGED meta
    /\ Goto(c, "reset_secrets")
    /\ UNCHANGED <<secrets, memory, history>>

ResetSecrets(c) ==
    /\ At(c, "reset_secrets")
    /\ \/ secrets' = Empty
       \/ "failing_write" \in VaultFaults /\ UNCHANGED secrets
    /\ Goto(c, "reset_memory")
    /\ UNCHANGED <<meta, memory, history>>

ResetMemory(c) ==
    /\ At(c, "reset_memory")
    /\ key' = Nothing
    /\ cache' = Nothing
    /\ Back(c)
    /\ UNCHANGED <<rows, history>>

-----------------------------------------------------------------------------
(***************************************************************************)
(* set_key, delete_key                                                     *)
(***************************************************************************)
Expect(n, S) == expected' = [expected EXCEPT ![n] = S]

SetKey(c, n, v) ==
    /\ key # Nothing
    /\ Start(c, "set", [NoCall EXCEPT !.pc = "set_read", !.name = n, !.value = v,
                                      !.key = key])
    /\ Expect(n, expected[n] \cup {v})
    /\ UNCHANGED <<rows, memory, salts, doubt>>

DeleteKey(c, n) ==
    /\ key # Nothing
    /\ Start(c, "delete", [NoCall EXCEPT !.pc = "delete_read", !.name = n])
    /\ Expect(n, expected[n] \cup {Nothing})
    /\ UNCHANGED <<rows, memory, salts, doubt>>

\* Both read the secrets row, write it back with one entry changed, and do the
\* same with the names in the meta row.
ReadSecrets(c, from, to) ==
    /\ At(c, from)
    /\ call' = [call EXCEPT ![c].pc = to, ![c].blob = secrets]
    /\ UNCHANGED <<rows, memory, history>>

WriteSecrets(c, from, to, entry) ==
    /\ At(c, from)
    /\ secrets' = [call[c].blob EXCEPT ![call[c].name] = entry]
    /\ Goto(c, to)
    /\ UNCHANGED <<meta, memory, history>>

\* A missing row is taken for an empty one.
NoMeta == MetaRow(Nothing, Nothing, {})

ReadMeta(c, from, to) ==
    /\ At(c, from)
    /\ call' = [call EXCEPT ![c].pc = to,
                  ![c].meta = IF meta = Nothing THEN NoMeta ELSE meta]
    /\ UNCHANGED <<rows, memory, history>>

WriteNames(c, from, to, names) ==
    /\ At(c, from)
    /\ meta' = [call[c].meta EXCEPT !.names = names]
    /\ Goto(c, to)
    /\ UNCHANGED <<secrets, memory, history>>

SetRead(c) == ReadSecrets(c, "set_read", "set_secrets")

SetSecrets(c) ==
    WriteSecrets(c, "set_secrets", "set_names", [key |-> call[c].key, value |-> call[c].value])

SetNames(c) == ReadMeta(c, "set_names", "set_meta")

SetMeta(c) ==
    /\ At(c, "set_meta")
    /\ WriteNames(c, "set_meta", "set_memory", call[c].meta.names \cup {call[c].name})

\* Mutant: the opened keys are not told of the new one.
SetMemoryStale(c) ==
    /\ At(c, "set_memory")
    /\ Expect(call[c].name, {call[c].value})
    /\ Back(c)
    /\ UNCHANGED <<rows, memory, salts, doubt>>

\* A cache that is gone is started again.
SetMemory(c) ==
    /\ At(c, "set_memory")
    /\ cache' = [(IF cache = Nothing THEN Empty ELSE cache)
                    EXCEPT ![call[c].name] = call[c].value]
    /\ Expect(call[c].name, {call[c].value})
    /\ Back(c)
    /\ UNCHANGED <<rows, key, salts, doubt>>

DeleteRead(c) == ReadSecrets(c, "delete_read", "delete_secrets")

DeleteSecrets(c) == WriteSecrets(c, "delete_secrets", "delete_names", Nothing)

DeleteNames(c) == ReadMeta(c, "delete_names", "delete_meta")

DeleteMeta(c) ==
    /\ At(c, "delete_meta")
    /\ WriteNames(c, "delete_meta", "delete_memory", call[c].meta.names \ {call[c].name})

DeleteMemory(c) ==
    /\ At(c, "delete_memory")
    /\ cache' = IF cache = Nothing THEN Nothing
                ELSE [cache EXCEPT ![call[c].name] = Nothing]
    /\ Expect(call[c].name, {Nothing})
    /\ Back(c)
    /\ UNCHANGED <<rows, key, salts, doubt>>

-----------------------------------------------------------------------------
(***************************************************************************)
(* Faults                                                                  *)
(***************************************************************************)
Cuts(c) == At(c, "change_secrets")

\* A write that raises ends the operation with an error.
WriteFails(c) ==
    /\ "failing_write" \in VaultFaults
    /\ call[c].pc \in {"setup_meta", "setup_secrets", "change_meta", "change_secrets",
                       "set_secrets", "set_meta", "delete_secrets", "delete_meta"}
    /\ Back(c)
    /\ doubt' = (doubt \/ Cuts(c))
    /\ UNCHANGED <<rows, memory, salts, expected>>

\* A read that raises, of a row that is there; of an absent one it is the same.
Misread(c, from, locals) ==
    /\ At(c, from)
    /\ call' = [call EXCEPT ![c] = locals]

ReadFails(c) ==
    /\ "failing_read" \in VaultFaults
    /\ \/ /\ secrets # Empty
          /\ \/ Misread(c, "unlock_secrets", [call[c] EXCEPT !.pc = "unlock_memory", !.cache = Empty])
             \/ Misread(c, "set_read", [call[c] EXCEPT !.pc = "set_secrets", !.blob = Empty])
             \/ Misread(c, "delete_read", [call[c] EXCEPT !.pc = "delete_secrets", !.blob = Empty])
       \/ /\ meta # Nothing
          /\ \/ Misread(c, "set_names", [call[c] EXCEPT !.pc = "set_meta", !.meta = NoMeta])
             \/ Misread(c, "delete_names", [call[c] EXCEPT !.pc = "delete_meta", !.meta = NoMeta])
    /\ doubt' = TRUE
    /\ UNCHANGED <<rows, memory, salts, expected>>

\* The process dies: calls and memory are gone.
Crash ==
    /\ "crash" \in VaultFaults
    /\ key' = Nothing
    /\ cache' = Nothing
    /\ call' = [c \in Callers |-> NoCall]
    /\ doubt' = (doubt \/ \E c \in Callers : Cuts(c))
    /\ UNCHANGED <<rows, salts, expected>>

Begin(c) ==
    \/ \E p \in Passwords : Setup(c, p) \/ Unlock(c, "change", p)
    \/ Unlock(c, "unlock", Nothing)
    \/ Lock(c)
    \/ Reset(c)
    \/ \E n \in Names : DeleteKey(c, n) \/ \E v \in Values : SetKey(c, n, v)

Continue(c) ==
    \/ SetupMeta(c) \/ SetupSecrets(c) \/ SetupMemory(c)
    \/ UnlockSecrets(c) \/ UnlockMemory(c)
    \/ ChangeCopy(c) \/ ChangeMeta(c) \/ ChangeSecrets(c) \/ ChangeMemory(c)
    \/ ResetMeta(c) \/ ResetSecrets(c) \/ ResetMemory(c)
    \/ SetRead(c) \/ SetSecrets(c) \/ SetNames(c) \/ SetMeta(c) \/ SetMemory(c)
    \/ DeleteRead(c) \/ DeleteSecrets(c) \/ DeleteNames(c) \/ DeleteMeta(c)
    \/ DeleteMemory(c)

VaultNext == Crash \/ \E c \in Callers : Begin(c) \/ Continue(c) \/ WriteFails(c) \/ ReadFails(c)

VaultSpec == VaultInit /\ [][VaultNext]_vaultVars

-----------------------------------------------------------------------------
(***************************************************************************)
(* Properties                                                              *)
(***************************************************************************)
\* Every part of the state has its type.
VaultTypeOK ==
    /\ meta \in OrNothing(Metas)
    /\ secrets \in Blobs
    /\ key \in OrNothing(Salts)
    /\ cache \in OrNothing(Caches)
    /\ call \in [Callers -> [pc : Pcs, name : OrNothing(Names), value : OrNothing(Values),
                             password : OrNothing(Passwords), key : OrNothing(Salts),
                             meta : OrNothing(Metas), blob : Blobs, cache : Caches]]
    /\ salts \in 0 .. MaxSalts
    /\ expected \in [Names -> SUBSET OrNothing(Values)]
    /\ doubt \in BOOLEAN

\* What the password opens now.
Stored == IF Configured THEN Open(meta.salt, secrets) ELSE Empty

\* vault.py:276 "re-encrypt everything under new": whatever has become of an
\* operation, every name holds what the last acknowledged call left there, or
\* what a call that did not return wanted to put there.
KeysSurvive == Idle => \A n \in Names : Stored[n] \in expected[n]

\* The same, unless a password change was cut between its two rows, or a row that
\* could not be read was written over.
KeysDurable == doubt \/ KeysSurvive

\* Between operations an unlocked vault holds the key its password derives, and
\* offers what is stored or what a failed call has left in doubt; with the same
\* two exceptions.
MemoryAgrees ==
    Idle /\ key # Nothing /\ ~doubt
        => /\ Configured => key = meta.salt
           /\ cache # Nothing
           /\ \A n \in Names : cache[n] \in expected[n]

\* vault.py:70 "so a concurrent unlock/lock can't tear the cache": there are
\* opened keys in memory exactly while the vault is unlocked.  Not so when the
\* vault is locked while a key is being set.
NotTorn == key = Nothing <=> cache = Nothing
=============================================================================
