------------------------------- MODULE WriteTx -------------------------------
(***************************************************************************)
(* Transactions on the one relational connection (db/database.py).         *)
(*                                                                         *)
(* Every worker thread of the process uses the same SQLite connection.  A  *)
(* re-entrant lock keeps statements apart and is held across the whole of  *)
(* a transaction.  The checkpointer of the graph writes the same file      *)
(* through a connection of its own (graph/builder.py): BEGIN, a statement  *)
(* or COMMIT may then fail with "database is locked".  tx() tries BEGIN    *)
(* again, run_in_tx() the whole transaction, both a bounded number of      *)
(* times.  The first caller of a process builds the connection and the     *)
(* schema under a lock of its own.                                         *)
(*                                                                         *)
(* A call is one use of the connection by one thread: a write through tx() *)
(* or run_in_tx(), or a single statement outside any transaction, which    *)
(* stands for the reads and for PRAGMA wal_checkpoint.                     *)
(***************************************************************************)
EXTENDS Integers

CONSTANTS
    Calls,       \* uses of the connection
    Kind,        \* of each call: "tx", "run_in_tx" or "read"
    Statements,  \* statements in the body of a write
    Retries,     \* _BUSY_RETRIES
    MaxTrouble,  \* bound on failing statements and crashes
    Nobody       \* holds no lock

ASSUME WriteTxAssumption ==
    /\ Kind \in [Calls -> {"tx", "run_in_tx", "read"}]
    /\ Statements \in [Calls -> Nat \ {0}]
    /\ Retries \in Nat \ {0}
    /\ MaxTrouble \in Nat
    /\ Nobody \notin Calls

VARIABLES
    file,      \* committed: how often each statement count of a call is in the file
    image,     \* what the connection sees: the file and its open transaction
    inTx,      \* a transaction is open on the connection
    writer,    \* who has SQLite's write lock on the file: "none", "app", "other"
    schema,    \* parts of the schema in the file
    ready,     \* _conn is set
    initLock,  \* holder of _init_lock
    lock,      \* holder of _write_lock
    place,     \* position of each call
    n,         \* its counters: part, statement, begins and tries so far
    seen,      \* what a read returned
    answer,    \* how the call ended
    trouble    \* history: failing statements and crashes so far

disk == <<file, schema>>
conn == <<image, inTx, writer>>
txVars == <<disk, conn, ready, initLock, lock, place, n, seen, answer, trouble>>

-----------------------------------------------------------------------------
\* What init_db builds, in this order: tables, columns, indexes.
Parts == 3

Nothing == [c \in Calls |-> 0]
Fresh == [part |-> 0, done |-> 0, begins |-> 0, tries |-> 0]

TxInit ==
    /\ file = Nothing
    /\ image = Nothing
    /\ inTx = FALSE
    /\ writer = "none"
    /\ schema = 0
    /\ ready = FALSE
    /\ initLock = Nobody
    /\ lock = Nobody
    /\ place = [c \in Calls |-> "idle"]
    /\ n = [c \in Calls |-> Fresh]
    /\ seen = [c \in Calls |-> Nothing]
    /\ answer = [c \in Calls |-> "none"]
    /\ trouble = 0

Go(c, to) == place' = [place EXCEPT ![c] = to]

End(c, how) == Go(c, "done") /\ answer' = [answer EXCEPT ![c] = how]

Trouble == trouble < MaxTrouble /\ trouble' = trouble + 1

-----------------------------------------------------------------------------
(***************************************************************************)
(* get_conn and init_db                                                    *)
(***************************************************************************)
\* The first look at _conn is outside the lock.
GetConn(c) ==
    /\ place[c] = "idle"
    /\ Go(c, IF ready THEN "wait" ELSE "init")
    /\ UNCHANGED <<disk, conn, ready, initLock, lock, n, seen, answer, trouble>>

\* The second one is under it.
EnterInit(c) ==
    /\ place[c] = "init"
    /\ initLock = Nobody
    /\ IF ready THEN Go(c, "wait") /\ UNCHANGED initLock
                ELSE Go(c, "build") /\ initLock' = c
    /\ n' = [n EXCEPT ![c].part = 0]
    /\ UNCHANGED <<disk, conn, ready, lock, seen, answer, trouble>>

\* Each step adds what is missing, and what it has added stays when a later one
\* fails.
BuildStep(c, part) ==
    /\ place[c] = "build"
    /\ n[c].part = part - 1
    /\ n' = [n EXCEPT ![c].part = part]
    /\ schema' = IF schema < part THEN part ELSE schema
    /\ UNCHANGED <<file, conn, ready, initLock, lock, place, seen, answer, trouble>>

\* schema.sql.
CreateTables(c) == BuildStep(c, 1)

\* _apply_migrations: the columns that older databases lack.
AddColumns(c) == BuildStep(c, 2)

\* Full-text tables with their triggers, and the vector table.
CreateIndexes(c) == BuildStep(c, 3)

\* The caller gets the error; the next call starts over.
BuildFails(c) ==
    /\ place[c] = "build"
    /\ n[c].part < Parts
    /\ Trouble
    /\ initLock' = Nobody
    /\ End(c, "error")
    /\ UNCHANGED <<disk, conn, ready, lock, n, seen>>

Publish(c) ==
    /\ place[c] = "build"
    /\ n[c].part = Parts
    /\ ready' = TRUE
    /\ initLock' = Nobody
    /\ Go(c, "wait")
    /\ UNCHANGED <<disk, conn, lock, n, seen, answer, trouble>>

-----------------------------------------------------------------------------
(***************************************************************************)
(* A statement of its own: _SerializedConnection takes the lock for it     *)
(***************************************************************************)
\* Mutant of Read: straight to the connection.
ReadUnlocked(c) ==
    /\ place[c] = "wait"
    /\ Kind[c] = "read"
    /\ seen' = [seen EXCEPT ![c] = image]
    /\ End(c, "ok")
    /\ UNCHANGED <<disk, conn, ready, initLock, lock, n, trouble>>

Read(c) ==
    /\ place[c] = "wait"
    /\ Kind[c] = "read"
    /\ lock = Nobody
    /\ seen' = [seen EXCEPT ![c] = image]
    /\ End(c, "ok")
    /\ UNCHANGED <<disk, conn, ready, initLock, lock, n, trouble>>

-----------------------------------------------------------------------------
(***************************************************************************)
(* tx and run_in_tx                                                        *)
(***************************************************************************)
Acquire(c) ==
    /\ place[c] = "wait"
    /\ Kind[c] # "read"
    /\ lock = Nobody
    /\ lock' = c
    /\ Go(c, "begin")
    /\ n' = [n EXCEPT ![c].begins = 0, ![c].done = 0]
    /\ UNCHANGED <<disk, conn, ready, initLock, seen, answer, trouble>>

Begin(c) ==
    /\ place[c] = "begin"
    /\ writer = "none"
    /\ ~inTx
    /\ writer' = "app"
    /\ inTx' = TRUE
    /\ Go(c, "body")
    /\ UNCHANGED <<disk, image, ready, initLock, lock, n, seen, answer, trouble>>

\* Mutant of Fail: after the last try the loop is left without raising.
FailSilently(c, locked) ==
    /\ lock' = Nobody
    /\ IF locked /\ Kind[c] = "run_in_tx" /\ n[c].tries + 1 < Retries
       THEN Go(c, "wait") /\ n' = [n EXCEPT ![c].tries = @ + 1] /\ UNCHANGED answer
       ELSE End(c, IF locked THEN "ok" ELSE "error") /\ UNCHANGED n

\* Mutant of Fail: the lock is given back after a commit only.
FailLocked(c, locked) ==
    /\ IF locked /\ Kind[c] = "run_in_tx" /\ n[c].tries + 1 < Retries
       THEN Go(c, "wait") /\ n' = [n EXCEPT ![c].tries = @ + 1] /\ UNCHANGED answer
       ELSE End(c, "error") /\ UNCHANGED n
    /\ UNCHANGED lock

\* The exception leaves the block: the lock is free, and run_in_tx starts over
\* if the file was locked and it has a try left.
Fail(c, locked) ==
    /\ lock' = Nobody
    /\ IF locked /\ Kind[c] = "run_in_tx" /\ n[c].tries + 1 < Retries
       THEN Go(c, "wait") /\ n' = [n EXCEPT ![c].tries = @ + 1] /\ UNCHANGED answer
       ELSE End(c, "error") /\ UNCHANGED n

\* The busy timeout ran out: tx() sleeps and tries again without letting go of the
\* lock.  BEGIN inside an open transaction is an error of another kind.
BeginFails(c) ==
    /\ place[c] = "begin"
    /\ inTx \/ writer = "other"
    /\ IF ~inTx /\ n[c].begins + 1 < Retries
       THEN n' = [n EXCEPT ![c].begins = @ + 1] /\ UNCHANGED <<lock, place, answer>>
       ELSE Fail(c, ~inTx)
    /\ UNCHANGED <<disk, conn, ready, initLock, seen, trouble>>

Statement(c) ==
    /\ place[c] = "body"
    /\ n[c].done < Statements[c]
    /\ n' = [n EXCEPT ![c].done = @ + 1]
    /\ image' = [image EXCEPT ![c] = @ + 1]
    /\ UNCHANGED <<disk, inTx, writer, ready, initLock, lock, place, seen, answer, trouble>>

Commit(c) ==
    /\ place[c] = "body"
    /\ n[c].done = Statements[c]
    /\ file' = image
    /\ inTx' = FALSE
    /\ writer' = "none"
    /\ lock' = Nobody
    /\ End(c, "ok")
    /\ UNCHANGED <<image, schema, ready, initLock, n, seen, trouble>>

\* A statement or the COMMIT fails: the whole transaction is rolled back.
Rollback ==
    /\ image' = file
    /\ inTx' = FALSE
    /\ writer' = "none"

BodyFails(c) ==
    /\ place[c] = "body"
    /\ Trouble
    /\ Rollback
    /\ \E locked \in BOOLEAN : Fail(c, locked)
    /\ UNCHANGED <<disk, ready, initLock, seen>>

-----------------------------------------------------------------------------
(***************************************************************************)
(* The checkpointer's connection, and the end of the process               *)
(***************************************************************************)
OtherTakes ==
    /\ writer = "none"
    /\ writer' = "other"
    /\ UNCHANGED <<disk, image, inTx, ready, initLock, lock, place, n, seen, answer, trouble>>

OtherGives ==
    /\ writer = "other"
    /\ writer' = "none"
    /\ UNCHANGED <<disk, image, inTx, ready, initLock, lock, place, n, seen, answer, trouble>>

Underway(c) == place[c] \notin {"idle", "done"}

\* SQLite rolls back what was not committed when the file is opened again.
Dies ==
    /\ Trouble
    /\ Rollback
    /\ ready' = FALSE
    /\ initLock' = Nobody
    /\ lock' = Nobody
    /\ place' = [c \in Calls |-> IF Underway(c) THEN "done" ELSE place[c]]
    /\ answer' = [c \in Calls |-> IF Underway(c) THEN "gone" ELSE answer[c]]
    /\ UNCHANGED <<disk, n, seen>>

\* What a thread does once it has begun.
Continue(c) ==
    \/ EnterInit(c)
    \/ CreateTables(c) \/ AddColumns(c) \/ CreateIndexes(c) \/ BuildFails(c)
    \/ Publish(c)
    \/ Read(c) \/ Acquire(c)
    \/ Begin(c) \/ BeginFails(c)
    \/ Statement(c) \/ Commit(c) \/ BodyFails(c)

TxNext ==
    \/ \E c \in Calls : GetConn(c) \/ Continue(c)
    \/ OtherTakes \/ OtherGives
    \/ Dies

TxSpec == TxInit /\ [][TxNext]_txVars

\* A thread that can go on does; nothing is assumed of the other connection.
TxFairness == \A c \in Calls : WF_txVars(Continue(c))

-----------------------------------------------------------------------------
TxTypeOK ==
    /\ file \in [Calls -> Nat] /\ image \in [Calls -> Nat]
    /\ inTx \in BOOLEAN /\ ready \in BOOLEAN
    /\ writer \in {"none", "app", "other"}
    /\ schema \in 0 .. Parts
    /\ initLock \in Calls \cup {Nobody} /\ lock \in Calls \cup {Nobody}
    /\ place \in [Calls -> {"idle", "init", "build", "wait", "begin", "body", "done"}]
    /\ n \in [Calls -> [part : 0 .. Parts, done : Nat, begins : Nat, tries : Nat]]
    /\ seen \in [Calls -> [Calls -> Nat]]
    /\ answer \in [Calls -> {"none", "ok", "error", "gone"}]
    /\ trouble \in 0 .. MaxTrouble

\* A body is in the file, and in whatever a reader on the shared connection sees,
\* with all of its statements or with none, and never twice, however often it
\* was tried; and nobody works on a schema that is still being built.
Whole(rows) == \A c \in Calls : rows[c] \in {0, Statements[c]}
NothingHalf ==
    /\ Whole(file)
    /\ \A c \in Calls : Whole(seen[c])
    /\ \A c \in Calls : place[c] \in {"wait", "begin", "body"} => schema = Parts

\* Whoever holds a lock is in the middle of what the lock is for, and a
\* transaction that is open belongs to the holder: no way out of it, a failing
\* BEGIN, statement or COMMIT, leaves one or the other behind.
LocksGivenBack ==
    /\ initLock # Nobody => place[initLock] = "build"
    /\ lock # Nobody => place[lock] \in {"begin", "body"}
    /\ inTx => lock # Nobody /\ place[lock] = "body"

\* The calls implement the atomic store.
Store == INSTANCE AtomicStore
            WITH applied <- {c \in Calls : Kind[c] # "read" /\ file[c] = Statements[c]},
                 answer <- [c \in Calls |-> IF Kind[c] = "read" THEN "none" ELSE answer[c]]
KeepsAtomicity == Store!Spec

\* Whoever waits for a lock gets it, and every call comes to an end, though the
\* other connection may keep the file locked for good: the tries are bounded.
Answered == \A c \in Calls : place[c] # "idle" ~> place[c] = "done"
=============================================================================
