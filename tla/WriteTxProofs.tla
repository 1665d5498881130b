---------------------------- MODULE WriteTxProofs ----------------------------
(***************************************************************************)
(* Theorems about WriteTx, for any calls with bodies of any size, any      *)
(* number of tries, and any number of failing statements and crashes.      *)
(***************************************************************************)
EXTENDS WriteTx, TLAPS

USE DEF disk, conn

-----------------------------------------------------------------------------
(***************************************************************************)
(* Types                                                                   *)
(***************************************************************************)
Places == {"idle", "init", "build", "wait", "begin", "body", "done"}
Counters == [part : 0 .. Parts, done : Nat, begins : Nat, tries : Nat]

\* One counter of one call is set.
LEMMA CounterTypes ==
  ASSUME NEW m \in Counters, NEW k \in Nat
  PROVE  /\ [m EXCEPT !.tries = k] \in Counters
         /\ [m EXCEPT !.begins = k] \in Counters
         /\ [m EXCEPT !.done = k] \in Counters
         /\ [m EXCEPT !.begins = k, !.done = k] \in Counters
BY DEF Counters

LEMMA PartTypes ==
  ASSUME NEW m \in Counters, NEW part \in 0 .. Parts
  PROVE  [m EXCEPT !.part = part] \in Counters
BY DEF Counters

LEMMA TroubleTypes == TxTypeOK /\ Trouble => trouble' \in 0 .. MaxTrouble
BY WriteTxAssumption DEF TxTypeOK, Trouble

LEMMA FailTypes ==
  ASSUME TxTypeOK, NEW c \in Calls, NEW locked \in BOOLEAN, Fail(c, locked)
  PROVE  /\ lock' \in Calls \cup {Nobody}
         /\ place' \in [Calls -> Places]
         /\ n' \in [Calls -> Counters]
         /\ answer' \in [Calls -> {"none", "ok", "error", "gone"}]
<1>1. n \in [Calls -> Counters] /\ n[c] \in Counters /\ n[c].tries + 1 \in Nat
  BY DEF TxTypeOK, Counters
<1>2. [n[c] EXCEPT !.tries = n[c].tries + 1] \in Counters
  BY <1>1, CounterTypes DEF Parts
<1>3. n' \in [Calls -> Counters]
  <2> DEFINE m == [n[c] EXCEPT !.tries = n[c].tries + 1]
  <2>1. n' = n \/ n' = [n EXCEPT ![c] = m]
    BY DEF Fail
  <2> HIDE DEF m
  <2> QED
    BY <1>1, <1>2, <2>1 DEF m
<1>4. place' \in [Calls -> Places] /\ answer' \in [Calls -> {"none", "ok", "error", "gone"}]
  BY DEF Fail, End, Go, TxTypeOK, Places
<1> QED
  BY <1>3, <1>4 DEF Fail

LEMMA BuildTypes ==
  ASSUME TxTypeOK, NEW c \in Calls, NEW part \in 1 .. Parts, BuildStep(c, part)
  PROVE  TxTypeOK'
<1>1. schema' \in 0 .. Parts
  BY DEF BuildStep, TxTypeOK, Parts
<1>2. n' \in [Calls -> Counters]
  <2> DEFINE m == [n[c] EXCEPT !.part = part]
  <2>1. n \in [Calls -> Counters] /\ n[c] \in Counters
    BY DEF TxTypeOK, Counters
  <2>2. m \in Counters
    <3>1. part \in 0 .. Parts
      BY DEF Parts
    <3> QED
      BY <2>1, <3>1, PartTypes
  <2>3. n' = [n EXCEPT ![c] = m]
    BY DEF BuildStep
  <2> HIDE DEF m
  <2> QED
    BY <2>1, <2>2, <2>3
<1> QED
  BY <1>1, <1>2 DEF BuildStep, TxTypeOK, Counters

LEMMA InitTypes == TxInit => TxTypeOK
<1> SUFFICES ASSUME TxInit PROVE TxTypeOK
  OBVIOUS
<1>1. Nothing \in [Calls -> Nat] /\ Fresh \in Counters
  BY DEF Nothing, Fresh, Counters, Parts
<1>2. /\ file \in [Calls -> Nat] /\ image \in [Calls -> Nat]
      /\ n \in [Calls -> Counters] /\ seen \in [Calls -> [Calls -> Nat]]
  BY <1>1 DEF TxInit
<1>3. schema \in 0 .. Parts /\ trouble \in 0 .. MaxTrouble
  BY WriteTxAssumption DEF TxInit, Parts
<1>4. /\ place \in [Calls -> Places]
      /\ answer \in [Calls -> {"none", "ok", "error", "gone"}]
  BY DEF TxInit, Places
<1> QED
  BY <1>2, <1>3, <1>4 DEF TxInit, TxTypeOK, Places, Counters

LEMMA ContinueTypes ==
  ASSUME TxTypeOK, NEW c \in Calls, Continue(c)
  PROVE  TxTypeOK'
<1>0. n \in [Calls -> Counters] /\ n[c] \in Counters
  BY DEF TxTypeOK, Counters
<1>1. CASE EnterInit(c)
  <2> DEFINE m == [n[c] EXCEPT !.part = 0]
  <2>1. m \in Counters
    <3>1. 0 \in 0 .. Parts
      BY DEF Parts
    <3> QED
      BY <1>0, <3>1, PartTypes
  <2>2. n' = [n EXCEPT ![c] = m]
    BY <1>1 DEF EnterInit
  <2> HIDE DEF m
  <2>3. n' \in [Calls -> Counters]
    BY <1>0, <2>1, <2>2
  <2> QED
    BY <1>1, <2>3 DEF EnterInit, Go, TxTypeOK, Counters
<1>2. CASE CreateTables(c) \/ AddColumns(c) \/ CreateIndexes(c)
  BY <1>2, BuildTypes DEF CreateTables, AddColumns, CreateIndexes, Parts
<1>3. CASE BuildFails(c)
  BY <1>3, TroubleTypes DEF BuildFails, End, Go, TxTypeOK
<1>4. CASE Publish(c)
  BY <1>4 DEF Publish, Go, TxTypeOK
<1>5. CASE Read(c)
  BY <1>5 DEF Read, End, Go, TxTypeOK
<1>6. CASE Acquire(c)
  <2> DEFINE m == [n[c] EXCEPT !.begins = 0, !.done = 0]
  <2>1. m \in Counters
    BY <1>0, CounterTypes DEF Parts
  <2>2. n' = [n EXCEPT ![c] = m]
    BY <1>0, <1>6 DEF Acquire, Counters
  <2> HIDE DEF m
  <2>3. n' \in [Calls -> Counters]
    BY <1>0, <2>1, <2>2
  <2> QED
    BY <1>6, <2>3 DEF Acquire, Go, TxTypeOK, Counters
<1>7. CASE Begin(c)
  BY <1>7 DEF Begin, Go, TxTypeOK
<1>8. CASE BeginFails(c)
  <2>1. CASE ~inTx /\ n[c].begins + 1 < Retries
    <3> DEFINE m == [n[c] EXCEPT !.begins = n[c].begins + 1]
    <3>1. m \in Counters
      <4>1. n[c].begins + 1 \in Nat
        BY <1>0 DEF Counters
      <4> QED
        BY <1>0, <4>1, CounterTypes DEF Parts
    <3>2. n' = [n EXCEPT ![c] = m]
      BY <1>8, <2>1 DEF BeginFails
    <3> HIDE DEF m
    <3>3. n' \in [Calls -> Counters]
      BY <1>0, <3>1, <3>2
    <3> QED
      BY <1>8, <2>1, <3>3 DEF BeginFails, TxTypeOK, Counters
  <2>2. CASE ~(~inTx /\ n[c].begins + 1 < Retries)
    <3>1. Fail(c, ~inTx)
      BY <1>8, <2>2 DEF BeginFails
    <3> QED
      BY <1>8, <3>1, FailTypes DEF BeginFails, TxTypeOK, Places, Counters
  <2> QED
    BY <2>1, <2>2
<1>9. CASE Statement(c)
  <2> DEFINE m == [n[c] EXCEPT !.done = n[c].done + 1]
  <2>1. m \in Counters
    <3>1. n[c].done + 1 \in Nat
      BY <1>0 DEF Counters
    <3> QED
      BY <1>0, <3>1, CounterTypes DEF Parts
  <2>2. n' = [n EXCEPT ![c] = m]
    BY <1>9 DEF Statement
  <2> HIDE DEF m
  <2>3. n' \in [Calls -> Counters]
    BY <1>0, <2>1, <2>2
  <2>4. image' \in [Calls -> Nat]
    BY <1>9 DEF Statement, TxTypeOK
  <2> QED
    BY <1>9, <2>3, <2>4 DEF Statement, TxTypeOK, Counters
<1>10. CASE Commit(c)
  BY <1>10 DEF Commit, End, Go, TxTypeOK
<1>11. CASE BodyFails(c)
  <2>1. PICK locked \in BOOLEAN : Fail(c, locked)
    BY <1>11 DEF BodyFails
  <2>2. trouble' \in 0 .. MaxTrouble
    BY <1>11, TroubleTypes DEF BodyFails
  <2> QED
    BY <1>11, <2>1, <2>2, FailTypes DEF BodyFails, Rollback, TxTypeOK, Places, Counters
<1> QED
  BY <1>1, <1>2, <1>3, <1>4, <1>5, <1>6, <1>7, <1>8, <1>9, <1>10, <1>11 DEF Continue

LEMMA StepTypes == TxTypeOK /\ [TxNext]_txVars => TxTypeOK'
<1> SUFFICES ASSUME TxTypeOK, [TxNext]_txVars PROVE TxTypeOK'
  OBVIOUS
<1>1. ASSUME NEW c \in Calls, GetConn(c) PROVE TxTypeOK'
  BY <1>1 DEF GetConn, Go, TxTypeOK
<1>2. ASSUME NEW c \in Calls, Continue(c) PROVE TxTypeOK'
  BY <1>2, ContinueTypes
<1>3. CASE OtherTakes \/ OtherGives
  BY <1>3 DEF OtherTakes, OtherGives, TxTypeOK
<1>4. CASE Dies
  BY <1>4, TroubleTypes DEF Dies, Rollback, TxTypeOK
<1>5. CASE UNCHANGED txVars
  BY <1>5 DEF TxTypeOK, txVars
<1> QED
  BY <1>1, <1>2, <1>3, <1>4, <1>5 DEF TxNext

\* Every reachable state is well typed.
THEOREM TypeCorrect == TxSpec => []TxTypeOK
BY InitTypes, StepTypes, PTL DEF TxSpec

-----------------------------------------------------------------------------
(***************************************************************************)
(* The inductive invariant                                                 *)
(***************************************************************************)
\* The schema lock is held by who builds, and what was built stays.
SchemaHeld ==
    /\ \A c \in Calls : place[c] = "build" => initLock = c /\ n[c].part <= schema
    /\ initLock # Nobody => place[initLock] = "build"
    /\ ready => schema = Parts
    /\ \A c \in Calls : place[c] \in {"wait", "begin", "body"} => schema = Parts

\* The other lock is held by who is in a transaction, or about to be, and only a
\* write ever is.
LockHeld ==
    /\ \A c \in Calls : place[c] \in {"begin", "body"} => lock = c /\ Kind[c] # "read"
    /\ lock # Nobody => place[lock] \in {"begin", "body"}
    /\ inTx <=> \E c \in Calls : place[c] = "body"

\* A call that is not done has written nothing and said nothing; one that is done
\* has written what it says, or its process is gone.
Told ==
    \A c \in Calls :
        /\ file[c] \in {0, Statements[c]}
        /\ place[c] # "done" => file[c] = 0 /\ answer[c] = "none"
        /\ place[c] = "done" => answer[c] # "none"

\* The connection sees the file and, of the transaction in progress, the
\* statements so far.
Image ==
    /\ \A c \in Calls : image[c] = IF place[c] = "body" THEN n[c].done ELSE file[c]
    /\ \A c \in Calls : place[c] = "begin" => n[c].done = 0
    /\ \A c \in Calls : place[c] = "body" => n[c].done <= Statements[c]

Seen == \A c \in Calls : Whole(seen[c])

IInv == TxTypeOK /\ SchemaHeld /\ LockHeld /\ Told /\ Image /\ Seen

LEMMA InitIInv == TxInit => IInv
<1> SUFFICES ASSUME TxInit PROVE IInv
  OBVIOUS
<1>1. TxTypeOK
  BY InitTypes
<1>2. SchemaHeld /\ LockHeld
  BY DEF TxInit, SchemaHeld, LockHeld
<1>3. Told /\ Image /\ Seen
  BY DEF TxInit, Told, Image, Seen, Whole, Nothing
<1> QED
  BY <1>1, <1>2, <1>3 DEF IInv

\* An exception that leaves the block, where the transaction has been rolled back
\* or was never begun.
LEMMA FailKeeps ==
  ASSUME IInv, TxTypeOK',
         NEW c \in Calls, NEW locked \in BOOLEAN, Fail(c, locked),
         place[c] \in {"begin", "body"},
         image' = file, inTx' = FALSE,
         UNCHANGED <<file, schema, ready, initLock, seen>>
  PROVE  IInv'
<1>1. /\ \A d \in Calls : d # c => place'[d] = place[d] /\ n'[d] = n[d] /\ answer'[d] = answer[d]
      /\ \/ place'[c] = "wait" /\ answer'[c] = answer[c]
         \/ place'[c] = "done" /\ answer'[c] = "error"
      /\ lock' = Nobody
  <2>1. CASE locked /\ Kind[c] = "run_in_tx" /\ n[c].tries + 1 < Retries
    <3>1. n' = [n EXCEPT ![c].tries = @ + 1] /\ Go(c, "wait") /\ answer' = answer /\ lock' = Nobody
      BY <2>1 DEF Fail
    <3>2. n \in [Calls -> Counters] /\ place \in [Calls -> Places]
      BY DEF IInv, TxTypeOK, Counters, Places
    <3>3. \A d \in Calls : d # c => place'[d] = place[d] /\ n'[d] = n[d]
      BY <3>1, <3>2 DEF Go
    <3>4. place'[c] = "wait"
      BY <3>1, <3>2 DEF Go
    <3> QED
      BY <3>1, <3>3, <3>4
  <2>2. CASE ~(locked /\ Kind[c] = "run_in_tx" /\ n[c].tries + 1 < Retries)
    BY <2>2 DEF Fail, End, Go, IInv, TxTypeOK
  <2> QED
    BY <2>1, <2>2
<1>2. lock = c /\ schema = Parts
  BY DEF IInv, LockHeld, SchemaHeld
<1>3. \A d \in Calls : place'[d] \notin {"begin", "body"}
  BY <1>1, <1>2 DEF IInv, LockHeld
<1>4. SchemaHeld'
  <2>1. \A d \in Calls : place'[d] = "build" => d # c /\ initLock' = d /\ n'[d].part <= schema'
    BY <1>1 DEF IInv, SchemaHeld
  <2>2. initLock # Nobody => place[initLock] = "build" /\ initLock \in Calls /\ initLock # c
    BY DEF IInv, SchemaHeld, TxTypeOK
  <2> QED
    BY <1>1, <1>2, <2>1, <2>2 DEF IInv, SchemaHeld
<1>5. LockHeld'
  BY <1>1, <1>3 DEF LockHeld
<1>6. Told'
  BY <1>1 DEF IInv, Told
<1>7. Image'
  BY <1>3 DEF Image
<1>8. Seen'
  BY DEF IInv, Seen, Whole
<1> QED
  BY <1>4, <1>5, <1>6, <1>7, <1>8 DEF IInv

LEMMA StepIInv == IInv /\ [TxNext]_txVars => IInv'
<1> SUFFICES ASSUME IInv, [TxNext]_txVars PROVE IInv'
  OBVIOUS
<1>0. TxTypeOK /\ TxTypeOK'
  BY StepTypes DEF IInv
<1>1. ASSUME NEW c \in Calls, GetConn(c) PROVE IInv'
  <2>1. \A d \in Calls : d # c => place'[d] = place[d]
    BY <1>0, <1>1 DEF GetConn, Go, TxTypeOK
  <2>2. place[c] = "idle" /\ place'[c] = IF ready THEN "wait" ELSE "init"
    BY <1>0, <1>1 DEF GetConn, Go, TxTypeOK
  <2>3. SchemaHeld'
    BY <1>0, <1>1, <2>1, <2>2 DEF GetConn, IInv, SchemaHeld, TxTypeOK
  <2>4. LockHeld'
    BY <1>0, <1>1, <2>1, <2>2 DEF GetConn, IInv, LockHeld, TxTypeOK
  <2>5. Told' /\ Image' /\ Seen'
    BY <1>1, <2>1, <2>2 DEF GetConn, IInv, Told, Image, Seen, Whole
  <2> QED
    BY <1>0, <2>3, <2>4, <2>5 DEF IInv
<1>2. ASSUME NEW c \in Calls, EnterInit(c) PROVE IInv'
  <2>1. /\ \A d \in Calls : d # c => place'[d] = place[d] /\ n'[d] = n[d]
        /\ n'[c].part = 0 /\ n'[c].done = n[c].done
    BY <1>0, <1>2 DEF EnterInit, Go, TxTypeOK, Counters
  <2>2. place[c] = "init" /\ place'[c] = IF ready THEN "wait" ELSE "build"
    BY <1>0, <1>2 DEF EnterInit, Go, TxTypeOK
  <2>3. SchemaHeld'
    BY <1>0, <1>2, <2>1, <2>2, WriteTxAssumption
       DEF EnterInit, IInv, SchemaHeld, TxTypeOK, Parts
  <2>4. LockHeld'
    BY <1>0, <1>2, <2>1, <2>2 DEF EnterInit, IInv, LockHeld, TxTypeOK
  <2>5. Told' /\ Image' /\ Seen'
    BY <1>2, <2>1, <2>2 DEF EnterInit, IInv, Told, Image, Seen, Whole
  <2> QED
    BY <1>0, <2>3, <2>4, <2>5 DEF IInv
<1>3. ASSUME NEW c \in Calls, NEW part \in 1 .. Parts, BuildStep(c, part) PROVE IInv'
  <2>1. /\ \A d \in Calls : d # c => n'[d] = n[d]
        /\ n'[c].part = part /\ n'[c].done = n[c].done
        /\ schema' \in {schema, part} /\ part <= schema' /\ schema <= schema'
    BY <1>0, <1>3 DEF BuildStep, TxTypeOK, Parts
  <2>2. place[c] = "build" /\ place' = place
    BY <1>3 DEF BuildStep
  <2>3. SchemaHeld'
    BY <1>0, <1>3, <2>1, <2>2, WriteTxAssumption
       DEF BuildStep, IInv, SchemaHeld, TxTypeOK, Parts
  <2>4. LockHeld' /\ Told' /\ Image' /\ Seen'
    BY <1>3, <2>1, <2>2 DEF BuildStep, IInv, LockHeld, Told, Image, Seen, Whole
  <2> QED
    BY <1>0, <2>3, <2>4 DEF IInv
<1>4. ASSUME NEW c \in Calls, BuildFails(c) \/ Publish(c) PROVE IInv'
  <2>1. /\ \A d \in Calls : d # c => place'[d] = place[d] /\ answer'[d] = answer[d]
        /\ \/ place'[c] = "done" /\ answer'[c] = "error" /\ ready' = ready
           \/ place'[c] = "wait" /\ answer'[c] = answer[c] /\ n[c].part = Parts
    BY <1>0, <1>4 DEF BuildFails, Publish, End, Go, TxTypeOK
  <2>2. /\ place[c] = "build" /\ initLock' = Nobody
        /\ UNCHANGED <<file, schema, image, inTx, lock, n, seen>>
    BY <1>4 DEF BuildFails, Publish
  <2>3. n[c].part <= schema /\ initLock = c
    BY <2>2 DEF IInv, SchemaHeld
  <2>4. n[c].part = Parts => schema = Parts
    BY <1>0, <2>3 DEF TxTypeOK, Parts
  <2>5. SchemaHeld'
    <3>1. \A d \in Calls : place'[d] # "build"
      BY <2>1, <2>3 DEF IInv, SchemaHeld
    <3>2. ready' => schema' = Parts
      BY <1>4, <2>2, <2>4 DEF BuildFails, Publish, IInv, SchemaHeld
    <3>3. \A d \in Calls : place'[d] \in {"wait", "begin", "body"} => schema' = Parts
      BY <2>1, <2>2, <2>4 DEF IInv, SchemaHeld
    <3> QED
      BY <2>2, <3>1, <3>2, <3>3 DEF SchemaHeld
  <2>6. LockHeld'
    BY <1>0, <2>1, <2>2 DEF IInv, LockHeld, TxTypeOK
  <2>7. Told' /\ Image' /\ Seen'
    BY <2>1, <2>2 DEF IInv, Told, Image, Seen, Whole
  <2> QED
    BY <1>0, <2>5, <2>6, <2>7 DEF IInv
<1>5. ASSUME NEW c \in Calls, Read(c) PROVE IInv'
  <2>1. /\ \A d \in Calls : d # c => place'[d] = place[d] /\ answer'[d] = answer[d] /\ seen'[d] = seen[d]
        /\ place'[c] = "done" /\ answer'[c] = "ok" /\ seen'[c] = image
    BY <1>0, <1>5 DEF Read, End, Go, TxTypeOK
  <2>2. Whole(image)
    <3>1. \A d \in Calls : place[d] # "body"
      BY <1>5, WriteTxAssumption DEF Read, IInv, LockHeld
    <3> QED
      BY <3>1 DEF IInv, Image, Told, Whole
  <2>3. SchemaHeld'
    BY <1>0, <1>5, <2>1 DEF Read, IInv, SchemaHeld, TxTypeOK
  <2>4. LockHeld'
    BY <1>0, <1>5, <2>1 DEF Read, IInv, LockHeld, TxTypeOK
  <2>5. Told' /\ Image'
    BY <1>5, <2>1 DEF Read, IInv, Told, Image
  <2>6. Seen'
    BY <1>5, <2>1, <2>2 DEF Read, IInv, Seen, Whole
  <2> QED
    BY <1>0, <2>3, <2>4, <2>5, <2>6 DEF IInv
<1>6. ASSUME NEW c \in Calls, Acquire(c) PROVE IInv'
  <2>1. /\ \A d \in Calls : d # c => place'[d] = place[d] /\ n'[d] = n[d]
        /\ place[c] = "wait" /\ place'[c] = "begin" /\ n'[c].done = 0 /\ n'[c].part = n[c].part
    BY <1>0, <1>6 DEF Acquire, Go, TxTypeOK
  <2>2. \A d \in Calls : place[d] \notin {"begin", "body"}
    BY <1>6, WriteTxAssumption DEF Acquire, IInv, LockHeld
  <2>3. SchemaHeld'
    BY <1>0, <1>6, <2>1 DEF Acquire, IInv, SchemaHeld, TxTypeOK
  <2>4. LockHeld'
    BY <1>6, <2>1, <2>2 DEF Acquire, IInv, LockHeld
  <2>5. Told' /\ Image' /\ Seen'
    BY <1>6, <2>1, <2>2 DEF Acquire, IInv, Told, Image, Seen, Whole
  <2> QED
    BY <1>0, <2>3, <2>4, <2>5 DEF IInv
<1>7. ASSUME NEW c \in Calls, Begin(c) PROVE IInv'
  <2>1. /\ \A d \in Calls : d # c => place'[d] = place[d]
        /\ place[c] = "begin" /\ place'[c] = "body"
    BY <1>0, <1>7 DEF Begin, Go, TxTypeOK
  <2>2. n[c].done = 0 /\ file[c] = 0
    BY <2>1 DEF IInv, Image, Told
  <2>3. SchemaHeld'
    BY <1>0, <1>7, <2>1 DEF Begin, IInv, SchemaHeld, TxTypeOK
  <2>4. LockHeld'
    BY <1>7, <2>1 DEF Begin, IInv, LockHeld
  <2>5. Image'
    BY <1>7, <2>1, <2>2, WriteTxAssumption DEF Begin, IInv, Image
  <2>6. Told' /\ Seen'
    BY <1>7, <2>1 DEF Begin, IInv, Told, Seen, Whole
  <2> QED
    BY <1>0, <2>3, <2>4, <2>5, <2>6 DEF IInv
<1>8. ASSUME NEW c \in Calls, BeginFails(c) PROVE IInv'
  <2>0. place[c] = "begin" /\ ~inTx
    BY <1>8 DEF BeginFails, IInv, LockHeld
  <2>1. CASE n[c].begins + 1 < Retries
    <3>1. n' = [n EXCEPT ![c].begins = n[c].begins + 1] /\ UNCHANGED <<lock, place, answer>>
      BY <1>8, <2>0, <2>1 DEF BeginFails
    <3>3. \A d \in Calls : n'[d].part = n[d].part /\ n'[d].done = n[d].done
      <4>1. n \in [Calls -> Counters]
        BY <1>0 DEF TxTypeOK, Counters
      <4> QED
        BY <3>1, <4>1 DEF Counters
    <3>2. UNCHANGED <<file, schema, image, inTx, ready, initLock, seen>>
      BY <1>8 DEF BeginFails
    <3> QED
      BY <1>0, <3>1, <3>2, <3>3 DEF IInv, SchemaHeld, LockHeld, Told, Image, Seen, Whole
  <2>2. CASE ~(n[c].begins + 1 < Retries)
    <3>1. Fail(c, TRUE)
      BY <1>8, <2>0, <2>2 DEF BeginFails
    <3>2. image = file
      BY <1>0, <2>0 DEF IInv, Image, LockHeld, TxTypeOK
    <3>3. image' = file /\ inTx' = FALSE /\ UNCHANGED <<file, schema, ready, initLock, seen>>
      BY <1>8, <2>0, <3>2 DEF BeginFails
    <3> QED
      BY <1>0, <2>0, <3>1, <3>3, FailKeeps
  <2> QED
    BY <2>1, <2>2
<1>9. ASSUME NEW c \in Calls, Statement(c) PROVE IInv'
  <2>1. /\ \A d \in Calls : d # c => n'[d] = n[d] /\ image'[d] = image[d]
        /\ n'[c].done = n[c].done + 1 /\ n'[c].part = n[c].part /\ image'[c] = image[c] + 1
    BY <1>0, <1>9 DEF Statement, TxTypeOK
  <2>2. Image'
    <3>1. n[c].done < Statements[c] /\ n[c].done \in Nat /\ Statements[c] \in Nat
      BY <1>0, <1>9, WriteTxAssumption DEF Statement, TxTypeOK
    <3> QED
      BY <1>9, <2>1, <3>1 DEF Statement, IInv, Image
  <2>3. SchemaHeld' /\ LockHeld' /\ Told' /\ Seen'
    BY <1>9, <2>1 DEF Statement, IInv, SchemaHeld, LockHeld, Told, Seen, Whole
  <2> QED
    BY <1>0, <2>2, <2>3 DEF IInv
<1>10. ASSUME NEW c \in Calls, Commit(c) PROVE IInv'
  <2>1. /\ \A d \in Calls : d # c => place'[d] = place[d] /\ answer'[d] = answer[d]
        /\ place[c] = "body" /\ place'[c] = "done" /\ answer'[c] = "ok"
    BY <1>0, <1>10 DEF Commit, End, Go, TxTypeOK
  <2>2. \A d \in Calls : d # c => place[d] \notin {"begin", "body"}
    BY <2>1 DEF IInv, LockHeld
  <2>3. /\ \A d \in Calls : d # c => file'[d] = file[d]
        /\ file'[c] = Statements[c]
    BY <1>10, <2>1, <2>2 DEF Commit, IInv, Image
  <2>4. SchemaHeld'
    BY <1>0, <1>10, <2>1 DEF Commit, IInv, SchemaHeld, TxTypeOK
  <2>5. LockHeld'
    BY <1>10, <2>1, <2>2 DEF Commit, LockHeld
  <2>6. Told'
    BY <2>1, <2>3 DEF IInv, Told
  <2>7. Image'
    BY <1>10, <2>1, <2>2 DEF Commit, Image
  <2>8. Seen'
    BY <1>10 DEF Commit, IInv, Seen, Whole
  <2> QED
    BY <1>0, <2>4, <2>5, <2>6, <2>7, <2>8 DEF IInv
<1>11. ASSUME NEW c \in Calls, BodyFails(c) PROVE IInv'
  <2>1. PICK locked \in BOOLEAN : Fail(c, locked)
    BY <1>11 DEF BodyFails
  <2>2. /\ place[c] = "body" /\ image' = file /\ inTx' = FALSE
        /\ UNCHANGED <<file, schema, ready, initLock, seen>>
    BY <1>11 DEF BodyFails, Rollback
  <2> QED
    BY <1>0, <2>1, <2>2, FailKeeps
<1>12. CASE OtherTakes \/ OtherGives
  BY <1>0, <1>12 DEF OtherTakes, OtherGives, IInv, SchemaHeld, LockHeld, Told, Image, Seen, Whole
<1>13. CASE Dies
  <2>1. \A c \in Calls :
           /\ place'[c] = IF Underway(c) THEN "done" ELSE place[c]
           /\ answer'[c] = IF Underway(c) THEN "gone" ELSE answer[c]
    BY <1>13 DEF Dies
  <2>2. \A c \in Calls : place'[c] \in {"idle", "done"}
    BY <2>1 DEF Underway
  <2>3. /\ image' = file /\ inTx' = FALSE /\ ready' = FALSE
        /\ initLock' = Nobody /\ lock' = Nobody
        /\ UNCHANGED <<file, schema, n, seen>>
    BY <1>13 DEF Dies, Rollback
  <2>4. SchemaHeld' /\ LockHeld'
    BY <2>2, <2>3 DEF SchemaHeld, LockHeld
  <2>5. Told'
    BY <2>1, <2>3 DEF IInv, Told, Underway
  <2>6. Image' /\ Seen'
    BY <2>2, <2>3 DEF IInv, Image, Seen, Whole
  <2> QED
    BY <1>0, <2>4, <2>5, <2>6 DEF IInv
<1>14. CASE UNCHANGED txVars
  BY <1>0, <1>14 DEF txVars, IInv, SchemaHeld, LockHeld, Told, Image, Seen, Whole
<1>15. ASSUME NEW c \in Calls, Continue(c) PROVE IInv'
  <2>1. CASE CreateTables(c) \/ AddColumns(c) \/ CreateIndexes(c)
    BY <1>3, <2>1 DEF CreateTables, AddColumns, CreateIndexes, Parts
  <2> QED
    BY <1>2, <1>4, <1>5, <1>6, <1>7, <1>8, <1>9, <1>10, <1>11, <1>15, <2>1 DEF Continue
<1> QED
  BY <1>1, <1>12, <1>13, <1>14, <1>15 DEF TxNext

LEMMA IInvAlways == TxSpec => []IInv
BY InitIInv, StepIInv, PTL DEF TxSpec

-----------------------------------------------------------------------------
(***************************************************************************)
(* What the invariant gives                                                *)
(***************************************************************************)
\* However transactions fail, are tried again or die, the file and every read hold
\* whole bodies, and nobody works on a schema that is still being built.
THEOREM NothingHalfHolds == TxSpec => []NothingHalf
<1>1. IInv => NothingHalf
  BY DEF IInv, Told, Seen, SchemaHeld, NothingHalf, Whole
<1> QED
  BY <1>1, IInvAlways, PTL

\* No way out of a transaction or of the start-up leaves a lock or a transaction
\* behind.
THEOREM LocksGivenBackAlways == TxSpec => []LocksGivenBack
<1>1. IInv => LocksGivenBack
  <2> SUFFICES ASSUME IInv PROVE LocksGivenBack
    OBVIOUS
  <2>1. inTx => \E c \in Calls : place[c] = "body" /\ lock = c
    BY DEF IInv, LockHeld
  <2>2. inTx => lock # Nobody /\ place[lock] = "body"
    BY <2>1, WriteTxAssumption
  <2> QED
    BY <2>2 DEF IInv, SchemaHeld, LockHeld, LocksGivenBack
<1> QED
  BY <1>1, IInvAlways, PTL

-----------------------------------------------------------------------------
(***************************************************************************)
(* The refinement                                                          *)
(***************************************************************************)
Applied == {c \in Calls : Kind[c] # "read" /\ file[c] = Statements[c]}
Said == [c \in Calls |-> IF Kind[c] = "read" THEN "none" ELSE answer[c]]

LEMMA InitStore == TxInit => Store!Init
BY WriteTxAssumption DEF TxInit, Store!Init, Nothing

\* A call that ends with an error has written nothing.
LEMMA ErrorIsAnswer ==
  ASSUME IInv, NEW c \in Calls, place[c] # "done", file' = file,
         \/ answer' = answer
         \/ answer' = [answer EXCEPT ![c] = "error"]
  PROVE  [Store!Next]_<<Applied, Said>>
<1>1. Applied' = Applied
  BY DEF Applied
<1>2. CASE Said' = Said
  BY <1>1, <1>2
<1>3. CASE Said' # Said
  <2>1. Kind[c] # "read" /\ answer[c] = "none" /\ c \notin Applied
    BY <1>3, WriteTxAssumption DEF Said, IInv, TxTypeOK, Told, Applied
  <2>2. Said' = [Said EXCEPT ![c] = "error"] /\ Said[c] = "none"
    BY <1>3, <2>1 DEF Said, IInv, TxTypeOK
  <2>3. Store!Answer(c)
    BY <1>1, <2>1, <2>2 DEF Store!Answer, Applied, Said
  <2> QED
    BY <2>3 DEF Store!Next
<1> QED
  BY <1>2, <1>3

LEMMA StepStore == IInv /\ [TxNext]_txVars => [Store!Next]_<<Applied, Said>>
<1> SUFFICES ASSUME IInv, [TxNext]_txVars PROVE [Store!Next]_<<Applied, Said>>
  OBVIOUS
<1>0. TxTypeOK
  BY DEF IInv
<1>1. ASSUME file' = file, answer' = answer PROVE [Store!Next]_<<Applied, Said>>
  BY <1>1 DEF Applied, Said
<1>2. ASSUME NEW c \in Calls, Read(c) PROVE [Store!Next]_<<Applied, Said>>
  <2>1. Said' = Said /\ Applied' = Applied
    BY <1>0, <1>2 DEF Read, End, Said, Applied, TxTypeOK
  <2> QED
    BY <2>1
<1>3. ASSUME NEW c \in Calls, BuildFails(c) \/ BeginFails(c) \/ BodyFails(c)
      PROVE  [Store!Next]_<<Applied, Said>>
  <2>1. /\ place[c] # "done" /\ file' = file
        /\ \/ answer' = answer
           \/ answer' = [answer EXCEPT ![c] = "error"]
    BY <1>3 DEF BuildFails, BeginFails, BodyFails, Fail, End
  <2> QED
    BY <2>1, ErrorIsAnswer
<1>4. ASSUME NEW c \in Calls, Commit(c) PROVE [Store!Next]_<<Applied, Said>>
  <2>1. /\ place[c] = "body" /\ file' = image
        /\ answer' = [answer EXCEPT ![c] = "ok"] /\ n[c].done = Statements[c]
    BY <1>4 DEF Commit, End
  <2>2. Kind[c] # "read" /\ answer[c] = "none" /\ file[c] = 0
    BY <2>1 DEF IInv, LockHeld, Told
  <2>3. /\ \A d \in Calls : d # c => file'[d] = file[d]
        /\ file'[c] = Statements[c]
    BY <2>1 DEF IInv, LockHeld, Image
  <2>4. c \notin Applied /\ Applied' = Applied \cup {c}
    BY <2>2, <2>3, WriteTxAssumption DEF Applied
  <2>5. Said[c] = "none" /\ Said' = [Said EXCEPT ![c] = "ok"]
    BY <1>0, <2>1, <2>2 DEF Said, TxTypeOK
  <2>6. Store!ApplyAndAnswer(c)
    BY <2>4, <2>5 DEF Store!ApplyAndAnswer, Applied, Said
  <2> QED
    BY <2>6 DEF Store!Next
<1>5. CASE Dies
  <2>1. Applied' = Applied
    BY <1>5 DEF Dies, Applied
  <2>2. Said' \in [Calls -> {"none", "ok", "error", "gone"}]
    BY <1>0, <1>5 DEF Dies, Said, TxTypeOK
  <2>3. \A c \in Calls : Said'[c] # Said[c] => Said[c] = "none" /\ Said'[c] = "gone"
    BY <1>5 DEF Dies, Said, Underway, IInv, Told
  <2>4. Store!Die
    BY <2>1, <2>2, <2>3 DEF Store!Die, Applied, Said
  <2> QED
    BY <2>4 DEF Store!Next
<1>6. ASSUME NEW c \in Calls, Continue(c) PROVE [Store!Next]_<<Applied, Said>>
  <2>1. CASE EnterInit(c) \/ Publish(c) \/ Acquire(c) \/ Begin(c) \/ Statement(c)
    BY <1>1, <2>1 DEF EnterInit, Publish, Acquire, Begin, Statement
  <2>2. CASE CreateTables(c) \/ AddColumns(c) \/ CreateIndexes(c)
    BY <1>1, <2>2 DEF CreateTables, AddColumns, CreateIndexes, BuildStep
  <2> QED
    BY <1>2, <1>3, <1>4, <1>6, <2>1, <2>2 DEF Continue
<1>7. ASSUME NEW c \in Calls, GetConn(c) PROVE [Store!Next]_<<Applied, Said>>
  BY <1>1, <1>7 DEF GetConn
<1>8. CASE OtherTakes \/ OtherGives \/ UNCHANGED txVars
  BY <1>1, <1>8 DEF OtherTakes, OtherGives, txVars
<1> QED
  BY <1>5, <1>6, <1>7, <1>8 DEF TxNext

\* The calls implement the atomic store: every step of theirs applies one call as
\* a whole, answers it truthfully, or does neither.
THEOREM KeepsAtomicityHolds == TxSpec => KeepsAtomicity
<1>1. TxInit => Store!Init
  BY InitStore
<1>2. IInv /\ [TxNext]_txVars => [Store!Next]_<<Applied, Said>>
  BY StepStore
<1> QED
  BY <1>1, <1>2, IInvAlways, PTL DEF TxSpec, KeepsAtomicity, Store!Spec, Applied, Said
=============================================================================
