------------------------ MODULE DeleteCollectionProofs ------------------------
(***************************************************************************)
(* No goroutine of DeleteCollection blocks on the errors channel, for any  *)
(* number of items and workers: every goroutine sends at most one error,   *)
(* so the errors already sent and the goroutines that may still send one   *)
(* are never more than the channel holds.  And its success means that all  *)
(* items are gone: an item handed out is gone, queued or with a worker, or *)
(* there is trouble, of which the caller will know.                        *)
(***************************************************************************)
EXTENDS DeleteCollection, FiniteSetTheorems, SequenceTheorems, TLAPS

USE SizesAssumption, PanicAssumption

\* The number of workers is a positive number, and no more than there are
\* goroutines for.
LEMMA WorkersBounded ==
  ASSUME items \in Nat
  PROVE  /\ workersNumber \in Nat /\ workersNumber >= 1 /\ workersNumber <= MaxWorkers
         /\ Workers \subseteq Goroutines \ {0}
         /\ ErrsSize \in Nat
  BY DEF workersNumber, MaxWorkers, Workers, Goroutines, ErrsSize

\* The goroutines are finitely many.
LEMMA GoroutinesFinite ==
  /\ IsFiniteSet(Goroutines)
  /\ \A S \in SUBSET Goroutines : IsFiniteSet(S) /\ Cardinality(S) \in Nat
<1>1. MaxWorkers \in Nat
  BY DEF MaxWorkers
<1>2. IsFiniteSet(Goroutines)
  BY <1>1, FS_Interval DEF Goroutines
<1> QED
  BY <1>2, FS_Subset, FS_CardinalityType

\* Types are preserved by every step.
LEMMA TypeInductive == TypeOK /\ [Next]_vars => TypeOK'
<1> SUFFICES ASSUME TypeOK, [Next]_vars PROVE TypeOK'
  OBVIOUS
<1> USE DEF TypeOK
<1>0. /\ items \in Nat /\ workersNumber \in Nat /\ Workers \subseteq Goroutines
      /\ 0 \in Goroutines
  BY WorkersBounded DEF Goroutines, MaxWorkers
<1>1. CASE ListFails
  BY <1>1 DEF ListFails, Workers, workersNumber
<1>2. CASE NothingToDelete
  BY <1>2 DEF NothingToDelete, Workers, workersNumber
<1>3. ASSUME NEW n \in 1..MaxItems, Spawn(n) PROVE TypeOK'
  <2>1. items = 0 /\ items' = n /\ n \in Nat
    BY <1>3 DEF Spawn
  <2>2. handed' \in 0..items' /\ gone' \subseteq 1..items'
        /\ item' \in [Goroutines -> 0..items']
    BY <1>3, <2>1 DEF Spawn
  <2>3. toProcess' \in Seq(1..items')
    <3>1. toProcess \in Seq(1..items) /\ toProcess' = toProcess
      BY <1>3 DEF Spawn
    <3> QED
      BY <2>1, <3>1
  <2>4. /\ pc' \in [Goroutines -> {"send", "receive", "ended"}]
        /\ waiting' = Workers'
    BY <1>3 DEF Spawn
  <2> QED
    BY <1>3, <2>1, <2>2, <2>3, <2>4 DEF Spawn
<1>4. CASE Return
  <2>1. errs # << >> => Tail(errs) \in Seq(Goroutines)
    OBVIOUS
  <2> QED
    BY <1>4, <2>1 DEF Return, Workers, workersNumber
<1>5. CASE Distribute
  BY <1>5 DEF Distribute, Workers, workersNumber
<1>6. CASE Close
  BY <1>6, <1>0 DEF Close, Workers, workersNumber
<1>7. ASSUME NEW w \in Workers, Worker(w) PROVE TypeOK'
  <2>0. w \in Goroutines
    BY <1>0
  <2>1. CASE Receive(w)
    <3>1. Head(toProcess) \in 1..items /\ Tail(toProcess) \in Seq(1..items)
      BY <2>1 DEF Receive
    <3> QED
      BY <2>0, <2>1, <3>1 DEF Receive, Workers, workersNumber
  <2>2. CASE DeleteDone(w) \/ DeleteFails(w)
    <3>1. item[w] \in 1..items
      BY <2>0, <2>2 DEF DeleteDone, DeleteFails
    <3>2. gone' \subseteq 1..items
      BY <2>2, <3>1 DEF DeleteDone, DeleteFails
    <3> QED
      BY <2>0, <2>2, <3>2 DEF DeleteDone, DeleteFails, Workers, workersNumber
  <2>3. CASE SendError(w)
    BY <2>0, <2>3 DEF SendError, Workers, workersNumber
  <2>4. CASE EndOfItems(w) \/ Done(w)
    BY <2>0, <2>4 DEF EndOfItems, Done, Workers, workersNumber
  <2> QED
    BY <1>7, <2>1, <2>2, <2>3, <2>4 DEF Worker
<1>8. ASSUME NEW g \in Goroutines, Panic(g) \/ Panicking(g) PROVE TypeOK'
  <2>1. CASE Panic(g)
    BY <2>1 DEF Panic, Workers, workersNumber
  <2>2. CASE SendPanic(g)
    BY <2>2 DEF SendPanic, Workers, workersNumber
  <2>3. CASE Crash(g)
    BY <2>3 DEF Crash, Workers, workersNumber
  <2> QED
    BY <1>8, <2>1, <2>2, <2>3 DEF Panicking
<1>9. CASE UNCHANGED vars
  BY <1>9 DEF vars, Workers, workersNumber
<1> QED
  BY <1>1, <1>2, <1>3, <1>4, <1>5, <1>6, <1>7, <1>8, <1>9
  DEF Next, Caller, Distributor

-------------------------------------------------------------------------------
(* Room for all errors.                                                    *)

\* A step that sends no error and lets nobody send who could not before.
LEMMA RoomKeptQuiet ==
  ASSUME TypeOK, RoomForAll, items' = items, call # "list", call' # "list",
         CanSend' \subseteq CanSend, errs' \in Seq(Goroutines),
         Len(errs') <= Len(errs)
  PROVE  RoomForAll'
<1>1. CanSend \subseteq Goroutines
  BY DEF CanSend
<1>2. IsFiniteSet(CanSend) /\ Cardinality(CanSend) \in Nat
  BY <1>1, GoroutinesFinite
<1>3. Cardinality(CanSend') \in Nat /\ Cardinality(CanSend') <= Cardinality(CanSend)
  BY <1>1, <1>2, GoroutinesFinite, FS_Subset
<1>4. Len(errs) \in Nat /\ Len(errs') \in Nat
  BY DEF TypeOK
<1>5. ErrsSize' = ErrsSize /\ ErrsSize \in Nat
  BY WorkersBounded DEF ErrsSize, workersNumber, TypeOK
<1> QED
  BY <1>2, <1>3, <1>4, <1>5 DEF RoomForAll

\* A step by which goroutine g sends its one error.
LEMMA RoomKeptSending ==
  ASSUME TypeOK, RoomForAll, items' = items, call # "list", call' # "list",
         NEW g \in CanSend, CanSend' = CanSend \ {g}, errs' = Append(errs, g)
  PROVE  RoomForAll'
<1>1. CanSend \subseteq Goroutines
  BY DEF CanSend
<1>2. IsFiniteSet(CanSend) /\ Cardinality(CanSend) \in Nat
  BY <1>1, GoroutinesFinite
<1>3. Cardinality(CanSend') = Cardinality(CanSend) - 1
  BY <1>2, FS_RemoveElement
<1>4. Len(errs) \in Nat /\ Len(errs') = Len(errs) + 1
  BY DEF TypeOK
<1>5. ErrsSize' = ErrsSize /\ ErrsSize \in Nat
  BY WorkersBounded DEF ErrsSize, workersNumber, TypeOK
<1> QED
  BY <1>2, <1>3, <1>4, <1>5 DEF RoomForAll

\* When the goroutines start there is room for one error of each.
LEMMA RoomAtStart ==
  ASSUME TypeOK, RoomForAll, NEW n \in 1..MaxItems, Spawn(n)
  PROVE  RoomForAll'
<1>1. items' \in Nat /\ errs' = << >> /\ call' # "list"
  BY DEF Spawn, RoomForAll
<1>2. /\ workersNumber' \in Nat /\ workersNumber' >= 1
      /\ Workers' = 1..workersNumber'
      /\ ErrsSize' = workersNumber' + 1
  BY <1>1 DEF workersNumber, Workers, ErrsSize
<1>3. CanSend' \subseteq 0..workersNumber'
  <2>1. ASSUME NEW g \in Goroutines, pc'[g] \in {"send", "receive"}
        PROVE  g \in 0..workersNumber'
    BY <1>2, <2>1 DEF Spawn
  <2>2. \A g \in Goroutines : pc'[g] \in {"send", "receive", "ended"}
    BY DEF Spawn
  <2> QED
    BY <2>1, <2>2 DEF CanSend
<1>4. /\ IsFiniteSet(0..workersNumber')
      /\ Cardinality(0..workersNumber') = workersNumber' + 1
  <2>1. \A m \in Nat : IsFiniteSet(0..m) /\ Cardinality(0..m) = m + 1
    <3> TAKE m \in Nat
    <3>1. 0 \in Int /\ m \in Int /\ ~(0 > m) /\ m - 0 + 1 = m + 1
      OBVIOUS
    <3> QED
      BY <3>1, FS_Interval
  <2> QED
    BY <1>2, <2>1
<1>5. IsFiniteSet(CanSend') /\ Cardinality(CanSend') <= workersNumber' + 1
  BY <1>3, <1>4, FS_Subset
<1>6. Cardinality(CanSend') \in Nat
  BY <1>5, FS_CardinalityType
<1> QED
  BY <1>1, <1>2, <1>5, <1>6 DEF RoomForAll

\* Every step keeps room for all.
LEMMA RoomInductive == TypeOK /\ RoomForAll /\ [Next]_vars => RoomForAll'
<1> SUFFICES ASSUME TypeOK, RoomForAll, [Next]_vars PROVE RoomForAll'
  OBVIOUS
<1>0. /\ errs \in Seq(Goroutines) /\ Len(errs) \in Nat
      /\ \A g \in Goroutines : g \in CanSend <=>
            pc[g] \in {"send", "receive", "delete", "fail", "panicked"}
      /\ \A g \in Goroutines : g \in CanSend' <=>
            pc'[g] \in {"send", "receive", "delete", "fail", "panicked"}
      /\ CanSend \subseteq Goroutines /\ CanSend' \subseteq Goroutines
      /\ pc \in [Goroutines -> {"send", "receive", "delete", "fail", "done", "ended",
                                "panicked", "crash"}]
      /\ 0 \in Goroutines /\ Workers \subseteq Goroutines
  BY WorkersBounded DEF TypeOK, CanSend, Goroutines, MaxWorkers
<1>started. ASSUME NEW g \in Goroutines, pc[g] # "ended" PROVE call # "list"
  BY <1>started DEF RoomForAll
<1>1. CASE ListFails \/ NothingToDelete
  <2>1. call' # "list" /\ UNCHANGED <<errs, pc, items>>
    BY <1>1 DEF ListFails, NothingToDelete
  <2> QED
    BY <2>1 DEF RoomForAll, CanSend, ErrsSize, workersNumber
<1>2. ASSUME NEW n \in 1..MaxItems, Spawn(n) PROVE RoomForAll'
  BY <1>2, RoomAtStart
<1>3. CASE Return
  <2>1. /\ call # "list" /\ call' # "list" /\ UNCHANGED <<pc, items>>
        /\ errs' = (IF errs # << >> THEN Tail(errs) ELSE errs)
    BY <1>3 DEF Return
  <2>2. errs' \in Seq(Goroutines) /\ Len(errs') <= Len(errs)
    BY <1>0, <2>1
  <2>3. CanSend' \subseteq CanSend
    BY <2>1 DEF CanSend
  <2> QED
    BY <2>1, <2>2, <2>3, RoomKeptQuiet
<1>4. CASE Distributor
  <2>1. call # "list" /\ call' = call /\ UNCHANGED <<errs, items>>
    BY <1>0, <1>4, <1>started DEF Distributor, Distribute, Close
  <2>2. CanSend' \subseteq CanSend
    BY <1>0, <1>4 DEF Distributor, Distribute, Close
  <2> QED
    BY <1>0, <2>1, <2>2, RoomKeptQuiet
<1>5. ASSUME NEW w \in Workers, Worker(w) PROVE RoomForAll'
  <2>0. w \in Goroutines
    BY <1>0
  <2>1. CASE SendError(w)
    <3>1. /\ call # "list" /\ call' = call /\ items' = items
          /\ w \in CanSend /\ errs' = Append(errs, w)
      BY <1>0, <1>started, <2>0, <2>1 DEF SendError
    <3>2. CanSend' = CanSend \ {w}
      BY <1>0, <2>0, <2>1 DEF SendError
    <3> QED
      BY <3>1, <3>2, RoomKeptSending
  <2>2. CASE Receive(w) \/ DeleteDone(w) \/ DeleteFails(w) \/ EndOfItems(w) \/ Done(w)
    <3>1. call # "list" /\ call' = call /\ UNCHANGED <<errs, items>>
      BY <1>started, <2>0, <2>2
      DEF Receive, DeleteDone, DeleteFails, EndOfItems, Done
    <3>2. CanSend' \subseteq CanSend
      BY <1>0, <2>0, <2>2 DEF Receive, DeleteDone, DeleteFails, EndOfItems, Done
    <3> QED
      BY <1>0, <3>1, <3>2, RoomKeptQuiet
  <2> QED
    BY <1>5, <2>1, <2>2 DEF Worker
<1>6. ASSUME NEW g \in Goroutines, Panic(g) \/ Panicking(g) PROVE RoomForAll'
  <2>1. CASE SendPanic(g)
    <3>1. /\ call # "list" /\ call' = call /\ items' = items
          /\ g \in CanSend /\ errs' = Append(errs, g)
      BY <1>0, <1>started, <2>1 DEF SendPanic
    <3>2. CanSend' = CanSend \ {g}
      BY <1>0, <2>1 DEF SendPanic
    <3> QED
      BY <3>1, <3>2, RoomKeptSending
  <2>2. CASE Panic(g) \/ Crash(g)
    <3>1. call # "list" /\ call' = call /\ UNCHANGED <<errs, items>>
      BY <1>started, <2>2 DEF Panic, Crash
    <3>2. CanSend' \subseteq CanSend
      BY <1>0, <2>2 DEF Panic, Crash
    <3> QED
      BY <1>0, <3>1, <3>2, RoomKeptQuiet
  <2> QED
    BY <1>6, <2>1, <2>2 DEF Panicking
<1>7. CASE UNCHANGED vars
  BY <1>7 DEF vars, RoomForAll, CanSend, ErrsSize, workersNumber
<1> QED
  BY <1>1, <1>2, <1>3, <1>4, <1>5, <1>6, <1>7 DEF Next, Caller

-------------------------------------------------------------------------------
(* The theorems.                                                           *)

\* In every behaviour the types hold, and the errors sent and still to come
\* fit into the channel.
THEOREM Invariant == Spec => []IInv
<1>1. Init => IInv
  <2> SUFFICES ASSUME Init PROVE IInv
    OBVIOUS
  <2>1. TypeOK
    <3>1. toProcess \in Seq(1..items) /\ errs \in Seq(Goroutines)
      BY DEF Init
    <3>2. pc \in [Goroutines -> {"ended"}] /\ item \in [Goroutines -> 0..items]
      BY DEF Init
    <3>3. /\ items \in Nat /\ (call = "list" => items = 0) /\ handed \in 0..items
          /\ waiting \subseteq Workers /\ gone \subseteq 1..items
      BY DEF Init
    <3>4. call \in {"list", "wait", "ok", "error"}
      BY DEF Init
    <3>7. closed \in BOOLEAN /\ crashed \in BOOLEAN
      BY Zenon DEF Init
    <3>5. \A g \in Goroutines : pc[g] # "delete"
      BY <3>2
    <3>6. pc \in [Goroutines -> {"send", "receive", "delete", "fail", "done", "ended",
                                 "panicked", "crash"}]
      BY <3>2
    <3> QED
      BY <3>1, <3>2, <3>3, <3>4, <3>5, <3>6, <3>7, Zenon DEF TypeOK
  <2>2. CanSend = {}
    BY DEF Init, CanSend
  <2>3. Cardinality(CanSend) = 0
    BY <2>2, FS_EmptySet
  <2>4. ErrsSize \in Nat /\ Len(errs) = 0
    BY <2>1, WorkersBounded DEF Init, TypeOK
  <2> QED
    BY <2>1, <2>3, <2>4 DEF Init, IInv, RoomForAll
<1>2. IInv /\ [Next]_vars => IInv'
  BY TypeInductive, RoomInductive DEF IInv
<1> QED
  BY <1>1, <1>2, PTL DEF Spec

\* No goroutine of DeleteCollection ever blocks on the errors channel.
THEOREM NobodyBlocks == Spec => []ErrorsHaveRoom
<1>1. IInv => ErrorsHaveRoom
  <2> SUFFICES ASSUME IInv, NEW g \in ToSend PROVE Len(errs) < ErrsSize
    BY DEF ErrorsHaveRoom
  <2>1. g \in CanSend /\ CanSend \subseteq Goroutines
    BY DEF ToSend, CanSend
  <2>2. IsFiniteSet(CanSend) /\ Cardinality(CanSend) \in Nat
    BY <2>1, GoroutinesFinite
  <2>3. Cardinality(CanSend) # 0
    BY <2>1, <2>2, FS_EmptySet
  <2>4. Len(errs) \in Nat /\ ErrsSize \in Nat
    BY WorkersBounded DEF IInv, TypeOK
  <2> QED
    BY <2>2, <2>3, <2>4 DEF IInv, RoomForAll
<1> QED
  BY <1>1, Invariant, PTL

-------------------------------------------------------------------------------
(* Success means that all items are gone.                                  *)

\* An error has been sent, or a worker is about to send one or has panicked.
Trouble == errs # << >> \/ \E w \in Workers : pc[w] \in {"fail", "panicked", "crash"}
Queued(i) == \E j \in 1..Len(toProcess) : toProcess[j] = i
InHand(i) == \E w \in Workers : pc[w] = "delete" /\ item[w] = i

\* The distributor closes the channel when everything is handed out.
ClosedAtEnd ==
  /\ call = "list" => ~closed
  /\ closed => handed = items /\ pc[0] = "ended"

\* Workers that are not done are waited for; one that is done has sent an
\* error or has seen the end of the items.
WorkersWaitedFor ==
  call = "wait" => \A w \in Workers :
    /\ pc[w] \in {"receive", "delete", "fail", "done"} => w \in waiting
    /\ pc[w] # "send"
    /\ pc[w] \in {"done", "ended"} => errs # << >> \/ (closed /\ toProcess = << >>)

\* No item that was handed out is lost without trouble.
NoneLost ==
  call = "wait" => \A i \in 1..handed : i \in gone \/ Queued(i) \/ InHand(i) \/ Trouble

SInv == ClosedAtEnd /\ WorkersWaitedFor /\ NoneLost /\ SuccessMeansAll

\* What a sequence holds when its head is taken away.
LEMMA Taking ==
  ASSUME NEW S, NEW s \in Seq(S), s # << >>, NEW j \in 1..Len(s), s[j] # Head(s)
  PROVE  \E k \in 1..Len(Tail(s)) : Tail(s)[k] = s[j]
<1>1. s[1] = Head(s)
  OBVIOUS
<1>2. j - 1 \in 1..Len(Tail(s)) /\ Tail(s)[j - 1] = s[j]
  BY <1>1
<1> QED BY <1>2

\* What a sequence holds when something is put at its end.
LEMMA Putting ==
  ASSUME NEW S, NEW s \in Seq(S), NEW x
  PROVE  /\ Len(Append(s, x)) = Len(s) + 1 /\ Append(s, x)[Len(s) + 1] = x
         /\ Len(s) + 1 \in 1..Len(Append(s, x))
         /\ \A j \in 1..Len(s) : j \in 1..Len(Append(s, x)) /\ Append(s, x)[j] = s[j]
  OBVIOUS

\* Nothing that is gone comes back, and a worker that has panicked goes on to
\* end the process.
LEMMA SuccessKept ==
  ASSUME TypeOK, TypeOK', SuccessMeansAll, items' = items, call' = call, gone \subseteq gone',
         \A w \in Workers : pc[w] \in {"panicked", "crash"} => pc'[w] \in {"panicked", "crash"}
  PROVE  SuccessMeansAll'
<1>1. Workers' = Workers
  BY DEF Workers, workersNumber
<1>2. gone' \subseteq 1..items
  BY DEF TypeOK
<1> QED BY <1>1, <1>2 DEF SuccessMeansAll

\* What every case needs to know of the types.
LEMMA Basics ==
  ASSUME TypeOK, RoomForAll
  PROVE  /\ items \in Nat /\ handed \in 0..items
         /\ Workers \subseteq Goroutines \ {0} /\ 1 \in Workers /\ 0 \in Goroutines
         /\ toProcess \in Seq(1..items)
         /\ pc \in [Goroutines -> {"send", "receive", "delete", "fail", "done", "ended",
                                   "panicked", "crash"}]
         /\ item \in [Goroutines -> 0..items]
         /\ \A g \in Goroutines : pc[g] = "delete" => item[g] \in 1..items
         /\ \A g \in Goroutines : pc[g] # "ended" => call # "list"
  BY WorkersBounded DEF TypeOK, RoomForAll, Workers, Goroutines, MaxWorkers

\* The steps of the caller.
LEMMA CallerKeeps ==
  ASSUME TypeOK, TypeOK', RoomForAll, SInv, Caller
  PROVE  SInv'
<1> USE Basics DEF SInv
<1>1. CASE ListFails
  BY <1>1 DEF ListFails, ClosedAtEnd, WorkersWaitedFor, NoneLost, SuccessMeansAll
<1>2. CASE NothingToDelete
  <2>1. items' = 0 /\ gone' = {}
    BY <1>2 DEF NothingToDelete, TypeOK
  <2> QED
    BY <1>2, <2>1 DEF NothingToDelete, ClosedAtEnd, WorkersWaitedFor, NoneLost, SuccessMeansAll
<1>3. ASSUME NEW n \in 1..MaxItems, Spawn(n) PROVE SInv'
  <2>1. /\ closed' = FALSE /\ call' = "wait" /\ handed' = 0 /\ waiting' = Workers'
        /\ \A g \in Goroutines : g \in Workers' => g = 0 \/ pc'[g] = "receive"
    <3>1. closed' = FALSE /\ call' = "wait" /\ waiting' = Workers'
      BY <1>3 DEF Spawn, ClosedAtEnd, TypeOK
    <3>2. handed' = 0
      BY <1>3 DEF Spawn, TypeOK
    <3>3. \A g \in Goroutines : g \in Workers' => g = 0 \/ pc'[g] = "receive"
      BY <1>3 DEF Spawn
    <3> QED
      BY <3>1, <3>2, <3>3
  <2>2. Workers' \subseteq Goroutines \ {0}
    <3>1. items' \in Nat
      BY DEF TypeOK
    <3> QED
      BY <3>1 DEF Workers, workersNumber, Goroutines, MaxWorkers
  <2>3. \A w \in Workers' : pc'[w] = "receive"
    BY <2>1, <2>2
  <2> QED
    BY <2>1, <2>3 DEF ClosedAtEnd, WorkersWaitedFor, NoneLost, SuccessMeansAll
<1>4. CASE Return
  <2>1. /\ call = "wait" /\ waiting = {} /\ call' = (IF errs # << >> THEN "error" ELSE "ok")
        /\ UNCHANGED <<items, handed, toProcess, closed, pc, item, gone>>
    BY <1>4 DEF Return
  <2>2. ASSUME errs = << >>, \A w \in Workers : pc[w] \notin {"panicked", "crash"}
        PROVE  gone = 1..items
    <3>1. \A w \in Workers : pc[w] = "ended"
      BY <2>1, <2>2 DEF WorkersWaitedFor
    <3>2. closed /\ toProcess = << >> /\ handed = items
      BY <2>1, <2>2, <3>1 DEF WorkersWaitedFor, ClosedAtEnd
    <3>3. ASSUME NEW i \in 1..items PROVE i \in gone
      <4>1. ~Queued(i) /\ ~InHand(i) /\ ~Trouble
        BY <2>2, <3>1, <3>2 DEF Queued, InHand, Trouble
      <4> QED
        BY <2>1, <3>2, <4>1 DEF NoneLost
    <3> QED
      BY <3>3 DEF TypeOK
  <2>3. Workers' = Workers
    BY <2>1 DEF Workers, workersNumber
  <2>4. ClosedAtEnd'
    BY <2>1 DEF ClosedAtEnd
  <2>5. WorkersWaitedFor' /\ NoneLost'
    BY <2>1 DEF WorkersWaitedFor, NoneLost
  <2>6. SuccessMeansAll'
    BY <2>1, <2>2, <2>3 DEF SuccessMeansAll
  <2> QED
    BY <2>4, <2>5, <2>6
<1> QED
  BY <1>1, <1>2, <1>3, <1>4 DEF Caller

\* The steps of the distributor.
LEMMA DistributorKeeps ==
  ASSUME TypeOK, TypeOK', RoomForAll, SInv, Distributor
  PROVE  SInv'
<1> USE Basics DEF SInv
<1>1. ~closed /\ call # "list" /\ UNCHANGED <<items, call, errs, item, waiting, gone>>
  BY DEF Distributor, Distribute, Close, ClosedAtEnd
<1>2. Workers' = Workers /\ \A w \in Workers : pc'[w] = pc[w]
  BY <1>1 DEF Workers, workersNumber, Distributor, Distribute, Close
<1>3. SuccessMeansAll'
  BY <1>1, <1>2, SuccessKept
<1>4. (Trouble => Trouble') /\ \A i : InHand(i) => InHand(i)'
  BY <1>1, <1>2 DEF Trouble, InHand
<1>5. CASE Distribute
  <2>1. /\ toProcess' = Append(toProcess, handed + 1) /\ handed' = handed + 1
        /\ handed < items /\ UNCHANGED <<closed, pc>>
    BY <1>5 DEF Distribute
  <2>2. ClosedAtEnd' /\ WorkersWaitedFor'
    BY <1>1, <1>2, <2>1 DEF ClosedAtEnd, WorkersWaitedFor
  <2>3. handed + 1 \in 1..items
    BY <2>1
  <2>4. \A i : i = handed + 1 \/ Queued(i) => Queued(i)'
    <3>1. toProcess \in Seq(1..items)
      OBVIOUS
    <3>2. /\ Len(toProcess) + 1 \in 1..Len(toProcess')
          /\ toProcess'[Len(toProcess) + 1] = handed + 1
          /\ \A j \in 1..Len(toProcess) :
               j \in 1..Len(toProcess') /\ toProcess'[j] = toProcess[j]
      BY <2>1, <3>1, Putting
    <3> QED
      BY <3>2 DEF Queued
  <2>5. ASSUME NEW i \in 1..handed + 1, call = "wait"
        PROVE  i \in gone' \/ Queued(i)' \/ InHand(i)' \/ Trouble'
    <3>1. i = handed + 1 \/ i \in 1..handed
      OBVIOUS
    <3> QED
      BY <1>1, <1>4, <2>4, <2>5, <3>1 DEF NoneLost
  <2>6. NoneLost'
    BY <1>1, <2>1, <2>5 DEF NoneLost
  <2> QED
    BY <1>3, <2>2, <2>6
<1>6. CASE Close
  <2>1. /\ closed' = TRUE /\ handed = items /\ pc'[0] = "ended"
        /\ UNCHANGED <<toProcess, handed>>
    BY <1>6 DEF Close
  <2>2. ClosedAtEnd' /\ WorkersWaitedFor'
    BY <1>1, <1>2, <2>1 DEF ClosedAtEnd, WorkersWaitedFor
  <2>3. \A i : Queued(i) => Queued(i)'
    BY <2>1 DEF Queued
  <2>4. NoneLost'
    BY <1>1, <1>4, <2>1, <2>3 DEF NoneLost
  <2> QED
    BY <1>3, <2>2, <2>4
<1> QED
  BY <1>5, <1>6 DEF Distributor

\* The steps of a worker.
LEMMA WorkerKeeps ==
  ASSUME TypeOK, TypeOK', RoomForAll, SInv, NEW w \in Workers, Worker(w)
  PROVE  SInv'
<1> USE Basics DEF SInv
<1>0. w \in Goroutines \ {0}
  OBVIOUS
<1>1. /\ UNCHANGED <<items, call, handed, closed>> /\ gone \subseteq gone'
      /\ pc[w] \in {"receive", "delete", "fail", "done"} /\ call # "list"
      /\ pc' = [pc EXCEPT ![w] = pc'[w]]
      /\ pc'[w] \in {"delete", "receive", "fail", "done", "ended"}
  BY <1>0 DEF Worker, Receive, DeleteDone, DeleteFails, SendError, EndOfItems, Done
<1>2. Workers' = Workers /\ \A g \in Goroutines : g # w => pc'[g] = pc[g]
  BY <1>1 DEF Workers, workersNumber
<1>3. SuccessMeansAll'
  BY <1>1, <1>2, SuccessKept
<1>4. ClosedAtEnd'
  BY <1>0, <1>1, <1>2 DEF ClosedAtEnd
<1>5. CASE Receive(w)
  <2>1. /\ toProcess # << >> /\ item' = [item EXCEPT ![w] = Head(toProcess)]
        /\ toProcess' = Tail(toProcess) /\ pc[w] = "receive" /\ pc'[w] = "delete"
        /\ UNCHANGED <<errs, waiting>>
    BY <1>0, <1>5 DEF Receive
  <2>2. WorkersWaitedFor'
    BY <1>1, <1>2, <2>1 DEF WorkersWaitedFor
  <2>3. Trouble => Trouble'
    BY <1>1, <1>2, <2>1 DEF Trouble
  <2>4. ASSUME NEW i, InHand(i) PROVE InHand(i)'
    BY <1>1, <1>2, <2>1, <2>4 DEF InHand
  <2>5. ASSUME NEW i, Queued(i) PROVE Queued(i)' \/ InHand(i)'
    <3>1. PICK j \in 1..Len(toProcess) : toProcess[j] = i
      BY <2>5 DEF Queued
    <3>2. CASE i = Head(toProcess)
      BY <1>0, <1>2, <2>1, <3>2 DEF InHand
    <3>3. CASE i # Head(toProcess)
      <4>2. \E k \in 1..Len(Tail(toProcess)) : Tail(toProcess)[k] = toProcess[j]
        BY <2>1, <3>1, <3>3, Taking
      <4> QED
        BY <2>1, <3>1, <4>2 DEF Queued
    <3> QED
      BY <3>2, <3>3
  <2>6. NoneLost'
    BY <1>1, <2>3, <2>4, <2>5 DEF NoneLost
  <2> QED
    BY <1>3, <1>4, <2>2, <2>6
<1>6. CASE DeleteDone(w)
  <2>1. /\ gone' = gone \cup {item[w]} /\ pc[w] = "delete" /\ pc'[w] = "receive"
        /\ UNCHANGED <<toProcess, errs, item, waiting>>
    BY <1>0, <1>6 DEF DeleteDone
  <2>2. WorkersWaitedFor'
    BY <1>1, <1>2, <2>1 DEF WorkersWaitedFor
  <2>3. Trouble => Trouble'
    BY <1>1, <1>2, <2>1 DEF Trouble
  <2>4. \A i : (Queued(i) => Queued(i)') /\ (InHand(i) => i \in gone' \/ InHand(i)')
    BY <1>1, <1>2, <2>1 DEF InHand, Queued
  <2>5. NoneLost'
    BY <1>1, <2>3, <2>4 DEF NoneLost
  <2> QED
    BY <1>3, <1>4, <2>2, <2>5
<1>7. CASE DeleteFails(w) \/ SendError(w)
  <2>1. Trouble'
    <3>1. CASE DeleteFails(w)
      BY <1>0, <1>2, <3>1 DEF DeleteFails, Trouble
    <3>2. CASE SendError(w)
      <4>1. errs \in Seq(Goroutines) /\ w \in Goroutines /\ errs' = Append(errs, w)
        BY <1>0, <3>2 DEF SendError, TypeOK
      <4>2. errs' # << >>
        BY ONLY <4>1, AppendProperties
      <4> QED
        BY <4>2 DEF Trouble
    <3> QED
      BY <1>7, <3>1, <3>2
  <2>2. WorkersWaitedFor'
    <3>1. CASE DeleteFails(w)
      <4>1. pc[w] = "delete" /\ pc'[w] = "fail" /\ UNCHANGED <<toProcess, errs, waiting>>
        BY <1>0, <3>1 DEF DeleteFails
      <4> QED
        BY <1>1, <1>2, <4>1 DEF WorkersWaitedFor
    <3>2. CASE SendError(w)
      <4>1. pc[w] = "fail" /\ pc'[w] = "done" /\ UNCHANGED waiting
        BY <1>0, <3>2 DEF SendError, TypeOK
      <4>2. errs \in Seq(Goroutines) /\ w \in Goroutines /\ errs' = Append(errs, w)
        BY <1>0, <3>2 DEF SendError, TypeOK
      <4>3. errs' # << >>
        BY ONLY <4>2, AppendProperties
      <4> QED
        BY <1>1, <1>2, <4>1, <4>3 DEF WorkersWaitedFor
    <3> QED
      BY <1>7, <3>1, <3>2
  <2> QED
    BY <1>3, <1>4, <2>1, <2>2 DEF NoneLost
<1>8. CASE EndOfItems(w) \/ Done(w)
  <2>1. /\ UNCHANGED <<toProcess, errs, item, gone>>
        /\ pc[w] \in {"receive", "done"} /\ pc'[w] \in {"done", "ended"}
        /\ pc[w] = "receive" => closed /\ toProcess = << >>
        /\ pc'[w] = "done" => waiting' = waiting /\ pc[w] = "receive"
        /\ waiting' \in {waiting, waiting \ {w}}
    BY <1>0, <1>8 DEF EndOfItems, Done
  <2>2. WorkersWaitedFor'
    BY <1>1, <1>2, <2>1 DEF WorkersWaitedFor
  <2>3. Trouble => Trouble'
    BY <1>1, <1>2, <2>1 DEF Trouble
  <2>4. \A i : (Queued(i) => Queued(i)') /\ (InHand(i) => InHand(i)')
    BY <1>1, <1>2, <2>1 DEF InHand, Queued
  <2>5. NoneLost'
    BY <1>1, <2>1, <2>3, <2>4 DEF NoneLost
  <2> QED
    BY <1>3, <1>4, <2>2, <2>5
<1> QED
  BY <1>5, <1>6, <1>7, <1>8 DEF Worker

\* Panics.
LEMMA PanicKeeps ==
  ASSUME TypeOK, TypeOK', RoomForAll, SInv, NEW g \in Goroutines, Panic(g) \/ Panicking(g)
  PROVE  SInv'
<1> USE Basics DEF SInv
<1>1. /\ UNCHANGED <<items, call, handed, closed, gone, toProcess, item>>
      /\ pc[g] \in {"send", "delete", "panicked", "crash"} /\ call # "list"
      /\ pc' = [pc EXCEPT ![g] = pc'[g]] /\ pc'[g] \in {"panicked", "crash"}
      /\ errs' \in {errs, Append(errs, g)} /\ waiting' \in {waiting, waiting \ {g}}
  BY DEF Panic, Panicking, SendPanic, Crash
<1>2. Workers' = Workers /\ \A h \in Goroutines : h # g => pc'[h] = pc[h]
  BY <1>1 DEF Workers, workersNumber
<1>3. SuccessMeansAll'
  BY <1>1, <1>2, SuccessKept
<1>4. ClosedAtEnd'
  BY <1>1, <1>2 DEF ClosedAtEnd
<1>5. errs # << >> => errs' # << >>
  BY <1>1 DEF TypeOK
<1>6. WorkersWaitedFor'
  BY <1>1, <1>2, <1>5 DEF WorkersWaitedFor
<1>7. CASE g \in Workers
  <2>1. Trouble'
    BY <1>1, <1>2, <1>7 DEF Trouble
  <2> QED
    BY <1>3, <1>4, <1>6, <2>1 DEF NoneLost
<1>8. CASE g \notin Workers
  <2>1. Trouble => Trouble'
    BY <1>2, <1>5, <1>8 DEF Trouble
  <2>2. \A i : (Queued(i) => Queued(i)') /\ (InHand(i) => InHand(i)')
    BY <1>1, <1>2, <1>8 DEF InHand, Queued
  <2>3. NoneLost'
    BY <1>1, <2>1, <2>2 DEF NoneLost
  <2> QED
    BY <1>3, <1>4, <1>6, <2>3
<1> QED
  BY <1>7, <1>8

\* When DeleteCollection returns success, and no worker has panicked, every
\* item has been away from the host since it was listed.
THEOREM SuccessIsTrue == Spec => []SuccessMeansAll
<1>1. Init => SInv
  BY DEF Init, SInv, ClosedAtEnd, WorkersWaitedFor, NoneLost, SuccessMeansAll
<1>2. IInv /\ IInv' /\ SInv /\ [Next]_vars => SInv'
  <2> SUFFICES ASSUME TypeOK, TypeOK', RoomForAll, SInv, [Next]_vars PROVE SInv'
    BY DEF IInv
  <2>1. CASE UNCHANGED vars
    BY <2>1 DEF vars, SInv, ClosedAtEnd, WorkersWaitedFor, NoneLost, SuccessMeansAll,
       Queued, InHand, Trouble, Workers, workersNumber
  <2> QED
    BY <2>1, CallerKeeps, DistributorKeeps, WorkerKeeps, PanicKeeps DEF Next
<1>3. SInv => SuccessMeansAll
  BY DEF SInv
<1> QED
  BY <1>1, <1>2, <1>3, Invariant, PTL DEF Spec

-------------------------------------------------------------------------------
(* The distributor that is left behind.                                    *)

\* No step ends the wait: the channel stays full, and a worker that is
\* reporting an error or ending does not receive again.
LEMMA AbandonedStep ==
  ASSUME TypeOK, RoomForAll, Abandoned, [Next]_vars
  PROVE  Abandoned'
<1> DEFINE Over == {"send", "fail", "done", "ended", "panicked", "crash"}
<1>1. /\ pc[0] = "send" /\ handed < items /\ Len(toProcess) = ToProcessSize
      /\ ~(Len(toProcess) < ToProcessSize) /\ handed # items
      /\ \A w \in Workers : pc[w] \in Over
      /\ toProcess # << >> /\ call # "list" /\ workersNumber \in Nat
  <2>1. pc[0] # "ended" /\ ToProcessSize \in Nat \ {0}
    BY Basics, WorkersBounded DEF Abandoned, Waits, ToProcessSize
  <2>2. \A w \in Workers : pc[w] \in Over
    BY Basics DEF Abandoned
  <2> QED
    BY <2>1, <2>2, Basics, WorkersBounded DEF Abandoned, Waits, TypeOK
<1>2. ASSUME UNCHANGED <<items, handed, toProcess>>, pc'[0] = "send",
             \A w \in Workers : pc'[w] \in Over
      PROVE  Abandoned'
  <2>1. Workers' = Workers /\ ToProcessSize' = ToProcessSize
    BY <1>2 DEF Workers, workersNumber, ToProcessSize
  <2> QED
    BY <1>1, <1>2, <2>1 DEF Abandoned, Waits
<1>3. CASE Caller
  BY <1>1, <1>2, <1>3 DEF Caller, ListFails, NothingToDelete, Spawn, Return
<1>4. ~Distributor
  BY <1>1 DEF Distributor, Distribute, Close
<1>5. ASSUME NEW w \in Workers, Worker(w) PROVE Abandoned'
  <2>1. w # 0 /\ pc[w] \in {"fail", "done"}
    BY <1>1, <1>5, Basics DEF Worker, Receive, DeleteDone, DeleteFails, SendError, EndOfItems, Done
  <2>2. \E s \in {"done", "ended"} : pc' = [pc EXCEPT ![w] = s]
    BY <1>1, <1>5, <2>1 DEF Worker, Receive, DeleteDone, DeleteFails, SendError, EndOfItems, Done
  <2>3. UNCHANGED <<items, handed, toProcess>>
    BY <1>1, <1>5, <2>1 DEF Worker, Receive, DeleteDone, DeleteFails, SendError, EndOfItems, Done
  <2> QED
    BY <1>1, <1>2, <2>1, <2>2, <2>3, Basics
<1>6. ASSUME NEW g \in Goroutines, Panic(g) \/ Panicking(g) PROVE Abandoned'
  <2>1. g # 0
    BY <1>1, <1>6 DEF Panic, Panicking, SendPanic, Crash, Abandoned
  <2>2. (\E s \in {"panicked", "crash"} : pc' = [pc EXCEPT ![g] = s]) \/ pc' = pc
    BY <1>6 DEF Panic, Panicking, SendPanic, Crash
  <2>3. UNCHANGED <<items, handed, toProcess>>
    BY <1>6 DEF Panic, Panicking, SendPanic, Crash
  <2> QED
    BY <1>1, <1>2, <2>1, <2>2, <2>3, Basics
<1>7. CASE UNCHANGED vars
  BY <1>1, <1>2, <1>7 DEF vars
<1> QED
  BY <1>3, <1>4, <1>5, <1>6, <1>7 DEF Next

\* A distributor that is left behind stays so, for any number of items and
\* workers, whoever panics.
THEOREM LeftBehind == Spec => AbandonedForGood
<1>1. IInv /\ [Next]_vars => [Abandoned => Abandoned']_vars
  BY AbandonedStep DEF IInv
<1> QED
  BY <1>1, Invariant, PTL DEF Spec, AbandonedForGood
===============================================================================
