--------------------------- MODULE DeleteCollection ---------------------------
(***************************************************************************)
(* DeleteCollection of the overlay REST storage (rest.go 280-363).         *)
(*                                                                         *)
(* The items listed are handed by a distributor goroutine, over a buffered *)
(* channel, to workers that delete them one by one.  Errors and panics     *)
(* come back over a second channel, which is looked at once, when every    *)
(* worker is done.                                                         *)
(***************************************************************************)
EXTENDS Naturals, Sequences, FiniteSets

CONSTANTS
  MaxItems,       \* bound: items the List call returns
  WorkersWanted,  \* deleteCollectionWorkers of the storage
  MayPanic        \* goroutines that may panic: worker numbers, 0 the distributor

ASSUME SizesAssumption == MaxItems \in Nat /\ WorkersWanted \in Nat
ASSUME PanicAssumption == MayPanic \subseteq Nat

VARIABLES
  items,      \* number of items the List call returned
  call,       \* what DeleteCollection does, or how it has returned
  handed,     \* items the distributor has sent
  toProcess,  \* channel of items
  closed,     \* the channel is closed
  errs,       \* channel of errors: the goroutines that sent one
  pc,         \* pc[g]: where goroutine g is; 0 is the distributor
  item,       \* item[w]: the item worker w has taken
  waiting,    \* the WaitGroup: workers that are not done
  gone,       \* items not at the host at some moment since they were listed
  crashed     \* a panic has ended the process

vars == <<items, call, handed, toProcess, closed, errs, pc, item, waiting, gone, crashed>>

MaxWorkers == IF WorkersWanted < 1 THEN 1 ELSE WorkersWanted
Goroutines == 0..MaxWorkers     \* 0 is the distributor

workersNumber ==
  LET w == IF WorkersWanted > items THEN items ELSE WorkersWanted
  IN  IF w < 1 THEN 1 ELSE w
Workers == 1..workersNumber

\* Capacities of the two channels.
ToProcessSize == 2 * workersNumber
\* Mutation: one error for each worker, none for the distributor.
ErrsSizeWithoutDistributor == workersNumber
ErrsSize == workersNumber + 1

-------------------------------------------------------------------------------
(* The caller.                                                             *)

ListFails ==
  /\ call = "list"
  /\ call' = "error"
  /\ UNCHANGED <<items, handed, toProcess, closed, errs, pc, item, waiting, gone, crashed>>

NothingToDelete ==
  /\ call = "list"
  /\ call' = "ok"
  /\ UNCHANGED <<items, handed, toProcess, closed, errs, pc, item, waiting, gone, crashed>>

\* n items are listed and the goroutines started.
Spawn(n) ==
  /\ call = "list"
  /\ items' = n
  /\ call' = "wait"
  /\ pc' = [g \in Goroutines |-> IF g = 0 THEN "send"
                                ELSE IF g \in Workers' THEN "receive" ELSE "ended"]
  /\ waiting' = Workers'
  /\ UNCHANGED <<handed, toProcess, closed, errs, item, gone, crashed>>

\* Mutation: DeleteCollection waits for one worker only.
ReturnEarly ==
  /\ call = "wait"
  /\ waiting # Workers
  /\ call' = IF errs # << >> THEN "error" ELSE "ok"
  /\ errs' = IF errs # << >> THEN Tail(errs) ELSE errs
  /\ UNCHANGED <<items, handed, toProcess, closed, pc, item, waiting, gone, crashed>>

Return ==
  /\ call = "wait"
  /\ waiting = {}
  /\ call' = IF errs # << >> THEN "error" ELSE "ok"
  /\ errs' = IF errs # << >> THEN Tail(errs) ELSE errs
  /\ UNCHANGED <<items, handed, toProcess, closed, pc, item, waiting, gone, crashed>>

-------------------------------------------------------------------------------
(* The distributor.                                                        *)

\* Mutation: a channel that takes every item.
DistributeUnbounded ==
  /\ pc[0] = "send"
  /\ handed < items
  /\ toProcess' = Append(toProcess, handed + 1)
  /\ handed' = handed + 1
  /\ UNCHANGED <<items, call, closed, errs, pc, item, waiting, gone, crashed>>

Distribute ==
  /\ pc[0] = "send"
  /\ handed < items
  /\ Len(toProcess) < ToProcessSize
  /\ toProcess' = Append(toProcess, handed + 1)
  /\ handed' = handed + 1
  /\ UNCHANGED <<items, call, closed, errs, pc, item, waiting, gone, crashed>>

\* Mutation: the channel is not closed.
CloseForgotten ==
  /\ pc[0] = "send"
  /\ handed = items
  /\ pc' = [pc EXCEPT ![0] = "ended"]
  /\ UNCHANGED <<items, call, handed, toProcess, closed, errs, item, waiting, gone, crashed>>

Close ==
  /\ pc[0] = "send"
  /\ handed = items
  /\ closed' = TRUE
  /\ pc' = [pc EXCEPT ![0] = "ended"]
  /\ UNCHANGED <<items, call, handed, toProcess, errs, item, waiting, gone, crashed>>

-------------------------------------------------------------------------------
(* A worker.                                                               *)

Receive(w) ==
  /\ pc[w] = "receive"
  /\ toProcess # << >>
  /\ item' = [item EXCEPT ![w] = Head(toProcess)]
  /\ toProcess' = Tail(toProcess)
  /\ pc' = [pc EXCEPT ![w] = "delete"]
  /\ UNCHANGED <<items, call, handed, closed, errs, waiting, gone, crashed>>

\* The item is deleted, or the host does not know it.
DeleteDone(w) ==
  /\ pc[w] = "delete"
  /\ gone' = gone \cup {item[w]}
  /\ pc' = [pc EXCEPT ![w] = "receive"]
  /\ UNCHANGED <<items, call, handed, toProcess, closed, errs, item, waiting, crashed>>

\* The item has no metadata, or the host returns an error: it may have
\* deleted the item all the same.
DeleteFails(w) ==
  /\ pc[w] = "delete"
  /\ gone' \in {gone, gone \cup {item[w]}}
  /\ pc' = [pc EXCEPT ![w] = "fail"]
  /\ UNCHANGED <<items, call, handed, toProcess, closed, errs, item, waiting, crashed>>

SendError(w) ==
  /\ pc[w] = "fail"
  /\ Len(errs) < ErrsSize
  /\ errs' = Append(errs, w)
  /\ pc' = [pc EXCEPT ![w] = "done"]
  /\ UNCHANGED <<items, call, handed, toProcess, closed, item, waiting, gone, crashed>>

EndOfItems(w) ==
  /\ pc[w] = "receive"
  /\ closed
  /\ toProcess = << >>
  /\ pc' = [pc EXCEPT ![w] = "done"]
  /\ UNCHANGED <<items, call, handed, toProcess, closed, errs, item, waiting, gone, crashed>>

\* The deferred wg.Done().
Done(w) ==
  /\ pc[w] = "done"
  /\ waiting' = waiting \ {w}
  /\ pc' = [pc EXCEPT ![w] = "ended"]
  /\ UNCHANGED <<items, call, handed, toProcess, closed, errs, item, gone, crashed>>

-------------------------------------------------------------------------------
(* Panics: wg.Done() is deferred last and runs first, then HandleCrash     *)
(* sends an error and panics again, which ends the process.                *)

\* The distributor waits for room in the channel of items.
Waits == pc[0] = "send" /\ handed < items /\ Len(toProcess) = ToProcessSize

\* A goroutine that waits for a channel does not panic.
Panic(g) ==
  /\ g \in MayPanic
  /\ pc[g] \in {"send", "delete"}
  /\ ~(g = 0 /\ Waits)
  /\ pc' = [pc EXCEPT ![g] = "panicked"]
  /\ waiting' = waiting \ {g}
  /\ UNCHANGED <<items, call, handed, toProcess, closed, errs, item, gone, crashed>>

SendPanic(g) ==
  /\ pc[g] = "panicked"
  /\ Len(errs) < ErrsSize
  /\ errs' = Append(errs, g)
  /\ pc' = [pc EXCEPT ![g] = "crash"]
  /\ UNCHANGED <<items, call, handed, toProcess, closed, item, waiting, gone, crashed>>

\* Mutation: the panic is only logged.
CrashSwallowed(g) ==
  /\ pc[g] = "crash"
  /\ pc' = [pc EXCEPT ![g] = "ended"]
  /\ UNCHANGED <<items, call, handed, toProcess, closed, errs, item, waiting, gone, crashed>>

Crash(g) ==
  /\ pc[g] = "crash"
  /\ crashed' = TRUE
  /\ UNCHANGED <<items, call, handed, toProcess, closed, errs, pc, item, waiting, gone>>

-------------------------------------------------------------------------------
Init ==
  /\ call = "list"
  /\ items = 0
  /\ handed = 0
  /\ toProcess = << >> /\ closed = FALSE
  /\ errs = << >>
  /\ pc = [g \in Goroutines |-> "ended"]
  /\ item = [g \in Goroutines |-> 0]
  /\ waiting = {}
  /\ gone = {}
  /\ crashed = FALSE

Caller == ListFails \/ NothingToDelete \/ (\E n \in 1..MaxItems : Spawn(n)) \/ Return
Distributor == Distribute \/ Close
Worker(w) ==
  \/ Receive(w) \/ DeleteDone(w) \/ DeleteFails(w) \/ SendError(w)
  \/ EndOfItems(w) \/ Done(w)
Panicking(g) == SendPanic(g) \/ Crash(g)

Next ==
  /\ ~crashed
  /\ \/ Caller
     \/ Distributor
     \/ \E w \in Workers : Worker(w)
     \/ \E g \in Goroutines : Panic(g) \/ Panicking(g)

Spec == Init /\ [][Next]_vars

\* The scheduler runs every goroutine that can go on, and the host answers.
FairSpec ==
  /\ Spec
  /\ WF_vars(~crashed /\ Caller)
  /\ WF_vars(~crashed /\ Distributor)
  /\ \A w \in 1..MaxWorkers : WF_vars(~crashed /\ Worker(w))
  /\ \A g \in Goroutines : WF_vars(~crashed /\ Panicking(g))

-------------------------------------------------------------------------------
(* Properties.                                                             *)

\* Goroutines about to send an error.
ToSend == {g \in Goroutines : pc[g] \in {"fail", "panicked"}}

\* Every variable has its type.
TypeOK ==
  /\ call \in {"list", "wait", "ok", "error"}
  /\ items \in Nat /\ (call = "list" => items = 0)
  /\ handed \in 0..items
  /\ toProcess \in Seq(1..items) /\ closed \in BOOLEAN
  /\ errs \in Seq(Goroutines)
  /\ pc \in [Goroutines -> {"send", "receive", "delete", "fail", "done", "ended",
                            "panicked", "crash"}]
  /\ item \in [Goroutines -> 0..items]
  /\ \A g \in Goroutines : pc[g] = "delete" => item[g] \in 1..items
  /\ waiting \subseteq Workers
  /\ gone \subseteq 1..items
  /\ crashed \in BOOLEAN

\* No goroutine ever blocks on the errors channel: there is room for all who
\* have an error to report, a panicking distributor included.
ErrorsHaveRoom == ToSend # {} => Len(errs) < ErrsSize

\* The inductive invariant behind it: the errors sent and the goroutines that
\* may still send one fit into the channel together.
CanSend == {g \in Goroutines : pc[g] \in {"send", "receive", "delete", "fail", "panicked"}}
RoomForAll ==
  /\ Len(errs) + Cardinality(CanSend) <= ErrsSize
  /\ call = "list" => errs = << >> /\ pc = [g \in Goroutines |-> "ended"]

IInv == TypeOK /\ RoomForAll

\* "In case of success, the list of deleted objects will be returned"
\* (rest.go:282): every item has been away from the host since it was listed,
\* unless a worker panicked, which ends the process soon.
SuccessMeansAll ==
  call = "ok" /\ (\A w \in Workers : pc[w] \notin {"panicked", "crash"})
    => gone = 1..items

\* When no worker will receive again the distributor waits for ever, whatever
\* else happens: the goroutine, the channel and the list outlive the call.
Abandoned == Waits /\ \A w \in Workers : pc[w] \notin {"receive", "delete"}
AbandonedForGood == [][Abandoned => Abandoned']_vars

\* A success that is returned while a panicked worker has yet to report, since
\* the worker is done before HandleCrash runs, does not last: it is true, or
\* the process ends.
SuccessOrCrash == call = "ok" ~> (gone = 1..items \/ crashed)

\* The call returns, or the process ends.
CallReturns == <>(call \in {"ok", "error"} \/ crashed)
===============================================================================
