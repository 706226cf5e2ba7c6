----------------------------- MODULE WatchWrapper -----------------------------
(***************************************************************************)
(* The watch of the overlay REST storage (rest.go Watch, pkg/utils/        *)
(* watch.go).                                                              *)
(*                                                                         *)
(* A goroutine runs Run: it takes events from the watch at the host, turns *)
(* each manifest into the object in it, and passes it on over a buffered   *)
(* channel.  The handler of the request reads that channel until the       *)
(* watch ends for it, then calls Stop.  Run and Stop take the same mutex.  *)
(***************************************************************************)
EXTENDS Naturals, Sequences

CONSTANTS
  Events,       \* what the host reports: manifests of the client, other objects
  Manifests,    \* those that are manifests whose object can be read
  Size,         \* capacity of the result channel (DefaultWatchSize)
  MaxEvents     \* bound: events of the host that are remembered at a time

ASSUME SizesAssumption == Size \in Nat /\ MaxEvents \in Nat
ASSUME EventsAssumption == Manifests \subseteq Events

VARIABLES
  sent,      \* the events the watch at the host has reported, but for those
             \* forgotten: a history variable
  taken,     \* how many of them Run has taken
  closed,    \* the host's channel is closed
  done,      \* the context of the request is done
  run,       \* where Run is
  pending,   \* the event Run is about to send, in a sequence, or << >>
  result,    \* the result channel
  mutex,     \* who holds the mutex
  handler,   \* where the handler of the request is
  received   \* what the handler has received of them

vars == <<sent, taken, closed, done, run, pending, result, mutex, handler, received>>

\* fixup: a manifest becomes the object in it; what cannot be transformed is
\* passed on as it is.
Fixed(e) == [event |-> e, fixed |-> e \in Manifests]

-------------------------------------------------------------------------------
(* The host and the client.                                                *)

Report(e) ==
  /\ ~closed
  /\ Len(sent) < MaxEvents
  /\ sent' = Append(sent, e)
  /\ UNCHANGED <<taken, closed, done, run, pending, result, mutex, handler, received>>

\* The host ends the watch, or the connection to it breaks.
CloseSource ==
  /\ ~closed
  /\ closed' = TRUE
  /\ UNCHANGED <<sent, taken, done, run, pending, result, mutex, handler, received>>

\* The client goes away or the server gives the request up.
Cancel ==
  /\ ~done
  /\ done' = TRUE
  /\ UNCHANGED <<sent, taken, closed, run, pending, result, mutex, handler, received>>

\* An event the handler has received need not be remembered any longer, so
\* that the host may go on reporting for ever.  Nothing of the code changes.
Forget ==
  /\ received # << >>
  /\ sent' = Tail(sent)
  /\ taken' = taken - 1
  /\ received' = Tail(received)
  /\ UNCHANGED <<closed, done, run, pending, result, mutex, handler>>

-------------------------------------------------------------------------------
(* Watch and Run.                                                          *)

\* The watch at the host fails: there is no goroutine and nothing to stop.
WatchFails ==
  /\ handler = "watch"
  /\ handler' = "failed"
  /\ UNCHANGED <<sent, taken, closed, done, run, pending, result, mutex, received>>

WatchStarts ==
  /\ handler = "watch"
  /\ handler' = "reading"
  /\ run' = "lock"
  /\ UNCHANGED <<sent, taken, closed, done, pending, result, mutex, received>>

RunLocks ==
  /\ run = "lock"
  /\ mutex = "free"
  /\ mutex' = "run"
  /\ run' = "select"
  /\ UNCHANGED <<sent, taken, closed, done, pending, result, handler, received>>

\* Either case of the select that is ready may be chosen.
RunTakes ==
  /\ run = "select"
  /\ taken < Len(sent)
  /\ taken' = taken + 1
  /\ pending' = << Fixed(sent[taken + 1]) >>
  /\ run' = "send"
  /\ UNCHANGED <<sent, closed, done, result, mutex, handler, received>>

\* Mutation: an event that finds the channel full is dropped.
RunSendsOrDrops ==
  /\ run = "send"
  /\ result' = IF Len(result) < Size THEN result \o pending ELSE result
  /\ pending' = << >>
  /\ run' = "select"
  /\ UNCHANGED <<sent, taken, closed, done, mutex, handler, received>>

\* Mutation: a channel without a capacity.
RunSendsUnbounded ==
  /\ run = "send"
  /\ result' = result \o pending
  /\ pending' = << >>
  /\ run' = "select"
  /\ UNCHANGED <<sent, taken, closed, done, mutex, handler, received>>

\* w.result <- event: blocks while the channel is full.
RunSends ==
  /\ run = "send"
  /\ Len(result) < Size
  /\ result' = result \o pending
  /\ pending' = << >>
  /\ run' = "select"
  /\ UNCHANGED <<sent, taken, closed, done, mutex, handler, received>>

\* Mutation: only the end of the events ends Run.
RunReturnsAtEndOnly ==
  /\ run = "select"
  /\ closed /\ taken = Len(sent)
  /\ run' = "returned"
  /\ mutex' = "free"
  /\ UNCHANGED <<sent, taken, closed, done, pending, result, handler, received>>

\* The context is done, or the events have come to an end.
RunReturns ==
  /\ run = "select"
  /\ done \/ (closed /\ taken = Len(sent))
  /\ run' = "returned"
  /\ mutex' = "free"
  /\ UNCHANGED <<sent, taken, closed, done, pending, result, handler, received>>

-------------------------------------------------------------------------------
(* The handler of the request.                                             *)

HandlerReceives ==
  /\ handler = "reading"
  /\ result # << >>
  /\ received' = Append(received, Head(result))
  /\ result' = Tail(result)
  /\ UNCHANGED <<sent, taken, closed, done, run, pending, mutex, handler>>

\* The handler stops reading: its context is done, the watch times out, or
\* an event cannot be written to the client.
HandlerLeaves ==
  /\ handler = "reading"
  /\ handler' = "stop"
  /\ UNCHANGED <<sent, taken, closed, done, run, pending, result, mutex, received>>

\* Stop: the watch at the host is stopped, which closes its channel.
Stop ==
  /\ handler = "stop"
  /\ mutex = "free"
  /\ closed' = TRUE
  /\ handler' = "stopped"
  /\ UNCHANGED <<sent, taken, done, run, pending, result, mutex, received>>

-------------------------------------------------------------------------------
Init ==
  /\ sent = << >> /\ taken = 0
  /\ closed = FALSE /\ done = FALSE
  /\ run = "none" /\ pending = << >>
  /\ result = << >>
  /\ mutex = "free"
  /\ handler = "watch"
  /\ received = << >>

Run == RunLocks \/ RunTakes \/ RunSends \/ RunReturns

Next ==
  \/ (\E e \in Events : Report(e)) \/ Forget
  \/ CloseSource \/ Cancel
  \/ WatchFails \/ WatchStarts
  \/ Run
  \/ HandlerReceives \/ HandlerLeaves \/ Stop

Spec == Init /\ [][Next]_vars

\* The goroutine runs when it can; so does Stop.  When its context is done
\* the handler leaves.  The select of Run chooses at random among the cases
\* that are ready, so it does not pass over the same one for ever, even if the
\* host never ceases to report.
FairSpec ==
  /\ Spec
  /\ WF_vars(Run)
  /\ SF_vars(RunReturns)
  /\ WF_vars(Stop)
  /\ WF_vars(done /\ HandlerLeaves)

-------------------------------------------------------------------------------
(* Properties.                                                             *)

Delivered == [event : Events, fixed : BOOLEAN]

\* Every variable has its type, and the channel its capacity.
TypeOK ==
  /\ sent \in Seq(Events)
  /\ taken \in 0..Len(sent)
  /\ closed \in BOOLEAN /\ done \in BOOLEAN
  /\ run \in {"none", "lock", "select", "send", "returned"}
  /\ (handler \in {"watch", "failed"} => run = "none")
  /\ pending \in Seq(Delivered) /\ (run # "send" => pending = << >>)
  /\ (run = "send" => Len(pending) = 1)
  /\ result \in Seq(Delivered) /\ Len(result) <= Size
  /\ mutex \in {"free", "run"} /\ (mutex = "run" <=> run \in {"select", "send"})
  /\ handler \in {"watch", "failed", "reading", "stop", "stopped"}
  /\ received \in Seq(Delivered)

\* What is received, in the channel and about to be sent is together what Run
\* has taken, each event fixed once, none lost or out of order, whoever is
\* slow and whenever the watch ends.
Passed == received \o result \o pending
EventsInOrder ==
  /\ Len(Passed) = taken
  /\ \A i \in 1..taken : Passed[i] = Fixed(sent[i])

\* When the context is done Run returns, and the mutex comes free, though the
\* host goes on reporting, unless Run is blocked on a full channel that nobody
\* reads.
Blocked == run = "send" /\ Len(result) = Size
RunReturnsWhenDone ==
  (run # "none" /\ done) ~> (run = "returned" \/ (Blocked /\ handler # "reading"))

\* When the handler calls Stop while Run is blocked, neither ever gets out of
\* it: Run holds the mutex Stop waits for, and nobody else reads the channel.
\* Neither the end of the context nor of the host's events helps.
Stuck == Blocked /\ handler = "stop"
StuckForGood == [][Stuck => Stuck']_vars

\* The wrapper is a watch.Interface (watch.go:96): its Stop returns.
StopReturns == handler = "stop" /\ done ~> handler = "stopped"
===============================================================================
