-------------------------- MODULE WatchWrapperProofs --------------------------
(***************************************************************************)
(* The watch loses, repeats and reorders no event, for any size of the     *)
(* result channel.  The invariant is inductive as it stands: an event only *)
(* ever moves from one end of the line received - result - pending to the  *)
(* next place in it.                                                       *)
(***************************************************************************)
EXTENDS WatchWrapper, SequenceTheorems, TLAPS

USE SizesAssumption, EventsAssumption

Inv == TypeOK /\ EventsInOrder

\* Everything that has been passed on is a sequence of events.
LEMMA PassedTyped == TypeOK => Passed \in Seq(Delivered)
  BY DEF TypeOK, Passed

\* The steps that touch none of the events keep both invariants.
LEMMA Quiet ==
  ASSUME TypeOK, EventsInOrder, UNCHANGED <<sent, taken, pending, result, received>>
  PROVE  EventsInOrder'
  BY DEF EventsInOrder, Passed

\* The host reports an event.
LEMMA ReportKeeps ==
  ASSUME TypeOK, EventsInOrder, NEW e \in Events, Report(e)
  PROVE  TypeOK' /\ EventsInOrder'
<1>1. /\ UNCHANGED <<taken, closed, done, run, pending, result, mutex, handler, received>>
      /\ sent \in Seq(Events) /\ sent' = Append(sent, e)
      /\ taken \in 0..Len(sent)
  BY DEF Report, TypeOK
<1>2. /\ sent' \in Seq(Events) /\ Len(sent') = Len(sent) + 1
      /\ \A i \in 1..Len(sent) : sent'[i] = sent[i]
  BY <1>1, AppendProperties
<1>3. TypeOK'
  BY <1>1, <1>2 DEF TypeOK
<1>4. EventsInOrder'
  <2>1. Passed' = Passed /\ taken' = taken
    BY <1>1 DEF Passed
  <2>2. \A i \in 1..taken : i \in 1..Len(sent)
    BY <1>1
  <2> QED
    BY <1>2, <2>1, <2>2 DEF EventsInOrder, Fixed
<1> QED
  BY <1>3, <1>4

\* An event that was received is forgotten: the line and what was reported
\* lose the same first element.
LEMMA ForgetKeeps ==
  ASSUME TypeOK, EventsInOrder, Forget
  PROVE  TypeOK' /\ EventsInOrder'
<1>1. /\ UNCHANGED <<closed, done, run, pending, result, mutex, handler>>
      /\ sent' = Tail(sent) /\ taken' = taken - 1 /\ received' = Tail(received)
      /\ received \in Seq(Delivered) /\ received # << >>
      /\ result \in Seq(Delivered) /\ pending \in Seq(Delivered)
      /\ sent \in Seq(Events) /\ taken \in 0..Len(sent)
  BY DEF Forget, TypeOK
<1> DEFINE rest == result \o pending
           line == received \o rest
<1>2. /\ received' \in Seq(Delivered) /\ Len(received') = Len(received) - 1
      /\ Len(received) \in Nat \ {0}
      /\ \A i \in 1..Len(received) - 1 : received'[i] = received[i + 1]
  BY <1>1
<1>3. rest \in Seq(Delivered) /\ Len(rest) \in Nat
  BY <1>1
<1>4. Passed = line /\ Passed' = received' \o rest
  <2>1. \A s, t, u \in Seq(Delivered) : (s \o t) \o u = s \o (t \o u)
    <3> TAKE s, t, u \in Seq(Delivered)
    <3> QED BY ONLY s \in Seq(Delivered), t \in Seq(Delivered),
                    u \in Seq(Delivered), ConcatAssociative
  <2>2. (received \o result) \o pending = received \o (result \o pending)
    BY <1>1, <2>1, Zenon
  <2>3. (received' \o result) \o pending = received' \o (result \o pending)
    <3>1. received' \in Seq(Delivered) /\ result \in Seq(Delivered)
          /\ pending \in Seq(Delivered)
      BY <1>1, <1>2
    <3> QED
      BY ONLY <2>1, <3>1, Zenon
  <2>4. Passed' = (received' \o result) \o pending
    BY <1>1 DEF Passed
  <2> QED
    BY <2>2, <2>3, <2>4 DEF Passed
<1>5. /\ Len(Passed') = Len(Passed) - 1
      /\ \A i \in 1..Len(Passed) - 1 : Passed'[i] = Passed[i + 1]
  <2> HIDE DEF rest
  <2> SUFFICES /\ Len(received' \o rest) = Len(received \o rest) - 1
               /\ \A i \in 1..Len(received \o rest) - 1 :
                    (received' \o rest)[i] = (received \o rest)[i + 1]
    BY <1>4
  <2>1. \A s, t \in Seq(Delivered) :
          /\ Len(s \o t) = Len(s) + Len(t)
          /\ \A i \in 1..Len(s) + Len(t) : (s \o t)[i] =
                   IF i <= Len(s) THEN s[i] ELSE t[i - Len(s)]
    BY ConcatProperties, Zenon
  <2>2. Len(received \o rest) = Len(received) + Len(rest)
    BY <1>1, <1>3, <2>1, Zenon
  <2>3. Len(received' \o rest) = Len(received') + Len(rest)
    BY <1>2, <1>3, <2>1, Zenon
  <2>4. ASSUME NEW i \in 1..Len(received \o rest) - 1
        PROVE  (received' \o rest)[i] = (received \o rest)[i + 1]
    <3>1. PICK j \in 1..Len(received) + Len(rest) : j = i + 1
      BY <1>2, <1>3, <2>2, <2>4
    <3>2. i \in 1..Len(received') + Len(rest)
      BY <1>2, <1>3, <2>2, <2>4
    <3>3. (received' \o rest)[i] =
             IF i <= Len(received') THEN received'[i] ELSE rest[i - Len(received')]
      BY <1>2, <1>3, <2>1, <3>2, Zenon
    <3>4. (received \o rest)[j] =
             IF j <= Len(received) THEN received[j] ELSE rest[j - Len(received)]
      BY <1>1, <1>3, <2>1, Zenon
    <3>5. CASE i <= Len(received) - 1
      BY <1>2, <3>1, <3>2, <3>3, <3>4, <3>5
    <3>6. CASE ~(i <= Len(received) - 1)
      <4>1. i - Len(received') = j - Len(received)
        BY <1>2, <3>1, <3>2
      <4> QED
        BY <1>2, <3>1, <3>2, <3>3, <3>4, <3>6, <4>1
    <3> QED
      BY <3>5, <3>6
  <2> QED
    BY <1>2, <1>3, <2>2, <2>3, <2>4
<1>6. Len(Passed) = taken /\ \A i \in 1..taken : Passed[i] = Fixed(sent[i])
  BY DEF EventsInOrder
<1>7. taken \in 1..Len(sent) /\ sent # << >>
  <2>1. Len(line) = Len(received) + Len(rest)
    BY <1>1, <1>3, ConcatProperties, Zenon
  <2>2. taken = Len(received) + Len(rest)
    BY <1>4, <1>6, <2>1
  <2> HIDE DEF rest
  <2>3. taken \in 1..Len(sent)
    BY <1>1, <1>2, <1>3, <2>2
  <2> QED
    BY <1>1, <2>3
<1>8. /\ sent' \in Seq(Events) /\ Len(sent') = Len(sent) - 1
      /\ \A i \in 1..Len(sent) - 1 : sent'[i] = sent[i + 1]
  BY <1>1, <1>7
<1>9. TypeOK'
  BY <1>1, <1>2, <1>7, <1>8 DEF TypeOK
<1>10. EventsInOrder'
  <2>1. Len(Passed') = taken'
    BY <1>1, <1>5, <1>6
  <2>2. ASSUME NEW i \in 1..taken' PROVE Passed'[i] = Fixed(sent'[i])
    <3>1. i \in 1..taken - 1 /\ i + 1 \in 1..taken /\ i \in 1..Len(sent) - 1
      BY <1>1, <1>7
    <3>2. Passed'[i] = Passed[i + 1] /\ sent'[i] = sent[i + 1]
      BY <1>5, <1>6, <1>8, <3>1
    <3>3. Passed[i + 1] = Fixed(sent[i + 1])
      BY <1>6, <3>1
    <3> QED
      BY <3>2, <3>3 DEF Fixed
  <2> QED
    BY <2>1, <2>2 DEF EventsInOrder, Fixed
<1> QED
  BY <1>9, <1>10

\* Run takes an event.
LEMMA TakeKeeps ==
  ASSUME TypeOK, EventsInOrder, RunTakes
  PROVE  TypeOK' /\ EventsInOrder'
<1>1. /\ UNCHANGED <<sent, closed, done, result, mutex, handler, received>>
      /\ taken' = taken + 1 /\ taken < Len(sent) /\ taken \in Nat
      /\ run = "select" /\ run' = "send"
      /\ pending = << >> /\ pending' = << Fixed(sent[taken + 1]) >>
      /\ received \in Seq(Delivered) /\ result \in Seq(Delivered)
      /\ sent \in Seq(Events)
  BY DEF RunTakes, TypeOK
<1>2. sent[taken + 1] \in Events
  <2>1. taken + 1 \in 1..Len(sent)
    BY <1>1
  <2> QED
    BY <1>1, <2>1, ElementOfSeq
<1>3. pending' \in Seq(Delivered) /\ Len(pending') = 1
  BY <1>1, <1>2 DEF Fixed, Delivered
<1>4. TypeOK'
  BY <1>1, <1>3 DEF TypeOK
<1>5. EventsInOrder'
  <2> DEFINE line == received \o result
  <2>1. line \in Seq(Delivered) /\ Passed = line
    BY <1>1, ConcatProperties, ConcatEmptySeq DEF Passed
  <2>2. Len(line) = taken
    BY <2>1 DEF EventsInOrder
  <2>3. Passed' = line \o pending'
    BY <1>1 DEF Passed
  <2>4. /\ Len(Passed') = taken + 1
        /\ \A i \in 1..taken : Passed'[i] = line[i]
        /\ Passed'[taken + 1] = pending'[1]
    <3>1. ASSUME NEW s \in Seq(Delivered), NEW t \in Seq(Delivered), Len(t) = 1
          PROVE  /\ Len(s \o t) = Len(s) + 1
                 /\ \A i \in 1..Len(s) : (s \o t)[i] = s[i]
                 /\ (s \o t)[Len(s) + 1] = t[1]
      <4>1. /\ Len(s \o t) = Len(s) + Len(t)
            /\ \A i \in 1..Len(s) + Len(t) : (s \o t)[i] =
                     IF i <= Len(s) THEN s[i] ELSE t[i - Len(s)]
        BY ConcatProperties, Zenon
      <4>2. Len(s) \in Nat
        OBVIOUS
      <4> QED
        BY <3>1, <4>1, <4>2
    <3> HIDE DEF line
    <3> QED
      BY <1>3, <2>1, <2>2, <2>3, <3>1
  <2>5. pending'[1] = Fixed(sent[taken + 1])
    BY <1>1
  <2>6. \A i \in 1..taken + 1 : i = taken + 1 \/ i \in 1..taken
    BY <1>1
  <2> QED
    BY <1>1, <2>1, <2>4, <2>5, <2>6 DEF EventsInOrder, Fixed
<1> QED
  BY <1>4, <1>5

\* Run sends the event it has taken.
LEMMA SendKeeps ==
  ASSUME TypeOK, EventsInOrder, RunSends
  PROVE  TypeOK' /\ EventsInOrder'
<1>1. /\ UNCHANGED <<sent, taken, closed, done, mutex, handler, received>>
      /\ run = "send" /\ run' = "select" /\ Len(result) < Size
      /\ result' = result \o pending /\ pending' = << >> /\ Len(pending) = 1
      /\ received \in Seq(Delivered) /\ result \in Seq(Delivered)
      /\ pending \in Seq(Delivered)
  BY DEF RunSends, TypeOK
<1>2. result' \in Seq(Delivered) /\ Len(result') = Len(result) + 1
  <2>1. result' \in Seq(Delivered) /\ Len(result') = Len(result) + Len(pending)
    BY <1>1, ConcatProperties, Zenon
  <2> QED
    BY <1>1, <2>1
<1>3. TypeOK'
  BY <1>1, <1>2 DEF TypeOK
<1>4. Passed' = Passed
  <2>1. Passed' = received \o result'
    BY <1>1, <1>2, ConcatProperties, ConcatEmptySeq DEF Passed
  <2>2. Passed = received \o (result \o pending)
    <3>1. \A s, t, u \in Seq(Delivered) : (s \o t) \o u = s \o (t \o u)
      <4> TAKE s, t, u \in Seq(Delivered)
      <4> QED BY ONLY s \in Seq(Delivered), t \in Seq(Delivered),
                      u \in Seq(Delivered), ConcatAssociative
    <3>2. (received \o result) \o pending = received \o (result \o pending)
      BY <1>1, <3>1, Zenon
    <3> QED
      BY <3>2, Zenon DEF Passed
  <2> QED
    BY <1>1, <2>1, <2>2
<1> QED
  BY <1>1, <1>3, <1>4 DEF EventsInOrder

\* The handler receives an event.
LEMMA ReceiveKeeps ==
  ASSUME TypeOK, EventsInOrder, HandlerReceives
  PROVE  TypeOK' /\ EventsInOrder'
<1>1. /\ UNCHANGED <<sent, taken, closed, done, run, pending, mutex, handler>>
      /\ received' = Append(received, Head(result)) /\ result' = Tail(result)
      /\ received \in Seq(Delivered) /\ result \in Seq(Delivered) /\ result # << >>
      /\ pending \in Seq(Delivered)
  BY DEF HandlerReceives, TypeOK
<1>2. /\ Head(result) \in Delivered /\ result' \in Seq(Delivered)
      /\ Len(result') = Len(result) - 1 /\ Len(result) \in Nat
  BY <1>1, HeadTailProperties
<1>3. received' \in Seq(Delivered)
  BY <1>1, <1>2
<1>4. TypeOK'
  BY <1>1, <1>2, <1>3 DEF TypeOK
<1>5. received' \o result' = received \o result
  <2>1. << Head(result) >> \in Seq(Delivered)
    BY <1>2
  <2>2. << Head(result) >> \o Tail(result) = result
    BY <1>1, <1>2
  <2>3. received' = received \o << Head(result) >>
    BY <1>1, <1>2, AppendIsConcat
  <2>4. \A s, t, u \in Seq(Delivered) : (s \o t) \o u = s \o (t \o u)
    <3> TAKE s, t, u \in Seq(Delivered)
    <3> QED BY ONLY s \in Seq(Delivered), t \in Seq(Delivered),
                    u \in Seq(Delivered), ConcatAssociative
  <2>5. (received \o << Head(result) >>) \o result'
          = received \o (<< Head(result) >> \o result')
    <3>1. received \in Seq(Delivered) /\ result' \in Seq(Delivered)
      BY <1>1, <1>2
    <3> QED
      BY ONLY <2>1, <2>4, <3>1, Zenon
  <2> QED
    <3>1. result' = Tail(result)
      BY <1>1
    <3> QED
      BY ONLY <2>2, <2>3, <2>5, <3>1
<1>6. Passed' = Passed
  BY <1>1, <1>5 DEF Passed
<1> QED
  BY <1>1, <1>4, <1>6 DEF EventsInOrder

-------------------------------------------------------------------------------
(* The theorem.                                                            *)

\* Every event the watch at the host reports, as far as Run has taken it, is
\* passed on to the client fixed, once and in order.
THEOREM InOrder == Spec => [](TypeOK /\ EventsInOrder)
<1>1. Init => Inv
  <2> SUFFICES ASSUME Init PROVE TypeOK /\ EventsInOrder
    BY DEF Inv
  <2>1. TypeOK
    <3>1. /\ sent = << >> /\ taken = 0 /\ pending = << >> /\ result = << >>
          /\ received = << >> /\ run = "none" /\ mutex = "free" /\ handler = "watch"
      BY DEF Init
    <3>2. /\ sent \in Seq(Events) /\ taken \in 0..Len(sent)
          /\ pending \in Seq(Delivered) /\ result \in Seq(Delivered)
          /\ received \in Seq(Delivered) /\ Len(result) <= Size
      BY <3>1, EmptySeq
    <3>3. closed \in BOOLEAN /\ done \in BOOLEAN
      BY Zenon DEF Init
    <3> QED
      BY <3>1, <3>2, <3>3 DEF TypeOK
  <2>2. Passed = << >> /\ taken = 0
    BY DEF Init, Passed
  <2> QED
    BY <2>1, <2>2 DEF EventsInOrder
<1>2. Inv /\ [Next]_vars => Inv'
  <2> SUFFICES ASSUME TypeOK, EventsInOrder, [Next]_vars
               PROVE  TypeOK' /\ EventsInOrder'
    BY DEF Inv
  <2>1. ASSUME NEW e \in Events, Report(e) PROVE TypeOK' /\ EventsInOrder'
    BY <2>1, ReportKeeps
  <2>8. CASE Forget
    BY <2>8, ForgetKeeps
  <2>2. CASE RunTakes
    BY <2>2, TakeKeeps
  <2>3. CASE RunSends
    BY <2>3, SendKeeps
  <2>4. CASE HandlerReceives
    BY <2>4, ReceiveKeeps
  <2>5. CASE CloseSource \/ Cancel \/ WatchFails \/ HandlerLeaves \/ Stop
    <3>1. /\ UNCHANGED <<sent, taken, run, pending, result, mutex, received>>
          /\ closed' \in BOOLEAN /\ done' \in BOOLEAN
          /\ handler' \in {"watch", "failed", "reading", "stop", "stopped"}
          /\ (handler' \in {"watch", "failed"} => run' = "none")
      BY <2>5 DEF CloseSource, Cancel, WatchFails, HandlerLeaves, Stop, TypeOK
    <3>2. TypeOK'
      BY <3>1 DEF TypeOK
    <3> QED
      BY <3>1, <3>2, Quiet
  <2>6. CASE WatchStarts \/ RunLocks \/ RunReturns
    <3>1. TypeOK'
      <4>1. CASE WatchStarts
        BY <4>1 DEF WatchStarts, TypeOK
      <4>2. CASE RunLocks
        BY <4>2 DEF RunLocks, TypeOK
      <4>3. CASE RunReturns
        BY <4>3 DEF RunReturns, TypeOK
      <4> QED
        BY <2>6, <4>1, <4>2, <4>3
    <3>2. UNCHANGED <<sent, taken, pending, result, received>>
      BY <2>6 DEF WatchStarts, RunLocks, RunReturns
    <3> QED
      BY <3>1, <3>2, Quiet
  <2>7. CASE UNCHANGED vars
    BY <2>7, Quiet DEF vars, TypeOK
  <2> QED
    BY <2>1, <2>2, <2>3, <2>4, <2>5, <2>6, <2>7, <2>8 DEF Next, Run
<1> QED
  BY <1>1, <1>2, PTL DEF Spec, Inv

\* Types: the result channel never holds more than its capacity, and the mutex
\* is held exactly while Run selects and sends.
THEOREM TypeCorrect == Spec => []TypeOK
<1>1. TypeOK /\ EventsInOrder => TypeOK
  OBVIOUS
<1> QED
  BY <1>1, InOrder, PTL

-------------------------------------------------------------------------------
(* The wrapper that is stuck.                                              *)

\* No step takes Run out of its send or the handler out of Stop: the channel
\* is full, the handler does not read it, and Run holds the mutex.
LEMMA StuckStep ==
  ASSUME TypeOK, Stuck, [Next]_vars
  PROVE  Stuck'
<1>1. /\ run = "send" /\ Len(result) = Size /\ handler = "stop" /\ mutex # "free"
      /\ ~(Len(result) < Size)
  BY DEF Stuck, Blocked, TypeOK
<1>2. CASE (\E e \in Events : Report(e)) \/ Forget \/ CloseSource \/ Cancel
  BY <1>1, <1>2 DEF Report, Forget, CloseSource, Cancel, Stuck, Blocked
<1>3. ~(WatchFails \/ WatchStarts \/ HandlerReceives \/ HandlerLeaves \/ Stop)
  BY <1>1 DEF WatchFails, WatchStarts, HandlerReceives, HandlerLeaves, Stop
<1>4. ~Run
  BY <1>1 DEF Run, RunLocks, RunTakes, RunSends, RunReturns
<1>5. CASE UNCHANGED vars
  BY <1>1, <1>5 DEF vars, Stuck, Blocked
<1> QED
  BY <1>2, <1>3, <1>4, <1>5 DEF Next

\* A wrapper that is stuck stays so, for any size of the result channel,
\* whatever the host and the context of the request do.
THEOREM StuckStays == Spec => StuckForGood
<1>1. TypeOK /\ [Next]_vars => [Stuck => Stuck']_vars
  BY StuckStep
<1> QED
  BY <1>1, TypeCorrect, PTL DEF Spec, StuckForGood

\* So Stop, called while Run is blocked, never returns: the watch at the host
\* is not stopped and its goroutine stays.
THEOREM StopNeverReturns == Spec => [](Stuck => [](handler = "stop"))
<1>1. TypeOK /\ Stuck /\ [Next]_vars => Stuck'
  BY StuckStep
<1>2. Stuck => handler = "stop"
  BY DEF Stuck
<1> QED
  BY <1>1, <1>2, TypeCorrect, PTL DEF Spec
===============================================================================
