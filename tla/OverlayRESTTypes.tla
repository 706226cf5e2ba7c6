--------------------------- MODULE OverlayRESTTypes --------------------------
(***************************************************************************)
(* Type correctness of the overlay REST storage, for any number of         *)
(* clients, keys, labels, writes and restarts, and the lemmas about its    *)
(* operators that the other proofs use.                                    *)
(***************************************************************************)
EXTENDS OverlayREST, SequenceTheorems, TLAPS

-------------------------------------------------------------------------------
(* Types of the operators the model is built from.                         *)

LEMMA MissingType ==
  ASSUME NEW t \in Nat, NEW n \in Nat
  PROVE  Missing(t, n) \in Versions
<1>1. Unlabelled \in Labels
  BY DEF Unlabelled, Labels
<1>2. << >> \in Seq(Edits)
  BY EmptySeq
<1> QED BY <1>1, <1>2 DEF Missing, Versions

LEMMA WithConfigType ==
  ASSUME NEW r \in Resources, NEW k \in Keys, NEW m \in Labels
  PROVE  WithConfig(m, r, k) \in Labels
<1>1. ASSUME NEW l \in ConfigKeys
      PROVE  ConfigLabel(r, k, l) \in LabelValues
  <2>1. KindOf[r] \in LabelValues
    BY ResourcesAssumption
  <2>2. k.ns \in LabelValues /\ k.cluster \in LabelValues /\ k.name \in LabelValues
    BY LabelsAssumption DEF Keys
  <2> QED BY <2>1, <2>2 DEF ConfigLabel, ConfigKeys
<1> QED BY <1>1 DEF WithConfig, Labels

LEMMA MergedType ==
  ASSUME NEW m \in Labels, NEW n \in Labels
  PROVE  Merged(m, n) \in Labels
BY DEF Merged, Labels

LEMMA ContentType ==
  ASSUME NEW q \in Requests, q.verb # "delete"
  PROVE  Content(q) \in Seq(Edits)
<1>1. q.verb \in Verbs /\ q.token \in Tokens /\ q.body \in Seq(Edits)
      /\ q.base.data \in Seq(Edits)
  BY DEF Requests, Versions
<1>2. CASE q.verb = "create"
  <2>1. <<"create", q.token>> \in Edits
    BY <1>1 DEF Edits, Verbs
  <2> QED BY <1>2, <2>1 DEF Content
<1>3. CASE q.verb = "patch"
  <2>1. <<"patch", q.token>> \in Edits
    BY <1>1 DEF Edits, Verbs
  <2> QED BY <1>1, <1>3, <2>1, AppendProperties DEF Content
<1>4. CASE q.verb = "put"
  BY <1>1, <1>4 DEF Content
<1> QED BY <1>1, <1>2, <1>3, <1>4 DEF Verbs

LEMMA WrittenType ==
  ASSUME NEW q \in Requests, NEW n \in Nat
  PROVE  Written(q, n) \in Versions
<1>1. q.verb \in Verbs /\ q.token \in Nat /\ q.meta \in Labels
      /\ q.res \in Resources /\ q.key \in Keys /\ q.base.labels \in Labels
  BY BoundsAssumption DEF Requests, Versions, Tokens
<1>2. CreatedLabels(q) \in Labels
  BY <1>1, WithConfigType DEF CreatedLabels
<1>3. UpdatedLabels(q) \in Labels
  BY <1>1, MergedType, WithConfigType DEF UpdatedLabels
<1> QED
  BY <1>1, <1>2, <1>3, ContentType, MissingType DEF Written, Versions

LEMMA KeyOfType ==
  ASSUME NEW c \in Clients, NEW r \in Resources, NEW ns \in Namespaces,
         NEW name \in Names
  PROVE  KeyOf(c, r, ns, name) \in Keys
BY ClientsAssumption DEF KeyOf, Keys, Plurals

LEMMA LatestType ==
  ASSUME TypeOK, NEW k \in Keys
  PROVE  /\ Len(hist[k]) \in Nat /\ Len(hist[k]) > 0
         /\ Latest(k) \in Versions /\ Cached(k) \in Versions
<1>1. hist[k] \in Seq(Versions) /\ seen[k] \in DOMAIN hist[k]
  BY DEF TypeOK
<1>2. Len(hist[k]) \in Nat /\ DOMAIN hist[k] = 1..Len(hist[k])
  BY <1>1, LenProperties
<1>3. Len(hist[k]) \in DOMAIN hist[k]
  BY <1>1, <1>2
<1> QED BY <1>1, <1>2, <1>3, ElementOfSeq DEF Latest, Cached

LEMMA PutBodyType ==
  ASSUME TypeOK, NEW c \in Clients, NEW k \in Keys, NEW t \in Tokens
  PROVE  /\ PutBody(c, k, t).edits \in Seq(Edits)
         /\ PutBody(c, k, t).read \in Nat
         /\ Len(PutBody(c, k, t).edits) > 0
         /\ PutBody(c, k, t).edits[Len(PutBody(c, k, t).edits)] = <<"put", t>>
<1>1. <<"put", t>> \in Edits
  BY DEF Edits, Verbs
<1>2. CASE view[c] # Nothing /\ view[c].key = k /\ view[c].state.live
  <2>1. view[c].state \in Versions
    BY <1>2 DEF TypeOK
  <2>2. view[c].state.data \in Seq(Edits) /\ view[c].state.rev \in Nat
    BY <2>1 DEF Versions
  <2>3. Append(view[c].state.data, <<"put", t>>) \in Seq(Edits)
        /\ Len(Append(view[c].state.data, <<"put", t>>)) = Len(view[c].state.data) + 1
        /\ Append(view[c].state.data, <<"put", t>>)
               [Len(view[c].state.data) + 1] = <<"put", t>>
    <3>1. ASSUME NEW d \in Seq(Edits), NEW e \in Edits
          PROVE  /\ Append(d, e) \in Seq(Edits) /\ Len(Append(d, e)) = Len(d) + 1
                 /\ Append(d, e)[Len(d) + 1] = e
      BY ONLY d \in Seq(Edits), e \in Edits, AppendProperties
    <3> QED
      BY <1>1, <2>2, <3>1, Zenon
  <2>4. Len(view[c].state.data) \in Nat
    BY <2>2, LenProperties
  <2>5. PutBody(c, k, t).edits = Append(view[c].state.data, <<"put", t>>)
        /\ PutBody(c, k, t).read = view[c].state.rev
    BY <1>2 DEF PutBody
  <2>6. PutBody(c, k, t).edits \in Seq(Edits) /\ PutBody(c, k, t).read \in Nat
    BY <2>2, <2>3, <2>5
  <2>7. Len(PutBody(c, k, t).edits) = Len(view[c].state.data) + 1
        /\ PutBody(c, k, t).edits[Len(view[c].state.data) + 1] = <<"put", t>>
    BY <2>3, <2>5
  <2> QED BY <2>4, <2>6, <2>7
<1>3. CASE ~(view[c] # Nothing /\ view[c].key = k /\ view[c].state.live)
  <2>1. PutBody(c, k, t) = [edits |-> << <<"put", t>> >>, read |-> 0]
    BY <1>3 DEF PutBody
  <2> QED BY <1>1, <2>1
<1> QED BY <1>2, <1>3

\* What a write executed by the host does to the histories.
LEMMA ExecuteEffect ==
  ASSUME TypeOK, NEW q \in Requests, Execute(q)
  PROVE  /\ hist' \in [Keys -> Seq(Versions)]
         /\ rev' \in Nat
         /\ \A k \in Keys : k # q.key => hist'[k] = hist[k]
         /\ hist'[q.key] = Append(hist[q.key], Written(q, rev + 1))
         /\ Len(hist'[q.key]) = Len(hist[q.key]) + 1
         /\ \A i \in 1..Len(hist[q.key]) : hist'[q.key][i] = hist[q.key][i]
         /\ hist'[q.key][Len(hist[q.key]) + 1] = Written(q, rev + 1)
         /\ \A k \in Keys : DOMAIN hist[k] \subseteq DOMAIN hist'[k]
         /\ Len(hist[q.key]) \in Nat
         /\ DOMAIN hist[q.key] = 1..Len(hist[q.key])
         /\ DOMAIN hist'[q.key] = 1..(Len(hist[q.key]) + 1)
<1>1. q.key \in Keys
  BY DEF Requests
<1>2. Written(q, rev + 1) \in Versions /\ rev + 1 \in Nat
  BY WrittenType DEF TypeOK
<1>3. hist[q.key] \in Seq(Versions)
  BY <1>1 DEF TypeOK
<1>4. Len(hist[q.key]) \in Nat /\ DOMAIN hist[q.key] = 1..Len(hist[q.key])
  BY <1>3, LenProperties
<1>5. /\ Append(hist[q.key], Written(q, rev + 1)) \in Seq(Versions)
      /\ Len(Append(hist[q.key], Written(q, rev + 1))) = Len(hist[q.key]) + 1
      /\ \A i \in 1..Len(hist[q.key]) :
            Append(hist[q.key], Written(q, rev + 1))[i] = hist[q.key][i]
      /\ Append(hist[q.key], Written(q, rev + 1))[Len(hist[q.key]) + 1]
            = Written(q, rev + 1)
  BY <1>2, <1>3, AppendProperties
<1>6. /\ hist' = [hist EXCEPT ![q.key] = Append(@, Written(q, rev + 1))]
      /\ rev' = rev + 1
  BY DEF Execute
<1>7. hist'[q.key] = Append(hist[q.key], Written(q, rev + 1))
      /\ \A k \in Keys : k # q.key => hist'[k] = hist[k]
  BY <1>1, <1>6 DEF TypeOK
<1>8. hist' \in [Keys -> Seq(Versions)]
  BY <1>1, <1>5, <1>6 DEF TypeOK
<1>9. DOMAIN hist'[q.key] = 1..(Len(hist[q.key]) + 1)
  BY <1>1, <1>5, <1>7, <1>8, LenProperties
<1> QED BY <1>2, <1>4, <1>5, <1>6, <1>7, <1>8, <1>9

-------------------------------------------------------------------------------
(* Type correctness.                                                       *)

\* The end of a call leaves the variables of calls well typed.
LEMMA FinishType ==
  ASSUME TypeOK, NEW c \in Clients, NEW a \in Answers, stage[c] # "idle",
         Finish(c, a)
  PROVE  /\ answer' \in Seq(Answers) /\ Len(answer') = Len(answer)
         /\ stage' \in [Clients -> Stages]
         /\ req' \in [Clients -> Requests \cup {Nothing}]
         /\ \A d \in Clients : stage'[d] # "idle" => req'[d] \in Requests
<1>1. answer \in Seq(Answers) /\ answer' = [answer EXCEPT ![req[c].token] = a]
  BY DEF TypeOK, Finish
<1>2. Len(answer) \in Nat /\ answer \in [1..Len(answer) -> Answers]
  BY <1>1, LenProperties
<1>3. answer' \in [1..Len(answer) -> Answers]
  BY <1>1, <1>2
<1>4. answer' \in Seq(Answers)
  BY <1>2, <1>3, SeqDef
<1>5. Len(answer') = Len(answer)
  BY <1>2, <1>3, <1>4, LenProperties
<1>6. stage' = [stage EXCEPT ![c] = "idle"] /\ req' = [req EXCEPT ![c] = Nothing]
  BY DEF Finish
<1> QED BY <1>4, <1>5, <1>6 DEF TypeOK, Stages

\* Steps that only end a call.
LEMMA EndTypeOK ==
  ASSUME TypeOK, NEW c \in Clients, NEW a \in Answers, stage[c] # "idle",
         Finish(c, a),
         UNCHANGED <<hist, rev, seen, issued, view, adrift, restarts>>
  PROVE  TypeOK'
<1>1. /\ answer' \in Seq(Answers) /\ Len(answer') = Len(answer)
      /\ stage' \in [Clients -> Stages]
      /\ req' \in [Clients -> Requests \cup {Nothing}]
      /\ \A d \in Clients : stage'[d] # "idle" => req'[d] \in Requests
  BY FinishType
<1> QED BY <1>1 DEF TypeOK

LEMMA BeginTypeOK ==
  ASSUME TypeOK, NEW c \in Clients, NEW verb \in Verbs, NEW r \in Resources,
         NEW ns \in Namespaces \cup {NoNamespace}, NEW name \in Names,
         NEW meta \in UserLabels, Begin(c, verb, r, ns, name, meta)
  PROVE  TypeOK'
<1> DEFINE t == Len(issued) + 1
           k == KeyOf(c, r, ns, name)
           b == PutBody(c, k, t)
           q == [verb |-> verb, res |-> r, key |-> k, token |-> t,
                 meta |-> meta, body |-> b.edits, read |-> b.read,
                 base |-> Missing(0, 0)]
<1>1. issued \in Seq(Clients) /\ answer \in Seq(Answers) /\ Len(issued) \in Nat
      /\ Len(answer) = Len(issued)
  BY LenProperties DEF TypeOK
<1>2. t \in Tokens
  BY <1>1, BoundsAssumption DEF Begin, Tokens
<1>3. k \in Keys
  BY KeyOfType DEF Begin, Permitted
<1>4. b.edits \in Seq(Edits) /\ b.read \in Nat
  BY <1>2, <1>3, PutBodyType
<1>5. Missing(0, 0) \in Versions /\ meta \in Labels
  BY MissingType, LabelsAssumption
<1> HIDE DEF t, k, b
<1>6. q \in Requests
  BY <1>2, <1>3, <1>4, <1>5 DEF Requests
<1> USE DEF t, k, b
<1>7. /\ issued' = Append(issued, c) /\ answer' = Append(answer, "pending")
      /\ stage' = [stage EXCEPT ![c] = FirstStage(verb)]
      /\ req' = [req EXCEPT ![c] = q]
      /\ view' = [view EXCEPT ![c] = Nothing]
      /\ UNCHANGED <<hist, rev, seen, adrift, restarts>>
  BY DEF Begin
<1> HIDE DEF t, k, b, q
<1>8. issued' \in Seq(Clients) /\ answer' \in Seq(Answers)
      /\ Len(answer') = Len(issued') /\ Len(issued') = t
  BY <1>1, <1>7, AppendProperties DEF Answers, t
<1>9. FirstStage(verb) \in Stages
  BY DEF FirstStage, Verbs, Stages
<1>10. /\ req' \in [Clients -> Requests \cup {Nothing}]
       /\ \A d \in Clients : stage'[d] # "idle" => req'[d] \in Requests
  BY <1>6, <1>7 DEF TypeOK
<1>11. t <= MaxWrites
  BY <1>2, BoundsAssumption DEF Tokens
<1> QED BY <1>7, <1>8, <1>9, <1>10, <1>11 DEF TypeOK

LEMMA ForbidTypeOK ==
  ASSUME TypeOK, NEW c \in Clients, NEW ns, Forbid(c, ns)
  PROVE  TypeOK'
<1>1. issued \in Seq(Clients) /\ answer \in Seq(Answers) /\ Len(issued) \in Nat
      /\ Len(answer) = Len(issued)
  BY LenProperties DEF TypeOK
<1>2. issued' = Append(issued, c) /\ answer' = Append(answer, "forbidden")
      /\ Len(issued) < MaxWrites
  BY DEF Forbid
<1>3. issued' \in Seq(Clients) /\ answer' \in Seq(Answers)
      /\ Len(answer') = Len(issued') /\ Len(issued') = Len(issued) + 1
  BY <1>1, <1>2, AppendProperties DEF Answers
<1>4. Len(issued') <= MaxWrites
  BY <1>1, <1>2, <1>3, BoundsAssumption
<1> QED BY <1>3, <1>4 DEF TypeOK, Forbid

LEMMA GetTypeOK ==
  ASSUME TypeOK, NEW c \in Clients, NEW r \in Resources,
         NEW ns \in Namespaces \cup {NoNamespace}, NEW name \in Names,
         Get(c, r, ns, name)
  PROVE  TypeOK'
<1> DEFINE k == KeyOf(c, r, ns, name)
<1>1. k \in Keys
  BY KeyOfType DEF Get, Permitted
<1>2. Cached(k) \in Versions /\ Latest(k) \in Versions
  BY <1>1, LatestType
<1>3. PICK state \in {Cached(k), Latest(k)} :
        view' = [view EXCEPT ![c] =
                   IF state.live THEN [key |-> k, state |-> state] ELSE Nothing]
  BY DEF Get
<1> HIDE DEF k
<1>4. view' \in [Clients -> [key : Keys, state : Versions] \cup {Nothing}]
  BY <1>1, <1>2, <1>3 DEF TypeOK
<1> QED BY <1>4 DEF TypeOK, Get

LEMMA LookUpTypeOK ==
  ASSUME TypeOK, NEW c \in Clients, LookUp(c)
  PROVE  TypeOK'
<1>1. req[c] \in Requests
  BY DEF TypeOK, LookUp
<1>2. Cached(req[c].key) \in Versions
  BY <1>1, LatestType DEF Requests
<1>3. [req[c] EXCEPT !.base = Cached(req[c].key)] \in Requests
  BY <1>1, <1>2 DEF Requests
<1>4. req' = [req EXCEPT ![c] = [req[c] EXCEPT !.base = Cached(req[c].key)]]
  BY DEF LookUp
<1>5. /\ req' \in [Clients -> Requests \cup {Nothing}]
      /\ req'[c] \in Requests /\ \A d \in Clients : d # c => req'[d] = req[d]
  BY <1>3, <1>4 DEF TypeOK
<1>6. /\ stage' = [stage EXCEPT ![c] = "store"]
      /\ UNCHANGED <<hist, rev, seen, issued, answer, view, adrift, restarts>>
  BY DEF LookUp
<1>7. /\ stage' \in [Clients -> Stages]
      /\ \A d \in Clients : stage'[d] # "idle" => req'[d] \in Requests
  BY <1>5, <1>6 DEF TypeOK, Stages
<1> QED BY <1>5, <1>6, <1>7 DEF TypeOK

LEMMA StoreWritesTypeOK ==
  ASSUME TypeOK, NEW c \in Clients, StoreWrites(c)
  PROVE  TypeOK'
<1>1. stage[c] # "idle" /\ req[c] \in Requests /\ Execute(req[c])
      /\ Finish(c, "ok") /\ UNCHANGED <<seen, issued, view, adrift, restarts>>
  BY DEF TypeOK, StoreWrites
<1>2. /\ answer' \in Seq(Answers) /\ Len(answer') = Len(answer)
      /\ stage' \in [Clients -> Stages]
      /\ req' \in [Clients -> Requests \cup {Nothing}]
      /\ \A d \in Clients : stage'[d] # "idle" => req'[d] \in Requests
  BY <1>1, FinishType DEF Answers
<1>3. /\ hist' \in [Keys -> Seq(Versions)] /\ rev' \in Nat
      /\ \A k \in Keys : DOMAIN hist[k] \subseteq DOMAIN hist'[k]
  BY <1>1, ExecuteEffect
<1>4. \A k \in Keys : seen'[k] \in DOMAIN hist'[k]
  BY <1>1, <1>3 DEF TypeOK
<1> QED BY <1>1, <1>2, <1>3, <1>4 DEF TypeOK

LEMMA LateWriteTypeOK ==
  ASSUME TypeOK, NEW q \in adrift, LateWrite(q)
  PROVE  TypeOK'
<1>1. q \in Requests /\ Execute(q) /\ adrift' \subseteq adrift
      /\ UNCHANGED <<seen, issued, answer, stage, req, view, restarts>>
  BY DEF TypeOK, LateWrite
<1>2. /\ hist' \in [Keys -> Seq(Versions)] /\ rev' \in Nat
      /\ \A k \in Keys : DOMAIN hist[k] \subseteq DOMAIN hist'[k]
  BY <1>1, ExecuteEffect
<1>3. \A k \in Keys : seen'[k] \in DOMAIN hist'[k]
  BY <1>1, <1>2 DEF TypeOK
<1> QED BY <1>1, <1>2, <1>3 DEF TypeOK

LEMMA StoreTimesOutTypeOK ==
  ASSUME TypeOK, NEW c \in Clients, StoreTimesOut(c)
  PROVE  TypeOK'
<1>1. stage[c] # "idle" /\ req[c] \in Requests /\ Finish(c, "unknown")
      /\ adrift' = adrift \cup {req[c]}
      /\ UNCHANGED <<hist, rev, seen, issued, view, restarts>>
  BY DEF TypeOK, StoreTimesOut
<1>2. /\ answer' \in Seq(Answers) /\ Len(answer') = Len(answer)
      /\ stage' \in [Clients -> Stages]
      /\ req' \in [Clients -> Requests \cup {Nothing}]
      /\ \A d \in Clients : stage'[d] # "idle" => req'[d] \in Requests
  BY <1>1, FinishType DEF Answers
<1> QED BY <1>1, <1>2 DEF TypeOK

LEMMA StepTypeOK ==
  ASSUME TypeOK, NEW c \in Clients, Step(c)
  PROVE  TypeOK'
<1>1. CASE DryRunPasses(c)
  BY <1>1 DEF DryRunPasses, TypeOK, Stages
<1>2. CASE DryRunFails(c)
  BY <1>2, EndTypeOK DEF DryRunFails, Answers
<1>3. CASE LookUp(c)
  BY <1>3, LookUpTypeOK
<1>4. CASE LookUpMisses(c)
  BY <1>4, EndTypeOK DEF LookUpMisses, Answers
<1>5. CASE UpdateInvalid(c)
  BY <1>5, EndTypeOK DEF UpdateInvalid, Answers
<1>6. CASE StoreWrites(c)
  BY <1>6, StoreWritesTypeOK
<1>7. CASE StoreConflicts(c)
  BY <1>7, EndTypeOK DEF StoreConflicts, Answers
<1>8. CASE StoreFindsNothing(c)
  BY <1>8, EndTypeOK DEF StoreFindsNothing, Answers
<1>9. CASE StoreFindsOther(c)
  BY <1>9, EndTypeOK DEF StoreFindsOther, Answers
<1>10. CASE StoreTimesOut(c)
  BY <1>10, StoreTimesOutTypeOK
<1> QED
  BY <1>1, <1>2, <1>3, <1>4, <1>5, <1>6, <1>7, <1>8, <1>9, <1>10 DEF Step

LEMMA CacheAdvancesTypeOK ==
  ASSUME TypeOK, NEW k \in Keys, CacheAdvances(k)
  PROVE  TypeOK'
<1>1. PICK n \in DOMAIN hist[k] : seen' = [seen EXCEPT ![k] = n]
  BY DEF CacheAdvances
<1>2. hist[k] \in Seq(Versions)
  BY DEF TypeOK
<1>3. DOMAIN hist[k] = 1..Len(hist[k]) /\ Len(hist[k]) \in Nat
  BY <1>2, LenProperties
<1>4. n \in DOMAIN hist[k] /\ n \in Nat
  BY <1>2, <1>3
<1> QED BY <1>1, <1>4 DEF TypeOK, CacheAdvances

LEMMA RestartTypeOK ==
  ASSUME TypeOK, Restart
  PROVE  TypeOK'
<1>1. /\ answer' = [t \in DOMAIN answer |->
                      IF answer[t] = "pending" THEN "unknown" ELSE answer[t]]
      /\ adrift' = adrift \cup {req[c] : c \in {d \in Clients : stage[d] = "store"}}
      /\ stage' = [c \in Clients |-> "idle"]
      /\ req'   = [c \in Clients |-> Nothing]
      /\ seen'  = [k \in Keys |-> 1]
      /\ restarts < MaxRestarts /\ restarts' = restarts + 1
      /\ UNCHANGED <<hist, rev, issued, view>>
  BY DEF Restart
<1>2. answer \in Seq(Answers)
  BY DEF TypeOK
<1>3. Len(answer) \in Nat /\ answer \in [1..Len(answer) -> Answers]
      /\ DOMAIN answer = 1..Len(answer)
  BY <1>2, LenProperties
<1>4. answer' \in [1..Len(answer) -> Answers]
  BY <1>1, <1>3 DEF Answers
<1>5. answer' \in Seq(Answers)
  BY <1>3, <1>4, SeqDef
<1>6. Len(answer') = Len(answer)
  BY <1>3, <1>4, <1>5, LenProperties
<1>7. \A k \in Keys : 1 \in DOMAIN hist[k]
  <2> TAKE k \in Keys
  <2>1. hist[k] \in Seq(Versions)
    BY DEF TypeOK
  <2> QED BY <2>1, LatestType, LenProperties
<1>8. adrift' \subseteq Requests
  BY <1>1 DEF TypeOK
<1>9. restarts' \in 0..MaxRestarts
  BY <1>1, BoundsAssumption DEF TypeOK
<1> QED BY <1>1, <1>5, <1>6, <1>7, <1>8, <1>9 DEF TypeOK, Stages

LEMMA InitTypeOK == Init => TypeOK
<1> SUFFICES ASSUME Init PROVE TypeOK
  OBVIOUS
<1>1. Missing(0, 0) \in Versions
  BY MissingType
<1>2. << Missing(0, 0) >> \in Seq(Versions) /\ DOMAIN << Missing(0, 0) >> = 1..1
      /\ 1 \in 1..1
  BY <1>1
<1>3. << >> \in Seq(Clients) /\ << >> \in Seq(Answers) /\ Len(<< >>) = 0
  BY EmptySeq
<1> QED BY <1>2, <1>3, BoundsAssumption DEF Init, TypeOK, Stages

LEMMA NextTypeOK == TypeOK /\ [Next]_vars => TypeOK'
<1> SUFFICES ASSUME TypeOK, [Next]_vars PROVE TypeOK'
  OBVIOUS
<1>1. ASSUME NEW c \in Clients, NEW ns \in Namespaces \cup {NoNamespace},
             Forbid(c, ns)
      PROVE  TypeOK'
  BY <1>1, ForbidTypeOK
<1>2. ASSUME NEW c \in Clients, NEW ns \in Namespaces \cup {NoNamespace},
             NEW r \in Resources, NEW name \in Names, Get(c, r, ns, name)
      PROVE  TypeOK'
  BY <1>2, GetTypeOK
<1>3. ASSUME NEW c \in Clients, NEW ns \in Namespaces \cup {NoNamespace},
             NEW r \in Resources, NEW name \in Names,
             NEW verb \in Verbs \cap Uses, NEW meta \in UserLabels,
             Begin(c, verb, r, ns, name, meta)
      PROVE  TypeOK'
  BY <1>3, BeginTypeOK
<1>4. ASSUME NEW c \in Clients, Step(c) PROVE TypeOK'
  BY <1>4, StepTypeOK
<1>5. ASSUME NEW q \in adrift, LateWrite(q) PROVE TypeOK'
  BY <1>5, LateWriteTypeOK
<1>6. ASSUME NEW k \in Keys, CacheAdvances(k) PROVE TypeOK'
  BY <1>6, CacheAdvancesTypeOK
<1>7. CASE Restart
  BY <1>7, RestartTypeOK
<1>8. CASE UNCHANGED vars
  BY <1>8 DEF vars, TypeOK
<1> QED
  BY <1>1, <1>2, <1>3, <1>4, <1>5, <1>6, <1>7, <1>8 DEF Next

\* Every reachable state is well typed; in particular the cache never holds a
\* state the host has not had, and every call in progress is a whole request.
THEOREM TypeCorrect == Spec => []TypeOK
BY InitTypeOK, NextTypeOK, PTL DEF Spec
===============================================================================
