-------------------------- MODULE OverlayRESTTenancy -------------------------
(***************************************************************************)
(* What the overlay REST storage keeps apart, for any number of clients,   *)
(* clusters, writes and restarts: who wrote a manifest, how it is          *)
(* labelled, and what the author of a write is told.  All of it follows    *)
(* from TInv, which says where every state in the history of a manifest    *)
(* comes from.                                                             *)
(***************************************************************************)
EXTENDS OverlayRESTProofs, FiniteSetTheorems

\* A request for an object of its client's cluster and namespace.
Fits(q) ==
  /\ q.token \in DOMAIN answer
  /\ ClusterOf[issued[q.token]] = q.key.cluster
  /\ AllowedNs[issued[q.token]] = q.key.ns
  /\ q.key.plural = PluralOf[q.res]
RequestsFit ==
  /\ \A c \in Clients : stage[c] # "idle" => Fits(req[c])
  /\ \A q \in adrift : Fits(q)

LabelsFit(v, r, k) ==
  /\ PluralOf[r] = k.plural
  /\ v.labels["kind"] = KindOf[r]
  /\ v.labels["namespace"] = k.ns
  /\ v.labels["cluster"] = k.cluster
  /\ \A l \in UserKeys : v.meta[l] # NoLabel => v.labels[l] = v.meta[l]
Labelled ==
  \A k \in Keys : \A i \in DOMAIN hist[k] :
    hist[k][i].live => \E r \in Resources : LabelsFit(hist[k][i], r, k)

\* A write leaves one state, of one manifest.
AuthorsKnown ==
  \A k \in Keys : \A i \in DOMAIN hist[k] :
    hist[k][i].by = 0 \/ hist[k][i].by \in DOMAIN answer
OneStateEach ==
  \A k, l \in Keys : \A i \in DOMAIN hist[k], j \in DOMAIN hist[l] :
    (hist[k][i].by = hist[l][j].by /\ hist[k][i].by # 0) => k = l /\ i = j
HistoriesShort == \A k \in Keys : Len(hist[k]) <= rev + 1

Refusals == {"forbidden", "refused", "exists", "notfound", "conflict"}
AnswersFit ==
  \A t \in DOMAIN answer :
    /\ answer[t] = "ok" => t \in Applied
    /\ answer[t] \in Refusals => t \notin Applied

HInv == WritesStayHome /\ Labelled /\ AuthorsKnown /\ OneStateEach /\ HistoriesShort
TInv == HInv /\ RequestsFit /\ AnswersFit

-------------------------------------------------------------------------------
(* Histories.                                                              *)

LEMMA KeepHInv ==
  ASSUME HInv, UNCHANGED <<hist, rev>>,
         \A t \in DOMAIN answer : t \in DOMAIN answer' /\ issued'[t] = issued[t]
  PROVE  HInv'
<1>1. WritesStayHome'
  BY DEF HInv, WritesStayHome, AuthorsKnown
<1>2. Labelled' /\ OneStateEach' /\ HistoriesShort'
  BY DEF HInv, Labelled, LabelsFit, OneStateEach, HistoriesShort
<1>3. AuthorsKnown'
  BY DEF HInv, AuthorsKnown
<1> QED BY <1>1, <1>2, <1>3 DEF HInv

\* The labels of the manifest a write asks for.
LEMMA WrittenFits ==
  ASSUME NEW q \in Requests, NEW n, Fits(q), Written(q, n).live
  PROVE  LabelsFit(Written(q, n), q.res, q.key)
<1>1. q.verb # "delete"
  BY DEF Written, Missing
<1>2. /\ Written(q, n).meta = q.meta
      /\ Written(q, n).labels = IF q.verb = "create" THEN CreatedLabels(q)
                                ELSE UpdatedLabels(q)
  BY <1>1 DEF Written
<1>3. {"kind", "namespace", "cluster"} \subseteq ConfigKeys
      /\ ConfigKeys \subseteq LabelKeys /\ UserKeys \subseteq LabelKeys
      /\ UserKeys \cap ConfigKeys = {}
  BY LabelsAssumption DEF ConfigKeys, LabelKeys
<1>4. ASSUME NEW m
      PROVE  LET w == WithConfig(m, q.res, q.key)
             IN /\ w["kind"] = KindOf[q.res]
                /\ w["namespace"] = q.key.ns
                /\ w["cluster"] = q.key.cluster
                /\ \A l \in UserKeys : w[l] = m[l]
  BY <1>3 DEF WithConfig, ConfigLabel
<1>5. \A l \in UserKeys : q.meta[l] # NoLabel => Merged(q.base.labels, q.meta)[l] = q.meta[l]
  BY <1>3 DEF Merged
<1>6. LET w == Written(q, n).labels
      IN /\ w["kind"] = KindOf[q.res]
         /\ w["namespace"] = q.key.ns
         /\ w["cluster"] = q.key.cluster
         /\ \A l \in UserKeys : q.meta[l] # NoLabel => w[l] = q.meta[l]
  <2>1. CASE q.verb = "create"
    BY <1>2, <1>4, <2>1 DEF CreatedLabels
  <2>2. CASE q.verb # "create"
    BY <1>2, <1>4, <1>5, <2>2 DEF UpdatedLabels
  <2> QED BY <2>1, <2>2
<1> QED BY <1>2, <1>6 DEF LabelsFit, Fits

LEMMA ExecuteHInv ==
  ASSUME TypeOK, HInv, NEW q \in Requests, Execute(q), Fits(q), q.token \notin Applied,
         UNCHANGED issued, DOMAIN answer' = DOMAIN answer
  PROVE  HInv'
<1> DEFINE n == Len(hist[q.key])
           w == Written(q, rev + 1)
<1>1. q.key \in Keys /\ q.token \in Tokens /\ q.res \in Resources /\ rev \in Nat
  BY DEF Requests, TypeOK
<1>2. /\ \A k \in Keys : k # q.key => hist'[k] = hist[k]
      /\ \A i \in 1..n : hist'[q.key][i] = hist[q.key][i]
      /\ hist'[q.key][n + 1] = w
      /\ n \in Nat /\ Len(hist'[q.key]) = n + 1
      /\ DOMAIN hist[q.key] = 1..n /\ DOMAIN hist'[q.key] = 1..(n + 1)
  BY ExecuteEffect
<1>3. w.by = q.token /\ q.token # 0
  BY <1>1, BoundsAssumption DEF Written, Missing, Tokens
<1>4. w.live => LabelsFit(w, q.res, q.key)
  BY WrittenFits
<1>5. rev' = rev + 1
  BY DEF Execute
<1> HIDE DEF n, w
\* A state of the histories is an old one or the one just written.
<1>6. ASSUME NEW k \in Keys, NEW i \in DOMAIN hist'[k]
      PROVE  \/ i \in DOMAIN hist[k] /\ hist'[k][i] = hist[k][i]
             \/ k = q.key /\ i = n + 1 /\ hist'[k][i] = w
  BY <1>2
<1>7. ASSUME NEW k \in Keys, NEW i \in DOMAIN hist[k]
      PROVE  hist[k][i].by # q.token
  BY <1>1 DEF Applied
<1>8. WritesStayHome'
  <2> SUFFICES ASSUME NEW k \in Keys, NEW i \in DOMAIN hist'[k], hist'[k][i].by # 0
               PROVE  /\ ClusterOf[issued[hist'[k][i].by]] = k.cluster
                      /\ AllowedNs[issued[hist'[k][i].by]] = k.ns
    BY DEF WritesStayHome
  <2>1. CASE i \in DOMAIN hist[k] /\ hist'[k][i] = hist[k][i]
    BY <2>1 DEF HInv, WritesStayHome
  <2>2. CASE k = q.key /\ hist'[k][i] = w
    BY <1>3, <2>2 DEF Fits
  <2> QED BY <1>6, <2>1, <2>2
<1>9. Labelled'
  <2> SUFFICES ASSUME NEW k \in Keys, NEW i \in DOMAIN hist'[k], hist'[k][i].live
               PROVE  \E r \in Resources : LabelsFit(hist'[k][i], r, k)
    BY DEF Labelled, LabelsFit
  <2>1. CASE i \in DOMAIN hist[k] /\ hist'[k][i] = hist[k][i]
    BY <2>1 DEF HInv, Labelled
  <2>2. CASE k = q.key /\ hist'[k][i] = w
    BY <1>1, <1>4, <2>2
  <2> QED BY <1>6, <2>1, <2>2
<1>10. AuthorsKnown'
  <2> SUFFICES ASSUME NEW k \in Keys, NEW i \in DOMAIN hist'[k]
               PROVE  hist'[k][i].by = 0 \/ hist'[k][i].by \in DOMAIN answer
    BY DEF AuthorsKnown
  <2> QED BY <1>3, <1>6 DEF HInv, AuthorsKnown, Fits
<1>11. OneStateEach'
  <2> SUFFICES ASSUME NEW k \in Keys, NEW l \in Keys,
                      NEW i \in DOMAIN hist'[k], NEW j \in DOMAIN hist'[l],
                      hist'[k][i].by = hist'[l][j].by, hist'[k][i].by # 0
               PROVE  k = l /\ i = j
    BY DEF OneStateEach
  <2>1. CASE i \in DOMAIN hist[k] /\ hist'[k][i] = hist[k][i]
    <3>1. hist'[l][j].by # q.token
      BY <1>7, <2>1
    <3>2. j \in DOMAIN hist[l] /\ hist'[l][j] = hist[l][j]
      BY <1>3, <1>6, <3>1
    <3> QED BY <2>1, <3>2 DEF HInv, OneStateEach
  <2>2. CASE k = q.key /\ i = n + 1 /\ hist'[k][i] = w
    BY <1>3, <1>6, <1>7, <2>2
  <2> QED BY <1>6, <2>1, <2>2
<1>12. HistoriesShort'
  <2> SUFFICES ASSUME NEW k \in Keys PROVE Len(hist'[k]) <= rev + 1 + 1
    BY <1>5 DEF HistoriesShort
  <2>1. Len(hist[k]) <= rev + 1 /\ Len(hist[k]) \in Nat
    BY LatestType DEF HInv, HistoriesShort
  <2>2. CASE k = q.key
    <3>1. Len(hist'[k]) = Len(hist[k]) + 1
      BY <1>2, <2>2 DEF n
    <3> QED BY ONLY <1>1, <2>1, <3>1
  <2>3. CASE k # q.key
    <3>1. hist'[k] = hist[k]
      BY <1>2, <2>3
    <3> QED BY ONLY <1>1, <2>1, <3>1
  <2> QED BY <2>2, <2>3
<1> QED BY <1>8, <1>9, <1>10, <1>11, <1>12 DEF HInv

-------------------------------------------------------------------------------
(* Requests and answers.                                                   *)

\* A step that begins no call: the calls go on with the same object, and what
\* is adrift was so before or was a call.
LEMMA KeepRequests ==
  ASSUME RequestsFit,
         \A t \in DOMAIN answer : t \in DOMAIN answer' /\ issued'[t] = issued[t],
         \A c \in Clients : stage'[c] # "idle" =>
            /\ stage[c] # "idle"
            /\ req'[c].token = req[c].token /\ req'[c].key = req[c].key
            /\ req'[c].res = req[c].res,
         \A q \in adrift' : q \in adrift \/ \E c \in Clients : stage[c] # "idle" /\ q = req[c]
  PROVE  RequestsFit'
BY DEF RequestsFit, Fits

\* Every answer that changes is a correct one.
LEMMA KeepAnswers ==
  ASSUME AnswersFit,
         \A t \in DOMAIN answer' :
            \/ t \in DOMAIN answer /\ answer'[t] = answer[t] /\ (t \in Applied' <=> t \in Applied)
            \/ answer'[t] \in {"pending", "unknown"}
            \/ answer'[t] = "ok" /\ t \in Applied'
            \/ answer'[t] \in Refusals /\ t \notin Applied'
  PROVE  AnswersFit'
BY DEF AnswersFit, Refusals

\* Steps that only end a call.
LEMMA EndTInv ==
  ASSUME IInv, TInv, NEW c \in Clients, NEW a \in Refusals \cup {"unknown"},
         stage[c] # "idle", Finish(c, a),
         UNCHANGED <<hist, rev, issued>>, adrift' \subseteq adrift \cup {req[c]}
  PROVE  TInv'
<1>1. a \in Answers
  BY DEF Answers, Refusals
<1>2. /\ DOMAIN answer' = DOMAIN answer
      /\ stage'[c] = "idle"
      /\ \A d \in Clients \ {c} : stage'[d] = stage[d] /\ req'[d] = req[d]
      /\ \A t \in DOMAIN answer : t # req[c].token => answer'[t] = answer[t]
      /\ answer'[req[c].token] = a
  BY <1>1, FinishFrame
<1>3. HInv'
  BY <1>2, KeepHInv DEF TInv
<1>4. RequestsFit'
  BY <1>2, KeepRequests DEF TInv
<1>5. Applied' = Applied /\ req[c].token \notin Applied
  BY SameApplied DEF IInv, CallsOwnTheirWrites, Open
<1>6. AnswersFit'
  BY <1>2, <1>5, KeepAnswers DEF TInv
<1> QED BY <1>3, <1>4, <1>6 DEF TInv

\* Steps that change nothing but the place of calls and what they read.
LEMMA AdvanceTInv ==
  ASSUME TInv, UNCHANGED <<hist, rev, issued, answer, adrift>>,
         \A d \in Clients : stage'[d] # "idle" =>
            /\ stage[d] # "idle"
            /\ req'[d].token = req[d].token /\ req'[d].key = req[d].key
            /\ req'[d].res = req[d].res
  PROVE  TInv'
<1>1. HInv'
  BY KeepHInv DEF TInv
<1>2. RequestsFit'
  BY KeepRequests DEF TInv
<1>3. AnswersFit'
  BY SameApplied, KeepAnswers DEF TInv
<1> QED BY <1>1, <1>2, <1>3 DEF TInv

LEMMA StoreWritesTInv ==
  ASSUME IInv, TInv, NEW c \in Clients, StoreWrites(c)
  PROVE  TInv'
<1>1. /\ TypeOK /\ stage[c] # "idle" /\ req[c] \in Requests /\ Execute(req[c])
      /\ Finish(c, "ok") /\ UNCHANGED <<issued, adrift>>
  BY DEF IInv, TypeOK, StoreWrites
<1>2. /\ DOMAIN answer' = DOMAIN answer
      /\ stage'[c] = "idle"
      /\ \A d \in Clients \ {c} : stage'[d] = stage[d] /\ req'[d] = req[d]
      /\ \A t \in DOMAIN answer : t # req[c].token => answer'[t] = answer[t]
      /\ answer'[req[c].token] = "ok"
  BY <1>1, FinishFrame DEF Answers
<1>3. Applied' = Applied \cup {req[c].token}
  BY <1>1, ExecuteApplied
<1>4. HInv'
  BY <1>1, <1>2, ExecuteHInv
  DEF IInv, CallsOwnTheirWrites, Open, TInv, RequestsFit
<1>5. RequestsFit'
  BY <1>1, <1>2, KeepRequests DEF TInv
<1>6. AnswersFit'
  BY <1>2, <1>3, KeepAnswers DEF TInv
<1> QED BY <1>4, <1>5, <1>6 DEF TInv

LEMMA LateWriteTInv ==
  ASSUME IInv, TInv, NEW q \in adrift, LateWrite(q)
  PROVE  TInv'
<1>1. /\ TypeOK /\ q \in Requests /\ Execute(q) /\ adrift' \subseteq adrift
      /\ UNCHANGED <<issued, answer, stage, req>>
  BY DEF IInv, TypeOK, LateWrite
<1>2. q.token \notin Applied /\ answer[q.token] = "unknown"
  BY DEF IInv, AdriftOwnTheirWrites, Open
<1>3. Applied' = Applied \cup {q.token}
  BY <1>1, ExecuteApplied
<1>4. HInv'
  BY <1>1, <1>2, ExecuteHInv DEF TInv, RequestsFit
<1>5. RequestsFit'
  BY <1>1, KeepRequests DEF TInv
<1>6. AnswersFit'
  BY <1>1, <1>2, <1>3, KeepAnswers DEF TInv
<1> QED BY <1>4, <1>5, <1>6 DEF TInv

LEMMA StepTInv ==
  ASSUME IInv, TInv, NEW c \in Clients, Step(c)
  PROVE  TInv'
<1>0. /\ stage \in [Clients -> Stages] /\ req \in [Clients -> Requests \cup {Nothing}]
      /\ stage[c] # "idle" => req[c] \in Requests
  BY DEF IInv, TypeOK
<1>1. CASE DryRunPasses(c)
  BY <1>0, <1>1, AdvanceTInv DEF DryRunPasses
<1>2. CASE DryRunFails(c)
  BY <1>2, EndTInv DEF DryRunFails, Refusals
<1>3. CASE LookUp(c)
  <2>1. \A d \in Clients : stage'[d] # "idle" =>
          /\ stage[d] # "idle"
          /\ req'[d].token = req[d].token /\ req'[d].key = req[d].key
          /\ req'[d].res = req[d].res
    <3> SUFFICES ASSUME NEW d \in Clients, stage'[d] # "idle"
                 PROVE  /\ stage[d] # "idle"
                        /\ req'[d].token = req[d].token /\ req'[d].key = req[d].key
                        /\ req'[d].res = req[d].res
      OBVIOUS
    <3>1. CASE d = c
      BY <1>0, <1>3, <3>1 DEF LookUp, Requests
    <3>2. CASE d # c
      BY <1>0, <1>3, <3>2 DEF LookUp
    <3> QED BY <3>1, <3>2
  <2> QED BY <1>3, <2>1, AdvanceTInv DEF LookUp
<1>4. CASE LookUpMisses(c)
  BY <1>4, EndTInv DEF LookUpMisses, Refusals
<1>5. CASE UpdateInvalid(c)
  BY <1>5, EndTInv DEF UpdateInvalid, Refusals
<1>6. CASE StoreWrites(c)
  BY <1>6, StoreWritesTInv
<1>7. CASE StoreConflicts(c)
  BY <1>7, EndTInv DEF StoreConflicts, Refusals
<1>8. CASE StoreFindsNothing(c)
  BY <1>8, EndTInv DEF StoreFindsNothing, Refusals
<1>9. CASE StoreFindsOther(c)
  BY <1>9, EndTInv DEF StoreFindsOther, Refusals
<1>10. CASE StoreTimesOut(c)
  BY <1>10, EndTInv DEF StoreTimesOut
<1> QED
  BY <1>1, <1>2, <1>3, <1>4, <1>5, <1>6, <1>7, <1>8, <1>9, <1>10 DEF Step

LEMMA BeginTInv ==
  ASSUME IInv, TInv, NEW c \in Clients, NEW verb \in Verbs, NEW r \in Resources,
         NEW ns \in Namespaces \cup {NoNamespace}, NEW name \in Names,
         NEW meta \in UserLabels, Begin(c, verb, r, ns, name, meta)
  PROVE  TInv'
<1> DEFINE t == Len(issued) + 1
<1>1. /\ issued' = Append(issued, c) /\ answer' = Append(answer, "pending")
      /\ ns = AllowedNs[c]
      /\ UNCHANGED <<hist, rev, adrift>>
  BY DEF Begin, Permitted
<1>2. /\ req'[c].token = t /\ req'[c].key = KeyOf(c, r, ns, name) /\ req'[c].res = r
      /\ \A d \in Clients \ {c} : stage'[d] = stage[d] /\ req'[d] = req[d]
  BY DEF Begin, IInv, TypeOK
<1>3. /\ Applied' = Applied
      /\ DOMAIN answer' = DOMAIN answer \cup {t} /\ t \notin DOMAIN answer
      /\ \A u \in DOMAIN answer : answer'[u] = answer[u] /\ issued'[u] = issued[u]
      /\ answer'[t] = "pending" /\ issued'[t] = c
  BY <1>1, AppendAnswer DEF Answers
<1> HIDE DEF t
<1>4. HInv'
  BY <1>1, <1>3, KeepHInv DEF TInv
<1>5. RequestsFit'
  <2>1. Fits(req[c])'
    BY <1>1, <1>2, <1>3 DEF Fits, KeyOf
  <2>2. ASSUME NEW q, Fits(q) PROVE Fits(q)'
    BY <1>3, <2>2 DEF Fits
  <2>3. ASSUME NEW d \in Clients \ {c}, stage'[d] # "idle"
        PROVE  Fits(req[d])'
    BY <1>2, <1>3, <2>3 DEF TInv, RequestsFit, Fits
  <2>4. \A q \in adrift' : Fits(q)'
    BY <1>1, <2>2 DEF TInv, RequestsFit
  <2> QED BY <2>1, <2>3, <2>4 DEF RequestsFit
<1>6. AnswersFit'
  BY <1>3, KeepAnswers DEF TInv
<1> QED BY <1>4, <1>5, <1>6 DEF TInv

LEMMA ForbidTInv ==
  ASSUME IInv, TInv, NEW c \in Clients, NEW ns, Forbid(c, ns)
  PROVE  TInv'
<1> DEFINE t == Len(issued) + 1
<1>1. /\ issued' = Append(issued, c) /\ answer' = Append(answer, "forbidden")
      /\ UNCHANGED <<hist, rev, stage, req, adrift>>
  BY DEF Forbid
<1>2. /\ Applied' = Applied
      /\ DOMAIN answer' = DOMAIN answer \cup {t} /\ t \notin DOMAIN answer
      /\ \A u \in DOMAIN answer : answer'[u] = answer[u] /\ issued'[u] = issued[u]
      /\ answer'[t] = "forbidden"
  BY <1>1, AppendAnswer DEF Answers
<1> HIDE DEF t
<1>3. HInv'
  BY <1>1, <1>2, KeepHInv DEF TInv
<1>4. RequestsFit'
  BY <1>1, <1>2, KeepRequests DEF TInv
<1>5. t \notin Applied
  BY <1>2 DEF IInv, AppliedIssued
<1>6. AnswersFit'
  BY <1>2, <1>5, KeepAnswers DEF TInv, Refusals
<1> QED BY <1>3, <1>4, <1>6 DEF TInv

LEMMA RestartTInv ==
  ASSUME IInv, TInv, Restart
  PROVE  TInv'
<1>1. /\ answer' = [t \in DOMAIN answer |->
                      IF answer[t] = "pending" THEN "unknown" ELSE answer[t]]
      /\ adrift' = adrift \cup {req[c] : c \in {d \in Clients : stage[d] = "store"}}
      /\ stage' = [c \in Clients |-> "idle"]
      /\ UNCHANGED <<hist, rev, issued>>
  BY DEF Restart
<1>2. HInv'
  BY <1>1, KeepHInv DEF TInv
<1>3. RequestsFit'
  BY <1>1, KeepRequests DEF TInv
<1>4. AnswersFit'
  BY <1>1, SameApplied, KeepAnswers DEF TInv
<1> QED BY <1>2, <1>3, <1>4 DEF TInv

LEMMA InitTInv == Init => TInv
<1> SUFFICES ASSUME Init PROVE TInv
  OBVIOUS
<1>1. /\ hist = [k \in Keys |-> << Missing(0, 0) >>] /\ rev = 0 /\ answer = << >>
      /\ stage = [c \in Clients |-> "idle"] /\ adrift = {}
  BY DEF Init
<1>2. \A k \in Keys : /\ DOMAIN hist[k] = {1} /\ Len(hist[k]) = 1
                      /\ hist[k][1].by = 0 /\ ~hist[k][1].live
  BY <1>1 DEF Missing
<1>3. HInv
  BY <1>1, <1>2 DEF HInv, WritesStayHome, Labelled, AuthorsKnown, OneStateEach,
                    HistoriesShort
<1>4. RequestsFit /\ AnswersFit
  BY <1>1 DEF RequestsFit, AnswersFit
<1> QED BY <1>3, <1>4 DEF TInv

LEMMA NextTInv == IInv /\ TInv /\ [Next]_vars => TInv'
<1> SUFFICES ASSUME IInv, TInv, [Next]_vars PROVE TInv'
  OBVIOUS
<1>1. ASSUME NEW c \in Clients, NEW ns \in Namespaces \cup {NoNamespace},
             Forbid(c, ns)
      PROVE  TInv'
  BY <1>1, ForbidTInv
<1>2. ASSUME NEW c \in Clients, NEW ns \in Namespaces \cup {NoNamespace},
             NEW r \in Resources, NEW name \in Names, Get(c, r, ns, name)
      PROVE  TInv'
  BY <1>2, AdvanceTInv DEF Get
<1>3. ASSUME NEW c \in Clients, NEW ns \in Namespaces \cup {NoNamespace},
             NEW r \in Resources, NEW name \in Names,
             NEW verb \in Verbs \cap Uses, NEW meta \in UserLabels,
             Begin(c, verb, r, ns, name, meta)
      PROVE  TInv'
  BY <1>3, BeginTInv
<1>4. ASSUME NEW c \in Clients, Step(c) PROVE TInv'
  BY <1>4, StepTInv
<1>5. ASSUME NEW q \in adrift, LateWrite(q) PROVE TInv'
  BY <1>5, LateWriteTInv
<1>6. ASSUME NEW k \in Keys, CacheAdvances(k) PROVE TInv'
  BY <1>6, AdvanceTInv DEF CacheAdvances
<1>7. CASE Restart
  BY <1>7, RestartTInv
<1>8. CASE UNCHANGED vars
  BY <1>8, AdvanceTInv DEF vars
<1> QED
  BY <1>1, <1>2, <1>3, <1>4, <1>5, <1>6, <1>7, <1>8 DEF Next

LEMMA Provenance == Spec => []TInv
BY InitTInv, NextTInv, Invariant, PTL DEF Spec

-------------------------------------------------------------------------------
(* Theorems.                                                               *)

\* Every state of a manifest is due to a client of the business cluster and
\* namespace in the manifest's name (getUser).
THEOREM StaysHome == Spec => []WritesStayHome
<1>1. TInv => WritesStayHome
  BY DEF TInv, HInv
<1> QED BY <1>1, Provenance, PTL

\* A write that was answered ok left one state, one that was refused none.
LEMMA TruthfulAnswers == TypeOK /\ TInv => AnswersTruthful
<1> SUFFICES ASSUME TypeOK, TInv, NEW t \in DOMAIN answer
    PROVE  /\ answer[t] = "ok" => Cardinality(StatesBy(t)) = 1
           /\ answer[t] \in Refusals => StatesBy(t) = {}
           /\ Cardinality(StatesBy(t)) <= 1
  BY DEF AnswersTruthful, Refusals
<1>1. t \in Nat /\ t # 0
  <2>1. DOMAIN answer = 1..Len(answer) /\ Len(answer) \in Nat
    BY LenProperties DEF TypeOK
  <2> QED BY <2>1
<1>2. ASSUME NEW p \in StatesBy(t)
      PROVE  /\ p = <<p[1], p[2]>> /\ p[1] \in Keys
             /\ p[2] \in DOMAIN hist[p[1]] /\ hist[p[1]][p[2]].by = t
  BY <1>2 DEF StatesBy
<1>3. ASSUME NEW p \in StatesBy(t), NEW q \in StatesBy(t)
      PROVE  p = q
  <2>1. p[1] = q[1] /\ p[2] = q[2]
    BY <1>1, <1>2 DEF TInv, HInv, OneStateEach
  <2> QED BY <1>2, <2>1
<1>4. StatesBy(t) # {} <=> t \in Applied
  <2>1. ASSUME NEW p \in StatesBy(t) PROVE t \in Applied
    <3>1. t \in Tokens
      <4>1. DOMAIN answer = 1..Len(answer) /\ Len(answer) \in Nat /\ Len(answer) <= MaxWrites
        BY LenProperties DEF TypeOK
      <4> QED BY <4>1, BoundsAssumption DEF Tokens
    <3> QED BY <1>2, <3>1 DEF Applied
  <2>2. ASSUME t \in Applied PROVE StatesBy(t) # {}
    <3>1. PICK k \in Keys : \E i \in DOMAIN hist[k] : hist[k][i].by = t
      BY <2>2 DEF Applied
    <3>2. PICK i \in DOMAIN hist[k] : hist[k][i].by = t
      BY <3>1
    <3>3. DOMAIN hist[k] = 1..Len(hist[k]) /\ Len(hist[k]) \in Nat /\ rev \in Nat
      BY LenProperties DEF TypeOK
    <3>4. i \in 1..(rev + 1)
      BY <3>3 DEF TInv, HInv, HistoriesShort
    <3>5. <<k, i>> \in StatesBy(t)
      BY <3>2, <3>4 DEF StatesBy
    <3> QED BY <3>5
  <2> QED BY <2>1, <2>2
<1>5. CASE t \in Applied
  <2>1. PICK p : p \in StatesBy(t)
    BY <1>4, <1>5
  <2>2. StatesBy(t) = {p}
    BY <1>3, <2>1
  <2>3. Cardinality(StatesBy(t)) = 1
    BY <2>2, FS_Singleton
  <2> QED BY <1>5, <2>3 DEF TInv, AnswersFit
<1>6. CASE t \notin Applied
  <2>1. StatesBy(t) = {}
    BY <1>4, <1>6
  <2>2. Cardinality(StatesBy(t)) = 0
    BY <2>1, FS_EmptySet
  <2> QED BY <1>6, <2>1, <2>2 DEF TInv, AnswersFit
<1> QED BY <1>5, <1>6

\* The answer to a write agrees with the history of the host, however it was
\* lost, given up, retried or executed late.
THEOREM Truthful == Spec => []AnswersTruthful
BY Provenance, TypeCorrect, TruthfulAnswers, PTL

\* An object that carries a label is found by List with that label as the
\* selector, after any number of updates of its labels.
LEMMA Complete ==
  ASSUME \A r, s \in Resources : PluralOf[r] = PluralOf[s] => KindOf[r] = KindOf[s],
         TypeOK, TInv
  PROVE  SelectorComplete
<1> SUFFICES ASSUME NEW r \in Resources, NEW k \in Keys, NEW l \in UserKeys,
                    Latest(k).live, k.plural = PluralOf[r], Latest(k).meta[l] # NoLabel
    PROVE  k \in List(r, k.cluster, k.ns, l, Latest(k).meta[l])
  BY DEF SelectorComplete
<1>1. PICK s \in Resources : LabelsFit(Latest(k), s, k)
  <2>1. DOMAIN hist[k] = 1..Len(hist[k]) /\ Len(hist[k]) \in Nat /\ Len(hist[k]) > 0
    BY LatestType, LenProperties DEF TypeOK
  <2> QED BY <2>1 DEF Latest, TInv, HInv, Labelled
<1>2. KindOf[s] = KindOf[r]
  BY <1>1 DEF LabelsFit
<1> QED BY <1>1, <1>2 DEF List, Selects, LabelsFit

\* If resources of one plural have one kind, a label an object carries finds
\* it, after any number of creates and updates (Create, Update, List).
THEOREM SelectorsComplete ==
  ASSUME \A r, s \in Resources : PluralOf[r] = PluralOf[s] => KindOf[r] = KindOf[s]
  PROVE  Spec => []SelectorComplete
<1>1. TypeOK /\ TInv => SelectorComplete
  BY Complete
<1> QED BY <1>1, Provenance, TypeCorrect, PTL

\* List returns the objects of the resource in the cluster and the namespace
\* asked for, and no others, whatever labels clients put on their objects,
\* provided that kinds tell resources apart: List selects by the kind alone
\* (convertListOptionsToLabels).
LEMMA Exact ==
  ASSUME \A r, s \in Resources : PluralOf[r] = PluralOf[s] <=> KindOf[r] = KindOf[s],
         TypeOK, TInv
  PROVE  ListExact
<1> SUFFICES ASSUME NEW r \in Resources, NEW cl \in Clusters, NEW ns \in Namespaces,
                    NEW k \in Keys
    PROVE  Selects(k, r, cl, ns, Nothing, NoLabel)
             <=> /\ Latest(k).live
                 /\ k.plural = PluralOf[r] /\ k.cluster = cl /\ k.ns = ns
  BY DEF ListExact, List
<1>1. CASE Latest(k).live
  <2>1. PICK s \in Resources : LabelsFit(Latest(k), s, k)
    <3>1. DOMAIN hist[k] = 1..Len(hist[k]) /\ Len(hist[k]) \in Nat /\ Len(hist[k]) > 0
      BY LatestType, LenProperties DEF TypeOK
    <3> QED BY <1>1, <3>1 DEF Latest, TInv, HInv, Labelled
  <2>2. KindOf[s] = KindOf[r] <=> k.plural = PluralOf[r]
    BY <2>1 DEF LabelsFit
  <2> QED BY <1>1, <2>1, <2>2 DEF Selects, LabelsFit
<1>2. CASE ~Latest(k).live
  BY <1>2 DEF Selects
<1> QED BY <1>1, <1>2

\* If kinds and plurals tell each other apart, List returns the live objects
\* of one resource, cluster and namespace, all of them and no others, whatever
\* labels clients give their objects (Create, Update, List).
THEOREM ListsExact ==
  ASSUME \A r, s \in Resources : PluralOf[r] = PluralOf[s] <=> KindOf[r] = KindOf[s]
  PROVE  Spec => []ListExact
<1>1. TypeOK /\ TInv => ListExact
  BY Exact
<1> QED BY <1>1, Provenance, TypeCorrect, PTL
===============================================================================
