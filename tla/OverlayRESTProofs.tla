-------------------------- MODULE OverlayRESTProofs --------------------------
(***************************************************************************)
(* The overlay REST storage implements ObjectStore.  The proof goes        *)
(* through the inductive invariant IInv: an update that passes the host's  *)
(* check of resourceVersions was made from the state it replaces.          *)
(***************************************************************************)
EXTENDS OverlayRESTTypes

-------------------------------------------------------------------------------
(* Which writes have taken effect.                                         *)

LEMMA ExecuteApplied ==
  ASSUME TypeOK, NEW q \in Requests, Execute(q)
  PROVE  Applied' = Applied \cup {q.token}
<1> DEFINE n == Len(hist[q.key])
<1>1. q.key \in Keys /\ q.token \in Tokens
  BY DEF Requests
<1>2. /\ \A k \in Keys : k # q.key => hist'[k] = hist[k]
      /\ \A i \in 1..n : hist'[q.key][i] = hist[q.key][i]
      /\ hist'[q.key][n + 1] = Written(q, rev + 1)
      /\ n \in Nat
      /\ DOMAIN hist[q.key] = 1..n /\ DOMAIN hist'[q.key] = 1..(n + 1)
  BY ExecuteEffect
<1>3. Written(q, rev + 1).by = q.token
  BY DEF Written, Missing
<1> HIDE DEF n
<1>4. ASSUME NEW t \in Applied PROVE t \in Applied'
  <2>1. PICK k \in Keys : \E i \in DOMAIN hist[k] : hist[k][i].by = t
    BY <1>4 DEF Applied
  <2>2. PICK i \in DOMAIN hist[k] : hist[k][i].by = t
    BY <2>1
  <2>3. i \in DOMAIN hist'[k] /\ hist'[k][i] = hist[k][i]
    BY <1>2
  <2> QED BY <1>4, <2>2, <2>3 DEF Applied
<1>5. q.token \in Applied'
  <2>1. n + 1 \in DOMAIN hist'[q.key] /\ hist'[q.key][n + 1].by = q.token
    BY <1>2, <1>3
  <2> QED BY <1>1, <2>1 DEF Applied
<1>6. ASSUME NEW t \in Applied' PROVE t \in Applied \/ t = q.token
  <2>1. PICK k \in Keys : \E i \in DOMAIN hist'[k] : hist'[k][i].by = t
    BY <1>6 DEF Applied
  <2>2. PICK i \in DOMAIN hist'[k] : hist'[k][i].by = t
    BY <2>1
  <2>3. \/ hist'[k][i].by = q.token
        \/ i \in DOMAIN hist[k] /\ hist'[k][i] = hist[k][i]
    BY <1>2, <1>3
  <2> QED BY <1>6, <2>2, <2>3 DEF Applied
<1> QED BY <1>4, <1>5, <1>6

LEMMA SameApplied ==
  ASSUME UNCHANGED hist
  PROVE  Applied' = Applied /\ StoredObjects' = StoredObjects
BY DEF Applied, StoredObjects, Latest

-------------------------------------------------------------------------------
(* Revisions.                                                              *)

LEMMA ExecuteRevisions ==
  ASSUME TypeOK, RevisionsIncrease, RevisionsKnown, NEW q \in Requests, Execute(q)
  PROVE  RevisionsIncrease' /\ RevisionsKnown'
<1> DEFINE n == Len(hist[q.key])
<1>1. q.key \in Keys /\ rev \in Nat /\ rev' = rev + 1
  BY DEF Requests, TypeOK, Execute
<1>2. /\ \A k \in Keys : k # q.key => hist'[k] = hist[k]
      /\ \A i \in 1..n : hist'[q.key][i] = hist[q.key][i]
      /\ hist'[q.key][n + 1] = Written(q, rev + 1)
      /\ n \in Nat
      /\ DOMAIN hist[q.key] = 1..n /\ DOMAIN hist'[q.key] = 1..(n + 1)
  BY ExecuteEffect
<1>3. Written(q, rev + 1).rev = rev + 1
  BY DEF Written, Missing
<1>4. \A k \in Keys : \A i \in DOMAIN hist[k] : hist[k][i].rev \in Nat
  <2> TAKE k \in Keys
  <2> TAKE i \in DOMAIN hist[k]
  <2>1. hist[k] \in Seq(Versions)
    BY DEF TypeOK
  <2>2. hist[k][i] \in Versions
    BY <2>1, ElementOfSeq, LenProperties
  <2> QED BY <2>2 DEF Versions
<1> HIDE DEF n
<1>5. \A k \in Keys : \A i \in DOMAIN hist'[k] :
        \/ k = q.key /\ i = n + 1 /\ hist'[k][i].rev = rev + 1
        \/ i \in DOMAIN hist[k] /\ hist'[k][i] = hist[k][i] /\ (k = q.key => i <= n)
  BY <1>2, <1>3
<1>6. RevisionsKnown'
  <2> SUFFICES ASSUME NEW k \in Keys, NEW i \in DOMAIN hist'[k]
               PROVE  hist'[k][i].rev <= rev'
    BY DEF RevisionsKnown
  <2>1. CASE k = q.key /\ i = n + 1 /\ hist'[k][i].rev = rev + 1
    BY <1>1, <2>1
  <2>2. CASE i \in DOMAIN hist[k] /\ hist'[k][i] = hist[k][i]
    <3>1. hist[k][i].rev <= rev /\ hist[k][i].rev \in Nat
      BY <1>4, <2>2 DEF RevisionsKnown
    <3> QED BY <1>1, <2>2, <3>1
  <2> QED BY <1>5, <2>1, <2>2
<1>7. RevisionsIncrease'
  <2> SUFFICES ASSUME NEW k \in Keys, NEW i \in DOMAIN hist'[k],
                      NEW j \in DOMAIN hist'[k], i < j
               PROVE  hist'[k][i].rev < hist'[k][j].rev
    BY DEF RevisionsIncrease
  <2>1. CASE k = q.key /\ j = n + 1 /\ hist'[k][j].rev = rev + 1
    <3>1. i \in DOMAIN hist[k] /\ hist'[k][i] = hist[k][i]
      BY <1>2, <1>5, <2>1
    <3>2. hist[k][i].rev <= rev /\ hist[k][i].rev \in Nat
      BY <1>4, <3>1 DEF RevisionsKnown
    <3> QED BY <1>1, <2>1, <3>1, <3>2
  <2>2. CASE j \in DOMAIN hist[k] /\ hist'[k][j] = hist[k][j] /\ (k = q.key => j <= n)
    <3>1. i \in DOMAIN hist[k] /\ hist'[k][i] = hist[k][i]
      BY <1>2, <1>5, <2>2
    <3> QED BY <2>2, <3>1 DEF RevisionsIncrease
  <2> QED BY <1>5, <2>1, <2>2
<1> QED BY <1>6, <1>7

\* The host's check: a state of the past with the resourceVersion of the
\* latest state is the latest state.
LEMMA SameRevisionSameState ==
  ASSUME TypeOK, RevisionsIncrease, NEW k \in Keys, NEW i \in DOMAIN hist[k],
         hist[k][i].rev = Latest(k).rev
  PROVE  hist[k][i] = Latest(k)
<1>1. hist[k] \in Seq(Versions)
  BY DEF TypeOK
<1>2. DOMAIN hist[k] = 1..Len(hist[k]) /\ Len(hist[k]) \in Nat /\ Len(hist[k]) > 0
  BY <1>1, LatestType, LenProperties
<1>3. Len(hist[k]) \in DOMAIN hist[k] /\ i \in Nat /\ i <= Len(hist[k])
  BY <1>2
<1>4. hist[k][i].rev \in Nat
  <2>1. hist[k][i] \in Versions
    BY <1>1, <1>2, ElementOfSeq
  <2> QED BY <2>1 DEF Versions
<1>5. ~(i < Len(hist[k]))
  BY <1>3, <1>4 DEF RevisionsIncrease, Latest
<1> QED BY <1>2, <1>3, <1>5 DEF Latest

\* No state of a manifest is ever lost from its history.
LEMMA HistoryKept ==
  ASSUME TypeOK, NEW p \in Requests, Execute(p), NEW k \in Keys, NEW i \in DOMAIN hist[k]
  PROVE  i \in DOMAIN hist'[k] /\ hist'[k][i] = hist[k][i]
<1>1. p.key \in Keys
  BY DEF Requests
<1>2. /\ \A l \in Keys : l # p.key => hist'[l] = hist[l]
      /\ \A j \in 1..Len(hist[p.key]) : hist'[p.key][j] = hist[p.key][j]
      /\ DOMAIN hist[p.key] = 1..Len(hist[p.key])
      /\ \A l \in Keys : DOMAIN hist[l] \subseteq DOMAIN hist'[l]
  BY ExecuteEffect
<1> QED BY <1>1, <1>2

-------------------------------------------------------------------------------
(* The invariant is inductive.                                             *)

\* The end of c's call touches no other call and no write adrift.
LEMMA FinishFrame ==
  ASSUME IInv, NEW c \in Clients, NEW a \in Answers, stage[c] # "idle", Finish(c, a)
  PROVE  /\ DOMAIN answer' = DOMAIN answer
         /\ stage'[c] = "idle"
         /\ \A d \in Clients \ {c} : stage'[d] = stage[d] /\ req'[d] = req[d]
         /\ \A t \in DOMAIN answer : t # req[c].token => answer'[t] = answer[t]
         /\ \A d \in Clients \ {c} : stage[d] # "idle" => req[d].token # req[c].token
         /\ \A q \in adrift : q.token # req[c].token
         /\ answer'[req[c].token] = a
<1>1. answer' = [answer EXCEPT ![req[c].token] = a]
      /\ stage' = [stage EXCEPT ![c] = "idle"] /\ req' = [req EXCEPT ![c] = Nothing]
  BY DEF Finish
<1>2. Open(req[c], "pending") /\ issued[req[c].token] = c
  BY DEF IInv, CallsOwnTheirWrites
<1>3. \A d \in Clients \ {c} : stage[d] # "idle" => req[d].token # req[c].token
  BY <1>2 DEF IInv, CallsOwnTheirWrites
<1>4. \A q \in adrift : q.token # req[c].token
  BY <1>2 DEF IInv, AdriftOwnTheirWrites, Open
<1>5. answer \in Seq(Answers) /\ stage \in [Clients -> Stages]
      /\ req \in [Clients -> Requests \cup {Nothing}]
  BY DEF IInv, TypeOK
<1>6. answer \in [DOMAIN answer -> Answers]
  BY <1>5, LenProperties
<1> QED BY <1>1, <1>2, <1>3, <1>4, <1>5, <1>6 DEF Open

\* Steps that only end a call.
LEMMA EndIInv ==
  ASSUME IInv, NEW c \in Clients, NEW a \in Answers, stage[c] # "idle", Finish(c, a),
         UNCHANGED <<hist, rev, seen, issued, view, adrift, restarts>>
  PROVE  IInv'
<1>1. TypeOK'
  BY EndTypeOK DEF IInv
<1>2. Applied' = Applied
  BY SameApplied
<1>3. RevisionsIncrease' /\ RevisionsKnown'
  BY DEF IInv, RevisionsIncrease, RevisionsKnown
<1>4. AppliedIssued'
  BY <1>2, FinishFrame DEF IInv, AppliedIssued
<1>5. CallsOwnTheirWrites'
  <2> SUFFICES ASSUME NEW d \in Clients, stage'[d] # "idle"
               PROVE  /\ Open(req[d], "pending")' /\ issued'[req'[d].token] = d
                      /\ BodyIsOwn(req[d])'
                      /\ stage'[d] = "store" => FromPast(req[d])'
                      /\ stage'[d] = "dryrun" => req'[d].verb = "create"
    BY DEF CallsOwnTheirWrites
  <2>1. d # c /\ stage[d] # "idle" /\ req'[d] = req[d] /\ stage'[d] = stage[d]
    BY FinishFrame
  <2>2. /\ Open(req[d], "pending") /\ issued[req[d].token] = d /\ BodyIsOwn(req[d])
        /\ stage[d] = "store" => FromPast(req[d])
        /\ stage[d] = "dryrun" => req[d].verb = "create"
    BY <2>1 DEF IInv, CallsOwnTheirWrites
  <2>3. Open(req[d], "pending")'
    BY <1>2, <2>1, <2>2, FinishFrame DEF Open
  <2> QED BY <2>1, <2>2, <2>3 DEF BodyIsOwn, FromPast
<1>6. AdriftOwnTheirWrites'
  <2>1. ASSUME NEW q \in adrift PROVE Open(q, "unknown")'
    BY <1>2, FinishFrame DEF IInv, AdriftOwnTheirWrites, Open
  <2> QED BY <2>1 DEF IInv, AdriftOwnTheirWrites, BodyIsOwn, FromPast
<1> QED BY <1>1, <1>3, <1>4, <1>5, <1>6 DEF IInv

\* Steps that change nothing of calls, answers and histories but the place
\* of c's call and the manifest it starts from.
LEMMA AdvanceIInv ==
  ASSUME IInv, TypeOK', NEW c \in Clients, stage[c] # "idle",
         UNCHANGED <<hist, rev, issued, answer, adrift>>,
         \A d \in Clients \ {c} : stage'[d] = stage[d] /\ req'[d] = req[d],
         req'[c].token = req[c].token, req'[c].verb = req[c].verb,
         req'[c].body = req[c].body,
         stage'[c] = "store" => FromPast(req[c])',
         stage'[c] # "dryrun"
  PROVE  IInv'
<1>1. Applied' = Applied
  BY SameApplied
<1>2. RevisionsIncrease' /\ RevisionsKnown' /\ AppliedIssued' /\ AdriftOwnTheirWrites'
  BY <1>1 DEF IInv, RevisionsIncrease, RevisionsKnown, AppliedIssued,
              AdriftOwnTheirWrites, Open, BodyIsOwn, FromPast
<1>3. CallsOwnTheirWrites'
  <2> SUFFICES ASSUME NEW d \in Clients, stage'[d] # "idle"
               PROVE  /\ Open(req[d], "pending")' /\ issued'[req'[d].token] = d
                      /\ BodyIsOwn(req[d])'
                      /\ stage'[d] = "store" => FromPast(req[d])'
                      /\ stage'[d] = "dryrun" => req'[d].verb = "create"
    BY DEF CallsOwnTheirWrites
  <2>1. stage[d] # "idle"
    OBVIOUS
  <2>2. /\ Open(req[d], "pending") /\ issued[req[d].token] = d /\ BodyIsOwn(req[d])
        /\ stage[d] = "store" => FromPast(req[d])
        /\ stage[d] = "dryrun" => req[d].verb = "create"
    BY <2>1 DEF IInv, CallsOwnTheirWrites
  <2>3. CASE d = c
    BY <1>1, <2>2, <2>3 DEF Open, BodyIsOwn
  <2>4. CASE d # c
    BY <1>1, <2>2, <2>4 DEF Open, BodyIsOwn, FromPast
  <2> QED BY <2>3, <2>4
<1> QED BY <1>2, <1>3 DEF IInv

LEMMA DryRunPassesIInv ==
  ASSUME IInv, NEW c \in Clients, DryRunPasses(c)
  PROVE  IInv'
<1>1. TypeOK'
  BY StepTypeOK DEF IInv, Step
<1>2. stage[c] # "idle" /\ req[c].verb = "create"
  BY DEF IInv, CallsOwnTheirWrites, DryRunPasses
<1>3. /\ \A d \in Clients \ {c} : stage'[d] = stage[d] /\ req'[d] = req[d]
      /\ req' = req /\ stage'[c] = "store"
      /\ UNCHANGED <<hist, rev, issued, answer, adrift>>
  BY DEF DryRunPasses, IInv, TypeOK
<1>4. FromPast(req[c])'
  BY <1>2, <1>3 DEF FromPast
<1> QED BY <1>1, <1>2, <1>3, <1>4, AdvanceIInv

LEMMA LookUpIInv ==
  ASSUME IInv, NEW c \in Clients, LookUp(c)
  PROVE  IInv'
<1>1. TypeOK'
  BY LookUpTypeOK DEF IInv
<1>2. stage[c] # "idle" /\ req[c] \in Requests
  BY DEF IInv, TypeOK, LookUp
<1>3. /\ \A d \in Clients \ {c} : stage'[d] = stage[d] /\ req'[d] = req[d]
      /\ req'[c] = [req[c] EXCEPT !.base = Cached(req[c].key)]
      /\ stage'[c] = "store"
      /\ UNCHANGED <<hist, rev, issued, answer, adrift>>
  BY DEF LookUp, IInv, TypeOK
<1>4. /\ req'[c].token = req[c].token /\ req'[c].verb = req[c].verb
      /\ req'[c].body = req[c].body /\ req'[c].key = req[c].key
      /\ req'[c].base = hist[req[c].key][seen[req[c].key]]
  BY <1>2, <1>3 DEF Requests, Cached
<1>5. seen[req[c].key] \in DOMAIN hist[req[c].key]
  BY <1>2 DEF IInv, TypeOK, Requests
<1>6. FromPast(req[c])'
  BY <1>3, <1>4, <1>5 DEF FromPast
<1> QED BY <1>1, <1>2, <1>3, <1>4, <1>6, AdvanceIInv

LEMMA StoreWritesIInv ==
  ASSUME IInv, NEW c \in Clients, StoreWrites(c)
  PROVE  IInv'
<1>1. TypeOK /\ TypeOK'
  BY StoreWritesTypeOK DEF IInv
<1>2. stage[c] # "idle" /\ req[c] \in Requests /\ Execute(req[c])
      /\ Finish(c, "ok") /\ UNCHANGED <<seen, issued, view, adrift, restarts>>
  BY <1>1 DEF TypeOK, StoreWrites
<1>3. Applied' = Applied \cup {req[c].token}
  BY <1>1, <1>2, ExecuteApplied
<1>4. RevisionsIncrease' /\ RevisionsKnown'
  BY <1>1, <1>2, ExecuteRevisions DEF IInv
<1>5. /\ DOMAIN answer' = DOMAIN answer
      /\ stage'[c] = "idle"
      /\ \A d \in Clients \ {c} : stage'[d] = stage[d] /\ req'[d] = req[d]
      /\ \A t \in DOMAIN answer : t # req[c].token => answer'[t] = answer[t]
      /\ \A d \in Clients \ {c} : stage[d] # "idle" => req[d].token # req[c].token
      /\ \A q \in adrift : q.token # req[c].token
  BY <1>2, FinishFrame DEF Answers
<1>6. AppliedIssued'
  BY <1>2, <1>3, <1>5 DEF IInv, AppliedIssued, CallsOwnTheirWrites, Open
<1>7. CallsOwnTheirWrites'
  <2> SUFFICES ASSUME NEW d \in Clients, stage'[d] # "idle"
               PROVE  /\ Open(req[d], "pending")' /\ issued'[req'[d].token] = d
                      /\ BodyIsOwn(req[d])'
                      /\ stage'[d] = "store" => FromPast(req[d])'
                      /\ stage'[d] = "dryrun" => req'[d].verb = "create"
    BY DEF CallsOwnTheirWrites
  <2>1. d # c /\ stage[d] # "idle" /\ req'[d] = req[d] /\ stage'[d] = stage[d]
    BY <1>5
  <2>2. /\ Open(req[d], "pending") /\ issued[req[d].token] = d /\ BodyIsOwn(req[d])
        /\ stage[d] = "store" => FromPast(req[d])
        /\ stage[d] = "dryrun" => req[d].verb = "create"
    BY <2>1 DEF IInv, CallsOwnTheirWrites
  <2>3. req[d] \in Requests /\ req[d].token # req[c].token
    BY <1>1, <1>5, <2>1 DEF TypeOK
  <2>4. Open(req[d], "pending")'
    BY <1>3, <1>5, <2>1, <2>2, <2>3 DEF Open
  <2>5. stage[d] = "store" => FromPast(req[d])'
    <3>1. req[d].key \in Keys
      BY <2>3 DEF Requests
    <3> QED BY <1>1, <1>2, <2>1, <2>2, <3>1, HistoryKept DEF FromPast
  <2> QED BY <1>2, <2>1, <2>2, <2>4, <2>5 DEF BodyIsOwn
<1>8. AdriftOwnTheirWrites'
  <2> SUFFICES ASSUME NEW q \in adrift
               PROVE  Open(q, "unknown")' /\ BodyIsOwn(q)' /\ FromPast(q)'
    BY <1>2 DEF AdriftOwnTheirWrites, IInv
  <2>1. Open(q, "unknown") /\ BodyIsOwn(q) /\ FromPast(q)
    BY DEF IInv, AdriftOwnTheirWrites
  <2>2. q.key \in Keys
    BY <1>1 DEF TypeOK, Requests
  <2>3. FromPast(q)'
    BY <1>1, <1>2, <2>1, <2>2, HistoryKept DEF FromPast
  <2> QED BY <1>3, <1>5, <2>1, <2>3 DEF Open, BodyIsOwn
<1> QED BY <1>1, <1>4, <1>6, <1>7, <1>8 DEF IInv

LEMMA LateWriteIInv ==
  ASSUME IInv, NEW q \in adrift, LateWrite(q)
  PROVE  IInv'
<1>1. TypeOK /\ TypeOK'
  BY LateWriteTypeOK DEF IInv
<1>2. q \in Requests /\ Execute(q) /\ adrift' = adrift \ {q}
      /\ UNCHANGED <<seen, issued, answer, stage, req, view, restarts>>
  BY <1>1 DEF TypeOK, LateWrite
<1>3. Applied' = Applied \cup {q.token}
  BY <1>1, <1>2, ExecuteApplied
<1>4. RevisionsIncrease' /\ RevisionsKnown'
  BY <1>1, <1>2, ExecuteRevisions DEF IInv
<1>5. Open(q, "unknown")
  BY DEF IInv, AdriftOwnTheirWrites
<1>6. AppliedIssued'
  BY <1>2, <1>3, <1>5 DEF IInv, AppliedIssued, Open
<1>7. CallsOwnTheirWrites'
  <2> SUFFICES ASSUME NEW d \in Clients, stage[d] # "idle"
               PROVE  /\ Open(req[d], "pending")' /\ issued'[req'[d].token] = d
                      /\ BodyIsOwn(req[d])'
                      /\ stage'[d] = "store" => FromPast(req[d])'
                      /\ stage'[d] = "dryrun" => req'[d].verb = "create"
    BY <1>2 DEF CallsOwnTheirWrites
  <2>1. /\ Open(req[d], "pending") /\ issued[req[d].token] = d /\ BodyIsOwn(req[d])
        /\ stage[d] = "store" => FromPast(req[d])
        /\ stage[d] = "dryrun" => req[d].verb = "create"
    BY DEF IInv, CallsOwnTheirWrites
  <2>2. req[d].token # q.token
    BY <1>5, <2>1 DEF Open
  <2>3. Open(req[d], "pending")'
    BY <1>2, <1>3, <2>1, <2>2 DEF Open
  <2>4. req[d].key \in Keys
    BY <1>1 DEF TypeOK, Requests
  <2>5. stage[d] = "store" => FromPast(req[d])'
    BY <1>1, <1>2, <2>1, <2>4, HistoryKept DEF FromPast
  <2> QED BY <1>2, <2>1, <2>3, <2>5 DEF BodyIsOwn
<1>8. AdriftOwnTheirWrites'
  <2> SUFFICES ASSUME NEW p \in adrift, p # q
               PROVE  Open(p, "unknown")' /\ BodyIsOwn(p)' /\ FromPast(p)'
    BY <1>2 DEF AdriftOwnTheirWrites, IInv
  <2>1. Open(p, "unknown") /\ BodyIsOwn(p) /\ FromPast(p) /\ p.token # q.token
    BY DEF IInv, AdriftOwnTheirWrites
  <2>2. p.key \in Keys
    BY <1>1 DEF TypeOK, Requests
  <2>3. FromPast(p)'
    BY <1>1, <1>2, <2>1, <2>2, HistoryKept DEF FromPast
  <2> QED BY <1>2, <1>3, <2>1, <2>3 DEF Open, BodyIsOwn
<1> QED BY <1>1, <1>4, <1>6, <1>7, <1>8 DEF IInv

LEMMA StoreTimesOutIInv ==
  ASSUME IInv, NEW c \in Clients, StoreTimesOut(c)
  PROVE  IInv'
<1>1. TypeOK'
  BY StoreTimesOutTypeOK DEF IInv
<1>2. stage[c] = "store" /\ Finish(c, "unknown") /\ adrift' = adrift \cup {req[c]}
      /\ UNCHANGED <<hist, rev, seen, issued, view, restarts>>
  BY DEF StoreTimesOut
<1>3. Applied' = Applied
  BY <1>2, SameApplied
<1>4. /\ DOMAIN answer' = DOMAIN answer
      /\ stage'[c] = "idle"
      /\ \A d \in Clients \ {c} : stage'[d] = stage[d] /\ req'[d] = req[d]
      /\ \A t \in DOMAIN answer : t # req[c].token => answer'[t] = answer[t]
      /\ \A d \in Clients \ {c} : stage[d] # "idle" => req[d].token # req[c].token
      /\ \A q \in adrift : q.token # req[c].token
      /\ answer'[req[c].token] = "unknown"
  BY <1>2, FinishFrame DEF Answers
<1>5. RevisionsIncrease' /\ RevisionsKnown' /\ AppliedIssued'
  BY <1>2, <1>3, <1>4 DEF IInv, RevisionsIncrease, RevisionsKnown, AppliedIssued
<1>6. CallsOwnTheirWrites'
  <2> SUFFICES ASSUME NEW d \in Clients, stage'[d] # "idle"
               PROVE  /\ Open(req[d], "pending")' /\ issued'[req'[d].token] = d
                      /\ BodyIsOwn(req[d])'
                      /\ stage'[d] = "store" => FromPast(req[d])'
                      /\ stage'[d] = "dryrun" => req'[d].verb = "create"
    BY DEF CallsOwnTheirWrites
  <2>1. d # c /\ stage[d] # "idle" /\ req'[d] = req[d] /\ stage'[d] = stage[d]
    BY <1>4
  <2>2. /\ Open(req[d], "pending") /\ issued[req[d].token] = d /\ BodyIsOwn(req[d])
        /\ stage[d] = "store" => FromPast(req[d])
        /\ stage[d] = "dryrun" => req[d].verb = "create"
    BY <2>1 DEF IInv, CallsOwnTheirWrites
  <2>3. Open(req[d], "pending")'
    BY <1>3, <1>4, <2>1, <2>2 DEF Open
  <2> QED BY <1>2, <2>1, <2>2, <2>3 DEF BodyIsOwn, FromPast
<1>7. AdriftOwnTheirWrites'
  <2>1. ASSUME NEW q \in adrift
        PROVE  Open(q, "unknown")' /\ BodyIsOwn(q)' /\ FromPast(q)'
    BY <1>2, <1>3, <1>4 DEF IInv, AdriftOwnTheirWrites, Open, BodyIsOwn, FromPast
  <2>2. Open(req[c], "pending") /\ BodyIsOwn(req[c]) /\ FromPast(req[c])
    BY <1>2 DEF IInv, CallsOwnTheirWrites
  <2>3. ASSUME NEW q, q = req[c]
        PROVE  Open(q, "unknown")' /\ BodyIsOwn(q)' /\ FromPast(q)'
    BY <1>2, <1>3, <1>4, <2>2, <2>3 DEF Open, BodyIsOwn, FromPast
  <2>4. \A p, q \in adrift : p.token = q.token => p = q
    BY DEF IInv, AdriftOwnTheirWrites
  <2>5. \A p, q \in adrift \cup {req[c]} : p.token = q.token => p = q
    BY <1>4, <2>4
  <2> QED BY <1>2, <2>1, <2>3, <2>5 DEF AdriftOwnTheirWrites
<1> QED BY <1>1, <1>5, <1>6, <1>7 DEF IInv

LEMMA StepIInv ==
  ASSUME IInv, NEW c \in Clients, Step(c)
  PROVE  IInv'
<1>1. CASE DryRunPasses(c)
  BY <1>1, DryRunPassesIInv
<1>2. CASE DryRunFails(c)
  BY <1>2, EndIInv DEF DryRunFails, Answers
<1>3. CASE LookUp(c)
  BY <1>3, LookUpIInv
<1>4. CASE LookUpMisses(c)
  BY <1>4, EndIInv DEF LookUpMisses, Answers
<1>5. CASE UpdateInvalid(c)
  BY <1>5, EndIInv DEF UpdateInvalid, Answers
<1>6. CASE StoreWrites(c)
  BY <1>6, StoreWritesIInv
<1>7. CASE StoreConflicts(c)
  BY <1>7, EndIInv DEF StoreConflicts, Answers
<1>8. CASE StoreFindsNothing(c)
  BY <1>8, EndIInv DEF StoreFindsNothing, Answers
<1>9. CASE StoreFindsOther(c)
  BY <1>9, EndIInv DEF StoreFindsOther, Answers
<1>10. CASE StoreTimesOut(c)
  BY <1>10, StoreTimesOutIInv
<1> QED
  BY <1>1, <1>2, <1>3, <1>4, <1>5, <1>6, <1>7, <1>8, <1>9, <1>10 DEF Step

\* A new number is appended to the answers; nothing known of the others changes.
LEMMA AppendAnswer ==
  ASSUME IInv, NEW c \in Clients, NEW a \in Answers,
         issued' = Append(issued, c), answer' = Append(answer, a), UNCHANGED hist
  PROVE  /\ Applied' = Applied
         /\ DOMAIN answer' = DOMAIN answer \cup {Len(issued) + 1}
         /\ Len(issued) + 1 \notin DOMAIN answer
         /\ \A t \in DOMAIN answer : answer'[t] = answer[t] /\ issued'[t] = issued[t]
         /\ answer'[Len(issued) + 1] = a /\ issued'[Len(issued) + 1] = c
<1>1. issued \in Seq(Clients) /\ answer \in Seq(Answers) /\ Len(answer) = Len(issued)
  BY DEF IInv, TypeOK
<1>2. Len(issued) \in Nat /\ DOMAIN answer = 1..Len(issued)
  BY <1>1, LenProperties
<1>3. answer' \in Seq(Answers) /\ Len(answer') = Len(issued) + 1
      /\ \A t \in 1..Len(issued) : answer'[t] = answer[t] /\ issued'[t] = issued[t]
      /\ answer'[Len(issued) + 1] = a /\ issued'[Len(issued) + 1] = c
  BY <1>1, AppendProperties
<1>4. DOMAIN answer' = 1..(Len(issued) + 1)
  BY <1>3, LenProperties
<1> QED BY <1>2, <1>3, <1>4, SameApplied

LEMMA BeginIInv ==
  ASSUME IInv, NEW c \in Clients, NEW verb \in Verbs, NEW r \in Resources,
         NEW ns \in Namespaces \cup {NoNamespace}, NEW name \in Names,
         NEW meta \in UserLabels, Begin(c, verb, r, ns, name, meta)
  PROVE  IInv'
<1> DEFINE t == Len(issued) + 1
           k == KeyOf(c, r, ns, name)
           b == PutBody(c, k, t)
           q == [verb |-> verb, res |-> r, key |-> k, token |-> t,
                 meta |-> meta, body |-> b.edits, read |-> b.read,
                 base |-> Missing(0, 0)]
<1>1. TypeOK /\ TypeOK'
  BY BeginTypeOK DEF IInv
<1>2. issued \in Seq(Clients) /\ Len(issued) \in Nat
  BY <1>1, LenProperties DEF TypeOK
<1>3. t \in Tokens /\ k \in Keys
  BY <1>2, BoundsAssumption, KeyOfType DEF Begin, Tokens, Permitted
<1>4. Len(b.edits) > 0 /\ b.edits[Len(b.edits)] = <<"put", t>>
  BY <1>1, <1>3, PutBodyType
<1>5. /\ issued' = Append(issued, c) /\ answer' = Append(answer, "pending")
      /\ stage' = [stage EXCEPT ![c] = FirstStage(verb)]
      /\ req' = [req EXCEPT ![c] = q]
      /\ UNCHANGED <<hist, rev, seen, adrift, restarts>>
  BY DEF Begin
<1> HIDE DEF t, k, b
<1>6. /\ \A d \in Clients \ {c} : stage'[d] = stage[d] /\ req'[d] = req[d]
      /\ req'[c] = q /\ stage'[c] = FirstStage(verb)
  BY <1>1, <1>5 DEF TypeOK
<1>7. q.token = t /\ q.verb = verb /\ q.body = b.edits
  OBVIOUS
<1> HIDE DEF q
<1>8. /\ Applied' = Applied
      /\ DOMAIN answer' = DOMAIN answer \cup {t} /\ t \notin DOMAIN answer
      /\ \A u \in DOMAIN answer : answer'[u] = answer[u] /\ issued'[u] = issued[u]
      /\ answer'[t] = "pending" /\ issued'[t] = c
  BY <1>5, AppendAnswer DEF Answers, t
<1>9. RevisionsIncrease' /\ RevisionsKnown' /\ AppliedIssued'
  BY <1>5, <1>8 DEF IInv, RevisionsIncrease, RevisionsKnown, AppliedIssued
<1>10. AdriftOwnTheirWrites'
  BY <1>5, <1>8 DEF IInv, AdriftOwnTheirWrites, Open, BodyIsOwn, FromPast
<1>11. CallsOwnTheirWrites'
  <2> SUFFICES ASSUME NEW d \in Clients, stage'[d] # "idle"
               PROVE  /\ Open(req[d], "pending")' /\ issued'[req'[d].token] = d
                      /\ BodyIsOwn(req[d])'
                      /\ stage'[d] = "store" => FromPast(req[d])'
                      /\ stage'[d] = "dryrun" => req'[d].verb = "create"
    BY DEF CallsOwnTheirWrites
  <2>1. CASE d = c
    <3>1. t \notin Applied'
      BY <1>8 DEF IInv, AppliedIssued
    <3>2. Open(req[d], "pending")' /\ issued'[req'[d].token] = d
      BY <1>6, <1>7, <1>8, <2>1, <3>1 DEF Open
    <3>3. BodyIsOwn(req[d])'
      BY <1>4, <1>6, <1>7, <2>1 DEF BodyIsOwn
    <3>4. /\ stage'[d] = "store" => q.verb = "delete"
          /\ stage'[d] = "dryrun" => q.verb = "create"
      BY <1>6, <1>7, <2>1 DEF FirstStage, Verbs
    <3>5. stage'[d] = "store" => FromPast(req[d])'
      BY <1>6, <2>1, <3>4 DEF FromPast
    <3> QED BY <1>6, <2>1, <3>2, <3>3, <3>4, <3>5
  <2>2. CASE d # c
    <3>1. req'[d] = req[d] /\ stage'[d] = stage[d]
      BY <1>6, <2>2
    <3>2. /\ Open(req[d], "pending") /\ issued[req[d].token] = d /\ BodyIsOwn(req[d])
          /\ stage[d] = "store" => FromPast(req[d])
          /\ stage[d] = "dryrun" => req[d].verb = "create"
      BY <3>1 DEF IInv, CallsOwnTheirWrites
    <3>3. Open(req[d], "pending")' /\ issued'[req'[d].token] = d
      BY <1>8, <3>1, <3>2 DEF Open
    <3> QED BY <1>5, <3>1, <3>2, <3>3 DEF BodyIsOwn, FromPast
  <2> QED BY <2>1, <2>2
<1> QED BY <1>1, <1>9, <1>10, <1>11 DEF IInv

LEMMA ForbidIInv ==
  ASSUME IInv, NEW c \in Clients, NEW ns, Forbid(c, ns)
  PROVE  IInv'
<1>1. TypeOK'
  BY ForbidTypeOK DEF IInv
<1>2. /\ issued' = Append(issued, c) /\ answer' = Append(answer, "forbidden")
      /\ UNCHANGED <<hist, rev, stage, req, adrift>>
  BY DEF Forbid
<1>3. /\ Applied' = Applied
      /\ DOMAIN answer \subseteq DOMAIN answer'
      /\ \A u \in DOMAIN answer : answer'[u] = answer[u] /\ issued'[u] = issued[u]
  BY <1>2, AppendAnswer DEF Answers
<1>4. RevisionsIncrease' /\ RevisionsKnown' /\ AppliedIssued'
  BY <1>2, <1>3 DEF IInv, RevisionsIncrease, RevisionsKnown, AppliedIssued
<1>5. AdriftOwnTheirWrites'
  BY <1>2, <1>3 DEF IInv, AdriftOwnTheirWrites, Open, BodyIsOwn, FromPast
<1>6. CallsOwnTheirWrites'
  <2> SUFFICES ASSUME NEW d \in Clients, stage[d] # "idle"
               PROVE  /\ Open(req[d], "pending")' /\ issued'[req'[d].token] = d
                      /\ BodyIsOwn(req[d])'
                      /\ stage'[d] = "store" => FromPast(req[d])'
                      /\ stage'[d] = "dryrun" => req'[d].verb = "create"
    BY <1>2 DEF CallsOwnTheirWrites
  <2>1. /\ Open(req[d], "pending") /\ issued[req[d].token] = d /\ BodyIsOwn(req[d])
        /\ stage[d] = "store" => FromPast(req[d])
        /\ stage[d] = "dryrun" => req[d].verb = "create"
    BY DEF IInv, CallsOwnTheirWrites
  <2>2. Open(req[d], "pending")' /\ issued'[req'[d].token] = d
    BY <1>2, <1>3, <2>1 DEF Open
  <2> QED BY <1>2, <2>1, <2>2 DEF BodyIsOwn, FromPast
<1> QED BY <1>1, <1>4, <1>5, <1>6 DEF IInv

\* Steps that concern only the cache and what clients have read.
LEMMA ReadIInv ==
  ASSUME IInv, TypeOK', UNCHANGED <<hist, rev, issued, answer, stage, req, adrift>>
  PROVE  IInv'
<1>1. Applied' = Applied
  BY SameApplied
<1> QED BY <1>1 DEF IInv, RevisionsIncrease, RevisionsKnown, AppliedIssued,
                    CallsOwnTheirWrites, AdriftOwnTheirWrites, Open, BodyIsOwn, FromPast

LEMMA RestartIInv ==
  ASSUME IInv, Restart
  PROVE  IInv'
<1>1. TypeOK /\ TypeOK'
  BY RestartTypeOK DEF IInv
<1> DEFINE new == {req[c] : c \in {d \in Clients : stage[d] = "store"}}
<1>2. /\ answer' = [t \in DOMAIN answer |->
                      IF answer[t] = "pending" THEN "unknown" ELSE answer[t]]
      /\ adrift' = adrift \cup new
      /\ stage' = [c \in Clients |-> "idle"]
      /\ UNCHANGED <<hist, rev, issued>>
  BY DEF Restart
<1>3. Applied' = Applied
  BY <1>2, SameApplied
<1>4. RevisionsIncrease' /\ RevisionsKnown' /\ AppliedIssued'
  BY <1>2, <1>3 DEF IInv, RevisionsIncrease, RevisionsKnown, AppliedIssued
<1>5. CallsOwnTheirWrites'
  BY <1>2 DEF CallsOwnTheirWrites
<1>6. \A q \in adrift : Open(q, "unknown") /\ BodyIsOwn(q) /\ FromPast(q)
  BY DEF IInv, AdriftOwnTheirWrites
<1>7. \A q \in new : /\ Open(q, "pending") /\ BodyIsOwn(q) /\ FromPast(q)
                     /\ q = req[issued[q.token]]
  BY DEF IInv, CallsOwnTheirWrites
<1>8. \A p, q \in new : p.token = q.token => p = q
  BY <1>7
<1>9. \A p \in adrift, q \in new : p.token # q.token
  BY <1>6, <1>7 DEF Open
<1>10. \A p, q \in adrift : p.token = q.token => p = q
  BY DEF IInv, AdriftOwnTheirWrites
<1> HIDE DEF new
<1>11. ASSUME NEW q \in adrift'
       PROVE  Open(q, "unknown")' /\ BodyIsOwn(q)' /\ FromPast(q)'
  BY <1>2, <1>3, <1>6, <1>7 DEF Open, BodyIsOwn, FromPast
<1>12. \A p, q \in adrift' : p.token = q.token => p = q
  BY <1>2, <1>8, <1>9, <1>10
<1> QED BY <1>1, <1>4, <1>5, <1>11, <1>12 DEF IInv, AdriftOwnTheirWrites

LEMMA InitIInv == Init => IInv
<1> SUFFICES ASSUME Init PROVE IInv
  OBVIOUS
<1>1. TypeOK
  BY InitTypeOK
<1>2. hist = [k \in Keys |-> << Missing(0, 0) >>] /\ rev = 0 /\ answer = << >>
      /\ stage = [c \in Clients |-> "idle"] /\ adrift = {}
  BY DEF Init
<1>3. \A k \in Keys : DOMAIN hist[k] = {1} /\ hist[k][1].rev = 0 /\ hist[k][1].by = 0
  BY <1>2 DEF Missing
<1>4. RevisionsIncrease /\ RevisionsKnown
  BY <1>2, <1>3 DEF RevisionsIncrease, RevisionsKnown
<1>5. AppliedIssued
  BY <1>3, BoundsAssumption DEF AppliedIssued, Applied, Tokens
<1> QED BY <1>1, <1>2, <1>4, <1>5 DEF IInv, CallsOwnTheirWrites, AdriftOwnTheirWrites

LEMMA NextIInv == IInv /\ [Next]_vars => IInv'
<1> SUFFICES ASSUME IInv, [Next]_vars PROVE IInv'
  OBVIOUS
<1>0. TypeOK'
  BY NextTypeOK DEF IInv
<1>1. ASSUME NEW c \in Clients, NEW ns \in Namespaces \cup {NoNamespace},
             Forbid(c, ns)
      PROVE  IInv'
  BY <1>1, ForbidIInv
<1>2. ASSUME NEW c \in Clients, NEW ns \in Namespaces \cup {NoNamespace},
             NEW r \in Resources, NEW name \in Names, Get(c, r, ns, name)
      PROVE  IInv'
  BY <1>0, <1>2, ReadIInv DEF Get
<1>3. ASSUME NEW c \in Clients, NEW ns \in Namespaces \cup {NoNamespace},
             NEW r \in Resources, NEW name \in Names,
             NEW verb \in Verbs \cap Uses, NEW meta \in UserLabels,
             Begin(c, verb, r, ns, name, meta)
      PROVE  IInv'
  BY <1>3, BeginIInv
<1>4. ASSUME NEW c \in Clients, Step(c) PROVE IInv'
  BY <1>4, StepIInv
<1>5. ASSUME NEW q \in adrift, LateWrite(q) PROVE IInv'
  BY <1>5, LateWriteIInv
<1>6. ASSUME NEW k \in Keys, CacheAdvances(k) PROVE IInv'
  BY <1>0, <1>6, ReadIInv DEF CacheAdvances
<1>7. CASE Restart
  BY <1>7, RestartIInv
<1>8. CASE UNCHANGED vars
  BY <1>0, <1>8, ReadIInv DEF vars
<1> QED
  BY <1>1, <1>2, <1>3, <1>4, <1>5, <1>6, <1>7, <1>8 DEF Next

\* The inductive invariant holds for any number of clients, keys, writes and
\* restarts: resourceVersions of a manifest increase, and every
\* write under way is based on a state the manifest had and is not yet applied.
THEOREM Invariant == Spec => []IInv
BY InitIInv, NextIInv, PTL DEF Spec

-------------------------------------------------------------------------------
(* Refinement.                                                             *)

\* A write the host executes takes effect on the object that is stored.
LEMMA ExecuteTakesEffect ==
  ASSUME IInv, NEW q \in Requests, Execute(q), q.token \notin Applied,
         BodyIsOwn(q), FromPast(q)
  PROVE  Store!TakeEffect(q.token)
<1> DEFINE k == q.key
           t == q.token
           cur == Latest(k)
           new == Written(q, rev + 1)
<1>1. TypeOK /\ RevisionsIncrease
  BY DEF IInv
<1>2. k \in Keys /\ t \in Tokens /\ q.verb \in Verbs
  BY DEF Requests
<1>3. Applied' = Applied \cup {t}
  BY <1>1, ExecuteApplied
<1>4. cur \in Versions /\ cur.data \in Seq(Edits)
  BY <1>1, <1>2, LatestType DEF Versions
<1>5. /\ \A l \in Keys : l # k => Latest(l)' = Latest(l)
      /\ Latest(k)' = new
  <2>1. /\ \A l \in Keys : l # k => hist'[l] = hist[l]
        /\ Len(hist'[k]) = Len(hist[k]) + 1
        /\ hist'[k][Len(hist[k]) + 1] = new
    BY <1>1, ExecuteEffect
  <2> QED BY <2>1 DEF Latest
<1>6. /\ StoredObjects = [l \in Keys |-> IF Latest(l).live THEN Latest(l).data ELSE Nothing]
      /\ StoredObjects' = [l \in Keys |-> IF Latest(l)'.live THEN Latest(l)'.data ELSE Nothing]
  BY DEF StoredObjects
<1>7. new.live = (q.verb # "delete") /\ (q.verb # "delete" => new.data = Content(q))
  BY DEF Written, Missing
<1>8. Content(q) \in Seq(Edits) \/ q.verb = "delete"
  BY ContentType
<1> HIDE DEF k, t, cur, new
<1>9. StoredObjects' = [StoredObjects EXCEPT ![k] = IF q.verb = "delete" THEN Nothing
                                                   ELSE Content(q)]
  BY <1>2, <1>5, <1>6, <1>7
<1>10. StoredObjects[k] = IF cur.live THEN cur.data ELSE Nothing
  BY <1>2, <1>6 DEF cur
<1>11. StoredObjects'[k] = IF q.verb = "delete" THEN Nothing ELSE Content(q)
  BY <1>2, <1>6, <1>9
<1>12. cur.live => StoredObjects[k] # Nothing
  BY <1>4, <1>10, NothingAssumption
<1>13. CASE q.verb = "create"
  <2>1. StoredObjects[k] = Nothing
    BY <1>10, <1>13 DEF Execute, Acceptable, cur, k
  <2>2. Content(q) = << <<"create", t>> >>
    BY <1>13 DEF Content, t
  <2>3. Store!Create(k, t)
    BY <1>9, <1>13, <2>1, <2>2 DEF Store!Create
  <2> QED BY <1>2, <1>3, <2>3 DEF Store!TakeEffect, t
<1>14. CASE q.verb = "delete"
  <2>1. cur.live
    BY <1>14 DEF Execute, Acceptable, cur, k
  <2>2. Store!Remove(k)
    BY <1>9, <1>12, <1>14, <2>1 DEF Store!Remove
  <2> QED BY <1>2, <1>3, <2>2 DEF Store!TakeEffect, t
<1>15. CASE q.verb = "patch"
  <2>1. cur.live /\ cur.rev = q.base.rev
    BY <1>15 DEF Execute, Acceptable, cur, k
  <2>2. PICK i \in DOMAIN hist[k] : hist[k][i] = q.base
    BY <1>15 DEF FromPast, k
  <2>3. q.base = cur
    BY <1>1, <1>2, <2>1, <2>2, SameRevisionSameState DEF cur
  <2>4. Content(q) = Append(StoredObjects[k], <<"patch", t>>)
    BY <1>10, <1>15, <2>1, <2>3 DEF Content, t
  <2>5. Store!Patch(k, t)
    BY <1>9, <1>12, <1>15, <2>1, <2>4 DEF Store!Patch
  <2> QED BY <1>2, <1>3, <2>5 DEF Store!TakeEffect, t
<1>16. CASE q.verb = "put"
  <2>1. cur.live
    BY <1>16 DEF Execute, Acceptable, cur, k
  <2>2. StoredObjects'[k] = q.body /\ Content(q) = q.body
    BY <1>11, <1>16 DEF Content
  <2>3. /\ StoredObjects'[k] # Nothing /\ Len(StoredObjects'[k]) > 0
        /\ StoredObjects'[k][Len(StoredObjects'[k])] = <<"put", t>>
    BY <1>8, <1>16, <2>2, NothingAssumption DEF BodyIsOwn, t
  <2>4. StoredObjects' = [StoredObjects EXCEPT ![k] = StoredObjects'[k]]
    BY <1>9, <1>16, <2>2
  <2>5. Store!Put(k, t)
    BY <1>12, <2>1, <2>3, <2>4 DEF Store!Put
  <2> QED BY <1>2, <1>3, <2>5 DEF Store!TakeEffect, t
<1> QED BY <1>2, <1>13, <1>14, <1>15, <1>16 DEF Verbs

\* A call that fails is a failure of the abstract store.
LEMMA EndFails ==
  ASSUME IInv, NEW c \in Clients, NEW a \in Store!Failures, stage[c] # "idle",
         Finish(c, a), UNCHANGED hist
  PROVE  Store!Next
<1>1. Open(req[c], "pending")
  BY DEF IInv, CallsOwnTheirWrites
<1>2. Applied' = Applied /\ StoredObjects' = StoredObjects
  BY SameApplied
<1>3. answer' = [answer EXCEPT ![req[c].token] = a]
  BY DEF Finish
<1>4. Store!Fail(req[c].token)
  BY <1>1, <1>2, <1>3 DEF Store!Fail, Open
<1> QED BY <1>1, <1>4 DEF Store!Next, Open

\* Steps that leave the histories and the answers alone are not seen.
LEMMA Stutter ==
  ASSUME UNCHANGED <<hist, answer>>
  PROVE  UNCHANGED Store!osVars
BY SameApplied DEF Store!osVars

LEMMA CallRefines ==
  ASSUME NEW a \in {"pending", "forbidden"}, answer' = Append(answer, a), UNCHANGED hist
  PROVE  Store!Next
BY SameApplied DEF Store!Next, Store!Call

LEMMA StoreWritesRefines ==
  ASSUME IInv, NEW c \in Clients, StoreWrites(c)
  PROVE  Store!Next
<1>1. req[c] \in Requests /\ stage[c] = "store" /\ Execute(req[c]) /\ Finish(c, "ok")
  BY DEF StoreWrites, IInv, TypeOK
<1>2. Open(req[c], "pending") /\ BodyIsOwn(req[c]) /\ FromPast(req[c])
  BY <1>1 DEF IInv, CallsOwnTheirWrites
<1>3. Store!TakeEffect(req[c].token)
  BY <1>1, <1>2, ExecuteTakesEffect DEF Open
<1>4. Store!Succeed(req[c].token)
  BY <1>1, <1>2, <1>3 DEF Store!Succeed, Open, Finish
<1> QED BY <1>2, <1>4 DEF Store!Next, Open

LEMMA LateWriteRefines ==
  ASSUME IInv, NEW q \in adrift, LateWrite(q)
  PROVE  Store!Next
<1>1. q \in Requests /\ Execute(q) /\ answer' = answer
  BY DEF LateWrite, IInv, TypeOK
<1>2. Open(q, "unknown") /\ BodyIsOwn(q) /\ FromPast(q)
  BY DEF IInv, AdriftOwnTheirWrites
<1>3. Store!TakeEffect(q.token)
  BY <1>1, <1>2, ExecuteTakesEffect DEF Open
<1>4. Store!Land(q.token)
  BY <1>1, <1>2, <1>3 DEF Store!Land, Open
<1> QED BY <1>2, <1>4 DEF Store!Next, Open

LEMMA LoseRefines ==
  ASSUME UNCHANGED hist, NEW T \in SUBSET DOMAIN answer,
         \A t \in T : answer[t] = "pending",
         answer' = [t \in DOMAIN answer |-> IF t \in T THEN "unknown" ELSE answer[t]]
  PROVE  Store!Next
<1>1. Store!Lose(T)
  BY SameApplied DEF Store!Lose
<1> QED BY <1>1 DEF Store!Next

LEMMA StepRefines ==
  ASSUME IInv, NEW c \in Clients, Step(c)
  PROVE  Store!Next \/ UNCHANGED Store!osVars
<1>1. CASE DryRunPasses(c)
  BY <1>1, Stutter DEF DryRunPasses
<1>2. CASE DryRunFails(c)
  BY <1>2, EndFails DEF DryRunFails, Store!Failures
<1>3. CASE LookUp(c)
  BY <1>3, Stutter DEF LookUp
<1>4. CASE LookUpMisses(c)
  BY <1>4, EndFails DEF LookUpMisses, Store!Failures
<1>5. CASE UpdateInvalid(c)
  BY <1>5, EndFails DEF UpdateInvalid, Store!Failures
<1>6. CASE StoreWrites(c)
  BY <1>6, StoreWritesRefines
<1>7. CASE StoreConflicts(c)
  BY <1>7, EndFails DEF StoreConflicts, Store!Failures
<1>8. CASE StoreFindsNothing(c)
  BY <1>8, EndFails DEF StoreFindsNothing, Store!Failures
<1>9. CASE StoreFindsOther(c)
  BY <1>9, EndFails DEF StoreFindsOther, Store!Failures
<1>10. CASE StoreTimesOut(c)
  <2>1. Open(req[c], "pending")
    BY <1>10 DEF IInv, CallsOwnTheirWrites, StoreTimesOut
  <2>2. answer' = [answer EXCEPT ![req[c].token] = "unknown"] /\ UNCHANGED hist
    BY <1>10 DEF StoreTimesOut, Finish
  <2>3. answer \in [DOMAIN answer -> Answers]
    BY LenProperties DEF IInv, TypeOK
  <2>4. answer' = [t \in DOMAIN answer |->
                     IF t \in {req[c].token} THEN "unknown" ELSE answer[t]]
    BY <2>2, <2>3
  <2>5. {req[c].token} \in SUBSET DOMAIN answer
    BY <2>1 DEF Open
  <2>6. \A t \in {req[c].token} : answer[t] = "pending"
    BY <2>1 DEF Open
  <2>7. UNCHANGED hist
    BY <2>2
  <2>8. Store!Next
    BY <2>4, <2>5, <2>6, <2>7, LoseRefines
  <2> QED BY <2>8
<1> QED
  BY <1>1, <1>2, <1>3, <1>4, <1>5, <1>6, <1>7, <1>8, <1>9, <1>10 DEF Step

LEMMA RestartRefines ==
  ASSUME Restart
  PROVE  Store!Next
<1> DEFINE T == {t \in DOMAIN answer : answer[t] = "pending"}
<1>1. answer' = [t \in DOMAIN answer |-> IF t \in T THEN "unknown" ELSE answer[t]]
  BY DEF Restart
<1>2. T \in SUBSET DOMAIN answer /\ \A t \in T : answer[t] = "pending"
  OBVIOUS
<1>3. UNCHANGED hist
  BY DEF Restart
<1> HIDE DEF T
<1> QED BY <1>1, <1>2, <1>3, LoseRefines

LEMMA NextRefines == IInv /\ [Next]_vars => [Store!Next]_(Store!osVars)
<1> SUFFICES ASSUME IInv, [Next]_vars PROVE Store!Next \/ UNCHANGED Store!osVars
  OBVIOUS
<1>1. ASSUME NEW c \in Clients, NEW ns \in Namespaces \cup {NoNamespace},
             Forbid(c, ns)
      PROVE  Store!Next
  BY <1>1, CallRefines DEF Forbid
<1>2. ASSUME NEW c \in Clients, NEW ns \in Namespaces \cup {NoNamespace},
             NEW r \in Resources, NEW name \in Names, Get(c, r, ns, name)
      PROVE  UNCHANGED Store!osVars
  BY <1>2, Stutter DEF Get
<1>3. ASSUME NEW c \in Clients, NEW ns \in Namespaces \cup {NoNamespace},
             NEW r \in Resources, NEW name \in Names,
             NEW verb \in Verbs \cap Uses, NEW meta \in UserLabels,
             Begin(c, verb, r, ns, name, meta)
      PROVE  Store!Next
  BY <1>3, CallRefines DEF Begin
<1>4. ASSUME NEW c \in Clients, Step(c)
      PROVE  Store!Next \/ UNCHANGED Store!osVars
  BY <1>4, StepRefines
<1>5. ASSUME NEW q \in adrift, LateWrite(q) PROVE Store!Next
  BY <1>5, LateWriteRefines
<1>6. ASSUME NEW k \in Keys, CacheAdvances(k) PROVE UNCHANGED Store!osVars
  BY <1>6, Stutter DEF CacheAdvances
<1>7. CASE Restart
  BY <1>7, RestartRefines
<1>8. CASE UNCHANGED vars
  BY <1>8, Stutter DEF vars
<1> QED
  BY <1>1, <1>2, <1>3, <1>4, <1>5, <1>6, <1>7, <1>8 DEF Next

LEMMA InitRefines == Init => Store!Init
<1> SUFFICES ASSUME Init PROVE Store!Init
  OBVIOUS
<1>1. \A k \in Keys : hist[k] = << Missing(0, 0) >>
  BY DEF Init
<1>2. \A k \in Keys : ~Latest(k).live
  BY <1>1 DEF Latest, Missing
<1>3. StoredObjects = [k \in Keys |-> Nothing]
  BY <1>2 DEF StoredObjects
<1>4. IInv
  BY InitIInv
<1>5. answer = << >>
  BY DEF Init
<1>6. Applied = {}
  BY <1>4, <1>5 DEF IInv, AppliedIssued
<1> QED BY <1>3, <1>5, <1>6 DEF Store!Init

\* Reading from a lagging cache, time-outs, late executions and restarts
\* notwithstanding, the storage implements ObjectStore: every write takes
\* effect at most once, atomically, on the object then stored, and never
\* after its failure was reported (REST.Create, Update and Delete).
THEOREM Refinement == Spec => ImplementsStore
BY InitRefines, NextRefines, Invariant, PTL DEF Spec, Store!Spec, ImplementsStore
===============================================================================
