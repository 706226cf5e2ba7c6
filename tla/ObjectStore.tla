----------------------------- MODULE ObjectStore -----------------------------
(***************************************************************************)
(* What the overlay REST storage promises the clients of a business        *)
(* cluster, with nothing of how it keeps the promise: a map from keys to   *)
(* objects on which every write takes effect in one step, on the current   *)
(* object, at most once, and never after the caller was told it failed.    *)
(*                                                                         *)
(* A write is numbered by its call.  The content of an object is the       *)
(* sequence of edits it is made of, so that an edit which overwrote a      *)
(* state it never saw is told from one which built on it.                  *)
(***************************************************************************)
EXTENDS Naturals, Sequences

CONSTANTS Keys,      \* keys objects are stored under
          Absent     \* what is stored under a key that has no object

VARIABLES
  obj,      \* obj[k]: the edits of the object stored under k, or Absent
  answer,   \* answer[t]: what the caller of write t has been told
  applied   \* the writes that took effect

osVars == <<obj, answer, applied>>

Failures == {"refused", "exists", "notfound", "conflict"}

-------------------------------------------------------------------------------
(* The effects a write can have on the object of one key.                  *)

Create(k, t) ==
  /\ obj[k] = Absent
  /\ obj' = [obj EXCEPT ![k] = << <<"create", t>> >>]

\* A patch extends the object that is there when it takes effect.
Patch(k, t) ==
  /\ obj[k] # Absent
  /\ obj' = [obj EXCEPT ![k] = Append(@, <<"patch", t>>)]

\* A put replaces the object by the caller's body, whatever is in it: only
\* its last edit is known, the put itself.
Put(k, t) ==
  /\ obj[k] # Absent
  /\ obj' = [obj EXCEPT ![k] = obj'[k]]
  /\ obj'[k] # Absent
  /\ Len(obj'[k]) > 0
  /\ obj'[k][Len(obj'[k])] = <<"put", t>>

Remove(k) ==
  /\ obj[k] # Absent
  /\ obj' = [obj EXCEPT ![k] = Absent]

TakeEffect(t) ==
  /\ t \notin applied
  /\ applied' = applied \cup {t}
  /\ \E k \in Keys : Create(k, t) \/ Patch(k, t) \/ Put(k, t) \/ Remove(k)

-------------------------------------------------------------------------------
Call ==
  /\ \E a \in {"pending", "forbidden"} : answer' = Append(answer, a)
  /\ UNCHANGED <<obj, applied>>

Succeed(t) ==
  /\ answer[t] = "pending"
  /\ TakeEffect(t)
  /\ answer' = [answer EXCEPT ![t] = "ok"]

Fail(t) ==
  /\ answer[t] = "pending"
  /\ t \notin applied
  /\ \E a \in Failures : answer' = [answer EXCEPT ![t] = a]
  /\ UNCHANGED <<obj, applied>>

\* The answers to the writes of T are lost; the writes may still land.
Lose(T) ==
  /\ \A t \in T : answer[t] = "pending"
  /\ answer' = [t \in DOMAIN answer |-> IF t \in T THEN "unknown" ELSE answer[t]]
  /\ UNCHANGED <<obj, applied>>

Land(t) ==
  /\ answer[t] = "unknown"
  /\ TakeEffect(t)
  /\ UNCHANGED answer

Init ==
  /\ obj = [k \in Keys |-> Absent]
  /\ answer = << >>
  /\ applied = {}

Next ==
  \/ Call
  \/ \E T \in SUBSET DOMAIN answer : Lose(T)
  \/ \E t \in DOMAIN answer : Succeed(t) \/ Fail(t) \/ Land(t)

Spec == Init /\ [][Next]_osVars
===============================================================================
