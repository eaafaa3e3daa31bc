----------------------------- MODULE Dictionary -----------------------------
(***************************************************************************)
(* What a caller of include/bth_htab.h relies on: a finite map from keys   *)
(* to values in which the first binding of a key wins.  Nothing is said    *)
(* here of rows, buckets, slots or growth: HashTable.tla implements this.  *)
(***************************************************************************)
CONSTANTS
  Keys,    \* the strings used as keys
  Vals,    \* the pointers stored under them
  Absent   \* what a lookup answers for a key that is not bound

VARIABLES
  dict,    \* the binding of every key, Absent when it has none
  answer   \* what the last call returned: a truth value for an insertion,
           \* the value taken out (or Absent) for a removal

dvars == <<dict, answer>>

TypeOK ==
  /\ dict \in [Keys -> Vals \union {Absent}]
  /\ answer \in BOOLEAN \union Vals \union {Absent}

Init ==
  /\ dict = [k \in Keys |-> Absent]
  /\ answer = Absent

\* A new key is bound, and the caller is told so.
Insert(k, v) ==
  /\ dict[k] = Absent
  /\ dict' = [dict EXCEPT ![k] = v]
  /\ answer' = TRUE

\* A table that may not grow turns a new key away, and the caller is told so.
Refuse(k) ==
  /\ dict[k] = Absent
  /\ answer' = FALSE
  /\ UNCHANGED dict

\* A bound key keeps its first value; the caller cannot tell this from Insert.
Keep(k) ==
  /\ dict[k] # Absent
  /\ answer' = TRUE
  /\ UNCHANGED dict

\* The binding of a key, if any, is handed back and forgotten.
Remove(k) ==
  /\ answer' = dict[k]
  /\ dict' = [dict EXCEPT ![k] = Absent]

\* The whole table is given up.
Forget ==
  /\ dict' = [k \in Keys |-> Absent]
  /\ UNCHANGED answer

Next ==
  \/ \E k \in Keys : \E v \in Vals : Insert(k, v)
  \/ \E k \in Keys : Refuse(k) \/ Keep(k) \/ Remove(k)
  \/ Forget

Spec == Init /\ [][Next]_dvars
=============================================================================
