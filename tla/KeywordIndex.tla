---------------------------- MODULE KeywordIndex ----------------------------
(***************************************************************************)
(* What a searchable-encryption server promises its client, whatever the   *)
(* scheme: a set of results per keyword that only grows, one result at a   *)
(* time, and searches that answer with a set between what the index held   *)
(* when the search was sent and what it holds when the answer is taken.    *)
(* An answer cut short by a broken connection is still a part of the index.*)
(***************************************************************************)
CONSTANTS Keywords, Results, None

VARIABLES
  index,   \* the results of every keyword
  query,   \* the search under way: its keyword, and its results when it was sent
  answer   \* the last answer

vars == <<index, query, answer>>

Init ==
  /\ index = [w \in Keywords |-> {}]
  /\ query = None
  /\ answer = None

\* An update takes effect.
Add(w, r) ==
  /\ index' = [index EXCEPT ![w] = @ \cup {r}]
  /\ UNCHANGED <<query, answer>>

\* A search is sent.
Ask(w) ==
  /\ query = None
  /\ query' = [w |-> w, base |-> index[w]]
  /\ answer' = None
  /\ UNCHANGED index

\* It is answered, wholly or in part.
Answer ==
  /\ query # None
  /\ \E inds \in SUBSET index[query.w], whole \in BOOLEAN :
       /\ whole => query.base \subseteq inds
       /\ answer' = [w |-> query.w, inds |-> inds, whole |-> whole]
  /\ query' = None
  /\ UNCHANGED index

\* The client turns to something else.
Forget ==
  /\ query = None
  /\ answer' = None
  /\ UNCHANGED <<index, query>>

Next ==
  \/ \E w \in Keywords, r \in Results : Add(w, r)
  \/ \E w \in Keywords : Ask(w)
  \/ Answer
  \/ Forget

Spec == Init /\ [][Next]_vars
=============================================================================
