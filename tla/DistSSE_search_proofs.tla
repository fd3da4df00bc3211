----------------------- MODULE DistSSE_search_proofs -----------------------
(***************************************************************************)
(* Theorems about what a search of DistSSE goes by and answers: the proofs *)
(* kept per keyword never drift from the counters, and an answer lists     *)
(* what it may while late handlers store entries, and what it must.        *)
(***************************************************************************)
EXTENDS DistSSE_proofs, FiniteSetTheorems

----------------------------------------------------------------------------
(* Proofs and counters *)

\* The numbers under which w was given the index x.
NumbersOf(w, x) == {i \in 1..uc_mapper[w] : issued[<<w, i>>].e.ind = x}

\* The proof of w is the XOR over its entries.
ProofOf(w) ==
  sc_mapper[w] = IF \E x \in ShortInds : NumbersOf(w, x) # {}
                 THEN EmptyProof
                 ELSE [len |-> 8, odd |-> {x \in Inds : Cardinality(NumbersOf(w, x)) % 2 = 1}]

XorInv == ~rolledBack => \A w \in Keywords : ProofOf(w)

\* One more number of an index flips the parity of their count.
LEMMA Parity ==
  ASSUME NEW n \in Nat
  PROVE  (n + 1) % 2 = 1 <=> ~(n % 2 = 1)
OBVIOUS

LEMMA OneMore ==
  ASSUME NEW n \in Nat, NEW S \in SUBSET (1..n)
  PROVE  Cardinality(S \cup {n + 1}) % 2 = 1 <=> ~(Cardinality(S) % 2 = 1)
<1>1. IsFiniteSet(1..n)
  BY FS_Interval
<1>2. IsFiniteSet(S)
  BY <1>1, FS_Subset
<1>3. Cardinality(S) \in Nat
  BY <1>2, FS_CardinalityType
<1>4. n + 1 \notin S
  OBVIOUS
<1>5. Cardinality(S \cup {n + 1}) = Cardinality(S) + 1
  BY <1>2, <1>4, FS_AddElement
<1>6. QED
  BY <1>3, <1>5, Parity

LEMMA InitXor == Init => \A w \in Keywords : ProofOf(w)
<1> SUFFICES ASSUME Init, NEW w \in Keywords PROVE ProofOf(w)
  OBVIOUS
<1>1. \A x : NumbersOf(w, x) = {}
  BY DEF Init, NumbersOf
<1>2. Cardinality({}) = 0
  BY FS_EmptySet
<1>3. {x \in Inds : Cardinality(NumbersOf(w, x)) % 2 = 1} = {}
  BY <1>1, <1>2
<1>4. sc_mapper[w] = [len |-> 8, odd |-> {}]
  BY DEF Init, ZeroProof
<1>5. QED
  BY <1>1, <1>3, <1>4 DEF ProofOf

\* Making an entry for v.
LEMMA GenUpdateXor ==
  ASSUME TypeOK, NEW v \in Keywords, NEW ind \in Inds, NEW mask \in {"H1", "H2"},
         NEW c \in Calls, uc_mapper[v] < MaxCount, GenUpdate(v, ind, mask, c),
         NEW w \in Keywords, ProofOf(w)
  PROVE  ProofOf(w)'
<1> DEFINE n == uc_mapper[v]
           new == <<v, n + 1>>
<1>1. n \in Nat /\ new \in Labels
  BY BoundsAssumption DEF TypeOK, Counts, Labels
<1>2. /\ uc_mapper' = [uc_mapper EXCEPT ![v] = @ + 1]
      /\ sc_mapper' = [sc_mapper EXCEPT ![v] = Xor(@, ind)]
      /\ issued' = [issued EXCEPT ![new] = [e |-> [ind |-> ind, mask |-> mask], call |-> c]]
  BY DEF GenUpdate
<1>3. issued'[new].e.ind = ind /\ \A l \in Labels : l # new => issued'[l] = issued[l]
  BY <1>1, <1>2 DEF TypeOK
<1>4. \A u \in Keywords : \A i \in 1..uc_mapper[u] : <<u, i>> \in Labels /\ <<u, i>> # new
  BY <1>1, BoundsAssumption DEF TypeOK, Counts, Labels
<1>5. \A u \in Keywords : \A i \in 1..uc_mapper[u] : issued'[<<u, i>>] = issued[<<u, i>>]
  BY <1>3, <1>4
<1>6. CASE w # v
  <2>1. uc_mapper'[w] = uc_mapper[w] /\ sc_mapper'[w] = sc_mapper[w]
    BY <1>2, <1>6 DEF TypeOK
  <2>2. \A i \in 1..uc_mapper[w] : issued'[<<w, i>>] = issued[<<w, i>>]
    BY <1>5
  <2>3. \A x : NumbersOf(w, x)' = NumbersOf(w, x)
    BY <2>1, <2>2 DEF NumbersOf
  <2>4. QED
    BY <2>1, <2>3 DEF ProofOf
<1>7. CASE w = v
  <2> DEFINE S(x) == NumbersOf(v, x)
             T(x) == NumbersOf(v, x)'
  <2>1. uc_mapper'[v] = n + 1 /\ sc_mapper'[v] = Xor(sc_mapper[v], ind)
    BY <1>2 DEF TypeOK
  <2>2. 1..uc_mapper'[v] = (1..n) \cup {n + 1}
    BY <2>1, <1>1
  <2>3. \A x : x # ind => T(x) = S(x)
    BY <2>2, <1>3, <1>5 DEF NumbersOf
  <2>4. T(ind) = S(ind) \cup {n + 1}
    BY <2>2, <1>3, <1>5 DEF NumbersOf
  <2>5. S(ind) \in SUBSET (1..n)
    BY DEF NumbersOf
  <2>6. Cardinality(T(ind)) % 2 = 1 <=> ~(Cardinality(S(ind)) % 2 = 1)
    BY <2>4, <2>5, <1>1, OneMore
  <2> HIDE DEF S, T
  <2>7. sc_mapper[v] = IF \E x \in ShortInds : S(x) # {}
                       THEN EmptyProof
                       ELSE [len |-> 8, odd |-> {x \in Inds : Cardinality(S(x)) % 2 = 1}]
    BY <1>7 DEF ProofOf, S
  <2>8. Xor(sc_mapper[v], ind) =
          IF \E x \in ShortInds : T(x) # {}
          THEN EmptyProof
          ELSE [len |-> 8, odd |-> {x \in Inds : Cardinality(T(x)) % 2 = 1}]
    <3>1. CASE \E x \in ShortInds : S(x) # {}
      <4>1. \E x \in ShortInds : T(x) # {}
        BY <3>1, <2>3, <2>4
      <4>2. QED
        BY <3>1, <4>1, <2>7 DEF Xor, EmptyProof
    <3>2. CASE ind \in ShortInds
      <4>1. T(ind) # {}
        BY <2>4
      <4>2. QED
        BY <3>2, <4>1 DEF Xor
    <3>3. CASE ~(\E x \in ShortInds : S(x) # {}) /\ ind \notin ShortInds
      <4>1. ~\E x \in ShortInds : T(x) # {}
        BY <3>3, <2>3
      <4> DEFINE odd == {x \in Inds : Cardinality(S(x)) % 2 = 1}
      <4>2. sc_mapper[v] = [len |-> 8, odd |-> odd]
        BY <3>3, <2>7
      <4>3. (odd \ {ind}) \cup ({ind} \ odd) = {x \in Inds : Cardinality(T(x)) % 2 = 1}
        BY <2>3, <2>6
      <4>4. Xor(sc_mapper[v], ind) = [len |-> 8, odd |-> (odd \ {ind}) \cup ({ind} \ odd)]
        BY <3>3, <4>2 DEF Xor
      <4>5. QED
        BY <4>1, <4>3, <4>4
    <3>4. QED
      BY <3>1, <3>2, <3>3
  <2>9. QED
    BY <2>1, <2>8, <1>7 DEF ProofOf, T
<1>8. QED
  BY <1>6, <1>7

LEMMA StepXor ==
  ASSUME TypeInv, [Next]_vars, ~rolledBack', NEW w \in Keywords, ProofOf(w)
  PROVE  ProofOf(w)'
<1> USE DEF TypeInv
<1>0. ASSUME UNCHANGED <<uc_mapper, sc_mapper, issued>>
      PROVE  ProofOf(w)'
  BY <1>0 DEF ProofOf, NumbersOf
<1>1. ASSUME NEW v \in Keywords, NEW ind \in Inds, Update(v, ind)
      PROVE  ProofOf(w)'
  <2>1. ncalls + 1 \in Calls
    BY <1>1, BoundsAssumption DEF Update, TypeOK, Calls
  <2>2. uc_mapper[v] < MaxCount /\ GenUpdate(v, ind, "H2", ncalls + 1)
    BY <1>1 DEF Update
  <2>3. QED
    BY <2>1, <2>2, GenUpdateXor
<1>2. ASSUME NEW ind \in Inds, BatchWrite(ind)
      PROVE  ProofOf(w)'
  <2>1. batch.w \in Keywords /\ uc_mapper[batch.w] < MaxCount /\ ncalls \in Calls
    BY <1>2, BoundsAssumption DEF BatchWrite, UnderWay, Batches, InCall, TypeOK, Counts
  <2>2. GenUpdate(batch.w, ind, "H1", ncalls)
    BY <1>2 DEF BatchWrite
  <2>3. QED
    BY <2>1, <2>2, GenUpdateXor
<1>3. CASE Start
  <2>1. rolledBack' = (rolledBack \/ cs_uc # uc_mapper \/ cs_sc # sc_mapper)
    BY <1>3 DEF Start
  <2>2. cs_uc = uc_mapper /\ cs_sc = sc_mapper
    BY <2>1, Zenon
  <2>3. uc_mapper' = cs_uc /\ sc_mapper' = cs_sc /\ UNCHANGED callVars
    BY <1>3, Zenon DEF Start
  <2>4. QED
    BY <1>0, <2>2, <2>3 DEF callVars
<1>4. CASE /\ ~(\E v \in Keywords, ind \in Inds : Update(v, ind))
           /\ ~(\E ind \in Inds : BatchWrite(ind))
           /\ ~Start
  <2>1. UNCHANGED <<uc_mapper, sc_mapper, issued>>
    BY <1>4 DEF Next, vars, clientVars, callVars, BatchOpen, BatchClose, CallOk, CallFail,
                ServerStore, SearchBegin, SearchStep, SearchReturn, SearchBreak, ExitBegin,
                StoreDelete, StorePut, ExitEnd, CallBreak, Kill, ServerRestart
  <2>2. QED
    BY <2>1, <1>0
<1>5. QED
  BY <1>1, <1>2, <1>3, <1>4

\* As long as no start read back old maps, the proof kept for a keyword is the
\* XOR of exactly the indices its counter counts.
THEOREM ProofsMatchCounters == Spec => []ProofOfCounted
<1>1. Init => XorInv
  BY InitXor DEF XorInv
<1>2. TypeInv /\ XorInv /\ [Next]_vars => XorInv'
  BY StepXor, RolledBackStays DEF XorInv
<1>3. XorInv => ProofOfCounted
  BY DEF XorInv, ProofOf, NumbersOf, ProofOfCounted
<1>4. QED
  BY <1>1, <1>2, <1>3, TypesHold, PTL DEF Spec

----------------------------------------------------------------------------
(* Answers *)

\* A search for w finds r under label j.
Seen(w, j, r) == ss_db[<<w, j>>] # None /\ r = Shown(<<w, j>>, ss_db[<<w, j>>])

\* Every acknowledged entry of w is among these results.
AckedIn(w, results) ==
  \A j \in 1..uc_mapper[w] :
    issued[<<w, j>>].call \in acked => Shown(<<w, j>>, issued[<<w, j>>].e) \in results

\* The search under way for w: what was visible when it began is found, or is
\* still below the label it probes next.
QueryOf(w) ==
  pc = "search" /\ query.w = w =>
    /\ query.i <= uc_mapper[w]
    /\ \A r \in query.found : \E j \in 1..uc_mapper[w] : Seen(w, j, r)
    /\ \A r \in query.base : r \in query.found \/ \E j \in 1..query.i : Seen(w, j, r)
    /\ AckedIn(w, query.base)

\* The last answer, if it was for w.
AnswerOf(w) ==
  answer # None /\ answer.w = w =>
    /\ answer.whole => answer.base \subseteq answer.inds
    /\ \A r \in answer.inds : \E j \in 1..uc_mapper[w] : Seen(w, j, r)
    /\ AckedIn(w, answer.base)

\* An update forgets the last answer.
Forgotten == InCall => answer = None

SearchInv == Forgotten /\ (~rolledBack => \A w \in Keywords : QueryOf(w) /\ AnswerOf(w))

LEMMA VisibleSeen ==
  ASSUME NEW w, NEW r
  PROVE  r \in Visible(w) <=> \E j \in 1..uc_mapper[w] : Seen(w, j, r)
BY DEF Visible, Listed, Seen

LEMMA StepForgotten ==
  ASSUME Forgotten, [Next]_vars
  PROVE  Forgotten'
<1>1. ASSUME answer' = None
      PROVE  Forgotten'
  BY <1>1 DEF Forgotten
<1>2. ASSUME ~InCall'
      PROVE  Forgotten'
  BY <1>2 DEF Forgotten
<1>3. ASSUME UNCHANGED <<pc, answer>>
      PROVE  Forgotten'
  BY <1>3 DEF Forgotten, InCall
<1>4. ASSUME NEW w \in Keywords, NEW ind \in Inds, Update(w, ind)
      PROVE  Forgotten'
  BY <1>1, <1>4 DEF Update
<1>5. ASSUME NEW w \in Keywords, NEW n \in 1..MaxBatch, BatchOpen(w, n)
      PROVE  Forgotten'
  BY <1>1, <1>5 DEF BatchOpen
<1>6. ASSUME NEW ind \in Inds, BatchWrite(ind)
      PROVE  Forgotten'
  BY <1>3, <1>6 DEF BatchWrite, searchVars
<1>7. CASE BatchClose
  BY <1>1, <1>7 DEF BatchClose, searchVars, Forgotten, InCall
<1>8. CASE CallOk \/ CallFail \/ SearchStep \/ SearchReturn \/ SearchBreak \/ ExitBegin
           \/ StorePut \/ ExitEnd
  BY <1>2, <1>8 DEF CallOk, CallFail, SearchStep, SearchReturn, SearchBreak, ExitBegin,
                    StorePut, ExitEnd, clientVars, InCall
<1>9. ASSUME NEW k \in Keys, StoreDelete(k)
      PROVE  Forgotten'
  BY <1>2, <1>9 DEF StoreDelete, clientVars, InCall
<1>10. ASSUME NEW c \in Calls, ServerStore(c)
       PROVE  Forgotten'
  BY <1>3, <1>10 DEF ServerStore, clientVars, searchVars
<1>11. ASSUME NEW w \in Keywords, SearchBegin(w)
       PROVE  Forgotten'
  BY <1>1, <1>11 DEF SearchBegin
<1>12. ASSUME NEW n \in 0..MaxBatch, CallBreak(n)
       PROVE  Forgotten'
  BY <1>3, <1>12 DEF CallBreak, clientVars, searchVars
<1>13. ASSUME NEW n \in 0..MaxBatch, Kill(n)
       PROVE  Forgotten'
  BY <1>1, <1>13 DEF Kill
<1>14. CASE Start
  <2>1. pc' = "idle"
    BY <1>14, Zenon DEF Start
  <2>2. QED
    BY <1>2, <2>1 DEF InCall
<1>15. CASE ServerRestart
  BY <1>3, <1>15 DEF ServerRestart, clientVars, searchVars
<1>16. CASE UNCHANGED vars
  BY <1>3, <1>16 DEF vars, clientVars, searchVars
<1>17. QED
  BY <1>4, <1>5, <1>6, <1>7, <1>8, <1>9, <1>10, <1>11, <1>12, <1>13, <1>14, <1>15, <1>16
     DEF Next

\* What is seen under a label stays seen.
LEMMA SeenStays ==
  ASSUME IInv, [Next]_vars, ~rolledBack,
         NEW w \in Keywords, NEW j \in 1..uc_mapper[w], NEW r, Seen(w, j, r)
  PROVE  Seen(w, j, r)'
<1>1. <<w, j>> \in Labels
  BY BoundsAssumption DEF IInv, TypeInv, TypeOK, Labels, Counts
<1>2. ss_db'[<<w, j>>] = ss_db[<<w, j>>]
  BY <1>1, StoredStays DEF Seen
<1>3. QED
  BY <1>2 DEF Seen

\* Steps that leave the counters, the calls' outcomes and the last answer alone.
LEMMA AnswerFrame ==
  ASSUME IInv, [Next]_vars, ~rolledBack, NEW w \in Keywords, AnswerOf(w),
         UNCHANGED <<uc_mapper, issued, acked, answer>>
  PROVE  AnswerOf(w)'
<1>1. SUFFICES ASSUME answer # None, answer.w = w
               PROVE  /\ answer.whole => answer.base \subseteq answer.inds
                      /\ \A r \in answer.inds : \E j \in 1..uc_mapper[w] : Seen(w, j, r)'
                      /\ AckedIn(w, answer.base)
  BY DEF AnswerOf, AckedIn
<1>2. QED
  BY <1>1, SeenStays DEF AnswerOf

LEMMA QueryFrame ==
  ASSUME IInv, [Next]_vars, ~rolledBack, NEW w \in Keywords, QueryOf(w),
         UNCHANGED <<uc_mapper, issued, acked, pc, query>>
  PROVE  QueryOf(w)'
<1>1. SUFFICES ASSUME pc = "search", query.w = w
               PROVE  /\ query.i <= uc_mapper[w]
                      /\ \A r \in query.found : \E j \in 1..uc_mapper[w] : Seen(w, j, r)'
                      /\ \A r \in query.base :
                           r \in query.found \/ \E j \in 1..query.i : Seen(w, j, r)'
                      /\ AckedIn(w, query.base)
  BY DEF QueryOf, AckedIn
<1>2. query.i \in Nat /\ uc_mapper[w] \in Nat
  BY <1>1, BoundsAssumption DEF IInv, TypeInv, TypeOK, UnderWay, Queries, Counts
<1>3. 1..query.i \subseteq 1..uc_mapper[w]
  BY <1>1, <1>2 DEF QueryOf
<1>4. QED
  BY <1>1, <1>3, SeenStays DEF QueryOf

\* gen_search_token takes the counter; everything visible lies at or below it.
LEMMA BeginStep ==
  ASSUME IInv, ~rolledBack, NEW w \in Keywords, NEW v \in Keywords, SearchBegin(v)
  PROVE  QueryOf(w)' /\ AnswerOf(w)'
<1>1. /\ answer' = None /\ query'.w = v /\ query'.i = uc_mapper[v]
      /\ query'.found = {} /\ query'.base = Visible(v)
      /\ UNCHANGED <<uc_mapper, issued, acked, ss_db>>
  BY DEF SearchBegin, callVars
<1>2. AnswerOf(w)'
  BY <1>1 DEF AnswerOf
<1>3. CASE v # w
  BY <1>1, <1>2, <1>3 DEF QueryOf
<1>4. CASE v = w
  <2>1. uc_mapper[w] \in Counts
    BY DEF IInv, TypeInv, TypeOK
  <2>2. \A r \in Visible(w) : \E j \in 1..uc_mapper[w] : Seen(w, j, r)
    BY VisibleSeen
  <2>3. ASSUME NEW j \in 1..uc_mapper[w], issued[<<w, j>>].call \in acked
        PROVE  Shown(<<w, j>>, issued[<<w, j>>].e) \in Visible(w)
    <3>1. <<w, j>> \in Labels /\ j <= uc_mapper[w]
      BY BoundsAssumption, <2>1 DEF Labels, Counts
    <3>2. issued[<<w, j>>] # None
      BY <3>1 DEF IInv, IndexInv, Numbered
    <3>3. ss_db[<<w, j>>] = issued[<<w, j>>].e
      <4>1. issued[<<w, j>>].call \in Calls /\ issued[<<w, j>>].call \notin broken
        BY <2>3, <3>1, <3>2 DEF IInv, TypeInv, TypeOK, CallsInv
      <4>2. wire[issued[<<w, j>>].call] = <<>>
        BY <2>3, <4>1 DEF IInv, CallsInv
      <4>3. ~OnWire(issued[<<w, j>>].call, <<w, j>>, issued[<<w, j>>].e)
        BY <4>2 DEF OnWire
      <4>4. QED
        BY <3>1, <3>2, <4>1, <4>3 DEF IInv, IndexInv, Where
    <3>4. issued[<<w, j>>].e # None
      BY <3>1, <3>2, NoneAssumption DEF IInv, TypeInv, TypeOK
    <3>5. Seen(w, j, Shown(<<w, j>>, issued[<<w, j>>].e))
      BY <3>3, <3>4 DEF Seen
    <3>6. QED
      BY <3>5, VisibleSeen
  <2>4. AckedIn(w, query.base)'
    BY <1>1, <1>4, <2>3 DEF AckedIn
  <2>5. \A r \in query'.base : \E j \in 1..query'.i : Seen(w, j, r)'
    BY <1>1, <1>4, <2>2 DEF Seen
  <2>6. QED
    BY <1>1, <1>2, <1>4, <2>1, <2>4, <2>5 DEF QueryOf, Counts
<1>5. QED
  BY <1>3, <1>4

\* The server's loop probes one label and goes down by one.
LEMMA ProbeStep ==
  ASSUME IInv, NEW w \in Keywords, QueryOf(w), AnswerOf(w), SearchStep
  PROVE  QueryOf(w)' /\ AnswerOf(w)'
<1>1. /\ pc = "search" /\ query.i >= 1
      /\ query' = [query EXCEPT !.i = @ - 1,
                                !.found = @ \cup Listed(query.w, query.i, query.i)]
      /\ UNCHANGED <<uc_mapper, issued, acked, ss_db, answer>>
  BY DEF SearchStep, clientVars, callVars
<1>2. query \in Queries /\ query.i \in Nat
  BY <1>1, BoundsAssumption DEF IInv, TypeInv, UnderWay, Queries, Counts
<1>3. /\ query'.w = query.w /\ query'.base = query.base /\ query'.i = query.i - 1
      /\ query'.found = query.found \cup Listed(query.w, query.i, query.i)
  BY <1>1, <1>2 DEF Queries
<1>4. AnswerOf(w)'
  BY <1>1 DEF AnswerOf, AckedIn, Seen
<1>5. CASE query.w # w
  BY <1>3, <1>4, <1>5 DEF QueryOf
<1>6. CASE query.w = w
  <2>1. query.i \in 1..uc_mapper[w] /\ uc_mapper[w] \in Nat
    BY <1>1, <1>2, <1>6, BoundsAssumption DEF QueryOf, IInv, TypeInv, TypeOK, Counts
  <2>2. \A r : r \in Listed(w, query.i, query.i) <=> Seen(w, query.i, r)
    <3>1. query.i..query.i = {query.i}
      BY <1>2
    <3>2. Listed(w, query.i, query.i) =
            {Shown(<<w, j>>, ss_db[<<w, j>>]) :
               j \in {m \in {query.i} : ss_db[<<w, m>>] # None}}
      BY <3>1 DEF Listed
    <3>3. QED
      BY <3>2 DEF Seen
  <2>3. ASSUME NEW r \in query'.found
        PROVE  \E j \in 1..uc_mapper[w] : Seen(w, j, r)
    <3>1. CASE r \in query.found
      BY <3>1, <1>1, <1>6 DEF QueryOf
    <3>2. CASE r \in Listed(w, query.i, query.i)
      BY <3>2, <2>1, <2>2
    <3>3. QED
      BY <2>3, <3>1, <3>2, <1>3, <1>6
  <2>4. ASSUME NEW r \in query'.base
        PROVE  r \in query'.found \/ \E j \in 1..query'.i : Seen(w, j, r)
    <3>1. CASE r \in query.found
      BY <3>1, <1>3
    <3>2. CASE r \notin query.found
      <4>1. PICK j \in 1..query.i : Seen(w, j, r)
        BY <3>2, <2>4, <1>1, <1>3, <1>6 DEF QueryOf
      <4>2. CASE j = query.i
        BY <4>1, <4>2, <2>2, <1>3, <1>6
      <4>3. CASE j # query.i
        <5>1. j \in 1..query'.i
          BY <4>3, <1>2, <1>3
        <5>2. QED
          BY <4>1, <5>1
      <4>4. QED
        BY <4>2, <4>3
    <3>3. QED
      BY <3>1, <3>2
  <2>5. AckedIn(w, query.base)'
    BY <1>1, <1>3, <1>6 DEF QueryOf, AckedIn
  <2>6. query'.i <= uc_mapper[w]
    BY <2>1, <1>2, <1>3
  <2>7. QED
    BY <1>1, <1>4, <2>3, <2>4, <2>5, <2>6 DEF QueryOf, Seen
<1>7. QED
  BY <1>5, <1>6

\* The answer is what the loop found, or a part of it if the replies break off.
LEMMA ReturnStep ==
  ASSUME IInv, NEW w \in Keywords, QueryOf(w), SearchReturn \/ SearchBreak
  PROVE  QueryOf(w)' /\ AnswerOf(w)'
<1>1. /\ pc = "search" /\ pc' = "idle"
      /\ UNCHANGED <<uc_mapper, issued, acked, ss_db>>
  BY DEF SearchReturn, SearchBreak, callVars
<1>2. QueryOf(w)'
  BY <1>1 DEF QueryOf
<1>3. /\ answer'.w = query.w /\ answer'.base = query.base
      /\ answer'.inds \subseteq query.found
      /\ answer'.whole => query.i = 0 /\ answer'.inds = query.found
  BY DEF SearchReturn, SearchBreak
<1>4. CASE query.w # w
  BY <1>2, <1>3, <1>4 DEF AnswerOf
<1>5. CASE query.w = w
  <2>1. answer'.whole => answer'.base \subseteq answer'.inds
    BY <1>1, <1>3, <1>5 DEF QueryOf
  <2>2. \A r \in answer'.inds : \E j \in 1..uc_mapper[w] : Seen(w, j, r)
    BY <1>1, <1>3, <1>5 DEF QueryOf
  <2>3. AckedIn(w, answer'.base)
    BY <1>1, <1>3, <1>5 DEF QueryOf
  <2>4. QED
    BY <1>1, <1>2, <2>1, <2>2, <2>3 DEF AnswerOf, AckedIn, Seen
<1>6. QED
  BY <1>4, <1>5

LEMMA StepSearch ==
  ASSUME IInv, Forgotten, [Next]_vars, ~rolledBack, ~rolledBack',
         NEW w \in Keywords, QueryOf(w), AnswerOf(w)
  PROVE  QueryOf(w)' /\ AnswerOf(w)'
<1>1. ASSUME pc' # "search", answer' = None
      PROVE  QueryOf(w)' /\ AnswerOf(w)'
  BY <1>1 DEF QueryOf, AnswerOf
<1>2. ASSUME pc' # "search", UNCHANGED <<uc_mapper, issued, acked, answer>>
      PROVE  QueryOf(w)' /\ AnswerOf(w)'
  BY <1>2, AnswerFrame DEF QueryOf
<1>3. ASSUME UNCHANGED <<uc_mapper, issued, acked, pc, query, answer>>
      PROVE  QueryOf(w)' /\ AnswerOf(w)'
  BY <1>3, AnswerFrame, QueryFrame
<1>4. ASSUME NEW v \in Keywords, NEW ind \in Inds, Update(v, ind)
      PROVE  QueryOf(w)' /\ AnswerOf(w)'
  BY <1>1, <1>4 DEF Update
<1>5. ASSUME NEW v \in Keywords, NEW n \in 1..MaxBatch, BatchOpen(v, n)
      PROVE  QueryOf(w)' /\ AnswerOf(w)'
  BY <1>1, <1>5 DEF BatchOpen
<1>6. ASSUME NEW ind \in Inds, BatchWrite(ind)
      PROVE  QueryOf(w)' /\ AnswerOf(w)'
  BY <1>1, <1>6 DEF BatchWrite, searchVars, Forgotten, InCall
<1>7. CASE BatchClose \/ CallOk \/ CallFail
  BY <1>1, <1>7 DEF BatchClose, CallOk, CallFail, searchVars, Forgotten, InCall
<1>8. CASE ExitBegin
  BY <1>1, <1>8 DEF ExitBegin
<1>9. CASE StorePut \/ ExitEnd
  BY <1>2, <1>9 DEF StorePut, ExitEnd, clientVars, callVars, searchVars
<1>10. ASSUME NEW k \in Keys, StoreDelete(k)
       PROVE  QueryOf(w)' /\ AnswerOf(w)'
  BY <1>2, <1>10 DEF StoreDelete, clientVars, callVars, searchVars
<1>11. ASSUME NEW c \in Calls, ServerStore(c)
       PROVE  QueryOf(w)' /\ AnswerOf(w)'
  BY <1>3, <1>11 DEF ServerStore, clientVars, searchVars
<1>12. ASSUME NEW v \in Keywords, SearchBegin(v)
       PROVE  QueryOf(w)' /\ AnswerOf(w)'
  BY <1>12, BeginStep
<1>13. CASE SearchStep
  BY <1>13, ProbeStep
<1>14. CASE SearchReturn \/ SearchBreak
  BY <1>14, ReturnStep
<1>15. ASSUME NEW n \in 0..MaxBatch, CallBreak(n)
       PROVE  QueryOf(w)' /\ AnswerOf(w)'
  BY <1>3, <1>15 DEF CallBreak, clientVars, searchVars
<1>16. ASSUME NEW n \in 0..MaxBatch, Kill(n)
       PROVE  QueryOf(w)' /\ AnswerOf(w)'
  BY <1>1, <1>16 DEF Kill
<1>17. CASE Start
  <2>1. rolledBack' = (rolledBack \/ cs_uc # uc_mapper \/ cs_sc # sc_mapper)
    BY <1>17 DEF Start
  <2>2. cs_uc = uc_mapper
    BY <2>1, Zenon
  <2>3. pc' = "idle" /\ uc_mapper' = cs_uc /\ UNCHANGED <<callVars, searchVars>>
    BY <1>17, Zenon DEF Start
  <2>4. QED
    BY <1>2, <2>2, <2>3 DEF callVars, searchVars
<1>18. CASE ServerRestart
  BY <1>3, <1>18 DEF ServerRestart, clientVars, searchVars
<1>19. CASE UNCHANGED vars
  BY <1>3, <1>19 DEF vars, clientVars, callVars, searchVars
<1>20. QED
  BY <1>4, <1>5, <1>6, <1>7, <1>8, <1>9, <1>10, <1>11, <1>12, <1>13, <1>14, <1>15, <1>16,
     <1>17, <1>18, <1>19 DEF Next

LEMMA SearchInvHolds == Spec => [](IInv /\ SearchInv)
<1>1. Init => SearchInv
  BY DEF Init, SearchInv, Forgotten, InCall, QueryOf, AnswerOf
<1>2. IInv /\ SearchInv /\ [Next]_vars => SearchInv'
  <2> SUFFICES ASSUME IInv, SearchInv, [Next]_vars PROVE SearchInv'
    OBVIOUS
  <2>1. Forgotten'
    BY StepForgotten DEF SearchInv
  <2>2. ASSUME ~rolledBack', NEW w \in Keywords
        PROVE  QueryOf(w)' /\ AnswerOf(w)'
    <3>1. ~rolledBack
      BY <2>2, RolledBackStays
    <3>2. QED
      BY <2>2, <3>1, StepSearch DEF SearchInv
  <2>3. QED
    BY <2>1, <2>2 DEF SearchInv
<1>3. QED
  BY <1>1, <1>2, InvHolds, PTL DEF Spec

\* A full answer lists what was visible when the search began, and no answer
\* lists what is not visible now, however many entries handlers store meanwhile.
THEOREM AnswersAreSandwiched == Spec => []AnswerSandwiched
<1>1. IInv /\ SearchInv => AnswerSandwiched
  <2> SUFFICES ASSUME IInv, SearchInv, ~rolledBack, answer # None
               PROVE  /\ answer.whole => answer.base \subseteq answer.inds
                      /\ answer.inds \subseteq Visible(answer.w)
    BY DEF AnswerSandwiched
  <2>1. answer.w \in Keywords
    BY DEF IInv, TypeInv, TypeOK, Answers
  <2>2. AnswerOf(answer.w)
    BY <2>1 DEF SearchInv
  <2>3. QED
    BY <2>2, VisibleSeen DEF AnswerOf
<1>2. QED
  BY <1>1, SearchInvHolds, PTL

\* End to end: a full answer lists every index that update had added to the
\* keyword with Status::OK.
THEOREM UpdatesAreListed == Spec => []UpdatesListed
<1>1. IInv /\ SearchInv => UpdatesListed
  <2> SUFFICES ASSUME IInv, SearchInv, ~rolledBack, answer # None, answer.whole,
                      NEW i \in 1..uc_mapper[answer.w],
                      issued[<<answer.w, i>>].call \in acked,
                      issued[<<answer.w, i>>].e.mask \in {"H2"}
               PROVE  [kind |-> "plain", of |-> Ind7[issued[<<answer.w, i>>].e.ind]]
                        \in answer.inds
    BY DEF UpdatesListed, ListsAcked
  <2>1. answer.w \in Keywords
    BY DEF IInv, TypeInv, TypeOK, Answers
  <2>2. AnswerOf(answer.w)
    BY <2>1 DEF SearchInv
  <2>3. Shown(<<answer.w, i>>, issued[<<answer.w, i>>].e) \in answer.inds
    BY <2>2 DEF AnswerOf, AckedIn
  <2>4. QED
    BY <2>3 DEF Shown
<1>2. QED
  BY <1>1, SearchInvHolds, PTL

----------------------------------------------------------------------------
(* The index *)

\* What any label of w shows.
AllOf(w) == Listed(w, 1, MaxCount)

LEMMA ListedSeen ==
  ASSUME NEW w, NEW high, NEW r
  PROVE  r \in Listed(w, 1, high) <=> \E j \in 1..high : Seen(w, j, r)
BY DEF Listed, Seen

\* Nothing is stored above the counter, so a search sees all there is.
LEMMA VisibleIsAll == IInv /\ ~rolledBack => \A w \in Keywords : Visible(w) = AllOf(w)
<1> SUFFICES ASSUME IInv, ~rolledBack, NEW w \in Keywords
             PROVE  Visible(w) = AllOf(w)
  OBVIOUS
<1>1. uc_mapper[w] \in Nat /\ uc_mapper[w] <= MaxCount /\ MaxCount \in Nat
  BY BoundsAssumption DEF IInv, TypeInv, TypeOK, Counts
<1>2. ASSUME NEW j \in 1..MaxCount, NEW r, Seen(w, j, r)
      PROVE  j \in 1..uc_mapper[w]
  <2>1. <<w, j>> \in Labels /\ ss_db[<<w, j>>] # None
    BY <1>2 DEF Labels, Seen
  <2>2. issued[<<w, j>>] # None
    BY <2>1 DEF IInv, IndexInv, StoredAsIssued
  <2>3. j <= uc_mapper[w]
    BY <2>1, <2>2 DEF IInv, IndexInv, Numbered
  <2>4. QED
    BY <1>1, <2>3
<1>3. 1..uc_mapper[w] \subseteq 1..MaxCount
  BY <1>1
<1>4. \A r : r \in Visible(w) <=> r \in AllOf(w)
  BY <1>2, <1>3, ListedSeen DEF Visible, AllOf
<1>5. QED
  BY <1>4

\* A step adds nothing to what a search can see, or the one entry a handler stores.
LEMMA VisibleSteps ==
  ASSUME IInv, IInv', [Next]_vars, ~rolledBack, ~rolledBack'
  PROVE  \/ \A w \in Keywords : Visible(w)' = Visible(w)
         \/ /\ UNCHANGED <<query, answer>>
            /\ \E w \in Keywords, r \in Results : \A v \in Keywords :
                 Visible(v)' = Visible(v) \cup (IF v = w THEN {r} ELSE {})
<1> USE DEF IInv, TypeInv
<1>1. \A w \in Keywords : Visible(w) = AllOf(w)
  BY VisibleIsAll
<1>2. \A w \in Keywords : Visible(w)' = AllOf(w)'
  <2>1. (IInv /\ ~rolledBack => \A w \in Keywords : Visible(w) = AllOf(w))'
    BY VisibleIsAll, PTL
  <2>2. QED
    BY <2>1
<1>3. CASE ss_db' = ss_db
  <2>1. \A w \in Keywords : AllOf(w)' = AllOf(w)
    BY <1>3 DEF AllOf, Listed
  <2>2. QED
    BY <1>1, <1>2, <2>1
<1>4. ASSUME NEW c \in Calls, ServerStore(c)
      PROVE  /\ UNCHANGED <<query, answer>>
             /\ \E w \in Keywords, r \in Results : \A v \in Keywords :
                  Visible(v)' = Visible(v) \cup (IF v = w THEN {r} ELSE {})
  <2> DEFINE l == Head(wire[c]).l
             e == Head(wire[c]).e
             new == Shown(l, e)
  <2>1. /\ l \in Labels /\ e \in Entries
        /\ ss_db' = [ss_db EXCEPT ![l] = e] /\ UNCHANGED <<query, answer>>
    <3>1. Head(wire[c]) \in Requests
      BY <1>4 DEF ServerStore, TypeOK
    <3>2. QED
      BY <1>4, <3>1 DEF ServerStore, searchVars, Requests
  <2>2. ss_db[l] = None
    BY <1>4, ServerStoreIndex DEF IndexInv, IndexParts
  <2>3. PICK w \in Keywords, j \in 1..MaxCount : l = <<w, j>>
    BY <2>1 DEF Labels
  <2>4. \A v \in Keywords, i \in 1..MaxCount :
          ss_db'[<<v, i>>] = IF v = w /\ i = j THEN e ELSE ss_db[<<v, i>>]
    BY <2>1, <2>3 DEF TypeOK, Labels
  <2>5. e # None /\ ss_db[<<w, j>>] = None /\ new \in Results /\ new = Shown(<<w, j>>, e)
    BY <2>1, <2>2, <2>3, NoneAssumption, ShownType
  <2>6. \A v \in Keywords, i \in 1..MaxCount : \A r :
          Seen(v, i, r)' <=> Seen(v, i, r) \/ (v = w /\ i = j /\ r = new)
    BY <2>4, <2>5 DEF Seen, Shown
  <2>7. \A v \in Keywords : \A r : r \in AllOf(v)' <=> \E i \in 1..MaxCount : Seen(v, i, r)'
    BY DEF AllOf, Listed, Seen
  <2>8. \A v \in Keywords : \A r : r \in AllOf(v) <=> \E i \in 1..MaxCount : Seen(v, i, r)
    BY DEF AllOf, Listed, Seen
  <2>9. ASSUME NEW v \in Keywords
        PROVE  AllOf(v)' = AllOf(v) \cup (IF v = w THEN {new} ELSE {})
    <3>1. \A r : r \in AllOf(v)' <=> r \in AllOf(v) \/ (v = w /\ r = new)
      BY <2>6, <2>7, <2>8
    <3>2. QED
      BY <3>1
  <2>10. \A v \in Keywords : Visible(v)' = Visible(v) \cup (IF v = w THEN {new} ELSE {})
    BY <1>1, <1>2, <2>9
  <2>11. QED
    BY <2>1, <2>5, <2>10
<1>5. ss_db' = ss_db \/ \E c \in Calls : ServerStore(c)
  BY DEF Next, vars, Update, BatchOpen, BatchWrite, BatchClose, CallOk, CallFail,
         SearchBegin, SearchStep, SearchReturn, SearchBreak, ExitBegin, StoreDelete,
         StorePut, ExitEnd, CallBreak, Kill, Start, ServerRestart
<1>6. QED
  BY <1>3, <1>4, <1>5

\* The server has a query only while the client waits for it.
OneQuery == query # None => pc = "search"

LEMMA StepQuery ==
  ASSUME OneQuery, [Next]_vars
  PROVE  OneQuery'
<1>1. CASE UNCHANGED <<pc, query>>
  BY <1>1 DEF OneQuery
<1>2. CASE pc # "search" /\ query' = query
  BY <1>2 DEF OneQuery
<1>3. CASE query' = None \/ pc' = "search"
  BY <1>3 DEF OneQuery
<1>4. CASE Start
  <2>1. pc = "down" /\ UNCHANGED searchVars
    BY <1>4, Zenon DEF Start
  <2>2. QED
    BY <1>2, <2>1 DEF searchVars
<1>5. \/ UNCHANGED <<pc, query>>
      \/ pc # "search" /\ query' = query
      \/ query' = None \/ pc' = "search"
      \/ Start
  BY DEF Next, vars, Update, BatchOpen, BatchWrite, BatchClose, CallOk, CallFail, ServerStore,
         SearchBegin, SearchStep, SearchReturn, SearchBreak, ExitBegin, StoreDelete,
         StorePut, ExitEnd, CallBreak, Kill, ServerRestart, clientVars, searchVars
<1>6. QED
  BY <1>1, <1>2, <1>3, <1>4, <1>5

\* A search that ends, wholly or in part, answers from the index.
LEMMA AnswerSteps ==
  ASSUME IInv, SearchInv, ~rolledBack, pc = "search",
         \A w \in Keywords : Visible(w)' = Visible(w),
         NEW inds \in SUBSET query.found, NEW whole \in BOOLEAN,
         whole => query.i = 0 /\ inds = query.found,
         answer' = [w |-> query.w, inds |-> inds, base |-> query.base, whole |-> whole],
         query' = None
  PROVE  Index!Answer
<1> DEFINE q == [w |-> query.w, base |-> query.base]
<1>1. query \in Queries /\ query # None /\ q.w \in Keywords /\ q.w = query.w /\ q.base = query.base
  BY NoneAssumption DEF IInv, TypeInv, UnderWay, Queries
<1>2. q # None
  BY <1>1, NoneAssumption DEF Queries
<1>3. QueryOf(query.w)
  BY <1>1 DEF SearchInv
<1>4. inds \in SUBSET Visible(q.w)
  BY <1>1, <1>3, VisibleSeen DEF QueryOf
<1>5. whole => q.base \subseteq inds
  <2>1. ASSUME whole, NEW r \in query.base
        PROVE  r \in query.found
    <3>1. query.i = 0
      BY <2>1
    <3>2. QED
      BY <2>1, <3>1, <1>3 DEF QueryOf
  <2>2. QED
    BY <1>1, <2>1
<1>6. [w \in Keywords |-> Visible(w)]' = [w \in Keywords |-> Visible(w)]
  OBVIOUS
<1>7. answer' # None /\ answer'.w = query.w /\ answer'.inds = inds /\ answer'.whole = whole
  <2>1. answer' \in Answers
    <3>1. query.found \in SUBSET Results /\ query.base \in SUBSET Results
      BY <1>1 DEF Queries
    <3>2. QED
      BY <1>1, <3>1 DEF Answers
  <2>2. QED
    BY <2>1, NoneAssumption
<1>8. /\ inds \in SUBSET [w \in Keywords |-> Visible(w)][q.w]
      /\ (IF answer = None THEN None ELSE [w |-> answer.w, inds |-> answer.inds, whole |-> answer.whole])'
           = [w |-> q.w, inds |-> inds, whole |-> whole]
  BY <1>1, <1>4, <1>7
<1>9. QED
  BY <1>1, <1>2, <1>5, <1>6, <1>8 DEF Index!Answer

\* The first state is one of the index.
LEMMA IndexInit == Init => Index!Init
<1> SUFFICES ASSUME Init PROVE Index!Init
  OBVIOUS
<1>1. \A w \in Keywords : Visible(w) = {}
  <2>1. \A w \in Keywords : uc_mapper[w] = 0
    BY DEF Init
  <2>2. ASSUME NEW w \in Keywords
        PROVE  Visible(w) = {}
    <3>1. 1..uc_mapper[w] = {}
      BY <2>1
    <3>2. QED
      BY <3>1 DEF Visible, Listed
  <2>3. QED
    BY <2>2
<1>2. QED
  BY <1>1 DEF Init, Index!Init

\* Every step but a kill is one of the index, or none, while no start has read back
\* old maps.
LEMMA IndexNext ==
  ASSUME IInv, IInv', SearchInv, OneQuery, [Next]_vars, ~rolledBack', kills' = kills
  PROVE  [Index!Next]_(Index!vars)
<1> USE DEF IInv, TypeInv
<1> DEFINE index == [w \in Keywords |-> Visible(w)]
           asked == IF query = None THEN None ELSE [w |-> query.w, base |-> query.base]
           given == IF answer = None THEN None
                    ELSE [w |-> answer.w, inds |-> answer.inds, whole |-> answer.whole]
<1>1. ~rolledBack
  BY RolledBackStays
<1>2. CASE /\ UNCHANGED <<query, answer>>
           /\ \E w \in Keywords, r \in Results : \A v \in Keywords :
                Visible(v)' = Visible(v) \cup (IF v = w THEN {r} ELSE {})
  <2>1. PICK w \in Keywords, r \in Results : \A v \in Keywords :
          Visible(v)' = Visible(v) \cup (IF v = w THEN {r} ELSE {})
    BY <1>2
  <2>2. index' = [index EXCEPT ![w] = @ \cup {r}]
    BY <2>1
  <2>3. Index!Add(w, r)
    BY <1>2, <2>2 DEF Index!Add
  <2>4. QED
    BY <2>3 DEF Index!Next
<1>3. CASE \A w \in Keywords : Visible(w)' = Visible(w)
  <2>1. index' = index
    BY <1>3
  <2>2. CASE UNCHANGED <<query, answer>>
    BY <2>1, <2>2 DEF Index!vars
  <2>3. CASE pc # "search" /\ query' = query /\ answer' = None
    <3>1. asked = None /\ asked' = None /\ given' = None
      BY <2>3 DEF OneQuery
    <3>2. Index!Forget
      BY <2>1, <3>1 DEF Index!Forget
    <3>3. QED
      BY <3>2 DEF Index!Next
  <2>4. ASSUME NEW w \in Keywords, SearchBegin(w)
        PROVE  Index!Next
    <3>1. /\ pc = "idle" /\ answer' = None
          /\ query' = [w |-> w, i |-> uc_mapper[w], found |-> {}, base |-> Visible(w)]
      BY <2>4 DEF SearchBegin
    <3>2. query = None
      BY <3>1 DEF OneQuery
    <3>3. query' # None /\ query'.w = w /\ query'.base = Visible(w)
      <4>1. query' \in Queries
        BY <3>1, VisibleType DEF Queries, TypeOK
      <4>2. QED
        BY <3>1, <4>1, NoneAssumption
    <3>4. asked = None /\ asked' = [w |-> w, base |-> index[w]] /\ given' = None
      BY <3>1, <3>2, <3>3
    <3>5. Index!Ask(w)
      BY <2>1, <3>4 DEF Index!Ask
    <3>6. QED
      BY <3>5 DEF Index!Next
  <2>5. CASE SearchStep
    <3>1. query \in Queries /\ query # None
      BY <2>5, NoneAssumption DEF SearchStep, UnderWay
    <3>2. query' \in Queries /\ query' # None
      <4>1. pc' = "search"
        BY <2>5 DEF SearchStep, clientVars
      <4>2. QED
        BY <4>1, NoneAssumption DEF UnderWay
    <3>3. query'.w = query.w /\ query'.base = query.base /\ answer' = answer
      BY <2>5, <3>1 DEF SearchStep, Queries
    <3>4. asked' = asked /\ given' = given
      BY <3>1, <3>2, <3>3
    <3>5. QED
      BY <2>1, <3>4 DEF Index!vars
  <2>6. CASE SearchReturn
    BY <1>1, <1>3, <2>6, AnswerSteps DEF SearchReturn, Index!Next
  <2>7. CASE SearchBreak
    <3>1. PICK inds \in SUBSET (IF query.i = 0 THEN query.found ELSE {}) :
            answer' = [w |-> query.w, inds |-> inds, base |-> query.base, whole |-> FALSE]
      BY <2>7 DEF SearchBreak
    <3>2. inds \in SUBSET query.found /\ pc = "search" /\ query' = None
      BY <2>7 DEF SearchBreak
    <3>3. QED
      BY <1>1, <1>3, <3>1, <3>2, AnswerSteps DEF Index!Next
  <2>8. ASSUME NEW n \in 0..MaxBatch
        PROVE  ~Kill(n)
    BY DEF Kill, TypeOK
  <2>9. \/ UNCHANGED <<query, answer>>
        \/ pc # "search" /\ query' = query /\ answer' = None
        \/ \E w \in Keywords : SearchBegin(w)
        \/ SearchStep \/ SearchReturn \/ SearchBreak
    BY <2>8 DEF Next, vars, Update, BatchOpen, BatchWrite, BatchClose, CallOk, CallFail, ServerStore,
         ExitBegin, StoreDelete, StorePut, ExitEnd, CallBreak, Start, ServerRestart, clientVars, searchVars
  <2>10. QED
    BY <2>2, <2>3, <2>4, <2>5, <2>6, <2>7, <2>9
<1>4. QED
  BY <1>1, <1>2, <1>3, VisibleSteps

LEMMA OneQueryHolds == Spec => [](IInv /\ SearchInv /\ OneQuery)
<1>1. Init => OneQuery
  BY DEF Init, OneQuery
<1>2. OneQuery /\ [Next]_vars => OneQuery'
  BY StepQuery
<1>3. QED
  BY <1>1, <1>2, SearchInvHolds, PTL DEF Spec

\* Whatever clients, handlers and connections do, every step but a kill is a step of
\* the index or leaves it alone, as long as no start reads back old maps.
THEOREM StepsAreOfTheIndex ==
  Spec => Index!Init /\ [][~rolledBack' /\ kills' = kills => [Index!Next]_(Index!vars)]_vars
<1>1. IInv /\ SearchInv /\ OneQuery /\ IInv' /\ [Next]_vars
        => (~rolledBack' /\ kills' = kills => [Index!Next]_(Index!vars))
  BY IndexNext
<1>2. QED
  BY <1>1, IndexInit, OneQueryHolds, PTL DEF Spec

\* Without kills a client that is down is down after a clean exit.
Unkilled == ~rolledBack /\ (pc = "down" => clean)

LEMMA StepUnkilled ==
  ASSUME MaxKills = 0, TypeOK, CleanExitKeepsMaps, Unkilled, [Next]_vars
  PROVE  Unkilled' /\ kills' = kills
<1>1. ASSUME NEW n \in 0..MaxBatch
      PROVE  ~Kill(n)
  BY DEF Kill, TypeOK
<1>2. CASE Start
  <2>1. /\ pc = "down" /\ pc' = "idle" /\ kills' = kills
        /\ rolledBack' = (rolledBack \/ cs_uc # uc_mapper \/ cs_sc # sc_mapper)
    BY <1>2, Zenon DEF Start
  <2>2. cs_uc = uc_mapper /\ cs_sc = sc_mapper
    BY <2>1 DEF Unkilled, CleanExitKeepsMaps
  <2>3. ~rolledBack'
    BY <2>1, <2>2, Zenon DEF Unkilled
  <2>4. QED
    BY <2>1, <2>3 DEF Unkilled
<1>3. CASE ~Start
  <2>1. UNCHANGED <<rolledBack, kills>> /\ (pc' = "down" => (pc = "down" /\ clean' = clean) \/ clean')
    BY <1>1, <1>3 DEF Next, vars, Update, BatchOpen, BatchWrite, BatchClose, CallOk, CallFail, ServerStore,
         SearchBegin, SearchStep, SearchReturn, SearchBreak, ExitBegin, StoreDelete, StorePut, ExitEnd,
         CallBreak, ServerRestart, clientVars, diskVars, envVars
  <2>2. QED
    BY <2>1, Zenon DEF Unkilled
<1>4. QED
  BY <1>2, <1>3

\* Without kills the protocol implements the index.
THEOREM IndexIsImplemented == ASSUME MaxKills = 0 PROVE Spec => ImplementsIndex
<1>1. Init => Unkilled
  BY DEF Init, Unkilled
<1>2. TypeOK /\ CleanExitKeepsMaps /\ Unkilled /\ [Next]_vars => Unkilled' /\ kills' = kills
  BY StepUnkilled
<1>3. IInv /\ SearchInv /\ OneQuery /\ Unkilled' /\ kills' = kills /\ IInv' /\ [Next]_vars
        => [Index!Next]_(Index!vars)
  BY IndexNext DEF Unkilled
<1>4. IInv => TypeOK
  BY DEF IInv, TypeInv
<1>5. QED
  BY <1>1, <1>2, <1>3, <1>4, IndexInit, OneQueryHolds, CleanExitsKeepMaps, PTL
     DEF Spec, ImplementsIndex, Index!Spec
=============================================================================
