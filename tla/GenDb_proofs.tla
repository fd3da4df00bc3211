---------------------------- MODULE GenDb_proofs ----------------------------
(***************************************************************************)
(* Theorems about GenDb, for any bounds.                                   *)
(***************************************************************************)
EXTENDS GenDb, FiniteSetTheorems, TLAPS

----------------------------------------------------------------------------
(* Invariants *)

\* The ranges TypeOK gives; the threads' shares are in TurnsInv.
RangesInv ==
  /\ N_entries \in 0..MaxEntries
  /\ n_threads \in Threads
  /\ old \in 0..MaxOld
  /\ short \in BOOLEAN
  /\ short => old > 0
  /\ main \in {"running", "returned", "crashed"}
  /\ at \in [Threads -> Steps]
  /\ turn \in [Threads -> 0..MaxEntries]
  /\ uc_mapper \in 0..(old + N_entries) \cup {Missing}
  /\ sc_mapper \in {Missing, Empty} \cup SUBSET Entries
  /\ uc \in [Threads -> 0..(old + N_entries)]
  /\ sc \in [Threads -> {Empty} \cup SUBSET Entries]
  /\ made \in SUBSET Requests
  /\ wire \in [Threads -> Seq(Requests)]
  /\ broken \in SUBSET Threads
  /\ ss_db \in [Labels -> Entries \cup {Missing}]

\* A thread's request is made, and not yet written.
InHand(t) == at[t] \in {"set_sc", "write"}

\* The requests thread t has made.
Taken(t) == turn[t] + (IF InHand(t) THEN 1 ELSE 0)

\* A thread writes its share and no more; gen_db_2 returns when all have.
TurnsInv ==
  /\ \A t \in Running : turn[t] <= Quota(t)
  /\ \A t \in Running : at[t] \notin {"next", "done"} => turn[t] < Quota(t)
  /\ \A t \in Running : at[t] = "done" => turn[t] = Quota(t)
  /\ main = "returned" => \A t \in Running : at[t] = "done"

\* Every turn makes one request; the one in hand is the one to be written.
MadeInv ==
  /\ \A r \in made : r.e[1] \in Running /\ r.e[2] \in 1..Taken(r.e[1])
  /\ \A r, s \in made : r.e = s.e => r = s
  /\ \A t \in Running : \A k \in 1..Taken(t) : \E r \in made : r.e = <<t, k>>
  /\ \A t \in Running : InHand(t) => Request(t) \in made

\* The labels have no gap and are no more than the requests; whatever a thread has
\* read of the counter, at any time, is 0 or one of them.
LabelsInv ==
  /\ \A l \in LabelsMade : 1..l \subseteq LabelsMade
  /\ \A l \in LabelsMade : l <= old + Cardinality(made)
  /\ uc_mapper # Missing => uc_mapper \in {0} \cup LabelsMade
  /\ \A t \in Threads : uc[t] \in {0} \cup LabelsMade

Elems(s) == {s[i] : i \in 1..Len(s)}

\* The label of a request is taken, or the request is in hand, on its stream, or
\* gone with it.
StoredInv ==
  /\ \A l \in 1..old : ss_db[l] # Missing
  /\ \A r \in made :
       \/ ss_db[r.l] # Missing
       \/ r.e[1] \in broken
       \/ r = Request(r.e[1]) /\ InHand(r.e[1])
       \/ r \in Elems(wire[r.e[1]])

\* The k-th request of the only thread, and the proof after n of them.
OnlyRequest(k) == [l |-> old + k, e |-> <<1, k>>]
OnlyProof(n) == IF short THEN Empty ELSE ({0} \X (1..old)) \cup ({1} \X (1..n))

\* A thread alone reads what it set: counter and proof follow its requests.
CountedInv ==
  /\ made = {OnlyRequest(k) : k \in 1..Taken(1)}
  /\ IF uc_mapper = Missing THEN old = 0 /\ Taken(1) = 0 ELSE uc_mapper = old + Taken(1)
  /\ at[1] = "insert_uc" => uc_mapper = Missing
  /\ at[1] \in {"find_sc", "insert_sc", "set_uc"} => uc_mapper # Missing
  /\ at[1] \in {"find_sc", "insert_sc", "set_uc", "set_sc", "write"} => uc[1] = old + turn[1]
  /\ IF sc_mapper = Missing THEN old = 0 /\ Taken(1) = 0
     ELSE sc_mapper = OnlyProof(IF at[1] = "set_sc" THEN turn[1] ELSE Taken(1))
  /\ at[1] = "insert_sc" => sc_mapper = Missing
  /\ at[1] \in {"set_uc", "set_sc"} => sc_mapper # Missing /\ sc[1] = OnlyProof(turn[1])

\* Its requests are stored or on the stream, as long as the stream is whole.
DeliveredInv ==
  /\ Elems(wire[1]) \subseteq made
  /\ \A t \in Threads \ {1} : wire[t] = <<>>
  /\ broken = {} =>
       \A k \in 1..turn[1] : ss_db[old + k] = <<1, k>> \/ OnlyRequest(k) \in Elems(wire[1])
  /\ at[1] = "done" => wire[1] = <<>> \/ 1 \in broken

OneInv == n_threads = 1 => CountedInv /\ DeliveredInv

IInv == RangesInv /\ TurnsInv /\ MadeInv /\ LabelsInv /\ StoredInv /\ OneInv

----------------------------------------------------------------------------
(* Sequences *)

LEMMA TailElems ==
  ASSUME NEW S, NEW s \in Seq(S), s # <<>>
  PROVE  /\ Head(s) \in S /\ Head(s) \in Elems(s)
         /\ Tail(s) \in Seq(S)
         /\ Elems(Tail(s)) \subseteq Elems(s)
         /\ \A e \in Elems(s) : e = Head(s) \/ e \in Elems(Tail(s))
<1>1. Head(s) = s[1] /\ Len(s) \in Nat \ {0} /\ Len(Tail(s)) = Len(s) - 1
  OBVIOUS
<1>2. \A i \in 1..Len(s) - 1 : Tail(s)[i] = s[i + 1]
  OBVIOUS
<1>3. \A i \in 1..Len(s) : i = 1 \/ (i - 1 \in 1..Len(s) - 1 /\ Tail(s)[i - 1] = s[i])
  BY <1>1, <1>2
<1>4. \A i \in 1..Len(s) - 1 : i + 1 \in 1..Len(s) /\ Tail(s)[i] = s[i + 1]
  BY <1>1, <1>2
<1> QED BY <1>1, <1>3, <1>4 DEF Elems

LEMMA AppendElems ==
  ASSUME NEW S, NEW s \in Seq(S), NEW e \in S
  PROVE  /\ Append(s, e) \in Seq(S)
         /\ Elems(Append(s, e)) = Elems(s) \cup {e}
<1>1. Append(s, e) \in Seq(S) /\ Len(Append(s, e)) = Len(s) + 1 /\ Len(s) \in Nat
  OBVIOUS
<1>2. \A i \in 1..Len(s) + 1 : Append(s, e)[i] = IF i = Len(s) + 1 THEN e ELSE s[i]
  OBVIOUS
<1>3. \A i \in 1..Len(s) + 1 : i = Len(s) + 1 \/ i \in 1..Len(s)
  BY <1>1
<1>4. \A i \in 1..Len(s) : i \in 1..Len(s) + 1 /\ i # Len(s) + 1
  BY <1>1
<1>5. Len(s) + 1 \in 1..Len(s) + 1
  BY <1>1
<1> QED BY <1>1, <1>2, <1>3, <1>4, <1>5 DEF Elems

LEMMA PrefixElems ==
  ASSUME NEW S, NEW s \in Seq(S), NEW n \in Nat, n <= Len(s)
  PROVE  /\ SubSeq(s, 1, n) \in Seq(S)
         /\ Elems(SubSeq(s, 1, n)) \subseteq Elems(s)
<1>1. Len(s) \in Nat /\ SubSeq(s, 1, n) \in Seq(S) /\ Len(SubSeq(s, 1, n)) = n
  OBVIOUS
<1>2. \A i \in 1..n : SubSeq(s, 1, n)[i] = s[i] /\ i \in 1..Len(s)
  BY <1>1
<1> QED BY <1>1, <1>2 DEF Elems

----------------------------------------------------------------------------
(* The shares *)

\* The entries gen_db_2 is to make.
Plan == {e \in Nat \X Nat : e[1] \in Running /\ e[2] \in 1..Quota(e[1])}

LEMMA Divided ==
  ASSUME NEW a \in Nat, NEW n \in Nat \ {0}
  PROVE  /\ a \div n \in Nat /\ a % n \in 0..(n - 1)
         /\ a = n * (a \div n) + (a % n)
<1>1. a \div n \in Nat /\ a % n \in Nat
  OBVIOUS
<1>2. a % n < n
  OBVIOUS
<1>3. a = n * (a \div n) + (a % n)
  OBVIOUS
<1> QED BY <1>1, <1>2, <1>3

LEMMA Times ==
  ASSUME NEW q \in Nat, NEW t \in Nat, NEW u \in Nat, t <= u
  PROVE  /\ t * q \in Nat /\ t * q <= u * q
         /\ (t + 1) * q = t * q + q
OBVIOUS

LEMMA Shares ==
  ASSUME N_entries \in Nat, n_threads \in Nat \ {0}
  PROVE  \A t \in Running : Quota(t) \in 0..N_entries
<1> DEFINE q == N_entries \div n_threads
           r == N_entries % n_threads
<1>1. q \in Nat /\ r \in Nat /\ N_entries = n_threads * q + r
  BY Divided
<1>2. \A t \in Running : Quota(t) = IF t < n_threads THEN q ELSE q + r
  BY DEF Quota
<1> HIDE DEF q, r
<1>3. 1 * q <= n_threads * q /\ n_threads * q \in Nat
  BY <1>1, Times
<1>4. q <= N_entries /\ q + r <= N_entries
  BY <1>1, <1>3
<1> QED BY <1>1, <1>2, <1>4

\* The shares are disjoint and add up to N_entries, however n_threads divides it.
LEMMA PlanSize ==
  ASSUME N_entries \in Nat, n_threads \in Nat \ {0}
  PROVE  IsFiniteSet(Plan) /\ Cardinality(Plan) = N_entries
<1> DEFINE q == N_entries \div n_threads
           r == N_entries % n_threads
           rest == N_entries - (n_threads - 1) * q
           pos == [e \in Plan |-> (e[1] - 1) * q + e[2]]
<1>1. q \in Nat /\ r \in Nat /\ N_entries = n_threads * q + r
  BY Divided
<1>2. \A t \in Running : Quota(t) = IF t < n_threads THEN q ELSE q + r
  BY DEF Quota
<1>h HIDE DEF q, r
<1>3. n_threads - 1 \in Nat /\ n_threads * q = (n_threads - 1) * q + q
  BY <1>1, Times
<1>4. (n_threads - 1) * q \in Nat /\ rest = q + r
  BY <1>1, <1>3, Times
<1>5. \A t \in Running : t - 1 \in Nat /\ (t - 1) * q \in Nat
  BY <1>1, Times DEF Running
<1>6. \A t \in Running : t < n_threads => (t - 1) * q + q <= (n_threads - 1) * q
  <2> SUFFICES ASSUME NEW t \in Running, t < n_threads
               PROVE  (t - 1) * q + q <= (n_threads - 1) * q
    OBVIOUS
  <2>1. t - 1 \in Nat /\ t \in Nat /\ t <= n_threads - 1
    BY DEF Running
  <2>2. t * q = (t - 1) * q + q
    BY <1>1, <2>1, Times
  <2>3. t * q <= (n_threads - 1) * q
    BY <1>1, <1>3, <2>1, Times
  <2> QED BY <2>2, <2>3
<1>7. \A e \in Plan : /\ e[1] \in Running /\ e[2] \in Nat /\ e[2] > 0
                      /\ e = <<e[1], e[2]>>
                      /\ e[1] < n_threads => e[2] <= q
                      /\ e[1] = n_threads => e[2] <= q + r
                      /\ e[1] < n_threads \/ e[1] = n_threads
  BY <1>1, <1>2 DEF Plan, Running
<1>8. \A e \in Plan : pos[e] \in 1..N_entries
  <2> SUFFICES ASSUME NEW e \in Plan
               PROVE  (e[1] - 1) * q + e[2] \in 1..N_entries
    OBVIOUS
  <2>1. (e[1] - 1) * q \in Nat /\ e[2] \in Nat /\ e[2] > 0
    BY <1>5, <1>7
  <2>2. CASE e[1] < n_threads
    BY <1>1, <1>3, <1>4, <1>6, <1>7, <2>1, <2>2
  <2>3. CASE e[1] = n_threads
    BY <1>1, <1>3, <1>4, <1>7, <2>1, <2>3
  <2> QED BY <1>7, <2>2, <2>3
<1>9. \A d, e \in Plan : d[1] < e[1] => pos[d] < pos[e]
  <2> SUFFICES ASSUME NEW d \in Plan, NEW e \in Plan, d[1] < e[1]
               PROVE  (d[1] - 1) * q + d[2] < (e[1] - 1) * q + e[2]
    OBVIOUS
  <2>1. d[1] \in Nat /\ e[1] \in Nat /\ d[1] - 1 \in Nat /\ e[1] - 1 \in Nat /\ d[1] <= e[1] - 1
    BY <1>7 DEF Running
  <2>2. d[1] * q = (d[1] - 1) * q + q
    BY <1>1, <2>1, Times
  <2>3. d[1] * q <= (e[1] - 1) * q /\ (e[1] - 1) * q \in Nat /\ (d[1] - 1) * q \in Nat
    BY <1>1, <2>1, Times
  <2>4. d[2] \in Nat /\ d[2] <= q /\ e[2] \in Nat /\ e[2] > 0
    BY <1>7, <2>1 DEF Running
  <2> QED BY <1>1, <2>2, <2>3, <2>4
<1>10. \A d, e \in Plan : pos[d] = pos[e] => d = e
  <2> SUFFICES ASSUME NEW d \in Plan, NEW e \in Plan, pos[d] = pos[e]
               PROVE  d = e
    OBVIOUS
  <2>1. pos[d] \in Nat /\ pos[e] \in Nat /\ d[1] \in Nat /\ e[1] \in Nat
    BY <1>7, <1>8 DEF Running
  <2>2. d[1] = e[1]
    BY <1>9, <2>1
  <2>3. (d[1] - 1) * q + d[2] = (d[1] - 1) * q + e[2]
    BY <2>2
  <2>4. d[2] = e[2]
    BY <1>5, <1>7, <2>3
  <2> QED BY <1>7, <2>2, <2>4
<1>11. \A m \in 1..N_entries : \E e \in Plan : pos[e] = m
  <2> SUFFICES ASSUME NEW m \in 1..N_entries
               PROVE  \E e \in Plan : (e[1] - 1) * q + e[2] = m
    OBVIOUS
  <2>1. CASE m > (n_threads - 1) * q
    <3> DEFINE k == m - (n_threads - 1) * q
    <3>1. k \in Nat /\ k > 0 /\ k <= q + r
      BY <1>1, <1>3, <1>4, <2>1
    <3>2. n_threads \in Running /\ Quota(n_threads) = q + r
      BY <1>2 DEF Running
    <3>3. <<n_threads, k>> \in Plan
      BY <1>1, <3>1, <3>2 DEF Plan
    <3>4. (n_threads - 1) * q + k = m
      BY <1>4, <3>1
    <3> QED BY <3>3, <3>4
  <2>2. CASE m <= (n_threads - 1) * q
    <3>1. q # 0
      <4>1. (n_threads - 1) * 0 = 0
        BY <1>3
      <4> QED BY <2>2, <4>1
    <3>2. m - 1 \in Nat /\ q \in Nat \ {0}
      BY <1>1, <3>1
    <3> DEFINE t == (m - 1) \div q
               k == (m - 1) % q
    <3>3. t \in Nat /\ k \in 0..(q - 1) /\ m - 1 = q * t + k
      BY <3>2, Divided
    <3> HIDE DEF t, k
    <3>4. q * t = t * q
      BY <3>2, <3>3
    <3>5. t < n_threads - 1
      <4>1. CASE n_threads - 1 <= t
        <5>1. (n_threads - 1) * q <= t * q /\ t * q \in Nat
          BY <1>1, <1>3, <3>3, <4>1, Times
        <5> QED BY <1>4, <2>2, <3>2, <3>3, <3>4, <5>1
      <4> QED BY <1>3, <3>3, <4>1
    <3>6. t + 1 \in Running /\ t + 1 < n_threads /\ k + 1 \in 1..q
      BY <1>3, <3>2, <3>3, <3>5 DEF Running
    <3>7. <<t + 1, k + 1>> \in Plan
      BY <1>2, <3>3, <3>6 DEF Plan
    <3>8. t * q + (k + 1) = m
      <4>1. t * q \in Nat
        BY <1>1, <3>3, Times
      <4> QED BY <3>2, <3>3, <3>4, <4>1
    <3>9. (t + 1) - 1 = t
      BY <3>3
    <3> QED BY <3>7, <3>8, <3>9
  <2> QED BY <1>4, <2>1, <2>2
<1>12. pos \in Bijection(Plan, 1..N_entries)
  BY <1>8, <1>10, <1>11 DEF Bijection, Injection, IsInjective, Surjection
<1>13. IsFiniteSet(1..N_entries) /\ Cardinality(1..N_entries) = N_entries
  BY FS_Interval
<1>14. pos \in Injection(Plan, 1..N_entries) /\ pos \in Surjection(Plan, 1..N_entries)
  BY <1>12 DEF Bijection
<1> QED BY <1>13, <1>14, FS_Injection

\* Requests for different entries of the plan are no more than N_entries.
LEMMA MadeSize ==
  ASSUME N_entries \in Nat, n_threads \in Nat \ {0},
         NEW M, \A r \in M : r.e \in Plan, \A r, s \in M : r.e = s.e => r = s
  PROVE  /\ IsFiniteSet(M)
         /\ Cardinality(M) \in Nat /\ Cardinality(M) <= N_entries
<1> DEFINE f == [r \in M |-> r.e]
<1>1. f \in Injection(M, Plan)
  BY DEF Injection, IsInjective
<1> QED BY <1>1, PlanSize, FS_Injection, FS_CardinalityType

----------------------------------------------------------------------------
(* The turns *)

LEMMA Base ==
  ASSUME RangesInv
  PROVE  /\ N_entries \in Nat /\ N_entries <= MaxEntries
         /\ n_threads \in Nat \ {0} /\ old \in Nat /\ old <= MaxOld
         /\ Running \subseteq Threads /\ Threads \subseteq Nat
         /\ \A t \in Threads : turn[t] \in Nat /\ at[t] \in Steps /\ Taken(t) \in Nat
         /\ \A t \in Running : Quota(t) \in 0..N_entries
<1>1. /\ N_entries \in Nat /\ N_entries <= MaxEntries
      /\ n_threads \in Nat \ {0} /\ n_threads <= MaxThreads /\ old \in Nat /\ old <= MaxOld
  BY BoundsAssumption DEF RangesInv, Threads
<1>2. Running \subseteq Threads /\ Threads \subseteq Nat
  BY <1>1, BoundsAssumption DEF Running, Threads
<1>3. \A t \in Threads : turn[t] \in Nat /\ at[t] \in Steps
  BY BoundsAssumption DEF RangesInv
<1>4. \A t \in Threads : Taken(t) \in Nat
  BY <1>3 DEF Taken
<1> QED BY <1>1, <1>2, <1>3, <1>4, Shares

\* A thread's step moves it alone.
LEMMA Moves ==
  ASSUME RangesInv, NEW t \in Threads, Step(t)
  PROVE  /\ t \in Running /\ main = "running" /\ main' = "running"
         /\ UNCHANGED <<N_entries, n_threads, old, short, broken, ss_db>>
         /\ \A u \in Threads : u # t => at'[u] = at[u] /\ turn'[u] = turn[u]
                                        /\ uc'[u] = uc[u] /\ sc'[u] = sc[u] /\ wire'[u] = wire[u]
<1>1. t \in Running /\ main = "running" /\ main' = "running"
      /\ UNCHANGED <<N_entries, n_threads, old, short, broken, ss_db>>
  BY DEF Step, FindUc, InsertUc, FindSc, InsertSc, SetUc, SetSc, Write, Finish, At, args
<1>2. \A u \in Threads : u # t => at'[u] = at[u] /\ turn'[u] = turn[u]
  BY DEF Step, FindUc, InsertUc, FindSc, InsertSc, SetUc, SetSc, Write, Finish, GoTo, RangesInv
<1>3. \A u \in Threads : u # t => uc'[u] = uc[u] /\ sc'[u] = sc[u]
  BY DEF Step, FindUc, InsertUc, FindSc, InsertSc, SetUc, SetSc, Write, Finish, locals, RangesInv
<1>4. \A u \in Threads : u # t => wire'[u] = wire[u]
  BY DEF Step, FindUc, InsertUc, FindSc, InsertSc, SetUc, SetSc, Write, Finish, RangesInv
<1> QED BY <1>1, <1>2, <1>3, <1>4

\* The steps of the threads between which a request is in hand, and the others.
LEMMA Hands ==
  ASSUME RangesInv, NEW t \in Threads, Step(t)
  PROVE  \/ SetUc(t) /\ at[t] = "set_uc" /\ at'[t] = "set_sc" /\ turn'[t] = turn[t] /\ uc'[t] = uc[t]
         \/ SetSc(t) /\ at[t] = "set_sc" /\ at'[t] = "write" /\ turn'[t] = turn[t] /\ uc'[t] = uc[t]
                     /\ made' = made
         \/ Write(t) /\ at[t] = "write" /\ at'[t] = "next" /\ turn'[t] = turn[t] + 1 /\ uc'[t] = uc[t]
                     /\ made' = made
         \/ /\ FindUc(t) \/ InsertUc(t) \/ FindSc(t) \/ InsertSc(t) \/ Finish(t)
            /\ ~InHand(t) /\ at'[t] \notin {"set_sc", "write"}
            /\ turn' = turn /\ made' = made /\ wire' = wire
<1>1. CASE SetUc(t)
  BY <1>1 DEF SetUc, At, GoTo, locals, RangesInv
<1>2. CASE SetSc(t)
  BY <1>2 DEF SetSc, At, GoTo, locals, RangesInv
<1>3. CASE Write(t)
  BY <1>3 DEF Write, At, GoTo, locals, RangesInv
<1>4. CASE FindUc(t) \/ InsertUc(t) \/ FindSc(t) \/ InsertSc(t) \/ Finish(t)
  <2>1. ~InHand(t) /\ turn' = turn /\ made' = made /\ wire' = wire
    BY <1>4 DEF FindUc, InsertUc, FindSc, InsertSc, Finish, At, InHand
  <2>2. at'[t] \notin {"set_sc", "write"}
    BY <1>4 DEF FindUc, InsertUc, FindSc, InsertSc, Finish, GoTo, RangesInv
  <2> QED BY <1>4, <2>1, <2>2
<1> QED BY <1>1, <1>2, <1>3, <1>4 DEF Step

\* The steps of the server, the network and the main thread.
Outer ==
  \/ Return
  \/ \E t \in Threads : ServerStore(t)
  \/ \E t \in Threads, n \in 0..MaxEntries : StreamBreak(t, n)
  \/ \E keep \in 0..MaxEntries : Corrupt(keep)
  \/ UNCHANGED vars

LEMMA OuterKeeps ==
  ASSUME Outer
  PROVE  UNCHANGED <<N_entries, n_threads, old, short, at, turn, uc_mapper, sc_mapper, uc, sc, made>>
BY DEF Outer, Return, ServerStore, StreamBreak, Corrupt, vars, args, mappers, locals

LEMMA InitTurns == Init => TurnsInv
<1> SUFFICES ASSUME Init
             PROVE  TurnsInv
  OBVIOUS
<1>1. N_entries \in Nat /\ n_threads \in Nat \ {0}
  BY BoundsAssumption DEF Init, Threads
<1>2. Running \subseteq Threads
  BY BoundsAssumption DEF Init, Running, Threads
<1>3. \A t \in Running : turn[t] = 0 /\ at[t] = "next"
  BY <1>2 DEF Init
<1>4. main = "running"
  BY DEF Init
<1>5. \A t \in Running : Quota(t) \in Nat
  BY <1>1, Shares
<1> QED BY <1>3, <1>4, <1>5 DEF TurnsInv

LEMMA StepTurns == RangesInv /\ TurnsInv /\ [Next]_vars => TurnsInv'
<1> SUFFICES ASSUME RangesInv, TurnsInv, [Next]_vars
             PROVE  TurnsInv'
  OBVIOUS
<1>1. ASSUME NEW t \in Threads, Step(t)
      PROVE  TurnsInv'
  <2>1. /\ t \in Running /\ main' = "running"
        /\ UNCHANGED <<N_entries, n_threads>>
        /\ \A u \in Running : u # t => at'[u] = at[u] /\ turn'[u] = turn[u]
    BY <1>1, Moves, Base
  <2>2. Running' = Running /\ \A u : Quota(u)' = Quota(u)
    BY <2>1 DEF Running, Quota
  <2>3. Quota(t) \in Nat /\ turn[t] \in Nat
    BY <2>1, Base
  <2>4. /\ turn'[t] <= Quota(t)
        /\ at'[t] \notin {"next", "done"} => turn'[t] < Quota(t)
        /\ at'[t] = "done" => turn'[t] = Quota(t)
    <3>1. CASE FindUc(t)
      BY <3>1, <2>3 DEF FindUc, More, GoTo, RangesInv
    <3>2. CASE InsertUc(t) \/ FindSc(t) \/ InsertSc(t) \/ SetUc(t) \/ SetSc(t)
      <4>1. at[t] \notin {"next", "done"} /\ at'[t] \notin {"next", "done"} /\ turn' = turn
        BY <3>2 DEF InsertUc, FindSc, InsertSc, SetUc, SetSc, At, GoTo, RangesInv
      <4> QED BY <2>1, <2>3, <4>1 DEF TurnsInv
    <3>3. CASE Write(t)
      <4>1. at[t] = "write" /\ at'[t] = "next" /\ turn'[t] = turn[t] + 1
        BY <3>3 DEF Write, At, GoTo, RangesInv
      <4> QED BY <2>1, <2>3, <4>1 DEF TurnsInv
    <3>4. CASE Finish(t)
      <4>1. at'[t] = "done" /\ turn' = turn /\ ~(turn[t] < Quota(t))
        BY <3>4 DEF Finish, More, GoTo, RangesInv
      <4> QED BY <2>1, <2>3, <4>1 DEF TurnsInv
    <3> QED BY <1>1, <3>1, <3>2, <3>3, <3>4 DEF Step
  <2> QED BY <2>1, <2>2, <2>4 DEF TurnsInv
<1>2. CASE Outer
  <2>1. UNCHANGED <<N_entries, n_threads, at, turn>>
    BY <1>2, OuterKeeps
  <2>2. Running' = Running /\ \A u : Quota(u)' = Quota(u)
    BY <2>1 DEF Running, Quota
  <2>3. main' = "returned" => \A t \in Running : at[t] = "done"
    BY <1>2 DEF Outer, Return, ServerStore, StreamBreak, Corrupt, vars, TurnsInv
  <2> QED BY <2>1, <2>2, <2>3 DEF TurnsInv
<1> QED BY <1>1, <1>2 DEF Next, Outer

----------------------------------------------------------------------------
(* The requests *)

LEMMA InitMade == Init => MadeInv
<1> SUFFICES ASSUME Init
             PROVE  MadeInv
  OBVIOUS
<1>1. Running \subseteq Threads
  BY BoundsAssumption DEF Init, Running, Threads
<1>2. \A t \in Running : turn[t] = 0 /\ ~InHand(t) /\ Taken(t) = 0
  BY <1>1 DEF Init, InHand, Taken
<1> QED BY <1>2 DEF Init, MadeInv

LEMMA EntryPair ==
  ASSUME RangesInv
  PROVE  \A r \in made : r.e = <<r.e[1], r.e[2]>> /\ r.e[1] \in Nat /\ r.e[2] \in Nat /\ r.l \in Labels
                         /\ r.e \in Entries
BY DEF RangesInv, Requests, Entries

\* The request SetUc(t) makes is new.
LEMMA NewRequest ==
  ASSUME RangesInv, MadeInv, NEW t \in Running, ~InHand(t)
  PROVE  \A r \in made : r.e # Made(t)
<1>1. Taken(t) = turn[t] /\ turn[t] \in Nat
  BY Base DEF Taken
<1> QED BY <1>1 DEF MadeInv, Made

LEMMA StepMade == RangesInv /\ TurnsInv /\ MadeInv /\ [Next]_vars => MadeInv'
<1> SUFFICES ASSUME RangesInv, TurnsInv, MadeInv, [Next]_vars
             PROVE  MadeInv'
  OBVIOUS
<1>1. ASSUME NEW t \in Threads, Step(t)
      PROVE  MadeInv'
  <2>1. /\ t \in Running /\ UNCHANGED <<N_entries, n_threads>>
        /\ \A u \in Running : u # t => at'[u] = at[u] /\ turn'[u] = turn[u] /\ uc'[u] = uc[u]
    BY <1>1, Moves, Base
  <2>2. Running' = Running
    BY <2>1 DEF Running
  <2>3. \A u \in Running : u # t => /\ Taken(u)' = Taken(u) /\ (InHand(u)' <=> InHand(u))
                                    /\ Request(u)' = Request(u)
    BY <2>1 DEF Taken, InHand, Request, Made
  <2>4. turn[t] \in Nat
    BY <2>1, Base
  <2>5. CASE SetUc(t)
    <3>1. /\ at[t] = "set_uc" /\ at'[t] = "set_sc" /\ turn'[t] = turn[t] /\ uc'[t] = uc[t]
          /\ made' = made \cup {Request(t)}
      BY <2>5 DEF SetUc, At, GoTo, locals, RangesInv
    <3>2. Taken(t) = turn[t] /\ Taken(t)' = turn[t] + 1 /\ ~InHand(t) /\ InHand(t)'
      BY <2>4, <3>1 DEF Taken, InHand
    <3>3. Request(t)' = Request(t) /\ Request(t).e = <<t, turn[t] + 1>>
      BY <3>1 DEF Request, Made
    <3>4. \A r \in made : r.e # Request(t).e
      BY <2>1, <3>2, NewRequest DEF Request
    <3>5. \A r \in made' : r.e[1] \in Running /\ r.e[2] \in 1..Taken(r.e[1])'
      <4>1. \A u \in Running : 1..Taken(u) \subseteq 1..Taken(u)'
        BY <2>3, <2>4, <3>2
      <4>2. Request(t).e[1] = t /\ Request(t).e[2] \in 1..Taken(t)'
        BY <2>4, <3>2, <3>3
      <4> QED BY <2>1, <3>1, <4>1, <4>2 DEF MadeInv
    <3>6. \A r, s \in made' : r.e = s.e => r = s
      BY <3>1, <3>4 DEF MadeInv
    <3>7. \A u \in Running : \A k \in 1..Taken(u)' : \E r \in made' : r.e = <<u, k>>
      <4>1. \A k \in 1..Taken(t)' : k \in 1..Taken(t) \/ k = turn[t] + 1
        BY <2>4, <3>2
      <4> QED BY <2>3, <3>1, <3>3, <4>1 DEF MadeInv
    <3>8. \A u \in Running : InHand(u)' => Request(u)' \in made'
      BY <2>3, <3>1, <3>3 DEF MadeInv
    <3> QED BY <2>2, <3>5, <3>6, <3>7, <3>8 DEF MadeInv
  <2>6. CASE ~SetUc(t)
    <3>1. made' = made
      BY <1>1, <2>6, Hands
    <3>2. Taken(t)' = Taken(t)
      BY <1>1, <2>4, <2>6, Hands DEF Taken, InHand
    <3>3. InHand(t)' => InHand(t) /\ Request(t)' = Request(t)
      BY <1>1, <2>6, Hands DEF InHand, Request, Made
    <3> QED BY <2>2, <2>3, <3>1, <3>2, <3>3 DEF MadeInv
  <2> QED BY <2>5, <2>6
<1>2. CASE Outer
  <2>1. UNCHANGED <<n_threads, at, turn, uc, made>>
    BY <1>2, OuterKeeps
  <2> QED BY <2>1 DEF MadeInv, Running, Taken, InHand, Request, Made
<1> QED BY <1>1, <1>2 DEF Next, Outer

\* A thread that is about to make a request has room for it in the plan.
LEMMA Room ==
  ASSUME RangesInv, TurnsInv, MadeInv
  PROVE  /\ IsFiniteSet(made)
         /\ Cardinality(made) \in Nat /\ Cardinality(made) <= N_entries
         /\ \A t \in Running : at[t] = "set_uc" =>
              /\ Request(t) \notin made
              /\ Cardinality(made \cup {Request(t)}) = Cardinality(made) + 1
              /\ Cardinality(made) + 1 <= N_entries
<1>1. N_entries \in Nat /\ n_threads \in Nat \ {0}
  BY Base
<1>2. \A t \in Running : turn[t] \in Nat /\ Quota(t) \in Nat /\ Taken(t) \in Nat /\ Taken(t) <= Quota(t)
  BY Base DEF TurnsInv, Taken, InHand
<1>3. \A r \in made : r.e \in Plan
  <2> SUFFICES ASSUME NEW r \in made
               PROVE  r.e \in Plan
    OBVIOUS
  <2>1. r.e \in Nat \X Nat /\ r.e[1] \in Running /\ r.e[2] \in 1..Taken(r.e[1])
    BY EntryPair DEF MadeInv
  <2>2. r.e[2] \in 1..Quota(r.e[1])
    BY <1>2, <2>1
  <2> QED BY <2>1, <2>2 DEF Plan
<1>4. \A r, s \in made : r.e = s.e => r = s
  BY DEF MadeInv
<1>5. IsFiniteSet(made) /\ Cardinality(made) \in Nat /\ Cardinality(made) <= N_entries
  BY <1>1, <1>3, <1>4, MadeSize
<1>6. ASSUME NEW t \in Running, at[t] = "set_uc"
      PROVE  /\ Request(t) \notin made
             /\ Cardinality(made \cup {Request(t)}) = Cardinality(made) + 1
             /\ Cardinality(made) + 1 <= N_entries
  <2> DEFINE M == made \cup {Request(t)}
  <2>1. \A r \in made : r.e # Made(t)
    BY <1>6, NewRequest DEF InHand
  <2>2. Request(t).e = Made(t)
    BY DEF Request
  <2>3. Made(t) \in Plan
    <3>1. turn[t] < Quota(t) /\ turn[t] + 1 \in 1..Quota(t)
      BY <1>2, <1>6 DEF TurnsInv
    <3>2. t \in Nat
      BY Base
    <3> QED BY <1>2, <3>1, <3>2 DEF Plan, Made
  <2>4. \A r \in M : r.e \in Plan
    BY <1>3, <2>2, <2>3
  <2>5. \A r, s \in M : r.e = s.e => r = s
    BY <1>4, <2>1, <2>2
  <2>6. Cardinality(M) \in Nat /\ Cardinality(M) <= N_entries
    BY <1>1, <2>4, <2>5, MadeSize
  <2>7. Request(t) \notin made
    BY <2>1, <2>2
  <2>8. Cardinality(M) = Cardinality(made) + 1
    BY <1>5, <2>7, FS_AddElement
  <2> QED BY <2>6, <2>7, <2>8
<1> QED BY <1>5, <1>6

----------------------------------------------------------------------------
(* The labels *)

LEMMA InitLabels == Init => LabelsInv
<1> SUFFICES ASSUME Init
             PROVE  LabelsInv
  OBVIOUS
<1>1. old \in Nat /\ made = {} /\ LabelsMade = 1..old
  BY BoundsAssumption DEF Init, LabelsMade
<1>2. Cardinality(made) = 0
  BY <1>1, FS_EmptySet
<1>3. uc_mapper # Missing => uc_mapper \in {0} \cup LabelsMade
  BY <1>1 DEF Init
<1>4. \A t \in Threads : uc[t] = 0
  BY DEF Init
<1> QED BY <1>1, <1>2, <1>3, <1>4 DEF LabelsInv

LEMMA LabelsAreNumbers ==
  ASSUME RangesInv
  PROVE  LabelsMade \subseteq Nat
BY Base DEF LabelsMade, RangesInv, Requests, Labels

LEMMA StepLabels == RangesInv /\ TurnsInv /\ MadeInv /\ LabelsInv /\ [Next]_vars => LabelsInv'
<1> SUFFICES ASSUME RangesInv, TurnsInv, MadeInv, LabelsInv, [Next]_vars
             PROVE  LabelsInv'
  OBVIOUS
<1>1. ASSUME NEW t \in Threads, SetUc(t)
      PROVE  LabelsInv'
  <2>1. /\ t \in Running /\ at[t] = "set_uc" /\ made' = made \cup {Request(t)}
        /\ uc_mapper' = uc[t] + 1 /\ old' = old /\ uc' = uc
    BY <1>1 DEF SetUc, At, args, locals
  <2>2. LabelsMade' = LabelsMade \cup {uc[t] + 1}
    <3>1. \A l : l \in LabelsMade' <=> l \in 1..old \/ \E r \in made' : l = r.l
      BY <2>1 DEF LabelsMade
    <3>2. \A l : l \in LabelsMade <=> l \in 1..old \/ \E r \in made : l = r.l
      BY DEF LabelsMade
    <3>3. Request(t).l = uc[t] + 1
      BY DEF Request
    <3> QED BY <2>1, <3>1, <3>2, <3>3
  <2>3. /\ Cardinality(made') = Cardinality(made) + 1
        /\ Cardinality(made) \in Nat /\ old \in Nat /\ uc[t] \in Nat /\ LabelsMade \subseteq Nat
    BY <2>1, Room, Base, LabelsAreNumbers DEF LabelsInv
  <2>4. 1..uc[t] \subseteq LabelsMade /\ uc[t] <= old + Cardinality(made)
    BY <2>3 DEF LabelsInv
  <2>5. 1..(uc[t] + 1) \subseteq LabelsMade'
    BY <2>2, <2>3, <2>4
  <2>6. \A l \in LabelsMade' : 1..l \subseteq LabelsMade'
    BY <2>2, <2>5 DEF LabelsInv
  <2>7. \A l \in LabelsMade' : l <= old' + Cardinality(made')
    <3>1. \A l \in LabelsMade : l \in Nat /\ l <= old + Cardinality(made)
      BY <2>3 DEF LabelsInv
    <3> QED BY <2>1, <2>2, <2>3, <2>4, <3>1
  <2>8. uc_mapper' \in LabelsMade' /\ \A u \in Threads : uc'[u] \in {0} \cup LabelsMade'
    BY <2>1, <2>2 DEF LabelsInv
  <2> QED BY <2>6, <2>7, <2>8 DEF LabelsInv
<1>2. ASSUME NEW t \in Threads, Step(t), ~SetUc(t)
      PROVE  LabelsInv'
  <2>1. made' = made /\ old' = old
    BY <1>2, Hands, Moves
  <2>2. LabelsMade' = LabelsMade /\ Cardinality(made') = Cardinality(made)
    BY <2>1 DEF LabelsMade
  <2>3. uc_mapper' = uc_mapper \/ uc_mapper' = 0
    BY <1>2 DEF Step, FindUc, InsertUc, FindSc, InsertSc, SetSc, Write, Finish, mappers
  <2>4. uc'[t] \in {0} \cup LabelsMade
    BY <1>2 DEF Step, FindUc, InsertUc, FindSc, InsertSc, SetSc, Write, Finish, locals, LabelsInv, RangesInv
  <2>5. \A u \in Threads : u # t => uc'[u] = uc[u]
    BY <1>2, Moves
  <2>6. \A u \in Threads : uc'[u] \in {0} \cup LabelsMade
    BY <2>4, <2>5 DEF LabelsInv
  <2> QED BY <2>1, <2>2, <2>3, <2>6 DEF LabelsInv
<1>3. CASE Outer
  BY <1>3, OuterKeeps DEF LabelsInv, LabelsMade
<1> QED BY <1>1, <1>2, <1>3 DEF Next, Outer

----------------------------------------------------------------------------
(* The ranges *)

LEMMA InitRanges == Init => RangesInv
<1> SUFFICES ASSUME Init
             PROVE  RangesInv
  OBVIOUS
<1>1. old \in Nat /\ old <= MaxOld /\ N_entries \in Nat
  BY BoundsAssumption DEF Init
<1>2. 1..old \subseteq 1..(MaxOld + MaxEntries) /\ 0 \in 0..MaxThreads /\ Labels = 1..(MaxOld + MaxEntries)
  BY <1>1, BoundsAssumption DEF Labels
<1>3. {0} \X (1..old) \subseteq Entries
  BY <1>2 DEF Entries
<1>4. sc_mapper \in {Missing, Empty} \cup SUBSET Entries
  BY <1>3 DEF Init, OldProof
<1>5. uc_mapper \in 0..(old + N_entries) \cup {Missing}
  BY <1>1 DEF Init
<1>6. \A l \in Labels : l <= old => <<0, l>> \in Entries
  BY <1>2 DEF Entries
<1>7. ss_db \in [Labels -> Entries \cup {Missing}]
  BY <1>6 DEF Init
<1>8. uc \in [Threads -> 0..(old + N_entries)] /\ turn \in [Threads -> 0..MaxEntries]
  BY <1>1, BoundsAssumption DEF Init
<1>9. wire \in [Threads -> Seq(Requests)] /\ sc \in [Threads -> {Empty} \cup SUBSET Entries] /\ at \in [Threads -> Steps]
  BY DEF Init, Steps
<1> QED BY <1>4, <1>5, <1>7, <1>8, <1>9 DEF Init, RangesInv

LEMMA StepRanges == RangesInv /\ TurnsInv /\ MadeInv /\ LabelsInv /\ [Next]_vars => RangesInv'
<1> SUFFICES ASSUME RangesInv, TurnsInv, MadeInv, LabelsInv, [Next]_vars
             PROVE  RangesInv'
  OBVIOUS
<1>0. /\ N_entries \in Nat /\ N_entries <= MaxEntries /\ old \in Nat /\ old <= MaxOld
      /\ Cardinality(made) \in Nat
  BY Base, Room
<1>1. ASSUME NEW t \in Threads, FindUc(t) \/ InsertUc(t) \/ FindSc(t) \/ InsertSc(t) \/ Finish(t)
      PROVE  RangesInv'
  <2>1. at' \in [Threads -> Steps]
    BY <1>1 DEF FindUc, InsertUc, FindSc, InsertSc, Finish, GoTo, Steps, RangesInv
  <2>2. uc' \in [Threads -> 0..(old + N_entries)] /\ uc_mapper' \in 0..(old + N_entries) \cup {Missing}
    <3>1. 0 \in 0..(old + N_entries)
      BY <1>0
    <3>2. CASE FindUc(t)
      BY <3>2 DEF FindUc, mappers, RangesInv
    <3>3. CASE InsertUc(t)
      BY <3>1, <3>3 DEF InsertUc, RangesInv
    <3>4. CASE FindSc(t) \/ InsertSc(t) \/ Finish(t)
      BY <3>4 DEF FindSc, InsertSc, Finish, locals, mappers, RangesInv
    <3> QED BY <1>1, <3>2, <3>3, <3>4
  <2>3. sc' \in [Threads -> {Empty} \cup SUBSET Entries] /\ sc_mapper' \in {Missing, Empty} \cup SUBSET Entries
    BY <1>1 DEF FindUc, InsertUc, FindSc, InsertSc, Finish, locals, mappers, RangesInv
  <2>4. UNCHANGED <<args, main, turn, made, wire, broken, ss_db>>
    BY <1>1 DEF FindUc, InsertUc, FindSc, InsertSc, Finish
  <2> QED BY <2>1, <2>2, <2>3, <2>4 DEF RangesInv, args
<1>2. ASSUME NEW t \in Threads, SetUc(t)
      PROVE  RangesInv'
  <2>1. /\ t \in Running /\ at[t] = "set_uc" /\ made' = made \cup {Request(t)}
        /\ uc_mapper' = uc[t] + 1
        /\ UNCHANGED <<args, main, turn, sc_mapper, locals, wire, broken, ss_db>>
    BY <1>2 DEF SetUc, At
  <2>2. uc[t] \in Nat /\ uc[t] + 1 <= old + N_entries
    <3>1. uc[t] \in Nat /\ uc[t] <= old + Cardinality(made)
      BY <1>0, <2>1, LabelsAreNumbers DEF LabelsInv
    <3>2. Cardinality(made) + 1 <= N_entries
      BY <2>1, Room
    <3> QED BY <1>0, <3>1, <3>2
  <2>3. Made(t) \in Entries
    <3>1. turn[t] \in Nat /\ turn[t] < Quota(t) /\ Quota(t) \in Nat /\ Quota(t) <= N_entries
      BY <2>1, Base DEF TurnsInv
    <3>2. t \in 0..MaxThreads /\ turn[t] + 1 \in 1..(MaxOld + MaxEntries)
      BY <1>0, <3>1, BoundsAssumption DEF Threads
    <3> QED BY <3>2 DEF Made, Entries
  <2>4. Request(t) \in Requests
    <3>1. uc[t] + 1 \in Labels
      BY <1>0, <2>2, BoundsAssumption DEF Labels
    <3> QED BY <2>3, <3>1 DEF Request, Requests
  <2>5. at' \in [Threads -> Steps]
    BY <1>2 DEF SetUc, GoTo, Steps, RangesInv
  <2>6. uc_mapper' \in 0..(old + N_entries)
    BY <1>0, <2>1, <2>2
  <2>7. made' \in SUBSET Requests
    BY <2>1, <2>4 DEF RangesInv
  <2> QED BY <2>1, <2>5, <2>6, <2>7 DEF RangesInv, args, locals
<1>3. ASSUME NEW t \in Threads, SetSc(t)
      PROVE  RangesInv'
  <2>1. /\ t \in Running /\ at[t] = "set_sc" /\ sc_mapper' = IF sc[t] = Empty THEN Empty ELSE sc[t] \cup {Made(t)}
        /\ UNCHANGED <<args, main, turn, uc_mapper, locals, made, wire, broken, ss_db>>
    BY <1>3 DEF SetSc, At
  <2>2. Made(t) \in Entries
    <3>1. Request(t) \in Requests
      BY <2>1 DEF MadeInv, InHand, RangesInv
    <3> QED BY <3>1 DEF Request, Requests
  <2>3. at' \in [Threads -> Steps]
    BY <1>3 DEF SetSc, GoTo, Steps, RangesInv
  <2>4. sc_mapper' \in {Missing, Empty} \cup SUBSET Entries
    BY <2>1, <2>2 DEF RangesInv
  <2> QED BY <2>1, <2>3, <2>4 DEF RangesInv, args, locals
<1>4. ASSUME NEW t \in Threads, Write(t)
      PROVE  RangesInv'
  <2>1. /\ t \in Running /\ at[t] = "write"
        /\ wire' = IF t \in broken THEN wire ELSE [wire EXCEPT ![t] = Append(@, Request(t))]
        /\ turn' = [turn EXCEPT ![t] = @ + 1]
        /\ UNCHANGED <<args, main, mappers, locals, made, broken, ss_db>>
    BY <1>4 DEF Write, At
  <2>2. Request(t) \in Requests
    BY <2>1 DEF MadeInv, InHand, RangesInv
  <2>3. wire' \in [Threads -> Seq(Requests)]
    <3>1. Append(wire[t], Request(t)) \in Seq(Requests)
      BY <2>2 DEF RangesInv
    <3> QED BY <2>1, <3>1 DEF RangesInv
  <2>4. turn' \in [Threads -> 0..MaxEntries]
    <3>1. turn[t] \in Nat /\ turn[t] < Quota(t) /\ Quota(t) \in Nat /\ Quota(t) <= N_entries
      BY <2>1, Base DEF TurnsInv
    <3>2. turn[t] + 1 \in 0..MaxEntries
      BY <1>0, <3>1, BoundsAssumption
    <3> QED BY <2>1, <3>2 DEF RangesInv
  <2>5. at' \in [Threads -> Steps]
    BY <1>4 DEF Write, GoTo, Steps, RangesInv
  <2> QED BY <2>1, <2>3, <2>4, <2>5 DEF RangesInv, args, locals, mappers
<1>5. CASE Return
  BY <1>5 DEF Return, RangesInv, args, locals, mappers
<1>6. ASSUME NEW t \in Threads, ServerStore(t)
      PROVE  RangesInv'
  <2>1. Head(wire[t]) \in Requests /\ Tail(wire[t]) \in Seq(Requests)
    BY <1>6, TailElems DEF ServerStore, RangesInv
  <2> QED BY <1>6, <2>1 DEF ServerStore, RangesInv, Requests, args, locals, mappers
<1>7. ASSUME NEW t \in Threads, NEW n \in 0..MaxEntries, StreamBreak(t, n)
      PROVE  RangesInv'
  <2>1. SubSeq(wire[t], 1, n) \in Seq(Requests)
    BY <1>7, PrefixElems, BoundsAssumption DEF StreamBreak, RangesInv
  <2> QED BY <1>7, <2>1 DEF StreamBreak, RangesInv, args, locals, mappers
<1>8. ASSUME NEW keep \in 0..MaxEntries, Corrupt(keep)
      PROVE  RangesInv'
  <2>1. \A t \in Threads : keep < Len(wire[t]) => SubSeq(wire[t], 1, keep) \in Seq(Requests)
    BY PrefixElems, BoundsAssumption DEF RangesInv
  <2>2. wire' \in [Threads -> Seq(Requests)]
    BY <1>8, <2>1 DEF Corrupt, RangesInv
  <2>3. broken' \in SUBSET Threads /\ main' = "crashed"
    BY <1>8, Base DEF Corrupt, RangesInv
  <2> QED BY <1>8, <2>2, <2>3 DEF Corrupt, RangesInv, args, locals, mappers
<1>9. CASE UNCHANGED vars
  BY <1>9 DEF vars, RangesInv, args, locals, mappers
<1> QED BY <1>1, <1>2, <1>3, <1>4, <1>5, <1>6, <1>7, <1>8, <1>9 DEF Next, Step

----------------------------------------------------------------------------
(* What is stored *)

LEMMA InitStored == Init => StoredInv
<1> SUFFICES ASSUME Init
             PROVE  StoredInv
  OBVIOUS
<1>1. \A l \in 1..old : l \in Labels /\ l <= old
  BY BoundsAssumption DEF Init, Labels
<1>2. \A l \in 1..old : <<0, l>> \in Entries
  BY <1>1, BoundsAssumption DEF Entries, Labels
<1>3. \A l \in 1..old : ss_db[l] # Missing
  BY <1>1, <1>2, MissingAssumption DEF Init
<1> QED BY <1>3 DEF Init, StoredInv

LEMMA StepStored == RangesInv /\ MadeInv /\ StoredInv /\ [Next]_vars => StoredInv'
<1> SUFFICES ASSUME RangesInv, MadeInv, StoredInv, [Next]_vars
             PROVE  StoredInv'
  OBVIOUS
<1>0. \A r \in made : r.e[1] \in Running /\ r.e[1] \in Threads /\ r.l \in Labels
  BY Base, EntryPair DEF MadeInv
<1>1. ASSUME NEW t \in Threads, Step(t)
      PROVE  StoredInv'
  <2>1. /\ t \in Running /\ UNCHANGED <<old, broken, ss_db>>
        /\ \A u \in Threads : u # t => at'[u] = at[u] /\ turn'[u] = turn[u] /\ uc'[u] = uc[u]
                                       /\ wire'[u] = wire[u]
    BY <1>1, Moves
  <2>2. \A u \in Threads : u # t => (InHand(u)' <=> InHand(u)) /\ Request(u)' = Request(u)
    BY <2>1 DEF InHand, Request, Made
  <2>3. CASE SetUc(t)
    <3>1. /\ at'[t] = "set_sc" /\ turn'[t] = turn[t] /\ uc'[t] = uc[t] /\ ~InHand(t)
          /\ made' = made \cup {Request(t)} /\ wire' = wire
      BY <2>3 DEF SetUc, At, GoTo, locals, RangesInv, InHand
    <3>2. Request(t)' = Request(t) /\ Request(t).e[1] = t /\ InHand(t)'
      BY <3>1 DEF Request, Made, InHand
    <3> QED BY <1>0, <2>1, <2>2, <3>1, <3>2 DEF StoredInv
  <2>4. CASE Write(t)
    <3>1. /\ at[t] = "write" /\ made' = made
          /\ wire' = IF t \in broken THEN wire ELSE [wire EXCEPT ![t] = Append(@, Request(t))]
      BY <2>4 DEF Write, At
    <3>2. Request(t) \in Requests
      BY <2>1, <3>1 DEF MadeInv, InHand, RangesInv
    <3>3. t \notin broken => Elems(wire'[t]) = Elems(wire[t]) \cup {Request(t)}
      BY <3>1, <3>2, AppendElems DEF RangesInv
    <3>4. \A r \in made : r.e[1] = t /\ t \notin broken =>
            (r \in Elems(wire[t]) \/ r = Request(t) => r \in Elems(wire'[t]))
      BY <3>3
    <3> QED BY <1>0, <2>1, <2>2, <3>1, <3>4 DEF StoredInv
  <2>5. CASE ~SetUc(t) /\ ~Write(t)
    <3>1. made' = made /\ wire' = wire /\ (InHand(t) => InHand(t)' /\ Request(t)' = Request(t))
      <4>1. made' = made /\ (InHand(t) => InHand(t)' /\ Request(t)' = Request(t))
        BY <1>1, <2>5, Hands DEF InHand, Request, Made
      <4>2. wire' = wire
        BY <1>1, <2>5 DEF Step, FindUc, InsertUc, FindSc, InsertSc, SetSc, Finish
      <4> QED BY <4>1, <4>2
    <3> QED BY <1>0, <2>1, <2>2, <3>1 DEF StoredInv
  <2> QED BY <2>3, <2>4, <2>5
<1>2. ASSUME NEW t \in Threads, ServerStore(t)
      PROVE  StoredInv'
  <2> DEFINE h == Head(wire[t])
  <2>1. /\ wire[t] \in Seq(Requests) /\ wire[t] # <<>>
        /\ ss_db' = [ss_db EXCEPT ![h.l] = h.e] /\ wire' = [wire EXCEPT ![t] = Tail(@)]
        /\ UNCHANGED <<old, at, turn, uc, made, broken>>
    BY <1>2 DEF ServerStore, RangesInv, args, locals
  <2>2. h \in Requests /\ \A r \in Elems(wire[t]) : r = h \/ r \in Elems(Tail(wire[t]))
    BY <2>1, TailElems
  <2>3. h.l \in Labels /\ h.e # Missing
    BY <2>2, MissingAssumption DEF Requests
  <2> HIDE DEF h
  <2>4. ss_db'[h.l] # Missing /\ \A l \in Labels : ss_db[l] # Missing => ss_db'[l] # Missing
    BY <2>1, <2>3 DEF RangesInv
  <2>5. \A r \in made : r \in Elems(wire[r.e[1]]) =>
                          r \in Elems(wire'[r.e[1]]) \/ ss_db'[r.l] # Missing
    <3>1. \A u \in Threads : wire'[u] = IF u = t THEN Tail(wire[t]) ELSE wire[u]
      BY <2>1 DEF RangesInv
    <3> QED BY <1>0, <2>2, <2>4, <3>1
  <2>6. 1..old \subseteq Labels
    BY Base, BoundsAssumption DEF Labels
  <2>7. \A u : (InHand(u)' <=> InHand(u)) /\ Request(u)' = Request(u)
    BY <2>1 DEF InHand, Request, Made
  <2> QED BY <1>0, <2>1, <2>4, <2>5, <2>6, <2>7 DEF StoredInv
<1>3. ASSUME NEW t \in Threads, NEW n \in 0..MaxEntries, StreamBreak(t, n)
      PROVE  StoredInv'
  <2>1. /\ broken' = broken \cup {t} /\ wire' = [wire EXCEPT ![t] = SubSeq(@, 1, n)]
        /\ UNCHANGED <<old, at, turn, uc, made, ss_db>>
    BY <1>3 DEF StreamBreak, args, locals
  <2>2. \A u \in Threads : u # t => wire'[u] = wire[u]
    BY <2>1 DEF RangesInv
  <2> QED BY <1>0, <2>1, <2>2 DEF StoredInv, InHand, Request, Made
<1>4. ASSUME NEW keep \in 0..MaxEntries, Corrupt(keep)
      PROVE  StoredInv'
  <2>1. broken' = broken \cup Running /\ UNCHANGED <<old, made, ss_db>>
    BY <1>4 DEF Corrupt, args
  <2> QED BY <1>0, <2>1 DEF StoredInv
<1>5. CASE Return \/ UNCHANGED vars
  <2>1. UNCHANGED <<old, at, turn, uc, made, wire, broken, ss_db>>
    BY <1>5 DEF Return, vars, args, locals
  <2> QED BY <2>1 DEF StoredInv, InHand, Request, Made
<1> QED BY <1>1, <1>2, <1>3, <1>4, <1>5 DEF Next

----------------------------------------------------------------------------
(* One thread *)

LEMMA InitOne == Init => OneInv
<1> SUFFICES ASSUME Init, n_threads = 1
             PROVE  OneInv
  BY DEF OneInv
<1>1. 1 \in Threads /\ old \in Nat
  BY BoundsAssumption DEF Init, Threads
<1>2. at[1] = "next" /\ turn[1] = 0 /\ Taken(1) = 0
  BY <1>1 DEF Init, Taken, InHand
<1>3. OnlyProof(0) = OldProof
  BY DEF OnlyProof, OldProof
<1>4. {OnlyRequest(k) : k \in 1..Taken(1)} = {}
  BY <1>2
<1>5. Elems(wire[1]) = {}
  BY <1>1 DEF Init, Elems
<1>6. uc_mapper = Missing => old = 0
  BY <1>1, MissingAssumption DEF Init
<1>7. uc_mapper # Missing => uc_mapper = old + Taken(1)
  BY <1>1, <1>2 DEF Init
<1>8. sc_mapper = Missing => old = 0
  <2>1. {0} \X (1..old) \in SUBSET Entries
    BY BoundsAssumption DEF Init, Entries
  <2> QED BY <2>1, MissingAssumption DEF Init, OldProof
<1>9. sc_mapper # Missing => sc_mapper = OnlyProof(0)
  BY <1>3 DEF Init
<1>10. made = {} /\ \A t \in Threads : wire[t] = <<>>
  BY DEF Init
<1> QED BY <1>2, <1>4, <1>5, <1>6, <1>7, <1>8, <1>9, <1>10 DEF OneInv, CountedInv, DeliveredInv

LEMMA OneMore ==
  ASSUME NEW n \in Nat
  PROVE  /\ 1..(n + 1) = (1..n) \cup {n + 1}
         /\ OnlyProof(n + 1) = IF short THEN Empty ELSE OnlyProof(n) \cup {<<1, n + 1>>}
         /\ {OnlyRequest(k) : k \in 1..(n + 1)} = {OnlyRequest(k) : k \in 1..n} \cup {OnlyRequest(n + 1)}
<1>1. 1..(n + 1) = (1..n) \cup {n + 1}
  OBVIOUS
<1>2. {1} \X (1..(n + 1)) = ({1} \X (1..n)) \cup {<<1, n + 1>>}
  BY <1>1
<1> QED BY <1>1, <1>2 DEF OnlyProof

LEMMA StepCounted ==
  RangesInv /\ TurnsInv /\ MadeInv /\ n_threads = 1 /\ CountedInv /\ [Next]_vars => CountedInv'
<1> SUFFICES ASSUME RangesInv, TurnsInv, MadeInv, n_threads = 1, CountedInv, [Next]_vars
             PROVE  CountedInv'
  OBVIOUS
<1>0. /\ Running = {1} /\ 1 \in Threads /\ old \in Nat /\ turn[1] \in Nat
      /\ at \in [Threads -> Steps] /\ uc \in [Threads -> 0..(old + N_entries)]
      /\ sc \in [Threads -> {Empty} \cup SUBSET Entries] /\ turn \in [Threads -> 0..MaxEntries]
  BY Base DEF Running, RangesInv
<1>1. ASSUME NEW t \in Threads, Step(t)
      PROVE  CountedInv'
  <2>0. t = 1 /\ old' = old /\ short' = short
    BY <1>0, <1>1, Moves
  <2>1. t = 1 /\ old' = old /\ \A n : OnlyProof(n)' = OnlyProof(n) /\ OnlyRequest(n)' = OnlyRequest(n)
    BY <2>0 DEF OnlyProof, OnlyRequest
  <2>2. CASE FindUc(1)
    <3>1. /\ at[1] = "next" /\ turn' = turn /\ made' = made /\ sc_mapper' = sc_mapper /\ uc_mapper' = uc_mapper
          /\ IF uc_mapper = Missing THEN at'[1] = "insert_uc"
                                    ELSE at'[1] = "find_sc" /\ uc'[1] = uc_mapper
      BY <1>0, <2>2 DEF FindUc, At, GoTo, mappers
    <3>2. Taken(1) = turn[1] /\ Taken(1)' = turn[1] /\ turn'[1] = turn[1]
      BY <1>0, <3>1 DEF Taken, InHand
    <3> QED BY <2>1, <3>1, <3>2 DEF CountedInv
  <2>3. CASE InsertUc(1)
    <3>1. /\ at[1] = "insert_uc" /\ at'[1] = "find_sc" /\ turn' = turn /\ made' = made
          /\ sc_mapper' = sc_mapper /\ uc_mapper' = 0 /\ uc'[1] = 0
      BY <1>0, <2>3 DEF InsertUc, At, GoTo
    <3>2. Taken(1) = turn[1] /\ Taken(1)' = turn[1] /\ turn'[1] = turn[1]
      BY <1>0, <3>1 DEF Taken, InHand
    <3>3. old = 0 /\ turn[1] = 0
      BY <3>1, <3>2 DEF CountedInv
    <3>4. 0 # Missing
      BY MissingAssumption
    <3> QED BY <2>1, <3>1, <3>2, <3>3, <3>4 DEF CountedInv
  <2>4. CASE FindSc(1)
    <3>1. /\ at[1] = "find_sc" /\ turn' = turn /\ made' = made /\ uc' = uc
          /\ sc_mapper' = sc_mapper /\ uc_mapper' = uc_mapper
          /\ IF sc_mapper = Missing THEN at'[1] = "insert_sc"
                                    ELSE at'[1] = "set_uc" /\ sc'[1] = sc_mapper
      BY <1>0, <2>4 DEF FindSc, At, GoTo, mappers
    <3>2. Taken(1) = turn[1] /\ Taken(1)' = turn[1] /\ turn'[1] = turn[1]
      BY <1>0, <3>1 DEF Taken, InHand
    <3> QED BY <2>1, <3>1, <3>2 DEF CountedInv
  <2>5. CASE InsertSc(1)
    <3>1. /\ at[1] = "insert_sc" /\ at'[1] = "set_uc" /\ turn' = turn /\ made' = made /\ uc' = uc
          /\ sc_mapper' = {} /\ uc_mapper' = uc_mapper /\ sc'[1] = {}
      BY <1>0, <2>5 DEF InsertSc, At, GoTo
    <3>2. Taken(1) = turn[1] /\ Taken(1)' = turn[1] /\ turn'[1] = turn[1]
      BY <1>0, <3>1 DEF Taken, InHand
    <3>3. old = 0 /\ turn[1] = 0
      BY <3>1, <3>2 DEF CountedInv
    <3>4. {} # Missing /\ OnlyProof(0) = {}
      <4>1. {} \in SUBSET Entries
        OBVIOUS
      <4>2. ~short
        BY <3>3 DEF RangesInv
      <4> QED BY <3>3, <4>1, <4>2, MissingAssumption DEF OnlyProof
    <3> QED BY <2>1, <3>1, <3>2, <3>3, <3>4 DEF CountedInv
  <2>6. CASE SetUc(1)
    <3>1. /\ at[1] = "set_uc" /\ at'[1] = "set_sc" /\ turn' = turn /\ made' = made \cup {Request(1)}
          /\ uc' = uc /\ sc' = sc /\ sc_mapper' = sc_mapper /\ uc_mapper' = uc[1] + 1
      BY <1>0, <2>6 DEF SetUc, At, GoTo, locals
    <3>2. Taken(1) = turn[1] /\ Taken(1)' = turn[1] + 1 /\ turn'[1] = turn[1]
      BY <1>0, <3>1 DEF Taken, InHand
    <3>3. uc[1] = old + turn[1] /\ sc[1] = OnlyProof(turn[1]) /\ sc_mapper # Missing
      BY <3>1 DEF CountedInv
    <3>4. uc_mapper' = old + (turn[1] + 1) /\ uc_mapper' # Missing
      BY <1>0, <3>1, <3>3, MissingAssumption
    <3>5. Request(1) = OnlyRequest(turn[1] + 1)
      BY <1>0, <3>3 DEF Request, Made, OnlyRequest
    <3>6. made' = {OnlyRequest(k) : k \in 1..(turn[1] + 1)}
      BY <1>0, <3>1, <3>2, <3>5, OneMore DEF CountedInv
    <3>7. sc_mapper = OnlyProof(turn[1])
      BY <3>1, <3>2, <3>3 DEF CountedInv
    <3> QED BY <2>1, <3>1, <3>2, <3>3, <3>4, <3>6, <3>7 DEF CountedInv
  <2>7. CASE SetSc(1)
    <3>1. /\ at[1] = "set_sc" /\ at'[1] = "write" /\ turn' = turn /\ made' = made
          /\ uc' = uc /\ sc' = sc /\ uc_mapper' = uc_mapper
          /\ sc_mapper' = IF sc[1] = Empty THEN Empty ELSE sc[1] \cup {<<1, turn[1] + 1>>}
      BY <1>0, <2>7 DEF SetSc, At, GoTo, locals, Made
    <3>2. Taken(1) = turn[1] + 1 /\ Taken(1)' = turn[1] + 1 /\ turn'[1] = turn[1]
      BY <1>0, <3>1 DEF Taken, InHand
    <3>3. sc_mapper' = OnlyProof(turn[1] + 1)
      <4>1. sc[1] = OnlyProof(turn[1])
        BY <3>1 DEF CountedInv
      <4>2. short <=> sc[1] = Empty
        <5>1. Request(1) \in Requests
          BY <1>0, <3>1 DEF MadeInv, InHand, RangesInv
        <5>2. {0} \X (1..old) \subseteq Entries
          BY BoundsAssumption DEF RangesInv, Entries
        <5>3. {1} \X (1..turn[1]) \subseteq Entries
          <6>1. turn[1] + 1 \in 1..(MaxOld + MaxEntries)
            BY <5>1 DEF Request, Requests, Made, Entries
          <6> QED BY <1>0, <6>1, BoundsAssumption DEF Entries, Threads
        <5>4. ({0} \X (1..old)) \cup ({1} \X (1..turn[1])) \in SUBSET Entries
          BY <5>2, <5>3
        <5> QED BY <4>1, <5>4, MissingAssumption DEF OnlyProof
      <4> QED BY <1>0, <3>1, <4>1, <4>2, OneMore
    <3>4. sc_mapper' # Missing
      <4>1. Request(1) \in Requests
        BY <1>0, <3>1 DEF MadeInv, InHand, RangesInv
      <4>2. <<1, turn[1] + 1>> \in Entries
        BY <4>1 DEF Request, Requests, Made
      <4>3. sc_mapper' \in {Empty} \cup SUBSET Entries
        BY <1>0, <3>1, <4>2
      <4> QED BY <4>3, MissingAssumption
    <3>5. uc_mapper # Missing /\ uc_mapper = old + (turn[1] + 1) /\ uc[1] = old + turn[1]
      BY <1>0, <3>1, <3>2 DEF CountedInv
    <3> QED BY <2>1, <3>1, <3>2, <3>3, <3>4, <3>5 DEF CountedInv
  <2>8. CASE Write(1)
    <3>1. /\ at[1] = "write" /\ at'[1] = "next" /\ turn'[1] = turn[1] + 1 /\ made' = made
          /\ sc_mapper' = sc_mapper /\ uc_mapper' = uc_mapper
      BY <1>0, <2>8 DEF Write, At, GoTo, mappers
    <3>2. Taken(1) = turn[1] + 1 /\ Taken(1)' = turn[1] + 1
      BY <1>0, <3>1 DEF Taken, InHand
    <3> QED BY <2>1, <3>1, <3>2 DEF CountedInv
  <2>9. CASE Finish(1)
    <3>1. /\ at[1] = "next" /\ at'[1] = "done" /\ turn' = turn /\ made' = made
          /\ sc_mapper' = sc_mapper /\ uc_mapper' = uc_mapper
      BY <1>0, <2>9 DEF Finish, At, GoTo, mappers
    <3>2. Taken(1) = turn[1] /\ Taken(1)' = turn[1] /\ turn'[1] = turn[1]
      BY <1>0, <3>1 DEF Taken, InHand
    <3> QED BY <2>1, <3>1, <3>2 DEF CountedInv
  <2> QED BY <1>1, <2>1, <2>2, <2>3, <2>4, <2>5, <2>6, <2>7, <2>8, <2>9 DEF Step
<1>2. CASE Outer
  <2>1. UNCHANGED <<old, short, at, turn, uc_mapper, sc_mapper, uc, sc, made>>
    BY <1>2, OuterKeeps
  <2> QED BY <2>1 DEF CountedInv, Taken, InHand, OnlyRequest, OnlyProof
<1> QED BY <1>1, <1>2 DEF Next, Outer

LEMMA StepDelivered ==
  RangesInv /\ TurnsInv /\ MadeInv /\ n_threads = 1 /\ CountedInv /\ DeliveredInv /\ [Next]_vars
    => DeliveredInv'
<1> SUFFICES ASSUME RangesInv, TurnsInv, MadeInv, n_threads = 1, CountedInv, DeliveredInv, [Next]_vars
             PROVE  DeliveredInv'
  OBVIOUS
<1>0. /\ Running = {1} /\ 1 \in Threads /\ old \in Nat /\ turn[1] \in Nat
      /\ at \in [Threads -> Steps] /\ turn \in [Threads -> 0..MaxEntries]
      /\ wire \in [Threads -> Seq(Requests)] /\ wire[1] \in Seq(Requests)
      /\ ss_db \in [Labels -> Entries \cup {Missing}]
  BY Base DEF Running, RangesInv
<1>1. ASSUME NEW t \in Threads, Step(t)
      PROVE  DeliveredInv'
  <2>1. /\ t = 1 /\ UNCHANGED <<old, broken, ss_db>>
        /\ \A u \in Threads \ {1} : wire'[u] = wire[u]
        /\ \A n : OnlyRequest(n)' = OnlyRequest(n)
    BY <1>0, <1>1, Moves DEF OnlyRequest
  <2>2. CASE Write(1)
    <3>1. /\ at[1] = "write" /\ at'[1] = "next" /\ turn'[1] = turn[1] + 1 /\ made' = made
          /\ wire' = IF 1 \in broken THEN wire ELSE [wire EXCEPT ![1] = Append(@, Request(1))]
      BY <1>0, <2>2 DEF Write, At, GoTo
    <3>2. Request(1) \in made /\ Request(1) \in Requests
      BY <1>0, <3>1 DEF MadeInv, InHand, RangesInv
    <3>3. Request(1) = OnlyRequest(turn[1] + 1)
      <4>1. uc[1] + 1 = old + (turn[1] + 1)
        BY <1>0, <3>1 DEF CountedInv
      <4> QED BY <4>1 DEF Request, Made, OnlyRequest
    <3>4. Elems(wire'[1]) = IF 1 \in broken THEN Elems(wire[1]) ELSE Elems(wire[1]) \cup {Request(1)}
      <4>1. CASE 1 \in broken
        BY <3>1, <4>1
      <4>2. CASE 1 \notin broken
        <5>1. wire'[1] = Append(wire[1], Request(1))
          BY <1>0, <3>1, <4>2
        <5>2. Elems(Append(wire[1], Request(1))) = Elems(wire[1]) \cup {Request(1)}
          BY <1>0, <3>2, AppendElems
        <5> QED BY <4>2, <5>1, <5>2
      <4> QED BY <4>1, <4>2
    <3>5. \A k \in 1..turn'[1] : k \in 1..turn[1] \/ k = turn[1] + 1
      BY <1>0, <3>1
    <3>6. broken' = {} =>
            \A k \in 1..turn'[1] : ss_db[old + k] = <<1, k>> \/ OnlyRequest(k) \in Elems(wire'[1])
      BY <2>1, <3>3, <3>4, <3>5 DEF DeliveredInv
    <3>7. Elems(wire'[1]) \subseteq made'
      BY <3>1, <3>2, <3>4 DEF DeliveredInv
    <3> QED BY <2>1, <3>1, <3>6, <3>7 DEF DeliveredInv
  <2>3. CASE Finish(1)
    <3>1. /\ turn' = turn /\ made' = made /\ wire' = wire
          /\ wire[1] = <<>> \/ 1 \in broken
      BY <2>3 DEF Finish
    <3> QED BY <2>1, <3>1 DEF DeliveredInv
  <2>4. CASE FindUc(1) \/ InsertUc(1) \/ FindSc(1) \/ InsertSc(1) \/ SetUc(1) \/ SetSc(1)
    <3>1. turn' = turn /\ made \subseteq made' /\ wire' = wire
      BY <2>4 DEF FindUc, InsertUc, FindSc, InsertSc, SetUc, SetSc
    <3>2. at'[1] # "done"
      BY <1>0, <2>4 DEF FindUc, InsertUc, FindSc, InsertSc, SetUc, SetSc, GoTo
    <3> QED BY <2>1, <3>1, <3>2 DEF DeliveredInv
  <2> QED BY <1>1, <2>1, <2>2, <2>3, <2>4 DEF Step
<1>2. ASSUME NEW t \in Threads, ServerStore(t)
      PROVE  DeliveredInv'
  <2>1. t = 1 /\ wire[1] # <<>>
    BY <1>2 DEF ServerStore, DeliveredInv
  <2>2. /\ ss_db' = [ss_db EXCEPT ![Head(wire[1]).l] = Head(wire[1]).e]
        /\ wire' = [wire EXCEPT ![1] = Tail(@)]
        /\ UNCHANGED <<old, at, turn, made, broken>>
    BY <1>2, <2>1 DEF ServerStore, args
  <2>3. /\ Head(wire[1]) \in Elems(wire[1])
        /\ Elems(Tail(wire[1])) \subseteq Elems(wire[1])
        /\ \A r \in Elems(wire[1]) : r = Head(wire[1]) \/ r \in Elems(Tail(wire[1]))
    BY <1>0, <2>1, TailElems
  <2>4. PICK j \in 1..Taken(1) : Head(wire[1]) = OnlyRequest(j)
    BY <2>3 DEF DeliveredInv, CountedInv
  <2>5. j \in Nat /\ Taken(1) \in Nat
    BY <1>0, <2>4, Base
  <2>6. Head(wire[1]).l = old + j /\ Head(wire[1]).e = <<1, j>> /\ Head(wire[1]).l \in Labels
    BY <1>0, <2>3, <2>4, EntryPair DEF OnlyRequest, DeliveredInv
  <2>7. ss_db'[old + j] = <<1, j>> /\ \A l : l # old + j => ss_db'[l] = ss_db[l]
    <3>1. ss_db' = [ss_db EXCEPT ![old + j] = <<1, j>>] /\ old + j \in Labels
      BY <2>2, <2>6
    <3> QED BY <1>0, <3>1
  <2>8. wire'[1] = Tail(wire[1]) /\ \A u \in Threads \ {1} : wire'[u] = wire[u]
    BY <1>0, <2>2
  <2>9. \A k \in 1..turn[1] :
          ss_db[old + k] = <<1, k>> \/ OnlyRequest(k) \in Elems(wire[1])
            => ss_db'[old + k] = <<1, k>> \/ OnlyRequest(k) \in Elems(wire'[1])
    <3> SUFFICES ASSUME NEW k \in 1..turn[1],
                        ss_db[old + k] = <<1, k>> \/ OnlyRequest(k) \in Elems(wire[1])
                 PROVE  ss_db'[old + k] = <<1, k>> \/ OnlyRequest(k) \in Elems(wire'[1])
      OBVIOUS
    <3>1. CASE k = j
      BY <2>7, <3>1
    <3>2. CASE k # j
      <4>1. old + k # old + j
        BY <1>0, <2>5, <3>2
      <4>2. OnlyRequest(k) # Head(wire[1])
        BY <2>6, <4>1 DEF OnlyRequest
      <4> QED BY <2>3, <2>7, <2>8, <4>1, <4>2
    <3> QED BY <3>1, <3>2
  <2>10. \A n : OnlyRequest(n)' = OnlyRequest(n)
    BY <2>2 DEF OnlyRequest
  <2> QED BY <2>1, <2>2, <2>3, <2>8, <2>9, <2>10 DEF DeliveredInv
<1>3. ASSUME NEW t \in Threads, NEW n \in 0..MaxEntries, StreamBreak(t, n)
      PROVE  DeliveredInv'
  <2>1. /\ t = 1 /\ at[1] # "done" /\ broken' = broken \cup {1} /\ n \in Nat /\ n <= Len(wire[1])
        /\ wire' = [wire EXCEPT ![1] = SubSeq(@, 1, n)]
        /\ UNCHANGED <<old, at, turn, made, ss_db>>
    BY <1>0, <1>3, BoundsAssumption DEF StreamBreak, args
  <2>2. Elems(wire'[1]) \subseteq Elems(wire[1]) /\ \A u \in Threads \ {1} : wire'[u] = wire[u]
    BY <1>0, <2>1, PrefixElems
  <2> QED BY <2>1, <2>2 DEF DeliveredInv
<1>4. ASSUME NEW keep \in 0..MaxEntries, Corrupt(keep)
      PROVE  DeliveredInv'
  <2>1. \E t, u \in Running : t # u
    BY <1>4 DEF Corrupt
  <2> QED BY <1>0, <2>1
<1>5. CASE Return \/ UNCHANGED vars
  <2>1. UNCHANGED <<old, at, turn, made, wire, broken, ss_db>>
    BY <1>5 DEF Return, vars, args
  <2> QED BY <2>1 DEF DeliveredInv, OnlyRequest
<1> QED BY <1>1, <1>2, <1>3, <1>4, <1>5 DEF Next

LEMMA StepOne == RangesInv /\ TurnsInv /\ MadeInv /\ OneInv /\ [Next]_vars => OneInv'
<1> SUFFICES ASSUME RangesInv, TurnsInv, MadeInv, OneInv, [Next]_vars
             PROVE  OneInv'
  OBVIOUS
<1>1. n_threads' = n_threads
  <2>1. CASE \E t \in Threads : Step(t)
    BY <2>1, Moves
  <2>2. CASE Outer
    BY <2>2, OuterKeeps
  <2> QED BY <2>1, <2>2 DEF Next, Outer
<1>2. n_threads = 1 => CountedInv' /\ DeliveredInv'
  BY StepCounted, StepDelivered DEF OneInv
<1> QED BY <1>1, <1>2 DEF OneInv

----------------------------------------------------------------------------
(* Theorems *)

\* The inductive invariant.
THEOREM InvHolds == Spec => []IInv
<1>1. Init => IInv
  BY InitRanges, InitTurns, InitMade, InitLabels, InitStored, InitOne DEF IInv
<1>2. IInv /\ [Next]_vars => IInv'
  BY StepRanges, StepTurns, StepMade, StepLabels, StepStored, StepOne DEF IInv
<1> QED BY <1>1, <1>2, PTL DEF Spec

\* Every variable keeps its range; no thread of gen_db_2 writes more than its share,
\* and no label is beyond the entries.
THEOREM TypeCorrect == Spec => []TypeOK
<1>1. IInv => TypeOK
  BY DEF IInv, RangesInv, TurnsInv, TypeOK
<1> QED BY <1>1, InvHolds, PTL

\* However gen_update_request and set_update_time interleave, the labels have no gap
\* and the counter names one of them.
THEOREM CounterIsALabel == Spec => []CounterNamesALabel
<1>1. IInv => CounterNamesALabel
  BY DEF IInv, LabelsInv, CounterNamesALabel
<1> QED BY <1>1, InvHolds, PTL

\* A search finds something at every label the shared counter makes it probe, except
\* for requests in hand, on a stream, or gone with one.
THEOREM HolesAreExplained == Spec => []NoHoles
<1>1. IInv => NoHoles
  <2>1. SUFFICES ASSUME IInv, uc_mapper # Missing, NEW l \in 1..uc_mapper, ss_db[l] = Missing
                 PROVE  \E r \in made :
                          /\ r.l = l
                          /\ \/ r.e[1] \in broken
                             \/ r = Request(r.e[1]) /\ at[r.e[1]] \in {"set_sc", "write"}
                             \/ \E k \in 1..Len(wire[r.e[1]]) : wire[r.e[1]][k] = r
    BY DEF NoHoles
  <2>2. uc_mapper \in {0} \cup LabelsMade
    BY <2>1 DEF IInv, LabelsInv
  <2>3. l \in LabelsMade
    BY <2>1, <2>2 DEF IInv, LabelsInv
  <2>4. l \notin 1..old
    BY <2>1 DEF IInv, StoredInv
  <2>5. PICK r \in made : r.l = l
    BY <2>3, <2>4 DEF LabelsMade
  <2> QED BY <2>1, <2>5 DEF IInv, StoredInv, InHand, Elems
<1> QED BY <1>1, InvHolds, PTL

\* gen_db_2 makes exactly N_entries entries when it returns, for every number of
\* threads, dividing it or not.
THEOREM SharesAreWhole == Spec => []SharesAddUp
<1>1. IInv => SharesAddUp
  <2>1. SUFFICES ASSUME IInv, main = "returned"
                 PROVE  Cardinality({r.e : r \in made}) = N_entries
    BY DEF SharesAddUp
  <2>2. N_entries \in Nat /\ n_threads \in Nat \ {0} /\ Running \subseteq Threads /\ Threads \subseteq Nat
    BY <2>1, Base DEF IInv
  <2>3. \A t \in Running : turn[t] = Quota(t) /\ Quota(t) \in Nat /\ Taken(t) = Quota(t)
    BY <2>1, Base DEF IInv, TurnsInv, Taken, InHand
  <2>4. \A r \in made : r.e \in Plan
    <3>1. \A r \in made : r.e \in Nat \X Nat
      BY <2>1, EntryPair DEF IInv
    <3> QED BY <2>1, <2>3, <3>1 DEF IInv, MadeInv, Plan
  <2>5. \A e \in Plan : e \in {r.e : r \in made}
    <3>1. \A e \in Plan : e[1] \in Running /\ e[2] \in 1..Taken(e[1]) /\ e = <<e[1], e[2]>>
      BY <2>3 DEF Plan
    <3> QED BY <2>1, <3>1 DEF IInv, MadeInv
  <2>6. {r.e : r \in made} = Plan
    BY <2>4, <2>5
  <2> QED BY <2>2, <2>6, PlanSize
<1> QED BY <1>1, InvHolds, PTL

\* With one thread and no broken stream every entry is stored, counted and in the proof.
THEOREM OneThreadKeepsAll == Spec => []KeptByOneThread
<1>1. IInv => KeptByOneThread
  <2>1. SUFFICES ASSUME IInv, main = "returned", n_threads = 1, broken = {}
                 PROVE  EntriesKept /\ ProofKept
    BY DEF KeptByOneThread
  <2>2. CountedInv /\ DeliveredInv
    BY <2>1 DEF IInv, OneInv
  <2>3. 1 \in Running /\ Running \subseteq Threads /\ N_entries \in Nat /\ old \in Nat
    BY <2>1, Base DEF IInv, Running
  <2>4. at[1] = "done" /\ turn[1] = Quota(1)
    BY <2>1, <2>3 DEF IInv, TurnsInv
  <2>5. Quota(1) = N_entries
    <3>1. N_entries \div 1 \in Nat /\ N_entries % 1 = 0 /\ N_entries = 1 * (N_entries \div 1) + (N_entries % 1)
      BY <2>3, Divided
    <3> QED BY <2>1, <2>3, <3>1 DEF Quota
  <2>6. turn[1] = N_entries /\ Taken(1) = N_entries
    BY <2>3, <2>4, <2>5 DEF Taken, InHand
  <2>7. made = {OnlyRequest(k) : k \in 1..N_entries} /\ Elems(wire[1]) = {}
    <3>1. wire[1] = <<>>
      BY <2>1, <2>2, <2>4 DEF DeliveredInv
    <3> QED BY <2>2, <2>6, <3>1 DEF CountedInv, Elems
  <2>8. \A r \in made : ss_db[r.l] = r.e
    <3>1. \A k \in 1..N_entries : ss_db[old + k] = <<1, k>>
      BY <2>1, <2>2, <2>6, <2>7 DEF DeliveredInv
    <3> QED BY <2>7, <3>1 DEF OnlyRequest
  <2>9. uc_mapper = Missing \/ uc_mapper = old + N_entries
    BY <2>2, <2>6 DEF CountedInv
  <2>10. {r.e : r \in made} = {1} \X (1..N_entries)
    <3>1. \A k \in 1..N_entries : OnlyRequest(k) \in made /\ OnlyRequest(k).e = <<1, k>>
      BY <2>7 DEF OnlyRequest
    <3>2. \A r \in made : \E k \in 1..N_entries : r.e = <<1, k>>
      BY <2>7 DEF OnlyRequest
    <3> QED BY <3>1, <3>2
  <2>11. sc_mapper = Missing \/ sc_mapper = OnlyProof(N_entries)
    BY <2>2, <2>4, <2>6 DEF CountedInv
  <2> QED BY <2>8, <2>9, <2>10, <2>11 DEF EntriesKept, ProofKept, OnlyProof, OldProof
<1> QED BY <1>1, InvHolds, PTL
=============================================================================
