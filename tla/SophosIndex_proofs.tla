------------------------ MODULE SophosIndex_proofs -------------------------
(***************************************************************************)
(* Theorems about SophosIndex, for any keywords, threads and bounds.       *)
(***************************************************************************)
EXTENDS SophosIndex, FiniteSetTheorems, TLAPS

----------------------------------------------------------------------------
(* Invariants *)

Turns == 1..Len(made)
Got == {t \in Threads : At(t, "got")}
Carries(t, u) == (At(t, "send") \/ At(t, "wait")) /\ job[t].u = u

\* Every thread that has read a counter still has an update of the bound to make.
Room == IsFiniteSet(Got) /\ Len(made) + Cardinality(Got) <= MaxUpdates

\* A thread works on an update of its own, of a running client that does not search.
JobsInv ==
  /\ \A t \in Threads : job[t] # None => up /\ query = None
  /\ \A t \in Threads, u \in Updates : Carries(t, u) => u \in Turns
  /\ \A t, s \in Threads, u \in Updates : Carries(t, u) /\ Carries(s, u) => t = s

\* What is on its way was made, and a session has taken nothing before it starts.
WiresInv ==
  /\ calls \subseteq Turns /\ sent \subseteq Turns
  /\ \A i \in 1..Current : Range(streams[i]) \subseteq Turns
  /\ session = "closed" => sent = {}
  /\ session # "closed" => Current > 0

TypeInv == TypeOK /\ Room /\ JobsInv /\ WiresInv

\* The labels of a keyword have no gap, and every counter, in the map, in a thread
\* or on disk, names one of them; the labels are fewer than the updates.
CountersInv ==
  /\ TokensContiguous
  /\ \A t \in Threads : At(t, "got") /\ job[t].c # None => job[t].c \in LabelsMade(job[t].w)
  /\ flushed # None => \A w \in Keywords : flushed[w] # None => flushed[w] \in LabelsMade(w)
  /\ \A u \in Turns : made[u][2] < u

\* An update is stored, on its way, lost, or about to be sent.
WhereInv ==
  \A u \in Turns :
    \/ edb[made[u]] # None
    \/ u \in lost \cup OnWire
    \/ \E t \in Threads : At(t, "send") /\ job[t].u = u

\* What is stored was made for its token, and what is, or is about to be,
\* acknowledged has its token taken.
StoredInv ==
  /\ \A k \in Tokens : edb[k] # None => edb[k] \in Turns /\ made[edb[k]] = k
  /\ \A u \in acked : u \in Turns /\ edb[made[u]] # None
  /\ \A t \in Threads : At(t, "wait") => job[t].u \in calls \/ edb[made[job[t].u]] # None
  /\ session = "open" => \A u \in sent : u \in Range(streams[Current]) \/ edb[made[u]] # None

\* One thread at a time updates an undisturbed keyword, its counter is the one the
\* thread has, all its labels are counted, and none was made twice.
UndisturbedInv ==
  \A w \in Keywords \ disturbed :
    /\ \A t \in Threads : At(t, "got") /\ job[t].w = w => job[t].c = counter_map[w]
    /\ \A t, s \in Threads : At(t, "got") /\ At(s, "got") /\ job[t].w = w /\ job[s].w = w => t = s
    /\ LabelsMade(w) \subseteq Count(w)
    /\ \A u, v \in Turns : made[u] = made[v] /\ made[u][1] = w => u = v

\* The search under way has found entries that are visible, and what was visible
\* when it began is found or still to be looked up.
QueryInv ==
  disturbed = {} /\ query # None =>
    /\ query.todo \subseteq Count(query.w)
    /\ query.found \subseteq Visible(query.w)
    /\ \A r \in query.base : r \in query.found \/ \E l \in query.todo : edb[<<query.w, l>>] = r

IInv == TypeInv /\ CountersInv /\ WhereInv /\ StoredInv /\ UndisturbedInv /\ QueryInv

----------------------------------------------------------------------------
(* Sequences *)

\* The range of a sequence, by its indices.
LEMMA RangeDef ==
  ASSUME NEW S, NEW s \in Seq(S)
  PROVE  \A x : x \in Range(s) <=> \E i \in 1..Len(s) : x = s[i]
<1>1. DOMAIN s = 1..Len(s)
  OBVIOUS
<1>2. QED
  BY <1>1, Zenon DEF Range

\* What Append, Tail and a prefix make of it.
LEMMA AppendRange ==
  ASSUME NEW S, NEW s \in Seq(S), NEW e \in S
  PROVE  Range(Append(s, e)) = Range(s) \cup {e}
<1> DEFINE a == Append(s, e)
<1>1. a \in Seq(S) /\ Len(a) = Len(s) + 1 /\ Len(s) \in Nat /\ a[Len(s) + 1] = e
  OBVIOUS
<1>2. \A i \in 1..Len(s) : a[i] = s[i]
  OBVIOUS
<1> HIDE DEF a
<1>3. \A x : x \in Range(a) <=> \E i \in 1..Len(a) : x = a[i]
  BY <1>1, RangeDef
<1>4. \A x : x \in Range(s) <=> \E i \in 1..Len(s) : x = s[i]
  BY RangeDef
<1>5. ASSUME NEW x \in Range(a) PROVE x \in Range(s) \cup {e}
  <2>1. PICK i \in 1..Len(a) : x = a[i]
    BY <1>3
  <2>2. QED
    BY <2>1, <1>1, <1>2, <1>4
<1>6. ASSUME NEW x \in Range(s) \cup {e} PROVE x \in Range(a)
  BY <1>1, <1>2, <1>3, <1>4
<1>7. Range(a) = Range(s) \cup {e}
  BY <1>5, <1>6
<1>8. QED
  BY <1>7 DEF a

LEMMA TailRange ==
  ASSUME NEW S, NEW s \in Seq(S), s # <<>>
  PROVE  Range(s) = Range(Tail(s)) \cup {Head(s)}
<1> DEFINE a == Tail(s)
<1>1. a \in Seq(S) /\ Len(a) = Len(s) - 1 /\ Len(s) \in Nat \ {0} /\ Head(s) = s[1]
  OBVIOUS
<1>2. \A i \in 1..Len(a) : a[i] = s[i + 1]
  OBVIOUS
<1> HIDE DEF a
<1>3. \A x : x \in Range(a) <=> \E i \in 1..Len(a) : x = a[i]
  BY <1>1, RangeDef
<1>4. \A x : x \in Range(s) <=> \E i \in 1..Len(s) : x = s[i]
  BY RangeDef
<1>5. ASSUME NEW x \in Range(s) PROVE x \in Range(a) \cup {s[1]}
  <2>1. PICK i \in 1..Len(s) : x = s[i]
    BY <1>4
  <2>2. CASE i = 1
    BY <2>1, <2>2
  <2>3. CASE i # 1
    <3>1. i - 1 \in 1..Len(a) /\ a[i - 1] = s[i]
      BY <2>3, <1>1, <1>2
    <3>2. QED
      BY <3>1, <2>1, <1>3
  <2>4. QED
    BY <2>2, <2>3
<1>6. ASSUME NEW x \in Range(a) \cup {s[1]} PROVE x \in Range(s)
  <2>1. CASE x = s[1]
    BY <2>1, <1>1, <1>4
  <2>2. CASE x \in Range(a)
    <3>1. PICK i \in 1..Len(a) : x = a[i]
      BY <2>2, <1>3
    <3>2. i + 1 \in 1..Len(s) /\ x = s[i + 1]
      BY <3>1, <1>1, <1>2
    <3>3. QED
      BY <3>2, <1>4
  <2>3. QED
    BY <2>1, <2>2
<1>7. Range(s) = Range(a) \cup {s[1]}
  BY <1>5, <1>6
<1>8. QED
  BY <1>1, <1>7 DEF a

LEMMA SplitRange ==
  ASSUME NEW S, NEW s \in Seq(S), NEW n \in Nat, n <= Len(s)
  PROVE  /\ SubSeq(s, 1, n) \in Seq(S)
         /\ Range(s) = Range(SubSeq(s, 1, n)) \cup Range(SubSeq(s, n + 1, Len(s)))
<1> DEFINE a == SubSeq(s, 1, n)
           b == SubSeq(s, n + 1, Len(s))
<1>1. Len(s) \in Nat
  OBVIOUS
<1>2. a \in Seq(S) /\ b \in Seq(S) /\ Len(a) = n /\ Len(b) = Len(s) - n
  BY <1>1
<1>3. (\A i \in 1..n : a[i] = s[i]) /\ \A i \in 1..(Len(s) - n) : b[i] = s[i + n]
  BY <1>1, <1>2
<1> HIDE DEF a, b
<1>4. \A x : x \in Range(a) <=> \E i \in 1..Len(a) : x = a[i]
  BY <1>2, RangeDef
<1>5. \A x : x \in Range(b) <=> \E i \in 1..Len(b) : x = b[i]
  BY <1>2, RangeDef
<1>6. \A x : x \in Range(s) <=> \E i \in 1..Len(s) : x = s[i]
  BY RangeDef
<1>7. ASSUME NEW x \in Range(s) PROVE x \in Range(a) \cup Range(b)
  <2>1. PICK i \in 1..Len(s) : x = s[i]
    BY <1>6
  <2>2. CASE i <= n
    BY <2>1, <2>2, <1>2, <1>3, <1>4
  <2>3. CASE i > n
    <3>1. i - n \in 1..Len(b) /\ b[i - n] = s[i]
      BY <2>3, <1>1, <1>2, <1>3
    <3>2. QED
      BY <3>1, <2>1, <1>5
  <2>4. QED
    BY <2>2, <2>3
<1>8. ASSUME NEW x \in Range(a) \cup Range(b) PROVE x \in Range(s)
  <2>1. CASE x \in Range(a)
    BY <2>1, <1>1, <1>2, <1>3, <1>4, <1>6
  <2>2. CASE x \in Range(b)
    <3>1. PICK i \in 1..Len(b) : x = b[i]
      BY <2>2, <1>5
    <3>2. i + n \in 1..Len(s) /\ x = s[i + n]
      BY <3>1, <1>1, <1>2, <1>3
    <3>3. QED
      BY <3>2, <1>6
  <2>3. QED
    BY <2>1, <2>2
<1>9. Range(s) = Range(a) \cup Range(b)
  BY <1>7, <1>8
<1>10. QED
  BY <1>2, <1>9 DEF a, b

----------------------------------------------------------------------------
(* Types *)

LEMMA VisibleType ==
  ASSUME TypeOK, NEW w \in Keywords
  PROVE  Visible(w) \in SUBSET Updates /\ Count(w) \in SUBSET Labels
<1>1. Count(w) \in SUBSET Labels
  BY BoundsAssumption DEF TypeOK, Count, Labels
<1>2. QED
  BY <1>1 DEF Visible, TypeOK, Tokens

\* Threads that have read a counter, when thread t comes to or goes from there.
LEMMA GotSteps ==
  ASSUME Room, NEW t \in Threads, \A s \in Threads \ {t} : job'[s] = job[s], job \in [Threads -> Jobs \cup {None}],
         job' \in [Threads -> Jobs \cup {None}], Len(made) \in Nat
  PROVE  /\ ~At(t, "got")' => IsFiniteSet(Got') /\ Cardinality(Got') <= Cardinality(Got)
         /\ ~At(t, "got")' /\ At(t, "got") => Cardinality(Got') = Cardinality(Got) - 1
         /\ IsFiniteSet(Got') /\ Cardinality(Got') <= Cardinality(Got) + 1
         /\ Cardinality(Got) \in Nat /\ Cardinality(Got') \in Nat
         /\ At(t, "got") => Cardinality(Got) >= 1
<1> USE DEF Room
<1>0. Cardinality(Got) \in Nat
  BY FS_CardinalityType
<1>1. CASE At(t, "got")'
  <2>1. Got' = Got \cup {t}
    BY <1>1 DEF Got, At
  <2>2. IsFiniteSet(Got') /\ Cardinality(Got') = IF t \in Got THEN Cardinality(Got) ELSE Cardinality(Got) + 1
    BY <2>1, FS_AddElement
  <2>3. At(t, "got") => Cardinality(Got) # 0
    BY FS_EmptySet DEF Got
  <2>4. QED
    BY <1>0, <1>1, <2>2, <2>3
<1>2. CASE ~At(t, "got")'
  <2>1. Got' = Got \ {t}
    BY <1>2 DEF Got, At
  <2>2. IsFiniteSet(Got') /\ Cardinality(Got') = IF t \in Got THEN Cardinality(Got) - 1 ELSE Cardinality(Got)
    BY <2>1, FS_RemoveElement
  <2>3. At(t, "got") => t \in Got /\ Cardinality(Got) # 0
    BY FS_EmptySet DEF Got
  <2>4. t \in Got => At(t, "got")
    BY DEF Got
  <2>5. QED
    BY <1>0, <1>2, <2>2, <2>3, <2>4
<1>3. QED
  BY <1>1, <1>2

LEMMA InitTypes == Init => TypeInv
<1> SUFFICES ASSUME Init PROVE TypeInv
  OBVIOUS
<1> USE BoundsAssumption DEF Init
<1>1. Len(made) = 0 /\ Len(streams) = 0 /\ made \in Seq(Tokens) /\ streams \in Seq(Seq(Updates))
  OBVIOUS
<1>2. TypeOK
  BY <1>1 DEF TypeOK
<1>3. Got = {}
  BY DEF Got, At
<1>4. Room
  BY <1>1, <1>3, FS_EmptySet DEF Room
<1>5. JobsInv
  BY DEF JobsInv, Carries, At
<1>6. WiresInv
  BY <1>1 DEF WiresInv, Current
<1>7. QED
  BY <1>2, <1>4, <1>5, <1>6 DEF TypeInv

\* What making the update of thread t does to the types.
LEMMA MakeTypes ==
  ASSUME TypeInv, NEW t \in Threads, At(t, "got"), NEW l \in Labels, Make(t, l),
         UNCHANGED <<up, query>>
  PROVE  /\ made' \in Seq(Tokens) /\ Len(made') = Len(made) + 1 /\ Len(made') <= MaxUpdates
         /\ made' = Append(made, <<job[t].w, l>>) /\ <<job[t].w, l>> \in Tokens
         /\ job' \in [Threads -> Jobs \cup {None}]
         /\ Room' /\ JobsInv'
<1> USE DEF TypeInv
<1>1. job[t] \in Jobs /\ job[t].w \in Keywords
  BY NoneAssumption DEF TypeOK, At, Jobs
<1>2. made \in Seq(Tokens) /\ <<job[t].w, l>> \in Tokens /\ made' = Append(made, <<job[t].w, l>>)
  BY <1>1 DEF Make, TypeOK, Tokens
<1>3. made' \in Seq(Tokens) /\ Len(made') = Len(made) + 1 /\ Len(made) \in Nat
  BY <1>2
<1> DEFINE j == [at |-> "send", u |-> Len(made) + 1]
<1>4. /\ Cardinality(Got) \in Nat /\ Cardinality(Got) >= 1
      /\ Len(made) + 1 <= MaxUpdates
      /\ MaxUpdates \in Nat /\ j \in Jobs /\ j # None
  <2>1. Cardinality(Got) \in Nat /\ Cardinality(Got) # 0
    BY FS_CardinalityType, FS_EmptySet DEF Got, Room
  <2>2. Len(made) + 1 <= MaxUpdates
    BY <2>1, <1>3, BoundsAssumption DEF Room
  <2>3. j \in Jobs
    BY <2>2, <1>3, BoundsAssumption DEF Jobs, Updates
  <2>4. QED
    BY <2>1, <2>2, <2>3, BoundsAssumption, NoneAssumption
<1>5. job' = [job EXCEPT ![t] = j] /\ job' \in [Threads -> Jobs \cup {None}]
  BY <1>4 DEF Make, TypeOK
<1>6. ~At(t, "got")'
  BY <1>5 DEF At, TypeOK
<1>7. IsFiniteSet(Got') /\ Cardinality(Got') = Cardinality(Got) - 1
  BY <1>3, <1>5, <1>6, GotSteps DEF TypeOK
<1>8. Room'
  BY <1>3, <1>4, <1>7 DEF Room
<1>9. JobsInv'
  <2>1. up /\ query = None
    BY DEF JobsInv, At
  <2>2. \A s \in Threads : job'[s] # None => job[s] # None
    BY <1>5 DEF TypeOK, At
  <2>3. \A s \in Threads, u \in Updates :
          Carries(s, u)' => IF s = t THEN u = Len(made) + 1 ELSE Carries(s, u)
    BY <1>5 DEF Carries, At, TypeOK
  <2>4. Turns' = Turns \cup {Len(made) + 1} /\ Len(made) + 1 \notin Turns
    BY <1>3 DEF Turns
  <2>5. QED
    BY <2>1, <2>2, <2>3, <2>4 DEF JobsInv
<1>10. QED
  BY <1>2, <1>3, <1>4, <1>5, <1>8, <1>9

\* Fewer threads have read a counter, or as many, and no update was made.
LEMMA RoomStays ==
  ASSUME Room, Got' \subseteq Got, made' = made, Len(made) \in Nat
  PROVE  Room'
<1>1. IsFiniteSet(Got') /\ Cardinality(Got') <= Cardinality(Got)
  BY FS_Subset DEF Room
<1>2. Cardinality(Got) \in Nat /\ Cardinality(Got') \in Nat
  BY <1>1, FS_CardinalityType DEF Room
<1>3. QED
  BY <1>1, <1>2, BoundsAssumption DEF Room

\* There are fewer labels than updates, so the one after a label in use is a label.
LEMMA NextLabel ==
  ASSUME TypeOK, CountersInv, NEW w \in Keywords, NEW c \in LabelsMade(w)
  PROVE  c + 1 \in Labels
<1>1. PICK u \in Turns : made[u][2] = c
  BY DEF LabelsMade, Turns
<1>2. u \in 1..Len(made) /\ Len(made) \in Nat /\ Len(made) <= MaxUpdates /\ made[u] \in Tokens
  BY DEF TypeOK, Turns
<1>3. c \in Nat /\ c < u
  BY <1>1, <1>2, BoundsAssumption DEF CountersInv, Tokens, Labels
<1>4. QED
  BY <1>2, <1>3, BoundsAssumption DEF Labels

LEMMA StepTypes ==
  ASSUME TypeInv, CountersInv, [Next]_vars
  PROVE  TypeInv'
<1> USE DEF TypeInv
<1>n. /\ Len(made) \in Nat /\ Turns \subseteq Updates /\ MaxUpdates \in Nat
      /\ Current \in Nat
  BY BoundsAssumption DEF TypeOK, Room, Turns, Updates, Current
<1>1. ASSUME NEW t \in Threads, NEW w \in Keywords, GetCounter(t, w)
      PROVE  TypeInv'
  <2>1. job' = [job EXCEPT ![t] = [at |-> "got", w |-> w, c |-> counter_map[w]]]
    BY <1>1 DEF GetCounter
  <2>2. [at |-> "got", w |-> w, c |-> counter_map[w]] \in Jobs
    BY DEF TypeOK, Jobs
  <2>3. TypeOK'
    BY <1>1, <2>1, <2>2 DEF GetCounter, TypeOK, client, wires, search
  <2>4. Room'
    <3>1. IsFiniteSet(Got') /\ Cardinality(Got') <= Cardinality(Got) + 1
          /\ Cardinality(Got) \in Nat /\ Cardinality(Got') \in Nat
      BY <2>1, <2>3, <1>n, GotSteps DEF TypeOK
    <3>2. Len(made) + Cardinality(Got) < MaxUpdates /\ made' = made
      BY <1>1 DEF GetCounter, Got
    <3>3. QED
      BY <3>1, <3>2, <1>n DEF Room
  <2>5. JobsInv'
    BY <1>1, <2>1, <1>n, NoneAssumption DEF GetCounter, JobsInv, TypeOK, Carries, At, client, search, Turns
  <2>6. WiresInv'
    BY <1>1 DEF GetCounter, WiresInv, wires, Turns, Current
  <2>7. QED
    BY <2>3, <2>4, <2>5, <2>6
<1>2. ASSUME NEW t \in Threads, AddCounter(t)
      PROVE  TypeInv'
  <2>1. 0 \in Labels
    BY <1>n DEF Labels
  <2>2. At(t, "got") /\ Make(t, 0) /\ UNCHANGED <<up, query>>
    BY <1>2 DEF AddCounter, search
  <2>3. /\ made' \in Seq(Tokens) /\ Len(made') = Len(made) + 1 /\ Len(made') <= MaxUpdates
        /\ job' \in [Threads -> Jobs \cup {None}]
        /\ Room' /\ JobsInv'
    BY <2>1, <2>2, MakeTypes
  <2>4. counter_map' \in [Keywords -> Labels \cup {None}]
    <3>1. PICK c \in {0} \cup ({counter_map[job[t].w]} \ {None}) :
            counter_map' = [counter_map EXCEPT ![job[t].w] = c]
      BY <1>2 DEF AddCounter
    <3>2. job[t].w \in Keywords
      BY <2>2, NoneAssumption DEF At, TypeOK, Jobs
    <3>3. c \in Labels
      BY <3>1, <3>2, <2>1 DEF TypeOK
    <3>4. QED
      BY <3>1, <3>3 DEF TypeOK
  <2>5. TypeOK'
    BY <1>2, <2>3, <2>4 DEF AddCounter, TypeOK, wires, search
  <2>6. WiresInv'
    <3>1. Turns \subseteq Turns'
      BY <2>3, <1>n DEF Turns
    <3>2. QED
      BY <1>2, <3>1 DEF AddCounter, WiresInv, wires, Current
  <2>7. QED
    BY <2>3, <2>5, <2>6
<1>3. ASSUME NEW t \in Threads, SetCounter(t)
      PROVE  TypeInv'
  <2>1. job[t].w \in Keywords /\ job[t].c \in Labels
    BY <1>3, NoneAssumption DEF SetCounter, At, TypeOK, Jobs
  <2>2. job[t].c \in LabelsMade(job[t].w)
    BY <1>3 DEF SetCounter, CountersInv
  <2>5. job[t].c + 1 \in Labels
    BY <2>1, <2>2, NextLabel
  <2>6. At(t, "got") /\ Make(t, job[t].c + 1) /\ UNCHANGED <<up, query>>
    BY <1>3 DEF SetCounter, search
  <2>7. /\ made' \in Seq(Tokens) /\ Len(made') = Len(made) + 1 /\ Len(made') <= MaxUpdates
        /\ job' \in [Threads -> Jobs \cup {None}]
        /\ Room' /\ JobsInv'
    BY <2>5, <2>6, MakeTypes
  <2>8. counter_map' \in [Keywords -> Labels \cup {None}]
    BY <1>3, <2>5 DEF SetCounter, TypeOK
  <2>9. TypeOK'
    BY <1>3, <2>7, <2>8 DEF SetCounter, TypeOK, wires, search
  <2>10. WiresInv'
    <3>1. Turns \subseteq Turns'
      BY <2>7, <1>n DEF Turns
    <3>2. QED
      BY <1>3, <3>1 DEF SetCounter, WiresInv, wires, Current
  <2>11. QED
    BY <2>7, <2>9, <2>10
<1>4. ASSUME NEW t \in Threads, SendInSession(t)
      PROVE  TypeInv'
  <2>1. job[t].u \in Turns
    BY <1>4, <1>n, NoneAssumption DEF SendInSession, JobsInv, Carries, At, TypeOK, Jobs
  <2>2. Current \in 1..Len(streams) /\ streams[Current] \in Seq(Updates)
    BY <1>4, <1>n DEF SendInSession, WiresInv, Current, TypeOK
  <2>3. /\ Append(streams[Current], job[t].u) \in Seq(Updates)
        /\ Range(Append(streams[Current], job[t].u)) = Range(streams[Current]) \cup {job[t].u}
    BY <2>1, <2>2, <1>n, AppendRange
  <2>4. /\ streams' \in Seq(Seq(Updates)) /\ Len(streams') = Len(streams)
        /\ \A i \in 1..Current : Range(streams'[i]) \subseteq Turns
    <3>1. CASE session = "open"
      <4>1. streams' = [streams EXCEPT ![Current] = Append(streams[Current], job[t].u)]
        BY <1>4, <3>1 DEF SendInSession
      <4>2. QED
        BY <4>1, <2>1, <2>2, <2>3 DEF TypeOK, WiresInv, Current
    <3>2. CASE session # "open"
      BY <1>4, <3>2 DEF SendInSession, TypeOK, WiresInv
    <3>3. QED
      BY <3>1, <3>2
  <2>5. TypeOK'
    BY <1>4, <2>1, <2>4, <1>n DEF SendInSession, TypeOK, client, search
  <2>6. Got' \subseteq Got
    BY <1>4 DEF SendInSession, Got, At, TypeOK
  <2>7. Room'
    BY <1>4, <2>6, <1>n, RoomStays DEF SendInSession
  <2>8. JobsInv'
    BY <1>4 DEF SendInSession, JobsInv, TypeOK, Carries, At, client, search, Turns
  <2>9. WiresInv'
    BY <1>4, <2>1, <2>4 DEF SendInSession, WiresInv, Turns, Current
  <2>10. QED
    BY <2>5, <2>7, <2>8, <2>9
<1>5. ASSUME NEW t \in Threads, SendCall(t)
      PROVE  TypeInv'
  <2>1. job[t] \in Jobs /\ job[t].u \in Turns
    BY <1>5, <1>n, NoneAssumption DEF SendCall, JobsInv, Carries, At, TypeOK, Jobs
  <2>2. job[t] \in [at : {"send", "wait"}, u : Updates]
    BY <1>5, <2>1 DEF SendCall, At, Jobs
  <2>3. job' = [job EXCEPT ![t] = [at |-> "wait", u |-> job[t].u]]
    <3>1. [job[t] EXCEPT !.at = "wait"] = [at |-> "wait", u |-> job[t].u]
      BY <2>2
    <3>2. job' = [job EXCEPT ![t] = [job[t] EXCEPT !.at = "wait"]]
      BY <1>5 DEF SendCall
    <3>3. QED
      BY <3>1, <3>2
  <2>4. [at |-> "wait", u |-> job[t].u] \in Jobs
    BY <2>2 DEF Jobs
  <2>5. TypeOK'
    BY <1>5, <2>1, <2>3, <2>4, <1>n DEF SendCall, TypeOK, client, search, history
  <2>6. Got' \subseteq Got
    BY <2>3 DEF Got, At, TypeOK
  <2>7. Room'
    BY <1>5, <2>6, <1>n, RoomStays DEF SendCall, history
  <2>8. JobsInv'
    <3>1. At(t, "send") /\ UNCHANGED <<up, query, made>>
      BY <1>5 DEF SendCall, client, search, history
    <3>2. \A s \in Threads : job'[s] # None => job[s] # None
      BY <2>3, <3>1 DEF TypeOK, At
    <3>3. \A s \in Threads, u \in Updates : Carries(s, u)' => Carries(s, u)
      BY <2>3, <3>1 DEF TypeOK, Carries, At
    <3>4. QED
      BY <3>1, <3>2, <3>3 DEF JobsInv, Turns
  <2>9. WiresInv'
    BY <1>5, <2>1 DEF SendCall, WiresInv, history, Turns, Current
  <2>10. QED
    BY <2>5, <2>7, <2>8, <2>9
<1>6. ASSUME NEW t \in Threads, CallReturn(t) \/ CallBreak(t)
      PROVE  TypeInv'
  <2>1. job[t].u \in Turns
    BY <1>6, <1>n, NoneAssumption DEF CallReturn, CallBreak, JobsInv, Carries, At, TypeOK, Jobs
  <2>2. job' = [job EXCEPT ![t] = None] /\ made' = made /\ UNCHANGED <<client, search, session, sent, streams>>
    BY <1>6 DEF CallReturn, CallBreak, wires
  <2>3. calls' \subseteq calls
    BY <1>6 DEF CallReturn, CallBreak, wires
  <2>4. acked' \subseteq acked \cup {job[t].u} /\ lost' \subseteq lost \cup {job[t].u}
    BY <1>6 DEF CallReturn, CallBreak
  <2>5. faults' \in 0..MaxFaults /\ UNCHANGED <<edb, disturbed, kills>>
    BY <1>6, BoundsAssumption DEF CallReturn, CallBreak, TypeOK
  <2>6. TypeOK'
    BY <2>1, <2>2, <2>3, <2>4, <2>5, <1>n DEF TypeOK, client, search
  <2>7. Room'
    <3>1. Got' \subseteq Got
      BY <2>2 DEF Got, At, TypeOK
    <3>2. QED
      BY <3>1, <2>2, <1>n, RoomStays
  <2>8. JobsInv'
    BY <2>2 DEF JobsInv, TypeOK, Carries, At, client, search, Turns
  <2>9. WiresInv'
    BY <2>2, <2>3 DEF WiresInv, Turns, Current
  <2>10. QED
    BY <2>6, <2>7, <2>8, <2>9
<1>7. CASE StartSession
  <2>1. /\ streams' \in Seq(Seq(Updates)) /\ Len(streams') = Current + 1
        /\ \A i \in 1..Current : streams'[i] = streams[i]
        /\ streams'[Current + 1] = <<>>
    BY <1>7, <1>n DEF StartSession, TypeOK, Current
  <2>2. Range(<<>>) = {}
    BY DEF Range
  <2>3. \A i \in 1..(Current + 1) : Range(streams'[i]) \subseteq Turns
    BY <2>1, <2>2, <1>n DEF WiresInv
  <2>4. TypeOK'
    BY <1>7, <2>1, <1>n, BoundsAssumption DEF StartSession, TypeOK, client, search, history, Current
  <2>5. Room' /\ JobsInv'
    BY <1>7 DEF StartSession, Room, JobsInv, Got, Carries, At, Turns, client, search, history
  <2>6. WiresInv'
    BY <1>7, <2>1, <2>3, <1>n DEF StartSession, WiresInv, Turns, history, Current
  <2>7. QED
    BY <2>4, <2>5, <2>6
<1>8. CASE EndSession
  <2>1. acked' \in SUBSET Updates
    BY <1>8 DEF EndSession, TypeOK
  <2>2. TypeOK'
    BY <1>8, <2>1 DEF EndSession, TypeOK, client, search
  <2>3. Room' /\ JobsInv' /\ WiresInv'
    BY <1>8 DEF EndSession, Room, JobsInv, WiresInv, Got, Carries, At, Turns, Current, client, search
  <2>4. QED
    BY <2>2, <2>3
<1>9. ASSUME NEW n \in 0..MaxUpdates, SessionBreak(n)
      PROVE  TypeInv'
  <2>1. Current \in 1..Len(streams) /\ streams[Current] \in Seq(Updates) /\ n \in Nat /\ n <= Len(streams[Current])
    BY <1>9, <1>n DEF SessionBreak, WiresInv, Current, TypeOK
  <2>2. /\ SubSeq(streams[Current], 1, n) \in Seq(Updates)
        /\ Range(streams[Current]) = Range(SubSeq(streams[Current], 1, n))
                                     \cup Range(SubSeq(streams[Current], n + 1, Len(streams[Current])))
    BY <2>1, SplitRange
  <2>3. Range(streams[Current]) \subseteq Turns
    BY <2>1, <1>n DEF WiresInv, Current
  <2>4. streams' = [streams EXCEPT ![Current] = SubSeq(streams[Current], 1, n)]
    BY <1>9 DEF SessionBreak
  <2>5. /\ streams' \in Seq(Seq(Updates)) /\ Len(streams') = Len(streams)
        /\ \A i \in 1..Current : Range(streams'[i]) \subseteq Turns
    BY <2>1, <2>2, <2>3, <2>4 DEF TypeOK, WiresInv, Current
  <2>6. lost' \in SUBSET Updates
    BY <1>9, <2>2, <2>3, <1>n DEF SessionBreak, TypeOK
  <2>7. TypeOK'
    BY <1>9, <2>5, <2>6, BoundsAssumption DEF SessionBreak, TypeOK, client, search
  <2>8. Room' /\ JobsInv'
    BY <1>9 DEF SessionBreak, Room, JobsInv, Got, Carries, At, Turns, client, search
  <2>9. WiresInv'
    BY <1>9, <2>1, <2>5 DEF SessionBreak, WiresInv, Turns, Current
  <2>10. QED
    BY <2>7, <2>8, <2>9
<1>10. ASSUME NEW u \in Updates, ServerUpdate(u)
       PROVE  TypeInv'
  <2>1. TypeOK'
    BY <1>10 DEF ServerUpdate, TypeOK, client, search, history
  <2>2. Room' /\ JobsInv' /\ WiresInv'
    BY <1>10 DEF ServerUpdate, Room, JobsInv, WiresInv, Got, Carries, At, Turns, Current, client, search, history
  <2>3. QED
    BY <2>1, <2>2
<1>11. ASSUME NEW i \in 1..Current, ServerBulk(i)
       PROVE  TypeInv'
  <2>1. streams[i] \in Seq(Updates) /\ streams[i] # <<>>
    BY <1>11 DEF ServerBulk, TypeOK, Current
  <2>2. /\ Tail(streams[i]) \in Seq(Updates) /\ Head(streams[i]) \in Updates
        /\ Range(streams[i]) = Range(Tail(streams[i])) \cup {Head(streams[i])}
    BY <2>1, TailRange
  <2>3. streams' = [streams EXCEPT ![i] = Tail(streams[i])]
    BY <1>11 DEF ServerBulk
  <2>4. /\ streams' \in Seq(Seq(Updates)) /\ Len(streams') = Len(streams)
        /\ \A k \in 1..Current : Range(streams'[k]) \subseteq Turns
    BY <2>2, <2>3 DEF TypeOK, WiresInv, Current
  <2>5. edb' \in [Tokens -> Updates \cup {None}]
    BY <1>11, <2>2 DEF ServerBulk, TypeOK
  <2>6. TypeOK'
    BY <1>11, <2>4, <2>5 DEF ServerBulk, TypeOK, client, search, history
  <2>7. Room' /\ JobsInv'
    BY <1>11 DEF ServerBulk, Room, JobsInv, Got, Carries, At, Turns, client, search, history
  <2>8. WiresInv'
    BY <1>11, <2>4 DEF ServerBulk, WiresInv, Turns, Current, history
  <2>9. QED
    BY <2>6, <2>7, <2>8
<1>12. CASE ServerRestart
  <2>1. OnWire \subseteq Turns
    BY DEF OnWire, WiresInv
  <2>2. /\ streams' \in Seq(Seq(Updates)) /\ Len(streams') = Len(streams)
        /\ \A i \in 1..Current : streams'[i] = <<>>
    BY <1>12, <1>n DEF ServerRestart, TypeOK, Current
  <2>3. job' \in [Threads -> Jobs \cup {None}]
    BY <1>12 DEF ServerRestart, TypeOK
  <2>4. answer' \in Answers \cup {None}
    BY <1>12 DEF ServerRestart, TypeOK, Answers, Queries
  <2>5. TypeOK'
    BY <1>12, <2>1, <2>2, <2>3, <2>4, <1>n, BoundsAssumption DEF ServerRestart, TypeOK, client
  <2>6. Got' \subseteq Got
    BY <1>12 DEF ServerRestart, Got, At, TypeOK
  <2>7. Room'
    BY <1>12, <2>6, <1>n, RoomStays DEF ServerRestart
  <2>8. JobsInv'
    BY <1>12 DEF ServerRestart, JobsInv, TypeOK, Carries, At, client, Turns
  <2>9. Range(<<>>) = {}
    BY DEF Range
  <2>10. WiresInv'
    BY <1>12, <2>2, <2>9 DEF ServerRestart, WiresInv, Turns, Current
  <2>11. QED
    BY <2>5, <2>7, <2>8, <2>10
<1>13. ASSUME NEW w \in Keywords, SearchBegin(w)
       PROVE  TypeInv'
  <2>1. query' \in Queries
    BY <1>13, VisibleType DEF SearchBegin, Queries
  <2>2. TypeOK'
    BY <1>13, <2>1 DEF SearchBegin, TypeOK, client, wires, history
  <2>3. Room' /\ JobsInv' /\ WiresInv'
    BY <1>13 DEF SearchBegin, Idle, Room, JobsInv, WiresInv, Got, Carries, At, Turns, Current, client, wires, history
  <2>4. QED
    BY <2>2, <2>3
<1>14. ASSUME NEW l \in Labels, SearchStep(l)
       PROVE  TypeInv'
  <2>1. query \in Queries
    BY <1>14 DEF SearchStep, TypeOK
  <2>2. edb[<<query.w, l>>] \in Updates \cup {None}
    BY <2>1 DEF TypeOK, Tokens, Queries
  <2>3. query' \in Queries
    BY <1>14, <2>1, <2>2 DEF SearchStep, Queries
  <2>4. TypeOK'
    BY <1>14, <2>3 DEF SearchStep, TypeOK, client, wires, history
  <2>5. Room' /\ JobsInv' /\ WiresInv'
    BY <1>14 DEF SearchStep, Room, JobsInv, WiresInv, Got, Carries, At, Turns, Current, client, wires, history
  <2>6. QED
    BY <2>4, <2>5
<1>15. CASE SearchReturn \/ SearchBreak
  <2>1. query \in Queries /\ query' = None /\ faults' \in 0..MaxFaults
        /\ UNCHANGED <<client, job, wires, edb, history, kills>>
    BY <1>15, BoundsAssumption DEF SearchReturn, SearchBreak, TypeOK
  <2>2. answer' \in Answers
    <3>1. query.w \in Keywords /\ query.found \in SUBSET Updates
      BY <2>1 DEF Queries
    <3>2. CASE SearchReturn
      BY <3>1, <3>2 DEF SearchReturn, Answers
    <3>3. CASE SearchBreak
      BY <3>1, <3>3 DEF SearchBreak, Answers
    <3>4. QED
      BY <1>15, <3>2, <3>3
  <2>3. TypeOK'
    BY <2>1, <2>2 DEF TypeOK, client, wires, history
  <2>4. Room' /\ JobsInv' /\ WiresInv'
    BY <2>1 DEF Room, JobsInv, WiresInv, Got, Carries, At, Turns, Current, client, wires, history
  <2>5. QED
    BY <2>3, <2>4
<1>16. CASE Exit
  <2>1. TypeOK'
    BY <1>16 DEF Exit, TypeOK, search, history
  <2>2. Room' /\ JobsInv' /\ WiresInv'
    BY <1>16 DEF Exit, Idle, Room, JobsInv, WiresInv, Got, Carries, At, Turns, Current, search, history
  <2>3. QED
    BY <2>1, <2>2
<1>17. CASE Kill
  <2>1. CountersLeft \in [Keywords -> Labels \cup {None}]
    BY DEF CountersLeft, TypeOK
  <2>2. lost' \in SUBSET Updates
    <3>1. \A t \in Threads : At(t, "send") => job[t].u \in Updates
      BY NoneAssumption DEF TypeOK, At, Jobs
    <3>2. QED
      BY <1>17, <3>1 DEF Kill, TypeOK
  <2>3. TypeOK'
    <3>1. disturbed' \in SUBSET Keywords /\ kills' \in 0..MaxKills /\ job' \in [Threads -> Jobs \cup {None}]
      BY <1>17, BoundsAssumption DEF Kill, TypeOK
    <3>2. counter_map' \in [Keywords -> Labels \cup {None}]
      BY <1>17, <2>1 DEF Kill
    <3>3. /\ up' = FALSE /\ session' = "closed" /\ sent' = {} /\ query' = None /\ answer' = None
          /\ UNCHANGED <<flushed, streams, calls, edb, made, acked, faults>>
      BY <1>17 DEF Kill
    <3>4. QED
      BY <2>2, <3>1, <3>2, <3>3 DEF TypeOK
  <2>4. Got' \subseteq Got
    BY <1>17 DEF Kill, Got, At
  <2>5. Room'
    BY <1>17, <2>4, <1>n, RoomStays DEF Kill
  <2>6. JobsInv' /\ WiresInv'
    BY <1>17 DEF Kill, JobsInv, WiresInv, Carries, At, Turns, Current
  <2>7. QED
    BY <2>3, <2>5, <2>6
<1>18. CASE Start
  <2>1. TypeOK'
    BY <1>18 DEF Start, TypeOK, wires, search, history
  <2>2. Room' /\ JobsInv' /\ WiresInv'
    BY <1>18 DEF Start, Room, JobsInv, WiresInv, Got, Carries, At, Turns, Current, wires, search, history
  <2>3. QED
    BY <2>1, <2>2
<1>19. CASE UNCHANGED vars
  BY <1>19 DEF vars, client, wires, search, history, TypeOK, Room, JobsInv, WiresInv, Got, Carries, At, Turns, Current
<1>20. QED
  BY <1>1, <1>2, <1>3, <1>4, <1>5, <1>6, <1>7, <1>8, <1>9, <1>10, <1>11, <1>12, <1>13, <1>14,
     <1>15, <1>16, <1>17, <1>18, <1>19 DEF Next, Update, Serve, Search

----------------------------------------------------------------------------
(* The labels in use *)

LEMMA InitCounters == Init => CountersInv
BY DEF Init, CountersInv, TokensContiguous, LabelsMade, At, Turns

\* What making an update adds to the labels in use.
LEMMA MakeLabels ==
  ASSUME TypeOK, NEW t \in Threads, NEW l \in Labels, <<job[t].w, l>> \in Tokens,
         made' = Append(made, <<job[t].w, l>>)
  PROVE  /\ Turns' = Turns \cup {Len(made) + 1} /\ Len(made) + 1 \notin Turns
         /\ made'[Len(made) + 1] = <<job[t].w, l>> /\ \A u \in Turns : made'[u] = made[u]
         /\ \A w \in Keywords :
              LabelsMade(w)' = LabelsMade(w) \cup (IF w = job[t].w THEN {l} ELSE {})
<1>1. Len(made) \in Nat /\ Len(made') = Len(made) + 1
  BY DEF TypeOK
<1>2. made'[Len(made) + 1] = <<job[t].w, l>> /\ \A u \in Turns : made'[u] = made[u]
  BY DEF TypeOK, Turns
<1>3. Turns' = Turns \cup {Len(made) + 1} /\ Len(made) + 1 \notin Turns
  BY <1>1 DEF Turns
<1>4. \A w \in Keywords : LabelsMade(w) = {made[u][2] : u \in {u \in Turns : made[u][1] = w}}
  BY DEF LabelsMade, Turns
<1>5. \A w \in Keywords : LabelsMade(w)' = {made'[u][2] : u \in {u \in Turns' : made'[u][1] = w}}
  BY DEF LabelsMade, Turns
<1>6. \A w \in Keywords :
        LabelsMade(w)' = LabelsMade(w) \cup (IF w = job[t].w THEN {l} ELSE {})
  <2> TAKE w \in Keywords
  <2>1. \A m : m \in LabelsMade(w) <=> \E u \in Turns : made[u][1] = w /\ m = made[u][2]
    BY <1>4
  <2>2. \A m : m \in LabelsMade(w)' <=> \E u \in Turns' : made'[u][1] = w /\ m = made'[u][2]
    BY <1>5
  <2>3. \A u \in Turns' : u \in Turns \/ u = Len(made) + 1
    BY <1>3
  <2>4. made'[Len(made) + 1][1] = job[t].w /\ made'[Len(made) + 1][2] = l
    BY <1>2
  <2>5. ASSUME NEW m \in LabelsMade(w)'
        PROVE  m \in LabelsMade(w) \/ (w = job[t].w /\ m = l)
    <3>1. PICK u \in Turns' : made'[u][1] = w /\ m = made'[u][2]
      BY <2>2, <2>5
    <3>2. CASE u \in Turns
      BY <3>1, <3>2, <2>1, <1>2
    <3>3. CASE u = Len(made) + 1
      BY <3>1, <3>3, <2>4
    <3>4. QED
      BY <3>2, <3>3, <2>3
  <2>6. ASSUME NEW m \in LabelsMade(w)
        PROVE  m \in LabelsMade(w)'
    <3>1. PICK u \in Turns : made[u][1] = w /\ m = made[u][2]
      BY <2>1, <2>6
    <3>2. u \in Turns' /\ made'[u] = made[u]
      BY <3>1, <1>2, <1>3
    <3>3. QED
      BY <3>1, <3>2, <2>2
  <2>7. w = job[t].w => l \in LabelsMade(w)'
    BY <2>2, <2>4, <1>3
  <2>8. QED
    BY <2>5, <2>6, <2>7
<1>7. QED
  BY <1>2, <1>3, <1>6

\* A step that makes nothing and leaves the counters alone.
LEMMA CountersStay ==
  ASSUME CountersInv, UNCHANGED <<made, counter_map, flushed>>,
         \A t \in Threads : At(t, "got")' => At(t, "got") /\ job'[t] = job[t]
  PROVE  CountersInv'
BY DEF CountersInv, TokensContiguous, LabelsMade, Turns

LEMMA StepCounters ==
  ASSUME TypeInv, TypeInv', CountersInv, [Next]_vars
  PROVE  CountersInv'
<1> USE DEF TypeInv
<1>1. ASSUME NEW t \in Threads, NEW w \in Keywords, GetCounter(t, w)
      PROVE  CountersInv'
  <2>1. job' = [job EXCEPT ![t] = [at |-> "got", w |-> w, c |-> counter_map[w]]]
    BY <1>1 DEF GetCounter
  <2>2. UNCHANGED <<made, counter_map, flushed>>
    BY <1>1 DEF GetCounter, client
  <2>3. \A s \in Threads : At(s, "got")' /\ job'[s].c # None => job'[s].c \in LabelsMade(job'[s].w)
    BY <2>1 DEF CountersInv, TokensContiguous, At, TypeOK
  <2>4. QED
    BY <2>2, <2>3 DEF CountersInv, TokensContiguous, LabelsMade, Turns
<1>2. ASSUME NEW t \in Threads, NEW l \in Labels, NEW c \in Labels, At(t, "got"), Make(t, l),
             counter_map' = [counter_map EXCEPT ![job[t].w] = c],
             c = l \/ c = counter_map[job[t].w], UNCHANGED <<up, query, flushed>>,
             l > 0 => l - 1 \in LabelsMade(job[t].w)
      PROVE  CountersInv'
  <2>1. job[t].w \in Keywords
    BY <1>2, NoneAssumption DEF At, TypeOK, Jobs
  <2>2. made' = Append(made, <<job[t].w, l>>) /\ <<job[t].w, l>> \in Tokens
    BY <1>2, MakeTypes
  <2>3. /\ Turns' = Turns \cup {Len(made) + 1} /\ Len(made) + 1 \notin Turns
        /\ made'[Len(made) + 1] = <<job[t].w, l>> /\ \A u \in Turns : made'[u] = made[u]
        /\ \A w \in Keywords :
             LabelsMade(w)' = LabelsMade(w) \cup (IF w = job[t].w THEN {l} ELSE {})
    BY <1>2, <2>2, MakeLabels
  <2>4. \A w \in Keywords : LabelsMade(w) \subseteq Nat
    BY DEF LabelsMade, TypeOK, Tokens, Labels
  <2>5. l \in Nat /\ l < Len(made) + 1
    <3>1. l \in Nat /\ Len(made) \in Nat
      BY BoundsAssumption DEF Labels, TypeOK
    <3>2. CASE l = 0
      BY <3>1, <3>2
    <3>3. CASE l > 0
      <4>1. PICK u \in Turns : made[u][2] = l - 1
        BY <1>2, <3>3 DEF LabelsMade, Turns
      <4>2. QED
        BY <4>1, <3>1, <3>3 DEF CountersInv, Turns
    <3>4. QED
      BY <3>1, <3>2, <3>3
  <2>6. ASSUME NEW w \in Keywords, NEW m \in LabelsMade(w)'
        PROVE  0..m \subseteq LabelsMade(w)'
    <3>1. CASE m \in LabelsMade(w)
      BY <3>1, <2>3 DEF CountersInv, TokensContiguous
    <3>2. CASE m \notin LabelsMade(w)
      <4>1. w = job[t].w /\ m = l
        BY <3>2, <2>3, <2>6
      <4>2. \A k \in 0..l : k = l \/ k \in 0..(l - 1)
        BY <2>5
      <4>3. l > 0 => 0..(l - 1) \subseteq LabelsMade(w)
        BY <4>1, <1>2 DEF CountersInv, TokensContiguous
      <4>4. QED
        BY <4>1, <4>2, <4>3, <2>3, <2>5
    <3>3. QED
      BY <3>1, <3>2
  <2>7. ASSUME NEW w \in Keywords, counter_map'[w] # None
        PROVE  counter_map'[w] \in LabelsMade(w)'
    BY <1>2, <2>1, <2>3, <2>7, NoneAssumption DEF CountersInv, TokensContiguous, TypeOK
  <2>8. TokensContiguous'
    BY <2>6, <2>7 DEF TokensContiguous
  <2>9. \A s \in Threads : At(s, "got")' => At(s, "got") /\ job'[s] = job[s] /\ job[s].w \in Keywords
    BY <1>2, NoneAssumption DEF Make, At, TypeOK, Jobs
  <2>10. \A u \in Turns' : made'[u][2] < u
    BY <2>3, <2>5 DEF CountersInv
  <2>11. QED
    BY <1>2, <2>3, <2>8, <2>9, <2>10 DEF CountersInv
<1>3. ASSUME NEW t \in Threads, AddCounter(t)
      PROVE  CountersInv'
  <2>1. PICK c \in {0} \cup ({counter_map[job[t].w]} \ {None}) :
          counter_map' = [counter_map EXCEPT ![job[t].w] = c]
    BY <1>3 DEF AddCounter
  <2>2. job[t].w \in Keywords
    BY <1>3, NoneAssumption DEF AddCounter, At, TypeOK, Jobs
  <2>3. c \in Labels /\ 0 \in Labels /\ (c = 0 \/ c = counter_map[job[t].w])
    BY <2>1, <2>2, BoundsAssumption DEF TypeOK, Labels
  <2>4. At(t, "got") /\ Make(t, 0) /\ UNCHANGED <<up, query, flushed>>
    BY <1>3 DEF AddCounter, search
  <2>5. QED
    <3>1. 0 > 0 => 0 - 1 \in LabelsMade(job[t].w)
      OBVIOUS
    <3>2. QED
      BY <2>1, <2>3, <2>4, <3>1, <1>2
<1>4. ASSUME NEW t \in Threads, SetCounter(t)
      PROVE  CountersInv'
  <2>1. job[t].w \in Keywords /\ job[t].c \in Labels
    BY <1>4, NoneAssumption DEF SetCounter, At, TypeOK, Jobs
  <2>2. job[t].c \in LabelsMade(job[t].w)
    BY <1>4 DEF SetCounter, CountersInv
  <2>3. At(t, "got") /\ Make(t, job[t].c + 1) /\ UNCHANGED <<up, query, flushed>>
        /\ counter_map' = [counter_map EXCEPT ![job[t].w] = job[t].c + 1]
    BY <1>4 DEF SetCounter, search
  <2>4. job[t].c + 1 \in Labels
    BY <2>1, <2>2, NextLabel
  <2>5. (job[t].c + 1) - 1 = job[t].c
    BY <2>1, BoundsAssumption DEF Labels
  <2>6. QED
    BY <2>2, <2>3, <2>4, <2>5, <1>2
<1>5. ASSUME NEW t \in Threads,
             SendInSession(t) \/ SendCall(t) \/ CallReturn(t) \/ CallBreak(t)
      PROVE  CountersInv'
  <2>1. UNCHANGED <<made, counter_map, flushed>>
    BY <1>5 DEF SendInSession, SendCall, CallReturn, CallBreak, client, history
  <2>2. \A s \in Threads \ {t} : job'[s] = job[s]
    BY <1>5 DEF SendInSession, SendCall, CallReturn, CallBreak, TypeOK
  <2>3. ~At(t, "got")'
    <3>1. CASE SendCall(t)
      <4>1. job'[t] = [job[t] EXCEPT !.at = "wait"] /\ job[t] \in Jobs /\ job[t].at = "send"
        BY <3>1 DEF SendCall, TypeOK, At
      <4>2. QED
        BY <4>1 DEF At, Jobs
    <3>2. CASE ~SendCall(t)
      BY <1>5, <3>2 DEF SendInSession, CallReturn, CallBreak, TypeOK, At
    <3>3. QED
      BY <3>1, <3>2
  <2>4. QED
    BY <2>1, <2>2, <2>3, CountersStay DEF At
<1>6. CASE \/ StartSession \/ EndSession \/ \E n \in 0..MaxUpdates : SessionBreak(n)
           \/ Serve \/ (\E w \in Keywords : SearchBegin(w)) \/ Search \/ SearchBreak \/ Start
           \/ UNCHANGED vars
  <2>1. UNCHANGED <<made, counter_map, flushed, job>>
    BY <1>6 DEF StartSession, EndSession, SessionBreak, Serve, ServerUpdate, ServerBulk,
       SearchBegin, Search, SearchStep, SearchReturn, SearchBreak, Start, vars, client, history
  <2>2. QED
    BY <2>1, CountersStay DEF At
<1>7. CASE ServerRestart
  BY <1>7, CountersStay DEF ServerRestart, client, At
<1>8. CASE Exit
  BY <1>8 DEF Exit, CountersInv, TokensContiguous, LabelsMade, Turns, At, history
<1>9. CASE Kill
  <2>1. \A w \in Keywords : counter_map'[w] # None => counter_map'[w] \in LabelsMade(w)
    BY <1>9 DEF Kill, CountersLeft, CountersInv, TokensContiguous
  <2>2. \A t \in Threads : ~At(t, "got")'
    BY <1>9 DEF Kill, At
  <2>3. UNCHANGED <<made, flushed>>
    BY <1>9 DEF Kill
  <2>4. QED
    BY <2>1, <2>2, <2>3 DEF CountersInv, TokensContiguous, LabelsMade, Turns
<1>10. QED
  BY <1>1, <1>3, <1>4, <1>5, <1>6, <1>7, <1>8, <1>9 DEF Next, Update

----------------------------------------------------------------------------
(* Where an update is *)

LEMMA OnWireDef ==
  \A u : u \in OnWire <=> u \in calls \/ \E i \in 1..Current : u \in Range(streams[i])
BY DEF OnWire

\* An entry, once there, is not taken away, and none is stored under a wrong token.
LEMMA EdbSteps ==
  ASSUME TypeInv, [Next]_vars
  PROVE  /\ \A k \in Tokens : edb[k] # None => edb'[k] # None
         /\ \A k \in Tokens : edb'[k] # edb[k] =>
              \E u \in Turns : k = made[u] /\ edb'[k] = u /\ u \in OnWire
         /\ edb' # edb => /\ \E u \in Turns : edb' = [edb EXCEPT ![made[u]] = u]
                          /\ UNCHANGED <<made, counter_map, query, answer, disturbed>>
<1> USE DEF TypeInv
<1>1. ASSUME NEW u \in Updates, ServerUpdate(u)
      PROVE  /\ u \in Turns /\ u \in OnWire /\ u # None
             /\ edb' = [edb EXCEPT ![made[u]] = u]
             /\ UNCHANGED <<made, counter_map, query, answer, disturbed>>
  BY <1>1, OnWireDef, NoneAssumption DEF ServerUpdate, WiresInv, client, search, history
<1>2. ASSUME NEW i \in 1..Current, ServerBulk(i)
      PROVE  /\ Head(streams[i]) \in Turns /\ Head(streams[i]) \in OnWire /\ Head(streams[i]) # None
             /\ edb' = [edb EXCEPT ![made[Head(streams[i])]] = Head(streams[i])]
             /\ UNCHANGED <<made, counter_map, query, answer, disturbed>>
  <2>1. streams[i] \in Seq(Updates) /\ streams[i] # <<>>
    BY <1>2 DEF ServerBulk, TypeOK, Current
  <2>2. Head(streams[i]) \in Updates /\ Head(streams[i]) \in Range(streams[i])
    BY <2>1, TailRange
  <2>3. QED
    BY <1>2, <2>2, OnWireDef, NoneAssumption DEF ServerBulk, WiresInv, client, search, history
<1>3. CASE Serve
  <2>1. PICK u \in Turns : /\ u \in OnWire /\ u # None
                           /\ edb' = [edb EXCEPT ![made[u]] = u]
                           /\ UNCHANGED <<made, counter_map, query, answer, disturbed>>
    BY <1>1, <1>2, <1>3 DEF Serve
  <2>2. made[u] \in Tokens
    BY DEF TypeOK, Turns
  <2>3. QED
    BY <2>1, <2>2 DEF TypeOK
<1>4. CASE ~Serve
  <2>1. edb' = edb
    BY <1>4 DEF Next, Update, Search, GetCounter, AddCounter, SetCounter, SendInSession, SendCall,
       CallReturn, CallBreak, StartSession, EndSession, SessionBreak, ServerRestart, SearchBegin,
       SearchStep, SearchReturn, SearchBreak, Exit, Kill, Start, vars
  <2>2. QED
    BY <2>1
<1>5. QED
  BY <1>3, <1>4

LEMMA InitWhere == Init => WhereInv /\ StoredInv
BY DEF Init, WhereInv, StoredInv, Turns, At

\* A step that makes nothing and takes from the wires only what it stores or loses.
LEMMA WhereStays ==
  ASSUME TypeInv, WhereInv, [Next]_vars, made' = made,
         \A u \in Turns : u \in lost \cup OnWire => u \in lost' \cup OnWire' \/ edb'[made[u]] # None,
         \A t \in Threads : At(t, "send") =>
           (At(t, "send")' /\ job'[t].u = job[t].u) \/ job[t].u \in lost' \cup OnWire'
  PROVE  WhereInv'
<1>1. \A u \in Turns : edb[made[u]] # None => edb'[made[u]] # None
  BY EdbSteps DEF TypeInv, TypeOK, Turns
<1>2. Turns' = Turns
  BY DEF Turns
<1>3. QED
  BY <1>1, <1>2 DEF WhereInv

LEMMA StepWhere ==
  ASSUME TypeInv, TypeInv', WhereInv, [Next]_vars
  PROVE  WhereInv'
<1> USE DEF TypeInv
<1>w. /\ \A u : u \in OnWire <=> u \in calls \/ \E i \in 1..Current : u \in Range(streams[i])
      /\ \A u : u \in OnWire' <=> u \in calls' \/ \E i \in 1..Current' : u \in Range(streams'[i])
  BY OnWireDef DEF OnWire
<1>s. streams \in Seq(Seq(Updates)) /\ Current \in Nat /\ Current = Len(streams)
  BY DEF TypeOK, Current
<1>1. ASSUME NEW t \in Threads, NEW w \in Keywords, GetCounter(t, w)
      PROVE  WhereInv'
  BY <1>1, WhereStays DEF GetCounter, wires, OnWire, Current, At, TypeOK
<1>2. ASSUME NEW t \in Threads, AddCounter(t) \/ SetCounter(t)
      PROVE  WhereInv'
  <2>1. PICK l \in Nat : Make(t, l)
    <3>1. job[t].c # None => job[t].c \in Labels \/ ~SetCounter(t)
      BY NoneAssumption DEF TypeOK, Jobs, SetCounter, At
    <3>2. QED
      BY <1>2, <3>1, BoundsAssumption DEF AddCounter, SetCounter, Labels
  <2>2. made \in Seq(Tokens) /\ made' = Append(made, <<job[t].w, l>>)
    BY <2>1 DEF Make, TypeOK
  <2>3. Turns' = Turns \cup {Len(made) + 1} /\ \A u \in Turns : made'[u] = made[u]
    BY <2>2 DEF Turns
  <2>4. job' = [job EXCEPT ![t] = [at |-> "send", u |-> Len(made) + 1]] /\ job \in [Threads -> Jobs \cup {None}]
    BY <2>1 DEF Make, TypeOK
  <2>5. At(t, "send")' /\ job'[t].u = Len(made) + 1
    <3>1. job'[t] # None
      <4>1. Len(made) + 1 \in Updates
        BY <2>2 DEF TypeOK, Updates
      <4>2. QED
        BY <2>4, <4>1, NoneAssumption DEF Jobs
    <3>2. QED
      BY <2>4, <3>1 DEF At
  <2>6. UNCHANGED <<edb, lost, OnWire>> /\ At(t, "got")
    BY <1>2 DEF AddCounter, SetCounter, wires, OnWire, Current
  <2>7. \A s \in Threads : At(s, "send") => At(s, "send")' /\ job'[s] = job[s]
    BY <2>4, <2>6 DEF At
  <2>8. QED
    BY <2>3, <2>5, <2>6, <2>7 DEF WhereInv
<1>3. ASSUME NEW t \in Threads, SendInSession(t)
      PROVE  WhereInv'
  <2>1. job[t].u \in Updates
    BY <1>3, NoneAssumption DEF SendInSession, At, TypeOK, Jobs
  <2>2. Current \in 1..Len(streams) /\ streams[Current] \in Seq(Updates)
    BY <1>3, <1>s DEF SendInSession, WiresInv
  <2>3. Range(Append(streams[Current], job[t].u)) = Range(streams[Current]) \cup {job[t].u}
    BY <2>1, <2>2, AppendRange
  <2>4. job[t].u \in lost' \cup OnWire' /\ lost \cup OnWire \subseteq lost' \cup OnWire'
    <3>1. CASE session = "open"
      <4>1. streams' = [streams EXCEPT ![Current] = Append(streams[Current], job[t].u)] /\ UNCHANGED <<lost, calls>>
        BY <1>3, <3>1 DEF SendInSession
      <4>2. Current' = Current /\ streams'[Current] = Append(streams[Current], job[t].u)
            /\ \A i \in 1..Current : i # Current => streams'[i] = streams[i]
        BY <4>1, <2>2, <1>s DEF Current
      <4>3. QED
        BY <4>1, <4>2, <2>2, <2>3, <1>w, <1>s
    <3>2. CASE session # "open"
      BY <1>3, <3>2 DEF SendInSession, OnWire, Current
    <3>3. QED
      BY <3>1, <3>2
  <2>5. \A s \in Threads \ {t} : job'[s] = job[s]
    BY <1>3 DEF SendInSession, TypeOK
  <2>6. QED
    BY <1>3, <2>4, <2>5, WhereStays DEF SendInSession, At
<1>4. ASSUME NEW t \in Threads, SendCall(t)
      PROVE  WhereInv'
  <2>1. job[t].u \in calls' /\ calls \subseteq calls' /\ UNCHANGED <<streams, lost, made>>
    BY <1>4 DEF SendCall, history
  <2>2. lost \cup OnWire \subseteq lost' \cup OnWire' /\ job[t].u \in OnWire'
    BY <2>1, <1>w DEF Current
  <2>3. \A s \in Threads \ {t} : job'[s] = job[s]
    BY <1>4 DEF SendCall, TypeOK
  <2>4. QED
    BY <2>1, <2>2, <2>3, WhereStays DEF At
<1>5. ASSUME NEW t \in Threads, CallReturn(t) \/ CallBreak(t)
      PROVE  WhereInv'
  <2>1. calls \subseteq calls' \cup lost' /\ lost \subseteq lost' /\ UNCHANGED <<streams, made>>
    BY <1>5 DEF CallReturn, CallBreak, wires
  <2>2. lost \cup OnWire \subseteq lost' \cup OnWire'
    BY <2>1, <1>w DEF Current
  <2>3. (\A s \in Threads \ {t} : job'[s] = job[s]) /\ ~At(t, "send")
    BY <1>5 DEF CallReturn, CallBreak, TypeOK, At
  <2>4. QED
    BY <2>1, <2>2, <2>3, WhereStays DEF At
<1>6. CASE StartSession
  <2>1. /\ Len(streams') = Current + 1
        /\ \A i \in 1..Current : streams'[i] = streams[i]
        /\ UNCHANGED <<calls, lost, made, job>>
    BY <1>6, <1>s DEF StartSession, history
  <2>2. lost \cup OnWire \subseteq lost' \cup OnWire'
    BY <2>1, <1>w, <1>s DEF Current
  <2>3. QED
    BY <2>1, <2>2, WhereStays DEF At
<1>7. CASE EndSession \/ Exit \/ Start \/ UNCHANGED vars \/ SearchReturn \/ SearchBreak
           \/ (\E w \in Keywords : SearchBegin(w)) \/ \E l \in Labels : SearchStep(l)
  <2>1. UNCHANGED <<calls, streams, lost, made, job>>
    BY <1>7 DEF EndSession, Exit, Start, vars, SearchReturn, SearchBreak, SearchBegin, SearchStep,
       wires, history
  <2>2. QED
    BY <2>1, WhereStays DEF At, OnWire, Current
<1>8. ASSUME NEW n \in 0..MaxUpdates, SessionBreak(n)
      PROVE  WhereInv'
  <2>1. Current \in 1..Len(streams) /\ streams[Current] \in Seq(Updates) /\ n \in Nat /\ n <= Len(streams[Current])
    BY <1>8, <1>s DEF SessionBreak, WiresInv
  <2>2. Range(streams[Current]) = Range(SubSeq(streams[Current], 1, n))
                                  \cup Range(SubSeq(streams[Current], n + 1, Len(streams[Current])))
    BY <2>1, SplitRange
  <2>3. /\ streams' = [streams EXCEPT ![Current] = SubSeq(streams[Current], 1, n)]
        /\ lost' = lost \cup Range(SubSeq(streams[Current], n + 1, Len(streams[Current])))
        /\ UNCHANGED <<calls, made, job>>
    BY <1>8 DEF SessionBreak
  <2>4. Current' = Current /\ streams'[Current] = SubSeq(streams[Current], 1, n)
        /\ \A i \in 1..Current : i # Current => streams'[i] = streams[i]
    BY <2>1, <2>3, <1>s DEF Current
  <2>5. lost \cup OnWire \subseteq lost' \cup OnWire'
    <3> SUFFICES ASSUME NEW u \in lost \cup OnWire, u \notin lost' PROVE u \in OnWire'
      OBVIOUS
    <3>1. CASE u \in calls
      BY <3>1, <2>3, <1>w
    <3>2. ASSUME NEW i \in 1..Current, u \in Range(streams[i]) PROVE u \in OnWire'
      <4>1. CASE i = Current
        BY <4>1, <3>2, <2>2, <2>3, <2>4, <1>w
      <4>2. CASE i # Current
        BY <4>2, <3>2, <2>4, <1>w
      <4>3. QED
        BY <4>1, <4>2
    <3>3. QED
      BY <3>1, <3>2, <2>3, <1>w
  <2>6. QED
    BY <2>3, <2>5, WhereStays DEF At
<1>9. ASSUME NEW u \in Updates, ServerUpdate(u)
      PROVE  WhereInv'
  <2>1. u \in Turns /\ made[u] \in Tokens /\ u # None
    BY <1>9, NoneAssumption DEF ServerUpdate, WiresInv, TypeOK, Turns
  <2>2. edb'[made[u]] # None
    BY <1>9, <2>1 DEF ServerUpdate, TypeOK
  <2>3. calls' = calls \ {u} /\ UNCHANGED <<streams, lost, made, job>>
    BY <1>9 DEF ServerUpdate, history
  <2>4. \A v \in Turns : v \in lost \cup OnWire => v \in lost' \cup OnWire' \/ edb'[made[v]] # None
    BY <2>2, <2>3, <1>w DEF Current
  <2>5. QED
    BY <2>3, <2>4, WhereStays DEF At
<1>10. ASSUME NEW i \in 1..Current, ServerBulk(i)
       PROVE  WhereInv'
  <2>1. streams[i] \in Seq(Updates) /\ streams[i] # <<>>
    BY <1>10, <1>s DEF ServerBulk
  <2> DEFINE h == Head(streams[i])
  <2>2. h \in Updates /\ Range(streams[i]) = Range(Tail(streams[i])) \cup {h}
    BY <2>1, TailRange
  <2>3. streams' = [streams EXCEPT ![i] = Tail(streams[i])] /\ UNCHANGED <<calls, lost, made, job>>
        /\ edb' = [edb EXCEPT ![made[h]] = h]
    BY <1>10 DEF ServerBulk, history
  <2>4. h \in Turns /\ made[h] \in Tokens /\ h # None
    <3>1. h \in Turns
      BY <2>2 DEF WiresInv
    <3>2. made[h] \in Tokens
      BY <3>1 DEF TypeOK, Turns
    <3>3. QED
      BY <3>1, <3>2, <2>2, NoneAssumption
  <2>5. edb'[made[h]] # None
    BY <2>3, <2>4 DEF TypeOK
  <2>6. Current' = Current /\ \A k \in 1..Current : streams'[k] = IF k = i THEN Tail(streams[i]) ELSE streams[k]
    BY <2>3, <1>s DEF Current
  <2> HIDE DEF h
  <2>7. \A v \in Turns : v \in lost \cup OnWire => v \in lost' \cup OnWire' \/ v = h
    BY <2>2, <2>3, <2>6, <1>w
  <2>8. QED
    BY <2>3, <2>5, <2>7, WhereStays DEF At
<1>11. CASE ServerRestart
  <2>1. lost' = lost \cup OnWire /\ made' = made /\ \A t \in Threads : At(t, "send") => job'[t] = job[t]
    BY <1>11 DEF ServerRestart, At
  <2>2. lost \cup OnWire \subseteq lost' \cup OnWire'
    BY <2>1
  <2>3. \A t \in Threads : At(t, "send") => At(t, "send")' /\ job'[t].u = job[t].u
    BY <2>1 DEF At
  <2>4. QED
    BY <2>1, <2>2, <2>3, WhereStays
<1>12. CASE Kill
  <2>1. /\ lost' = lost \cup {job[t].u : t \in {t \in Threads : At(t, "send")}}
        /\ UNCHANGED <<streams, calls, made>>
    BY <1>12 DEF Kill
  <2>2. QED
    BY <2>1, WhereStays DEF OnWire, Current
<1>13. QED
  BY <1>1, <1>2, <1>3, <1>4, <1>5, <1>6, <1>7, <1>8, <1>9, <1>10, <1>11, <1>12 DEF Next, Update, Serve, Search

----------------------------------------------------------------------------
(* What is stored *)

\* Updates that were made stay as they are.
LEMMA MadeSteps ==
  ASSUME TypeInv, TypeInv', CountersInv, [Next]_vars
  PROVE  Turns \subseteq Turns' /\ \A u \in Turns : made'[u] = made[u]
<1> USE DEF TypeInv
<1>1. ASSUME NEW t \in Threads, NEW l, Make(t, l)
      PROVE  Turns \subseteq Turns' /\ \A u \in Turns : made'[u] = made[u]
  <2>1. made \in Seq(Tokens) /\ made' \in Seq(Tokens) /\ made' = Append(made, <<job[t].w, l>>)
    BY <1>1 DEF Make, TypeOK
  <2>2. QED
    BY <2>1 DEF Turns
<1>2. CASE \E t \in Threads : AddCounter(t) \/ SetCounter(t)
  BY <1>1, <1>2 DEF AddCounter, SetCounter
<1>3. CASE ~\E t \in Threads : AddCounter(t) \/ SetCounter(t)
  <2>1. made' = made
    BY <1>3 DEF Next, Update, Search, Serve, GetCounter, SendInSession, SendCall, CallReturn,
       CallBreak, StartSession, EndSession, SessionBreak, ServerUpdate, ServerBulk, ServerRestart,
       SearchBegin, SearchStep, SearchReturn, SearchBreak, Exit, Kill, Start, vars, history
  <2>2. QED
    BY <2>1 DEF Turns
<1>4. QED
  BY <1>2, <1>3

LEMMA StepStored ==
  ASSUME TypeInv, TypeInv', CountersInv, StoredInv, [Next]_vars
  PROVE  StoredInv'
<1> USE DEF TypeInv
<1> DEFINE Taken(u) == edb[made[u]] # None
<1>1. Turns \subseteq Turns' /\ \A u \in Turns : made'[u] = made[u] /\ made[u] \in Tokens
  BY MadeSteps DEF TypeOK, Turns
<1>2. \A u \in Turns : edb[made[u]] # None => edb'[made'[u]] # None
  BY <1>1, EdbSteps
<1>3. ASSUME NEW k \in Tokens, edb'[k] # None
      PROVE  edb'[k] \in Turns' /\ made'[edb'[k]] = k
  <2>1. CASE edb'[k] = edb[k]
    BY <1>1, <1>3, <2>1 DEF StoredInv
  <2>2. CASE edb'[k] # edb[k]
    BY <1>1, <2>2, EdbSteps
  <2>3. QED
    BY <2>1, <2>2
<1>4. ASSUME NEW u \in acked'
      PROVE  u \in Turns' /\ edb'[made'[u]] # None
  <2>1. CASE u \in acked
    BY <1>1, <1>2, <2>1 DEF StoredInv
  <2>2. ASSUME NEW t \in Threads, CallReturn(t), u = job[t].u
        PROVE  u \in Turns /\ edb[made[u]] # None
    <3>1. At(t, "wait") /\ job[t].u \in Updates
      BY <2>2, NoneAssumption DEF CallReturn, At, TypeOK, Jobs
    <3>2. QED
      BY <2>2, <3>1 DEF CallReturn, StoredInv, JobsInv, Carries
  <2>3. ASSUME EndSession, u \in sent, session = "open"
        PROVE  u \in Turns /\ edb[made[u]] # None
    <3>1. streams[Current] = <<>> /\ Range(<<>>) = {}
      BY <2>3 DEF EndSession, Range
    <3>2. QED
      BY <2>3, <3>1 DEF StoredInv, WiresInv
  <2>4. CASE u \notin acked
    <3>1. (\E t \in Threads : CallReturn(t) /\ u = job[t].u) \/ (EndSession /\ u \in sent /\ session = "open")
      BY <1>4, <2>4 DEF Next, Update, Search, Serve, GetCounter, AddCounter, SetCounter, SendInSession,
         SendCall, CallReturn, CallBreak, StartSession, EndSession, SessionBreak, ServerUpdate,
         ServerBulk, ServerRestart, SearchBegin, SearchStep, SearchReturn, SearchBreak, Exit, Kill,
         Start, vars, history
    <3>2. QED
      BY <1>1, <1>2, <2>2, <2>3, <3>1
  <2>5. QED
    BY <2>1, <2>4
<1>5. ASSUME NEW t \in Threads, At(t, "wait")'
      PROVE  job'[t].u \in calls' \/ edb'[made'[job'[t].u]] # None
  <2>0. job'[t].u \in Updates
    BY <1>5, NoneAssumption DEF At, TypeOK, Jobs
  <2>1. ASSUME SendCall(t)
        PROVE  job'[t].u \in calls'
    <3>1. job[t] \in Jobs /\ job[t].at = "send" /\ job'[t] = [job[t] EXCEPT !.at = "wait"]
      BY <2>1 DEF SendCall, At, TypeOK
    <3>2. QED
      BY <2>1, <3>1 DEF SendCall, Jobs
  <2>2. CASE ~SendCall(t)
    <3>1. At(t, "wait") /\ job'[t] = job[t] /\ ~ServerRestart
      <4>1. ASSUME NEW s \in Threads, SendCall(s), s # t
            PROVE  job'[t] = job[t]
        BY <4>1 DEF SendCall, TypeOK
      <4>2. ASSUME NEW s \in Threads, NEW w \in Keywords, GetCounter(s, w)
            PROVE  job'[t] = job[t]
        BY <1>5, <4>2 DEF GetCounter, TypeOK, At
      <4>3. ASSUME NEW s \in Threads, AddCounter(s) \/ SetCounter(s)
            PROVE  job'[t] = job[t]
        BY <1>5, <4>3 DEF AddCounter, SetCounter, Make, TypeOK, At
      <4>4. ASSUME NEW s \in Threads, SendInSession(s) \/ CallReturn(s) \/ CallBreak(s)
            PROVE  job'[t] = job[t]
        BY <1>5, <4>4 DEF SendInSession, CallReturn, CallBreak, TypeOK, At
      <4>5. ~ServerRestart /\ ~Kill
        BY <1>5 DEF ServerRestart, Kill, At
      <4>6. CASE UNCHANGED job
        BY <1>5, <4>5, <4>6 DEF At
      <4>7. CASE job' # job
        <5>1. job'[t] = job[t]
          BY <2>2, <4>1, <4>2, <4>3, <4>4, <4>5, <4>7
             DEF Next, Update, Search, Serve, StartSession, EndSession, SessionBreak, ServerUpdate,
             ServerBulk, SearchBegin, SearchStep, SearchReturn, SearchBreak, Exit, Start, vars
        <5>2. QED
          BY <1>5, <4>5, <5>1 DEF At
      <4>8. QED
        BY <4>6, <4>7
    <3>2. job[t].u \in Turns
      BY <2>0, <3>1 DEF JobsInv, Carries
    <3>3. job[t].u \in calls /\ job[t].u \notin calls' => edb'[made[job[t].u]] # None
      <4> SUFFICES ASSUME job[t].u \in calls, job[t].u \notin calls' PROVE edb'[made[job[t].u]] # None
        OBVIOUS
      <4>1. ASSUME NEW s \in Threads, CallBreak(s) PROVE FALSE
        <5>1. At(s, "wait") /\ job[s].u = job[t].u
          BY <4>1 DEF CallBreak, wires
        <5>2. s = t
          BY <2>0, <3>1, <5>1 DEF JobsInv, Carries
        <5>3. QED
          BY <4>1, <5>2, <1>5 DEF CallBreak, At, TypeOK
      <4>2. PICK u \in Updates : ServerUpdate(u)
        BY <3>1, <4>1 DEF Next, Update, Search, Serve, GetCounter, AddCounter, SetCounter, SendInSession,
           SendCall, CallReturn, StartSession, EndSession, SessionBreak, ServerBulk, SearchBegin,
           SearchStep, SearchReturn, SearchBreak, Exit, Kill, Start, vars, wires
      <4>3. u = job[t].u /\ edb' = [edb EXCEPT ![made[u]] = u] /\ u # None
        BY <4>2, NoneAssumption DEF ServerUpdate
      <4>4. QED
        BY <3>2, <4>3, <1>1 DEF TypeOK
    <3>4. QED
      BY <1>1, <1>2, <3>1, <3>2, <3>3, <1>5 DEF StoredInv
  <2>3. QED
    BY <2>1, <2>2
<1>6. ASSUME session' = "open", NEW u \in sent'
      PROVE  u \in Range(streams'[Current']) \/ edb'[made'[u]] # None
  <2>0. Current \in Nat /\ streams \in Seq(Seq(Updates)) /\ Current = Len(streams)
    BY DEF TypeOK, Current
  <2>1. ASSUME NEW t \in Threads, SendInSession(t)
        PROVE  u \in Range(streams'[Current']) \/ edb'[made'[u]] # None
    <3>1. job[t].u \in Updates /\ session = "open"
      BY <1>6, <2>1, NoneAssumption DEF SendInSession, At, TypeOK, Jobs
    <3>2. Current \in 1..Len(streams) /\ streams[Current] \in Seq(Updates)
      BY <2>0, <3>1 DEF WiresInv
    <3>3. Range(Append(streams[Current], job[t].u)) = Range(streams[Current]) \cup {job[t].u}
      BY <3>1, <3>2, AppendRange
    <3>4. streams' = [streams EXCEPT ![Current] = Append(streams[Current], job[t].u)]
          /\ sent' = sent \cup {job[t].u}
      BY <2>1, <3>1 DEF SendInSession
    <3>5. Current' = Current /\ streams'[Current] = Append(streams[Current], job[t].u)
      BY <3>2, <3>4 DEF Current
    <3>6. QED
      BY <3>1, <3>3, <3>4, <3>5, <1>1, <1>2, <1>6 DEF StoredInv, WiresInv
  <2>2. ASSUME NEW i \in 1..Current, ServerBulk(i)
        PROVE  u \in Range(streams'[Current']) \/ edb'[made'[u]] # None
    <3>1. streams[i] \in Seq(Updates) /\ streams[i] # <<>>
      BY <2>0, <2>2 DEF ServerBulk
    <3> DEFINE h == Head(streams[i])
    <3>2. h \in Updates /\ Range(streams[i]) = Range(Tail(streams[i])) \cup {h}
      BY <3>1, TailRange
    <3>3. streams' = [streams EXCEPT ![i] = Tail(streams[i])] /\ UNCHANGED <<made, sent, session>>
          /\ edb' = [edb EXCEPT ![made[h]] = h]
      BY <2>2 DEF ServerBulk, history
    <3>4. Current' = Current /\ streams'[Current] = IF Current = i THEN Tail(streams[i]) ELSE streams[Current]
      BY <3>3, <2>0 DEF Current
    <3>5. u \in Turns /\ h \in Turns
      BY <3>2, <3>3, <1>6 DEF WiresInv
    <3> HIDE DEF h
    <3>6. edb'[made[h]] # None
      BY <3>2, <3>3, <3>5, <1>1, NoneAssumption DEF TypeOK
    <3>7. u \in Range(streams[Current]) => u \in Range(streams'[Current']) \/ u = h
      BY <3>2, <3>4
    <3>8. QED
      BY <3>3, <3>5, <3>6, <3>7, <1>1, <1>2, <1>6 DEF StoredInv
  <2>3. ASSUME StartSession PROVE FALSE
    BY <2>3, <1>6 DEF StartSession, WiresInv
  <2>4. ASSUME ~\E t \in Threads : SendInSession(t), ~\E i \in 1..Current : ServerBulk(i)
        PROVE  UNCHANGED <<streams, sent, session>>
    BY <1>6, <2>3, <2>4 DEF Next, Update, Search, Serve, GetCounter, AddCounter, SetCounter, SendCall,
       CallReturn, CallBreak, EndSession, SessionBreak, ServerUpdate, ServerRestart,
       SearchBegin, SearchStep, SearchReturn, SearchBreak, Exit, Kill, Start, vars, wires
  <2>5. CASE UNCHANGED <<streams, sent, session>>
    BY <2>5, <1>1, <1>2, <1>6 DEF StoredInv, WiresInv, Current
  <2>6. QED
    BY <2>1, <2>2, <2>4, <2>5
<1>7. QED
  BY <1>3, <1>4, <1>5, <1>6 DEF StoredInv

----------------------------------------------------------------------------
(* Undisturbed keywords *)

LEMMA InitUndisturbed == Init => UndisturbedInv
BY DEF Init, UndisturbedInv, LabelsMade, Count, Turns, At

\* A step that makes nothing, changes no counter of an undisturbed keyword and
\* brings no thread to read one.
LEMMA UndisturbedStays ==
  ASSUME UndisturbedInv, made' = made, disturbed \subseteq disturbed',
         \A w \in Keywords \ disturbed' : counter_map'[w] = counter_map[w],
         \A t \in Threads : At(t, "got")' => At(t, "got") /\ job'[t] = job[t]
  PROVE  UndisturbedInv'
<1>1. \A w \in Keywords \ disturbed' : Count(w)' = Count(w)
  BY DEF Count
<1>2. \A w \in Keywords : LabelsMade(w)' = LabelsMade(w)
  BY DEF LabelsMade
<1>3. QED
  BY <1>1, <1>2 DEF UndisturbedInv, Turns

LEMMA StepUndisturbed ==
  ASSUME TypeInv, TypeInv', CountersInv, UndisturbedInv, [Next]_vars
  PROVE  UndisturbedInv'
<1> USE DEF TypeInv
<1>1. ASSUME NEW t \in Threads, NEW w \in Keywords, GetCounter(t, w)
      PROVE  UndisturbedInv'
  <2>1. job' = [job EXCEPT ![t] = [at |-> "got", w |-> w, c |-> counter_map[w]]] /\ job[t] = None
    BY <1>1 DEF GetCounter
  <2>2. UNCHANGED <<made, counter_map>> /\ disturbed \subseteq disturbed'
    BY <1>1 DEF GetCounter, client
  <2>3. w \notin disturbed' => \A s \in Threads : ~(At(s, "got") /\ job[s].w = w)
    BY <1>1 DEF GetCounter
  <2>4. \A s \in Threads : At(s, "got")' => IF s = t THEN job'[s].w = w /\ job'[s].c = counter_map[w]
                                            ELSE At(s, "got") /\ job'[s] = job[s]
    BY <2>1 DEF At, TypeOK
  <2>5. \A v \in Keywords : LabelsMade(v)' = LabelsMade(v) /\ Count(v)' = Count(v)
    BY <2>2 DEF LabelsMade, Count
  <2>6. Turns' = Turns
    BY <2>2 DEF Turns
  <2>7. ASSUME NEW v \in Keywords \ disturbed'
        PROVE  /\ \A s \in Threads : At(s, "got")' /\ job'[s].w = v => job'[s].c = counter_map'[v]
               /\ \A s, r \in Threads :
                    At(s, "got")' /\ At(r, "got")' /\ job'[s].w = v /\ job'[r].w = v => s = r
               /\ LabelsMade(v)' \subseteq Count(v)'
               /\ \A x, y \in Turns' : made'[x] = made'[y] /\ made'[x][1] = v => x = y
    BY <2>2, <2>3, <2>4, <2>5, <2>6, <2>7 DEF UndisturbedInv
  <2>8. QED
    BY <2>7 DEF UndisturbedInv
<1>2. ASSUME NEW t \in Threads, NEW l \in Labels, At(t, "got"), Make(t, l),
             \A w \in Keywords : w # job[t].w => counter_map'[w] = counter_map[w],
             job[t].w \notin disturbed =>
               counter_map'[job[t].w] = l /\ Count(job[t].w) = 0..(l - 1),
             UNCHANGED <<up, query, disturbed>>
      PROVE  UndisturbedInv'
  <2>1. PICK w \in Keywords : w = job[t].w
    BY <1>2, NoneAssumption DEF At, TypeOK, Jobs
  <2>2. made' = Append(made, <<w, l>>) /\ <<w, l>> \in Tokens
    BY <1>2, <2>1, MakeTypes
  <2>3. /\ Turns' = Turns \cup {Len(made) + 1} /\ Len(made) + 1 \notin Turns
        /\ made'[Len(made) + 1] = <<w, l>> /\ \A u \in Turns : made'[u] = made[u]
        /\ \A v \in Keywords : LabelsMade(v)' = LabelsMade(v) \cup (IF v = w THEN {l} ELSE {})
    BY <1>2, <2>1, <2>2, MakeLabels
  <2>4. \A s \in Threads : At(s, "got")' => At(s, "got") /\ job'[s] = job[s] /\ s # t
    BY <1>2 DEF Make, At, TypeOK
  <2>5. ASSUME NEW v \in Keywords \ disturbed, v # w
        PROVE  /\ \A s \in Threads : At(s, "got")' /\ job'[s].w = v => job'[s].c = counter_map'[v]
               /\ LabelsMade(v)' \subseteq Count(v)'
               /\ \A x, y \in Turns' : made'[x] = made'[y] /\ made'[x][1] = v => x = y
    <3>1. counter_map'[v] = counter_map[v] /\ Count(v)' = Count(v) /\ LabelsMade(v)' = LabelsMade(v)
      BY <1>2, <2>1, <2>3, <2>5 DEF Count
    <3>2. QED
      BY <2>3, <2>4, <2>5, <3>1 DEF UndisturbedInv
  <2>6. ASSUME w \notin disturbed
        PROVE  /\ \A s \in Threads : At(s, "got")' /\ job'[s].w = w => job'[s].c = counter_map'[w]
               /\ LabelsMade(w)' \subseteq Count(w)'
               /\ \A x, y \in Turns' : made'[x] = made'[y] /\ made'[x][1] = w => x = y
    <3>1. l \in Nat /\ l # None /\ counter_map'[w] = l /\ Count(w) = 0..(l - 1)
      BY <1>2, <2>1, <2>6, BoundsAssumption, NoneAssumption DEF Labels
    <3>2. Count(w)' = 0..l
      BY <3>1 DEF Count
    <3>3. LabelsMade(w) \subseteq 0..(l - 1)
      BY <2>1, <2>6, <3>1 DEF UndisturbedInv
    <3>4. \A u \in Turns : made[u] # <<w, l>>
      <4> SUFFICES ASSUME NEW u \in Turns, made[u] = <<w, l>> PROVE FALSE
        OBVIOUS
      <4>1. l \in LabelsMade(w)
        BY DEF LabelsMade, Turns
      <4>2. QED
        BY <3>1, <3>3, <4>1
    <3>5. \A s \in Threads : At(s, "got")' => job'[s].w # w
      BY <1>2, <2>1, <2>4, <2>6 DEF UndisturbedInv
    <3>6. LabelsMade(w)' \subseteq Count(w)'
      BY <2>1, <2>3, <3>1, <3>2, <3>3
    <3>7. \A x, y \in Turns' : made'[x] = made'[y] /\ made'[x][1] = w => x = y
      BY <2>1, <2>3, <2>6, <3>4 DEF UndisturbedInv
    <3>8. QED
      BY <3>5, <3>6, <3>7
  <2>7. ASSUME NEW v \in Keywords \ disturbed, NEW s \in Threads, NEW r \in Threads,
               At(s, "got")', At(r, "got")', job'[s].w = v, job'[r].w = v
        PROVE  s = r
    BY <2>4, <2>7 DEF UndisturbedInv
  <2>8. disturbed' = disturbed
    BY <1>2
  <2>9. ASSUME NEW v \in Keywords \ disturbed'
        PROVE  /\ \A s \in Threads : At(s, "got")' /\ job'[s].w = v => job'[s].c = counter_map'[v]
               /\ \A s, r \in Threads :
                    At(s, "got")' /\ At(r, "got")' /\ job'[s].w = v /\ job'[r].w = v => s = r
               /\ LabelsMade(v)' \subseteq Count(v)'
               /\ \A x, y \in Turns' : made'[x] = made'[y] /\ made'[x][1] = v => x = y
    <3>1. CASE v = w
      BY <3>1, <2>6, <2>7, <2>8, <2>9
    <3>2. CASE v # w
      BY <3>2, <2>5, <2>7, <2>8, <2>9
    <3>3. QED
      BY <3>1, <3>2
  <2>10. QED
    BY <2>9 DEF UndisturbedInv
<1>3. ASSUME NEW t \in Threads, AddCounter(t)
      PROVE  UndisturbedInv'
  <2>1. PICK c \in {0} \cup ({counter_map[job[t].w]} \ {None}) :
          counter_map' = [counter_map EXCEPT ![job[t].w] = c]
    BY <1>3 DEF AddCounter
  <2>2. job[t].w \in Keywords /\ At(t, "got") /\ Make(t, 0) /\ job[t].c = None /\ 0 \in Labels
        /\ UNCHANGED <<up, query, disturbed>>
    BY <1>3, NoneAssumption, BoundsAssumption DEF AddCounter, At, TypeOK, Jobs, Labels, search
  <2>3. \A w \in Keywords : w # job[t].w => counter_map'[w] = counter_map[w]
    BY <2>1 DEF TypeOK
  <2>4. ASSUME job[t].w \notin disturbed
        PROVE  counter_map'[job[t].w] = 0 /\ Count(job[t].w) = 0..(0 - 1)
    <3>1. counter_map[job[t].w] = None
      BY <2>2, <2>4 DEF UndisturbedInv
    <3>2. counter_map'[job[t].w] = 0
      BY <2>1, <2>2, <3>1 DEF TypeOK
    <3>3. QED
      BY <3>1, <3>2 DEF Count
  <2>5. QED
    BY <2>2, <2>3, <2>4, <1>2
<1>4. ASSUME NEW t \in Threads, SetCounter(t)
      PROVE  UndisturbedInv'
  <2>1. job[t].w \in Keywords /\ job[t].c \in Labels /\ At(t, "got") /\ job[t].c # None
    BY <1>4, NoneAssumption DEF SetCounter, At, TypeOK, Jobs
  <2>2. job[t].c + 1 \in Labels /\ job[t].c \in Nat
    BY <1>4, <2>1, NextLabel, BoundsAssumption DEF CountersInv, Labels
  <2>3. counter_map' = [counter_map EXCEPT ![job[t].w] = job[t].c + 1] /\ Make(t, job[t].c + 1)
        /\ UNCHANGED <<up, query, disturbed>>
    BY <1>4 DEF SetCounter, search
  <2>4. \A w \in Keywords : w # job[t].w => counter_map'[w] = counter_map[w]
    BY <2>3 DEF TypeOK
  <2>5. ASSUME job[t].w \notin disturbed
        PROVE  counter_map'[job[t].w] = job[t].c + 1 /\ Count(job[t].w) = 0..((job[t].c + 1) - 1)
    <3>1. counter_map[job[t].w] = job[t].c
      BY <2>1, <2>5 DEF UndisturbedInv
    <3>2. (job[t].c + 1) - 1 = job[t].c
      BY <2>2
    <3>3. QED
      BY <2>1, <2>3, <3>1, <3>2 DEF Count, TypeOK
  <2>6. QED
    BY <2>1, <2>2, <2>3, <2>4, <2>5, <1>2
<1>5. ASSUME NEW t \in Threads,
             SendInSession(t) \/ SendCall(t) \/ CallReturn(t) \/ CallBreak(t)
      PROVE  UndisturbedInv'
  <2>1. UNCHANGED <<made, counter_map, disturbed>>
    BY <1>5 DEF SendInSession, SendCall, CallReturn, CallBreak, client, history
  <2>2. \A s \in Threads \ {t} : job'[s] = job[s]
    BY <1>5 DEF SendInSession, SendCall, CallReturn, CallBreak, TypeOK
  <2>3. ~At(t, "got")'
    <3>1. CASE SendCall(t)
      <4>1. job'[t] = [job[t] EXCEPT !.at = "wait"] /\ job[t] \in Jobs /\ job[t].at = "send"
        BY <3>1 DEF SendCall, TypeOK, At
      <4>2. QED
        BY <4>1 DEF At, Jobs
    <3>2. CASE ~SendCall(t)
      BY <1>5, <3>2 DEF SendInSession, CallReturn, CallBreak, TypeOK, At
    <3>3. QED
      BY <3>1, <3>2
  <2>4. QED
    BY <2>1, <2>2, <2>3, UndisturbedStays DEF At
<1>6. CASE \/ StartSession \/ EndSession \/ \E n \in 0..MaxUpdates : SessionBreak(n)
           \/ Serve \/ (\E w \in Keywords : SearchBegin(w)) \/ Search \/ SearchBreak \/ Exit \/ Start
           \/ UNCHANGED vars
  <2>1. UNCHANGED <<made, counter_map, disturbed, job>>
    BY <1>6 DEF StartSession, EndSession, SessionBreak, Serve, ServerUpdate, ServerBulk,
       SearchBegin, Search, SearchStep, SearchReturn, SearchBreak, Exit, Start, vars, client, history
  <2>2. QED
    BY <2>1, UndisturbedStays DEF At
<1>7. CASE ServerRestart
  BY <1>7, UndisturbedStays DEF ServerRestart, client, At
<1>8. CASE Kill
  <2>1. \A w \in Keywords \ disturbed' : counter_map'[w] = counter_map[w]
    BY <1>8 DEF Kill
  <2>2. made' = made /\ disturbed \subseteq disturbed' /\ \A t \in Threads : ~At(t, "got")'
    BY <1>8 DEF Kill, At
  <2>3. QED
    BY <2>1, <2>2, UndisturbedStays
<1>9. QED
  BY <1>1, <1>3, <1>4, <1>5, <1>6, <1>7, <1>8 DEF Next, Update

----------------------------------------------------------------------------
(* The search under way *)

\* Only kills and threads that meet disturb a keyword, and it stays disturbed.
LEMMA DisturbedSteps ==
  ASSUME [Next]_vars
  PROVE  disturbed \subseteq disturbed'
BY DEF Next, Update, Search, Serve, GetCounter, AddCounter, SetCounter, SendInSession, SendCall,
   CallReturn, CallBreak, StartSession, EndSession, SessionBreak, ServerUpdate, ServerBulk,
   ServerRestart, SearchBegin, SearchStep, SearchReturn, SearchBreak, Exit, Kill, Start, vars, history

\* An entry of an undisturbed keyword stays.
LEMMA EntriesStay ==
  ASSUME TypeInv, StoredInv, UndisturbedInv, [Next]_vars,
         NEW k \in Tokens, edb[k] # None, k[1] \notin disturbed'
  PROVE  edb'[k] = edb[k]
<1> SUFFICES ASSUME edb'[k] # edb[k] PROVE FALSE
  OBVIOUS
<1>1. PICK u \in Turns : k = made[u] /\ edb'[k] = u
  BY EdbSteps
<1>2. edb[k] \in Turns /\ made[edb[k]] = k
  BY DEF StoredInv
<1>3. k[1] \in Keywords \ disturbed
  BY DisturbedSteps DEF Tokens
<1>4. u = edb[k]
  BY <1>1, <1>2, <1>3 DEF UndisturbedInv
<1>5. QED
  BY <1>1, <1>4

LEMMA InitQuery == Init => QueryInv
BY DEF Init, QueryInv

LEMMA StepQuery ==
  ASSUME TypeInv, TypeInv', StoredInv, UndisturbedInv, QueryInv, [Next]_vars
  PROVE  QueryInv'
<1> USE DEF TypeInv
<1> SUFFICES ASSUME disturbed' = {}, query' # None, NEW k \in Keywords, query'.w = k
             PROVE  /\ query'.todo \subseteq Count(k)'
                    /\ query'.found \subseteq Visible(k)'
                    /\ \A r \in query'.base :
                         r \in query'.found \/ \E l \in query'.todo : edb'[<<k, l>>] = r
  BY DEF QueryInv, Visible, Count, TypeOK, Queries
<1>1. disturbed = {}
  BY DisturbedSteps
<1>2. \A token \in Tokens : edb[token] # None => edb'[token] = edb[token]
  BY <1>1, EntriesStay
<1>3. query' \in Queries
  BY DEF TypeOK
<1>4. ASSUME NEW w \in Keywords, SearchBegin(w)
      PROVE  /\ query'.todo \subseteq Count(k)'
             /\ query'.found \subseteq Visible(k)'
             /\ \A r \in query'.base :
                  r \in query'.found \/ \E l \in query'.todo : edb'[<<k, l>>] = r
  <2>1. /\ k = w /\ query'.todo = Count(w) /\ query'.found = {} /\ query'.base = Visible(w)
        /\ UNCHANGED <<counter_map, edb>>
    BY <1>4 DEF SearchBegin, client
  <2>2. Count(k)' = Count(w)
    BY <2>1 DEF Count
  <2>3. QED
    BY <2>1, <2>2 DEF Visible
<1>5. CASE query # None /\ UNCHANGED <<counter_map, query>>
  <2>1. query \in Queries /\ query.w \in Keywords
    BY <1>5 DEF TypeOK, Queries
  <2>2. Count(k)' = Count(query.w)
    BY <1>5 DEF Count
  <2>3. \A l \in Count(query.w) : <<query.w, l>> \in Tokens
    BY <2>1, VisibleType DEF Tokens
  <2>4. Visible(query.w) \subseteq Visible(k)'
    BY <1>2, <1>5, <2>2, <2>3 DEF Visible
  <2>5. \A r \in query.base : r \in Updates
    BY <2>1 DEF Queries
  <2>6. \A l \in query.todo, r \in query.base :
          edb[<<query.w, l>>] = r => edb'[<<query.w, l>>] = r
    BY <1>1, <1>2, <1>5, <2>3, <2>5, NoneAssumption DEF QueryInv
  <2>7. QED
    BY <1>1, <1>5, <2>2, <2>4, <2>6 DEF QueryInv
<1>6. ASSUME NEW l \in Labels, SearchStep(l)
      PROVE  /\ query'.todo \subseteq Count(k)'
             /\ query'.found \subseteq Visible(k)'
             /\ \A r \in query'.base :
                  r \in query'.found \/ \E m \in query'.todo : edb'[<<k, m>>] = r
  <2>1. query # None /\ query \in Queries /\ l \in query.todo
    BY <1>6 DEF SearchStep, TypeOK
  <2>2. /\ query'.w = query.w /\ query'.base = query.base /\ query'.todo = query.todo \ {l}
        /\ query'.found = query.found \cup ({edb[<<query.w, l>>]} \ {None})
    BY <1>6, <2>1 DEF SearchStep, Queries
  <2>3. UNCHANGED <<counter_map, edb>>
    BY <1>6 DEF SearchStep, client
  <2>4. Count(k)' = Count(query.w) /\ Visible(k)' = Visible(query.w)
    BY <2>2, <2>3 DEF Count, Visible
  <2>5. l \in Count(query.w)
    BY <1>1, <2>1 DEF QueryInv
  <2>6. {edb[<<query.w, l>>]} \ {None} \subseteq Visible(query.w)
    BY <2>5 DEF Visible
  <2>7. \A r \in query.base : r # None
    BY <2>1, NoneAssumption DEF Queries
  <2>8. QED
    BY <1>1, <2>1, <2>2, <2>3, <2>4, <2>6, <2>7 DEF QueryInv
<1>7. \/ \E w \in Keywords : SearchBegin(w)
      \/ \E l \in Labels : SearchStep(l)
      \/ query # None /\ UNCHANGED <<counter_map, query>>
  <2>1. ASSUME NEW t \in Threads, AddCounter(t) \/ SetCounter(t) PROVE FALSE
    <3>1. query = None /\ query' = query
      BY <2>1 DEF AddCounter, SetCounter, JobsInv, At, search
    <3>2. QED
      BY <3>1
  <2>2. QED
    BY <2>1 DEF Next, Update, Search, Serve, GetCounter, SendInSession, SendCall,
       CallReturn, CallBreak, StartSession, EndSession, SessionBreak, ServerUpdate, ServerBulk,
       ServerRestart, SearchReturn, SearchBreak, Exit, Kill, Start, vars, client, search
<1>8. QED
  BY <1>4, <1>5, <1>6, <1>7

----------------------------------------------------------------------------
(* Theorems *)

\* The inductive invariant holds in every reachable state.
THEOREM InvHolds == Spec => []IInv
<1>1. Init => IInv
  BY InitTypes, InitCounters, InitWhere, InitUndisturbed, InitQuery DEF IInv
<1>2. IInv /\ [Next]_vars => IInv'
  BY StepTypes, StepCounters, StepWhere, StepStored, StepUndisturbed, StepQuery DEF IInv
<1>3. QED
  BY <1>1, <1>2, PTL DEF Spec

\* Types, of the client, the wires, the server and the search; no bound is passed.
THEOREM TypeCorrect == Spec => []TypeOK
BY InvHolds, PTL DEF IInv, TypeInv

\* Any number of threads in update_request leave no gap in the tokens, and the
\* counter names the token of some update.
THEOREM TokensAreContiguous == Spec => []TokensContiguous
BY InvHolds, PTL DEF IInv, CountersInv

\* The server misses an entry only for updates under way or broken.
THEOREM MissesAreExplained == Spec => []MissedOnlyIfBroken
<1>1. IInv => MissedOnlyIfBroken
  <2> SUFFICES ASSUME IInv, NEW w \in Keywords, NEW l \in Labels, l \in Count(w), edb[<<w, l>>] = None
               PROVE  \E u \in 1..Len(made) :
                        /\ made[u] = <<w, l>>
                        /\ \/ u \in lost \cup OnWire
                           \/ \E t \in Threads : At(t, "send") /\ job[t].u = u
    BY DEF MissedOnlyIfBroken
  <2> USE DEF IInv, TypeInv
  <2>1. counter_map[w] # None /\ counter_map[w] \in Labels /\ l \in 0..counter_map[w]
    BY DEF Count, TypeOK
  <2>2. l \in LabelsMade(w)
    BY <2>1 DEF CountersInv, TokensContiguous
  <2>3. PICK u \in Turns : made[u][1] = w /\ made[u][2] = l
    BY <2>2 DEF LabelsMade, Turns
  <2>4. made[u] = <<w, l>>
    BY <2>3 DEF TypeOK, Turns, Tokens
  <2>5. QED
    BY <2>4 DEF WhereInv, Turns
<1>2. QED
  BY <1>1, InvHolds, PTL

\* An acknowledged update of an undisturbed keyword is stored and counted.
THEOREM AckedAreStored == Spec => []AckedStored
<1>1. IInv => AckedStored
  <2> SUFFICES ASSUME IInv, NEW u \in acked, made[u][1] \notin disturbed
               PROVE  edb[made[u]] = u /\ made[u][2] \in Count(made[u][1])
    BY DEF AckedStored
  <2> USE DEF IInv, TypeInv
  <2>1. u \in Turns /\ edb[made[u]] # None
    BY DEF StoredInv
  <2>2. made[u] \in Tokens /\ made[u][1] \in Keywords
    BY <2>1 DEF TypeOK, Turns, Tokens
  <2>3. edb[made[u]] \in Turns /\ made[edb[made[u]]] = made[u]
    BY <2>1, <2>2 DEF StoredInv
  <2>4. edb[made[u]] = u
    BY <2>1, <2>2, <2>3 DEF UndisturbedInv
  <2>5. made[u][2] \in LabelsMade(made[u][1])
    BY <2>1 DEF LabelsMade, Turns
  <2>6. QED
    BY <2>2, <2>4, <2>5 DEF UndisturbedInv
<1>2. QED
  BY <1>1, InvHolds, PTL

\* No entry of an undisturbed keyword is replaced.
THEOREM EntriesAreNotReplaced == Spec => NeverReplaced
<1>1. IInv /\ [Next]_vars =>
        \A k \in Tokens : edb[k] # None /\ k[1] \notin disturbed' => edb'[k] = edb[k]
  BY EntriesStay DEF IInv
<1>2. QED
  BY <1>1, InvHolds, PTL DEF Spec, NeverReplaced

----------------------------------------------------------------------------
(* Refinement *)

\* A search of an undisturbed keyword sees all the server has of it.
LEMMA VisibleIsAll ==
  TypeInv /\ StoredInv /\ UndisturbedInv =>
    \A w \in Keywords :
      w \notin disturbed => Visible(w) = {edb[<<w, l>>] : l \in Labels} \ {None}
<1> SUFFICES ASSUME TypeInv, StoredInv, UndisturbedInv, NEW w \in Keywords \ disturbed
             PROVE  Visible(w) = {edb[<<w, l>>] : l \in Labels} \ {None}
  OBVIOUS
<1> USE DEF TypeInv
<1>1. Count(w) \subseteq Labels
  BY VisibleType
<1>2. ASSUME NEW l \in Labels, edb[<<w, l>>] # None
      PROVE  l \in Count(w)
  <2>1. <<w, l>> \in Tokens
    BY DEF Tokens
  <2>2. edb[<<w, l>>] \in Turns /\ made[edb[<<w, l>>]] = <<w, l>>
    BY <1>2, <2>1 DEF StoredInv
  <2>3. l \in LabelsMade(w)
    BY <2>2 DEF LabelsMade, Turns
  <2>4. QED
    BY <2>3 DEF UndisturbedInv
<1>3. QED
  BY <1>1, <1>2 DEF Visible

\* What a step does to it.
LEMMA VisibleSteps ==
  ASSUME IInv, IInv', [Next]_vars, disturbed' = {}
  PROVE  /\ edb' = edb => \A w \in Keywords : Visible(w)' = Visible(w)
         /\ edb' # edb =>
              /\ \E w \in Keywords, u \in Updates :
                   \A v \in Keywords : Visible(v)' = Visible(v) \cup (IF v = w THEN {u} ELSE {})
              /\ UNCHANGED <<query, answer>>
<1> USE DEF IInv, TypeInv
<1>1. disturbed = {}
  BY DisturbedSteps
<1>2. \A w \in Keywords : Visible(w) = {edb[<<w, l>>] : l \in Labels} \ {None}
  BY <1>1, VisibleIsAll
<1>3. \A w \in Keywords : Visible(w)' = {edb'[<<w, l>>] : l \in Labels} \ {None}
  <2>1. (TypeInv /\ StoredInv /\ UndisturbedInv =>
           \A w \in Keywords :
             w \notin disturbed => Visible(w) = {edb[<<w, l>>] : l \in Labels} \ {None})'
    BY VisibleIsAll, PTL
  <2>2. QED
    BY <2>1 DEF Labels
<1>4. CASE edb' = edb
  BY <1>2, <1>3, <1>4
<1>5. CASE edb' # edb
  <2>1. PICK u \in Turns : edb' = [edb EXCEPT ![made[u]] = u]
    BY <1>5, EdbSteps
  <2>2. UNCHANGED <<query, answer>>
    BY <1>5, EdbSteps
  <2>3. made[u] \in Tokens /\ u \in Updates
    BY BoundsAssumption DEF TypeOK, Turns, Updates
  <2>4. PICK w \in Keywords, m \in Labels : made[u] = <<w, m>>
    BY <2>3 DEF Tokens
  <2>5. edb[made[u]] = None
    <3>1. edb'[made[u]] # edb[made[u]]
      BY <1>5, <2>1, <2>3 DEF TypeOK
    <3>2. QED
      BY <1>1, <2>3, <3>1, EntriesStay
  <2>6. \A v \in Keywords, l \in Labels :
          edb'[<<v, l>>] = IF v = w /\ l = m THEN u ELSE edb[<<v, l>>]
    BY <2>1, <2>4 DEF TypeOK, Tokens
  <2>7. u # None /\ edb[<<w, m>>] = None
    BY <2>3, <2>4, <2>5, NoneAssumption
  <2>8. ASSUME NEW v \in Keywords
        PROVE  Visible(v)' = Visible(v) \cup (IF v = w THEN {u} ELSE {})
    <3>1. CASE v = w
      BY <1>2, <1>3, <2>6, <2>7, <3>1
    <3>2. CASE v # w
      BY <1>2, <1>3, <2>6, <3>2
    <3>3. QED
      BY <3>1, <3>2
  <2>9. \A v \in Keywords : Visible(v)' = Visible(v) \cup (IF v = w THEN {u} ELSE {})
    BY <2>8
  <2>10. QED
    BY <1>5, <2>2, <2>3, <2>9
<1>6. QED
  BY <1>4, <1>5

\* A search that ends, wholly or in part, answers from the index.
LEMMA AnswerSteps ==
  ASSUME TypeInv, QueryInv, disturbed = {}, query # None,
         \A w \in Keywords : Visible(w)' = Visible(w),
         NEW inds \in SUBSET query.found, NEW whole \in BOOLEAN,
         whole => query.todo = {} /\ inds = query.found,
         answer' = [w |-> query.w, inds |-> inds, whole |-> whole], query' = None
  PROVE  Index!Answer
<1> DEFINE q == [w |-> query.w, base |-> query.base]
<1>1. query \in Queries /\ q.w \in Keywords /\ q.w = query.w /\ q.base = query.base
  BY DEF TypeInv, TypeOK, Queries
<1>2. q # None
  BY <1>1, NoneAssumption DEF Queries
<1>3. inds \in SUBSET Visible(q.w)
  BY <1>1 DEF QueryInv
<1>4. whole => q.base \subseteq inds
  BY <1>1 DEF QueryInv
<1>5. [w \in Keywords |-> Visible(w)]' = [w \in Keywords |-> Visible(w)]
  OBVIOUS
<1>6. /\ inds \in SUBSET [w \in Keywords |-> Visible(w)][q.w]
      /\ answer' = [w |-> q.w, inds |-> inds, whole |-> whole]
  BY <1>1, <1>3
<1>7. QED
  BY <1>2, <1>4, <1>5, <1>6 DEF Index!Answer

\* The first state is one of the index.
LEMMA IndexInit == Init => Index!Init
BY DEF Init, Index!Init, Visible, Count

\* Every step but a kill is one of the index, or none, while no keyword is disturbed.
LEMMA IndexNext ==
  ASSUME IInv, IInv', [Next]_vars, disturbed' = {}, kills' = kills
  PROVE  [Index!Next]_(Index!vars)
<1> USE DEF IInv, TypeInv
<1> DEFINE index == [w \in Keywords |-> Visible(w)]
           asked == IF query = None THEN None ELSE [w |-> query.w, base |-> query.base]
<1>1. disturbed = {}
  BY DisturbedSteps
<1>2. CASE edb' # edb
  <2>1. PICK w \in Keywords, u \in Updates :
          \A v \in Keywords : Visible(v)' = Visible(v) \cup (IF v = w THEN {u} ELSE {})
    BY <1>2, VisibleSteps
  <2>2. UNCHANGED <<query, answer>>
    BY <1>2, VisibleSteps
  <2>3. index' = [index EXCEPT ![w] = @ \cup {u}]
    BY <2>1
  <2>4. Index!Add(w, u)
    BY <2>2, <2>3 DEF Index!Add
  <2>5. QED
    BY <2>4 DEF Index!Next
<1>3. CASE edb' = edb
  <2>1. \A w \in Keywords : Visible(w)' = Visible(w)
    BY <1>3, VisibleSteps
  <2>2. index' = index
    BY <2>1
  <2>3. CASE UNCHANGED <<query, answer>>
    BY <2>2, <2>3 DEF Index!vars
  <2>4. ASSUME NEW w \in Keywords, SearchBegin(w)
        PROVE  Index!Next
    <3>1. query = None /\ answer' = None
          /\ query' = [w |-> w, todo |-> Count(w), found |-> {}, base |-> Visible(w)]
      BY <2>4 DEF SearchBegin
    <3>2. query' # None /\ query'.w = w /\ query'.base = Visible(w)
      <4>1. query' \in Queries
        BY <3>1, VisibleType DEF Queries
      <4>2. QED
        BY <3>1, <4>1, NoneAssumption
    <3>3. asked = None /\ asked' = [w |-> w, base |-> index[w]]
      BY <3>1, <3>2
    <3>4. Index!Ask(w)
      BY <2>2, <3>1, <3>3 DEF Index!Ask
    <3>5. QED
      BY <3>4 DEF Index!Next
  <2>5. ASSUME NEW l \in Labels, SearchStep(l)
        PROVE  asked' = asked /\ answer' = answer
    <3>1. query \in Queries /\ query # None
      BY <2>5 DEF SearchStep, TypeOK
    <3>2. query' = [query EXCEPT !.todo = @ \ {l},
                                 !.found = @ \cup ({edb[<<query.w, l>>]} \ {None})]
      BY <2>5 DEF SearchStep
    <3>3. query'.w = query.w /\ query'.base = query.base /\ query' # None
      <4>1. <<query.w, l>> \in Tokens
        BY <3>1 DEF Tokens, Queries
      <4>2. {edb[<<query.w, l>>]} \ {None} \subseteq Updates
        BY <4>1 DEF TypeOK
      <4>3. query' \in Queries /\ query'.w = query.w /\ query'.base = query.base
        BY <3>1, <3>2, <4>2 DEF Queries
      <4>4. QED
        BY <4>3, NoneAssumption
    <3>4. QED
      BY <2>5, <3>1, <3>3 DEF SearchStep
  <2>6. CASE SearchReturn
    BY <1>1, <2>1, <2>6, AnswerSteps DEF SearchReturn, Index!Next
  <2>7. CASE SearchBreak
    BY <1>1, <2>1, <2>7, AnswerSteps DEF SearchBreak, Index!Next
  <2>8. CASE ServerRestart
    <3>1. CASE query # None
      <4>1. answer' = [w |-> query.w, inds |-> {}, whole |-> FALSE] /\ query' = None
        BY <2>8, <3>1 DEF ServerRestart
      <4>2. QED
        BY <1>1, <2>1, <3>1, <4>1, AnswerSteps DEF Index!Next
    <3>2. CASE query = None
      BY <2>3, <2>8, <3>2 DEF ServerRestart
    <3>3. QED
      BY <3>1, <3>2
  <2>9. ~Kill
    BY DEF Kill, TypeOK
  <2>10. \/ UNCHANGED <<query, answer>>
         \/ \E w \in Keywords : SearchBegin(w)
         \/ \E l \in Labels : SearchStep(l)
         \/ SearchReturn \/ SearchBreak \/ ServerRestart
    BY <2>9 DEF Next, Update, Search, Serve, GetCounter, AddCounter, SetCounter, SendInSession,
       SendCall, CallReturn, CallBreak, StartSession, EndSession, SessionBreak, ServerUpdate,
       ServerBulk, Exit, Start, vars, search
  <2>11. QED
    BY <2>2, <2>3, <2>4, <2>5, <2>6, <2>7, <2>8, <2>10 DEF Index!vars
<1>4. QED
  BY <1>2, <1>3

\* The client and its server implement the keyword index: while no keyword is
\* disturbed, every step but a kill is one of its steps, or none.
THEOREM IndexIsImplemented == Spec => ImplementsIndex
<1>1. IInv /\ IInv' /\ [Next]_vars => (disturbed' = {} /\ kills' = kills => [Index!Next]_(Index!vars))
  BY IndexNext
<1>2. QED
  BY <1>1, IndexInit, InvHolds, PTL DEF Spec, ImplementsIndex
=============================================================================
