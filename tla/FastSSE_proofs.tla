--------------------------- MODULE FastSSE_proofs ---------------------------
(***************************************************************************)
(* Theorems about FastSSE, for any keywords, threads and bounds.           *)
(***************************************************************************)
EXTENDS FastSSE, FiniteSetTheorems, TLAPS

----------------------------------------------------------------------------
(* Invariants *)

Turns == 1..Len(made)
Items(s) == {s[i] : i \in 1..Len(s)}
Working == {t \in Threads : job[t] # None}
At(t, step) == job[t] # None /\ job[t].at = step

\* Every thread that makes an update has one of the bound to make.
Room == IsFiniteSet(Working) /\ Len(made) + Cardinality(Working) <= MaxUpdates

\* The main thread's call, its search and the generators exclude each other.
TurnsInv ==
  /\ \A t \in Threads : job[t] # None => writer[t] # "none"
  /\ \A t \in Threads : writer[t] # "none" => up /\ call = None /\ query = None
  /\ call # None => up /\ query = None

\* What is on its way was made, and a stream has taken nothing before it is opened.
WiresInv ==
  /\ late \subseteq Turns /\ (call # None => call \in Turns)
  /\ \A t \in Threads : sent[t] \subseteq Turns /\ Items(stream[t]) \subseteq Turns
  /\ \A t \in Threads : writer[t] = "none" => sent[t] = {}

\* Every counter, in memory, in the database or in a thread, is 0 or the label of an
\* update; the labels are no more than the updates.
IsMade(w, c) == c \in Nat /\ (c > 0 => \E u \in Turns : made[u] = <<w, c>>)
CountersInv ==
  /\ \A w \in Keywords : uc_mapper[w] # None => IsMade(w, uc_mapper[w])
  /\ \A w \in Keywords : cs_db[w] # None => IsMade(w, cs_db[w])
  /\ \A t \in Threads : At(t, "got") => IsMade(job[t].w, job[t].c)
  /\ \A u \in Turns : made[u][2] <= u

TypeInv == TypeOK /\ Room /\ TurnsInv /\ WiresInv /\ CountersInv

\* What is stored was made for its label, and what is, or is about to be,
\* acknowledged has its label taken.
StoredInv ==
  /\ \A k \in Tokens : ss_db[k] # None => ss_db[k] \in Turns /\ made[ss_db[k]] = k
  /\ \A u \in acked : u \in Turns /\ ss_db[made[u]] # None
  /\ call # None => call \in late \/ ss_db[made[call]] # None
  /\ \A t \in Threads : writer[t] = "open" =>
       \A u \in sent[t] : u \in Items(stream[t]) \/ ss_db[made[u]] # None

\* One thread at a time updates an undisturbed keyword and knows its counter; all its
\* labels are counted, none was made twice, and the database knows of no counter
\* the client has not.
UndisturbedInv ==
  \A w \in Keywords \ disturbed :
    /\ \A t, s \in Threads :
         job[t] # None /\ job[s] # None /\ job[t].w = w /\ job[s].w = w => t = s
    /\ \A t \in Threads : job[t] # None /\ job[t].w = w =>
         uc_mapper[w] = IF job[t].at = "got" THEN job[t].c ELSE None
    /\ \A u \in Turns : made[u][1] = w => made[u][2] <= Counter(w)
    /\ \A u, v \in Turns : made[u] = made[v] /\ made[u][1] = w => u = v
    /\ Counter(w) = 0 => cs_db[w] \in {None, 0}

\* The search under way has found entries that are visible, and what was visible
\* when it began is found or still to be looked up.
QueryInv ==
  disturbed = {} /\ query # None =>
    /\ query.todo \subseteq 1..Counter(query.w)
    /\ query.found \subseteq Visible(query.w)
    /\ \A r \in query.base : r \in query.found \/ \E l \in query.todo : ss_db[<<query.w, l>>] = r

IInv == TypeInv /\ StoredInv /\ UndisturbedInv /\ QueryInv

----------------------------------------------------------------------------
(* Sequences and sets of threads *)

\* What is in a sequence, when it grows and shrinks.
LEMMA AppendItems ==
  ASSUME NEW S, NEW s \in Seq(S), NEW e \in S
  PROVE  Append(s, e) \in Seq(S) /\ Items(Append(s, e)) = Items(s) \cup {e}
<1> DEFINE a == Append(s, e)
<1>1. a \in Seq(S) /\ Len(a) = Len(s) + 1 /\ Len(s) \in Nat /\ a[Len(s) + 1] = e
      /\ \A i \in 1..Len(s) : a[i] = s[i]
  OBVIOUS
<1> HIDE DEF a
<1>2. Items(a) \subseteq Items(s) \cup {e}
  BY <1>1 DEF Items
<1>3. Items(s) \cup {e} \subseteq Items(a)
  BY <1>1 DEF Items
<1>4. QED
  BY <1>1, <1>2, <1>3 DEF a

LEMMA TailItems ==
  ASSUME NEW S, NEW s \in Seq(S), s # <<>>
  PROVE  /\ Tail(s) \in Seq(S) /\ Head(s) \in S
         /\ Items(s) = Items(Tail(s)) \cup {Head(s)}
<1> DEFINE a == Tail(s)
<1>1. a \in Seq(S) /\ Len(a) = Len(s) - 1 /\ Len(s) \in Nat \ {0} /\ Head(s) = s[1]
      /\ \A i \in 1..Len(a) : a[i] = s[i + 1]
  OBVIOUS
<1> HIDE DEF a
<1>2. ASSUME NEW x \in Items(s) PROVE x \in Items(a) \cup {s[1]}
  <2>1. PICK i \in 1..Len(s) : x = s[i]
    BY <1>2 DEF Items
  <2>2. i # 1 => i - 1 \in 1..Len(a) /\ a[i - 1] = s[i]
    BY <1>1
  <2>3. QED
    BY <2>1, <2>2 DEF Items
<1>3. ASSUME NEW x \in Items(a) PROVE x \in Items(s)
  <2>1. PICK i \in 1..Len(a) : x = a[i]
    BY <1>3 DEF Items
  <2>2. i + 1 \in 1..Len(s) /\ x = s[i + 1]
    BY <1>1, <2>1
  <2>3. QED
    BY <2>2 DEF Items
<1>4. s[1] \in Items(s) /\ s[1] \in S
  BY <1>1 DEF Items
<1>5. QED
  BY <1>1, <1>2, <1>3, <1>4 DEF a

LEMMA EmptyItems == Items(<<>>) = {}
BY DEF Items

\* How many threads are making an update, when only thread t comes or goes.
LEMMA WorkingSteps ==
  ASSUME Room, NEW t \in Threads, \A s \in Threads \ {t} : job'[s] = job[s]
  PROVE  /\ IsFiniteSet(Working') /\ Cardinality(Working) \in Nat /\ Cardinality(Working') \in Nat
         /\ Cardinality(Working') <= Cardinality(Working) + 1
         /\ job[t] # None =>
              /\ Cardinality(Working') <= Cardinality(Working)
              /\ job'[t] = None => Cardinality(Working') = Cardinality(Working) - 1
<1> USE DEF Room
<1>1. Cardinality(Working) \in Nat
  BY FS_CardinalityType
<1>2. CASE job'[t] # None
  <2>1. Working' = Working \cup {t}
    BY <1>2 DEF Working
  <2>2. /\ IsFiniteSet(Working')
        /\ Cardinality(Working') = IF t \in Working THEN Cardinality(Working) ELSE Cardinality(Working) + 1
    BY <2>1, FS_AddElement
  <2>3. job[t] # None => t \in Working
    BY DEF Working
  <2>4. QED
    BY <1>1, <1>2, <2>2, <2>3
<1>3. CASE job'[t] = None
  <2>1. Working' = Working \ {t}
    BY <1>3 DEF Working
  <2>2. /\ IsFiniteSet(Working')
        /\ Cardinality(Working') = IF t \in Working THEN Cardinality(Working) - 1 ELSE Cardinality(Working)
    BY <2>1, FS_RemoveElement
  <2>3. (job[t] # None => t \in Working) /\ (t \in Working => Cardinality(Working) # 0)
    BY FS_EmptySet DEF Working
  <2>4. QED
    BY <1>1, <1>3, <2>2, <2>3
<1>4. QED
  BY <1>2, <1>3

----------------------------------------------------------------------------
(* Types and counters *)

\* TypeOK says of the counters what CountersInv says.
LEMMA CountedIsMade ==
  CountersInv =>
    \A w \in Keywords : Counter(w) > 0 => \E u \in 1..Len(made) : made[u] = <<w, Counter(w)>>
<1> SUFFICES ASSUME CountersInv, NEW w \in Keywords, Counter(w) > 0
             PROVE  \E u \in 1..Len(made) : made[u] = <<w, Counter(w)>>
  OBVIOUS
<1>1. uc_mapper[w] # None /\ Counter(w) = uc_mapper[w]
  BY DEF Counter
<1>2. IsMade(w, Counter(w))
  BY <1>1 DEF CountersInv
<1>3. QED
  BY <1>2 DEF IsMade, Turns

LEMMA CounterType ==
  ASSUME TypeInv, NEW w \in Keywords
  PROVE  Counter(w) \in 0..Len(made) /\ Counter(w) <= MaxUpdates /\ IsMade(w, Counter(w))
<1> USE DEF TypeInv
<1>1. Counter(w) \in Nat /\ Len(made) \in Nat /\ Len(made) <= MaxUpdates
  BY DEF TypeOK, Counter
<1>2. CASE Counter(w) = 0
  BY <1>1, <1>2, BoundsAssumption DEF IsMade
<1>3. CASE Counter(w) > 0
  <2>1. PICK u \in Turns : made[u] = <<w, Counter(w)>>
    BY <1>3, CountedIsMade DEF Turns
  <2>2. Counter(w) <= u /\ u \in 1..Len(made)
    BY <2>1 DEF CountersInv, Turns
  <2>3. QED
    BY <1>1, <1>3, <2>1, <2>2, BoundsAssumption DEF IsMade
<1>4. QED
  BY <1>1, <1>2, <1>3

LEMMA VisibleType ==
  ASSUME TypeInv, NEW w \in Keywords
  PROVE  Visible(w) \in SUBSET Updates /\ 1..Counter(w) \in SUBSET Labels
<1>1. 1..Counter(w) \in SUBSET Labels
  BY CounterType, BoundsAssumption DEF Labels
<1>2. QED
  BY <1>1 DEF TypeInv, Visible, TypeOK, Tokens

LEMMA InitTypes == Init => TypeInv
<1> SUFFICES ASSUME Init PROVE TypeInv
  OBVIOUS
<1> USE BoundsAssumption DEF Init
<1>1. Len(made) = 0 /\ made \in Seq(Tokens)
  OBVIOUS
<1>2. \A w \in Keywords : Counter(w) = 0
  BY DEF Counter
<1>3. TypeOK
  BY <1>1, <1>2 DEF TypeOK
<1>4. Room
  <2>1. Working = {}
    BY DEF Working
  <2>2. QED
    BY <1>1, <2>1, FS_EmptySet DEF Room
<1>5. TurnsInv
  BY DEF TurnsInv
<1>6. WiresInv
  BY EmptyItems DEF WiresInv
<1>7. CountersInv
  BY <1>1 DEF CountersInv, Turns, At
<1>8. QED
  BY <1>3, <1>4, <1>5, <1>6, <1>7 DEF TypeInv

\* What making an update does to the labels.
LEMMA MakeSteps ==
  ASSUME TypeInv, NEW w \in Keywords, NEW c \in Nat, IsMade(w, c), Len(made) < MaxUpdates,
         made' = Append(made, <<w, c + 1>>)
  PROVE  /\ made' \in Seq(Tokens) /\ Len(made') = Len(made) + 1 /\ Len(made) \in Nat
         /\ Len(made) + 1 \in Updates /\ c + 1 \in Labels /\ <<w, c + 1>> \in Tokens
         /\ Turns' = Turns \cup {Len(made) + 1} /\ Len(made) + 1 \notin Turns
         /\ made'[Len(made) + 1] = <<w, c + 1>> /\ \A u \in Turns : made'[u] = made[u]
         /\ \A v, d : IsMade(v, d) => IsMade(v, d)'
         /\ IsMade(w, c + 1)'
         /\ \A u \in Turns' : made'[u][2] <= u
<1> USE DEF TypeInv
<1>1. made \in Seq(Tokens) /\ Len(made) \in Nat /\ MaxUpdates \in Nat
  BY BoundsAssumption DEF TypeOK
<1>2. c <= Len(made)
  <2>1. CASE c = 0
    BY <1>1, <2>1
  <2>2. CASE c > 0
    <3>1. PICK u \in Turns : made[u] = <<w, c>>
      BY <2>2 DEF IsMade
    <3>2. made[u][2] = c /\ u \in 1..Len(made)
      BY <3>1 DEF Turns
    <3>3. QED
      BY <1>1, <3>1, <3>2 DEF CountersInv
  <2>3. QED
    BY <2>1, <2>2
<1>3. Len(made) + 1 \in Updates /\ c + 1 \in Labels /\ <<w, c + 1>> \in Tokens
  BY <1>1, <1>2 DEF Updates, Labels, Tokens
<1>4. /\ made' \in Seq(Tokens) /\ Len(made') = Len(made) + 1
      /\ made'[Len(made) + 1] = <<w, c + 1>> /\ \A u \in Turns : made'[u] = made[u]
  BY <1>1, <1>3 DEF Turns
<1>5. Turns' = Turns \cup {Len(made) + 1} /\ Len(made) + 1 \notin Turns
  BY <1>1, <1>4 DEF Turns
<1>6. ASSUME NEW v, NEW d, IsMade(v, d) PROVE IsMade(v, d)'
  <2>1. d > 0 => \E u \in Turns' : made'[u] = <<v, d>>
    BY <1>4, <1>5, <1>6 DEF IsMade
  <2>2. QED
    BY <1>6, <2>1 DEF IsMade
<1>9. IsMade(w, c + 1)'
  BY <1>4, <1>5 DEF IsMade
<1>7. ASSUME NEW u \in Turns' PROVE made'[u][2] <= u
  <2>1. CASE u \in Turns
    BY <1>4, <2>1 DEF CountersInv
  <2>2. CASE u = Len(made) + 1
    <3>1. made'[u][2] = c + 1
      BY <1>4, <2>2
    <3>2. QED
      BY <1>1, <1>2, <2>2, <3>1
  <2>3. QED
    BY <1>5, <2>1, <2>2
<1>8. QED
  BY <1>1, <1>3, <1>4, <1>5, <1>6, <1>7, <1>9

LEMMA StepTypes ==
  ASSUME TypeInv, [Next]_vars
  PROVE  TypeInv'
<1> USE DEF TypeInv
<1>n. Len(made) \in Nat /\ Turns \subseteq Updates /\ MaxUpdates \in Nat /\ 0 \in 0..MaxUpdates
  BY BoundsAssumption DEF TypeOK, Turns, Updates
<1>c. CountersInv' => (\A w \in Keywords : Counter(w) > 0 =>
                         \E u \in 1..Len(made) : made[u] = <<w, Counter(w)>>)'
  BY CountedIsMade, PTL
\* A step that makes nothing and changes no counter and no thread's update.
<1>s. ASSUME UNCHANGED <<made, uc_mapper, cs_db, job>>
      PROVE  CountersInv' /\ Room' /\ (\A w \in Keywords : Counter(w)' = Counter(w)) /\ Turns' = Turns
  BY <1>s DEF CountersInv, IsMade, Turns, At, Room, Working, Counter
<1>1. ASSUME NEW w \in Keywords, Update(w)
      PROVE  TypeInv'
  <2>0. PICK c \in Nat : /\ IsMade(w, c) /\ Len(made) < MaxUpdates
                        /\ made' = Append(made, <<w, c + 1>>)
                        /\ uc_mapper' = [uc_mapper EXCEPT ![w] = c + 1]
    <3>1. Counter(w) \in Nat /\ IsMade(w, Counter(w))
      BY CounterType, <1>n
    <3>2. QED
      BY <1>1, <3>1 DEF Update
  <2>1. /\ made' \in Seq(Tokens) /\ Len(made') = Len(made) + 1
        /\ Len(made) + 1 \in Updates
        /\ Turns' = Turns \cup {Len(made) + 1}
        /\ \A v, d : IsMade(v, d) => IsMade(v, d)'
        /\ IsMade(w, c + 1)'
        /\ \A u \in Turns' : made'[u][2] <= u
    BY <2>0, MakeSteps
  <2>2. \A t \in Threads : job[t] = None /\ writer[t] = "none"
    BY <1>1 DEF Update, Idle, TurnsInv
  <2>3. CountersInv'
    BY <1>1, <2>0, <2>1, <2>2 DEF Update, CountersInv, At, TypeOK
  <2>4. TypeOK'
    <3>1. /\ uc_mapper' \in [Keywords -> Nat \cup {None}]
          /\ call' \in Updates /\ late' \in SUBSET Updates
      BY <1>1, <2>0, <2>1 DEF Update, TypeOK
    <3>2. UNCHANGED <<up, cs_db, job, writer, sent, stream, ss_db, search, acked, lost, disturbed,
                      faults, kills>>
      BY <1>1 DEF Update
    <3>3. Len(made') <= MaxUpdates
      BY <2>0, <2>1, <1>n
    <3>4. QED
      BY <1>c, <2>1, <2>3, <3>1, <3>2, <3>3 DEF TypeOK, search
  <2>5. Room'
    <3>1. Working' = {}
      BY <1>1, <2>2 DEF Update, Working
    <3>2. QED
      BY <3>1, <2>0, <2>1, <1>n, FS_EmptySet DEF Room
  <2>6. TurnsInv' /\ WiresInv'
    BY <1>1, <2>1, <2>2 DEF Update, Idle, TurnsInv, WiresInv, search
  <2>7. QED
    BY <2>3, <2>4, <2>5, <2>6
<1>2. CASE UpdateReturn \/ UpdateBreak
  <2>1. /\ call \in Turns /\ call' = None /\ late' \subseteq late
        /\ acked' \subseteq acked \cup {call} /\ lost' \subseteq lost \cup {call}
        /\ faults' \in 0..MaxFaults
        /\ UNCHANGED <<client, job, writer, sent, stream, ss_db, search, made, disturbed, kills>>
    BY <1>2, BoundsAssumption DEF UpdateReturn, UpdateBreak, WiresInv, TypeOK
  <2>2. CountersInv' /\ Room' /\ (\A w \in Keywords : Counter(w)' = Counter(w)) /\ Turns' = Turns
    BY <2>1, <1>s DEF client
  <2>3. TypeOK'
    BY <2>1, <2>2, <1>n, <1>c DEF TypeOK, client, search
  <2>4. TurnsInv' /\ WiresInv'
    BY <2>1, <2>2 DEF TurnsInv, WiresInv, client, search
  <2>5. QED
    BY <2>2, <2>3, <2>4
<1>3. ASSUME NEW t \in Threads, Open(t)
      PROVE  TypeInv'
  <2>1. CountersInv' /\ Room' /\ (\A w \in Keywords : Counter(w)' = Counter(w)) /\ Turns' = Turns
    BY <1>3, <1>s DEF Open, client, history
  <2>2. TypeOK'
    BY <1>3, <2>1, <1>c DEF Open, TypeOK, client, search, history
  <2>3. TurnsInv' /\ WiresInv'
    BY <1>3, <2>1 DEF Open, TurnsInv, WiresInv, client, search, TypeOK
  <2>4. QED
    BY <2>1, <2>2, <2>3
<1>4. ASSUME NEW t \in Threads, NEW w \in Keywords, Find(t, w)
      PROVE  TypeInv'
  <2> DEFINE j == IF uc_mapper[w] = None THEN [at |-> "insert", w |-> w]
                  ELSE [at |-> "got", w |-> w, c |-> uc_mapper[w]]
  <2>1. job' = [job EXCEPT ![t] = j] /\ job[t] = None /\ writer[t] # "none"
        /\ UNCHANGED <<client, wires, ss_db, search, made, acked, lost, faults, kills>>
        /\ disturbed' \subseteq disturbed \cup {w}
    BY <1>4 DEF Find
  <2>2. j \in Jobs
    <3>1. uc_mapper[w] # None => uc_mapper[w] \in 0..MaxUpdates
      <4>1. uc_mapper[w] # None => Counter(w) = uc_mapper[w]
        BY DEF Counter
      <4>2. Counter(w) \in 0..MaxUpdates
        BY <1>n, CounterType
      <4>3. QED
        BY <4>1, <4>2
    <3>2. QED
      BY <3>1 DEF Jobs
  <2>3. At(t, "got")' => IsMade(job'[t].w, job'[t].c)
    BY <2>1 DEF At, TypeOK, CountersInv
  <2> HIDE DEF j
  <2>4. job' \in [Threads -> Jobs \cup {None}] /\ \A s \in Threads \ {t} : job'[s] = job[s]
    BY <2>1, <2>2 DEF TypeOK
  <2>5. CountersInv' /\ Turns' = Turns /\ \A v \in Keywords : Counter(v)' = Counter(v)
    BY <2>1, <2>3, <2>4 DEF CountersInv, IsMade, Turns, At, Counter, client
  <2>6. TypeOK'
    BY <2>1, <2>4, <2>5, <1>c DEF TypeOK, client, wires, search
  <2>7. Room'
    <3>1. Len(made) + Cardinality(Working) < MaxUpdates
      BY <1>4 DEF Find, Underway, Working
    <3>2. QED
      BY <2>1, <2>4, <3>1, <1>n, WorkingSteps DEF Room
  <2>8. TurnsInv' /\ WiresInv'
    BY <2>1, <2>4, <2>5 DEF TurnsInv, WiresInv, client, wires, search
  <2>9. QED
    BY <2>5, <2>6, <2>7, <2>8
<1>5. ASSUME NEW t \in Threads, Insert(t)
      PROVE  TypeInv'
  <2> DEFINE j == [at |-> "got", w |-> job[t].w, c |-> 0]
  <2>1. /\ job' = [job EXCEPT ![t] = j] /\ job[t] # None
        /\ uc_mapper' = [uc_mapper EXCEPT ![job[t].w] = 0]
        /\ UNCHANGED <<up, cs_db, wires, ss_db, search, history, faults, kills>>
    BY <1>5 DEF Insert
  <2>2. job[t].w \in Keywords /\ j \in Jobs
    BY <2>1, <1>n DEF TypeOK, Jobs
  <2>3. IsMade(job[t].w, 0)' /\ Turns' = Turns /\ made' = made
    BY <2>1 DEF IsMade, Turns, history
  <2>4. job' \in [Threads -> Jobs \cup {None}] /\ \A s \in Threads \ {t} : job'[s] = job[s]
        /\ job'[t].w = job[t].w /\ job'[t].c = 0
    BY <2>1, <2>2 DEF TypeOK
  <2>5. CountersInv'
    <3>1. \A v, d : IsMade(v, d)' <=> IsMade(v, d)
      BY <2>3 DEF IsMade
    <3>2. \A v \in Keywords : uc_mapper'[v] = IF v = job[t].w THEN 0 ELSE uc_mapper[v]
      BY <2>1, <2>2 DEF TypeOK
    <3>3. QED
      BY <2>1, <2>3, <2>4, <3>1, <3>2 DEF CountersInv, At
  <2>6. TypeOK'
    BY <2>1, <2>2, <2>4, <2>5, <1>c DEF TypeOK, wires, search, history
  <2>7. Room'
    BY <2>1, <2>3, <2>4, <1>n, WorkingSteps DEF Room
  <2>8. TurnsInv' /\ WiresInv'
    BY <2>1, <2>3, <2>4 DEF TurnsInv, WiresInv, wires, search
  <2>9. QED
    BY <2>5, <2>6, <2>7, <2>8
<1>6. ASSUME NEW t \in Threads, Write(t)
      PROVE  TypeInv'
  <2>1. PICK w \in Keywords, c \in Nat, u \in Nat :
          /\ job[t].w = w /\ job[t].c = c /\ u = Len(made) + 1
          /\ At(t, "got") /\ made' = Append(made, <<w, c + 1>>)
          /\ uc_mapper' = [uc_mapper EXCEPT ![w] = c + 1]
          /\ \/ stream' = [stream EXCEPT ![t] = Append(stream[t], u)] /\ UNCHANGED lost
             \/ lost' = lost \cup {u} /\ UNCHANGED stream
          /\ sent' = [sent EXCEPT ![t] = sent[t] \cup {u}]
          /\ job' = [job EXCEPT ![t] = None]
          /\ UNCHANGED <<up, cs_db, writer, call, late, ss_db, search, acked, disturbed, faults, kills>>
    <3>1. At(t, "got") /\ job[t].w \in Keywords /\ job[t].c \in Nat /\ Len(made) + 1 \in Nat
      BY <1>6, <1>n DEF Write, At, TypeOK, Jobs
    <3>2. QED
      BY <1>6, <3>1 DEF Write
  <2>2. IsMade(w, c)
    BY <2>1 DEF CountersInv
  <2>3. Len(made) < MaxUpdates /\ \A s \in Threads \ {t} : job'[s] = job[s]
    <3>1. t \in Working /\ Cardinality(Working) \in Nat
      BY <2>1, FS_CardinalityType DEF Room, Working, At
    <3>2. Cardinality(Working) # 0
      BY <3>1, FS_EmptySet DEF Room
    <3>3. QED
      BY <2>1, <3>1, <3>2, <1>n DEF Room, TypeOK
  <2>4. /\ made' \in Seq(Tokens) /\ Len(made') = Len(made) + 1
        /\ u \in Updates
        /\ Turns' = Turns \cup {u}
        /\ \A v, d : IsMade(v, d) => IsMade(v, d)'
        /\ IsMade(w, c + 1)'
        /\ \A x \in Turns' : made'[x][2] <= x
    BY <2>1, <2>2, <2>3, MakeSteps
  <2>5. /\ stream' \in [Threads -> Seq(Updates)]
        /\ \A s \in Threads : Items(stream'[s]) \subseteq Items(stream[s]) \cup {u}
    <3>1. CASE stream' = stream
      BY <3>1 DEF TypeOK
    <3>2. CASE stream' = [stream EXCEPT ![t] = Append(stream[t], u)]
      <4>1. Append(stream[t], u) \in Seq(Updates) /\ Items(Append(stream[t], u)) = Items(stream[t]) \cup {u}
        BY <2>4, AppendItems DEF TypeOK
      <4>2. QED
        BY <3>2, <4>1 DEF TypeOK
    <3>3. QED
      BY <2>1, <3>1, <3>2
  <2>6. CountersInv'
    <3>1. \A v \in Keywords : uc_mapper'[v] = IF v = w THEN c + 1 ELSE uc_mapper[v]
      BY <2>1, <2>2 DEF TypeOK
    <3>2. \A s \in Threads : At(s, "got")' => At(s, "got") /\ job'[s] = job[s]
      BY <2>1, <2>3 DEF At, TypeOK
    <3>3. \A v \in Keywords : uc_mapper'[v] # None => IsMade(v, uc_mapper[v])'
      BY <2>4, <3>1 DEF CountersInv
    <3>4. \A s \in Threads : At(s, "got")' => IsMade(job[s].w, job[s].c)'
      BY <2>4, <3>2 DEF CountersInv
    <3>5. QED
      BY <2>1, <2>4, <3>3, <3>4 DEF CountersInv
  <2>7. TypeOK'
    <3>1. uc_mapper' \in [Keywords -> Nat \cup {None}] /\ sent' \in [Threads -> SUBSET Updates]
          /\ job' \in [Threads -> Jobs \cup {None}] /\ lost' \in SUBSET Updates
      <4>1. uc_mapper' \in [Keywords -> Nat \cup {None}]
        BY <2>1 DEF TypeOK
      <4>2. sent' \in [Threads -> SUBSET Updates]
        BY <2>1, <2>4 DEF TypeOK
      <4>3. job' \in [Threads -> Jobs \cup {None}]
        BY <2>1 DEF TypeOK
      <4>4. lost' \in SUBSET Updates
        BY <2>1, <2>4 DEF TypeOK
      <4>5. QED
        BY <4>1, <4>2, <4>3, <4>4
    <3>2. Len(made') <= MaxUpdates
      BY <2>3, <2>4, <1>n
    <3>3. QED
      BY <2>1, <2>4, <2>5, <2>6, <3>1, <3>2, <1>c DEF TypeOK, search
  <2>8. Room'
    <3>1. job[t] # None /\ job'[t] = None
      BY <2>1 DEF At, TypeOK
    <3>2. QED
      BY <2>3, <2>4, <3>1, <1>n, WorkingSteps DEF Room
  <2>9. TurnsInv' /\ WiresInv'
    <3>1. writer[t] # "none"
      BY <2>1 DEF At, TurnsInv
    <3>2. \A s \in Threads : job'[s] # None => job[s] # None
      BY <2>1, <2>3 DEF TypeOK
    <3>3. \A s \in Threads : sent'[s] \subseteq sent[s] \cup {u} /\ (s # t => sent'[s] = sent[s])
      BY <2>1 DEF TypeOK
    <3>4. TurnsInv'
      BY <2>1, <3>2 DEF TurnsInv, search
    <3>5. WiresInv'
      BY <2>1, <2>4, <2>5, <3>1, <3>3 DEF WiresInv
    <3>6. QED
      BY <3>4, <3>5
  <2>10. QED
    BY <2>6, <2>7, <2>8, <2>9
<1>7. ASSUME NEW t \in Threads, Finish(t)
      PROVE  TypeInv'
  <2>1. CountersInv' /\ Room' /\ (\A w \in Keywords : Counter(w)' = Counter(w)) /\ Turns' = Turns
    BY <1>7, <1>s DEF Finish, client
  <2>2. TypeOK'
    BY <1>7, <2>1, <1>n, <1>c DEF Finish, TypeOK, WiresInv, client, search
  <2>3. TurnsInv' /\ WiresInv'
    BY <1>7, <2>1 DEF Finish, TurnsInv, WiresInv, client, search, TypeOK
  <2>4. QED
    BY <2>1, <2>2, <2>3
<1>8. ASSUME NEW t \in Threads, NEW n \in 0..MaxUpdates, Break(t, n)
      PROVE  TypeInv'
  <2>1. CountersInv' /\ Room' /\ (\A w \in Keywords : Counter(w)' = Counter(w)) /\ Turns' = Turns
    BY <1>8, <1>s DEF Break, client
  <2>2. late' \subseteq late \cup Items(stream[t]) /\ lost' \subseteq lost \cup Items(stream[t])
    <3>1. Len(stream[t]) \in Nat /\ n \in Nat /\ n <= Len(stream[t])
      BY <1>8, <1>n DEF Break, TypeOK
    <3>2. 1..n \subseteq 1..Len(stream[t]) /\ (n + 1)..Len(stream[t]) \subseteq 1..Len(stream[t])
      BY <3>1
    <3>3. QED
      BY <1>8, <3>2 DEF Break, Items
  <2>3. stream' = [stream EXCEPT ![t] = <<>>] /\ stream' \in [Threads -> Seq(Updates)]
        /\ faults' \in 0..MaxFaults
    BY <1>8, BoundsAssumption DEF Break, TypeOK
  <2>4. TypeOK'
    BY <1>8, <2>1, <2>2, <2>3, <1>n, <1>c DEF Break, TypeOK, WiresInv, client, search
  <2>5. TurnsInv' /\ WiresInv'
    BY <1>8, <2>1, <2>2, <2>3, EmptyItems DEF Break, TurnsInv, WiresInv, client, search, TypeOK
  <2>6. QED
    BY <2>1, <2>4, <2>5
<1>9. ASSUME NEW u \in Updates, Store(u)
      PROVE  TypeInv'
  <2>1. CountersInv' /\ Room' /\ (\A w \in Keywords : Counter(w)' = Counter(w)) /\ Turns' = Turns
    BY <1>9, <1>s DEF Store, client, history
  <2>2. TypeOK'
    BY <1>9, <2>1, <1>c DEF Store, TypeOK, client, search, history
  <2>3. TurnsInv' /\ WiresInv'
    BY <1>9, <2>1 DEF Store, TurnsInv, WiresInv, client, search
  <2>4. QED
    BY <2>1, <2>2, <2>3
<1>10. ASSUME NEW t \in Threads, StoreNext(t)
       PROVE  TypeInv'
  <2>1. CountersInv' /\ Room' /\ (\A w \in Keywords : Counter(w)' = Counter(w)) /\ Turns' = Turns
    BY <1>10, <1>s DEF StoreNext, client, history
  <2>2. /\ Tail(stream[t]) \in Seq(Updates) /\ Head(stream[t]) \in Updates
        /\ Items(Tail(stream[t])) \subseteq Items(stream[t])
    BY <1>10, TailItems DEF StoreNext, TypeOK
  <2>3. stream' = [stream EXCEPT ![t] = Tail(stream[t])] /\ stream' \in [Threads -> Seq(Updates)]
        /\ ss_db' \in [Tokens -> Updates \cup {None}]
    BY <1>10, <2>2 DEF StoreNext, TypeOK
  <2>4. TypeOK'
    BY <1>10, <2>1, <2>3, <1>c DEF StoreNext, TypeOK, client, search, history
  <2>5. TurnsInv' /\ WiresInv'
    BY <1>10, <2>1, <2>2, <2>3 DEF StoreNext, TurnsInv, WiresInv, client, search, TypeOK
  <2>6. QED
    BY <2>1, <2>4, <2>5
<1>11. CASE Restart
  <2>1. CountersInv' /\ Room' /\ (\A w \in Keywords : Counter(w)' = Counter(w)) /\ Turns' = Turns
    BY <1>11, <1>s DEF Restart, client
  <2>2. lost' \subseteq lost \cup Turns
    BY <1>11 DEF Restart, WiresInv, Items
  <2>3. answer' \in Answers \cup {None}
    BY <1>11 DEF Restart, TypeOK, Answers, Queries
  <2>4. stream' = [t \in Threads |-> <<>>] /\ stream' \in [Threads -> Seq(Updates)]
        /\ writer' \in [Threads -> {"none", "open", "broken"}]
        /\ \A t \in Threads : writer'[t] = "none" <=> writer[t] = "none"
    BY <1>11 DEF Restart, TypeOK
  <2>5. TypeOK'
    <3>1. faults' \in 0..MaxFaults /\ lost' \in SUBSET Updates
          /\ late' = {} /\ call' = None /\ query' = None
          /\ UNCHANGED <<client, job, sent, ss_db, made, acked, disturbed, kills>>
      BY <1>11, <2>2, <1>n, BoundsAssumption DEF Restart, TypeOK
    <3>2. QED
      BY <2>1, <2>3, <2>4, <3>1, <1>c DEF TypeOK, client
  <2>6. TurnsInv' /\ WiresInv'
    BY <1>11, <2>1, <2>4, EmptyItems DEF Restart, TurnsInv, WiresInv, client
  <2>7. QED
    BY <2>1, <2>5, <2>6
<1>12. ASSUME NEW w \in Keywords, SearchBegin(w)
       PROVE  TypeInv'
  <2>1. uc_mapper' = [uc_mapper EXCEPT ![w] = Counter(w)] /\ IsMade(w, Counter(w)) /\ Counter(w) \in Nat
        /\ UNCHANGED <<up, cs_db, job, wires, ss_db, history, faults, kills>>
    BY <1>12, CounterType, <1>n DEF SearchBegin
  <2>2. query' \in Queries /\ answer' = None
    BY <1>12, VisibleType DEF SearchBegin, Queries
  <2>3. CountersInv' /\ Turns' = Turns
    <3>1. \A v, d : IsMade(v, d)' <=> IsMade(v, d)
      BY <2>1 DEF IsMade, Turns, history
    <3>2. \A v \in Keywords : uc_mapper'[v] = IF v = w THEN Counter(w) ELSE uc_mapper[v]
      BY <2>1 DEF TypeOK
    <3>3. QED
      BY <2>1, <3>1, <3>2 DEF CountersInv, Turns, At, history
  <2>4. TypeOK'
    BY <2>1, <2>2, <2>3, <1>c DEF TypeOK, wires, history
  <2>5. Room' /\ TurnsInv' /\ WiresInv'
    BY <1>12, <2>3 DEF SearchBegin, Idle, Room, Working, TurnsInv, WiresInv, wires, history
  <2>6. QED
    BY <2>3, <2>4, <2>5
<1>13. CASE SearchStep \/ SearchReturn \/ SearchBreak
  <2>1. query \in Queries /\ query # None /\ UNCHANGED <<client, job, wires, ss_db, history, kills>>
    BY <1>13 DEF SearchStep, SearchReturn, SearchBreak, TypeOK
  <2>2. query' \in Queries \cup {None}
    <3>1. ASSUME NEW l \in query.todo,
                 query' = [query EXCEPT !.todo = 1..(l - 1),
                                        !.found = @ \cup ({ss_db[<<query.w, l>>]} \ {None})]
          PROVE  query' \in Queries
      <4>1. <<query.w, l>> \in Tokens /\ l \in Labels
        BY <2>1 DEF Queries, Tokens
      <4>2. 1..(l - 1) \subseteq Labels
        BY <4>1, <1>n DEF Labels
      <4>3. {ss_db[<<query.w, l>>]} \ {None} \subseteq Updates
        BY <4>1 DEF TypeOK
      <4>4. QED
        BY <2>1, <3>1, <4>2, <4>3 DEF Queries
    <3>2. QED
      BY <1>13, <3>1 DEF SearchStep, SearchReturn, SearchBreak
  <2>3. answer' \in Answers \cup {None} /\ faults' \in 0..MaxFaults
    <3>1. query.w \in Keywords /\ query.found \in SUBSET Updates
      BY <2>1 DEF Queries
    <3>2. CASE SearchStep
      BY <3>2 DEF SearchStep, TypeOK
    <3>3. CASE SearchReturn
      BY <3>1, <3>3 DEF SearchReturn, Answers, TypeOK
    <3>4. CASE SearchBreak
      BY <3>1, <3>4, BoundsAssumption DEF SearchBreak, Answers, TypeOK
    <3>5. QED
      BY <1>13, <3>2, <3>3, <3>4
  <2>4. CountersInv' /\ Room' /\ (\A w \in Keywords : Counter(w)' = Counter(w)) /\ Turns' = Turns
    BY <2>1, <1>s DEF client, history
  <2>5. TypeOK'
    BY <2>1, <2>2, <2>3, <2>4, <1>c DEF TypeOK, client, wires, history
  <2>6. TurnsInv' /\ WiresInv'
    BY <2>1, <2>4 DEF TurnsInv, WiresInv, client, wires, history
  <2>7. QED
    BY <2>4, <2>5, <2>6
<1>14. CASE Exit
  <2>1. cs_db' = [w \in Keywords |-> IF uc_mapper[w] = None THEN cs_db[w] ELSE uc_mapper[w]]
        /\ uc_mapper' = cs_db' /\ UNCHANGED <<job, wires, ss_db, search, history, faults, kills>>
        /\ up' = FALSE
    BY <1>14 DEF Exit
  <2>2. CountersInv' /\ Turns' = Turns
    <3>1. \A v, d : IsMade(v, d)' <=> IsMade(v, d)
      BY <2>1 DEF IsMade, Turns, history
    <3>2. QED
      BY <2>1, <3>1 DEF CountersInv, Turns, At, history
  <2>3. TypeOK'
    BY <2>1, <2>2, <1>c DEF TypeOK, wires, search, history
  <2>4. Room' /\ TurnsInv' /\ WiresInv'
    BY <1>14, <2>2 DEF Exit, Idle, Room, Working, TurnsInv, WiresInv, wires, search, history
  <2>5. QED
    BY <2>2, <2>3, <2>4
<1>15. ASSUME NEW db \in [Keywords -> Nat \cup {None}], Lose(db),
              \A w \in Keywords : db[w] # None => IsMade(w, db[w])
       PROVE  TypeInv'
  <2>1. late' \subseteq late \cup Turns
    BY <1>15 DEF Lose, WiresInv, Items
  <2>2. /\ \A t \in Threads : job'[t] = None /\ writer'[t] = "none" /\ sent'[t] = {} /\ stream'[t] = <<>>
        /\ call' = None /\ query' = None /\ answer' = None
        /\ UNCHANGED <<made, ss_db, acked, lost, faults>>
        /\ cs_db' = db /\ uc_mapper' = db /\ up' = FALSE
    BY <1>15 DEF Lose
  <2>3. CountersInv' /\ Turns' = Turns
    <3>1. \A v, d : IsMade(v, d)' <=> IsMade(v, d)
      BY <2>2 DEF IsMade, Turns
    <3>2. QED
      BY <1>15, <2>2, <3>1 DEF CountersInv, Turns, At
  <2>4. TypeOK'
    <3>1. /\ job' \in [Threads -> Jobs \cup {None}] /\ writer' \in [Threads -> {"none", "open", "broken"}]
          /\ sent' \in [Threads -> SUBSET Updates] /\ stream' \in [Threads -> Seq(Updates)]
          /\ disturbed' \in SUBSET Keywords /\ kills' \in 0..MaxKills /\ late' \in SUBSET Updates
      BY <1>15, <2>1, <1>n, BoundsAssumption DEF Lose, TypeOK
    <3>2. QED
      BY <1>15, <2>2, <2>3, <3>1, <1>c DEF TypeOK
  <2>5. Room'
    <3>1. Working' = {}
      BY <2>2 DEF Working
    <3>2. QED
      BY <2>2, <3>1, <1>n, FS_EmptySet DEF Room, TypeOK
  <2>6. TurnsInv' /\ WiresInv'
    BY <2>1, <2>2, <2>3, EmptyItems DEF TurnsInv, WiresInv
  <2>7. QED
    BY <2>3, <2>4, <2>5, <2>6
<1>16. CASE Kill
  BY <1>15, <1>16 DEF Kill, TypeOK, CountersInv
<1>17. CASE KillInDestructor
  <2>1. PICK stored \in SUBSET {w \in Keywords : uc_mapper[w] # None}, gone \in SUBSET Keywords :
          Lose([w \in Keywords |-> IF w \in stored THEN uc_mapper[w]
                                   ELSE IF w \in gone THEN None ELSE cs_db[w]])
    BY <1>17 DEF KillInDestructor
  <2> DEFINE db == [w \in Keywords |-> IF w \in stored THEN uc_mapper[w]
                                       ELSE IF w \in gone THEN None ELSE cs_db[w]]
  <2>2. db \in [Keywords -> Nat \cup {None}] /\ \A w \in Keywords : db[w] # None => IsMade(w, db[w])
    BY DEF TypeOK, CountersInv
  <2>3. QED
    BY <1>15, <2>1, <2>2
<1>18. CASE Start \/ UNCHANGED vars
  <2>1. UNCHANGED <<uc_mapper, cs_db, job, wires, ss_db, search, history, faults, kills>>
        /\ up' \in BOOLEAN /\ (up => up')
    BY <1>18 DEF Start, vars, client, TypeOK
  <2>2. CountersInv' /\ Room' /\ (\A w \in Keywords : Counter(w)' = Counter(w)) /\ Turns' = Turns
    BY <2>1, <1>s DEF history
  <2>3. TypeOK'
    BY <2>1, <2>2, <1>c DEF TypeOK, wires, search, history
  <2>4. TurnsInv' /\ WiresInv'
    BY <2>1, <2>2 DEF TurnsInv, WiresInv, wires, search, history
  <2>5. QED
    BY <2>2, <2>3, <2>4
<1>19. QED
  BY <1>1, <1>2, <1>3, <1>4, <1>5, <1>6, <1>7, <1>8, <1>9, <1>10, <1>11, <1>12, <1>13, <1>14,
     <1>16, <1>17, <1>18 DEF Next, Generate

----------------------------------------------------------------------------
(* What is stored *)

\* Updates that were made stay as they are.
LEMMA MadeSteps ==
  ASSUME TypeInv, [Next]_vars
  PROVE  Turns \subseteq Turns' /\ \A u \in Turns : made'[u] = made[u]
<1> USE DEF TypeInv
<1>1. ASSUME NEW e, made' = Append(made, e), e \in Tokens
      PROVE  Turns \subseteq Turns' /\ \A u \in Turns : made'[u] = made[u]
  BY <1>1 DEF TypeOK, Turns
<1>2. ASSUME NEW w \in Keywords, Update(w)
      PROVE  \E e \in Tokens : made' = Append(made, e)
  <2>1. PICK c \in Nat : IsMade(w, c) /\ Len(made) < MaxUpdates /\ made' = Append(made, <<w, c + 1>>)
    <3>1. Counter(w) \in Nat /\ IsMade(w, Counter(w))
      <4>1. Len(made) \in Nat
        BY DEF TypeOK
      <4>2. QED
        BY <4>1, CounterType
    <3>2. QED
      BY <1>2, <3>1 DEF Update
  <2>2. QED
    BY <2>1, MakeSteps
<1>3. ASSUME NEW t \in Threads, Write(t)
      PROVE  \E e \in Tokens : made' = Append(made, e)
  <2>1. PICK w \in Keywords, c \in Nat : job[t].w = w /\ job[t].c = c /\ At(t, "got")
                                         /\ made' = Append(made, <<w, c + 1>>)
    <3>1. At(t, "got") /\ job[t].w \in Keywords /\ job[t].c \in Nat
      BY <1>3, BoundsAssumption DEF Write, At, TypeOK, Jobs
    <3>2. QED
      BY <1>3, <3>1 DEF Write
  <2>2. IsMade(w, c)
    BY <2>1 DEF CountersInv
  <2>3. Len(made) < MaxUpdates
    <3>1. t \in Working /\ Cardinality(Working) \in Nat
      BY <2>1, FS_CardinalityType DEF Room, Working, At
    <3>2. Cardinality(Working) # 0
      BY <3>1, FS_EmptySet DEF Room
    <3>3. QED
      BY <3>1, <3>2, BoundsAssumption DEF Room, TypeOK
  <2>4. QED
    BY <2>1, <2>2, <2>3, MakeSteps
<1>4. CASE made' # made
  BY <1>1, <1>2, <1>3, <1>4 DEF Next, Generate, UpdateReturn, UpdateBreak, Open, Find, Insert, Finish,
     Break, Store, StoreNext, Restart, SearchBegin, SearchStep, SearchReturn, SearchBreak, Exit,
     Lose, Kill, KillInDestructor, Start, vars, history
<1>5. CASE made' = made
  BY <1>5 DEF Turns
<1>6. QED
  BY <1>4, <1>5

\* An entry, once there, is not taken away, and none is stored under a wrong label.
LEMMA DbSteps ==
  ASSUME TypeInv, [Next]_vars
  PROVE  /\ \A k \in Tokens : ss_db[k] # None => ss_db'[k] # None
         /\ \A k \in Tokens : ss_db'[k] # ss_db[k] => \E u \in Turns : k = made[u] /\ ss_db'[k] = u
         /\ ss_db' # ss_db => /\ \E u \in Turns : ss_db' = [ss_db EXCEPT ![made[u]] = u]
                              /\ UNCHANGED <<made, uc_mapper, query, answer, disturbed>>
<1> USE DEF TypeInv
<1>1. ASSUME NEW u \in Updates, Store(u)
      PROVE  /\ u \in Turns /\ ss_db' = [ss_db EXCEPT ![made[u]] = u]
             /\ UNCHANGED <<made, uc_mapper, query, answer, disturbed>>
  BY <1>1 DEF Store, WiresInv, client, search, history
<1>2. ASSUME NEW t \in Threads, StoreNext(t)
      PROVE  /\ Head(stream[t]) \in Turns
             /\ ss_db' = [ss_db EXCEPT ![made[Head(stream[t])]] = Head(stream[t])]
             /\ UNCHANGED <<made, uc_mapper, query, answer, disturbed>>
  <2>1. Head(stream[t]) \in Items(stream[t])
    BY <1>2, TailItems DEF StoreNext, TypeOK
  <2>2. QED
    BY <1>2, <2>1 DEF StoreNext, WiresInv, client, search, history
<1>3. CASE ss_db' # ss_db
  <2>1. PICK u \in Turns : /\ ss_db' = [ss_db EXCEPT ![made[u]] = u]
                           /\ UNCHANGED <<made, uc_mapper, query, answer, disturbed>>
    BY <1>1, <1>2, <1>3 DEF Next, Generate, Update, UpdateReturn, UpdateBreak, Open, Find, Insert,
       Write, Finish, Break, Restart, SearchBegin, SearchStep, SearchReturn, SearchBreak, Exit,
       Lose, Kill, KillInDestructor, Start, vars
  <2>2. made[u] \in Tokens /\ u # None
    BY NoneAssumption DEF TypeOK, Turns
  <2>3. QED
    BY <2>1, <2>2 DEF TypeOK
<1>4. QED
  BY <1>3

LEMMA InitStored == Init => StoredInv
BY DEF Init, StoredInv

LEMMA StepStored ==
  ASSUME TypeInv, TypeInv', StoredInv, [Next]_vars
  PROVE  StoredInv'
<1> USE DEF TypeInv
<1>1. Turns \subseteq Turns' /\ \A u \in Turns : made'[u] = made[u] /\ made[u] \in Tokens
  <2>1. \A u \in Turns : made[u] \in Tokens
    BY DEF TypeOK, Turns
  <2>2. QED
    BY <2>1, MadeSteps
<1>2. \A u \in Turns : ss_db[made[u]] # None => ss_db'[made'[u]] # None
  BY <1>1, DbSteps
<1>3. ASSUME NEW k \in Tokens, ss_db'[k] # None
      PROVE  ss_db'[k] \in Turns' /\ made'[ss_db'[k]] = k
  <2>1. CASE ss_db'[k] = ss_db[k]
    BY <1>1, <1>3, <2>1 DEF StoredInv
  <2>2. CASE ss_db'[k] # ss_db[k]
    BY <1>1, <2>2, DbSteps
  <2>3. QED
    BY <2>1, <2>2
<1>4. ASSUME NEW u \in acked'
      PROVE  u \in Turns' /\ ss_db'[made'[u]] # None
  <2>1. CASE u \in acked
    BY <1>1, <1>2, <2>1 DEF StoredInv
  <2>2. CASE UpdateReturn /\ u = call
    BY <1>1, <1>2, <2>2 DEF UpdateReturn, StoredInv, WiresInv
  <2>3. ASSUME NEW t \in Threads, Finish(t), u \in sent[t], writer[t] = "open"
        PROVE  u \in Turns' /\ ss_db'[made'[u]] # None
    <3>1. stream[t] = <<>>
      BY <2>3 DEF Finish
    <3>2. QED
      BY <1>1, <1>2, <2>3, <3>1, EmptyItems DEF StoredInv, WiresInv
  <2>4. CASE u \notin acked
    BY <1>4, <2>2, <2>3, <2>4 DEF Next, Generate, Update, UpdateReturn, UpdateBreak, Open, Find, Insert,
       Write, Finish, Break, Store, StoreNext, Restart, SearchBegin, SearchStep, SearchReturn,
       SearchBreak, Exit, Lose, Kill, KillInDestructor, Start, vars, history
  <2>5. QED
    BY <2>1, <2>4
<1>5. ASSUME call' # None
      PROVE  call' \in late' \/ ss_db'[made'[call']] # None
  <2>1. ASSUME NEW u \in Updates, Store(u)
        PROVE  call' \in late' \/ ss_db'[made'[call']] # None
    <3>1. u \in Turns /\ u # None /\ ss_db' = [ss_db EXCEPT ![made[u]] = u]
      BY <2>1, NoneAssumption DEF Store, WiresInv, Updates
    <3>2. ss_db'[made[u]] # None
      BY <1>1, <3>1 DEF TypeOK
    <3>3. call' = call /\ late' = late \ {u}
      BY <2>1 DEF Store
    <3>4. QED
      BY <1>1, <1>2, <1>5, <3>1, <3>2, <3>3 DEF StoredInv, WiresInv
  <2>2. ASSUME NEW w \in Keywords, Update(w)
        PROVE  call' \in late'
    BY <2>2 DEF Update
  <2>3. CASE call' = call /\ late \subseteq late'
    BY <1>1, <1>2, <1>5, <2>3 DEF StoredInv, WiresInv
  <2>4. QED
    BY <1>5, <2>1, <2>2, <2>3 DEF Next, Generate, UpdateReturn, UpdateBreak, Open, Find, Insert,
       Write, Finish, Break, StoreNext, Restart, SearchBegin, SearchStep, SearchReturn,
       SearchBreak, Exit, Lose, Kill, KillInDestructor, Start, vars, wires
<1>6. ASSUME NEW t \in Threads, writer'[t] = "open", NEW u \in sent'[t]
      PROVE  u \in Items(stream'[t]) \/ ss_db'[made'[u]] # None
  <2>1. ASSUME NEW s \in Threads, Write(s)
        PROVE  u \in Items(stream'[t]) \/ ss_db'[made'[u]] # None
    <3>1. CASE s = t
      <4>1. PICK v \in Nat : /\ v = Len(made) + 1
                             /\ stream' = [stream EXCEPT ![t] = Append(stream[t], v)]
                             /\ sent' = [sent EXCEPT ![t] = sent[t] \cup {v}]
                             /\ writer' = writer
        <5>1. writer' = writer /\ Len(made) + 1 \in Nat
          BY <2>1 DEF Write, TypeOK
        <5>2. QED
          BY <1>6, <2>1, <3>1, <5>1 DEF Write
      <4>2. v \in Updates
        <5>1. v \in sent'[t]
          BY <4>1 DEF TypeOK
        <5>2. QED
          BY <5>1 DEF TypeOK
      <4>3. Items(stream'[t]) = Items(stream[t]) \cup {v} /\ sent'[t] = sent[t] \cup {v}
        BY <4>1, <4>2, AppendItems DEF TypeOK
      <4>4. QED
        BY <1>1, <1>2, <1>6, <4>1, <4>3 DEF StoredInv, WiresInv
    <3>2. CASE s # t
      <4>1. sent'[t] = sent[t] /\ stream'[t] = stream[t] /\ writer' = writer
        BY <2>1, <3>2 DEF Write, TypeOK
      <4>2. QED
        BY <1>1, <1>2, <1>6, <4>1 DEF StoredInv, WiresInv
    <3>3. QED
      BY <3>1, <3>2
  <2>2. ASSUME NEW s \in Threads, StoreNext(s)
        PROVE  u \in Items(stream'[t]) \/ ss_db'[made'[u]] # None
    <3>1. CASE s = t
      <4>1. /\ Items(stream[t]) = Items(stream'[t]) \cup {Head(stream[t])}
            /\ Head(stream[t]) \in Turns /\ Head(stream[t]) # None
            /\ ss_db' = [ss_db EXCEPT ![made[Head(stream[t])]] = Head(stream[t])]
        <5>1. stream[t] \in Seq(Updates) /\ stream[t] # <<>> /\ stream'[t] = Tail(stream[t])
              /\ ss_db' = [ss_db EXCEPT ![made[Head(stream[t])]] = Head(stream[t])]
          BY <2>2, <3>1 DEF StoreNext, TypeOK
        <5>2. Items(stream[t]) = Items(Tail(stream[t])) \cup {Head(stream[t])}
          BY <5>1, TailItems
        <5>3. Head(stream[t]) \in Turns
          BY <5>2 DEF WiresInv
        <5>4. Head(stream[t]) # None
          BY <5>3, NoneAssumption DEF Turns, TypeOK
        <5>5. QED
          BY <5>1, <5>2, <5>3, <5>4
      <4>2. ss_db'[made[Head(stream[t])]] # None
        BY <1>1, <4>1 DEF TypeOK
      <4>3. sent' = sent /\ writer' = writer
        BY <2>2 DEF StoreNext
      <4>4. QED
        BY <1>1, <1>2, <1>6, <4>1, <4>2, <4>3 DEF StoredInv, WiresInv
    <3>2. CASE s # t
      <4>1. sent' = sent /\ stream'[t] = stream[t] /\ writer' = writer
        BY <2>2, <3>2 DEF StoreNext, TypeOK
      <4>2. QED
        BY <1>1, <1>2, <1>6, <4>1 DEF StoredInv, WiresInv
    <3>3. QED
      BY <3>1, <3>2
  <2>3. CASE writer[t] = "open" /\ sent'[t] = sent[t] /\ stream'[t] = stream[t]
    BY <1>1, <1>2, <1>6, <2>3 DEF StoredInv, WiresInv
  <2>4. ASSUME NEW s \in Threads, Open(s) \/ Finish(s) \/ \E n \in 0..MaxUpdates : Break(s, n)
        PROVE  writer[t] = "open" /\ sent'[t] = sent[t] /\ stream'[t] = stream[t]
    <3>1. s # t
      <4>1. ~Finish(t) /\ ~\E n \in 0..MaxUpdates : Break(t, n)
        BY <1>6 DEF Finish, Break, TypeOK
      <4>2. ~Open(t)
        BY <1>6 DEF Open, WiresInv
      <4>3. QED
        BY <2>4, <4>1, <4>2
    <3>2. QED
      BY <1>6, <2>4, <3>1 DEF Open, Finish, Break, TypeOK
  <2>5. ~Restart /\ ~Kill /\ ~KillInDestructor
    BY <1>6 DEF Restart, Kill, KillInDestructor, Lose, TypeOK
  <2>6. CASE UNCHANGED <<writer, sent, stream>>
    BY <1>6, <2>3, <2>6
  <2>7. QED
    BY <2>1, <2>2, <2>3, <2>4, <2>5, <2>6 DEF Next, Generate, Update, UpdateReturn, UpdateBreak, Find,
       Insert, Store, SearchBegin, SearchStep, SearchReturn, SearchBreak, Exit, Start, vars, wires
<1>7. QED
  BY <1>3, <1>4, <1>5, <1>6 DEF StoredInv

----------------------------------------------------------------------------
(* Undisturbed keywords *)

LEMMA InitUndisturbed == Init => UndisturbedInv
BY DEF Init, UndisturbedInv, Turns, Counter

\* A step that makes nothing, takes no thread on and counts what was counted.
LEMMA UndisturbedStays ==
  ASSUME UndisturbedInv, made' = made, disturbed \subseteq disturbed',
         \A t \in Threads : job'[t] # None => job'[t] = job[t],
         \A w \in Keywords \ disturbed' :
           /\ (\E t \in Threads : job'[t] # None) => uc_mapper'[w] = uc_mapper[w]
           /\ Counter(w)' = Counter(w)
           /\ Counter(w) = 0 => cs_db'[w] \in {None, 0}
  PROVE  UndisturbedInv'
BY DEF UndisturbedInv, Turns

\* An update is made for the next label of w, by nobody else working on w.
LEMMA MakeUndisturbed ==
  ASSUME TypeInv, UndisturbedInv, NEW w \in Keywords, NEW c \in Nat, IsMade(w, c),
         Len(made) < MaxUpdates, made' = Append(made, <<w, c + 1>>),
         w \notin disturbed => c = Counter(w) /\ \A t \in Threads : job'[t] # None => job'[t].w # w,
         uc_mapper' = [uc_mapper EXCEPT ![w] = c + 1], UNCHANGED <<disturbed, cs_db>>,
         \A t \in Threads : job'[t] # None => job'[t] = job[t]
  PROVE  UndisturbedInv'
<1>1. /\ Turns' = Turns \cup {Len(made) + 1} /\ Len(made) + 1 \notin Turns
      /\ made'[Len(made) + 1] = <<w, c + 1>> /\ \A u \in Turns : made'[u] = made[u]
  BY MakeSteps
<1>2. \A v \in Keywords : uc_mapper'[v] = IF v = w THEN c + 1 ELSE uc_mapper[v]
  BY DEF TypeInv, TypeOK
<1>3. \A v \in Keywords : Counter(v)' = IF v = w THEN c + 1 ELSE Counter(v)
  BY <1>2, NoneAssumption DEF Counter
<1>4. PICK n : n = Len(made) + 1 /\ made'[n] = <<w, c + 1>> /\ made'[n][1] = w /\ made'[n][2] = c + 1
               /\ Turns' = Turns \cup {n} /\ n \notin Turns
  BY <1>1
<1>u. ASSUME w \notin disturbed
      PROVE  /\ \A u \in Turns : made[u][1] = w => made[u][2] <= c
             /\ \A u, x \in Turns : made[u] = made[x] /\ made[u][1] = w => u = x
  <2>1. w \in Keywords \ disturbed /\ Counter(w) = c
    BY <1>u
  <2>2. \A u \in Turns : made[u][1] = w => made[u][2] <= Counter(w)
    BY <2>1 DEF UndisturbedInv
  <2>3. \A u, x \in Turns : made[u] = made[x] /\ made[u][1] = w => u = x
    BY <2>1 DEF UndisturbedInv
  <2>4. QED
    BY <2>1, <2>2, <2>3
<1>t. \A u \in Turns : made[u][2] \in Nat
  BY DEF TypeInv, TypeOK, Turns, Tokens, Labels
<1>5. ASSUME NEW v \in Keywords \ disturbed, v # w, NEW u \in Turns', made'[u][1] = v
      PROVE  u \in Turns /\ made[u] = made'[u]
  BY <1>1, <1>4, <1>5
<1>6. ASSUME w \notin disturbed, NEW u \in Turns', made'[u][1] = w
      PROVE  made'[u][2] <= c + 1
  <2>1. CASE u \in Turns
    <3>1. made'[u] = made[u]
      BY <1>1, <2>1
    <3>2. made[u][2] \in Nat /\ made[u][2] <= c
      <4>1. made[u][1] = w
        BY <1>6, <3>1
      <4>2. made[u][2] \in Nat
        BY <1>t, <2>1
      <4>3. made[u][2] <= c
        BY <1>6, <1>u, <2>1, <4>1
      <4>4. QED
        BY <4>2, <4>3
    <3>3. made[u][2] <= c + 1
      BY <3>2
    <3>4. QED
      BY <3>1, <3>3
  <2>2. CASE u = n
    BY <1>4, <2>2
  <2>3. QED
    BY <1>4, <2>1, <2>2
<1>7. ASSUME w \notin disturbed, NEW u \in Turns', NEW x \in Turns', made'[u] = made'[x], made'[u][1] = w
      PROVE  u = x
  <2>1. ASSUME NEW y \in Turns, made'[y] = <<w, c + 1>> PROVE FALSE
    <3>1. made[y][1] = w /\ made[y][2] = c + 1
      <4>1. made[y] = <<w, c + 1>>
        BY <1>1, <2>1
      <4>2. QED
        BY <4>1
    <3>2. made[y][2] <= c
      BY <1>7, <1>u, <2>1, <3>1
    <3>3. QED
      BY <3>1, <3>2
  <2>2. u = n <=> x = n
    BY <1>4, <1>7, <2>1
  <2>3. CASE u \in Turns /\ x \in Turns
    <3>1. made[u] = made[x] /\ made[u][1] = w
      BY <1>1, <1>7, <2>3
    <3>2. QED
      BY <1>7, <1>u, <2>3, <3>1
  <2>4. QED
    BY <1>4, <2>2, <2>3
<1>8. ASSUME NEW v \in Keywords \ disturbed
      PROVE  /\ \A u \in Turns' : made'[u][1] = v => made'[u][2] <= Counter(v)'
             /\ \A u, x \in Turns' : made'[u] = made'[x] /\ made'[u][1] = v => u = x
             /\ Counter(v)' = 0 => cs_db[v] \in {None, 0}
             /\ v # w => uc_mapper'[v] = uc_mapper[v]
  <2>1. CASE v = w
    <3>1. Counter(v)' = c + 1
      BY <1>3, <2>1
    <3>2. \A u \in Turns' : made'[u][1] = v => made'[u][2] <= c + 1
      BY <1>6, <1>8, <2>1
    <3>3. \A u, x \in Turns' : made'[u] = made'[x] /\ made'[u][1] = v => u = x
      BY <1>7, <1>8, <2>1
    <3>4. Counter(v)' # 0
      BY <3>1
    <3>5. QED
      BY <2>1, <3>1, <3>2, <3>3, <3>4
  <2>2. CASE v # w
    <3>1. Counter(v)' = Counter(v) /\ uc_mapper'[v] = uc_mapper[v]
      BY <1>2, <1>3, <2>2
    <3>2. \A u \in Turns' : made'[u][1] = v => u \in Turns /\ made[u] = made'[u]
      BY <1>5, <1>8, <2>2
    <3>3. \A u \in Turns : made[u][1] = v => made[u][2] <= Counter(v)
      BY <1>8 DEF UndisturbedInv
    <3>4. \A u, x \in Turns : made[u] = made[x] /\ made[u][1] = v => u = x
      BY <1>8 DEF UndisturbedInv
    <3>5. Counter(v) = 0 => cs_db[v] \in {None, 0}
      BY <1>8 DEF UndisturbedInv
    <3>6. \A u \in Turns' : made'[u][1] = v => made'[u][2] <= Counter(v)'
      BY <3>1, <3>2, <3>3
    <3>7. \A u, x \in Turns' : made'[u] = made'[x] /\ made'[u][1] = v => u = x
      BY <3>2, <3>4
    <3>8. QED
      BY <3>1, <3>5, <3>6, <3>7
  <2>3. QED
    BY <2>1, <2>2
<1>9. ASSUME NEW v \in Keywords \ disturbed
      PROVE  /\ \A t, s \in Threads :
                  job'[t] # None /\ job'[s] # None /\ job'[t].w = v /\ job'[s].w = v => t = s
             /\ \A t \in Threads : job'[t] # None /\ job'[t].w = v =>
                  uc_mapper'[v] = IF job'[t].at = "got" THEN job'[t].c ELSE None
  BY <1>8, <1>9 DEF UndisturbedInv
<1>10. QED
  BY <1>8, <1>9 DEF UndisturbedInv

LEMMA StepUndisturbed ==
  ASSUME TypeInv, TypeInv', UndisturbedInv, [Next]_vars
  PROVE  UndisturbedInv'
<1> USE DEF TypeInv
<1>n. Len(made) \in Nat
  BY DEF TypeOK
<1>1. ASSUME NEW w \in Keywords, Update(w)
      PROVE  UndisturbedInv'
  <2>1. PICK c \in Nat : c = Counter(w)
    BY <1>n, CounterType
  <2>2. /\ IsMade(w, c) /\ Len(made) < MaxUpdates /\ made' = Append(made, <<w, c + 1>>)
        /\ uc_mapper' = [uc_mapper EXCEPT ![w] = c + 1] /\ UNCHANGED <<job, disturbed, cs_db>>
    BY <1>1, <2>1, CounterType DEF Update
  <2>3. \A t \in Threads : job[t] = None
    BY <1>1 DEF Update, Idle, TurnsInv
  <2>4. QED
    BY <2>1, <2>2, <2>3, MakeUndisturbed
<1>2. ASSUME NEW t \in Threads, Write(t)
      PROVE  UndisturbedInv'
  <2>1. PICK w \in Keywords, c \in Nat :
          /\ job[t].w = w /\ job[t].c = c /\ At(t, "got")
          /\ made' = Append(made, <<w, c + 1>>)
          /\ uc_mapper' = [uc_mapper EXCEPT ![w] = c + 1]
          /\ job' = [job EXCEPT ![t] = None] /\ UNCHANGED <<disturbed, cs_db>>
    <3>1. At(t, "got") /\ job[t].w \in Keywords /\ job[t].c \in Nat
      BY <1>2, BoundsAssumption DEF Write, At, TypeOK, Jobs
    <3>2. QED
      BY <1>2, <3>1 DEF Write
  <2>2. IsMade(w, c)
    BY <2>1 DEF CountersInv
  <2>3. Len(made) < MaxUpdates
    <3>1. t \in Working /\ Cardinality(Working) \in Nat
      BY <2>1, FS_CardinalityType DEF Room, Working, At
    <3>2. Cardinality(Working) # 0
      BY <3>1, FS_EmptySet DEF Room
    <3>3. QED
      BY <3>1, <3>2, <1>n, BoundsAssumption DEF Room
  <2>4. \A s \in Threads : job'[s] = IF s = t THEN None ELSE job[s]
    BY <2>1 DEF TypeOK
  <2>5. w \notin disturbed => c = Counter(w) /\ \A s \in Threads : job'[s] # None => job'[s].w # w
    <3> SUFFICES ASSUME w \notin disturbed
                 PROVE  c = Counter(w) /\ \A s \in Threads : job'[s] # None => job'[s].w # w
      OBVIOUS
    <3>1. uc_mapper[w] = c /\ c # None
      BY <2>1, NoneAssumption DEF UndisturbedInv, At
    <3>2. \A s \in Threads : job[s] # None /\ job[s].w = w => s = t
      BY <2>1 DEF UndisturbedInv, At
    <3>3. QED
      BY <2>4, <3>1, <3>2 DEF Counter
  <2>6. QED
    BY <2>1, <2>2, <2>3, <2>4, <2>5, MakeUndisturbed
<1>3. ASSUME NEW t \in Threads, NEW w \in Keywords, Find(t, w)
      PROVE  UndisturbedInv'
  <2> DEFINE j == IF uc_mapper[w] = None THEN [at |-> "insert", w |-> w]
                  ELSE [at |-> "got", w |-> w, c |-> uc_mapper[w]]
  <2>1. job' = [job EXCEPT ![t] = j] /\ disturbed' = (IF Busy(w) THEN disturbed \cup {w} ELSE disturbed)
        /\ job[t] = None /\ UNCHANGED <<made, uc_mapper, cs_db>>
    BY <1>3 DEF Find, client
  <2>2. j.w = w /\ uc_mapper[w] = (IF j.at = "got" THEN j.c ELSE None)
    OBVIOUS
  <2> HIDE DEF j
  <2>3. \A s \in Threads : job'[s] = IF s = t THEN j ELSE job[s]
    BY <2>1 DEF TypeOK
  <2>4. \A v \in Keywords : Counter(v)' = Counter(v)
    BY <2>1 DEF Counter
  <2>5. w \notin disturbed' => \A s \in Threads : job[s] # None => job[s].w # w
    BY <2>1 DEF Busy
  <2>6. ASSUME NEW v \in Keywords \ disturbed'
        PROVE  /\ \A s, r \in Threads :
                    job'[s] # None /\ job'[r] # None /\ job'[s].w = v /\ job'[r].w = v => s = r
               /\ \A s \in Threads : job'[s] # None /\ job'[s].w = v =>
                    uc_mapper[v] = IF job'[s].at = "got" THEN job'[s].c ELSE None
    <3>1. v \in Keywords \ disturbed
      BY <2>1
    <3>2. CASE v = w
      BY <2>2, <2>3, <2>5, <2>6, <3>2
    <3>3. CASE v # w
      BY <2>2, <2>3, <3>1, <3>3 DEF UndisturbedInv
    <3>4. QED
      BY <3>2, <3>3
  <2>7. disturbed \subseteq disturbed' /\ Turns' = Turns
    BY <2>1 DEF Turns
  <2>8. QED
    BY <2>1, <2>4, <2>6, <2>7 DEF UndisturbedInv
<1>4. ASSUME NEW t \in Threads, Insert(t)
      PROVE  UndisturbedInv'
  <2>1. PICK w \in Keywords : w = job[t].w
    BY <1>4 DEF Insert, TypeOK, Jobs
  <2>2. /\ job' = [job EXCEPT ![t] = [at |-> "got", w |-> w, c |-> 0]]
        /\ job[t] # None /\ job[t].at = "insert"
        /\ uc_mapper' = [uc_mapper EXCEPT ![w] = 0]
        /\ UNCHANGED <<made, cs_db, disturbed>>
    BY <1>4, <2>1 DEF Insert, history
  <2>3. \A s \in Threads : job'[s] = IF s = t THEN [at |-> "got", w |-> w, c |-> 0] ELSE job[s]
    BY <2>2 DEF TypeOK
  <2>4. \A v \in Keywords : uc_mapper'[v] = IF v = w THEN 0 ELSE uc_mapper[v]
    BY <2>2 DEF TypeOK
  <2>5. \A v \in Keywords \ disturbed : Counter(v)' = Counter(v)
    <3>1. w \notin disturbed => uc_mapper[w] = None
      BY <2>1, <2>2 DEF UndisturbedInv
    <3>2. QED
      BY <2>4, <3>1, NoneAssumption DEF Counter
  <2>6. ASSUME NEW v \in Keywords \ disturbed
        PROVE  /\ \A s, r \in Threads :
                    job'[s] # None /\ job'[r] # None /\ job'[s].w = v /\ job'[r].w = v => s = r
               /\ \A s \in Threads : job'[s] # None /\ job'[s].w = v =>
                    uc_mapper'[v] = IF job'[s].at = "got" THEN job'[s].c ELSE None
    <3>1. CASE v = w
      <4>1. \A s \in Threads : job[s] # None /\ job[s].w = w => s = t
        BY <2>1, <2>2, <2>6, <3>1 DEF UndisturbedInv
      <4>2. \A s \in Threads : job'[s] # None /\ job'[s].w = w => s = t
        BY <2>3, <4>1
      <4>3. QED
        BY <2>3, <2>4, <3>1, <4>2
    <3>2. CASE v # w
      BY <2>3, <2>4, <2>6, <3>2 DEF UndisturbedInv
    <3>3. QED
      BY <3>1, <3>2
  <2>7. Turns' = Turns
    BY <2>2 DEF Turns
  <2>8. QED
    BY <2>2, <2>5, <2>6, <2>7 DEF UndisturbedInv
<1>5. ASSUME NEW w \in Keywords, SearchBegin(w)
      PROVE  UndisturbedInv'
  <2>1. uc_mapper' = [uc_mapper EXCEPT ![w] = Counter(w)] /\ UNCHANGED <<made, cs_db, job, disturbed>>
    BY <1>5 DEF SearchBegin, history
  <2>2. Counter(w) \in Nat
    BY <1>n, CounterType
  <2>3. \A v \in Keywords : Counter(v)' = Counter(v)
    <3>1. \A v \in Keywords : uc_mapper'[v] = IF v = w THEN Counter(w) ELSE uc_mapper[v]
      BY <2>1 DEF TypeOK
    <3>2. Counter(w)' = Counter(w)
      BY <2>2, <3>1, NoneAssumption DEF Counter
    <3>3. \A v \in Keywords \ {w} : Counter(v)' = Counter(v)
      BY <3>1 DEF Counter
    <3>4. QED
      BY <3>2, <3>3
  <2>4. \A t \in Threads : job'[t] = None
    BY <1>5, <2>1 DEF SearchBegin, Idle, TurnsInv
  <2>5. \A v \in Keywords \ disturbed : Counter(v) = 0 => cs_db'[v] \in {None, 0}
    BY <2>1 DEF UndisturbedInv
  <2>6. QED
    BY <2>1, <2>3, <2>4, <2>5, UndisturbedStays
<1>6. CASE Exit
  <2>1. /\ cs_db' = [w \in Keywords |-> IF uc_mapper[w] = None THEN cs_db[w] ELSE uc_mapper[w]]
        /\ uc_mapper' = cs_db' /\ UNCHANGED <<job, made, disturbed>>
    BY <1>6 DEF Exit, history
  <2>2. \A t \in Threads : job'[t] = None
    BY <1>6, <2>1 DEF Exit, Idle, TurnsInv
  <2>3. ASSUME NEW w \in Keywords \ disturbed
        PROVE  Counter(w)' = Counter(w) /\ (Counter(w) = 0 => cs_db'[w] \in {None, 0})
    <3>1. uc_mapper'[w] = (IF uc_mapper[w] = None THEN cs_db[w] ELSE uc_mapper[w]) /\ cs_db'[w] = uc_mapper'[w]
      BY <2>1
    <3>2. uc_mapper[w] = None => cs_db[w] \in {None, 0}
      BY <2>3 DEF UndisturbedInv, Counter
    <3>3. QED
      BY <3>1, <3>2, NoneAssumption DEF Counter
  <2>4. QED
    BY <2>1, <2>2, <2>3, UndisturbedStays
<1>7. ASSUME NEW db \in [Keywords -> Nat \cup {None}], Lose(db),
             \A w \in Keywords \ disturbed : Counter(w) = 0 => db[w] \in {None, 0}
      PROVE  UndisturbedInv'
  <2>1. /\ cs_db' = db /\ uc_mapper' = db /\ made' = made /\ \A t \in Threads : job'[t] = None
        /\ disturbed' = disturbed \cup {w \in Keywords : uc_mapper[w] \notin {0, None, db[w]}}
    BY <1>7 DEF Lose
  <2>2. ASSUME NEW w \in Keywords \ disturbed'
        PROVE  Counter(w)' = Counter(w) /\ (Counter(w) = 0 => cs_db'[w] \in {None, 0})
    <3>1. w \in Keywords \ disturbed /\ uc_mapper[w] \in {0, None, db[w]}
      BY <2>1
    <3>2. Counter(w) = 0 => db[w] \in {None, 0}
      BY <1>7, <3>1
    <3>3. Counter(w)' = IF db[w] = None THEN 0 ELSE db[w]
      BY <2>1 DEF Counter
    <3>4. Counter(w) = 0 \/ uc_mapper[w] = db[w]
      BY <3>1 DEF Counter
    <3>5. QED
      BY <2>1, <3>2, <3>3, <3>4 DEF Counter
  <2>3. QED
    BY <2>1, <2>2, UndisturbedStays
<1>8. CASE Kill
  BY <1>7, <1>8 DEF Kill, TypeOK, UndisturbedInv
<1>9. CASE KillInDestructor
  <2>1. PICK stored \in SUBSET {w \in Keywords : uc_mapper[w] # None}, gone \in SUBSET Keywords :
          Lose([w \in Keywords |-> IF w \in stored THEN uc_mapper[w]
                                   ELSE IF w \in gone THEN None ELSE cs_db[w]])
    BY <1>9 DEF KillInDestructor
  <2> DEFINE db == [w \in Keywords |-> IF w \in stored THEN uc_mapper[w]
                                       ELSE IF w \in gone THEN None ELSE cs_db[w]]
  <2>2. db \in [Keywords -> Nat \cup {None}]
    BY DEF TypeOK
  <2>3. \A w \in Keywords \ disturbed : Counter(w) = 0 => db[w] \in {None, 0}
    BY DEF UndisturbedInv, Counter
  <2>4. QED
    BY <1>7, <2>1, <2>2, <2>3
<1>10. CASE UNCHANGED <<made, uc_mapper, cs_db, job, disturbed>>
  BY <1>10 DEF UndisturbedInv, Turns, Counter
<1>11. QED
  BY <1>1, <1>2, <1>3, <1>4, <1>5, <1>6, <1>8, <1>9, <1>10 DEF Next, Generate, UpdateReturn, UpdateBreak,
     Open, Finish, Break, Store, StoreNext, Restart, SearchStep, SearchReturn, SearchBreak, Start,
     vars, client, history

----------------------------------------------------------------------------
(* The search under way *)

\* Only deaths and threads that meet disturb a keyword, and it stays disturbed.
LEMMA DisturbedSteps ==
  ASSUME [Next]_vars
  PROVE  disturbed \subseteq disturbed'
BY DEF Next, Generate, Update, UpdateReturn, UpdateBreak, Open, Find, Insert, Write, Finish, Break,
   Store, StoreNext, Restart, SearchBegin, SearchStep, SearchReturn, SearchBreak, Exit, Lose, Kill,
   KillInDestructor, Start, vars, history

\* An entry of an undisturbed keyword stays.
LEMMA EntriesStay ==
  ASSUME TypeInv, StoredInv, UndisturbedInv, [Next]_vars,
         NEW k \in Tokens, ss_db[k] # None, k[1] \notin disturbed'
  PROVE  ss_db'[k] = ss_db[k]
<1> SUFFICES ASSUME ss_db'[k] # ss_db[k] PROVE FALSE
  OBVIOUS
<1>1. PICK u \in Turns : k = made[u] /\ ss_db'[k] = u
  BY DbSteps
<1>2. ss_db[k] \in Turns /\ made[ss_db[k]] = k
  BY DEF StoredInv
<1>3. k[1] \in Keywords \ disturbed
  BY DisturbedSteps DEF Tokens
<1>4. u = ss_db[k]
  BY <1>1, <1>2, <1>3 DEF UndisturbedInv
<1>5. QED
  BY <1>1, <1>4

LEMMA InitQuery == Init => QueryInv
BY DEF Init, QueryInv

LEMMA StepQuery ==
  ASSUME TypeInv, TypeInv', StoredInv, UndisturbedInv, QueryInv, [Next]_vars
  PROVE  QueryInv'
<1> USE DEF TypeInv
<1> SUFFICES ASSUME disturbed' = {}, query' # None, NEW k \in Keywords, query'.w = k
             PROVE  /\ query'.todo \subseteq 1..Counter(k)'
                    /\ query'.found \subseteq Visible(k)'
                    /\ \A r \in query'.base :
                         r \in query'.found \/ \E l \in query'.todo : ss_db'[<<k, l>>] = r
  BY DEF QueryInv, Visible, Counter, TypeOK, Queries
<1>1. disturbed = {}
  BY DisturbedSteps
<1>2. \A e \in Tokens : ss_db[e] # None => ss_db'[e] = ss_db[e]
  BY <1>1, EntriesStay
<1>3. ASSUME NEW w \in Keywords, SearchBegin(w)
      PROVE  /\ query'.todo \subseteq 1..Counter(k)'
             /\ query'.found \subseteq Visible(k)'
             /\ \A r \in query'.base :
                  r \in query'.found \/ \E l \in query'.todo : ss_db'[<<k, l>>] = r
  <2>1. /\ k = w /\ query'.todo = 1..Counter(w) /\ query'.found = {} /\ query'.base = Visible(w)
        /\ uc_mapper' = [uc_mapper EXCEPT ![w] = Counter(w)] /\ ss_db' = ss_db
    BY <1>3 DEF SearchBegin
  <2>2. Counter(k)' = Counter(w)
    <3>1. uc_mapper'[w] = Counter(w)
      BY <2>1 DEF TypeOK
    <3>2. Counter(w) # None
      BY NoneAssumption, CounterType DEF TypeOK, Counter
    <3>3. QED
      BY <2>1, <3>1, <3>2 DEF Counter
  <2>3. QED
    BY <2>1, <2>2 DEF Visible
<1>4. CASE query # None /\ UNCHANGED <<uc_mapper, query>>
  <2>1. query \in Queries /\ query.w = k
    BY <1>4 DEF TypeOK
  <2>2. Counter(k)' = Counter(k)
    BY <1>4 DEF Counter
  <2>3. \A l \in 1..Counter(k) : <<k, l>> \in Tokens
    BY <2>1, VisibleType DEF Tokens
  <2>4. Visible(k) \subseteq Visible(k)'
    BY <1>2, <2>2, <2>3 DEF Visible
  <2>5. \A r \in query.base : r # None
    BY <2>1, NoneAssumption DEF Queries, Updates
  <2>6. query.todo \subseteq 1..Counter(k) /\ query.found \subseteq Visible(k)
        /\ \A r \in query.base : r \in query.found \/ \E l \in query.todo : ss_db[<<k, l>>] = r
    BY <1>1, <1>4, <2>1 DEF QueryInv
  <2>7. \A l \in query.todo, r \in query.base : ss_db[<<k, l>>] = r => ss_db'[<<k, l>>] = r
    BY <1>2, <2>3, <2>5, <2>6
  <2>8. QED
    BY <1>4, <2>2, <2>4, <2>6, <2>7
<1>5. CASE SearchStep
  <2>1. query # None /\ query \in Queries
    BY <1>5 DEF SearchStep, TypeOK
  <2>2. PICK l \in query.todo :
          /\ query.todo = 1..l
          /\ query' = [query EXCEPT !.todo = 1..(l - 1),
                                    !.found = @ \cup ({ss_db[<<query.w, l>>]} \ {None})]
          /\ UNCHANGED <<uc_mapper, ss_db>>
    BY <1>5 DEF SearchStep, client
  <2>3. /\ query.w = k /\ query'.base = query.base /\ query'.todo = 1..(l - 1)
        /\ query'.found = query.found \cup ({ss_db[<<k, l>>]} \ {None})
    BY <2>1, <2>2 DEF Queries
  <2>4. Counter(k)' = Counter(k) /\ Visible(k)' = Visible(k)
    BY <2>2 DEF Counter, Visible
  <2>5. l \in Nat /\ query'.todo \subseteq query.todo /\ query.todo \subseteq query'.todo \cup {l}
    BY <2>1, <2>2, <2>3 DEF Queries, Labels
  <2>6. query.todo \subseteq 1..Counter(k) /\ query.found \subseteq Visible(k)
        /\ \A r \in query.base : r \in query.found \/ \E m \in query.todo : ss_db[<<k, m>>] = r
    BY <1>1, <2>1, <2>3 DEF QueryInv
  <2>7. {ss_db[<<k, l>>]} \ {None} \subseteq Visible(k)
    BY <2>6 DEF Visible
  <2>8. \A r \in query.base : r # None
    BY <2>1, NoneAssumption DEF Queries, Updates
  <2>9. QED
    BY <2>2, <2>3, <2>4, <2>5, <2>6, <2>7, <2>8
<1>6. (\E w \in Keywords : SearchBegin(w)) \/ SearchStep \/ (query # None /\ UNCHANGED <<uc_mapper, query>>)
  <2>1. ~Restart /\ ~SearchReturn /\ ~SearchBreak /\ ~Kill /\ ~KillInDestructor
    BY DEF Restart, SearchReturn, SearchBreak, Kill, KillInDestructor, Lose
  <2>2. ASSUME NEW w \in Keywords, Update(w) PROVE FALSE
    BY <2>2 DEF Update, Idle, search
  <2>3. ASSUME NEW t \in Threads, Insert(t) \/ Write(t) PROVE FALSE
    BY <2>3 DEF Insert, Write, TurnsInv, search
  <2>4. ~Exit
    BY DEF Exit, Idle, search
  <2>5. QED
    BY <2>1, <2>2, <2>3, <2>4 DEF Next, Generate, UpdateReturn, UpdateBreak, Open, Find, Finish, Break,
       Store, StoreNext, Start, vars, client, search
<1>7. QED
  BY <1>3, <1>4, <1>5, <1>6

----------------------------------------------------------------------------
(* Theorems *)

\* The inductive invariant holds in every reachable state.
THEOREM InvHolds == Spec => []IInv
<1>1. Init => IInv
  BY InitTypes, InitStored, InitUndisturbed, InitQuery DEF IInv
<1>2. IInv /\ [Next]_vars => IInv'
  BY StepTypes, StepStored, StepUndisturbed, StepQuery DEF IInv
<1>3. QED
  BY <1>1, <1>2, PTL DEF Spec

\* Types, of the client, the wires, the server and the search; and no counter names
\* a label that was never made, however many threads overwrite each other's.
THEOREM TypeCorrect == Spec => []TypeOK
BY InvHolds, PTL DEF IInv, TypeInv

\* An acknowledged update of an undisturbed keyword is stored and counted.
THEOREM AckedAreStored == Spec => []AckedStored
<1>1. IInv => AckedStored
  <2> SUFFICES ASSUME IInv, NEW u \in acked, made[u][1] \notin disturbed
               PROVE  ss_db[made[u]] = u /\ made[u][2] <= Counter(made[u][1])
    BY DEF AckedStored
  <2> USE DEF IInv, TypeInv
  <2>1. u \in Turns /\ ss_db[made[u]] # None
    BY DEF StoredInv
  <2>2. made[u] \in Tokens /\ made[u][1] \in Keywords \ disturbed
    BY <2>1 DEF TypeOK, Turns, Tokens
  <2>3. ss_db[made[u]] \in Turns /\ made[ss_db[made[u]]] = made[u]
    BY <2>1, <2>2 DEF StoredInv
  <2>4. QED
    BY <2>1, <2>2, <2>3 DEF UndisturbedInv
<1>2. QED
  BY <1>1, InvHolds, PTL

----------------------------------------------------------------------------
(* Refinement *)

\* A search of an undisturbed keyword sees all the server has of it.
LEMMA VisibleIsAll ==
  TypeInv /\ StoredInv /\ UndisturbedInv =>
    \A w \in Keywords :
      w \notin disturbed => Visible(w) = {ss_db[<<w, l>>] : l \in Labels} \ {None}
<1> SUFFICES ASSUME TypeInv, StoredInv, UndisturbedInv, NEW w \in Keywords \ disturbed
             PROVE  Visible(w) = {ss_db[<<w, l>>] : l \in Labels} \ {None}
  OBVIOUS
<1> USE DEF TypeInv
<1>1. 1..Counter(w) \subseteq Labels /\ Counter(w) \in Nat
  <2>1. Len(made) \in Nat
    BY DEF TypeOK
  <2>2. QED
    BY <2>1, VisibleType, CounterType
<1>2. ASSUME NEW l \in Labels, ss_db[<<w, l>>] # None
      PROVE  l \in 1..Counter(w)
  <2>1. <<w, l>> \in Tokens
    BY DEF Tokens
  <2>2. PICK u \in Turns : made[u] = <<w, l>>
    BY <1>2, <2>1 DEF StoredInv
  <2>3. made[u][1] = w /\ made[u][2] = l
    BY <2>2
  <2>4. l <= Counter(w)
    BY <2>3 DEF UndisturbedInv
  <2>5. QED
    BY <1>1, <2>4 DEF Labels
<1>3. QED
  BY <1>1, <1>2 DEF Visible

\* What a step does to it.
LEMMA VisibleSteps ==
  ASSUME IInv, IInv', [Next]_vars, disturbed' = {}
  PROVE  /\ ss_db' = ss_db => \A w \in Keywords : Visible(w)' = Visible(w)
         /\ ss_db' # ss_db =>
              /\ \E w \in Keywords, u \in Updates :
                   \A v \in Keywords : Visible(v)' = Visible(v) \cup (IF v = w THEN {u} ELSE {})
              /\ UNCHANGED <<query, answer>>
<1> USE DEF IInv, TypeInv
<1>1. disturbed = {}
  BY DisturbedSteps
<1>2. \A w \in Keywords : Visible(w) = {ss_db[<<w, l>>] : l \in Labels} \ {None}
  BY <1>1, VisibleIsAll
<1>3. \A w \in Keywords : Visible(w)' = {ss_db'[<<w, l>>] : l \in Labels} \ {None}
  <2>1. (TypeInv /\ StoredInv /\ UndisturbedInv =>
           \A w \in Keywords :
             w \notin disturbed => Visible(w) = {ss_db[<<w, l>>] : l \in Labels} \ {None})'
    BY VisibleIsAll, PTL
  <2>2. QED
    BY <2>1 DEF Labels
<1>4. CASE ss_db' = ss_db
  BY <1>2, <1>3, <1>4
<1>5. CASE ss_db' # ss_db
  <2>1. PICK u \in Turns : ss_db' = [ss_db EXCEPT ![made[u]] = u]
    BY <1>5, DbSteps
  <2>2. UNCHANGED <<query, answer>>
    BY <1>5, DbSteps
  <2>3. made[u] \in Tokens /\ u \in Updates
    BY BoundsAssumption DEF TypeOK, Turns, Updates
  <2>4. PICK w \in Keywords, m \in Labels : made[u] = <<w, m>>
    BY <2>3 DEF Tokens
  <2>5. ss_db[made[u]] = None
    <3>1. ss_db'[made[u]] # ss_db[made[u]]
      BY <1>5, <2>1, <2>3 DEF TypeOK
    <3>2. QED
      BY <1>1, <2>3, <3>1, EntriesStay
  <2>6. \A v \in Keywords, l \in Labels :
          ss_db'[<<v, l>>] = IF v = w /\ l = m THEN u ELSE ss_db[<<v, l>>]
    BY <2>1, <2>4 DEF TypeOK, Tokens
  <2>7. u # None /\ ss_db[<<w, m>>] = None
    BY <2>3, <2>4, <2>5, NoneAssumption DEF Updates
  <2>8. ASSUME NEW v \in Keywords
        PROVE  Visible(v)' = Visible(v) \cup (IF v = w THEN {u} ELSE {})
    <3>1. CASE v = w
      BY <1>2, <1>3, <2>6, <2>7, <3>1
    <3>2. CASE v # w
      BY <1>2, <1>3, <2>6, <3>2
    <3>3. QED
      BY <3>1, <3>2
  <2>9. \A v \in Keywords : Visible(v)' = Visible(v) \cup (IF v = w THEN {u} ELSE {})
    BY <2>8
  <2>10. QED
    BY <1>5, <2>2, <2>3, <2>9
<1>6. QED
  BY <1>4, <1>5

\* A search that ends, wholly or in part, answers from the index.
LEMMA AnswerSteps ==
  ASSUME TypeInv, QueryInv, disturbed = {}, query # None,
         \A w \in Keywords : Visible(w)' = Visible(w),
         NEW inds \in SUBSET query.found, NEW whole \in BOOLEAN,
         whole => query.todo = {} /\ inds = query.found,
         answer' = [w |-> query.w, inds |-> inds, whole |-> whole], query' = None
  PROVE  Index!Answer
<1> DEFINE q == [w |-> query.w, base |-> query.base]
<1>1. query \in Queries /\ q.w \in Keywords /\ q.w = query.w /\ q.base = query.base
  BY DEF TypeInv, TypeOK, Queries
<1>2. q # None
  BY <1>1, NoneAssumption DEF Queries
<1>3. inds \in SUBSET Visible(q.w)
  BY <1>1 DEF QueryInv
<1>4. whole => q.base \subseteq inds
  BY <1>1 DEF QueryInv
<1>5. [w \in Keywords |-> Visible(w)]' = [w \in Keywords |-> Visible(w)]
  OBVIOUS
<1>6. /\ inds \in SUBSET [w \in Keywords |-> Visible(w)][q.w]
      /\ answer' = [w |-> q.w, inds |-> inds, whole |-> whole]
  BY <1>1, <1>3
<1>7. QED
  BY <1>2, <1>4, <1>5, <1>6 DEF Index!Answer

\* The first state is one of the index.
LEMMA IndexInit == Init => Index!Init
BY DEF Init, Index!Init, Visible, Counter

\* A step that is neither a search's nor a death leaves it as it is.
LEMMA QuerySteps ==
  ASSUME [Next]_vars, TypeInv, kills' = kills
  PROVE  \/ UNCHANGED <<query, answer>>
         \/ \E w \in Keywords : SearchBegin(w)
         \/ SearchStep \/ SearchReturn \/ SearchBreak \/ Restart
<1>1. ~Kill /\ ~KillInDestructor
  BY DEF Kill, KillInDestructor, Lose, TypeInv, TypeOK
<1>2. QED
  BY <1>1 DEF Next, Generate, Update, UpdateReturn, UpdateBreak, Open, Find, Insert, Write, Finish,
     Break, Store, StoreNext, Exit, Start, vars, search

\* Every step but a death is one of the index, or none, while no keyword is disturbed.
LEMMA IndexNext ==
  ASSUME IInv, IInv', [Next]_vars, disturbed' = {}, kills' = kills
  PROVE  [Index!Next]_(Index!vars)
<1> USE DEF IInv, TypeInv
<1> DEFINE index == [w \in Keywords |-> Visible(w)]
           asked == IF query = None THEN None ELSE [w |-> query.w, base |-> query.base]
<1>1. disturbed = {}
  BY DisturbedSteps
<1>2. CASE ss_db' # ss_db
  <2>1. PICK w \in Keywords, u \in Updates :
          \A v \in Keywords : Visible(v)' = Visible(v) \cup (IF v = w THEN {u} ELSE {})
    BY <1>2, VisibleSteps
  <2>2. UNCHANGED <<query, answer>>
    BY <1>2, VisibleSteps
  <2>3. index' = [index EXCEPT ![w] = @ \cup {u}]
    BY <2>1
  <2>4. Index!Add(w, u)
    BY <2>2, <2>3 DEF Index!Add
  <2>5. QED
    BY <2>4 DEF Index!Next
<1>3. CASE ss_db' = ss_db
  <2>1. \A w \in Keywords : Visible(w)' = Visible(w)
    BY <1>3, VisibleSteps
  <2>2. index' = index
    BY <2>1
  <2>3. CASE UNCHANGED <<query, answer>>
    BY <2>2, <2>3 DEF Index!vars
  <2>4. ASSUME NEW w \in Keywords, SearchBegin(w)
        PROVE  Index!Next
    <3>1. query = None /\ answer' = None
          /\ query' = [w |-> w, todo |-> 1..Counter(w), found |-> {}, base |-> Visible(w)]
      BY <2>4 DEF SearchBegin, Idle
    <3>2. query' # None /\ query'.w = w /\ query'.base = Visible(w)
      <4>1. query' \in Queries
        BY <3>1, VisibleType DEF Queries
      <4>2. QED
        BY <3>1, <4>1, NoneAssumption
    <3>3. asked = None /\ asked' = [w |-> w, base |-> index[w]]
      BY <3>1, <3>2
    <3>4. Index!Ask(w)
      BY <2>2, <3>1, <3>3 DEF Index!Ask
    <3>5. QED
      BY <3>4 DEF Index!Next
  <2>5. CASE SearchStep
    <3>1. PICK l \in query.todo :
            /\ query \in Queries /\ query # None
            /\ query' = [query EXCEPT !.todo = 1..(l - 1),
                                      !.found = @ \cup ({ss_db[<<query.w, l>>]} \ {None})]
            /\ answer' = answer
      BY <2>5 DEF SearchStep, TypeOK
    <3>2. query'.w = query.w /\ query'.base = query.base
      BY <3>1 DEF Queries
    <3>3. query' # None
      <4>1. <<query.w, l>> \in Tokens /\ 1..(l - 1) \in SUBSET Labels
        BY <3>1, BoundsAssumption DEF Tokens, Queries, Labels
      <4>2. {ss_db[<<query.w, l>>]} \ {None} \subseteq Updates
        BY <4>1 DEF TypeOK
      <4>3. query' \in Queries
        BY <3>1, <4>1, <4>2 DEF Queries
      <4>4. QED
        BY <4>3, NoneAssumption
    <3>4. asked' = asked
      BY <3>1, <3>2, <3>3
    <3>5. QED
      BY <2>2, <3>1, <3>4 DEF Index!vars
  <2>6. CASE SearchReturn
    BY <1>1, <2>1, <2>6, AnswerSteps DEF SearchReturn, Index!Next
  <2>7. CASE SearchBreak
    BY <1>1, <2>1, <2>7, AnswerSteps DEF SearchBreak, Index!Next
  <2>8. CASE Restart
    <3>1. CASE query # None
      <4>1. answer' = [w |-> query.w, inds |-> {}, whole |-> FALSE] /\ query' = None
        BY <2>8, <3>1 DEF Restart
      <4>2. QED
        BY <1>1, <2>1, <3>1, <4>1, AnswerSteps DEF Index!Next
    <3>2. CASE query = None
      BY <2>3, <2>8, <3>2 DEF Restart
    <3>3. QED
      BY <3>1, <3>2
  <2>9. QED
    BY <2>3, <2>4, <2>5, <2>6, <2>7, <2>8, QuerySteps
<1>4. QED
  BY <1>2, <1>3

\* FAST implements the keyword index: while no keyword is disturbed, every step but a
\* death of the client is one of its steps, or none.
THEOREM IndexIsImplemented == Spec => ImplementsIndex
<1>1. IInv /\ IInv' /\ [Next]_vars =>
        ((disturbed' = {} /\ kills' = kills) => [Index!Next]_(Index!vars))
  BY IndexNext
<1>2. QED
  BY <1>1, IndexInit, InvHolds, PTL DEF Spec, ImplementsIndex
=============================================================================
