----------------------- MODULE UpdateCompletion_proofs -----------------------
(***************************************************************************)
(* Theorems about UpdateCompletion, for any workers and bounds.            *)
(***************************************************************************)
EXTENDS UpdateCompletion, FiniteSetTheorems, TLAPS

----------------------------------------------------------------------------
(* Invariants *)

\* The ranges TypeOK gives; the counts need no bound here.
RangesInv ==
  /\ main \in Outside \cup Waiting \cup
              {"async", "parse", "join", "unwind", "finish", "join_loop"}
  /\ stop \in BOOLEAN /\ shutdown \in BOOLEAN
  /\ loop \in {"test", "next", "count", "ended"}
  /\ events \in SUBSET Updates /\ tagged \in SUBSET Updates
  /\ queue \in Seq(Seq(Updates)) /\ worker \in [Workers -> Seq(Updates)]
  /\ session \in {"none", "up", "broken"}
  /\ handed \in SUBSET Updates /\ wire \in Seq(Updates)
  /\ handling \in SUBSET Updates /\ stored \in SUBSET Updates
  /\ loaded \in SUBSET Updates /\ lost \in SUBSET Updates
  /\ called \in SUBSET Updates /\ cancelled \in SUBSET Updates
  /\ made \in 0..MaxUpdates /\ faults \in 0..MaxFaults
  /\ launched \in Nat /\ completed \in Nat

\* The updates launched whose tag neither gRPC nor the queue has: one the loop is
\* about to count, one async_update is about to pass on.
Owed == (IF loop = "count" THEN 1 ELSE 0) + (IF main = "async" THEN 1 ELSE 0)

\* A tag is in one place, and that of the update in async_update is in none.
TagsInv ==
  /\ launched <= made
  /\ launched = completed + Cardinality(tagged \cup events) + Owed
  /\ tagged \cap events = {}
  /\ tagged \cup events \subseteq 1..made
  /\ main = "async" => made \in Updates \ (tagged \cup events)

\* A pool lives no longer than its load, and the destructor joins a loop that has
\* nothing left to count.
ThreadsInv ==
  /\ main \notin {"parse", "join", "unwind"} => Drained
  /\ main \in {"join_loop", "gone"} => tagged = {} /\ events = {} /\ loop # "count"
  /\ main = "gone" => loop = "ended"

Elems(s) == {s[i] : i \in 1..Len(s)}

\* Made for the session, and not yet written or not yet read by the handler.
OnTheWay(u) ==
  \/ \E i \in 1..Len(queue) : u \in Elems(queue[i])
  \/ \E x \in Workers : u \in Elems(worker[x])
  \/ u \in Elems(wire)

\* No update of the session is forgotten, and a stream that is not up carries nothing.
SessionInv ==
  /\ session # "up" => wire = <<>>
  /\ \A u \in handed : OnTheWay(u) \/ u \in stored \cup handling \cup lost
  /\ LoadedStored

\* A call that was not cancelled is with its handler or stored; it is stored once its
\* tag is back, and the tag of the call that async_update is making is not yet out.
CallsInv ==
  \A u \in called \ cancelled :
    /\ u \in handling \cup stored
    /\ u \in stored \cup tagged \/ (main = "async" /\ u = made)

IInv == RangesInv /\ TagsInv /\ ThreadsInv /\ SessionInv /\ CallsInv

----------------------------------------------------------------------------
(* Sequences *)

LEMMA TailElems ==
  ASSUME NEW S, NEW s \in Seq(S), s # <<>>
  PROVE  /\ Head(s) \in S
         /\ Tail(s) \in Seq(S)
         /\ \A e : e \in Elems(s) <=> e = Head(s) \/ e \in Elems(Tail(s))
<1>1. Head(s) = s[1] /\ Len(s) \in Nat \ {0} /\ Len(Tail(s)) = Len(s) - 1
  OBVIOUS
<1>2. \A i \in 1..Len(s) - 1 : Tail(s)[i] = s[i + 1]
  OBVIOUS
<1>3. \A i \in 1..Len(s) : i = 1 \/ (i - 1 \in 1..Len(s) - 1 /\ Tail(s)[i - 1] = s[i])
  BY <1>1, <1>2
<1>4. \A i \in 1..Len(s) - 1 : i + 1 \in 1..Len(s) /\ Tail(s)[i] = s[i + 1]
  BY <1>1, <1>2
<1> QED BY <1>1, <1>3, <1>4 DEF Elems

LEMMA AppendElems ==
  ASSUME NEW S, NEW s \in Seq(S), NEW e \in S
  PROVE  /\ Append(s, e) \in Seq(S)
         /\ \A d : d \in Elems(Append(s, e)) <=> d = e \/ d \in Elems(s)
<1>1. Append(s, e) \in Seq(S) /\ Len(Append(s, e)) = Len(s) + 1 /\ Len(s) \in Nat
  OBVIOUS
<1>2. \A i \in 1..Len(s) + 1 : Append(s, e)[i] = IF i = Len(s) + 1 THEN e ELSE s[i]
  OBVIOUS
<1>3. \A i \in 1..Len(s) + 1 : i = Len(s) + 1 \/ i \in 1..Len(s)
  BY <1>1
<1>4. \A i \in 1..Len(s) : i \in 1..Len(s) + 1 /\ i # Len(s) + 1
  BY <1>1
<1>5. Len(s) + 1 \in 1..Len(s) + 1
  BY <1>1
<1> QED BY <1>1, <1>2, <1>3, <1>4, <1>5 DEF Elems

\* What CutStream takes off the wire is with a handler or lost.
LEMMA Cut ==
  ASSUME RangesInv, NEW n \in Nat, CutStream(n)
  PROVE  /\ wire' = <<>> /\ wire' \in Seq(Updates)
         /\ handling' \in SUBSET Updates /\ lost' \in SUBSET Updates
         /\ handling \subseteq handling' /\ lost \subseteq lost'
         /\ Elems(wire) \subseteq handling' \cup lost'
<1>1. wire \in Seq(Updates) /\ Len(wire) \in Nat /\ \A i \in 1..Len(wire) : wire[i] \in Updates
  BY DEF RangesInv
<1>2. n <= Len(wire)
  BY <1>1 DEF CutStream
<1>3. \A i \in 1..Len(wire) : i \in 1..n \/ i \in (n + 1)..Len(wire)
  BY <1>1
<1>4. (\A i \in 1..n : i \in 1..Len(wire)) /\ (\A i \in (n + 1)..Len(wire) : i \in 1..Len(wire))
  BY <1>1, <1>2
<1> QED BY <1>1, <1>3, <1>4 DEF CutStream, RangesInv, Elems

----------------------------------------------------------------------------
(* The ranges *)

LEMMA InitRanges == Init => RangesInv
<1>1. /\ <<>> \in Seq(Updates) /\ <<>> \in Seq(Seq(Updates))
      /\ 0 \in 0..MaxUpdates /\ 0 \in 0..MaxFaults
  BY BoundsAssumption
<1>2. SUFFICES ASSUME Init
               PROVE  RangesInv
  OBVIOUS
<1>3. queue \in Seq(Seq(Updates)) /\ wire \in Seq(Updates) /\ worker \in [Workers -> Seq(Updates)]
  BY <1>1, <1>2 DEF Init
<1> QED BY <1>1, <1>2, <1>3 DEF Init, RangesInv, Outside, Waiting

\* An update is written, or lost with the broken stream.
LEMMA WriteFacts ==
  ASSUME RangesInv, NEW u \in Updates, Write(u)
  PROVE  /\ wire' \in Seq(Updates) /\ lost' \in SUBSET Updates
         /\ session' = session
         /\ \A v : v \in Elems(wire) => v \in Elems(wire')
         /\ lost \subseteq lost'
         /\ u \in Elems(wire') \/ u \in lost'
         /\ session # "up" => wire' = wire
<1>1. wire \in Seq(Updates) /\ lost \in SUBSET Updates
  BY DEF RangesInv
<1>2. CASE session = "up"
  <2>1. wire' = Append(wire, u) /\ lost' = lost /\ session' = session
    BY <1>2 DEF Write
  <2> QED BY <1>1, <1>2, <2>1, AppendElems
<1>3. CASE session # "up"
  BY <1>1, <1>3 DEF Write
<1> QED BY <1>2, <1>3

LEMMA StepRanges == RangesInv /\ TagsInv /\ [Next]_vars => RangesInv'
<1> SUFFICES ASSUME RangesInv, TagsInv, [Next]_vars
             PROVE  RangesInv'
  OBVIOUS
<1> USE BoundsAssumption
<1> USE DEF RangesInv, counts, cq, pool, stream, history, Outside, Waiting
<1>1. CASE AsyncLaunch
  BY <1>1 DEF AsyncLaunch, Updates
<1>2. CASE UpdateInSession
  <2>1. made' = made + 1 /\ made' \in Updates /\ made' \in 0..MaxUpdates /\ Write(made')
    BY <1>2 DEF UpdateInSession, Updates
  <2>2. PICK u \in Updates : u = made'
    BY <2>1
  <2>3. Write(u)
    BY <2>1, <2>2
  <2>4. wire' \in Seq(Updates) /\ lost' \in SUBSET Updates /\ session' = session
    BY <2>3, WriteFacts
  <2> QED BY <1>2, <2>1, <2>4 DEF UpdateInSession
<1>3. CASE Wait \/ Load \/ Destroy
  BY <1>3 DEF Wait, Load, Destroy
<1>4. ASSUME NEW n \in Updates, AddList(n)
      PROVE  RangesInv'
  <2>1. made + n \in 0..MaxUpdates /\ \A i \in 1..n : made + i \in Updates
    BY <1>4 DEF AddList, Updates
  <2>2. (made + 1)..(made + n) \subseteq Updates
    BY <1>4, <2>1 DEF AddList, Updates
  <2>3. [i \in 1..n |-> made + i] \in Seq(Updates)
    BY <2>1 DEF Updates
  <2>4. queue' \in Seq(Seq(Updates))
    BY <1>4, <2>3 DEF AddList
  <2> QED BY <1>4, <2>1, <2>2, <2>4 DEF AddList
<1>5. CASE AsyncFinish
  <2>1. made \in Updates
    BY <1>5 DEF AsyncFinish, TagsInv
  <2> QED BY <1>5, <2>1 DEF AsyncFinish
<1>6. CASE Waited \/ Parsed \/ ParseFail \/ Joined \/ LoadWaited \/ EndSession \/ Unwound \/ Destroyed
  BY <1>6 DEF Waited, Parsed, ParseFail, Joined, LoadWaited, EndSession, Unwound, Destroyed
<1>7. ASSUME NEW n \in 0..MaxUpdates, LoopJoined(n)
      PROVE  RangesInv'
  <2>1. CutStream(n) /\ n \in Nat
    BY <1>7 DEF LoopJoined
  <2> QED BY <1>7, <2>1, Cut DEF LoopJoined
<1>8. CASE LoopTest \/ LoopShut \/ LoopCount \/ \E u \in Updates : LoopNext(u)
  BY <1>8 DEF LoopTest, LoopShut, LoopCount, LoopNext
<1>9. ASSUME NEW x \in Workers, Take(x)
      PROVE  RangesInv'
  <2>1. Head(queue) \in Seq(Updates) /\ Tail(queue) \in Seq(Seq(Updates))
    BY <1>9, TailElems DEF Take
  <2> QED BY <1>9, <2>1 DEF Take
<1>10. ASSUME NEW x \in Workers, Work(x)
       PROVE  RangesInv'
  <2>1. Head(worker[x]) \in Updates /\ Tail(worker[x]) \in Seq(Updates)
    BY <1>10, TailElems DEF Work
  <2>2. Write(Head(worker[x]))
    BY <1>10 DEF Work
  <2>3. wire' \in Seq(Updates) /\ lost' \in SUBSET Updates /\ session' = session
    BY <2>1, <2>2, WriteFacts
  <2> QED BY <1>10, <2>1, <2>3 DEF Work
<1>11. CASE StoreStream
  <2>1. Head(wire) \in Updates /\ Tail(wire) \in Seq(Updates)
    BY <1>11, TailElems DEF StoreStream
  <2> QED BY <1>11, <2>1 DEF StoreStream
<1>12. ASSUME NEW u \in Updates, StoreCall(u) \/ Reply(u) \/ Cancel(u)
       PROVE  RangesInv'
  BY <1>12 DEF StoreCall, Reply, Cancel
<1>13. ASSUME NEW n \in 0..MaxUpdates, Break(n)
       PROVE  RangesInv'
  <2>1. CutStream(n) /\ n \in Nat
    BY <1>13 DEF Break
  <2> QED BY <1>13, <2>1, Cut DEF Break
<1>14. CASE UNCHANGED vars
  BY <1>14 DEF vars
<1> QED
  BY <1>1, <1>2, <1>3, <1>4, <1>5, <1>6, <1>7, <1>8, <1>9, <1>10, <1>11, <1>12, <1>13, <1>14
  DEF Next, MainStep, LoopStep, PoolStep, Network
----------------------------------------------------------------------------
(* The tags *)

LEMMA InitTags == Init => TagsInv
BY FS_EmptySet DEF Init, TagsInv, Owed, Outside

\* The tags are finitely many.
LEMMA TagsFinite ==
  ASSUME RangesInv
  PROVE  /\ IsFiniteSet(tagged \cup events)
         /\ Cardinality(tagged \cup events) \in Nat
<1>1. IsFiniteSet(Updates)
  BY BoundsAssumption, FS_Interval DEF Updates
<1>2. tagged \cup events \in SUBSET Updates
  BY DEF RangesInv
<1> QED BY <1>1, <1>2, FS_Subset, FS_CardinalityType

\* A step that touches no count and no tag.
LEMMA TagsKept ==
  ASSUME RangesInv, TagsInv,
         UNCHANGED <<launched, completed, tagged, events>>,
         made' \in Nat, made <= made', main' # "async",
         Owed' = Owed
  PROVE  TagsInv'
<1>1. 1..made \subseteq 1..made'
  BY DEF RangesInv
<1>2. tagged' \cup events' = tagged \cup events
  OBVIOUS
<1>3. Cardinality(tagged' \cup events') = Cardinality(tagged \cup events)
  BY <1>2
<1>4. launched' = completed' + Cardinality(tagged' \cup events') + Owed'
  BY <1>3 DEF TagsInv
<1> QED BY <1>1, <1>4 DEF TagsInv, RangesInv

\* When the counts meet no tag is out, and none is being counted or passed on.
LEMMA NoneOut ==
  ASSUME RangesInv, TagsInv, launched = completed
  PROVE  tagged = {} /\ events = {} /\ loop # "count" /\ main # "async"
<1>1. Cardinality(tagged \cup events) = 0 /\ loop # "count" /\ main # "async"
  BY TagsFinite DEF TagsInv, Owed, RangesInv
<1>2. tagged \cup events = {}
  BY <1>1, TagsFinite, FS_EmptySet
<1> QED BY <1>1, <1>2

LEMMA StepTags == RangesInv /\ TagsInv /\ ThreadsInv /\ [Next]_vars => TagsInv'
<1> SUFFICES ASSUME RangesInv, TagsInv, ThreadsInv, [Next]_vars
             PROVE  TagsInv'
  OBVIOUS
<1> USE DEF counts, cq, pool, stream, history
<1> DEFINE Tags == tagged \cup events
<1>0. /\ IsFiniteSet(Tags) /\ Cardinality(Tags) \in Nat
      /\ made \in Nat /\ launched \in Nat /\ completed \in Nat
  BY TagsFinite DEF RangesInv
<1> HIDE DEF Tags
<1>1. CASE AsyncLaunch
  <2>1. Tags' = Tags /\ made' = made + 1 /\ launched' = launched + 1 /\ completed' = completed
    BY <1>1 DEF AsyncLaunch, Tags
  <2>2. Owed' = Owed + 1
    BY <1>1 DEF AsyncLaunch, Owed
  <2>3. made' \in Updates /\ made' \notin Tags
    <3>1. made' \in Updates
      BY <1>0, <1>1, <2>1, BoundsAssumption DEF AsyncLaunch, Updates
    <3>2. Tags \subseteq 1..made /\ made' \notin 1..made
      BY <1>0, <2>1 DEF TagsInv, Tags
    <3> QED BY <3>1, <3>2
  <2>4. Tags \subseteq 1..made'
    BY <1>0, <2>1 DEF TagsInv, Tags
  <2>5. launched' = completed' + Cardinality(Tags') + Owed'
    BY <1>0, <2>1, <2>2 DEF TagsInv, Tags, Owed
  <2>6. launched' <= made'
    BY <1>0, <2>1 DEF TagsInv
  <2>7. tagged' \cap events' = {}
    BY <1>1 DEF AsyncLaunch, TagsInv
  <2> QED BY <2>1, <2>3, <2>4, <2>5, <2>6, <2>7 DEF TagsInv, Tags
<1>2. CASE AsyncFinish
  <2>1. made \in Updates \ Tags
    BY <1>2 DEF AsyncFinish, TagsInv, Tags
  <2>2. tagged' = tagged \cup {made} /\ events' = events /\ Tags' = Tags \cup {made}
    BY <1>2 DEF AsyncFinish, Tags
  <2>3. Cardinality(Tags') = Cardinality(Tags) + 1
    BY <1>0, <2>1, <2>2, FS_AddElement
  <2>4. Owed = Owed' + 1 /\ Owed' \in Nat
    BY <1>2 DEF AsyncFinish, Owed
  <2>5. UNCHANGED <<launched, completed, made>> /\ main' = "idle"
    BY <1>2 DEF AsyncFinish
  <2>6. launched' = completed' + Cardinality(Tags') + Owed'
    BY <1>0, <2>3, <2>4, <2>5 DEF TagsInv, Tags
  <2>7. Tags' \subseteq 1..made' /\ tagged' \cap events' = {}
    BY <1>0, <2>1, <2>2, <2>5 DEF TagsInv, Tags, Updates
  <2> QED BY <2>5, <2>6, <2>7 DEF TagsInv, Tags
<1>3. ASSUME NEW u \in Updates, Reply(u) \/ Cancel(u)
      PROVE  TagsInv'
  <2>1. u \in tagged /\ tagged' = tagged \ {u} /\ events' = events \cup {u}
    BY <1>3 DEF Reply, Cancel
  <2>2. Tags' = Tags
    BY <2>1 DEF Tags
  <2>3. UNCHANGED <<launched, completed, made, main, loop>>
    BY <1>3 DEF Reply, Cancel
  <2>4. Owed' = Owed
    BY <2>3 DEF Owed
  <2>5. launched' = completed' + Cardinality(Tags') + Owed'
    BY <2>2, <2>3, <2>4 DEF TagsInv, Tags
  <2> QED BY <2>1, <2>2, <2>3, <2>5 DEF TagsInv, Tags
<1>4. ASSUME NEW u \in Updates, LoopNext(u)
      PROVE  TagsInv'
  <2>1. u \in events /\ u \notin tagged /\ tagged' = tagged /\ events' = events \ {u}
    BY <1>4 DEF LoopNext, TagsInv
  <2>2. Tags' = Tags \ {u} /\ u \in Tags
    BY <2>1 DEF Tags
  <2>3. Cardinality(Tags') = Cardinality(Tags) - 1
    BY <1>0, <2>2, FS_RemoveElement
  <2>4. Owed' = Owed + 1 /\ Owed \in Nat
    BY <1>4 DEF LoopNext, Owed
  <2>5. UNCHANGED <<launched, completed, made, main>>
    BY <1>4 DEF LoopNext
  <2>6. launched' = completed' + Cardinality(Tags') + Owed'
    BY <1>0, <2>3, <2>4, <2>5 DEF TagsInv, Tags
  <2> QED BY <2>1, <2>2, <2>5, <2>6 DEF TagsInv, Tags
<1>5. CASE LoopCount
  <2>1. completed' = completed + 1 /\ Owed = Owed' + 1 /\ Owed' \in Nat
    BY <1>5 DEF LoopCount, Owed
  <2>2. Tags' = Tags /\ UNCHANGED <<launched, made, main, tagged, events>>
    BY <1>5 DEF LoopCount, Tags
  <2>3. launched' = completed' + Cardinality(Tags') + Owed'
    BY <1>0, <2>1, <2>2 DEF TagsInv, Tags
  <2> QED BY <2>2, <2>3 DEF TagsInv, Tags
<1>6. CASE LoopTest \/ LoopShut
  <2>1. UNCHANGED <<launched, completed, tagged, events, made, main>> /\ Tags' = Tags
    BY <1>6 DEF LoopTest, LoopShut, Tags
  <2>2. Owed' = Owed
    BY <1>6 DEF LoopTest, LoopShut, Owed
  <2>3. launched' = completed' + Cardinality(Tags') + Owed'
    BY <2>1, <2>2 DEF TagsInv, Tags
  <2> QED BY <2>1, <2>3 DEF TagsInv, Tags
<1>7. CASE \/ UpdateInSession \/ Wait \/ Load \/ Destroy \/ \E n \in Updates : AddList(n)
           \/ Waited \/ Parsed \/ ParseFail \/ Joined \/ LoadWaited \/ EndSession
           \/ Unwound \/ Destroyed \/ \E n \in 0..MaxUpdates : LoopJoined(n)
  <2>1. UNCHANGED <<launched, completed, tagged, events, loop>> /\ main # "async" /\ main' # "async"
    BY <1>7 DEF UpdateInSession, Wait, Load, Destroy, AddList, Waited, Parsed, ParseFail, Joined,
                LoadWaited, EndSession, Unwound, Destroyed, LoopJoined
  <2>2. made' \in Nat /\ made <= made'
    <3>1. CASE UpdateInSession
      BY <1>0, <3>1 DEF UpdateInSession
    <3>2. CASE \E n \in Updates : AddList(n)
      BY <1>0, <3>2, BoundsAssumption DEF AddList, Updates
    <3>3. CASE UNCHANGED made
      BY <1>0, <3>3
    <3> QED
      BY <1>7, <3>1, <3>2, <3>3 DEF Wait, Load, Destroy, Waited, Parsed, ParseFail, Joined,
                                    LoadWaited, EndSession, Unwound, Destroyed, LoopJoined
  <2>3. Owed' = Owed
    BY <2>1 DEF Owed
  <2> QED BY <2>1, <2>2, <2>3, TagsKept
<1>8. CASE \/ \E x \in Workers : PoolStep(x)
           \/ StoreStream
           \/ \E u \in Updates : StoreCall(u)
           \/ \E n \in 0..MaxUpdates : Break(n)
           \/ UNCHANGED vars
  <2>1. UNCHANGED <<launched, completed, tagged, events, loop, made, main>>
    BY <1>8 DEF PoolStep, Take, Work, StoreStream, StoreCall, Break, vars
  <2>2. Tags' = Tags /\ Owed' = Owed
    BY <2>1 DEF Tags, Owed
  <2>3. launched' = completed' + Cardinality(Tags') + Owed'
    BY <2>1, <2>2 DEF TagsInv, Tags
  <2> QED BY <2>1, <2>3 DEF TagsInv, Tags
<1> QED
  BY <1>1, <1>2, <1>3, <1>4, <1>5, <1>6, <1>7, <1>8 DEF Next, MainStep, LoopStep, Network

----------------------------------------------------------------------------
(* The threads *)

LEMMA InitThreads == Init => ThreadsInv
BY DEF Init, ThreadsInv, Drained

LEMMA StepThreads == RangesInv /\ TagsInv /\ ThreadsInv /\ [Next]_vars => ThreadsInv'
<1> SUFFICES ASSUME RangesInv, TagsInv, ThreadsInv, [Next]_vars
             PROVE  ThreadsInv'
  OBVIOUS
<1> USE DEF counts, cq, pool, stream, history
<1>1. main' \notin {"parse", "join", "unwind"} => Drained'
  <2>1. CASE \E x \in Workers : PoolStep(x)
    <3>1. main' = main /\ ~Drained
      BY <2>1 DEF PoolStep, Take, Work, Drained
    <3> QED BY <3>1 DEF ThreadsInv
  <2>2. CASE \E n \in Updates : AddList(n)
    BY <2>2 DEF AddList
  <2>3. CASE Joined \/ Unwound
    BY <2>3 DEF Joined, Unwound, Drained
  <2>4. CASE Load
    BY <2>4 DEF Load
  <2>5. CASE \/ AsyncLaunch \/ UpdateInSession \/ Wait \/ Destroy \/ AsyncFinish
             \/ Waited \/ LoadWaited \/ EndSession \/ Destroyed \/ \E n \in 0..MaxUpdates : LoopJoined(n)
             \/ Parsed \/ ParseFail
             \/ LoopStep \/ Network \/ \E u \in Updates : Cancel(u)
             \/ \E n \in 0..MaxUpdates : Break(n)
             \/ UNCHANGED vars
    <3>1. UNCHANGED <<queue, worker>>
      BY <2>5 DEF AsyncLaunch, UpdateInSession, Wait, Destroy, AsyncFinish, Waited, LoadWaited,
                  EndSession, Destroyed, LoopJoined, Parsed, ParseFail, LoopStep, LoopTest, LoopShut,
                  LoopCount, LoopNext, Network, StoreStream, StoreCall, Reply, Cancel, Break, vars
    <3>2. main' \notin {"parse", "join", "unwind"} => main \notin {"parse", "join", "unwind"}
      BY <2>5 DEF AsyncLaunch, UpdateInSession, Wait, Destroy, AsyncFinish, Waited, LoadWaited,
                  EndSession, Destroyed, LoopJoined, Parsed, ParseFail, LoopStep, LoopTest, LoopShut,
                  LoopCount, LoopNext, Network, StoreStream, StoreCall, Reply, Cancel, Break, vars
    <3> QED BY <3>1, <3>2 DEF ThreadsInv, Drained
  <2> QED BY <2>1, <2>2, <2>3, <2>4, <2>5 DEF Next, MainStep
<1>2. main' \in {"join_loop", "gone"} => tagged' = {} /\ events' = {} /\ loop' # "count"
  <2>1. CASE Destroyed
    <3>1. launched = completed /\ UNCHANGED <<loop, tagged, events>>
      BY <2>1 DEF Destroyed
    <3> QED BY <3>1, NoneOut
  <2>2. CASE \E n \in 0..MaxUpdates : LoopJoined(n)
    BY <2>2 DEF LoopJoined, ThreadsInv
  <2>3. CASE \/ AsyncLaunch \/ UpdateInSession \/ Wait \/ Load \/ Destroy
             \/ \E n \in Updates : AddList(n)
             \/ AsyncFinish \/ Waited \/ Parsed \/ ParseFail \/ Joined \/ LoadWaited
             \/ EndSession \/ Unwound
    BY <2>3 DEF AsyncLaunch, UpdateInSession, Wait, Load, Destroy, AddList, AsyncFinish, Waited,
                Parsed, ParseFail, Joined, LoadWaited, EndSession, Unwound
  <2>4. CASE \/ LoopStep \/ Network \/ \E x \in Workers : PoolStep(x)
             \/ \E u \in Updates : Cancel(u)
             \/ \E n \in 0..MaxUpdates : Break(n)
             \/ UNCHANGED vars
    <3>1. SUFFICES ASSUME main \in {"join_loop", "gone"}
                   PROVE  tagged' = {} /\ events' = {} /\ loop' # "count"
      BY <2>4 DEF LoopStep, LoopTest, LoopShut, LoopCount, LoopNext, Network, StoreStream,
                  StoreCall, Reply, PoolStep, Take, Work, Cancel, Break, vars
    <3>2. tagged = {} /\ events = {} /\ loop # "count"
      BY <3>1 DEF ThreadsInv
    <3> QED
      BY <2>4, <3>2 DEF LoopStep, LoopTest, LoopShut, LoopCount, LoopNext, Network, StoreStream,
                        StoreCall, Reply, PoolStep, Take, Work, Cancel, Break, vars
  <2> QED BY <2>1, <2>2, <2>3, <2>4 DEF Next, MainStep
<1>3. main' = "gone" => loop' = "ended"
  <2>1. CASE \E n \in 0..MaxUpdates : LoopJoined(n)
    BY <2>1 DEF LoopJoined
  <2>2. CASE \/ AsyncLaunch \/ UpdateInSession \/ Wait \/ Load \/ Destroy \/ Destroyed
             \/ \E n \in Updates : AddList(n)
             \/ AsyncFinish \/ Waited \/ Parsed \/ ParseFail \/ Joined \/ LoadWaited
             \/ EndSession \/ Unwound
    BY <2>2 DEF AsyncLaunch, UpdateInSession, Wait, Load, Destroy, Destroyed, AddList, AsyncFinish,
                Waited, Parsed, ParseFail, Joined, LoadWaited, EndSession, Unwound
  <2>3. CASE \/ LoopStep \/ Network \/ \E x \in Workers : PoolStep(x)
             \/ \E u \in Updates : Cancel(u)
             \/ \E n \in 0..MaxUpdates : Break(n)
             \/ UNCHANGED vars
    BY <2>3 DEF LoopStep, LoopTest, LoopShut, LoopCount, LoopNext, Network, StoreStream,
                StoreCall, Reply, PoolStep, Take, Work, Cancel, Break, vars, ThreadsInv
  <2> QED BY <2>1, <2>2, <2>3 DEF Next, MainStep
<1> QED BY <1>1, <1>2, <1>3 DEF ThreadsInv
----------------------------------------------------------------------------
(* The session *)

LEMMA InitSession == Init => SessionInv
BY DEF Init, SessionInv, LoadedStored

\* What is on its way stays on its way, or reaches a handler, the index or nobody.
Forwarded ==
  /\ \A u : OnTheWay(u) => OnTheWay(u)' \/ u \in stored' \cup handling' \cup lost'
  /\ stored \cup handling \cup lost \subseteq stored' \cup handling' \cup lost'

LEMMA SessionKept ==
  ASSUME SessionInv, Forwarded,
         session' # "up" => wire' = <<>>,
         handed' \subseteq handed, loaded' = loaded
  PROVE  SessionInv'
BY DEF SessionInv, Forwarded, LoadedStored

\* A step that touches neither the pool nor the wire.
LEMMA SessionUntouched ==
  ASSUME SessionInv,
         UNCHANGED <<pool, wire>>,
         session' # "up" => wire' = <<>>,
         stored \cup handling \cup lost \subseteq stored' \cup handling' \cup lost',
         handed' \subseteq handed, loaded' = loaded
  PROVE  SessionInv'
<1>1. \A u : OnTheWay(u) => OnTheWay(u)'
  BY DEF OnTheWay, pool
<1> QED BY <1>1, SessionKept DEF Forwarded

LEMMA StepSession == RangesInv /\ ThreadsInv /\ SessionInv /\ [Next]_vars => SessionInv'
<1> SUFFICES ASSUME RangesInv, ThreadsInv, SessionInv, [Next]_vars
             PROVE  SessionInv'
  OBVIOUS
<1> USE DEF counts, cq, pool, stream, history
<1>1. CASE UpdateInSession
  <2>1. PICK u \in Updates : u = made'
    BY <1>1, BoundsAssumption DEF UpdateInSession, RangesInv, Updates
  <2>2. Write(u) /\ handed' = handed \cup {u}
    BY <1>1, <2>1 DEF UpdateInSession
  <2>3. UNCHANGED <<queue, worker, stored, handling, loaded>>
    BY <1>1 DEF UpdateInSession
  <2>4. \A v : OnTheWay(v) => OnTheWay(v)'
    BY <2>2, <2>3, WriteFacts DEF OnTheWay
  <2>5. OnTheWay(u)' \/ u \in lost'
    BY <2>2, WriteFacts DEF OnTheWay
  <2>6. lost \subseteq lost' /\ (session' # "up" => wire' = <<>>)
    BY <2>2, WriteFacts DEF SessionInv
  <2> QED BY <2>2, <2>3, <2>4, <2>5, <2>6 DEF SessionInv, LoadedStored
<1>2. ASSUME NEW n \in Updates, AddList(n)
      PROVE  SessionInv'
  <2> DEFINE list == [i \in 1..n |-> made + i]
  <2>1. /\ queue' = Append(queue, list) /\ handed' = handed \cup (made + 1)..(made + n)
        /\ UNCHANGED <<worker, session, wire, handling, stored, loaded, lost>>
    BY <1>2 DEF AddList
  <2>2. n \in Nat /\ made \in Nat /\ made + n <= MaxUpdates
    BY <1>2, BoundsAssumption DEF AddList, RangesInv, Updates
  <2>3. list \in Seq(Updates) /\ Len(list) = n
    BY <2>2, BoundsAssumption DEF Updates
  <2>4. Len(queue) \in Nat /\ Len(queue') = Len(queue) + 1 /\ queue'[Len(queue) + 1] = list
    BY <2>1, <2>3 DEF RangesInv
  <2>5. \A i \in 1..Len(queue) : i \in 1..Len(queue') /\ queue'[i] = queue[i]
    BY <2>1, <2>3, <2>4 DEF RangesInv
  <2>6. \A u : OnTheWay(u) => OnTheWay(u)'
    BY <2>1, <2>5 DEF OnTheWay
  <2>7. ASSUME NEW u \in (made + 1)..(made + n)
        PROVE  OnTheWay(u)'
    <3>1. u - made \in 1..n /\ list[u - made] = u
      BY <2>2
    <3>2. u \in Elems(list)
      BY <2>3, <3>1 DEF Elems
    <3>3. Len(queue) + 1 \in 1..Len(queue')
      BY <2>4
    <3> QED BY <2>4, <3>2, <3>3 DEF OnTheWay
  <2> QED BY <2>1, <2>6, <2>7 DEF SessionInv, LoadedStored
<1>3. ASSUME NEW x \in Workers, Take(x)
      PROVE  SessionInv'
  <2>1. /\ worker' = [worker EXCEPT ![x] = Head(queue)] /\ queue' = Tail(queue)
        /\ worker[x] = <<>> /\ queue # <<>>
        /\ UNCHANGED <<session, wire, handed, stored, handling, lost, loaded>>
    BY <1>3 DEF Take
  <2>2. \A e : e \in Elems(queue) => e = Head(queue) \/ e \in Elems(Tail(queue))
    BY <2>1, TailElems DEF RangesInv
  <2>3. worker \in [Workers -> Seq(Updates)]
    BY DEF RangesInv
  <2>4. ASSUME NEW u, OnTheWay(u)
        PROVE  OnTheWay(u)'
    <3>1. CASE \E i \in 1..Len(queue) : u \in Elems(queue[i])
      <4>1. PICK q \in Elems(queue) : u \in Elems(q)
        BY <3>1 DEF Elems
      <4>2. CASE q = Head(queue)
        BY <2>1, <2>3, <4>1, <4>2 DEF OnTheWay
      <4>3. CASE q \in Elems(Tail(queue))
        <5>1. PICK i \in 1..Len(queue') : queue'[i] = q
          BY <2>1, <4>3 DEF Elems
        <5> QED BY <4>1, <5>1 DEF OnTheWay
      <4> QED BY <2>2, <4>1, <4>2, <4>3
    <3>2. CASE \E y \in Workers : u \in Elems(worker[y])
      <4>1. PICK y \in Workers : u \in Elems(worker[y])
        BY <3>2
      <4>2. y # x
        BY <2>1, <4>1 DEF Elems
      <4> QED BY <2>1, <2>3, <4>1, <4>2 DEF OnTheWay
    <3>3. CASE u \in Elems(wire)
      BY <2>1, <3>3 DEF OnTheWay
    <3> QED BY <2>4, <3>1, <3>2, <3>3 DEF OnTheWay
  <2> QED BY <2>1, <2>4, SessionKept DEF Forwarded, SessionInv
<1>4. ASSUME NEW x \in Workers, Work(x)
      PROVE  SessionInv'
  <2>1. /\ worker' = [worker EXCEPT ![x] = Tail(@)] /\ Write(Head(worker[x]))
        /\ worker[x] # <<>>
        /\ UNCHANGED <<queue, handed, handling, stored, loaded>>
    BY <1>4 DEF Work
  <2>2. PICK h \in Updates : h = Head(worker[x])
    BY <2>1, TailElems DEF RangesInv
  <2>3. Write(h)
    BY <2>1, <2>2
  <2>4. worker \in [Workers -> Seq(Updates)]
    BY DEF RangesInv
  <2>5. worker[x] \in Seq(Updates)
    BY <2>4
  <2>6. \A e : e \in Elems(worker[x]) => e = h \/ e \in Elems(worker'[x])
    BY <2>1, <2>2, <2>4, <2>5, TailElems
  <2>7. \A y \in Workers \ {x} : worker'[y] = worker[y]
    BY <2>1, <2>4
  <2>8. ASSUME NEW u, OnTheWay(u)
        PROVE  OnTheWay(u)' \/ u \in lost'
    <3>1. CASE \E i \in 1..Len(queue) : u \in Elems(queue[i])
      BY <2>1, <3>1 DEF OnTheWay
    <3>2. CASE \E y \in Workers : u \in Elems(worker[y])
      BY <2>3, <2>6, <2>7, <3>2, WriteFacts DEF OnTheWay
    <3>3. CASE u \in Elems(wire)
      BY <2>3, <3>3, WriteFacts DEF OnTheWay
    <3> QED BY <2>8, <3>1, <3>2, <3>3 DEF OnTheWay
  <2>9. lost \subseteq lost' /\ (session' # "up" => wire' = <<>>)
    BY <2>3, WriteFacts DEF SessionInv
  <2> QED BY <2>1, <2>8, <2>9, SessionKept DEF Forwarded
<1>5. CASE EndSession
  <2>1. /\ session = "up" => wire = <<>>
        /\ session' = "none" /\ handed' = {} /\ loaded' = loaded \cup handed /\ main = "finish"
        /\ UNCHANGED <<queue, worker, wire, handling, stored, lost>>
    BY <1>5 DEF EndSession
  <2>2. wire = <<>> /\ Drained
    BY <2>1 DEF SessionInv, ThreadsInv
  <2>3. \A u : ~OnTheWay(u)
    BY <2>2 DEF OnTheWay, Drained, Elems
  <2> QED BY <2>1, <2>2, <2>3 DEF SessionInv, LoadedStored
<1>6. ASSUME NEW n \in 0..MaxUpdates, LoopJoined(n) \/ Break(n)
      PROVE  SessionInv'
  <2>1. CutStream(n) /\ n \in Nat
    BY <1>6 DEF LoopJoined, Break
  <2>2. UNCHANGED <<queue, worker, stored, loaded>> /\ handed' \subseteq handed
    BY <1>6 DEF LoopJoined, Break
  <2>3. /\ wire' = <<>> /\ handling \subseteq handling' /\ lost \subseteq lost'
        /\ Elems(wire) \subseteq handling' \cup lost'
    BY <2>1, Cut
  <2>4. Forwarded
    BY <2>2, <2>3 DEF Forwarded, OnTheWay
  <2> QED BY <2>2, <2>3, <2>4, SessionKept
<1>7. CASE StoreStream
  <2>1. /\ wire' = Tail(wire) /\ stored' = stored \cup {Head(wire)} /\ wire # <<>>
        /\ UNCHANGED <<queue, worker, session, handed, handling, lost, loaded>>
    BY <1>7 DEF StoreStream
  <2>2. \A e : e \in Elems(wire) => e = Head(wire) \/ e \in Elems(wire')
    BY <2>1, TailElems DEF RangesInv
  <2>3. Forwarded
    BY <2>1, <2>2 DEF Forwarded, OnTheWay
  <2> QED BY <2>1, <2>3, SessionKept DEF SessionInv
<1>8. CASE \/ AsyncLaunch \/ Wait \/ Load \/ Destroy \/ AsyncFinish
           \/ Waited \/ Parsed \/ ParseFail \/ Joined \/ LoadWaited \/ Unwound \/ Destroyed
           \/ LoopStep \/ UNCHANGED vars
           \/ \E u \in Updates : StoreCall(u) \/ Reply(u) \/ Cancel(u)
  <2>1. UNCHANGED <<pool, wire, handed, loaded>>
    BY <1>8 DEF AsyncLaunch, Wait, Load, Destroy, AsyncFinish, Waited, Parsed, ParseFail, Joined,
                LoadWaited, Unwound, Destroyed, LoopStep, LoopTest, LoopShut, LoopCount, LoopNext,
                vars, StoreCall, Reply, Cancel
  <2>2. session' = session \/ session' = "up"
    BY <1>8 DEF AsyncLaunch, Wait, Load, Destroy, AsyncFinish, Waited, Parsed, ParseFail, Joined,
                LoadWaited, Unwound, Destroyed, LoopStep, LoopTest, LoopShut, LoopCount, LoopNext,
                vars, StoreCall, Reply, Cancel
  <2>3. stored \cup handling \cup lost \subseteq stored' \cup handling' \cup lost'
    BY <1>8 DEF AsyncLaunch, Wait, Load, Destroy, AsyncFinish, Waited, Parsed, ParseFail, Joined,
                LoadWaited, Unwound, Destroyed, LoopStep, LoopTest, LoopShut, LoopCount, LoopNext,
                vars, StoreCall, Reply, Cancel
  <2> QED BY <2>1, <2>2, <2>3, SessionUntouched DEF SessionInv
<1> QED
  BY <1>1, <1>2, <1>3, <1>4, <1>5, <1>6, <1>7, <1>8 DEF Next, MainStep, PoolStep, Network

----------------------------------------------------------------------------
(* The calls *)

LEMMA InitCalls == Init => CallsInv
BY DEF Init, CallsInv

LEMMA StepCalls == RangesInv /\ TagsInv /\ CallsInv /\ [Next]_vars => CallsInv'
<1> SUFFICES ASSUME RangesInv, TagsInv, CallsInv, [Next]_vars
             PROVE  CallsInv'
  OBVIOUS
<1> USE DEF counts, cq, pool, stream, history
<1>1. CASE AsyncLaunch
  BY <1>1 DEF AsyncLaunch, CallsInv
<1>2. CASE AsyncFinish
  BY <1>2 DEF AsyncFinish, CallsInv
<1>3. ASSUME NEW u \in Updates, Reply(u) \/ Cancel(u)
      PROVE  CallsInv'
  <2>1. CASE Reply(u)
    BY <2>1 DEF Reply, CallsInv
  <2>2. CASE Cancel(u)
    BY <2>2 DEF Cancel, CallsInv
  <2> QED BY <1>3, <2>1, <2>2
<1>4. CASE StoreStream \/ \E u \in Updates : StoreCall(u)
  BY <1>4 DEF StoreStream, StoreCall, CallsInv
<1>5. CASE (\E n \in 0..MaxUpdates : LoopJoined(n) \/ Break(n))
  <2>1. UNCHANGED <<called, cancelled, stored, tagged, made>> /\ handling \subseteq handling'
    BY <1>5 DEF LoopJoined, Break, CutStream
  <2>2. main = "async" => main' = "async"
    BY <1>5 DEF LoopJoined, Break
  <2> QED BY <2>1, <2>2 DEF CallsInv
<1>6. CASE \/ LoopStep \/ UNCHANGED vars \/ \E x \in Workers : PoolStep(x)
  BY <1>6 DEF LoopStep, LoopTest, LoopShut, LoopCount, LoopNext, PoolStep, Take, Work, vars, CallsInv
<1>7. CASE \/ UpdateInSession \/ Wait \/ Load \/ Destroy \/ \E n \in Updates : AddList(n)
           \/ Waited \/ Parsed \/ ParseFail \/ Joined \/ LoadWaited \/ EndSession
           \/ Unwound \/ Destroyed
  <2>1. UNCHANGED <<called, cancelled, handling, stored, tagged>> /\ main # "async"
    BY <1>7 DEF UpdateInSession, Wait, Load, Destroy, AddList, Waited, Parsed, ParseFail, Joined,
                LoadWaited, EndSession, Unwound, Destroyed
  <2> QED BY <2>1 DEF CallsInv
<1> QED BY <1>1, <1>2, <1>3, <1>4, <1>5, <1>6, <1>7 DEF Next, MainStep, Network

----------------------------------------------------------------------------
(* Theorems *)

\* The inductive invariant.
THEOREM InvHolds == Spec => []IInv
<1>1. Init => IInv
  BY InitRanges, InitTags, InitThreads, InitSession, InitCalls DEF IInv
<1>2. IInv /\ [Next]_vars => IInv'
  BY StepRanges, StepTags, StepThreads, StepSession, StepCalls DEF IInv
<1> QED BY <1>1, <1>2, PTL DEF Spec

\* Every variable keeps its range, and every update launched is counted, or its tag
\* is in one of the places it can be (async_update, update_completion_loop).
THEOREM TypeCorrect == Spec => []TypeOK
<1>1. IInv => TypeOK
  <2>1. SUFFICES ASSUME IInv
                 PROVE  TypeOK
    OBVIOUS
  <2>2. launched \in 0..MaxUpdates
    BY <2>1, BoundsAssumption DEF IInv, RangesInv, TagsInv
  <2>3. Cardinality(tagged \cup events) \in Nat /\ completed \in Nat
    BY <2>1, TagsFinite DEF IInv, RangesInv
  <2>4. launched = completed + Cardinality(tagged \cup events)
                   + (IF loop = "count" THEN 1 ELSE 0) + (IF main = "async" THEN 1 ELSE 0)
    BY <2>1, <2>3 DEF IInv, TagsInv, Owed
  <2> QED BY <2>1, <2>2, <2>4 DEF IInv, RangesInv, TypeOK
<1> QED BY <1>1, InvHolds, PTL

\* wait_updates_completion, alone, in a load or in the destructor, returns only when the
\* server has stored every update that async_update launched and gRPC did not cancel.
THEOREM WaitsAreForAll == Spec => WaitedStored
<1>1. IInv /\ [Next]_vars =>
        [(main \in Waiting /\ main' \notin Waiting) => (called \subseteq stored \cup cancelled)]_vars
  <2>1. SUFFICES ASSUME IInv, Next, main \in Waiting, main' \notin Waiting
                 PROVE  called \subseteq stored \cup cancelled
    OBVIOUS
  <2>2. launched = completed
    BY <2>1 DEF Next, AsyncLaunch, UpdateInSession, Wait, Load, Destroy, AddList, MainStep, AsyncFinish,
                Waited, Parsed, ParseFail, Joined, LoadWaited, EndSession, Unwound, Destroyed, LoopJoined,
                LoopStep, LoopTest, LoopShut, LoopCount, LoopNext, PoolStep, Take, Work, Network,
                StoreStream, StoreCall, Reply, Cancel, Break, Waiting
  <2>3. tagged = {} /\ main # "async"
    BY <2>1, <2>2, NoneOut DEF IInv
  <2> QED BY <2>1, <2>3 DEF IInv, CallsInv
<1> QED BY <1>1, InvHolds, PTL DEF Spec, WaitedStored

\* When load_inverted_index returns true, the updates of its session are stored,
\* however the workers and the handler ran; a broken stream's are excepted.
THEOREM LoadsAreStored == Spec => []LoadedStored
<1>1. IInv => LoadedStored
  BY DEF IInv, SessionInv
<1> QED BY <1>1, InvHolds, PTL

\* No worker outlives load_inverted_index, and neither the loop nor a tag ~SophosClientRunner.
THEOREM NothingIsLeft == Spec => []NothingOutlives
<1>1. IInv => NothingOutlives
  BY DEF IInv, ThreadsInv, NothingOutlives, Outside
<1> QED BY <1>1, InvHolds, PTL
==============================================================================
