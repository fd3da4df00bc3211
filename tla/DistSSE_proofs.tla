--------------------------- MODULE DistSSE_proofs ---------------------------
(***************************************************************************)
(* Theorems about DistSSE, for every value of its constants.               *)
(***************************************************************************)
EXTENDS DistSSE, TLAPS

----------------------------------------------------------------------------
(* Types *)

\* What the guards need to know about the operation under way.
UnderWay ==
  /\ pc = "batch" => batch \in Batches /\ uc_mapper[batch.w] + batch.left <= MaxCount
  /\ InCall => ncalls \in Calls
  /\ pc = "search" => query \in Queries

TypeInv == TypeOK /\ UnderWay

\* Unmasking an entry yields a result.
LEMMA ShownType ==
  ASSUME NEW l \in Labels, NEW e \in Entries
  PROVE  Shown(l, e) \in Results
BY IndsAssumption DEF Shown, Results, Entries

\* So does listing stored entries.
LEMMA ListedType ==
  ASSUME TypeOK, NEW w \in Keywords, NEW low \in Nat \ {0}, NEW high \in Counts
  PROVE  Listed(w, low, high) \in SUBSET Results
<1>1. SUFFICES ASSUME NEW i \in low..high, ss_db[<<w, i>>] # None
               PROVE  Shown(<<w, i>>, ss_db[<<w, i>>]) \in Results
  BY DEF Listed
<1>2. <<w, i>> \in Labels
  BY BoundsAssumption DEF Labels, Counts
<1>3. ss_db[<<w, i>>] \in Entries
  BY <1>1, <1>2 DEF TypeOK
<1>4. QED
  BY <1>2, <1>3, ShownType

\* What a search for w sees are results.
LEMMA VisibleType ==
  ASSUME TypeOK, NEW w \in Keywords
  PROVE  Visible(w) \in SUBSET Results
BY ListedType DEF Visible, TypeOK

\* XOR keeps a proof a proof.
LEMMA XorType ==
  ASSUME NEW proof \in Proofs, NEW ind \in Inds
  PROVE  Xor(proof, ind) \in Proofs
BY DEF Xor, Proofs, EmptyProof

LEMMA InitTypes == Init => TypeInv
<1>1. SUFFICES ASSUME Init PROVE TypeInv
  OBVIOUS
<1>2. 0 \in Counts /\ ZeroProof \in Proofs /\ 0 \in 0..MaxCalls
  BY BoundsAssumption DEF Counts, Proofs, ZeroProof
<1>3. wire \in [Calls -> Seq(Requests)]
  BY <1>1 DEF Init
<1>4. TypeOK
  BY <1>1, <1>2, <1>3 DEF Init, TypeOK
<1>5. QED
  BY <1>1, <1>4 DEF Init, TypeInv, UnderWay, InCall

\* Making an entry of w for call c keeps the types.
LEMMA GenUpdateTypes ==
  ASSUME TypeOK, NEW w \in Keywords, NEW ind \in Inds, NEW mask \in {"H1", "H2"},
         NEW c \in Calls, uc_mapper[w] < MaxCount, GenUpdate(w, ind, mask, c)
  PROVE  /\ uc_mapper' \in [Keywords -> Counts]
         /\ sc_mapper' \in [Keywords -> Proofs]
         /\ wire' \in [Calls -> Seq(Requests)]
         /\ issued' \in [Labels -> [e : Entries, call : Calls] \cup {None}]
<1> DEFINE l == <<w, uc_mapper[w] + 1>>
           e == [ind |-> ind, mask |-> mask]
           r == [l |-> l, e |-> e]
<1>1. uc_mapper[w] + 1 \in Counts /\ l \in Labels
  BY BoundsAssumption DEF TypeOK, Counts, Labels
<1>2. e \in Entries /\ r \in Requests
  BY <1>1 DEF Entries, Requests
<1>3. uc_mapper' \in [Keywords -> Counts]
  BY <1>1 DEF GenUpdate, TypeOK
<1>4. sc_mapper' \in [Keywords -> Proofs]
  BY XorType DEF GenUpdate, TypeOK
<1>5. wire' \in [Calls -> Seq(Requests)]
  <2>1. Append(wire[c], r) \in Seq(Requests)
    BY <1>2 DEF TypeOK
  <2>2. wire' = IF c \in broken THEN wire ELSE [wire EXCEPT ![c] = Append(@, r)]
    BY DEF GenUpdate
  <2>3. QED
    BY <2>1, <2>2 DEF TypeOK
<1>6. issued' \in [Labels -> [e : Entries, call : Calls] \cup {None}]
  BY <1>1, <1>2 DEF GenUpdate, TypeOK
<1>7. QED
  BY <1>3, <1>4, <1>5, <1>6

\* A prefix of what is on a wire is a sequence of requests.
LEMMA SeverTypes ==
  ASSUME TypeOK, NEW c \in Calls, NEW n \in Nat, n <= Len(wire[c]), Sever(c, n)
  PROVE  /\ broken' \in SUBSET Calls
         /\ wire' \in [Calls -> Seq(Requests)]
<1>1. wire[c] \in Seq(Requests)
  BY DEF TypeOK
<1>2. SubSeq(wire[c], 1, n) \in Seq(Requests)
  BY <1>1
<1>3. QED
  BY <1>2 DEF Sever, TypeOK

LEMMA StepTypes == TypeInv /\ [Next]_vars => TypeInv'
<1> SUFFICES ASSUME TypeInv, [Next]_vars PROVE TypeInv'
  OBVIOUS
<1> USE DEF TypeInv
<1>1. ASSUME NEW w \in Keywords, NEW ind \in Inds, Update(w, ind)
      PROVE  TypeInv'
  <2>1. ncalls + 1 \in Calls
    BY <1>1, BoundsAssumption DEF Update, TypeOK, Calls
  <2>2. GenUpdate(w, ind, "H2", ncalls + 1) /\ uc_mapper[w] < MaxCount
    BY <1>1 DEF Update
  <2>3. TypeOK'
    BY <1>1, <2>1, <2>2, GenUpdateTypes, BoundsAssumption
       DEF Update, TypeOK, diskVars, envVars, Calls
  <2>4. UnderWay'
    BY <1>1, <2>1 DEF Update, UnderWay, InCall
  <2>5. QED
    BY <2>3, <2>4
<1>2. ASSUME NEW w \in Keywords, NEW n \in 1..MaxBatch, BatchOpen(w, n)
      PROVE  TypeInv'
  <2>1. ncalls + 1 \in Calls
    BY <1>2, BoundsAssumption DEF BatchOpen, TypeOK, Calls
  <2>2. batch' \in Batches /\ batch' = [w |-> w, left |-> n]
    BY <1>2, BoundsAssumption DEF BatchOpen, Batches
  <2>3. TypeOK'
    BY <1>2, <2>1, <2>2, BoundsAssumption DEF BatchOpen, TypeOK, diskVars, envVars, Calls
  <2>4. UnderWay'
    BY <1>2, <2>1, <2>2 DEF BatchOpen, UnderWay, InCall
  <2>5. QED
    BY <2>3, <2>4
<1>3. ASSUME NEW ind \in Inds, BatchWrite(ind)
      PROVE  TypeInv'
  <2> DEFINE w == batch.w
  <2>1. w \in Keywords /\ batch.left \in 1..MaxBatch /\ ncalls \in Calls
    BY <1>3, BoundsAssumption DEF BatchWrite, UnderWay, Batches, InCall
  <2>2. uc_mapper[w] \in Counts /\ uc_mapper[w] < MaxCount
    BY <1>3, <2>1, BoundsAssumption DEF BatchWrite, UnderWay, TypeOK, Counts
  <2>3. GenUpdate(w, ind, "H1", ncalls)
    BY <1>3 DEF BatchWrite
  <2>4. /\ uc_mapper' \in [Keywords -> Counts]
        /\ sc_mapper' \in [Keywords -> Proofs]
        /\ wire' \in [Calls -> Seq(Requests)]
        /\ issued' \in [Labels -> [e : Entries, call : Calls] \cup {None}]
    BY <2>1, <2>2, <2>3, GenUpdateTypes
  <2>5. batch' \in Batches /\ batch'.w = w /\ batch'.left = batch.left - 1
    BY <1>3, <2>1, BoundsAssumption DEF BatchWrite, UnderWay, Batches
  <2>6. TypeOK'
    BY <1>3, <2>4, <2>5 DEF BatchWrite, TypeOK, searchVars, diskVars, envVars
  <2>7. uc_mapper'[w] = uc_mapper[w] + 1
    BY <2>1, <2>3 DEF GenUpdate, TypeOK
  <2>8. UnderWay'
    BY <1>3, <2>1, <2>2, <2>5, <2>7, BoundsAssumption
       DEF BatchWrite, UnderWay, InCall, Counts
  <2>9. QED
    BY <2>6, <2>8
<1>4. CASE BatchClose
  BY <1>4 DEF BatchClose, TypeOK, UnderWay, InCall, callVars, searchVars, diskVars, envVars
<1>5. CASE CallOk
  BY <1>5 DEF CallOk, TypeOK, UnderWay, InCall, searchVars, diskVars, envVars
<1>6. CASE CallFail
  BY <1>6 DEF CallFail, TypeOK, UnderWay, InCall, callVars, searchVars, diskVars, envVars
<1>7. ASSUME NEW c \in Calls, ServerStore(c)
      PROVE  TypeInv'
  <2>1. wire[c] \in Seq(Requests) /\ wire[c] # <<>>
    BY <1>7 DEF ServerStore, TypeOK
  <2>2. Head(wire[c]) \in Requests /\ Tail(wire[c]) \in Seq(Requests)
    BY <2>1
  <2>3. ss_db' \in [Labels -> Entries \cup {None}]
    BY <1>7, <2>2 DEF ServerStore, TypeOK, Requests
  <2>4. wire' \in [Calls -> Seq(Requests)]
    BY <1>7, <2>2 DEF ServerStore, TypeOK
  <2>5. QED
    BY <1>7, <2>3, <2>4
       DEF ServerStore, TypeOK, UnderWay, InCall, clientVars, searchVars, diskVars, envVars
<1>8. ASSUME NEW w \in Keywords, SearchBegin(w)
      PROVE  TypeInv'
  <2>1. query' \in Queries
    BY <1>8, VisibleType DEF SearchBegin, TypeOK, Queries
  <2>2. QED
    BY <1>8, <2>1 DEF SearchBegin, TypeOK, UnderWay, InCall, callVars, diskVars, envVars
<1>9. CASE SearchStep
  <2>1. query \in Queries /\ query.i \in 1..MaxCount /\ query.w \in Keywords
    BY <1>9 DEF SearchStep, UnderWay, Queries, Counts
  <2>2. Listed(query.w, query.i, query.i) \in SUBSET Results
    BY <2>1, ListedType DEF Counts
  <2>3. /\ query.i - 1 \in Counts
        /\ query.found \cup Listed(query.w, query.i, query.i) \in SUBSET Results
    BY <2>1, <2>2, BoundsAssumption DEF Queries, Counts
  <2>4. query' = [query EXCEPT !.i = query.i - 1,
                    !.found = query.found \cup Listed(query.w, query.i, query.i)]
    BY <1>9 DEF SearchStep
  <2>5. query' \in Queries
    BY <2>1, <2>3, <2>4 DEF Queries
  <2>6. QED
    BY <1>9, <2>5 DEF SearchStep, TypeOK, UnderWay, InCall, clientVars, callVars, diskVars, envVars
<1>10. CASE SearchReturn
  <2>1. answer' \in Answers
    BY <1>10 DEF SearchReturn, UnderWay, Queries, Answers
  <2>2. QED
    BY <1>10, <2>1 DEF SearchReturn, TypeOK, UnderWay, InCall, callVars, diskVars, envVars
<1>11. CASE SearchBreak
  <2>1. PICK inds \in SUBSET (IF query.i = 0 THEN query.found ELSE {}) :
          answer' = [w |-> query.w, inds |-> inds, base |-> query.base, whole |-> FALSE]
    BY <1>11 DEF SearchBreak
  <2>2. answer' \in Answers
    BY <1>11, <2>1 DEF SearchBreak, UnderWay, Queries, Answers
  <2>3. QED
    BY <1>11, <2>2 DEF SearchBreak, TypeOK, UnderWay, InCall, callVars, diskVars
<1>12. CASE ExitBegin
  BY <1>12 DEF ExitBegin, TypeOK, UnderWay, InCall, callVars, envVars
<1>13. ASSUME NEW k \in Keys, StoreDelete(k)
       PROVE  TypeInv'
  <2>1. 0 \in Counts /\ ZeroProof \in Proofs
    BY BoundsAssumption DEF Counts, ZeroProof, Proofs
  <2>2. cs_uc' \in [Keywords -> Counts] /\ cs_sc' \in [Keywords -> Proofs]
    BY <1>13, <2>1 DEF StoreDelete, TypeOK, Keys
  <2>3. QED
    BY <1>13, <2>2
       DEF StoreDelete, TypeOK, UnderWay, InCall, clientVars, callVars, searchVars, envVars
<1>14. CASE StorePut
  <2>1. hole \in Keys
    BY <1>14 DEF StorePut, TypeOK
  <2>2. cs_uc' \in [Keywords -> Counts] /\ cs_sc' \in [Keywords -> Proofs]
    BY <1>14, <2>1 DEF StorePut, TypeOK, Keys
  <2>3. QED
    BY <1>14, <2>2
       DEF StorePut, TypeOK, UnderWay, InCall, clientVars, callVars, searchVars, envVars
<1>15. CASE ExitEnd
  BY <1>15 DEF ExitEnd, TypeOK, UnderWay, InCall, callVars, searchVars, envVars
<1>16. ASSUME NEW n \in 0..MaxBatch, CallBreak(n)
       PROVE  TypeInv'
  <2>1. ncalls \in Calls /\ n \in Nat /\ n <= Len(wire[ncalls]) /\ Sever(ncalls, n)
    BY <1>16, BoundsAssumption DEF CallBreak, UnderWay
  <2>2. QED
    BY <1>16, <2>1, SeverTypes
       DEF CallBreak, TypeOK, UnderWay, InCall, clientVars, searchVars, diskVars
<1>17. ASSUME NEW n \in 0..MaxBatch, Kill(n)
       PROVE  TypeInv'
  <2>1. broken' \in SUBSET Calls /\ wire' \in [Calls -> Seq(Requests)]
    <3>1. CASE InCall /\ ncalls \notin broken
      <4>1. ncalls \in Calls /\ n \in Nat /\ n <= Len(wire[ncalls]) /\ Sever(ncalls, n)
        BY <1>17, <3>1, BoundsAssumption DEF Kill, UnderWay
      <4>2. QED
        BY <4>1, SeverTypes
    <3>2. CASE ~(InCall /\ ncalls \notin broken)
      BY <1>17, <3>2 DEF Kill, TypeOK
    <3>3. QED
      BY <3>1, <3>2
  <2>2. QED
    BY <1>17, <2>1 DEF Kill, TypeOK, UnderWay, InCall
<1>18. CASE Start
  <2>1. rolledBack' = (rolledBack \/ cs_uc # uc_mapper \/ cs_sc # sc_mapper)
    BY <1>18 DEF Start
  <2>2. rolledBack' \in BOOLEAN
    BY <2>1, Zenon
  <2>3. /\ pc' = "idle" /\ uc_mapper' = cs_uc /\ sc_mapper' = cs_sc /\ clean' = FALSE
        /\ starts' = starts + 1
        /\ UNCHANGED <<batch, callVars, searchVars, cs_uc, cs_sc, todo, hole, ss_db, kills,
                       faults>>
    BY <1>18, Zenon DEF Start
  <2>4. starts' \in Nat
    BY <2>3 DEF TypeOK
  <2>5. TypeOK'
    BY <2>2, <2>3, <2>4 DEF TypeOK, callVars, searchVars
  <2>6. UnderWay'
    BY <2>3 DEF UnderWay, InCall
  <2>7. QED
    BY <2>5, <2>6
<1>19. CASE ServerRestart
  <2>1. broken' \in SUBSET Calls
    BY <1>19 DEF ServerRestart, TypeOK, UnderWay
  <2>2. wire' \in [Calls -> Seq(Requests)]
    BY <1>19 DEF ServerRestart
  <2>3. QED
    BY <1>19, <2>1, <2>2
       DEF ServerRestart, TypeOK, UnderWay, InCall, clientVars, searchVars, diskVars
<1>20. CASE UNCHANGED vars
  BY <1>20 DEF vars, clientVars, diskVars, callVars, searchVars, envVars, TypeOK, UnderWay, InCall
<1>21. QED
  BY <1>1, <1>2, <1>3, <1>4, <1>5, <1>6, <1>7, <1>8, <1>9, <1>10, <1>11, <1>12, <1>13,
     <1>14, <1>15, <1>16, <1>17, <1>18, <1>19, <1>20 DEF Next

\* Every variable keeps its type, and the operation under way its shape.
THEOREM TypesHold == Spec => []TypeInv
BY InitTypes, StepTypes, PTL DEF Spec

\* Type correctness, as the runs check it.
THEOREM TypeCorrect == Spec => []TypeOK
BY TypesHold, PTL DEF TypeInv

----------------------------------------------------------------------------
(* The inductive invariant behind the safety properties *)

\* Calls are numbered in the order they are made.  Only the call under way, or
\* one that ended in an error, still has requests on its way.
CallsInv ==
  /\ \A c \in Calls : c > ncalls => wire[c] = <<>> /\ c \notin broken /\ c \notin acked
  /\ \A c \in Calls : wire[c] # <<>> =>
       c \notin acked /\ (c \in broken \/ (InCall /\ c = ncalls))
  /\ InCall => ncalls \notin acked
  /\ \A c \in acked : c \notin broken
  /\ \A l \in Labels : issued[l] # None => issued[l].call <= ncalls

\* The labels in use for w are those from 1 to its counter.
Numbered == \A l \in Labels : issued[l] # None <=> l[2] <= uc_mapper[l[1]]

\* A request on its way is the last one made for its label, and the first the
\* server will see of it.
WireFresh ==
  \A c \in Calls : \A k \in 1..Len(wire[c]) :
    /\ issued[wire[c][k].l] = [e |-> wire[c][k].e, call |-> c]
    /\ ss_db[wire[c][k].l] = None

\* No stream carries a label twice.
WireOnce ==
  \A c \in Calls : \A j, k \in 1..Len(wire[c]) : wire[c][j].l = wire[c][k].l => j = k

\* What the server stores is what the client made.
StoredAsIssued ==
  \A l \in Labels : ss_db[l] # None => issued[l] # None /\ ss_db[l] = issued[l].e

\* An entry that was made is stored, on its way or lost with a broken call.
Where ==
  \A l \in Labels : issued[l] # None =>
    \/ ss_db[l] = issued[l].e
    \/ OnWire(issued[l].call, l, issued[l].e)
    \/ issued[l].call \in broken

IndexInv == ~rolledBack => Numbered /\ WireFresh /\ WireOnce /\ StoredAsIssued /\ Where

IInv == TypeInv /\ CallsInv /\ IndexInv

----------------------------------------------------------------------------
(* Calls *)

LEMMA InitCalls == Init => CallsInv
BY DEF Init, CallsInv, InCall

\* An entry made for call c of the client, which is or becomes the call under way.
LEMMA GenUpdateCalls ==
  ASSUME TypeOK, CallsInv, NEW w \in Keywords, NEW ind \in Inds, NEW mask \in {"H1", "H2"},
         NEW c \in Calls, uc_mapper[w] < MaxCount, GenUpdate(w, ind, mask, c),
         c \notin acked, ncalls <= c, ncalls' = c, UNCHANGED <<broken, acked>>,
         pc' \in {"call", "batch"}, InCall => c = ncalls
  PROVE  CallsInv'
<1> DEFINE l == <<w, uc_mapper[w] + 1>>
           e == [ind |-> ind, mask |-> mask]
           r == [l |-> l, e |-> e]
<1>1. l \in Labels
  BY BoundsAssumption DEF TypeOK, Counts, Labels
<1>2. \A d \in Calls : d # c => wire'[d] = wire[d]
  BY DEF GenUpdate, TypeOK
<1>3. c \in broken => wire' = wire
  BY DEF GenUpdate
<1>4. InCall'
  BY DEF InCall
<1>5. c \in Nat /\ ncalls \in Nat
  BY BoundsAssumption DEF Calls, TypeOK
<1>6. ASSUME NEW d \in Calls, d > ncalls'
      PROVE  wire'[d] = <<>> /\ d \notin broken' /\ d \notin acked'
  BY <1>2, <1>5, <1>6 DEF CallsInv, Calls
<1>7. ASSUME NEW d \in Calls, wire'[d] # <<>>
      PROVE  d \notin acked' /\ (d \in broken' \/ (InCall' /\ d = ncalls'))
  <2>1. CASE d = c
    BY <2>1, <1>4
  <2>2. CASE d # c
    BY <2>2, <1>2, <1>7 DEF CallsInv
  <2>3. QED
    BY <2>1, <2>2
<1>8. ASSUME NEW m \in Labels, issued'[m] # None
      PROVE  issued'[m].call <= ncalls'
  <2>1. CASE m = l
    <3>1. issued'[m] = [e |-> e, call |-> c]
      BY <2>1, <1>1 DEF GenUpdate, TypeOK
    <3>2. QED
      BY <3>1, <1>5
  <2>2. CASE m # l
    <3>1. issued'[m] = issued[m]
      BY <2>2, <1>1 DEF GenUpdate, TypeOK
    <3>2. issued[m].call \in Calls
      BY <3>1, <1>8 DEF TypeOK
    <3>3. issued[m].call <= ncalls
      BY <3>1, <1>8 DEF CallsInv
    <3>4. QED
      BY <3>1, <3>2, <3>3, <1>5 DEF Calls
  <2>3. QED
    BY <2>1, <2>2
<1>9. (InCall => ncalls \notin acked)' /\ (\A d \in acked : d \notin broken)'
  BY DEF CallsInv
<1>10. QED
  BY <1>6, <1>7, <1>8, <1>9 DEF CallsInv

LEMMA StepCalls == TypeInv /\ CallsInv /\ [Next]_vars => CallsInv'
<1> SUFFICES ASSUME TypeInv, CallsInv, [Next]_vars PROVE CallsInv'
  OBVIOUS
<1> USE DEF TypeInv
<1>n. ncalls \in Nat /\ Calls \subseteq Nat
  BY BoundsAssumption DEF TypeOK, Calls
<1>1. ASSUME NEW w \in Keywords, NEW ind \in Inds, Update(w, ind)
      PROVE  CallsInv'
  <2> DEFINE c == ncalls + 1
  <2>1. c \in Calls /\ c > ncalls
    BY <1>1, <1>n, BoundsAssumption DEF Update, TypeOK, Calls
  <2>2. c \notin acked
    BY <2>1 DEF CallsInv
  <2>3. /\ uc_mapper[w] < MaxCount /\ GenUpdate(w, ind, "H2", c)
        /\ ncalls' = c /\ UNCHANGED <<broken, acked>> /\ pc' = "call" /\ ~InCall
    BY <1>1 DEF Update, InCall
  <2>4. QED
    BY <2>1, <2>2, <2>3, <1>n, GenUpdateCalls
<1>2. ASSUME NEW w \in Keywords, NEW n \in 1..MaxBatch, BatchOpen(w, n)
      PROVE  CallsInv'
  <2>1. ncalls + 1 \in Calls
    BY <1>2, <1>n, BoundsAssumption DEF BatchOpen, TypeOK, Calls
  <2>2. ncalls' = ncalls + 1 /\ UNCHANGED <<wire, broken, acked, issued>> /\ ~InCall
    BY <1>2 DEF BatchOpen, InCall
  <2>3. \A l \in Labels : issued[l] # None => issued[l].call \in Calls
    BY DEF TypeOK
  <2>4. ncalls + 1 \notin acked
    BY <2>1, <1>n DEF CallsInv
  <2>5. ASSUME NEW c \in Calls, c > ncalls'
        PROVE  wire'[c] = <<>> /\ c \notin broken' /\ c \notin acked'
    BY <2>2, <2>5, <1>n DEF CallsInv
  <2>6. ASSUME NEW l \in Labels, issued'[l] # None
        PROVE  issued'[l].call <= ncalls'
    <3>1. issued'[l].call = issued[l].call /\ issued[l] # None
      BY <2>2, <2>6
    <3>2. issued[l].call <= ncalls
      BY <3>1 DEF CallsInv
    <3>3. issued[l].call \in Nat
      BY <3>1, <2>3, <1>n
    <3>4. QED
      BY <3>1, <3>2, <3>3, <2>2, <1>n
  <2>7. ASSUME NEW c \in Calls, wire'[c] # <<>>
        PROVE  c \notin acked' /\ c \in broken'
    BY <2>2, <2>7 DEF CallsInv
  <2>8. ncalls' \notin acked' /\ \A c \in acked' : c \notin broken'
    BY <2>2, <2>4 DEF CallsInv
  <2>9. QED
    BY <2>5, <2>6, <2>7, <2>8 DEF CallsInv
<1>3. ASSUME NEW ind \in Inds, BatchWrite(ind)
      PROVE  CallsInv'
  <2>1. batch.w \in Keywords /\ uc_mapper[batch.w] < MaxCount /\ ncalls \in Calls
    BY <1>3, BoundsAssumption DEF BatchWrite, UnderWay, Batches, InCall, TypeOK, Counts
  <2>2. /\ GenUpdate(batch.w, ind, "H1", ncalls) /\ ncalls' = ncalls
        /\ UNCHANGED <<broken, acked>> /\ pc' = "batch" /\ InCall
    BY <1>3 DEF BatchWrite, InCall
  <2>3. ncalls \notin acked
    BY <2>2 DEF CallsInv
  <2>4. QED
    BY <2>1, <2>2, <2>3, <1>n, GenUpdateCalls
<1>4. CASE BatchClose
  BY <1>4 DEF BatchClose, CallsInv, InCall, callVars
<1>5. CASE CallOk
  <2>1. InCall /\ ~InCall' /\ ncalls \in Calls
    BY <1>5 DEF CallOk, InCall, UnderWay
  <2>2. /\ acked' = acked \cup {ncalls} /\ wire[ncalls] = <<>> /\ ncalls \notin broken
        /\ UNCHANGED <<wire, ncalls, broken, issued>>
    BY <1>5 DEF CallOk
  <2>3. ASSUME NEW c \in Calls, c > ncalls'
        PROVE  wire'[c] = <<>> /\ c \notin broken' /\ c \notin acked'
    BY <2>2, <2>3, <1>n DEF CallsInv
  <2>4. ASSUME NEW c \in Calls, wire'[c] # <<>>
        PROVE  c \notin acked' /\ c \in broken'
    BY <2>2, <2>4 DEF CallsInv
  <2>5. QED
    BY <2>1, <2>2, <2>3, <2>4 DEF CallsInv
<1>6. CASE CallFail
  <2>1. InCall /\ ~InCall' /\ ncalls \in broken /\ UNCHANGED callVars
    BY <1>6 DEF CallFail, InCall
  <2>2. QED
    BY <2>1 DEF CallsInv, callVars
<1>7. ASSUME NEW c \in Calls, ServerStore(c)
      PROVE  CallsInv'
  <2>1. /\ wire[c] # <<>> /\ \A d \in Calls : d # c => wire'[d] = wire[d]
        /\ UNCHANGED <<ncalls, broken, acked, issued>> /\ UNCHANGED pc
    BY <1>7 DEF ServerStore, TypeOK, clientVars
  <2>2. QED
    BY <2>1 DEF CallsInv, InCall
<1>8. ASSUME UNCHANGED callVars, ~InCall, ~InCall'
      PROVE  CallsInv'
  BY <1>8 DEF CallsInv, callVars
<1>9. ASSUME NEW w \in Keywords, SearchBegin(w)
      PROVE  CallsInv'
  BY <1>8, <1>9 DEF SearchBegin, InCall
<1>10. CASE SearchStep
  BY <1>8, <1>10 DEF SearchStep, InCall, clientVars
<1>11. CASE SearchReturn
  BY <1>8, <1>11 DEF SearchReturn, InCall
<1>12. CASE SearchBreak
  BY <1>8, <1>12 DEF SearchBreak, InCall
<1>13. CASE ExitBegin
  BY <1>8, <1>13 DEF ExitBegin, InCall
<1>14. ASSUME NEW k \in Keys, StoreDelete(k)
       PROVE  CallsInv'
  BY <1>8, <1>14 DEF StoreDelete, InCall, clientVars
<1>15. CASE StorePut
  BY <1>8, <1>15 DEF StorePut, InCall, clientVars
<1>16. CASE ExitEnd
  BY <1>8, <1>16 DEF ExitEnd, InCall
<1>17. ASSUME NEW n \in 0..MaxBatch, InCall, Sever(ncalls, n), ncalls \notin broken,
              n <= Len(wire[ncalls]), UNCHANGED <<ncalls, acked, issued>>
       PROVE  CallsInv'
  <2>1. ncalls \in Calls /\ broken' = broken \cup {ncalls}
    BY <1>17 DEF UnderWay, Sever
  <2>2. \A d \in Calls : d # ncalls => wire'[d] = wire[d]
    BY <1>17 DEF Sever, TypeOK
  <2>3. ncalls \notin acked
    BY <1>17 DEF CallsInv
  <2>4. QED
    BY <1>17, <2>1, <2>2, <2>3, <1>n DEF CallsInv
<1>18. ASSUME NEW n \in 0..MaxBatch, CallBreak(n)
       PROVE  CallsInv'
  BY <1>17, <1>18 DEF CallBreak
<1>19. ASSUME NEW n \in 0..MaxBatch, Kill(n)
       PROVE  CallsInv'
  <2>1. CASE InCall /\ ncalls \notin broken
    BY <1>17, <1>19, <2>1 DEF Kill
  <2>2. CASE ~(InCall /\ ncalls \notin broken)
    <3>1. ~InCall' /\ UNCHANGED <<wire, ncalls, broken, acked, issued>>
      BY <1>19, <2>2 DEF Kill, InCall
    <3>2. QED
      BY <2>2, <3>1 DEF CallsInv
  <2>3. QED
    BY <2>1, <2>2
<1>20. CASE Start
  <2>1. UNCHANGED callVars /\ ~InCall /\ ~InCall'
    BY <1>20, Zenon DEF Start, InCall
  <2>2. QED
    BY <1>8, <2>1
<1>21. CASE ServerRestart
  <2>1. /\ broken' = broken \cup (IF InCall THEN {ncalls} ELSE {})
        /\ UNCHANGED <<pc, ncalls, acked, issued>>
        /\ wire' = [c \in Calls |-> <<>>]
    BY <1>21 DEF ServerRestart, clientVars
  <2>2. InCall' <=> InCall
    BY <2>1 DEF InCall
  <2>3. \A c \in Calls : c \in broken' => c \in broken \/ (InCall /\ c = ncalls)
    BY <2>1
  <2>4. QED
    BY <2>1, <2>2, <2>3, <1>n DEF CallsInv, TypeOK
<1>22. CASE UNCHANGED vars
  BY <1>22 DEF vars, clientVars, callVars, CallsInv, InCall
<1>23. QED
  BY <1>1, <1>2, <1>3, <1>4, <1>5, <1>6, <1>7, <1>9, <1>10, <1>11, <1>12, <1>13, <1>14,
     <1>15, <1>16, <1>18, <1>19, <1>20, <1>21, <1>22 DEF Next

----------------------------------------------------------------------------
(* Labels and entries *)

IndexParts == Numbered /\ WireFresh /\ WireOnce /\ StoredAsIssued /\ Where

\* Labels are pairs, and a label determines its keyword and number.
LEMMA LabelParts ==
  ASSUME NEW l \in Labels
  PROVE  l[1] \in Keywords /\ l[2] \in 1..MaxCount /\ l = <<l[1], l[2]>>
BY DEF Labels

LEMMA RequestOnWire ==
  ASSUME TypeOK, NEW c \in Calls, NEW k \in 1..Len(wire[c])
  PROVE  wire[c][k] \in Requests /\ wire[c][k].l \in Labels /\ wire[c][k].e \in Entries
<1>1. wire[c] \in Seq(Requests)
  BY DEF TypeOK
<1>2. wire[c][k] \in Requests
  BY <1>1
<1>3. QED
  BY <1>2 DEF Requests

LEMMA InitIndex == Init => IndexParts
<1> SUFFICES ASSUME Init PROVE IndexParts
  OBVIOUS
<1>1. Numbered
  <2>1. \A l \in Labels : ~(l[2] <= uc_mapper[l[1]])
    BY LabelParts, BoundsAssumption DEF Init
  <2>2. QED
    BY <2>1 DEF Init, Numbered
<1>2. \A c \in Calls : Len(wire[c]) = 0
  BY DEF Init
<1>3. WireFresh /\ WireOnce
  BY <1>2 DEF WireFresh, WireOnce
<1>4. StoredAsIssued /\ Where
  BY DEF Init, StoredAsIssued, Where
<1>5. QED
  BY <1>1, <1>3, <1>4 DEF IndexParts

\* Steps that touch neither counters nor entries, and forget no broken call.
LEMMA FrameIndex ==
  ASSUME IndexParts, UNCHANGED <<uc_mapper, wire, issued, ss_db>>, broken \subseteq broken'
  PROVE  IndexParts'
<1>1. Numbered' /\ WireFresh' /\ WireOnce' /\ StoredAsIssued'
  BY DEF IndexParts, Numbered, WireFresh, WireOnce, StoredAsIssued
<1>2. Where'
  BY DEF IndexParts, Where, OnWire
<1>3. QED
  BY <1>1, <1>2 DEF IndexParts

\* Making an entry takes the first label that is not in use.
LEMMA GenUpdateIndex ==
  ASSUME TypeOK, IndexParts, NEW w \in Keywords, NEW ind \in Inds, NEW mask \in {"H1", "H2"},
         NEW c \in Calls, uc_mapper[w] < MaxCount, GenUpdate(w, ind, mask, c),
         UNCHANGED <<ss_db, broken>>
  PROVE  IndexParts'
<1> DEFINE new == <<w, uc_mapper[w] + 1>>
           e == [ind |-> ind, mask |-> mask]
           r == [l |-> new, e |-> e]
<1>1. new \in Labels /\ e \in Entries /\ uc_mapper[w] \in Nat
  BY BoundsAssumption DEF TypeOK, Counts, Labels, Entries
<1>2. /\ uc_mapper' = [uc_mapper EXCEPT ![w] = @ + 1]
      /\ issued' = [issued EXCEPT ![new] = [e |-> e, call |-> c]]
      /\ wire' = IF c \in broken THEN wire ELSE [wire EXCEPT ![c] = Append(@, r)]
  BY DEF GenUpdate
<1>3. issued[new] = None /\ ss_db[new] = None
  BY <1>1 DEF IndexParts, Numbered, StoredAsIssued
<1>4. /\ issued'[new] = [e |-> e, call |-> c]
      /\ \A l \in Labels : l # new => issued'[l] = issued[l]
  BY <1>1, <1>2 DEF TypeOK
<1>5. [e |-> e, call |-> c] # None
  BY <1>1, NoneAssumption
<1>6. Numbered'
  <2> SUFFICES ASSUME NEW l \in Labels
               PROVE  issued'[l] # None <=> l[2] <= uc_mapper'[l[1]]
    BY DEF Numbered
  <2>1. l[1] \in Keywords /\ l[2] \in 1..MaxCount /\ l = <<l[1], l[2]>>
    BY LabelParts
  <2>2. CASE l = new
    <3>1. uc_mapper'[w] = uc_mapper[w] + 1
      BY <1>2 DEF TypeOK
    <3>2. QED
      BY <2>2, <3>1, <1>1, <1>4, <1>5
  <2>3. CASE l # new /\ l[1] = w
    <3>1. uc_mapper'[w] = uc_mapper[w] + 1 /\ l[2] # uc_mapper[w] + 1
      BY <2>1, <2>3, <1>2 DEF TypeOK
    <3>2. issued[l] # None <=> l[2] <= uc_mapper[w]
      BY <2>3 DEF IndexParts, Numbered
    <3>3. QED
      BY <2>1, <2>3, <3>1, <3>2, <1>1, <1>4
  <2>4. CASE l[1] # w
    <3>1. uc_mapper'[l[1]] = uc_mapper[l[1]] /\ l # new
      BY <2>1, <2>4, <1>2 DEF TypeOK
    <3>2. QED
      BY <3>1, <1>4 DEF IndexParts, Numbered
  <2>5. QED
    BY <2>2, <2>3, <2>4
<1>7. ASSUME NEW d \in Calls, NEW k \in 1..Len(wire'[d])
      PROVE  \/ k \in 1..Len(wire[d]) /\ wire'[d][k] = wire[d][k]
             \/ d = c /\ k = Len(wire[d]) + 1 /\ wire'[d][k] = r
  <2>1. wire[d] \in Seq(Requests)
    BY DEF TypeOK
  <2>2. CASE wire'[d] = wire[d]
    BY <2>2, <1>7
  <2>3. CASE wire'[d] # wire[d]
    <3>1. d = c /\ wire'[d] = Append(wire[d], r)
      BY <2>3, <1>2 DEF TypeOK
    <3>2. QED
      BY <2>1, <3>1, <1>7
  <2>4. QED
    BY <2>2, <2>3
<1>8. ASSUME NEW d \in Calls, NEW k \in 1..Len(wire[d])
      PROVE  /\ wire[d][k].l \in Labels /\ wire[d][k].l # new
             /\ k \in 1..Len(wire'[d]) /\ wire'[d][k] = wire[d][k]
  <2>1. wire[d] \in Seq(Requests) /\ wire[d][k].l \in Labels /\ wire[d][k].e \in Entries
    BY RequestOnWire DEF TypeOK
  <2>2. issued[wire[d][k].l] = [e |-> wire[d][k].e, call |-> d]
    BY DEF IndexParts, WireFresh
  <2>3. wire[d][k].l # new
    BY <2>1, <2>2, <1>3, NoneAssumption
  <2>4. wire'[d] = wire[d] \/ wire'[d] = Append(wire[d], r)
    BY <1>2 DEF TypeOK
  <2>5. QED
    BY <2>1, <2>3, <2>4
<1>9. WireFresh'
  <2> SUFFICES ASSUME NEW d \in Calls, NEW k \in 1..Len(wire'[d])
               PROVE  /\ issued'[wire'[d][k].l] = [e |-> wire'[d][k].e, call |-> d]
                      /\ ss_db'[wire'[d][k].l] = None
    BY DEF WireFresh
  <2>1. CASE k \in 1..Len(wire[d]) /\ wire'[d][k] = wire[d][k]
    BY <2>1, <1>4, <1>8 DEF IndexParts, WireFresh
  <2>2. CASE d = c /\ wire'[d][k] = r
    BY <2>2, <1>3, <1>4
  <2>3. QED
    BY <2>1, <2>2, <1>7
<1>10. WireOnce'
  <2> SUFFICES ASSUME NEW d \in Calls, NEW j \in 1..Len(wire'[d]), NEW k \in 1..Len(wire'[d]),
                      wire'[d][j].l = wire'[d][k].l
               PROVE  j = k
    BY DEF WireOnce
  <2>1. r.l = new
    OBVIOUS
  <2>2. CASE j \in 1..Len(wire[d]) /\ wire'[d][j] = wire[d][j]
    <3>1. wire'[d][k].l # new
      BY <2>2, <1>8
    <3>2. k \in 1..Len(wire[d]) /\ wire'[d][k] = wire[d][k]
      BY <3>1, <2>1, <1>7
    <3>3. QED
      BY <2>2, <3>2 DEF IndexParts, WireOnce
  <2>3. CASE j = Len(wire[d]) + 1 /\ wire'[d][j] = r
    <3>1. ~(k \in 1..Len(wire[d]) /\ wire'[d][k] = wire[d][k])
      BY <2>1, <2>3, <1>8
    <3>2. k = Len(wire[d]) + 1
      BY <3>1, <1>7
    <3>3. QED
      BY <2>3, <3>2
  <2>4. QED
    BY <2>2, <2>3, <1>7
<1>11. StoredAsIssued'
  BY <1>3, <1>4 DEF IndexParts, StoredAsIssued
<1>12. Where'
  <2> SUFFICES ASSUME NEW l \in Labels, issued'[l] # None
               PROVE  \/ ss_db'[l] = issued'[l].e
                      \/ \E k \in 1..Len(wire'[issued'[l].call]) :
                           wire'[issued'[l].call][k] = [l |-> l, e |-> issued'[l].e]
                      \/ issued'[l].call \in broken'
    BY DEF Where, OnWire
  <2>1. CASE l = new
    <3>1. issued'[l].e = e /\ issued'[l].call = c
      BY <2>1, <1>4
    <3>2. CASE c \in broken
      BY <3>1, <3>2
    <3>3. CASE c \notin broken
      <4>1. wire[c] \in Seq(Requests) /\ wire'[c] = Append(wire[c], r)
        BY <3>3, <1>2 DEF TypeOK
      <4>2. Len(wire[c]) + 1 \in 1..Len(wire'[c]) /\ wire'[c][Len(wire[c]) + 1] = r
        BY <4>1
      <4>3. QED
        BY <2>1, <3>1, <4>2
    <3>4. QED
      BY <3>2, <3>3
  <2>2. CASE l # new
    <3>1. issued'[l] = issued[l] /\ issued[l].call \in Calls
      BY <2>2, <1>4 DEF TypeOK
    <3>2. CASE OnWire(issued[l].call, l, issued[l].e)
      <4>1. PICK k \in 1..Len(wire[issued[l].call]) :
               wire[issued[l].call][k] = [l |-> l, e |-> issued[l].e]
        BY <3>2 DEF OnWire
      <4>2. /\ k \in 1..Len(wire'[issued[l].call])
            /\ wire'[issued[l].call][k] = [l |-> l, e |-> issued[l].e]
        BY <3>1, <4>1, <1>8
      <4>3. QED
        BY <3>1, <4>2
    <3>3. CASE ~OnWire(issued[l].call, l, issued[l].e)
      <4>1. issued[l] # None
        BY <3>1
      <4>2. ss_db[l] = issued[l].e \/ issued[l].call \in broken
        BY <3>3, <4>1 DEF IndexParts, Where
      <4>3. QED
        BY <3>1, <4>2
    <3>4. QED
      BY <3>2, <3>3
  <2>3. QED
    BY <2>1, <2>2
<1>13. QED
  BY <1>6, <1>9, <1>10, <1>11, <1>12 DEF IndexParts

\* What Tail leaves of a sequence, element by element.
LEMMA TailElements ==
  ASSUME NEW S, NEW s \in Seq(S), s # <<>>
  PROVE  /\ \A k \in 1..Len(Tail(s)) : k + 1 \in 1..Len(s) /\ Tail(s)[k] = s[k + 1]
         /\ \A k \in 1..Len(s) : k # 1 => k - 1 \in 1..Len(Tail(s)) /\ Tail(s)[k - 1] = s[k]
<1>1. Len(s) \in Nat \ {0} /\ Len(Tail(s)) = Len(s) - 1
  OBVIOUS
<1>2. \A k \in 1..(Len(s) - 1) : Tail(s)[k] = s[k + 1]
  OBVIOUS
<1>3. QED
  BY <1>1, <1>2

\* A handler that stores a request stores it for the first time.
LEMMA ServerStoreIndex ==
  ASSUME TypeOK, IndexParts, NEW c \in Calls, ServerStore(c)
  PROVE  IndexParts' /\ ss_db[Head(wire[c]).l] = None
<1> DEFINE r == Head(wire[c])
<1>1. /\ wire[c] \in Seq(Requests) /\ wire[c] # <<>>
      /\ ss_db' = [ss_db EXCEPT ![r.l] = r.e]
      /\ wire' = [wire EXCEPT ![c] = Tail(@)]
      /\ UNCHANGED <<uc_mapper, broken, issued>>
  BY DEF ServerStore, TypeOK, clientVars
<1>2. 1 \in 1..Len(wire[c]) /\ r = wire[c][1] /\ Len(wire[c]) \in Nat
  BY <1>1
<1>3. r.l \in Labels /\ r.e \in Entries
  BY <1>2, RequestOnWire
<1>4. issued[r.l] = [e |-> r.e, call |-> c] /\ ss_db[r.l] = None
  BY <1>2 DEF IndexParts, WireFresh
<1>5. ss_db'[r.l] = r.e /\ \A l \in Labels : l # r.l => ss_db'[l] = ss_db[l]
  BY <1>1, <1>3 DEF TypeOK
<1>6. issued[r.l] # None /\ r.e # None
  BY <1>3, <1>4, NoneAssumption
<1>7. wire'[c] = Tail(wire[c]) /\ \A d \in Calls : d # c => wire'[d] = wire[d]
  BY <1>1 DEF TypeOK
<1>T. wire[c] \in Seq(Requests) /\ wire[c] # <<>>
  BY <1>1
<1>U. /\ \A k \in 1..Len(wire'[c]) : k + 1 \in 1..Len(wire[c]) /\ wire'[c][k] = wire[c][k + 1]
      /\ \A k \in 1..Len(wire[c]) :
           k # 1 => k - 1 \in 1..Len(wire'[c]) /\ wire'[c][k - 1] = wire[c][k]
  <2>1. /\ \A k \in 1..Len(Tail(wire[c])) :
             k + 1 \in 1..Len(wire[c]) /\ Tail(wire[c])[k] = wire[c][k + 1]
        /\ \A k \in 1..Len(wire[c]) :
             k # 1 => k - 1 \in 1..Len(Tail(wire[c])) /\ Tail(wire[c])[k - 1] = wire[c][k]
    BY <1>T, TailElements
  <2>2. wire'[c] = Tail(wire[c])
    BY <1>7
  <2>3. QED
    BY <2>1, <2>2
<1>8. ASSUME NEW k \in 1..Len(wire'[c])
      PROVE  k + 1 \in 1..Len(wire[c]) /\ wire'[c][k] = wire[c][k + 1]
  BY <1>U, <1>8
<1>9. ASSUME NEW d \in Calls, NEW k \in 1..Len(wire'[d])
      PROVE  \E j \in 1..Len(wire[d]) : wire'[d][k] = wire[d][j] /\ (d = c => j = k + 1)
  <2>1. CASE d = c
    BY <2>1, <1>8, <1>9
  <2>2. CASE d # c
    BY <2>2, <1>7, <1>9
  <2>3. QED
    BY <2>1, <2>2
<1>10. Numbered'
  BY <1>1 DEF IndexParts, Numbered
<1>11. WireFresh'
  <2> SUFFICES ASSUME NEW d \in Calls, NEW k \in 1..Len(wire'[d])
               PROVE  /\ issued'[wire'[d][k].l] = [e |-> wire'[d][k].e, call |-> d]
                      /\ ss_db'[wire'[d][k].l] = None
    BY DEF WireFresh
  <2>1. PICK j \in 1..Len(wire[d]) : wire'[d][k] = wire[d][j] /\ (d = c => j = k + 1)
    BY <1>9
  <2>2. /\ issued[wire[d][j].l] = [e |-> wire[d][j].e, call |-> d]
        /\ ss_db[wire[d][j].l] = None
        /\ wire[d][j].l \in Labels
    BY RequestOnWire DEF IndexParts, WireFresh
  <2>3. wire[d][j].l # r.l
    <3>1. CASE d = c
      <4>1. j # 1
        BY <2>1, <3>1, <1>8
      <4>2. QED
        BY <3>1, <4>1, <1>2 DEF IndexParts, WireOnce
    <3>2. CASE d # c
      BY <3>2, <2>2, <1>4
    <3>3. QED
      BY <3>1, <3>2
  <2>4. QED
    BY <2>1, <2>2, <2>3, <1>1, <1>5
<1>12. WireOnce'
  <2> SUFFICES ASSUME NEW d \in Calls, NEW j \in 1..Len(wire'[d]), NEW k \in 1..Len(wire'[d]),
                      wire'[d][j].l = wire'[d][k].l
               PROVE  j = k
    BY DEF WireOnce
  <2>1. CASE d = c
    <3>1. /\ j + 1 \in 1..Len(wire[c]) /\ k + 1 \in 1..Len(wire[c])
          /\ wire[c][j + 1].l = wire[c][k + 1].l
      BY <2>1, <1>8
    <3>2. j + 1 = k + 1
      BY <3>1 DEF IndexParts, WireOnce
    <3>3. QED
      BY <3>2
  <2>2. CASE d # c
    BY <2>2, <1>7 DEF IndexParts, WireOnce
  <2>3. QED
    BY <2>1, <2>2
<1>13. StoredAsIssued'
  <2> SUFFICES ASSUME NEW l \in Labels, ss_db'[l] # None
               PROVE  issued'[l] # None /\ ss_db'[l] = issued'[l].e
    BY DEF StoredAsIssued
  <2>1. CASE l = r.l
    BY <2>1, <1>1, <1>4, <1>5, <1>6
  <2>2. CASE l # r.l
    BY <2>2, <1>1, <1>5 DEF IndexParts, StoredAsIssued
  <2>3. QED
    BY <2>1, <2>2
<1>14. Where'
  <2> SUFFICES ASSUME NEW l \in Labels, issued[l] # None
               PROVE  \/ ss_db'[l] = issued[l].e
                      \/ \E k \in 1..Len(wire'[issued[l].call]) :
                           wire'[issued[l].call][k] = [l |-> l, e |-> issued[l].e]
                      \/ issued[l].call \in broken
    BY <1>1 DEF Where, OnWire
  <2>1. CASE l = r.l
    BY <2>1, <1>4, <1>5
  <2>2. CASE l # r.l /\ OnWire(issued[l].call, l, issued[l].e)
    <3>1. PICK k \in 1..Len(wire[issued[l].call]) :
             wire[issued[l].call][k] = [l |-> l, e |-> issued[l].e]
      BY <2>2 DEF OnWire
    <3>2. issued[l].call \in Calls
      BY DEF TypeOK
    <3>3. CASE issued[l].call = c
      <4>1. k # 1 /\ k \in Nat
        BY <2>2, <3>1, <3>3, <1>2
      <4>2. k - 1 \in 1..Len(wire'[c]) /\ wire'[c][k - 1] = wire[c][k]
        BY <3>1, <3>3, <4>1, <1>U
      <4>3. QED
        BY <3>1, <3>3, <4>2
    <3>4. CASE issued[l].call # c
      BY <3>1, <3>2, <3>4, <1>7
    <3>5. QED
      BY <3>3, <3>4
  <2>3. CASE l # r.l /\ ~OnWire(issued[l].call, l, issued[l].e)
    BY <2>3, <1>5 DEF IndexParts, Where
  <2>4. QED
    BY <2>1, <2>2, <2>3
<1>15. QED
  BY <1>4, <1>10, <1>11, <1>12, <1>13, <1>14 DEF IndexParts

\* A call that breaks loses only entries that are then known to be lost.
LEMMA SeverIndex ==
  ASSUME TypeOK, IndexParts, NEW c \in Calls, NEW n \in Nat, n <= Len(wire[c]), Sever(c, n),
         UNCHANGED <<uc_mapper, issued, ss_db>>
  PROVE  IndexParts'
<1>1. wire[c] \in Seq(Requests)
  BY DEF TypeOK
<1>2. /\ broken' = broken \cup {c}
      /\ wire'[c] = SubSeq(wire[c], 1, n)
      /\ \A d \in Calls : d # c => wire'[d] = wire[d]
  BY DEF Sever, TypeOK
<1>3. ASSUME NEW d \in Calls, NEW k \in 1..Len(wire'[d])
      PROVE  k \in 1..Len(wire[d]) /\ wire'[d][k] = wire[d][k]
  <2>1. CASE d = c
    BY <2>1, <1>1, <1>2, <1>3
  <2>2. CASE d # c
    BY <2>2, <1>2, <1>3
  <2>3. QED
    BY <2>1, <2>2
<1>4. Numbered' /\ StoredAsIssued'
  BY DEF IndexParts, Numbered, StoredAsIssued
<1>5. WireFresh'
  BY <1>3 DEF IndexParts, WireFresh
<1>6. WireOnce'
  BY <1>3 DEF IndexParts, WireOnce
<1>7. Where'
  <2> SUFFICES ASSUME NEW l \in Labels, issued[l] # None
               PROVE  \/ ss_db[l] = issued[l].e
                      \/ \E k \in 1..Len(wire'[issued[l].call]) :
                           wire'[issued[l].call][k] = [l |-> l, e |-> issued[l].e]
                      \/ issued[l].call \in broken'
    BY DEF Where, OnWire
  <2>1. issued[l].call \in Calls
    BY DEF TypeOK
  <2>2. CASE issued[l].call = c
    BY <2>2, <1>2
  <2>3. CASE issued[l].call # c
    BY <2>1, <2>3, <1>2 DEF IndexParts, Where, OnWire
  <2>4. QED
    BY <2>2, <2>3
<1>8. QED
  BY <1>4, <1>5, <1>6, <1>7 DEF IndexParts

\* The server forgets what its handlers had in hand: those calls are broken.
LEMMA RestartIndex ==
  ASSUME TypeOK, CallsInv, IndexParts, ServerRestart
  PROVE  IndexParts'
<1>1. /\ broken' = broken \cup (IF InCall THEN {ncalls} ELSE {})
      /\ wire' = [c \in Calls |-> <<>>]
      /\ UNCHANGED <<uc_mapper, issued, ss_db>>
  BY DEF ServerRestart, clientVars
<1>2. \A c \in Calls : Len(wire'[c]) = 0
  BY <1>1
<1>3. WireFresh' /\ WireOnce'
  BY <1>2 DEF WireFresh, WireOnce
<1>4. Numbered' /\ StoredAsIssued'
  BY <1>1 DEF IndexParts, Numbered, StoredAsIssued
<1>5. ASSUME NEW l \in Labels, issued[l] # None
      PROVE  ss_db[l] = issued[l].e \/ issued[l].call \in broken'
  <2>1. issued[l].call \in Calls
    BY <1>5 DEF TypeOK
  <2>2. CASE OnWire(issued[l].call, l, issued[l].e)
    <3>1. wire[issued[l].call] # <<>>
      BY <2>1, <2>2 DEF OnWire, TypeOK
    <3>2. QED
      BY <2>1, <3>1, <1>1 DEF CallsInv
  <2>3. CASE ~OnWire(issued[l].call, l, issued[l].e)
    BY <2>3, <1>1, <1>5 DEF IndexParts, Where
  <2>4. QED
    BY <2>2, <2>3
<1>6. Where'
  BY <1>1, <1>5 DEF Where
<1>7. QED
  BY <1>3, <1>4, <1>6 DEF IndexParts

LEMMA StepIndex ==
  ASSUME TypeInv, CallsInv, IndexParts, [Next]_vars, ~rolledBack'
  PROVE  IndexParts'
<1> USE DEF TypeInv
<1>1. ASSUME NEW w \in Keywords, NEW ind \in Inds, Update(w, ind)
      PROVE  IndexParts'
  <2>1. ncalls + 1 \in Calls
    BY <1>1, BoundsAssumption DEF Update, TypeOK, Calls
  <2>2. /\ uc_mapper[w] < MaxCount /\ GenUpdate(w, ind, "H2", ncalls + 1)
        /\ UNCHANGED <<ss_db, broken>>
    BY <1>1 DEF Update
  <2>3. QED
    BY <2>1, <2>2, GenUpdateIndex
<1>2. ASSUME NEW ind \in Inds, BatchWrite(ind)
      PROVE  IndexParts'
  <2>1. batch.w \in Keywords /\ uc_mapper[batch.w] < MaxCount /\ ncalls \in Calls
    BY <1>2, BoundsAssumption DEF BatchWrite, UnderWay, Batches, InCall, TypeOK, Counts
  <2>2. GenUpdate(batch.w, ind, "H1", ncalls) /\ UNCHANGED <<ss_db, broken>>
    BY <1>2 DEF BatchWrite
  <2>3. QED
    BY <2>1, <2>2, GenUpdateIndex
<1>3. ASSUME NEW c \in Calls, ServerStore(c)
      PROVE  IndexParts'
  BY <1>3, ServerStoreIndex
<1>4. ASSUME UNCHANGED <<uc_mapper, callVars, ss_db>>
      PROVE  IndexParts'
  BY <1>4, FrameIndex DEF callVars
<1>5. ASSUME NEW w \in Keywords, NEW n \in 1..MaxBatch, BatchOpen(w, n)
      PROVE  IndexParts'
  BY <1>5, FrameIndex DEF BatchOpen
<1>6. CASE BatchClose
  BY <1>4, <1>6 DEF BatchClose
<1>7. CASE CallOk
  BY <1>7, FrameIndex DEF CallOk
<1>8. CASE CallFail
  BY <1>4, <1>8 DEF CallFail
<1>9. ASSUME NEW w \in Keywords, SearchBegin(w)
      PROVE  IndexParts'
  BY <1>4, <1>9 DEF SearchBegin
<1>10. CASE SearchStep
  BY <1>4, <1>10 DEF SearchStep, clientVars
<1>11. CASE SearchReturn
  BY <1>4, <1>11 DEF SearchReturn
<1>12. CASE SearchBreak
  BY <1>4, <1>12 DEF SearchBreak
<1>13. CASE ExitBegin
  BY <1>4, <1>13 DEF ExitBegin
<1>14. ASSUME NEW k \in Keys, StoreDelete(k)
       PROVE  IndexParts'
  BY <1>4, <1>14 DEF StoreDelete, clientVars
<1>15. CASE StorePut
  BY <1>4, <1>15 DEF StorePut, clientVars
<1>16. CASE ExitEnd
  BY <1>4, <1>16 DEF ExitEnd
<1>17. ASSUME NEW n \in 0..MaxBatch, CallBreak(n)
       PROVE  IndexParts'
  <2>1. /\ ncalls \in Calls /\ n \in Nat /\ n <= Len(wire[ncalls]) /\ Sever(ncalls, n)
        /\ UNCHANGED <<uc_mapper, issued, ss_db>>
    BY <1>17, BoundsAssumption DEF CallBreak, UnderWay, clientVars
  <2>2. QED
    BY <2>1, SeverIndex
<1>18. ASSUME NEW n \in 0..MaxBatch, Kill(n)
       PROVE  IndexParts'
  <2>1. CASE InCall /\ ncalls \notin broken
    <3>1. /\ ncalls \in Calls /\ n \in Nat /\ n <= Len(wire[ncalls]) /\ Sever(ncalls, n)
          /\ UNCHANGED <<uc_mapper, issued, ss_db>>
      BY <1>18, <2>1, BoundsAssumption DEF Kill, UnderWay
    <3>2. QED
      BY <3>1, SeverIndex
  <2>2. CASE ~(InCall /\ ncalls \notin broken)
    BY <1>18, <2>2, FrameIndex DEF Kill
  <2>3. QED
    BY <2>1, <2>2
<1>19. CASE Start
  <2>1. rolledBack' = (rolledBack \/ cs_uc # uc_mapper \/ cs_sc # sc_mapper)
    BY <1>19 DEF Start
  <2>2. cs_uc = uc_mapper
    BY <2>1, Zenon
  <2>3. uc_mapper' = cs_uc /\ UNCHANGED <<callVars, ss_db>>
    BY <1>19, Zenon DEF Start
  <2>4. QED
    BY <1>4, <2>2, <2>3
<1>20. CASE ServerRestart
  BY <1>20, RestartIndex
<1>21. CASE UNCHANGED vars
  BY <1>4, <1>21 DEF vars, clientVars
<1>22. QED
  BY <1>1, <1>2, <1>3, <1>5, <1>6, <1>7, <1>8, <1>9, <1>10, <1>11, <1>12, <1>13, <1>14,
     <1>15, <1>16, <1>17, <1>18, <1>19, <1>20, <1>21 DEF Next

\* Once a start has read back old maps, that is never forgotten.
LEMMA RolledBackStays == [Next]_vars /\ rolledBack => rolledBack'
<1> SUFFICES ASSUME [Next]_vars, rolledBack PROVE rolledBack'
  OBVIOUS
<1>1. CASE Start
  BY <1>1, Zenon DEF Start
<1>2. CASE ~Start
  <2>1. UNCHANGED rolledBack
    BY <1>2 DEF Next, vars, envVars, Update, BatchOpen, BatchWrite, BatchClose, CallOk,
                CallFail, ServerStore, SearchBegin, SearchStep, SearchReturn, SearchBreak,
                ExitBegin, StoreDelete, StorePut, ExitEnd, CallBreak, Kill, ServerRestart
  <2>2. QED
    BY <2>1
<1>3. QED
  BY <1>1, <1>2

LEMMA InitInv == Init => IInv
BY InitTypes, InitCalls, InitIndex DEF IInv, IndexInv, IndexParts

LEMMA StepInv == IInv /\ [Next]_vars => IInv'
<1> SUFFICES ASSUME IInv, [Next]_vars PROVE IInv'
  OBVIOUS
<1>1. TypeInv' /\ CallsInv'
  BY StepTypes, StepCalls DEF IInv
<1>2. ASSUME ~rolledBack'
      PROVE  IndexParts'
  BY <1>2, RolledBackStays, StepIndex DEF IInv, IndexInv, IndexParts
<1>3. QED
  BY <1>1, <1>2 DEF IInv, IndexInv, IndexParts

\* The inductive invariant holds.
THEOREM InvHolds == Spec => []IInv
BY InitInv, StepInv, PTL DEF Spec

----------------------------------------------------------------------------
(* What follows from it *)

\* Every entry the client counts is stored, on its way, or lost with a call
\* that ended in an error: EntriesAccounted of the run, for any number of
\* keywords, indices, calls, faults and restarts.
THEOREM EntriesAreAccounted == Spec => []EntriesAccounted
<1>1. IInv => EntriesAccounted
  <2> SUFFICES ASSUME IInv, ~rolledBack, NEW w \in Keywords, NEW i \in 1..uc_mapper[w]
               PROVE  /\ issued[<<w, i>>] # None
                      /\ \/ ss_db[<<w, i>>] = issued[<<w, i>>].e
                         \/ OnWire(issued[<<w, i>>].call, <<w, i>>, issued[<<w, i>>].e)
                         \/ issued[<<w, i>>].call \in broken
    BY DEF EntriesAccounted
  <2>1. <<w, i>> \in Labels /\ i <= uc_mapper[w]
    BY BoundsAssumption DEF IInv, TypeInv, TypeOK, Labels, Counts
  <2>2. issued[<<w, i>>] # None
    BY <2>1 DEF IInv, IndexInv, Numbered
  <2>3. QED
    BY <2>1, <2>2 DEF IInv, IndexInv, Where
<1>2. QED
  BY <1>1, InvHolds, PTL

\* Every entry of an acknowledged call is stored and within the counter.
THEOREM AckedAreStored == Spec => []AckedStored
<1>1. IInv => AckedStored
  <2> SUFFICES ASSUME IInv, ~rolledBack, NEW l \in Labels,
                      issued[l] # None, issued[l].call \in acked
               PROVE  ss_db[l] = issued[l].e /\ l[2] <= uc_mapper[l[1]]
    BY DEF AckedStored
  <2>1. l[2] <= uc_mapper[l[1]]
    BY DEF IInv, IndexInv, Numbered
  <2>2. issued[l].call \in Calls /\ issued[l].call \notin broken
    BY DEF IInv, TypeInv, TypeOK, CallsInv
  <2>3. wire[issued[l].call] = <<>>
    BY <2>2 DEF IInv, CallsInv
  <2>4. ~OnWire(issued[l].call, l, issued[l].e)
    BY <2>3 DEF OnWire
  <2>5. QED
    BY <2>1, <2>2, <2>4 DEF IInv, IndexInv, Where
<1>2. QED
  BY <1>1, InvHolds, PTL

\* A step of any actor leaves a stored entry as it is.
LEMMA StoredStays ==
  ASSUME IInv, [Next]_vars, ~rolledBack, NEW l \in Labels, ss_db[l] # None
  PROVE  ss_db'[l] = ss_db[l]
<1>1. ASSUME NEW c \in Calls, ServerStore(c)
      PROVE  ss_db'[l] = ss_db[l]
  <2>1. ss_db[Head(wire[c]).l] = None
    BY <1>1, ServerStoreIndex DEF IInv, TypeInv, IndexInv, IndexParts
  <2>2. ss_db' = [ss_db EXCEPT ![Head(wire[c]).l] = Head(wire[c]).e]
    BY <1>1 DEF ServerStore
  <2>3. QED
    BY <2>1, <2>2 DEF IInv, TypeInv, TypeOK
<1>2. CASE ~\E c \in Calls : ServerStore(c)
  BY <1>2 DEF Next, vars, Update, BatchOpen, BatchWrite, BatchClose, CallOk, CallFail,
              SearchBegin, SearchStep, SearchReturn, SearchBreak, ExitBegin, StoreDelete,
              StorePut, ExitEnd, CallBreak, Kill, Start, ServerRestart
<1>3. QED
  BY <1>1, <1>2

\* The server overwrites no entry.
THEOREM LabelsAreWrittenOnce == Spec => LabelsWrittenOnce
<1>1. IInv /\ [Next]_vars =>
        [~rolledBack => \A l \in Labels : ss_db[l] # None => ss_db'[l] = ss_db[l]]_vars
  BY StoredStays
<1>2. QED
  BY <1>1, InvHolds, PTL DEF Spec, LabelsWrittenOnce

----------------------------------------------------------------------------
(* Clean exits *)

\* The client is not marked as cleanly down while it runs, and ~Client has
\* saved every key that is not in todo any more.
ExitInv ==
  /\ pc # "down" => ~clean
  /\ pc = "closing" => \A w \in Keywords :
       /\ <<"s", w>> \notin todo => cs_sc[w] = sc_mapper[w]
       /\ <<"u", w>> \notin todo => cs_uc[w] = uc_mapper[w]
  /\ CleanExitKeepsMaps

LEMMA StepExit ==
  ASSUME TypeInv, ExitInv, [Next]_vars
  PROVE  ExitInv'
<1> USE DEF TypeInv
<1>1. ASSUME ~clean', pc' # "closing"
      PROVE  ExitInv'
  BY <1>1 DEF ExitInv, CleanExitKeepsMaps
<1>2. ASSUME UNCHANGED <<pc, uc_mapper, sc_mapper, cs_uc, cs_sc, todo, clean>>
      PROVE  ExitInv'
  BY <1>2 DEF ExitInv, CleanExitKeepsMaps
<1>3. ASSUME NEW w \in Keywords, NEW ind \in Inds, Update(w, ind)
      PROVE  ExitInv'
  BY <1>1, <1>3 DEF Update, diskVars, ExitInv
<1>4. ASSUME NEW w \in Keywords, NEW n \in 1..MaxBatch, BatchOpen(w, n)
      PROVE  ExitInv'
  BY <1>1, <1>4 DEF BatchOpen, diskVars, ExitInv
<1>5. ASSUME NEW ind \in Inds, BatchWrite(ind)
      PROVE  ExitInv'
  BY <1>1, <1>5 DEF BatchWrite, diskVars, ExitInv
<1>6. ASSUME BatchClose \/ CallOk \/ CallFail \/ SearchStep \/ SearchReturn \/ SearchBreak
      PROVE  ExitInv'
  BY <1>1, <1>6 DEF BatchClose, CallOk, CallFail, SearchStep, SearchReturn, SearchBreak,
                    diskVars, clientVars, ExitInv
<1>7. ASSUME NEW w \in Keywords, SearchBegin(w)
      PROVE  ExitInv'
  BY <1>1, <1>7 DEF SearchBegin, diskVars, ExitInv
<1>8. ASSUME NEW c \in Calls, ServerStore(c)
      PROVE  ExitInv'
  BY <1>2, <1>8 DEF ServerStore, diskVars, clientVars
<1>9. CASE ExitBegin
  <2>1. pc = "idle" /\ pc' = "closing" /\ todo' = Keys /\ UNCHANGED clean
    BY <1>9 DEF ExitBegin
  <2>2. \A w \in Keywords : <<"s", w>> \in Keys /\ <<"u", w>> \in Keys
    BY DEF Keys
  <2>3. QED
    BY <2>1, <2>2 DEF ExitInv, CleanExitKeepsMaps
<1>10. ASSUME NEW k \in Keys, StoreDelete(k)
       PROVE  ExitInv'
  <2>1. /\ pc = "closing" /\ k \in todo
        /\ UNCHANGED <<pc, uc_mapper, sc_mapper, todo, clean>>
    BY <1>10 DEF StoreDelete, StoreNext, clientVars
  <2>2. /\ \A w \in Keywords : <<"s", w>> # k => cs_sc'[w] = cs_sc[w]
        /\ \A w \in Keywords : <<"u", w>> # k => cs_uc'[w] = cs_uc[w]
    BY <1>10 DEF StoreDelete, TypeOK, Keys
  <2>3. QED
    BY <2>1, <2>2 DEF ExitInv, CleanExitKeepsMaps
<1>11. CASE StorePut
  <2>1. /\ pc = "closing" /\ hole \in Keys /\ todo' = todo \ {hole}
        /\ UNCHANGED <<pc, uc_mapper, sc_mapper, clean>>
    BY <1>11 DEF StorePut, clientVars, TypeOK
  <2>2. \A w \in Keywords :
          /\ <<"s", w>> # hole => cs_sc'[w] = cs_sc[w]
          /\ <<"s", w>> = hole => cs_sc'[w] = sc_mapper[w]
          /\ <<"u", w>> # hole => cs_uc'[w] = cs_uc[w]
          /\ <<"u", w>> = hole => cs_uc'[w] = uc_mapper[w]
    BY <1>11, <2>1 DEF StorePut, TypeOK, Keys
  <2>3. QED
    BY <2>1, <2>2 DEF ExitInv, CleanExitKeepsMaps
<1>12. CASE ExitEnd
  <2>1. /\ pc = "closing" /\ todo = {} /\ pc' = "down"
        /\ UNCHANGED <<uc_mapper, sc_mapper, cs_uc, cs_sc>>
    BY <1>12 DEF ExitEnd
  <2>2. \A w \in Keywords : cs_sc[w] = sc_mapper[w] /\ cs_uc[w] = uc_mapper[w]
    BY <2>1 DEF ExitInv
  <2>3. cs_uc = uc_mapper /\ cs_sc = sc_mapper
    BY <2>2 DEF TypeOK
  <2>4. QED
    BY <2>1, <2>3 DEF ExitInv, CleanExitKeepsMaps
<1>13. ASSUME NEW n \in 0..MaxBatch, CallBreak(n)
       PROVE  ExitInv'
  BY <1>2, <1>13 DEF CallBreak, diskVars, clientVars
<1>14. ASSUME NEW n \in 0..MaxBatch, Kill(n)
       PROVE  ExitInv'
  BY <1>1, <1>14 DEF Kill, ExitInv
<1>15. CASE Start
  <2>1. ~clean' /\ pc' = "idle"
    BY <1>15, Zenon DEF Start
  <2>2. QED
    BY <1>1, <2>1
<1>16. CASE ServerRestart
  BY <1>2, <1>16 DEF ServerRestart, diskVars, clientVars
<1>17. CASE UNCHANGED vars
  BY <1>2, <1>17 DEF vars, diskVars, clientVars
<1>18. QED
  BY <1>3, <1>4, <1>5, <1>6, <1>7, <1>8, <1>9, <1>10, <1>11, <1>12, <1>13, <1>14, <1>15,
     <1>16, <1>17 DEF Next

\* After a destructor that ran to its end, cs_db holds both maps as they were.
THEOREM CleanExitsKeepMaps == Spec => []CleanExitKeepsMaps
<1>1. Init => ExitInv
  BY DEF Init, ExitInv, CleanExitKeepsMaps
<1>2. TypeInv /\ ExitInv /\ [Next]_vars => ExitInv'
  BY StepExit
<1>3. ExitInv => CleanExitKeepsMaps
  BY DEF ExitInv
<1>4. QED
  BY <1>1, <1>2, <1>3, TypesHold, PTL DEF Spec

=============================================================================
