------------------------ MODULE SearchPipeline_proofs ------------------------
(***************************************************************************)
(* Theorems about SearchPipeline, for any cores, tokens and pool sizes.    *)
(***************************************************************************)
EXTENDS SearchPipeline, FiniteSetTheorems, TLAPS

----------------------------------------------------------------------------
(* Invariants *)

\* The stages of the handler: nothing is derived once the derive threads are joined,
\* and a pool whose workers have left has been told to, and is empty.
StagesInv ==
  /\ main \in {"drain_access", "drain_post", "returned"} => \A k \in 1..Len(rsa) : rsa[k] >= count
  /\ main = "drain_access" => strategy # "light"
  /\ main = "drain_post" => strategy = "callback"
  /\ stop["access"] <=> strategy # "light" /\ main \in {"drain_access", "drain_post", "returned"}
  /\ stop["post"] <=> strategy = "callback" /\ main \in {"drain_post", "returned"}
  /\ \A x \in Workers : worker[x] = Ended => stop[x[1]] /\ queue[x[1]] = <<>>
  /\ stop["access"] /\ main # "drain_access" => Joined("access")
  /\ main = "returned" /\ strategy = "callback" => Joined("post")

\* A search that has no use for a pool gives it no task.
Idle(p) == queue[p] = <<>> /\ \A x \in Workers : x[1] = p => worker[x] \notin Nat
IdleInv ==
  /\ strategy = "light" => Idle("access")
  /\ strategy # "callback" => Idle("post")

\* The tokens of the k-th derive thread.
Mine(k, i) == \E m \in Nat : i = (k - 1) + m * n_threads

\* One thread per remainder, at a token of its own.
SpawnInv ==
  /\ strategy = "parallel" /\ cores < AccessThreads => main \in {"spawn", "dead"}
  /\ EnoughCores \/ cores = AccessThreads =>
       /\ main # "dead"
       /\ Len(rsa) <= n_threads
       /\ main # "spawn" => Len(rsa) = n_threads
       /\ \A k \in 1..Len(rsa) : Mine(k, rsa[k])

Elems(s) == {s[i] : i \in 1..Len(s)}
NoDup(s) == \A i, j \in 1..Len(s) : s[i] = s[j] => i = j

\* The tokens derived, those somewhere in the pools, and those dealt with.
Derived  == {i \in 0..(count - 1) : \E k \in 1..Len(rsa) : Mine(k, i) /\ i < rsa[k]}
Held     == {i \in Nat : \E x \in Workers : worker[x] = i}
InPools  == Elems(queue["access"]) \cup Elems(queue["post"]) \cup Held
Finished == Derived \ InPools

\* A derived token is in one place of the pools at most, and passed on only if stored.
PlacesInv ==
  /\ NoDup(queue["access"]) /\ NoDup(queue["post"])
  /\ Elems(queue["access"]) \cap Elems(queue["post"]) = {}
  /\ Held \cap (Elems(queue["access"]) \cup Elems(queue["post"])) = {}
  /\ \A x, y \in Workers : worker[x] \in Nat /\ worker[x] = worker[y] => x = y
  /\ InPools \subseteq Derived
  /\ Elems(queue["post"]) \subseteq stored
  /\ \A x \in Workers : x[1] = "post" /\ worker[x] \in Nat => worker[x] \in stored

\* The answer has what is dealt with.
AnswerInv ==
  /\ \A i \in Tokens : listed[i] = IF i \in Finished \cap stored THEN 1 ELSE 0
  /\ junk = IF strategy = "parallel" THEN Cardinality(Finished \ stored) ELSE 0

Sound == EnoughCores \/ cores = AccessThreads

IInv == TypeOK /\ StagesInv /\ IdleInv /\ SpawnInv /\ (Sound => PlacesInv /\ AnswerInv)

----------------------------------------------------------------------------
(* Sequences *)

LEMMA TailElems ==
  ASSUME NEW S, NEW s \in Seq(S), s # <<>>
  PROVE  /\ Head(s) \in S /\ Tail(s) \in Seq(S)
         /\ Elems(s) = {Head(s)} \cup Elems(Tail(s))
         /\ NoDup(s) => NoDup(Tail(s)) /\ Head(s) \notin Elems(Tail(s))
<1>1. Head(s) = s[1] /\ Len(s) \in Nat \ {0} /\ Len(Tail(s)) = Len(s) - 1
  OBVIOUS
<1>2. \A i \in 1..Len(s) - 1 : i + 1 \in 1..Len(s) /\ Tail(s)[i] = s[i + 1] /\ i + 1 # 1
  BY <1>1
<1>3. \A i \in 1..Len(s) : i = 1 \/ (i - 1 \in 1..Len(s) - 1 /\ Tail(s)[i - 1] = s[i])
  BY <1>1, <1>2
<1>4. 1 \in 1..Len(s)
  BY <1>1
<1>5. Elems(s) = {Head(s)} \cup Elems(Tail(s))
  <2>1. \A e : e \in Elems(s) => e = Head(s) \/ e \in Elems(Tail(s))
    BY <1>1, <1>3 DEF Elems
  <2>2. \A e : e = Head(s) \/ e \in Elems(Tail(s)) => e \in Elems(s)
    BY <1>1, <1>2, <1>4 DEF Elems
  <2> QED BY <2>1, <2>2
<1>6. ASSUME NoDup(s)
      PROVE  NoDup(Tail(s)) /\ Head(s) \notin Elems(Tail(s))
  <2>1. \A i, j \in 1..Len(s) - 1 : Tail(s)[i] = Tail(s)[j] => i = j
    BY <1>2, <1>6 DEF NoDup
  <2>2. \A i \in 1..Len(s) - 1 : Tail(s)[i] # s[1]
    BY <1>2, <1>4, <1>6 DEF NoDup
  <2> QED BY <1>1, <2>1, <2>2 DEF NoDup, Elems
<1> QED BY <1>1, <1>5, <1>6

LEMMA AppendElems ==
  ASSUME NEW S, NEW s \in Seq(S), NEW e \in S
  PROVE  /\ Append(s, e) \in Seq(S)
         /\ Elems(Append(s, e)) = Elems(s) \cup {e}
         /\ NoDup(s) /\ e \notin Elems(s) => NoDup(Append(s, e))
<1>1. Append(s, e) \in Seq(S) /\ Len(Append(s, e)) = Len(s) + 1 /\ Len(s) \in Nat
  OBVIOUS
<1>2. \A i \in 1..Len(s) + 1 : Append(s, e)[i] = IF i = Len(s) + 1 THEN e ELSE s[i]
  OBVIOUS
<1>3. \A i \in 1..Len(s) + 1 : i = Len(s) + 1 \/ i \in 1..Len(s)
  BY <1>1
<1>4. \A i \in 1..Len(s) : i \in 1..Len(s) + 1 /\ i # Len(s) + 1
  BY <1>1
<1>5. Len(s) + 1 \in 1..Len(s) + 1
  BY <1>1
<1>6. Elems(Append(s, e)) = Elems(s) \cup {e}
  BY <1>1, <1>2, <1>3, <1>4, <1>5 DEF Elems
<1>7. NoDup(s) /\ e \notin Elems(s) => NoDup(Append(s, e))
  BY <1>1, <1>2, <1>3 DEF NoDup, Elems
<1> QED BY <1>1, <1>6, <1>7

----------------------------------------------------------------------------
(* Remainders *)

LEMMA Times ==
  ASSUME NEW q \in Nat, NEW a \in Nat, NEW b \in Nat
  PROVE  /\ a * q \in Nat /\ (a + 1) * q = a * q + q
         /\ a < b => a * q + q <= b * q
<1>1. a * q \in Nat /\ b * q \in Nat /\ (a + 1) * q = a * q + q
  OBVIOUS
<1>2. a + 1 <= b => (a + 1) * q <= b * q
  OBVIOUS
<1> QED BY <1>1, <1>2

LEMMA Divided ==
  ASSUME NEW a \in Nat, NEW n \in Nat \ {0}
  PROVE  \E m \in Nat : a % n \in 0..(n - 1) /\ a = (a % n) + m * n
<1>1. a \div n \in Nat /\ a % n \in Nat
  OBVIOUS
<1>2. a % n < n
  OBVIOUS
<1>3. a = (a % n) + (a \div n) * n
  OBVIOUS
<1>4. a % n \in 0..(n - 1)
  BY <1>1, <1>2
<1> QED BY <1>1, <1>3, <1>4

LEMMA Remainder ==
  ASSUME NEW n \in Nat \ {0}, NEW u \in 0..(n - 1), NEW v \in 0..(n - 1), NEW a \in Nat, NEW b \in Nat,
         u + a * n = v + b * n
  PROVE  u = v /\ a = b
<1>1. a * n \in Nat /\ b * n \in Nat
  BY Times
<1>2. a < b => a * n + n <= b * n
  BY Times
<1>3. b < a => b * n + n <= a * n
  BY Times
<1>4. ~(a < b) /\ ~(b < a)
  BY <1>1, <1>2, <1>3
<1>5. a = b
  BY <1>4
<1> QED BY <1>1, <1>5

LEMMA SmallRemainder ==
  ASSUME NEW n \in Nat \ {0}, NEW u \in 0..(n - 1), NEW b \in Nat
  PROVE  (u + b * n) % n = u
<1>1. u + b * n \in Nat
  BY Times
<1>2. PICK m \in Nat : (u + b * n) % n \in 0..(n - 1) /\ u + b * n = ((u + b * n) % n) + m * n
  BY <1>1, Divided
<1> QED BY <1>2, Remainder

\* Two tokens of one thread less than a stride apart are the same.
LEMMA Gap ==
  ASSUME NEW n \in Nat, NEW u \in Nat, NEW a \in Nat, NEW b \in Nat,
         u + b * n <= u + a * n, u + a * n < u + b * n + n
  PROVE  u + a * n = u + b * n
<1>1. a * n \in Nat /\ b * n \in Nat
  BY Times
<1>2. a < b => a * n + n <= b * n
  BY Times
<1>3. b < a => b * n + n <= a * n
  BY Times
<1>4. a * n < b * n + n /\ b * n <= a * n
  BY <1>1
<1>5. ~(b < a)
  BY <1>1, <1>3, <1>4
<1>6. a < b => n = 0
  BY <1>1, <1>2, <1>4
<1>7. a < b => FALSE
  BY <1>1, <1>4, <1>6
<1> QED BY <1>5, <1>7

\* How many threads there are.
LEMMA Threads ==
  ASSUME TypeOK
  PROVE  /\ n_threads \in Nat /\ Stride \in Nat
         /\ EnoughCores => /\ n_threads \in 1..MaxCores /\ n_threads <= cores
                           /\ n_threads < Byte /\ Stride = n_threads
         /\ strategy = "parallel" /\ cores = AccessThreads => n_threads = 0
         /\ strategy = "parallel" /\ cores < AccessThreads => n_threads >= Byte
<1>1. /\ cores \in Nat /\ cores >= 1 /\ cores <= MaxCores /\ MaxCores \in Nat /\ MaxCores < Byte
      /\ AccessThreads \in Nat /\ AccessThreads < Byte /\ Byte \in Nat \ {0}
      /\ AccessThreads > 0
      /\ Unsigned \in Nat \ {0} /\ Byte < Unsigned /\ 2 * Byte <= Unsigned
  BY BoundsAssumption DEF TypeOK
<1>2. ASSUME strategy = "parallel", cores >= AccessThreads
      PROVE  n_threads = cores - AccessThreads
  <2>1. cores - AccessThreads \in 0..(Unsigned - 1)
    BY <1>1, <1>2
  <2>2. cores + Unsigned - AccessThreads = (cores - AccessThreads) + 1 * Unsigned
    BY <1>1
  <2>3. ((cores - AccessThreads) + 1 * Unsigned) % Unsigned = cores - AccessThreads
    BY <1>1, <2>1, SmallRemainder
  <2> QED BY <1>2, <2>2, <2>3 DEF n_threads
<1>3. ASSUME strategy = "parallel", cores < AccessThreads
      PROVE  n_threads = cores + Unsigned - AccessThreads
  <2>1. cores + Unsigned - AccessThreads \in 0..(Unsigned - 1)
    BY <1>1, <1>3
  <2>2. 0 * Unsigned = 0
    BY <1>1
  <2>3. cores + Unsigned - AccessThreads = (cores + Unsigned - AccessThreads) + 0 * Unsigned
    BY <1>1, <2>2
  <2>4. ((cores + Unsigned - AccessThreads) + 0 * Unsigned) % Unsigned = cores + Unsigned - AccessThreads
    BY <1>1, <2>1, SmallRemainder
  <2> QED BY <1>3, <2>3, <2>4 DEF n_threads
<1>4. strategy # "parallel" => n_threads = cores
  BY DEF n_threads
<1>5. n_threads \in Nat
  BY <1>1, <1>2, <1>3, <1>4
<1>6. Stride \in Nat
  BY <1>1, <1>5, Divided DEF Stride
<1>7. EnoughCores => n_threads \in 1..MaxCores /\ n_threads <= cores /\ n_threads < Byte
  BY <1>1, <1>2, <1>4 DEF EnoughCores
<1>8. n_threads < Byte => Stride = n_threads
  <2>1. 0 * Byte = 0
    BY <1>1
  <2>2. n_threads < Byte => n_threads = n_threads + 0 * Byte /\ n_threads \in 0..(Byte - 1)
    BY <1>1, <1>5, <2>1
  <2>3. n_threads < Byte => (n_threads + 0 * Byte) % Byte = n_threads
    BY <1>1, <2>2, SmallRemainder
  <2> QED BY <2>2, <2>3 DEF Stride
<1>9. strategy = "parallel" /\ cores = AccessThreads => n_threads = 0
  BY <1>1, <1>2
<1>10. strategy = "parallel" /\ cores < AccessThreads => n_threads >= Byte
  BY <1>1, <1>3
<1> QED BY <1>5, <1>6, <1>7, <1>8, <1>9, <1>10

----------------------------------------------------------------------------
(* The ranges *)

LEMMA Same == [Next]_vars => UNCHANGED <<strategy, cores, count, stored, n_threads, Stride>>
                             /\ (EnoughCores' <=> EnoughCores) /\ (Sound' <=> Sound)
<1> SUFFICES ASSUME [Next]_vars
             PROVE  UNCHANGED <<strategy, cores, count, stored, n_threads, Stride>>
                    /\ (EnoughCores' <=> EnoughCores) /\ (Sound' <=> Sound)
  OBVIOUS
<1>1. UNCHANGED <<strategy, cores, count, stored>>
  BY DEF Next, Handler, Spawn, SpawnFail, Spawned, JoinRsa, JoinAccess, JoinPost, Job, Derive,
         DeriveAndLookUp, DeriveFail, Work, Take, Sleep, End, AccessAndPush, AccessAndQueue, Post, Done,
         vars, request
<1>2. UNCHANGED <<n_threads, Stride>>
  BY <1>1 DEF n_threads, Stride
<1>3. (EnoughCores' <=> EnoughCores) /\ (Sound' <=> Sound)
  BY <1>1 DEF EnoughCores, Sound
<1> QED BY <1>1, <1>2, <1>3

\* A worker is of a pool, and of one.
LEMMA OfPool == \A x \in Workers : x[1] \in Pools /\ (x[1] = "access" <=> x[1] # "post")
BY DEF Workers, Pools

\* Whom notify_one wakes was asleep.
LEMMA Woken ==
  ASSUME NEW p, NEW woken \in Notified(p)
  PROVE  \A x \in woken : x \in Workers /\ x[1] = p /\ worker[x] = Asleep
BY DEF Notified

LEMMA InitTypes == Init => TypeOK
<1> SUFFICES ASSUME Init
             PROVE  TypeOK
  OBVIOUS
<1>1. <<>> \in Seq(Nat) /\ Len(<<>>) <= MaxSpawned /\ <<>> \in Seq(0..(count - 1))
  BY BoundsAssumption
<1> QED BY <1>1 DEF Init, TypeOK

LEMMA SoundThreads ==
  ASSUME TypeOK, Sound
  PROVE  /\ n_threads \in Nat /\ Stride = n_threads /\ n_threads <= MaxSpawned /\ n_threads < Byte
         /\ Len(rsa) \in Nat
         /\ Len(rsa) <= n_threads => t = Len(rsa)
<1>1. /\ n_threads \in Nat /\ n_threads < Byte /\ Stride = n_threads /\ n_threads <= MaxSpawned
      /\ Byte \in Nat \ {0}
  <2>1. Byte \in Nat \ {0} /\ MaxSpawned \in Nat /\ MaxCores \in Nat /\ MaxCores <= MaxSpawned
    BY BoundsAssumption
  <2>2. CASE EnoughCores
    BY <2>1, <2>2, Threads
  <2>3. CASE ~EnoughCores
    <3>1. n_threads = 0
      BY <2>3, Threads DEF Sound, EnoughCores
    <3>2. 0 = 0 + 0 * Byte /\ (0 + 0 * Byte) % Byte = 0
      BY <2>1, SmallRemainder
    <3> QED BY <2>1, <3>1, <3>2 DEF Stride
  <2> QED BY <2>2, <2>3
<1>2. Len(rsa) \in Nat
  BY DEF TypeOK
<1>3. Len(rsa) <= n_threads => t = Len(rsa)
  <2>1. 0 * Byte = 0
    BY <1>1
  <2>2. Len(rsa) <= n_threads => Len(rsa) = Len(rsa) + 0 * Byte /\ Len(rsa) \in 0..(Byte - 1)
    BY <1>1, <1>2, <2>1
  <2>3. Len(rsa) <= n_threads => (Len(rsa) + 0 * Byte) % Byte = Len(rsa)
    BY <1>1, <2>2, SmallRemainder
  <2> QED BY <2>2, <2>3 DEF t
<1> QED BY <1>1, <1>2, <1>3

\* Only a search whose n_threads has wrapped asks for a power beyond the pool.
LEMMA FailFacts ==
  ASSUME TypeOK, SpawnInv, NEW k \in 1..Len(rsa), DeriveFail(k)
  PROVE  /\ strategy = "parallel" /\ cores < AccessThreads
         /\ main = "spawn" /\ main' = "dead" /\ UNCHANGED <<request, rsa, pools, answer>>
<1>0. /\ cores \in Nat /\ AccessThreads \in Nat \ {0} /\ Len(rsa) \in Nat
      /\ main \notin {"returned", "dead"} /\ main' = "dead" /\ UNCHANGED <<request, rsa, pools, answer>>
  BY BoundsAssumption DEF TypeOK, DeriveFail, Alive
<1>1. ASSUME Sound
      PROVE  FALSE
  <2>1. /\ n_threads \in Nat /\ Stride = n_threads /\ Len(rsa) <= n_threads /\ n_threads < Byte
        /\ Byte \in Nat \ {0}
    BY <1>1, SoundThreads, BoundsAssumption DEF SpawnInv, Sound
  <2>2. n_threads <= cores
    BY <1>0, <1>1, Threads DEF Sound, EnoughCores
  <2>3. First(k) = k - 1
    <3>1. k - 1 \in 0..(Byte - 1) /\ 0 * Byte = 0
      BY <1>0, <2>1
    <3>2. k - 1 = (k - 1) + 0 * Byte
      BY <1>0, <3>1
    <3>3. ((k - 1) + 0 * Byte) % Byte = k - 1
      BY <2>1, <3>1, SmallRemainder
    <3> QED BY <3>2, <3>3 DEF First
  <2>4. Order(k) \in Nat /\ Order(k) <= cores
    <3>1. k - 1 \in Nat /\ k - 1 <= cores /\ n_threads <= cores
      BY <1>0, <2>1, <2>2
    <3> QED BY <2>1, <2>3, <3>1 DEF Order
  <2>5. maximum_order \in Nat /\ cores <= maximum_order
    BY <1>0 DEF maximum_order
  <2>6. Order(k) > maximum_order
    BY DEF DeriveFail
  <2> QED BY <1>0, <2>4, <2>5, <2>6
<1>2. strategy = "parallel" /\ cores < AccessThreads
  BY <1>0, <1>1 DEF Sound, EnoughCores
<1> QED BY <1>0, <1>2 DEF SpawnInv

LEMMA StepTypes == TypeOK /\ [Next]_vars => TypeOK'
<1> SUFFICES ASSUME TypeOK, [Next]_vars
             PROVE  TypeOK'
  OBVIOUS
<1>0. UNCHANGED <<strategy, cores, count, stored>> /\ count \in Nat
  BY Same, BoundsAssumption DEF TypeOK
<1>1. CASE Spawn
  <2>1. t \in Nat
    <3>1. Len(rsa) \in Nat /\ Byte \in Nat \ {0}
      BY BoundsAssumption DEF TypeOK
    <3> QED BY <3>1, Divided DEF t
  <2>2. rsa' \in Seq(Nat) /\ Len(rsa') = Len(rsa) + 1
    BY <1>1, <2>1 DEF Spawn, TypeOK
  <2>3. Len(rsa') <= MaxSpawned
    BY <1>1, <2>2, BoundsAssumption DEF Spawn, TypeOK
  <2> QED BY <1>0, <1>1, <2>2, <2>3 DEF Spawn, TypeOK, pools, answer
<1>2. CASE SpawnFail \/ Spawned \/ JoinPost
  BY <1>0, <1>2 DEF SpawnFail, Spawned, JoinPost, TypeOK, pools, answer
<1>3. CASE JoinRsa \/ JoinAccess
  <2>1. stop' \in [Pools -> BOOLEAN] /\ queue' = queue
    BY <1>3 DEF JoinRsa, JoinAccess, Stop, pools, TypeOK
  <2>2. worker' \in [Workers -> {Ready, Asleep, Ended} \cup 0..(count - 1)]
    BY <1>3 DEF JoinRsa, JoinAccess, Stop, pools, TypeOK
  <2>3. main' \in {"drain_access", "drain_post", "returned"} /\ UNCHANGED <<rsa, listed, junk>>
    BY <1>3 DEF JoinRsa, JoinAccess, answer
  <2> QED BY <1>0, <2>1, <2>2, <2>3 DEF TypeOK
<1>4. ASSUME NEW k \in 1..Len(rsa), Derive(k)
      PROVE  TypeOK'
  <2>1. rsa[k] \in 0..(count - 1) /\ rsa[k] + Stride \in Nat
    BY <1>0, <1>4, Threads DEF Derive, TypeOK
  <2>2. rsa' \in Seq(Nat) /\ Len(rsa') = Len(rsa)
    BY <1>4, <2>1 DEF Derive, TypeOK
  <2>3. queue' \in [Pools -> Seq(0..(count - 1))]
    <3>1. Append(queue["access"], rsa[k]) \in Seq(0..(count - 1))
      BY <2>1 DEF TypeOK, Pools
    <3> QED BY <1>4, <3>1 DEF Derive, TypeOK
  <2>4. worker' \in [Workers -> {Ready, Asleep, Ended} \cup 0..(count - 1)]
    BY <1>4 DEF Derive, TypeOK
  <2> QED BY <1>0, <1>4, <2>2, <2>3, <2>4 DEF Derive, TypeOK, answer
<1>5. ASSUME NEW k \in 1..Len(rsa), DeriveAndLookUp(k)
      PROVE  TypeOK'
  <2>1. rsa[k] + Stride \in Nat
    BY Threads DEF TypeOK
  <2>2. rsa' \in Seq(Nat) /\ Len(rsa') = Len(rsa)
    BY <1>5, <2>1 DEF DeriveAndLookUp, TypeOK
  <2>3. listed' \in [Tokens -> Nat]
    <3>1. listed' = listed \/ listed' = [listed EXCEPT ![rsa[k]] = @ + 1]
      BY <1>5 DEF DeriveAndLookUp
    <3>2. \A d \in Tokens : listed[d] + 1 \in Nat
      BY DEF TypeOK
    <3>3. rsa[k] \in Tokens
      BY <1>5, BoundsAssumption DEF DeriveAndLookUp, TypeOK, Tokens
    <3> QED BY <3>1, <3>2, <3>3 DEF TypeOK
  <2> QED BY <1>0, <1>5, <2>2, <2>3 DEF DeriveAndLookUp, TypeOK, pools
<1>6. ASSUME NEW x \in Workers, Take(x)
      PROVE  TypeOK'
  <2>1. x[1] \in Pools /\ queue[x[1]] \in Seq(0..(count - 1)) /\ queue[x[1]] # <<>>
    BY <1>6, OfPool DEF Take, TypeOK
  <2>2. Head(queue[x[1]]) \in 0..(count - 1) /\ Tail(queue[x[1]]) \in Seq(0..(count - 1))
    BY <2>1, TailElems
  <2> QED BY <1>0, <1>6, <2>1, <2>2 DEF Take, TypeOK, answer
<1>7. ASSUME NEW x \in Workers, Sleep(x) \/ End(x)
      PROVE  TypeOK'
  BY <1>0, <1>7 DEF Sleep, End, TypeOK, answer
<1>8. ASSUME NEW x \in Workers, AccessAndPush(x) \/ Post(x)
      PROVE  TypeOK'
  <2>1. listed' \in [Tokens -> Nat] /\ junk' \in Nat
    BY <1>8 DEF AccessAndPush, Post, TypeOK
  <2>2. worker' \in [Workers -> {Ready, Asleep, Ended} \cup 0..(count - 1)]
    BY <1>8 DEF AccessAndPush, Post, TypeOK
  <2> QED BY <1>0, <1>8, <2>1, <2>2 DEF AccessAndPush, Post, TypeOK
<1>9. ASSUME NEW x \in Workers, AccessAndQueue(x)
      PROVE  TypeOK'
  <2>1. worker[x] \in 0..(count - 1)
    BY <1>9, WorkerAssumption, BoundsAssumption DEF AccessAndQueue, TypeOK, Tokens
  <2>2. queue' = queue \/ queue' = [queue EXCEPT !["post"] = Append(@, worker[x])]
    BY <1>9 DEF AccessAndQueue
  <2>3. queue' \in [Pools -> Seq(0..(count - 1))]
    <3>1. Append(queue["post"], worker[x]) \in Seq(0..(count - 1))
      BY <2>1 DEF TypeOK, Pools
    <3> QED BY <2>2, <3>1 DEF TypeOK
  <2>4. worker' \in [Workers -> {Ready, Asleep, Ended} \cup 0..(count - 1)]
    <3>1. PICK woken : worker' = [y \in Workers |-> IF y = x \/ y \in woken THEN Ready ELSE worker[y]]
      BY <1>9 DEF AccessAndQueue
    <3> QED BY <3>1 DEF TypeOK
  <2> QED BY <1>0, <1>9, <2>3, <2>4 DEF AccessAndQueue, TypeOK, answer
<1>10. CASE Done \/ UNCHANGED vars
  BY <1>10 DEF Done, vars, request, pools, answer, TypeOK
<1>11. ASSUME NEW k \in 1..Len(rsa), DeriveFail(k)
       PROVE  TypeOK'
  BY <1>0, <1>11 DEF DeriveFail, TypeOK, pools, answer
<1> QED
  BY <1>1, <1>2, <1>3, <1>4, <1>5, <1>6, <1>7, <1>8, <1>9, <1>10, <1>11 DEF Next, Handler, Job, Work

----------------------------------------------------------------------------
(* The stages *)

\* What a step of each kind does to the pools.
LEMMA DeriveFacts ==
  ASSUME TypeOK, NEW k \in 1..Len(rsa), Derive(k)
  PROVE  /\ main \notin {"returned", "dead"} /\ main' = main /\ strategy # "light"
         /\ UNCHANGED <<strategy, count, stop, listed, junk, stored>>
         /\ rsa[k] \in 0..(count - 1)
         /\ queue'["access"] = Append(queue["access"], rsa[k]) /\ queue'["post"] = queue["post"]
         /\ \A x \in Workers : worker'[x] = worker[x] \/ (worker[x] = Asleep /\ worker'[x] = Ready)
         /\ Len(rsa') = Len(rsa) /\ rsa'[k] = rsa[k] + Stride
         /\ \A j \in 1..Len(rsa) : j # k => rsa'[j] = rsa[j]
<1>1. PICK woken \in Notified("access") :
        worker' = [x \in Workers |-> IF x \in woken THEN Ready ELSE worker[x]]
  BY DEF Derive
<1>2. \A x \in Workers : worker'[x] = worker[x] \/ (worker[x] = Asleep /\ worker'[x] = Ready)
  <2>1. \A x \in woken : worker[x] = Asleep
    BY <1>1, Woken
  <2>2. \A x \in Workers : worker'[x] = IF x \in woken THEN Ready ELSE worker[x]
    BY <1>1
  <2> QED BY <2>1, <2>2
<1>3. queue'["access"] = Append(queue["access"], rsa[k]) /\ queue'["post"] = queue["post"]
  BY DEF Derive, TypeOK, Pools
<1>4. Len(rsa') = Len(rsa) /\ rsa'[k] = rsa[k] + Stride /\ \A j \in 1..Len(rsa) : j # k => rsa'[j] = rsa[j]
  BY DEF Derive, TypeOK
<1>5. rsa[k] \in 0..(count - 1)
  BY BoundsAssumption DEF Derive, TypeOK
<1> QED BY <1>2, <1>3, <1>4, <1>5 DEF Derive, Alive, answer, request

LEMMA LookUpFacts ==
  ASSUME TypeOK, NEW k \in 1..Len(rsa), DeriveAndLookUp(k)
  PROVE  /\ main \notin {"returned", "dead"} /\ main' = main /\ strategy = "light"
         /\ UNCHANGED <<strategy, count, stop, queue, worker, junk, stored>>
         /\ rsa[k] \in 0..(count - 1)
         /\ listed' = IF rsa[k] \in stored THEN [listed EXCEPT ![rsa[k]] = @ + 1] ELSE listed
         /\ Len(rsa') = Len(rsa) /\ rsa'[k] = rsa[k] + Stride
         /\ \A j \in 1..Len(rsa) : j # k => rsa'[j] = rsa[j]
<1>1. rsa \in Seq(Nat) /\ rsa' = [rsa EXCEPT ![k] = @ + Stride]
  BY DEF DeriveAndLookUp, TypeOK
<1>2. Len(rsa') = Len(rsa) /\ rsa'[k] = rsa[k] + Stride /\ \A j \in 1..Len(rsa) : j # k => rsa'[j] = rsa[j]
  BY <1>1
<1>3. rsa[k] \in 0..(count - 1)
  BY BoundsAssumption DEF DeriveAndLookUp, TypeOK
<1> QED BY <1>2, <1>3 DEF DeriveAndLookUp, Alive, pools, request

LEMMA TakeFacts ==
  ASSUME TypeOK, NEW x \in Workers, Take(x)
  PROVE  /\ UNCHANGED <<strategy, count, stored, main, rsa, stop, listed, junk>>
         /\ worker[x] = Ready /\ queue[x[1]] # <<>>
         /\ worker'[x] = Head(queue[x[1]]) /\ \A y \in Workers : y # x => worker'[y] = worker[y]
         /\ queue'[x[1]] = Tail(queue[x[1]]) /\ \A p \in Pools : p # x[1] => queue'[p] = queue[p]
         /\ Head(queue[x[1]]) \in 0..(count - 1)
<1>1. x[1] \in Pools
  BY OfPool
<1>2. Head(queue[x[1]]) \in 0..(count - 1)
  BY <1>1, TailElems DEF Take, TypeOK
<1> QED BY <1>1, <1>2 DEF Take, TypeOK, request, answer

LEMMA AccessFacts ==
  ASSUME TypeOK, NEW x \in Workers, AccessAndPush(x) \/ AccessAndQueue(x) \/ Post(x)
  PROVE  /\ UNCHANGED <<strategy, count, stored, main, rsa, stop>>
         /\ main \notin {"returned", "dead"}
         /\ worker[x] \in 0..(count - 1) /\ worker'[x] = Ready
         /\ \A y \in Workers : y # x => worker'[y] = worker[y] \/ (worker[y] = Asleep /\ worker'[y] = Ready)
         /\ queue'["access"] = queue["access"]
         /\ \/ queue'["post"] = queue["post"]
            \/ /\ AccessAndQueue(x) /\ worker[x] \in stored /\ ~stop["post"]
               /\ queue'["post"] = Append(queue["post"], worker[x])
<1>1. worker[x] \in 0..(count - 1)
  BY WorkerAssumption, BoundsAssumption DEF AccessAndPush, AccessAndQueue, Post, TypeOK, Tokens
<1>2. CASE AccessAndPush(x) \/ Post(x)
  <2>1. worker' = [worker EXCEPT ![x] = Ready] /\ queue' = queue
        /\ UNCHANGED <<strategy, count, stored, main, rsa, stop>> /\ main \notin {"returned", "dead"}
    BY <1>2 DEF AccessAndPush, Post, request, Alive
  <2>2. worker'[x] = Ready /\ \A y \in Workers : y # x => worker'[y] = worker[y]
    BY <2>1 DEF TypeOK
  <2> QED BY <1>1, <2>1, <2>2
<1>3. CASE AccessAndQueue(x)
  <2> DEFINE pass == worker[x] \in stored /\ ~stop["post"]
  <2>1. PICK woken \in IF pass THEN Notified("post") ELSE {{}} :
          worker' = [y \in Workers |-> IF y = x \/ y \in woken THEN Ready ELSE worker[y]]
    BY <1>3 DEF AccessAndQueue
  <2>2. \A y \in woken : worker[y] = Asleep
    BY <2>1, Woken
  <2>3. worker'[x] = Ready
        /\ \A y \in Workers : y # x => worker'[y] = worker[y] \/ (worker[y] = Asleep /\ worker'[y] = Ready)
    <3>1. \A y \in Workers : worker'[y] = IF y = x \/ y \in woken THEN Ready ELSE worker[y]
      BY <2>1
    <3> QED BY <2>2, <3>1
  <2>4. queue' = IF pass THEN [queue EXCEPT !["post"] = Append(@, worker[x])] ELSE queue
    BY <1>3 DEF AccessAndQueue
  <2>5. /\ queue'["access"] = queue["access"]
        /\ queue'["post"] = IF pass THEN Append(queue["post"], worker[x]) ELSE queue["post"]
    BY <2>4 DEF TypeOK, Pools
  <2> QED BY <1>1, <1>3, <2>3, <2>5 DEF AccessAndQueue, request, answer, Alive
<1> QED BY <1>2, <1>3

LEMMA JoinFacts ==
  ASSUME TypeOK, JoinRsa \/ JoinAccess
  PROVE  /\ UNCHANGED <<strategy, count, stored, rsa, queue, listed, junk>>
         /\ \A x \in Workers : worker'[x] = worker[x] \/ (worker[x] = Asleep /\ worker'[x] = Ready)
         /\ \A p \in Pools : stop[p] => stop'[p]
<1>1. UNCHANGED <<strategy, count, stored, rsa, queue, listed, junk>>
  BY DEF JoinRsa, JoinAccess, request, answer, pools
<1>2. UNCHANGED <<stop, worker>> \/ Stop("access") \/ Stop("post")
  BY DEF JoinRsa, JoinAccess, pools
<1>3. ASSUME NEW p, Stop(p)
      PROVE  /\ \A x \in Workers : worker'[x] = worker[x] \/ (worker[x] = Asleep /\ worker'[x] = Ready)
             /\ \A q \in Pools : stop[q] => stop'[q]
  BY <1>3 DEF Stop, TypeOK
<1> QED BY <1>1, <1>2, <1>3

LEMMA InitStages == Init => StagesInv /\ IdleInv
BY WorkerAssumption, OfPool DEF Init, StagesInv, IdleInv, Idle, Pools

LEMMA StepStages == TypeOK /\ StagesInv /\ IdleInv /\ SpawnInv /\ [Next]_vars => StagesInv'
<1> SUFFICES ASSUME TypeOK, StagesInv, IdleInv, SpawnInv, [Next]_vars
             PROVE  StagesInv'
  OBVIOUS
<1>a. /\ Ready # Ended /\ Asleep # Ended /\ Ended \notin Nat /\ Ready \notin Nat /\ Asleep \notin Nat
      /\ 0..(count - 1) \subseteq Nat
  BY WorkerAssumption, BoundsAssumption DEF TypeOK
<1>1. CASE Spawn \/ SpawnFail \/ Spawned
  <2>1. UNCHANGED <<strategy, count, queue, stop, worker>> /\ main = "spawn" /\ main' \in {"spawn", "dead", "join"}
    BY <1>1 DEF Spawn, SpawnFail, Spawned, request, pools
  <2> QED BY <2>1 DEF StagesInv, Joined
<1>2. CASE JoinRsa
  <2>1. /\ main = "join" /\ \A k \in 1..Len(rsa) : rsa[k] >= count
        /\ UNCHANGED <<strategy, count, rsa, queue>>
    BY <1>2, JoinFacts DEF JoinRsa
  <2>2. ~stop["access"] /\ ~stop["post"]
    BY <2>1 DEF StagesInv
  <2>3. IF strategy = "light" THEN main' = "returned" /\ UNCHANGED <<stop, worker>>
        ELSE main' = "drain_access" /\ stop'["access"] /\ ~stop'["post"]
    BY <1>2, <2>2 DEF JoinRsa, Stop, pools, TypeOK, Pools
  <2>4. \A x \in Workers : worker[x] # Ended /\ worker'[x] # Ended
    BY <1>2, <1>a, <2>2, JoinFacts, OfPool DEF StagesInv, Pools
  <2> QED BY <2>1, <2>2, <2>3, <2>4 DEF StagesInv
<1>3. CASE JoinAccess
  <2>1. /\ main = "drain_access" /\ Joined("access") /\ UNCHANGED <<strategy, count, rsa, queue>>
    BY <1>3, JoinFacts DEF JoinAccess
  <2>2. stop["access"] /\ ~stop["post"] /\ strategy # "light"
    BY <2>1 DEF StagesInv
  <2>3. stop'["access"] /\ IF strategy = "parallel" THEN main' = "returned" /\ ~stop'["post"]
                           ELSE main' = "drain_post" /\ stop'["post"]
    BY <1>3, <2>2 DEF JoinAccess, Stop, pools, TypeOK, Pools
  <2>4. \A x \in Workers : (worker[x] = Ended => worker'[x] = Ended) /\ (worker'[x] = Ended => worker[x] = Ended)
    BY <1>3, <1>a, JoinFacts
  <2>5. Joined("access")'
    BY <2>1, <2>4 DEF Joined
  <2>6. strategy \in {"parallel", "callback"}
    BY <2>2 DEF TypeOK
  <2>7. \A p \in Pools : stop[p] => stop'[p]
    BY <1>3, JoinFacts
  <2> QED BY <2>1, <2>2, <2>3, <2>4, <2>5, <2>6, <2>7, OfPool DEF StagesInv
<1>4. CASE JoinPost
  <2>1. main = "drain_post" /\ main' = "returned" /\ Joined("post")
        /\ UNCHANGED <<strategy, count, rsa, queue, stop, worker>>
    BY <1>4 DEF JoinPost, request, pools
  <2> QED BY <2>1 DEF StagesInv, Joined
<1>5. ASSUME NEW k \in 1..Len(rsa), Derive(k)
      PROVE  StagesInv'
  <2>1. rsa[k] < count /\ main \notin {"drain_access", "drain_post", "returned", "dead"}
    <3>1. rsa[k] \in 0..(count - 1) /\ main \notin {"returned", "dead"} /\ count \in Nat
      BY <1>5, DeriveFacts, BoundsAssumption DEF TypeOK
    <3> QED BY <3>1 DEF StagesInv
  <2>2. ~stop["access"] /\ ~stop["post"]
    BY <2>1 DEF StagesInv
  <2>3. \A x \in Workers : worker'[x] # Ended
    BY <1>5, <1>a, <2>2, DeriveFacts, OfPool DEF StagesInv, Pools
  <2>4. main' = main /\ UNCHANGED <<strategy, stop>>
    BY <1>5, DeriveFacts
  <2> QED BY <2>1, <2>2, <2>3, <2>4 DEF StagesInv
<1>6. ASSUME NEW k \in 1..Len(rsa), DeriveAndLookUp(k)
      PROVE  StagesInv'
  <2>1. rsa[k] < count /\ main \notin {"drain_access", "drain_post", "returned", "dead"}
    <3>1. rsa[k] \in Nat /\ rsa[k] < count /\ main \notin {"returned", "dead"} /\ count \in Nat
      BY <1>6, BoundsAssumption DEF DeriveAndLookUp, Alive, TypeOK
    <3> QED BY <3>1 DEF StagesInv
  <2>2. UNCHANGED <<strategy, count, main, queue, stop, worker>>
    BY <1>6 DEF DeriveAndLookUp, request, pools
  <2> QED BY <2>1, <2>2 DEF StagesInv, Joined
<1>7. ASSUME NEW x \in Workers, Take(x)
      PROVE  StagesInv'
  <2>1. \A y \in Workers : worker'[y] = Ended => y # x /\ worker[y] = Ended
    BY <1>7, <1>a, TakeFacts
  <2>2. \A y \in Workers : worker[y] = Ended => worker'[y] = Ended
    BY <1>7, <1>a, TakeFacts
  <2>3. \A y \in Workers : worker'[y] = Ended => queue'[y[1]] = <<>>
    <3>1. \A y \in Workers : worker'[y] = Ended => queue[y[1]] = <<>> /\ y[1] # x[1]
      BY <1>7, <2>1, TakeFacts DEF StagesInv
    <3> QED BY <1>7, <3>1, TakeFacts, OfPool
  <2>4. UNCHANGED <<strategy, count, main, rsa, stop>>
    BY <1>7, TakeFacts
  <2> QED BY <2>1, <2>2, <2>3, <2>4 DEF StagesInv, Joined
<1>8. ASSUME NEW x \in Workers, Sleep(x) \/ End(x)
      PROVE  StagesInv'
  <2>1. UNCHANGED <<strategy, count, main, rsa, queue, stop>> /\ worker[x] = Ready /\ queue[x[1]] = <<>>
    BY <1>8 DEF Sleep, End, request
  <2>2. \A y \in Workers : worker[y] = Ended => worker'[y] = Ended
    BY <1>8, <1>a DEF Sleep, End, TypeOK
  <2>3. \A y \in Workers : worker'[y] = Ended => worker[y] = Ended \/ (y = x /\ stop[x[1]])
    BY <1>8, <1>a DEF Sleep, End, TypeOK
  <2> QED BY <2>1, <2>2, <2>3 DEF StagesInv, Joined
<1>9. ASSUME NEW x \in Workers, AccessAndPush(x) \/ AccessAndQueue(x) \/ Post(x)
      PROVE  StagesInv'
  <2>1. UNCHANGED <<strategy, count, main, rsa, stop>>
    BY <1>9, AccessFacts
  <2>2. \A y \in Workers : (worker[y] = Ended => worker'[y] = Ended) /\ (worker'[y] = Ended => worker[y] = Ended)
    BY <1>9, <1>a, AccessFacts
  <2>3. \A y \in Workers : worker[y] = Ended => queue'[y[1]] = <<>>
    <3>1. \A y \in Workers : worker[y] = Ended => stop[y[1]] /\ queue[y[1]] = <<>>
      BY DEF StagesInv
    <3> QED BY <1>9, <3>1, AccessFacts, OfPool DEF Pools
  <2> QED BY <2>1, <2>2, <2>3 DEF StagesInv, Joined
<1>10. CASE Done \/ UNCHANGED vars
  BY <1>10 DEF Done, vars, request, pools, StagesInv, Joined
<1>11. ASSUME NEW k \in 1..Len(rsa), DeriveFail(k)
       PROVE  StagesInv'
  <2>1. main = "spawn" /\ main' = "dead" /\ UNCHANGED <<strategy, count, rsa, queue, stop, worker>>
    BY <1>11, FailFacts DEF request, pools
  <2> QED BY <2>1 DEF StagesInv, Joined
<1> QED
  BY <1>1, <1>2, <1>3, <1>4, <1>5, <1>6, <1>7, <1>8, <1>9, <1>10, <1>11 DEF Next, Handler, Job, Work

LEMMA StepIdle == TypeOK /\ IdleInv /\ [Next]_vars => IdleInv'
<1> SUFFICES ASSUME TypeOK, IdleInv, [Next]_vars
             PROVE  IdleInv'
  OBVIOUS
<1>0. strategy' = strategy
  BY Same
<1>a. Ended \notin Nat /\ Ready \notin Nat /\ Asleep \notin Nat /\ 0..(count - 1) \subseteq Nat
  BY WorkerAssumption, BoundsAssumption DEF TypeOK
<1>1. ASSUME queue' = queue, \A x \in Workers : worker'[x] \in Nat => worker'[x] = worker[x]
      PROVE  IdleInv'
  BY <1>0, <1>1 DEF IdleInv, Idle
<1>2. CASE Spawn \/ SpawnFail \/ Spawned \/ JoinPost \/ Done \/ UNCHANGED vars
           \/ \E k \in 1..Len(rsa) : DeriveAndLookUp(k) \/ DeriveFail(k)
  BY <1>1, <1>2 DEF Spawn, SpawnFail, Spawned, JoinPost, Done, vars, pools, DeriveAndLookUp, DeriveFail
<1>3. CASE JoinRsa \/ JoinAccess
  BY <1>1, <1>3, <1>a, JoinFacts
<1>4. ASSUME NEW k \in 1..Len(rsa), Derive(k)
      PROVE  IdleInv'
  <2>1. strategy # "light" /\ queue'["post"] = queue["post"]
        /\ \A x \in Workers : worker'[x] \in Nat => worker'[x] = worker[x]
    BY <1>4, <1>a, DeriveFacts
  <2> QED BY <1>0, <2>1 DEF IdleInv, Idle
<1>5. ASSUME NEW x \in Workers, Take(x)
      PROVE  IdleInv'
  <2>1. \A p \in Pools : Idle(p) => Idle(p)'
    <3> SUFFICES ASSUME NEW p \in Pools, Idle(p)
                 PROVE  Idle(p)'
      OBVIOUS
    <3>1. x[1] # p
      BY <1>5, TakeFacts DEF Idle
    <3> QED BY <1>5, <3>1, TakeFacts DEF Idle
  <2> QED BY <1>0, <2>1 DEF IdleInv, Pools
<1>6. ASSUME NEW x \in Workers, Sleep(x) \/ End(x)
      PROVE  IdleInv'
  BY <1>1, <1>6, <1>a DEF Sleep, End, TypeOK
<1>7. ASSUME NEW x \in Workers, AccessAndPush(x) \/ AccessAndQueue(x) \/ Post(x)
      PROVE  IdleInv'
  <2>1. \A y \in Workers : worker'[y] \in Nat => worker'[y] = worker[y]
    BY <1>7, <1>a, AccessFacts
  <2>2. queue'["access"] = queue["access"]
    BY <1>7, AccessFacts
  <2>3. strategy # "callback" => queue'["post"] = queue["post"]
    BY <1>7, AccessFacts DEF AccessAndQueue
  <2> QED BY <1>0, <2>1, <2>2, <2>3 DEF IdleInv, Idle
<1> QED BY <1>2, <1>3, <1>4, <1>5, <1>6, <1>7 DEF Next, Handler, Job, Work

----------------------------------------------------------------------------
(* The derive threads *)

LEMMA InitSpawn == Init => SpawnInv
<1> SUFFICES ASSUME Init
             PROVE  SpawnInv
  OBVIOUS
<1>1. main = "spawn" /\ rsa = <<>> /\ Len(rsa) = 0
  BY DEF Init
<1>2. n_threads \in Nat
  BY InitTypes, Threads
<1> QED BY <1>1, <1>2 DEF SpawnInv

LEMMA StepSpawn == TypeOK /\ SpawnInv /\ [Next]_vars => SpawnInv'
<1> SUFFICES ASSUME TypeOK, SpawnInv, [Next]_vars
             PROVE  SpawnInv'
  OBVIOUS
<1>0. /\ UNCHANGED <<strategy, cores, n_threads, Stride>>
      /\ (EnoughCores \/ cores = AccessThreads)' <=> Sound
      /\ \A k, i : Mine(k, i)' <=> Mine(k, i)
  <2>1. UNCHANGED <<strategy, cores, n_threads, Stride>>
    BY Same
  <2> QED BY <2>1 DEF Mine, Sound, EnoughCores
<1>1. strategy = "parallel" /\ cores < AccessThreads => main' \in {"spawn", "dead"}
  <2> SUFFICES ASSUME strategy = "parallel", cores < AccessThreads
               PROVE  main' \in {"spawn", "dead"}
    OBVIOUS
  <2>1. main \in {"spawn", "dead"}
    BY DEF SpawnInv
  <2>2. t < n_threads
    <3>1. Len(rsa) \in Nat /\ Byte \in Nat \ {0}
      BY BoundsAssumption DEF TypeOK
    <3>2. t \in 0..(Byte - 1)
      BY <3>1, Divided DEF t
    <3> QED BY <3>1, <3>2, Threads
  <2>3. ~Spawned
    <3>1. t \in Nat /\ n_threads \in Nat
      <4>1. Len(rsa) \in Nat /\ Byte \in Nat \ {0}
        BY BoundsAssumption DEF TypeOK
      <4> QED BY <4>1, Divided, Threads DEF t
    <3> QED BY <2>2, <3>1 DEF Spawned
  <2> QED
    BY <2>1, <2>3 DEF Next, Handler, Spawn, SpawnFail, JoinRsa, JoinAccess, JoinPost, Job, Derive,
         DeriveAndLookUp, DeriveFail, Work, Take, Sleep, End, AccessAndPush, AccessAndQueue, Post, Done, vars
<1>2. ASSUME Sound
      PROVE  /\ main' # "dead"
             /\ Len(rsa') <= n_threads
             /\ main' # "spawn" => Len(rsa') = n_threads
             /\ \A k \in 1..Len(rsa') : Mine(k, rsa'[k])
  <2>1. /\ main # "dead" /\ Len(rsa) <= n_threads
        /\ main # "spawn" => Len(rsa) = n_threads
        /\ \A k \in 1..Len(rsa) : Mine(k, rsa[k])
    BY <1>2 DEF SpawnInv, Sound
  <2>2. /\ n_threads \in Nat /\ Stride = n_threads /\ n_threads <= MaxSpawned
        /\ Len(rsa) \in Nat /\ t = Len(rsa) /\ MaxSpawned \in Nat
    BY <1>2, <2>1, SoundThreads, BoundsAssumption
  <2>3. CASE Spawn
    <3>1. /\ main = "spawn" /\ main' = "spawn" /\ Len(rsa) < n_threads /\ rsa' = Append(rsa, Len(rsa))
      BY <2>2, <2>3 DEF Spawn
    <3>2. Len(rsa') = Len(rsa) + 1 /\ rsa'[Len(rsa) + 1] = Len(rsa)
          /\ \A k \in 1..Len(rsa) : rsa'[k] = rsa[k]
      BY <2>2, <3>1 DEF TypeOK
    <3>3. Mine(Len(rsa) + 1, Len(rsa))
      <4>1. Len(rsa) = (Len(rsa) + 1 - 1) + 0 * n_threads
        BY <2>2
      <4> QED BY <4>1 DEF Mine
    <3>4. \A k \in 1..Len(rsa') : k \in 1..Len(rsa) \/ k = Len(rsa) + 1
      BY <2>2, <3>2
    <3> QED BY <2>1, <2>2, <3>1, <3>2, <3>3, <3>4
  <2>4. CASE SpawnFail
    BY <2>2, <2>4 DEF SpawnFail
  <2>5. CASE Spawned
    BY <2>1, <2>2, <2>5 DEF Spawned
  <2>6. ASSUME NEW k \in 1..Len(rsa), Derive(k) \/ DeriveAndLookUp(k)
        PROVE  /\ main' # "dead"
               /\ Len(rsa') <= n_threads
               /\ main' # "spawn" => Len(rsa') = n_threads
               /\ \A j \in 1..Len(rsa') : Mine(j, rsa'[j])
    <3>1. main' = main /\ Len(rsa') = Len(rsa) /\ rsa'[k] = rsa[k] + n_threads
          /\ \A j \in 1..Len(rsa) : j # k => rsa'[j] = rsa[j]
      BY <2>2, <2>6, DeriveFacts, LookUpFacts
    <3>2. Mine(k, rsa[k] + n_threads)
      <4>1. PICK m \in Nat : rsa[k] = (k - 1) + m * n_threads
        BY <2>1 DEF Mine
      <4>2. (m + 1) * n_threads = m * n_threads + n_threads /\ m * n_threads \in Nat
        BY <2>2, Times
      <4>3. rsa[k] + n_threads = (k - 1) + (m + 1) * n_threads
        BY <2>2, <4>1, <4>2
      <4> QED BY <4>3 DEF Mine
    <3> QED BY <2>1, <3>1, <3>2
  <2>7. CASE JoinRsa \/ JoinAccess \/ JoinPost
    BY <2>1, <2>7 DEF JoinRsa, JoinAccess, JoinPost
  <2>8. CASE (\E x \in Workers : Work(x)) \/ Done \/ UNCHANGED vars
    BY <2>1, <2>8 DEF Work, Take, Sleep, End, AccessAndPush, AccessAndQueue, Post, Done, vars
  <2>9. ASSUME NEW k \in 1..Len(rsa), DeriveFail(k)
        PROVE  FALSE
    <3>1. strategy = "parallel" /\ cores < AccessThreads /\ cores \in Nat /\ AccessThreads \in Nat
      BY <2>9, FailFacts, BoundsAssumption DEF TypeOK
    <3> QED BY <1>2, <3>1 DEF Sound, EnoughCores
  <2> QED BY <2>3, <2>4, <2>5, <2>6, <2>7, <2>8, <2>9 DEF Next, Handler, Job
<1> QED BY <1>0, <1>1, <1>2 DEF SpawnInv, Mine

\* A token is of one thread.
LEMMA OneThread ==
  ASSUME TypeOK, SpawnInv, Sound, NEW j \in 1..Len(rsa), NEW k \in 1..Len(rsa), NEW i,
         Mine(j, i), Mine(k, i)
  PROVE  j = k
<1>1. n_threads \in Nat /\ Len(rsa) \in Nat /\ Len(rsa) <= n_threads
  BY SoundThreads DEF SpawnInv, Sound
<1>2. n_threads \in Nat \ {0} /\ j - 1 \in 0..(n_threads - 1) /\ k - 1 \in 0..(n_threads - 1)
  BY <1>1
<1>3. PICK a \in Nat : i = (j - 1) + a * n_threads
  BY DEF Mine
<1>4. PICK b \in Nat : i = (k - 1) + b * n_threads
  BY DEF Mine
<1>5. j - 1 = k - 1
  BY <1>2, <1>3, <1>4, Remainder
<1> QED BY <1>1, <1>5

\* Every token is of some thread.
LEMMA SomeThread ==
  ASSUME NEW n \in Nat \ {0}, n_threads = n, NEW i \in Nat
  PROVE  \E k \in 1..n : Mine(k, i)
<1>1. PICK m \in Nat : i % n \in 0..(n - 1) /\ i = (i % n) + m * n
  BY Divided
<1>2. (i % n) + 1 \in 1..n /\ ((i % n) + 1) - 1 = i % n
  BY <1>1
<1> QED BY <1>1, <1>2 DEF Mine

\* A thread goes from one of its tokens to the next.
LEMMA DerivedOne ==
  ASSUME TypeOK, SpawnInv, Sound, NEW k \in 1..Len(rsa),
         rsa[k] < count, UNCHANGED <<count, n_threads>>,
         Len(rsa') = Len(rsa), rsa'[k] = rsa[k] + Stride,
         \A j \in 1..Len(rsa) : j # k => rsa'[j] = rsa[j]
  PROVE  Derived' = Derived \cup {rsa[k]} /\ rsa[k] \notin Derived /\ rsa[k] \in 0..(count - 1)
<1>1. /\ n_threads \in Nat /\ Stride = n_threads /\ Len(rsa) \in Nat /\ Len(rsa) <= n_threads
      /\ rsa[k] \in Nat /\ Mine(k, rsa[k]) /\ n_threads > 0
      /\ \A j \in 1..Len(rsa) : rsa[j] \in Nat
  <2>1. n_threads \in Nat /\ Stride = n_threads /\ Len(rsa) \in Nat /\ Len(rsa) <= n_threads
    BY SoundThreads DEF SpawnInv, Sound
  <2>2. Mine(k, rsa[k])
    BY DEF SpawnInv, Sound
  <2> QED BY <2>1, <2>2 DEF TypeOK
<1>2. rsa[k] \in 0..(count - 1)
  BY <1>1, BoundsAssumption DEF TypeOK
<1>3. rsa[k] \notin Derived
  <2> SUFFICES ASSUME NEW j \in 1..Len(rsa), Mine(j, rsa[k]), rsa[k] < rsa[j]
               PROVE  FALSE
    BY DEF Derived
  <2>1. j = k
    BY <1>1, OneThread
  <2> QED BY <1>1, <2>1
<1>4. ASSUME NEW i \in 0..(count - 1), NEW j \in 1..Len(rsa), Mine(j, i), i < rsa'[j]
      PROVE  i \in Derived \/ i = rsa[k]
  <2>0. i \in Nat
    BY BoundsAssumption DEF TypeOK
  <2>1. CASE j # k
    BY <1>4, <2>1 DEF Derived
  <2>2. CASE j = k /\ i < rsa[k]
    BY <1>4, <2>2 DEF Derived
  <2>3. CASE j = k /\ rsa[k] <= i
    <3>1. PICK a \in Nat : i = (k - 1) + a * n_threads
      BY <1>4, <2>3 DEF Mine
    <3>2. PICK b \in Nat : rsa[k] = (k - 1) + b * n_threads
      BY <1>1 DEF Mine
    <3>3. k - 1 \in Nat /\ i < rsa[k] + n_threads
      BY <1>1, <1>4, <2>3
    <3>4. (k - 1) + a * n_threads = (k - 1) + b * n_threads
      BY <1>1, <2>3, <3>1, <3>2, <3>3, Gap
    <3> QED BY <3>1, <3>2, <3>4
  <2> QED BY <1>1, <2>0, <2>1, <2>2, <2>3
<1>5. ASSUME NEW i \in 0..(count - 1), NEW j \in 1..Len(rsa), Mine(j, i), i < rsa[j]
      PROVE  i < rsa'[j]
  <2>1. i \in Nat
    BY BoundsAssumption DEF TypeOK
  <2> QED BY <1>1, <1>5, <2>1
<1>6. rsa[k] < rsa'[k]
  BY <1>1
<1>7. \A i, j : Mine(j, i)' <=> Mine(j, i)
  BY DEF Mine
<1>8. \A i : i \in Derived' <=> i \in 0..(count - 1) /\ \E j \in 1..Len(rsa) : Mine(j, i) /\ i < rsa'[j]
  BY <1>7 DEF Derived
<1> QED BY <1>1, <1>2, <1>3, <1>4, <1>5, <1>6, <1>8 DEF Derived

\* A thread that has just been spawned has derived nothing.
LEMMA DerivedSpawn ==
  ASSUME TypeOK, SpawnInv, Sound, Spawn, UNCHANGED <<count, n_threads>>
  PROVE  Derived' = Derived
<1>1. n_threads \in Nat /\ Len(rsa) \in Nat /\ Len(rsa) <= n_threads /\ t = Len(rsa)
  BY SoundThreads DEF SpawnInv, Sound
<1>2. Len(rsa') = Len(rsa) + 1 /\ rsa'[Len(rsa) + 1] = Len(rsa)
      /\ \A k \in 1..Len(rsa) : rsa'[k] = rsa[k]
  BY <1>1 DEF Spawn, TypeOK
<1>3. \A i, j : Mine(j, i)' <=> Mine(j, i)
  BY DEF Mine
<1>4. \A i : Mine(Len(rsa) + 1, i) => ~(i < Len(rsa))
  <2> SUFFICES ASSUME NEW m \in Nat
               PROVE  ~((Len(rsa) + 1 - 1) + m * n_threads < Len(rsa))
    BY DEF Mine
  <2>1. m * n_threads \in Nat
    BY <1>1, Times
  <2> QED BY <1>1, <2>1
<1>5. \A k \in 1..Len(rsa') : k \in 1..Len(rsa) \/ k = Len(rsa) + 1
  BY <1>1, <1>2
<1>6. \A k \in 1..Len(rsa) : k \in 1..Len(rsa')
  BY <1>1, <1>2
<1> QED BY <1>2, <1>3, <1>4, <1>5, <1>6 DEF Derived

----------------------------------------------------------------------------
(* The places of a token *)

LEMMA NoTask == /\ Ended \notin Nat /\ Ready \notin Nat /\ Asleep \notin Nat
                /\ TypeOK => 0..(count - 1) \subseteq Nat /\ count \in Nat
BY WorkerAssumption, BoundsAssumption DEF TypeOK

\* No worker gets a task or loses one.
SameTasks == \A x \in Workers : worker'[x] = worker[x] \/ (worker[x] \notin Nat /\ worker'[x] \notin Nat)

LEMMA SameHeld ==
  ASSUME SameTasks
  PROVE  /\ Held' = Held
         /\ \A x \in Workers : worker'[x] \in Nat \/ worker[x] \in Nat => worker'[x] = worker[x]
<1>1. \A x \in Workers : worker'[x] \in Nat \/ worker[x] \in Nat => worker'[x] = worker[x]
  BY DEF SameTasks
<1> QED BY <1>1 DEF Held

\* The steps that derive no token and move no task.
LEMMA KeepPlaces ==
  ASSUME PlacesInv, AnswerInv, SameTasks, Derived' = Derived, UNCHANGED <<queue, strategy, stored, listed, junk>>
  PROVE  PlacesInv' /\ AnswerInv'
<1>1. Held' = Held /\ InPools' = InPools
  BY SameHeld DEF InPools
<1>2. Finished' = Finished
  BY <1>1 DEF Finished
<1>3. \A x \in Workers : worker'[x] \in Nat => worker'[x] = worker[x]
  BY SameHeld
<1>4. PlacesInv'
  BY <1>1, <1>3 DEF PlacesInv
<1> QED BY <1>2, <1>4 DEF AnswerInv

\* What is held once a worker has got a task, or is done with it.
LEMMA TakeHeld ==
  ASSUME NEW x \in Workers, worker[x] \notin Nat, worker'[x] \in Nat,
         \A y \in Workers : y # x => worker'[y] = worker[y]
  PROVE  Held' = Held \cup {worker'[x]}
BY DEF Held

LEMMA DoneHeld ==
  ASSUME NEW x \in Workers, worker[x] \in Nat, worker'[x] \notin Nat,
         \A y \in Workers : y # x => worker'[y] = worker[y] \/ (worker[y] \notin Nat /\ worker'[y] \notin Nat),
         \A z, y \in Workers : worker[z] \in Nat /\ worker[z] = worker[y] => z = y
  PROVE  /\ Held' = Held \ {worker[x]} /\ worker[x] \in Held
         /\ \A y \in Workers : worker'[y] \in Nat => y # x /\ worker'[y] = worker[y]
<1>1. \A y \in Workers : worker'[y] \in Nat => y # x /\ worker'[y] = worker[y]
  OBVIOUS
<1>2. \A y \in Workers : worker[y] \in Nat /\ worker[y] # worker[x] => worker'[y] = worker[y]
  OBVIOUS
<1>3. \A y \in Workers : y # x /\ worker[y] \in Nat => worker[y] # worker[x]
  OBVIOUS
<1>4. \A i : i \in Held' => i \in Held /\ i # worker[x]
  BY <1>1, <1>3 DEF Held
<1>5. \A i : i \in Held /\ i # worker[x] => i \in Held'
  BY <1>2 DEF Held
<1>6. worker[x] \in Held
  BY DEF Held
<1> QED BY <1>1, <1>4, <1>5, <1>6

LEMMA TakePlaces ==
  ASSUME TypeOK, PlacesInv, AnswerInv, Derived' = Derived, NEW x \in Workers, Take(x)
  PROVE  PlacesInv' /\ AnswerInv'
<1> DEFINE p == x[1]
           h == Head(queue[p])
<1>1. /\ UNCHANGED <<strategy, count, stored, listed, junk>>
      /\ worker[x] = Ready /\ queue[p] # <<>>
      /\ worker'[x] = h /\ \A y \in Workers : y # x => worker'[y] = worker[y]
      /\ queue'[p] = Tail(queue[p]) /\ \A q \in Pools : q # p => queue'[q] = queue[q]
      /\ h \in Nat
  BY TakeFacts, NoTask
<1>2. p \in Pools /\ (p = "access" <=> p # "post") /\ "access" \in Pools /\ "post" \in Pools
  BY OfPool DEF Pools
<1>3. /\ Elems(queue[p]) = {h} \cup Elems(queue'[p])
      /\ NoDup(queue[p]) => NoDup(queue'[p]) /\ h \notin Elems(queue'[p])
  <2>1. queue[p] \in Seq(0..(count - 1))
    BY <1>2 DEF TypeOK
  <2> QED BY <1>1, <2>1, TailElems
<1>4. Held' = Held \cup {h}
  BY <1>1, NoTask, TakeHeld
<1>5. NoDup(queue["access"]) /\ NoDup(queue["post"]) /\ NoDup(queue[p])
  BY <1>2 DEF PlacesInv
<1>6. h \notin Held /\ \A q \in Pools : q # p => h \notin Elems(queue[q])
  BY <1>2, <1>3 DEF PlacesInv, Pools
<1>7. \A q \in Pools : Elems(queue'[q]) = Elems(queue[q]) \ {h} /\ NoDup(queue'[q])
  <2>1. Elems(queue'[p]) = Elems(queue[p]) \ {h} /\ NoDup(queue'[p])
    BY <1>3, <1>5
  <2>2. \A q \in Pools : q # p => Elems(queue'[q]) = Elems(queue[q]) \ {h} /\ NoDup(queue'[q])
    <3>1. \A q \in Pools : q # p => queue'[q] = queue[q] /\ h \notin Elems(queue[q]) /\ NoDup(queue[q])
      BY <1>1, <1>5, <1>6 DEF Pools
    <3> QED BY <3>1
  <2> QED BY <2>1, <2>2
<1>8. InPools' = InPools
  <2>1. h \in InPools
    BY <1>2, <1>3 DEF InPools
  <2> QED BY <1>2, <1>4, <1>7, <2>1 DEF InPools
<1>9. \A y, z \in Workers : worker'[y] \in Nat /\ worker'[y] = worker'[z] => y = z
  <2>1. \A y \in Workers : worker[y] # h
    BY <1>1, <1>6 DEF Held
  <2> QED BY <1>1, <2>1 DEF PlacesInv
<1>10. PlacesInv'
  <2>1. /\ Elems(queue'["access"]) \cap Elems(queue'["post"]) = {}
        /\ Held' \cap (Elems(queue'["access"]) \cup Elems(queue'["post"])) = {}
        /\ Elems(queue'["post"]) \subseteq stored'
    BY <1>1, <1>2, <1>4, <1>7 DEF PlacesInv
  <2>2. \A y \in Workers : y[1] = "post" /\ worker'[y] \in Nat => worker'[y] \in stored'
    <3>1. p = "post" => h \in stored
      BY <1>2, <1>3 DEF PlacesInv
    <3> QED BY <1>1, <3>1 DEF PlacesInv
  <2>3. InPools' \subseteq Derived'
    BY <1>8 DEF PlacesInv
  <2> QED BY <1>2, <1>7, <1>9, <2>1, <2>2, <2>3 DEF PlacesInv
<1>11. Finished' = Finished
  BY <1>8 DEF Finished
<1> QED BY <1>1, <1>10, <1>11 DEF AnswerInv

LEMMA DerivePlaces ==
  ASSUME TypeOK, SpawnInv, Sound, PlacesInv, AnswerInv, UNCHANGED n_threads,
         NEW k \in 1..Len(rsa), Derive(k)
  PROVE  PlacesInv' /\ AnswerInv'
<1> DEFINE d == rsa[k]
<1>1. /\ UNCHANGED <<strategy, count, stored, listed, junk>>
      /\ d \in 0..(count - 1) /\ d \in Nat /\ count \in Nat
      /\ queue'["access"] = Append(queue["access"], d) /\ queue'["post"] = queue["post"]
      /\ SameTasks
  BY DeriveFacts, NoTask DEF SameTasks
<1>2. Derived' = Derived \cup {d} /\ d \notin Derived
  BY <1>1, DeriveFacts, DerivedOne
<1>3. d \notin InPools
  BY <1>2 DEF PlacesInv
<1>4. Elems(queue'["access"]) = Elems(queue["access"]) \cup {d} /\ NoDup(queue'["access"])
  <2>1. queue["access"] \in Seq(0..(count - 1))
    BY DEF TypeOK, Pools
  <2>2. NoDup(queue["access"]) /\ d \notin Elems(queue["access"])
    BY <1>3 DEF PlacesInv, InPools
  <2> QED BY <1>1, <2>1, <2>2, AppendElems
<1>5. Held' = Held /\ \A x \in Workers : worker'[x] \in Nat => worker'[x] = worker[x]
  BY <1>1, SameHeld
<1>6. InPools' = InPools \cup {d}
  BY <1>1, <1>4, <1>5 DEF InPools
<1>7. PlacesInv'
  <2>1. /\ Elems(queue'["access"]) \cap Elems(queue'["post"]) = {}
        /\ Held' \cap (Elems(queue'["access"]) \cup Elems(queue'["post"])) = {}
        /\ Elems(queue'["post"]) \subseteq stored' /\ NoDup(queue'["post"])
        /\ InPools' \subseteq Derived'
    BY <1>1, <1>2, <1>3, <1>4, <1>5, <1>6 DEF PlacesInv, InPools
  <2>2. /\ \A x \in Workers : x[1] = "post" /\ worker'[x] \in Nat => worker'[x] \in stored'
        /\ \A x, y \in Workers : worker'[x] \in Nat /\ worker'[x] = worker'[y] => x = y
    BY <1>1, <1>5 DEF PlacesInv
  <2> QED BY <1>4, <2>1, <2>2 DEF PlacesInv
<1>8. Finished' = Finished
  BY <1>2, <1>3, <1>6 DEF Finished
<1> QED BY <1>1, <1>7, <1>8 DEF AnswerInv

LEMMA SmallFinished ==
  ASSUME TypeOK
  PROVE  IsFiniteSet(Finished \ stored) /\ Cardinality(Finished \ stored) \in Nat
<1>1. IsFiniteSet(0..(count - 1))
  BY NoTask, FS_Interval
<1>2. Finished \ stored \subseteq 0..(count - 1)
  BY DEF Finished, Derived
<1> QED BY <1>1, <1>2, FS_Subset, FS_CardinalityType

\* A token that is stored and dealt with is in the answer once.
LEMMA DealtWith ==
  ASSUME TypeOK, AnswerInv, UNCHANGED <<strategy, stored>>,
         NEW d \in 0..(count - 1), d \notin Finished, Finished' = Finished \cup {d},
         listed' = IF d \in stored THEN [listed EXCEPT ![d] = @ + 1] ELSE listed,
         junk' = IF strategy = "parallel" /\ d \notin stored THEN junk + 1 ELSE junk
  PROVE  AnswerInv'
<1>1. d \in Tokens
  BY NoTask, BoundsAssumption DEF Tokens, TypeOK
<1>2. \A i \in Tokens : listed'[i] = IF i \in Finished' \cap stored' THEN 1 ELSE 0
  <2>1. CASE d \in stored
    <3>1. \A i \in Tokens : listed'[i] = IF i = d THEN listed[d] + 1 ELSE listed[i]
      BY <1>1, <2>1 DEF TypeOK
    <3>2. listed[d] = 0
      BY <1>1 DEF AnswerInv
    <3> QED BY <2>1, <3>1, <3>2 DEF AnswerInv
  <2>2. CASE d \notin stored
    BY <2>2 DEF AnswerInv
  <2> QED BY <2>1, <2>2
<1>3. junk' = IF strategy' = "parallel" THEN Cardinality(Finished' \ stored') ELSE 0
  <2>1. CASE d \in stored
    <3>1. Finished' \ stored' = Finished \ stored
      BY <2>1
    <3> QED BY <2>1, <3>1 DEF AnswerInv
  <2>2. CASE d \notin stored
    <3>1. Finished' \ stored' = (Finished \ stored) \cup {d}
      BY <2>2
    <3>2. Cardinality((Finished \ stored) \cup {d}) = Cardinality(Finished \ stored) + 1
      <4>1. IsFiniteSet(Finished \ stored) /\ d \notin Finished \ stored
        BY SmallFinished
      <4> QED BY <4>1, FS_AddElement
    <3> QED BY <2>2, <3>1, <3>2 DEF AnswerInv
  <2> QED BY <2>1, <2>2
<1> QED BY <1>2, <1>3 DEF AnswerInv

LEMMA LookUpPlaces ==
  ASSUME TypeOK, IdleInv, SpawnInv, Sound, PlacesInv, AnswerInv, UNCHANGED n_threads,
         NEW k \in 1..Len(rsa), DeriveAndLookUp(k)
  PROVE  PlacesInv' /\ AnswerInv'
<1>1. /\ UNCHANGED <<strategy, count, stored, queue, worker, junk>> /\ strategy = "light"
      /\ rsa[k] \in 0..(count - 1)
      /\ listed' = IF rsa[k] \in stored THEN [listed EXCEPT ![rsa[k]] = @ + 1] ELSE listed
  BY LookUpFacts
<1>2. Derived' = Derived \cup {rsa[k]} /\ rsa[k] \notin Derived
  <2>1. rsa[k] < count
    BY <1>1, NoTask
  <2> QED BY <1>1, <2>1, LookUpFacts, DerivedOne
<1>3. InPools = {} /\ InPools' = InPools
  <2>1. Held = {}
    BY <1>1, OfPool DEF IdleInv, Idle, Held
  <2>2. Elems(queue["access"]) = {} /\ Elems(queue["post"]) = {}
    <3>1. queue["access"] = <<>> /\ queue["post"] = <<>>
      BY <1>1 DEF IdleInv, Idle
    <3> QED BY <3>1 DEF Elems
  <2> QED BY <1>1, <2>1, <2>2 DEF InPools, Held
<1>4. PlacesInv'
  <2>1. Held' = Held
    BY <1>1 DEF Held
  <2> QED BY <1>1, <1>2, <1>3, <2>1 DEF PlacesInv
<1>5. Finished' = Finished \cup {rsa[k]} /\ rsa[k] \notin Finished
  BY <1>2, <1>3 DEF Finished
<1>6. AnswerInv'
  BY <1>1, <1>5, DealtWith
<1> QED BY <1>4, <1>6

LEMMA WorkPlaces ==
  ASSUME TypeOK, StagesInv, IdleInv, PlacesInv, AnswerInv, Derived' = Derived,
         NEW x \in Workers, AccessAndPush(x) \/ AccessAndQueue(x) \/ Post(x)
  PROVE  PlacesInv' /\ AnswerInv'
<1> DEFINE d == worker[x]
<1>1. /\ UNCHANGED <<strategy, count, stored, main, stop>> /\ d \in 0..(count - 1) /\ d \in Nat /\ count \in Nat
      /\ worker'[x] = Ready
      /\ \A y \in Workers : y # x => worker'[y] = worker[y] \/ (worker[y] \notin Nat /\ worker'[y] \notin Nat)
      /\ queue'["access"] = queue["access"]
  BY AccessFacts, NoTask
<1>2. /\ Held' = Held \ {d} /\ d \in Held
      /\ \A y \in Workers : worker'[y] \in Nat => y # x /\ worker'[y] = worker[y]
  <2>1. \A z, y \in Workers : worker[z] \in Nat /\ worker[z] = worker[y] => z = y
    BY DEF PlacesInv
  <2> QED BY <1>1, <2>1, NoTask, DoneHeld
<1>3. d \in Derived /\ d \in InPools /\ d \notin Elems(queue["access"]) /\ d \notin Elems(queue["post"])
      /\ d \notin Finished
  BY <1>2 DEF PlacesInv, InPools, Finished
<1>4. CASE queue'["post"] = queue["post"]
  <2>1. InPools' = InPools \ {d}
    BY <1>1, <1>2, <1>3, <1>4 DEF InPools
  <2>2. PlacesInv'
    <3>1. /\ Held' \cap (Elems(queue'["access"]) \cup Elems(queue'["post"])) = {}
          /\ InPools' \subseteq Derived'
      BY <1>1, <1>2, <1>4, <2>1 DEF PlacesInv
    <3>2. /\ \A y \in Workers : y[1] = "post" /\ worker'[y] \in Nat => worker'[y] \in stored'
          /\ \A z, y \in Workers : worker'[z] \in Nat /\ worker'[z] = worker'[y] => z = y
      BY <1>1, <1>2 DEF PlacesInv
    <3> QED BY <1>1, <1>4, <3>1, <3>2 DEF PlacesInv
  <2>3. Finished' = Finished \cup {d}
    BY <1>3, <2>1 DEF Finished
  <2>4. /\ listed' = IF d \in stored THEN [listed EXCEPT ![d] = @ + 1] ELSE listed
        /\ junk' = IF strategy = "parallel" /\ d \notin stored THEN junk + 1 ELSE junk
    <3>1. CASE AccessAndPush(x)
      BY <3>1 DEF AccessAndPush
    <3>2. CASE Post(x)
      <4>1. strategy = "callback"
        BY <1>1, <3>2 DEF Post, IdleInv, Idle
      <4>2. d \in stored
        BY <1>1, <3>2 DEF Post, PlacesInv
      <4> QED BY <3>2, <4>1, <4>2 DEF Post
    <3>3. CASE AccessAndQueue(x)
      <4>1. d \notin stored
        <5> SUFFICES ASSUME d \in stored
                     PROVE  FALSE
          OBVIOUS
        <5>1. ~stop["post"]
          <6> SUFFICES ASSUME stop["post"]
                       PROVE  FALSE
            OBVIOUS
          <6>1. stop["access"] /\ main # "drain_access"
            BY DEF StagesInv
          <6>2. Joined("access") /\ x[1] = "access"
            BY <3>3, <6>1 DEF StagesInv, AccessAndQueue
          <6> QED BY <1>1, <6>2, NoTask DEF Joined
        <5>2. queue' = [queue EXCEPT !["post"] = Append(@, d)]
          BY <3>3, <5>1 DEF AccessAndQueue
        <5>3. queue["post"] \in Seq(0..(count - 1)) /\ queue'["post"] = Append(queue["post"], d)
          BY <5>2 DEF TypeOK, Pools
        <5>4. d \in Elems(queue'["post"])
          BY <1>1, <5>3, AppendElems
        <5> QED BY <1>3, <1>4, <5>4
      <4> QED BY <3>3, <4>1 DEF AccessAndQueue, answer
    <3> QED BY <3>1, <3>2, <3>3
  <2>5. AnswerInv'
    BY <1>1, <1>3, <2>3, <2>4, DealtWith
  <2> QED BY <2>2, <2>5
<1>5. CASE /\ AccessAndQueue(x) /\ d \in stored
           /\ queue'["post"] = Append(queue["post"], d)
  <2>1. Elems(queue'["post"]) = Elems(queue["post"]) \cup {d} /\ NoDup(queue'["post"])
    <3>1. queue["post"] \in Seq(0..(count - 1))
      BY DEF TypeOK, Pools
    <3>2. NoDup(queue["post"])
      BY DEF PlacesInv
    <3> QED BY <1>1, <1>3, <1>5, <3>1, <3>2, AppendElems
  <2>2. InPools' = InPools
    BY <1>1, <1>2, <2>1 DEF InPools
  <2>3. PlacesInv'
    <3>1. /\ Elems(queue'["access"]) \cap Elems(queue'["post"]) = {}
          /\ Held' \cap (Elems(queue'["access"]) \cup Elems(queue'["post"])) = {}
          /\ Elems(queue'["post"]) \subseteq stored'
          /\ InPools' \subseteq Derived' /\ NoDup(queue'["access"])
      BY <1>1, <1>2, <1>3, <1>5, <2>1, <2>2 DEF PlacesInv
    <3>2. /\ \A y \in Workers : y[1] = "post" /\ worker'[y] \in Nat => worker'[y] \in stored'
          /\ \A z, y \in Workers : worker'[z] \in Nat /\ worker'[z] = worker'[y] => z = y
      BY <1>1, <1>2 DEF PlacesInv
    <3> QED BY <2>1, <3>1, <3>2 DEF PlacesInv
  <2>4. Finished' = Finished
    BY <2>2 DEF Finished
  <2>5. UNCHANGED <<listed, junk>>
    BY <1>5 DEF AccessAndQueue, answer
  <2> QED BY <1>1, <2>3, <2>4, <2>5 DEF AnswerInv
<1> QED BY <1>4, <1>5, AccessFacts

LEMMA InitPlaces == Init => PlacesInv /\ AnswerInv
<1> SUFFICES ASSUME Init
             PROVE  PlacesInv /\ AnswerInv
  OBVIOUS
<1>1. /\ rsa = <<>> /\ queue["access"] = <<>> /\ queue["post"] = <<>>
      /\ \A x \in Workers : worker[x] = Ready
      /\ junk = 0 /\ \A i \in Tokens : listed[i] = 0
  BY DEF Init, Pools
<1>2. Derived = {} /\ Held = {} /\ Elems(queue["access"]) = {} /\ Elems(queue["post"]) = {}
  BY <1>1, NoTask DEF Derived, Held, Elems
<1>3. NoDup(<<>>)
  BY DEF NoDup
<1>4. PlacesInv
  BY <1>1, <1>2, <1>3, NoTask DEF PlacesInv, InPools
<1>5. Finished = {} /\ Finished \ stored = {}
  BY <1>2 DEF Finished
<1> QED BY <1>1, <1>4, <1>5, FS_EmptySet DEF AnswerInv

LEMMA StepPlaces ==
  ASSUME TypeOK, StagesInv, IdleInv, SpawnInv, Sound, PlacesInv, AnswerInv, [Next]_vars
  PROVE  PlacesInv' /\ AnswerInv'
<1>0. UNCHANGED <<strategy, count, stored, n_threads>>
  BY Same
<1>1. rsa' = rsa => Derived' = Derived
  BY <1>0 DEF Derived, Mine
<1>2. CASE Spawn
  BY <1>0, <1>2, DerivedSpawn, KeepPlaces DEF Spawn, pools, answer, SameTasks
<1>3. CASE SpawnFail \/ Spawned \/ JoinPost
  <2>1. UNCHANGED <<rsa, queue, worker, listed, junk>>
    BY <1>3 DEF SpawnFail, Spawned, JoinPost, pools, answer
  <2> QED BY <1>0, <1>1, <2>1, KeepPlaces DEF SameTasks
<1>4. CASE JoinRsa \/ JoinAccess
  BY <1>0, <1>1, <1>4, JoinFacts, NoTask, KeepPlaces DEF SameTasks
<1>5. ASSUME NEW k \in 1..Len(rsa), Job(k)
      PROVE  PlacesInv' /\ AnswerInv'
  <2>1. ~DeriveFail(k)
    <3>1. strategy = "parallel" /\ cores < AccessThreads => ~Sound
      BY BoundsAssumption DEF TypeOK, Sound, EnoughCores
    <3> QED BY <3>1, FailFacts
  <2> QED BY <1>0, <1>5, <2>1, DerivePlaces, LookUpPlaces DEF Job
<1>6. ASSUME NEW x \in Workers, Take(x)
      PROVE  PlacesInv' /\ AnswerInv'
  BY <1>1, <1>6, TakeFacts, TakePlaces
<1>7. ASSUME NEW x \in Workers, Sleep(x) \/ End(x)
      PROVE  PlacesInv' /\ AnswerInv'
  <2>1. UNCHANGED <<rsa, queue, listed, junk>>
    BY <1>7 DEF Sleep, End, answer
  <2>2. SameTasks
    BY <1>7, NoTask DEF Sleep, End, TypeOK, SameTasks
  <2> QED BY <1>0, <1>1, <2>1, <2>2, KeepPlaces
<1>8. ASSUME NEW x \in Workers, AccessAndPush(x) \/ AccessAndQueue(x) \/ Post(x)
      PROVE  PlacesInv' /\ AnswerInv'
  BY <1>1, <1>8, AccessFacts, WorkPlaces
<1>9. CASE Done \/ UNCHANGED vars
  <2>1. UNCHANGED <<rsa, queue, worker, listed, junk>>
    BY <1>9 DEF Done, vars, pools, answer
  <2> QED BY <1>0, <1>1, <2>1, KeepPlaces DEF SameTasks
<1> QED BY <1>2, <1>3, <1>4, <1>5, <1>6, <1>7, <1>8, <1>9 DEF Next, Handler, Work

----------------------------------------------------------------------------
(* Theorems *)

\* The inductive invariant.
THEOREM InvHolds == Spec => []IInv
<1>1. Init => IInv
  BY InitTypes, InitStages, InitSpawn, InitPlaces DEF IInv
<1>2. IInv /\ [Next]_vars => IInv'
  <2> SUFFICES ASSUME IInv, [Next]_vars
               PROVE  IInv'
    OBVIOUS
  <2>1. TypeOK' /\ StagesInv' /\ IdleInv' /\ SpawnInv'
    BY StepTypes, StepStages, StepIdle, StepSpawn DEF IInv
  <2>2. ASSUME Sound
        PROVE  PlacesInv' /\ AnswerInv'
    BY <2>2, StepPlaces DEF IInv
  <2> QED BY <2>1, <2>2, Same DEF IInv
<1> QED BY <1>1, <1>2, PTL DEF Spec

\* Every variable keeps its range.
THEOREM TypeCorrect == Spec => []TypeOK
BY InvHolds, PTL DEF IInv

\* The pools of a search that has returned.
LEMMA PoolsEmpty ==
  ASSUME TypeOK, StagesInv, IdleInv, main = "returned"
  PROVE  /\ strategy # "light" => Joined("access")
         /\ strategy = "callback" => Joined("post")
         /\ queue["access"] = <<>> /\ queue["post"] = <<>>
         /\ \A x \in Workers : worker[x] \notin Nat
<1>1. /\ strategy # "light" => Joined("access")
      /\ strategy = "callback" => Joined("post")
  BY DEF StagesInv
<1>2. \A p \in Pools : \E x \in Workers : x[1] = p
  <2>1. 1 \in 1..AccessThreads /\ 1 \in 1..PostThreads
    BY BoundsAssumption
  <2>2. <<"access", 1>> \in Workers /\ <<"post", 1>> \in Workers
    BY <2>1 DEF Workers
  <2> QED BY <2>2 DEF Pools
<1>3. \A p \in Pools : Joined(p) => queue[p] = <<>> /\ \A x \in Workers : x[1] = p => worker[x] \notin Nat
  BY <1>2, NoTask DEF Joined, StagesInv
<1>4. \A p \in Pools : Joined(p) \/ Idle(p)
  BY <1>1 DEF IdleInv, Pools
<1>5. \A p \in Pools : queue[p] = <<>> /\ \A x \in Workers : x[1] = p => worker[x] \notin Nat
  BY <1>3, <1>4 DEF Idle
<1> QED BY <1>1, <1>5, OfPool DEF Pools

\* No job is left when the handler returns: every derive thread has come to its end, and
\* the pools have been joined and are empty.
THEOREM NothingIsLeft == Spec => []NothingOutlives
<1>1. IInv => NothingOutlives
  BY PoolsEmpty DEF IInv, StagesInv, NothingOutlives
<1> QED BY <1>1, InvHolds, PTL

\* All that is derived has been dealt with once the search returns.
LEMMA AllFinished ==
  ASSUME TypeOK, StagesInv, IdleInv, main = "returned"
  PROVE  Finished = Derived
<1>1. queue["access"] = <<>> /\ queue["post"] = <<>> /\ \A x \in Workers : worker[x] \notin Nat
  BY PoolsEmpty
<1>2. Held = {} /\ Elems(queue["access"]) = {} /\ Elems(queue["post"]) = {}
  BY <1>1 DEF Held, Elems
<1> QED BY <1>2 DEF Finished, InPools

\* A search that returns answers what the sequential loop would.
THEOREM AnswersMatchSequential == Spec => []AnswersAsSequential
<1>1. IInv => AnswersAsSequential
  <2> SUFFICES ASSUME IInv, main = "returned", EnoughCores
               PROVE  /\ \A i \in Tokens : listed[i] = IF i \in stored THEN 1 ELSE 0
                      /\ junk = IF strategy = "parallel" THEN count - Cardinality(stored) ELSE 0
    BY DEF AnswersAsSequential
  <2>1. TypeOK /\ StagesInv /\ IdleInv /\ SpawnInv /\ AnswerInv /\ count \in Nat
    BY NoTask DEF IInv, Sound
  <2>2. n_threads \in Nat \ {0} /\ Len(rsa) = n_threads
    BY <2>1, Threads, BoundsAssumption DEF SpawnInv
  <2>3. Derived = 0..(count - 1)
    <3>1. ASSUME NEW i \in 0..(count - 1)
          PROVE  i \in Derived
      <4>1. i \in Nat /\ i < count
        BY <2>1
      <4>2. PICK k \in 1..Len(rsa) : Mine(k, i)
        BY <2>2, <4>1, SomeThread
      <4>3. rsa[k] \in Nat /\ rsa[k] >= count
        BY <2>1, <4>2 DEF StagesInv, TypeOK
      <4> QED BY <2>1, <4>1, <4>2, <4>3 DEF Derived
    <3> QED BY <3>1 DEF Derived
  <2>4. Finished = 0..(count - 1) /\ stored \subseteq Finished
    BY <2>1, <2>3, AllFinished DEF TypeOK
  <2>5. Cardinality(Finished \ stored) = count - Cardinality(stored)
    <3>1. IsFiniteSet(0..(count - 1)) /\ Cardinality(0..(count - 1)) = count
      <4>1. 0 \in Int /\ count - 1 \in Int
        BY <2>1
      <4>2. Cardinality(0..(count - 1)) = IF 0 > count - 1 THEN 0 ELSE count - 1 - 0 + 1
        BY <4>1, FS_Interval
      <4> QED BY <2>1, <4>1, <4>2, FS_Interval
    <3>2. (0..(count - 1)) \cap stored = stored
      BY <2>4
    <3>3. Cardinality((0..(count - 1)) \ stored) = Cardinality(0..(count - 1)) - Cardinality((0..(count - 1)) \cap stored)
      BY <3>1, FS_Difference
    <3> QED BY <2>4, <3>1, <3>2, <3>3
  <2> QED BY <2>1, <2>4, <2>5 DEF AnswerInv
<1> QED BY <1>1, InvHolds, PTL

\* With as many cores as access threads search_parallel answers nothing, and with fewer
\* it never answers.
THEOREM NoCores == Spec => []NoCoresNoAnswer
<1>1. IInv => NoCoresNoAnswer
  <2> SUFFICES ASSUME IInv
               PROVE  NoCoresNoAnswer
    OBVIOUS
  <2>0. cores \in Nat /\ AccessThreads \in Nat
    BY BoundsAssumption DEF IInv, TypeOK
  <2>1. main = "returned" /\ strategy = "parallel" => cores >= AccessThreads
    BY <2>0 DEF IInv, SpawnInv
  <2>2. main = "dead" => strategy = "parallel" /\ cores < AccessThreads
    BY <2>0 DEF IInv, SpawnInv, EnoughCores
  <2>3. ASSUME main = "returned", strategy = "parallel", cores = AccessThreads
        PROVE  junk = 0 /\ \A i \in Tokens : listed[i] = 0
    <3>1. TypeOK /\ SpawnInv /\ AnswerInv /\ n_threads = 0
      BY <2>3, Threads DEF IInv, Sound
    <3>2. Len(rsa) = 0
      BY <2>3, <3>1 DEF SpawnInv
    <3>3. Finished = {} /\ Finished \ stored = {}
      BY <3>2 DEF Finished, Derived
    <3> QED BY <3>1, <3>3, FS_EmptySet DEF AnswerInv
  <2> QED BY <2>1, <2>2, <2>3 DEF NoCoresNoAnswer
<1> QED BY <1>1, InvHolds, PTL

LEMMA AtMostOne ==
  ASSUME NEW S, \A x, y \in S : x = y
  PROVE  Cardinality(S) = IF S = {} THEN 0 ELSE 1
<1>1. CASE S = {}
  BY <1>1, FS_EmptySet
<1>2. CASE S # {}
  <2>1. PICK x \in S : TRUE
    BY <1>2
  <2>2. S = {x}
    BY <2>1
  <2> QED BY <1>2, <2>2, FS_Singleton
<1> QED BY <1>1, <1>2

\* While a search runs no token is looked up twice: it is with one derive thread, or in
\* one place of the pipeline, or in the answer.
THEOREM NoTokenTwice == Spec => []LookedUpOnce
<1>1. IInv => LookedUpOnce
  <2> SUFFICES ASSUME IInv, EnoughCores, NEW i \in Tokens
               PROVE  listed[i] + Cardinality({x \in Workers : worker[x] = i})
                        + Cardinality({k \in 1..Len(queue["access"]) : queue["access"][k] = i})
                        + Cardinality({k \in 1..Len(queue["post"]) : queue["post"][k] = i})
                        + Cardinality({k \in 1..Len(rsa) : rsa[k] <= i /\ i < count /\ (i - rsa[k]) % Stride = 0}) <= 1
    BY DEF LookedUpOnce
  <2> DEFINE W == {x \in Workers : worker[x] = i}
             A == {k \in 1..Len(queue["access"]) : queue["access"][k] = i}
             P == {k \in 1..Len(queue["post"]) : queue["post"][k] = i}
             R == {k \in 1..Len(rsa) : rsa[k] <= i /\ i < count /\ (i - rsa[k]) % Stride = 0}
  <2>1. /\ TypeOK /\ SpawnInv /\ PlacesInv /\ AnswerInv /\ Sound /\ count \in Nat /\ i \in Nat
    BY NoTask DEF IInv, Sound, Tokens
  <2>2. n_threads \in Nat \ {0} /\ Stride = n_threads
    BY <2>1, Threads
  <2>3. ASSUME NEW k \in R
        PROVE  k \in 1..Len(rsa) /\ Mine(k, i) /\ i \notin Derived
    <3>1. k \in 1..Len(rsa) /\ rsa[k] \in Nat /\ rsa[k] <= i /\ (i - rsa[k]) % n_threads = 0
      BY <2>1, <2>2, <2>3 DEF TypeOK
    <3>2. PICK m \in Nat : i - rsa[k] = ((i - rsa[k]) % n_threads) + m * n_threads
      <4>1. i - rsa[k] \in Nat
        BY <2>1, <3>1
      <4> QED BY <2>2, <4>1, Divided
    <3>3. PICK b \in Nat : rsa[k] = (k - 1) + b * n_threads
      BY <2>1, <3>1 DEF SpawnInv, Sound, Mine
    <3>4. Mine(k, i)
      <4>1. (b + m) * n_threads = b * n_threads + m * n_threads
        BY <2>2
      <4>2. b * n_threads \in Nat /\ m * n_threads \in Nat
        BY <2>2, Times
      <4>3. i = (k - 1) + (b + m) * n_threads
        BY <2>1, <3>1, <3>2, <3>3, <4>1, <4>2
      <4> QED BY <4>3 DEF Mine
    <3>5. i \notin Derived
      <4> SUFFICES ASSUME NEW j \in 1..Len(rsa), Mine(j, i), i < rsa[j]
                   PROVE  FALSE
        BY DEF Derived
      <4>1. j = k
        BY <2>1, <3>1, <3>4, OneThread
      <4> QED BY <2>1, <3>1, <4>1
    <3> QED BY <3>1, <3>4, <3>5
  <2>4. Cardinality(R) = IF R = {} THEN 0 ELSE 1
    <3>1. \A j, k \in R : j = k
      BY <2>1, <2>3, OneThread
    <3> HIDE DEF R
    <3> QED BY <3>1, AtMostOne
  <2>5. Cardinality(W) = IF W = {} THEN 0 ELSE 1
    <3>1. \A x, y \in W : x = y
      BY <2>1 DEF PlacesInv
    <3> HIDE DEF W
    <3> QED BY <3>1, AtMostOne
  <2>6. Cardinality(A) = IF A = {} THEN 0 ELSE 1
    <3>1. \A x, y \in A : x = y
      BY <2>1 DEF PlacesInv, NoDup
    <3> HIDE DEF A
    <3> QED BY <3>1, AtMostOne
  <2>7. Cardinality(P) = IF P = {} THEN 0 ELSE 1
    <3>1. \A x, y \in P : x = y
      BY <2>1 DEF PlacesInv, NoDup
    <3> HIDE DEF P
    <3> QED BY <3>1, AtMostOne
  <2>8. listed[i] = IF i \in Finished \cap stored THEN 1 ELSE 0
    BY <2>1 DEF AnswerInv
  <2>9. /\ W # {} => i \in Held
        /\ A # {} => i \in Elems(queue["access"])
        /\ P # {} => i \in Elems(queue["post"])
        /\ R # {} => i \notin Derived
    BY <2>1, <2>3 DEF Held, Elems
  <2>10. /\ i \in Held => i \notin Elems(queue["access"]) /\ i \notin Elems(queue["post"])
         /\ i \in Elems(queue["access"]) => i \notin Elems(queue["post"])
         /\ i \in Held \/ i \in Elems(queue["access"]) \/ i \in Elems(queue["post"]) =>
              i \in Derived /\ i \notin Finished
         /\ i \in Finished => i \in Derived
    BY <2>1 DEF PlacesInv, Finished, InPools
  <2> HIDE DEF W, A, P, R
  <2>11. listed[i] + Cardinality(W) + Cardinality(A) + Cardinality(P) + Cardinality(R) <= 1
    BY <2>4, <2>5, <2>6, <2>7, <2>8, <2>9, <2>10
  <2> QED BY <2>11 DEF W, A, P, R
<1> QED BY <1>1, InvHolds, PTL
==============================================================================
