--------------------------- MODULE SearchPipeline ---------------------------
(***************************************************************************)
(* The three searches with threads that SophosImpl uses: search_parallel   *)
(* (derive threads and a pool that looks up), search_parallel_callback (a  *)
(* second pool passes the results on) and search_parallel_light (every     *)
(* thread derives and looks up), on the ThreadPool of thread_pool.hpp.     *)
(*                                                                         *)
(* The n-th derived token is n: thread t derives t, t + N, t + 2N, ...     *)
(* below count.  The server's entries do not change here (SophosIndex has  *)
(* them change).  A task is the token it was bound to.  Threads are the    *)
(* uint8_t t of the spawning loop, n_threads is an unsigned int: both wrap.*)
(***************************************************************************)
EXTENDS Naturals, Sequences, FiniteSets

CONSTANTS
  MaxCores,       \* bound: hardware_concurrency(), twice which must be a uint8_t
  MaxCount,       \* bound: add_count
  AccessThreads,  \* workers of the access pool (2 and 8 in the code)
  PostThreads,    \* workers of the post pool (1 in the code)
  Byte,           \* 2^8 in the code: where a uint8_t wraps
  Unsigned,       \* 2^32 in the code: where an unsigned int wraps
  MaxSpawned,     \* threads the system lets a process have
  Ready,          \* a worker about to test the predicate of condition.wait
  Asleep,         \* a worker in condition.wait
  Ended           \* a worker that has left its loop

ASSUME BoundsAssumption ==
  /\ MaxCores \in Nat /\ 2 * MaxCores < Byte /\ MaxCores <= MaxSpawned
  /\ MaxCount \in Nat
  /\ AccessThreads \in Nat \ {0} /\ AccessThreads < Byte
  /\ PostThreads \in Nat \ {0}
  /\ Byte \in Nat /\ Unsigned \in Nat /\ 2 * Byte <= Unsigned
  /\ MaxSpawned \in Nat

\* A worker that is none of them runs a task.
ASSUME WorkerAssumption ==
  /\ {Ready, Asleep, Ended} \cap Nat = {}
  /\ Ready # Asleep /\ Ready # Ended /\ Asleep # Ended

Tokens   == 0..MaxCount
Pools    == {"access", "post"}
Workers  == ({"access"} \X (1..AccessThreads)) \cup ({"post"} \X (1..PostThreads))

VARIABLES
  strategy,  \* "parallel", "callback" or "light"
  cores,     \* hardware_concurrency()
  count,     \* add_count of the request
  stored,    \* the tokens the server has an entry for
  main,      \* the handler: "spawn", "join", "drain_access", "drain_post", "returned", "dead"
  rsa,       \* per derive thread: the token it comes to next
  queue, stop, worker,  \* the thread pools
  listed,    \* per token: how often its result is in the answer
  junk       \* results made from an index that was never set

request == <<strategy, cores, count, stored>>
pools   == <<queue, stop, worker>>
answer  == <<listed, junk>>
vars == <<request, main, rsa, pools, answer>>

\* Mutant of n_threads: one thread more than are spawned.
n_threads_more ==
  IF strategy = "parallel" THEN (cores + Unsigned - AccessThreads + 1) % Unsigned ELSE cores

\* hardware_concurrency() - access_threads, without a sign, in search_parallel;
\* hardware_concurrency() in the other two.
n_threads ==
  IF strategy = "parallel" THEN (cores + Unsigned - AccessThreads) % Unsigned ELSE cores

\* The server's TdpMultPool knows the powers of the TDP up to 2 * hardware_concurrency().
maximum_order == 2 * cores

\* A server has a core at least: TdpMultPool's constructor throws for a pool of 0, and
\* SophosServer's with it.
Init ==
  /\ strategy \in {"parallel", "callback", "light"}
  /\ cores \in 1..MaxCores
  /\ count \in 0..MaxCount
  /\ stored \in SUBSET (0..(count - 1))
  /\ main = "spawn"
  /\ rsa = <<>>
  /\ queue = [p \in Pools |-> <<>>]
  /\ stop = [p \in Pools |-> FALSE]
  /\ worker = [x \in Workers |-> Ready]
  /\ listed = [i \in Tokens |-> 0]
  /\ junk = 0

----------------------------------------------------------------------------
(* ThreadPool *)

\* notify_one after a task was queued: some sleeping worker of p wakes up.
Notified(p) ==
  LET asleep == {x \in Workers : x[1] = p /\ worker[x] = Asleep}
  IN  IF asleep = {} THEN {{}} ELSE {{x} : x \in asleep}

\* Mutant of Take: the task is left in the queue.
TakeKeep(x) ==
  /\ worker[x] = Ready
  /\ queue[x[1]] # <<>>
  /\ worker' = [worker EXCEPT ![x] = Head(queue[x[1]])]
  /\ queue' = [queue EXCEPT ![x[1]] = IF Len(@) > 1 THEN Tail(@) ELSE @]
  /\ UNCHANGED <<request, main, rsa, stop, answer>>

\* A worker finds a task.
Take(x) ==
  /\ worker[x] = Ready
  /\ queue[x[1]] # <<>>
  /\ worker' = [worker EXCEPT ![x] = Head(queue[x[1]])]
  /\ queue' = [queue EXCEPT ![x[1]] = Tail(@)]
  /\ UNCHANGED <<request, main, rsa, stop, answer>>

\* It finds none and the pool goes on: it waits.
Sleep(x) ==
  /\ worker[x] = Ready
  /\ queue[x[1]] = <<>> /\ ~stop[x[1]]
  /\ worker' = [worker EXCEPT ![x] = Asleep]
  /\ UNCHANGED <<request, main, rsa, queue, stop, answer>>

\* Mutant of End: a worker of a stopped pool looks once more.
EndAgain(x) ==
  /\ worker[x] = Ready
  /\ queue[x[1]] = <<>> /\ stop[x[1]]
  /\ UNCHANGED vars

\* It finds none and the pool is stopped: it returns.
End(x) ==
  /\ worker[x] = Ready
  /\ queue[x[1]] = <<>> /\ stop[x[1]]
  /\ worker' = [worker EXCEPT ![x] = Ended]
  /\ UNCHANGED <<request, main, rsa, queue, stop, answer>>

\* The first half of join: stop is set and all workers are woken.
Stop(p) ==
  /\ stop' = [stop EXCEPT ![p] = TRUE]
  /\ worker' = [x \in Workers |-> IF x[1] = p /\ worker[x] = Asleep THEN Ready ELSE worker[x]]

\* The second: they have all returned.
Joined(p) == \A x \in Workers : x[1] = p => worker[x] = Ended

----------------------------------------------------------------------------
(* The handler *)

\* The value of uint8_t t in the spawning loop.
t == Len(rsa) % Byte

Spawn ==
  /\ main = "spawn"
  /\ t < n_threads
  /\ Len(rsa) < MaxSpawned
  /\ rsa' = Append(rsa, t)
  /\ UNCHANGED <<request, main, pools, answer>>

\* std::thread throws, and the unwinding meets threads nobody joined.
SpawnFail ==
  /\ main = "spawn"
  /\ t < n_threads
  /\ Len(rsa) = MaxSpawned
  /\ main' = "dead"
  /\ UNCHANGED <<request, rsa, pools, answer>>

Spawned ==
  /\ main = "spawn"
  /\ t >= n_threads
  /\ main' = "join"
  /\ UNCHANGED <<request, rsa, pools, answer>>

\* Mutant of JoinRsa: the first thread is not joined.
JoinRsaButOne ==
  /\ main = "join"
  /\ \A k \in 2..Len(rsa) : rsa[k] >= count
  /\ IF strategy = "light"
     THEN main' = "returned" /\ UNCHANGED pools
     ELSE main' = "drain_access" /\ Stop("access") /\ UNCHANGED queue
  /\ UNCHANGED <<request, rsa, answer>>

\* All derive threads are joined; then the access pool is, if there is one.
JoinRsa ==
  /\ main = "join"
  /\ \A k \in 1..Len(rsa) : rsa[k] >= count
  /\ IF strategy = "light"
     THEN main' = "returned" /\ UNCHANGED pools
     ELSE main' = "drain_access" /\ Stop("access") /\ UNCHANGED queue
  /\ UNCHANGED <<request, rsa, answer>>

\* Mutant of JoinAccess: both pools are told to stop before either is joined.
JoinAccessLate ==
  /\ main = "drain_access"
  /\ IF strategy = "parallel"
     THEN Joined("access") /\ main' = "returned" /\ UNCHANGED pools
     ELSE main' = "drain_post" /\ Stop("post") /\ UNCHANGED queue
  /\ UNCHANGED <<request, rsa, answer>>

\* The access pool has been joined; then the post pool is.
JoinAccess ==
  /\ main = "drain_access"
  /\ Joined("access")
  /\ IF strategy = "parallel"
     THEN main' = "returned" /\ UNCHANGED pools
     ELSE main' = "drain_post" /\ Stop("post") /\ UNCHANGED queue
  /\ UNCHANGED <<request, rsa, answer>>

JoinPost ==
  /\ main = "drain_post"
  /\ Joined("post")
  /\ main' = "returned"
  /\ UNCHANGED <<request, rsa, pools, answer>>

----------------------------------------------------------------------------
(* The jobs *)

Alive == main \notin {"returned", "dead"}

\* The uint8_t N that n_threads is passed as.
Stride == n_threads % Byte

\* A thread begins at its index, and goes on by strides.
First(k) == (k - 1) % Byte
Order(k) == IF rsa[k] = First(k) THEN First(k) ELSE Stride

\* eval throws for an order beyond the pool, be there a token to derive or not, and
\* nothing catches it in the thread.
DeriveFail(k) ==
  /\ Alive
  /\ Order(k) > maximum_order
  /\ rsa[k] = First(k) \/ rsa[k] < count
  /\ main' = "dead"
  /\ UNCHANGED <<request, rsa, pools, answer>>

\* Mutant of Derive: the loop runs to count.
DeriveToCount(k) ==
  /\ Alive
  /\ strategy # "light"
  /\ rsa[k] <= count /\ Order(k) <= maximum_order
  /\ queue' = [queue EXCEPT !["access"] = Append(@, rsa[k])]
  /\ \E woken \in Notified("access") :
       worker' = [x \in Workers |-> IF x \in woken THEN Ready ELSE worker[x]]
  /\ rsa' = [rsa EXCEPT ![k] = @ + Stride]
  /\ UNCHANGED <<request, main, stop, answer>>

\* rsa_job: the next token is derived and queued; a worker is notified.
Derive(k) ==
  /\ Alive
  /\ strategy # "light"
  /\ rsa[k] < count /\ Order(k) <= maximum_order
  /\ queue' = [queue EXCEPT !["access"] = Append(@, rsa[k])]
  /\ \E woken \in Notified("access") :
       worker' = [x \in Workers |-> IF x \in woken THEN Ready ELSE worker[x]]
  /\ rsa' = [rsa EXCEPT ![k] = @ + Stride]
  /\ UNCHANGED <<request, main, stop, answer>>

\* The job of the light search: it looks up itself and keeps a list of its own,
\* which the handler appends to the others.
DeriveAndLookUp(k) ==
  /\ Alive
  /\ strategy = "light"
  /\ rsa[k] < count /\ Order(k) <= maximum_order
  /\ listed' = IF rsa[k] \in stored THEN [listed EXCEPT ![rsa[k]] = @ + 1] ELSE listed
  /\ rsa' = [rsa EXCEPT ![k] = @ + Stride]
  /\ UNCHANGED <<request, main, pools, junk>>

\* access_job of search_parallel: the result is pushed under res_mutex, found or
\* not; if not, it is made from the uninitialised r.
AccessAndPush(x) ==
  /\ Alive
  /\ strategy = "parallel"
  /\ x[1] = "access" /\ worker[x] \in Tokens
  /\ IF worker[x] \in stored
     THEN listed' = [listed EXCEPT ![worker[x]] = @ + 1] /\ UNCHANGED junk
     ELSE junk' = junk + 1 /\ UNCHANGED listed
  /\ worker' = [worker EXCEPT ![x] = Ready]
  /\ UNCHANGED <<request, main, rsa, queue, stop>>

\* access_job of search_parallel_callback: what was found is queued for the post
\* pool.  A stopped pool throws, and the job's future swallows it.
AccessAndQueue(x) ==
  /\ Alive
  /\ strategy = "callback"
  /\ x[1] = "access" /\ worker[x] \in Tokens
  /\ LET pass == worker[x] \in stored /\ ~stop["post"]
     IN  /\ queue' = IF pass THEN [queue EXCEPT !["post"] = Append(@, worker[x])] ELSE queue
         /\ \E woken \in IF pass THEN Notified("post") ELSE {{}} :
              worker' = [y \in Workers |-> IF y = x \/ y \in woken THEN Ready ELSE worker[y]]
  /\ UNCHANGED <<request, main, rsa, stop, answer>>

\* post_callback: the result is written to the stream under writer_lock.
Post(x) ==
  /\ Alive
  /\ x[1] = "post" /\ worker[x] \in Tokens
  /\ listed' = [listed EXCEPT ![worker[x]] = @ + 1]
  /\ worker' = [worker EXCEPT ![x] = Ready]
  /\ UNCHANGED <<request, main, rsa, queue, stop, junk>>

Handler == Spawn \/ SpawnFail \/ Spawned \/ JoinRsa \/ JoinAccess \/ JoinPost
Job(k)  == Derive(k) \/ DeriveAndLookUp(k) \/ DeriveFail(k)
Work(x) == Take(x) \/ Sleep(x) \/ End(x) \/ AccessAndPush(x) \/ AccessAndQueue(x) \/ Post(x)

\* The handler has returned, or the process has died.
Done == ~Alive /\ UNCHANGED vars

Next ==
  \/ Handler
  \/ \E k \in 1..Len(rsa) : Job(k)
  \/ \E x \in Workers : Alive /\ Work(x)
  \/ Done

\* The scheduler runs the handler and every thread.
Spec ==
  /\ Init /\ [][Next]_vars
  /\ WF_vars(Handler)
  /\ \A k \in 1..MaxSpawned : WF_vars(k <= Len(rsa) /\ Job(k))
  /\ \A x \in Workers : WF_vars(Alive /\ Work(x))

----------------------------------------------------------------------------
(* Properties *)

\* The range of every variable; a task is a token below count.
TypeOK ==
  /\ strategy \in {"parallel", "callback", "light"}
  /\ cores \in 1..MaxCores
  /\ count \in 0..MaxCount
  /\ stored \in SUBSET (0..(count - 1))
  /\ main \in {"spawn", "join", "drain_access", "drain_post", "returned", "dead"}
  /\ rsa \in Seq(Nat) /\ Len(rsa) <= MaxSpawned
  /\ queue \in [Pools -> Seq(0..(count - 1))]
  /\ stop \in [Pools -> BOOLEAN]
  /\ worker \in [Workers -> {Ready, Asleep, Ended} \cup 0..(count - 1)]
  /\ listed \in [Tokens -> Nat]
  /\ junk \in Nat

EnoughCores == strategy = "parallel" => cores > AccessThreads

\* A search that returns answers what the sequential loop of SophosServer::search
\* would, in some order: every entry once; search_parallel adds a result of no
\* meaning for each token that has none.
AnswersAsSequential ==
  main = "returned" /\ EnoughCores =>
    /\ \A i \in Tokens : listed[i] = IF i \in stored THEN 1 ELSE 0
    /\ junk = IF strategy = "parallel" THEN count - Cardinality(stored) ELSE 0

\* With as many cores as access threads search_parallel spawns no thread and
\* answers nothing, whatever is stored; with fewer it never answers: the
\* difference wraps, and the loop spawns until a thread asks for a power beyond
\* the server's pool, or there are no more threads, and the process dies.
NoCoresNoAnswer ==
  /\ main = "returned" /\ strategy = "parallel" => cores >= AccessThreads
  /\ main = "dead" => strategy = "parallel" /\ cores < AccessThreads
  /\ main = "returned" /\ strategy = "parallel" /\ cores = AccessThreads =>
       junk = 0 /\ \A i \in Tokens : listed[i] = 0

\* No job is left when the handler returns: jobs hold references to its locals.
NothingOutlives ==
  main = "returned" =>
    /\ \A k \in 1..Len(rsa) : rsa[k] >= count
    /\ strategy # "light" => Joined("access") /\ queue["access"] = <<>>
    /\ strategy = "callback" => Joined("post") /\ queue["post"] = <<>>

\* While it runs, no token is looked up twice: every token is with one derive
\* thread, or in one place of the pipeline, or in the answer.
LookedUpOnce ==
  EnoughCores =>
    \A i \in Tokens :
      listed[i] + Cardinality({x \in Workers : worker[x] = i})
        + Cardinality({k \in 1..Len(queue["access"]) : queue["access"][k] = i})
        + Cardinality({k \in 1..Len(queue["post"]) : queue["post"][k] = i})
        + Cardinality({k \in 1..Len(rsa) : rsa[k] <= i /\ i < count /\ (i - rsa[k]) % Stride = 0}) <= 1

\* Every search comes to its end, or the process does.
Returns == <>(main \in {"returned", "dead"})
=============================================================================
