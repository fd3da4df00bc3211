-------------------------- MODULE UpdateCompletion --------------------------
(***************************************************************************)
(* SophosClientRunner around its updates: the asynchronous ones, whose     *)
(* tags come back on a completion queue that update_completion_loop reads  *)
(* and counts; wait_updates_completion; load_inverted_index, which feeds   *)
(* an update session from a thread pool; and the destructor.               *)
(*                                                                         *)
(* The predicate of update_completion_cv_ can only become true when the    *)
(* loop adds to update_completed_count_ and notifies, both under the       *)
(* mutex, so a wait is the guard launched = completed.  SearchPipeline has *)
(* the threads of a pool; here a pool is its queue and what every worker   *)
(* is at.  Updates have no content: SophosIndex has their counters.        *)
(***************************************************************************)
EXTENDS Naturals, Sequences, FiniteSets

CONSTANTS
  Workers,     \* workers of load_inverted_index's pool
  MaxUpdates,  \* bound: updates
  MaxFaults    \* bound: broken streams and cancelled calls

ASSUME BoundsAssumption == MaxUpdates \in Nat /\ MaxFaults \in Nat

Updates == 1..MaxUpdates

\* The user's thread is in none of the runner's functions.
Outside == {"idle", "gone"}
Waiting == {"wait", "load_wait", "destroy"}

VARIABLES
  main,       \* where the user's thread is
  stop,       \* stop_update_completion_thread_
  launched, completed,
  loop,       \* update_completion_loop: "test", "next", "count" or "ended"
  shutdown,   \* update_cq_ was shut down
  events,     \* tags ready in update_cq_
  tagged,     \* asynchronous updates whose tag is with gRPC
  queue, worker,  \* the pool: lists of updates to come, and what each worker has left
  session,    \* bulk_update_state_: "none", "up" or "broken" (is_up, dead stream)
  handed,     \* updates made for the session since it was started, written or not
  wire,       \* the session's updates the server has not stored
  handling,   \* updates of calls and of ended streams that a handler has not stored
  stored,     \* updates in the server's index
  made,       \* history: updates made so far
  loaded,     \* history: updates handed to sessions that a load ended and called a success
  called,     \* history: updates that async_update made a call for
  cancelled,  \* history: those gRPC cancelled
  lost,       \* history: updates that broke on the way
  faults

counts   == <<launched, completed>>
cq       == <<shutdown, events, tagged>>
pool     == <<queue, worker>>
stream   == <<session, handed, wire>>
history  == <<loaded, called, cancelled, lost, faults>>
vars == <<main, stop, counts, loop, cq, pool, stream, handling, stored, made, history>>

Init ==
  /\ main = "idle"
  /\ stop \in BOOLEAN   \* no constructor sets it
  /\ launched = 0 /\ completed = 0
  /\ loop = "test"
  /\ shutdown = FALSE /\ events = {} /\ tagged = {}
  /\ queue = <<>> /\ worker = [x \in Workers |-> <<>>]
  /\ session = "none" /\ handed = {} /\ wire = <<>>
  /\ handling = {} /\ stored = {} /\ made = 0
  /\ loaded = {} /\ called = {} /\ cancelled = {} /\ lost = {} /\ faults = 0

----------------------------------------------------------------------------
(* update_in_session *)

\* Write under the session's lock; a broken stream is only logged.
Write(u) ==
  /\ session # "none"
  /\ IF session = "up"
     THEN wire' = Append(wire, u) /\ UNCHANGED lost
     ELSE lost' = lost \cup {u} /\ UNCHANGED wire
  /\ UNCHANGED session

\* async_update or update, called while a session is up.
UpdateInSession ==
  /\ main = "idle"
  /\ made < MaxUpdates
  /\ made' = made + 1
  /\ Write(made')
  /\ handed' = handed \cup {made'}
  /\ UNCHANGED <<main, stop, counts, loop, cq, pool, handling, stored, loaded, called, cancelled, faults>>

----------------------------------------------------------------------------
(* async_update without a session *)

\* The call starts and is counted.
AsyncLaunch ==
  /\ main = "idle" /\ session = "none"
  /\ made < MaxUpdates
  /\ made' = made + 1
  /\ handling' = handling \cup {made'}
  /\ launched' = launched + 1
  /\ called' = called \cup {made'}
  /\ main' = "async"
  /\ UNCHANGED <<stop, completed, loop, cq, pool, stream, stored, loaded, cancelled, lost, faults>>

\* Finish passes the tag to gRPC; the function returns.
AsyncFinish ==
  /\ main = "async"
  /\ tagged' = tagged \cup {made}
  /\ main' = "idle"
  /\ UNCHANGED <<stop, counts, loop, shutdown, events, pool, stream, handling, stored, made, history>>

\* The call ends, and its tag is ready.
Reply(u) ==
  /\ u \in tagged \ handling
  /\ tagged' = tagged \ {u}
  /\ events' = events \cup {u}
  /\ UNCHANGED <<main, stop, counts, loop, shutdown, pool, stream, handling, stored, made, history>>

\* The ClientContext went with async_update's frame, and gRPC may cancel a call
\* whose context is gone.  The tag comes back all the same; the handler may have
\* the request or not.
Cancel(u) ==
  /\ u \in tagged \cap handling
  /\ faults < MaxFaults
  /\ faults' = faults + 1
  /\ tagged' = tagged \ {u}
  /\ events' = events \cup {u}
  /\ cancelled' = cancelled \cup {u}
  /\ \/ UNCHANGED <<handling, lost>>
     \/ handling' = handling \ {u} /\ lost' = lost \cup {u}
  /\ UNCHANGED <<main, stop, counts, loop, shutdown, pool, stream, stored, made, loaded, called>>

----------------------------------------------------------------------------
(* update_completion_loop *)

LoopTest ==
  /\ loop = "test"
  /\ loop' = IF stop THEN "ended" ELSE "next"
  /\ UNCHANGED <<main, stop, counts, cq, pool, stream, handling, stored, made, history>>

\* Mutant of LoopNext: stop is tested once more when a tag is there.
LoopNextLost(u) ==
  /\ loop = "next"
  /\ u \in events
  /\ events' = events \ {u}
  /\ loop' = IF stop THEN "ended" ELSE "count"
  /\ UNCHANGED <<main, stop, counts, shutdown, tagged, pool, stream, handling, stored, made, history>>

\* Next returns a tag,
LoopNext(u) ==
  /\ loop = "next"
  /\ u \in events
  /\ events' = events \ {u}
  /\ loop' = "count"
  /\ UNCHANGED <<main, stop, counts, shutdown, tagged, pool, stream, handling, stored, made, history>>

\* or false: the queue was shut down and is drained.
LoopShut ==
  /\ loop = "next"
  /\ shutdown /\ events = {} /\ tagged = {}
  /\ loop' = "ended"
  /\ UNCHANGED <<main, stop, counts, cq, pool, stream, handling, stored, made, history>>

LoopCount ==
  /\ loop = "count"
  /\ completed' = completed + 1
  /\ loop' = "test"
  /\ UNCHANGED <<main, stop, launched, cq, pool, stream, handling, stored, made, history>>

----------------------------------------------------------------------------
(* wait_updates_completion *)

\* The loop is told to stop, then the predicate is waited for.
Wait ==
  /\ main = "idle"
  /\ stop' = TRUE
  /\ main' = "wait"
  /\ UNCHANGED <<counts, loop, cq, pool, stream, handling, stored, made, history>>

\* Mutant of Waited: the first notification ends the wait.
WaitedOnce ==
  /\ main = "wait"
  /\ launched = completed \/ completed > 0
  /\ main' = "idle"
  /\ UNCHANGED <<stop, counts, loop, cq, pool, stream, handling, stored, made, history>>

Waited ==
  /\ main = "wait"
  /\ launched = completed
  /\ main' = "idle"
  /\ UNCHANGED <<stop, counts, loop, cq, pool, stream, handling, stored, made, history>>

----------------------------------------------------------------------------
(* load_inverted_index *)

\* The pool is made and the session started, or the one still up is used.  (A
\* parser that cannot be made ends the load before anything happens.)
Load ==
  /\ main = "idle"
  /\ session' = IF session = "none" THEN "up" ELSE session
  /\ main' = "parse"
  /\ UNCHANGED <<stop, counts, loop, cq, pool, handed, wire, handling, stored, made, history>>

\* add_list_callback: a keyword with n documents is enqueued.
AddList(n) ==
  /\ main = "parse"
  /\ n \in 1..(MaxUpdates - made)
  /\ queue' = Append(queue, [i \in 1..n |-> made + i])
  /\ made' = made + n
  /\ handed' = handed \cup (made + 1)..(made + n)
  /\ UNCHANGED <<main, stop, counts, loop, cq, worker, session, wire, handling, stored, history>>

Parsed ==
  /\ main = "parse"
  /\ main' = "join"
  /\ UNCHANGED <<stop, counts, loop, cq, pool, stream, handling, stored, made, history>>

\* parse throws; the pool's destructor joins it on the way to the catch.
ParseFail ==
  /\ main = "parse"
  /\ main' = "unwind"
  /\ UNCHANGED <<stop, counts, loop, cq, pool, stream, handling, stored, made, history>>

\* A worker takes a keyword,
Take(x) ==
  /\ worker[x] = <<>> /\ queue # <<>>
  /\ worker' = [worker EXCEPT ![x] = Head(queue)]
  /\ queue' = Tail(queue)
  /\ UNCHANGED <<main, stop, counts, loop, cq, stream, handling, stored, made, history>>

\* and updates its documents one by one with async_update.
Work(x) ==
  /\ worker[x] # <<>>
  /\ Write(Head(worker[x]))
  /\ worker' = [worker EXCEPT ![x] = Tail(@)]
  /\ UNCHANGED <<main, stop, counts, loop, cq, queue, handed, handling, stored, made, loaded, called,
                 cancelled, faults>>

Drained == queue = <<>> /\ \A x \in Workers : worker[x] = <<>>

\* Mutant of Joined: the queue is empty, but the workers are not waited for.
JoinedQueue ==
  /\ main = "join"
  /\ queue = <<>>
  /\ stop' = TRUE
  /\ main' = "load_wait"
  /\ UNCHANGED <<counts, loop, cq, pool, stream, handling, stored, made, history>>

\* pool.join has returned; wait_updates_completion begins.
Joined ==
  /\ main = "join"
  /\ Drained
  /\ stop' = TRUE
  /\ main' = "load_wait"
  /\ UNCHANGED <<counts, loop, cq, pool, stream, handling, stored, made, history>>

\* It ends, and so do the writes.
LoadWaited ==
  /\ main = "load_wait"
  /\ launched = completed
  /\ main' = "finish"
  /\ UNCHANGED <<stop, counts, loop, cq, pool, stream, handling, stored, made, history>>

\* Finish waits for the handler, or for the error.  Load returns true.
EndSession ==
  /\ main = "finish"
  /\ session = "up" => wire = <<>>
  /\ session' = "none" /\ handed' = {}
  /\ loaded' = loaded \cup handed
  /\ main' = "idle"
  /\ UNCHANGED <<stop, counts, loop, cq, pool, wire, handling, stored, made, called,
                 cancelled, lost, faults>>

\* Mutant of Unwound: the exception passes the pool by.
UnwoundEarly ==
  /\ main = "unwind"
  /\ main' = "idle"
  /\ UNCHANGED <<stop, counts, loop, cq, pool, stream, handling, stored, made, history>>

\* Load returns false; the session is left up.
Unwound ==
  /\ main = "unwind"
  /\ Drained
  /\ main' = "idle"
  /\ UNCHANGED <<stop, counts, loop, cq, pool, stream, handling, stored, made, history>>

----------------------------------------------------------------------------
(* The server and the network *)

StoreCall(u) ==
  /\ u \in handling
  /\ handling' = handling \ {u}
  /\ stored' = stored \cup {u}
  /\ UNCHANGED <<main, stop, counts, loop, cq, pool, stream, made, history>>

StoreStream ==
  /\ wire # <<>>
  /\ wire' = Tail(wire)
  /\ stored' = stored \cup {Head(wire)}
  /\ UNCHANGED <<main, stop, counts, loop, cq, pool, session, handed, handling, made, history>>

\* The stream ends; the first n of its updates had reached the handler.
CutStream(n) ==
  /\ n \in 0..Len(wire)
  /\ handling' = handling \cup {wire[i] : i \in 1..n}
  /\ lost' = lost \cup {wire[i] : i \in (n + 1)..Len(wire)}
  /\ wire' = <<>>

Break(n) ==
  /\ session = "up"
  /\ faults < MaxFaults
  /\ faults' = faults + 1
  /\ CutStream(n)
  /\ session' = "broken"
  /\ UNCHANGED <<main, stop, counts, loop, cq, pool, handed, stored, made, loaded, called,
                 cancelled>>

----------------------------------------------------------------------------
(* ~SophosClientRunner *)

\* Mutant of Destroy: the completion queue is left as it is.
DestroyOpen ==
  /\ main = "idle"
  /\ stop' = TRUE
  /\ main' = "destroy"
  /\ UNCHANGED <<counts, loop, cq, pool, stream, handling, stored, made, history>>

\* Shutdown, and wait_updates_completion begins.
Destroy ==
  /\ main = "idle"
  /\ shutdown' = TRUE
  /\ stop' = TRUE
  /\ main' = "destroy"
  /\ UNCHANGED <<counts, loop, events, tagged, pool, stream, handling, stored, made, history>>

Destroyed ==
  /\ main = "destroy"
  /\ launched = completed
  /\ main' = "join_loop"
  /\ UNCHANGED <<stop, counts, loop, cq, pool, stream, handling, stored, made, history>>

\* The loop's thread is joined; a session still up is cut with its context.
LoopJoined(n) ==
  /\ main = "join_loop"
  /\ loop = "ended"
  /\ CutStream(n)
  /\ session' = "none" /\ handed' = {}
  /\ main' = "gone"
  /\ UNCHANGED <<stop, counts, loop, cq, pool, stored, made, loaded, called, cancelled, faults>>

----------------------------------------------------------------------------
\* What the user's thread does next by itself, once it is in a function.
MainStep ==
  \/ AsyncFinish
  \/ Waited
  \/ Parsed \/ ParseFail \/ Joined \/ LoadWaited \/ EndSession \/ Unwound
  \/ Destroyed \/ \E n \in 0..MaxUpdates : LoopJoined(n)

LoopStep == LoopTest \/ LoopShut \/ LoopCount \/ \E u \in Updates : LoopNext(u)
PoolStep(x) == Take(x) \/ Work(x)
Network  == StoreStream \/ \E u \in Updates : StoreCall(u) \/ Reply(u)

Next ==
  \/ AsyncLaunch \/ UpdateInSession \/ Wait \/ Load \/ Destroy
  \/ \E n \in Updates : AddList(n)
  \/ MainStep
  \/ LoopStep
  \/ \E x \in Workers : PoolStep(x)
  \/ Network
  \/ \E u \in Updates : Cancel(u)
  \/ \E n \in 0..MaxUpdates : Break(n)

\* The scheduler runs every thread, and gRPC delivers what it was given.
Fairness ==
  /\ WF_vars(MainStep)
  /\ WF_vars(LoopStep)
  /\ \A x \in Workers : WF_vars(PoolStep(x))
  /\ WF_vars(Network)

Spec == Init /\ [][Next]_vars /\ Fairness

----------------------------------------------------------------------------
(* Properties *)

\* The range of every variable; and every update launched is counted, or its tag
\* is with gRPC, in the queue or on its way into the count.
TypeOK ==
  /\ main \in Outside \cup Waiting \cup
              {"async", "parse", "join", "unwind", "finish", "join_loop"}
  /\ stop \in BOOLEAN /\ shutdown \in BOOLEAN
  /\ loop \in {"test", "next", "count", "ended"}
  /\ events \in SUBSET Updates /\ tagged \in SUBSET Updates
  /\ queue \in Seq(Seq(Updates)) /\ worker \in [Workers -> Seq(Updates)]
  /\ session \in {"none", "up", "broken"}
  /\ handed \in SUBSET Updates /\ wire \in Seq(Updates)
  /\ handling \in SUBSET Updates /\ stored \in SUBSET Updates
  /\ loaded \in SUBSET Updates /\ lost \in SUBSET Updates
  /\ called \in SUBSET Updates /\ cancelled \in SUBSET Updates
  /\ made \in 0..MaxUpdates /\ faults \in 0..MaxFaults
  /\ launched \in 0..MaxUpdates
  /\ launched = completed + Cardinality(tagged \cup events)
                + (IF loop = "count" THEN 1 ELSE 0) + (IF main = "async" THEN 1 ELSE 0)

\* Two counts, compared for equality while another thread adds to one of them,
\* stand for all the calls: when a wait for the updates returns, in a load and in
\* the destructor too, every update that async_update called for is in the
\* server's index, unless gRPC cancelled its call.
WaitedStored ==
  [][(main \in Waiting /\ main' \notin Waiting) => (called \subseteq stored \cup cancelled)]_vars

\* When load_inverted_index returns true, every update of the session is stored,
\* but for those of a stream that broke: lost, or with the handler it left behind.
LoadedStored == loaded \subseteq stored \cup handling \cup lost

\* Nothing refers to a frame or a runner that is gone: outside its functions no
\* worker of a load is left, after an exception either, and behind the destructor
\* neither the loop nor a tag whose reply and status gRPC still fills.
NothingOutlives ==
  /\ main \in Outside => Drained
  /\ main = "gone" => loop = "ended" /\ tagged = {} /\ events = {}

\* As long as no update was launched outside a session, every function of the
\* runner returns, the destructor too, whatever value stop started with.
Returns == [](launched = 0) => (main \notin Outside ~> main \in Outside)

\* wait_updates_completion returns ("Wait for updates completion ... done",
\* sophos_client_runner.cpp:321): violated, for the loop stops before the counts meet.
WaitReturns == main \in Waiting ~> main \notin Waiting
=============================================================================
