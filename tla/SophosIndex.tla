---------------------------- MODULE SophosIndex ----------------------------
(***************************************************************************)
(* Updates and searches of Sophos: a client (MediumStorageSophosClient and *)
(* SophosClientRunner) that counts the entries of every keyword on disk,   *)
(* and a server (SophosServer, SophosImpl) that finds them by walking from *)
(* the newest search token to the oldest.                                  *)
(*                                                                         *)
(* update_request reads the counter under token_map_mtx_, releases it, and *)
(* takes it again to add or set the counter; between the two another       *)
(* thread of the load generators may come.  Outside a session an update is *)
(* a unary call, inside one it is written to the session's stream, or      *)
(* still a unary call if it is made with a counter; every status is        *)
(* dropped.                                                                *)
(*                                                                         *)
(* invert_mult(ST0, n) is the token with number n and eval takes a token   *)
(* to the one before, so a token is a keyword and a number, and hashes of  *)
(* distinct tokens differ.  An update is named by its turn; it adds a      *)
(* document of its own.                                                    *)
(***************************************************************************)
EXTENDS Naturals, Sequences, FiniteSets, Functions

CONSTANTS
  Keywords,
  Threads,      \* threads that call the client's update functions
  Overflow,     \* keywords whose counter is in the overflow bucket of counter_map_
  MaxUpdates,   \* bound: updates
  MaxSessions,  \* bound: update sessions
  MaxFaults,    \* bound: broken calls, broken streams, server restarts
  MaxKills,     \* bound: deaths of the client without its destructor
  None          \* no counter, no entry, no query

ASSUME BoundsAssumption ==
  /\ Overflow \subseteq Keywords
  /\ MaxUpdates \in Nat /\ MaxSessions \in Nat /\ MaxFaults \in Nat /\ MaxKills \in Nat

Updates == 1..MaxUpdates
Labels  == 0..MaxUpdates
Tokens  == Keywords \X Labels

\* A thread of the client: it has the counter c of w (the mutex is free again),
\* or it has made the request of update u and sends it, or waits for its status.
Jobs == [at : {"got"}, w : Keywords, c : Labels \cup {None}]
        \cup [at : {"send", "wait"}, u : Updates]
Queries == [w : Keywords, todo : SUBSET Labels, found : SUBSET Updates,
            base : SUBSET Updates]
Answers == [w : Keywords, inds : SUBSET Updates, whole : BOOLEAN]

ASSUME NoneAssumption ==
  /\ None \notin Labels /\ None \notin Updates
  /\ None \notin Jobs /\ None \notin Queries /\ None \notin Answers
  /\ None \notin [w : Keywords, base : SUBSET Updates]

VARIABLES
  up,           \* the client runs
  counter_map,  \* per keyword: the number of its newest token, or None
  flushed,      \* the counters as the last destructor wrote them, None before the first
  job,          \* per thread: how far its update is, or None
  session,      \* bulk_update_state_: "closed", "open", or "broken" (is_up, dead stream)
  sent,         \* the updates the session has taken
  streams,      \* per session: what its handler has not stored
  calls,        \* unary updates a handler has not stored
  edb,          \* the server's entries
  query, answer,  \* the search under way and the last one
  made,         \* history: the token of every update
  acked, lost,  \* history: updates a status acknowledged; updates that broke on the way
  disturbed,    \* history: keywords two threads updated at once, or whose counter a kill set back
  faults, kills

client  == <<up, counter_map, flushed>>
wires   == <<session, sent, streams, calls>>
search  == <<query, answer>>
history == <<made, acked, lost, disturbed>>
vars == <<client, job, wires, edb, search, history, faults, kills>>

Init ==
  /\ up = TRUE
  /\ counter_map = [w \in Keywords |-> None]
  /\ flushed = None
  /\ job = [t \in Threads |-> None]
  /\ session = "closed"
  /\ sent = {}
  /\ streams = <<>>
  /\ calls = {}
  /\ edb = [k \in Tokens |-> None]
  /\ query = None
  /\ answer = None
  /\ made = <<>>
  /\ acked = {} /\ lost = {} /\ disturbed = {}
  /\ faults = 0 /\ kills = 0

Count(w) == IF counter_map[w] = None THEN {} ELSE 0..counter_map[w]

\* What a search sent now would find, were nothing stored meanwhile.
Visible(w) == {edb[<<w, l>>] : l \in Count(w)} \ {None}

At(t, step) == job[t] # None /\ job[t].at = step
Idle == up /\ \A t \in Threads : job[t] = None
Current == Len(streams)
\* Requests on their way to a handler.
OnWire == calls \cup UNION {Range(streams[i]) : i \in 1..Current}

----------------------------------------------------------------------------
(* update_request, from several threads *)

\* The first locked section: the counter is read.
GetCounter(t, w) ==
  /\ up
  /\ query = None
  /\ job[t] = None
  /\ Len(made) + Cardinality({u \in Threads : At(u, "got")}) < MaxUpdates
  /\ job' = [job EXCEPT ![t] = [at |-> "got", w |-> w, c |-> counter_map[w]]]
  /\ disturbed' = disturbed \cup {v \in {w} : \E u \in Threads : At(u, "got") /\ job[u].w = w}
  /\ UNCHANGED <<client, wires, edb, search, made, acked, lost, faults, kills>>

\* The update of thread t is made for the token with number l.
Make(t, l) ==
  /\ made' = Append(made, <<job[t].w, l>>)
  /\ job' = [job EXCEPT ![t] = [at |-> "send", u |-> Len(made) + 1]]

\* The second locked section for a keyword that was not there.  bucket_map::add
\* does not look for the key: a second copy goes behind the first and is
\* shadowed by it, or into the overflow bucket, which is searched first.
AddCounter(t) ==
  /\ At(t, "got")
  /\ job[t].c = None
  /\ \E c \in {0} \cup ({counter_map[job[t].w]} \ {None}) :
       counter_map' = [counter_map EXCEPT ![job[t].w] = c]
  /\ Make(t, 0)
  /\ UNCHANGED <<up, flushed, wires, edb, search, acked, lost, disturbed, faults, kills>>

\* Mutant of SetCounter: the counter runs ahead of the token.
SetCounterAhead(t) ==
  /\ At(t, "got")
  /\ job[t].c # None
  /\ counter_map' = [counter_map EXCEPT ![job[t].w] = job[t].c + 2]
  /\ Make(t, job[t].c + 1)
  /\ UNCHANGED <<up, flushed, wires, edb, search, acked, lost, disturbed, faults, kills>>

\* Mutant of SetCounter: the counter is incremented where it is.
SetCounterInPlace(t) ==
  /\ At(t, "got")
  /\ job[t].c # None
  /\ counter_map' = [counter_map EXCEPT ![job[t].w] = @ + 1]
  /\ Make(t, job[t].c + 1)
  /\ UNCHANGED <<up, flushed, wires, edb, search, acked, lost, disturbed, faults, kills>>

\* The second locked section otherwise: the counter is set from what was read.
SetCounter(t) ==
  /\ At(t, "got")
  /\ job[t].c # None
  /\ counter_map' = [counter_map EXCEPT ![job[t].w] = job[t].c + 1]
  /\ Make(t, job[t].c + 1)
  /\ UNCHANGED <<up, flushed, wires, edb, search, acked, lost, disturbed, faults, kills>>

\* update_in_session: the request is written under the session's lock.  Write on
\* a broken stream is only logged.
SendInSession(t) ==
  /\ At(t, "send")
  /\ session # "closed"
  /\ IF session = "open"
     THEN /\ streams' = [streams EXCEPT ![Current] = Append(@, job[t].u)]
          /\ UNCHANGED lost
     ELSE /\ lost' = lost \cup {job[t].u}
          /\ UNCHANGED streams
  /\ sent' = sent \cup {job[t].u}
  /\ job' = [job EXCEPT ![t] = None]
  /\ UNCHANGED <<client, session, calls, edb, search, made, acked, disturbed, faults, kills>>

\* update outside a session, or update_with_counter, which does not ask whether
\* there is one: a unary call.
SendCall(t) ==
  /\ At(t, "send")
  /\ calls' = calls \cup {job[t].u}
  /\ job' = [job EXCEPT ![t].at = "wait"]
  /\ UNCHANGED <<client, session, sent, streams, edb, search, history, faults, kills>>

\* It returns; the status says OK.
CallReturn(t) ==
  /\ At(t, "wait")
  /\ job[t].u \notin calls
  /\ acked' = acked \cup {job[t].u}
  /\ job' = [job EXCEPT ![t] = None]
  /\ UNCHANGED <<client, wires, edb, search, made, lost, disturbed, faults, kills>>

\* Or it breaks: before the request arrived, or after, its handler going on.
CallBreak(t) ==
  /\ At(t, "wait")
  /\ faults < MaxFaults
  /\ faults' = faults + 1
  /\ job' = [job EXCEPT ![t] = None]
  /\ \/ UNCHANGED <<calls, lost>>
     \/ /\ job[t].u \in calls
        /\ calls' = calls \ {job[t].u}
        /\ lost' = lost \cup {job[t].u}
  /\ UNCHANGED <<client, session, sent, streams, edb, search, made, acked, disturbed, kills>>

----------------------------------------------------------------------------
(* Sessions, which the main thread opens and closes around its workers *)

StartSession ==
  /\ Idle
  /\ query = None
  /\ session = "closed"
  /\ Current < MaxSessions
  /\ session' = "open"
  /\ streams' = Append(streams, <<>>)
  /\ UNCHANGED <<client, job, sent, calls, edb, search, history, faults, kills>>

\* Mutant of EndSession: Finish is not waited for.
EndSessionEarly ==
  /\ Idle
  /\ query = None
  /\ session # "closed"
  /\ acked' = IF session = "open" THEN acked \cup sent ELSE acked
  /\ session' = "closed"
  /\ sent' = {}
  /\ UNCHANGED <<client, job, streams, calls, edb, search, made, lost, disturbed, faults, kills>>

\* WritesDone, then Finish, which waits for the handler or for the error.
EndSession ==
  /\ Idle
  /\ query = None
  /\ session # "closed"
  /\ session = "open" => streams[Current] = <<>>
  /\ acked' = IF session = "open" THEN acked \cup sent ELSE acked
  /\ session' = "closed"
  /\ sent' = {}
  /\ UNCHANGED <<client, job, streams, calls, edb, search, made, lost, disturbed, faults, kills>>

\* The stream breaks; of what is on it the first n requests had arrived.
SessionBreak(n) ==
  /\ session = "open"
  /\ faults < MaxFaults
  /\ n <= Len(streams[Current])
  /\ faults' = faults + 1
  /\ session' = "broken"
  /\ streams' = [streams EXCEPT ![Current] = SubSeq(@, 1, n)]
  /\ lost' = lost \cup Range(SubSeq(streams[Current], n + 1, Len(streams[Current])))
  /\ UNCHANGED <<client, job, sent, calls, edb, search, made, acked, disturbed, kills>>

----------------------------------------------------------------------------
(* The server *)

\* Handler update.
ServerUpdate(u) ==
  /\ u \in calls
  /\ edb' = [edb EXCEPT ![made[u]] = u]
  /\ calls' = calls \ {u}
  /\ UNCHANGED <<client, job, session, sent, streams, search, history, faults, kills>>

\* Mutant of ServerBulk: the request is read twice and stored once.
ServerBulkSkip(i) ==
  /\ streams[i] # <<>>
  /\ edb' = [edb EXCEPT ![made[Head(streams[i])]] = Head(streams[i])]
  /\ streams' = [streams EXCEPT ![i] = IF Len(@) > 1 THEN Tail(Tail(@)) ELSE Tail(@)]
  /\ UNCHANGED <<client, job, session, sent, calls, search, history, faults, kills>>

\* Handler bulk_update, which takes no lock: one turn of its loop.
ServerBulk(i) ==
  /\ streams[i] # <<>>
  /\ edb' = [edb EXCEPT ![made[Head(streams[i])]] = Head(streams[i])]
  /\ streams' = [streams EXCEPT ![i] = Tail(@)]
  /\ UNCHANGED <<client, job, session, sent, calls, search, history, faults, kills>>

\* The server process ends and is started again; the database is as it was.
ServerRestart ==
  /\ faults < MaxFaults
  /\ faults' = faults + 1
  /\ lost' = lost \cup OnWire
  /\ calls' = {}
  /\ streams' = [i \in 1..Current |-> <<>>]
  /\ session' = IF session = "open" THEN "broken" ELSE session
  /\ job' = [t \in Threads |-> IF At(t, "wait") THEN None ELSE job[t]]
  /\ query' = None
  /\ answer' = IF query = None THEN answer
               ELSE [w |-> query.w, inds |-> {}, whole |-> FALSE]
  /\ UNCHANGED <<client, sent, edb, made, acked, disturbed, kills>>

----------------------------------------------------------------------------
(* Searches: the programs search when no thread of theirs is updating *)

\* search_request: no counter, nothing to look for; else the tokens 0 .. counter.
SearchBegin(w) ==
  /\ Idle
  /\ query = None
  /\ query' = [w |-> w, todo |-> Count(w), found |-> {}, base |-> Visible(w)]
  /\ answer' = None
  /\ UNCHANGED <<client, job, wires, edb, history, faults, kills>>

\* A token is looked up.  The threads of a parallel search reach the tokens in
\* any order; SearchPipeline has the threads.
SearchStep(l) ==
  /\ query # None
  /\ l \in query.todo
  /\ query' = [query EXCEPT !.todo = @ \ {l},
                            !.found = @ \cup ({edb[<<query.w, l>>]} \ {None})]
  /\ UNCHANGED <<client, job, wires, edb, answer, history, faults, kills>>

\* Mutant of SearchReturn: the oldest token is left out.
SearchReturnShort ==
  /\ query # None
  /\ query.todo \subseteq {0}
  /\ answer' = [w |-> query.w, inds |-> query.found, whole |-> TRUE]
  /\ query' = None
  /\ UNCHANGED <<client, job, wires, edb, history, faults, kills>>

SearchReturn ==
  /\ query # None
  /\ query.todo = {}
  /\ answer' = [w |-> query.w, inds |-> query.found, whole |-> TRUE]
  /\ query' = None
  /\ UNCHANGED <<client, job, wires, edb, history, faults, kills>>

\* Read returns false early; the client returns what it has.
SearchBreak ==
  /\ query # None
  /\ faults < MaxFaults
  /\ faults' = faults + 1
  /\ \E part \in SUBSET query.found :
       answer' = [w |-> query.w, inds |-> part, whole |-> FALSE]
  /\ query' = None
  /\ UNCHANGED <<client, job, wires, edb, history, kills>>

----------------------------------------------------------------------------
(* The client's end and start *)

\* The runner is destroyed, and counter_map_ flushed.  A session still open is
\* cancelled first: SessionBreak.
Exit ==
  /\ Idle
  /\ query = None
  /\ session # "open"
  /\ up' = FALSE
  /\ flushed' = counter_map
  /\ session' = "closed"
  /\ sent' = {}
  /\ UNCHANGED <<counter_map, job, streams, calls, edb, search, history, faults, kills>>

\* The counters a killed client leaves: the buckets are shared file mappings, the
\* overflow bucket is what flush last wrote.
CountersLeft ==
  [w \in Keywords |->
     IF w \notin Overflow THEN counter_map[w] ELSE IF flushed = None THEN None ELSE flushed[w]]

Kill ==
  /\ up
  /\ kills < MaxKills
  /\ kills' = kills + 1
  /\ up' = FALSE
  /\ counter_map' = CountersLeft
  /\ disturbed' = disturbed \cup {w \in Keywords : CountersLeft[w] # counter_map[w]}
  /\ lost' = lost \cup {job[t].u : t \in {t \in Threads : At(t, "send")}}
  /\ job' = [t \in Threads |-> None]
  /\ session' = "closed"
  /\ sent' = {}
  /\ query' = None
  /\ answer' = None
  /\ UNCHANGED <<flushed, streams, calls, edb, made, acked, faults>>

\* Mutant of Start: the client starts over without its counters.
StartEmpty ==
  /\ ~up
  /\ flushed # None
  /\ up' = TRUE
  /\ counter_map' = [w \in Keywords |-> None]
  /\ UNCHANGED <<flushed, job, wires, edb, search, history, faults, kills>>

\* construct_from_directory.  A map that was never flushed has no meta.bin and
\* cannot be opened.
Start ==
  /\ ~up
  /\ flushed # None
  /\ up' = TRUE
  /\ UNCHANGED <<counter_map, flushed, job, wires, edb, search, history, faults, kills>>

----------------------------------------------------------------------------
Update(t) == AddCounter(t) \/ SetCounter(t) \/ SendInSession(t) \/ SendCall(t) \/ CallReturn(t)
Search == (\E l \in Labels : SearchStep(l)) \/ SearchReturn
Serve  == (\E u \in Updates : ServerUpdate(u)) \/ (\E i \in 1..Current : ServerBulk(i))

Next ==
  \/ \E t \in Threads, w \in Keywords : GetCounter(t, w)
  \/ \E t \in Threads : Update(t) \/ CallBreak(t)
  \/ StartSession \/ EndSession \/ (\E n \in 0..MaxUpdates : SessionBreak(n))
  \/ Serve \/ ServerRestart
  \/ (\E w \in Keywords : SearchBegin(w)) \/ Search \/ SearchBreak
  \/ Exit \/ Kill \/ Start

Spec == Init /\ [][Next]_vars

----------------------------------------------------------------------------
(* Properties *)

\* The range of every variable.
TypeOK ==
  /\ up \in BOOLEAN
  /\ counter_map \in [Keywords -> Labels \cup {None}]
  /\ flushed \in [Keywords -> Labels \cup {None}] \cup {None}
  /\ job \in [Threads -> Jobs \cup {None}]
  /\ session \in {"closed", "open", "broken"}
  /\ sent \in SUBSET Updates
  /\ streams \in Seq(Seq(Updates)) /\ Len(streams) <= MaxSessions
  /\ calls \in SUBSET Updates
  /\ edb \in [Tokens -> Updates \cup {None}]
  /\ query \in Queries \cup {None}
  /\ answer \in Answers \cup {None}
  /\ made \in Seq(Tokens) /\ Len(made) <= MaxUpdates
  /\ acked \in SUBSET Updates /\ lost \in SUBSET Updates
  /\ disturbed \in SUBSET Keywords
  /\ faults \in 0..MaxFaults /\ kills \in 0..MaxKills

LabelsMade(w) == {made[u][2] : u \in {u \in 1..Len(made) : made[u][1] = w}}

\* However the two locked sections of update_request interleave, and whatever
\* add makes of a keyword it holds already, the tokens in use are 0, 1, ...
\* without a gap and the counter names one of them: the search token the server
\* is given always has its predecessors.
TokensContiguous ==
  \A w \in Keywords :
    /\ \A l \in LabelsMade(w) : 0..l \subseteq LabelsMade(w)
    /\ counter_map[w] # None => counter_map[w] \in LabelsMade(w)

\* "We were supposed to find something!" (sophos_core.cpp:167): the server
\* misses an entry only if the update for that token is under way or broke.
MissedOnlyIfBroken ==
  \A w \in Keywords, l \in Labels :
    l \in Count(w) /\ edb[<<w, l>>] = None =>
      \E u \in 1..Len(made) :
        /\ made[u] = <<w, l>>
        /\ \/ u \in lost \cup OnWire
           \/ \E t \in Threads : At(t, "send") /\ job[t].u = u

\* An update whose status said OK is stored under a counted token, as long as no
\* two threads updated its keyword at once and no kill set its counter back.
AckedStored ==
  \A u \in acked :
    made[u][1] \notin disturbed =>
      edb[made[u]] = u /\ made[u][2] \in Count(made[u][1])

\* No entry of an undisturbed keyword is ever replaced, although handlers of
\* broken calls and streams go on next to new ones.
NeverReplaced ==
  [][\A k \in Tokens :
       edb[k] # None /\ k[1] \notin disturbed' => edb'[k] = edb[k]]_vars

Index == INSTANCE KeywordIndex WITH
  Keywords <- Keywords, Results <- Updates, None <- None,
  index <- [w \in Keywords |-> Visible(w)],
  query <- IF query = None THEN None ELSE [w |-> query.w, base |-> query.base],
  answer <- answer

\* As long as no keyword is disturbed, each step but a kill is one of the keyword
\* index, or none: the index only grows, one document at a time, and an answer
\* is between what it held when asked and what it holds now.
ImplementsIndex ==
  Index!Init /\ [][disturbed' = {} /\ kills' = kills => [Index!Next]_(Index!vars)]_vars
=============================================================================
