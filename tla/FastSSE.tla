------------------------------ MODULE FastSSE -------------------------------
(***************************************************************************)
(* The client and server of src/fast (FAST's update and search, as the     *)
(* sibling fast_simple has them too).  The client keeps the number of      *)
(* entries of a keyword in uc_mapper, in memory, and writes it to its      *)
(* database in its destructor only.  The server looks the entries up from  *)
(* the newest to the first.  Unlike zhangscheme's, all entries are masked  *)
(* alike, and the client keeps no proof of them.                           *)
(*                                                                         *)
(* Updates are unary, or go to the stream of a generator thread; several   *)
(* of these share the client's maps without a common lock.  batch_update   *)
(* is one such thread.  H1 of a token and a number does not collide, so a  *)
(* label is a keyword and a number.  Search counters are kept but decide   *)
(* nothing here.                                                           *)
(***************************************************************************)
EXTENDS Naturals, Sequences, FiniteSets

CONSTANTS
  Keywords,
  Threads,     \* threads of a load generator
  MaxUpdates,  \* bound: updates
  MaxFaults,   \* bound: broken calls and streams, server restarts
  MaxKills,    \* bound: deaths of the client before its destructor has ended
  None

ASSUME BoundsAssumption ==
  MaxUpdates \in Nat /\ MaxFaults \in Nat /\ MaxKills \in Nat

Updates == 1..MaxUpdates
Labels  == 1..MaxUpdates
Tokens  == Keywords \X Labels

\* A thread has not found w and is about to insert 0, or has its counter c.
Jobs == [at : {"insert"}, w : Keywords] \cup [at : {"got"}, w : Keywords, c : 0..MaxUpdates]
Queries == [w : Keywords, todo : SUBSET Labels, found : SUBSET Updates, base : SUBSET Updates]
Answers == [w : Keywords, inds : SUBSET Updates, whole : BOOLEAN]

ASSUME NoneAssumption ==
  /\ None \notin Nat /\ None \notin Jobs /\ None \notin Queries /\ None \notin Answers
  /\ None \notin [w : Keywords, base : SUBSET Updates]

VARIABLES
  up,          \* the client runs
  uc_mapper,   \* per keyword: its counter, or None (what a client that is down would load)
  cs_db,       \* the counters in the client's database
  job,         \* per thread: how far its update is, or None
  writer,      \* per thread: its stream, "none", "open" or "broken"
  sent,        \* per thread: the updates it has written
  stream,      \* per thread: what the server has not stored of them
  call,        \* the unary update the client waits for, or None
  late,        \* updates of calls and broken streams that a handler still holds
  ss_db,       \* the server's entries
  query, answer,  \* the search under way and the last one
  made,        \* history: the label of every update
  acked, lost, \* history: updates a status acknowledged; updates that broke on the way
  disturbed,   \* history: keywords two threads updated at once, or whose counter went back
  faults, kills

client  == <<up, uc_mapper, cs_db>>
wires   == <<writer, sent, stream, call, late>>
search  == <<query, answer>>
history == <<made, acked, lost, disturbed>>
vars == <<client, job, wires, ss_db, search, history, faults, kills>>

Init ==
  /\ up = TRUE
  /\ uc_mapper = [w \in Keywords |-> None] /\ cs_db = uc_mapper
  /\ job = [t \in Threads |-> None]
  /\ writer = [t \in Threads |-> "none"]
  /\ sent = [t \in Threads |-> {}] /\ stream = [t \in Threads |-> <<>>]
  /\ call = None /\ late = {}
  /\ ss_db = [k \in Tokens |-> None]
  /\ query = None /\ answer = None
  /\ made = <<>> /\ acked = {} /\ lost = {} /\ disturbed = {}
  /\ faults = 0 /\ kills = 0

Counter(w) == IF uc_mapper[w] = None THEN 0 ELSE uc_mapper[w]
Visible(w) == {ss_db[<<w, l>>] : l \in 1..Counter(w)} \ {None}

\* The main thread is in no call, and has joined its generators.
Idle == up /\ call = None /\ query = None /\ \A t \in Threads : writer[t] = "none"

----------------------------------------------------------------------------
(* Updates *)

\* update: the label is made of the counter, which is increased whatever becomes
\* of the call.
Update(w) ==
  /\ Idle
  /\ Len(made) < MaxUpdates
  /\ made' = Append(made, <<w, Counter(w) + 1>>)
  /\ uc_mapper' = [uc_mapper EXCEPT ![w] = Counter(w) + 1]
  /\ call' = Len(made')
  /\ late' = late \cup {Len(made')}
  /\ UNCHANGED <<up, cs_db, job, writer, sent, stream, ss_db, search, acked, lost, disturbed,
                 faults, kills>>

UpdateReturn ==
  /\ call # None
  /\ call \notin late
  /\ acked' = acked \cup {call}
  /\ call' = None
  /\ UNCHANGED <<client, job, writer, sent, stream, late, ss_db, search, made, lost, disturbed,
                 faults, kills>>

\* The call breaks, before the request arrived or after.
UpdateBreak ==
  /\ call # None
  /\ faults < MaxFaults
  /\ faults' = faults + 1
  /\ call' = None
  /\ \/ UNCHANGED <<late, lost>>
     \/ call \in late /\ late' = late \ {call} /\ lost' = lost \cup {call}
  /\ UNCHANGED <<client, job, writer, sent, stream, ss_db, search, made, acked, disturbed, kills>>

\* A generator opens its stream.  (The main thread joins them all, so it waits.)
Open(t) ==
  /\ up /\ call = None /\ query = None
  /\ writer[t] = "none"
  /\ Len(made) < MaxUpdates
  /\ writer' = [writer EXCEPT ![t] = "open"]
  /\ UNCHANGED <<client, job, sent, stream, call, late, ss_db, search, history, faults, kills>>

Busy(w) == \E t \in Threads : job[t] # None /\ job[t].w = w
Underway == Cardinality({t \in Threads : job[t] # None})

\* gen_update_request: get_update_time looks the keyword up.
Find(t, w) ==
  /\ writer[t] # "none" /\ job[t] = None
  /\ Len(made) + Underway < MaxUpdates
  /\ job' = [job EXCEPT ![t] = IF uc_mapper[w] = None THEN [at |-> "insert", w |-> w]
                               ELSE [at |-> "got", w |-> w, c |-> uc_mapper[w]]]
  /\ disturbed' = IF Busy(w) THEN disturbed \cup {w} ELSE disturbed
  /\ UNCHANGED <<client, wires, ss_db, search, made, acked, lost, faults, kills>>

\* It was not there, and set_update_time makes it 0, whatever it is now.
Insert(t) ==
  /\ job[t] # None /\ job[t].at = "insert"
  /\ uc_mapper' = [uc_mapper EXCEPT ![job[t].w] = 0]
  /\ job' = [job EXCEPT ![t] = [at |-> "got", w |-> job[t].w, c |-> 0]]
  /\ UNCHANGED <<up, cs_db, wires, ss_db, search, history, faults, kills>>

\* Mutant of Write: the counter runs ahead of the label.
WriteAhead(t) ==
  /\ job[t] # None /\ job[t].at = "got"
  /\ LET w == job[t].w  l == job[t].c + 1  u == Len(made) + 1
     IN  /\ made' = Append(made, <<w, l>>)
         /\ uc_mapper' = [uc_mapper EXCEPT ![w] = l + 1]
         /\ stream' = [stream EXCEPT ![t] = Append(@, u)]
         /\ sent' = [sent EXCEPT ![t] = @ \cup {u}]
  /\ job' = [job EXCEPT ![t] = None]
  /\ UNCHANGED <<up, cs_db, writer, call, late, ss_db, search, acked, lost, disturbed, faults, kills>>

\* The entry is made, set_update_time sets the counter from what was read, and
\* the request is written.  The result of Write is ignored.
Write(t) ==
  /\ job[t] # None /\ job[t].at = "got"
  /\ LET w == job[t].w  l == job[t].c + 1  u == Len(made) + 1
     IN  /\ made' = Append(made, <<w, l>>)
         /\ uc_mapper' = [uc_mapper EXCEPT ![w] = l]
         /\ IF writer[t] = "open"
            THEN stream' = [stream EXCEPT ![t] = Append(@, u)] /\ UNCHANGED lost
            ELSE lost' = lost \cup {u} /\ UNCHANGED stream
         /\ sent' = [sent EXCEPT ![t] = @ \cup {u}]
  /\ job' = [job EXCEPT ![t] = None]
  /\ UNCHANGED <<up, cs_db, writer, call, late, ss_db, search, acked, disturbed, faults, kills>>

\* WritesDone and Finish, which waits for the handler or for the error.
Finish(t) ==
  /\ writer[t] # "none" /\ job[t] = None
  /\ writer[t] = "open" => stream[t] = <<>>
  /\ acked' = IF writer[t] = "open" THEN acked \cup sent[t] ELSE acked
  /\ writer' = [writer EXCEPT ![t] = "none"]
  /\ sent' = [sent EXCEPT ![t] = {}]
  /\ UNCHANGED <<client, job, stream, call, late, ss_db, search, made, lost, disturbed, faults, kills>>

\* The stream breaks; the first n of its updates had arrived.
Break(t, n) ==
  /\ writer[t] = "open"
  /\ faults < MaxFaults
  /\ faults' = faults + 1
  /\ n <= Len(stream[t])
  /\ late' = late \cup {stream[t][i] : i \in 1..n}
  /\ lost' = lost \cup {stream[t][i] : i \in (n + 1)..Len(stream[t])}
  /\ writer' = [writer EXCEPT ![t] = "broken"]
  /\ stream' = [stream EXCEPT ![t] = <<>>]
  /\ UNCHANGED <<client, job, sent, call, ss_db, search, made, acked, disturbed, kills>>

----------------------------------------------------------------------------
(* The server *)

\* Handler update, and a batch_update whose client is gone.
Store(u) ==
  /\ u \in late
  /\ ss_db' = [ss_db EXCEPT ![made[u]] = u]
  /\ late' = late \ {u}
  /\ UNCHANGED <<client, job, writer, sent, stream, call, search, history, faults, kills>>

\* Handler batch_update: one turn of its loop.
StoreNext(t) ==
  /\ stream[t] # <<>>
  /\ ss_db' = [ss_db EXCEPT ![made[Head(stream[t])]] = Head(stream[t])]
  /\ stream' = [stream EXCEPT ![t] = Tail(@)]
  /\ UNCHANGED <<client, job, writer, sent, call, late, search, history, faults, kills>>

\* The server is killed, or aborts on SIGINT, and is started again.
Restart ==
  /\ faults < MaxFaults
  /\ faults' = faults + 1
  /\ lost' = lost \cup late \cup
             UNION {{stream[t][i] : i \in 1..Len(stream[t])} : t \in Threads}
  /\ late' = {} /\ call' = None
  /\ stream' = [t \in Threads |-> <<>>]
  /\ writer' = [t \in Threads |-> IF writer[t] = "open" THEN "broken" ELSE writer[t]]
  /\ query' = None
  /\ answer' = IF query = None THEN answer ELSE [w |-> query.w, inds |-> {}, whole |-> FALSE]
  /\ UNCHANGED <<client, job, sent, ss_db, made, acked, disturbed, kills>>

----------------------------------------------------------------------------
(* Searches *)

\* gen_search_token, which puts a keyword it does not find into the map.
SearchBegin(w) ==
  /\ Idle
  /\ uc_mapper' = [uc_mapper EXCEPT ![w] = Counter(w)]
  /\ query' = [w |-> w, todo |-> 1..Counter(w), found |-> {}, base |-> Visible(w)]
  /\ answer' = None
  /\ UNCHANGED <<up, cs_db, job, wires, ss_db, history, faults, kills>>

\* The server's loop, from uc down; a missing entry is only logged, and the
\* operation of one that is there is not looked at.
SearchStep ==
  /\ query # None
  /\ \E l \in query.todo :
       /\ query.todo = 1..l
       /\ query' = [query EXCEPT !.todo = 1..(l - 1),
                                 !.found = @ \cup ({ss_db[<<query.w, l>>]} \ {None})]
  /\ UNCHANGED <<client, job, wires, ss_db, answer, history, faults, kills>>

\* Mutant of SearchReturn: the loop ends one early.
SearchReturnShort ==
  /\ query # None
  /\ query.todo \subseteq {1}
  /\ answer' = [w |-> query.w, inds |-> query.found, whole |-> TRUE]
  /\ query' = None
  /\ UNCHANGED <<client, job, wires, ss_db, history, faults, kills>>

SearchReturn ==
  /\ query # None
  /\ query.todo = {}
  /\ answer' = [w |-> query.w, inds |-> query.found, whole |-> TRUE]
  /\ query' = None
  /\ UNCHANGED <<client, job, wires, ss_db, history, faults, kills>>

\* The reply breaks off; the client takes it as it is.
SearchBreak ==
  /\ query # None
  /\ faults < MaxFaults
  /\ faults' = faults + 1
  /\ \E part \in SUBSET query.found :
       answer' = [w |-> query.w, inds |-> part, whole |-> FALSE]
  /\ query' = None
  /\ UNCHANGED <<client, job, wires, ss_db, history, kills>>

----------------------------------------------------------------------------
(* The client's end and start *)

\* Mutant of Exit: the counters are not stored.
ExitForget ==
  /\ Idle
  /\ up' = FALSE
  /\ uc_mapper' = cs_db
  /\ UNCHANGED <<cs_db, job, wires, ss_db, search, history, faults, kills>>

\* The destructor stores every counter.
Exit ==
  /\ Idle
  /\ up' = FALSE
  /\ cs_db' = [w \in Keywords |-> IF uc_mapper[w] = None THEN cs_db[w] ELSE uc_mapper[w]]
  /\ uc_mapper' = cs_db'
  /\ UNCHANGED <<job, wires, ss_db, search, history, faults, kills>>

\* The client is gone without it; the next one has the counters in db.
Lose(db) ==
  /\ up
  /\ kills < MaxKills
  /\ kills' = kills + 1
  /\ up' = FALSE
  /\ cs_db' = db /\ uc_mapper' = db
  /\ disturbed' = disturbed \cup {w \in Keywords : uc_mapper[w] \notin {0, None, db[w]}}
  /\ job' = [t \in Threads |-> None]
  /\ writer' = [t \in Threads |-> "none"]
  /\ sent' = [t \in Threads |-> {}]
  /\ late' = late \cup UNION {{stream[t][i] : i \in 1..Len(stream[t])} : t \in Threads}
  /\ stream' = [t \in Threads |-> <<>>]
  /\ call' = None
  /\ query' = None /\ answer' = None
  /\ UNCHANGED <<ss_db, made, acked, lost, faults>>

\* It is killed, exits in a catch clause, or dies of a map into which two threads
\* inserted at once.
Kill == Lose(cs_db)

\* It dies in the destructor, which deletes a counter and then puts it: some are
\* stored, one may be gone, the rest is as it was.
KillInDestructor ==
  /\ Idle
  /\ \E stored \in SUBSET {w \in Keywords : uc_mapper[w] # None} :
     \E gone \in SUBSET (Keywords \ stored) :
       /\ Cardinality(gone) <= 1
       /\ Lose([w \in Keywords |-> IF w \in stored THEN uc_mapper[w]
                                   ELSE IF w \in gone THEN None ELSE cs_db[w]])

\* The constructor loads the database.
Start ==
  /\ ~up
  /\ up' = TRUE
  /\ UNCHANGED <<uc_mapper, cs_db, job, wires, ss_db, search, history, faults, kills>>

----------------------------------------------------------------------------
Generate(t) ==
  \/ Open(t) \/ Insert(t) \/ Write(t) \/ Finish(t) \/ StoreNext(t)
  \/ \E w \in Keywords : Find(t, w)
  \/ \E n \in 0..MaxUpdates : Break(t, n)

Next ==
  \/ \E w \in Keywords : Update(w) \/ SearchBegin(w)
  \/ UpdateReturn \/ UpdateBreak
  \/ \E t \in Threads : Generate(t)
  \/ \E u \in Updates : Store(u)
  \/ Restart
  \/ SearchStep \/ SearchReturn \/ SearchBreak
  \/ Exit \/ Kill \/ KillInDestructor \/ Start

Spec == Init /\ [][Next]_vars

----------------------------------------------------------------------------
(* Properties *)

\* The range of every variable; and no counter names a label that was never made,
\* however the threads overwrite each other's counters.
TypeOK ==
  /\ up \in BOOLEAN
  /\ uc_mapper \in [Keywords -> Nat \cup {None}]
  /\ cs_db \in [Keywords -> Nat \cup {None}]
  /\ job \in [Threads -> Jobs \cup {None}]
  /\ writer \in [Threads -> {"none", "open", "broken"}]
  /\ sent \in [Threads -> SUBSET Updates]
  /\ stream \in [Threads -> Seq(Updates)]
  /\ call \in Updates \cup {None} /\ late \in SUBSET Updates
  /\ ss_db \in [Tokens -> Updates \cup {None}]
  /\ query \in Queries \cup {None} /\ answer \in Answers \cup {None}
  /\ made \in Seq(Tokens) /\ Len(made) <= MaxUpdates
  /\ acked \in SUBSET Updates /\ lost \in SUBSET Updates
  /\ disturbed \in SUBSET Keywords
  /\ faults \in 0..MaxFaults /\ kills \in 0..MaxKills
  /\ \A w \in Keywords : Counter(w) > 0 => \E u \in 1..Len(made) : made[u] = <<w, Counter(w)>>

\* An acknowledged update is stored under a label the client still counts, over
\* every end and start of the client, as long as no two threads updated its
\* keyword at once and no death took its counter back.
AckedStored ==
  \A u \in acked :
    made[u][1] \notin disturbed =>
      /\ ss_db[made[u]] = u
      /\ made[u][2] <= Counter(made[u][1])

Index == INSTANCE KeywordIndex WITH
  Keywords <- Keywords, Results <- Updates, None <- None,
  index <- [w \in Keywords |-> Visible(w)],
  query <- IF query = None THEN None ELSE [w |-> query.w, base |-> query.base],
  answer <- answer

\* As long as no keyword is disturbed, each step but a death of the client is one
\* of the keyword index, or none.
ImplementsIndex ==
  Index!Init /\ [][(disturbed' = {} /\ kills' = kills) => [Index!Next]_(Index!vars)]_vars
=============================================================================
