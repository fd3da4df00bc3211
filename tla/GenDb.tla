------------------------------- MODULE GenDb -------------------------------
(***************************************************************************)
(* gen_db_2 of zhangscheme/DistSSE.db_generator.h: it splits N_entries     *)
(* among n_threads threads.  Each runs generation_job_2, which opens a     *)
(* stream of its own and writes entries made by gen_update_request of the  *)
(* one Client object they share, all for one keyword.  Its counter         *)
(* (uc_mapper) and its proof (sc_mapper) are read without a lock and set   *)
(* later; the mutex in set_update_time is a local variable and excludes    *)
(* nobody.                                                                 *)
(*                                                                         *)
(* A step is one access to a map or to a stream.  The keyword is fixed, so *)
(* a label is its number.  Indices are random and eight bytes long: an     *)
(* entry is named by its thread and turn, and a proof is the set of the    *)
(* entries whose indices are in the XOR; a proof that a short index has    *)
(* made "" (Empty) stays so.  The build copies the counter, and the eight  *)
(* bytes of a proof, in one move, so an unlocked access sees a whole       *)
(* value; what it does not survive is a tree that changes under it         *)
(* (Corrupt).                                                              *)
(***************************************************************************)
EXTENDS Naturals, Sequences, FiniteSets

CONSTANTS
  MaxThreads,  \* bound: n_threads
  MaxEntries,  \* bound: N_entries
  MaxOld,      \* bound: entries the keyword had before
  MaxFaults,   \* bound: broken streams
  Missing,     \* the keyword is not in a map; no entry under a label
  Empty        \* the proof ""

ASSUME BoundsAssumption ==
  /\ MaxThreads \in Nat \ {0}
  /\ MaxEntries \in Nat
  /\ MaxOld \in Nat
  /\ MaxFaults \in Nat

Threads  == 1..MaxThreads
Labels   == 1..(MaxOld + MaxEntries)
\* Thread 0 made the entries that were there before.
Entries  == (0..MaxThreads) \X (1..(MaxOld + MaxEntries))
Requests == [l : Labels, e : Entries]

ASSUME MissingAssumption ==
  /\ Missing \notin Nat
  /\ Missing \notin Entries
  /\ \A proof \in SUBSET Entries : Missing # proof /\ Empty # proof
  /\ Empty # Missing

VARIABLES
  N_entries, n_threads,  \* the arguments of gen_db_2
  old,        \* entries of the keyword before
  short,      \* one of them had an index of less than eight bytes
  main,       \* gen_db_2: "running", "returned", or the process has "crashed"
  at,         \* per thread: the access it makes next
  turn,       \* per thread: entries it has written
  uc_mapper,  \* the shared counter
  sc_mapper,  \* the shared proof
  uc, sc,     \* per thread: what gen_update_request read
  made,       \* the requests made
  wire,       \* per stream: the requests its handler has not stored
  broken,     \* the streams that broke
  ss_db       \* the server's entries of the keyword

args    == <<N_entries, n_threads, old, short>>
mappers == <<uc_mapper, sc_mapper>>
locals  == <<uc, sc>>
vars == <<args, main, at, turn, mappers, locals, made, wire, broken, ss_db>>

Running == 1..n_threads

\* Mutant of Quota: every thread gets the quotient, the remainder is nobody's.
QuotaWithoutRest(t) == N_entries \div n_threads

\* numOfEntries1 for all threads but the last, numOfEntries2 for the last.
Quota(t) ==
  IF t < n_threads THEN N_entries \div n_threads
                   ELSE (N_entries \div n_threads) + (N_entries % n_threads)

\* Xor gives "" when the lengths differ, and "" ever after.
OldProof == IF short THEN Empty ELSE {0} \X (1..old)

\* The client was constructed with the keyword's counter and proof, or without them.
Init ==
  /\ N_entries \in 0..MaxEntries
  /\ n_threads \in Threads
  /\ old \in 0..MaxOld
  /\ short \in BOOLEAN
  /\ short => old > 0
  /\ main = "running"
  /\ at = [t \in Threads |-> "next"]
  /\ turn = [t \in Threads |-> 0]
  /\ \/ /\ uc_mapper = old
        /\ sc_mapper = OldProof
     \/ /\ old = 0
        /\ uc_mapper = Missing
        /\ sc_mapper = Missing
  /\ uc = [t \in Threads |-> 0]
  /\ sc = [t \in Threads |-> {}]
  /\ made = {}
  /\ wire = [t \in Threads |-> <<>>]
  /\ broken = {}
  /\ ss_db = [l \in Labels |-> IF l <= old THEN <<0, l>> ELSE Missing]

At(t, step) == main = "running" /\ t \in Running /\ at[t] = step
GoTo(t, step) == at' = [at EXCEPT ![t] = step]

\* The entry thread t is making, and the request that carries it.
Made(t) == <<t, turn[t] + 1>>
Request(t) == [l |-> uc[t] + 1, e |-> Made(t)]

\* Mutant of More: the loop runs to i <= N_entries.
MoreThanQuota(t) == turn[t] <= Quota(t)

More(t) == turn[t] < Quota(t)

----------------------------------------------------------------------------
\* The loop's test, then gen_update_request: get_update_time looks the keyword up.
FindUc(t) ==
  /\ At(t, "next")
  /\ More(t)
  /\ IF uc_mapper = Missing
     THEN GoTo(t, "insert_uc") /\ UNCHANGED uc
     ELSE GoTo(t, "find_sc") /\ uc' = [uc EXCEPT ![t] = uc_mapper]
  /\ UNCHANGED <<args, main, turn, mappers, sc, made, wire, broken, ss_db>>

\* It was not there: get_update_time sets it to 0, whatever it is by now.
InsertUc(t) ==
  /\ At(t, "insert_uc")
  /\ uc_mapper' = 0
  /\ uc' = [uc EXCEPT ![t] = 0]
  /\ GoTo(t, "find_sc")
  /\ UNCHANGED <<args, main, turn, sc_mapper, sc, made, wire, broken, ss_db>>

\* get_search_time looks the keyword up.
FindSc(t) ==
  /\ At(t, "find_sc")
  /\ IF sc_mapper = Missing
     THEN GoTo(t, "insert_sc") /\ UNCHANGED sc
     ELSE GoTo(t, "set_uc") /\ sc' = [sc EXCEPT ![t] = sc_mapper]
  /\ UNCHANGED <<args, main, turn, mappers, uc, made, wire, broken, ss_db>>

InsertSc(t) ==
  /\ At(t, "insert_sc")
  /\ sc_mapper' = {}
  /\ sc' = [sc EXCEPT ![t] = {}]
  /\ GoTo(t, "set_uc")
  /\ UNCHANGED <<args, main, turn, uc_mapper, uc, made, wire, broken, ss_db>>

\* Mutant of SetUc: the counter is read again, as increase_update_time does.
SetUcAgain(t) ==
  /\ At(t, "set_uc")
  /\ made' = made \cup {Request(t)}
  /\ uc_mapper' = uc_mapper + 1
  /\ GoTo(t, "set_sc")
  /\ UNCHANGED <<args, main, turn, sc_mapper, locals, wire, broken, ss_db>>

\* The request is made from what was read, and the counter set from it.
SetUc(t) ==
  /\ At(t, "set_uc")
  /\ made' = made \cup {Request(t)}
  /\ uc_mapper' = uc[t] + 1
  /\ GoTo(t, "set_sc")
  /\ UNCHANGED <<args, main, turn, sc_mapper, locals, wire, broken, ss_db>>

\* Mutant of SetSc: the proof starts anew with every entry.
SetScAlone(t) ==
  /\ At(t, "set_sc")
  /\ sc_mapper' = {Made(t)}
  /\ GoTo(t, "write")
  /\ UNCHANGED <<args, main, turn, uc_mapper, locals, made, wire, broken, ss_db>>

\* So is the proof, under sc_mtx, which the readers do not take.
SetSc(t) ==
  /\ At(t, "set_sc")
  /\ sc_mapper' = IF sc[t] = Empty THEN Empty ELSE sc[t] \cup {Made(t)}
  /\ GoTo(t, "write")
  /\ UNCHANGED <<args, main, turn, uc_mapper, locals, made, wire, broken, ss_db>>

\* writer->Write, whose result is not looked at.
Write(t) ==
  /\ At(t, "write")
  /\ wire' = IF t \in broken THEN wire ELSE [wire EXCEPT ![t] = Append(@, Request(t))]
  /\ turn' = [turn EXCEPT ![t] = @ + 1]
  /\ GoTo(t, "next")
  /\ UNCHANGED <<args, main, mappers, locals, made, broken, ss_db>>

\* Mutant of Finish: the thread waits for Status::OK.
FinishOk(t) ==
  /\ At(t, "next")
  /\ ~More(t)
  /\ wire[t] = <<>> /\ t \notin broken
  /\ GoTo(t, "done")
  /\ UNCHANGED <<args, main, turn, mappers, locals, made, wire, broken, ss_db>>

\* WritesDone, and Finish waits for the handler or for the error; the status is dropped.
Finish(t) ==
  /\ At(t, "next")
  /\ ~More(t)
  /\ wire[t] = <<>> \/ t \in broken
  /\ GoTo(t, "done")
  /\ UNCHANGED <<args, main, turn, mappers, locals, made, wire, broken, ss_db>>

\* gen_db_2 has joined all its threads.
Return ==
  /\ main = "running"
  /\ \A t \in Running : at[t] = "done"
  /\ main' = "returned"
  /\ UNCHANGED <<args, at, turn, mappers, locals, made, wire, broken, ss_db>>

\* Mutant of ServerStore: the handler reads once instead of in a loop.
ServerStoreFirst(t) ==
  /\ wire[t] # <<>>
  /\ ss_db' = [ss_db EXCEPT ![Head(wire[t]).l] = Head(wire[t]).e]
  /\ wire' = [wire EXCEPT ![t] = <<>>]
  /\ UNCHANGED <<args, main, at, turn, mappers, locals, made, broken>>

\* The handler of stream t stores its next request; the handlers share no lock.
ServerStore(t) ==
  /\ wire[t] # <<>>
  /\ ss_db' = [ss_db EXCEPT ![Head(wire[t]).l] = Head(wire[t]).e]
  /\ wire' = [wire EXCEPT ![t] = Tail(@)]
  /\ UNCHANGED <<args, main, at, turn, mappers, locals, made, broken>>

\* A stream breaks; its first n requests had reached the server.
StreamBreak(t, n) ==
  /\ main = "running"
  /\ t \in Running \ broken
  /\ at[t] # "done"
  /\ Cardinality(broken) < MaxFaults
  /\ n <= Len(wire[t])
  /\ broken' = broken \cup {t}
  /\ wire' = [wire EXCEPT ![t] = SubSeq(@, 1, n)]
  /\ UNCHANGED <<args, main, at, turn, mappers, locals, made, ss_db>>

\* A thread inserts into a map while another one is inside the same map: the
\* tree is corrupted and the process dies, its streams with it.
Corrupt(keep) ==
  /\ main = "running"
  /\ \E t, u \in Running :
       /\ t # u
       /\ at[u] = "next" => More(u)
       /\ \/ at[t] = "insert_uc" /\ at[u] \in {"next", "insert_uc", "set_uc"}
          \/ at[t] = "insert_sc" /\ at[u] \in {"find_sc", "insert_sc", "set_sc"}
  /\ main' = "crashed"
  /\ broken' = broken \cup Running
  /\ wire' = [t \in Threads |-> IF keep < Len(wire[t]) THEN SubSeq(wire[t], 1, keep) ELSE wire[t]]
  /\ UNCHANGED <<args, at, turn, mappers, locals, made, ss_db>>

Step(t) ==
  \/ FindUc(t) \/ InsertUc(t) \/ FindSc(t) \/ InsertSc(t)
  \/ SetUc(t) \/ SetSc(t) \/ Write(t) \/ Finish(t)

Next ==
  \/ \E t \in Threads : Step(t)
  \/ Return
  \/ \E t \in Threads : ServerStore(t)
  \/ \E t \in Threads, n \in 0..MaxEntries : StreamBreak(t, n)
  \/ \E keep \in 0..MaxEntries : Corrupt(keep)

\* The scheduler runs every thread, and the server its handlers.
Spec ==
  /\ Init /\ [][Next]_vars
  /\ \A t \in Threads : WF_vars(Step(t)) /\ WF_vars(ServerStore(t))
  /\ WF_vars(Return)

----------------------------------------------------------------------------
(* Properties *)

Steps == {"next", "insert_uc", "find_sc", "insert_sc", "set_uc", "set_sc", "write", "done"}

\* The range of every variable; no thread writes more than its share.
TypeOK ==
  /\ N_entries \in 0..MaxEntries
  /\ n_threads \in Threads
  /\ old \in 0..MaxOld
  /\ short \in BOOLEAN
  /\ main \in {"running", "returned", "crashed"}
  /\ at \in [Threads -> Steps]
  /\ turn \in [Threads -> 0..MaxEntries]
  /\ \A t \in Running : turn[t] <= Quota(t)
  /\ uc_mapper \in 0..(old + N_entries) \cup {Missing}
  /\ sc_mapper \in {Missing, Empty} \cup SUBSET Entries
  /\ uc \in [Threads -> 0..(old + N_entries)]
  /\ sc \in [Threads -> {Empty} \cup SUBSET Entries]
  /\ made \in SUBSET Requests
  /\ wire \in [Threads -> Seq(Requests)]
  /\ broken \in SUBSET Threads
  /\ ss_db \in [Labels -> Entries \cup {Missing}]

LabelsMade == (1..old) \cup {r.l : r \in made}

\* However the unlocked reads and writes of the counter interleave, the labels
\* in use are 1, 2, ... without a gap and the counter names one of them (or 0):
\* it may fall back, and it never runs ahead of the labels made.
CounterNamesALabel ==
  /\ \A l \in LabelsMade : 1..l \subseteq LabelsMade
  /\ uc_mapper # Missing => uc_mapper \in {0} \cup LabelsMade

\* So a search with the shared counter finds something at every label it
\* probes, save for entries a thread has in hand or on its stream, or that
\* went with a stream that broke.
NoHoles ==
  uc_mapper # Missing =>
    \A l \in 1..uc_mapper :
      \/ ss_db[l] # Missing
      \/ \E r \in made :
           /\ r.l = l
           /\ \/ r.e[1] \in broken
              \/ r = Request(r.e[1]) /\ at[r.e[1]] \in {"set_sc", "write"}
              \/ \E k \in 1..Len(wire[r.e[1]]) : wire[r.e[1]][k] = r

\* The threads' shares add up: when gen_db_2 returns, exactly N_entries
\* entries were made, for every N_entries and n_threads.
SharesAddUp == main = "returned" => Cardinality({r.e : r \in made}) = N_entries

EntriesKept ==
  /\ \A r \in made : ss_db[r.l] = r.e
  /\ uc_mapper = Missing \/ uc_mapper = old + N_entries

ProofKept ==
  \/ sc_mapper = Missing
  \/ sc_mapper = IF short THEN Empty ELSE OldProof \cup {r.e : r \in made}

\* With one thread nothing is lost: every entry is stored under a label of its
\* own, counted, and in the proof unless that was spoilt before.
KeptByOneThread ==
  main = "returned" /\ n_threads = 1 /\ broken = {} => EntriesKept /\ ProofKept

\* For the counter, "need to lock when read, but for our scheme, no need"
\* (DistSSE.client.h:158): gen_db_2's threads too store and count every entry.
\* Two that read the counter before either sets it make the same label twice.
KeptByThreads == main = "returned" /\ broken = {} => EntriesKept

\* gen_db_2 returns, whatever breaks, unless the process dies.
Returns == <>(main \in {"returned", "crashed"})
=============================================================================
