------------------------------ MODULE DistSSE ------------------------------
(***************************************************************************)
(* The searchable-encryption protocol of zhangscheme/: one client process  *)
(* (DistSSE.client.h, driven by rpc_client.cc), the server's gRPC handlers *)
(* (DistSSE.server.h), the calls in flight between them, the client's      *)
(* database cs_db and the server's database ss_db.                         *)
(*                                                                         *)
(* The client counts the entries of every keyword (uc_mapper) and keeps an *)
(* XOR over their indices (sc_mapper).  Entry number i of keyword w goes   *)
(* to the server under a label made from w and i; a search sends the       *)
(* counter, and the server probes the labels of w from the counter down    *)
(* to 1.  The two maps live in memory: ~Client writes them to cs_db, and   *)
(* the constructor reads them back.                                        *)
(*                                                                         *)
(* Abstractions.  H1(tw + i) and H2(tw + i) are collision free, so a label *)
(* is the pair <<w, i>> and an entry is an index with the name of the hash *)
(* it was masked with.  A proof is its length and the set of indices that  *)
(* occur in the XOR an odd number of times.  A key missing from a map or from cs_db is  *)
(* the same as its default value, which is what the getters return.  The   *)
(* operation byte is left out: search parses it and never looks at it.     *)
(***************************************************************************)
EXTENDS Naturals, Sequences, FiniteSets

CONSTANTS
  Keywords,   \* the keywords
  Inds,       \* the file indices a client may add
  ShortInds,  \* those shorter than a proof (8 bytes), such as "ind" in rpc_client.cc
  Prefixes,   \* what parse leaves of an index
  Ind7,       \* the first seven bytes of each index, all that parse keeps
  None,       \* no entry under a label, no key being rewritten, no query
  MaxCount,   \* bound: entries per keyword
  MaxCalls,   \* bound: update RPCs, single or streamed
  MaxBatch,   \* bound: entries of one batch_update
  MaxStarts,  \* bound: starts of the client process after the first
  MaxKills,   \* bound: kills of the client process
  MaxFaults   \* bound: broken calls and server restarts

ASSUME IndsAssumption ==
  /\ ShortInds \subseteq Inds
  /\ Ind7 \in [Inds -> Prefixes]

ASSUME BoundsAssumption ==
  /\ MaxCount \in Nat
  /\ MaxCalls \in Nat
  /\ MaxBatch \in Nat
  /\ MaxStarts \in Nat
  /\ MaxKills \in Nat
  /\ MaxFaults \in Nat

Counts  == 0..MaxCount
Labels  == Keywords \X (1..MaxCount)
Calls   == 1..MaxCalls
Entries == [ind : Inds, mask : {"H1", "H2"}]
Proofs  == [len : {0, 8}, odd : SUBSET Inds]
Keys    == {"s", "u"} \X Keywords

Requests == [l : Labels, e : Entries]

\* What a search can list: an index cut to seven bytes, or the bytes an entry
\* masked with H1 turns into when it is unmasked with H2.
Results == [kind : {"plain"}, of : Prefixes]
             \cup [kind : {"garbled"}, of : Labels \X Inds]

\* A search under way, its answer, and a batch_update under way.
Queries == [w : Keywords, i : Counts, found : SUBSET Results, base : SUBSET Results]
Answers == [w : Keywords, inds : SUBSET Results, base : SUBSET Results, whole : BOOLEAN]
Batches == [w : Keywords, left : 0..MaxBatch]

ASSUME NoneAssumption ==
  /\ None \notin Entries
  /\ None \notin [e : Entries, call : Calls]
  /\ None \notin Keys
  /\ None \notin Queries /\ None \notin Answers
  /\ None \notin [w : Keywords, base : SUBSET Results]

VARIABLES
  pc,         \* what the client process is doing
  uc_mapper,  \* entries counted per keyword (kept while the process is down: its last value)
  sc_mapper,  \* proof per keyword (likewise)
  batch,      \* the batch_update under way: its keyword and the entries still to write
  cs_uc,      \* the counters in cs_db
  cs_sc,      \* the proofs in cs_db
  todo,       \* the keys ~Client has still to store
  hole,       \* the key store() has deleted and not yet put
  ss_db,      \* the server's entries
  wire,       \* per call, the requests the server's handler has not stored yet
  ncalls,     \* update calls made so far
  query,      \* the search under way at the server
  answer,     \* the result set search2 returned last
  broken,     \* calls that ended with an error
  acked,      \* calls that ended with Status::OK
  issued,     \* per label: the entry last made for it, and the call it was made for
  clean,      \* the process is down because ~Client ran to its end
  rolledBack, \* some start read back counters or proofs older than the last ones
  starts, kills, faults   \* how often each happened

clientVars == <<pc, uc_mapper, sc_mapper, batch>>
diskVars   == <<cs_uc, cs_sc, todo, hole, clean>>
callVars   == <<wire, ncalls, broken, acked, issued>>
searchVars == <<query, answer>>
envVars    == <<rolledBack, starts, kills, faults>>
vars == <<clientVars, diskVars, ss_db, callVars, searchVars, envVars>>

----------------------------------------------------------------------------
(* Operators of the code *)

\* Eight zero bytes, the proof of a keyword without entries, and "".
ZeroProof  == [len |-> 8, odd |-> {}]
EmptyProof == [len |-> 0, odd |-> {}]

\* Mutant of Xor: the indices are or-ed together.
XorAsOr(proof, ind) ==
  IF proof.len = 0 \/ ind \in ShortInds
  THEN EmptyProof
  ELSE [len |-> 8, odd |-> proof.odd \cup {ind}]

\* Util::Xor(proof, ind): as long as its first argument, and empty when that
\* one is the longer of the two.
Xor(proof, ind) ==
  IF proof.len = 0 \/ ind \in ShortInds
  THEN EmptyProof
  ELSE [len |-> 8, odd |-> (proof.odd \ {ind}) \cup ({ind} \ proof.odd)]

\* Mutant of Shown: the loop unmasks with H1.
ShownWithH1(l, e) ==
  IF e.mask = "H1" THEN [kind |-> "plain", of |-> Ind7[e.ind]]
                   ELSE [kind |-> "garbled", of |-> <<l, e.ind>>]

\* What the server's loop makes of an entry: Xor with H2, parse, str2hex.
Shown(l, e) ==
  IF e.mask = "H2" THEN [kind |-> "plain", of |-> Ind7[e.ind]]
                   ELSE [kind |-> "garbled", of |-> <<l, e.ind>>]

\* The results a search would list now for the labels of w numbered from low to high.
Listed(w, low, high) ==
  {Shown(<<w, i>>, ss_db[<<w, i>>]) :
      i \in {j \in low..high : ss_db[<<w, j>>] # None}}

Visible(w) == Listed(w, 1, uc_mapper[w])

----------------------------------------------------------------------------
Init ==
  /\ pc = "idle"
  /\ uc_mapper = [w \in Keywords |-> 0]
  /\ sc_mapper = [w \in Keywords |-> ZeroProof]
  /\ batch = None
  /\ cs_uc = [w \in Keywords |-> 0]
  /\ cs_sc = [w \in Keywords |-> ZeroProof]
  /\ todo = {}
  /\ hole = None
  /\ ss_db = [l \in Labels |-> None]
  /\ wire = [c \in Calls |-> <<>>]
  /\ ncalls = 0
  /\ query = None
  /\ answer = None
  /\ broken = {}
  /\ acked = {}
  /\ issued = [l \in Labels |-> None]
  /\ clean = FALSE
  /\ rolledBack = FALSE
  /\ starts = 0
  /\ kills = 0
  /\ faults = 0

----------------------------------------------------------------------------
(* Updates, client side *)

\* gen_update_token and gen_update_request: the counter and the proof advance
\* here, before anything is sent, and are never taken back.
GenUpdate(w, ind, mask, c) ==
  LET l == <<w, uc_mapper[w] + 1>>
      e == [ind |-> ind, mask |-> mask]
  IN  /\ uc_mapper' = [uc_mapper EXCEPT ![w] = @ + 1]
      /\ sc_mapper' = [sc_mapper EXCEPT ![w] = Xor(@, ind)]
      /\ issued' = [issued EXCEPT ![l] = [e |-> e, call |-> c]]
      /\ wire' = IF c \in broken THEN wire
                 ELSE [wire EXCEPT ![c] = Append(@, [l |-> l, e |-> e])]

\* update(op, w, ind): one token, one unary call.
Update(w, ind) ==
  /\ pc = "idle"
  /\ ncalls < MaxCalls
  /\ uc_mapper[w] < MaxCount
  /\ GenUpdate(w, ind, "H2", ncalls + 1)
  /\ ncalls' = ncalls + 1
  /\ pc' = "call"
  /\ answer' = None
  /\ UNCHANGED <<batch, broken, acked, query, diskVars, ss_db, envVars>>

\* batch_update(keyword, n) opens its stream.
BatchOpen(w, n) ==
  /\ pc = "idle"
  /\ ncalls < MaxCalls
  /\ uc_mapper[w] + n <= MaxCount
  /\ ncalls' = ncalls + 1
  /\ batch' = [w |-> w, left |-> n]
  /\ pc' = "batch"
  /\ answer' = None
  /\ UNCHANGED <<uc_mapper, sc_mapper, wire, broken, acked, issued, query,
                 diskVars, ss_db, envVars>>

\* Mutant of BatchWrite: the loop runs to i <= N_entries.
BatchWriteOneMore(ind) ==
  /\ pc = "batch"
  /\ uc_mapper[batch.w] < MaxCount
  /\ GenUpdate(batch.w, ind, "H1", ncalls)
  /\ batch' = [batch EXCEPT !.left = @ - 1]
  /\ UNCHANGED <<pc, ncalls, broken, acked, searchVars, diskVars, ss_db, envVars>>

\* One turn of its loop.  Write's result is not looked at: on a broken stream
\* the entry goes nowhere, and the counter advances all the same.
BatchWrite(ind) ==
  /\ pc = "batch"
  /\ batch.left > 0
  /\ GenUpdate(batch.w, ind, "H1", ncalls)
  /\ batch' = [batch EXCEPT !.left = @ - 1]
  /\ UNCHANGED <<pc, ncalls, broken, acked, searchVars, diskVars, ss_db, envVars>>

\* WritesDone, then Finish waits for the status.
BatchClose ==
  /\ pc = "batch"
  /\ batch.left = 0
  /\ pc' = "call"
  /\ batch' = None
  /\ UNCHANGED <<uc_mapper, sc_mapper, callVars, searchVars, diskVars, ss_db, envVars>>

\* Mutant of CallOk: the call returns before the handler has stored everything.
CallOkEarly ==
  /\ pc = "call"
  /\ ncalls \notin broken
  /\ pc' = "idle"
  /\ acked' = acked \cup {ncalls}
  /\ UNCHANGED <<uc_mapper, sc_mapper, batch, wire, ncalls, broken, issued,
                 searchVars, diskVars, ss_db, envVars>>

\* The handler read everything and returned Status::OK.
CallOk ==
  /\ pc = "call"
  /\ ncalls \notin broken
  /\ wire[ncalls] = <<>>
  /\ pc' = "idle"
  /\ acked' = acked \cup {ncalls}
  /\ UNCHANGED <<uc_mapper, sc_mapper, batch, wire, ncalls, broken, issued,
                 searchVars, diskVars, ss_db, envVars>>

\* Mutant of CallFail: the caller tries again until the status is OK.
CallRetry ==
  /\ pc = "call"
  /\ ncalls \in broken
  /\ UNCHANGED vars

\* The call ended with an error.  The caller drops the status: nothing is undone.
CallFail ==
  /\ pc = "call"
  /\ ncalls \in broken
  /\ pc' = "idle"
  /\ UNCHANGED <<uc_mapper, sc_mapper, batch, callVars, searchVars, diskVars, ss_db, envVars>>

----------------------------------------------------------------------------
(* Updates, server side *)

\* Mutant of ServerStore: the stream's handler reads once instead of in a loop.
ServerStoreFirst(c) ==
  /\ wire[c] # <<>>
  /\ ss_db' = [ss_db EXCEPT ![Head(wire[c]).l] = Head(wire[c]).e]
  /\ wire' = [wire EXCEPT ![c] = <<>>]
  /\ UNCHANGED <<clientVars, ncalls, broken, acked, issued, searchVars, diskVars, envVars>>

\* update and batch_update: the handler of call c stores its next request.
\* Handlers of different calls run in different threads, without a lock.
ServerStore(c) ==
  /\ wire[c] # <<>>
  /\ ss_db' = [ss_db EXCEPT ![Head(wire[c]).l] = Head(wire[c]).e]
  /\ wire' = [wire EXCEPT ![c] = Tail(@)]
  /\ UNCHANGED <<clientVars, ncalls, broken, acked, issued, searchVars, diskVars, envVars>>

----------------------------------------------------------------------------
(* Search *)

\* Mutant of SearchBegin: the token carries the counter before the last update.
SearchBeginStale(w) ==
  /\ pc = "idle"
  /\ pc' = "search"
  /\ query' = [w |-> w, i |-> IF uc_mapper[w] = 0 THEN 0 ELSE uc_mapper[w] - 1,
               found |-> {}, base |-> Visible(w)]
  /\ answer' = None
  /\ UNCHANGED <<uc_mapper, sc_mapper, batch, callVars, diskVars, ss_db, envVars>>

\* search2(w): gen_search_token reads the counter, the request goes out.
SearchBegin(w) ==
  /\ pc = "idle"
  /\ pc' = "search"
  /\ query' = [w |-> w, i |-> uc_mapper[w], found |-> {}, base |-> Visible(w)]
  /\ answer' = None
  /\ UNCHANGED <<uc_mapper, sc_mapper, batch, callVars, diskVars, ss_db, envVars>>

\* One turn of the server's loop: probe label i, unmask and collect what is there.
SearchStep ==
  /\ pc = "search"
  /\ query.i >= 1
  /\ query' = [query EXCEPT !.i = @ - 1,
                            !.found = @ \cup Listed(query.w, query.i, query.i)]
  /\ UNCHANGED <<clientVars, answer, callVars, diskVars, ss_db, envVars>>

\* Mutant of SearchReturn: the loop ends before label 1.
SearchReturnEarly ==
  /\ pc = "search"
  /\ query.i <= 1
  /\ pc' = "idle"
  /\ answer' = [w |-> query.w, inds |-> query.found, base |-> query.base, whole |-> TRUE]
  /\ query' = None
  /\ UNCHANGED <<uc_mapper, sc_mapper, batch, callVars, diskVars, ss_db, envVars>>

\* The replies are streamed after the loop, and the client read them all.
SearchReturn ==
  /\ pc = "search"
  /\ query.i = 0
  /\ pc' = "idle"
  /\ answer' = [w |-> query.w, inds |-> query.found, base |-> query.base, whole |-> TRUE]
  /\ query' = None
  /\ UNCHANGED <<uc_mapper, sc_mapper, batch, callVars, diskVars, ss_db, envVars>>

\* The reply stream breaks: Read returns false, the client keeps what it has
\* and never asks for the status.
SearchBreak ==
  /\ pc = "search"
  /\ faults < MaxFaults
  /\ pc' = "idle"
  /\ \E inds \in SUBSET (IF query.i = 0 THEN query.found ELSE {}) :
       answer' = [w |-> query.w, inds |-> inds, base |-> query.base, whole |-> FALSE]
  /\ query' = None
  /\ faults' = faults + 1
  /\ UNCHANGED <<uc_mapper, sc_mapper, batch, callVars, diskVars, ss_db,
                 rolledBack, starts, kills>>

----------------------------------------------------------------------------
(* The client process ends and starts *)

\* main returns: ~Client begins to store both maps.
ExitBegin ==
  /\ pc = "idle"
  /\ starts < MaxStarts
  /\ pc' = "closing"
  /\ todo' = Keys
  /\ answer' = None
  /\ UNCHANGED <<uc_mapper, sc_mapper, batch, callVars, query, cs_uc, cs_sc, hole, clean,
                 ss_db, envVars>>

\* ~Client stores every proof before the first counter.
StoreNext(k) ==
  /\ k \in todo
  /\ k[1] = "u" => \A w \in Keywords : <<"s", w>> \notin todo

\* store(k, v), its Delete: the key is gone, so a start would read the default.
StoreDelete(k) ==
  /\ pc = "closing"
  /\ hole = None
  /\ StoreNext(k)
  /\ hole' = k
  /\ IF k[1] = "s" THEN /\ cs_sc' = [cs_sc EXCEPT ![k[2]] = ZeroProof]
                        /\ UNCHANGED cs_uc
                   ELSE /\ cs_uc' = [cs_uc EXCEPT ![k[2]] = 0]
                        /\ UNCHANGED cs_sc
  /\ UNCHANGED <<clientVars, callVars, searchVars, todo, clean, ss_db, envVars>>

\* store(k, v), its Put.
StorePut ==
  /\ pc = "closing"
  /\ hole # None
  /\ IF hole[1] = "s" THEN /\ cs_sc' = [cs_sc EXCEPT ![hole[2]] = sc_mapper[hole[2]]]
                           /\ UNCHANGED cs_uc
                      ELSE /\ cs_uc' = [cs_uc EXCEPT ![hole[2]] = uc_mapper[hole[2]]]
                           /\ UNCHANGED cs_sc
  /\ todo' = todo \ {hole}
  /\ hole' = None
  /\ UNCHANGED <<clientVars, callVars, searchVars, clean, ss_db, envVars>>

\* Mutant of ExitEnd: ~Client forgets its second loop.
ExitEndAfterProofs ==
  /\ pc = "closing"
  /\ \A w \in Keywords : <<"s", w>> \notin todo
  /\ hole = None
  /\ pc' = "down"
  /\ clean' = TRUE
  /\ UNCHANGED <<uc_mapper, sc_mapper, batch, callVars, searchVars, cs_uc, cs_sc, todo, hole,
                 ss_db, envVars>>

\* Both maps are stored and the database is closed.
ExitEnd ==
  /\ pc = "closing"
  /\ todo = {}
  /\ hole = None
  /\ pc' = "down"
  /\ clean' = TRUE
  /\ UNCHANGED <<uc_mapper, sc_mapper, batch, callVars, searchVars, cs_uc, cs_sc, todo, hole,
                 ss_db, envVars>>

\* A call breaks: its first n unstored requests had reached the server, whose
\* handler still stores them; the others are lost.
Sever(c, n) ==
  /\ broken' = broken \cup {c}
  /\ wire' = [wire EXCEPT ![c] = SubSeq(@, 1, n)]

InCall == pc \in {"call", "batch"}

\* The connection of the call under way breaks.
CallBreak(n) ==
  /\ InCall
  /\ ncalls \notin broken
  /\ faults < MaxFaults
  /\ n <= Len(wire[ncalls])
  /\ Sever(ncalls, n)
  /\ faults' = faults + 1
  /\ UNCHANGED <<clientVars, ncalls, acked, issued, searchVars, diskVars, ss_db,
                 rolledBack, starts, kills>>

\* The client process dies (a signal, exit(1) in a catch clause): ~Client does
\* not run, or does not end.  A call under way is severed by it.
Kill(n) ==
  /\ pc # "down"
  /\ kills < MaxKills
  /\ starts < MaxStarts
  /\ pc' = "down"
  /\ kills' = kills + 1
  /\ batch' = None
  /\ todo' = {}
  /\ hole' = None
  /\ query' = None
  /\ answer' = None
  /\ IF InCall /\ ncalls \notin broken
     THEN n <= Len(wire[ncalls]) /\ Sever(ncalls, n)
     ELSE n = 0 /\ UNCHANGED <<broken, wire>>
  /\ UNCHANGED <<uc_mapper, sc_mapper, ncalls, acked, issued, cs_uc, cs_sc, clean, ss_db,
                 rolledBack, starts, faults>>

\* Mutant of Start: the constructor's scan loads the proofs and skips the counters.
StartWithoutCounters ==
  /\ pc = "down"
  /\ pc' = "idle"
  /\ uc_mapper' = [w \in Keywords |-> 0]
  /\ sc_mapper' = cs_sc
  /\ rolledBack' = (rolledBack \/ cs_uc # uc_mapper \/ cs_sc # sc_mapper)
  /\ clean' = FALSE
  /\ starts' = starts + 1
  /\ UNCHANGED <<batch, callVars, searchVars, cs_uc, cs_sc, todo, hole, ss_db, kills, faults>>

\* The constructor loads both maps from cs_db.
Start ==
  /\ pc = "down"
  /\ pc' = "idle"
  /\ uc_mapper' = cs_uc
  /\ sc_mapper' = cs_sc
  /\ rolledBack' = (rolledBack \/ cs_uc # uc_mapper \/ cs_sc # sc_mapper)
  /\ clean' = FALSE
  /\ starts' = starts + 1
  /\ UNCHANGED <<batch, callVars, searchVars, cs_uc, cs_sc, todo, hole, ss_db, kills, faults>>

\* The server is stopped and started again: what it stored is on disk, the
\* requests its handlers had not stored are gone, the call under way fails.
\* (A search under way ends as in SearchBreak.)
ServerRestart ==
  /\ pc # "search"
  /\ faults < MaxFaults
  /\ \E c \in Calls : wire[c] # <<>>
  /\ wire' = [c \in Calls |-> <<>>]
  /\ broken' = broken \cup (IF InCall THEN {ncalls} ELSE {})
  /\ faults' = faults + 1
  /\ UNCHANGED <<clientVars, ncalls, acked, issued, searchVars, diskVars, ss_db,
                 rolledBack, starts, kills>>

----------------------------------------------------------------------------
Next ==
  \/ \E w \in Keywords, ind \in Inds : Update(w, ind)
  \/ \E w \in Keywords, n \in 1..MaxBatch : BatchOpen(w, n)
  \/ \E ind \in Inds : BatchWrite(ind)
  \/ BatchClose
  \/ CallOk
  \/ CallFail
  \/ \E c \in Calls : ServerStore(c)
  \/ \E w \in Keywords : SearchBegin(w)
  \/ SearchStep
  \/ SearchReturn
  \/ SearchBreak
  \/ ExitBegin
  \/ \E k \in Keys : StoreDelete(k)
  \/ StorePut
  \/ ExitEnd
  \/ \E n \in 0..MaxBatch : CallBreak(n)
  \/ \E n \in 0..MaxBatch : Kill(n)
  \/ Start
  \/ ServerRestart

Spec == Init /\ [][Next]_vars

\* The server's handlers and search loop run on, and the single client thread
\* goes on through a call, a stream, a search and its destructor.  Nothing has
\* to start an operation, break or die.
FairSpec ==
  /\ Spec
  /\ \A c \in Calls : WF_vars(ServerStore(c))
  /\ WF_vars(\E ind \in Inds : BatchWrite(ind))
  /\ WF_vars(BatchClose)
  /\ WF_vars(CallOk)
  /\ WF_vars(CallFail)
  /\ WF_vars(SearchStep)
  /\ WF_vars(SearchReturn)
  /\ WF_vars(\E k \in Keys : StoreDelete(k))
  /\ WF_vars(StorePut)
  /\ WF_vars(ExitEnd)

----------------------------------------------------------------------------
(* Properties *)

\* The range of every variable.
TypeOK ==
  /\ pc \in {"down", "idle", "call", "batch", "search", "closing"}
  /\ uc_mapper \in [Keywords -> Counts]
  /\ sc_mapper \in [Keywords -> Proofs]
  /\ batch \in Batches \cup {None}
  /\ cs_uc \in [Keywords -> Counts]
  /\ cs_sc \in [Keywords -> Proofs]
  /\ todo \in SUBSET Keys
  /\ hole \in Keys \cup {None}
  /\ ss_db \in [Labels -> Entries \cup {None}]
  /\ wire \in [Calls -> Seq(Requests)]
  /\ ncalls \in 0..MaxCalls
  /\ query \in Queries \cup {None}
  /\ answer \in Answers \cup {None}
  /\ broken \in SUBSET Calls
  /\ acked \in SUBSET Calls
  /\ issued \in [Labels -> [e : Entries, call : Calls] \cup {None}]
  /\ clean \in BOOLEAN
  /\ rolledBack \in BOOLEAN
  /\ starts \in Nat
  /\ kills \in Nat
  /\ faults \in Nat

\* A request the server's handler of call c has still to store.
OnWire(c, l, e) == \E k \in 1..Len(wire[c]) : wire[c][k] = [l |-> l, e |-> e]

\* As long as no start read back old maps, every entry a client made is where
\* the client thinks it is: stored under its label, on its way to it, or lost
\* with a call that ended in an error.  Nothing else makes the server log
\* "We were supposed to find something!" (DistSSE.server.h:436).
EntriesAccounted ==
  ~rolledBack =>
    \A w \in Keywords : \A i \in 1..uc_mapper[w] :
      LET l == <<w, i>>
      IN  /\ issued[l] # None
          /\ \/ ss_db[l] = issued[l].e
             \/ OnWire(issued[l].call, l, issued[l].e)
             \/ issued[l].call \in broken

\* Every entry of a call that returned Status::OK is stored under a label that
\* a search will probe, through batches, clean exits, starts, server restarts
\* and late handlers, as long as no start read back old maps.
AckedStored ==
  ~rolledBack =>
    \A l \in Labels :
      issued[l] # None /\ issued[l].call \in acked =>
        ss_db[l] = issued[l].e /\ l[2] <= uc_mapper[l[1]]

\* The server overwrites no entry (store is a blind Put, DistSSE.server.h:61-77),
\* as long as no start read back old maps: a label is used once.
LabelsWrittenOnce ==
  [][~rolledBack => \A l \in Labels : ss_db[l] # None => ss_db'[l] = ss_db[l]]_vars

\* A result set whose reply stream did not break lists everything that was
\* visible when the search began, and nothing that is not visible when it
\* ends, although late handlers store entries while the loop runs.
AnswerSandwiched ==
  ~rolledBack /\ answer # None =>
    /\ answer.whole => answer.base \subseteq answer.inds
    /\ answer.inds \subseteq Visible(answer.w)

\* A search that was answered in full lists every index of w that the calls
\* selected by the mask had added and had acknowledged before it began.
ListsAcked(masks) ==
  answer # None /\ answer.whole =>
    \A i \in 1..uc_mapper[answer.w] :
      LET entry == issued[<<answer.w, i>>]
      IN  entry.call \in acked /\ entry.e.mask \in masks =>
            [kind |-> "plain", of |-> Ind7[entry.e.ind]] \in answer.inds

\* End to end: what update(op, w, ind) added with Status::OK is listed by every
\* later search whose reply did not break, after any number of clean exits,
\* as long as no start read back old maps.
UpdatesListed == ~rolledBack => ListsAcked({"H2"})

\* The same for every entry, those of batch_update(keyword, n) included, as the
\* functional test of zhangscheme/README.md:24-28 has it: "insert three
\* keyword-docuemnt pairs", then "search `keyword`".  The code masks them with
\* H1 (DistSSE.client.h:266) and unmasks with H2.
BatchesListed == ~rolledBack => ListsAcked({"H1", "H2"})

\* No acknowledged entry ever gets a number the client no longer counts.  The
\* client says "no need to store, because ti will be done in ~Client"
\* (DistSSE.client.h:141): a process that dies without ~Client refutes it.
AckedCounted ==
  \A l \in Labels :
    issued[l] # None /\ issued[l].call \in acked => l[2] <= uc_mapper[l[1]]

\* The proof kept for w is the XOR of the indices of the entries counted for
\* w, and the empty string from the first index shorter than a proof on, as
\* long as no start read back old maps: proof and counter never drift apart.
ProofOfCounted ==
  ~rolledBack =>
    \A w \in Keywords :
      LET at(x) == {i \in 1..uc_mapper[w] : issued[<<w, i>>].e.ind = x}
      IN  sc_mapper[w] = IF \E x \in ShortInds : at(x) # {}
                         THEN EmptyProof
                         ELSE [len |-> 8, odd |-> {x \in Inds : Cardinality(at(x)) % 2 = 1}]

\* When ~Client ran to its end, cs_db holds both maps as they were, however
\* the deletes and puts of its keys were ordered: the next start loses nothing.
CleanExitKeepsMaps ==
  pc = "down" /\ clean => cs_uc = uc_mapper /\ cs_sc = sc_mapper

\* Without kills the protocol implements the abstract index: what a search can
\* see only grows, by one entry per step of a handler, and no answer misses
\* what was there when it was asked for.
Index == INSTANCE KeywordIndex WITH
  index  <- [w \in Keywords |-> Visible(w)],
  query  <- IF query = None THEN None ELSE [w |-> query.w, base |-> query.base],
  answer <- IF answer = None THEN None
            ELSE [w |-> answer.w, inds |-> answer.inds, whole |-> answer.whole]

ImplementsIndex == Index!Spec

\* Every client operation ends: the synchronous calls, the stream, the search
\* and the destructor all come back, whatever breaks meanwhile.
OperationsEnd == pc \notin {"idle", "down"} ~> pc \in {"idle", "down"}
=============================================================================
