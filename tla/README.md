# A TLA+ model of VFSSSE

VFSSSE is a collection of searchable-encryption programs: a client adds pairs
(keyword, file index) to a server that sees only hashes and masked values, and
searches by sending the server what it needs to find the entries of one
keyword. The repository holds the authors' verifiable scheme (`zhangscheme`),
a re-implementation of FAST (`fast`) and a copy of Sophos (`sophos`), each as a
gRPC client and server on RocksDB, and drivers that measure them.

This directory models the parts that carry state, checks them with TLC on small
instances, and proves every safety property and every refinement the passing runs
check, for every instance, with TLAPS. Paths below are relative to `src/`.

## 1. Inventory

| part | state | operations | interacts by |
|---|---|---|---|
| **zhangscheme client** `zhangscheme/DistSSE.client.h` | `uc_mapper` (entries per keyword), `sc_mapper` (XOR of their indices, the *proof*), `cs_db` | `update`, `batch_update(keyword, n)`, `search`, `search2`; constructor (loads both maps), destructor (stores them with `store` = Delete, Put) | unary and streaming RPCs; several threads share it in `gen_db_2` |
| **zhangscheme server** `zhangscheme/DistSSE.server.h` | `ss_db` (label -> masked entry); `cache_db` is opened and not used by a handler | handlers `update`, `batch_update`, `search`; SIGINT closes the databases | one gRPC thread per call, no lock |
| **programs** `zhangscheme/rpc_client.cc`, `rpc_server.cc` | one client per process | one operation, then `~Client` | command line |
| **load generator** `zhangscheme/DistSSE.db_generator.h` | the shares of `n_threads` threads | `gen_db_2`, `generation_job_2` | threads share a client; each has a stream of its own |
| **utilities** `zhangscheme/DistSSE.Util.cc` | none | `H1`, `H2`, `Xor`, `padding`, `split`, hex | called by both sides |
| **thread pool** `zhangscheme/thread_pool.h`, `sophos/src/thread_pool.hpp` | task queue, `stop` | `enqueue`, `join` | mutex and condition variable; only Sophos uses it |
| **fast** | counters `sc`, `uc`, `ss_db`, `cache_db` | as zhangscheme, and `batch_cache`/`merge` | as zhangscheme |
| **Sophos client** `sophos/src/medium_storage_sophos_client.cpp` | counter per keyword on disk, three keys | `search_request`, `update_request`, key files | called by the runner, from several threads in `aux/db_generator.cpp` |
| **Sophos client runner** `sophos/src/sophos_client_runner.cpp` | update session, counts of asynchronous updates launched and completed, completion thread | setup, `search`, `update`, `async_update`, sessions, `wait_updates_completion` | RPCs, completion queue |
| **Sophos server** `sophos/src/sophos_core.cpp`, `sophos_server_runner.cpp` | `edb_` (token -> masked index), key file, directory | `setup`, `update`, `bulk_update`, five ways to `search` (sequential and with thread pools) | one gRPC thread per call; `update` takes a lock, `bulk_update` and `setup` do not |
| copies | | `zhangscheme_simple`, `zhangscheme_RealWorldDataset`, `fast_simple`, `fast_RealWorldDataset`, `sophos_RealWorldDataset`: the same code with other drivers | |
| the rest | | `sophos_verify` (times a `std::map`), loggers, vendored `sophos/third_party`, generated protobuf code, papers | |

What is hard in it, and what makes each part correct:

* *zhangscheme client and server.* The counter and the proof advance before the
  RPC and are never taken back; statuses are dropped; the maps reach the disk
  only in the destructor; `store` deletes before it puts; a broken stream
  leaves a handler that still stores; searches run while handlers write. The
  system is correct when every counted entry is where the client thinks it is,
  a label is used once, what was acknowledged is listed by later searches, and
  proof and counter agree.
* *load generator.* Unlocked read-modify-write of the shared maps. It is correct
  when the labels stay contiguous, nothing is lost, and it returns.
* *Sophos.* A read-modify-write under two locks; a setup in steps on two
  machines; asynchronous completions counted by a thread that can be told to
  stop too early; pipelines of thread pools that have to be joined in order;
  counters whose last values a killed client may not find again. It is correct
  when the chain of tokens has no gap, what was acknowledged is found, a search
  with threads answers what the plain loop would and leaves nothing behind, every
  function returns, and client and server agree on one key for ever.
* *fast.* The skeleton of zhangscheme without a proof: counters in memory, shared
  by threads, written by the destructor. It is correct when no counter names a
  label that was not made and what was acknowledged stays counted.

The full list of hazards, each at its line with the properties that watch it, is
in `PROJECT.json`.

## 2. Modules

| module | what it is | extends |
|---|---|---|
| `DistSSE` | client, server, calls, client database, failures of the zhangscheme protocol | |
| `KeywordIndex` | abstract specification: an index that only grows and searches that answer from it | |
| `MCDistSSE` | constants for TLC | `DistSSE` |
| `GenDb` | `gen_db_2` with the threads that share a client | |
| `FastSSE`, `MCFastSSE` | client, generator threads, server and deaths of `fast` | |
| `SophosIndex`, `MCSophosIndex` | Sophos's updates and searches: counters, sessions, unary calls, the server's entries | |
| `SearchPipeline` | the three searches with threads, on the thread pool | |
| `UpdateCompletion` | asynchronous updates and their completion loop, `load_inverted_index`, the destructor | |
| `SophosSetup`, `MCSophosSetup` | how Sophos's client and server come to agree on a key, and restart | |
| `DistSSE_proofs` | types, inductive invariant, entries, acknowledgements, labels, clean exits | `DistSSE`, `TLAPS` |
| `DistSSE_search_proofs` | the proof kept by the client, answers, the refinement of `KeywordIndex` | `DistSSE_proofs`, `FiniteSetTheorems` |
| `GenDb_proofs`, `FastSSE_proofs`, `SophosIndex_proofs`, `SearchPipeline_proofs`, `UpdateCompletion_proofs`, `SophosSetup_proofs` | the safety properties and refinements of the module they extend | that module, `TLAPS` |

Sophos is modelled in four parts that meet at small interfaces. `SophosIndex` has
the meaning of updates and searches; it takes a search's look-ups one by one in
any order, which is what `SearchPipeline` shows its threads do. `UpdateCompletion`
has the runner's threads and leaves the updates without content; `SophosSetup`
has what is on disk before the first update.

### DistSSE

The client process is in one state, `pc`: `idle`, in a unary `call` or waiting
for the status of a stream, in the loop of a `batch`, in a `search`, `closing`
(inside `~Client`) or `down`. The maps keep their names. `cs_uc` and `cs_sc` are
the two kinds of keys of `cs_db`; `todo` and `hole` say how far the destructor
is, `hole` being the key that is deleted and not yet put. `wire[c]` is what the
handler of call `c` has still to store; a call that broke goes into `broken`, a
call that returned `Status::OK` into `acked`.

| code | action |
|---|---|
| `update` 429-442, with `gen_update_token` 201-226 | `Update`, then `CallOk` or `CallFail` |
| `batch_update` 460-486, with `gen_update_request` 254-278 | `BatchOpen`, `BatchWrite` per turn, `BatchClose`, then `CallOk` or `CallFail` |
| handlers `update`, `batch_update` (server 459-488) | `ServerStore(c)`: one request |
| `search`, `search2` 296-404 and the handler 411-456 | `SearchBegin` (token and request), `SearchStep` per label, `SearchReturn` or `SearchBreak` |
| `~Client` 84-104, `store` 106-111 | `ExitBegin`, `StoreDelete` and `StorePut` per key, `ExitEnd` |
| constructor 50-82 | `Start` (and `Init` on an empty database) |
| a broken connection, `exit(1)` or a signal, a server restart | `CallBreak`, `Kill`, `ServerRestart` |

`issued`, `answer`, `clean` and `rolledBack` are history: they let properties
speak of what a label was made for, of the last answer, of how the process went
down, and of a start that read back old maps. No guard reads them, except that
`wire` and `issued` are written together.

Abstractions. H1 and H2 are collision free, so a label is a pair of a keyword and
a number and an entry is an index with the hash that masked it; unmasking with
the wrong hash gives a result of its own kind (`garbled`). `Xor` is modelled with
its length rule, which decides what becomes of a proof when an index is shorter
than eight bytes. `parse` keeps seven bytes of an index: `Ind7`, any function.
The getters insert a default for a missing keyword; a missing keyword and its
default are one. The operation byte is parsed and never used, so it is left out.
`store` on the server is a Put without sync: what a handler stored survives the
server process. A RocksDB that refuses to write is not modelled, nor is a power
failure.

### GenDb

A step is one access of a thread to a map or to its stream, so the modelled
interleavings are those of the unlocked accesses. One keyword, as in the code;
indices are random, so an entry is named by its thread and turn. Two threads
inside one `std::map` of which one inserts is undefined behaviour: `Corrupt` lets
the process die, and the other outcomes are the plain interleavings. Reads and
writes of a counter and of an eight-byte proof are whole (one move each, as the
compilers the Makefile uses generate them). The client may come with entries
of earlier runs, counted in `old`; if one of their indices was `short`, the proof
it comes with is `""` (`Empty`) and stays that.

### KeywordIndex

The promise in four actions: `Add` one result, `Ask`, `Answer` with a set between
what the index held then and what it holds now (a part of it, if the reply broke),
`Forget` an answer. `DistSSE`, `FastSSE` and `SophosIndex` each map to it with an
`Index == INSTANCE KeywordIndex`: the index is what a search can see now
(`Visible`), and the query carries what it could see when it was sent.

### FastSSE

| code (`fast/`) | action |
|---|---|
| `update` 365-378, with `gen_update_token` 201-225 | `Update`, then `UpdateReturn` or `UpdateBreak` |
| `generation_job_2` 253-276; `batch_update` 380-405 is one such thread | `Open`, then per entry `Find`, `Insert`, `Write`, at last `Finish` |
| handlers `update`, `batch_update` (server 469-498) | `Store`, `StoreNext` |
| `search` 323-354 and its handler 420-466 | `SearchBegin`, `SearchStep` per label, `SearchReturn` or `SearchBreak` |
| `~Client` 79-104 | `Exit`, or `KillInDestructor` part of the way |
| constructor 45-77 | `Start` |

A generator thread's accesses to `uc_mapper` are steps of their own, as in
`GenDb`; the search counter is kept by the code and decides nothing, so it is left
out. `disturbed` is history: the keywords that two threads updated at once or
whose counter a death took back. What the properties promise, they promise for
the others, but for `TypeOK`, whose last line holds for all.

### SophosIndex

A token is a keyword and a number: the client counts up by `invert_mult`, the
server counts down by `eval`, and hashes of distinct tokens differ.

| code (`sophos/src/`) | action |
|---|---|
| `update_request` 239-305, first locked section | `GetCounter` |
| the second, and the request made | `AddCounter` or `SetCounter` |
| `update_in_session` 295-310 | `SendInSession` |
| `update` 222-243 outside a session, `update_with_counter` 245-266 at any time | `SendCall`, then `CallReturn` or `CallBreak` |
| `start_update_session`, `end_update_session` 325-358 | `StartSession`, `EndSession` |
| handlers `update`, `bulk_update` 296-336 | `ServerUpdate`, `ServerBulk` |
| `search` 188-220 and `search_callback` 176-212 | `SearchBegin`, `SearchStep`, `SearchReturn` or `SearchBreak` |
| destructors, `construct_from_directory` | `Exit`, `Start` |

The counter map is the vendored `bucket_map`, as far as its clients can tell: `add`
does not look for the key, so a second `add` of a keyword leaves two copies, and
which of them is seen depends on whether the bucket was full (the choice in
`AddCounter`); buckets are shared file mappings and survive a kill, the overflow
bucket is what `flush` last wrote (`CountersLeft`), and a map never flushed
cannot be opened (`Start`). A death inside `flush` or inside a resize of the map is
not modelled.

### SearchPipeline

One search: the derive threads (`rsa_job`), the access pool, and for
`search_parallel_callback` the post pool. A worker's steps are those of
`thread_pool.hpp`: `Take` a task, `Sleep` in the condition variable, `End`; `Notified`
is `notify_one`, `Stop` and `Joined` are the two halves of `join`. `t` is the
`uint8_t` of the spawning loops and `n_threads` the unsigned difference of
`search_parallel`, both with their wrap-around, at a small width. The process
dies when the system has no more threads to give (`SpawnFail`), or when a thread
asks the server's TDP pool for a power beyond `maximum_order` = 2 * `cores`
(`DeriveFail`): `eval` throws, and nothing in the thread catches it. There is no search with 0
cores, since the constructor of that pool throws, and the server's with it.

### UpdateCompletion

The user's thread is at `main`; `loop` is the completion thread. `AsyncLaunch` and
`AsyncFinish` are the two moments of `async_update` between which the tag is not
yet with gRPC; `Reply` and `Cancel` bring it back; `LoopTest`, `LoopNext`, `LoopShut` and
`LoopCount` are the loop. `Wait`, `Load ... EndSession` and `Destroy ... LoopJoined`
are `wait_updates_completion`, `load_inverted_index` and the destructor, `ParseFail`
and `Unwound` the path of an exception. `stop` starts with any value: no
constructor sets it. `called` and `cancelled` are history: the updates `async_update`
called for outside a session, and those gRPC cancelled. What gRPC does with a call whose `ClientContext` is gone is its
choice: it may complete or cancel it.

### SophosSetup

A step per test, file or directory of the handler `setup` (`CheckServer` ...
`WriteKey`), of the client's constructor (`Create`, `WriteFile`, `SendSetup`, `SetupOk`,
`SetupFailed`) and of both restarts. A key is named by the client that made it. Three
clients, each with a directory of its own, may set up at once; the handler
takes no lock. Deaths come between any two steps; lost messages, key files that
cannot be made, keys that do not get into their file, which neither side checks
(`WriteKeyFails`, `WriteFileFails`), and databases that cannot be opened are faults.

## 3. Runs

| run | question | result |
|---|---|---|
| `distsse` | all safety properties of the protocol, with clean exits, a kill and a fault | holds, 7.2 million states |
| `distsse_index` | does it implement `KeywordIndex`, and does every operation end (no kills) | holds |
| `distsse_batch` | is a batch that was acknowledged listed by the next search | **no** |
| `distsse_kill` | is an acknowledged entry counted for ever, kills included | **no** |
| `gendb` | what survives the unlocked accesses; return of `gen_db_2` | holds, 449 thousand states |
| `gendb_race` | do the threads store and count every entry | **no** |
| `fast` | counters, acknowledgements and the index of FAST | holds, 1.1 million states |
| `sophos` | token chain, acknowledgements and the index of Sophos | holds, 6.3 million states |
| `pipeline` | do the searches with threads answer, only what they should, and end | holds, 140 thousand states |
| `completion` | what is stored when a wait or a load returns, what is left behind; does every function return | holds, 415 thousand states |
| `completion_wait` | does `wait_updates_completion` return | **no** |
| `setup` | one key, restarts, clients and directories | holds, 1.7 million states up to a permutation of the clients |

What the passing properties say:

* `EntriesAccounted`: each of the numbers 1 .. counter of a keyword is stored, on
  its way, or was lost with a call that failed.
* `AckedStored`, `UpdatesListed`: an acknowledged entry is stored under a counted
  label, and if `update` made it every later whole answer lists it, through
  exits, starts and server restarts.
* `LabelsWrittenOnce`: no stored entry is ever replaced, although late handlers of
  broken calls run next to new ones.
* `AnswerSandwiched`: an answer is between two moments of the index.
* `ProofOfCounted`: the proof is the XOR of what is counted, and `""` from the
  first index that is too short.
* `CleanExitKeepsMaps`: a destructor that ran to its end loses nothing.
* `CounterNamesALabel`, `NoHoles`: whatever threads do to each other, the labels
  are contiguous and the counter never runs ahead of them, so a search probes
  only labels that were made. `SharesAddUp` and `KeptByOneThread`: the shares
  are right for every division, and a single thread loses neither an entry nor its
  part of the proof.
* `TokensContiguous`: the same for Sophos, whatever two threads make of
  `update_request` and of a double `add`. `MissedOnlyIfBroken`: "We were supposed to
  find something!" is logged only for updates under way or broken.
* `NeverReplaced`, and `AckedStored` of `SophosIndex` and `FastSSE`: for a keyword that
  was not disturbed, through sessions, faults, kills and restarts.
* `AnswersAsSequential`, `LookedUpOnce`: with more cores than access threads a search
  with threads answers what the plain loop would, each entry once, although its
  stages feed each other and are joined one after the other. `NoCoresNoAnswer`:
  with as many cores as access threads `search_parallel` answers nothing, with fewer it
  takes the process down.
  `NothingOutlives`: no job is left that refers to the locals of a search.
* `WaitedStored`, `LoadedStored`, `NothingOutlives` of `UpdateCompletion`: two unsigned counts of
  two threads are compared for equality, and still a wait that returns, in a load and in
  the destructor too, has waited for all: what `async_update` called for is stored, or gRPC
  cancelled it; a load that returned true is stored, but for what a broken stream took;
  nothing refers to a frame or a runner that is gone.
* `OneKeyEver`, `OkRestarts`, `StrangerWasTold`: however setups race and whoever dies, one
  key is ever set up and a client that had its OK finds it after every restart, but for
  a key or a database that never got onto the disk (`unwritten`, `closed`): then the server
  may not start again, but never does it come back with another key;
  a client that runs without an OK has had an exception from its constructor before.

Those of `DistSSE` are conditional on `~rolledBack`: no start has read back maps older
than the last ones. Without a kill that never happens (`CleanExitKeepsMaps`);
what a kill does is the subject of `distsse_kill`. In the same way the properties of
`FastSSE` and `SophosIndex` that speak of acknowledged or stored entries leave out
disturbed keywords. So they show how far the damage of a race or a death goes, not
that there is none: those hazards are behaviours of the models, and the list in
`PROJECT.json` says at each of them what is shown and what is only recorded.

What the violated ones show (each is a finding in `PROJECT.json`):

* `BatchesListed`: entries of a batch are masked with the label itself
  (`DistSSE.client.h:266`) and unmasked with H2, so the README's second and third
  test do not go together. The README's own pseudo-code masks with H2 (line 79).
* `AckedCounted`: "no need to store, because ti will be done in ~Client" is not
  so when the client dies.
* `KeptByThreads`: "need to lock when read, but for our scheme, no need" is not so
  with two threads and one keyword: both read the same counter and make the same
  label, the server keeps the later entry, and the counter is one short.
* `WaitReturns`: `wait_updates_completion` stops the thread that would count the
  updates it then waits for (`sophos_client_runner.cpp:316`). A message of the code
  calls asynchronous updates "still buggy" (line 279).

Three findings rest on passing runs, whose properties say exactly when the code does
what its comments do not expect: `NoCoresNoAnswer`, `MissedOnlyIfBroken`, and `OkRestarts`
with its cases `closed` and `unwritten`.

Bounds. Two keywords (one to disturb the other), two indices (one of them too
short for a proof), at most three entries per keyword and three calls: enough for
a broken call whose handler is late, a second call meanwhile, a batch of two that
breaks in its middle, and a search after both. One exit and start, one kill and
one fault: a kill inside the destructor followed by a start is one of each.
Keywords are interchangeable (symmetry); the temporal run uses none. `distsse_index`
has two entries and two calls per behaviour, since its temporal property needs
the whole graph. `gendb` has three threads, the least for which one thread can
overtake two that hold the same counter, three entries, so that shares differ,
an earlier entry or none, and one broken stream. All six bounds of `DistSSE` are
constants, and the theorems hold for any value of them.

`sophos`: two threads and two keywords, one of them in the overflow bucket; three
updates, so that one thread can overtake another and an entry can follow; a
session, two faults and a kill, so that a handler a broken call left behind, a
restart and a client that comes back meet. `fast`: the same sizes with one fault. `pipeline`:
`Byte` = 9 and `Unsigned` = 18 wrap where 2^8 and 2^32 do, up to four cores and three
tokens put the difference below, at and above zero and leave threads without
a token, with fewer, as many and more tokens than threads; ten threads exhaust the
system after the `uint8_t` has wrapped. `completion`: two workers and four updates, so that
a load can have two lists of two; one fault. `setup`: three clients (two that race and one
that comes later; they are alike, so the run uses symmetry), two deaths of the server, two faults;
clients die at will.

Deadlock is checked in the `distsse` runs and in `pipeline`, where only a search that
has returned, or a dead process, stutters. In `fast`, `sophos`, `completion` and `setup` the
bounds run out, and a user may stop using the client, so there it is not, nor
in `gendb`, which ends when `gen_db_2` returns or the process is dead and the handlers
have nothing left.

Fairness. Weak fairness of each handler (gRPC gives each call a thread), of the
client thread inside an operation (it is alone and blocks only in an RPC) and
of each thread of `gen_db_2`. Nothing obliges the client to begin an operation,
to exit or to start, and nothing obliges a failure to happen. A call waits
without a deadline, as in the code, so `OperationsEnd` rests on the handlers going on
and on gRPC reporting a broken connection. `pipeline` gives weak fairness to the handler
and to each thread, which is what the system's scheduler does; a mutex is held
for one step, so it needs no more. `completion` gives it to the user's thread inside a function
of the runner, to the completion loop, to each worker, and to the network (gRPC
delivers what it was given and the handlers go on); the user owes no call.
`Returns` of `UpdateCompletion` is for behaviours without asynchronous calls outside a session:
with them `WaitReturns` is violated.

## 4. Proofs

Every safety property and every refinement that a passing run checks is proved for all
values of the constants, from the `ASSUME`s of the models only. These say that the bounds are
naturals (and how they compare, where the code makes them), that `None`, `Missing` and
the states of a worker are none of the values they stand beside, and what a component takes
for granted: short indices are indices and `Ind7` is a function (`DistSSE`); a `uint8_t` can
count twice the cores, and the access threads, an `unsigned int` is at least twice as wide in values,
and the system lets a process have one thread per core (`SearchPipeline`: 2^8, 2^32). TLC
evaluates every assumption, and the inductive invariants were checked by TLC on the runs'
instances before they were proved.

### DistSSE

Everything `distsse` and `distsse_index` check but liveness, for any set of keywords and indices
and any bounds.

The invariants are not inductive alone. `IInv` in `DistSSE_proofs` is the
conjunction of

* `TypeInv`: `TypeOK`, and what the guards need of the operation under way: in `batch`
  there is a batch with room for the entries it has left, in a call its number is
  one, in `search` there is a query;
* `CallsInv`: calls are numbered in order, only the call under way and broken
  ones have requests on the wire, no call is both acknowledged and broken, and
  the entries on record were made for calls already begun;
* `IndexInv`, under `~rolledBack`: the labels on record are exactly
  1 .. counter (`Numbered`), what is stored is what was made for the label
  (`StoredAsIssued`), a request on the wire is the one made for its label, which is
  still free (`WireFresh`), no label is twice on a stream (`WireOnce`), and an
  entry neither stored nor on the wire belongs to a broken call (`Where`).

`WireFresh` is why it works: a late handler and a new call can never hold the
same label, because the counter advanced before the first one was sent. With it
`ServerStore` fills a free label, which gives `LabelsWrittenOnce`, and `CallOk` finds an
empty wire, which together with `Where` gives `AckedStored`.

`CleanExitKeepsMaps` needs its own invariant: while the destructor runs, every key that has
left `todo` is stored as it is in memory. `AnswerSandwiched` adds that what the loop
has found is visible and that what was visible at the beginning is found or
below the loop's index (`QueryOf`); `UpdatesListed` adds that an entry acknowledged
before an answer was among what its search began with. `ProofOfCounted` is an
induction over the steps that add an entry: the set of numbers that carry the
new index grows by one, so its parity flips (`FiniteSetTheorems`).

The refinement goes step by step. `VisibleIsAll` says that nothing is stored above the counter
(`Numbered`, `StoredAsIssued`), so what a search can see does not depend on the counter: an
update that has not been stored yet is a stutter, and `ServerStore`, which fills a free label,
is `Add`. A search that returns is `Answer` by `QueryOf`. A kill drops the query and is no step of
the index, hence the condition; without kills a client that is down went down cleanly, so
by `CleanExitKeepsMaps` no start reads back old maps (`Unkilled`).

| theorem | property |
|---|---|
| `TypeCorrect` | `TypeOK` |
| `InvHolds` | `IInv` |
| `EntriesAreAccounted` | `EntriesAccounted` |
| `AckedAreStored` | `AckedStored` |
| `LabelsAreWrittenOnce` | `LabelsWrittenOnce` |
| `CleanExitsKeepMaps` | `CleanExitKeepsMaps` |
| `AnswersAreSandwiched` | `AnswerSandwiched` |
| `UpdatesAreListed` | `UpdatesListed` |
| `ProofsMatchCounters` | `ProofOfCounted` |
| `StepsAreOfTheIndex` | every step but a kill is one of `KeywordIndex`, under `~rolledBack` |
| `IndexIsImplemented` | `ImplementsIndex`, if `MaxKills = 0` |

### GenDb

`IInv` in `GenDb_proofs` speaks of `n_threads` threads in any interleaving of their unlocked
accesses:

* `TurnsInv`, `MadeInv`: a thread writes its quota and no more, and each turn makes one request;
* `LabelsInv`: the labels made have no gap, and whatever a thread has read of the counter, at
  any time, is 0 or one of them. So what it writes back, one more, leaves no gap either,
  however old its value is: this is why a lost update costs entries and not the chain;
* `StoredInv`: a label is taken, or its request is in hand, on the stream, or gone with it;
* `OneInv`: with one thread, the k-th request is for label `old + k`, and counter, proof and
  database follow.

`SharesAddUp` rests on `PlanSize`, which numbers the entries planned: quotients and remainders
add up for any number of threads.

| theorem | property |
|---|---|
| `TypeCorrect` | `TypeOK` |
| `CounterIsALabel` | `CounterNamesALabel` |
| `HolesAreExplained` | `NoHoles` |
| `SharesAreWhole` | `SharesAddUp` |
| `OneThreadKeepsAll` | `KeptByOneThread` |

### FastSSE

As for `DistSSE`, with generator threads next to the main one. `Room` counts the threads at
work, so that a number of an update is left for each; `CountersInv` says that every counter,
in memory, in the database or in a thread, names a label that was made; `StoredInv` and
`UndisturbedInv` say that for a keyword no two threads updated at once, and whose
counter no death took back, the thread at work knows the counter, all labels are counted and
none was made twice. Then a handler fills a free label, which is `Add` of the index.

| theorem | property |
|---|---|
| `TypeCorrect` | `TypeOK` |
| `AckedAreStored` | `AckedStored` |
| `IndexIsImplemented` | `ImplementsIndex` |

### SophosIndex

The two locked sections of `update_request` are apart, so any thread may hold an old
counter. `CountersInv` says that each such value, and each that a flush left on disk, is a
label that was made; the tokens made then stay contiguous whoever goes first. `WhereInv`: an
update is stored, on its way, lost, or about to be sent; hence `MissedOnlyIfBroken`. As in
`FastSSE`, `StoredInv` and `UndisturbedInv` carry the rest, and `QueryInv` the search, which
may look up its tokens in any order.

| theorem | property |
|---|---|
| `TypeCorrect` | `TypeOK` |
| `TokensAreContiguous` | `TokensContiguous` |
| `MissesAreExplained` | `MissedOnlyIfBroken` |
| `AckedAreStored` | `AckedStored` |
| `EntriesAreNotReplaced` | `NeverReplaced` |
| `IndexIsImplemented` | `ImplementsIndex` |

### SearchPipeline

For any number of cores, workers and tokens. `IInv` in `SearchPipeline_proofs` is

* `StagesInv`: nothing is derived once the derive threads are joined, a pool whose workers
  have left was told to stop and is empty, and the handler passes a join only then;
* `IdleInv`: a search that has no use for a pool gives it no task;
* `SpawnInv`: with fewer cores than access threads the handler leaves its spawning
  loop only by the death of the process, because `t` wraps below the wrapped difference;
  otherwise there is a thread per remainder, at a token of its own (`Mine`), and no power it
  asks for is beyond the TDP pool (`FailFacts`);
* `PlacesInv`, `AnswerInv`, unless the loop runs wild: a derived token is in one place of the
  pools at most, a token in the post pool is stored, and the answer has exactly what was
  derived and is in no pool any more (`Finished`).

Division with remainder says that each token is of exactly one thread (`OneThread`,
`SomeThread`); so a thread's step adds one new token, and when all have passed `count` every
token has been derived. `AccessAndQueue` meets a stopped post pool only if the access pool
was joined, and then no access worker has a task: nothing found is thrown away.

| theorem | property |
|---|---|
| `TypeCorrect` | `TypeOK` |
| `AnswersMatchSequential` | `AnswersAsSequential` |
| `NoCores` | `NoCoresNoAnswer` |
| `NothingIsLeft` | `NothingOutlives` |
| `NoTokenTwice` | `LookedUpOnce` |

### UpdateCompletion

`TagsInv`: what was launched is what was counted, what gRPC or the queue has, and what is in
hand (`Owed`), and a tag is in one place, whatever gRPC does with it. `CallsInv`: an update
called for is stored or cancelled, or its tag is with gRPC or on its way there; so when the
counts are equal no tag is out (`NoneOut`) and all are stored or cancelled. `ThreadsInv`: a pool lives no longer than its load, and the destructor joins a loop
that has nothing to count. `SessionInv`: an update handed to a session is on its way, with
the handler, stored or lost.

| theorem | property |
|---|---|
| `TypeCorrect` | `TypeOK` |
| `WaitsAreForAll` | `WaitedStored` |
| `LoadsAreStored` | `LoadedStored` |
| `NothingIsLeft` | `NothingOutlives` |

### SophosSetup

All four properties of `setup`, for any number of clients, deaths and faults, from
the assumption that `None` and `Empty` are no keys. `IInv` in `SophosSetup_proofs` is
`TypeOK`, `StrangerWasTold` and

* `OneOwner`: `mkdir` makes the directory once and nothing removes it, so one handler
  at most is ever past it, and before it there is no core, key, database or OK;
* `Progress`: while that handler has not been answered, no client has its OK, and the
  core and the key file are its own as far as it has come;
* `Settled`: a complete key is the running server's, and whoever had an OK is alone
  and the key's owner, or the file is empty and the key is in memory only;
* `ClientInv`: the files of a client's directory come in order, and `meta.bin`, which is
  written when the counter map is destroyed, is there only after an OK or an exception.

| theorem | property |
|---|---|
| `TypeCorrect` | `TypeOK` |
| `OkIsKept` | `OkRestarts` |
| `StrangersAreTold` | `StrangerWasTold` |
| `OneKeyIsSetUp` | `OneKeyEver` |

### Only model-checked

Liveness: `OperationsEnd`, and `Returns` of `GenDb`, `SearchPipeline` and `UpdateCompletion`, which need
fairness and are out of the prover's reach. The properties of the four violation runs are
refuted by TLC. In `DistSSE`, `FastSSE` and `SophosIndex` the refinement is conditional where the
property is: not for kills, and not once a keyword was disturbed or old maps were read back,
when the code does not keep the index's promise.

## 5. Not modelled

* zhangscheme: `batch_update(vector)`, which has no caller and never advances its
  index; `verify`, which computes and logs a hash and compares nothing.
* fast: `batch_cache` and `merge`, which write a database no handler reads (its delete
  before its put is a hazard only for a reader to come); the operation byte,
  which a search parses and drops; search helpers without a caller.
* Sophos: `search_parallel_full` and `search`, which have no caller; the constructor from
  JSON, `output_db`, random, replayed and benchmark searches, statistics; the
  inside of `bucket_map` (resizing, a death inside `flush`).
* RocksDB and disk failures after a database was opened, and power failures.
* The secrecy of the schemes (what the server learns), which is a cryptographic
  question.
* Programs, loggers, benchmarks, vendored and generated code (the greater part of
  the repository's lines: protobuf stubs and third-party libraries have no
  protocol state of their own). `zhangscheme_simple`, `zhangscheme_RealWorldDataset`,
  `fast_simple`, `fast_RealWorldDataset` and `sophos_RealWorldDataset` are copies
  with other drivers: the models of the originals speak for them.

## 6. Plan

1. *Done:* all modules of section 2, and theorems for every safety property and refinement of
   the passing runs.
2. Left: a death inside `flush` or a resize of `bucket_map`, `search_request_with_counter` and the
   constructor from JSON of Sophos, should they come to matter; a theorem that `SearchPipeline`
   implements the look-ups of `SophosIndex` step by step, which now are connected by
   `AnswersAsSequential`.
