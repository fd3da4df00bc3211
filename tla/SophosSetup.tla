----------------------------- MODULE SophosSetup -----------------------------
(***************************************************************************)
(* How a Sophos client and server come to agree on a key: the constructor  *)
(* of SophosClientRunner (a new directory, its keys, a setup message; or   *)
(* the directory of an earlier run), the constructor of SophosImpl and its *)
(* setup handler, which takes no lock.  Clients and the server may die at  *)
(* any step, and replies may be lost.                                      *)
(*                                                                         *)
(* Every client has a directory of its own and generates its key itself,   *)
(* so a key is the client that made it.  Nobody checks whether a key that  *)
(* was written got into its file.  A client's file whose writer died is    *)
(* as good as not there: the directory has no meta.bin either, and no      *)
(* constructor accepts that.                                               *)
(***************************************************************************)
EXTENDS Naturals, FiniteSets

CONSTANTS
  Clients,
  None,        \* no key
  Empty,       \* a key file without its key
  MaxCrashes,  \* bound: deaths of the server
  MaxFaults    \* bound: lost messages, files and databases that cannot be opened, failed writes

ASSUME BoundsAssumption == MaxCrashes \in Nat /\ MaxFaults \in Nat
ASSUME KeyAssumption == None \notin Clients /\ Empty \notin Clients /\ None # Empty

\* What is in a client's directory, in the order it comes there: counters.dat,
\* the three key files, and meta.bin of the counter map, when that is flushed.
Files == {"counters", "sk", "derivation", "prg", "meta"}
\* init_in_directory writes a client's files in this order.
Before == [counters |-> {}, sk |-> {"counters"}, derivation |-> {"counters", "sk"},
           prg |-> {"counters", "sk", "derivation"}]

VARIABLES
  client,    \* per client: "off", "init", "setup" (waits for the reply) or "up"
  dir,       \* per client: it has a directory
  files,     \* per client: the files in it
  blank,     \* per client: the key files that have not got their key
  handler,   \* per client: the setup handler of its message, "none" before and "gone" after
  running,   \* the server runs
  server_,   \* the key of its core, or None
  sdir, pairs,  \* storage_path_ is there, and pairs.dat in it
  pk,        \* tdp_pk.key: None, Empty or a key
  open,      \* the database of the core is open
  acked,     \* history: clients whose setup was answered OK
  refused,   \* history: clients whose constructor threw
  killed,    \* history: clients that died without their destructor
  closed,    \* history: a core was made whose database could not be opened
  unwritten, \* history: the server's key did not get into its file
  crashes, faults

disk    == <<sdir, pairs, pk>>
server  == <<running, server_, open>>
machine == <<client, dir, files, blank>>
history == <<acked, refused, killed, closed, unwritten, crashes>>
vars == <<machine, handler, server, disk, history, faults>>

Init ==
  /\ client = [c \in Clients |-> "off"]
  /\ dir = [c \in Clients |-> FALSE]
  /\ files = [c \in Clients |-> {}]
  /\ blank = [c \in Clients |-> {}]
  /\ handler = [c \in Clients |-> "none"]
  /\ running = TRUE /\ server_ = None /\ open = FALSE
  /\ sdir = FALSE /\ pairs = FALSE /\ pk = None
  /\ acked = {} /\ refused = {} /\ killed = {} /\ closed = FALSE /\ unwritten = FALSE
  /\ crashes = 0 /\ faults = 0

----------------------------------------------------------------------------
(* SophosClientRunner *)

\* There is nothing at the path: a directory is made.
Create(c) ==
  /\ client[c] = "off" /\ ~dir[c]
  /\ dir' = [dir EXCEPT ![c] = TRUE]
  /\ client' = [client EXCEPT ![c] = "init"]
  /\ UNCHANGED <<files, blank, handler, server, disk, history, faults>>

\* init_in_directory: the counter map, then the keys one after the other.
WriteFile(c, f) ==
  /\ client[c] = "init"
  /\ files[c] = Before[f]
  /\ files' = [files EXCEPT ![c] = @ \cup {f}]
  /\ UNCHANGED <<client, dir, blank, handler, server, disk, history, faults>>

\* The stream is not looked at after the write of a key, nor after close.
WriteFileFails(c, f) ==
  /\ client[c] = "init"
  /\ f # "counters"
  /\ files[c] = Before[f]
  /\ faults < MaxFaults
  /\ faults' = faults + 1
  /\ files' = [files EXCEPT ![c] = @ \cup {f}]
  /\ blank' = [blank EXCEPT ![c] = @ \cup {f}]
  /\ UNCHANGED <<client, dir, handler, server, disk, history>>

\* send_setup.  Nobody handles the message if no server runs.
SendSetup(c) ==
  /\ client[c] = "init"
  /\ "prg" \in files[c]
  /\ client' = [client EXCEPT ![c] = "setup"]
  /\ handler' = [handler EXCEPT ![c] = IF running THEN "check" ELSE "gone"]
  /\ UNCHANGED <<dir, files, blank, server, disk, history, faults>>

SetupOk(c) ==
  /\ client[c] = "setup"
  /\ handler[c] = "ok"
  /\ client' = [client EXCEPT ![c] = "up"]
  /\ handler' = [handler EXCEPT ![c] = "gone"]
  /\ acked' = acked \cup {c}
  /\ UNCHANGED <<dir, files, blank, server, disk, refused, killed, closed, unwritten, crashes, faults>>

\* The constructor throws; the counter map is destroyed, and so flushed, and the
\* directory stays.
Throw(c) ==
  /\ client' = [client EXCEPT ![c] = "off"]
  /\ files' = [files EXCEPT ![c] = @ \cup {"meta"}]
  /\ refused' = refused \cup {c}

\* Mutant of SetupFailed: the result of send_setup is ignored.
SetupIgnored(c) ==
  /\ client[c] = "setup"
  /\ handler[c] \in {"error", "gone"}
  /\ client' = [client EXCEPT ![c] = "up"]
  /\ handler' = [handler EXCEPT ![c] = "gone"]
  /\ UNCHANGED <<dir, files, blank, server, disk, history, faults>>

\* An error came back, or the server is gone.
SetupFailed(c) ==
  /\ client[c] = "setup"
  /\ handler[c] \in {"error", "gone"}
  /\ Throw(c)
  /\ handler' = [handler EXCEPT ![c] = "gone"]
  /\ UNCHANGED <<dir, blank, server, disk, acked, killed, closed, unwritten, crashes, faults>>

\* The call breaks: before the message arrived, or after, its handler going on.
SetupLost(c) ==
  /\ client[c] = "setup"
  /\ faults < MaxFaults
  /\ faults' = faults + 1
  /\ Throw(c)
  /\ \/ handler[c] = "check" /\ handler' = [handler EXCEPT ![c] = "gone"]
     \/ UNCHANGED handler
  /\ UNCHANGED <<dir, blank, server, disk, acked, killed, closed, unwritten, crashes>>

\* construct_from_directory finds all it needs (otherwise it throws, and nothing
\* changes).  An empty secret key cannot be parsed; the other two keys are keys of
\* a PRF, which fills up what is missing with zeros.  The server is not asked.
Restart(c) ==
  /\ client[c] = "off" /\ dir[c]
  /\ files[c] = Files
  /\ "sk" \notin blank[c]
  /\ client' = [client EXCEPT ![c] = "up"]
  /\ UNCHANGED <<dir, files, blank, handler, server, disk, history, faults>>

\* The program ends; the counter map is flushed.
Stop(c) ==
  /\ client[c] = "up"
  /\ client' = [client EXCEPT ![c] = "off"]
  /\ files' = [files EXCEPT ![c] = @ \cup {"meta"}]
  /\ UNCHANGED <<dir, blank, handler, server, disk, history, faults>>

\* It dies; what handles its setup goes on.
Kill(c) ==
  /\ client[c] # "off"
  /\ client' = [client EXCEPT ![c] = "off"]
  /\ killed' = killed \cup {c}
  /\ UNCHANGED <<dir, files, blank, handler, server, disk, acked, refused, closed, unwritten, crashes, faults>>

----------------------------------------------------------------------------
(* SophosImpl::setup *)

At(c, step) == running /\ handler[c] = step
Goto(c, step) == handler' = [handler EXCEPT ![c] = step]

\* The server is set up already.
CheckServer(c) ==
  /\ At(c, "check")
  /\ Goto(c, IF server_ # None THEN "error" ELSE "exists")
  /\ UNCHANGED <<machine, server, disk, history, faults>>

\* Mutant of CheckPath: the directory is not made.
CheckPathOnly(c) ==
  /\ At(c, "exists")
  /\ Goto(c, IF sdir THEN "error" ELSE "core")
  /\ UNCHANGED <<machine, server, disk, history, faults>>

\* Something is at storage_path_ already.
CheckPath(c) ==
  /\ At(c, "exists")
  /\ Goto(c, IF sdir THEN "error" ELSE "mkdir")
  /\ UNCHANGED <<machine, server, disk, history, faults>>

\* Mutant of MakeDirectory: a directory that is there will do.
MakeDirectoryAnyway(c) ==
  /\ At(c, "mkdir")
  /\ Goto(c, "core")
  /\ sdir' = TRUE
  /\ UNCHANGED <<machine, server, pairs, pk, history, faults>>

\* mkdir, which fails if another handler was faster.
MakeDirectory(c) ==
  /\ At(c, "mkdir")
  /\ Goto(c, IF sdir THEN "error" ELSE "core")
  /\ sdir' = TRUE
  /\ UNCHANGED <<machine, server, pairs, pk, history, faults>>

\* server_.reset: the database is made.
MakeCore(c) ==
  /\ At(c, "core")
  /\ Goto(c, "open")
  /\ server_' = c
  /\ pairs' = TRUE /\ open' = TRUE
  /\ UNCHANGED <<machine, running, sdir, pk, history, faults>>

\* It cannot be opened.  RockDBWrapper logs that and goes on with a null pointer;
\* nothing is thrown, and setup goes on as well.
MakeCoreClosed(c) ==
  /\ At(c, "core")
  /\ faults < MaxFaults
  /\ faults' = faults + 1
  /\ Goto(c, "open")
  /\ server_' = c
  /\ pairs' \in BOOLEAN /\ open' = FALSE
  /\ closed' = TRUE
  /\ UNCHANGED <<machine, running, sdir, pk, acked, refused, killed, unwritten, crashes>>

OpenKeyFile(c) ==
  /\ At(c, "open")
  /\ Goto(c, "write")
  /\ pk' = Empty
  /\ UNCHANGED <<machine, server, sdir, pairs, history, faults>>

\* The key file cannot be made: an error, with server_ as it is.
OpenKeyFileFails(c) ==
  /\ At(c, "open")
  /\ faults < MaxFaults
  /\ faults' = faults + 1
  /\ Goto(c, "error")
  /\ UNCHANGED <<machine, server, disk, history>>

\* Mutant of WriteKey: the stream is not closed before the answer.
WriteKeyLate(c) ==
  /\ At(c, "write")
  /\ Goto(c, "ok")
  /\ UNCHANGED <<machine, server, disk, history, faults>>

WriteKey(c) ==
  /\ At(c, "write")
  /\ Goto(c, "ok")
  /\ pk' = c
  /\ UNCHANGED <<machine, server, sdir, pairs, history, faults>>

\* The disk is full, say: neither the write nor close is checked, and the answer is OK.
WriteKeyFails(c) ==
  /\ At(c, "write")
  /\ faults < MaxFaults
  /\ faults' = faults + 1
  /\ Goto(c, "ok")
  /\ unwritten' = TRUE
  /\ UNCHANGED <<machine, server, disk, acked, refused, killed, closed, crashes>>

----------------------------------------------------------------------------
(* The server's end and start *)

Crash ==
  /\ running
  /\ crashes < MaxCrashes
  /\ crashes' = crashes + 1
  /\ running' = FALSE /\ server_' = None /\ open' = FALSE
  /\ handler' = [c \in Clients |-> IF handler[c] = "none" THEN "none" ELSE "gone"]
  /\ UNCHANGED <<machine, disk, acked, refused, killed, closed, unwritten, faults>>

\* SophosImpl's constructor accepts the directory: a key and a database are there.
Restartable == pk \in Clients /\ pairs

\* The server starts with what it has, or with nothing.  In any other state of
\* its directory it throws, and nothing changes.
ServerStart ==
  /\ ~running
  /\ IF sdir
     THEN Restartable /\ server_' = pk /\ open' = TRUE
     ELSE UNCHANGED <<server_, open>>
  /\ running' = TRUE
  /\ UNCHANGED <<machine, handler, disk, history, faults>>

----------------------------------------------------------------------------
Setup(c) ==
  \/ CheckServer(c) \/ CheckPath(c) \/ MakeDirectory(c)
  \/ MakeCore(c) \/ MakeCoreClosed(c)
  \/ OpenKeyFile(c) \/ OpenKeyFileFails(c) \/ WriteKey(c) \/ WriteKeyFails(c)

Run(c) ==
  \/ Create(c) \/ SendSetup(c) \/ SetupOk(c) \/ SetupFailed(c) \/ SetupLost(c)
  \/ Restart(c) \/ Stop(c) \/ Kill(c)
  \/ \E f \in Files \ {"meta"} : WriteFile(c, f) \/ WriteFileFails(c, f)

Next == Crash \/ ServerStart \/ \E c \in Clients : Setup(c) \/ Run(c)

Spec == Init /\ [][Next]_vars

----------------------------------------------------------------------------
(* Properties *)

\* The range of every variable; a directory holds nothing before it is there.
TypeOK ==
  /\ client \in [Clients -> {"off", "init", "setup", "up"}]
  /\ dir \in [Clients -> BOOLEAN]
  /\ files \in [Clients -> SUBSET Files]
  /\ blank \in [Clients -> SUBSET {"sk", "derivation", "prg"}]
  /\ handler \in [Clients -> {"none", "check", "exists", "mkdir", "core", "open", "write",
                              "ok", "error", "gone"}]
  /\ running \in BOOLEAN /\ open \in BOOLEAN
  /\ server_ \in Clients \cup {None}
  /\ sdir \in BOOLEAN /\ pairs \in BOOLEAN
  /\ pk \in Clients \cup {None, Empty}
  /\ acked \in SUBSET Clients /\ refused \in SUBSET Clients /\ killed \in SUBSET Clients
  /\ closed \in BOOLEAN /\ unwritten \in BOOLEAN
  /\ crashes \in 0..MaxCrashes /\ faults \in 0..MaxFaults
  /\ \A c \in Clients : files[c] # {} => dir[c]
  /\ pairs \/ pk # None => sdir

\* However setup messages race, one key is ever set up: the core of a running
\* server is never replaced, and neither is the key on disk, nor do they differ.
OneKeyEver ==
  [][/\ server_ # None /\ running' => server_' = server_
     /\ pk \in Clients => pk' = pk
     /\ pk' \in Clients /\ server_' # None => pk' = server_']_vars

\* Once a client has its OK, the server comes back with that client's key after
\* every crash, as long as its database could be opened and its key got into the
\* file; where it did not, the server never comes back with another key.
OkRestarts ==
  \A c \in acked :
    /\ acked = {c}
    /\ pk = c \/ (pk = Empty /\ unwritten)
    /\ pairs \/ closed
    /\ running => server_ = c

\* A client that was never killed finds its files again.  One that runs has had its OK,
\* or its constructor threw when it first ran: the directory that leaves behind
\* passes for that of a client the server knows, but no other directory does.
StrangerWasTold ==
  \A c \in Clients :
    /\ dir[c] /\ client[c] = "off" /\ c \notin killed => files[c] = Files
    /\ client[c] = "up" => c \in acked \cup refused
=============================================================================
