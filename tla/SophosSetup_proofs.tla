------------------------ MODULE SophosSetup_proofs ------------------------
(***************************************************************************)
(* Theorems about SophosSetup, for any number of clients and any bounds.   *)
(*                                                                         *)
(* The argument about the server rests on its directory: mkdir succeeds    *)
(* once, so one setup handler ever comes past it (OneOwner), and as long   *)
(* as it has not answered, everything the server has is that handler's     *)
(* (Progress).  The argument about the clients rests on meta.bin: it is    *)
(* written when the counter map is destroyed, which a client survives only *)
(* after an OK, and a constructor that throws leaves all other files.      *)
(***************************************************************************)
EXTENDS SophosSetup, TLAPS

----------------------------------------------------------------------------
(* Invariants *)

\* The handler of c has made the directory and not been answered.
Past(c) == handler[c] \in {"core", "open", "write", "ok"}

\* The directory is the first thing made, and the handler that makes it is alone.
OneOwner ==
  /\ (\E c \in Clients : Past(c)) \/ server_ # None \/ pk # None \/ pairs \/ acked # {} => sdir
  /\ \A c, d \in Clients : Past(c) /\ Past(d) => c = d

\* What the server has while that handler is under way.
Progress ==
  \A c \in Clients :
    /\ Past(c) => running /\ acked = {}
    /\ handler[c] = "core" => server_ = None /\ pk = None
    /\ handler[c] \in {"open", "write", "ok"} => server_ = c /\ (pairs \/ closed)
    /\ handler[c] = "open" => pk = None
    /\ handler[c] = "write" => pk = Empty
    /\ handler[c] = "ok" => pk = c \/ (pk = Empty /\ unwritten)

\* And what it has for good.
Settled ==
  /\ server_ # None => running
  /\ pk \in Clients => (pairs \/ closed) /\ (running => server_ = pk)
  /\ \A c \in acked :
       /\ acked = {c}
       /\ pk = c \/ (pk = Empty /\ unwritten)
       /\ pairs \/ closed
       /\ running => server_ = c

ServerInv == OneOwner /\ Progress /\ Settled

\* A client's directory is made before anything else, prg is the last file of
\* init_in_directory, and meta is there only if the constructor came to an end.
ClientInv ==
  \A c \in Clients :
    /\ client[c] # "off" => dir[c]
    /\ client[c] \in {"setup", "up"} => "prg" \in files[c]
    /\ "prg" \in files[c] => Files \ {"meta"} \subseteq files[c]
    /\ "meta" \in files[c] => c \in acked \cup refused

IInv == TypeOK /\ ServerInv /\ ClientInv /\ StrangerWasTold

----------------------------------------------------------------------------
(* Types *)

LEMMA InitTypes == Init => TypeOK
<1>1. SUFFICES ASSUME Init PROVE TypeOK
  OBVIOUS
<1>2. dir \in [Clients -> BOOLEAN]
  BY <1>1, Zenon DEF Init
<1>3. running \in BOOLEAN /\ open \in BOOLEAN /\ sdir \in BOOLEAN /\ pairs \in BOOLEAN /\ closed \in BOOLEAN
      /\ unwritten \in BOOLEAN
  BY <1>1, Zenon DEF Init
<1>4. crashes \in 0..MaxCrashes /\ faults \in 0..MaxFaults
  BY <1>1, BoundsAssumption DEF Init
<1>5. client \in [Clients -> {"off", "init", "setup", "up"}] /\ files \in [Clients -> SUBSET Files]
      /\ blank \in [Clients -> SUBSET {"sk", "derivation", "prg"}]
  BY <1>1 DEF Init
<1>6. handler \in [Clients -> {"none", "check", "exists", "mkdir", "core", "open", "write",
                              "ok", "error", "gone"}]
  BY <1>1 DEF Init
<1>7. QED
  BY <1>1, <1>2, <1>3, <1>4, <1>5, <1>6 DEF Init, TypeOK

LEMMA NextTypes ==
  ASSUME TypeOK, ClientInv, ServerInv, [Next]_vars
  PROVE  TypeOK'
<1> USE DEF TypeOK
<1>1. CASE UNCHANGED vars
  BY <1>1 DEF vars, machine, server, disk, history
<1>2. CASE Crash
  <2>1. running' \in BOOLEAN /\ open' \in BOOLEAN
    BY <1>2, Zenon DEF Crash
  <2>2. handler' \in [Clients -> {"none", "check", "exists", "mkdir", "core", "open", "write",
                                 "ok", "error", "gone"}]
    BY <1>2 DEF Crash
  <2>3. crashes' \in 0..MaxCrashes
    BY <1>2, BoundsAssumption DEF Crash
  <2>4. QED
    BY <1>2, <2>1, <2>2, <2>3 DEF Crash, machine, disk
<1>3. CASE ServerStart
  BY <1>3 DEF ServerStart, Restartable, machine, disk, history
<1>4. ASSUME NEW c \in Clients, Setup(c)
      PROVE  TypeOK'
  <2> USE DEF At, Goto, machine, server, disk, history
  <2>1. CASE CheckServer(c)
    BY <2>1 DEF CheckServer
  <2>2. CASE CheckPath(c)
    BY <2>2 DEF CheckPath
  <2>3. CASE MakeDirectory(c)
    BY <2>3 DEF MakeDirectory
  <2>4. CASE MakeCore(c)
    BY <2>4 DEF MakeCore, ServerInv, OneOwner, Past
  <2>5. CASE MakeCoreClosed(c)
    <3>1. open' \in BOOLEAN /\ closed' \in BOOLEAN /\ pairs' \in BOOLEAN
      BY <2>5, Zenon DEF MakeCoreClosed
    <3>2. faults' \in 0..MaxFaults
      BY <2>5, BoundsAssumption DEF MakeCoreClosed
    <3>3. sdir' = sdir /\ sdir
      BY <2>5 DEF MakeCoreClosed, ServerInv, OneOwner, Past
    <3>4. QED
      BY <2>5, <3>1, <3>2, <3>3 DEF MakeCoreClosed
  <2>6. CASE OpenKeyFile(c)
    BY <2>6 DEF OpenKeyFile, ServerInv, OneOwner, Past
  <2>7. CASE OpenKeyFileFails(c)
    BY <2>7, BoundsAssumption DEF OpenKeyFileFails
  <2>8. CASE WriteKey(c)
    BY <2>8 DEF WriteKey, ServerInv, OneOwner, Past
  <2>9. CASE WriteKeyFails(c)
    BY <2>9, BoundsAssumption DEF WriteKeyFails
  <2>10. QED
    BY <1>4, <2>1, <2>2, <2>3, <2>4, <2>5, <2>6, <2>7, <2>8, <2>9 DEF Setup
<1>5. ASSUME NEW c \in Clients, Run(c)
      PROVE  TypeOK'
  <2> USE DEF machine, server, disk, history
  <2>1. CASE Create(c)
    BY <2>1 DEF Create
  <2>2. ASSUME NEW f \in Files \ {"meta"}, WriteFile(c, f)
        PROVE  TypeOK'
    BY <2>2 DEF WriteFile, ClientInv
  <2>3. CASE SendSetup(c)
    BY <2>3 DEF SendSetup
  <2>4. CASE SetupOk(c)
    BY <2>4 DEF SetupOk
  <2>5. CASE SetupFailed(c)
    BY <2>5 DEF SetupFailed, Throw, ClientInv, Files
  <2>6. CASE SetupLost(c)
    BY <2>6, BoundsAssumption DEF SetupLost, Throw, ClientInv, Files
  <2>7. CASE Restart(c)
    BY <2>7 DEF Restart
  <2>8. CASE Stop(c)
    BY <2>8 DEF Stop, ClientInv, Files
  <2>9. CASE Kill(c)
    BY <2>9 DEF Kill
  <2>10. ASSUME NEW f \in Files \ {"meta"}, WriteFileFails(c, f)
         PROVE  TypeOK'
    BY <2>10, BoundsAssumption DEF WriteFileFails, ClientInv, Files
  <2>11. QED
    BY <1>5, <2>1, <2>2, <2>3, <2>4, <2>5, <2>6, <2>7, <2>8, <2>9, <2>10 DEF Run
<1>6. QED
  BY <1>1, <1>2, <1>3, <1>4, <1>5 DEF Next

----------------------------------------------------------------------------
(* The server *)

LEMMA InitServer == Init => ServerInv
BY KeyAssumption DEF Init, ServerInv, OneOwner, Progress, Settled, Past

LEMMA NextServer ==
  ASSUME TypeOK, TypeOK', ServerInv, [Next]_vars
  PROVE  ServerInv'
<1> USE KeyAssumption DEF ServerInv, OneOwner, Progress, Settled, Past
<1>1. CASE UNCHANGED vars
  BY <1>1 DEF vars, server, disk, history
<1>2. CASE Crash
  BY <1>2 DEF Crash, disk, TypeOK
<1>3. CASE ServerStart
  BY <1>3 DEF ServerStart, Restartable, disk, history, TypeOK
<1>4. ASSUME NEW c \in Clients, Setup(c)
      PROVE  ServerInv'
  <2> USE DEF At, Goto, server, disk, history, TypeOK
  <2>1. CASE CheckServer(c)
    BY <2>1 DEF CheckServer
  <2>2. CASE CheckPath(c)
    BY <2>2 DEF CheckPath
  <2>3. CASE MakeDirectory(c)
    BY <2>3 DEF MakeDirectory
  <2>4. CASE MakeCore(c)
    BY <2>4 DEF MakeCore
  <2>5. CASE MakeCoreClosed(c)
    BY <2>5 DEF MakeCoreClosed
  <2>6. CASE OpenKeyFile(c)
    BY <2>6 DEF OpenKeyFile
  <2>7. CASE OpenKeyFileFails(c)
    BY <2>7 DEF OpenKeyFileFails
  <2>8. CASE WriteKey(c)
    BY <2>8 DEF WriteKey
  <2>9. CASE WriteKeyFails(c)
    BY <2>9 DEF WriteKeyFails
  <2>10. QED
    BY <1>4, <2>1, <2>2, <2>3, <2>4, <2>5, <2>6, <2>7, <2>8, <2>9 DEF Setup
<1>5. ASSUME NEW c \in Clients, Run(c)
      PROVE  ServerInv'
  <2> USE DEF server, disk, history, TypeOK
  <2>1. CASE Create(c) \/ Restart(c) \/ Stop(c) \/ Kill(c) \/ \E f \in Files \ {"meta"} : WriteFile(c, f) \/ WriteFileFails(c, f)
    BY <2>1 DEF Create, Restart, Stop, Kill, WriteFile, WriteFileFails
  <2>2. CASE SendSetup(c)
    BY <2>2 DEF SendSetup
  <2>3. CASE SetupOk(c)
    BY <2>3 DEF SetupOk
  <2>4. CASE SetupFailed(c)
    BY <2>4 DEF SetupFailed
  <2>5. CASE SetupLost(c)
    BY <2>5 DEF SetupLost
  <2>6. QED
    BY <1>5, <2>1, <2>2, <2>3, <2>4, <2>5 DEF Run
<1>6. QED
  BY <1>1, <1>2, <1>3, <1>4, <1>5 DEF Next

----------------------------------------------------------------------------
(* The clients *)

LEMMA InitClients == Init => ClientInv /\ StrangerWasTold
BY DEF Init, ClientInv, StrangerWasTold

LEMMA NextClients ==
  ASSUME TypeOK, TypeOK', ClientInv, StrangerWasTold, [Next]_vars
  PROVE  ClientInv' /\ StrangerWasTold'
<1> USE DEF ClientInv, StrangerWasTold
<1>1. CASE UNCHANGED vars
  BY <1>1 DEF vars, machine, history
<1>2. CASE Crash
  BY <1>2 DEF Crash, machine
<1>3. CASE ServerStart
  BY <1>3 DEF ServerStart, machine, history
<1>4. ASSUME NEW c \in Clients, Setup(c)
      PROVE  ClientInv' /\ StrangerWasTold'
  <2>1. UNCHANGED <<client, dir, files, acked, refused, killed>>
    BY <1>4 DEF Setup, CheckServer, CheckPath, MakeDirectory, MakeCore, MakeCoreClosed,
       OpenKeyFile, OpenKeyFileFails, WriteKey, WriteKeyFails, machine, history
  <2>2. QED
    BY <2>1
<1>5. ASSUME NEW c \in Clients, Run(c)
      PROVE  ClientInv' /\ StrangerWasTold'
  <2> USE DEF history, TypeOK
  <2>1. CASE Create(c)
    BY <2>1 DEF Create
  <2>2. ASSUME NEW f \in Files \ {"meta"}, WriteFile(c, f)
        PROVE  ClientInv' /\ StrangerWasTold'
    BY <2>2 DEF WriteFile, Before, Files
  <2>3. CASE SendSetup(c)
    BY <2>3 DEF SendSetup
  <2>4. CASE SetupOk(c)
    BY <2>4 DEF SetupOk
  <2>5. CASE SetupFailed(c)
    BY <2>5 DEF SetupFailed, Throw, Files
  <2>6. CASE SetupLost(c)
    BY <2>6 DEF SetupLost, Throw, Files
  <2>7. CASE Restart(c)
    BY <2>7 DEF Restart, Files
  <2>8. CASE Stop(c)
    BY <2>8 DEF Stop, Files
  <2>9. CASE Kill(c)
    BY <2>9 DEF Kill
  <2>10. ASSUME NEW f \in Files \ {"meta"}, WriteFileFails(c, f)
         PROVE  ClientInv' /\ StrangerWasTold'
    BY <2>10 DEF WriteFileFails, Before, Files
  <2>11. QED
    BY <1>5, <2>1, <2>2, <2>3, <2>4, <2>5, <2>6, <2>7, <2>8, <2>9, <2>10 DEF Run
<1>6. QED
  BY <1>1, <1>2, <1>3, <1>4, <1>5 DEF Next

----------------------------------------------------------------------------
(* Theorems *)

\* The inductive invariant holds in every reachable state.
THEOREM InvHolds == Spec => []IInv
<1>1. Init => IInv
  BY InitTypes, InitServer, InitClients DEF IInv
<1>2. IInv /\ [Next]_vars => IInv'
  BY NextTypes, NextServer, NextClients DEF IInv
<1>3. QED
  BY <1>1, <1>2, PTL DEF Spec

\* Types, of every variable of both machines and their directories.
THEOREM TypeCorrect == Spec => []TypeOK
BY InvHolds, PTL DEF IInv

\* What setup answered OK is what the server restarts with, after every crash.
THEOREM OkIsKept == Spec => []OkRestarts
<1>1. IInv => OkRestarts
  BY KeyAssumption DEF IInv, OkRestarts, ServerInv, Settled, TypeOK
<1>2. QED
  BY <1>1, InvHolds, PTL

\* Only a client whose constructor threw runs without an OK.
THEOREM StrangersAreTold == Spec => []StrangerWasTold
BY InvHolds, PTL DEF IInv

\* No interleaving of setups, crashes and starts replaces a core or a key, or
\* makes them differ.
THEOREM OneKeyIsSetUp == Spec => OneKeyEver
<1> DEFINE Kept ==
      /\ server_ # None /\ running' => server_' = server_
      /\ pk \in Clients => pk' = pk
      /\ pk' \in Clients /\ server_' # None => pk' = server_'
<1>1. ASSUME IInv, IInv', [Next]_vars
      PROVE  Kept
  <2> USE KeyAssumption DEF IInv, ServerInv, Progress, Settled, Past, TypeOK
  <2>1. pk' \in Clients /\ server_' # None => pk' = server_'
    BY <1>1
  <2>2. CASE UNCHANGED vars
    BY <2>1, <2>2 DEF vars, server, disk
  <2>3. CASE Crash \/ ServerStart
    BY <1>1, <2>1, <2>3 DEF Crash, ServerStart, disk
  <2>4. ASSUME NEW c \in Clients, Run(c)
        PROVE  Kept
    BY <2>1, <2>4 DEF Run, Create, WriteFile, WriteFileFails, SendSetup, SetupOk, SetupFailed, SetupLost, Restart,
       Stop, Kill, server, disk
  <2>5. ASSUME NEW c \in Clients, Setup(c)
        PROVE  Kept
    BY <1>1, <2>1, <2>5 DEF Setup, At, Goto, CheckServer, CheckPath, MakeDirectory, MakeCore,
       MakeCoreClosed, OpenKeyFile, OpenKeyFileFails, WriteKey, WriteKeyFails, server, disk
  <2>6. QED
    BY <1>1, <2>2, <2>3, <2>4, <2>5 DEF Next
<1>2. QED
  BY <1>1, InvHolds, PTL DEF Spec, OneKeyEver
=============================================================================
