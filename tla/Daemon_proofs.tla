---------------------------- MODULE Daemon_proofs ----------------------------
(***************************************************************************)
(* Proofs about the daemon: it uses the server as AirplayServer assumes,   *)
(* so that every theorem about the server holds of it as main runs it; its *)
(* components go up and down in order; no exit leaves anything behind; and *)
(* a shutdown has only so many steps.                                      *)
(***************************************************************************)
EXTENDS Daemon, AirplayServer_proofs

(* The order lists every component once.                                   *)
LEMMA OrderFacts ==
  /\ Len(Order) = 4
  /\ Order[1] = "audio" /\ Order[2] = "volume"
  /\ Order[3] = "playback" /\ Order[4] = "multiroom"
  /\ \A i \in 1 .. 4 : Order[i] \in Components
<1>1. /\ Len(Order) = 4
      /\ Order[1] = "audio" /\ Order[2] = "volume"
      /\ Order[3] = "playback" /\ Order[4] = "multiroom"
  BY DEF Order
<1>2. \A i \in 1 .. 4 : i = 1 \/ i = 2 \/ i = 3 \/ i = 4
  OBVIOUS
<1>. QED  BY <1>1, <1>2 DEF Components

LEMMA DaemonStarts == DaemonInit => DaemonInv
<1>. SUFFICES ASSUME DaemonInit PROVE DaemonInv
  OBVIOUS
<1>1. ServerInv
  BY ServerInit DEF DaemonInit
<1>2. DaemonTypeOK
  <2>1. level \in 0 .. Len(Order) /\ up \subseteq Components
    BY OrderFacts DEF DaemonInit
  <2>2. created \in BOOLEAN /\ quit \in BOOLEAN /\ failed \in BOOLEAN
    BY DEF DaemonInit
  <2>. QED  BY <2>1, <2>2 DEF DaemonInit, DaemonTypeOK
<1>3. OthersStay
  BY FdsAssumption DEF DaemonInit, Init, OthersStay
<1>4. StageAgrees
  BY DEF DaemonInit, StageAgrees
<1>5. ServerRests
  BY DEF DaemonInit, Init, ServerRests, Connected
<1>. QED  BY <1>1, <1>2, <1>3, <1>4, <1>5 DEF DaemonInv

(* No step of the server touches a descriptor of the others: it is given   *)
(* free ones and closes its own.                                           *)
LEMMA OthersStayStep ==
  ASSUME ServerInv, OthersStay, [Next]_vars
  PROVE  OthersStay'
<1>. USE FdsAssumption, Marks
<1>a. TypeOK /\ SlotsAreLive /\ Control
  BY DEF ServerInv
<1>b. \A i \in Connected : fdt[slot_fd[i]] \in Peers
  BY <1>a DEF SlotsAreLive
<1>1. CASE Start
  BY <1>1, <1>a DEF Start, StartFails, StartSucceeds, Lowest, FreeFds, OthersStay, TypeOK, pass
<1>2. CASE Started /\ Stop
  <2>1. \A fd \in OtherFds : fd \notin ClosedByStop
    BY <1>2, <1>b DEF Stop, ClosedByStop, Started, OthersStay
  <2>. QED  BY <1>2, <2>1 DEF Stop, OthersStay, pass
<1>3. CASE Select
  BY <1>3 DEF Select, OthersStay, kernel
<1>4. CASE Accept
  BY <1>4, <1>a DEF Accept, TakeSlot, Reject, Lowest, FreeFds, OthersStay, TypeOK, kernel
<1>5. CASE Receive
  BY <1>5, <1>a, <1>b DEF Receive, Read, Disconnect, Lowest, Due, Connected, OthersStay, TypeOK
<1>6. CASE Send
  BY <1>6 DEF Send, Replied, SendBlocks, SendFails, SigPipe, OthersStay, kernel
<1>7. CASE Return
  BY <1>7 DEF Return, OthersStay, kernel
<1>8. CASE Interrupted
  BY <1>8 DEF Interrupted, OthersStay, kernel
<1>9. ASSUME NEW p \in Peers, Peer(p) PROVE OthersStay'
  BY <1>9 DEF Peer, Connect, PeerSend, PeerRead, PeerClose, PeerReset, OthersStay, pass
<1>10. CASE UNCHANGED vars
  BY <1>10 DEF vars, pass, kernel, OthersStay
<1>. QED  BY <1>1, <1>2, <1>3, <1>4, <1>5, <1>6, <1>7, <1>8, <1>9, <1>10 DEF Next, Process

(* Every step of the daemon is a step of the server or leaves it alone; it *)
(* is stopped only after a start.                                          *)
LEMMA StepIsServers ==
  ASSUME DaemonInv, [DaemonNext]_daemonVars
  PROVE  [Next]_vars
<1>1. CASE StopServer \/ Destroy
  <2>1. Started
    BY <1>1 DEF StopServer, Destroy, DaemonInv, StageAgrees
  <2>. QED  BY <1>1, <2>1 DEF StopServer, Destroy, Next
<1>2. CASE SetUp \/ InitComponent \/ Create \/ Cleanup \/ Exit \/ DiesEarly
  BY <1>2 DEF SetUp, InitComponent, Create, Cleanup, Exit, DiesEarly
<1>3. CASE StartServer
  BY <1>3 DEF StartServer, Next
<1>4. CASE Loop
  BY <1>4 DEF Loop, Next
<1>5. ASSUME NEW sig, Deliver(sig) PROVE [Next]_vars
  BY <1>5 DEF Deliver, Next
<1>6. CASE \E p \in Peers : Peer(p)
  BY <1>6 DEF Next
<1>7. CASE UNCHANGED daemonVars
  BY <1>7 DEF daemonVars
<1>. QED  BY <1>1, <1>2, <1>3, <1>4, <1>5, <1>6, <1>7 DEF DaemonNext, Main

LEMMA DaemonTypeStep ==
  ASSUME DaemonTypeOK, [DaemonNext]_daemonVars
  PROVE  DaemonTypeOK'
<1>. USE OrderFacts DEF DaemonTypeOK
<1>1. CASE InitComponent
  <2>1. level' \in 0 .. Len(Order) /\ up' \subseteq Components
    <3>1. level + 1 \in 1 .. 4 \/ UNCHANGED <<level, up>>
      BY <1>1 DEF InitComponent
    <3>. QED  BY <1>1, <3>1 DEF InitComponent
  <2>2. failed' \in BOOLEAN /\ created' \in BOOLEAN /\ quit' \in BOOLEAN
    BY <1>1 DEF InitComponent
  <2>. QED  BY <1>1, <2>1, <2>2 DEF InitComponent
<1>2. CASE SetUp \/ Create \/ Exit \/ DiesEarly
  BY <1>2 DEF SetUp, Create, Exit, DiesEarly
<1>3. CASE StartServer \/ StopServer \/ Destroy
  BY <1>3 DEF StartServer, StopServer, Destroy
<1>4. CASE Loop
  BY <1>4 DEF Loop, main
<1>5. CASE Cleanup
  BY <1>5 DEF Cleanup
<1>6. ASSUME NEW sig, Deliver(sig) PROVE DaemonTypeOK'
  BY <1>6 DEF Deliver
<1>7. CASE UNCHANGED main
  BY <1>7 DEF main
<1>. QED  BY <1>1, <1>2, <1>3, <1>4, <1>5, <1>6, <1>7 DEF DaemonNext, Main, daemonVars

(* The server of a step that neither starts nor stops it.                  *)
LEMMA ServerKept ==
  ASSUME Process \/ Interrupted \/ \E p \in Peers : Peer(p)
  PROVE  UNCHANGED <<socket_fd, avahi_client, entry_group>>
<1>1. CASE Process
  BY <1>1 DEF Process, Select, Accept, Receive, Send, Return, Replied, SendBlocks, SendFails,
              SigPipe, server
<1>2. CASE Interrupted
  BY <1>2 DEF Interrupted, server
<1>3. CASE \E p \in Peers : Peer(p)
  BY <1>3 DEF Peer, Connect, PeerSend, PeerRead, PeerClose, PeerReset, server
<1>. QED  BY <1>1, <1>2, <1>3

(* What start does to the descriptor it keeps: it is none of the others'.  *)
LEMMA StartTakesFree ==
  ASSUME ServerInv, OthersStay, Start
  PROVE  /\ Started'
         /\ UNCHANGED <<call, connected>>
         /\ ~running' => UNCHANGED <<avahi_client, entry_group>>
<1>1. call = "idle" /\ UNCHANGED <<call, connected>>
  BY DEF Start, slots, pass
<1>2. CASE socket_fd' = -1 /\ UNCHANGED <<running, avahi_client, entry_group, fdt>>
  BY <1>1, <1>2, FdsAssumption DEF Started
<1>3. ASSUME NEW fd \in Fds, Lowest(fd, FreeFds), StartFails(fd) \/ StartSucceeds(fd)
      PROVE  /\ Started'
             /\ ~running' => UNCHANGED <<avahi_client, entry_group>>
  <2>1. fdt[fd] = "free" /\ socket_fd' = fd
    BY <1>3 DEF Lowest, FreeFds, StartFails, StartSucceeds
  <2>2. fd \notin OtherFds
    BY <1>1, <2>1 DEF OthersStay
  <2>. QED  BY <1>3, <2>1, <2>2 DEF Started, StartFails, StartSucceeds
<1>. QED  BY <1>1, <1>2, <1>3 DEF Start

(* What stop leaves: nothing.                                              *)
LEMMA StopLeavesNothing ==
  ASSUME Stop
  PROVE  /\ Started' /\ UNCHANGED call /\ call = "idle"
         /\ ~running' /\ ~avahi_client' /\ ~entry_group' /\ Connected' = {}
BY FdsAssumption DEF Stop, Started, Connected, pass

(* The components that are up as one comes or goes.                        *)
LEMMA UpAfter ==
  ASSUME level \in 0 .. 4, up = {Order[i] : i \in 1 .. level}
  PROVE  /\ level < 4 => up \cup {Order[level + 1]} = {Order[i] : i \in 1 .. level + 1}
         /\ level > 0 => up \ {Order[level]} = {Order[i] : i \in 1 .. level - 1}
<1>1. level < 4 => up \cup {Order[level + 1]} = {Order[i] : i \in 1 .. level + 1}
  <2>1. \A i \in 1 .. level + 1 : i \in 1 .. level \/ i = level + 1
    OBVIOUS
  <2>2. level + 1 \in 1 .. level + 1 /\ 1 .. level \subseteq 1 .. level + 1
    OBVIOUS
  <2>. QED  BY <2>1, <2>2
<1>2. level > 0 => up \ {Order[level]} = {Order[i] : i \in 1 .. level - 1}
  <2>. SUFFICES ASSUME level > 0 PROVE up \ {Order[level]} = {Order[i] : i \in 1 .. level - 1}
    OBVIOUS
  <2>1. \A i \in 1 .. level : i \in 1 .. level - 1 \/ i = level
    OBVIOUS
  <2>2. \A i \in 1 .. level - 1 : i \in 1 .. level /\ Order[i] # Order[level]
    <3>1. \A i, j \in 1 .. 4 : i < j => Order[i] # Order[j]
      <4>1. \A i \in 1 .. 4 : i = 1 \/ i = 2 \/ i = 3 \/ i = 4
        OBVIOUS
      <4>. QED  BY <4>1, OrderFacts
    <3>. QED  BY <3>1
  <2>. QED  BY <2>1, <2>2
<1>. QED  BY <1>1, <1>2

LEMMA StageStep ==
  ASSUME DaemonInv, [DaemonNext]_daemonVars
  PROVE  StageAgrees' /\ ServerRests'
<1>a. ServerInv /\ DaemonTypeOK /\ OthersStay /\ StageAgrees /\ ServerRests
  BY DEF DaemonInv
<1>b. level \in 0 .. 4 /\ up = {Order[i] : i \in 1 .. level}
  BY <1>a, OrderFacts DEF DaemonTypeOK, StageAgrees
<1>1. CASE SetUp
  BY <1>1, <1>a DEF SetUp, StageAgrees, ServerRests, vars, server, slots, pass, Started, Connected
<1>2. CASE InitComponent
  <2>1. up' = {Order[i] : i \in 1 .. level'}
    BY <1>2, <1>b, UpAfter, OrderFacts DEF InitComponent
  <2>. QED  BY <1>2, <1>a, <2>1
            DEF InitComponent, StageAgrees, ServerRests, vars, server, slots, pass, Started, Connected
<1>3. CASE Create
  BY <1>3, <1>a DEF Create, StageAgrees, ServerRests, vars, server, slots, pass, Started, Connected
<1>4. CASE StartServer
  <2>1. Start /\ stage = "start"
    BY <1>4 DEF StartServer
  <2>2. /\ Started' /\ UNCHANGED <<call, connected>>
        /\ ~running' => UNCHANGED <<avahi_client, entry_group>>
    BY <1>a, <2>1, StartTakesFree
  <2>. QED  BY <1>4, <1>a, <2>1, <2>2 DEF StartServer, StageAgrees, ServerRests, Connected
<1>5. CASE Loop
  <2>1. CASE UNCHANGED vars
    BY <1>5, <2>1, <1>a
       DEF Loop, main, StageAgrees, ServerRests, vars, server, slots, pass, Started, Connected
  <2>2. CASE Process /\ UNCHANGED main
    BY <1>5, <2>2, <1>a, ServerKept DEF Loop, main, StageAgrees, ServerRests, Started
  <2>. QED  BY <1>5, <2>1, <2>2 DEF Loop
<1>6. CASE StopServer \/ Destroy
  <2>1. /\ Started' /\ UNCHANGED call /\ call = "idle"
        /\ ~running' /\ ~avahi_client' /\ ~entry_group' /\ Connected' = {}
    BY <1>6, StopLeavesNothing DEF StopServer, Destroy
  <2>. QED  BY <1>6, <1>a, <2>1 DEF StopServer, Destroy, StageAgrees, ServerRests
<1>7. CASE Cleanup
  <2>1. up' = {Order[i] : i \in 1 .. level'}
    BY <1>7, <1>b, UpAfter DEF Cleanup
  <2>. QED  BY <1>7, <1>a, <2>1
            DEF Cleanup, StageAgrees, ServerRests, vars, server, slots, pass, Started, Connected
<1>8. CASE Exit \/ DiesEarly
  BY <1>8, <1>a DEF Exit, DiesEarly, StageAgrees, ServerRests, vars, server, slots, pass,
                    Started, Connected
<1>9. ASSUME NEW sig, Deliver(sig) PROVE StageAgrees' /\ ServerRests'
  <2>1. CASE UNCHANGED vars
    BY <1>9, <2>1, <1>a
       DEF Deliver, StageAgrees, ServerRests, vars, server, slots, pass, Started, Connected
  <2>2. CASE call = "blocked" /\ Interrupted
    BY <1>9, <2>2, <1>a, ServerKept DEF Deliver, StageAgrees, ServerRests, Started
  <2>. QED  BY <1>9, <2>1, <2>2 DEF Deliver
<1>10. CASE (\E p \in Peers : Peer(p)) /\ UNCHANGED main
  <2>1. UNCHANGED <<server, slots, pass>>
    BY <1>10 DEF Peer, Connect, PeerSend, PeerRead, PeerClose, PeerReset
  <2>. QED  BY <1>10, <2>1, <1>a
            DEF main, StageAgrees, ServerRests, server, slots, pass, Started, Connected
<1>11. CASE UNCHANGED daemonVars
  BY <1>11, <1>a DEF daemonVars, main, StageAgrees, ServerRests, vars, server, slots, pass,
                     Started, Connected
<1>. QED  BY <1>1, <1>2, <1>3, <1>4, <1>5, <1>6, <1>7, <1>8, <1>9, <1>10, <1>11
          DEF DaemonNext, Main

----------------------------------------------------------------------------
(* What main knows at each stage holds in every state it can reach.        *)
THEOREM DaemonInvariant == DaemonSafety => []DaemonInv
<1>1. DaemonInit => DaemonInv
  BY DaemonStarts
<1>2. DaemonInv /\ [DaemonNext]_daemonVars => DaemonInv'
  <2>. SUFFICES ASSUME DaemonInv, [DaemonNext]_daemonVars PROVE DaemonInv'
    OBVIOUS
  <2>1. [Next]_vars
    BY StepIsServers
  <2>2. ServerInv'
    BY <2>1, ServerInvStep DEF DaemonInv
  <2>3. OthersStay'
    BY <2>1, OthersStayStep DEF DaemonInv
  <2>. QED  BY <2>2, <2>3, DaemonTypeStep, StageStep DEF DaemonInv
<1>. QED  BY <1>1, <1>2, PTL DEF DaemonSafety

(* The variables of main keep their types.                                 *)
THEOREM DaemonTypes == DaemonSafety => []DaemonTypeOK
<1>1. DaemonInv => DaemonTypeOK
  BY DEF DaemonInv
<1>. QED  BY <1>1, DaemonInvariant, PTL

(* The daemon runs the server as AirplayServer specifies it: the theorems  *)
(* of AirplayServer_proofs hold of the server inside the daemon.           *)
THEOREM DaemonRunsServer == DaemonSafety => ServerUsedWell
<1>1. DaemonInv /\ [DaemonNext]_daemonVars => [Next]_vars
  BY StepIsServers
<1>2. DaemonInit => Init
  BY DEF DaemonInit
<1>. QED  BY <1>1, <1>2, DaemonInvariant, PTL DEF DaemonSafety, ServerUsedWell, Safety

(* So its clients are served by the daemon as by the server alone: through *)
(* start, loop, signals and shutdown it is the service of ClientService.   *)
THEOREM DaemonServes ==
  DaemonSafety =>
    /\ [](SlotsAreLive /\ NothingLeaks /\ NoUnsolicitedReply)
    /\ DropsOnlyTheGone /\ RejectsOnlyWhenFull /\ ImplementsService
<1>1. Safety => [](SlotsAreLive /\ NothingLeaks /\ NoUnsolicitedReply)
  BY SlotsStayLive, NothingEverLeaks, RepliesAreAsked, PTL
<1>. QED  BY <1>1, DaemonRunsServer, OnlyTheGoneAreDropped, OnlyAFullTableRejects,
             ServerImplementsService DEF ServerUsedWell

(* Components come and go in order, with the server above all of them.     *)
THEOREM UpStaysPrefix == DaemonSafety => []UpIsPrefix
<1>1. DaemonInv => UpIsPrefix
  <2>. SUFFICES ASSUME DaemonInv PROVE UpIsPrefix
    OBVIOUS
  <2>1. level \in 0 .. Len(Order) /\ up = {Order[i] : i \in 1 .. level}
    BY DEF DaemonInv, DaemonTypeOK, StageAgrees
  <2>2. running => created
    BY DEF DaemonInv, ServerRests, StageAgrees
  <2>3. created => up = Components
    <3>. SUFFICES ASSUME created PROVE up = Components
      OBVIOUS
    <3>1. level = 4
      BY OrderFacts DEF DaemonInv, StageAgrees
    <3>2. \A i \in 1 .. 4 : i = 1 \/ i = 2 \/ i = 3 \/ i = 4
      OBVIOUS
    <3>. QED  BY <2>1, <3>1, <3>2, OrderFacts DEF Components
  <2>. QED  BY <2>1, <2>2, <2>3 DEF UpIsPrefix
<1>. QED  BY <1>1, DaemonInvariant, PTL

(* However the daemon comes to its exit, it has taken down what it brought *)
(* up, the server's sockets and its registration included.                 *)
THEOREM ExitsAreClean == DaemonSafety => []CleanExit
<1>1. DaemonInv => CleanExit
  <2>. SUFFICES ASSUME DaemonInv, stage = "exited"
       PROVE  /\ up = {} /\ ~created
              /\ ~running /\ ~entry_group /\ ~avahi_client
              /\ \A fd \in Fds : fdt[fd] \in {"free", "other"}
              /\ failed \/ quit
    BY DEF CleanExit
  <2>1. up = {} /\ ~created /\ (failed \/ quit)
    BY DEF DaemonInv, StageAgrees
  <2>2. ~running /\ ~entry_group /\ ~avahi_client /\ Connected = {}
    BY DEF DaemonInv, ServerRests
  <2>3. \A fd \in Fds : fdt[fd] \in {"free", "other"}
    BY <2>2 DEF DaemonInv, ServerInv, TypeOK, NothingLeaks
  <2>. QED  BY <2>1, <2>2, <2>3
<1>. QED  BY <1>1, DaemonInvariant, PTL

----------------------------------------------------------------------------
(* Shutdown: every step of main leaves fewer.                             *)
LEMMA MainLeftType == DaemonInv => MainLeft \in Int
<1>. SUFFICES ASSUME DaemonInv PROVE MainLeft \in Int
  OBVIOUS
<1>1. level \in 0 .. 4 /\ Len(Order) = 4
  BY OrderFacts DEF DaemonInv, DaemonTypeOK
<1>2. PassLeft \in Int
  BY PassLeftType DEF DaemonInv
<1>. QED  BY <1>1, <1>2 DEF MainLeft

LEMMA MainShortens ==
  ASSUME DaemonInv, quit, Main
  PROVE  MainLeft' < MainLeft
<1>. USE OrderFacts
<1>a. level \in 0 .. 4
  BY DEF DaemonInv, DaemonTypeOK
<1>1. CASE SetUp
  BY <1>1, <1>a DEF SetUp, MainLeft, DaemonInv, StageAgrees
<1>2. CASE InitComponent
  BY <1>2, <1>a DEF InitComponent, MainLeft
<1>3. CASE Create
  BY <1>3, <1>a DEF Create, MainLeft
<1>4. CASE StartServer
  <2>1. call' = "idle"
    BY <1>4 DEF StartServer, Start, pass
  <2>2. PassLeft' = 0
    BY <2>1 DEF PassLeft
  <2>3. stage' \in {"loop", "destroy"}
    BY <1>4 DEF StartServer
  <2>. QED  BY <1>4, <2>2, <2>3 DEF StartServer, MainLeft
<1>5. CASE Loop
  <2>1. CASE call = "idle"
    <3>1. PassLeft = 0
      BY <2>1 DEF PassLeft
    <3>. QED  BY <1>5, <2>1, <3>1 DEF Loop, MainLeft
  <2>2. CASE call # "idle"
    <3>1. Process /\ stage = "loop" /\ stage' = "loop"
      BY <1>5, <2>2 DEF Loop, main
    <3>2. PassLeft \in Nat /\ PassLeft' \in Nat /\ PassLeft' < PassLeft
      BY <2>2, <3>1, PassShortens DEF DaemonInv
    <3>. QED  BY <3>1, <3>2 DEF MainLeft
  <2>. QED  BY <2>1, <2>2
<1>6. CASE StopServer
  BY <1>6 DEF StopServer, MainLeft
<1>7. CASE Destroy
  <2>1. level' = 4
    BY <1>7 DEF Destroy, DaemonInv, StageAgrees
  <2>. QED  BY <1>7, <2>1 DEF Destroy, MainLeft
<1>8. CASE Cleanup
  BY <1>8, <1>a DEF Cleanup, MainLeft
<1>9. CASE Exit
  BY <1>9 DEF Exit, MainLeft
<1>. QED  BY <1>1, <1>2, <1>3, <1>4, <1>5, <1>6, <1>7, <1>8, <1>9 DEF Main

LEMMA OthersNeverLengthen ==
  ASSUME DaemonInv, [DaemonNext]_daemonVars, ~Main
  PROVE  MainLeft' <= MainLeft
<1>a. level \in 0 .. 4 /\ Len(Order) = 4
  BY OrderFacts DEF DaemonInv, DaemonTypeOK
<1>b. MainLeft \in Int
  BY MainLeftType
<1>1. ASSUME NEW sig, Deliver(sig) PROVE MainLeft' <= MainLeft
  <2>1. CASE UNCHANGED vars
    <3>1. MainLeft' = MainLeft
      BY <1>1, <2>1 DEF Deliver, MainLeft, PassLeft, vars, pass
    <3>. QED  BY <1>b, <3>1
  <2>2. CASE call = "blocked" /\ Interrupted
    <3>1. PassLeft \in Nat /\ PassLeft' \in Nat /\ PassLeft' < PassLeft
      BY <2>2, PassShortens DEF DaemonInv
    <3>2. stage' = stage /\ level' = level
      BY <1>1 DEF Deliver
    <3>. QED  BY <1>a, <3>1, <3>2 DEF MainLeft
  <2>. QED  BY <1>1, <2>1, <2>2 DEF Deliver
<1>2. CASE DiesEarly
  BY <1>2, <1>a DEF DiesEarly, MainLeft
<1>3. CASE (\E p \in Peers : Peer(p)) /\ UNCHANGED main
  <2>1. UNCHANGED <<call, next, main>>
    BY <1>3 DEF Peer, Connect, PeerSend, PeerRead, PeerClose, PeerReset, pass
  <2>2. MainLeft' = MainLeft
    BY <2>1 DEF MainLeft, PassLeft, main
  <2>. QED  BY <1>b, <2>2
<1>4. CASE UNCHANGED daemonVars
  <2>1. MainLeft' = MainLeft
    BY <1>4 DEF MainLeft, PassLeft, daemonVars, main, vars, pass
  <2>. QED  BY <1>b, <2>1
<1>. QED  BY <1>1, <1>2, <1>3, <1>4 DEF DaemonNext

(* Once main was told to end, each of its steps leaves fewer to the exit,  *)
(* and nobody adds any: for every number of slots the shutdown takes no    *)
(* more than MainLeft steps of main.                                       *)
THEOREM ShutdownIsBounded == DaemonSafety => ShutdownComesNearer
<1>1. (DaemonInv => MainLeft \in Int)'
  BY MainLeftType, PTL
<1>2. DaemonInv /\ DaemonInv' /\ [DaemonNext]_daemonVars =>
        [quit => MainLeft' <= MainLeft /\ (Main => MainLeft' < MainLeft)]_daemonVars
  <2>. SUFFICES ASSUME DaemonInv, DaemonInv', [DaemonNext]_daemonVars, quit
                PROVE  MainLeft' <= MainLeft /\ (Main => MainLeft' < MainLeft)
    OBVIOUS
  <2>1. CASE Main
    <3>1. MainLeft' < MainLeft
      BY <2>1, MainShortens
    <3>2. MainLeft \in Int /\ MainLeft' \in Int
      BY <1>1, MainLeftType
    <3>. QED  BY <3>1, <3>2
  <2>2. CASE ~Main
    BY <2>2, OthersNeverLengthen
  <2>. QED  BY <2>1, <2>2
<1>. QED  BY <1>2, DaemonInvariant, PTL DEF DaemonSafety, ShutdownComesNearer

=============================================================================
