------------------------------- MODULE Daemon -------------------------------
(***************************************************************************)
(* The daemon of src/src/main.c: it initialises the components in order,   *)
(* runs the loop of the AirPlay server until a signal asks it to end, and  *)
(* takes everything down in the reverse order; a failure on the way up     *)
(* takes down what is already there.                                       *)
(*                                                                         *)
(* The server is the one of AirplayServer, which this module extends: main *)
(* decides when its operations run.  Of the other components main only     *)
(* calls init and cleanup, so all that is kept of them is which are up.    *)
(***************************************************************************)
EXTENDS AirplayServer

VARIABLES
  stage,     \* where main is
  level,     \* components brought up, and not yet taken down, by main
  up,        \* the components that are initialised
  created,   \* server # NULL
  quit,      \* main's running = 0
  failed     \* main is on its way to exit(EXIT_FAILURE)

main       == <<stage, level, up, created, quit, failed>>
daemonVars == <<vars, main>>

Order      == <<"audio", "volume", "playback", "multiroom">>
Components == {"audio", "volume", "playback", "multiroom"}

(* volume_control_init, playback_control_init and multiroom_init always    *)
(* return 0; audio_output_init may find no memory.                         *)
CanFail == {"audio"}

DaemonInit ==
  /\ Init
  /\ stage = "boot"
  /\ level = 0
  /\ up = {}
  /\ created = FALSE
  /\ quit = FALSE
  /\ failed = FALSE

(* Options, log, daemon() and the handlers.                                *)
SetUp ==
  /\ stage = "boot"
  /\ stage' = "init"
  /\ UNCHANGED <<vars, level, up, created, quit, failed>>

InitComponent ==
  /\ stage = "init"
  /\ level < Len(Order)
  /\ \/ /\ level' = level + 1
        /\ up' = up \cup {Order[level + 1]}
        /\ UNCHANGED <<stage, failed>>
     \/ /\ Order[level + 1] \in CanFail
        /\ stage' = "cleanup"
        /\ failed' = TRUE
        /\ UNCHANGED <<level, up>>
  /\ UNCHANGED <<vars, created, quit>>

(* Faulty variant of Create: the server is counted with the components.    *)
Create_Counted ==
  /\ stage = "init"
  /\ level = Len(Order)
  /\ \/ stage' = "start" /\ created' = TRUE /\ level' = level + 1 /\ UNCHANGED failed
     \/ stage' = "cleanup" /\ failed' = TRUE /\ UNCHANGED <<created, level>>
  /\ UNCHANGED <<vars, up, quit>>

Create ==
  /\ stage = "init"
  /\ level = Len(Order)
  /\ \/ stage' = "start" /\ created' = TRUE /\ UNCHANGED failed
     \/ stage' = "cleanup" /\ failed' = TRUE /\ UNCHANGED created
  /\ UNCHANGED <<vars, level, up, quit>>

(* Faulty variant of StartServer: a server that did not start is left.     *)
StartServer_NoDestroy ==
  /\ stage = "start"
  /\ Start
  /\ IF running' THEN stage' = "loop" /\ UNCHANGED failed
                 ELSE stage' = "cleanup" /\ failed' = TRUE
  /\ UNCHANGED <<level, up, created, quit>>

StartServer ==
  /\ stage = "start"
  /\ Start
  /\ IF running' THEN stage' = "loop" /\ UNCHANGED failed
                 ELSE stage' = "destroy" /\ failed' = TRUE
  /\ UNCHANGED <<level, up, created, quit>>

----------------------------------------------------------------------------
(* Faulty variant of Loop: running is not looked at while clients wait.    *)
Loop_BusyFirst ==
  /\ stage = "loop"
  /\ IF call = "idle" /\ quit /\ queue = <<>>
       THEN stage' = "stop" /\ UNCHANGED <<vars, level, up, created, quit, failed>>
       ELSE Process /\ UNCHANGED main

(* while (running) airplay_server_process(server): running is read between *)
(* two passes.                                                             *)
Loop ==
  /\ stage = "loop"
  /\ IF call = "idle" /\ quit
       THEN stage' = "stop" /\ UNCHANGED <<vars, level, up, created, quit, failed>>
       ELSE Process /\ UNCHANGED main

StopServer ==
  /\ stage = "stop"
  /\ Stop
  /\ stage' = "destroy"
  /\ UNCHANGED <<level, up, created, quit, failed>>

(* airplay_server_destroy stops the server, stopped or not, and frees it.  *)
Destroy ==
  /\ stage = "destroy"
  /\ Stop
  /\ stage' = "cleanup"
  /\ created' = FALSE
  /\ UNCHANGED <<level, up, quit, failed>>

(* Faulty variant of Cleanup: the components go in the order they came.    *)
Cleanup_InOrder ==
  /\ stage = "cleanup"
  /\ level > 0
  /\ level' = level - 1
  /\ up' = up \ {Order[Cardinality(Components) + 1 - level]}
  /\ UNCHANGED <<vars, stage, created, quit, failed>>

Cleanup ==
  /\ stage = "cleanup"
  /\ level > 0
  /\ level' = level - 1
  /\ up' = up \ {Order[level]}
  /\ UNCHANGED <<vars, stage, created, quit, failed>>

Exit ==
  /\ stage = "cleanup"
  /\ level = 0
  /\ stage' = "exited"
  /\ UNCHANGED <<vars, level, up, created, quit, failed>>

----------------------------------------------------------------------------
Alive == stage # "exited" /\ call # "killed"

(* Faulty variant of Deliver: the handler itself stops the server.         *)
Deliver_Stops(sig) ==
  /\ Signals /\ Alive /\ stage # "boot"
  /\ quit' = (quit \/ sig = "TERM")
  /\ IF call = "blocked" THEN Interrupted
     ELSE IF stage = "loop" /\ sig = "TERM" THEN
       /\ running' = FALSE /\ socket_fd' = -1
       /\ fdt' = [fd \in Fds |-> IF fdt[fd] = "listen" THEN "free" ELSE fdt[fd]]
       /\ UNCHANGED <<avahi_client, entry_group, slots, pass, queue, conn>>
     ELSE UNCHANGED vars
  /\ UNCHANGED <<stage, level, up, created, failed>>

(* signal_handler: SIGTERM and SIGINT clear running, SIGHUP does nothing.  *)
(* Either wakes a send() that sleeps; one that comes before the send()     *)
(* does not.                                                               *)
Deliver(sig) ==
  /\ Signals /\ Alive /\ stage # "boot"
  /\ quit' = (quit \/ sig = "TERM")
  /\ IF call = "blocked" THEN Interrupted ELSE UNCHANGED vars
  /\ UNCHANGED <<stage, level, up, created, failed>>

(* Before sigaction() the disposition of every signal ends the process.    *)
DiesEarly ==
  /\ Signals
  /\ stage = "boot"
  /\ stage' = "exited"
  /\ failed' = TRUE
  /\ UNCHANGED <<vars, level, up, created, quit>>

Main == SetUp \/ InitComponent \/ Create \/ StartServer \/ Loop
          \/ StopServer \/ Destroy \/ Cleanup \/ Exit

DaemonNext ==
  \/ Main
  \/ \E sig \in {"TERM", "HUP"} : Deliver(sig)
  \/ DiesEarly
  \/ (\E p \in Peers : Peer(p)) /\ UNCHANGED main

DaemonSafety == DaemonInit /\ [][DaemonNext]_daemonVars

(* The thread runs; a peer that stays connected reads what it is sent.     *)
DaemonSpec ==
  /\ DaemonSafety
  /\ WF_daemonVars(Main)
  /\ \A p \in Peers : WF_daemonVars(PeerRead(p) /\ UNCHANGED main)

----------------------------------------------------------------------------
DaemonTypeOK ==
  /\ stage \in {"boot", "init", "start", "loop", "stop", "destroy", "cleanup", "exited"}
  /\ level \in 0 .. Len(Order)
  /\ up \subseteq Components
  /\ created \in BOOLEAN /\ quit \in BOOLEAN /\ failed \in BOOLEAN

(* The components that are up are always a prefix of the order they are    *)
(* brought up in, and the server exists only above all of them: volume     *)
(* control calls the audio output, and the server is to call every one.    *)
UpIsPrefix ==
  /\ \E k \in 0 .. Len(Order) : up = {Order[i] : i \in 1 .. k}
  /\ created \/ running => up = Components

(* An exit of main's own leaves nothing to the kernel: whichever step of   *)
(* the way up failed, and in whatever state the signal found the loop, no  *)
(* component is up, no socket is open, the service is withdrawn.  And main *)
(* reports success only if a signal asked it to end.                       *)
CleanExit ==
  stage = "exited" =>
    /\ up = {} /\ ~created
    /\ ~running /\ ~entry_group /\ ~avahi_client
    /\ \A fd \in Fds : fdt[fd] \in {"free", "other"}
    /\ failed \/ quit

(* main uses the server as AirplayServer assumes: every step of the daemon *)
(* is one of the server's, between passes for start and stop, or none.     *)
ServerUsedWell == Safety

(* The most steps main has left once it was told to end.                   *)
MainLeft ==
  LET N == Len(Order)
  IN CASE stage = "boot"    -> 2 * N + 7
       [] stage = "init"    -> 2 * N + 6 - level
       [] stage = "start"   -> N + 5
       [] stage = "loop"    -> N + 4 + PassLeft
       [] stage = "stop"    -> N + 3
       [] stage = "destroy" -> N + 2
       [] stage = "cleanup" -> level + 1
       [] OTHER             -> 0

(* After the signal no new pass begins and nothing is done over again: each*)
(* step of main leaves fewer of them to its exit, and neither the peers nor*)
(* more signals ever add one.  What a shutdown can still wait for is the   *)
(* peer a send() sleeps on.                                                *)
ShutdownComesNearer ==
  [][quit => MainLeft' <= MainLeft /\ (Main => MainLeft' < MainLeft)]_daemonVars

(* A daemon that was told to end ends.                                     *)
ShutdownCompletes == quit ~> ~Alive

----------------------------------------------------------------------------
(* The inductive invariant: beside the server's own, what main knows at    *)
(* each stage.                                                             *)

(* The server never closes, nor is given, a descriptor of the others.      *)
OthersStay == call # "killed" => \A fd \in OtherFds : fdt[fd] = "other"

StageAgrees ==
  /\ up = {Order[i] : i \in 1 .. level}
  /\ created <=> stage \in {"start", "loop", "stop", "destroy"}
  /\ created => level = Len(Order)
  /\ stage \in {"boot", "exited"} => level = 0
  /\ stage \in {"loop", "stop", "destroy"} => Started
  /\ stage = "stop" => quit
  /\ stage \in {"destroy", "cleanup", "exited"} => failed \/ quit

(* Outside the loop no pass is under way, and before the server runs and   *)
(* after it was stopped it holds nothing.                                  *)
ServerRests ==
  /\ stage # "loop" => call = "idle"
  /\ stage \notin {"loop", "stop"} =>
       ~running /\ ~avahi_client /\ ~entry_group /\ Connected = {}

DaemonInv ==
  ServerInv /\ DaemonTypeOK /\ OthersStay /\ StageAgrees /\ ServerRests

============================================================================
