--------------------------- MODULE AirplayServer ---------------------------
(***************************************************************************)
(* The AirPlay server object of src/src/airplay_server.c: its listening    *)
(* socket, its table of client slots, the select() loop that accepts       *)
(* clients and answers their requests, and start and stop.                 *)
(*                                                                         *)
(* The server is single threaded.  A pass of airplay_server_process is cut *)
(* at its system calls (select, accept, recv, send), because the peers and *)
(* the kernel move between them; what the code does between two system     *)
(* calls is one step.  The kernel's descriptor table, its accept queue and *)
(* the TCP connections are external to the repository; they are modelled   *)
(* as Linux implements them, as far as the calls of the server see them.   *)
(***************************************************************************)
EXTENDS Integers, Sequences, FiniteSets

CONSTANTS
  Peers,        \* remote endpoints (address and port) that may connect
  NoPeer,       \* the address in a slot that was never used
  MAX_CLIENTS,  \* number of client slots, and the backlog given to listen()
  Fds,          \* descriptor numbers the process may use (RLIMIT_NOFILE)
  OtherFds,     \* descriptors the rest of the process holds, 0 among them
  HttpMethods,  \* leading words routed to handle_http_request
  RtspMethods,  \* leading words routed to handle_rtsp_request
  Noise,        \* text that starts with no method, e.g. the rest of a body
  INBOX,        \* bound: segments a connection may hold unread
  BUFFER_SIZE,  \* segments that fit in the buffer of one recv()
  SNDBUF,       \* replies that fit in a socket's send buffer
  MaxOwed,      \* bound: requests a peer sends ahead of their replies
  Signals       \* whether handled signals arrive while the server runs

ASSUME PeersAssumption ==
  Peers \cap {"free", "listen", "other", NoPeer} = {}

ASSUME SizesAssumption ==
  /\ MAX_CLIENTS \in Nat \ {0}
  /\ INBOX \in Nat \ {0} /\ BUFFER_SIZE \in Nat \ {0}
  /\ SNDBUF \in Nat \ {0} /\ MaxOwed \in Nat \ {0}
  /\ Signals \in BOOLEAN

ASSUME NoiseAssumption == Noise \cap (HttpMethods \cup RtspMethods) = {}

ASSUME FdsAssumption == Fds \subseteq Nat /\ OtherFds \subseteq Fds /\ 0 \in OtherFds

VARIABLES
  socket_fd,     \* server->socket_fd
  running,       \* server->running
  avahi_client,  \* server->avahi_client # NULL
  entry_group,   \* server->entry_group # NULL
  slot_fd,       \* server->clients[i].fd, kept when the client leaves
  slot_addr,     \* server->clients[i].addr
  connected,     \* server->clients[i].connected
  call,          \* where the server's thread is
  next,          \* the slot the pass looks at next
  ready,         \* read_fds, as select() left it
  fdt,           \* kernel: what each descriptor number refers to
  queue,         \* kernel: connections that wait for accept()
  conn           \* kernel and peer: the state of each peer's connection

server == <<socket_fd, running, avahi_client, entry_group>>
slots  == <<slot_fd, slot_addr, connected>>
pass   == <<call, next, ready>>
kernel == <<fdt, queue, conn>>
vars   == <<server, slots, pass, kernel>>

(* Faulty variant of Slots: the loops over the table stop one slot early.  *)
Slots_OffByOne == 0 .. MAX_CLIENTS - 2

Slots   == 0 .. MAX_CLIENTS - 1
Methods == HttpMethods \cup RtspMethods
Text    == Methods \cup Noise

(* The words handle_client_request answers, and faulty variants of it: the *)
(* RTSP methods are left out; every text is taken for a request.           *)
Routed_HttpOnly == HttpMethods
Routed_All      == Text
Routed          == HttpMethods \cup RtspMethods

(***************************************************************************)
(* A connection, seen from the server's socket.  "rst" is a reset whose    *)
(* error no call has reported yet; "pipe" is a reset of a connection that  *)
(* was already half closed, or whose error was reported: the next send()   *)
(* raises SIGPIPE.                                                         *)
(***************************************************************************)
PeerEnds == {"open", "fin", "rst", "pipe"}

Connection ==
  [inbox : Seq(Text), end : PeerEnds, outbox : 0 .. SNDBUF, owed : Int]

Fresh == [inbox |-> <<>>, end |-> "open", outbox |-> 0, owed |-> 0]

Lowest(x, S) == x \in S /\ \A y \in S : x <= y

FreeFds == {fd \in Fds : fdt[fd] = "free"}

InQueue(p) == \E i \in 1 .. Len(queue) : queue[i] = p
OnFd(p)    == \E fd \in Fds : fdt[fd] = p
Linked(p)  == InQueue(p) \/ OnFd(p)

Listening == \E fd \in Fds : fdt[fd] = "listen"

Readable(fd) ==
  \/ fdt[fd] = "listen" /\ queue # <<>>
  \/ /\ fdt[fd] \in Peers
     /\ conn[fdt[fd]].inbox # <<>> \/ conn[fdt[fd]].end # "open"

(* The connections of these peers end: their descriptors were closed.      *)
Release(ps) == conn' = [p \in Peers |-> IF p \in ps THEN Fresh ELSE conn[p]]

Connected == {i \in Slots : connected[i]}

Init ==
  /\ socket_fd = 0
  /\ running = FALSE
  /\ avahi_client = FALSE
  /\ entry_group = FALSE
  /\ slot_fd = [i \in Slots |-> 0]
  /\ slot_addr = [i \in Slots |-> NoPeer]
  /\ connected = [i \in Slots |-> FALSE]
  /\ call = "idle"
  /\ next = 0
  /\ ready = {}
  /\ fdt = [fd \in Fds |-> IF fd \in OtherFds THEN "other" ELSE "free"]
  /\ queue = <<>>
  /\ conn = [p \in Peers |-> Fresh]

----------------------------------------------------------------------------
(* airplay_server_start.                                                   *)

(* bind, listen or avahi_client_new fails: the socket is closed again, and *)
(* socket_fd keeps its number.                                             *)
StartFails(fd) ==
  /\ socket_fd' = fd
  /\ UNCHANGED <<running, avahi_client, entry_group, fdt>>

(* avahi_client_callback, which avahi_client_new may call at once: in      *)
(* S_RUNNING it registers the service unless an entry group exists, and    *)
(* may fail to get one.                                                    *)
ClientCallback == entry_group' \in {entry_group, TRUE}

StartSucceeds(fd) ==
  /\ socket_fd' = fd
  /\ running' = TRUE
  /\ avahi_client' = TRUE
  /\ ClientCallback
  /\ fdt' = [fdt EXCEPT ![fd] = "listen"]

Start ==
  /\ call = "idle"
  /\ ~running
  /\ \/ /\ socket_fd' = -1                      \* socket() fails
        /\ UNCHANGED <<running, avahi_client, entry_group, fdt>>
     \/ \E fd \in Fds : Lowest(fd, FreeFds) /\ (StartFails(fd) \/ StartSucceeds(fd))
  /\ UNCHANGED <<slots, pass, queue, conn>>

----------------------------------------------------------------------------
(* airplay_server_stop.  Everything the server holds is closed; a listener *)
(* that closes resets the connections it has not accepted.                 *)

ClosedByStop ==
  {slot_fd[i] : i \in Connected} \cup {fd \in {socket_fd} : fd >= 0}

Stop ==
  /\ call = "idle"
  /\ running' = FALSE
  /\ socket_fd' = -1
  /\ avahi_client' = FALSE
  /\ entry_group' = FALSE
  /\ connected' = [i \in Slots |-> FALSE]
  /\ fdt' = [fd \in Fds |-> IF fd \in ClosedByStop THEN "free" ELSE fdt[fd]]
  /\ LET deaf == \A fd \in Fds : fdt[fd] = "listen" => fd \in ClosedByStop
     IN /\ queue' = IF deaf THEN <<>> ELSE queue
        /\ Release({p \in Peers : \/ \E fd \in ClosedByStop \cap Fds : fdt[fd] = p
                                  \/ deaf /\ InQueue(p)})
  /\ UNCHANGED <<slot_fd, slot_addr, pass>>

----------------------------------------------------------------------------
(* airplay_server_process.                                                 *)

Watched == {socket_fd} \cup {slot_fd[i] : i \in Connected}

(* FD_ZERO, FD_SET and select().  A descriptor that is not open makes      *)
(* select() fail and ends the pass; so does a timeout.                     *)
Select ==
  /\ call = "idle"
  /\ running
  /\ ready' = IF \A fd \in Watched : fdt[fd] # "free"
                THEN {fd \in Watched : Readable(fd)}
                ELSE {}
  /\ call' = CASE ready' = {}          -> "idle"
               [] socket_fd \in ready' -> "accept"
               [] OTHER                -> "serve"
  /\ next' = 0
  /\ UNCHANGED <<server, slots, kernel>>

(* Faulty variant of TakeSlot: the slot is not checked for a client.       *)
TakeSlot_NoCheck(fd, p) ==
  \E i \in Slots :
    /\ Lowest(i, Slots)
    /\ slot_fd' = [slot_fd EXCEPT ![i] = fd]
    /\ slot_addr' = [slot_addr EXCEPT ![i] = p]
    /\ connected' = [connected EXCEPT ![i] = TRUE]
    /\ fdt' = [fdt EXCEPT ![fd] = p]
    /\ UNCHANGED conn

(* A new client takes the first slot that is not connected.                *)
TakeSlot(fd, p) ==
  \E i \in Slots :
    /\ Lowest(i, Slots \ Connected)
    /\ slot_fd' = [slot_fd EXCEPT ![i] = fd]
    /\ slot_addr' = [slot_addr EXCEPT ![i] = p]
    /\ connected' = [connected EXCEPT ![i] = TRUE]
    /\ fdt' = [fdt EXCEPT ![fd] = p]
    /\ UNCHANGED conn

(* No slot is free.  The code recognises that by looking for the new       *)
(* descriptor in every slot, connected or not.                             *)
Reject(fd, p) ==
  /\ Slots \subseteq Connected
  /\ IF \E i \in Slots : slot_fd[i] = fd
       THEN fdt' = [fdt EXCEPT ![fd] = p] /\ UNCHANGED conn
       ELSE Release({p}) /\ UNCHANGED fdt
  /\ UNCHANGED slots

(* Faulty variant of Accept: a full table leaves the client in the queue.  *)
Accept_WaitsForSlot ==
  /\ call = "accept"
  /\ \/ (FreeFds = {} \/ Slots \subseteq Connected) /\ UNCHANGED <<slots, kernel>>
     \/ \E fd \in Fds :
          /\ Lowest(fd, FreeFds)
          /\ queue' = Tail(queue)
          /\ TakeSlot(fd, Head(queue))
  /\ call' = "serve"
  /\ UNCHANGED <<server, next, ready>>

(* Faulty variant of Accept: the pass ends when accept() fails.            *)
Accept_EndsPass ==
  /\ call = "accept"
  /\ IF FreeFds = {}
       THEN call' = "idle" /\ ready' = {} /\ UNCHANGED <<slots, kernel>>
       ELSE /\ \E fd \in Fds :
                 /\ Lowest(fd, FreeFds)
                 /\ queue' = Tail(queue)
                 /\ TakeSlot(fd, Head(queue)) \/ Reject(fd, Head(queue))
            /\ call' = "serve" /\ UNCHANGED ready
  /\ UNCHANGED <<server, next>>

Accept ==
  /\ call = "accept"
  /\ \/ FreeFds = {} /\ UNCHANGED <<slots, kernel>>        \* EMFILE
     \/ \E fd \in Fds :
          /\ Lowest(fd, FreeFds)
          /\ queue' = Tail(queue)
          /\ TakeSlot(fd, Head(queue)) \/ Reject(fd, Head(queue))
  /\ call' = "serve"
  /\ UNCHANGED <<server, next, ready>>

(* Faulty variant of Due: FD_ISSET is not asked.                           *)
Due_NotReady == {i \in Slots : i >= next /\ connected[i]}

(* The slots the pass still has to serve.                                  *)
Due == {i \in Slots : i >= next /\ connected[i] /\ slot_fd[i] \in ready}

(* recv() took n segments: everything there, up to the buffer.  Only the   *)
(* first word is looked at, and text that starts with no method is dropped.*)
Read(i, p) ==
  LET n == IF Len(conn[p].inbox) < BUFFER_SIZE THEN Len(conn[p].inbox) ELSE BUFFER_SIZE
  IN /\ conn[p].inbox # <<>>
     /\ conn' = [conn EXCEPT ![p].inbox = SubSeq(@, n + 1, Len(@))]
     /\ IF Head(conn[p].inbox) \in Routed
          THEN call' = "send" /\ next' = i
          ELSE call' = "serve" /\ next' = i + 1
     /\ UNCHANGED <<slots, fdt>>

(* Faulty variant of Disconnect: the slot keeps its client.                *)
Disconnect_KeepsSlot(i, p) ==
  /\ conn[p].inbox = <<>>
  /\ fdt' = [fdt EXCEPT ![slot_fd[i]] = "free"]
  /\ Release({p})
  /\ next' = i + 1
  /\ UNCHANGED <<connected, slot_fd, slot_addr, call>>

(* Faulty variant of Disconnect: recv() = 0 is not the end of a client.    *)
Disconnect_IgnoresEof(i, p) ==
  /\ conn[p].inbox = <<>>
  /\ IF conn[p].end = "fin"
       THEN UNCHANGED <<fdt, conn, connected>>
       ELSE /\ fdt' = [fdt EXCEPT ![slot_fd[i]] = "free"]
            /\ Release({p})
            /\ connected' = [connected EXCEPT ![i] = FALSE]
  /\ next' = i + 1
  /\ UNCHANGED <<slot_fd, slot_addr, call>>

(* Faulty variant of Disconnect: the loop index moves on twice.            *)
Disconnect_SkipsNext(i, p) ==
  /\ conn[p].inbox = <<>>
  /\ fdt' = [fdt EXCEPT ![slot_fd[i]] = "free"]
  /\ Release({p})
  /\ connected' = [connected EXCEPT ![i] = FALSE]
  /\ next' = i + 2
  /\ UNCHANGED <<slot_fd, slot_addr, call>>

(* recv() returned 0 or -1, EAGAIN included.                               *)
Disconnect(i, p) ==
  /\ conn[p].inbox = <<>>
  /\ fdt' = [fdt EXCEPT ![slot_fd[i]] = "free"]
  /\ Release({p})
  /\ connected' = [connected EXCEPT ![i] = FALSE]
  /\ next' = i + 1
  /\ UNCHANGED <<slot_fd, slot_addr, call>>

Receive ==
  /\ call = "serve"
  /\ \E i \in Slots :
       /\ Lowest(i, Due)
       /\ LET p == fdt[slot_fd[i]] IN Read(i, p) \/ Disconnect(i, p)
  /\ UNCHANGED <<server, ready, queue>>

Return ==
  /\ call = "serve"
  /\ Due = {}
  /\ call' = "idle"
  /\ next' = 0
  /\ ready' = {}
  /\ UNCHANGED <<server, slots, kernel>>

(* Faulty variant of Replied: a reply that had to wait is sent once more.  *)
Replied_SendsAgain(p) ==
  /\ conn[p].end \in {"open", "fin"}
  /\ conn[p].outbox < SNDBUF
  /\ conn' = [conn EXCEPT ![p].outbox = @ + 1, ![p].owed = @ - 1]
  /\ IF call = "blocked"
       THEN call' = "send" /\ next' = next
       ELSE call' = "serve" /\ next' = next + 1
  /\ UNCHANGED <<slots, fdt, queue, server, ready>>

(* Faulty variant of Replied: the client is let go after one reply.        *)
Replied_Closes(p) ==
  /\ conn[p].end \in {"open", "fin"}
  /\ conn[p].outbox < SNDBUF
  /\ fdt' = [fdt EXCEPT ![slot_fd[next]] = "free"]
  /\ Release({p})
  /\ connected' = [connected EXCEPT ![next] = FALSE]
  /\ call' = "serve"
  /\ next' = next + 1
  /\ UNCHANGED <<slot_fd, slot_addr, queue, server, ready>>

(* The reply of handle_http_request or handle_rtsp_request enters the send *)
(* buffer.                                                                 *)
Replied(p) ==
  /\ conn[p].end \in {"open", "fin"}
  /\ conn[p].outbox < SNDBUF
  /\ conn' = [conn EXCEPT ![p].outbox = @ + 1, ![p].owed = @ - 1]
  /\ call' = "serve"
  /\ next' = next + 1
  /\ UNCHANGED <<slots, fdt, queue, server, ready>>

(* send() has no MSG_DONTWAIT: with a full send buffer the thread sleeps.  *)
SendBlocks(p) ==
  /\ call = "send"
  /\ conn[p].end \in {"open", "fin"}
  /\ conn[p].outbox = SNDBUF
  /\ call' = "blocked"
  /\ UNCHANGED <<server, slots, kernel, next, ready>>

(* send() fails with ECONNRESET; the handler ignores its result.           *)
SendFails(p) ==
  /\ conn[p].end = "rst"
  /\ conn' = [conn EXCEPT ![p].end = "pipe"]
  /\ call' = "serve"
  /\ next' = next + 1
  /\ UNCHANGED <<slots, fdt, queue, server, ready>>

(* send() has no MSG_NOSIGNAL and main leaves SIGPIPE at its default: the  *)
(* process ends, and the kernel closes what it held.                       *)
SigPipe(p) ==
  /\ conn[p].end = "pipe"
  /\ call' = "killed"
  /\ next' = 0
  /\ ready' = {}
  /\ running' = FALSE
  /\ connected' = [i \in Slots |-> FALSE]
  /\ fdt' = [fd \in Fds |-> "free"]
  /\ queue' = <<>>
  /\ Release(Peers)
  /\ UNCHANGED <<slot_fd, slot_addr, socket_fd, avahi_client, entry_group>>

Send ==
  /\ call \in {"send", "blocked"}
  /\ LET p == fdt[slot_fd[next]]
     IN Replied(p) \/ SendBlocks(p) \/ SendFails(p) \/ SigPipe(p)

(* A handled signal wakes a send() that sleeps (sa_flags has no SA_RESTART)*)
(* and the reply is lost.                                                  *)
Interrupted ==
  /\ Signals
  /\ call = "blocked"
  /\ call' = "serve"
  /\ next' = next + 1
  /\ UNCHANGED <<server, slots, kernel, ready>>

----------------------------------------------------------------------------
(* The peers and the network.                                              *)

Connect(p) ==
  /\ Listening
  /\ ~Linked(p)
  /\ Len(queue) <= MAX_CLIENTS
  /\ queue' = Append(queue, p)
  /\ UNCHANGED <<server, slots, pass, fdt, conn>>

(* A request, or text that is none; a peer that is owed MaxOwed replies    *)
(* waits before it asks for more.                                          *)
PeerSend(p) ==
  /\ Linked(p)
  /\ conn[p].end = "open"
  /\ Len(conn[p].inbox) < INBOX
  /\ \/ /\ conn[p].owed < MaxOwed
        /\ \E m \in Methods :
             conn' = [conn EXCEPT ![p].inbox = Append(@, m), ![p].owed = @ + 1]
     \/ \E t \in Noise : conn' = [conn EXCEPT ![p].inbox = Append(@, t)]
  /\ UNCHANGED <<server, slots, pass, fdt, queue>>

PeerRead(p) ==
  /\ Linked(p)
  /\ conn[p].end \in {"open", "fin"}
  /\ conn[p].outbox > 0
  /\ conn' = [conn EXCEPT ![p].outbox = @ - 1]
  /\ UNCHANGED <<server, slots, pass, fdt, queue>>

PeerClose(p) ==
  /\ Linked(p)
  /\ conn[p].end = "open"
  /\ conn' = [conn EXCEPT ![p].end = "fin"]
  /\ UNCHANGED <<server, slots, pass, fdt, queue>>

PeerReset(p) ==
  /\ Linked(p)
  /\ conn[p].end \in {"open", "fin"}
  /\ conn' = [conn EXCEPT ![p].end = IF @ = "open" THEN "rst" ELSE "pipe"]
  /\ UNCHANGED <<server, slots, pass, fdt, queue>>

Peer(p) == Connect(p) \/ PeerSend(p) \/ PeerRead(p) \/ PeerClose(p) \/ PeerReset(p)

----------------------------------------------------------------------------
(* Started at least once: calloc leaves socket_fd at 0, and a stop before  *)
(* the first start would close that descriptor.                            *)
Started == socket_fd \notin OtherFds

Process == Select \/ Accept \/ Receive \/ Send \/ Return

Next ==
  \/ Start
  \/ Started /\ Stop
  \/ Process
  \/ Interrupted
  \/ \E p \in Peers : Peer(p)

Safety == Init /\ [][Next]_vars

(* main calls airplay_server_process again and again, every select() and   *)
(* accept() returns, and a peer that stays connected reads what it is sent.*)
Fairness == WF_vars(Process) /\ \A p \in Peers : WF_vars(PeerRead(p))

Spec == Safety /\ Fairness

(* The same without a promise from the peers.                              *)
LoopSpec == Safety /\ WF_vars(Process)

----------------------------------------------------------------------------
TypeOK ==
  /\ socket_fd \in Fds \cup {-1}
  /\ running \in BOOLEAN /\ avahi_client \in BOOLEAN /\ entry_group \in BOOLEAN
  /\ slot_fd \in [Slots -> Fds]
  /\ slot_addr \in [Slots -> Peers \cup {NoPeer}]
  /\ connected \in [Slots -> BOOLEAN]
  /\ call \in {"idle", "accept", "serve", "send", "blocked", "killed"}
  /\ next \in 0 .. MAX_CLIENTS
  /\ ready \subseteq Fds
  /\ fdt \in [Fds -> {"free", "listen", "other"} \cup Peers]
  /\ queue \in Seq(Peers)
  /\ conn \in [Peers -> Connection]

(* A slot that is in use names an open descriptor of its own, and that     *)
(* descriptor is still the connection the slot was filled with: closing,   *)
(* number reuse by accept() and the next pass never tear the two apart.    *)
SlotsAreLive ==
  /\ \A i \in Connected : slot_addr[i] \in Peers /\ fdt[slot_fd[i]] = slot_addr[i]
  /\ \A i, j \in Connected : slot_fd[i] = slot_fd[j] => i = j

(* Nothing leaks: every open client descriptor is in a slot in use, and    *)
(* the only listening socket is socket_fd of a server that runs.  The      *)
(* found_slot search of airplay_server_process compares descriptors with   *)
(* slots no client uses any more, which is where a rejected one could hide.*)
NothingLeaks ==
  /\ \A fd \in Fds : fdt[fd] \in Peers => \E i \in Connected : slot_fd[i] = fd
  /\ \A fd \in Fds : fdt[fd] = "listen" <=> running /\ fd = socket_fd

(* The loop drops a client only when that client is gone: although recv()  *)
(* is taken to fail on EAGAIN too, no pass reads a descriptor with nothing *)
(* to read.                                                                *)
DropsOnlyTheGone ==
  [][\A p \in Peers :
       call = "serve" /\ OnFd(p) /\ ~OnFd(p)' =>
         conn[p].end # "open" /\ conn[p].inbox = <<>>]_vars

(* A connection is accepted and closed again only while MAX_CLIENTS others *)
(* hold a descriptor each.                                                 *)
RejectsOnlyWhenFull ==
  [][\A p \in Peers :
       call = "accept" /\ InQueue(p) /\ ~Linked(p)' =>
         Cardinality({q \in Peers : OnFd(q)}) = MAX_CLIENTS]_vars

(* No peer gets a reply it did not ask for: a reply goes to the connection *)
(* its request was read from, whatever was accepted, closed or reset since *)
(* select(), a request is answered once, and text that starts with no      *)
(* method is not answered.  (Text within a request that happens to start a *)
(* segment with a method is taken for a request; Noise leaves it out.)     *)
NoUnsolicitedReply == \A p \in Peers : conn[p].owed >= 0

(* What the peers see of the server: its tables and descriptors are gone.  *)
ServedPeers  == {p \in Peers : OnFd(p)}
GonePeers    == {p \in Peers : conn[p].end # "open"}
UnheardPeers == {p \in Peers : conn[p].inbox # <<>>}
RepliesDue   == [p \in Peers |-> conn[p].owed]

Service == INSTANCE ClientService WITH
  Clients <- Peers, Capacity <- MAX_CLIENTS, Backlog <- MAX_CLIENTS,
  open <- running, waiting <- queue, served <- ServedPeers,
  gone <- GonePeers, unheard <- UnheardPeers, asked <- RepliesDue

(* The server is the service ClientService describes: through number reuse,*)
(* failing calls, replies that wait and signals that cut them short, its   *)
(* clients are let in in order, turned away from a full house only,        *)
(* answered what they asked, and let go when they have gone and were heard.*)
ImplementsService == Service!ServiceSpec

(* A request that is the first thing unread on its connection is answered, *)
(* or its client is gone or turned away, whatever else is sent before the  *)
(* server reads.  (One that a recv() takes with text before it is dropped  *)
(* with that text.)                                                        *)
RequestsAnswered ==
  \A p \in Peers :
    /\ conn[p].inbox # <<>> /\ Head(conn[p].inbox) \in Methods
    /\ conn[p].end = "open"
    ~> conn[p].owed = 0 \/ conn[p].end # "open"

(* Descriptors have run out for good, and a client stays for ever.         *)
NoWayIn ==
  /\ <>[](FreeFds = {})
  /\ \E p \in Peers : <>[](OnFd(p) /\ conn[p].end = "open")

(* No connection waits in the accept queue for ever: it gets a slot or is  *)
(* turned away, however full the table is, and though accept() fails for   *)
(* want of descriptors, unless it does so for ever because of clients that *)
(* never leave.                                                            *)
QueueDrains == NoWayIn \/ \A p \in Peers : InQueue(p) ~> ~InQueue(p)

(* The descriptor of a client that closed or reset its end is closed.      *)
GoneAreReaped ==
  \A p \in Peers : OnFd(p) /\ conn[p].end # "open" ~> ~OnFd(p) \/ conn[p].end = "open"

(* PROJECT_SUMMARY.md calls the I/O non-blocking: no client, whatever it   *)
(* does or omits, keeps a pass of the loop from ending.                    *)
PassesEnd == call \in {"accept", "serve", "send"} ~> call \in {"idle", "killed"}

(* The most steps that are left of the pass under way: one to accept, and  *)
(* for every slot not yet looked at a recv(), a send() and its wait.       *)
PassLeft ==
  CASE call = "accept"  -> 3 * MAX_CLIENTS + 2
    [] call = "serve"   -> 3 * (MAX_CLIENTS - next) + 1
    [] call = "send"    -> 3 * (MAX_CLIENTS - next)
    [] call = "blocked" -> 3 * (MAX_CLIENTS - next) - 1
    [] OTHER            -> 0

(* No pass does anything twice: each of its steps leaves fewer to its end, *)
(* and neither peers nor signals add any.  What a pass can still wait for  *)
(* is the peer a send() sleeps on.                                         *)
PassesShorten ==
  [][call # "idle" =>
       PassLeft' <= PassLeft /\ (Process \/ Interrupted => PassLeft' < PassLeft)]_vars

(* "Client disconnected or error" closes that client's slot: one step of   *)
(* the loop closes at most the client it serves, and never the listener.   *)
LossStaysLocal ==
  [][(call \in {"serve", "send", "blocked"}) =>
       /\ Cardinality({p \in Peers : OnFd(p) /\ ~OnFd(p)'}) <= 1
       /\ Listening => Listening']_vars

----------------------------------------------------------------------------
(* The inductive invariant: what a pass of the loop relies on, beside the  *)
(* properties above.                                                       *)

(* A pass runs only while the server does, which then has a listener;      *)
(* accept() is called only with a connection to take, and a reply is under *)
(* way to a slot in use.                                                   *)
Control ==
  /\ call \in {"accept", "serve", "send", "blocked"} => running
  /\ running => socket_fd \in Fds
  /\ call = "accept" => queue # <<>>
  /\ call \in {"send", "blocked"} => next \in Slots /\ connected[next]

(* A peer has one connection at most: in the queue or on one descriptor.   *)
OneConnection ==
  /\ \A i, j \in 1 .. Len(queue) : queue[i] = queue[j] => i = j
  /\ \A p \in Peers : InQueue(p) => ~OnFd(p)
  /\ \A fd, other \in Fds : fdt[fd] \in Peers /\ fdt[fd] = fdt[other] => fd = other

(* What select() reported of a slot the pass has not come to is still so,  *)
(* and so is that it reported open descriptors only.                       *)
ReportHolds ==
  /\ call = "accept" => \A fd \in ready : fdt[fd] # "free"
  /\ \A i \in Connected :
       slot_fd[i] \in ready /\ (i > next \/ (i = next /\ call \in {"accept", "serve"})) =>
         Readable(slot_fd[i])
  /\ call \in {"idle", "killed"} => ready = {}

ServerInv ==
  TypeOK /\ SlotsAreLive /\ NothingLeaks /\ Control /\ OneConnection /\ ReportHolds

============================================================================
