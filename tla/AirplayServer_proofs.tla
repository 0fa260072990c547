------------------------ MODULE AirplayServer_proofs ------------------------
(***************************************************************************)
(* Proofs that the safety properties of AirplayServer hold for every       *)
(* number of peers, slots and descriptors and every bound.  ServerInv is   *)
(* the inductive invariant; each action has a lemma of its own.            *)
(***************************************************************************)
EXTENDS AirplayServer, SequenceTheorems, FiniteSetTheorems, TLAPS

(* The marks of the descriptor table are no peers.                         *)
LEMMA Marks ==
  \A p \in Peers : p # "free" /\ p # "listen" /\ p # "other" /\ p # NoPeer
BY PeersAssumption

(* The connections stay connections when some of them end.                 *)
LEMMA ReleaseType ==
  ASSUME conn \in [Peers -> Connection], NEW ps, Release(ps)
  PROVE  conn' \in [Peers -> Connection]
<1>1. Fresh \in Connection
  BY SizesAssumption, EmptySeq DEF Fresh, Connection, PeerEnds
<1>. QED  BY <1>1 DEF Release

LEMMA ServerInit == Init => ServerInv
<1>. SUFFICES ASSUME Init PROVE ServerInv
  OBVIOUS
<1>. USE SizesAssumption, FdsAssumption, Marks DEF Init
<1>1. TypeOK
  <2>1. conn \in [Peers -> Connection]
    BY EmptySeq DEF Fresh, Connection, PeerEnds
  <2>2. queue \in Seq(Peers)
    BY EmptySeq
  <2>3. 0 \in Fds /\ next \in 0 .. MAX_CLIENTS
    OBVIOUS
  <2>4. fdt \in [Fds -> {"free", "listen", "other"} \cup Peers]
    OBVIOUS
  <2>5. /\ slot_fd \in [Slots -> Fds]
        /\ slot_addr \in [Slots -> Peers \cup {NoPeer}]
        /\ connected \in [Slots -> BOOLEAN]
    BY <2>3
  <2>6. running \in BOOLEAN /\ avahi_client \in BOOLEAN /\ entry_group \in BOOLEAN
    OBVIOUS
  <2>. QED  BY <2>1, <2>2, <2>3, <2>4, <2>5, <2>6 DEF TypeOK
<1>2. SlotsAreLive /\ NothingLeaks /\ Control
  BY DEF SlotsAreLive, NothingLeaks, Control, Connected, Slots
<1>3. OneConnection
  BY DEF OneConnection, InQueue
<1>4. ReportHolds
  BY DEF ReportHolds
<1>. QED  BY <1>1, <1>2, <1>3, <1>4 DEF ServerInv

LEMMA StartStep == ServerInv /\ Start => ServerInv'
<1>. SUFFICES ASSUME ServerInv, Start PROVE ServerInv'
  OBVIOUS
<1>. USE SizesAssumption, FdsAssumption, Marks
<1>a. /\ call = "idle" /\ ~running
      /\ UNCHANGED <<slot_fd, slot_addr, connected, call, next, ready, queue, conn>>
  BY DEF Start, slots, pass
<1>b. \/ UNCHANGED <<running, avahi_client, entry_group, fdt>> /\ socket_fd' \in Fds \cup {-1}
      \/ \E fd \in Fds : fdt[fd] = "free" /\ StartSucceeds(fd)
  BY DEF Start, StartFails, Lowest, FreeFds
<1>c. ready = {}
  BY <1>a DEF ServerInv, ReportHolds
<1>1. CASE UNCHANGED <<running, avahi_client, entry_group, fdt>> /\ socket_fd' \in Fds \cup {-1}
  <2>1. TypeOK' /\ SlotsAreLive'
    BY <1>1, <1>a DEF ServerInv, TypeOK, SlotsAreLive, Connected
  <2>2. NothingLeaks'
    BY <1>1, <1>a DEF ServerInv, NothingLeaks, Connected
  <2>3. Control' /\ OneConnection'
    BY <1>1, <1>a DEF ServerInv, Control, OneConnection, InQueue, OnFd
  <2>4. ReportHolds'
    BY <1>1, <1>a, <1>c DEF ServerInv, ReportHolds
  <2>. QED  BY <2>1, <2>2, <2>3, <2>4 DEF ServerInv
<1>2. ASSUME NEW fd \in Fds, fdt[fd] = "free", StartSucceeds(fd)
      PROVE  ServerInv'
  <2>a. /\ fdt' = [fdt EXCEPT ![fd] = "listen"] /\ fdt' \in [Fds -> {"free", "listen", "other"} \cup Peers]
        /\ running' /\ socket_fd' = fd
    BY <1>2 DEF StartSucceeds, ClientCallback, ServerInv, TypeOK
  <2>1. TypeOK'
    BY <1>2, <1>a, <2>a DEF StartSucceeds, ClientCallback, ServerInv, TypeOK
  <2>2. SlotsAreLive'
    BY <1>2, <1>a, <2>a DEF ServerInv, TypeOK, SlotsAreLive, Connected
  <2>3. NothingLeaks'
    BY <1>2, <1>a, <2>a DEF ServerInv, TypeOK, NothingLeaks, Connected
  <2>4. Control'
    BY <1>2, <1>a, <2>a DEF ServerInv, Control
  <2>5. OneConnection'
    BY <1>2, <1>a, <2>a DEF ServerInv, TypeOK, OneConnection, InQueue, OnFd
  <2>6. ReportHolds'
    BY <1>2, <1>a, <1>c, <2>a DEF ServerInv, ReportHolds
  <2>. QED  BY <2>1, <2>2, <2>3, <2>4, <2>5, <2>6 DEF ServerInv
<1>. QED  BY <1>1, <1>2, <1>b

LEMMA StopStep == ServerInv /\ Stop => ServerInv'
<1>. SUFFICES ASSUME ServerInv, Stop PROVE ServerInv'
  OBVIOUS
<1>. USE SizesAssumption, FdsAssumption, Marks
<1>a. /\ call = "idle" /\ ready = {}
      /\ UNCHANGED <<slot_fd, slot_addr, call, next, ready>>
      /\ running' = FALSE /\ socket_fd' = -1 /\ avahi_client' = FALSE /\ entry_group' = FALSE
      /\ connected' = [i \in Slots |-> FALSE]
      /\ fdt' = [fd \in Fds |-> IF fd \in ClosedByStop THEN "free" ELSE fdt[fd]]
      /\ queue' = <<>> \/ queue' = queue
  BY DEF Stop, pass, ServerInv, ReportHolds
<1>b. TypeOK /\ NothingLeaks
  BY DEF ServerInv
<1>c. Connected' = {}
  BY <1>a DEF Connected
<1>d. conn' \in [Peers -> Connection]
  BY <1>b, ReleaseType DEF Stop, TypeOK
<1>1. TypeOK'
  <2>1. queue' \in Seq(Peers)
    BY <1>a, <1>b, EmptySeq DEF TypeOK
  <2>2. fdt' \in [Fds -> {"free", "listen", "other"} \cup Peers]
    BY <1>a, <1>b DEF TypeOK
  <2>3. connected' \in [Slots -> BOOLEAN]
    BY <1>a
  <2>. QED  BY <1>a, <1>b, <1>d, <2>1, <2>2, <2>3 DEF TypeOK
<1>2. SlotsAreLive'
  BY <1>c DEF SlotsAreLive
<1>3. \A fd \in Fds : fdt'[fd] \notin Peers /\ fdt'[fd] # "listen"
  <2>. SUFFICES ASSUME NEW fd \in Fds, fdt'[fd] \in Peers \/ fdt'[fd] = "listen" PROVE FALSE
    OBVIOUS
  <2>1. fd \notin ClosedByStop /\ (fdt[fd] \in Peers \/ fdt[fd] = "listen")
    BY <1>a
  <2>2. (\E i \in Connected : slot_fd[i] = fd) \/ (fd = socket_fd /\ fd >= 0)
    BY <1>b, <2>1 DEF NothingLeaks
  <2>. QED  BY <2>1, <2>2 DEF ClosedByStop
<1>4. NothingLeaks'
  BY <1>a, <1>3 DEF NothingLeaks
<1>5. Control'
  BY <1>a DEF Control
<1>6. OneConnection'
  <2>1. \A i, j \in 1 .. Len(queue') : queue'[i] = queue'[j] => i = j
    BY <1>a, EmptySeq DEF ServerInv, OneConnection
  <2>. QED  BY <1>3, <2>1 DEF OneConnection, OnFd
<1>7. ReportHolds'
  BY <1>a DEF ReportHolds
<1>. QED  BY <1>1, <1>2, <1>4, <1>5, <1>6, <1>7 DEF ServerInv

(* select() reports open descriptors that are readable, and socket_fd only *)
(* if a connection waits: the one it names is the listener.                *)
LEMMA SelectStep == ServerInv /\ Select => ServerInv'
<1>. SUFFICES ASSUME ServerInv, Select PROVE ServerInv'
  OBVIOUS
<1>. USE SizesAssumption, FdsAssumption, Marks
<1>a. /\ call = "idle" /\ running /\ next' = 0
      /\ UNCHANGED <<socket_fd, running, avahi_client, entry_group, slot_fd, slot_addr,
                     connected, fdt, queue, conn>>
      /\ \A fd \in ready' : fd \in Watched /\ fdt[fd] # "free" /\ Readable(fd)
      /\ call' \in {"idle", "accept", "serve"}
      /\ call' = "idle" => ready' = {}
      /\ call' = "accept" => socket_fd \in ready'
  BY DEF Select, server, slots, kernel
<1>b. TypeOK /\ NothingLeaks /\ SlotsAreLive /\ Control /\ OneConnection
  BY DEF ServerInv
<1>c. socket_fd \in Fds /\ fdt[socket_fd] = "listen"
  BY <1>a, <1>b DEF NothingLeaks, Control
<1>1. TypeOK'
  <2>1. ready' \subseteq Fds
    BY <1>a, <1>b, <1>c DEF TypeOK, Watched, Connected
  <2>. QED  BY <1>a, <1>b, <2>1 DEF TypeOK
<1>2. SlotsAreLive' /\ NothingLeaks' /\ OneConnection'
  BY <1>a, <1>b DEF SlotsAreLive, NothingLeaks, OneConnection, Connected, InQueue, OnFd
<1>3. Control'
  <2>1. ASSUME socket_fd \in ready' PROVE queue # <<>>
    BY <1>a, <1>c, <2>1 DEF Readable
  <2>. QED  BY <1>a, <1>b, <2>1 DEF Control
<1>4. ReportHolds'
  BY <1>a DEF ReportHolds, Readable
<1>. QED  BY <1>1, <1>2, <1>3, <1>4 DEF ServerInv

(* The new descriptor was free, so no slot in use names it and select()    *)
(* did not report it; for the same reason the search for a slot with that  *)
(* descriptor fails when every slot is in use, and the client is rejected. *)
LEMMA AcceptStep == ServerInv /\ Accept => ServerInv'
<1>. SUFFICES ASSUME ServerInv, Accept PROVE ServerInv'
  OBVIOUS
<1>. USE SizesAssumption, FdsAssumption, Marks
<1>a. /\ call = "accept" /\ call' = "serve" /\ running /\ queue # <<>>
      /\ UNCHANGED <<socket_fd, running, avahi_client, entry_group, next, ready>>
  BY DEF Accept, server, ServerInv, Control
<1>b. TypeOK /\ NothingLeaks /\ SlotsAreLive /\ Control /\ OneConnection /\ ReportHolds
  BY DEF ServerInv
<1>c. \/ UNCHANGED <<slots, kernel>>
      \/ \E fd \in Fds : /\ fdt[fd] = "free"
                         /\ queue' = Tail(queue)
                         /\ TakeSlot(fd, Head(queue)) \/ Reject(fd, Head(queue))
  BY DEF Accept, Lowest, FreeFds
<1>1. CASE UNCHANGED <<slots, kernel>>
  <2>. USE <1>1, <1>a, <1>b DEF slots, kernel
  <2>1. TypeOK'
    BY DEF TypeOK
  <2>2. SlotsAreLive' /\ NothingLeaks' /\ OneConnection'
    BY DEF SlotsAreLive, NothingLeaks, OneConnection, Connected, InQueue, OnFd
  <2>3. Control'
    BY DEF Control
  <2>4. ReportHolds'
    BY DEF ReportHolds, Readable, Connected
  <2>. QED  BY <2>1, <2>2, <2>3, <2>4 DEF ServerInv
<1>2. ASSUME NEW fd \in Fds, fdt[fd] = "free", queue' = Tail(queue),
             TakeSlot(fd, Head(queue)) \/ Reject(fd, Head(queue))
      PROVE  ServerInv'
  <2>. DEFINE p == Head(queue)
  <2>a. /\ p \in Peers /\ queue' \in Seq(Peers)
        /\ Len(queue') = Len(queue) - 1 /\ Len(queue) \in Nat \ {0}
        /\ \A i \in 1 .. Len(queue') : queue'[i] = queue[i + 1]
        /\ p = queue[1]
    BY <1>a, <1>b, <1>2, HeadTailProperties, EmptySeq DEF TypeOK
  <2>b. ~OnFd(p) /\ InQueue(p)
    BY <2>a, <1>b DEF OneConnection, InQueue
  <2>c. \A i, j \in 1 .. Len(queue') : queue'[i] = queue'[j] => i = j
    <3>. SUFFICES ASSUME NEW i \in 1 .. Len(queue'), NEW j \in 1 .. Len(queue'),
                         queue'[i] = queue'[j]
                  PROVE  i = j
      OBVIOUS
    <3>1. i + 1 \in 1 .. Len(queue) /\ j + 1 \in 1 .. Len(queue) /\ queue[i + 1] = queue[j + 1]
      BY <2>a
    <3>2. i + 1 = j + 1
      BY <3>1, <1>b DEF OneConnection
    <3>. QED  BY <3>2
  <2>d. \A q \in Peers : InQueue(q)' => InQueue(q) /\ q # p
    <3>. SUFFICES ASSUME NEW q \in Peers, NEW i \in 1 .. Len(queue'), queue'[i] = q
                  PROVE  InQueue(q) /\ q # p
      BY DEF InQueue
    <3>1. i + 1 \in 1 .. Len(queue) /\ queue[i + 1] = q /\ 1 \in 1 .. Len(queue) /\ i + 1 # 1
      BY <2>a
    <3>. QED  BY <3>1, <2>a, <1>b DEF OneConnection, InQueue
  <2>e. \A i \in Connected : slot_fd[i] # fd
    BY <1>b, <1>2 DEF SlotsAreLive
  <2>f. fd \notin ready
    BY <1>a, <1>b, <1>2 DEF ReportHolds
  <2>1. CASE TakeSlot(fd, p)
    <3>1. PICK i \in Slots :
            /\ i \notin Connected
            /\ slot_fd' = [slot_fd EXCEPT ![i] = fd]
            /\ slot_addr' = [slot_addr EXCEPT ![i] = p]
            /\ connected' = [connected EXCEPT ![i] = TRUE]
            /\ fdt' = [fdt EXCEPT ![fd] = p]
            /\ conn' = conn
      BY <2>1 DEF TakeSlot, Lowest
    <3>2. Connected' = Connected \cup {i}
      BY <3>1, <1>b DEF Connected, TypeOK
    <3>3. TypeOK'
      BY <1>a, <1>b, <2>a, <3>1 DEF TypeOK
    <3>4. SlotsAreLive'
      BY <1>b, <1>2, <2>a, <2>e, <3>1, <3>2 DEF SlotsAreLive, TypeOK, Connected
    <3>5. NothingLeaks'
      BY <1>a, <1>b, <1>2, <2>a, <3>1, <3>2 DEF NothingLeaks, TypeOK, Connected
    <3>6. Control'
      BY <1>a, <1>b DEF Control
    <3>7. OneConnection'
      <4>1. \A f, g \in Fds : fdt'[f] \in Peers /\ fdt'[f] = fdt'[g] => f = g
        BY <1>b, <2>b, <3>1 DEF OneConnection, TypeOK, OnFd
      <4>2. \A q \in Peers : InQueue(q)' => ~OnFd(q)'
        BY <1>b, <2>d, <3>1 DEF OneConnection, TypeOK, OnFd
      <4>. QED  BY <2>c, <4>1, <4>2 DEF OneConnection
    <3>8. ReportHolds'
      <4>1. \A j \in Connected : Readable(slot_fd[j]) => Readable(slot_fd[j])'
        BY <1>b, <2>e, <3>1 DEF Readable, SlotsAreLive, TypeOK, Connected
      <4>2. \A j \in Connected : slot_fd'[j] = slot_fd[j]
        BY <1>b, <3>1 DEF TypeOK, Connected
      <4>3. slot_fd'[i] \notin ready'
        BY <1>a, <1>b, <2>f, <3>1 DEF TypeOK
      <4>. QED  BY <1>a, <1>b, <3>2, <4>1, <4>2, <4>3 DEF ReportHolds
    <3>. QED  BY <3>3, <3>4, <3>5, <3>6, <3>7, <3>8 DEF ServerInv
  <2>2. CASE Reject(fd, p)
    <3>1. Slots \subseteq Connected /\ UNCHANGED <<slot_fd, slot_addr, connected>>
      BY <2>2 DEF Reject, slots
    <3>2. Release({p}) /\ fdt' = fdt
      BY <2>2, <2>e, <3>1 DEF Reject
    <3>3. conn' \in [Peers -> Connection]
      BY <1>b, <3>2, ReleaseType DEF TypeOK
    <3>4. TypeOK'
      BY <1>a, <1>b, <2>a, <3>1, <3>2, <3>3 DEF TypeOK
    <3>5. SlotsAreLive' /\ NothingLeaks'
      BY <1>a, <1>b, <3>1, <3>2 DEF SlotsAreLive, NothingLeaks, Connected
    <3>6. Control'
      BY <1>a, <1>b DEF Control
    <3>7. OneConnection'
      BY <1>b, <2>c, <2>d, <3>2 DEF OneConnection, OnFd
    <3>8. ReportHolds'
      <4>1. \A j \in Connected : fdt[slot_fd[j]] # p /\ slot_fd[j] \in Fds
        BY <1>b, <2>b DEF OnFd, TypeOK, Connected
      <4>2. \A j \in Connected : Readable(slot_fd[j]) => Readable(slot_fd[j])'
        BY <1>b, <3>1, <3>2, <4>1 DEF Readable, SlotsAreLive, Release
      <4>. QED  BY <1>a, <1>b, <3>1, <4>2 DEF ReportHolds, Connected
    <3>. QED  BY <3>4, <3>5, <3>6, <3>7, <3>8 DEF ServerInv
  <2>. QED  BY <1>2, <2>1, <2>2
<1>. QED  BY <1>1, <1>2, <1>c

LEMMA ReceiveStep == ServerInv /\ Receive => ServerInv'
<1>. SUFFICES ASSUME ServerInv, Receive PROVE ServerInv'
  OBVIOUS
<1>. USE SizesAssumption, FdsAssumption, Marks
<1>a. /\ call = "serve" /\ running
      /\ UNCHANGED <<socket_fd, running, avahi_client, entry_group, ready, queue>>
  BY DEF Receive, server, ServerInv, Control
<1>b. TypeOK /\ NothingLeaks /\ SlotsAreLive /\ Control /\ OneConnection /\ ReportHolds
  BY DEF ServerInv
<1>c. PICK i \in Slots :
        /\ i >= next /\ connected[i]
        /\ Read(i, fdt[slot_fd[i]]) \/ Disconnect(i, fdt[slot_fd[i]])
  BY DEF Receive, Lowest, Due
<1>. DEFINE p == fdt[slot_fd[i]]
<1>d. i \in Connected /\ p \in Peers /\ slot_fd[i] \in Fds
  BY <1>b, <1>c DEF SlotsAreLive, TypeOK, Connected
<1>e. i \in Int /\ next \in Int /\ i + 1 \in 0 .. MAX_CLIENTS
  BY <1>b DEF TypeOK, Slots
<1>f. \A j \in Connected : j # i => fdt[slot_fd[j]] # p /\ slot_fd[j] # slot_fd[i]
  BY <1>b, <1>d DEF SlotsAreLive, OneConnection, TypeOK, Connected
<1>1. CASE Read(i, p)
  <2>a. /\ conn[p].inbox # <<>> /\ UNCHANGED <<slot_fd, slot_addr, connected, fdt>>
        /\ \/ call' = "send" /\ next' = i
           \/ call' = "serve" /\ next' = i + 1
        /\ \E n \in Nat :
             conn' = [conn EXCEPT ![p].inbox = SubSeq(@, n + 1, Len(@))]
    <3>1. Len(conn[p].inbox) \in Nat /\ BUFFER_SIZE \in Nat
      BY <1>b, <1>d, LenProperties DEF TypeOK, Connection
    <3>. QED  BY <1>1, <3>1 DEF Read, slots
  <2>b. conn' \in [Peers -> Connection]
    <3>1. PICK n \in Nat : conn' = [conn EXCEPT ![p].inbox = SubSeq(@, n + 1, Len(@))]
      BY <2>a
    <3>2. conn[p] \in Connection /\ conn[p].inbox \in Seq(Text)
      BY <1>b, <1>d DEF TypeOK, Connection
    <3>3. SubSeq(conn[p].inbox, n + 1, Len(conn[p].inbox)) \in Seq(Text)
      BY <3>2, LenProperties, ElementOfSeq, SubSeqProperties
    <3>4. [conn[p] EXCEPT !.inbox = SubSeq(conn[p].inbox, n + 1, Len(conn[p].inbox))] \in Connection
      BY <3>2, <3>3 DEF Connection
    <3>. QED  BY <1>b, <3>1, <3>4 DEF TypeOK
  <2>1. TypeOK'
    <3>1. next' \in 0 .. MAX_CLIENTS
      BY <1>e, <2>a DEF Slots
    <3>2. call' \in {"idle", "accept", "serve", "send", "blocked", "killed"}
      BY <2>a
    <3>. QED  BY <1>a, <1>b, <2>a, <2>b, <3>1, <3>2 DEF TypeOK
  <2>2. SlotsAreLive' /\ NothingLeaks' /\ OneConnection'
    BY <1>a, <1>b, <2>a DEF SlotsAreLive, NothingLeaks, OneConnection, Connected, InQueue, OnFd
  <2>3. Control'
    BY <1>a, <1>b, <1>c, <2>a DEF Control
  <2>4. ReportHolds'
    <3>1. \A j \in Connected : j # i /\ Readable(slot_fd[j]) => Readable(slot_fd[j])'
      BY <1>b, <1>f, <2>a DEF Readable, SlotsAreLive, TypeOK, Connected
    <3>. QED  BY <1>a, <1>b, <1>c, <1>e, <2>a, <3>1 DEF ReportHolds, Connected, Slots
  <2>. QED  BY <2>1, <2>2, <2>3, <2>4 DEF ServerInv
<1>2. CASE Disconnect(i, p)
  <2>a. /\ fdt' = [fdt EXCEPT ![slot_fd[i]] = "free"]
        /\ connected' = [connected EXCEPT ![i] = FALSE]
        /\ Release({p}) /\ next' = i + 1
        /\ UNCHANGED <<slot_fd, slot_addr, call>>
    BY <1>2 DEF Disconnect
  <2>b. conn' \in [Peers -> Connection]
    BY <1>b, <2>a, ReleaseType DEF TypeOK
  <2>c. Connected' = Connected \ {i}
    BY <1>b, <2>a DEF Connected, TypeOK
  <2>1. TypeOK'
    BY <1>a, <1>b, <1>e, <2>a, <2>b DEF TypeOK
  <2>2. SlotsAreLive'
    BY <1>b, <1>f, <2>a, <2>c DEF SlotsAreLive, TypeOK, Connected
  <2>3. NothingLeaks'
    BY <1>a, <1>b, <1>d, <2>a, <2>c DEF NothingLeaks, TypeOK
  <2>4. Control'
    BY <1>a, <1>b, <2>a DEF Control
  <2>5. OneConnection'
    BY <1>a, <1>b, <2>a DEF OneConnection, TypeOK, OnFd, InQueue
  <2>6. ReportHolds'
    <3>1. \A j \in Connected : j # i /\ Readable(slot_fd[j]) => Readable(slot_fd[j])'
      BY <1>b, <1>f, <2>a DEF Readable, SlotsAreLive, TypeOK, Connected, Release
    <3>. QED  BY <1>a, <1>b, <1>c, <1>e, <2>a, <2>c, <3>1 DEF ReportHolds, Connected, Slots
  <2>. QED  BY <2>1, <2>2, <2>3, <2>4, <2>5, <2>6 DEF ServerInv
<1>. QED  BY <1>1, <1>2, <1>c

(* A send that is over: whatever became of the reply, the pass goes on with*)
(* the next slot, and of the connection only what the reply changes moves. *)
LEMMA SentStep ==
  ASSUME ServerInv, call \in {"send", "blocked"},
         call' = "serve", next' = next + 1,
         UNCHANGED <<server, slots, fdt, queue, ready>>,
         conn' \in [Peers -> Connection],
         \A p \in Peers : /\ conn'[p].inbox = conn[p].inbox
                          /\ conn[p].end # "open" => conn'[p].end # "open"
  PROVE  ServerInv'
<1>. USE SizesAssumption, FdsAssumption, Marks DEF server, slots
<1>a. TypeOK /\ NothingLeaks /\ SlotsAreLive /\ Control /\ OneConnection /\ ReportHolds
  BY DEF ServerInv
<1>b. next \in Slots /\ next + 1 \in 0 .. MAX_CLIENTS
  BY <1>a DEF Control, Slots
<1>1. TypeOK'
  BY <1>a, <1>b DEF TypeOK
<1>2. SlotsAreLive' /\ NothingLeaks' /\ OneConnection'
  BY <1>a DEF SlotsAreLive, NothingLeaks, OneConnection, Connected, InQueue, OnFd
<1>3. Control'
  BY <1>a DEF Control
<1>4. ReportHolds'
  <2>1. \A j \in Connected : Readable(slot_fd[j]) => Readable(slot_fd[j])'
    BY <1>a DEF Readable, SlotsAreLive
  <2>. QED  BY <1>a, <1>b, <2>1 DEF ReportHolds, Connected, Slots
<1>. QED  BY <1>1, <1>2, <1>3, <1>4 DEF ServerInv

LEMMA SendStep == ServerInv /\ Send => ServerInv'
<1>. SUFFICES ASSUME ServerInv, Send PROVE ServerInv'
  OBVIOUS
<1>. USE SizesAssumption, FdsAssumption, Marks
<1>a. TypeOK /\ NothingLeaks /\ SlotsAreLive /\ Control /\ OneConnection /\ ReportHolds
  BY DEF ServerInv
<1>b. call \in {"send", "blocked"} /\ running /\ next \in Slots /\ next \in Connected
  BY <1>a DEF Send, Control, Connected
<1>. DEFINE p == fdt[slot_fd[next]]
<1>c. p \in Peers /\ conn[p] \in Connection
  BY <1>a, <1>b DEF SlotsAreLive, TypeOK
<1>1. CASE Replied(p)
  <2>1. [conn[p] EXCEPT !.outbox = @ + 1, !.owed = @ - 1] \in Connection
    <3>1. conn[p].outbox + 1 \in 0 .. SNDBUF /\ conn[p].owed - 1 \in Int
      BY <1>c, <1>1 DEF Connection, Replied
    <3>. QED  BY <1>c, <3>1 DEF Connection
  <2>2. conn' \in [Peers -> Connection]
    BY <1>a, <1>1, <2>1 DEF Replied, TypeOK
  <2>3. \A q \in Peers : conn'[q].inbox = conn[q].inbox /\ conn'[q].end = conn[q].end
    BY <1>a, <1>1, <1>c DEF Replied, TypeOK, Connection
  <2>. QED  BY <1>b, <1>1, <2>2, <2>3, SentStep DEF Replied
<1>2. CASE SendBlocks(p)
  <2>a. call' = "blocked" /\ UNCHANGED <<server, slots, kernel, next, ready>>
    BY <1>2 DEF SendBlocks
  <2>. USE <1>a, <1>b, <2>a DEF server, slots, kernel
  <2>1. TypeOK'
    BY DEF TypeOK
  <2>2. SlotsAreLive' /\ NothingLeaks' /\ OneConnection'
    BY DEF SlotsAreLive, NothingLeaks, OneConnection, Connected, InQueue, OnFd
  <2>3. Control'
    BY DEF Control, Connected
  <2>4. ReportHolds'
    BY DEF ReportHolds, Readable, Connected
  <2>. QED  BY <2>1, <2>2, <2>3, <2>4 DEF ServerInv
<1>3. CASE SendFails(p)
  <2>1. conn' \in [Peers -> Connection]
    BY <1>a, <1>3, <1>c DEF SendFails, TypeOK, Connection, PeerEnds
  <2>2. \A q \in Peers : /\ conn'[q].inbox = conn[q].inbox
                         /\ conn[q].end # "open" => conn'[q].end # "open"
    BY <1>a, <1>3, <1>c DEF SendFails, TypeOK, Connection
  <2>. QED  BY <1>b, <1>3, <2>1, <2>2, SentStep DEF SendFails
<1>4. CASE SigPipe(p)
  <2>a. /\ call' = "killed" /\ next' = 0 /\ ready' = {} /\ running' = FALSE /\ queue' = <<>>
        /\ connected' = [i \in Slots |-> FALSE]
        /\ fdt' = [fd \in Fds |-> "free"]
        /\ UNCHANGED <<slot_fd, slot_addr, socket_fd, avahi_client, entry_group>>
    BY <1>4 DEF SigPipe
  <2>b. Connected' = {}
    BY <2>a DEF Connected
  <2>1. conn' \in [Peers -> Connection] /\ queue' \in Seq(Peers)
    BY <1>a, <1>4, <2>a, ReleaseType, EmptySeq DEF SigPipe, TypeOK
  <2>2. TypeOK'
    BY <1>a, <2>a, <2>1 DEF TypeOK
  <2>3. SlotsAreLive' /\ NothingLeaks' /\ Control' /\ ReportHolds'
    BY <2>a, <2>b DEF SlotsAreLive, NothingLeaks, Control, ReportHolds
  <2>4. OneConnection'
    BY <2>a, EmptySeq DEF OneConnection, OnFd
  <2>. QED  BY <2>2, <2>3, <2>4 DEF ServerInv
<1>. QED  BY <1>1, <1>2, <1>3, <1>4 DEF Send

LEMMA ReturnStep == ServerInv /\ Return => ServerInv'
<1>. SUFFICES ASSUME ServerInv, Return PROVE ServerInv'
  OBVIOUS
<1>. USE SizesAssumption, FdsAssumption, Marks
<1>a. TypeOK /\ NothingLeaks /\ SlotsAreLive /\ Control /\ OneConnection
  BY DEF ServerInv
<1>b. call' = "idle" /\ next' = 0 /\ ready' = {} /\ UNCHANGED <<server, slots, kernel>>
  BY DEF Return
<1>. USE <1>a, <1>b DEF server, slots, kernel
<1>1. TypeOK'
  BY DEF TypeOK
<1>2. SlotsAreLive' /\ NothingLeaks' /\ OneConnection'
  BY DEF SlotsAreLive, NothingLeaks, OneConnection, Connected, InQueue, OnFd
<1>3. Control' /\ ReportHolds'
  BY DEF Control, ReportHolds
<1>. QED  BY <1>1, <1>2, <1>3 DEF ServerInv

LEMMA InterruptedStep == ServerInv /\ Interrupted => ServerInv'
<1>. SUFFICES ASSUME ServerInv, Interrupted PROVE ServerInv'
  OBVIOUS
<1>1. conn' \in [Peers -> Connection] /\ \A p \in Peers : conn'[p] = conn[p]
  BY DEF ServerInv, TypeOK, Interrupted, kernel
<1>. QED  BY <1>1, SentStep DEF Interrupted, kernel

(* A peer never takes back what made its connection readable.              *)
LEMMA ConnectionStep ==
  ASSUME ServerInv, UNCHANGED <<server, slots, pass, fdt, queue>>,
         conn' \in [Peers -> Connection],
         \A p \in Peers : conn[p].inbox # <<>> \/ conn[p].end # "open" =>
                            conn'[p].inbox # <<>> \/ conn'[p].end # "open"
  PROVE  ServerInv'
<1>a. TypeOK /\ NothingLeaks /\ SlotsAreLive /\ Control /\ OneConnection /\ ReportHolds
  BY DEF ServerInv
<1>. USE <1>a DEF server, slots, pass
<1>1. TypeOK'
  BY DEF TypeOK
<1>2. SlotsAreLive' /\ NothingLeaks' /\ OneConnection' /\ Control'
  BY DEF SlotsAreLive, NothingLeaks, OneConnection, Connected, InQueue, OnFd, Control
<1>3. ReportHolds'
  <2>1. \A j \in Connected : Readable(slot_fd[j]) => Readable(slot_fd[j])'
    BY DEF Readable, SlotsAreLive
  <2>. QED  BY <2>1 DEF ReportHolds, Connected
<1>. QED  BY <1>1, <1>2, <1>3 DEF ServerInv

LEMMA ConnectStep ==
  ASSUME ServerInv, NEW p \in Peers, Connect(p)
  PROVE  ServerInv'
<1>. USE SizesAssumption, FdsAssumption, Marks
<1>a. /\ TypeOK /\ NothingLeaks /\ SlotsAreLive /\ Control /\ OneConnection /\ ReportHolds
      /\ ~InQueue(p) /\ ~OnFd(p)
      /\ queue' = Append(queue, p)
      /\ UNCHANGED <<server, slots, pass, fdt, conn>>
  BY DEF ServerInv, Connect, Linked
<1>b. /\ queue' \in Seq(Peers) /\ queue' # <<>>
      /\ Len(queue') = Len(queue) + 1 /\ Len(queue) \in Nat
      /\ \A i \in 1 .. Len(queue) : queue'[i] = queue[i]
      /\ queue'[Len(queue) + 1] = p
  BY <1>a, AppendProperties, LenProperties DEF TypeOK
<1>1. TypeOK'
  BY <1>a, <1>b DEF TypeOK, server, slots, pass
<1>2. SlotsAreLive' /\ NothingLeaks'
  BY <1>a DEF SlotsAreLive, NothingLeaks, Connected, server, slots
<1>3. Control'
  BY <1>a, <1>b DEF Control, server, slots, pass
<1>4. OneConnection'
  <2>1. \A i, j \in 1 .. Len(queue') : queue'[i] = queue'[j] => i = j
    <3>. SUFFICES ASSUME NEW i \in 1 .. Len(queue'), NEW j \in 1 .. Len(queue'),
                         queue'[i] = queue'[j], i < j
                  PROVE  FALSE
      BY <1>b
    <3>1. i \in 1 .. Len(queue) /\ (j \in 1 .. Len(queue) \/ j = Len(queue) + 1)
      BY <1>b
    <3>. QED  BY <3>1, <1>a, <1>b DEF OneConnection, InQueue
  <2>2. \A q \in Peers : InQueue(q)' => InQueue(q) \/ q = p
    <3>. SUFFICES ASSUME NEW q \in Peers, NEW i \in 1 .. Len(queue'), queue'[i] = q
                  PROVE  InQueue(q) \/ q = p
      BY DEF InQueue
    <3>1. i \in 1 .. Len(queue) \/ i = Len(queue) + 1
      BY <1>b
    <3>. QED  BY <3>1, <1>b DEF InQueue
  <2>. QED  BY <1>a, <2>1, <2>2 DEF OneConnection, OnFd
<1>5. ReportHolds'
  <2>1. \A j \in Connected : Readable(slot_fd[j]) => Readable(slot_fd[j])'
    BY <1>a, <1>b DEF Readable, SlotsAreLive, slots
  <2>. QED  BY <1>a, <1>b, <2>1 DEF ReportHolds, Connected, slots, pass
<1>. QED  BY <1>1, <1>2, <1>3, <1>4, <1>5 DEF ServerInv

LEMMA PeerStep ==
  ASSUME ServerInv, NEW p \in Peers, Peer(p)
  PROVE  ServerInv'
<1>. USE SizesAssumption
<1>a. conn \in [Peers -> Connection] /\ conn[p] \in Connection
  BY DEF ServerInv, TypeOK
<1>1. CASE Connect(p)
  BY <1>1, ConnectStep
<1>2. CASE PeerSend(p)
  <2>1. \A t \in Text : Append(conn[p].inbox, t) \in Seq(Text) /\ Append(conn[p].inbox, t) # <<>>
    BY <1>a, AppendProperties DEF Connection
  <2>2. ASSUME NEW t \in Text, conn' = [conn EXCEPT ![p].inbox = Append(@, t)]
        PROVE  conn' \in [Peers -> Connection] /\ conn'[p].inbox # <<>>
    BY <1>a, <2>1, <2>2 DEF Connection
  <2>3. ASSUME NEW t \in Text,
               conn' = [conn EXCEPT ![p].inbox = Append(@, t), ![p].owed = @ + 1]
        PROVE  conn' \in [Peers -> Connection] /\ conn'[p].inbox # <<>>
    <3>1. conn[p].owed + 1 \in Int
      BY <1>a DEF Connection
    <3>. QED  BY <1>a, <2>1, <2>3, <3>1 DEF Connection
  <2>4. conn' \in [Peers -> Connection] /\ conn'[p].inbox # <<>>
    BY <1>2, <2>2, <2>3 DEF PeerSend, Text
  <2>5. \A q \in Peers : q # p => conn'[q] = conn[q]
    BY <1>2, <1>a DEF PeerSend
  <2>. QED  BY <1>2, <2>4, <2>5, ConnectionStep DEF PeerSend
<1>3. CASE PeerRead(p)
  <2>1. conn[p].outbox - 1 \in 0 .. SNDBUF
    BY <1>a, <1>3 DEF PeerRead, Connection
  <2>2. conn' \in [Peers -> Connection]
    BY <1>a, <1>3, <2>1 DEF PeerRead, Connection
  <2>3. \A q \in Peers : conn'[q].inbox = conn[q].inbox /\ conn'[q].end = conn[q].end
    BY <1>a, <1>3 DEF PeerRead, Connection
  <2>. QED  BY <1>3, <2>2, <2>3, ConnectionStep DEF PeerRead
<1>4. CASE PeerClose(p) \/ PeerReset(p)
  <2>1. \E e \in PeerEnds \ {"open"} : conn' = [conn EXCEPT ![p].end = e]
    BY <1>4 DEF PeerClose, PeerReset, PeerEnds
  <2>2. conn' \in [Peers -> Connection]
    BY <1>a, <2>1 DEF Connection
  <2>3. \A q \in Peers : conn'[q].inbox = conn[q].inbox /\ (conn[q].end # "open" => conn'[q].end # "open")
    BY <1>a, <2>1 DEF Connection
  <2>. QED  BY <1>4, <2>2, <2>3, ConnectionStep DEF PeerClose, PeerReset
<1>. QED  BY <1>1, <1>2, <1>3, <1>4 DEF Peer

----------------------------------------------------------------------------
LEMMA ServerInvStep == ServerInv /\ [Next]_vars => ServerInv'
<1>. SUFFICES ASSUME ServerInv, [Next]_vars PROVE ServerInv'
  OBVIOUS
<1>1. CASE Start
  BY <1>1, StartStep
<1>2. CASE Started /\ Stop
  BY <1>2, StopStep
<1>3. CASE Select
  BY <1>3, SelectStep
<1>4. CASE Accept
  BY <1>4, AcceptStep
<1>5. CASE Receive
  BY <1>5, ReceiveStep
<1>6. CASE Send
  BY <1>6, SendStep
<1>7. CASE Return
  BY <1>7, ReturnStep
<1>8. CASE Interrupted
  BY <1>8, InterruptedStep
<1>9. ASSUME NEW p \in Peers, Peer(p) PROVE ServerInv'
  BY <1>9, PeerStep
<1>10. CASE UNCHANGED vars
  <2>1. UNCHANGED <<server, slots, pass, fdt, queue>> /\ conn' = conn
    BY <1>10 DEF vars, kernel
  <2>. QED  BY <2>1, ConnectionStep DEF ServerInv, TypeOK
<1>. QED  BY <1>1, <1>2, <1>3, <1>4, <1>5, <1>6, <1>7, <1>8, <1>9, <1>10 DEF Next, Process

THEOREM ServerInvariant == Safety => []ServerInv
<1>1. Init => ServerInv
  BY ServerInit
<1>2. ServerInv /\ [Next]_vars => ServerInv'
  BY ServerInvStep
<1>. QED  BY <1>1, <1>2, PTL DEF Safety

(* The variables of the server, of its slots, of its loop and of the       *)
(* kernel keep their types.                                                *)
THEOREM TypeCorrect == Safety => []TypeOK
<1>1. ServerInv => TypeOK
  BY DEF ServerInv
<1>. QED  BY <1>1, ServerInvariant, PTL

(* Every slot in use holds an open descriptor of its own, the connection it*)
(* was filled with.                                                        *)
THEOREM SlotsStayLive == Safety => []SlotsAreLive
<1>1. ServerInv => SlotsAreLive
  BY DEF ServerInv
<1>. QED  BY <1>1, ServerInvariant, PTL

(* No client descriptor is open outside the slots, no listener outside a   *)
(* running server.                                                         *)
THEOREM NothingEverLeaks == Safety => []NothingLeaks
<1>1. ServerInv => NothingLeaks
  BY DEF ServerInv
<1>. QED  BY <1>1, ServerInvariant, PTL

----------------------------------------------------------------------------
(* Each action of the server outside Receive, when it leaves the loop in   *)
(* place, keeps every descriptor that holds a connection; Receive closes   *)
(* the one it found closed.                                                *)
LEMMA DropStep ==
  ASSUME ServerInv, [Next]_vars, call = "serve",
         NEW p \in Peers, OnFd(p), ~OnFd(p)'
  PROVE  conn[p].end # "open" /\ conn[p].inbox = <<>>
<1>. USE SizesAssumption, FdsAssumption, Marks
<1>a. TypeOK /\ SlotsAreLive /\ OneConnection /\ ReportHolds
  BY DEF ServerInv
<1>b. fdt' # fdt
  BY DEF OnFd
<1>1. Receive
  <2>1. CASE \E q \in Peers : Peer(q)
    BY <2>1, <1>b DEF Peer, Connect, PeerSend, PeerRead, PeerClose, PeerReset
  <2>2. CASE Return
    BY <2>2, <1>b DEF Return, kernel
  <2>. QED  BY <2>1, <2>2, <1>b
            DEF Next, Process, Start, Stop, Select, Accept, Send, Interrupted, vars, kernel
<1>2. PICK i \in Slots :
        /\ i >= next /\ connected[i] /\ slot_fd[i] \in ready
        /\ Read(i, fdt[slot_fd[i]]) \/ Disconnect(i, fdt[slot_fd[i]])
  BY <1>1 DEF Receive, Lowest, Due
<1>3. Disconnect(i, fdt[slot_fd[i]])
  BY <1>2, <1>b DEF Read
<1>4. fdt[slot_fd[i]] = p
  BY <1>3, <1>a DEF Disconnect, OnFd, TypeOK
<1>5. Readable(slot_fd[i])
  <2>1. i \in Int /\ next \in Int
    BY <1>a DEF TypeOK, Slots
  <2>. QED  BY <1>2, <1>a, <2>1 DEF ReportHolds, Connected
<1>. QED  BY <1>3, <1>4, <1>5 DEF Disconnect, Readable

(* No pass of the loop drops a client that is still there.                 *)
THEOREM OnlyTheGoneAreDropped == Safety => DropsOnlyTheGone
<1>1. ServerInv /\ [Next]_vars =>
        [\A p \in Peers :
           call = "serve" /\ OnFd(p) /\ ~OnFd(p)' =>
             conn[p].end # "open" /\ conn[p].inbox = <<>>]_vars
  BY DropStep
<1>. QED  BY <1>1, ServerInvariant, PTL DEF Safety, DropsOnlyTheGone

(* How many slots are in use, and that no more than all of them are.       *)
LEMMA SlotsFinite ==
  /\ IsFiniteSet(Slots) /\ Cardinality(Slots) = MAX_CLIENTS
  /\ IsFiniteSet(Connected) /\ Cardinality(Connected) \in Nat
  /\ Cardinality(Connected) <= MAX_CLIENTS
  /\ Cardinality(Connected) = MAX_CLIENTS <=> Slots \subseteq Connected
<1>1. IsFiniteSet(Slots) /\ Cardinality(Slots) = MAX_CLIENTS
  BY SizesAssumption, FS_Interval DEF Slots
<1>2. Connected \subseteq Slots
  BY DEF Connected
<1>3. /\ IsFiniteSet(Connected) /\ Cardinality(Connected) <= Cardinality(Slots)
      /\ Cardinality(Connected) = Cardinality(Slots) => Connected = Slots
  BY <1>1, <1>2, FS_Subset
<1>4. Slots \subseteq Connected => Connected = Slots
  BY <1>2
<1>. QED  BY <1>1, <1>3, <1>4, FS_CardinalityType

(* The slots in use and the connections on descriptors are equally many.   *)
LEMMA SlotsMatchServed ==
  ASSUME ServerInv
  PROVE  Cardinality(ServedPeers) = Cardinality(Connected)
<1>. DEFINE f == [i \in Connected |-> slot_addr[i]]
<1>a. TypeOK /\ SlotsAreLive /\ OneConnection /\ NothingLeaks
  BY DEF ServerInv
<1>b. \A i \in Connected : /\ slot_addr[i] \in Peers /\ fdt[slot_fd[i]] = slot_addr[i]
                           /\ slot_fd[i] \in Fds /\ i \in Slots
  BY <1>a DEF SlotsAreLive, TypeOK, Connected
<1>1. f \in [Connected -> ServedPeers]
  BY <1>b DEF OnFd, ServedPeers
<1>2. \A i, j \in Connected : f[i] = f[j] => i = j
  BY <1>a, <1>b DEF SlotsAreLive, OneConnection
<1>3. \A q \in ServedPeers : \E i \in Connected : f[i] = q
  BY <1>a, <1>b DEF OnFd, NothingLeaks, ServedPeers
<1>4. f \in Surjection(Connected, ServedPeers) /\ f \in Injection(Connected, ServedPeers)
  BY <1>1, <1>2, <1>3 DEF Surjection, Injection, IsInjective
<1>5. IsFiniteSet(Connected)
  BY SlotsFinite
<1>. QED  BY <1>4, <1>5, FS_Surjection

LEMMA RejectStep ==
  ASSUME ServerInv, [Next]_vars, call = "accept",
         NEW p \in Peers, InQueue(p), ~Linked(p)'
  PROVE  Cardinality({q \in Peers : OnFd(q)}) = MAX_CLIENTS
<1>. USE SizesAssumption, FdsAssumption, Marks
<1>a. TypeOK /\ OneConnection /\ Control
  BY DEF ServerInv
<1>b. queue' # queue
  BY DEF Linked, InQueue
<1>1. Accept
  <2>1. CASE \E q \in Peers : Peer(q)
    <3>1. PICK q \in Peers : Connect(q)
      BY <2>1, <1>b DEF Peer, PeerSend, PeerRead, PeerClose, PeerReset
    <3>2. /\ queue' = Append(queue, q) /\ Len(queue') = Len(queue) + 1 /\ Len(queue) \in Nat
          /\ \A i \in 1 .. Len(queue) : queue'[i] = queue[i]
      BY <3>1, <1>a, AppendProperties, LenProperties DEF Connect, TypeOK
    <3>3. InQueue(p)'
      BY <3>2 DEF InQueue
    <3>. QED  BY <3>3 DEF Linked
  <2>. QED  BY <2>1, <1>b
            DEF Next, Process, Start, Stop, Select, Receive, Return, Send, Interrupted, vars,
                kernel
<1>2. PICK fd \in Fds : /\ queue' = Tail(queue)
                        /\ TakeSlot(fd, Head(queue)) \/ Reject(fd, Head(queue))
  BY <1>1, <1>b DEF Accept, kernel
<1>3. /\ queue # <<>> /\ Head(queue) = queue[1]
      /\ Len(queue') = Len(queue) - 1 /\ Len(queue) \in Nat
      /\ \A i \in 1 .. Len(queue') : queue'[i] = queue[i + 1]
  BY <1>1, <1>2, <1>a, HeadTailProperties, LenProperties DEF Accept, Control, TypeOK
<1>4. p = Head(queue)
  <2>1. PICK i \in 1 .. Len(queue) : queue[i] = p
    BY DEF InQueue
  <2>2. CASE i > 1
    <3>1. i - 1 \in 1 .. Len(queue') /\ queue'[i - 1] = p
      BY <1>3, <2>1, <2>2
    <3>. QED  BY <3>1 DEF Linked, InQueue
  <2>. QED  BY <1>3, <2>1, <2>2
<1>5. ~TakeSlot(fd, p)
  <2>1. TakeSlot(fd, p) => fdt'[fd] = p
    BY <1>a DEF TakeSlot, TypeOK
  <2>. QED  BY <2>1 DEF Linked, OnFd
<1>6. Slots \subseteq Connected
  BY <1>2, <1>4, <1>5 DEF Reject
<1>. QED  BY <1>6, SlotsFinite, SlotsMatchServed DEF ServedPeers

(* A client is turned away only while MAX_CLIENTS others are connected.    *)
THEOREM OnlyAFullTableRejects == Safety => RejectsOnlyWhenFull
<1>1. ServerInv /\ [Next]_vars =>
        [\A p \in Peers :
           call = "accept" /\ InQueue(p) /\ ~Linked(p)' =>
             Cardinality({q \in Peers : OnFd(q)}) = MAX_CLIENTS]_vars
  BY RejectStep
<1>. QED  BY <1>1, ServerInvariant, PTL DEF Safety, RejectsOnlyWhenFull

----------------------------------------------------------------------------
(* Replies. A peer is owed at least as many as there are requests of its   *)
(* own unread and under way.                                               *)
RequestsAt(text) == {k \in 1 .. Len(text) : text[k] \in Methods}
Requests(text)   == Cardinality(RequestsAt(text))

(* The connection the server is about to reply to.                         *)
Served == IF call \in {"send", "blocked"} THEN {fdt[slot_fd[next]]} ELSE {}

RepliesOwed ==
  \A p \in Peers :
    conn[p].owed >= Requests(conn[p].inbox) + (IF p \in Served THEN 1 ELSE 0)

LEMMA RequestsFinite ==
  ASSUME NEW text \in Seq(Text)
  PROVE  IsFiniteSet(RequestsAt(text)) /\ Requests(text) \in Nat
<1>1. IsFiniteSet(1 .. Len(text))
  BY FS_Interval, LenProperties
<1>2. IsFiniteSet(RequestsAt(text))
  BY <1>1, FS_Subset DEF RequestsAt
<1>. QED  BY <1>2, FS_CardinalityType DEF Requests

LEMMA NoRequests == Requests(<<>>) = 0
<1>1. RequestsAt(<<>>) = {}
  BY DEF RequestsAt
<1>. QED  BY <1>1, FS_EmptySet DEF Requests

(* One more segment is one more request if it is one.                      *)
LEMMA RequestsAppend ==
  ASSUME NEW text \in Seq(Text), NEW word \in Text
  PROVE  Requests(Append(text, word)) = Requests(text) + (IF word \in Methods THEN 1 ELSE 0)
<1>. DEFINE n == Len(text)
            longer == Append(text, word)
<1>1. /\ n \in Nat /\ Len(longer) = n + 1 /\ longer[n + 1] = word
      /\ \A k \in 1 .. n : longer[k] = text[k]
  BY AppendProperties, LenProperties
<1>2. n + 1 \notin RequestsAt(text)
  BY <1>1 DEF RequestsAt
<1>3. IsFiniteSet(RequestsAt(text)) /\ Requests(text) \in Nat
  BY RequestsFinite
<1>4. CASE word \in Methods
  <2>1. RequestsAt(longer) = RequestsAt(text) \cup {n + 1}
    BY <1>1, <1>4 DEF RequestsAt
  <2>. HIDE DEF longer, n
  <2>2. Cardinality(RequestsAt(text) \cup {n + 1}) = Cardinality(RequestsAt(text)) + 1
    BY <1>2, <1>3, FS_AddElement
  <2>3. Requests(longer) = Requests(text) + 1
    BY <2>1, <2>2 DEF Requests
  <2>. QED  BY <1>4, <2>3 DEF longer
<1>5. CASE word \notin Methods
  <2>1. RequestsAt(longer) = RequestsAt(text)
    BY <1>1, <1>5 DEF RequestsAt
  <2>. QED  BY <1>3, <1>5, <2>1 DEF Requests
<1>. QED  BY <1>4, <1>5

(* Reading a request, and what comes with it, leaves at least one less.    *)
LEMMA RequestsCut ==
  ASSUME NEW text \in Seq(Text), text # <<>>, NEW n \in 1 .. Len(text)
  PROVE  /\ SubSeq(text, n + 1, Len(text)) \in Seq(Text)
         /\ Requests(SubSeq(text, n + 1, Len(text)))
              + (IF Head(text) \in Methods THEN 1 ELSE 0) <= Requests(text)
<1>. DEFINE rest  == SubSeq(text, n + 1, Len(text))
            later == RequestsAt(text) \ {1}
            shift == [k \in RequestsAt(rest) |-> n + k]
<1>1. Len(text) \in Nat /\ n \in Nat /\ \A k \in 1 .. Len(text) : text[k] \in Text
  BY LenProperties, ElementOfSeq
<1>2. /\ rest \in Seq(Text)
      /\ Len(rest) = Len(text) - n
      /\ \A k \in 1 .. Len(text) - n : rest[k] = text[n + k]
  <2>1. \A k \in n + 1 .. Len(text) : text[k] \in Text
    BY <1>1
  <2>2. /\ rest \in Seq(Text)
        /\ Len(rest) = IF n + 1 <= Len(text) THEN Len(text) - (n + 1) + 1 ELSE 0
        /\ \A k \in 1 .. Len(text) - (n + 1) + 1 : rest[k] = text[(n + 1) + k - 1]
    BY <1>1, <2>1, SubSeqProperties
  <2>. HIDE DEF rest
  <2>. QED  BY <1>1, <2>2
<1>3. shift \in Injection(RequestsAt(rest), later)
  <2>. HIDE DEF rest
  <2>1. \A k \in RequestsAt(rest) : k \in 1 .. Len(text) - n /\ n + k \in later
    BY <1>1, <1>2 DEF RequestsAt
  <2>2. \A j, k \in RequestsAt(rest) : shift[j] = shift[k] => j = k
    BY <1>1, <2>1
  <2>. QED  BY <2>1, <2>2 DEF Injection, IsInjective
<1>4. IsFiniteSet(RequestsAt(text)) /\ Cardinality(RequestsAt(text)) \in Nat
  BY RequestsFinite DEF Requests
<1>5. /\ IsFiniteSet(later)
      /\ Cardinality(later) = IF 1 \in RequestsAt(text) THEN Cardinality(RequestsAt(text)) - 1
                                                        ELSE Cardinality(RequestsAt(text))
  BY <1>4, FS_RemoveElement
<1>6. Cardinality(RequestsAt(rest)) <= Cardinality(later)
  <2>. HIDE DEF shift, later
  <2>. QED  BY <1>3, <1>5, FS_Injection
<1>7. 1 \in RequestsAt(text) <=> Head(text) \in Methods
  <2>1. Head(text) = text[1] /\ 1 \in 1 .. Len(text)
    BY <1>1, HeadTailProperties
  <2>. QED  BY <2>1 DEF RequestsAt
<1>8. Requests(rest) \in Nat
  <2>. HIDE DEF rest
  <2>. QED  BY <1>2, RequestsFinite
<1>9. Requests(rest) + (IF Head(text) \in Methods THEN 1 ELSE 0) <= Requests(text)
  <2>. HIDE DEF rest, later
  <2>. QED  BY <1>4, <1>5, <1>6, <1>7, <1>8 DEF Requests
<1>. QED  BY <1>2, <1>9

LEMMA OwedCounts ==
  ASSUME ServerInv, NEW p \in Peers
  PROVE  conn[p] \in Connection /\ Requests(conn[p].inbox) \in Nat /\ conn[p].owed \in Int
<1>1. conn[p] \in Connection /\ conn[p].inbox \in Seq(Text) /\ conn[p].owed \in Int
  BY DEF ServerInv, TypeOK, Connection
<1>. QED  BY <1>1, RequestsFinite

(* A step that reads nothing and ends connections at most.                 *)
LEMMA UnreadKeepsOwed ==
  ASSUME ServerInv, RepliesOwed,
         call' \notin {"send", "blocked"} \/ Served' = Served,
         \A p \in Peers :
           \/ conn'[p].inbox = conn[p].inbox /\ conn'[p].owed = conn[p].owed
           \/ conn'[p] = Fresh /\ call' \notin {"send", "blocked"}
  PROVE  RepliesOwed'
<1>. SUFFICES ASSUME NEW p \in Peers
              PROVE  conn'[p].owed >= Requests(conn'[p].inbox) + (IF p \in Served' THEN 1 ELSE 0)
  BY DEF RepliesOwed
<1>1. Requests(conn[p].inbox) \in Nat /\ conn[p].owed \in Int
      /\ conn[p].owed >= Requests(conn[p].inbox) + (IF p \in Served THEN 1 ELSE 0)
  BY OwedCounts DEF RepliesOwed
<1>2. p \in Served' => p \in Served
  BY DEF Served
<1>3. CASE conn'[p].inbox = conn[p].inbox /\ conn'[p].owed = conn[p].owed
  BY <1>1, <1>2, <1>3
<1>4. CASE conn'[p] = Fresh /\ call' \notin {"send", "blocked"}
  BY <1>4, NoRequests DEF Fresh, Served
<1>. QED  BY <1>3, <1>4

LEMMA ReceiveKeepsOwed ==
  ASSUME ServerInv, RepliesOwed, Receive
  PROVE  RepliesOwed'
<1>1. PICK i \in Slots : /\ Lowest(i, Due)
                         /\ Read(i, fdt[slot_fd[i]]) \/ Disconnect(i, fdt[slot_fd[i]])
  BY DEF Receive
<1>. DEFINE p == fdt[slot_fd[i]]
<1>2. p \in Peers /\ call = "serve" /\ conn \in [Peers -> Connection]
  BY <1>1 DEF Receive, Lowest, Due, ServerInv, TypeOK, SlotsAreLive, Connected
<1>3. CASE Disconnect(i, p)
  <2>1. call' = "serve" /\ \A q \in Peers : conn'[q] \in {conn[q], Fresh}
    BY <1>2, <1>3 DEF Disconnect, Release
  <2>. QED  BY <2>1, UnreadKeepsOwed
<1>4. CASE Read(i, p)
  <2>. DEFINE inbox == conn[p].inbox
              n     == IF Len(inbox) < BUFFER_SIZE THEN Len(inbox) ELSE BUFFER_SIZE
              rest  == SubSeq(inbox, n + 1, Len(inbox))
              asked == IF Head(inbox) \in Methods THEN 1 ELSE 0
  <2>1. inbox \in Seq(Text) /\ inbox # <<>> /\ conn[p].owed \in Int
    BY <1>2, <1>4 DEF Read, Connection
  <2>2. n \in 1 .. Len(inbox)
    <3>1. Len(inbox) \in Nat \ {0}
      BY <2>1, EmptySeq, LenProperties
    <3>. HIDE DEF inbox
    <3>. QED  BY <3>1, SizesAssumption
  <2>3. rest \in Seq(Text) /\ Requests(rest) + asked <= Requests(inbox)
    <3>. HIDE DEF inbox, n
    <3>. QED  BY <2>1, <2>2, RequestsCut
  <2>4. /\ conn' = [conn EXCEPT ![p].inbox = rest]
        /\ UNCHANGED <<slot_fd, fdt>>
        /\ IF Head(inbox) \in Methods THEN call' = "send" /\ next' = i ELSE call' = "serve"
    BY <1>4 DEF Read, slots, Routed, Methods
  <2>5. Requests(rest) \in Nat /\ Requests(inbox) \in Nat
    BY <2>1, <2>3, RequestsFinite
  <2>6. \A q \in Peers : q # p => conn'[q] = conn[q] /\ q \notin Served'
    BY <1>2, <2>4 DEF Served
  <2>7. conn'[p].inbox = rest /\ conn'[p].owed = conn[p].owed
    BY <1>2, <2>4 DEF Connection
  <2>8. asked \in {0, 1} /\ (p \in Served' => asked = 1)
    BY <2>4 DEF Served
  <2>9. conn'[p].owed >= Requests(conn'[p].inbox) + (IF p \in Served' THEN 1 ELSE 0)
    <3>1. conn[p].owed >= Requests(inbox)
      <4>1. conn[p].owed >= Requests(conn[p].inbox) + (IF p \in Served THEN 1 ELSE 0)
        BY <1>2 DEF RepliesOwed
      <4>. HIDE DEF p
      <4>. QED  BY <2>1, <2>5, <4>1
    <3>. HIDE DEF rest, inbox, asked, p
    <3>. QED  BY <2>1, <2>3, <2>5, <2>7, <2>8, <3>1
  <2>10. ASSUME NEW q \in Peers, q # p
         PROVE  conn'[q].owed >= Requests(conn'[q].inbox) + (IF q \in Served' THEN 1 ELSE 0)
    <3>1. conn[q].owed >= Requests(conn[q].inbox) + (IF q \in Served THEN 1 ELSE 0)
      BY DEF RepliesOwed
    <3>2. Requests(conn[q].inbox) \in Nat /\ conn[q].owed \in Int
      BY OwedCounts
    <3>3. conn'[q] = conn[q] /\ q \notin Served'
      BY <2>6, <2>10
    <3>. QED  BY <3>1, <3>2, <3>3
  <2>. QED  BY <2>9, <2>10 DEF RepliesOwed
<1>. QED  BY <1>1, <1>3, <1>4

LEMMA SendKeepsOwed ==
  ASSUME ServerInv, RepliesOwed, Send
  PROVE  RepliesOwed'
<1>. DEFINE p == fdt[slot_fd[next]]
<1>1. p \in Peers /\ Served = {p} /\ conn \in [Peers -> Connection]
  BY DEF Send, Served, ServerInv, TypeOK, Control, SlotsAreLive, Connected
<1>2. CASE Replied(p)
  <2>1. /\ conn' = [conn EXCEPT ![p].outbox = @ + 1, ![p].owed = @ - 1]
        /\ call' = "serve"
    BY <1>2 DEF Replied
  <2>. SUFFICES ASSUME NEW q \in Peers
                PROVE  conn'[q].owed >= Requests(conn'[q].inbox) + (IF q \in Served' THEN 1 ELSE 0)
    BY DEF RepliesOwed
  <2>2. q \notin Served'
    BY <2>1 DEF Served
  <2>3. /\ Requests(conn[q].inbox) \in Nat /\ conn[q].owed \in Int
        /\ conn[q].owed >= Requests(conn[q].inbox) + (IF q = p THEN 1 ELSE 0)
    BY <1>1, OwedCounts DEF RepliesOwed
  <2>4. /\ conn'[q].inbox = conn[q].inbox
        /\ conn'[q].owed = IF q = p THEN conn[q].owed - 1 ELSE conn[q].owed
    BY <1>1, <2>1 DEF Connection
  <2>. QED  BY <2>2, <2>3, <2>4
<1>3. CASE SendBlocks(p)
  BY <1>3, UnreadKeepsOwed DEF SendBlocks, slots, kernel, Served
<1>4. CASE SendFails(p)
  <2>1. \A q \in Peers : conn'[q].inbox = conn[q].inbox /\ conn'[q].owed = conn[q].owed
    BY <1>1, <1>4 DEF SendFails, Connection
  <2>. QED  BY <1>4, <2>1, UnreadKeepsOwed DEF SendFails
<1>5. CASE SigPipe(p)
  <2>1. \A q \in Peers : conn'[q] = Fresh
    BY <1>5 DEF SigPipe, Release
  <2>. QED  BY <1>5, <2>1, UnreadKeepsOwed DEF SigPipe
<1>. QED  BY <1>2, <1>3, <1>4, <1>5 DEF Send

LEMMA PeerKeepsOwed ==
  ASSUME ServerInv, RepliesOwed, NEW p \in Peers, Peer(p)
  PROVE  RepliesOwed'
<1>1. conn \in [Peers -> Connection]
  BY DEF ServerInv, TypeOK
<1>2. Served' = Served
  BY DEF Peer, Connect, PeerSend, PeerRead, PeerClose, PeerReset, slots, pass, Served
<1>3. CASE PeerSend(p)
  <2>1. PICK word \in Text : conn'[p].inbox = Append(conn[p].inbox, word)
                             /\ conn'[p].owed = conn[p].owed + (IF word \in Methods THEN 1 ELSE 0)
    <3>1. CASE \E word \in Methods :
                 conn' = [conn EXCEPT ![p].inbox = Append(@, word), ![p].owed = @ + 1]
      BY <1>1, <3>1 DEF Connection, Text
    <3>2. CASE \E word \in Noise : conn' = [conn EXCEPT ![p].inbox = Append(@, word)]
      <4>1. \A word \in Noise : word \notin Methods
        BY NoiseAssumption DEF Methods
      <4>2. conn[p].owed \in Int
        BY <1>1 DEF Connection
      <4>. QED  BY <1>1, <3>2, <4>1, <4>2 DEF Connection, Text
    <3>. QED  BY <1>3, <3>1, <3>2 DEF PeerSend
  <2>2. \A q \in Peers : q # p => conn'[q] = conn[q]
    BY <1>1, <1>3 DEF PeerSend
  <2>3. Requests(conn'[p].inbox) = Requests(conn[p].inbox) + (IF word \in Methods THEN 1 ELSE 0)
    BY <1>1, <2>1, RequestsAppend DEF Connection
  <2>. SUFFICES ASSUME NEW q \in Peers
                PROVE  conn'[q].owed >= Requests(conn'[q].inbox) + (IF q \in Served' THEN 1 ELSE 0)
    BY DEF RepliesOwed
  <2>4. /\ Requests(conn[q].inbox) \in Nat /\ conn[q].owed \in Int
        /\ conn[q].owed >= Requests(conn[q].inbox) + (IF q \in Served THEN 1 ELSE 0)
    BY OwedCounts DEF RepliesOwed
  <2>5. CASE q = p
    <3>. DEFINE asked == IF word \in Methods THEN 1 ELSE 0
    <3>1. asked \in {0, 1} /\ conn'[p].owed = conn[p].owed + asked
          /\ Requests(conn'[p].inbox) = Requests(conn[p].inbox) + asked
      BY <2>1, <2>3
    <3>. HIDE DEF asked
    <3>. QED  BY <1>2, <2>4, <2>5, <3>1
  <2>6. CASE q # p
    BY <1>2, <2>2, <2>4, <2>6
  <2>. QED  BY <2>5, <2>6
<1>4. CASE ~PeerSend(p)
  <2>1. \A q \in Peers : conn'[q].inbox = conn[q].inbox /\ conn'[q].owed = conn[q].owed
    <3>1. CASE Connect(p)
      BY <3>1 DEF Connect
    <3>2. CASE PeerRead(p)
      BY <1>1, <3>2 DEF PeerRead, Connection
    <3>3. CASE PeerClose(p) \/ PeerReset(p)
      <4>1. \E end \in PeerEnds : conn' = [conn EXCEPT ![p].end = end]
        BY <3>3 DEF PeerClose, PeerReset, PeerEnds
      <4>. QED  BY <1>1, <4>1 DEF Connection
    <3>. QED  BY <1>4, <3>1, <3>2, <3>3 DEF Peer
  <2>. QED  BY <1>2, <2>1, UnreadKeepsOwed
<1>. QED  BY <1>3, <1>4

LEMMA RepliesStep == ServerInv /\ RepliesOwed /\ [Next]_vars => RepliesOwed'
<1>. SUFFICES ASSUME ServerInv, RepliesOwed, [Next]_vars PROVE RepliesOwed'
  OBVIOUS
<1>1. CASE Start \/ Select \/ Return \/ Interrupted
  <2>1. conn' = conn /\ call' \notin {"send", "blocked"}
    BY <1>1 DEF Start, Select, Return, Interrupted, kernel, pass
  <2>. QED  BY <2>1, UnreadKeepsOwed
<1>2. CASE Stop \/ Accept
  <2>1. call' \notin {"send", "blocked"}
    BY <1>2 DEF Stop, Accept, pass
  <2>2. \A p \in Peers : conn'[p] \in {conn[p], Fresh}
    BY <1>2 DEF Stop, Accept, TakeSlot, Reject, Release, kernel
  <2>. QED  BY <2>1, <2>2, UnreadKeepsOwed
<1>3. CASE Receive
  BY <1>3, ReceiveKeepsOwed
<1>4. CASE Send
  BY <1>4, SendKeepsOwed
<1>5. ASSUME NEW p \in Peers, Peer(p) PROVE RepliesOwed'
  BY <1>5, PeerKeepsOwed
<1>6. CASE UNCHANGED vars
  BY <1>6, UnreadKeepsOwed DEF vars, slots, pass, kernel, Served
<1>. QED  BY <1>1, <1>2, <1>3, <1>4, <1>5, <1>6 DEF Next, Process

LEMMA RepliesInit == Init => RepliesOwed
<1>. SUFFICES ASSUME Init, NEW p \in Peers
              PROVE  conn[p].owed >= Requests(conn[p].inbox) + (IF p \in Served THEN 1 ELSE 0)
  BY DEF RepliesOwed
<1>. QED  BY NoRequests DEF Init, Fresh, Served

(* Replies go to the connection their request was read from, each once:    *)
(* no peer has ever more replies than it sent requests.                    *)
THEOREM RepliesAreAsked == Safety => []NoUnsolicitedReply
<1>1. ServerInv /\ RepliesOwed => NoUnsolicitedReply
  <2>. SUFFICES ASSUME ServerInv, RepliesOwed, NEW p \in Peers PROVE conn[p].owed >= 0
    BY DEF NoUnsolicitedReply
  <2>. QED  BY OwedCounts DEF RepliesOwed
<1>. QED  BY <1>1, RepliesInit, RepliesStep, ServerInvariant, PTL DEF Safety

----------------------------------------------------------------------------
(* The server implements ClientService.                                    *)
View == <<running, queue, ServedPeers, GonePeers, UnheardPeers, RepliesDue>>

(* Steps that no peer can see.                                             *)
LEMMA UnseenStep ==
  ASSUME UNCHANGED <<running, queue>>,
         \A p \in Peers : OnFd(p)' <=> OnFd(p),
         \A p \in Peers : /\ conn'[p].end # "open" <=> conn[p].end # "open"
                          /\ conn'[p].inbox # <<>> <=> conn[p].inbox # <<>>
                          /\ conn'[p].owed = conn[p].owed
  PROVE  UNCHANGED View
<1>1. ServedPeers' = ServedPeers
  BY DEF ServedPeers
<1>2. GonePeers' = GonePeers /\ UnheardPeers' = UnheardPeers
  BY DEF GonePeers, UnheardPeers
<1>3. RepliesDue' = RepliesDue
  BY DEF RepliesDue
<1>. QED  BY <1>1, <1>2, <1>3 DEF View

(* The end of some connections, as the service sees it.                    *)
LEMMA ReleaseForgets ==
  ASSUME NEW ps \in SUBSET Peers, Release(ps)
  PROVE  Service!Forget(ps)
<1>1. \A p \in Peers : conn'[p] = IF p \in ps THEN Fresh ELSE conn[p]
  BY DEF Release
<1>2. Fresh.end = "open" /\ Fresh.inbox = <<>> /\ Fresh.owed = 0
  BY DEF Fresh
<1>3. GonePeers' = GonePeers \ ps /\ UnheardPeers' = UnheardPeers \ ps
  BY <1>1, <1>2 DEF GonePeers, UnheardPeers
<1>4. RepliesDue' = [p \in Peers |-> IF p \in ps THEN 0 ELSE RepliesDue[p]]
  BY <1>1, <1>2 DEF RepliesDue
<1>. QED  BY <1>3, <1>4 DEF Service!Forget

LEMMA StartServes ==
  ASSUME ServerInv, Start
  PROVE  Service!Open \/ UNCHANGED View
<1>. USE Marks
<1>1. ~running /\ UNCHANGED <<queue, conn>>
  BY DEF Start
<1>2. CASE UNCHANGED <<running, fdt>>
  BY <1>1, <1>2, UnseenStep DEF OnFd
<1>3. ASSUME NEW fd \in Fds, fdt[fd] = "free", StartSucceeds(fd)
      PROVE  Service!Open
  <2>1. \A p \in Peers : OnFd(p)' <=> OnFd(p)
    BY <1>3 DEF StartSucceeds, OnFd, ServerInv, TypeOK
  <2>. QED  BY <1>1, <1>3, <2>1
            DEF StartSucceeds, Service!Open, ServedPeers, GonePeers, UnheardPeers, RepliesDue
<1>. QED  BY <1>2, <1>3 DEF Start, StartFails, Lowest, FreeFds

(* The connections stop ends are all there are.                            *)
LEMMA StopServes ==
  ASSUME ServerInv, ServerInv', Service!NoStrangers, Stop
  PROVE  Service!Close
<1>. USE FdsAssumption, Marks
<1>a. NothingLeaks /\ NothingLeaks' /\ SlotsAreLive /\ TypeOK /\ Control
  BY DEF ServerInv
<1>1. \A fd \in Fds : fdt[fd] = "listen" => fd \in ClosedByStop
  BY <1>a DEF NothingLeaks, ClosedByStop
<1>. DEFINE ps == {p \in Peers : (\E fd \in ClosedByStop \cap Fds : fdt[fd] = p) \/ InQueue(p)}
<1>2. queue' = <<>> /\ Release(ps)
  BY <1>1 DEF Stop
<1>3. ServedPeers' = {} /\ running' = FALSE
  <2>1. running' = FALSE /\ connected' = [i \in Slots |-> FALSE]
    BY DEF Stop
  <2>. QED  BY <1>a, <2>1 DEF NothingLeaks, Connected, ServedPeers, OnFd
<1>4. \A p \in Peers : p \notin ps => ~Linked(p)
  <2>. SUFFICES ASSUME NEW p \in Peers, OnFd(p) PROVE p \in ps
    BY DEF Linked
  <2>1. PICK fd \in Fds : fdt[fd] = p
    BY DEF OnFd
  <2>2. fd \in ClosedByStop
    BY <1>a, <2>1 DEF NothingLeaks, ClosedByStop
  <2>. QED  BY <2>1, <2>2
<1>5. Service!Forget(Peers)
  <2>1. \A p \in Peers : conn'[p] = IF p \in ps THEN Fresh ELSE conn[p]
    BY <1>2 DEF Release
  <2>2. \A p \in Peers : p \notin ps =>
          conn[p].end = "open" /\ conn[p].inbox = <<>> /\ conn[p].owed = 0
    <3>. SUFFICES ASSUME NEW p \in Peers, p \notin ps
         PROVE  conn[p].end = "open" /\ conn[p].inbox = <<>> /\ conn[p].owed = 0
      OBVIOUS
    <3>1. ~Service!Present(p)
      BY <1>4 DEF Linked, InQueue, Service!Present, Service!Waits, ServedPeers
    <3>. QED  BY <3>1 DEF Service!NoStrangers, GonePeers, UnheardPeers, RepliesDue
  <2>3. Fresh.end = "open" /\ Fresh.inbox = <<>> /\ Fresh.owed = 0
    BY DEF Fresh
  <2>4. \A p \in Peers : conn'[p].end = "open" /\ conn'[p].inbox = <<>> /\ conn'[p].owed = 0
    <3>. HIDE DEF ps
    <3>. QED  BY <2>1, <2>2, <2>3
  <2>. QED  BY <2>4 DEF Service!Forget, GonePeers, UnheardPeers, RepliesDue
<1>. QED  BY <1>2, <1>3, <1>5 DEF Service!Close

(* The same operator, seen through the instance.                           *)
LEMMA ServiceCounts ==
  ASSUME NEW S
  PROVE  Service!Cardinality(S) = Cardinality(S)
BY DEF Service!Cardinality, Cardinality

LEMMA AcceptServes ==
  ASSUME ServerInv, Accept
  PROVE  Service!Admit \/ Service!TurnAway \/ UNCHANGED View
<1>. USE SizesAssumption, FdsAssumption, Marks
<1>a. TypeOK /\ Control /\ UNCHANGED running
  BY DEF ServerInv, Accept, server
<1>1. CASE UNCHANGED kernel
  BY <1>1, <1>a, UnseenStep DEF kernel, OnFd
<1>c. queue # <<>> /\ Head(queue) \in Peers
  BY <1>a, HeadTailProperties DEF Accept, Control, TypeOK
<1>2. ASSUME NEW fd \in Fds, fdt[fd] = "free", queue' = Tail(queue), TakeSlot(fd, Head(queue))
      PROVE  Service!Admit
  <2>1. PICK i \in Slots : i \notin Connected
    BY <1>2 DEF TakeSlot, Lowest
  <2>2. Cardinality(ServedPeers) < MAX_CLIENTS
    <3>1. Cardinality(Connected) < MAX_CLIENTS
      BY <2>1, SlotsFinite
    <3>. QED  BY <3>1, SlotsMatchServed
  <2>3. fdt' = [fdt EXCEPT ![fd] = Head(queue)] /\ UNCHANGED conn
    BY <1>2 DEF TakeSlot
  <2>4. \A p \in Peers : OnFd(p)' <=> OnFd(p) \/ p = Head(queue)
    BY <1>2, <1>a, <2>3 DEF OnFd, TypeOK
  <2>5. ServedPeers' = ServedPeers \cup {Head(queue)}
    BY <1>c, <2>4 DEF ServedPeers
  <2>. QED  BY <1>2, <1>a, <1>c, <2>2, <2>3, <2>5, ServiceCounts
            DEF Service!Admit, GonePeers, UnheardPeers, RepliesDue
<1>3. ASSUME NEW fd \in Fds, fdt[fd] = "free", queue' = Tail(queue), Reject(fd, Head(queue))
      PROVE  Service!TurnAway
  <2>1. Slots \subseteq Connected
    BY <1>3 DEF Reject
  <2>2. Cardinality(ServedPeers) = MAX_CLIENTS
    BY <2>1, SlotsFinite, SlotsMatchServed
  <2>3. ~\E i \in Slots : slot_fd[i] = fd
    BY <1>3, <2>1 DEF ServerInv, SlotsAreLive
  <2>4. Release({Head(queue)}) /\ UNCHANGED fdt
    BY <1>3, <2>3 DEF Reject
  <2>5. Service!Forget({Head(queue)}) /\ ServedPeers' = ServedPeers
    BY <1>c, <2>4, ReleaseForgets DEF ServedPeers, OnFd
  <2>. QED  BY <1>3, <1>a, <1>c, <2>2, <2>5, ServiceCounts DEF Service!TurnAway
<1>. QED  BY <1>1, <1>2, <1>3 DEF Accept, Lowest, FreeFds

LEMMA ReceiveServes ==
  ASSUME ServerInv, Receive
  PROVE  (\E p \in Peers : Service!Hear(p) \/ Service!Release(p)) \/ UNCHANGED View
<1>. USE SizesAssumption, FdsAssumption, Marks
<1>a. TypeOK /\ SlotsAreLive /\ OneConnection /\ ReportHolds
  BY DEF ServerInv
<1>b. UNCHANGED <<running, queue>>
  BY DEF Receive, server
<1>1. PICK i \in Slots : /\ i >= next /\ connected[i] /\ slot_fd[i] \in ready
                         /\ Read(i, fdt[slot_fd[i]]) \/ Disconnect(i, fdt[slot_fd[i]])
  BY DEF Receive, Lowest, Due
<1>. DEFINE p == fdt[slot_fd[i]]
<1>c. p \in Peers /\ slot_fd[i] \in Fds /\ p \in ServedPeers
  BY <1>1, <1>a DEF SlotsAreLive, Connected, TypeOK, ServedPeers, OnFd
<1>2. CASE Read(i, p)
  <2>1. /\ conn[p].inbox # <<>> /\ UNCHANGED fdt
        /\ \E rest : conn' = [conn EXCEPT ![p].inbox = rest]
    BY <1>2 DEF Read
  <2>2. \A q \in Peers : /\ conn'[q].end = conn[q].end /\ conn'[q].owed = conn[q].owed
                         /\ q # p => conn'[q].inbox = conn[q].inbox
    BY <1>a, <1>c, <2>1 DEF TypeOK, Connection
  <2>3. UNCHANGED <<ServedPeers, GonePeers, RepliesDue>>
    BY <2>1, <2>2 DEF ServedPeers, OnFd, GonePeers, RepliesDue
  <2>4. CASE conn'[p].inbox # <<>>
    <3>1. UnheardPeers' = UnheardPeers
      BY <1>c, <2>1, <2>2, <2>4 DEF UnheardPeers
    <3>. QED  BY <1>b, <2>3, <3>1 DEF View
  <2>5. CASE conn'[p].inbox = <<>>
    <3>1. p \in UnheardPeers /\ UnheardPeers' = UnheardPeers \ {p}
      BY <1>c, <2>1, <2>2, <2>5 DEF UnheardPeers
    <3>. QED  BY <1>b, <1>c, <2>3, <3>1 DEF Service!Hear
  <2>. QED  BY <2>4, <2>5
<1>3. CASE Disconnect(i, p)
  <2>1. /\ conn[p].inbox = <<>> /\ Release({p})
        /\ fdt' = [fdt EXCEPT ![slot_fd[i]] = "free"]
    BY <1>3 DEF Disconnect
  <2>2. p \in GonePeers /\ p \notin UnheardPeers
    <3>1. i \in Int /\ next \in Int
      BY <1>a DEF TypeOK, Slots
    <3>2. Readable(slot_fd[i]) /\ fdt[slot_fd[i]] # "listen"
      BY <1>1, <1>a, <1>c, <3>1 DEF ReportHolds, Connected, Receive
    <3>. QED  BY <1>c, <2>1, <3>2 DEF Readable, GonePeers, UnheardPeers
  <2>3. ServedPeers' = ServedPeers \ {p}
    <3>1. \A fd \in Fds : fdt'[fd] = IF fd = slot_fd[i] THEN "free" ELSE fdt[fd]
      BY <1>a, <1>c, <2>1 DEF TypeOK
    <3>2. \A fd \in Fds : fdt[fd] = p => fd = slot_fd[i]
      BY <1>a, <1>c DEF OneConnection
    <3>3. \A q \in Peers : OnFd(q)' <=> OnFd(q) /\ q # p
      BY <1>c, <3>1, <3>2 DEF OnFd
    <3>. QED  BY <3>3 DEF ServedPeers
  <2>4. Service!Forget({p})
    BY <1>c, <2>1, ReleaseForgets
  <2>. QED  BY <1>b, <1>c, <2>2, <2>3, <2>4 DEF Service!Release
<1>. QED  BY <1>1, <1>2, <1>3

LEMMA SendServes ==
  ASSUME ServerInv, RepliesOwed, Send
  PROVE  (\E p \in Peers : Service!Answer(p)) \/ Service!Close \/ UNCHANGED View
<1>. USE Marks
<1>. DEFINE p == fdt[slot_fd[next]]
<1>a. p \in Peers /\ Served = {p} /\ conn \in [Peers -> Connection]
  BY DEF Send, Served, ServerInv, TypeOK, Control, SlotsAreLive, Connected
<1>b. p \in ServedPeers
  BY <1>a DEF Send, ServerInv, TypeOK, Control, ServedPeers, OnFd
<1>1. CASE Replied(p)
  <2>1. /\ conn' = [conn EXCEPT ![p].outbox = @ + 1, ![p].owed = @ - 1]
        /\ UNCHANGED <<fdt, queue, running>>
    BY <1>1 DEF Replied, server
  <2>2. \A q \in Peers : /\ conn'[q].end = conn[q].end /\ conn'[q].inbox = conn[q].inbox
                         /\ conn'[q].owed = IF q = p THEN conn[q].owed - 1 ELSE conn[q].owed
    BY <1>a, <2>1 DEF Connection
  <2>3. UNCHANGED <<ServedPeers, GonePeers, UnheardPeers>>
    BY <2>1, <2>2 DEF ServedPeers, OnFd, GonePeers, UnheardPeers
  <2>4. RepliesDue' = [RepliesDue EXCEPT ![p] = @ - 1]
    BY <1>a, <2>2 DEF RepliesDue
  <2>5. RepliesDue[p] > 0
    <3>1. conn[p].owed >= Requests(conn[p].inbox) + 1
      BY <1>a DEF RepliesOwed
    <3>2. Requests(conn[p].inbox) \in Nat /\ conn[p].owed \in Int
      BY <1>a, OwedCounts
    <3>. QED  BY <1>a, <3>1, <3>2 DEF RepliesDue
  <2>. QED  BY <1>a, <1>b, <2>1, <2>3, <2>4, <2>5 DEF Service!Answer
<1>2. CASE SendBlocks(p)
  BY <1>2, UnseenStep DEF SendBlocks, server, kernel, OnFd
<1>3. CASE SendFails(p)
  <2>1. \A q \in Peers : /\ conn'[q].end # "open" <=> conn[q].end # "open"
                         /\ conn'[q].inbox = conn[q].inbox /\ conn'[q].owed = conn[q].owed
    BY <1>a, <1>3 DEF SendFails, Connection
  <2>. QED  BY <1>3, <2>1, UnseenStep DEF SendFails, server, OnFd
<1>4. CASE SigPipe(p)
  <2>1. Service!Forget(Peers) /\ queue' = <<>> /\ running' = FALSE
    BY <1>4, ReleaseForgets DEF SigPipe
  <2>2. ServedPeers' = {}
    BY <1>4 DEF SigPipe, ServedPeers, OnFd
  <2>. QED  BY <2>1, <2>2 DEF Service!Close
<1>. QED  BY <1>1, <1>2, <1>3, <1>4 DEF Send

LEMMA PeerServes ==
  ASSUME ServerInv, NEW p \in Peers, Peer(p)
  PROVE  \/ Service!Arrive(p) \/ Service!Leave(p)
         \/ \E requests \in {0, 1} : Service!Say(p, requests)
         \/ UNCHANGED View
<1>a. TypeOK /\ conn \in [Peers -> Connection] /\ NothingLeaks
  BY DEF ServerInv, TypeOK
<1>b. UNCHANGED <<running, fdt, ServedPeers>>
  BY DEF Peer, Connect, PeerSend, PeerRead, PeerClose, PeerReset, server, ServedPeers, OnFd
<1>c. Service!Present(p) <=> Linked(p)
  BY DEF Service!Present, Service!Waits, Linked, InQueue, ServedPeers
<1>1. CASE Connect(p)
  <2>1. running
    BY <1>a, <1>1 DEF Connect, Listening, NothingLeaks
  <2>. QED  BY <1>1, <1>b, <1>c, <2>1
            DEF Connect, Service!Arrive, GonePeers, UnheardPeers, RepliesDue
<1>2. CASE PeerSend(p)
  <2>1. PICK word \in Text, n \in {0, 1} : /\ conn'[p].inbox = Append(conn[p].inbox, word)
                                           /\ conn'[p].owed = conn[p].owed + n
                                           /\ conn'[p].end = conn[p].end
    <3>1. CASE \E word \in Methods :
                 conn' = [conn EXCEPT ![p].inbox = Append(@, word), ![p].owed = @ + 1]
      BY <1>a, <3>1 DEF Connection, Text
    <3>2. CASE \E word \in Noise : conn' = [conn EXCEPT ![p].inbox = Append(@, word)]
      <4>1. conn[p].owed + 0 = conn[p].owed
        BY <1>a DEF Connection
      <4>. QED  BY <1>a, <3>2, <4>1 DEF Connection, Text
    <3>. QED  BY <1>2, <3>1, <3>2 DEF PeerSend
  <2>2. \A q \in Peers : q # p => conn'[q] = conn[q]
    BY <1>a, <1>2 DEF PeerSend
  <2>3. conn'[p].inbox # <<>>
    <3>1. conn[p].inbox \in Seq(Text)
      BY <1>a DEF Connection
    <3>. QED  BY <2>1, <3>1, AppendProperties
  <2>4. UnheardPeers' = UnheardPeers \cup {p} /\ GonePeers' = GonePeers
    BY <2>1, <2>2, <2>3 DEF UnheardPeers, GonePeers
  <2>5. RepliesDue' = [RepliesDue EXCEPT ![p] = @ + n]
    BY <2>1, <2>2 DEF RepliesDue
  <2>6. p \notin GonePeers /\ Linked(p) /\ queue' = queue
    BY <1>2 DEF PeerSend, GonePeers
  <2>. QED  BY <1>b, <1>c, <2>4, <2>5, <2>6 DEF Service!Say
<1>3. CASE PeerRead(p)
  <2>1. \A q \in Peers : /\ conn'[q].end = conn[q].end /\ conn'[q].inbox = conn[q].inbox
                         /\ conn'[q].owed = conn[q].owed
    BY <1>a, <1>3 DEF PeerRead, Connection
  <2>. QED  BY <1>3, <1>b, <2>1, UnseenStep DEF PeerRead, OnFd
<1>4. CASE PeerClose(p) \/ PeerReset(p)
  <2>1. PICK end \in {"fin", "rst", "pipe"} : conn' = [conn EXCEPT ![p].end = end]
    BY <1>4 DEF PeerClose, PeerReset
  <2>2. \A q \in Peers : /\ conn'[q].end = IF q = p THEN end ELSE conn[q].end
                         /\ conn'[q].inbox = conn[q].inbox /\ conn'[q].owed = conn[q].owed
    BY <1>a, <2>1 DEF Connection
  <2>3. CASE conn[p].end = "open"
    <3>1. p \notin GonePeers /\ GonePeers' = GonePeers \cup {p}
      BY <2>2, <2>3 DEF GonePeers
    <3>2. UnheardPeers' = UnheardPeers /\ RepliesDue' = RepliesDue
      BY <2>2 DEF UnheardPeers, RepliesDue
    <3>3. Linked(p) /\ queue' = queue
      BY <1>4 DEF PeerClose, PeerReset
    <3>. QED  BY <1>b, <1>c, <3>1, <3>2, <3>3 DEF Service!Leave
  <2>4. CASE conn[p].end # "open"
    <3>1. queue' = queue
      BY <1>4 DEF PeerClose, PeerReset
    <3>. QED  BY <1>b, <2>2, <2>4, <3>1, UnseenStep DEF OnFd
  <2>. QED  BY <2>3, <2>4
<1>. QED  BY <1>1, <1>2, <1>3, <1>4 DEF Peer

(* Every step of the server is one the service may take, or unseen.        *)
LEMMA ServerServes ==
  ASSUME ServerInv, ServerInv', RepliesOwed, Service!NoStrangers, [Next]_vars
  PROVE  Service!ServiceNext \/ UNCHANGED View
<1>1. CASE Start
  BY <1>1, StartServes DEF Service!ServiceNext
<1>2. CASE Stop
  BY <1>2, StopServes DEF Service!ServiceNext
<1>3. CASE Select \/ Return \/ Interrupted
  BY <1>3, UnseenStep DEF Select, Return, Interrupted, server, kernel, OnFd
<1>4. CASE Accept
  BY <1>4, AcceptServes DEF Service!ServiceNext
<1>5. CASE Receive
  BY <1>5, ReceiveServes DEF Service!ServiceNext
<1>6. CASE Send
  BY <1>6, SendServes DEF Service!ServiceNext
<1>7. ASSUME NEW p \in Peers, Peer(p) PROVE Service!ServiceNext \/ UNCHANGED View
  BY <1>7, PeerServes DEF Service!ServiceNext
<1>8. CASE UNCHANGED vars
  BY <1>8, UnseenStep DEF vars, server, kernel, OnFd
<1>. QED  BY <1>1, <1>2, <1>3, <1>4, <1>5, <1>6, <1>7, <1>8 DEF Next, Process

(* The service keeps nothing of those it let go: when the server closes    *)
(* all it holds, that is all the service remembers.                        *)
LEMMA StrangersStep ==
  ASSUME ServerInv, ServerInv', Service!NoStrangers, Service!ServiceNext \/ UNCHANGED View
  PROVE  Service!NoStrangers'
<1>. SUFFICES ASSUME NEW p \in Peers, ~Service!Present(p)'
              PROVE  p \notin GonePeers' /\ p \notin UnheardPeers' /\ RepliesDue'[p] = 0
  BY DEF Service!NoStrangers
<1>a. /\ queue \in Seq(Peers) /\ RepliesDue \in [Peers -> Int]
      /\ \A q \in Peers : ~Service!Present(q) =>
           q \notin GonePeers /\ q \notin UnheardPeers /\ RepliesDue[q] = 0
  BY DEF ServerInv, TypeOK, Connection, RepliesDue, Service!NoStrangers
<1>b. /\ \A i \in 1 .. Len(queue') : queue'[i] # p
      /\ p \notin ServedPeers'
  BY DEF Service!Present, Service!Waits
<1>c. Service!Present(p) <=> (\E i \in 1 .. Len(queue) : queue[i] = p) \/ p \in ServedPeers
  BY DEF Service!Present, Service!Waits
<1>1. CASE UNCHANGED View \/ Service!Open
  BY <1>1, <1>a, <1>b, <1>c DEF View, Service!Open
<1>2. CASE Service!Close
  BY <1>2 DEF Service!Close, Service!Forget
<1>3. CASE Service!Admit \/ Service!TurnAway
  <2>1. queue # <<>> /\ queue' = Tail(queue)
    BY <1>3 DEF Service!Admit, Service!TurnAway
  <2>2. \A i \in 1 .. Len(queue) : queue[i] = p => p = Head(queue)
    <3>. SUFFICES ASSUME NEW i \in 1 .. Len(queue), queue[i] = p, i # 1 PROVE FALSE
      BY <1>a
    <3>1. Len(queue') = Len(queue) - 1 /\ Len(queue) \in Nat
          /\ \A j \in 1 .. Len(queue') : queue'[j] = queue[j + 1]
      BY <1>a, <2>1, HeadTailProperties
    <3>2. i - 1 \in 1 .. Len(queue') /\ queue'[i - 1] = queue[i]
      BY <3>1
    <3>. QED  BY <1>b, <3>2
  <2>3. CASE p = Head(queue)
    <3>1. Service!Forget({p})
      BY <1>3, <1>b, <2>3 DEF Service!Admit, Service!TurnAway
    <3>. QED  BY <3>1 DEF Service!Forget
  <2>4. CASE p # Head(queue)
    <3>1. ~Service!Present(p)
      BY <1>3, <1>b, <1>c, <2>2, <2>4 DEF Service!Admit, Service!TurnAway
    <3>. QED  BY <1>3, <1>a, <2>4, <3>1 DEF Service!Admit, Service!TurnAway, Service!Forget
  <2>. QED  BY <2>3, <2>4
<1>4. ASSUME NEW q \in Peers, Service!Arrive(q)
      PROVE  p \notin GonePeers' /\ p \notin UnheardPeers' /\ RepliesDue'[p] = 0
  <2>1. queue' = Append(queue, q) /\ UNCHANGED <<ServedPeers, GonePeers, UnheardPeers, RepliesDue>>
    BY <1>4 DEF Service!Arrive
  <2>2. \A i \in 1 .. Len(queue) : i \in 1 .. Len(queue') /\ queue'[i] = queue[i]
    BY <1>a, <2>1, AppendProperties
  <2>. QED  BY <1>a, <1>b, <1>c, <2>1, <2>2
<1>5. ASSUME NEW q \in Peers,
             \/ Service!Leave(q) \/ Service!Hear(q) \/ Service!Answer(q)
             \/ \E requests \in {0, 1} : Service!Say(q, requests)
      PROVE  p \notin GonePeers' /\ p \notin UnheardPeers' /\ RepliesDue'[p] = 0
  <2>1. UNCHANGED <<queue, ServedPeers>> /\ Service!Present(q)
    BY <1>5 DEF Service!Leave, Service!Hear, Service!Answer, Service!Say, Service!Present
  <2>2. ~Service!Present(p) /\ p # q
    BY <1>b, <1>c, <2>1
  <2>. QED  BY <1>5, <1>a, <2>2
            DEF Service!Leave, Service!Hear, Service!Answer, Service!Say
<1>6. ASSUME NEW q \in Peers, Service!Release(q)
      PROVE  p \notin GonePeers' /\ p \notin UnheardPeers' /\ RepliesDue'[p] = 0
  <2>1. UNCHANGED queue /\ ServedPeers' = ServedPeers \ {q} /\ Service!Forget({q})
    BY <1>6 DEF Service!Release
  <2>2. CASE p = q
    BY <2>1, <2>2 DEF Service!Forget
  <2>3. CASE p # q
    <3>1. ~Service!Present(p)
      BY <1>b, <1>c, <2>1, <2>3
    <3>. QED  BY <1>a, <2>1, <2>3, <3>1 DEF Service!Forget
  <2>. QED  BY <2>2, <2>3
<1>. QED  BY <1>1, <1>2, <1>3, <1>4, <1>5, <1>6 DEF Service!ServiceNext

LEMMA ServiceStarts == Init => Service!ServiceInit /\ Service!NoStrangers
<1>. SUFFICES ASSUME Init PROVE Service!ServiceInit /\ Service!NoStrangers
  OBVIOUS
<1>1. \A p \in Peers : conn[p] = Fresh /\ ~OnFd(p)
  BY Marks DEF Init, OnFd
<1>2. ServedPeers = {} /\ GonePeers = {} /\ UnheardPeers = {} /\ RepliesDue = [p \in Peers |-> 0]
  BY <1>1 DEF ServedPeers, GonePeers, UnheardPeers, RepliesDue, Fresh
<1>. QED  BY <1>2 DEF Init, Service!ServiceInit, Service!NoStrangers

(* For every number of peers, slots and descriptors, the server is the     *)
(* service of ClientService: a client is let in in its turn, turned away   *)
(* only from a full table, answered only what it asked, and let go only    *)
(* when it has gone and all it said was read.                              *)
THEOREM ServerImplementsService == Safety => ImplementsService
<1>1. ServerInv /\ ServerInv' /\ RepliesOwed /\ Service!NoStrangers /\ [Next]_vars
        => Service!NoStrangers'
  BY ServerServes, StrangersStep
<1>2. ServerInv /\ ServerInv' /\ RepliesOwed /\ Service!NoStrangers /\ [Next]_vars
        => [Service!ServiceNext]_(Service!service)
  BY ServerServes DEF Service!service, View
<1>. QED  BY <1>1, <1>2, RepliesInit, RepliesStep, ServiceStarts, ServerInvariant, PTL
          DEF Safety, ImplementsService, Service!ServiceSpec

----------------------------------------------------------------------------
(* A pass: every step of it leaves fewer.                                  *)
LEMMA PassLeftType == ServerInv => PassLeft \in Int
<1>. SUFFICES ASSUME ServerInv PROVE PassLeft \in Int
  OBVIOUS
<1>1. next \in 0 .. MAX_CLIENTS /\ MAX_CLIENTS \in Nat
  BY SizesAssumption DEF ServerInv, TypeOK
<1>. QED  BY <1>1 DEF PassLeft

LEMMA PassShortens ==
  ASSUME ServerInv, call # "idle", Process \/ Interrupted
  PROVE  PassLeft \in Nat /\ PassLeft' \in Nat /\ PassLeft' < PassLeft
<1>. USE SizesAssumption
<1>a. next \in 0 .. MAX_CLIENTS /\ (call \in {"send", "blocked"} => next \in 0 .. MAX_CLIENTS - 1)
  BY DEF ServerInv, TypeOK, Control, Slots
<1>1. CASE Accept
  BY <1>1, <1>a DEF Accept, PassLeft
<1>2. CASE Receive
  <2>1. PICK i \in Slots : i >= next /\ \/ call' = "send" /\ next' = i
                                        \/ call' = "serve" /\ next' = i + 1
    BY <1>2 DEF Receive, Lowest, Due, Read, Disconnect
  <2>2. i \in 0 .. MAX_CLIENTS - 1 /\ call = "serve"
    BY <1>2 DEF Receive, Slots
  <2>. QED  BY <1>a, <2>1, <2>2 DEF PassLeft
<1>3. CASE Return
  BY <1>3, <1>a DEF Return, PassLeft
<1>4. CASE Send
  <2>1. \/ call' = "serve" /\ next' = next + 1
        \/ call = "send" /\ call' = "blocked" /\ next' = next
        \/ call' = "killed"
    BY <1>4 DEF Send, Replied, SendBlocks, SendFails, SigPipe
  <2>. QED  BY <1>4, <1>a, <2>1 DEF Send, PassLeft
<1>5. CASE Interrupted
  BY <1>5, <1>a DEF Interrupted, PassLeft
<1>. QED  BY <1>1, <1>2, <1>3, <1>4, <1>5 DEF Process, Select

(* A pass of the loop takes at most 3 * MAX_CLIENTS + 2 steps, whatever    *)
(* the peers and signals do: only the wait of a send() can keep it from    *)
(* its end.                                                                *)
THEOREM PassesAreBounded == Safety => PassesShorten
<1>1. ServerInv /\ [Next]_vars =>
        [call # "idle" =>
           PassLeft' <= PassLeft /\ (Process \/ Interrupted => PassLeft' < PassLeft)]_vars
  <2>. SUFFICES ASSUME ServerInv, Next, call # "idle"
                PROVE  PassLeft' <= PassLeft /\ (Process \/ Interrupted => PassLeft' < PassLeft)
    OBVIOUS
  <2>1. CASE Process \/ Interrupted
    BY <2>1, PassShortens
  <2>2. CASE ~(Process \/ Interrupted)
    <3>1. UNCHANGED <<call, next>>
      BY <2>2 DEF Next, Start, Stop, Peer, Connect, PeerSend, PeerRead, PeerClose, PeerReset, pass
    <3>2. PassLeft' = PassLeft
      BY <3>1 DEF PassLeft
    <3>. QED  BY <2>2, <3>2, PassLeftType
  <2>. QED  BY <2>1, <2>2
<1>. QED  BY <1>1, ServerInvariant, PTL DEF Safety, PassesShorten

----------------------------------------------------------------------------
(* A step of the loop that does not end the process closes the descriptor  *)
(* of the client it serves, or none.                                       *)
LEMMA LossStep ==
  ASSUME ServerInv, Receive \/ Send, call' # "killed"
  PROVE  \E fd \in Fds : /\ fdt[fd] \in Peers
                         /\ \A other \in Fds : other # fd => fdt'[other] = fdt[other]
<1>a. TypeOK /\ SlotsAreLive /\ Control
  BY DEF ServerInv
<1>1. CASE Receive
  <2>1. PICK i \in Connected : Read(i, fdt[slot_fd[i]]) \/ Disconnect(i, fdt[slot_fd[i]])
    BY <1>1 DEF Receive, Lowest, Due, Connected
  <2>2. slot_fd[i] \in Fds /\ fdt[slot_fd[i]] \in Peers
    BY <1>a DEF SlotsAreLive, TypeOK, Connected
  <2>3. \A other \in Fds : other # slot_fd[i] => fdt'[other] = fdt[other]
    BY <1>a, <2>1 DEF Read, Disconnect, TypeOK
  <2>. QED  BY <2>2, <2>3
<1>2. CASE Send
  <2>1. UNCHANGED fdt
    BY <1>2 DEF Send, Replied, SendBlocks, SendFails, SigPipe, kernel
  <2>2. slot_fd[next] \in Fds /\ fdt[slot_fd[next]] \in Peers
    BY <1>2, <1>a DEF Send, Control, SlotsAreLive, TypeOK, Connected
  <2>. QED  BY <2>1, <2>2
<1>. QED  BY <1>1, <1>2

(* The loss of a client stays local as long as no SIGPIPE ends the process:*)
(* a step of the loop closes at most the client it serves, and never the   *)
(* listener.  What violates LossStaysLocal is always a SIGPIPE.            *)
THEOREM OnlySigPipeSpreads ==
  Safety =>
    [][(call \in {"serve", "send", "blocked"}) /\ call' # "killed" =>
         /\ Cardinality({p \in Peers : OnFd(p) /\ ~OnFd(p)'}) <= 1
         /\ Listening => Listening']_vars
<1>1. ASSUME ServerInv, Next, call \in {"serve", "send", "blocked"}, call' # "killed"
      PROVE  /\ Cardinality({p \in Peers : OnFd(p) /\ ~OnFd(p)'}) <= 1
             /\ Listening => Listening'
  <2>. DEFINE Lost == {p \in Peers : OnFd(p) /\ ~OnFd(p)'}
  <2>1. PICK client : /\ Lost \subseteq {client}
                      /\ Listening => Listening'
    <3>1. CASE Receive \/ Send
      <4>1. PICK fd \in Fds : /\ fdt[fd] \in Peers
                              /\ \A other \in Fds : other # fd => fdt'[other] = fdt[other]
        BY <1>1, <3>1, LossStep
      <4>2. Lost \subseteq {fdt[fd]}
        BY <4>1 DEF OnFd
      <4>3. Listening => Listening'
        BY <4>1, Marks DEF Listening
      <4>. QED  BY <4>2, <4>3
    <3>2. CASE ~(Receive \/ Send)
      <4>1. UNCHANGED fdt
        BY <1>1, <3>2 DEF Next, Process, Start, Stop, Select, Accept, Return, Interrupted, Peer,
                          Connect, PeerSend, PeerRead, PeerClose, PeerReset, kernel
      <4>2. Lost \subseteq {0} /\ (Listening => Listening')
        BY <4>1 DEF OnFd, Listening
      <4>. QED  BY <4>2
    <3>. QED  BY <3>1, <3>2
  <2>2. IsFiniteSet({client}) /\ Cardinality({client}) = 1
    BY FS_Singleton
  <2>3. Cardinality(Lost) <= 1
    BY <2>1, <2>2, FS_Subset
  <2>. QED  BY <2>1, <2>3
<1>2. ServerInv /\ [Next]_vars =>
        [(call \in {"serve", "send", "blocked"}) /\ call' # "killed" =>
           /\ Cardinality({p \in Peers : OnFd(p) /\ ~OnFd(p)'}) <= 1
           /\ Listening => Listening']_vars
  BY <1>1
<1>. QED  BY <1>2, ServerInvariant, PTL DEF Safety

=============================================================================
