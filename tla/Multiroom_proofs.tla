-------------------------- MODULE Multiroom_proofs --------------------------
(***************************************************************************)
(* Proofs that the tables of Multiroom agree with the kernel and keep      *)
(* their shape, for any number of threads, names, entries and descriptors. *)
(* The two properties need each other: AddRoom writes a socket over what   *)
(* the entry held, and only because unused entries are blank none is lost. *)
(***************************************************************************)
EXTENDS Multiroom, TLAPS

TablesInv == TypeOK /\ SocketLedger /\ UnusedAreBlank

(* No descriptor number is the -1 that stands for no socket.               *)
LEMMA Numbers == \A fd \in Fds : fd >= 0 /\ fd # -1
BY FdsAssumption

(* An entry has a socket exactly if its number is not -1.                  *)
LEMMA Opened ==
  ASSUME TypeOK
  PROVE  \A i \in Entries : /\ i \in OpenRooms <=> room_sockets[i] # -1
                            /\ i \in OpenRooms => room_sockets[i] \in Fds
BY Numbers DEF TypeOK, OpenRooms

LEMMA TablesInit == Init => TablesInv
<1>. SUFFICES ASSUME Init PROVE TablesInv
  OBVIOUS
<1>. USE SizeAssumption DEF Init
<1>1. OpenRooms = {} /\ Used = {}
  BY DEF OpenRooms, Used
<1>2. TypeOK
  <2>1. config \in [enabled : BOOLEAN, port : Ports]
    OBVIOUS
  <2>2. room_count \in 0 .. MAX_ROOMS
    OBVIOUS
  <2>3. /\ rooms \in [Entries -> Names \cup {NoName}]
        /\ room_sockets \in [Entries -> Fds \cup {-1}]
        /\ room_addresses \in [Entries -> Ports \cup {NoPort}]
        /\ fdt \in [Fds -> {"free", "room"} \cup Ports]
    OBVIOUS
  <2>4. /\ pc \in [Threads -> {"idle", "list", "listed", "sync", "cleanup"}]
        /\ copied \in [Threads -> 0 .. MAX_ROOMS]
        /\ returned \in [Threads -> 0 .. MAX_ROOMS]
    OBVIOUS
  <2>. QED  BY <2>1, <2>2, <2>3, <2>4 DEF TypeOK
<1>3. SocketLedger
  BY <1>1 DEF SocketLedger
<1>4. UnusedAreBlank
  BY <1>1 DEF UnusedAreBlank
<1>. QED  BY <1>2, <1>3, <1>4 DEF TablesInv

(* Steps that leave the tables and their sockets alone: the calls that     *)
(* configure, list and send.                                               *)
LEMMA QuietStep ==
  ASSUME TablesInv, TypeOK', UNCHANGED <<table, fdt>>
  PROVE  TablesInv'
<1>1. SocketLedger'
  BY DEF TablesInv, SocketLedger, OpenRooms, table
<1>2. UnusedAreBlank'
  BY DEF TablesInv, UnusedAreBlank, Used, table
<1>. QED  BY <1>1, <1>2 DEF TablesInv

LEMMA SetConfigStep ==
  ASSUME TablesInv, NEW t \in Threads, SetConfig(t) PROVE TablesInv'
<1>1. TypeOK'
  BY DEF SetConfig, TablesInv, TypeOK, table, calls
<1>2. UNCHANGED <<table, fdt>>
  BY DEF SetConfig
<1>. QED  BY <1>1, <1>2, QuietStep

LEMMA ListStep ==
  ASSUME TablesInv, NEW t \in Threads, CopyList(t) \/ ReturnCount(t) \/ ListUsed(t)
  PROVE  TablesInv'
<1>. USE SizeAssumption
<1>1. CASE CopyList(t)
  BY <1>1, QuietStep DEF CopyList, TablesInv, TypeOK, table, settings
<1>2. CASE ReturnCount(t)
  BY <1>2, QuietStep DEF ReturnCount, TablesInv, TypeOK, table, settings
<1>3. CASE ListUsed(t)
  <2>1. 0 \in 0 .. MAX_ROOMS
    OBVIOUS
  <2>. QED  BY <1>3, <2>1, QuietStep DEF ListUsed, TablesInv, TypeOK, table, settings
<1>. QED  BY <1>1, <1>2, <1>3

LEMMA SyncStep ==
  ASSUME TablesInv, NEW t \in Threads, SyncCheck(t) \/ SyncSend(t)
  PROVE  TablesInv'
<1>1. CASE SyncCheck(t)
  BY <1>1, QuietStep DEF SyncCheck, TablesInv, TypeOK, table, settings
<1>2. CASE SyncSend(t)
  BY <1>2, QuietStep DEF SyncSend, TablesInv, TypeOK, table, settings
<1>. QED  BY <1>1, <1>2

(* The component's own socket is bound to a port, and so is no room's.     *)
LEMMA StartStep ==
  ASSUME TablesInv, NEW t \in Threads, Start(t) PROVE TablesInv'
<1>. PICK fd \in Fds : /\ Lowest(fd, FreeFds)
                       /\ fdt' = [fdt EXCEPT ![fd] = config.port]
  BY DEF Start
<1>1. fdt[fd] = "free" /\ config.port \in Ports /\ config.port # "room"
  BY PortsAssumption DEF Lowest, FreeFds, TablesInv, TypeOK
<1>2. TypeOK'
  BY <1>1 DEF Start, TablesInv, TypeOK, settings, table, calls
<1>3. SocketLedger'
  BY <1>1 DEF Start, TablesInv, TypeOK, SocketLedger, OpenRooms, table
<1>4. UnusedAreBlank'
  BY DEF Start, TablesInv, UnusedAreBlank, Used, table
<1>. QED  BY <1>2, <1>3, <1>4 DEF TablesInv

(* After CloseRooms no table entry and no descriptor is a room's.          *)
LEMMA CloseRoomsLedger ==
  ASSUME TypeOK, SocketLedger, CloseRooms
  PROVE  /\ SocketLedger'
         /\ fdt' \in [Fds -> {"free", "room"} \cup Ports]
         /\ room_sockets' \in [Entries -> Fds \cup {-1}]
<1>1. OpenRooms' = {}
  BY DEF CloseRooms, OpenRooms
<1>2. \A fd \in Fds : fdt'[fd] # "room"
  BY DEF CloseRooms, SocketLedger
<1>. QED  BY <1>1, <1>2 DEF CloseRooms, SocketLedger, TypeOK

LEMMA StopStep ==
  ASSUME TablesInv, NEW t \in Threads, Stop(t) PROVE TablesInv'
<1>1. /\ SocketLedger'
      /\ fdt' \in [Fds -> {"free", "room"} \cup Ports]
      /\ room_sockets' \in [Entries -> Fds \cup {-1}]
  BY CloseRoomsLedger DEF Stop, TablesInv
<1>2. TypeOK'
  BY <1>1 DEF Stop, TablesInv, TypeOK, settings, calls
<1>3. UnusedAreBlank'
  BY DEF Stop, CloseRooms, TablesInv, UnusedAreBlank, Used
<1>. QED  BY <1>1, <1>2, <1>3 DEF TablesInv

LEMMA CleanupStep ==
  ASSUME TablesInv, NEW t \in Threads, Cleanup(t) PROVE TablesInv'
<1>1. CASE is_running
  BY <1>1, QuietStep DEF Cleanup, TablesInv, TypeOK, settings, table
<1>2. CASE ~is_running
  <2>1. /\ SocketLedger'
        /\ fdt' \in [Fds -> {"free", "room"} \cup Ports]
        /\ room_sockets' \in [Entries -> Fds \cup {-1}]
    BY <1>2, CloseRoomsLedger DEF Cleanup, TablesInv
  <2>2. TypeOK'
    BY <1>2, <2>1 DEF Cleanup, TablesInv, TypeOK, settings
  <2>3. UnusedAreBlank'
    BY <1>2 DEF Cleanup, CloseRooms, TablesInv, UnusedAreBlank, Used
  <2>. QED  BY <2>1, <2>2, <2>3 DEF TablesInv
<1>. QED  BY <1>1, <1>2

(* The new room takes the first unused entry, which is blank: no socket is *)
(* overwritten.                                                            *)
LEMMA AddRoomStep ==
  ASSUME TablesInv, NEW t \in Threads, NEW name \in Names, NEW port \in Ports,
         AddRoom(t, name, port)
  PROVE  TablesInv'
<1>. USE SizeAssumption
<1>a. /\ room_count \in 0 .. MAX_ROOMS - 1 /\ room_count' = room_count + 1
      /\ rooms' = [rooms EXCEPT ![room_count] = Stored[name]]
      /\ Stored[name] \in Names
  BY StoredAssumption DEF AddRoom, TablesInv, TypeOK
<1>b. /\ room_count \in Entries /\ room_count \notin Used
      /\ \A i \in Entries \ Used' : i \in Entries \ Used /\ i # room_count
  BY <1>a DEF Entries, Used
<1>c. room_sockets[room_count] = -1
  BY <1>b DEF TablesInv, UnusedAreBlank
<1>d. room_count' \in 0 .. MAX_ROOMS /\ rooms' \in [Entries -> Names \cup {NoName}]
  <2>1. room_count' \in 0 .. MAX_ROOMS
    BY <1>a
  <2>2. rooms \in [Entries -> Names \cup {NoName}] /\ Stored[name] \in Names \cup {NoName}
    BY <1>a DEF TablesInv, TypeOK
  <2>3. rooms' \in [Entries -> Names \cup {NoName}]
    BY <1>a, <2>2
  <2>. QED  BY <2>1, <2>3
<1>1. CASE UNCHANGED <<room_sockets, room_addresses, fdt>>
  <2>1. TypeOK'
    BY <1>1, <1>d DEF AddRoom, TablesInv, TypeOK, settings, calls
  <2>2. SocketLedger'
    BY <1>1 DEF TablesInv, SocketLedger, OpenRooms
  <2>3. UnusedAreBlank'
    BY <1>1, <1>a, <1>b DEF TablesInv, TypeOK, UnusedAreBlank
  <2>. QED  BY <2>1, <2>2, <2>3 DEF TablesInv
<1>2. ASSUME NEW fd \in Fds, fdt[fd] = "free",
             room_sockets' = [room_sockets EXCEPT ![room_count] = fd],
             room_addresses' = [room_addresses EXCEPT ![room_count] = port],
             fdt' = [fdt EXCEPT ![fd] = "room"]
      PROVE  TablesInv'
  <2>1. TypeOK'
    <3>1. /\ room_sockets' \in [Entries -> Fds \cup {-1}]
          /\ room_addresses' \in [Entries -> Ports \cup {NoPort}]
          /\ fdt' \in [Fds -> {"free", "room"} \cup Ports]
      BY <1>2 DEF TablesInv, TypeOK
    <3>. QED  BY <3>1, <1>d DEF AddRoom, TablesInv, TypeOK, settings, calls
  <2>2. SocketLedger'
    <3>1. OpenRooms' = OpenRooms \cup {room_count} /\ room_count \notin OpenRooms
      BY <1>2, <1>b, <1>c, Numbers DEF TablesInv, TypeOK, OpenRooms
    <3>2. \A i \in OpenRooms : room_sockets'[i] = room_sockets[i] /\ room_sockets[i] # fd
      BY <1>2, <3>1 DEF TablesInv, TypeOK, SocketLedger, OpenRooms
    <3>3. room_sockets'[room_count] = fd
      BY <1>2, <1>b DEF TablesInv, TypeOK
    <3>4. \A g \in Fds : fdt'[g] = IF g = fd THEN "room" ELSE fdt[g]
      BY <1>2 DEF TablesInv, TypeOK
    <3>. QED  BY <3>1, <3>2, <3>3, <3>4 DEF TablesInv, SocketLedger
  <2>3. UnusedAreBlank'
    BY <1>2, <1>a, <1>b DEF TablesInv, TypeOK, UnusedAreBlank
  <2>. QED  BY <2>1, <2>2, <2>3 DEF TablesInv
<1>. QED  BY <1>1, <1>2 DEF AddRoom, Lowest, FreeFds

(* What Shifted does to a table: below i nothing, from i on one down, and  *)
(* the last used entry is cleared.                                         *)
LEMMA ShiftedEntries ==
  ASSUME TypeOK, NEW f, NEW none, NEW i \in Used
  PROVE  \A j \in Entries :
           /\ j < i => Shifted(f, i, none)[j] = f[j]
           /\ i <= j /\ j < room_count - 1 => Shifted(f, i, none)[j] = f[j + 1]
           /\ j = room_count - 1 => Shifted(f, i, none)[j] = none
           /\ j > room_count - 1 => Shifted(f, i, none)[j] = f[j]
BY SizeAssumption DEF Shifted, Entries, Used, TypeOK

LEMMA ShiftedType ==
  ASSUME TypeOK, NEW S, NEW f \in [Entries -> S], NEW none \in S, NEW i \in Used
  PROVE  Shifted(f, i, none) \in [Entries -> S]
BY SizeAssumption DEF Shifted, Entries, Used, TypeOK

(* A removal: the sockets left are those of the other rooms, moved.        *)
LEMMA RemoveRoomStep ==
  ASSUME TablesInv, NEW t \in Threads, NEW name \in Names, RemoveRoom(t, name)
  PROVE  TablesInv'
<1>. USE SizeAssumption
<1>. PICK i \in Entries :
       /\ Lowest(i, Found(name))
       /\ fdt' = [fd \in Fds |-> IF fd = room_sockets[i] THEN "free" ELSE fdt[fd]]
       /\ rooms' = Shifted(rooms, i, NoName)
       /\ room_sockets' = Shifted(room_sockets, i, -1)
       /\ room_addresses' = Shifted(room_addresses, i, NoPort)
  BY DEF RemoveRoom
<1>a. i \in Used /\ room_count' = room_count - 1 /\ room_count \in 1 .. MAX_ROOMS
  BY DEF RemoveRoom, Lowest, Found, Used, TablesInv, TypeOK
<1>b. TypeOK /\ SocketLedger /\ UnusedAreBlank
  BY DEF TablesInv
<1>1. TypeOK'
  <2>1. rooms' \in [Entries -> Names \cup {NoName}]
    BY <1>a, <1>b, ShiftedType DEF TypeOK
  <2>2. room_sockets' \in [Entries -> Fds \cup {-1}]
    BY <1>a, <1>b, ShiftedType DEF TypeOK
  <2>3. room_addresses' \in [Entries -> Ports \cup {NoPort}]
    BY <1>a, <1>b, ShiftedType DEF TypeOK
  <2>. QED  BY <1>a, <1>b, <2>1, <2>2, <2>3 DEF RemoveRoom, TypeOK, settings, calls
<1>. DEFINE Old(j) == IF j < i THEN j ELSE j + 1
<1>2. \A j \in Entries :
        /\ j < room_count - 1 => room_sockets'[j] = room_sockets[Old(j)]
        /\ j >= room_count - 1 => room_sockets'[j] = -1
  <2>1. SUFFICES ASSUME NEW j \in Entries
        PROVE  /\ j < room_count - 1 => room_sockets'[j] = room_sockets[Old(j)]
               /\ j >= room_count - 1 => room_sockets'[j] = -1
    OBVIOUS
  <2>2. j > room_count - 1 => room_sockets[j] = -1
    BY <1>a, <1>b DEF UnusedAreBlank, Used, Entries
  <2>. QED  BY <1>a, <1>b, <2>2, ShiftedEntries DEF Used, Entries
<1>3. \A j \in Entries : j < room_count - 1 => Old(j) \in Entries /\ Old(j) # i
  BY <1>a DEF Entries, Used
<1>4. \A k \in OpenRooms : k # i => \E j \in Entries : j < room_count - 1 /\ Old(j) = k
  <2>. SUFFICES ASSUME NEW k \in OpenRooms, k # i
       PROVE  \E j \in Entries : j < room_count - 1 /\ Old(j) = k
    OBVIOUS
  <2>1. k \in Used
    BY <1>b, Opened DEF UnusedAreBlank, OpenRooms
  <2>2. CASE k < i
    BY <1>a, <2>1, <2>2 DEF Used, Entries
  <2>3. CASE k > i
    <3>1. k - 1 \in Entries /\ k - 1 < room_count - 1 /\ Old(k - 1) = k
      BY <1>a, <2>1, <2>3 DEF Used, Entries
    <3>. QED  BY <3>1
  <2>. QED  BY <2>1, <2>2, <2>3, <1>a DEF Used
<1>5. SocketLedger'
  <2>1. \A j \in OpenRooms' : /\ j \in Entries /\ j < room_count - 1 /\ Old(j) \in OpenRooms
                              /\ Old(j) # i /\ room_sockets'[j] = room_sockets[Old(j)]
    BY <1>2, <1>3, <1>a, <1>b DEF OpenRooms, Entries
  <2>2. ASSUME NEW j \in OpenRooms', NEW k \in OpenRooms', room_sockets'[j] = room_sockets'[k]
        PROVE  j = k
    <3>1. Old(j) = Old(k)
      BY <2>1, <2>2, <1>b DEF SocketLedger
    <3>. QED  BY <3>1, <2>1, <1>a DEF Entries, Used
  <2>3. ASSUME NEW fd \in Fds
        PROVE  fdt'[fd] = "room" <=> \E j \in OpenRooms' : room_sockets'[j] = fd
    <3>1. CASE fd = room_sockets[i]
      <4>1. \A j \in OpenRooms' : room_sockets'[j] # fd
        BY <2>1, <3>1, <1>a, <1>b, Numbers DEF SocketLedger, OpenRooms
      <4>. QED  BY <3>1, <4>1
    <3>2. CASE fd # room_sockets[i]
      <4>1. fdt'[fd] = fdt[fd]
        BY <3>2
      <4>2. ASSUME fdt[fd] = "room"
            PROVE  \E j \in OpenRooms' : room_sockets'[j] = fd
        <5>1. PICK k \in OpenRooms : room_sockets[k] = fd
          BY <4>2, <1>b DEF SocketLedger
        <5>2. PICK j \in Entries : j < room_count - 1 /\ Old(j) = k
          BY <5>1, <3>2, <1>4
        <5>3. room_sockets'[j] = fd
          BY <5>1, <5>2, <1>2
        <5>. QED  BY <5>3, Numbers DEF OpenRooms
      <4>3. ASSUME NEW j \in OpenRooms', room_sockets'[j] = fd
            PROVE  fdt[fd] = "room"
        BY <4>3, <2>1, <1>b DEF SocketLedger
      <4>. QED  BY <4>1, <4>2, <4>3
    <3>. QED  BY <3>1, <3>2
  <2>. QED  BY <2>2, <2>3 DEF SocketLedger
<1>6. UnusedAreBlank'
  <2>. SUFFICES ASSUME NEW j \in Entries, j \notin Used'
       PROVE  rooms'[j] = NoName /\ room_sockets'[j] = -1 /\ room_addresses'[j] = NoPort
    BY DEF UnusedAreBlank
  <2>1. j >= room_count - 1
    BY <1>a DEF Used, Entries
  <2>2. j > room_count - 1 => rooms[j] = NoName /\ room_addresses[j] = NoPort
    BY <1>a, <1>b DEF UnusedAreBlank, Used, Entries
  <2>. QED  BY <1>a, <1>b, <1>2, <2>1, <2>2, ShiftedEntries DEF Entries
<1>. QED  BY <1>1, <1>5, <1>6 DEF TablesInv

----------------------------------------------------------------------------
LEMMA TablesStep == TablesInv /\ [Next]_vars => TablesInv'
<1>. SUFFICES ASSUME TablesInv, [Next]_vars PROVE TablesInv'
  OBVIOUS
<1>1. CASE UNCHANGED vars
  BY <1>1, QuietStep DEF vars, TablesInv, TypeOK, settings, table, calls
<1>2. ASSUME NEW t \in Threads, Call(t) PROVE TablesInv'
  BY <1>2, SetConfigStep, StartStep, StopStep, CleanupStep, AddRoomStep, RemoveRoomStep,
     ListStep, SyncStep DEF Call
<1>3. ASSUME NEW t \in Threads, Continue(t) PROVE TablesInv'
  BY <1>3, ListStep, SyncStep DEF Continue
<1>. QED  BY <1>1, <1>2, <1>3 DEF Next

(* The tables and the kernel agree in every state any number of threads    *)
(* can bring them into.                                                    *)
THEOREM TablesInvariant == Safety => []TablesInv
<1>1. Init => TablesInv
  BY TablesInit
<1>2. TablesInv /\ [Next]_vars => TablesInv'
  BY TablesStep
<1>. QED  BY <1>1, <1>2, PTL DEF Safety

(* Every variable keeps its type; no call runs past the room tables.       *)
THEOREM RoomTypes == Safety => []TypeOK
<1>1. TablesInv => TypeOK
  BY DEF TablesInv
<1>. QED  BY <1>1, TablesInvariant, PTL

(* No room socket is closed twice, lost or shared.                         *)
THEOREM LedgerBalances == Safety => []SocketLedger
<1>1. TablesInv => SocketLedger
  BY DEF TablesInv
<1>. QED  BY <1>1, TablesInvariant, PTL

(* Nothing of a removed room is left in the tables.                        *)
THEOREM UnusedStayBlank == Safety => []UnusedAreBlank
<1>1. TablesInv => UnusedAreBlank
  BY DEF TablesInv
<1>. QED  BY <1>1, TablesInvariant, PTL

----------------------------------------------------------------------------
NamesInv == WholeNamesOnce /\ \A i \in Used : rooms[i] \in Names

(* A name is added only when no used entry holds it.                       *)
LEMMA AddKeepsNames ==
  ASSUME TypeOK, NamesInv, NEW t \in Threads, NEW name \in Names, NEW port \in Ports,
         AddRoom(t, name, port)
  PROVE  NamesInv'
<1>. USE SizeAssumption
<1>1. /\ room_count \in 0 .. MAX_ROOMS - 1 /\ Used' = Used \cup {room_count}
      /\ room_count \in Entries /\ Used \subseteq Entries /\ room_count \notin Used
  BY DEF AddRoom, TypeOK, Used, Entries
<1>2. \A i \in Entries : rooms'[i] = IF i = room_count THEN Stored[name] ELSE rooms[i]
  BY <1>1 DEF AddRoom, TypeOK
<1>3. \A i \in Used : rooms[i] # name
  BY DEF AddRoom, Found
<1>4. Stored[name] \in Names /\ (Stored[name] \in WholeNames => Stored[name] = name)
  BY StoredAssumption DEF WholeNames
<1>. QED  BY <1>1, <1>2, <1>3, <1>4 DEF NamesInv, WholeNamesOnce

LEMMA RemoveKeepsNames ==
  ASSUME TypeOK, NamesInv, NEW t \in Threads, NEW name \in Names, RemoveRoom(t, name)
  PROVE  NamesInv'
<1>. USE SizeAssumption
<1>1. PICK i \in Used : rooms' = Shifted(rooms, i, NoName)
  BY DEF RemoveRoom, Lowest, Found
<1>2. room_count \in 1 .. MAX_ROOMS /\ room_count' = room_count - 1
  BY <1>1 DEF RemoveRoom, TypeOK, Used
<1>. DEFINE Old(j) == IF j < i THEN j ELSE j + 1
<1>3. \A j \in Used' : Old(j) \in Used /\ rooms'[j] = rooms[Old(j)]
  BY <1>1, <1>2, ShiftedEntries DEF Used, Entries
<1>4. \A j, k \in Used' : Old(j) = Old(k) => j = k
  BY <1>1, <1>2 DEF Used
<1>. HIDE DEF Old
<1>. QED  BY <1>3, <1>4 DEF NamesInv, WholeNamesOnce

LEMMA NamesStep == TypeOK /\ NamesInv /\ [Next]_vars => NamesInv'
<1>. SUFFICES ASSUME TypeOK, NamesInv, [Next]_vars PROVE NamesInv'
  OBVIOUS
<1>1. CASE UNCHANGED <<room_count, rooms>>
  BY <1>1 DEF NamesInv, WholeNamesOnce, Used
<1>2. ASSUME NEW t \in Threads,
             SetConfig(t) \/ Start(t) \/ Stop(t) \/ Cleanup(t) \/ CopyList(t) \/ SyncCheck(t)
      PROVE  UNCHANGED <<room_count, rooms>>
  BY <1>2 DEF SetConfig, Start, Stop, Cleanup, CopyList, SyncCheck, table
<1>3. ASSUME NEW t \in Threads, Continue(t) PROVE UNCHANGED <<room_count, rooms>>
  BY <1>3 DEF Continue, ReturnCount, ListUsed, SyncSend, table
<1>. QED  BY <1>1, <1>2, <1>3, AddKeepsNames, RemoveKeepsNames DEF Next, Call, vars, table

LEMMA NamesInvariant == Safety => []NamesInv
<1>1. Init => NamesInv
  BY DEF Init, NamesInv, WholeNamesOnce, Used
<1>. QED  BY <1>1, NamesStep, RoomTypes, PTL DEF Safety

(* A room whose name fits is in the tables once, however many threads add  *)
(* and remove rooms.                                                       *)
THEOREM NoRoomTwice == Safety => []WholeNamesOnce
<1>1. NamesInv => WholeNamesOnce
  BY DEF NamesInv
<1>. QED  BY <1>1, NamesInvariant, PTL

(* So no two rooms are the same as long as every name fits: a name that is *)
(* cut is the only way to have a room twice.                               *)
THEOREM WholeNamesDiffer ==
  ASSUME \A name \in Names : Stored[name] = name
  PROVE  Safety => []RoomsDiffer
<1>1. NamesInv => RoomsDiffer
  BY DEF NamesInv, WholeNamesOnce, WholeNames, RoomsDiffer
<1>. QED  BY <1>1, NamesInvariant, PTL

----------------------------------------------------------------------------
(* One caller alone gets what it is told: where the list is not whole, a   *)
(* second thread has come between the copy and the count.                  *)
THEOREM OneCallerGetsAll ==
  ASSUME \A t, u \in Threads : t = u
  PROVE  Safety => []ListIsWhole
<1>. DEFINE Counted == \A t \in Threads :
              /\ pc[t] = "list" => copied[t] = room_count
              /\ pc[t] = "listed" => returned[t] = copied[t]
<1>1. Init => Counted
  BY DEF Init
<1>2. TypeOK /\ Counted /\ [Next]_vars => Counted'
  <2>. SUFFICES ASSUME TypeOK, Counted, [Next]_vars PROVE Counted'
    OBVIOUS
  <2>1. CASE UNCHANGED vars
    BY <2>1 DEF vars, calls, table
  <2>2. ASSUME NEW t \in Threads, Call(t) PROVE Counted'
    <3>1. pc[t] = "idle"
      BY <2>2 DEF Call, SetConfig, Start, Stop, Cleanup, AddRoom, RemoveRoom, CopyList,
                  SyncCheck, Enter
    <3>2. pc'[t] \in {"idle", "sync", "cleanup"} \/ (pc'[t] = "list" /\ copied'[t] = room_count')
      BY <2>2, <3>1 DEF TypeOK, Call, SetConfig, Start, Stop, Cleanup, AddRoom, RemoveRoom,
                        CopyList, SyncCheck, calls, table
    <3>. QED  BY <3>2
  <2>3. ASSUME NEW t \in Threads, Continue(t) PROVE Counted'
    BY <2>3 DEF TypeOK, Continue, ReturnCount, ListUsed, SyncSend, table
  <2>. QED  BY <2>1, <2>2, <2>3 DEF Next
<1>3. Counted => ListIsWhole
  BY DEF ListIsWhole
<1>. QED  BY <1>1, <1>2, <1>3, RoomTypes, PTL DEF Safety

(* The port a start has bound is never given back: the only sockets that   *)
(* are ever closed are those of rooms.                                     *)
THEOREM PortsStayBound == Safety => [][BoundPorts \subseteq BoundPorts']_vars
<1>1. ASSUME TablesInv, [Next]_vars, NEW fd \in Fds, fdt[fd] \in Ports
      PROVE  fdt'[fd] = fdt[fd]
  <2>. USE PortsAssumption
  <2>1. \A i \in OpenRooms : room_sockets[i] # fd
    BY <1>1 DEF TablesInv, SocketLedger
  <2>2. \A i \in Entries : room_sockets[i] # fd
    BY <1>1, <2>1, Opened, Numbers DEF TablesInv
  <2>3. ASSUME NEW t \in Threads, Call(t) PROVE fdt'[fd] = fdt[fd]
    <3>1. CASE SetConfig(t) \/ CopyList(t) \/ SyncCheck(t)
      BY <3>1 DEF SetConfig, CopyList, SyncCheck
    <3>2. CASE Start(t)
      BY <1>1, <3>2 DEF Start, Lowest, FreeFds, TablesInv, TypeOK
    <3>3. CASE Stop(t) \/ Cleanup(t)
      BY <2>1, <3>3 DEF Stop, Cleanup, CloseRooms
    <3>4. ASSUME NEW name \in Names, RemoveRoom(t, name) PROVE fdt'[fd] = fdt[fd]
      BY <2>2, <3>4 DEF RemoveRoom
    <3>5. ASSUME NEW name \in Names, NEW port \in Ports, AddRoom(t, name, port)
          PROVE  fdt'[fd] = fdt[fd]
      BY <1>1, <3>5 DEF AddRoom, Lowest, FreeFds, TablesInv, TypeOK
    <3>. QED  BY <2>3, <3>1, <3>2, <3>3, <3>4, <3>5 DEF Call
  <2>4. ASSUME NEW t \in Threads, Continue(t) PROVE fdt'[fd] = fdt[fd]
    BY <2>4 DEF Continue, ReturnCount, ListUsed, SyncSend
  <2>. QED  BY <1>1, <2>3, <2>4 DEF Next, vars
<1>2. TablesInv /\ [Next]_vars => [BoundPorts \subseteq BoundPorts']_vars
  <2>. SUFFICES ASSUME TablesInv, [Next]_vars, NEW port \in BoundPorts PROVE port \in BoundPorts'
    OBVIOUS
  <2>1. PICK fd \in Fds : fdt[fd] = port /\ port \in Ports
    BY DEF BoundPorts
  <2>2. fdt'[fd] = port
    BY <1>1, <2>1
  <2>. QED  BY <2>1, <2>2 DEF BoundPorts
<1>. QED  BY <1>2, TablesInvariant, PTL DEF Safety

=============================================================================
