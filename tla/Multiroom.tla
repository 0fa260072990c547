----------------------------- MODULE Multiroom -----------------------------
(***************************************************************************)
(* The multiroom component of src/src/multiroom.c, after multiroom_init,   *)
(* used by several threads.  A call that works under multiroom_mutex from  *)
(* its first line to its last is one step; multiroom_sync_audio and        *)
(* multiroom_get_room_list also look at the state without the mutex, and   *)
(* are cut there.  Callbacks are not registered by anything in the         *)
(* repository and are left out, as are the settings that no other          *)
(* operation reads: the group, the room's own name and the sync delay.     *)
(***************************************************************************)
EXTENDS Integers, FiniteSets

CONSTANTS
  Threads,     \* callers
  NoThread,    \* the owner of a free mutex
  Names,       \* names of rooms, as callers give them
  NoName,      \* the empty name of an unused entry
  Stored,      \* Stored[n]: the MAX_ROOM_NAME_LEN - 1 characters kept of n
  Ports,       \* UDP ports, of rooms and of the component
  NoPort,      \* the zeroed address of an entry without socket
  MAX_ROOMS,   \* entries of the room tables
  Fds          \* descriptor numbers left to the component (RLIMIT_NOFILE)

ASSUME SizeAssumption == MAX_ROOMS \in Nat \ {0}
ASSUME StoredAssumption == Stored \in [Names -> Names]
ASSUME FdsAssumption == Fds \subseteq Nat
ASSUME PortsAssumption ==
  Ports # {} /\ NoPort \notin Ports /\ Ports \cap {"free", "room"} = {}
ASSUME ThreadsAssumption == NoThread \notin Threads

VARIABLES
  config,          \* [enabled, port]
  is_enabled,
  is_running,
  room_count,
  rooms,           \* the stored name of each entry
  room_sockets,    \* its socket, or -1
  room_addresses,  \* the port in its address
  mutex,           \* the owner of multiroom_mutex
  pc,              \* which call each thread is in
  copied,          \* names multiroom_get_room_list copied for the thread
  returned,        \* the count it returned
  fdt              \* kernel: "free", "room", or the port a socket is bound to

settings == <<config, is_enabled>>
table    == <<room_count, rooms, room_sockets, room_addresses>>
calls    == <<pc, copied, returned>>
vars     == <<settings, is_running, table, mutex, calls, fdt>>

Entries == 0 .. MAX_ROOMS - 1
Used    == 0 .. room_count - 1

OpenRooms == {i \in Entries : room_sockets[i] >= 0}

Lowest(x, S) == x \in S /\ \A y \in S : x <= y

FreeFds    == {fd \in Fds : fdt[fd] = "free"}
BoundPorts == {port \in Ports : \E fd \in Fds : fdt[fd] = port}

(* multiroom_init, and the initial values of is_running and is_enabled.    *)
Init ==
  /\ config \in [enabled : {FALSE}, port : Ports]
  /\ is_enabled = FALSE
  /\ is_running = FALSE
  /\ room_count = 0
  /\ rooms = [i \in Entries |-> NoName]
  /\ room_sockets = [i \in Entries |-> -1]
  /\ room_addresses = [i \in Entries |-> NoPort]
  /\ mutex = NoThread
  /\ pc = [t \in Threads |-> "idle"]
  /\ copied = [t \in Threads |-> 0]
  /\ returned = [t \in Threads |-> 0]
  /\ fdt = [fd \in Fds |-> "free"]

(* A thread makes a call and gets the mutex.                               *)
Enter(t) == pc[t] = "idle" /\ mutex = NoThread

----------------------------------------------------------------------------
SetConfig(t) ==
  /\ Enter(t)
  /\ config' \in [enabled : BOOLEAN, port : Ports]
  /\ is_enabled' = config'.enabled
  /\ UNCHANGED <<is_running, table, mutex, calls, fdt>>

(* The socket is kept in a local variable only.                            *)
Start(t) ==
  /\ Enter(t)
  /\ is_enabled /\ ~is_running
  /\ \E fd \in Fds :
       /\ Lowest(fd, FreeFds)
       /\ config.port \notin BoundPorts
       /\ fdt' = [fdt EXCEPT ![fd] = config.port]
  /\ is_running' = TRUE
  /\ UNCHANGED <<settings, table, mutex, calls>>

(* The room sockets are closed and forgotten.                              *)
CloseRooms ==
  /\ fdt' = [fd \in Fds |-> IF \E i \in OpenRooms : room_sockets[i] = fd
                              THEN "free" ELSE fdt[fd]]
  /\ room_sockets' = [i \in Entries |-> -1]

(* Faulty variant of Stop: the sockets are closed but not forgotten.       *)
Stop_KeepsNumbers(t) ==
  /\ Enter(t)
  /\ is_running
  /\ fdt' = [fd \in Fds |-> IF \E i \in OpenRooms : room_sockets[i] = fd
                              THEN "free" ELSE fdt[fd]]
  /\ is_running' = FALSE
  /\ UNCHANGED <<settings, table, mutex, calls>>

Stop(t) ==
  /\ Enter(t)
  /\ is_running
  /\ CloseRooms
  /\ is_running' = FALSE
  /\ UNCHANGED <<settings, room_count, rooms, room_addresses, mutex, calls>>

----------------------------------------------------------------------------
(* The loop over the used entries compares the stored names with the whole *)
(* of the one given.                                                       *)
Found(name) == {i \in Used : rooms[i] = name}

(* Faulty variant of AddRoom: the tables take one room more than before    *)
(* the name is looked for, so the search misses the last room.             *)
AddRoom_MissesLast(t, name, port) ==
  /\ Enter(t)
  /\ room_count < MAX_ROOMS
  /\ {i \in Found(name) : i < room_count - 1} = {}
  /\ rooms' = [rooms EXCEPT ![room_count] = Stored[name]]
  /\ \/ /\ FreeFds = {}
        /\ UNCHANGED <<room_sockets, room_addresses, fdt>>
     \/ \E fd \in Fds :
          /\ Lowest(fd, FreeFds)
          /\ room_sockets' = [room_sockets EXCEPT ![room_count] = fd]
          /\ room_addresses' = [room_addresses EXCEPT ![room_count] = port]
          /\ fdt' = [fdt EXCEPT ![fd] = "room"]
  /\ room_count' = room_count + 1
  /\ UNCHANGED <<settings, is_running, mutex, calls>>

(* Faulty variant of AddRoom: a full table is not noticed.                 *)
AddRoom_NoLimit(t, name, port) ==
  /\ Enter(t)
  /\ Found(name) = {}
  /\ rooms' = [rooms EXCEPT ![room_count] = Stored[name]]
  /\ room_count' = room_count + 1
  /\ UNCHANGED <<settings, is_running, room_sockets, room_addresses, mutex, calls, fdt>>

(* multiroom_add_room; without a descriptor for its socket the room is     *)
(* added all the same.                                                     *)
AddRoom(t, name, port) ==
  /\ Enter(t)
  /\ room_count < MAX_ROOMS
  /\ Found(name) = {}
  /\ rooms' = [rooms EXCEPT ![room_count] = Stored[name]]
  /\ \/ /\ FreeFds = {}
        /\ UNCHANGED <<room_sockets, room_addresses, fdt>>
     \/ \E fd \in Fds :
          /\ Lowest(fd, FreeFds)
          /\ room_sockets' = [room_sockets EXCEPT ![room_count] = fd]
          /\ room_addresses' = [room_addresses EXCEPT ![room_count] = port]
          /\ fdt' = [fdt EXCEPT ![fd] = "room"]
  /\ room_count' = room_count + 1
  /\ UNCHANGED <<settings, is_running, mutex, calls>>

(* Faulty variant of Shifted: the last entry is not cleared.               *)
Shifted_KeepsLast(f, i, none) ==
  [j \in Entries |-> IF i <= j /\ j < room_count - 1 THEN f[j + 1] ELSE f[j]]

(* f with the entries above i moved down and the last used one cleared.    *)
Shifted(f, i, none) ==
  [j \in Entries |-> IF i <= j /\ j < room_count - 1 THEN f[j + 1]
                     ELSE IF j = room_count - 1 THEN none ELSE f[j]]

RemoveRoom(t, name) ==
  /\ Enter(t)
  /\ \E i \in Entries :
       /\ Lowest(i, Found(name))
       /\ fdt' = [fd \in Fds |-> IF fd = room_sockets[i] THEN "free" ELSE fdt[fd]]
       /\ rooms' = Shifted(rooms, i, NoName)
       /\ room_sockets' = Shifted(room_sockets, i, -1)
       /\ room_addresses' = Shifted(room_addresses, i, NoPort)
  /\ room_count' = room_count - 1
  /\ UNCHANGED <<settings, is_running, mutex, calls>>

----------------------------------------------------------------------------
(* multiroom_get_room_list: the copy under the mutex, then the count read  *)
(* for the return value after it is released.                              *)
CopyList(t) ==
  /\ Enter(t)
  /\ copied' = [copied EXCEPT ![t] = room_count]
  /\ pc' = [pc EXCEPT ![t] = "list"]
  /\ UNCHANGED <<settings, is_running, table, mutex, returned, fdt>>

ReturnCount(t) ==
  /\ pc[t] = "list"
  /\ returned' = [returned EXCEPT ![t] = room_count]
  /\ pc' = [pc EXCEPT ![t] = "listed"]
  /\ UNCHANGED <<settings, is_running, table, mutex, copied, fdt>>

(* The caller has used the list.                                           *)
ListUsed(t) ==
  /\ pc[t] = "listed"
  /\ copied' = [copied EXCEPT ![t] = 0]
  /\ returned' = [returned EXCEPT ![t] = 0]
  /\ pc' = [pc EXCEPT ![t] = "idle"]
  /\ UNCHANGED <<settings, is_running, table, mutex, fdt>>

(* multiroom_sync_audio: is_running is read before the mutex is taken, and *)
(* not again under it.                                                     *)
SyncCheck(t) ==
  /\ pc[t] = "idle"
  /\ is_running
  /\ pc' = [pc EXCEPT ![t] = "sync"]
  /\ UNCHANGED <<settings, is_running, table, mutex, copied, returned, fdt>>

(* What sendto() delivers is seen by the rooms only.                       *)
SyncSend(t) ==
  /\ pc[t] = "sync"
  /\ mutex = NoThread
  /\ pc' = [pc EXCEPT ![t] = "idle"]
  /\ UNCHANGED <<settings, is_running, table, mutex, copied, returned, fdt>>

(* multiroom_cleanup: with the component running it calls multiroom_stop,  *)
(* which waits for the mutex its own thread holds.                         *)
Cleanup(t) ==
  /\ Enter(t)
  /\ IF is_running
       THEN /\ mutex' = t
            /\ pc' = [pc EXCEPT ![t] = "cleanup"]
            /\ UNCHANGED <<room_sockets, fdt>>
       ELSE CloseRooms /\ UNCHANGED <<mutex, pc>>
  /\ UNCHANGED <<settings, is_running, room_count, rooms, room_addresses, copied, returned>>

(* What a thread does between calls, and in one.                           *)
Call(t) ==
  \/ SetConfig(t) \/ Start(t) \/ Stop(t) \/ Cleanup(t)
  \/ \E name \in Names : RemoveRoom(t, name) \/ \E port \in Ports : AddRoom(t, name, port)
  \/ CopyList(t) \/ SyncCheck(t)

Continue(t) == ReturnCount(t) \/ ListUsed(t) \/ SyncSend(t)

Next == \E t \in Threads : Call(t) \/ Continue(t)

Safety == Init /\ [][Next]_vars

(* A thread in the middle of a call is scheduled.                          *)
Spec == Safety /\ \A t \in Threads : WF_vars(Continue(t))

----------------------------------------------------------------------------
TypeOK ==
  /\ config \in [enabled : BOOLEAN, port : Ports]
  /\ is_enabled \in BOOLEAN /\ is_running \in BOOLEAN
  /\ room_count \in 0 .. MAX_ROOMS
  /\ rooms \in [Entries -> Names \cup {NoName}]
  /\ room_sockets \in [Entries -> Fds \cup {-1}]
  /\ room_addresses \in [Entries -> Ports \cup {NoPort}]
  /\ mutex \in Threads \cup {NoThread}
  /\ pc \in [Threads -> {"idle", "list", "listed", "sync", "cleanup"}]
  /\ copied \in [Threads -> 0 .. MAX_ROOMS]
  /\ returned \in [Threads -> 0 .. MAX_ROOMS]
  /\ fdt \in [Fds -> {"free", "room"} \cup Ports]

(* The socket table and the kernel agree: through every add, removal in    *)
(* the middle, stop and cleanup, each socket in the table is open and in   *)
(* one entry, and no room socket is open that is not in the table.         *)
SocketLedger ==
  /\ \A i, j \in OpenRooms : room_sockets[i] = room_sockets[j] => i = j
  /\ \A fd \in Fds : fdt[fd] = "room" <=> \E i \in OpenRooms : room_sockets[i] = fd

(* Entries that are not in use are blank, all three tables alike, so that  *)
(* a room added without a socket never sends to a room that was removed.   *)
UnusedAreBlank ==
  \A i \in Entries \ Used :
    rooms[i] = NoName /\ room_sockets[i] = -1 /\ room_addresses[i] = NoPort

(* Names that fit an entry, and that no longer name is cut to.             *)
WholeNames == {n \in Names : \A m \in Names : Stored[m] = n <=> m = n}

(* A room whose name fits is in the tables once, whichever thread adds it  *)
(* again and however removals move the entries: the one that is removed by *)
(* its name is the only one.                                               *)
WholeNamesOnce ==
  \A i, j \in Used : rooms[i] = rooms[j] /\ rooms[i] \in WholeNames => i = j

(* "Check if room already exists" (src/src/multiroom.c:200): no room is in *)
(* the tables twice.                                                       *)
RoomsDiffer == \A i, j \in Used : rooms[i] = rooms[j] => i = j

(* A stopped component holds no bound socket: it can be started again, on  *)
(* the same port, and the port is free for others.                         *)
StopReleasesPort == ~is_running => BoundPorts = {}

(* A caller of multiroom_get_room_list is told how many names it was given.*)
ListIsWhole == \A t \in Threads : pc[t] = "listed" => returned[t] = copied[t]

(* Every call returns: no thread waits for multiroom_mutex for ever.       *)
CallsReturn == \A t \in Threads : pc[t] \in {"sync", "cleanup"} ~> pc[t] = "idle"

============================================================================
