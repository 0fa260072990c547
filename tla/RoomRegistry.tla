---------------------------- MODULE RoomRegistry ----------------------------
(***************************************************************************)
(* What src/src/multiroom.h promises of the room functions: an ordered     *)
(* list of at most MAX_ROOMS rooms, to which rooms are added unless one of *)
(* that name is there, and from which they are removed by name.  Of a name *)
(* that is too long only a part is kept.                                   *)
(***************************************************************************)
EXTENDS Naturals, SequencesExt

CONSTANTS Names, Stored, Ports, NoPort, MAX_ROOMS

VARIABLE registry

RegistryInit == registry = <<>>

Named(name) == {i \in 1 .. Len(registry) : registry[i].name = name}

(* The port is lost when there is no socket to use it with.                *)
AddRoom(name) ==
  /\ Len(registry) < MAX_ROOMS
  /\ Named(name) = {}
  /\ \E port \in Ports \cup {NoPort} :
       registry' = Append(registry, [name |-> Stored[name], port |-> port])

(* The oldest of that name goes.                                           *)
RemoveRoom(name) ==
  \E i \in Named(name) :
    /\ \A j \in Named(name) : i <= j
    /\ registry' = RemoveAt(registry, i)

RegistryNext == \E name \in Names : AddRoom(name) \/ RemoveRoom(name)

RegistrySpec == RegistryInit /\ [][RegistryNext]_registry

============================================================================
