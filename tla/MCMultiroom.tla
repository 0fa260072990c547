---------------------------- MODULE MCMultiroom ----------------------------
(* The instance of Multiroom that TLC checks, and the registry of rooms    *)
(* that its tables implement.                                              *)
EXTENDS Multiroom, TLC

(* No name is longer than MAX_ROOM_NAME_LEN - 1 characters.                *)
ShortNames == [name \in Names |-> name]

(* One name is too long, and the part kept of it is a name, too.           *)
LongNames == [n \in Names |-> IF n = "long" THEN "cut" ELSE n]

Symmetry == Permutations(Threads) \cup Permutations(Names \ {"long", "cut"})

Registry == INSTANCE RoomRegistry WITH
  registry <- [i \in 1 .. room_count |->
                 [name |-> rooms[i - 1], port |-> room_addresses[i - 1]]]

(* The room functions implement the registry: no interleaving of calls,    *)
(* stops or failures to get a socket makes the tables anything but a list  *)
(* of rooms in the order they came, each one added under what is kept of   *)
(* its name, and removed by its name.                                      *)
ImplementsRegistry == Registry!RegistrySpec

============================================================================
