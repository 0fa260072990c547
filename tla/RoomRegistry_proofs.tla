------------------------- MODULE RoomRegistry_proofs -------------------------
(***************************************************************************)
(* Proof that the room functions of Multiroom implement RoomRegistry,      *)
(* whatever is kept of the names: what the tables hold is the list of      *)
(* rooms.                                                                  *)
(***************************************************************************)
EXTENDS MCMultiroom, Multiroom_proofs, SequenceTheorems

Room == [name : Names \cup {NoName}, port : Ports \cup {NoPort}]

(* The list that n used entries stand for, and the registry of the tables. *)
ListOf(n, names, addresses) ==
  [i \in 1 .. n |-> [name |-> names[i - 1], port |-> addresses[i - 1]]]

Listed == ListOf(room_count, rooms, room_addresses)

LEMMA ListOfIsSeq ==
  ASSUME NEW n \in 0 .. MAX_ROOMS,
         NEW names \in [Entries -> Names \cup {NoName}],
         NEW addresses \in [Entries -> Ports \cup {NoPort}]
  PROVE  /\ ListOf(n, names, addresses) \in Seq(Room)
         /\ Len(ListOf(n, names, addresses)) = n
         /\ \A i \in 1 .. n : ListOf(n, names, addresses)[i] =
                              [name |-> names[i - 1], port |-> addresses[i - 1]]
<1>. USE SizeAssumption
<1>1. \A i \in 1 .. n : [name |-> names[i - 1], port |-> addresses[i - 1]] \in Room
  <2>. SUFFICES ASSUME NEW i \in 1 .. n
       PROVE  names[i - 1] \in Names \cup {NoName} /\ addresses[i - 1] \in Ports \cup {NoPort}
    BY DEF Room
  <2>1. i - 1 \in Entries
    BY DEF Entries
  <2>. QED  BY <2>1
<1>. QED  BY <1>1, IsASeq, LenProperties DEF ListOf

LEMMA ListedIsSeq ==
  ASSUME TypeOK
  PROVE  /\ Listed \in Seq(Room)
         /\ Len(Listed) = room_count
         /\ \A i \in 1 .. room_count :
              Listed[i] = [name |-> rooms[i - 1], port |-> room_addresses[i - 1]]
BY ListOfIsSeq DEF Listed, TypeOK

LEMMA ListedNextIsSeq ==
  ASSUME TypeOK'
  PROVE  /\ Listed' \in Seq(Room)
         /\ Len(Listed') = room_count'
         /\ \A i \in 1 .. room_count' :
              Listed'[i] = [name |-> rooms'[i - 1], port |-> room_addresses'[i - 1]]
BY ListOfIsSeq DEF Listed, TypeOK, Entries

(* A step that leaves the tables' rooms alone leaves the registry alone.   *)
LEMMA QuietIsStutter ==
  ASSUME UNCHANGED <<room_count, rooms, room_addresses>>
  PROVE  Listed' = Listed
BY DEF Listed, ListOf

(* Adding a room appends it, with its port or without.                     *)
LEMMA AddRoomAppends ==
  ASSUME TablesInv, NEW t \in Threads, NEW name \in Names, NEW port \in Ports,
         AddRoom(t, name, port)
  PROVE  Registry!AddRoom(name)
<1>. USE SizeAssumption
<1>a. TypeOK /\ TypeOK'
  BY AddRoomStep DEF TablesInv
<1>b. room_count \in 0 .. MAX_ROOMS - 1 /\ room_count' = room_count + 1 /\ room_count \in Entries
  BY <1>a DEF AddRoom, TypeOK, Entries
<1>c. \A i \in Entries : rooms'[i] = IF i = room_count THEN Stored[name] ELSE rooms[i]
  BY <1>a, <1>b DEF AddRoom, TypeOK
<1>d. /\ \A i \in Entries : i # room_count => room_addresses'[i] = room_addresses[i]
      /\ room_addresses'[room_count] \in Ports \cup {NoPort}
  BY <1>a, <1>b DEF AddRoom, TypeOK
<1>. DEFINE last == [name |-> Stored[name], port |-> room_addresses'[room_count]]
<1>1. Len(Listed) = room_count /\ Listed \in Seq(Room)
  BY <1>a, ListedIsSeq
<1>2. Len(Listed) < MAX_ROOMS
  BY <1>1, <1>b
<1>3. \A i \in 1 .. Len(Listed) : Listed[i].name # name
  <2>. SUFFICES ASSUME NEW i \in 1 .. Len(Listed) PROVE Listed[i].name # name
    OBVIOUS
  <2>1. i - 1 \in Used /\ Listed[i].name = rooms[i - 1]
    BY <1>1, <1>a, <1>b, ListedIsSeq DEF Used
  <2>. QED  BY <2>1 DEF AddRoom, Found
<1>4. Listed' = Append(Listed, last)
  <2>1. last \in Room
    BY <1>d, StoredAssumption DEF Room
  <2>2. /\ Append(Listed, last) \in Seq(Room)
        /\ Len(Append(Listed, last)) = room_count + 1
        /\ \A i \in 1 .. room_count : Append(Listed, last)[i] = Listed[i]
        /\ Append(Listed, last)[room_count + 1] = last
    BY <1>1, <2>1, AppendProperties
  <2>3. /\ Listed' \in Seq(Room)
        /\ Len(Listed') = room_count + 1
        /\ \A i \in 1 .. room_count + 1 :
             Listed'[i] = [name |-> rooms'[i - 1], port |-> room_addresses'[i - 1]]
    BY <1>a, <1>b, ListedNextIsSeq
  <2>4. \A i \in 1 .. room_count + 1 : Listed'[i] = Append(Listed, last)[i]
    <3>. SUFFICES ASSUME NEW i \in 1 .. room_count + 1 PROVE Listed'[i] = Append(Listed, last)[i]
      OBVIOUS
    <3>1. i - 1 \in Entries
      BY <1>b DEF Entries
    <3>2. CASE i = room_count + 1
      BY <3>1, <3>2, <1>b, <1>c, <2>2, <2>3
    <3>3. CASE i # room_count + 1
      <4>1. i \in 1 .. room_count /\ i - 1 # room_count
        BY <3>3, <1>b
      <4>2. Listed[i] = [name |-> rooms[i - 1], port |-> room_addresses[i - 1]]
        BY <4>1, <1>a, ListedIsSeq
      <4>. QED  BY <4>1, <4>2, <3>1, <1>c, <1>d, <2>2, <2>3
    <3>. QED  BY <3>2, <3>3
  <2>. QED  BY <2>2, <2>3, <2>4, SeqEqual
<1>. QED  BY <1>2, <1>3, <1>4, <1>d DEF Registry!AddRoom, Registry!Named, Listed, ListOf

(* What is left of a sequence when its element i is removed.               *)
LEMMA RemovedElements ==
  ASSUME NEW s \in Seq(Room), NEW i \in 1 .. Len(s)
  PROVE  LET r == SubSeq(s, 1, i - 1) \o SubSeq(s, i + 1, Len(s))
         IN /\ r \in Seq(Room)
            /\ Len(r) = Len(s) - 1
            /\ \A k \in 1 .. Len(s) - 1 : r[k] = IF k < i THEN s[k] ELSE s[k + 1]
<1>. DEFINE left == SubSeq(s, 1, i - 1)
            right == SubSeq(s, i + 1, Len(s))
<1>1. Len(s) \in Nat /\ i \in Nat /\ \A k \in 1 .. Len(s) : s[k] \in Room
  BY LenProperties
<1>2. /\ left \in Seq(Room) /\ Len(left) = i - 1
      /\ \A k \in 1 .. i - 1 : left[k] = s[k]
  BY <1>1, SubSeqProperties
<1>3. /\ right \in Seq(Room) /\ Len(right) = Len(s) - i
      /\ \A k \in 1 .. Len(s) - i : right[k] = s[i + k]
  BY <1>1, SubSeqProperties
<1>. HIDE DEF left, right
<1>. DEFINE r == left \o right
<1>4. /\ r \in Seq(Room)
      /\ Len(r) = Len(left) + Len(right)
      /\ \A k \in 1 .. Len(left) + Len(right) :
           r[k] = IF k <= Len(left) THEN left[k] ELSE right[k - Len(left)]
  BY <1>2, <1>3, ConcatProperties
<1>. HIDE DEF r
<1>5. Len(r) = Len(s) - 1
  BY <1>1, <1>2, <1>3, <1>4
<1>6. ASSUME NEW k \in 1 .. Len(s) - 1
      PROVE  r[k] = IF k < i THEN s[k] ELSE s[k + 1]
  <2>a. k \in 1 .. Len(left) + Len(right)
    BY <1>1, <1>2, <1>3
  <2>b. r[k] = IF k <= Len(left) THEN left[k] ELSE right[k - Len(left)]
    BY <1>4, <2>a
  <2>c. r[k] = IF k <= i - 1 THEN left[k] ELSE right[k - (i - 1)]
    BY <1>2, <2>b
  <2>1. CASE k < i
    BY <1>1, <1>2, <2>c, <2>1
  <2>2. CASE k >= i
    <3>1. k - (i - 1) \in 1 .. Len(s) - i /\ i + (k - (i - 1)) = k + 1
      BY <1>1, <2>2
    <3>2. r[k] = right[k - (i - 1)]
      BY <1>1, <2>c, <2>2
    <3>. QED  BY <1>1, <1>3, <2>2, <3>1, <3>2
  <2>. QED  BY <1>1, <2>1, <2>2
<1>. QED  BY <1>4, <1>5, <1>6 DEF r, left, right

(* Removing a room removes the first entry of its name.                    *)
LEMMA RemoveRoomRemoves ==
  ASSUME TablesInv, NEW t \in Threads, NEW name \in Names, RemoveRoom(t, name)
  PROVE  Registry!RemoveRoom(name)
<1>. USE SizeAssumption
<1>a. TypeOK /\ TypeOK'
  BY RemoveRoomStep DEF TablesInv
<1>. PICK i \in Entries :
       /\ Lowest(i, Found(name))
       /\ rooms' = Shifted(rooms, i, NoName)
       /\ room_addresses' = Shifted(room_addresses, i, NoPort)
  BY DEF RemoveRoom
<1>b. /\ i \in Used /\ rooms[i] = name
      /\ room_count' = room_count - 1 /\ room_count \in 1 .. MAX_ROOMS
  BY <1>a DEF RemoveRoom, Lowest, Found, Used, TypeOK
<1>1. /\ Listed \in Seq(Room) /\ Len(Listed) = room_count
      /\ \A k \in 1 .. room_count :
           Listed[k] = [name |-> rooms[k - 1], port |-> room_addresses[k - 1]]
  BY <1>a, ListedIsSeq
<1>2. i + 1 \in 1 .. Len(Listed) /\ Listed[i + 1].name = name
  BY <1>1, <1>b DEF Used
<1>c. \A k \in 1 .. Len(Listed) : Listed[k].name = name => i + 1 <= k
  <2>. SUFFICES ASSUME NEW k \in 1 .. Len(Listed), Listed[k].name = name PROVE i + 1 <= k
    OBVIOUS
  <2>1. k - 1 \in Found(name)
    BY <1>1, <1>b DEF Found, Used
  <2>2. i <= k - 1
    BY <2>1 DEF Lowest
  <2>. QED  BY <1>b, <2>2 DEF Used, Entries
<1>. DEFINE removed == SubSeq(Listed, 1, (i + 1) - 1) \o SubSeq(Listed, (i + 1) + 1, Len(Listed))
<1>3. /\ removed \in Seq(Room) /\ Len(removed) = room_count - 1
      /\ \A k \in 1 .. room_count - 1 :
           removed[k] = IF k < i + 1 THEN Listed[k] ELSE Listed[k + 1]
  BY <1>1, <1>2, RemovedElements
<1>4. /\ Listed' \in Seq(Room) /\ Len(Listed') = room_count - 1
      /\ \A k \in 1 .. room_count - 1 :
           Listed'[k] = [name |-> rooms'[k - 1], port |-> room_addresses'[k - 1]]
  BY <1>a, <1>b, ListedNextIsSeq
<1>. HIDE DEF removed
<1>5. ASSUME NEW k \in 1 .. room_count - 1 PROVE Listed'[k] = removed[k]
  <2>1. k - 1 \in Entries /\ k - 1 < room_count - 1
    BY <1>b DEF Entries
  <2>2. CASE k < i + 1
    <3>1. rooms'[k - 1] = rooms[k - 1] /\ room_addresses'[k - 1] = room_addresses[k - 1]
      BY <1>a, <1>b, <2>1, <2>2, ShiftedEntries DEF Used
    <3>. QED  BY <1>1, <1>3, <1>4, <1>b, <2>2, <3>1
  <2>3. CASE k >= i + 1
    <3>1. rooms'[k - 1] = rooms[(k - 1) + 1] /\ room_addresses'[k - 1] = room_addresses[(k - 1) + 1]
      BY <1>a, <1>b, <2>1, <2>3, ShiftedEntries DEF Used
    <3>2. (k - 1) + 1 = (k + 1) - 1 /\ k + 1 \in 1 .. room_count
      BY <1>b
    <3>. QED  BY <1>1, <1>3, <1>4, <1>b, <2>3, <3>1, <3>2 DEF Used
  <2>. QED  BY <2>2, <2>3, <1>b DEF Used
<1>6. Listed' = removed
  BY <1>3, <1>4, <1>5, SeqEqual
<1>. QED  BY <1>2, <1>c, <1>6 DEF Registry!RemoveRoom, Registry!Named, Registry!RemoveAt, removed,
                            Listed, ListOf

----------------------------------------------------------------------------
(* Every step of every call is a step of the registry or leaves it alone.  *)
LEMMA StepImplements ==
  ASSUME TablesInv, [Next]_vars
  PROVE  [Registry!RegistryNext]_Listed
<1>1. CASE UNCHANGED <<room_count, rooms, room_addresses>>
  BY <1>1, QuietIsStutter
<1>2. ASSUME NEW t \in Threads, NEW name \in Names, NEW port \in Ports, AddRoom(t, name, port)
      PROVE  Registry!RegistryNext
  BY <1>2, AddRoomAppends DEF Registry!RegistryNext
<1>3. ASSUME NEW t \in Threads, NEW name \in Names, RemoveRoom(t, name)
      PROVE  Registry!RegistryNext
  BY <1>3, RemoveRoomRemoves DEF Registry!RegistryNext
<1>4. ASSUME NEW t \in Threads,
             SetConfig(t) \/ Start(t) \/ Stop(t) \/ Cleanup(t) \/ CopyList(t) \/ SyncCheck(t)
      PROVE  UNCHANGED <<room_count, rooms, room_addresses>>
  BY <1>4 DEF SetConfig, Start, Stop, Cleanup, CopyList, SyncCheck, table
<1>5. ASSUME NEW t \in Threads, Continue(t)
      PROVE  UNCHANGED <<room_count, rooms, room_addresses>>
  BY <1>5 DEF Continue, ReturnCount, ListUsed, SyncSend, table
<1>. QED  BY <1>1, <1>2, <1>3, <1>4, <1>5 DEF Next, Call, vars, table

(* The room functions implement the registry, whatever threads call them   *)
(* with whatever names, and however stops, failures to get a socket and    *)
(* unlocked reads fall in between.                                         *)
THEOREM TablesImplementRegistry == Safety => ImplementsRegistry
<1>1. Init => Listed = <<>>
  BY DEF Init, Listed, ListOf
<1>2. TablesInv /\ [Next]_vars => [Registry!RegistryNext]_Listed
  BY StepImplements
<1>3. Init => Registry!RegistryInit
  BY <1>1 DEF Registry!RegistryInit, Listed, ListOf
<1>. QED  BY <1>2, <1>3, TablesInvariant, PTL
          DEF Safety, ImplementsRegistry, Registry!RegistrySpec, Listed, ListOf

=============================================================================
