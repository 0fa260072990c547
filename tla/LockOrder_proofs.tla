-------------------------- MODULE LockOrder_proofs ---------------------------
(***************************************************************************)
(* The order of LockOrder keeps circles of waiting threads away, for any   *)
(* threads and any finite set of mutexes.                                  *)
(***************************************************************************)
EXTENDS LockOrder, FiniteSetTheorems, TLAPS

(* No mutex is held twice.                                                 *)
Exclusive ==
  \A t, u \in Threads : t # u => holds[t] \cap holds[u] = {}

(* What a thread waits for comes after all it holds, unless it waits for   *)
(* what it holds.                                                          *)
Ordered ==
  \A t \in Threads : wants[t] # NoMutex =>
    \/ \A m \in holds[t] : Rank[m] < Rank[wants[t]]
    \/ wants[t] \in holds[t]

LockInv == LockTypeOK /\ Exclusive /\ Ordered

LEMMA LockStep ==
  ASSUME LockInv, [LockNext]_<<holds, wants>>
  PROVE  LockInv'
<1>1. CASE UNCHANGED <<holds, wants>>
  BY <1>1 DEF LockInv, LockTypeOK, Exclusive, Ordered
<1>2. ASSUME LockTypeOK', NEW t \in Threads, Move(t) PROVE LockInv'
  <2>1. \A u \in Threads \ {t} : holds'[u] = holds[u] /\ wants'[u] = wants[u]
    BY <1>2 DEF Move
  <2>2. \A u \in Threads \ {t} : holds'[t] \cap holds'[u] = {}
    <3>1. \A u \in Threads \ {t} : holds[u] \subseteq Others(t)
      BY DEF Others
    <3>. QED  BY <1>2, <2>1, <3>1 DEF Move
  <2>3. Exclusive'
    BY <2>1, <2>2 DEF LockInv, Exclusive
  <2>4. Ordered'
    BY <1>2, <2>1 DEF Move, LockInv, Ordered
  <2>. QED  BY <1>2, <2>3, <2>4 DEF LockInv
<1>. QED  BY <1>1, <1>2 DEF LockNext

(* Of the threads of a group, one waits for a mutex with the fewest above  *)
(* it. Whoever in the group held it would wait for one with fewer still,   *)
(* or for one it holds itself, which no other holds.                       *)
LEMMA OrderBreaksCircles ==
  ASSUME IsFiniteSet(Mutexes), Rank \in [Mutexes -> Nat], NoMutex \notin Mutexes, LockInv
  PROVE  NoCircularWait
<1>. SUFFICES ASSUME NEW group \in SUBSET Threads, group # {},
                     \A t \in group : \E u \in group \ {t} : WaitsFor(t, u)
              PROVE  FALSE
  BY DEF NoCircularWait
<1>. DEFINE Above(t) == {m \in Mutexes : Rank[wants[t]] < Rank[m]}
            Aboves == {Above(t) : t \in group}
<1>1. \A t \in group : wants[t] \in Mutexes /\ wants[t] # NoMutex
  BY DEF WaitsFor, LockInv, LockTypeOK
<1>2. Aboves \subseteq FiniteSubsetsOf(Mutexes) /\ Aboves # {}
  <2>1. Aboves \subseteq SUBSET Mutexes
    OBVIOUS
  <2>2. Aboves # {}
    <3>1. PICK t \in group : TRUE
      OBVIOUS
    <3>2. Above(t) \in Aboves
      OBVIOUS
    <3>. QED  BY <3>2
  <2>3. FiniteSubsetsOf(Mutexes) = SUBSET Mutexes
    BY FS_FiniteSubsetsOfFinite
  <2>. HIDE DEF Aboves
  <2>. QED  BY <2>1, <2>2, <2>3
<1>3. PICK least \in Aboves :
        \A set \in Aboves : <<set, least>> \notin StrictSubsetOrdering(Mutexes)
  <2>. HIDE DEF Aboves
  <2>1. IsWellFoundedOn(StrictSubsetOrdering(Mutexes), FiniteSubsetsOf(Mutexes))
    BY FS_StrictSubsetOrderingWellFounded
  <2>. QED  BY <1>2, <2>1, WFMin
<1>4. PICK t \in group : least = Above(t)
  OBVIOUS
<1>5. PICK u \in group \ {t} : WaitsFor(t, u)
  OBVIOUS
<1>6. Rank[wants[t]] < Rank[wants[u]]
  <2>1. wants[u] \notin holds[u]
    <3>1. PICK v \in group \ {u} : WaitsFor(u, v)
      OBVIOUS
    <3>. QED  BY <3>1 DEF WaitsFor, LockInv, Exclusive
  <2>. QED  BY <1>1, <1>5, <2>1 DEF WaitsFor, LockInv, Ordered
<1>7. Above(u) \subseteq Above(t) /\ wants[u] \in Above(t) \ Above(u)
  <2>1. Rank[wants[t]] \in Nat /\ Rank[wants[u]] \in Nat
    BY <1>1
  <2>2. \A m \in Mutexes : Rank[m] \in Nat
    OBVIOUS
  <2>. QED  BY <1>1, <1>6, <2>1, <2>2
<1>8. <<Above(u), least>> \in StrictSubsetOrdering(Mutexes)
  <2>. HIDE DEF Above
  <2>1. Above(u) \in SUBSET Mutexes /\ Above(t) \in SUBSET Mutexes
    BY DEF Above
  <2>. QED  BY <1>4, <1>7, <2>1 DEF StrictSubsetOrdering
<1>. QED  BY <1>3, <1>8

(* Threads that keep the order never wait for each other in a circle, even *)
(* when some of them wait for themselves.                                  *)
THEOREM OrderKeepsCirclesAway ==
  ASSUME IsFiniteSet(Mutexes), Rank \in [Mutexes -> Nat], NoMutex \notin Mutexes
  PROVE  LockSpec => []NoCircularWait
<1>1. LockInit => LockInv
  BY DEF LockInit, LockInv, LockTypeOK, Exclusive, Ordered
<1>2. LockInv /\ [LockNext]_<<holds, wants>> => LockInv'
  BY LockStep
<1>3. LockInv => NoCircularWait
  BY OrderBreaksCircles
<1>. QED  BY <1>1, <1>2, <1>3, PTL DEF LockSpec

==============================================================================
