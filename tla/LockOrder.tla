------------------------------ MODULE LockOrder ------------------------------
(***************************************************************************)
(* A rule for threads that hold mutexes while they wait for others: the    *)
(* mutexes have an order, and one is waited for only by a thread that      *)
(* holds none but earlier ones.  The one exception is a thread that waits  *)
(* for a mutex it holds itself, as code of the application may make it do  *)
(* with those in Relocked: it waits for ever.  The rule is enough for no   *)
(* threads to wait for each other in a circle.                             *)
(***************************************************************************)
EXTENDS Naturals

CONSTANTS Threads, Mutexes, NoMutex, Rank, Relocked

VARIABLES holds, wants

Others(t) == UNION {holds[u] : u \in Threads \ {t}}

LockInit ==
  /\ holds = [t \in Threads |-> {}]
  /\ wants = [t \in Threads |-> NoMutex]

(* A thread that waits goes on only when nobody holds the mutex; it may    *)
(* take and release mutexes no other thread holds, and wait for the next.  *)
Move(t) ==
  /\ wants[t] \notin Others(t) \cup holds[t]
  /\ holds'[t] \cap Others(t) = {}
  /\ wants'[t] # NoMutex =>
       \/ \A m \in holds'[t] : Rank[m] < Rank[wants'[t]]
       \/ wants'[t] \in holds'[t] \cap Relocked
  /\ \A u \in Threads \ {t} : holds'[u] = holds[u] /\ wants'[u] = wants[u]

LockTypeOK ==
  /\ holds \in [Threads -> SUBSET Mutexes]
  /\ wants \in [Threads -> Mutexes \cup {NoMutex}]

LockNext == LockTypeOK' /\ \E t \in Threads : Move(t)

LockSpec == LockInit /\ [][LockNext]_<<holds, wants>>

(* t waits for a mutex that u holds.                                       *)
WaitsFor(t, u) == wants[t] # NoMutex /\ wants[t] \in holds[u]

(* No threads wait for each other in a circle: in every group of threads   *)
(* there is one that waits for none of the others.                         *)
NoCircularWait ==
  \A group \in (SUBSET Threads) \ {{}} :
    \E t \in group : \A u \in group \ {t} : ~WaitsFor(t, u)

==============================================================================
