---------------------------- MODULE ClientService ----------------------------
(***************************************************************************)
(* What the AirPlay server promises its clients, whatever its tables and   *)
(* descriptors do: they are taken in the order they came, turned away only *)
(* when all places are taken, answered no more often than they asked, and  *)
(* let go only when they have gone themselves and were heard to the end.   *)
(* Closing, be it a stop or the end of the process, lets all of them go.   *)
(***************************************************************************)
EXTENDS Integers, Sequences, FiniteSets

CONSTANTS Clients, Capacity, Backlog

VARIABLES
  open,      \* the service is there
  waiting,   \* clients that came and were not yet let in, in order
  served,    \* clients that have a place
  gone,      \* those of them that will say nothing more
  unheard,   \* those that have said what nobody has listened to
  asked      \* answers each client is still due

service == <<open, waiting, served, gone, unheard, asked>>

Waits(c)   == \E i \in 1 .. Len(waiting) : waiting[i] = c
Present(c) == Waits(c) \/ c \in served

(* Nothing is kept of clients that are let go.                             *)
Forget(cs) ==
  /\ gone' = gone \ cs
  /\ unheard' = unheard \ cs
  /\ asked' = [c \in Clients |-> IF c \in cs THEN 0 ELSE asked[c]]

ServiceInit ==
  /\ ~open
  /\ waiting = <<>>
  /\ served = {} /\ gone = {} /\ unheard = {}
  /\ asked = [c \in Clients |-> 0]

Open ==
  /\ ~open
  /\ open' = TRUE
  /\ UNCHANGED <<waiting, served, gone, unheard, asked>>

Close ==
  /\ open' = FALSE
  /\ waiting' = <<>>
  /\ served' = {}
  /\ Forget(Clients)

----------------------------------------------------------------------------
Arrive(c) ==
  /\ open
  /\ ~Present(c)
  /\ Len(waiting) <= Backlog
  /\ waiting' = Append(waiting, c)
  /\ UNCHANGED <<open, served, gone, unheard, asked>>

Say(c, requests) ==
  /\ Present(c) /\ c \notin gone
  /\ unheard' = unheard \cup {c}
  /\ asked' = [asked EXCEPT ![c] = @ + requests]
  /\ UNCHANGED <<open, waiting, served, gone>>

Leave(c) ==
  /\ Present(c) /\ c \notin gone
  /\ gone' = gone \cup {c}
  /\ UNCHANGED <<open, waiting, served, unheard, asked>>

----------------------------------------------------------------------------
(* The client that came first gets a place if there is one.                *)
Admit ==
  /\ waiting # <<>>
  /\ Cardinality(served) < Capacity
  /\ waiting' = Tail(waiting)
  /\ served' = served \cup {Head(waiting)}
  /\ UNCHANGED <<open, gone, unheard, asked>>

TurnAway ==
  /\ waiting # <<>>
  /\ Cardinality(served) = Capacity
  /\ waiting' = Tail(waiting)
  /\ Forget({Head(waiting)})
  /\ UNCHANGED <<open, served>>

(* All that c has said is heard.                                           *)
Hear(c) ==
  /\ c \in served \cap unheard
  /\ unheard' = unheard \ {c}
  /\ UNCHANGED <<open, waiting, served, gone, asked>>

Answer(c) ==
  /\ c \in served
  /\ asked[c] > 0
  /\ asked' = [asked EXCEPT ![c] = @ - 1]
  /\ UNCHANGED <<open, waiting, served, gone, unheard>>

Release(c) ==
  /\ c \in served \cap gone
  /\ c \notin unheard
  /\ served' = served \ {c}
  /\ Forget({c})
  /\ UNCHANGED <<open, waiting>>

----------------------------------------------------------------------------
ServiceNext ==
  \/ Open \/ Close \/ Admit \/ TurnAway
  \/ \E c \in Clients :
       \/ Arrive(c) \/ Leave(c) \/ Hear(c) \/ Answer(c) \/ Release(c)
       \/ \E requests \in {0, 1} : Say(c, requests)

ServiceSpec == ServiceInit /\ [][ServiceNext]_service

(* Of a client that is not there nothing is remembered.                    *)
NoStrangers ==
  \A c \in Clients :
    ~Present(c) => c \notin gone /\ c \notin unheard /\ asked[c] = 0

==============================================================================
