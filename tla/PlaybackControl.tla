--------------------------- MODULE PlaybackControl ---------------------------
(***************************************************************************)
(* The playback control of src/src/playback_control.c: a state and the     *)
(* track's position, and a listener for each, called under playback_mutex. *)
(* Of playback_info_t only the position is kept: the other fields are      *)
(* copied in and out as a whole.                                           *)
(***************************************************************************)
EXTENDS Callers, Naturals

CONSTANTS
  States,     \* the values of playback_state_t a caller may set
  Positions   \* the values of position_ms

ASSUME PlaybackAssumption ==
  /\ States \subseteq {"STOPPED", "PLAYING", "PAUSED", "BUFFERING"}
  /\ {"STOPPED", "PLAYING", "PAUSED"} \subseteq States
  /\ Positions \subseteq Nat
  /\ 0 \in Positions

VARIABLES
  playback_mutex,
  current_state, position,
  listening,                \* the callbacks that are not NULL
  inside, due,              \* the one that runs, and those to be called then
  state_told, info_told     \* what they heard last

playback == <<playback_mutex, current_state, position, listening, inside, due,
              state_told, info_told>>

Callbacks == {"state", "info"}
Nobody    == "nobody"

PlaybackInit ==
  /\ playback_mutex = NoThread
  /\ current_state = "STOPPED" /\ position = 0
  /\ listening = {}
  /\ inside = Nobody /\ due = {}
  /\ state_told = NoNews /\ info_told = NoNews

(* Faulty variant of First: the listeners are called the other way round.  *)
First_InfoFirst(calls) == IF "info" \in calls THEN "info" ELSE "state"

(* The state listener is called before the info listener.                  *)
First(calls) == IF "state" \in calls THEN "state" ELSE "info"

(* Faulty variant of CallNext: unlocks before it calls the last listener.  *)
CallNext_UnlocksFirst(t, calls) ==
  /\ playback_mutex' = IF calls \subseteq {First(calls)} THEN NoThread ELSE t
  /\ inside' = IF calls = {} THEN Nobody ELSE First(calls)
  /\ due' = calls \ {First(calls)}
  /\ state_told' = IF inside' = "state" THEN <<current_state'>> ELSE state_told
  /\ info_told' = IF inside' = "info" THEN <<position'>> ELSE info_told

(* Enter the next listener, or unlock and return when there is none left.  *)
CallNext(t, calls) ==
  /\ playback_mutex' = IF calls = {} THEN NoThread ELSE t
  /\ inside' = IF calls = {} THEN Nobody ELSE First(calls)
  /\ due' = calls \ {First(calls)}
  /\ state_told' = IF inside' = "state" THEN <<current_state'>> ELSE state_told
  /\ info_told' = IF inside' = "info" THEN <<position'>> ELSE info_told

(* The end of a function that has news for some of the callbacks.          *)
Tell(t, news) ==
  /\ playback_mutex = NoThread
  /\ CallNext(t, news \cap listening)
  /\ UNCHANGED listening

(* Told even if nothing has changed.                                       *)
PlaybackPlay(t) ==
  /\ current_state' = IF current_state \in {"PAUSED", "STOPPED"} THEN "PLAYING" ELSE current_state
  /\ UNCHANGED position
  /\ Tell(t, {"state"})

PlaybackPause(t) ==
  /\ current_state = "PLAYING"
  /\ current_state' = "PAUSED"
  /\ UNCHANGED position
  /\ Tell(t, {"state"})

PlaybackStop(t) ==
  /\ current_state' = "STOPPED" /\ position' = 0
  /\ Tell(t, {"state", "info"})

(* playback_control_next and playback_control_previous.                    *)
PlaybackSkip(t) ==
  /\ position' = 0
  /\ UNCHANGED current_state
  /\ Tell(t, {"info"})

(* Faulty variant of PlaybackSetState: the range of the state is not       *)
(* looked at.                                                              *)
PlaybackSetState_Unchecked(t) ==
  /\ current_state' \in States \cup {"BUFFERING + 1"}
  /\ UNCHANGED position
  /\ Tell(t, {"state"})

PlaybackSetState(t) ==
  /\ current_state' \in States
  /\ UNCHANGED position
  /\ Tell(t, {"state"})

PlaybackSetInfo(t) ==
  /\ position' \in Positions
  /\ UNCHANGED current_state
  /\ Tell(t, {"info"})

(* The two set_callback functions.                                         *)
PlaybackListen ==
  /\ playback_mutex = NoThread
  /\ \/ /\ listening' \in {listening \cup {"state"}, listening \ {"state"}}
        /\ state_told' = NoNews /\ UNCHANGED info_told
     \/ /\ listening' \in {listening \cup {"info"}, listening \ {"info"}}
        /\ info_told' = NoNews /\ UNCHANGED state_told
  /\ UNCHANGED <<playback_mutex, current_state, position, inside, due>>

PlaybackCleanup ==
  /\ playback_mutex = NoThread
  /\ listening' = {}
  /\ state_told' = NoNews /\ info_told' = NoNews
  /\ UNCHANGED <<playback_mutex, current_state, position, inside, due>>

(* The getters, a pause of what does not play, a state out of range.       *)
PlaybackLook == playback_mutex = NoThread /\ UNCHANGED playback

(* The listener returns.                                                   *)
PlaybackReturn(t) ==
  /\ playback_mutex = t /\ inside # Nobody
  /\ UNCHANGED <<current_state, position, listening>>
  /\ CallNext(t, due)

PlaybackCall(t) ==
  \/ PlaybackPlay(t) \/ PlaybackPause(t) \/ PlaybackStop(t) \/ PlaybackSkip(t)
  \/ PlaybackSetState(t) \/ PlaybackSetInfo(t)
  \/ PlaybackListen \/ PlaybackCleanup \/ PlaybackLook

PlaybackNext == \E t \in Threads : PlaybackCall(t) \/ PlaybackReturn(t)

PlaybackSpec == PlaybackInit /\ [][PlaybackNext]_playback
----------------------------------------------------------------------------
PlaybackTypeOK ==
  /\ playback_mutex \in Threads \cup {NoThread}
  /\ current_state \in States /\ position \in Positions
  /\ listening \subseteq Callbacks /\ due \subseteq Callbacks
  /\ inside \in Callbacks \cup {Nobody}
  /\ state_told \in {NoNews} \cup {<<state>> : state \in States}
  /\ info_told \in {NoNews} \cup {<<pos>> : pos \in Positions}

(* Whenever no call is under way, the listeners have heard of the present  *)
(* state and position, and while one is told of a position the other has   *)
(* already heard of the state it belongs to.                               *)
PlaybackHeard ==
  /\ playback_mutex = NoThread \/ inside = "info" =>
       state_told \in {NoNews, <<current_state>>}
  /\ playback_mutex = NoThread => info_told \in {NoNews, <<position>>}

(* A listener that was withdrawn does not run and is not called any more:  *)
(* when the call that withdraws it has returned, its code can go.          *)
PlaybackWithdrawn == due \cup ({inside} \ {Nobody}) \subseteq listening

==============================================================================
