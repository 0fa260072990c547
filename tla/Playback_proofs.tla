--------------------------- MODULE Playback_proofs ---------------------------
(***************************************************************************)
(* Proofs about playback control: its listeners hear of the present state  *)
(* and position, in order, and not at all once they are withdrawn.         *)
(***************************************************************************)
EXTENDS PlaybackControl, TLAPS

(* The mutex is held exactly while a listener runs, and none is due else.  *)
(* The info listener runs last.                                            *)
PlaybackControlled ==
  /\ playback_mutex = NoThread <=> inside = Nobody
  /\ inside = Nobody => due = {}
  /\ inside # Nobody => inside \notin due
  /\ inside = "info" => due = {}

(* What a listener has heard is out of date only while it is due, and one  *)
(* that is not there has heard nothing.                                    *)
PlaybackUpToDate ==
  /\ "state" \in due \/ state_told \in {NoNews, <<current_state>>}
  /\ "info" \in due \/ info_told \in {NoNews, <<position>>}
  /\ "state" \notin listening => state_told = NoNews
  /\ "info" \notin listening => info_told = NoNews

PlaybackInv ==
  PlaybackTypeOK /\ PlaybackWithdrawn /\ PlaybackControlled /\ PlaybackUpToDate

LEMMA PlaybackStarts == PlaybackInit => PlaybackInv
BY PlaybackAssumption
DEF PlaybackInit, PlaybackInv, PlaybackTypeOK, PlaybackWithdrawn, PlaybackControlled,
    PlaybackUpToDate, Nobody, NoNews

(* The next listener is entered with what is true now, or the mutex is     *)
(* released when there is none.                                            *)
LEMMA CallNextKeeps ==
  ASSUME PlaybackInv,
         NEW t \in Threads, NEW calls \in SUBSET Callbacks,
         calls \subseteq listening, listening' = listening,
         current_state' \in States, position' \in Positions,
         "state" \in calls \/ (state_told \in {NoNews, <<current_state'>>}),
         "info" \in calls \/ (info_told \in {NoNews, <<position'>>}),
         CallNext(t, calls)
  PROVE  PlaybackInv'
<1>. USE CallersAssumption
<1>1. t # NoThread /\ Nobody \notin Callbacks
  BY DEF Callbacks, Nobody
<1>2. CASE calls = {}
  <2>1. playback_mutex' = NoThread /\ inside' = Nobody /\ due' = {}
        /\ state_told' = state_told /\ info_told' = info_told
    BY <1>2 DEF CallNext, Nobody
  <2>2. PlaybackTypeOK'
    BY <1>2, <2>1 DEF PlaybackInv, PlaybackTypeOK
  <2>3. PlaybackWithdrawn' /\ PlaybackControlled'
    BY <2>1 DEF PlaybackWithdrawn, PlaybackControlled, Nobody
  <2>4. PlaybackUpToDate'
    BY <1>2, <2>1 DEF PlaybackInv, PlaybackUpToDate
  <2>. QED  BY <2>2, <2>3, <2>4 DEF PlaybackInv
<1>3. CASE "state" \in calls
  <2>1. playback_mutex' = t /\ inside' = "state" /\ due' = calls \ {"state"}
        /\ state_told' = <<current_state'>> /\ info_told' = info_told
    BY <1>3 DEF CallNext, First
  <2>2. PlaybackTypeOK'
    BY <2>1 DEF PlaybackInv, PlaybackTypeOK, Callbacks
  <2>3. PlaybackWithdrawn' /\ PlaybackControlled'
    BY <1>1, <1>3, <2>1 DEF PlaybackWithdrawn, PlaybackControlled, Nobody
  <2>4. PlaybackUpToDate'
    BY <1>3, <2>1 DEF PlaybackInv, PlaybackUpToDate
  <2>. QED  BY <2>2, <2>3, <2>4 DEF PlaybackInv
<1>4. CASE calls = {"info"}
  <2>1. playback_mutex' = t /\ inside' = "info" /\ due' = {}
        /\ state_told' = state_told /\ info_told' = <<position'>>
    BY <1>4 DEF CallNext, First
  <2>2. PlaybackTypeOK'
    BY <2>1 DEF PlaybackInv, PlaybackTypeOK, Callbacks
  <2>3. PlaybackWithdrawn' /\ PlaybackControlled'
    BY <1>1, <1>4, <2>1 DEF PlaybackWithdrawn, PlaybackControlled, Nobody
  <2>4. PlaybackUpToDate'
    BY <1>4, <2>1 DEF PlaybackInv, PlaybackUpToDate
  <2>. QED  BY <2>2, <2>3, <2>4 DEF PlaybackInv
<1>. QED  BY <1>2, <1>3, <1>4 DEF Callbacks

(* The functions differ only in what they change and whom they have news   *)
(* for; each has news for all whose part it changes.                       *)
LEMMA TellKeeps ==
  ASSUME PlaybackInv,
         NEW t \in Threads, NEW news \in SUBSET Callbacks,
         Tell(t, news),
         current_state' \in States, position' \in Positions,
         current_state' # current_state => "state" \in news,
         position' # position => "info" \in news
  PROVE  PlaybackInv'
<1>. DEFINE calls == news \cap listening
<1>1. /\ calls \in SUBSET Callbacks /\ calls \subseteq listening
      /\ listening' = listening /\ CallNext(t, calls)
  BY DEF Tell
<1>2. due = {}
  BY DEF Tell, PlaybackInv, PlaybackControlled
<1>3. /\ "state" \in calls \/ (state_told \in {NoNews, <<current_state'>>})
      /\ "info" \in calls \/ (info_told \in {NoNews, <<position'>>})
  BY <1>2 DEF PlaybackInv, PlaybackUpToDate
<1>. QED  BY <1>1, <1>3, CallNextKeeps

LEMMA CallKeeps ==
  ASSUME PlaybackInv, NEW t \in Threads, PlaybackCall(t)
  PROVE  PlaybackInv'
<1>. USE PlaybackAssumption DEF Callbacks
<1>. current_state \in States /\ position \in Positions
  BY DEF PlaybackInv, PlaybackTypeOK
<1>1. CASE PlaybackPlay(t)
  BY <1>1, TellKeeps DEF PlaybackPlay
<1>2. CASE PlaybackPause(t)
  BY <1>2, TellKeeps DEF PlaybackPause
<1>3. CASE PlaybackStop(t)
  BY <1>3, TellKeeps DEF PlaybackStop
<1>4. CASE PlaybackSkip(t)
  BY <1>4, TellKeeps DEF PlaybackSkip
<1>5. CASE PlaybackSetState(t)
  BY <1>5, TellKeeps DEF PlaybackSetState
<1>6. CASE PlaybackSetInfo(t)
  BY <1>6, TellKeeps DEF PlaybackSetInfo
<1>7. CASE PlaybackListen
  <2>1. inside = Nobody /\ due = {} /\ inside' = Nobody /\ due' = {}
        /\ playback_mutex' = NoThread
    BY <1>7 DEF PlaybackListen, PlaybackInv, PlaybackControlled
  <2>2. PlaybackTypeOK'
    BY <1>7 DEF PlaybackListen, PlaybackInv, PlaybackTypeOK
  <2>3. PlaybackWithdrawn' /\ PlaybackControlled'
    BY <2>1 DEF PlaybackWithdrawn, PlaybackControlled, Nobody
  <2>4. PlaybackUpToDate'
    BY <1>7, <2>1 DEF PlaybackListen, PlaybackInv, PlaybackUpToDate
  <2>. QED  BY <2>2, <2>3, <2>4 DEF PlaybackInv
<1>8. CASE PlaybackCleanup
  <2>1. inside = Nobody /\ due = {} /\ inside' = Nobody /\ due' = {}
        /\ playback_mutex' = NoThread
    BY <1>8 DEF PlaybackCleanup, PlaybackInv, PlaybackControlled
  <2>2. PlaybackTypeOK'
    BY <1>8 DEF PlaybackCleanup, PlaybackInv, PlaybackTypeOK
  <2>3. PlaybackWithdrawn' /\ PlaybackControlled' /\ PlaybackUpToDate'
    BY <1>8, <2>1 DEF PlaybackCleanup, PlaybackWithdrawn, PlaybackControlled,
                      PlaybackUpToDate, Nobody
  <2>. QED  BY <2>2, <2>3 DEF PlaybackInv
<1>9. CASE PlaybackLook
  BY <1>9 DEF PlaybackLook, playback, PlaybackInv, PlaybackTypeOK, PlaybackWithdrawn,
              PlaybackControlled, PlaybackUpToDate
<1>. QED  BY <1>1, <1>2, <1>3, <1>4, <1>5, <1>6, <1>7, <1>8, <1>9 DEF PlaybackCall

LEMMA ReturnKeeps ==
  ASSUME PlaybackInv, NEW t \in Threads, PlaybackReturn(t)
  PROVE  PlaybackInv'
<1>1. /\ due \in SUBSET Callbacks /\ due \subseteq listening
      /\ current_state' = current_state /\ position' = position
      /\ listening' = listening /\ CallNext(t, due)
  BY DEF PlaybackReturn, PlaybackInv, PlaybackTypeOK, PlaybackWithdrawn
<1>2. current_state \in States /\ position \in Positions
  BY DEF PlaybackInv, PlaybackTypeOK
<1>3. /\ "state" \in due \/ (state_told \in {NoNews, <<current_state'>>})
      /\ "info" \in due \/ (info_told \in {NoNews, <<position'>>})
  BY <1>1 DEF PlaybackInv, PlaybackUpToDate
<1>. QED  BY <1>1, <1>2, <1>3, CallNextKeeps

LEMMA PlaybackStep == PlaybackInv /\ [PlaybackNext]_playback => PlaybackInv'
<1>. SUFFICES ASSUME PlaybackInv, [PlaybackNext]_playback PROVE PlaybackInv'
  OBVIOUS
<1>1. CASE UNCHANGED playback
  BY <1>1 DEF playback, PlaybackInv, PlaybackTypeOK, PlaybackWithdrawn,
              PlaybackControlled, PlaybackUpToDate
<1>2. CASE PlaybackNext
  BY <1>2, CallKeeps, ReturnKeeps DEF PlaybackNext
<1>. QED  BY <1>1, <1>2

(* The inductive invariant of playback control.                            *)
THEOREM PlaybackInvariant == PlaybackSpec => []PlaybackInv
BY PlaybackStarts, PlaybackStep, PTL DEF PlaybackSpec

(* Every variable of playback control keeps its type.                      *)
THEOREM PlaybackTypes == PlaybackSpec => []PlaybackTypeOK
<1>1. PlaybackInv => PlaybackTypeOK
  BY DEF PlaybackInv
<1>. QED  BY <1>1, PlaybackInvariant, PTL

(* Listeners hear of the present state and position whenever no call is    *)
(* under way, and of the state before the position it goes with.           *)
THEOREM ListenersHear == PlaybackSpec => []PlaybackHeard
<1>1. PlaybackInv => PlaybackHeard
  BY DEF PlaybackInv, PlaybackControlled, PlaybackUpToDate, PlaybackHeard, Nobody
<1>. QED  BY <1>1, PlaybackInvariant, PTL

(* No call of a listener is under way or to come once it was withdrawn.    *)
THEOREM WithdrawnStaySilent == PlaybackSpec => []PlaybackWithdrawn
<1>1. PlaybackInv => PlaybackWithdrawn
  BY DEF PlaybackInv
<1>. QED  BY <1>1, PlaybackInvariant, PTL

==============================================================================
