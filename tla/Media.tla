-------------------------------- MODULE Media --------------------------------
(***************************************************************************)
(* Volume control and audio output together, called by any threads.        *)
(* Volume control sets the output under its own mutex.  Its listener is    *)
(* code of the application, runs under that mutex too, and may in turn     *)
(* call the output, one call at a time; it must not call volume control,   *)
(* whose mutex its own thread holds.  This rule is the application's to    *)
(* keep; the component cannot.                                             *)
(***************************************************************************)
EXTENDS VolumeControl

VARIABLE want     \* the mutex a listener's call waits for, by thread

mediaVars == <<audio, volume, want>>

Mutexes == {"volume", "audio"}
NoMutex == "none"
Rank    == [volume |-> 1, audio |-> 2]

Owner == [volume |-> volume_mutex, audio |-> audio_mutex]

Holds(t) == {m \in Mutexes : Owner[m] = t}

MediaInit ==
  /\ AudioInit /\ VolumeInit
  /\ want = [t \in Threads |-> NoMutex]

(* t runs the volume listener, and is in no call of the listener's.        *)
Listens(t) ==
  volume_step = "inside" /\ Holds(t) = {"volume"} /\ want[t] = NoMutex

(* Faulty variant of Ask: the listener calls volume control back.          *)
Ask_CallsBack(t) ==
  /\ Listens(t)
  /\ \E m \in Mutexes : want' = [want EXCEPT ![t] = m]
  /\ UNCHANGED <<audio, volume>>

(* The listener makes a call.                                              *)
Ask(t) ==
  /\ Listens(t)
  /\ want' = [want EXCEPT ![t] = "audio"]
  /\ UNCHANGED <<audio, volume>>

(* A thread enters the component under m: in a call of its own, or in one  *)
(* its listener waits to make.                                             *)
Enters(t, m) ==
  /\ want[t] = m \/ Holds(t) = {}
  /\ want' = [want EXCEPT ![t] = NoMutex]

EnterAudio(t)  == Enters(t, "audio") /\ AudioCall(t) /\ UNCHANGED volume
EnterVolume(t) == Enters(t, "volume") /\ VolumeCall(t)

OutputGoesOn(t) == AudioGoesOn(t) /\ UNCHANGED <<volume, want>>
ApplyVolume(t)  == VolumeApply(t) /\ UNCHANGED want
Return(t)       == Listens(t) /\ VolumeReturn(t) /\ UNCHANGED want
DeviceGoesOn    == DevicePlays /\ UNCHANGED <<volume, want>>

MediaNext ==
  \/ DeviceGoesOn
  \/ \E t \in Threads :
       \/ Ask(t) \/ EnterAudio(t) \/ EnterVolume(t)
       \/ OutputGoesOn(t) \/ ApplyVolume(t) \/ Return(t)

MediaSafety == MediaInit /\ [][MediaNext]_mediaVars

(* The device plays and the scheduler runs every thread.  A thread that    *)
(* waits for a mutex gets it if it becomes free again and again, and a     *)
(* listener does not make calls for ever.                                  *)
MediaFairness ==
  /\ WF_mediaVars(DeviceGoesOn)
  /\ \A t \in Threads :
       /\ WF_mediaVars(OutputGoesOn(t))
       /\ SF_mediaVars(ApplyVolume(t))
       /\ SF_mediaVars(want[t] = "audio" /\ EnterAudio(t))
       /\ SF_mediaVars(Return(t))

MediaSpec == MediaSafety /\ MediaFairness
----------------------------------------------------------------------------
(* t is in audio_output_cleanup, and has called audio_output_stop.         *)
Stuck(t) == audio_mutex = t /\ audio_step = "stuck"

Wants(t) ==
  IF Stuck(t) \/ (volume_mutex = t /\ volume_step = "apply")
    THEN "audio" ELSE want[t]

Locks == INSTANCE LockOrder WITH
  holds <- [t \in Threads |-> Holds(t)],
  wants <- [t \in Threads |-> Wants(t)],
  Relocked <- {"audio"}

MediaTypeOK ==
  /\ AudioTypeOK /\ VolumeTypeOK
  /\ want \in [Threads -> Mutexes \cup {NoMutex}]

(* volume_mutex is never waited for under audio_mutex, by no path through  *)
(* the components and the listener, and no thread waits for a mutex it     *)
(* holds but for audio_mutex: the threads follow LockOrder's rule.         *)
KeepsLockOrder == Locks!LockSpec

(* Every mutex that is taken is released, though threads sleep in the      *)
(* driver and in the listener with it held, unless a running output was    *)
(* cleaned up.                                                             *)
MutexesAreReleased ==
  \A m \in Mutexes :
    Owner[m] # NoThread ~> Owner[m] = NoThread \/ audio_step = "stuck"

==============================================================================
