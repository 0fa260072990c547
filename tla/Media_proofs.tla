----------------------------- MODULE Media_proofs -----------------------------
(***************************************************************************)
(* Proofs about volume control over the audio output: what the output has  *)
(* of the system, what the device is set to, what the listener hears, and  *)
(* that the threads keep the order of the mutexes.                         *)
(***************************************************************************)
EXTENDS Media, TLAPS

(* audio_mutex is held exactly while its owner sleeps in the driver or for *)
(* ever, and only a running output makes it sleep.                         *)
AudioHeld ==
  /\ audio_mutex = NoThread <=> audio_step = "idle"
  /\ audio_step # "idle" => is_running

(* The ring holds data only while the device plays, and a device that lost *)
(* the last write done has been prepared since and not been written to, or *)
(* is still where it ran empty.                                            *)
RingMatchesDevice ==
  /\ pcm # "running" => fill = 0
  /\ lost = "lost" => pcm = "prepared"
  /\ lost = "unprepared" => pcm = "xrun"

AudioInv == AudioTypeOK /\ AudioHeld /\ OutputLedger /\ RingMatchesDevice

LEMMA RingBounds == RING \in Nat /\ 0 \in 0 .. RING
BY AudioAssumption

LEMMA AudioStarts == AudioInit => AudioInv
<1>. SUFFICES ASSUME AudioInit PROVE AudioInv
  OBVIOUS
<1>1. DEFAULT_CONFIG \in Settings /\ DEFAULT_BUFFER_SIZE \in Sizes
  BY DEF Settings, Sizes
<1>2. Format(DEFAULT_CONFIG) \in [bits : Nat, channels : Nat]
  BY <1>1, AudioAssumption DEF Format
<1>3. AudioTypeOK
  <2>. QED  BY <1>1, <1>2, RingBounds DEF AudioInit, AudioTypeOK
<1>4. OutputLedger
  BY <1>1, AudioAssumption DEF AudioInit, OutputLedger
<1>. QED  BY <1>3, <1>4 DEF AudioInit, AudioInv, AudioHeld, RingMatchesDevice

(* The steps that leave the output, its blocks and its device alone.       *)
LEMMA LookKeepsAudio ==
  ASSUME AudioInv, UNCHANGED <<output, device, blocks>>,
         audio_mutex' \in Threads \cup {NoThread},
         audio_step' \in {"idle", "write", "drain", "stuck"},
         audio_mutex' = NoThread <=> audio_step' = "idle",
         audio_step' # "idle" => is_running,
         hw_level' \in Volumes, by_control' \in BOOLEAN
  PROVE  AudioInv'
BY DEF AudioInv, AudioTypeOK, AudioHeld, OutputLedger, RingMatchesDevice, output, device

LEMMA SetVolumeKeepsAudio ==
  ASSUME AudioInv, NEW level \in Volumes, NEW for_control \in BOOLEAN,
         AudioSetVolume(level, for_control)
  PROVE  AudioInv'
<1>1. UNCHANGED <<audio_mutex, audio_step, output, device, blocks>>
      /\ hw_level' \in Volumes /\ by_control' \in BOOLEAN
  BY DEF AudioSetVolume, Briefly, audio_lock, AudioInv, AudioTypeOK
<1>. QED  BY <1>1, LookKeepsAudio DEF AudioInv, AudioTypeOK, AudioHeld

(* Whichever allocation fails, the block is the one the buffer points to.  *)
LEMMA BufferKeepsAudio ==
  ASSUME AudioInv, AudioSetBufferSize
  PROVE  AudioInv'
<1>1. PICK size \in BufferSizes :
        \/ audio_buffer' = size /\ buffer_size' = size /\ blocks' = Freed + 1
        \/ audio_buffer' = DEFAULT_BUFFER_SIZE /\ buffer_size' = DEFAULT_BUFFER_SIZE
           /\ blocks' = Freed + 1
        \/ audio_buffer' = 0 /\ buffer_size' = DEFAULT_BUFFER_SIZE /\ blocks' = Freed
  BY DEF AudioSetBufferSize
<1>2. Freed = 0
  BY DEF Freed, AudioInv, OutputLedger
<1>3. size \in Sizes /\ DEFAULT_BUFFER_SIZE \in Sizes /\ 0 \notin Sizes
  BY AudioAssumption DEF Sizes
<1>4. UNCHANGED <<audio_mutex, audio_step, pcm_handle, is_running, current_config,
                  handles, stream, pcm, fill, lost, hw_level, by_control>>
  BY DEF AudioSetBufferSize, Briefly, audio_lock, device, mixer
<1>5. AudioTypeOK'
  BY <1>1, <1>2, <1>3, <1>4 DEF AudioInv, AudioTypeOK
<1>6. OutputLedger'
  BY <1>1, <1>2, <1>3, <1>4 DEF AudioInv, OutputLedger
<1>. QED  BY <1>4, <1>5, <1>6 DEF AudioInv, AudioHeld, RingMatchesDevice

LEMMA StartKeepsAudio ==
  ASSUME AudioInv, AudioStart
  PROVE  AudioInv'
<1>1. UNCHANGED <<audio_mutex, audio_step, current_config, audio_buffer, buffer_size,
                  blocks, lost, hw_level, by_control>>
      /\ audio_step = "idle" /\ ~is_running /\ ~pcm_handle /\ handles = 0 /\ lost = "no"
  BY DEF AudioStart, StartFails, StartSucceeds, Briefly, audio_lock, device, mixer,
         AudioInv, AudioTypeOK, AudioHeld, OutputLedger, RingMatchesDevice
<1>2. CASE StartFails
  BY <1>1, <1>2 DEF StartFails, device, AudioInv, AudioTypeOK, AudioHeld, OutputLedger,
                    RingMatchesDevice
<1>3. CASE StartSucceeds
  <2>1. stream' \in [bits : Nat, channels : Nat]
    <3>1. current_config \in [bits : Nat, channels : Nat, hw : BOOLEAN]
      BY AudioAssumption DEF AudioInv, AudioTypeOK
    <3>. QED  BY <1>3, <3>1 DEF StartSucceeds, Format
  <2>2. AudioTypeOK'
    BY <1>1, <1>3, <2>1, AudioAssumption DEF StartSucceeds, AudioInv, AudioTypeOK
  <2>3. OutputLedger'
    <3>1. is_running' = TRUE /\ pcm_handle' = TRUE /\ handles' = 1 /\ pcm' = "prepared"
      BY <1>1, <1>3 DEF StartSucceeds
    <3>2. (pcm' # "closed") = TRUE
      BY <3>1
    <3>. QED  BY <1>1, <3>1, <3>2 DEF AudioInv, OutputLedger
  <2>4. AudioHeld' /\ RingMatchesDevice'
    BY <1>1, <1>3 DEF StartSucceeds, AudioInv, AudioHeld, RingMatchesDevice
  <2>. QED  BY <2>2, <2>3, <2>4 DEF AudioInv
<1>. QED  BY <1>2, <1>3 DEF AudioStart

LEMMA CallKeepsAudio ==
  ASSUME AudioInv, NEW t \in Threads, AudioCall(t)
  PROVE  AudioInv'
<1>1. t # NoThread
  BY CallersAssumption
<1>2. CASE AudioLook
  BY <1>2 DEF AudioLook, Briefly, audio_lock, output, device, mixer, AudioInv, AudioTypeOK,
              AudioHeld, OutputLedger, RingMatchesDevice
<1>3. CASE AudioConfigure
  BY <1>3 DEF AudioConfigure, Briefly, audio_lock, device, mixer, Settings, AudioInv, AudioTypeOK,
              AudioHeld, OutputLedger, RingMatchesDevice
<1>4. CASE AudioStart
  BY <1>4, StartKeepsAudio
<1>5. CASE BeginStop(t)
  BY <1>1, <1>5, LookKeepsAudio DEF BeginStop, Sleep, mixer, AudioInv, AudioTypeOK
<1>6. CASE BeginWrite(t)
  BY <1>1, <1>6, LookKeepsAudio DEF BeginWrite, Sleep, mixer, AudioInv, AudioTypeOK
<1>7. CASE AudioSetBufferSize
  BY <1>7, BufferKeepsAudio
<1>8. CASE AudioCleanup(t)
  <2>1. CASE is_running
    BY <1>1, <1>8, <2>1, LookKeepsAudio DEF AudioCleanup, Sleep, mixer, AudioInv, AudioTypeOK
  <2>2. CASE ~is_running
    <3>1. ~pcm_handle /\ handles = 0 /\ pcm = "closed" /\ Freed = 0
      <4>1. Freed = 0
        BY DEF Freed, AudioInv, OutputLedger
      <4>2. ~pcm_handle
        BY <2>2 DEF AudioInv, OutputLedger
      <4>. QED  BY <4>1, <4>2 DEF AudioInv, OutputLedger
    <3>2. /\ UNCHANGED <<audio_mutex, audio_step, is_running, current_config, buffer_size,
                         stream, fill, lost, hw_level, by_control>>
          /\ handles' = 0 /\ pcm_handle' = FALSE /\ pcm' = "closed"
          /\ blocks' = 0 /\ audio_buffer' = 0
      BY <1>8, <2>2, <3>1 DEF AudioCleanup, Briefly, audio_lock, mixer
    <3>3. AudioTypeOK' /\ OutputLedger'
      BY <2>2, <3>2 DEF AudioInv, AudioTypeOK, OutputLedger
    <3>. QED  BY <3>1, <3>2, <3>3 DEF AudioInv, AudioHeld, RingMatchesDevice
  <2>. QED  BY <2>1, <2>2
<1>9. ASSUME NEW level \in Volumes, AudioSetVolume(level, FALSE) PROVE AudioInv'
  BY <1>9, SetVolumeKeepsAudio
<1>. QED  BY <1>2, <1>3, <1>4, <1>5, <1>6, <1>7, <1>8, <1>9 DEF AudioCall

LEMMA GoesOnKeepsAudio ==
  ASSUME AudioInv, NEW t \in Threads, AudioGoesOn(t)
  PROVE  AudioInv'
<1>1. audio_step # "idle" => pcm_handle /\ is_running
  BY DEF AudioInv, AudioHeld, OutputLedger
<1>2. CASE EndStop(t)
  <2>1. /\ handles' = 0 /\ pcm_handle' = FALSE /\ is_running' = FALSE
        /\ pcm' = "closed" /\ lost' = "no" /\ fill' = 0
        /\ audio_mutex' = NoThread /\ audio_step' = "idle"
        /\ UNCHANGED <<current_config, audio_buffer, buffer_size, stream, blocks, hw_level, by_control>>
    BY <1>1, <1>2 DEF EndStop, Done, mixer, AudioInv, OutputLedger
  <2>2. AudioTypeOK'
    BY <2>1, RingBounds DEF AudioInv, AudioTypeOK
  <2>3. OutputLedger'
    BY <2>1 DEF AudioInv, OutputLedger
  <2>. QED  BY <2>1, <2>2, <2>3 DEF AudioInv, AudioHeld, RingMatchesDevice
<1>3. CASE Written(t)
  <2>1. AudioTypeOK'
    <3>1. fill + 1 \in 0 .. RING
      BY <1>3, RingBounds DEF Written, AudioInv, AudioTypeOK
    <3>. QED  BY <1>3, <3>1 DEF Written, Done, output, mixer, AudioInv, AudioTypeOK
  <2>2. OutputLedger'
    BY <1>3 DEF Written, output, AudioInv, OutputLedger
  <2>. QED  BY <1>3, <2>1, <2>2 DEF Written, Done, AudioInv, AudioHeld, RingMatchesDevice
<1>4. CASE Underrun(t)
  BY <1>1, <1>4
  DEF Underrun, Done, output, mixer, AudioInv, AudioTypeOK, AudioHeld, OutputLedger, RingMatchesDevice
<1>5. CASE WriteFails(t)
  BY <1>5, LookKeepsAudio DEF WriteFails, Done, mixer, AudioInv, AudioTypeOK
<1>. QED  BY <1>2, <1>3, <1>4, <1>5 DEF AudioGoesOn, EndWrite

LEMMA DeviceKeepsAudio ==
  ASSUME AudioInv, DevicePlays
  PROVE  AudioInv'
BY AudioAssumption
DEF DevicePlays, audio_lock, output, mixer, AudioInv, AudioTypeOK, AudioHeld, OutputLedger,
    RingMatchesDevice

----------------------------------------------------------------------------
VolumeLocked == volume_mutex = NoThread <=> volume_step = "idle"

(* A listener that has heard of a volume is still there, and what it heard *)
(* is out of date only while the change is on its way to the output.       *)
ListenerUpToDate ==
  /\ volume_told # NoNews => volume_callback
  /\ volume_told # NoNews /\ volume_step # "apply" =>
       volume_told = <<current_volume, is_muted>>

VolumeInv == VolumeTypeOK /\ VolumeLocked /\ ListenerUpToDate /\ VolumeWithdrawn

(* Only the listener's own thread waits, and only for audio_mutex.         *)
ListenerWaits ==
  \A t \in Threads : want[t] # NoMutex =>
    want[t] = "audio" /\ volume_mutex = t /\ volume_step = "inside" /\ audio_mutex # t

(* A thread has both mutexes only where its listener calls the output.     *)
BothHeldInside ==
  audio_mutex = volume_mutex /\ audio_mutex # NoThread => volume_step = "inside"

(* The mixer is out of date only while the change is on its way to it.     *)
MixerUpToDate == by_control /\ volume_step # "apply" => hw_level = Effective

MediaInv ==
  AudioInv /\ VolumeInv /\ MixerUpToDate /\ want \in [Threads -> Mutexes \cup {NoMutex}]
  /\ ListenerWaits /\ BothHeldInside

LEMMA VolumeStarts == VolumeInit => VolumeInv
<1>1. MAX_VOLUME \div 2 \in Volumes
  BY AudioAssumption DEF Volumes
<1>. QED  BY <1>1 DEF VolumeInit, VolumeInv, VolumeTypeOK, VolumeLocked, ListenerUpToDate,
                      VolumeWithdrawn

LEMMA EffectiveIsVolume == VolumeInv => Effective \in Volumes
<1>1. 0 \in Volumes
  BY AudioAssumption DEF Volumes
<1>. QED  BY <1>1 DEF VolumeInv, VolumeTypeOK, Effective

(* A step up or down stops at the ends of the range.                       *)
LEMMA ChangeStaysInRange ==
  ASSUME VolumeInv, SetVolume \/ SetMute \/ StepUp \/ StepDown
  PROVE  current_volume' \in Volumes /\ is_muted' \in BOOLEAN
<1>1. current_volume \in Volumes /\ is_muted \in BOOLEAN
  BY DEF VolumeInv, VolumeTypeOK
<1>2. CASE SetVolume \/ SetMute
  BY <1>1, <1>2 DEF SetVolume, SetMute
<1>3. CASE StepUp
  <2>1. MAX_VOLUME \in Nat
    BY AudioAssumption
  <2>. QED  BY <1>1, <1>3, <2>1 DEF StepUp, Volumes
<1>4. CASE StepDown
  <2>1. MAX_VOLUME \in Nat
    BY AudioAssumption
  <2>. QED  BY <1>1, <1>4, <2>1 DEF StepDown, Volumes
<1>. QED  BY <1>2, <1>3, <1>4

LEMMA CallKeepsVolume ==
  ASSUME VolumeInv, NEW t \in Threads, VolumeCall(t)
  PROVE  VolumeInv' /\ UNCHANGED audio
<1>1. t # NoThread
  BY CallersAssumption
<1>2. CASE VolumeChange(t)
  BY <1>1, <1>2, ChangeStaysInRange
  DEF VolumeChange, VolumeInv, VolumeTypeOK, VolumeLocked, ListenerUpToDate, VolumeWithdrawn
<1>3. CASE VolumeListen
  BY <1>3
  DEF VolumeListen, volume_lock, VolumeInv, VolumeTypeOK, VolumeLocked, ListenerUpToDate,
      VolumeWithdrawn
<1>4. CASE VolumeLook
  BY <1>4
  DEF VolumeLook, volume, volume_lock, VolumeInv, VolumeTypeOK, VolumeLocked,
      ListenerUpToDate, VolumeWithdrawn
<1>. QED  BY <1>2, <1>3, <1>4 DEF VolumeCall

LEMMA ApplyKeepsVolume ==
  ASSUME VolumeInv, NEW t \in Threads, VolumeApply(t)
  PROVE  VolumeInv'
<1>1. t # NoThread /\ current_volume \in Volumes /\ is_muted \in BOOLEAN
  BY CallersAssumption DEF VolumeInv, VolumeTypeOK
<1>2. CASE volume_callback
  BY <1>1, <1>2
  DEF VolumeApply, VolumeInv, VolumeTypeOK, VolumeLocked, ListenerUpToDate, VolumeWithdrawn
<1>3. CASE ~volume_callback
  BY <1>1, <1>3
  DEF VolumeApply, VolumeInv, VolumeTypeOK, VolumeLocked, ListenerUpToDate, VolumeWithdrawn
<1>. QED  BY <1>2, <1>3

LEMMA ReturnKeepsVolume ==
  ASSUME VolumeInv, NEW t \in Threads, VolumeReturn(t)
  PROVE  VolumeInv'
BY DEF VolumeReturn, VolumeInv, VolumeTypeOK, VolumeLocked, ListenerUpToDate, VolumeWithdrawn

(* What each step does to the mutexes. One is taken only when it is free,  *)
(* and released only by its owner.                                         *)
LEMMA CallTakesAudio ==
  ASSUME NEW t \in Threads, AudioCall(t)
  PROVE  audio_mutex = NoThread /\ audio_mutex' \in {t, NoThread}
BY DEF AudioCall, AudioLook, AudioConfigure, AudioStart, StartFails, StartSucceeds, BeginStop,
       BeginWrite, AudioSetBufferSize, AudioCleanup, AudioSetVolume, Briefly, Sleep, audio_lock

LEMMA GoesOnReleasesAudio ==
  ASSUME NEW t \in Threads, AudioGoesOn(t)
  PROVE  audio_mutex = t /\ audio_mutex' = NoThread /\ audio_step # "stuck"
BY DEF AudioGoesOn, EndStop, EndWrite, Written, Underrun, WriteFails, Done

LEMMA CallTakesVolume ==
  ASSUME NEW t \in Threads, VolumeCall(t)
  PROVE  /\ volume_mutex = NoThread
         /\ \/ UNCHANGED volume_lock
            \/ volume_mutex' = t /\ volume_step' = "apply"
BY DEF VolumeCall, VolumeChange, VolumeListen, VolumeLook, volume

LEMMA ApplyKeepsOrReleases ==
  ASSUME NEW t \in Threads, VolumeApply(t)
  PROVE  /\ UNCHANGED audio_lock /\ audio_mutex = NoThread
         /\ volume_mutex = t /\ volume_step = "apply"
         /\ \/ volume_mutex' = t /\ volume_step' = "inside"
            \/ volume_mutex' = NoThread /\ volume_step' = "idle"
BY DEF VolumeApply, AudioSetVolume, Briefly

LEMMA MixerStarts == MediaInit => MixerUpToDate
BY DEF MediaInit, AudioInit, MixerUpToDate

(* A call of the output, by a thread or by the listener, leaves the mixer  *)
(* alone or takes it from volume control.                                  *)
LEMMA CallKeepsMixer ==
  ASSUME NEW t \in Threads, AudioCall(t) \/ AudioGoesOn(t), UNCHANGED volume, MixerUpToDate
  PROVE  MixerUpToDate'
<1>1. UNCHANGED mixer \/ by_control' = FALSE
  <2>1. CASE \E level \in Volumes : AudioSetVolume(level, FALSE)
    BY <2>1 DEF AudioSetVolume, mixer
  <2>2. CASE AudioCall(t) /\ ~\E level \in Volumes : AudioSetVolume(level, FALSE)
    BY <2>2 DEF AudioCall, AudioLook, AudioConfigure, AudioStart, StartFails, StartSucceeds,
                BeginStop, BeginWrite, AudioSetBufferSize, AudioCleanup
  <2>3. CASE AudioGoesOn(t)
    BY <2>3 DEF AudioGoesOn, EndStop, EndWrite, Written, Underrun, WriteFails
  <2>. QED  BY <2>1, <2>2, <2>3
<1>2. UNCHANGED <<volume_step, current_volume, is_muted>>
  BY DEF volume, volume_lock
<1>. QED  BY <1>1, <1>2 DEF mixer, MixerUpToDate, Effective

(* A change made by volume control sets the mixer before it is over.       *)
LEMMA ControlKeepsMixer ==
  ASSUME NEW t \in Threads, VolumeCall(t) \/ VolumeApply(t) \/ VolumeReturn(t), MixerUpToDate
  PROVE  MixerUpToDate'
<1>1. CASE VolumeChange(t)
  BY <1>1 DEF VolumeChange, MixerUpToDate
<1>2. CASE VolumeListen \/ VolumeLook \/ VolumeReturn(t)
  <2>1. UNCHANGED <<mixer, current_volume, is_muted>> /\ (volume_step' = "apply" => volume_step = "apply")
        /\ (volume_step = "apply" => volume_step' = "apply")
    BY <1>2 DEF VolumeListen, VolumeLook, VolumeReturn, volume, volume_lock, audio
  <2>. QED  BY <2>1 DEF mixer, MixerUpToDate, Effective
<1>3. CASE VolumeApply(t)
  BY <1>3 DEF VolumeApply, AudioSetVolume, MixerUpToDate, Effective
<1>. QED  BY <1>1, <1>2, <1>3 DEF VolumeCall

LEMMA HoldsMeans ==
  ASSUME NEW t \in Threads
  PROVE  /\ "volume" \in Holds(t) <=> volume_mutex = t
         /\ "audio" \in Holds(t) <=> audio_mutex = t
         /\ Holds(t) \subseteq Mutexes
BY DEF Holds, Owner, Mutexes
----------------------------------------------------------------------------
(* What a step of t does to the mutexes and to those that wait for them.   *)
StepOf(t) ==
  /\ Wants(t) = "audio" => audio_mutex = NoThread
  /\ \/ audio_mutex' = audio_mutex /\ audio_step' = audio_step
     \/ audio_mutex \in {t, NoThread} /\ audio_mutex' \in {t, NoThread}
  /\ \/ volume_mutex' = volume_mutex /\ volume_step' = volume_step
     \/ volume_mutex \in {t, NoThread} /\ volume_mutex' \in {t, NoThread}
  /\ \A u \in Threads \ {t} : want'[u] = want[u]

LEMMA MediaStarts == MediaInit => MediaInv
<1>. SUFFICES ASSUME MediaInit PROVE MediaInv
  OBVIOUS
<1>1. AudioInv /\ VolumeInv
  BY AudioStarts, VolumeStarts DEF MediaInit
<1>2. ListenerWaits /\ BothHeldInside /\ want \in [Threads -> Mutexes \cup {NoMutex}]
  BY DEF MediaInit, AudioInit, ListenerWaits, BothHeldInside
<1>. QED  BY <1>1, <1>2, MixerStarts DEF MediaInv

LEMMA AskKeeps ==
  ASSUME MediaInv, NEW t \in Threads, Ask(t)
  PROVE  MediaInv' /\ StepOf(t)
<1>1. /\ volume_step = "inside" /\ volume_mutex = t /\ audio_mutex # t /\ want[t] = NoMutex
  BY HoldsMeans DEF Ask, Listens
<1>2. want' \in [Threads -> Mutexes \cup {NoMutex}]
  BY DEF Ask, MediaInv, Mutexes
<1>3. \A u \in Threads : want'[u] = IF u = t THEN "audio" ELSE want[u]
  BY DEF Ask, MediaInv
<1>4. UNCHANGED <<audio, volume>>
  BY DEF Ask
<1>5. AudioInv'
  <2>1. UNCHANGED <<output, device, blocks, hw_level, by_control, audio_mutex, audio_step>>
    BY <1>4 DEF audio, audio_lock, mixer
  <2>. QED  BY <2>1, LookKeepsAudio DEF MediaInv, AudioInv, AudioTypeOK, AudioHeld
<1>6. VolumeInv'
  BY <1>4 DEF volume, volume_lock, MediaInv, VolumeInv, VolumeTypeOK, VolumeLocked,
              ListenerUpToDate, VolumeWithdrawn
<1>7. UNCHANGED <<audio_mutex, audio_step, volume_mutex, volume_step>>
  BY <1>4 DEF audio, audio_lock, volume, volume_lock
<1>8. ListenerWaits' /\ BothHeldInside'
  BY <1>1, <1>3, <1>7 DEF MediaInv, ListenerWaits, BothHeldInside
<1>9. StepOf(t)
  BY <1>1, <1>3, <1>7 DEF StepOf, Wants, Stuck, NoMutex
<1>10. MixerUpToDate'
  BY <1>4 DEF audio, mixer, volume, volume_lock, MediaInv, MixerUpToDate, Effective
<1>. QED  BY <1>2, <1>5, <1>6, <1>8, <1>9, <1>10 DEF MediaInv

(* A thread that enters waits no more; the others wait as they did.        *)
LEMMA EnteredMeans ==
  ASSUME MediaInv, NEW t \in Threads, NEW m \in Mutexes, Enters(t, m)
  PROVE  /\ want' \in [Threads -> Mutexes \cup {NoMutex}]
         /\ \A u \in Threads : want'[u] = IF u = t THEN NoMutex ELSE want[u]
         /\ want[t] = m \/ (volume_mutex # t /\ audio_mutex # t /\ want[t] = NoMutex)
<1>1. /\ want' \in [Threads -> Mutexes \cup {NoMutex}]
      /\ \A u \in Threads : want'[u] = IF u = t THEN NoMutex ELSE want[u]
  BY DEF Enters, MediaInv
<1>2. CASE Holds(t) = {}
  <2>1. volume_mutex # t /\ audio_mutex # t
    BY <1>2, HoldsMeans
  <2>. QED  BY <1>1, <2>1 DEF MediaInv, ListenerWaits
<1>. QED  BY <1>1, <1>2 DEF Enters

LEMMA EnterAudioKeeps ==
  ASSUME MediaInv, NEW t \in Threads, EnterAudio(t)
  PROVE  MediaInv' /\ StepOf(t)
<1>. USE CallersAssumption
<1>1. Enters(t, "audio") /\ AudioCall(t) /\ UNCHANGED volume /\ "audio" \in Mutexes
  BY DEF EnterAudio, Mutexes
<1>2. audio_mutex = NoThread /\ audio_mutex' \in {t, NoThread}
  BY <1>1, CallTakesAudio
<1>3. UNCHANGED <<volume_mutex, volume_step>>
  BY <1>1 DEF volume, volume_lock
<1>4. AudioInv'
  BY <1>1, CallKeepsAudio DEF MediaInv
<1>5. VolumeInv'
  BY <1>1 DEF volume, volume_lock, MediaInv, VolumeInv, VolumeTypeOK, VolumeLocked,
              ListenerUpToDate, VolumeWithdrawn
<1>6. /\ want' \in [Threads -> Mutexes \cup {NoMutex}]
      /\ \A u \in Threads : want'[u] = IF u = t THEN NoMutex ELSE want[u]
      /\ want[t] = "audio" \/ (volume_mutex # t /\ audio_mutex # t /\ want[t] = NoMutex)
  BY <1>1, EnteredMeans
<1>7. ListenerWaits'
  <2>. SUFFICES ASSUME NEW u \in Threads, want'[u] # NoMutex
                PROVE  want'[u] = "audio" /\ volume_mutex' = u /\ volume_step' = "inside"
                       /\ audio_mutex' # u
    BY DEF ListenerWaits
  <2>1. u # t /\ want'[u] = want[u] /\ u # NoThread
    BY <1>6
  <2>. QED  BY <1>2, <1>3, <2>1 DEF MediaInv, ListenerWaits
<1>8. BothHeldInside'
  <2>. SUFFICES ASSUME audio_mutex' = volume_mutex', audio_mutex' # NoThread
                PROVE  volume_step' = "inside"
    BY DEF BothHeldInside
  <2>1. volume_mutex = t
    BY <1>2, <1>3
  <2>2. want[t] = "audio" /\ "audio" # NoMutex
    BY <1>6, <2>1 DEF NoMutex
  <2>. QED  BY <1>3, <2>2 DEF MediaInv, ListenerWaits
<1>9. StepOf(t)
  BY <1>2, <1>3, <1>6 DEF StepOf
<1>10. MixerUpToDate'
  BY <1>1, CallKeepsMixer DEF MediaInv
<1>. QED  BY <1>4, <1>5, <1>6, <1>7, <1>8, <1>9, <1>10 DEF MediaInv

LEMMA EnterVolumeKeeps ==
  ASSUME MediaInv, NEW t \in Threads, EnterVolume(t)
  PROVE  MediaInv' /\ StepOf(t)
<1>. USE CallersAssumption
<1>1. Enters(t, "volume") /\ VolumeCall(t) /\ "volume" \in Mutexes
  BY DEF EnterVolume, Mutexes
<1>2. volume_mutex = NoThread /\ (UNCHANGED volume_lock \/ (volume_mutex' = t /\ volume_step' = "apply"))
  BY <1>1, CallTakesVolume
<1>3. VolumeInv' /\ UNCHANGED audio
  BY <1>1, CallKeepsVolume DEF MediaInv
<1>4. UNCHANGED <<audio_mutex, audio_step, output, device, blocks, hw_level, by_control>>
  BY <1>3 DEF audio, audio_lock, mixer
<1>5. AudioInv'
  BY <1>4, LookKeepsAudio DEF MediaInv, AudioInv, AudioTypeOK, AudioHeld
<1>6. /\ want' \in [Threads -> Mutexes \cup {NoMutex}]
      /\ \A u \in Threads : want'[u] = IF u = t THEN NoMutex ELSE want[u]
      /\ want[t] = "volume" \/ (volume_mutex # t /\ audio_mutex # t /\ want[t] = NoMutex)
  BY <1>1, EnteredMeans
<1>7. \A u \in Threads : want[u] = NoMutex
  BY <1>2 DEF MediaInv, ListenerWaits
<1>8. audio_mutex # t /\ want[t] = NoMutex
  BY <1>6, <1>7 DEF NoMutex
<1>9. ListenerWaits'
  BY <1>6, <1>7 DEF ListenerWaits
<1>10. BothHeldInside'
  BY <1>2, <1>4, <1>8 DEF BothHeldInside, MediaInv, volume_lock
<1>11. StepOf(t)
  BY <1>2, <1>4, <1>6, <1>8 DEF StepOf, volume_lock, Wants, Stuck, NoMutex
<1>12. MixerUpToDate'
  BY <1>1, ControlKeepsMixer DEF MediaInv
<1>. QED  BY <1>3, <1>5, <1>6, <1>9, <1>10, <1>11, <1>12 DEF MediaInv

LEMMA OutputGoesOnKeeps ==
  ASSUME MediaInv, NEW t \in Threads, OutputGoesOn(t)
  PROVE  MediaInv' /\ StepOf(t)
<1>. USE CallersAssumption
<1>1. AudioGoesOn(t) /\ UNCHANGED <<volume, want>>
  BY DEF OutputGoesOn
<1>2. audio_mutex = t /\ audio_mutex' = NoThread /\ audio_step # "stuck"
  BY <1>1, GoesOnReleasesAudio
<1>3. UNCHANGED <<volume_mutex, volume_step, want>>
  BY <1>1 DEF volume, volume_lock
<1>4. AudioInv'
  BY <1>1, GoesOnKeepsAudio DEF MediaInv
<1>5. VolumeInv'
  BY <1>1 DEF volume, volume_lock, MediaInv, VolumeInv, VolumeTypeOK, VolumeLocked,
              ListenerUpToDate, VolumeWithdrawn
<1>6. ListenerWaits' /\ BothHeldInside' /\ (want \in [Threads -> Mutexes \cup {NoMutex}])'
  BY <1>2, <1>3 DEF MediaInv, ListenerWaits, BothHeldInside
<1>7. Wants(t) # "audio"
  BY <1>2 DEF Wants, Stuck, MediaInv, ListenerWaits, BothHeldInside, NoMutex
<1>8. StepOf(t)
  BY <1>2, <1>3, <1>7 DEF StepOf
<1>9. MixerUpToDate'
  BY <1>1, CallKeepsMixer DEF MediaInv
<1>. QED  BY <1>4, <1>5, <1>6, <1>8, <1>9 DEF MediaInv

LEMMA ApplyKeeps ==
  ASSUME MediaInv, NEW t \in Threads, ApplyVolume(t)
  PROVE  MediaInv' /\ StepOf(t)
<1>. USE CallersAssumption
<1>1. VolumeApply(t) /\ want' = want
  BY DEF ApplyVolume
<1>2. /\ UNCHANGED audio_lock /\ audio_mutex = NoThread
      /\ volume_mutex = t /\ volume_step = "apply"
      /\ \/ volume_mutex' = t /\ volume_step' = "inside"
         \/ volume_mutex' = NoThread /\ volume_step' = "idle"
  BY <1>1, ApplyKeepsOrReleases
<1>3. AudioInv'
  BY <1>1, EffectiveIsVolume, SetVolumeKeepsAudio DEF VolumeApply, MediaInv
<1>4. VolumeInv'
  BY <1>1, ApplyKeepsVolume DEF MediaInv
<1>5. ListenerWaits' /\ BothHeldInside' /\ (want \in [Threads -> Mutexes \cup {NoMutex}])'
  BY <1>1, <1>2 DEF audio_lock, MediaInv, ListenerWaits, BothHeldInside
<1>6. StepOf(t)
  BY <1>1, <1>2 DEF StepOf, audio_lock
<1>7. MixerUpToDate'
  BY <1>1, ControlKeepsMixer DEF MediaInv
<1>. QED  BY <1>3, <1>4, <1>5, <1>6, <1>7 DEF MediaInv

LEMMA ReturnKeeps ==
  ASSUME MediaInv, NEW t \in Threads, Return(t)
  PROVE  MediaInv' /\ StepOf(t)
<1>. USE CallersAssumption
<1>1. Listens(t) /\ VolumeReturn(t) /\ want' = want
  BY DEF Return
<1>2. /\ volume_mutex = t /\ volume_step = "inside" /\ want[t] = NoMutex /\ audio_mutex # t
      /\ volume_mutex' = NoThread /\ UNCHANGED audio
  BY <1>1, HoldsMeans DEF Listens, VolumeReturn
<1>3. UNCHANGED <<audio_mutex, audio_step, output, device, blocks, hw_level, by_control>>
  BY <1>2 DEF audio, audio_lock, mixer
<1>4. AudioInv'
  BY <1>3, LookKeepsAudio DEF MediaInv, AudioInv, AudioTypeOK, AudioHeld
<1>5. VolumeInv'
  BY <1>1, ReturnKeepsVolume DEF MediaInv
<1>6. ListenerWaits' /\ BothHeldInside' /\ (want \in [Threads -> Mutexes \cup {NoMutex}])'
  BY <1>1, <1>2, <1>3 DEF MediaInv, ListenerWaits, BothHeldInside
<1>7. StepOf(t)
  BY <1>1, <1>2, <1>3 DEF StepOf, Wants, Stuck, NoMutex
<1>8. MixerUpToDate'
  BY <1>1, ControlKeepsMixer DEF MediaInv
<1>. QED  BY <1>4, <1>5, <1>6, <1>7, <1>8 DEF MediaInv

LEMMA DeviceKeeps ==
  ASSUME MediaInv, DeviceGoesOn
  PROVE  MediaInv' /\ UNCHANGED <<audio_mutex, audio_step, volume_mutex, volume_step, want>>
<1>1. DevicePlays /\ UNCHANGED <<volume, want>>
  BY DEF DeviceGoesOn
<1>2. UNCHANGED <<audio_mutex, audio_step, volume_mutex, volume_step, want>>
  BY <1>1 DEF DevicePlays, audio_lock, volume, volume_lock
<1>3. AudioInv'
  BY <1>1, DeviceKeepsAudio DEF MediaInv
<1>4. VolumeInv'
  BY <1>1 DEF volume, volume_lock, MediaInv, VolumeInv, VolumeTypeOK, VolumeLocked,
              ListenerUpToDate, VolumeWithdrawn
<1>5. ListenerWaits' /\ BothHeldInside' /\ (want \in [Threads -> Mutexes \cup {NoMutex}])'
  BY <1>2 DEF MediaInv, ListenerWaits, BothHeldInside
<1>6. MixerUpToDate'
  BY <1>1 DEF DevicePlays, mixer, volume, volume_lock, MediaInv, MixerUpToDate, Effective
<1>. QED  BY <1>2, <1>3, <1>4, <1>5, <1>6 DEF MediaInv

LEMMA MediaStep == MediaInv /\ [MediaNext]_mediaVars => MediaInv'
<1>. SUFFICES ASSUME MediaInv, [MediaNext]_mediaVars PROVE MediaInv'
  OBVIOUS
<1>1. CASE UNCHANGED mediaVars
  <2>1. UNCHANGED <<audio, volume, want>>
    BY <1>1 DEF mediaVars
  <2>2. AudioInv'
    BY <2>1, LookKeepsAudio DEF audio, audio_lock, mixer, MediaInv, AudioInv, AudioTypeOK, AudioHeld
  <2>3. VolumeInv'
    BY <2>1 DEF volume, volume_lock, MediaInv, VolumeInv, VolumeTypeOK, VolumeLocked,
                ListenerUpToDate, VolumeWithdrawn
  <2>4. MixerUpToDate'
    BY <2>1 DEF audio, mixer, volume, volume_lock, MediaInv, MixerUpToDate, Effective
  <2>. QED  BY <2>1, <2>2, <2>3, <2>4 DEF audio, audio_lock, volume, volume_lock, MediaInv,
                                    ListenerWaits, BothHeldInside
<1>2. CASE MediaNext
  BY <1>2, AskKeeps, EnterAudioKeeps, EnterVolumeKeeps, OutputGoesOnKeeps, ApplyKeeps,
     ReturnKeeps, DeviceKeeps DEF MediaNext
<1>. QED  BY <1>1, <1>2

(* The inductive invariant of volume control over the output.              *)
THEOREM MediaInvariant == MediaSafety => []MediaInv
BY MediaStarts, MediaStep, PTL DEF MediaSafety

(* Every variable of the two components keeps its type.                    *)
THEOREM MediaTypes == MediaSafety => []MediaTypeOK
<1>1. MediaInv => MediaTypeOK
  BY DEF MediaInv, AudioInv, VolumeInv, MediaTypeOK
<1>. QED  BY <1>1, MediaInvariant, PTL

(* Whichever step of a start and whichever allocation fails, the output    *)
(* has one device open while it runs, none else, and one block or none.    *)
THEOREM LedgerIsKept == MediaSafety => []OutputLedger
<1>1. MediaInv => OutputLedger
  BY DEF MediaInv, AudioInv
<1>. QED  BY <1>1, MediaInvariant, PTL

(* No two writes in a row throw their data away and report success, but    *)
(* where the device could not be prepared again between them.              *)
THEOREM DataIsNotLostTwice == MediaSafety => NoDataLostTwice
<1>1. MediaInv => (lost = "lost" => \A t \in Threads : ~Underrun(t))
  BY DEF MediaInv, AudioInv, RingMatchesDevice, Underrun
<1>2. MediaInv => [lost = "lost" => \A t \in Threads : ~Underrun(t)]_audio
  BY <1>1
<1>. QED  BY <1>2, MediaInvariant, PTL DEF NoDataLostTwice

(* Whenever no change is on its way, the mixer has the volume in force, or *)
(* volume control was not the last to set it.                              *)
THEOREM MixerIsFollowed == MediaSafety => []MixerFollows
<1>1. MediaInv => MixerFollows
  BY DEF MediaInv, VolumeInv, VolumeLocked, MixerUpToDate, Effective, MixerFollows
<1>. QED  BY <1>1, MediaInvariant, PTL

(* Whenever no call is under way, the listener has heard of the present    *)
(* volume.                                                                 *)
THEOREM VolumeIsHeard == MediaSafety => []VolumeHeard
<1>1. MediaInv => VolumeHeard
  BY DEF MediaInv, VolumeInv, VolumeLocked, ListenerUpToDate, VolumeHeard
<1>. QED  BY <1>1, MediaInvariant, PTL

(* A withdrawn listener does not run.                                      *)
THEOREM WithdrawnListenerIsOut == MediaSafety => []VolumeWithdrawn
<1>1. MediaInv => VolumeWithdrawn
  BY DEF MediaInv, VolumeInv
<1>. QED  BY <1>1, MediaInvariant, PTL
----------------------------------------------------------------------------
(* The refinement of LockOrder.                                            *)
LEMMA WantsMeans ==
  ASSUME MediaInv, NEW t \in Threads
  PROVE  /\ Wants(t) \in {"audio", NoMutex}
         /\ Wants(t) = "audio" => Stuck(t) \/ (volume_mutex = t /\ audio_mutex # t)
BY CallersAssumption DEF Wants, Stuck, MediaInv, ListenerWaits, BothHeldInside, NoMutex

LEMMA LocksTyped == MediaInv => Locks!LockTypeOK
BY WantsMeans, HoldsMeans DEF Locks!LockTypeOK, Mutexes

(* A step of a thread is a move of it in LockOrder.                        *)
LEMMA StepIsMove ==
  ASSUME MediaInv, MediaInv', NEW t \in Threads, StepOf(t)
  PROVE  Locks!Move(t)
<1>. USE CallersAssumption
<1>. DEFINE Others == UNION {Holds(u) : u \in Threads \ {t}}
<1>1. Locks!Others(t) = Others
  BY DEF Locks!Others
<1>2. \A m \in Others : \E u \in Threads \ {t} : m \in Holds(u)
  OBVIOUS
<1>3. Wants(t) \notin Others \cup Holds(t)
  <2>1. CASE Wants(t) = NoMutex
    BY <1>2, <2>1, HoldsMeans DEF Mutexes, NoMutex
  <2>2. CASE Wants(t) = "audio"
    BY <1>2, <2>2, HoldsMeans DEF StepOf
  <2>. QED  BY <2>1, <2>2, WantsMeans
<1>4. Holds(t)' \cap Others = {}
  <2>1. ASSUME NEW u \in Threads \ {t}, "audio" \in Holds(t)', "audio" \in Holds(u)
        PROVE  FALSE
    BY <2>1 DEF Holds, Owner, Mutexes, StepOf
  <2>2. ASSUME NEW u \in Threads \ {t}, "volume" \in Holds(t)', "volume" \in Holds(u)
        PROVE  FALSE
    BY <2>2 DEF Holds, Owner, Mutexes, StepOf
  <2>3. Holds(t)' \subseteq {"audio", "volume"}
    BY DEF Holds, Mutexes
  <2>. QED  BY <1>2, <2>1, <2>2, <2>3
<1>5. Wants(t)' # NoMutex =>
        \/ \A m \in Holds(t)' : Rank[m] < Rank[Wants(t)']
        \/ Wants(t)' \in Holds(t)' \cap {"audio"}
  <2>. SUFFICES ASSUME Wants(t)' # NoMutex, NEW m \in Holds(t)',
                       Wants(t)' \notin Holds(t)' \cap {"audio"}
                PROVE  Rank[m] < Rank[Wants(t)']
    OBVIOUS
  <2>1. (/\ Wants(t) \in {"audio", NoMutex}
         /\ Wants(t) = "audio" => Stuck(t) \/ (volume_mutex = t /\ audio_mutex # t))'
    BY CallersAssumption DEF Wants, Stuck, MediaInv, ListenerWaits, BothHeldInside, NoMutex
  <2>2. Wants(t)' = "audio" /\ m = "volume"
    BY <2>1 DEF Holds, Owner, Mutexes, Stuck
  <2>. QED  BY <2>2 DEF Rank
<1>6. ASSUME NEW u \in Threads \ {t}
      PROVE  Holds(u)' = Holds(u) /\ Wants(u)' = Wants(u)
  <2>1. (audio_mutex' = u <=> audio_mutex = u) /\ (volume_mutex' = u <=> volume_mutex = u)
    BY DEF StepOf
  <2>2. Holds(u)' = Holds(u)
    BY <2>1 DEF Holds, Owner, Mutexes
  <2>3. Stuck(u)' = Stuck(u)
    BY DEF StepOf, Stuck
  <2>4. Wants(u)' = Wants(u)
    BY <2>3 DEF StepOf, Wants
  <2>. QED  BY <2>2, <2>4
<1>. QED  BY <1>1, <1>3, <1>4, <1>5, <1>6 DEF Locks!Move

(* The threads keep the order of the mutexes: each step is one that        *)
(* LockOrder allows, or none.                                              *)
THEOREM OrderIsKept == MediaSafety => KeepsLockOrder
<1>1. MediaInit => Locks!LockInit
  <2>. SUFFICES ASSUME MediaInit PROVE Locks!LockInit
    OBVIOUS
  <2>1. ASSUME NEW t \in Threads PROVE Holds(t) = {} /\ Wants(t) = NoMutex
    BY CallersAssumption DEF MediaInit, AudioInit, VolumeInit, Holds, Owner, Mutexes, Wants, Stuck
  <2>. QED  BY <2>1 DEF Locks!LockInit
<1>2. ASSUME MediaInv, MediaInv', [MediaNext]_mediaVars
      PROVE  [Locks!LockNext]_<<[t \in Threads |-> Holds(t)], [t \in Threads |-> Wants(t)]>>
  <2>1. ASSUME UNCHANGED <<audio_mutex, audio_step, volume_mutex, volume_step, want>>
        PROVE  UNCHANGED <<[t \in Threads |-> Holds(t)], [t \in Threads |-> Wants(t)]>>
    BY <2>1 DEF Holds, Owner, Mutexes, Wants, Stuck
  <2>2. CASE UNCHANGED mediaVars \/ DeviceGoesOn
    BY <1>2, <2>1, <2>2, DeviceKeeps DEF mediaVars, audio, audio_lock, volume, volume_lock
  <2>3. ASSUME NEW t \in Threads, StepOf(t) PROVE Locks!LockNext
    <3>1. Locks!Move(t)
      BY <1>2, <2>3, StepIsMove
    <3>2. Locks!LockTypeOK'
      BY <1>2, LocksTyped, PTL
    <3>. QED  BY <3>1, <3>2 DEF Locks!LockNext
  <2>. QED  BY <1>2, <2>2, <2>3, AskKeeps, EnterAudioKeeps, EnterVolumeKeeps,
               OutputGoesOnKeeps, ApplyKeeps, ReturnKeeps DEF MediaNext
<1>. QED  BY <1>1, <1>2, MediaInvariant, PTL DEF MediaSafety, KeepsLockOrder, Locks!LockSpec

(* LockOrder again, with what is proved of it.                             *)
Circles == INSTANCE LockOrder_proofs WITH
  holds <- [t \in Threads |-> Holds(t)],
  wants <- [t \in Threads |-> Wants(t)],
  Relocked <- {"audio"}

(* So no threads wait for each other in a circle. The one thread that      *)
(* waits for itself is in audio_output_cleanup, of a running output.       *)
THEOREM NoThreadsInCircles ==
  MediaSafety => []( /\ Locks!NoCircularWait
                     /\ \A t \in Threads : Locks!WaitsFor(t, t) => Stuck(t) /\ is_running )
<1>1. Circles!IsFiniteSet(Mutexes)
  <2>1. Circles!IsFiniteSet({})
    BY Circles!FS_EmptySet
  <2>2. Circles!IsFiniteSet({} \cup {"volume"})
    BY <2>1, Circles!FS_AddElement
  <2>3. Circles!IsFiniteSet(({} \cup {"volume"}) \cup {"audio"})
    BY <2>2, Circles!FS_AddElement
  <2>4. Mutexes = ({} \cup {"volume"}) \cup {"audio"}
    BY DEF Mutexes
  <2>. QED  BY <2>3, <2>4
<1>2. Rank \in [Mutexes -> Nat] /\ NoMutex \notin Mutexes
  BY DEF Mutexes, Rank, NoMutex
<1>3. Circles!LockSpec => []Circles!NoCircularWait
  BY <1>1, <1>2, Circles!OrderKeepsCirclesAway
<1>4. Locks!LockInit <=> Circles!LockInit
  BY DEF Locks!LockInit, Circles!LockInit
<1>5. Locks!LockNext <=> Circles!LockNext
  BY DEF Locks!LockNext, Circles!LockNext, Locks!LockTypeOK, Circles!LockTypeOK,
         Locks!Move, Circles!Move, Locks!Others, Circles!Others
<1>6. Locks!NoCircularWait <=> Circles!NoCircularWait
  BY DEF Locks!NoCircularWait, Circles!NoCircularWait, Locks!WaitsFor, Circles!WaitsFor
<1>7. MediaInv =>
        \A t \in Threads : Locks!WaitsFor(t, t) => Stuck(t) /\ is_running
  <2>. SUFFICES ASSUME MediaInv, NEW t \in Threads, Locks!WaitsFor(t, t)
                PROVE  Stuck(t) /\ is_running
    OBVIOUS
  <2>1. Wants(t) # NoMutex /\ Wants(t) \in Holds(t)
    BY DEF Locks!WaitsFor
  <2>2. Stuck(t)
    BY <2>1, WantsMeans, HoldsMeans
  <2>. QED  BY <2>2 DEF Stuck, MediaInv, AudioInv, AudioHeld
<1>. QED  BY <1>3, <1>4, <1>5, <1>6, <1>7, OrderIsKept, MediaInvariant, PTL
          DEF KeepsLockOrder, Locks!LockSpec, Circles!LockSpec

==============================================================================
