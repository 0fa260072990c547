---------------------------- MODULE VolumeControl ----------------------------
(***************************************************************************)
(* The volume control of src/src/volume_control.c, over the audio output   *)
(* it sets.  The functions that change the volume all go on in the same    *)
(* way, under volume_mutex: set the output, which takes audio_mutex, and   *)
(* tell the listener.                                                      *)
(***************************************************************************)
EXTENDS AudioOutput

VARIABLES
  volume_mutex, volume_step,       \* its owner, and how far that one is
  current_volume, is_muted,
  volume_callback,                 \* volume_callback # NULL
  volume_told                      \* what the listener heard last

volume_lock == <<volume_mutex, volume_step>>
volume      == <<volume_lock, current_volume, is_muted, volume_callback, volume_told>>

VolumeInit ==
  /\ volume_mutex = NoThread /\ volume_step = "idle"
  /\ current_volume = MAX_VOLUME \div 2 /\ is_muted = FALSE
  /\ volume_callback = FALSE /\ volume_told = NoNews

(* Faulty variant of Effective: the mute is forgotten.                     *)
Effective_Unmuted == current_volume

(* is_muted ? 0.0f : current_volume                                        *)
Effective == IF is_muted THEN 0 ELSE current_volume

(* Faulty variant of StepUp: the volume is not held at MAX_VOLUME.         *)
StepUp_Unbounded ==
  current_volume' = current_volume + 1 /\ UNCHANGED is_muted

StepUp ==
  /\ current_volume' = IF current_volume + 1 > MAX_VOLUME THEN MAX_VOLUME ELSE current_volume + 1
  /\ UNCHANGED is_muted

StepDown ==
  /\ current_volume' = IF current_volume - 1 < 0 THEN 0 ELSE current_volume - 1
  /\ UNCHANGED is_muted

SetVolume == current_volume' \in Volumes /\ UNCHANGED is_muted

SetMute == is_muted' \in BOOLEAN /\ UNCHANGED current_volume

(* The first part of set_volume, set_mute, step_up and step_down, up to    *)
(* the call of audio_output_set_volume.                                    *)
VolumeChange(t) ==
  /\ volume_mutex = NoThread
  /\ volume_mutex' = t /\ volume_step' = "apply"
  /\ SetVolume \/ SetMute \/ StepUp \/ StepDown
  /\ UNCHANGED <<volume_callback, volume_told, audio>>

(* Faulty variant of VolumeApply: a muted change is not told.              *)
VolumeApply_Quiet(t) ==
  /\ volume_mutex = t /\ volume_step = "apply"
  /\ AudioSetVolume(Effective, TRUE)
  /\ IF volume_callback /\ ~is_muted
       THEN /\ volume_step' = "inside" /\ volume_told' = <<current_volume, is_muted>>
            /\ UNCHANGED volume_mutex
       ELSE volume_mutex' = NoThread /\ volume_step' = "idle" /\ UNCHANGED volume_told
  /\ UNCHANGED <<current_volume, is_muted, volume_callback>>

(* Faulty variant of VolumeApply: unlocks before it calls the listener.    *)
VolumeApply_UnlocksFirst(t) ==
  /\ volume_mutex = t /\ volume_step = "apply"
  /\ AudioSetVolume(Effective, TRUE)
  /\ volume_mutex' = NoThread
  /\ IF volume_callback
       THEN volume_step' = "inside" /\ volume_told' = <<current_volume, is_muted>>
       ELSE volume_step' = "idle" /\ UNCHANGED volume_told
  /\ UNCHANGED <<current_volume, is_muted, volume_callback>>

(* Set the output, and enter the listener if there is one.                 *)
VolumeApply(t) ==
  /\ volume_mutex = t /\ volume_step = "apply"
  /\ AudioSetVolume(Effective, TRUE)
  /\ IF volume_callback
       THEN /\ volume_step' = "inside" /\ volume_told' = <<current_volume, is_muted>>
            /\ UNCHANGED volume_mutex
       ELSE volume_mutex' = NoThread /\ volume_step' = "idle" /\ UNCHANGED volume_told
  /\ UNCHANGED <<current_volume, is_muted, volume_callback>>

(* The listener returns, and so does the call.                             *)
VolumeReturn(t) ==
  /\ volume_mutex = t /\ volume_step = "inside"
  /\ volume_mutex' = NoThread /\ volume_step' = "idle"
  /\ UNCHANGED <<current_volume, is_muted, volume_callback, volume_told, audio>>

(* volume_control_set_callback and volume_control_cleanup.                 *)
VolumeListen ==
  /\ volume_mutex = NoThread
  /\ volume_callback' \in BOOLEAN
  /\ volume_told' = NoNews
  /\ UNCHANGED <<volume_lock, current_volume, is_muted, audio>>

(* The getters, and a volume out of range.                                 *)
VolumeLook == volume_mutex = NoThread /\ UNCHANGED <<volume, audio>>

VolumeCall(t) == VolumeChange(t) \/ VolumeListen \/ VolumeLook
----------------------------------------------------------------------------
VolumeTypeOK ==
  /\ volume_mutex \in Threads \cup {NoThread}
  /\ volume_step \in {"idle", "apply", "inside"}
  /\ current_volume \in Volumes /\ is_muted \in BOOLEAN
  /\ volume_callback \in BOOLEAN
  /\ volume_told \in {NoNews} \cup (Volumes \X BOOLEAN)

(* When no change is on its way, the mixer has the volume in force, which  *)
(* is silence while muted, unless somebody else set it since, or it could  *)
(* not be had when volume control asked last: however the mute, the steps, *)
(* direct calls, and the starts and stops of the output fall together.     *)
MixerFollows ==
  volume_mutex = NoThread /\ by_control =>
    hw_level = IF is_muted THEN 0 ELSE current_volume

(* Whenever no call is under way, a listener that has heard of a volume    *)
(* has heard of the present one.                                           *)
VolumeHeard ==
  volume_mutex = NoThread /\ volume_told # NoNews =>
    volume_told = <<current_volume, is_muted>>

(* A listener that was withdrawn does not run: when the call that          *)
(* withdraws it has returned, its code is not used any more.               *)
VolumeWithdrawn == volume_step = "inside" => volume_callback

==============================================================================
