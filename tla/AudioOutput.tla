----------------------------- MODULE AudioOutput -----------------------------
(***************************************************************************)
(* The audio output of src/src/audio_output.c and the ALSA device under    *)
(* it.  Every function works under audio_mutex from its first line to its  *)
(* last, so it is one action, except where it sleeps in the driver with    *)
(* the mutex held: snd_pcm_writei waits for room in the ring, snd_pcm_drain *)
(* for the ring to run empty.                                              *)
(*                                                                         *)
(* The device plays one unit of the ring at a time.  Data is counted in    *)
(* units; what the samples are is left out, but not what a frame of them   *)
(* takes.  The mixer is changed by nobody but this output.                 *)
(***************************************************************************)
EXTENDS Callers, Integers

CONSTANTS
  Configs,              \* what audio_output_configure is called with
  DEFAULT_CONFIG,
  BufferSizes,          \* what audio_output_set_buffer_size is called with
  DEFAULT_BUFFER_SIZE,
  RING,                 \* units the device's ring holds
  MAX_VOLUME            \* volumes are 0 .. MAX_VOLUME

(* channels * bits_per_sample / 8, by which start and write divide.        *)
FrameSize(config) == (config.channels * config.bits) \div 8

Volumes == 0 .. MAX_VOLUME
Settings == Configs \cup {DEFAULT_CONFIG}
Sizes    == BufferSizes \cup {DEFAULT_BUFFER_SIZE}

(* The code divides by FrameSize without a look at it.                     *)
ASSUME AudioAssumption ==
  /\ Settings \subseteq [bits : Nat, channels : Nat, hw : BOOLEAN]
  /\ \A config \in Settings : FrameSize(config) > 0
  /\ Sizes \subseteq Nat \ {0}
  /\ RING \in Nat \ {0}
  /\ MAX_VOLUME \in Nat \ {0}

VARIABLES
  audio_mutex, audio_step,            \* its owner, and what that one sleeps in
  pcm_handle,                         \* pcm_handle # NULL
  is_running,
  current_config,
  audio_buffer,                       \* size of the block it points to, 0 for NULL
  buffer_size,
  handles, blocks,                    \* devices open and blocks allocated
  stream,                             \* the format the device was opened with
  pcm, fill,                          \* its state and the units in its ring
  hw_level,                           \* the Master control of the mixer
  by_control,                         \* it is as volume control asked last
  lost                                \* what became of the last write done

output     == <<pcm_handle, is_running, current_config, audio_buffer, buffer_size>>
device     == <<handles, stream, pcm, fill, lost>>
audio_lock == <<audio_mutex, audio_step>>
mixer      == <<hw_level, by_control>>
audio      == <<audio_lock, output, device, blocks, mixer>>

(* The sample formats chosen by audio_output_start; S24_LE takes 4 bytes.  *)
SampleBytes(bits) ==
  CASE bits = 8 -> 1 [] bits \in {24, 32} -> 4 [] OTHER -> 2

Format(config) == [bits |-> config.bits, channels |-> config.channels]

DeviceFrame == stream.channels * SampleBytes(stream.bits)

AudioInit ==
  /\ audio_mutex = NoThread /\ audio_step = "idle"
  /\ pcm_handle = FALSE /\ is_running = FALSE
  /\ current_config = DEFAULT_CONFIG
  /\ audio_buffer = DEFAULT_BUFFER_SIZE /\ buffer_size = DEFAULT_BUFFER_SIZE
  /\ handles = 0 /\ blocks = 1
  /\ stream = Format(DEFAULT_CONFIG) /\ pcm = "closed" /\ fill = 0
  /\ hw_level \in Volumes /\ by_control = FALSE
  /\ lost = "no"

----------------------------------------------------------------------------
(* A call that sleeps nowhere takes the mutex and gives it back in one     *)
(* step; Sleep keeps it, Done gives it back after a sleep.                 *)
Briefly == audio_mutex = NoThread /\ UNCHANGED audio_lock

Sleep(t, where) ==
  /\ audio_mutex = NoThread
  /\ audio_mutex' = t /\ audio_step' = where

Done(t, where) ==
  /\ audio_mutex = t /\ audio_step = where
  /\ audio_mutex' = NoThread /\ audio_step' = "idle"

(* The getters, and the calls that return early: start when running, stop  *)
(* or write when not.                                                      *)
AudioLook == Briefly /\ UNCHANGED <<output, device, blocks, mixer>>

AudioConfigure ==
  /\ Briefly
  /\ current_config' \in Configs
  /\ UNCHANGED <<pcm_handle, is_running, audio_buffer, buffer_size, device, blocks, mixer>>

(* Faulty variant of StartFails: a step of the set-up forgets to close.    *)
StartFails_LeavesOpen ==
  /\ Briefly
  /\ ~is_running
  /\ pcm_handle' = TRUE /\ handles' = handles + 1
  /\ UNCHANGED <<is_running, current_config, audio_buffer, buffer_size,
                 stream, pcm, fill, lost, blocks, mixer>>

(* Faulty variant of StartFails: an error return forgets to unlock.        *)
StartFails_StaysLocked ==
  /\ \E t \in Threads : Sleep(t, "idle")
  /\ ~is_running
  /\ UNCHANGED <<output, device, blocks, mixer>>

(* The device cannot be opened, or one of the eight steps of its set-up    *)
(* fails and it is closed again.                                           *)
StartFails ==
  /\ Briefly
  /\ ~is_running
  /\ pcm_handle' = FALSE
  /\ UNCHANGED <<is_running, current_config, audio_buffer, buffer_size,
                 device, blocks, mixer>>

StartSucceeds ==
  /\ Briefly
  /\ ~is_running
  /\ pcm_handle' = TRUE /\ is_running' = TRUE
  /\ handles' = handles + 1
  /\ stream' = Format(current_config)
  /\ pcm' = "prepared" /\ fill' = 0
  /\ UNCHANGED <<current_config, audio_buffer, buffer_size, lost, blocks, mixer>>

AudioStart == StartFails \/ StartSucceeds

(* Nothing but data is played while it drains: an empty ring is no         *)
(* underrun then.                                                          *)
BeginStop(t) ==
  /\ is_running
  /\ Sleep(t, "drain")
  /\ UNCHANGED <<output, device, blocks, mixer>>

EndStop(t) ==
  /\ Done(t, "drain")
  /\ pcm_handle => fill = 0
  /\ handles' = IF pcm_handle THEN handles - 1 ELSE handles
  /\ pcm_handle' = FALSE /\ is_running' = FALSE
  /\ pcm' = "closed" /\ lost' = "no"
  /\ UNCHANGED <<current_config, audio_buffer, buffer_size, stream, fill, blocks, mixer>>

BeginWrite(t) ==
  /\ is_running /\ pcm_handle
  /\ Sleep(t, "write")
  /\ UNCHANGED <<output, device, blocks, mixer>>

Written(t) ==
  /\ Done(t, "write")
  /\ pcm \in {"prepared", "running"} /\ fill < RING
  /\ pcm' = "running" /\ fill' = fill + 1
  /\ lost' = "no"
  /\ UNCHANGED <<output, handles, stream, blocks, mixer>>

(* Faulty variant of Underrun: the device is not prepared again.           *)
Underrun_NotPrepared(t) ==
  /\ Done(t, "write")
  /\ pcm = "xrun"
  /\ lost' = "lost"
  /\ UNCHANGED <<output, handles, stream, pcm, fill, blocks, mixer>>

(* EPIPE: the ring had run empty. The data is thrown away, and 0 returned, *)
(* whether or not the device could be prepared again.                      *)
Underrun(t) ==
  /\ Done(t, "write")
  /\ pcm = "xrun"
  /\ \/ pcm' = "prepared" /\ lost' = "lost"
     \/ pcm' = "xrun" /\ lost' = "unprepared"
  /\ UNCHANGED <<output, handles, stream, fill, blocks, mixer>>

(* Any other error is returned.                                            *)
WriteFails(t) ==
  /\ Done(t, "write")
  /\ UNCHANGED <<output, device, blocks, mixer>>

EndWrite(t) == Written(t) \/ Underrun(t) \/ WriteFails(t)

(* audio_output_set_volume, called by volume control or by anybody else:   *)
(* the mixer may not be had, and that is not told.                         *)
AudioSetVolume(volume, for_control) ==
  /\ Briefly
  /\ \/ current_config.hw /\ pcm_handle
        /\ hw_level' = volume /\ by_control' = for_control
     \/ UNCHANGED hw_level /\ by_control' = (by_control /\ ~for_control)
  /\ UNCHANGED <<output, device, blocks>>

----------------------------------------------------------------------------
(* Blocks left when the old buffer has been freed.                         *)
Freed == IF audio_buffer = 0 THEN blocks ELSE blocks - 1

(* The size asked for, or the default one when there is no memory for it,  *)
(* or no buffer at all.                                                    *)
AudioSetBufferSize ==
  /\ Briefly
  /\ \E size \in BufferSizes :
       \/ audio_buffer' = size /\ buffer_size' = size /\ blocks' = Freed + 1
       \/ audio_buffer' = DEFAULT_BUFFER_SIZE /\ buffer_size' = DEFAULT_BUFFER_SIZE
          /\ blocks' = Freed + 1
       \/ audio_buffer' = 0 /\ buffer_size' = DEFAULT_BUFFER_SIZE /\ blocks' = Freed
  /\ UNCHANGED <<pcm_handle, is_running, current_config, device, mixer>>

(* Of a running output, cleanup calls audio_output_stop, which waits for   *)
(* the mutex cleanup holds, for ever.                                      *)
AudioCleanup(t) ==
  \/ /\ is_running
     /\ Sleep(t, "stuck")
     /\ UNCHANGED <<output, device, blocks, mixer>>
  \/ /\ ~is_running
     /\ Briefly
     /\ handles' = IF pcm_handle THEN handles - 1 ELSE handles
     /\ pcm_handle' = FALSE /\ pcm' = "closed"
     /\ blocks' = Freed /\ audio_buffer' = 0
     /\ UNCHANGED <<is_running, current_config, buffer_size, stream, fill, lost, mixer>>

(* The device plays; running empty is an underrun unless it drains.        *)
DevicePlays ==
  /\ pcm = "running" /\ fill > 0
  /\ fill' = fill - 1
  /\ pcm' = IF fill = 1 /\ audio_step # "drain" THEN "xrun" ELSE pcm
  /\ UNCHANGED <<audio_lock, output, handles, stream, lost, blocks, mixer>>

(* What a thread may call, and what goes on in a call of its own.          *)
AudioCall(t) ==
  \/ AudioLook \/ AudioConfigure \/ AudioStart \/ BeginStop(t) \/ BeginWrite(t)
  \/ AudioSetBufferSize \/ AudioCleanup(t)
  \/ \E volume \in Volumes : AudioSetVolume(volume, FALSE)

AudioGoesOn(t) == EndStop(t) \/ EndWrite(t)

AudioNext == DevicePlays \/ \E t \in Threads : AudioCall(t) \/ AudioGoesOn(t)

AudioSpec == AudioInit /\ [][AudioNext]_audio
----------------------------------------------------------------------------
AudioTypeOK ==
  /\ audio_mutex \in Threads \cup {NoThread}
  /\ audio_step \in {"idle", "write", "drain", "stuck"}
  /\ pcm_handle \in BOOLEAN /\ is_running \in BOOLEAN
  /\ current_config \in Settings
  /\ audio_buffer \in Sizes \cup {0} /\ buffer_size \in Sizes
  /\ handles \in Nat /\ blocks \in Nat
  /\ stream \in [bits : Nat, channels : Nat]
  /\ pcm \in {"closed", "prepared", "running", "xrun"}
  /\ fill \in 0 .. RING
  /\ hw_level \in Volumes /\ by_control \in BOOLEAN
  /\ lost \in {"no", "lost", "unprepared"}

(* The output and what it has of the system never come apart, whichever    *)
(* step of a start fails and whichever allocation: it runs exactly while   *)
(* it has a device open, no other device is open, and no block is          *)
(* allocated but the one the buffer points to, of the size it is said to   *)
(* have.                                                                   *)
OutputLedger ==
  /\ is_running = pcm_handle
  /\ handles = IF pcm_handle THEN 1 ELSE 0
  /\ pcm_handle = (pcm # "closed")
  /\ blocks = IF audio_buffer = 0 THEN 0 ELSE 1
  /\ audio_buffer \in {0, buffer_size}

(* A write to a device that has run empty throws its data away and reports *)
(* success.  The next one does not, unless the device could not be         *)
(* prepared again, which write does not look at: then every write is lost, *)
(* and reported a success, until the output is stopped.                    *)
NoDataLostTwice == [][lost = "lost" => \A t \in Threads : ~Underrun(t)]_audio

(* README.md:75 offers 16, 24 and 32 bits per sample: a write of a whole   *)
(* number of frames lets the device read what it was given and no more.    *)
WritesStayInData ==
  audio_step = "write" => DeviceFrame <= FrameSize(current_config)

==============================================================================
