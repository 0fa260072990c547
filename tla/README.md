# airplay2-lite: formal models

TLA+ models of the AirPlay receiver in `src/`, the configurations TLC checks
them with, and proofs checked by TLAPS. Everything here is translated from the
C sources under `src/src/`; paths below are relative to the repository.

```
tlc -config ServerSafety.cfg MCAirplayServer     # one run
tlapm AirplayServer_proofs.tla                   # the proofs of one module
```

`PROJECT.json` lists the runs, the lines every definition stands for, the
hazards the properties are aimed at and the theorems.

## 1. The system

One process, one thread of its own. `main` brings five components up, runs the
loop of one of them, and takes them down again.

| component | state | operations | hard parts |
|---|---|---|---|
| AirPlay server (`airplay_server.c`) | listening socket, `running`, Avahi handles, `clients[MAX_CLIENTS]` | create, start, stop, destroy, process (one pass of select / accept / serve) | peers and the kernel move between its system calls; descriptor numbers are reused; slots keep old numbers; `send` may block or raise SIGPIPE |
| daemon (`main.c`) | `running`, `server` | bring-up, loop, shutdown, signal handler | every failing step has its own unwinding; signals at any point |
| multiroom (`multiroom.c`) | configuration, room tables, one mutex | set_config, start, stop, add/remove room, list, sync, cleanup | tables shifted in parallel; state read outside the mutex; cleanup locks twice |
| audio output (`audio_output.c`) | ALSA handle, configuration, buffer, one mutex | configure, start, stop, write, volume, buffer size | configuration changed under an open device; sample sizes; cleanup locks twice |
| volume control (`volume_control.c`) | volume, mute, callback, one mutex | set, mute, step | calls audio output and callbacks under its mutex |
| playback control (`playback_control.c`) | state, track info, callbacks, one mutex | play, pause, stop, next, previous, set | callbacks under the mutex; position resets |
| crypto utilities (`crypto_utils.c`) | none | AES, HMAC (OpenSSL), base64, pairing check | boundaries of base64 |
| network utilities (`network_utils.c`) | none | socket wrappers, placeholders for mDNS | none |
| supervision (`files/airplay2-lite.init`) | the procd instance | start with respawn, stop | none of its own |

How they interact in the code as it stands: `main` calls every component's
init and cleanup, and the server's start, process, stop and destroy. Volume
control calls `audio_output_set_volume`. The server's seven callback fields,
which are to lead to the other components, are set by nothing and called by
nothing, and multiroom's start, stop and room functions are called by no other
file: they are an interface for later use, and are modelled as one, called by
any thread in any order. The server's Avahi client runs its callback from
`avahi_client_new` itself; no Avahi poll thread is ever started.
(`airplay_server.c:119` calls `avahi_threaded_poll_get` without the poll object
Avahi's header asks for; the model takes the call as it is meant, as the poll
given to `avahi_client_new`.)

What makes each part correct:

- server: the slot table, the descriptor table and the connections never come
  apart; clients are dropped only when gone and refused only when the table is
  full; requests are answered, the accept queue drains as long as clients leave or
  descriptors last, gone clients are reaped; nobody stops the service of the others;
- daemon: components are up in the order they depend on each other, any exit
  leaves nothing behind, a shutdown completes;
- multiroom: the tables agree with the kernel and are a list of different
  rooms, but for names too long for them; every call returns; what is told to callers is consistent;
- audio and volume: the output owns exactly the device and the buffer it says it
  owns; the mixer (unless others set it) and the listener follow the volume in force; the device reads
  what it was given, and is given what was written; the two mutexes are taken
  in one order and every call returns;
- playback: listeners hear of the present state and position, in order, and not
  at all once withdrawn;
- base64: decoding undoes encoding, in the room it asks for.

## 2. Modules

| module | models | extends |
|---|---|---|
| `ClientService` | what the server promises its clients | |
| `AirplayServer` | `airplay_server.c`, with kernel and peers | `ClientService` (instance) |
| `MCAirplayServer` | its instance for TLC: symmetry of the peers | `AirplayServer` |
| `AirplayServer_proofs` | theorems about it | `AirplayServer`, `TLAPS` |
| `Daemon` | `main.c`, driving the real server | `AirplayServer` |
| `Multiroom` | `multiroom.c`, called by several threads | |
| `RoomRegistry` | what `multiroom.h` promises of rooms | |
| `MCMultiroom` | Multiroom's instance, and its refinement of the registry | `Multiroom` |
| `Daemon_proofs` | theorems about `Daemon` | `Daemon`, `AirplayServer_proofs` |
| `Multiroom_proofs` | theorems about `Multiroom` | `Multiroom`, `TLAPS` |
| `RoomRegistry_proofs` | Multiroom implements the registry, for all constants | `MCMultiroom`, `Multiroom_proofs` |
| `Callers` | the threads that call the media components, and listeners' news | |
| `AudioOutput` | `audio_output.c`, and the ALSA device under it | `Callers` |
| `MCAudioOutput` | formats for TLC | `AudioOutput` |
| `VolumeControl` | `volume_control.c` | `AudioOutput` |
| `Media` | the two together, with a listener that calls the output | `VolumeControl` |
| `LockOrder` | the rule of mutexes taken in order, of no component | |
| `MCMedia` | the instance of `Media` for TLC | `Media`, `MCAudioOutput` |
| `LockOrder_proofs` | the rule keeps threads from waiting in circles | `LockOrder` |
| `Media_proofs` | theorems about `Media`; it follows the rule | `Media`, `LockOrder_proofs` (instance) |
| `PlaybackControl` | `playback_control.c` | `Callers` |
| `MCPlayback` | its instance for TLC: symmetry of the threads | `PlaybackControl` |
| `Playback_proofs` | theorems about it | `PlaybackControl`, `TLAPS` |
| `Base64` | `base64_encode` and `base64_decode` of `crypto_utils.c` | |
| `Base64_proofs` | the one undoes the other | `Base64`, `TLAPS` |

### AirplayServer

Variables have the names of the struct's fields: `socket_fd`, `running`,
`avahi_client`, `entry_group`, and the three parts of `clients[]` (`slot_fd`,
`slot_addr`, `connected`). `call`, `next` and `ready` are the program counter of
`airplay_server_process`, its loop index and `read_fds`. `fdt`, `queue` and
`conn` are the kernel: what each descriptor number refers to (the lowest free
one is given out), the accept queue, and of each connection the unread
segments, how it ended, the replies in its send buffer, and how many replies
the peer waits for.

A pass is cut at its system calls, because that is where peers get in between:

| action | code |
|---|---|
| `Start`, `Stop` | `airplay_server_start`, `airplay_server_stop`, whole |
| `Select` | the set-up of the descriptor set and `select()`, lines 178-217 |
| `Accept` = `TakeSlot` or `Reject` | lines 216-252, `EMFILE` included |
| `Receive` = `Read` or `Disconnect` | `recv()`, the routing, and the close of lines 257-262 |
| `Send` = `Replied`, `SendBlocks`, `SendFails`, `SigPipe` | the outcomes of `send()`, lines 304 and 339 |
| `Return` | the end of the pass |
| `Interrupted` | a handled signal wakes a sleeping `send()` (`sa_flags` is 0) |
| `Connect`, `PeerSend`, `PeerRead`, `PeerClose`, `PeerReset` | the peers |

Abstracted: a segment is its leading word; the words are split into those
`handle_client_request` gives to the HTTP handler, to the RTSP handler, and
`Noise` (anything else, such as the rest of a request TCP has cut). `recv`
takes up to `BUFFER_SIZE` segments and looks at the first. A segment in the
middle of a request that happens to begin with a method word would be answered
as a request of its own; `Noise` leaves that out, so `NoUnsolicitedReply` is about
replies that go to the wrong connection, twice, or to text that is no request. Each reply is one
unit of the send buffer. A select that times out or is interrupted is a pass
that changes nothing. Descriptors not the server's are `OtherFds`; 0 is one of
them because `daemon(0, 0)` opens 0 to 2 on `/dev/null`, and because `calloc`
leaves `socket_fd` at 0, so a stop before the first start would close it. No
caller does that; `Started` keeps it out.

`ClientService` is the abstract service: clients wait in order, have a place, are
gone or unheard, and are due a number of answers. Its mapping is in
`AirplayServer` (`Service`). Places are the peers some descriptor refers to; `gone`
and `unheard` are read off the ends and the inboxes of the connections, `asked`
off the replies owed. Slots, descriptor numbers, the pass under way and the
replies in the send buffers have no counterpart, which is the point of it:
`recv` may leave the service unchanged (it read a part) or be a `Hear`, a close
of a gone client is a `Release`, a `send` that hands a reply over is an `Answer`,
and the end of the process by SIGPIPE is a `Close`.

### Daemon

`stage` is where `main` is, `level` and `up` what has been brought up, `created`
whether `server` is not NULL, `quit` the handler's `running = 0`. `Loop` runs
the server's own actions while `quit` is unset, and looks at `quit` between
passes only, as `while (running)` does. Signals come at any point: before the
handlers are set up they end the process (`DiesEarly`), later `Deliver` sets
`quit` and wakes a sleeping `send()`. The other components' inits cannot fail
except `audio_output_init`, which may find no memory. Their cleanups are a
step each: the deadlock that `multiroom_cleanup` and `audio_output_cleanup` are
capable of needs a running component, and `main` starts neither.

### Multiroom and RoomRegistry

Each call that works under `multiroom_mutex` from its first line to its last is
one action with the mutex free as a guard, calls after a cleanup included. `multiroom_get_room_list` is cut
where it releases the mutex (`CopyList`, `ReturnCount`), `multiroom_sync_audio`
after its unlocked look at `is_running` (`SyncCheck`, `SyncSend`). `Cleanup`
takes the mutex and, with the component running, keeps it for ever. `fdt` is
the kernel's table: a descriptor is free, a room's, or bound to a port.
`Stored[n]` is what `strncpy` keeps of a name. The abstract `RoomRegistry` is a
sequence of named rooms: a name that no room has adds a room under what is kept
of it, a removal takes the first room of that name. For names kept whole these
are different rooms. The mapping in `MCMultiroom` reads it off the first
`room_count` entries of the tables. A room's port may be lost (`NoPort`) when
there is no socket for it, as the code allows; stop and start do not change the
list.

### AudioOutput, VolumeControl and Media

A mutex is its owner (`audio_mutex`, `volume_mutex`, `NoThread` when free), and
`audio_step`, `volume_step` say how far the owner is. A call that cannot sleep
with the mutex held is one action; the mutex is free before and after it
(`Briefly`). The cuts are where the code sleeps or runs foreign code:

| action | code |
|---|---|
| `AudioConfigure`, `AudioStart`, `AudioSetVolume`, `AudioSetBufferSize`, `AudioLook` | whole calls of `audio_output.c`; `StartFails` is any of the nine failing steps with its `snd_pcm_close` |
| `BeginWrite`, `EndWrite` | `snd_pcm_writei` sleeps for room in the ring; then it has `Written`, finds an `Underrun`, or `WriteFails` |
| `BeginStop`, `EndStop` | `snd_pcm_drain` sleeps until the ring is empty |
| `AudioCleanup` | frees, or with the output running waits for its own mutex (`"stuck"`) |
| `DevicePlays` | the device, one unit of its ring at a time |
| `VolumeChange`, `VolumeApply`, `VolumeReturn` | set, mute and step: up to the call of `audio_output_set_volume`; that call and the entry to the listener; the listener's return |
| `VolumeListen`, `VolumeLook` | the callback setter and cleanup; getters and a volume out of range |
| `Ask`, `EnterAudio` with `want[t]` set | in `Media`: the listener calls the output |

`pcm_handle`, `is_running`, `current_config`, `audio_buffer` and `buffer_size`
are the code's; of the buffer the size of the block is kept. `handles`, `blocks`,
`stream`, `pcm`, `fill` and `hw_level` are what the system has: open devices,
allocated blocks, the format the device was opened with, its state and ring, the
mixer's Master control, which nobody but this output sets. `lost` remembers what
became of the last write: thrown away by an underrun that was repaired (`"lost"`)
or by one that was not, because `snd_pcm_prepare` failed, which the code does not
look at (`"unprepared"`). `by_control` remembers that the mixer is as volume
control asked last: a direct call of `audio_output_set_volume`, which any thread
and the listener may make, ends that, and so does a call of volume control for
which the mixer could not be had.
The init functions are the initial state: `main` calls each once, before any other
call.

`Media` is what runs. The volume listener runs under `volume_mutex`, and may
call the audio output, which has another mutex; it may not call volume control,
whose mutex its own thread holds and which is not recursive. The component
cannot prevent that, so it is a rule for the application, and
`Ask_CallsBack` is the model without it. No file of the repository sets a
listener yet.

Abstracted: samples, sample rate, device name. Of a format there are bits,
channels and whether hardware volume is on. Data is counted in units of the
ring; a short write, which the code takes for a whole one, is a write.
Volumes are whole steps of 0.05, `0 .. MAX_VOLUME`.

`LockOrder` is about threads and mutexes only: one is waited for by a thread
that holds none but lower ones. Its one exception are the mutexes of `Relocked`,
which their own holder may wait for, for ever. `Media` maps its two mutexes and
all that waits for them to it (`Wants`). `Relocked` is `audio_mutex`: the cleanup of
a running output waits for it while it holds it.

### PlaybackControl

The state and the position; `listening` are the two callbacks that are not NULL.
Every function that changes something ends the same way (`Tell`): the listeners
it has news for are called one after the other under `playback_mutex`.
`inside` is the one that runs, `due` the ones the same call has still to make,
`PlaybackReturn` its return. `state_told` and `info_told` are what they heard
last, forgotten when a listener is set or withdrawn. Of `playback_info_t` the
position is kept; the other fields are copied with it as a whole and reset by
nothing. `play` while playing or buffering tells the listener although nothing
changed, as the code does; `pause` of what does not play returns early.

### Base64

Functions on sequences, with a character as its place in `base64_chars`. What
the loops leave at each place is written down directly (`DigitOf`, `ByteOf`), with
the padding written over the last characters. A text of length 0, and a
character outside the alphabet, are undefined in the code (it reads before the
text, and subtracts unrelated pointers) and are not in the model's domain. There
is no state and so no run: the theorem covers all data.

## 3. What TLC checks

| run | bounds | checks |
|---|---|---|
| `server_safety` | 3 peers, 2 slots, 5 descriptors, one kind of request, signals | `TypeOK`, `SlotsAreLive`, `NothingLeaks`, `NoUnsolicitedReply`, `DropsOnlyTheGone`, `RejectsOnlyWhenFull`, `PassesShorten`, `ImplementsService` |
| `server_liveness` | 2 peers, 1 slot, 4 descriptors, both request kinds and noise, 2 segments in flight and to a `recv` | `NoUnsolicitedReply`, `RequestsAnswered`, `QueueDrains`, `GoneAreReaped` |
| `daemon` | 2 peers, 2 slots, 3 descriptors, signals | `DaemonTypeOK`, `UpIsPrefix`, `CleanExit`, `ServerUsedWell`, `QueueDrains`, `ShutdownCompletes`, `ShutdownComesNearer` |
| `multiroom` | 2 threads, 4 names (one cut to another), 2 ports, 3 entries, 2 descriptors | `TypeOK`, `SocketLedger`, `UnusedAreBlank`, `WholeNamesOnce`, `ImplementsRegistry` |
| `media` | 2 threads, a ring of 2 units, volumes 0 and 1, 2 buffer sizes, 16 bits, hardware volume on and off | `MediaTypeOK`, `OutputLedger`, `VolumeHeard`, `VolumeWithdrawn`, `MixerFollows`, `NoDataLostTwice`, `KeepsLockOrder`, `MutexesAreReleased` |
| `playback` | 2 threads, 4 states, 3 positions | `PlaybackTypeOK`, `PlaybackHeard`, `PlaybackWithdrawn` |
| `server_non_blocking` | 2 peers, 2 slots | `PassesEnd` is violated |
| `server_client_loss` | 2 peers, 2 slots | `LossStaysLocal` is violated |
| `multiroom_stop`, `multiroom_list`, `multiroom_cleanup` | 2 threads, 2 names, 2 entries | `StopReleasesPort`, `ListIsWhole`, `CallsReturn` are violated |
| `audio_24bit` | 1 thread, 16 and 24 bits | `WritesStayInData` is violated |

Why the bounds are enough. One peer more than slots makes the table overflow,
and two slots make the order of the slot loop and number reuse matter. In
`server_safety` there are descriptors to spare, so `Reject` is reached; in
`daemon` there are too few for two clients, so `accept` fails with `EMFILE`.
`MaxOwed` and `SNDBUF` of 1 make a buffer full after one step, which is
what makes `send` block. `server_liveness` has two segments in flight, so that one
`recv` takes a request together with text before or behind it; `daemon` has two
requests as well. Multiroom's three entries let a room be removed before, between and
after others, the fourth name hits a full table, and two descriptors make the
third room go without a socket. One name is too long (`"long"`) and one is what is
kept of it (`"cut"`), the worst case for the comparison of whole names with cut
ones; the other two are kept whole, which is what `WholeNamesOnce` needs two of. Two threads are enough for the media modules:
one in a call, in the driver or in a listener, and one that wants the same mutex
or the other one; circles of three threads need three mutexes. A ring of two
units can be empty, half full, and full. Two volumes give both ends of the range
one step apart, so that every step is at a limit or reaches it. Two buffer sizes, one
of them the default, tell a size that was had from one that was fallen back to. The safety runs have no fairness; everything
may stop at any time.

Fairness, in the liveness runs only. `WF(Process)`: `main` calls
`airplay_server_process` over and over, and `select` (with a timeout), `accept`
and `recv` return. `WF(PeerRead)`: a peer that stays connected reads its
replies; without it the loop can be blocked for ever, which is what
`server_non_blocking` shows under `LoopSpec`, the loop's fairness alone. Peers
are never obliged to connect, send, close or reset. A client that stays can
therefore keep its descriptor for ever, and where there are no others accept()
fails for ever: `QueueDrains` excepts just that (`NoWayIn`). With a descriptor to
spare, in `server_liveness`, it claims that the queue drains whatever the clients
do; in `daemon`, that it drains whenever clients leave. In `server_liveness` a peer
has one request unanswered at a time (`MaxOwed = 1`), and other text before and
behind it. Of what one `recv` takes only the first word is looked at: of requests
it takes together the first is answered, and a request it takes with text before
it, such as the body of the request before, is dropped and never answered
(`airplay_server.c:271-293`). So `RequestsAnswered` is about the request that comes
first on its connection, and claims nothing of pipelined or joined ones. That run has no signals, which may lose a reply. `NoUnsolicitedReply` is
checked in two runs: with replies that wait and signals that cut them short in
`server_safety`, with text that is no request in `server_liveness`. `WF(Main)` in
`daemon` says the thread is scheduled, `WF(Continue)` in `multiroom_cleanup`
that a caller in the middle of a call is.

`MutexesAreReleased` assumes of the device that it plays, and of a thread in the
driver that it goes on when it can (`WF`). The three `SF` are two kinds of
assumption. Of the mutexes: a thread that waits for one which becomes free again
and again gets it in the end, in `audio_output_set_volume` and in a listener's
call of its own; POSIX promises no order of waiters, and a scheduler that always
prefers the same thread is not what the property is about. Of the application:
a listener returns, and does not make calls for ever (`Return`). No thread is
obliged to make any call.

Deadlock checking is off: a process that has exited or was killed by a signal
does nothing more, and a thread that waits for a mutex it holds, with all others
waiting behind it, is a state of the code that `CallsReturn` is about.

### What the runs show

The passing runs show that the bookkeeping of the server is sound, in spots
where it looks doubtful. `airplay_server_process` finds out whether a new client
got a slot by looking for its descriptor in all slots, used or not; that would
leak a rejected client whose number equals a stale one, but the table is full
then and no slot is stale (`NothingLeaks`, `RejectsOnlyWhenFull`). `recv`'s
EAGAIN is treated as the end of a client, but no pass reads a descriptor with
nothing to read (`DropsOnlyTheGone`). All of it together is the service of
`ClientService`: who comes first is let in first, and nobody is answered or let
go but for reason (`ImplementsService`). A pass does nothing twice
(`PassesShorten`), nor does a shutdown (`ShutdownComesNearer`); what they can
still wait for is a `send()`. The unwinding in `main` is complete for
every failure (`UpIsPrefix`, `CleanExit`), and the daemon uses the server the way
the server's module assumes (`ServerUsedWell`, which is `AirplayServer`'s own
specification).

In the media components the delicate spots are sound as well. Nine steps of
opening the device may fail and each leaves nothing behind; so does every
failure of the two allocations of a new buffer (`OutputLedger`). An underrun
costs one write, and more only if the device cannot be prepared again
(`NoDataLostTwice`): then every write is thrown away and reported as done, until
the output is stopped. The two nested mutexes are never
taken the other way round, listener included (`KeepsLockOrder`), and none is
kept, but by the cleanup of a running output, which has the flaw of
`multiroom_cleanup`: `MutexesAreReleased` names it as the exception, and it is the
one wait of a thread for itself that `LockOrder` is told of.

Listeners run under the mutex, so that they hear the changes in the
order they were made and are out of use when they have been withdrawn
(`VolumeHeard`, `VolumeWithdrawn`, `PlaybackHeard`, `PlaybackWithdrawn`); the
mutants show that unlocking first would lose both. The mixer has the volume in
force after each change (`MixerFollows`). It keeps it until somebody calls
`audio_output_set_volume` past volume control. A volume set while the output is
closed, or without hardware volume, is not applied later. All this is in the
model, and more is promised nowhere.

Six runs show the code departing from what the repository says of it:

- `PassesEnd` (`airplay_server.c:304`, `:339`): replies are sent with a blocking
  `send()`. A client that does not read stops the server for all others, while
  `PROJECT_SUMMARY.md:59` promises non-blocking I/O.
- `LossStaysLocal` (`airplay_server.c:304`): a reply to a connection that was
  reset raises SIGPIPE, whose default action ends the process. Line 258 treats
  an error as that client's end.
- `StopReleasesPort` (`multiroom.c:120`): the bound socket of `multiroom_start`
  is kept in a local variable and never closed, so the port stays taken after
  "Multiroom stopped" and the next start fails.
- `ListIsWhole` (`multiroom.c:310`): the count returned is read after the mutex
  is released, and may differ from the number of names copied.
- `CallsReturn` (`multiroom.c:58`): cleanup of a running component locks its own
  mutex a second time.
- `WritesStayInData` (`audio_output.c:255`): a write counts 24-bit samples as
  three bytes, while the device is opened as S24_LE, which takes four. It is told
  of a third more frames than the data holds and reads past its end.
  `README.md:75` offers 24 bits.

A departure that the run `multiroom` has in its state space, and no run of its own:
a name longer than `MAX_ROOM_NAME_LEN - 1` characters is cut when it is stored and
compared whole (`multiroom.c:202`, `:209`), so the check of line 200, "Check if
room already exists", never finds it: the room is added again at every call and
cannot be removed by its name. `RoomsDiffer` says that no room is there twice;
with it among the invariants of `Multiroom.cfg` TLC shows a counterexample of
two additions. `WholeNamesOnce` is the part of it that holds.

Every property of a passing run has a mutant in `PROJECT.json`: a variant of one
operation with a plausible slip (a dropped guard, a missing reset, a wrong
bound), defined next to the operation it varies, for which TLC finds the
property violated.

## 4. What is proved

Each theorem holds for all values of the constants that satisfy the assumptions
of the module it is about.

### The server (`AirplayServer_proofs`)

| theorem | states |
|---|---|
| `ServerInvariant` | `Safety => []ServerInv` |
| `TypeCorrect` | `Safety => []TypeOK` |
| `SlotsStayLive` | `Safety => []SlotsAreLive` |
| `NothingEverLeaks` | `Safety => []NothingLeaks` |
| `OnlyTheGoneAreDropped` | `Safety => DropsOnlyTheGone` |
| `OnlyAFullTableRejects` | `Safety => RejectsOnlyWhenFull` |
| `RepliesAreAsked` | `Safety => []NoUnsolicitedReply` |
| `ServerImplementsService` | `Safety => ImplementsService` |
| `PassesAreBounded` | `Safety => PassesShorten` |
| `OnlySigPipeSpreads` | `LossStaysLocal`, for the steps that do not end the process |

The safety properties are not inductive by themselves. `ServerInv` adds

- `Control`: a pass runs only with a running server and its listener, `accept`
  is called only with a connection to take, a reply is under way to a slot in
  use;
- `OneConnection`: a peer is in the queue once, or on one descriptor, or
  neither. Without it a closed descriptor could leave a second slot behind with
  the same connection;
- `ReportHolds`: what `select` reported of a slot the pass has not come to yet
  is still so. This carries `DropsOnlyTheGone`: descriptors become free, are
  given out again and refilled within the pass, and the argument is that a
  number in `ready` is not reused before its slot has been passed, since
  `accept` comes first and every descriptor in `ready` is open then.

There is one lemma per action, each with a step per part of the invariant that
the action can disturb. The two action properties follow from the invariant and
a case split on the actions; `OnlyAFullTableRejects` also needs that the map from
slots to peers is a bijection onto the peers on descriptors, to count them.

`RepliesAreAsked` needs a strengthening of its own, `RepliesOwed`: what a peer is
owed (requests sent, less replies given to `send()`) covers the requests unread
in its inbox and the reply under way to it. A `recv` that takes several segments
at once removes at least the request it answers (`RequestsCut`), so the sum does
not grow; a request a peer adds to its inbox it adds to what it is owed. The requests of
an inbox are counted as a set of places, and the lemmas about them are the
counting facts of finite sets. It assumes that noise is no request
(`NoiseAssumption`), which is the meaning of the word.

`ServerImplementsService` is a step-by-step simulation of `ClientService`, with a
lemma per kind of step (`AcceptServes`, `ReceiveServes`, `SendServes`,
`PeerServes`, ...). It needs `ServerInv` and `RepliesOwed` (an answer is only given
where one is due) and one fact stated in the abstract module, `NoStrangers`:
nothing is remembered of a peer that neither waits nor has a place. It says that
`close` resets what is kept of a connection, so that a peer that comes again
starts afresh. The places are counted by `SlotsMatchServed`: the slots in use and
the peers served are equally many, which makes "no free slot" and "all places
taken" the same, and serves `OnlyAFullTableRejects` as well.

`PassesAreBounded` is the safety half of "a pass ends". `PassLeft` is a bound on
the steps left: three a slot (`recv`, `send`, its wait) and two more. Every step of
the loop lowers it and no peer, signal or descriptor raises it; what is left to
fairness is only that a step is taken, and to the peer that a blocked `send`
goes on, which is what `PassesEnd` shows to fail.

`LossStaysLocal` is false, by SIGPIPE. `OnlySigPipeSpreads` shows that this is the
only way: any other step of the loop closes at most the connection it serves and
leaves the listener alone.

### The daemon (`Daemon_proofs`)

| theorem | states |
|---|---|
| `DaemonInvariant` | `DaemonSafety => []DaemonInv` |
| `DaemonTypes` | `DaemonSafety => []DaemonTypeOK` |
| `DaemonRunsServer` | `DaemonSafety => ServerUsedWell` |
| `UpStaysPrefix` | `DaemonSafety => []UpIsPrefix` |
| `ExitsAreClean` | `DaemonSafety => []CleanExit` |
| `DaemonServes` | the server's safety properties and `ImplementsService`, of `DaemonSafety` |
| `ShutdownIsBounded` | `DaemonSafety => ShutdownComesNearer` |

`DaemonSafety` is the daemon's specification without its fairness. `DaemonInv`
is the server's invariant together with

- `OthersStay`: descriptors that are not the server's are left alone;
- `StageAgrees`: what `main`'s place in its text says of `up`, `level`, `created`
  and `quit`;
- `ServerRests`: outside the loop no pass is under way, and before `start` and
  after `stop` the server holds nothing. `CleanExit` rests on it: `main` itself
  only destroys the server, and what the server still holds then must be known.

Every daemon action is one of the server's or leaves the server's variables
alone, which needs the invariant too (a start only on a server at rest).
`DaemonRunsServer` says so: it is a refinement, and through it the theorems
about the server hold in the daemon (`DaemonServes`).

`ShutdownIsBounded` does for `main` what `PassesAreBounded` does for a pass, and
rests on it: `MainLeft` counts the stages to come, the components still to take
down and, in the loop, what is left of the pass under way. That no new pass
begins once `quit` is set is what keeps it from growing.

### Multiroom (`Multiroom_proofs`, `RoomRegistry_proofs`)

| theorem | states |
|---|---|
| `TablesInvariant` | `Safety => []TablesInv` |
| `RoomTypes` | `Safety => []TypeOK` |
| `LedgerBalances` | `Safety => []SocketLedger` |
| `UnusedStayBlank` | `Safety => []UnusedAreBlank` |
| `TablesImplementRegistry` | `Safety => ImplementsRegistry` |
| `NoRoomTwice` | `Safety => []WholeNamesOnce` |
| `WholeNamesDiffer` | `Safety => []RoomsDiffer`, if all names are stored whole |
| `OneCallerGetsAll` | `Safety => []ListIsWhole`, if there is one thread |
| `PortsStayBound` | `Safety => [][BoundPorts \subseteq BoundPorts']_vars` |

`TablesInv` is the conjunction of the three state properties. They need each
other: a room added without a socket gets a blank entry only because entries
past the count are blank, and the shift in a removal keeps the ledger because the
entry it drops had its socket closed and the one it blanks was copied first.

The refinement maps the tables to a sequence and shows that `AddRoom` is an
`Append`, `RemoveRoom` is a removal at the position found, which is the first of
that name, and everything else is a stutter. It holds whatever `strncpy` keeps of
the names (`Stored` is any function from names to names).

That rooms differ is a property of its own. `NoRoomTwice` proves it, from
`TablesInv` and the check of `AddRoom` against the names in use, of names that are
kept whole and that no other name is cut to. The last three theorems are about
properties that are false of the code (section 3) and say what that depends on: with all
names kept whole rooms differ; with one calling thread the count is that of the
copy; and the port of a stopped component is not given back by any later call,
since the only descriptors any operation closes are those of rooms.

### Audio, volume and their mutexes (`Media_proofs`, `LockOrder_proofs`)

| theorem | states |
|---|---|
| `MediaInvariant` | `MediaSafety => []MediaInv` |
| `MediaTypes` | `MediaSafety => []MediaTypeOK` |
| `LedgerIsKept` | `MediaSafety => []OutputLedger` |
| `DataIsNotLostTwice` | `MediaSafety => NoDataLostTwice` |
| `MixerIsFollowed` | `MediaSafety => []MixerFollows` |
| `VolumeIsHeard`, `WithdrawnListenerIsOut` | `MediaSafety => []VolumeHeard`, `[]VolumeWithdrawn` |
| `OrderKeepsCirclesAway` | `LockSpec => []NoCircularWait`, for finitely many ranked mutexes |
| `OrderIsKept` | `MediaSafety => KeepsLockOrder` |
| `NoThreadsInCircles` | `MediaSafety => []Locks!NoCircularWait`, and who waits for itself |

`MediaInv` has a part for each component and one for the two together:

- `AudioHeld`: a thread sleeps in the driver only with the mutex and with the
  output running, so that no start or cleanup can come between;
- `RingMatchesDevice`: the ring holds data only while the device plays, and a
  device whose last write was thrown away is prepared, or still in the underrun
  when that failed. `NoDataLostTwice` rests on it: only a write that is taken
  starts the device again, and only a device that was started can run empty;
- `VolumeLocked`, `ListenerUpToDate`: `volume_step` goes with the mutex, and the
  listener has heard of the present volume, except between a change and its
  telling, when the mutex is held;
- `MixerUpToDate`: the mixer, if volume control was the last to set it, has the
  volume in force, except between a change and its application, when
  `volume_mutex` is held, so that no second change can come between. The step
  that applies a change reads volume and mute anew, and a direct call takes the
  mixer from volume control;
- `ListenerWaits`: who waits to make a call is in the listener and holds
  `volume_mutex` only;
- `BothHeldInside`: a thread that holds both mutexes is in the listener.

The absence of circles is not proved about the components. `OrderKeepsCirclesAway`
proves it of the rule: of any group of threads that wait for each other, take one
that waits for a mutex of the greatest rank. Its holder, another thread of the group,
would wait for a greater one, or for a mutex it holds itself, which no other can
hold. `OrderIsKept` shows that every step of `Media` is a move the
rule allows or a stutter (`StepIsMove`, from `StepOf`, which says what one step
of a thread does to both mutexes and to `want`). `NoThreadsInCircles` puts the two
together through an instance of `LockOrder_proofs`, and adds that a thread that
waits for itself is in `audio_output_cleanup` of a running output: the one wait
that the order does not exclude is the one the code makes.

### Playback (`Playback_proofs`)

| theorem | states |
|---|---|
| `PlaybackInvariant` | `PlaybackSpec => []PlaybackInv` |
| `PlaybackTypes` | `PlaybackSpec => []PlaybackTypeOK` |
| `ListenersHear` | `PlaybackSpec => []PlaybackHeard` |
| `WithdrawnStaySilent` | `PlaybackSpec => []PlaybackWithdrawn` |

`PlaybackInv` adds that `inside` and `due` go with the mutex and the order of the
two listeners (`PlaybackControlled`), and that a listener has heard of the
present value or is still due (`PlaybackUpToDate`). All operations end in `Tell`
or `CallNext`, so one lemma about `CallNext` carries the argument.

### Base64 (`Base64_proofs`)

`RoundTrip`: for any data of at least one byte, decoding the encoded text
succeeds exactly when there is room for the data, and gives the data back. The
lemmas are the arithmetic of one quantum (three bytes, four digits, `Quantum`),
of the lengths (`Lengths`), and that the padding never takes a digit that held
part of a byte (`QuantaSurvive`).

### Not proved

Out of the prover's reach, and only model-checked: liveness and `ENABLED`
(`RequestsAnswered`, `QueueDrains`, `GoneAreReaped`, `ShutdownCompletes`,
`MutexesAreReleased`). Of the first four the bounds on a pass and on a shutdown
(`PassesAreBounded`, `ShutdownIsBounded`) are the part that is proved. There is no
definition with RECURSIVE. Every other property of a passing run is proved, without
a hypothesis.

The six violated properties of section 3, and `RoomsDiffer`, are false of the
code. For four of them a theorem says how far it goes or names its cause: `OnlySigPipeSpreads`,
`WholeNamesDiffer`, `OneCallerGetsAll`, `PortsStayBound`.

## 5. What is not modelled

- The wording of replies, logging, options, device names, `session_id`.
- `airplay_server_set_config` and the callback setters: nothing calls them, and
  nothing but `start` reads what they set.
- Multiroom's sync delay, callbacks and reading getters: no other operation
  depends on them.
- A second call of an init function, and calls from other threads while the
  first init runs: `main` calls each once, before anything else runs.
- NaN as a volume, which passes the range check of `volume_control_set`: volumes
  are whole steps.
- Bytes past the alphabet and empty texts in base64, see above; frames of 0
  bytes, by which the audio output would divide (`AudioAssumption`).
- Other programs that set the mixer.
- More than one process: the port is the daemon's own, except that `bind` may
  fail.
- Avahi events after `avahi_client_new`: the poll object that would bring them is
  never started, so what the callback does with them is code that does not run.
  The `mdns_*` functions of `network_utils.c` only log.
- AES, HMAC and random numbers are calls into OpenSSL, and the pairing check is a
  comparison of two strings: no state, and nothing of their own to check.
- The wrappers of `network_utils.c`: stateless, and called by no other file.
- Supervision: the script is four calls of procd. What becomes of a command that
  puts itself in the background, and is respawned, is procd's code.
- Build and packaging scripts, and the UCI file, which no code reads.

## 6. Plan

The order of work was the order of importance: the server and the daemon that
drives it, multiroom with its registry, audio and volume with their mutexes,
playback, base64. All are in place with their proofs.

Left, in this order:

1. `audio_output_configure` under an open device: the format the device has and
   the one frames are counted by differ until the next start. The model has it
   (`stream` against `current_config`); it contradicts no text of the repository, and would be a property as soon as one
   says what is meant.
2. The server's callbacks, once something sets them: they join the server's
   thread with the media components, and their mutexes with `LockOrder`.
3. A service with fairness: `ClientService` with the fairness the loop has would
   carry `RequestsAnswered` and `QueueDrains` as properties of the service, and the
   server's liveness runs would show that it implements them.
