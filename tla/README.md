# A TLA+ model of oxideav-sysaudio

oxideav-sysaudio plays audio through whatever sound system the host has. It
loads the system's library at run time, and one public handle, `Stream`,
stands in front of six backends, five of them around a foreign API and one
virtual for tests. The program text is small; what is hard in it is that every
stream has two threads, that most of the state is a handful of atomics between
them, and that the third party (a sound server, a driver, a kernel) blocks,
refuses, returns short or goes away.

This directory models the streams (the handle, the closure around the user's
callback and all six backends) and the calls that need no stream: probing, the default driver,
enumeration and the caches of loaded libraries. What is proved and what comes next is under
[What is proved](#what-is-proved) and [Plan](#plan).

Line numbers below are of the sources under `src/src/`.

## The system

| Component | State | Operations | What makes it correct |
|---|---|---|---|
| **Stream handle** `stream.rs` | `playing`, `stopped`, the shared volume | `new`, `play`, `pause`, `is_playing`, `set_volume`, `stop(self)`, `Drop` | the backend's `stop` runs once, though `stop(self)` also drops; `is_playing` is the last successful request |
| **Render closure** `lib.rs` 393-423 | `poisoned`, the volume | one call per period | a panicking callback is never entered again and never heard in part; a period is scaled as a whole by a volume in force during it |
| **Validation, `open`, `open_on`, `open_default`** `lib.rs` | none | | impossible requests are refused before a backend sees them |
| **Virtual backend** `mock.rs` | `playing`, `shutdown`, `frames_played`, the process-wide capture sink | `open`, worker, `take_captured` | an exact clock, a faithful bounded sink, a prompt stop |
| **PulseAudio** `pulse.rs` | `paused`, `stop`, `frames_played`, `latency_usec`, the connection | `open`, worker, `play`/`pause`/`stop` | the connection is freed once and not under the worker; every rendered period is heard once; the clock |
| **OSS** `oss.rs` | the same flags, `queued_frames`, the descriptor | the same | the descriptor closed once; short writes counted as what they are |
| **ALSA** `alsa.rs` | `stop`, `frames_played`, `delay_frames`, the PCM; no `paused` | the same, plus enumeration | recovery from underruns, pause on the PCM itself, the clock, stop |
| **WASAPI** `wasapi.rs` | flags, published padding and latency, COM references, an event | the same, plus enumeration | references balanced on every exit, latency meaningful after a pause, stop |
| **CoreAudio** `coreaudio.rs` | flags, three buffers, the callback state on the heap | the same, plus HAL queries | no callback on freed state; latency that follows the device |
| **Driver registry** `lib.rs`, `backend.rs`, `backends/mod.rs` | none | `drivers`, `probe`, `default_driver`, `status`, `driver_by_name` | order kept, stubs never offered as ready, a probe's answer can be old when `open` uses it |
| **Library caches** in each backend | a cached handle behind a mutex | `lib()`, `ca_lib()`, `cf_lib()` | one load, failures retried where that is meant |
| **Queries** in `alsa.rs`, `wasapi.rs`, `coreaudio.rs` | none | `output_devices`, `default_output_device`, `preferred_format` | a list that was true of some moment, its default too; everything acquired given back on every exit |
| **Stubs, formats, errors** | none | | |

How they interact. `open` wraps the callback in the render closure and hands it to
the backend, which gives it to a worker thread (CoreAudio: to the OS's thread).
From then on the control thread, which owns the handle, and the worker share
atomics. `Stream` is `Send` and not `Sync`, and `play`/`pause` take `&mut self`,
so there is one control thread at a time. `stop` sets a flag, joins the worker, and
releases the device; dropping the handle does the same.

What is hard: the worker reads a flag and acts on it later, sometimes reading it
twice in one period; a blocking write holds the worker while the control thread
waits for it; a panic, a short write, an underrun or a lost device ends a period
half-way; the device is released by the thread that did not use it. `hazards` in
`PROJECT.json` lists these by line with the properties that watch them.

## The modules

```
AudioStream                  what every stream promises (abstract)
   ^ refined by
MockBackend  PulseBackend  OssBackend  AlsaBackend  WasapiBackend  CoreAudioBackend
   | EXTENDS StreamHandle (all six), RenderPath (MockBackend)
DriverRegistry               the calls that need no stream
   | EXTENDS LibCache, BackendScripts
MC<name>.tla, MC<name>.cfg   the small instances
<name>Proofs                 theorems about the module <name>: the six backends,
                             BackendScripts, DriverRegistry (with LibCache)
```

**AudioStream** has a transport, the callbacks and the clock. A callback may run
while the stream plays, and once more after a pause if the worker had already
committed to it (`late`); the clock only advances and only in a stream's life; after
stop nothing happens. `stop` counts as done at the moment it returns. It is the
meeting point of `stream.rs` 40-46 and 82-93, `lib.rs` 354-361 and `format.rs` 94, and no
definition of it stands for particular code.

**StreamHandle** is `stream.rs`. `playing` and `stopped` are the fields; `ctl` is where
the control thread is, `frame` which call (`stop(self)` or `Drop`) runs the backend's
`stop`. A backend's `Play` is the handle's `PlayOk` conjoined with what its own
`play` stores, and so on, because the handle does nothing that another thread can see
between the two. The positions inside `stop` belong to the backend.

**RenderPath** is the closure of `open` (`lib.rs` 403-423), a step per shared access:
`SkipPoisoned`, `EnterUser`, `UserReturns` or `UserPanics`, `ApplyGain`. `set_volume`
(`stream.rs` 107-110) may run between any two. One amplitude stands for a period: 0 is
silence, the callback writes 1, and may have written before it panics.

**MockBackend** is `mock.rs` with `validate_request`, and the only module that runs the
closure step by step. The worker's positions are `top` (the `while`), `check` (the read of
`playing`), `render` (inside the closure), `push`, `tick`, and `sleep`/`slice` for
`sleep_responsive`. `stop` is two stores and a join, each a step. One sample stands for a
frame; the sink is a sequence of samples that remember their stream, period and amplitude.
Another stream's `push_captured` and a test's `take_captured` can fall between any two steps.

**PulseBackend**, **OssBackend** are `pulse.rs` and `oss.rs`: `top`, `check` (first read of
`paused`), `render`, `write`, `count` (second read), and for PulseAudio `latency`. The closure
is one step there, because it always returns (`RenderPath` says so) and touches nothing
else of theirs. `PulseBackend` also computes `pa_buffer_attr` as `make_buffer_attr` does,
with `u32::MAX` as a constant.

**AlsaBackend** is `alsa.rs`, with the PCM's state machine as the code relies on it:
prepared, running, paused, xrun, suspended, gone, closed. `snd_pcm_writei` takes a frame at a time and
returns when the period is transferred, short when an underrun or a lost device stops it, with an
error if nothing was transferred. `snd_pcm_recover`, `snd_pcm_delay` and `snd_pcm_pause`
are one step each, so that two threads inside the PCM at once are not modelled. The system may suspend a
running PCM (`SystemSuspends`, `-ESTRPIPE` in the comment at 772): a write then fails, `snd_pcm_delay` gives no answer, and
`snd_pcm_recover` resumes the PCM with what it holds or prepares it without (`Recovers`).

**WasapiBackend** is `wasapi.rs`. `open_inner` is a position per fallible call; `OpenCalls` says what
each call adds to the ledger `refs`, and what its error path releases. An open that fails ends at `failed`, except
that of the failed spawn, whose exit cleans nothing up and is a position of its own, `abandoned`. The worker's positions are
`top`, `wait`, `padding`, `buffer`, `check`, `render`, `release`, `count`, `clock`; any call may be refused, which
ends it. The event's state is not kept: the wait has a timeout and leads on either way.
Behind the shared buffer is a pipe of frames in the hardware, so that `IAudioClock` lags; its position
comes in whole units of its own frequency (`Ticks`) and is converted back to frames, rounding down (`PosFrames`). Latencies are in frames.

**CoreAudioBackend** is `coreaudio.rs`. There is no worker: the AudioQueue plays buffers (`fifo`), collects
those it has played (`returned`) and calls the trampoline with them, whose positions are `check`, `render`, `count` and `enqueue`.
`open_inner` is a step per call, with the device UID it holds and its error exits. `play` and `pause` are
two steps, the store and the request to the queue. `latency()` is a step per thing it reads: the device (`ResolveDevice`; the question for
the default may be refused, and nothing more is read), then the device's latency, buffer size, safety offset and stream latency (`ReadProperty`), each of which may be refused and then
counts 0 (`Answers`). The default output may move between any two. The
software part of the latency, a constant of the stream, is left out. The queue may refuse a request or a buffer, which the code never looks at. What is relied
on of it is that it calls the trampoline with one buffer at a time and that `AudioQueueStop(.., 1)` returns when the trampoline is out for good.

**LibCache** is the body of every `lib()`: lock, look, load, store, and that of `ca_lib`/`cf_lib`, which store a failure too.
**BackendScripts** says for each backend and query which calls it makes in order, what each acquires and releases, and what
its error path releases; **DriverRegistry** runs these scripts for several threads (`th`), as `lib.rs` composes them:
`probe` and `default_driver` are one job per driver, `status` one or none, `open_default` a probe and an `open`,
the queries one job. `NotImplemented` becomes an empty answer (`Softened`). A position is a step of a script, plus `check` and `load` inside `lib()`.
A device may be listed and then not described, because WASAPI's `Item` or CoreAudio's stream configuration is refused; both backends skip it (`SkipDevice`), and
the thread's history `skipped` keeps it. `host` is the system: its libraries, what works, its devices, its default; it may change between any two steps.
Its history during a call (`seen`) is what the answers are judged by. What a backend's `open` does after
`lib()` is one step here, since the backend's own module has it.

Data is abstracted throughout: sample formats and conversions, device names, error texts and the
dynamic loading are left out; rates and buffer hints are kept because periods are computed
from them. Counters that only grow are plain naturals: `u64` frame counters do not wrap within
any stream's life.

## The runs

| Run | Properties | What it shows |
|---|---|---|
| `mock` (`MCMockBackend.cfg`) | `TypeOK`, `ClockExact`, `CaptureFaithful`, `RenderedWhole`, `PromptStop`; `NeverReentered`; `StopTerminates`, `KeepsRendering`; `ImplementsAudioStream` | the render pipeline under every interleaving |
| `pulse` (`MCPulseBackend.cfg`) | `ConnectionLifetime`, `EachPeriodHeardOnce`, `ClockDrift`, `AttrAccepted`; `StopTerminates`; `ImplementsAudioStream` | the worker against a blocking server that may vanish |
| `oss` (`MCOssBackend.cfg`) | `FdLifetime`, `ClockDrift`; `StopTerminates`; `ImplementsAudioStream` | the same with short writes and refused settings |
| `alsa` (`MCAlsaBackend.cfg`) | `PcmLifetime`, `ClockIsAccepted`, `PositionNotAhead`; `StopOfUnpausedTerminates`; `ImplementsLifecycle` | underruns, suspension, recovery, unplugging, and what ALSA keeps of the contract |
| `wasapi` (`MCWasapiBackend.cfg`) | `ObjectLifetime`, `LatencyBounded`; `StopTerminates`; `ImplementsAudioStream` | every exit of the open, an engine that stalls or refuses, the published latency |
| `coreaudio` (`MCCoreAudioBackend.cfg`) | `StateLifetime`, `HeardOnceInOrder`, `ClockDrift`, `LatencyFollowsRoute`; `KeepsFilling`; `ImplementsAudioStream` | the system's thread on the heap state, circulating buffers, routing, `latency()` read by read while the default output moves |
| `registry` (`MCDriverRegistry.cfg`) | `LoadedOnce`, `ProbeSound`, `OpenDefaultSound`, `Balanced`, `ListSound`, `DefaultAgrees` | probing and enumeration on a host that changes under them |
| `pulse_clock` | `ClockCountsPlayed` | violated, see finding 3 |
| `alsa_stop` | `StopTerminates` | violated, see finding 1 |
| `alsa_pause` | `PauseHolds` | violated, see finding 2 |
| `wasapi_latency` | `WrittenIsReleased` | violated, see finding 4 |
| `wasapi_com` | `ComBalanced` | violated, see finding 5 |

Every module with state has a `TypeOK`. It holds in every run and is a theorem for the six backends and the registry; only `mock` lists it, since its type
also says that a volume is never negative and never NaN.

The properties worth a second look:

- `ClockExact`: the n-th callback is told of exactly n-1 periods. A pause that lands anywhere
  in the period must neither drop nor add one.
- `CaptureFaithful`: what a drain returns of a stream is gap-free and in order up to the cap,
  although the drain, another stream and the cap act between any two steps.
- `ClockDrift` (PulseAudio, OSS): the clock is not exact there (finding 3), but its error is at most one
  period for each change of the paused flag, in either direction. `EachPeriodHeardOnce` is the
  companion: the audio itself is neither lost nor repeated.
- `ClockIsAccepted` (ALSA): played plus queued equals the clock, also through short
  writes, underruns, suspension and recovery, with what a suspension lost. `PositionNotAhead`: clock minus `latency()`, the use `stream.rs`
  28-31 recommends, is never ahead of what was heard, except between the clock's update
  and the delay's. A suspension adds two exceptions, both kept by name: the frames the device did not keep (`lost`), which the
  clock has counted for good, and the writes whose delay could not be read (`missed`), until one can.
- `ObjectLifetime` (WASAPI): nothing the worker calls into is released under it, and every call of the open that fails, up to the
  engine's start (998-1007), gives back the client, the mix format, the event and the render client, as far as they were acquired. Two things are not claimed, since the code does not do
  them: the failed spawn (1074-1080, position `abandoned`) returns with everything held, and no error exit undoes COM's initialisation, which is why `com` is not one of the `Objects`.
- `LatencyBounded` (WASAPI): the count and the engine's clock come from two sides and the count from a flag read twice;
  their difference still never exceeds what the buffer and the hardware hold, but for what the two roundings of the clock's position hide (`RoundingLoss`).
- `StateLifetime` (CoreAudio): the trampoline never runs on a freed callback state or a disposed queue, and each of the seven exits
  of the open frees once, in that order, and keeps no device UID.
- `HeardOnceInOrder` (CoreAudio): what is queued continues what was heard, in order and without a gap, though the buffers circulate
  through pauses. `KeepsFilling` is the other half: a buffer that comes back while paused is enqueued again, so that the
  queue does not run dry and the callback goes on after the next `play`.
- `LatencyFollowsRoute` (CoreAudio): the figure adds up what one device answered, never half of one and half of another, and a device the stream
  played through at some time during the call, also for a routed stream while the default moves, and whichever questions are refused.
- `ProbeSound`: no moment of the call shows the whole answer, so the claim is per driver: a driver found worked at some moment (the virtual one always does), one
  missing did not at some moment, and the order is the platform's. It would fail if a failed load were remembered.
- `OpenDefaultSound`: between the probe and the open the device may go, which is an honest error; a library may go too, and must not matter,
  because the probe's handle is kept.
- `ListSound`, `DefaultAgrees`: the same reading for lists. They also tie CoreAudio's direct query of the default to the tag in its list,
  which `coreaudio.rs` 857 asks for and the code's own test can compare on an idle machine only.
- `Balanced`: a ledger of what each query holds. WASAPI's `probe` is excepted by name (`KeptByProbe`).
- `ImplementsAudioStream`: `late` is mapped to "not playing, and the worker has committed". TLC then
  shows that a pause lets through one callback and never two. ALSA implements only
  `ImplementsLifecycle`, the same contract with pausing taken out.

Every property of a passing run has a mutant in `PROJECT.json`, a plausible slip in the modelled
code under which TLC reports the property violated. A mutant's definition stands right before the
one it replaces.

### Bounds

- `mock`: two periods (`MaxPeriods`), enough for a panic in the first or second, with
  periods of two frames and of one; a cap of three samples, so that the second period is cut in the
  middle; two slices per sleep, so that `stop` can come before, between and after them; one
  foreign push. After `MaxPeriods` the worker behaves as if paused.
- `pulse`: three rendered periods, three changes of the flag, a server that holds two periods.
  Silence is not bounded: a paused worker runs for ever, as it does. The requests cover
  no hint, one below the floor, one above a default period, and one whose byte count saturates.
- `oss`: five rendered frames in periods of two or three, two changes of the flag, room for
  four frames: short writes of every length, a full buffer with the period half written.
- `alsa`: five frames, periods of one and two, room for three; one suspension, which may fall before, within or after a write. Play and pause are not bounded.
- `coreaudio`: the code's three buffers, three callbacks, so that each buffer carries a period and comes back, two changes of the flag, one buffer
  refused; a request that follows the default and one routed to a device whose byte count wraps (`U32` is scaled down). Two
  devices that answer differently, the headset more than `U32` - 1 in all, so that the sum saturates; each reports two of the four properties, so that a sum may be cut short or mixed at either. The
  default moves without a bound.
- `registry`: two threads, each making call after call; a Linux host whose libpulse is missing, one whose server is down, a Windows and a macOS host; two changes of the
  host while one call is under way, one while both are (`MaxRaced`). Two threads are what it takes to race for a lock, and one change between
  any two steps is what makes an answer old; the second change undoes the first. Symmetry in the threads; deadlock is checked.
- `wasapi`: a buffer of two frames, so that it is found empty, half full and full; one frame in the hardware; four
  frames in all, so that a buffer filled with silence is followed by one that is rendered, and the reverse. The clock ticks twice in
  three frames, so that its position rounds.

The device goes away at the bound at the latest, which is also a thing devices do. It does not help the
liveness properties: a worker in `stop` needs to pass its loop test once, and reaches it within
a period, and the mutants of those properties do hang under the same bounds.
`CHECK_DEADLOCK FALSE` in the runs of streams: a stopped stream has nothing left to do.

### Fairness

The specification used for liveness is `FairSpec`. It assumes that the scheduler runs the worker
(weak fairness of its steps), that a control thread already inside `stop` goes on (`StopSteps`),
that the user's callback returns or panics, and that a device or server plays what it has queued
(in ALSA: while it is running; in WASAPI nothing is assumed of the engine, since the worker's wait has a timeout; in CoreAudio that a running queue plays, and runs the trampoline with what it has played). It does not assume that anybody calls `play`, `pause` or `stop`,
nor that a write ever fails (other than at the bound). None is stronger than the
code needs: a worker blocked by a full buffer is a disabled action, and a device that never
plays would block a blocking write for ever.

## Findings

1. **ALSA: stop of a paused stream can hang** (`alsa_stop`). `stop` joins the worker before
   it touches the PCM (`alsa.rs` 836-843). If the PCM is paused and full, the worker waits
   in `snd_pcm_writei` for room that only the joining thread could make. `stream.rs` 40:
   "Dropping the handle stops the stream and frees the device". The passing run shows
   that an unpaused stream does stop.
2. **ALSA: pause right after open is lost** (`alsa_pause`). A PCM that is not running yet refuses
   `snd_pcm_pause`, the refusal is ignored (`alsa.rs` 822), and the worker's first write starts
   it. `stream.rs` 44-46 recommends exactly that use. The run gives the device pause support.
3. **PulseAudio: the clock loses a period around a pause** (`pulse_clock`). `paused` is read before the
   render and again after the write (`pulse.rs` 371, 399). In the run a `pause` falls between: the period has been rendered, the server accepts it, and it is not counted, though `format.rs` 94 calls
   the result the "Monotonic count of frames played". A `play` in between does the reverse and counts silence; `ClockDrift` bounds both.
   OSS (379), WASAPI (1205) and CoreAudio (1006) read it twice as well.
4. **WASAPI: the latency forgets silence** (`wasapi_latency`). The published latency is `frames_played` minus the clock's
   position (`wasapi.rs` 1220), and the comment on the function calls the first "how many sample frames we have given to WASAPI" (1238).
   Silence is given to WASAPI while paused and not counted (1205), so after a pause the reading is too small by the pause, soon 0.
5. **WASAPI: COM is uninitialised without having been initialised** (`wasapi_com`). `co_init` tolerates `RPC_E_CHANGED_MODE`
   (`wasapi.rs` 493) and `stop` calls `CoUninitialize` regardless (1359-1362).

Seen while modelling, without a run of their own.

- ALSA: the comment at `alsa.rs` 812-815 says silence is written on devices that cannot pause; nothing does. The comments that only the
  worker touches the PCM (714, 783, 804) do not hold for `play` and `pause`.
- WASAPI: a failed spawn leaks the client, its services and the event, with the engine started, and no error exit of `open_inner` calls `CoUninitialize`. `stop` calls it on whichever thread it runs on. `probe` (517-526) leaves
  the mix format it is given unfreed, and skips `CoUninitialize` when `activate_client` fails.
- OSS: `oss.rs` 375 calls EINTR recoverable and the worker exits on it; `FdGuard`'s doc (404) speaks of RAII and it has no `Drop`.
- CoreAudio: `coreaudio.rs` 1199 calls the software part of the latency a hard lower bound, although a sample rendered while playing waits for the two
  buffers ahead of its own. It is computed from `frames_per_buf` (1206) while the buffers have the wrapped `u32` byte count (1166). The answers of `AudioQueueEnqueueBuffer`, `Start`
  (in `play`), `Pause` and `Stop` are ignored: a buffer the queue refuses never comes back.
- Enumeration: CoreAudio answers an empty list when the HAL refuses to enumerate (603-640) or its framework failed to load once, for ever (327-337), where `lib.rs` 109-111 has a
  "genuine failure" surface as an error. The default is read before the list, so that a non-empty list may have no entry tagged, where
  the crate's README (114) has "Exactly one entry".
- `StreamImpl::stop` "must be idempotent" (`stream.rs` 36) and is so only because `Stream` guards it, on all backends
  except the mock, whose second stop does nothing, and CoreAudio, which keeps a flag.

## What is proved

Eight modules hold theorems, one per component, each extending the component's module. A theorem holds for every value of
the constants that satisfies the `ASSUME` of the module it is about: any requests, any buffer sizes, any
number of threads, periods, toggles or host changes. The assumptions say that the constants have the types the code
gives them and, of the hosts to start on, that the default is a device that is there and can play (`MockAssumption`, `VolumeAssumption`, `PulseAssumption`, `OssAssumption`, `AlsaAssumption`, `WasapiAssumption`,
`CoreAudioAssumption`, `CacheAssumption`, `RegistryAssumption`), and TLC evaluates them in the runs.

| Module | Theorems, with the property they state |
|---|---|
| `MockBackendProofs` | `TypeCorrect` (`TypeOK`), `ClockIsExact` (`ClockExact`), `CaptureIsFaithful` (`CaptureFaithful`), `PeriodsAreWhole` (`RenderedWhole`), `SinkStaysBounded`, `StopIsPrompt` (`PromptStop`), `PoisonedNeverReentered` (`NeverReentered`), `Refinement` (`ImplementsAudioStream`) |
| `PulseBackendProofs` | `TypeCorrect`, `ConnectionLives` (`ConnectionLifetime`), `PeriodsHeardOnce` (`EachPeriodHeardOnce`), `DriftIsBounded` (`ClockDrift`), `AttrIsAccepted` (`AttrAccepted`), `Refinement` (`ImplementsAudioStream`) |
| `OssBackendProofs` | `TypeCorrect`, `FdLives` (`FdLifetime`), `DriftIsBounded` (`ClockDrift`), `Refinement` (`ImplementsAudioStream`) |
| `AlsaBackendProofs` | `TypeCorrect`, `PcmLives` (`PcmLifetime`), `ClockCountsAccepted` (`ClockIsAccepted`), `PositionIsNotAhead` (`PositionNotAhead`), `Refinement` (`ImplementsLifecycle`) |
| `WasapiBackendProofs` | `TypeCorrect`, `ObjectsLive` (`ObjectLifetime`), `LatencyIsBounded` (`LatencyBounded`), `Refinement` (`ImplementsAudioStream`) |
| `CoreAudioBackendProofs` | `TypeCorrect`, `StateLives` (`StateLifetime`), `HeardOnce` (`HeardOnceInOrder`), `DriftIsBounded` (`ClockDrift`), `LatencyFollows` (`LatencyFollowsRoute`), `Refinement` (`ImplementsAudioStream`) |
| `BackendScriptsProofs` | `ScriptsFit`: every script, step by step and on every error exit |
| `DriverRegistryProofs` | `LoadsOnce` (`LoadedOnce`), `QueriesBalanced` (`Balanced`), `ProbesAreSound` (`ProbeSound`), `OpensTheBest` (`OpenDefaultSound`), `ListsAreSound` (`ListSound`), `DefaultsAgree` (`DefaultAgrees`), `RegistryTypes` |

In each module an inductive invariant does the work: it holds initially, every action keeps it (one step of the proof per
action), and it implies the property. TLC checked each of these invariants over the whole state space of the component's run before it was proved.
`StepRefines` maps every action to one of `AudioStream` or to a stutter, under the same invariant. What the invariants add to the properties:

- All six streams, `ControlInv`: which positions of the control thread and of the worker (or the trampoline) go
  together. The stream is unopened exactly while there is no worker; once the device is being released the worker has
  exited; where there is a `paused` flag, `playing` is its negation at the stable positions. The lifetimes rest on it together with a table of who has the device at
  each position of the control thread (`ConnInv`, `FdInv`, `PcmInv`, `StateInv`; in WASAPI `HeldAt`, the exact ledger at each of the positions of `open_inner`).
- Virtual backend, `ClockInv`: whole periods for all calls but the one in flight; `ClockExact` looks only at the moment of a
  call and is not inductive. `SleepInv`: at most one slice slept after shutdown, and it is being slept only if none was. `CaptureInv`: a sink
  that has been cut is full, so that nothing can be put behind the cut until it is drained; without this a later push could leave a gap.
  `RenderInv`: the gain loaded is one that was in force during the period, and a poisoned closure is not in user code.
- PulseAudio, OSS, CoreAudio, `DriftInv`: between the two readings of the flag the worker has committed to count (`Rendering`) or not to count
  (`Silencing`) the period. If the flag has been changed since, the second reading will do the opposite, and one of the toggles is reserved to pay for that (`Owed`).
  What is rendered and not yet due is left out (`Uncounted`). With these two the bound of `ClockDrift` is inductive, for any period and any
  number of toggles. The arithmetic is in `NoDrift`, `Distributes`, `DriftUntouched` and `ToggleKeepsDrift`.
- PulseAudio, `AttrOfRequest`: the `u32` products saturate, yet the refill size lies between one byte and the buffer. It is computed once, in `open`.
- ALSA, `DelayInv`: the published delay covers what the ring buffer holds but for the frames transferred since it was last asked for
  (`Unpublished`) and those of writes after which the PCM, suspended, did not tell it (`missed`); an underrun has played everything. `PositionNotAhead` follows from it and from `ClockIsAccepted`.
- WASAPI, `EngineInv`: frames released are in the buffer, in the hardware or heard; the worker asks for no more
  room than it found; it counts no more than it released. The latency is a difference of two of these; `ClockReading` bounds what the conversion of the clock's position rounds away, for any rate
  and frequency. `RefsInv`: the ledger is that of `HeldAt`, also at `abandoned`, and the clock, which is optional, is held only from `spawn` on.
- CoreAudio, `BufferInv`: every buffer is queued, returned, in the trampoline's hands or refused. `HeardInv`: a rendered period not yet heard is queued or
  in hand (`InHand`), and the one in hand is the last. `LatencyInv`: the device `latency()` has settled on is one the stream played through during the call, and what has been summed is one answer, or refusal, of that
  device for each property read so far.
- Registry, `CacheInv`: a thread inside `lib()` owns the mutex of that library, and the slot is still empty while it loads. `LedgerInv`: what a
  thread holds is what the script of its current job holds at that step (`HeldAlong`, a table), and what a `probe` of the same call has leaked before.
  `ScriptsFit` checks the table against the scripts; the registry's proof does not look into them again. It also needs the jobs of a call
  (`JobsOK`): only the first can be WASAPI's probe, since Windows lists WASAPI first, and `open_default` opens a driver it has found.
- Registry, `SearchInv`: the jobs left of a probe are the last of those asked for, and of the drivers before them each was found, in order and
  with its library still loaded, or was unusable on a host of `seen` (`FoundOK`); the probe under way has passed `lib()` only with the library
  loaded, and a call only on a host where the backend was up (`CurrentOK`); the driver `open_default` opens is one that every better one was unusable beside
  (`OpeningOK`). The verdicts survive a change of the host because `seen` only grows (`VerdictsGrow`), and a loaded library stays loaded
  (`SlotsStay`), so that the open cannot fail in `lib()`. A slot that remembers a failure is never a backend's `lib()` (`RetryInv`, from the
  assumption that no library of `LibOf` is in `Sticky`, as in the source). That the drivers of a host are distinct is
  `DriversAreListed`; the scripts enter through `SearchShapes`: the library first, and a probe that ends well has made a call.
- Registry, `ScanInv`: an entry listed or a device pending was there on a host of `seen` and can play, no device is in both, and each entry carries
  the tag that the default read gives it (`ListingOK`); once the devices have been listed, one that was there throughout is pending, listed or skipped
  (`Covered`). Neither property is inductive alone: `ListSound` looks only at calls that are over, and the tag would be stale if the
  default were read during the walk. That it is read before the list, and once, is `ScanShapes`; an answer that is `refused` is exempt from
  completeness only. For ALSA the tag is a name, so that the invariant also says ALSA is asked on Linux hosts only (`AlsaOnLinux`).
- Registry, `TypeInv`: with `ScriptsFit`, what a script acquires is a resource.

What stays with TLC:

- Liveness (`StopTerminates`, `StopOfUnpausedTerminates`, `KeepsRendering`, `KeepsFilling`) and anything with fairness or `ENABLED`: out of the prover's reach.

## Plan

Every invariant and action property that a passing run checks is a theorem. What is left is to widen the model:
`preferred_format` of a named device, a suspension of an ALSA stream that is paused, and PCM calls that overlap.

### Not modelled

- What the system answers: device names, rates, channel counts, the HAL's and COM's data. `preferred_format` of a named device differs from that
  of the default only in this.
- Sample conversion, the dynamic loader, error texts, `format.rs` and `error.rs` (plain data), the tests and the example.
- ALSA's `get_hint` when libc's `free` could not be bound (the strings leak, as `alsa.rs` 325-329 says), a libasound without the hint API (a
  `NotImplemented`, hence an empty list), and a WASAPI endpoint whose id cannot be read (listed with an empty id).
- ALSA: calls on the PCM by two threads at once (each is one step here), and a suspension while paused or before the first write.
- WASAPI: whose COM initialisation a failed open or a stop on another thread leaves unbalanced; there is one control thread here.
- The virtual backend's queries, which return constants: the registry probes and opens it only.
- A panic inside a library loader, which would poison the cache's mutex.
