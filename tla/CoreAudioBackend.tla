-------------------------- MODULE CoreAudioBackend --------------------------
(***************************************************************************)
(* The CoreAudio backend (backends/coreaudio.rs).  There is no worker of   *)
(* the crate's own: an AudioQueue plays NumBuffers buffers in turn and     *)
(* calls output_trampoline, on a thread of the system, with each buffer it *)
(* has played; the trampoline fills it and enqueues it again.  What it     *)
(* reads lies on the heap behind a raw pointer that stop() frees.          *)
(*                                                                         *)
(* The queue is external.  It calls the trampoline with one buffer at a    *)
(* time, may refuse any request, and AudioQueueStop(.., 1) returns once    *)
(* the trampoline is out and will not be called again: the guarantee the   *)
(* code relies on.  MaxRendered bounds the callbacks.                      *)
(***************************************************************************)
EXTENDS StreamHandle, Sequences

CONSTANTS
  NumBuffers,   \* NUM_BUFFERS
  Requests,     \* [rate, channels, frames, device] open() is called with
  None,         \* an absent hint or device
  U32,          \* 2^32: a byte count is cast to u32
  Devices,      \* AudioDeviceIDs
  Hal,          \* external: what the HAL says of each device
  MaxRendered,  \* bound: callbacks
  MaxRefused,   \* bound: buffers a queue that is not being stopped refuses
  MaxToggles    \* bound: changes of the paused flag

(* what latency() reads of a device, in this order, and the properties it  *)
(* asks for each: the output scope's, then the global one                  *)
Reads == {"latency", "buffer", "safety", "stream"}
Asked ==
  [latency |-> {"outLatency", "globalLatency"}, buffer |-> {"outBuffer", "globalBuffer"},
   safety |-> {"outSafety"}, stream |-> {"streamLatency"}]
HalProperties == UNION {Asked[at] : at \in Reads}

ASSUME CoreAudioAssumption ==
  /\ NumBuffers \in Nat \ {0}
  /\ None \notin Nat \cup Devices
  /\ \A req \in Requests : /\ req.rate \in Nat \ {0}
                           /\ req.channels \in Nat \ {0}
                           /\ req.frames \in (Nat \ {0}) \cup {None}
                           /\ req.device \in Devices \cup {None}
  /\ U32 \in Nat \ {0}
  /\ Hal \in [Devices -> [HalProperties -> Nat]]
  /\ MaxRendered \in Nat
  /\ MaxRefused \in Nat
  /\ MaxToggles \in Nat

VARIABLES
  paused,         \* the flag the trampoline reads
  framesPlayed,   \* frames_played
  period,         \* frames in the capacity of a buffer
  state, frees,   \* the CallbackState: "none", "live" or "freed"; history: its frees
  bound,          \* bound_device, None for the system's default
  uid,            \* device UIDs (CFStrings) held
  ca,             \* CoreAudio.framework is there for latency()
  queue,          \* the AudioQueue
  route,          \* external: the device the queue was bound to
  fifo,           \* external: buffers enqueued, by content: a callback's number, 0 silence
  returned,       \* external: buffers played and not yet given to the trampoline
  lost,           \* buffers the queue refused to take
  cbk, buf,       \* the trampoline's position, and what its buffer holds
  default,        \* external: the system's default output, while a call looks at it
  device, seen,   \* latency(): the device resolved; history: the devices routed to since
  hw,             \* latency(): the hardware's frames summed so far
  heard,          \* history: the last callback whose buffer was played
  calls,          \* history: callbacks
  toggles         \* history: changes of the paused flag

open == <<period, bound, uid, ca, route>>
callbackState == <<state, frees>>
buffers == <<fifo, returned, lost>>
trampoline == <<cbk, buf, framesPlayed, calls>>
query == <<device, seen, hw>>
vars == <<handleVars, paused, toggles, open, callbackState, queue, buffers, heard,
          trampoline, query, default>>

AtMost(x, limit) == IF x < limit THEN x ELSE limit
AtLeast(x, limit) == IF x < limit THEN limit ELSE x

Init ==
  /\ HandleInit
  /\ paused = FALSE /\ toggles = 0
  /\ period = 0 /\ bound = None /\ uid = 0 /\ ca = FALSE /\ route = None
  /\ state = "none" /\ frees = 0
  /\ queue = "none" /\ fifo = <<>> /\ returned = <<>> /\ lost = 0 /\ heard = 0
  /\ cbk = "none" /\ buf = 0 /\ framesPlayed = 0 /\ calls = 0
  /\ device = None /\ seen = {} /\ hw = 0
  /\ default = None

-----------------------------------------------------------------------------
(* open_inner(), call by call *)

FramesPerBuf(req) ==
  IF req.frames = None THEN AtLeast(req.rate \div 50, 64) ELSE req.frames

(* the product is taken in usize and cast: it wraps, where PulseBackend's  *)
(* saturates                                                               *)
BytesPerBuf(req) == (FramesPerBuf(req) * AtMost(req.channels, 8) * 4) % U32

(* the device id is no number, or one of the two frameworks is missing *)
RoutingRefused ==
  /\ \E req \in Requests : req.device # None
  /\ OpenFailed
  /\ UNCHANGED <<paused, toggles, open, callbackState, queue, buffers, heard, trampoline,
                 query, default>>

NewQueue(req) ==
  /\ At("new", IF req.device = None THEN "alloc" ELSE "uid")
  /\ period' = BytesPerBuf(req) \div (4 * AtMost(req.channels, 8))
  /\ bound' = req.device
  /\ state' = "live"
  /\ queue' = "idle"
  /\ UNCHANGED <<paused, toggles, uid, ca, route, frees, buffers, heard, trampoline, query,
                 default>>

NewQueueFails ==
  /\ OpenFailed
  /\ state' = "freed" /\ frees' = 1
  /\ UNCHANGED <<paused, toggles, open, queue, buffers, heard, trampoline, query, default>>

GetUid ==
  /\ At("uid", "device")
  /\ uid' = uid + 1
  /\ UNCHANGED <<paused, toggles, period, bound, ca, route, callbackState, queue,
                 buffers, heard, trampoline, query, default>>

SetDevice ==
  /\ At("device", "alloc")
  /\ route' = bound
  /\ uid' = uid - 1
  /\ UNCHANGED <<paused, toggles, period, bound, ca, callbackState, queue, buffers,
                 heard, trampoline, query, default>>

(* allocates one buffer and enqueues it, all silence; whether the queue    *)
(* takes it is not looked at                                               *)
Allocate ==
  /\ At("alloc", IF Len(fifo) + lost + 1 = NumBuffers THEN "start" ELSE "alloc")
  /\ \/ fifo' = Append(fifo, 0) /\ lost' = lost
     \/ lost < MaxRefused /\ fifo' = fifo /\ lost' = lost + 1
  /\ UNCHANGED <<paused, toggles, open, callbackState, queue, returned, heard, trampoline,
                 query, default>>

(* the error exits: the queue is disposed of, then the state is freed *)
Abandon(at) ==
  /\ At(at, "failed")
  /\ queue' = "disposed" /\ fifo' = <<>>
  /\ state' = "freed" /\ frees' = frees + 1
  /\ uid' = IF at = "device" THEN uid - 1 ELSE uid
  /\ UNCHANGED <<paused, toggles, period, bound, ca, route, returned, lost, heard,
                 trampoline, query, default>>

Start ==
  /\ ctl = "start"
  /\ StreamNew
  /\ queue' = "running"
  /\ ca' \in BOOLEAN
  /\ bound # None => ca'
  /\ UNCHANGED <<paused, toggles, period, bound, uid, route, callbackState, buffers,
                 heard, trampoline, query, default>>

OpenPositions == {"uid", "device", "alloc", "start"}

Open ==
  \/ \E req \in Requests : NewQueue(req)
  \/ RoutingRefused \/ NewQueueFails
  \/ GetUid \/ SetDevice \/ Allocate \/ Start
  \/ \E at \in OpenPositions : Abandon(at)

-----------------------------------------------------------------------------
(* The control thread: play() and pause() store the flag and then ask the  *)
(* queue, whose answer is not looked at                                    *)

StorePaused(value) ==
  /\ toggles < MaxToggles
  /\ paused' = value
  /\ toggles' = IF paused = value THEN toggles ELSE toggles + 1
  /\ UNCHANGED <<open, callbackState, queue, buffers, heard, trampoline, query, default>>

Play == At("idle", "starting") /\ StorePaused(FALSE)

Pause == At("idle", "pausing") /\ StorePaused(TRUE)

StartQueue ==
  /\ PlayReturned("starting")
  /\ queue' \in {queue, "running"}
  /\ UNCHANGED <<paused, toggles, open, callbackState, buffers, heard, trampoline, query,
                 default>>

PauseQueue ==
  /\ PauseReturned("pausing")
  /\ queue' \in {queue, "paused"}
  /\ UNCHANGED <<paused, toggles, open, callbackState, buffers, heard, trampoline, query,
                 default>>

(* latency(): a device is settled on first, its properties are read after; *)
(* the software floor added to them, fixed when the stream is opened, is   *)
(* left out                                                                *)

Resolved(current) == IF bound # None THEN bound ELSE current

Output(current) == IF route # None THEN route ELSE current

(* the query for the default may be refused, and then nothing is read *)
ResolveDevice ==
  /\ default' \in Devices \cup {None}   \* whatever it has become since the last call
  /\ device' \in {Resolved(default'), bound}
  /\ seen' = {Output(default')}
  /\ At("idle", IF ca /\ device' # None THEN "latency" ELSE "answer")
  /\ UNCHANGED <<paused, toggles, open, callbackState, queue, buffers, heard, trampoline, hw>>

(* each query may be refused, and what no query answered counts 0 *)
Answers(d, at) == {0} \cup (IF d = None THEN {} ELSE {Hal[d][p] : p \in Asked[at]})

AfterRead ==
  [latency |-> "buffer", buffer |-> "safety", safety |-> "stream", stream |-> "answer"]

(* mutant of ReadFrom: the device is looked up again for each property *)
ResolvedAgain == Resolved(default)
ReadFrom == device

ReadProperty(at) ==
  /\ At(at, AfterRead[at])
  /\ \E x \in Answers(ReadFrom, at) : hw' = AtMost(hw + x, U32 - 1)
  /\ UNCHANGED <<paused, toggles, open, callbackState, queue, buffers, heard, trampoline,
                 device, seen, default>>

LatencyReturns ==
  /\ At("answer", "idle")
  /\ device' = None /\ seen' = {} /\ hw' = 0 /\ default' = None
  /\ UNCHANGED <<paused, toggles, open, callbackState, queue, buffers, heard, trampoline>>

Stop ==
  /\ StopCall("stopqueue")
  /\ UNCHANGED <<paused, toggles, open, callbackState, queue, buffers, heard, trampoline,
                 query, default>>

Drop ==
  /\ DropCall("stopqueue")
  /\ UNCHANGED <<paused, toggles, open, callbackState, queue, buffers, heard, trampoline,
                 query, default>>

StopQueue ==
  /\ At("stopqueue", "drain")
  /\ queue' = "stopping"
  /\ UNCHANGED <<paused, toggles, open, callbackState, buffers, heard, trampoline, query,
                 default>>

(* mutant of Drained: AudioQueueStop with inImmediate = 0 returns at once *)
StopsLater == TRUE
Drained == cbk = "none"

QueueStopped ==
  /\ Drained
  /\ At("drain", "dispose")
  /\ queue' = "stopped"
  /\ fifo' = <<>> /\ returned' = <<>>
  /\ UNCHANGED <<paused, toggles, open, callbackState, lost, heard, trampoline, query, default>>

Dispose ==
  /\ At("dispose", "free")
  /\ queue' = "disposed"
  /\ UNCHANGED <<paused, toggles, open, callbackState, buffers, heard, trampoline, query,
                 default>>

FreeState ==
  /\ ctl = "free"
  /\ StopReturned
  /\ state' = "freed" /\ frees' = frees + 1
  /\ UNCHANGED <<paused, toggles, open, queue, buffers, heard, trampoline, query, default>>

(* what goes on by itself once the call is made *)
Calling ==
  \/ StartQueue \/ PauseQueue
  \/ (\E at \in Reads : ReadProperty(at)) \/ LatencyReturns
  \/ StopQueue \/ QueueStopped \/ Dispose \/ FreeState \/ (ctl = "drop" /\ Drop)

-----------------------------------------------------------------------------
(* output_trampoline, on the queue's thread *)

Go(from, to) == cbk = from /\ cbk' = to

(* external: the queue hands over a buffer it has played *)
Invoke ==
  /\ queue \in {"running", "paused"}
  /\ returned # <<>>
  /\ calls < MaxRendered
  /\ Go("none", "check")
  /\ buf' = Head(returned)
  /\ returned' = Tail(returned)
  /\ UNCHANGED <<handleVars, paused, toggles, open, callbackState, queue, fifo, lost, heard,
                 framesPlayed, calls, query, default>>

(* mutant of Zeroed: the buffer still holds the period it was played with *)
NotZeroed == buf
Zeroed == 0

(* mutant of Silence: there is nothing to render, so it returns *)
SilenceReturns ==
  /\ paused
  /\ Go("check", "none")
  /\ UNCHANGED <<handleVars, paused, toggles, open, callbackState, queue, buffers, heard,
                 buf, framesPlayed, calls, query, default>>

Silence ==
  /\ paused
  /\ Go("check", "count")
  /\ buf' = Zeroed
  /\ UNCHANGED <<handleVars, paused, toggles, open, callbackState, queue, buffers, heard,
                 framesPlayed, calls, query, default>>

(* mutant of MayRender: pausing is left to the queue *)
RendersAnyway == TRUE
MayRender == ~paused

Commit ==
  /\ MayRender
  /\ Go("check", "render")
  /\ UNCHANGED <<handleVars, paused, toggles, open, callbackState, queue, buffers, heard,
                 buf, framesPlayed, calls, query, default>>

Callback ==
  /\ Go("render", "count")
  /\ calls' = calls + 1
  /\ buf' = calls'
  /\ UNCHANGED <<handleVars, paused, toggles, open, callbackState, queue, buffers, heard,
                 framesPlayed, query, default>>

CreditAlways == period   \* mutant of Credit: silence is counted too
Credit == IF paused THEN 0 ELSE period   \* the flag is read a second time

Count ==
  /\ Go("count", "enqueue")
  /\ framesPlayed' = framesPlayed + Credit
  /\ UNCHANGED <<handleVars, paused, toggles, open, callbackState, queue, buffers, heard,
                 buf, calls, query, default>>

(* a queue that is being stopped refuses the buffer; nobody is told, and   *)
(* the buffer is never seen again                                          *)
Enqueue ==
  /\ Go("enqueue", "none")
  /\ \/ queue # "stopping" /\ fifo' = Append(fifo, buf) /\ lost' = lost
     \/ (queue = "stopping" \/ lost < MaxRefused) /\ fifo' = fifo /\ lost' = lost + 1
  /\ UNCHANGED <<handleVars, paused, toggles, open, callbackState, queue, returned, heard,
                 buf, framesPlayed, calls, query, default>>

Trampoline == Invoke \/ Silence \/ Commit \/ Callback \/ Count \/ Enqueue

(* external: the oldest buffer has been played *)
QueuePlays ==
  /\ queue = "running"
  /\ fifo # <<>>
  /\ fifo' = Tail(fifo)
  /\ returned' = Append(returned, Head(fifo))
  /\ heard' = IF Head(fifo) = 0 THEN heard ELSE Head(fifo)
  /\ UNCHANGED <<handleVars, paused, toggles, open, callbackState, queue, lost, trampoline,
                 query, default>>

(* external: the user picks another output, or the last one is unplugged *)
SwitchDefault ==
  /\ ctl \in Reads
  /\ default' \in Devices \cup {None}
  /\ seen' = seen \cup {Output(default')}
  /\ UNCHANGED <<handleVars, paused, toggles, open, callbackState, queue, buffers, heard,
                 trampoline, device, hw>>

Next ==
  \/ Open
  \/ Play \/ Pause \/ ResolveDevice \/ Stop \/ Drop
  \/ Calling
  \/ Trampoline \/ QueuePlays
  \/ SwitchDefault

Spec == Init /\ [][Next]_vars

(* Calls already made go on, a running queue plays, and the system runs    *)
(* the trampoline with what was played.                                    *)
FairSpec ==
  Spec /\ WF_vars(Calling) /\ WF_vars(Trampoline) /\ WF_vars(QueuePlays)

-----------------------------------------------------------------------------
CallPositions ==
  {"starting", "pausing", "answer", "stopqueue", "drain", "dispose", "free"} \cup Reads

TypeOK ==
  /\ HandleTypeOK(OpenPositions \cup CallPositions)
  /\ paused \in BOOLEAN /\ toggles \in Nat
  /\ period \in Nat
  /\ bound \in Devices \cup {None} /\ route \in {None, bound}
  /\ uid \in 0..1 /\ ca \in BOOLEAN
  /\ state \in {"none", "live", "freed"} /\ frees \in Nat
  /\ queue \in {"none", "idle", "running", "paused", "stopping", "stopped", "disposed"}
  /\ fifo \in Seq(Nat) /\ returned \in Seq(Nat) /\ lost \in 0..NumBuffers
  /\ cbk \in {"none", "check", "render", "count", "enqueue"} /\ buf \in Nat
  /\ framesPlayed \in Nat /\ calls \in Nat /\ heard \in 0..calls
  /\ default \in Devices \cup {None}
  /\ device \in Devices \cup {None} /\ seen \subseteq Devices \cup {None}
  /\ hw \in Nat

(* The trampoline only ever runs on a live CallbackState and a queue that  *)
(* has not been disposed of, and each exit of open_inner and stop() frees  *)
(* the state once, after the queue, and holds no device UID.               *)
StateLifetime ==
  /\ cbk # "none" => state = "live" /\ queue \notin {"stopped", "disposed"}
  /\ frees = IF state = "freed" THEN 1 ELSE 0
  /\ state = "freed" => queue \in {"none", "disposed"}
  /\ ctl \in {"failed", "drop", "gone"} =>
       state # "live" /\ queue \in {"none", "disposed"} /\ uid = 0

(* of the buffers with rendered frames, none is queued before an earlier one *)
InOrder ==
  \A i \in 1..Len(fifo) :
    fifo[i] # 0 => fifo[i] > heard /\ \A j \in 1..(i - 1) : fifo[j] < fifo[i]

Queued(n) == \E i \in 1..Len(fifo) : fifo[i] = n

(* What the callback rendered is played once and in order, whatever pauses *)
(* come in between: what is queued continues what was heard, with no gap   *)
(* unless the queue refused a buffer, and nothing of it a second time      *)
(* (output_trampoline zeroes and enqueues the buffers it was given).       *)
HeardOnceInOrder ==
  /\ InOrder
  /\ lost = 0 /\ cbk \in {"none", "check", "render"}
       /\ queue \in {"idle", "running", "paused"} => \A n \in (heard + 1)..calls : Queued(n)

(* Each change of the paused flag makes frames_played wrong by one buffer  *)
(* at most, although it is read before the render and again after          *)
(* (output_trampoline).                                                    *)
ClockDrift ==
  cbk = "none" =>
    LET drift == framesPlayed - period * calls
    IN  -(period * toggles) <= drift /\ drift <= period * toggles

(* latency: one answer for each of the device's properties, saturated *)
HardwareSums(d) ==
  { AtMost(x1 + x2 + x3 + x4, U32 - 1) :
      x1 \in Answers(d, "latency"), x2 \in Answers(d, "buffer"),
      x3 \in Answers(d, "safety"), x4 \in Answers(d, "stream") }

(* latency() adds up what one device says, and a device the stream was     *)
(* routed to at some time during the call, also while the default output   *)
(* changes between two of its reads and whichever of them is refused.      *)
LatencyFollowsRoute ==
  ctl = "answer" => \E d \in seen : hw \in HardwareSums(d)

Filling == ctl = "idle" /\ playing /\ queue = "running" /\ lost < NumBuffers

(* The buffers keep coming back: a stream that ends up playing goes on     *)
(* calling the callback, however it was paused before (to the bound).      *)
KeepsFilling == <>[]Filling => <>(calls = MaxRendered)

CoreTransport ==
  CASE ctl \in OpenPositions -> "unopened"
    [] ctl = "starting" -> "playing"   \* its store has already let callbacks through
    [] OTHER -> Transport

(* The stream contract: once pause() has returned at most the callback the *)
(* trampoline has committed to runs, and none once stop() has.             *)
Contract == INSTANCE AudioStream WITH
  transport <- CoreTransport,
  late <- (CoreTransport = "paused" /\ cbk = "render"),
  clock <- framesPlayed

ImplementsAudioStream == Contract!Spec
=============================================================================
