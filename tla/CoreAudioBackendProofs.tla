----------------------- MODULE CoreAudioBackendProofs -----------------------
(***************************************************************************)
(* What CoreAudioBackend satisfies for every value of its constants: any   *)
(* number of buffers, requests, devices, callbacks and refusals.  The      *)
(* invariant IInv below is inductive; it implies the four invariants the   *)
(* runs check, and under it every step is a step of AudioStream or a       *)
(* stutter.                                                                *)
(***************************************************************************)
EXTENDS CoreAudioBackend, SequenceTheorems, TLAPS

Unopened == {"new", "failed"} \cup OpenPositions
Running == {"idle", "starting", "pausing", "answer", "stopqueue"} \cup Reads

(* What the flags and the trampoline can be while the control thread is    *)
(* where it is.                                                            *)
ControlInv ==
  /\ stopped <=> ctl \in {"drop", "gone"}
  /\ cbk # "none" => ctl \in Running \cup {"drain"}
  /\ ctl \in Unopened => ~paused /\ calls = 0 /\ framesPlayed = 0 /\ returned = <<>>
  /\ ctl = "starting" => ~paused
  /\ ctl = "pausing" => paused
  /\ ctl \in {"idle", "answer", "stopqueue", "drain"} \cup Reads => playing = ~paused
  /\ ctl \in {"new", "uid", "device"} => route = None
  /\ ctl \notin {"new", "failed", "uid", "device"} => route = bound

(* The CallbackState and the queue at each position: what open_inner() has *)
(* made so far, and what stop() has taken down.                            *)
StateInv ==
  /\ ctl = "new" => state = "none" /\ queue = "none"
  /\ ctl = "failed" => state # "live" /\ queue \in {"none", "disposed"}
  /\ ctl \in OpenPositions => state = "live" /\ queue = "idle"
  /\ ctl \in Running => state = "live" /\ queue \in {"running", "paused"}
  /\ ctl = "drain" => state = "live" /\ queue = "stopping"
  /\ ctl = "dispose" => state = "live" /\ queue = "stopped"
  /\ ctl = "free" => state = "live" /\ queue = "disposed"
  /\ ctl \in {"drop", "gone"} => state = "freed" /\ queue = "disposed"
  /\ frees = IF state = "freed" THEN 1 ELSE 0
  /\ uid = IF ctl = "device" THEN 1 ELSE 0

(* Every buffer is queued, played, in the trampoline's hands or refused.   *)
BufferInv ==
  /\ Len(fifo) + Len(returned) + lost + (IF cbk = "none" THEN 0 ELSE 1) <= NumBuffers
  /\ ctl \in {"new", "uid", "device"} => Len(fifo) = 0 /\ lost = 0
  /\ ctl = "alloc" => Len(fifo) + lost < NumBuffers

(* What the trampoline has rendered and not enqueued yet.                  *)
InHand(n) == cbk \in {"count", "enqueue"} /\ buf = n

HeardInv ==
  /\ InOrder
  /\ \A i \in 1..Len(fifo) : fifo[i] <= calls
  /\ cbk \in {"count", "enqueue"} =>
       buf = 0 \/ (buf = calls /\ heard < calls /\ \A i \in 1..Len(fifo) : fifo[i] < calls)
  /\ lost = 0 /\ queue \in {"idle", "running", "paused"} =>
       \A n \in (heard + 1)..calls : Queued(n) \/ InHand(n)

(* What latency() has summed up when it is about to read: one answer of    *)
(* the device it settled on for each property before, saturated.           *)
SumOf(x) == AtMost(x, U32 - 1)

LatencyInv ==
  /\ ctl \in Reads => device \in seen
  /\ ctl \notin {"buffer", "safety", "stream", "answer"} => hw = 0
  /\ ctl = "buffer" => \E x1 \in Answers(device, "latency") : hw = SumOf(x1)
  /\ ctl = "safety" =>
       \E x1 \in Answers(device, "latency"), x2 \in Answers(device, "buffer") :
         hw = SumOf(x1 + x2)
  /\ ctl = "stream" =>
       \E x1 \in Answers(device, "latency"), x2 \in Answers(device, "buffer"),
          x3 \in Answers(device, "safety") : hw = SumOf(x1 + x2 + x3)
  /\ ctl = "answer" => \E d \in seen : hw \in HardwareSums(d)

(* The trampoline has committed to count the buffer it fills (the flag was *)
(* down when it looked), or not to count it (the flag was up).             *)
Rendering == cbk = "render" \/ (cbk = "count" /\ buf # 0)
Silencing == cbk = "count" /\ buf = 0

(* The flag has been changed since, so that Count will do the opposite:    *)
(* one of the toggles is still to be paid for.                             *)
Owed == (Rendering /\ paused) \/ (Silencing /\ ~paused)

(* rendered, but not yet due to be counted *)
Uncounted == IF cbk = "count" /\ buf # 0 THEN 1 ELSE 0

DriftInv ==
  LET drift == framesPlayed - period * (calls - Uncounted)
      paid  == toggles - (IF Owed THEN 1 ELSE 0)
  IN  -(period * paid) <= drift /\ drift <= period * paid

Shape == TypeOK /\ ControlInv /\ StateInv /\ BufferInv /\ LatencyInv

IInv == Shape /\ HeardInv /\ DriftInv

-----------------------------------------------------------------------------
(* What open_inner() computes from a request are numbers of frames.        *)
LEMMA FramesOfRequest ==
  ASSUME NEW req \in Requests
  PROVE  /\ FramesPerBuf(req) \in Nat
         /\ BytesPerBuf(req) \div (4 * AtMost(req.channels, 8)) \in Nat
<1> DEFINE f == FramesPerBuf(req)
           c == AtMost(req.channels, 8)
           b == f * c * 4
<1>1. /\ req.rate \in Nat \ {0} /\ req.channels \in Nat \ {0}
      /\ req.frames \in (Nat \ {0}) \cup {None} /\ U32 \in Nat \ {0}
  BY CoreAudioAssumption
<1>2. f \in Nat
  BY <1>1 DEF FramesPerBuf, AtLeast
<1>3. c \in Nat \ {0}
  BY <1>1 DEF AtMost
<1>4. BytesPerBuf(req) = b % U32
  BY DEF BytesPerBuf
<1> HIDE DEF f, c
<1>5. b \in Nat
  BY <1>2, <1>3
<1> HIDE DEF b
<1>6. b % U32 \in Nat
  BY <1>1, <1>5
<1>7. (b % U32) \div (4 * c) \in Nat
  BY <1>3, <1>6
<1>8. QED
  BY <1>2, <1>4, <1>7 DEF f, c

(* a refused query counts 0 frames, an answered one a number of them *)
LEMMA AnswersAreFrames ==
  ASSUME NEW d \in Devices \cup {None}, NEW at \in Reads
  PROVE  Answers(d, at) \subseteq Nat /\ 0 \in Answers(d, at)
<1>1. CASE d = None
  BY <1>1 DEF Answers
<1>2. CASE d \in Devices
  <2>1. \A p \in HalProperties : Hal[d][p] \in Nat
    BY <1>2, CoreAudioAssumption
  <2>2. Asked[at] \subseteq HalProperties
    BY DEF HalProperties
  <2>3. QED
    BY <2>1, <2>2 DEF Answers
<1>3. QED
  BY <1>1, <1>2

(* saturating at each addition saturates the sum *)
LEMMA SaturatedSum ==
  ASSUME NEW x \in Nat, NEW y \in Nat
  PROVE  SumOf(SumOf(x) + y) = SumOf(x + y) /\ SumOf(x) \in Nat /\ SumOf(0) = 0
  BY CoreAudioAssumption DEF SumOf, AtMost

(* a device none of whose properties is answered adds nothing *)
LEMMA NothingAnswered ==
  ASSUME NEW d \in Devices \cup {None}
  PROVE  0 \in HardwareSums(d)
<1>1. \A at \in Reads : 0 \in Answers(d, at)
  BY AnswersAreFrames
<1>2. /\ 0 \in Answers(d, "latency") /\ 0 \in Answers(d, "buffer")
      /\ 0 \in Answers(d, "safety") /\ 0 \in Answers(d, "stream")
  BY <1>1 DEF Reads
<1>3. AtMost(0 + 0 + 0 + 0, U32 - 1) = 0
  BY CoreAudioAssumption DEF AtMost
<1>4. QED
  BY <1>2, <1>3 DEF HardwareSums

(* nothing rendered and nothing counted is within any bound *)
LEMMA NoDrift ==
  ASSUME NEW p \in Nat, NEW x \in Nat
  PROVE  -(p * (x - 0)) <= 0 - p * (0 - 0) /\ 0 - p * (0 - 0) <= p * (x - 0)
<1>1. p * x \in Nat
  OBVIOUS
<1>2. QED
  BY <1>1

(* one more, or one fewer, times the period *)
LEMMA Distributes ==
  ASSUME NEW p \in Int, NEW x \in Int
  PROVE  p * (x + 1) = p * x + p /\ p * (x - 1) = p * x - p
  OBVIOUS

-----------------------------------------------------------------------------
LEMMA InitIInv == Init => IInv
<1> SUFFICES ASSUME Init PROVE IInv
  OBVIOUS
<1> USE CoreAudioAssumption DEF Init, HandleInit
<1>0. Len(fifo) = 0 /\ Len(returned) = 0 /\ <<>> \in Seq(Nat)
  BY EmptySeq
<1>1. TypeOK
  <2>1. HandleTypeOK(OpenPositions \cup CallPositions)
    BY DEF HandleTypeOK
  <2>2. paused \in BOOLEAN /\ ca \in BOOLEAN
    BY Zenon
  <2>3. QED
    BY <1>0, <2>1, <2>2 DEF TypeOK
<1>2. ControlInv /\ StateInv /\ LatencyInv
  BY DEF ControlInv, StateInv, LatencyInv, Unopened, Running, OpenPositions, Reads
<1>3. BufferInv
  BY <1>0 DEF BufferInv
<1>4. HeardInv
  BY <1>0 DEF HeardInv, InOrder
<1>5. DriftInv
  BY DEF DriftInv, Owed, Rendering, Silencing, Uncounted
<1>6. QED
  BY <1>1, <1>2, <1>3, <1>4, <1>5 DEF IInv, Shape

-----------------------------------------------------------------------------
(* Every step keeps the shape: types and buffers first.                    *)
LEMMA StepBuffers == IInv /\ [Next]_vars => TypeOK' /\ BufferInv'
<1> SUFFICES ASSUME IInv, [Next]_vars PROVE TypeOK' /\ BufferInv'
  OBVIOUS
<1> USE CoreAudioAssumption
    DEF TypeOK, HandleTypeOK, BufferInv, handleVars, open, callbackState, buffers, trampoline,
        query, OpenPositions, CallPositions, Unopened, Reads
<1>0. TypeOK /\ ControlInv /\ StateInv /\ BufferInv /\ HeardInv
  BY DEF IInv, Shape
<1>1. /\ Len(fifo) \in Nat /\ Len(returned) \in Nat
      /\ Len(<<>>) = 0 /\ <<>> \in Seq(Nat)
  BY <1>0, LenProperties, EmptySeq
<1>NewQueue. ASSUME NEW req \in Requests, NewQueue(req) PROVE TypeOK' /\ BufferInv'
  <2>1. /\ period' \in Nat
        /\ bound' \in Devices \cup {None} /\ route' \in {None, bound'}
    BY <1>0, <1>NewQueue, FramesOfRequest DEF NewQueue, At, ControlInv
  <2>2. ctl' \in {"alloc", "uid"} /\ UNCHANGED <<playing, stopped, frame>> /\ ctl = "new"
    BY <1>NewQueue DEF NewQueue, At
  <2>3. TypeOK'
    BY <1>0, <1>NewQueue, <2>1, <2>2 DEF NewQueue
  <2>4. BufferInv'
    BY <1>0, <1>1, <1>NewQueue, <2>2 DEF NewQueue, ControlInv
  <2>5. QED
    BY <2>3, <2>4
<1>RoutingRefused. CASE RoutingRefused
  BY <1>0, <1>1, <1>RoutingRefused DEF RoutingRefused, OpenFailed
<1>NewQueueFails. CASE NewQueueFails
  BY <1>0, <1>1, <1>NewQueueFails DEF NewQueueFails, OpenFailed
<1>GetUid. CASE GetUid
  BY <1>0, <1>1, <1>GetUid DEF GetUid, At, StateInv
<1>SetDevice. CASE SetDevice
  BY <1>0, <1>1, <1>SetDevice DEF SetDevice, At, StateInv
<1>Allocate. CASE Allocate
  <2>1. Append(fifo, 0) \in Seq(Nat) /\ Len(Append(fifo, 0)) = Len(fifo) + 1
    BY <1>0, AppendProperties
  <2>2. cbk = "none" /\ Len(returned) = 0
    BY <1>0, <1>1, <1>Allocate DEF Allocate, At, ControlInv, Running
  <2>3. CASE fifo' = Append(fifo, 0) /\ lost' = lost
    <3>1. /\ ctl = "alloc" /\ ctl' \in {"start", "alloc"}
          /\ ctl' = "alloc" => Len(fifo) + lost + 1 # NumBuffers
      BY <1>Allocate DEF Allocate, At
    <3>2. TypeOK'
      BY <1>0, <1>Allocate, <2>1, <2>3, <3>1 DEF Allocate, At
    <3>3. /\ Len(fifo') \in Nat /\ lost' \in Nat
          /\ Len(fifo') + lost' <= NumBuffers
      BY <1>0, <1>1, <2>1, <2>3, <3>1
    <3>4. ctl' = "alloc" => Len(fifo') + lost' < NumBuffers
      BY <1>0, <1>1, <2>1, <2>3, <3>1
    <3>5. Len(returned') = 0 /\ cbk' = "none"
      BY <2>2, <1>Allocate DEF Allocate
    <3>6. BufferInv'
      BY <3>1, <3>3, <3>4, <3>5
    <3>7. QED
      BY <3>2, <3>6
  <2>4. CASE fifo' = fifo /\ lost' = lost + 1
    BY <1>0, <1>1, <1>Allocate, <2>2, <2>4 DEF Allocate, At
  <2>5. QED
    BY <1>Allocate, <2>3, <2>4 DEF Allocate
<1>Abandon. ASSUME NEW at \in OpenPositions, Abandon(at) PROVE TypeOK' /\ BufferInv'
  BY <1>0, <1>1, <1>Abandon DEF Abandon, At, StateInv
<1>Start. CASE Start
  <2>1. TypeOK'
    BY <1>0, <1>Start DEF Start, StreamNew
  <2>2. BufferInv'
    BY <1>0, <1>1, <1>Start DEF Start, StreamNew
  <2>3. QED
    BY <2>1, <2>2
<1>Play. CASE Play
  <2>1. paused' \in BOOLEAN
    BY <1>Play, Zenon DEF Play, StorePaused
  <2>2. QED
    BY <1>0, <1>1, <1>Play, <2>1 DEF Play, StorePaused, At
<1>Pause. CASE Pause
  <2>1. paused' \in BOOLEAN
    BY <1>Pause, Zenon DEF Pause, StorePaused
  <2>2. QED
    BY <1>0, <1>1, <1>Pause, <2>1 DEF Pause, StorePaused, At
<1>StartQueue. CASE StartQueue
  BY <1>0, <1>1, <1>StartQueue DEF StartQueue, PlayReturned
<1>PauseQueue. CASE PauseQueue
  <2>1. playing' \in BOOLEAN
    BY <1>PauseQueue, Zenon DEF PauseQueue, PauseReturned
  <2>2. QED
    BY <1>0, <1>1, <1>PauseQueue, <2>1 DEF PauseQueue, PauseReturned
<1>ResolveDevice. CASE ResolveDevice
  BY <1>0, <1>1, <1>ResolveDevice DEF ResolveDevice, Resolved, Output, At
<1>ReadProperty. ASSUME NEW at \in Reads, ReadProperty(at) PROVE TypeOK' /\ BufferInv'
  <2>1. hw' \in Nat
    <3>1. PICK x \in Answers(device, at) : hw' = AtMost(hw + x, U32 - 1)
      BY <1>ReadProperty DEF ReadProperty, ReadFrom
    <3>2. x \in Nat
      BY <1>0, AnswersAreFrames
    <3>3. QED
      BY <1>0, <3>1, <3>2 DEF AtMost
  <2>2. /\ ctl' \in Reads \cup {"answer"} /\ ctl \in Reads
        /\ UNCHANGED <<playing, stopped, frame>>
    BY <1>ReadProperty DEF ReadProperty, At, AfterRead, Reads
  <2>3. QED
    BY <1>0, <1>1, <1>ReadProperty, <2>1, <2>2 DEF ReadProperty
<1>LatencyReturns. CASE LatencyReturns
  BY <1>0, <1>1, <1>LatencyReturns DEF LatencyReturns, At
<1>Stop. CASE Stop
  BY <1>0, <1>1, <1>Stop DEF Stop, StopCall
<1>Drop. CASE Drop
  BY <1>0, <1>1, <1>Drop DEF Drop, DropCall
<1>StopQueue. CASE StopQueue
  BY <1>0, <1>1, <1>StopQueue DEF StopQueue, At
<1>Dispose. CASE Dispose
  BY <1>0, <1>1, <1>Dispose DEF Dispose, At
<1>QueueStopped. CASE QueueStopped
  BY <1>0, <1>1, <1>QueueStopped DEF QueueStopped, Drained, At
<1>FreeState. CASE FreeState
  BY <1>0, <1>1, <1>FreeState DEF FreeState, StopReturned
<1>Invoke. CASE Invoke
  <2>1. /\ Head(returned) \in Nat /\ Tail(returned) \in Seq(Nat)
        /\ Len(Tail(returned)) = Len(returned) - 1
    BY <1>0, <1>Invoke, HeadTailProperties DEF Invoke
  <2>2. QED
    BY <1>0, <1>1, <1>Invoke, <2>1 DEF Invoke, Go, ControlInv, Running
<1>Silence. CASE Silence
  BY <1>0, <1>1, <1>Silence DEF Silence, Zeroed, Go
<1>Commit. CASE Commit
  BY <1>0, <1>1, <1>Commit DEF Commit, Go
<1>Callback. CASE Callback
  BY <1>0, <1>1, <1>Callback DEF Callback, Go
<1>Count. CASE Count
  BY <1>0, <1>1, <1>Count DEF Count, Credit, Go
<1>Enqueue. CASE Enqueue
  <2>1. Append(fifo, buf) \in Seq(Nat) /\ Len(Append(fifo, buf)) = Len(fifo) + 1
    BY <1>0, AppendProperties
  <2>2. ctl \notin {"new", "uid", "device", "alloc"}
    BY <1>0, <1>Enqueue DEF Enqueue, Go, ControlInv, Running
  <2>3. CASE fifo' = Append(fifo, buf) /\ lost' = lost
    BY <1>0, <1>1, <1>Enqueue, <2>1, <2>2, <2>3 DEF Enqueue, Go
  <2>4. CASE fifo' = fifo /\ lost' = lost + 1
    BY <1>0, <1>1, <1>Enqueue, <2>2, <2>4 DEF Enqueue, Go
  <2>5. QED
    BY <1>Enqueue, <2>3, <2>4 DEF Enqueue
<1>QueuePlays. CASE QueuePlays
  <2>1. /\ Head(fifo) \in Nat /\ Tail(fifo) \in Seq(Nat) /\ Len(Tail(fifo)) = Len(fifo) - 1
        /\ Head(fifo) = fifo[1] /\ 1 \in 1..Len(fifo)
    BY <1>0, <1>QueuePlays, HeadTailProperties, EmptySeq DEF QueuePlays
  <2>2. /\ Append(returned, Head(fifo)) \in Seq(Nat)
        /\ Len(Append(returned, Head(fifo))) = Len(returned) + 1
    BY <1>0, <2>1, AppendProperties
  <2>3. Head(fifo) <= calls
    BY <1>0, <2>1 DEF HeardInv
  <2>4. ctl \notin {"new", "uid", "device", "alloc"}
    BY <1>0, <1>QueuePlays DEF QueuePlays, StateInv
  <2>5. QED
    BY <1>0, <1>1, <1>QueuePlays, <2>1, <2>2, <2>3, <2>4 DEF QueuePlays
<1>SwitchDefault. CASE SwitchDefault
  BY <1>0, <1>1, <1>SwitchDefault DEF SwitchDefault, Output
<1>stutter. CASE UNCHANGED vars
  BY <1>0, <1>stutter DEF vars
<1> QED
  BY <1>NewQueue, <1>RoutingRefused, <1>NewQueueFails, <1>GetUid, <1>SetDevice, <1>Allocate, <1>Abandon, <1>Start,
     <1>Play, <1>Pause, <1>StartQueue, <1>PauseQueue, <1>ResolveDevice, <1>ReadProperty,
     <1>LatencyReturns, <1>Stop, <1>Drop, <1>StopQueue, <1>QueueStopped, <1>Dispose,
     <1>FreeState, <1>Invoke, <1>Silence, <1>Commit, <1>Callback, <1>Count, <1>Enqueue, <1>QueuePlays, <1>SwitchDefault, <1>stutter
  DEF Next, Open, Calling, Trampoline

(* The positions of the control thread, the flags and the CallbackState.   *)
LEMMA StepControl == IInv /\ [Next]_vars => ControlInv' /\ StateInv'
<1> SUFFICES ASSUME IInv, [Next]_vars PROVE ControlInv' /\ StateInv'
  OBVIOUS
<1> USE CoreAudioAssumption
    DEF ControlInv, StateInv, handleVars, open, callbackState, buffers, trampoline, query,
        OpenPositions, Unopened, Running, Reads
<1>0. /\ ControlInv /\ StateInv
      /\ playing \in BOOLEAN /\ stopped \in BOOLEAN /\ paused \in BOOLEAN /\ frees \in Nat
      /\ uid \in 0..1 /\ calls \in Nat /\ framesPlayed \in Nat
      /\ state \in {"none", "live", "freed"} /\ HandleTypeOK(OpenPositions \cup CallPositions)
  BY DEF IInv, Shape, TypeOK, HandleTypeOK
<1>NewQueue. ASSUME NEW req \in Requests, NewQueue(req) PROVE ControlInv' /\ StateInv'
  <2>1. ctl' = (IF req.device = None THEN "alloc" ELSE "uid") /\ bound' = req.device
        /\ ctl = "new" /\ UNCHANGED <<playing, stopped, frame>>
    BY <1>NewQueue DEF NewQueue, At
  <2>2. CASE ctl' = "alloc" /\ bound' = None
    BY <1>0, <1>NewQueue, <2>1, <2>2 DEF NewQueue
  <2>3. CASE ctl' = "uid"
    BY <1>0, <1>NewQueue, <2>1, <2>3 DEF NewQueue
  <2>4. QED
    BY <2>1, <2>2, <2>3
<1>RoutingRefused. CASE RoutingRefused
  BY <1>0, <1>RoutingRefused DEF RoutingRefused, OpenFailed
<1>NewQueueFails. CASE NewQueueFails
  BY <1>0, <1>NewQueueFails DEF NewQueueFails, OpenFailed
<1>GetUid. CASE GetUid
  BY <1>0, <1>GetUid DEF GetUid, At
<1>SetDevice. CASE SetDevice
  BY <1>0, <1>SetDevice DEF SetDevice, At
<1>Allocate. CASE Allocate
  <2>1. ctl = "alloc" /\ ctl' \in {"alloc", "start"} /\ UNCHANGED <<playing, stopped, frame>>
    BY <1>Allocate DEF Allocate, At
  <2>2. UNCHANGED <<paused, toggles, open, callbackState, queue, returned, heard, trampoline>>
    BY <1>Allocate DEF Allocate
  <2>3. QED
    BY <1>0, <2>1, <2>2
<1>Abandon. ASSUME NEW at \in OpenPositions, Abandon(at) PROVE ControlInv' /\ StateInv'
  BY <1>0, <1>Abandon DEF Abandon, At
<1>Start. CASE Start
  <2>1. playing' = TRUE /\ stopped' = FALSE /\ ~paused' /\ playing' = ~paused'
    BY <1>0, <1>Start, Zenon DEF Start, StreamNew
  <2>2. QED
    BY <1>0, <1>Start, <2>1 DEF Start, StreamNew
<1>Play. CASE Play
  <2>1. ~paused'
    BY <1>Play, Zenon DEF Play, StorePaused
  <2>2. QED
    BY <1>0, <1>Play, <2>1 DEF Play, StorePaused, At
<1>Pause. CASE Pause
  <2>1. paused'
    BY <1>Pause, Zenon DEF Pause, StorePaused
  <2>2. QED
    BY <1>0, <1>Pause, <2>1 DEF Pause, StorePaused, At
<1>StartQueue. CASE StartQueue
  <2>1. playing' = TRUE /\ ~paused' /\ playing' = ~paused'
    BY <1>0, <1>StartQueue, Zenon DEF StartQueue, PlayReturned
  <2>2. QED
    BY <1>0, <1>StartQueue, <2>1 DEF StartQueue, PlayReturned
<1>PauseQueue. CASE PauseQueue
  <2>1. playing' = FALSE /\ paused' = TRUE
    BY <1>0, <1>PauseQueue, Zenon DEF PauseQueue, PauseReturned
  <2>2. playing' = ~paused'
    BY <2>1, Zenon
  <2>3. QED
    BY <1>0, <1>PauseQueue, <2>1, <2>2 DEF PauseQueue, PauseReturned
<1>ResolveDevice. CASE ResolveDevice
  BY <1>0, <1>ResolveDevice DEF ResolveDevice, At
<1>ReadProperty. ASSUME NEW at \in Reads, ReadProperty(at) PROVE ControlInv' /\ StateInv'
  <2>1. /\ ctl' \in Reads \cup {"answer"} /\ ctl \in Reads
        /\ UNCHANGED <<playing, stopped, frame>>
    BY <1>ReadProperty DEF ReadProperty, At, AfterRead
  <2>2. QED
    BY <1>0, <1>ReadProperty, <2>1 DEF ReadProperty
<1>LatencyReturns. CASE LatencyReturns
  BY <1>0, <1>LatencyReturns DEF LatencyReturns, At
<1>Stop. CASE Stop
  BY <1>0, <1>Stop DEF Stop, StopCall
<1>Drop. CASE Drop
  BY <1>0, <1>Drop DEF Drop, DropCall
<1>StopQueue. CASE StopQueue
  BY <1>0, <1>StopQueue DEF StopQueue, At
<1>QueueStopped. CASE QueueStopped
  BY <1>0, <1>QueueStopped DEF QueueStopped, Drained, At
<1>Dispose. CASE Dispose
  BY <1>0, <1>Dispose DEF Dispose, At
<1>FreeState. CASE FreeState
  <2>1. stopped' /\ ctl' \in {"drop", "gone"} /\ ctl = "free"
    BY <1>FreeState, Zenon DEF FreeState, StopReturned
  <2>2. QED
    BY <1>0, <1>FreeState, <2>1 DEF FreeState, StopReturned
<1>trampoline. CASE Trampoline
  <2>1. ctl \in Running \cup {"drain"}
    BY <1>0, <1>trampoline DEF Trampoline, Invoke, Silence, Commit, Callback, Count, Enqueue,
       Go, HandleTypeOK, CallPositions
  <2>2. UNCHANGED <<handleVars, paused, toggles, open, callbackState, queue>>
    BY <1>trampoline DEF Trampoline, Invoke, Silence, Commit, Callback, Count, Enqueue
  <2>3. QED
    BY <1>0, <2>1, <2>2
<1>QueuePlays. CASE QueuePlays
  <2>1. ctl \in Running
    BY <1>0, <1>QueuePlays DEF QueuePlays, HandleTypeOK, CallPositions
  <2>2. QED
    BY <1>0, <1>QueuePlays, <2>1 DEF QueuePlays
<1>SwitchDefault. CASE SwitchDefault
  BY <1>0, <1>SwitchDefault DEF SwitchDefault
<1>stutter. CASE UNCHANGED vars
  BY <1>0, <1>stutter DEF vars
<1> QED
  BY <1>NewQueue, <1>RoutingRefused, <1>NewQueueFails, <1>GetUid, <1>SetDevice, <1>Allocate,
     <1>Abandon, <1>Start, <1>Play, <1>Pause, <1>StartQueue, <1>PauseQueue, <1>ResolveDevice,
     <1>ReadProperty, <1>LatencyReturns, <1>Stop, <1>Drop, <1>StopQueue, <1>QueueStopped,
     <1>Dispose, <1>FreeState, <1>trampoline, <1>QueuePlays, <1>SwitchDefault, <1>stutter
  DEF Next, Open, Calling

(* latency(): the device stays among those the stream was routed to, and   *)
(* each read adds one of its answers.                                      *)
LEMMA StepLatency == IInv /\ [Next]_vars => LatencyInv'
<1> SUFFICES ASSUME IInv, [Next]_vars PROVE LatencyInv'
  OBVIOUS
<1> USE DEF handleVars, open, callbackState, buffers, trampoline, query
<1>0. /\ LatencyInv /\ ControlInv /\ StateInv /\ hw \in Nat
      /\ device \in Devices \cup {None} /\ seen \subseteq Devices \cup {None}
      /\ bound \in Devices \cup {None} /\ route \in {None, bound}
  BY DEF IInv, Shape, TypeOK
<1>1. \A at \in Reads : Answers(device, at) \subseteq Nat
  BY <1>0, AnswersAreFrames
<1>2. /\ Answers(device, "latency") \subseteq Nat /\ Answers(device, "buffer") \subseteq Nat
      /\ Answers(device, "safety") \subseteq Nat /\ Answers(device, "stream") \subseteq Nat
  BY <1>1 DEF Reads
<1>ResolveDevice. CASE ResolveDevice
  <2>1. /\ ctl = "idle" /\ hw' = hw /\ seen' = {Output(default')}
        /\ device' \in {Resolved(default'), bound} /\ default' \in Devices \cup {None}
        /\ ctl' = (IF ca /\ device' # None THEN "latency" ELSE "answer")
    BY <1>ResolveDevice DEF ResolveDevice, At
  <2>2. hw' = 0
    BY <1>0, <2>1 DEF LatencyInv
  <2>3. route = bound
    BY <1>0, <2>1 DEF ControlInv
  <2>4. Output(default') \in Devices \cup {None}
    BY <1>0, <2>1 DEF Output
  <2>5. CASE ctl' = "latency"
    <3>1. device' # None
      BY <2>1, <2>5
    <3>2. device' = Output(default')
      BY <2>1, <2>3, <3>1 DEF Resolved, Output
    <3>3. QED
      BY <2>1, <2>2, <2>5, <3>2 DEF LatencyInv
  <2>6. CASE ctl' = "answer"
    <3>1. 0 \in HardwareSums(Output(default'))
      BY <2>4, NothingAnswered
    <3>2. \E d \in seen' : hw' \in HardwareSums(d)
      BY <2>1, <2>2, <3>1
    <3>3. (\E d \in seen : hw \in HardwareSums(d))'
      BY <3>2
    <3>4. QED
      BY <2>6, <3>3 DEF LatencyInv, Reads
  <2>7. QED
    BY <2>1, <2>5, <2>6
<1>ReadProperty. ASSUME NEW at \in Reads, ReadProperty(at) PROVE LatencyInv'
  <2>1. /\ ctl = at /\ ctl' = AfterRead[at] /\ UNCHANGED <<device, seen, default>>
        /\ \E x \in Answers(device, at) : hw' = SumOf(hw + x)
    BY <1>ReadProperty DEF ReadProperty, ReadFrom, At, SumOf
  <2>2. /\ device \in seen
        /\ \A p \in Reads : Answers(device, p)' = Answers(device, p)
    BY <1>0, <2>1 DEF LatencyInv, Answers
  <2>3. CASE at = "latency"
    <3>1. PICK x1 \in Answers(device, "latency") : hw' = SumOf(0 + x1)
      BY <1>0, <2>1, <2>3 DEF LatencyInv
    <3>2. hw' = SumOf(x1)
      BY <1>2, <3>1
    <3>3. ctl' = "buffer" /\ x1 \in Answers(device', "latency")
      BY <2>1, <2>3, <3>1 DEF AfterRead
    <3>4. QED
      BY <2>1, <2>2, <3>2, <3>3 DEF LatencyInv, Reads, SumOf
  <2>4. CASE at = "buffer"
    <3>1. PICK x1 \in Answers(device, "latency") : hw = SumOf(x1)
      BY <1>0, <2>1, <2>4 DEF LatencyInv
    <3>2. PICK x2 \in Answers(device, "buffer") : hw' = SumOf(hw + x2)
      BY <2>1, <2>4
    <3>3. hw' = SumOf(x1 + x2)
      BY <1>2, <3>1, <3>2, SaturatedSum
    <3>4. ctl' = "safety" /\ device' = device
      BY <2>1, <2>4 DEF AfterRead
    <3>5. QED
      BY <2>1, <2>2, <3>1, <3>2, <3>3, <3>4 DEF LatencyInv, Reads, SumOf
  <2>5. CASE at = "safety"
    <3>1. PICK x1 \in Answers(device, "latency"), x2 \in Answers(device, "buffer") :
            hw = SumOf(x1 + x2)
      BY <1>0, <2>1, <2>5 DEF LatencyInv
    <3>2. PICK x3 \in Answers(device, "safety") : hw' = SumOf(hw + x3)
      BY <2>1, <2>5
    <3>3. x1 + x2 \in Nat /\ x3 \in Nat
      BY <1>2, <3>1, <3>2
    <3>4. hw' = SumOf(x1 + x2 + x3)
      BY <3>1, <3>2, <3>3, SaturatedSum
    <3>5. ctl' = "stream" /\ device' = device
      BY <2>1, <2>5 DEF AfterRead
    <3>6. QED
      BY <2>1, <2>2, <3>1, <3>2, <3>4, <3>5 DEF LatencyInv, Reads, SumOf
  <2>6. CASE at = "stream"
    <3>1. PICK x1 \in Answers(device, "latency"), x2 \in Answers(device, "buffer"),
               x3 \in Answers(device, "safety") : hw = SumOf(x1 + x2 + x3)
      BY <1>0, <2>1, <2>6 DEF LatencyInv
    <3>2. PICK x4 \in Answers(device, "stream") : hw' = SumOf(hw + x4)
      BY <2>1, <2>6
    <3>3. x1 + x2 + x3 \in Nat /\ x4 \in Nat
      BY <1>2, <3>1, <3>2
    <3>4. hw' = SumOf(x1 + x2 + x3 + x4)
      BY <3>1, <3>2, <3>3, SaturatedSum
    <3>5. hw' \in HardwareSums(device)
      BY <3>1, <3>2, <3>4 DEF HardwareSums, SumOf
    <3>6. (\E d \in seen : hw \in HardwareSums(d))'
      BY <2>1, <2>2, <3>5
    <3>7. ctl' = "answer"
      BY <2>1, <2>6 DEF AfterRead
    <3>8. QED
      BY <3>6, <3>7 DEF LatencyInv, Reads
  <2>7. QED
    BY <2>3, <2>4, <2>5, <2>6 DEF Reads
<1>untouched. ASSUME ctl' = ctl, hw' = hw, device' = device, seen \subseteq seen'
              PROVE  LatencyInv'
  BY <1>0, <1>untouched DEF LatencyInv
<1>SwitchDefault. CASE SwitchDefault
  BY <1>SwitchDefault, <1>untouched DEF SwitchDefault
<1>others. CASE Trampoline \/ QueuePlays \/ UNCHANGED vars
  <2>1. UNCHANGED <<ctl, device, seen, hw>>
    BY <1>others DEF Trampoline, Invoke, Silence, Commit, Callback, Count, Enqueue, QueuePlays,
       vars
  <2>2. QED
    BY <2>1, <1>untouched
<1>calls. CASE \/ Open \/ Play \/ Pause \/ StartQueue \/ PauseQueue \/ LatencyReturns \/ StopQueue
               \/ QueueStopped \/ Dispose \/ FreeState \/ Stop \/ Drop
  <2>1. ctl' \notin Reads \cup {"answer"}
    BY <1>0, <1>calls DEF Open, NewQueue, RoutingRefused, NewQueueFails, GetUid, SetDevice,
       Allocate, Start, Abandon, OpenFailed, StreamNew, Play, Pause, StartQueue, PauseQueue,
       LatencyReturns, StopQueue, QueueStopped, Dispose, FreeState, Stop, Drop, At,
       PlayReturned, PauseReturned, StopReturned, StopCall, DropCall, Reads
  <2>2. hw' = 0
    BY <1>0, <1>calls DEF LatencyInv, Open, NewQueue, RoutingRefused, NewQueueFails, GetUid,
       SetDevice, Allocate, Start, Abandon, OpenFailed, OpenPositions, Play, Pause,
       StorePaused, StartQueue, PauseQueue, LatencyReturns, StopQueue, QueueStopped, Dispose,
       FreeState, Stop, Drop, At, PlayReturned, PauseReturned, StopReturned, StopCall, DropCall
  <2>3. QED
    BY <2>1, <2>2 DEF LatencyInv, Reads
<1> QED
  BY <1>ResolveDevice, <1>ReadProperty, <1>SwitchDefault, <1>others, <1>calls
  DEF Next, Calling

LEMMA StepShape == IInv /\ [Next]_vars => Shape'
  BY StepBuffers, StepControl, StepLatency DEF Shape

-----------------------------------------------------------------------------
(* What was rendered: the order of the queue, and no gap in it.            *)
Taking == {"idle", "running", "paused"}

LEMMA HeardUntouched ==
  ASSUME IInv, UNCHANGED <<fifo, heard, calls, cbk, buf, lost>>, queue' \in Taking => queue \in Taking
  PROVE  HeardInv'
  BY DEF IInv, HeardInv, InOrder, Queued, InHand, Taking

(* An empty queue and no callback yet: nothing to keep in order.           *)
LEMMA HeardNothing ==
  ASSUME calls' = 0, heard' = 0, Len(fifo') = 0, cbk' = "none"
  PROVE  HeardInv'
  BY DEF HeardInv, InOrder

(* A buffer is put behind the others: silence, or what is newer than all.  *)
LEMMA EnqueueKeepsOrder ==
  ASSUME TypeOK, HeardInv, NEW b \in Nat, fifo' = Append(fifo, b),
         UNCHANGED <<heard, calls>>,
         b = 0 \/ (b = calls /\ heard < calls /\ \A i \in 1..Len(fifo) : fifo[i] < calls)
  PROVE  /\ InOrder'
         /\ \A i \in 1..Len(fifo') : fifo'[i] <= calls'
         /\ \A n \in Nat : Queued(n) \/ n = b => Queued(n)'
<1>1. /\ Len(fifo) \in Nat /\ Len(fifo') = Len(fifo) + 1
      /\ \A i \in 1..Len(fifo) : fifo'[i] = fifo[i]
      /\ fifo'[Len(fifo) + 1] = b
      /\ \A i \in 1..Len(fifo) : fifo[i] \in Nat
      /\ calls \in Nat
  <2>1. fifo \in Seq(Nat) /\ calls \in Nat
    BY DEF TypeOK
  <2>2. QED
    BY <2>1, AppendProperties, LenProperties, ElementOfSeq
<1>2. InOrder'
  <2> SUFFICES ASSUME NEW i \in 1..Len(fifo'), fifo'[i] # 0
               PROVE  fifo'[i] > heard' /\ \A j \in 1..(i - 1) : fifo'[j] < fifo'[i]
    BY DEF InOrder
  <2>1. CASE i \in 1..Len(fifo)
    BY <1>1, <2>1 DEF HeardInv, InOrder
  <2>2. CASE i = Len(fifo) + 1
    BY <1>1, <2>2
  <2>3. QED
    BY <1>1, <2>1, <2>2
<1>3. \A i \in 1..Len(fifo') : fifo'[i] <= calls'
  <2> SUFFICES ASSUME NEW i \in 1..Len(fifo') PROVE fifo'[i] <= calls'
    OBVIOUS
  <2>1. CASE i \in 1..Len(fifo)
    BY <1>1, <2>1 DEF HeardInv
  <2>2. CASE i = Len(fifo) + 1
    BY <1>1, <2>2
  <2>3. QED
    BY <1>1, <2>1, <2>2
<1>4. ASSUME NEW n \in Nat, Queued(n) \/ n = b PROVE Queued(n)'
  <2>1. CASE Queued(n)
    <3>1. PICK i \in 1..Len(fifo) : fifo[i] = n
      BY <2>1 DEF Queued
    <3>2. i \in 1..Len(fifo') /\ fifo'[i] = n
      BY <1>1, <3>1
    <3>3. QED
      BY <3>2 DEF Queued
  <2>2. CASE n = b
    <3>1. Len(fifo) + 1 \in 1..Len(fifo')
      BY <1>1
    <3>2. QED
      BY <1>1, <2>2, <3>1 DEF Queued
  <2>3. QED
    BY <1>4, <2>1, <2>2
<1>5. QED
  BY <1>2, <1>3, <1>4

LEMMA PlayingKeepsOrder == IInv /\ QueuePlays => HeardInv'
<1> SUFFICES ASSUME IInv, QueuePlays PROVE HeardInv'
  OBVIOUS
<1>0. TypeOK /\ HeardInv
  BY DEF IInv, Shape
<1>1. /\ fifo \in Seq(Nat) /\ fifo # <<>> /\ Len(fifo) \in Nat /\ 1 \in 1..Len(fifo)
      /\ calls \in Nat /\ heard \in 0..calls /\ Head(fifo) = fifo[1]
      /\ \A i \in 1..Len(fifo) : fifo[i] \in Nat
  BY <1>0, LenProperties, EmptySeq, ElementOfSeq DEF TypeOK, QueuePlays
<1>2. /\ Len(fifo') = Len(fifo) - 1
      /\ \A i \in 1..Len(fifo') : fifo'[i] = fifo[i + 1]
  BY <1>1, HeadTailProperties DEF QueuePlays
<1>3. /\ heard' = (IF fifo[1] = 0 THEN heard ELSE fifo[1])
      /\ calls' = calls /\ cbk' = cbk /\ buf' = buf /\ lost' = lost /\ queue = "running"
  BY <1>1 DEF QueuePlays, trampoline
<1>4. InOrder'
  <2> SUFFICES ASSUME NEW i \in 1..Len(fifo'), fifo'[i] # 0
               PROVE  fifo'[i] > heard' /\ \A j \in 1..(i - 1) : fifo'[j] < fifo'[i]
    BY DEF InOrder
  <2>1. i + 1 \in 1..Len(fifo) /\ fifo'[i] = fifo[i + 1] /\ 1 \in 1..(i + 1 - 1)
    BY <1>1, <1>2
  <2>2. fifo[i + 1] > heard /\ \A j \in 1..(i + 1 - 1) : fifo[j] < fifo[i + 1]
    BY <1>0, <2>1 DEF HeardInv, InOrder
  <2>3. fifo'[i] > heard'
    BY <1>1, <1>3, <2>1, <2>2
  <2>4. ASSUME NEW j \in 1..(i - 1) PROVE fifo'[j] < fifo'[i]
    <3>1. Len(fifo') \in Nat /\ i \in Nat /\ j \in Nat
      BY <1>1, <1>2
    <3>2. j \in 1..Len(fifo') /\ j + 1 \in 1..(i + 1 - 1)
      BY <3>1
    <3>3. fifo'[j] = fifo[j + 1]
      BY <1>2, <3>2
    <3>4. QED
      BY <2>1, <2>2, <3>2, <3>3
  <2>5. QED
    BY <2>3, <2>4
<1>5. \A i \in 1..Len(fifo') : i + 1 \in 1..Len(fifo) /\ fifo'[i] = fifo[i + 1]
  BY <1>1, <1>2
<1>6. ASSUME lost = 0, NEW n \in (heard' + 1)..calls PROVE Queued(n)' \/ InHand(n)'
  <2>1. n \in (heard + 1)..calls /\ n # fifo[1] /\ n \in Nat
    BY <1>0, <1>1, <1>3, <1>6 DEF HeardInv, InOrder
  <2>2. CASE InHand(n)
    BY <1>3, <2>2 DEF InHand
  <2>3. CASE Queued(n)
    <3>1. PICK i \in 1..Len(fifo) : fifo[i] = n
      BY <2>3 DEF Queued
    <3>2. i - 1 \in 1..Len(fifo') /\ fifo'[i - 1] = n
      BY <1>1, <1>2, <2>1, <3>1
    <3>3. QED
      BY <3>2 DEF Queued
  <2>4. QED
    BY <1>0, <1>3, <1>6, <2>1, <2>2, <2>3 DEF HeardInv
<1>7. cbk \in {"count", "enqueue"} =>
        buf = 0 \/ (buf = calls /\ heard' < calls /\ \A i \in 1..Len(fifo) : fifo[i] < calls)
  BY <1>0, <1>1, <1>3 DEF HeardInv
<1>8. cbk' \in {"count", "enqueue"} =>
        buf' = 0 \/ (buf' = calls' /\ heard' < calls' /\ \A i \in 1..Len(fifo') : fifo'[i] < calls')
  <2> SUFFICES ASSUME cbk \in {"count", "enqueue"}, buf # 0
               PROVE  /\ buf = calls /\ heard' < calls
                      /\ \A i \in 1..Len(fifo') : fifo'[i] < calls
    BY <1>3, Zenon
  <2>1. QED
    BY <1>5, <1>7
<1>9. lost' = 0 => \A n \in (heard' + 1)..calls' : Queued(n)' \/ InHand(n)'
  BY <1>3, <1>6
<1>10. \A i \in 1..Len(fifo') : fifo'[i] <= calls'
  <2>1. \A i \in 1..Len(fifo) : fifo[i] <= calls
    BY <1>0 DEF HeardInv
  <2>2. \A i \in 1..Len(fifo') : fifo'[i] <= calls
    BY <1>5, <2>1
  <2>3. QED
    BY <1>3, <2>2, Zenon
<1>11. QED
  BY <1>4, <1>8, <1>9, <1>10 DEF HeardInv

LEMMA StepHeard == IInv /\ [Next]_vars => HeardInv'
<1> SUFFICES ASSUME IInv, [Next]_vars PROVE HeardInv'
  OBVIOUS
<1> USE DEF handleVars, open, callbackState, buffers, trampoline, query
<1>0. /\ TypeOK /\ HeardInv /\ ControlInv /\ StateInv /\ BufferInv
      /\ fifo \in Seq(Nat) /\ Len(fifo) \in Nat /\ lost \in Nat /\ buf \in Nat
      /\ calls \in Nat /\ heard \in 0..calls
      /\ Len(<<>>) = 0
  BY LenProperties, EmptySeq DEF IInv, Shape, TypeOK
<1>NewQueue. ASSUME NEW req \in Requests, NewQueue(req) PROVE HeardInv'
  <2>1. calls' = 0 /\ heard' = 0 /\ Len(fifo') = 0 /\ cbk' = "none"
    BY <1>0, <1>NewQueue DEF NewQueue, At, ControlInv, BufferInv, Unopened, Running, Reads
  <2>2. QED
    BY <2>1, HeardNothing
<1>Allocate. CASE Allocate
  <2>1. calls' = 0 /\ heard' = 0 /\ calls = 0 /\ heard = 0 /\ cbk' = "none"
    BY <1>0, <1>Allocate DEF Allocate, At, ControlInv, Unopened, Running, OpenPositions,
       Reads
  <2>2. CASE fifo' = Append(fifo, 0)
    <3>1. InOrder' /\ \A i \in 1..Len(fifo') : fifo'[i] <= calls'
      BY <1>0, <2>1, <2>2, EnqueueKeepsOrder
    <3>2. QED
      BY <2>1, <3>1 DEF HeardInv
  <2>3. CASE fifo' = fifo
    BY <1>0, <2>1, <2>3 DEF HeardInv, InOrder
  <2>4. QED
    BY <1>Allocate, <2>2, <2>3 DEF Allocate
<1>Abandon. ASSUME NEW at \in OpenPositions, Abandon(at) PROVE HeardInv'
  <2>1. calls' = 0 /\ heard' = 0 /\ Len(fifo') = 0 /\ cbk' = "none"
    BY <1>0, <1>Abandon DEF Abandon, At, ControlInv, Unopened, Running, OpenPositions,
       Reads
  <2>2. QED
    BY <2>1, HeardNothing
<1>QueueStopped. CASE QueueStopped
  <2>1. cbk' = "none" /\ queue' = "stopped" /\ Len(fifo') = 0
    BY <1>0, <1>QueueStopped DEF QueueStopped, Drained
  <2>2. QED
    BY <2>1 DEF HeardInv, InOrder
<1>untouched. ASSUME UNCHANGED <<fifo, heard, calls, cbk, buf, lost>>,
                     queue' \in Taking => queue \in Taking
              PROVE  HeardInv'
  BY <1>untouched, HeardUntouched
<1>opening. CASE RoutingRefused \/ NewQueueFails \/ GetUid \/ SetDevice \/ Start
  <2>1. UNCHANGED <<fifo, heard, calls, cbk, buf, lost>> /\ (queue' \in Taking => queue \in Taking)
    BY <1>0, <1>opening DEF RoutingRefused, NewQueueFails, GetUid, SetDevice, Start, StateInv,
       OpenPositions, Taking
  <2>2. QED
    BY <2>1, <1>untouched
<1>control. CASE \/ Play \/ Pause \/ StartQueue \/ PauseQueue \/ ResolveDevice
                 \/ (\E at \in Reads : ReadProperty(at))
                 \/ LatencyReturns \/ Stop \/ Drop \/ StopQueue \/ Dispose \/ FreeState
                 \/ SwitchDefault \/ UNCHANGED vars
  <2>1. UNCHANGED <<fifo, heard, calls, cbk, buf, lost>> /\ (queue' \in Taking => queue \in Taking)
    BY <1>0, <1>control DEF Play, Pause, StorePaused, StartQueue, PlayReturned, PauseQueue,
       PauseReturned, ResolveDevice, ReadProperty, LatencyReturns, Stop, Drop, StopQueue,
       Dispose, FreeState, SwitchDefault, vars, StateInv, Running, Taking
  <2>2. QED
    BY <2>1, <1>untouched
<1>Invoke. CASE Invoke
  BY <1>0, <1>Invoke DEF Invoke, Go, HeardInv, InOrder, Queued, InHand
<1>silence. CASE Silence \/ Commit
  BY <1>0, <1>silence DEF Silence, Commit, Zeroed, Go, HeardInv, InOrder, Queued, InHand
<1>Count. CASE Count
  BY <1>0, <1>Count DEF Count, Go, HeardInv, InOrder, Queued, InHand
<1>Callback. CASE Callback
  <2>1. /\ calls' = calls + 1 /\ buf' = calls' /\ cbk = "render" /\ cbk' = "count"
        /\ UNCHANGED <<fifo, heard, lost, queue>>
    BY <1>Callback DEF Callback, Go
  <2>2. InOrder'
    BY <1>0, <2>1 DEF HeardInv, InOrder
  <2>3. heard' < calls' /\ \A i \in 1..Len(fifo') : fifo'[i] < calls'
    <3>1. \A i \in 1..Len(fifo) : fifo[i] \in Nat /\ fifo[i] <= calls
      BY <1>0, ElementOfSeq DEF HeardInv
    <3>2. QED
      BY <1>0, <2>1, <3>1
  <2>4. ASSUME lost = 0, queue \in Taking, NEW n \in (heard + 1)..(calls + 1)
        PROVE  Queued(n)' \/ InHand(n)'
    <3>1. CASE n = calls + 1
      BY <2>1, <3>1 DEF InHand
    <3>2. CASE n \in (heard + 1)..calls
      BY <1>0, <2>1, <2>4, <3>2 DEF HeardInv, InHand, Queued, Taking
    <3>3. QED
      BY <1>0, <3>1, <3>2
  <2>5. \A i \in 1..Len(fifo') : fifo'[i] <= calls'
    BY <1>0, <2>1 DEF HeardInv
  <2>6. QED
    BY <2>1, <2>2, <2>3, <2>4, <2>5 DEF HeardInv, Taking
<1>Enqueue. CASE Enqueue
  <2>1. cbk = "enqueue" /\ cbk' = "none" /\ UNCHANGED <<heard, calls, buf, queue>>
    BY <1>Enqueue DEF Enqueue, Go
  <2>2. CASE fifo' = Append(fifo, buf) /\ lost' = lost
    <3>1. buf = 0 \/ (buf = calls /\ heard < calls /\ \A i \in 1..Len(fifo) : fifo[i] < calls)
      BY <1>0, <2>1 DEF HeardInv
    <3>2. /\ InOrder'
          /\ \A i \in 1..Len(fifo') : fifo'[i] <= calls'
          /\ \A n \in Nat : Queued(n) \/ n = buf => Queued(n)'
      BY <1>0, <2>1, <2>2, <3>1, EnqueueKeepsOrder
    <3>3. ASSUME lost = 0, queue \in Taking, NEW n \in (heard + 1)..calls PROVE Queued(n)'
      <4>1. n \in Nat /\ (Queued(n) \/ n = buf)
        BY <1>0, <3>3 DEF HeardInv, InHand, Taking
      <4>2. QED
        BY <3>2, <4>1
    <3>4. QED
      BY <2>1, <2>2, <3>2, <3>3 DEF HeardInv, Taking
  <2>3. CASE fifo' = fifo /\ lost' = lost + 1
    BY <1>0, <2>1, <2>3 DEF HeardInv, InOrder
  <2>4. QED
    BY <1>Enqueue, <2>2, <2>3 DEF Enqueue
<1> QED
  BY <1>NewQueue, <1>Allocate, <1>Abandon, <1>QueueStopped, <1>opening, <1>control, <1>Invoke,
     <1>silence, <1>Count, <1>Callback, <1>Enqueue, PlayingKeepsOrder
  DEF Next, Open, Calling, Trampoline

-----------------------------------------------------------------------------
(* An action that leaves alone what the drift is made of keeps its bound.  *)
LEMMA DriftUntouched ==
  ASSUME IInv, UNCHANGED <<framesPlayed, period, toggles>>,
         calls' - Uncounted' = calls - Uncounted, Owed' => Owed
  PROVE  DriftInv'
<1> DEFINE drift == framesPlayed - period * (calls - Uncounted)
<1>1. framesPlayed \in Nat /\ period \in Nat /\ calls \in Nat /\ toggles \in Nat
  BY DEF IInv, Shape, TypeOK
<1>2. Uncounted \in Int
  BY DEF Uncounted
<1>3. drift \in Int
  BY <1>1, <1>2
<1>4. drift' = drift
  OBVIOUS
<1> HIDE DEF drift
<1>5. CASE Owed /\ Owed'
  BY <1>4, <1>5 DEF IInv, DriftInv, drift
<1>6. CASE ~Owed /\ ~Owed'
  BY <1>4, <1>6 DEF IInv, DriftInv, drift
<1>7. CASE Owed /\ ~Owed'
  <2>1. -(period * (toggles - 1)) <= drift /\ drift <= period * (toggles - 1)
    BY <1>7 DEF IInv, DriftInv, drift
  <2>2. period * (toggles - 1) = period * toggles - period
    BY <1>1, Distributes
  <2>3. period * toggles \in Int
    BY <1>1
  <2>4. -(period * toggles) <= drift /\ drift <= period * toggles
    BY <1>1, <1>3, <2>1, <2>2, <2>3
  <2>5. QED
    BY <1>1, <1>4, <1>7, <2>4 DEF DriftInv, drift
<1>8. QED
  BY <1>5, <1>6, <1>7

(* A change of the flag is one toggle more, which is owed if the           *)
(* trampoline has already acted on the old value, and which pays for what  *)
(* was owed if it has returned to it.                                      *)
LEMMA ToggleKeepsDrift ==
  ASSUME IInv, NEW value \in BOOLEAN, StorePaused(value)
  PROVE  DriftInv'
<1>1. /\ framesPlayed \in Nat /\ period \in Nat /\ calls \in Nat /\ toggles \in Nat
      /\ paused \in BOOLEAN /\ paused' = value
  BY DEF IInv, Shape, TypeOK, StorePaused
<1>2. UNCHANGED <<framesPlayed, period, calls, cbk, buf>>
  BY DEF StorePaused, open, trampoline
<1>3. CASE paused' = paused
  <2>1. toggles' = toggles
    BY <1>3 DEF StorePaused
  <2>2. QED
    BY <1>2, <1>3, <2>1, DriftUntouched DEF Uncounted, Owed, Rendering, Silencing
<1>4. CASE paused' # paused
  <2>1. toggles' = toggles + 1
    BY <1>4 DEF StorePaused
  <2>2. QED
    BY <1>1, <1>2, <2>1 DEF IInv, DriftInv, Owed, Rendering, Silencing, Uncounted
<1>5. QED
  BY <1>3, <1>4

LEMMA StepDrift == IInv /\ [Next]_vars => DriftInv'
<1> SUFFICES ASSUME IInv, [Next]_vars PROVE DriftInv'
  OBVIOUS
<1> USE DEF handleVars, open, callbackState, buffers, trampoline, query
<1>1. /\ framesPlayed \in Nat /\ period \in Nat /\ calls \in Nat /\ toggles \in Nat
      /\ buf \in Nat
  BY DEF IInv, Shape, TypeOK
<1>NewQueue. ASSUME NEW req \in Requests, NewQueue(req) PROVE DriftInv'
  <2>1. framesPlayed' = 0 /\ calls' = 0 /\ toggles' = toggles /\ cbk' = "none"
    BY <1>NewQueue DEF NewQueue, At, IInv, Shape, ControlInv, Unopened, Running, Reads
  <2>2. period' \in Nat
    BY <1>NewQueue, FramesOfRequest DEF NewQueue
  <2>3. ~Owed' /\ Uncounted' = 0
    BY <2>1 DEF Owed, Rendering, Silencing, Uncounted
  <2>4. QED
    BY <1>1, <2>1, <2>2, <2>3, NoDrift, Zenon DEF DriftInv
<1>Play. CASE Play
  BY <1>Play, ToggleKeepsDrift DEF Play
<1>Pause. CASE Pause
  BY <1>Pause, ToggleKeepsDrift DEF Pause
<1>untouched. ASSUME UNCHANGED <<framesPlayed, period, calls, toggles, cbk, buf, paused>>
              PROVE  DriftInv'
  BY <1>untouched, DriftUntouched DEF Uncounted, Owed, Rendering, Silencing
<1>opening. CASE \/ RoutingRefused \/ NewQueueFails \/ GetUid \/ SetDevice \/ Allocate \/ Start
                 \/ \E at \in OpenPositions : Abandon(at)
  <2>1. UNCHANGED <<framesPlayed, period, calls, toggles, cbk, buf, paused>>
    BY <1>opening DEF RoutingRefused, NewQueueFails, GetUid, SetDevice, Allocate, Start, Abandon
  <2>2. QED
    BY <2>1, <1>untouched
<1>control. CASE \/ StartQueue \/ PauseQueue \/ ResolveDevice
                 \/ (\E at \in Reads : ReadProperty(at)) \/ LatencyReturns
                 \/ Stop \/ Drop \/ StopQueue \/ QueueStopped \/ Dispose \/ FreeState
                 \/ SwitchDefault \/ QueuePlays \/ UNCHANGED vars
  <2>1. UNCHANGED <<framesPlayed, period, calls, toggles, cbk, buf, paused>>
    BY <1>control DEF StartQueue, PauseQueue, ResolveDevice, ReadProperty, LatencyReturns, Stop,
       Drop, StopQueue, QueueStopped, Dispose, FreeState, SwitchDefault, QueuePlays, vars
  <2>2. QED
    BY <2>1, <1>untouched
<1>quiet. CASE Invoke \/ Silence \/ Commit \/ Callback \/ Enqueue
  <2>1. UNCHANGED <<framesPlayed, period, toggles>>
    BY <1>quiet DEF Invoke, Silence, Commit, Callback, Enqueue
  <2>2. calls' - Uncounted' = calls - Uncounted
    BY <1>1, <1>quiet DEF Invoke, Silence, Commit, Callback, Enqueue, Zeroed, Go, Uncounted
  <2>3. Owed' => Owed
    BY <1>1, <1>quiet DEF Invoke, Silence, Commit, Callback, Enqueue, MayRender, Zeroed, Go,
       Owed, Rendering, Silencing
  <2>4. QED
    BY <2>1, <2>2, <2>3, DriftUntouched
<1>Count. CASE Count
  <2>1. UNCHANGED <<period, calls, toggles, paused, buf>> /\ cbk = "count" /\ cbk' = "enqueue"
    BY <1>Count DEF Count, Go
  <2>2. framesPlayed' = framesPlayed + Credit
    BY <1>Count DEF Count
  <2>3. ~Owed' /\ Uncounted' = 0
    BY <2>1 DEF Owed, Rendering, Silencing, Uncounted
  <2>4. QED
    BY <1>1, <2>1, <2>2, <2>3
    DEF IInv, DriftInv, Credit, Owed, Rendering, Silencing, Uncounted
<1> QED
  BY <1>NewQueue, <1>Play, <1>Pause, <1>opening, <1>control, <1>quiet, <1>Count
  DEF Next, Open, Calling, Trampoline

-----------------------------------------------------------------------------
LEMMA Invariance == Spec => []IInv
<1>1. IInv /\ [Next]_vars => IInv'
  BY StepShape, StepHeard, StepDrift DEF IInv
<1>2. QED
  BY <1>1, InitIInv, PTL DEF Spec

(* Every variable keeps its type.                                          *)
THEOREM TypeCorrect == Spec => []TypeOK
<1>1. IInv => TypeOK
  BY DEF IInv, Shape
<1>2. QED
  BY <1>1, Invariance, PTL

(* The trampoline only runs on a live state, which is freed once, after    *)
(* the queue, on every way out.                                            *)
THEOREM StateLives == Spec => []StateLifetime
<1>1. IInv => StateLifetime
  BY DEF IInv, Shape, ControlInv, StateInv, Running, StateLifetime, TypeOK, HandleTypeOK,
     OpenPositions, CallPositions, Reads
<1>2. QED
  BY <1>1, Invariance, PTL

(* Whatever is paused and refused, what was rendered is played in order    *)
(* and once.                                                               *)
THEOREM HeardOnce == Spec => []HeardOnceInOrder
<1>1. IInv => HeardOnceInOrder
  BY DEF IInv, HeardInv, InHand, HeardOnceInOrder
<1>2. QED
  BY <1>1, Invariance, PTL

(* The clock is never further from the buffers rendered than one period    *)
(* for each change of the paused flag.                                     *)
THEOREM DriftIsBounded == Spec => []ClockDrift
<1>1. IInv => ClockDrift
  <2> SUFFICES ASSUME IInv, cbk = "none" PROVE ClockDrift
    BY DEF ClockDrift
  <2>1. ~Owed /\ Uncounted = 0 /\ toggles \in Nat /\ calls \in Nat
    BY DEF Owed, Rendering, Silencing, Uncounted, IInv, Shape, TypeOK
  <2>2. QED
    BY <2>1 DEF IInv, DriftInv, ClockDrift
<1>2. QED
  BY <1>1, Invariance, PTL

(* Whatever the default output becomes meanwhile, latency() answers for a  *)
(* device the stream was routed to during the call.                        *)
THEOREM LatencyFollows == Spec => []LatencyFollowsRoute
<1>1. IInv => LatencyFollowsRoute
  BY DEF IInv, Shape, LatencyInv, LatencyFollowsRoute
<1>2. QED
  BY <1>1, Invariance, PTL

-----------------------------------------------------------------------------
(* The refinement of AudioStream.                                          *)
LEMMA InitRefines == Init => Contract!Init
  BY DEF Init, HandleInit, Contract!Init, CoreTransport, Transport, OpenPositions

LEMMA StepRefines == IInv /\ [Next]_vars => [Contract!Next]_(Contract!vars)
<1> SUFFICES ASSUME IInv, [Next]_vars PROVE [Contract!Next]_(Contract!vars)
  OBVIOUS
<1> USE DEF handleVars, open, callbackState, buffers, trampoline, query, OpenPositions, Running,
            Reads, CoreTransport, Transport, isPlaying, Contract!vars, Contract!Next, Contract!Live
<1>0. /\ ControlInv /\ StateInv /\ HandleTypeOK(OpenPositions \cup CallPositions)
      /\ paused \in BOOLEAN /\ framesPlayed \in Nat /\ period \in Nat /\ calls \in Nat
  BY DEF IInv, Shape, TypeOK
<1> USE DEF ControlInv, HandleTypeOK, CallPositions
<1>opening. CASE \/ RoutingRefused \/ NewQueueFails \/ GetUid \/ SetDevice \/ Allocate
                 \/ (\E at \in OpenPositions : Abandon(at)) \/ \E req \in Requests : NewQueue(req)
  <2>1. /\ ctl \in {"new"} \cup OpenPositions /\ ctl' \in {"failed"} \cup OpenPositions
        /\ UNCHANGED <<framesPlayed, calls>>
    BY <1>opening DEF RoutingRefused, NewQueueFails, GetUid, SetDevice, Allocate, Abandon,
       NewQueue, OpenFailed, At
  <2>2. QED
    BY <2>1
<1>Start. CASE Start
  BY <1>0, <1>Start DEF Start, StreamNew, Contract!Open
<1>Play. CASE Play
  BY <1>0, <1>Play DEF Play, StorePaused, At, Contract!Play
<1>StartQueue. CASE StartQueue
  BY <1>0, <1>StartQueue DEF StartQueue, PlayReturned
<1>Pause. CASE Pause
  BY <1>0, <1>Pause DEF Pause, StorePaused, At
<1>PauseQueue. CASE PauseQueue
  BY <1>0, <1>PauseQueue DEF PauseQueue, PauseReturned, Contract!Pause
<1>latency. CASE ResolveDevice \/ (\E at \in Reads : ReadProperty(at)) \/ LatencyReturns
  BY <1>0, <1>latency DEF ResolveDevice, ReadProperty, LatencyReturns, AfterRead, At
<1>stop. CASE Stop \/ Drop
  BY <1>0, <1>stop DEF Stop, StopCall, Drop, DropCall
<1>stopping. CASE StopQueue \/ QueueStopped \/ Dispose
  BY <1>0, <1>stopping DEF StopQueue, QueueStopped, Dispose, At
<1>free. CASE FreeState
  BY <1>0, <1>free DEF FreeState, StopReturned, Contract!Stop
<1>quiet. CASE Invoke \/ Silence \/ Enqueue
  BY <1>0, <1>quiet DEF Invoke, Silence, Enqueue, Go
<1>Commit. CASE Commit
  BY <1>0, <1>Commit DEF Commit, MayRender, Go
<1>Callback. CASE Callback
  BY <1>0, <1>Callback DEF Callback, Go, Contract!Callback
<1>Count. CASE Count
  BY <1>0, <1>Count DEF Count, Credit, Go, Contract!Tick
<1>external. CASE QueuePlays \/ SwitchDefault \/ UNCHANGED vars
  BY <1>external DEF QueuePlays, SwitchDefault, vars
<1> QED
  BY <1>opening, <1>Start, <1>Play, <1>StartQueue, <1>Pause, <1>PauseQueue, <1>latency, <1>stop,
     <1>stopping, <1>free, <1>quiet, <1>Commit, <1>Callback, <1>Count, <1>external
  DEF Next, Open, Calling, Trampoline

(* The handle, the queue and the trampoline keep the stream contract: at   *)
(* most one callback after a pause, none after stop(), and a clock that    *)
(* never goes back.                                                        *)
THEOREM Refinement == Spec => ImplementsAudioStream
  BY InitRefines, StepRefines, Invariance, PTL
  DEF Spec, ImplementsAudioStream, Contract!Spec
=============================================================================
