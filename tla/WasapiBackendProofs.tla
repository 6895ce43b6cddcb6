------------------------ MODULE WasapiBackendProofs ------------------------
(***************************************************************************)
(* What WasapiBackend satisfies for every value of its constants: any      *)
(* buffer and any depth of the hardware, an engine that refuses any call.  *)
(* IInv is inductive; it implies the two invariants the run checks, and    *)
(* under it every step is a step of AudioStream or a stutter.              *)
(***************************************************************************)
EXTENDS WasapiBackend, TLAPS

(* the positions inside open_inner, and where a failed spawn leads *)
Opening ==
  {"activate", "format", "initialize", "create", "bind", "size", "service", "start",
   "getclock", "spawn", "abandoned"}

(* Where the control thread and the worker can be at the same time, and    *)
(* what the flags and the counters are worth there.                        *)
ControlInv ==
  /\ ctl \in Opening \cup {"new", "failed"} <=> wk = "unspawned"
  /\ ctl \in {"release", "drop", "gone"} => wk = "exited"
  /\ stopped <=> ctl \in {"drop", "gone"}
  /\ wk # "unspawned" => playing = ~paused
  /\ wk = "unspawned" => ~paused /\ calls = 0 /\ framesPlayed = 0 /\ released = 0

(* What the thread at a position holds, the clock left out.                *)
HeldAt(at) ==
  CASE at \in {"new", "activate", "failed", "drop", "gone"} -> {}
    [] at \in {"format", "initialize"} -> {"client", "wfx"}
    [] at = "create"                   -> {"client"}
    [] at \in {"bind", "size", "service"} -> {"client", "event"}
    [] OTHER                           -> {"client", "event", "render"}

(* Each object is held once or not at all, as the position says.           *)
Holds(set) ==
  \A r \in {"client", "wfx", "event", "render"} : refs[r] = IF r \in set THEN 1 ELSE 0

RefsInv ==
  /\ Holds(HeldAt(ctl))
  /\ refs["clock"] \in {0, 1}
  /\ ctl \in (Opening \ {"spawn", "abandoned"}) \cup {"new", "failed", "drop", "gone"} =>
       refs["clock"] = 0

(* Every frame handed over is in the buffer, in the hardware or heard; the *)
(* worker never asks for more than the room it found; and it never counts  *)
(* more than it has handed over.                                           *)
EngineInv ==
  /\ released = position + pipe + queued
  /\ wk \in {"buffer", "check", "render", "release"} => queued + avail <= BufferFrames
  /\ framesPlayed + (IF wk = "count" THEN avail ELSE 0) <= released

IInv == TypeOK /\ ControlInv /\ RefsInv /\ EngineInv /\ LatencyBounded

-----------------------------------------------------------------------------
(* The table of calls, read position by position.                          *)
LEMMA Positions ==
  /\ DOMAIN OpenCalls =
       {"activate", "format", "initialize", "create", "bind", "size", "service", "start"}
  /\ OpenPositions = Opening
  BY DEF OpenCalls, OpenPositions, Opening

LEMMA CallEffects ==
  /\ OpenCalls["activate"]   = Step("format", {"client", "wfx"}, {}, {})
  /\ OpenCalls["format"]     = Step("initialize", {}, {}, {"wfx", "client"})
  /\ OpenCalls["initialize"] = Step("create", {}, {"wfx"}, {"wfx", "client"})
  /\ OpenCalls["create"]     = Step("bind", {"event"}, {}, {"client"})
  /\ OpenCalls["bind"]       = Step("size", {}, {}, {"event", "client"})
  /\ OpenCalls["size"]       = Step("service", {}, {}, {"event", "client"})
  /\ OpenCalls["service"]    = Step("start", {"render"}, {}, {"event", "client"})
  /\ OpenCalls["start"]      = Step("getclock", {}, {}, {"render", "event", "client"})
  BY DEF OpenCalls

(* What the two roundings can hide: the position read is not ahead of what *)
(* was heard, and behind it by RoundingLoss at most.                       *)
LEMMA ClockReading ==
  ASSUME position \in Nat
  PROVE  /\ PosFrames(Ticks) \in Nat /\ RoundingLoss \in Nat
         /\ PosFrames(Ticks) <= position
         /\ position <= PosFrames(Ticks) + RoundingLoss
<1> DEFINE t == Ticks
           p == PosFrames(t)
<1> USE WasapiAssumption
<1>div. ASSUME NEW a \in Nat, NEW b \in Nat \ {0}
        PROVE  /\ a \div b \in Nat
               /\ b * (a \div b) <= a /\ a < b * (a \div b) + b
  OBVIOUS
<1>1. t \in Nat /\ SampleRate * t <= position * ClockFrequency
      /\ position * ClockFrequency < SampleRate * t + SampleRate
  BY <1>div DEF Ticks
<1>2. p \in Nat /\ ClockFrequency * p <= t * SampleRate
      /\ t * SampleRate < ClockFrequency * p + ClockFrequency
  BY <1>1, <1>div DEF PosFrames
<1>3. RoundingLoss \in Nat
      /\ SampleRate + ClockFrequency - 2 < ClockFrequency * RoundingLoss + ClockFrequency
  BY <1>div DEF RoundingLoss
<1> HIDE DEF t, p
<1>4. ClockFrequency * p <= ClockFrequency * position
  BY <1>1, <1>2
<1>5. p <= position
  BY <1>1, <1>2, <1>4
<1>6. ClockFrequency * (position - p) <= SampleRate + ClockFrequency - 2
  BY <1>1, <1>2
<1>7. ClockFrequency * (position - p) < ClockFrequency * (RoundingLoss + 1)
  BY <1>1, <1>2, <1>3, <1>6
<1>8. position - p < RoundingLoss + 1
  BY <1>1, <1>2, <1>3, <1>7
<1>9. QED
  BY <1>1, <1>2, <1>3, <1>5, <1>8 DEF t, p

LEMMA InitIInv == Init => IInv
<1> SUFFICES ASSUME Init PROVE IInv
  OBVIOUS
<1> USE WasapiAssumption DEF Init, HandleInit
<1>1. TypeOK
  <2>1. HandleTypeOK(OpenPositions \cup {"signal", "wake", "join", "release"})
    BY DEF HandleTypeOK
  <2>2. paused \in BOOLEAN /\ stop \in BOOLEAN
    BY Zenon
  <2>3. refs \in [Resources -> Int]
    OBVIOUS
  <2>4. QED
    BY <2>1, <2>2, <2>3 DEF TypeOK
<1>2. ControlInv
  BY DEF ControlInv, Opening
<1>3. RefsInv
  BY DEF RefsInv, Holds, HeldAt, Resources, Opening
<1>4. EngineInv /\ LatencyBounded
  BY DEF EngineInv, LatencyBounded
<1>5. QED
  BY <1>1, <1>2, <1>3, <1>4 DEF IInv

-----------------------------------------------------------------------------
(* A call of open_inner that succeeds moves on with what it acquired.      *)
LEMMA CallOkHolds ==
  ASSUME IInv, NEW at \in DOMAIN OpenCalls, CallOk(at)
  PROVE  ctl' \in Opening \ {"activate", "spawn", "abandoned"} /\ refs' \in [Resources -> Int] /\ RefsInv'
<1>1. /\ ctl = at /\ ctl' = OpenCalls[at].next
      /\ refs' = [r \in Resources |-> refs[r] + (IF r \in OpenCalls[at].got THEN 1 ELSE 0)
                                            - (IF r \in OpenCalls[at].freed THEN 1 ELSE 0)]
      /\ refs \in [Resources -> Int]
  BY DEF CallOk, At, IInv, TypeOK
<1>2. refs' \in [Resources -> Int]
  BY <1>1
<1>3. refs'["clock"] = 0
  BY <1>1, Positions, CallEffects DEF Step, IInv, RefsInv, Resources, Opening
<1>4. Holds(HeldAt(at))
  BY <1>1, Positions DEF IInv, RefsInv
<1> USE DEF Step, HeldAt, Holds, Resources
<1>5. CASE at \in {"activate", "format"}
  <2>1. ctl' \in {"format", "initialize"} /\ Holds({"client", "wfx"})'
    BY <1>1, <1>4, <1>5, CallEffects
  <2>2. QED
    BY <1>2, <1>3, <2>1 DEF RefsInv, Opening
<1>6. CASE at = "initialize"
  <2>1. ctl' = "create" /\ Holds({"client"})'
    BY <1>1, <1>4, <1>6, CallEffects
  <2>2. QED
    BY <1>2, <1>3, <2>1 DEF RefsInv, Opening
<1>7. CASE at \in {"create", "bind", "size"}
  <2>1. ctl' \in {"bind", "size", "service"} /\ Holds({"client", "event"})'
    BY <1>1, <1>4, <1>7, CallEffects
  <2>2. QED
    BY <1>2, <1>3, <2>1 DEF RefsInv, Opening
<1>8. CASE at \in {"service", "start"}
  <2>1. ctl' \in {"start", "getclock"} /\ Holds({"client", "event", "render"})'
    BY <1>1, <1>4, <1>8, CallEffects
  <2>2. QED
    BY <1>2, <1>3, <2>1 DEF RefsInv, Opening
<1>9. QED
  BY <1>5, <1>6, <1>7, <1>8, Positions

(* One that fails gives back everything that was held at its position.     *)
LEMMA CallFailsHoldsNothing ==
  ASSUME IInv, NEW at \in DOMAIN OpenCalls, CallFails(at)
  PROVE  ctl' = "failed" /\ refs' \in [Resources -> Int] /\ RefsInv'
<1>1. /\ ctl = at /\ ctl' = "failed"
      /\ refs' = [r \in Resources |-> IF r \in OpenCalls[at].undone THEN refs[r] - 1 ELSE refs[r]]
      /\ refs \in [Resources -> Int]
  BY DEF CallFails, Undone, Release, At, IInv, TypeOK
<1>2. refs' \in [Resources -> Int]
  BY <1>1
<1>3. refs["clock"] = 0 /\ Holds(HeldAt(at))
  BY <1>1, Positions DEF IInv, RefsInv, Opening
<1>4. "clock" \notin OpenCalls[at].undone
  BY Positions, CallEffects DEF Step
<1>5. \A r \in {"client", "wfx", "event", "render"} : r \in OpenCalls[at].undone <=> r \in HeldAt(at)
  <2> USE CallEffects DEF Step, HeldAt
  <2>1. CASE at = "activate"
    BY <2>1
  <2>2. CASE at = "format"
    BY <2>2
  <2>3. CASE at = "initialize"
    BY <2>3
  <2>4. CASE at = "create"
    BY <2>4
  <2>5. CASE at \in {"bind", "size", "service"}
    BY <2>5
  <2>6. CASE at = "start"
    BY <2>6
  <2>7. QED
    BY <2>1, <2>2, <2>3, <2>4, <2>5, <2>6, Positions
<1>6. Holds({})' /\ refs'["clock"] = 0
  BY <1>1, <1>3, <1>4, <1>5 DEF Holds, Resources
<1>7. QED
  BY <1>1, <1>2, <1>6 DEF RefsInv, HeldAt, Opening

LEMMA StepIInv == IInv /\ [Next]_vars => IInv'
<1> SUFFICES ASSUME IInv, [Next]_vars PROVE IInv'
  OBVIOUS
<1> USE WasapiAssumption, Positions
    DEF IInv, TypeOK, HandleTypeOK, ControlInv, EngineInv, LatencyBounded,
        Opening, handleVars, flags, worker, engine
<1>callOk. ASSUME NEW at \in DOMAIN OpenCalls, CallOk(at) PROVE IInv'
  <2>1. ctl' \in Opening \ {"activate", "spawn", "abandoned"} /\ refs' \in [Resources -> Int] /\ RefsInv'
    BY <1>callOk, CallOkHolds
  <2>2. QED
    BY <1>callOk, <2>1 DEF CallOk, At
<1>callFails. ASSUME NEW at \in DOMAIN OpenCalls, CallFails(at) PROVE IInv'
  <2>1. ctl' = "failed" /\ refs' \in [Resources -> Int] /\ RefsInv'
    BY <1>callFails, CallFailsHoldsNothing
  <2>2. QED
    BY <1>callFails, <2>1 DEF CallFails, At
<1>CoInit. CASE CoInit
  <2>1. refs' \in [Resources -> Int] /\ RefsInv'
    BY <1>CoInit DEF CoInit, Acquire, At, RefsInv, Holds, HeldAt, Resources
  <2>2. QED
    BY <1>CoInit, <2>1 DEF CoInit, At
<1>GetClock. CASE GetClock
  <2>1. refs' \in [Resources -> Int] /\ RefsInv'
    BY <1>GetClock DEF GetClock, Acquire, At, RefsInv, Holds, HeldAt, Resources
  <2>2. QED
    BY <1>GetClock, <2>1 DEF GetClock, At
<1>Spawn. CASE Spawn
  <2>1. RefsInv'
    BY <1>Spawn DEF Spawn, StreamNew, RefsInv, Holds, HeldAt
  <2>2. QED
    BY <1>Spawn, <2>1 DEF Spawn, StreamNew
<1>SpawnFails. CASE SpawnFails
  <2>1. RefsInv'
    BY <1>SpawnFails DEF SpawnFails, At, RefsInv, Holds, HeldAt
  <2>2. QED
    BY <1>SpawnFails, <2>1 DEF SpawnFails, At
<1>ReleaseAll. CASE ReleaseAll
  <2>1. refs' \in [Resources -> Int] /\ RefsInv'
    BY <1>ReleaseAll
    DEF ReleaseAll, StopReturned, Release, RefsInv, Holds, HeldAt, Resources
  <2>2. QED
    BY <1>ReleaseAll, <2>1 DEF ReleaseAll, StopReturned
<1>Play. CASE Play
  <2>1. paused' = FALSE /\ paused' \in BOOLEAN /\ playing' = TRUE /\ playing' \in BOOLEAN
    BY <1>Play, Zenon DEF Play, PlayOk
  <2>2. playing' = ~paused'
    BY <2>1, Zenon
  <2>3. QED
    BY <1>Play, <2>1, <2>2 DEF Play, PlayOk, RefsInv, Holds
<1>Pause. CASE Pause
  <2>1. paused' = TRUE /\ paused' \in BOOLEAN /\ playing' = FALSE /\ playing' \in BOOLEAN
    BY <1>Pause, Zenon DEF Pause, PauseOk
  <2>2. playing' = ~paused'
    BY <2>1, Zenon
  <2>3. QED
    BY <1>Pause, <2>1, <2>2 DEF Pause, PauseOk, RefsInv, Holds
<1>calls. CASE Stop \/ Drop \/ SignalStop \/ WakeWorker \/ Join
  <2>1. RefsInv'
    BY <1>calls DEF Stop, StopCall, Drop, DropCall, SignalStop, WakeWorker, Join, At,
       RefsInv, Holds, HeldAt
  <2>2. CASE Stop
    BY <2>1, <2>2 DEF Stop, StopCall
  <2>3. CASE Drop
    <3>1. \/ ctl = "idle" /\ ctl' = "signal"
          \/ ctl = "drop" /\ ctl' = "gone"
      BY <2>3 DEF Drop, DropCall
    <3>2. QED
      BY <2>1, <2>3, <3>1 DEF Drop, DropCall
  <2>4. CASE SignalStop
    BY <2>1, <2>4 DEF SignalStop, At
  <2>5. CASE WakeWorker
    BY <2>1, <2>5 DEF WakeWorker, At
  <2>6. CASE Join
    BY <2>1, <2>6 DEF Join, Joined, At
  <2>7. QED
    BY <1>calls, <2>2, <2>3, <2>4, <2>5, <2>6
<1>worker. CASE Worker \/ EngineMixes \/ EndpointPlays
  <2>1. RefsInv'
    BY <1>worker DEF Worker, TestStop, Wake, GetPadding, GetBuffer, Silence, Commit,
       Callback, ReleaseBuffer, Count, PublishLatency, CallRefused, EngineMixes,
       EndpointPlays, RefsInv, Holds
  <2>2. CASE TestStop
    BY <2>1, <2>2 DEF TestStop, Go
  <2>3. CASE Wake \/ CallRefused
    BY <2>1, <2>3 DEF Wake, CallRefused, Go
  <2>4. CASE GetPadding
    BY <2>1, <2>4 DEF GetPadding, Room, AfterFull, Go
  <2>5. CASE GetBuffer \/ Silence \/ Commit
    BY <2>1, <2>5 DEF GetBuffer, Silence, Commit, MayRender, Go
  <2>6. CASE Callback
    BY <2>1, <2>6 DEF Callback, Go
  <2>7. CASE ReleaseBuffer
    BY <2>1, <2>7 DEF ReleaseBuffer, Go
  <2>8. CASE Count
    BY <2>1, <2>8 DEF Count, Credit, Go
  <2>9. CASE PublishLatency
    <3>1. InFlight(framesPlayed) \in 0..(BufferFrames + PipeFrames + RoundingLoss)
      <4>1. framesPlayed <= position + PipeFrames + BufferFrames
        BY <2>9 DEF PublishLatency, Go
      <4>2. QED
        BY <4>1, ClockReading DEF InFlight
    <3>2. clockLatency' = clockLatency \/ clockLatency' = InFlight(framesPlayed)
      BY <2>9 DEF PublishLatency
    <3>3. clockLatency' \in Nat \cup {NoReading} /\ LatencyBounded'
      BY <3>1, <3>2
    <3>4. QED
      BY <2>1, <2>9, <3>3 DEF PublishLatency, Go
  <2>10. CASE EngineMixes
    BY <2>1, <2>10 DEF EngineMixes
  <2>11. CASE EndpointPlays
    BY <2>1, <2>11 DEF EndpointPlays
  <2>12. QED
    BY <1>worker, <2>2, <2>3, <2>4, <2>5, <2>6, <2>7, <2>8, <2>9, <2>10, <2>11 DEF Worker
<1>stutter. CASE UNCHANGED vars
  BY <1>stutter DEF vars, RefsInv, Holds
<1> QED
  BY <1>callOk, <1>callFails, <1>CoInit, <1>GetClock, <1>Spawn, <1>SpawnFails,
     <1>ReleaseAll, <1>Play, <1>Pause, <1>calls, <1>worker, <1>stutter
  DEF Next, Open

-----------------------------------------------------------------------------
LEMMA Invariance == Spec => []IInv
  BY InitIInv, StepIInv, PTL DEF Spec

(* Every variable keeps its type; the shared buffer never overflows.       *)
THEOREM TypeCorrect == Spec => []TypeOK
<1>1. IInv => TypeOK
  BY DEF IInv
<1>2. QED
  BY <1>1, Invariance, PTL

(* The worker only uses live objects, and every exit gives each of them    *)
(* back once; a failed spawn's is not among them, as it has a position of  *)
(* its own.                                                                *)
THEOREM ObjectsLive == Spec => []ObjectLifetime
<1>1. IInv => ObjectLifetime
  BY DEF IInv, TypeOK, HandleTypeOK, ControlInv, RefsInv, Holds, HeldAt, Opening,
     ObjectLifetime, Objects, Resources
<1>2. QED
  BY <1>1, Invariance, PTL

(* The published latency never exceeds what buffer and hardware can hold.  *)
THEOREM LatencyIsBounded == Spec => []LatencyBounded
<1>1. IInv => LatencyBounded
  BY DEF IInv
<1>2. QED
  BY <1>1, Invariance, PTL

-----------------------------------------------------------------------------
(* The refinement of AudioStream.                                          *)
LEMMA InitRefines == Init => Contract!Init
  BY Positions DEF Init, HandleInit, Contract!Init, Transport, isPlaying, Opening

LEMMA StepRefines == IInv /\ [Next]_vars => [Contract!Next]_(Contract!vars)
<1> SUFFICES ASSUME IInv, [Next]_vars PROVE [Contract!Next]_(Contract!vars)
  OBVIOUS
<1> USE Positions
    DEF IInv, TypeOK, HandleTypeOK, ControlInv, handleVars, flags, worker, engine, Opening,
        Transport, isPlaying, Contract!vars, Contract!Next, Contract!Live
<1>call. ASSUME NEW at \in DOMAIN OpenCalls, CallOk(at) \/ CallFails(at)
         PROVE  UNCHANGED Contract!vars
  <2>1. ctl \in Opening /\ ctl' \in Opening \cup {"failed"}
    BY <1>call, CallOkHolds, CallFailsHoldsNothing DEF CallOk, CallFails, At
  <2>2. QED
    BY <1>call, <2>1 DEF CallOk, CallFails, At
<1>open. CASE CoInit \/ GetClock \/ SpawnFails
  BY <1>open DEF CoInit, GetClock, SpawnFails, At
<1>spawn. CASE Spawn
  BY <1>spawn DEF Spawn, StreamNew, Contract!Open
<1>play. CASE Play
  BY <1>play DEF Play, PlayOk, Contract!Play
<1>pause. CASE Pause
  BY <1>pause DEF Pause, PauseOk, Contract!Pause
<1>stop. CASE Stop \/ Drop
  BY <1>stop DEF Stop, StopCall, Drop, DropCall
<1>signal. CASE SignalStop \/ WakeWorker \/ Join
  BY <1>signal DEF SignalStop, WakeWorker, Join, At
<1>release. CASE ReleaseAll
  BY <1>release DEF ReleaseAll, StopReturned, Contract!Stop
<1>quiet. CASE \/ TestStop \/ Wake \/ GetPadding \/ GetBuffer \/ Silence \/ ReleaseBuffer
               \/ PublishLatency \/ CallRefused
  BY <1>quiet DEF TestStop, Wake, GetPadding, GetBuffer, Silence, ReleaseBuffer,
     PublishLatency, CallRefused, AfterFull, Go
<1>commit. CASE Commit
  BY <1>commit DEF Commit, MayRender, Go
<1>callback. CASE Callback
  BY <1>callback DEF Callback, Go, Contract!Callback
<1>count. CASE Count
  BY <1>count DEF Count, Credit, Go, Contract!Tick
<1>engine. CASE EngineMixes \/ EndpointPlays
  BY <1>engine DEF EngineMixes, EndpointPlays
<1>stutter. CASE UNCHANGED vars
  BY <1>stutter DEF vars
<1> QED
  BY <1>call, <1>open, <1>spawn, <1>play, <1>pause, <1>stop, <1>signal, <1>release, <1>quiet,
     <1>commit, <1>callback, <1>count, <1>engine, <1>stutter
  DEF Next, Open, Worker

(* The handle, the worker and the engine keep the stream contract: at most *)
(* one callback after a pause, none after stop(), and a clock that never   *)
(* goes back.                                                              *)
THEOREM Refinement == Spec => ImplementsAudioStream
  BY InitRefines, StepRefines, Invariance, PTL
  DEF Spec, ImplementsAudioStream, Contract!Spec
=============================================================================
