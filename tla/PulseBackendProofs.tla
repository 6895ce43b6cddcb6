------------------------ MODULE PulseBackendProofs ------------------------
(***************************************************************************)
(* What PulseBackend satisfies for every value of its constants: any       *)
(* requests, any server buffer, any number of periods and of pauses.  The  *)
(* invariant IInv below is inductive; it implies the four invariants the   *)
(* run checks, and under it every step is a step of AudioStream or a       *)
(* stutter.                                                                *)
(***************************************************************************)
EXTENDS PulseBackend, TLAPS

(* Where the control thread and the worker can be at the same time, and    *)
(* what the two flags are worth there.                                     *)
ControlInv ==
  /\ ctl \in {"new", "failed"} <=> wk = "unspawned"
  /\ ctl \in {"free", "drop", "gone"} => wk = "exited"
  /\ stopped <=> ctl \in {"drop", "gone"}
  /\ wk # "unspawned" => period > 0 /\ playing = ~paused
  /\ wk = "unspawned" => calls = 0 /\ audible = 0 /\ framesPlayed = 0 /\ ~paused

(* Who has the connection, and how often it has been freed by then.        *)
ConnInv ==
  /\ ctl = "new" => conn = "none"
  /\ ctl = "failed" => conn # "open"
  /\ ctl \in {"drop", "gone"} => conn = "freed"
  /\ ctl \notin {"new", "failed", "drop", "gone"} => conn = "open"
  /\ frees = IF conn = "freed" THEN 1 ELSE 0

(* The period being written is rendered but not yet accepted; any other    *)
(* period rendered has been accepted.                                      *)
HeardInv ==
  /\ wk = "write" => buf \in {0, calls}
  /\ wk \notin {"write", "exited"} => audible = calls
  /\ wk = "write" => audible = IF buf = 0 THEN calls ELSE calls - 1

(* The worker has committed to count the period it is at (the flag was     *)
(* down when it looked), or not to count it (the flag was up).             *)
Rendering == wk = "render" \/ (wk \in {"write", "count"} /\ buf # 0)
Silencing == wk \in {"write", "count"} /\ buf = 0

(* The flag has been changed since, so that Count will do the opposite:    *)
(* one of the toggles is still to be paid for.                             *)
Owed == (Rendering /\ paused) \/ (Silencing /\ ~paused)

(* rendered and accepted, but not yet due to be counted *)
Uncounted == IF wk = "count" /\ buf # 0 THEN 1 ELSE 0

DriftInv ==
  LET drift == framesPlayed - period * (audible - Uncounted)
      paid  == toggles - (IF Owed THEN 1 ELSE 0)
  IN  -(period * paid) <= drift /\ drift <= period * paid

Shape == TypeOK /\ ControlInv /\ ConnInv /\ HeardInv /\ AttrAccepted

IInv == Shape /\ DriftInv

-----------------------------------------------------------------------------
(* What make_buffer_attr hands over: the fields are u32, and the refill    *)
(* size lies between one byte and the whole buffer.                        *)
LEMMA AttrOfRequest ==
  ASSUME NEW req \in Requests, req.buffer # None
  PROVE  LET a == MakeBufferAttr(req.buffer, req.rate, BytesPerFrame(req))
         IN  a \in [tlength : 0..MaxU32, minreq : 0..MaxU32] /\ a.minreq \in 1..a.tlength
<1> DEFINE bpf == BytesPerFrame(req)
           bytes == req.buffer * bpf
           periodBytes == DefaultPeriod(req.rate) * bpf
<1>1. /\ req.rate \in Nat \ {0} /\ req.channels \in Nat \ {0}
      /\ req.buffer \in Nat \ {0} /\ MaxU32 \in Nat \ {0}
  BY PulseAssumption
<1>2. bpf \in Nat \ {0}
  BY <1>1 DEF BytesPerFrame, AtMost
<1>3. DefaultPeriod(req.rate) \in Nat \ {0}
  BY <1>1 DEF DefaultPeriod, AtLeast
<1> HIDE DEF bpf
<1>4. bytes \in Nat \ {0} /\ periodBytes \in Nat \ {0}
  BY <1>1, <1>2, <1>3
<1> HIDE DEF bytes, periodBytes
<1>5. MakeBufferAttr(req.buffer, req.rate, BytesPerFrame(req))
        = [tlength |-> AtMost(bytes, MaxU32), minreq |-> MinReq(periodBytes, bytes)]
  BY DEF MakeBufferAttr, bytes, periodBytes, bpf
<1>6. MinReq(periodBytes, bytes) \in 1..AtMost(bytes, MaxU32)
  BY <1>1, <1>4 DEF MinReq, AtMost, AtLeast
<1>7. AtMost(bytes, MaxU32) \in 0..MaxU32
  BY <1>1, <1>4 DEF AtMost
<1>8. QED
  BY <1>1, <1>5, <1>6, <1>7

LEMMA PeriodPositive ==
  ASSUME NEW req \in Requests
  PROVE  WorkerPeriod(req) \in Nat /\ WorkerPeriod(req) > 0
  BY PulseAssumption DEF WorkerPeriod, DefaultPeriod, AtLeast

(* nothing rendered and nothing counted is within any bound *)
LEMMA NoDrift ==
  ASSUME NEW p \in Nat, NEW x \in Nat
  PROVE  -(p * (x - 0)) <= 0 - p * (0 - 0) /\ 0 - p * (0 - 0) <= p * (x - 0)
<1>1. p * x \in Nat
  OBVIOUS
<1>2. QED
  BY <1>1

(* one more, or one fewer, times the period *)
LEMMA Distributes ==
  ASSUME NEW p \in Int, NEW x \in Int
  PROVE  p * (x + 1) = p * x + p /\ p * (x - 1) = p * x - p
  OBVIOUS

-----------------------------------------------------------------------------
LEMMA InitIInv == Init => IInv
<1> SUFFICES ASSUME Init PROVE IInv
  OBVIOUS
<1> USE PulseAssumption DEF Init, HandleInit
<1>1. TypeOK
  <2>1. HandleTypeOK({"signal", "join", "free"})
    BY DEF HandleTypeOK
  <2>2. paused \in BOOLEAN /\ stop \in BOOLEAN
    BY Zenon
  <2>3. QED
    BY <2>1, <2>2 DEF TypeOK
<1>2. ControlInv /\ ConnInv
  BY DEF ControlInv, ConnInv
<1>3. HeardInv /\ AttrAccepted
  BY DEF HeardInv, AttrAccepted
<1>4. DriftInv
  BY DEF DriftInv, Owed, Rendering, Silencing, Uncounted
<1>5. QED
  BY <1>1, <1>2, <1>3, <1>4 DEF IInv, Shape

(* An action that leaves alone what the drift is made of keeps its bound.  *)
LEMMA DriftUntouched ==
  ASSUME IInv, UNCHANGED <<framesPlayed, period, audible, toggles>>,
         Uncounted' = Uncounted, Owed' => Owed
  PROVE  DriftInv'
<1> DEFINE drift == framesPlayed - period * (audible - Uncounted)
<1>1. framesPlayed \in Nat /\ period \in Nat /\ audible \in Nat /\ toggles \in Nat
  BY DEF IInv, Shape, TypeOK
<1>2. Uncounted \in Int
  BY DEF Uncounted
<1>3. drift \in Int
  BY <1>1, <1>2
<1>4. drift' = drift
  BY DEF Uncounted
<1> HIDE DEF drift
<1>5. CASE Owed /\ Owed'
  BY <1>4, <1>5 DEF IInv, DriftInv, drift
<1>6. CASE ~Owed /\ ~Owed'
  BY <1>4, <1>6 DEF IInv, DriftInv, drift
<1>7. CASE Owed /\ ~Owed'
  <2>1. -(period * (toggles - 1)) <= drift /\ drift <= period * (toggles - 1)
    BY <1>7 DEF IInv, DriftInv, drift
  <2>2. period * (toggles - 1) = period * toggles - period
    BY <1>1, Distributes
  <2>3. period * toggles \in Int
    BY <1>1
  <2>4. -(period * toggles) <= drift /\ drift <= period * toggles
    BY <1>1, <1>3, <2>1, <2>2, <2>3
  <2>5. QED
    BY <1>1, <1>4, <1>7, <2>4 DEF DriftInv, drift
<1>8. QED
  BY <1>5, <1>6, <1>7

-----------------------------------------------------------------------------
(* Every step keeps the shape: one step of the proof per action.           *)
LEMMA StepShape == IInv /\ [Next]_vars => Shape'
<1> SUFFICES ASSUME IInv, [Next]_vars PROVE Shape'
  OBVIOUS
<1> USE PulseAssumption
    DEF IInv, Shape, TypeOK, HandleTypeOK, ControlInv, ConnInv, HeardInv, AttrAccepted,
        handleVars, config, worker, server, history
<1>open. ASSUME NEW req \in Requests, OpenOk(req) PROVE Shape'
  <2>1. period' \in Nat /\ period' > 0
    BY <1>open, PeriodPositive DEF OpenOk
  <2>2. /\ attr' = None \/ attr' \in [tlength : 0..MaxU32, minreq : 0..MaxU32]
        /\ AttrAccepted'
    BY <1>open, AttrOfRequest DEF OpenOk
  <2>3. QED
    BY <1>open, <2>1, <2>2 DEF OpenOk, StreamNew
<1>ConnectFails. CASE ConnectFails
  BY <1>ConnectFails DEF ConnectFails, OpenFailed
<1>SpawnFails. CASE SpawnFails
  BY <1>SpawnFails DEF SpawnFails, OpenFailed
<1>Play. CASE Play
  <2>1. paused' = FALSE /\ paused' \in BOOLEAN /\ playing' = TRUE /\ playing' \in BOOLEAN
    BY <1>Play, Zenon DEF Play, PlayOk, SetPaused
  <2>2. playing' = ~paused'
    BY <2>1, Zenon
  <2>3. QED
    BY <1>Play, <2>1, <2>2 DEF Play, PlayOk, SetPaused
<1>Pause. CASE Pause
  <2>1. paused' = TRUE /\ paused' \in BOOLEAN /\ playing' = FALSE /\ playing' \in BOOLEAN
    BY <1>Pause, Zenon DEF Pause, PauseOk, SetPaused
  <2>2. playing' = ~paused'
    BY <2>1, Zenon
  <2>3. QED
    BY <1>Pause, <2>1, <2>2 DEF Pause, PauseOk, SetPaused
<1>Stop. CASE Stop
  BY <1>Stop DEF Stop, StopCall
<1>Drop. CASE Drop
  BY <1>Drop DEF Drop, DropCall
<1>SignalStop. CASE SignalStop
  BY <1>SignalStop DEF SignalStop, At
<1>Join. CASE Join
  BY <1>Join DEF Join, Joined, At
<1>FlushAndFree. CASE FlushAndFree
  BY <1>FlushAndFree DEF FlushAndFree, StopReturned
<1>TestStop. CASE TestStop
  BY <1>TestStop DEF TestStop, LoopOver, Go
<1>Silence. CASE Silence
  BY <1>Silence DEF Silence, Zeroed, Go
<1>Commit. CASE Commit
  BY <1>Commit DEF Commit, MayRender, Go
<1>Callback. CASE Callback
  BY <1>Callback DEF Callback, Go
<1>WriteOk. CASE WriteOk
  BY <1>WriteOk DEF WriteOk, Go
<1>WriteFails. CASE WriteFails
  BY <1>WriteFails DEF WriteFails, Go
<1>Count. CASE Count
  BY <1>Count DEF Count, Credit, Go
<1>PublishLatency. CASE PublishLatency
  BY <1>PublishLatency DEF PublishLatency, Answers, Go
<1>ServerPlays. CASE ServerPlays
  BY <1>ServerPlays DEF ServerPlays
<1>stutter. CASE UNCHANGED vars
  BY <1>stutter DEF vars
<1> QED
  BY <1>open, <1>ConnectFails, <1>SpawnFails, <1>Play, <1>Pause, <1>Stop, <1>Drop,
     <1>SignalStop, <1>Join, <1>FlushAndFree, <1>TestStop, <1>Silence, <1>Commit,
     <1>Callback, <1>WriteOk, <1>WriteFails, <1>Count, <1>PublishLatency, <1>ServerPlays,
     <1>stutter
  DEF Next, Worker

(* A change of the flag is one toggle more, which is owed if the worker    *)
(* has already acted on the old value, and which pays for what was owed if *)
(* it has returned to it.                                                  *)
LEMMA ToggleKeepsDrift ==
  ASSUME IInv, NEW value \in BOOLEAN, SetPaused(value)
  PROVE  DriftInv'
<1>1. /\ framesPlayed \in Nat /\ period \in Nat /\ audible \in Nat /\ toggles \in Nat
      /\ paused \in BOOLEAN /\ paused' = value
  BY DEF IInv, Shape, TypeOK, SetPaused
<1>2. UNCHANGED <<framesPlayed, period, audible, wk, buf>>
  BY DEF SetPaused, config, worker
<1>3. CASE paused' = paused
  <2>1. toggles' = toggles
    BY <1>3 DEF SetPaused
  <2>2. QED
    BY <1>2, <1>3, <2>1, DriftUntouched DEF Uncounted, Owed, Rendering, Silencing
<1>4. CASE paused' # paused
  <2>1. toggles' = toggles + 1
    BY <1>4 DEF SetPaused
  <2>2. QED
    BY <1>1, <1>2, <2>1 DEF IInv, DriftInv, Owed, Rendering, Silencing, Uncounted
<1>5. QED
  BY <1>3, <1>4

LEMMA StepDrift == IInv /\ [Next]_vars => DriftInv'
<1> SUFFICES ASSUME IInv, [Next]_vars PROVE DriftInv'
  OBVIOUS
<1> USE DEF handleVars, config, worker, server, history
<1>1. /\ framesPlayed \in Nat /\ period \in Nat /\ audible \in Nat /\ toggles \in Nat
      /\ calls \in Nat /\ buf \in Nat
  BY DEF IInv, Shape, TypeOK
<1>open. ASSUME NEW req \in Requests, OpenOk(req) PROVE DriftInv'
  <2>1. framesPlayed' = 0 /\ audible' = 0 /\ toggles' = toggles /\ wk' = "top"
    BY <1>open DEF OpenOk, IInv, Shape, ControlInv
  <2>2. period' \in Nat
    BY <1>open, PeriodPositive DEF OpenOk
  <2>3. ~Owed' /\ Uncounted' = 0
    BY <2>1 DEF Owed, Rendering, Silencing, Uncounted
  <2>4. QED
    BY <1>1, <2>1, <2>2, <2>3, NoDrift, Zenon DEF DriftInv
<1>Play. CASE Play
  BY <1>Play, ToggleKeepsDrift DEF Play
<1>Pause. CASE Pause
  BY <1>Pause, ToggleKeepsDrift DEF Pause
<1>control. CASE \/ ConnectFails \/ SpawnFails \/ Stop \/ Drop \/ SignalStop \/ Join
                 \/ FlushAndFree \/ ServerPlays \/ UNCHANGED vars
  <2>1. UNCHANGED <<framesPlayed, period, audible, toggles, wk, buf, paused>>
    BY <1>control DEF ConnectFails, SpawnFails, Stop, Drop, SignalStop, Join, FlushAndFree,
       ServerPlays, vars
  <2>2. QED
    BY <2>1, DriftUntouched DEF Uncounted, Owed, Rendering, Silencing
<1>quiet. CASE TestStop \/ Silence \/ Commit \/ WriteFails \/ PublishLatency
  <2>1. UNCHANGED <<framesPlayed, period, audible, toggles>>
    BY <1>quiet DEF TestStop, Silence, Commit, WriteFails, PublishLatency
  <2>2. Uncounted' = Uncounted /\ (Owed' => Owed)
    BY <1>quiet DEF TestStop, Silence, Commit, WriteFails, PublishLatency, MayRender,
       Zeroed, Go, Uncounted, Owed, Rendering, Silencing
  <2>3. QED
    BY <2>1, <2>2, DriftUntouched
<1>Callback. CASE Callback
  <2>1. UNCHANGED <<framesPlayed, period, audible, toggles>>
    BY <1>Callback DEF Callback
  <2>2. Uncounted' = Uncounted /\ (Owed' => Owed)
    BY <1>1, <1>Callback DEF Callback, Go, Uncounted, Owed, Rendering, Silencing
  <2>3. QED
    BY <2>1, <2>2, DriftUntouched
<1>WriteOk. CASE WriteOk
  <2>1. UNCHANGED <<framesPlayed, period, toggles, buf, paused>> /\ (Owed' <=> Owed)
    BY <1>WriteOk DEF WriteOk, Go, Owed, Rendering, Silencing
  <2>2. audible' - Uncounted' = audible - Uncounted
    BY <1>1, <1>WriteOk DEF WriteOk, Go, Uncounted
  <2>3. CASE Owed /\ Owed'
    BY <2>1, <2>2, <2>3 DEF IInv, DriftInv
  <2>4. CASE ~Owed /\ ~Owed'
    BY <2>1, <2>2, <2>4 DEF IInv, DriftInv
  <2>5. QED
    BY <2>1, <2>3, <2>4
<1>Count. CASE Count
  <2>1. UNCHANGED <<period, audible, toggles, paused, buf>> /\ wk = "count" /\ wk' = "latency"
    BY <1>Count DEF Count, Go
  <2>2. framesPlayed' = framesPlayed + Credit
    BY <1>Count DEF Count
  <2>3. ~Owed' /\ Uncounted' = 0
    BY <2>1 DEF Owed, Rendering, Silencing, Uncounted
  <2>4. QED
    BY <1>1, <2>1, <2>2, <2>3
    DEF IInv, DriftInv, Credit, Owed, Rendering, Silencing, Uncounted
<1> QED
  BY <1>open, <1>Play, <1>Pause, <1>control, <1>quiet, <1>Callback, <1>WriteOk, <1>Count
  DEF Next, Worker

-----------------------------------------------------------------------------
LEMMA Invariance == Spec => []IInv
<1>1. IInv /\ [Next]_vars => IInv'
  BY StepShape, StepDrift DEF IInv
<1>2. QED
  BY <1>1, InitIInv, PTL DEF Spec

(* Every variable keeps its type.                                          *)
THEOREM TypeCorrect == Spec => []TypeOK
<1>1. IInv => TypeOK
  BY DEF IInv, Shape
<1>2. QED
  BY <1>1, Invariance, PTL

(* The worker only uses a live connection, and every exit frees it once.   *)
THEOREM ConnectionLives == Spec => []ConnectionLifetime
<1>1. IInv => ConnectionLifetime
  BY DEF IInv, Shape, TypeOK, HandleTypeOK, ControlInv, ConnInv, ConnectionLifetime
<1>2. QED
  BY <1>1, Invariance, PTL

(* However often it is paused, no rendered period is lost or played twice. *)
THEOREM PeriodsHeardOnce == Spec => []EachPeriodHeardOnce
<1>1. IInv => EachPeriodHeardOnce
  BY DEF IInv, Shape, HeardInv, EachPeriodHeardOnce
<1>2. QED
  BY <1>1, Invariance, PTL

(* The clock is never further from the periods accepted than one period    *)
(* for each change of the paused flag.                                     *)
THEOREM DriftIsBounded == Spec => []ClockDrift
<1>1. IInv => ClockDrift
  <2> SUFFICES ASSUME IInv, wk = "top" PROVE ClockDrift
    BY DEF ClockDrift
  <2>1. ~Owed /\ Uncounted = 0 /\ toggles \in Nat /\ audible \in Nat
    BY DEF Owed, Rendering, Silencing, Uncounted, IInv, Shape, TypeOK
  <2>2. QED
    BY <2>1 DEF IInv, DriftInv, ClockDrift
<1>2. QED
  BY <1>1, Invariance, PTL

(* The buffer attributes are in range for any rate, channels and hint.     *)
THEOREM AttrIsAccepted == Spec => []AttrAccepted
<1>1. IInv => AttrAccepted
  BY DEF IInv, Shape
<1>2. QED
  BY <1>1, Invariance, PTL

-----------------------------------------------------------------------------
(* The refinement of AudioStream.                                          *)
LEMMA InitRefines == Init => Contract!Init
  BY DEF Init, HandleInit, Contract!Init, Transport, isPlaying

LEMMA StepRefines == IInv /\ [Next]_vars => [Contract!Next]_(Contract!vars)
<1> SUFFICES ASSUME IInv, [Next]_vars PROVE [Contract!Next]_(Contract!vars)
  OBVIOUS
<1> USE DEF IInv, Shape, TypeOK, HandleTypeOK, ControlInv, handleVars, config, worker, server,
            history, Transport, isPlaying, Contract!vars, Contract!Next, Contract!Live
<1>open. ASSUME NEW req \in Requests, OpenOk(req) PROVE Contract!Open
  BY <1>open DEF OpenOk, StreamNew, Contract!Open
<1>fails. CASE ConnectFails \/ SpawnFails
  BY <1>fails DEF ConnectFails, SpawnFails, OpenFailed
<1>play. CASE Play
  BY <1>play DEF Play, PlayOk, SetPaused, Contract!Play
<1>pause. CASE Pause
  BY <1>pause DEF Pause, PauseOk, SetPaused, Contract!Pause
<1>stop. CASE Stop \/ Drop
  BY <1>stop DEF Stop, StopCall, Drop, DropCall
<1>signal. CASE SignalStop \/ Join
  BY <1>signal DEF SignalStop, Join, At
<1>free. CASE FlushAndFree
  BY <1>free DEF FlushAndFree, StopReturned, Contract!Stop
<1>quiet. CASE TestStop \/ Silence \/ WriteOk \/ WriteFails \/ PublishLatency
  BY <1>quiet DEF TestStop, Silence, WriteOk, WriteFails, PublishLatency, LoopOver, Go
<1>commit. CASE Commit
  BY <1>commit DEF Commit, MayRender, Go
<1>call. CASE Callback
  BY <1>call DEF Callback, Go, Contract!Callback
<1>count. CASE Count
  BY <1>count DEF Count, Credit, Go, Contract!Tick
<1>plays. CASE ServerPlays
  BY <1>plays DEF ServerPlays
<1>stutter. CASE UNCHANGED vars
  BY <1>stutter DEF vars
<1> QED
  BY <1>open, <1>fails, <1>play, <1>pause, <1>stop, <1>signal, <1>free, <1>quiet, <1>commit,
     <1>call, <1>count, <1>plays, <1>stutter
  DEF Next, Worker

(* The handle, the worker and the server keep the stream contract: at most *)
(* one callback after a pause, none after stop(), and a clock that never   *)
(* goes back.                                                              *)
THEOREM Refinement == Spec => ImplementsAudioStream
  BY InitRefines, StepRefines, Invariance, PTL
  DEF Spec, ImplementsAudioStream, Contract!Spec
=============================================================================
