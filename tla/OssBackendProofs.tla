------------------------- MODULE OssBackendProofs -------------------------
(***************************************************************************)
(* What OssBackend satisfies for every value of its constants: any hints   *)
(* and granted rates, any device buffer, writes of any length.  As in      *)
(* PulseBackendProofs, the inductive invariant is the shape of the states  *)
(* and a bound on the drift that holds at every position of the worker.    *)
(***************************************************************************)
EXTENDS OssBackend, TLAPS

(* Where the control thread and the worker can be at the same time, and    *)
(* what the flag and the counters are worth there.                         *)
ControlInv ==
  /\ ctl \in {"new", "failed"} <=> wk = "unspawned"
  /\ ctl \in {"close", "drop", "gone"} => wk = "exited"
  /\ stopped <=> ctl \in {"drop", "gone"}
  /\ wk # "unspawned" => playing = ~paused
  /\ wk = "unspawned" => audible = 0 /\ framesPlayed = 0 /\ taken = 0 /\ ~paused

(* Who has the descriptor, and how often it has been closed by then.       *)
FdInv ==
  /\ ctl = "new" => fd = "none"
  /\ ctl = "failed" => fd # "open"
  /\ ctl \in {"drop", "gone"} => fd = "closed"
  /\ ctl \notin {"new", "failed", "drop", "gone"} => fd = "open"
  /\ closes = IF fd = "closed" THEN 1 ELSE 0

Shape == TypeOK /\ ControlInv /\ FdInv

(* The worker has committed to count what it writes (the flag was down     *)
(* when it looked), or not to count it (the flag was up).                  *)
Rendering == wk = "render" \/ (wk \in {"write", "count"} /\ sounding)
Silencing == wk \in {"write", "count"} /\ ~sounding

(* The flag has been changed since, so that Count will do the opposite:    *)
(* one of the toggles is still to be paid for.                             *)
Owed == (Rendering /\ paused) \/ (Silencing /\ ~paused)

(* rendered and taken by the device, but not yet due to be counted *)
Uncounted == IF wk = "count" /\ sounding THEN taken ELSE 0

Drift == framesPlayed - (audible - Uncounted)

DriftInv ==
  LET paid == toggles - (IF Owed THEN 1 ELSE 0)
  IN  -(period * paid) <= Drift /\ Drift <= period * paid

IInv == Shape /\ DriftInv

-----------------------------------------------------------------------------
(* The rate divided by 50, or the hint, is never below the floor.          *)
LEMMA PeriodIsNat ==
  ASSUME NEW hint \in Hints, NEW rate \in Granted, rate > 0
  PROVE  WorkerPeriod(hint, rate) \in Nat
<1>1. rate \in Nat /\ rate \div 50 \in Nat
  BY OssAssumption
<1>2. QED
  BY <1>1, OssAssumption DEF WorkerPeriod, AtLeast

(* one toggle fewer is one period less *)
LEMMA Distributes ==
  ASSUME NEW p \in Nat, NEW x \in Int
  PROVE  /\ p * (x - 1) = p * x - p /\ p * (x + 1) = p * x + p
         /\ p * x \in Int /\ p * (x - 0) = p * x
  OBVIOUS

(* nothing counted is within any bound *)
LEMMA NoDrift ==
  ASSUME NEW p \in Nat, NEW x \in Nat
  PROVE  -(p * (x - 0)) <= 0 /\ 0 <= p * (x - 0)
<1>1. p * x \in Nat
  OBVIOUS
<1>2. QED
  BY <1>1

LEMMA InitIInv == Init => IInv
<1> SUFFICES ASSUME Init PROVE IInv
  OBVIOUS
<1> USE OssAssumption DEF Init, HandleInit
<1>1. TypeOK
  <2>1. HandleTypeOK({"signal", "join", "close"})
    BY DEF HandleTypeOK
  <2>2. paused \in BOOLEAN /\ stop \in BOOLEAN /\ sounding \in BOOLEAN
    BY Zenon
  <2>3. QED
    BY <2>1, <2>2 DEF TypeOK
<1>2. ControlInv /\ FdInv
  BY DEF ControlInv, FdInv
<1>3. DriftInv
  BY DEF DriftInv, Drift, Owed, Rendering, Silencing, Uncounted
<1>4. QED
  BY <1>1, <1>2, <1>3 DEF IInv, Shape

-----------------------------------------------------------------------------
(* Every step keeps the shape: one step of the proof per action.           *)
LEMMA StepShape == IInv /\ [Next]_vars => Shape'
<1> SUFFICES ASSUME IInv, [Next]_vars PROVE Shape'
  OBVIOUS
<1> USE OssAssumption
    DEF IInv, Shape, TypeOK, HandleTypeOK, ControlInv, FdInv, handleVars, worker, device,
        history
<1>open. ASSUME NEW hint \in Hints, NEW rate \in Granted, OpenOk(hint, rate) PROVE Shape'
  <2>1. period' \in Nat
    BY <1>open, PeriodIsNat DEF OpenOk
  <2>2. wk = "unspawned" /\ closes = 0
    BY <1>open DEF OpenOk
  <2>3. taken' \in 0..period'
    BY <1>open, <2>1, <2>2 DEF OpenOk
  <2>4. playing' = ~paused' /\ playing' \in BOOLEAN
    BY <1>open, <2>2 DEF OpenOk, StreamNew
  <2>5. QED
    BY <1>open, <2>1, <2>2, <2>3, <2>4 DEF OpenOk, StreamNew
<1>OpenRefused. CASE OpenRefused
  BY <1>OpenRefused DEF OpenRefused, OpenFailed
<1>ConfigureFails. CASE ConfigureFails
  BY <1>ConfigureFails DEF ConfigureFails, OpenFailed
<1>Play. CASE Play
  <2>1. paused' = FALSE /\ paused' \in BOOLEAN /\ playing' = TRUE /\ playing' \in BOOLEAN
    BY <1>Play, Zenon DEF Play, PlayOk, SetPaused
  <2>2. playing' = ~paused'
    BY <2>1, Zenon
  <2>3. QED
    BY <1>Play, <2>1, <2>2 DEF Play, PlayOk, SetPaused
<1>Pause. CASE Pause
  <2>1. paused' = TRUE /\ paused' \in BOOLEAN /\ playing' = FALSE /\ playing' \in BOOLEAN
    BY <1>Pause, Zenon DEF Pause, PauseOk, SetPaused
  <2>2. playing' = ~paused'
    BY <2>1, Zenon
  <2>3. QED
    BY <1>Pause, <2>1, <2>2 DEF Pause, PauseOk, SetPaused
<1>Stop. CASE Stop
  BY <1>Stop DEF Stop, StopCall
<1>Drop. CASE Drop
  BY <1>Drop DEF Drop, DropCall
<1>SignalStop. CASE SignalStop
  BY <1>SignalStop DEF SignalStop, At
<1>Join. CASE Join
  BY <1>Join DEF Join, Joined, At
<1>ResetAndClose. CASE ResetAndClose
  BY <1>ResetAndClose DEF ResetAndClose, StopReturned
<1>TestStop. CASE TestStop
  BY <1>TestStop DEF TestStop, LoopOver, Go
<1>Silence. CASE Silence
  <2>1. sounding' \in BOOLEAN
    BY <1>Silence, Zenon DEF Silence
  <2>2. QED
    BY <1>Silence, <2>1 DEF Silence, Go
<1>Commit. CASE Commit
  BY <1>Commit DEF Commit, MayRender, Go
<1>Callback. CASE Callback
  <2>1. sounding' \in BOOLEAN
    BY <1>Callback, Zenon DEF Callback
  <2>2. QED
    BY <1>Callback, <2>1 DEF Callback, Go
<1>Write. CASE Write
  <2>1. PICK n \in 1..period : /\ queued + n <= DeviceCap /\ taken' = n
                               /\ queued' = queued + n
                               /\ audible' = IF sounding THEN audible + n ELSE audible
    BY <1>Write DEF Write
  <2>2. QED
    BY <1>Write, <2>1 DEF Write, Go
<1>WriteFails. CASE WriteFails
  BY <1>WriteFails DEF WriteFails, Go
<1>Count. CASE Count
  BY <1>Count DEF Count, Credit, Go
<1>DevicePlays. CASE DevicePlays
  BY <1>DevicePlays DEF DevicePlays
<1>stutter. CASE UNCHANGED vars
  BY <1>stutter DEF vars
<1> QED
  BY <1>open, <1>OpenRefused, <1>ConfigureFails, <1>Play, <1>Pause, <1>Stop, <1>Drop,
     <1>SignalStop, <1>Join, <1>ResetAndClose, <1>TestStop, <1>Silence, <1>Commit,
     <1>Callback, <1>Write, <1>WriteFails, <1>Count, <1>DevicePlays, <1>stutter
  DEF Next, Worker

-----------------------------------------------------------------------------
(* What leaves the drift alone keeps its bound, as long as it incurs no    *)
(* new debt.                                                               *)
LEMMA DriftUntouched ==
  ASSUME IInv, UNCHANGED <<period, toggles>>, Drift' = Drift, Owed' => Owed
  PROVE  DriftInv'
<1>1. /\ framesPlayed \in Nat /\ period \in Nat /\ audible \in Nat /\ toggles \in Nat
      /\ taken \in Nat
  BY DEF IInv, Shape, TypeOK
<1>2. Drift \in Int
  BY <1>1 DEF Drift, Uncounted
<1>3. CASE Owed /\ Owed'
  BY <1>3 DEF IInv, DriftInv
<1>4. CASE ~Owed /\ ~Owed'
  BY <1>4 DEF IInv, DriftInv
<1>5. CASE Owed /\ ~Owed'
  <2>1. -(period * (toggles - 1)) <= Drift /\ Drift <= period * (toggles - 1)
    BY <1>5 DEF IInv, DriftInv
  <2>2. /\ period * (toggles - 1) = period * toggles - period
        /\ period * toggles \in Int /\ period * (toggles - 0) = period * toggles
    BY <1>1, Distributes
  <2>3. -(period * (toggles - 0)) <= Drift /\ Drift <= period * (toggles - 0)
    BY <1>1, <1>2, <2>1, <2>2
  <2>4. QED
    BY <1>5, <2>3 DEF DriftInv
<1>6. QED
  BY <1>3, <1>4, <1>5

(* A change of the flag is one toggle more, which is owed if the worker    *)
(* has already acted on the old value, and which pays for what was owed if *)
(* it has returned to it.                                                  *)
LEMMA ToggleKeepsDrift ==
  ASSUME IInv, NEW value \in BOOLEAN, SetPaused(value)
  PROVE  DriftInv'
<1>1. /\ framesPlayed \in Nat /\ period \in Nat /\ audible \in Nat /\ toggles \in Nat
      /\ paused \in BOOLEAN /\ paused' = value
  BY DEF IInv, Shape, TypeOK, SetPaused
<1>2. UNCHANGED <<framesPlayed, period, audible, wk, sounding, taken>>
  BY DEF SetPaused, worker
<1>3. CASE paused' = paused
  <2>1. toggles' = toggles
    BY <1>3 DEF SetPaused
  <2>2. QED
    BY <1>2, <1>3, <2>1, DriftUntouched DEF Drift, Uncounted, Owed, Rendering, Silencing
<1>4. CASE paused' # paused
  <2>1. toggles' = toggles + 1
    BY <1>4 DEF SetPaused
  <2>2. Drift' = Drift
    BY <1>2 DEF Drift, Uncounted
  <2>3. QED
    BY <1>1, <1>2, <2>1, <2>2
    DEF IInv, Shape, TypeOK, DriftInv, Drift, Owed, Rendering, Silencing, Uncounted
<1>5. QED
  BY <1>3, <1>4

LEMMA StepDrift == IInv /\ [Next]_vars => DriftInv'
<1> SUFFICES ASSUME IInv, [Next]_vars PROVE DriftInv'
  OBVIOUS
<1> USE DEF handleVars, worker, device, history
<1>1. /\ framesPlayed \in Nat /\ period \in Nat /\ audible \in Nat /\ toggles \in Nat
      /\ taken \in 0..period /\ sounding \in BOOLEAN
  BY DEF IInv, Shape, TypeOK
<1>open. ASSUME NEW hint \in Hints, NEW rate \in Granted, OpenOk(hint, rate) PROVE DriftInv'
  <2>1. framesPlayed' = 0 /\ audible' = 0 /\ toggles' = toggles /\ wk' = "top"
    BY <1>open DEF OpenOk, IInv, Shape, ControlInv
  <2>2. period' \in Nat
    BY <1>open, PeriodIsNat DEF OpenOk
  <2>3. ~Owed' /\ Drift' = 0
    BY <2>1 DEF Owed, Rendering, Silencing, Uncounted, Drift
  <2>4. QED
    BY <1>1, <2>1, <2>2, <2>3, NoDrift, Zenon DEF DriftInv
<1>Play. CASE Play
  BY <1>Play, ToggleKeepsDrift DEF Play
<1>Pause. CASE Pause
  BY <1>Pause, ToggleKeepsDrift DEF Pause
<1>control. CASE \/ OpenRefused \/ ConfigureFails \/ Stop \/ Drop \/ SignalStop \/ Join
                 \/ ResetAndClose \/ DevicePlays \/ UNCHANGED vars
  <2>1. UNCHANGED <<framesPlayed, period, audible, toggles, wk, sounding, taken, paused>>
    BY <1>control DEF OpenRefused, ConfigureFails, Stop, Drop, SignalStop, Join,
       ResetAndClose, DevicePlays, vars
  <2>2. QED
    BY <2>1, DriftUntouched DEF Drift, Uncounted, Owed, Rendering, Silencing
<1>quiet. CASE TestStop \/ Silence \/ Commit \/ Callback \/ WriteFails
  <2>1. UNCHANGED <<framesPlayed, period, audible, toggles, taken>>
    BY <1>quiet DEF TestStop, Silence, Commit, Callback, WriteFails
  <2>2. Drift' = Drift
    BY <1>quiet, <2>1 DEF TestStop, Silence, Commit, Callback, WriteFails, Go, Drift, Uncounted
  <2>3. Owed' => Owed
    BY <1>quiet DEF TestStop, Silence, Commit, Callback, WriteFails, MayRender, Go, Owed,
       Rendering, Silencing
  <2>4. QED
    BY <2>1, <2>2, <2>3, DriftUntouched
<1>Write. CASE Write
  <2>1. UNCHANGED <<framesPlayed, period, toggles, sounding, paused>> /\ (Owed' => Owed)
    BY <1>Write DEF Write, Go, Owed, Rendering, Silencing
  <2>2. PICK n \in 1..period : /\ taken' = n
                               /\ audible' = IF sounding THEN audible + n ELSE audible
    BY <1>Write DEF Write
  <2>3. wk = "write" /\ wk' = "count"
    BY <1>Write DEF Write, Go
  <2>4. Drift' = Drift
    BY <1>1, <2>1, <2>2, <2>3 DEF Drift, Uncounted
  <2>5. QED
    BY <2>1, <2>4, DriftUntouched
<1>Count. CASE Count
  <2>1. UNCHANGED <<period, audible, toggles, paused, sounding, taken>>
        /\ wk = "count" /\ wk' = "top"
    BY <1>Count DEF Count, Go
  <2>2. framesPlayed' = framesPlayed + Credit
    BY <1>Count DEF Count
  <2>3. ~Owed' /\ Drift' = framesPlayed + Credit - audible
    BY <1>1, <2>1, <2>2 DEF Owed, Rendering, Silencing, Drift, Uncounted, Credit
  <2>4. /\ period * (toggles - 1) = period * toggles - period
        /\ period * toggles \in Int /\ period * (toggles - 0) = period * toggles
    BY <1>1, Distributes
  <2>5. QED
    BY <1>1, <2>1, <2>3, <2>4
    DEF IInv, DriftInv, Drift, Credit, Owed, Rendering, Silencing, Uncounted
<1> QED
  BY <1>open, <1>Play, <1>Pause, <1>control, <1>quiet, <1>Write, <1>Count
  DEF Next, Worker

-----------------------------------------------------------------------------
LEMMA Invariance == Spec => []IInv
<1>1. IInv /\ [Next]_vars => IInv'
  BY StepShape, StepDrift DEF IInv
<1>2. QED
  BY <1>1, InitIInv, PTL DEF Spec

(* Every variable keeps its type; a write never takes more than a period.  *)
THEOREM TypeCorrect == Spec => []TypeOK
<1>1. IInv => TypeOK
  BY DEF IInv, Shape
<1>2. QED
  BY <1>1, Invariance, PTL

(* The worker only writes to an open descriptor, and every exit closes it  *)
(* once.                                                                   *)
THEOREM FdLives == Spec => []FdLifetime
<1>1. IInv => FdLifetime
  BY DEF IInv, Shape, TypeOK, HandleTypeOK, ControlInv, FdInv, FdLifetime
<1>2. QED
  BY <1>1, Invariance, PTL

(* Short writes included, the clock is never further from the frames taken *)
(* than one period for each change of the paused flag.                     *)
THEOREM DriftIsBounded == Spec => []ClockDrift
<1>1. IInv => ClockDrift
  <2> SUFFICES ASSUME IInv, wk = "top" PROVE ClockDrift
    BY DEF ClockDrift
  <2>1. /\ ~Owed /\ Drift = framesPlayed - audible
        /\ toggles \in Nat /\ audible \in Nat /\ framesPlayed \in Nat
    BY DEF Owed, Rendering, Silencing, Drift, Uncounted, IInv, Shape, TypeOK
  <2>2. QED
    BY <2>1 DEF IInv, DriftInv, ClockDrift
<1>2. QED
  BY <1>1, Invariance, PTL

-----------------------------------------------------------------------------
(* The refinement of AudioStream.                                          *)
LEMMA InitRefines == Init => Contract!Init
  BY DEF Init, HandleInit, Contract!Init, Transport, isPlaying

LEMMA StepRefines == IInv /\ [Next]_vars => [Contract!Next]_(Contract!vars)
<1> SUFFICES ASSUME IInv, [Next]_vars PROVE [Contract!Next]_(Contract!vars)
  OBVIOUS
<1> USE DEF IInv, Shape, TypeOK, HandleTypeOK, ControlInv, handleVars, worker, device,
            history, Transport, isPlaying, Contract!vars, Contract!Next, Contract!Live
<1>open. ASSUME NEW hint \in Hints, NEW rate \in Granted, OpenOk(hint, rate)
         PROVE  Contract!Open
  BY <1>open DEF OpenOk, StreamNew, Contract!Open
<1>fails. CASE OpenRefused \/ ConfigureFails
  BY <1>fails DEF OpenRefused, ConfigureFails, OpenFailed
<1>play. CASE Play
  BY <1>play DEF Play, PlayOk, SetPaused, Contract!Play
<1>pause. CASE Pause
  BY <1>pause DEF Pause, PauseOk, SetPaused, Contract!Pause
<1>stop. CASE Stop \/ Drop
  BY <1>stop DEF Stop, StopCall, Drop, DropCall
<1>signal. CASE SignalStop \/ Join
  BY <1>signal DEF SignalStop, Join, At
<1>close. CASE ResetAndClose
  BY <1>close DEF ResetAndClose, StopReturned, Contract!Stop
<1>quiet. CASE TestStop \/ Silence \/ Write \/ WriteFails
  BY <1>quiet DEF TestStop, Silence, Write, WriteFails, LoopOver, Go
<1>commit. CASE Commit
  BY <1>commit DEF Commit, MayRender, Go
<1>call. CASE Callback
  BY <1>call DEF Callback, Go, Contract!Callback
<1>count. CASE Count
  BY <1>count DEF Count, Credit, Go, Contract!Tick
<1>plays. CASE DevicePlays
  BY <1>plays DEF DevicePlays
<1>stutter. CASE UNCHANGED vars
  BY <1>stutter DEF vars
<1> QED
  BY <1>open, <1>fails, <1>play, <1>pause, <1>stop, <1>signal, <1>close, <1>quiet, <1>commit,
     <1>call, <1>count, <1>plays, <1>stutter
  DEF Next, Worker

(* The handle, the worker and the device keep the stream contract: at most *)
(* one callback after a pause, none after stop(), and a clock that never   *)
(* goes back.                                                              *)
THEOREM Refinement == Spec => ImplementsAudioStream
  BY InitRefines, StepRefines, Invariance, PTL
  DEF Spec, ImplementsAudioStream, Contract!Spec
=============================================================================
