-------------------------- MODULE MockBackendProofs --------------------------
(***************************************************************************)
(* What MockBackend satisfies for every value of its constants: the        *)
(* invariant IInv is inductive, it implies the clock, sink and shutdown    *)
(* properties the runs check, and under it every step is a step of         *)
(* AudioStream or a stutter.                                               *)
(***************************************************************************)
EXTENDS MockBackend, SequenceTheorems, FiniteSetTheorems, TLAPS

(* What push_captured takes of a chunk is a sequence of samples that still *)
(* fits below the cap.                                                     *)
LEMMA CappedFits ==
  ASSUME NEW chunk \in Seq(Sample), TypeOK, SinkBounded
  PROVE  /\ Capped(chunk) \in Seq(Sample)
         /\ Len(Capped(chunk)) <= CaptureCap - Len(sink)
         /\ Len(Capped(chunk)) <= Len(chunk)
         /\ Len(Capped(chunk)) < Len(chunk) => Len(sink) + Len(Capped(chunk)) = CaptureCap
         /\ \A i \in 1..Len(Capped(chunk)) : Capped(chunk)[i] = chunk[i]
<1> DEFINE room == IF Len(sink) > CaptureCap THEN 0 ELSE CaptureCap - Len(sink)
           take == IF room < Len(chunk) THEN room ELSE Len(chunk)
<1>1. /\ Len(sink) \in Nat /\ Len(chunk) \in Nat /\ CaptureCap \in Nat
      /\ Len(sink) <= CaptureCap
  BY MockAssumption DEF TypeOK, SinkBounded
<1>2. /\ take \in Nat /\ take <= CaptureCap - Len(sink) /\ take <= Len(chunk)
      /\ take < Len(chunk) => Len(sink) + take = CaptureCap
  BY <1>1
<1>3. \A i \in 1..take : chunk[i] \in Sample
  BY <1>1, <1>2, ElementOfSeq
<1> HIDE DEF take
<1>4. /\ SubSeq(chunk, 1, take) \in Seq(Sample)
      /\ Len(SubSeq(chunk, 1, take)) = IF 1 <= take THEN take - 1 + 1 ELSE 0
      /\ \A i \in 1..(take - 1 + 1) : SubSeq(chunk, 1, take)[i] = chunk[1 + i - 1]
  BY <1>2, <1>3, SubSeqProperties
<1>5. Len(SubSeq(chunk, 1, take)) = take
  BY <1>2, <1>4
<1>6. Capped(chunk) = SubSeq(chunk, 1, take)
  BY DEF Capped, take
<1>7. \A i \in 1..take : SubSeq(chunk, 1, take)[i] = chunk[i]
  BY <1>2, <1>4
<1>8. QED
  BY <1>2, <1>4, <1>5, <1>6, <1>7

(* A push keeps the sink a sequence of samples within its cap.             *)
LEMMA ExtendKeepsSink ==
  ASSUME NEW chunk \in Seq(Sample), TypeOK, SinkBounded, Extend(chunk)
  PROVE  sink' \in Seq(Sample) /\ Len(sink') <= CaptureCap /\ truncated' \in BOOLEAN
<1>1. /\ Capped(chunk) \in Seq(Sample)
      /\ Len(Capped(chunk)) <= CaptureCap - Len(sink)
  BY CappedFits
<1>2. sink \in Seq(Sample) /\ sink' = sink \o Capped(chunk)
  BY DEF TypeOK, Extend
<1>3. sink' \in Seq(Sample) /\ Len(sink') = Len(sink) + Len(Capped(chunk))
  BY <1>1, <1>2, ConcatProperties
<1>4. Len(sink) \in Nat /\ Len(Capped(chunk)) \in Nat /\ CaptureCap \in Nat
  BY <1>1, <1>2, LenProperties, MockAssumption
<1>5. truncated' \in BOOLEAN
  BY DEF Extend, TypeOK
<1>6. QED
  BY <1>1, <1>3, <1>4, <1>5

(* The period of an accepted request is a positive number of frames.       *)
LEMMA PeriodPositive ==
  ASSUME NEW req \in Requests, Valid(req)
  PROVE  PeriodFrames(req) \in Nat /\ PeriodFrames(req) > 0
<1>1. req.rate \in Nat /\ req.buffer \in Nat \cup {None}
  BY MockAssumption
<1>2. req.rate \div 50 \in Nat
  BY <1>1
<1>3. QED
  BY <1>1, <1>2 DEF PeriodFrames

LEMMA ClampIsNat ==
  ASSUME NEW v \in VolumeArgs
  PROVE  Clamp(v) \in Nat
  BY VolumeAssumption DEF Clamp

-----------------------------------------------------------------------------
LEMMA InitIInv == Init => IInv
<1> SUFFICES ASSUME Init PROVE IInv
  OBVIOUS
<1>1. sink \in Seq(Sample) /\ Len(sink) <= CaptureCap
  BY EmptySeq, MockAssumption DEF Init
<1>2. HandleTypeOK(Positions) /\ RenderTypeOK
  BY DEF Init, HandleInit, RenderInit, HandleTypeOK, RenderTypeOK, Unity, Silence
<1>3. TypeOK
  BY <1>1, <1>2 DEF Init, TypeOK
<1>4. ControlInv
  BY DEF Init, HandleInit, ControlInv
<1>5. ClockInv
  BY DEF Init, RenderInit, ClockInv, InFlight
<1>6. SleepInv
  BY DEF Init, SleepInv
<1>7. QED
  BY <1>1, <1>3, <1>4, <1>5, <1>6 DEF IInv, SinkBounded

(* Every step keeps the invariant: one step of the proof per action.       *)
LEMMA StepIInv == IInv /\ [Next]_vars => IInv'
<1> SUFFICES ASSUME IInv, [Next]_vars PROVE IInv'
  OBVIOUS
<1> USE MockAssumption
    DEF IInv, TypeOK, HandleTypeOK, RenderTypeOK, Positions, ControlInv, ClockInv, SleepInv,
        SinkBounded, InFlight, handleVars, renderVars, flags, setup, workerVars, sinkVars,
        history
<1>open. ASSUME NEW req \in Requests, OpenOk(req) PROVE IInv'
  <2>1. Valid(req)
    BY <1>open DEF OpenOk
  <2>2. period' \in Nat /\ period' > 0
    BY <1>open, <2>1, PeriodPositive DEF OpenOk
  <2>3. ctl = "new" /\ wk = "unspawned" /\ calls = 0 /\ rpos = "out"
    BY <1>open DEF OpenOk
  <2>4. framesPlayed' = period' * calls'
    BY <1>open, <2>2, <2>3 DEF OpenOk
  <2>5. QED
    BY <1>open, <2>2, <2>3, <2>4 DEF OpenOk, StreamNew
<1>volume. ASSUME NEW v \in VolumeArgs, ChangeVolume(v) PROVE IInv'
  <2>1. volume' \in Nat /\ inForce' \in SUBSET Nat
    BY <1>volume, ClampIsNat DEF ChangeVolume, SetVolume
  <2>2. QED
    BY <1>volume, <2>1 DEF ChangeVolume, SetVolume
<1>OpenFails. CASE OpenFails
  BY <1>OpenFails DEF OpenFails, OpenFailed
<1>Play. CASE Play
  BY <1>Play DEF Play, PlayOk
<1>Pause. CASE Pause
  <2>1. run' = FALSE /\ run' \in BOOLEAN
    BY <1>Pause, Zenon DEF Pause
  <2>2. playing' \in BOOLEAN
    BY <1>Pause, Zenon DEF Pause, PauseOk
  <2>3. QED
    BY <1>Pause, <2>1, <2>2 DEF Pause, PauseOk
<1>Stop. CASE Stop
  BY <1>Stop DEF Stop, StopCall
<1>Drop. CASE Drop
  BY <1>Drop DEF Drop, DropCall
<1>SignalShutdown. CASE SignalShutdown
  BY <1>SignalShutdown DEF SignalShutdown, At
<1>ClearPlaying. CASE ClearPlaying
  <2>1. run' = FALSE /\ run' \in BOOLEAN
    BY <1>ClearPlaying, Zenon DEF ClearPlaying
  <2>2. QED
    BY <1>ClearPlaying, <2>1 DEF ClearPlaying, At
<1>JoinWorker. CASE JoinWorker
  BY <1>JoinWorker DEF JoinWorker, Joined, StopReturned
<1>TestShutdown. CASE TestShutdown
  BY <1>TestShutdown DEF TestShutdown, LoopOver, Go
<1>TestPlaying. CASE TestPlaying
  BY <1>TestPlaying DEF TestPlaying, Go
<1>CallCallback. CASE CallCallback
  <2>1. inForce' \in SUBSET Nat /\ out' \in Nat
    BY <1>CallCallback DEF CallCallback, CallClosure, Silence
  <2>2. framesPlayed' = period' * (calls' - 1) /\ calls' \in Nat /\ calls' > 0
    BY <1>CallCallback DEF CallCallback, CallClosure
  <2>3. QED
    BY <1>CallCallback, <2>1, <2>2 DEF CallCallback, CallClosure
<1>CallbackReturns. CASE CallbackReturns
  BY <1>CallbackReturns DEF CallbackReturns, Captures, Go, ClosureReturns
<1>AdvanceClock. CASE AdvanceClock
  BY <1>AdvanceClock DEF AdvanceClock, Credit, Go
<1>TestSleep. CASE TestSleep
  BY <1>TestSleep DEF TestSleep, SleepOver, Go
<1>SleepSlice. CASE SleepSlice
  BY <1>SleepSlice DEF SleepSlice, Go
<1>Drain. CASE Drain
  <2>1. sink' \in Seq(Sample) /\ Len(sink') = 0
    BY <1>Drain, EmptySeq DEF Drain
  <2>2. drainedAt' \in Nat
    BY <1>Drain DEF Drain, Delivered
  <2>3. truncated' \in BOOLEAN
    BY <1>Drain, Zenon DEF Drain
  <2>4. QED
    BY <1>Drain, <2>1, <2>2, <2>3 DEF Drain
<1>closure. CASE RunClosure
  <2>1. CASE SkipPoisoned
    BY <1>closure, <2>1 DEF RunClosure, SkipPoisoned, Silence
  <2>2. CASE EnterUser
    BY <1>closure, <2>2 DEF RunClosure, EnterUser, Silence, UserSample
  <2>3. CASE UserReturns
    BY <1>closure, <2>3 DEF RunClosure, UserReturns, UserSample
  <2>4. CASE UserPanics
    BY <1>closure, <2>4 DEF RunClosure, UserPanics, AfterPanic, Silence
  <2>5. CASE ApplyGain
    <3>1. out' \in Nat
      BY <2>5 DEF ApplyGain, Loaded, Unity
    <3>2. QED
      BY <1>closure, <2>5, <3>1 DEF RunClosure, ApplyGain
  <2>6. QED
    BY <1>closure, <2>1, <2>2, <2>3, <2>4, <2>5 DEF RunClosure, RenderStep
<1>push. CASE PushCaptured
  <2> DEFINE chunk == [i \in 1..period |-> [stream |-> "this", no |-> calls, amp |-> out]]
  <2>1. chunk \in Seq(Sample)
    BY DEF Sample
  <2>2. Extend(chunk)
    BY <1>push DEF PushCaptured
  <2> HIDE DEF chunk
  <2>3. sink' \in Seq(Sample) /\ Len(sink') <= CaptureCap /\ truncated' \in BOOLEAN
    BY <2>1, <2>2, ExtendKeepsSink
  <2>4. wk = "push" /\ wk' = "tick" /\ drainedAt' = drainedAt
    BY <1>push, <2>2 DEF PushCaptured, Extend, Go
  <2>5. /\ UNCHANGED <<handleVars, renderVars, flags, setup, framesPlayed, info, remaining>>
        /\ UNCHANGED <<foreign, history>>
    BY <1>push DEF PushCaptured
  <2>6. TypeOK' /\ SinkBounded'
    BY <2>3, <2>4, <2>5
  <2>7. QED
    BY <2>4, <2>5, <2>6
<1>foreign. CASE ForeignPush
  <2> DEFINE chunk == <<[stream |-> "other", no |-> 0, amp |-> 0]>>
  <2>1. chunk \in Seq(Sample)
    BY DEF Sample
  <2>2. Extend(chunk)
    BY <1>foreign DEF ForeignPush
  <2> HIDE DEF chunk
  <2>3. sink' \in Seq(Sample) /\ Len(sink') <= CaptureCap /\ truncated' \in BOOLEAN
    BY <2>1, <2>2, ExtendKeepsSink
  <2>4. QED
    BY <1>foreign, <2>3 DEF ForeignPush, Extend
<1>stutter. CASE UNCHANGED vars
  BY <1>stutter DEF vars
<1> QED
  BY <1>open, <1>volume, <1>closure, <1>push, <1>foreign, <1>stutter,
     <1>OpenFails, <1>Play, <1>Pause, <1>Stop, <1>Drop,
     <1>SignalShutdown, <1>ClearPlaying, <1>JoinWorker, <1>TestShutdown, <1>TestPlaying,
     <1>CallCallback, <1>CallbackReturns, <1>AdvanceClock, <1>TestSleep, <1>SleepSlice,
     <1>Drain
  DEF Next, Control, Worker

-----------------------------------------------------------------------------
LEMMA Invariance == Spec => []IInv
  BY InitIInv, StepIInv, PTL DEF Spec

(* Every variable keeps its type, with any requests, cap and bounds.       *)
THEOREM TypeCorrect == Spec => []TypeOK
<1>1. IInv => TypeOK
  BY DEF IInv
<1>2. QED
  BY <1>1, Invariance, PTL

(* The n-th callback is told of exactly n - 1 non-empty periods, whatever  *)
(* the transport did in between.                                           *)
THEOREM ClockIsExact == Spec => []ClockExact
<1>1. IInv => ClockExact
  <2> SUFFICES ASSUME IInv, rpos # "out" PROVE period > 0 /\ info = period * (calls - 1)
    BY DEF ClockExact
  <2>1. wk = "render"
    BY DEF IInv, ClockInv
  <2>2. QED
    BY <2>1 DEF IInv, ClockInv, InFlight
<1>2. QED
  BY <1>1, Invariance, PTL

(* The capture sink stays within its cap, however many streams push.       *)
THEOREM SinkStaysBounded == Spec => []SinkBounded
<1>1. IInv => SinkBounded
  BY DEF IInv
<1>2. QED
  BY <1>1, Invariance, PTL

(* A stop never waits for more than the slice being slept, however long    *)
(* the period.                                                             *)
THEOREM StopIsPrompt == Spec => []PromptStop
<1>1. IInv => PromptStop
  BY DEF IInv, SleepInv, PromptStop
<1>2. QED
  BY <1>1, Invariance, PTL

(* Once the callback has panicked it is never entered again.               *)
THEOREM PoisonedNeverReentered == Spec => NeverReentered
<1>1. [Next]_vars => [poisoned => entered' = entered]_renderVars
  <2> SUFFICES ASSUME [Next]_vars, poisoned PROVE entered' = entered
    BY DEF renderVars
  <2>1. CASE UNCHANGED vars
    BY <2>1 DEF vars, renderVars
  <2>2. CASE Control
    BY <2>2 DEF Control, OpenOk, OpenFails, Play, Pause, Stop, Drop, ChangeVolume,
       SetVolume, SignalShutdown, ClearPlaying, JoinWorker, renderVars
  <2>3. CASE Worker
    BY <2>3 DEF Worker, TestShutdown, TestPlaying, CallCallback, CallClosure, RunClosure,
       RenderStep, SkipPoisoned, EnterUser, UserReturns, UserPanics, ApplyGain,
       CallbackReturns, ClosureReturns, PushCaptured, AdvanceClock, TestSleep, SleepSlice,
       renderVars
  <2>4. CASE ForeignPush \/ Drain
    BY <2>4 DEF ForeignPush, Drain, renderVars
  <2>5. QED
    BY <2>1, <2>2, <2>3, <2>4 DEF Next
<1>2. QED
  BY <1>1, PTL DEF Spec, NeverReentered

-----------------------------------------------------------------------------
(* The refinement of AudioStream.                                          *)
LEMMA InitRefines == Init => Contract!Init
  BY DEF Init, HandleInit, RenderInit, Contract!Init, Transport, isPlaying

LEMMA StepRefines == IInv /\ [Next]_vars => [Contract!Next]_(Contract!vars)
<1> SUFFICES ASSUME IInv, [Next]_vars PROVE [Contract!Next]_(Contract!vars)
  OBVIOUS
<1> USE DEF IInv, TypeOK, HandleTypeOK, RenderTypeOK, Positions, ControlInv, ClockInv,
            InFlight, handleVars, renderVars, flags, setup, workerVars, sinkVars, history,
            Transport, isPlaying, Contract!vars, Contract!Next, Contract!Live
<1>open. ASSUME NEW req \in Requests, OpenOk(req) PROVE Contract!Open
  BY <1>open DEF OpenOk, StreamNew, Contract!Open
<1>volume. ASSUME NEW v \in VolumeArgs, ChangeVolume(v) PROVE UNCHANGED Contract!vars
  BY <1>volume DEF ChangeVolume, SetVolume
<1>fails. CASE OpenFails
  BY <1>fails DEF OpenFails, OpenFailed
<1>play. CASE Play
  BY <1>play DEF Play, PlayOk, Contract!Play
<1>pause. CASE Pause
  BY <1>pause DEF Pause, PauseOk, Contract!Pause
<1>stop. CASE Stop
  BY <1>stop DEF Stop, StopCall
<1>drop. CASE Drop
  BY <1>drop DEF Drop, DropCall
<1>signal. CASE SignalShutdown
  BY <1>signal DEF SignalShutdown, At
<1>clear. CASE ClearPlaying
  BY <1>clear DEF ClearPlaying, At
<1>join. CASE JoinWorker
  BY <1>join DEF JoinWorker, Joined, StopReturned, Contract!Stop
<1>top. CASE TestShutdown
  BY <1>top DEF TestShutdown, LoopOver, Go
<1>sleep. CASE TestSleep
  BY <1>sleep DEF TestSleep, SleepOver, Go
<1>slice. CASE SleepSlice
  BY <1>slice DEF SleepSlice, Go
<1>commit. CASE TestPlaying
  BY <1>commit DEF TestPlaying, Go
<1>call. CASE CallCallback
  BY <1>call DEF CallCallback, CallClosure, Contract!Callback
<1>closure. CASE RunClosure
  BY <1>closure DEF RunClosure, RenderStep, SkipPoisoned, EnterUser, UserReturns,
     UserPanics, ApplyGain
<1>return. CASE CallbackReturns
  BY <1>return DEF CallbackReturns, Captures, Go, ClosureReturns
<1>tick. CASE AdvanceClock
  <2>1. /\ wk = "tick" /\ wk' = "sleep" /\ framesPlayed' = framesPlayed + period
        /\ UNCHANGED <<handleVars, renderVars, flags, setup, history>>
    BY <1>tick DEF AdvanceClock, Credit, Go
  <2>2. framesPlayed \in Nat /\ period \in Nat \ {0}
    BY <2>1
  <2>3. framesPlayed' \in Nat /\ framesPlayed' > framesPlayed
    BY <2>1, <2>2
  <2>4. UNCHANGED <<Transport, Contract!vars[2], calls>> /\ Contract!Live
    BY <2>1
  <2>5. QED
    BY <2>3, <2>4 DEF Contract!Tick
<1>push. CASE PushCaptured
  BY <1>push DEF PushCaptured, Go
<1>foreign. CASE ForeignPush
  BY <1>foreign DEF ForeignPush
<1>drain. CASE Drain
  BY <1>drain DEF Drain
<1>stutter. CASE UNCHANGED vars
  BY <1>stutter DEF vars
<1> QED
  BY <1>open, <1>volume, <1>fails, <1>play, <1>pause, <1>stop, <1>drop, <1>signal, <1>clear, <1>join,
     <1>top, <1>sleep, <1>slice, <1>commit, <1>call, <1>closure, <1>return, <1>tick, <1>push,
     <1>foreign, <1>drain, <1>stutter
  DEF Next, Control, Worker

(* The handle, the closure and the worker together keep the stream         *)
(* contract, for any requests and any number of periods.                   *)
THEOREM Refinement == Spec => ImplementsAudioStream
  BY InitRefines, StepRefines, Invariance, PTL
  DEF Spec, ImplementsAudioStream, Contract!Spec

-----------------------------------------------------------------------------
(* How many of the first n samples of a sequence are this stream's.        *)
OwnIn(s, n) == Cardinality({i \in 1..n : s[i].stream = "this"})

LEMMA OwnInNat ==
  ASSUME NEW s, NEW n \in Nat
  PROVE  OwnIn(s, n) \in Nat /\ IsFiniteSet({i \in 1..n : s[i].stream = "this"})
<1>1. IsFiniteSet(1..n)
  BY FS_Interval
<1>2. {i \in 1..n : s[i].stream = "this"} \in SUBSET (1..n)
  OBVIOUS
<1>3. IsFiniteSet({i \in 1..n : s[i].stream = "this"})
  BY <1>1, <1>2, FS_Subset
<1>4. QED
  BY <1>3, FS_CardinalityType DEF OwnIn

LEMMA OwnInPrefix ==
  ASSUME NEW s, NEW t, NEW n \in Nat, \A i \in 1..n : s[i] = t[i]
  PROVE  OwnIn(s, n) = OwnIn(t, n)
<1>1. {i \in 1..n : s[i].stream = "this"} = {i \in 1..n : t[i].stream = "this"}
  OBVIOUS
<1>2. QED
  BY <1>1 DEF OwnIn

(* A run of this stream's samples adds its length, one of others' nothing. *)
LEMMA OwnInRun ==
  ASSUME NEW s, NEW n \in Nat, NEW k \in Nat, \A i \in (n + 1)..(n + k) : s[i].stream = "this"
  PROVE  OwnIn(s, n + k) = OwnIn(s, n) + k
<1> DEFINE old == {i \in 1..n : s[i].stream = "this"}
           new == (n + 1)..(n + k)
           all == {i \in 1..(n + k) : s[i].stream = "this"}
<1>1. all = old \cup new
  <2>1. ASSUME NEW i \in all PROVE i \in old \cup new
    OBVIOUS
  <2>2. ASSUME NEW i \in old PROVE i \in all
    OBVIOUS
  <2>3. ASSUME NEW i \in new PROVE i \in all
    OBVIOUS
  <2> HIDE DEF old, new, all
  <2>4. QED
    BY <2>1, <2>2, <2>3
<1>2. old \cap new = {}
  OBVIOUS
<1>3. IsFiniteSet(old) /\ Cardinality(old) \in Nat
  BY OwnInNat DEF OwnIn
<1>4. IsFiniteSet(new) /\ Cardinality(new) = k
  <2>1. n + 1 \in Int /\ n + k \in Int
    OBVIOUS
  <2>2. /\ IsFiniteSet(new)
        /\ Cardinality(new) = IF n + 1 > n + k THEN 0 ELSE (n + k) - (n + 1) + 1
    BY <2>1, FS_Interval
  <2>3. QED
    BY <2>2
<1> HIDE DEF old, new, all
<1>5. Cardinality(old \cup new) = Cardinality(old) + Cardinality(new) - Cardinality(old \cap new)
  BY <1>3, <1>4, FS_Union
<1>6. Cardinality(old \cap new) = 0
  BY <1>2, FS_EmptySet
<1>7. Cardinality(all) = Cardinality(old) + k
  BY <1>1, <1>3, <1>4, <1>5, <1>6
<1>8. QED
  BY <1>7 DEF OwnIn, old, all

LEMMA OwnInForeign ==
  ASSUME NEW s, NEW n \in Nat, NEW k \in Nat, \A i \in (n + 1)..(n + k) : s[i].stream # "this"
  PROVE  OwnIn(s, n + k) = OwnIn(s, n)
<1>1. {i \in 1..(n + k) : s[i].stream = "this"} = {i \in 1..n : s[i].stream = "this"}
  <2>1. ASSUME NEW i \in 1..(n + k), s[i].stream = "this" PROVE i \in 1..n
    BY <2>1
  <2>2. ASSUME NEW i \in 1..n PROVE i \in 1..(n + k)
    OBVIOUS
  <2>3. QED
    BY <2>1, <2>2
<1>2. QED
  BY <1>1 DEF OwnIn

-----------------------------------------------------------------------------
(* The capture sink.  A cut sink is full, so that nothing is put behind    *)
(* the cut until it is drained; a stream that does not capture has nothing *)
(* in it.                                                                  *)
CaptureInv ==
  /\ wk = "push" => capture
  /\ wk = "unspawned" => ~capture
  /\ drainedAt <= Delivered
  /\ truncated => Len(sink) = CaptureCap
  /\ ~capture => \A i \in 1..Len(sink) : sink[i].stream # "this"
  /\ CaptureFaithful

LEMMA InitCapture == Init => CaptureInv
<1> SUFFICES ASSUME Init PROVE CaptureInv
  OBVIOUS
<1>1. Len(sink) = 0 /\ ~truncated /\ ~capture /\ wk = "unspawned" /\ drainedAt = 0 /\ calls = 0
  BY EmptySeq DEF Init
<1>2. CaptureFaithful
  BY <1>1, MockAssumption DEF CaptureFaithful, SinkBounded
<1>3. QED
  BY <1>1, <1>2 DEF CaptureInv, Delivered, InFlight

(* Where neither the sink nor what was delivered changes.                  *)
LEMMA CaptureUntouched ==
  ASSUME CaptureInv, UNCHANGED <<sink, truncated, drainedAt, period, capture>>,
         Delivered' = Delivered, wk' = "push" => capture, wk' # "unspawned"
  PROVE  CaptureInv'
  BY DEF CaptureInv, CaptureFaithful, SinkBounded, OwnAmong

(* An empty sink, and everything delivered so far counted as drained.      *)
LEMMA CaptureOfEmptySink ==
  ASSUME Len(sink') = 0, ~truncated', drainedAt' = Delivered', Delivered' \in Nat, period' \in Nat,
         wk' = "push" => capture', wk' = "unspawned" => ~capture'
  PROVE  CaptureInv'
<1>1. OwnAmong(Len(sink))' = 0
  <2>1. {i \in 1..Len(sink') : sink'[i].stream = "this"} = {}
    OBVIOUS
  <2>2. QED
    BY <2>1, FS_EmptySet DEF OwnAmong
<1>2. period' * (Delivered' - drainedAt') = 0
  <2>1. ASSUME NEW p \in Nat, NEW d \in Nat PROVE p * (d - d) = 0
    OBVIOUS
  <2>2. QED
    BY <2>1, Zenon
<1>3. CaptureFaithful'
  BY <1>1, <1>2, MockAssumption DEF CaptureFaithful, SinkBounded
<1>4. QED
  BY <1>3 DEF CaptureInv

LEMMA DeliveredNat == IInv => Delivered \in Nat
  BY DEF IInv, TypeOK, ClockInv, Delivered, InFlight

(* What a push leaves in the sink: the old samples where they were, then a *)
(* prefix of the chunk, the whole of it unless the cap cut it.             *)
LEMMA ExtendAppends ==
  ASSUME NEW chunk \in Seq(Sample), TypeOK, SinkBounded, Extend(chunk)
  PROVE  \E k \in 0..Len(chunk) :
           /\ Len(sink') = Len(sink) + k /\ Len(sink') <= CaptureCap
           /\ \A i \in 1..Len(sink) : sink'[i] = sink[i]
           /\ \A i \in 1..k : sink'[Len(sink) + i] = chunk[i]
           /\ truncated' = (truncated \/ k < Len(chunk))
           /\ k < Len(chunk) => Len(sink') = CaptureCap
<1> DEFINE k == Len(Capped(chunk))
<1>1. /\ Capped(chunk) \in Seq(Sample) /\ k <= CaptureCap - Len(sink) /\ k <= Len(chunk)
      /\ k < Len(chunk) => Len(sink) + k = CaptureCap
      /\ \A i \in 1..k : Capped(chunk)[i] = chunk[i]
  BY CappedFits
<1>2. /\ sink \in Seq(Sample) /\ sink' = sink \o Capped(chunk)
      /\ truncated' = (truncated \/ k < Len(chunk))
  BY DEF TypeOK, Extend
<1>3. /\ k \in Nat /\ Len(chunk) \in Nat /\ Len(sink) \in Nat /\ CaptureCap \in Nat
  BY <1>1, <1>2, LenProperties, MockAssumption
<1>4. /\ Len(sink') = Len(sink) + k
      /\ \A i \in 1..(Len(sink) + k) :
           sink'[i] = IF i <= Len(sink) THEN sink[i] ELSE Capped(chunk)[i - Len(sink)]
  BY <1>1, <1>2, ConcatProperties
<1> HIDE DEF k
<1>5. \A i \in 1..Len(sink) : sink'[i] = sink[i]
  BY <1>3, <1>4
<1>6. ASSUME NEW i \in 1..k PROVE sink'[Len(sink) + i] = chunk[i]
  <2>1. /\ Len(sink) + i \in 1..(Len(sink) + k) /\ ~(Len(sink) + i <= Len(sink))
        /\ Len(sink) + i - Len(sink) = i
    BY <1>3
  <2>2. sink'[Len(sink) + i] = Capped(chunk)[Len(sink) + i - Len(sink)]
    BY <1>4, <2>1
  <2>3. QED
    BY <1>1, <2>1, <2>2
<1>7. k \in 0..Len(chunk) /\ Len(sink') <= CaptureCap /\ (k < Len(chunk) => Len(sink') = CaptureCap)
  BY <1>1, <1>3, <1>4
<1>8. QED
  BY <1>2, <1>4, <1>5, <1>6, <1>7

LEMMA OldSamplesCounted ==
  ASSUME Len(sink) \in Nat, \A i \in 1..Len(sink) : sink'[i] = sink[i]
  PROVE  \A n \in 0..Len(sink) : OwnAmong(n)' = OwnAmong(n)
<1> SUFFICES ASSUME NEW n \in 0..Len(sink) PROVE OwnAmong(n)' = OwnAmong(n)
  OBVIOUS
<1>1. n \in Nat /\ \A i \in 1..n : sink'[i] = sink[i]
  OBVIOUS
<1>2. OwnIn(sink', n) = OwnIn(sink, n)
  BY <1>1, OwnInPrefix
<1>3. QED
  BY <1>2 DEF OwnIn, OwnAmong

LEMMA ForeignKeepsCapture == IInv /\ CaptureInv /\ ForeignPush => CaptureInv'
<1> SUFFICES ASSUME IInv, CaptureInv, ForeignPush PROVE CaptureInv'
  OBVIOUS
<1> DEFINE chunk == <<[stream |-> "other", no |-> 0, amp |-> 0]>>
<1>1. chunk \in Seq(Sample) /\ Len(chunk) = 1 /\ chunk[1].stream = "other"
  BY DEF Sample
<1>2. Extend(chunk) /\ TypeOK /\ SinkBounded
  BY DEF ForeignPush, IInv
<1> HIDE DEF chunk
<1>3. PICK k \in 0..Len(chunk) :
        /\ Len(sink') = Len(sink) + k /\ Len(sink') <= CaptureCap
        /\ \A i \in 1..Len(sink) : sink'[i] = sink[i]
        /\ \A i \in 1..k : sink'[Len(sink) + i] = chunk[i]
        /\ truncated' = (truncated \/ k < Len(chunk))
        /\ k < Len(chunk) => Len(sink') = CaptureCap
  BY <1>1, <1>2, ExtendAppends
<1>4. /\ Len(sink) \in Nat /\ k \in 0..1 /\ CaptureCap \in Nat
      /\ truncated \in BOOLEAN /\ Len(sink) <= CaptureCap
  BY <1>1, <1>2, LenProperties, MockAssumption DEF TypeOK, SinkBounded
<1>5. UNCHANGED <<drainedAt, period, capture, wk, calls, rpos>>
  BY DEF ForeignPush, Extend, setup, workerVars, history, renderVars
<1>6. Delivered' = Delivered
  BY <1>5 DEF Delivered, InFlight
<1>7. \A i \in (Len(sink) + 1)..(Len(sink) + k) : sink'[i].stream # "this"
  <2> SUFFICES ASSUME NEW i \in (Len(sink) + 1)..(Len(sink) + k) PROVE sink'[i].stream # "this"
    OBVIOUS
  <2>1. i = Len(sink) + 1 /\ k = 1 /\ 1 \in 1..k
    BY <1>4
  <2>2. sink'[i] = chunk[1]
    BY <1>3, <2>1
  <2>3. QED
    BY <1>1, <2>2
<1>8. \A n \in 0..Len(sink) : OwnAmong(n)' = OwnAmong(n)
  BY <1>3, <1>4, OldSamplesCounted
<1>9. OwnAmong(Len(sink))' = OwnAmong(Len(sink))
  <2>1. OwnIn(sink', Len(sink) + k) = OwnIn(sink', Len(sink))
    BY <1>4, <1>7, OwnInForeign
  <2>2. OwnIn(sink', Len(sink)) = OwnAmong(Len(sink))
    BY <1>4, <1>8 DEF OwnIn, OwnAmong
  <2>3. QED
    BY <1>3, <2>1, <2>2 DEF OwnIn, OwnAmong
<1>10. ASSUME NEW i \in 1..Len(sink'), sink'[i].stream = "this"
       PROVE  i \in 1..Len(sink) /\ sink'[i] = sink[i] /\ OwnAmong(i)' = OwnAmong(i)
  <2>1. i \in 1..Len(sink)
    BY <1>3, <1>4, <1>7, <1>10
  <2>2. QED
    BY <1>3, <1>4, <1>8, <2>1
<1>11. truncated' => Len(sink') = CaptureCap
  BY <1>3, <1>4 DEF CaptureInv
<1>12. SinkBounded'
  BY <1>3 DEF SinkBounded
<1>13. CaptureFaithful'
  <2> SUFFICES ASSUME capture
               PROVE  LET due == period * (Delivered - drainedAt)
                          got == OwnAmong(Len(sink))
                      IN  /\ got <= due
                          /\ truncated' \/ got = due
                          /\ \A i \in 1..Len(sink') : sink'[i].stream = "this" =>
                               LET before == sink'[i].no - 1 - drainedAt
                               IN  /\ OwnAmong(i)' > period * before
                                   /\ OwnAmong(i)' <= period * (before + 1)
    BY <1>5, <1>6, <1>9, <1>12 DEF CaptureFaithful
  <2>1. truncated => truncated'
    BY <1>3
  <2>2. QED
    BY <1>10, <2>1 DEF CaptureInv, CaptureFaithful
<1>14. ~capture' => \A i \in 1..Len(sink') : sink'[i].stream # "this"
  BY <1>5, <1>10 DEF CaptureInv
<1>15. QED
  BY <1>5, <1>6, <1>11, <1>13, <1>14 DEF CaptureInv

(* The samples of a period lie between its first and its last: arithmetic. *)
LEMMA PeriodOfSample ==
  ASSUME NEW p \in Nat, NEW q \in Nat, NEW j \in 1..p
  PROVE  /\ p * q + j > p * q
         /\ p * q + j <= p * (q + 1)
         /\ p * (q + 1) = p * q + p
<1>1. p * (q + 1) = p * q + p
  OBVIOUS
<1>2. p * q \in Nat
  OBVIOUS
<1>3. QED
  BY <1>1, <1>2

LEMMA PushKeepsCapture == IInv /\ CaptureInv /\ PushCaptured => CaptureInv'
<1> SUFFICES ASSUME IInv, CaptureInv, PushCaptured PROVE CaptureInv'
  OBVIOUS
<1> DEFINE sample == [stream |-> "this", no |-> calls, amp |-> out]
           chunk == [i \in 1..period |-> sample]
           q == calls - 1 - drainedAt
<1>1. /\ period \in Nat /\ calls \in Nat /\ calls > 0 /\ drainedAt \in Nat
      /\ wk = "push" /\ wk' = "tick" /\ capture
      /\ TypeOK /\ SinkBounded
  BY DEF IInv, TypeOK, ClockInv, InFlight, CaptureInv, PushCaptured, Go
<1>2. UNCHANGED <<drainedAt, period, capture, calls, rpos>>
  BY DEF PushCaptured, Extend, setup, history, renderVars
<1>3. Delivered = calls - 1 /\ Delivered' = calls
  BY <1>1, <1>2 DEF Delivered, InFlight
<1>4. q \in Nat /\ q = Delivered - drainedAt /\ q + 1 = Delivered' - drainedAt
  BY <1>1, <1>3 DEF CaptureInv
<1>5. chunk \in Seq(Sample) /\ Len(chunk) = period /\ \A i \in 1..period : chunk[i] = sample
  <2>1. sample \in Sample
    BY <1>1 DEF Sample, TypeOK, RenderTypeOK
  <2> HIDE DEF sample
  <2>2. QED
    BY <1>1, <2>1
<1>6. Extend(chunk)
  BY DEF PushCaptured
<1>7. sample.stream = "this" /\ sample.no = calls
  OBVIOUS
<1> HIDE DEF chunk, sample, q
<1>8. PICK k \in 0..Len(chunk) :
        /\ Len(sink') = Len(sink) + k /\ Len(sink') <= CaptureCap
        /\ \A i \in 1..Len(sink) : sink'[i] = sink[i]
        /\ \A i \in 1..k : sink'[Len(sink) + i] = chunk[i]
        /\ truncated' = (truncated \/ k < Len(chunk))
        /\ k < Len(chunk) => Len(sink') = CaptureCap
  BY <1>1, <1>5, <1>6, ExtendAppends
<1>9. /\ Len(sink) \in Nat /\ k \in Nat /\ k <= period /\ CaptureCap \in Nat
      /\ truncated \in BOOLEAN /\ Len(sink) <= CaptureCap
  BY <1>1, <1>5, LenProperties, MockAssumption DEF TypeOK, SinkBounded
<1>10. truncated => k = 0
  BY <1>8, <1>9 DEF CaptureInv
<1>11. truncated' => Len(sink') = CaptureCap
  BY <1>8, <1>9, <1>10 DEF CaptureInv
<1>12. \A n \in 0..Len(sink) : OwnAmong(n)' = OwnAmong(n)
  BY <1>8, <1>9, OldSamplesCounted
<1>13. \A i \in 1..k : sink'[Len(sink) + i] = sample
  BY <1>5, <1>8, <1>9
<1>14. \A j \in 0..k : OwnIn(sink', Len(sink) + j) = OwnAmong(Len(sink)) + j
  <2> SUFFICES ASSUME NEW j \in 0..k
               PROVE  OwnIn(sink', Len(sink) + j) = OwnAmong(Len(sink)) + j
    OBVIOUS
  <2>1. ASSUME NEW i \in (Len(sink) + 1)..(Len(sink) + j) PROVE sink'[i].stream = "this"
    <3>1. i - Len(sink) \in 1..k /\ Len(sink) + (i - Len(sink)) = i
      BY <1>9
    <3>2. QED
      BY <1>7, <1>13, <3>1
  <2>2. OwnIn(sink', Len(sink) + j) = OwnIn(sink', Len(sink)) + j
    BY <1>9, <2>1, OwnInRun
  <2>3. OwnIn(sink', Len(sink)) = OwnAmong(Len(sink))
    BY <1>9, <1>12 DEF OwnIn, OwnAmong
  <2>4. QED
    BY <2>2, <2>3
<1>15. OwnAmong(Len(sink)) \in Nat
  BY <1>9, OwnInNat DEF OwnIn, OwnAmong
<1>16. /\ OwnAmong(Len(sink)) <= period * q
       /\ ~truncated => OwnAmong(Len(sink)) = period * q
       /\ \A i \in 1..Len(sink) : sink[i].stream = "this" =>
            /\ OwnAmong(i) > period * (sink[i].no - 1 - drainedAt)
            /\ OwnAmong(i) <= period * (sink[i].no - 1 - drainedAt + 1)
  BY <1>1, <1>4 DEF CaptureInv, CaptureFaithful
<1>17. period * (q + 1) = period * q + period /\ period * q \in Nat
  BY <1>1, <1>4
<1>18. /\ OwnAmong(Len(sink))' <= period * (q + 1)
       /\ truncated' \/ OwnAmong(Len(sink))' = period * (q + 1)
  <2>1. OwnAmong(Len(sink))' = OwnAmong(Len(sink)) + k
    <3>1. k \in 0..k
      BY <1>9
    <3>2. OwnIn(sink', Len(sink) + k) = OwnAmong(Len(sink)) + k
      BY <1>14, <3>1
    <3>3. OwnIn(sink', Len(sink')) = OwnAmong(Len(sink)) + k
      BY <1>8, <3>2
    <3>4. QED
      BY <3>3 DEF OwnIn, OwnAmong
  <2>2. ~truncated' => k = period
    <3>1. ~truncated' => ~(k < period)
      BY <1>5, <1>8, Zenon
    <3>2. QED
      BY <1>1, <1>9, <3>1
  <2>3. truncated => truncated'
    BY <1>8
  <2>4. QED
    BY <1>1, <1>9, <1>15, <1>16, <1>17, <2>1, <2>2, <2>3
<1>19. ASSUME NEW i \in 1..Len(sink'), sink'[i].stream = "this"
       PROVE  /\ OwnAmong(i)' > period * (sink'[i].no - 1 - drainedAt)
              /\ OwnAmong(i)' <= period * (sink'[i].no - 1 - drainedAt + 1)
  <2>1. CASE i \in 1..Len(sink)
    BY <1>8, <1>9, <1>12, <1>16, <1>19, <2>1
  <2>2. CASE i \in (Len(sink) + 1)..(Len(sink) + k)
    <3> DEFINE j == i - Len(sink)
    <3>1. j \in 1..k /\ j \in 1..period /\ j \in 0..k /\ Len(sink) + j = i
      <4>1. i \in Nat /\ k \in Nat /\ period \in Nat /\ k <= period /\ Len(sink) \in Nat
        BY <1>1, <1>9, <2>2
      <4>2. QED
        BY <2>2, <4>1
    <3> HIDE DEF j
    <3>2. ~truncated
      BY <1>9, <1>10, <3>1
    <3>3. OwnAmong(i)' = period * q + j
      <4>1. OwnIn(sink', i) = OwnAmong(Len(sink)) + j
        BY <1>14, <3>1
      <4>2. OwnIn(sink', i) = period * q + j
        BY <1>16, <3>2, <4>1
      <4>3. QED
        BY <4>2 DEF OwnIn, OwnAmong
    <3>4. sink'[i].no - 1 - drainedAt = q
      BY <1>7, <1>13, <3>1 DEF q
    <3>5. QED
      BY <1>1, <1>4, <3>1, <3>3, <3>4, PeriodOfSample
  <2>3. QED
    BY <1>8, <1>9, <2>1, <2>2
<1>20. CaptureFaithful'
  <2>1. SinkBounded'
    BY <1>8 DEF SinkBounded
  <2>2. period' * (Delivered' - drainedAt') = period * (q + 1)
    BY <1>2, <1>4
  <2>3. QED
    BY <1>2, <1>18, <1>19, <2>1, <2>2 DEF CaptureFaithful
<1>21. drainedAt' <= Delivered'
  BY <1>1, <1>2, <1>3, <1>4
<1>22. QED
  BY <1>1, <1>2, <1>11, <1>20, <1>21 DEF CaptureInv

LEMMA StepCapture == IInv /\ CaptureInv /\ [Next]_vars => CaptureInv'
<1> SUFFICES ASSUME IInv, CaptureInv, [Next]_vars PROVE CaptureInv'
  OBVIOUS
<1> USE DEF handleVars, renderVars, flags, setup, workerVars, sinkVars, history
<1>1. /\ ControlInv /\ ClockInv /\ Delivered \in Nat
      /\ calls \in Nat /\ period \in Nat
  BY DeliveredNat DEF IInv, TypeOK
<1>open. ASSUME NEW req \in Requests, OpenOk(req) PROVE CaptureInv'
  <2>1. /\ wk = "unspawned" /\ wk' = "top" /\ calls = 0 /\ calls' = 0 /\ ~capture
        /\ UNCHANGED <<sink, truncated, drainedAt>>
    BY <1>1, <1>open DEF OpenOk, ControlInv, ClockInv, CaptureInv
  <2>2. period' \in Nat /\ capture' \in BOOLEAN
    BY <1>open, PeriodPositive DEF OpenOk
  <2>3. Delivered = 0 /\ Delivered' = 0 /\ drainedAt' = 0
    BY <1>1, <1>open, <2>1 DEF CaptureInv, Delivered, InFlight, OpenOk, ClockInv, IInv, TypeOK
  <2>4. \A i \in 1..Len(sink') : sink'[i].stream # "this"
    BY <2>1 DEF CaptureInv
  <2>5. OwnAmong(Len(sink))' = 0
    <3>1. {i \in 1..Len(sink') : sink'[i].stream = "this"} = {}
      BY <2>4
    <3>2. QED
      BY <3>1, FS_EmptySet DEF OwnAmong
  <2>6. period' * (Delivered' - drainedAt') = 0
    <3>1. ASSUME NEW p \in Nat PROVE p * (0 - 0) = 0
      OBVIOUS
    <3>2. QED
      BY <2>2, <2>3, <3>1, Zenon
  <2>7. CaptureFaithful'
    BY <2>1, <2>4, <2>5, <2>6 DEF CaptureFaithful, SinkBounded, CaptureInv
  <2>8. QED
    BY <2>1, <2>3, <2>4, <2>7 DEF CaptureInv
<1>fails. CASE OpenFails
  <2>1. UNCHANGED <<sink, truncated, drainedAt, period, capture, wk>> /\ Delivered' = Delivered
    BY <1>fails DEF OpenFails, Delivered, InFlight
  <2>2. QED
    BY <2>1 DEF CaptureInv, CaptureFaithful, SinkBounded, OwnAmong
<1>untouched. ASSUME UNCHANGED <<sink, truncated, drainedAt, period, capture, wk>>,
                     Delivered' = Delivered
              PROVE  CaptureInv'
  BY <1>untouched DEF CaptureInv, CaptureFaithful, SinkBounded, OwnAmong
<1>control. CASE \/ Play \/ Pause \/ Stop \/ Drop \/ SignalShutdown \/ ClearPlaying \/ JoinWorker
                 \/ (\E v \in VolumeArgs : ChangeVolume(v)) \/ UNCHANGED vars
  <2>1. UNCHANGED <<sink, truncated, drainedAt, period, capture, wk, calls, rpos>>
    BY <1>control DEF Play, Pause, Stop, Drop, SignalShutdown, ClearPlaying, JoinWorker,
       ChangeVolume, SetVolume, vars
  <2>2. Delivered' = Delivered
    BY <2>1 DEF Delivered, InFlight
  <2>3. QED
    BY <2>1, <2>2, <1>untouched
<1>closure. CASE RunClosure
  <2>1. UNCHANGED <<sink, truncated, drainedAt, period, capture, wk, calls>>
        /\ rpos # "out" /\ rpos' # "out"
    BY <1>closure DEF RunClosure, RenderStep, SkipPoisoned, EnterUser, UserReturns, UserPanics,
       ApplyGain
  <2>2. Delivered' = Delivered
    BY <2>1 DEF Delivered, InFlight
  <2>3. QED
    BY <2>1, <2>2, <1>untouched
<1>CallCallback. CASE CallCallback
  <2>1. UNCHANGED <<sink, truncated, drainedAt, period, capture, wk>>
        /\ wk = "render" /\ rpos = "out" /\ rpos' = "called" /\ calls' = calls + 1
    BY <1>CallCallback DEF CallCallback, CallClosure
  <2>2. Delivered' = Delivered
    BY <1>1, <2>1 DEF Delivered, InFlight
  <2>3. QED
    BY <2>1, <2>2, <1>untouched
<1>worker. CASE TestShutdown \/ TestPlaying \/ AdvanceClock \/ TestSleep \/ SleepSlice
  <2>1. /\ UNCHANGED <<sink, truncated, drainedAt, period, capture, calls, rpos>>
        /\ wk \in {"top", "check", "tick", "sleep", "slice"}
        /\ wk' \in {"exited", "check", "render", "sleep", "top", "slice"}
    BY <1>worker DEF TestShutdown, TestPlaying, AdvanceClock, TestSleep, SleepSlice, Go, LoopOver,
       SleepOver
  <2>2. rpos = "out" /\ rpos' = "out"
    BY <1>1, <2>1 DEF ClockInv
  <2>3. Delivered' = Delivered
    BY <2>1, <2>2 DEF Delivered, InFlight
  <2>4. QED
    BY <2>1, <2>3, CaptureUntouched
<1>returns. CASE CallbackReturns
  <2>1. /\ UNCHANGED <<sink, truncated, drainedAt, period, capture, calls>>
        /\ wk = "render" /\ rpos = "done" /\ rpos' = "out"
        /\ wk' = IF capture THEN "push" ELSE "tick"
    BY <1>returns DEF CallbackReturns, ClosureReturns, Captures, Go
  <2>2. CASE capture
    <3>1. Delivered' = Delivered
      BY <2>1, <2>2 DEF Delivered, InFlight
    <3>2. QED
      BY <2>1, <2>2, <3>1, CaptureUntouched
  <2>3. CASE ~capture
    <3>1. Delivered = calls - 1 /\ Delivered' = calls /\ drainedAt' <= Delivered'
      BY <1>1, <2>1, <2>3 DEF Delivered, InFlight, CaptureInv, IInv, TypeOK
    <3>2. QED
      BY <2>1, <2>3, <3>1 DEF CaptureInv, CaptureFaithful, SinkBounded
  <2>4. QED
    BY <2>2, <2>3
<1>Drain. CASE Drain
  <2>1. Len(sink') = 0 /\ ~truncated' /\ drainedAt' = Delivered
    BY <1>Drain, EmptySeq DEF Drain
  <2>2. UNCHANGED <<period, capture, wk, calls, rpos>>
    BY <1>Drain DEF Drain
  <2>3. Delivered' = Delivered
    BY <2>2 DEF Delivered, InFlight
  <2>4. QED
    BY <1>1, <2>1, <2>2, <2>3, CaptureOfEmptySink DEF CaptureInv
<1> QED
  BY <1>open, <1>fails, <1>control, <1>closure, <1>CallCallback, <1>worker, <1>returns, <1>Drain,
     ForeignKeepsCapture, PushKeepsCapture
  DEF Next, Control, Worker

(* Whatever the cap, the periods and the other streams, what is captured   *)
(* of a stream is gap-free, in order, and whole up to the cut.             *)
THEOREM CaptureIsFaithful == Spec => []CaptureFaithful
<1>1. CaptureInv => CaptureFaithful
  BY DEF CaptureInv
<1>2. QED
  BY <1>1, Invariance, InitCapture, StepCapture, PTL DEF Spec

-----------------------------------------------------------------------------
(* The closure.  The volume loaded is one that was in force during the     *)
(* period; a poisoned closure is not in user code.                         *)
RenderInv ==
  /\ rpos # "out" => volume \in inForce
  /\ rpos \in {"user", "gain"} => ~poisoned
  /\ rpos = "gain" => out = UserSample
  /\ RenderedWhole

LEMMA StepRender == IInv /\ RenderInv /\ [Next]_vars => RenderInv'
<1> SUFFICES ASSUME IInv, RenderInv, [Next]_vars PROVE RenderInv'
  OBVIOUS
<1> USE DEF RenderInv, RenderedWhole, renderVars, UserSample, Silence, Unity
<1>1. volume \in Nat /\ poisoned \in BOOLEAN
  BY DEF IInv, TypeOK, RenderTypeOK
<1>untouched. CASE UNCHANGED renderVars
  BY <1>untouched
<1>volume. ASSUME NEW v, SetVolume(v) PROVE RenderInv'
  <2>1. UNCHANGED <<poisoned, rpos, out>> /\ inForce' = inForce \cup {volume'}
    BY <1>volume DEF SetVolume
  <2>2. QED
    BY <2>1
<1>call. CASE CallClosure
  BY <1>call DEF CallClosure
<1>skip. CASE SkipPoisoned
  BY <1>skip DEF SkipPoisoned
<1>enter. CASE EnterUser
  BY <1>enter DEF EnterUser
<1>user. CASE UserReturns
  BY <1>user DEF UserReturns
<1>panic. CASE UserPanics
  BY <1>panic DEF UserPanics, AfterPanic
<1>gain. CASE ApplyGain
  <2>1. out' = UserSample * volume
    BY <1>1, <1>gain DEF ApplyGain, Loaded
  <2>2. QED
    BY <1>gain, <2>1 DEF ApplyGain
<1>leave. CASE ClosureReturns
  BY <1>leave DEF ClosureReturns
<1>2. CASE Control \/ ForeignPush \/ Drain \/ UNCHANGED vars
  <2>1. UNCHANGED renderVars \/ \E v \in VolumeArgs : SetVolume(v)
    BY <1>2 DEF Control, OpenOk, OpenFails, Play, Pause, Stop, Drop, ChangeVolume,
       SignalShutdown, ClearPlaying, JoinWorker, ForeignPush, Drain, vars
  <2>2. QED
    BY <2>1, <1>untouched, <1>volume
<1>3. CASE Worker
  <2>1. UNCHANGED renderVars \/ CallClosure \/ RenderStep \/ ClosureReturns
    BY <1>3 DEF Worker, TestShutdown, TestPlaying, CallCallback, RunClosure, CallbackReturns,
       PushCaptured, AdvanceClock, TestSleep, SleepSlice
  <2>2. QED
    BY <2>1, <1>untouched, <1>call, <1>skip, <1>enter, <1>user, <1>panic, <1>gain, <1>leave
    DEF RenderStep
<1>4. QED
  BY <1>2, <1>3 DEF Next

(* Whatever the callback does and whenever the volume is set, a period     *)
(* leaves the closure silent or scaled as a whole.                         *)
THEOREM PeriodsAreWhole == Spec => []RenderedWhole
<1>1. Init => RenderInv
  BY DEF Init, RenderInit, RenderInv, RenderedWhole
<1>2. RenderInv => RenderedWhole
  BY DEF RenderInv
<1>3. QED
  BY <1>1, <1>2, Invariance, StepRender, PTL DEF Spec
=============================================================================
