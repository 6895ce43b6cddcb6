----------------------------- MODULE RenderPath -----------------------------
(***************************************************************************)
(* The closure open() installs around the user's callback (lib.rs): panic  *)
(* containment and the software gain.  It runs on the render thread, one   *)
(* call per period; set_volume runs on the control thread at any moment    *)
(* in between.                                                             *)
(*                                                                         *)
(* A period's samples are abstracted to one amplitude: 0 is silence, the   *)
(* user's callback writes 1, and the gain multiplies it.                   *)
(***************************************************************************)
EXTENDS Integers

CONSTANTS
  VolumeArgs,  \* arguments set_volume is called with
  NaN          \* the argument that is not a number

ASSUME VolumeAssumption ==
  /\ NaN \notin Int
  /\ VolumeArgs \subseteq Int \cup {NaN}

VARIABLES
  volume,    \* the atomic gain shared with the handle
  poisoned,  \* the callback has panicked
  rpos,      \* "out" of the closure, "called", in "user" code, at the "gain", "done"
  out,       \* what the output buffer holds
  entered,   \* history: how often the user's callback was entered
  panicAt,   \* history: the call the callback panicked in, 0 if it has not
  inForce    \* history: every volume in force since the current period began

renderVars == <<volume, poisoned, rpos, out, entered, panicAt, inForce>>

Unity == 1
Silence == 0
UserSample == 1

RenderInit ==
  /\ volume = Unity
  /\ poisoned = FALSE
  /\ rpos = "out"
  /\ out = Silence
  /\ entered = 0
  /\ panicAt = 0
  /\ inForce = {}

(* f32::max(0.0) maps both a negative number and NaN to 0.0 *)
Clamp(v) == IF v = NaN THEN 0 ELSE IF v < 0 THEN 0 ELSE v

SetVolume(v) ==
  /\ volume' = Clamp(v)
  /\ inForce' = inForce \cup {volume'}
  /\ UNCHANGED <<poisoned, rpos, out, entered, panicAt>>

(* the backend zeroes its buffer and calls the closure *)
CallClosure ==
  /\ rpos = "out"
  /\ out' = Silence
  /\ inForce' = {volume}
  /\ rpos' = "called"
  /\ UNCHANGED <<volume, poisoned, entered, panicAt>>

(* a poisoned stream renders silence without entering the callback *)
SkipPoisoned ==
  /\ rpos = "called"
  /\ poisoned
  /\ out' = Silence
  /\ rpos' = "done"
  /\ UNCHANGED <<volume, poisoned, entered, panicAt, inForce>>

(* mutant of EnterUser: poisoned is not looked at *)
EnterUserAgain ==
  /\ rpos = "called"
  /\ entered' = entered + 1
  /\ out' \in {Silence, UserSample}
  /\ rpos' = "user"
  /\ UNCHANGED <<volume, poisoned, panicAt, inForce>>

EnterUser ==
  /\ rpos = "called"
  /\ ~poisoned
  /\ entered' = entered + 1
  /\ out' \in {Silence, UserSample}   \* what it has written so far
  /\ rpos' = "user"
  /\ UNCHANGED <<volume, poisoned, panicAt, inForce>>

UserReturns ==
  /\ rpos = "user"
  /\ out' = UserSample
  /\ rpos' = "gain"
  /\ UNCHANGED <<volume, poisoned, entered, panicAt, inForce>>

AfterPanic == Silence

(* catch_unwind: remember it, and overwrite what the callback wrote *)
UserPanics ==
  /\ rpos = "user"
  /\ poisoned' = TRUE
  /\ panicAt' = entered
  /\ out' = AfterPanic
  /\ rpos' = "done"
  /\ UNCHANGED <<volume, entered, inForce>>

(* the gain is loaded after the callback; unity skips the multiply *)
LoadedAtOpen == Unity   \* mutant of Loaded: the value of open(), not the atomic
Loaded == volume

ApplyGain ==
  /\ rpos = "gain"
  /\ out' = IF Loaded = Unity THEN out ELSE out * Loaded
  /\ rpos' = "done"
  /\ UNCHANGED <<volume, poisoned, entered, panicAt, inForce>>

(* the closure returns to the backend *)
ClosureReturns ==
  /\ rpos = "done"
  /\ rpos' = "out"
  /\ UNCHANGED <<volume, poisoned, out, entered, panicAt, inForce>>

RenderStep == SkipPoisoned \/ EnterUser \/ UserReturns \/ UserPanics \/ ApplyGain

RenderTypeOK ==
  /\ volume \in Nat
  /\ poisoned \in BOOLEAN
  /\ rpos \in {"out", "called", "user", "gain", "done"}
  /\ out \in Nat
  /\ entered \in Nat
  /\ panicAt \in Nat
  /\ inForce \in SUBSET Nat

-----------------------------------------------------------------------------
(* A callback that has panicked is never entered again (the closure checks *)
(* poisoned before the call; lib.rs, "Callback panics").                   *)
NeverReentered == [][poisoned => entered' = entered]_renderVars

(* What leaves the closure is never a fragment: silence for a period that  *)
(* panicked or came after, else the whole period scaled by a volume that   *)
(* was in force while this very period was rendered, never an earlier one. *)
RenderedWhole ==
  rpos = "done" =>
    IF poisoned THEN out = Silence
                ELSE \E g \in inForce : out = UserSample * g
=============================================================================
