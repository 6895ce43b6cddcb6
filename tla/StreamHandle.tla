---------------------------- MODULE StreamHandle ----------------------------
(***************************************************************************)
(* The public Stream handle (stream.rs) and the thread that owns it.       *)
(* Stream is Send but not Sync and play/pause/stop take it exclusively, so *)
(* its calls are made one at a time by one control thread, whose position  *)
(* is ctl:                                                                 *)
(*                                                                         *)
(*   "new" -> "idle" -> ... the backend's stop() ... -> "drop" -> "gone"   *)
(*                                                                         *)
(* open() may also fail ("failed").  The positions inside stop() belong to *)
(* the backend's module, which EXTENDS this one and conjoins each operator *)
(* below with what the backend's own method does.                          *)
(***************************************************************************)
EXTENDS Integers

VARIABLES
  playing,   \* Stream.playing: the last transport state requested with success
  stopped,   \* Stream.stopped: inner.stop() has been called and has returned
  frame,     \* which call is running inner.stop(): "none", "stop" or "drop"
  ctl        \* the control thread's position

handleVars == <<playing, stopped, frame, ctl>>

HandleInit ==
  /\ playing = FALSE
  /\ stopped = FALSE
  /\ frame = "none"
  /\ ctl = "new"

(* Stream::new: backends hand the stream over already running *)
StreamNew ==
  /\ playing' = TRUE
  /\ stopped' = FALSE
  /\ frame' = "none"
  /\ ctl' = "idle"

OpenFailed ==
  /\ ctl = "new"
  /\ ctl' = "failed"
  /\ UNCHANGED <<playing, stopped, frame>>

(* Stream::play and Stream::pause after inner returned Ok *)
PlayOk ==
  /\ ctl = "idle"
  /\ playing' = TRUE
  /\ UNCHANGED <<stopped, frame, ctl>>

PauseOk ==
  /\ ctl = "idle"
  /\ playing' = FALSE
  /\ UNCHANGED <<stopped, frame, ctl>>

(* the same where the backend's play() or pause() is several steps, and    *)
(* from is the position of the last                                        *)
PlayReturned(from) ==
  /\ ctl = from
  /\ playing' = TRUE
  /\ ctl' = "idle"
  /\ UNCHANGED <<stopped, frame>>

PauseReturned(from) ==
  /\ ctl = from
  /\ playing' = FALSE
  /\ ctl' = "idle"
  /\ UNCHANGED <<stopped, frame>>

(* Stream::stop(self): runs inner.stop() from its first position *)
StopCall(first) ==
  /\ ctl = "idle"
  /\ ~stopped
  /\ ctl' = first
  /\ frame' = "stop"
  /\ UNCHANGED <<playing, stopped>>

(* Drop::drop, of an abandoned handle or at the end of stop(self) *)
DropCall(first) ==
  /\ ctl \in {"idle", "drop"}
  /\ ctl' = IF stopped THEN "gone" ELSE first
  /\ frame' = "drop"
  /\ UNCHANGED <<playing, stopped>>

(* inner.stop() has returned: self.stopped = true; stop(self) then drops *)
StopReturned ==
  /\ stopped' = TRUE
  /\ ctl' = IF frame = "stop" THEN "drop" ELSE "gone"
  /\ UNCHANGED <<playing, frame>>

(* the control thread runs position from of the backend's stop() *)
At(from, to) ==
  /\ ctl = from
  /\ ctl' = to
  /\ UNCHANGED <<playing, stopped, frame>>

isPlaying == playing /\ ~stopped

(* What AudioStream calls the transport: a stream is over once the call    *)
(* that stops it is about to return to its caller.                         *)
Transport ==
  CASE ctl \in {"new", "failed"} -> "unopened"
    [] ctl \in {"drop", "gone"}  -> "stopped"
    [] OTHER -> IF isPlaying THEN "playing" ELSE "paused"

HandleTypeOK(positions) ==
  /\ playing \in BOOLEAN
  /\ stopped \in BOOLEAN
  /\ frame \in {"none", "stop", "drop"}
  /\ ctl \in {"new", "failed", "idle", "drop", "gone"} \cup positions
=============================================================================
