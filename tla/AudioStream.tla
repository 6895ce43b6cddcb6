---------------------------- MODULE AudioStream ----------------------------
(***************************************************************************)
(* What the crate promises about one output stream, whatever backend runs  *)
(* it: the transport a caller reads back with Stream::is_playing, the      *)
(* calls of the render callback, and the frame clock the callback is       *)
(* handed.  The backend modules implement this specification.              *)
(*                                                                         *)
(*   - no callback runs before open() has succeeded or after stop()/drop   *)
(*     has returned;                                                       *)
(*   - a stream whose last successful request was pause() runs at most the *)
(*     one callback its render thread had already committed to;            *)
(*   - the clock never goes back, and stands still outside a stream's      *)
(*     life.                                                               *)
(***************************************************************************)
EXTENDS Naturals

VARIABLES
  transport,  \* "unopened", "playing", "paused" or "stopped"
  late,       \* a period committed to before the last pause() has yet to run
  calls,      \* callbacks invoked so far
  clock       \* frames_played

vars == <<transport, late, calls, clock>>

Live == transport \in {"playing", "paused"}

Init ==
  /\ transport = "unopened"
  /\ late = FALSE
  /\ calls = 0
  /\ clock = 0

(* open() returns Ok: streams start in the playing state *)
Open ==
  /\ transport = "unopened"
  /\ transport' = "playing"
  /\ UNCHANGED <<late, calls, clock>>

Play ==
  /\ Live
  /\ transport' = "playing"
  /\ late' = FALSE
  /\ UNCHANGED <<calls, clock>>

Pause ==
  /\ transport = "playing"
  /\ transport' = "paused"
  /\ late' \in BOOLEAN
  /\ UNCHANGED <<calls, clock>>

Callback ==
  /\ \/ transport = "playing"
     \/ transport = "paused" /\ late
  /\ late' = FALSE
  /\ calls' = calls + 1
  /\ UNCHANGED <<transport, clock>>

Tick ==
  /\ Live
  /\ clock' \in Nat
  /\ clock' > clock
  /\ UNCHANGED <<transport, late, calls>>

(* stop() or drop has returned *)
Stop ==
  /\ Live
  /\ transport' = "stopped"
  /\ late' = FALSE
  /\ UNCHANGED <<calls, clock>>

Next == Open \/ Play \/ Pause \/ Callback \/ Tick \/ Stop

Spec == Init /\ [][Next]_vars
=============================================================================
