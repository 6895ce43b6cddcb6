-------------------------- MODULE MCWasapiBackend --------------------------
(***************************************************************************)
(* A small instance of WasapiBackend: a buffer of two frames, so that it   *)
(* can be empty, half full and full, one frame in the hardware, and enough *)
(* frames for a buffer to be filled, paused over and filled again.         *)
(***************************************************************************)
EXTENDS WasapiBackend
=============================================================================
