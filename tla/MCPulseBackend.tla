--------------------------- MODULE MCPulseBackend ---------------------------
(***************************************************************************)
(* A small instance of PulseBackend.  The requests cover make_buffer_attr: *)
(* no hint, a hint below the 64-frame floor, one above a default period    *)
(* and one whose byte count saturates (MaxU32 is scaled down).             *)
(***************************************************************************)
EXTENDS PulseBackend

Request(buffer, channels) == [rate |-> 8000, channels |-> channels, buffer |-> buffer]

MCRequests == { Request(None, 2), Request(32, 2), Request(800, 9), Request(3000, 8) }
=============================================================================
