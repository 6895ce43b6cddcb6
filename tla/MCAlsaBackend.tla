--------------------------- MODULE MCAlsaBackend ---------------------------
(***************************************************************************)
(* A small instance of AlsaBackend: periods of one frame and of two, on a  *)
(* ring buffer that holds three, so that a write can find it full with the *)
(* period half written.                                                    *)
(***************************************************************************)
EXTENDS AlsaBackend

MCPeriods == {1, 2}
=============================================================================
