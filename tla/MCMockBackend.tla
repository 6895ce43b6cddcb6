--------------------------- MODULE MCMockBackend ---------------------------
(***************************************************************************)
(* A small instance of MockBackend: a two-frame period on the capture sink *)
(* (from the rate alone), a one-frame period (a rate below 50, floored by  *)
(* max(1)) elsewhere, and requests that must be refused.                   *)
(***************************************************************************)
EXTENDS MockBackend

MCRequests ==
  { [rate |-> 100, channels |-> 2, buffer |-> None, device |-> "mock:capture"],
    [rate |-> 40, channels |-> 1, buffer |-> None, device |-> None],
    [rate |-> 0, channels |-> 2, buffer |-> None, device |-> None],
    [rate |-> 100, channels |-> 0, buffer |-> None, device |-> None],
    [rate |-> 100, channels |-> 2, buffer |-> 0, device |-> None],
    [rate |-> 100, channels |-> 2, buffer |-> 3, device |-> "not-a-mock-device"] }

MCVolumeArgs == {-1, 2, NaN}
=============================================================================
