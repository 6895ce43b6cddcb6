------------------------- MODULE MCCoreAudioBackend -------------------------
(***************************************************************************)
(* A small instance of CoreAudioBackend: the code's three buffers, and two *)
(* requests: no hint and no device, and a hint whose byte count wraps (U32 *)
(* is scaled down) with a device.  The headset's frames add up to more     *)
(* than U32 - 1.                                                           *)
(***************************************************************************)
EXTENDS CoreAudioBackend

CONSTANTS speakers, headset

Request(hint, dev) == [rate |-> 8000, channels |-> 2, frames |-> hint, device |-> dev]

MCRequests == { Request(None, None), Request(600, headset) }

(* what each device reports, 0 for what it does not *)
Silent == [p \in HalProperties |-> 0]

Speakers ==
  [Silent EXCEPT !.outLatency = 5, !.globalLatency = 6, !.outBuffer = 512, !.globalBuffer = 512]

Headset ==
  [Silent EXCEPT !.outLatency = 700, !.globalLatency = 700, !.streamLatency = 3500]

MCHal == [d \in Devices |-> IF d = speakers THEN Speakers ELSE Headset]
=============================================================================
