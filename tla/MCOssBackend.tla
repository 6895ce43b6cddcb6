---------------------------- MODULE MCOssBackend ----------------------------
(***************************************************************************)
(* A small instance of OssBackend: periods of two frames (the floor) and   *)
(* three (a hint), on a device that may also refuse the rate (0).          *)
(***************************************************************************)
EXTENDS OssBackend

MCHints == {None, 3}
MCGranted == {0, 50}
=============================================================================
