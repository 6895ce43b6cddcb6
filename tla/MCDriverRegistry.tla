-------------------------- MODULE MCDriverRegistry --------------------------
(***************************************************************************)
(* A small instance of DriverRegistry: two threads, call after call, on a  *)
(* Linux, a Windows and a macOS host.  On each the preferred backend's     *)
(* library or sound server comes and goes; two playback devices and an     *)
(* input may be plugged in, and the default moves.                         *)
(***************************************************************************)
EXTENDS DriverRegistry, TLC

CONSTANTS t1, t2, usual, usb, mic

MCCatalog == <<usual, usb, mic>>

Host(platform, backends, lacking, down) ==
  [platform |-> platform,
   features |-> backends,
   libs |-> Libs \ lacking,
   up |-> backends \ (down \cup Stubs),
   present |-> {usual, mic},
   default |-> usual]

MCHosts ==
  { Host("linux", {"pipewire", "pulse", "alsa"}, {"libpulse"}, {}),
    Host("linux", {"pulse", "mock"}, {}, {"pulse"}),
    Host("windows", {"wasapi", "asio"}, {}, {}),
    Host("macos", {"coreaudio"}, {Hal}, {}) }

Ask(api, b) == [api |-> api, driver |-> b]

MCCalls ==
  { Ask("probe", None), Ask("open_default", None) }
  \cup { Ask("status", b) : b \in {"pipewire", "pulse"} }
  \cup { Ask("devices", b) : b \in {"asio", "alsa", "coreaudio"} }
  \cup { Ask("default", b) : b \in {"wasapi", "coreaudio"} }
  \cup { Ask("format", b) : b \in {"alsa", "wasapi", "coreaudio"} }

Symmetry == Permutations(Threads)
=============================================================================
