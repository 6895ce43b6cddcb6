--------------------------- MODULE BackendScripts ---------------------------
(***************************************************************************)
(* What each backend does in probe(), preferred_format(), output_devices() *)
(* and default_output_device(), as a script: the calls in order, what each *)
(* acquires and releases when it succeeds, and what its error path         *)
(* releases.  DriverRegistry runs the scripts.                             *)
(*                                                                         *)
(* open() is here only as far as the registry sees it: whether it works.   *)
(* The backends' own modules have the rest.                                *)
(***************************************************************************)
EXTENDS Sequences

Backends == {"pipewire", "pulse", "alsa", "oss", "wasapi", "asio", "coreaudio", "mock"}
Stubs == {"pipewire", "asio"}
Platforms == {"linux", "windows", "macos", "other"}

(* the slice drivers() returns: the platform's order of preference, each   *)
(* entry behind the feature of its name                                    *)
Entry(b, features) == IF b \in features THEN << b >> ELSE << >>

DRIVERS(platform, features) ==
  CASE platform = "linux" ->
         Entry("pipewire", features) \o Entry("pulse", features) \o Entry("alsa", features)
         \o Entry("oss", features) \o Entry("mock", features)
    [] platform = "windows" ->
         Entry("wasapi", features) \o Entry("asio", features) \o Entry("mock", features)
    [] platform = "macos" -> Entry("coreaudio", features) \o Entry("mock", features)
    [] platform = "other" -> Entry("mock", features)

(* the library lib() loads *)
LibOf ==
  [pulse |-> "libpulse", alsa |-> "libasound", oss |-> "libc", wasapi |-> "ole32",
   coreaudio |-> "AudioToolbox"]

Hal == "CoreAudio"   \* the library of ca_lib(), which remembers a failed load

Resources == {"conn", "pcm", "hw", "hints", "fd", "com", "enum", "device", "client", "wfx",
              "collection", "queue"}

Step(kind, lib, got, freed, undone) ==
  [kind |-> kind, lib |-> lib, got |-> got, freed |-> freed, undone |-> undone]

Lib(l) == Step("lib", l, {}, {}, {})                   \* lib()?
Call(got, freed, undone) == Step("call", "", got, freed, undone)  \* fails or succeeds
Do(got, freed) == Step("do", "", got, freed, {})       \* cannot fail
ReadDefault == Step("default", "", {}, {}, {})         \* best effort
NeedDefault == Step("need", "", {}, {}, {})            \* an error if there is none
List(got, freed, undone) == Step("list", "", got, freed, undone)
ListOrNothing == Step("try", "", {}, {}, {})           \* an empty list instead of an error
Walk == Step("walk", "", {}, {}, {})                   \* the loop over the list
NotImplemented == << Step("stub", "", {}, {}, {}) >>

(* activate_client, in the order of its calls *)
GetEnumerator(undone) == Call({"enum"}, {}, undone)
GetEndpoint(undone) == Call({"device"}, {"enum"}, undone \cup {"enum"})
ActivateClient(undone) == Call({"client"}, {"device"}, undone \cup {"device"})
GetMixFormat(undone) == Call({"wfx"}, {}, undone \cup {"client"})

(* the mix format is not freed, and errors skip CoUninitialize *)
WasapiProbe ==
  << Lib("ole32"), Do({"com"}, {}),
     GetEnumerator({}), GetEndpoint({}), ActivateClient({}), GetMixFormat({}),
     Do({}, {"client", "com"}) >>

Probe ==
  [pulse |-> << Lib("libpulse"), Call({"conn"}, {}, {}), Do({}, {"conn"}) >>,
   alsa |-> << Lib("libasound"), Call({"pcm"}, {}, {}), Do({}, {"pcm"}) >>,
   oss |-> << Lib("libc"), Call({"fd"}, {}, {}), Do({}, {"fd"}) >>,
   wasapi |-> WasapiProbe,
   coreaudio |-> << Lib("AudioToolbox"), Call({"queue"}, {}, {}), Do({}, {"queue"}) >>,
   mock |-> << Do({}, {}) >>]

Open ==
  [b \in DOMAIN Probe |->
     IF b = "mock" THEN << Do({}, {}) >> ELSE << Lib(LibOf[b]), Call({}, {}, {}) >>]

(* preferred_format_inner's checks share one exit *)
AlsaFormat ==
  << Lib("libasound"), Call({"pcm"}, {}, {}), Call({"hw"}, {}, {"pcm"}),
     Call({}, {}, {"hw", "pcm"}), Do({}, {"hw", "pcm"}) >>

(* the closure's errors run into the CoUninitialize that follows it *)
WasapiFormat ==
  << Lib("ole32"), Do({"com"}, {}),
     GetEnumerator({"com"}), GetEndpoint({"com"}), ActivateClient({"com"}), GetMixFormat({"com"}),
     Do({}, {"wfx", "client"}), Call({}, {}, {"com"}), Do({}, {"com"}) >>

CoreAudioFormat == << Lib(Hal), NeedDefault, Call({}, {}, {}) >>

AlsaDevices ==
  << Lib("libasound"), List({"hints"}, {}, {}), Walk, Do({}, {"hints"}) >>

(* mutant of WasapiDevices: a failed GetCount returns with the collection *)
WasapiDevicesLeaky ==
  << Lib("ole32"), Do({"com"}, {}), Call({"enum"}, {}, {"com"}), ReadDefault,
     List({"collection"}, {"enum"}, {"enum", "com"}), Call({}, {}, {"com"}),
     Walk, Do({}, {"collection", "com"}) >>

WasapiDevices ==
  << Lib("ole32"), Do({"com"}, {}), Call({"enum"}, {}, {"com"}), ReadDefault,
     List({"collection"}, {"enum"}, {"enum", "com"}), Call({}, {}, {"collection", "com"}),
     Walk, Do({}, {"collection", "com"}) >>

CoreAudioDevices == << Lib(Hal), ReadDefault, ListOrNothing, Walk >>

Format == [alsa |-> AlsaFormat, wasapi |-> WasapiFormat, coreaudio |-> CoreAudioFormat]

Devices == [alsa |-> AlsaDevices, wasapi |-> WasapiDevices, coreaudio |-> CoreAudioDevices]

(* the trait reduces output_devices(); CoreAudio asks the HAL directly *)
DefaultDevice == [Devices EXCEPT !["coreaudio"] = << Lib(Hal), ReadDefault >>]

OrNotImplemented(table, b) == IF b \in DOMAIN table THEN table[b] ELSE NotImplemented

Script(b, op) ==
  CASE op = "probe"   -> OrNotImplemented(Probe, b)
    [] op = "open"    -> OrNotImplemented(Open, b)
    [] op = "format"  -> OrNotImplemented(Format, b)
    [] op = "devices" -> OrNotImplemented(Devices, b)
    [] op = "default" -> OrNotImplemented(DefaultDevice, b)
=============================================================================
