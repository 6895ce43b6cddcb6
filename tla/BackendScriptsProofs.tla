------------------------ MODULE BackendScriptsProofs ------------------------
(***************************************************************************)
(* What the scripts of BackendScripts hold between two steps, and that     *)
(* each gives back what it took, on every exit, but WASAPI's probe().      *)
(***************************************************************************)
EXTENDS BackendScripts, Integers, TLAPS

Ops == {"probe", "open", "devices", "default", "format"}

(* what is held before each step of a script *)
HeldAlong(b, op) ==
  CASE op = "probe" /\ b = "pulse" -> << {}, {}, {"conn"} >>
    [] op = "probe" /\ b = "alsa" -> << {}, {}, {"pcm"} >>
    [] op = "probe" /\ b = "oss" -> << {}, {}, {"fd"} >>
    [] op = "probe" /\ b = "coreaudio" -> << {}, {}, {"queue"} >>
    [] op = "probe" /\ b = "wasapi" ->
         << {}, {}, {"com"}, {"com", "enum"}, {"com", "device"}, {"com", "client"},
            {"com", "client", "wfx"} >>
    [] op = "format" /\ b = "alsa" ->
         << {}, {}, {"pcm"}, {"pcm", "hw"}, {"pcm", "hw"} >>
    [] op = "format" /\ b = "wasapi" ->
         << {}, {}, {"com"}, {"com", "enum"}, {"com", "device"}, {"com", "client"},
            {"com", "client", "wfx"}, {"com"}, {"com"} >>
    [] op \in {"devices", "default"} /\ b = "alsa" -> << {}, {}, {"hints"}, {"hints"} >>
    [] op \in {"devices", "default"} /\ b = "wasapi" ->
         << {}, {}, {"com"}, {"com", "enum"}, {"com", "enum"}, {"com", "collection"},
            {"com", "collection"}, {"com", "collection"} >>
    [] OTHER -> [i \in 1..4 |-> {}]

(* WASAPI's probe() keeps the mix format if it succeeds, COM if it fails *)
Leaks(b, op) == b = "wasapi" /\ op = "probe"
Leaked == {"wfx", "com"}
LeftBy(b, op) == IF Leaks(b, op) THEN {"wfx"} ELSE {}
LeftByError(b, op) == IF Leaks(b, op) THEN {"com"} ELSE {}

(* A step acquires what is not held and releases what is, and so does its  *)
(* error exit, which leaves nothing held but the leak.  What was leaked by *)
(* an earlier probe() is not touched by the calls that may follow it.      *)
StepFits(step, before, after, b, op) ==
  /\ step.got \subseteq Resources /\ step.got \cap before = {}
  /\ step.freed \subseteq before \cup step.got
  /\ after = (before \cup step.got) \ step.freed
  /\ step.kind \in {"call", "list"} =>
       step.undone \subseteq before /\ before \ step.undone \subseteq LeftByError(b, op)
  /\ step.kind \in {"lib", "stub", "need"} => before = {}
  /\ step.kind \in {"lib", "stub", "need", "default", "try", "walk"} =>
       step.got = {} /\ step.freed = {}
  /\ ~Leaks(b, op) /\ op \in {"probe", "open"} =>
       (before \cup step.got \cup step.freed) \cap Leaked = {}

FitsAlong(s, held, b, op) ==
  /\ Len(s) \in Nat \ {0}
  /\ held[1] = {}
  /\ \A i \in 1..(Len(s) - 1) : StepFits(s[i], held[i], held[i + 1], b, op)
  /\ StepFits(s[Len(s)], held[Len(s)], LeftBy(b, op), b, op)

Fits(b, op) == FitsAlong(Script(b, op), HeldAlong(b, op), b, op)

-----------------------------------------------------------------------------
(* One lemma for each length of script.                                    *)
(* The four probes that open something and close it.                       *)
LEMMA ProbeFits ==
  ASSUME NEW b, NEW op, NEW l, NEW r, op = "probe", r \in Resources \ Leaked, b # "wasapi",
         Script(b, op) = << Lib(l), Call({r}, {}, {}), Do({}, {r}) >>,
         HeldAlong(b, op) = << {}, {}, {r} >>
  PROVE  Fits(b, op)
<1> DEFINE s == << Lib(l), Call({r}, {}, {}), Do({}, {r}) >>
           h == << {}, {}, {r} >>
           F(i, after) == StepFits(s[i], h[i], after, b, op)
<1>1. Script(b, op) = s
  OBVIOUS
<1>2. HeldAlong(b, op) = h
  BY DEF HeldAlong
<1>3. Len(s) = 3 /\ h[1] = {}
  OBVIOUS
<1>4. /\ F(1, h[2]) /\ F(2, h[3]) /\ F(3, LeftBy(b, op))
  BY DEF StepFits, Resources, Leaks, Leaked, LeftBy, LeftByError, Lib, Call, Do, List, ReadDefault,
     NeedDefault, ListOrNothing, Walk, Step
<1> HIDE DEF s, h
<1>5. FitsAlong(s, h, b, op)
  BY <1>3, <1>4 DEF FitsAlong
<1>6. QED
  BY <1>1, <1>2, <1>5 DEF Fits

LEMMA WasapiProbeFits ==
  ASSUME NEW b, NEW op, b = "wasapi", op = "probe"
  PROVE  Fits(b, op)
<1> DEFINE s == WasapiProbe
           h == << {}, {}, {"com"}, {"com", "enum"}, {"com", "device"}, {"com", "client"},
                 {"com", "client", "wfx"} >>
           F(i, after) == StepFits(s[i], h[i], after, b, op)
<1>1. Script(b, op) = s
  BY DEF Script, OrNotImplemented, Probe
<1>2. HeldAlong(b, op) = h
  BY DEF HeldAlong
<1>3. Len(s) = 7 /\ h[1] = {}
  BY DEF WasapiProbe, GetEnumerator, GetEndpoint, ActivateClient, GetMixFormat
<1>4. /\ F(1, h[2]) /\ F(2, h[3]) /\ F(3, h[4]) /\ F(4, h[5])
      /\ F(5, h[6]) /\ F(6, h[7]) /\ F(7, LeftBy(b, op))
  BY DEF StepFits, Resources, Leaks, Leaked, LeftBy, LeftByError, Lib, Call, Do, List, ReadDefault,
     NeedDefault, ListOrNothing, Walk, Step, WasapiProbe, GetEnumerator, GetEndpoint,
     ActivateClient, GetMixFormat
<1> HIDE DEF s, h
<1>5. FitsAlong(s, h, b, op)
  BY <1>3, <1>4 DEF FitsAlong
<1>6. QED
  BY <1>1, <1>2, <1>5 DEF Fits

LEMMA WasapiFormatFits ==
  ASSUME NEW b, NEW op, b = "wasapi", op = "format"
  PROVE  Fits(b, op)
<1> DEFINE s == WasapiFormat
           h == << {}, {}, {"com"}, {"com", "enum"}, {"com", "device"}, {"com", "client"},
                 {"com", "client", "wfx"}, {"com"}, {"com"} >>
           F(i, after) == StepFits(s[i], h[i], after, b, op)
<1>1. Script(b, op) = s
  BY DEF Script, OrNotImplemented, Format
<1>2. HeldAlong(b, op) = h
  BY DEF HeldAlong
<1>3. Len(s) = 9 /\ h[1] = {}
  BY DEF WasapiFormat, GetEnumerator, GetEndpoint, ActivateClient, GetMixFormat
<1>4. /\ F(1, h[2]) /\ F(2, h[3]) /\ F(3, h[4]) /\ F(4, h[5])
      /\ F(5, h[6]) /\ F(6, h[7]) /\ F(7, h[8]) /\ F(8, h[9])
      /\ F(9, LeftBy(b, op))
  BY DEF StepFits, Resources, Leaks, Leaked, LeftBy, LeftByError, Lib, Call, Do, List, ReadDefault,
     NeedDefault, ListOrNothing, Walk, Step, WasapiFormat, GetEnumerator, GetEndpoint,
     ActivateClient, GetMixFormat
<1> HIDE DEF s, h
<1>5. FitsAlong(s, h, b, op)
  BY <1>3, <1>4 DEF FitsAlong
<1>6. QED
  BY <1>1, <1>2, <1>5 DEF Fits

LEMMA AlsaFormatFits ==
  ASSUME NEW b, NEW op, b = "alsa", op = "format"
  PROVE  Fits(b, op)
<1> DEFINE s == AlsaFormat
           h == << {}, {}, {"pcm"}, {"pcm", "hw"}, {"pcm", "hw"} >>
           F(i, after) == StepFits(s[i], h[i], after, b, op)
<1>1. Script(b, op) = s
  BY DEF Script, OrNotImplemented, Format
<1>2. HeldAlong(b, op) = h
  BY DEF HeldAlong
<1>3. Len(s) = 5 /\ h[1] = {}
  BY DEF AlsaFormat
<1>4. /\ F(1, h[2]) /\ F(2, h[3]) /\ F(3, h[4]) /\ F(4, h[5])
      /\ F(5, LeftBy(b, op))
  BY DEF StepFits, Resources, Leaks, Leaked, LeftBy, LeftByError, Lib, Call, Do, List, ReadDefault,
     NeedDefault, ListOrNothing, Walk, Step, AlsaFormat
<1> HIDE DEF s, h
<1>5. FitsAlong(s, h, b, op)
  BY <1>3, <1>4 DEF FitsAlong
<1>6. QED
  BY <1>1, <1>2, <1>5 DEF Fits

LEMMA WasapiDevicesFit ==
  ASSUME NEW b, NEW op, b = "wasapi", op \in {"devices", "default"}
  PROVE  Fits(b, op)
<1> DEFINE s == WasapiDevices
           h == << {}, {}, {"com"}, {"com", "enum"}, {"com", "enum"}, {"com", "collection"},
                 {"com", "collection"}, {"com", "collection"} >>
           F(i, after) == StepFits(s[i], h[i], after, b, op)
<1>1. Script(b, op) = s
  BY DEF Script, OrNotImplemented, Devices, DefaultDevice
<1>2. HeldAlong(b, op) = h
  BY DEF HeldAlong
<1>3. Len(s) = 8 /\ h[1] = {}
  BY DEF WasapiDevices
<1>4. /\ F(1, h[2]) /\ F(2, h[3]) /\ F(3, h[4]) /\ F(4, h[5])
      /\ F(5, h[6]) /\ F(6, h[7]) /\ F(7, h[8]) /\ F(8, LeftBy(b, op))
  BY DEF StepFits, Resources, Leaks, Leaked, LeftBy, LeftByError, Lib, Call, Do, List, ReadDefault,
     NeedDefault, ListOrNothing, Walk, Step, WasapiDevices
<1> HIDE DEF s, h
<1>5. FitsAlong(s, h, b, op)
  BY <1>3, <1>4 DEF FitsAlong
<1>6. QED
  BY <1>1, <1>2, <1>5 DEF Fits

LEMMA AlsaDevicesFit ==
  ASSUME NEW b, NEW op, b = "alsa", op \in {"devices", "default"}
  PROVE  Fits(b, op)
<1> DEFINE s == AlsaDevices
           h == << {}, {}, {"hints"}, {"hints"} >>
           F(i, after) == StepFits(s[i], h[i], after, b, op)
<1>1. Script(b, op) = s
  BY DEF Script, OrNotImplemented, Devices, DefaultDevice
<1>2. HeldAlong(b, op) = h
  BY DEF HeldAlong
<1>3. Len(s) = 4 /\ h[1] = {}
  BY DEF AlsaDevices
<1>4. /\ F(1, h[2]) /\ F(2, h[3]) /\ F(3, h[4]) /\ F(4, LeftBy(b, op))
  BY DEF StepFits, Resources, Leaks, Leaked, LeftBy, LeftByError, Lib, Call, Do, List, ReadDefault,
     NeedDefault, ListOrNothing, Walk, Step, AlsaDevices
<1> HIDE DEF s, h
<1>5. FitsAlong(s, h, b, op)
  BY <1>3, <1>4 DEF FitsAlong
<1>6. QED
  BY <1>1, <1>2, <1>5 DEF Fits

(* Every other script holds nothing.                                       *)
HoldsNothing(step) == step.got = {} /\ step.freed = {} /\ step.undone = {}

LEMMA ShortScripts ==
  ASSUME NEW s,
         \/ s \in {NotImplemented, << Do({}, {}) >>, CoreAudioFormat, CoreAudioDevices,
                   << Lib(Hal), ReadDefault >>}
         \/ \E l : s = << Lib(l), Call({}, {}, {}) >>
  PROVE  Len(s) \in 1..4 /\ \A i \in 1..Len(s) : HoldsNothing(s[i])
<1> USE DEF HoldsNothing, Step
<1>1. CASE s = << Do({}, {}) >>
  <2>1. Len(s) = 1 /\ HoldsNothing(s[1])
    BY <1>1 DEF Do
  <2>2. QED
    BY <2>1
<1>none. CASE s = NotImplemented
  <2>1. Len(s) = 1 /\ HoldsNothing(s[1])
    BY <1>none DEF NotImplemented
  <2>2. QED
    BY <2>1
<1>2. CASE s = CoreAudioFormat
  <2>1. Len(s) = 3 /\ HoldsNothing(s[1]) /\ HoldsNothing(s[2]) /\ HoldsNothing(s[3])
    BY <1>2 DEF CoreAudioFormat, Lib, NeedDefault, Call
  <2>2. QED
    BY <2>1
<1>3. CASE s = CoreAudioDevices
  <2>1. /\ Len(s) = 4 /\ HoldsNothing(s[1]) /\ HoldsNothing(s[2]) /\ HoldsNothing(s[3])
        /\ HoldsNothing(s[4])
    BY <1>3 DEF CoreAudioDevices, Lib, ReadDefault, ListOrNothing, Walk
  <2>2. QED
    BY <2>1
<1>4. CASE s = << Lib(Hal), ReadDefault >>
  <2>1. Len(s) = 2 /\ HoldsNothing(s[1]) /\ HoldsNothing(s[2])
    BY <1>4 DEF Lib, ReadDefault
  <2>2. QED
    BY <2>1
<1>5. ASSUME NEW l, s = << Lib(l), Call({}, {}, {}) >>
      PROVE  Len(s) \in 1..4 /\ \A i \in 1..Len(s) : HoldsNothing(s[i])
  <2>1. Len(s) = 2 /\ HoldsNothing(s[1]) /\ HoldsNothing(s[2])
    BY <1>5 DEF Lib, Call
  <2>2. QED
    BY <2>1
<1>6. QED
  BY <1>1, <1>none, <1>2, <1>3, <1>4, <1>5

LEMMA NothingHeld ==
  ASSUME NEW b, NEW op, NEW s, Script(b, op) = s, HeldAlong(b, op) = [i \in 1..4 |-> {}],
         Len(s) \in 1..4, ~Leaks(b, op),
         \A i \in 1..Len(s) : HoldsNothing(s[i])
  PROVE  Fits(b, op)
<1> DEFINE h == HeldAlong(b, op)
<1>1. \A i \in 1..Len(s) : StepFits(s[i], {}, {}, b, op)
  BY DEF StepFits, HoldsNothing
<1>2. LeftBy(b, op) = {} /\ \A i \in 1..4 : h[i] = {}
  BY DEF LeftBy
<1> HIDE DEF h
<1>3. ASSUME NEW i \in 1..(Len(s) - 1) PROVE StepFits(s[i], h[i], h[i + 1], b, op)
  <2>1. i \in 1..Len(s) /\ i \in 1..4 /\ i + 1 \in 1..4
    OBVIOUS
  <2>2. StepFits(s[i], {}, {}, b, op) /\ h[i] = {} /\ h[i + 1] = {}
    BY <1>1, <1>2, <2>1
  <2>3. QED
    BY <2>2, Zenon
<1>4. StepFits(s[Len(s)], h[Len(s)], LeftBy(b, op), b, op)
  <2>1. Len(s) \in 1..Len(s)
    OBVIOUS
  <2>2. StepFits(s[Len(s)], {}, {}, b, op) /\ h[Len(s)] = {} /\ LeftBy(b, op) = {}
    BY <1>1, <1>2, <2>1
  <2>3. QED
    BY <2>2, Zenon
<1>5. FitsAlong(s, h, b, op)
  <2>1. Len(s) \in Nat \ {0} /\ h[1] = {}
    BY <1>2
  <2>2. QED
    BY <1>3, <1>4, <2>1 DEF FitsAlong
<1>6. QED
  BY <1>5 DEF Fits, h

LEMMA OpenFits ==
  ASSUME NEW b \in Backends, NEW op, op = "open"
  PROVE  Fits(b, op)
<1>1. HeldAlong(b, op) = [i \in 1..4 |-> {}] /\ ~Leaks(b, op)
  BY DEF HeldAlong, Leaks
<1>2. PICK s : Script(b, op) = s
  OBVIOUS
<1>3. \/ s = << Do({}, {}) >> \/ s = NotImplemented
      \/ \E l : s = << Lib(l), Call({}, {}, {}) >>
  BY <1>2 DEF Script, OrNotImplemented, Open
<1>4. Len(s) \in 1..4 /\ \A i \in 1..Len(s) : HoldsNothing(s[i])
  BY <1>3, ShortScripts
<1>5. QED
  BY <1>1, <1>2, <1>4, NothingHeld

LEMMA OthersFit ==
  ASSUME NEW b, NEW op, HeldAlong(b, op) = [i \in 1..4 |-> {}], ~Leaks(b, op),
         Script(b, op) \in {NotImplemented, << Do({}, {}) >>, CoreAudioFormat, CoreAudioDevices,
                            << Lib(Hal), ReadDefault >>}
  PROVE  Fits(b, op)
<1>1. PICK s : Script(b, op) = s
  OBVIOUS
<1>2. Len(s) \in 1..4 /\ \A i \in 1..Len(s) : HoldsNothing(s[i])
  BY <1>1, ShortScripts
<1>3. QED
  BY <1>1, <1>2, NothingHeld

-----------------------------------------------------------------------------
(* Whatever backend is asked for whatever, the calls it makes acquire      *)
(* nothing twice, release only what is held, and leave nothing held on any *)
(* exit, error exits included; WASAPI's probe() leaves the mix format, or  *)
(* COM if it fails (probe, preferred_format and the enumerations).         *)
THEOREM ScriptsFit == \A b \in Backends, op \in Ops : Fits(b, op)
<1> SUFFICES ASSUME NEW b \in Backends, NEW op \in Ops PROVE Fits(b, op)
  OBVIOUS
<1>1. CASE op = "open"
  BY <1>1, OpenFits
<1>2. CASE op = "probe" /\ b \in {"pulse", "alsa", "oss", "coreaudio"}
  <2>1. PICK r, l :
          /\ r \in Resources \ Leaked
          /\ Script(b, op) = << Lib(l), Call({r}, {}, {}), Do({}, {r}) >>
          /\ HeldAlong(b, op) = << {}, {}, {r} >>
    <3>1. CASE b = "pulse"
      BY <1>2, <3>1 DEF Script, OrNotImplemented, Probe, HeldAlong, Resources, Leaked
    <3>2. CASE b = "alsa"
      BY <1>2, <3>2 DEF Script, OrNotImplemented, Probe, HeldAlong, Resources, Leaked
    <3>3. CASE b = "oss"
      BY <1>2, <3>3 DEF Script, OrNotImplemented, Probe, HeldAlong, Resources, Leaked
    <3>4. CASE b = "coreaudio"
      BY <1>2, <3>4 DEF Script, OrNotImplemented, Probe, HeldAlong, Resources, Leaked
    <3>5. QED
      BY <1>2, <3>1, <3>2, <3>3, <3>4
  <2>2. QED
    BY <1>2, <2>1, ProbeFits
<1>3. CASE b = "wasapi" /\ op # "open"
  BY <1>3, WasapiProbeFits, WasapiFormatFits, WasapiDevicesFit DEF Ops
<1>4. CASE b = "alsa" /\ op \notin {"open", "probe"}
  BY <1>4, AlsaFormatFits, AlsaDevicesFit DEF Ops
<1>5. CASE /\ op # "open" /\ b \notin {"wasapi", "alsa"}
           /\ ~(op = "probe" /\ b \in {"pulse", "oss", "coreaudio"})
  <2>1. HeldAlong(b, op) = [i \in 1..4 |-> {}] /\ ~Leaks(b, op)
    BY <1>5 DEF HeldAlong, Leaks
  <2>2. Script(b, op) \in {NotImplemented, << Do({}, {}) >>, CoreAudioFormat, CoreAudioDevices,
                           << Lib(Hal), ReadDefault >>}
    BY <1>5 DEF Backends, Ops, Script, OrNotImplemented, Probe, Format, Devices, DefaultDevice
  <2>3. QED
    BY <2>1, <2>2, OthersFit
<1>6. QED
  BY <1>1, <1>2, <1>3, <1>4, <1>5
=============================================================================
