CONSTANTS
  t1 = t1
  t2 = t2
  usual = usual
  usb = usb
  mic = mic
  None = None
  Nobody = Nobody
  Empty = Empty
  Failed = Failed
  Threads = {t1, t2}
  Libs = {"libpulse", "libasound", "libc", "ole32", "AudioToolbox", "CoreAudio"}
  Sticky = {"CoreAudio"}
  Catalog <- MCCatalog
  Inputs = {mic}
  Hosts <- MCHosts
  Calls <- MCCalls
  VolatileLibs = {"libpulse", "CoreAudio"}
  VolatileBackends = {"pulse", "wasapi", "coreaudio"}
  VolatileDevices = {usual, usb}
  MaxChanges = 2
  MaxRaced = 1
SYMMETRY Symmetry
SPECIFICATION Spec
INVARIANTS
  LoadedOnce
  ProbeSound
  OpenDefaultSound
  Balanced
  ListSound
  DefaultAgrees
