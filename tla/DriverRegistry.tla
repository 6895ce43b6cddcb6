--------------------------- MODULE DriverRegistry ---------------------------
(***************************************************************************)
(* The calls that need no stream (lib.rs): probe(), default_driver(),      *)
(* status(), open_default(), open() of a named driver, output_devices(),   *)
(* default_output_device() and preferred_format().  They keep no state but *)
(* the LibCache; what is hard is that the host changes under them: a       *)
(* library is installed or removed, a sound server goes down, a device is  *)
(* plugged in, the default moves, between any two steps of a call.         *)
(*                                                                         *)
(* A thread makes one call after another.  A call is a list of jobs        *)
(* [driver, op], each run by its script from BackendScripts.               *)
(***************************************************************************)
EXTENDS LibCache, BackendScripts, FiniteSets

CONSTANTS
  Hosts,       \* the hosts to start on: [platform, features, libs, up, present, default]
  Calls,       \* [api, driver] a thread may call
  Catalog,     \* every device name, in the order the system lists them
  Inputs,      \* those that only capture
  None,        \* no device, no driver
  VolatileLibs, VolatileBackends, VolatileDevices,  \* what comes and goes
  MaxChanges,  \* bound: changes of the host,
  MaxRaced     \* bound: of them, up to here also while several calls are under way

Elements(seq) == {seq[i] : i \in 1..Len(seq)}

HostType ==
  [platform : Platforms, features : SUBSET Backends, libs : SUBSET Libs, up : SUBSET Backends,
   present : SUBSET Elements(Catalog), default : Elements(Catalog) \cup {None}]

(* the calls about no driver in particular, and those of one *)
CallType ==
  [api : {"probe", "default_driver", "open_default"}, driver : {None}]
  \cup [api : {"status", "open", "devices", "default", "format"}, driver : Backends]

AlsaDefault == Catalog[1]   \* the PCM ALSA calls the default

(* external: the device a system may have as default, of those present.    *)
(* ALSA calls one PCM the default; elsewhere the system names a device     *)
Defaults(platform, present) ==
  IF platform = "linux" THEN {IF AlsaDefault \in present THEN AlsaDefault ELSE None}
  ELSE (present \ Inputs) \cup {None}

ASSUME RegistryAssumption ==
  /\ Hosts \subseteq HostType
  /\ \A h \in Hosts : h.default \in Defaults(h.platform, h.present)
  /\ Len(Catalog) \in Nat /\ AlsaDefault \in Elements(Catalog) \ Inputs
  /\ None \notin Elements(Catalog) \cup Backends
  /\ Calls \subseteq CallType
  /\ VolatileLibs \subseteq Libs /\ VolatileBackends \subseteq Backends
  /\ VolatileDevices \subseteq Elements(Catalog)
  /\ MaxChanges \in Nat /\ MaxRaced \in 0..MaxChanges
  /\ {LibOf[b] : b \in DOMAIN LibOf} \cup {Hal} \subseteq Libs
  /\ \A b \in DOMAIN LibOf : LibOf[b] \notin Sticky   \* lib() tries a failed load again

VARIABLES
  host,     \* external: what the system has and has working
  changes,  \* history: changes of the host
  th        \* the threads

vars == <<cacheVars, host, changes, th>>

Drivers == DRIVERS(host.platform, host.features)

Playable == Elements(Catalog) \ Inputs

Idle ==
  [call |-> [api |-> "none", driver |-> None],
   todo |-> <<>>,        \* jobs left
   at |-> 1,             \* the step of the first job's script
   sub |-> "out",        \* inside lib(): "out", "check" or "load"
   found |-> <<>>,       \* drivers whose job succeeded
   fault |-> "none",     \* the last error
   opening |-> FALSE,    \* open_default() has probed
   held |-> {},          \* resources held
   astray |-> FALSE,     \* history: one was acquired twice, or released and not held
   tag |-> None,         \* the default device read
   pending |-> {},       \* devices the walk has yet to look at
   listed |-> <<>>,      \* entries produced
   skipped |-> {},       \* history: devices the system would not describe
   refused |-> FALSE,    \* an empty answer stands for a refusal or for no implementation
   seen |-> {}]          \* history: the hosts since the call began

Init ==
  /\ CacheInit
  /\ host \in Hosts
  /\ changes = 0
  /\ th = [t \in Threads |-> Idle]

-----------------------------------------------------------------------------
(* The calls *)

Jobs(drivers, op) == [i \in 1..Len(drivers) |-> [driver |-> drivers[i], op |-> op]]

(* what status() asks: stubs are not probed *)
Asked(call) ==
  CASE call.api \in {"probe", "default_driver", "open_default"} -> Jobs(Drivers, "probe")
    [] call.api = "status" ->
         Jobs(IF call.driver \in Stubs THEN <<>> ELSE <<call.driver>>, "probe")
    [] OTHER -> Jobs(<<call.driver>>, call.api)   \* "open", "devices", "default", "format"

Begin(t, call) ==
  /\ th[t].call.api = "none"
  /\ call.driver \in Elements(Drivers) \cup {None}
  /\ th' = [th EXCEPT ![t] = [Idle EXCEPT !.call = call, !.todo = Asked(call), !.seen = {host}]]
  /\ UNCHANGED <<cacheVars, host, changes>>

Running(t) == th[t].todo # <<>>
Job(t) == Head(th[t].todo)
ScriptOf(t) == Script(Job(t).driver, Job(t).op)
Current(t) == ScriptOf(t)[th[t].at]

(* Driver::output_devices() and its two siblings answer an empty list or   *)
(* None where the backend says NotImplemented                              *)
Softened(r, fault) ==
  IF fault = "stub" /\ r.call.api \in {"devices", "default", "format"}
  THEN [r EXCEPT !.refused = TRUE]
  ELSE [r EXCEPT !.fault = fault]

(* the job's error; probe() goes on to the next driver *)
JobFailed(r, fault) ==
  [Softened(r, fault) EXCEPT !.at = 1, !.sub = "out", !.todo = Tail(@)]

(* the step is done, and with the last one the job *)
StepDone(t, r) ==
  IF r.at < Len(ScriptOf(t)) THEN [r EXCEPT !.at = @ + 1, !.sub = "out"]
  ELSE [r EXCEPT !.at = 1, !.sub = "out", !.todo = Tail(@),
                 !.found = Append(@, Job(t).driver)]

Ledger(r, got, freed) ==
  [r EXCEPT !.held = (@ \cup got) \ freed,
            !.astray = @ \/ got \cap r.held # {} \/ ~(freed \subseteq r.held \cup got)]

At(t, kinds) == Running(t) /\ Current(t).kind \in kinds

Becomes(t, r) ==
  /\ th' = [th EXCEPT ![t] = r]
  /\ UNCHANGED <<host, changes>>

(* open_default: the first driver probe() found is opened, and no other *)
First(found) == found[1]

OpenFound(t) ==
  /\ th[t].call.api = "open_default"
  /\ ~Running(t) /\ ~th[t].opening
  /\ th[t].found # <<>>
  /\ Becomes(t, [th[t] EXCEPT !.opening = TRUE, !.fault = "none",
                              !.todo = Jobs(<<First(th[t].found)>>, "open")])
  /\ UNCHANGED cacheVars

-----------------------------------------------------------------------------
(* lib(), ca_lib() *)

LockLib(t) ==
  /\ At(t, {"lib"}) /\ th[t].sub = "out"
  /\ Lock(t, Current(t).lib)
  /\ Becomes(t, [th[t] EXCEPT !.sub = "check"])

(* ca_lib() answers None for a failure it remembers, and its callers       *)
(* report a backend that is not implemented                                *)
FindLib(t) ==
  /\ At(t, {"lib"}) /\ th[t].sub = "check"
  /\ Hit(Current(t).lib)
  /\ Becomes(t, IF slot[Current(t).lib] = Failed THEN JobFailed(th[t], "stub")
                ELSE StepDone(t, th[t]))

MissLib(t) ==
  /\ At(t, {"lib"}) /\ th[t].sub = "check"
  /\ Miss(Current(t).lib)
  /\ Becomes(t, [th[t] EXCEPT !.sub = "load"])

LoadLib(t) ==
  /\ At(t, {"lib"}) /\ th[t].sub = "load"
  /\ Current(t).lib \in host.libs
  /\ Load(Current(t).lib)
  /\ Becomes(t, StepDone(t, th[t]))

LoadLibFails(t) ==
  /\ At(t, {"lib"}) /\ th[t].sub = "load"
  /\ Current(t).lib \notin host.libs
  /\ LoadFails(Current(t).lib)
  /\ Becomes(t, JobFailed(th[t], IF Current(t).lib = Hal THEN "stub" ELSE "library"))

-----------------------------------------------------------------------------
(* The steps of a script *)

(* external: a call into a backend that works succeeds, into one that does *)
(* not fails; while enumerating either may happen                          *)
MaySucceed(t) == Job(t).op \in {"devices", "default"} \/ Job(t).driver \in host.up
MayFail(t) == Job(t).op \in {"devices", "default"} \/ Job(t).driver \notin host.up

StepOk(t) ==
  /\ At(t, {"call", "do"})
  /\ Current(t).kind = "call" => MaySucceed(t)
  /\ Becomes(t, StepDone(t, Ledger(th[t], Current(t).got, Current(t).freed)))
  /\ UNCHANGED cacheVars

StepFails(t) ==
  /\ At(t, {"call", "list"})
  /\ MayFail(t)
  /\ Becomes(t, JobFailed(Ledger(th[t], {}, Current(t).undone), "device"))
  /\ UNCHANGED cacheVars

StubFails(t) ==
  /\ At(t, {"stub"})
  /\ Becomes(t, JobFailed(th[t], "stub"))
  /\ UNCHANGED cacheVars

GetDefault(t) ==
  /\ At(t, {"default", "need"})
  /\ Current(t).kind = "need" => host.default # None
  /\ Becomes(t, StepDone(t, [th[t] EXCEPT !.tag = host.default]))
  /\ UNCHANGED cacheVars

(* the question itself is refused: the call goes on without a default *)
DefaultRefused(t) ==
  /\ At(t, {"default"})
  /\ Becomes(t, StepDone(t, [th[t] EXCEPT !.refused = TRUE]))
  /\ UNCHANGED cacheVars

NoDefault(t) ==
  /\ At(t, {"need"})
  /\ host.default = None \/ MayFail(t)
  /\ Becomes(t, JobFailed(th[t], "device"))
  /\ UNCHANGED cacheVars

(* WASAPI asks for render endpoints; the others list every device *)
Snapshot(b) == IF b = "wasapi" THEN host.present \ Inputs ELSE host.present

GetList(t) ==
  /\ At(t, {"list", "try"})
  /\ Becomes(t, StepDone(t, [Ledger(th[t], Current(t).got, Current(t).freed)
                               EXCEPT !.pending = Snapshot(Job(t).driver)]))
  /\ UNCHANGED cacheVars

HalListsNothing(t) ==
  /\ At(t, {"try"})
  /\ Becomes(t, StepDone(t, [th[t] EXCEPT !.refused = TRUE]))
  /\ UNCHANGED cacheVars

(* mutant of Kept: no filter for devices that only capture *)
KeptAll(b, d) == TRUE

(* a device that is described is kept if it plays: ALSA's hint says so,    *)
(* CoreAudio asks it now, and WASAPI's list has no other                   *)
Kept(b, d) ==
  CASE b = "alsa"      -> d \notin Inputs
    [] b = "coreaudio" -> d \notin Inputs /\ d \in host.present
    [] b = "wasapi"    -> TRUE

(* mutant of IsDefault: ALSA's rule for every backend *)
FirstIsDefault(b, d, tag) == d = AlsaDefault

(* ALSA's default is the entry of that name *)
IsDefault(b, d, tag) == IF b = "alsa" THEN d = AlsaDefault ELSE d = tag

(* the walk follows the order of the catalog *)
Foremost(pending) ==
  {d \in pending : \E i \in 1..Len(Catalog) :
                     d = Catalog[i] /\ \A j \in 1..(i - 1) : Catalog[j] \notin pending}

WalkOn(t) ==
  /\ At(t, {"walk"})
  /\ \E d \in Foremost(th[t].pending) :
       Becomes(t, [th[t] EXCEPT
         !.pending = @ \ {d},
         !.listed = IF Kept(Job(t).driver, d)
                    THEN Append(@, [id |-> d,
                                    isDefault |-> IsDefault(Job(t).driver, d, th[t].tag)])
                    ELSE @])
  /\ UNCHANGED cacheVars

(* the system does not hand over the item, or its stream configuration,    *)
(* though the device may be there: it is left out without an error         *)
SkipDevice(t) ==
  /\ At(t, {"walk"})
  /\ Job(t).driver \in {"wasapi", "coreaudio"}
  /\ \E d \in Foremost(th[t].pending) :
       Becomes(t, [th[t] EXCEPT !.pending = @ \ {d}, !.skipped = @ \cup {d}])
  /\ UNCHANGED cacheVars

WalkEnds(t) ==
  /\ At(t, {"walk"}) /\ th[t].pending = {}
  /\ Becomes(t, StepDone(t, th[t]))
  /\ UNCHANGED cacheVars

Finished(t) ==
  /\ th[t].call.api # "none"
  /\ ~Running(t)
  /\ th[t].call.api = "open_default" => th[t].opening \/ th[t].found = <<>>

(* the caller has its answer, and may call again *)
Return(t) ==
  /\ Finished(t)
  /\ Becomes(t, Idle)
  /\ UNCHANGED cacheVars

ThreadStep(t) ==
  \/ \E call \in Calls : Begin(t, call)
  \/ OpenFound(t)
  \/ LockLib(t) \/ FindLib(t) \/ MissLib(t) \/ LoadLib(t) \/ LoadLibFails(t)
  \/ StepOk(t) \/ StepFails(t) \/ StubFails(t)
  \/ GetDefault(t) \/ DefaultRefused(t) \/ NoDefault(t)
  \/ GetList(t) \/ HalListsNothing(t) \/ WalkOn(t) \/ SkipDevice(t)
  \/ WalkEnds(t) \/ Return(t)

-----------------------------------------------------------------------------
(* The host changes *)

HostBecomes(h) ==
  /\ h # host
  /\ changes < IF Cardinality({t \in Threads : th[t] # Idle}) > 1 THEN MaxRaced ELSE MaxChanges
  /\ host' = h
  /\ changes' = changes + 1
  /\ th' = [t \in Threads |->
              IF th[t].call.api = "none" \/ Finished(t) THEN th[t]
              ELSE [th[t] EXCEPT !.seen = @ \cup {h}]]
  /\ UNCHANGED cacheVars

Flip(set, x) == IF x \in set THEN set \ {x} ELSE set \cup {x}

LibChanges ==
  \E l \in VolatileLibs :
    /\ \E b \in Elements(Drivers), op \in {"probe", "devices"} :
         Script(b, op)[1] = Lib(l)   \* a library some backend of this host loads
    /\ HostBecomes([host EXCEPT !.libs = Flip(@, l)])

ServiceChanges ==
  \E b \in VolatileBackends \cap Elements(Drivers) :
    HostBecomes([host EXCEPT !.up = Flip(@, b)])

DeviceChanges ==
  \E now \in {host.present} \cup {Flip(host.present, d) : d \in VolatileDevices} :
    \E new \in Defaults(host.platform, now) :
      HostBecomes([host EXCEPT !.present = now, !.default = new])

Next ==
  \/ \E t \in Threads : ThreadStep(t)
  \/ LibChanges \/ ServiceChanges \/ DeviceChanges

Spec == Init /\ [][Next]_vars

-----------------------------------------------------------------------------
TypeOK ==
  /\ CacheTypeOK
  /\ host \in HostType
  /\ changes \in 0..MaxChanges
  /\ \A t \in Threads :
       /\ th[t].sub \in {"out", "check", "load"}
       /\ th[t].fault \in {"none", "stub", "library", "device"}
       /\ th[t].tag \in Elements(Catalog) \cup {None}
       /\ th[t].held \subseteq Resources

Position(b) == CHOOSE i \in 1..Len(Drivers) : Drivers[i] = b

(* of the hosts seen, b was not usable on one, or opened on one; the       *)
(* virtual driver always opens                                             *)
Unusable(seen, b) ==
  \/ b \in Stubs
  \/ \E h \in seen : b \notin h.up \/ (b # "mock" /\ LibOf[b] \notin h.libs)

Opens(seen, b) == b = "mock" \/ \E h \in seen : b \in h.up

(* What probe() says of a host that changes under it: the drivers found    *)
(* are in the platform's order, each opened at some moment of the call,    *)
(* and each one missing was unusable at some moment (lib.rs, probe and     *)
(* status).  So a driver usable throughout is never left out, and a cached *)
(* failure never stands for the present.                                   *)
ProbeSound ==
  \A t \in Threads :
    Finished(t) /\ th[t].call.api \in {"probe", "default_driver", "status"} =>
      LET found == th[t].found
          asked == IF th[t].call.api = "status" THEN {th[t].call.driver} ELSE Elements(Drivers)
      IN /\ \A i, j \in 1..Len(found) : i < j => Position(found[i]) < Position(found[j])
         /\ \A b \in Elements(found) : b \in asked \ Stubs /\ Opens(th[t].seen, b)
         /\ \A b \in asked \ Elements(found) : Unusable(th[t].seen, b)

(* open_default() opens the best driver that worked, and what it reports   *)
(* otherwise is true of the driver it chose: the library it has just       *)
(* probed through is never reported as missing, and there is no driver     *)
(* only if none was usable all along (lib.rs, open_default).               *)
OpenDefaultSound ==
  \A t \in Threads :
    Finished(t) /\ th[t].call.api = "open_default" =>
      LET r == th[t]
      IN IF r.opening
         THEN /\ \A i \in 1..Position(First(r.found)) - 1 : Unusable(r.seen, Drivers[i])
              /\ r.fault \in {"none", "device"}
              /\ r.fault = "device" => Unusable(r.seen, First(r.found))
         ELSE \A b \in Elements(Drivers) : Unusable(r.seen, b)

(* Nothing a query acquired outlives it, on any exit, and nothing is       *)
(* released twice. The exceptions are those of WASAPI's probe(), which     *)
(* keeps the mix format when it succeeds and COM when it fails.            *)
KeptByProbe(r) ==
  IF r.call.api \notin {"probe", "default_driver", "status", "open_default"} THEN {}
  ELSE IF "wasapi" \in Elements(r.found) THEN {"wfx"} ELSE {"com"}

Balanced ==
  \A t \in Threads :
    /\ ~th[t].astray
    /\ ~Running(t) => th[t].held \subseteq KeptByProbe(th[t])

Entries(t) == Elements(th[t].listed)
Tagged(t) == {e.id : e \in {x \in Entries(t) : x.isDefault}}

Queried(t, api) == Finished(t) /\ th[t].call.api = api /\ th[t].fault = "none"

Listed(t) ==
  \/ Queried(t, "devices")
  \/ Queried(t, "default") /\ th[t].call.driver # "coreaudio"

(* A list of devices made while they come and go: every entry can play     *)
(* and was there, one that was there throughout is listed unless the       *)
(* system would not describe it, none twice, and the entry tagged as       *)
(* default was the default at some moment (enumerate_output_devices,       *)
(* AlsaLib::enumerate).                                                    *)
ListSound ==
  \A t \in Threads :
    Listed(t) =>
      LET r == th[t]
          ids == [i \in 1..Len(r.listed) |-> r.listed[i].id]
      IN /\ \A i, j \in 1..Len(ids) : ids[i] = ids[j] => i = j
         /\ \A d \in Elements(ids) : d \in Playable /\ \E h \in r.seen : d \in h.present
         /\ ~r.refused =>
              \A d \in Playable \ r.skipped :
                (\A h \in r.seen : d \in h.present) => d \in Elements(ids)
         /\ \A d \in Tagged(t) : \E h \in r.seen : h.default = d

DefaultDeviceOf(t) ==
  IF th[t].call.driver = "coreaudio" /\ th[t].call.api = "default" THEN th[t].tag
  ELSE IF Tagged(t) = {} THEN None ELSE CHOOSE d \in Tagged(t) : TRUE

(* default_output_device() is what a scan of output_devices() would say:   *)
(* both name the default of some moment of the call, and if the default    *)
(* did not move and was described both name it (backend.rs, and            *)
(* CoreAudio's override).                                                  *)
DefaultAgrees ==
  \A t \in Threads :
    Queried(t, "default") \/ Queried(t, "devices") =>
      LET defaults == {h.default : h \in th[t].seen}
      IN /\ DefaultDeviceOf(t) \in defaults \cup {None}
         /\ ~th[t].refused /\ defaults \cap th[t].skipped = {} /\ (\A d, e \in defaults : d = e)
              => DefaultDeviceOf(t) \in defaults
=============================================================================
