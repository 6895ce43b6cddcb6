------------------------------ MODULE LibCache ------------------------------
(***************************************************************************)
(* The shared libraries a process has loaded: the static CACHED slot and   *)
(* its mutex in the lib() of each backend, and in ca_lib() and cf_lib() of *)
(* coreaudio.rs.  A lib() that fails to load leaves its slot empty and     *)
(* tries again next time; the other two remember the failure.              *)
(*                                                                         *)
(* The operators are the steps of a thread inside one of these functions;  *)
(* the module that has the threads says when they take them.               *)
(***************************************************************************)
EXTENDS Naturals

CONSTANTS
  Threads,
  Libs,       \* the libraries
  Sticky,     \* those whose failed load is remembered
  Nobody,     \* the owner of a free mutex
  Empty,      \* a slot nothing was loaded into
  Failed      \* a slot that remembers a failure

ASSUME CacheAssumption ==
  /\ Sticky \subseteq Libs
  /\ Nobody \notin Threads
  /\ Empty \notin Nat /\ Failed \notin Nat /\ Empty # Failed

VARIABLES
  owner,  \* the thread inside each mutex
  slot,   \* what each mutex guards: Empty, Failed or a handle's number
  loads   \* history: how often each library was loaded

cacheVars == <<owner, slot, loads>>

CacheInit ==
  /\ owner = [l \in Libs |-> Nobody]
  /\ slot = [l \in Libs |-> Empty]
  /\ loads = [l \in Libs |-> 0]

(* mutant of Free: the slot is no mutex *)
NeverLocked(l) == TRUE
Free(l) == owner[l] = Nobody

Lock(t, l) ==
  /\ Free(l)
  /\ owner' = [owner EXCEPT ![l] = t]
  /\ UNCHANGED <<slot, loads>>

Unlock(l) == owner' = [owner EXCEPT ![l] = Nobody]

(* the slot is filled: return what it holds *)
Hit(l) ==
  /\ slot[l] # Empty
  /\ Unlock(l)
  /\ UNCHANGED <<slot, loads>>

(* it is not: go on to the load, the mutex still held *)
Miss(l) ==
  /\ slot[l] = Empty
  /\ UNCHANGED cacheVars

(* mutant of Stored: the handle is returned and not kept *)
NotStored(handle) == Empty
Stored(handle) == handle

Load(l) ==
  /\ loads' = [loads EXCEPT ![l] = @ + 1]
  /\ slot' = [slot EXCEPT ![l] = Stored(loads'[l])]
  /\ Unlock(l)

(* mutant of AfterFailure: every slot remembers a failure *)
FailureKept(l) == Failed
AfterFailure(l) == IF l \in Sticky THEN Failed ELSE Empty

LoadFails(l) ==
  /\ slot' = [slot EXCEPT ![l] = AfterFailure(l)]
  /\ Unlock(l)
  /\ UNCHANGED loads

CacheTypeOK ==
  /\ owner \in [Libs -> Threads \cup {Nobody}]
  /\ slot \in [Libs -> Nat \cup {Empty, Failed}]
  /\ loads \in [Libs -> Nat]

(* However threads race for the first use, a library is loaded once, so    *)
(* all of them call through the same handle (lib() in every backend).      *)
LoadedOnce ==
  \A l \in Libs :
    /\ loads[l] <= 1
    /\ slot[l] \in Nat => slot[l] = loads[l]
=============================================================================
