------------------------ MODULE DriverRegistryProofs ------------------------
(***************************************************************************)
(* What DriverRegistry and the LibCache under it satisfy for every value   *)
(* of their constants: any threads, libraries, calls and hosts.            *)
(***************************************************************************)
EXTENDS DriverRegistry, BackendScriptsProofs, SequenceTheorems, TLAPS

Fields == {"call", "todo", "at", "sub", "found", "fault", "opening", "held", "astray", "tag",
           "pending", "listed", "skipped", "refused", "seen"}

(* r is the record of a thread, whatever is in its fields *)
IsThread(r) == DOMAIN r = Fields /\ r = [f \in Fields |-> r[f]]

ThreadsInv == th = [t \in Threads |-> th[t]] /\ \A t \in Threads : IsThread(th[t])

(* What a slot says of the loads of its library.                           *)
SlotInv ==
  /\ CacheTypeOK
  /\ \A l \in Libs : /\ loads[l] <= 1
                     /\ slot[l] = Empty => loads[l] = 0
                     /\ slot[l] \in Nat => slot[l] = loads[l]

(* A thread inside lib() owns the mutex of the library it is at, and one   *)
(* that goes on to load has found the slot empty since.                    *)
Inside(t, l) ==
  /\ owner[l] = t
  /\ th[t].sub = "load" => slot[l] = Empty

MutexInv ==
  \A t \in Threads :
    th[t].sub # "out" => At(t, {"lib"}) /\ (Current(t).lib \in Libs => Inside(t, Current(t).lib))

CacheInv == ThreadsInv /\ SlotInv /\ MutexInv

-----------------------------------------------------------------------------
(* The operators that make a thread's next record make a record, outside   *)
(* lib() once the step or the job is over.                                 *)
LEMMA IdleIsThread == IsThread(Idle) /\ Idle.sub = "out"
  BY DEF IsThread, Fields, Idle

LEMMA LedgerIsThread ==
  ASSUME NEW r, IsThread(r), NEW got, NEW freed
  PROVE  IsThread(Ledger(r, got, freed)) /\ Ledger(r, got, freed).sub = r.sub
  BY DEF IsThread, Fields, Ledger

LEMMA StepDoneIsThread ==
  ASSUME NEW t, NEW r, IsThread(r)
  PROVE  IsThread(StepDone(t, r)) /\ StepDone(t, r).sub = "out"
  BY DEF IsThread, Fields, StepDone

LEMMA JobFailedIsThread ==
  ASSUME NEW r, IsThread(r), NEW fault
  PROVE  IsThread(JobFailed(r, fault)) /\ JobFailed(r, fault).sub = "out"
<1>1. IsThread(Softened(r, fault))
  BY DEF IsThread, Fields, Softened
<1>2. QED
  BY <1>1 DEF IsThread, Fields, JobFailed

(* A thread that ends up outside lib() leaves the others as they were.     *)
LEMMA StepOutside ==
  ASSUME CacheInv, NEW t \in Threads, NEW r, IsThread(r), r.sub = "out",
         Becomes(t, r), UNCHANGED cacheVars
  PROVE  CacheInv'
<1>1. ThreadsInv'
  BY DEF CacheInv, ThreadsInv, Becomes
<1>2. SlotInv'
  BY DEF CacheInv, SlotInv, CacheTypeOK, cacheVars
<1>3. MutexInv'
  <2> SUFFICES ASSUME NEW u \in Threads, th'[u].sub # "out"
               PROVE  (At(u, {"lib"}) /\ (Current(u).lib \in Libs => Inside(u, Current(u).lib)))'
    BY DEF MutexInv
  <2>1. u # t /\ th'[u] = th[u]
    BY DEF Becomes, CacheInv, ThreadsInv
  <2>2. QED
    BY <2>1 DEF CacheInv, MutexInv, At, Running, Current, ScriptOf, Job, Inside, cacheVars
<1>4. QED
  BY <1>1, <1>2, <1>3 DEF CacheInv

(* A thread takes a free mutex, or leaves the one it is in.                *)
LEMMA LockKeeps == \A t \in Threads : CacheInv /\ LockLib(t) => CacheInv'
<1> SUFFICES ASSUME NEW t \in Threads, CacheInv, LockLib(t) PROVE CacheInv'
  OBVIOUS
<1> DEFINE m == Current(t).lib
           r == [th[t] EXCEPT !.sub = "check"]
<1>1. At(t, {"lib"}) /\ Lock(t, m) /\ Becomes(t, r)
  BY DEF LockLib
<1>2. IsThread(r) /\ r.sub = "check" /\ r.todo = th[t].todo /\ r.at = th[t].at
  BY DEF CacheInv, ThreadsInv, IsThread, Fields
<1> HIDE DEF r
<1>3. th'[t] = r /\ \A u \in Threads \ {t} : th'[u] = th[u]
  BY <1>1 DEF Becomes, CacheInv, ThreadsInv
<1>4. ThreadsInv'
  BY <1>1, <1>2 DEF CacheInv, ThreadsInv, Becomes
<1>5. At(t, {"lib"})' /\ (Current(t).lib)' = m
  BY <1>1, <1>2, <1>3 DEF At, Running, Current, ScriptOf, Job
<1> HIDE DEF m
<1>6. /\ owner[m] = Nobody /\ owner' = [owner EXCEPT ![m] = t] /\ UNCHANGED <<slot, loads>>
      /\ owner \in [Libs -> Threads \cup {Nobody}]
  BY <1>1 DEF Lock, Free, CacheInv, SlotInv, CacheTypeOK
<1>7. SlotInv'
  BY <1>6 DEF CacheInv, SlotInv, CacheTypeOK
<1>8. MutexInv'
  <2> SUFFICES ASSUME NEW u \in Threads, th'[u].sub # "out"
               PROVE  (At(u, {"lib"}) /\ (Current(u).lib \in Libs => Inside(u, Current(u).lib)))'
    BY DEF MutexInv
  <2>1. CASE u = t
    BY <1>2, <1>3, <1>5, <1>6, <2>1 DEF Inside
  <2>2. CASE u # t
    <3>1. th'[u] = th[u]
      BY <1>3, <2>2
    <3>2. At(u, {"lib"}) /\ (Current(u).lib \in Libs => Inside(u, Current(u).lib))
      BY <3>1 DEF CacheInv, MutexInv
    <3>3. Current(u).lib \in Libs => Current(u).lib # m
      BY <1>6, <3>2, CacheAssumption DEF Inside
    <3>4. QED
      BY <1>6, <3>1, <3>2, <3>3 DEF At, Running, Current, ScriptOf, Job, Inside
  <2>3. QED
    BY <2>1, <2>2
<1>9. QED
  BY <1>4, <1>7, <1>8 DEF CacheInv

(* What a thread inside lib() may do with the slot, on its way out.        *)
LEMMA UnlockKeeps ==
  ASSUME CacheInv, NEW t \in Threads, At(t, {"lib"}), th[t].sub # "out",
         NEW r, IsThread(r), r.sub = "out", Becomes(t, r), Unlock(Current(t).lib), SlotInv',
         \A l \in Libs : l # Current(t).lib => slot'[l] = slot[l]
  PROVE  CacheInv'
<1> DEFINE m == Current(t).lib
<1>1. th'[t] = r /\ \A u \in Threads \ {t} : th'[u] = th[u]
  BY DEF Becomes, CacheInv, ThreadsInv
<1>2. ThreadsInv'
  BY DEF CacheInv, ThreadsInv, Becomes
<1>3. m \in Libs => owner[m] = t
  BY DEF CacheInv, MutexInv, Inside
<1>4. owner' = [owner EXCEPT ![m] = Nobody] /\ owner \in [Libs -> Threads \cup {Nobody}]
  BY DEF Unlock, CacheInv, SlotInv, CacheTypeOK
<1>5. \A l \in Libs : l # m => slot'[l] = slot[l]
  OBVIOUS
<1> HIDE DEF m
<1>6. MutexInv'
  <2> SUFFICES ASSUME NEW u \in Threads, th'[u].sub # "out"
               PROVE  (At(u, {"lib"}) /\ (Current(u).lib \in Libs => Inside(u, Current(u).lib)))'
    BY DEF MutexInv
  <2>1. u # t /\ th'[u] = th[u]
    BY <1>1
  <2>2. At(u, {"lib"}) /\ (Current(u).lib \in Libs => Inside(u, Current(u).lib))
    BY <2>1 DEF CacheInv, MutexInv
  <2>3. Current(u).lib \in Libs => Current(u).lib # m
    BY <1>3, <2>1, <2>2 DEF Inside
  <2>4. QED
    BY <1>4, <1>5, <2>1, <2>2, <2>3 DEF At, Running, Current, ScriptOf, Job, Inside
<1>7. QED
  BY <1>2, <1>6 DEF CacheInv

LEMMA FindKeeps == \A t \in Threads : CacheInv /\ FindLib(t) => CacheInv'
<1> SUFFICES ASSUME NEW t \in Threads, CacheInv, FindLib(t) PROVE CacheInv'
  OBVIOUS
<1>1. /\ At(t, {"lib"}) /\ th[t].sub # "out" /\ Unlock(Current(t).lib)
      /\ UNCHANGED <<slot, loads>>
      /\ Becomes(t, IF slot[Current(t).lib] = Failed THEN JobFailed(th[t], "stub")
                    ELSE StepDone(t, th[t]))
  BY DEF FindLib, Hit
<1>2. IsThread(th[t])
  BY DEF CacheInv, ThreadsInv
<1>3. PICK r : Becomes(t, r) /\ IsThread(r) /\ r.sub = "out"
  BY <1>1, <1>2, StepDoneIsThread, JobFailedIsThread
<1>4. SlotInv'
  BY <1>1 DEF CacheInv, SlotInv, CacheTypeOK, Unlock
<1>5. QED
  BY <1>1, <1>3, <1>4, UnlockKeeps

LEMMA MissKeeps == \A t \in Threads : CacheInv /\ MissLib(t) => CacheInv'
<1> SUFFICES ASSUME NEW t \in Threads, CacheInv, MissLib(t) PROVE CacheInv'
  OBVIOUS
<1> DEFINE m == Current(t).lib
           r == [th[t] EXCEPT !.sub = "load"]
<1>1. At(t, {"lib"}) /\ th[t].sub = "check" /\ slot[m] = Empty /\ Becomes(t, r)
      /\ UNCHANGED cacheVars
  BY DEF MissLib, Miss
<1>2. IsThread(r) /\ r.sub = "load" /\ r.todo = th[t].todo /\ r.at = th[t].at
  BY DEF CacheInv, ThreadsInv, IsThread, Fields
<1> HIDE DEF r
<1>3. th'[t] = r /\ \A u \in Threads \ {t} : th'[u] = th[u]
  BY <1>1 DEF Becomes, CacheInv, ThreadsInv
<1>4. ThreadsInv'
  BY <1>1, <1>2 DEF CacheInv, ThreadsInv, Becomes
<1>5. At(t, {"lib"})' /\ (Current(t).lib)' = m
  BY <1>1, <1>2, <1>3 DEF At, Running, Current, ScriptOf, Job
<1>6. m \in Libs => owner[m] = t
  BY <1>1 DEF CacheInv, MutexInv, Inside
<1> HIDE DEF m
<1>7. SlotInv'
  BY <1>1 DEF CacheInv, SlotInv, CacheTypeOK, cacheVars
<1>8. MutexInv'
  <2> SUFFICES ASSUME NEW u \in Threads, th'[u].sub # "out"
               PROVE  (At(u, {"lib"}) /\ (Current(u).lib \in Libs => Inside(u, Current(u).lib)))'
    BY DEF MutexInv
  <2>1. CASE u = t
    BY <1>1, <1>2, <1>3, <1>5, <1>6, <2>1 DEF Inside, cacheVars
  <2>2. CASE u # t
    <3>1. th'[u] = th[u]
      BY <1>3, <2>2
    <3>2. QED
      BY <1>1, <3>1 DEF CacheInv, MutexInv, At, Running, Current, ScriptOf, Job, Inside, cacheVars
  <2>3. QED
    BY <2>1, <2>2
<1>9. QED
  BY <1>4, <1>7, <1>8 DEF CacheInv

(* The slot is still empty when the load is made, so it is the first.      *)
LEMMA LoadKeeps == \A t \in Threads : CacheInv /\ LoadLib(t) => CacheInv'
<1> SUFFICES ASSUME NEW t \in Threads, CacheInv, LoadLib(t) PROVE CacheInv'
  OBVIOUS
<1> DEFINE m == Current(t).lib
           r == StepDone(t, th[t])
<1>1. At(t, {"lib"}) /\ th[t].sub = "load" /\ Load(m) /\ Becomes(t, r)
  BY DEF LoadLib
<1>2. IsThread(r) /\ r.sub = "out"
  BY StepDoneIsThread DEF CacheInv, ThreadsInv
<1>3. m \in Libs => slot[m] = Empty /\ loads[m] = 0
  BY <1>1 DEF CacheInv, MutexInv, Inside, SlotInv
<1>4. /\ loads' = [loads EXCEPT ![m] = @ + 1]
      /\ slot' = [slot EXCEPT ![m] = loads'[m]]
      /\ Unlock(m)
  BY <1>1 DEF Load, Stored
<1>5. /\ loads \in [Libs -> Nat] /\ slot \in [Libs -> Nat \cup {Empty, Failed}]
      /\ owner \in [Libs -> Threads \cup {Nobody}]
  BY DEF CacheInv, SlotInv, CacheTypeOK
<1> HIDE DEF m, r
<1>6. \A l \in Libs : l # m => slot'[l] = slot[l] /\ loads'[l] = loads[l]
  BY <1>4, <1>5
<1>7. m \in Libs => loads'[m] = 1 /\ slot'[m] = 1
  BY <1>3, <1>4, <1>5
<1>8. /\ loads' \in [Libs -> Nat] /\ slot' \in [Libs -> Nat \cup {Empty, Failed}]
      /\ owner' \in [Libs -> Threads \cup {Nobody}]
  <2>1. loads' \in [Libs -> Nat]
    <3>1. loads' = [l \in Libs |-> IF l = m THEN loads[l] + 1 ELSE loads[l]]
      BY <1>4, <1>5
    <3>2. \A l \in Libs : loads[l] \in Nat
      BY <1>5
    <3>3. \A l \in Libs : (IF l = m THEN loads[l] + 1 ELSE loads[l]) \in Nat
      BY <3>2
    <3>4. QED
      BY <3>1, <3>3
  <2>2. slot' = [l \in Libs |-> IF l = m THEN loads'[m] ELSE slot[l]]
    BY <1>4, <1>5
  <2>3. m \in Libs => loads'[m] \in Nat
    BY <2>1
  <2>4. \A l \in Libs : (IF l = m THEN loads'[m] ELSE slot[l]) \in Nat \cup {Empty, Failed}
    BY <1>5, <2>3
  <2>5. slot' \in [Libs -> Nat \cup {Empty, Failed}]
    BY <2>2, <2>4
  <2>6. owner' \in [Libs -> Threads \cup {Nobody}]
    BY <1>4, <1>5 DEF Unlock
  <2>7. QED
    BY <2>1, <2>5, <2>6
<1>9. SlotInv'
  BY <1>6, <1>7, <1>8, CacheAssumption DEF CacheInv, SlotInv, CacheTypeOK
<1>10. QED
  BY <1>1, <1>2, <1>4, <1>6, <1>9, UnlockKeeps DEF m

LEMMA LoadFailsKeeps == \A t \in Threads : CacheInv /\ LoadLibFails(t) => CacheInv'
<1> SUFFICES ASSUME NEW t \in Threads, CacheInv, LoadLibFails(t) PROVE CacheInv'
  OBVIOUS
<1> DEFINE m == Current(t).lib
           r == JobFailed(th[t], IF m = Hal THEN "stub" ELSE "library")
<1>1. At(t, {"lib"}) /\ th[t].sub = "load" /\ LoadFails(m) /\ Becomes(t, r)
  BY DEF LoadLibFails
<1>2. IsThread(r) /\ r.sub = "out"
  BY JobFailedIsThread DEF CacheInv, ThreadsInv
<1>3. m \in Libs => slot[m] = Empty /\ loads[m] = 0
  BY <1>1 DEF CacheInv, MutexInv, Inside, SlotInv
<1>4. slot' = [slot EXCEPT ![m] = AfterFailure(m)] /\ Unlock(m) /\ UNCHANGED loads
  BY <1>1 DEF LoadFails
<1>5. /\ loads \in [Libs -> Nat] /\ slot \in [Libs -> Nat \cup {Empty, Failed}]
      /\ owner \in [Libs -> Threads \cup {Nobody}]
  BY DEF CacheInv, SlotInv, CacheTypeOK
<1> HIDE DEF m, r
<1>6. \A l \in Libs : l # m => slot'[l] = slot[l]
  BY <1>4, <1>5
<1>7. m \in Libs => slot'[m] \in {Empty, Failed}
  BY <1>4, <1>5 DEF AfterFailure
<1>8. slot' \in [Libs -> Nat \cup {Empty, Failed}] /\ owner' \in [Libs -> Threads \cup {Nobody}]
  BY <1>4, <1>5 DEF Unlock, AfterFailure
<1>9. SlotInv'
  BY <1>3, <1>4, <1>5, <1>6, <1>7, <1>8, CacheAssumption DEF CacheInv, SlotInv, CacheTypeOK
<1>10. QED
  BY <1>1, <1>2, <1>4, <1>6, <1>9, UnlockKeeps DEF m

-----------------------------------------------------------------------------
LEMMA InitCache == Init => CacheInv
<1> SUFFICES ASSUME Init PROVE CacheInv
  OBVIOUS
<1>1. ThreadsInv
  BY IdleIsThread DEF Init, ThreadsInv
<1>2. SlotInv
  BY CacheAssumption DEF Init, CacheInit, SlotInv, CacheTypeOK
<1>3. MutexInv
  BY IdleIsThread DEF Init, MutexInv
<1>4. QED
  BY <1>1, <1>2, <1>3 DEF CacheInv

(* The host changes under the threads; what they do is left alone.         *)
LEMMA HostKeeps ==
  ASSUME CacheInv, NEW h, HostBecomes(h)
  PROVE  CacheInv'
<1>1. ASSUME NEW t \in Threads
      PROVE  /\ IsThread(th'[t]) /\ th'[t].sub = th[t].sub
             /\ th'[t].todo = th[t].todo /\ th'[t].at = th[t].at
  <2>1. IsThread(th[t])
    BY DEF CacheInv, ThreadsInv
  <2>2. th'[t] = th[t] \/ th'[t] = [th[t] EXCEPT !.seen = @ \cup {h}]
    BY DEF HostBecomes
  <2>3. QED
    BY <2>1, <2>2 DEF IsThread, Fields
<1>2. ThreadsInv'
  BY <1>1 DEF ThreadsInv, HostBecomes
<1>3. SlotInv'
  BY DEF CacheInv, SlotInv, CacheTypeOK, HostBecomes, cacheVars
<1>4. MutexInv'
  <2> SUFFICES ASSUME NEW u \in Threads, th'[u].sub # "out"
               PROVE  (At(u, {"lib"}) /\ (Current(u).lib \in Libs => Inside(u, Current(u).lib)))'
    BY DEF MutexInv
  <2>1. th'[u].sub = th[u].sub /\ th'[u].todo = th[u].todo /\ th'[u].at = th[u].at
    BY <1>1
  <2>2. At(u, {"lib"}) /\ (Current(u).lib \in Libs => Inside(u, Current(u).lib))
    BY <2>1 DEF CacheInv, MutexInv
  <2>3. At(u, {"lib"})' /\ Current(u)' = Current(u)
    BY <2>1, <2>2 DEF At, Running, Current, ScriptOf, Job
  <2>4. UNCHANGED cacheVars
    BY DEF HostBecomes
  <2>5. QED
    BY <2>1, <2>2, <2>3, <2>4 DEF Inside, cacheVars
<1>5. QED
  BY <1>2, <1>3, <1>4 DEF CacheInv

(* The steps outside lib().                                                *)
LEMMA OutsideKeeps ==
  ASSUME CacheInv, NEW t \in Threads,
         \/ \E call \in Calls : Begin(t, call)
         \/ OpenFound(t) \/ StepOk(t) \/ StepFails(t) \/ StubFails(t)
         \/ GetDefault(t) \/ DefaultRefused(t) \/ NoDefault(t)
         \/ GetList(t) \/ HalListsNothing(t) \/ WalkOn(t) \/ SkipDevice(t) \/ WalkEnds(t) \/ Return(t)
  PROVE  CacheInv'
<1>1. IsThread(th[t]) /\ IsThread(Idle)
  BY IdleIsThread DEF CacheInv, ThreadsInv
<1>2. th[t].sub # "out" => At(t, {"lib"})
  BY DEF CacheInv, MutexInv
<1>outside. ASSUME NEW r, IsThread(r), r.sub = "out", Becomes(t, r), UNCHANGED cacheVars
            PROVE  CacheInv'
  BY <1>outside, StepOutside
<1>Begin. ASSUME NEW call \in Calls, Begin(t, call) PROVE CacheInv'
  <2> DEFINE r == [Idle EXCEPT !.call = call, !.todo = Asked(call), !.seen = {host}]
  <2>1. IsThread(r) /\ r.sub = "out"
    BY DEF IsThread, Fields, Idle
  <2>2. Becomes(t, r) /\ UNCHANGED cacheVars
    BY <1>Begin DEF Begin, Becomes
  <2>3. QED
    BY <2>1, <2>2, <1>outside
<1>OpenFound. CASE OpenFound(t)
  <2> DEFINE r == [th[t] EXCEPT !.opening = TRUE, !.fault = "none",
                                !.todo = Jobs(<<First(th[t].found)>>, "open")]
  <2>1. th[t].sub = "out"
    BY <1>2, <1>OpenFound DEF OpenFound, At
  <2>2. IsThread(r) /\ r.sub = "out"
    BY <1>1, <2>1 DEF IsThread, Fields
  <2>3. QED
    BY <1>OpenFound, <2>2, <1>outside DEF OpenFound
<1>StepOk. CASE StepOk(t)
  BY <1>1, <1>StepOk, <1>outside, LedgerIsThread, StepDoneIsThread DEF StepOk
<1>StepFails. CASE StepFails(t)
  BY <1>1, <1>StepFails, <1>outside, LedgerIsThread, JobFailedIsThread DEF StepFails
<1>StubFails. CASE StubFails(t)
  BY <1>1, <1>StubFails, <1>outside, JobFailedIsThread DEF StubFails
<1>GetDefault. CASE GetDefault(t)
  <2>1. IsThread([th[t] EXCEPT !.tag = host.default])
    BY <1>1 DEF IsThread, Fields
  <2>2. QED
    BY <1>GetDefault, <2>1, <1>outside, StepDoneIsThread DEF GetDefault
<1>refused. CASE DefaultRefused(t) \/ HalListsNothing(t)
  <2>1. IsThread([th[t] EXCEPT !.refused = TRUE])
    BY <1>1 DEF IsThread, Fields
  <2>2. QED
    BY <1>refused, <2>1, <1>outside, StepDoneIsThread DEF DefaultRefused, HalListsNothing
<1>NoDefault. CASE NoDefault(t)
  BY <1>1, <1>NoDefault, <1>outside, JobFailedIsThread DEF NoDefault
<1>GetList. CASE GetList(t)
  <2> DEFINE l == Ledger(th[t], Current(t).got, Current(t).freed)
  <2>1. IsThread(l)
    BY <1>1, LedgerIsThread
  <2>2. Becomes(t, StepDone(t, [l EXCEPT !.pending = Snapshot(Job(t).driver)]))
        /\ UNCHANGED cacheVars
    BY <1>GetList DEF GetList
  <2> HIDE DEF l
  <2>3. IsThread([l EXCEPT !.pending = Snapshot(Job(t).driver)])
    BY <2>1 DEF IsThread, Fields
  <2>4. QED
    BY <2>2, <2>3, <1>outside, StepDoneIsThread
<1>WalkOn. CASE WalkOn(t)
  <2>1. PICK pending, listed :
          Becomes(t, [th[t] EXCEPT !.pending = pending, !.listed = listed])
    BY <1>WalkOn DEF WalkOn
  <2>2. th[t].sub = "out"
    BY <1>2, <1>WalkOn DEF WalkOn, At
  <2>3. /\ IsThread([th[t] EXCEPT !.pending = pending, !.listed = listed])
        /\ [th[t] EXCEPT !.pending = pending, !.listed = listed].sub = "out"
    BY <1>1, <2>2 DEF IsThread, Fields
  <2>4. QED
    BY <1>WalkOn, <2>1, <2>3, <1>outside DEF WalkOn
<1>SkipDevice. CASE SkipDevice(t)
  <2>1. PICK pending, skipped :
          Becomes(t, [th[t] EXCEPT !.pending = pending, !.skipped = skipped])
    BY <1>SkipDevice DEF SkipDevice
  <2>2. th[t].sub = "out"
    BY <1>2, <1>SkipDevice DEF SkipDevice, At
  <2>3. /\ IsThread([th[t] EXCEPT !.pending = pending, !.skipped = skipped])
        /\ [th[t] EXCEPT !.pending = pending, !.skipped = skipped].sub = "out"
    BY <1>1, <2>2 DEF IsThread, Fields
  <2>4. QED
    BY <1>SkipDevice, <2>1, <2>3, <1>outside DEF SkipDevice
<1>WalkEnds. CASE WalkEnds(t)
  BY <1>1, <1>WalkEnds, <1>outside, StepDoneIsThread DEF WalkEnds
<1>Return. CASE Return(t)
  BY <1>Return, <1>outside, IdleIsThread DEF Return
<1> QED
  BY <1>Begin, <1>OpenFound, <1>StepOk, <1>StepFails, <1>StubFails, <1>GetDefault, <1>refused,
     <1>NoDefault, <1>GetList, <1>WalkOn, <1>SkipDevice, <1>WalkEnds, <1>Return

LEMMA StepCache == CacheInv /\ [Next]_vars => CacheInv'
<1> SUFFICES ASSUME CacheInv, [Next]_vars PROVE CacheInv'
  OBVIOUS
<1>1. ASSUME NEW t \in Threads, ThreadStep(t) PROVE CacheInv'
  BY <1>1, LockKeeps, FindKeeps, MissKeeps, LoadKeeps, LoadFailsKeeps, OutsideKeeps DEF ThreadStep
<1>2. CASE LibChanges \/ ServiceChanges \/ DeviceChanges
  BY <1>2, HostKeeps DEF LibChanges, ServiceChanges, DeviceChanges
<1>3. CASE UNCHANGED vars
  BY <1>3 DEF vars, cacheVars, CacheInv, ThreadsInv, SlotInv, CacheTypeOK, MutexInv, At, Running,
     Current, ScriptOf, Job, Inside
<1>4. QED
  BY <1>1, <1>2, <1>3 DEF Next

LEMMA CacheInvariance == Spec => []CacheInv
  BY InitCache, StepCache, PTL DEF Spec

(* However many threads race through lib(), and whatever is installed or   *)
(* removed meanwhile, no library is loaded twice.                          *)
THEOREM LoadsOnce == Spec => []LoadedOnce
<1>1. CacheInv => LoadedOnce
  BY DEF CacheInv, SlotInv, LoadedOnce
<1>2. QED
  BY <1>1, CacheInvariance, PTL

-----------------------------------------------------------------------------
(* Balanced.  What a thread holds is what the script of its current job    *)
(* holds there, and what a probe() of the same call has leaked before.     *)
JobType == [driver : Backends, op : Ops]

(* the jobs a call consists of *)
OpsOf(api) ==
  CASE api \in {"probe", "default_driver", "status"} -> {"probe"}
    [] api = "open_default" -> {"probe", "open"}
    [] OTHER -> {api}

(* open_default() opens a driver it has found, and WASAPI is probed first  *)
JobsOK(r) ==
  /\ r.todo \in Seq(JobType) /\ r.found \in Seq(Backends)
  /\ \A i \in 1..Len(r.todo) :
       LET job == r.todo[i]
       IN  /\ job.op \in OpsOf(r.call.api)
           /\ r.call.api = "open_default" /\ job.op = "open" => job.driver \in Elements(r.found)
           /\ i > 1 => ~Leaks(job.driver, job.op)

HeldOK(r) ==
  IF r.todo = <<>> THEN r.at = 1 /\ r.held \subseteq KeptByProbe(r)
  ELSE LET job  == Head(r.todo)
           held == HeldAlong(job.driver, job.op)[r.at]
       IN  /\ r.at \in 1..Len(Script(job.driver, job.op))
           /\ held \subseteq r.held
           /\ r.held \ held \subseteq KeptByProbe(r)
           /\ Leaks(job.driver, job.op) => r.held = held /\ "wasapi" \notin Elements(r.found)

LedgerOK(r) == JobsOK(r) /\ HeldOK(r) /\ ~r.astray

LedgerInv == \A t \in Threads : LedgerOK(th[t])

(* the fields LedgerOK looks at *)
SameLedger(q, r) ==
  /\ q.call = r.call /\ q.todo = r.todo /\ q.at = r.at /\ q.found = r.found
  /\ q.held = r.held /\ q.astray = r.astray

LEMMA LedgerOfSame ==
  ASSUME NEW q, NEW r, SameLedger(q, r), LedgerOK(r)
  PROVE  LedgerOK(q)
  BY DEF SameLedger, LedgerOK, JobsOK, HeldOK, KeptByProbe

LEMMA ScriptStarts ==
  ASSUME NEW b, NEW op, Fits(b, op)
  PROVE  1 \in 1..Len(Script(b, op)) /\ HeldAlong(b, op)[1] = {}
<1> DEFINE s == Script(b, op)
           h == HeldAlong(b, op)
<1>1. FitsAlong(s, h, b, op)
  BY DEF Fits
<1> HIDE DEF s, h
<1>2. 1 \in 1..Len(s) /\ h[1] = {}
  BY <1>1 DEF FitsAlong
<1>3. QED
  BY <1>2 DEF s, h

LEMMA KeptIsLeaked ==
  ASSUME NEW r, JobsOK(r), r.todo # <<>>
  PROVE  /\ KeptByProbe(r) \subseteq Leaked
         /\ Head(r.todo).op \notin {"probe", "open"} => KeptByProbe(r) = {}
<1>1. Head(r.todo).op \in OpsOf(r.call.api)
  BY HeadTailProperties DEF JobsOK
<1>2. QED
  BY <1>1 DEF OpsOf, KeptByProbe, Leaked

(* The next job of a call, when the current one is over.                   *)
LEMMA NextJob ==
  ASSUME NEW r, JobsOK(r), r.todo # <<>>, NEW q,
         q.call = r.call, q.todo = Tail(r.todo), q.at = 1, ~q.astray, q.held \subseteq KeptByProbe(q),
         q.found = r.found \/ q.found = Append(r.found, Head(r.todo).driver)
  PROVE  LedgerOK(q)
<1>1. /\ Head(r.todo) \in JobType /\ Tail(r.todo) \in Seq(JobType)
      /\ Len(Tail(r.todo)) = Len(r.todo) - 1
      /\ \A i \in 1..Len(Tail(r.todo)) : Tail(r.todo)[i] = r.todo[i + 1]
      /\ Len(r.todo) \in Nat
  BY HeadTailProperties DEF JobsOK
<1>2. /\ q.found \in Seq(Backends)
      /\ Elements(r.found) \subseteq Elements(q.found)
  <2>1. CASE q.found = r.found
    BY <2>1 DEF JobsOK
  <2>2. CASE q.found = Append(r.found, Head(r.todo).driver)
    <3>1. r.found \in Seq(Backends) /\ Head(r.todo).driver \in Backends
      BY <1>1 DEF JobsOK, JobType
    <3>2. /\ q.found \in Seq(Backends) /\ Len(q.found) = Len(r.found) + 1
          /\ \A i \in 1..Len(r.found) : q.found[i] = r.found[i]
      BY <2>2, <3>1, AppendProperties
    <3>3. QED
      BY <3>1, <3>2 DEF Elements
  <2>3. QED
    BY <2>1, <2>2
<1>3. JobsOK(q)
  <2>1. ASSUME NEW i \in 1..Len(q.todo)
        PROVE  /\ q.todo[i] = r.todo[i + 1] /\ i + 1 \in 1..Len(r.todo) /\ i + 1 > 1
    BY <1>1
  <2>2. QED
    BY <1>1, <1>2, <2>1 DEF JobsOK
<1>4. HeldOK(q)
  <2>1. CASE q.todo = <<>>
    BY <2>1 DEF HeldOK
  <2>2. CASE q.todo # <<>>
    <3>1. /\ Head(q.todo) = r.todo[2] /\ r.todo[2] \in JobType
          /\ ~Leaks(r.todo[2].driver, r.todo[2].op)
      BY <1>1, <2>2, HeadTailProperties DEF JobsOK
    <3>2. Fits(r.todo[2].driver, r.todo[2].op)
      BY <3>1, ScriptsFit DEF JobType
    <3>3. /\ 1 \in 1..Len(Script(r.todo[2].driver, r.todo[2].op))
          /\ HeldAlong(r.todo[2].driver, r.todo[2].op)[1] = {}
      BY <3>2, ScriptStarts
    <3> DEFINE job == r.todo[2]
    <3>4. /\ q.todo # <<>> /\ Head(q.todo) = job /\ ~Leaks(job.driver, job.op)
          /\ 1 \in 1..Len(Script(job.driver, job.op)) /\ HeldAlong(job.driver, job.op)[1] = {}
      BY <2>2, <3>1, <3>3
    <3> HIDE DEF job
    <3>5. QED
      BY <3>4 DEF HeldOK
  <2>3. QED
    BY <2>1, <2>2
<1>5. QED
  BY <1>3, <1>4 DEF LedgerOK

(* The current step finds what it releases, and not what it acquires.      *)
LEMMA StepOfScript ==
  ASSUME NEW t \in Threads, LedgerOK(th[t]), Running(t)
  PROVE  /\ Current(t).kind \in {"lib", "stub", "need", "default", "try", "walk"} =>
              Current(t).got = {} /\ Current(t).freed = {}
         /\ Current(t).got \cap th[t].held = {} /\ Current(t).got \subseteq Resources
         /\ Current(t).freed \subseteq th[t].held \cup Current(t).got
         /\ Current(t).kind \in {"call", "list"} => Current(t).undone \subseteq th[t].held
<1> DEFINE r      == th[t]
           b      == Job(t).driver
           op     == Job(t).op
           s      == Script(b, op)
           h      == HeldAlong(b, op)
           extra  == r.held \ h[r.at]
<1>1. /\ JobsOK(r) /\ r.todo # <<>> /\ Job(t) \in JobType
  BY HeadTailProperties DEF LedgerOK, JobsOK, Running, Job
<1>2. /\ r.at \in 1..Len(s) /\ h[r.at] \subseteq r.held /\ extra \subseteq KeptByProbe(r)
      /\ Leaks(b, op) => extra = {}
  BY <1>1 DEF LedgerOK, HeldOK, Job
<1>3. Fits(b, op)
  BY <1>1, ScriptsFit DEF JobType
<1>4. Len(s) \in Nat /\ Current(t) = s[r.at]
  BY <1>3 DEF Fits, FitsAlong, Current, ScriptOf
<1>5. KeptByProbe(r) \subseteq Leaked /\ (op \notin {"probe", "open"} => KeptByProbe(r) = {})
  BY <1>1, KeptIsLeaked DEF Job
<1>6. PICK after : StepFits(s[r.at], h[r.at], after, b, op)
  <2>1. CASE r.at < Len(s)
    BY <1>2, <1>3, <1>4, <2>1 DEF Fits, FitsAlong
  <2>2. CASE ~(r.at < Len(s))
    <3>1. r.at = Len(s)
      BY <1>2, <1>4, <2>2
    <3>2. QED
      BY <1>3, <3>1 DEF Fits, FitsAlong
  <2>3. QED
    BY <2>1, <2>2
<1>7. extra \cap s[r.at].got = {}
  BY <1>2, <1>5, <1>6 DEF StepFits, Leaked
<1>8. QED
  BY <1>2, <1>4, <1>6, <1>7 DEF StepFits

(* A step succeeds, and with the last one the job.                         *)
LEMMA StepDoneKeepsLedger ==
  ASSUME NEW t \in Threads, IsThread(th[t]), LedgerOK(th[t]), Running(t),
         NEW q, IsThread(q),
         q.call = th[t].call, q.todo = th[t].todo, q.at = th[t].at, q.found = th[t].found,
         q.held = (th[t].held \cup Current(t).got) \ Current(t).freed, ~q.astray
  PROVE  LedgerOK(StepDone(t, q))
<1> DEFINE r      == th[t]
           b      == Job(t).driver
           op     == Job(t).op
           s      == Script(b, op)
           h      == HeldAlong(b, op)
           extra  == r.held \ h[r.at]
           p      == StepDone(t, q)
<1> SUFFICES LedgerOK(p)
  OBVIOUS
<1>1. /\ JobsOK(r) /\ r.todo # <<>> /\ Job(t) \in JobType /\ op \in OpsOf(r.call.api)
  BY HeadTailProperties DEF LedgerOK, JobsOK, Running, Job
<1>2. /\ r.at \in 1..Len(s) /\ h[r.at] \subseteq r.held /\ extra \subseteq KeptByProbe(r)
      /\ Leaks(b, op) => extra = {} /\ "wasapi" \notin Elements(r.found)
  BY <1>1 DEF LedgerOK, HeldOK, Job
<1>3. Fits(b, op)
  BY <1>1, ScriptsFit DEF JobType
<1>4. Len(s) \in Nat /\ Current(t) = s[r.at]
  BY <1>3 DEF Fits, FitsAlong, Current, ScriptOf
<1>5. KeptByProbe(r) \subseteq Leaked /\ (op \notin {"probe", "open"} => KeptByProbe(r) = {})
  BY <1>1, KeptIsLeaked DEF Job
<1>6. /\ p.call = r.call /\ p.held = q.held /\ ~p.astray
      /\ r.at < Len(s) => p.todo = r.todo /\ p.at = r.at + 1 /\ p.found = r.found
      /\ ~(r.at < Len(s)) => p.todo = Tail(r.todo) /\ p.at = 1 /\ p.found = Append(r.found, b)
  BY DEF StepDone, ScriptOf, IsThread, Fields
<1> HIDE DEF p
<1>7. ASSUME NEW after, StepFits(s[r.at], h[r.at], after, b, op)
      PROVE  after \subseteq p.held /\ p.held \ after \subseteq extra
                /\ (Leaks(b, op) => p.held = after)
  <2>1. extra \cap s[r.at].freed = {}
    BY <1>2, <1>5, <1>7 DEF StepFits, Leaked
  <2>2. after = (h[r.at] \cup s[r.at].got) \ s[r.at].freed
    BY <1>7 DEF StepFits
  <2>3. p.held = (r.held \cup s[r.at].got) \ s[r.at].freed
    BY <1>4, <1>6
  <2> HIDE DEF h, s
  <2>4. QED
    BY <1>2, <2>1, <2>2, <2>3
<1>8. CASE r.at < Len(s)
  <2>1. StepFits(s[r.at], h[r.at], h[r.at + 1], b, op)
    BY <1>2, <1>3, <1>4, <1>8 DEF Fits, FitsAlong
  <2>2. KeptByProbe(p) = KeptByProbe(r) /\ JobsOK(p)
    BY <1>1, <1>6, <1>8 DEF KeptByProbe, JobsOK
  <2>3. HeldOK(p)
    <3>1. p.todo = r.todo /\ p.at = r.at + 1 /\ p.found = r.found /\ r.at + 1 \in 1..Len(s)
      BY <1>2, <1>4, <1>6, <1>8
    <3>2. /\ h[r.at + 1] \subseteq p.held /\ p.held \ h[r.at + 1] \subseteq KeptByProbe(p)
          /\ Leaks(b, op) => p.held = h[r.at + 1] /\ "wasapi" \notin Elements(p.found)
      BY <1>2, <1>7, <2>1, <2>2, <3>1
    <3>3. QED
      BY <1>1, <3>1, <3>2 DEF HeldOK, Job
  <2>4. ~p.astray
    BY <1>6
  <2>5. QED
    BY <2>2, <2>3, <2>4, Zenon DEF LedgerOK
<1>9. CASE ~(r.at < Len(s))
  <2>1. r.at = Len(s) /\ StepFits(s[r.at], h[r.at], LeftBy(b, op), b, op)
    BY <1>2, <1>3, <1>4, <1>9 DEF Fits, FitsAlong
  <2>2. p.held \subseteq LeftBy(b, op) \cup extra /\ (Leaks(b, op) => p.held = {"wfx"})
    BY <1>7, <2>1 DEF LeftBy
  <2>3. /\ b \in Elements(p.found) /\ Elements(r.found) \subseteq Elements(p.found)
        /\ Elements(p.found) \subseteq Elements(r.found) \cup {b}
    <3>1. r.found \in Seq(Backends) /\ b \in Backends
      BY <1>1 DEF JobsOK, JobType
    <3>2. p.found = Append(r.found, b)
      BY <1>6, <1>9
    <3>3. /\ Len(p.found) = Len(r.found) + 1 /\ Len(r.found) \in Nat
          /\ \A i \in 1..Len(r.found) : p.found[i] = r.found[i]
          /\ p.found[Len(r.found) + 1] = b
      BY <3>1, <3>2, AppendProperties
    <3>4. QED
      BY <3>3 DEF Elements
  <2>4. p.held \subseteq KeptByProbe(p)
    <3>1. CASE Leaks(b, op)
      BY <1>1, <1>6, <2>2, <2>3, <3>1 DEF KeptByProbe, Leaks, OpsOf
    <3>2. CASE ~Leaks(b, op)
      <4>1. p.held \subseteq KeptByProbe(r)
        BY <1>2, <2>2, <3>2 DEF LeftBy
      <4>2. b = "wasapi" /\ KeptByProbe(r) # {} => "wasapi" \in Elements(r.found)
        <5>1. op # "open" \/ r.call.api = "open_default" \/ KeptByProbe(r) = {}
          BY <1>1 DEF OpsOf, KeptByProbe
        <5>2. r.call.api = "open_default" /\ op = "open" => b \in Elements(r.found)
          BY <1>1 DEF JobsOK, Job
        <5>3. QED
          BY <1>5, <3>2, <5>1, <5>2 DEF Leaks
      <4>3. KeptByProbe(r) # {} => ("wasapi" \in Elements(p.found) <=> "wasapi" \in Elements(r.found))
        BY <2>3, <4>2
      <4>4. QED
        BY <1>6, <4>1, <4>3 DEF KeptByProbe
    <3>3. QED
      BY <3>1, <3>2
  <2>5. /\ p.call = r.call /\ p.todo = Tail(r.todo) /\ p.at = 1 /\ ~p.astray
        /\ p.found = Append(r.found, Head(r.todo).driver)
    BY <1>6, <1>9 DEF Job
  <2>6. QED
    BY <1>1, <2>4, <2>5, NextJob
<1>10. QED
  BY <1>8, <1>9

(* A job fails: its error path gives back what the script says.            *)
LEMMA JobFailedKeepsLedger ==
  ASSUME NEW t \in Threads, IsThread(th[t]), LedgerOK(th[t]), Running(t),
         NEW q, IsThread(q), NEW fault,
         q.call = th[t].call, q.todo = th[t].todo, q.found = th[t].found, ~q.astray,
         \/ /\ Current(t).kind \in {"call", "list"}
            /\ q.held = th[t].held \ Current(t).undone
         \/ /\ Current(t).kind \in {"lib", "stub", "need"}
            /\ q.held = th[t].held
  PROVE  LedgerOK(JobFailed(q, fault))
<1> DEFINE r     == th[t]
           b     == Job(t).driver
           op    == Job(t).op
           s     == Script(b, op)
           h     == HeldAlong(b, op)
           p     == JobFailed(q, fault)
<1> SUFFICES LedgerOK(p)
  OBVIOUS
<1>1. /\ JobsOK(r) /\ r.todo # <<>> /\ Job(t) \in JobType /\ op \in OpsOf(r.call.api)
  BY HeadTailProperties DEF LedgerOK, JobsOK, Running, Job
<1>2. /\ r.at \in 1..Len(s) /\ h[r.at] \subseteq r.held /\ r.held \ h[r.at] \subseteq KeptByProbe(r)
      /\ Leaks(b, op) => r.held = h[r.at] /\ "wasapi" \notin Elements(r.found)
  BY <1>1 DEF LedgerOK, HeldOK, Job
<1>3. Fits(b, op)
  BY <1>1, ScriptsFit DEF JobType
<1>4. Len(s) \in Nat /\ Current(t) = s[r.at]
  BY <1>3 DEF Fits, FitsAlong, Current, ScriptOf
<1>5. \E after : StepFits(s[r.at], h[r.at], after, b, op)
  <2>1. CASE r.at < Len(s)
    <3>1. r.at \in 1..(Len(s) - 1)
      BY <1>2, <1>4, <2>1
    <3>2. FitsAlong(s, h, b, op)
      BY <1>3 DEF Fits
    <3> HIDE DEF s, h, r, b, op
    <3>3. QED
      BY <3>1, <3>2 DEF FitsAlong
  <2>2. CASE ~(r.at < Len(s))
    <3>1. r.at = Len(s)
      BY <1>2, <1>4, <2>2
    <3>2. QED
      BY <1>3, <3>1 DEF Fits, FitsAlong
  <2>3. QED
    BY <2>1, <2>2
<1>6. /\ p.call = r.call /\ p.todo = Tail(r.todo) /\ p.at = 1 /\ p.found = r.found
      /\ p.held = q.held /\ ~p.astray
  BY DEF JobFailed, Softened, IsThread, Fields
<1> HIDE DEF p
<1>7. KeptByProbe(p) = KeptByProbe(r)
  BY <1>6 DEF KeptByProbe
<1>8. q.held \subseteq (r.held \ h[r.at]) \cup LeftByError(b, op)
  BY <1>4, <1>5 DEF StepFits
<1>9. q.held \subseteq KeptByProbe(p)
  <2>1. CASE Leaks(b, op)
    <3>1. KeptByProbe(r) = {"com"}
      BY <1>1, <1>2, <2>1 DEF KeptByProbe, Leaks, OpsOf
    <3>2. QED
      BY <1>2, <1>7, <1>8, <2>1, <3>1 DEF LeftByError
  <2>2. CASE ~Leaks(b, op)
    BY <1>2, <1>7, <1>8, <2>2 DEF LeftByError
  <2>3. QED
    BY <2>1, <2>2
<1>10. QED
  BY <1>1, <1>6, <1>9, NextJob

-----------------------------------------------------------------------------
(* The drivers of a host, and the jobs a call begins with.                 *)
Plain == Backends \ {"wasapi"}

LEMMA EntryIsSeq ==
  ASSUME NEW S, NEW b \in S, NEW features
  PROVE  Entry(b, features) \in Seq(S) /\ Len(Entry(b, features)) <= 1
  BY DEF Entry

(* only the first entry of s may be WASAPI *)
WasapiFirst(s) == s \in Seq(Backends) /\ \A i \in 1..Len(s) : i > 1 => s[i] # "wasapi"

LEMMA PlainLater ==
  ASSUME NEW s, WasapiFirst(s), NEW u \in Seq(Plain)
  PROVE  WasapiFirst(s \o u)
<1>1. s \in Seq(Backends) /\ u \in Seq(Backends) /\ \A i \in 1..Len(u) : u[i] # "wasapi"
  <2>1. \A i \in 1..Len(u) : u[i] \in Plain
    BY ElementOfSeq
  <2>2. Plain \subseteq Backends
    BY DEF Plain
  <2>3. u \in Seq(Backends)
    BY <2>2, SeqMonotonic
  <2>4. QED
    BY <2>1, <2>3 DEF WasapiFirst, Plain
<1>2. /\ s \o u \in Seq(Backends) /\ Len(s \o u) = Len(s) + Len(u)
      /\ \A i \in 1..(Len(s) + Len(u)) : (s \o u)[i] = IF i <= Len(s) THEN s[i] ELSE u[i - Len(s)]
      /\ Len(s) \in Nat /\ Len(u) \in Nat
  BY <1>1, ConcatProperties
<1>3. ASSUME NEW i \in 1..(Len(s) + Len(u)), i > 1 PROVE (s \o u)[i] # "wasapi"
  <2>1. CASE i <= Len(s)
    BY <1>2, <1>3, <2>1 DEF WasapiFirst
  <2>2. CASE ~(i <= Len(s))
    <3>1. i - Len(s) \in 1..Len(u)
      BY <1>2, <2>2
    <3>2. QED
      BY <1>1, <1>2, <2>2, <3>1
  <2>3. QED
    BY <2>1, <2>2
<1>4. QED
  BY <1>2, <1>3 DEF WasapiFirst

LEMMA DriversInOrder ==
  ASSUME NEW platform \in Platforms, NEW features
  PROVE  WasapiFirst(DRIVERS(platform, features))
<1> DEFINE E(b) == Entry(b, features)
<1>1. \A b \in Plain : E(b) \in Seq(Plain)
  BY EntryIsSeq
<1>2. \A b \in Backends : WasapiFirst(E(b))
  BY EntryIsSeq DEF WasapiFirst
<1>3. /\ {"pulse", "alsa", "oss", "mock", "asio"} \subseteq Plain
      /\ {"pipewire", "wasapi", "coreaudio", "mock"} \subseteq Backends
  BY DEF Plain, Backends
<1> HIDE DEF E
<1>4. WasapiFirst((((E("pipewire") \o E("pulse")) \o E("alsa")) \o E("oss")) \o E("mock"))
  BY <1>1, <1>2, <1>3, PlainLater
<1>5. WasapiFirst((E("wasapi") \o E("asio")) \o E("mock"))
  BY <1>1, <1>2, <1>3, PlainLater
<1>6. WasapiFirst(E("coreaudio") \o E("mock")) /\ WasapiFirst(E("mock"))
  BY <1>1, <1>2, <1>3, PlainLater
<1>7. QED
  BY <1>4, <1>5, <1>6 DEF DRIVERS, Platforms, E

LEMMA JobsOfDrivers ==
  ASSUME NEW drivers \in Seq(Backends), NEW op \in Ops
  PROVE  /\ Jobs(drivers, op) \in Seq(JobType) /\ Len(Jobs(drivers, op)) = Len(drivers)
         /\ \A i \in 1..Len(drivers) : Jobs(drivers, op)[i] = [driver |-> drivers[i], op |-> op]
<1>1. \A i \in 1..Len(drivers) : drivers[i] \in Backends
  BY ElementOfSeq
<1>2. QED
  BY <1>1, IsASeq DEF Jobs, JobType

(* A call, or its second half, begins with no job under way.               *)
LEMMA FirstJob ==
  ASSUME NEW r, JobsOK(r), r.at = 1, ~r.astray, r.held \subseteq KeptByProbe(r),
         r.todo # <<>> => (Leaks(Head(r.todo).driver, Head(r.todo).op) =>
                             r.held = {} /\ "wasapi" \notin Elements(r.found))
  PROVE  LedgerOK(r)
<1>1. CASE r.todo = <<>>
  BY <1>1 DEF LedgerOK, HeldOK
<1>2. CASE r.todo # <<>>
  <2>1. Head(r.todo) \in JobType
    BY <1>2, HeadTailProperties DEF JobsOK
  <2>2. Fits(Head(r.todo).driver, Head(r.todo).op)
    BY <2>1, ScriptsFit DEF JobType
  <2>3. /\ 1 \in 1..Len(Script(Head(r.todo).driver, Head(r.todo).op))
        /\ HeldAlong(Head(r.todo).driver, Head(r.todo).op)[1] = {}
    BY <2>2, ScriptStarts
  <2> DEFINE b == Head(r.todo).driver
             op == Head(r.todo).op
             h == HeldAlong(b, op)
             s == Script(b, op)
  <2>4. /\ r.todo # <<>> /\ 1 \in 1..Len(s) /\ h[1] = {}
        /\ Leaks(b, op) => r.held = {} /\ "wasapi" \notin Elements(r.found)
    BY <1>2, <2>3
  <2> HIDE DEF h, s
  <2>5. HeldOK(r)
    BY <2>4 DEF HeldOK, h, s
  <2>6. QED
    BY <2>5 DEF LedgerOK
<1>3. QED
  BY <1>1, <1>2

LEMMA IdleLedger == LedgerOK(Idle)
<1>1. JobsOK(Idle)
  BY DEF JobsOK, Idle
<1>2. QED
  BY <1>1, FirstJob DEF Idle

LEMMA AskedLedger ==
  ASSUME host \in HostType, NEW call \in Calls,
         NEW r, r.call = call, r.todo = Asked(call), r.at = 1, r.found = <<>>, r.held = {}, ~r.astray
  PROVE  LedgerOK(r)
<1>1. PICK drivers \in Seq(Backends), op \in Ops :
        /\ WasapiFirst(drivers) /\ Asked(call) = Jobs(drivers, op)
        /\ op \in OpsOf(call.api) /\ ~(call.api = "open_default" /\ op = "open")
  <2>1. WasapiFirst(Drivers)
    BY DriversInOrder DEF HostType, Drivers
  <2>2. call \in CallType
    BY RegistryAssumption
  <2>3. CASE call.api \in {"probe", "default_driver", "open_default"}
    <3>1. /\ Asked(call) = Jobs(Drivers, "probe") /\ "probe" \in Ops
          /\ "probe" \in OpsOf(call.api)
      BY <2>3 DEF Asked, OpsOf, Ops
    <3>2. QED
      BY <2>1, <3>1 DEF WasapiFirst
  <2>4. CASE call.api = "status"
    <3>1. call.driver \in Backends
      BY <2>2, <2>4 DEF CallType
    <3>2. PICK drivers : /\ drivers = <<>> \/ drivers = <<call.driver>>
                         /\ Asked(call) = Jobs(drivers, "probe")
      BY <2>4 DEF Asked
    <3>3. WasapiFirst(<<>>) /\ WasapiFirst(<<call.driver>>)
      BY <3>1 DEF WasapiFirst
    <3>4. "probe" \in Ops /\ "probe" \in OpsOf(call.api)
      BY <2>4 DEF OpsOf, Ops
    <3>5. <<>> \in Seq(Backends) /\ <<call.driver>> \in Seq(Backends)
      BY <3>1
    <3>6. QED
      BY <2>4, <3>2, <3>3, <3>4, <3>5
  <2>5. CASE call.api \in {"open", "devices", "default", "format"}
    <3>1. call.driver \in Backends
      BY <2>2, <2>5 DEF CallType
    <3>2. WasapiFirst(<<call.driver>>) /\ Asked(call) = Jobs(<<call.driver>>, call.api)
      BY <2>5, <3>1 DEF WasapiFirst, Asked
    <3>3. call.api \in Ops /\ call.api \in OpsOf(call.api) /\ call.api # "open_default"
      BY <2>5 DEF OpsOf, Ops
    <3>4. <<call.driver>> \in Seq(Backends)
      BY <3>1
    <3>5. QED
      BY <3>2, <3>3, <3>4
  <2>6. QED
    BY <2>2, <2>3, <2>4, <2>5 DEF CallType
<1>2. /\ r.todo \in Seq(JobType) /\ Len(r.todo) = Len(drivers)
      /\ \A i \in 1..Len(drivers) : r.todo[i] = [driver |-> drivers[i], op |-> op]
  BY <1>1, JobsOfDrivers DEF WasapiFirst
<1>3. JobsOK(r)
  <2>1. ASSUME NEW i \in 1..Len(r.todo)
        PROVE  /\ r.todo[i].op = op /\ r.todo[i].driver = drivers[i]
               /\ i > 1 => drivers[i] # "wasapi"
    <3>1. i \in 1..Len(drivers) /\ r.todo[i] = [driver |-> drivers[i], op |-> op]
      BY <1>2
    <3>2. i > 1 => drivers[i] # "wasapi"
      BY <1>1, <3>1 DEF WasapiFirst
    <3>3. QED
      BY <3>1, <3>2
  <2>2. r.found \in Seq(Backends)
    OBVIOUS
  <2>3. QED
    BY <1>1, <1>2, <2>1, <2>2 DEF JobsOK, Leaks
<1>4. QED
  BY <1>3, FirstJob DEF Elements

-----------------------------------------------------------------------------
RegistryInv == CacheInv /\ host \in HostType /\ LedgerInv

LEMMA InitRegistry == Init => RegistryInv
<1> SUFFICES ASSUME Init PROVE RegistryInv
  OBVIOUS
<1>1. host \in HostType
  BY RegistryAssumption DEF Init
<1>2. LedgerInv
  BY IdleLedger DEF Init, LedgerInv
<1>3. QED
  BY <1>1, <1>2, InitCache DEF RegistryInv

(* A thread's own step leaves the other threads' ledgers alone.            *)
LEMMA OneLedger ==
  ASSUME RegistryInv, NEW t \in Threads, NEW r, Becomes(t, r), LedgerOK(r)
  PROVE  LedgerInv' /\ host' \in HostType
<1>1. th'[t] = r /\ \A u \in Threads \ {t} : th'[u] = th[u]
  BY DEF Becomes, RegistryInv, CacheInv, ThreadsInv
<1>2. ASSUME NEW u \in Threads PROVE LedgerOK(th'[u])
  BY <1>1 DEF RegistryInv, LedgerInv
<1>3. LedgerInv'
  BY <1>2 DEF LedgerInv
<1>4. QED
  BY <1>3 DEF Becomes, RegistryInv

(* Steps that move neither the job nor the ledger.                         *)
LEMMA SameKeepsLedger ==
  ASSUME RegistryInv, NEW t \in Threads, NEW r, Becomes(t, r), SameLedger(r, th[t])
  PROVE  LedgerInv' /\ host' \in HostType
  BY OneLedger, LedgerOfSame DEF RegistryInv, LedgerInv

LEMMA LibKeepsLedger ==
  ASSUME RegistryInv, NEW t \in Threads,
         LockLib(t) \/ FindLib(t) \/ MissLib(t) \/ LoadLib(t) \/ LoadLibFails(t)
  PROVE  LedgerInv' /\ host' \in HostType
<1>1. IsThread(th[t]) /\ LedgerOK(th[t]) /\ ~th[t].astray
  BY DEF RegistryInv, CacheInv, ThreadsInv, LedgerInv, LedgerOK
<1>2. Running(t) /\ Current(t).kind = "lib"
  BY DEF LockLib, FindLib, MissLib, LoadLib, LoadLibFails, At
<1>3. Current(t).got = {} /\ Current(t).freed = {}
  BY <1>1, <1>2, StepOfScript
<1>4. LedgerOK(StepDone(t, th[t]))
  BY <1>1, <1>2, <1>3, StepDoneKeepsLedger
<1>5. \A fault : LedgerOK(JobFailed(th[t], fault))
  BY <1>1, <1>2, JobFailedKeepsLedger
<1>6. CASE LockLib(t) \/ MissLib(t)
  <2>1. PICK sub : Becomes(t, [th[t] EXCEPT !.sub = sub])
    BY <1>6 DEF LockLib, MissLib
  <2>2. SameLedger([th[t] EXCEPT !.sub = sub], th[t])
    BY <1>1 DEF SameLedger, IsThread, Fields
  <2>3. QED
    BY <2>1, <2>2, SameKeepsLedger
<1>7. CASE FindLib(t)
  BY <1>4, <1>5, <1>7, OneLedger DEF FindLib
<1>8. CASE LoadLib(t)
  BY <1>4, <1>8, OneLedger DEF LoadLib
<1>9. CASE LoadLibFails(t)
  BY <1>5, <1>9, OneLedger DEF LoadLibFails
<1>10. QED
  BY <1>6, <1>7, <1>8, <1>9

LEMMA StepKeepsLedger ==
  ASSUME RegistryInv, NEW t \in Threads,
         \/ StepOk(t) \/ StepFails(t) \/ StubFails(t)
         \/ GetDefault(t) \/ DefaultRefused(t) \/ NoDefault(t)
         \/ GetList(t) \/ HalListsNothing(t) \/ WalkOn(t) \/ SkipDevice(t) \/ WalkEnds(t)
  PROVE  LedgerInv' /\ host' \in HostType
<1> DEFINE r == th[t]
           c == Current(t)
<1>1. IsThread(r) /\ LedgerOK(r) /\ ~r.astray /\ Running(t)
  BY DEF RegistryInv, CacheInv, ThreadsInv, LedgerInv, LedgerOK, StepOk, StepFails, StubFails,
     GetDefault, DefaultRefused, NoDefault, GetList, HalListsNothing, WalkOn, SkipDevice,
     WalkEnds, At
<1>2. c.kind \in {"lib", "stub", "need", "default", "try", "walk"} => c.got = {} /\ c.freed = {}
  BY <1>1, StepOfScript
<1>3. /\ c.got \cap r.held = {} /\ c.freed \subseteq r.held \cup c.got
      /\ c.kind \in {"call", "list"} => c.undone \subseteq r.held
  BY <1>1, StepOfScript
<1>4. ASSUME NEW q, IsThread(q), q.call = r.call, q.todo = r.todo, q.at = r.at, q.found = r.found,
             ~q.astray, q.held = (r.held \cup c.got) \ c.freed, Becomes(t, StepDone(t, q))
      PROVE  LedgerInv' /\ host' \in HostType
  BY <1>1, <1>4, StepDoneKeepsLedger, OneLedger
<1>5. ASSUME NEW q, NEW fault, IsThread(q), q.call = r.call, q.todo = r.todo, q.found = r.found,
             ~q.astray, Becomes(t, JobFailed(q, fault)),
             \/ c.kind \in {"call", "list"} /\ q.held = r.held \ c.undone
             \/ c.kind \in {"lib", "stub", "need"} /\ q.held = r.held
      PROVE  LedgerInv' /\ host' \in HostType
  BY <1>1, <1>5, JobFailedKeepsLedger, OneLedger
<1>6. ASSUME NEW got, NEW freed, got \cap r.held = {}, freed \subseteq r.held \cup got
      PROVE  LET q == Ledger(r, got, freed)
             IN  /\ IsThread(q) /\ q.call = r.call /\ q.todo = r.todo /\ q.at = r.at
                 /\ q.found = r.found /\ ~q.astray /\ q.held = (r.held \cup got) \ freed
  BY <1>1, <1>6 DEF Ledger, IsThread, Fields
<1>StepOk. CASE StepOk(t)
  BY <1>3, <1>4, <1>6, <1>StepOk DEF StepOk
<1>StepFails. CASE StepFails(t)
  <2> DEFINE q == Ledger(r, {}, c.undone)
  <2>1. c.kind \in {"call", "list"} /\ Becomes(t, JobFailed(q, "device"))
    BY <1>StepFails DEF StepFails, At
  <2>2. /\ IsThread(q) /\ q.call = r.call /\ q.todo = r.todo /\ q.found = r.found /\ ~q.astray
        /\ q.held = r.held \ c.undone
    BY <1>3, <1>6, <2>1
  <2> HIDE DEF q, r, c
  <2>3. QED
    BY <1>5, <2>1, <2>2
<1>StubFails. CASE StubFails(t)
  BY <1>1, <1>5, <1>StubFails DEF StubFails, At
<1>NoDefault. CASE NoDefault(t)
  BY <1>1, <1>5, <1>NoDefault DEF NoDefault, At
<1>plain. ASSUME NEW q, SameLedger(q, r), IsThread(q), Becomes(t, StepDone(t, q)),
                 c.kind \in {"need", "default", "try", "walk"}
          PROVE  LedgerInv' /\ host' \in HostType
  <2>1. r.held = (r.held \cup c.got) \ c.freed
    BY <1>2, <1>plain
  <2>2. QED
    BY <1>1, <1>4, <1>plain, <2>1 DEF SameLedger
<1>GetDefault. CASE GetDefault(t)
  <2> DEFINE q == [r EXCEPT !.tag = host.default]
  <2>1. SameLedger(q, r) /\ IsThread(q)
    BY <1>1 DEF SameLedger, IsThread, Fields
  <2>2. QED
    BY <1>GetDefault, <1>plain, <2>1 DEF GetDefault, At
<1>refused. CASE DefaultRefused(t) \/ HalListsNothing(t)
  <2> DEFINE q == [r EXCEPT !.refused = TRUE]
  <2>1. SameLedger(q, r) /\ IsThread(q)
    BY <1>1 DEF SameLedger, IsThread, Fields
  <2>2. QED
    BY <1>refused, <1>plain, <2>1 DEF DefaultRefused, HalListsNothing, At
<1>GetList. CASE GetList(t)
  <2> DEFINE l == Ledger(r, c.got, c.freed)
             q == [l EXCEPT !.pending = Snapshot(Job(t).driver)]
  <2>1. /\ IsThread(l) /\ l.call = r.call /\ l.todo = r.todo /\ l.at = r.at /\ l.found = r.found
        /\ ~l.astray /\ l.held = (r.held \cup c.got) \ c.freed
    BY <1>3, <1>6
  <2>2. Becomes(t, StepDone(t, q))
    BY <1>GetList DEF GetList
  <2> HIDE DEF l
  <2>3. /\ IsThread(q) /\ q.call = l.call /\ q.todo = l.todo /\ q.at = l.at /\ q.found = l.found
        /\ q.astray = l.astray /\ q.held = l.held
    BY <2>1 DEF IsThread, Fields
  <2> HIDE DEF q, r, c
  <2>4. QED
    BY <1>4, <2>1, <2>2, <2>3
<1>WalkOn. CASE WalkOn(t)
  <2>1. PICK pending, listed :
          Becomes(t, [th[t] EXCEPT !.pending = pending, !.listed = listed])
    BY <1>WalkOn DEF WalkOn
  <2>2. SameLedger([th[t] EXCEPT !.pending = pending, !.listed = listed], th[t])
    BY <1>1 DEF SameLedger, IsThread, Fields
  <2>3. QED
    BY <2>1, <2>2, SameKeepsLedger
<1>SkipDevice. CASE SkipDevice(t)
  <2>1. PICK pending, skipped :
          Becomes(t, [th[t] EXCEPT !.pending = pending, !.skipped = skipped])
    BY <1>SkipDevice DEF SkipDevice
  <2>2. SameLedger([th[t] EXCEPT !.pending = pending, !.skipped = skipped], th[t])
    BY <1>1 DEF SameLedger, IsThread, Fields
  <2>3. QED
    BY <2>1, <2>2, SameKeepsLedger
<1>WalkEnds. CASE WalkEnds(t)
  <2>1. SameLedger(r, r)
    BY DEF SameLedger
  <2>2. QED
    BY <1>1, <1>WalkEnds, <1>plain, <2>1 DEF WalkEnds, At
<1> QED
  BY <1>StepOk, <1>StepFails, <1>StubFails, <1>NoDefault, <1>GetDefault, <1>refused, <1>GetList,
     <1>WalkOn, <1>SkipDevice, <1>WalkEnds

LEMMA CallKeepsLedger ==
  ASSUME RegistryInv, NEW t \in Threads,
         (\E call \in Calls : Begin(t, call)) \/ OpenFound(t) \/ Return(t)
  PROVE  LedgerInv' /\ host' \in HostType
<1>1. IsThread(th[t]) /\ LedgerOK(th[t]) /\ IsThread(Idle) /\ ~th[t].astray
  BY IdleIsThread DEF RegistryInv, CacheInv, ThreadsInv, LedgerInv, LedgerOK
<1>2. ASSUME NEW call \in Calls, Begin(t, call) PROVE LedgerInv' /\ host' \in HostType
  <2> DEFINE r == [Idle EXCEPT !.call = call, !.todo = Asked(call), !.seen = {host}]
  <2>1. Becomes(t, r)
    BY <1>2 DEF Begin, Becomes
  <2>2. /\ r.call = call /\ r.todo = Asked(call) /\ r.at = 1 /\ r.found = <<>> /\ r.held = {}
        /\ ~r.astray
    BY DEF Idle
  <2>3. LedgerOK(r)
    BY <2>2, AskedLedger DEF RegistryInv
  <2>4. QED
    BY <2>1, <2>3, OneLedger
<1>3. CASE OpenFound(t)
  <2> DEFINE f == th[t].found
             r == [th[t] EXCEPT !.opening = TRUE, !.fault = "none",
                                !.todo = Jobs(<<First(f)>>, "open")]
  <2>1. /\ Becomes(t, r) /\ th[t].call.api = "open_default" /\ ~Running(t) /\ f # <<>>
    BY <1>3 DEF OpenFound
  <2>2. /\ f \in Seq(Backends) /\ First(f) \in Backends /\ First(f) \in Elements(f)
        /\ th[t].at = 1 /\ th[t].held \subseteq KeptByProbe(th[t])
    <3>1. f \in Seq(Backends) /\ th[t].at = 1 /\ th[t].held \subseteq KeptByProbe(th[t])
      BY <1>1, <2>1 DEF LedgerOK, JobsOK, HeldOK, Running
    <3>2. 1 \in 1..Len(f)
      BY <2>1, <3>1
    <3>3. QED
      BY <3>1, <3>2, ElementOfSeq DEF First, Elements
  <2>3. /\ r.todo = Jobs(<<First(f)>>, "open") /\ r.call = th[t].call /\ r.found = f /\ r.at = 1
        /\ r.held = th[t].held /\ ~r.astray
    BY <1>1, <2>2 DEF IsThread, Fields
  <2> HIDE DEF r
  <2>4. /\ r.todo \in Seq(JobType) /\ Len(r.todo) = 1
        /\ r.todo[1] = [driver |-> First(f), op |-> "open"]
    <3>1. /\ <<First(f)>> \in Seq(Backends) /\ "open" \in Ops
          /\ Len(<<First(f)>>) = 1 /\ <<First(f)>>[1] = First(f)
      BY <2>2 DEF Ops
    <3>2. /\ Jobs(<<First(f)>>, "open") \in Seq(JobType)
          /\ Len(Jobs(<<First(f)>>, "open")) = 1
          /\ Jobs(<<First(f)>>, "open")[1] = [driver |-> First(f), op |-> "open"]
      <4> DEFINE chosen == <<First(f)>>
      <4>1. chosen \in Seq(Backends) /\ "open" \in Ops /\ Len(chosen) = 1 /\ chosen[1] = First(f)
        BY <3>1
      <4> HIDE DEF chosen
      <4>2. /\ Jobs(chosen, "open") \in Seq(JobType) /\ Len(Jobs(chosen, "open")) = 1
            /\ Jobs(chosen, "open")[1] = [driver |-> First(f), op |-> "open"]
        BY <4>1, JobsOfDrivers
      <4>3. QED
        BY <4>2 DEF chosen
    <3>3. QED
      BY <2>3, <3>2
  <2>5. JobsOK(r)
    BY <2>1, <2>2, <2>3, <2>4 DEF JobsOK, OpsOf
  <2>6. r.held \subseteq KeptByProbe(r) /\ ~Leaks(Head(r.todo).driver, Head(r.todo).op)
    BY <2>2, <2>3, <2>4 DEF KeptByProbe, Leaks
  <2>7. LedgerOK(r)
    BY <2>3, <2>5, <2>6, FirstJob
  <2>8. QED
    BY <2>1, <2>7, OneLedger DEF r
<1>4. CASE Return(t)
  BY <1>4, IdleLedger, OneLedger DEF Return
<1>5. QED
  BY <1>2, <1>3, <1>4

LEMMA HostKeepsLedger ==
  ASSUME RegistryInv, LibChanges \/ ServiceChanges \/ DeviceChanges
  PROVE  LedgerInv' /\ host' \in HostType
<1>1. PICK h \in HostType : HostBecomes(h)
  <2>1. host \in HostType
    BY DEF RegistryInv
  <2>2. ASSUME NEW S, NEW set \in SUBSET S, NEW x \in S PROVE Flip(set, x) \in SUBSET S
    BY DEF Flip
  <2>3. CASE LibChanges
    <3>1. PICK l \in VolatileLibs : HostBecomes([host EXCEPT !.libs = Flip(@, l)])
      BY <2>3 DEF LibChanges
    <3>2. Flip(host.libs, l) \in SUBSET Libs
      BY <2>1, <2>2, RegistryAssumption DEF HostType
    <3>3. [host EXCEPT !.libs = Flip(@, l)] \in HostType
      BY <2>1, <3>2 DEF HostType
    <3>4. QED
      BY <3>1, <3>3
  <2>4. CASE ServiceChanges
    <3>1. PICK b \in VolatileBackends : HostBecomes([host EXCEPT !.up = Flip(@, b)])
      BY <2>4 DEF ServiceChanges
    <3>2. Flip(host.up, b) \in SUBSET Backends
      BY <2>1, <2>2, RegistryAssumption DEF HostType
    <3>3. [host EXCEPT !.up = Flip(@, b)] \in HostType
      BY <2>1, <3>2 DEF HostType
    <3>4. QED
      BY <3>1, <3>3
  <2>5. CASE DeviceChanges
    <3>1. PICK now \in {host.present} \cup {Flip(host.present, d) : d \in VolatileDevices} :
            \E new \in Defaults(host.platform, now) :
              HostBecomes([host EXCEPT !.present = now, !.default = new])
      BY <2>5 DEF DeviceChanges
    <3>0. PICK new \in Defaults(host.platform, now) :
            HostBecomes([host EXCEPT !.present = now, !.default = new])
      BY <3>1
    <3>2. now \in SUBSET Elements(Catalog)
      BY <2>1, <2>2, RegistryAssumption DEF HostType
    <3>3. new \in Elements(Catalog) \cup {None}
      BY <3>0, <3>2 DEF Defaults, Playable
    <3>4. [host EXCEPT !.present = now, !.default = new] \in HostType
      BY <2>1, <3>2, <3>3 DEF HostType
    <3>5. QED
      BY <3>0, <3>4
  <2>6. QED
    BY <2>3, <2>4, <2>5
<1>2. ASSUME NEW t \in Threads PROVE LedgerOK(th'[t])
  <2>1. IsThread(th[t]) /\ LedgerOK(th[t])
    BY DEF RegistryInv, CacheInv, ThreadsInv, LedgerInv
  <2>2. th'[t] = th[t] \/ th'[t] = [th[t] EXCEPT !.seen = @ \cup {h}]
    BY <1>1 DEF HostBecomes
  <2>3. SameLedger(th'[t], th[t])
    BY <2>1, <2>2 DEF SameLedger, IsThread, Fields
  <2>4. QED
    BY <2>1, <2>3, LedgerOfSame
<1>3. LedgerInv'
  BY <1>2 DEF LedgerInv
<1>4. QED
  BY <1>1, <1>3 DEF HostBecomes

LEMMA StepRegistry == RegistryInv /\ [Next]_vars => RegistryInv'
<1> SUFFICES ASSUME RegistryInv, [Next]_vars PROVE RegistryInv'
  OBVIOUS
<1>1. CacheInv'
  BY StepCache DEF RegistryInv
<1>2. LedgerInv' /\ host' \in HostType
  <2>1. ASSUME NEW t \in Threads, ThreadStep(t) PROVE LedgerInv' /\ host' \in HostType
    BY <2>1, CallKeepsLedger, LibKeepsLedger, StepKeepsLedger DEF ThreadStep
  <2>2. CASE LibChanges \/ ServiceChanges \/ DeviceChanges
    BY <2>2, HostKeepsLedger
  <2>3. CASE UNCHANGED vars
    BY <2>3 DEF vars, RegistryInv, LedgerInv
  <2>4. QED
    BY <2>1, <2>2, <2>3 DEF Next
<1>3. QED
  BY <1>1, <1>2 DEF RegistryInv

LEMMA RegistryInvariance == Spec => []RegistryInv
  BY InitRegistry, StepRegistry, PTL DEF Spec

(* Whatever a thread asks for, and whatever disappears under it, a query   *)
(* acquires nothing twice, releases nothing it does not hold, and holds    *)
(* nothing once it is over but what WASAPI's probe() leaks.                *)
THEOREM QueriesBalanced == Spec => []Balanced
<1>1. RegistryInv => Balanced
  <2> SUFFICES ASSUME RegistryInv, NEW t \in Threads
               PROVE  ~th[t].astray /\ (~Running(t) => th[t].held \subseteq KeptByProbe(th[t]))
    BY DEF Balanced
  <2>1. LedgerOK(th[t])
    BY DEF RegistryInv, LedgerInv
  <2>2. QED
    BY <2>1 DEF LedgerOK, HeldOK, Running
<1>2. QED
  BY <1>1, RegistryInvariance, PTL

-----------------------------------------------------------------------------
(* The search for a driver: probe(), default_driver(), status() and        *)
(* open_default().                                                         *)
SearchApi == {"probe", "default_driver", "status", "open_default"}

(* the drivers a call probes, in order *)
Probed(call, drivers) ==
  IF call.api # "status" THEN drivers
  ELSE IF call.driver \in Stubs THEN <<>> ELSE <<call.driver>>

Loaded(slots, b) == b \in DOMAIN LibOf => slots[LibOf[b]] \in Nat

(* Of the drivers a, the first n have been probed: each was found, in      *)
(* order, and its library stays loaded, or it was unusable.                *)
FoundOK(found, seen, a, n, slots) ==
  /\ \A i \in 1..Len(found) :
       /\ \E p \in 1..n : a[p] = found[i]
       /\ found[i] \notin Stubs /\ Opens(seen, found[i]) /\ Loaded(slots, found[i])
  /\ \A i, j \in 1..Len(found) :
       i < j => \E p, q \in 1..n : p < q /\ a[p] = found[i] /\ a[q] = found[j]
  /\ \A p \in 1..n : a[p] \in Elements(found) \/ Unusable(seen, a[p])

ProbesOK(r, a, slots) ==
  LET done == Len(a) - Len(r.todo)
  IN  /\ Len(r.todo) <= Len(a)
      /\ \A i \in 1..Len(r.todo) : r.todo[i] = [driver |-> a[done + i], op |-> "probe"]
      /\ FoundOK(r.found, r.seen, a, done, slots)

(* The probe under way has its library once it is past lib(), and a device *)
(* once it is past a call.                                                 *)
CallMade(s, at) == \E j \in 1..(at - 1) : s[j].kind = "call"

CurrentOK(r, slots) ==
  r.todo # <<>> =>
    LET b == Head(r.todo).driver
    IN  /\ CallMade(Script(b, "probe"), r.at) => Opens(r.seen, b)
        /\ r.at > 1 => Loaded(slots, b)

(* open_default() opens the first driver found; only a device it can lack. *)
OpeningOK(r, a, slots) ==
  LET b == First(r.found)
  IN  /\ r.found # <<>> /\ b \notin Stubs /\ Loaded(slots, b)
      /\ \E q \in 1..Len(a) : a[q] = b /\ \A p \in 1..(q - 1) : Unusable(r.seen, a[p])
      /\ r.todo # <<>> => /\ Len(r.todo) = 1 /\ Head(r.todo) = [driver |-> b, op |-> "open"]
                          /\ r.fault = "none"
      /\ r.fault \in {"none", "device"}
      /\ r.fault = "device" => Unusable(r.seen, b)

SearchOK(r, drivers, slots, h) ==
  /\ r.call.api = "status" => r.call.driver \in Backends
  /\ r.opening => r.call.api = "open_default"
  /\ r.call.api \in SearchApi =>
       /\ r.todo # <<>> \/ (r.call.api = "open_default" /\ ~r.opening /\ r.found # <<>>) =>
            h \in r.seen
       /\ r.opening => OpeningOK(r, drivers, slots)
       /\ ~r.opening => ProbesOK(r, Probed(r.call, drivers), slots) /\ CurrentOK(r, slots)

(* only ca_lib() and cf_lib() remember a failure *)
RetryInv == \A l \in Libs : slot[l] = Failed => l \in Sticky

SearchInv == RetryInv /\ \A t \in Threads : SearchOK(th[t], Drivers, slot, host)

-----------------------------------------------------------------------------
(* The drivers of a host are distinct.                                     *)
Distinct(s) == \A i, j \in 1..Len(s) : s[i] = s[j] => i = j

(* s lists some of B, each once *)
Lists(s, B) == s \in Seq(Backends) /\ Distinct(s) /\ Elements(s) \subseteq B

LEMMA EntryLists ==
  ASSUME NEW s, NEW B, Lists(s, B), NEW b \in Backends \ B, NEW features
  PROVE  Lists(s \o Entry(b, features), B \cup {b})
<1>1. CASE b \in features
  <2>1. Entry(b, features) = <<b>>
    BY <1>1 DEF Entry
  <2>2. s \in Seq(Backends) /\ s \o <<b>> = Append(s, b)
    BY DEF Lists
  <2>3. /\ Append(s, b) \in Seq(Backends) /\ Len(Append(s, b)) = Len(s) + 1 /\ Len(s) \in Nat
        /\ \A i \in 1..Len(s) : Append(s, b)[i] = s[i]
        /\ Append(s, b)[Len(s) + 1] = b
    BY <2>2, AppendProperties
  <2>4. \A i \in 1..Len(s) : s[i] \in B
    BY DEF Lists, Elements
  <2> DEFINE u == Append(s, b)
  <2>5. /\ u \in Seq(Backends) /\ Len(u) = Len(s) + 1 /\ Len(s) \in Nat
        /\ \A i \in 1..Len(s) : u[i] = s[i] /\ u[i] # b /\ u[i] \in B
        /\ u[Len(s) + 1] = b
    BY <2>3, <2>4
  <2> HIDE DEF u
  <2>6. Distinct(u)
    BY <2>5 DEF Lists, Distinct
  <2>7. Elements(u) \subseteq B \cup {b}
    BY <2>5 DEF Elements
  <2>8. Lists(u, B \cup {b})
    BY <2>5, <2>6, <2>7 DEF Lists
  <2>9. QED
    BY <2>1, <2>2, <2>8 DEF u
<1>2. CASE b \notin features
  <2>1. Entry(b, features) = <<>> /\ s \in Seq(Backends)
    BY <1>2 DEF Entry, Lists
  <2>2. s \o <<>> = s
    BY <2>1, ConcatEmptySeq
  <2>3. Lists(s, B \cup {b})
    BY DEF Lists
  <2>4. QED
    BY <2>1, <2>2, <2>3
<1>3. QED
  BY <1>1, <1>2

LEMMA FirstEntryLists ==
  ASSUME NEW b \in Backends, NEW features
  PROVE  Lists(Entry(b, features), {b})
<1>1. CASE b \in features
  <2>1. Entry(b, features) = <<b>> /\ <<b>> \in Seq(Backends) /\ Len(<<b>>) = 1 /\ <<b>>[1] = b
    BY <1>1 DEF Entry
  <2>2. Elements(<<b>>) \subseteq {b} /\ Distinct(<<b>>)
    BY <2>1 DEF Elements, Distinct
  <2>3. QED
    BY <2>1, <2>2 DEF Lists
<1>2. CASE b \notin features
  BY <1>2 DEF Entry, Lists, Elements, Distinct
<1>3. QED
  BY <1>1, <1>2

LEMMA DriversAreListed ==
  ASSUME NEW platform \in Platforms, NEW features
  PROVE  Lists(DRIVERS(platform, features), Backends)
<1> DEFINE E(b) == Entry(b, features)
<1>1. \A b \in Backends : Lists(E(b), {b})
  BY FirstEntryLists
<1>2. \A s, B : \A b \in Backends \ B : Lists(s, B) => Lists(s \o E(b), B \cup {b})
  BY EntryLists
<1> HIDE DEF E
<1>3. Lists((((E("pipewire") \o E("pulse")) \o E("alsa")) \o E("oss")) \o E("mock"), Backends)
  <2>1. Lists(E("pipewire") \o E("pulse"), {"pipewire"} \cup {"pulse"})
    BY <1>1, <1>2 DEF Backends
  <2>2. Lists((E("pipewire") \o E("pulse")) \o E("alsa"), ({"pipewire"} \cup {"pulse"}) \cup {"alsa"})
    BY <1>2, <2>1 DEF Backends
  <2>3. Lists(((E("pipewire") \o E("pulse")) \o E("alsa")) \o E("oss"),
              (({"pipewire"} \cup {"pulse"}) \cup {"alsa"}) \cup {"oss"})
    BY <1>2, <2>2 DEF Backends
  <2>4. Lists((((E("pipewire") \o E("pulse")) \o E("alsa")) \o E("oss")) \o E("mock"),
              ((({"pipewire"} \cup {"pulse"}) \cup {"alsa"}) \cup {"oss"}) \cup {"mock"})
    BY <1>2, <2>3 DEF Backends
  <2>5. QED
    BY <2>4 DEF Lists, Backends
<1>4. Lists((E("wasapi") \o E("asio")) \o E("mock"), Backends)
  <2>1. Lists(E("wasapi") \o E("asio"), {"wasapi"} \cup {"asio"})
    BY <1>1, <1>2 DEF Backends
  <2>2. Lists((E("wasapi") \o E("asio")) \o E("mock"), ({"wasapi"} \cup {"asio"}) \cup {"mock"})
    BY <1>2, <2>1 DEF Backends
  <2>3. QED
    BY <2>2 DEF Lists, Backends
<1>5. Lists(E("coreaudio") \o E("mock"), Backends)
  <2>1. Lists(E("coreaudio") \o E("mock"), {"coreaudio"} \cup {"mock"})
    BY <1>1, <1>2 DEF Backends
  <2>2. QED
    BY <2>1 DEF Lists, Backends
<1>6. Lists(E("mock"), Backends)
  <2>1. Lists(E("mock"), {"mock"})
    BY <1>1 DEF Backends
  <2>2. QED
    BY <2>1 DEF Lists, Backends
<1>7. QED
  BY <1>3, <1>4, <1>5, <1>6 DEF DRIVERS, Platforms, E

LEMMA ProbedAreListed ==
  ASSUME host \in HostType, NEW call,
         call.api = "status" => call.driver \in Backends
  PROVE  /\ Lists(Drivers, Backends)
         /\ Lists(Probed(call, Drivers), Backends)
<1>1. Lists(Drivers, Backends)
  BY DriversAreListed DEF HostType, Drivers
<1>2. ASSUME NEW b \in Backends PROVE Lists(<<b>>, Backends)
  <2>1. <<b>> \in Seq(Backends) /\ Len(<<b>>) = 1 /\ <<b>>[1] = b
    OBVIOUS
  <2>2. QED
    BY <2>1 DEF Lists, Distinct, Elements
<1>3. Lists(<<>>, Backends)
  BY DEF Lists, Distinct, Elements
<1>4. QED
  BY <1>1, <1>2, <1>3 DEF Probed

-----------------------------------------------------------------------------
(* The scripts of probe() and of open(), as far as the search needs them.  *)
SearchShape(s, b, op) ==
  /\ Len(s) \in Nat \ {0}
  /\ \A i \in 1..Len(s) :
       /\ s[i].kind \in {"lib", "call", "do", "stub"}
       /\ s[i].kind = "lib" => i = 1 /\ b \in DOMAIN LibOf /\ s[i].lib = LibOf[b]
       /\ s[i].kind = "stub" <=> b \in Stubs
  /\ b \in DOMAIN LibOf => s[1].kind = "lib"
  /\ op = "probe" /\ b \in DOMAIN LibOf => s[Len(s)].kind = "do" /\ CallMade(s, Len(s))

LEMMA LibraryBackends ==
  /\ DOMAIN LibOf = {"pulse", "alsa", "oss", "wasapi", "coreaudio"}
  /\ Backends = Stubs \cup {"mock"} \cup DOMAIN LibOf
  /\ Stubs \cap ({"mock"} \cup DOMAIN LibOf) = {} /\ "mock" \notin DOMAIN LibOf
  BY DEF LibOf, Backends, Stubs

LEMMA SingleStepShape ==
  ASSUME NEW b, NEW op, b \notin DOMAIN LibOf, NEW step,
         step.kind \in {"do", "stub"}, step.kind = "stub" <=> b \in Stubs
  PROVE  SearchShape(<<step>>, b, op)
  BY DEF SearchShape

LEMMA ThreeStepShape ==
  ASSUME NEW b \in DOMAIN LibOf, NEW op, NEW first, NEW second, NEW third,
         first.kind = "lib", first.lib = LibOf[b], second.kind = "call", third.kind = "do"
  PROVE  SearchShape(<<first, second, third>>, b, op)
<1> DEFINE s == <<first, second, third>>
<1>1. Len(s) = 3 /\ s[1] = first /\ s[2] = second /\ s[3] = third
  OBVIOUS
<1>2. b \notin Stubs
  BY LibraryBackends
<1> HIDE DEF s
<1>3. CallMade(s, 3)
  BY <1>1 DEF CallMade
<1>4. SearchShape(s, b, op)
  BY <1>1, <1>2, <1>3 DEF SearchShape
<1>5. QED
  BY <1>4 DEF s

LEMMA SearchShapes == \A b \in Backends, op \in {"probe", "open"} : SearchShape(Script(b, op), b, op)
<1> SUFFICES ASSUME NEW b \in Backends, NEW op \in {"probe", "open"}
             PROVE  SearchShape(Script(b, op), b, op)
  OBVIOUS
<1>1. CASE b \in Stubs
  <2>1. Script(b, op) = NotImplemented
    BY <1>1 DEF Script, OrNotImplemented, Probe, Open, Stubs
  <2> DEFINE step == Step("stub", "", {}, {}, {})
  <2>2. Script(b, op) = <<step>> /\ step.kind = "stub" /\ b \notin DOMAIN LibOf
    BY <1>1, <2>1, LibraryBackends DEF NotImplemented, Step
  <2> HIDE DEF step
  <2>3. QED
    BY <1>1, <2>2, SingleStepShape
<1>2. CASE b = "mock"
  <2>1. Script(b, op) = << Do({}, {}) >>
    BY <1>2 DEF Script, OrNotImplemented, Probe, Open
  <2>2. b \notin Stubs /\ b \notin DOMAIN LibOf /\ Do({}, {}).kind = "do"
    BY <1>2, LibraryBackends DEF Do, Step
  <2>3. QED
    BY <2>1, <2>2, SingleStepShape
<1>3. CASE b \in DOMAIN LibOf /\ op = "open"
  <2> DEFINE s == << Lib(LibOf[b]), Call({}, {}, {}) >>
  <2>1. Script(b, op) = s
    BY <1>3, LibraryBackends DEF Script, OrNotImplemented, Open, Probe
  <2>2. /\ Len(s) = 2 /\ s[1].kind = "lib" /\ s[1].lib = LibOf[b] /\ s[2].kind = "call"
        /\ b \notin Stubs
    BY <1>3, LibraryBackends DEF Lib, Call, Step
  <2> HIDE DEF s
  <2>3. SearchShape(s, b, op)
    BY <1>3, <2>2 DEF SearchShape
  <2>4. QED
    BY <2>1, <2>3
<1>4. CASE b \in {"pulse", "alsa", "oss", "coreaudio"} /\ op = "probe"
  <2>1. PICK r : Script(b, op) = << Lib(LibOf[b]), Call({r}, {}, {}), Do({}, {r}) >>
    <3>1. CASE b = "pulse"
      BY <1>4, <3>1 DEF Script, OrNotImplemented, Probe, LibOf
    <3>2. CASE b = "alsa"
      BY <1>4, <3>2 DEF Script, OrNotImplemented, Probe, LibOf
    <3>3. CASE b = "oss"
      BY <1>4, <3>3 DEF Script, OrNotImplemented, Probe, LibOf
    <3>4. CASE b = "coreaudio"
      BY <1>4, <3>4 DEF Script, OrNotImplemented, Probe, LibOf
    <3>5. QED
      BY <1>4, <3>1, <3>2, <3>3, <3>4
  <2>2. /\ Lib(LibOf[b]).kind = "lib" /\ Lib(LibOf[b]).lib = LibOf[b]
        /\ Call({r}, {}, {}).kind = "call" /\ Do({}, {r}).kind = "do"
    BY DEF Lib, Call, Do, Step
  <2>3. b \in DOMAIN LibOf
    BY <1>4, LibraryBackends
  <2>4. QED
    BY <2>1, <2>2, <2>3, ThreeStepShape
<1>5. CASE b = "wasapi" /\ op = "probe"
  <2> DEFINE s == WasapiProbe
  <2>1. Script(b, op) = s
    BY <1>5 DEF Script, OrNotImplemented, Probe
  <2>2. Len(s) = 7 /\ s[1].kind = "lib" /\ s[1].lib = LibOf["wasapi"]
    BY DEF WasapiProbe, GetEnumerator, GetEndpoint, ActivateClient, GetMixFormat, Lib, Step, LibOf
  <2>3. s[2].kind = "do" /\ s[3].kind = "call" /\ s[4].kind = "call" /\ s[5].kind = "call"
    BY DEF WasapiProbe, GetEnumerator, GetEndpoint, ActivateClient, GetMixFormat, Do, Call, Step
  <2>4. s[6].kind = "call" /\ s[7].kind = "do"
    BY DEF WasapiProbe, GetEnumerator, GetEndpoint, ActivateClient, GetMixFormat, Do, Call, Step
  <2> HIDE DEF s
  <2>5. b \notin Stubs /\ b \in DOMAIN LibOf /\ CallMade(s, 7)
    BY <1>5, <2>3, LibraryBackends DEF CallMade
  <2>6. SearchShape(s, b, op)
    BY <1>5, <2>2, <2>3, <2>4, <2>5 DEF SearchShape
  <2>7. QED
    BY <2>1, <2>6
<1>6. QED
  BY <1>1, <1>2, <1>3, <1>4, <1>5, LibraryBackends

-----------------------------------------------------------------------------
(* A library that is loaded stays loaded.                                  *)
StillLoaded(slots, now) == \A b \in Backends : Loaded(slots, b) => Loaded(now, b)

(* the fields SearchOK looks at, the hosts seen aside *)
SameSearch(q, r) ==
  /\ q.call = r.call /\ q.todo = r.todo /\ q.at = r.at /\ q.found = r.found
  /\ q.fault = r.fault /\ q.opening = r.opening

(* What was so of the hosts seen and of the slots is so of later ones.     *)
LEMMA VerdictsGrow ==
  ASSUME NEW b, NEW seen, NEW more, seen \subseteq more
  PROVE  /\ Unusable(seen, b) => Unusable(more, b)
         /\ Opens(seen, b) => Opens(more, b)
  BY DEF Unusable, Opens

LEMMA SearchGrows ==
  ASSUME NEW r, NEW q, NEW a, NEW slots, NEW now, NEW h, NEW h2,
         JobsOK(r), SearchOK(r, a, slots, h), SameSearch(q, r), StillLoaded(slots, now),
         r.seen \subseteq q.seen,
         (r.todo # <<>> \/ (r.call.api = "open_default" /\ ~r.opening /\ r.found # <<>>))
           /\ h \in r.seen => h2 \in q.seen
  PROVE  SearchOK(q, a, now, h2)
<1>1. \A b : /\ Unusable(r.seen, b) => Unusable(q.seen, b)
             /\ Opens(r.seen, b) => Opens(q.seen, b)
  BY VerdictsGrow
<1>2. /\ \A i \in 1..Len(r.found) : r.found[i] \in Backends
      /\ r.todo # <<>> => Head(r.todo).driver \in Backends
  <2>1. r.found \in Seq(Backends) /\ r.todo \in Seq(JobType)
    BY DEF JobsOK
  <2>2. r.todo # <<>> => Head(r.todo) \in JobType
    BY <2>1, HeadTailProperties
  <2>3. QED
    BY <2>1, <2>2, ElementOfSeq DEF JobType
<1>3. ASSUME NEW p, ProbesOK(r, p, slots) PROVE ProbesOK(q, p, now)
  <2>1. q.todo = r.todo /\ q.found = r.found
    BY DEF SameSearch
  <2>2. \A i \in 1..Len(r.found) : /\ Opens(r.seen, r.found[i]) => Opens(q.seen, r.found[i])
                                  /\ Loaded(slots, r.found[i]) => Loaded(now, r.found[i])
    BY <1>1, <1>2 DEF StillLoaded
  <2>3. ASSUME NEW n, FoundOK(r.found, r.seen, p, n, slots)
        PROVE  FoundOK(r.found, q.seen, p, n, now)
    BY <1>1, <2>2, <2>3 DEF FoundOK
  <2>4. QED
    BY <1>3, <2>1, <2>3 DEF ProbesOK
<1>4. CurrentOK(r, slots) => CurrentOK(q, now)
  BY <1>1, <1>2 DEF CurrentOK, SameSearch, StillLoaded
<1>5. ASSUME OpeningOK(r, a, slots) PROVE OpeningOK(q, a, now)
  <2>1. First(r.found) \in Backends
    <3>1. r.found # <<>> /\ r.found \in Seq(Backends)
      BY <1>5 DEF OpeningOK, JobsOK
    <3>2. 1 \in 1..Len(r.found)
      BY <3>1
    <3>3. QED
      BY <1>2, <3>2 DEF First
  <2>2. QED
    BY <1>1, <1>5, <2>1 DEF OpeningOK, SameSearch, StillLoaded
<1>6. QED
  BY <1>3, <1>4, <1>5 DEF SearchOK, SameSearch

(* One more driver is probed: found, or unusable.                          *)
LEMMA OneMoreMissing ==
  ASSUME NEW found, NEW seen, NEW a, NEW n \in Nat, NEW slots,
         FoundOK(found, seen, a, n, slots), Unusable(seen, a[n + 1])
  PROVE  FoundOK(found, seen, a, n + 1, slots)
<1>1. /\ \A p \in 1..n : p \in 1..(n + 1)
      /\ \A p \in 1..(n + 1) : p \in 1..n \/ p = n + 1
  OBVIOUS
<1>2. \A i \in 1..Len(found) :
        /\ \E p \in 1..(n + 1) : a[p] = found[i]
        /\ found[i] \notin Stubs /\ Opens(seen, found[i]) /\ Loaded(slots, found[i])
  BY <1>1 DEF FoundOK
<1>3. ASSUME NEW i \in 1..Len(found), NEW j \in 1..Len(found), i < j
      PROVE  \E p, q \in 1..(n + 1) : p < q /\ a[p] = found[i] /\ a[q] = found[j]
  <2>1. \E p, q \in 1..n : p < q /\ a[p] = found[i] /\ a[q] = found[j]
    BY <1>3 DEF FoundOK
  <2>2. QED
    BY <1>1, <2>1
<1>4. \A p \in 1..(n + 1) : a[p] \in Elements(found) \/ Unusable(seen, a[p])
  BY <1>1 DEF FoundOK
<1>5. QED
  BY <1>2, <1>3, <1>4 DEF FoundOK

LEMMA OneMoreFound ==
  ASSUME NEW found \in Seq(Backends), NEW seen, NEW a, NEW n \in Nat, NEW slots,
         FoundOK(found, seen, a, n, slots), a[n + 1] \in Backends \ Stubs,
         Opens(seen, a[n + 1]), Loaded(slots, a[n + 1])
  PROVE  FoundOK(Append(found, a[n + 1]), seen, a, n + 1, slots)
<1> DEFINE more == Append(found, a[n + 1])
           m    == Len(found)
<1>1. /\ \A p \in 1..n : p \in 1..(n + 1) /\ p < n + 1
      /\ \A p \in 1..(n + 1) : p \in 1..n \/ p = n + 1
      /\ n + 1 \in 1..(n + 1)
  OBVIOUS
<1>2. /\ m \in Nat /\ Len(more) = m + 1 /\ more[m + 1] = a[n + 1]
      /\ \A i \in 1..m : more[i] = found[i]
  BY AppendProperties
<1> HIDE DEF more
<1>3. \A i \in 1..Len(more) : i \in 1..m \/ i = m + 1
  BY <1>2
<1>4. ASSUME NEW i \in 1..Len(more)
      PROVE  /\ \E p \in 1..(n + 1) : a[p] = more[i]
             /\ more[i] \notin Stubs /\ Opens(seen, more[i]) /\ Loaded(slots, more[i])
  <2>1. CASE i \in 1..m
    <3>1. more[i] = found[i]
      BY <1>2, <2>1
    <3>2. QED
      BY <1>1, <2>1, <3>1 DEF FoundOK
  <2>2. CASE i = m + 1
    BY <1>1, <1>2, <2>2
  <2>3. QED
    BY <1>3, <2>1, <2>2
<1>5. ASSUME NEW i \in 1..Len(more), NEW j \in 1..Len(more), i < j
      PROVE  \E p, q \in 1..(n + 1) : p < q /\ a[p] = more[i] /\ a[q] = more[j]
  <2>1. i \in 1..m /\ more[i] = found[i]
    BY <1>2, <1>5
  <2>2. CASE j \in 1..m
    <3>1. \E p, q \in 1..n : p < q /\ a[p] = found[i] /\ a[q] = found[j]
      BY <1>5, <2>1, <2>2 DEF FoundOK
    <3>2. more[j] = found[j]
      BY <1>2, <2>2
    <3>3. QED
      BY <1>1, <2>1, <3>1, <3>2
  <2>3. CASE j = m + 1
    <3>1. \E p \in 1..n : a[p] = found[i]
      BY <2>1 DEF FoundOK
    <3>2. QED
      BY <1>1, <1>2, <2>1, <2>3, <3>1
  <2>4. QED
    BY <1>3, <2>2, <2>3
<1>6. ASSUME NEW p \in 1..(n + 1) PROVE a[p] \in Elements(more) \/ Unusable(seen, a[p])
  <2>1. Elements(found) \subseteq Elements(more) /\ a[n + 1] \in Elements(more)
    BY <1>2 DEF Elements
  <2>2. QED
    BY <1>1, <2>1 DEF FoundOK
<1>7. QED
  BY <1>4, <1>5, <1>6 DEF FoundOK, more

LEMMA Remaining ==
  ASSUME NEW n \in Nat, NEW m \in Nat \ {0}, m <= n
  PROVE  /\ n - m \in Nat /\ n - (m - 1) = (n - m) + 1 /\ m - 1 <= n /\ 1 \in 1..m
         /\ \A i \in 1..(m - 1) : i + 1 \in 1..m /\ (n - m) + (i + 1) = ((n - m) + 1) + i
  OBVIOUS

LEMMA ProbeEnds ==
  ASSUME NEW r, NEW q, NEW a \in Seq(Backends), NEW slots, JobsOK(r), ProbesOK(r, a, slots),
         r.todo # <<>>, q.todo = Tail(r.todo), q.seen = r.seen, NEW b, b = Head(r.todo).driver,
         \/ q.found = r.found /\ Unusable(r.seen, b)
         \/ q.found = Append(r.found, b) /\ b \notin Stubs /\ Opens(r.seen, b) /\ Loaded(slots, b)
  PROVE  ProbesOK(q, a, slots)
<1> DEFINE n    == Len(a)
           m    == Len(r.todo)
           done == n - m
<1>1. /\ Head(r.todo) = r.todo[1] /\ m \in Nat \ {0} /\ b \in Backends
      /\ Len(q.todo) = m - 1 /\ \A i \in 1..(m - 1) : q.todo[i] = r.todo[i + 1]
      /\ r.found \in Seq(Backends)
  <2>1. r.todo \in Seq(JobType) /\ r.found \in Seq(Backends)
    BY DEF JobsOK
  <2>2. /\ Head(r.todo) = r.todo[1] /\ Head(r.todo) \in JobType /\ m \in Nat \ {0}
        /\ Len(Tail(r.todo)) = m - 1 /\ \A i \in 1..(m - 1) : Tail(r.todo)[i] = r.todo[i + 1]
    BY <2>1, HeadTailProperties
  <2>3. QED
    BY <2>1, <2>2 DEF JobType
<1>2. /\ n \in Nat /\ m <= n /\ FoundOK(r.found, r.seen, a, done, slots)
      /\ \A i \in 1..m : r.todo[i] = [driver |-> a[done + i], op |-> "probe"]
  BY LenProperties DEF ProbesOK
<1> HIDE DEF n, m
<1>3. /\ done \in Nat /\ n - (m - 1) = done + 1 /\ m - 1 <= n /\ 1 \in 1..m
      /\ \A i \in 1..(m - 1) : i + 1 \in 1..m /\ done + (i + 1) = (done + 1) + i
  BY <1>1, <1>2, Remaining
<1> HIDE DEF done
<1>4. a[done + 1] = b
  <2>1. r.todo[1] = [driver |-> a[done + 1], op |-> "probe"]
    BY <1>2, <1>3
  <2>2. r.todo[1].driver = a[done + 1]
    BY <2>1
  <2>3. QED
    BY <1>1, <2>2
<1>5. \A i \in 1..(m - 1) : q.todo[i] = [driver |-> a[(done + 1) + i], op |-> "probe"]
  BY <1>1, <1>2, <1>3
<1>6. FoundOK(q.found, q.seen, a, done + 1, slots)
  <2>1. CASE q.found = r.found /\ Unusable(r.seen, b)
    BY <1>2, <1>3, <1>4, <2>1, OneMoreMissing
  <2>2. CASE q.found = Append(r.found, b) /\ b \notin Stubs /\ Opens(r.seen, b) /\ Loaded(slots, b)
    BY <1>1, <1>2, <1>3, <1>4, <2>2, OneMoreFound
  <2>3. QED
    BY <2>1, <2>2
<1>7. /\ Len(q.todo) <= Len(a) /\ Len(a) - Len(q.todo) = done + 1
      /\ \A i \in 1..Len(q.todo) : q.todo[i] = [driver |-> a[(done + 1) + i], op |-> "probe"]
  BY <1>1, <1>3, <1>5 DEF n
<1>8. QED
  BY <1>6, <1>7 DEF ProbesOK

-----------------------------------------------------------------------------
(* A thread's own steps: the job of a search it is at.                     *)
LEMMA SearchJob ==
  ASSUME NEW t \in Threads, LedgerOK(th[t]), Running(t),
         NEW a, NEW slots, NEW h, SearchOK(th[t], a, slots, h), th[t].call.api \in SearchApi
  PROVE  /\ Job(t).driver \in Backends /\ h \in th[t].seen
         /\ th[t].opening => Job(t).op = "open"
         /\ ~th[t].opening => Job(t).op = "probe"
         /\ th[t].at \in 1..Len(ScriptOf(t))
         /\ SearchShape(ScriptOf(t), Job(t).driver, Job(t).op)
         /\ Current(t).kind \in {"lib", "call", "do", "stub"}
         /\ Current(t).kind = "lib" =>
              Job(t).driver \in DOMAIN LibOf /\ Current(t).lib = LibOf[Job(t).driver]
         /\ Current(t).kind = "stub" => Job(t).driver \in Stubs
<1> DEFINE r == th[t]
<1>1. r.todo # <<>> /\ r.todo \in Seq(JobType)
  BY DEF Running, LedgerOK, JobsOK
<1>2. /\ Head(r.todo) \in JobType /\ Head(r.todo) = r.todo[1] /\ 1 \in 1..Len(r.todo)
  BY <1>1, HeadTailProperties
<1>3. Job(t).driver \in Backends /\ h \in r.seen
  BY <1>1, <1>2 DEF Job, JobType, SearchOK
<1>4. r.opening => Job(t).op = "open"
  <2>1. ASSUME r.opening PROVE Head(r.todo) = [driver |-> First(r.found), op |-> "open"]
    <3>1. OpeningOK(r, a, slots)
      BY <2>1 DEF SearchOK
    <3>2. QED
      BY <1>1, <3>1 DEF OpeningOK
  <2>2. QED
    BY <2>1 DEF Job
<1>5. ~r.opening => Job(t).op = "probe"
  <2>1. ASSUME ~r.opening PROVE r.todo[1].op = "probe"
    <3>1. ProbesOK(r, Probed(r.call, a), slots)
      BY <2>1 DEF SearchOK
    <3>2. QED
      <4>1. r.todo[1] = [driver |-> Probed(r.call, a)[(Len(Probed(r.call, a)) - Len(r.todo)) + 1],
                         op |-> "probe"]
        BY <1>2, <3>1 DEF ProbesOK
      <4>2. QED
        BY <4>1
  <2>2. QED
    BY <1>2, <2>1 DEF Job
<1>6. r.at \in 1..Len(ScriptOf(t))
  BY <1>1 DEF LedgerOK, HeldOK, ScriptOf, Job
<1>7. SearchShape(ScriptOf(t), Job(t).driver, Job(t).op)
  BY <1>3, <1>4, <1>5, SearchShapes DEF ScriptOf
<1>8. Current(t) = ScriptOf(t)[r.at]
  BY DEF Current
<1>9. QED
  BY <1>3, <1>4, <1>5, <1>6, <1>7, <1>8 DEF SearchShape

LEMMA StepDoneKeepsSearch ==
  ASSUME NEW t \in Threads, LedgerOK(th[t]), Running(t), NEW a, NEW slots, NEW h, NEW now,
         SearchOK(th[t], a, slots, h), StillLoaded(slots, now), Probed(th[t].call, a) \in Seq(Backends),
         NEW q, IsThread(q), SameSearch(q, th[t]), q.seen = th[t].seen,
         th[t].call.api \in SearchApi =>
           /\ Current(t).kind # "stub"
           /\ Current(t).kind = "call" => Job(t).driver \in h.up
           /\ Current(t).kind = "lib" => Loaded(now, Job(t).driver)
  PROVE  SearchOK(StepDone(t, q), a, now, h)
<1> DEFINE p == StepDone(t, q)
           s == ScriptOf(t)
           b == Job(t).driver
<1> SUFFICES SearchOK(p, a, now, h)
  OBVIOUS
<1>1. /\ p.call = q.call /\ p.opening = q.opening /\ p.seen = q.seen /\ p.fault = q.fault
      /\ q.at < Len(s) => p.todo = q.todo /\ p.at = q.at + 1 /\ p.found = q.found
      /\ ~(q.at < Len(s)) => p.todo = Tail(q.todo) /\ p.at = 1 /\ p.found = Append(q.found, b)
  BY DEF StepDone, IsThread, Fields
<1>2. /\ q.call = th[t].call /\ q.todo = th[t].todo /\ q.at = th[t].at /\ q.found = th[t].found
      /\ q.opening = th[t].opening /\ q.fault = th[t].fault
  BY DEF SameSearch
<1>3. JobsOK(th[t]) /\ JobsOK(q)
  BY <1>2 DEF LedgerOK, JobsOK
<1>4. SearchOK(q, a, now, h)
  BY <1>3, SearchGrows
<1> HIDE DEF p
<1>5. CASE q.call.api \notin SearchApi
  BY <1>1, <1>4, <1>5 DEF SearchOK
<1>6. CASE q.call.api \in SearchApi
  <2>1. /\ b \in Backends /\ h \in q.seen /\ q.at \in 1..Len(s) /\ SearchShape(s, b, Job(t).op)
        /\ (~q.opening => Job(t).op = "probe") /\ q.todo # <<>> /\ b = Head(q.todo).driver
    BY <1>2, <1>6, SearchJob DEF Running, Job
  <2>2. /\ s[q.at].kind # "stub"
        /\ s[q.at].kind = "call" => b \in h.up
        /\ s[q.at].kind = "lib" => Loaded(now, b)
    BY <1>2, <1>6 DEF Current
  <2>3. /\ ~q.opening => ProbesOK(q, Probed(q.call, a), now) /\ CurrentOK(q, now)
        /\ q.opening => OpeningOK(q, a, now) /\ q.call.api = "open_default"
        /\ q.call.api = "status" => q.call.driver \in Backends
    BY <1>4, <1>6 DEF SearchOK
  <2>4. s = Script(b, Job(t).op)
    BY DEF ScriptOf
  <2>script. /\ Len(s) \in Nat \ {0}
             /\ \A i \in 1..Len(s) :
                  /\ s[i].kind \in {"lib", "call", "do", "stub"}
                  /\ s[i].kind = "lib" => i = 1 /\ b \in DOMAIN LibOf /\ s[i].lib = LibOf[b]
                  /\ s[i].kind = "stub" <=> b \in Stubs
             /\ b \in DOMAIN LibOf => s[1].kind = "lib"
             /\ ~q.opening /\ b \in DOMAIN LibOf => s[Len(s)].kind = "do" /\ CallMade(s, Len(s))
    BY <2>1 DEF SearchShape
  <2> HIDE DEF s, b
  <2>past. ASSUME ~q.opening
           PROVE  /\ CallMade(s, q.at) => Opens(q.seen, b)
                  /\ q.at > 1 => Loaded(now, b)
    <3>1. s = Script(b, "probe")
      BY <2>1, <2>4, <2>past
    <3>2. QED
      BY <2>1, <2>3, <2>past, <3>1 DEF CurrentOK
  <2>5. CASE q.at < Len(s)
    <3>1. p.todo = q.todo /\ p.at = q.at + 1 /\ p.found = q.found
      BY <1>1, <2>5
    <3>2. ASSUME ~q.opening PROVE ProbesOK(p, Probed(p.call, a), now)
      BY <1>1, <2>3, <3>1, <3>2 DEF ProbesOK
    <3>3. ASSUME ~q.opening PROVE CurrentOK(p, now)
      <4>1. Loaded(now, b)
        <5>1. CASE q.at > 1
          BY <2>past, <3>3, <5>1
        <5>2. CASE q.at = 1
          <6>1. b \in DOMAIN LibOf => s[q.at].kind = "lib"
            BY <2>script, <5>2
          <6>2. QED
            BY <2>2, <6>1 DEF Loaded
        <5>3. QED
          BY <2>1, <2>script, <5>1, <5>2
      <4>2. ASSUME NEW j \in 1..(p.at - 1), s[j].kind = "call" PROVE Opens(q.seen, b)
        <5>1. CASE j = q.at
          BY <2>1, <2>2, <4>2, <5>1 DEF Opens
        <5>2. CASE j # q.at
          <6>1. j \in 1..(q.at - 1)
            BY <2>1, <2>script, <3>1, <5>2
          <6>2. QED
            BY <2>past, <3>3, <4>2, <6>1 DEF CallMade
        <5>3. QED
          BY <5>1, <5>2
      <4>3. s = Script(b, "probe") /\ Head(p.todo).driver = b /\ p.seen = q.seen
        BY <1>1, <2>1, <2>4, <3>1, <3>3
      <4>4. QED
        BY <4>1, <4>2, <4>3 DEF CurrentOK, CallMade
    <3>4. ASSUME q.opening PROVE OpeningOK(p, a, now)
      BY <1>1, <2>3, <3>1, <3>4 DEF OpeningOK
    <3>5. QED
      BY <1>1, <1>6, <2>1, <2>3, <3>2, <3>3, <3>4 DEF SearchOK
  <2>6. CASE ~(q.at < Len(s))
    <3>1. p.todo = Tail(q.todo) /\ p.at = 1 /\ p.found = Append(q.found, b) /\ q.at = Len(s)
      BY <1>1, <2>1, <2>6, <2>script DEF b
    <3>2. ASSUME ~q.opening PROVE ProbesOK(p, Probed(p.call, a), now)
      <4>1. b \notin Stubs
        BY <2>1, <2>2, <2>script
      <4>2. Opens(q.seen, b) /\ Loaded(now, b)
        <5>1. CASE b \in DOMAIN LibOf
          <6>1. CallMade(s, q.at) /\ s[1].kind = "lib" /\ s[q.at].kind = "do"
            BY <2>script, <3>1, <3>2, <5>1
          <6>2. q.at > 1
            BY <2>1, <2>script, <6>1
          <6>3. QED
            BY <2>past, <3>2, <6>1, <6>2
        <5>2. CASE b \notin DOMAIN LibOf
          BY <2>1, <4>1, <5>2, LibraryBackends DEF Opens, Loaded
        <5>3. QED
          BY <5>1, <5>2
      <4>3. ProbesOK(p, Probed(q.call, a), now)
        BY <1>1, <1>2, <1>3, <2>1, <2>3, <3>1, <3>2, <4>1, <4>2, ProbeEnds
      <4>4. QED
        BY <1>1, <4>3
    <3>3. CurrentOK(p, now)
      BY <3>1 DEF CurrentOK, CallMade
    <3>4. ASSUME q.opening PROVE OpeningOK(p, a, now)
      <4>1. q.found \in Seq(Backends) /\ q.todo \in Seq(JobType)
        BY <1>3 DEF JobsOK
      <4>2. Len(q.todo) = 1 /\ q.found # <<>>
        BY <2>1, <2>3, <3>4 DEF OpeningOK
      <4>3. First(p.found) = First(q.found) /\ p.found # <<>>
        <5>1. 1 \in 1..Len(q.found)
          BY <4>1, <4>2
        <5>2. /\ p.found[1] = q.found[1] /\ Len(p.found) = Len(q.found) + 1
          BY <2>1, <3>1, <4>1, <5>1, AppendProperties
        <5>3. QED
          BY <4>1, <5>1, <5>2 DEF First
      <4>4. p.todo = <<>>
        <5>1. Tail(q.todo) \in Seq(JobType) /\ Len(Tail(q.todo)) = 0
          BY <2>1, <4>1, <4>2, HeadTailProperties
        <5>2. QED
          BY <3>1, <5>1, EmptySeq
      <4>5. QED
        BY <1>1, <2>3, <3>4, <4>3, <4>4 DEF OpeningOK
    <3>5. QED
      BY <1>1, <1>6, <2>1, <2>3, <3>2, <3>3, <3>4 DEF SearchOK
  <2>7. QED
    BY <2>5, <2>6
<1>7. QED
  BY <1>5, <1>6

LEMMA JobFailedKeepsSearch ==
  ASSUME NEW t \in Threads, LedgerOK(th[t]), Running(t), NEW a, NEW slots, NEW h, NEW now,
         SearchOK(th[t], a, slots, h), StillLoaded(slots, now), Probed(th[t].call, a) \in Seq(Backends),
         NEW q, IsThread(q), SameSearch(q, th[t]), q.seen = th[t].seen, NEW fault,
         th[t].call.api \in SearchApi =>
           /\ Unusable(th[t].seen, Job(t).driver)
           /\ th[t].opening => fault = "device"
  PROVE  SearchOK(JobFailed(q, fault), a, now, h)
<1> DEFINE p == JobFailed(q, fault)
           b == Job(t).driver
<1> SUFFICES SearchOK(p, a, now, h)
  OBVIOUS
<1>1. /\ p.call = q.call /\ p.opening = q.opening /\ p.seen = q.seen /\ p.found = q.found
      /\ p.todo = Tail(q.todo) /\ p.at = 1
      /\ q.call.api \in SearchApi => p.fault = fault
  BY DEF JobFailed, Softened, IsThread, Fields, SearchApi
<1>2. /\ q.call = th[t].call /\ q.todo = th[t].todo /\ q.at = th[t].at /\ q.found = th[t].found
      /\ q.opening = th[t].opening /\ q.fault = th[t].fault
  BY DEF SameSearch
<1>3. JobsOK(th[t]) /\ JobsOK(q)
  BY <1>2 DEF LedgerOK, JobsOK
<1>4. SearchOK(q, a, now, h)
  BY <1>3, SearchGrows
<1> HIDE DEF p
<1>5. CASE q.call.api \notin SearchApi
  BY <1>1, <1>4, <1>5 DEF SearchOK
<1>6. CASE q.call.api \in SearchApi
  <2>1. /\ h \in q.seen /\ q.todo # <<>> /\ b = Head(q.todo).driver
        /\ Unusable(q.seen, b) /\ (q.opening => fault = "device")
    BY <1>2, <1>6, SearchJob DEF Running, Job
  <2>2. /\ ~q.opening => ProbesOK(q, Probed(q.call, a), now) /\ CurrentOK(q, now)
        /\ q.opening => OpeningOK(q, a, now) /\ q.call.api = "open_default"
        /\ q.call.api = "status" => q.call.driver \in Backends
    BY <1>4, <1>6 DEF SearchOK
  <2> HIDE DEF b
  <2>3. ASSUME ~q.opening PROVE ProbesOK(p, Probed(p.call, a), now)
    <3>1. ProbesOK(p, Probed(q.call, a), now)
      BY <1>1, <1>2, <1>3, <2>1, <2>2, <2>3, ProbeEnds
    <3>2. QED
      BY <1>1, <3>1
  <2>4. CurrentOK(p, now)
    BY <1>1 DEF CurrentOK, CallMade
  <2>5. ASSUME q.opening PROVE OpeningOK(p, a, now)
    <3>1. OpeningOK(q, a, now)
      BY <2>2, <2>5
    <3>2. Len(q.todo) = 1 /\ b = First(q.found)
      BY <2>1, <3>1 DEF OpeningOK
    <3>3. p.todo = <<>>
      <4>1. q.todo \in Seq(JobType)
        BY <1>3 DEF JobsOK
      <4>2. Tail(q.todo) \in Seq(JobType) /\ Len(Tail(q.todo)) = 0
        BY <2>1, <3>2, <4>1, HeadTailProperties
      <4>3. QED
        BY <1>1, <4>2, EmptySeq
    <3>4. p.fault = "device" /\ Unusable(p.seen, First(p.found))
      BY <1>1, <1>6, <2>1, <2>5, <3>2
    <3>5. QED
      BY <1>1, <3>1, <3>3, <3>4 DEF OpeningOK
  <2>6. QED
    BY <1>1, <1>6, <2>1, <2>2, <2>3, <2>4, <2>5 DEF SearchOK
<1>7. QED
  BY <1>5, <1>6

-----------------------------------------------------------------------------
(* A slot is written only while it is empty.                               *)
LEMMA LoadFills ==
  ASSUME CacheInv, NEW t \in Threads, LoadLib(t) \/ LoadLibFails(t)
  PROVE  LET m == Current(t).lib
         IN  /\ m \in Libs => slot[m] = Empty
             /\ LoadLib(t) /\ m \in Libs => slot'[m] \in Nat
             /\ LoadLibFails(t) /\ m \in Libs => slot'[m] = AfterFailure(m)
             /\ \A l \in Libs : l # m => slot'[l] = slot[l]
<1> DEFINE m == Current(t).lib
<1>1. At(t, {"lib"}) /\ th[t].sub = "load"
  BY DEF LoadLib, LoadLibFails
<1>2. m \in Libs => slot[m] = Empty
  BY <1>1 DEF CacheInv, MutexInv, Inside
<1>3. loads \in [Libs -> Nat] /\ slot \in [Libs -> Nat \cup {Empty, Failed}]
  BY DEF CacheInv, SlotInv, CacheTypeOK
<1>4. LoadLib(t) => loads' = [loads EXCEPT ![m] = @ + 1] /\ slot' = [slot EXCEPT ![m] = loads'[m]]
  BY DEF LoadLib, Load, Stored
<1>5. LoadLibFails(t) => slot' = [slot EXCEPT ![m] = AfterFailure(m)]
  BY DEF LoadLibFails, LoadFails
<1> SUFFICES /\ m \in Libs => slot[m] = Empty
             /\ LoadLib(t) /\ m \in Libs => slot'[m] \in Nat
             /\ LoadLibFails(t) /\ m \in Libs => slot'[m] = AfterFailure(m)
             /\ \A l \in Libs : l # m => slot'[l] = slot[l]
  OBVIOUS
<1> HIDE DEF m
<1>6. LoadLib(t) /\ m \in Libs => slot'[m] \in Nat
  <2>1. m \in Libs => loads[m] \in Nat
    BY <1>3
  <2>2. LoadLib(t) /\ m \in Libs => loads'[m] = loads[m] + 1 /\ slot'[m] = loads'[m]
    BY <1>3, <1>4
  <2>3. QED
    BY <2>1, <2>2
<1>7. QED
  BY <1>2, <1>3, <1>4, <1>5, <1>6

LEMMA SlotsStay ==
  ASSUME CacheInv, RetryInv, NEW t \in Threads, ThreadStep(t)
  PROVE  StillLoaded(slot, slot') /\ RetryInv'
<1>1. CASE UNCHANGED slot
  BY <1>1 DEF StillLoaded, Loaded, RetryInv
<1>2. CASE LoadLib(t) \/ LoadLibFails(t)
  <2> DEFINE m == Current(t).lib
  <2>1. /\ m \in Libs => slot[m] = Empty
        /\ m \in Libs => slot'[m] \in Nat \/ slot'[m] = AfterFailure(m)
        /\ \A l \in Libs : l # m => slot'[l] = slot[l]
    BY <1>2, LoadFills
  <2> HIDE DEF m
  <2>2. \A b \in DOMAIN LibOf : LibOf[b] \in Libs
    BY RegistryAssumption
  <2>3. StillLoaded(slot, slot')
    BY <2>1, <2>2, CacheAssumption DEF StillLoaded, Loaded
  <2>4. RetryInv'
    BY <2>1, CacheAssumption DEF RetryInv, AfterFailure
  <2>5. QED
    BY <2>3, <2>4
<1>3. QED
  BY <1>1, <1>2 DEF ThreadStep, Begin, OpenFound, LockLib, FindLib, MissLib, StepOk, StepFails,
     StubFails, GetDefault, DefaultRefused, NoDefault, GetList, HalListsNothing, WalkOn, SkipDevice,
     WalkEnds, Return, Lock, Hit, Miss, cacheVars

(* A thread's own step leaves the other threads' searches alone.           *)
LEMMA OneSearch ==
  ASSUME RegistryInv, SearchInv, NEW t \in Threads, ThreadStep(t), NEW r, Becomes(t, r),
         SearchOK(r, Drivers, slot', host)
  PROVE  SearchInv'
<1>1. /\ th'[t] = r /\ \A u \in Threads \ {t} : th'[u] = th[u]
      /\ host' = host /\ Drivers' = Drivers
  BY DEF Becomes, RegistryInv, CacheInv, ThreadsInv, Drivers
<1>2. StillLoaded(slot, slot') /\ RetryInv'
  BY SlotsStay DEF RegistryInv, SearchInv
<1>3. ASSUME NEW u \in Threads PROVE SearchOK(th'[u], Drivers, slot', host)
  <2>1. CASE u = t
    BY <1>1, <2>1
  <2>2. CASE u # t
    <3>1. th'[u] = th[u] /\ JobsOK(th[u]) /\ SearchOK(th[u], Drivers, slot, host)
      BY <1>1, <2>2 DEF RegistryInv, LedgerInv, LedgerOK, SearchInv
    <3>2. (th[u].todo # <<>>
             \/ (th[u].call.api = "open_default" /\ ~th[u].opening /\ th[u].found # <<>>))
           /\ host \in th[u].seen => host \in th[u].seen
      OBVIOUS
    <3>3. SameSearch(th[u], th[u]) /\ th[u].seen \subseteq th[u].seen
      BY DEF SameSearch
    <3>4. SearchOK(th[u], Drivers, slot', host)
      BY <1>2, <3>1, <3>2, <3>3, SearchGrows
    <3>5. QED
      BY <3>1, <3>4
  <2>3. QED
    BY <2>1, <2>2
<1>4. QED
  BY <1>1, <1>2, <1>3 DEF SearchInv

(* What the steps below have in common.                                    *)
LEMMA SearchContext ==
  ASSUME RegistryInv, SearchInv, NEW t \in Threads, ThreadStep(t)
  PROVE  /\ IsThread(th[t]) /\ LedgerOK(th[t]) /\ JobsOK(th[t])
         /\ SearchOK(th[t], Drivers, slot, host)
         /\ StillLoaded(slot, slot') /\ Probed(th[t].call, Drivers) \in Seq(Backends)
<1>1. /\ IsThread(th[t]) /\ LedgerOK(th[t]) /\ JobsOK(th[t])
      /\ SearchOK(th[t], Drivers, slot, host) /\ StillLoaded(slot, slot') /\ host \in HostType
  BY SlotsStay DEF RegistryInv, CacheInv, ThreadsInv, LedgerInv, LedgerOK, SearchInv
<1>2. th[t].call.api = "status" => th[t].call.driver \in Backends
  BY <1>1 DEF SearchOK
<1>3. QED
  BY <1>1, <1>2, ProbedAreListed DEF Lists

(* A thread's own step that leaves its search where it is.                 *)
LEMMA SameKeepsSearch ==
  ASSUME RegistryInv, SearchInv, NEW t \in Threads, ThreadStep(t), NEW r, Becomes(t, r),
         SameSearch(r, th[t]), r.seen = th[t].seen
  PROVE  SearchInv'
<1>1. JobsOK(th[t]) /\ SearchOK(th[t], Drivers, slot, host) /\ StillLoaded(slot, slot')
  BY SearchContext
<1>2. SearchOK(r, Drivers, slot', host)
  BY <1>1, SearchGrows
<1>3. QED
  BY <1>2, OneSearch

LEMMA LibKeepsSearch ==
  ASSUME RegistryInv, SearchInv, NEW t \in Threads,
         LockLib(t) \/ FindLib(t) \/ MissLib(t) \/ LoadLib(t) \/ LoadLibFails(t)
  PROVE  SearchInv'
<1> DEFINE r == th[t]
           b == Job(t).driver
           m == Current(t).lib
<1>1. /\ IsThread(r) /\ LedgerOK(r) /\ SearchOK(r, Drivers, slot, host) /\ ThreadStep(t)
      /\ StillLoaded(slot, slot') /\ Probed(r.call, Drivers) \in Seq(Backends)
  BY SearchContext DEF ThreadStep
<1>2. Running(t) /\ Current(t).kind = "lib"
  BY DEF LockLib, FindLib, MissLib, LoadLib, LoadLibFails, At
<1>3. r.call.api \in SearchApi =>
        /\ b \in DOMAIN LibOf /\ m = LibOf[b] /\ m \in Libs \ Sticky /\ host \in r.seen /\ b # "mock"
  BY <1>1, <1>2, SearchJob, RegistryAssumption, LibraryBackends
<1>4. SameSearch(r, r)
  BY DEF SameSearch
<1>done. ASSUME Becomes(t, StepDone(t, r)), r.call.api \in SearchApi => slot'[m] \in Nat
         PROVE  SearchInv'
  <2>1. r.call.api \in SearchApi => Loaded(slot', b)
    BY <1>3, <1>done DEF Loaded
  <2>2. SearchOK(StepDone(t, r), Drivers, slot', host)
    BY <1>1, <1>2, <1>4, <2>1, StepDoneKeepsSearch
  <2>3. QED
    BY <1>1, <1>done, <2>2, OneSearch
<1>failed. ASSUME NEW fault, Becomes(t, JobFailed(r, fault)),
                  r.call.api \in SearchApi => Unusable(r.seen, b) /\ ~r.opening
           PROVE  SearchInv'
  <2>1. SearchOK(JobFailed(r, fault), Drivers, slot', host)
    BY <1>1, <1>2, <1>4, <1>failed, JobFailedKeepsSearch
  <2>2. QED
    BY <1>1, <1>failed, <2>1, OneSearch
<1>5. CASE LockLib(t) \/ MissLib(t)
  <2>1. PICK sub : Becomes(t, [r EXCEPT !.sub = sub])
    BY <1>5 DEF LockLib, MissLib
  <2>2. SameSearch([r EXCEPT !.sub = sub], r) /\ [r EXCEPT !.sub = sub].seen = r.seen
    BY <1>1 DEF SameSearch, IsThread, Fields
  <2>3. QED
    BY <1>1, <2>1, <2>2, SameKeepsSearch
<1>6. CASE FindLib(t)
  <2>1. slot[m] # Empty /\ slot' = slot
    BY <1>6 DEF FindLib, Hit
  <2>2. r.call.api \in SearchApi => slot[m] \in Nat
    <3>1. slot \in [Libs -> Nat \cup {Empty, Failed}] /\ RetryInv
      BY DEF RegistryInv, CacheInv, SlotInv, CacheTypeOK, SearchInv
    <3>2. r.call.api \in SearchApi => slot[m] # Failed
      BY <1>3, <3>1 DEF RetryInv
    <3>3. QED
      BY <1>3, <2>1, <3>1, <3>2
  <2>3. CASE slot[m] = Failed
    <3>1. Becomes(t, JobFailed(r, "stub"))
      BY <1>6, <2>3 DEF FindLib
    <3>2. r.call.api \notin SearchApi
      BY <2>2, <2>3, CacheAssumption
    <3>3. QED
      BY <1>failed, <3>1, <3>2
  <2>4. CASE slot[m] # Failed
    <3>1. Becomes(t, StepDone(t, r))
      BY <1>6, <2>4 DEF FindLib
    <3>2. QED
      BY <1>done, <2>1, <2>2, <3>1
  <2>5. QED
    BY <2>3, <2>4
<1>7. CASE LoadLib(t)
  <2>1. r.call.api \in SearchApi => slot'[m] \in Nat
    BY <1>3, <1>7, LoadFills DEF RegistryInv
  <2>2. QED
    BY <1>7, <1>done, <2>1 DEF LoadLib
<1>8. CASE LoadLibFails(t)
  <2>1. m \notin host.libs /\ Becomes(t, JobFailed(r, IF m = Hal THEN "stub" ELSE "library"))
    BY <1>8 DEF LoadLibFails
  <2>2. r.call.api \in SearchApi => Unusable(r.seen, b)
    BY <1>3, <2>1 DEF Unusable
  <2>3. r.call.api \in SearchApi => slot[m] = Empty
    BY <1>3, <1>8, LoadFills DEF RegistryInv
  <2>4. r.call.api \in SearchApi => ~r.opening
    <3> SUFFICES ASSUME r.call.api \in SearchApi, r.opening PROVE FALSE
      OBVIOUS
    <3>1. OpeningOK(r, Drivers, slot)
      BY <1>1 DEF SearchOK
    <3>2. Head(r.todo).driver = First(r.found) /\ Loaded(slot, First(r.found))
      BY <1>2, <3>1 DEF OpeningOK, Running
    <3>3. slot[m] \in Nat
      BY <1>3, <3>2 DEF Loaded, Job
    <3>4. QED
      BY <2>3, <3>3, CacheAssumption
  <2>5. QED
    BY <1>failed, <2>1, <2>2, <2>4
<1>9. QED
  BY <1>5, <1>6, <1>7, <1>8

LEMMA StepKeepsSearch ==
  ASSUME RegistryInv, SearchInv, NEW t \in Threads,
         \/ StepOk(t) \/ StepFails(t) \/ StubFails(t)
         \/ GetDefault(t) \/ DefaultRefused(t) \/ NoDefault(t)
         \/ GetList(t) \/ HalListsNothing(t) \/ WalkOn(t) \/ SkipDevice(t) \/ WalkEnds(t)
  PROVE  SearchInv'
<1> DEFINE r == th[t]
           b == Job(t).driver
           c == Current(t)
<1>1. /\ IsThread(r) /\ LedgerOK(r) /\ SearchOK(r, Drivers, slot, host) /\ ThreadStep(t)
      /\ StillLoaded(slot, slot') /\ Probed(r.call, Drivers) \in Seq(Backends)
  BY SearchContext DEF ThreadStep
<1>2. Running(t)
  BY DEF StepOk, StepFails, StubFails, GetDefault, DefaultRefused, NoDefault, GetList,
     HalListsNothing, WalkOn, SkipDevice,
     WalkEnds, At
<1>3. r.call.api \in SearchApi =>
        /\ c.kind \in {"lib", "call", "do", "stub"} /\ host \in r.seen
        /\ Job(t).op \in {"open", "probe"} /\ (c.kind = "stub" => b \in Stubs)
  BY <1>1, <1>2, SearchJob
<1>done. ASSUME NEW q, IsThread(q), SameSearch(q, r), q.seen = r.seen, Becomes(t, StepDone(t, q)),
                c.kind \notin {"lib", "stub"},
                r.call.api \in SearchApi => (c.kind = "call" => b \in host.up)
         PROVE  SearchInv'
  <2>1. SearchOK(StepDone(t, q), Drivers, slot', host)
    BY <1>1, <1>2, <1>done, StepDoneKeepsSearch
  <2>2. QED
    BY <1>1, <1>done, <2>1, OneSearch
<1>failed. ASSUME NEW q, IsThread(q), SameSearch(q, r), q.seen = r.seen, NEW fault,
                  Becomes(t, JobFailed(q, fault)),
                  r.call.api \in SearchApi => Unusable(r.seen, b) /\ (r.opening => fault = "device")
           PROVE  SearchInv'
  <2>1. SearchOK(JobFailed(q, fault), Drivers, slot', host)
    BY <1>1, <1>2, <1>failed, JobFailedKeepsSearch
  <2>2. QED
    BY <1>1, <1>failed, <2>1, OneSearch
<1>ledger. ASSUME NEW got, NEW freed
           PROVE  LET q == Ledger(r, got, freed)
                  IN  IsThread(q) /\ SameSearch(q, r) /\ q.seen = r.seen
  BY <1>1 DEF Ledger, IsThread, Fields, SameSearch
<1>4. IsThread(r) /\ SameSearch(r, r)
  BY <1>1 DEF SameSearch
<1>StepOk. CASE StepOk(t)
  <2>1. c.kind \in {"call", "do"} /\ (c.kind = "call" => MaySucceed(t))
        /\ Becomes(t, StepDone(t, Ledger(r, c.got, c.freed)))
    BY <1>StepOk DEF StepOk, At
  <2>2. r.call.api \in SearchApi => (c.kind = "call" => b \in host.up)
    BY <1>3, <2>1 DEF MaySucceed
  <2>3. QED
    BY <1>done, <1>ledger, <2>1, <2>2
<1>StepFails. CASE StepFails(t)
  <2>1. MayFail(t) /\ Becomes(t, JobFailed(Ledger(r, {}, c.undone), "device"))
    BY <1>StepFails DEF StepFails
  <2>2. r.call.api \in SearchApi => Unusable(r.seen, b)
    BY <1>3, <2>1 DEF MayFail, Unusable
  <2>3. QED
    BY <1>failed, <1>ledger, <2>1, <2>2
<1>StubFails. CASE StubFails(t)
  <2>1. c.kind = "stub" /\ Becomes(t, JobFailed(r, "stub"))
    BY <1>StubFails DEF StubFails, At
  <2>2. r.call.api \in SearchApi => b \in Stubs /\ Unusable(r.seen, b)
    BY <1>3, <2>1 DEF Unusable
  <2>3. r.call.api \in SearchApi => ~r.opening
    <3> SUFFICES ASSUME r.call.api \in SearchApi, r.opening PROVE FALSE
      OBVIOUS
    <3>1. OpeningOK(r, Drivers, slot)
      BY <1>1 DEF SearchOK
    <3>2. Head(r.todo).driver = First(r.found) /\ First(r.found) \notin Stubs
      BY <1>2, <3>1 DEF OpeningOK, Running
    <3>3. QED
      BY <2>2, <3>2 DEF Job
  <2>4. QED
    BY <1>4, <1>failed, <2>1, <2>2, <2>3
<1>query. ASSUME c.kind \in {"default", "need", "list", "try", "walk"}
          PROVE  r.call.api \notin SearchApi
  BY <1>3, <1>query
<1>NoDefault. CASE NoDefault(t)
  <2>1. c.kind = "need" /\ Becomes(t, JobFailed(r, "device"))
    BY <1>NoDefault DEF NoDefault, At
  <2>2. QED
    BY <1>4, <1>failed, <1>query, <2>1
<1>GetDefault. CASE GetDefault(t)
  <2> DEFINE q == [r EXCEPT !.tag = host.default]
  <2>1. SameSearch(q, r) /\ IsThread(q) /\ q.seen = r.seen
    BY <1>1 DEF SameSearch, IsThread, Fields
  <2>2. c.kind \in {"default", "need"} /\ Becomes(t, StepDone(t, q))
    BY <1>GetDefault DEF GetDefault, At
  <2> HIDE DEF q
  <2>3. QED
    BY <1>done, <1>query, <2>1, <2>2
<1>refused. CASE DefaultRefused(t) \/ HalListsNothing(t)
  <2> DEFINE q == [r EXCEPT !.refused = TRUE]
  <2>1. SameSearch(q, r) /\ IsThread(q) /\ q.seen = r.seen
    BY <1>1 DEF SameSearch, IsThread, Fields
  <2>2. c.kind \in {"default", "try"} /\ Becomes(t, StepDone(t, q))
    BY <1>refused DEF DefaultRefused, HalListsNothing, At
  <2> HIDE DEF q
  <2>3. QED
    BY <1>done, <1>query, <2>1, <2>2
<1>GetList. CASE GetList(t)
  <2> DEFINE l == Ledger(r, c.got, c.freed)
             q == [l EXCEPT !.pending = Snapshot(Job(t).driver)]
  <2>1. IsThread(l) /\ SameSearch(l, r) /\ l.seen = r.seen
    BY <1>ledger
  <2>2. c.kind \in {"list", "try"} /\ Becomes(t, StepDone(t, q))
    BY <1>GetList DEF GetList, At
  <2> HIDE DEF l
  <2>3. IsThread(q) /\ SameSearch(q, r) /\ q.seen = r.seen
    BY <2>1 DEF IsThread, Fields, SameSearch
  <2> HIDE DEF q
  <2>4. QED
    BY <1>done, <1>query, <2>2, <2>3
<1>WalkOn. CASE WalkOn(t)
  <2>1. PICK pending, listed :
          Becomes(t, [th[t] EXCEPT !.pending = pending, !.listed = listed])
    BY <1>WalkOn DEF WalkOn
  <2> DEFINE q == [r EXCEPT !.pending = pending, !.listed = listed]
  <2>2. SameSearch(q, r) /\ q.seen = r.seen
    BY <1>1 DEF SameSearch, IsThread, Fields
  <2>3. QED
    BY <1>1, <2>1, <2>2, SameKeepsSearch
<1>SkipDevice. CASE SkipDevice(t)
  <2>1. PICK pending, skipped :
          Becomes(t, [th[t] EXCEPT !.pending = pending, !.skipped = skipped])
    BY <1>SkipDevice DEF SkipDevice
  <2> DEFINE q == [r EXCEPT !.pending = pending, !.skipped = skipped]
  <2>2. SameSearch(q, r) /\ q.seen = r.seen
    BY <1>1 DEF SameSearch, IsThread, Fields
  <2>3. QED
    BY <1>1, <2>1, <2>2, SameKeepsSearch
<1>WalkEnds. CASE WalkEnds(t)
  <2>1. c.kind = "walk" /\ Becomes(t, StepDone(t, r))
    BY <1>WalkEnds DEF WalkEnds, At
  <2>2. QED
    BY <1>4, <1>done, <1>query, <2>1
<1> QED
  BY <1>StepOk, <1>StepFails, <1>StubFails, <1>NoDefault, <1>GetDefault, <1>refused, <1>GetList,
     <1>WalkOn, <1>SkipDevice, <1>WalkEnds

LEMMA SearchBegins ==
  ASSUME host \in HostType, NEW call \in Calls, NEW slots,
         NEW r, r.call = call, r.todo = Asked(call), r.at = 1, r.found = <<>>, ~r.opening,
         r.seen = {host}
  PROVE  SearchOK(r, Drivers, slots, host)
<1>1. call \in CallType
  BY RegistryAssumption
<1>2. call.api = "status" => call.driver \in Backends
  BY <1>1 DEF CallType
<1>3. CASE call.api \notin SearchApi
  BY <1>2, <1>3 DEF SearchOK
<1>4. CASE call.api \in SearchApi
  <2> DEFINE a == Probed(call, Drivers)
  <2>1. a \in Seq(Backends) /\ "probe" \in Ops
    BY <1>2, ProbedAreListed DEF Lists, Ops
  <2>2. r.todo = Jobs(a, "probe")
    BY <1>4 DEF Asked, Probed, SearchApi
  <2> HIDE DEF a
  <2>3. /\ r.todo \in Seq(JobType) /\ Len(r.todo) = Len(a) /\ Len(a) \in Nat
        /\ \A i \in 1..Len(a) : r.todo[i] = [driver |-> a[i], op |-> "probe"]
    BY <2>1, <2>2, JobsOfDrivers, LenProperties
  <2>4. FoundOK(r.found, r.seen, a, 0, slots)
    BY DEF FoundOK
  <2>5. ProbesOK(r, a, slots)
    <3>1. Len(a) - Len(r.todo) = 0 /\ Len(r.todo) <= Len(a)
      BY <2>3
    <3>2. \A i \in 1..Len(r.todo) : r.todo[i] = [driver |-> a[0 + i], op |-> "probe"]
      BY <2>3
    <3>3. QED
      BY <2>4, <3>1, <3>2 DEF ProbesOK
  <2>6. CurrentOK(r, slots)
    BY DEF CurrentOK, CallMade
  <2>7. r.opening = r.opening /\ host \in r.seen
    OBVIOUS
  <2>8. QED
    BY <1>2, <2>5, <2>6, <2>7 DEF SearchOK, a
<1>5. QED
  BY <1>3, <1>4

(* open_default() has probed every driver when it opens the first found.   *)
LEMMA FirstIsBest ==
  ASSUME NEW found \in Seq(Backends), NEW seen, NEW a, NEW slots, Lists(a, Backends), found # <<>>,
         FoundOK(found, seen, a, Len(a), slots)
  PROVE  /\ First(found) \in Backends \ Stubs /\ Loaded(slots, First(found))
         /\ \E q \in 1..Len(a) :
              a[q] = First(found) /\ \A p \in 1..(q - 1) : Unusable(seen, a[p])
<1> DEFINE b == First(found)
<1>1. 1 \in 1..Len(found) /\ b = found[1] /\ Len(a) \in Nat
  BY LenProperties DEF First, Lists
<1>2. b \in Backends \ Stubs /\ Loaded(slots, b)
  BY <1>1, ElementOfSeq DEF FoundOK
<1>3. PICK q \in 1..Len(a) : a[q] = b
  BY <1>1 DEF FoundOK
<1>4. ASSUME NEW p \in 1..(q - 1) PROVE Unusable(seen, a[p])
  <2>1. p \in 1..Len(a) /\ p < q
    BY <1>1
  <2> SUFFICES ASSUME a[p] \in Elements(found) PROVE FALSE
    BY <2>1 DEF FoundOK
  <2>2. PICK k \in 1..Len(found) : found[k] = a[p]
    BY DEF Elements
  <2>3. Distinct(a)
    BY DEF Lists
  <2>4. k # 1
    BY <1>1, <1>3, <2>1, <2>2, <2>3 DEF Distinct
  <2>5. PICK i \in 1..Len(a), j \in 1..Len(a) : i < j /\ a[i] = found[1] /\ a[j] = found[k]
    <3>1. 1 < k
      BY <2>2, <2>4
    <3>2. QED
      BY <1>1, <3>1 DEF FoundOK
  <2>6. i = q /\ j = p
    BY <1>1, <1>3, <2>1, <2>2, <2>3, <2>5 DEF Distinct
  <2>7. QED
    BY <2>1, <2>5, <2>6
<1>5. QED
  BY <1>2, <1>3, <1>4

LEMMA OpenFoundKeepsSearch ==
  ASSUME RegistryInv, SearchInv, NEW t \in Threads, OpenFound(t)
  PROVE  SearchInv'
<1> DEFINE f      == th[t].found
           chosen == <<First(f)>>
           r      == [th[t] EXCEPT !.opening = TRUE, !.fault = "none",
                                   !.todo = Jobs(<<First(f)>>, "open")]
<1>1. /\ IsThread(th[t]) /\ JobsOK(th[t]) /\ SearchOK(th[t], Drivers, slot, host) /\ ThreadStep(t)
      /\ StillLoaded(slot, slot')
  BY SearchContext DEF ThreadStep
<1>2. /\ Becomes(t, r) /\ th[t].call.api = "open_default" /\ th[t].todo = <<>>
      /\ ~th[t].opening /\ f # <<>> /\ f \in Seq(Backends) /\ slot' = slot
  BY <1>1 DEF OpenFound, Running, JobsOK, cacheVars
<1>3. /\ r.call = th[t].call /\ r.opening /\ r.fault = "none" /\ r.found = f
      /\ r.seen = th[t].seen /\ r.todo = Jobs(chosen, "open")
  BY <1>1 DEF IsThread, Fields
<1> HIDE DEF r
<1>4. Lists(Drivers, Backends)
  BY <1>2, ProbedAreListed DEF RegistryInv
<1>5. FoundOK(f, th[t].seen, Drivers, Len(Drivers), slot)
  <2>1. ProbesOK(th[t], Drivers, slot)
    <3>1. Probed(th[t].call, Drivers) = Drivers
      BY <1>2 DEF Probed
    <3>2. ProbesOK(th[t], Probed(th[t].call, Drivers), slot)
      BY <1>1, <1>2 DEF SearchOK, SearchApi
    <3>3. QED
      BY <3>1, <3>2
  <2>2. Len(th[t].todo) = 0 /\ Len(Drivers) \in Nat
    BY <1>2, <1>4, LenProperties DEF Lists
  <2>3. Len(Drivers) - Len(th[t].todo) = Len(Drivers)
    BY <2>2
  <2>4. QED
    BY <2>1, <2>3 DEF ProbesOK
<1>6. /\ First(f) \in Backends \ Stubs /\ Loaded(slot, First(f))
      /\ \E q \in 1..Len(Drivers) :
           Drivers[q] = First(f) /\ \A p \in 1..(q - 1) : Unusable(th[t].seen, Drivers[p])
  BY <1>2, <1>4, <1>5, FirstIsBest
<1>7. host \in th[t].seen
  BY <1>1, <1>2 DEF SearchOK, SearchApi
<1>8. Len(r.todo) = 1 /\ Head(r.todo) = [driver |-> First(f), op |-> "open"]
  <2>1. chosen \in Seq(Backends) /\ "open" \in Ops /\ Len(chosen) = 1 /\ chosen[1] = First(f)
    BY <1>6 DEF Ops
  <2> HIDE DEF chosen
  <2>2. /\ Jobs(chosen, "open") \in Seq(JobType) /\ Len(Jobs(chosen, "open")) = 1
        /\ Jobs(chosen, "open")[1] = [driver |-> First(f), op |-> "open"]
    BY <2>1, JobsOfDrivers
  <2>3. QED
    BY <1>3, <2>2
<1>9. OpeningOK(r, Drivers, slot')
  BY <1>2, <1>3, <1>6, <1>8 DEF OpeningOK
<1>10. SearchOK(r, Drivers, slot', host)
  BY <1>2, <1>3, <1>7, <1>9 DEF SearchOK
<1>11. QED
  BY <1>1, <1>2, <1>10, OneSearch

LEMMA CallKeepsSearch ==
  ASSUME RegistryInv, SearchInv, NEW t \in Threads,
         (\E call \in Calls : Begin(t, call)) \/ OpenFound(t) \/ Return(t)
  PROVE  SearchInv'
<1>1. ASSUME NEW call \in Calls, Begin(t, call) PROVE SearchInv'
  <2> DEFINE r == [Idle EXCEPT !.call = call, !.todo = Asked(call), !.seen = {host}]
  <2>1. Becomes(t, r) /\ ThreadStep(t)
    BY <1>1 DEF Begin, Becomes, ThreadStep
  <2>2. /\ r.call = call /\ r.todo = Asked(call) /\ r.at = 1 /\ r.found = <<>> /\ ~r.opening
        /\ r.seen = {host}
    BY DEF Idle
  <2> HIDE DEF r
  <2>3. SearchOK(r, Drivers, slot', host)
    BY <2>2, SearchBegins DEF RegistryInv
  <2>4. QED
    BY <2>1, <2>3, OneSearch
<1>2. CASE Return(t)
  <2>1. Becomes(t, Idle) /\ ThreadStep(t)
    BY <1>2 DEF Return, ThreadStep
  <2>2. SearchOK(Idle, Drivers, slot', host)
    BY DEF SearchOK, Idle, SearchApi
  <2>3. QED
    BY <2>1, <2>2, OneSearch
<1>3. QED
  BY <1>1, <1>2, OpenFoundKeepsSearch

(* A call that is not over sees every host; what it saw stays seen.        *)
LEMMA HostKeepsSearch ==
  ASSUME RegistryInv, SearchInv, LibChanges \/ ServiceChanges \/ DeviceChanges
  PROVE  SearchInv'
<1>1. PICK h : /\ HostBecomes(h) /\ h.platform = host.platform /\ h.features = host.features
  <2>1. \A libs, up, present, default :
          /\ [host EXCEPT !.libs = libs].platform = host.platform
          /\ [host EXCEPT !.libs = libs].features = host.features
          /\ [host EXCEPT !.up = up].platform = host.platform
          /\ [host EXCEPT !.up = up].features = host.features
          /\ [host EXCEPT !.present = present, !.default = default].platform = host.platform
          /\ [host EXCEPT !.present = present, !.default = default].features = host.features
    BY DEF RegistryInv, HostType
  <2>2. CASE LibChanges
    <3>1. PICK l \in VolatileLibs : HostBecomes([host EXCEPT !.libs = Flip(@, l)])
      BY <2>2 DEF LibChanges
    <3>2. QED
      BY <2>1, <3>1
  <2>3. CASE ServiceChanges
    <3>1. PICK b \in VolatileBackends : HostBecomes([host EXCEPT !.up = Flip(@, b)])
      BY <2>3 DEF ServiceChanges
    <3>2. QED
      BY <2>1, <3>1
  <2>4. CASE DeviceChanges
    <3>1. PICK now \in {host.present} \cup {Flip(host.present, d) : d \in VolatileDevices} :
            \E new \in Defaults(host.platform, now) :
              HostBecomes([host EXCEPT !.present = now, !.default = new])
      BY <2>4 DEF DeviceChanges
    <3>2. PICK new \in Defaults(host.platform, now) :
            HostBecomes([host EXCEPT !.present = now, !.default = new])
      BY <3>1
    <3> DEFINE after == [host EXCEPT !.present = now, !.default = new]
    <3>3. after.platform = host.platform /\ after.features = host.features
      BY <2>1
    <3>4. HostBecomes(after)
      BY <3>2
    <3> HIDE DEF after
    <3>5. QED
      BY <3>3, <3>4
  <2>5. QED
    BY <2>2, <2>3, <2>4
<1>2. host' = h /\ Drivers' = Drivers /\ slot' = slot
  BY <1>1 DEF HostBecomes, Drivers, cacheVars
<1>3. ASSUME NEW t \in Threads PROVE SearchOK(th'[t], Drivers, slot', h)
  <2> DEFINE r == th[t]
             q == th'[t]
  <2>1. IsThread(r) /\ JobsOK(r) /\ SearchOK(r, Drivers, slot, host)
    BY DEF RegistryInv, CacheInv, ThreadsInv, LedgerInv, LedgerOK, SearchInv
  <2>2. IF r.call.api = "none" \/ Finished(t) THEN q = r ELSE q = [r EXCEPT !.seen = @ \cup {h}]
    BY <1>1 DEF HostBecomes
  <2>3. SameSearch(q, r) /\ r.seen \subseteq q.seen
    BY <2>1, <2>2 DEF SameSearch, IsThread, Fields
  <2>4. StillLoaded(slot, slot')
    BY <1>2 DEF StillLoaded
  <2>5. CASE r.call.api = "none"
    BY <2>1, <2>2, <2>5 DEF SearchOK, SearchApi
  <2>6. CASE r.call.api # "none"
    <3>1. (r.todo # <<>> \/ (r.call.api = "open_default" /\ ~r.opening /\ r.found # <<>>))
            => ~Finished(t)
      BY DEF Finished, Running
    <3>2. ~Finished(t) => h \in q.seen
      BY <2>1, <2>2, <2>6 DEF IsThread, Fields
    <3> HIDE DEF r, q
    <3>3. SearchOK(q, Drivers, slot', h)
      BY <2>1, <2>3, <2>4, <3>1, <3>2, SearchGrows
    <3>4. QED
      BY <3>3 DEF q
  <2>7. QED
    BY <2>5, <2>6
<1>4. RetryInv'
  BY <1>2 DEF SearchInv, RetryInv
<1>5. QED
  BY <1>2, <1>3, <1>4 DEF SearchInv

LEMMA InitSearch == Init => SearchInv
<1> SUFFICES ASSUME Init PROVE SearchInv
  OBVIOUS
<1>1. RetryInv
  BY CacheAssumption DEF Init, CacheInit, RetryInv
<1>2. SearchOK(Idle, Drivers, slot, host)
  BY DEF SearchOK, Idle, SearchApi
<1>3. QED
  BY <1>1, <1>2 DEF Init, SearchInv

LEMMA StepSearch == RegistryInv /\ SearchInv /\ [Next]_vars => SearchInv'
<1> SUFFICES ASSUME RegistryInv, SearchInv, [Next]_vars PROVE SearchInv'
  OBVIOUS
<1>1. ASSUME NEW t \in Threads, ThreadStep(t) PROVE SearchInv'
  BY <1>1, CallKeepsSearch, LibKeepsSearch, StepKeepsSearch DEF ThreadStep
<1>2. CASE LibChanges \/ ServiceChanges \/ DeviceChanges
  BY <1>2, HostKeepsSearch
<1>3. CASE UNCHANGED vars
  BY <1>3 DEF vars, cacheVars, SearchInv, RetryInv, Drivers
<1>4. QED
  BY <1>1, <1>2, <1>3 DEF Next

LEMMA SearchInvariance == Spec => [](RegistryInv /\ SearchInv)
<1>1. Init => RegistryInv /\ SearchInv
  BY InitRegistry, InitSearch
<1>2. (RegistryInv /\ SearchInv) /\ [Next]_vars => (RegistryInv /\ SearchInv)'
  BY StepRegistry, StepSearch
<1>3. QED
  BY <1>1, <1>2, PTL DEF Spec

-----------------------------------------------------------------------------
(* The drivers are distinct, so a driver's place is the one it is found at. *)
LEMMA PlaceOfDriver ==
  ASSUME Lists(Drivers, Backends), NEW i \in 1..Len(Drivers)
  PROVE  Position(Drivers[i]) = i
<1>1. \A j \in 1..Len(Drivers) : Drivers[j] = Drivers[i] => j = i
  BY DEF Lists, Distinct
<1>2. QED
  BY <1>1 DEF Position

LEMMA ProbesSoundFor ==
  ASSUME RegistryInv, SearchInv, NEW t \in Threads, Finished(t),
         th[t].call.api \in {"probe", "default_driver", "status"}
  PROVE  LET found == th[t].found
             asked == IF th[t].call.api = "status" THEN {th[t].call.driver} ELSE Elements(Drivers)
         IN /\ \A i, j \in 1..Len(found) : i < j => Position(found[i]) < Position(found[j])
            /\ \A b \in Elements(found) : b \in asked \ Stubs /\ Opens(th[t].seen, b)
            /\ \A b \in asked \ Elements(found) : Unusable(th[t].seen, b)
<1> DEFINE r     == th[t]
           a     == Probed(r.call, Drivers)
           asked == IF r.call.api = "status" THEN {r.call.driver} ELSE Elements(Drivers)
<1>1. SearchOK(r, Drivers, slot, host) /\ host \in HostType /\ r.todo = <<>>
  BY DEF RegistryInv, SearchInv, Finished, Running
<1>2. /\ ~r.opening /\ ProbesOK(r, a, slot)
      /\ r.call.api = "status" => r.call.driver \in Backends
  BY <1>1 DEF SearchOK, SearchApi
<1>3. Lists(Drivers, Backends) /\ Lists(a, Backends)
  BY <1>1, <1>2, ProbedAreListed
<1>4. FoundOK(r.found, r.seen, a, Len(a), slot)
  <2>1. Len(r.todo) = 0 /\ Len(a) \in Nat
    BY <1>1, <1>3, LenProperties DEF Lists
  <2>2. Len(a) - Len(r.todo) = Len(a)
    BY <2>1
  <2> HIDE DEF r, a
  <2>3. QED
    BY <1>2, <2>2 DEF ProbesOK
<1>5. CASE r.call.api = "status"
  <2>1. asked = {r.call.driver}
    BY <1>5
  <2>2. CASE r.call.driver \in Stubs
    <3>1. a = <<>>
      BY <1>5, <2>2 DEF Probed
    <3>2. 1..Len(a) = {}
      BY <3>1
    <3> HIDE DEF r, a, asked
    <3>3. 1..Len(r.found) = {}
      BY <1>4, <3>2 DEF FoundOK
    <3>4. \A i, j \in 1..Len(r.found) : i < j => Position(r.found[i]) < Position(r.found[j])
      BY <3>3
    <3>5. \A b \in Elements(r.found) : b \in asked \ Stubs /\ Opens(r.seen, b)
      BY <3>3 DEF Elements
    <3>6. \A b \in asked \ Elements(r.found) : Unusable(r.seen, b)
      BY <2>1, <2>2 DEF Unusable
    <3>7. QED
      BY <3>4, <3>5, <3>6 DEF r, asked
  <2>3. CASE r.call.driver \notin Stubs
    <3>1. a = <<r.call.driver>>
      BY <1>5, <2>3 DEF Probed
    <3>2. Len(a) = 1 /\ a[1] = r.call.driver
      BY <3>1
    <3> HIDE DEF r, a, asked
    <3>3. \A i, j \in 1..Len(r.found) : ~(i < j)
      BY <1>4, <3>2 DEF FoundOK
    <3>4. \A i, j \in 1..Len(r.found) : i < j => Position(r.found[i]) < Position(r.found[j])
      BY <3>3
    <3>5. \A b \in Elements(r.found) : b \in asked \ Stubs /\ Opens(r.seen, b)
      BY <1>4, <2>1, <3>2 DEF FoundOK, Elements
    <3>6. \A b \in asked \ Elements(r.found) : Unusable(r.seen, b)
      BY <1>4, <2>1, <3>2 DEF FoundOK
    <3>7. QED
      BY <3>4, <3>5, <3>6 DEF r, asked
  <2>4. QED
    BY <2>2, <2>3
<1>6. CASE r.call.api # "status"
  <2>1. asked = Elements(Drivers) /\ a = Drivers
    BY <1>6 DEF Probed
  <2> HIDE DEF r, a, asked
  <2>2. FoundOK(r.found, r.seen, Drivers, Len(Drivers), slot)
    BY <1>4, <2>1
  <2>3. ASSUME NEW i \in 1..Len(r.found), NEW j \in 1..Len(r.found), i < j
        PROVE  Position(r.found[i]) < Position(r.found[j])
    <3>1. PICK p \in 1..Len(Drivers), q \in 1..Len(Drivers) :
            p < q /\ Drivers[p] = r.found[i] /\ Drivers[q] = r.found[j]
      BY <2>2, <2>3 DEF FoundOK
    <3>2. Position(Drivers[p]) = p /\ Position(Drivers[q]) = q
      BY <1>3, PlaceOfDriver
    <3>3. QED
      BY <3>1, <3>2
  <2>4. \A b \in Elements(r.found) : b \in asked \ Stubs /\ Opens(r.seen, b)
    BY <2>1, <2>2 DEF FoundOK, Elements
  <2>5. \A b \in asked \ Elements(r.found) : Unusable(r.seen, b)
    <3> SUFFICES ASSUME NEW b \in asked, b \notin Elements(r.found) PROVE Unusable(r.seen, b)
      OBVIOUS
    <3>1. PICK p \in 1..Len(Drivers) : Drivers[p] = b
      BY <2>1 DEF Elements
    <3>2. QED
      BY <2>2, <3>1 DEF FoundOK
  <2>6. QED
    BY <2>3, <2>4, <2>5 DEF r, asked
<1>7. QED
  BY <1>5, <1>6

(* Whatever happens to the libraries, the servers and the devices while it *)
(* runs, and whatever the other threads do, probe() reports the drivers in *)
(* the platform's order, each one having opened while it ran, and leaves   *)
(* out only drivers that were unusable while it ran.                       *)
THEOREM ProbesAreSound == Spec => []ProbeSound
<1>1. RegistryInv /\ SearchInv => ProbeSound
  BY ProbesSoundFor DEF ProbeSound
<1>2. QED
  BY <1>1, SearchInvariance, PTL

(* open_default() passes over a driver only if that driver was unusable    *)
(* while it ran, never reports a library missing that it has just probed   *)
(* through, and finds no driver only if each was unusable at some moment.  *)
THEOREM OpensTheBest == Spec => []OpenDefaultSound
<1>1. RegistryInv /\ SearchInv => OpenDefaultSound
  <2> SUFFICES ASSUME RegistryInv, SearchInv, NEW t \in Threads, Finished(t),
                      th[t].call.api = "open_default"
               PROVE  LET r == th[t]
                      IN IF r.opening
                         THEN /\ \A i \in 1..Position(First(r.found)) - 1 :
                                   Unusable(r.seen, Drivers[i])
                              /\ r.fault \in {"none", "device"}
                              /\ r.fault = "device" => Unusable(r.seen, First(r.found))
                         ELSE \A b \in Elements(Drivers) : Unusable(r.seen, b)
    BY DEF OpenDefaultSound
  <2> DEFINE r == th[t]
  <2>1. /\ SearchOK(r, Drivers, slot, host) /\ host \in HostType /\ r.todo = <<>>
        /\ (r.opening \/ r.found = <<>>) /\ r.call.api # "status"
    BY DEF RegistryInv, SearchInv, Finished, Running
  <2>2. Lists(Drivers, Backends) /\ Probed(r.call, Drivers) = Drivers
    BY <2>1, ProbedAreListed DEF Probed
  <2>3. CASE r.opening
    <3>1. OpeningOK(r, Drivers, slot)
      BY <2>1, <2>3 DEF SearchOK, SearchApi
    <3>2. PICK q \in 1..Len(Drivers) :
            /\ Drivers[q] = First(r.found)
            /\ \A p \in 1..(q - 1) : Unusable(r.seen, Drivers[p])
      BY <3>1 DEF OpeningOK
    <3>3. Position(First(r.found)) = q
      BY <2>2, <3>2, PlaceOfDriver
    <3>4. /\ r.fault \in {"none", "device"}
          /\ r.fault = "device" => Unusable(r.seen, First(r.found))
      BY <3>1 DEF OpeningOK
    <3>5. QED
      BY <2>3, <3>2, <3>3, <3>4
  <2>4. CASE ~r.opening
    <3>1. ProbesOK(r, Probed(r.call, Drivers), slot)
      BY <2>1, <2>4 DEF SearchOK, SearchApi
    <3>2. Len(r.todo) = 0 /\ Len(Drivers) \in Nat /\ r.found = <<>>
      BY <2>1, <2>2, <2>4, LenProperties DEF Lists
    <3>3. Len(Drivers) - Len(r.todo) = Len(Drivers)
      BY <3>2
    <3>4. FoundOK(r.found, r.seen, Drivers, Len(Drivers), slot)
      BY <2>2, <3>1, <3>3 DEF ProbesOK
    <3>5. Elements(r.found) = {}
      BY <3>2 DEF Elements
    <3>6. ASSUME NEW b \in Elements(Drivers) PROVE Unusable(r.seen, b)
      <4>1. PICK p \in 1..Len(Drivers) : Drivers[p] = b
        BY DEF Elements
      <4>2. QED
        BY <3>4, <3>5, <4>1 DEF FoundOK
    <3>7. QED
      BY <2>4, <3>6
  <2>5. QED
    BY <2>3, <2>4
<1>2. QED
  BY <1>1, SearchInvariance, PTL

-----------------------------------------------------------------------------
(* ListSound and DefaultAgrees.  What a query of the devices knows: the    *)
(* entries listed and the devices pending were there and can play, each    *)
(* entry is tagged by the default read, and from the listing on no device  *)
(* that was there throughout is in neither.                                *)
ScanApi == {"devices", "default"}

Listing == {"list", "try"}

Past(s, at, kinds) == \E j \in 1..(at - 1) : s[j].kind \in kinds

HostOK(h) == h \in HostType /\ h.default \in Defaults(h.platform, h.present)

WasThere(seen, d) == \E h \in seen : d \in h.present
Throughout(seen, d) == \A h \in seen : d \in h.present
WasDefault(seen, d) == \E h \in seen : h.default = d

EntryType == [id : Playable, isDefault : BOOLEAN]

ListingOK(r) ==
  /\ r.listed \in Seq(EntryType)
  /\ \A i, j \in 1..Len(r.listed) : r.listed[i].id = r.listed[j].id => i = j
  /\ \A i \in 1..Len(r.listed) :
       /\ r.listed[i].id \notin r.pending /\ WasThere(r.seen, r.listed[i].id)
       /\ r.listed[i].isDefault = IsDefault(r.call.driver, r.listed[i].id, r.tag)
  /\ r.pending \subseteq Elements(Catalog)
  /\ \A d \in r.pending : WasThere(r.seen, d) /\ (r.call.driver = "wasapi" => d \notin Inputs)
  /\ r.tag = None \/ WasDefault(r.seen, r.tag)

Covered(r) ==
  \A d \in Playable :
    Throughout(r.seen, d) =>
      d \in r.pending \cup r.skipped \/ \E i \in 1..Len(r.listed) : r.listed[i].id = d

(* before step at of the script s *)
ScanAt(r, at, s) ==
  /\ ~Past(s, at, Listing) => r.listed = <<>>
  /\ Past(s, at, {"walk"}) => r.pending = {}
  /\ ~r.refused =>
       /\ Past(s, at, Listing) => Covered(r)
       /\ Past(s, at, {"default"}) => WasDefault(r.seen, r.tag)

Scanners == {"alsa", "wasapi", "coreaudio"}

ScanOK(r, h) ==
  r.call.api \in ScanApi =>
    /\ r.call.driver \in Backends
    /\ \A g \in r.seen \cup {h} : HostOK(g) /\ (r.call.driver = "alsa" => g.platform = "linux")
    /\ r.seen # {}
    /\ ListingOK(r)
    /\ LET s == Script(r.call.driver, r.call.api)
       IN  /\ r.todo # <<>> => /\ h \in r.seen
                               /\ r.todo = << [driver |-> r.call.driver, op |-> r.call.api] >>
                               /\ ScanAt(r, r.at, s)
           /\ r.todo = <<>> /\ r.fault = "none" /\ ~r.refused =>
                r.call.driver \in Scanners /\ ScanAt(r, Len(s) + 1, s)

ScanInv == HostOK(host) /\ \A t \in Threads : ScanOK(th[t], host)

-----------------------------------------------------------------------------
(* The scripts of the two queries: the default is read before the devices  *)
(* are listed, once, and the walk comes after; where there is one, all of  *)
(* it has happened at the end, but for CoreAudio's override, which only    *)
(* reads the default, and for ALSA, which need not read it.                *)
ScanShape(s, b, op) ==
  /\ Len(s) \in Nat \ {0}
  /\ \A i \in 1..Len(s) :
       /\ s[i].kind \in Listing \cup {"lib", "do", "call", "default", "walk", "stub"}
       /\ s[i].kind = "stub" <=> b \notin Scanners
       /\ s[i].kind = "walk" => Past(s, i, Listing)
  /\ \A i, j \in 1..Len(s) :
       s[i].kind \in Listing /\ s[j].kind \in Listing \cup {"default"} => j <= i
  /\ b \in Scanners => /\ (op = "default" /\ b = "coreaudio") \/ Past(s, Len(s) + 1, {"walk"})
                       /\ b = "alsa" \/ Past(s, Len(s) + 1, {"default"})

LEMMA ScanShapes == \A b \in Backends, op \in ScanApi : ScanShape(Script(b, op), b, op)
<1> SUFFICES ASSUME NEW b \in Backends, NEW op \in ScanApi
             PROVE  ScanShape(Script(b, op), b, op)
  OBVIOUS
<1>1. CASE b \notin Scanners
  <2> DEFINE step == Step("stub", "", {}, {}, {})
  <2>1. Script(b, op) = <<step>> /\ step.kind = "stub"
    BY <1>1 DEF Script, OrNotImplemented, Devices, DefaultDevice, ScanApi, Scanners, NotImplemented,
       Step
  <2> HIDE DEF step
  <2>2. QED
    BY <1>1, <2>1 DEF ScanShape, Listing, Past
<1>2. CASE b = "alsa"
  <2> DEFINE s == AlsaDevices
  <2>1. Script(b, op) = s
    BY <1>2 DEF Script, OrNotImplemented, Devices, DefaultDevice, ScanApi
  <2>2. Len(s) = 4 /\ s[1].kind = "lib" /\ s[2].kind = "list" /\ s[3].kind = "walk" /\ s[4].kind = "do"
    BY DEF AlsaDevices, Lib, List, Walk, Do, Step
  <2> HIDE DEF s
  <2>3. Past(s, 3, Listing) /\ Past(s, 5, {"walk"})
    BY <2>2 DEF Past, Listing
  <2>4. \A i \in 1..Len(s) : i = 1 \/ i = 2 \/ i = 3 \/ i = 4
    BY <2>2
  <2>5. ScanShape(s, b, op)
    BY <1>2, <2>2, <2>3, <2>4 DEF ScanShape, Scanners, Listing
  <2>6. QED
    BY <2>1, <2>5
<1>3. CASE b = "wasapi"
  <2> DEFINE s == WasapiDevices
  <2>1. Script(b, op) = s
    BY <1>3 DEF Script, OrNotImplemented, Devices, DefaultDevice, ScanApi
  <2>2. /\ Len(s) = 8 /\ s[1].kind = "lib" /\ s[2].kind = "do" /\ s[3].kind = "call"
        /\ s[4].kind = "default"
    BY DEF WasapiDevices, Lib, Do, Call, ReadDefault, Step
  <2>3. s[5].kind = "list" /\ s[6].kind = "call" /\ s[7].kind = "walk" /\ s[8].kind = "do"
    BY DEF WasapiDevices, List, Call, Walk, Do, Step
  <2> HIDE DEF s
  <2>4. Past(s, 7, Listing) /\ Past(s, 9, {"walk"}) /\ Past(s, 9, {"default"})
    BY <2>2, <2>3 DEF Past, Listing
  <2>5. \A i \in 1..Len(s) : i = 1 \/ i = 2 \/ i = 3 \/ i = 4 \/ i = 5 \/ i = 6 \/ i = 7 \/ i = 8
    BY <2>2
  <2>6. ScanShape(s, b, op)
    BY <1>3, <2>2, <2>3, <2>4, <2>5 DEF ScanShape, Scanners, Listing
  <2>7. QED
    BY <2>1, <2>6
<1>4. CASE b = "coreaudio" /\ op = "devices"
  <2> DEFINE s == CoreAudioDevices
  <2>1. Script(b, op) = s
    BY <1>4 DEF Script, OrNotImplemented, Devices
  <2>2. /\ Len(s) = 4 /\ s[1].kind = "lib" /\ s[2].kind = "default" /\ s[3].kind = "try"
        /\ s[4].kind = "walk"
    BY DEF CoreAudioDevices, Lib, ReadDefault, ListOrNothing, Walk, Step
  <2> HIDE DEF s
  <2>3. Past(s, 4, Listing) /\ Past(s, 5, {"walk"}) /\ Past(s, 5, {"default"})
    BY <2>2 DEF Past, Listing
  <2>4. \A i \in 1..Len(s) : i = 1 \/ i = 2 \/ i = 3 \/ i = 4
    BY <2>2
  <2>5. ScanShape(s, b, op)
    BY <1>4, <2>2, <2>3, <2>4 DEF ScanShape, Scanners, Listing
  <2>6. QED
    BY <2>1, <2>5
<1>5. CASE b = "coreaudio" /\ op = "default"
  <2> DEFINE s == << Lib(Hal), ReadDefault >>
  <2>1. Script(b, op) = s
    BY <1>5 DEF Script, OrNotImplemented, Devices, DefaultDevice
  <2>2. Len(s) = 2 /\ s[1].kind = "lib" /\ s[2].kind = "default"
    BY DEF Lib, ReadDefault, Step
  <2> HIDE DEF s
  <2>3. Past(s, 3, {"default"})
    BY <2>2 DEF Past
  <2>4. \A i \in 1..Len(s) : i = 1 \/ i = 2
    BY <2>2
  <2>5. ScanShape(s, b, op)
    BY <1>5, <2>2, <2>3, <2>4 DEF ScanShape, Scanners, Listing
  <2>6. QED
    BY <2>1, <2>5
<1>6. QED
  BY <1>1, <1>2, <1>3, <1>4, <1>5 DEF Scanners, ScanApi

(* ALSA is a driver of Linux only.                                         *)
LEMMA AlsaOnLinux ==
  ASSUME NEW h \in HostType, "alsa" \in Elements(DRIVERS(h.platform, h.features))
  PROVE  h.platform = "linux"
<1> DEFINE E(b) == Entry(b, h.features)
<1>1. \A b \in Backends : Lists(E(b), {b})
  BY FirstEntryLists
<1>2. \A s, B : \A b \in Backends \ B : Lists(s, B) => Lists(s \o E(b), B \cup {b})
  BY EntryLists
<1> HIDE DEF E
<1>3. Lists((E("wasapi") \o E("asio")) \o E("mock"), ({"wasapi"} \cup {"asio"}) \cup {"mock"})
  <2>1. Lists(E("wasapi") \o E("asio"), {"wasapi"} \cup {"asio"})
    BY <1>1, <1>2 DEF Backends
  <2>2. QED
    BY <1>2, <2>1 DEF Backends
<1>4. Lists(E("coreaudio") \o E("mock"), {"coreaudio"} \cup {"mock"}) /\ Lists(E("mock"), {"mock"})
  BY <1>1, <1>2 DEF Backends
<1>5. h.platform \in Platforms
  BY DEF HostType
<1>6. CASE h.platform = "windows"
  BY <1>3, <1>6 DEF DRIVERS, Lists, E
<1>7. CASE h.platform = "macos"
  BY <1>4, <1>7 DEF DRIVERS, Lists, E
<1>8. CASE h.platform = "other"
  BY <1>4, <1>8 DEF DRIVERS, Lists, E
<1>9. QED
  BY <1>5, <1>6, <1>7, <1>8 DEF Platforms

-----------------------------------------------------------------------------
(* What a query knows stays true as it sees more hosts.                    *)
SameScan(q, r) ==
  /\ q.call = r.call /\ q.todo = r.todo /\ q.at = r.at /\ q.fault = r.fault /\ q.tag = r.tag
  /\ q.pending = r.pending /\ q.listed = r.listed /\ q.skipped = r.skipped
  /\ q.refused = r.refused

(* the fields a list is judged by *)
SameListing(q, r) ==
  /\ q.call = r.call /\ q.tag = r.tag /\ q.pending = r.pending /\ q.listed = r.listed
  /\ q.skipped = r.skipped

LEMMA ListingGrows ==
  ASSUME NEW r, NEW q, ListingOK(r), SameListing(q, r), r.seen \subseteq q.seen
  PROVE  ListingOK(q)
<1>1. /\ \A d : WasThere(r.seen, d) => WasThere(q.seen, d)
      /\ \A d : WasDefault(r.seen, d) => WasDefault(q.seen, d)
  BY DEF WasThere, WasDefault
<1>2. QED
  BY <1>1 DEF ListingOK, SameListing

LEMMA ScanAtGrows ==
  ASSUME NEW r, NEW q, NEW at, NEW s, ScanAt(r, at, s), SameListing(q, r),
         r.refused => q.refused, r.seen \subseteq q.seen
  PROVE  ScanAt(q, at, s)
<1>1. /\ \A d : Throughout(q.seen, d) => Throughout(r.seen, d)
      /\ \A d : WasDefault(r.seen, d) => WasDefault(q.seen, d)
  BY DEF Throughout, WasDefault
<1>2. Covered(r) => Covered(q)
  BY <1>1 DEF Covered, SameListing
<1>3. QED
  BY <1>1, <1>2 DEF ScanAt, SameListing

LEMMA ScanGrows ==
  ASSUME NEW r, NEW h, ScanOK(r, h), NEW q, NEW g, SameScan(q, r),
         r.seen \subseteq q.seen, q.seen \subseteq r.seen \cup {g},
         HostOK(g), g.platform = h.platform, r.todo # <<>> => g \in q.seen
  PROVE  ScanOK(q, g)
<1> SUFFICES ASSUME r.call.api \in ScanApi PROVE ScanOK(q, g)
  BY DEF ScanOK, SameScan
<1> DEFINE s == Script(r.call.driver, r.call.api)
<1>1. SameListing(q, r) /\ (r.refused => q.refused)
  BY DEF SameScan, SameListing
<1>2. ListingOK(q) /\ \A at : ScanAt(r, at, s) => ScanAt(q, at, s)
  BY <1>1, ListingGrows, ScanAtGrows DEF ScanOK
<1>3. /\ r.call.driver \in Backends /\ q.seen # {}
      /\ \A f \in q.seen \cup {g} : HostOK(f) /\ (r.call.driver = "alsa" => f.platform = "linux")
  BY DEF ScanOK
<1>4. /\ r.todo # <<>> => /\ r.todo = << [driver |-> r.call.driver, op |-> r.call.api] >>
                          /\ ScanAt(r, r.at, s)
      /\ r.todo = <<>> /\ r.fault = "none" /\ ~r.refused =>
           r.call.driver \in Scanners /\ ScanAt(r, Len(s) + 1, s)
  BY DEF ScanOK
<1>5. q.call = r.call /\ q.todo = r.todo /\ q.at = r.at /\ q.fault = r.fault /\ q.refused = r.refused
  BY DEF SameScan
<1> HIDE DEF s
<1>6. /\ q.todo # <<>> => ScanAt(q, q.at, s)
      /\ q.todo = <<>> /\ q.fault = "none" /\ ~q.refused =>
           q.call.driver \in Scanners /\ ScanAt(q, Len(s) + 1, s)
  BY <1>2, <1>4, <1>5
<1>7. QED
  BY <1>2, <1>3, <1>4, <1>5, <1>6 DEF ScanOK, s

LEMMA PastNext ==
  ASSUME NEW s, NEW at \in Nat \ {0}, NEW kinds
  PROVE  Past(s, at + 1, kinds) <=> Past(s, at, kinds) \/ s[at].kind \in kinds
<1>1. \A j : j \in 1..((at + 1) - 1) <=> j \in 1..(at - 1) \/ j = at
  OBVIOUS
<1>2. QED
  BY <1>1 DEF Past

(* A step that neither reads the default, nor lists, nor walks.            *)
LEMMA ScanAdvances ==
  ASSUME NEW r, NEW at \in Nat \ {0}, NEW s, ScanAt(r, at, s),
         s[at].kind \notin Listing \cup {"walk", "default"}
  PROVE  ScanAt(r, at + 1, s)
  BY PastNext DEF ScanAt

(* A thread that runs a query is at a step of its script.                  *)
LEMMA ScanContext ==
  ASSUME RegistryInv, ScanInv, NEW t \in Threads
  PROVE  /\ IsThread(th[t]) /\ ScanOK(th[t], host)
         /\ Running(t) /\ th[t].call.api \in ScanApi =>
              LET r == th[t]
                  s == Script(r.call.driver, r.call.api)
              IN  /\ r.todo = << [driver |-> r.call.driver, op |-> r.call.api] >>
                  /\ Job(t) = [driver |-> r.call.driver, op |-> r.call.api]
                  /\ ScriptOf(t) = s /\ Current(t) = s[r.at] /\ ScanShape(s, r.call.driver, r.call.api)
                  /\ r.at \in Nat \ {0} /\ r.at \in 1..Len(s) /\ host \in r.seen
                  /\ ListingOK(r) /\ ScanAt(r, r.at, s)
<1> DEFINE r == th[t]
           s == Script(r.call.driver, r.call.api)
<1>1. IsThread(r) /\ ScanOK(r, host) /\ LedgerOK(r)
  BY DEF RegistryInv, CacheInv, ThreadsInv, LedgerInv, ScanInv
<1>2. ASSUME Running(t), r.call.api \in ScanApi
      PROVE  /\ r.todo = << [driver |-> r.call.driver, op |-> r.call.api] >>
             /\ Job(t) = [driver |-> r.call.driver, op |-> r.call.api]
             /\ ScriptOf(t) = s /\ Current(t) = s[r.at] /\ ScanShape(s, r.call.driver, r.call.api)
             /\ r.at \in Nat \ {0} /\ r.at \in 1..Len(s) /\ host \in r.seen
             /\ ListingOK(r) /\ ScanAt(r, r.at, s)
  <2>1. /\ r.todo = << [driver |-> r.call.driver, op |-> r.call.api] >> /\ host \in r.seen
        /\ r.call.driver \in Backends /\ ListingOK(r) /\ ScanAt(r, r.at, s)
    BY <1>1, <1>2 DEF ScanOK, Running
  <2>2. Job(t) = [driver |-> r.call.driver, op |-> r.call.api]
    BY <2>1 DEF Job
  <2>3. ScriptOf(t) = s /\ Current(t) = s[r.at]
    BY <2>2 DEF ScriptOf, Current
  <2>4. ScanShape(s, r.call.driver, r.call.api)
    BY <1>2, <2>1, ScanShapes
  <2>5. r.at \in 1..Len(s)
    <3>1. r.at \in 1..Len(Script(Head(r.todo).driver, Head(r.todo).op))
      BY <1>1, <1>2 DEF LedgerOK, HeldOK, Running
    <3>2. QED
      BY <2>2, <3>1 DEF Job
  <2>6. r.at \in Nat \ {0}
    <3>1. Len(s) \in Nat
      BY <2>4 DEF ScanShape
    <3>2. QED
      BY <2>5, <3>1
  <2>7. QED
    BY <2>1, <2>2, <2>3, <2>4, <2>5, <2>6
<1>3. QED
  BY <1>1, <1>2

(* A thread's own step leaves the other threads' queries alone.            *)
LEMMA OneScan ==
  ASSUME RegistryInv, ScanInv, NEW t \in Threads, NEW r, Becomes(t, r), ScanOK(r, host)
  PROVE  ScanInv'
<1>1. /\ th'[t] = r /\ \A u \in Threads \ {t} : th'[u] = th[u]
      /\ host' = host
  BY DEF Becomes, RegistryInv, CacheInv, ThreadsInv
<1>2. ASSUME NEW u \in Threads PROVE ScanOK(th'[u], host)
  BY <1>1 DEF ScanInv
<1>3. QED
  BY <1>1, <1>2 DEF ScanInv

-----------------------------------------------------------------------------
(* The step of a query is done, and with the last one the query.           *)
LEMMA StepDoneKeepsScan ==
  ASSUME RegistryInv, ScanInv, NEW t \in Threads, Running(t), NEW q, IsThread(q),
         q.call = th[t].call, q.todo = th[t].todo, q.at = th[t].at, q.seen = th[t].seen,
         q.call.api \in ScanApi =>
           ListingOK(q) /\ ScanAt(q, q.at + 1, ScriptOf(t)) /\ Current(t).kind # "stub"
  PROVE  ScanOK(StepDone(t, q), host)
<1> DEFINE r == th[t]
           p == StepDone(t, q)
           s == ScriptOf(t)
<1>1. /\ p.call = r.call /\ p.seen = r.seen /\ p.refused = q.refused
      /\ p.call = q.call /\ p.seen = q.seen /\ p.tag = q.tag /\ p.pending = q.pending
      /\ p.listed = q.listed /\ p.skipped = q.skipped
      /\ r.at < Len(s) => p.todo = r.todo /\ p.at = r.at + 1
      /\ ~(r.at < Len(s)) => p.todo = Tail(r.todo)
  BY DEF StepDone, IsThread, Fields
<1> SUFFICES ASSUME r.call.api \in ScanApi PROVE ScanOK(p, host)
  BY <1>1 DEF ScanOK
<1> HIDE DEF p
<1>2. /\ r.todo = << [driver |-> r.call.driver, op |-> r.call.api] >>
      /\ s = Script(r.call.driver, r.call.api) /\ Current(t) = s[r.at]
      /\ ScanShape(s, r.call.driver, r.call.api)
      /\ r.at \in Nat \ {0} /\ r.at \in 1..Len(s) /\ host \in r.seen
      /\ ScanOK(r, host)
  BY ScanContext
<1>3. ListingOK(p) /\ ScanAt(p, r.at + 1, s)
  <2>1. SameListing(p, q) /\ (q.refused => p.refused) /\ q.seen \subseteq p.seen
    BY <1>1 DEF SameListing
  <2>2. ListingOK(q) /\ ScanAt(q, r.at + 1, s)
    OBVIOUS
  <2> HIDE DEF s
  <2>3. QED
    BY <2>1, <2>2, ListingGrows, ScanAtGrows
<1>4. r.call.driver \in Scanners
  BY <1>2 DEF ScanShape
<1>5. CASE r.at < Len(s)
  <2>1. p.todo = r.todo /\ p.at = r.at + 1
    BY <1>1, <1>5
  <2>2. p.todo # <<>>
    BY <1>2, <2>1
  <2>3. /\ p.call = r.call /\ p.seen = r.seen /\ ScanAt(p, p.at, Script(r.call.driver, r.call.api))
        /\ p.todo = << [driver |-> r.call.driver, op |-> r.call.api] >>
    BY <1>1, <1>2, <1>3, <2>1
  <2> HIDE DEF r, s
  <2>4. QED
    BY <1>2, <1>3, <2>2, <2>3 DEF ScanOK
<1>6. CASE ~(r.at < Len(s))
  <2>1. p.todo = Tail(r.todo) /\ Len(s) \in Nat
    BY <1>1, <1>2, <1>6 DEF ScanShape
  <2>2. p.todo = <<>>
    BY <1>2, <2>1
  <2>3. r.at = Len(s)
    BY <1>2, <1>6, <2>1
  <2>4. /\ p.call = r.call /\ p.seen = r.seen
        /\ ScanAt(p, Len(Script(r.call.driver, r.call.api)) + 1, Script(r.call.driver, r.call.api))
    BY <1>1, <1>2, <1>3, <2>3
  <2> HIDE DEF r, s
  <2>5. QED
    BY <1>2, <1>3, <1>4, <2>2, <2>4 DEF ScanOK
<1>7. QED
  BY <1>5, <1>6

(* A query that fails has an error, or an answer that stands for a refusal. *)
LEMMA JobFailedKeepsScan ==
  ASSUME RegistryInv, ScanInv, NEW t \in Threads, Running(t), NEW q, IsThread(q),
         q.call = th[t].call, q.todo = th[t].todo, q.seen = th[t].seen,
         q.call.api \in ScanApi => ListingOK(q), NEW fault \in {"stub", "library", "device"}
  PROVE  ScanOK(JobFailed(q, fault), host)
<1> DEFINE r == th[t]
           p == JobFailed(q, fault)
<1>1. /\ p.call = q.call /\ p.seen = q.seen /\ p.tag = q.tag /\ p.pending = q.pending
      /\ p.listed = q.listed /\ p.skipped = q.skipped /\ p.todo = Tail(q.todo)
      /\ q.call.api \in ScanApi => p.fault = fault \/ p.refused
  <2> DEFINE f == Softened(q, fault)
  <2>1. /\ IsThread(f) /\ f.call = q.call /\ f.seen = q.seen /\ f.tag = q.tag
        /\ f.pending = q.pending /\ f.listed = q.listed /\ f.skipped = q.skipped
        /\ f.todo = q.todo
        /\ q.call.api \in ScanApi => f.fault = fault \/ f.refused
    BY DEF Softened, IsThread, Fields, ScanApi
  <2> HIDE DEF f
  <2>2. p = [f EXCEPT !.at = 1, !.sub = "out", !.todo = Tail(@)]
    BY DEF JobFailed, f
  <2>3. QED
    BY <2>1, <2>2 DEF IsThread, Fields
<1> SUFFICES ASSUME r.call.api \in ScanApi PROVE ScanOK(p, host)
  BY <1>1 DEF ScanOK
<1> HIDE DEF p
<1>2. r.todo = << [driver |-> r.call.driver, op |-> r.call.api] >> /\ ScanOK(r, host)
  BY ScanContext
<1>3. ListingOK(p)
  <2>1. SameListing(p, q) /\ q.seen \subseteq p.seen
    BY <1>1 DEF SameListing
  <2>2. QED
    BY <2>1, ListingGrows
<1>4. p.todo = <<>> /\ (p.fault # "none" \/ p.refused) /\ p.call = r.call /\ p.seen = r.seen
  BY <1>1, <1>2
<1> HIDE DEF r
<1>5. QED
  BY <1>2, <1>3, <1>4 DEF ScanOK

LEMMA LibKeepsScan ==
  ASSUME RegistryInv, ScanInv, NEW t \in Threads,
         LockLib(t) \/ FindLib(t) \/ MissLib(t) \/ LoadLib(t) \/ LoadLibFails(t)
  PROVE  ScanInv'
<1> DEFINE r == th[t]
<1>1. IsThread(r) /\ ScanOK(r, host) /\ Running(t) /\ Current(t).kind = "lib"
  BY ScanContext DEF LockLib, FindLib, MissLib, LoadLib, LoadLibFails, At
<1>2. r.call.api \in ScanApi => ListingOK(r) /\ ScanAt(r, r.at + 1, ScriptOf(t))
  <2> SUFFICES ASSUME r.call.api \in ScanApi
               PROVE  ListingOK(r) /\ ScanAt(r, r.at + 1, ScriptOf(t))
    OBVIOUS
  <2>1. /\ r.at \in Nat \ {0} /\ ListingOK(r) /\ ScanAt(r, r.at, ScriptOf(t))
        /\ Current(t) = ScriptOf(t)[r.at]
    BY <1>1, ScanContext
  <2>2. QED
    BY <1>1, <2>1, ScanAdvances DEF Listing
<1>done. ScanOK(StepDone(t, r), host)
  BY <1>1, <1>2, StepDoneKeepsScan
<1>failed. \A fault \in {"stub", "library"} : ScanOK(JobFailed(r, fault), host)
  BY <1>1, <1>2, JobFailedKeepsScan
<1>3. CASE LockLib(t) \/ MissLib(t)
  <2>1. PICK sub : Becomes(t, [r EXCEPT !.sub = sub])
    BY <1>3 DEF LockLib, MissLib
  <2> DEFINE q == [r EXCEPT !.sub = sub]
  <2>2. SameScan(q, r) /\ q.seen = r.seen
    BY <1>1 DEF SameScan, IsThread, Fields
  <2>3. HostOK(host) /\ (r.call.api \in ScanApi => host \in r.seen)
    BY <1>1, ScanContext DEF ScanInv
  <2> HIDE DEF q
  <2>4. ScanOK(q, host)
    <3>1. CASE r.call.api \in ScanApi
      BY <1>1, <2>2, <2>3, <3>1, ScanGrows
    <3>2. CASE r.call.api \notin ScanApi
      BY <2>2, <3>2 DEF ScanOK, SameScan
    <3>3. QED
      BY <3>1, <3>2
  <2>5. QED
    BY <2>1, <2>4, OneScan DEF q
<1>4. CASE FindLib(t)
  BY <1>4, <1>done, <1>failed, OneScan DEF FindLib
<1>5. CASE LoadLib(t)
  BY <1>5, <1>done, OneScan DEF LoadLib
<1>6. CASE LoadLibFails(t)
  BY <1>6, <1>failed, OneScan DEF LoadLibFails
<1>7. QED
  BY <1>3, <1>4, <1>5, <1>6

-----------------------------------------------------------------------------
(* Nothing has been listed when the default is read, nor when the devices  *)
(* are; the walk has the list.                                             *)
LEMMA BeforeListing ==
  ASSUME NEW s, NEW b, NEW op, ScanShape(s, b, op), NEW at \in 1..Len(s)
  PROVE  /\ s[at].kind \in Listing \cup {"default"} =>
              ~Past(s, at, Listing) /\ ~Past(s, at, {"walk"})
         /\ s[at].kind = "walk" => Past(s, at, Listing)
<1>1. Len(s) \in Nat
  BY DEF ScanShape
<1>2. ASSUME s[at].kind \in Listing \cup {"default"} PROVE ~Past(s, at, Listing)
  <2> SUFFICES ASSUME NEW j \in 1..(at - 1), s[j].kind \in Listing PROVE FALSE
    BY DEF Past
  <2>1. j \in 1..Len(s) /\ ~(at <= j)
    BY <1>1
  <2>2. QED
    BY <1>2, <2>1 DEF ScanShape
<1>3. ASSUME s[at].kind \in Listing \cup {"default"} PROVE ~Past(s, at, {"walk"})
  <2> SUFFICES ASSUME NEW j \in 1..(at - 1), s[j].kind = "walk" PROVE FALSE
    BY DEF Past
  <2>1. j \in 1..Len(s)
    BY <1>1
  <2>2. PICK k \in 1..(j - 1) : s[k].kind \in Listing
    BY <2>1 DEF ScanShape, Past
  <2>3. k \in 1..(at - 1)
    BY <1>1, <2>1
  <2>4. QED
    BY <1>2, <1>3, <2>2, <2>3 DEF Past
<1>4. QED
  BY <1>2, <1>3 DEF ScanShape

(* The default is read while there is no entry to tag.                     *)
LEMMA DefaultReadKeepsScan ==
  ASSUME NEW r, NEW q, NEW s, NEW at \in Nat \ {0}, ListingOK(r), ScanAt(r, at, s),
         s[at].kind = "default", ~Past(s, at, Listing),
         q.call = r.call, q.pending = r.pending, q.listed = r.listed, q.seen = r.seen,
         WasDefault(q.seen, q.tag)
  PROVE  ListingOK(q) /\ ScanAt(q, at + 1, s)
<1>1. r.listed = <<>>
  BY DEF ScanAt
<1>2. ListingOK(q)
  BY <1>1 DEF ListingOK
<1>3. ~Past(s, at + 1, Listing) /\ (Past(s, at + 1, {"walk"}) <=> Past(s, at, {"walk"}))
  BY PastNext DEF Listing
<1>4. QED
  BY <1>1, <1>2, <1>3 DEF ScanAt

(* An answer that is refused promises nothing.                             *)
LEMMA RefusedKeepsScan ==
  ASSUME NEW r, NEW q, NEW s, NEW at \in Nat \ {0}, ListingOK(r), ScanAt(r, at, s),
         s[at].kind # "walk", SameListing(q, r), q.seen = r.seen, q.refused
  PROVE  ListingOK(q) /\ ScanAt(q, at + 1, s)
<1>1. ListingOK(q)
  BY ListingGrows
<1>2. Past(s, at, Listing) => Past(s, at + 1, Listing)
  BY PastNext
<1>3. Past(s, at + 1, {"walk"}) <=> Past(s, at, {"walk"})
  BY PastNext
<1>4. QED
  BY <1>1, <1>2, <1>3 DEF ScanAt, SameListing

(* The list has every device that is there and can play.                   *)
LEMMA ListKeepsScan ==
  ASSUME host \in HostType, NEW r, NEW q, NEW s, NEW at \in Nat \ {0}, ListingOK(r),
         ScanAt(r, at, s), s[at].kind \in Listing, ~Past(s, at, Listing), ~Past(s, at, {"walk"}),
         host \in r.seen, q.call = r.call, q.listed = r.listed, q.seen = r.seen, q.tag = r.tag,
         q.refused = r.refused, q.pending = Snapshot(r.call.driver)
  PROVE  ListingOK(q) /\ ScanAt(q, at + 1, s)
<1>1. q.listed = <<>>
  BY DEF ScanAt
<1>2. /\ q.pending \subseteq host.present /\ host.present \subseteq Elements(Catalog)
      /\ host.present \ Inputs \subseteq q.pending
      /\ r.call.driver = "wasapi" => q.pending \cap Inputs = {}
  BY DEF Snapshot, HostType
<1>3. ListingOK(q)
  BY <1>1, <1>2 DEF ListingOK, WasThere
<1>4. Covered(q)
  BY <1>2 DEF Covered, Throughout, Playable
<1>5. /\ Past(s, at + 1, Listing) /\ ~Past(s, at + 1, {"walk"})
      /\ Past(s, at + 1, {"default"}) <=> Past(s, at, {"default"})
  BY PastNext DEF Listing
<1>6. QED
  BY <1>3, <1>4, <1>5 DEF ScanAt

(* The walk keeps a device that is described or drops it, for a reason.    *)
LEMMA WalkKeepsScan ==
  ASSUME NEW r, NEW q, NEW s, NEW at, ListingOK(r), ScanAt(r, at, s), Past(s, at, Listing),
         host \in r.seen, r.call.driver \in Scanners,
         NEW d \in r.pending, NEW kept, kept = Kept(r.call.driver, d),
         q.call = r.call, q.seen = r.seen, q.tag = r.tag, q.refused = r.refused,
         q.skipped = r.skipped, q.pending = r.pending \ {d},
         q.listed = IF kept
                    THEN Append(r.listed, [id |-> d, isDefault |-> IsDefault(r.call.driver, d, r.tag)])
                    ELSE r.listed
  PROVE  ListingOK(q) /\ ScanAt(q, at, s)
<1> DEFINE n == Len(r.listed)
           new == [id |-> d, isDefault |-> IsDefault(r.call.driver, d, r.tag)]
<1>1. /\ d \in Elements(Catalog) /\ WasThere(r.seen, d) /\ r.listed \in Seq(EntryType) /\ n \in Nat
      /\ r.call.driver = "wasapi" => d \notin Inputs
  BY LenProperties DEF ListingOK
<1>2. ~Past(s, at, {"walk"})
  BY DEF ScanAt
<1>3. kept => d \in Playable
  BY <1>1 DEF Kept, Playable, Scanners
<1>4. ~kept => d \notin Playable \/ ~Throughout(r.seen, d)
  BY DEF Kept, Playable, Scanners, Throughout
<1>5. CASE kept
  <2>1. new \in EntryType /\ new.id = d /\ new.isDefault = IsDefault(r.call.driver, d, r.tag)
    <3>1. IsDefault(r.call.driver, d, r.tag) \in BOOLEAN
      BY DEF IsDefault
    <3>2. QED
      BY <1>3, <1>5, <3>1 DEF EntryType
  <2>2. q.listed = Append(r.listed, new)
    BY <1>5
  <2> HIDE DEF new
  <2>3. /\ q.listed \in Seq(EntryType) /\ Len(q.listed) = n + 1
        /\ \A i \in 1..n : q.listed[i] = r.listed[i]
        /\ q.listed[n + 1] = new
    <3> DEFINE l == r.listed
    <3>1. l \in Seq(EntryType) /\ new \in EntryType
      BY <1>1, <2>1
    <3> HIDE DEF l
    <3>2. /\ Append(l, new) \in Seq(EntryType) /\ Len(Append(l, new)) = Len(l) + 1
          /\ \A i \in 1..Len(l) : Append(l, new)[i] = l[i]
          /\ Append(l, new)[Len(l) + 1] = new
      BY <3>1, AppendProperties
    <3>3. QED
      BY <2>2, <3>2 DEF l
  <2>4. \A i \in 1..n : /\ r.listed[i].id \notin r.pending /\ WasThere(r.seen, r.listed[i].id)
                        /\ r.listed[i].isDefault = IsDefault(r.call.driver, r.listed[i].id, r.tag)
    BY DEF ListingOK
  <2>5. \A i \in 1..n : r.listed[i].id # d
    BY <2>4
  <2>6. ASSUME NEW i \in 1..Len(q.listed), NEW j \in 1..Len(q.listed),
               q.listed[i].id = q.listed[j].id
        PROVE  i = j
    <3>1. (i \in 1..n \/ i = n + 1) /\ (j \in 1..n \/ j = n + 1)
      BY <1>1, <2>3
    <3>2. i \in 1..n /\ j \in 1..n => i = j
      BY <2>3, <2>6 DEF ListingOK
    <3>3. QED
      BY <2>1, <2>3, <2>5, <2>6, <3>1, <3>2
  <2>7. ASSUME NEW i \in 1..Len(q.listed)
        PROVE  /\ q.listed[i].id \notin q.pending /\ WasThere(q.seen, q.listed[i].id)
               /\ q.listed[i].isDefault = IsDefault(q.call.driver, q.listed[i].id, q.tag)
    <3>1. CASE i \in 1..n
      BY <2>3, <2>4, <3>1
    <3>2. CASE i = n + 1
      BY <1>1, <2>1, <2>3, <3>2
    <3>3. QED
      BY <1>1, <2>3, <3>1, <3>2
  <2>8. ListingOK(q)
    BY <2>3, <2>6, <2>7 DEF ListingOK
  <2>9. Covered(r) => Covered(q)
    <3> SUFFICES ASSUME Covered(r), NEW e \in Playable, Throughout(q.seen, e)
                 PROVE  \/ e \in q.pending \cup q.skipped
                        \/ \E i \in 1..Len(q.listed) : q.listed[i].id = e
      BY DEF Covered
    <3>1. CASE e = d
      <4>1. n + 1 \in 1..Len(q.listed)
        BY <1>1, <2>3
      <4>2. QED
        BY <2>1, <2>3, <3>1, <4>1
    <3>2. CASE e # d /\ e \in r.pending \cup r.skipped
      BY <3>2
    <3>3. CASE \E i \in 1..n : r.listed[i].id = e
      <4>1. PICK i \in 1..n : r.listed[i].id = e
        BY <3>3
      <4>2. i \in 1..Len(q.listed) /\ q.listed[i].id = e
        BY <1>1, <2>3, <4>1
      <4>3. QED
        BY <4>2
    <3>4. QED
      BY <3>1, <3>2, <3>3 DEF Covered
  <2>10. QED
    BY <1>2, <2>8, <2>9 DEF ScanAt
<1>6. CASE ~kept
  <2>1. q.listed = r.listed
    BY <1>6
  <2>2. ListingOK(q)
    BY <2>1 DEF ListingOK
  <2>3. Covered(r) => Covered(q)
    BY <1>4, <1>6, <2>1 DEF Covered
  <2>4. QED
    BY <1>2, <2>1, <2>2, <2>3 DEF ScanAt
<1>7. QED
  BY <1>5, <1>6

(* A device that is not described is left out, and known to be.            *)
LEMMA SkipKeepsScan ==
  ASSUME NEW r, NEW q, NEW s, NEW at, ListingOK(r), ScanAt(r, at, s), Past(s, at, Listing),
         NEW d \in r.pending,
         q.call = r.call, q.seen = r.seen, q.tag = r.tag, q.refused = r.refused,
         q.listed = r.listed, q.pending = r.pending \ {d}, q.skipped = r.skipped \cup {d}
  PROVE  ListingOK(q) /\ ScanAt(q, at, s)
<1>1. ListingOK(q)
  BY DEF ListingOK
<1>2. Covered(r) => Covered(q)
  BY DEF Covered
<1>3. QED
  BY <1>1, <1>2 DEF ScanAt

-----------------------------------------------------------------------------
LEMMA StepKeepsScan ==
  ASSUME RegistryInv, ScanInv, NEW t \in Threads,
         \/ StepOk(t) \/ StepFails(t) \/ StubFails(t)
         \/ GetDefault(t) \/ DefaultRefused(t) \/ NoDefault(t)
         \/ GetList(t) \/ HalListsNothing(t) \/ WalkOn(t) \/ SkipDevice(t) \/ WalkEnds(t)
  PROVE  ScanInv'
<1> DEFINE r == th[t]
           s == ScriptOf(t)
           b == r.call.driver
           op == r.call.api
           c == Current(t)
<1>1. IsThread(r) /\ ScanOK(r, host) /\ Running(t) /\ host \in HostType
  BY ScanContext DEF StepOk, StepFails, StubFails, GetDefault, DefaultRefused, NoDefault, GetList,
     HalListsNothing, WalkOn, SkipDevice, WalkEnds, At, RegistryInv
<1>2. op \in ScanApi =>
        /\ Job(t).driver = b /\ c = s[r.at] /\ ScanShape(s, b, op) /\ Script(b, op) = s
        /\ r.at \in Nat \ {0} /\ r.at \in 1..Len(s) /\ host \in r.seen
        /\ ListingOK(r) /\ ScanAt(r, r.at, s)
  <2> DEFINE u == Script(b, op)
  <2>1. op \in ScanApi =>
          /\ Job(t) = [driver |-> b, op |-> op]
          /\ s = u /\ c = u[r.at] /\ ScanShape(u, b, op)
          /\ r.at \in Nat \ {0} /\ r.at \in 1..Len(u) /\ host \in r.seen
          /\ ListingOK(r) /\ ScanAt(r, r.at, u)
    BY <1>1, ScanContext
  <2> HIDE DEF r, s, c, op, b, u
  <2>2. op \in ScanApi =>
          /\ Job(t).driver = b /\ c = s[r.at] /\ ScanShape(s, b, op) /\ u = s
          /\ r.at \in Nat \ {0} /\ r.at \in 1..Len(s) /\ host \in r.seen
          /\ ListingOK(r) /\ ScanAt(r, r.at, s)
    BY <2>1
  <2>3. QED
    BY <2>2 DEF u
<1>3. op \in ScanApi =>
        /\ c.kind \in Listing \cup {"default"} => ~Past(s, r.at, Listing) /\ ~Past(s, r.at, {"walk"})
        /\ c.kind = "walk" => Past(s, r.at, Listing)
        /\ c.kind # "need" /\ (c.kind # "stub" => b \in Scanners)
  <2> SUFFICES ASSUME op \in ScanApi
               PROVE  /\ c.kind \in Listing \cup {"default"} =>
                           ~Past(s, r.at, Listing) /\ ~Past(s, r.at, {"walk"})
                      /\ c.kind = "walk" => Past(s, r.at, Listing)
                      /\ c.kind # "need" /\ (c.kind # "stub" => b \in Scanners)
    OBVIOUS
  <2>1. c = s[r.at] /\ ScanShape(s, b, op) /\ r.at \in 1..Len(s)
    BY <1>2
  <2> HIDE DEF r, s, c, op, b
  <2>2. /\ s[r.at].kind \in Listing \cup {"default"} =>
             ~Past(s, r.at, Listing) /\ ~Past(s, r.at, {"walk"})
        /\ s[r.at].kind = "walk" => Past(s, r.at, Listing)
    BY <2>1, BeforeListing
  <2>3. c.kind # "need" /\ (c.kind # "stub" => b \in Scanners)
    BY <2>1 DEF ScanShape, Listing
  <2>4. QED
    BY <2>1, <2>2, <2>3
<1>done. ASSUME NEW q, IsThread(q), q.call = r.call, q.todo = r.todo, q.at = r.at, q.seen = r.seen,
                op \in ScanApi => ListingOK(q) /\ ScanAt(q, r.at + 1, s),
                c.kind # "stub", Becomes(t, StepDone(t, q))
         PROVE  ScanInv'
  <2>1. ScanOK(StepDone(t, q), host)
    BY <1>1, <1>done, StepDoneKeepsScan
  <2>2. QED
    BY <1>done, <2>1, OneScan
<1>failed. ASSUME NEW q, IsThread(q), q.call = r.call, q.todo = r.todo, q.seen = r.seen,
                  SameListing(q, r), NEW fault \in {"stub", "library", "device"},
                  Becomes(t, JobFailed(q, fault))
           PROVE  ScanInv'
  <2>1. op \in ScanApi => ListingOK(q)
    BY <1>2, <1>failed, ListingGrows
  <2>2. ScanOK(JobFailed(q, fault), host)
    BY <1>1, <1>failed, <2>1, JobFailedKeepsScan
  <2>3. QED
    BY <1>failed, <2>2, OneScan
<1>ledger. ASSUME NEW got, NEW freed
           PROVE  LET q == Ledger(r, got, freed)
                  IN  /\ IsThread(q) /\ q.call = r.call /\ q.todo = r.todo /\ q.at = r.at
                      /\ q.seen = r.seen /\ SameListing(q, r) /\ q.refused = r.refused
  <2> DEFINE q == Ledger(r, got, freed)
  <2>1. /\ IsThread(q) /\ q.call = r.call /\ q.todo = r.todo /\ q.at = r.at
        /\ q.seen = r.seen
    BY <1>1 DEF Ledger, IsThread, Fields
  <2>2. /\ q.tag = r.tag /\ q.pending = r.pending /\ q.listed = r.listed
        /\ q.skipped = r.skipped /\ q.refused = r.refused
    BY <1>1 DEF Ledger, IsThread, Fields
  <2> HIDE DEF q
  <2>3. SameListing(q, r)
    BY <2>1, <2>2 DEF SameListing
  <2>4. QED
    BY <2>1, <2>2, <2>3 DEF q
<1>same. SameListing(r, r)
  BY DEF SameListing
<1>StepOk. CASE StepOk(t)
  <2> DEFINE q == Ledger(r, c.got, c.freed)
  <2>1. c.kind \in {"call", "do"} /\ Becomes(t, StepDone(t, q))
    BY <1>StepOk DEF StepOk, At
  <2>2. /\ IsThread(q) /\ q.call = r.call /\ q.todo = r.todo /\ q.at = r.at
        /\ q.seen = r.seen /\ SameListing(q, r) /\ q.refused = r.refused
    BY <1>ledger
  <2> HIDE DEF q
  <2>3. op \in ScanApi => ListingOK(q) /\ ScanAt(q, r.at + 1, s)
    <3> SUFFICES ASSUME op \in ScanApi PROVE ListingOK(q) /\ ScanAt(q, r.at + 1, s)
      OBVIOUS
    <3>1. ScanAt(r, r.at + 1, s)
      BY <1>2, <2>1, ScanAdvances DEF Listing
    <3> HIDE DEF r, s, c, op
    <3>2. QED
      BY <1>2, <2>2, <3>1, ListingGrows, ScanAtGrows
  <2>4. QED
    BY <1>done, <2>1, <2>2, <2>3
<1>StepFails. CASE StepFails(t)
  <2>1. Becomes(t, JobFailed(Ledger(r, {}, c.undone), "device"))
    BY <1>StepFails DEF StepFails
  <2>2. QED
    BY <1>failed, <1>ledger, <2>1
<1>StubFails. CASE StubFails(t)
  BY <1>1, <1>same, <1>failed, <1>StubFails DEF StubFails
<1>NoDefault. CASE NoDefault(t)
  BY <1>1, <1>same, <1>failed, <1>NoDefault DEF NoDefault
<1>GetDefault. CASE GetDefault(t)
  <2> DEFINE q == [r EXCEPT !.tag = host.default]
  <2>1. /\ IsThread(q) /\ q.call = r.call /\ q.todo = r.todo /\ q.at = r.at /\ q.seen = r.seen
        /\ q.tag = host.default /\ q.pending = r.pending /\ q.listed = r.listed
    BY <1>1 DEF IsThread, Fields
  <2>2. c.kind \in {"default", "need"} /\ Becomes(t, StepDone(t, q))
    BY <1>GetDefault DEF GetDefault, At
  <2> HIDE DEF q
  <2>3. op \in ScanApi => ListingOK(q) /\ ScanAt(q, r.at + 1, s)
    <3> SUFFICES ASSUME op \in ScanApi PROVE ListingOK(q) /\ ScanAt(q, r.at + 1, s)
      OBVIOUS
    <3>1. s[r.at].kind = "default" /\ ~Past(s, r.at, Listing) /\ WasDefault(q.seen, q.tag)
      BY <1>2, <1>3, <2>1, <2>2 DEF WasDefault
    <3> HIDE DEF r, s, c, op
    <3>2. QED
      BY <1>2, <2>1, <3>1, DefaultReadKeepsScan
  <2>4. QED
    BY <1>done, <2>1, <2>2, <2>3
<1>refused. CASE DefaultRefused(t) \/ HalListsNothing(t)
  <2> DEFINE q == [r EXCEPT !.refused = TRUE]
  <2>1. /\ IsThread(q) /\ q.call = r.call /\ q.todo = r.todo /\ q.at = r.at /\ q.seen = r.seen
        /\ SameListing(q, r) /\ q.refused
    BY <1>1 DEF IsThread, Fields, SameListing
  <2>2. c.kind \in {"default", "try"} /\ Becomes(t, StepDone(t, q))
    BY <1>refused DEF DefaultRefused, HalListsNothing, At
  <2> HIDE DEF q
  <2>3. op \in ScanApi => ListingOK(q) /\ ScanAt(q, r.at + 1, s)
    <3> SUFFICES ASSUME op \in ScanApi PROVE ListingOK(q) /\ ScanAt(q, r.at + 1, s)
      OBVIOUS
    <3>1. s[r.at].kind # "walk"
      BY <1>2, <2>2
    <3> HIDE DEF r, s, c, op
    <3>2. QED
      BY <1>2, <2>1, <3>1, RefusedKeepsScan
  <2>4. QED
    BY <1>done, <2>1, <2>2, <2>3
<1>GetList. CASE GetList(t)
  <2> DEFINE l == Ledger(r, c.got, c.freed)
             q == [l EXCEPT !.pending = Snapshot(Job(t).driver)]
  <2>1. /\ IsThread(l) /\ l.call = r.call /\ l.todo = r.todo /\ l.at = r.at /\ l.seen = r.seen
        /\ SameListing(l, r) /\ l.refused = r.refused
    BY <1>ledger
  <2>2. c.kind \in {"list", "try"} /\ Becomes(t, StepDone(t, q))
    BY <1>GetList DEF GetList, At
  <2> HIDE DEF l
  <2>3. /\ IsThread(q) /\ q.call = r.call /\ q.todo = r.todo /\ q.at = r.at /\ q.seen = r.seen
        /\ q.tag = r.tag /\ q.listed = r.listed /\ q.refused = r.refused
        /\ q.pending = Snapshot(Job(t).driver)
    BY <2>1 DEF IsThread, Fields, SameListing
  <2> HIDE DEF q
  <2>4. op \in ScanApi => ListingOK(q) /\ ScanAt(q, r.at + 1, s)
    <3> SUFFICES ASSUME op \in ScanApi PROVE ListingOK(q) /\ ScanAt(q, r.at + 1, s)
      OBVIOUS
    <3>1. /\ s[r.at].kind \in Listing /\ ~Past(s, r.at, Listing) /\ ~Past(s, r.at, {"walk"})
          /\ q.pending = Snapshot(r.call.driver)
      BY <1>2, <1>3, <2>2, <2>3 DEF Listing
    <3>2. /\ r.at \in Nat \ {0} /\ host \in r.seen /\ ListingOK(r) /\ ScanAt(r, r.at, s)
      BY <1>2
    <3> HIDE DEF r, s, c, op, b
    <3>3. QED
      BY <1>1, <2>3, <3>1, <3>2, ListKeepsScan
  <2>5. QED
    BY <1>done, <2>2, <2>3, <2>4
<1>WalkOn. CASE WalkOn(t)
  <2>1. PICK d \in Foremost(r.pending) :
          Becomes(t, [r EXCEPT
            !.pending = @ \ {d},
            !.listed = IF Kept(Job(t).driver, d)
                       THEN Append(@, [id |-> d, isDefault |-> IsDefault(Job(t).driver, d, r.tag)])
                       ELSE @])
    BY <1>WalkOn DEF WalkOn
  <2> DEFINE kept == Kept(Job(t).driver, d)
             l == IF kept
                  THEN Append(r.listed, [id |-> d, isDefault |-> IsDefault(Job(t).driver, d, r.tag)])
                  ELSE r.listed
             q == [r EXCEPT !.pending = r.pending \ {d}, !.listed = l]
  <2>2. Becomes(t, q) /\ d \in r.pending /\ c.kind = "walk"
    BY <1>WalkOn, <2>1 DEF Foremost, WalkOn, At
  <2> HIDE DEF l
  <2>3. /\ q.call = r.call /\ q.todo = r.todo /\ q.at = r.at /\ q.seen = r.seen /\ q.tag = r.tag
        /\ q.refused = r.refused /\ q.fault = r.fault /\ q.pending = r.pending \ {d}
        /\ q.listed = l /\ q.skipped = r.skipped
    BY <1>1 DEF IsThread, Fields
  <2> HIDE DEF q
  <2>4. ScanOK(q, host)
    <3>1. CASE op \notin ScanApi
      BY <2>3, <3>1 DEF ScanOK
    <3>2. CASE op \in ScanApi
      <4>1. /\ Past(s, r.at, Listing) /\ b \in Scanners /\ kept = Kept(b, d)
            /\ l = IF kept
                   THEN Append(r.listed, [id |-> d, isDefault |-> IsDefault(b, d, r.tag)])
                   ELSE r.listed
        BY <1>2, <1>3, <2>1, <2>2, <3>2 DEF l
      <4>2. ListingOK(q) /\ ScanAt(q, r.at, s)
        <5>1. ListingOK(r) /\ ScanAt(r, r.at, s) /\ host \in r.seen
          BY <1>2, <3>2
        <5> HIDE DEF r, s, c, op, kept
        <5>2. QED
          BY <2>2, <2>3, <4>1, <5>1, WalkKeepsScan
      <4>3. /\ r.todo = << [driver |-> b, op |-> op] >> /\ Script(b, op) = s /\ r.todo # <<>>
        BY <1>1, <1>2, <3>2 DEF ScanOK, Running
      <4> HIDE DEF r, s, c
      <4>4. QED
        BY <1>1, <2>3, <3>2, <4>2, <4>3 DEF ScanOK
    <3>3. QED
      BY <3>1, <3>2
  <2>5. QED
    BY <2>2, <2>4, OneScan
<1>SkipDevice. CASE SkipDevice(t)
  <2>1. PICK d \in Foremost(r.pending) :
          Becomes(t, [r EXCEPT !.pending = @ \ {d}, !.skipped = @ \cup {d}])
    BY <1>SkipDevice DEF SkipDevice
  <2> DEFINE q == [r EXCEPT !.pending = r.pending \ {d}, !.skipped = r.skipped \cup {d}]
  <2>2. Becomes(t, q) /\ d \in r.pending /\ c.kind = "walk"
    BY <1>SkipDevice, <2>1 DEF Foremost, SkipDevice, At
  <2>3. /\ q.call = r.call /\ q.todo = r.todo /\ q.at = r.at /\ q.seen = r.seen /\ q.tag = r.tag
        /\ q.refused = r.refused /\ q.fault = r.fault /\ q.pending = r.pending \ {d}
        /\ q.listed = r.listed /\ q.skipped = r.skipped \cup {d}
    BY <1>1 DEF IsThread, Fields
  <2> HIDE DEF q
  <2>4. ScanOK(q, host)
    <3>1. CASE op \notin ScanApi
      BY <2>3, <3>1 DEF ScanOK
    <3>2. CASE op \in ScanApi
      <4>1. ListingOK(q) /\ ScanAt(q, r.at, s)
        <5>1. ListingOK(r) /\ ScanAt(r, r.at, s) /\ Past(s, r.at, Listing)
          BY <1>2, <1>3, <2>2, <3>2
        <5> HIDE DEF r, s, c, op
        <5>2. QED
          BY <2>2, <2>3, <5>1, SkipKeepsScan
      <4>2. /\ r.todo = << [driver |-> b, op |-> op] >> /\ Script(b, op) = s /\ r.todo # <<>>
        BY <1>1, <1>2, <3>2 DEF ScanOK, Running
      <4> HIDE DEF r, s, c
      <4>3. QED
        BY <1>1, <2>3, <3>2, <4>1, <4>2 DEF ScanOK
    <3>3. QED
      BY <3>1, <3>2
  <2>5. QED
    BY <2>2, <2>4, OneScan
<1>WalkEnds. CASE WalkEnds(t)
  <2>1. c.kind = "walk" /\ r.pending = {} /\ Becomes(t, StepDone(t, r))
    BY <1>WalkEnds DEF WalkEnds, At
  <2>2. op \in ScanApi => ListingOK(r) /\ ScanAt(r, r.at + 1, s)
    <3> SUFFICES ASSUME op \in ScanApi PROVE ListingOK(r) /\ ScanAt(r, r.at + 1, s)
      OBVIOUS
    <3>1. /\ Past(s, r.at + 1, Listing) <=> Past(s, r.at, Listing)
          /\ Past(s, r.at + 1, {"default"}) <=> Past(s, r.at, {"default"})
      BY <1>2, <2>1, PastNext DEF Listing
    <3>2. QED
      BY <1>2, <2>1, <3>1 DEF ScanAt
  <2>3. QED
    BY <1>1, <1>done, <2>1, <2>2
<1> QED
  BY <1>StepOk, <1>StepFails, <1>StubFails, <1>NoDefault, <1>GetDefault, <1>refused, <1>GetList,
     <1>WalkOn, <1>SkipDevice, <1>WalkEnds

LEMMA ScanBegins ==
  ASSUME HostOK(host), NEW call \in Calls, call.driver \in Elements(Drivers) \cup {None},
         NEW r, r.call = call, r.todo = Asked(call), r.at = 1, r.seen = {host}, r.tag = None,
         r.pending = {}, r.listed = <<>>
  PROVE  ScanOK(r, host)
<1> SUFFICES ASSUME call.api \in ScanApi PROVE ScanOK(r, host)
  BY DEF ScanOK
<1> DEFINE b == call.driver
           job == [driver |-> call.driver, op |-> call.api]
           s == Script(call.driver, call.api)
<1>1. b \in Backends /\ call.api \in Ops /\ b \in Elements(Drivers)
  BY RegistryAssumption DEF CallType, ScanApi, Ops
<1>2. b = "alsa" => host.platform = "linux"
  BY <1>1, AlsaOnLinux DEF HostOK, Drivers
<1>3. r.todo = << job >>
  <2>1. r.todo = Jobs(<<b>>, call.api)
    BY DEF Asked, ScanApi
  <2> DEFINE drivers == <<b>>
  <2>2. drivers \in Seq(Backends) /\ Len(drivers) = 1 /\ drivers[1] = b
    BY <1>1
  <2> HIDE DEF drivers, b, s
  <2>3. Jobs(drivers, call.api) = [i \in 1..1 |-> [driver |-> drivers[i], op |-> call.api]]
    BY <2>2 DEF Jobs
  <2>4. Jobs(drivers, call.api) = [i \in 1..1 |-> [driver |-> b, op |-> call.api]]
    BY <2>2, <2>3
  <2>5. [i \in 1..1 |-> [driver |-> b, op |-> call.api]] = << [driver |-> b, op |-> call.api] >>
    OBVIOUS
  <2>6. QED
    BY <2>1, <2>4, <2>5 DEF drivers, b
<1>4. ListingOK(r)
  BY DEF ListingOK
<1>5. \A kinds : ~Past(s, 1, kinds)
  BY DEF Past
<1> HIDE DEF s
<1>6. ScanAt(r, r.at, s)
  BY <1>5 DEF ScanAt
<1>7. r.todo # <<>>
  BY <1>3
<1>8. QED
  BY <1>1, <1>2, <1>3, <1>4, <1>6, <1>7 DEF ScanOK, s

LEMMA CallKeepsScan ==
  ASSUME RegistryInv, ScanInv, NEW t \in Threads,
         (\E call \in Calls : Begin(t, call)) \/ OpenFound(t) \/ Return(t)
  PROVE  ScanInv'
<1>1. ASSUME NEW call \in Calls, Begin(t, call) PROVE ScanInv'
  <2> DEFINE r == [Idle EXCEPT !.call = call, !.todo = Asked(call), !.seen = {host}]
  <2>1. Becomes(t, r) /\ call.driver \in Elements(Drivers) \cup {None}
    BY <1>1 DEF Begin, Becomes
  <2>2. /\ r.call = call /\ r.todo = Asked(call) /\ r.at = 1 /\ r.seen = {host} /\ r.tag = None
        /\ r.pending = {} /\ r.listed = <<>>
    BY DEF Idle
  <2> HIDE DEF r
  <2>3. ScanOK(r, host)
    BY <2>1, <2>2, ScanBegins DEF ScanInv
  <2>4. QED
    BY <2>1, <2>3, OneScan
<1>2. CASE OpenFound(t)
  <2>1. PICK todo :
          Becomes(t, [th[t] EXCEPT !.opening = TRUE, !.fault = "none", !.todo = todo])
    BY <1>2 DEF OpenFound
  <2> DEFINE r == [th[t] EXCEPT !.opening = TRUE, !.fault = "none", !.todo = todo]
  <2>2. r.call = th[t].call /\ th[t].call.api = "open_default"
    BY <1>2, ScanContext DEF OpenFound, IsThread, Fields
  <2> HIDE DEF r
  <2>3. ScanOK(r, host)
    BY <2>2 DEF ScanOK, ScanApi
  <2>4. QED
    BY <2>1, <2>3, OneScan DEF r
<1>3. CASE Return(t)
  <2>1. ScanOK(Idle, host)
    BY DEF ScanOK, Idle, ScanApi
  <2>2. QED
    BY <1>3, <2>1, OneScan DEF Return
<1>4. QED
  BY <1>1, <1>2, <1>3

(* However the host changes, its default is one it may have.               *)
LEMMA HostStaysOK ==
  ASSUME RegistryInv, HostOK(host), LibChanges \/ ServiceChanges \/ DeviceChanges
  PROVE  HostOK(host') /\ host'.platform = host.platform /\ HostBecomes(host')
<1>1. host \in HostType /\ host' \in HostType /\ host.default \in Defaults(host.platform, host.present)
  BY HostKeepsLedger DEF HostOK
<1>2. CASE LibChanges
  <2>1. PICK l \in VolatileLibs : HostBecomes([host EXCEPT !.libs = Flip(@, l)])
    BY <1>2 DEF LibChanges
  <2>2. host' = [host EXCEPT !.libs = Flip(@, l)]
    BY <2>1 DEF HostBecomes
  <2>3. /\ host'.platform = host.platform /\ host'.present = host.present
        /\ host'.default = host.default
    BY <1>1, <2>2 DEF HostType
  <2>4. QED
    BY <1>1, <2>1, <2>2, <2>3 DEF HostOK
<1>3. CASE ServiceChanges
  <2>1. PICK b \in VolatileBackends : HostBecomes([host EXCEPT !.up = Flip(@, b)])
    BY <1>3 DEF ServiceChanges
  <2>2. host' = [host EXCEPT !.up = Flip(@, b)]
    BY <2>1 DEF HostBecomes
  <2>3. /\ host'.platform = host.platform /\ host'.present = host.present
        /\ host'.default = host.default
    BY <1>1, <2>2 DEF HostType
  <2>4. QED
    BY <1>1, <2>1, <2>2, <2>3 DEF HostOK
<1>4. CASE DeviceChanges
  <2>1. PICK now \in {host.present} \cup {Flip(host.present, d) : d \in VolatileDevices} :
          \E new \in Defaults(host.platform, now) :
            HostBecomes([host EXCEPT !.present = now, !.default = new])
    BY <1>4 DEF DeviceChanges
  <2>2. PICK new \in Defaults(host.platform, now) :
          HostBecomes([host EXCEPT !.present = now, !.default = new])
    BY <2>1
  <2>3. host' = [host EXCEPT !.present = now, !.default = new]
    BY <2>2 DEF HostBecomes
  <2>4. host'.platform = host.platform /\ host'.present = now /\ host'.default = new
    BY <1>1, <2>3 DEF HostType
  <2>5. QED
    BY <1>1, <2>2, <2>3, <2>4 DEF HostOK
<1>5. QED
  BY <1>2, <1>3, <1>4

LEMMA HostKeepsScan ==
  ASSUME RegistryInv, ScanInv, LibChanges \/ ServiceChanges \/ DeviceChanges
  PROVE  ScanInv'
<1>1. PICK h : h = host' /\ HostOK(h) /\ h.platform = host.platform /\ HostBecomes(h)
  BY HostStaysOK DEF ScanInv
<1>2. ASSUME NEW t \in Threads PROVE ScanOK(th'[t], h)
  <2> DEFINE r == th[t]
             q == th'[t]
  <2>1. IsThread(r) /\ ScanOK(r, host)
    BY ScanContext
  <2>2. IF r.call.api = "none" \/ Finished(t) THEN q = r ELSE q = [r EXCEPT !.seen = @ \cup {h}]
    BY <1>1 DEF HostBecomes
  <2>3. SameScan(q, r) /\ r.seen \subseteq q.seen /\ q.seen \subseteq r.seen \cup {h}
    BY <2>1, <2>2 DEF SameScan, IsThread, Fields
  <2>4. CASE r.call.api \notin ScanApi
    BY <2>3, <2>4 DEF ScanOK, SameScan
  <2>5. CASE r.call.api \in ScanApi
    <3>1. r.todo # <<>> => ~Finished(t)
      BY DEF Finished, Running
    <3>2. ~Finished(t) => h \in q.seen
      BY <2>1, <2>2, <2>5 DEF IsThread, Fields, ScanApi
    <3> HIDE DEF r, q
    <3>3. ScanOK(q, h)
      BY <1>1, <2>1, <2>3, <3>1, <3>2, ScanGrows
    <3>4. QED
      BY <3>3 DEF q
  <2>6. QED
    BY <2>4, <2>5
<1>3. QED
  BY <1>1, <1>2 DEF ScanInv

LEMMA InitScan == Init => ScanInv
<1> SUFFICES ASSUME Init PROVE ScanInv
  OBVIOUS
<1>1. HostOK(host)
  BY RegistryAssumption DEF Init, HostOK
<1>2. ScanOK(Idle, host)
  BY DEF ScanOK, Idle, ScanApi
<1>3. QED
  BY <1>1, <1>2 DEF Init, ScanInv

LEMMA StepScan == RegistryInv /\ ScanInv /\ [Next]_vars => ScanInv'
<1> SUFFICES ASSUME RegistryInv, ScanInv, [Next]_vars PROVE ScanInv'
  OBVIOUS
<1>1. ASSUME NEW t \in Threads, ThreadStep(t) PROVE ScanInv'
  BY <1>1, CallKeepsScan, LibKeepsScan, StepKeepsScan DEF ThreadStep
<1>2. CASE LibChanges \/ ServiceChanges \/ DeviceChanges
  BY <1>2, HostKeepsScan
<1>3. CASE UNCHANGED vars
  BY <1>3 DEF vars, ScanInv
<1>4. QED
  BY <1>1, <1>2, <1>3 DEF Next

LEMMA ScanInvariance == Spec => [](RegistryInv /\ ScanInv)
<1>1. Init => RegistryInv /\ ScanInv
  BY InitRegistry, InitScan
<1>2. (RegistryInv /\ ScanInv) /\ [Next]_vars => (RegistryInv /\ ScanInv)'
  BY StepRegistry, StepScan
<1>3. QED
  BY <1>1, <1>2, PTL DEF Spec

-----------------------------------------------------------------------------
(* What a query knows when it is over.                                     *)
LEMMA ScanEnds ==
  ASSUME RegistryInv, ScanInv, NEW t \in Threads, Finished(t), th[t].call.api \in ScanApi,
         th[t].fault = "none"
  PROVE  LET r == th[t]
         IN  /\ ListingOK(r) /\ r.seen # {}
             /\ \A g \in r.seen : HostOK(g) /\ (r.call.driver = "alsa" => g.platform = "linux")
             /\ ~r.refused =>
                  /\ Listed(t) => r.pending = {} /\ Covered(r)
                  /\ r.call.driver # "alsa" => WasDefault(r.seen, r.tag)
<1> DEFINE r == th[t]
           b == r.call.driver
           op == r.call.api
           s == Script(r.call.driver, r.call.api)
<1>1. ScanOK(r, host) /\ r.todo = <<>>
  BY DEF ScanInv, Finished, Running
<1>2. /\ ListingOK(r) /\ r.seen # {} /\ b \in Backends
      /\ \A g \in r.seen : HostOK(g) /\ (b = "alsa" => g.platform = "linux")
      /\ ~r.refused => b \in Scanners /\ ScanAt(r, Len(s) + 1, s)
  BY <1>1 DEF ScanOK
<1>3. ScanShape(s, b, op)
  BY <1>2, ScanShapes
<1>4. Listed(t) => ~(op = "default" /\ b = "coreaudio")
  BY DEF Listed, Queried
<1> HIDE DEF s
<1>5. Past(s, Len(s) + 1, {"walk"}) => Past(s, Len(s) + 1, Listing)
  <2> SUFFICES ASSUME NEW j \in 1..((Len(s) + 1) - 1), s[j].kind = "walk"
               PROVE  Past(s, Len(s) + 1, Listing)
    BY DEF Past
  <2>1. Len(s) \in Nat /\ j \in 1..Len(s)
    BY <1>3 DEF ScanShape
  <2>2. PICK k \in 1..(j - 1) : s[k].kind \in Listing
    BY <1>3, <2>1 DEF ScanShape, Past
  <2>3. k \in 1..((Len(s) + 1) - 1)
    BY <2>1
  <2>4. QED
    BY <2>2, <2>3 DEF Past
<1>6. ASSUME ~r.refused, Listed(t) PROVE r.pending = {} /\ Covered(r)
  <2>1. Past(s, Len(s) + 1, {"walk"}) /\ ScanAt(r, Len(s) + 1, s)
    BY <1>2, <1>3, <1>4, <1>6 DEF ScanShape
  <2>2. QED
    BY <1>5, <1>6, <2>1 DEF ScanAt
<1>7. ASSUME ~r.refused, b # "alsa" PROVE WasDefault(r.seen, r.tag)
  <2>1. Past(s, Len(s) + 1, {"default"}) /\ ScanAt(r, Len(s) + 1, s)
    BY <1>2, <1>3, <1>7 DEF ScanShape
  <2>2. QED
    BY <1>7, <2>1 DEF ScanAt
<1>8. QED
  BY <1>2, <1>6, <1>7

(* An entry is tagged only if its device was the default.                  *)
LEMMA TaggedWasDefault ==
  ASSUME NEW t \in Threads, ListingOK(th[t]),
         \A g \in th[t].seen : HostOK(g) /\ (th[t].call.driver = "alsa" => g.platform = "linux"),
         NEW d \in Tagged(t)
  PROVE  d \in Playable /\ WasDefault(th[t].seen, d)
<1> DEFINE r == th[t]
<1>1. PICK i \in 1..Len(r.listed) : r.listed[i].id = d /\ r.listed[i].isDefault
  BY DEF Tagged, Entries, Elements
<1>2. /\ r.listed[i] \in EntryType /\ WasThere(r.seen, d)
      /\ r.listed[i].isDefault = IsDefault(r.call.driver, d, r.tag)
      /\ r.tag = None \/ WasDefault(r.seen, r.tag)
  BY <1>1, ElementOfSeq DEF ListingOK
<1>3. d \in Playable /\ IsDefault(r.call.driver, d, r.tag)
  BY <1>1, <1>2 DEF EntryType
<1>4. CASE r.call.driver = "alsa"
  <2>1. d = AlsaDefault
    BY <1>3, <1>4 DEF IsDefault
  <2>2. PICK g \in r.seen : d \in g.present
    BY <1>2 DEF WasThere
  <2>3. g.default = AlsaDefault
    BY <1>4, <2>1, <2>2 DEF HostOK, Defaults
  <2>4. QED
    BY <1>3, <2>1, <2>2, <2>3 DEF WasDefault
<1>5. CASE r.call.driver # "alsa"
  <2>1. d = r.tag
    BY <1>3, <1>5 DEF IsDefault
  <2>2. d # None
    BY <1>3, RegistryAssumption DEF Playable
  <2>3. QED
    BY <1>2, <1>3, <2>1, <2>2
<1>6. QED
  BY <1>4, <1>5

(* Whatever is plugged in or removed while it is made, a list has each     *)
(* device once, none that only captures or that was never there, every     *)
(* playback device that was there throughout and that the system           *)
(* described, and as default only one that was it.                         *)
THEOREM ListsAreSound == Spec => []ListSound
<1>1. RegistryInv /\ ScanInv => ListSound
  <2> SUFFICES ASSUME RegistryInv, ScanInv, NEW t \in Threads, Listed(t)
               PROVE  LET r == th[t]
                          ids == [i \in 1..Len(r.listed) |-> r.listed[i].id]
                      IN /\ \A i, j \in 1..Len(ids) : ids[i] = ids[j] => i = j
                         /\ \A d \in Elements(ids) : d \in Playable /\ \E h \in r.seen : d \in h.present
                         /\ ~r.refused =>
                              \A d \in Playable \ r.skipped :
                                (\A h \in r.seen : d \in h.present) => d \in Elements(ids)
                         /\ \A d \in Tagged(t) : \E h \in r.seen : h.default = d
    BY DEF ListSound
  <2> DEFINE r == th[t]
             ids == [i \in 1..Len(r.listed) |-> r.listed[i].id]
  <2>1. Finished(t) /\ r.call.api \in ScanApi /\ r.fault = "none"
    BY DEF Listed, Queried, ScanApi
  <2>2. /\ ListingOK(r)
        /\ \A g \in r.seen : HostOK(g) /\ (r.call.driver = "alsa" => g.platform = "linux")
        /\ ~r.refused => r.pending = {} /\ Covered(r)
    BY <2>1, ScanEnds
  <2>3. /\ r.listed \in Seq(EntryType) /\ Len(r.listed) \in Nat
        /\ \A i \in 1..Len(r.listed) : r.listed[i] \in EntryType
    BY <2>2, LenProperties, ElementOfSeq DEF ListingOK
  <2>4. Len(ids) = Len(r.listed) /\ \A i \in 1..Len(r.listed) : ids[i] = r.listed[i].id
    BY <2>3
  <2> HIDE DEF ids
  <2>5. \A i, j \in 1..Len(ids) : ids[i] = ids[j] => i = j
    BY <2>2, <2>4 DEF ListingOK
  <2>6. ASSUME NEW d \in Elements(ids) PROVE d \in Playable /\ \E h \in r.seen : d \in h.present
    <3>1. PICK i \in 1..Len(r.listed) : d = r.listed[i].id
      BY <2>4 DEF Elements
    <3>2. r.listed[i] \in EntryType /\ WasThere(r.seen, d)
      BY <2>2, <2>3, <3>1 DEF ListingOK
    <3>3. QED
      BY <3>1, <3>2 DEF EntryType, WasThere
  <2>7. ASSUME ~r.refused, NEW d \in Playable \ r.skipped, \A h \in r.seen : d \in h.present
        PROVE  d \in Elements(ids)
    <3>1. PICK i \in 1..Len(r.listed) : r.listed[i].id = d
      BY <2>2, <2>7 DEF Covered, Throughout
    <3>2. QED
      BY <2>4, <3>1 DEF Elements
  <2>8. \A d \in Tagged(t) : \E h \in r.seen : h.default = d
    BY <2>2, TaggedWasDefault DEF WasDefault
  <2>9. QED
    BY <2>5, <2>6, <2>7, <2>8 DEF ids
<1>2. QED
  BY <1>1, ScanInvariance, PTL

(* The default device a query names was the default at some moment of the  *)
(* call; if the default did not move and the system described it, a query  *)
(* that was not refused names it, read from the system or found in the     *)
(* list.                                                                   *)
THEOREM DefaultsAgree == Spec => []DefaultAgrees
<1>1. RegistryInv /\ ScanInv => DefaultAgrees
  <2> SUFFICES ASSUME RegistryInv, ScanInv, NEW t \in Threads,
                      Queried(t, "default") \/ Queried(t, "devices")
               PROVE  LET defaults == {h.default : h \in th[t].seen}
                      IN /\ DefaultDeviceOf(t) \in defaults \cup {None}
                         /\ ~th[t].refused /\ defaults \cap th[t].skipped = {}
                              /\ (\A d, e \in defaults : d = e)
                              => DefaultDeviceOf(t) \in defaults
    BY DEF DefaultAgrees
  <2> DEFINE r == th[t]
             defaults == {h.default : h \in r.seen}
             answer == DefaultDeviceOf(t)
  <2>1. Finished(t) /\ r.call.api \in ScanApi /\ r.fault = "none"
    BY DEF Queried, ScanApi
  <2>2. /\ ListingOK(r) /\ r.seen # {}
        /\ \A g \in r.seen : HostOK(g) /\ (r.call.driver = "alsa" => g.platform = "linux")
        /\ ~r.refused => /\ Listed(t) => r.pending = {} /\ Covered(r)
                         /\ r.call.driver # "alsa" => WasDefault(r.seen, r.tag)
    BY <2>1, ScanEnds
  <2>3. \A d : WasDefault(r.seen, d) <=> d \in defaults
    BY DEF WasDefault
  <2>4. \A d \in Tagged(t) : d \in Playable /\ d \in defaults
    BY <2>2, <2>3, TaggedWasDefault
  <2> HIDE DEF defaults
  <2>5. CASE r.call.driver = "coreaudio" /\ r.call.api = "default"
    <3>1. answer = r.tag
      BY <2>5 DEF DefaultDeviceOf
    <3>2. r.tag = None \/ r.tag \in defaults
      BY <2>2, <2>3 DEF ListingOK
    <3>3. ~r.refused => r.tag \in defaults
      BY <2>2, <2>3, <2>5
    <3>4. QED
      BY <3>1, <3>2, <3>3 DEF defaults
  <2>6. CASE ~(r.call.driver = "coreaudio" /\ r.call.api = "default")
    <3>1. Tagged(t) = {} => answer = None
      BY <2>6 DEF DefaultDeviceOf
    <3>2. Tagged(t) # {} => answer \in Tagged(t)
      BY <2>6 DEF DefaultDeviceOf
    <3>3. answer \in defaults \cup {None}
      BY <2>4, <3>1, <3>2
    <3>4. ASSUME ~r.refused, defaults \cap r.skipped = {}, \A d, e \in defaults : d = e
          PROVE  answer \in defaults
      <4>1. PICK g \in r.seen : TRUE
        BY <2>2
      <4>2. g.default \in defaults
        BY DEF defaults
      <4>3. CASE g.default = None
        <5>1. Tagged(t) = {}
          BY <2>4, <3>4, <4>2, <4>3, RegistryAssumption DEF Playable
        <5>2. QED
          BY <3>1, <4>2, <4>3, <5>1
      <4>4. CASE g.default # None
        <5> DEFINE d == g.default
        <5>1. ASSUME NEW h \in r.seen
              PROVE  d = h.default /\ d \in h.present /\ d \in Playable
          <6>1. h.default = d
            BY <2>3, <3>4, <4>2 DEF WasDefault
          <6>2. HostOK(h) /\ h.default # None
            BY <2>2, <4>4, <6>1
          <6>3. h.default \in h.present \ Inputs /\ h.present \subseteq Elements(Catalog)
            BY <6>2, RegistryAssumption DEF HostOK, Defaults, HostType
          <6>4. QED
            BY <6>1, <6>3 DEF Playable
        <5>2. Listed(t)
          BY <2>6 DEF Listed, Queried
        <5>3. d \in Playable /\ Throughout(r.seen, d)
          BY <4>1, <5>1 DEF Throughout
        <5>4. PICK i \in 1..Len(r.listed) : r.listed[i].id = d
          BY <2>2, <3>4, <4>2, <5>2, <5>3 DEF Covered
        <5>5. IsDefault(r.call.driver, d, r.tag)
          <6>1. CASE r.call.driver = "alsa"
            <7>1. d = AlsaDefault
              BY <2>2, <4>4, <6>1 DEF HostOK, Defaults
            <7>2. QED
              BY <6>1, <7>1 DEF IsDefault
          <6>2. CASE r.call.driver # "alsa"
            <7>1. r.tag \in defaults
              BY <2>2, <2>3, <3>4, <6>2
            <7>2. r.tag = d
              BY <3>4, <4>2, <7>1
            <7>3. QED
              BY <6>2, <7>2 DEF IsDefault
          <6>3. QED
            BY <6>1, <6>2
        <5>6. r.listed[i].isDefault = IsDefault(r.call.driver, d, r.tag)
          BY <2>2, <5>4 DEF ListingOK
        <5>7. d \in Tagged(t)
          BY <5>4, <5>5, <5>6 DEF Tagged, Entries, Elements
        <5>8. QED
          BY <2>4, <3>2, <5>7
      <4>5. QED
        BY <4>3, <4>4
    <3>5. QED
      BY <3>3, <3>4 DEF defaults
  <2>7. QED
    BY <2>5, <2>6
<1>2. QED
  BY <1>1, ScanInvariance, PTL

-----------------------------------------------------------------------------
(* TypeOK.                                                                 *)
ThreadTypeOK(r) ==
  /\ r.sub \in {"out", "check", "load"}
  /\ r.fault \in {"none", "stub", "library", "device"}
  /\ r.tag \in Elements(Catalog) \cup {None}
  /\ r.held \subseteq Resources

TypeInv == changes \in 0..MaxChanges /\ \A t \in Threads : ThreadTypeOK(th[t])

LEMMA RecordTypes ==
  ASSUME NEW t, NEW q, IsThread(q), ThreadTypeOK(q)
  PROVE  /\ ThreadTypeOK(StepDone(t, q))
         /\ \A fault \in {"stub", "library", "device"} : ThreadTypeOK(JobFailed(q, fault))
         /\ \A got, freed : got \subseteq Resources => ThreadTypeOK(Ledger(q, got, freed))
<1>1. ThreadTypeOK(StepDone(t, q))
  BY DEF StepDone, ThreadTypeOK, IsThread, Fields
<1>2. ASSUME NEW fault \in {"stub", "library", "device"} PROVE ThreadTypeOK(JobFailed(q, fault))
  <2> DEFINE f == Softened(q, fault)
  <2>1. IsThread(f) /\ ThreadTypeOK(f)
    BY DEF Softened, ThreadTypeOK, IsThread, Fields
  <2> HIDE DEF f
  <2>2. JobFailed(q, fault) = [f EXCEPT !.at = 1, !.sub = "out", !.todo = Tail(@)]
    BY DEF JobFailed, f
  <2>3. QED
    BY <2>1, <2>2 DEF ThreadTypeOK, IsThread, Fields
<1>3. ASSUME NEW got, NEW freed, got \subseteq Resources PROVE ThreadTypeOK(Ledger(q, got, freed))
  BY <1>3 DEF Ledger, ThreadTypeOK, IsThread, Fields
<1>4. QED
  BY <1>1, <1>2, <1>3

LEMMA OneType ==
  ASSUME RegistryInv, TypeInv, NEW t \in Threads, NEW r, Becomes(t, r), ThreadTypeOK(r)
  PROVE  TypeInv'
<1>1. /\ th'[t] = r /\ \A u \in Threads \ {t} : th'[u] = th[u]
      /\ changes' = changes
  BY DEF Becomes, RegistryInv, CacheInv, ThreadsInv
<1>2. \A u \in Threads : ThreadTypeOK(th'[u])
  BY <1>1 DEF TypeInv
<1>3. QED
  BY <1>1, <1>2 DEF TypeInv

LEMMA ThreadKeepsTypes ==
  ASSUME RegistryInv, TypeInv, NEW t \in Threads, ThreadStep(t)
  PROVE  TypeInv'
<1> DEFINE r == th[t]
           c == Current(t)
<1>1. IsThread(r) /\ ThreadTypeOK(r) /\ LedgerOK(r)
  BY DEF RegistryInv, CacheInv, ThreadsInv, LedgerInv, TypeInv
<1>2. /\ ThreadTypeOK(StepDone(t, r))
      /\ \A fault \in {"stub", "library", "device"} : ThreadTypeOK(JobFailed(r, fault))
  BY <1>1, RecordTypes
<1>3. ASSUME NEW call \in Calls, Begin(t, call) PROVE TypeInv'
  <2> DEFINE q == [Idle EXCEPT !.call = call, !.todo = Asked(call), !.seen = {host}]
  <2>1. Becomes(t, q)
    BY <1>3 DEF Begin, Becomes
  <2>2. ThreadTypeOK(q)
    BY DEF ThreadTypeOK, Idle
  <2>3. QED
    BY <2>1, <2>2, OneType
<1>4. CASE Return(t)
  <2>1. ThreadTypeOK(Idle)
    BY DEF ThreadTypeOK, Idle
  <2>2. QED
    BY <1>4, <2>1, OneType DEF Return
<1>5. CASE OpenFound(t)
  <2>1. PICK todo : Becomes(t, [r EXCEPT !.opening = TRUE, !.fault = "none", !.todo = todo])
    BY <1>5 DEF OpenFound
  <2>2. ThreadTypeOK([r EXCEPT !.opening = TRUE, !.fault = "none", !.todo = todo])
    BY <1>1 DEF ThreadTypeOK, IsThread, Fields
  <2>3. QED
    BY <2>1, <2>2, OneType
<1>6. CASE LockLib(t) \/ MissLib(t)
  <2>1. PICK sub \in {"check", "load"} : Becomes(t, [r EXCEPT !.sub = sub])
    BY <1>6 DEF LockLib, MissLib
  <2>2. ThreadTypeOK([r EXCEPT !.sub = sub])
    BY <1>1 DEF ThreadTypeOK, IsThread, Fields
  <2>3. QED
    BY <2>1, <2>2, OneType
<1>7. CASE FindLib(t) \/ LoadLib(t) \/ LoadLibFails(t) \/ StubFails(t) \/ NoDefault(t) \/ WalkEnds(t)
  <2>1. \/ Becomes(t, StepDone(t, r))
        \/ \E fault \in {"stub", "library", "device"} : Becomes(t, JobFailed(r, fault))
    BY <1>7 DEF FindLib, LoadLib, LoadLibFails, StubFails, NoDefault, WalkEnds
  <2>2. QED
    BY <1>2, <2>1, OneType
<1>ledger. ASSUME Running(t), NEW got, NEW freed, got \subseteq Resources
           PROVE  LET q == Ledger(r, got, freed) IN IsThread(q) /\ ThreadTypeOK(q)
  BY <1>1, <1>ledger, LedgerIsThread, RecordTypes
<1>8. CASE StepOk(t)
  <2> DEFINE q == Ledger(r, c.got, c.freed)
  <2>1. Running(t) /\ Becomes(t, StepDone(t, q))
    BY <1>8 DEF StepOk, At
  <2>2. c.got \subseteq Resources
    BY <1>1, <2>1, StepOfScript
  <2>3. IsThread(q) /\ ThreadTypeOK(q)
    BY <1>ledger, <2>1, <2>2
  <2> HIDE DEF q
  <2>4. QED
    BY <2>1, <2>3, RecordTypes, OneType
<1>9. CASE StepFails(t)
  <2> DEFINE q == Ledger(r, {}, c.undone)
  <2>1. Running(t) /\ Becomes(t, JobFailed(q, "device"))
    BY <1>9 DEF StepFails, At
  <2>2. IsThread(q) /\ ThreadTypeOK(q)
    BY <1>ledger, <2>1
  <2> HIDE DEF q
  <2>3. ThreadTypeOK(JobFailed(q, "device"))
    BY <2>2, RecordTypes
  <2>4. QED
    BY <2>1, <2>3, OneType
<1>10. CASE GetDefault(t)
  <2> DEFINE q == [r EXCEPT !.tag = host.default]
  <2>1. host.default \in Elements(Catalog) \cup {None}
    BY DEF RegistryInv, HostType
  <2>2. IsThread(q) /\ ThreadTypeOK(q) /\ Becomes(t, StepDone(t, q))
    BY <1>1, <1>10, <2>1 DEF GetDefault, ThreadTypeOK, IsThread, Fields
  <2> HIDE DEF q
  <2>3. QED
    BY <2>2, RecordTypes, OneType
<1>11. CASE DefaultRefused(t) \/ HalListsNothing(t)
  <2> DEFINE q == [r EXCEPT !.refused = TRUE]
  <2>1. IsThread(q) /\ ThreadTypeOK(q)
    BY <1>1 DEF ThreadTypeOK, IsThread, Fields
  <2>2. Becomes(t, StepDone(t, q))
    BY <1>11 DEF DefaultRefused, HalListsNothing
  <2> HIDE DEF q
  <2>3. QED
    BY <2>1, <2>2, RecordTypes, OneType
<1>12. CASE GetList(t)
  <2> DEFINE l == Ledger(r, c.got, c.freed)
             q == [l EXCEPT !.pending = Snapshot(Job(t).driver)]
  <2>1. Running(t) /\ Becomes(t, StepDone(t, q))
    BY <1>12 DEF GetList, At
  <2>2. c.got \subseteq Resources
    BY <1>1, <2>1, StepOfScript
  <2>3. IsThread(l) /\ ThreadTypeOK(l)
    BY <1>ledger, <2>1, <2>2
  <2> HIDE DEF l
  <2>4. IsThread(q) /\ ThreadTypeOK(q)
    BY <2>3 DEF ThreadTypeOK, IsThread, Fields
  <2> HIDE DEF q
  <2>5. QED
    BY <2>1, <2>4, RecordTypes, OneType
<1>13. CASE WalkOn(t)
  <2>1. PICK pending, listed :
          Becomes(t, [r EXCEPT !.pending = pending, !.listed = listed])
    BY <1>13 DEF WalkOn
  <2>2. ThreadTypeOK([r EXCEPT !.pending = pending, !.listed = listed])
    BY <1>1 DEF ThreadTypeOK, IsThread, Fields
  <2>3. QED
    BY <2>1, <2>2, OneType
<1>14. CASE SkipDevice(t)
  <2>1. PICK pending, skipped :
          Becomes(t, [r EXCEPT !.pending = pending, !.skipped = skipped])
    BY <1>14 DEF SkipDevice
  <2>2. ThreadTypeOK([r EXCEPT !.pending = pending, !.skipped = skipped])
    BY <1>1 DEF ThreadTypeOK, IsThread, Fields
  <2>3. QED
    BY <2>1, <2>2, OneType
<1>15. QED
  BY <1>3, <1>4, <1>5, <1>6, <1>7, <1>8, <1>9, <1>10, <1>11, <1>12, <1>13, <1>14
  DEF ThreadStep

LEMMA HostKeepsTypes ==
  ASSUME RegistryInv, TypeInv, LibChanges \/ ServiceChanges \/ DeviceChanges
  PROVE  TypeInv'
<1>1. PICK h : HostBecomes(h)
  BY DEF LibChanges, ServiceChanges, DeviceChanges
<1>2. changes' \in 0..MaxChanges
  <2>1. changes \in Nat /\ MaxChanges \in Nat /\ MaxRaced \in 0..MaxChanges
    BY RegistryAssumption DEF TypeInv
  <2>2. changes' = changes + 1 /\ (changes < MaxRaced \/ changes < MaxChanges)
    BY <1>1 DEF HostBecomes
  <2>3. QED
    BY <2>1, <2>2
<1>3. ASSUME NEW t \in Threads PROVE ThreadTypeOK(th'[t])
  <2>1. IsThread(th[t]) /\ ThreadTypeOK(th[t])
    BY DEF RegistryInv, CacheInv, ThreadsInv, TypeInv
  <2>2. th'[t] = th[t] \/ th'[t] = [th[t] EXCEPT !.seen = @ \cup {h}]
    BY <1>1 DEF HostBecomes
  <2>3. QED
    BY <2>1, <2>2 DEF ThreadTypeOK, IsThread, Fields
<1>4. QED
  BY <1>2, <1>3 DEF TypeInv

(* Every variable of the registry and of the caches keeps its type, for    *)
(* any threads, libraries, calls, hosts and bounds.                        *)
THEOREM RegistryTypes == Spec => []TypeOK
<1>1. Init => TypeInv
  <2> SUFFICES ASSUME Init PROVE TypeInv
    OBVIOUS
  <2>1. ThreadTypeOK(Idle)
    BY DEF ThreadTypeOK, Idle
  <2>2. QED
    BY <2>1, RegistryAssumption DEF Init, TypeInv
<1>2. RegistryInv /\ TypeInv /\ [Next]_vars => TypeInv'
  <2> SUFFICES ASSUME RegistryInv, TypeInv, [Next]_vars PROVE TypeInv'
    OBVIOUS
  <2>1. CASE UNCHANGED vars
    BY <2>1 DEF vars, TypeInv
  <2>2. QED
    BY <2>1, ThreadKeepsTypes, HostKeepsTypes DEF Next
<1>3. RegistryInv /\ TypeInv => TypeOK
  BY DEF RegistryInv, CacheInv, SlotInv, TypeInv, ThreadTypeOK, TypeOK
<1>4. QED
  BY <1>1, <1>2, <1>3, RegistryInvariance, PTL DEF Spec
=============================================================================
