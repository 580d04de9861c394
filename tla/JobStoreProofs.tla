--------------------------- MODULE JobStoreProofs ---------------------------
(***************************************************************************)
(* Proofs about JobStore for any number of jobs, keys, payloads and any    *)
(* retention period: the invariants of the registry, and that it           *)
(* implements KeyedWork.                                                   *)
(***************************************************************************)
EXTENDS JobStore, TLAPS

(***************************************************************************)
(* The strengthening.  A job's stamps lie in the past and are ordered; a   *)
(* closed store is empty, and only a closed one cancels.  KeyMapConsistent *)
(* carries the argument for OnceWithinRetention: when create finds no live *)
(* entry for a key, every earlier job of that key has been purged, or is   *)
(* being purged in this very step.                                         *)
(***************************************************************************)
Stamped == \A j \in JobIds : jobs[j].created <= jobs[j].updated /\ jobs[j].updated <= now

ClosedIsEmpty == closed => stored = {}

CancellingIsClosed == \A j \in JobIds : jobs[j].task = "cancelling" => closed

IInv ==
  /\ TypeOK
  /\ Stamped
  /\ ClosedIsEmpty
  /\ CancellingIsClosed
  /\ KeyMapConsistent
  /\ ForgottenOnlyAfterRetention
  /\ OnceWithinRetention

-----------------------------------------------------------------------------

\* Purging leaves the maps well typed and never points a key at a job that
\* was dropped.
LEMMA PurgeLemma ==
  ASSUME IInv
  PROVE  /\ StoredAfterPurge \subseteq JobIds
         /\ IdemAfterPurge \in [Keys -> JobIds \cup {NoJob}]
         /\ \A k \in Keys : IdemAfterPurge[k] # NoJob =>
              /\ IdemAfterPurge[k] = idem[k]
              /\ IdemAfterPurge[k] \in StoredAfterPurge
              /\ jobs[IdemAfterPurge[k]].key = k
         /\ \A j \in StoredAfterPurge :
              Born(j) /\ (jobs[j].key # NoKey => IdemAfterPurge[jobs[j].key] = j)
         /\ \A j \in stored : j \notin StoredAfterPurge =>
              Done(j) /\ jobs[j].updated + Retention < now
BY JobStoreAssumption
DEF IInv, TypeOK, InferenceJob, KeyMapConsistent, StoredAfterPurge, IdemAfterPurge, Expired

\* A key under which create finds nothing: all jobs it ever had are over.
LEMMA NothingExisting ==
  ASSUME IInv, ~closed, NEW k \in Keys, Existing(k) = NoJob,
         NEW i \in JobIds, Born(i), jobs[i].key = k
  PROVE  Done(i) /\ jobs[i].updated + Retention < now
<1>1. CASE i \notin stored
  BY <1>1 DEF IInv, ForgottenOnlyAfterRetention
<1>2. CASE i \in stored /\ i \notin StoredAfterPurge
  BY <1>2, PurgeLemma
<1>3. CASE i \in StoredAfterPurge
  BY <1>3, PurgeLemma, JobStoreAssumption DEF Existing
<1> QED
  BY <1>1, <1>2, <1>3

-----------------------------------------------------------------------------
(* Each action preserves the invariant.                                    *)

LEMMA InitInv == Init => IInv
<1>1. (CHOOSE p \in Prints : TRUE) \in Prints
  BY JobStoreAssumption
<1>2. Unborn \in InferenceJob
  BY <1>1 DEF Unborn, InferenceJob, Tasks
<1>3. Unborn.task = "unborn" /\ Unborn.created = 0 /\ Unborn.updated = 0
  BY DEF Unborn
<1> SUFFICES ASSUME Init PROVE IInv
  OBVIOUS
<1>4. TypeOK
  BY <1>2 DEF Init, TypeOK
<1>5. \A j \in JobIds : jobs[j].task = "unborn" /\ jobs[j].created = 0 /\ jobs[j].updated = 0
  BY <1>3 DEF Init, Born
<1> QED
  BY <1>4, <1>5
  DEF Init, IInv, Stamped, ClosedIsEmpty, CancellingIsClosed, KeyMapConsistent,
      ForgottenOnlyAfterRetention, OnceWithinRetention, Born

\* create and get without a new job: only the maps shrink.
LEMMA PurgeInv ==
  ASSUME IInv, ~closed, Purge, UNCHANGED <<jobs, now, closed>>
  PROVE  IInv'
<1>1. TypeOK' /\ Stamped' /\ ClosedIsEmpty' /\ CancellingIsClosed' /\ OnceWithinRetention'
  BY PurgeLemma
  DEF IInv, Purge, TypeOK, Stamped, ClosedIsEmpty, CancellingIsClosed,
      OnceWithinRetention, Born, Done
<1>2. KeyMapConsistent'
  BY PurgeLemma DEF Purge, KeyMapConsistent, Born
<1>3. ForgottenOnlyAfterRetention'
  BY PurgeLemma DEF IInv, Purge, ForgottenOnlyAfterRetention, Born, Done
<1> QED
  BY <1>1, <1>2, <1>3 DEF IInv

LEMMA CreateNewInv ==
  ASSUME IInv, NEW j \in JobIds, NEW k \in Keys \cup {NoKey}, NEW p \in Prints,
         CreateNew(j, k, p)
  PROVE  IInv'
<1> USE JobStoreAssumption
<1>1. /\ jobs' = [jobs EXCEPT ![j] = NewJob(k, p)]
      /\ jobs'[j] = NewJob(k, p)
      /\ \A i \in JobIds : i # j => jobs'[i] = jobs[i]
      /\ NewJob(k, p) \in InferenceJob
  BY DEF CreateNew, IInv, TypeOK, NewJob, InferenceJob, Tasks
<1>2. stored' = StoredAfterPurge \cup {j} /\ now' = now /\ ~closed /\ closed' = closed
  BY DEF CreateNew
<1>3. \A key \in Keys : idem'[key] = IF key = k THEN j ELSE IdemAfterPurge[key]
  BY DEF CreateNew
<1>4. j \notin stored /\ ~Born(j)
  BY DEF CreateNew, IInv, KeyMapConsistent
<1>5. TypeOK'
  <2>1. jobs' \in [JobIds -> InferenceJob]
    BY <1>1 DEF IInv, TypeOK
  <2>2. idem' \in [Keys -> JobIds \cup {NoJob}]
    BY PurgeLemma DEF CreateNew
  <2> QED
    BY <2>1, <2>2, <1>2, PurgeLemma DEF IInv, TypeOK
<1>6. Stamped'
  BY <1>1, <1>2 DEF IInv, TypeOK, Stamped, NewJob
<1>7. ClosedIsEmpty' /\ CancellingIsClosed'
  BY <1>1, <1>2 DEF IInv, ClosedIsEmpty, CancellingIsClosed, NewJob
<1>8. KeyMapConsistent'
  <2>1. \A key \in Keys : idem'[key] # NoJob =>
          idem'[key] \in stored' /\ jobs'[idem'[key]].key = key
    BY <1>1, <1>2, <1>3, <1>4, PurgeLemma DEF NewJob, StoredAfterPurge
  <2>2. ASSUME NEW i \in stored'
        PROVE  jobs'[i].task # "unborn" /\ (jobs'[i].key # NoKey => idem'[jobs'[i].key] = i)
    <3>1. CASE i = j
      BY <3>1, <1>1, <1>3 DEF NewJob
    <3>2. CASE i # j
      <4>1. i \in StoredAfterPurge /\ jobs'[i] = jobs[i]
        BY <3>2, <1>1, <1>2, PurgeLemma
      <4>2. ASSUME jobs[i].key # NoKey PROVE jobs[i].key # k
        <5>1. SUFFICES ASSUME jobs[i].key = k PROVE FALSE
          OBVIOUS
        <5>2. k \in Keys
          BY <4>2, <5>1
        <5>3. IdemAfterPurge[k] = i
          BY <4>1, <4>2, <5>1, PurgeLemma
        <5>4. Existing(k) = i /\ i # NoJob
          BY <4>1, <5>2, <5>3, PurgeLemma DEF Existing
        <5> QED
          BY <5>4 DEF CreateNew
      <4>3. jobs[i].key \in Keys \cup {NoKey}
        BY <4>1, PurgeLemma DEF IInv, TypeOK, InferenceJob
      <4> QED
        BY <4>1, <4>2, <4>3, <1>3, PurgeLemma DEF Born
    <3> QED
      BY <3>1, <3>2
  <2> QED
    BY <2>1, <2>2 DEF KeyMapConsistent, Born
<1>9. ForgottenOnlyAfterRetention'
  BY <1>1, <1>2, PurgeLemma DEF IInv, ForgottenOnlyAfterRetention, Born, Done
<1>10. OnceWithinRetention'
  <2> SUFFICES ASSUME NEW a \in JobIds, NEW b \in JobIds, a # b,
                      Born(a)', Born(b)',
                      jobs'[a].key = jobs'[b].key, jobs'[a].key # NoKey
               PROVE  \/ Done(a)' /\ jobs'[a].updated + Retention < jobs'[b].created
                      \/ Done(b)' /\ jobs'[b].updated + Retention < jobs'[a].created
    BY DEF OnceWithinRetention
  <2>1. CASE a # j /\ b # j
    BY <2>1, <1>1 DEF IInv, OnceWithinRetention, Born, Done
  <2>2. ASSUME NEW i \in JobIds, i # j, Born(i)', jobs'[i].key = k, k # NoKey
        PROVE  Done(i)' /\ jobs'[i].updated + Retention < now
    <3>1. jobs'[i] = jobs[i] /\ Born(i) /\ jobs[i].key = k /\ k \in Keys
      BY <2>2, <1>1 DEF Born
    <3>2. Existing(k) = NoJob
      BY DEF CreateNew
    <3>3. Done(i) /\ jobs[i].updated + Retention < now
      BY <1>2, <3>1, <3>2, NothingExisting
    <3> QED
      BY <3>1, <3>3 DEF Done
  <2>3. CASE a = j
    BY <2>2, <2>3, <1>1 DEF NewJob
  <2>4. CASE b = j
    BY <2>2, <2>4, <1>1 DEF NewJob
  <2> QED
    BY <2>1, <2>3, <2>4
<1> QED
  BY <1>5, <1>6, <1>7, <1>8, <1>9, <1>10 DEF IInv

\* A task that ends, or is given its first turn, changes no map.
LEMMA TaskInv ==
  ASSUME IInv, NEW j \in JobIds, Task(j)
  PROVE  IInv'
<1>1. UNCHANGED <<stored, idem, now, closed>>
  BY DEF Task, RunStart, RunReturn, RunRaise, RunCancelled, Settle
<1>2. PICK job \in InferenceJob :
        /\ jobs' = [jobs EXCEPT ![j] = job]
        /\ Born(j) /\ ~Done(j)
        /\ job.task \notin {"unborn", "cancelling"}
        /\ job.key = jobs[j].key /\ job.print = jobs[j].print /\ job.created = jobs[j].created
        /\ job.updated = now \/ job.updated = jobs[j].updated
  <2>1. CASE RunStart(j)
    <3>1. [jobs[j] EXCEPT !.task = "running"] \in InferenceJob
      BY DEF IInv, TypeOK, InferenceJob, Tasks
    <3> QED
      BY <2>1, <3>1 DEF RunStart, IInv, TypeOK, InferenceJob, Tasks, Born, Done
  <2>2. ASSUME NEW t \in {"finished", "cancelled"}, NEW o \in {"none", "result", "failure"},
               Settle(j, t, o), Live(j)
        PROVE  \E job \in InferenceJob :
                 /\ jobs' = [jobs EXCEPT ![j] = job]
                 /\ Born(j) /\ ~Done(j)
                 /\ job.task \notin {"unborn", "cancelling"}
                 /\ job.key = jobs[j].key /\ job.print = jobs[j].print
                 /\ job.created = jobs[j].created
                 /\ job.updated = now \/ job.updated = jobs[j].updated
    <3> DEFINE job == [jobs[j] EXCEPT !.task = t, !.outcome = o, !.updated = now]
    <3>1. job \in InferenceJob
      BY DEF IInv, TypeOK, InferenceJob, Tasks
    <3> WITNESS job \in InferenceJob
    <3> QED
      BY <2>2 DEF Settle, Live, IInv, TypeOK, InferenceJob
  <2>3. CASE RunReturn(j) \/ RunRaise(j) \/ RunCancelled(j)
    BY <2>2, <2>3 DEF RunReturn, RunRaise, RunCancelled, Live, Born, Done
  <2> QED
    BY <2>1, <2>3 DEF Task
<1>3. jobs'[j] = job /\ \A i \in JobIds : i # j => jobs'[i] = jobs[i]
  BY <1>2 DEF IInv, TypeOK
<1>4. TypeOK'
  BY <1>1, <1>2 DEF IInv, TypeOK
<1>5. Stamped'
  BY <1>1, <1>2, <1>3 DEF IInv, TypeOK, InferenceJob, Stamped
<1>6. ClosedIsEmpty' /\ CancellingIsClosed' /\ KeyMapConsistent'
  BY <1>1, <1>2, <1>3, JobStoreAssumption
  DEF IInv, TypeOK, ClosedIsEmpty, CancellingIsClosed, KeyMapConsistent, Born
<1>7. ForgottenOnlyAfterRetention' /\ OnceWithinRetention'
  BY <1>1, <1>2, <1>3 DEF IInv, ForgottenOnlyAfterRetention, OnceWithinRetention, Born, Done
<1> QED
  BY <1>4, <1>5, <1>6, <1>7 DEF IInv

\* Shutdown empties the maps; a job that ends by it keeps its stamps.
LEMMA CancelAllInv ==
  ASSUME IInv, CancelAll
  PROVE  IInv'
<1>1. \A j \in JobIds :
        /\ jobs'[j] \in InferenceJob
        /\ Born(j)' <=> Born(j)
        /\ Done(j) => Done(j)'
        /\ jobs'[j].key = jobs[j].key
        /\ jobs'[j].created = jobs[j].created
        /\ jobs'[j].updated = jobs[j].updated
  BY DEF CancelAll, CancelTask, IInv, TypeOK, InferenceJob, Tasks, Live, Born, Done
<1>2. stored' = {} /\ idem' = [k \in Keys |-> NoJob] /\ now' = now /\ closed' = TRUE
      /\ jobs' \in [JobIds -> InferenceJob]
  BY <1>1 DEF CancelAll
<1>3. TypeOK' /\ Stamped' /\ ClosedIsEmpty' /\ CancellingIsClosed'
  BY <1>1, <1>2 DEF IInv, TypeOK, Stamped, ClosedIsEmpty, CancellingIsClosed
<1>4. KeyMapConsistent' /\ ForgottenOnlyAfterRetention'
  BY <1>2 DEF KeyMapConsistent, ForgottenOnlyAfterRetention
<1>5. OnceWithinRetention'
  BY <1>1 DEF IInv, OnceWithinRetention
<1> QED
  BY <1>3, <1>4, <1>5 DEF IInv

LEMMA TickInv ==
  ASSUME IInv, Tick
  PROVE  IInv'
BY JobStoreAssumption
DEF IInv, Tick, TypeOK, InferenceJob, Stamped, ClosedIsEmpty, CancellingIsClosed,
    KeyMapConsistent, ForgottenOnlyAfterRetention, OnceWithinRetention, Born, Done

LEMMA StepInv == IInv /\ [Next]_vars => IInv'
<1> SUFFICES ASSUME IInv, [Next]_vars PROVE IInv'
  OBVIOUS
<1>1. ASSUME NEW j \in JobIds, NEW k \in Keys \cup {NoKey}, NEW p \in Prints,
             CreateNew(j, k, p) \/ CreateReuse(j, k, p)
      PROVE  IInv'
  BY <1>1, CreateNewInv, PurgeInv DEF CreateReuse
<1>2. ASSUME NEW k \in Keys, NEW p \in Prints, CreateConflict(k, p)
      PROVE  IInv'
  BY <1>2, PurgeInv DEF CreateConflict
<1>3. CASE Get
  BY <1>3, PurgeInv DEF Get
<1>4. ASSUME NEW j \in JobIds, Task(j) PROVE IInv'
  BY <1>4, TaskInv
<1>5. CASE CancelAll
  BY <1>5, CancelAllInv
<1>6. CASE Tick
  BY <1>6, TickInv
<1>7. CASE UNCHANGED vars
  BY <1>7 DEF vars, IInv, TypeOK, Stamped, ClosedIsEmpty, CancellingIsClosed,
              KeyMapConsistent, ForgottenOnlyAfterRetention, OnceWithinRetention, Born, Done
<1> QED
  BY <1>1, <1>2, <1>3, <1>4, <1>5, <1>6, <1>7 DEF Next

-----------------------------------------------------------------------------

\* The registry's variables keep their types and every invariant that the
\* model-checking runs check holds, for all values of the constants.
THEOREM InductiveInvariant == Spec => []IInv
<1>1. Init => IInv
  BY InitInv
<1>2. IInv /\ [Next]_vars => IInv'
  BY StepInv
<1> QED
  BY <1>1, <1>2, PTL DEF Spec

\* Type correctness of the registry.
THEOREM TypeCorrect == Spec => []TypeOK
<1>1. IInv => TypeOK
  BY DEF IInv
<1> QED
  BY <1>1, InductiveInvariant, PTL

\* The two dictionaries of the store always agree.
THEOREM KeyMapsAgree == Spec => []KeyMapConsistent
<1>1. IInv => KeyMapConsistent
  BY DEF IInv
<1> QED
  BY <1>1, InductiveInvariant, PTL

\* No job is forgotten while it runs or within its retention period.
THEOREM KeptForRetention == Spec => []ForgottenOnlyAfterRetention
<1>1. IInv => ForgottenOnlyAfterRetention
  BY DEF IInv
<1> QED
  BY <1>1, InductiveInvariant, PTL

\* A repeated request is not submitted to the provider a second time while
\* its first submission runs or is retained.
THEOREM SubmittedOnce == Spec => []OnceWithinRetention
<1>1. IInv => OnceWithinRetention
  BY DEF IInv
<1> QED
  BY <1>1, InductiveInvariant, PTL

-----------------------------------------------------------------------------
(* The store implements KeyedWork under the mapping SlotOf.                *)

Slot == [k \in Keys |-> SlotOf(k)]

Dropped == {k \in Keys : idem[k] \in Expired}

\* Seen per key, purging forgets the settled work of the dropped keys.
LEMMA PurgeForgets ==
  ASSUME IInv
  PROVE  /\ Dropped \in SUBSET Work!Settled
         /\ \A k \in Keys : Work!Forgotten(Dropped)[k] =
              IF IdemAfterPurge[k] = NoJob THEN Work!Free ELSE Slot[k]
<1>1. Dropped \subseteq Work!Settled
  BY JobStoreAssumption
  DEF IInv, TypeOK, Dropped, Expired, Work!Settled, SlotOf
<1>2. ASSUME NEW k \in Keys
      PROVE  Work!Forgotten(Dropped)[k] =
               IF IdemAfterPurge[k] = NoJob THEN Work!Free ELSE Slot[k]
  <2>1. Work!Forgotten(Dropped)[k] = IF k \in Dropped THEN Work!Free ELSE Slot[k]
    BY DEF Work!Forgotten, Slot
  <2>2. CASE k \in Dropped
    BY <2>1, <2>2 DEF IdemAfterPurge, Dropped
  <2>3. CASE k \notin Dropped /\ idem[k] # NoJob
    BY <2>1, <2>3 DEF IdemAfterPurge, Dropped
  <2>4. CASE k \notin Dropped /\ idem[k] = NoJob
    BY <2>1, <2>4 DEF IdemAfterPurge, Dropped, Slot, SlotOf, Work!Free, NoPrint
  <2> QED
    BY <2>2, <2>3, <2>4
<1> QED
  BY <1>1, <1>2

LEMMA PurgeRefines ==
  ASSUME IInv, ~closed, Purge, UNCHANGED <<jobs, now, closed>>
  PROVE  Work!Forget
<1>1. ASSUME NEW k \in Keys PROVE Slot'[k] = Work!Forgotten(Dropped)[k]
  <2>1. CASE IdemAfterPurge[k] = NoJob
    BY <2>1, PurgeForgets DEF Purge, Slot, SlotOf, Work!Free, NoPrint
  <2>2. CASE IdemAfterPurge[k] # NoJob
    BY <2>2, PurgeForgets, PurgeLemma DEF Purge, Slot, SlotOf, Done
  <2> QED
    BY <2>1, <2>2
<1>2. Slot' = Work!Forgotten(Dropped)
  BY <1>1 DEF Slot, Work!Forgotten
<1> QED
  BY <1>2, PurgeForgets DEF Work!Forget, Slot

LEMMA CreateNewRefines ==
  ASSUME IInv, NEW j \in JobIds, NEW k \in Keys \cup {NoKey}, NEW p \in Prints,
         CreateNew(j, k, p)
  PROVE  Work!Forget \/ Work!Begin
<1> USE JobStoreAssumption
<1>1. /\ jobs'[j] = NewJob(k, p)
      /\ \A i \in JobIds : i # j => jobs'[i] = jobs[i]
      /\ j \notin StoredAfterPurge
      /\ ~closed /\ closed' = closed
  BY DEF CreateNew, IInv, TypeOK, KeyMapConsistent, StoredAfterPurge
<1>2. ASSUME NEW key \in Keys, key # k
      PROVE  Slot'[key] = Work!Forgotten(Dropped)[key]
  <2>1. idem'[key] = IdemAfterPurge[key]
    BY <1>2 DEF CreateNew
  <2>2. CASE IdemAfterPurge[key] = NoJob
    BY <2>1, <2>2, PurgeForgets DEF Slot, SlotOf, Work!Free, NoPrint
  <2>3. CASE IdemAfterPurge[key] # NoJob
    <3>1. /\ idem'[key] = idem[key] /\ idem[key] # NoJob
          /\ jobs'[idem[key]] = jobs[idem[key]]
      BY <1>1, <2>1, <2>3, PurgeLemma
    <3>2. SlotOf(key)' = SlotOf(key)
      BY <3>1 DEF SlotOf, Done
    <3> QED
      BY <2>3, <3>2, PurgeForgets DEF Slot
  <2> QED
    BY <2>2, <2>3
<1>3. CASE k \notin Keys
  <2>1. Slot' = Work!Forgotten(Dropped)
    BY <1>2, <1>3 DEF Slot, Work!Forgotten
  <2> QED
    BY <1>1, <2>1, PurgeForgets DEF Work!Forget, Slot
<1>4. CASE k \in Keys
  <2>1. IdemAfterPurge[k] = NoJob
    BY <1>4, PurgeLemma DEF CreateNew, Existing
  <2>2. Work!Forgotten(Dropped)[k].phase = "free"
    BY <1>4, <2>1, PurgeForgets DEF Work!Free
  <2>3. Slot'[k] = Work!Busy(p)
    <3>1. idem'[k] = j /\ j # NoJob
      BY <1>4 DEF CreateNew
    <3> QED
      BY <1>1, <1>4, <3>1 DEF Slot, SlotOf, Done, NewJob, Work!Busy
  <2>4. Slot' = [Work!Forgotten(Dropped) EXCEPT ![k] = Work!Busy(p)]
    BY <1>2, <1>4, <2>3 DEF Slot, Work!Forgotten
  <2> QED
    BY <1>1, <1>4, <2>2, <2>4, PurgeForgets DEF Work!Begin, Slot
<1> QED
  BY <1>3, <1>4

LEMMA TaskRefines ==
  ASSUME IInv, NEW j \in JobIds, Task(j)
  PROVE  Work!Settle \/ UNCHANGED Work!workVars
<1> USE JobStoreAssumption
<1>1. UNCHANGED <<stored, idem, now, closed>> /\ \A i \in JobIds : i # j => jobs'[i] = jobs[i]
  BY DEF Task, RunStart, RunReturn, RunRaise, RunCancelled, Settle, IInv, TypeOK
<1>2. ASSUME NEW k \in Keys, idem[k] # j PROVE Slot'[k] = Slot[k]
  <2>1. idem[k] # NoJob => idem[k] \in JobIds /\ jobs'[idem[k]] = jobs[idem[k]]
    BY <1>1, <1>2 DEF IInv, TypeOK
  <2>2. SlotOf(k)' = SlotOf(k)
    BY <1>1, <2>1 DEF SlotOf, Done
  <2> QED
    BY <2>2 DEF Slot
<1>3. CASE \A k \in Keys : idem[k] # j
  BY <1>1, <1>2, <1>3 DEF Slot, Work!workVars
<1>4. ASSUME NEW k \in Keys, idem[k] = j PROVE Work!Settle \/ UNCHANGED Work!workVars
  <2>1. \A key \in Keys : key # k => idem[key] # j
    BY <1>4 DEF IInv, KeyMapConsistent
  <2>2. ~closed /\ jobs[j].task # "cancelling"
    BY <1>4 DEF IInv, KeyMapConsistent, ClosedIsEmpty, CancellingIsClosed
  <2>3. CASE RunStart(j)
    <3>1. jobs'[j] = [jobs[j] EXCEPT !.task = "running"] /\ jobs[j].task = "pending"
      BY <2>3 DEF RunStart, IInv, TypeOK
    <3>2. /\ Done(j)' = Done(j) /\ jobs'[j].print = jobs[j].print
          /\ jobs'[j].outcome = jobs[j].outcome
      BY <3>1 DEF Done, IInv, TypeOK, InferenceJob
    <3>3. SlotOf(k)' = SlotOf(k)
      BY <1>1, <1>4, <3>2 DEF SlotOf, Done
    <3>4. Slot' = Slot
      BY <1>2, <2>1, <3>3 DEF Slot
    <3> QED
      BY <1>1, <3>4 DEF Work!workVars, Slot
  <2>4. CASE RunReturn(j) \/ RunRaise(j)
    <3>1. PICK o \in {"result", "failure"} :
            jobs[j].task = "running" /\ Settle(j, "finished", o)
      BY <2>2, <2>4 DEF RunReturn, RunRaise
    <3>2. jobs'[j] = [jobs[j] EXCEPT !.task = "finished", !.outcome = o, !.updated = now]
      BY <3>1 DEF Settle, IInv, TypeOK
    <3>3. /\ ~Done(j) /\ Done(j)'
          /\ jobs'[j].outcome = o /\ jobs'[j].print = jobs[j].print
      BY <3>1, <3>2 DEF Done, IInv, TypeOK, InferenceJob
    <3>4. Slot[k] = [phase |-> "busy", print |-> jobs[j].print, outcome |-> jobs[j].outcome]
      BY <1>4, <3>3 DEF Slot, SlotOf
    <3>5. Slot'[k] = Work!Over(jobs[j].print, o)
      <4>1. idem'[k] = j /\ j # NoJob
        BY <1>1, <1>4
      <4> QED
        BY <3>3, <4>1 DEF Slot, SlotOf, Done, Work!Over
    <3>6. Slot' = [Slot EXCEPT ![k] = Work!Over(Slot[k].print, o)]
      <4>1. Slot[k].print = jobs[j].print
        BY <3>4
      <4>2. \A key \in Keys : Slot'[key] = IF key = k THEN Work!Over(jobs[j].print, o) ELSE Slot[key]
        BY <1>2, <2>1, <3>5
      <4> QED
        BY <4>1, <4>2 DEF Slot
    <3>7. Slot[k].phase = "busy" /\ UNCHANGED closed
      BY <1>1, <3>4
    <3> HIDE DEF SlotOf
    <3> QED
      BY <3>6, <3>7 DEF Work!Settle, Slot
  <2>5. CASE RunCancelled(j)
    BY <2>2, <2>5 DEF RunCancelled
  <2> QED
    BY <2>3, <2>4, <2>5 DEF Task
<1> QED
  BY <1>3, <1>4

LEMMA CancelAllRefines ==
  ASSUME IInv, CancelAll
  PROVE  Work!Close
BY DEF CancelAll, Work!Close, SlotOf, Work!Free, NoPrint

LEMMA StepRefines == IInv /\ [Next]_vars => [Work!Next]_Work!workVars
<1> SUFFICES ASSUME IInv, [Next]_vars PROVE Work!Next \/ UNCHANGED Work!workVars
  OBVIOUS
<1> USE DEF Work!Next
<1>1. ASSUME NEW j \in JobIds, NEW k \in Keys \cup {NoKey}, NEW p \in Prints,
             CreateNew(j, k, p) \/ CreateReuse(j, k, p)
      PROVE  Work!Next
  BY <1>1, CreateNewRefines, PurgeRefines DEF CreateReuse
<1>2. ASSUME NEW k \in Keys, NEW p \in Prints, CreateConflict(k, p)
      PROVE  Work!Next
  BY <1>2, PurgeRefines DEF CreateConflict
<1>3. CASE Get
  BY <1>3, PurgeRefines DEF Get
<1>4. ASSUME NEW j \in JobIds, Task(j) PROVE Work!Next \/ UNCHANGED Work!workVars
  BY <1>4, TaskRefines
<1>5. CASE CancelAll
  BY <1>5, CancelAllRefines
<1>6. CASE Tick \/ UNCHANGED vars
  BY <1>6 DEF Tick, vars, Work!workVars, SlotOf, Done
<1> QED
  BY <1>1, <1>2, <1>3, <1>4, <1>5, <1>6 DEF Next

\* For every number of jobs and keys, the registry implements KeyedWork: the
\* work under a key is begun once, settles once, keeps its payload and answer
\* while it is known, and is forgotten only when settled.
THEOREM Refinement == Spec => ImplementsKeyedWork
<1>1. Init => Work!Init
  BY DEF Init, Work!Init, SlotOf, Work!Free, NoPrint
<1>2. IInv /\ [Next]_vars => [Work!Next]_Work!workVars
  BY StepRefines
<1> QED
  BY <1>1, <1>2, InductiveInvariant, PTL DEF Spec, ImplementsKeyedWork, Work!Spec

=============================================================================
