------------------------------ MODULE JobStore ------------------------------
(***************************************************************************)
(* The gateway's inference-job registry (src/wmadapter/jobs.py).           *)
(*                                                                         *)
(* A chat completion runs as an asyncio task that outlives the HTTP        *)
(* request which created it.  The store finds the task again by job id and *)
(* by the client's Idempotency-Key, forgets finished jobs a retention      *)
(* period after they ended, and cancels what still runs at shutdown.       *)
(*                                                                         *)
(* Everything runs on one event loop: create, get and cancel_all contain   *)
(* no await, so each is one step; a task advances between them.            *)
(***************************************************************************)
EXTENDS Integers, FiniteSets

CONSTANTS
  JobIds,     \* request ids handed out by the gateway (uuid4, never reused)
  NoJob,      \* absence of a job
  Keys,       \* Idempotency-Key header values
  NoKey,      \* the request carries no key
  Prints,     \* fingerprints of request payloads
  Retention,  \* retention_seconds, in clock ticks
  MaxTime     \* bound on the clock

ASSUME JobStoreAssumption ==
  /\ NoJob \notin JobIds
  /\ NoKey \notin Keys
  /\ Prints # {}
  /\ Retention \in Nat
  /\ MaxTime \in Nat

VARIABLES
  jobs,       \* every InferenceJob object, stored or only referenced
  stored,     \* ids in self._jobs
  idem,       \* self._idempotency; NoJob where the dict has no entry
  now,        \* time.time()
  closed      \* the lifespan has run cancel_all

vars == <<jobs, stored, idem, now, closed>>

Tasks    == {"unborn", "pending", "running", "cancelling", "finished", "cancelled"}

InferenceJob == [task    : Tasks,
                 outcome : {"none", "result", "failure"},
                 key     : Keys \cup {NoKey},
                 print   : Prints,
                 created : Nat,
                 updated : Nat]

TypeOK ==
  /\ jobs \in [JobIds -> InferenceJob]
  /\ stored \subseteq JobIds
  /\ idem \in [Keys -> JobIds \cup {NoJob}]
  /\ now \in Nat
  /\ closed \in BOOLEAN

-----------------------------------------------------------------------------
(* Properties of a job object.                                             *)

Born(j) == jobs[j].task # "unborn"
Done(j) == jobs[j].task \in {"finished", "cancelled"}
Live(j) == Born(j) /\ ~Done(j)

-----------------------------------------------------------------------------
(* _purge runs at the start of create and of get, so every action that     *)
(* models one of them works on the maps as purging leaves them.            *)

\* Mutants: retention counted from creation; unfinished jobs expire too.
ExpiredSinceCreation == {j \in stored : Done(j) /\ jobs[j].created + Retention < now}
ExpiredUnfinished == {j \in stored : jobs[j].updated + Retention < now}

Expired == {j \in stored : Done(j) /\ jobs[j].updated + Retention < now}

StoredAfterPurge == stored \ Expired

\* Mutant: purging leaves the keys of the jobs it drops.
KeysNotPurged == idem

IdemAfterPurge == [k \in Keys |-> IF idem[k] \in Expired THEN NoJob ELSE idem[k]]

Purge == stored' = StoredAfterPurge /\ idem' = IdemAfterPurge

\* Mutant: only work in progress is found by its key.
ExistingUnfinished(k) ==
  IF k # NoKey /\ IdemAfterPurge[k] \in StoredAfterPurge /\ ~Done(IdemAfterPurge[k])
  THEN IdemAfterPurge[k] ELSE NoJob

\* The stored job a key leads to once purging is done.
Existing(k) == IF k = NoKey THEN NoJob
               ELSE IF IdemAfterPurge[k] \in StoredAfterPurge THEN IdemAfterPurge[k]
               ELSE NoJob

-----------------------------------------------------------------------------

NewJob(k, p) == [task |-> "pending", outcome |-> "none", key |-> k, print |-> p,
                 created |-> now, updated |-> now]

\* create: no stored job under the key (a stale key is overwritten), so a
\* new task is scheduled and both maps record it.
CreateNew(j, k, p) ==
  /\ ~closed
  /\ ~Born(j)
  /\ Existing(k) = NoJob
  /\ jobs' = [jobs EXCEPT ![j] = NewJob(k, p)]
  /\ stored' = StoredAfterPurge \cup {j}
  /\ idem' = [key \in Keys |-> IF key = k THEN j ELSE IdemAfterPurge[key]]
  /\ UNCHANGED <<now, closed>>

\* Mutant: the payload is not compared.
ReuseAnyPrint(j, k, p) ==
  /\ ~closed
  /\ j = Existing(k)
  /\ j # NoJob
  /\ Purge
  /\ UNCHANGED <<jobs, now, closed>>

\* create: the key leads to job j with the same payload, which is returned.
CreateReuse(j, k, p) ==
  /\ ~closed
  /\ j = Existing(k)
  /\ j # NoJob
  /\ jobs[j].print = p
  /\ Purge
  /\ UNCHANGED <<jobs, now, closed>>

\* create: the key was used for another payload; JobIdempotencyConflict.
CreateConflict(k, p) ==
  /\ ~closed
  /\ Existing(k) # NoJob
  /\ jobs[Existing(k)].print # p
  /\ Purge
  /\ UNCHANGED <<jobs, now, closed>>

\* get: look a job id up, after purging.
Get ==
  /\ ~closed
  /\ Purge
  /\ UNCHANGED <<jobs, now, closed>>

\* The loop gives the task its first turn: the factory starts provider work.
RunStart(j) ==
  /\ jobs[j].task = "pending"
  /\ jobs' = [jobs EXCEPT ![j].task = "running"]
  /\ UNCHANGED <<stored, idem, now, closed>>

\* Mutant: the state of the task is kept as the outcome.
SettleAsTask(j, task, outcome) ==
  /\ jobs' = [jobs EXCEPT ![j].task = task, ![j].outcome = task, ![j].updated = now]
  /\ UNCHANGED <<stored, idem, now, closed>>

Settle(j, task, outcome) ==
  /\ jobs' = [jobs EXCEPT ![j].task = task, ![j].outcome = outcome, ![j].updated = now]
  /\ UNCHANGED <<stored, idem, now, closed>>

\* _run: the factory returned.
RunReturn(j) ==
  /\ jobs[j].task = "running"
  /\ Settle(j, "finished", "result")

\* _run: the factory raised, also while it was being cancelled.
RunRaise(j) ==
  /\ jobs[j].task \in {"running", "cancelling"}
  /\ Settle(j, "finished", "failure")

\* _run: CancelledError passes through; neither result nor error is set.
RunCancelled(j) ==
  /\ jobs[j].task = "cancelling"
  /\ Settle(j, "cancelled", "none")

\* task.cancel(): a task that never ran ends without entering _run, one that
\* runs gets CancelledError at the await where it is suspended.
CancelTask(task) == IF task = "pending" THEN "cancelled" ELSE "cancelling"

\* lifespan shutdown: cancel every stored unfinished task, forget all jobs.
CancelAll ==
  /\ ~closed
  /\ closed' = TRUE
  /\ jobs' = [j \in JobIds |-> IF j \in stored /\ Live(j)
                               THEN [jobs[j] EXCEPT !.task = CancelTask(@)] ELSE jobs[j]]
  /\ stored' = {}
  /\ idem' = [k \in Keys |-> NoJob]
  /\ UNCHANGED now

Tick ==
  /\ now < MaxTime
  /\ now' = now + 1
  /\ UNCHANGED <<jobs, stored, idem, closed>>

-----------------------------------------------------------------------------

Unborn == [task |-> "unborn", outcome |-> "none", key |-> NoKey,
           print |-> CHOOSE p \in Prints : TRUE, created |-> 0, updated |-> 0]

Init ==
  /\ jobs = [j \in JobIds |-> Unborn]
  /\ stored = {}
  /\ idem = [k \in Keys |-> NoJob]
  /\ now = 0
  /\ closed = FALSE

Task(j) == RunStart(j) \/ RunReturn(j) \/ RunRaise(j) \/ RunCancelled(j)

Next ==
  \/ \E j \in JobIds, k \in Keys \cup {NoKey}, p \in Prints :
       CreateNew(j, k, p) \/ CreateReuse(j, k, p)
  \/ \E k \in Keys, p \in Prints : CreateConflict(k, p)
  \/ Get
  \/ \E j \in JobIds : Task(j)
  \/ CancelAll
  \/ Tick

Spec == Init /\ [][Next]_vars

-----------------------------------------------------------------------------
(* What the registry promises.                                             *)

\* The two dictionaries agree: a key leads to the stored job created under
\* it, and a stored job created under a key is found by that key.  Deleting
\* from one map and not from the other (purge, reuse of a stale key) breaks it.
KeyMapConsistent ==
  /\ \A k \in Keys : idem[k] # NoJob =>
       idem[k] \in stored /\ jobs[idem[k]].key = k
  /\ \A j \in stored : Born(j) /\ (jobs[j].key # NoKey => idem[jobs[j].key] = j)

\* Until shutdown a job can be polled from its creation, while it runs however
\* long that takes, and through the retention period after it ended.
ForgottenOnlyAfterRetention ==
  ~closed => \A j \in JobIds : Born(j) /\ j \notin stored =>
                Done(j) /\ jobs[j].updated + Retention < now

\* A request repeated under its key is not submitted again: of two jobs with
\* one key, the retention period of one was over when the other was created.
OnceWithinRetention ==
  \A i, j \in JobIds :
    i # j /\ Born(i) /\ Born(j) /\ jobs[i].key = jobs[j].key /\ jobs[i].key # NoKey =>
      \/ Done(i) /\ jobs[i].updated + Retention < jobs[j].created
      \/ Done(j) /\ jobs[j].updated + Retention < jobs[i].created

-----------------------------------------------------------------------------
(* The registry implements KeyedWork: seen through one key it is a single  *)
(* piece of work that is begun, settled and forgotten, in that order.      *)

NoPrint == NoKey

SlotOf(k) ==
  IF idem[k] = NoJob THEN [phase |-> "free", print |-> NoPrint, outcome |-> "none"]
  ELSE [phase   |-> IF Done(idem[k]) THEN "settled" ELSE "busy",
        print   |-> jobs[idem[k]].print,
        outcome |-> jobs[idem[k]].outcome]

Work == INSTANCE KeyedWork WITH
          slot <- [k \in Keys |-> SlotOf(k)],
          open <- ~closed,
          Outcomes <- {"result", "failure"}

\* Every behaviour of the store, seen per key, is one KeyedWork allows: work
\* in progress is never replaced, re-keyed or forgotten, an answer never
\* changes while it is kept, and nothing begins after shutdown.
ImplementsKeyedWork == Work!Spec

=============================================================================
