----------------------- MODULE ChatCompletionsProofs ------------------------
(***************************************************************************)
(* Proofs about the chat-completion routes, for any requests, keys,        *)
(* payloads and any retention period.  Every step of the routes is a step  *)
(* of the job store, so its invariant carries over; what is added relates  *)
(* a request to the job its handler holds on to.  What the store promises  *)
(* the routes keep, and requests and jobs come nearer to their end.        *)
(***************************************************************************)
EXTENDS ChatCompletions, JobStoreProofs

Reported == {"result", "error"}

\* A request as it may be beside the jobs js at time t.  It is
\* answered as it ends.  Whoever waits, polls or was told of a job has one, and
\* it is the work of that request; what was reported is how it ended, and it was
\* gone only when its time was up.
Good(q, js, t) ==
  /\ q \in Request
  /\ q.pc # "ended" => q.answer = "none"
  /\ q.job = NoJob => /\ q.pc \notin {"waiting", "streaming", "polling"}
                      /\ q.answer \notin Reported \cup {"still_processing", "gone"}
  /\ q.job # NoJob => /\ js[q.job].task # "unborn"
                      /\ js[q.job].key = q.key /\ js[q.job].print = q.print
  /\ q.answer \in Reported =>
       /\ js[q.job].task \in {"finished", "cancelled"}
       /\ q.answer = "result" <=> js[q.job].outcome = "result" /\ q.job \notin Oversized
  /\ q.answer = "gone" => /\ js[q.job].task \in {"finished", "cancelled"}
                          /\ js[q.job].updated + Retention < t

RequestsGood ==
  /\ req \in [Requests -> Request]
  /\ \A r \in Requests : Good(req[r], jobs, now)

ChatInv == IInv /\ RequestsGood /\ CancelledOnlyAtShutdown

\* A request that is given its answer.
Ended(q, a) == [q EXCEPT !.pc = "ended", !.answer = a]

-----------------------------------------------------------------------------
(* What a step of the store does to jobs that exist.                       *)

\* Work is never taken back, re-keyed or done again.
Onward ==
  \A j \in JobIds :
    /\ Born(j) => /\ jobs'[j].task # "unborn"
                  /\ jobs'[j].key = jobs[j].key /\ jobs'[j].print = jobs[j].print
    /\ Done(j) => jobs'[j] = jobs[j]

\* A task is cancelled by shutdown only.
CancelsLawfully ==
  \A j \in JobIds :
    jobs'[j].task \in {"cancelling", "cancelled"} =>
      closed' \/ jobs[j].task \in {"cancelling", "cancelled"}

LEMMA CreateNewOnward ==
  ASSUME IInv, NEW j \in JobIds, NEW k, NEW p, CreateNew(j, k, p)
  PROVE  Onward /\ CancelsLawfully /\ now' = now /\ closed' = closed
BY DEF IInv, TypeOK, CreateNew, NewJob, Onward, CancelsLawfully, Born, Done

LEMMA TaskOnward ==
  ASSUME IInv, NEW j \in JobIds, Task(j)
  PROVE  Onward /\ CancelsLawfully /\ now' = now /\ closed' = closed
<1>1. CASE RunStart(j)
  BY <1>1 DEF RunStart, IInv, TypeOK, InferenceJob, Onward, CancelsLawfully, Born, Done
<1>2. CASE RunReturn(j)
  BY <1>2 DEF RunReturn, Settle, IInv, TypeOK, InferenceJob, Onward, CancelsLawfully, Born, Done
<1>3. CASE RunRaise(j)
  BY <1>3 DEF RunRaise, Settle, IInv, TypeOK, InferenceJob, Onward, CancelsLawfully, Born, Done
<1>4. CASE RunCancelled(j)
  BY <1>4 DEF RunCancelled, Settle, IInv, TypeOK, InferenceJob, Onward, CancelsLawfully, Born,
              Done
<1>. QED  BY <1>1, <1>2, <1>3, <1>4 DEF Task

LEMMA CancelAllOnward ==
  ASSUME IInv, CancelAll
  PROVE  Onward /\ CancelsLawfully /\ now' = now /\ closed'
<1>1. \A j \in JobIds :
        /\ jobs'[j].key = jobs[j].key /\ jobs'[j].print = jobs[j].print
        /\ Born(j) => jobs'[j].task # "unborn"
        /\ Done(j) => jobs'[j] = jobs[j]
  BY DEF CancelAll, CancelTask, IInv, TypeOK, InferenceJob, Live, Born, Done
<1>. QED  BY <1>1 DEF CancelAll, Onward, CancelsLawfully

LEMMA StandsStill ==
  ASSUME jobs' = jobs
  PROVE  Onward /\ CancelsLawfully
BY DEF Onward, CancelsLawfully, Born

\* A request that was as it should be still is when work has gone on.
LEMMA GoodStays ==
  ASSUME TypeOK, Onward, now' \in Nat, now <= now', NEW q, Good(q, jobs, now)
  PROVE  Good(q, jobs', now')
<1>1. CASE q.job = NoJob
  BY <1>1 DEF Good, Reported
<1>2. CASE q.job # NoJob
  <2>1. q.job \in JobIds
    BY <1>2 DEF Good, Request
  <2>2. /\ jobs'[q.job].task # "unborn"
        /\ jobs'[q.job].key = q.key /\ jobs'[q.job].print = q.print
    BY <1>2, <2>1 DEF Good, Onward, Born
  <2>3. q.answer \in Reported \cup {"gone"} => jobs'[q.job] = jobs[q.job]
    BY <2>1 DEF Good, Onward, Done
  <2>4. q.answer = "gone" => jobs[q.job].updated + Retention < now'
    BY <2>1, JobStoreAssumption DEF Good, TypeOK, InferenceJob
  <2>. QED  BY <1>2, <2>2, <2>3, <2>4 DEF Good
<1>. QED  BY <1>1, <1>2

\* The invariant survives a step that brings one request from good to good.
LEMMA OneRequest ==
  ASSUME ChatInv, IInv', Onward, CancelsLawfully, now <= now', closed => closed',
         NEW r \in Requests, NEW q, Good(q, jobs', now'), req' = [req EXCEPT ![r] = q]
  PROVE  ChatInv'
<1>1. \A s \in Requests : s # r => Good(req[s], jobs', now')
  BY GoodStays DEF ChatInv, IInv, RequestsGood, TypeOK
<1>2. RequestsGood'
  BY <1>1 DEF ChatInv, RequestsGood, Good
<1>3. CancelledOnlyAtShutdown'
  BY DEF ChatInv, CancelledOnlyAtShutdown, CancelsLawfully
<1>. QED  BY <1>2, <1>3 DEF ChatInv

\* And one that leaves the requests alone.
LEMMA NoRequest ==
  ASSUME ChatInv, IInv', Onward, CancelsLawfully, now <= now', closed => closed', req' = req
  PROVE  ChatInv'
<1>1. RequestsGood'
  BY GoodStays DEF ChatInv, IInv, RequestsGood, TypeOK
<1>2. CancelledOnlyAtShutdown'
  BY DEF ChatInv, CancelledOnlyAtShutdown, CancelsLawfully
<1>. QED  BY <1>1, <1>2 DEF ChatInv

-----------------------------------------------------------------------------
(* The actions of a request.                                               *)

LEMMA ChatInitInv == ChatInit => ChatInv
<1>. SUFFICES ASSUME ChatInit PROVE ChatInv
  OBVIOUS
<1>1. (CHOOSE p \in Prints : TRUE) \in Prints
  BY JobStoreAssumption
<1>2. RequestsGood
  BY <1>1 DEF ChatInit, RequestsGood, Good, Request, Pcs, Modes, Answers, Reported
<1>3. CancelledOnlyAtShutdown
  BY DEF ChatInit, Init, Unborn, CancelledOnlyAtShutdown
<1>. QED  BY <1>2, <1>3, InitInv DEF ChatInit, ChatInv

\* The jobs stand still: only the request changes.
LEMMA QuietStep ==
  ASSUME ChatInv, IInv', UNCHANGED <<jobs, now, closed>>, NEW r \in Requests,
         NEW q, Good(q, jobs, now), req' = [req EXCEPT ![r] = q]
  PROVE  ChatInv'
<1>1. now <= now' /\ (closed => closed')
  BY DEF ChatInv, IInv, TypeOK
<1>2. Good(q, jobs', now')
  OBVIOUS
<1>3. Onward /\ CancelsLawfully
  BY StandsStill
<1>. QED  BY <1>1, <1>2, <1>3, OneRequest

LEMMA StoreIdle ==
  ASSUME ChatInv, UNCHANGED vars
  PROVE  IInv' /\ UNCHANGED <<jobs, now, closed>>
BY StepInv DEF ChatInv, vars

\* What a handler or a poll reports of a job that is done.
LEMMA FinalIsGood ==
  ASSUME ChatInv, NEW q, Good(q, jobs, now), q.job # NoJob, Done(q.job)
  PROVE  Good(Ended(q, FinalAnswer(q.job)), jobs, now)
<1>1. q.job \in JobIds /\ jobs[q.job].outcome \in {"none", "result", "failure"}
  BY DEF Good, Request, ChatInv, IInv, TypeOK, InferenceJob
<1>2. /\ FinalAnswer(q.job) \in Answers \ {"gone", "still_processing"}
      /\ FinalAnswer(q.job) = "result" <=> jobs[q.job].outcome = "result" /\ q.job \notin Oversized
  BY <1>1 DEF FinalAnswer, Answers
<1>. QED  BY <1>1, <1>2 DEF Ended, Good, Request, Pcs, Done, Reported

\* An answer that says nothing of the job may always be given.
LEMMA PlainIsGood ==
  ASSUME NEW q, Good(q, jobs, now),
         NEW a \in Answers \ (Reported \cup {"gone"}), a = "still_processing" => q.job # NoJob
  PROVE  Good(Ended(q, a), jobs, now)
BY DEF Ended, Good, Request, Pcs

LEMMA EndInv ==
  ASSUME ChatInv, IInv', UNCHANGED <<jobs, now, closed>>, NEW r \in Requests,
         NEW a, End(r, a), Good(Ended(req[r], a), jobs, now)
  PROVE  ChatInv'
<1>1. req' = [req EXCEPT ![r] = Ended(req[r], a)]
  BY DEF End, Ended, ChatInv, RequestsGood, Request
<1>. QED  BY <1>1, QuietStep

LEMMA ArriveInv ==
  ASSUME ChatInv, NEW r \in Requests, Arrive(r)
  PROVE  ChatInv'
<1>1. PICK m \in Modes, k \in Keys \cup {NoKey}, p \in Prints :
        req' = [req EXCEPT ![r] = [pc |-> "checking", mode |-> m, key |-> k, print |-> p,
                                   job |-> NoJob, answer |-> "none"]]
  BY DEF Arrive
<1>. DEFINE q == [pc |-> "checking", mode |-> m, key |-> k, print |-> p,
                  job |-> NoJob, answer |-> "none"]
<1>2. Good(q, jobs, now)
  BY DEF Good, Request, Pcs, Answers, Reported
<1>. QED  BY <1>1, <1>2, QuietStep, StoreIdle DEF Arrive

\* The answers for which the store is not asked.
LEMMA PlainEnds ==
  ASSUME ChatInv, NEW r \in Requests, RejectNotReady(r) \/ Watchdog(r) \/ Disconnect(r)
  PROVE  ChatInv'
<1>1. PICK a \in {"not_ready", "still_processing", "disconnected"} :
        End(r, a) /\ (a = "still_processing" => req[r].pc = "streaming")
  BY DEF RejectNotReady, Watchdog, Disconnect
<1>2. Good(req[r], jobs, now) /\ (req[r].pc = "streaming" => req[r].job # NoJob)
  BY DEF ChatInv, RequestsGood, Good
<1>3. a \in Answers \ (Reported \cup {"gone"})
  BY DEF Answers, Reported
<1>4. Good(Ended(req[r], a), jobs, now)
  BY <1>1, <1>2, <1>3, PlainIsGood
<1>. QED
  BY <1>1, <1>4, EndInv, StoreIdle DEF RejectNotReady, Watchdog, Disconnect

\* The handler resumes: the job is done.
LEMMA AnswerInv ==
  ASSUME ChatInv, NEW r \in Requests, AnswerWait(r) \/ AnswerStream(r)
  PROVE  ChatInv'
<1>1. Good(req[r], jobs, now) /\ req[r].job # NoJob /\ Done(req[r].job) /\ UNCHANGED vars
  BY DEF ChatInv, RequestsGood, Good, AnswerWait, AnswerStream
<1>2. CASE End(r, FinalAnswer(req[r].job))
  BY <1>1, <1>2, FinalIsGood, EndInv, StoreIdle
<1>3. CASE End(r, "still_processing")
  BY <1>1, <1>3, PlainIsGood, EndInv, StoreIdle DEF Answers, Reported
<1>. QED  BY <1>2, <1>3 DEF AnswerWait, AnswerStream

-----------------------------------------------------------------------------
(* The actions that consult the store.                                     *)

LEMMA StoreStays ==
  ASSUME ChatInv, ~closed, Purge, UNCHANGED <<jobs, now, closed>>
  PROVE  IInv' /\ Onward /\ CancelsLawfully
BY PurgeInv, StandsStill DEF ChatInv

LEMMA PollInv ==
  ASSUME ChatInv, NEW r \in Requests, Poll(r)
  PROVE  ChatInv'
<1>. DEFINE j == req[r].job
<1>1. /\ Good(req[r], jobs, now) /\ req[r].job # NoJob /\ req[r].job \in JobIds
      /\ UNCHANGED <<jobs, now, closed>> /\ now \in Nat
  BY DEF ChatInv, RequestsGood, Good, Request, IInv, TypeOK, Poll, Get
<1>2. IInv' /\ Onward /\ CancelsLawfully
  BY StoreStays DEF Poll, Get
<1>3. CASE End(r, "gone") /\ j \notin StoredAfterPurge
  <2>1. Born(j)
    BY <1>1 DEF Good, Born
  <2>2. Done(j) /\ jobs[j].updated + Retention < now
    BY <1>1, <1>3, <2>1, PurgeLemma DEF ChatInv, IInv, ForgottenOnlyAfterRetention, Poll, Get
  <2>3. Good(Ended(req[r], "gone"), jobs, now)
    BY <1>1, <2>2 DEF Ended, Good, Request, Pcs, Answers, Reported, Done
  <2>. QED  BY <1>1, <1>2, <1>3, <2>3, EndInv
<1>4. CASE End(r, FinalAnswer(j)) /\ Done(j)
  BY <1>1, <1>2, <1>4, FinalIsGood, EndInv
<1>5. CASE req' = req
  BY <1>1, <1>2, <1>5, NoRequest
<1>. QED  BY <1>3, <1>4, <1>5 DEF Poll

\* The handler goes on with the job it was given, whether new or found by its
\* key: the work is that of the request.
LEMMA AttachInv ==
  ASSUME ChatInv, IInv', Onward, CancelsLawfully, now' = now, closed' = closed,
         NEW r \in Requests, req[r].pc = "checking", NEW j \in JobIds, Attach(r, j),
         jobs'[j].task # "unborn",
         jobs'[j].key = req[r].key, jobs'[j].print = req[r].print
  PROVE  ChatInv'
<1>1. now \in Nat /\ Good(req[r], jobs, now) /\ j # NoJob
  BY JobStoreAssumption DEF ChatInv, IInv, TypeOK, RequestsGood
<1>. DEFINE q(pc, a) == [req[r] EXCEPT !.job = j, !.pc = pc, !.answer = a]
<1>2. PICK pc \in {"waiting", "streaming", "polling", "ended"}, a \in Answers :
        /\ req' = [req EXCEPT ![r] = q(pc, a)]
        /\ \/ pc # "ended" /\ a = req[r].answer
           \/ pc = "ended" /\ Done(j) /\ a = FinalAnswer(j)
  <2>1. CASE req[r].mode = "async" /\ Done(j)
    <3>1. FinalAnswer(j) \in Answers
      BY DEF FinalAnswer, Answers
    <3>. QED  BY <2>1, <3>1 DEF Attach, ChatInv, RequestsGood, Request
  <2>2. CASE ~(req[r].mode = "async" /\ Done(j))
    <3>1. req[r].answer \in Answers
      BY <1>1 DEF Good, Request
    <3>. QED  BY <2>2, <3>1 DEF Attach, ChatInv, RequestsGood, Request
  <2>. QED  BY <2>1, <2>2
<1>3. Good(q(pc, a), jobs', now')
  <2>1. q(pc, a) \in Request
    BY <1>1 DEF Good, Request, Pcs
  <2>2. CASE pc = "ended" /\ Done(j) /\ a = FinalAnswer(j)
    <3>1. jobs'[j] = jobs[j] /\ jobs[j].outcome \in {"none", "result", "failure"}
      BY <2>2 DEF Onward, ChatInv, IInv, TypeOK, InferenceJob
    <3>2. a # "gone" /\ (a = "result" <=> jobs[j].outcome = "result" /\ j \notin Oversized)
      BY <2>2, <3>1 DEF FinalAnswer
    <3>. QED  BY <1>1, <2>1, <2>2, <3>1, <3>2 DEF Good, Request, Done
  <2>3. CASE a = req[r].answer
    <3>1. a = "none"
      BY <1>1, <2>3 DEF Good
    <3>. QED  BY <1>1, <2>1, <2>3, <3>1 DEF Good, Request, Reported
  <2>. QED  BY <1>2, <2>2, <2>3
<1>4. now <= now'
  BY <1>1
<1>. QED  BY <1>2, <1>3, <1>4, OneRequest

LEMMA AdmitInv ==
  ASSUME ChatInv, NEW r \in Requests, Admit(r)
  PROVE  ChatInv'
<1>1. /\ req[r].pc = "checking" /\ Good(req[r], jobs, now)
      /\ req[r].key \in Keys \cup {NoKey} /\ req[r].print \in Prints
  BY DEF Admit, ChatInv, RequestsGood, Request
<1>2. ASSUME NEW j \in JobIds, CreateNew(j, req[r].key, req[r].print), Attach(r, j)
      PROVE  ChatInv'
  <2>1. IInv'
    BY <1>1, <1>2, CreateNewInv DEF ChatInv
  <2>2. /\ jobs'[j].task # "unborn"
        /\ jobs'[j].key = req[r].key /\ jobs'[j].print = req[r].print
    BY <1>2 DEF CreateNew, NewJob, ChatInv, IInv, TypeOK
  <2>. QED  BY <1>1, <1>2, <2>1, <2>2, CreateNewOnward, AttachInv DEF ChatInv
<1>3. ASSUME NEW j \in JobIds, CreateReuse(j, req[r].key, req[r].print), Attach(r, j)
      PROVE  ChatInv'
  <2>1. /\ IInv' /\ Onward /\ CancelsLawfully
        /\ jobs' = jobs /\ now' = now /\ closed' = closed
    BY <1>3, StoreStays DEF CreateReuse
  <2>2. Born(j) /\ jobs[j].key = req[r].key /\ jobs[j].print = req[r].print
    BY <1>1, <1>3, PurgeLemma DEF CreateReuse, Existing, ChatInv
  <2>. QED  BY <1>1, <1>3, <2>1, <2>2, AttachInv DEF Born
<1>4. ASSUME CreateConflict(req[r].key, req[r].print), End(r, "conflict")
      PROVE  ChatInv'
  <2>1. IInv' /\ UNCHANGED <<jobs, now, closed>>
    BY <1>4, StoreStays DEF CreateConflict
  <2>2. Good(Ended(req[r], "conflict"), jobs, now)
    BY <1>1, PlainIsGood DEF Answers, Reported
  <2>. QED  BY <1>4, <2>1, <2>2, EndInv
<1>. QED  BY <1>2, <1>3, <1>4 DEF Admit

-----------------------------------------------------------------------------
(* The steps of the store alone, and shutdown.                             *)

LEMMA StoreStepInv ==
  ASSUME ChatInv, req' = req, Tick \/ \E j \in JobIds : Task(j)
  PROVE  ChatInv'
<1>1. IInv'
  BY TickInv, TaskInv DEF ChatInv
<1>2. Onward /\ CancelsLawfully /\ closed' = closed /\ now <= now'
  BY StandsStill, TaskOnward DEF Tick, ChatInv, IInv, TypeOK
<1>. QED  BY <1>1, <1>2, NoRequest

LEMMA ShutdownInv ==
  ASSUME ChatInv, Shutdown
  PROVE  ChatInv'
<1>1. IInv' /\ Onward /\ CancelsLawfully /\ now' = now /\ closed' /\ now \in Nat /\ TypeOK
  BY CancelAllInv, CancelAllOnward DEF Shutdown, ChatInv, IInv, TypeOK
<1>2. \A r \in Requests : Good(req[r], jobs', now')
  BY <1>1, GoodStays DEF ChatInv, RequestsGood
<1>3. ASSUME NEW r \in Requests PROVE Good(req'[r], jobs', now')
  <2>1. req'[r] = IF req[r].pc = "polling"
                  THEN [req[r] EXCEPT !.pc = "ended", !.answer = "aborted"] ELSE req[r]
    BY DEF Shutdown
  <2>2. Good(req[r], jobs', now')
    BY <1>2
  <2>3. CASE req[r].pc = "polling"
    BY <2>1, <2>2, <2>3 DEF Good, Request, Pcs, Answers, Reported
  <2>. QED  BY <2>1, <2>2, <2>3
<1>4. RequestsGood'
  BY <1>3 DEF Shutdown, RequestsGood, Good
<1>5. CancelledOnlyAtShutdown'
  BY <1>1 DEF CancelledOnlyAtShutdown
<1>. QED  BY <1>1, <1>4, <1>5 DEF ChatInv

LEMMA ChatStepInv == ChatInv /\ [ChatNext]_chatVars => ChatInv'
<1>. SUFFICES ASSUME ChatInv, [ChatNext]_chatVars PROVE ChatInv'
  OBVIOUS
<1>1. ASSUME NEW r \in Requests, Handler(r) PROVE ChatInv'
  BY <1>1, PlainEnds, AdmitInv, AnswerInv DEF Handler
<1>2. ASSUME NEW r \in Requests, Client(r) PROVE ChatInv'
  BY <1>2, PlainEnds, ArriveInv, PollInv DEF Client
<1>3. CASE req' = req /\ (Tick \/ \E j \in JobIds : Task(j))
  BY <1>3, StoreStepInv
<1>4. CASE Shutdown
  BY <1>4, ShutdownInv
<1>5. CASE UNCHANGED chatVars
  <2>1. IInv' /\ Onward /\ CancelsLawfully /\ req' = req /\ closed' = closed /\ now <= now'
    BY <1>5, StoreIdle, StandsStill DEF chatVars, vars, ChatInv, IInv, TypeOK
  <2>. QED  BY <2>1, NoRequest
<1>. QED  BY <1>1, <1>2, <1>3, <1>4, <1>5 DEF ChatNext

-----------------------------------------------------------------------------

\* The inductive invariant of the theorems below.
THEOREM ChatInvariant == ChatSpec => []ChatInv
  BY ChatInitInv, ChatStepInv, PTL DEF ChatSpec

\* Requests and jobs keep their types.
THEOREM ChatTypeCorrect == ChatSpec => []ChatTypeOK
<1>1. ChatInv => ChatTypeOK
  BY DEF ChatInv, IInv, RequestsGood, ChatTypeOK
<1>. QED  BY <1>1, ChatInvariant, PTL

\* Whoever shares a key or an id, the answer is that of the request's own work.
THEOREM AnswersAreOwn == ChatSpec => []AnswerIsOwnWork
<1>1. ChatInv => AnswerIsOwnWork
  BY DEF ChatInv, RequestsGood, Good, Reported, AnswerIsOwnWork, Done, Request
<1>. QED  BY <1>1, ChatInvariant, PTL

\* No client can cancel provider work.
THEOREM WorkOutlivesClients == ChatSpec => []CancelledOnlyAtShutdown
<1>1. ChatInv => CancelledOnlyAtShutdown
  BY DEF ChatInv
<1>. QED  BY <1>1, ChatInvariant, PTL

\* An id is good for polling until its retention is over.
THEOREM IdsStayGood == ChatSpec => []GoneOnlyAfterRetention
<1>1. ChatInv => GoneOnlyAfterRetention
  BY DEF ChatInv, RequestsGood, Good, GoneOnlyAfterRetention, Done
<1>. QED  BY <1>1, ChatInvariant, PTL

\* A repeated request attaches to the work it repeats.
THEOREM RepeatsShareWork == ChatSpec => []SharedKeySharesJob
<1>1. ChatInv => SharedKeySharesJob
  BY DEF ChatInv, IInv, KeyMapConsistent, RequestsGood, Good, SharedKeySharesJob
<1>. QED  BY <1>1, ChatInvariant, PTL

-----------------------------------------------------------------------------
(* The routes are a use of the store.                                      *)

\* The routes consult the store in the ways it provides for, one at a time, and
\* leave its state to it.
THEOREM RoutesUseStore == ChatSpec => Spec
<1>1. ChatInit => Init
  BY DEF ChatInit
<1>2. ASSUME ChatInv, [ChatNext]_chatVars PROVE [Next]_vars
  <2>1. ASSUME NEW r \in Requests, Admit(r) PROVE Next
    <3>1. req[r].key \in Keys \cup {NoKey} /\ req[r].print \in Prints
      BY <1>2 DEF ChatInv, RequestsGood, Request
    <3>2. CreateConflict(req[r].key, req[r].print) => req[r].key # NoKey
      BY DEF CreateConflict, Existing
    <3>. QED  BY <2>1, <3>1, <3>2 DEF Admit, Next
  <2>2. ASSUME NEW r \in Requests, Poll(r) PROVE Next
    BY <2>2 DEF Poll, Next
  <2>3. ASSUME NEW r \in Requests,
               \/ RejectNotReady(r) \/ AnswerWait(r) \/ AnswerStream(r)
               \/ Arrive(r) \/ Watchdog(r) \/ Disconnect(r)
        PROVE  UNCHANGED vars
    BY <2>3 DEF RejectNotReady, AnswerWait, AnswerStream, Arrive, Watchdog, Disconnect
  <2>4. CASE Shutdown \/ Tick \/ \E j \in JobIds : Task(j)
    BY <2>4 DEF Shutdown, Next
  <2>5. CASE UNCHANGED chatVars
    BY <2>5 DEF chatVars
  <2>. QED  BY <1>2, <2>1, <2>2, <2>3, <2>4, <2>5 DEF ChatNext, Handler, Client
<1>. QED  BY <1>1, <1>2, ChatInvariant, PTL DEF ChatSpec, Spec

\* So what a client may rely on under its key holds of the gateway as a whole:
\* however requests are repeated, streamed, polled or abandoned, the work of a key
\* is begun once, settles once, and is forgotten only when settled.
THEOREM RoutesKeepKeyedWork == ChatSpec => ImplementsKeyedWork
BY RoutesUseStore, Refinement

\* And nothing is submitted twice under a key within its retention.
THEOREM RoutesSubmitOnce == ChatSpec => []OnceWithinRetention
BY RoutesUseStore, SubmittedOnce

-----------------------------------------------------------------------------
(* Requests and jobs count down.                                           *)

\* How far a request is from its end, and a job from being settled.
RouteLeft(r) ==
  CASE req[r].pc = "idle"                                               -> 4
    [] req[r].pc = "checking"                                           -> 3
    [] req[r].pc \in {"waiting", "streaming", "polling"}                -> 2
    [] req[r].pc = "ended" /\ req[r].answer = "still_processing"        -> 1
    [] req[r].pc = "ended" /\ req[r].answer # "still_processing"        -> 0

JobLeft(j) == CASE jobs[j].task = "unborn"     -> 4
                [] jobs[j].task = "pending"    -> 3
                [] jobs[j].task = "running"    -> 2
                [] jobs[j].task = "cancelling" -> 1
                [] OTHER                       -> 0

\* A step brings a request nearer to its end or is none of its handler's; a
\* poll in vain found its job at work.
RequestNearsEnd(r) ==
  \/ RouteLeft(r)' < RouteLeft(r)
  \/ req'[r] = req[r] /\ ~Handler(r) /\ (Poll(r) => ~Done(req[r].job))

JobNearsEnd(j) ==
  \/ JobLeft(j)' < JobLeft(j)
  \/ jobs'[j] = jobs[j] /\ ~Task(j)

\* Requests never go back, nor do jobs: an answer stands, save "still processing",
\* which a poll may replace once and for all.
RoutesCountDown ==
  [][(\A r \in Requests : RequestNearsEnd(r)) /\ (\A j \in JobIds : JobNearsEnd(j))]_chatVars

\* What an answer sums up is never "still processing", nor nothing.
LEMMA FinalSettles ==
  ASSUME NEW j
  PROVE  FinalAnswer(j) \in {"result", "error", "aborted"}
BY DEF FinalAnswer

\* Request r comes nearer to its end, and no other moves.
Nears(r) == /\ RouteLeft(r)' < RouteLeft(r)
            /\ \A s \in Requests \ {r} : req'[s] = req[s]
            /\ req'[r] # req[r]

\* One request ends: it was not over, but perhaps told to poll.
LEMMA EndNears ==
  ASSUME RequestsGood, NEW r \in Requests, NEW a, a # "none", End(r, a),
         \/ req[r].pc \in {"checking", "waiting", "streaming", "polling"}
         \/ req[r].pc = "ended" /\ req[r].answer = "still_processing" /\ a # "still_processing",
         a = "still_processing" => req[r].pc # "polling"
  PROVE  Nears(r)
<1>1. /\ req'[r].pc = "ended" /\ req'[r].answer = a
      /\ \A s \in Requests \ {r} : req'[s] = req[s]
  BY DEF End, RequestsGood, Request
<1>2. RouteLeft(r)' < RouteLeft(r)
  BY <1>1 DEF RouteLeft
<1>. QED  BY <1>1, <1>2 DEF Nears, RequestsGood, Good

LEMMA ArriveNears ==
  ASSUME RequestsGood, NEW r \in Requests, Arrive(r)
  PROVE  Nears(r)
<1>1. /\ req[r].pc = "idle" /\ req'[r].pc = "checking"
      /\ \A s \in Requests \ {r} : req'[s] = req[s]
  BY DEF Arrive, RequestsGood
<1>. QED  BY <1>1 DEF Nears, RouteLeft

\* The handler is answered, fails or is given up.
LEMMA AnswerNears ==
  ASSUME RequestsGood, NEW r \in Requests,
         \/ RejectNotReady(r) \/ AnswerWait(r) \/ AnswerStream(r)
         \/ Watchdog(r) \/ Disconnect(r)
  PROVE  Nears(r)
<1>1. PICK a \in {"not_ready", "still_processing", "disconnected",
                  "result", "error", "aborted"} : End(r, a)
  BY FinalSettles DEF RejectNotReady, AnswerWait, AnswerStream, Watchdog, Disconnect
<1>2. req[r].pc \in {"checking", "waiting", "streaming"}
  BY DEF RejectNotReady, AnswerWait, AnswerStream, Watchdog, Disconnect, InHandler
<1>. QED  BY <1>1, <1>2, EndNears

LEMMA AdmitNears ==
  ASSUME RequestsGood, NEW r \in Requests, Admit(r)
  PROVE  Nears(r)
<1>1. req[r].pc = "checking"
  BY DEF Admit
<1>2. ASSUME NEW j \in JobIds, Attach(r, j) PROVE Nears(r)
  <2>1. /\ \/ req'[r].pc \in {"waiting", "streaming", "polling"}
           \/ req'[r].pc = "ended" /\ req'[r].answer = FinalAnswer(j)
        /\ \A s \in Requests \ {r} : req'[s] = req[s]
    BY <1>2 DEF Attach, RequestsGood, Request
  <2>. QED  BY <1>1, <2>1, FinalSettles DEF Nears, RouteLeft
<1>3. ASSUME End(r, "conflict") PROVE Nears(r)
  BY <1>1, <1>3, EndNears
<1>. QED  BY <1>2, <1>3 DEF Admit

\* A poll ends the request, unless it found the job at work.
LEMMA PollNears ==
  ASSUME RequestsGood, NEW r \in Requests, Poll(r)
  PROVE  Nears(r) \/ (req' = req /\ ~Done(req[r].job))
<1>1. \/ req[r].pc = "polling"
      \/ req[r].pc = "ended" /\ req[r].answer = "still_processing"
  BY DEF Poll
<1>2. CASE End(r, "gone")
  BY <1>1, <1>2, EndNears
<1>3. CASE End(r, FinalAnswer(req[r].job))
  BY <1>1, <1>3, FinalSettles, EndNears
<1>. QED  BY <1>2, <1>3 DEF Poll

\* The server's end leaves nobody waiting.
LEMMA ShutdownNears ==
  ASSUME RequestsGood, NEW r \in Requests, Shutdown
  PROVE  RouteLeft(r)' < RouteLeft(r) \/ req'[r] = req[r]
<1>1. CASE req[r].pc = "polling"
  <2>1. req'[r].pc = "ended" /\ req'[r].answer = "aborted"
    BY <1>1 DEF Shutdown, RequestsGood, Request
  <2>. QED  BY <1>1, <2>1 DEF RouteLeft
<1>. QED  BY <1>1 DEF Shutdown

LEMMA RequestsNearEnd ==
  ASSUME ChatInv, ChatNext, NEW r \in Requests
  PROVE  RequestNearsEnd(r)
<1>1. RequestsGood
  BY DEF ChatInv
<1>2. \/ \E s \in Requests : Nears(s)
      \/ req' = req
      \/ Shutdown
  BY <1>1, ArriveNears, AnswerNears, AdmitNears, PollNears DEF ChatNext, Handler, Client
<1>3. RouteLeft(r)' < RouteLeft(r) \/ req'[r] = req[r]
  BY <1>1, <1>2, ShutdownNears DEF Nears
<1>4. Handler(r) => req'[r] # req[r]
  BY <1>1, AnswerNears, AdmitNears DEF Handler, Nears
<1>5. Poll(r) => req'[r] # req[r] \/ ~Done(req[r].job)
  BY <1>1, PollNears DEF Nears
<1>. QED  BY <1>3, <1>4, <1>5 DEF RequestNearsEnd

\* A task's own step settles its job or takes it that way.
LEMMA TaskNears ==
  ASSUME IInv, NEW j \in JobIds, Task(j)
  PROVE  /\ JobLeft(j)' < JobLeft(j)
         /\ \A i \in JobIds \ {j} : jobs'[i] = jobs[i]
<1>1. /\ \/ jobs[j].task = "pending" /\ jobs'[j].task = "running"
         \/ jobs[j].task \in {"running", "cancelling"}
            /\ jobs'[j].task \in {"finished", "cancelled"}
      /\ \A i \in JobIds \ {j} : jobs'[i] = jobs[i]
  <2>1. CASE RunStart(j)
    BY <2>1 DEF RunStart, IInv, TypeOK, InferenceJob
  <2>2. CASE RunReturn(j)
    BY <2>2 DEF RunReturn, Settle, IInv, TypeOK, InferenceJob
  <2>3. CASE RunRaise(j)
    BY <2>3 DEF RunRaise, Settle, IInv, TypeOK, InferenceJob
  <2>4. CASE RunCancelled(j)
    BY <2>4 DEF RunCancelled, Settle, IInv, TypeOK, InferenceJob
  <2>. QED  BY <2>1, <2>2, <2>3, <2>4 DEF Task
<1>. QED  BY <1>1 DEF JobLeft

LEMMA CreateNears ==
  ASSUME IInv, NEW j \in JobIds, NEW k, NEW p, CreateNew(j, k, p), NEW i \in JobIds
  PROVE  JobLeft(i)' < JobLeft(i) \/ jobs'[i] = jobs[i]
<1>1. jobs[j].task = "unborn" /\ jobs'[j].task = "pending"
  BY DEF CreateNew, NewJob, Born, IInv, TypeOK
<1>2. i # j => jobs'[i] = jobs[i]
  BY DEF CreateNew, IInv, TypeOK
<1>. QED  BY <1>1, <1>2 DEF JobLeft

\* Shutdown finds no task that is being cancelled already.
LEMMA CancelNears ==
  ASSUME ChatInv, CancelAll, NEW i \in JobIds
  PROVE  JobLeft(i)' < JobLeft(i) \/ jobs'[i] = jobs[i]
<1>1. jobs[i].task \in Tasks /\ jobs[i].task # "cancelling"
  BY DEF CancelAll, ChatInv, CancelledOnlyAtShutdown, IInv, TypeOK, InferenceJob
<1>2. CASE i \in stored /\ Live(i)
  <2>1. jobs'[i].task = CancelTask(jobs[i].task)
    BY <1>2 DEF CancelAll, ChatInv, IInv, TypeOK, InferenceJob
  <2>2. jobs[i].task \in {"pending", "running"}
    BY <1>1, <1>2 DEF Live, Born, Done, Tasks
  <2>. QED  BY <2>1, <2>2 DEF CancelTask, JobLeft
<1>. QED  BY <1>2 DEF CancelAll

LEMMA JobsNearEnd ==
  ASSUME ChatInv, ChatNext, NEW i \in JobIds
  PROVE  JobNearsEnd(i)
<1>1. IInv
  BY DEF ChatInv
<1>2. \/ \E j \in JobIds : Task(j)
      \/ \E j \in JobIds, r \in Requests : CreateNew(j, req[r].key, req[r].print)
      \/ CancelAll
      \/ jobs' = jobs
  BY DEF ChatNext, Handler, Client, Arrive, RejectNotReady, Admit, CreateReuse, CreateConflict,
         AnswerWait, AnswerStream, Watchdog, Disconnect, Poll, Get, Tick, Shutdown, vars
<1>3. JobLeft(i)' < JobLeft(i) \/ jobs'[i] = jobs[i]
  BY <1>1, <1>2, TaskNears, CreateNears, CancelNears
<1>4. Task(i) /\ jobs'[i] = jobs[i] => JobLeft(i)' = JobLeft(i)
  BY DEF JobLeft
<1>5. JobLeft(i) \in Nat /\ JobLeft(i)' \in Nat
  BY DEF JobLeft
<1>6. Task(i) => JobLeft(i)' < JobLeft(i)
  BY <1>1, TaskNears
<1>. QED  BY <1>3, <1>4, <1>5, <1>6 DEF JobNearsEnd

\* A request has at most four steps before its answer stands, and a job as many
\* before it is settled; none is ever given back, whatever clients, watchdog,
\* purging and shutdown do.  Only a poll that found its job at work is repeated.
THEOREM RoutesNearEnd == ChatSpec => RoutesCountDown
<1>1. ChatInv /\ [ChatNext]_chatVars =>
        [(\A r \in Requests : RequestNearsEnd(r)) /\ (\A j \in JobIds : JobNearsEnd(j))]_chatVars
  BY RequestsNearEnd, JobsNearEnd
<1>. QED  BY <1>1, ChatInvariant, PTL DEF ChatSpec, RoutesCountDown

=============================================================================
