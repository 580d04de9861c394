-------------------------- MODULE ChatCompletions ---------------------------
(***************************************************************************)
(* The chat-completion routes of the gateway (src/wmadapter/main.py) on    *)
(* top of the job store: a request is admitted, attaches to a job, and is  *)
(* answered in one of three modes - it waits, it streams with heartbeats   *)
(* and a watchdog, or it asks to be told the job id and polls.  Clients    *)
(* disconnect, repeat a request under its key, and poll late.              *)
(***************************************************************************)
EXTENDS JobStore

CONSTANTS
  Requests,   \* HTTP requests
  Deadline,   \* whether streams have a watchdog (watchdog_seconds > 0)
  Oversized   \* jobs whose answer, if they get one, exceeds max_output_chars

ASSUME ChatAssumption == Deadline \in BOOLEAN /\ Oversized \subseteq JobIds

VARIABLE req  \* what each request's handler is doing and has answered

chatVars == <<vars, req>>

Modes   == {"wait", "stream", "async"}
Pcs     == {"idle", "checking", "waiting", "streaming", "polling", "ended"}
Answers == {"none", "result", "error", "still_processing",
            "conflict", "not_ready", "gone", "disconnected", "aborted"}

Request == [pc : Pcs, mode : Modes, key : Keys \cup {NoKey}, print : Prints,
            job : JobIds \cup {NoJob}, answer : Answers]

ChatTypeOK == TypeOK /\ req \in [Requests -> Request]

InHandler(r) == req[r].pc \in {"checking", "waiting", "streaming"}

End(r, a) == req' = [req EXCEPT ![r].pc = "ended", ![r].answer = a]

\* How a wait, a stream or a poll reports what became of the job.  Of an answer
\* beyond the gateway's limit (_enforce_output_limit) the client gets an error, as
\* of an exception (_provider_http_error); a cancelled task aborts its waiter.
FinalAnswer(j) ==
  CASE jobs[j].outcome = "result" /\ j \notin Oversized -> "result"
    [] jobs[j].outcome = "result" /\ j \in Oversized    -> "error"
    [] jobs[j].outcome = "failure"                      -> "error"
    [] OTHER                                            -> "aborted"

-----------------------------------------------------------------------------
(* chat_completion *)

\* The payload is valid; the handler awaits the provider's status.
Arrive(r) ==
  /\ req[r].pc = "idle"
  /\ ~closed
  /\ \E m \in Modes, k \in Keys \cup {NoKey}, p \in Prints :
       req' = [req EXCEPT ![r] = [pc |-> "checking", mode |-> m, key |-> k, print |-> p,
                                  job |-> NoJob, answer |-> "none"]]
  /\ UNCHANGED vars

\* _require_provider_ready: 503 before the store is consulted.
RejectNotReady(r) ==
  /\ req[r].pc = "checking"
  /\ End(r, "not_ready")
  /\ UNCHANGED vars

\* Mutant: the handler's state is named after the mode it serves.
AttachAsMode(r, j) == req' = [req EXCEPT ![r].job = j, ![r].pc = req[r].mode]

\* The handler goes on with job j: a stream or a wait starts, an async request
\* is told the id, or the answer when the job is already done.
Attach(r, j) ==
  IF req[r].mode = "async" /\ Done(j)
  THEN req' = [req EXCEPT ![r].job = j, ![r].pc = "ended", ![r].answer = FinalAnswer(j)]
  ELSE req' = [req EXCEPT ![r].job = j,
                          ![r].pc = CASE req[r].mode = "wait"   -> "waiting"
                                      [] req[r].mode = "stream" -> "streaming"
                                      [] OTHER                  -> "polling"]

Admit(r) ==
  /\ req[r].pc = "checking"
  /\ \/ \E j \in JobIds : /\ \/ CreateNew(j, req[r].key, req[r].print)
                             \/ CreateReuse(j, req[r].key, req[r].print)
                          /\ Attach(r, j)
     \/ CreateConflict(req[r].key, req[r].print) /\ End(r, "conflict")

\* Mutant: only a result wakes the waiter.
AnswerWaitOnResult(r) ==
  /\ req[r].pc = "waiting"
  /\ jobs[req[r].job].outcome = "result"
  /\ End(r, "result")
  /\ UNCHANGED vars

\* job.wait(): the shielded task is done and the waiter resumes.
AnswerWait(r) ==
  /\ req[r].pc = "waiting"
  /\ Done(req[r].job)
  /\ End(r, FinalAnswer(req[r].job))
  /\ UNCHANGED vars

\* events(): the same for a stream, which ends with the answer or an error event.
AnswerStream(r) ==
  /\ req[r].pc = "streaming"
  /\ Done(req[r].job)
  /\ End(r, FinalAnswer(req[r].job))
  /\ UNCHANGED vars

\* events(): the deadline has passed at the top of the loop.
Watchdog(r) ==
  /\ Deadline
  /\ req[r].pc = "streaming"
  /\ End(r, "still_processing")
  /\ UNCHANGED vars

\* Mutant: the awaited task is not shielded from the handler's cancellation.
DisconnectUnshielded(r) ==
  /\ InHandler(r)
  /\ End(r, "disconnected")
  /\ jobs' = [j \in JobIds |-> IF j = req[r].job /\ Live(j)
                               THEN [jobs[j] EXCEPT !.task = CancelTask(@)] ELSE jobs[j]]
  /\ UNCHANGED <<stored, idem, now, closed>>

\* The client goes away; its handler is cancelled at its await.
Disconnect(r) ==
  /\ InHandler(r)
  /\ End(r, "disconnected")
  /\ UNCHANGED vars

\* retrieve_chat_completion, for a client that was given the job's id: by the
\* 202 of an async request or by the watchdog's poll_url.
Poll(r) ==
  /\ \/ req[r].pc = "polling"
     \/ req[r].pc = "ended" /\ req[r].answer = "still_processing"
  /\ Get
  /\ LET j == req[r].job IN
       CASE j \notin StoredAfterPurge -> End(r, "gone")
         [] j \in StoredAfterPurge /\ Done(j) -> End(r, FinalAnswer(j))
         [] OTHER -> UNCHANGED req

\* The server closes its connections before it ends the lifespan; a client
\* that still polls finds no server.
Shutdown ==
  /\ \A r \in Requests : ~InHandler(r)
  /\ CancelAll
  /\ req' = [r \in Requests |-> IF req[r].pc = "polling"
                                THEN [req[r] EXCEPT !.pc = "ended", !.answer = "aborted"]
                                ELSE req[r]]

-----------------------------------------------------------------------------

ChatInit ==
  /\ Init
  /\ req = [r \in Requests |-> [pc |-> "idle", mode |-> "wait", key |-> NoKey,
                                print |-> CHOOSE p \in Prints : TRUE,
                                job |-> NoJob, answer |-> "none"]]

Handler(r) == RejectNotReady(r) \/ Admit(r) \/ AnswerWait(r) \/ AnswerStream(r)

Client(r) == Arrive(r) \/ Watchdog(r) \/ Disconnect(r) \/ Poll(r)

ChatNext ==
  \/ \E r \in Requests : Handler(r) \/ Client(r)
  \/ \E j \in JobIds : Task(j) /\ UNCHANGED req
  \/ Tick /\ UNCHANGED req
  \/ Shutdown

ChatSpec == ChatInit /\ [][ChatNext]_chatVars

\* The loop runs every ready task and resumes every handler whose awaited
\* task is done; provider turns are bounded by timeouts in the adapters.  A
\* client that was told to poll does.
ChatFairness ==
  /\ \A j \in JobIds : WF_chatVars(Task(j) /\ UNCHANGED req)
  /\ \A r \in Requests : WF_chatVars(Handler(r)) /\ WF_chatVars(Poll(r))

ChatFairSpec == ChatSpec /\ ChatFairness

-----------------------------------------------------------------------------

\* A client gets the answer of work done for its own payload and key, never
\* that of another request which happened to share the key or the id, and gets
\* it in each mode alike: whole when it is within the limit, or else an error.
AnswerIsOwnWork ==
  \A r \in Requests : req[r].answer \in {"result", "error"} =>
    LET j == req[r].job IN
      /\ Done(j)
      /\ jobs[j].key = req[r].key /\ jobs[j].print = req[r].print
      /\ req[r].answer = "result" <=> jobs[j].outcome = "result" /\ j \notin Oversized

\* A client's timeout, disconnect or watchdog never cancels provider work
\* that was submitted: only the gateway's shutdown cancels a task.
CancelledOnlyAtShutdown ==
  \A j \in JobIds : jobs[j].task \in {"cancelling", "cancelled"} => closed

\* The id a client was given stays good: polling answers 404 only for a job
\* that ended and whose retention is over.
GoneOnlyAfterRetention ==
  \A r \in Requests : req[r].answer = "gone" =>
    LET j == req[r].job IN Done(j) /\ jobs[j].updated + Retention < now

\* While an earlier submission of the same key is kept, no request under that
\* key is admitted to another job, whatever became of the first client.
SharedKeySharesJob ==
  \A r, s \in Requests :
    /\ req[r].key = req[s].key /\ req[r].key # NoKey
    /\ req[r].job # NoJob /\ req[s].job # NoJob
    /\ req[r].job \in stored /\ req[s].job \in stored
    => req[r].job = req[s].job

\* Nobody waits forever: an arrived request is answered or told to poll, and
\* one that polls ends.
EveryRequestEnds == \A r \in Requests : req[r].pc = "checking" ~> req[r].pc = "ended"

=============================================================================
