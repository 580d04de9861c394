-------------------------- MODULE ResponsesProofs ---------------------------
(***************************************************************************)
(* The registry of continuations, for any turns, names and restarts.       *)
(***************************************************************************)
EXTENDS Responses, TLAPS

\* The registry knows a response exactly while its turn is answered and its
\* process lives, and under the conversation that turn ran in.
RegistryAgrees ==
  \A t \in Turns : known[t] # None =>
    At(t, "answered") /\ t \notin retired /\ known[t] = turn[t].conversation

\* A turn has a conversation from the moment it runs; its own when it gave no
\* id, the one it named when it gave only that.
ConversationGiven ==
  \A t \in Turns :
    /\ At(t, "idle") \/ At(t, "received") => turn[t].conversation = None
    /\ At(t, "running") \/ At(t, "answered") => turn[t].conversation # None
    /\ turn[t].conversation # None /\ turn[t].previous = None =>
         turn[t].conversation = IF turn[t].named = None THEN t ELSE turn[t].named

RetiredAnswered == \A t \in retired : At(t, "answered")

ResponsesInv ==
  /\ ResponsesTypeOK
  /\ RegistryAgrees
  /\ ConversationGiven
  /\ RetiredAnswered
  /\ ContinuesItsConversation

\* Nothing is known, running or retired at first.
LEMMA ResponsesInitInv == ResponsesInit => ResponsesInv
  BY ResponsesAssumption DEF ResponsesInit, ResponsesInv, ResponsesTypeOK, RegistryAgrees,
     ConversationGiven, RetiredAnswered, ContinuesItsConversation, Turn, At

\* A turn that ends without an answer changes only what no answered turn has.
LEMMA FailKeepsInv ==
  ASSUME NEW t \in Turns, ResponsesInv, At(t, "received") \/ At(t, "running"),
         Fail(t), UNCHANGED <<known, retired>>
  PROVE  ResponsesInv'
<1>. USE ResponsesAssumption DEF ResponsesInv, ResponsesTypeOK, At
<1>1. turn' \in [Turns -> Turn]
  BY DEF Fail, Turn
<1>2. /\ turn'[t].pc = "failed"
      /\ turn'[t].conversation = turn[t].conversation
      /\ turn'[t].previous = turn[t].previous
      /\ turn'[t].named = turn[t].named
      /\ \A u \in Turns \ {t} : turn'[u] = turn[u]
  BY DEF Fail, Turn
<1>3. ResponsesTypeOK'
  BY <1>1
<1>4. RegistryAgrees'
  BY <1>2 DEF RegistryAgrees
<1>5. ConversationGiven'
  BY <1>2 DEF ConversationGiven
<1>6. RetiredAnswered'
  BY <1>2 DEF RetiredAnswered
<1>7. ContinuesItsConversation'
  BY <1>1, <1>2 DEF ContinuesItsConversation, Turn
<1>. QED
  BY <1>3, <1>4, <1>5, <1>6, <1>7

LEMMA ReceiveKeepsInv ==
  ASSUME NEW t \in Turns, ResponsesInv, Receive(t)
  PROVE  ResponsesInv'
<1>. USE ResponsesAssumption DEF ResponsesInv, ResponsesTypeOK, At
<1>. PICK n \in Names \cup {turn[u].conversation : u \in Told} \cup {None}, p \in Turns \cup {None} :
       turn' = [turn EXCEPT ![t] = [@ EXCEPT !.pc = "received", !.named = n, !.previous = p]]
  BY DEF Receive
<1>1. n \in Conversations \cup {None}
  BY DEF Told, Conversations, Turn
<1>2. turn' \in [Turns -> Turn]
  BY <1>1 DEF Turn
<1>3. /\ turn'[t].pc = "received"
      /\ turn'[t].conversation = turn[t].conversation
      /\ \A u \in Turns \ {t} : turn'[u] = turn[u]
  BY DEF Turn
<1>4. turn[t].pc = "idle" /\ known' = known /\ retired' = retired
  BY DEF Receive
<1>5. turn[t].conversation = None
  BY <1>4 DEF ConversationGiven
<1>6. ResponsesTypeOK'
  BY <1>2, <1>4
<1>7. RegistryAgrees'
  BY <1>3, <1>4 DEF RegistryAgrees
<1>8. ConversationGiven'
  BY <1>3, <1>5 DEF ConversationGiven
<1>9. RetiredAnswered'
  BY <1>3, <1>4 DEF RetiredAnswered
<1>10. ContinuesItsConversation'
  BY <1>2, <1>3, <1>4 DEF ContinuesItsConversation, Turn
<1>. QED
  BY <1>6, <1>7, <1>8, <1>9, <1>10

LEMMA BeginKeepsInv ==
  ASSUME NEW t \in Turns, ResponsesInv, Begin(t)
  PROVE  ResponsesInv'
<1>. USE ResponsesAssumption DEF ResponsesInv, ResponsesTypeOK, At
<1>. DEFINE c == IF Resolved(t) = None THEN Fresh(t) ELSE Resolved(t)
<1>1. c \in Conversations /\ c # None
  BY DEF Resolved, Fresh, Conversations, Turn
<1>a. turn' = [turn EXCEPT ![t].pc = "running", ![t].conversation = c]
  BY DEF Begin
<1>2. turn' \in [Turns -> Turn]
  <2>. HIDE DEF c
  <2>. QED BY <1>1, <1>a DEF Turn
<1>3. /\ turn'[t].pc = "running"
      /\ turn'[t].conversation = c
      /\ turn'[t].previous = turn[t].previous
      /\ turn'[t].named = turn[t].named
      /\ \A u \in Turns \ {t} : turn'[u] = turn[u]
  <2>. HIDE DEF c
  <2>. QED BY <1>1, <1>a DEF Turn
<1>4. turn[t].pc = "received" /\ known' = known /\ retired' = retired
  BY DEF Begin
<1>5. turn[t].previous = None => c = IF turn[t].named = None THEN t ELSE turn[t].named
  BY DEF Resolved, Fresh
<1>6. turn[t].previous # None =>
        LET p == turn[t].previous IN
          /\ p \in Turns /\ p # t
          /\ At(p, "answered") /\ p \notin retired /\ turn[p].conversation = c
  <2>. SUFFICES ASSUME turn[t].previous # None
                PROVE  LET p == turn[t].previous IN
                         /\ p \in Turns /\ p # t
                         /\ At(p, "answered") /\ p \notin retired /\ turn[p].conversation = c
    OBVIOUS
  <2>. DEFINE p == turn[t].previous
  <2>1. p \in Turns
    BY DEF Turn
  <2>2. known[p] # None
    BY DEF Begin, UnknownId
  <2>3. At(p, "answered") /\ p \notin retired /\ known[p] = turn[p].conversation
    BY <2>1, <2>2 DEF RegistryAgrees
  <2>4. c = known[p]
    BY <2>2 DEF Resolved
  <2>. QED
    BY <2>1, <2>3, <2>4, <1>4
<1>7. ResponsesTypeOK'
  BY <1>2, <1>4
<1>8. RegistryAgrees'
  BY <1>3, <1>4 DEF RegistryAgrees
<1>9. ConversationGiven'
  BY <1>1, <1>3, <1>5 DEF ConversationGiven
<1>10. RetiredAnswered'
  BY <1>3, <1>4 DEF RetiredAnswered
<1>11. ContinuesItsConversation'
  BY <1>2, <1>3, <1>4, <1>6 DEF ContinuesItsConversation, Turn
<1>. QED
  BY <1>7, <1>8, <1>9, <1>10, <1>11

LEMMA AnswerKeepsInv ==
  ASSUME NEW t \in Turns, ResponsesInv, Answer(t)
  PROVE  ResponsesInv'
<1>. USE ResponsesAssumption DEF ResponsesInv, ResponsesTypeOK, At
<1>1. turn' \in [Turns -> Turn] /\ known' \in [Turns -> Conversations \cup {None}]
  BY DEF Answer, Remember, Turn
<1>2. /\ turn'[t].pc = "answered"
      /\ turn'[t].conversation = turn[t].conversation
      /\ turn'[t].previous = turn[t].previous
      /\ turn'[t].named = turn[t].named
      /\ \A u \in Turns \ {t} : turn'[u] = turn[u] /\ known'[u] = known[u]
      /\ known'[t] = turn[t].conversation
  BY DEF Answer, Remember, Turn
<1>3. turn[t].pc = "running" /\ t \notin retired /\ retired' = retired
  BY DEF Answer, RetiredAnswered
<1>4. ResponsesTypeOK'
  BY <1>1, <1>3
<1>5. RegistryAgrees'
  BY <1>2, <1>3 DEF RegistryAgrees
<1>6. ConversationGiven'
  BY <1>2, <1>3 DEF ConversationGiven
<1>7. RetiredAnswered'
  BY <1>2, <1>3 DEF RetiredAnswered
<1>8. ContinuesItsConversation'
  BY <1>1, <1>2, <1>3 DEF ContinuesItsConversation, Turn
<1>. QED
  BY <1>4, <1>5, <1>6, <1>7, <1>8

LEMMA RestartKeepsInv ==
  ASSUME ResponsesInv, Restart
  PROVE  ResponsesInv'
<1>. USE ResponsesAssumption DEF ResponsesInv, ResponsesTypeOK, At
<1>1. turn' \in [Turns -> Turn]
  BY DEF Restart, Turn
<1>2. \A t \in Turns :
        /\ turn'[t].pc = IF turn[t].pc \in {"received", "running"} THEN "failed" ELSE turn[t].pc
        /\ turn'[t].conversation = turn[t].conversation
        /\ turn'[t].previous = turn[t].previous
        /\ turn'[t].named = turn[t].named
  BY DEF Restart, Turn
<1>3. known' = [t \in Turns |-> None] /\ retired' = {t \in Turns : turn[t].pc = "answered"}
  BY DEF Restart, Told
<1>4. ResponsesTypeOK'
  BY <1>1, <1>3
<1>5. RegistryAgrees'
  BY <1>3 DEF RegistryAgrees
<1>6. ConversationGiven'
  BY <1>2 DEF ConversationGiven
<1>7. RetiredAnswered'
  BY <1>2, <1>3 DEF RetiredAnswered
<1>8. ContinuesItsConversation'
  BY <1>1, <1>2, <1>3 DEF ContinuesItsConversation, Turn
<1>. QED
  BY <1>4, <1>5, <1>6, <1>7, <1>8

LEMMA ResponsesStepInv == ResponsesInv /\ [ResponsesNext]_responseVars => ResponsesInv'
<1>. SUFFICES ASSUME ResponsesInv, [ResponsesNext]_responseVars PROVE ResponsesInv'
  OBVIOUS
<1>1. ASSUME NEW t \in Turns, Receive(t) PROVE ResponsesInv'
  BY <1>1, ReceiveKeepsInv
<1>2. ASSUME NEW t \in Turns, Reject(t) \/ RejectId(t) \/ TurnFails(t) PROVE ResponsesInv'
  BY <1>2, FailKeepsInv DEF Reject, RejectId, TurnFails
<1>3. ASSUME NEW t \in Turns, Begin(t) PROVE ResponsesInv'
  BY <1>3, BeginKeepsInv
<1>4. ASSUME NEW t \in Turns, Answer(t) PROVE ResponsesInv'
  BY <1>4, AnswerKeepsInv
<1>5. CASE Restart
  BY <1>5, RestartKeepsInv
<1>6. CASE UNCHANGED responseVars
  BY <1>6 DEF responseVars, ResponsesInv, ResponsesTypeOK, RegistryAgrees, ConversationGiven,
     RetiredAnswered, ContinuesItsConversation, At
<1>. QED
  BY <1>1, <1>2, <1>3, <1>4, <1>5, <1>6 DEF ResponsesNext

LEMMA ResponsesInvariant == ResponsesSpec => []ResponsesInv
  BY ResponsesInitInv, ResponsesStepInv, PTL DEF ResponsesSpec

\* The route and its registry keep their types (responses, GatewayState).
THEOREM ResponsesTypeCorrect == ResponsesSpec => []ResponsesTypeOK
<1>1. ResponsesInv => ResponsesTypeOK
  BY DEF ResponsesInv
<1>. QED
  BY <1>1, ResponsesInvariant, PTL

\* A continued response is continued in its own conversation and in the process
\* that gave it (GatewayState.resolve, remember and clear).
THEOREM ContinuationStays == ResponsesSpec => []ContinuesItsConversation
<1>1. ResponsesInv => ContinuesItsConversation
  BY DEF ResponsesInv
<1>. QED
  BY <1>1, ResponsesInvariant, PTL

\* Turns that give no id have conversations of their own (the fresh id of
\* responses).
THEOREM StrangersStayApart == ResponsesSpec => []StrangersApart
<1>1. ResponsesInv => StrangersApart
  BY ResponsesAssumption DEF ResponsesInv, ResponsesTypeOK, ConversationGiven, StrangersApart, Turn
<1>. QED
  BY <1>1, ResponsesInvariant, PTL

=============================================================================
