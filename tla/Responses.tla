----------------------------- MODULE Responses ------------------------------
(***************************************************************************)
(* The Responses route (src/wmadapter/main.py, responses) and its registry *)
(* of continuations (providers/state.py).  A client continues an earlier   *)
(* answer by its id alone, by the id of its conversation, or by both; the  *)
(* gateway keeps no transcript, so that the conversation a turn runs in is *)
(* all that ties it to what was said before.  Turns overlap, fail after    *)
(* the site has answered, and the process restarts and forgets every id.   *)
(*                                                                         *)
(* A response id is named by the turn it answers, and a conversation the   *)
(* gateway opens by the turn it opens it for; both are fresh uuids.        *)
(***************************************************************************)
EXTENDS FiniteSets

CONSTANTS
  Turns,   \* the requests
  Names,   \* the conversation ids clients make up
  None     \* an id that is not given, or not known

ASSUME ResponsesAssumption ==
  /\ None \notin Turns \cup Names
  /\ Names \cap Turns = {}

VARIABLES
  known,    \* response_state: the conversation of each response id, or None
  turn,     \* the requests and what became of them
  retired   \* the turns a process that has ended had answered

responseVars == <<known, turn, retired>>

Conversations == Names \cup Turns

Turn == [pc : {"idle", "received", "running", "answered", "failed"},
         named : Conversations \cup {None},     \* conversation_id
         previous : Turns \cup {None},          \* previous_response_id
         conversation : Conversations \cup {None}]

ResponsesTypeOK ==
  /\ known \in [Turns -> Conversations \cup {None}]
  /\ turn \in [Turns -> Turn]
  /\ retired \subseteq Turns

At(t, pc) == turn[t].pc = pc
Fail(t)   == turn' = [turn EXCEPT ![t].pc = "failed"]

\* The ids an answer has told its client.
Told == {t \in Turns : At(t, "answered")}

-----------------------------------------------------------------------------
(* GatewayState *)

\* remember: a plain assignment; nothing calls expire.
Remember(t) == known' = [known EXCEPT ![t] = turn[t].conversation]

\* Mutant: an id nobody knows is ignored.
Ignored(t) == FALSE

\* resolve raises for an id it does not know, and for two ids that disagree.
UnknownId(t) == turn[t].previous # None /\ known[turn[t].previous] = None

Conflict(t) == /\ turn[t].previous # None
               /\ turn[t].named \notin {None, known[turn[t].previous]}

Resolved(t) == IF turn[t].previous = None THEN turn[t].named ELSE known[turn[t].previous]

\* Mutant: one conversation for everybody who names none.
OneForAll(t) == CHOOSE c \in Turns : TRUE

\* The conversation of a turn that gives no id.
Fresh(t) == t

-----------------------------------------------------------------------------
(* responses *)

\* A client may give any id it was told, in this process or an earlier one, a
\* conversation name of its own, and a response id nobody was given.
Receive(t) ==
  /\ At(t, "idle")
  /\ \E n \in Names \cup {turn[u].conversation : u \in Told} \cup {None}, p \in Turns \cup {None} :
       turn' = [turn EXCEPT ![t] = [@ EXCEPT !.pc = "received", !.named = n, !.previous = p]]
  /\ UNCHANGED <<known, retired>>

\* A feature that is not supported, a payload over the limits, or a provider
\* that is not ready once its status has been awaited.
Reject(t) ==
  /\ At(t, "received")
  /\ Fail(t)
  /\ UNCHANGED <<known, retired>>

RejectId(t) ==
  /\ At(t, "received")
  /\ UnknownId(t) \/ Conflict(t)
  /\ Fail(t)
  /\ UNCHANGED <<known, retired>>

Begin(t) ==
  /\ At(t, "received")
  /\ ~UnknownId(t) /\ ~Conflict(t)
  /\ turn' = [turn EXCEPT ![t].pc = "running",
                          ![t].conversation = IF Resolved(t) = None THEN Fresh(t) ELSE Resolved(t)]
  /\ UNCHANGED <<known, retired>>

\* The inference fails, or its text is over max_output_chars: the site has the
\* turn, the registry has no id for it.
TurnFails(t) ==
  /\ At(t, "running")
  /\ Fail(t)
  /\ UNCHANGED <<known, retired>>

Answer(t) ==
  /\ At(t, "running")
  /\ turn' = [turn EXCEPT ![t].pc = "answered"]
  /\ Remember(t)
  /\ UNCHANGED retired

\* The end of lifespan, or the process dies: the registry is empty, and nobody
\* answers the turns under way.
Restart ==
  /\ known' = [t \in Turns |-> None]
  /\ turn' = [t \in Turns |-> IF turn[t].pc \in {"received", "running"}
                              THEN [turn[t] EXCEPT !.pc = "failed"] ELSE turn[t]]
  /\ retired' = Told

ResponsesInit ==
  /\ known = [t \in Turns |-> None]
  /\ turn = [t \in Turns |-> [pc |-> "idle", named |-> None, previous |-> None,
                              conversation |-> None]]
  /\ retired = {}

ResponsesNext ==
  \/ \E t \in Turns : \/ Receive(t) \/ Reject(t) \/ RejectId(t) \/ Begin(t)
                      \/ TurnFails(t) \/ Answer(t)
  \/ Restart

ResponsesSpec == ResponsesInit /\ [][ResponsesNext]_responseVars

-----------------------------------------------------------------------------
(* Properties *)

\* A turn that continues a response runs in the conversation of that response,
\* whatever conversation id comes with it and however many turns and failures
\* lie in between, and in the process that gave the response: the pages of an
\* earlier one are gone.  Only what was answered can be continued.
ContinuesItsConversation ==
  \A t \in Turns : At(t, "running") \/ At(t, "answered") =>
    LET p == turn[t].previous IN
      p # None => /\ At(p, "answered")
                  /\ p \in retired => t \in retired
                  /\ turn[t].conversation = turn[p].conversation

\* A turn that gives no id shares its conversation only with turns that continue
\* a response or name the conversation the gateway opened for it, which its
\* answer alone tells: clients that ask for nothing never read one another.
StrangersApart ==
  \A t, u \in Turns :
    /\ t # u
    /\ turn[t].named = None /\ turn[t].previous = None
    /\ turn[t].conversation # None /\ turn[t].conversation = turn[u].conversation
    => turn[u].previous # None \/ turn[u].named = turn[t].conversation

=============================================================================
