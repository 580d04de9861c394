---------------------------- MODULE PromptTurns -----------------------------
(***************************************************************************)
(* What a request may rely on while its prompts are typed into a web chat  *)
(* that can neither be asked whether a prompt arrived nor made to forget   *)
(* one.  A request has three turns: its own prompt, the repair of a tool   *)
(* call, and the repair of structured output.  One turn is under way at a  *)
(* time; its prompt reaches the site at most once, and not after the turn. *)
(* A turn ends once, and what is said of a turn without an answer is what  *)
(* a client may act on: after "presubmit" nothing was sent and it may try  *)
(* again, after "uncertain" it must not, and the request is over.  Repairs *)
(* follow answers only, in their order.                                    *)
(***************************************************************************)
EXTENDS Integers

CONSTANTS
  Requests,  \* the requests of a conversation
  NoPrompt   \* no prompt

VARIABLES
  current,   \* the prompt whose turn is under way
  sent,      \* how often the site received each prompt
  ended,     \* how the turn of each prompt ended
  over       \* the requests that have no turn any more

Prompts == Requests \X (1 .. 3)

Fresh(p) == sent[p] = 0 /\ ended[p] = "none"

\* The next turn of a request: its first, or a repair of what it was answered.
Begin(p) ==
  /\ current = NoPrompt
  /\ p[1] \notin over
  /\ \A k \in p[2] .. 3 : Fresh(<<p[1], k>>)
  /\ \A k \in 1 .. p[2] - 1 : ended[<<p[1], k>>] \in {"none", "answer"}
  /\ p[2] > 1 => ended[<<p[1], 1>>] = "answer"
  /\ current' = p
  /\ UNCHANGED <<sent, ended, over>>

Submit ==
  /\ current # NoPrompt
  /\ sent[current] = 0
  /\ sent' = [sent EXCEPT ![current] = 1]
  /\ UNCHANGED <<current, ended, over>>

End(how) ==
  /\ current # NoPrompt
  /\ ended[current] = "none"
  /\ how = "presubmit" => sent[current] = 0
  /\ ended' = [ended EXCEPT ![current] = how]
  /\ over' \in {over \cup {current[1]}} \cup {o \in {over} : how = "answer" /\ current[2] < 3}
  /\ current' = NoPrompt
  /\ UNCHANGED sent

Init ==
  /\ current = NoPrompt
  /\ sent = [p \in Prompts |-> 0]
  /\ ended = [p \in Prompts |-> "none"]
  /\ over = {}

Next == \/ \E p \in Prompts : Begin(p)
        \/ Submit
        \/ \E how \in {"answer", "uncertain", "presubmit"} : End(how)

turnVars == <<current, sent, ended, over>>

Spec == Init /\ [][Next]_turnVars

=============================================================================
