----------------------------- MODULE KeyedWork ------------------------------
(***************************************************************************)
(* What a client that sends an Idempotency-Key may rely on: under each key *)
(* the gateway keeps at most one piece of work.  It is begun once, it      *)
(* settles with one outcome, and only a settled one is forgotten, after    *)
(* which the key is free again.  Closing the gateway abandons everything.  *)
(***************************************************************************)
CONSTANTS
  Keys,      \* idempotency keys
  Prints,    \* payload fingerprints
  NoPrint,   \* no payload
  Outcomes   \* how work can settle

VARIABLES
  slot,      \* the work known under each key
  open       \* the gateway accepts requests

Free    == [phase |-> "free", print |-> NoPrint, outcome |-> "none"]
Busy(p) == [phase |-> "busy", print |-> p, outcome |-> "none"]
Over(p, o) == [phase |-> "settled", print |-> p, outcome |-> o]

Settled == {k \in Keys : slot[k].phase = "settled"}

Forgotten(E) == [k \in Keys |-> IF k \in E THEN Free ELSE slot[k]]

\* Settled work is forgotten, for any number of keys at once.
Forget ==
  /\ open
  /\ \E E \in SUBSET Settled : slot' = Forgotten(E)
  /\ UNCHANGED open

\* Work begins under a free key, or one freed in the same step.
Begin ==
  /\ open
  /\ \E E \in SUBSET Settled, k \in Keys, p \in Prints :
       /\ Forgotten(E)[k].phase = "free"
       /\ slot' = [Forgotten(E) EXCEPT ![k] = Busy(p)]
  /\ UNCHANGED open

Settle ==
  /\ \E k \in Keys, o \in Outcomes :
       /\ slot[k].phase = "busy"
       /\ slot' = [slot EXCEPT ![k] = Over(slot[k].print, o)]
  /\ UNCHANGED open

Close ==
  /\ open
  /\ open' = FALSE
  /\ slot' = [k \in Keys |-> Free]

Init ==
  /\ slot = [k \in Keys |-> Free]
  /\ open = TRUE

Next == Forget \/ Begin \/ Settle \/ Close

workVars == <<slot, open>>

Spec == Init /\ [][Next]_workVars

=============================================================================
