----------------------------- MODULE BrowserUse -----------------------------
(***************************************************************************)
(* Who may use the one browser of a provider's profile, and when.  It has  *)
(* one user at a time: the startup, then the watcher that waits for the    *)
(* user to sign in, then the requests, one after the other, and nobody     *)
(* once no request can be admitted any more.  The use is passed on in this *)
(* order and never back.  Only its user opens the browser, and only its    *)
(* user finds the provider ready; anything may happen to take the browser  *)
(* away, and shutdown takes the readiness too.                             *)
(***************************************************************************)
CONSTANT Requests

VARIABLES
  stage,    \* whose time it is
  holders,  \* the requests that use the browser; never more than one
  browser,  \* how it is open, or "down"
  ready     \* the provider is ready

Shown == {"headed", "headless"}

\* The startup or the watcher ends, and leaves the requests a ready provider.
HandOver ==
  /\ \/ stage = "startup" /\ stage' \in {"watcher", "requests", "nobody"}
     \/ stage = "watcher" /\ stage' \in {"requests", "nobody"}
  /\ ready' = (stage' = "requests")
  /\ browser' \in {browser, "down"} \cup {b \in Shown : browser = "down"}
  /\ UNCHANGED holders

Open ==
  /\ stage \in {"startup", "watcher"}
  /\ browser = "down"
  /\ browser' \in Shown
  /\ UNCHANGED <<stage, holders, ready>>

\* A request gets its turn with what there is.
Take(r) ==
  /\ stage = "requests"
  /\ holders = {}
  /\ holders' = {r}
  /\ UNCHANGED <<stage, browser, ready>>

\* The request may open, restart and lose the browser, and finds the provider
\* ready or not.  After the last one of a provider that is not, there is nobody.
Work ==
  /\ holders # {}
  /\ holders' \in {holders, {}}
  /\ browser' \in Shown \cup {"down"}
  /\ ready' \in BOOLEAN
  /\ stage' \in {stage} \cup {s \in {"nobody"} : holders' = {}}

\* The browser is lost or closed.
Lose ==
  /\ browser' = "down"
  /\ UNCHANGED <<stage, holders, ready>>

\* Shutdown takes the readiness and the browser away, and in the end the lock.
Withdraw ==
  /\ stage = "requests"
  /\ holders' \in {holders, {}}
  /\ stage' \in {stage} \cup {s \in {"nobody"} : holders' = {}}
  /\ browser' \in {browser, "down"}
  /\ ready' \in {ready, FALSE}

Init ==
  /\ stage = "startup"
  /\ holders = {}
  /\ browser = "down"
  /\ ready = FALSE

Next == \/ HandOver \/ Open
        \/ \E r \in Requests : Take(r)
        \/ Work \/ Lose \/ Withdraw

useVars == <<stage, holders, browser, ready>>

Spec == Init /\ [][Next]_useVars

=============================================================================
