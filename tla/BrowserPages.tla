---------------------------- MODULE BrowserPages ----------------------------
(***************************************************************************)
(* Which pages the browser manager of one provider holds, who claims them, *)
(* and what their close and crash events do to it                          *)
(* (src/wmadapter/browser/manager.py).                                     *)
(*                                                                         *)
(* A page is claimed for a conversation, at most one page is the login     *)
(* (primary) page, and the launch page is in nobody's hands.  The events   *)
(* of a page close arrive before the gateway's own close() call returns,   *)
(* so closing a page is one step.  A page object that nobody refers to any *)
(* more may stand for a page opened later.                                 *)
(***************************************************************************)
EXTENDS Integers, FiniteSets

CONSTANTS
  Pages,      \* page objects
  NoPage,     \* absence of a page
  Convs,      \* conversation ids
  NoConv      \* the claim made without a conversation id

ASSUME BrowserPagesAssumption == NoPage \notin Pages /\ NoConv \notin Convs

VARIABLES
  tab,        \* what each page object shows
  up,         \* chromium runs and its pages answer
  live,       \* is_running: the manager has a context it regards as live
  reported,   \* _disconnect_reported
  owned,      \* _owned_pages
  claims,     \* _page_claims of this provider
  primary     \* _primary_pages[provider]

browserVars == <<tab, up, live, reported, owned, claims, primary>>

Claimants == Convs \cup {NoConv}

BrowserTypeOK ==
  /\ tab \in [Pages -> {"closed", "blank", "chat", "crashed"}]
  /\ up \in BOOLEAN /\ live \in BOOLEAN /\ reported \in BOOLEAN
  /\ owned \subseteq Pages
  /\ claims \in [Claimants -> Pages \cup {NoPage}]
  /\ primary \in Pages \cup {NoPage}

IsOpen(p) == p \in Pages /\ tab[p] # "closed"

-----------------------------------------------------------------------------
(* Bookkeeping.                                                            *)

\* _release_page for every page of S.
Release(S) ==
  /\ owned' = owned \ S
  /\ claims' = [k \in Claimants |-> IF claims[k] \in S THEN NoPage ELSE claims[k]]
  /\ primary' = IF primary \in S THEN NoPage ELSE primary

\* Mutant: the set of owned pages is keyed by the claim.
ClaimUnderKey(k, p) ==
  /\ owned' = owned \cup {k}
  /\ claims' = [claims EXCEPT ![k] = p]
  /\ UNCHANGED primary

\* _claim_page
Claim(k, p) ==
  /\ owned' = owned \cup {p}
  /\ claims' = [claims EXCEPT ![k] = p]
  /\ UNCHANGED primary

\* _mark_disconnected: the first report drops the context; its pages stay
\* open in the abandoned browser until that is discarded.
MarkDisconnected ==
  IF reported THEN UNCHANGED <<live, reported>>
  ELSE live' = FALSE /\ reported' = TRUE

-----------------------------------------------------------------------------
(* Events.                                                                 *)

\* _page_closed: anything but an owned secondary page counts as the loss of
\* the browser.
PageClosed(p) ==
  /\ IsOpen(p)
  /\ tab' = [tab EXCEPT ![p] = "closed"]
  /\ Release({p})
  /\ IF p = primary \/ p \notin owned THEN MarkDisconnected ELSE UNCHANGED <<live, reported>>
  /\ UNCHANGED up

\* _page_crashed: a secondary page is released but stays open; otherwise the
\* interruption is reported while the context is kept.
PageCrashed(p) ==
  /\ IsOpen(p)
  /\ tab[p] # "crashed"
  /\ tab' = [tab EXCEPT ![p] = "crashed"]
  /\ IF p \in owned /\ p # primary
     THEN Release({p}) /\ UNCHANGED reported
     ELSE reported' = TRUE /\ UNCHANGED <<owned, claims, primary>>
  /\ UNCHANGED <<up, live>>

\* Chromium ends: every page closes, then the context.
BrowserGone ==
  /\ up
  /\ up' = FALSE
  /\ tab' = [p \in Pages |-> "closed"]
  /\ Release(Pages)
  /\ MarkDisconnected

-----------------------------------------------------------------------------
(* Calls of the provider service.                                          *)

\* release_page and then page.close(): by the time the close event arrives
\* the page is nobody's.
ReleaseAndClose(p) ==
  /\ Release({p})
  /\ IF IsOpen(p)
     THEN tab' = [tab EXCEPT ![p] = "closed"] /\ MarkDisconnected
     ELSE UNCHANGED <<tab, live, reported>>
  /\ UNCHANGED up

\* Mutant: claims of other conversations are not looked at.
EligibleOnSite(k) ==
  IF IsOpen(claims[k]) THEN {claims[k]} ELSE {p \in Pages : tab[p] \in {"chat", "crashed"}}

\* page_for: pages on the provider's site that no other conversation claims.
Eligible(k) ==
  IF IsOpen(claims[k]) THEN {claims[k]}
  ELSE {p \in Pages : /\ tab[p] \in {"chat", "crashed"}
                      /\ k # NoConv => \A other \in Claimants \ {k} : claims[other] # p}

\* page_for on a live browser, with a page that is there already.
PageForExisting(k, p) ==
  /\ live
  /\ p \in Eligible(k)
  /\ Claim(k, p)
  /\ UNCHANGED <<tab, up, live, reported>>

\* page_for on a live browser, with new page p.
PageForNew(k, p) ==
  /\ live /\ up
  /\ Eligible(k) = {}
  /\ tab' = [tab EXCEPT ![p] = "blank"]
  /\ Claim(k, p)
  /\ UNCHANGED <<up, live, reported>>

\* A launched browser shows its blank launch page; whatever the previous one
\* showed is closed, and the close events released it.
Launched(launch, new) ==
  /\ tab' = [p \in Pages |-> IF p \in {launch} \cup new THEN "blank" ELSE "closed"]
  /\ up' = TRUE /\ live' = TRUE /\ reported' = FALSE
  /\ primary' = NoPage

\* page_for when the browser was lost: start() discards what is left of it,
\* launches another, and the blank launch page is no candidate.
PageForLaunched(k, launch, p) ==
  /\ ~live
  /\ launch # p
  /\ Launched(launch, {p})
  /\ owned' = {p}
  /\ claims' = [other \in Claimants |-> IF other = k THEN p ELSE NoPage]

\* restart: stop clears every record of pages and closes them, start launches.
Restart(launch) ==
  /\ Launched(launch, {})
  /\ owned' = {}
  /\ claims' = [k \in Claimants |-> NoPage]

\* A start or restart whose launch fails leaves no browser.
LaunchFailed ==
  /\ tab' = [p \in Pages |-> "closed"]
  /\ up' = FALSE /\ live' = FALSE /\ reported' = TRUE
  /\ Release(Pages)

\* _authenticate, _bootstrap_page: goto the provider, only from a blank page.
Navigate(p) ==
  /\ tab[p] = "blank"
  /\ tab' = [tab EXCEPT ![p] = "chat"]
  /\ UNCHANGED <<up, live, reported, owned, claims, primary>>

=============================================================================
