---------------------- MODULE ConversationPagesProofs -----------------------
(***************************************************************************)
(* Proofs about pages and conversations, for any number of both, any cap   *)
(* and any number of restarts: chats stay apart, pages stay within the cap *)
(* and are accounted for, no request leaves its page behind, and none goes *)
(* on for ever.                                                            *)
(***************************************************************************)
EXTENDS ConversationPages, TLAPS, FiniteSetTheorems

\* A page that may come to show a chat's answer; a crashed one never does.
Usable(p) == p \in Pages /\ tab[p] \in {"blank", "chat"}

\* Page p is claimed for conversation c, or under another of its names.
Mine(c, p) == \E d \in Names(c) : claims[d] = p

\* Who claims a page.  No two conversations claim one; a conversation claims
\* the usable page that is its own, and the one it has a chat on; a blank page
\* in somebody's hands is new, and a closed one shows nothing.
ClaimsApart ==
  \A j, k \in Convs : claims[j] = claims[k] /\ claims[j] # NoPage => j = k

AliasClaimed ==
  /\ AutoConv \in fallback
  /\ \A c \in Convs : Usable(alias[c]) => Mine(c, alias[c])

HoldsClaimed ==
  \A p \in Pages, c \in Convs : tab[p] = "chat" /\ holds[p] = c => Mine(c, p)

BlankIsNew ==
  \A p \in Pages :
    /\ tab[p] = "closed" => holds[p] = NoConv
    /\ \A k \in Claimants : tab[p] = "blank" /\ claims[k] = p => holds[p] = NoConv

\* The page a prompt is about to be sent on.
SendsOnOwnPage == w.pc = "send" /\ Usable(w.page) => Mine(w.conv, w.page)

\* Of the open pages one at most is without a record: the launch page, or the
\* page of DeepSeek's login.
OneUntracked ==
  \A p, q \in Pages : IsOpen(p) /\ IsOpen(q) /\ p \notin tracked /\ q \notin tracked => p = q

\* There is room for a page when one is about to be opened.
RoomToOpen ==
  /\ IsFiniteSet(tracked)
  /\ Cardinality(tracked) <= MaxPages
  /\ w.pc = "open" => Cardinality(tracked) < MaxPages

\* The request marks one page, its conversation's, from its first lookup until
\* it ends or looks for another page.
MarksItsPage ==
  /\ active \subseteq {w.page}
  /\ active # {} => /\ w.pc \in {"resolve", "send"}
                    /\ w.pc = "resolve" => w.pass # "first"
                    /\ alias[w.conv] = w.page

\* What the worker's record says of the request.
WorkerAgrees ==
  /\ w.pc # "free" => w.conv \in Convs
  /\ w.pc = "send" => w.page \in Pages
  /\ ~Qwen => w.pass = "first"
  /\ w.pc \in {"refused", "failed"} => w.tries > 1

ClaimInv == ClaimsApart /\ AliasClaimed /\ HoldsClaimed /\ BlankIsNew /\ SendsOnOwnPage

TrackInv == OpenPagesAreTracked /\ OneUntracked /\ RoomToOpen

WorkInv == MarksItsPage /\ WorkerAgrees

PagesInv == PagesTypeOK /\ ClaimInv /\ TrackInv /\ WorkInv

-----------------------------------------------------------------------------

LEMMA FreeWorkerFact ==
  FreeWorker \in Worker /\ FreeWorker.pc = "free" /\ FreeWorker.pass = "first"
BY ConversationPagesAssumption DEF FreeWorker, Worker, Claimants

\* What pages show once some have been closed.
LEMMA ShownFact ==
  ASSUME NEW h \in [Pages -> Claimants]
  PROVE  /\ Shown(h) \in [Pages -> Claimants]
         /\ \A p \in Pages : Shown(h)[p] = IF tab'[p] = "closed" THEN NoConv ELSE h[p]
BY DEF Shown, Claimants

\* A conversation has its own name, and two that share one share all.
LEMMA NamesFact ==
  ASSUME PagesInv, NEW c \in Convs
  PROVE  /\ c \in Names(c) /\ Names(c) \subseteq Convs
         /\ \A d \in Names(c) : Names(d) = Names(c)
BY DEF PagesInv, PagesTypeOK, Names

LEMMA PagesInitInv == PagesInit => PagesInv
<1>. SUFFICES ASSUME PagesInit PROVE PagesInv
  OBVIOUS
<1>. USE BrowserPagesAssumption, ConversationPagesAssumption
<1>1. PagesTypeOK
  <2>1. BrowserTypeOK
    BY DEF PagesInit, BrowserTypeOK, Claimants
  <2>. QED  BY <2>1, FreeWorkerFact DEF PagesInit, PagesTypeOK, Claimants, aliasVars
<1>2. ClaimInv
  BY DEF PagesInit, ClaimInv, ClaimsApart, AliasClaimed, HoldsClaimed, BlankIsNew,
         SendsOnOwnPage, Usable, Claimants, FreeWorker, Mine, Names, aliasVars
<1>3. TrackInv
  <2>1. OpenPagesAreTracked /\ OneUntracked
    BY DEF PagesInit, OpenPagesAreTracked, OneUntracked, IsOpen, aliasVars
  <2>2. IsFiniteSet(tracked) /\ Cardinality(tracked) \in {0, 1}
    <3>1. PICK login : tracked \in {{}, {login}}
      BY DEF PagesInit
    <3>2. CASE tracked = {}
      BY <3>2, FS_EmptySet
    <3>3. CASE tracked = {login}
      <4>1. IsFiniteSet({login}) /\ Cardinality({login}) = 1
        BY FS_Singleton
      <4>. QED  BY <3>3, <4>1
    <3>. QED  BY <3>1, <3>2, <3>3
  <2>. QED  BY <2>1, <2>2 DEF PagesInit, RoomToOpen, FreeWorker, TrackInv
<1>4. WorkInv
  BY DEF PagesInit, WorkInv, MarksItsPage, WorkerAgrees, FreeWorker, aliasVars
<1>. QED  BY <1>1, <1>2, <1>3, <1>4 DEF PagesInv

-----------------------------------------------------------------------------
(* Steps of the worker alone.                                              *)

\* Neither the browser nor the maps change; the worker does not come to send
\* on, or to open, anything.
LEMMA WorkerStep ==
  ASSUME PagesInv, UNCHANGED <<browserVars, aliasVars, tracked, idle, provider>>, holds' = holds,
         w' \in Worker, w'.pc \notin {"open", "send"}, active' \subseteq active,
         active' # {} => /\ w'.pc = "resolve" /\ w'.pass # "first"
                         /\ w'.page = w.page /\ w'.conv = w.conv,
         w'.pc # "free" => w'.conv \in Convs,
         ~Qwen => w'.pass = "first",
         w'.pc \in {"refused", "failed"} => w'.tries > 1
  PROVE  PagesInv'
<1>1. PagesTypeOK'
  BY DEF PagesInv, PagesTypeOK, BrowserTypeOK, browserVars, aliasVars
<1>2. ClaimInv'
  BY DEF PagesInv, ClaimInv, ClaimsApart, AliasClaimed, HoldsClaimed, BlankIsNew,
         SendsOnOwnPage, Usable, browserVars, Mine, Names, aliasVars
<1>3. TrackInv'
  BY DEF PagesInv, TrackInv, OpenPagesAreTracked, OneUntracked, RoomToOpen, IsOpen, browserVars, aliasVars
<1>4. WorkInv'
  BY DEF PagesInv, WorkInv, MarksItsPage, WorkerAgrees, Qwen, aliasVars
<1>. QED  BY <1>1, <1>2, <1>3, <1>4 DEF PagesInv

\* A request that ends or waits to be tried again leaves no page marked.
LEMMA Unmarked ==
  ASSUME PagesInv, NEW pc, Raise(pc) \/ (MarkInactive /\ w' = FreeWorker)
  PROVE  active' = {}
BY DEF Raise, MarkInactive, PagesInv, WorkInv, MarksItsPage, aliasVars

LEMMA RaiseWorker ==
  ASSUME PagesInv, w.pc # "free", NEW pc \in {"refused", "failed"}, Raise(pc)
  PROVE  /\ w' \in Worker /\ w'.pc \in {"refused", "failed", "free"}
         /\ w'.pc # "free" => w'.conv \in Convs
         /\ ~Qwen => w'.pass = "first"
         /\ w'.pc \in {"refused", "failed"} => w'.tries > 1
BY BrowserPagesAssumption, ConversationPagesAssumption
DEF Raise, PagesInv, PagesTypeOK, Worker, WorkInv, WorkerAgrees, FreeWorker, Claimants, aliasVars

LEMMA BeginInv ==
  ASSUME PagesInv, UNCHANGED provider, NEW c \in Convs, Begin(c)
  PROVE  PagesInv'
<1>1. PICK tries \in {1, Retries + 1} :
        w' = [FreeWorker EXCEPT !.pc = "resolve", !.conv = c, !.tries = tries]
  BY DEF Begin
<1>2. /\ w' \in Worker /\ w'.pc = "resolve" /\ w'.conv = c /\ w'.pass = "first"
  <2>1. w' = [pc |-> "resolve", conv |-> c, page |-> NoPage, tries |-> tries,
              pass |-> "first", left |-> {}]
    BY <1>1 DEF FreeWorker
  <2>2. tries \in 0 .. Retries + 1
    BY ConversationPagesAssumption
  <2>. QED  BY <2>1, <2>2 DEF Worker, Claimants
<1>3. active = {}
  BY DEF Begin, PagesInv, WorkInv, MarksItsPage, aliasVars
<1>. QED  BY <1>2, <1>3, WorkerStep DEF Begin, serviceVars, aliasVars

LEMMA EndsInv ==
  ASSUME PagesInv, UNCHANGED provider, Fail \/ GiveUp \/ Refuse
  PROVE  PagesInv'
<1>1. UNCHANGED <<browserVars, aliasVars, tracked, idle, holds>> /\ w.pc # "free"
  BY DEF Fail, GiveUp, Refuse, aliasVars
<1>2. CASE GiveUp
  BY <1>1, <1>2, Unmarked, FreeWorkerFact, WorkerStep DEF GiveUp
<1>3. CASE Raise("failed") \/ Raise("refused")
  BY <1>1, <1>3, Unmarked, RaiseWorker, WorkerStep
<1>. QED  BY <1>2, <1>3 DEF Fail, Refuse, aliasVars

LEMMA SweptInv ==
  ASSUME PagesInv, UNCHANGED provider, Swept
  PROVE  PagesInv'
<1>1. /\ w' \in Worker /\ w'.pc = "open" /\ w'.conv = w.conv /\ w'.pass = w.pass
      /\ w'.page = w.page
  BY DEF Swept, PagesInv, PagesTypeOK, Worker, aliasVars
<1>2. PagesTypeOK'
  BY <1>1 DEF Swept, PagesInv, PagesTypeOK, BrowserTypeOK, browserVars, serviceVars, aliasVars
<1>3. ClaimInv'
  BY <1>1 DEF Swept, PagesInv, ClaimInv, ClaimsApart, AliasClaimed, HoldsClaimed, BlankIsNew,
         SendsOnOwnPage, Usable, browserVars, serviceVars, Mine, Names, aliasVars
<1>4. TrackInv'
  <2>1. Cardinality(tracked) \in Nat
    BY FS_CardinalityType DEF PagesInv, TrackInv, RoomToOpen
  <2>. QED
    BY <1>1, <2>1, ConversationPagesAssumption DEF Swept, Full, PagesInv, TrackInv, OpenPagesAreTracked, OneUntracked,
       RoomToOpen, IsOpen, browserVars, serviceVars, aliasVars
<1>5. WorkInv'
  BY <1>1 DEF Swept, PagesInv, WorkInv, MarksItsPage, WorkerAgrees, Qwen, serviceVars, aliasVars
<1>. QED  BY <1>2, <1>3, <1>4, <1>5 DEF PagesInv

-----------------------------------------------------------------------------
(* Lookups.                                                                *)

LEMMA FewerTracked ==
  ASSUME PagesInv, NEW S, S \subseteq tracked
  PROVE  /\ IsFiniteSet(S) /\ Cardinality(S) \in Nat /\ Cardinality(S) <= MaxPages
         /\ Cardinality(S) <= Cardinality(tracked)
<1>1. IsFiniteSet(tracked) /\ Cardinality(tracked) <= MaxPages
  BY DEF PagesInv, TrackInv, RoomToOpen
<1>2. IsFiniteSet(S) /\ Cardinality(S) <= Cardinality(tracked)
  BY <1>1, FS_Subset
<1>3. Cardinality(S) \in Nat /\ Cardinality(tracked) \in Nat
  BY <1>1, <1>2, FS_CardinalityType
<1>. QED  BY <1>1, <1>2, <1>3, ConversationPagesAssumption

\* A lookup that returns a page marks it if it is the first, and the page that
\* is marked is the conversation's.
LEMMA GrantedWorker ==
  ASSUME PagesInv, w.pc \in {"resolve", "open", "goto"}, NEW p \in Pages, Granted(p)
  PROVE  /\ w' \in Worker /\ w'.pc \in {"send", "resolve"} /\ w'.conv = w.conv
         /\ w'.tries = w.tries
         /\ w'.pc = "send" => w'.page = p
         /\ w'.pc = "resolve" => w'.pass # "first"
         /\ ~Qwen => w'.pass = "first"
         /\ w'.page = IF w.pass = "login" THEN w.page ELSE p
         /\ active' = IF w.pass = "first" THEN active \cup {p} ELSE active
<1>1. PICK next \in NextPass :
        w' = [w EXCEPT !.pc   = IF next = "done" THEN "send" ELSE "resolve",
                       !.page = IF w.pass = "login" THEN @ ELSE p,
                       !.pass = IF next = "done" THEN @ ELSE next]
  BY DEF Granted
<1>2. /\ w \in Worker /\ (~Qwen => w.pass = "first") /\ w.pass \in {"first", "login", "last"}
  BY DEF PagesInv, PagesTypeOK, WorkInv, WorkerAgrees, Worker, aliasVars
<1>3. /\ next \in {"done", "login", "last"}
      /\ next = "done" => ~Qwen \/ w.pass = "last"
      /\ ~Qwen => next = "done"
  BY <1>2 DEF NextPass
<1>. QED  BY <1>1, <1>2, <1>3 DEF Worker, Granted

LEMMA GrantedWorkInv ==
  ASSUME PagesInv, UNCHANGED provider, w.pc \in {"resolve", "open", "goto"}, NEW p \in Pages,
         Granted(p), alias'[w.conv] = p, alias' = alias \/ w.pc = "open"
  PROVE  WorkInv'
<1>1. w.conv \in Convs /\ active \subseteq {w.page}
  BY DEF PagesInv, WorkInv, WorkerAgrees, MarksItsPage, aliasVars
<1>2. WorkerAgrees'
  BY <1>1, GrantedWorker DEF WorkerAgrees, Qwen
<1>3. MarksItsPage'
  <2>1. CASE active = {}
    BY <1>1, <2>1, GrantedWorker DEF MarksItsPage, PagesInv, WorkInv, WorkerAgrees, aliasVars
  <2>2. CASE active # {}
    <3>1. /\ w.pc = "resolve" /\ w.pass # "first" /\ alias[w.conv] = w.page
      BY <2>2 DEF PagesInv, WorkInv, MarksItsPage, aliasVars
    <3>2. w.page = p
      BY <3>1
    <3>. QED  BY <1>1, <3>1, <3>2, GrantedWorker DEF MarksItsPage, aliasVars
  <2>. QED  BY <2>1, <2>2
<1>. QED  BY <1>2, <1>3 DEF WorkInv

LEMMA ReuseInv ==
  ASSUME PagesInv, UNCHANGED provider, Reuse
  PROVE  PagesInv'
<1>. DEFINE p == alias[w.conv]
<1>1. /\ p \in Pages /\ IsOpen(p) /\ w.conv \in Convs /\ w.pc = "resolve" /\ Granted(p)
      /\ UNCHANGED <<browserVars, aliasVars, holds>>
  BY DEF Reuse, IsOpen, PagesInv, WorkInv, WorkerAgrees
<1>2. tracked' = tracked /\ idle' = idle \ {p}
  BY <1>1 DEF Reuse, Track, PagesInv, TrackInv, OpenPagesAreTracked, aliasVars
<1>3. p \in tracked
  BY <1>1 DEF PagesInv, TrackInv, OpenPagesAreTracked, aliasVars
<1>4. PagesTypeOK'
  BY <1>1, <1>2, <1>3, GrantedWorker DEF PagesInv, PagesTypeOK, BrowserTypeOK, browserVars, aliasVars
<1>5. ClaimInv'
  BY <1>1, GrantedWorker
  DEF PagesInv, ClaimInv, ClaimsApart, AliasClaimed, HoldsClaimed, BlankIsNew, SendsOnOwnPage,
      Usable, browserVars, Mine, Names, aliasVars
<1>6. TrackInv'
  BY <1>1, <1>2, GrantedWorker
  DEF PagesInv, TrackInv, OpenPagesAreTracked, OneUntracked, RoomToOpen, IsOpen, browserVars, aliasVars
<1>7. WorkInv'
  BY <1>1, GrantedWorkInv DEF aliasVars
<1>. QED  BY <1>4, <1>5, <1>6, <1>7 DEF PagesInv

LEMMA MissInv ==
  ASSUME PagesInv, UNCHANGED provider, Miss
  PROVE  PagesInv'
<1>. USE BrowserPagesAssumption
<1>. DEFINE a == alias[w.conv]
<1>1. /\ w.conv \in Convs /\ w.pc = "resolve" /\ ~IsOpen(a) /\ a \in Pages \cup {NoPage}
      /\ RemovePage(a) /\ Release({a}) /\ UNCHANGED <<tab, up, live, reported, holds>>
  BY DEF Miss, PagesInv, PagesTypeOK, WorkInv, WorkerAgrees, aliasVars
<1>2. w' \in Worker /\ w'.pc = "sweep" /\ w'.conv = w.conv /\ w'.page = w.page
      /\ w'.pass = w.pass
  BY DEF Miss, PagesInv, PagesTypeOK, Worker, aliasVars
<1>3. PagesTypeOK'
  BY <1>1, <1>2 DEF RemovePage, Release, PagesInv, PagesTypeOK, BrowserTypeOK, aliasVars
<1>4. ClaimInv'
  <2>1. /\ fallback' = fallback /\ alias \in [Convs -> Pages \cup {NoPage}]
        /\ alias' = [c \in Convs |-> IF alias[c] = a THEN NoPage ELSE alias[c]]
        /\ claims' = [k \in Claimants |-> IF claims[k] \in {a} THEN NoPage ELSE claims[k]]
        /\ claims \in [Claimants -> Pages \cup {NoPage}]
    BY <1>1 DEF RemovePage, Release, PagesInv, PagesTypeOK, BrowserTypeOK
  <2>2. \A c \in Convs, q \in Pages : Mine(c, q) /\ Usable(q) => Mine(c, q)'
    BY <1>1, <2>1, NamesFact DEF Mine, Names, Usable, IsOpen, Claimants
  <2>3. ClaimsApart' /\ BlankIsNew'
    BY <1>1, <2>1 DEF PagesInv, ClaimInv, ClaimsApart, BlankIsNew, Claimants
  <2>4. AliasClaimed' /\ HoldsClaimed' /\ SendsOnOwnPage'
    BY <1>1, <1>2, <2>1, <2>2
    DEF PagesInv, ClaimInv, AliasClaimed, HoldsClaimed, SendsOnOwnPage, Usable
  <2>. QED  BY <2>3, <2>4 DEF ClaimInv
<1>5. TrackInv'
  <2>1. OpenPagesAreTracked' /\ OneUntracked'
    BY <1>1 DEF RemovePage, Release, PagesInv, TrackInv, OpenPagesAreTracked, OneUntracked, IsOpen, aliasVars
  <2>2. RoomToOpen'
    BY <1>1, <1>2, FewerTracked DEF RemovePage, RoomToOpen
  <2>. QED  BY <2>1, <2>2 DEF TrackInv
<1>6. WorkInv'
  <2>1. active' = {}
    BY <1>1 DEF RemovePage, PagesInv, WorkInv, MarksItsPage, aliasVars
  <2>. QED  BY <1>1, <1>2, <2>1 DEF PagesInv, WorkInv, MarksItsPage, WorkerAgrees, Qwen, aliasVars
<1>. QED  BY <1>3, <1>4, <1>5, <1>6 DEF PagesInv

LEMMA SweepInv ==
  ASSUME PagesInv, UNCHANGED provider, NEW p \in Pages, Sweep(p)
  PROVE  PagesInv'
<1>. USE BrowserPagesAssumption
<1>1. /\ w.conv \in Convs /\ w.pc = "sweep" /\ RemovePage(p) /\ Release({p})
      /\ tab' \in [Pages -> {"closed", "blank", "chat", "crashed"}]
      /\ tab'[p] = "closed"
      /\ \A q \in Pages \ {p} : tab'[q] = tab[q]
      /\ up' = up /\ live' \in BOOLEAN /\ reported' \in BOOLEAN /\ holds' = Shown(holds)
  BY DEF Sweep, ReleaseAndClose, MarkDisconnected, IsOpen, PagesInv, PagesTypeOK, BrowserTypeOK,
         WorkInv, WorkerAgrees, aliasVars
<1>2. w' \in Worker /\ w'.pc = "sweep" /\ w'.conv = w.conv /\ w'.page = w.page
      /\ w'.pass = w.pass
  BY DEF Sweep, PagesInv, PagesTypeOK, Worker, aliasVars
<1>0. /\ holds' \in [Pages -> Claimants]
      /\ \A q \in Pages : holds'[q] = IF tab'[q] = "closed" THEN NoConv ELSE holds[q]
  BY <1>1, ShownFact DEF PagesInv, PagesTypeOK
<1>3. PagesTypeOK'
  BY <1>0, <1>1, <1>2 DEF RemovePage, Release, PagesInv, PagesTypeOK, BrowserTypeOK, aliasVars
<1>4. ClaimInv'
  <2>1. /\ fallback' = fallback /\ alias \in [Convs -> Pages \cup {NoPage}]
        /\ alias' = [c \in Convs |-> IF alias[c] = p THEN NoPage ELSE alias[c]]
        /\ claims' = [k \in Claimants |-> IF claims[k] \in {p} THEN NoPage ELSE claims[k]]
        /\ claims \in [Claimants -> Pages \cup {NoPage}]
    BY <1>1 DEF RemovePage, Release, PagesInv, PagesTypeOK, BrowserTypeOK
  <2>2. \A c \in Convs, q \in Pages \ {p} : Mine(c, q) => Mine(c, q)'
    BY <1>1, <2>1, NamesFact DEF Mine, Names, Claimants
  <2>3. ClaimsApart' /\ BlankIsNew'
    BY <1>0, <1>1, <2>1 DEF PagesInv, ClaimInv, ClaimsApart, BlankIsNew, Claimants
  <2>4. AliasClaimed' /\ HoldsClaimed' /\ SendsOnOwnPage'
    BY <1>0, <1>1, <1>2, <2>1, <2>2
    DEF PagesInv, ClaimInv, AliasClaimed, HoldsClaimed, SendsOnOwnPage, Usable
  <2>. QED  BY <2>3, <2>4 DEF ClaimInv
<1>5. TrackInv'
  <2>1. OpenPagesAreTracked' /\ OneUntracked'
    BY <1>1 DEF RemovePage, Release, PagesInv, TrackInv, OpenPagesAreTracked, OneUntracked, IsOpen, aliasVars
  <2>2. RoomToOpen'
    BY <1>1, <1>2, FewerTracked DEF RemovePage, RoomToOpen
  <2>. QED  BY <2>1, <2>2 DEF TrackInv
<1>6. WorkInv'
  <2>1. active' = {}
    BY <1>1 DEF RemovePage, PagesInv, WorkInv, MarksItsPage, aliasVars
  <2>. QED  BY <1>1, <1>2, <2>1 DEF PagesInv, WorkInv, MarksItsPage, WorkerAgrees, Qwen, aliasVars
<1>. QED  BY <1>3, <1>4, <1>5, <1>6 DEF PagesInv

-----------------------------------------------------------------------------
(* A page for the conversation.                                            *)

\* Whichever page it is, the service records it alike.
LEMMA AdoptFacts ==
  ASSUME PagesInv, UNCHANGED provider, w.pc = "open", NEW p \in Pages, Adopt(p)
  PROVE  /\ w.conv \in Convs
         /\ alias' \in [Convs -> Pages \cup {NoPage}]
         /\ alias'[w.conv] = p /\ fallback' = fallback
         /\ \A c \in Convs : alias'[c] = alias[c] \/ (alias'[c] = p /\ w.conv \in Names(c))
         /\ tracked' = tracked \cup {p} /\ idle' \subseteq tracked'
         /\ active' \subseteq tracked'
         /\ w' \in Worker /\ w'.conv = w.conv /\ (w'.pc = "send" => w'.page = p)
         /\ RoomToOpen' /\ WorkInv'
<1>1. /\ w.conv \in Convs /\ active = {} /\ w \in Worker
      /\ alias \in [Convs -> Pages \cup {NoPage}] /\ idle \subseteq tracked
      /\ fallback' = fallback
      /\ alias' = [c \in Convs |-> IF c = w.conv \/ (w.conv = AutoConv /\ c \in fallback)
                                   THEN p ELSE alias[c]]
      /\ tracked' = tracked \cup {p} /\ idle' = idle \ {p}
  BY DEF PagesInv, PagesTypeOK, WorkInv, WorkerAgrees, MarksItsPage, Adopt, AliasTo, Track
<1>4. /\ alias' \in [Convs -> Pages \cup {NoPage}] /\ alias'[w.conv] = p
      /\ \A c \in Convs : alias'[c] = alias[c] \/ (alias'[c] = p /\ w.conv \in Names(c))
  BY <1>1 DEF Names, PagesInv, ClaimInv, AliasClaimed
<1>2. /\ active' \subseteq tracked' /\ w' \in Worker /\ w'.pc # "open"
      /\ w'.conv = w.conv /\ (w'.pc = "send" => w'.page = p) /\ WorkInv'
  <2>1. CASE w' = [w EXCEPT !.pc = "goto"] /\ active' = active
    <3>1. w' \in Worker /\ w'.pc = "goto" /\ w'.conv = w.conv /\ w'.pass = w.pass
      BY <1>1, <2>1 DEF Worker
    <3>2. WorkInv'
      BY <1>1, <2>1, <3>1 DEF PagesInv, WorkInv, WorkerAgrees, MarksItsPage, Qwen, aliasVars
    <3>. QED  BY <1>1, <2>1, <3>1, <3>2
  <2>2. CASE Granted(p)
    <3>1. alias'[w.conv] = p
      BY <1>1
    <3>2. WorkInv'
      BY <2>2, <3>1, GrantedWorkInv
    <3>. QED  BY <1>1, <2>2, <3>2, GrantedWorker
  <2>. QED  BY <2>1, <2>2 DEF Adopt
<1>3. RoomToOpen'
  <2>1. IsFiniteSet(tracked) /\ Cardinality(tracked) \in Nat /\ Cardinality(tracked) < MaxPages
    BY FewerTracked DEF PagesInv, TrackInv, RoomToOpen
  <2>2. /\ IsFiniteSet(tracked \cup {p})
        /\ Cardinality(tracked \cup {p}) \in {Cardinality(tracked), Cardinality(tracked) + 1}
    BY <2>1, FS_AddElement
  <2>. QED  BY <1>1, <1>2, <2>1, <2>2, ConversationPagesAssumption DEF RoomToOpen
<1>. QED  BY <1>1, <1>2, <1>3, <1>4

\* A page that is there already: the conversation's, or one nobody else claims.
LEMMA OpenExistingInv ==
  ASSUME PagesInv, UNCHANGED provider, w.pc = "open", NEW p \in Pages,
         PageForExisting(w.conv, p), Adopt(p), holds' = holds
  PROVE  PagesInv'
<1>. USE BrowserPagesAssumption
<1>1. /\ UNCHANGED <<tab, up, live, reported, primary>> /\ owned' = owned \cup {p}
      /\ p \in Eligible(w.conv) /\ IsOpen(p) /\ w.conv \in Convs
      /\ claims' = [claims EXCEPT ![w.conv] = p]
      /\ claims \in [Claimants -> Pages \cup {NoPage}]
  BY AdoptFacts DEF PageForExisting, Claim, Eligible, IsOpen, PagesInv, PagesTypeOK, BrowserTypeOK, aliasVars
<1>2. /\ claims' \in [Claimants -> Pages \cup {NoPage}] /\ claims'[w.conv] = p
      /\ \A k \in Claimants : k # w.conv => claims'[k] = claims[k]
  BY <1>1 DEF Claimants
<1>3. /\ IsOpen(claims[w.conv]) => p = claims[w.conv]
      /\ ~IsOpen(claims[w.conv]) =>
           tab[p] \in {"chat", "crashed"} /\ \A k \in Convs \ {w.conv} : claims[k] # p
  BY <1>1 DEF Eligible, Claimants
<1>4. PagesTypeOK'
  BY <1>1, <1>2, AdoptFacts DEF PagesInv, PagesTypeOK, BrowserTypeOK, aliasVars
<1>5. ClaimsApart'
  BY <1>1, <1>2, <1>3 DEF PagesInv, ClaimInv, ClaimsApart, Claimants
<1>11. \A c \in Convs, q \in Pages : Mine(c, q) /\ IsOpen(q) => Mine(c, q)'
  BY <1>1, <1>2, <1>3, AdoptFacts, NamesFact DEF Mine, Names, Claimants
<1>12. \A c \in Convs : w.conv \in Names(c) => Mine(c, p)'
  BY <1>1, <1>2, AdoptFacts DEF Mine, Names
<1>6. AliasClaimed'
  BY <1>1, <1>11, <1>12, AdoptFacts DEF PagesInv, ClaimInv, AliasClaimed, Usable, IsOpen
<1>7. HoldsClaimed'
  BY <1>1, <1>11 DEF PagesInv, ClaimInv, HoldsClaimed, IsOpen
<1>8. BlankIsNew'
  BY <1>1, <1>2, <1>3 DEF PagesInv, ClaimInv, BlankIsNew, Claimants
<1>9. SendsOnOwnPage'
  BY <1>1, <1>12, AdoptFacts, NamesFact DEF SendsOnOwnPage
<1>10. OpenPagesAreTracked' /\ OneUntracked'
  BY <1>1, AdoptFacts DEF PagesInv, TrackInv, OpenPagesAreTracked, OneUntracked, IsOpen, aliasVars
<1>. QED
  BY <1>4, <1>5, <1>6, <1>7, <1>8, <1>9, <1>10, AdoptFacts DEF PagesInv, ClaimInv, TrackInv

LEMMA FreshFact ==
  ASSUME NEW p \in Fresh
  PROVE  /\ p \in Pages /\ ~IsOpen(p) /\ p \notin owned /\ p \notin tracked /\ p # w.page
         /\ \A k \in Claimants : claims[k] # p
         /\ \A c \in Convs : alias[c] # p
BY DEF Fresh

LEMMA OpenNewInv ==
  ASSUME PagesInv, UNCHANGED provider, w.pc = "open", NEW p \in Fresh,
         PageForNew(w.conv, p), Adopt(p), holds' = Shown(holds)
  PROVE  PagesInv'
<1>. USE BrowserPagesAssumption
<1>0. p \in Pages
  BY FreshFact
<1>1. /\ UNCHANGED <<up, live, reported, primary>> /\ owned' = owned \cup {p}
      /\ w.conv \in Convs
      /\ claims' = [claims EXCEPT ![w.conv] = p] /\ tab' = [tab EXCEPT ![p] = "blank"]
      /\ claims \in [Claimants -> Pages \cup {NoPage}]
      /\ tab \in [Pages -> {"closed", "blank", "chat", "crashed"}]
      /\ holds \in [Pages -> Claimants]
      /\ ~IsOpen(claims[w.conv])
  BY <1>0, AdoptFacts DEF PageForNew, Claim, Eligible, PagesInv, PagesTypeOK, BrowserTypeOK, aliasVars
<1>2. /\ claims' \in [Claimants -> Pages \cup {NoPage}] /\ claims'[w.conv] = p
      /\ \A k \in Claimants : k # w.conv => claims'[k] = claims[k]
      /\ tab' \in [Pages -> {"closed", "blank", "chat", "crashed"}] /\ tab'[p] = "blank"
      /\ \A q \in Pages : q # p => tab'[q] = tab[q]
      /\ holds' \in [Pages -> Claimants]
      /\ \A q \in Pages : holds'[q] = IF tab'[q] = "closed" THEN NoConv ELSE holds[q]
  BY <1>0, <1>1, ShownFact DEF Claimants
<1>3. tab[p] = "closed" /\ holds'[p] = NoConv
  BY <1>0, <1>2, FreshFact DEF IsOpen, PagesInv, ClaimInv, BlankIsNew
<1>4. PagesTypeOK'
  BY <1>0, <1>1, <1>2, AdoptFacts DEF PagesInv, PagesTypeOK, BrowserTypeOK, aliasVars
<1>5. ClaimsApart'
  BY <1>1, <1>2, FreshFact DEF PagesInv, ClaimInv, ClaimsApart, Claimants
<1>11. \A c \in Convs, q \in Pages : Mine(c, q) /\ IsOpen(q) => Mine(c, q)'
  BY <1>0, <1>1, <1>2, AdoptFacts, NamesFact DEF Mine, Names, Claimants
<1>12. \A c \in Convs : w.conv \in Names(c) => Mine(c, p)'
  BY <1>1, <1>2, AdoptFacts DEF Mine, Names
<1>6. AliasClaimed'
  BY <1>0, <1>1, <1>2, <1>11, <1>12, AdoptFacts, FreshFact
  DEF PagesInv, ClaimInv, AliasClaimed, Usable, IsOpen
<1>7. HoldsClaimed'
  BY <1>1, <1>2, <1>11 DEF PagesInv, ClaimInv, HoldsClaimed, IsOpen
<1>8. BlankIsNew'
  BY <1>1, <1>2, <1>3 DEF PagesInv, ClaimInv, BlankIsNew, Claimants
<1>9. SendsOnOwnPage'
  BY <1>0, <1>1, <1>12, AdoptFacts, NamesFact DEF SendsOnOwnPage
<1>10. OpenPagesAreTracked' /\ OneUntracked'
  BY <1>0, <1>1, <1>2, AdoptFacts DEF PagesInv, TrackInv, OpenPagesAreTracked, OneUntracked, IsOpen, aliasVars
<1>. QED
  BY <1>0, <1>4, <1>5, <1>6, <1>7, <1>8, <1>9, <1>10, AdoptFacts DEF PagesInv, ClaimInv, TrackInv

\* The browser was lost: a new one shows its launch page and the new page.
LEMMA OpenLaunchedInv ==
  ASSUME PagesInv, UNCHANGED provider, w.pc = "open", NEW p \in Fresh, NEW launch \in Fresh,
         PageForLaunched(w.conv, launch, p), Adopt(p), holds' = Shown(holds)
  PROVE  PagesInv'
<1>. USE BrowserPagesAssumption
<1>1. p \in Pages /\ launch \in Pages /\ launch # p
  BY FreshFact DEF PageForLaunched
<1>2. /\ tab' \in [Pages -> {"closed", "blank", "chat", "crashed"}]
      /\ \A q \in Pages : tab'[q] = IF q \in {launch, p} THEN "blank" ELSE "closed"
      /\ up' = TRUE /\ live' = TRUE /\ reported' = FALSE /\ primary' = NoPage /\ owned' = {p}
      /\ claims' \in [Claimants -> Pages \cup {NoPage}]
      /\ \A k \in Claimants : claims'[k] = IF k = w.conv THEN p ELSE NoPage
  BY <1>1 DEF PageForLaunched, Launched, PagesInv, PagesTypeOK, Claimants
<1>9. /\ holds' \in [Pages -> Claimants]
      /\ \A q \in Pages : holds'[q] = IF tab'[q] = "closed" THEN NoConv ELSE holds[q]
      /\ \A q \in Pages : holds'[q] = NoConv
  <2>1. \A q \in {launch, p} : holds[q] = NoConv
    BY <1>1, FreshFact DEF IsOpen, PagesInv, ClaimInv, BlankIsNew
  <2>2. holds \in [Pages -> Claimants]
    BY DEF PagesInv, PagesTypeOK
  <2>. QED  BY <1>2, <2>1, <2>2, ShownFact
<1>10. \A c \in Convs : w.conv \in Names(c) => Mine(c, p)'
  BY <1>1, <1>2, AdoptFacts DEF Mine, Names, Claimants
<1>3. PagesTypeOK'
  <2>1. BrowserTypeOK'
    BY <1>1, <1>2 DEF BrowserTypeOK
  <2>2. provider \in Providers /\ tracked \subseteq Pages
    BY DEF PagesInv, PagesTypeOK, aliasVars
  <2>. QED  BY <1>1, <1>2, <1>9, <2>1, <2>2, AdoptFacts DEF PagesTypeOK, PagesInv
<1>4. ClaimsApart' /\ HoldsClaimed' /\ BlankIsNew'
  BY <1>1, <1>2, <1>9 DEF ClaimsApart, HoldsClaimed, BlankIsNew, Claimants
<1>5. AliasClaimed'
  <2>1. \A c \in Convs : alias[c] # launch /\ alias[c] # p
    BY <1>1, FreshFact
  <2>2. AutoConv \in fallback'
    BY <1>1, AdoptFacts DEF PagesInv, ClaimInv, AliasClaimed
  <2>3. ASSUME NEW c \in Convs, Usable(alias[c])' PROVE Mine(c, alias[c])'
    <3>1. alias'[c] \in {launch, p}
      BY <1>2, <2>3 DEF Usable
    <3>2. alias'[c] = p /\ w.conv \in Names(c)
      BY <1>1, <2>1, <3>1, AdoptFacts
    <3>3. Mine(c, p)'
      BY <1>10, <3>2
    <3>. QED  BY <3>2, <3>3 DEF Mine
  <2>. QED  BY <2>2, <2>3 DEF AliasClaimed
<1>6. SendsOnOwnPage'
  BY <1>1, <1>10, AdoptFacts, NamesFact DEF SendsOnOwnPage
<1>7. OpenPagesAreTracked'
  <2>1. \A c \in Convs : alias'[c] # launch
    BY <1>1, AdoptFacts, FreshFact
  <2>. QED  BY <1>1, <1>2, <2>1, AdoptFacts DEF OpenPagesAreTracked, IsOpen, aliasVars
<1>8. OneUntracked'
  BY <1>1, <1>2, AdoptFacts DEF OneUntracked, IsOpen
<1>. QED
  BY <1>1, <1>3, <1>4, <1>5, <1>6, <1>7, <1>8, AdoptFacts DEF PagesInv, ClaimInv, TrackInv

LEMMA OpenInv ==
  ASSUME PagesInv, UNCHANGED provider, Open
  PROVE  PagesInv'
<1>1. ASSUME NEW p \in Pages, PageForExisting(w.conv, p), Adopt(p), UNCHANGED holds
      PROVE  PagesInv'
  BY <1>1, OpenExistingInv DEF Open
<1>2. ASSUME NEW p \in Fresh, Adopt(p), holds' = Shown(holds),
             \/ PageForNew(w.conv, p)
             \/ \E launch \in Fresh : PageForLaunched(w.conv, launch, p)
      PROVE  PagesInv'
  BY <1>2, OpenNewInv, OpenLaunchedInv DEF Open
<1>. QED  BY <1>1, <1>2 DEF Open

\* Without a browser nothing is open, claimed or owned.
LEMMA NothingOpen ==
  ASSUME PagesInv, LaunchFailed
  PROVE  /\ BrowserTypeOK' /\ \A p \in Pages : tab'[p] = "closed"
         /\ \A k \in Claimants : claims'[k] = NoPage
BY DEF LaunchFailed, Release, PagesInv, PagesTypeOK, BrowserTypeOK, aliasVars

LEMMA OpenFailsInv ==
  ASSUME PagesInv, UNCHANGED provider, OpenFails
  PROVE  PagesInv'
<1>1. UNCHANGED <<aliasVars, tracked, idle>> /\ active' = {}
  BY Unmarked DEF OpenFails
<1>4. /\ holds' \in [Pages -> Claimants]
      /\ \A p \in Pages : holds'[p] = IF tab'[p] = "closed" THEN NoConv ELSE holds[p]
  BY ShownFact DEF OpenFails, PagesInv, PagesTypeOK
<1>2. CASE UNCHANGED browserVars
  <2>1. holds' = holds
    BY <1>2, <1>4 DEF browserVars, PagesInv, PagesTypeOK, ClaimInv, BlankIsNew
  <2>. QED  BY <1>1, <1>2, <2>1, RaiseWorker, WorkerStep DEF OpenFails
<1>3. CASE LaunchFailed
  <2>1. PagesTypeOK'
    BY <1>1, <1>3, <1>4, NothingOpen, RaiseWorker DEF OpenFails, PagesInv, PagesTypeOK, aliasVars
  <2>2. ClaimInv'
    BY <1>1, <1>3, <1>4, NothingOpen, BrowserPagesAssumption
    DEF PagesInv, PagesTypeOK, ClaimInv, ClaimsApart, AliasClaimed, HoldsClaimed, BlankIsNew, SendsOnOwnPage, Usable,
        Claimants, Mine, Names, aliasVars
  <2>3. TrackInv'
    BY <1>1, <1>3, NothingOpen, RaiseWorker
    DEF OpenFails, PagesInv, TrackInv, OpenPagesAreTracked, OneUntracked, RoomToOpen, IsOpen, aliasVars
  <2>4. WorkInv'
    BY <1>1, RaiseWorker DEF OpenFails, WorkInv, MarksItsPage, WorkerAgrees, Qwen, aliasVars
  <2>. QED  BY <2>1, <2>2, <2>3, <2>4 DEF PagesInv
<1>. QED  BY <1>2, <1>3 DEF OpenFails

-----------------------------------------------------------------------------
(* The turn.                                                               *)

\* A blank page that is taken to the site shows no chat yet.
LEMMA NavigateFacts ==
  ASSUME PagesInv, NEW p \in Pages, Navigate(p)
  PROVE  /\ UNCHANGED <<up, live, reported, owned, claims, primary>> /\ BrowserTypeOK'
         /\ tab[p] = "blank" /\ tab'[p] = "chat"
         /\ \A q \in Pages : q # p => tab'[q] = tab[q]
BY DEF Navigate, PagesInv, PagesTypeOK, BrowserTypeOK, aliasVars

\* A blank page that is a conversation's shows no chat.
LEMMA MineIsNew ==
  ASSUME PagesInv, NEW c \in Convs, NEW p \in Pages, Mine(c, p), tab[p] = "blank"
  PROVE  holds[p] = NoConv
<1>1. PICK d \in Names(c) : claims[d] = p
  BY DEF Mine
<1>. QED  BY <1>1, NamesFact DEF PagesInv, ClaimInv, BlankIsNew, Claimants

LEMMA BootstrapInv ==
  ASSUME PagesInv, UNCHANGED provider, Bootstrap
  PROVE  PagesInv'
<1>. DEFINE p == alias[w.conv]
<1>1. /\ p \in Pages /\ w.conv \in Convs /\ w.pc = "goto" /\ Granted(p) /\ Navigate(p)
      /\ UNCHANGED <<aliasVars, tracked, idle, holds>>
  BY DEF Bootstrap, IsOpen, PagesInv, WorkInv, WorkerAgrees
<1>2. p \in tracked /\ Mine(w.conv, p) /\ holds[p] = NoConv
  <2>1. p \in tracked /\ Mine(w.conv, p)
    BY <1>1, NavigateFacts
    DEF PagesInv, TrackInv, OpenPagesAreTracked, IsOpen, ClaimInv, AliasClaimed, Usable
  <2>. QED  BY <1>1, <2>1, NavigateFacts, MineIsNew
<1>3. PagesTypeOK'
  BY <1>1, <1>2, GrantedWorker, NavigateFacts DEF PagesInv, PagesTypeOK, aliasVars
<1>4. ClaimInv'
  <2>2. ClaimsApart' /\ AliasClaimed' /\ BlankIsNew'
    BY <1>1, NavigateFacts
    DEF PagesInv, ClaimInv, ClaimsApart, AliasClaimed, BlankIsNew, Usable, Mine, Names, aliasVars
  <2>3. HoldsClaimed'
    BY <1>1, <1>2, NavigateFacts, BrowserPagesAssumption DEF PagesInv, ClaimInv, HoldsClaimed, Mine, Names, aliasVars
  <2>4. SendsOnOwnPage'
    BY <1>1, <1>2, GrantedWorker, NavigateFacts DEF SendsOnOwnPage, Usable, Mine, Names, aliasVars
  <2>. QED  BY <2>2, <2>3, <2>4 DEF ClaimInv
<1>5. TrackInv'
  BY <1>1, GrantedWorker, NavigateFacts
  DEF PagesInv, TrackInv, OpenPagesAreTracked, OneUntracked, RoomToOpen, IsOpen, aliasVars
<1>6. WorkInv'
  BY <1>1, GrantedWorkInv DEF aliasVars
<1>. QED  BY <1>3, <1>4, <1>5, <1>6 DEF PagesInv

LEMMA LoginGotoInv ==
  ASSUME PagesInv, UNCHANGED provider, LoginGoto
  PROVE  PagesInv'
<1>1. /\ UNCHANGED <<serviceVars, holds, w>> /\ w.pc = "send" /\ w.conv \in Convs
      /\ Navigate(w.page) /\ w.page \in Pages
  BY DEF LoginGoto, Navigate, PagesInv, PagesTypeOK, BrowserTypeOK, WorkInv, WorkerAgrees, Worker, aliasVars
<1>2. Mine(w.conv, w.page) /\ holds[w.page] = NoConv
  <2>1. Mine(w.conv, w.page)
    BY <1>1, NavigateFacts DEF PagesInv, ClaimInv, SendsOnOwnPage, Usable
  <2>. QED  BY <1>1, <2>1, NavigateFacts, MineIsNew
<1>3. PagesTypeOK'
  BY <1>1, NavigateFacts DEF PagesInv, PagesTypeOK, serviceVars, aliasVars
<1>4. ClaimInv'
  <2>2. ClaimsApart' /\ AliasClaimed' /\ BlankIsNew'
    BY <1>1, NavigateFacts
    DEF PagesInv, ClaimInv, ClaimsApart, AliasClaimed, BlankIsNew, Usable, serviceVars, Mine, Names, aliasVars
  <2>3. HoldsClaimed'
    BY <1>1, <1>2, NavigateFacts, BrowserPagesAssumption DEF PagesInv, ClaimInv, HoldsClaimed, Mine, Names, serviceVars, aliasVars
  <2>4. SendsOnOwnPage'
    BY <1>1, <1>2, NavigateFacts DEF SendsOnOwnPage, Mine, Names, serviceVars, aliasVars
  <2>. QED  BY <2>2, <2>3, <2>4 DEF ClaimInv
<1>5. TrackInv'
  BY <1>1, NavigateFacts
  DEF PagesInv, TrackInv, OpenPagesAreTracked, OneUntracked, RoomToOpen, IsOpen, serviceVars, aliasVars
<1>6. WorkInv'
  BY <1>1 DEF PagesInv, WorkInv, MarksItsPage, WorkerAgrees, Qwen, serviceVars, aliasVars
<1>. QED  BY <1>3, <1>4, <1>5, <1>6 DEF PagesInv

\* A turn ends: its page shows the chat of its conversation, which claims it.
LEMMA AnswerFacts ==
  ASSUME PagesInv, Answer
  PROVE  /\ w.page \in Pages /\ w.conv \in Convs /\ Mine(w.conv, w.page)
         /\ tab[w.page] = "chat"
         /\ holds[w.page] # NoConv => w.conv \in Names(holds[w.page])
         /\ holds' = [holds EXCEPT ![w.page] = w.conv]
<1>1. /\ w.page \in Pages /\ w.conv \in Convs /\ tab[w.page] = "chat" /\ w.pc = "send"
      /\ holds[w.page] \in Claimants /\ holds' = [holds EXCEPT ![w.page] = w.conv]
  BY DEF Answer, PagesInv, PagesTypeOK, WorkInv, WorkerAgrees, aliasVars
<1>2. Mine(w.conv, w.page)
  BY <1>1 DEF PagesInv, ClaimInv, SendsOnOwnPage, Usable
<1>3. ASSUME holds[w.page] # NoConv PROVE w.conv \in Names(holds[w.page])
  <2>1. holds[w.page] \in Convs /\ Mine(holds[w.page], w.page)
    BY <1>1, <1>3 DEF PagesInv, ClaimInv, HoldsClaimed, Claimants
  <2>2. PICK d \in Names(w.conv) : claims[d] = w.page
    BY <1>2 DEF Mine
  <2>3. PICK e \in Names(holds[w.page]) : claims[e] = w.page
    BY <2>1 DEF Mine
  <2>4. d \in Convs /\ e \in Convs /\ Names(d) = Names(w.conv) /\ Names(e) = Names(holds[w.page])
        /\ w.conv \in Names(w.conv)
    BY <1>1, <2>1, NamesFact
  <2>5. d = e
    BY <1>1, <2>2, <2>3, <2>4, BrowserPagesAssumption DEF PagesInv, ClaimInv, ClaimsApart
  <2>. QED
    BY <2>4, <2>5
<1>. QED  BY <1>1, <1>2, <1>3

LEMMA AnswerInv ==
  ASSUME PagesInv, UNCHANGED provider, Answer
  PROVE  PagesInv'
<1>1. /\ UNCHANGED <<browserVars, aliasVars, tracked, idle>> /\ w' = FreeWorker /\ active' = {}
  BY Unmarked DEF Answer
<1>2. /\ holds' \in [Pages -> Claimants]
      /\ \A q \in Pages : holds'[q] = IF q = w.page THEN w.conv ELSE holds[q]
  BY AnswerFacts DEF PagesInv, PagesTypeOK, Claimants, aliasVars
<1>3. PagesTypeOK'
  BY <1>1, <1>2, FreeWorkerFact DEF PagesInv, PagesTypeOK, BrowserTypeOK, browserVars, aliasVars
<1>4. ClaimInv'
  BY <1>1, <1>2, AnswerFacts, FreeWorkerFact
  DEF PagesInv, ClaimInv, ClaimsApart, AliasClaimed, HoldsClaimed, BlankIsNew, SendsOnOwnPage,
      Usable, browserVars, Mine, Names, aliasVars
<1>5. TrackInv'
  BY <1>1, FreeWorkerFact
  DEF PagesInv, TrackInv, OpenPagesAreTracked, OneUntracked, RoomToOpen, IsOpen, browserVars, aliasVars
<1>6. WorkInv'
  BY <1>1, FreeWorkerFact DEF WorkInv, MarksItsPage, WorkerAgrees, aliasVars
<1>. QED  BY <1>3, <1>4, <1>5, <1>6 DEF PagesInv

-----------------------------------------------------------------------------
(* Restarts.                                                               *)

LEMMA DroppedFacts ==
  ASSUME PagesInv, w.pc \in {"refused", "failed"}, DropPages
  PROVE  /\ alias' = [c \in Convs |-> NoPage]
         /\ fallback' \subseteq Convs /\ AutoConv \in fallback'
         /\ tracked' \subseteq tracked /\ idle' \subseteq tracked' /\ active' = {}
BY DEF DropPages, Sharers, PagesInv, PagesTypeOK, ClaimInv, AliasClaimed, WorkInv, MarksItsPage

LEMMA RetryInv ==
  ASSUME PagesInv, UNCHANGED provider, Retry
  PROVE  PagesInv'
<1>. USE BrowserPagesAssumption
<1>1. PICK launch \in Fresh : Restart(launch)
  BY DEF Retry
<1>2. /\ w.pc \in {"refused", "failed"} /\ DropPages /\ holds' = Shown(holds) /\ launch \in Pages
      /\ w.conv \in Convs /\ w.tries > 1
  BY FreshFact DEF Retry, PagesInv, WorkInv, WorkerAgrees
<1>3. /\ tab' \in [Pages -> {"closed", "blank", "chat", "crashed"}]
      /\ \A q \in Pages : tab'[q] = IF q = launch THEN "blank" ELSE "closed"
      /\ up' = TRUE /\ live' = TRUE /\ reported' = FALSE /\ primary' = NoPage /\ owned' = {}
      /\ claims' = [k \in Claimants |-> NoPage]
  BY <1>1, <1>2 DEF Restart, Launched
<1>4. w' \in Worker /\ w'.pc = "resolve" /\ w'.conv = w.conv /\ w'.pass = "first"
  <2>1. w' = [pc |-> "resolve", conv |-> w.conv, page |-> NoPage, tries |-> w.tries - 1,
              pass |-> "first", left |-> {}]
    BY DEF Retry, FreeWorker
  <2>2. w.tries - 1 \in 0 .. Retries + 1
    BY <1>2, ConversationPagesAssumption DEF PagesInv, PagesTypeOK, Worker, aliasVars
  <2>. QED  BY <1>2, <2>1, <2>2 DEF Worker, Claimants
<1>9. /\ holds' \in [Pages -> Claimants]
      /\ \A q \in Pages : holds'[q] = IF tab'[q] = "closed" THEN NoConv ELSE holds[q]
  BY <1>2, ShownFact DEF PagesInv, PagesTypeOK
<1>10. holds[launch] = NoConv
  BY <1>2, FreshFact DEF IsOpen, PagesInv, ClaimInv, BlankIsNew
<1>5. PagesTypeOK'
  <2>1. BrowserTypeOK'
    BY <1>3 DEF BrowserTypeOK
  <2>2. provider \in Providers /\ tracked \subseteq Pages /\ holds \in [Pages -> Claimants]
    BY DEF PagesInv, PagesTypeOK, aliasVars
  <2>. QED  BY <1>2, <1>4, <1>9, <2>1, <2>2, DroppedFacts DEF PagesTypeOK
<1>6. ClaimInv'
  BY <1>2, <1>3, <1>4, <1>9, <1>10, DroppedFacts
  DEF ClaimInv, ClaimsApart, AliasClaimed, HoldsClaimed, BlankIsNew, SendsOnOwnPage, Usable,
      Claimants, Mine, Names, aliasVars
<1>7. TrackInv'
  <2>1. OpenPagesAreTracked' /\ OneUntracked'
    BY <1>2, <1>3, DroppedFacts DEF OpenPagesAreTracked, OneUntracked, IsOpen, aliasVars
  <2>2. RoomToOpen'
    BY <1>2, <1>4, DroppedFacts, FewerTracked DEF RoomToOpen
  <2>. QED  BY <2>1, <2>2 DEF TrackInv
<1>8. WorkInv'
  BY <1>2, <1>4, DroppedFacts DEF WorkInv, MarksItsPage, WorkerAgrees, aliasVars
<1>. QED  BY <1>5, <1>6, <1>7, <1>8 DEF PagesInv

LEMMA RetryFailsInv ==
  ASSUME PagesInv, UNCHANGED provider, RetryFails
  PROVE  PagesInv'
<1>1. /\ w.pc \in {"refused", "failed"} /\ DropPages /\ holds' = Shown(holds) /\ w' = FreeWorker
      /\ LaunchFailed
  BY DEF RetryFails
<1>9. /\ holds' \in [Pages -> Claimants]
      /\ \A q \in Pages : holds'[q] = IF tab'[q] = "closed" THEN NoConv ELSE holds[q]
  BY <1>1, ShownFact DEF PagesInv, PagesTypeOK
<1>2. PagesTypeOK'
  <2>1. provider \in Providers /\ tracked \subseteq Pages /\ holds \in [Pages -> Claimants]
    BY DEF PagesInv, PagesTypeOK, aliasVars
  <2>. QED  BY <1>1, <1>9, <2>1, NothingOpen, FreeWorkerFact, DroppedFacts DEF PagesTypeOK
<1>3. ClaimInv'
  BY <1>1, <1>9, NothingOpen, DroppedFacts, FreeWorkerFact, BrowserPagesAssumption
  DEF ClaimInv, ClaimsApart, AliasClaimed, HoldsClaimed, BlankIsNew, SendsOnOwnPage, Usable,
      Claimants, Mine, Names, aliasVars
<1>4. TrackInv'
  <2>1. OpenPagesAreTracked' /\ OneUntracked'
    BY <1>1, NothingOpen DEF OpenPagesAreTracked, OneUntracked, IsOpen, aliasVars
  <2>2. RoomToOpen'
    BY <1>1, FreeWorkerFact, DroppedFacts, FewerTracked DEF RoomToOpen
  <2>. QED  BY <2>1, <2>2 DEF TrackInv
<1>5. WorkInv'
  BY <1>1, FreeWorkerFact, DroppedFacts DEF WorkInv, MarksItsPage, WorkerAgrees, aliasVars
<1>. QED  BY <1>2, <1>3, <1>4, <1>5 DEF PagesInv

-----------------------------------------------------------------------------
(* What happens meanwhile.                                                 *)

LEMMA GoIdleInv ==
  ASSUME PagesInv, UNCHANGED provider, NEW p \in Pages, GoIdle(p)
  PROVE  PagesInv'
<1>1. PagesTypeOK'
  BY DEF GoIdle, PagesInv, PagesTypeOK, BrowserTypeOK, browserVars, aliasVars
<1>2. ClaimInv'
  BY DEF GoIdle, PagesInv, ClaimInv, ClaimsApart, AliasClaimed, HoldsClaimed, BlankIsNew,
         SendsOnOwnPage, Usable, browserVars, Mine, Names, aliasVars
<1>3. TrackInv' /\ WorkInv'
  BY DEF GoIdle, PagesInv, TrackInv, OpenPagesAreTracked, OneUntracked, RoomToOpen, IsOpen,
         WorkInv, MarksItsPage, WorkerAgrees, Qwen, browserVars, aliasVars
<1>. QED  BY <1>1, <1>2, <1>3 DEF PagesInv

\* An event closes or crashes pages, and releases none that stays usable.
LEMMA EventKeepsInv ==
  ASSUME PagesInv, UNCHANGED <<provider, serviceVars, w>>, holds' = Shown(holds), BrowserTypeOK',
         \A p \in Pages : tab'[p] \in {tab[p], "closed", "crashed"},
         \A p \in Pages : tab[p] = "closed" => tab'[p] = "closed",
         owned' \subseteq owned,
         \A k \in Claimants : claims'[k] \in {claims[k], NoPage},
         \A k \in Claimants, p \in Pages :
           claims[k] = p /\ tab'[p] \in {"blank", "chat"} => claims'[k] = p
  PROVE  PagesInv'
<1>. USE BrowserPagesAssumption
<1>5. /\ holds' \in [Pages -> Claimants]
      /\ \A q \in Pages : holds'[q] = IF tab'[q] = "closed" THEN NoConv ELSE holds[q]
  BY ShownFact DEF PagesInv, PagesTypeOK
<1>1. PagesTypeOK'
  BY <1>5 DEF PagesInv, PagesTypeOK, serviceVars, aliasVars
<1>2. /\ ClaimsApart' /\ AliasClaimed' /\ HoldsClaimed' /\ BlankIsNew' /\ SendsOnOwnPage'
  <2>1. ClaimsApart' /\ BlankIsNew'
    BY <1>5 DEF PagesInv, ClaimInv, ClaimsApart, BlankIsNew, Claimants
  <2>2. AliasClaimed' /\ HoldsClaimed' /\ SendsOnOwnPage'
    <3>1. \A c \in Convs, q \in Pages : Mine(c, q) /\ Usable(q)' => Mine(c, q)'
      BY NamesFact DEF Mine, Names, Usable, Claimants, serviceVars, aliasVars
    <3>. QED
      BY <1>5, <3>1
      DEF PagesInv, PagesTypeOK, ClaimInv, AliasClaimed, HoldsClaimed, SendsOnOwnPage,
          Usable, Claimants, serviceVars, WorkInv, WorkerAgrees, aliasVars
  <2>. QED  BY <2>1, <2>2
<1>3. TrackInv'
  BY DEF PagesInv, TrackInv, OpenPagesAreTracked, OneUntracked, RoomToOpen, IsOpen, serviceVars, aliasVars
<1>4. WorkInv'
  BY DEF PagesInv, WorkInv, MarksItsPage, WorkerAgrees, Qwen, serviceVars, aliasVars
<1>. QED  BY <1>1, <1>2, <1>3, <1>4 DEF PagesInv, ClaimInv

LEMMA EnvironmentInv ==
  ASSUME PagesInv, UNCHANGED provider, Environment
  PROVE  PagesInv'
<1>. USE BrowserPagesAssumption
<1>1. UNCHANGED <<serviceVars, w>> /\ holds' = Shown(holds) /\ BrowserTypeOK
  BY DEF Environment, PagesInv, PagesTypeOK, aliasVars
<1>2. CASE BrowserGone
  <2>1. BrowserTypeOK'
    BY <1>1, <1>2 DEF BrowserGone, Release, MarkDisconnected, BrowserTypeOK
  <2>2. /\ \A p \in Pages : tab'[p] = "closed"
        /\ owned' \subseteq owned /\ \A k \in Claimants : claims'[k] = NoPage
    BY <1>1, <1>2 DEF BrowserGone, Release, BrowserTypeOK
  <2>. QED  BY <1>1, <2>1, <2>2, EventKeepsInv
<1>3. ASSUME NEW p \in Pages, PageClosed(p) PROVE PagesInv'
  <2>1. BrowserTypeOK'
    BY <1>1, <1>3 DEF PageClosed, Release, MarkDisconnected, BrowserTypeOK
  <2>2. /\ tab'[p] = "closed" /\ \A q \in Pages : q # p => tab'[q] = tab[q]
        /\ owned' \subseteq owned
        /\ \A k \in Claimants : claims'[k] = IF claims[k] = p THEN NoPage ELSE claims[k]
    BY <1>1, <1>3 DEF PageClosed, Release, BrowserTypeOK
  <2>. QED  BY <1>1, <2>1, <2>2, EventKeepsInv
<1>4. ASSUME NEW p \in Pages, PageCrashed(p) PROVE PagesInv'
  <2>1. BrowserTypeOK'
    BY <1>1, <1>4 DEF PageCrashed, Release, BrowserTypeOK
  <2>2. /\ tab[p] # "closed" /\ tab'[p] = "crashed" /\ \A q \in Pages : q # p => tab'[q] = tab[q]
        /\ owned' \subseteq owned
        /\ \A k \in Claimants : claims'[k] \in {claims[k], IF claims[k] = p THEN NoPage ELSE claims[k]}
    BY <1>1, <1>4 DEF PageCrashed, IsOpen, Release, BrowserTypeOK
  <2>. QED  BY <1>1, <2>1, <2>2, EventKeepsInv
<1>. QED  BY <1>2, <1>3, <1>4 DEF Environment

-----------------------------------------------------------------------------

LEMMA PagesStepInv == PagesInv /\ [PagesStep]_<<pageVars, provider>> => PagesInv'
<1>. SUFFICES ASSUME PagesInv, [PagesStep]_<<pageVars, provider>> PROVE PagesInv'
  OBVIOUS
<1>1. CASE UNCHANGED <<pageVars, provider>>
  <2>1. PagesTypeOK' /\ ClaimInv'
    BY <1>1 DEF pageVars, browserVars, serviceVars, PagesInv, PagesTypeOK, BrowserTypeOK, ClaimInv,
                ClaimsApart, AliasClaimed, HoldsClaimed, BlankIsNew, SendsOnOwnPage, Usable, Mine, Names, aliasVars
  <2>2. TrackInv' /\ WorkInv'
    BY <1>1 DEF pageVars, browserVars, serviceVars, PagesInv, TrackInv, OpenPagesAreTracked,
                OneUntracked, RoomToOpen, IsOpen, WorkInv, MarksItsPage, WorkerAgrees, Qwen, aliasVars
  <2>. QED  BY <2>1, <2>2 DEF PagesInv
<1>2. ASSUME UNCHANGED provider, PagesNext PROVE PagesInv'
  <2>1. ASSUME NEW c \in Convs, Begin(c) PROVE PagesInv'
    BY <1>2, <2>1, BeginInv
  <2>2. CASE Reuse \/ Miss \/ Swept \/ \E p \in Pages : Sweep(p)
    BY <1>2, <2>2, ReuseInv, MissInv, SweptInv, SweepInv
  <2>3. CASE Fail \/ GiveUp \/ Refuse
    BY <1>2, <2>3, EndsInv
  <2>4. CASE Open \/ OpenFails
    BY <1>2, <2>4, OpenInv, OpenFailsInv
  <2>5. CASE Bootstrap \/ LoginGoto \/ Answer
    BY <1>2, <2>5, BootstrapInv, LoginGotoInv, AnswerInv
  <2>6. CASE Retry \/ RetryFails
    BY <1>2, <2>6, RetryInv, RetryFailsInv
  <2>7. CASE Environment \/ \E p \in Pages : GoIdle(p)
    BY <1>2, <2>7, EnvironmentInv, GoIdleInv
  <2>. QED  BY <1>2, <2>1, <2>2, <2>3, <2>4, <2>5, <2>6, <2>7 DEF PagesNext, Serve
<1>. QED  BY <1>1, <1>2 DEF PagesStep

-----------------------------------------------------------------------------

\* The inductive invariant of the theorems below.
THEOREM PagesInvariant == PagesSpec => []PagesInv
  BY PagesInitInv, PagesStepInv, PTL DEF PagesSpec

\* Pages, claims, records and the worker keep their types.
THEOREM PagesTypeCorrect == PagesSpec => []PagesTypeOK
<1>1. PagesInv => PagesTypeOK
  BY DEF PagesInv
<1>. QED  BY <1>1, PagesInvariant, PTL

\* The pages of a browser stay within the cap and one: all that are open have a
\* record, except one at most.
THEOREM PagesStayWithinCap == PagesSpec => []OpenWithinCap
<1>1. PagesInv => OpenWithinCap
  <2>. SUFFICES ASSUME PagesInv PROVE OpenWithinCap
    OBVIOUS
  <2>. DEFINE O == {p \in Pages : IsOpen(p)}
  <2>1. IsFiniteSet(tracked) /\ Cardinality(tracked) \in Nat /\ Cardinality(tracked) <= MaxPages
    BY FewerTracked
  <2>2. CASE O \subseteq tracked
    <3>1. Cardinality(O) \in Nat /\ Cardinality(O) <= MaxPages
      BY <2>2, FewerTracked
    <3>. QED  BY <3>1, ConversationPagesAssumption DEF OpenWithinCap
  <2>3. ASSUME NEW x \in O, x \notin tracked PROVE OpenWithinCap
    <3>1. O \subseteq tracked \cup {x}
      BY <2>3 DEF PagesInv, TrackInv, OneUntracked
    <3>2. /\ IsFiniteSet(tracked \cup {x})
          /\ Cardinality(tracked \cup {x}) = Cardinality(tracked) + 1
      BY <2>1, <2>3, FS_AddElement
    <3>3. IsFiniteSet(O) /\ Cardinality(O) <= Cardinality(tracked \cup {x})
      BY <3>1, <3>2, FS_Subset
    <3>4. Cardinality(O) \in Nat
      BY <3>3, FS_CardinalityType
    <3>. QED  BY <2>1, <3>2, <3>3, <3>4, ConversationPagesAssumption DEF OpenWithinCap
  <2>. QED  BY <2>2, <2>3
<1>. QED  BY <1>1, PagesInvariant, PTL

\* No page of the gateway escapes the count and the idle cleanup.
THEOREM PagesAreAccountedFor == PagesSpec => []OpenPagesAreTracked
<1>1. PagesInv => OpenPagesAreTracked
  BY DEF PagesInv, TrackInv
<1>. QED  BY <1>1, PagesInvariant, PTL

\* However a request ends, its page can be reclaimed.
THEOREM NoPageStaysMarked == PagesSpec => []ActiveOnlyWhileServing
<1>1. PagesInv => ActiveOnlyWhileServing
  BY DEF PagesInv, WorkInv, MarksItsPage, ActiveOnlyWhileServing, aliasVars
<1>. QED  BY <1>1, PagesInvariant, PTL

\* Only an answer puts a chat on a page, and the page is claimed by the
\* conversation that is answered; no other can have had a chat on it.
THEOREM ChatsAreApart == PagesSpec => ChatsStayApart
<1>. DEFINE Apart == \A p \in Pages : holds[p] # NoConv => holds'[p] \in Names(holds[p]) \cup {NoConv}
<1>1. ASSUME PagesInv, PagesNext PROVE Apart
  <2>1. /\ holds \in [Pages -> Claimants]
        /\ \A p \in Pages : holds[p] # NoConv => holds[p] \in Names(holds[p])
    BY <1>1, NamesFact DEF PagesInv, PagesTypeOK, Claimants
  <2>2. CASE holds' = holds
    BY <2>1, <2>2
  <2>3. CASE holds' = Shown(holds)
    BY <2>1, <2>3, ShownFact
  <2>4. CASE Answer
    BY <1>1, <2>1, <2>4, AnswerFacts
  <2>5. holds' = holds \/ Answer \/ holds' = Shown(holds)
    BY <1>1
    DEF PagesNext, Serve, Begin, Reuse, Miss, Sweep, Refuse, Swept, Open, OpenFails, Bootstrap,
        LoginGoto, Fail, GiveUp, Retry, RetryFails, GoIdle, Environment
  <2>. QED  BY <2>2, <2>3, <2>4, <2>5
<1>2. PagesInv /\ [PagesStep]_<<pageVars, provider>> => [Apart]_pageVars
  BY <1>1 DEF PagesStep
<1>. QED  BY <1>2, PagesInvariant, PTL DEF PagesSpec, ChatsStayApart

-----------------------------------------------------------------------------
(* A request counts down.                                                  *)

\* What is left of a request: its attempts, the lookups of this one, and the
\* steps of this lookup.
LookupsLeft == CASE w.pass = "first" -> 2
                 [] w.pass = "login" -> 1
                 [] OTHER            -> 0

LookupSteps == CASE w.pc = "resolve" -> 5
                 [] w.pc = "sweep"   -> 4
                 [] w.pc = "open"    -> 3
                 [] w.pc = "goto"    -> 2
                 [] OTHER            -> 1

RequestLeft ==
  18 * w.tries + (IF w.pc \in {"refused", "failed"} THEN 0 ELSE 6 * LookupsLeft + LookupSteps)

\* The page to send on has yet to be taken to the site.
PageIsBlank == w.page \in Pages /\ tab[w.page] = "blank"

\* A step of the request under the lock ends it or takes from what is left of
\* it; else it closes one of the idle pages it found, or takes its page to the
\* site.
Proceeds ==
  \/ w'.pc = "free"
  \/ w'.conv = w.conv /\ RequestLeft' < RequestLeft
  \/ /\ w'.conv = w.conv /\ RequestLeft' = RequestLeft
     /\ w'.left \subseteq w.left /\ w'.left # w.left
  \/ w' = w /\ PageIsBlank /\ ~PageIsBlank'

\* Whatever else happens leaves the request where it is, and no page blank
\* that was not.
RequestCountsDown ==
  [][w.pc # "free" => IF Serve THEN Proceeds ELSE w' = w /\ (PageIsBlank' => PageIsBlank)]_<<pageVars, provider>>

\* The idle pages a request has to close are finitely many.
FewToSweep == IsFiniteSet(w.left)

LEMMA SweepStaysFinite ==
  ASSUME PagesInv, FewToSweep, [PagesStep]_<<pageVars, provider>>
  PROVE  FewToSweep'
<1>. USE DEF FewToSweep
<1>0. w \in Worker /\ idle \subseteq tracked /\ IsFiniteSet(tracked)
  BY DEF PagesInv, PagesTypeOK, TrackInv, RoomToOpen, aliasVars
<1>1. IsFiniteSet({})
  BY FS_EmptySet
<1>2. CASE w'.left = w.left
  BY <1>2
<1>3. CASE w'.left = {}
  BY <1>1, <1>3
<1>4. CASE Miss
  <2>1. w'.left \subseteq tracked
    BY <1>0, <1>4 DEF Miss, Worker
  <2>. QED  BY <1>0, <2>1, FS_Subset
<1>5. ASSUME NEW p \in Pages, Sweep(p) PROVE FewToSweep'
  <2>1. w'.left \subseteq w.left
    BY <1>0, <1>5 DEF Sweep, Worker
  <2>. QED  BY <2>1, FS_Subset
<1>6. ASSUME NEW p \in Pages, Granted(p) PROVE w'.left = w.left
  BY <1>0, <1>6 DEF Granted, Worker
<1>7. ASSUME NEW pc \in {"refused", "failed"}, Raise(pc) PROVE w'.left \in {w.left, {}}
  BY <1>0, <1>7 DEF Raise, Worker, FreeWorker
<1>8. CASE Reuse \/ Bootstrap
  <2>1. PICK p \in Pages : Granted(p)
    BY <1>8 DEF Reuse, Bootstrap, IsOpen
  <2>. QED  BY <1>2, <1>6, <2>1
<1>9. CASE Open
  <2>1. PICK p \in Pages : Adopt(p)
    BY <1>9 DEF Open, Fresh
  <2>2. CASE Granted(p)
    BY <1>2, <1>6, <2>2
  <2>3. CASE w' = [w EXCEPT !.pc = "goto"]
    BY <1>0, <1>2, <2>3 DEF Worker
  <2>. QED  BY <2>1, <2>2, <2>3 DEF Adopt
<1>10. CASE Refuse \/ OpenFails \/ Fail
  BY <1>2, <1>3, <1>7, <1>10 DEF Refuse, OpenFails, Fail, aliasVars
<1>11. CASE Swept
  BY <1>0, <1>2, <1>11 DEF Swept, Worker, aliasVars
<1>12. CASE Answer \/ GiveUp \/ RetryFails
  BY <1>3, <1>12 DEF Answer, GiveUp, RetryFails, FreeWorker
<1>13. CASE Retry
  BY <1>3, <1>13 DEF Retry, FreeWorker
<1>14. ASSUME NEW c \in Convs, Begin(c) PROVE FewToSweep'
  BY <1>3, <1>14 DEF Begin, FreeWorker
<1>15. CASE UNCHANGED w
  BY <1>2, <1>15
<1>. QED
  BY <1>4, <1>5, <1>8, <1>9, <1>10, <1>11, <1>12, <1>13, <1>14, <1>15
  DEF PagesStep, PagesNext, Serve, LoginGoto, GoIdle, Environment, pageVars

LEMMA RequestLeftIsNat ==
  ASSUME w \in Worker
  PROVE  RequestLeft \in Nat /\ LookupsLeft \in 0 .. 2 /\ LookupSteps \in 1 .. 5 /\ w.tries \in Nat
<1>1. w.tries \in Nat
  BY ConversationPagesAssumption DEF Worker
<1>2. LookupsLeft \in 0 .. 2 /\ LookupSteps \in 1 .. 5
  BY DEF LookupsLeft, LookupSteps
<1>. QED  BY <1>1, <1>2 DEF RequestLeft

\* The same lookup, nearer to its end.
LEMMA LaterInLookup ==
  ASSUME w \in Worker, w'.tries = w.tries, w'.conv = w.conv,
         \/ /\ w'.pass = w.pass
            /\ \/ w.pc = "resolve" /\ w'.pc \in {"sweep", "send"}
               \/ w.pc = "sweep" /\ w'.pc = "open"
               \/ w.pc = "open" /\ w'.pc \in {"goto", "send"}
               \/ w.pc = "goto" /\ w'.pc = "send"
         \/ /\ w.pc \in {"resolve", "open", "goto"} /\ w'.pc = "resolve"
            /\ \/ w.pass = "first" /\ w'.pass \in {"login", "last"}
               \/ w.pass = "login" /\ w'.pass = "last"
         \/ w.pc \notin {"free", "refused", "failed"} /\ w'.pc \in {"refused", "failed"}
  PROVE  Proceeds
<1>1. w.tries \in Nat
  BY RequestLeftIsNat
<1>2. CASE w.pc \notin {"free", "refused", "failed"} /\ w'.pc \in {"refused", "failed"}
  <2>1. RequestLeft = 18 * w.tries + 6 * LookupsLeft + LookupSteps
    BY <1>1, <1>2, RequestLeftIsNat DEF RequestLeft
  <2>2. RequestLeft' = 18 * w.tries
    BY <1>1, <1>2 DEF RequestLeft
  <2>. QED  BY <1>1, <2>1, <2>2, RequestLeftIsNat DEF Proceeds
<1>3. CASE ~(w.pc \notin {"free", "refused", "failed"} /\ w'.pc \in {"refused", "failed"})
  <2>1. RequestLeft' < RequestLeft
    BY <1>1, <1>3 DEF RequestLeft, LookupsLeft, LookupSteps
  <2>. QED  BY <2>1 DEF Proceeds
<1>. QED  BY <1>2, <1>3

LEMMA GrantedProceeds ==
  ASSUME PagesInv, w.pc \in {"resolve", "open", "goto"}, NEW p \in Pages, Granted(p)
  PROVE  Proceeds
<1>0. w \in Worker
  BY DEF PagesInv, PagesTypeOK, aliasVars
<1>1. PICK next \in NextPass :
        w' = [w EXCEPT !.pc   = IF next = "done" THEN "send" ELSE "resolve",
                       !.page = IF w.pass = "login" THEN @ ELSE p,
                       !.pass = IF next = "done" THEN @ ELSE next]
  BY DEF Granted
<1>2. w'.tries = w.tries /\ w'.conv = w.conv
  BY <1>0, <1>1 DEF Worker
<1>3. CASE next = "done"
  <2>1. w'.pc = "send" /\ w'.pass = w.pass
    BY <1>0, <1>1, <1>3 DEF Worker
  <2>. QED  BY <1>0, <1>2, <2>1, LaterInLookup
<1>4. CASE next # "done"
  <2>1. w'.pc = "resolve" /\ w'.pass = next
    BY <1>0, <1>1, <1>4 DEF Worker
  <2>2. \/ w.pass = "first" /\ next \in {"login", "last"}
        \/ w.pass = "login" /\ next = "last"
    BY <1>0, <1>4 DEF NextPass, Worker
  <2>. QED  BY <1>0, <1>2, <2>1, <2>2, LaterInLookup
<1>. QED  BY <1>3, <1>4

LEMMA RaiseProceeds ==
  ASSUME PagesInv, w.pc \notin {"free", "refused", "failed"}, NEW pc \in {"refused", "failed"}, Raise(pc)
  PROVE  Proceeds
<1>0. w \in Worker
  BY DEF PagesInv, PagesTypeOK, aliasVars
<1>1. CASE w' = FreeWorker
  BY <1>1, FreeWorkerFact DEF Proceeds
<1>2. CASE w' = [w EXCEPT !.pc = pc]
  <2>1. w'.pc = pc /\ w'.tries = w.tries /\ w'.conv = w.conv
    BY <1>0, <1>2 DEF Worker
  <2>. QED  BY <1>0, <2>1, LaterInLookup
<1>. QED  BY <1>1, <1>2 DEF Raise

LEMMA ServeProceeds ==
  ASSUME PagesInv, Serve
  PROVE  Proceeds
<1>0. w \in Worker /\ tab \in [Pages -> {"closed", "blank", "chat", "crashed"}]
  BY DEF PagesInv, PagesTypeOK, BrowserTypeOK, aliasVars
<1>1. CASE Reuse \/ Bootstrap
  <2>1. PICK p \in Pages : Granted(p)
    BY <1>1 DEF Reuse, Bootstrap, IsOpen
  <2>2. w.pc \in {"resolve", "open", "goto"}
    BY <1>1 DEF Reuse, Bootstrap
  <2>. QED  BY <2>1, <2>2, GrantedProceeds
<1>2. CASE Miss \/ Swept
  <2>1. /\ w'.tries = w.tries /\ w'.conv = w.conv /\ w'.pass = w.pass
        /\ \/ w.pc = "resolve" /\ w'.pc = "sweep"
           \/ w.pc = "sweep" /\ w'.pc = "open"
    BY <1>0, <1>2 DEF Miss, Swept, Worker, aliasVars
  <2>. QED  BY <1>0, <2>1, LaterInLookup
<1>3. ASSUME NEW p \in Pages, Sweep(p) PROVE Proceeds
  <2>1. /\ w'.tries = w.tries /\ w'.conv = w.conv /\ w'.pass = w.pass /\ w'.pc = w.pc
        /\ w'.left = w.left \ {p} /\ p \in w.left
    BY <1>0, <1>3 DEF Sweep, Worker
  <2>2. RequestLeft' = RequestLeft
    BY <2>1 DEF RequestLeft, LookupsLeft, LookupSteps
  <2>. QED  BY <2>1, <2>2 DEF Proceeds
<1>4. CASE Open
  <2>1. w.pc = "open" /\ \E p \in Pages : Adopt(p)
    BY <1>4 DEF Open, Fresh
  <2>2. PICK p \in Pages : Adopt(p)
    BY <2>1
  <2>3. CASE Granted(p)
    BY <2>1, <2>3, GrantedProceeds
  <2>4. CASE w' = [w EXCEPT !.pc = "goto"]
    <3>1. w'.tries = w.tries /\ w'.conv = w.conv /\ w'.pass = w.pass /\ w'.pc = "goto"
      BY <1>0, <2>4 DEF Worker
    <3>. QED  BY <1>0, <2>1, <3>1, LaterInLookup
  <2>. QED  BY <2>2, <2>3, <2>4 DEF Adopt
<1>5. CASE Refuse \/ OpenFails \/ Fail
  BY <1>5, RaiseProceeds DEF Refuse, OpenFails, Fail, aliasVars
<1>6. CASE Answer \/ GiveUp \/ RetryFails
  BY <1>6, FreeWorkerFact DEF Answer, GiveUp, RetryFails, Proceeds
<1>7. CASE LoginGoto
  <2>1. w' = w /\ tab[w.page] = "blank" /\ tab' = [tab EXCEPT ![w.page] = "chat"] /\ w.pc = "send"
    BY <1>7 DEF LoginGoto, Navigate
  <2>2. w.page \in Pages
    BY <2>1 DEF PagesInv, WorkInv, WorkerAgrees
  <2>3. PageIsBlank /\ ~PageIsBlank'
    BY <1>0, <2>1, <2>2 DEF PageIsBlank
  <2>. QED  BY <2>1, <2>3 DEF Proceeds
<1>8. CASE Retry
  <2>1. w.pc \in {"refused", "failed"} /\ w.tries > 1
    BY <1>8 DEF Retry, PagesInv, WorkInv, WorkerAgrees
  <2>2. w' = [pc |-> "resolve", conv |-> w.conv, page |-> NoPage, tries |-> w.tries - 1,
              pass |-> "first", left |-> {}]
    BY <1>8 DEF Retry, FreeWorker
  <2>3. RequestLeft = 18 * w.tries /\ RequestLeft' = 18 * (w.tries - 1) + 17
    BY <1>0, <2>1, <2>2, RequestLeftIsNat DEF RequestLeft, LookupsLeft, LookupSteps
  <2>. QED  BY <1>0, <2>2, <2>3, RequestLeftIsNat DEF Proceeds
<1>. QED
  BY <1>1, <1>2, <1>3, <1>4, <1>5, <1>6, <1>7, <1>8 DEF Serve

\* What happens meanwhile takes nothing back.
LEMMA OthersLeaveRequest ==
  ASSUME PagesInv, (\E p \in Pages : GoIdle(p)) \/ Environment
  PROVE  w' = w /\ (PageIsBlank' => PageIsBlank)
<1>1. w' = w
  BY DEF GoIdle, Environment
<1>2. \A p \in Pages : tab'[p] = "blank" => tab[p] = "blank"
  BY DEF PagesInv, PagesTypeOK, BrowserTypeOK, GoIdle, Environment, BrowserGone, PageClosed, PageCrashed, browserVars, aliasVars
<1>. QED  BY <1>1, <1>2 DEF PageIsBlank

\* A request that holds the lock has a number of steps left that its own steps
\* take from and no page, crash or loss of the browser adds to: it lets go of
\* the lock after finitely many of its steps, for any pages, cap and retries.
THEOREM RequestsCountDown == PagesSpec => [](RequestLeft \in Nat /\ FewToSweep) /\ RequestCountsDown
<1>1. PagesInit => FewToSweep
  BY FS_EmptySet DEF PagesInit, FewToSweep, FreeWorker
<1>2. PagesInv /\ FewToSweep /\ [PagesStep]_<<pageVars, provider>> => FewToSweep'
  BY SweepStaysFinite
<1>3. PagesInv => RequestLeft \in Nat
  BY RequestLeftIsNat DEF PagesInv, PagesTypeOK, aliasVars
<1>4. PagesInv /\ [PagesStep]_<<pageVars, provider>> =>
        [w.pc # "free" => IF Serve THEN Proceeds ELSE w' = w /\ (PageIsBlank' => PageIsBlank)]_<<pageVars, provider>>
  <2>. SUFFICES ASSUME PagesInv, PagesStep, w.pc # "free"
                PROVE  IF Serve THEN Proceeds ELSE w' = w /\ (PageIsBlank' => PageIsBlank)
    OBVIOUS
  <2>1. Serve \/ (\E p \in Pages : GoIdle(p)) \/ Environment
    BY DEF PagesStep, PagesNext, Begin
  <2>. QED  BY <2>1, ServeProceeds, OthersLeaveRequest
<1>. QED  BY <1>1, <1>2, <1>3, <1>4, PagesInvariant, PTL DEF PagesSpec, RequestCountsDown

=============================================================================
