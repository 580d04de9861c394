------------------------- MODULE LoginCommandProofs -------------------------
(***************************************************************************)
(* The login commands, for any number of them and of other commands, any   *)
(* providers, and any service restarts in between.                         *)
(***************************************************************************)
EXTENDS LoginCommand, TLAPS

\* The pcs at which a login command may have its browser or its lock.
OpenPcs == {"launching", "signing", "handoff", "probing", "closing", "failing"}

\* The pcs of a managed login only.
HandoffPcs == {"handoff", "reopening", "probing"}

\* Outside of OpenPcs it has neither, unless its Chrome was left behind; and it has
\* those of its own profile, an external login its Chrome without the lock.
HoldsWhileOpen ==
  \A l \in Logins, p \in Providers :
    Holds(l, p) =>
      \/ login[l].orphan /\ lock[p] # l
      \/ /\ login[l].pc \in OpenPcs
         /\ p = login[l].provider
         /\ login[l].external => lock[p] # l

\* Only a command that is under way has paused the service, and only one whose
\* run is over has left its Chrome behind.
PausedUnderWay ==
  \A l \in Logins :
    /\ login[l].pc \in {"idle", "loaded", "ended"} => ~login[l].paused
    /\ login[l].orphan => login[l].pc \in {"resuming", "ended"}

\* Chrome is started externally or handed off, but not both.
OneWay ==
  \A l \in Logins : /\ login[l].pc = "launching" => login[l].external
                    /\ login[l].pc \in HandoffPcs => ~login[l].external

Reasons == {DefaultProvider} \cup entitled

\* Neither the file nor any copy of it enables a provider without a reason; for
\* the copy of an edit its own grant is one.  A login whose checks are over has
\* found its provider signed in.
CopiesEntitled ==
  /\ file # Empty => file.enabled \subseteq Reasons
  /\ \A e \in Edits : edit[e].config.enabled \subseteq Reasons \cup edit[e].grants
  /\ \A l \in Logins :
       /\ login[l].config.enabled \subseteq Reasons
       /\ login[l].pc \in {"closing", "saving", "writing"} => login[l].provider \in entitled

SetupInv == SetupTypeOK /\ HoldsWhileOpen /\ PausedUnderWay /\ OneWay /\ CopiesEntitled

-----------------------------------------------------------------------------
(* Helpers *)

LEMMA LoadConfigFact ==
  ASSUME SetupTypeOK
  PROVE  /\ LoadConfig \in Config
         /\ CopiesEntitled => LoadConfig.enabled \subseteq Reasons
<1>. USE LoginCommandAssumption
<1>1. CASE file = Empty
  BY <1>1 DEF LoadConfig, Defaults, Config, Reasons
<1>2. CASE file # Empty
  <2>1. file \in Config
    BY <1>2 DEF SetupTypeOK
  <2>2. LoadConfig = [file EXCEPT !.disabled = {}]
    BY <1>2 DEF LoadConfig
  <2>. QED
    BY <1>2, <2>1, <2>2 DEF Config, CopiesEntitled
<1>. QED
  BY <1>1, <1>2

LEMMA UpdatedFact ==
  ASSUME NEW c \in Config, NEW k \in EditKinds, NEW p \in Providers
  PROVE  /\ Updated(c, k, p) \in Config
         /\ Updated(c, k, p).enabled \subseteq
              c.enabled \cup (IF k \in {"enable", "default"} THEN {p} ELSE {})
<1>1. CASE k = "disable"
  BY <1>1 DEF Updated, Config
<1>2. CASE k = "enable"
  BY <1>2 DEF Updated, Config
<1>3. CASE k = "default"
  BY <1>3 DEF Updated, Config
<1>4. CASE k = "proxy"
  BY <1>4 DEF Updated, Config
<1>. QED
  BY <1>1, <1>2, <1>3, <1>4 DEF EditKinds

LEMMA AuthenticatedFact ==
  ASSUME NEW c \in Config, NEW p \in Providers
  PROVE  /\ Authenticated(c, p) \in Config
         /\ Authenticated(c, p).enabled \subseteq c.enabled \cup {p}
  BY DEF Authenticated, Config

LEMMA NotRunFact ==
  /\ NotRun \in Login
  /\ NotRun.pc = "idle" /\ ~NotRun.paused /\ ~NotRun.orphan
  /\ NotRun.config.enabled = {DefaultProvider}
  BY LoginCommandAssumption DEF NotRun, Login, LoginPcs, Defaults, Config

LEMMA NoEditFact ==
  /\ NoEdit \in Edit
  /\ NoEdit.config.enabled = {DefaultProvider} /\ NoEdit.grants = {}
  BY LoginCommandAssumption DEF NoEdit, Edit, Defaults, Config

\* A login command has no lock and no Chrome after the step that it did not have
\* before.
GainsNothing(m) ==
  \A p \in Providers : (lock'[p] = m => lock[p] = m) /\ (chrome'[p] = m => chrome[p] = m)

\* Giving back frees what one owner holds and nothing else.
LEMMA GivesBackFact ==
  ASSUME NEW o \in Owners, SetupTypeOK, GivesBack(o)
  PROVE  /\ lock' \in [Providers -> Owners] /\ chrome' \in [Providers -> Owners]
         /\ \A l \in Logins : GainsNothing(l)
         /\ o # Nobody => \A p \in Providers : ~Holds(o, p)'
  BY LoginCommandAssumption DEF GivesBack, Freed, SetupTypeOK, Owners, Holds, GainsNothing

\* What a step that gives login command l the record r leaves of the invariant
\* to show: that the record is right, and that nothing else has changed for the
\* worse.
OthersKeep(l) ==
  /\ lock' \in [Providers -> Owners] /\ chrome' \in [Providers -> Owners]
  /\ \A m \in Logins \ {l} : GainsNothing(m)
  /\ entitled \subseteq entitled' /\ entitled' \subseteq Providers
  /\ edit' = edit
  /\ unit' \in {"active", "inactive", "failed"}
  /\ \/ file' = file
     \/ file' = Empty
     \/ file' \in Config /\ file'.enabled \subseteq Reasons'

HoldsNothing(l) == \A p \in Providers : ~Holds(l, p)

KeepsTo(l, pc, q, x) ==
  \A p \in Providers : Holds(l, p)' => pc \in OpenPcs /\ p = q /\ (x => lock'[p] # l)

RecordRight(l, r) ==
  /\ r \in Login
  /\ ~r.orphan => KeepsTo(l, r.pc, r.provider, r.external)
  /\ r.orphan => \A p \in Providers : lock'[p] # l
  /\ r.pc = "launching" => r.external
  /\ r.pc \in HandoffPcs => ~r.external
  /\ r.pc \in {"idle", "loaded", "ended"} => ~r.paused
  /\ r.orphan => r.pc \in {"resuming", "ended"}
  /\ r.config.enabled \subseteq Reasons'
  /\ r.pc \in {"closing", "saving", "writing"} => r.provider \in entitled'

LEMMA OwnStep ==
  ASSUME SetupInv, NEW l \in Logins, NEW r, login' = [login EXCEPT ![l] = r],
         OthersKeep(l), RecordRight(l, r)
  PROVE  SetupInv'
<1>1. /\ login' \in [Logins -> Login]
      /\ login'[l] = r
      /\ \A m \in Logins \ {l} : login'[m] = login[m]
  BY DEF SetupInv, SetupTypeOK, RecordRight
<1>2. SetupTypeOK'
  BY <1>1 DEF SetupInv, SetupTypeOK, OthersKeep
<1>3. HoldsWhileOpen'
  BY <1>1 DEF SetupInv, HoldsWhileOpen, OthersKeep, RecordRight, KeepsTo, GainsNothing, Holds
<1>4. PausedUnderWay' /\ OneWay'
  BY <1>1 DEF SetupInv, PausedUnderWay, OneWay, RecordRight
<1>5. CopiesEntitled'
  BY <1>1 DEF SetupInv, CopiesEntitled, Reasons, OthersKeep, RecordRight
<1>. QED
  BY <1>2, <1>3, <1>4, <1>5 DEF SetupInv

LEMMA GoFact ==
  ASSUME SetupTypeOK, NEW l \in Logins, NEW pc \in LoginPcs, Go(l, pc)
  PROVE  LET r == [login[l] EXCEPT !.pc = pc] IN
           /\ r \in Login /\ login' = [login EXCEPT ![l] = r]
           /\ r.pc = pc /\ r.orphan = login[l].orphan /\ r.paused = login[l].paused
           /\ r.config = login[l].config /\ r.provider = login[l].provider /\ r.external = login[l].external
  BY DEF Go, SetupTypeOK, Login

\* A step that only moves a command on.
LEMMA GoStep ==
  ASSUME SetupInv, NEW l \in Logins, NEW pc \in LoginPcs \ {"idle", "loaded", "ended"}, Go(l, pc),
         OthersKeep(l), ~login[l].orphan,
         KeepsTo(l, pc, login[l].provider, login[l].external),
         pc \in {"closing", "saving", "writing"} => login[l].provider \in entitled',
         pc = "launching" => login[l].external, pc \in HandoffPcs => ~login[l].external
  PROVE  SetupInv'
<1>. DEFINE r == [login[l] EXCEPT !.pc = pc]
<1>1. /\ r \in Login /\ login' = [login EXCEPT ![l] = r]
      /\ r.pc = pc /\ r.orphan = login[l].orphan /\ r.paused = login[l].paused
      /\ r.config = login[l].config /\ r.provider = login[l].provider /\ r.external = login[l].external
  BY GoFact DEF SetupInv
<1>2. login[l].config.enabled \subseteq Reasons'
  BY DEF SetupInv, CopiesEntitled, Reasons, OthersKeep
<1>. HIDE DEF r
<1>3. RecordRight(l, r)
  BY <1>1, <1>2 DEF RecordRight
<1>. QED
  BY <1>1, <1>3, OwnStep

\* What a command that is not under way, or past its cleanup, does not hold.
LEMMA NotHeld ==
  ASSUME SetupInv, NEW l \in Logins, login[l].pc \notin OpenPcs \cup {"resuming", "ended"}
  PROVE  ~login[l].orphan /\ HoldsNothing(l)
  BY DEF SetupInv, HoldsWhileOpen, PausedUnderWay, HoldsNothing

\* A step that touches neither profiles nor the file nor the service.
LEMMA Untouched ==
  ASSUME SetupInv, NEW l \in Logins, UNCHANGED <<file, unit, lock, chrome, edit>>,
         entitled \subseteq entitled', entitled' \subseteq Providers
  PROVE  OthersKeep(l) /\ (HoldsNothing(l) => HoldsNothing(l)')
  BY DEF SetupInv, SetupTypeOK, OthersKeep, HoldsNothing, Holds, GainsNothing

\* A step that takes a profile, its Chrome with or without the lock.
LEMMA Taken ==
  ASSUME SetupInv, NEW l \in Logins, NEW q \in Providers,
         lock' = lock \/ lock' = [lock EXCEPT ![q] = l], chrome' = [chrome EXCEPT ![q] = l],
         UNCHANGED <<file, unit, edit, entitled>>
  PROVE  OthersKeep(l)
<1>1. lock' \in [Providers -> Owners] /\ chrome' \in [Providers -> Owners]
  BY DEF SetupInv, SetupTypeOK, Owners
<1>2. \A m \in Logins \ {l} : GainsNothing(m)
  BY DEF SetupInv, SetupTypeOK, GainsNothing
<1>. QED
  BY <1>1, <1>2 DEF SetupInv, SetupTypeOK, OthersKeep

\* A step that gives everything of the command back.
LEMMA GivenBack ==
  ASSUME SetupInv, NEW l \in Logins, GivesBack(l), UNCHANGED <<file, unit, edit, entitled>>
  PROVE  OthersKeep(l) /\ HoldsNothing(l)'
<1>1. l \in Owners /\ l # Nobody
  BY LoginCommandAssumption DEF Owners
<1>. QED
  BY <1>1, GivesBackFact DEF SetupInv, SetupTypeOK, OthersKeep, HoldsNothing

\* A command whose browser stays open has what it had.
LEMMA StaysOpen ==
  ASSUME SetupInv, NEW l \in Logins, UNCHANGED <<lock, chrome>>,
         login[l].pc \in OpenPcs, NEW pc \in OpenPcs \ {"launching"}
  PROVE  KeepsTo(l, pc, login[l].provider, login[l].external)
<1>1. ~login[l].orphan
  BY DEF SetupInv, PausedUnderWay, OpenPcs
<1>. QED
  BY <1>1 DEF SetupInv, HoldsWhileOpen, KeepsTo, Holds

\* A command whose Chrome is left behind has no lock: it is an external login.
LEMMA LeftBehind ==
  ASSUME SetupInv, NEW l \in Logins, login[l].pc \in OpenPcs, login[l].external, lock' = lock,
         chrome' \in {chrome, Freed(chrome, l)}, UNCHANGED <<file, unit, edit, entitled>>,
         login' = [login EXCEPT ![l].pc = "resuming", ![l].orphan = TRUE]
  PROVE  SetupInv'
<1>. DEFINE r == [login[l] EXCEPT !.pc = "resuming", !.orphan = TRUE]
<1>1. login[l] \in Login /\ login' = [login EXCEPT ![l] = r]
  BY DEF SetupInv, SetupTypeOK
<1>2. r \in Login /\ r.pc = "resuming" /\ r.orphan = TRUE /\ r.config = login[l].config
  BY <1>1 DEF Login, LoginPcs
<1>3. login[l].config.enabled \subseteq Reasons'
  BY DEF SetupInv, CopiesEntitled, Reasons
<1>4. chrome' \in [Providers -> Owners] /\ \A m \in Logins : GainsNothing(m)
  BY LoginCommandAssumption DEF Freed, SetupInv, SetupTypeOK, Owners, GainsNothing
<1>5. OthersKeep(l)
  BY <1>4 DEF OthersKeep, SetupInv, SetupTypeOK
<1>6. \A p \in Providers : lock'[p] # l
  BY DEF SetupInv, HoldsWhileOpen, PausedUnderWay, OpenPcs, Holds
<1>. HIDE DEF r
<1>7. RecordRight(l, r)
  BY <1>2, <1>3, <1>6 DEF RecordRight, HandoffPcs
<1>. QED
  BY <1>1, <1>5, <1>7, OwnStep

LEMMA MayBeOrphan ==
  ASSUME SetupInv, NEW l \in Logins, login[l].pc \notin {"resuming", "ended"}
  PROVE  ~login[l].orphan
  BY DEF SetupInv, PausedUnderWay

-----------------------------------------------------------------------------
(* The steps of a login command *)

LEMMA LoginLoadInv ==
  ASSUME SetupInv, NEW l \in Logins, LoginLoad(l)
  PROVE  SetupInv'
<1>. PICK p \in Providers, x \in BOOLEAN :
       login' = [login EXCEPT ![l] = [@ EXCEPT !.pc = "loaded", !.provider = p, !.external = x,
                   !.config = LoadConfig, !.barred = file # Empty /\ p \in file.disabled]]
  BY DEF LoginLoad
<1>. DEFINE b == file # Empty /\ p \in file.disabled
            r == [login[l] EXCEPT !.pc = "loaded", !.provider = p, !.external = x,
                                  !.config = LoadConfig, !.barred = b]
<1>1. LoadConfig \in Config /\ LoadConfig.enabled \subseteq Reasons
  BY LoadConfigFact DEF SetupInv
<1>2. /\ r \in Login /\ r.pc = "loaded" /\ r.orphan = login[l].orphan
      /\ r.paused = login[l].paused /\ r.config = LoadConfig
  <2>1. b \in BOOLEAN
    OBVIOUS
  <2>. HIDE DEF b
  <2>. QED
    BY <1>1, <2>1 DEF SetupInv, SetupTypeOK, Login, LoginPcs
<1>3. login' = [login EXCEPT ![l] = r]
  OBVIOUS
<1>4. UNCHANGED <<file, unit, lock, chrome, edit, entitled>> /\ At(l, "idle")
  BY DEF LoginLoad
<1>5. ~login[l].paused
  BY <1>4 DEF At, SetupInv, PausedUnderWay
<1>6. OthersKeep(l) /\ ~r.orphan /\ HoldsNothing(l)'
  BY <1>2, <1>4, NotHeld, Untouched DEF At, OpenPcs, SetupInv, SetupTypeOK
<1>7. Reasons' = Reasons
  BY <1>4 DEF Reasons
<1>. HIDE DEF r
<1>8. RecordRight(l, r)
  BY <1>1, <1>2, <1>5, <1>6, <1>7 DEF RecordRight, KeepsTo, HoldsNothing, HandoffPcs
<1>. QED
  BY <1>3, <1>6, <1>8, OwnStep

LEMMA PauseInv ==
  ASSUME SetupInv, NEW l \in Logins, Pause(l)
  PROVE  SetupInv'
<1>. DEFINE r == [login[l] EXCEPT !.pc = "preparing", !.paused = (unit = "active")]
<1>1. login' = [login EXCEPT ![l] = r] /\ At(l, "loaded")
  BY DEF Pause
<1>2. /\ r \in Login /\ r.pc = "preparing" /\ r.orphan = login[l].orphan
      /\ r.config = login[l].config
  BY DEF SetupInv, SetupTypeOK, Login, LoginPcs
<1>3. /\ lock' \in [Providers -> Owners] /\ chrome' \in [Providers -> Owners]
      /\ \A m \in Logins : GainsNothing(m)
  <2>1. CASE unit = "active"
    BY <2>1, GivesBackFact DEF Pause, Owners, SetupInv
  <2>2. CASE unit # "active"
    BY <2>2 DEF Pause, SetupInv, SetupTypeOK, GainsNothing
  <2>. QED BY <2>1, <2>2
<1>4. ~r.orphan /\ HoldsNothing(l)'
  BY <1>1, <1>2, <1>3, NotHeld DEF At, OpenPcs, HoldsNothing, GainsNothing, Holds
<1>5. UNCHANGED <<file, edit, entitled>> /\ unit' \in {"active", "inactive", "failed"}
  BY DEF Pause, SetupInv, SetupTypeOK
<1>6. login[l].config.enabled \subseteq Reasons' /\ entitled \subseteq Providers
  BY <1>5 DEF SetupInv, SetupTypeOK, CopiesEntitled, Reasons
<1>. HIDE DEF r
<1>7. OthersKeep(l)
  BY <1>3, <1>5, <1>6 DEF OthersKeep
<1>8. RecordRight(l, r)
  BY <1>2, <1>4, <1>6 DEF RecordRight, KeepsTo, HoldsNothing, HandoffPcs
<1>. QED
  BY <1>1, <1>7, <1>8, OwnStep

LEMMA PauseFailsInv ==
  ASSUME SetupInv, NEW l \in Logins, PauseFails(l)
  PROVE  SetupInv'
<1>. DEFINE r == [NotRun EXCEPT !.pc = "ended"]
<1>1. login' = [login EXCEPT ![l] = r] /\ At(l, "loaded")
  BY DEF PauseFails
<1>2. r \in Login /\ r.pc = "ended" /\ ~r.paused /\ ~r.orphan /\ r.config.enabled = {DefaultProvider}
  BY NotRunFact DEF Login, LoginPcs
<1>3. /\ lock' \in [Providers -> Owners] /\ chrome' \in [Providers -> Owners]
      /\ \A m \in Logins : GainsNothing(m)
  <2>1. CASE GivesBack(Service)
    BY <2>1, GivesBackFact DEF Owners, SetupInv
  <2>2. CASE UNCHANGED <<lock, chrome>>
    BY <2>2 DEF SetupInv, SetupTypeOK, GainsNothing
  <2>. QED BY <2>1, <2>2 DEF PauseFails
<1>4. HoldsNothing(l)'
  BY <1>1, <1>3, NotHeld DEF At, OpenPcs, HoldsNothing, GainsNothing, Holds
<1>5. UNCHANGED <<file, edit, entitled>> /\ unit' \in {"active", "inactive", "failed"}
  BY DEF PauseFails, SetupInv, SetupTypeOK
<1>6. {DefaultProvider} \subseteq Reasons' /\ entitled \subseteq Providers
  BY DEF SetupInv, SetupTypeOK, Reasons
<1>. HIDE DEF r
<1>7. OthersKeep(l)
  BY <1>3, <1>5, <1>6 DEF OthersKeep
<1>8. RecordRight(l, r)
  BY <1>2, <1>4, <1>6 DEF RecordRight, KeepsTo, HoldsNothing, HandoffPcs
<1>. QED
  BY <1>1, <1>7, <1>8, OwnStep

LEMMA LaunchInv ==
  ASSUME SetupInv, NEW l \in Logins, LaunchManaged(l) \/ LaunchExternal(l)
  PROVE  SetupInv'
<1>1. Profile(l) \in Providers /\ ~login[l].orphan /\ HoldsNothing(l)
  BY NotHeld DEF LaunchManaged, LaunchExternal, At, Profile, SetupInv, SetupTypeOK, Login, OpenPcs
<1>2. OthersKeep(l)
  BY <1>1, Taken DEF LaunchManaged, LaunchExternal
<1>3. CASE LaunchManaged(l)
  <2>1. KeepsTo(l, "signing", login[l].provider, login[l].external)
    BY <1>1, <1>3 DEF LaunchManaged, KeepsTo, HoldsNothing, Holds, Profile, OpenPcs,
       SetupInv, SetupTypeOK
  <2>. QED
    BY <1>1, <1>2, <1>3, <2>1, GoStep DEF LaunchManaged, LoginPcs, HandoffPcs
<1>4. CASE LaunchExternal(l)
  <2>1. KeepsTo(l, "launching", login[l].provider, login[l].external)
    BY <1>1, <1>4 DEF LaunchExternal, KeepsTo, HoldsNothing, Holds, Profile, OpenPcs,
       SetupInv, SetupTypeOK
  <2>. QED
    BY <1>1, <1>2, <1>4, <2>1, GoStep DEF LaunchExternal, LoginPcs, HandoffPcs
<1>. QED
  BY <1>3, <1>4

LEMMA LaunchFailsInv ==
  ASSUME SetupInv, NEW l \in Logins, LaunchFails(l)
  PROVE  SetupInv'
<1>1. ~login[l].orphan /\ HoldsNothing(l)
  BY NotHeld DEF LaunchFails, At, OpenPcs
<1>2. OthersKeep(l) /\ HoldsNothing(l)'
  BY <1>1, Untouched DEF LaunchFails, SetupInv, SetupTypeOK
<1>3. Go(l, "resuming")
  BY DEF LaunchFails
<1>. QED
  BY <1>1, <1>2, <1>3, GoStep DEF LoginPcs, KeepsTo, HoldsNothing, HandoffPcs

LEMMA ConnectInv ==
  ASSUME SetupInv, NEW l \in Logins, Connect(l)
  PROVE  SetupInv'
<1>1. ~login[l].orphan
  BY MayBeOrphan DEF Connect, At
<1>2. OthersKeep(l)
  BY Untouched DEF Connect, SetupInv, SetupTypeOK
<1>3. Go(l, "signing") /\ KeepsTo(l, "signing", login[l].provider, login[l].external)
  BY StaysOpen DEF Connect, At, OpenPcs
<1>. QED
  BY <1>1, <1>2, <1>3, GoStep DEF LoginPcs, HandoffPcs

\* Playwright does not start, or the cleanup of an external login is broken off.
LEMMA LeavesBehindInv ==
  ASSUME SetupInv, NEW l \in Logins, ConnectFails(l) \/ CleanUpBreaksOff(l)
  PROVE  SetupInv'
<1>1. login[l].pc \in OpenPcs /\ login[l].external
  BY DEF ConnectFails, CleanUpBreaksOff, At, OpenPcs, SetupInv, OneWay
<1>. QED
  BY <1>1, LeftBehind DEF ConnectFails, CleanUpBreaksOff

LEMMA ExternalExitsInv ==
  ASSUME SetupInv, NEW l \in Logins, ExternalExits(l)
  PROVE  SetupInv'
<1>1. ~login[l].orphan
  BY MayBeOrphan DEF ExternalExits, At
<1>2. HoldsNothing(l)
  BY <1>1 DEF ExternalExits, At, Profile, HoldsNothing, Holds, SetupInv, HoldsWhileOpen, OneWay
<1>3. OthersKeep(l) /\ HoldsNothing(l)'
  BY <1>2, Untouched DEF ExternalExits, SetupInv, SetupTypeOK
<1>4. Go(l, "resuming")
  BY DEF ExternalExits
<1>. QED
  BY <1>1, <1>3, <1>4, GoStep DEF LoginPcs, KeepsTo, HoldsNothing, HandoffPcs

LEMMA LookInv ==
  ASSUME SetupInv, NEW l \in Logins, Look(l)
  PROVE  SetupInv'
<1>. PICK ready \in BOOLEAN :
       LET done  == ready /\ (login[l].external \/ login[l].streak)
           hands == ~login[l].external /\ Profile(l) \in HandedOff
       IN /\ ready => chrome[Profile(l)] = l
          /\ login' = [login EXCEPT ![l].streak = ready /\ ~done,
                         ![l].pc = IF ~done THEN @ ELSE IF hands THEN "handoff" ELSE "closing"]
          /\ entitled' = IF done /\ ~hands THEN entitled \cup {Profile(l)} ELSE entitled
  BY DEF Look
<1>. DEFINE done  == ready /\ (login[l].external \/ login[l].streak)
            hands == ~login[l].external /\ Profile(l) \in HandedOff
            pc    == IF ~done THEN "signing" ELSE IF hands THEN "handoff" ELSE "closing"
            st    == ready /\ ~done
            r     == [login[l] EXCEPT !.streak = st, !.pc = pc]
<1>1. /\ UNCHANGED <<file, unit, lock, chrome, edit>>
      /\ login[l].pc = "signing" /\ login[l] \in Login
  BY DEF Look, At, SetupInv, SetupTypeOK
<1>2. login' = [login EXCEPT ![l] = r]
  BY <1>1 DEF SetupInv, SetupTypeOK, Login
<1>3. /\ pc \in {"signing", "handoff", "closing"} /\ st \in BOOLEAN
      /\ pc = "closing" => Profile(l) \in entitled'
      /\ pc = "handoff" => ~login[l].external
      /\ entitled \subseteq entitled' /\ entitled' \subseteq Providers
  BY <1>1 DEF SetupInv, SetupTypeOK, Profile, Login
<1>4. OthersKeep(l) /\ ~login[l].orphan
  BY <1>1, <1>3, Untouched, MayBeOrphan
<1>. HIDE DEF done, hands, pc, st
<1>5. /\ r \in Login /\ r.pc = pc /\ r.orphan = login[l].orphan
      /\ r.paused = login[l].paused /\ r.config = login[l].config
      /\ r.provider = login[l].provider /\ r.external = login[l].external
  BY <1>1, <1>3 DEF Login, LoginPcs
<1>6. KeepsTo(l, pc, login[l].provider, login[l].external)
  BY <1>1, <1>3, StaysOpen DEF OpenPcs
<1>7. login[l].config.enabled \subseteq Reasons'
  BY <1>3 DEF SetupInv, CopiesEntitled, Reasons
<1>. HIDE DEF r
<1>8. RecordRight(l, r)
  BY <1>3, <1>4, <1>5, <1>6, <1>7 DEF RecordRight, Profile, HandoffPcs
<1>. QED
  BY <1>2, <1>4, <1>8, OwnStep

LEMMA TimeOutInv ==
  ASSUME SetupInv, NEW l \in Logins, TimeOut(l)
  PROVE  SetupInv'
<1>. DEFINE r == [login[l] EXCEPT !.pc = "failing", !.streak = FALSE]
<1>1. /\ UNCHANGED <<file, unit, lock, chrome, edit, entitled>>
      /\ login[l].pc = "signing" /\ login[l] \in Login
  BY DEF TimeOut, At, SetupInv, SetupTypeOK
<1>2. login' = [login EXCEPT ![l] = r]
  BY DEF TimeOut
<1>3. /\ r \in Login /\ r.pc = "failing" /\ r.orphan = login[l].orphan
      /\ r.config = login[l].config /\ r.provider = login[l].provider /\ r.external = login[l].external
  BY <1>1 DEF Login, LoginPcs
<1>4. OthersKeep(l) /\ ~login[l].orphan
  BY <1>1, Untouched, MayBeOrphan DEF SetupInv, SetupTypeOK
<1>5. KeepsTo(l, "failing", login[l].provider, login[l].external)
  BY <1>1, StaysOpen DEF OpenPcs
<1>6. login[l].config.enabled \subseteq Reasons'
  BY <1>1 DEF SetupInv, CopiesEntitled, Reasons
<1>. HIDE DEF r
<1>7. RecordRight(l, r)
  BY <1>3, <1>4, <1>5, <1>6 DEF RecordRight, HandoffPcs
<1>. QED
  BY <1>2, <1>4, <1>7, OwnStep

\* The steps after which the command holds nothing.
LEMMA GiveBackInv ==
  ASSUME SetupInv, NEW l \in Logins, HandoffStop(l) \/ Close(l) \/ CleanUp(l)
  PROVE  SetupInv'
<1>1. /\ ~login[l].orphan
      /\ Close(l) => login[l].provider \in entitled'
      /\ HandoffStop(l) => ~login[l].external
  BY MayBeOrphan DEF HandoffStop, Close, CleanUp, At, SetupInv, CopiesEntitled, OneWay, HandoffPcs
<1>2. OthersKeep(l) /\ HoldsNothing(l)'
  BY GivenBack DEF HandoffStop, Close, CleanUp
<1>3. \A pc : KeepsTo(l, pc, login[l].provider, login[l].external)
  BY <1>2 DEF KeepsTo, HoldsNothing
<1>4. CASE HandoffStop(l)
  BY <1>1, <1>2, <1>3, <1>4, GoStep DEF HandoffStop, LoginPcs, HandoffPcs
<1>5. CASE Close(l) /\ Go(l, "saving")
  BY <1>1, <1>2, <1>3, <1>5, GoStep DEF LoginPcs, HandoffPcs
<1>6. CASE Go(l, "failing")
  BY <1>1, <1>2, <1>3, <1>6, GoStep DEF LoginPcs, HandoffPcs
<1>7. CASE CleanUp(l)
  BY <1>1, <1>2, <1>3, <1>7, GoStep DEF CleanUp, LoginPcs, HandoffPcs
<1>. QED
  BY <1>4, <1>5, <1>6, <1>7 DEF Close

\* What is known of a command that takes its profile again.
LEMMA TakesAgain ==
  ASSUME SetupInv, NEW l \in Logins, NEW pc \in OpenPcs \ {"launching"},
         login[l].pc \in {"handoff", "reopening", "probing"},
         lock' = [lock EXCEPT ![Profile(l)] = l], chrome' = [chrome EXCEPT ![Profile(l)] = l],
         UNCHANGED <<file, unit, edit, entitled>>
  PROVE  OthersKeep(l) /\ KeepsTo(l, pc, login[l].provider, login[l].external)
<1>1. Profile(l) \in Providers /\ ~login[l].orphan /\ ~login[l].external
  BY MayBeOrphan DEF Profile, SetupInv, SetupTypeOK, Login, OneWay, HandoffPcs
<1>2. OthersKeep(l)
  BY <1>1, Taken
<1>3. \A p \in Providers : Holds(l, p) => p = login[l].provider
  BY <1>1 DEF SetupInv, HoldsWhileOpen
<1>. QED
  BY <1>1, <1>2, <1>3 DEF KeepsTo, Holds, Profile, SetupInv, SetupTypeOK

LEMMA HandoffStartInv ==
  ASSUME SetupInv, NEW l \in Logins, HandoffStart(l)
  PROVE  SetupInv'
<1>1. OthersKeep(l) /\ KeepsTo(l, "probing", login[l].provider, login[l].external)
  BY TakesAgain DEF HandoffStart, At, OpenPcs
<1>2. Go(l, "probing") /\ ~login[l].orphan /\ ~login[l].external
  BY MayBeOrphan DEF HandoffStart, At, SetupInv, OneWay, HandoffPcs
<1>. QED
  BY <1>1, <1>2, GoStep DEF LoginPcs, HandoffPcs

LEMMA HandoffProbeInv ==
  ASSUME SetupInv, NEW l \in Logins, HandoffProbe(l)
  PROVE  SetupInv'
<1>1. /\ UNCHANGED <<file, unit, lock, chrome, edit>> /\ Go(l, "closing")
      /\ login[l].pc = "probing" /\ login[l].provider \in Providers
      /\ entitled' = entitled \cup {login[l].provider}
  BY DEF HandoffProbe, At, Profile, SetupInv, SetupTypeOK, Login
<1>2. OthersKeep(l) /\ ~login[l].orphan
  BY <1>1, Untouched, MayBeOrphan DEF SetupInv, SetupTypeOK
<1>3. KeepsTo(l, "closing", login[l].provider, login[l].external)
  BY <1>1, StaysOpen DEF OpenPcs
<1>. QED
  BY <1>1, <1>2, <1>3, GoStep DEF LoginPcs, HandoffPcs

LEMMA HandoffFailsInv ==
  ASSUME SetupInv, NEW l \in Logins, HandoffFails(l)
  PROVE  SetupInv'
<1>1. Go(l, "failing") /\ ~login[l].orphan /\ UNCHANGED <<file, unit, edit, entitled>>
  BY MayBeOrphan DEF HandoffFails
<1>2. CASE GivesBack(l)
  <2>1. OthersKeep(l) /\ HoldsNothing(l)'
    BY <1>1, <1>2, GivenBack
  <2>. QED
    BY <1>1, <2>1, GoStep DEF KeepsTo, HoldsNothing, LoginPcs, HandoffPcs
<1>3. CASE ~GivesBack(l)
  <2>1. OthersKeep(l) /\ KeepsTo(l, "failing", login[l].provider, login[l].external)
    BY <1>1, <1>3, TakesAgain DEF HandoffFails, OpenPcs
  <2>. QED
    BY <1>1, <2>1, GoStep DEF LoginPcs, HandoffPcs
<1>. QED
  BY <1>2, <1>3

\* What a command keeps that holds nothing and leaves profiles alone.
LEMMA HoldsStillNothing ==
  ASSUME SetupInv, NEW l \in Logins, login[l].pc \in {"preparing", "saving", "writing"},
         UNCHANGED <<lock, chrome>>
  PROVE  /\ ~login[l].orphan
         /\ \A pc : KeepsTo(l, pc, login[l].provider, login[l].external)
         /\ \A m \in Logins : GainsNothing(m)
<1>1. ~login[l].orphan /\ HoldsNothing(l)
  BY NotHeld DEF OpenPcs
<1>. QED
  BY <1>1 DEF KeepsTo, HoldsNothing, Holds, GainsNothing

LEMMA LoginSaveInv ==
  ASSUME SetupInv, NEW l \in Logins, LoginTruncate(l) \/ LoginWrite(l)
  PROVE  SetupInv'
<1>1. /\ UNCHANGED <<unit, lock, chrome, edit, entitled>> /\ login[l] \in Login
      /\ login[l].pc \in {"saving", "writing"}
  BY DEF LoginTruncate, LoginWrite, At, SetupInv, SetupTypeOK
<1>2. ~login[l].orphan /\ \A pc : KeepsTo(l, pc, login[l].provider, login[l].external)
  BY <1>1, HoldsStillNothing
<1>3. login[l].provider \in entitled /\ login[l].config.enabled \subseteq Reasons
  BY <1>1 DEF SetupInv, CopiesEntitled
<1>4. \/ file' = Empty
      \/ file' \in Config /\ file'.enabled \subseteq Reasons'
  <2>1. CASE LoginTruncate(l)
    BY <2>1 DEF LoginTruncate
  <2>2. CASE LoginWrite(l)
    <3>1. login[l].config \in Config /\ login[l].provider \in Providers
      BY <1>1 DEF Login
    <3>. QED
      BY <1>1, <1>3, <2>2, <3>1, AuthenticatedFact DEF LoginWrite, Profile, Reasons
  <2>. QED
    BY <2>1, <2>2
<1>5. OthersKeep(l)
  BY <1>1, <1>4, HoldsStillNothing DEF OthersKeep, SetupInv, SetupTypeOK
<1>6. CASE LoginTruncate(l)
  BY <1>1, <1>2, <1>3, <1>5, <1>6, GoStep DEF LoginTruncate, LoginPcs, HandoffPcs
<1>7. CASE LoginWrite(l)
  BY <1>1, <1>2, <1>3, <1>5, <1>7, GoStep DEF LoginWrite, LoginPcs, HandoffPcs
<1>. QED
  BY <1>6, <1>7

LEMMA ResumeInv ==
  ASSUME SetupInv, NEW l \in Logins, Resume(l)
  PROVE  SetupInv'
<1>. DEFINE r == [NotRun EXCEPT !.pc = "ended", !.orphan = login[l].orphan]
<1>1. /\ UNCHANGED <<file, lock, chrome, edit, entitled>> /\ login[l] \in Login
      /\ login[l].pc = "resuming" /\ login' = [login EXCEPT ![l] = r]
  BY DEF Resume, At, SetupInv, SetupTypeOK
<1>2. /\ r \in Login /\ r.pc = "ended" /\ ~r.paused /\ r.orphan = login[l].orphan
      /\ r.config.enabled = {DefaultProvider}
  BY <1>1, NotRunFact DEF Login, LoginPcs
<1>3. unit' \in {"active", "inactive", "failed"}
  BY DEF Resume, SetupInv, SetupTypeOK
<1>4. OthersKeep(l)
  BY <1>1, <1>3 DEF OthersKeep, GainsNothing, SetupInv, SetupTypeOK
<1>5. /\ \A p \in Providers : lock'[p] # l
      /\ login[l].orphan \/ HoldsNothing(l)'
  BY <1>1 DEF SetupInv, HoldsWhileOpen, HoldsNothing, OpenPcs, Holds
<1>. HIDE DEF r
<1>6. RecordRight(l, r)
  BY <1>2, <1>5 DEF RecordRight, KeepsTo, HoldsNothing, Reasons, HandoffPcs
<1>. QED
  BY <1>1, <1>4, <1>6, OwnStep

LEMMA InterruptInv ==
  ASSUME SetupInv, NEW l \in Logins, Interrupt(l)
  PROVE  SetupInv'
<1>1. UNCHANGED <<file, unit, lock, chrome, edit, entitled>> /\ login[l] \in Login
  BY DEF Interrupt, SetupInv, SetupTypeOK
<1>2. OthersKeep(l)
  BY <1>1, Untouched DEF SetupInv, SetupTypeOK
<1>3. CASE login[l].pc \in {"signing", "closing"} /\ Go(l, "failing")
  <2>1. ~login[l].orphan /\ KeepsTo(l, "failing", login[l].provider, login[l].external)
    BY <1>1, <1>3, MayBeOrphan, StaysOpen DEF OpenPcs
  <2>. QED
    BY <1>2, <1>3, <2>1, GoStep DEF LoginPcs, HandoffPcs
<1>4. CASE login[l].pc \in {"preparing", "saving", "writing"} /\ Go(l, "resuming")
  <2>1. ~login[l].orphan /\ KeepsTo(l, "resuming", login[l].provider, login[l].external)
    BY <1>1, <1>4, HoldsStillNothing
  <2>. QED
    BY <1>2, <1>4, <2>1, GoStep DEF LoginPcs, HandoffPcs
<1>5. CASE /\ At(l, "launching")
           /\ login' = [login EXCEPT ![l].pc = "resuming", ![l].orphan = TRUE]
  <2>1. login[l].pc \in OpenPcs /\ login[l].external
    BY <1>5 DEF At, OpenPcs, SetupInv, OneWay
  <2>. QED
    BY <1>1, <1>5, <2>1, LeftBehind
<1>. QED
  BY <1>3, <1>4, <1>5 DEF Interrupt

-----------------------------------------------------------------------------
(* The steps of everybody else *)

\* A step that leaves the login commands and what they hold alone.
LEMMA OtherStep ==
  ASSUME SetupInv, SetupTypeOK', UNCHANGED login, \A m \in Logins : GainsNothing(m),
         entitled \subseteq entitled',
         file' # Empty => file'.enabled \subseteq Reasons',
         \A e \in Edits : edit'[e].config.enabled \subseteq Reasons' \cup edit'[e].grants
  PROVE  SetupInv'
<1>1. HoldsWhileOpen'
  BY DEF SetupInv, HoldsWhileOpen, GainsNothing, Holds
<1>2. PausedUnderWay' /\ OneWay'
  BY DEF SetupInv, PausedUnderWay, OneWay
<1>3. CopiesEntitled'
  BY DEF SetupInv, CopiesEntitled, Reasons
<1>. QED
  BY <1>1, <1>2, <1>3 DEF SetupInv

LEMMA EditLoadInv ==
  ASSUME SetupInv, NEW e \in Edits, EditLoad(e)
  PROVE  SetupInv'
<1>1. UNCHANGED <<file, unit, lock, chrome, login, entitled>>
  BY DEF EditLoad
<1>. PICK k \in EditKinds, p \in Providers :
       edit' = [edit EXCEPT ![e] =
                  IF Refused(LoadConfig, k, p) THEN [NoEdit EXCEPT !.pc = "ended"]
                  ELSE [pc |-> "loaded", config |-> Updated(LoadConfig, k, p),
                        grants |-> IF k \in {"enable", "default"} THEN {p} ELSE {}]]
  BY DEF EditLoad
<1>. DEFINE g == IF k \in {"enable", "default"} THEN {p} ELSE {}
            n == IF Refused(LoadConfig, k, p) THEN [NoEdit EXCEPT !.pc = "ended"]
                 ELSE [pc |-> "loaded", config |-> Updated(LoadConfig, k, p), grants |-> g]
<1>2. edit' = [edit EXCEPT ![e] = n]
  OBVIOUS
<1>3. /\ Updated(LoadConfig, k, p) \in Config
      /\ Updated(LoadConfig, k, p).enabled \subseteq Reasons \cup g
  BY LoadConfigFact, UpdatedFact DEF SetupInv
<1>4. n \in Edit /\ n.config.enabled \subseteq Reasons \cup n.grants
  BY <1>3, NoEditFact DEF Edit, Reasons
<1>. HIDE DEF n
<1>5. SetupTypeOK'
  BY <1>1, <1>2, <1>4 DEF SetupInv, SetupTypeOK
<1>6. \A d \in Edits : edit'[d].config.enabled \subseteq Reasons' \cup edit'[d].grants
  BY <1>1, <1>2, <1>4 DEF SetupInv, SetupTypeOK, CopiesEntitled, Reasons
<1>. QED
  BY <1>1, <1>5, <1>6, OtherStep DEF SetupInv, CopiesEntitled, Reasons, GainsNothing

LEMMA EditTruncateInv ==
  ASSUME SetupInv, NEW e \in Edits, EditTruncate(e)
  PROVE  SetupInv'
<1>1. /\ UNCHANGED <<unit, lock, chrome, login, entitled>> /\ file' = Empty
      /\ edit' = [edit EXCEPT ![e].pc = "writing"]
  BY DEF EditTruncate
<1>2. SetupTypeOK'
  BY <1>1 DEF SetupInv, SetupTypeOK, Edit
<1>3. \A d \in Edits : edit'[d].config.enabled \subseteq Reasons' \cup edit'[d].grants
  BY <1>1 DEF SetupInv, SetupTypeOK, CopiesEntitled, Reasons, Edit
<1>. QED
  BY <1>1, <1>2, <1>3, OtherStep DEF GainsNothing

LEMMA EditWriteInv ==
  ASSUME SetupInv, NEW e \in Edits, EditWrite(e)
  PROVE  SetupInv'
<1>. DEFINE n == [NoEdit EXCEPT !.pc = "ended"]
<1>1. /\ UNCHANGED <<unit, lock, chrome, login>> /\ file' = edit[e].config
      /\ edit' = [edit EXCEPT ![e] = n] /\ edit[e] \in Edit
      /\ entitled' = entitled \cup edit[e].grants
  BY DEF EditWrite, SetupInv, SetupTypeOK
<1>2. n \in Edit /\ n.config.enabled = {DefaultProvider}
  BY NoEditFact DEF Edit
<1>. HIDE DEF n
<1>3. SetupTypeOK'
  BY <1>1, <1>2 DEF SetupInv, SetupTypeOK, Edit
<1>4. file'.enabled \subseteq Reasons'
  BY <1>1 DEF SetupInv, CopiesEntitled, Reasons
<1>5. \A d \in Edits : edit'[d].config.enabled \subseteq Reasons' \cup edit'[d].grants
  BY <1>1, <1>2 DEF SetupInv, SetupTypeOK, CopiesEntitled, Reasons
<1>. QED
  BY <1>1, <1>3, <1>4, <1>5, OtherStep DEF GainsNothing

LEMMA ServiceInv ==
  ASSUME SetupInv, ServiceRestarts \/ \E p \in Providers : ServiceOpens(p) \/ UserCloses(p)
  PROVE  SetupInv'
<1>1. UNCHANGED <<file, login, edit, entitled>> /\ unit' \in {"active", "inactive", "failed"}
  BY DEF ServiceRestarts, ServiceOpens, UserCloses, SetupInv, SetupTypeOK
<1>2. /\ lock' \in [Providers -> Owners] /\ chrome' \in [Providers -> Owners]
      /\ \A m \in Logins : GainsNothing(m)
  <2>1. CASE ServiceRestarts
    BY <2>1, GivesBackFact DEF ServiceRestarts, Owners, SetupInv
  <2>2. ASSUME NEW p \in Providers, ServiceOpens(p)
        PROVE  /\ lock' \in [Providers -> Owners] /\ chrome' \in [Providers -> Owners]
               /\ \A m \in Logins : GainsNothing(m)
    BY <2>2, LoginCommandAssumption DEF ServiceOpens, SetupInv, SetupTypeOK, Owners, GainsNothing
  <2>3. ASSUME NEW p \in Providers, UserCloses(p)
        PROVE  /\ lock' \in [Providers -> Owners] /\ chrome' \in [Providers -> Owners]
               /\ \A m \in Logins : GainsNothing(m)
    BY <2>3, LoginCommandAssumption DEF UserCloses, SetupInv, SetupTypeOK, Owners, GainsNothing
  <2>. QED
    BY <2>1, <2>2, <2>3
<1>3. SetupTypeOK'
  BY <1>1, <1>2 DEF SetupInv, SetupTypeOK
<1>. QED
  BY <1>1, <1>2, <1>3, OtherStep DEF SetupInv, CopiesEntitled, Reasons

-----------------------------------------------------------------------------
(* The invariant and what follows *)

LEMMA SetupInitInv == SetupInit => SetupInv
<1>. SUFFICES ASSUME SetupInit PROVE SetupInv
  OBVIOUS
<1>1. SetupTypeOK
  BY NotRunFact, NoEditFact DEF SetupInit, SetupTypeOK, Owners, Config
<1>2. HoldsWhileOpen
  BY LoginCommandAssumption DEF SetupInit, HoldsWhileOpen, Holds
<1>3. PausedUnderWay /\ OneWay
  BY NotRunFact DEF SetupInit, PausedUnderWay, OneWay, HandoffPcs
<1>4. CopiesEntitled
  BY NotRunFact, NoEditFact DEF SetupInit, CopiesEntitled, Reasons
<1>. QED
  BY <1>1, <1>2, <1>3, <1>4 DEF SetupInv

LEMMA SetupStepInv == SetupInv /\ [SetupNext]_setupVars => SetupInv'
<1>. SUFFICES ASSUME SetupInv, [SetupNext]_setupVars PROVE SetupInv'
  OBVIOUS
<1>1. ASSUME NEW l \in Logins, LoginLoad(l) \/ Pause(l) \/ PauseFails(l) PROVE SetupInv'
  BY <1>1, LoginLoadInv, PauseInv, PauseFailsInv
<1>2. ASSUME NEW l \in Logins,
             \/ LaunchManaged(l) \/ LaunchExternal(l) \/ LaunchFails(l)
             \/ Connect(l) \/ ConnectFails(l) \/ ExternalExits(l)
      PROVE  SetupInv'
  BY <1>2, LaunchInv, LaunchFailsInv, ConnectInv, LeavesBehindInv, ExternalExitsInv
<1>3. ASSUME NEW l \in Logins, Look(l) \/ TimeOut(l) \/ Interrupt(l) PROVE SetupInv'
  BY <1>3, LookInv, TimeOutInv, InterruptInv
<1>4. ASSUME NEW l \in Logins,
             HandoffStop(l) \/ HandoffStart(l) \/ HandoffProbe(l) \/ HandoffFails(l)
      PROVE  SetupInv'
  BY <1>4, GiveBackInv, HandoffStartInv, HandoffProbeInv, HandoffFailsInv
<1>5. ASSUME NEW l \in Logins,
             \/ Close(l) \/ CleanUp(l) \/ CleanUpBreaksOff(l)
             \/ LoginTruncate(l) \/ LoginWrite(l) \/ Resume(l)
      PROVE  SetupInv'
  BY <1>5, GiveBackInv, LeavesBehindInv, LoginSaveInv, ResumeInv
<1>6. ASSUME NEW e \in Edits, EditLoad(e) \/ EditTruncate(e) \/ EditWrite(e) PROVE SetupInv'
  BY <1>6, EditLoadInv, EditTruncateInv, EditWriteInv
<1>7. CASE ServiceRestarts \/ \E p \in Providers : ServiceOpens(p) \/ UserCloses(p)
  BY <1>7, ServiceInv
<1>8. CASE UNCHANGED setupVars
  BY <1>8 DEF setupVars, SetupInv, SetupTypeOK, HoldsWhileOpen, PausedUnderWay, OneWay,
     CopiesEntitled, Reasons, Holds
<1>. QED
  BY <1>1, <1>2, <1>3, <1>4, <1>5, <1>6, <1>7, <1>8 DEF SetupNext

LEMMA SetupInvariant == SetupSpec => []SetupInv
  BY SetupInitInv, SetupStepInv, PTL DEF SetupSpec

\* The commands, the service and the file stay within their types.
THEOREM SetupTypeCorrect == SetupSpec => []SetupTypeOK
<1>1. SetupInv => SetupTypeOK
  BY DEF SetupInv
<1>. QED
  BY <1>1, SetupInvariant, PTL

\* However a login ends, its lock is released, and its Chrome is gone before the
\* configuration is saved and, but for the three ways an external Chrome is left
\* behind, before the service is started (run_manual_auth's cleanup before main's
\* finally).
THEOREM ProfileIsGivenBack == SetupSpec => []LoginGivesProfileBack
<1>1. SetupInv => LoginGivesProfileBack
  BY DEF SetupInv, HoldsWhileOpen, PausedUnderWay, LoginGivesProfileBack, OpenPcs, Holds
<1>. QED
  BY <1>1, SetupInvariant, PTL

\* Whatever commands edit the file at the same time, and however often it is
\* read half saved, no provider is enabled without a reason
\* (mark_provider_authenticated after a completed login only).
THEOREM EnabledOnlyWithReason == SetupSpec => []EnabledForAReason
<1>1. SetupInv => EnabledForAReason
  BY DEF SetupInv, CopiesEntitled, EnabledForAReason, Reasons
<1>. QED
  BY <1>1, SetupInvariant, PTL

\* A step changes no login record but that of the command it is a step of.
LEMMA OthersRecords ==
  ASSUME SetupInv, [SetupNext]_setupVars, NEW l \in Logins,
         login'[l].pc = "ended", login[l].paused
  PROVE  Resume(l)
<1>1. login[l].pc # "ended" /\ login[l].pc # "loaded"
  BY DEF SetupInv, PausedUnderWay
<1>2. ASSUME NEW m \in Logins, NEW pc \in LoginPcs \ {"ended"}, Go(m, pc) PROVE FALSE
  BY <1>1, <1>2 DEF Go, SetupInv, SetupTypeOK, Login
<1>3. login' # login
  BY <1>1
<1>4. PICK m \in Logins :
        \/ LoginLoad(m) \/ Pause(m) \/ PauseFails(m)
        \/ LaunchManaged(m) \/ LaunchExternal(m) \/ LaunchFails(m) \/ Connect(m) \/ ConnectFails(m)
        \/ ExternalExits(m)
        \/ Look(m) \/ TimeOut(m)
        \/ HandoffStop(m) \/ HandoffStart(m) \/ HandoffProbe(m) \/ HandoffFails(m)
        \/ Close(m) \/ CleanUp(m) \/ CleanUpBreaksOff(m) \/ LoginTruncate(m) \/ LoginWrite(m)
        \/ Resume(m)
        \/ Interrupt(m)
  BY <1>3 DEF SetupNext, setupVars, EditLoad, EditTruncate, EditWrite, ServiceOpens, UserCloses,
     ServiceRestarts
<1>5. CASE LoginLoad(m) \/ Pause(m) \/ PauseFails(m)
  BY <1>1, <1>5 DEF LoginLoad, Pause, PauseFails, At, SetupInv, SetupTypeOK, Login
<1>6. CASE LaunchManaged(m) \/ LaunchExternal(m) \/ LaunchFails(m) \/ Connect(m) \/ ExternalExits(m)
  BY <1>2, <1>6 DEF LaunchManaged, LaunchExternal, LaunchFails, Connect, ExternalExits, LoginPcs
<1>7. CASE TimeOut(m)
  <2>1. login' = [login EXCEPT ![m].pc = "failing", ![m].streak = FALSE]
    BY <1>7 DEF TimeOut
  <2>. QED
    BY <1>1, <2>1 DEF SetupInv, SetupTypeOK, Login
<1>12. CASE Look(m)
  <2>1. PICK ready, done, hands \in BOOLEAN :
          login' = [login EXCEPT ![m].streak = ready /\ ~done,
                      ![m].pc = IF ~done THEN @ ELSE IF hands THEN "handoff" ELSE "closing"]
    BY <1>12, Zenon DEF Look
  <2>2. login \in [Logins -> Login]
    BY DEF SetupInv, SetupTypeOK
  <2>3. login'[m].pc \in {login[m].pc, "handoff", "closing"}
    BY <2>1, <2>2 DEF Login
  <2>4. ASSUME l # m PROVE login'[l] = login[l]
    BY <2>1, <2>2, <2>4
  <2>. QED
    BY <1>1, <2>3, <2>4
<1>8. CASE HandoffStop(m) \/ HandoffStart(m) \/ HandoffProbe(m) \/ HandoffFails(m)
  BY <1>2, <1>8 DEF HandoffStop, HandoffStart, HandoffProbe, HandoffFails, LoginPcs
<1>9. CASE Close(m) \/ CleanUp(m) \/ LoginTruncate(m) \/ LoginWrite(m)
  BY <1>2, <1>9 DEF Close, CleanUp, LoginTruncate, LoginWrite, LoginPcs
<1>13. CASE ConnectFails(m) \/ CleanUpBreaksOff(m)
  BY <1>1, <1>13 DEF ConnectFails, CleanUpBreaksOff, SetupInv, SetupTypeOK, Login
<1>10. CASE Interrupt(m)
  BY <1>1, <1>2, <1>10 DEF Interrupt, LoginPcs, SetupInv, SetupTypeOK, Login
<1>11. CASE Resume(m)
  BY <1>1, <1>11 DEF Resume, SetupInv, SetupTypeOK
<1>. QED
  BY <1>4, <1>5, <1>6, <1>7, <1>8, <1>9, <1>10, <1>11, <1>12, <1>13

\* Every way out of a login that paused the service starts it
\* (_resume_service_after_login in main's finally).
THEOREM PausedServiceComesBack == SetupSpec => PausedServiceIsStarted
<1>1. SetupInv /\ [SetupNext]_setupVars =>
        [\A l \in Logins :
           login[l].paused /\ login'[l].pc = "ended" => unit' # "inactive"]_setupVars
  BY OthersRecords DEF Resume
<1>. QED
  BY <1>1, SetupInvariant, PTL DEF SetupSpec, PausedServiceIsStarted

=============================================================================
