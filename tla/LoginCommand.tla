---------------------------- MODULE LoginCommand ----------------------------
(***************************************************************************)
(* The command line beside the running service (src/wmadapter/__main__.py, *)
(* manual_auth.py, config.py and the profile lock of browser/manager.py):  *)
(* `wmadapter login` stops the service, opens the provider's profile in a  *)
(* visible Chrome - managed, under the gateway's own lock file, or started *)
(* as an external process, under Chrome's singleton files only - waits for *)
(* the user, gives the profile back, enables the provider in the           *)
(* configuration file and starts the service again.  `provider` and        *)
(* `proxy` commands edit the same file, and everything runs concurrently.  *)
(* Chrome itself is external: a second instance on one profile exits.      *)
(***************************************************************************)
EXTENDS FiniteSets

CONSTANTS
  Logins,     \* runs of `wmadapter login`
  Edits,      \* runs of `wmadapter provider enable|disable|default` and `proxy`
  Providers,  \* the built-in providers, one browser profile each
  DefaultProvider, \* the one every default names
  HandedOff,  \* the providers whose login ends in handoff_to_headless (not Qwen)
  Service,    \* the service process, as an owner of profiles
  Nobody,
  Empty       \* the content of an empty file

VARIABLES
  file,      \* config.yaml: Empty between the truncation and the write of a save
  unit,      \* wmadapter.service: active, inactive, or failed to start
  lock,      \* the owner of each profile's .wmadapter-profile.lock
  chrome,    \* the process whose Chrome runs on each profile
  login,     \* the login commands
  edit,      \* the other commands
  entitled   \* the providers that were enabled at first, or that the user's
             \* word or a completed login check has enabled since

setupVars == <<file, unit, lock, chrome, login, edit, entitled>>

Owners == Logins \cup {Service, Nobody}

\* The settings under "providers"; the proxies and all the rest are only
\* carried along.
Config == [enabled : SUBSET Providers, disabled : SUBSET Providers, default : Providers]

ASSUME LoginCommandAssumption ==
  /\ DefaultProvider \in Providers
  /\ HandedOff \subseteq Providers
  /\ Service \notin Logins
  /\ Nobody \notin Logins \cup {Service}
  /\ Empty \notin Config

LoginPcs == {"idle", "loaded", "preparing", "launching", "signing", "handoff", "reopening",
             "probing", "closing", "failing", "saving", "writing", "resuming", "ended"}

Login == [pc : LoginPcs, provider : Providers, external : BOOLEAN, paused : BOOLEAN,
          streak : BOOLEAN, config : Config, barred : BOOLEAN, orphan : BOOLEAN]

EditKinds == {"enable", "disable", "default", "proxy"}

Edit == [pc : {"idle", "loaded", "writing", "ended"}, config : Config,
         grants : SUBSET Providers]

SetupTypeOK ==
  /\ file \in Config \cup {Empty}
  /\ unit \in {"active", "inactive", "failed"}
  /\ lock \in [Providers -> Owners] /\ chrome \in [Providers -> Owners]
  /\ login \in [Logins -> Login]
  /\ edit \in [Edits -> Edit]
  /\ entitled \subseteq Providers

-----------------------------------------------------------------------------
(* The configuration file *)

\* AppConfig's defaults; what an absent or an empty file loads as.
Defaults == [enabled |-> {DefaultProvider}, disabled |-> {}, default |-> DefaultProvider]

\* load_config: the validated model has no field for providers.disabled, and
\* what it has no field for is not in as_legacy_dict.
LoadConfig == IF file = Empty THEN Defaults ELSE [file EXCEPT !.disabled = {}]

\* update_provider_config; update_provider_proxy changes no modelled setting.
Updated(c, kind, p) ==
  CASE kind = "disable" -> [c EXCEPT !.enabled = @ \ {p}, !.disabled = @ \cup {p}]
    [] kind = "enable"  -> [c EXCEPT !.enabled = @ \cup {p}, !.disabled = @ \ {p}]
    [] kind = "default" -> [c EXCEPT !.enabled = @ \cup {p}, !.disabled = @ \ {p},
                                     !.default = p]
    [] kind = "proxy"   -> c

NoEdit == [pc |-> "idle", config |-> Defaults, grants |-> {}]

\* The ValueError of update_provider_config: nothing is saved.
Refused(c, kind, p) == kind = "disable" /\ c.default = p

\* mark_provider_authenticated.
Authenticated(c, p) ==
  IF p \in c.disabled THEN c ELSE [c EXCEPT !.enabled = @ \cup {p}]

EditLoad(e) ==
  /\ edit[e].pc = "idle"
  /\ \E k \in EditKinds, p \in Providers :
       edit' = [edit EXCEPT ![e] =
                  IF Refused(LoadConfig, k, p) THEN [NoEdit EXCEPT !.pc = "ended"]
                  ELSE [pc |-> "loaded", config |-> Updated(LoadConfig, k, p),
                        grants |-> IF k \in {"enable", "default"} THEN {p} ELSE {}]]
  /\ UNCHANGED <<file, unit, lock, chrome, login, entitled>>

\* save_config: write_text opens the file, which empties it, ...
EditTruncate(e) ==
  /\ edit[e].pc = "loaded"
  /\ file' = Empty
  /\ edit' = [edit EXCEPT ![e].pc = "writing"]
  /\ UNCHANGED <<unit, lock, chrome, login, entitled>>

\* Mutant: only the section with the providers is saved.
EditWriteSection(e) ==
  /\ edit[e].pc = "writing"
  /\ file' = [enabled |-> edit[e].config.enabled, disabled |-> edit[e].config.disabled]
  /\ edit' = [edit EXCEPT ![e] = [NoEdit EXCEPT !.pc = "ended"]]
  /\ UNCHANGED <<unit, lock, chrome, login, entitled>>

\* ... and then writes it.
EditWrite(e) ==
  /\ edit[e].pc = "writing"
  /\ file' = edit[e].config
  /\ edit' = [edit EXCEPT ![e] = [NoEdit EXCEPT !.pc = "ended"]]
  /\ entitled' = entitled \cup edit[e].grants
  /\ UNCHANGED <<unit, lock, chrome, login>>

-----------------------------------------------------------------------------
(* wmadapter login: until the browser is open *)

NotRun == [pc |-> "idle", provider |-> DefaultProvider, external |-> FALSE, paused |-> FALSE,
           streak |-> FALSE, config |-> Defaults, barred |-> FALSE, orphan |-> FALSE]

At(l, pc)   == login[l].pc = pc
Go(l, pc)   == login' = [login EXCEPT ![l].pc = pc]
Profile(l)  == login[l].provider
Holds(o, p) == lock[p] = o \/ chrome[p] = o

\* The owner's Chrome is gone and its lock released.
Freed(owned, o) == [p \in Providers |-> IF owned[p] = o THEN Nobody ELSE owned[p]]

GivesBack(o) == lock' = Freed(lock, o) /\ chrome' = Freed(chrome, o)

\* The configuration is read before anything else, and saved from this copy.
LoginLoad(l) ==
  /\ At(l, "idle")
  /\ \E p \in Providers, x \in BOOLEAN :
       login' = [login EXCEPT ![l] = [@ EXCEPT !.pc = "loaded", !.provider = p, !.external = x,
                   !.config = LoadConfig, !.barred = file # Empty /\ p \in file.disabled]]
  /\ UNCHANGED <<file, unit, lock, chrome, edit, entitled>>

\* _pause_service_for_login: systemctl stop returns when the service is gone,
\* its browsers with it.  A service that is not active is not paused.
Pause(l) ==
  /\ At(l, "loaded")
  /\ login' = [login EXCEPT ![l].pc = "preparing", ![l].paused = (unit = "active")]
  /\ IF unit = "active" THEN unit' = "inactive" /\ GivesBack(Service)
     ELSE UNCHANGED <<unit, lock, chrome>>
  /\ UNCHANGED <<file, edit, entitled>>

\* The service cannot be stopped, or the user interrupts: also when systemctl
\* has stopped it already, which nothing undoes, as main's try comes later.
PauseFails(l) ==
  /\ At(l, "loaded")
  /\ login' = [login EXCEPT ![l] = [NotRun EXCEPT !.pc = "ended"]]
  /\ \/ unit = "active" /\ unit' = "inactive" /\ GivesBack(Service)
     \/ UNCHANGED <<unit, lock, chrome>>
  /\ UNCHANGED <<file, edit, entitled>>

\* BrowserManager.start: the lock, without waiting for it, and then Chrome.
LaunchManaged(l) ==
  /\ At(l, "preparing") /\ ~login[l].external
  /\ lock[Profile(l)] = Nobody /\ chrome[Profile(l)] = Nobody
  /\ lock' = [lock EXCEPT ![Profile(l)] = l]
  /\ chrome' = [chrome EXCEPT ![Profile(l)] = l]
  /\ Go(l, "signing")
  /\ UNCHANGED <<file, unit, edit, entitled>>

\* Popen: Chrome in a session of its own, without the lock.
LaunchExternal(l) ==
  /\ At(l, "preparing") /\ login[l].external
  /\ chrome[Profile(l)] = Nobody
  /\ chrome' = [chrome EXCEPT ![Profile(l)] = l]
  /\ Go(l, "launching")
  /\ UNCHANGED <<file, unit, lock, edit, entitled>>

\* A setting is refused, the lock is taken, or Chrome does not start or exits
\* at once; what was acquired is released by start itself.
LaunchFails(l) ==
  /\ At(l, "preparing")
  /\ Go(l, "resuming")
  /\ UNCHANGED <<file, unit, lock, chrome, edit, entitled>>

\* 0.75 seconds later Chrome still runs and Playwright has started.
Connect(l) ==
  /\ At(l, "launching") /\ chrome[Profile(l)] = l
  /\ Go(l, "signing")
  /\ UNCHANGED <<file, unit, lock, chrome, edit, entitled>>

\* Playwright does not start, and the try that closes Chrome has not begun.
ConnectFails(l) ==
  /\ At(l, "launching") /\ chrome[Profile(l)] = l
  /\ login' = [login EXCEPT ![l].pc = "resuming", ![l].orphan = TRUE]
  /\ UNCHANGED <<file, unit, lock, chrome, edit, entitled>>

\* Chrome has exited instead.
ExternalExits(l) ==
  /\ At(l, "launching") /\ chrome[Profile(l)] # l
  /\ Go(l, "resuming")
  /\ UNCHANGED <<file, unit, lock, chrome, edit, entitled>>

-----------------------------------------------------------------------------
(* While the browser is open *)

\* One probe of the session, which the user may have opened and the site may
\* have ended: two in a row must find it ready in the managed browser, one in
\* the external.  A probe that raises changes nothing.
Look(l) ==
  /\ At(l, "signing")
  /\ \E ready \in BOOLEAN :
       LET done  == ready /\ (login[l].external \/ login[l].streak)
           hands == ~login[l].external /\ Profile(l) \in HandedOff
       IN /\ ready => chrome[Profile(l)] = l
          /\ login' = [login EXCEPT ![l].streak = ready /\ ~done,
                         ![l].pc = IF ~done THEN @ ELSE IF hands THEN "handoff" ELSE "closing"]
          /\ entitled' = IF done /\ ~hands THEN entitled \cup {Profile(l)} ELSE entitled
  /\ UNCHANGED <<file, unit, lock, chrome, edit>>

\* _wait_for_auth gives up at its deadline, or when the page or the browser is
\* gone; the external wait only at the deadline.
TimeOut(l) ==
  /\ At(l, "signing")
  /\ login' = [login EXCEPT ![l].pc = "failing", ![l].streak = FALSE]
  /\ UNCHANGED <<file, unit, lock, chrome, edit, entitled>>

\* handoff_to_headless: the headed browser is stopped, ...
HandoffStop(l) ==
  /\ At(l, "handoff")
  /\ GivesBack(l)
  /\ Go(l, "reopening")
  /\ UNCHANGED <<file, unit, edit, entitled>>

\* ... a headless one started ...
HandoffStart(l) ==
  /\ At(l, "reopening")
  /\ lock[Profile(l)] = Nobody /\ chrome[Profile(l)] = Nobody
  /\ lock' = [lock EXCEPT ![Profile(l)] = l]
  /\ chrome' = [chrome EXCEPT ![Profile(l)] = l]
  /\ Go(l, "probing")
  /\ UNCHANGED <<file, unit, edit, entitled>>

\* ... and _stable_auth_probe looks again.
HandoffProbe(l) ==
  /\ At(l, "probing") /\ chrome[Profile(l)] = l
  /\ entitled' = entitled \cup {Profile(l)}
  /\ Go(l, "closing")
  /\ UNCHANGED <<file, unit, lock, chrome, edit>>

\* A step of the handoff fails: the headed browser is started again if the
\* profile can be had, and the login fails.
HandoffFails(l) ==
  /\ login[l].pc \in {"handoff", "reopening", "probing"}
  /\ LET p == Profile(l) IN
       \/ /\ {lock[p], chrome[p]} \subseteq {Nobody, l}
          /\ lock' = [lock EXCEPT ![p] = l]
          /\ chrome' = [chrome EXCEPT ![p] = l]
       \/ GivesBack(l)
  /\ Go(l, "failing")
  /\ UNCHANGED <<file, unit, edit, entitled>>

-----------------------------------------------------------------------------
(* Giving the profile back *)

\* After success: browser.stop, or _close_external_browser, which raises when
\* a Chrome it had to kill left its singleton files in the profile.
Close(l) ==
  /\ At(l, "closing")
  /\ GivesBack(l)
  /\ \/ Go(l, "saving")
     \/ Go(l, "failing")
  /\ UNCHANGED <<file, unit, edit, entitled>>

\* Mutant: the external login only disconnects from its Chrome.
DisconnectOnly(l) ==
  /\ At(l, "failing")
  /\ lock' = Freed(lock, l)
  /\ chrome' = IF login[l].external THEN chrome ELSE Freed(chrome, l)
  /\ Go(l, "resuming")
  /\ UNCHANGED <<file, unit, edit, entitled>>

\* Mutant: an error leaves the command at once; main has no finally.
CleanUpAndExit(l) ==
  /\ At(l, "failing")
  /\ GivesBack(l)
  /\ Go(l, "ended")
  /\ UNCHANGED <<file, unit, edit, entitled>>

\* Mutant: the provider is enabled however the login ended.
CleanUpAndSave(l) ==
  /\ At(l, "failing")
  /\ GivesBack(l)
  /\ Go(l, "saving")
  /\ UNCHANGED <<file, unit, edit, entitled>>

\* The finally clauses of run_manual_auth: stop the managed browser, terminate
\* or kill the external one.
CleanUp(l) ==
  /\ At(l, "failing")
  /\ GivesBack(l)
  /\ Go(l, "resuming")
  /\ UNCHANGED <<file, unit, edit, entitled>>

\* An interruption, or a Playwright that fails to stop, ends the finally clause of the
\* external login early: before Chrome is told to terminate, or while it does and
\* perhaps does not.  The managed browser shields its cleanup.
CleanUpBreaksOff(l) ==
  /\ At(l, "failing") /\ login[l].external
  /\ chrome' \in {chrome, Freed(chrome, l)}
  /\ login' = [login EXCEPT ![l].pc = "resuming", ![l].orphan = TRUE]
  /\ UNCHANGED <<file, unit, lock, edit, entitled>>

\* save_config of the copy loaded at the start, the provider enabled in it.
LoginTruncate(l) ==
  /\ At(l, "saving")
  /\ file' = Empty
  /\ Go(l, "writing")
  /\ UNCHANGED <<unit, lock, chrome, edit, entitled>>

LoginWrite(l) ==
  /\ At(l, "writing")
  /\ file' = Authenticated(login[l].config, Profile(l))
  /\ Go(l, "resuming")
  /\ UNCHANGED <<unit, lock, chrome, edit, entitled>>

\* _resume_service_after_login: systemctl start, which may fail.
Resume(l) ==
  /\ At(l, "resuming")
  /\ IF login[l].paused THEN unit' \in {"active", "failed"} ELSE UNCHANGED unit
  /\ login' = [login EXCEPT ![l] = [NotRun EXCEPT !.pc = "ended", !.orphan = login[l].orphan]]
  /\ UNCHANGED <<file, lock, chrome, edit, entitled>>

\* The user interrupts the command; main's finally runs all the same.  Between Popen
\* and the try that follows nobody closes the external Chrome.  Interruptions of the
\* handoff are HandoffFails, of a cleanup CleanUpBreaksOff; one of systemctl start
\* itself is left out.
Interrupt(l) ==
  /\ \/ /\ At(l, "launching")
        /\ login' = [login EXCEPT ![l].pc = "resuming", ![l].orphan = TRUE]
     \/ login[l].pc \in {"signing", "closing"} /\ Go(l, "failing")
     \/ login[l].pc \in {"preparing", "saving", "writing"} /\ Go(l, "resuming")
  /\ UNCHANGED <<file, unit, lock, chrome, edit, entitled>>

-----------------------------------------------------------------------------
(* The service and the user *)

\* A provider of the running service starts its browser.
ServiceOpens(p) ==
  /\ unit = "active"
  /\ lock[p] = Nobody /\ chrome[p] = Nobody
  /\ lock' = [lock EXCEPT ![p] = Service]
  /\ chrome' = [chrome EXCEPT ![p] = Service]
  /\ UNCHANGED <<file, unit, login, edit, entitled>>

\* _fix_service (`service restart`, `doctor --fix`) restarts the service, also
\* one that a login has paused; systemd restarts one that has crashed.
ServiceRestarts ==
  /\ unit' = "active"
  /\ GivesBack(Service)
  /\ UNCHANGED <<file, login, edit, entitled>>

\* The user closes the visible window, or a Chrome that was told to terminate does.
UserCloses(p) ==
  /\ chrome[p] \in Logins
  /\ chrome' = [chrome EXCEPT ![p] = Nobody]
  /\ UNCHANGED <<file, unit, lock, login, edit, entitled>>

-----------------------------------------------------------------------------

SetupInit ==
  /\ file \in {Empty} \cup {c \in Config : c.default = DefaultProvider /\ c.disabled = {}
                                            /\ DefaultProvider \in c.enabled}
  /\ unit \in {"active", "inactive"}
  /\ lock = [p \in Providers |-> Nobody]
  /\ chrome = [p \in Providers |-> Nobody]
  /\ login = [l \in Logins |-> NotRun]
  /\ edit = [e \in Edits |-> NoEdit]
  /\ entitled = IF file = Empty THEN {} ELSE file.enabled

SetupNext ==
  \/ \E l \in Logins :
       \/ LoginLoad(l) \/ Pause(l) \/ PauseFails(l)
       \/ LaunchManaged(l) \/ LaunchExternal(l) \/ LaunchFails(l)
       \/ Connect(l) \/ ConnectFails(l) \/ ExternalExits(l)
       \/ Look(l) \/ TimeOut(l)
       \/ HandoffStop(l) \/ HandoffStart(l) \/ HandoffProbe(l) \/ HandoffFails(l)
       \/ Close(l) \/ CleanUp(l) \/ CleanUpBreaksOff(l)
       \/ LoginTruncate(l) \/ LoginWrite(l) \/ Resume(l) \/ Interrupt(l)
  \/ \E e \in Edits : EditLoad(e) \/ EditTruncate(e) \/ EditWrite(e)
  \/ \E p \in Providers : ServiceOpens(p) \/ UserCloses(p)
  \/ ServiceRestarts

SetupSpec == SetupInit /\ [][SetupNext]_setupVars

-----------------------------------------------------------------------------
(* Properties *)

\* A login command has given its profile back - its lock is released and its Chrome
\* gone - before it saves the configuration and starts the service, which needs the
\* profile.  Excepted is the Chrome of an external login that nobody closes: the
\* command was interrupted, or Playwright did not start, before the try that closes
\* it, or its finally clause was broken off.  Such a login enables nothing.
LoginGivesProfileBack ==
  \A l \in Logins :
    login[l].pc \in {"saving", "writing", "resuming", "ended"} =>
      /\ \A p \in Providers : lock[p] # l
      /\ \A p \in Providers : chrome[p] = l =>
           login[l].orphan /\ login[l].pc \notin {"saving", "writing"}

\* A provider is enabled because the configuration began so, because the user
\* said so, or because a login found it signed in: no failed, timed-out or
\* interrupted login enables one, whatever else edits the file meanwhile.  The
\* default provider may come back by way of a file read half saved.
EnabledForAReason ==
  file # Empty => file.enabled \subseteq {DefaultProvider} \cup entitled

\* A login command that has paused the service does not end, successfully or
\* not, interrupted or refused, without having started it again, be it that
\* systemd refuses.
PausedServiceIsStarted ==
  [][\A l \in Logins :
       login[l].paused /\ login'[l].pc = "ended" => unit' # "inactive"]_setupVars

\* A provider the user has disabled is not enabled by a later login
\* (mark_provider_authenticated: "Enable a provider after login unless the user
\* explicitly disabled it").
DisabledStaysDisabled ==
  [][\A l \in Logins :
       LoginWrite(l) /\ login[l].barred => Profile(l) \notin file'.enabled]_setupVars

=============================================================================
