-------------------------------- MODULE Console --------------------------------
(***************************************************************************)
(* What the desktop application asks its own agent to do: remediation      *)
(* actions from the Automation tab and the two high-impact actions that    *)
(* need an approval (frontend/src/app/App.tsx SSAutomationSection,         *)
(* hooks/useHighImpactAction.ts, hooks/useEventHistory.ts), served by      *)
(* local-agent/server/telemetry-server.mjs, which runs the same actions    *)
(* for the Cloud Command Center and for the MQTT broker.                   *)
(*                                                                         *)
(* The state of the high-impact actions is the page's, shared by all its   *)
(* tabs; the state of the remediations is the tab's and goes when another  *)
(* tab is opened.  Nothing serialises the agent's handlers.  The races of  *)
(* two administrators, and of two loads of the credentials, are            *)
(* HighImpact's; here a decision and a load are one step each.             *)
(*                                                                         *)
(* What retention takes of the stored events is EventChain's and left out: *)
(* it keeps the newest 200 of a device, more than the tab asks for, and    *)
(* drops one that is 90 days old.                                          *)
(***************************************************************************)
EXTENDS Integers, FiniteSets, Sequences, SequencesExt

CONSTANTS
  Features,     \* plan features that gate an execution
  MaxRuns,      \* bound: executions
  MaxRequests,  \* bound: approval requests
  PageLimit,    \* events the tab asks for, of whatever kind (50)
  ShownLimit,   \* attempts it shows of them (8)
  MaxOthers,    \* bound: events that are no execution's; they come at once
  MaxCalls,     \* bound: executions, approval requests and those events together
  MaxMounts,    \* bound: times the Automation tab is opened
  MaxFaults     \* bound: failed calls, crashes of the agent, restarts of the page

ASSUME ConsoleAssumption ==
  /\ "Self-Healing" \in Features
  /\ MaxRuns \in Nat /\ MaxRequests \in Nat /\ MaxCalls \in Nat
  /\ MaxMounts \in Nat /\ MaxFaults \in Nat /\ MaxOthers \in Nat
  /\ PageLimit \in Nat \ {0} /\ ShownLimit \in 1..PageLimit

Runs == 1..MaxRuns
Requests == 1..MaxRequests
Devices == 1..(MaxRequests + 1)
HighImpactActions == {"clear-cached-credentials", "full-reset"}
Actions == {"flush-dns", "clean-temp", "restart-service", "clear-teams-cache",
            "repair-vpn", "collect-bsod-diagnostics", "custom-command"}
None == 0

VARIABLES
  plan,         \* the features the tenant's plan includes
  events,       \* the stored events, by created_at: whose they are, and of what kind
  registered,   \* device rows at the backend; names the last one
  stored,       \* the credentials file: a device, or None
  credentials,  \* deviceCredentials
  run,          \* per execution
  panel,        \* the Automation tab: which mount is on screen, or None
  mounts,       \* mounts so far
  allowed,      \* policyAllowed: asking, unknown, yes, no
  shown,        \* runStates of the action: idle, running, succeeded, failed
  feed,         \* executions under "Recent Automation Attempts"
  row,          \* per approval request: the page's call that makes it, and the row
  ui,           \* statesByAction
  check,        \* per request: the page's last check of it
  executed,     \* requests the agent executed (history)
  cleaned,      \* requests for which the page cleared its localStorage (history)
  resetting,    \* the page will reload
  faults

agentVars == <<registered, stored, credentials>>
panelVars == <<panel, mounts, allowed, shown, feed>>
approvalVars == <<row, ui, check, executed, cleaned, resetting>>
vars == <<plan, events, agentVars, run, panelVars, approvalVars, faults>>

NoRun == [pc |-> "none", feature |-> "Self-Healing", mount |-> None,
          granted |-> FALSE, outcome |-> "none", log |-> "none", under |-> None]
NoRow == [pc |-> "none", action |-> "full-reset", device |-> None, status |-> "none", live |-> FALSE]
NoCheck == [pc |-> "none", device |-> None]
Idle == [req |-> None, phase |-> "idle"]

Init ==
  /\ plan \in SUBSET Features /\ events = <<>>
  /\ registered = 1 /\ stored = 1 /\ credentials = 1
  /\ run = [k \in Runs |-> NoRun]
  /\ panel = None /\ mounts = 0
  /\ allowed = "asking" /\ shown = "idle" /\ feed = {}
  /\ row = [r \in Requests |-> NoRow]
  /\ ui = [a \in HighImpactActions |-> Idle]
  /\ check = [r \in Requests |-> NoCheck]
  /\ executed = {} /\ cleaned = {} /\ resetting = FALSE
  /\ faults = 0

Fault == faults < MaxFaults /\ faults' = faults + 1
Others == {i \in DOMAIN events : events[i].about = None}
Room == Cardinality({k \in Runs : run[k].pc # "none"})
        + Cardinality({r \in Requests : row[r].pc # "none"})
        + (IF Others = {} THEN 0 ELSE 1) < MaxCalls

\* An administrator changes the tenant's plan.  granted is history: the plan
\* included the feature at some moment since the execution was asked for.
ChangePlan(p) ==
  /\ plan' = p
  /\ run' = [k \in Runs |-> [run[k] EXCEPT
       !.granted = @ \/ (run[k].pc = "policy" /\ run[k].feature \in p)]]
  /\ UNCHANGED <<events, agentVars, panelVars, approvalVars, faults>>

\* loadOrRegisterDevice, from the poll loop.
Enrol ==
  /\ credentials = None
  /\ registered' = IF stored = None THEN registered + 1 ELSE registered
  /\ credentials' = IF stored = None THEN registered' ELSE stored
  /\ stored' = credentials'
  /\ UNCHANGED <<plan, events, run, panelVars, approvalVars, faults>>

-----------------------------------------------------------------------------
(* One execution: the policy is asked, the script runs, the outcome is logged. *)

\* runRemediationAction and runCustomCommandAction up to their first await: a device
\* that is not enrolled has nobody to ask, and no log to write "blocked" into.
Take(k, f, mount) ==
  /\ Room /\ run[k].pc = "none" /\ \A j \in Runs : j < k => run[j].pc # "none"
  /\ run' = [run EXCEPT ![k] =
       IF credentials # None
       THEN [NoRun EXCEPT !.pc = "policy", !.feature = f, !.mount = mount, !.granted = f \in plan]
       ELSE [NoRun EXCEPT !.pc = "done", !.feature = f, !.mount = mount,
                          !.outcome = "blocked", !.log = "dropped"]]

\* A command of the heartbeat's answer or of the broker.
RemoteCommand(k, f) ==
  /\ Take(k, f, None)
  /\ UNCHANGED <<plan, events, agentVars, panelVars, approvalVars, faults>>

\* "Run Now", disabled while this mount's run is out and until the gate says yes.
RunNow(k) ==
  /\ panel # None /\ allowed = "yes" /\ shown # "running"
  /\ Take(k, "Self-Healing", panel)
  /\ shown' = "running"
  /\ UNCHANGED <<plan, events, agentVars, panel, mounts, allowed, feed, approvalVars, faults>>

\* logEvent does nothing without credentials; otherwise it posts and nobody waits.
Logged(k, outcome) ==
  run' = [run EXCEPT ![k].pc = "done", ![k].outcome = outcome, ![k].granted = FALSE,
                     ![k].log = IF credentials = None THEN "dropped" ELSE "sent",
                     ![k].under = credentials]

\* Mutant of Concluded: only what a person at the machine started is logged.
ConcludedLocally(k, outcome) ==
  IF run[k].mount # None THEN Logged(k, outcome)
  ELSE run' = [run EXCEPT ![k].pc = "done", ![k].outcome = outcome, ![k].log = "dropped"]

Concluded(k, outcome) == Logged(k, outcome)

\* Mutant of Permitted: an unreachable backend does not stand in the way.
PermittedUnlessRefused(k, answered) == answered => run[k].feature \in plan

\* isSelfHealingAllowed and isRemoteCommandExecutionAllowed: asked each time, no on any error.
Permitted(k, answered) == answered /\ run[k].feature \in plan

PolicyAnswer(k) ==
  /\ run[k].pc = "policy"
  /\ \E answered \in BOOLEAN :
       /\ IF answered THEN UNCHANGED faults ELSE Fault
       /\ IF Permitted(k, answered) THEN run' = [run EXCEPT ![k].pc = "script"]
                                    ELSE Concluded(k, "blocked")
  /\ UNCHANGED <<plan, events, agentVars, panelVars, approvalVars>>

\* A script says that it is done, that there was nothing to do it to, or something
\* else.  The first two fixed scripts must say "done", clean-temp only something that
\* parses, and clear-teams-cache fails where Teams is not installed.
Cleaned(action, said) ==
  \/ action = "clean-temp" /\ said # "unreadable"
  \/ action \in {"flush-dns", "restart-service", "clear-teams-cache"} /\ said = "done"

\* repair-vpn counts RasMan alone; looking for a crash succeeds without finding one.
Repaired(action, said) ==
  \/ action = "repair-vpn" /\ said = "done"
  \/ action = "collect-bsod-diagnostics" /\ said # "unreadable"

\* A free command has only its exit code.
Ended(action, err, said) ==
  IF ~err /\ (action = "custom-command" \/ Cleaned(action, said) \/ Repaired(action, said))
  THEN "succeeded" ELSE "failed"
Endings(k) ==
  {Ended(action, err, said) :
     action \in {a \in Actions : (a = "custom-command") <=> (run[k].feature # "Self-Healing")},
     err \in BOOLEAN, said \in {"done", "absent", "unreadable"}}

\* The PowerShell script ends, fails or times out.
ScriptEnds(k) ==
  /\ run[k].pc = "script"
  /\ \E outcome \in Endings(k) : Concluded(k, outcome)
  /\ UNCHANGED <<plan, events, agentVars, panelVars, approvalVars, faults>>

\* The event goes behind the others, or before the last: they are ordered by the text
\* of a time of day, which two that come close together need not agree with.
EventPosted(k) ==
  /\ run[k].log = "sent"
  /\ \/ /\ run' = [run EXCEPT ![k].log = "stored"]
        /\ \E at \in {Len(events), Len(events) + 1} \ {0} :
             events' = InsertAt(events, at,
               [about |-> k, under |-> run[k].under,
                kind |-> IF run[k].feature = "Self-Healing" THEN "remediation" ELSE "other"])
        /\ UNCHANGED faults
     \/ Fault /\ run' = [run EXCEPT ![k].log = "lost"] /\ UNCHANGED events
  /\ UNCHANGED <<plan, agentVars, panelVars, approvalVars>>

\* What else the agent and the backend record of the device, alerts or outages;
\* "remediation-requested", when an administrator asks for an action, is listed too.
OtherEvents ==
  /\ Room /\ Others = {}
  /\ credentials # None
  /\ \E kind \in {"remediation", "other"}, n \in 1..MaxOthers :
       events' = events \o [i \in 1..n |-> [about |-> None, under |-> credentials, kind |-> kind]]
  /\ UNCHANGED <<plan, agentVars, run, panelVars, approvalVars, faults>>

\* Mutant of OfThisMount: the states are kept outside the component.
OfAnyMount(k) == run[k].mount # None /\ panel # None

\* setRunStates of a component that is gone does nothing.
OfThisMount(k) == run[k].mount # None /\ run[k].mount = panel

\* The answer, or the broken connection, reaches runAction.
RunAnswered(k) ==
  /\ run[k].pc \in {"done", "dead"}
  /\ run' = [run EXCEPT ![k].pc = "told"]
  /\ shown' = IF OfThisMount(k) THEN (IF run[k].outcome = "succeeded" THEN "succeeded" ELSE "failed")
              ELSE shown
  /\ UNCHANGED <<plan, events, agentVars, panel, mounts, allowed, feed, approvalVars, faults>>

-----------------------------------------------------------------------------
(* The Automation tab. *)

OpenTab ==
  /\ panel = None /\ mounts < MaxMounts
  /\ panel' = mounts + 1 /\ mounts' = mounts + 1
  /\ allowed' = "asking" /\ shown' = "idle" /\ feed' = {}
  /\ UNCHANGED <<plan, events, agentVars, run, approvalVars, faults>>

LeaveTab ==
  /\ panel # None
  /\ panel' = None /\ allowed' = "asking" /\ shown' = "idle" /\ feed' = {}
  /\ UNCHANGED <<plan, events, agentVars, run, mounts, approvalVars, faults>>

\* handleRemediationStatusProxy, asked once per mount: the agent says no when it
\* cannot ask, the page does not know when the agent does not answer.
GateAnswered ==
  /\ panel # None /\ allowed = "asking"
  /\ \/ /\ allowed' = IF credentials # None /\ "Self-Healing" \in plan THEN "yes" ELSE "no"
        /\ UNCHANGED faults
     \/ Fault /\ allowed' \in {"no", "unknown"}
  /\ UNCHANGED <<plan, events, agentVars, run, panel, mounts, shown, feed, approvalVars>>

\* handleEventsListProxy answers with the newest events of the present device, of
\* whatever kind; the tab keeps the remediations among them.
Newer(i) == {j \in DOMAIN events : j > i /\ events[j].under = events[i].under}
Remediations ==
  {i \in DOMAIN events : /\ events[i].under = credentials /\ Cardinality(Newer(i)) < PageLimit
                         /\ events[i].kind = "remediation"}

\* Mutant of Attempts: the list is cut from the wrong end.
OldestAttempts ==
  {events[i].about : i \in {j \in Remediations :
     Cardinality({h \in Remediations : h < j}) < ShownLimit}} \ {None}

\* remediationEvents: the first of them, newest first.
Attempts ==
  {events[i].about : i \in {j \in Remediations :
     Cardinality({h \in Remediations : h > j}) < ShownLimit}} \ {None}

\* useEventHistory polls; a failed poll keeps what is listed and the next follows.
PollEvents ==
  /\ panel # None /\ credentials # None
  /\ feed' = Attempts
  /\ UNCHANGED <<plan, events, agentVars, run, panel, mounts, allowed, shown, approvalVars, faults>>

-----------------------------------------------------------------------------
(* useHighImpactAction: requestApproval and checkStatus. *)

\* "Request Approval", on either tab, disabled while requesting or pending.
RequestApproval(r, a) ==
  /\ Room /\ row[r].pc = "none" /\ \A s \in Requests : s < r => row[s].pc # "none"
  /\ ~resetting
  /\ ui[a].phase \notin {"requesting", "pending"}
  /\ ui' = [ui EXCEPT ![a] = [req |-> None, phase |-> "requesting"]]
  /\ row' = [row EXCEPT ![r] = [pc |-> IF credentials = None THEN "refused" ELSE "asking",
                                action |-> a, device |-> credentials, status |-> "none", live |-> TRUE]]
  /\ UNCHANGED <<plan, events, agentVars, run, panelVars, check, executed, cleaned, resetting, faults>>

\* handleHighImpactRequestProxy and the row it makes; the call fails before or after.
RequestReaches(r) ==
  /\ row[r].pc = "asking"
  /\ \/ row' = [row EXCEPT ![r].pc = "made", ![r].status = "pending"] /\ UNCHANGED faults
     \/ Fault /\ \E s \in {"none", "pending"} :
          row' = [row EXCEPT ![r].pc = "refused", ![r].status = s]
  /\ UNCHANGED <<plan, events, agentVars, run, panelVars, ui, check, executed, cleaned, resetting>>

RequestAnswered(r) ==
  /\ row[r].pc \in {"made", "refused"}
  /\ row' = [row EXCEPT ![r].pc = "told"]
  /\ ui' = IF ~row[r].live THEN ui
           ELSE [ui EXCEPT ![row[r].action] =
                  IF row[r].pc = "made" THEN [req |-> r, phase |-> "pending"]
                                        ELSE [req |-> None, phase |-> "error"]]
  /\ UNCHANGED <<plan, events, agentVars, run, panelVars, check, executed, cleaned, resetting, faults>>

\* An administrator decides at the backend.
Decide(r) ==
  /\ row[r].status = "pending"
  /\ \E d \in {"approved", "rejected"} : row' = [row EXCEPT ![r].status = d]
  /\ UNCHANGED <<plan, events, agentVars, run, panelVars, ui, check, executed, cleaned, resetting, faults>>

\* "Check Status & Execute if Approved", which only the Automation tab has.
CheckStatus(a) ==
  LET r == ui[a].req IN
  /\ panel # None /\ ~resetting
  /\ r # None /\ ui[a].phase \notin {"executed", "checking"}
  /\ ui' = [ui EXCEPT ![a].phase = "checking"]
  /\ check' = [check EXCEPT ![r] = [pc |-> "asked", device |-> credentials]]
  /\ UNCHANGED <<plan, events, agentVars, run, panelVars, row, executed, cleaned, resetting, faults>>

\* The backend answers a device only about its own requests.
StatusFetched(r) ==
  /\ check[r].pc = "asked"
  /\ \/ /\ check' = [check EXCEPT ![r] = [NoCheck EXCEPT !.pc =
             IF check[r].device = None \/ row[r].device # check[r].device THEN "error"
             ELSE IF row[r].status = "approved" THEN "verify" ELSE row[r].status]]
        /\ UNCHANGED faults
     \/ Fault /\ check' = [check EXCEPT ![r] = [NoCheck EXCEPT !.pc = "error"]]
  /\ UNCHANGED <<plan, events, agentVars, run, panelVars, row, ui, executed, cleaned, resetting>>

\* verifyApprovalToken: the token has expired or the key cannot be had, or the action
\* is executed, which destroys whatever credentials there are.
Verified(r) ==
  /\ check[r].pc = "verify"
  /\ \/ /\ check' = [check EXCEPT ![r].pc = "unverified"]
        /\ UNCHANGED <<agentVars, executed>>
     \/ /\ check' = [check EXCEPT ![r].pc = "executed"]
        /\ stored' = None /\ credentials' = None /\ executed' = executed \cup {r}
        /\ UNCHANGED registered
  /\ UNCHANGED <<plan, events, run, panelVars, row, ui, cleaned, resetting, faults>>

\* Mutant of Phase: the answer is shown as it came.
PhaseAsAnswered(answer) == answer

Phase(answer) == IF answer = "unverified" THEN "verification-failed" ELSE answer

\* Mutant of Told: the answer is put beside whatever request is current.
ToldOfCurrent(r) == [ui EXCEPT ![row[r].action].phase = Phase(check[r].pc)]

\* The answer replaces the state with the request it was about, current or not.
Told(r) == [ui EXCEPT ![row[r].action] = [req |-> r, phase |-> Phase(check[r].pc)]]

\* Mutant of SawExecution: an answer about a request that is not current is not told.
SawCurrentExecution(r) == check[r].pc = "executed" /\ ui[row[r].action].req = r

\* Mutant of SawExecution: an approval is taken for the execution.
SawApproval(r) == check[r].pc \in {"executed", "unverified"}

\* What checkStatus returns.
SawExecution(r) == check[r].pc = "executed"

\* handleCheckFullReset clears the page's storage and reloads it a moment later.
CheckAnswered(r) ==
  /\ check[r].pc \in {"error", "pending", "rejected", "unverified", "executed"}
  /\ check' = [check EXCEPT ![r] = NoCheck]
  /\ IF row[r].live
     THEN /\ ui' = Told(r)
          /\ LET reset == SawExecution(r) /\ row[r].action = "full-reset" IN
             /\ cleaned' = IF reset THEN cleaned \cup {r} ELSE cleaned
             /\ resetting' = (resetting \/ reset)
     ELSE UNCHANGED <<ui, cleaned, resetting>>
  /\ UNCHANGED <<plan, events, agentVars, run, panelVars, row, executed, faults>>

-----------------------------------------------------------------------------
(* Reloads and crashes. *)

\* A page that starts again knows nothing of the calls it made.
PageStarts ==
  /\ ui' = [a \in HighImpactActions |-> Idle]
  /\ row' = [r \in Requests |-> [row[r] EXCEPT !.live = FALSE]]
  /\ panel' = None /\ allowed' = "asking" /\ shown' = "idle" /\ feed' = {}
  /\ resetting' = FALSE
  /\ UNCHANGED <<plan, events, agentVars, run, mounts, check, executed, cleaned>>

Reload == resetting /\ PageStarts /\ UNCHANGED faults
RestartPage == Fault /\ PageStarts

\* The agent dies and is started again; every call of the page is broken.
CrashAgent ==
  /\ Fault
  /\ credentials' = None
  /\ run' = [k \in Runs |-> [run[k] EXCEPT
       !.pc = IF @ \in {"policy", "script", "done"} THEN "dead" ELSE @,
       !.granted = FALSE,
       !.outcome = IF run[k].pc \in {"policy", "script", "done"} THEN "failed" ELSE @,
       !.log = IF @ = "sent" THEN "lost" ELSE @]]
  /\ row' = [r \in Requests |-> [row[r] EXCEPT
       !.pc = IF @ \in {"asking", "made"} THEN "refused" ELSE @]]
  /\ check' = [r \in Requests |-> [check[r] EXCEPT
       !.pc = IF @ = "none" THEN @ ELSE "error", !.device = None]]
  /\ UNCHANGED <<plan, events, registered, stored, panelVars, ui, executed, cleaned, resetting>>

Remediate ==
  \E k \in Runs : \/ \E f \in Features : RemoteCommand(k, f)
                  \/ RunNow(k)
RunSteps == \E k \in Runs : PolicyAnswer(k) \/ ScriptEnds(k) \/ EventPosted(k) \/ RunAnswered(k)
TabSteps == GateAnswered \/ PollEvents
ApprovalSteps(r) ==
  \/ RequestReaches(r) \/ RequestAnswered(r)
  \/ StatusFetched(r) \/ Verified(r) \/ CheckAnswered(r)
AskApproval == \E a \in HighImpactActions : CheckStatus(a) \/ \E r \in Requests : RequestApproval(r, a)

Next ==
  \/ \E p \in SUBSET Features : ChangePlan(p)
  \/ Enrol \/ OtherEvents \/ Remediate \/ RunSteps
  \/ OpenTab \/ LeaveTab \/ TabSteps
  \/ AskApproval
  \/ \E r \in Requests : Decide(r) \/ ApprovalSteps(r)
  \/ Reload \/ RestartPage \/ CrashAgent

Spec == Init /\ [][Next]_vars

\* Calls end, by their timeouts at the latest, and the timers fire.
FairSpec ==
  /\ Spec
  /\ WF_vars(RunSteps) /\ WF_vars(TabSteps)
  /\ \A r \in Requests : WF_vars(ApprovalSteps(r))

-----------------------------------------------------------------------------
TypeOK ==
  /\ plan \subseteq Features
  /\ registered \in Devices /\ stored \in 0..registered /\ credentials \in {None, stored}
  /\ run \in [Runs -> [pc : {"none", "policy", "script", "done", "dead", "told"},
                       feature : Features, mount : 0..MaxMounts,
                       granted : BOOLEAN, outcome : {"none", "blocked", "succeeded", "failed"},
                       log : {"none", "dropped", "sent", "stored", "lost"}, under : 0..registered]]
  /\ panel \in 0..mounts /\ mounts \in 0..MaxMounts
  /\ allowed \in {"asking", "unknown", "yes", "no"}
  /\ shown \in {"idle", "running", "succeeded", "failed"}
  /\ feed \subseteq Runs
  /\ events \in Seq([about : 0..MaxRuns, under : {None} \cup Devices, kind : {"remediation", "other"}])
  /\ row \in [Requests -> [pc : {"none", "asking", "made", "refused", "told"},
                           action : HighImpactActions, device : 0..registered,
                           status : {"none", "pending", "approved", "rejected"}, live : BOOLEAN]]
  /\ ui \in [HighImpactActions ->
             [req : 0..MaxRequests, phase : {"idle", "requesting", "pending", "checking", "executed",
                                             "verification-failed", "rejected", "error"}]]
  /\ check \in [Requests -> [pc : {"none", "asked", "verify", "error", "pending", "rejected",
                                   "unverified", "executed"}, device : 0..registered]]
  /\ executed \subseteq Requests /\ cleaned \subseteq Requests
  /\ resetting \in BOOLEAN /\ faults \in 0..MaxFaults

\* The policy is asked afresh for each execution and fails closed: no script ever
\* starts unless the plan included its feature at some moment since it was asked
\* for, whoever asked, whatever the tab's own gate said and whatever failed.
ScriptsWerePermitted == \A k \in Runs : run[k].pc = "script" => run[k].granted

\* "Running…" is on the button exactly while a run of this mount is out: an answer
\* to a run of an earlier mount does not enable the button of a later one, which
\* would run the action twice at once.
RunningIsRunning ==
  (shown = "running") <=> (panel # None /\ \E k \in Runs : run[k].mount = panel /\ run[k].pc # "told")

\* An action that ran on the device leaves its event, unless the call that would
\* have stored it failed, the agent died, or the device's identity was destroyed.
ExecutedIsLogged ==
  \A k \in Runs : (run[k].outcome \in {"succeeded", "failed"} /\ run[k].log = "dropped")
                  => executed # {} \/ faults > 0

\* However requests, checks and their late answers cross, the phase beside a request
\* is one that request reached: "executed" only for what the agent executed,
\* "rejected" only for what was rejected, and always under its own action.
PhaseIsOfItsRequest ==
  \A a \in HighImpactActions : LET r == ui[a].req IN
    r # None => /\ row[r].action = a
                /\ ui[a].phase = "executed" => r \in executed
                /\ ui[a].phase = "rejected" => row[r].status = "rejected"
                /\ ui[a].phase = "verification-failed" => row[r].status = "approved"

\* The page clears its storage only for a full reset the agent did execute.
StorageGoesWithReset == \A r \in cleaned : r \in executed /\ row[r].action = "full-reset"

\* After a full reset the agent executed the page clears its storage, even if its tab
\* was left or the approval requested again meanwhile; unless the agent dies before it
\* answers, when the page is told of an error, or the page is started again by hand,
\* for then nobody knows it was executed.
ResetFinishes ==
  \A r \in Requests :
    (check[r].pc = "executed" /\ row[r].action = "full-reset")
    ~> (r \in cleaned \/ ~row[r].live \/ check[r].pc = "error")

\* An attempt is below what the tab lists: the limits are used up by newer events of
\* the device, whatever they are about, or by newer remediations.
OffTheList(k) ==
  \E i \in DOMAIN events :
    /\ events[i].about = k
    /\ \/ Cardinality(Newer(i)) >= PageLimit
       \/ Cardinality({j \in Newer(i) : events[j].kind = "remediation"}) >= ShownLimit

\* A remediation whose event was stored comes up in the tab's list while it is open
\* and the device enrolled as it was, unless newer ones have filled the list first.
AttemptIsShown ==
  \A k \in Runs :
    (run[k].log = "stored" /\ run[k].feature = "Self-Healing" /\ panel # None)
    ~> (k \in feed \/ panel = None \/ credentials # run[k].under \/ OffTheList(k))

\* What the page says of a script or of an approval is what happened to that one, and
\* what happened was allowed.
ActionsAreHonest ==
  /\ ScriptsWerePermitted /\ RunningIsRunning /\ ExecutedIsLogged
  /\ PhaseIsOfItsRequest /\ StorageGoesWithReset

\* What was begun comes to its end on the page.
ActionsConclude == ResetFinishes /\ AttemptIsShown

\* What the tab says of an empty list, "No automation attempts recorded yet."
\* (App.tsx:6146), is not true, and no property of a run: an alert or an outage for
\* each event the tab asks for, and the attempts before them are not in its answer.
EmptyListMeansNoAttempt ==
  \A k \in Runs :
    (run[k].log = "stored" /\ run[k].feature = "Self-Healing" /\ panel # None)
    ~> (feed # {} \/ panel = None \/ credentials # run[k].under)
================================================================================
