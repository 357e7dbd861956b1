----------------------------- MODULE ConsoleProofs -----------------------------
(***************************************************************************)
(* What the page says of scripts and approvals is what happened, for any   *)
(* number of executions, requests, mounts and failures; and, in the last   *)
(* part, what its cards conclude from a snapshot, Dashboard, fits together *)
(* for all snapshots the agent may return and all thresholds.              *)
(*                                                                         *)
(* The inductive invariant says of the agent that it registers a device    *)
(* anew only after an executed request destroyed the credentials; of a     *)
(* check on its way that it is about a request whose row no longer moves;  *)
(* and of the tab that one mount has one run out.  A request the page was  *)
(* told of is settled (ToldRowsStay), which is why a late answer still     *)
(* says the truth.                                                         *)
(***************************************************************************)
EXTENDS Console, Dashboard, SequenceTheorems, FiniteSetTheorems, WellFoundedInduction, TLAPS

(* The device.  A device is registered anew only when an executed request   *)
(* destroyed the credentials, and no request is executed twice.            *)
Gone == IF stored = None THEN 1 ELSE 0
DeviceHolds ==
  /\ stored \in {None, registered}
  /\ registered + Gone <= Cardinality(executed) + 1
  /\ credentials = None => executed # {} \/ faults > 0
  /\ \A r \in executed : row[r].pc = "told" /\ row[r].status = "approved" /\ row[r].device < registered + Gone

\* A check is of a request the page knows, and says what became of that request.
CheckHolds(r) ==
  /\ check[r].pc # "none" => row[r].pc = "told"
  /\ check[r].pc = "asked" /\ r \in executed => check[r].device \in {None} \cup {d \in Nat : d # row[r].device}
  /\ check[r].pc = "verify" => r \notin executed /\ row[r].status = "approved"
  /\ check[r].pc = "rejected" => row[r].status = "rejected"
  /\ check[r].pc = "unverified" => row[r].status = "approved"
  /\ check[r].pc = "executed" => r \in executed
ChecksHold == \A r \in Requests : CheckHolds(r)

RequestsKnown == \A a \in HighImpactActions : ui[a].req # None => row[ui[a].req].pc = "told"

(* The executions. *)
RunHolds(k) ==
  /\ run[k].pc = "none" => run[k].mount = None
  /\ run[k].mount <= mounts
  /\ run[k].pc = "policy" /\ run[k].feature \in plan => run[k].granted
RunsHold == \A k \in Runs : RunHolds(k)

\* One mount of the tab has one run out.
OutOf(k) == run[k].mount = panel /\ run[k].pc # "told"
OneRunOut == panel # None => \A j, k \in Runs : OutOf(j) /\ OutOf(k) => j = k

Holds ==
  /\ TypeOK /\ DeviceHolds /\ ChecksHold /\ RequestsKnown /\ RunsHold /\ OneRunOut /\ ActionsAreHonest

-----------------------------------------------------------------------------
(* The types, variable by variable. *)

RunRecords(n) ==
  [pc : {"none", "policy", "script", "done", "dead", "told"},
   feature : Features, mount : 0..MaxMounts,
   granted : BOOLEAN, outcome : {"none", "blocked", "succeeded", "failed"},
   log : {"none", "dropped", "sent", "stored", "lost"}, under : 0..n]
RowRecords(n) ==
  [pc : {"none", "asking", "made", "refused", "told"},
   action : HighImpactActions, device : 0..n,
   status : {"none", "pending", "approved", "rejected"}, live : BOOLEAN]
UiRecords ==
  [req : 0..MaxRequests,
   phase : {"idle", "requesting", "pending", "checking", "executed",
            "verification-failed", "rejected", "error"}]
CheckRecords(n) ==
  [pc : {"none", "asked", "verify", "error", "pending", "rejected",
         "unverified", "executed"}, device : 0..n]

AgentTypes ==
  /\ plan \subseteq Features
  /\ registered \in Devices /\ stored \in 0..registered /\ credentials \in {None, stored}
  /\ executed \subseteq Requests /\ faults \in 0..MaxFaults
PanelTypes ==
  /\ panel \in 0..mounts /\ mounts \in 0..MaxMounts
  /\ allowed \in {"asking", "unknown", "yes", "no"}
  /\ shown \in {"idle", "running", "succeeded", "failed"}
  /\ feed \subseteq Runs
EventRecords == [about : 0..MaxRuns, under : {None} \cup Devices, kind : {"remediation", "other"}]
EventTypes == events \in Seq(EventRecords)
PageTypes == cleaned \subseteq Requests /\ resetting \in BOOLEAN
RunTypes == run \in [Runs -> RunRecords(registered)]
RowTypes == row \in [Requests -> RowRecords(registered)]
UiTypes == ui \in [HighImpactActions -> UiRecords]
CheckTypes == check \in [Requests -> CheckRecords(registered)]

LEMMA TypesInParts ==
  TypeOK <=> /\ AgentTypes /\ PanelTypes /\ EventTypes /\ PageTypes
             /\ RunTypes /\ RowTypes /\ UiTypes /\ CheckTypes
BY DEF TypeOK, AgentTypes, PanelTypes, EventTypes, EventRecords, PageTypes, RunTypes, RowTypes, UiTypes, CheckTypes,
       RunRecords, RowRecords, UiRecords, CheckRecords

LEMMA TypesInPartsPrimed ==
  ASSUME AgentTypes', PanelTypes', EventTypes', PageTypes', RunTypes', RowTypes', UiTypes', CheckTypes'
  PROVE  TypeOK'
BY DEF TypeOK, AgentTypes, PanelTypes, EventTypes, EventRecords, PageTypes, RunTypes, RowTypes, UiTypes, CheckTypes,
       RunRecords, RowRecords, UiRecords, CheckRecords

-----------------------------------------------------------------------------
(* Who changes what. *)

\* The agent's own state is touched by an enrolment, an execution and a crash.
LEMMA AgentChanges ==
  ASSUME Next
  PROVE  \/ UNCHANGED <<registered, stored, credentials, executed>>
         \/ Enrol \/ (\E r \in Requests : Verified(r)) \/ CrashAgent
<1>1. ASSUME NEW p, ChangePlan(p) PROVE UNCHANGED <<registered, stored, credentials, executed>>
  BY <1>1 DEF ChangePlan, agentVars, approvalVars
<1>2. ASSUME Remediate \/ RunSteps PROVE UNCHANGED <<registered, stored, credentials, executed>>
  BY <1>2 DEF Remediate, RemoteCommand, RunNow, RunSteps, PolicyAnswer, ScriptEnds, EventPosted,
     RunAnswered, agentVars, approvalVars
<1>3. ASSUME OpenTab \/ LeaveTab \/ TabSteps PROVE UNCHANGED <<registered, stored, credentials, executed>>
  BY <1>3 DEF OpenTab, LeaveTab, TabSteps, GateAnswered, PollEvents, agentVars, approvalVars
<1>4. ASSUME AskApproval \/ OtherEvents PROVE UNCHANGED <<registered, stored, credentials, executed>>
  BY <1>4 DEF AskApproval, CheckStatus, RequestApproval, OtherEvents, agentVars, approvalVars
<1>5. ASSUME NEW r \in Requests, Decide(r) \/ ApprovalSteps(r)
      PROVE  Verified(r) \/ UNCHANGED <<registered, stored, credentials, executed>>
  BY <1>5 DEF Decide, ApprovalSteps, RequestReaches, RequestAnswered, StatusFetched, CheckAnswered, agentVars
<1>6. ASSUME Reload \/ RestartPage PROVE UNCHANGED <<registered, stored, credentials, executed>>
  BY <1>6 DEF Reload, RestartPage, PageStarts, agentVars
<1> QED BY <1>1, <1>2, <1>3, <1>4, <1>5, <1>6 DEF Next

\* Runs and the tab are touched by the executions, the tab, a reload and a crash.
LEMMA RunChanges ==
  ASSUME Next
  PROVE  \/ UNCHANGED <<plan, run, panel, mounts, shown>>
         \/ (\E p \in SUBSET Features : ChangePlan(p)) \/ Remediate \/ RunSteps
         \/ OpenTab \/ LeaveTab \/ Reload \/ RestartPage \/ CrashAgent
<1>1. ASSUME Enrol \/ OtherEvents \/ TabSteps PROVE UNCHANGED <<plan, run, panel, mounts, shown>>
  BY <1>1 DEF Enrol, OtherEvents, TabSteps, GateAnswered, PollEvents, panelVars
<1>2. ASSUME AskApproval PROVE UNCHANGED <<plan, run, panel, mounts, shown>>
  BY <1>2 DEF AskApproval, CheckStatus, RequestApproval, panelVars
<1>3. ASSUME NEW r \in Requests, Decide(r) \/ ApprovalSteps(r)
      PROVE  UNCHANGED <<plan, run, panel, mounts, shown>>
  BY <1>3 DEF Decide, ApprovalSteps, RequestReaches, RequestAnswered, StatusFetched, Verified,
     CheckAnswered, panelVars
<1> QED BY <1>1, <1>2, <1>3 DEF Next

\* What the page and the backend know of requests is touched by their calls.
LEMMA ApprovalChanges ==
  ASSUME Next
  PROVE  \/ UNCHANGED <<row, ui, check, executed, cleaned, resetting>>
         \/ AskApproval
         \/ \E r \in Requests : Decide(r) \/ ApprovalSteps(r)
         \/ Reload \/ RestartPage \/ CrashAgent
<1>1. ASSUME NEW p, ChangePlan(p) PROVE UNCHANGED <<row, ui, check, executed, cleaned, resetting>>
  BY <1>1 DEF ChangePlan, approvalVars
<1>2. ASSUME Enrol \/ OtherEvents \/ Remediate \/ RunSteps PROVE UNCHANGED <<row, ui, check, executed, cleaned, resetting>>
  BY <1>2 DEF Enrol, OtherEvents, Remediate, RemoteCommand, RunNow, RunSteps, PolicyAnswer, ScriptEnds, EventPosted,
     RunAnswered, approvalVars
<1>3. ASSUME OpenTab \/ LeaveTab \/ TabSteps PROVE UNCHANGED <<row, ui, check, executed, cleaned, resetting>>
  BY <1>3 DEF OpenTab, LeaveTab, TabSteps, GateAnswered, PollEvents, approvalVars
<1> QED BY <1>1, <1>2, <1>3 DEF Next

LEMMA FaultsGrow ==
  ASSUME AgentTypes, Next
  PROVE  faults' \in {faults, faults + 1} /\ faults' \in 0..MaxFaults
<1> USE ConsoleAssumption DEF AgentTypes
<1>f. Fault => faults' \in {faults, faults + 1} /\ faults' \in 0..MaxFaults
  BY DEF Fault
<1>u. UNCHANGED faults => faults' \in {faults, faults + 1} /\ faults' \in 0..MaxFaults
  OBVIOUS
<1>1. ASSUME NEW p, ChangePlan(p) PROVE UNCHANGED faults
  BY <1>1 DEF ChangePlan
<1>2. ASSUME Enrol \/ OtherEvents \/ Remediate \/ RunSteps PROVE Fault \/ UNCHANGED faults
  BY <1>2 DEF Enrol, OtherEvents, Remediate, RemoteCommand, RunNow, RunSteps, PolicyAnswer, ScriptEnds,
     EventPosted, RunAnswered
<1>3. ASSUME OpenTab \/ LeaveTab \/ TabSteps \/ AskApproval PROVE Fault \/ UNCHANGED faults
  BY <1>3 DEF OpenTab, LeaveTab, TabSteps, GateAnswered, PollEvents, AskApproval, CheckStatus, RequestApproval
<1>4. ASSUME NEW r \in Requests, Decide(r) \/ ApprovalSteps(r) PROVE Fault \/ UNCHANGED faults
  BY <1>4 DEF Decide, ApprovalSteps, RequestReaches, RequestAnswered, StatusFetched, Verified, CheckAnswered
<1>5. ASSUME Reload \/ RestartPage \/ CrashAgent PROVE Fault \/ UNCHANGED faults
  BY <1>5 DEF Reload, RestartPage, CrashAgent
<1> QED BY <1>f, <1>u, <1>1, <1>2, <1>3, <1>4, <1>5 DEF Next

\* A set of executed requests, and how many they are.
LEMMA ExecutedIsFinite ==
  ASSUME AgentTypes
  PROVE  /\ IsFiniteSet(executed)
         /\ Cardinality(executed) \in 0..MaxRequests
<1>1. IsFiniteSet(Requests) /\ Cardinality(Requests) = MaxRequests
  BY FS_Interval, ConsoleAssumption DEF Requests
<1>2. IsFiniteSet(executed) /\ Cardinality(executed) <= Cardinality(Requests)
  BY <1>1, FS_Subset DEF AgentTypes
<1>3. Cardinality(executed) \in Nat
  BY <1>2, FS_CardinalityType
<1> QED BY <1>1, <1>2, <1>3, ConsoleAssumption

\* Nobody executes a request twice, and only an execution destroys the credentials.
LEMMA AgentTypesNext ==
  ASSUME AgentTypes, DeviceHolds, ChecksHold, Next
  PROVE  /\ AgentTypes'
         /\ registered' \in {registered, registered + 1}
         /\ executed \subseteq executed'
         /\ (stored \in {None, registered})'
         /\ (registered + Gone <= Cardinality(executed) + 1)'
         /\ registered + Gone <= registered' + Gone'
<1> USE ConsoleAssumption DEF AgentTypes, DeviceHolds, Devices, None
<1>0. /\ registered \in Nat /\ MaxRequests \in Nat /\ Gone \in {0, 1}
      /\ Cardinality(executed) \in 0..MaxRequests
  BY ExecutedIsFinite DEF Gone, Requests
<1>p. plan' \subseteq Features
  <2>1. ASSUME NEW p \in SUBSET Features, ChangePlan(p) PROVE plan' \subseteq Features
    BY <2>1 DEF ChangePlan
  <2>2. (UNCHANGED plan) => plan' \subseteq Features
    OBVIOUS
  <2>3. ASSUME Remediate \/ RunSteps PROVE UNCHANGED plan
    BY <2>3 DEF Remediate, RemoteCommand, RunNow, RunSteps, PolicyAnswer, ScriptEnds, EventPosted, RunAnswered
  <2>4. ASSUME OpenTab \/ LeaveTab \/ Reload \/ RestartPage \/ CrashAgent PROVE UNCHANGED plan
    BY <2>4 DEF OpenTab, LeaveTab, Reload, RestartPage, PageStarts, CrashAgent
  <2> QED BY <2>1, <2>2, <2>3, <2>4, RunChanges
<1>f. faults' \in 0..MaxFaults
  BY FaultsGrow
<1>1. CASE UNCHANGED <<registered, stored, credentials, executed>>
  BY <1>0, <1>1, <1>p, <1>f DEF Gone
<1>2. CASE Enrol
  <2>1. executed' = executed
    BY <1>2 DEF Enrol, approvalVars
  <2>2. CASE stored = None
    BY <1>0, <1>2, <2>1, <2>2, <1>p, <1>f DEF Enrol, Gone
  <2>3. CASE stored # None
    BY <1>0, <1>2, <2>1, <2>3, <1>p, <1>f DEF Enrol, Gone
  <2> QED BY <2>2, <2>3
<1>3. CASE \E r \in Requests : Verified(r)
  <2>1. PICK r \in Requests : Verified(r)
    BY <1>3
  <2>2. CASE UNCHANGED <<registered, stored, credentials, executed>>
    BY <1>1, <2>2
  <2>3. CASE /\ stored' = None /\ credentials' = None /\ executed' = executed \cup {r}
             /\ UNCHANGED registered
    <3>1. r \notin executed
      BY <2>1 DEF Verified, ChecksHold, CheckHolds
    <3>2. Cardinality(executed') = Cardinality(executed) + 1
      BY <2>3, <3>1, ExecutedIsFinite, FS_AddElement
    <3>3. executed' \subseteq Requests /\ executed \subseteq executed'
      BY <2>3
    <3>4. Gone' = 1
      BY <2>3 DEF Gone
    <3>5. registered + Gone' <= Cardinality(executed') + 1
      BY <1>0, <3>2, <3>4
    <3>6. registered' = registered /\ stored' = 0 /\ credentials' = 0
      BY <2>3
    <3>7. registered' + Gone' <= Cardinality(executed') + 1
      BY <3>5, <3>6
    <3>8. AgentTypes'
      BY <1>0, <3>3, <3>6, <1>p, <1>f
    <3> QED BY <1>0, <3>3, <3>4, <3>6, <3>7, <3>8
  <2> QED BY <2>1, <2>2, <2>3 DEF Verified, agentVars
<1>4. CASE CrashAgent
  <2>1. /\ registered' = registered /\ stored' = stored /\ credentials' = 0 /\ executed' = executed
    BY <1>4 DEF CrashAgent
  <2> QED BY <1>0, <2>1, <1>p, <1>f DEF Gone
<1> QED BY <1>1, <1>2, <1>3, <1>4, AgentChanges

\* What the page was told of a request stays, but that it may still be decided once.
ToldStays(r) ==
  row[r].pc = "told" =>
    /\ row'[r].pc = "told" /\ row'[r].action = row[r].action /\ row'[r].device = row[r].device
    /\ row[r].status \in {"approved", "rejected"} => row'[r].status = row[r].status
LEMMA ToldRowsStay ==
  ASSUME RowTypes, Next
  PROVE  \A r \in Requests : ToldStays(r)
<1> TAKE r \in Requests
<1> USE DEF RowTypes, RowRecords
<1>1. CASE UNCHANGED row
  BY <1>1 DEF ToldStays
<1>2. CASE AskApproval
  BY <1>2 DEF AskApproval, CheckStatus, RequestApproval, ToldStays
<1>3. ASSUME NEW q \in Requests, Decide(q) PROVE ToldStays(r)
  BY <1>3 DEF Decide, ToldStays
<1>4. ASSUME NEW q \in Requests, RequestReaches(q) PROVE ToldStays(r)
  BY <1>4 DEF RequestReaches, ToldStays
<1>5. ASSUME NEW q \in Requests, RequestAnswered(q) PROVE ToldStays(r)
  BY <1>5 DEF RequestAnswered, ToldStays
<1>6. ASSUME NEW q \in Requests, StatusFetched(q) \/ Verified(q) \/ CheckAnswered(q) PROVE UNCHANGED row
  BY <1>6 DEF StatusFetched, Verified, CheckAnswered
<1>7. CASE Reload \/ RestartPage
  BY <1>7 DEF Reload, RestartPage, PageStarts, ToldStays
<1>8. CASE CrashAgent
  BY <1>8 DEF CrashAgent, ToldStays
<1> QED BY <1>1, <1>2, <1>3, <1>4, <1>5, <1>6, <1>7, <1>8, ApprovalChanges DEF ApprovalSteps

LEMMA DeviceHoldsNext ==
  ASSUME AgentTypes, RowTypes, DeviceHolds, ChecksHold, Next
  PROVE  DeviceHolds'
<1>0. /\ AgentTypes' /\ (stored \in {None, registered})'
      /\ (registered + Gone <= Cardinality(executed) + 1)'
      /\ registered + Gone <= registered' + Gone'
      /\ executed \subseteq executed'
  BY AgentTypesNext
<1>t. registered \in Nat /\ registered' \in Nat /\ Gone \in {0, 1} /\ Gone' \in {0, 1}
  BY <1>0, ConsoleAssumption DEF AgentTypes, Devices, Gone
<1>f. faults \in Nat /\ faults' \in {faults, faults + 1}
  BY FaultsGrow DEF AgentTypes
<1>1. credentials' = None => executed' # {} \/ faults' > 0
  <2>1. CASE UNCHANGED <<registered, stored, credentials, executed>>
    BY <2>1, <1>f DEF DeviceHolds
  <2>2. CASE Enrol
    <3>1. credentials' # None
      BY <2>2, <1>t DEF Enrol, None, AgentTypes, Devices
    <3> QED BY <3>1
  <2>3. ASSUME NEW r \in Requests, Verified(r) PROVE credentials' = None => executed' # {} \/ faults' > 0
    BY <2>3, <1>f DEF Verified, agentVars, DeviceHolds
  <2>4. CASE CrashAgent
    <3>1. Fault
      BY <2>4 DEF CrashAgent
    <3> QED BY <3>1, <1>f DEF Fault
  <2> QED BY <2>1, <2>2, <2>3, <2>4, AgentChanges
<1>2. ASSUME NEW r \in executed'
      PROVE  row'[r].pc = "told" /\ row'[r].status = "approved" /\ row'[r].device < registered' + Gone'
  <2>0. r \in Requests /\ row[r].device \in 0..registered
    BY <1>0 DEF AgentTypes, RowTypes, RowRecords
  <2>1. CASE r \in executed
    <3>1. /\ row[r].pc = "told" /\ row[r].status = "approved" /\ row[r].device < registered + Gone
      BY <2>1 DEF DeviceHolds
    <3>2. row'[r].pc = "told" /\ row'[r].status = "approved" /\ row'[r].device = row[r].device
      BY <2>0, <3>1, ToldRowsStay DEF ToldStays
    <3> QED BY <3>1, <3>2, <2>0, <1>0, <1>t
  <2>2. CASE r \notin executed
    <3>1. PICK q \in Requests : Verified(q)
      <4>1. executed' # executed
        BY <2>2
      <4> QED BY <4>1, AgentChanges DEF Enrol, approvalVars, CrashAgent
    <3>2. q = r /\ check[r].pc = "verify" /\ stored' = None /\ registered' = registered /\ row' = row
      BY <3>1, <2>2 DEF Verified, agentVars
    <3>3. row[r].pc = "told" /\ row[r].status = "approved"
      BY <3>2, <2>0 DEF ChecksHold, CheckHolds
    <3>4. Gone' = 1
      BY <3>2 DEF Gone
    <3> QED BY <3>2, <3>3, <3>4, <2>0, <1>t
  <2> QED BY <2>1, <2>2
<1> QED BY <1>0, <1>1, <1>2 DEF DeviceHolds

LEMMA RowTypesNext ==
  ASSUME AgentTypes, RowTypes, DeviceHolds, ChecksHold, Next
  PROVE  RowTypes'
<1>0. registered \in Nat /\ registered' \in {registered, registered + 1} /\ credentials \in 0..registered
  BY AgentTypesNext DEF AgentTypes, Devices, None
<1>w. RowRecords(registered) \subseteq RowRecords(registered')
  BY <1>0 DEF RowRecords
<1>s. row' \in [Requests -> RowRecords(registered)] => RowTypes'
  BY <1>w DEF RowTypes
<1> USE DEF RowTypes
<1>1. CASE UNCHANGED row
  BY <1>1, <1>s
<1>2. ASSUME NEW r \in Requests, NEW a \in HighImpactActions, RequestApproval(r, a)
      PROVE  row' \in [Requests -> RowRecords(registered)]
  <2>1. [pc |-> IF credentials = None THEN "refused" ELSE "asking",
         action |-> a, device |-> credentials, status |-> "none", live |-> TRUE] \in RowRecords(registered)
    BY <1>0 DEF RowRecords
  <2> QED BY <1>2, <2>1 DEF RequestApproval
<1>3. ASSUME NEW r \in Requests, RequestReaches(r) PROVE row' \in [Requests -> RowRecords(registered)]
  <2>1. /\ [row[r] EXCEPT !.pc = "made", !.status = "pending"] \in RowRecords(registered)
        /\ \A s \in {"none", "pending"} : [row[r] EXCEPT !.pc = "refused", !.status = s] \in RowRecords(registered)
    BY DEF RowRecords
  <2>2. \/ row' = [row EXCEPT ![r] = [row[r] EXCEPT !.pc = "made", !.status = "pending"]]
        \/ \E s \in {"none", "pending"} : row' = [row EXCEPT ![r] = [row[r] EXCEPT !.pc = "refused", !.status = s]]
    BY <1>3 DEF RequestReaches
  <2> QED BY <2>1, <2>2
<1>4. ASSUME NEW r \in Requests, RequestAnswered(r) PROVE row' \in [Requests -> RowRecords(registered)]
  <2>1. [row[r] EXCEPT !.pc = "told"] \in RowRecords(registered)
    BY DEF RowRecords
  <2>2. row' = [row EXCEPT ![r] = [row[r] EXCEPT !.pc = "told"]]
    BY <1>4 DEF RequestAnswered
  <2> QED BY <2>1, <2>2
<1>5. ASSUME NEW r \in Requests, Decide(r) PROVE row' \in [Requests -> RowRecords(registered)]
  <2>1. \A d \in {"approved", "rejected"} : [row[r] EXCEPT !.status = d] \in RowRecords(registered)
    BY DEF RowRecords
  <2>2. \E d \in {"approved", "rejected"} : row' = [row EXCEPT ![r] = [row[r] EXCEPT !.status = d]]
    BY <1>5 DEF Decide
  <2> QED BY <2>1, <2>2
<1>6. ASSUME Reload \/ RestartPage PROVE row' \in [Requests -> RowRecords(registered)]
  <2>1. \A r \in Requests : [row[r] EXCEPT !.live = FALSE] \in RowRecords(registered)
    BY DEF RowRecords
  <2> QED BY <1>6, <2>1 DEF Reload, RestartPage, PageStarts
<1>7. ASSUME CrashAgent PROVE row' \in [Requests -> RowRecords(registered)]
  <2>1. \A r \in Requests : [row[r] EXCEPT !.pc = IF @ \in {"asking", "made"} THEN "refused" ELSE @]
                              \in RowRecords(registered)
    BY DEF RowRecords
  <2> QED BY <1>7, <2>1 DEF CrashAgent
<1>8. ASSUME NEW r \in Requests, StatusFetched(r) \/ Verified(r) \/ CheckAnswered(r) PROVE UNCHANGED row
  BY <1>8 DEF StatusFetched, Verified, CheckAnswered
<1>9. ASSUME NEW a, CheckStatus(a) PROVE UNCHANGED row
  BY <1>9 DEF CheckStatus
<1> QED BY <1>1, <1>2, <1>3, <1>4, <1>5, <1>6, <1>7, <1>8, <1>9, <1>s, ApprovalChanges
        DEF AskApproval, ApprovalSteps

LEMMA UiTypesNext ==
  ASSUME UiTypes, RowTypes, CheckTypes, Next
  PROVE  UiTypes'
<1> USE DEF UiTypes
<1>0. /\ 0 \in 0..MaxRequests /\ \A r \in Requests : r \in 0..MaxRequests
  BY ConsoleAssumption DEF Requests
<1>1. CASE UNCHANGED ui
  BY <1>1
<1>2. ASSUME NEW r \in Requests, NEW a \in HighImpactActions, RequestApproval(r, a) PROVE UiTypes'
  <2>1. [req |-> None, phase |-> "requesting"] \in UiRecords
    BY <1>0 DEF UiRecords, None
  <2> QED BY <1>2, <2>1 DEF RequestApproval
<1>3. ASSUME NEW r \in Requests, RequestAnswered(r) PROVE UiTypes'
  <2>1. [req |-> r, phase |-> "pending"] \in UiRecords /\ [req |-> None, phase |-> "error"] \in UiRecords
    BY <1>0 DEF UiRecords, None
  <2> QED BY <1>3, <2>1 DEF RequestAnswered
<1>4. ASSUME NEW a \in HighImpactActions, CheckStatus(a) PROVE UiTypes'
  <2>1. [ui[a] EXCEPT !.phase = "checking"] \in UiRecords
    BY DEF UiRecords
  <2>2. ui' = [ui EXCEPT ![a] = [ui[a] EXCEPT !.phase = "checking"]]
    BY <1>4 DEF CheckStatus
  <2> QED BY <2>1, <2>2
<1>5. ASSUME NEW r \in Requests, CheckAnswered(r) PROVE UiTypes'
  <2>1. ui' = ui \/ ui' = [ui EXCEPT ![row[r].action] = [req |-> r, phase |-> Phase(check[r].pc)]]
    BY <1>5 DEF CheckAnswered, Told
  <2>2. Phase(check[r].pc) \in {"error", "pending", "rejected", "verification-failed", "executed"}
    BY <1>5 DEF CheckAnswered, Phase
  <2>3. [req |-> r, phase |-> Phase(check[r].pc)] \in UiRecords
    BY <1>0, <2>2 DEF UiRecords
  <2> QED BY <2>1, <2>3
<1>6. ASSUME Reload \/ RestartPage PROVE UiTypes'
  <2>1. Idle \in UiRecords
    BY <1>0 DEF UiRecords, Idle, None
  <2> QED BY <1>6, <2>1 DEF Reload, RestartPage, PageStarts
<1>7. ASSUME NEW r \in Requests, Decide(r) \/ RequestReaches(r) \/ StatusFetched(r) \/ Verified(r)
      PROVE UNCHANGED ui
  BY <1>7 DEF Decide, RequestReaches, StatusFetched, Verified, CrashAgent
<1>8. ASSUME CrashAgent PROVE UNCHANGED ui
  BY <1>8 DEF CrashAgent
<1> QED BY <1>1, <1>2, <1>3, <1>4, <1>5, <1>6, <1>7, <1>8, ApprovalChanges DEF AskApproval, ApprovalSteps

LEMMA CheckTypesNext ==
  ASSUME AgentTypes, RowTypes, UiTypes, CheckTypes, DeviceHolds, ChecksHold, Next
  PROVE  CheckTypes'
<1>0. registered \in Nat /\ registered' \in {registered, registered + 1} /\ credentials \in 0..registered
      /\ 0 \in 0..registered
  BY AgentTypesNext DEF AgentTypes, Devices, None
<1>w. CheckRecords(registered) \subseteq CheckRecords(registered')
  BY <1>0 DEF CheckRecords
<1>s. check' \in [Requests -> CheckRecords(registered)] => CheckTypes'
  BY <1>w DEF CheckTypes
<1> USE DEF CheckTypes
<1>n. NoCheck \in CheckRecords(registered)
  BY <1>0 DEF NoCheck, CheckRecords, None
<1>1. CASE UNCHANGED check
  BY <1>1, <1>s
<1>2. ASSUME NEW a \in HighImpactActions, CheckStatus(a) PROVE check' \in [Requests -> CheckRecords(registered)]
  <2>1. [pc |-> "asked", device |-> credentials] \in CheckRecords(registered)
    BY <1>0 DEF CheckRecords
  <2> QED BY <1>2, <2>1 DEF CheckStatus
<1>3. ASSUME NEW r \in Requests, StatusFetched(r) PROVE check' \in [Requests -> CheckRecords(registered)]
  <2> DEFINE answer == IF check[r].device = None \/ row[r].device # check[r].device THEN "error"
                       ELSE IF row[r].status = "approved" THEN "verify" ELSE row[r].status
  <2>1. \A s \in {"verify", "error", "none", "pending", "rejected"} :
          [NoCheck EXCEPT !.pc = s] \in CheckRecords(registered)
    BY <1>n DEF CheckRecords
  <2>2. answer \in {"verify", "error", "none", "pending", "rejected"}
    BY DEF RowTypes, RowRecords
  <2>3. check' = [check EXCEPT ![r] = [NoCheck EXCEPT !.pc = answer]]
        \/ check' = [check EXCEPT ![r] = [NoCheck EXCEPT !.pc = "error"]]
    BY <1>3 DEF StatusFetched
  <2> HIDE DEF answer
  <2> QED BY <2>1, <2>2, <2>3
<1>4. ASSUME NEW r \in Requests, Verified(r) PROVE check' \in [Requests -> CheckRecords(registered)]
  <2>1. \A s \in {"unverified", "executed"} : [check[r] EXCEPT !.pc = s] \in CheckRecords(registered)
    BY DEF CheckRecords
  <2>2. \E s \in {"unverified", "executed"} : check' = [check EXCEPT ![r] = [check[r] EXCEPT !.pc = s]]
    BY <1>4 DEF Verified
  <2> QED BY <2>1, <2>2
<1>5. ASSUME NEW r \in Requests, CheckAnswered(r) PROVE check' \in [Requests -> CheckRecords(registered)]
  BY <1>5, <1>n DEF CheckAnswered
<1>6. ASSUME CrashAgent PROVE check' \in [Requests -> CheckRecords(registered)]
  <2>1. \A r \in Requests : [check[r] EXCEPT !.pc = IF @ = "none" THEN @ ELSE "error", !.device = None]
                              \in CheckRecords(registered)
    BY <1>0 DEF CheckRecords, None
  <2> QED BY <1>6, <2>1 DEF CrashAgent
<1>7. ASSUME NEW r \in Requests, NEW a, Decide(r) \/ RequestReaches(r) \/ RequestAnswered(r) \/ RequestApproval(r, a)
      PROVE UNCHANGED check
  BY <1>7 DEF Decide, RequestReaches, RequestAnswered, RequestApproval
<1>8. ASSUME Reload \/ RestartPage PROVE UNCHANGED check
  BY <1>8 DEF Reload, RestartPage, PageStarts
<1> QED BY <1>1, <1>2, <1>3, <1>4, <1>5, <1>6, <1>7, <1>8, <1>s, ApprovalChanges DEF AskApproval, ApprovalSteps

-----------------------------------------------------------------------------
(* Requests and their checks. *)

\* The executed requests grow by the one that was verified.
LEMMA ExecutionsGrow ==
  ASSUME Next
  PROVE  \/ executed' = executed
         \/ \E r \in Requests : /\ Verified(r) /\ executed' = executed \cup {r}
                                /\ check' = [check EXCEPT ![r].pc = "executed"]
<1>1. (UNCHANGED <<registered, stored, credentials, executed>>) => executed' = executed
  OBVIOUS
<1>2. Enrol \/ CrashAgent => executed' = executed
  BY DEF Enrol, approvalVars, CrashAgent
<1>3. ASSUME NEW r \in Requests, Verified(r)
      PROVE  \/ executed' = executed
             \/ /\ executed' = executed \cup {r}
                /\ check' = [check EXCEPT ![r].pc = "executed"]
  BY <1>3 DEF Verified
<1> QED BY <1>1, <1>2, <1>3, AgentChanges

\* A check keeps its word: the row it speaks of no longer moves, a request it may
\* still execute was not executed, and the device that asked cannot be forged by a
\* later enrolment, which registers another one.
LEMMA ChecksHoldNext ==
  ASSUME AgentTypes, RowTypes, UiTypes, CheckTypes, DeviceHolds, ChecksHold, RequestsKnown, Next
  PROVE  ChecksHold'
<1> SUFFICES ASSUME NEW r \in Requests PROVE CheckHolds(r)'
  BY DEF ChecksHold
<1>h. CheckHolds(r)
  BY DEF ChecksHold
<1>r. ToldStays(r)
  BY ToldRowsStay
<1>c. check \in [Requests -> CheckRecords(registered)] /\ row \in [Requests -> RowRecords(registered)]
  BY DEF CheckTypes, RowTypes
<1>m. executed \subseteq executed'
  BY AgentTypesNext
\* A check that stays as it is.
<1>k. ASSUME check'[r] = check[r], r \in executed' => r \in executed PROVE CheckHolds(r)'
  BY <1>h, <1>r, <1>k, <1>m DEF CheckHolds, ToldStays
\* A check that gives up.
<1>e. ASSUME check'[r].pc \in {"none", "error", "pending"}, check[r].pc # "none" \/ check'[r].pc = "none"
      PROVE  CheckHolds(r)'
  BY <1>h, <1>r, <1>e DEF CheckHolds, ToldStays
<1>1. CASE UNCHANGED check /\ UNCHANGED executed
  BY <1>1, <1>k
<1>2. ASSUME NEW a \in HighImpactActions, CheckStatus(a) PROVE CheckHolds(r)'
  <2>1. /\ ui[a].req # None /\ executed' = executed /\ row' = row
        /\ check' = [check EXCEPT ![ui[a].req] = [pc |-> "asked", device |-> credentials]]
    BY <1>2 DEF CheckStatus
  <2>2. CASE ui[a].req = r
    <3>1. check'[r].pc = "asked" /\ check'[r].device = credentials
      BY <2>1, <2>2, <1>c
    <3>2. row'[r].pc = "told"
      BY <1>2, <2>1, <2>2 DEF RequestsKnown
    <3>3. ASSUME r \in executed, credentials # None PROVE credentials \in Nat /\ credentials # row[r].device
      BY <3>3, ConsoleAssumption DEF DeviceHolds, Gone, AgentTypes, Devices, None
    <3> QED BY <2>1, <3>1, <3>2, <3>3 DEF CheckHolds
  <2>3. CASE ui[a].req # r
    BY <1>k, <2>1, <2>3, <1>c
  <2> QED BY <2>2, <2>3
<1>3. ASSUME NEW q \in Requests, StatusFetched(q) PROVE CheckHolds(r)'
  <2>0. executed' = executed /\ row' = row /\ check[q].pc = "asked"
    BY <1>3 DEF StatusFetched, agentVars
  <2>1. CASE q # r
    <3>1. \E v : check' = [check EXCEPT ![q] = v]
      BY <1>3 DEF StatusFetched
    <3>2. check'[r] = check[r]
      BY <3>1, <2>1, <1>c
    <3> QED BY <3>2, <2>0, <1>k
  <2>2. CASE q = r
    <3>1. CASE check' = [check EXCEPT ![r] = [NoCheck EXCEPT !.pc = "error"]]
      BY <3>1, <2>0, <2>2, <1>c, <1>e DEF NoCheck
    <3>2. CASE check' = [check EXCEPT ![r] = [NoCheck EXCEPT !.pc =
                   IF check[r].device = None \/ row[r].device # check[r].device THEN "error"
                   ELSE IF row[r].status = "approved" THEN "verify" ELSE row[r].status]]
      <4>1. CASE check[r].device = None \/ row[r].device # check[r].device
        BY <3>2, <4>1, <2>0, <2>2, <1>c, <1>e DEF NoCheck
      <4>2. CASE ~(check[r].device = None \/ row[r].device # check[r].device)
        <5>1. check'[r].pc = IF row[r].status = "approved" THEN "verify" ELSE row[r].status
          BY <3>2, <4>2, <1>c DEF NoCheck
        <5>2. row[r].pc = "told" /\ r \notin executed
          BY <4>2, <2>0, <2>2, <1>h DEF CheckHolds
        <5>3. row[r].status \in {"none", "pending", "approved", "rejected"}
          BY <1>c DEF RowRecords
        <5>4. check'[r].pc \in {"none", "pending", "verify", "rejected"}
              /\ (check'[r].pc = "verify" => row[r].status = "approved")
              /\ (check'[r].pc = "rejected" => row[r].status = "rejected")
          BY <5>1, <5>3
        <5> QED BY <5>2, <5>4, <2>0 DEF CheckHolds
      <4> QED BY <4>1, <4>2
    <3> QED BY <1>3, <2>2, <3>1, <3>2 DEF StatusFetched
  <2> QED BY <2>1, <2>2
<1>4. ASSUME NEW q \in Requests, Verified(q) PROVE CheckHolds(r)'
  <2>0. row' = row /\ check[q].pc = "verify"
    BY <1>4 DEF Verified
  <2>1. CASE q # r
    <3>1. \E v : check' = [check EXCEPT ![q] = v]
      BY <1>4 DEF Verified
    <3>2. check'[r] = check[r]
      BY <3>1, <2>1, <1>c
    <3>3. r \in executed' => r \in executed
      BY <1>4, <2>1 DEF Verified, agentVars
    <3> QED BY <3>2, <3>3, <1>k
  <2>2. CASE q = r
    <3>1. row[r].pc = "told" /\ row[r].status = "approved"
      BY <2>0, <2>2, <1>h DEF CheckHolds
    <3>2. \/ check' = [check EXCEPT ![r] = [check[r] EXCEPT !.pc = "unverified"]]
          \/ check' = [check EXCEPT ![r] = [check[r] EXCEPT !.pc = "executed"]] /\ r \in executed'
      BY <1>4, <2>2 DEF Verified
    <3>3. check'[r].pc = "unverified" \/ (check'[r].pc = "executed" /\ r \in executed')
      BY <3>2, <1>c DEF CheckRecords
    <3> QED BY <3>1, <3>3, <2>0 DEF CheckHolds
  <2> QED BY <2>1, <2>2
<1>5. ASSUME NEW q \in Requests, CheckAnswered(q) PROVE CheckHolds(r)'
  <2>0. executed' = executed /\ check' = [check EXCEPT ![q] = NoCheck]
    BY <1>5 DEF CheckAnswered
  <2>1. CASE q # r
    BY <1>k, <2>0, <2>1, <1>c
  <2>2. CASE q = r
    BY <1>e, <2>0, <2>2, <1>c DEF NoCheck
  <2> QED BY <2>1, <2>2
<1>6. ASSUME CrashAgent PROVE CheckHolds(r)'
  <2>1. check'[r] = [check[r] EXCEPT !.pc = IF @ = "none" THEN @ ELSE "error", !.device = None]
    BY <1>6 DEF CrashAgent
  <2>2. check'[r].pc = IF check[r].pc = "none" THEN "none" ELSE "error"
    BY <2>1, <1>c DEF CheckRecords
  <2> QED BY <2>2, <1>e
<1>7. ASSUME NEW q \in Requests, NEW a, Decide(q) \/ RequestReaches(q) \/ RequestAnswered(q) \/ RequestApproval(q, a)
      PROVE  UNCHANGED check /\ UNCHANGED executed
  BY <1>7 DEF Decide, RequestReaches, RequestAnswered, RequestApproval
<1>8. ASSUME Reload \/ RestartPage PROVE UNCHANGED check /\ UNCHANGED executed
  BY <1>8 DEF Reload, RestartPage, PageStarts
<1> QED BY <1>1, <1>2, <1>3, <1>4, <1>5, <1>6, <1>7, <1>8, ApprovalChanges DEF AskApproval, ApprovalSteps

LEMMA RequestsKnownNext ==
  ASSUME RowTypes, UiTypes, ChecksHold, RequestsKnown, Next
  PROVE  RequestsKnown'
<1> SUFFICES ASSUME NEW a \in HighImpactActions, ui'[a].req # None PROVE row'[ui'[a].req].pc = "told"
  BY DEF RequestsKnown
<1>t. ui \in [HighImpactActions -> UiRecords] /\ row \in [Requests -> RowRecords(registered)]
  BY DEF UiTypes, RowTypes
\* The request beside the action stays.
<1>k. ASSUME ui'[a].req = ui[a].req PROVE row'[ui'[a].req].pc = "told"
  <2>1. ui[a].req \in Requests /\ row[ui[a].req].pc = "told"
    BY <1>k, <1>t, ConsoleAssumption DEF UiRecords, Requests, None, RequestsKnown
  <2> QED BY <1>k, <2>1, ToldRowsStay DEF ToldStays
<1>1. CASE UNCHANGED ui
  BY <1>1, <1>k
<1>2. ASSUME NEW b \in HighImpactActions, CheckStatus(b) PROVE ui'[a].req = ui[a].req
  BY <1>2, <1>t DEF CheckStatus, UiRecords
<1>3. ASSUME NEW b \in HighImpactActions, NEW r \in Requests, RequestApproval(r, b) PROVE ui'[a].req = ui[a].req
  <2>1. ui' = [ui EXCEPT ![b] = [req |-> None, phase |-> "requesting"]]
    BY <1>3 DEF RequestApproval
  <2> QED BY <2>1, <1>t
<1>4. ASSUME NEW r \in Requests, RequestAnswered(r) PROVE row'[ui'[a].req].pc = "told"
  <2>1. row'[r].pc = "told"
    BY <1>4, <1>t DEF RequestAnswered, RowRecords
  <2>2. \/ ui' = ui
        \/ ui' = [ui EXCEPT ![row[r].action] = [req |-> r, phase |-> "pending"]]
        \/ ui' = [ui EXCEPT ![row[r].action] = [req |-> None, phase |-> "error"]]
    BY <1>4 DEF RequestAnswered
  <2>3. ui'[a].req \in {ui[a].req, r, None}
    BY <2>2, <1>t
  <2> QED BY <2>1, <2>3, <1>k
<1>5. ASSUME NEW r \in Requests, CheckAnswered(r) PROVE row'[ui'[a].req].pc = "told"
  <2>1. row[r].pc = "told" /\ row' = row
    BY <1>5 DEF CheckAnswered, ChecksHold, CheckHolds
  <2>2. ui' = ui \/ ui' = [ui EXCEPT ![row[r].action] = [req |-> r, phase |-> Phase(check[r].pc)]]
    BY <1>5 DEF CheckAnswered, Told
  <2>3. ui'[a].req \in {ui[a].req, r}
    BY <2>2, <1>t
  <2> QED BY <2>1, <2>3, <1>k
<1>6. ASSUME Reload \/ RestartPage PROVE FALSE
  BY <1>6 DEF Reload, RestartPage, PageStarts, Idle
<1>7. ASSUME NEW r \in Requests, Decide(r) \/ RequestReaches(r) \/ StatusFetched(r) \/ Verified(r)
      PROVE UNCHANGED ui
  BY <1>7 DEF Decide, RequestReaches, StatusFetched, Verified
<1>8. ASSUME CrashAgent PROVE UNCHANGED ui
  BY <1>8 DEF CrashAgent
<1> QED BY <1>1, <1>2, <1>3, <1>4, <1>5, <1>6, <1>7, <1>8, <1>k, ApprovalChanges DEF AskApproval, ApprovalSteps

\* The phase of one action.
PhaseHolds(a) ==
  ui[a].req # None => /\ row[ui[a].req].action = a
                      /\ ui[a].phase = "executed" => ui[a].req \in executed
                      /\ ui[a].phase = "rejected" => row[ui[a].req].status = "rejected"
                      /\ ui[a].phase = "verification-failed" => row[ui[a].req].status = "approved"

LEMMA PhasesOfActions == PhaseIsOfItsRequest <=> \A a \in HighImpactActions : PhaseHolds(a)
BY DEF PhaseIsOfItsRequest, PhaseHolds
LEMMA PhasesOfActionsPrimed ==
  ASSUME \A a \in HighImpactActions : PhaseHolds(a)' PROVE PhaseIsOfItsRequest'
BY DEF PhaseIsOfItsRequest, PhaseHolds

LEMMA PhasesNext ==
  ASSUME AgentTypes, RowTypes, UiTypes, CheckTypes, DeviceHolds, ChecksHold, RequestsKnown,
         PhaseIsOfItsRequest, Next
  PROVE  PhaseIsOfItsRequest'
<1> SUFFICES ASSUME NEW a \in HighImpactActions PROVE PhaseHolds(a)'
  BY PhasesOfActionsPrimed
<1>h. PhaseHolds(a)
  BY PhasesOfActions
<1>t. ui \in [HighImpactActions -> UiRecords] /\ row \in [Requests -> RowRecords(registered)]
  BY DEF UiTypes, RowTypes
<1>m. executed \subseteq executed'
  BY AgentTypesNext
<1>n. ASSUME ui'[a].req = None PROVE PhaseHolds(a)'
  BY <1>n DEF PhaseHolds
\* The phase stays, or says that a check is out.
<1>k. ASSUME ui'[a].req = ui[a].req, ui'[a].phase \in {ui[a].phase, "checking"} PROVE PhaseHolds(a)'
  <2>1. CASE ui[a].req = None
    BY <1>n, <1>k, <2>1
  <2>2. CASE ui[a].req # None
    <3>1. ui[a].req \in Requests /\ row[ui[a].req].pc = "told"
      BY <2>2, <1>t, ConsoleAssumption DEF UiRecords, Requests, None, RequestsKnown
    <3>2. ToldStays(ui[a].req)
      BY <3>1, ToldRowsStay
    <3> QED BY <1>k, <2>2, <3>1, <3>2, <1>h, <1>m DEF PhaseHolds, ToldStays
  <2> QED BY <2>1, <2>2
<1>1. CASE UNCHANGED ui
  BY <1>1, <1>k
<1>2. ASSUME NEW b \in HighImpactActions, CheckStatus(b) PROVE PhaseHolds(a)'
  <2>1. ui' = [ui EXCEPT ![b] = [ui[b] EXCEPT !.phase = "checking"]]
    BY <1>2 DEF CheckStatus
  <2>2. ui'[a].req = ui[a].req /\ ui'[a].phase \in {ui[a].phase, "checking"}
    BY <2>1, <1>t DEF UiRecords
  <2> QED BY <2>2, <1>k
<1>3. ASSUME NEW b \in HighImpactActions, NEW r \in Requests, RequestApproval(r, b) PROVE PhaseHolds(a)'
  <2>1. ui' = [ui EXCEPT ![b] = [req |-> None, phase |-> "requesting"]]
    BY <1>3 DEF RequestApproval
  <2>2. ui'[a].req = None \/ ui'[a] = ui[a]
    BY <2>1, <1>t
  <2> QED BY <2>2, <1>n, <1>k
<1>4. ASSUME NEW r \in Requests, RequestAnswered(r) PROVE PhaseHolds(a)'
  <2>1. row'[r].action = row[r].action /\ row[r].action \in HighImpactActions
    BY <1>4, <1>t DEF RequestAnswered, RowRecords
  <2>2. \/ ui' = ui
        \/ ui' = [ui EXCEPT ![row[r].action] = [req |-> r, phase |-> "pending"]]
        \/ ui' = [ui EXCEPT ![row[r].action] = [req |-> None, phase |-> "error"]]
    BY <1>4 DEF RequestAnswered
  <2>3. \/ ui'[a] = ui[a]
        \/ a = row[r].action /\ ui'[a].req = r /\ ui'[a].phase = "pending"
        \/ ui'[a].req = None
    BY <2>1, <2>2, <1>t
  <2>4. ASSUME a = row[r].action, ui'[a].req = r, ui'[a].phase = "pending" PROVE PhaseHolds(a)'
    BY <2>1, <2>4 DEF PhaseHolds
  <2> QED BY <2>3, <2>4, <1>k, <1>n
<1>5. ASSUME NEW r \in Requests, CheckAnswered(r) PROVE PhaseHolds(a)'
  <2>1. row' = row /\ row[r].action \in HighImpactActions /\ executed' = executed
    BY <1>5, <1>t DEF CheckAnswered, RowRecords
  <2>2. ui' = ui \/ ui' = [ui EXCEPT ![row[r].action] = [req |-> r, phase |-> Phase(check[r].pc)]]
    BY <1>5 DEF CheckAnswered, Told
  <2>3. ui'[a] = ui[a] \/ (a = row[r].action /\ ui'[a].req = r /\ ui'[a].phase = Phase(check[r].pc))
    BY <2>1, <2>2, <1>t
  <2>4. check[r].pc \in {"error", "pending", "rejected", "unverified", "executed"} /\ CheckHolds(r)
    BY <1>5 DEF CheckAnswered, ChecksHold
  <2>5. /\ Phase(check[r].pc) = "executed" => r \in executed
        /\ Phase(check[r].pc) = "rejected" => row[r].status = "rejected"
        /\ Phase(check[r].pc) = "verification-failed" => row[r].status = "approved"
    BY <2>4 DEF Phase, CheckHolds
  <2>6. ASSUME a = row[r].action, ui'[a].req = r, ui'[a].phase = Phase(check[r].pc) PROVE PhaseHolds(a)'
    BY <2>1, <2>5, <2>6 DEF PhaseHolds
  <2> QED BY <2>3, <2>6, <1>k
<1>6. ASSUME Reload \/ RestartPage PROVE PhaseHolds(a)'
  <2>1. ui'[a] = Idle
    BY <1>6 DEF Reload, RestartPage, PageStarts
  <2> QED BY <2>1, <1>n DEF Idle
<1>7. ASSUME NEW r \in Requests, Decide(r) \/ RequestReaches(r) \/ StatusFetched(r) \/ Verified(r)
      PROVE UNCHANGED ui
  BY <1>7 DEF Decide, RequestReaches, StatusFetched, Verified
<1>8. ASSUME CrashAgent PROVE UNCHANGED ui
  BY <1>8 DEF CrashAgent
<1> QED BY <1>1, <1>2, <1>3, <1>4, <1>5, <1>6, <1>7, <1>8, ApprovalChanges DEF AskApproval, ApprovalSteps

LEMMA StorageNext ==
  ASSUME AgentTypes, PageTypes, RowTypes, DeviceHolds, ChecksHold, StorageGoesWithReset, Next
  PROVE  PageTypes' /\ StorageGoesWithReset'
<1>m. executed \subseteq executed'
  BY AgentTypesNext
\* What was cleaned stays so, for an executed request is one the page was told of.
<1>k. ASSUME NEW r \in executed, row[r].action = "full-reset" PROVE r \in executed' /\ row'[r].action = "full-reset"
  <2>1. r \in Requests /\ row[r].pc = "told" /\ ToldStays(r)
    BY ToldRowsStay DEF AgentTypes, DeviceHolds
  <2> QED BY <1>k, <1>m, <2>1 DEF ToldStays
<1>u. ASSUME UNCHANGED cleaned, resetting' \in BOOLEAN PROVE PageTypes' /\ StorageGoesWithReset'
  BY <1>u, <1>k DEF PageTypes, StorageGoesWithReset
<1>1. ASSUME NEW r \in Requests, CheckAnswered(r) PROVE PageTypes' /\ StorageGoesWithReset'
  <2>1. CASE UNCHANGED <<cleaned, resetting>>
    BY <1>u, <2>1 DEF PageTypes
  <2>2. CASE /\ cleaned' = IF SawExecution(r) /\ row[r].action = "full-reset" THEN cleaned \cup {r} ELSE cleaned
             /\ resetting' = (resetting \/ (SawExecution(r) /\ row[r].action = "full-reset"))
    <3>1. CASE SawExecution(r) /\ row[r].action = "full-reset"
      <4>1. r \in executed
        BY <3>1 DEF SawExecution, ChecksHold, CheckHolds
      <4>2. cleaned' = cleaned \cup {r} /\ resetting' = TRUE
        BY <2>2, <3>1
      <4> QED BY <3>1, <4>1, <4>2, <1>k DEF PageTypes, StorageGoesWithReset
    <3>2. CASE ~(SawExecution(r) /\ row[r].action = "full-reset")
      BY <2>2, <3>2, <1>u DEF PageTypes
    <3> QED BY <3>1, <3>2
  <2> QED BY <1>1, <2>1, <2>2 DEF CheckAnswered
<1>2. ASSUME Reload \/ RestartPage PROVE cleaned' = cleaned /\ resetting' = FALSE
  BY <1>2 DEF Reload, RestartPage, PageStarts
<1>3. ASSUME AskApproval PROVE UNCHANGED <<cleaned, resetting>>
  BY <1>3 DEF AskApproval, CheckStatus, RequestApproval
<1>4. ASSUME NEW r \in Requests, Decide(r) \/ RequestReaches(r) \/ RequestAnswered(r) \/ StatusFetched(r) \/ Verified(r)
      PROVE UNCHANGED <<cleaned, resetting>>
  BY <1>4 DEF Decide, RequestReaches, RequestAnswered, StatusFetched, Verified
<1>5. ASSUME CrashAgent PROVE UNCHANGED <<cleaned, resetting>>
  BY <1>5 DEF CrashAgent
<1>6. resetting \in BOOLEAN
  BY DEF PageTypes
<1> QED BY <1>1, <1>2, <1>3, <1>4, <1>5, <1>6, <1>u, ApprovalChanges DEF ApprovalSteps

-----------------------------------------------------------------------------
(* Executions: what each step makes of the record it is about. *)

\* Every other execution is as it was, and this one has the type of executions.
Only(k) ==
  /\ run' \in [Runs -> RunRecords(registered)]
  /\ \A j \in Runs \ {k} : run'[j] = run[j]

LEMMA Updated ==
  ASSUME RunTypes, NEW k \in Runs, NEW v \in RunRecords(registered), run' = [run EXCEPT ![k] = v]
  PROVE  Only(k) /\ run'[k] = v
BY DEF RunTypes, Only

LEMMA TakeMakes ==
  ASSUME AgentTypes, RunTypes, NEW k \in Runs, NEW f \in Features, NEW m \in 0..MaxMounts, Take(k, f, m)
  PROVE  /\ Only(k) /\ run[k].pc = "none" /\ run'[k].mount = m
         /\ run'[k].pc \in {"policy", "done"} /\ run'[k].outcome \in {"none", "blocked"}
         /\ run'[k].pc = "policy" /\ run'[k].feature \in plan => run'[k].granted
<1>0. run[k].pc = "none" /\ 0 \in 0..registered
  BY ConsoleAssumption DEF Take, AgentTypes, Devices
<1> DEFINE asked(g) == [NoRun EXCEPT !.pc = "policy", !.feature = f, !.mount = m, !.granted = g]
           refused == [NoRun EXCEPT !.pc = "done", !.feature = f, !.mount = m,
                                    !.outcome = "blocked", !.log = "dropped"]
<1>1. PICK g \in BOOLEAN : (g = TRUE /\ f \in plan) \/ (g = FALSE /\ f \notin plan)
  OBVIOUS
<1>e. (f \in plan) = g
  BY <1>1
<1>2. run' = [run EXCEPT ![k] = asked(g)] \/ run' = [run EXCEPT ![k] = refused]
  BY <1>e DEF Take
<1>3. NoRun \in RunRecords(registered)
  BY <1>0, ConsoleAssumption DEF NoRun, None, RunRecords
<1>4. asked(g) \in RunRecords(registered) /\ refused \in RunRecords(registered)
  BY <1>3 DEF RunRecords
<1>5. /\ asked(g).mount = m /\ asked(g).pc = "policy" /\ asked(g).outcome = "none"
      /\ asked(g).feature = f /\ asked(g).granted = g
      /\ refused.mount = m /\ refused.pc = "done" /\ refused.outcome = "blocked"
  BY <1>3 DEF RunRecords, NoRun
<1> HIDE DEF asked, refused
<1>6. CASE run' = [run EXCEPT ![k] = asked(g)]
  <2>1. Only(k) /\ run'[k] = asked(g)
    BY <1>4, <1>6, Updated
  <2>2. run'[k].pc = "policy" /\ run'[k].feature \in plan => run'[k].granted
    BY <2>1, <1>1, <1>5
  <2> QED BY <1>0, <1>5, <2>1, <2>2
<1>7. CASE run' = [run EXCEPT ![k] = refused]
  BY <1>0, <1>4, <1>5, <1>7, Updated
<1> QED BY <1>2, <1>6, <1>7

LEMMA ConcludedMakes ==
  ASSUME AgentTypes, RunTypes, NEW k \in Runs, NEW o \in {"blocked", "succeeded", "failed"}, Concluded(k, o)
  PROVE  /\ Only(k) /\ run'[k].mount = run[k].mount /\ run'[k].pc = "done" /\ run'[k].outcome = o
         /\ run'[k].log = "dropped" => credentials = None
<1> DEFINE l == IF credentials = None THEN "dropped" ELSE "sent"
           v == [run[k] EXCEPT !.pc = "done", !.outcome = o, !.granted = FALSE, !.log = l, !.under = credentials]
<1>0. credentials \in 0..registered /\ l \in {"dropped", "sent"} /\ (l = "dropped" => credentials = None)
  BY ConsoleAssumption DEF AgentTypes, Devices, None
<1>1. run[k] \in RunRecords(registered)
  BY DEF RunTypes
<1>2. run' = [run EXCEPT ![k] = v]
  BY DEF Concluded, Logged
<1> HIDE DEF l
<1>3. v \in RunRecords(registered)
  BY <1>0, <1>1 DEF RunRecords
<1>4. v.mount = run[k].mount /\ v.pc = "done" /\ v.outcome = o /\ v.log = l
  BY <1>1 DEF RunRecords
<1> HIDE DEF v
<1> QED BY <1>0, <1>2, <1>3, <1>4, Updated

LEMMA PolicyAnswerMakes ==
  ASSUME AgentTypes, RunTypes, NEW k \in Runs, PolicyAnswer(k)
  PROVE  /\ Only(k) /\ run[k].pc = "policy" /\ run'[k].mount = run[k].mount
         /\ \/ /\ run'[k].pc = "script" /\ run[k].feature \in plan /\ run'[k].granted = run[k].granted
               /\ run'[k].outcome = run[k].outcome /\ run'[k].log = run[k].log
            \/ run'[k].pc = "done" /\ run'[k].outcome = "blocked"
<1>1. run[k].pc = "policy" /\ run[k] \in RunRecords(registered)
  BY DEF PolicyAnswer, RunTypes
<1>2. PICK answered \in BOOLEAN : IF Permitted(k, answered) THEN run' = [run EXCEPT ![k].pc = "script"]
                                                            ELSE Concluded(k, "blocked")
  BY DEF PolicyAnswer
<1>3. CASE Permitted(k, answered)
  <2> DEFINE v == [run[k] EXCEPT !.pc = "script"]
  <2>1. run' = [run EXCEPT ![k] = v]
    BY <1>2, <1>3
  <2>2. v \in RunRecords(registered)
    BY <1>1 DEF RunRecords
  <2>3. v.pc = "script" /\ v.mount = run[k].mount /\ v.granted = run[k].granted
        /\ v.outcome = run[k].outcome /\ v.log = run[k].log
    BY <1>1 DEF RunRecords
  <2>4. run[k].feature \in plan
    BY <1>3 DEF Permitted
  <2> HIDE DEF v
  <2> QED BY <1>1, <2>1, <2>2, <2>3, <2>4, Updated
<1>4. CASE ~Permitted(k, answered)
  BY <1>1, <1>2, <1>4, ConcludedMakes
<1> QED BY <1>3, <1>4

LEMMA ScriptEndsMakes ==
  ASSUME AgentTypes, RunTypes, NEW k \in Runs, ScriptEnds(k)
  PROVE  /\ Only(k) /\ run[k].pc = "script" /\ run'[k].mount = run[k].mount
         /\ run'[k].pc = "done"
         /\ run'[k].log = "dropped" => credentials = None
<1>1. \E o \in {"succeeded", "failed"} : Concluded(k, o)
  BY DEF ScriptEnds, Endings, Ended
<1> QED BY <1>1, ConcludedMakes DEF ScriptEnds

LEMMA EventPostedMakes ==
  ASSUME RunTypes, NEW k \in Runs, EventPosted(k)
  PROVE  /\ Only(k) /\ run'[k].log \in {"stored", "lost"}
         /\ run'[k].mount = run[k].mount /\ run'[k].pc = run[k].pc /\ run'[k].granted = run[k].granted
         /\ run'[k].feature = run[k].feature /\ run'[k].outcome = run[k].outcome
<1>1. run[k] \in RunRecords(registered)
  BY DEF RunTypes
<1>2. PICK l \in {"stored", "lost"} : run' = [run EXCEPT ![k] = [run[k] EXCEPT !.log = l]]
  BY DEF EventPosted
<1> DEFINE v == [run[k] EXCEPT !.log = l]
<1>3. v \in RunRecords(registered)
  BY <1>1 DEF RunRecords
<1>4. /\ v.log = l /\ v.mount = run[k].mount /\ v.pc = run[k].pc /\ v.granted = run[k].granted
      /\ v.feature = run[k].feature /\ v.outcome = run[k].outcome
  BY <1>1 DEF RunRecords
<1> HIDE DEF v
<1> QED BY <1>2, <1>3, <1>4, Updated DEF v

LEMMA RunAnsweredMakes ==
  ASSUME RunTypes, NEW k \in Runs, RunAnswered(k)
  PROVE  /\ Only(k) /\ run[k].pc \in {"done", "dead"} /\ run'[k].pc = "told"
         /\ run'[k].mount = run[k].mount /\ run'[k].outcome = run[k].outcome /\ run'[k].log = run[k].log
<1>1. run[k] \in RunRecords(registered) /\ run[k].pc \in {"done", "dead"}
  BY DEF RunTypes, RunAnswered
<1> DEFINE v == [run[k] EXCEPT !.pc = "told"]
<1>2. run' = [run EXCEPT ![k] = v]
  BY DEF RunAnswered
<1>3. v \in RunRecords(registered)
  BY <1>1 DEF RunRecords
<1>4. v.pc = "told" /\ v.mount = run[k].mount /\ v.outcome = run[k].outcome /\ v.log = run[k].log
  BY <1>1 DEF RunRecords
<1> HIDE DEF v
<1> QED BY <1>1, <1>2, <1>3, <1>4, Updated

\* A change of the plan is remembered by the executions that wait for the policy.
LEMMA ChangePlanMakes ==
  ASSUME RunTypes, NEW p \in SUBSET Features, ChangePlan(p), NEW k \in Runs
  PROVE  /\ run'[k] \in RunRecords(registered)
         /\ run'[k].pc = run[k].pc /\ run'[k].mount = run[k].mount /\ run'[k].feature = run[k].feature
         /\ run'[k].outcome = run[k].outcome /\ run'[k].log = run[k].log
         /\ run[k].granted => run'[k].granted
         /\ run[k].pc = "policy" /\ run[k].feature \in p => run'[k].granted
<1>1. run[k] \in RunRecords(registered)
  BY DEF RunTypes
<1>2. PICK g \in BOOLEAN : g = (run[k].granted \/ (run[k].pc = "policy" /\ run[k].feature \in p))
  OBVIOUS
<1> DEFINE v == [run[k] EXCEPT !.granted = g]
<1>3. run'[k] = v
  BY <1>2 DEF ChangePlan
<1>4. v \in RunRecords(registered)
  BY <1>1 DEF RunRecords
<1>5. /\ v.pc = run[k].pc /\ v.mount = run[k].mount /\ v.feature = run[k].feature
      /\ v.outcome = run[k].outcome /\ v.log = run[k].log /\ v.granted = g
  BY <1>1 DEF RunRecords
<1> HIDE DEF v
<1>6. run'[k].granted = g
  BY <1>3, <1>5
<1>7. run[k].granted => run'[k].granted
  BY <1>2, <1>6
<1>8. run[k].pc = "policy" /\ run[k].feature \in p => run'[k].granted
  BY <1>2, <1>6
<1> QED BY <1>3, <1>4, <1>5, <1>7, <1>8

LEMMA CrashMakes ==
  ASSUME RunTypes, CrashAgent, NEW k \in Runs
  PROVE  /\ run'[k] \in RunRecords(registered)
         /\ run'[k].pc \in {"none", "dead", "told"} /\ run'[k].mount = run[k].mount
         /\ run'[k].pc = "none" <=> run[k].pc = "none"
         /\ run'[k].pc = "told" <=> run[k].pc = "told"
<1>1. run[k] \in RunRecords(registered)
  BY DEF RunTypes
<1> DEFINE c == IF run[k].pc \in {"policy", "script", "done"} THEN "dead" ELSE run[k].pc
           o == IF run[k].pc \in {"policy", "script", "done"} THEN "failed" ELSE run[k].outcome
           l == IF run[k].log = "sent" THEN "lost" ELSE run[k].log
           v == [run[k] EXCEPT !.pc = c, !.granted = FALSE, !.outcome = o, !.log = l]
<1>2. run'[k] = v
  BY DEF CrashAgent
<1>3. /\ c \in {"none", "dead", "told"} /\ (c = "none" <=> run[k].pc = "none") /\ (c = "told" <=> run[k].pc = "told")
      /\ o \in {"none", "blocked", "succeeded", "failed"} /\ l \in {"none", "dropped", "sent", "stored", "lost"}
  BY <1>1 DEF RunRecords
<1> HIDE DEF c, o, l
<1>4. v \in RunRecords(registered) /\ v.pc = c /\ v.mount = run[k].mount
  BY <1>1, <1>3 DEF RunRecords
<1> HIDE DEF v
<1> QED BY <1>2, <1>3, <1>4

-----------------------------------------------------------------------------
(* Executions and the tab. *)

\* An event goes between those that are there.
LEMMA InsertedTypes ==
  ASSUME NEW S, NEW s \in Seq(S), NEW e \in S, NEW at \in 1..(Len(s) + 1)
  PROVE  InsertAt(s, at, e) \in Seq(S)
<1>1. /\ SubSeq(s, 1, at - 1) \in Seq(S)
      /\ SubSeq(s, at, Len(s)) \in Seq(S)
  BY LenProperties, SubSeqProperties
<1>2. <<e>> \in Seq(S)
  OBVIOUS
<1> QED BY <1>1, <1>2, ConcatProperties DEF InsertAt

LEMMA RepeatedTypes ==
  ASSUME NEW S, NEW e \in S, NEW n \in Nat
  PROVE  [i \in 1..n |-> e] \in Seq(S)
OBVIOUS

LEMMA EventTypesNext ==
  ASSUME AgentTypes, RunTypes, EventTypes, Next
  PROVE  EventTypes'
<1> USE DEF EventTypes
<1>0. Len(events) \in Nat /\ registered \in Devices /\ credentials \in 0..registered
      /\ 0..registered \subseteq {None} \cup Devices
  BY LenProperties, ConsoleAssumption DEF AgentTypes, Devices, None
<1>1. ASSUME NEW k \in Runs, EventPosted(k) PROVE EventTypes'
  <2> DEFINE e == [about |-> k, under |-> run[k].under,
                   kind |-> IF run[k].feature = "Self-Healing" THEN "remediation" ELSE "other"]
  <2>1. CASE UNCHANGED events
    BY <2>1
  <2>2. CASE \E at \in {Len(events), Len(events) + 1} \ {0} : events' = InsertAt(events, at, e)
    <3>1. run[k].under \in 0..registered /\ k \in 0..MaxRuns
      BY ConsoleAssumption DEF RunTypes, RunRecords, Runs
    <3>2. e \in EventRecords
      BY <1>0, <3>1 DEF EventRecords
    <3> HIDE DEF e
    <3>3. PICK at \in {Len(events), Len(events) + 1} \ {0} : events' = InsertAt(events, at, e)
      BY <2>2
    <3>4. at \in 1..(Len(events) + 1)
      BY <1>0
    <3> QED BY <3>2, <3>3, <3>4, InsertedTypes
  <2> QED BY <1>1, <2>1, <2>2 DEF EventPosted
<1>2. ASSUME OtherEvents PROVE EventTypes'
  <2>1. PICK kind \in {"remediation", "other"}, n \in 1..MaxOthers :
          events' = events \o [i \in 1..n |-> [about |-> None, under |-> credentials, kind |-> kind]]
    BY <1>2 DEF OtherEvents
  <2>2. [about |-> None, under |-> credentials, kind |-> kind] \in EventRecords
    BY <1>0, ConsoleAssumption DEF EventRecords, None
  <2>3. n \in Nat
    BY ConsoleAssumption
  <2>4. [i \in 1..n |-> [about |-> None, under |-> credentials, kind |-> kind]] \in Seq(EventRecords)
    BY <2>2, <2>3, RepeatedTypes
  <2> QED BY <2>1, <2>4, ConcatProperties
<1>3. ASSUME NEW p, ChangePlan(p) PROVE UNCHANGED events
  BY <1>3 DEF ChangePlan
<1>4. ASSUME Enrol \/ Remediate PROVE UNCHANGED events
  BY <1>4 DEF Enrol, Remediate, RemoteCommand, RunNow
<1>5. ASSUME NEW k \in Runs, PolicyAnswer(k) \/ ScriptEnds(k) \/ RunAnswered(k) PROVE UNCHANGED events
  BY <1>5 DEF PolicyAnswer, ScriptEnds, RunAnswered
<1>6. ASSUME OpenTab \/ LeaveTab \/ TabSteps \/ AskApproval PROVE UNCHANGED events
  BY <1>6 DEF OpenTab, LeaveTab, TabSteps, GateAnswered, PollEvents, AskApproval, CheckStatus, RequestApproval
<1>7. ASSUME NEW r \in Requests, Decide(r) \/ ApprovalSteps(r) PROVE UNCHANGED events
  BY <1>7 DEF Decide, ApprovalSteps, RequestReaches, RequestAnswered, StatusFetched, Verified, CheckAnswered
<1>8. ASSUME Reload \/ RestartPage \/ CrashAgent PROVE UNCHANGED events
  BY <1>8 DEF Reload, RestartPage, PageStarts, CrashAgent
<1> QED BY <1>1, <1>2, <1>3, <1>4, <1>5, <1>6, <1>7, <1>8 DEF Next, RunSteps

LEMMA PanelTypesNext ==
  ASSUME PanelTypes, AgentTypes, EventTypes, Next
  PROVE  PanelTypes' /\ mounts <= mounts'
<1> USE ConsoleAssumption DEF PanelTypes, panelVars
<1>0. mounts \in Nat /\ None = 0
  BY DEF None
<1>1. CASE UNCHANGED panelVars
  BY <1>0, <1>1
<1>2. ASSUME NEW p, ChangePlan(p) PROVE UNCHANGED panelVars
  BY <1>2 DEF ChangePlan
<1>3. ASSUME Enrol \/ OtherEvents \/ AskApproval \/ CrashAgent PROVE UNCHANGED panelVars
  BY <1>3 DEF Enrol, OtherEvents, AskApproval, CheckStatus, RequestApproval, CrashAgent
<1>4. ASSUME NEW r \in Requests, Decide(r) \/ ApprovalSteps(r) PROVE UNCHANGED panelVars
  BY <1>4 DEF Decide, ApprovalSteps, RequestReaches, RequestAnswered, StatusFetched, Verified, CheckAnswered
<1>5. ASSUME Remediate PROVE PanelTypes' /\ mounts <= mounts'
  BY <1>0, <1>5 DEF Remediate, RemoteCommand, RunNow
<1>6. ASSUME RunSteps PROVE PanelTypes' /\ mounts <= mounts'
  BY <1>0, <1>6 DEF RunSteps, PolicyAnswer, ScriptEnds, EventPosted, RunAnswered
<1>7. ASSUME OpenTab PROVE PanelTypes' /\ mounts <= mounts'
  BY <1>0, <1>7 DEF OpenTab
<1>8. ASSUME LeaveTab \/ Reload \/ RestartPage PROVE PanelTypes' /\ mounts <= mounts'
  BY <1>0, <1>8 DEF LeaveTab, Reload, RestartPage, PageStarts
<1>9. ASSUME TabSteps PROVE PanelTypes' /\ mounts <= mounts'
  <2>1. Attempts \subseteq Runs
    <3>1. \A i \in DOMAIN events : events[i] \in EventRecords
      BY LenProperties DEF EventTypes
    <3>2. \A i \in DOMAIN events : events[i].about \in 0..MaxRuns
      BY <3>1 DEF EventRecords
    <3>3. \A a \in Attempts : a # None /\ \E i \in DOMAIN events : a = events[i].about
      BY DEF Attempts, Remediations
    <3> QED BY <3>2, <3>3 DEF Runs, None
  <2> HIDE DEF PanelTypes
  <2>2. CASE GateAnswered
    BY <2>2, <1>0 DEF GateAnswered, PanelTypes
  <2>3. CASE PollEvents
    BY <2>1, <2>3, <1>0 DEF PollEvents, PanelTypes
  <2> QED BY <1>9, <2>2, <2>3 DEF TabSteps
<1> QED BY <1>1, <1>2, <1>3, <1>4, <1>5, <1>6, <1>7, <1>8, <1>9 DEF Next

\* Who starts an execution, and from where.
LEMMA RemediateMakes ==
  ASSUME AgentTypes, PanelTypes, RunTypes, Remediate
  PROVE  /\ UNCHANGED <<plan, agentVars, panel, mounts, approvalVars, faults>>
         /\ \E k \in Runs, f \in Features, m \in 0..MaxMounts :
              /\ Take(k, f, m)
              /\ \/ m = None /\ UNCHANGED shown
                 \/ m = panel /\ panel # None /\ shown # "running" /\ shown' = "running"
<1>1. "Self-Healing" \in Features /\ 0 \in 0..MaxMounts /\ panel \in 0..MaxMounts
  BY ConsoleAssumption DEF PanelTypes
<1>2. ASSUME NEW k \in Runs, NEW f \in Features, RemoteCommand(k, f)
      PROVE  Take(k, f, None) /\ UNCHANGED <<plan, agentVars, panel, mounts, approvalVars, faults, shown>>
  BY <1>2 DEF RemoteCommand, panelVars
<1>3. ASSUME NEW k \in Runs, RunNow(k)
      PROVE  /\ Take(k, "Self-Healing", panel) /\ UNCHANGED <<plan, agentVars, panel, mounts, approvalVars, faults>>
             /\ panel # None /\ shown # "running" /\ shown' = "running"
  BY <1>3 DEF RunNow
<1> QED BY <1>1, <1>2, <1>3 DEF Remediate, None

\* What an answer does to the button.
LEMMA RunStepsMake ==
  ASSUME RunSteps
  PROVE  /\ UNCHANGED <<plan, agentVars, panel, mounts, approvalVars>>
         /\ \E k \in Runs : \/ (PolicyAnswer(k) \/ ScriptEnds(k) \/ EventPosted(k)) /\ UNCHANGED shown
                            \/ RunAnswered(k)
BY DEF RunSteps, PolicyAnswer, ScriptEnds, EventPosted, RunAnswered, panelVars

LEMMA RunTypesNext ==
  ASSUME AgentTypes, PanelTypes, RunTypes, DeviceHolds, ChecksHold, Next
  PROVE  RunTypes'
<1>0. registered \in Nat /\ registered' \in {registered, registered + 1}
  BY AgentTypesNext DEF AgentTypes, Devices
<1>w. RunRecords(registered) \subseteq RunRecords(registered')
  BY <1>0 DEF RunRecords
<1>s. run' \in [Runs -> RunRecords(registered)] => RunTypes'
  BY <1>w DEF RunTypes
<1>o. ASSUME NEW k \in Runs, Only(k) PROVE RunTypes'
  BY <1>o, <1>s DEF Only
<1>1. CASE UNCHANGED run
  BY <1>1, <1>s DEF RunTypes
<1>2. ASSUME NEW p \in SUBSET Features, ChangePlan(p) PROVE RunTypes'
  <2>1. \A k \in Runs : run'[k] \in RunRecords(registered)
    BY <1>2, ChangePlanMakes
  <2>2. \E v \in [Runs -> RunRecords(registered)] : run' = v
    <3>1. run' = [k \in Runs |-> run'[k]]
      BY <1>2 DEF ChangePlan
    <3> QED BY <2>1, <3>1
  <2> QED BY <2>2, <1>s
<1>3. ASSUME Remediate PROVE RunTypes'
  BY <1>3, <1>o, RemediateMakes, TakeMakes
<1>4. ASSUME RunSteps PROVE RunTypes'
  BY <1>4, <1>o, PolicyAnswerMakes, ScriptEndsMakes, EventPostedMakes, RunAnsweredMakes DEF RunSteps
<1>5. ASSUME CrashAgent PROVE RunTypes'
  <2>1. \A k \in Runs : run'[k] \in RunRecords(registered)
    BY <1>5, CrashMakes
  <2>2. run' = [k \in Runs |-> run'[k]]
    BY <1>5 DEF CrashAgent
  <2> QED BY <2>1, <2>2, <1>s
<1>6. ASSUME OpenTab \/ LeaveTab \/ Reload \/ RestartPage PROVE UNCHANGED run
  BY <1>6 DEF OpenTab, LeaveTab, Reload, RestartPage, PageStarts
<1> QED BY <1>1, <1>2, <1>3, <1>4, <1>5, <1>6, RunChanges

\* What is true of one execution.
RunIsHonest(k) ==
  /\ run[k].pc = "script" => run[k].granted
  /\ run[k].outcome \in {"succeeded", "failed"} /\ run[k].log = "dropped" => executed # {} \/ faults > 0

LEMMA HonestRuns == ScriptsWerePermitted /\ ExecutedIsLogged <=> \A k \in Runs : RunIsHonest(k)
BY DEF ScriptsWerePermitted, ExecutedIsLogged, RunIsHonest
LEMMA HonestRunsPrimed ==
  ASSUME \A k \in Runs : RunIsHonest(k)' PROVE ScriptsWerePermitted' /\ ExecutedIsLogged'
BY DEF ScriptsWerePermitted, ExecutedIsLogged, RunIsHonest

LEMMA RunsNext ==
  ASSUME AgentTypes, PanelTypes, EventTypes, RunTypes, DeviceHolds, ChecksHold, RunsHold,
         ScriptsWerePermitted, ExecutedIsLogged, Next
  PROVE  RunsHold' /\ ScriptsWerePermitted' /\ ExecutedIsLogged'
<1> SUFFICES ASSUME NEW k \in Runs PROVE RunHolds(k)' /\ RunIsHonest(k)'
  BY HonestRunsPrimed DEF RunsHold
<1>h. RunHolds(k) /\ RunIsHonest(k)
  BY HonestRuns DEF RunsHold
<1>t. run[k] \in RunRecords(registered) /\ run[k].mount \in Nat /\ mounts \in Nat /\ mounts' \in Nat
      /\ mounts <= mounts' /\ faults \in Nat /\ faults' \in Nat /\ faults <= faults' /\ None = 0
  BY PanelTypesNext, FaultsGrow DEF RunTypes, RunRecords, PanelTypes, AgentTypes, None
<1>m. executed \subseteq executed'
  BY AgentTypesNext
<1>l. executed # {} \/ faults > 0 => executed' # {} \/ faults' > 0
  BY <1>m, <1>t
<1>k. ASSUME run'[k] = run[k], UNCHANGED plan PROVE RunHolds(k)' /\ RunIsHonest(k)'
  BY <1>k, <1>h, <1>t, <1>l DEF RunHolds, RunIsHonest
<1>1. ASSUME UNCHANGED <<plan, run, panel, mounts, shown>> PROVE RunHolds(k)' /\ RunIsHonest(k)'
  BY <1>1, <1>k
<1>2. ASSUME NEW p \in SUBSET Features, ChangePlan(p) PROVE RunHolds(k)' /\ RunIsHonest(k)'
  <2>1. plan' = p
    BY <1>2 DEF ChangePlan
  <2> QED BY <1>2, <2>1, <1>h, <1>t, <1>l, ChangePlanMakes DEF RunHolds, RunIsHonest
<1>3. ASSUME Remediate PROVE RunHolds(k)' /\ RunIsHonest(k)'
  <2>1. PICK j \in Runs, f \in Features, m \in 0..MaxMounts : Take(j, f, m) /\ m \in {None, panel}
    BY <1>3, RemediateMakes
  <2>2. UNCHANGED <<plan, mounts>> /\ m <= mounts
    BY <1>3, <2>1, <1>t, RemediateMakes DEF PanelTypes
  <2>3. CASE j = k
    <3>1. /\ run'[k].mount = m /\ run'[k].pc \in {"policy", "done"} /\ run'[k].outcome \in {"none", "blocked"}
          /\ run'[k].pc = "policy" /\ run'[k].feature \in plan => run'[k].granted
      BY <2>1, <2>3, TakeMakes
    <3> QED BY <3>1, <2>2 DEF RunHolds, RunIsHonest
  <2>4. CASE j # k
    BY <1>k, <2>1, <2>2, <2>4, TakeMakes DEF Only
  <2> QED BY <2>3, <2>4
<1>4. ASSUME NEW j \in Runs, PolicyAnswer(j), UNCHANGED <<plan, mounts>> PROVE RunHolds(k)' /\ RunIsHonest(k)'
  <2>1. CASE j = k
    <3>1. /\ run[k].pc = "policy" /\ run'[k].mount = run[k].mount
          /\ \/ /\ run'[k].pc = "script" /\ run[k].feature \in plan /\ run'[k].granted = run[k].granted
                /\ run'[k].outcome = run[k].outcome /\ run'[k].log = run[k].log
             \/ run'[k].pc = "done" /\ run'[k].outcome = "blocked"
      BY <1>4, <2>1, PolicyAnswerMakes
    <3> QED BY <1>4, <3>1, <1>h, <1>t, <1>l DEF RunHolds, RunIsHonest
  <2>2. CASE j # k
    BY <1>4, <1>k, <2>2, PolicyAnswerMakes DEF Only
  <2> QED BY <2>1, <2>2
<1>5. ASSUME NEW j \in Runs, ScriptEnds(j), UNCHANGED <<plan, mounts>> PROVE RunHolds(k)' /\ RunIsHonest(k)'
  <2>1. CASE j = k
    <3>1. /\ run[k].pc = "script" /\ run'[k].mount = run[k].mount /\ run'[k].pc = "done"
          /\ run'[k].log = "dropped" => credentials = None
      BY <1>5, <2>1, ScriptEndsMakes
    <3>2. credentials = None => executed # {} \/ faults > 0
      BY DEF DeviceHolds
    <3> QED BY <1>5, <3>1, <3>2, <1>h, <1>t, <1>l DEF RunHolds, RunIsHonest
  <2>2. CASE j # k
    BY <1>5, <1>k, <2>2, ScriptEndsMakes DEF Only
  <2> QED BY <2>1, <2>2
<1>6. ASSUME NEW j \in Runs, EventPosted(j), UNCHANGED <<plan, mounts>> PROVE RunHolds(k)' /\ RunIsHonest(k)'
  <2>1. CASE j = k
    BY <1>6, <2>1, <1>h, <1>t, <1>l, EventPostedMakes DEF RunHolds, RunIsHonest
  <2>2. CASE j # k
    BY <1>6, <1>k, <2>2, EventPostedMakes DEF Only
  <2> QED BY <2>1, <2>2
<1>7. ASSUME NEW j \in Runs, RunAnswered(j), UNCHANGED <<plan, mounts>> PROVE RunHolds(k)' /\ RunIsHonest(k)'
  <2>1. CASE j = k
    BY <1>7, <2>1, <1>h, <1>t, <1>l, RunAnsweredMakes DEF RunHolds, RunIsHonest
  <2>2. CASE j # k
    BY <1>7, <1>k, <2>2, RunAnsweredMakes DEF Only
  <2> QED BY <2>1, <2>2
<1>8. ASSUME CrashAgent PROVE RunHolds(k)' /\ RunIsHonest(k)'
  <2>1. Fault /\ UNCHANGED <<plan, mounts>>
    BY <1>8 DEF CrashAgent, panelVars
  <2>2. faults' > 0
    BY <2>1, <1>t DEF Fault
  <2>3. /\ run'[k].pc \in {"none", "dead", "told"} /\ run'[k].mount = run[k].mount
        /\ run'[k].pc = "none" <=> run[k].pc = "none"
    BY <1>8, CrashMakes
  <2> QED BY <2>1, <2>2, <2>3, <1>h, <1>t DEF RunHolds, RunIsHonest
<1>9. ASSUME OpenTab \/ LeaveTab \/ Reload \/ RestartPage PROVE RunHolds(k)' /\ RunIsHonest(k)'
  <2>1. UNCHANGED <<plan, run>>
    BY <1>9 DEF OpenTab, LeaveTab, Reload, RestartPage, PageStarts
  <2> QED BY <2>1, <1>k
<1> QED BY <1>1, <1>2, <1>3, <1>4, <1>5, <1>6, <1>7, <1>8, <1>9, RunChanges, RunStepsMake

LEMMA TabNext ==
  ASSUME AgentTypes, PanelTypes, RunTypes, RunsHold, OneRunOut, RunningIsRunning, Next
  PROVE  RunningIsRunning' /\ OneRunOut'
<1>t. /\ \A k \in Runs : run[k] \in RunRecords(registered) /\ run[k].mount \in Nat /\ run[k].mount <= mounts
      /\ panel \in Nat /\ mounts \in Nat /\ panel <= mounts /\ None = 0
  BY DEF RunTypes, RunRecords, PanelTypes, RunsHold, RunHolds, None
\* No execution comes or goes.
<1>k. ASSUME panel' = panel, shown' = shown,
             \A k \in Runs : run'[k].mount = run[k].mount /\ (run'[k].pc = "told" <=> run[k].pc = "told")
      PROVE  RunningIsRunning' /\ OneRunOut'
  BY <1>k DEF RunningIsRunning, OneRunOut, OutOf
\* No tab, no button.
<1>c. ASSUME panel' = None, shown' = "idle" PROVE RunningIsRunning' /\ OneRunOut'
  BY <1>c DEF RunningIsRunning, OneRunOut
<1>1. ASSUME UNCHANGED <<plan, run, panel, mounts, shown>> PROVE RunningIsRunning' /\ OneRunOut'
  BY <1>1, <1>k
<1>2. ASSUME NEW p \in SUBSET Features, ChangePlan(p) PROVE RunningIsRunning' /\ OneRunOut'
  <2>1. panel' = panel /\ shown' = shown
    BY <1>2 DEF ChangePlan, panelVars
  <2> QED BY <1>2, <2>1, <1>k, ChangePlanMakes
<1>3. ASSUME Remediate PROVE RunningIsRunning' /\ OneRunOut'
  <2>1. PICK k \in Runs, f \in Features, m \in 0..MaxMounts :
          /\ Take(k, f, m)
          /\ \/ m = None /\ UNCHANGED shown
             \/ m = panel /\ panel # None /\ shown # "running" /\ shown' = "running"
    BY <1>3, RemediateMakes
  <2>2. panel' = panel
    BY <1>3, RemediateMakes
  <2>3. /\ run[k].pc = "none" /\ run'[k].mount = m /\ run'[k].pc # "told"
        /\ \A j \in Runs \ {k} : run'[j] = run[j]
    BY <2>1, TakeMakes DEF Only
  <2>4. run[k].mount = None
    BY <2>3 DEF RunsHold, RunHolds
  <2>5. CASE m = None /\ UNCHANGED shown
    <3>1. \A j \in Runs : run'[j].mount = run[j].mount /\ (run'[j].pc = "told" <=> run[j].pc = "told")
      BY <2>3, <2>4, <2>5
    <3> QED BY <2>2, <2>5, <3>1, <1>k
  <2>6. CASE m = panel /\ panel # None /\ shown # "running" /\ shown' = "running"
    <3>1. \A j \in Runs : ~OutOf(j)
      BY <2>6 DEF RunningIsRunning, OutOf
    <3>2. \A j \in Runs : OutOf(j)' => j = k
      BY <2>2, <2>3, <3>1 DEF OutOf
    <3>3. OutOf(k)'
      BY <2>2, <2>3, <2>6 DEF OutOf
    <3>4. OneRunOut'
      BY <3>2 DEF OneRunOut
    <3>5. RunningIsRunning'
      BY <2>2, <2>6, <3>3 DEF RunningIsRunning, OutOf
    <3> QED BY <3>4, <3>5
  <2> QED BY <2>1, <2>5, <2>6
<1>4. ASSUME NEW k \in Runs, PolicyAnswer(k) \/ ScriptEnds(k) \/ EventPosted(k), UNCHANGED <<panel, shown>>
      PROVE  RunningIsRunning' /\ OneRunOut'
  <2>1. /\ run'[k].mount = run[k].mount /\ (run'[k].pc = "told" <=> run[k].pc = "told")
        /\ \A j \in Runs \ {k} : run'[j] = run[j]
    BY <1>4, PolicyAnswerMakes, ScriptEndsMakes, EventPostedMakes DEF Only
  <2>2. \A j \in Runs : run'[j].mount = run[j].mount /\ (run'[j].pc = "told" <=> run[j].pc = "told")
    BY <2>1
  <2> QED BY <1>4, <2>2, <1>k
<1>5. ASSUME NEW k \in Runs, RunAnswered(k) PROVE RunningIsRunning' /\ OneRunOut'
  <2>1. /\ run[k].pc # "told" /\ run'[k].pc = "told" /\ run'[k].mount = run[k].mount
        /\ \A j \in Runs \ {k} : run'[j] = run[j]
    BY <1>5, RunAnsweredMakes DEF Only
  <2>2. panel' = panel
    BY <1>5 DEF RunAnswered
  <2>3. \A j \in Runs : OutOf(j)' <=> (OutOf(j) /\ j # k)
    BY <2>1, <2>2 DEF OutOf
  <2>4. OneRunOut'
    BY <2>2, <2>3 DEF OneRunOut
  <2>5. CASE OfThisMount(k)
    <3>1. OutOf(k) /\ panel # None
      BY <2>1, <2>5 DEF OfThisMount, OutOf
    <3>2. \A j \in Runs : ~OutOf(j)'
      BY <2>3, <3>1 DEF OneRunOut
    <3>3. shown' # "running"
      BY <1>5, <2>5 DEF RunAnswered
    <3> QED BY <2>4, <3>2, <3>3 DEF RunningIsRunning, OutOf
  <2>6. CASE ~OfThisMount(k)
    <3>1. panel # None => ~OutOf(k)
      BY <2>6 DEF OfThisMount, OutOf
    <3>2. panel # None => \A j \in Runs : OutOf(j)' <=> OutOf(j)
      BY <2>3, <3>1
    <3>3. shown' = shown
      BY <1>5, <2>6 DEF RunAnswered
    <3>4. RunningIsRunning <=> ((shown = "running") <=> (panel # None /\ \E j \in Runs : OutOf(j)))
      BY DEF RunningIsRunning, OutOf
    <3>5. RunningIsRunning' <=> ((shown' = "running") <=> (panel' # None /\ \E j \in Runs : OutOf(j)'))
      BY DEF RunningIsRunning, OutOf
    <3> QED BY <2>2, <2>4, <3>2, <3>3, <3>4, <3>5
  <2> QED BY <2>5, <2>6
<1>6. ASSUME OpenTab PROVE RunningIsRunning' /\ OneRunOut'
  <2>1. panel' = mounts + 1 /\ shown' = "idle" /\ run' = run
    BY <1>6 DEF OpenTab
  <2>2. \A j \in Runs : ~OutOf(j)'
    BY <2>1, <1>t DEF OutOf
  <2> QED BY <2>1, <2>2 DEF RunningIsRunning, OneRunOut, OutOf
<1>7. ASSUME LeaveTab \/ Reload \/ RestartPage PROVE RunningIsRunning' /\ OneRunOut'
  <2>1. panel' = None /\ shown' = "idle"
    BY <1>7 DEF LeaveTab, Reload, RestartPage, PageStarts
  <2> QED BY <2>1, <1>c
<1>8. ASSUME CrashAgent PROVE RunningIsRunning' /\ OneRunOut'
  <2>1. panel' = panel /\ shown' = shown
    BY <1>8 DEF CrashAgent, panelVars
  <2> QED BY <1>8, <2>1, <1>k, CrashMakes
<1> QED BY <1>1, <1>2, <1>3, <1>4, <1>5, <1>6, <1>7, <1>8, RunChanges, RunStepsMake

-----------------------------------------------------------------------------
(* The invariant. *)

LEMMA HoldsInit == Init => Holds
<1> SUFFICES ASSUME Init PROVE Holds
  OBVIOUS
<1> USE ConsoleAssumption DEF Init
<1>0. /\ NoRun \in RunRecords(1) /\ NoRow \in RowRecords(1) /\ NoCheck \in CheckRecords(1) /\ Idle \in UiRecords
      /\ registered = 1 /\ executed = {} /\ 1 \in Devices /\ None = 0 /\ 0 \in 0..MaxMounts /\ 0 \in 0..MaxFaults
  BY DEF NoRun, NoRow, NoCheck, Idle, RunRecords, RowRecords, CheckRecords, UiRecords, None, HighImpactActions, Devices
<1>1. RunTypes /\ RowTypes /\ CheckTypes /\ UiTypes
  BY <1>0 DEF RunTypes, RowTypes, CheckTypes, UiTypes
<1>2. AgentTypes /\ PanelTypes /\ EventTypes /\ PageTypes
  <2>1. AgentTypes
    <3>1. plan \subseteq Features /\ stored = 1 /\ credentials = 1 /\ faults = 0 /\ 1 \in 0..1
      OBVIOUS
    <3> QED BY <1>0, <3>1 DEF AgentTypes
  <2>2. PanelTypes
    BY <1>0 DEF PanelTypes
  <2>3. PageTypes
    BY DEF PageTypes
  <2>4. EventTypes
    BY DEF EventTypes
  <2> QED BY <2>1, <2>2, <2>3, <2>4
<1>3. DeviceHolds
  BY <1>0, FS_EmptySet DEF DeviceHolds, Gone
<1>4. ChecksHold
  BY <1>0 DEF ChecksHold, CheckHolds, NoCheck
<1>5. RequestsKnown /\ PhaseIsOfItsRequest
  BY DEF RequestsKnown, PhaseIsOfItsRequest, Idle
<1>6. RunsHold
  BY <1>0 DEF RunsHold, RunHolds, NoRun
<1>7. OneRunOut /\ RunningIsRunning
  BY DEF OneRunOut, RunningIsRunning
<1>8. ScriptsWerePermitted /\ ExecutedIsLogged
  BY DEF ScriptsWerePermitted, ExecutedIsLogged, NoRun
<1>9. StorageGoesWithReset
  BY DEF StorageGoesWithReset
<1> QED BY <1>1, <1>2, <1>3, <1>4, <1>5, <1>6, <1>7, <1>8, <1>9, TypesInParts DEF Holds, ActionsAreHonest

LEMMA HoldsNext == Holds /\ [Next]_vars => Holds'
<1> SUFFICES ASSUME Holds, [Next]_vars PROVE Holds'
  OBVIOUS
<1>1. CASE Next
  <2>0. /\ AgentTypes /\ PanelTypes /\ EventTypes /\ PageTypes /\ RunTypes /\ RowTypes /\ UiTypes /\ CheckTypes
        /\ DeviceHolds /\ ChecksHold /\ RequestsKnown /\ RunsHold /\ OneRunOut
        /\ ScriptsWerePermitted /\ RunningIsRunning /\ ExecutedIsLogged
        /\ PhaseIsOfItsRequest /\ StorageGoesWithReset
    BY TypesInParts DEF Holds, ActionsAreHonest
  <2>1. AgentTypes'
    BY <1>1, <2>0, AgentTypesNext
  <2>2. DeviceHolds'
    BY <1>1, <2>0, DeviceHoldsNext
  <2>3. RowTypes' /\ UiTypes' /\ CheckTypes'
    BY <1>1, <2>0, RowTypesNext, UiTypesNext, CheckTypesNext
  <2>4. PanelTypes' /\ EventTypes' /\ RunTypes'
    BY <1>1, <2>0, PanelTypesNext, EventTypesNext, RunTypesNext
  <2>5. PageTypes' /\ StorageGoesWithReset'
    BY <1>1, <2>0, StorageNext
  <2>6. ChecksHold' /\ RequestsKnown' /\ PhaseIsOfItsRequest'
    BY <1>1, <2>0, ChecksHoldNext, RequestsKnownNext, PhasesNext
  <2>7. RunsHold' /\ ScriptsWerePermitted' /\ ExecutedIsLogged'
    BY <1>1, <2>0, RunsNext
  <2>8. RunningIsRunning' /\ OneRunOut'
    BY <1>1, <2>0, TabNext
  <2>9. TypeOK'
    BY <2>1, <2>3, <2>4, <2>5, TypesInPartsPrimed
  <2> QED BY <2>2, <2>5, <2>6, <2>7, <2>8, <2>9 DEF Holds, ActionsAreHonest
<1>2. CASE UNCHANGED vars
  BY <1>2 DEF vars, agentVars, panelVars, approvalVars, Holds, TypeOK, DeviceHolds, Gone, ChecksHold, CheckHolds,
     RequestsKnown, RunsHold, RunHolds, OneRunOut, OutOf, ActionsAreHonest, ScriptsWerePermitted, RunningIsRunning,
     ExecutedIsLogged, PhaseIsOfItsRequest, StorageGoesWithReset, Devices, Requests, Runs, HighImpactActions, None
<1> QED BY <1>1, <1>2

\* Every variable keeps its type; so the agent is registered at most once more than
\* there are requests, for only an executed request makes it register again.
THEOREM ConsoleTypes == Spec => []TypeOK
<1>1. Holds => TypeOK
  BY DEF Holds
<1> QED BY HoldsInit, HoldsNext, <1>1, PTL DEF Spec

\* Scripts run only with a permission of their own, the button says "Running…"
\* exactly while a run of its mount is out, what ran left its event, the phase beside
\* a request is one it reached, and the storage goes only with an executed full
\* reset: whatever answers cross and whatever fails.
THEOREM ConsoleIsHonest == Spec => []ActionsAreHonest
<1>1. Holds => ActionsAreHonest
  BY DEF Holds
<1> QED BY HoldsInit, HoldsNext, <1>1, PTL DEF Spec

-----------------------------------------------------------------------------
(* The cards: the largest and the smallest of some readings. *)

LEMMA HaveExtremes ==
  ASSUME NEW S \in SUBSET Int, IsFiniteSet(S), S # {}
  PROVE  \E lo, hi \in S : \A x \in S : lo <= x /\ x <= hi
<1> DEFINE Bounded(T) == \E lo, hi \in T : \A x \in T : lo <= x /\ x <= hi
           Bad(n) == \E T \in SUBSET Int : IsFiniteSet(T) /\ T # {} /\ Cardinality(T) = n /\ ~Bounded(T)
           Less == {p \in Nat \X Nat : p[1] < p[2]}
           Sizes == {n \in Nat : Bad(n)}
<1>1. IsWellFoundedOn(Less, Nat)
  BY NatLessThanWellFounded DEF OpToRel
<1> HIDE DEF Less
<1>2. Sizes = {}
  <2> SUFFICES ASSUME Sizes # {} PROVE FALSE
    OBVIOUS
  <2>1. PICK n \in Sizes : \A m \in Sizes : ~(<<m, n>> \in Less)
    BY <1>1, WFMin
  <2>2. PICK T \in SUBSET Int : IsFiniteSet(T) /\ T # {} /\ Cardinality(T) = n /\ ~Bounded(T)
    BY <2>1
  <2>3. PICK x \in T : TRUE
    BY <2>2
  <2>4. IsFiniteSet(T \ {x}) /\ Cardinality(T \ {x}) = n - 1 /\ n - 1 \in Nat
    <3>1. IsFiniteSet(T \ {x}) /\ Cardinality(T \ {x}) = n - 1
      BY <2>2, <2>3, FS_RemoveElement
    <3>2. Cardinality(T \ {x}) \in Nat
      BY <3>1, FS_CardinalityType
    <3> QED
      BY <3>1, <3>2
  <2>5. <<n - 1, n>> \in Less
    BY <2>1, <2>4 DEF Less
  <2>6. ~Bad(n - 1)
    BY <2>1, <2>4, <2>5
  <2>7. CASE T \ {x} = {}
    <3>1. T = {x} /\ x \in Int
      BY <2>2, <2>3, <2>7
    <3> QED
      BY <2>2, <3>1
  <2>8. CASE T \ {x} # {}
    <3>1. Bounded(T \ {x})
      BY <2>2, <2>4, <2>6, <2>8
    <3>2. PICK lo \in T \ {x}, hi \in T \ {x} : \A y \in T \ {x} : lo <= y /\ y <= hi
      BY <3>1
    <3>3. lo \in Int /\ hi \in Int /\ x \in Int
      BY <2>2, <2>3, <3>2
    <3> DEFINE least == IF x < lo THEN x ELSE lo
               most == IF x > hi THEN x ELSE hi
    <3>4. least \in T /\ most \in T
      BY <2>3, <3>2
    <3>5. \A y \in T : least <= y /\ y <= most
      <4> TAKE y \in T
      <4>1. y \in Int /\ (y = x \/ (lo <= y /\ y <= hi))
        BY <2>2, <3>2
      <4> QED
        BY <3>3, <4>1
    <3> HIDE DEF least, most
    <3> QED
      BY <2>2, <3>4, <3>5
  <2> QED
    BY <2>7, <2>8
<1>3. Cardinality(S) \in Nat
  BY FS_CardinalityType
<1>4. ~Bad(Cardinality(S))
  BY <1>2, <1>3
<1> QED
  BY <1>4

LEMMA MaxOf ==
  ASSUME NEW S \in SUBSET Int, IsFiniteSet(S), S # {}
  PROVE  Max(S) \in S /\ \A x \in S : x <= Max(S)
<1>1. PICK hi \in S : \A x \in S : x <= hi
  BY HaveExtremes
<1>2. \A x \in S : hi >= x
  BY <1>1
<1>3. Max(S) \in S /\ \A x \in S : Max(S) >= x
  BY <1>2 DEF Max
<1> QED
  BY <1>3

LEMMA MinOf ==
  ASSUME NEW S \in SUBSET Int, IsFiniteSet(S), S # {}
  PROVE  Min(S) \in S /\ \A x \in S : Min(S) <= x
<1>1. PICK lo \in S : \A x \in S : lo <= x
  BY HaveExtremes
<1> QED
  BY <1>1 DEF Min

LEMMA MaxOfTwo ==
  ASSUME NEW a \in Int, NEW b \in Int
  PROVE  Max({a, b}) = IF a >= b THEN a ELSE b
<1>1. Max({a, b}) \in {a, b} /\ \A x \in {a, b} : Max({a, b}) >= x
  <2>1. \E m \in {a, b} : \A x \in {a, b} : m >= x
    OBVIOUS
  <2> QED
    BY <2>1 DEF Max
<1> QED
  BY <1>1


-----------------------------------------------------------------------------
(* The cards: the readings and the scores. *)

Kept == data \in Snapshots \cup {Null} /\ connected \in BOOLEAN /\ thresholds \in ThresholdSets

LEMMA LiveTypes ==
  ASSUME Kept
  PROVE  /\ \A f \in Amounts : Live(f) \in Nat \cup {Null}
         /\ \A f \in Sensors \cup {"zone", "margin"} : Live(f) \in Int \cup {Null}
         /\ \A f \in Flags : Live(f) \in BOOLEAN \cup {Null}
  BY ReadingsAssumption DEF Kept, Live, Real

\* Rounding to a percent does not carry a reading below a line it is above.
LEMMA RoundedTypes ==
  ASSUME NEW v \in Nat
  PROVE  /\ Round(v, 10) \in Nat
         /\ \A k \in Int : v > 10 * k => Round(v, 10) >= k
  BY DEF Round

LEMMA MemoryTypes ==
  ASSUME Kept
  PROVE  /\ Live("mem") \in Nat \cup {Null}
         /\ getMemUsedPercent \in Nat \cup {Null}
         /\ Real(getMemUsedPercent) <=> Real(Live("mem"))
         /\ Real(Live("mem")) => getMemUsedPercent = Round(Live("mem"), 10)
<1>1. Live("mem") \in Nat \cup {Null}
  BY LiveTypes DEF Amounts
<1>2. CASE ~Real(Live("mem"))
  BY <1>1, <1>2 DEF getMemUsedPercent, Real
<1>3. CASE Real(Live("mem"))
  <2>1. Live("mem") \in Nat
    BY <1>1, <1>3 DEF Real
  <2>2. getMemUsedPercent = Round(Live("mem"), 10) /\ getMemUsedPercent \in Nat
    BY <1>3, <2>1, RoundedTypes DEF getMemUsedPercent
  <2> QED
    BY <1>1, <1>3, <2>2, NullAssumption DEF Real
<1> QED
  BY <1>2, <1>3

LEMMA HealthTypes ==
  ASSUME Kept
  PROVE  getBatteryHealthPercent \in Nat \cup {Null}
<1> DEFINE values == <<Live("wmi"), Live("report"), Live("lhm")>>
           real == {i \in DOMAIN values : Real(values[i])}
<1>1. \A i \in 1..3 : values[i] \in Nat \cup {Null}
  BY LiveTypes DEF Amounts
<1>2. DOMAIN values = 1..3 /\ real \subseteq 1..3
  OBVIOUS
<1>3. getBatteryHealthPercent = IF real = {} THEN Null ELSE values[Min(real)]
  BY DEF getBatteryHealthPercent, FirstReal
<1> HIDE DEF values
<1>4. real # {} => Min(real) \in real
  <2>1. IsFiniteSet(1..3)
    <3>1. 1 \in Int /\ 3 \in Int
      OBVIOUS
    <3> QED
      BY <3>1, FS_Interval
  <2>2. IsFiniteSet(real)
    BY <1>2, <2>1, FS_Subset
  <2>3. real \in SUBSET Int
    <3>1. 1..3 \subseteq Int
      OBVIOUS
    <3> QED
      BY <1>2, <3>1
  <2> HIDE DEF real
  <2> QED
    BY <2>2, <2>3, MinOf
<1> HIDE DEF real
<1> QED
  BY <1>1, <1>2, <1>3, <1>4

LEMMA PerformanceTypes ==
  ASSUME Kept
  PROVE  /\ getPerformanceScore \in 0..100 \cup {Null}
         /\ Real(getPerformanceScore) <=> Real(getCpuLoad) /\ Real(getMemUsedPercent)
<1>1. getCpuLoad \in Nat \cup {Null} /\ getMemUsedPercent \in Nat \cup {Null}
  BY LiveTypes, MemoryTypes DEF getCpuLoad, Amounts
<1>2. CASE ~Real(getCpuLoad) \/ ~Real(getMemUsedPercent)
  BY <1>2 DEF getPerformanceScore, Real
<1>3. CASE Real(getCpuLoad) /\ Real(getMemUsedPercent)
  <2> DEFINE load == getCpuLoad
             mem == getMemUsedPercent
             penalty == (Excess(load) + Excess(mem)) \div 2
  <2>1. load \in Nat /\ mem \in Nat
    BY <1>1, <1>3 DEF Real
  <2> HIDE DEF load, mem
  <2>2. Excess(load) \in Nat /\ Excess(mem) \in Nat
    <3>1. load - 50 \in Int /\ mem - 50 \in Int
      BY <2>1
    <3>2. /\ Max({0, load - 50}) = IF 0 >= load - 50 THEN 0 ELSE load - 50
          /\ Max({0, mem - 50}) = IF 0 >= mem - 50 THEN 0 ELSE mem - 50
      BY <3>1, MaxOfTwo
    <3> QED
      BY <2>1, <3>2 DEF Excess
  <2>3. penalty \in Nat
    BY <2>2
  <2>4. getPerformanceScore = Max({0, 100 - penalty})
    BY <1>3 DEF getPerformanceScore, load, mem
  <2> HIDE DEF penalty
  <2>5. getPerformanceScore = IF 0 >= 100 - penalty THEN 0 ELSE 100 - penalty
    BY <2>3, <2>4, MaxOfTwo
  <2> QED
    BY <1>3, <2>3, <2>5, NullAssumption DEF Real
<1> QED
  BY <1>2, <1>3

-----------------------------------------------------------------------------
(* The cards: the security signals. *)
Known == {f \in Signals : Real(Live(f))}

LEMMA ThreePairs ==
  ASSUME NEW a, NEW b, NEW c
  PROVE  LET S == {<<"tpm", a>>, <<"secureBoot", b>>, <<"bitlocker", c>>}
         IN  IsFiniteSet(S) /\ Cardinality(S) = 3
<1> DEFINE p == <<"tpm", a>>
           q == <<"secureBoot", b>>
           r == <<"bitlocker", c>>
<1>1. p # q /\ p # r /\ q # r
  OBVIOUS
<1> HIDE DEF p, q, r
<1>2. IsFiniteSet({p}) /\ Cardinality({p}) = 1
  BY FS_Singleton
<1>3. q \notin {p} /\ r \notin {p} \cup {q}
  BY <1>1
<1>4. IsFiniteSet({p} \cup {q}) /\ Cardinality({p} \cup {q}) = 2
  BY <1>2, <1>3, FS_AddElement
<1>5. IsFiniteSet({p} \cup {q} \cup {r}) /\ Cardinality({p} \cup {q} \cup {r}) = 3
  BY <1>3, <1>4, FS_AddElement
<1>6. {p} \cup {q} \cup {r} = {p, q, r}
  OBVIOUS
<1> QED
  BY <1>5, <1>6 DEF p, q, r

LEMMA SecurityCounts ==
  ASSUME Kept
  PROVE  LET n == Cardinality(SecurityChecks)
             g == Cardinality({c \in SecurityChecks : c[2]})
         IN  /\ n \in 0..3 /\ g \in 0..n
             /\ n = 0 <=> Known = {}
             /\ SecurityChecks = {} <=> Known = {}
             /\ n = 3 <=> Known = Signals
             /\ g = n <=> \A f \in Known : InOrder(f)
<1> DEFINE S == {<<"tpm", InOrder("tpm")>>, <<"secureBoot", InOrder("secureBoot")>>, <<"bitlocker", InOrder("bitlocker")>>}
           good == {c \in SecurityChecks : c[2]}
<1>1. SecurityChecks = {<<f, InOrder(f)>> : f \in Known}
  BY DEF SecurityChecks, Known
<1>2. IsFiniteSet(S) /\ Cardinality(S) = 3
  BY ThreePairs
<1>3. SecurityChecks \subseteq S
  <2>1. \A f \in Known : <<f, InOrder(f)>> \in S
    BY DEF Known, Signals
  <2> QED
    BY <1>1, <2>1
<1>4. SecurityChecks = S <=> Known = Signals
  <2>1. ASSUME SecurityChecks = S, NEW f \in Signals PROVE f \in Known
    <3>1. <<f, InOrder(f)>> \in SecurityChecks
      BY <2>1 DEF Signals
    <3> QED
      BY <1>1, <3>1
  <2>2. Known = Signals => SecurityChecks = S
    BY <1>1 DEF Signals
  <2>3. Known \subseteq Signals
    BY DEF Known
  <2> QED
    BY <2>1, <2>2, <2>3
<1>5. SecurityChecks = {} <=> Known = {}
  BY <1>1
<1>6. good = SecurityChecks <=> \A f \in Known : InOrder(f)
  <2>1. \A f \in Known : <<f, InOrder(f)>> \in good <=> InOrder(f)
    BY <1>1
  <2>2. good = SecurityChecks <=> \A f \in Known : <<f, InOrder(f)>> \in good
    BY <1>1
  <2> QED
    BY <2>1, <2>2
<1>7. good \subseteq SecurityChecks
  OBVIOUS
<1> HIDE DEF S, good
<1>8. IsFiniteSet(SecurityChecks) /\ Cardinality(SecurityChecks) <= 3 /\ (Cardinality(SecurityChecks) = 3 => SecurityChecks = S)
  BY <1>2, <1>3, FS_Subset
<1>9. IsFiniteSet(good) /\ Cardinality(good) <= Cardinality(SecurityChecks) /\ (Cardinality(good) = Cardinality(SecurityChecks) => good = SecurityChecks)
  BY <1>7, <1>8, FS_Subset
<1>10. Cardinality(SecurityChecks) \in Nat /\ Cardinality(good) \in Nat /\ (Cardinality(SecurityChecks) = 0 <=> SecurityChecks = {})
  BY <1>8, <1>9, FS_CardinalityType, FS_EmptySet
<1>11. Cardinality(SecurityChecks) = 3 <=> Known = Signals
  BY <1>2, <1>4, <1>8
<1>12. Cardinality(good) = Cardinality(SecurityChecks) <=> \A f \in Known : InOrder(f)
  BY <1>6, <1>9
<1>13. Cardinality(SecurityChecks) \in 0..3 /\ Cardinality(good) \in 0..Cardinality(SecurityChecks)
  BY <1>8, <1>9, <1>10
<1> QED
  BY <1>5, <1>10, <1>11, <1>12, <1>13 DEF good

LEMMA SecurityScore ==
  ASSUME Kept
  PROVE  /\ getSecurityHealthPercent \in 0..100 \cup {Null}
         /\ Real(getSecurityHealthPercent) <=> Known # {}
         /\ getSecurityHealthPercent = 100 <=> Known # {} /\ \A f \in Known : InOrder(f)
         /\ Real(getSecurityHealthPercent) /\ (\E f \in Known : ~InOrder(f)) => getSecurityHealthPercent <= 67
<1> DEFINE n == Cardinality(SecurityChecks)
           g == Cardinality({c \in SecurityChecks : c[2]})
           pct == Round(100 * g, n)
           ok == \A f \in Known : InOrder(f)
<1>1. /\ n \in 0..3 /\ g \in 0..n
      /\ n = 0 <=> Known = {}
      /\ SecurityChecks = {} <=> Known = {}
      /\ g = n <=> ok
  BY SecurityCounts
<1>2. getSecurityHealthPercent = IF Known = {} THEN Null ELSE pct
  BY <1>1 DEF getSecurityHealthPercent
<1> HIDE DEF n, g, ok
<1>3. CASE Known = {}
  BY <1>2, <1>3, NullAssumption DEF Real
<1>4. CASE Known # {}
  <2>1. n \in 1..3 /\ g \in 0..n
    BY <1>1, <1>4
  <2>2. pct \in 0..100 /\ (pct = 100 <=> g = n) /\ (g # n => pct <= 67)
    <3>1. CASE n = 1
      BY <2>1, <3>1 DEF Round
    <3>2. CASE n = 2
      BY <2>1, <3>2 DEF Round
    <3>3. CASE n = 3
      BY <2>1, <3>3 DEF Round
    <3> QED
      BY <2>1, <3>1, <3>2, <3>3
  <2> HIDE DEF pct
  <2>3. getSecurityHealthPercent = pct /\ pct # Null
    BY <1>2, <1>4, <2>2, NullAssumption
  <2>4. (\E f \in Known : ~InOrder(f)) <=> ~ok
    BY DEF ok
  <2> QED
    BY <1>1, <1>4, <2>2, <2>3, <2>4 DEF Real, ok
<1> QED
  BY <1>3, <1>4


-----------------------------------------------------------------------------
(* The cards: the health score. *)

LEMMA ThreeAreFinite ==
  ASSUME NEW a, NEW b, NEW c
  PROVE  IsFiniteSet({a, b, c})
<1>1. IsFiniteSet({a})
  BY FS_Singleton
<1>2. IsFiniteSet({a} \cup {b})
  BY <1>1, FS_AddElement
<1>3. IsFiniteSet({a} \cup {b} \cup {c})
  BY <1>2, FS_AddElement
<1>4. {a} \cup {b} \cup {c} = {a, b, c}
  OBVIOUS
<1> QED
  BY <1>3, <1>4

LEMMA PartsCount ==
  /\ IsFiniteSet(RealSubs) /\ Cardinality(RealSubs) \in 0..3
  /\ Cardinality(RealSubs) = 0 <=> RealSubs = {}
<1> DEFINE a == <<"Performance", getPerformanceScore>>
           b == <<"Security", getSecurityHealthPercent>>
           c == <<"Battery", getBatteryHealthPercent>>
<1>1. a # b /\ a # c /\ b # c
  OBVIOUS
<1>2. SubScores = {a, b, c}
  BY DEF SubScores
<1> HIDE DEF a, b, c
<1>3. IsFiniteSet({a}) /\ Cardinality({a}) = 1
  BY FS_Singleton
<1>4. b \notin {a} /\ c \notin {a} \cup {b}
  BY <1>1
<1>5. IsFiniteSet({a} \cup {b}) /\ Cardinality({a} \cup {b}) = 2
  BY <1>3, <1>4, FS_AddElement
<1>6. IsFiniteSet({a} \cup {b} \cup {c}) /\ Cardinality({a} \cup {b} \cup {c}) = 3
  BY <1>4, <1>5, FS_AddElement
<1>7. {a} \cup {b} \cup {c} = SubScores
  BY <1>2
<1>8. RealSubs \subseteq SubScores
  BY DEF RealSubs
<1>9. IsFiniteSet(SubScores) /\ Cardinality(SubScores) = 3
  BY <1>6, <1>7
<1>10. IsFiniteSet(RealSubs) /\ Cardinality(RealSubs) <= 3
  BY <1>8, <1>9, FS_Subset
<1>11. Cardinality(RealSubs) \in Nat /\ (Cardinality(RealSubs) = 0 <=> RealSubs = {})
  BY <1>10, FS_CardinalityType, FS_EmptySet
<1> QED
  BY <1>10, <1>11

LEMMA ScoreTypes ==
  ASSUME Kept
  PROVE  ScoreToRecord \in Nat \cup {Null}
<1>1. CASE Cardinality(RealSubs) # 3
  BY <1>1 DEF ScoreToRecord
<1>2. CASE Cardinality(RealSubs) = 3
  <2> DEFINE sum == Points(getPerformanceScore) + Points(getSecurityHealthPercent) + Points(getBatteryHealthPercent)
  <2>1. ScoreToRecord = Round(sum, 3)
    <3>1. RealSubs # {}
      BY <1>2, PartsCount
    <3> QED
      BY <1>2, <3>1 DEF ScoreToRecord, HealthScore
  <2>2. sum \in Nat
    <3>1. Points(getPerformanceScore) \in Nat
      BY PerformanceTypes DEF Points, Real
    <3>2. Points(getSecurityHealthPercent) \in Nat
      BY SecurityScore DEF Points, Real
    <3>3. Points(getBatteryHealthPercent) \in Nat
      BY HealthTypes DEF Points, Real
    <3> QED
      BY <3>1, <3>2, <3>3
  <2> HIDE DEF sum
  <2> QED
    BY <2>1, <2>2 DEF Round
<1> QED
  BY <1>1, <1>2

-----------------------------------------------------------------------------
(* The cards: the history of the score. *)

Entries == [date : Days, value : Nat]
OnePerDay(history) == \A i, j \in DOMAIN history : history[i].date = history[j].date => i = j

LEMMA RecordedHistory ==
  ASSUME NEW h \in Seq(Entries), Len(h) <= MaxEntries, OnePerDay(h),
         NEW day \in Days, NEW v \in Nat \cup {Null}
  PROVE  LET recorded == recordIfNeeded(h, day, v)
         IN  /\ recorded \in Seq(Entries) /\ Len(recorded) <= MaxEntries /\ OnePerDay(recorded)
             /\ recorded # h =>
                  /\ Real(v) /\ \A i \in DOMAIN h : h[i].date # day
                  /\ recorded[Len(recorded)] = [date |-> day, value |-> v]
<1> DEFINE entry == [date |-> day, value |-> v]
           updated == Append(h, entry)
           from == Max({1, Len(updated) - MaxEntries + 1})
           held == SubSeq(updated, from, Len(updated))
<1>1. CASE ~Real(v) \/ \E i \in DOMAIN h : h[i].date = day
  BY <1>1 DEF recordIfNeeded
<1>2. CASE Real(v) /\ \A i \in DOMAIN h : h[i].date # day
  <2>1. recordIfNeeded(h, day, v) = held
    BY <1>2 DEF recordIfNeeded
  <2>2. entry \in Entries /\ entry.date = day
    BY <1>2 DEF Entries, Real
  <2> HIDE DEF entry
  <2>3. /\ updated \in Seq(Entries) /\ Len(updated) = Len(h) + 1
        /\ \A i \in 1..Len(h) : updated[i] = h[i]
        /\ updated[Len(h) + 1] = entry
    BY <2>2, AppendProperties
  <2>4. Len(h) \in Nat /\ DOMAIN h = 1..Len(h) /\ \A i \in 1..Len(h) : h[i] \in Entries
    BY LenProperties
  <2> HIDE DEF updated
  <2>5. from \in 1..Len(updated) /\ Len(updated) - from + 1 <= MaxEntries
    <3>1. Len(updated) \in Nat \ {0} /\ MaxEntries \in Nat \ {0} /\ Len(updated) <= MaxEntries + 1
      BY <2>3, <2>4, HistoryAssumption
    <3>2. from = IF 1 >= Len(updated) - MaxEntries + 1 THEN 1 ELSE Len(updated) - MaxEntries + 1
      BY <3>1, MaxOfTwo
    <3> QED
      BY <3>1, <3>2
  <2> HIDE DEF from
  <2>6. \A i \in 1..Len(updated) : updated[i] \in Entries
    BY <2>2, <2>3, <2>4
  <2>7. /\ held \in Seq(Entries) /\ Len(held) = Len(updated) - from + 1
        /\ \A i \in 1..(Len(updated) - from + 1) : held[i] = updated[from + i - 1]
    <3>1. from \in Int /\ Len(updated) \in Int /\ \A i \in from..Len(updated) : updated[i] \in Entries
      BY <2>3, <2>4, <2>5, <2>6
    <3> QED
      BY <2>5, <3>1, SubSeqProperties
  <2> HIDE DEF held
  <2>8. \A i, j \in 1..Len(updated) : updated[i].date = updated[j].date => i = j
    <3> TAKE i, j \in 1..Len(updated)
    <3>1. /\ i \in 1..Len(h) \/ i = Len(h) + 1
          /\ j \in 1..Len(h) \/ j = Len(h) + 1
      BY <2>3, <2>4
    <3>2. \A k \in 1..Len(h) : updated[k].date = h[k].date /\ h[k].date # day
      BY <1>2, <2>3, <2>4
    <3>3. updated[Len(h) + 1].date = day
      BY <2>2, <2>3
    <3>4. \A k, l \in 1..Len(h) : h[k].date = h[l].date => k = l
      BY <2>4 DEF OnePerDay
    <3> QED
      BY <3>1, <3>2, <3>3, <3>4
  <2>9. DOMAIN held = 1..Len(held)
    BY <2>7, LenProperties
  <2>10. OnePerDay(held)
    <3> SUFFICES ASSUME NEW i \in 1..Len(held), NEW j \in 1..Len(held), held[i].date = held[j].date
                 PROVE  i = j
      BY <2>9 DEF OnePerDay
    <3>1. held[i] = updated[from + i - 1] /\ held[j] = updated[from + j - 1]
      BY <2>7
    <3>2. from + i - 1 \in 1..Len(updated) /\ from + j - 1 \in 1..Len(updated)
      BY <2>3, <2>4, <2>5, <2>7
    <3>3. from + i - 1 = from + j - 1
      BY <2>8, <3>1, <3>2
    <3> QED
      BY <2>5, <3>3
  <2>11. held[Len(held)] = entry
    <3>1. Len(held) \in 1..(Len(updated) - from + 1) /\ from + Len(held) - 1 = Len(h) + 1
      BY <2>3, <2>4, <2>5, <2>7
    <3> QED
      BY <2>3, <2>7, <3>1
  <2>12. Len(held) <= MaxEntries
    BY <2>5, <2>7
  <2> QED
    BY <1>2, <2>1, <2>7, <2>10, <2>11, <2>12 DEF entry
<1> QED
  BY <1>1, <1>2


ScoreTyped == ScoreToRecord \in Nat \cup {Null}

LEMMA ScoreTypesNext == Kept' => ScoreTyped'
<1>1. Kept => ScoreTyped
  BY ScoreTypes DEF ScoreTyped
<1> QED
  BY <1>1, PTL

LEMMA HistoryTypes == DashboardSpec => []DashboardTypeOK
<1>1. DashboardInit => DashboardTypeOK
  <2> SUFFICES ASSUME DashboardInit PROVE DashboardTypeOK
    OBVIOUS
  <2>1. <<>> \in Seq([date : Days, value : Nat]) /\ Len(<<>>) = 0 /\ DOMAIN <<>> = {}
    OBVIOUS
  <2>2. /\ trend \in Seq([date : Days, value : Nat]) /\ Len(trend) <= MaxEntries
        /\ \A i, j \in DOMAIN trend : trend[i].date = trend[j].date => i = j
    <3>1. trend = <<>>
      BY DEF DashboardInit
    <3> QED
      BY <2>1, <3>1, HistoryAssumption
  <2>3. data \in Snapshots \cup {Null} /\ connected \in BOOLEAN /\ thresholds \in ThresholdSets /\ today \in Days
    BY DEF DashboardInit
  <2> QED
    BY <2>2, <2>3 DEF DashboardTypeOK
<1>2. DashboardTypeOK /\ [DashboardNext]_dashboardVars => DashboardTypeOK'
  <2> SUFFICES ASSUME DashboardTypeOK, [DashboardNext]_dashboardVars
               PROVE  DashboardTypeOK'
    OBVIOUS
  <2> USE DEF DashboardTypeOK
  <2>1. ASSUME data' \in Snapshots \cup {Null}, connected' \in BOOLEAN, UNCHANGED <<thresholds, today>>, Rendered
        PROVE  DashboardTypeOK'
    <3>1. ScoreToRecord' \in Nat \cup {Null}
      <4>1. Kept'
        BY <2>1 DEF Kept
      <4> QED
        BY <4>1, ScoreTypesNext DEF ScoreTyped
    <3> DEFINE recorded == recordIfNeeded(trend, today, ScoreToRecord')
    <3>2. recorded \in Seq(Entries) /\ Len(recorded) <= MaxEntries /\ OnePerDay(recorded)
      BY <3>1, RecordedHistory DEF OnePerDay, Entries
    <3>3. trend' \in {trend, recorded}
      BY <2>1 DEF Rendered
    <3> HIDE DEF recorded
    <3> QED
      BY <2>1, <3>2, <3>3 DEF OnePerDay, Entries
  <2>2. CASE Poll
    BY <2>1, <2>2 DEF Poll
  <2>3. CASE Disconnect
    BY <2>1, <2>3 DEF Disconnect
  <2>4. CASE Reopen
    BY <2>4 DEF Reopen
  <2>5. CASE EditThresholds
    BY <2>5 DEF EditThresholds
  <2>6. CASE DayChanges
    BY <2>6 DEF DayChanges
  <2>7. CASE UNCHANGED dashboardVars
    BY <2>7 DEF dashboardVars
  <2> QED
    BY <2>2, <2>3, <2>4, <2>5, <2>6, <2>7 DEF DashboardNext
<1> QED
  BY <1>1, <1>2, PTL DEF DashboardSpec

LEMMA DeltaIsOfTheWeek == DashboardTypeOK => DeltaWithinWeek
<1> SUFFICES ASSUME DashboardTypeOK, Real(computeScoreDelta(trend))
             PROVE  LET change == computeScoreDelta(trend)
                        latest == Max({trend[i].date : i \in DOMAIN trend})
                    IN  /\ change.daysAgo \in 0..7
                        /\ \E i, j \in DOMAIN trend :
                             /\ trend[i].date = latest /\ trend[j].date = latest - change.daysAgo
                             /\ change.delta = trend[i].value - trend[j].value
  BY DEF DeltaWithinWeek
<1> DEFINE dates == {trend[i].date : i \in DOMAIN trend}
           latest == Max(dates)
           baseline == Min(Window(dates, latest))
           at(d) == CHOOSE i \in DOMAIN trend : trend[i].date = d
<1>1. DOMAIN trend = 1..Len(trend) /\ Len(trend) \in Nat /\ \A i \in DOMAIN trend : trend[i].date \in Nat
  <2>1. trend \in Seq([date : Days, value : Nat])
    BY DEF DashboardTypeOK
  <2>2. DOMAIN trend = 1..Len(trend) /\ Len(trend) \in Nat /\ \A i \in 1..Len(trend) : trend[i] \in [date : Days, value : Nat]
    BY <2>1, LenProperties
  <2> QED
    BY <2>2, HistoryAssumption
<1>2. dates \in SUBSET Int
  BY <1>1
<1>3. IsFiniteSet(dates)
  <2> DEFINE f == [i \in 1..Len(trend) |-> trend[i].date]
  <2>1. f \in Surjection(1..Len(trend), dates)
    BY <1>1 DEF Surjection
  <2>2. IsFiniteSet(1..Len(trend))
    <3>1. 1 \in Int /\ Len(trend) \in Int
      BY <1>1
    <3> QED
      BY <3>1, FS_Interval
  <2> HIDE DEF f
  <2> QED
    BY <2>1, <2>2, FS_Surjection
<1>4. ~(Cardinality(dates) < 2)
  BY DEF computeScoreDelta, Real
<1>5. dates # {}
  BY <1>4, FS_EmptySet
<1>6. computeScoreDelta(trend) = [delta |-> trend[at(latest)].value - trend[at(baseline)].value, daysAgo |-> latest - baseline]
  BY <1>4 DEF computeScoreDelta
<1>7. \A d \in dates : at(d) \in DOMAIN trend /\ trend[at(d)].date = d
  OBVIOUS
<1> HIDE DEF dates
<1>8. latest \in dates /\ \A d \in dates : d <= latest
  BY <1>2, <1>3, <1>5, MaxOf
<1> HIDE DEF latest
<1>9. baseline \in Window(dates, latest)
  <2>1. Window(dates, latest) \subseteq dates
    BY DEF Window
  <2>2. latest \in Window(dates, latest)
    BY <1>2, <1>8 DEF Window
  <2>3. IsFiniteSet(Window(dates, latest))
    BY <1>3, <2>1, FS_Subset
  <2>4. Window(dates, latest) \in SUBSET Int
    BY <1>2, <2>1
  <2> QED
    BY <2>2, <2>3, <2>4, MinOf
<1> HIDE DEF baseline
<1>10. baseline \in dates /\ latest - baseline \in 0..7
  BY <1>2, <1>8, <1>9 DEF Window
<1>11. at(latest) \in DOMAIN trend /\ trend[at(latest)].date = latest
  BY <1>7, <1>8
<1>12. at(baseline) \in DOMAIN trend /\ trend[at(baseline)].date = baseline
  BY <1>7, <1>10
<1>13. baseline = latest - (latest - baseline)
  BY <1>2, <1>8, <1>10
<1> DEFINE i == at(latest)
           j == at(baseline)
           change == computeScoreDelta(trend)
<1>14. change.delta = trend[i].value - trend[j].value /\ change.daysAgo = latest - baseline
  BY <1>6
<1> HIDE DEF at, change, i, j
<1>15. /\ change.daysAgo \in 0..7 /\ i \in DOMAIN trend /\ j \in DOMAIN trend
       /\ trend[i].date = latest /\ trend[j].date = latest - change.daysAgo
       /\ change.delta = trend[i].value - trend[j].value
  BY <1>10, <1>11, <1>12, <1>13, <1>14 DEF i, j
<1>16. latest = Max({trend[k].date : k \in DOMAIN trend})
  BY DEF latest, dates
<1> HIDE DEF latest
<1> QED
  BY <1>15, <1>16 DEF change

\* What the page says about a score is the truth: the history holds at most MAX_ENTRIES
\* points, one a day, each taken while connected from a score with all three of its parts and
\* never replaced, and the change shown is the difference of two of them at most a week apart
\* (useTrendHistory.ts).
THEOREM TrendStaysHonest == DashboardSpec => TrendIsHonest
<1>1. ASSUME DashboardTypeOK, [DashboardNext]_dashboardVars
      PROVE  [ /\ connected' /\ trend'[Len(trend')].date = today
               /\ Cardinality(RealSubs') = 3 /\ trend'[Len(trend')].value = HealthScore'
               /\ \A i \in DOMAIN trend : trend[i].date # today]_trend
  <2> SUFFICES ASSUME trend' # trend
               PROVE  /\ connected' /\ trend'[Len(trend')].date = today
                      /\ Cardinality(RealSubs') = 3 /\ trend'[Len(trend')].value = HealthScore'
                      /\ \A i \in DOMAIN trend : trend[i].date # today
    OBVIOUS
  <2>1. Poll \/ Disconnect
    BY <1>1 DEF DashboardNext, Reopen, EditThresholds, DayChanges, dashboardVars
  <2>2. data' \in Snapshots \cup {Null} /\ connected' \in BOOLEAN /\ UNCHANGED <<thresholds, today>> /\ Rendered
    BY <1>1, <2>1 DEF Poll, Disconnect, DashboardTypeOK
  <2>3. ScoreToRecord' \in Nat \cup {Null}
    <3>1. Kept'
      BY <1>1, <2>2 DEF Kept, DashboardTypeOK
    <3> QED
      BY <3>1, ScoreTypesNext DEF ScoreTyped
  <2> DEFINE score == ScoreToRecord'
             recorded == recordIfNeeded(trend, today, score)
  <2>4. connected' /\ trend' = recorded
    BY <2>2 DEF Rendered
  <2>5. /\ Real(score) /\ \A i \in DOMAIN trend : trend[i].date # today
        /\ recorded[Len(recorded)] = [date |-> today, value |-> score]
    <3>1. trend \in Seq(Entries) /\ Len(trend) <= MaxEntries /\ OnePerDay(trend) /\ today \in Days
      BY <1>1 DEF DashboardTypeOK, Entries, OnePerDay
    <3> HIDE DEF score
    <3> QED
      BY <2>3, <2>4, <3>1, RecordedHistory DEF score
  <2>6. Cardinality(RealSubs') = 3 /\ score = HealthScore'
    BY <2>5 DEF ScoreToRecord, Real
  <2> HIDE DEF recorded, score
  <2> QED
    BY <2>4, <2>5, <2>6
<1> QED
  BY <1>1, HistoryTypes, DeltaIsOfTheWeek, PTL DEF DashboardSpec, TrendIsHonest, PointsAreEarned

-----------------------------------------------------------------------------
(* The cards: nothing outlives the connection. *)

LEMMA NoneReal ==
  ASSUME NEW s, DOMAIN s \in SUBSET Nat, \A i \in DOMAIN s : s[i] = Null
  PROVE  FirstReal(s) = Null
  BY DEF FirstReal, Real

LEMMA SecondOf ==
  ASSUME NEW S, NEW c, \A s \in S : \E x : s = <<x, c>>
  PROVE  \A s \in S : s[2] = c
  OBVIOUS

LEMMA OfflineReadings ==
  ASSUME ~connected
  PROVE  /\ \A f : Live(f) = Null
         /\ getBatteryHealthPercent = Null /\ getBatteryRemainingMinutes = Null
         /\ getPerformanceScore = Null /\ getSecurityHealthPercent = Null
         /\ SecurityChecks = {} /\ Cardinality(SecurityChecks) = 0
         /\ RealSubs = {} /\ RealFactors = {}
<1>1. \A f : Live(f) = Null
  BY DEF Live
<1>2. getBatteryHealthPercent = Null
  <2> DEFINE s == <<Live("wmi"), Live("report"), Live("lhm")>>
  <2>1. DOMAIN s = 1..3 /\ s[1] = Null /\ s[2] = Null /\ s[3] = Null
    BY <1>1
  <2> HIDE DEF s
  <2>2. FirstReal(s) = Null
    BY <2>1, NoneReal
  <2> QED
    BY <2>2 DEF getBatteryHealthPercent, s
<1>3. getBatteryRemainingMinutes = Null
  <2> DEFINE s == <<Live("runTime"), Live("lhmTime")>>
  <2>1. DOMAIN s = 1..2 /\ s[1] = Null /\ s[2] = Null
    BY <1>1
  <2> HIDE DEF s
  <2>2. FirstReal(s) = Null
    BY <2>1, NoneReal
  <2> QED
    BY <2>2 DEF getBatteryRemainingMinutes, s
<1>4. getPerformanceScore = Null
  BY <1>1 DEF getPerformanceScore, getCpuLoad, Real
<1>5. SecurityChecks = {}
  BY <1>1 DEF SecurityChecks, Real
<1>6. getSecurityHealthPercent = Null
  BY <1>5 DEF getSecurityHealthPercent
<1>7. Cardinality(SecurityChecks) = 0
  BY <1>5, FS_EmptySet
<1>8. RealSubs = {}
  BY <1>2, <1>4, <1>6 DEF RealSubs, SubScores, Real
<1>9. RealFactors = {}
  <2>1. computeRiskFactors = {<<"Hardware", Null>>, <<"Battery wear", Null>>, <<"SSD wear", Null>>, <<"Security", Null>>}
    BY <1>1, <1>2, <1>4, <1>6 DEF computeRiskFactors, getBatteryWearPercent, getStorageWearPercent, Real
  <2>2. \A f \in computeRiskFactors : \E label : f = <<label, Null>>
    BY <2>1
  <2>3. \A f \in computeRiskFactors : f[2] = Null
    BY <2>2
  <2> QED
    BY <2>3 DEF RealFactors, Real
<1> QED
  BY <1>1, <1>2, <1>3, <1>4, <1>5, <1>6, <1>7, <1>8, <1>9

LEMMA OfflineBadges ==
  ASSUME ~connected
  PROVE  /\ getCpuBadge = "Unknown" /\ getMemoryBadge = "Unknown" /\ getStorageBadge = "Unknown"
         /\ getBatteryHealthBadge = "Unknown" /\ getGpuBadge = "Unknown" /\ getNetworkBadge = "Unknown"
         /\ getHardwareInventoryBadge = "Unknown" /\ getThermalCardBadge = "Unknown"
         /\ getWifiLinkStatus = "Unknown"
<1>1. \A f : Live(f) = Null
  BY OfflineReadings
<1>2. getCpuBadge = "Unknown"
  BY <1>1 DEF getCpuBadge, Verdict, getCpuLoad
<1>3. getMemoryBadge = "Unknown"
  BY <1>1 DEF getMemoryBadge, Verdict, getMemUsedPercent, Real
<1>4. getStorageBadge = "Unknown"
  BY <1>1 DEF getStorageBadge, Verdict, getWorstStorageUsedPct, getStorageWearPercent, Real
<1>5. getBatteryHealthBadge = "Unknown"
  BY OfflineReadings DEF getBatteryHealthBadge, Real
<1>6. getGpuBadge = "Unknown"
  BY <1>1 DEF getGpuBadge, Verdict
<1>7. getWifiLinkStatus = "Unknown" /\ getNetworkBadge = "Unknown"
  BY <1>1 DEF getWifiLinkStatus, getNetworkBadge, Real
<1>8. getHardwareInventoryBadge = "Unknown"
  BY OfflineReadings DEF getHardwareInventoryBadge
<1>9. getThermalCardBadge = "Unknown"
  BY <1>1 DEF getThermalCardBadge, Temperatures
<1> QED
  BY <1>2, <1>3, <1>4, <1>5, <1>6, <1>7, <1>8, <1>9

LEMMA NothingIsStale == NothingStale
<1> SUFFICES ASSUME ~connected PROVE NothingStale
  BY DEF NothingStale
<1>1. \A f : Live(f) = Null /\ ~Real(Live(f))
  BY OfflineReadings DEF Real
<1>2. /\ HealthLabel = "Unknown" /\ RiskLevel = "Unknown"
  BY OfflineReadings DEF HealthLabel, RiskLevel
<1>3. CpuGpuLabel = "Unknown" /\ MemoryLabel = "Unknown" /\ HardwareHealth = "Unknown" /\ IntegrityHeader = "Unknown"
  BY OfflineBadges DEF CpuGpuLabel, MemoryLabel, HardwareHealth, IntegrityHeader
<1>4. /\ TamperStatus = "Unknown" /\ WarrantyLabel = "Unknown" /\ SubscriptionLabel = "Unknown"
      /\ CoverageLabel = "Unknown" /\ WindowsUpdateLabel = "Unknown" /\ DriversLabel = "Unknown"
      /\ TpmLabel = "Unknown" /\ BiosFirmwareLabel = "Unknown" /\ MotherboardLabel = "Unknown"
  BY <1>1 DEF TamperStatus, WarrantyLabel, SubscriptionLabel, CoverageLabel, WindowsUpdateLabel, DriversLabel,
              TpmLabel, BiosFirmwareLabel, MotherboardLabel
<1>5. ConnectionLabel = "Unknown"
  BY OfflineBadges DEF ConnectionLabel
<1>6. BatteryCard.status = "Unknown" /\ BatteryCard.time = "Unknown" /\ ~BatteryCard.showTemp
  <2>1. ~isBatteryOnAc(Live("batteryStatus")) /\ ~isActionableReason(Live("batteryTempReason"))
    BY <1>1 DEF isBatteryOnAc, isActionableReason
  <2>2. ~Real(getBatteryRemainingMinutes)
    BY OfflineReadings DEF Real
  <2> QED
    BY <1>1, <2>1, <2>2 DEF BatteryCard
<1>7. {t[2] : t \in Tiles \cup InventoryRows} = {"Unknown"}
  <2>1. \A t \in Tiles : t[2] = "Unknown"
    BY <1>4, OfflineBadges DEF Tiles
  <2>2. \A t \in InventoryRows : t[2] = "Unknown"
    BY <1>1, <1>4 DEF InventoryRows
  <2>3. Tiles # {}
    BY DEF Tiles
  <2> QED
    BY <2>1, <2>2, <2>3
<1>8. {d[2] : d \in Drivers} = {FALSE}
  <2>1. ~(Real(getPrimaryGpu) /\ Real(getPrimaryGpu.driver))
    <3>1. listDisplayGpus = <<>>
      <4> DEFINE kept == {i \in DOMAIN <<>> : /\ Real(gpuDisplayName(<<>>[i])) /\ gpuDisplayName(<<>>[i]) \notin SkippedGpus
                                              /\ \A j \in 1..(i - 1) : gpuDisplayName(<<>>[j]) # gpuDisplayName(<<>>[i])}
      <4>1. DOMAIN <<>> = {}
        OBVIOUS
      <4>2. kept = {}
        BY <4>1
      <4> HIDE DEF kept
      <4>3. listDisplayGpus = IF kept # {} THEN listDisplayGpus ELSE <<>>
        BY <1>1 DEF listDisplayGpus, kept
      <4> QED
        BY <4>2, <4>3
    <3>2. getPrimaryGpu = Null
      <4>1. DOMAIN listDisplayGpus = {}
        BY <3>1
      <4>2. getPrimaryGpu = FirstReal(listDisplayGpus)
        BY <4>1 DEF getPrimaryGpu
      <4> QED
        BY <4>1, <4>2, NoneReal
    <3> QED
      BY <3>2 DEF Real
  <2>2. \A d \in Drivers : d[2] = FALSE
    <3>1. Real(Live("bios")) = FALSE /\ (Live("firmware") \notin {Null, ""}) = FALSE
      BY <1>1 DEF Real
    <3>2. (Real(getPrimaryGpu) /\ Real(getPrimaryGpu.driver)) = FALSE
      BY <2>1
    <3>3. \A f : (Real(Live("drivers")) /\ f \in Live("drivers")) = FALSE
      BY <1>1
    <3>4. Drivers = {<<"bios", FALSE>>, <<"firmware", FALSE>>, <<"gpu", FALSE>>} \cup {<<f, FALSE>> : f \in FromVendor}
      BY <3>1, <3>2, <3>3 DEF Drivers
    <3>5. \A d \in Drivers : \E label : d = <<label, FALSE>>
      BY <3>4
    <3> QED
      BY <3>5, SecondOf
  <2>3. Drivers # {}
    BY DEF Drivers
  <2> QED
    BY <2>2, <2>3
<1>9. CoolingFooter = "Waiting for temperature sensors" /\ ~FanReasonShown
  BY <1>1, OfflineBadges DEF CoolingFooter, FanReasonShown, isActionableReason
<1>10. VerdictBadges = {}
  <2>1. ~Real(getCpuLoad) /\ ~Real(getMemUsedPercent) /\ ~Real(getStorageWearPercent)
    BY <1>1 DEF getCpuLoad, getMemUsedPercent, getStorageWearPercent
  <2>2. ~Real(getBatteryHealthPercent) /\ ~getSecurityCompliance.real
    BY OfflineReadings DEF getSecurityCompliance, Real
  <2>3. \A b \in badges : ~b.real
    <3> DEFINE load == getCpuLoad
               mem == getMemUsedPercent
               health == getBatteryHealthPercent
               wear == getStorageWearPercent
               ok1 == Below(load, 85) /\ Below(mem, 85)
               ok2 == AtLeast(health, 60) /\ Below(wear, 90)
               ok3 == Below(load, 95) /\ Below(mem, 95) /\ AtLeast(health, 60) /\ Below(wear, 95)
               b1 == [label |-> "Performance", real |-> Real(load) /\ Real(mem), ok |-> ok1]
               b2 == [label |-> "Wear risk", real |-> Real(health) \/ Real(wear), ok |-> ok2]
               b3 == [label |-> "Active issues", real |-> \E v \in {load, mem, health, wear} : Real(v), ok |-> ok3]
               b4 == [label |-> "Compliance", real |-> getSecurityCompliance.real, ok |-> getSecurityCompliance.ok]
    <3>1. badges = {b1, b2, b3, b4}
      BY DEF badges
    <3> HIDE DEF ok1, ok2, ok3
    <3>2. ~b1.real
      BY <2>1
    <3>3. ~b2.real
      BY <2>1, <2>2
    <3>4. ~b3.real
      BY <2>1, <2>2
    <3>5. ~b4.real
      BY <2>2
    <3> HIDE DEF b1, b2, b3, b4
    <3> QED
      BY <3>1, <3>2, <3>3, <3>4, <3>5
  <2> QED
    BY <2>3 DEF VerdictBadges
<1>11. Insights = {}
  BY <1>1, OfflineReadings DEF Insights, insight, getSecurityCompliance, Real, getWorstStorageUsedPct, getStorageWearPercent
<1>12. {v[2] : v \in Vitals} = {"No reading"}
  <2>1. \A v \in Vitals : v[2] = "No reading"
    <3>1. \A n : Vital(Null, n) = "No reading"
      BY DEF Vital, Real
    <3>2. /\ Vital(Live("util"), 60) = "No reading" /\ Vital(getMemUsedPercent, 70) = "No reading"
          /\ Vital(getCpuLoad, 70) = "No reading" /\ ~Real(Live("margin"))
      BY <1>1, <3>1 DEF getCpuLoad, getMemUsedPercent
    <3>3. \A v \in Vitals : \E label : v = <<label, "No reading">>
      BY <3>2 DEF Vitals
    <3> QED
      BY <3>3, SecondOf
  <2>2. Vitals # {}
    BY DEF Vitals
  <2> QED
    BY <2>1, <2>2
<1>13. {r[2] : r \in getThermalRows} = {Null}
  <2>1. getThermalRows = {"CPU", "GPU", "SSD", "Motherboard"} \X {Null} \X {"track"}
    BY <1>1 DEF getThermalRows
  <2>2. <<"CPU", Null, "track">> \in getThermalRows
    BY <2>1
  <2> QED
    BY <2>1, <2>2
<1>14. Recommendations = {[title |-> "Not Enough History", priority |-> "Info"]}
  <2>1. ~getSecurityCompliance.real /\ ~UpdatesPending /\ ~BatteryPastThreshold
    BY <1>1, OfflineReadings DEF getSecurityCompliance, UpdatesPending, BatteryPastThreshold, Real
  <2>2. Live("biosUpdate") # TRUE
    BY <1>1, NullAssumption
  <2>3. ~SsdShown.matured /\ ~BatteryShown.matured /\ ~isElevatedRisk(SsdShown) /\ ~isElevatedRisk(BatteryShown)
    BY <1>1 DEF SsdShown, BatteryShown, predictionToLifeDisplay, isElevatedRisk
  <2>4. recs = {}
    BY <2>1, <2>2, <2>3 DEF recs, when
  <2>5. ~Real(getBatteryHealthPercent)
    BY OfflineReadings DEF Real
  <2> QED
    BY <2>3, <2>4, <2>5 DEF Recommendations
<1>15. {getCpuBadge, getMemoryBadge, getStorageBadge, getBatteryHealthBadge, getGpuBadge, getNetworkBadge,
        getHardwareInventoryBadge, getThermalCardBadge, HealthLabel, RiskLevel, CpuGpuLabel, MemoryLabel,
        HardwareHealth, TamperStatus, WarrantyLabel, SubscriptionLabel, CoverageLabel, WindowsUpdateLabel,
        IntegrityHeader, ConnectionLabel, BatteryCard.status, BatteryCard.time, DriversLabel} = {"Unknown"}
  BY <1>2, <1>3, <1>4, <1>5, <1>6, OfflineBadges
<1> QED
  BY <1>6, <1>7, <1>8, <1>9, <1>10, <1>11, <1>12, <1>13, <1>14, <1>15 DEF NothingStale

-----------------------------------------------------------------------------
(* The cards: temperatures. *)
Thermometers == Sensors \cup {"zone"}

LEMMA HottestReading ==
  ASSUME Kept
  PROVE  /\ \A s \in Thermometers : Real(Live(s)) => Live(s) \in Temperatures
         /\ (\A s \in Thermometers : ~Real(Live(s))) => Temperatures = {}
         /\ Temperatures \in SUBSET Int
         /\ Temperatures # {} => Max(Temperatures) \in Int /\ \A t \in Temperatures : t <= Max(Temperatures)
<1>1. Temperatures = {Live(s) : s \in Thermometers} \ {Null}
  BY DEF Temperatures, Thermometers
<1>2. Temperatures \in SUBSET Int
  BY <1>1, LiveTypes DEF Thermometers
<1>3. IsFiniteSet(Temperatures)
  <2> DEFINE A == {Live("cpuTemp"), Live("gpuTemp"), Live("ssdTemp")}
             B == {Live("boardTemp"), Live("dimmTemp"), Live("zone")}
  <2>1. IsFiniteSet(A) /\ IsFiniteSet(B)
    BY ThreeAreFinite
  <2>2. Temperatures \subseteq A \cup B
    BY <1>1 DEF Thermometers, Sensors
  <2> HIDE DEF A, B
  <2>3. IsFiniteSet(A \cup B)
    BY <2>1, FS_Union
  <2> QED
    BY <2>2, <2>3, FS_Subset
<1>4. \A s \in Thermometers : Real(Live(s)) => Live(s) \in Temperatures
  BY <1>1 DEF Real
<1>5. (\A s \in Thermometers : ~Real(Live(s))) => Temperatures = {}
  BY <1>1 DEF Real
<1>6. Temperatures # {} => Max(Temperatures) \in Int /\ \A t \in Temperatures : t <= Max(Temperatures)
  BY <1>2, <1>3, MaxOf
<1> QED
  BY <1>2, <1>4, <1>5, <1>6

\* What a row says of its reading.
LEMMA RowOf ==
  ASSUME NEW label, NEW temp, NEW lines
  PROVE  LET drawn == thermalTempRow(label, temp, lines)
         IN  /\ drawn[1] = label /\ drawn[2] = temp
             /\ drawn[3] = thermalSeverityColor(temp, lines.warning, lines.critical)
  BY DEF thermalTempRow

\* A row with a reading shows one of the thermometers, some row has one if any of them
\* has, and the processor's and the zones' rows are coloured by the thresholds.
LEMMA RowsAreReadings ==
  /\ \A r \in getThermalRows : Real(r[2]) => \E s \in Thermometers : r[2] = Live(s)
  /\ (\E s \in Thermometers : Real(Live(s))) => \E r \in getThermalRows : Real(r[2])
  /\ \A r \in getThermalRows : r[1] \in {"CPU", "Zone"} /\ r[3] # "track" =>
       r[3] = thermalSeverityColor(r[2], thresholds.cpuTemp.warning, thresholds.cpuTemp.critical)
<1> DEFINE cpu == thermalTempRow("CPU", Live("cpuTemp"), thresholds.cpuTemp)
           gpu == thermalTempRow("GPU", Live("gpuTemp"), GpuZone)
           ssd == thermalTempRow("SSD", Live("ssdTemp"), ssdThermalThresholds)
           board == thermalTempRow("Motherboard", Live("boardTemp"), DimmZone)
           dimm == thermalTempRow("DIMM", Live("dimmTemp"), DimmZone)
           zone == thermalTempRow("Zone", Live("zone"), thresholds.cpuTemp)
           gpuRow == IF Real(Live("gpuTemp")) \/ isActionableReason(Live("gpuReason")) THEN {gpu} ELSE {}
           boardRow == IF Real(Live("boardTemp")) \/ (~Real(Live("dimmTemp")) /\ isActionableReason(Live("boardReason")))
                       THEN {board} ELSE IF Real(Live("dimmTemp")) THEN {dimm} ELSE {}
           none == {"CPU", "GPU", "SSD", "Motherboard"} \X {Null} \X {"track"}
           some == \E s \in Sensors : Real(Live(s))
<1>1. getThermalRows = IF some THEN {cpu} \cup gpuRow \cup {ssd} \cup boardRow
                       ELSE IF Real(Live("zone")) THEN {zone} ELSE none
  BY DEF getThermalRows
<1>2. /\ cpu[2] = Live("cpuTemp") /\ gpu[2] = Live("gpuTemp") /\ ssd[2] = Live("ssdTemp")
      /\ board[2] = Live("boardTemp") /\ dimm[2] = Live("dimmTemp") /\ zone[2] = Live("zone")
  BY RowOf
<1>3. \A r \in none : ~Real(r[2]) /\ r[3] = "track"
  BY DEF Real
<1>4. gpuRow \subseteq {gpu} /\ (Real(Live("gpuTemp")) => gpu \in gpuRow)
  OBVIOUS
<1>5. /\ boardRow \subseteq {board, dimm}
      /\ Real(Live("boardTemp")) => board \in boardRow
      /\ Real(Live("dimmTemp")) /\ ~Real(Live("boardTemp")) => dimm \in boardRow
  OBVIOUS
<1>6. /\ some <=> \/ Real(Live("cpuTemp")) \/ Real(Live("gpuTemp")) \/ Real(Live("ssdTemp"))
                  \/ Real(Live("boardTemp")) \/ Real(Live("dimmTemp"))
      /\ (\E s \in Thermometers : Real(Live(s))) <=> some \/ Real(Live("zone"))
  BY DEF Sensors, Thermometers
<1>7. {"cpuTemp", "gpuTemp", "ssdTemp", "boardTemp", "dimmTemp", "zone"} \subseteq Thermometers
  BY DEF Sensors, Thermometers
<1>c. /\ \A r \in {cpu, zone} : r[3] = thermalSeverityColor(r[2], thresholds.cpuTemp.warning, thresholds.cpuTemp.critical)
      /\ \A r \in {gpu, ssd, board, dimm} : r[1] \notin {"CPU", "Zone"}
  BY RowOf
<1> HIDE DEF cpu, gpu, ssd, board, dimm, zone, gpuRow, boardRow, none, some
<1>8. \A r \in getThermalRows : r \in {cpu, gpu, ssd, board, dimm, zone} \/ r \in none
  BY <1>1, <1>4, <1>5
<1>9. ASSUME NEW r \in getThermalRows, Real(r[2])
      PROVE  \E s \in Thermometers : r[2] = Live(s)
  <2>1. r \in {cpu, gpu, ssd, board, dimm, zone}
    BY <1>3, <1>8, <1>9
  <2> QED
    BY <1>2, <1>7, <2>1
<1>10. ASSUME \E s \in Thermometers : Real(Live(s))
      PROVE  \E r \in getThermalRows : Real(r[2])
  BY <1>1, <1>2, <1>4, <1>5, <1>6, <1>10
<1>11. ASSUME NEW r \in getThermalRows, r[1] \in {"CPU", "Zone"}, r[3] # "track"
      PROVE  r[3] = thermalSeverityColor(r[2], thresholds.cpuTemp.warning, thresholds.cpuTemp.critical)
  BY <1>3, <1>8, <1>c, <1>11
<1> QED
  BY <1>9, <1>10, <1>11

LEMMA ThermalFits == Kept => ThermalAgrees
<1> SUFFICES ASSUME Kept PROVE ThermalAgrees
  OBVIOUS
<1>1. getThermalCardBadge = "Unknown" <=> Temperatures = {}
  BY DEF getThermalCardBadge
<1>2. Temperatures = {} <=> \A s \in Thermometers : ~Real(Live(s))
  BY HottestReading
<1>3. getThermalCardBadge = "Unknown" <=> \A r \in getThermalRows : ~Real(r[2])
  BY <1>1, <1>2, RowsAreReadings
<1>4. ASSUME NEW r \in getThermalRows, Real(r[2]), r[2] > thresholds.cpuTemp.critical
      PROVE  getThermalCardBadge = "Critical"
  <2>1. r[2] \in Temperatures
    BY <1>4, HottestReading, RowsAreReadings
  <2>2. thresholds.cpuTemp.critical \in Int
    BY ThresholdsAssumption DEF Kept
  <2>3. /\ r[2] \in Int /\ Max(Temperatures) \in Int /\ r[2] <= Max(Temperatures)
        /\ Temperatures # {}
    BY <2>1, HottestReading
  <2>4. Max(Temperatures) > thresholds.cpuTemp.critical
    BY <1>4, <2>2, <2>3
  <2> QED
    BY <2>3, <2>4 DEF getThermalCardBadge
<1>5. ASSUME NEW r \in getThermalRows, r[1] \in {"CPU", "Zone"}
      PROVE  /\ r[3] = "critical" => getThermalCardBadge = "Critical"
             /\ r[3] = "warning" => getThermalCardBadge \in {"Warning", "Critical"}
  <2>1. CASE r[3] \notin {"critical", "warning"}
    BY <2>1
  <2>2. CASE r[3] \in {"critical", "warning"}
    <3>1. r[3] = thermalSeverityColor(r[2], thresholds.cpuTemp.warning, thresholds.cpuTemp.critical)
      BY <1>5, <2>2, RowsAreReadings
    <3>2. /\ Real(r[2])
          /\ r[3] = "critical" => r[2] > thresholds.cpuTemp.critical
          /\ r[3] = "warning" => r[2] >= thresholds.cpuTemp.warning
      BY <2>2, <3>1 DEF thermalSeverityColor
    <3>3. r[3] = "critical" => getThermalCardBadge = "Critical"
      BY <1>4, <3>2
    <3>4. ASSUME r[3] = "warning"
          PROVE  getThermalCardBadge \in {"Warning", "Critical"}
      <4>1. r[2] \in Temperatures
        BY <3>2, HottestReading, RowsAreReadings
      <4>2. thresholds.cpuTemp.warning \in Int
        BY ThresholdsAssumption DEF Kept
      <4>3. /\ r[2] \in Int /\ Max(Temperatures) \in Int /\ r[2] <= Max(Temperatures)
            /\ Temperatures # {}
        BY <4>1, HottestReading
      <4>4. Max(Temperatures) >= thresholds.cpuTemp.warning
        BY <3>2, <3>4, <4>2, <4>3
      <4> QED
        BY <4>3, <4>4 DEF getThermalCardBadge
    <3> QED
      BY <3>3, <3>4
  <2> QED
    BY <2>1, <2>2
<1> QED
  BY <1>3, <1>4, <1>5 DEF ThermalAgrees

-----------------------------------------------------------------------------
(* The cards: drivers. *)
LEMMA FirstsOf ==
  ASSUME NEW A, NEW has
  PROVE  {d[1] : d \in {e \in {<<f, has[f]>> : f \in A} : e[2]}} = {f \in A : has[f]}
<1> DEFINE Pairs == {<<f, has[f]>> : f \in A}
           firsts == {d[1] : d \in {e \in Pairs : e[2]}}
<1>1. ASSUME NEW x \in firsts PROVE x \in A /\ has[x]
  <2>1. PICK d \in Pairs : d[2] /\ x = d[1]
    BY <1>1
  <2>2. PICK f \in A : d = <<f, has[f]>>
    BY <2>1
  <2>3. d[1] = f /\ d[2] = has[f]
    BY <2>2
  <2> QED
    BY <2>1, <2>3
<1>2. ASSUME NEW x \in A, has[x] PROVE x \in firsts
  <2> DEFINE d == <<x, has[x]>>
  <2>1. d \in Pairs
    OBVIOUS
  <2>2. d[1] = x /\ d[2]
    BY <1>2
  <2> HIDE DEF d, Pairs
  <2> QED
    BY <2>1, <2>2
<1> HIDE DEF firsts
<1>3. firsts = {f \in A : has[f]}
  BY <1>1, <1>2
<1> QED
  BY <1>3 DEF firsts

LEMMA DriversFit == DriversAgree
<1> SUFFICES ASSUME connected
             PROVE  {d[1] : d \in {e \in Drivers : e[2]}} =
                      getDriverDataCompleteness \ (IF Live("firmware") = "" THEN {"firmware"} ELSE {})
  BY DEF DriversAgree
<1> DEFINE bios == Real(Live("bios"))
           firmware == Live("firmware") \notin {Null, ""}
           gpu == Real(getPrimaryGpu) /\ Real(getPrimaryGpu.driver)
           vendor(f) == Real(Live("drivers")) /\ f \in Live("drivers")
           All == {"bios", "firmware", "gpu"} \cup FromVendor
           has == [f \in All |-> IF f = "bios" THEN bios ELSE IF f = "firmware" THEN firmware
                                 ELSE IF f = "gpu" THEN gpu ELSE vendor(f)]
           counted == getDriverDataCompleteness \ (IF Live("firmware") = "" THEN {"firmware"} ELSE {})
<1>1. Drivers = {<<"bios", bios>>, <<"firmware", firmware>>, <<"gpu", gpu>>} \cup {<<f, vendor(f)>> : f \in FromVendor}
  BY DEF Drivers
<1>2. counted = {f \in {"bios"} : bios} \cup {f \in {"firmware"} : firmware} \cup {f \in {"gpu"} : gpu} \cup {f \in FromVendor : vendor(f)}
  BY DEF getDriverDataCompleteness, FromVendor, Real
<1> HIDE DEF bios, firmware, gpu, vendor, counted
<1>3. /\ has["bios"] = bios /\ has["firmware"] = firmware /\ has["gpu"] = gpu
      /\ \A f \in FromVendor : has[f] = vendor(f)
  BY DEF FromVendor
<1> HIDE DEF has
<1>4. Drivers = {<<f, has[f]>> : f \in All}
  BY <1>1, <1>3
<1>5. counted = {f \in All : has[f]}
  BY <1>2, <1>3
<1> HIDE DEF All
<1>6. {d[1] : d \in {e \in Drivers : e[2]}} = {f \in All : has[f]}
  BY <1>4, FirstsOf
<1> QED
  BY <1>5, <1>6 DEF counted

-----------------------------------------------------------------------------
(* The cards: alerts and badges. *)
LEMMA TwoLines ==
  ASSUME NEW a, NEW b, NEW c, NEW d
  PROVE  /\ SomeBeyond({<<a, b>>, <<c, d>>}) <=> ((Real(a) /\ a > b) \/ (Real(c) /\ c > d))
         /\ SomeAt({<<a, b>>, <<c, d>>}) <=> ((Real(a) /\ a >= b) \/ (Real(c) /\ c >= d))
<1> DEFINE p == <<a, b>>
           q == <<c, d>>
<1>1. p[1] = a /\ p[2] = b /\ q[1] = c /\ q[2] = d
  OBVIOUS
<1> HIDE DEF p, q
<1>2. SomeBeyond({p, q}) <=> ((Real(a) /\ a > b) \/ (Real(c) /\ c > d))
  BY <1>1 DEF SomeBeyond
<1>3. SomeAt({p, q}) <=> ((Real(a) /\ a >= b) \/ (Real(c) /\ c >= d))
  BY <1>1 DEF SomeAt
<1> QED
  BY <1>2, <1>3 DEF p, q

LEMMA BadgesCover == Kept => BadgeCoversAlert
<1> SUFFICES ASSUME Kept PROVE BadgeCoversAlert
  OBVIOUS
<1> DEFINE rank(badge) == CASE badge \in {"Critical", "Poor"} -> 2 [] badge \in {"Warning", "Fair"} -> 1 [] OTHER -> 0
           load == getCpuLoad
           temp == Live("cpuTemp")
           mem == getMemUsedPercent
           raw == Live("mem")
           health == getBatteryHealthPercent
           cpu == thresholds.cpu
           cpuTemp == thresholds.cpuTemp
           memory == thresholds.memory
<1>1. /\ cpu.warning \in Int /\ cpu.critical \in Int /\ cpuTemp.warning \in Int /\ cpuTemp.critical \in Int
      /\ memory.warning \in Int /\ memory.critical \in Int
  BY ThresholdsAssumption DEF Kept
<1>2. load \in Int \cup {Null} /\ temp \in Int \cup {Null} /\ mem \in Int \cup {Null}
  BY LiveTypes, MemoryTypes DEF getCpuLoad, Amounts, Sensors
<1>3. rank("Critical") = 2 /\ rank("Warning") = 1 /\ rank("Healthy") = 0 /\ rank("Unknown") = 0
  OBVIOUS
<1> DEFINE cpuCritical == (Real(load) /\ load > cpu.critical) \/ (Real(temp) /\ temp > cpuTemp.critical)
           cpuWarning == (Real(load) /\ load >= cpu.warning) \/ (Real(temp) /\ temp >= cpuTemp.warning)
<1>4. getCpuBadge = IF load = Null /\ temp = Null THEN "Unknown"
                    ELSE IF cpuCritical THEN "Critical" ELSE IF cpuWarning THEN "Warning" ELSE "Healthy"
  <2>1. SomeBeyond(CpuLines("critical")) <=> cpuCritical
    BY TwoLines DEF CpuLines
  <2>2. SomeAt(CpuLines("warning")) <=> cpuWarning
    BY TwoLines DEF CpuLines
  <2>3. (\A v \in {getCpuLoad, Live("cpuTemp")} : v = Null) <=> load = Null /\ temp = Null
    OBVIOUS
  <2> HIDE DEF cpuCritical, cpuWarning, load, temp
  <2> QED
    BY <2>1, <2>2, <2>3 DEF getCpuBadge, Verdict
<1>5. getMemoryBadge = IF mem = Null THEN "Unknown"
                       ELSE IF Real(mem) /\ mem > memory.critical THEN "Critical"
                       ELSE IF Real(mem) /\ mem >= memory.warning THEN "Warning" ELSE "Healthy"
  <2>1. SomeBeyond({<<getMemUsedPercent, thresholds.memory.critical>>}) <=> Real(mem) /\ mem > memory.critical
    BY DEF SomeBeyond
  <2>2. SomeAt({<<getMemUsedPercent, thresholds.memory.warning>>}) <=> Real(mem) /\ mem >= memory.warning
    BY DEF SomeAt
  <2> QED
    BY <2>1, <2>2 DEF getMemoryBadge, Verdict
<1> HIDE DEF load, temp, health, cpu, cpuTemp, memory, rank
<1> DEFINE loadAlert == AlertAbove(load, cpu.warning, cpu.critical)
           tempAlert == AlertAbove(temp, cpuTemp.warning, cpuTemp.critical)
           memoryAlert == AlertAbove(raw, 10 * memory.warning, 10 * memory.critical)
<1>6. rank(getCpuBadge) >= loadAlert /\ rank(getCpuBadge) >= tempAlert
  <2>1. CASE cpuCritical
    <3>1. rank(getCpuBadge) = 2
      BY <1>3, <1>4, <2>1 DEF Real
    <3> QED
      BY <3>1 DEF AlertAbove
  <2>2. CASE ~cpuCritical /\ cpuWarning
    <3>1. rank(getCpuBadge) = 1
      BY <1>3, <1>4, <2>2 DEF Real
    <3>2. loadAlert \in {0, 1} /\ tempAlert \in {0, 1}
      BY <2>2 DEF AlertAbove
    <3> QED
      BY <3>1, <3>2
  <2>3. CASE ~cpuCritical /\ ~cpuWarning
    <3>1. rank(getCpuBadge) = 0
      BY <1>3, <1>4, <2>3
    <3>2. loadAlert = 0 /\ tempAlert = 0
      BY <1>1, <1>2, <2>3 DEF Real, AlertAbove
    <3> QED
      BY <3>1, <3>2
  <2> QED
    BY <2>1, <2>2, <2>3
<1>7. rank(getMemoryBadge) >= memoryAlert \/ (memoryAlert = 2 /\ mem = memory.critical)
  <2>1. CASE ~Real(raw)
    <3>1. memoryAlert = 0 /\ getMemoryBadge = "Unknown"
      BY <1>5, <2>1, MemoryTypes DEF AlertAbove, Real, raw, mem
    <3> QED
      BY <1>3, <3>1
  <2>2. CASE Real(raw)
    <3>1. raw \in Nat /\ mem = Round(raw, 10) /\ mem \in Nat /\ Real(mem)
      BY <2>2, MemoryTypes DEF raw, mem, Real
    <3>2. /\ raw > 10 * memory.critical => mem >= memory.critical
          /\ raw > 10 * memory.warning => mem >= memory.warning
      BY <1>1, <3>1, RoundedTypes
    <3>3. CASE raw > 10 * memory.critical
      <4>1. memoryAlert = 2
        BY <2>2, <3>3 DEF AlertAbove
      <4>2. CASE mem = memory.critical
        BY <4>1, <4>2
      <4>3. CASE mem # memory.critical
        <5>1. getMemoryBadge = "Critical"
          BY <1>1, <1>5, <3>1, <3>2, <3>3, <4>3 DEF Real
        <5> QED
          BY <1>3, <4>1, <5>1
      <4> QED
        BY <4>2, <4>3
    <3>4. CASE ~(raw > 10 * memory.critical) /\ raw > 10 * memory.warning
      <4>1. memoryAlert = 1
        BY <2>2, <3>4 DEF AlertAbove
      <4>2. getMemoryBadge \in {"Critical", "Warning"}
        BY <1>5, <3>1, <3>2, <3>4 DEF Real
      <4> QED
        BY <1>3, <4>1, <4>2
    <3>5. CASE ~(raw > 10 * memory.critical) /\ ~(raw > 10 * memory.warning)
      <4>1. memoryAlert = 0
        BY <3>5 DEF AlertAbove
      <4>2. rank(getMemoryBadge) >= 0
        BY DEF rank
      <4> QED
        BY <4>1, <4>2
    <3> QED
      BY <3>3, <3>4, <3>5
  <2> QED
    BY <2>1, <2>2
<1>10. (Real(health) /\ health < thresholds.batteryHealth.critical) => HardwareHealth = "Attention"
  BY DEF HardwareHealth, getBatteryHealthBadge, health
<1>11. getCpuBadge \in {"Warning", "Critical"} => CpuGpuLabel = "Attention"
  BY DEF CpuGpuLabel
<1> QED
  BY <1>6, <1>7, <1>10, <1>11 DEF BadgeCoversAlert, rank, load, temp, mem, raw, health, cpu, cpuTemp, memory

-----------------------------------------------------------------------------
(* The cards: the parts of the score and the factors of the risk. *)
Parts == {getPerformanceScore, getSecurityHealthPercent, getBatteryHealthPercent} \ {Null}

LEMMA WorstPart ==
  ASSUME Kept
  PROVE  /\ {s[2] : s \in RealSubs} = Parts
         /\ RealSubs = {} <=> Parts = {}
         /\ Parts \in SUBSET Nat
         /\ Parts # {} => Min(Parts) \in Parts /\ \A x \in Parts : Min(Parts) <= x
<1> DEFINE a == getPerformanceScore
           b == getSecurityHealthPercent
           c == getBatteryHealthPercent
           pa == <<"Performance", a>>
           pb == <<"Security", b>>
           pc == <<"Battery", c>>
<1>1. pa[2] = a /\ pb[2] = b /\ pc[2] = c
  OBVIOUS
<1>2. RealSubs = {q \in {pa, pb, pc} : Real(q[2])}
  BY DEF RealSubs, SubScores
<1> HIDE DEF pa, pb, pc
<1>3. {s[2] : s \in RealSubs} = Parts
  BY <1>1, <1>2 DEF Parts, Real
<1>4. Parts \in SUBSET Nat
  BY PerformanceTypes, SecurityScore, HealthTypes DEF Parts
<1>5. IsFiniteSet(Parts)
  <2>1. IsFiniteSet({a, b, c})
    BY ThreeAreFinite
  <2>2. Parts \subseteq {a, b, c}
    BY DEF Parts
  <2> QED
    BY <2>1, <2>2, FS_Subset
<1>6. Parts \in SUBSET Int
  BY <1>4
<1>7. Parts # {} => Min(Parts) \in Parts /\ \A x \in Parts : Min(Parts) <= x
  BY <1>5, <1>6, MinOf
<1>8. RealSubs = {} <=> Parts = {}
  BY <1>3
<1> QED
  BY <1>3, <1>4, <1>7, <1>8

RemainderOf(v) == IF Real(v) THEN 100 - v ELSE Null
Factors == {RemainderOf(getPerformanceScore), RemainderOf(getBatteryHealthPercent), getStorageWearPercent,
            RemainderOf(getSecurityHealthPercent)} \ {Null}

LEMMA WorstFactor ==
  ASSUME Kept
  PROVE  /\ {f[2] : f \in RealFactors} = Factors
         /\ RealFactors = {} <=> Factors = {}
         /\ Factors \in SUBSET Int
         /\ Factors # {} => RiskPercent \in Factors /\ \A x \in Factors : x <= RiskPercent
<1> DEFINE a == RemainderOf(getPerformanceScore)
           b == RemainderOf(getBatteryHealthPercent)
           c == getStorageWearPercent
           d == RemainderOf(getSecurityHealthPercent)
           pa == <<"Hardware", a>>
           pb == <<"Battery wear", b>>
           pc == <<"SSD wear", c>>
           pd == <<"Security", d>>
<1>1. pa[2] = a /\ pb[2] = b /\ pc[2] = c /\ pd[2] = d
  OBVIOUS
<1>2. RealFactors = {q \in {pa, pb, pc, pd} : Real(q[2])}
  <2>1. computeRiskFactors = {pa, pb, pc, pd}
    BY DEF computeRiskFactors, getBatteryWearPercent, RemainderOf
  <2> HIDE DEF pa, pb, pc, pd
  <2> QED
    BY <2>1 DEF RealFactors
<1> HIDE DEF pa, pb, pc, pd
<1>3. {f[2] : f \in RealFactors} = Factors
  BY <1>1, <1>2 DEF Factors, Real
<1>4. Factors \in SUBSET Int
  <2>1. a \in Int \cup {Null}
    BY PerformanceTypes DEF RemainderOf, Real
  <2>2. b \in Int \cup {Null}
    BY HealthTypes DEF RemainderOf, Real
  <2>3. c \in Int \cup {Null}
    BY LiveTypes DEF Amounts, getStorageWearPercent
  <2>4. d \in Int \cup {Null}
    BY SecurityScore DEF RemainderOf, Real
  <2> HIDE DEF a, b, c, d
  <2> QED
    BY <2>1, <2>2, <2>3, <2>4 DEF Factors, a, b, c, d
<1>5. IsFiniteSet(Factors)
  <2> HIDE DEF a, b, c, d
  <2>1. IsFiniteSet({a, b, c})
    BY ThreeAreFinite
  <2>2. IsFiniteSet({a, b, c} \cup {d})
    BY <2>1, FS_AddElement
  <2>3. Factors \subseteq {a, b, c} \cup {d}
    BY DEF Factors, a, b, c, d
  <2> QED
    BY <2>2, <2>3, FS_Subset
<1>6. RealFactors = {} <=> Factors = {}
  BY <1>3
<1>7. Factors # {} => RiskPercent = Max(Factors)
  BY <1>3, <1>6 DEF RiskPercent
<1>8. Factors # {} => RiskPercent \in Factors /\ \A x \in Factors : x <= RiskPercent
  BY <1>4, <1>5, <1>7, MaxOf
<1> QED
  BY <1>3, <1>4, <1>6, <1>8

LEMMA RiskFits == Kept => RiskAgrees
<1> SUFFICES ASSUME Kept PROVE RiskAgrees
  OBVIOUS
<1>1. \A f \in RealFactors : f[2] \in Factors
  BY WorstFactor
<1>2. \A x \in Factors : x > 50 => RiskLevel = "High"
  <2> TAKE x \in Factors
  <2>1. x \in Int /\ RiskPercent \in Int /\ x <= RiskPercent /\ RealFactors # {}
    BY WorstFactor
  <2> QED
    BY <2>1 DEF RiskLevel, riskTier
<1>3. \A x \in Factors : x >= 20 => RiskLevel # "Low" /\ RiskLevel \in {"Medium", "High"}
  <2> TAKE x \in Factors
  <2>1. x \in Int /\ RiskPercent \in Int /\ x <= RiskPercent /\ RealFactors # {}
    BY WorstFactor
  <2> QED
    BY <2>1 DEF RiskLevel, riskTier
<1>4. \A f \in RealFactors : riskTier(f[2]) = "High" => RiskLevel = "High"
  <2> TAKE f \in RealFactors
  <2> DEFINE x == f[2]
  <2>1. x \in Factors /\ x \in Int
    BY <1>1, WorstFactor
  <2> HIDE DEF x
  <2>2. riskTier(x) = "High" => x > 50
    BY <2>1 DEF riskTier
  <2>3. riskTier(x) = "High" => RiskLevel = "High"
    BY <1>2, <2>1, <2>2
  <2> QED
    BY <2>3 DEF x
<1>5. \A f \in RealFactors : riskTier(f[2]) = "Medium" => RiskLevel # "Low"
  <2> TAKE f \in RealFactors
  <2> DEFINE x == f[2]
  <2>1. x \in Factors /\ x \in Int
    BY <1>1, WorstFactor
  <2> HIDE DEF x
  <2>2. riskTier(x) = "Medium" => x >= 20
    BY <2>1 DEF riskTier
  <2>3. riskTier(x) = "Medium" => RiskLevel # "Low"
    BY <1>3, <2>1, <2>2
  <2> QED
    BY <2>3 DEF x
<1>6. \A x \in Parts : 100 - x \in Factors
  <2> TAKE x \in Parts
  <2>1. /\ x \in Nat /\ 100 - x # Null
        /\ x = getPerformanceScore \/ x = getSecurityHealthPercent \/ x = getBatteryHealthPercent
        /\ x # Null
    BY WorstPart, NullAssumption DEF Parts
  <2>2. 100 - x = RemainderOf(x)
    BY <2>1 DEF RemainderOf, Real
  <2> QED
    BY <2>1, <2>2 DEF Factors
<1>7. HealthLabel = IF Parts = {} THEN "Unknown" ELSE IF Min(Parts) < 40 THEN "Poor" ELSE IF Min(Parts) < 60 THEN "Fair"
                    ELSE IF HealthScore >= 90 THEN "Excellent" ELSE "Good"
  BY WorstPart DEF HealthLabel
<1>8. ASSUME HealthLabel = "Poor" PROVE RiskLevel = "High"
  <2>1. Parts # {} /\ Min(Parts) < 40
    BY <1>7, <1>8
  <2>2. Min(Parts) \in Parts /\ Min(Parts) \in Nat
    BY <2>1, WorstPart
  <2>3. 100 - Min(Parts) \in Factors /\ 100 - Min(Parts) > 50
    BY <1>6, <2>1, <2>2
  <2> QED
    BY <1>2, <2>3
<1>9. ASSUME HealthLabel \in {"Good", "Excellent"}, Below(getStorageWearPercent, 51)
      PROVE  RiskLevel # "High"
  <2>1. Parts # {} /\ ~(Min(Parts) < 60)
    BY <1>7, <1>9
  <2>2. \A x \in Parts : x \in Nat /\ x >= 60
    BY <2>1, WorstPart
  <2>3. \A x \in Factors : x <= 50
    <3> TAKE x \in Factors
    <3>1. CASE x = getStorageWearPercent
      <4>1. x \in Int /\ x < 51
        BY <1>9, <3>1, WorstFactor DEF Below, Factors, Real
      <4> QED
        BY <4>1
    <3>2. ASSUME NEW y, Real(y) => y \in Parts, x = RemainderOf(y) PROVE x <= 50
      <4>1. Real(y) /\ x = 100 - y
        BY <3>2 DEF RemainderOf, Factors
      <4>2. y \in Nat /\ y >= 60
        BY <2>2, <3>2, <4>1
      <4> QED
        BY <4>1, <4>2
    <3>3. CASE x = RemainderOf(getPerformanceScore)
      BY <3>2, <3>3 DEF Parts, Real
    <3>4. CASE x = RemainderOf(getBatteryHealthPercent)
      BY <3>2, <3>4 DEF Parts, Real
    <3>5. CASE x = RemainderOf(getSecurityHealthPercent)
      BY <3>2, <3>5 DEF Parts, Real
    <3> QED
      BY <3>1, <3>3, <3>4, <3>5 DEF Factors
  <2>4. Factors # {} => RiskPercent \in Int /\ RiskPercent <= 50
    BY <2>3, WorstFactor
  <2>5. RealFactors = {} <=> Factors = {}
    BY WorstFactor
  <2> QED
    BY <2>4, <2>5 DEF RiskLevel, riskTier
<1> QED
  BY <1>4, <1>5, <1>8, <1>9 DEF RiskAgrees

-----------------------------------------------------------------------------
-----------------------------------------------------------------------------
(* The cards: recommendations. *)
LEMMA WhenGives ==
  ASSUME NEW condition \in BOOLEAN, NEW title, NEW high
  PROVE  /\ condition => \E r \in when(condition, title, high) : r.title = title
         /\ \A r \in when(condition, title, high) : condition /\ r.title = title /\ r.priority # "OK"
<1> DEFINE priority == IF high THEN "High" ELSE "Medium"
           rec == [title |-> title, priority |-> priority]
<1>1. priority # "OK"
  OBVIOUS
<1>2. when(condition, title, high) = IF condition THEN {rec} ELSE {}
  BY DEF when
<1> HIDE DEF priority
<1>3. rec.title = title /\ rec.priority = priority
  OBVIOUS
<1> HIDE DEF rec
<1> QED
  BY <1>1, <1>2, <1>3

BatteryDue == BatteryPastThreshold \/ isElevatedRisk(BatteryShown)

LEMMA AdviceGiven ==
  LET advised(title) == \E r \in Recommendations : r.title = title
      keep == [title |-> "Keep Monitoring", priority |-> "OK"]
  IN  /\ advised("Security Hardening") <=> getSecurityCompliance.real /\ ~getSecurityCompliance.ok
      /\ advised("Windows Update") <=> UpdatesPending
      /\ advised("BIOS Update") <=> Live("biosUpdate") = TRUE
      /\ keep \in Recommendations =>
           /\ Recommendations = {keep} /\ ~BatteryDue /\ ~isElevatedRisk(SsdShown)
           /\ ~(getSecurityCompliance.real /\ ~getSecurityCompliance.ok)
<1> DEFINE c1 == getSecurityCompliance.real /\ ~getSecurityCompliance.ok
           c3 == Live("biosUpdate") = TRUE
           s1 == when(c1, "Security Hardening", TRUE)
           s2 == when(UpdatesPending, "Windows Update", UpdatesPending /\ Live("updates") >= 3)
           s3 == when(c3, "BIOS Update", FALSE)
           s4 == when(BatteryDue, "Battery Replacement", BatteryPastThreshold \/ BatteryShown.value = "already-past-threshold")
           s5 == when(isElevatedRisk(SsdShown), "Storage Replacement", SsdShown.value \in {"already-past-threshold", "High"})
           keep == [title |-> "Keep Monitoring", priority |-> "OK"]
           wait == [title |-> "Not Enough History", priority |-> "Info"]
           advised(title) == \E r \in Recommendations : r.title = title
<1>1. recs = s1 \cup s2 \cup s3 \cup s4 \cup s5
  BY DEF recs, BatteryDue
<1>2. Recommendations = recs \/ (recs = {} /\ Recommendations \in {{keep}, {wait}})
  BY DEF Recommendations
<1>3. recs # {} => Recommendations = recs
  BY DEF Recommendations
<1>4. keep.title = "Keep Monitoring" /\ keep.priority = "OK" /\ wait.title = "Not Enough History" /\ wait.priority = "Info"
  OBVIOUS
<1>5. /\ c1 => \E r \in s1 : r.title = "Security Hardening"
      /\ \A r \in s1 : c1 /\ r.title = "Security Hardening" /\ r.priority # "OK"
  <2>1. c1 \in BOOLEAN
    OBVIOUS
  <2> HIDE DEF c1
  <2> QED
    BY <2>1, WhenGives
<1>6. /\ UpdatesPending => \E r \in s2 : r.title = "Windows Update"
      /\ \A r \in s2 : UpdatesPending /\ r.title = "Windows Update" /\ r.priority # "OK"
  <2>1. UpdatesPending \in BOOLEAN
    BY DEF UpdatesPending
  <2> QED
    BY <2>1, WhenGives
<1>7. /\ c3 => \E r \in s3 : r.title = "BIOS Update"
      /\ \A r \in s3 : c3 /\ r.title = "BIOS Update" /\ r.priority # "OK"
  <2>1. c3 \in BOOLEAN
    OBVIOUS
  <2> HIDE DEF c3
  <2> QED
    BY <2>1, WhenGives
<1>8. /\ BatteryDue => \E r \in s4 : r.title = "Battery Replacement"
      /\ \A r \in s4 : BatteryDue /\ r.title = "Battery Replacement" /\ r.priority # "OK"
  <2>1. BatteryDue \in BOOLEAN
    BY DEF BatteryDue, BatteryPastThreshold, isElevatedRisk
  <2> QED
    BY <2>1, WhenGives
<1>9. /\ isElevatedRisk(SsdShown) => \E r \in s5 : r.title = "Storage Replacement"
      /\ \A r \in s5 : isElevatedRisk(SsdShown) /\ r.title = "Storage Replacement" /\ r.priority # "OK"
  <2> DEFINE c5 == isElevatedRisk(SsdShown)
             high == SsdShown.value \in {"already-past-threshold", "High"}
  <2>1. c5 \in BOOLEAN
    BY DEF isElevatedRisk
  <2> HIDE DEF c5, high
  <2>2. /\ c5 => \E r \in when(c5, "Storage Replacement", high) : r.title = "Storage Replacement"
        /\ \A r \in when(c5, "Storage Replacement", high) : c5 /\ r.title = "Storage Replacement" /\ r.priority # "OK"
    BY <2>1, WhenGives
  <2> QED
    BY <2>2 DEF c5, high
<1> HIDE DEF c1, c3, s1, s2, s3, s4, s5, keep, wait
<1>10. \A r \in Recommendations : r \in recs \/ r = keep \/ r = wait
  BY <1>2
<1>11. advised("Security Hardening") <=> c1
  <2>1. ASSUME c1 PROVE advised("Security Hardening")
    BY <1>1, <1>3, <1>5, <2>1
  <2>2. ASSUME NEW r \in Recommendations, r.title = "Security Hardening" PROVE c1
    BY <1>1, <1>4, <1>5, <1>6, <1>7, <1>8, <1>9, <1>10, <2>2
  <2> QED
    BY <2>1, <2>2
<1>12. advised("Windows Update") <=> UpdatesPending
  <2>1. ASSUME UpdatesPending PROVE advised("Windows Update")
    BY <1>1, <1>3, <1>6, <2>1
  <2>2. ASSUME NEW r \in Recommendations, r.title = "Windows Update" PROVE UpdatesPending
    BY <1>1, <1>4, <1>5, <1>6, <1>7, <1>8, <1>9, <1>10, <2>2
  <2> QED
    BY <2>1, <2>2
<1>13. advised("BIOS Update") <=> c3
  <2>1. ASSUME c3 PROVE advised("BIOS Update")
    BY <1>1, <1>3, <1>7, <2>1
  <2>2. ASSUME NEW r \in Recommendations, r.title = "BIOS Update" PROVE c3
    BY <1>1, <1>4, <1>5, <1>6, <1>7, <1>8, <1>9, <1>10, <2>2
  <2> QED
    BY <2>1, <2>2
<1>14. ASSUME keep \in Recommendations
       PROVE  Recommendations = {keep} /\ ~BatteryDue /\ ~isElevatedRisk(SsdShown) /\ ~c1
  <2>1. \A r \in recs : r.priority # "OK"
    BY <1>1, <1>5, <1>6, <1>7, <1>8, <1>9
  <2>2. keep \notin recs /\ keep # wait
    BY <1>4, <2>1
  <2>3. recs = {} /\ Recommendations = {keep}
    BY <1>2, <1>3, <1>14, <2>2
  <2> QED
    BY <1>1, <1>5, <1>8, <1>9, <2>3
<1> QED
  BY <1>11, <1>12, <1>13, <1>14 DEF c1, c3, keep

-----------------------------------------------------------------------------
(* The cards: security. *)
Bad == \E f \in Known : ~InOrder(f)

LEMMA BadIsSeen ==
  ASSUME Kept
  PROVE  /\ Bad <=> getSecurityCompliance.real /\ ~getSecurityCompliance.ok
         /\ Bad <=> <<"security", "warn">> \in Insights
         /\ (\A c \in SecurityChecks : c[2]) <=> ~Bad
<1> DEFINE real == Real(getSecurityHealthPercent)
           ok == getSecurityHealthPercent = 100
<1>1. getSecurityCompliance.real = real /\ getSecurityCompliance.ok = ok
  BY DEF getSecurityCompliance
<1>2. Bad <=> real /\ ~ok
  BY SecurityScore DEF Bad
<1>3. Bad <=> <<"security", "warn">> \in Insights
  <2>1. /\ <<"security", "warn">> # <<"security", "ok">>
        /\ \A t : /\ <<"battery", t>> # <<"security", "warn">> /\ <<"disk", t>> # <<"security", "warn">>
                  /\ <<"ssd", t>> # <<"security", "warn">> /\ <<"thermal", t>> # <<"security", "warn">>
    OBVIOUS
  <2>2. \A r, c, w : /\ <<"security", "warn">> \notin insight("battery", r, c, w)
                     /\ <<"security", "warn">> \notin insight("disk", r, c, w)
                     /\ <<"security", "warn">> \notin insight("ssd", r, c, w)
                     /\ <<"security", "warn">> \notin insight("thermal", r, c, w)
    BY <2>1 DEF insight
  <2>3. <<"security", "warn">> \in Insights <=>
          <<"security", "warn">> \in insight("security", getSecurityCompliance.real, FALSE, ~getSecurityCompliance.ok)
    BY <2>2 DEF Insights
  <2>4. <<"security", "warn">> \in insight("security", getSecurityCompliance.real, FALSE, ~getSecurityCompliance.ok)
          <=> getSecurityCompliance.real /\ ~getSecurityCompliance.ok
    BY <2>1 DEF insight
  <2> QED
    BY <1>1, <1>2, <2>3, <2>4
<1>4. (\A c \in SecurityChecks : c[2]) <=> ~Bad
  <2>1. SecurityChecks = {<<f, InOrder(f)>> : f \in Known}
    BY DEF SecurityChecks, Known
  <2>2. ASSUME ~Bad, NEW c \in SecurityChecks PROVE c[2]
    <3>1. PICK f \in Known : c = <<f, InOrder(f)>>
      BY <2>1
    <3>2. InOrder(f)
      BY <2>2 DEF Bad
    <3> QED
      BY <3>1, <3>2
  <2>3. ASSUME \A c \in SecurityChecks : c[2], NEW f \in Known PROVE InOrder(f)
    <3>1. <<f, InOrder(f)>> \in SecurityChecks
      BY <2>1
    <3>2. <<f, InOrder(f)>>[2]
      BY <2>3, <3>1
    <3> QED
      BY <3>2
  <2> QED
    BY <2>2, <2>3 DEF Bad
<1> QED
  BY <1>1, <1>2, <1>3, <1>4

LEMMA InventoryAgrees ==
  ASSUME Kept
  PROVE  /\ getHardwareInventoryBadge = "Healthy" <=> Known = Signals /\ ~Bad
         /\ getHardwareInventoryBadge = "Healthy" <=> SecuritySignalsPct = 100
<1> DEFINE n == Cardinality(SecurityChecks)
<1>1. n \in 0..3 /\ (n = 3 <=> Known = Signals)
  BY SecurityCounts
<1>2. getHardwareInventoryBadge = "Healthy" <=> Known = Signals /\ ~Bad
  <2>1. getHardwareInventoryBadge = IF n < 3 THEN "Unknown" ELSE IF ~Bad THEN "Healthy" ELSE "Warning"
    BY BadIsSeen DEF getHardwareInventoryBadge
  <2> HIDE DEF n
  <2> QED
    BY <1>1, <2>1
<1>3. SecuritySignalsPct = 100 <=> Known = Signals /\ ~Bad
  <2>1. Null # 100
    BY NullAssumption
  <2>2. SecuritySignalsPct = IF Known = Signals THEN getSecurityHealthPercent ELSE Null
    BY <1>1 DEF SecuritySignalsPct
  <2>3. Known = Signals => Known # {}
    BY DEF Signals
  <2> QED
    BY <2>1, <2>2, <2>3, SecurityScore DEF Bad
<1> QED
  BY <1>2, <1>3

LEMMA SameTruth ==
  ASSUME NEW p \in BOOLEAN, NEW q \in BOOLEAN, p <=> q
  PROVE  p = q
  OBVIOUS

LEMMA SecurityFits == Kept => SecurityAgrees
<1> SUFFICES ASSUME Kept PROVE SecurityAgrees
  OBVIOUS
<1>1. Bad <=> \E r \in Recommendations : r.title = "Security Hardening"
  BY AdviceGiven, BadIsSeen
<1>2. ASSUME Bad PROVE ~AllGood
  <2> DEFINE b == [label |-> "Compliance", real |-> getSecurityCompliance.real, ok |-> getSecurityCompliance.ok]
  <2>1. b \in badges
    BY DEF badges
  <2>2. b.real /\ ~b.ok
    BY <1>2, BadIsSeen
  <2> HIDE DEF b
  <2> QED
    BY <2>1, <2>2 DEF AllGood, VerdictBadges
<1>3. Bad => getHardwareInventoryBadge # "Healthy"
  BY InventoryAgrees
<1>4. ASSUME Bad PROVE RiskLevel \in {"Medium", "High"}
  <2>1. Known # {} /\ Real(getSecurityHealthPercent) /\ getSecurityHealthPercent \in Nat /\ getSecurityHealthPercent <= 67
    BY <1>4, SecurityScore DEF Bad, Real
  <2> DEFINE x == 100 - getSecurityHealthPercent
  <2>2. x \in Int /\ x >= 33 /\ x = RemainderOf(getSecurityHealthPercent)
    BY <2>1 DEF RemainderOf
  <2> HIDE DEF x
  <2>3. x \in Factors
    BY <2>2, NullAssumption DEF Factors
  <2>4. RealFactors # {} /\ RiskPercent \in Int /\ x <= RiskPercent
    BY <2>3, WorstFactor
  <2> QED
    BY <2>2, <2>4 DEF RiskLevel, riskTier
<1>5. ASSUME Known # {}, ~Bad, ~(Cardinality(RealSubs) > 1) PROVE HealthLabel = "Excellent"
  <2>1. getSecurityHealthPercent = 100
    BY <1>5, SecurityScore DEF Bad
  <2> DEFINE pair == <<"Security", getSecurityHealthPercent>>
  <2>2. pair \in RealSubs
    <3>1. Real(getSecurityHealthPercent)
      BY <2>1, NullAssumption DEF Real
    <3> QED
      BY <3>1 DEF RealSubs, SubScores
  <2>3. IsFiniteSet(RealSubs) /\ Cardinality(RealSubs) = 1
    <3>1. Cardinality(RealSubs) = 1
      BY <1>5, <2>2, PartsCount
    <3> QED
      BY <3>1, PartsCount
  <2>4. RealSubs = {pair}
    <3>1. PICK x : RealSubs = {x}
      BY <2>3, FS_Singleton
    <3> HIDE DEF pair
    <3> QED
      BY <2>2, <3>1
  <2>5. ~Real(getPerformanceScore) /\ ~Real(getBatteryHealthPercent)
    <3>1. Real(getPerformanceScore) => <<"Performance", getPerformanceScore>> \in RealSubs
      BY DEF RealSubs, SubScores
    <3>2. Real(getBatteryHealthPercent) => <<"Battery", getBatteryHealthPercent>> \in RealSubs
      BY DEF RealSubs, SubScores
    <3>3. <<"Performance", getPerformanceScore>> # pair /\ <<"Battery", getBatteryHealthPercent>> # pair
      OBVIOUS
    <3> QED
      BY <2>4, <3>1, <3>2, <3>3
  <2>6. HealthScore = 100
    <3>1. Points(getPerformanceScore) = 0 /\ Points(getBatteryHealthPercent) = 0 /\ Points(getSecurityHealthPercent) = 100
      BY <2>1, <2>5, NullAssumption DEF Points, Real
    <3>2. HealthScore = Round(100, 1)
      BY <2>2, <2>3, <3>1 DEF HealthScore
    <3> QED
      BY <3>2 DEF Round
  <2>7. Parts = {100}
    BY <2>1, <2>5, NullAssumption DEF Parts, Real
  <2>8. {s[2] : s \in RealSubs} = {100} /\ Min({100}) = 100
    BY <2>7, WorstPart
  <2> QED
    BY <2>2, <2>6, <2>8 DEF HealthLabel
<1>6. getHardwareInventoryBadge = "Healthy" <=> (SecuritySignalsPct = 100)
  BY InventoryAgrees
<1> DEFINE hardening == \E r \in Recommendations : r.title = "Security Hardening"
           warned == <<"security", "warn">> \in Insights
           fits ==
             /\ Bad = hardening
             /\ Bad = warned
             /\ Bad => ~AllGood /\ getHardwareInventoryBadge # "Healthy" /\ RiskLevel \in {"Medium", "High"}
             /\ getHardwareInventoryBadge = "Healthy" <=> (SecuritySignalsPct = 100)
             /\ (Known # {} /\ ~Bad) => HealthLabel = "Excellent" \/ Cardinality(RealSubs) > 1
<1>7. Bad \in BOOLEAN /\ hardening \in BOOLEAN /\ warned \in BOOLEAN
  BY DEF Bad
<1>8. Bad <=> warned
  BY BadIsSeen
<1>9. SecurityAgrees = fits
  BY DEF SecurityAgrees, Bad, Known
<1> HIDE DEF hardening, warned
<1>10. Bad = hardening /\ Bad = warned
  BY <1>1, <1>7, <1>8, SameTruth DEF hardening
<1> QED
  BY <1>2, <1>3, <1>4, <1>5, <1>6, <1>9, <1>10

LEMMA NotWorn ==
  ASSUME NEW h \in Nat \cup {Null}, ~(Real(h) /\ h < 80)
  PROVE  AtLeast(h, 80) /\ Below(RemainderOf(h), 21)
<1>1. CASE h = Null
  BY <1>1 DEF AtLeast, Below, RemainderOf, Real
<1>2. CASE h # Null
  <2>1. h \in Nat /\ ~(h < 80)
    BY <1>2 DEF Real
  <2>2. h >= 80 /\ 100 - h < 21
    BY <2>1
  <2> QED
    BY <1>2, <2>2 DEF AtLeast, Below, RemainderOf, Real
<1> QED
  BY <1>1, <1>2

LEMMA AdviceFits == Kept => AdviceFitsReadings
<1> SUFFICES ASSUME Kept, [title |-> "Keep Monitoring", priority |-> "OK"] \in Recommendations
             PROVE  /\ Recommendations = {[title |-> "Keep Monitoring", priority |-> "OK"]}
                    /\ AtLeast(getBatteryHealthPercent, 80) /\ Below(getBatteryWearPercent, 21)
                    /\ <<"security", "warn">> \notin Insights
                    /\ {Live("ssdLife"), Live("batteryLife")} \cap ElevatedRisks = {}
  BY DEF AdviceFitsReadings
<1>1. /\ Recommendations = {[title |-> "Keep Monitoring", priority |-> "OK"]} /\ ~BatteryDue /\ ~isElevatedRisk(SsdShown)
      /\ ~(getSecurityCompliance.real /\ ~getSecurityCompliance.ok)
  BY AdviceGiven
<1>2. <<"security", "warn">> \notin Insights
  BY <1>1, BadIsSeen
<1>3. AtLeast(getBatteryHealthPercent, 80) /\ Below(getBatteryWearPercent, 21)
  <2> DEFINE health == getBatteryHealthPercent
  <2>1. health \in Nat \cup {Null} /\ ~(Real(health) /\ health < 80)
    BY <1>1, HealthTypes DEF BatteryDue, BatteryPastThreshold
  <2>2. getBatteryWearPercent = RemainderOf(health)
    BY DEF getBatteryWearPercent, RemainderOf
  <2> HIDE DEF health
  <2>3. AtLeast(health, 80) /\ Below(RemainderOf(health), 21)
    BY <2>1, NotWorn
  <2> QED
    BY <2>2, <2>3 DEF health
<1>4. \A p \in ElevatedRisks : isElevatedRisk(predictionToLifeDisplay(p))
  <2> TAKE p \in ElevatedRisks
  <2>1. Real(p)
    BY NullAssumption DEF Real
  <2> QED
    BY <2>1 DEF isElevatedRisk, predictionToLifeDisplay
<1>5. Live("ssdLife") \notin ElevatedRisks
  BY <1>1, <1>4 DEF SsdShown
<1>6. Live("batteryLife") \notin ElevatedRisks
  BY <1>1, <1>4 DEF BatteryShown, BatteryDue
<1> QED
  BY <1>1, <1>2, <1>3, <1>5, <1>6

LEMMA PagesFit == Kept => PagesAgree
<1> SUFFICES ASSUME Kept PROVE PagesAgree
  OBVIOUS
<1> DEFINE advised(title) == \E r \in Recommendations : r.title = title
<1>1. (WindowsUpdateLabel = "Update Available") <=> advised("Windows Update")
  <2>1. Live("updates") \in Nat \cup {Null}
    BY LiveTypes DEF Amounts
  <2>2. (WindowsUpdateLabel = "Update Available") <=> Real(Live("updates")) /\ Live("updates") # 0
    BY DEF WindowsUpdateLabel
  <2>3. UpdatesPending <=> Real(Live("updates")) /\ Live("updates") # 0
    BY <2>1 DEF UpdatesPending, Real
  <2>4. advised("Windows Update") <=> UpdatesPending
    BY AdviceGiven
  <2> QED
    BY <2>2, <2>3, <2>4
<1>2. (<<"BIOS", "Update Available">> \in Tiles) <=> advised("BIOS Update")
  <2>1. (<<"BIOS", "Update Available">> \in Tiles) <=> BiosFirmwareLabel = "Update Available"
    BY DEF Tiles
  <2>2. Live("biosUpdate") \in BOOLEAN \cup {Null}
    BY LiveTypes DEF Flags
  <2>3. BiosFirmwareLabel = "Update Available" <=> Live("biosUpdate") = TRUE
    BY <2>2, NullAssumption DEF BiosFirmwareLabel, Real
  <2>4. advised("BIOS Update") <=> Live("biosUpdate") = TRUE
    BY AdviceGiven
  <2> QED
    BY <2>1, <2>3, <2>4
<1>3. ASSUME IntegrityHeader = "Verified" PROVE SecuritySignalsPct = 100 /\ <<"tpm", "Verified">> \in InventoryRows
  <2>1. getHardwareInventoryBadge = "Healthy"
    BY <1>3 DEF IntegrityHeader
  <2>2. SecuritySignalsPct = 100 /\ Known = Signals /\ ~Bad
    BY <2>1, InventoryAgrees
  <2>3. Real(Live("tpm")) /\ InOrder("tpm")
    BY <2>2 DEF Known, Signals, Bad
  <2>4. TpmLabel = "Verified"
    BY <2>3 DEF TpmLabel, InOrder
  <2> QED
    BY <2>2, <2>4 DEF InventoryRows
<1>4. MemoryLabel = "Attention" => <<"RAM", "Healthy">> \notin Tiles
  <2>1. (<<"RAM", "Healthy">> \in Tiles) => getMemoryBadge = "Healthy"
    BY DEF Tiles
  <2>2. getMemoryBadge = "Healthy" => MemoryLabel = "Stable"
    BY DEF MemoryLabel
  <2> QED
    BY <2>1, <2>2
<1>5. ASSUME HardwareHealth = "Attention" PROVE \E t \in Tiles : t[2] \in {"Poor", "Critical"}
  <2>1. getBatteryHealthBadge = "Poor" \/ getStorageBadge = "Critical"
    BY <1>5 DEF HardwareHealth
  <2> DEFINE bt == <<"Battery", getBatteryHealthBadge>>
             st == <<"Storage", getStorageBadge>>
  <2>2. bt \in Tiles /\ st \in Tiles
    BY DEF Tiles
  <2>3. bt[2] = getBatteryHealthBadge /\ st[2] = getStorageBadge
    OBVIOUS
  <2> HIDE DEF bt, st
  <2> QED
    BY <2>1, <2>2, <2>3
<1>6. ASSUME CoolingFooter = "All sensors within range" PROVE Below(Live("cpuTemp"), thresholds.cpuTemp.warning)
  <2>1. getThermalCardBadge = "Normal"
    <3>1. getThermalCardBadge \in {"Unknown", "Critical", "Warning", "Normal"}
      BY DEF getThermalCardBadge
    <3> QED
      BY <1>6, <3>1 DEF CoolingFooter
  <2>2. Temperatures # {} /\ ~(Max(Temperatures) >= thresholds.cpuTemp.warning)
    BY <2>1 DEF getThermalCardBadge
  <2>3. Real(Live("cpuTemp")) => Live("cpuTemp") \in Temperatures
    BY HottestReading DEF Thermometers, Sensors
  <2>4. Max(Temperatures) \in Int /\ \A t \in Temperatures : t \in Int /\ t <= Max(Temperatures)
    BY <2>2, HottestReading
  <2>5. thresholds.cpuTemp.warning \in Int
    BY ThresholdsAssumption DEF Kept
  <2> QED
    BY <2>2, <2>3, <2>4, <2>5 DEF Below
<1>7. (WindowsUpdateLabel = "Update Available") = advised("Windows Update")
  BY <1>1
<1>8. (<<"BIOS", "Update Available">> \in Tiles) = advised("BIOS Update")
  <2> DEFINE tile == <<"BIOS", "Update Available">> \in Tiles
             advice == advised("BIOS Update")
  <2>1. tile \in BOOLEAN
    OBVIOUS
  <2>2. advice \in BOOLEAN
    OBVIOUS
  <2>3. tile <=> advice
    BY <1>2
  <2> HIDE DEF tile, advice
  <2>4. tile = advice
    BY <2>1, <2>2, <2>3, SameTruth
  <2> QED
    BY <2>4 DEF tile, advice
<1> QED
  BY <1>3, <1>4, <1>5, <1>6, <1>7, <1>8 DEF PagesAgree

\* For every snapshot the agent may return and all thresholds the user may set, nothing shown
\* outlives the connection, and the verdicts CardsAgree lists bind each other: security, risk
\* and advice on every page, a badge and the alert of its reading but for the half percent by
\* which the memory badge is rounded, the thermal badge and the rows that go by its thresholds,
\* drivers but for an empty firmware string, updates (derived.ts, App.tsx).
THEOREM CardsStayConsistent == DashboardSpec => []CardsAgree
<1>1. DashboardTypeOK => Kept
  BY DEF DashboardTypeOK, Kept
<1>2. Kept => CardsAgree
  BY NothingIsStale, SecurityFits, RiskFits, BadgesCover, AdviceFits, ThermalFits, DriversFit, PagesFit DEF CardsAgree
<1> QED
  BY <1>1, <1>2, HistoryTypes, PTL
=============================================================================
