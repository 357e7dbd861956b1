---------------------------- MODULE DeviceCommands ----------------------------
(***************************************************************************)
(* Remote dispatch of one device's commands: the console enqueues through  *)
(* backend/device_commands.go, the agent picks the command up from its     *)
(* heartbeat, runs it and reports the outcome                              *)
(* (local-agent/server/telemetry-server.mjs runPendingCommandIfAny).       *)
(*                                                                         *)
(* Both backend handlers read the row and write it in separate SQL         *)
(* statements, every exchange with the agent may be lost or outlive the    *)
(* agent's 15 s abort, and the agent may die at any point of its cycle.    *)
(***************************************************************************)
EXTENDS Integers, FiniteSets

CONSTANTS
  Admins,     \* concurrent enqueue requests
  MaxCmds,    \* bound: commands enqueued in a behaviour
  MaxFaults,  \* bound: lost calls, aborted waits and agent deaths
  MaxChanges, \* bound: changes of the tenant's plan or switch
  NoCmd       \* the agent or a request holds no command

Cmds == 1..MaxCmds

ASSUME BoundsAssumption == MaxCmds \in Nat /\ MaxFaults \in Nat /\ MaxChanges \in Nat
ASSUME NoCmdAssumption == NoCmd \notin Cmds

Kinds == {"canned", "custom"}
Outcomes == {"succeeded", "failed", "blocked"}

VARIABLES
  status,   \* status[c]: device_commands.status, "absent" before the INSERT
  kind,     \* kind[c]: run-custom-command, or one of the six fixed actions
  policy,   \* the kinds the plan's features cover, and the tenant's switch
  admin,    \* admin[a]: an enqueue request between its statements
  agent,    \* the agent's cycle
  reports,  \* completion requests on the wire or in the backend
  outcomes, \* outcomes[c]: how the executions of c ended
  runs,     \* runs[c]: how many times c was executed
  faults,   \* faults so far
  changes   \* policy changes so far

vars == <<status, kind, policy, admin, agent, reports, outcomes, runs, faults, changes>>

-----------------------------------------------------------------------------
Pending == {c \in Cmds : status[c] = "pending"}
Unused == {c \in Cmds : status[c] = "absent" /\ \A a \in Admins : admin[a].cmd # c}

Policies == [plan : SUBSET Kinds, switch : BOOLEAN]

\* isRemoteCommandExecutionAllowed of the backend: the tenant's switch and the
\* plan.  The six fixed actions are not gated at enqueue time.
EnqueueAllowed(k) == k = "custom" => policy.switch /\ k \in policy.plan

\* Mutant of OldestPending: a query that expects at most one row.
OnlyPending == IF Cardinality(Pending) = 1 THEN Pending ELSE {}

\* getOldestPendingCommand: a command's number is its rank by created_at.
OldestPending == {c \in Pending : \A o \in Pending : c <= o}

\* planSeen: the plan covered the command at some point since the heartbeat that
\* brought it (history).
IdleAgent == [pc |-> "idle", cmd |-> NoCmd, outcome |-> "none", planSeen |-> FALSE]

Init ==
  /\ status = [c \in Cmds |-> "absent"]
  /\ kind = [c \in Cmds |-> "canned"]
  /\ policy \in Policies
  /\ admin = [a \in Admins |-> [pc |-> "idle", cmd |-> NoCmd, kind |-> "canned"]]
  /\ agent = IdleAgent
  /\ reports = {}
  /\ outcomes = [c \in Cmds |-> {}]
  /\ runs = [c \in Cmds |-> 0]
  /\ faults = 0
  /\ changes = 0

-----------------------------------------------------------------------------
(* handleEnqueueCommand: the policy gate, hasPendingCommand, the INSERT. *)

Request(a, k) ==
  /\ admin[a].pc = "idle"
  /\ EnqueueAllowed(k)
  /\ admin' = [admin EXCEPT ![a].pc = "check", ![a].kind = k]
  /\ UNCHANGED <<status, kind, policy, agent, reports, outcomes, runs, faults, changes>>

\* 409 when a command is pending, else on to the INSERT with a fresh id.
CheckPending(a) ==
  /\ admin[a].pc = "check"
  /\ \/ /\ Pending # {}
        /\ admin' = [admin EXCEPT ![a].pc = "idle"]
     \/ /\ Pending = {}
        /\ \E c \in Unused :
             /\ \A o \in Unused : c <= o
             /\ admin' = [admin EXCEPT ![a].pc = "insert", ![a].cmd = c]
  /\ UNCHANGED <<status, kind, policy, agent, reports, outcomes, runs, faults, changes>>

InsertCommand(a) ==
  LET c == admin[a].cmd IN
  /\ admin[a].pc = "insert"
  /\ status' = [status EXCEPT ![c] = "pending"]
  /\ kind' = [kind EXCEPT ![c] = admin[a].kind]
  /\ admin' = [admin EXCEPT ![a].pc = "idle", ![a].cmd = NoCmd]
  /\ UNCHANGED <<policy, agent, reports, outcomes, runs, faults, changes>>

\* A plan change, or PATCH of the tenant's remote-command switch (settings.go).
ChangePolicy(p) ==
  /\ changes < MaxChanges
  /\ p # policy
  /\ policy' = p
  /\ changes' = changes + 1
  /\ agent' = IF agent.cmd = NoCmd THEN agent
              ELSE [agent EXCEPT !.planSeen = @ \/ kind[agent.cmd] \in p.plan]
  /\ UNCHANGED <<status, kind, admin, reports, outcomes, runs, faults>>

-----------------------------------------------------------------------------
(* The agent's cycle.  handleHeartbeat reads the pending command; the reply *)
(* may be acted on much later, or never arrive.                             *)

Heartbeat ==
  /\ agent.pc = "idle"
  /\ \E c \in OldestPending :
       agent' = [agent EXCEPT !.pc = "reply", !.cmd = c,
                             !.planSeen = kind[c] \in policy.plan]
  /\ UNCHANGED <<status, kind, policy, admin, reports, outcomes, runs, faults, changes>>

\* Mutant of Covered: the tenant's switch stands in for the plan.
CoveredOrSwitchedOn(c) == kind[c] \in policy.plan \/ policy.switch

\* The entitlement's features, as the device sees them: the plan's alone.
Covered(c) == kind[c] \in policy.plan

\* Mutant of CheckPolicy: a refusal is reported without naming an outcome.
RefuseSilently ==
  /\ agent.pc = "reply"
  /\ agent' = [agent EXCEPT !.pc = IF Covered(agent.cmd) THEN "run" ELSE "report"]
  /\ UNCHANGED <<status, kind, policy, admin, reports, outcomes, runs, faults, changes>>

\* The fresh policy check before every run.  It fails closed on any error.
CheckPolicy ==
  /\ agent.pc = "reply"
  /\ \/ /\ Covered(agent.cmd)
        /\ agent' = [agent EXCEPT !.pc = "run"]
        /\ UNCHANGED <<outcomes, faults>>
     \/ /\ \/ ~Covered(agent.cmd) /\ UNCHANGED faults
           \/ faults < MaxFaults /\ faults' = faults + 1
        /\ agent' = [agent EXCEPT !.pc = "report", !.outcome = "blocked"]
        /\ outcomes' = [outcomes EXCEPT ![agent.cmd] = @ \cup {"blocked"}]
  /\ UNCHANGED <<status, kind, policy, admin, reports, runs, changes>>

Run ==
  /\ agent.pc = "run"
  /\ \E o \in {"succeeded", "failed"} :
       /\ agent' = [agent EXCEPT !.pc = "report", !.outcome = o]
       /\ outcomes' = [outcomes EXCEPT ![agent.cmd] = @ \cup {o}]
  /\ runs' = [runs EXCEPT ![agent.cmd] = @ + 1]
  /\ UNCHANGED <<status, kind, policy, admin, reports, faults, changes>>

\* Mutant of Report: fire and forget, the next heartbeat is not held back.
ReportAndForget ==
  /\ agent.pc = "report"
  /\ \E i \in 1..(Cardinality(reports) + 1) :
       /\ \A m \in reports : m.id # i
       /\ \A j \in 1..(i - 1) : \E m \in reports : m.id = j
       /\ reports' = reports \cup
            {[id |-> i, cmd |-> agent.cmd, outcome |-> agent.outcome, pc |-> "sent", awaited |-> FALSE]}
  /\ agent' = IdleAgent
  /\ UNCHANGED <<status, kind, policy, admin, outcomes, runs, faults, changes>>

\* POST .../complete; the agent waits for the response.
Report ==
  /\ agent.pc = "report"
  /\ \E i \in 1..(Cardinality(reports) + 1) :
       /\ \A m \in reports : m.id # i
       /\ \A j \in 1..(i - 1) : \E m \in reports : m.id = j
       /\ reports' = reports \cup
            {[id |-> i, cmd |-> agent.cmd, outcome |-> agent.outcome, pc |-> "sent", awaited |-> TRUE]}
  /\ agent' = [agent EXCEPT !.pc = "wait"]
  /\ UNCHANGED <<status, kind, policy, admin, outcomes, runs, faults, changes>>

\* The response arrived; whatever it says, the cycle goes on.
Answered ==
  /\ agent.pc = "wait"
  /\ \A m \in reports : ~m.awaited
  /\ agent' = IdleAgent
  /\ UNCHANGED <<status, kind, policy, admin, reports, outcomes, runs, faults, changes>>

Abandon(S) == {[m EXCEPT !.awaited = FALSE] : m \in S}

\* The 15 s abort of the report, or the death and restart of the agent at any
\* point of its cycle.  A request already sent lives on.
AgentFault ==
  /\ faults < MaxFaults
  /\ agent.pc # "idle"
  /\ faults' = faults + 1
  /\ agent' = IdleAgent
  /\ reports' = Abandon(reports)
  /\ UNCHANGED <<status, kind, policy, admin, outcomes, runs, changes>>

-----------------------------------------------------------------------------
(* handleCompleteCommand: the status check, then an unconditional UPDATE. *)

CheckCompletion(m) ==
  /\ m.pc = "sent"
  /\ IF status[m.cmd] = "pending"
     THEN reports' = (reports \ {m}) \cup {[m EXCEPT !.pc = "update"]}
     ELSE reports' = reports \ {m}
  /\ UNCHANGED <<status, kind, policy, admin, agent, outcomes, runs, faults, changes>>

\* Mutant of Complete: whatever is not a failure is recorded as a success.
CompleteAsSuccess(m) ==
  /\ m.pc = "update"
  /\ status' = [status EXCEPT ![m.cmd] = IF m.outcome = "failed" THEN "failed" ELSE "succeeded"]
  /\ reports' = reports \ {m}
  /\ UNCHANGED <<kind, policy, admin, agent, outcomes, runs, faults, changes>>

Complete(m) ==
  /\ m.pc = "update"
  /\ status' = [status EXCEPT ![m.cmd] = m.outcome]
  /\ reports' = reports \ {m}
  /\ UNCHANGED <<kind, policy, admin, agent, outcomes, runs, faults, changes>>

\* The request is lost, or the backend restarts under its handler.
LoseReport(m) ==
  /\ faults < MaxFaults
  /\ faults' = faults + 1
  /\ reports' = reports \ {m}
  /\ UNCHANGED <<status, kind, policy, admin, agent, outcomes, runs, changes>>

-----------------------------------------------------------------------------
Console ==
  \/ \E a \in Admins : (\E k \in Kinds : Request(a, k)) \/ CheckPending(a) \/ InsertCommand(a)
  \/ \E p \in Policies : ChangePolicy(p)

AgentStep == Heartbeat \/ CheckPolicy \/ Run \/ Report \/ Answered

Serve == \E m \in reports : CheckCompletion(m) \/ Complete(m)

Fault == AgentFault \/ (\E m \in reports : LoseReport(m))

Next == Console \/ AgentStep \/ Serve \/ Fault

Spec == Init /\ [][Next]_vars

\* backendPollLoop runs forever and swallows every error of a cycle; the
\* backend's handlers run to completion.
FairSpec == Spec /\ WF_vars(AgentStep) /\ WF_vars(Serve)

-----------------------------------------------------------------------------
Reports == [id : Nat \ {0}, cmd : Cmds, outcome : Outcomes, pc : {"sent", "update"}, awaited : BOOLEAN]

\* The types of the state; requests on the wire have distinct ids.
TypeOK ==
  /\ status \in [Cmds -> {"absent", "pending"} \cup Outcomes]
  /\ kind \in [Cmds -> Kinds]
  /\ policy \in Policies
  /\ admin \in [Admins -> [pc : {"idle", "check", "insert"}, cmd : Cmds \cup {NoCmd}, kind : Kinds]]
  /\ agent \in [pc : {"idle", "reply", "run", "report", "wait"}, cmd : Cmds \cup {NoCmd},
                outcome : Outcomes \cup {"none"}, planSeen : BOOLEAN]
  /\ reports \subseteq Reports
  /\ outcomes \in [Cmds -> SUBSET Outcomes]
  /\ runs \in [Cmds -> Nat]
  /\ faults \in 0..MaxFaults
  /\ changes \in 0..MaxChanges

\* A command is never shown as succeeded, failed or blocked unless one of its
\* own executions really ended that way, whatever was lost, late or repeated.
StatusWasEarned ==
  \A c \in Cmds : status[c] \in Outcomes => status[c] \in outcomes[c]

\* Re-execution has no other cause than a fault: every run of a command beyond
\* its first is paid for by a lost report, an abort or an agent death.
RunsArePaidFor ==
  \A c \in Cmds : runs[c] <= 1 + faults

\* v1 allows only one pending command per device at a time (schema.sql).
OnePending == Cardinality(Pending) <= 1

\* A policy gate that never acts on a stale value: no command runs unless the
\* plan covered it at some point since the heartbeat that brought it, however
\* long the command waited and whatever changed meanwhile.
PlanGuardsRun ==
  [][Run => agent.planSeen]_vars

\* Every command that was enqueued is eventually answered for: lost reports,
\* aborts and agent deaths only make the next heartbeat bring it again.
EventuallyCompleted ==
  \A c \in Cmds : status[c] = "pending" ~> status[c] \in Outcomes
==============================================================================
