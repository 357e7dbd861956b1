------------------------- MODULE DeviceCommandsProofs -------------------------
(***************************************************************************)
(* What holds of DeviceCommands for every number of administrators,        *)
(* commands, faults and policy changes; and, in the last part, of the      *)
(* other way commands reach the agent, MqttLink, for every number of       *)
(* identities, any commands and any number of mishaps.                     *)
(***************************************************************************)
EXTENDS DeviceCommands, MqttLink, TLAPS

-----------------------------------------------------------------------------
(* Type correctness, together with what the agent and the console hold at  *)
(* each point: a busy agent has a command, an outcome to report is one     *)
(* its command really had, and a number waiting for its INSERT is unused.  *)

AgentHolds ==
  /\ agent.pc # "idle" => agent.cmd \in Cmds /\ status[agent.cmd] # "absent"
  /\ agent.pc = "report" => agent.outcome \in outcomes[agent.cmd]

AdminHolds ==
  \A a \in Admins :
    /\ admin[a].pc # "insert" => admin[a].cmd = NoCmd
    /\ admin[a].pc = "insert" =>
         /\ admin[a].cmd \in Cmds
         /\ status[admin[a].cmd] = "absent"
         /\ \A b \in Admins \ {a} : admin[b].cmd # admin[a].cmd

ReportsHold ==
  \A m \in reports : /\ m.outcome \in outcomes[m.cmd]
                     /\ status[m.cmd] # "absent"
                     /\ m.awaited => agent.pc = "wait" /\ agent.cmd = m.cmd

Holds == TypeOK /\ AgentHolds /\ AdminHolds /\ ReportsHold

LEMMA HoldsInit == Init => Holds
  BY BoundsAssumption DEF Init, Holds, TypeOK, AgentHolds, AdminHolds, ReportsHold,
     IdleAgent, Outcomes, Kinds

AgentRecords ==
  [pc : {"idle", "reply", "run", "report", "wait"}, cmd : Cmds \cup {NoCmd},
   outcome : Outcomes \cup {"none"}, planSeen : BOOLEAN]

\* What a policy change, a heartbeat, a check and a run leave in the agent.
LEMMA AgentType ==
  ASSUME Holds, [Next]_vars
  PROVE  agent' \in AgentRecords
<1> USE DEF AgentRecords
<1>0. agent \in AgentRecords
  BY DEF Holds, TypeOK
<1>1. ASSUME NEW p \in Policies, ChangePolicy(p) PROVE agent' \in AgentRecords
  <2>1. CASE agent.cmd = NoCmd
    BY <1>0, <1>1, <2>1 DEF ChangePolicy
  <2>2. CASE agent.cmd # NoCmd
    <3> DEFINE q == agent.planSeen \/ kind[agent.cmd] \in p.plan
    <3>1. q \in BOOLEAN
      OBVIOUS
    <3>2. agent' = [agent EXCEPT !.planSeen = q]
      BY <1>1, <2>2 DEF ChangePolicy
    <3> HIDE DEF q
    <3> QED
      BY <1>0, <3>1, <3>2
  <2> QED
    BY <2>1, <2>2
<1>2. CASE Heartbeat
  <2>1. PICK c \in OldestPending :
           agent' = [agent EXCEPT !.pc = "reply", !.cmd = c,
                                  !.planSeen = kind[c] \in policy.plan]
    BY <1>2 DEF Heartbeat
  <2>2. c \in Cmds
    BY DEF OldestPending, Pending
  <2> DEFINE q == kind[c] \in policy.plan
  <2>3. q \in BOOLEAN /\ agent' = [agent EXCEPT !.pc = "reply", !.cmd = c,
                                                !.planSeen = q]
    BY <2>1
  <2> HIDE DEF q
  <2> QED
    BY <1>0, <2>2, <2>3
<1>3. CASE CheckPolicy
  <2>1. \/ agent' = [agent EXCEPT !.pc = "run"]
        \/ agent' = [agent EXCEPT !.pc = "report", !.outcome = "blocked"]
    BY <1>3 DEF CheckPolicy
  <2> QED
    BY <1>0, <2>1 DEF Outcomes
<1>4. CASE Run
  <2>1. PICK o \in {"succeeded", "failed"} : agent' = [agent EXCEPT !.pc = "report", !.outcome = o]
    BY <1>4 DEF Run
  <2> QED
    BY <1>0, <2>1 DEF Outcomes
<1>5. CASE Report
  BY <1>0, <1>5 DEF Report
<1>6. CASE Answered \/ AgentFault
  <2>1. agent' = IdleAgent
    BY <1>6 DEF Answered, AgentFault
  <2>2. IdleAgent \in AgentRecords
    BY DEF IdleAgent
  <2> QED
    BY <2>1, <2>2
<1>7. CASE UNCHANGED agent
  BY <1>0, <1>7
<1> QED
  BY <1>1, <1>2, <1>3, <1>4, <1>5, <1>6, <1>7
     DEF Next, Console, AgentStep, Serve, Fault, vars, Request, CheckPending,
         InsertCommand, CheckCompletion, Complete, LoseReport

\* Requests on the wire stay well-formed.
LEMMA ReportsType ==
  ASSUME Holds, [Next]_vars
  PROVE  reports' \subseteq Reports
<1>0. reports \subseteq Reports
  BY DEF Holds, TypeOK
<1>1. CASE Report
  <2>1. PICK i \in 1..(Cardinality(reports) + 1) :
          reports' = reports \cup {[id |-> i, cmd |-> agent.cmd, outcome |-> agent.outcome,
                                    pc |-> "sent", awaited |-> TRUE]}
    BY <1>1 DEF Report
  <2>2. i \in Nat \ {0}
    OBVIOUS
  <2>3. agent.cmd \in Cmds /\ agent.outcome \in Outcomes
    BY <1>1 DEF Report, Holds, AgentHolds, TypeOK
  <2> DEFINE new == [id |-> i, cmd |-> agent.cmd, outcome |-> agent.outcome,
                     pc |-> "sent", awaited |-> TRUE]
  <2>4. new \in Reports
    BY <2>2, <2>3 DEF Reports
  <2> HIDE DEF new
  <2> QED
    BY <1>0, <2>1, <2>4 DEF new
<1>2. CASE AgentFault
  <2> SUFFICES ASSUME NEW n \in reports' PROVE n \in Reports
    OBVIOUS
  <2>1. PICK m \in reports : n = [m EXCEPT !.awaited = FALSE]
    BY <1>2 DEF AgentFault, Abandon
  <2> QED
    BY <1>0, <2>1 DEF Reports
<1>3. ASSUME NEW m \in reports, CheckCompletion(m) PROVE reports' \subseteq Reports
  <2>1. [m EXCEPT !.pc = "update"] \in Reports
    BY <1>0 DEF Reports
  <2> QED
    BY <1>0, <1>3, <2>1 DEF CheckCompletion
<1>4. ASSUME NEW m \in reports, Complete(m) \/ LoseReport(m) PROVE reports' \subseteq Reports
  BY <1>0, <1>4 DEF Complete, LoseReport
<1>5. CASE UNCHANGED reports
  BY <1>0, <1>5
<1> QED
  BY <1>1, <1>2, <1>3, <1>4, <1>5
     DEF Next, Console, AgentStep, Serve, Fault, vars, Request, CheckPending,
         InsertCommand, ChangePolicy, Heartbeat, CheckPolicy, Run, Answered

LEMMA TypeNext ==
  ASSUME Holds, [Next]_vars
  PROVE  TypeOK'
<1> USE BoundsAssumption
<1>0. TypeOK
  BY DEF Holds
<1>1. agent' \in AgentRecords /\ reports' \subseteq Reports
  BY AgentType, ReportsType
<1>2. status' \in [Cmds -> {"absent", "pending"} \cup Outcomes]
  <2>1. ASSUME NEW m \in reports, Complete(m) PROVE status' \in [Cmds -> {"absent", "pending"} \cup Outcomes]
    BY <1>0, <2>1 DEF Complete, TypeOK, Reports
  <2>2. ASSUME NEW a \in Admins, InsertCommand(a) PROVE status' \in [Cmds -> {"absent", "pending"} \cup Outcomes]
    BY <1>0, <2>2 DEF InsertCommand, TypeOK
  <2>3. CASE UNCHANGED status
    BY <1>0, <2>3 DEF TypeOK
  <2> QED
    BY <2>1, <2>2, <2>3
       DEF Next, Console, AgentStep, Serve, Fault, vars, Request, CheckPending, ChangePolicy,
           Heartbeat, CheckPolicy, Run, Report, Answered, AgentFault, CheckCompletion, LoseReport
<1>3. kind' \in [Cmds -> Kinds] /\ admin' \in [Admins -> [pc : {"idle", "check", "insert"}, cmd : Cmds \cup {NoCmd}, kind : Kinds]]
  <2> DEFINE Good == kind' \in [Cmds -> Kinds] /\ admin' \in [Admins -> [pc : {"idle", "check", "insert"}, cmd : Cmds \cup {NoCmd}, kind : Kinds]]
  <2>1. ASSUME NEW a \in Admins, NEW k \in Kinds, Request(a, k) PROVE Good
    BY <1>0, <2>1 DEF Request, TypeOK
  <2>2. ASSUME NEW a \in Admins, CheckPending(a) PROVE Good
    BY <1>0, <2>2 DEF CheckPending, Unused, TypeOK
  <2>3. ASSUME NEW a \in Admins, InsertCommand(a) PROVE Good
    BY <1>0, <2>3 DEF InsertCommand, TypeOK
  <2>4. CASE UNCHANGED <<kind, admin>>
    BY <1>0, <2>4 DEF TypeOK
  <2> QED
    BY <2>1, <2>2, <2>3, <2>4
       DEF Next, Console, AgentStep, Serve, Fault, vars, ChangePolicy, Heartbeat, CheckPolicy,
           Run, Report, Answered, AgentFault, CheckCompletion, Complete, LoseReport
<1>4. outcomes' \in [Cmds -> SUBSET Outcomes] /\ runs' \in [Cmds -> Nat]
  <2>1. CASE CheckPolicy
    BY <1>0, <2>1 DEF CheckPolicy, TypeOK, Outcomes
  <2>2. CASE Run
    <3>1. PICK o \in {"succeeded", "failed"} : outcomes' = [outcomes EXCEPT ![agent.cmd] = @ \cup {o}]
      BY <2>2 DEF Run
    <3>2. outcomes' \in [Cmds -> SUBSET Outcomes]
      BY <1>0, <3>1 DEF TypeOK, Outcomes
    <3>3. runs' \in [Cmds -> Nat]
      <4>1. runs \in [Cmds -> Nat] /\ runs' = [runs EXCEPT ![agent.cmd] = @ + 1]
        BY <1>0, <2>2 DEF TypeOK, Run
      <4>2. \A c \in Cmds : runs[c] + 1 \in Nat
        BY <4>1
      <4> QED
        BY <4>1, <4>2
    <3> QED
      BY <3>2, <3>3
  <2>3. CASE UNCHANGED <<outcomes, runs>>
    BY <1>0, <2>3 DEF TypeOK
  <2> QED
    BY <2>1, <2>2, <2>3
       DEF Next, Console, AgentStep, Serve, Fault, vars, Request, CheckPending, InsertCommand,
           ChangePolicy, Heartbeat, Report, Answered, AgentFault, CheckCompletion, Complete, LoseReport
<1>5. policy' \in Policies /\ faults' \in 0..MaxFaults /\ changes' \in 0..MaxChanges
  <2> DEFINE Good == policy' \in Policies /\ faults' \in 0..MaxFaults /\ changes' \in 0..MaxChanges
  <2>1. ASSUME NEW p \in Policies, ChangePolicy(p) PROVE Good
    BY <1>0, <2>1 DEF ChangePolicy, TypeOK
  <2>2. CASE CheckPolicy
    BY <1>0, <2>2 DEF CheckPolicy, TypeOK
  <2>3. CASE AgentFault
    BY <1>0, <2>3 DEF AgentFault, TypeOK
  <2>4. ASSUME NEW m \in reports, LoseReport(m) PROVE Good
    BY <1>0, <2>4 DEF LoseReport, TypeOK
  <2>5. CASE UNCHANGED <<policy, faults, changes>>
    BY <1>0, <2>5 DEF TypeOK
  <2> QED
    BY <2>1, <2>2, <2>3, <2>4, <2>5
       DEF Next, Console, AgentStep, Serve, Fault, vars, Request, CheckPending, InsertCommand,
           Heartbeat, Run, Report, Answered, CheckCompletion, Complete
<1> QED
  BY <1>1, <1>2, <1>3, <1>4, <1>5 DEF TypeOK, AgentRecords

-----------------------------------------------------------------------------
(* Ids are handed out before the INSERT, so nobody else fills the row, and *)
(* a row once inserted never goes back to absent.                          *)

LEMMA NeverAbsentAgain ==
  ASSUME Holds, [Next]_vars, NEW c \in Cmds, status[c] # "absent"
  PROVE  status'[c] # "absent"
<1>0. TypeOK
  BY DEF Holds
<1>1. ASSUME NEW m \in reports, Complete(m) PROVE status'[c] # "absent"
  <2>1. m.outcome \in Outcomes
    BY <1>0 DEF TypeOK, Reports
  <2> QED
    BY <1>0, <1>1, <2>1 DEF Complete, TypeOK, Outcomes
<1>2. ASSUME NEW a \in Admins, InsertCommand(a) PROVE status'[c] # "absent"
  BY <1>0, <1>2 DEF InsertCommand, TypeOK
<1>3. CASE UNCHANGED status
  BY <1>3
<1> QED
  BY <1>1, <1>2, <1>3
     DEF Next, Console, AgentStep, Serve, Fault, vars, Request, CheckPending, ChangePolicy,
         Heartbeat, CheckPolicy, Run, Report, Answered, AgentFault, CheckCompletion, LoseReport

\* What an execution led to is never forgotten.
LEMMA OutcomesGrow ==
  ASSUME Holds, [Next]_vars, NEW c \in Cmds
  PROVE  outcomes[c] \subseteq outcomes'[c]
<1>0. TypeOK
  BY DEF Holds
<1>1. CASE CheckPolicy
  <2>1. \/ outcomes' = outcomes
        \/ outcomes' = [outcomes EXCEPT ![agent.cmd] = @ \cup {"blocked"}]
    BY <1>1 DEF CheckPolicy
  <2> QED
    BY <1>0, <2>1 DEF TypeOK
<1>2. CASE Run
  <2>1. PICK o \in {"succeeded", "failed"} : outcomes' = [outcomes EXCEPT ![agent.cmd] = @ \cup {o}]
    BY <1>2 DEF Run
  <2> QED
    BY <1>0, <2>1 DEF TypeOK
<1>3. CASE UNCHANGED outcomes
  BY <1>3
<1> QED
  BY <1>1, <1>2, <1>3
     DEF Next, Console, AgentStep, Serve, Fault, vars, Request, CheckPending, InsertCommand,
         ChangePolicy, Heartbeat, Report, Answered, AgentFault, CheckCompletion, Complete, LoseReport

LEMMA AgentNext ==
  ASSUME Holds, [Next]_vars
  PROVE  AgentHolds'
<1>0. TypeOK /\ AgentHolds
  BY DEF Holds
<1>1. ASSUME agent'.pc # "idle", agent'.cmd = agent.cmd, agent.pc # "idle"
      PROVE  agent'.cmd \in Cmds /\ status'[agent'.cmd] # "absent"
  BY <1>0, <1>1, NeverAbsentAgain DEF AgentHolds
<1>2. ASSUME NEW p \in Policies, ChangePolicy(p) PROVE AgentHolds'
  <2>1. agent'.pc = agent.pc /\ agent'.cmd = agent.cmd /\ agent'.outcome = agent.outcome
    BY <1>0, <1>2 DEF ChangePolicy, TypeOK
  <2> QED
    BY <1>0, <1>2, <2>1 DEF ChangePolicy, AgentHolds
<1>3. CASE Heartbeat
  <2>1. PICK c \in OldestPending :
           agent' = [agent EXCEPT !.pc = "reply", !.cmd = c,
                                  !.planSeen = kind[c] \in policy.plan]
    BY <1>3 DEF Heartbeat
  <2>2. c \in Cmds /\ status[c] = "pending"
    BY DEF OldestPending, Pending
  <2>3. agent'.pc = "reply" /\ agent'.cmd = c
    BY <1>0, <2>1 DEF TypeOK
  <2>4. status' = status
    BY <1>3 DEF Heartbeat
  <2> QED
    BY <2>2, <2>3, <2>4 DEF AgentHolds
<1>4. CASE CheckPolicy
  <2>1. \/ agent' = [agent EXCEPT !.pc = "run"]
        \/ /\ agent' = [agent EXCEPT !.pc = "report", !.outcome = "blocked"]
           /\ outcomes' = [outcomes EXCEPT ![agent.cmd] = @ \cup {"blocked"}]
    BY <1>4 DEF CheckPolicy
  <2>2. agent.pc = "reply" /\ status' = status
    BY <1>4 DEF CheckPolicy
  <2>3. agent.cmd \in Cmds /\ status[agent.cmd] # "absent"
    BY <1>0, <2>2 DEF AgentHolds
  <2>4. CASE agent' = [agent EXCEPT !.pc = "run"]
    <3>1. agent'.pc = "run" /\ agent'.cmd = agent.cmd
      BY <1>0, <2>4 DEF TypeOK
    <3> QED
      BY <2>2, <2>3, <3>1 DEF AgentHolds
  <2>5. CASE /\ agent' = [agent EXCEPT !.pc = "report", !.outcome = "blocked"]
             /\ outcomes' = [outcomes EXCEPT ![agent.cmd] = @ \cup {"blocked"}]
    <3>1. agent'.cmd = agent.cmd /\ agent'.outcome = "blocked"
      BY <1>0, <2>5 DEF TypeOK
    <3>2. "blocked" \in outcomes'[agent.cmd]
      BY <1>0, <2>3, <2>5 DEF TypeOK
    <3> QED
      BY <2>2, <2>3, <3>1, <3>2 DEF AgentHolds
  <2> QED
    BY <2>1, <2>4, <2>5
<1>5. CASE Run
  <2>1. PICK o \in {"succeeded", "failed"} :
          /\ agent' = [agent EXCEPT !.pc = "report", !.outcome = o]
          /\ outcomes' = [outcomes EXCEPT ![agent.cmd] = @ \cup {o}]
    BY <1>5 DEF Run
  <2>2. agent.pc = "run" /\ status' = status
    BY <1>5 DEF Run
  <2> QED
    BY <1>0, <2>1, <2>2 DEF AgentHolds, TypeOK
<1>6. CASE Report
  <2>1. agent.pc = "report" /\ agent' = [agent EXCEPT !.pc = "wait"] /\ status' = status
    BY <1>6 DEF Report
  <2> QED
    BY <1>0, <2>1 DEF AgentHolds, TypeOK
<1>7. CASE Answered \/ AgentFault
  <2>1. agent' = IdleAgent
    BY <1>7 DEF Answered, AgentFault
  <2> QED
    BY <2>1 DEF AgentHolds, IdleAgent
<1>8. CASE UNCHANGED <<agent, outcomes>>
  BY <1>0, <1>8, NeverAbsentAgain DEF AgentHolds
<1> QED
  BY <1>2, <1>3, <1>4, <1>5, <1>6, <1>7, <1>8
     DEF Next, Console, AgentStep, Serve, Fault, vars, Request, CheckPending, InsertCommand,
         CheckCompletion, Complete, LoseReport

LEMMA AdminNext ==
  ASSUME Holds, [Next]_vars
  PROVE  AdminHolds'
<1>0. TypeOK /\ AdminHolds /\ ReportsHold
  BY DEF Holds
<1>1. ASSUME NEW a \in Admins, NEW k \in Kinds, Request(a, k) PROVE AdminHolds'
  BY <1>0, <1>1 DEF Request, AdminHolds, TypeOK
<1>2. ASSUME NEW a \in Admins, CheckPending(a) PROVE AdminHolds'
  <2>1. CASE admin' = [admin EXCEPT ![a].pc = "idle"]
    BY <1>0, <1>2, <2>1 DEF CheckPending, AdminHolds, TypeOK
  <2>2. CASE admin' # [admin EXCEPT ![a].pc = "idle"]
    <3>1. PICK c \in Unused : admin' = [admin EXCEPT ![a].pc = "insert", ![a].cmd = c]
      BY <1>2, <2>2 DEF CheckPending
    <3>2. c \in Cmds /\ status[c] = "absent" /\ \A b \in Admins : admin[b].cmd # c
      BY DEF Unused
    <3>3. admin[a].pc = "check" /\ status' = status
      BY <1>2 DEF CheckPending
    <3>4. admin'[a].pc = "insert" /\ admin'[a].cmd = c
      BY <1>0, <3>1 DEF TypeOK
    <3>5. \A b \in Admins \ {a} : admin'[b] = admin[b]
      BY <1>0, <3>1 DEF TypeOK
    <3> QED
      BY <1>0, <3>2, <3>3, <3>4, <3>5 DEF AdminHolds
  <2> QED
    BY <2>1, <2>2
<1>3. ASSUME NEW a \in Admins, InsertCommand(a) PROVE AdminHolds'
  <2>1. /\ admin[a].pc = "insert"
        /\ status' = [status EXCEPT ![admin[a].cmd] = "pending"]
        /\ admin' = [admin EXCEPT ![a].pc = "idle", ![a].cmd = NoCmd]
    BY <1>3 DEF InsertCommand
  <2>2. admin'[a].pc = "idle" /\ admin'[a].cmd = NoCmd
    BY <1>0, <2>1 DEF TypeOK
  <2>3. \A b \in Admins \ {a} : admin'[b] = admin[b] /\ admin[b].cmd # admin[a].cmd
    BY <1>0, <2>1 DEF TypeOK, AdminHolds
  <2>4. \A b \in Admins \ {a} : admin[b].pc = "insert" => status'[admin[b].cmd] = "absent"
    BY <1>0, <2>1, <2>3 DEF TypeOK, AdminHolds
  <2>5. NoCmd \notin Cmds
    BY NoCmdAssumption
  <2> QED
    BY <1>0, <2>2, <2>3, <2>4, <2>5 DEF AdminHolds
<1>4. ASSUME NEW m \in reports, Complete(m) PROVE AdminHolds'
  <2>1. m.cmd \in Cmds /\ status[m.cmd] # "absent"
    BY <1>0 DEF TypeOK, Reports, ReportsHold
  <2>2. \A c \in Cmds : status[c] = "absent" => status'[c] = "absent"
    BY <1>0, <1>4, <2>1 DEF Complete, TypeOK
  <2> QED
    BY <1>0, <1>4, <2>2 DEF Complete, AdminHolds
<1>5. CASE UNCHANGED <<admin, status>>
  BY <1>0, <1>5 DEF AdminHolds
<1> QED
  BY <1>1, <1>2, <1>3, <1>4, <1>5
     DEF Next, Console, AgentStep, Serve, Fault, vars, ChangePolicy,
         Heartbeat, CheckPolicy, Run, Report, Answered, AgentFault, CheckCompletion, LoseReport

LEMMA ReportsNext ==
  ASSUME Holds, [Next]_vars
  PROVE  ReportsHold'
<1>0. TypeOK /\ AgentHolds /\ ReportsHold
  BY DEF Holds
<1> DEFINE Fine(m) == /\ m.outcome \in outcomes'[m.cmd]
                      /\ status'[m.cmd] # "absent"
                      /\ m.awaited => agent'.pc = "wait" /\ agent'.cmd = m.cmd
<1>1. \A m \in reports : /\ m.cmd \in Cmds
                         /\ m.outcome \in outcomes'[m.cmd]
                         /\ status'[m.cmd] # "absent"
  BY <1>0, NeverAbsentAgain, OutcomesGrow DEF TypeOK, Reports, ReportsHold
\* The agent keeps waiting for its command unless the wait itself ends.
<1>2. CASE ~(Answered \/ AgentFault \/ Report)
  <2>1. ASSUME agent.pc = "wait" PROVE agent'.pc = "wait" /\ agent'.cmd = agent.cmd
    <3>1. ASSUME NEW p \in Policies, ChangePolicy(p) PROVE agent'.pc = agent.pc /\ agent'.cmd = agent.cmd
      BY <1>0, <3>1 DEF ChangePolicy, TypeOK
    <3>2. ~Heartbeat /\ ~CheckPolicy /\ ~Run
      BY <2>1 DEF Heartbeat, CheckPolicy, Run
    <3> QED
      BY <1>2, <2>1, <3>1, <3>2
         DEF Next, Console, AgentStep, Serve, Fault, vars, Request, CheckPending, InsertCommand,
             CheckCompletion, Complete, LoseReport
  <2>2. \A m \in reports : Fine(m)
    BY <1>0, <1>1, <2>1 DEF ReportsHold
  <2>3. ASSUME NEW n \in reports', n \notin reports PROVE Fine(n)
    <3>1. PICK m \in reports : CheckCompletion(m)
      BY <1>2, <2>3
         DEF Next, Console, AgentStep, Serve, Fault, vars, Request, CheckPending, InsertCommand,
             ChangePolicy, Heartbeat, CheckPolicy, Run, Complete, LoseReport
    <3>2. n = [m EXCEPT !.pc = "update"]
      BY <2>3, <3>1 DEF CheckCompletion
    <3>3. n.cmd = m.cmd /\ n.outcome = m.outcome /\ n.awaited = m.awaited
      BY <1>0, <3>2 DEF TypeOK, Reports
    <3> QED
      BY <2>2, <3>3
  <2> QED
    BY <2>2, <2>3 DEF ReportsHold
<1>3. CASE Report
  <2>1. PICK i \in 1..(Cardinality(reports) + 1) :
          reports' = reports \cup {[id |-> i, cmd |-> agent.cmd, outcome |-> agent.outcome,
                                    pc |-> "sent", awaited |-> TRUE]}
    BY <1>3 DEF Report
  <2>2. /\ agent.pc = "report"
        /\ agent' = [agent EXCEPT !.pc = "wait"]
        /\ status' = status
        /\ outcomes' = outcomes
    BY <1>3 DEF Report
  <2>3. agent'.pc = "wait" /\ agent'.cmd = agent.cmd
    BY <1>0, <2>2 DEF TypeOK
  <2>4. \A m \in reports : ~m.awaited
    BY <1>0, <2>2 DEF ReportsHold, TypeOK, Reports
  <2>5. ASSUME NEW n \in reports', n \notin reports PROVE Fine(n)
    <3>1. n.cmd = agent.cmd /\ n.outcome = agent.outcome
      BY <2>1, <2>5
    <3> QED
      BY <1>0, <2>2, <2>3, <3>1 DEF AgentHolds
  <2> QED
    BY <1>1, <2>4, <2>5 DEF ReportsHold
<1>4. CASE Answered
  BY <1>0, <1>1, <1>4 DEF Answered, ReportsHold
<1>5. CASE AgentFault
  <2> SUFFICES ASSUME NEW n \in reports' PROVE Fine(n)
    BY DEF ReportsHold
  <2>1. PICK m \in reports : n = [m EXCEPT !.awaited = FALSE]
    BY <1>5 DEF AgentFault, Abandon
  <2>2. n.cmd = m.cmd /\ n.outcome = m.outcome /\ n.awaited = FALSE
    BY <1>0, <2>1 DEF TypeOK, Reports
  <2> QED
    BY <1>1, <2>2
<1> QED
  BY <1>2, <1>3, <1>4, <1>5

\* The invariant the other theorems rest on: types, a busy agent holds a
\* command, an id handed to one request belongs to nobody else, and what a
\* request reports is what an execution led to.
THEOREM AlwaysHolds == Spec => []Holds
<1>1. Holds /\ [Next]_vars => Holds'
  <2> SUFFICES ASSUME Holds, [Next]_vars PROVE Holds'
    OBVIOUS
  <2> QED
    BY TypeNext, AgentNext, AdminNext, ReportsNext DEF Holds
<1> QED
  BY HoldsInit, <1>1, PTL DEF Spec

\* The state of the command queue, the agent and the wire keeps its types.
THEOREM CommandTypes == Spec => []TypeOK
<1>1. Holds => TypeOK
  BY DEF Holds
<1> QED
  BY AlwaysHolds, <1>1, PTL

-----------------------------------------------------------------------------
\* No command is shown with an outcome that none of its executions had: the
\* unconditional UPDATE of handleCompleteCommand can change the story of a
\* command, never invent one.
THEOREM StatusIsEarned == Spec => []StatusWasEarned
<1>1. Init => StatusWasEarned
  BY DEF Init, StatusWasEarned, Outcomes
<1>2. ASSUME Holds, StatusWasEarned, [Next]_vars PROVE StatusWasEarned'
  <2>0. TypeOK /\ ReportsHold
    BY <1>2 DEF Holds
  <2> SUFFICES ASSUME NEW c \in Cmds, status'[c] \in Outcomes PROVE status'[c] \in outcomes'[c]
    BY DEF StatusWasEarned
  <2>1. outcomes[c] \subseteq outcomes'[c]
    BY <1>2, OutcomesGrow
  <2>2. ASSUME NEW m \in reports, Complete(m) PROVE status'[c] \in outcomes[c]
    <3>1. status' = [status EXCEPT ![m.cmd] = m.outcome] /\ m.outcome \in outcomes[m.cmd]
      BY <2>0, <2>2 DEF Complete, ReportsHold
    <3> QED
      BY <1>2, <2>0, <3>1 DEF StatusWasEarned, TypeOK
  <2>3. ASSUME NEW a \in Admins, InsertCommand(a) PROVE status'[c] \in outcomes[c]
    BY <1>2, <2>0, <2>3 DEF InsertCommand, StatusWasEarned, TypeOK, Outcomes
  <2>4. CASE UNCHANGED status
    BY <1>2, <2>1, <2>4 DEF StatusWasEarned
  <2> QED
    BY <1>2, <2>1, <2>2, <2>3, <2>4
       DEF Next, Console, AgentStep, Serve, Fault, vars, Request, CheckPending, ChangePolicy,
           Heartbeat, CheckPolicy, Run, Report, Answered, AgentFault, CheckCompletion, LoseReport
<1> QED
  BY AlwaysHolds, <1>1, <1>2, PTL DEF Spec

-----------------------------------------------------------------------------
(* Runs are paid for.  A fault is owed one more run of a command only      *)
(* while the agent is between that run and the answer to its report.       *)

Settled(c) == status[c] \in Outcomes

Reporting(c) == agent.cmd = c /\ agent.pc \in {"report", "wait"}

Paid ==
  \A c \in Cmds :
    /\ runs[c] <= faults + 1
    /\ ~Settled(c) /\ ~Reporting(c) => runs[c] <= faults
    /\ agent.cmd = c /\ agent.pc \in {"reply", "run"} => runs[c] <= faults
    /\ agent.cmd = c /\ agent.pc = "wait" /\ (\A m \in reports : ~m.awaited) =>
         Settled(c) \/ runs[c] <= faults

LEMMA PaidInit == Init => Paid
  BY DEF Init, Paid, IdleAgent

\* An outcome is never taken back to pending.
LEMMA SettledStays ==
  ASSUME Holds, [Next]_vars, NEW c \in Cmds, Settled(c)
  PROVE  Settled(c)'
<1>0. TypeOK /\ AdminHolds
  BY DEF Holds
<1>1. ASSUME NEW m \in reports, Complete(m) PROVE Settled(c)'
  BY <1>0, <1>1 DEF Complete, TypeOK, Reports, Settled
<1>2. ASSUME NEW a \in Admins, InsertCommand(a) PROVE Settled(c)'
  BY <1>0, <1>2 DEF InsertCommand, TypeOK, AdminHolds, Settled, Outcomes
<1>3. CASE UNCHANGED status
  BY <1>3 DEF Settled
<1> QED
  BY <1>1, <1>2, <1>3
     DEF Next, Console, AgentStep, Serve, Fault, vars, Request, CheckPending, ChangePolicy,
         Heartbeat, CheckPolicy, Run, Report, Answered, AgentFault, CheckCompletion, LoseReport

LEMMA PaidNext ==
  ASSUME Holds, Paid, [Next]_vars
  PROVE  Paid'
<1>0. TypeOK /\ AgentHolds /\ AdminHolds /\ ReportsHold
  BY DEF Holds
<1>a. faults \in Nat /\ \A c \in Cmds : runs[c] \in Nat
  BY <1>0, BoundsAssumption DEF TypeOK
<1>s. \A c \in Cmds : Settled(c) => Settled(c)'
  BY SettledStays
<1>1. ASSUME UNCHANGED <<agent, reports, runs, faults>> PROVE Paid'
  BY <1>1, <1>s DEF Paid, Reporting
<1>2. ASSUME NEW p \in Policies, ChangePolicy(p) PROVE Paid'
  <2>1. agent'.pc = agent.pc /\ agent'.cmd = agent.cmd
    BY <1>0, <1>2 DEF ChangePolicy, TypeOK
  <2>2. UNCHANGED <<reports, runs, faults, status>>
    BY <1>2 DEF ChangePolicy
  <2> QED
    BY <2>1, <2>2 DEF Paid, Reporting, Settled
<1>3. CASE Heartbeat
  <2>1. PICK h \in OldestPending :
           agent' = [agent EXCEPT !.pc = "reply", !.cmd = h,
                                  !.planSeen = kind[h] \in policy.plan]
    BY <1>3 DEF Heartbeat
  <2>2. agent'.pc = "reply" /\ agent'.cmd = h
    BY <1>0, <2>1 DEF TypeOK
  <2>3. agent.pc = "idle" /\ UNCHANGED <<reports, runs, faults, status>>
    BY <1>3 DEF Heartbeat
  <2>4. h \in Cmds /\ ~Settled(h)
    BY DEF OldestPending, Pending, Settled, Outcomes
  <2> QED
    BY <2>2, <2>3, <2>4 DEF Paid, Reporting, Settled
<1>4. CASE CheckPolicy
  <2>1. agent.pc = "reply" /\ UNCHANGED <<reports, runs, status>>
    BY <1>4 DEF CheckPolicy
  <2>2. faults' \in Nat /\ faults <= faults'
    BY <1>4, <1>a DEF CheckPolicy
  <2>3. agent'.cmd = agent.cmd /\ agent'.pc \in {"run", "report"}
    BY <1>0, <1>4 DEF CheckPolicy, TypeOK
  <2> QED
    BY <1>a, <2>1, <2>2, <2>3 DEF Paid, Reporting, Settled
<1>5. CASE Run
  <2>1. /\ agent.pc = "run"
        /\ runs' = [runs EXCEPT ![agent.cmd] = @ + 1]
        /\ UNCHANGED <<reports, faults, status>>
    BY <1>5 DEF Run
  <2>2. agent'.cmd = agent.cmd /\ agent'.pc = "report"
    BY <1>0, <1>5 DEF Run, TypeOK
  <2>3. agent.cmd \in Cmds
    BY <1>0, <2>1 DEF AgentHolds
  <2>4. runs'[agent.cmd] = runs[agent.cmd] + 1 /\ runs[agent.cmd] <= faults
    BY <1>0, <2>1, <2>3 DEF TypeOK, Paid
  <2>5. \A c \in Cmds \ {agent.cmd} : runs'[c] = runs[c]
    BY <1>0, <2>1 DEF TypeOK
  <2> QED
    BY <1>a, <2>1, <2>2, <2>3, <2>4, <2>5 DEF Paid, Reporting, Settled
<1>6. CASE Report
  <2>1. agent.pc = "report" /\ agent' = [agent EXCEPT !.pc = "wait"] /\ UNCHANGED <<runs, faults, status>>
    BY <1>6 DEF Report
  <2>2. \E m \in reports' : m.awaited
    <3>1. PICK i \in 1..(Cardinality(reports) + 1) :
            reports' = reports \cup {[id |-> i, cmd |-> agent.cmd, outcome |-> agent.outcome,
                                      pc |-> "sent", awaited |-> TRUE]}
      BY <1>6 DEF Report
    <3> DEFINE new == [id |-> i, cmd |-> agent.cmd, outcome |-> agent.outcome,
                       pc |-> "sent", awaited |-> TRUE]
    <3>2. new \in reports' /\ new.awaited = TRUE
      BY <3>1
    <3> HIDE DEF new
    <3> QED
      BY <3>2
  <2>3. agent'.cmd = agent.cmd /\ agent'.pc = "wait"
    BY <1>0, <2>1 DEF TypeOK
  <2> QED
    BY <2>1, <2>2, <2>3 DEF Paid, Reporting, Settled
<1>7. CASE Answered
  <2>1. agent.pc = "wait" /\ agent' = IdleAgent /\ UNCHANGED <<runs, faults, status>>
    BY <1>7 DEF Answered
  <2>2. \A m \in reports : ~m.awaited
    BY <1>7 DEF Answered
  <2>3. agent'.pc = "idle"
    BY <2>1 DEF IdleAgent
  <2> QED
    BY <2>1, <2>2, <2>3 DEF Paid, Reporting, Settled
<1>8. CASE AgentFault
  <2>1. faults' = faults + 1 /\ agent' = IdleAgent /\ UNCHANGED <<runs, status>>
    BY <1>8 DEF AgentFault
  <2>2. agent'.pc = "idle"
    BY <2>1 DEF IdleAgent
  <2> QED
    BY <1>a, <2>1, <2>2 DEF Paid, Reporting
\* A request that was awaited is answered for once its handler has seen the
\* status of its command, or set it.
<1>9. ASSUME NEW m \in reports, CheckCompletion(m) PROVE Paid'
  <2>1. UNCHANGED <<agent, runs, faults, status>>
    BY <1>9 DEF CheckCompletion
  <2>2. m.cmd \in Cmds /\ status[m.cmd] # "absent" /\ (m.awaited => agent.cmd = m.cmd)
    BY <1>0 DEF TypeOK, Reports, ReportsHold
  <2>3. CASE status[m.cmd] = "pending"
    <3>1. reports' = (reports \ {m}) \cup {[m EXCEPT !.pc = "update"]}
      BY <1>9, <2>3 DEF CheckCompletion
    <3>2. [m EXCEPT !.pc = "update"].awaited = m.awaited
      BY <1>0 DEF TypeOK, Reports
    <3>3. (\A n \in reports' : ~n.awaited) => (\A n \in reports : ~n.awaited)
      BY <3>1, <3>2
    <3> QED
      BY <2>1, <3>3 DEF Paid, Reporting, Settled
  <2>4. CASE status[m.cmd] # "pending"
    <3>1. Settled(m.cmd)
      BY <1>0, <2>2, <2>4 DEF Settled, TypeOK
    <3>2. reports' = reports \ {m}
      BY <1>9, <2>4 DEF CheckCompletion
    <3> QED
      BY <2>1, <2>2, <3>1, <3>2 DEF Paid, Reporting, Settled
  <2> QED
    BY <2>3, <2>4
<1>10. ASSUME NEW m \in reports, Complete(m) PROVE Paid'
  <2>1. /\ UNCHANGED <<agent, runs, faults>>
        /\ reports' = reports \ {m}
        /\ status' = [status EXCEPT ![m.cmd] = m.outcome]
    BY <1>10 DEF Complete
  <2>2. m.cmd \in Cmds /\ m.outcome \in Outcomes /\ (m.awaited => agent.cmd = m.cmd)
    BY <1>0 DEF TypeOK, Reports, ReportsHold
  <2>3. Settled(m.cmd)'
    BY <1>0, <2>1, <2>2 DEF Settled, TypeOK
  <2> QED
    BY <1>s, <2>1, <2>2, <2>3 DEF Paid, Reporting
<1>11. ASSUME NEW m \in reports, LoseReport(m) PROVE Paid'
  <2>1. faults' = faults + 1 /\ UNCHANGED <<agent, runs, status>>
    BY <1>11 DEF LoseReport
  <2> QED
    BY <1>a, <2>1 DEF Paid, Reporting, Settled
<1> QED
  BY <1>1, <1>2, <1>3, <1>4, <1>5, <1>6, <1>7, <1>8, <1>9, <1>10, <1>11
     DEF Next, Console, AgentStep, Serve, Fault, vars, Request, CheckPending, InsertCommand

\* A command is executed again only when something failed: the serial loop of
\* runBackendCycle, which awaits the report before the next heartbeat, never
\* by itself runs a command twice.
THEOREM RunsHaveACause == Spec => []RunsArePaidFor
<1>1. Paid /\ Holds => RunsArePaidFor
  <2> SUFFICES ASSUME Paid, Holds, NEW c \in Cmds PROVE runs[c] <= 1 + faults
    BY DEF RunsArePaidFor
  <2>1. runs[c] \in Nat /\ faults \in Nat /\ runs[c] <= faults + 1
    BY BoundsAssumption DEF Paid, Holds, TypeOK
  <2> QED
    BY <2>1
<1> QED
  BY AlwaysHolds, PaidInit, PaidNext, <1>1, PTL DEF Spec

-----------------------------------------------------------------------------
(* The plan's gate.  planSeen remembers every plan the agent's command has *)
(* lived under since its heartbeat, so the check cannot meet a plan that   *)
(* planSeen missed.                                                        *)

PlanSeen ==
  /\ agent.pc # "idle" /\ kind[agent.cmd] \in policy.plan => agent.planSeen
  /\ agent.pc = "run" => agent.planSeen

LEMMA PlanSeenNext ==
  ASSUME Holds, PlanSeen, [Next]_vars
  PROVE  PlanSeen'
<1>0. TypeOK /\ AgentHolds /\ AdminHolds
  BY DEF Holds
<1>1. ASSUME NEW p \in Policies, ChangePolicy(p) PROVE PlanSeen'
  <2>1. CASE agent.cmd = NoCmd
    <3>1. agent.pc = "idle" /\ agent' = agent
      BY <1>0, <1>1, <2>1, NoCmdAssumption DEF ChangePolicy, AgentHolds
    <3> QED
      BY <3>1 DEF PlanSeen
  <2>2. CASE agent.cmd # NoCmd
    <3> DEFINE q == agent.planSeen \/ kind[agent.cmd] \in p.plan
    <3>1. agent' = [agent EXCEPT !.planSeen = q]
      BY <1>1, <2>2 DEF ChangePolicy
    <3>2. (agent.planSeen => q) /\ (kind[agent.cmd] \in p.plan => q)
      OBVIOUS
    <3>3. policy' = p /\ kind' = kind
      BY <1>1 DEF ChangePolicy
    <3> HIDE DEF q
    <3>4. agent'.pc = agent.pc /\ agent'.cmd = agent.cmd /\ agent'.planSeen = q
      BY <1>0, <3>1 DEF TypeOK
    <3> QED
      BY <3>2, <3>3, <3>4 DEF PlanSeen
  <2> QED
    BY <2>1, <2>2
<1>2. CASE Heartbeat
  <2>1. PICK h \in OldestPending :
           agent' = [agent EXCEPT !.pc = "reply", !.cmd = h,
                                  !.planSeen = kind[h] \in policy.plan]
    BY <1>2 DEF Heartbeat
  <2> DEFINE q == kind[h] \in policy.plan
  <2>2. agent' = [agent EXCEPT !.pc = "reply", !.cmd = h, !.planSeen = q]
    BY <2>1
  <2>3. kind[h] \in policy.plan => q
    OBVIOUS
  <2> HIDE DEF q
  <2>4. agent'.pc = "reply" /\ agent'.cmd = h /\ agent'.planSeen = q
    BY <1>0, <2>2 DEF TypeOK
  <2>5. policy' = policy /\ kind' = kind
    BY <1>2 DEF Heartbeat
  <2> QED
    BY <2>3, <2>4, <2>5 DEF PlanSeen
<1>3. CASE CheckPolicy
  <2>1. agent.pc = "reply" /\ policy' = policy /\ kind' = kind
    BY <1>3 DEF CheckPolicy
  <2>2. agent'.cmd = agent.cmd /\ agent'.planSeen = agent.planSeen
    BY <1>0, <1>3 DEF CheckPolicy, TypeOK
  <2>3. agent'.pc = "run" => Covered(agent.cmd)
    BY <1>0, <1>3 DEF CheckPolicy, TypeOK
  <2> QED
    BY <2>1, <2>2, <2>3 DEF PlanSeen, Covered
<1>4. CASE Run
  <2>1. agent.pc = "run" /\ policy' = policy /\ kind' = kind
    BY <1>4 DEF Run
  <2>2. agent'.cmd = agent.cmd /\ agent'.planSeen = agent.planSeen
    BY <1>0, <1>4 DEF Run, TypeOK
  <2> QED
    BY <2>1, <2>2 DEF PlanSeen
<1>5. CASE Report
  <2>1. agent.pc = "report" /\ agent' = [agent EXCEPT !.pc = "wait"] /\ policy' = policy /\ kind' = kind
    BY <1>5 DEF Report
  <2>2. agent'.cmd = agent.cmd /\ agent'.planSeen = agent.planSeen /\ agent'.pc = "wait"
    BY <1>0, <2>1 DEF TypeOK
  <2> QED
    BY <2>1, <2>2 DEF PlanSeen
<1>6. CASE Answered \/ AgentFault
  <2>1. agent' = IdleAgent
    BY <1>6 DEF Answered, AgentFault
  <2>2. agent'.pc = "idle"
    BY <2>1 DEF IdleAgent
  <2> QED
    BY <2>2 DEF PlanSeen
\* A row's kind is set once, before the agent can hold it.
<1>7. ASSUME NEW a \in Admins, InsertCommand(a) PROVE PlanSeen'
  <2>1. /\ admin[a].pc = "insert"
        /\ kind' = [kind EXCEPT ![admin[a].cmd] = admin[a].kind]
        /\ UNCHANGED <<agent, policy>>
    BY <1>7 DEF InsertCommand
  <2>2. ASSUME agent.pc # "idle" PROVE kind'[agent.cmd] = kind[agent.cmd]
    <3>1. agent.cmd \in Cmds /\ agent.cmd # admin[a].cmd
      BY <1>0, <2>1, <2>2 DEF AgentHolds, AdminHolds
    <3> QED
      BY <1>0, <2>1, <3>1 DEF TypeOK
  <2> QED
    BY <2>1, <2>2 DEF PlanSeen
<1>8. CASE UNCHANGED <<agent, kind, policy>>
  BY <1>8 DEF PlanSeen
<1> QED
  BY <1>1, <1>2, <1>3, <1>4, <1>5, <1>6, <1>7, <1>8
     DEF Next, Console, AgentStep, Serve, Fault, vars, Request, CheckPending,
         CheckCompletion, Complete, LoseReport

\* No command runs that the plan did not cover at some moment since the
\* heartbeat that brought it.
THEOREM PlanIsAsked == Spec => PlanGuardsRun
<1>1. Init => PlanSeen
  BY DEF Init, PlanSeen, IdleAgent
<1>2. Holds /\ PlanSeen /\ [Next]_vars => [Run => agent.planSeen]_vars
  BY DEF PlanSeen, Run
<1> QED
  BY AlwaysHolds, <1>1, <1>2, PlanSeenNext, PTL DEF Spec, PlanGuardsRun

-----------------------------------------------------------------------------
(* The MQTT link. *)

LinkType == [Ids -> {"none", "connecting", "connected", "closed", "ending", "ended"}]
CmdType == [status : {"new", "running", "waiting", "answered", "lost"}, at : 0..MaxIds]

(* The helpers of the types. *)
LEMMA IdNames == 0 \in 0..MaxIds /\ \A k : k \in Ids <=> k \in 0..MaxIds /\ k # 0
  BY IdsAssumption DEF Ids

LEMMA LinkCommandTypes ==
  /\ \A now \in {"new", "answered"} : Clean(now) \in CmdType
  /\ \A c \in Commands : cmd[c] \in CmdType => Lost(c) \in CmdType
  BY IdNames DEF Clean, Lost, CmdType

LEMMA MishapsCount ==
  ASSUME mishaps \in 0..MaxMishaps, Mishap
  PROVE  mishaps' \in 0..MaxMishaps
  BY MishapsAssumption DEF Mishap

LEMMA LinkTypesInit == LinkInit => LinkTypeOK
<1> SUFFICES ASSUME LinkInit PROVE LinkTypeOK
  OBVIOUS
<1>1. 0 \in 0..MaxIds /\ 0 \in 0..MaxRetry /\ 0 \in 0..MaxMishaps
  BY IdNames, MishapsAssumption DEF MaxRetry
<1>2. cmd \in [Commands -> CmdType]
  BY LinkCommandTypes DEF LinkInit
<1> QED
  BY <1>1, <1>2 DEF LinkInit, LinkTypeOK, CmdType

\* A drop, a refusal or a late close: the one timer takes it if nothing else has.
LEMMA LinkTypesClose ==
  ASSUME LinkTypeOK, NEW k \in Ids, Close(k) \/ EndedClose(k)
  PROVE  LinkTypeOK'
<1>1. k \in 0..MaxIds
  BY IdNames
<1>2. link' \in LinkType
  BY DEF LinkTypeOK, Close, EndedClose, LinkType
<1>3. mishaps' \in 0..MaxMishaps
  BY MishapsCount DEF LinkTypeOK, Close, EndedClose
<1> QED
  BY <1>1, <1>2, <1>3 DEF LinkTypeOK, Close, EndedClose, OnClose, LinkType

LEMMA LinkTypesCommands ==
  ASSUME LinkTypeOK, NEW c \in Commands, Result(c) \/ \E k \in Ids : Take(c, k)
  PROVE  LinkTypeOK'
<1>t. cmd \in [Commands -> CmdType]
  BY DEF LinkTypeOK, CmdType
<1>1. CASE Result(c)
  <2>1. /\ Clean("answered") \in CmdType /\ [cmd[c] EXCEPT !.status = "lost"] \in CmdType
        /\ [cmd[c] EXCEPT !.status = "waiting"] \in CmdType
    BY <1>t, LinkCommandTypes DEF CmdType
  <2>2. cmd'[c] \in CmdType /\ cmd' \in [Commands -> CmdType]
    BY <1>1, <1>t, <2>1 DEF Result
  <2> QED
    BY <1>1, <2>2 DEF Result, LinkTypeOK, CmdType
<1>2. ASSUME NEW k \in Ids, Take(c, k)
      PROVE  LinkTypeOK'
  <2>1. [status |-> "running", at |-> k] \in CmdType
    BY IdNames DEF CmdType
  <2>2. cmd' \in [Commands -> CmdType]
    BY <1>2, <1>t, <2>1 DEF Take
  <2> QED
    BY <1>2, <2>2 DEF Take, LinkTypeOK, CmdType
<1> QED
  BY <1>1, <1>2

LEMMA LinkTypesNext == LinkTypeOK /\ [LinkNext]_linkVars => LinkTypeOK'
<1> SUFFICES ASSUME LinkTypeOK, [LinkNext]_linkVars PROVE LinkTypeOK'
  OBVIOUS
<1>t. link \in LinkType /\ cmd \in [Commands -> CmdType]
  BY DEF LinkTypeOK, LinkType, CmdType
<1>1. CASE UNCHANGED linkVars
  BY <1>1 DEF linkVars, LinkTypeOK
<1>2. CASE Enrol \/ Wipe \/ BeginImport \/ Imported
  <2>1. id' \in 0..MaxIds
    BY <1>2, IdsAssumption DEF Enrol, Wipe, BeginImport, Imported, LinkTypeOK
  <2>2. wiped' \in BOOLEAN /\ import' \in {"idle", "loading", "ready", "failed"}
    BY <1>2 DEF Enrol, Wipe, BeginImport, Imported, LinkTypeOK
  <2> QED
    BY <1>2, <2>1, <2>2 DEF Enrol, Wipe, BeginImport, Imported, LinkTypeOK
<1>3. CASE Replace
  <2>1. link' \in LinkType
    BY <1>3, <1>t DEF Replace, Ended, LinkType
  <2>2. cmd' \in [Commands -> CmdType]
    BY <1>3, <1>t, LinkCommandTypes DEF Replace
  <2>3. client' \in 0..MaxIds /\ retry' \in 0..MaxRetry /\ timer' = 0
    BY <1>3, IdNames DEF Replace, LinkTypeOK, MaxRetry
  <2> QED
    BY <1>3, <2>1, <2>2, <2>3, IdNames DEF Replace, LinkTypeOK, LinkType, CmdType
<1>4. CASE Reconnect
  <2>1. link' \in LinkType
    BY <1>4, <1>t DEF Reconnect, LinkType
  <2>2. retry' \in 0..MaxRetry
    BY <1>4 DEF Reconnect, LinkTypeOK, MaxRetry
  <2> QED
    BY <1>4, <2>1, <2>2, IdNames DEF Reconnect, LinkTypeOK, LinkType
<1>5. CASE Restart
  <2>1. cmd' \in [Commands -> CmdType]
    BY <1>5, <1>t, LinkCommandTypes DEF Restart
  <2>2. mishaps' \in 0..MaxMishaps
    BY <1>5, MishapsCount DEF Restart, LinkTypeOK
  <2> QED
    BY <1>5, <2>1, <2>2, IdNames DEF Restart, LinkTypeOK, CmdType, MaxRetry
<1>6. ASSUME NEW k \in Ids, Connected(k)
      PROVE  LinkTypeOK'
  <2>1. cmd' \in [Commands -> CmdType]
    BY <1>6, <1>t, LinkCommandTypes DEF Connected
  <2>2. link' \in LinkType
    BY <1>6, <1>t DEF Connected, LinkType
  <2> QED
    BY <1>6, <2>1, <2>2 DEF Connected, LinkTypeOK, CmdType, LinkType, MaxRetry
<1> QED
  BY <1>1, <1>2, <1>3, <1>4, <1>5, <1>6, LinkTypesClose, LinkTypesCommands DEF LinkNext

\* Every variable of the link stays within its type; the backoff stops at 30 seconds.
THEOREM LinkTypes == LinkSpec => []LinkTypeOK
  BY LinkTypesInit, LinkTypesNext, PTL DEF LinkSpec

-----------------------------------------------------------------------------
(* The timer and the backoff.  The three parts need each other: a close     *)
(* finds the timer free because OnlyReopensClosed says whom it is set for. *)

LEMMA LinkSoundInit == LinkInit => ReconnectionIsSound
  BY DEF LinkInit, ReconnectionIsSound, OnlyReopensClosed, DownIsScheduled, BackoffStartsOver

LEMMA LinkSoundNext == LinkTypeOK /\ ReconnectionIsSound /\ [LinkNext]_linkVars => ReconnectionIsSound'
<1> SUFFICES ASSUME LinkTypeOK, ReconnectionIsSound, [LinkNext]_linkVars PROVE ReconnectionIsSound'
  OBVIOUS
<1>t. link \in LinkType /\ \A k : k \in Ids <=> k \in 0..MaxIds /\ k # 0
  BY IdNames DEF LinkTypeOK, LinkType
<1>c. timer \in 0..MaxIds /\ client \in 0..MaxIds
  BY DEF LinkTypeOK
<1> USE DEF ReconnectionIsSound, OnlyReopensClosed, DownIsScheduled, BackoffStartsOver
<1>1. CASE UNCHANGED <<link, client, timer, retry>>
  BY <1>1 DEF Strayed
<1>2. CASE Replace
  <2>1. timer' = 0 /\ (client' = 0 \/ (client' = id /\ (id # 0 => link'[id] = "connecting")))
    <3>1. id # 0 => id \in Ids
      BY <1>t DEF LinkTypeOK
    <3> QED
      BY <1>2, <1>t, <3>1 DEF Replace
  <2> QED
    BY <2>1
<1>3. CASE Reconnect
  <2>1. timer' = 0 /\ timer \in Ids /\ link' = [link EXCEPT ![timer] = "connecting"] /\ client' = client
    BY <1>3, <1>t, <1>c DEF Reconnect
  <2>2. timer # client => Strayed'
    BY <2>1, <1>t DEF Strayed, LinkType
  <2>3. timer = client => link'[client] = "connecting"
    BY <2>1, <1>t DEF LinkType
  <2> QED
    BY <2>1, <2>2, <2>3
<1>4. CASE Restart
  BY <1>4 DEF Restart
<1>5. ASSUME NEW k \in Ids, Connected(k)
      PROVE  ReconnectionIsSound'
  <2>1. link' = [link EXCEPT ![k] = "connected"] /\ link[k] = "connecting" /\ retry' = 0 /\ UNCHANGED <<client, timer>>
    BY <1>5 DEF Connected
  <2>2. k # client => Strayed'
    BY <2>1, <1>t DEF Strayed, LinkType
  <2> QED
    BY <2>1, <2>2, <1>t, <1>c DEF LinkType
<1>6. ASSUME NEW k \in Ids, Close(k) \/ EndedClose(k)
      PROVE  ReconnectionIsSound'
  <2>1. /\ link[k] \notin {"none", "closed", "ended"} /\ UNCHANGED <<client, retry>>
        /\ timer' = IF timer = 0 THEN k ELSE timer
        /\ \E to \in {"closed", "ended"} :
             link' = [link EXCEPT ![k] = to] /\ (to = "ended" => link[k] = "ending")
    BY <1>6 DEF Close, EndedClose, OnClose
  <2>2. OnlyReopensClosed'
    BY <2>1, <1>t, <1>c DEF LinkType
  <2>3. CASE k = client
    <3>1. link'[k] = "ended" \/ timer = 0 \/ timer # client
      BY <2>1, <2>3, <1>t, <1>c DEF LinkType
    <3>2. timer # 0 /\ timer # client => Strayed'
      BY <2>1, <1>t, <1>c DEF Strayed
    <3>3. link'[k] \in {"closed", "ended"} /\ (timer = 0 => timer' = client)
      BY <2>1, <2>3, <1>t DEF LinkType
    <3> QED
      BY <2>1, <2>2, <2>3, <3>1, <3>2, <3>3
  <2>4. CASE k # client
    <3>1. link'[k] = "closed" \/ timer = 0 => Strayed'
      BY <2>1, <2>4, <1>t DEF Strayed
    <3>2. ASSUME link'[k] = "ended", timer # 0, Strayed PROVE Strayed'
      <4>1. PICK j \in Ids : j # client /\ (timer = j \/ link[j] \in {"connecting", "connected", "closed"})
        BY <3>2 DEF Strayed
      <4>2. j # k
        BY <2>1, <3>2, <4>1, <1>t, <1>c DEF LinkType
      <4> QED
        BY <2>1, <3>2, <4>1, <4>2, <1>t DEF Strayed, LinkType
    <3>3. client # 0 => link'[client] = link[client]
      BY <2>1, <2>4, <1>t, <1>c DEF LinkType
    <3>4. link'[k] \in {"closed", "ended"}
      BY <2>1, <1>t DEF LinkType
    <3> QED
      BY <2>1, <2>2, <3>1, <3>2, <3>3, <3>4
  <2> QED
    BY <2>3, <2>4
<1> QED
  BY <1>1, <1>2, <1>3, <1>4, <1>5, <1>6
     DEF LinkNext, linkVars, Enrol, Wipe, BeginImport, Imported, Result, Take

\* The reconnection timer is only ever set for a client that is down; the client in use,
\* when it is down, holds it, and when it is up the backoff has been reset (the 'close'
\* and 'connect' listeners of ensureMqttClient); however closes, wipes, enrolments and
\* restarts interleave, but for one thing: an ended client whose late close found no timer
\* set has it, or has been opened again by it, and then the client in use may be down
\* with nothing to reopen it.
THEOREM LinkReconnectsSoundly == LinkSpec => []ReconnectionIsSound
  BY LinkTypesInit, LinkTypesNext, LinkSoundInit, LinkSoundNext, PTL DEF LinkSpec

-----------------------------------------------------------------------------
(* Results that wait to be published. *)

\* A result waits only at a client that is not ended: whatever ends a client takes what
\* waits there with it, and an ended client refuses what comes later.
ResultsAreWithOpen ==
  \A c \in Commands :
    /\ cmd[c].status \in {"running", "waiting"} => cmd[c].at \in Ids
    /\ cmd[c].status = "running" => link[cmd[c].at] # "none"
    /\ cmd[c].status = "waiting" => link[cmd[c].at] \in {"connecting", "closed"}

\* And that client is connecting, or is the one the timer will open.
NoResultIsStranded ==
  \A c \in Commands :
    cmd[c].status = "waiting" =>
      \/ link[cmd[c].at] = "connecting"
      \/ link[cmd[c].at] = "closed" /\ (timer = cmd[c].at \/ Strayed)

LEMMA LinkStrandedNext == LinkTypeOK /\ ResultsAreWithOpen /\ [LinkNext]_linkVars => ResultsAreWithOpen'
<1> SUFFICES ASSUME LinkTypeOK, ResultsAreWithOpen, [LinkNext]_linkVars PROVE ResultsAreWithOpen'
  OBVIOUS
<1>t. link \in LinkType /\ cmd \in [Commands -> CmdType]
  BY DEF LinkTypeOK, LinkType, CmdType
<1> USE DEF ResultsAreWithOpen
<1>1. CASE UNCHANGED <<link, cmd>>
  BY <1>1
<1>2. CASE Replace
  <2>1. \A k \in Ids : link'[k] = link[k] \/ link'[k] = "connecting" \/ (k = client /\ link'[k] \in {"ending", "ended"})
    BY <1>2, <1>t DEF Replace, Ended
  <2>2. \A c \in Commands : cmd'[c] = IF Waiting(c, client) THEN Lost(c) ELSE cmd[c]
    BY <1>2 DEF Replace
  <2> SUFFICES ASSUME NEW c \in Commands
               PROVE  /\ cmd'[c].status \in {"running", "waiting"} => cmd'[c].at \in Ids
                      /\ cmd'[c].status = "running" => link'[cmd'[c].at] # "none"
                      /\ cmd'[c].status = "waiting" => link'[cmd'[c].at] \in {"connecting", "closed"}
    OBVIOUS
  <2>3. cmd[c] \in CmdType
    BY <1>t
  <2>4. CASE Waiting(c, client)
    BY <2>2, <2>3, <2>4 DEF Lost, CmdType
  <2>5. CASE ~Waiting(c, client)
    <3>1. cmd'[c] = cmd[c]
      BY <2>2, <2>5
    <3>2. cmd[c].status = "waiting" => cmd[c].at # client
      BY <2>3, <2>5 DEF Waiting, CmdType
    <3> QED
      BY <3>1, <3>2, <2>1
  <2> QED
    BY <2>4, <2>5
<1>3. CASE Reconnect
  BY <1>3, <1>t DEF Reconnect, LinkType
<1>4. CASE Restart
  <2>1. \A c \in Commands : cmd'[c].status \notin {"running", "waiting"}
    BY <1>4, <1>t DEF Restart, Lost, CmdType
  <2> QED
    BY <2>1
<1>5. ASSUME NEW k \in Ids, Connected(k)
      PROVE  ResultsAreWithOpen'
  <2>1. \A c \in Commands : cmd'[c] = IF Waiting(c, k) THEN Clean("answered") ELSE cmd[c]
    BY <1>5 DEF Connected
  <2>2. \A c \in Commands : Waiting(c, k) <=> cmd[c].status = "waiting" /\ cmd[c].at = k
    BY <1>t DEF Waiting, CmdType
  <2> QED
    BY <1>5, <1>t, <2>1, <2>2 DEF Connected, Clean, LinkType
<1>6. ASSUME NEW k \in Ids, Close(k) \/ EndedClose(k)
      PROVE  ResultsAreWithOpen'
  BY <1>6, <1>t DEF Close, EndedClose, LinkType
<1>7. ASSUME NEW c \in Commands, Result(c)
      PROVE  ResultsAreWithOpen'
  <2>1. cmd[c] \in CmdType /\ cmd[c].at \in Ids /\ link[cmd[c].at] # "none" /\ cmd[c].status = "running"
    BY <1>7, <1>t DEF Result
  <2>2. \/ cmd' = [cmd EXCEPT ![c] = Clean("answered")]
        \/ cmd' = [cmd EXCEPT ![c] = [cmd[c] EXCEPT !.status = "lost"]]
        \/ /\ cmd' = [cmd EXCEPT ![c] = [cmd[c] EXCEPT !.status = "waiting"]]
           /\ link[cmd[c].at] \notin {"connected", "ending", "ended"}
    BY <1>7 DEF Result
  <2>3. link' = link
    BY <1>7 DEF Result
  <2>4. link[cmd[c].at] \notin {"connected", "ending", "ended"} => link[cmd[c].at] \in {"connecting", "closed"}
    BY <2>1, <1>t DEF LinkType
  <2> QED
    BY <2>1, <2>2, <2>3, <2>4, <1>t DEF Clean, CmdType
<1>8. ASSUME NEW c \in Commands, NEW k \in Ids, Take(c, k)
      PROVE  ResultsAreWithOpen'
  BY <1>8, <1>t DEF Take, CmdType
<1> QED
  BY <1>1, <1>2, <1>3, <1>4, <1>5, <1>6, <1>7, <1>8
     DEF LinkNext, linkVars, Enrol, Wipe, BeginImport, Imported

\* A result that waits is at a client that connects or that the reconnection timer is set
\* for, so it goes out with that connection, or is lost with the client or the process;
\* the one exception is that of the reconnection itself, an ended client that came back.
THEOREM LinkStrandsNoResult == LinkSpec => []NoResultIsStranded
<1>1. LinkInit => ResultsAreWithOpen
  BY DEF LinkInit, Clean, ResultsAreWithOpen
<1>2. LinkTypeOK /\ ReconnectionIsSound /\ ResultsAreWithOpen => NoResultIsStranded
  <2> SUFFICES ASSUME LinkTypeOK, ReconnectionIsSound, ResultsAreWithOpen,
                      NEW c \in Commands, cmd[c].status = "waiting", link[cmd[c].at] = "closed"
               PROVE  timer = cmd[c].at \/ Strayed
    BY DEF ResultsAreWithOpen, NoResultIsStranded
  <2>1. cmd[c].at \in Ids
    BY DEF ResultsAreWithOpen
  <2>2. CASE cmd[c].at = client
    BY <2>1, <2>2, IdNames DEF ReconnectionIsSound, DownIsScheduled
  <2>3. CASE cmd[c].at # client
    BY <2>1, <2>3 DEF Strayed
  <2> QED
    BY <2>2, <2>3
<1> QED
  BY <1>1, <1>2, LinkTypesInit, LinkTypesNext, LinkSoundInit, LinkSoundNext, LinkStrandedNext, PTL DEF LinkSpec
=============================================================================
