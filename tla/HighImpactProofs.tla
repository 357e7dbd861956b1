--------------------------- MODULE HighImpactProofs ---------------------------
(***************************************************************************)
(* What holds of HighImpact for every number of administrators, checks,    *)
(* devices, requests and faults.                                           *)
(***************************************************************************)
EXTENDS HighImpact, FiniteSetTheorems, TLAPS

-----------------------------------------------------------------------------
(* Type correctness, together with what the actors hold at each point: a   *)
(* load holds an identity that was registered, a decision is about a       *)
(* request, and an approval a check has in hand was really given.          *)

LoadPcs == {"idle", "decrypt", "retry", "decrypt again", "migrate", "register", "persist"}
Holding == {"decrypt", "decrypt again", "migrate", "persist"}

LoadRecs(n) == {v \in [pc : LoadPcs, id : 0..n] : v.pc \in Holding => v.id # None}
Loads(n) == [Loaders -> LoadRecs(n)]

AgentHolds ==
  /\ registered \in 0..MaxDevices
  /\ stored \in 0..registered /\ plaintext \in BOOLEAN /\ credentials \in 0..registered
  /\ loader \in Loads(registered)
  /\ wiped \subseteq 1..registered /\ read \subseteq wiped
  /\ updates \in 0..MaxUpdates /\ faults \in 0..MaxFaults

Statuses == {"none", "pending"} \cup Decisions

ConsoleHolds ==
  /\ request \in [Requests -> [device : 0..MaxDevices, status : Statuses]]
  /\ decider \in [Admins -> [pc : {"idle", "decide"}, req : 0..MaxRequests, decision : Decisions]]
  /\ \A a \in Admins : decider[a].pc = "decide" => decider[a].req \in Requests
  /\ expired \subseteq Requests /\ approvals \subseteq Requests
  /\ \A r \in Requests : request[r].status = "approved" => r \in approvals

Told(v) ==
  /\ v.pc # "idle" => v.req \in Requests
  /\ v.status = "approved" => v.req \in approvals
  /\ v.pc = "execute" => v.status = "approved"

CheckRecs == [pc : {"idle", "answered", "execute"}, req : 0..MaxRequests, status : Statuses]

ChecksHold ==
  /\ check \in [Checks -> CheckRecs]
  /\ \A c \in Checks : Told(check[c])

Holds == AgentHolds /\ ConsoleHolds /\ ChecksHold

LEMMA LoadRecord ==
  ASSUME NEW n, NEW pc \in LoadPcs, NEW id \in 0..n, pc \in Holding => id # None
  PROVE  [pc |-> pc, id |-> id] \in LoadRecs(n)
<1> DEFINE v == [pc |-> pc, id |-> id]
<1>1. v \in [pc : LoadPcs, id : 0..n] /\ v.pc = pc /\ v.id = id
  OBVIOUS
<1> HIDE DEF v
<1>2. v \in LoadRecs(n)
  BY <1>1 DEF LoadRecs
<1> QED
  BY <1>2 DEF v

LEMMA NoLoadRecord ==
  ASSUME NEW n \in Nat
  PROVE  NoLoad \in LoadRecs(n)
<1>1. "idle" \in LoadPcs /\ "idle" \notin Holding /\ None \in 0..n
  BY DEF LoadPcs, Holding, None
<1> QED
  BY <1>1, LoadRecord DEF NoLoad

LEMMA HoldsTypeOK == Holds => TypeOK
<1> SUFFICES ASSUME Holds PROVE TypeOK
  OBVIOUS
<1>1. loader \in [Loaders -> [pc : LoadPcs, id : 0..MaxDevices]]
  <2>1. LoadRecs(registered) \subseteq [pc : LoadPcs, id : 0..MaxDevices]
    BY BoundsAssumption DEF Holds, AgentHolds, LoadRecs
  <2> QED
    BY <2>1 DEF Holds, AgentHolds, Loads
<1> QED
  BY <1>1 DEF Holds, AgentHolds, ConsoleHolds, ChecksHold, TypeOK, LoadPcs, Statuses, CheckRecs

LEMMA HoldsInit == Init => Holds
<1> SUFFICES ASSUME Init PROVE Holds
  OBVIOUS
<1> USE BoundsAssumption DEF Init
<1>1. AgentHolds
  <2>1. registered \in 0..MaxDevices /\ registered \in Nat /\ stored \in 0..registered
    OBVIOUS
  <2>2. NoLoad \in LoadRecs(registered)
    BY <2>1, NoLoadRecord
  <2>3. loader \in Loads(registered)
    BY <2>2 DEF Loads
  <2>4. credentials \in 0..registered /\ plaintext \in BOOLEAN
    BY <2>1 DEF None
  <2> QED
    BY <2>1, <2>3, <2>4 DEF AgentHolds
<1>2. ConsoleHolds
  BY DEF ConsoleHolds, NoDecision, None, Decisions, Statuses, Requests
<1>3. ChecksHold
  BY DEF ChecksHold, NoCheck, None, Statuses, CheckRecs, Told, Decisions
<1> QED
  BY <1>1, <1>2, <1>3 DEF Holds

(* One load changes; the number of registered identities may grow. *)
LEMMA LoaderStep ==
  ASSUME NEW l \in Loaders, NEW v \in LoadRecs(registered),
         loader \in Loads(registered), loader' = [loader EXCEPT ![l] = v]
  PROVE  loader' \in Loads(registered)
  BY DEF Loads

LEMMA LoaderGrows ==
  ASSUME NEW l \in Loaders, NEW v \in LoadRecs(registered + 1), registered \in Nat,
         loader \in Loads(registered), loader' = [loader EXCEPT ![l] = v]
  PROVE  loader' \in Loads(registered + 1)
<1>1. LoadRecs(registered) \subseteq LoadRecs(registered + 1)
  BY DEF LoadRecs
<1> QED
  BY <1>1 DEF Loads

LEMMA AgentNext ==
  ASSUME Holds, [Next]_vars
  PROVE  AgentHolds'
<1> DEFINE Old == /\ registered \in Nat /\ registered <= MaxDevices
                  /\ loader \in Loads(registered)
                  /\ \A l \in Loaders : loader[l] \in LoadRecs(registered)
<1>0. Old
  <2>1. registered \in Nat /\ registered <= MaxDevices /\ loader \in Loads(registered)
    BY BoundsAssumption DEF Holds, AgentHolds
  <2> QED
    BY <2>1 DEF Loads
<1>a. NoLoad \in LoadRecs(registered) /\ NoLoad \in LoadRecs(registered + 1)
  BY <1>0, NoLoadRecord
<1>b. \A l \in Loaders : loader[l].id \in 0..registered
  BY <1>0 DEF LoadRecs
<1>c. ASSUME NEW l \in Loaders, NEW d \in {"decrypt", "decrypt again"}, ReadFile(l, d)
      PROVE  loader' \in Loads(registered)
  <2> DEFINE pc == IF stored = None THEN "register" ELSE IF plaintext THEN "migrate" ELSE d
  <2>1. [pc |-> pc, id |-> stored] \in LoadRecs(registered)
    BY DEF LoadRecs, LoadPcs, Holding, Holds, AgentHolds
  <2>2. loader' = [loader EXCEPT ![l] = [pc |-> pc, id |-> stored]]
    BY <1>c DEF ReadFile
  <2> HIDE DEF pc
  <2> QED
    BY <1>0, <2>1, <2>2, LoaderStep
<1>d. ASSUME NEW l \in Loaders, NEW id, Return(l, id) PROVE loader' \in Loads(registered)
  <2>1. loader' = [loader EXCEPT ![l] = NoLoad]
    BY <1>d DEF Return
  <2> QED
    BY <1>0, <1>a, <2>1, LoaderStep
<1>e. ASSUME loader' \in Loads(registered), credentials' \in 0..registered, stored' \in 0..registered,
             plaintext' \in BOOLEAN, faults' \in 0..MaxFaults, updates' \in 0..MaxUpdates,
             UNCHANGED <<registered, wiped, read>>
      PROVE  AgentHolds'
  BY <1>e DEF Holds, AgentHolds
<1>f. Faulty => faults' \in 0..MaxFaults
  BY BoundsAssumption DEF Faulty, Holds, AgentHolds
<1>g. 0 \in 0..registered /\ credentials \in 0..registered /\ stored \in 0..registered
      /\ plaintext \in BOOLEAN /\ faults \in 0..MaxFaults /\ updates \in 0..MaxUpdates
  BY <1>0 DEF Holds, AgentHolds
<1> HIDE DEF Old
<1>1. ASSUME NEW l \in Loaders, Load(l) PROVE AgentHolds'
  <2>1. updates' \in 0..MaxUpdates
    BY <1>1, <1>g, BoundsAssumption DEF Load
  <2> QED
    BY <1>1, <1>c, <1>e, <1>g, <2>1 DEF Load
<1>2. ASSUME NEW l \in Loaders, Decrypted(l) PROVE AgentHolds'
  BY <1>2, <1>b, <1>d, <1>e, <1>g DEF Decrypted, Return, history
<1>3. ASSUME NEW l \in Loaders, Retry(l) PROVE AgentHolds'
  BY <1>3, <1>c, <1>e, <1>g DEF Retry, history
<1>4. ASSUME NEW l \in Loaders, Register(l) PROVE AgentHolds'
  <2>1. registered' = registered + 1 /\ registered' \in 0..MaxDevices
    BY <1>0, <1>4, BoundsAssumption DEF Register, Old
  <2>2. loader' \in Loads(registered + 1)
    <3>1. [pc |-> "persist", id |-> registered + 1] \in LoadRecs(registered + 1)
      <4>1. "persist" \in LoadPcs /\ registered + 1 \in 0..(registered + 1) /\ registered + 1 # None
        BY <1>0 DEF LoadPcs, None, Old
      <4> QED
        BY <4>1, LoadRecord
    <3>2. \/ loader' = [loader EXCEPT ![l] = [pc |-> "persist", id |-> registered + 1]]
          \/ loader' = [loader EXCEPT ![l] = NoLoad]
      BY <1>4 DEF Register, Return
    <3> QED
      BY <1>0, <1>a, <3>1, <3>2, LoaderGrows DEF Old
  <2>3. credentials' \in 0..registered /\ faults' \in 0..MaxFaults
    BY <1>4, <1>f, <1>g DEF Register, Return, None
  <2>4. UNCHANGED <<stored, plaintext, wiped, read, updates>>
    BY <1>4 DEF Register, history
  <2> QED
    BY <1>0, <2>1, <2>2, <2>3, <2>4 DEF AgentHolds, Holds, Old
<1>5. ASSUME NEW l \in Loaders, Persist(l) PROVE AgentHolds'
  BY <1>5, <1>b, <1>d, <1>e, <1>g DEF Persist, Return, history
<1>6. ASSUME NEW l \in Loaders, DecryptFails(l) PROVE AgentHolds'
  <2>1. PICK pc \in {"retry", "register"} : loader' = [loader EXCEPT ![l].pc = pc]
    BY <1>6 DEF DecryptFails
  <2>2. [loader[l] EXCEPT !.pc = pc] \in LoadRecs(registered)
    BY <1>0 DEF LoadRecs, LoadPcs, Holding, Old
  <2>3. loader' = [loader EXCEPT ![l] = [loader[l] EXCEPT !.pc = pc]]
    BY <2>1
  <2>4. loader' \in Loads(registered)
    BY <1>0, <2>2, <2>3, LoaderStep DEF Old
  <2> QED
    BY <1>6, <1>e, <1>f, <1>g, <2>4 DEF DecryptFails, history
<1>7. ASSUME NEW l \in Loaders, LoadFails(l) PROVE AgentHolds'
  BY <1>7, <1>d, <1>e, <1>f, <1>g DEF LoadFails, Return, history, None
<1>8. ASSUME NEW l \in Loaders, MigrationFails(l) PROVE AgentHolds'
  BY <1>8, <1>b, <1>d, <1>e, <1>f, <1>g DEF MigrationFails, Return, history
<1>9. CASE Crash
  <2>1. loader' \in Loads(registered)
    BY <1>9, <1>a DEF Crash, Loads
  <2> QED
    BY <1>9, <1>e, <1>f, <1>g, <2>1 DEF Crash, history, None
<1>10. ASSUME NEW c \in Checks, Execute(c) PROVE AgentHolds'
  <2>1. wiped' \subseteq 1..registered /\ read' \subseteq wiped'
    <3>1. {stored, credentials} \ {None} \subseteq 1..registered
      BY <1>0, <1>g DEF None, Old
    <3>2. wiped \subseteq 1..registered /\ read \subseteq wiped
      BY DEF Holds, AgentHolds
    <3>3. wiped' = wiped \cup ({stored, credentials} \ {None}) /\ read' = read \cup (BeingRead \cap wiped')
      BY <1>10 DEF Execute
    <3> QED
      BY <3>1, <3>2, <3>3
  <2> QED
    BY <1>10, <1>0, <1>g, <2>1 DEF Execute, Holds, AgentHolds, None, Old
<1>11. ASSUME UNCHANGED <<registered, agentVars, history>>, faults' \in 0..MaxFaults PROVE AgentHolds'
  BY <1>11, <1>e, <1>g, <1>0 DEF agentVars, history, Old
<1>12. CASE Console
  BY <1>11, <1>12, <1>g DEF Console, CreateRequest, TokenExpires, Decide, ReadRequest
<1>13. ASSUME NEW c \in Checks, CheckToken(c) \/ KeyFails(c) \/ \E r \in Requests : FetchRequest(c, r)
       PROVE  AgentHolds'
  BY <1>11, <1>13, <1>f, <1>g DEF CheckToken, KeyFails, FetchRequest
<1>14. CASE UNCHANGED vars
  BY <1>11, <1>14, <1>g DEF vars
<1> QED
  BY <1>1, <1>2, <1>3, <1>4, <1>5, <1>6, <1>7, <1>8, <1>9, <1>10, <1>12, <1>13, <1>14
  DEF Next, LoadStep, CheckStep

LEMMA ConsoleNext ==
  ASSUME Holds, [Next]_vars
  PROVE  ConsoleHolds'
<1>0. ConsoleHolds
  BY DEF Holds
<1>1. ASSUME NEW r \in Requests, CreateRequest(r) PROVE ConsoleHolds'
  <2>1. credentials \in 0..MaxDevices
    BY BoundsAssumption DEF Holds, AgentHolds
  <2> DEFINE q == [device |-> credentials, status |-> "pending"]
  <2>2. q \in [device : 0..MaxDevices, status : Statuses] /\ q.status # "approved"
    BY <2>1 DEF Statuses
  <2>3. request' = [request EXCEPT ![r] = q]
    BY <1>1 DEF CreateRequest
  <2>4. UNCHANGED <<decider, expired, approvals>>
    BY <1>1 DEF CreateRequest
  <2> HIDE DEF q
  <2> QED
    BY <1>0, <2>2, <2>3, <2>4 DEF ConsoleHolds
<1>2. ASSUME NEW a \in Admins, NEW r \in Requests, NEW d \in Decisions, ReadRequest(a, r, d)
      PROVE  ConsoleHolds'
  <2> DEFINE v == [pc |-> "decide", req |-> r, decision |-> d]
  <2>1. v \in [pc : {"idle", "decide"}, req : 0..MaxRequests, decision : Decisions] /\ v.req \in Requests
    BY DEF Requests
  <2>2. decider' = [decider EXCEPT ![a] = v] /\ UNCHANGED <<request, expired, approvals>>
    BY <1>2 DEF ReadRequest
  <2> HIDE DEF v
  <2> QED
    BY <1>0, <2>1, <2>2 DEF ConsoleHolds
<1>3. ASSUME NEW a \in Admins, Decide(a) PROVE ConsoleHolds'
  <2> DEFINE r == decider[a].req
             d == decider[a].decision
  <2>1. r \in Requests /\ d \in Decisions /\ d \in Statuses
    BY <1>0, <1>3 DEF Decide, ConsoleHolds, Statuses
  <2>2. /\ request' = [request EXCEPT ![r].status = d]
        /\ expired' = expired \ {r}
        /\ approvals' = IF d = "approved" THEN approvals \cup {r} ELSE approvals
        /\ decider' = [decider EXCEPT ![a] = NoDecision]
    BY <1>3 DEF Decide
  <2> HIDE DEF r, d
  <2>3. NoDecision \in [pc : {"idle", "decide"}, req : 0..MaxRequests, decision : Decisions]
        /\ NoDecision.pc = "idle"
    BY BoundsAssumption DEF NoDecision, None, Decisions
  <2>4. request' \in [Requests -> [device : 0..MaxDevices, status : Statuses]]
    BY <1>0, <2>1, <2>2 DEF ConsoleHolds
  <2>5. \A q \in Requests : request'[q].status = "approved" => q \in approvals'
    BY <1>0, <2>1, <2>2 DEF ConsoleHolds
  <2>6. expired' \subseteq Requests /\ approvals' \subseteq Requests
    BY <1>0, <2>1, <2>2 DEF ConsoleHolds
  <2>7. /\ decider' \in [Admins -> [pc : {"idle", "decide"}, req : 0..MaxRequests, decision : Decisions]]
        /\ \A b \in Admins : decider'[b].pc = "decide" => decider'[b].req \in Requests
    BY <1>0, <2>2, <2>3 DEF ConsoleHolds
  <2> QED
    BY <2>4, <2>5, <2>6, <2>7 DEF ConsoleHolds
<1>4. ASSUME NEW r \in Requests, TokenExpires(r) PROVE ConsoleHolds'
  BY <1>0, <1>4 DEF ConsoleHolds, TokenExpires
<1>5. ASSUME UNCHANGED consoleVars PROVE ConsoleHolds'
  BY <1>0, <1>5 DEF ConsoleHolds, consoleVars
<1>6. ASSUME NEW l \in Loaders, LoadStep(l) \/ DecryptFails(l) \/ LoadFails(l) \/ MigrationFails(l)
      PROVE  ConsoleHolds'
  BY <1>5, <1>6 DEF LoadStep, Load, Decrypted, Retry, Register, Persist, DecryptFails, LoadFails,
     MigrationFails
<1>7. ASSUME NEW c \in Checks, CheckStep(c) \/ KeyFails(c) PROVE ConsoleHolds'
  BY <1>5, <1>7 DEF CheckStep, CheckToken, Execute, FetchRequest, KeyFails
<1>8. CASE Crash \/ UNCHANGED vars
  BY <1>5, <1>8 DEF Crash, vars
<1> QED
  BY <1>1, <1>2, <1>3, <1>4, <1>6, <1>7, <1>8 DEF Next, Console

LEMMA ChecksNext ==
  ASSUME Holds, [Next]_vars
  PROVE  ChecksHold'
<1>0. ChecksHold /\ ConsoleHolds
  BY DEF Holds
<1>1. NoCheck \in CheckRecs /\ NoCheck.pc = "idle" /\ NoCheck.status = "none"
  BY BoundsAssumption DEF NoCheck, CheckRecs, None, Statuses
<1>2. ASSUME NEW c \in Checks, NEW v \in CheckRecs, Told(v), UNCHANGED approvals,
             check' = [check EXCEPT ![c] = v]
      PROVE  ChecksHold'
  BY <1>0, <1>2 DEF ChecksHold, Told
<1>3. Told(NoCheck)
  BY <1>1 DEF Told
<1>4. ASSUME NEW c \in Checks, CheckToken(c) PROVE ChecksHold'
  <2>1. CASE Approved(c)
    <3> DEFINE v == [check[c] EXCEPT !.pc = "execute"]
    <3>1. check[c] \in CheckRecs /\ Told(check[c]) /\ check[c].pc = "answered"
      BY <1>0, <1>4 DEF ChecksHold, CheckToken
    <3>2. v \in CheckRecs /\ v.pc = "execute" /\ v.req = check[c].req /\ v.status = check[c].status
      BY <3>1 DEF CheckRecs
    <3>3. check' = [check EXCEPT ![c] = v] /\ UNCHANGED approvals
      BY <1>4, <2>1 DEF CheckToken, consoleVars
    <3> HIDE DEF v
    <3>4. Told(v)
      BY <2>1, <3>1, <3>2 DEF Told, Approved
    <3> QED
      BY <1>2, <3>2, <3>3, <3>4
  <2>2. CASE ~Approved(c)
    <3>1. check' = [check EXCEPT ![c] = NoCheck] /\ UNCHANGED approvals
      BY <1>4, <2>2 DEF CheckToken, consoleVars
    <3> QED
      BY <1>1, <1>2, <1>3, <3>1
  <2> QED
    BY <2>1, <2>2
<1>5. ASSUME NEW c \in Checks, KeyFails(c) \/ Execute(c) PROVE ChecksHold'
  <2>1. check' = [check EXCEPT ![c] = NoCheck] /\ UNCHANGED approvals
    BY <1>5 DEF KeyFails, Execute, consoleVars
  <2> QED
    BY <1>1, <1>2, <1>3, <2>1
<1>6. ASSUME NEW c \in Checks, NEW r \in Requests, FetchRequest(c, r) PROVE ChecksHold'
  <2> DEFINE v == [pc |-> "answered", req |-> r, status |-> request[r].status]
  <2>1. r \in 0..MaxRequests /\ request[r].status \in Statuses
    BY <1>0 DEF ConsoleHolds, Requests
  <2>2. v \in CheckRecs /\ v.pc = "answered" /\ v.req = r /\ v.status = request[r].status
    BY <2>1 DEF CheckRecs
  <2>3. check' = [check EXCEPT ![c] = v] /\ UNCHANGED approvals
    BY <1>6 DEF FetchRequest, consoleVars
  <2> HIDE DEF v
  <2>4. Told(v)
    BY <1>0, <2>2 DEF Told, ConsoleHolds
  <2> QED
    BY <1>2, <2>2, <2>3, <2>4
<1>7. CASE Crash
  <2>1. check' = [c \in Checks |-> NoCheck]
    BY <1>7 DEF Crash
  <2> QED
    BY <1>1, <1>3, <2>1 DEF ChecksHold, Told
<1>8. ASSUME UNCHANGED check, approvals \subseteq approvals' PROVE ChecksHold'
  BY <1>0, <1>8 DEF ChecksHold, Told
<1>9. ASSUME NEW l \in Loaders, LoadStep(l) \/ DecryptFails(l) \/ LoadFails(l) \/ MigrationFails(l)
      PROVE  ChecksHold'
  BY <1>8, <1>9 DEF LoadStep, Load, Decrypted, Retry, Register, Persist, DecryptFails, LoadFails,
     MigrationFails, consoleVars
<1>10. CASE Console
  BY <1>8, <1>10 DEF Console, CreateRequest, TokenExpires, Decide, ReadRequest
<1>11. CASE UNCHANGED vars
  BY <1>8, <1>11 DEF vars, consoleVars
<1> QED
  BY <1>4, <1>5, <1>6, <1>7, <1>9, <1>10, <1>11 DEF Next, CheckStep

LEMMA HoldsNext ==
  ASSUME Holds, [Next]_vars
  PROVE  Holds'
  BY AgentNext, ConsoleNext, ChecksNext DEF Holds

LEMMA HoldsAlways == Spec => []Holds
  BY HoldsInit, HoldsNext, PTL DEF Spec

\* The state of the identity and approval workflow keeps its types.
THEOREM IdentityTypes == Spec => []TypeOK
  BY HoldsAlways, HoldsTypeOK, PTL

-----------------------------------------------------------------------------
(* An execution has an approval: what a check was told was true when it    *)
(* was told, and approvals are only ever added to.                         *)

\* The credentials are never destroyed without an administrator's approval of
\* the request in hand (handleHighImpactCheckProxy), for any number of checks
\* and administrators and any order of their reads and writes.
THEOREM WipesAreApproved == Spec => WipedOnApproval
<1>1. Holds => \A c \in Checks : Execute(c) => check[c].req \in approvals
  BY DEF Holds, ChecksHold, Told, Execute
<1>2. Holds /\ [Next]_vars => [\A c \in Checks : Execute(c) => check[c].req \in approvals]_vars
  BY <1>1
<1> QED
  BY <1>2, HoldsAlways, PTL DEF Spec, WipedOnApproval

-----------------------------------------------------------------------------
(* A destroyed identity comes back only through a load that had read it.   *)
(* The invariant says so of what the loads hold as well, and that an       *)
(* identity on its way to the file is new to everybody.                    *)

Reading == {"decrypt", "decrypt again", "migrate"}

ReadIsKnown(l) ==
  loader[l].pc \in Reading /\ loader[l].id \in wiped => loader[l].id \in read

NewToAll(l) ==
  loader[l].pc = "persist" =>
    /\ loader[l].id \notin wiped \cup {stored, credentials, None}
    /\ \A k \in Loaders \ {l} : loader[k].id # loader[l].id

WipesHold ==
  /\ DestroyedForGood
  /\ \A l \in Loaders : ReadIsKnown(l) /\ NewToAll(l)

LEMMA WipesInit == Init => WipesHold
  BY DEF Init, WipesHold, DestroyedForGood, ReadIsKnown, NewToAll, NoLoad, Reading

LEMMA WipesNext ==
  ASSUME Holds, WipesHold, [Next]_vars
  PROVE  WipesHold'
<1>1. /\ registered \in Nat /\ stored \in 0..registered /\ credentials \in 0..registered
      /\ wiped \subseteq 1..registered /\ read \subseteq wiped
      /\ loader \in [Loaders -> [pc : LoadPcs, id : 0..registered]]
  <2>1. LoadRecs(registered) \subseteq [pc : LoadPcs, id : 0..registered]
    BY DEF LoadRecs
  <2> QED
    BY <2>1, BoundsAssumption DEF Holds, AgentHolds, Loads
<1>2. None \notin wiped
  BY <1>1 DEF None
<1> USE DEF WipesHold, DestroyedForGood, ReadIsKnown, NewToAll
<1>3. ASSUME NEW l \in Loaders, NEW d \in {"decrypt", "decrypt again"}, ReadFile(l, d),
             UNCHANGED <<stored, credentials, wiped, read>>
      PROVE  WipesHold'
  <2>1. PICK pc \in {"register", "migrate", "decrypt", "decrypt again"} :
           loader' = [loader EXCEPT ![l] = [pc |-> pc, id |-> stored]]
    BY <1>3 DEF ReadFile
  <2>2. /\ loader'[l].id = stored /\ loader'[l].pc # "persist"
        /\ \A k \in Loaders \ {l} : loader'[k] = loader[k]
    BY <1>1, <2>1
  <2> QED
    BY <1>3, <2>2
<1>4. ASSUME NEW l \in Loaders, NEW id, Return(l, id), UNCHANGED <<wiped, read>>,
             stored' \in {stored, id}, id \in wiped => id \in read,
             \A k \in Loaders \ {l} : loader[k].pc = "persist" => loader[k].id # id
      PROVE  WipesHold'
  <2>1. /\ loader'[l] = NoLoad /\ credentials' = id
        /\ \A k \in Loaders \ {l} : loader'[k] = loader[k]
    BY <1>1, <1>4 DEF Return
  <2>2. NoLoad.pc = "idle" /\ NoLoad.id = None
    BY DEF NoLoad
  <2> QED
    BY <1>4, <2>1, <2>2 DEF Reading
<1>5. ASSUME NEW l \in Loaders, Load(l) \/ Retry(l) PROVE WipesHold'
  BY <1>3, <1>5 DEF Load, Retry, history
<1>6. ASSUME NEW l \in Loaders, Decrypted(l) \/ MigrationFails(l) PROVE WipesHold'
  <2>1. loader[l].pc \in Reading /\ Return(l, loader[l].id) /\ UNCHANGED <<stored, wiped, read>>
    BY <1>6 DEF Decrypted, MigrationFails, Reading, history
  <2> QED
    BY <1>4, <2>1
<1>7. ASSUME NEW l \in Loaders, Register(l) PROVE WipesHold'
  <2>1. UNCHANGED <<stored, wiped, read>>
    BY <1>7 DEF Register, history
  <2>2. CASE Return(l, None)
    BY <1>2, <1>4, <2>1, <2>2
  <2>3. CASE loader' = [loader EXCEPT ![l] = [pc |-> "persist", id |-> registered']]
             /\ UNCHANGED credentials
    <3>1. registered' = registered + 1
      BY <1>7 DEF Register
    <3>2. /\ loader'[l].pc = "persist" /\ loader'[l].id = registered + 1
          /\ \A k \in Loaders \ {l} : loader'[k] = loader[k]
      BY <1>1, <2>3, <3>1
    <3>3. /\ registered + 1 \notin wiped \cup {stored, credentials, None}
          /\ \A k \in Loaders : loader[k].id # registered + 1
      <4>1. \A i \in 0..registered : i # registered + 1
        BY <1>1
      <4>2. \A k \in Loaders : loader[k].id \in 0..registered
        BY <1>1
      <4>3. registered + 1 \notin wiped /\ registered + 1 # None
        BY <1>1 DEF None
      <4> QED
        BY <1>1, <4>1, <4>2, <4>3
    <3>4. DestroyedForGood'
      BY <2>1, <2>3
    <3>5. ASSUME NEW k \in Loaders PROVE ReadIsKnown(k)' /\ NewToAll(k)'
      <4>1. CASE k = l
        BY <2>1, <2>3, <3>2, <3>3, <4>1 DEF Reading
      <4>2. CASE k # l
        <5>1. loader'[k] = loader[k] /\ loader[k].id # loader'[l].id
          BY <3>2, <3>3, <4>2
        <5>2. \A j \in Loaders \ {k} : loader'[j].id = loader[j].id \/ j = l
          BY <3>2
        <5> QED
          BY <2>1, <2>3, <5>1, <5>2
      <4> QED
        BY <4>1, <4>2
    <3> QED
      BY <3>4, <3>5
  <2> QED
    BY <1>7, <2>2, <2>3 DEF Register
<1>8. ASSUME NEW l \in Loaders, Persist(l) PROVE WipesHold'
  <2>1. /\ Return(l, loader[l].id) /\ UNCHANGED <<wiped, read>> /\ stored' = loader[l].id
        /\ loader[l].pc \in {"persist", "migrate"}
    BY <1>8 DEF Persist, history
  <2>2. loader[l].id \in wiped => loader[l].id \in read
    BY <2>1 DEF Reading
  <2> QED
    BY <1>4, <2>1, <2>2
<1>9. ASSUME NEW l \in Loaders, DecryptFails(l) PROVE WipesHold'
  <2>1. PICK pc \in {"retry", "register"} : loader' = [loader EXCEPT ![l].pc = pc]
    BY <1>9 DEF DecryptFails
  <2>2. /\ loader'[l].id = loader[l].id /\ loader'[l].pc \in {"retry", "register"}
        /\ \A k \in Loaders \ {l} : loader'[k] = loader[k]
    BY <1>1, <2>1
  <2>3. UNCHANGED <<stored, credentials, wiped, read>>
    BY <1>9 DEF DecryptFails, history
  <2> QED
    BY <2>2, <2>3 DEF Reading
<1>10. ASSUME NEW l \in Loaders, LoadFails(l) PROVE WipesHold'
  <2>1. Return(l, None) /\ UNCHANGED <<stored, wiped, read>>
    BY <1>10 DEF LoadFails, history
  <2> QED
    BY <1>2, <1>4, <2>1
<1>11. CASE Crash
  <2>1. /\ credentials' = None /\ UNCHANGED <<stored, wiped, read>>
        /\ \A l \in Loaders : loader'[l].pc = "idle"
    BY <1>11 DEF Crash, NoLoad, history
  <2> QED
    BY <1>2, <2>1 DEF Reading
<1>12. ASSUME NEW c \in Checks, Execute(c) PROVE WipesHold'
  <2>1. /\ stored' = None /\ credentials' = None /\ loader' = loader
        /\ wiped' = wiped \cup ({stored, credentials} \ {None})
        /\ read' = read \cup (BeingRead \cap wiped')
    BY <1>12 DEF Execute
  <2>2. \A l \in Loaders : loader[l].pc \in Reading => loader[l].id \in BeingRead
    BY DEF BeingRead, Reading
  <2> QED
    BY <1>2, <2>1, <2>2
<1>13. ASSUME UNCHANGED <<agentVars, history>> PROVE WipesHold'
  BY <1>13 DEF agentVars, history
<1>14. CASE Console
  BY <1>13, <1>14 DEF Console, CreateRequest, TokenExpires, Decide, ReadRequest
<1>15. ASSUME NEW c \in Checks, CheckToken(c) \/ KeyFails(c) \/ \E r \in Requests : FetchRequest(c, r)
       PROVE  WipesHold'
  BY <1>13, <1>15 DEF CheckToken, KeyFails, FetchRequest
<1>16. CASE UNCHANGED vars
  BY <1>13, <1>16 DEF vars
<1> QED
  BY <1>5, <1>6, <1>7, <1>8, <1>9, <1>10, <1>11, <1>12, <1>14, <1>15, <1>16 DEF Next, LoadStep, CheckStep

\* An identity that an approved action destroyed is not used or stored again
\* unless a load had read it before (executeClearCachedCredentials against
\* loadOrRegisterDevice), for any number of checks, requests and faults.
THEOREM DestructionIsFinal == Spec => []DestroyedForGood
<1>1. WipesHold => DestroyedForGood
  BY DEF WipesHold
<1>2. Spec => []WipesHold
  BY HoldsAlways, WipesInit, WipesNext, PTL DEF Spec
<1> QED
  BY <1>1, <1>2, PTL

-----------------------------------------------------------------------------
(* Device rows.  Beyond the rows that exist, some are owed: a load that    *)
(* found nothing will register, and so will the poll loop once it finds    *)
(* the file gone, or holding an identity that is to be destroyed again     *)
(* without counting a second time.  A backend-URL update owes one row for  *)
(* as long as its load is under way.                                       *)

Due(owed) == IF owed THEN 1 ELSE 0

CycleOwes ==
  \/ loader["cycle"].pc = "register"
  \/ /\ loader["cycle"].pc # "persist"
     /\ \/ stored \in wiped \cup {None}
        \/ loader["cycle"].pc = "migrate" /\ loader["cycle"].id \in wiped

UpdateOwes == loader["update"].pc \notin {"idle", "persist"}

RowsOwed ==
  registered + Due(CycleOwes) + Due(UpdateOwes) <= 1 + Cardinality(wiped) + faults + updates

LEMMA WipedIsFinite ==
  ASSUME Holds
  PROVE  IsFiniteSet(wiped) /\ Cardinality(wiped) \in Nat
<1>1. wiped \subseteq 1..registered /\ registered \in Nat
  BY BoundsAssumption DEF Holds, AgentHolds
<1>2. IsFiniteSet(1..registered)
  BY <1>1, FS_Interval
<1> QED
  BY <1>1, <1>2, FS_Subset, FS_CardinalityType

\* An execution that takes a live identity from the file destroys one more.
LEMMA ExecuteWipes ==
  ASSUME Holds, Holds', NEW c \in Checks, Execute(c)
  PROVE  /\ Cardinality(wiped') \in Nat
         /\ Cardinality(wiped) <= Cardinality(wiped')
         /\ stored \notin wiped \cup {None} => Cardinality(wiped) + 1 <= Cardinality(wiped')
<1>1. IsFiniteSet(wiped) /\ IsFiniteSet(wiped') /\ Cardinality(wiped) \in Nat /\ Cardinality(wiped') \in Nat
  <2>1. IsFiniteSet(wiped) /\ Cardinality(wiped) \in Nat
    BY WipedIsFinite
  <2>2. wiped' \subseteq 1..registered' /\ registered' \in Nat
    BY BoundsAssumption DEF Holds, AgentHolds
  <2>3. IsFiniteSet(1..registered')
    BY <2>2, FS_Interval
  <2> QED
    BY <2>1, <2>2, <2>3, FS_Subset, FS_CardinalityType
<1>2. wiped \subseteq wiped' /\ (stored # None => wiped \cup {stored} \subseteq wiped')
  BY DEF Execute
<1>3. Cardinality(wiped) <= Cardinality(wiped')
  BY <1>1, <1>2, FS_Subset
<1>4. ASSUME stored \notin wiped, stored # None PROVE Cardinality(wiped) + 1 <= Cardinality(wiped')
  <2>1. Cardinality(wiped \cup {stored}) = Cardinality(wiped) + 1
    BY <1>1, <1>4, FS_AddElement
  <2>2. Cardinality(wiped \cup {stored}) <= Cardinality(wiped')
    BY <1>1, <1>2, <1>4, FS_Subset
  <2> QED
    BY <2>1, <2>2
<1> QED
  BY <1>1, <1>3, <1>4

LEMMA RowsInit == Init => RowsOwed
<1> SUFFICES ASSUME Init PROVE RowsOwed
  OBVIOUS
<1>1. Cardinality(wiped) = 0 /\ faults = 0 /\ updates = 0
  BY FS_EmptySet DEF Init
<1>2. ~UpdateOwes /\ (CycleOwes => registered = 0) /\ registered \in {0, 1}
  BY BoundsAssumption DEF Init, UpdateOwes, CycleOwes, NoLoad, Loaders, None
<1> QED
  BY <1>1, <1>2 DEF RowsOwed, Due

LEMMA RowsNext ==
  ASSUME Holds, Holds', WipesHold, RowsOwed, [Next]_vars
  PROVE  RowsOwed'
<1> DEFINE w == Cardinality(wiped)
           cycle == loader["cycle"]
           update == loader["update"]
<1>0. /\ registered \in Nat /\ w \in Nat /\ faults \in Nat /\ updates \in Nat
      /\ loader \in [Loaders -> [pc : LoadPcs, id : 0..registered]]
      /\ \A l \in Loaders : loader[l].pc \in Holding => loader[l].id # None
      /\ Loaders = {"cycle", "update"} /\ "cycle" # "update" /\ wiped \subseteq 1..registered
  <2>1. LoadRecs(registered) \subseteq [pc : LoadPcs, id : 0..registered]
    BY DEF LoadRecs
  <2>2. \A v \in LoadRecs(registered) : v.pc \in Holding => v.id # None
    BY DEF LoadRecs
  <2> QED
    BY <2>1, <2>2, WipedIsFinite, BoundsAssumption DEF Holds, AgentHolds, Loads, Loaders
<1>d. Due(CycleOwes) \in {0, 1} /\ Due(UpdateOwes) \in {0, 1} /\ Due(CycleOwes)' \in {0, 1} /\ Due(UpdateOwes)' \in {0, 1}
  BY DEF Due
<1>f. Faulty => faults' = faults + 1
  BY DEF Faulty
\* The poll loop owes no more than it did.
<1>k. ASSUME CycleOwes' => CycleOwes, UpdateOwes' => UpdateOwes, UNCHANGED <<registered, wiped>>,
             faults' \in {faults, faults + 1}, updates' \in {updates, updates + 1}
      PROVE  RowsOwed'
  BY <1>0, <1>k DEF RowsOwed, Due
\* A fault pays for what the poll loop may owe from now on.
<1>p. ASSUME UpdateOwes' => UpdateOwes, UNCHANGED <<registered, wiped, updates>>, faults' = faults + 1
      PROVE  RowsOwed'
  BY <1>0, <1>p DEF RowsOwed, Due
<1>1. ASSUME NEW d \in {"decrypt", "decrypt again"}, ReadFile("cycle", d), UNCHANGED <<registered, stored, wiped, faults>>,
             updates' = updates, cycle.pc \in {"idle", "retry"}
      PROVE  RowsOwed'
  <2>1. /\ loader'["update"] = update
        /\ loader'["cycle"].id = stored
        /\ loader'["cycle"].pc = IF stored = None THEN "register" ELSE IF plaintext THEN "migrate" ELSE d
    BY <1>0, <1>1 DEF ReadFile
  <2>2. CycleOwes' => CycleOwes
    BY <1>1, <2>1 DEF CycleOwes
  <2> QED
    BY <1>1, <1>k, <2>1, <2>2 DEF UpdateOwes
<1>2. ASSUME NEW l \in Loaders, Load(l) PROVE RowsOwed'
  <2>1. CASE l = "cycle"
    BY <1>1, <1>2, <2>1 DEF Load
  <2>2. CASE l = "update"
    <3>1. /\ loader'["cycle"] = cycle /\ UNCHANGED <<registered, stored, wiped, faults>> /\ updates' = updates + 1
          /\ update.pc = "idle"
      BY <1>0, <1>2, <2>2 DEF Load, ReadFile
    <3>2. (CycleOwes' <=> CycleOwes) /\ ~UpdateOwes
      BY <3>1 DEF CycleOwes, UpdateOwes
    <3> QED
      BY <1>0, <1>d, <3>1, <3>2 DEF RowsOwed, Due
  <2> QED
    BY <1>0, <2>1, <2>2
<1>3. ASSUME NEW l \in Loaders, Retry(l) PROVE RowsOwed'
  <2>0. UNCHANGED <<registered, stored, wiped, faults, updates>> /\ loader[l].pc = "retry" /\ ReadFile(l, "decrypt again")
    BY <1>3 DEF Retry, history
  <2>1. CASE l = "cycle"
    BY <1>1, <2>0, <2>1
  <2>2. CASE l = "update"
    <3>1. loader'["cycle"] = cycle
      BY <1>0, <2>0, <2>2 DEF ReadFile
    <3>2. (CycleOwes' => CycleOwes) /\ UpdateOwes
      BY <2>0, <2>2, <3>1 DEF CycleOwes, UpdateOwes
    <3> QED
      BY <2>0, <3>2, <1>k
  <2> QED
    BY <1>0, <2>1, <2>2
<1>4. ASSUME NEW l \in Loaders, Decrypted(l) PROVE RowsOwed'
  <2>0. UNCHANGED <<registered, stored, wiped, faults, updates>> /\ loader[l].pc \in {"decrypt", "decrypt again"}
        /\ loader' = [loader EXCEPT ![l] = NoLoad]
    BY <1>4 DEF Decrypted, Return, history
  <2>1. (CycleOwes' => CycleOwes) /\ (UpdateOwes' => UpdateOwes)
    BY <1>0, <2>0 DEF CycleOwes, UpdateOwes, NoLoad
  <2> QED
    BY <2>0, <2>1, <1>k
<1>5. ASSUME NEW l \in Loaders, Register(l) PROVE RowsOwed'
  <2>0. /\ loader[l].pc = "register" /\ registered' = registered + 1 /\ UNCHANGED <<stored, wiped, updates>>
        /\ \/ loader' = [loader EXCEPT ![l] = [pc |-> "persist", id |-> registered + 1]] /\ faults' = faults
           \/ loader' = [loader EXCEPT ![l] = NoLoad] /\ faults' = faults + 1
    BY <1>5, <1>f DEF Register, Return, history
  <2>1. CASE l = "cycle"
    <3>1. CycleOwes /\ (UpdateOwes' <=> UpdateOwes)
      BY <1>0, <2>0, <2>1 DEF CycleOwes, UpdateOwes
    <3>2. CASE loader' = [loader EXCEPT ![l] = [pc |-> "persist", id |-> registered + 1]] /\ faults' = faults
      <4>1. ~CycleOwes'
        BY <1>0, <2>1, <3>2 DEF CycleOwes
      <4> QED
        BY <1>0, <1>d, <2>0, <3>1, <3>2, <4>1 DEF RowsOwed, Due
    <3>3. CASE faults' = faults + 1
      BY <1>0, <1>d, <2>0, <3>1, <3>3 DEF RowsOwed, Due
    <3> QED
      BY <2>0, <3>2, <3>3
  <2>2. CASE l = "update"
    <3>1. UpdateOwes /\ ~UpdateOwes'
      BY <1>0, <2>0, <2>2 DEF UpdateOwes, NoLoad
    <3>2. CycleOwes' <=> CycleOwes
      BY <1>0, <2>0, <2>2 DEF CycleOwes
    <3> QED
      BY <1>0, <1>d, <2>0, <3>1, <3>2 DEF RowsOwed, Due
  <2> QED
    BY <1>0, <2>1, <2>2
<1>6. ASSUME NEW l \in Loaders, Persist(l) PROVE RowsOwed'
  <2>0. /\ loader[l].pc \in {"persist", "migrate"} /\ stored' = loader[l].id
        /\ UNCHANGED <<registered, wiped, faults, updates>> /\ loader' = [loader EXCEPT ![l] = NoLoad]
        /\ loader[l].id # None
    BY <1>0, <1>6 DEF Persist, Return, history, Holding
  <2>1. loader[l].pc = "persist" => stored' \notin wiped \cup {None}
    BY <2>0 DEF WipesHold, NewToAll
  <2>2. CASE l = "cycle"
    <3>1. (CycleOwes' => CycleOwes) /\ (UpdateOwes' => UpdateOwes)
      BY <1>0, <2>0, <2>1, <2>2 DEF CycleOwes, UpdateOwes, NoLoad
    <3> QED
      BY <2>0, <3>1, <1>k
  <2>3. CASE l = "update" /\ update.pc = "persist"
    <3>1. (CycleOwes' => CycleOwes) /\ ~UpdateOwes'
      BY <1>0, <2>0, <2>1, <2>3 DEF CycleOwes, UpdateOwes, NoLoad
    <3> QED
      BY <2>0, <3>1, <1>k
  <2>4. CASE l = "update" /\ update.pc = "migrate"
    <3>1. UpdateOwes /\ ~UpdateOwes'
      BY <1>0, <2>0, <2>4 DEF UpdateOwes, NoLoad
    <3> QED
      BY <1>0, <1>d, <2>0, <3>1 DEF RowsOwed, Due
  <2> QED
    BY <1>0, <2>0, <2>2, <2>3, <2>4
<1>7. ASSUME NEW l \in Loaders, DecryptFails(l) \/ LoadFails(l) \/ MigrationFails(l) PROVE RowsOwed'
  <2>0. UNCHANGED <<registered, wiped, updates>> /\ faults' = faults + 1
    BY <1>7, <1>f DEF DecryptFails, LoadFails, MigrationFails, history
  <2>1. /\ loader[l].pc \in {"decrypt", "decrypt again"} \/ loader' = [loader EXCEPT ![l] = NoLoad]
        /\ \E v : loader' = [loader EXCEPT ![l] = v]
    BY <1>7 DEF DecryptFails, LoadFails, MigrationFails, Return
  <2>2. l # "update" => loader'["update"] = update
    BY <1>0, <2>1
  <2>3. l = "update" => UpdateOwes \/ loader'["update"] = NoLoad
    BY <1>0, <2>1 DEF UpdateOwes
  <2>4. UpdateOwes' => UpdateOwes
    BY <1>0, <2>2, <2>3 DEF UpdateOwes, NoLoad
  <2> QED
    BY <2>0, <2>4, <1>p
<1>8. CASE Crash
  <2>1. UNCHANGED <<registered, wiped, updates>> /\ faults' = faults + 1 /\ ~UpdateOwes'
    BY <1>0, <1>8, <1>f DEF Crash, history, UpdateOwes, NoLoad
  <2> QED
    BY <2>1, <1>p
<1>9. ASSUME NEW c \in Checks, Execute(c) PROVE RowsOwed'
  <2>1. UNCHANGED <<registered, loader, faults, updates>> /\ (UpdateOwes' <=> UpdateOwes)
    BY <1>9 DEF Execute, UpdateOwes
  <2>2. w' \in Nat
    BY <1>9, ExecuteWipes
  <2>3. CASE stored \notin wiped \cup {None}
    <3>1. w + 1 <= w'
      BY <1>9, <2>3, ExecuteWipes
    <3> QED
      BY <1>0, <1>d, <2>1, <2>2, <3>1 DEF RowsOwed, Due
  <2>4. CASE stored \in wiped \cup {None}
    <3>1. w <= w'
      BY <1>9, ExecuteWipes
    <3>2. CycleOwes' => CycleOwes
      BY <2>1, <2>4 DEF CycleOwes
    <3> QED
      BY <1>0, <1>d, <2>1, <2>2, <3>1, <3>2 DEF RowsOwed, Due
  <2> QED
    BY <2>3, <2>4
<1>10. ASSUME UNCHANGED <<registered, agentVars, history>>, faults' \in {faults, faults + 1} PROVE RowsOwed'
  <2>1. (CycleOwes' <=> CycleOwes) /\ (UpdateOwes' <=> UpdateOwes)
    BY <1>10 DEF CycleOwes, UpdateOwes, agentVars, history
  <2> QED
    BY <1>10, <2>1, <1>k DEF history
<1>11. CASE Console
  BY <1>10, <1>11 DEF Console, CreateRequest, TokenExpires, Decide, ReadRequest
<1>12. ASSUME NEW c \in Checks, CheckToken(c) \/ KeyFails(c) \/ \E r \in Requests : FetchRequest(c, r)
       PROVE  RowsOwed'
  BY <1>10, <1>12, <1>f DEF CheckToken, KeyFails, FetchRequest
<1>13. CASE UNCHANGED vars
  BY <1>10, <1>13 DEF vars
<1> QED
  BY <1>2, <1>3, <1>4, <1>5, <1>6, <1>7, <1>8, <1>9, <1>11, <1>12, <1>13 DEF Next, LoadStep, CheckStep

\* The backend has no device row that nothing explains (handleRegisterDevice): the
\* first apart, each was owed to a destroyed identity, a fault or a backend-URL
\* update that raced the poll loop (loadOrRegisterDevice), however many of them.
THEOREM RowsAreExplained == Spec => []RowsExplained
<1>1. Holds /\ RowsOwed => RowsExplained
  <2> SUFFICES ASSUME Holds, RowsOwed PROVE RowsExplained
    OBVIOUS
  <2>1. /\ registered \in Nat /\ Cardinality(wiped) \in Nat /\ faults \in Nat /\ updates \in Nat
        /\ Due(CycleOwes) \in {0, 1} /\ Due(UpdateOwes) \in {0, 1}
    BY WipedIsFinite, BoundsAssumption DEF Holds, AgentHolds, Due
  <2> QED
    BY <2>1 DEF RowsOwed, RowsExplained
<1>2. Spec => []WipesHold
  BY HoldsAlways, WipesInit, WipesNext, PTL DEF Spec
<1>3. Spec => []RowsOwed
  BY <1>2, HoldsAlways, RowsInit, RowsNext, PTL DEF Spec
<1> QED
  BY <1>1, <1>3, HoldsAlways, PTL
=============================================================================
