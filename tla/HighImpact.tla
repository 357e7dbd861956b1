------------------------------ MODULE HighImpact ------------------------------
(***************************************************************************)
(* One device's identity with the Cloud Command Center, and the approval   *)
(* workflow whose high-impact actions destroy it.                          *)
(*                                                                         *)
(* The agent (local-agent/server/telemetry-server.mjs) loads or registers  *)
(* its credentials from two places, the poll loop and the backend-URL      *)
(* handler.  It asks for approval of a high-impact action, administrators  *)
(* decide in backend/handlers.go, and a check that finds a signed approval *)
(* deletes the credentials.  JavaScript runs without preemption, so the    *)
(* steps here are the stretches between awaits.                            *)
(***************************************************************************)
EXTENDS Integers, FiniteSets

CONSTANTS
  Admins,       \* concurrent approve and reject requests
  Checks,       \* concurrent POST /api/high-impact/check requests
  MaxDevices,   \* bound: device rows registered
  MaxRequests,  \* bound: approval requests created
  MaxUpdates,   \* bound: backend-URL updates that load credentials
  MaxFaults     \* bound: crashes and failed calls

ASSUME BoundsAssumption ==
  /\ MaxDevices \in Nat /\ MaxRequests \in Nat
  /\ MaxUpdates \in Nat /\ MaxFaults \in Nat

Devices == 1..MaxDevices
Requests == 1..MaxRequests
None == 0
Loaders == {"cycle", "update"}
Decisions == {"approved", "rejected"}

VARIABLES
  registered,   \* how many device rows the backend has; names the last one
  stored,       \* the credentials file: a device id, or None when absent
  plaintext,    \* the file is in the old format, not yet encrypted
  credentials,  \* deviceCredentials in memory
  loader,       \* loader[l]: a call of loadOrRegisterDevice
  request,      \* request[r]: an approval_requests row
  decider,      \* decider[a]: an approve or reject handler
  check,        \* check[c]: a handleHighImpactCheckProxy call
  expired,      \* requests whose token is past its expiresAt
  approvals,    \* requests an administrator approved (history)
  wiped,        \* identities an execution destroyed (history)
  read,         \* those a load had read by then (history)
  updates,      \* backend-URL updates so far
  faults        \* faults so far

agentVars == <<stored, plaintext, credentials, loader>>
consoleVars == <<request, decider, expired, approvals>>
history == <<wiped, read, updates>>
vars == <<registered, agentVars, consoleVars, check, history, faults>>

-----------------------------------------------------------------------------
NoLoad == [pc |-> "idle", id |-> None]
NoDecision == [pc |-> "idle", req |-> None, decision |-> "rejected"]
NoCheck == [pc |-> "idle", req |-> None, status |-> "none"]

\* A first start, or the first after an upgrade from a version that stored its
\* credentials in plaintext.
Init ==
  /\ registered \in 0..(IF MaxDevices = 0 THEN 0 ELSE 1)
  /\ stored = registered
  /\ plaintext = (stored # None)
  /\ credentials = None
  /\ loader = [l \in Loaders |-> NoLoad]
  /\ request = [r \in Requests |-> [device |-> None, status |-> "none"]]
  /\ decider = [a \in Admins |-> NoDecision]
  /\ check = [c \in Checks |-> NoCheck]
  /\ expired = {} /\ approvals = {}
  /\ wiped = {} /\ read = {}
  /\ updates = 0 /\ faults = 0

Faulty == faults < MaxFaults /\ faults' = faults + 1

-----------------------------------------------------------------------------
(* loadOrRegisterDevice, only called while there are no credentials. *)

\* Mutant of ReadFile: without a file the device waits instead of registering.
ReadFileOrWait(l, decrypting) ==
  loader' = [loader EXCEPT ![l] =
    IF stored = None THEN NoLoad
    ELSE [pc |-> IF plaintext THEN "migrate" ELSE decrypting, id |-> stored]]

\* The file is read at once; decrypting it, and everything after, is awaited.
ReadFile(l, decrypting) ==
  loader' = [loader EXCEPT ![l] =
    [pc |-> IF stored = None THEN "register" ELSE IF plaintext THEN "migrate" ELSE decrypting,
     id |-> stored]]

\* The caller's assignment of whatever the call returned.
Return(l, id) ==
  /\ credentials' = id
  /\ loader' = [loader EXCEPT ![l] = NoLoad]

\* Mutant of Load: every cycle registers, enrolled or not.
RegisterEveryTime(l) ==
  /\ loader[l].pc = "idle"
  /\ loader' = [loader EXCEPT ![l] = [pc |-> "register", id |-> None]]
  /\ UNCHANGED <<registered, stored, plaintext, credentials, consoleVars, check, history, faults>>

Load(l) ==
  /\ loader[l].pc = "idle"
  /\ credentials = None
  /\ ReadFile(l, "decrypt")
  /\ IF l = "update" THEN updates < MaxUpdates /\ updates' = updates + 1
                     ELSE UNCHANGED updates
  /\ UNCHANGED <<registered, stored, plaintext, credentials, consoleVars, check, wiped, read, faults>>

Decrypted(l) ==
  /\ loader[l].pc \in {"decrypt", "decrypt again"}
  /\ Return(l, loader[l].id)
  /\ UNCHANGED <<registered, stored, plaintext, consoleVars, check, history, faults>>

\* A PowerShell timeout: once is retried, twice makes the file "broken".
DecryptFails(l) ==
  /\ Faulty
  /\ \/ loader[l].pc = "decrypt" /\ loader' = [loader EXCEPT ![l].pc = "retry"]
     \/ loader[l].pc = "decrypt again" /\ loader' = [loader EXCEPT ![l].pc = "register"]
  /\ UNCHANGED <<registered, stored, plaintext, credentials, consoleVars, check, history>>

Retry(l) ==
  /\ loader[l].pc = "retry"
  /\ ReadFile(l, "decrypt again")
  /\ UNCHANGED <<registered, stored, plaintext, credentials, consoleVars, check, history, faults>>

\* Mutant of Register: the backend answers with an id it did not insert.
RegisterNothing(l) ==
  /\ loader[l].pc = "register"
  /\ registered < MaxDevices
  /\ loader' = [loader EXCEPT ![l] = [pc |-> "persist", id |-> registered + 1]]
  /\ UNCHANGED <<registered, stored, plaintext, credentials, consoleVars, check, history, faults>>

\* handleRegisterDevice inserts a row; the answer arrives, or is lost.
Register(l) ==
  /\ loader[l].pc = "register"
  /\ registered < MaxDevices
  /\ registered' = registered + 1
  /\ \/ /\ loader' = [loader EXCEPT ![l] = [pc |-> "persist", id |-> registered']]
        /\ UNCHANGED <<credentials, faults>>
     \/ Faulty /\ Return(l, None)
  /\ UNCHANGED <<stored, plaintext, consoleVars, check, history>>

\* The backend is unreachable, or the credentials cannot be encrypted or saved.
LoadFails(l) ==
  /\ loader[l].pc \in {"register", "persist"}
  /\ Faulty
  /\ Return(l, None)
  /\ UNCHANGED <<registered, stored, plaintext, consoleVars, check, history>>

\* A registration saves its credentials, a plaintext file is encrypted in place:
\* either way the file is overwritten after an await, whatever it holds by now.
Persist(l) ==
  /\ loader[l].pc \in {"persist", "migrate"}
  /\ stored' = loader[l].id
  /\ plaintext' = FALSE
  /\ Return(l, loader[l].id)
  /\ UNCHANGED <<registered, consoleVars, check, history, faults>>

\* The plaintext credentials cannot be encrypted; they are used all the same.
MigrationFails(l) ==
  /\ loader[l].pc = "migrate"
  /\ Faulty
  /\ Return(l, loader[l].id)
  /\ UNCHANGED <<registered, stored, plaintext, consoleVars, check, history>>

\* The agent dies; its supervisor starts it again with nothing in memory.
Crash ==
  /\ Faulty
  /\ credentials' = None
  /\ loader' = [l \in Loaders |-> NoLoad]
  /\ check' = [c \in Checks |-> NoCheck]
  /\ UNCHANGED <<registered, stored, plaintext, consoleVars, history>>

-----------------------------------------------------------------------------
(* The approval requests and the console. *)

\* handleHighImpactRequestProxy and handleCreateApprovalRequest.
CreateRequest(r) ==
  /\ credentials # None
  /\ request[r].status = "none"
  /\ \A s \in Requests : s < r => request[s].status # "none"
  /\ request' = [request EXCEPT ![r] = [device |-> credentials, status |-> "pending"]]
  /\ UNCHANGED <<registered, agentVars, decider, expired, approvals, check, history, faults>>

\* handleApproveRequest and handleRejectRequest: 409 unless pending.
ReadRequest(a, r, d) ==
  /\ decider[a].pc = "idle"
  /\ request[r].status = "pending"
  /\ decider' = [decider EXCEPT ![a] = [pc |-> "decide", req |-> r, decision |-> d]]
  /\ UNCHANGED <<registered, agentVars, request, expired, approvals, check, history, faults>>

\* decideApprovalRequest updates the row whatever its status is by now.
Decide(a) ==
  LET r == decider[a].req IN
  /\ decider[a].pc = "decide"
  /\ request' = [request EXCEPT ![r].status = decider[a].decision]
  /\ expired' = expired \ {r}
  /\ approvals' = IF decider[a].decision = "approved" THEN approvals \cup {r} ELSE approvals
  /\ decider' = [decider EXCEPT ![a] = NoDecision]
  /\ UNCHANGED <<registered, agentVars, check, history, faults>>

\* approvalTokenValidity, five minutes after the approval.
TokenExpires(r) ==
  /\ request[r].status = "approved"
  /\ expired' = expired \cup {r}
  /\ UNCHANGED <<registered, agentVars, request, decider, approvals, check, history, faults>>

-----------------------------------------------------------------------------
(* handleHighImpactCheckProxy. *)

\* The backend answers a device only about its own requests.
FetchRequest(c, r) ==
  /\ check[c].pc = "idle"
  /\ credentials # None
  /\ request[r].device = credentials
  /\ check' = [check EXCEPT ![c] = [pc |-> "answered", req |-> r, status |-> request[r].status]]
  /\ UNCHANGED <<registered, agentVars, consoleVars, history, faults>>

\* Mutant of Approved: only the token's expiry is looked at.
Unexpired(c) == check[c].req \notin expired

\* The status, then verifyApprovalToken up to its wait for the public key.
Approved(c) == check[c].status = "approved" /\ check[c].req \notin expired

CheckToken(c) ==
  /\ check[c].pc = "answered"
  /\ check' = [check EXCEPT ![c] = IF Approved(c) THEN [@ EXCEPT !.pc = "execute"] ELSE NoCheck]
  /\ UNCHANGED <<registered, agentVars, consoleVars, history, faults>>

\* The backend's public key cannot be fetched.
KeyFails(c) ==
  /\ check[c].pc = "execute"
  /\ Faulty
  /\ check' = [check EXCEPT ![c] = NoCheck]
  /\ UNCHANGED <<registered, agentVars, consoleVars, history>>

BeingRead ==
  {loader[l].id : l \in {k \in Loaders : loader[k].pc \in {"decrypt", "decrypt again", "migrate"}}}

\* Mutant of Execute: the credentials are cleared in memory only.
ExecuteInMemory(c) ==
  /\ check[c].pc = "execute"
  /\ credentials' = None
  /\ wiped' = wiped \cup ({stored, credentials} \ {None})
  /\ read' = read \cup (BeingRead \cap wiped')
  /\ check' = [check EXCEPT ![c] = NoCheck]
  /\ UNCHANGED <<registered, stored, plaintext, loader, consoleVars, updates, faults>>

\* executeClearCachedCredentials; the loads in flight are not told.
Execute(c) ==
  /\ check[c].pc = "execute"
  /\ stored' = None
  /\ plaintext' = FALSE
  /\ credentials' = None
  /\ wiped' = wiped \cup ({stored, credentials} \ {None})
  /\ read' = read \cup (BeingRead \cap wiped')
  /\ check' = [check EXCEPT ![c] = NoCheck]
  /\ UNCHANGED <<registered, loader, consoleVars, updates, faults>>

-----------------------------------------------------------------------------
LoadStep(l) == Load(l) \/ Decrypted(l) \/ Retry(l) \/ Register(l) \/ Persist(l)

Console ==
  \/ \E r \in Requests : CreateRequest(r) \/ TokenExpires(r)
  \/ \E a \in Admins : Decide(a) \/ \E r \in Requests, d \in Decisions : ReadRequest(a, r, d)

CheckStep(c) == CheckToken(c) \/ Execute(c) \/ \E r \in Requests : FetchRequest(c, r)

Next ==
  \/ \E l \in Loaders : LoadStep(l) \/ DecryptFails(l) \/ LoadFails(l) \/ MigrationFails(l)
  \/ Console
  \/ \E c \in Checks : CheckStep(c) \/ KeyFails(c)
  \/ Crash

Spec == Init /\ [][Next]_vars

\* backendPollLoop calls runBackendCycle for ever.
FairSpec == Spec /\ WF_vars(LoadStep("cycle"))

-----------------------------------------------------------------------------
\* The types of the state.
TypeOK ==
  /\ registered \in 0..MaxDevices
  /\ stored \in 0..registered /\ plaintext \in BOOLEAN /\ credentials \in 0..registered
  /\ loader \in [Loaders -> [pc : {"idle", "decrypt", "retry", "decrypt again", "migrate", "register", "persist"},
                             id : 0..MaxDevices]]
  /\ request \in [Requests -> [device : 0..MaxDevices, status : {"none", "pending"} \cup Decisions]]
  /\ decider \in [Admins -> [pc : {"idle", "decide"}, req : 0..MaxRequests, decision : Decisions]]
  /\ check \in [Checks -> [pc : {"idle", "answered", "execute"}, req : 0..MaxRequests,
                           status : {"none", "pending"} \cup Decisions]]
  /\ expired \subseteq Requests /\ approvals \subseteq Requests
  /\ wiped \subseteq 1..registered /\ read \subseteq wiped
  /\ updates \in 0..MaxUpdates /\ faults \in 0..MaxFaults

\* No identity is destroyed on anything less than an administrator's approval of
\* the request that was checked, whatever was decided or changed meanwhile.
WipedOnApproval ==
  [][\A c \in Checks : Execute(c) => check[c].req \in approvals]_vars

\* Every device row is accounted for: beyond the first, each is owed to a wipe,
\* a fault or a backend-URL update that raced the poll loop.
RowsExplained == registered <= 1 + Cardinality(wiped) + faults + updates

\* A destroyed identity stays destroyed, in memory and on disk, whatever loads,
\* migrations and restarts follow, unless a load had read it by then.
DestroyedForGood ==
  {stored, credentials} \cap wiped \subseteq read

\* After any wipe, crash or failure the device is enrolled again.
Reenrols == credentials = None ~> credentials # None

\* "a device already enrolled is never re-registered" (loadOrRegisterDevice):
\* the only reason for a further row is a wipe.
NeverReregistered == registered <= 1 + Cardinality(wiped)
==============================================================================
