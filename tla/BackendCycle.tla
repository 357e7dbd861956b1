----------------------------- MODULE BackendCycle -----------------------------
(***************************************************************************)
(* The agent's 60 s backend cycle (local-agent/server/telemetry-server.mjs *)
(* backendPollLoop and runBackendCycle): enrolment, entitlement, the       *)
(* hardware check, the daily snapshot and prediction, the hourly checks of *)
(* the operating system.                                                   *)
(*                                                                         *)
(* pc is the await the cycle stands at.  While it waits, another handler   *)
(* may wipe or renew the identity, the day may change, in the agent and in *)
(* the backend each by its own clock, a child process may hang for good, a *)
(* call may fail or go on running in the backend after the agent's 15 s    *)
(* abort, and the agent may die.                                           *)
(***************************************************************************)
EXTENDS Integers, FiniteSets

CONSTANTS
  MaxDevices, \* bound: device rows the backend hands out
  MaxDay,     \* bound: UTC days of a behaviour, by either clock
  HangSites,  \* the awaits whose child process may never return
  Checked,    \* the hourly checks of this instance
  MaxHangs,   \* bound: child processes that hang
  MaxFaults   \* bound: failed calls and agent deaths

None == 0
Devices == 1..MaxDevices
Days == 1..MaxDay
Clocks == {"agent", "backend"}
Posts == 0..MaxFaults   \* 0: the post the agent waits for; f: the one fault f cut off

PCs == {"sleep", "load", "calls", "command", "hardware", "sign", "hwpost", "snapshot",
        "snapping", "prediction", "predicting", "hourly", "checking"}

ASSUME BoundsAssumption ==
  MaxDevices \in Nat \ {0} /\ MaxDay \in Nat \ {0} /\ MaxHangs \in Nat /\ MaxFaults \in Nat
\* The hourly checks.  One of the first two kinds yields a result or nothing; the
\* last kind bundles reads that fail one by one inside a result.
UpdateChecks == {"windowsUpdate", "biosFirmware"}
StatusChecks == {"domainMdm", "windowsLicense"}
InventoryChecks == {"driverVersions", "fingerprintSensor"}
BundledChecks == {"tpmBitlocker", "diskEnrichment"}

ASSUME CheckAssumption ==
  Checked \subseteq UpdateChecks \cup StatusChecks \cup InventoryChecks \cup BundledChecks
ASSUME HangAssumption == HangSites \subseteq {"load", "calls", "command", "sign", "hwpost", "checking"}

VARIABLES
  pc,       \* the await the cycle stands at
  cycle,    \* the cycle's locals: whom it asked about, the entitlement, today
  hung,     \* the child process of this await will never call back
  hangs,    \* hangs so far
  creds,    \* deviceCredentials
  shown,    \* the state collect() reads: entitlement, prediction, hardware, checks
  memory,   \* the rest of the process: the intervals that are over, what it posted
  cache,    \* entitlementCache, in memory and on disk alike
  metrics,  \* metricSnapshotState, in memory and on disk alike
  file,     \* the device credentials on disk
  issued,   \* device rows the backend created
  posts,    \* posts[p]: a metric snapshot being recorded by the backend
  rows,     \* rows[d][t]: rows of device_metric_snapshots
  day,      \* the UTC day by the agent's clock and by the backend's
  enrolled, \* enrolled[d]: the agent's day when d was registered (history)
  faults    \* faults so far

hang == <<hung, hangs>>
agent == <<pc, cycle, hang>>
store == <<cache, metrics>>
server == <<issued, posts, rows, enrolled>>
vars == <<agent, creds, shown, memory, store, file, server, day, faults>>

-----------------------------------------------------------------------------
NoEntitlement == [of |-> None, under |-> None, stale |-> FALSE]
\* by, row, claimed and from are history: whose snapshot gave the day its mark, the
\* backend's day its row is filed under, and these as they were for a prediction.
NoPrediction == [of |-> None, seen |-> 0, claimed |-> None, on |-> 0, from |-> 0]
NoMetrics == [snapshot |-> 0, by |-> None, row |-> 0, predicted |-> 0, prediction |-> NoPrediction]
NoCache == [id |-> None, of |-> None]
NoCycle == [asked |-> None, entitlement |-> None, today |-> 1]
NoPost == [dev |-> None, day |-> 1, stage |-> "none"]

Blank == [entitlement |-> NoEntitlement, prediction |-> NoPrediction, hardware |-> None, checks |-> {}]

\* What a new process knows; the prediction comes from the file if it is of today.
Started(m, t) ==
  [Blank EXCEPT !.prediction = IF m.predicted = t THEN m.prediction ELSE NoPrediction]
Fresh == [hardwareDue |-> TRUE, hourlyDue |-> TRUE, posted |-> FALSE]

Init ==
  /\ pc = "sleep"
  /\ cycle = NoCycle
  /\ hung = FALSE
  /\ hangs = 0
  /\ creds = None
  /\ shown = Blank
  /\ memory = Fresh
  /\ cache = NoCache
  /\ metrics = NoMetrics
  /\ file = None
  /\ issued = 0
  /\ posts = [p \in Posts |-> NoPost]
  /\ rows = [d \in Devices |-> [t \in Days |-> 0]]
  /\ day = [c \in Clocks |-> 1]
  /\ enrolled = [d \in Devices |-> 0]
  /\ faults = 0

Fault == faults < MaxFaults /\ faults' = faults + 1

-----------------------------------------------------------------------------
(* Enrolment.  A credentials file is always preferred to a new row. *)

\* loadOrRegisterDevice, when the file reads well (HighImpact has the rest).
LoadOrRegister ==
  \/ /\ file # None
     /\ creds' = file
     /\ UNCHANGED <<file, issued, enrolled>>
  \/ /\ file = None
     /\ issued < MaxDevices
     /\ issued' = issued + 1
     /\ creds' = issued'
     /\ file' = issued'
     /\ enrolled' = [enrolled EXCEPT ![issued'] = day.agent]

\* executeClearCachedCredentials, run by the handler of an approved request.
Wipe ==
  /\ creds # None /\ issued < MaxDevices
  /\ creds' = None
  /\ file' = None
  /\ UNCHANGED <<agent, shown, memory, store, server, day, faults>>

\* handleBackendUrlUpdate enrols too, whatever the cycle is waiting for.
BackendUrlUpdate ==
  /\ creds = None
  /\ LoadOrRegister
  /\ UNCHANGED <<agent, shown, memory, store, posts, rows, day, faults>>

-----------------------------------------------------------------------------
(* The cycle, up to the entitlement. *)

StartCycle ==
  /\ pc = "sleep"
  /\ pc' = IF creds = None THEN "load" ELSE "calls"
  /\ cycle' = [NoCycle EXCEPT !.asked = creds]
  /\ UNCHANGED <<hang, creds, shown, memory, store, file, server, day, faults>>

Load ==
  /\ pc = "load" /\ ~hung
  /\ \/ /\ LoadOrRegister
        /\ pc' = "calls"
        /\ cycle' = [cycle EXCEPT !.asked = creds']
        /\ UNCHANGED <<shown, faults>>
     \/ /\ file = None /\ Fault
        /\ creds' = None
        /\ pc' = "sleep"
        /\ cycle' = NoCycle
        /\ shown' = [shown EXCEPT !.entitlement = NoEntitlement]
        /\ UNCHANGED <<file, issued, enrolled>>
  /\ UNCHANGED <<hang, memory, store, posts, rows, day>>

\* Mutant of CacheFor: the cache is used without a look at the device id in it.
CacheForAny(d) == cache.id # None

CacheFor(d) == cache.id = d

\* resolveEntitlementState: it reads deviceCredentials after the await.
Resolve(e) ==
  IF e # None
  THEN /\ cache' = [id |-> creds, of |-> e]
       /\ shown' = [shown EXCEPT !.entitlement = [of |-> e, under |-> creds, stale |-> FALSE]]
  ELSE /\ shown' = [shown EXCEPT !.entitlement =
            IF CacheFor(creds)
            THEN [of |-> cache.of, under |-> creds, stale |-> TRUE]
            ELSE NoEntitlement]
       /\ UNCHANGED cache

\* fetchEntitlement: what the backend says of the device asked about, or null.
Entitlements == {cycle.asked, None}

\* sendHeartbeat: the reply may bring a command.
AfterHeartbeat == {"command", "hardware"}

\* Promise.all of the entitlement, the heartbeat, the health and the tasks.  With
\* the credentials wiped meanwhile it throws, and backendPollLoop catches.
Calls ==
  /\ pc = "calls" /\ ~hung
  /\ \E e \in Entitlements :
       /\ IF e = None THEN Fault ELSE UNCHANGED faults
       /\ \/ /\ creds = None
             /\ pc' = "sleep"
             /\ cycle' = NoCycle
             /\ UNCHANGED <<shown, cache>>
          \/ /\ creds # None
             /\ Resolve(e)
             /\ pc' \in AfterHeartbeat
             /\ cycle' = [cycle EXCEPT !.entitlement = e]
  /\ UNCHANGED <<hang, creds, memory, metrics, file, server, day>>

\* The remote command and the self-update have their modules.
Command ==
  /\ pc = "command" /\ ~hung
  /\ pc' = "hardware"
  /\ UNCHANGED <<cycle, hang, creds, shown, memory, store, file, server, day, faults>>

-----------------------------------------------------------------------------
(* The hardware check. *)

\* computeHardwareFingerprint: there is none while the telemetry lacks a part it is made of.
Fingerprinted == BOOLEAN

HardwareDue ==
  /\ pc = "hardware"
  /\ \E known \in Fingerprinted :
       IF cycle.entitlement # None /\ memory.hardwareDue /\ known
       THEN pc' = "sign" /\ memory' = [memory EXCEPT !.hardwareDue = FALSE]
       ELSE pc' = "snapshot" /\ UNCHANGED memory
  /\ UNCHANGED <<cycle, hang, creds, shown, store, file, server, day, faults>>

SignFingerprint ==
  /\ pc = "sign" /\ ~hung
  /\ pc' = "hwpost"
  /\ cycle' = [cycle EXCEPT !.asked = creds]
  /\ UNCHANGED <<hang, creds, shown, memory, store, file, server, day, faults>>

\* postHardwareCheck: the backend's verdict on the device asked about, or null.
HardwareResults == {cycle.asked, None}

\* Mutant of PostHardwareCheck: a failed check is assigned like a result.
PostHardwareCheckAlways ==
  /\ pc = "hwpost" /\ ~hung
  /\ \E h \in HardwareResults : shown' = [shown EXCEPT !.hardware = h]
  /\ pc' = "snapshot"
  /\ UNCHANGED <<cycle, hang, creds, memory, store, file, server, day, faults>>

PostHardwareCheck ==
  /\ pc = "hwpost" /\ ~hung
  /\ \E h \in HardwareResults : shown' = [shown EXCEPT !.hardware = IF h = None THEN @ ELSE h]
  /\ pc' = "snapshot"
  /\ UNCHANGED <<cycle, hang, creds, memory, store, file, server, day, faults>>

-----------------------------------------------------------------------------
(* The daily snapshot: today is read before the post is awaited. *)

\* Mutant of Today: the local date of a machine east of Greenwich.
TodayLocal == day.agent + 1

\* todayUtcDateString.
Today == day.agent

SnapshotDue ==
  cycle.entitlement # None /\ (metrics.snapshot # Today \/ ~memory.posted)

SnapshotGate ==
  /\ pc = "snapshot"
  /\ cycle' = [cycle EXCEPT !.today = Today, !.asked = creds]
  /\ \/ /\ SnapshotDue /\ creds # None
        /\ pc' = "snapping"
        /\ posts' = [posts EXCEPT ![0] = [NoPost EXCEPT !.dev = creds, !.stage = "select"]]
        /\ UNCHANGED faults
     \/ /\ ~SnapshotDue \/ creds = None
        /\ pc' = "prediction"
        /\ UNCHANGED <<posts, faults>>
     \/ /\ SnapshotDue /\ Fault       \* no reading in the telemetry of this cycle
        /\ pc' = "prediction"
        /\ UNCHANGED posts
  /\ UNCHANGED <<hang, creds, shown, memory, store, file, issued, rows, enrolled, day>>

\* Mutant of SelectRow: the row is inserted without a look for today's.
InsertOutright(p) ==
  /\ posts[p].stage = "select"
  /\ posts' = [posts EXCEPT ![p].day = day.backend, ![p].stage = "insert"]
  /\ UNCHANGED <<agent, creds, shown, memory, store, file, issued, rows, enrolled, day, faults>>

\* recordMetricSnapshot: SELECT, then UPDATE or INSERT, under the backend's own day.
SelectRow(p) ==
  /\ posts[p].stage = "select"
  /\ posts' = [posts EXCEPT ![p].day = day.backend,
       ![p].stage = IF rows[posts[p].dev][day.backend] = 0 THEN "insert" ELSE "done"]
  /\ UNCHANGED <<agent, creds, shown, memory, store, file, issued, rows, enrolled, day, faults>>

InsertRow(p) ==
  LET r == posts[p] IN
  /\ r.stage = "insert"
  /\ rows' = [rows EXCEPT ![r.dev][r.day] = @ + 1]
  /\ posts' = [posts EXCEPT ![p].stage = "done"]
  /\ UNCHANGED <<agent, creds, shown, memory, store, file, issued, enrolled, day, faults>>

\* A request cut off by the abort or by the agent's death goes on in the backend.
CutOff == [posts EXCEPT ![faults + 1] = posts[0], ![0] = NoPost]

SnapshotDone ==
  /\ pc = "snapping"
  /\ pc' = "prediction"
  /\ \/ /\ posts[0].stage = "done"
        /\ posts' = [posts EXCEPT ![0] = NoPost]
        /\ memory' = [memory EXCEPT !.posted = TRUE]
        /\ metrics' = [metrics EXCEPT !.snapshot = cycle.today, !.by = cycle.asked,
                                      !.row = posts[0].day]
        /\ shown' = [shown EXCEPT !.prediction =
             IF metrics.snapshot = cycle.today THEN NoPrediction ELSE @]
        /\ UNCHANGED faults
     \/ /\ Fault
        /\ posts' = CutOff
        /\ UNCHANGED <<memory, metrics, shown>>
  /\ UNCHANGED <<cycle, hang, creds, cache, file, issued, rows, enrolled, day>>

-----------------------------------------------------------------------------
(* The daily prediction, from the rows ai-service finds. *)

LastRow(d) == LET ts == {t \in Days : rows[d][t] > 0}
              IN CHOOSE t \in Days \cup {0} : /\ t \in ts \cup {0}
                                              /\ \A o \in ts : o <= t

\* Mutant of PredictionDue: the prediction has its own day flag only.
PredictionDueByFlag == cycle.entitlement # None /\ metrics.predicted # cycle.today

\* Mutant of PredictionDue: it does not wait for the day's snapshot.
PredictionDueAnyway ==
  cycle.entitlement # None /\ (metrics.predicted # cycle.today \/ shown.prediction = NoPrediction)

PredictionDue ==
  /\ cycle.entitlement # None
  /\ metrics.snapshot = cycle.today
  /\ metrics.predicted # cycle.today \/ shown.prediction = NoPrediction

PredictionGate ==
  /\ pc = "prediction"
  /\ pc' = IF PredictionDue /\ creds # None THEN "predicting" ELSE "hourly"
  /\ cycle' = [cycle EXCEPT !.asked = creds]
  /\ UNCHANGED <<hang, creds, shown, memory, store, file, server, day, faults>>

FetchPrediction ==
  /\ pc = "predicting"
  /\ pc' = "hourly"
  /\ \/ LET p == [of |-> cycle.asked, seen |-> LastRow(cycle.asked), claimed |-> metrics.by,
                   on |-> metrics.snapshot, from |-> metrics.row] IN
        /\ shown' = [shown EXCEPT !.prediction = p]
        /\ metrics' = [metrics EXCEPT !.predicted = cycle.today, !.prediction = p]
        /\ UNCHANGED faults
     \/ /\ Fault
        /\ UNCHANGED <<shown, metrics>>
  /\ UNCHANGED <<cycle, hang, creds, memory, cache, file, server, day>>

-----------------------------------------------------------------------------
(* The hourly checks: each sets its state only when it has a result, but a  *)
(* result of a bundle may have lost a part.                                 *)

HourlyGate ==
  /\ pc = "hourly"
  /\ \/ /\ memory.hourlyDue
        /\ pc' = "checking"
        /\ memory' = [memory EXCEPT !.hourlyDue = FALSE]
        /\ UNCHANGED cycle
     \/ /\ ~memory.hourlyDue
        /\ pc' = "sleep"
        /\ cycle' = NoCycle
        /\ UNCHANGED memory
  /\ UNCHANGED <<hang, creds, shown, store, file, server, day, faults>>

RunChecks ==
  /\ pc = "checking" /\ ~hung
  /\ \E results \in SUBSET Checked : \E lost \in SUBSET (results \cap BundledChecks) :
       shown' = [shown EXCEPT !.checks = (@ \cup results) \ lost]
  /\ pc' = "sleep"
  /\ cycle' = NoCycle
  /\ UNCHANGED <<hang, creds, memory, store, file, server, day, faults>>

-----------------------------------------------------------------------------
(* Hangs and the net under them. *)

Hang ==
  /\ pc \in HangSites /\ ~hung
  /\ hangs < MaxHangs
  /\ hangs' = hangs + 1
  /\ hung' = TRUE
  /\ UNCHANGED <<pc, cycle, creds, shown, memory, store, file, server, day, faults>>

\* Mutant of Netted: the net as it was first written, under the hourly checks only.
NettedChecks == {"checking"}

\* The awaits that withTimeout races against a timer.
Netted == {"calls", "sign", "hwpost", "checking"}

WithTimeout ==
  /\ hung /\ pc \in Netted
  /\ hung' = FALSE
  /\ UNCHANGED <<hangs, pc, cycle, creds, shown, memory, store, file, server, day, faults>>

\* The agent dies and the watchdog's task starts it again.
Restart ==
  /\ Fault
  /\ pc' = "sleep"
  /\ cycle' = NoCycle
  /\ hung' = FALSE
  /\ creds' = None
  /\ shown' = Started(metrics, day.agent)
  /\ memory' = Fresh
  /\ posts' = IF posts[0].stage = "none" THEN posts ELSE CutOff
  /\ UNCHANGED <<hangs, store, file, issued, rows, enrolled, day>>

-----------------------------------------------------------------------------
(* Time: five minutes, an hour or a day have gone by. *)

IntervalOver ==
  /\ pc = "sleep"
  /\ memory' \in {[memory EXCEPT !.hardwareDue = TRUE], [memory EXCEPT !.hourlyDue = TRUE]}
  /\ memory' # memory
  /\ UNCHANGED <<agent, creds, shown, store, file, server, day, faults>>

\* Midnight comes to one clock a little before the other.
NextDay ==
  /\ \E c \in Clocks : /\ day[c] < MaxDay
                        /\ \A o \in Clocks : day[c] <= day[o]
                        /\ day' = [day EXCEPT ![c] = @ + 1]
  /\ UNCHANGED <<agent, creds, shown, memory, store, file, server, faults>>

Cycle ==
  \/ StartCycle \/ Load \/ Calls \/ Command \/ HardwareDue \/ SignFingerprint
  \/ PostHardwareCheck \/ SnapshotGate \/ SnapshotDone \/ PredictionGate
  \/ FetchPrediction \/ HourlyGate \/ RunChecks \/ WithTimeout

Backend == \E p \in Posts : SelectRow(p) \/ InsertRow(p)

Next ==
  \/ Cycle \/ Backend \/ Hang \/ Restart \/ Wipe \/ BackendUrlUpdate
  \/ IntervalOver \/ NextDay

Spec == Init /\ [][Next]_vars

\* The event loop runs, timers fire and the backend serves what it accepted.
FairSpec == Spec /\ WF_vars(Cycle) /\ WF_vars(Backend)

-----------------------------------------------------------------------------
(* Properties. *)

DeviceOrNone == 0..MaxDevices

Predictions == [of : DeviceOrNone, seen : 0..MaxDay, claimed : DeviceOrNone,
                on : 0..MaxDay, from : 0..MaxDay]

\* Every part of the state keeps its type (telemetry-server.mjs 184-400).
TypeOK ==
  /\ pc \in PCs
  /\ cycle \in [asked : DeviceOrNone, entitlement : DeviceOrNone, today : Days]
  /\ hung \in BOOLEAN /\ hangs \in 0..MaxHangs
  /\ creds \in DeviceOrNone /\ file \in DeviceOrNone /\ issued \in DeviceOrNone
  /\ shown \in [entitlement : [of : DeviceOrNone, under : DeviceOrNone, stale : BOOLEAN],
                prediction : Predictions, hardware : DeviceOrNone, checks : SUBSET Checked]
  /\ memory \in [hardwareDue : BOOLEAN, hourlyDue : BOOLEAN, posted : BOOLEAN]
  /\ cache \in [id : DeviceOrNone, of : DeviceOrNone]
  /\ metrics \in [snapshot : 0..MaxDay, by : DeviceOrNone, row : 0..MaxDay,
                  predicted : 0..MaxDay, prediction : Predictions]
  /\ posts \in [Posts -> [dev : DeviceOrNone, day : Days,
                          stage : {"none", "select", "insert", "done"}]]
  /\ rows \in [Devices -> [Days -> 0..(MaxFaults + 1)]]
  /\ day \in [Clocks -> Days]
  /\ enrolled \in [Devices -> 0..MaxDay]
  /\ faults \in 0..MaxFaults

\* The entitlement shown was given for the device it is shown under, with one
\* exception: a reply that crossed a wipe and a new enrolment is taken for the new
\* device's, and cached as its own (resolveEntitlementState, 3050-3065).  Such a
\* reply speaks of an earlier identity, and the file says what is shown.
ForeignOnlyByCrossing ==
  LET e == shown.entitlement IN
  e.of # e.under => /\ cache = [id |-> e.under, of |-> e.of]
                    /\ e.of < e.under

\* A prediction filed under a day was asked for after a snapshot had been recorded
\* on that day, and if it is about the device of that snapshot, it was computed with
\* the snapshot's row, on whichever day the backend's clock filed it (3895-3957).
\* After a change of identity the prediction filed can be without a row of the day:
\* the mark of the day is of the earlier identity's snapshot.
PredictionSeesItsSnapshot ==
  metrics.predicted # 0 =>
    LET p == metrics.prediction IN
    /\ p.on = metrics.predicted /\ p.claimed # None /\ p.from # 0
    /\ p.claimed = p.of => p.seen >= p.from

\* The posts about a device the agent gave up on that left a row under a day, or
\* found one there.
GivenUpOn(d, t) ==
  {p \in Posts \ {0} : posts[p].dev = d /\ posts[p].day = t /\ posts[p].stage = "done"}

\* A device has one row for a day, and one more at most for each post the agent gave
\* up on that the backend finished all the same: recordMetricSnapshot looks for the
\* row and inserts it in two statements (metrics.go 27-50).
RowsArePaidFor ==
  \A d \in Devices, t \in Days : rows[d][t] <= 1 + Cardinality(GivenUpOn(d, t))

\* Whatever wipes, enrolments, midnights, aborts and restarts come between: an
\* entitlement of another identity is shown only after a reply crossed the change, a
\* prediction has the row of the snapshot that called for it, and a day has a second
\* row only for a post given up on.
RecordsAreTraceable == ForeignOnlyByCrossing /\ PredictionSeesItsSnapshot /\ RowsArePaidFor

\* A failed hardware check or hourly check leaves the last result alone, and a check
\* that fails leaves the results of the others alone; only a new process starts
\* without one (239-350).  The bundled checks are not as careful.
ResultsAreKept ==
  [][memory' # Fresh => /\ shown.hardware # None => shown'.hardware # None
                        /\ shown.checks \ BundledChecks \subseteq shown'.checks]_vars

\* A child process hangs at one of the two awaits withTimeout is not put around: the
\* DPAPI call of loadOrRegisterDevice and the scripts of runPendingCommandIfAny.
Stuck == hung /\ pc \in {"load", "command"}

\* Whatever else hangs, fails or throws, another cycle comes (withTimeout 3760, 4015).
CycleAlive == []<>(pc = "sleep" \/ Stuck)

\* When the faults and the wipes are over, the entitlement shown is the enrolled
\* device's own, whatever a reply that crossed a wipe had left in the cache (3050).
EntitlementIsOwn == <>[](~Stuck => creds # None /\ shown.entitlement.of = creds)

\* In the end a prediction is on display, and a device that saw a day begin sees its
\* own (3930-3957, the case of a same-day restart in particular).
PredictionIsOwn ==
  <>[](~Stuck => /\ shown.prediction # NoPrediction
                 /\ creds # None /\ enrolled[creds] < day.agent => shown.prediction.of = creds)

\* Unless a child process hangs where no timer waits for it, the cycle always comes
\* round again and ends up with the device's own entitlement and prediction on
\* display; and it keeps the results it had when a check fails.
CycleDelivers == CycleAlive /\ ResultsAreKept /\ EntitlementIsOwn /\ PredictionIsOwn

-----------------------------------------------------------------------------
(* Claims of the code's comments that the code does not keep.               *)

\* metrics.go 19-23: "whatever calls this, however many times in one day ... a single
\* real day only ever produces one row".
OneRowPerDay == \A d \in Devices, t \in Days : rows[d][t] <= 1

\* 3746-3748: "this same net now covers every child-process-adjacent call in the cycle".
NetCoversTheCycle == []<>(pc = "sleep")

\* 3777-3779: a failure "leaves entitlementState null rather than reusing a stale value".
NothingStale == ~shown.entitlement.stale
=============================================================================
