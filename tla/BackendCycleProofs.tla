--------------------------- MODULE BackendCycleProofs ---------------------------
(***************************************************************************)
(* What holds of BackendCycle for any number of devices, days and faults,  *)
(* whatever checks there are and wherever a child process may hang.        *)
(***************************************************************************)
EXTENDS BackendCycle, FiniteSetTheorems, WellFoundedInduction, TLAPS

(***************************************************************************)
(* The inductive invariant.  An identity is only ever replaced by a later  *)
(* one: what the cycle asked about, what the cache speaks of and what the  *)
(* file holds are all at most the last row issued.                         *)
(***************************************************************************)
IdentitiesGrow ==
  /\ creds \in {None, file}
  /\ file \in {None, issued}
  /\ cycle.asked <= issued
  /\ cache.of <= cache.id
  /\ ForeignOnlyByCrossing

\* A post is about a registered device and leaves its row behind; the posts cut
\* off are numbered by the faults that cut them off.
PostsHold ==
  /\ \A p \in Posts : posts[p].stage # "none" => posts[p].dev \in Devices
  /\ \A p \in Posts : posts[p].stage = "done" => rows[posts[p].dev][posts[p].day] > 0
  /\ \A p \in Posts : p > faults => p = 0 \/ posts[p].dev = None
  /\ pc = "snapping" => posts[0].stage # "none" /\ posts[0].dev = cycle.asked

\* The day's flag is set for a row that is there, and the prediction follows the flag.
SnapshotsHold ==
  /\ metrics.snapshot # 0 =>
       /\ metrics.by \in Devices /\ metrics.row \in Days
       /\ rows[metrics.by][metrics.row] > 0
  /\ pc = "predicting" => cycle.asked \in Devices /\ metrics.snapshot = cycle.today
  /\ PredictionSeesItsSnapshot

\* Every row but one was inserted by a post cut off, and while the agent's own post
\* is about to insert every row was.
RowsHold ==
  \A d \in Devices, t \in Days :
    /\ rows[d][t] <= 1 + Cardinality(GivenUpOn(d, t))
    /\ posts[0].dev = d /\ posts[0].day = t /\ posts[0].stage = "insert"
         => rows[d][t] <= Cardinality(GivenUpOn(d, t))

Holds == TypeOK /\ IdentitiesGrow /\ PostsHold /\ SnapshotsHold /\ RowsHold

-----------------------------------------------------------------------------
(* The types of the parts. *)

CycleType == [asked : DeviceOrNone, entitlement : DeviceOrNone, today : Days]
EntitlementType == [of : DeviceOrNone, under : DeviceOrNone, stale : BOOLEAN]
ShownType == [entitlement : EntitlementType, prediction : Predictions,
              hardware : DeviceOrNone, checks : SUBSET Checked]
MemoryType == [hardwareDue : BOOLEAN, hourlyDue : BOOLEAN, posted : BOOLEAN]
CacheType == [id : DeviceOrNone, of : DeviceOrNone]
MetricsType == [snapshot : 0..MaxDay, by : DeviceOrNone, row : 0..MaxDay,
                predicted : 0..MaxDay, prediction : Predictions]
PostType == [dev : DeviceOrNone, day : Days, stage : {"none", "select", "insert", "done"}]
RowsType == [Devices -> [Days -> 0..(MaxFaults + 1)]]

LEMMA Ranges ==
  /\ None = 0 /\ None \in DeviceOrNone /\ None \notin Devices /\ Devices \subseteq DeviceOrNone
  /\ \A d \in DeviceOrNone : d # None => d \in Devices
  /\ 1 \in Days /\ 0 \in 0..MaxDay /\ Days \subseteq 0..MaxDay /\ 0 \notin Days
  /\ \A t \in 0..MaxDay : t # 0 => t \in Days
  /\ 0 \in Posts /\ 0 \in 0..MaxFaults /\ Posts \subseteq Nat /\ Days \subseteq Nat
  /\ DeviceOrNone \subseteq Nat /\ 0 \in 0..MaxHangs
  BY BoundsAssumption DEF None, DeviceOrNone, Devices, Days, Posts

LEMMA BlankValues ==
  /\ NoEntitlement \in EntitlementType /\ NoPrediction \in Predictions
  /\ NoMetrics \in MetricsType /\ NoCache \in CacheType /\ NoCycle \in CycleType
  /\ NoPost \in PostType /\ Fresh \in MemoryType
<1>1. NoEntitlement \in EntitlementType
  BY Ranges DEF NoEntitlement, EntitlementType
<1>2. NoPrediction \in Predictions
  BY Ranges DEF NoPrediction, Predictions
<1>3. NoMetrics \in MetricsType
  BY Ranges, <1>2 DEF NoMetrics, MetricsType
<1>4. NoCache \in CacheType /\ NoCycle \in CycleType
  BY Ranges DEF NoCache, CacheType, NoCycle, CycleType
<1>5. NoPost \in PostType /\ Fresh \in MemoryType
  BY Ranges DEF NoPost, PostType, Fresh, MemoryType
<1> QED
  BY <1>1, <1>2, <1>3, <1>4, <1>5

LEMMA BlankState == Blank \in ShownType
  BY BlankValues, Ranges DEF Blank, ShownType

LEMMA StartedState ==
  ASSUME NEW m \in MetricsType, NEW t
  PROVE  Started(m, t) \in ShownType /\ Started(m, t).entitlement = NoEntitlement
<1>1. (IF m.predicted = t THEN m.prediction ELSE NoPrediction) \in Predictions
  BY BlankValues DEF MetricsType
<1> QED
  BY <1>1, BlankState DEF Started, Blank, ShownType

LEMMA TypesRead ==
  ASSUME TypeOK
  PROVE  /\ pc \in PCs /\ cycle \in CycleType /\ hung \in BOOLEAN
         /\ creds \in DeviceOrNone /\ file \in DeviceOrNone /\ issued \in DeviceOrNone
         /\ shown \in ShownType /\ memory \in MemoryType /\ cache \in CacheType
         /\ metrics \in MetricsType /\ posts \in [Posts -> PostType] /\ rows \in RowsType
         /\ hangs \in 0..MaxHangs /\ day \in [Clocks -> Days]
         /\ day.agent \in Days /\ day.backend \in Days /\ enrolled \in [Devices -> 0..MaxDay] /\ faults \in 0..MaxFaults
  BY DEF TypeOK, CycleType, ShownType, EntitlementType, MemoryType, CacheType, MetricsType,
         PostType, RowsType, Clocks

LEMMA TypesWritten ==
  ASSUME pc' \in PCs /\ cycle' \in CycleType /\ hung' \in BOOLEAN,
         creds' \in DeviceOrNone /\ file' \in DeviceOrNone /\ issued' \in DeviceOrNone,
         shown' \in ShownType /\ memory' \in MemoryType /\ cache' \in CacheType,
         metrics' \in MetricsType /\ posts' \in [Posts -> PostType] /\ rows' \in RowsType,
         hangs' \in 0..MaxHangs /\ day' \in [Clocks -> Days] /\ enrolled' \in [Devices -> 0..MaxDay] /\ faults' \in 0..MaxFaults
  PROVE  TypeOK'
  BY DEF TypeOK, CycleType, ShownType, EntitlementType, MemoryType, CacheType, MetricsType,
         PostType, RowsType

LEMMA FaultCounted ==
  ASSUME faults \in 0..MaxFaults, Fault
  PROVE  faults' \in 0..MaxFaults /\ faults' = faults + 1 /\ faults' \in Posts \ {0}
  BY BoundsAssumption DEF Fault, Posts

LEMMA PostsAreFew ==
  ASSUME NEW S, S \subseteq Posts \ {0}
  PROVE  IsFiniteSet(S) /\ Cardinality(S) \in 0..MaxFaults
<1>1. IsFiniteSet(1..MaxFaults) /\ Cardinality(1..MaxFaults) = MaxFaults
  BY FS_Interval, BoundsAssumption
<1>2. S \subseteq 1..MaxFaults
  BY BoundsAssumption DEF Posts
<1>3. IsFiniteSet(S) /\ Cardinality(S) <= Cardinality(1..MaxFaults)
  BY <1>1, <1>2, FS_Subset
<1>4. Cardinality(S) \in Nat
  BY <1>3, FS_CardinalityType
<1> QED
  BY <1>1, <1>3, <1>4, BoundsAssumption

-----------------------------------------------------------------------------
(* Initially. *)

LEMMA HoldsInitially == Init => Holds
<1> SUFFICES ASSUME Init PROVE Holds
  OBVIOUS
<1>1. TypeOK
  <2>1. posts \in [Posts -> PostType] /\ rows \in RowsType /\ enrolled \in [Devices -> 0..MaxDay]
    BY BlankValues, Ranges, BoundsAssumption DEF Init, RowsType
  <2>2. "sleep" \in PCs
    BY DEF PCs
  <2> QED
    BY <2>1, <2>2, BlankValues, BlankState, Ranges
       DEF Init, TypeOK, CycleType, ShownType, EntitlementType, MemoryType, CacheType,
           MetricsType, PostType, RowsType
<1>2. IdentitiesGrow
  <2>1. shown.entitlement = NoEntitlement
    BY DEF Init, Blank
  <2> QED
    BY <2>1, Ranges
       DEF Init, IdentitiesGrow, ForeignOnlyByCrossing, NoEntitlement, NoCycle, NoCache
<1>3. PostsHold
  <2>1. \A p \in Posts : posts[p].stage = "none" /\ posts[p].dev = None
    BY DEF Init, NoPost
  <2> QED
    BY <2>1 DEF Init, PostsHold
<1>4. SnapshotsHold
  BY DEF Init, SnapshotsHold, PredictionSeesItsSnapshot, NoMetrics, NoPrediction
<1>5. RowsHold
  <2>1. posts[0].stage = "none"
    BY Ranges DEF Init, NoPost
  <2> SUFFICES ASSUME NEW d \in Devices, NEW t \in Days
               PROVE  rows[d][t] <= 1 + Cardinality(GivenUpOn(d, t))
    BY <2>1 DEF RowsHold
  <2>2. rows[d][t] = 0
    BY DEF Init
  <2>3. Cardinality(GivenUpOn(d, t)) \in 0..MaxFaults
    BY PostsAreFew DEF GivenUpOn
  <2> QED
    BY <2>2, <2>3, BoundsAssumption
<1> QED
  BY <1>1, <1>2, <1>3, <1>4, <1>5 DEF Holds

-----------------------------------------------------------------------------
(* Types. *)

LEMMA TypesEnrolment ==
  ASSUME TypeOK, LoadOrRegister
  PROVE  /\ creds' \in DeviceOrNone /\ file' \in DeviceOrNone /\ issued' \in DeviceOrNone
         /\ enrolled' \in [Devices -> 0..MaxDay]
<1>1. CASE file # None
  BY <1>1, TypesRead DEF LoadOrRegister
<1>2. CASE file = None
  <2>1. issued' \in Devices
    BY <1>2, TypesRead, BoundsAssumption DEF LoadOrRegister, Devices, DeviceOrNone
  <2>2. enrolled' \in [Devices -> 0..MaxDay]
    BY <1>2, <2>1, TypesRead, Ranges DEF LoadOrRegister
  <2> QED
    BY <1>2, <2>1, <2>2, Ranges DEF LoadOrRegister
<1> QED
  BY <1>1, <1>2

LEMMA TypesIdentity ==
  ASSUME TypeOK, Wipe \/ BackendUrlUpdate
  PROVE  TypeOK'
<1>1. CASE Wipe
  BY <1>1, TypesRead, TypesWritten, Ranges DEF hang, Wipe, agent, store, server
<1>2. CASE BackendUrlUpdate
  BY <1>2, TypesRead, TypesWritten, TypesEnrolment DEF hang, BackendUrlUpdate, agent, store
<1> QED
  BY <1>1, <1>2

LEMMA TypesLoad ==
  ASSUME TypeOK, StartCycle \/ Load
  PROVE  TypeOK'
<1>t. cycle \in CycleType /\ NoCycle \in CycleType
  BY TypesRead, BlankValues
<1>p. {"load", "calls", "sleep"} \subseteq PCs
  BY DEF PCs
<1>1. CASE StartCycle
  <2>1. cycle' \in CycleType
    BY <1>1, <1>t, TypesRead DEF StartCycle, CycleType
  <2>2. pc' \in PCs
    BY <1>1, <1>p DEF StartCycle
  <2> QED
    BY <1>1, <2>1, <2>2, TypesRead, TypesWritten DEF hang, StartCycle, store, server
<1>2. CASE Load /\ LoadOrRegister
  <2>1. CASE pc' = "calls" /\ cycle' = [cycle EXCEPT !.asked = creds'] /\ UNCHANGED <<shown, faults>>
    <3>1. cycle' \in CycleType
      BY <2>1, <1>2, <1>t, TypesEnrolment DEF CycleType
    <3> QED
      BY <1>2, <1>p, <2>1, <3>1, TypesRead, TypesWritten, TypesEnrolment DEF hang, Load, store
  <2>2. CASE ~(pc' = "calls" /\ cycle' = [cycle EXCEPT !.asked = creds'] /\ UNCHANGED <<shown, faults>>)
    <3>1. /\ Fault /\ creds' = None /\ pc' = "sleep" /\ cycle' = NoCycle
          /\ shown' = [shown EXCEPT !.entitlement = NoEntitlement]
          /\ UNCHANGED <<file, issued, enrolled>>
      BY <1>2, <2>2 DEF Load
    <3>2. shown' \in ShownType
      BY <3>1, TypesRead, BlankValues DEF ShownType
    <3>3. faults' \in 0..MaxFaults
      BY <3>1, TypesRead, FaultCounted
    <3> QED
      BY <1>2, <1>p, <1>t, <3>1, <3>2, <3>3, TypesRead, TypesWritten, Ranges DEF hang, Load, store
  <2> QED
    BY <2>1, <2>2
<1>3. CASE Load /\ ~LoadOrRegister
  <2>1. /\ Fault /\ creds' = None /\ pc' = "sleep" /\ cycle' = NoCycle
        /\ shown' = [shown EXCEPT !.entitlement = NoEntitlement]
        /\ UNCHANGED <<file, issued, enrolled>>
    BY <1>3 DEF Load
  <2>2. shown' \in ShownType
    BY <2>1, TypesRead, BlankValues DEF ShownType
  <2>3. faults' \in 0..MaxFaults
    BY <2>1, TypesRead, FaultCounted
  <2> QED
    BY <1>3, <1>p, <1>t, <2>1, <2>2, <2>3, TypesRead, TypesWritten, Ranges DEF hang, Load, store
<1> QED
  BY <1>1, <1>2, <1>3

LEMMA TypesResolve ==
  ASSUME TypeOK, NEW e \in DeviceOrNone, Resolve(e)
  PROVE  shown' \in ShownType /\ cache' \in CacheType
<1>t. shown \in ShownType /\ cache \in CacheType /\ creds \in DeviceOrNone
  BY TypesRead, Ranges
<1>1. CASE e # None
  <2>1. cache' \in CacheType
    BY <1>1, <1>t DEF Resolve, CacheType
  <2>2. [of |-> e, under |-> creds, stale |-> FALSE] \in EntitlementType
    BY <1>t DEF EntitlementType
  <2>3. shown' \in ShownType
    BY <1>1, <1>t, <2>2 DEF Resolve, ShownType
  <2> QED
    BY <2>1, <2>3
<1>2. CASE e = None
  <2>1. [of |-> cache.of, under |-> creds, stale |-> TRUE] \in EntitlementType
    BY <1>t DEF EntitlementType, CacheType
  <2>2. (IF CacheFor(creds)
         THEN [of |-> cache.of, under |-> creds, stale |-> TRUE]
         ELSE NoEntitlement) \in EntitlementType
    BY <2>1, BlankValues
  <2>3. shown' \in ShownType
    BY <1>2, <1>t, <2>2 DEF Resolve, ShownType
  <2> QED
    BY <1>2, <1>t, <2>3 DEF Resolve
<1> QED
  BY <1>1, <1>2

LEMMA TypesCalls ==
  ASSUME TypeOK, Calls
  PROVE  TypeOK'
<1>1. PICK e \in Entitlements :
        /\ IF e = None THEN Fault ELSE UNCHANGED faults
        /\ \/ /\ creds = None
              /\ pc' = "sleep"
              /\ cycle' = NoCycle
              /\ UNCHANGED <<shown, cache>>
           \/ /\ creds # None
              /\ Resolve(e)
              /\ pc' \in AfterHeartbeat
              /\ cycle' = [cycle EXCEPT !.entitlement = e]
  BY DEF Calls
<1>2. e \in DeviceOrNone
  BY TypesRead, Ranges DEF Entitlements, CycleType
<1>3. faults' \in 0..MaxFaults
  BY <1>1, TypesRead, FaultCounted
<1>4. pc' \in PCs
  BY <1>1 DEF AfterHeartbeat, PCs
<1>5. cycle' \in CycleType
  BY <1>1, <1>2, TypesRead, BlankValues DEF CycleType
<1>6. shown' \in ShownType /\ cache' \in CacheType
  BY <1>1, <1>2, TypesRead, TypesResolve
<1> QED
  BY <1>3, <1>4, <1>5, <1>6, TypesRead, TypesWritten DEF hang, Calls, server

LEMMA TypesHardware ==
  ASSUME TypeOK, Command \/ HardwareDue \/ SignFingerprint \/ PostHardwareCheck
  PROVE  TypeOK'
<1>p. {"hardware", "sign", "snapshot", "hwpost"} \subseteq PCs
  BY DEF PCs
<1>1. CASE Command
  BY <1>1, <1>p, TypesRead, TypesWritten DEF hang, Command, store, server
<1>2. CASE HardwareDue
  <2>1. memory' \in MemoryType /\ pc' \in PCs
    BY <1>2, <1>p, TypesRead DEF HardwareDue, MemoryType
  <2> QED
    BY <1>2, <2>1, TypesRead, TypesWritten DEF hang, HardwareDue, store, server
<1>3. CASE SignFingerprint
  <2>1. cycle' \in CycleType
    BY <1>3, TypesRead DEF SignFingerprint, CycleType
  <2> QED
    BY <1>3, <1>p, <2>1, TypesRead, TypesWritten DEF hang, SignFingerprint, store, server
<1>4. CASE PostHardwareCheck
  <2>1. PICK h \in HardwareResults :
          shown' = [shown EXCEPT !.hardware = IF h = None THEN shown.hardware ELSE h]
    BY <1>4 DEF PostHardwareCheck
  <2>2. h \in DeviceOrNone
    BY TypesRead, Ranges DEF HardwareResults, CycleType
  <2>3. (IF h = None THEN shown.hardware ELSE h) \in DeviceOrNone
    BY <2>2, TypesRead DEF ShownType
  <2>4. shown' \in ShownType
    BY <2>1, <2>3, TypesRead DEF ShownType
  <2> QED
    BY <1>4, <1>p, <2>4, TypesRead, TypesWritten DEF hang, PostHardwareCheck, store, server
<1> QED
  BY <1>1, <1>2, <1>3, <1>4

LEMMA CutOffTypes ==
  ASSUME TypeOK, Fault, posts' = CutOff
  PROVE  /\ posts' \in [Posts -> PostType] /\ faults + 1 \in Posts /\ faults + 1 # 0
         /\ posts'[faults + 1] = posts[0] /\ posts'[0] = NoPost
         /\ \A p \in Posts : p # 0 /\ p # faults + 1 => posts'[p] = posts[p]
<1>1. faults + 1 \in Posts /\ faults + 1 # 0 /\ 0 \in Posts
  BY FaultCounted, TypesRead, Ranges
<1>2. posts \in [Posts -> PostType] /\ posts[0] \in PostType /\ NoPost \in PostType
  BY TypesRead, BlankValues, Ranges
<1> QED
  BY <1>1, <1>2 DEF CutOff

LEMMA TypesGate ==
  ASSUME TypeOK, SnapshotGate
  PROVE  TypeOK'
<1>1. cycle' \in CycleType
  BY TypesRead DEF SnapshotGate, Today, CycleType
<1>2. pc' \in PCs
  BY DEF SnapshotGate, PCs
<1>3. posts' \in [Posts -> PostType]
  <2>1. [NoPost EXCEPT !.dev = creds, !.stage = "select"] \in PostType
    BY TypesRead, BlankValues DEF PostType
  <2>2. \/ posts' = [posts EXCEPT ![0] = [NoPost EXCEPT !.dev = creds, !.stage = "select"]]
        \/ posts' = posts
    BY DEF SnapshotGate
  <2> QED
    BY <2>1, <2>2, TypesRead
<1>4. faults' \in 0..MaxFaults
  BY TypesRead, FaultCounted DEF SnapshotGate
<1> QED
  BY <1>1, <1>2, <1>3, <1>4, TypesRead, TypesWritten DEF hang, SnapshotGate, store

LEMMA TypesSnapshot ==
  ASSUME TypeOK, SnapshotDone
  PROVE  TypeOK'
<1>t. shown \in ShownType /\ cycle \in CycleType /\ memory \in MemoryType /\ metrics \in MetricsType
  BY TypesRead
<1>p. "prediction" \in PCs
  BY DEF PCs
<1>1. CASE posts' = [posts EXCEPT ![0] = NoPost]
           /\ memory' = [memory EXCEPT !.posted = TRUE]
           /\ metrics' = [metrics EXCEPT !.snapshot = cycle.today, !.by = cycle.asked,
                                         !.row = posts[0].day]
           /\ shown' = [shown EXCEPT !.prediction =
                IF metrics.snapshot = cycle.today THEN NoPrediction ELSE @]
           /\ UNCHANGED faults
  <2>1. posts' \in [Posts -> PostType]
    BY <1>1, TypesRead, BlankValues
  <2>2. memory' \in MemoryType
    BY <1>1, <1>t DEF MemoryType
  <2>3. cycle.today \in 0..MaxDay /\ cycle.asked \in DeviceOrNone /\ posts[0].day \in 0..MaxDay
    BY <1>t, TypesRead, Ranges DEF CycleType, PostType
  <2>4. metrics' \in MetricsType
    BY <1>1, <1>t, <2>3 DEF MetricsType
  <2>5. (IF metrics.snapshot = cycle.today THEN NoPrediction ELSE shown.prediction) \in Predictions
    BY <1>t, BlankValues DEF ShownType
  <2>6. shown' \in ShownType
    BY <1>1, <1>t, <2>5 DEF ShownType
  <2> QED
    BY <1>1, <1>p, <2>1, <2>2, <2>4, <2>6, TypesRead, TypesWritten DEF hang, SnapshotDone
<1>2. CASE Fault /\ posts' = CutOff /\ UNCHANGED <<memory, metrics, shown>>
  BY <1>2, <1>p, CutOffTypes, FaultCounted, TypesRead, TypesWritten DEF hang, SnapshotDone
<1> QED
  BY <1>1, <1>2 DEF SnapshotDone

\* The last day of which a device has a row is one of the days, or none; it is at
\* least any day of which the device has one.
LEMMA LastRowIsLast ==
  ASSUME NEW d \in Devices
  PROVE  /\ LastRow(d) \in 0..MaxDay
         /\ \A t \in Days : rows[d][t] > 0 => t <= LastRow(d)
<1> DEFINE ts == {t \in Days : rows[d][t] > 0}
           Good(t) == t \in ts \cup {0} /\ \A o \in ts : o <= t
<1>1. \E t \in Days \cup {0} : Good(t)
  <2>1. CASE ts = {}
    BY <2>1
  <2>2. CASE ts # {}
    <3> DEFINE Less == {p \in Nat \X Nat : p[1] < p[2]}
               left == {MaxDay - t : t \in ts}
    <3>1. IsWellFoundedOn(Less, Nat)
      BY NatLessThanWellFounded DEF OpToRel
    <3>2. left \subseteq Nat /\ left # {}
      BY <2>2, BoundsAssumption DEF Days
    <3>3. PICK x \in left : \A y \in left : ~(<<y, x>> \in Less)
      BY <3>1, <3>2, WFMin
    <3>4. PICK t \in ts : x = MaxDay - t
      BY <3>3
    <3>5. ASSUME NEW o \in ts PROVE o <= t
      <4>1. MaxDay - o \in left /\ MaxDay - o \in Nat /\ x \in Nat
        BY <3>2, <3>3
      <4>2. ~(<<MaxDay - o, x>> \in Less)
        BY <3>3, <4>1
      <4>3. ~(MaxDay - o < x)
        BY <4>1, <4>2
      <4> QED
        BY <3>4, <4>3, BoundsAssumption DEF Days
    <3> QED
      BY <3>4, <3>5
  <2> QED
    BY <2>1, <2>2
<1>2. LastRow(d) = CHOOSE t \in Days \cup {0} : Good(t)
  BY DEF LastRow
<1>3. LastRow(d) \in Days \cup {0} /\ Good(LastRow(d))
  <2> HIDE DEF Good
  <2> QED
    BY <1>1, <1>2
<1> QED
  BY <1>3, Ranges

LEMMA TypesPrediction ==
  ASSUME TypeOK, pc = "predicting" => cycle.asked \in Devices, PredictionGate \/ FetchPrediction
  PROVE  TypeOK'
<1>p. {"predicting", "hourly"} \subseteq PCs
  BY DEF PCs
<1>1. CASE PredictionGate
  <2>1. cycle' \in CycleType
    BY <1>1, TypesRead DEF PredictionGate, CycleType
  <2>2. pc' \in PCs
    BY <1>1, <1>p DEF PredictionGate
  <2> QED
    BY <1>1, <2>1, <2>2, TypesRead, TypesWritten DEF hang, PredictionGate, store, server
<1>2. CASE FetchPrediction
  <2> DEFINE q == [of |-> cycle.asked, seen |-> LastRow(cycle.asked), claimed |-> metrics.by,
                 on |-> metrics.snapshot, from |-> metrics.row]
  <2>0. /\ cycle.asked \in DeviceOrNone /\ cycle.today \in 0..MaxDay /\ metrics.by \in DeviceOrNone
        /\ metrics.snapshot \in 0..MaxDay /\ metrics.row \in 0..MaxDay
    BY TypesRead, Ranges DEF CycleType, MetricsType
  <2>1. q \in Predictions
    BY <1>2, <2>0, LastRowIsLast DEF FetchPrediction, Predictions
  <2>2. \/ /\ shown' = [shown EXCEPT !.prediction = q]
           /\ metrics' = [metrics EXCEPT !.predicted = cycle.today, !.prediction = q]
           /\ UNCHANGED faults
        \/ /\ Fault
           /\ UNCHANGED <<shown, metrics>>
    BY <1>2 DEF FetchPrediction
  <2> HIDE DEF q
  <2>3. shown' \in ShownType
    BY <2>1, <2>2, TypesRead DEF ShownType
  <2>4. metrics' \in MetricsType
    BY <2>0, <2>1, <2>2, TypesRead DEF MetricsType
  <2>5. faults' \in 0..MaxFaults
    BY <2>2, TypesRead, FaultCounted
  <2> QED
    BY <1>2, <1>p, <2>3, <2>4, <2>5, TypesRead, TypesWritten DEF hang, FetchPrediction, server
<1> QED
  BY <1>1, <1>2

LEMMA TypesHourly ==
  ASSUME TypeOK, HourlyGate \/ RunChecks \/ IntervalOver
  PROVE  TypeOK'
<1>p. {"checking", "sleep"} \subseteq PCs
  BY DEF PCs
<1>1. CASE HourlyGate
  <2>1. pc' \in PCs /\ cycle' \in CycleType
    BY <1>1, <1>p, BlankValues, TypesRead DEF HourlyGate
  <2>2. memory' \in MemoryType
    BY <1>1, TypesRead DEF HourlyGate, MemoryType
  <2> QED
    BY <1>1, <2>1, <2>2, TypesRead, TypesWritten DEF hang, HourlyGate, store, server
<1>2. CASE RunChecks
  <2>1. PICK results \in SUBSET Checked :
          \E lost \in SUBSET (results \cap BundledChecks) :
            shown' = [shown EXCEPT !.checks = (shown.checks \cup results) \ lost]
    BY <1>2 DEF RunChecks
  <2>2. shown' \in ShownType
    BY <2>1, TypesRead DEF ShownType
  <2> QED
    BY <1>2, <1>p, <2>2, BlankValues, TypesRead, TypesWritten DEF hang, RunChecks, store, server
<1>3. CASE IntervalOver
  <2>1. memory' \in MemoryType
    BY <1>3, TypesRead DEF IntervalOver, MemoryType
  <2> QED
    BY <1>3, <2>1, TypesRead, TypesWritten DEF hang, IntervalOver, agent, store, server
<1> QED
  BY <1>1, <1>2, <1>3

LEMMA TypesTrouble ==
  ASSUME TypeOK, Hang \/ WithTimeout \/ Restart \/ NextDay
  PROVE  TypeOK'
<1>1. CASE Hang
  <2>1. hangs' \in 0..MaxHangs
    BY <1>1, TypesRead, BoundsAssumption DEF Hang
  <2> QED
    BY <1>1, <2>1, TypesRead, TypesWritten DEF Hang, store, server
<1>2. CASE WithTimeout
  BY <1>2, TypesRead, TypesWritten DEF hang, WithTimeout, store, server
<1>3. CASE Restart
  <2>1. posts' \in [Posts -> PostType]
    BY <1>3, TypesRead, CutOffTypes DEF Restart
  <2>2. shown' \in ShownType
    BY <1>3, TypesRead, StartedState DEF Restart
  <2>3. pc' \in PCs
    BY <1>3 DEF Restart, PCs
  <2> QED
    BY <1>3, <2>1, <2>2, <2>3, FaultCounted, BlankValues, Ranges, TypesRead, TypesWritten
       DEF hang, Restart, store
<1>4. CASE NextDay
  <2>1. PICK c \in Clocks : day[c] < MaxDay /\ day' = [day EXCEPT ![c] = day[c] + 1]
    BY <1>4 DEF NextDay
  <2>2. day[c] + 1 \in Days
    BY <2>1, TypesRead, BoundsAssumption DEF Days
  <2>3. day' \in [Clocks -> Days]
    BY <2>1, <2>2, TypesRead
  <2> QED
    BY <1>4, <2>3, TypesRead, TypesWritten DEF hang, NextDay, agent, store, server
<1> QED
  BY <1>1, <1>2, <1>3, <1>4

-----------------------------------------------------------------------------
(* Identities. *)

LEMMA EnrolmentGrows ==
  ASSUME TypeOK, IdentitiesGrow, LoadOrRegister
  PROVE  creds' = file' /\ file' = issued' /\ issued <= issued' /\ issued' # None
<1>t. issued \in Nat
  BY TypesRead, Ranges
<1>1. CASE file # None
  BY <1>1, <1>t DEF LoadOrRegister, IdentitiesGrow
<1>2. CASE file = None
  BY <1>2, <1>t DEF LoadOrRegister, None
<1> QED
  BY <1>1, <1>2

LEMMA EntitlementKept ==
  ASSUME IdentitiesGrow, cache' = cache,
         shown'.entitlement \in {shown.entitlement, NoEntitlement}
  PROVE  cache'.of <= cache'.id /\ ForeignOnlyByCrossing'
<1>1. CASE shown'.entitlement = shown.entitlement
  BY <1>1 DEF IdentitiesGrow, ForeignOnlyByCrossing
<1>2. CASE shown'.entitlement = NoEntitlement
  BY <1>2 DEF IdentitiesGrow, ForeignOnlyByCrossing, NoEntitlement
<1> QED
  BY <1>1, <1>2

\* The actions that neither enrol nor wipe nor resolve: they ask about the device
\* enrolled now, or about none.
LEMMA AskingGrows ==
  ASSUME TypeOK, IdentitiesGrow, UNCHANGED <<file, issued, cache>>,
         creds' \in {None, creds}, cycle'.asked \in {cycle.asked, creds, None},
         shown'.entitlement \in {shown.entitlement, NoEntitlement}
  PROVE  IdentitiesGrow'
<1>1. creds <= issued /\ None <= issued
  <2>1. issued \in Nat /\ creds \in {None, issued} /\ None = 0
    BY TypesRead, Ranges DEF IdentitiesGrow
  <2> QED
    BY <2>1
<1>2. cycle'.asked <= issued'
  BY <1>1 DEF IdentitiesGrow
<1> QED
  BY <1>2, EntitlementKept DEF IdentitiesGrow

LEMMA ResolveGrows ==
  ASSUME TypeOK, IdentitiesGrow, creds # None, NEW e \in Entitlements, Resolve(e)
  PROVE  cache'.of <= cache'.id /\ ForeignOnlyByCrossing'
<1>t. /\ creds \in Nat /\ issued \in Nat /\ cycle.asked \in Nat /\ cache.of \in Nat /\ cache.id \in Nat
      /\ cache \in CacheType /\ shown \in ShownType
  BY TypesRead, Ranges DEF CycleType, CacheType
<1>1. creds = issued /\ cycle.asked <= creds /\ cache.of <= cache.id
  BY DEF IdentitiesGrow
<1>2. CASE e # None
  <2>1. e = cycle.asked
    BY <1>2 DEF Entitlements
  <2>2. cache' = [id |-> creds, of |-> e]
    BY <1>2 DEF Resolve
  <2>3. shown'.entitlement = [of |-> e, under |-> creds, stale |-> FALSE]
    BY <1>2, <1>t DEF Resolve, ShownType
  <2> QED
    BY <1>1, <1>t, <2>1, <2>2, <2>3 DEF ForeignOnlyByCrossing
<1>3. CASE e = None /\ CacheFor(creds)
  <2>1. cache' = cache /\ cache.id = creds
    BY <1>3 DEF Resolve, CacheFor
  <2>2. shown'.entitlement = [of |-> cache.of, under |-> creds, stale |-> TRUE]
    BY <1>3, <1>t DEF Resolve, ShownType
  <2>3. cache = [id |-> creds, of |-> cache.of]
    BY <1>t, <2>1 DEF CacheType
  <2> QED
    BY <1>1, <1>t, <2>1, <2>2, <2>3 DEF ForeignOnlyByCrossing
<1>4. CASE e = None /\ ~CacheFor(creds)
  <2>1. cache' = cache /\ shown'.entitlement = NoEntitlement
    BY <1>4, <1>t DEF Resolve, ShownType
  <2> QED
    BY <2>1, EntitlementKept
<1> QED
  BY <1>2, <1>3, <1>4

LEMMA IdentitiesEnrol ==
  ASSUME TypeOK, IdentitiesGrow, Wipe \/ BackendUrlUpdate \/ Load
  PROVE  IdentitiesGrow'
<1>t. issued \in Nat /\ cycle \in CycleType /\ cycle.asked \in Nat /\ shown \in ShownType
  BY TypesRead, Ranges DEF CycleType
<1>1. CASE Wipe
  BY <1>1 DEF Wipe, IdentitiesGrow, agent, store, server, ForeignOnlyByCrossing
<1>2. CASE BackendUrlUpdate
  <2>1. cycle'.asked <= issued' /\ cache' = cache /\ shown' = shown
    <3>1. issued <= issued' /\ issued' \in Nat /\ cycle.asked <= issued
      BY <1>2, EnrolmentGrows, TypesEnrolment, Ranges DEF BackendUrlUpdate, IdentitiesGrow
    <3>2. cycle' = cycle /\ cache' = cache /\ shown' = shown
      BY <1>2 DEF BackendUrlUpdate, agent, store
    <3> QED
      BY <1>t, <3>1, <3>2
  <2> QED
    BY <1>2, <2>1, EnrolmentGrows, EntitlementKept DEF BackendUrlUpdate, IdentitiesGrow
<1>3. CASE Load
  <2>1. CASE /\ LoadOrRegister
             /\ cycle' = [cycle EXCEPT !.asked = creds']
             /\ UNCHANGED <<shown, faults>>
    <3>1. cycle'.asked = issued' /\ issued' \in Nat
      BY <1>t, <2>1, EnrolmentGrows, TypesEnrolment, Ranges DEF CycleType
    <3>2. cache' = cache
      BY <1>3 DEF Load, store
    <3> QED
      BY <2>1, <3>1, <3>2, EnrolmentGrows, EntitlementKept DEF IdentitiesGrow
  <2>2. CASE /\ creds' = None /\ cycle' = NoCycle
             /\ shown' = [shown EXCEPT !.entitlement = NoEntitlement]
             /\ UNCHANGED <<file, issued, enrolled>>
    <3>1. cycle'.asked = None /\ shown'.entitlement = NoEntitlement
      BY <1>t, <2>2 DEF NoCycle, ShownType
    <3> QED
      BY <1>3, <2>2, <3>1, AskingGrows DEF Load, store
  <2> QED
    BY <1>3, <2>1, <2>2 DEF Load
<1> QED
  BY <1>1, <1>2, <1>3

LEMMA IdentitiesCalls ==
  ASSUME TypeOK, IdentitiesGrow, Calls
  PROVE  IdentitiesGrow'
<1>t. cycle \in CycleType
  BY TypesRead
<1>1. PICK e \in Entitlements :
           \/ /\ cycle' = NoCycle
              /\ UNCHANGED <<shown, cache>>
           \/ /\ creds # None
              /\ Resolve(e)
              /\ cycle' = [cycle EXCEPT !.entitlement = e]
  BY DEF Calls
<1>u. UNCHANGED <<creds, file, issued>>
  BY DEF Calls, server
<1>2. CASE cycle' = NoCycle /\ UNCHANGED <<shown, cache>>
  <2>1. cycle'.asked = None
    BY <1>2 DEF NoCycle
  <2> QED
    BY <1>2, <1>u, <2>1, AskingGrows
<1>3. CASE creds # None /\ Resolve(e) /\ cycle' = [cycle EXCEPT !.entitlement = e]
  <2>1. cycle'.asked = cycle.asked
    BY <1>3, <1>t DEF CycleType
  <2> QED
    BY <1>3, <1>u, <2>1, ResolveGrows DEF IdentitiesGrow
<1> QED
  BY <1>1, <1>2, <1>3

\* The other steps.
LEMMA IdentitiesElsewhere ==
  ASSUME TypeOK, IdentitiesGrow,
         \/ StartCycle \/ Command \/ HardwareDue \/ SignFingerprint \/ PostHardwareCheck
         \/ SnapshotGate \/ SnapshotDone \/ PredictionGate \/ FetchPrediction
         \/ HourlyGate \/ RunChecks \/ WithTimeout \/ Backend \/ Hang \/ Restart
         \/ IntervalOver \/ NextDay
  PROVE  IdentitiesGrow'
<1>t. cycle \in CycleType /\ shown \in ShownType /\ metrics \in MetricsType
  BY TypesRead
<1>n. NoCycle.asked = None
  BY DEF NoCycle
<1>1. CASE StartCycle
  <2>1. cycle'.asked = creds
    BY <1>1 DEF StartCycle, NoCycle
  <2> QED
    BY <1>1, <2>1, AskingGrows DEF StartCycle, store, server
<1>2. CASE Command \/ HardwareDue \/ WithTimeout \/ Hang
  BY <1>2, AskingGrows DEF Command, HardwareDue, WithTimeout, Hang, store, server
<1>3. CASE SignFingerprint \/ PredictionGate
  <2>1. cycle'.asked = creds
    BY <1>3, <1>t DEF SignFingerprint, PredictionGate, CycleType
  <2> QED
    BY <1>3, <2>1, AskingGrows DEF SignFingerprint, PredictionGate, store, server
<1>4. CASE PostHardwareCheck
  <2>1. shown'.entitlement = shown.entitlement
    BY <1>4, <1>t DEF PostHardwareCheck, ShownType
  <2> QED
    BY <1>4, <2>1, AskingGrows DEF PostHardwareCheck, store, server
<1>5. CASE SnapshotGate
  <2>1. cycle'.asked = creds
    BY <1>5, <1>t DEF SnapshotGate, CycleType
  <2> QED
    BY <1>5, <2>1, AskingGrows DEF SnapshotGate, store
<1>6. CASE SnapshotDone
  <2>1. shown'.entitlement = shown.entitlement
    BY <1>6, <1>t DEF SnapshotDone, ShownType
  <2> QED
    BY <1>6, <2>1, AskingGrows DEF SnapshotDone
<1>7. CASE FetchPrediction
  <2>1. shown'.entitlement = shown.entitlement
    BY <1>7, <1>t DEF FetchPrediction, ShownType
  <2> QED
    BY <1>7, <2>1, AskingGrows DEF FetchPrediction, server
<1>8. CASE HourlyGate
  BY <1>8, <1>n, AskingGrows DEF HourlyGate, store, server
<1>9. CASE RunChecks
  <2>1. shown'.entitlement = shown.entitlement
    BY <1>9, <1>t DEF RunChecks, ShownType
  <2> QED
    BY <1>9, <1>n, <2>1, AskingGrows DEF RunChecks, store, server
<1>10. CASE Backend
  BY <1>10, AskingGrows DEF Backend, SelectRow, InsertRow, agent, store
<1>11. CASE Restart
  <2>1. shown'.entitlement = NoEntitlement
    BY <1>11, <1>t, StartedState DEF Restart
  <2> QED
    BY <1>11, <1>n, <2>1, AskingGrows DEF Restart, store
<1>12. CASE IntervalOver \/ NextDay
  BY <1>12, AskingGrows DEF IntervalOver, NextDay, agent, store, server
<1> QED
  BY <1>1, <1>2, <1>3, <1>4, <1>5, <1>6, <1>7, <1>8, <1>9, <1>10, <1>11, <1>12

-----------------------------------------------------------------------------
(* Posts, rows and the day's flags.  Only five actions touch a post or a row. *)

LEMMA PostsElsewhere ==
  ASSUME TypeOK, PostsHold, RowsHold, UNCHANGED <<posts, rows>>,
         faults' \in {faults, faults + 1},
         pc' = "snapping" => pc = "snapping" /\ cycle' = cycle
  PROVE  PostsHold' /\ RowsHold'
<1>1. faults \in Nat
  BY TypesRead, BoundsAssumption
<1>2. \A p \in Posts : p > faults' => p > faults
  BY <1>1, Ranges
<1>3. PostsHold'
  BY <1>2 DEF PostsHold
<1>4. \A d, t : GivenUpOn(d, t)' = GivenUpOn(d, t)
  BY DEF GivenUpOn
<1>5. RowsHold'
  BY <1>4 DEF RowsHold
<1> QED
  BY <1>3, <1>5

LEMMA FaultsElsewhere ==
  ASSUME TypeOK,
         \/ StartCycle \/ Load \/ Calls \/ Command \/ HardwareDue \/ SignFingerprint
         \/ PostHardwareCheck \/ PredictionGate \/ FetchPrediction \/ HourlyGate \/ RunChecks
         \/ WithTimeout \/ Hang \/ Wipe \/ BackendUrlUpdate \/ IntervalOver \/ NextDay
  PROVE  /\ UNCHANGED <<posts, rows>> /\ faults' \in {faults, faults + 1}
         /\ pc' = "snapping" => pc = "snapping" /\ cycle' = cycle
         /\ pc' = "predicting" => (pc = "predicting" /\ cycle' = cycle) \/ PredictionGate
         /\ metrics' = metrics \/ FetchPrediction
<1>1. CASE StartCycle \/ Command \/ HardwareDue \/ SignFingerprint \/ PostHardwareCheck
  BY <1>1 DEF StartCycle, Command, HardwareDue, SignFingerprint, PostHardwareCheck, store, server
<1>2. CASE Load
  BY <1>2 DEF Load, Fault, store
<1>3. CASE Calls
  <2>1. PICK e \in Entitlements :
          /\ IF e = None THEN Fault ELSE UNCHANGED faults
          /\ pc' \in AfterHeartbeat \cup {"sleep"}
    BY <1>3 DEF Calls
  <2>2. faults' \in {faults, faults + 1}
    BY <2>1 DEF Fault
  <2>3. pc' # "snapping" /\ pc' # "predicting"
    BY <2>1 DEF AfterHeartbeat
  <2> QED
    BY <1>3, <2>2, <2>3 DEF Calls, server
<1>4. CASE PredictionGate \/ HourlyGate \/ RunChecks
  BY <1>4 DEF PredictionGate, HourlyGate, RunChecks, store, server
<1>5. CASE FetchPrediction
  BY <1>5 DEF FetchPrediction, Fault, server
<1>6. CASE WithTimeout \/ Hang
  BY <1>6 DEF WithTimeout, Hang, Fault, store, server
<1>7. CASE Wipe \/ BackendUrlUpdate
  BY <1>7 DEF Wipe, BackendUrlUpdate, agent, store, server
<1>8. CASE IntervalOver \/ NextDay
  BY <1>8 DEF IntervalOver, NextDay, agent, store, server
<1> QED
  BY <1>1, <1>2, <1>3, <1>4, <1>5, <1>6, <1>7, <1>8

LEMMA PostsGate ==
  ASSUME TypeOK, PostsHold, SnapshotGate
  PROVE  PostsHold'
<1>t. faults \in Nat /\ posts \in [Posts -> PostType] /\ cycle \in CycleType
  BY TypesRead, BoundsAssumption
<1>r. rows' = rows
  BY DEF SnapshotGate
<1>1. CASE /\ creds # None
           /\ posts' = [posts EXCEPT ![0] = [NoPost EXCEPT !.dev = creds, !.stage = "select"]]
           /\ UNCHANGED faults
  <2>1. posts'[0].dev = creds /\ posts'[0].stage = "select"
    BY <1>1, <1>t, Ranges DEF NoPost
  <2>2. \A p \in Posts \ {0} : posts'[p] = posts[p]
    BY <1>1, <1>t
  <2>3. cycle'.asked = creds
    BY <1>t DEF SnapshotGate, CycleType
  <2>4. creds \in Devices
    BY <1>1, TypesRead, Ranges
  <2> QED
    BY <1>1, <1>r, <2>1, <2>2, <2>3, <2>4 DEF PostsHold
<1>2. CASE posts' = posts /\ pc' = "prediction" /\ faults' \in {faults, faults + 1}
  <2>1. \A p \in Posts : p > faults' => p > faults
    BY <1>2, <1>t, Ranges
  <2> QED
    BY <1>2, <1>r, <2>1 DEF PostsHold
<1> QED
  BY <1>1, <1>2 DEF SnapshotGate, Fault

\* A post is cut off: it gets the number of the fault.
LEMMA PostsCut ==
  ASSUME TypeOK, PostsHold, Fault, posts' = CutOff, rows' = rows, pc' # "snapping"
  PROVE  PostsHold'
<1>1. faults \in Nat /\ faults' = faults + 1
  BY TypesRead, BoundsAssumption, FaultCounted
<1>2. posts'[0].stage = "none"
  BY CutOffTypes DEF NoPost
<1>3. ASSUME NEW p \in Posts, p # 0
      PROVE  /\ posts'[p] \in {posts[p], posts[0]}
             /\ p > faults' => posts'[p] = posts[p]
  BY <1>1, <1>3, CutOffTypes, Ranges
<1>4. \A p \in Posts : posts'[p].stage # "none" => posts'[p].dev \in Devices
  BY <1>2, <1>3, Ranges DEF PostsHold
<1>5. \A p \in Posts : posts'[p].stage = "done" => rows'[posts'[p].dev][posts'[p].day] > 0
  BY <1>2, <1>3, Ranges DEF PostsHold
<1>6. ASSUME NEW p \in Posts, p > faults', p # 0 PROVE posts'[p].dev = None
  <2>1. p > faults
    BY <1>1, <1>6, Ranges
  <2> QED
    BY <1>3, <1>6, <2>1 DEF PostsHold
<1> QED
  BY <1>4, <1>5, <1>6 DEF PostsHold

LEMMA PostsEnd ==
  ASSUME TypeOK, PostsHold, SnapshotDone \/ Restart
  PROVE  PostsHold'
<1>r. rows' = rows /\ pc' # "snapping"
  BY DEF SnapshotDone, Restart
<1>t. posts \in [Posts -> PostType] /\ NoPost.stage = "none" /\ faults \in Nat
  BY TypesRead, BoundsAssumption DEF NoPost
<1>1. CASE Fault /\ posts' = CutOff
  BY <1>1, <1>r, PostsCut
<1>2. CASE posts' = [posts EXCEPT ![0] = NoPost] /\ UNCHANGED faults
  <2>1. posts'[0].stage = "none" /\ \A p \in Posts \ {0} : posts'[p] = posts[p]
    BY <1>2, <1>t, Ranges
  <2> QED
    BY <1>2, <1>r, <2>1 DEF PostsHold
<1>3. CASE posts' = posts /\ faults' = faults + 1
  <2>1. \A p \in Posts : p > faults' => p > faults
    BY <1>3, <1>t, Ranges
  <2> QED
    BY <1>3, <1>r, <2>1 DEF PostsHold
<1> QED
  BY <1>1, <1>2, <1>3 DEF SnapshotDone, Restart, Fault

\* What a step of the backend does to a post: it takes the day of the backend's clock
\* when it looks for the row, and keeps it.
LEMMA StageMoves ==
  ASSUME TypeOK, PostsHold, NEW p \in Posts, SelectRow(p) \/ InsertRow(p)
  PROVE  /\ posts[p].dev \in Devices /\ posts[p].day \in Days
         /\ posts' \in [Posts -> PostType]
         /\ posts'[p].dev = posts[p].dev /\ posts'[p].day \in Days
         /\ SelectRow(p) => /\ posts'[p].day = day.backend
                            /\ posts'[p].stage = IF rows[posts[p].dev][day.backend] = 0
                                                 THEN "insert" ELSE "done"
         /\ InsertRow(p) => posts'[p].day = posts[p].day
         /\ posts'[p].stage \in {"insert", "done"}
         /\ \A q \in Posts : q # p => posts'[q] = posts[q]
<1>t. posts \in [Posts -> PostType] /\ day.backend \in Days
  BY TypesRead
<1>1. posts[p].stage # "none"
  BY DEF SelectRow, InsertRow
<1>2. posts[p].dev \in Devices /\ posts[p].day \in Days /\ posts[p] \in PostType
  BY <1>t, <1>1 DEF PostsHold, PostType
<1>3. CASE SelectRow(p)
  <2> DEFINE s == IF rows[posts[p].dev][day.backend] = 0 THEN "insert" ELSE "done"
  <2>1. posts' = [posts EXCEPT ![p] = [posts[p] EXCEPT !.day = day.backend, !.stage = s]]
    BY <1>t, <1>3 DEF SelectRow
  <2>2. s \in {"insert", "done"}
    OBVIOUS
  <2>3. posts'[p] = [posts[p] EXCEPT !.day = day.backend, !.stage = s]
    BY <1>t, <2>1
  <2>4. \A q \in Posts : q # p => posts'[q] = posts[q]
    BY <1>t, <2>1
  <2>5. /\ posts'[p].stage = s /\ posts'[p].dev = posts[p].dev /\ posts'[p].day = day.backend
        /\ posts'[p] \in PostType
    <3> HIDE DEF s
    <3> QED
      BY <1>t, <1>2, <2>2, <2>3 DEF PostType
  <2>6. posts' \in [Posts -> PostType]
    BY <1>t, <2>1, <2>4, <2>5
  <2>7. ~InsertRow(p)
    BY <1>3 DEF SelectRow, InsertRow
  <2> QED
    BY <1>t, <1>2, <2>2, <2>4, <2>5, <2>6, <2>7
<1>4. CASE InsertRow(p)
  <2>1. posts' = [posts EXCEPT ![p] = [posts[p] EXCEPT !.stage = "done"]]
    BY <1>t, <1>4 DEF InsertRow
  <2>2. posts'[p] = [posts[p] EXCEPT !.stage = "done"]
    BY <1>t, <2>1
  <2>3. \A q \in Posts : q # p => posts'[q] = posts[q]
    BY <1>t, <2>1
  <2>4. /\ posts'[p].stage = "done" /\ posts'[p].dev = posts[p].dev
        /\ posts'[p].day = posts[p].day /\ posts'[p] \in PostType
    BY <1>2, <2>2 DEF PostType
  <2>5. posts' \in [Posts -> PostType]
    BY <1>t, <2>1, <2>3, <2>4
  <2>6. ~SelectRow(p)
    BY <1>4 DEF SelectRow, InsertRow
  <2> QED
    BY <1>2, <2>3, <2>4, <2>5, <2>6
<1> QED
  BY <1>3, <1>4

LEMMA RowsMove ==
  ASSUME TypeOK, NEW p \in Posts, posts[p].dev \in Devices, posts[p].day \in Days, InsertRow(p)
  PROVE  \A d \in Devices, t \in Days :
           /\ rows[d][t] \in Nat
           /\ d = posts[p].dev /\ t = posts[p].day => rows'[d][t] = rows[d][t] + 1
           /\ d # posts[p].dev \/ t # posts[p].day => rows'[d][t] = rows[d][t]
<1>1. rows \in [Devices -> [Days -> Nat]]
  BY TypesRead, BoundsAssumption DEF RowsType
<1>2. rows' = [rows EXCEPT ![posts[p].dev][posts[p].day] = rows[posts[p].dev][posts[p].day] + 1]
  BY DEF InsertRow
<1> QED
  BY <1>1, <1>2

LEMMA PostsBackend ==
  ASSUME TypeOK, PostsHold, NEW p \in Posts, SelectRow(p) \/ InsertRow(p)
  PROVE  PostsHold'
<1>t. rows \in [Devices -> [Days -> Nat]] /\ posts \in [Posts -> PostType] /\ day.backend \in Days
  BY TypesRead, BoundsAssumption DEF RowsType
<1>u. UNCHANGED <<pc, cycle, faults>>
  BY DEF SelectRow, InsertRow, agent
<1>1. \A q \in Posts : posts'[q].dev = posts[q].dev
  BY StageMoves
<1>2. \A q \in Posts : posts'[q].stage # "none" => posts'[q].dev \in Devices
  BY StageMoves, <1>1 DEF PostsHold
<1>3. ASSUME NEW q \in Posts, posts'[q].stage = "done"
      PROVE  rows'[posts'[q].dev][posts'[q].day] > 0
  <2>1. CASE q # p
    <3>0. posts'[q] = posts[q] /\ posts[q].stage = "done"
      BY <1>3, <2>1, StageMoves
    <3>1. /\ rows[posts[q].dev][posts[q].day] > 0
          /\ posts[q].dev \in Devices /\ posts[q].day \in Days
      BY <1>t, <3>0 DEF PostsHold, PostType
    <3>2. CASE SelectRow(p)
      BY <3>0, <3>1, <3>2 DEF SelectRow
    <3>3. CASE InsertRow(p)
      <4>1. /\ rows[posts[q].dev][posts[q].day] \in Nat
            /\ \/ rows'[posts[q].dev][posts[q].day] = rows[posts[q].dev][posts[q].day] + 1
               \/ rows'[posts[q].dev][posts[q].day] = rows[posts[q].dev][posts[q].day]
        BY <3>1, <3>3, StageMoves, RowsMove
      <4> QED
        BY <3>0, <3>1, <4>1
    <3> QED
      BY <3>2, <3>3
  <2>2. CASE q = p /\ InsertRow(p)
    <3>0. posts[p].dev \in Devices /\ posts[p].day \in Days /\ posts'[p].day = posts[p].day
      BY <2>2, StageMoves
    <3>1. /\ rows'[posts[p].dev][posts[p].day] = rows[posts[p].dev][posts[p].day] + 1
          /\ rows[posts[p].dev][posts[p].day] \in Nat
      BY <2>2, <3>0, RowsMove
    <3> QED
      BY <1>1, <2>2, <3>0, <3>1
  <2>3. CASE q = p /\ SelectRow(p)
    <3>1. posts'[p].day = day.backend /\ posts[p].dev \in Devices /\ rows' = rows
      BY <2>3, StageMoves DEF SelectRow
    <3>2. rows[posts[p].dev][day.backend] # 0
      BY <1>3, <2>3, StageMoves
    <3>3. rows[posts[p].dev][day.backend] \in Nat
      BY <1>t, <3>1
    <3> QED
      BY <1>1, <2>3, <3>1, <3>2, <3>3
  <2> QED
    BY <2>1, <2>2, <2>3
<1>4. pc = "snapping" => posts'[0].stage # "none"
  BY StageMoves, Ranges DEF PostsHold
<1> QED
  BY <1>u, <1>1, <1>2, <1>3, <1>4, Ranges DEF PostsHold

-----------------------------------------------------------------------------
(* The day's flags. *)

LEMMA SnapshotsElsewhere ==
  ASSUME TypeOK, SnapshotsHold, metrics' = metrics,
         pc' = "predicting" => pc = "predicting" /\ cycle' = cycle,
         \A d \in Devices, t \in Days : rows[d][t] > 0 => rows'[d][t] > 0
  PROVE  SnapshotsHold'
  BY DEF SnapshotsHold, PredictionSeesItsSnapshot

LEMMA SnapshotsGate ==
  ASSUME TypeOK, SnapshotsHold, PredictionGate
  PROVE  SnapshotsHold'
<1>1. pc' = "predicting" => cycle'.asked \in Devices /\ metrics.snapshot = cycle'.today
  BY TypesRead, Ranges DEF PredictionGate, PredictionDue, CycleType
<1>2. metrics' = metrics /\ rows' = rows
  BY DEF PredictionGate, store, server
<1> QED
  BY <1>1, <1>2 DEF SnapshotsHold, PredictionSeesItsSnapshot

LEMMA SnapshotsDone ==
  ASSUME TypeOK, PostsHold, SnapshotsHold, SnapshotDone
  PROVE  SnapshotsHold'
<1>t. metrics \in MetricsType /\ cycle.today \in Days
  BY TypesRead DEF CycleType
<1>r. rows' = rows /\ pc' # "predicting"
  BY DEF SnapshotDone
<1>1. CASE metrics' = metrics
  BY <1>1, <1>r, SnapshotsElsewhere
<1>2. CASE /\ posts[0].stage = "done"
           /\ metrics' = [metrics EXCEPT !.snapshot = cycle.today, !.by = cycle.asked,
                                         !.row = posts[0].day]
  <2>1. posts[0].dev = cycle.asked /\ posts[0].dev \in Devices /\ posts[0].day \in Days
    BY <1>2, TypesRead, Ranges DEF PostsHold, SnapshotDone, PostType
  <2>2. rows[cycle.asked][posts[0].day] > 0
    BY <1>2, <2>1, Ranges DEF PostsHold
  <2>3. /\ metrics'.by = cycle.asked /\ metrics'.row = posts[0].day
        /\ metrics'.predicted = metrics.predicted /\ metrics'.prediction = metrics.prediction
    BY <1>2, <1>t DEF MetricsType
  <2>5. /\ metrics'.by \in Devices /\ metrics'.row \in Days
        /\ rows'[metrics'.by][metrics'.row] > 0
    BY <1>r, <2>1, <2>2, <2>3
  <2>6. PredictionSeesItsSnapshot'
    BY <2>3 DEF SnapshotsHold, PredictionSeesItsSnapshot
  <2> QED
    BY <1>r, <2>5, <2>6 DEF SnapshotsHold
<1> QED
  BY <1>1, <1>2 DEF SnapshotDone

LEMMA SnapshotsFetch ==
  ASSUME TypeOK, SnapshotsHold, FetchPrediction
  PROVE  SnapshotsHold'
<1> DEFINE q == [of |-> cycle.asked, seen |-> LastRow(cycle.asked), claimed |-> metrics.by,
                 on |-> metrics.snapshot, from |-> metrics.row]
<1>t. metrics \in MetricsType /\ cycle.today \in Days
  BY TypesRead DEF CycleType
<1>r. rows' = rows /\ pc' # "predicting"
  BY DEF FetchPrediction, server
<1>1. CASE metrics' = metrics
  BY <1>1, <1>r, SnapshotsElsewhere
<1>2. CASE metrics' = [metrics EXCEPT !.predicted = cycle.today, !.prediction = q]
  <2>1. /\ metrics'.snapshot = metrics.snapshot /\ metrics'.by = metrics.by
        /\ metrics'.row = metrics.row
        /\ metrics'.predicted = cycle.today /\ metrics'.prediction = q
    <3> HIDE DEF q
    <3> QED
      BY <1>2, <1>t DEF MetricsType
  <2>2. cycle.asked \in Devices /\ metrics.snapshot = cycle.today
    BY DEF SnapshotsHold, FetchPrediction
  <2>3. /\ metrics.by \in Devices /\ metrics.row \in Days
        /\ rows[metrics.by][metrics.row] > 0
    BY <1>t, <2>2, Ranges DEF SnapshotsHold
  <2>4. metrics.by = cycle.asked => LastRow(cycle.asked) >= metrics.row
    <3>1. metrics.row \in Nat
      BY <2>3, Ranges
    <3>2. /\ LastRow(cycle.asked) \in 0..MaxDay
          /\ metrics.by = cycle.asked => metrics.row <= LastRow(cycle.asked)
      BY <2>2, <2>3, LastRowIsLast
    <3> QED
      BY <3>1, <3>2, BoundsAssumption
  <2>6. /\ q.on = cycle.today /\ q.claimed # None /\ q.from # 0
        /\ q.claimed = q.of => q.seen >= q.from
    <3>1. /\ q.seen = LastRow(cycle.asked) /\ q.claimed = metrics.by /\ q.of = cycle.asked
          /\ q.on = metrics.snapshot /\ q.from = metrics.row
      OBVIOUS
    <3> HIDE DEF q
    <3> QED
      BY <2>2, <2>3, <2>4, <3>1, Ranges
  <2> HIDE DEF q
  <2>7. PredictionSeesItsSnapshot'
    BY <2>1, <2>6 DEF PredictionSeesItsSnapshot
  <2> QED
    BY <1>r, <2>1, <2>7 DEF SnapshotsHold
<1> QED
  BY <1>1, <1>2 DEF FetchPrediction

-----------------------------------------------------------------------------
(* The rows. *)

LEMMA MoreThrough ==
  ASSUME NEW S, NEW T, T \subseteq Posts \ {0}, S \subseteq T
  PROVE  /\ Cardinality(S) \in Nat /\ Cardinality(T) \in Nat
         /\ Cardinality(S) <= Cardinality(T)
         /\ \A p \in T \ S : Cardinality(S) + 1 <= Cardinality(T)
<1>1. IsFiniteSet(T) /\ IsFiniteSet(S)
  BY PostsAreFew
<1>2. Cardinality(S) \in Nat /\ Cardinality(T) \in Nat /\ Cardinality(S) <= Cardinality(T)
  BY <1>1, FS_Subset, FS_CardinalityType
<1>3. ASSUME NEW p \in T \ S PROVE Cardinality(S) + 1 <= Cardinality(T)
  <2>1. IsFiniteSet(S \cup {p}) /\ Cardinality(S \cup {p}) = Cardinality(S) + 1
    BY <1>1, <1>3, FS_AddElement
  <2>2. S \cup {p} \subseteq T
    BY <1>3
  <2>3. Cardinality(S \cup {p}) <= Cardinality(T)
    BY <1>1, <2>2, FS_Subset
  <2> QED
    BY <2>1, <2>3
<1> QED
  BY <1>2, <1>3

LEMMA ThroughPosts == \A d, t : GivenUpOn(d, t) \subseteq Posts \ {0}
  BY DEF GivenUpOn

LEMMA ThroughPostsNext == \A d, t : GivenUpOn(d, t)' \subseteq Posts \ {0}
  BY DEF GivenUpOn

\* No row is added and no post that is through is lost.
LEMMA RowsCarried ==
  ASSUME TypeOK, RowsHold, rows' = rows,
         \A d \in Devices, t \in Days :
           /\ GivenUpOn(d, t) \subseteq GivenUpOn(d, t)'
           /\ posts'[0].dev = d /\ posts'[0].day = t /\ posts'[0].stage = "insert"
                => \/ rows[d][t] = 0
                   \/ posts[0].dev = d /\ posts[0].day = t /\ posts[0].stage = "insert"
  PROVE  RowsHold'
<1> SUFFICES ASSUME NEW d \in Devices, NEW t \in Days
             PROVE  /\ rows'[d][t] <= 1 + Cardinality(GivenUpOn(d, t)')
                    /\ posts'[0].dev = d /\ posts'[0].day = t /\ posts'[0].stage = "insert"
                         => rows'[d][t] <= Cardinality(GivenUpOn(d, t)')
  BY DEF RowsHold
<1>1. /\ Cardinality(GivenUpOn(d, t)) \in Nat /\ Cardinality(GivenUpOn(d, t)') \in Nat
      /\ Cardinality(GivenUpOn(d, t)) <= Cardinality(GivenUpOn(d, t)')
  BY MoreThrough, ThroughPostsNext
<1>2. rows[d][t] \in Nat /\ rows'[d][t] = rows[d][t]
  BY TypesRead, BoundsAssumption DEF RowsType
<1>3. rows[d][t] <= 1 + Cardinality(GivenUpOn(d, t))
  BY DEF RowsHold
<1>4. posts[0].dev = d /\ posts[0].day = t /\ posts[0].stage = "insert"
        => rows[d][t] <= Cardinality(GivenUpOn(d, t))
  BY DEF RowsHold
<1>5. rows'[d][t] <= 1 + Cardinality(GivenUpOn(d, t)')
  BY <1>1, <1>2, <1>3
<1>6. ASSUME posts'[0].dev = d, posts'[0].day = t, posts'[0].stage = "insert"
      PROVE  rows'[d][t] <= Cardinality(GivenUpOn(d, t)')
  <2>1. rows[d][t] <= Cardinality(GivenUpOn(d, t))
    BY <1>1, <1>4, <1>6
  <2> QED
    BY <1>1, <1>2, <2>1
<1> QED
  BY <1>5, <1>6

LEMMA RowsCut ==
  ASSUME TypeOK, PostsHold, RowsHold, Fault, posts' = CutOff, rows' = rows
  PROVE  RowsHold'
<1>1. posts'[0].stage = "none"
  BY CutOffTypes DEF NoPost
<1>2. ASSUME NEW d \in Devices, NEW t \in Days, NEW p \in GivenUpOn(d, t)
      PROVE  p \in GivenUpOn(d, t)'
  <2>0. /\ p \in Posts \ {0} /\ posts[p].dev = d /\ posts[p].day = t
        /\ posts[p].stage = "done"
    BY <1>2 DEF GivenUpOn
  <2>f. faults \in Nat
    BY TypesRead, BoundsAssumption
  <2>1. p \in Posts /\ p # 0 /\ posts[p].dev = d /\ d # None /\ p \in Nat /\ faults \in Nat
    BY <2>0, <2>f, Ranges
  <2>2. ~(p > faults)
    BY <2>1 DEF PostsHold
  <2>3. p # faults + 1
    BY <2>1, <2>2
  <2>4. posts'[p] = posts[p]
    BY <2>1, <2>3, CutOffTypes
  <2> QED
    BY <2>0, <2>4 DEF GivenUpOn
<1> QED
  BY <1>1, <1>2, RowsCarried

\* The five actions that touch posts or rows, without the insertion.
LEMMA RowsPosts ==
  ASSUME TypeOK, PostsHold, RowsHold, SnapshotGate \/ SnapshotDone \/ Restart
  PROVE  RowsHold'
<1>r. rows' = rows
  BY DEF SnapshotGate, SnapshotDone, Restart
<1>t. posts \in [Posts -> PostType]
  BY TypesRead
<1>1. CASE Fault /\ posts' = CutOff
  BY <1>1, <1>r, RowsCut
<1>2. CASE posts' = posts
  BY <1>2, <1>r, RowsCarried DEF GivenUpOn
<1>3. ASSUME NEW c \in PostType, c.stage # "insert", posts' = [posts EXCEPT ![0] = c]
      PROVE  RowsHold'
  <2>1. posts'[0] = c /\ \A p \in Posts \ {0} : posts'[p] = posts[p]
    BY <1>t, <1>3, Ranges
  <2>2. \A d, t : GivenUpOn(d, t) \subseteq GivenUpOn(d, t)'
    BY <2>1 DEF GivenUpOn
  <2> QED
    BY <1>r, <1>3, <2>1, <2>2, RowsCarried
<1>4. CASE SnapshotGate
  <2>1. [NoPost EXCEPT !.dev = creds, !.stage = "select"] \in PostType
    BY TypesRead, BlankValues DEF PostType
  <2>2. [NoPost EXCEPT !.dev = creds, !.stage = "select"].stage # "insert"
    BY DEF NoPost
  <2>3. \/ posts' = [posts EXCEPT ![0] = [NoPost EXCEPT !.dev = creds, !.stage = "select"]]
        \/ posts' = posts
    BY <1>4 DEF SnapshotGate
  <2> QED
    BY <1>2, <1>3, <2>1, <2>2, <2>3
<1>5. CASE SnapshotDone
  BY <1>1, <1>3, <1>5, BlankValues DEF SnapshotDone, NoPost
<1>6. CASE Restart
  BY <1>1, <1>2, <1>6 DEF Restart
<1> QED
  BY <1>4, <1>5, <1>6

LEMMA RowsSelect ==
  ASSUME TypeOK, PostsHold, RowsHold, NEW p \in Posts, SelectRow(p)
  PROVE  RowsHold'
<1>1. rows' = rows /\ posts[p].stage = "select"
  BY DEF SelectRow
<1>2. \A d, t : GivenUpOn(d, t) \subseteq GivenUpOn(d, t)'
  BY <1>1, StageMoves DEF GivenUpOn
<1>3. CASE p = 0
  <2>1. /\ posts'[0].dev = posts[0].dev /\ posts'[0].day = day.backend
        /\ posts'[0].stage = "insert" => rows[posts[0].dev][day.backend] = 0
    BY <1>3, StageMoves
  <2> QED
    BY <1>1, <1>2, <2>1, RowsCarried
<1>4. CASE p # 0
  <2>1. posts'[0] = posts[0]
    BY <1>4, StageMoves, Ranges
  <2> QED
    BY <1>1, <1>2, <2>1, RowsCarried
<1> QED
  BY <1>3, <1>4

LEMMA RowsInsert ==
  ASSUME TypeOK, PostsHold, RowsHold, NEW p \in Posts, InsertRow(p)
  PROVE  RowsHold' /\ rows' \in RowsType
<1>0. posts[p].stage = "insert"
  BY DEF InsertRow
<1>1. posts[p].dev \in Devices /\ posts[p].day \in Days
  BY StageMoves
<1>s. posts'[p].stage = "done"
  BY TypesRead DEF InsertRow, PostType
<1>2. \A d, t : GivenUpOn(d, t) \subseteq GivenUpOn(d, t)'
  BY <1>0, StageMoves DEF GivenUpOn
<1>3. ASSUME NEW d \in Devices, NEW t \in Days
      PROVE  /\ rows'[d][t] <= 1 + Cardinality(GivenUpOn(d, t)')
             /\ posts'[0].dev = d /\ posts'[0].day = t /\ posts'[0].stage = "insert"
                  => rows'[d][t] <= Cardinality(GivenUpOn(d, t)')
             /\ rows'[d][t] \in 0..(MaxFaults + 1)
  <2> DEFINE before == Cardinality(GivenUpOn(d, t))
             after == Cardinality(GivenUpOn(d, t)')
  <2>1. before \in Nat /\ after \in Nat /\ before <= after
    BY <1>2, MoreThrough, ThroughPostsNext
  <2>2. after \in 0..MaxFaults
    BY PostsAreFew, ThroughPostsNext
  <2>3. /\ rows[d][t] \in Nat /\ rows[d][t] <= 1 + before
        /\ posts[0].dev = d /\ posts[0].day = t /\ posts[0].stage = "insert"
             => rows[d][t] <= before
    BY TypesRead, BoundsAssumption DEF RowsHold, RowsType
  <2>4. /\ rows'[d][t] \in Nat /\ rows'[d][t] <= 1 + after
        /\ posts'[0].dev = d /\ posts'[0].day = t /\ posts'[0].stage = "insert"
             => rows'[d][t] <= after
    <3>1. CASE d # posts[p].dev \/ t # posts[p].day
      <4>1. rows'[d][t] = rows[d][t]
        BY <1>1, <3>1, RowsMove
      <4>2. posts'[0].dev = d /\ posts'[0].day = t /\ posts'[0].stage = "insert"
              => posts[0].dev = d /\ posts[0].day = t /\ posts[0].stage = "insert"
        BY <1>s, StageMoves, Ranges
      <4> HIDE DEF before, after
      <4> QED
        BY <2>1, <2>3, <4>1, <4>2
    <3>2. CASE d = posts[p].dev /\ t = posts[p].day /\ p = 0
      <4>1. rows'[d][t] = rows[d][t] + 1
        BY <1>1, <3>2, RowsMove
      <4>2. rows[d][t] <= before /\ posts'[0].stage = "done"
        BY <1>0, <1>s, <2>3, <3>2
      <4> HIDE DEF before, after
      <4> QED
        BY <2>1, <2>3, <4>1, <4>2
    <3>3. CASE d = posts[p].dev /\ t = posts[p].day /\ p # 0
      <4>1. rows'[d][t] = rows[d][t] + 1
        BY <1>1, <3>3, RowsMove
      <4>2. p \in GivenUpOn(d, t)' \ GivenUpOn(d, t)
        BY <1>0, <1>s, <3>3, StageMoves DEF GivenUpOn
      <4>3. before + 1 <= after
        BY <1>2, <4>2, MoreThrough, ThroughPostsNext
      <4>4. posts'[0] = posts[0]
        BY <3>3, StageMoves, Ranges
      <4> HIDE DEF before, after
      <4> QED
        BY <2>1, <2>3, <4>1, <4>3, <4>4
    <3> QED
      BY <3>1, <3>2, <3>3
  <2> HIDE DEF before, after
  <2>5. rows'[d][t] \in 0..(MaxFaults + 1)
    BY <2>1, <2>2, <2>4, BoundsAssumption
  <2> QED
    BY <2>4, <2>5 DEF after
<1>4. RowsHold'
  BY <1>3 DEF RowsHold
<1>5. rows' \in RowsType
  <2>1. rows' \in [Devices -> [Days -> Nat]]
    <3>1. rows \in [Devices -> [Days -> Nat]]
      BY TypesRead, BoundsAssumption DEF RowsType
    <3>2. rows' = [rows EXCEPT ![posts[p].dev][posts[p].day] = rows[posts[p].dev][posts[p].day] + 1]
      BY DEF InsertRow
    <3> QED
      BY <1>1, <3>1, <3>2
  <2> QED
    BY <1>3, <2>1 DEF RowsType
<1> QED
  BY <1>4, <1>5

LEMMA TypesBackend ==
  ASSUME TypeOK, PostsHold, RowsHold, NEW p \in Posts, SelectRow(p) \/ InsertRow(p)
  PROVE  TypeOK'
<1>1. posts' \in [Posts -> PostType]
  BY StageMoves
<1>2. rows' \in RowsType
  BY RowsInsert, TypesRead DEF SelectRow
<1>3. UNCHANGED <<agent, creds, shown, memory, store, file, issued, enrolled, day, faults>>
  BY DEF SelectRow, InsertRow
<1> QED
  BY <1>1, <1>2, <1>3, TypesRead, TypesWritten DEF hang, agent, store

-----------------------------------------------------------------------------
(* The invariant. *)

LEMMA HoldsStep ==
  ASSUME Holds, Next
  PROVE  Holds'
<1>h. TypeOK /\ IdentitiesGrow /\ PostsHold /\ SnapshotsHold /\ RowsHold
  BY DEF Holds
<1>d. pc = "predicting" => cycle.asked \in Devices
  BY <1>h DEF SnapshotsHold
<1>1. CASE \/ StartCycle \/ Load \/ Calls \/ Command \/ HardwareDue \/ SignFingerprint
           \/ PostHardwareCheck \/ PredictionGate \/ FetchPrediction \/ HourlyGate \/ RunChecks
           \/ WithTimeout \/ Hang \/ Wipe \/ BackendUrlUpdate \/ IntervalOver \/ NextDay
  <2>1. TypeOK'
    BY <1>1, <1>h, <1>d, TypesIdentity, TypesLoad, TypesCalls, TypesHardware, TypesPrediction,
       TypesHourly, TypesTrouble
  <2>2. IdentitiesGrow'
    BY <1>1, <1>h, IdentitiesEnrol, IdentitiesCalls, IdentitiesElsewhere
  <2>3. /\ UNCHANGED <<posts, rows>> /\ faults' \in {faults, faults + 1}
        /\ pc' = "snapping" => pc = "snapping" /\ cycle' = cycle
        /\ pc' = "predicting" => (pc = "predicting" /\ cycle' = cycle) \/ PredictionGate
        /\ metrics' = metrics \/ FetchPrediction
    BY <1>1, <1>h, FaultsElsewhere
  <2>4. PostsHold' /\ RowsHold'
    BY <1>h, <2>3, PostsElsewhere
  <2>5. SnapshotsHold'
    <3>1. CASE PredictionGate
      BY <1>h, <3>1, SnapshotsGate
    <3>2. CASE FetchPrediction
      BY <1>h, <3>2, SnapshotsFetch
    <3>3. CASE ~PredictionGate /\ ~FetchPrediction
      BY <1>h, <2>3, <3>3, SnapshotsElsewhere
    <3> QED
      BY <3>1, <3>2, <3>3
  <2> QED
    BY <2>1, <2>2, <2>4, <2>5 DEF Holds
<1>2. CASE SnapshotGate
  <2>1. TypeOK' /\ IdentitiesGrow' /\ PostsHold' /\ RowsHold'
    BY <1>2, <1>h, TypesGate, IdentitiesElsewhere, PostsGate, RowsPosts
  <2>2. pc' # "predicting" /\ metrics' = metrics /\ rows' = rows
    BY <1>2 DEF SnapshotGate, store
  <2>3. SnapshotsHold'
    BY <1>h, <2>2, SnapshotsElsewhere
  <2> QED
    BY <2>1, <2>3 DEF Holds
<1>3. CASE SnapshotDone
  <2>1. TypeOK' /\ IdentitiesGrow' /\ PostsHold' /\ RowsHold' /\ SnapshotsHold'
    BY <1>3, <1>h, TypesSnapshot, IdentitiesElsewhere, PostsEnd, RowsPosts, SnapshotsDone
  <2> QED
    BY <2>1 DEF Holds
<1>4. CASE Restart
  <2>1. TypeOK' /\ IdentitiesGrow' /\ PostsHold' /\ RowsHold'
    BY <1>4, <1>h, TypesTrouble, IdentitiesElsewhere, PostsEnd, RowsPosts
  <2>2. pc' # "predicting" /\ metrics' = metrics /\ rows' = rows
    BY <1>4 DEF Restart, store
  <2>3. SnapshotsHold'
    BY <1>h, <2>2, SnapshotsElsewhere
  <2> QED
    BY <2>1, <2>3 DEF Holds
<1>5. CASE Backend
  <2>1. PICK p \in Posts : SelectRow(p) \/ InsertRow(p)
    BY <1>5 DEF Backend
  <2>2. TypeOK' /\ PostsHold' /\ RowsHold'
    BY <1>h, <2>1, TypesBackend, PostsBackend, RowsSelect, RowsInsert
  <2>3. IdentitiesGrow'
    BY <1>5, <1>h, IdentitiesElsewhere
  <2>4. pc' = pc /\ cycle' = cycle /\ metrics' = metrics
    BY <2>1 DEF SelectRow, InsertRow, agent, store
  <2>5. \A d \in Devices, t \in Days : rows[d][t] > 0 => rows'[d][t] > 0
    <3>1. CASE SelectRow(p)
      BY <3>1 DEF SelectRow
    <3>2. CASE InsertRow(p)
      <4>1. posts[p].dev \in Devices /\ posts[p].day \in Days
        BY <1>h, <2>1, StageMoves
      <4>2. \A d \in Devices, t \in Days :
              rows[d][t] \in Nat /\ rows'[d][t] \in {rows[d][t], rows[d][t] + 1}
        BY <1>h, <3>2, <4>1, RowsMove
      <4> QED
        BY <4>2
    <3> QED
      BY <2>1, <3>1, <3>2
  <2>6. SnapshotsHold'
    BY <1>h, <2>4, <2>5, SnapshotsElsewhere
  <2> QED
    BY <2>2, <2>3, <2>6 DEF Holds
<1> QED
  BY <1>1, <1>2, <1>3, <1>4, <1>5 DEF Next, Cycle

LEMMA HoldsStutter ==
  ASSUME Holds, UNCHANGED vars
  PROVE  Holds'
<1>h. TypeOK /\ IdentitiesGrow /\ PostsHold /\ SnapshotsHold /\ RowsHold
  BY DEF Holds
<1>u. /\ UNCHANGED <<pc, cycle, hung, hangs, creds, shown, memory, cache, metrics, file, issued>>
      /\ UNCHANGED <<posts, rows, enrolled, day, faults>>
  BY DEF vars, agent, hang, store, server
<1>1. TypeOK'
  BY <1>h, <1>u, TypesRead, TypesWritten
<1>2. IdentitiesGrow'
  BY <1>h, <1>u, AskingGrows
<1>3. PostsHold' /\ RowsHold'
  BY <1>h, <1>u, PostsElsewhere
<1>4. SnapshotsHold'
  BY <1>h, <1>u, SnapshotsElsewhere
<1> QED
  BY <1>1, <1>2, <1>3, <1>4 DEF Holds

LEMMA HoldsAlways == Spec => []Holds
<1>1. Holds /\ [Next]_vars => Holds'
  BY HoldsStep, HoldsStutter
<1> QED
  BY <1>1, HoldsInitially, PTL DEF Spec

\* Type correctness of the backend cycle, the days' rows in the database included:
\* a device never has more rows for a day than there were faults, and one.
THEOREM CycleTypes == Spec => []TypeOK
<1>1. Holds => TypeOK
  BY DEF Holds
<1> QED
  BY <1>1, HoldsAlways, PTL

\* What may be relied on of the cycle's records (resolveEntitlementState, runBackendCycle,
\* recordMetricSnapshot): an entitlement of another identity is shown only of an earlier
\* one and with the cache saying the same, a prediction filed under a day was called for
\* by a snapshot of that day and has its row if it is about the same device, and each row
\* of a day but one is accounted for by a post given up on that the backend finished.
THEOREM CycleRecordsAreTraceable == Spec => []RecordsAreTraceable
<1>1. Holds => RecordsAreTraceable
  BY DEF Holds, IdentitiesGrow, SnapshotsHold, RowsHold, RowsArePaidFor, RecordsAreTraceable
<1> QED
  BY <1>1, HoldsAlways, PTL

\* Within a process no failed check takes a result away: the hardware verdict and the
\* results of the checks that are not bundles stay until they are replaced
\* (postHardwareCheck and the hourly checks assign only what they got).
THEOREM CycleKeepsResults == Spec => ResultsAreKept
<1> DEFINE Kept == memory' # Fresh =>
             /\ shown.hardware # None => shown'.hardware # None
             /\ shown.checks \ BundledChecks \subseteq shown'.checks
<1>1. ASSUME TypeOK, [Next]_vars PROVE Kept
  <2>t. shown \in ShownType
    BY <1>1, TypesRead
  <2>1. CASE shown'.hardware = shown.hardware /\ shown'.checks = shown.checks
    BY <2>1
  <2>2. CASE Load
    <3>1. \/ shown' = shown
          \/ shown' = [shown EXCEPT !.entitlement = NoEntitlement]
      BY <2>2 DEF Load
    <3> QED
      BY <2>1, <2>t, <3>1 DEF ShownType
  <2>3. CASE Calls
    <3>1. PICK e \in Entitlements : shown' = shown \/ Resolve(e)
      BY <2>3 DEF Calls
    <3>2. shown'.hardware = shown.hardware /\ shown'.checks = shown.checks
      BY <2>t, <3>1 DEF Resolve, ShownType
    <3> QED
      BY <2>1, <3>2
  <2>4. CASE PostHardwareCheck
    BY <2>4, <2>t DEF PostHardwareCheck, ShownType
  <2>5. CASE SnapshotDone
    <3>1. shown'.hardware = shown.hardware /\ shown'.checks = shown.checks
      BY <2>5, <2>t DEF SnapshotDone, ShownType
    <3> QED
      BY <2>1, <3>1
  <2>6. CASE FetchPrediction
    <3>1. shown'.hardware = shown.hardware /\ shown'.checks = shown.checks
      BY <2>6, <2>t DEF FetchPrediction, ShownType
    <3> QED
      BY <2>1, <3>1
  <2>7. CASE RunChecks
    <3>1. PICK results \in SUBSET Checked :
            \E lost \in SUBSET (results \cap BundledChecks) :
              shown' = [shown EXCEPT !.checks = (shown.checks \cup results) \ lost]
      BY <2>7 DEF RunChecks
    <3>2. PICK lost \in SUBSET (results \cap BundledChecks) :
            shown' = [shown EXCEPT !.checks = (shown.checks \cup results) \ lost]
      BY <3>1
    <3>3. shown'.hardware = shown.hardware /\ shown'.checks = (shown.checks \cup results) \ lost
      BY <2>t, <3>2 DEF ShownType
    <3> QED
      BY <3>3
  <2>8. CASE Restart
    BY <2>8 DEF Restart
  <2>9. CASE UNCHANGED vars
    BY <2>1, <2>9 DEF vars
  <2>10. CASE \/ StartCycle \/ Command \/ HardwareDue \/ SignFingerprint \/ SnapshotGate
              \/ PredictionGate \/ HourlyGate \/ WithTimeout \/ Backend \/ Hang \/ Wipe
              \/ BackendUrlUpdate \/ IntervalOver \/ NextDay
    <3>1. shown' = shown
      BY <2>10 DEF StartCycle, Command, HardwareDue, SignFingerprint, SnapshotGate, PredictionGate,
         HourlyGate, WithTimeout, Backend, SelectRow, InsertRow, Hang, Wipe, BackendUrlUpdate,
         IntervalOver, NextDay
    <3> QED
      BY <2>1, <3>1
  <2> QED
    BY <1>1, <2>2, <2>3, <2>4, <2>5, <2>6, <2>7, <2>8, <2>9, <2>10 DEF Next, Cycle
<1>2. TypeOK /\ [Next]_vars => [Kept]_vars
  BY <1>1
<1> QED
  BY <1>2, CycleTypes, PTL DEF Spec, ResultsAreKept
=============================================================================
