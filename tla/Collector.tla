------------------------------- MODULE Collector -------------------------------
(***************************************************************************)
(* The agent's 5 s collection (local-agent/server/telemetry-server.mjs     *)
(* collect): the PowerShell script, LibreHardwareMonitor, rust-collector   *)
(* with HWiNFO inside it and the hourly fallbacks are merged into the      *)
(* cache, reasons are attached to what is missing, and changes in the      *)
(* availability of the optional sources become events.                     *)
(*                                                                         *)
(* A reading is a pair of a source and a field; a merged field holds the   *)
(* source its value came from.  After the Promise.all of the three sources *)
(* nothing awaits, so a collection is one step.                            *)
(*                                                                         *)
(* The specification is called CollectorSpec, its parts likewise, so that  *)
(* a module can extend this one together with EventChain.                  *)
(***************************************************************************)
EXTENDS Integers

CONSTANTS
  Families, \* sets of readings; one family is there in a collection, they merge apart
  Window,   \* collections in RUST_DEGRADED_ESCALATION_MS
  Null      \* no value

Sources == {"ps", "rust", "lhm", "hwinfo", "wmi", "hourly"}
Fields == {"cpu", "secureBoot", "bitlocker", "tpm", "tpmVersion", "capacity", "health",
           "batteryTemp", "cycles", "wear", "fan", "board", "gpuTemp"}

\* Besides the fields: lists of display adapters with and without names and of
\* network adapters, rust's battery and SMART objects themselves, HWiNFO's,
\* BitLocker's "unknown", the powercfg report, the sources' own reasons for a
\* missing wear reading, a fan that stands still, a temperature that reads 0.
Marks == {"gpu", "gpuBlank", "network", "battery", "smart", "attached", "unknown", "report",
          "wearReason", "parked", "boardZero", "gpuTempZero"}

\* What each source has a reading of; the script no longer reads the TPM.
Printed ==
  [ps |-> {"cpu", "secureBoot", "capacity", "wear", "cycles", "gpu", "network", "report", "wearReason"},
   rust |-> {"cpu", "secureBoot", "capacity", "wear", "cycles", "gpu", "gpuBlank", "network", "wearReason",
             "smart", "battery", "batteryTemp", "tpm", "bitlocker", "unknown"},
   lhm |-> {"fan", "parked", "board", "boardZero", "gpuTemp", "gpuTempZero", "health", "batteryTemp"},
   hwinfo |-> {"attached", "fan", "board", "boardZero"},
   wmi |-> {"fan"},
   hourly |-> {"tpm", "tpmVersion", "bitlocker"}]

ASSUME FamiliesAssumption ==
  \A fam \in Families : fam \subseteq Sources \X (Fields \cup Marks) /\ \A r \in fam : r[2] \in Printed[r[1]]
ASSUME WindowAssumption == Window \in Nat \ {0}
ASSUME NullAssumption == Null \notin Sources

VARIABLES
  rust,   \* lastRustOutcome, the collections of this streak without it, rustDegradedEscalated
  cache,  \* what /api/telemetry serves: the last data merged and whether an error stands
  got,    \* the readings that data was merged from (history)
  raised  \* last event about rust, the outcome before the present one, criticals of the
          \* streak (history)

collectorVars == <<rust, cache, got, raised>>

Outcomes == {"ok", "unavailable", "invalid-json"}
NoData == [value |-> [f \in Fields |-> Null], gpu |-> {}, network |-> {}, why |-> {}]

CollectorInit ==
  /\ rust = [last |-> "none", down |-> 0, escalated |-> FALSE]
  /\ cache = [data |-> NoData, error |-> FALSE]
  /\ got = {}
  /\ raised = [about |-> "none", before |-> "none", criticals |-> 0]

-----------------------------------------------------------------------------
(* What can arrive: a source that did not answer contributes nothing, and a *)
(* source explains a missing reading only where it has none.                *)

\* fetchHardwareMonitor: null when LibreHardwareMonitor is not reachable.
HardwareMonitor(up) == IF up THEN {"lhm"} ELSE {}

Answering(out, up) ==
  {"ps", "wmi", "hourly"} \cup HardwareMonitor(up)
                          \cup (IF out = "ok" THEN {"rust", "hwinfo"} ELSE {})

\* What rust-collector and the script print: a wear value, or the reason why not.
Possible(h) ==
  /\ <<"rust", "wear">> \in h => <<"rust", "smart">> \in h
  /\ <<"rust", "wearReason">> \in h => <<"rust", "smart">> \notin h
  /\ ~({<<"ps", "wear">>, <<"ps", "wearReason">>} \subseteq h)
  /\ \A f \in {"cycles", "capacity", "batteryTemp"} : <<"rust", f>> \in h => <<"rust", "battery">> \in h
  /\ \A f \in {"fan", "board"} : <<"hwinfo", f>> \in h => <<"hwinfo", "attached">> \in h
  /\ <<"rust", "unknown">> \in h => <<"rust", "bitlocker">> \notin h
  /\ \A s \in Sources : (<<s, "boardZero">> \in h => <<s, "board">> \in h)
                        /\ (<<s, "gpuTempZero">> \in h => <<s, "gpuTemp">> \in h)

-----------------------------------------------------------------------------
(* Merging: which source each field takes, given the readings h. *)

\* The first source of the order that has the field.
First(h, f, order) ==
  LET has == {i \in DOMAIN order : <<order[i], f>> \in h}
  IN  IF has = {} THEN Null ELSE order[CHOOSE i \in has : \A j \in has : i <= j]

\* mergeNonNull.  Mutant of Refined: Object.assign, whose nulls cover the script's values.
RefinedAssign(h, out, f) ==
  IF out = "ok" THEN First(h, f, <<"rust">>) ELSE First(h, f, <<"ps">>)
Refined(h, out, f) == First(h, f, <<"rust", "ps">>)

\* translateRustBitlockerStatus, then the hourly fallback: rust's "unknown" is
\* already a value ("Unknown") and keeps the fallback out.
Bitlocker(h) ==
  IF <<"rust", "unknown">> \in h THEN "rust" ELSE First(h, "bitlocker", <<"rust", "hourly">>)

\* The script no longer reads the TPM, so the fallback's object, the only one
\* with a ManufacturerVersion, is used whole or not at all.
TpmVersion(h) ==
  IF <<"rust", "tpm">> \in h THEN Null ELSE First(h, "tpmVersion", <<"hourly">>)

\* Union by display name; rows without a name add nothing and take nothing.
Adapters(h) == {s \in {"ps", "rust"} : <<s, "gpu">> \in h}

\* Network adapters are not joined: rust's list, if it has any, replaces the
\* script's.  Mutant of Network: an empty list of rust's replaces it too.
NetworkAlways(h, out) ==
  {s \in {"ps", "rust"} : <<s, "network">> \in h /\ (s = "ps" => out # "ok")}
Network(h, out) ==
  {s \in {"ps", "rust"} : <<s, "network">> \in h /\ (s = "ps" => <<"rust", "network">> \notin h)}

\* With a battery from rust its verdict on the count stands, null included.
Cycles(h) ==
  IF <<"rust", "battery">> \in h THEN First(h, "cycles", <<"rust">>)
                                 ELSE First(h, "cycles", <<"ps">>)

\* mergeHwInfoIntoHardwareMonitor: LibreHardwareMonitor first, never one
\* source's null over another's value.
Sensor(h, f) == First(h, f, <<"lhm", "hwinfo">>)

Or(a, b) == IF a = Null THEN b ELSE a

\* The fastest of LibreHardwareMonitor's fans; one that stands still, or whose
\* speed is out of range ("parked"), is no reading.
PickBestFan(h) == First(h, "fan", <<"lhm">>)

\* Mutant of Fan: an empty Win32_Fan is read as a speed of its own.
FanOrZero(h) == Or(Or(PickBestFan(h), First(h, "fan", <<"hwinfo", "wmi">>)), "zero")
Fan(h) == Or(PickBestFan(h), First(h, "fan", <<"hwinfo", "wmi">>))

\* batteryHealthFromTelemetry: the two capacities, powercfg's report, LHM.
Health(h, out) ==
  Or(Refined(h, out, "capacity"),
     IF <<"ps", "report">> \in h THEN "ps" ELSE First(h, "health", <<"lhm">>))

Merged(h, out) ==
  [cpu |-> Refined(h, out, "cpu"), secureBoot |-> Refined(h, out, "secureBoot"),
   capacity |-> Refined(h, out, "capacity"), health |-> Health(h, out),
   wear |-> Refined(h, out, "wear"), bitlocker |-> Bitlocker(h),
   tpm |-> First(h, "tpm", <<"rust", "hourly">>), tpmVersion |-> TpmVersion(h),
   cycles |-> Cycles(h), fan |-> Fan(h), board |-> Sensor(h, "board"),
   gpuTemp |-> First(h, "gpuTemp", <<"lhm">>),
   batteryTemp |-> First(h, "batteryTemp", <<"lhm", "rust">>)]

\* Reasons: for the sensors when the merged reading is null or 0; for the
\* battery's two when rust described a battery; for wear rust's word replaces
\* the script's.
WearReason(h) ==
  IF <<"rust", "smart">> \in h THEN {}
  ELSE IF \E s \in {"ps", "rust"} : <<s, "wearReason">> \in h THEN {"wear"} ELSE {}

BatteryReasons(h, v) ==
  IF <<"rust", "battery">> \in h
  THEN {f \in {"cycles", "batteryTemp"} : v[f] = Null}
  ELSE {}

\* The source s read 0 for f; a fan's 0 is no reading to begin with.
ReadsZero(h, f, s) ==
  \/ f = "board" /\ <<s, "boardZero">> \in h
  \/ f = "gpuTemp" /\ <<s, "gpuTempZero">> \in h

\* Mutant of SensorReasons: judged before the WMI fan is tried.
SensorReasonsEarly(h, v) ==
  {f \in {"fan", "board", "gpuTemp"} : v[f] \in {Null, "wmi"}}
SensorReasons(h, v) ==
  {f \in {"fan", "board", "gpuTemp"} : v[f] = Null \/ ReadsZero(h, f, v[f])}

Payload(h, out) ==
  LET v == Merged(h, out)
  IN  [value |-> v, gpu |-> Adapters(h), network |-> Network(h, out),
       why |-> WearReason(h) \cup BatteryReasons(h, v) \cup SensorReasons(h, v)]

\* putDetail: a field without a value is left out.
PutDetail(d, fields) == {<<"value", f>> : f \in {g \in fields : d.value[g] # Null}}

\* putReason: every reason there is, beside a value or not.
PutReason(d, fields) == {<<"why", f>> : f \in d.why \cap fields}

\* extractLiveStatusFields: the headline figures, then the detail.
Headline(d) == PutDetail(d, {"cpu"})

\* The display adapter: a discrete one, else any real one, else the first.
Adapter(d) == IF d.gpu = {} THEN {} ELSE {<<"value", "gpu">>}

\* securityFromTelemetry: the share of the known checks that pass.
Security(d) ==
  LET checks == PutDetail(d, {"tpm", "secureBoot", "bitlocker"})
  IN  IF checks = {} THEN {} ELSE checks \cup {<<"value", "security">>}

\* The fan's speed and its reason stay on the device.
Live(d) ==
  LET fields == Fields \ {"cpu", "tpm", "secureBoot", "bitlocker", "fan", "tpmVersion", "capacity"}
  IN  Headline(d) \cup Adapter(d) \cup Security(d) \cup PutDetail(d, fields) \cup PutReason(d, fields)

-----------------------------------------------------------------------------
(* Availability of the sources. *)

\* The streak and its one escalation.  Mutant of Streak: no flag.
StreakUnflagged(out) ==
  IF out = "ok" THEN [last |-> out, down |-> 0, escalated |-> FALSE]
  ELSE [last |-> out, down |-> IF rust.down > Window THEN rust.down ELSE rust.down + 1,
        escalated |-> FALSE]
Streak(out) ==
  IF out = "ok" THEN [last |-> out, down |-> 0, escalated |-> FALSE]
  ELSE LET d == IF rust.down > Window THEN rust.down ELSE rust.down + 1
       IN  [last |-> out, down |-> d, escalated |-> rust.escalated \/ d > Window]

\* The events; the first outcome of a process is not a change.  Mutant of
\* EventAbout: lastRustOutcome is assigned before it is compared.
EventAboutLate(out) ==
  IF out = rust.last \/ rust.last = "none" THEN raised.about
  ELSE IF out = "unavailable" THEN "unavailable" ELSE raised.about
EventAbout(out) ==
  IF out = rust.last \/ rust.last = "none" THEN raised.about
  ELSE CASE out = "unavailable" -> "unavailable"
         [] out = "ok" /\ rust.last = "unavailable" -> "available"
         [] OTHER -> raised.about

Availability(out) ==
  LET r == Streak(out)
  IN  /\ rust' = r
      /\ raised' =
           [about |-> EventAbout(out),
            before |-> IF out = rust.last THEN raised.before ELSE rust.last,
            criticals |-> IF out = "ok" THEN 0
                          ELSE raised.criticals + IF r.down > Window /\ ~rust.escalated THEN 1 ELSE 0]

-----------------------------------------------------------------------------
(* collect *)

\* Valid JSON on stdout is a success whatever the exit code.  What throws once
\* the data is merged leaves it there under an error.
Collect ==
  \E out \in Outcomes, up \in BOOLEAN, fam \in Families :
    \E h \in SUBSET fam :
      /\ \A r \in h : r[1] \in Answering(out, up)
      /\ Possible(h)
      /\ Availability(out)
      /\ cache' \in [data : {Payload(h, out)}, error : BOOLEAN]
      /\ got' = h

\* No JSON, or JSON that cannot be merged: the last data stays, under an error.
CollectFailed ==
  \E out \in Outcomes :
    /\ Availability(out)
    /\ cache' = [cache EXCEPT !.error = TRUE]
    /\ UNCHANGED got

\* The process starts again: everything above is in memory.
Restart ==
  /\ rust' = [last |-> "none", down |-> 0, escalated |-> FALSE]
  /\ cache' = [data |-> NoData, error |-> FALSE]
  /\ got' = {}
  /\ raised' = [about |-> "none", before |-> "none", criticals |-> 0]

CollectorNext == Collect \/ CollectFailed \/ Restart

CollectorSpec == CollectorInit /\ [][CollectorNext]_collectorVars

-----------------------------------------------------------------------------
(* Properties *)

CollectorTypeOK ==
  /\ rust \in [last : Outcomes \cup {"none"}, down : 0..Window + 1, escalated : BOOLEAN]
  /\ cache \in [data : [value : [Fields -> Sources \cup {Null}], gpu : SUBSET {"ps", "rust"},
                         network : SUBSET {"ps", "rust"}, why : SUBSET Fields], error : BOOLEAN]
  /\ got \subseteq UNION Families
  /\ raised \in [about : {"none", "unavailable", "available"}, before : Outcomes \cup {"none"},
                 criticals : Nat]

Had(f) == \E s \in Sources : <<s, f>> \in got

\* The data served, also under an error and whatever failed since, is that of
\* one collection: it has a value for every field some source had read, and
\* the value is one that its source read.  The code's exceptions, all of them
\* rust-collector's: Windows' cycle count is lost where rust described the
\* battery, the TPM's version where rust read the TPM, the script's network
\* adapters where rust listed any, and an On or Off of BitLocker's hourly check
\* where rust said "unknown" (mergeNonNull, mergeRustData,
\* mergeHwInfoIntoHardwareMonitor, the error paths of collect).
NoReadingLost ==
  LET d == cache.data
  IN  /\ \A f \in Fields : d.value[f] = Null /\ Had(f) =>
             \/ f = "cycles" /\ <<"rust", "battery">> \in got
             \/ f = "tpmVersion" /\ <<"rust", "tpm">> \in got
      /\ \A f \in Fields \ {"health"} : d.value[f] # Null =>
             \/ <<d.value[f], f>> \in got
             \/ f = "bitlocker" /\ <<"rust", "unknown">> \in got
      /\ d.value["health"] # Null =>
             \E f \in {"capacity", "health", "report"} : <<d.value["health"], f>> \in got
      /\ \A s \in {"ps", "rust"} : <<s, "gpu">> \in got => s \in d.gpu
      /\ \A s \in {"ps", "rust"} : <<s, "network">> \in got =>
             s \in d.network \/ <<"rust", "network">> \in got

\* What reaches the dashboard either shows or explains a sensor.  A reading
\* carries a reason as well in two cases only: the script's wear value beside
\* rust's account of its own failure, and a temperature that reads 0, which
\* the code takes for none (putDetail, putReason and the reasons collect and
\* mergeRustData attach).
ReasonsFitGaps ==
  /\ \A f \in Fields : {<<"value", f>>, <<"why", f>>} \subseteq Live(cache.data) =>
         f = "wear" \/ ReadsZero(got, f, cache.data.value[f])
  /\ got # {} => \A f \in {"board", "gpuTemp"} : {<<"value", f>>, <<"why", f>>} \cap Live(cache.data) # {}
  /\ cache.data.value["fan"] # Null => "fan" \notin cache.data.why
  /\ "wear" \in cache.data.why /\ cache.data.value["wear"] # Null
       => cache.data.value["wear"] = "ps" /\ <<"rust", "wearReason">> \in got

\* A streak without rust-collector raises its critical event exactly once,
\* when the window has passed, and a new streak is entitled to its own
\* (rustUnavailableSinceMs, rustDegradedEscalated).
EscalatesOnce == raised.criticals = IF rust.down > Window THEN 1 ELSE 0

\* An outage that was reported is reported over when rust-collector answers
\* again, unless its last failure was unreadable output: that path from
\* unavailable back to ok raises nothing (collect's transition events).
OutageIsClosed ==
  raised.about = "unavailable" /\ rust.last = "ok" => raised.before = "invalid-json"

\* But for the exceptions the two parts name, the merge neither loses a reading
\* of one source to another nor explains away one that is there.
ReadingsAreFaithful == NoReadingLost /\ ReasonsFitGaps

\* An outage of rust-collector escalates once and is reported over.
OutagesAreReported == EscalatesOnce /\ OutageIsClosed

-----------------------------------------------------------------------------
(* What comments of the code say and the code does not do.  No run checks   *)
(* these; TLC finds a counterexample to each.                               *)

\* "combined into one honest reason only when all three genuinely came up empty",
\* which the board's reason "mirrors": a temperature of 0 was a reading
\* (collect, the reasons of the sensors).
ReasonMeansNoReading == \A f \in {"fan", "board", "gpuTemp"} : f \in cache.data.why => ~Had(f)
=============================================================================
