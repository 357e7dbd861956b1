------------------------------- MODULE Dashboard -------------------------------
(***************************************************************************)
(* What the desktop application concludes from one snapshot: the           *)
(* derivations of frontend/src/app/lib/derived.ts, the verdicts the cards  *)
(* of App.tsx draw from them, and the daily history of useTrendHistory.ts. *)
(*                                                                         *)
(* The telemetry hook keeps the last snapshot when the agent goes away and *)
(* only lowers connected, so every verdict has to ask for it.  A snapshot  *)
(* is a record of the readings the verdicts use; Null is a reading the     *)
(* agent does not have.  Layout, colours and wording are left out, except  *)
(* that a verdict is known by its label.                                   *)
(*                                                                         *)
(* The specification is called DashboardSpec, its parts likewise, so that  *)
(* a module can extend this one together with Console.                     *)
(***************************************************************************)
EXTENDS Integers, Sequences, FiniteSets, FiniteSetsExt, SequencesExt

CONSTANTS
  Snapshots,      \* what a poll can return
  ThresholdSets,  \* thresholds the user may have set
  Days,           \* days the clock may show, as day numbers
  MaxEntries,     \* MAX_ENTRIES of the history
  SkippedGpus,    \* display adapters GPU_SKIP_RE matches
  DiscreteGpus,   \* those the pattern of a discrete card matches
  Null            \* null

ASSUME HistoryAssumption == Days \subseteq Nat /\ MaxEntries \in Nat \ {0}

\* What the readings are: counts and percentages, the memory in use in tenths of a percent,
\* temperatures, their distance to the limit and the drive's own limits, and flags; any of
\* them may be missing.
Amounts == {"load", "mem", "wmi", "report", "lhm", "wear", "used", "util", "signal", "updates"}
Sensors == {"cpuTemp", "gpuTemp", "ssdTemp", "boardTemp", "dimmTemp"}
Flags == {"tpm", "secureBoot", "biosUpdate"}
ElevatedRisks == {"Medium", "High", "already-past-threshold"}
ASSUME NullAssumption == Null \notin Int \cup BOOLEAN \cup ElevatedRisks
ASSUME ReadingsAssumption ==
  \A s \in Snapshots :
    /\ \A f \in Amounts : s[f] \in Nat \cup {Null}
    /\ \A f \in Sensors \cup {"zone", "margin", "opLimit", "criticalLimit"} : s[f] \in Int \cup {Null}
    /\ \A f \in Flags : s[f] \in BOOLEAN \cup {Null}
ASSUME ThresholdsAssumption ==
  \A t \in ThresholdSets : \A f \in {"cpu", "memory", "cpuTemp", "batteryHealth"} :
    t[f].warning \in Int /\ t[f].critical \in Int

VARIABLES
  data,        \* the last snapshot, kept while disconnected; Null before the first
  connected,
  thresholds,
  today,
  trend        \* the health-score history: a sequence of [date, value]

dashboardVars == <<data, connected, thresholds, today, trend>>

Round(n, d) == (2 * n + d) \div (2 * d)
Real(v) == v # Null
FirstReal(values) ==
  LET real == {i \in DOMAIN values : Real(values[i])} IN IF real = {} THEN Null ELSE values[Min(real)]

-----------------------------------------------------------------------------
(* derived.ts: readings *)

\* A reading counts while connected.
Live(field) == IF connected /\ Real(data) THEN data[field] ELSE Null

\* Mutant of getCpuLoad: the kept snapshot is taken for a live one.
CpuLoadKept == IF Real(data) THEN data.load ELSE Null

getCpuLoad == Live("load")
getMemUsedPercent == IF Real(Live("mem")) THEN Round(Live("mem"), 10) ELSE Null
getStorageWearPercent == Live("wear")
getWorstStorageUsedPct == Live("used")

\* WMI, then the battery report, then LibreHardwareMonitor; never mixed.
getBatteryHealthPercent == FirstReal(<<Live("wmi"), Live("report"), Live("lhm")>>)

getBatteryWearPercent ==
  IF Real(getBatteryHealthPercent) THEN 100 - getBatteryHealthPercent ELSE Null

Excess(v) == Max({0, v - 50})

getPerformanceScore ==
  IF ~Real(getCpuLoad) \/ ~Real(getMemUsedPercent) THEN Null
  ELSE Max({0, 100 - (Excess(getCpuLoad) + Excess(getMemUsedPercent)) \div 2})

\* Mutant of SecurityChecks: the TPM speaks for all three.
TpmOnly == {<<"tpm", Live("tpm")>> : f \in {g \in {"tpm"} : Real(Live(g))}}

Signals == {"tpm", "secureBoot", "bitlocker"}
InOrder(f) == IF f = "bitlocker" THEN Live(f) = "On" ELSE Live(f)

\* The security signals there are, each with whether it is in order.
SecurityChecks == {<<f, InOrder(f)>> : f \in {g \in Signals : Real(Live(g))}}

getSecurityHealthPercent ==
  IF SecurityChecks = {} THEN Null
  ELSE Round(100 * Cardinality({c \in SecurityChecks : c[2]}), Cardinality(SecurityChecks))

getSecurityCompliance ==
  [real |-> Real(getSecurityHealthPercent), ok |-> getSecurityHealthPercent = 100]

riskTier(pct) == IF pct < 20 THEN "Low" ELSE IF pct <= 50 THEN "Medium" ELSE "High"

thermalRiskFromMargin(margin) ==
  IF margin > 30 THEN "Low" ELSE IF margin >= 15 THEN "Moderate" ELSE "High"

-----------------------------------------------------------------------------
(* derived.ts: badges of the dashboard's cards *)

\* One of the readings is beyond its line, at it or beyond, or under it.
SomeBeyond(pairs) == \E p \in pairs : Real(p[1]) /\ p[1] > p[2]
SomeAt(pairs) == \E p \in pairs : Real(p[1]) /\ p[1] >= p[2]
SomeUnder(pairs) == \E p \in pairs : Real(p[1]) /\ p[1] < p[2]

\* The label from the readings that are beyond a critical and a warning line.
Verdict(readings, critical, warning) ==
  IF \A v \in readings : v = Null THEN "Unknown"
  ELSE IF critical THEN "Critical" ELSE IF warning THEN "Warning" ELSE "Healthy"

CpuLines(field) == {<<getCpuLoad, thresholds.cpu[field]>>, <<Live("cpuTemp"), thresholds.cpuTemp[field]>>}

\* Mutant of getCpuBadge: the temperature is forgotten.
CpuBadgeLoadOnly ==
  Verdict({getCpuLoad}, SomeBeyond({<<getCpuLoad, thresholds.cpu.critical>>}),
          SomeAt({<<getCpuLoad, thresholds.cpu.warning>>}))

getCpuBadge ==
  Verdict({getCpuLoad, Live("cpuTemp")}, SomeBeyond(CpuLines("critical")), SomeAt(CpuLines("warning")))

\* Judged by the rounded percentage.
getMemoryBadge ==
  Verdict({getMemUsedPercent}, SomeBeyond({<<getMemUsedPercent, thresholds.memory.critical>>}),
          SomeAt({<<getMemUsedPercent, thresholds.memory.warning>>}))

\* The fullest volume and the drive's wear, which reads as health 100 - wear.
getStorageBadge ==
  LET used == getWorstStorageUsedPct
      health == IF Real(getStorageWearPercent) THEN 100 - getStorageWearPercent ELSE Null
  IN Verdict({used, health}, SomeBeyond({<<used, 95>>}) \/ SomeUnder({<<health, 50>>}),
             SomeAt({<<used, 85>>}) \/ SomeUnder({<<health, 80>>}))

getBatteryHealthBadge ==
  LET health == getBatteryHealthPercent
  IN IF ~Real(health) THEN "Unknown"
     ELSE IF health < thresholds.batteryHealth.critical THEN "Poor"
     ELSE IF health < thresholds.batteryHealth.warning THEN "Fair" ELSE "Good"

getGpuBadge ==
  Verdict({Live("util"), Live("gpuTemp")}, FALSE,
          SomeAt({<<Live("util"), 90>>, <<Live("gpuTemp"), thresholds.cpuTemp.warning>>}))

getWifiLinkStatus ==
  IF ~Real(Live("wifi")) THEN "Unknown" ELSE IF Live("wifi") = "connected" THEN "Online" ELSE "Offline"

getNetworkBadge ==
  IF getWifiLinkStatus # "Online" \/ ~Real(Live("signal")) THEN getWifiLinkStatus
  ELSE IF Live("signal") > 80 THEN "Excellent" ELSE IF Live("signal") >= 50 THEN "Good" ELSE "Poor"

\* A verdict on all three signals or none.
getHardwareInventoryBadge ==
  IF Cardinality(SecurityChecks) < 3 THEN "Unknown"
  ELSE IF \A c \in SecurityChecks : c[2] THEN "Healthy" ELSE "Warning"

-----------------------------------------------------------------------------
(* derived.ts: temperatures *)

\* Mutant of Temperatures: the ACPI zone is left to the rows.
LabeledTemperatures == {Live(s) : s \in Sensors} \ {Null}

\* Every temperature there is, the ACPI zone included.
Temperatures == {Live(s) : s \in Sensors \cup {"zone"}} \ {Null}

getThermalCardBadge ==
  IF Temperatures = {} THEN "Unknown"
  ELSE IF Max(Temperatures) > thresholds.cpuTemp.critical THEN "Critical"
  ELSE IF Max(Temperatures) >= thresholds.cpuTemp.warning THEN "Warning" ELSE "Normal"

\* A missing sensor keeps its row when its reason is one somebody can act on.
isActionableReason(reason) == Real(reason) /\ reason # "hardware-unsupported"

\* The colour of a row: "track" is that of an empty bar.
thermalSeverityColor(temp, warning, critical) ==
  IF ~Real(temp) THEN "track"
  ELSE IF temp > critical THEN "critical" ELSE IF temp >= warning THEN "warning" ELSE "normal"

\* A drive may come with limits of its own.
ssdThermalThresholds ==
  [warning |-> FirstReal(<<Live("opLimit"), 70>>), critical |-> FirstReal(<<Live("criticalLimit"), 80>>)]

thermalTempRow(label, temp, lines) ==
  <<label, temp, thermalSeverityColor(temp, lines.warning, lines.critical)>>

GpuZone == [warning |-> 80, critical |-> 90]
DimmZone == [warning |-> 70, critical |-> 85]

\* The rows: label, reading and colour.  Only the processor's row and the zones' go by the
\* thresholds of Settings; the other sensors have danger zones of their own.
getThermalRows ==
  LET cpu == {thermalTempRow("CPU", Live("cpuTemp"), thresholds.cpuTemp)}
      gpu == IF Real(Live("gpuTemp")) \/ isActionableReason(Live("gpuReason"))
             THEN {thermalTempRow("GPU", Live("gpuTemp"), GpuZone)} ELSE {}
      ssd == {thermalTempRow("SSD", Live("ssdTemp"), ssdThermalThresholds)}
      board == IF Real(Live("boardTemp")) \/ (~Real(Live("dimmTemp")) /\ isActionableReason(Live("boardReason")))
               THEN {thermalTempRow("Motherboard", Live("boardTemp"), DimmZone)}
               ELSE IF Real(Live("dimmTemp")) THEN {thermalTempRow("DIMM", Live("dimmTemp"), DimmZone)} ELSE {}
      zone == {thermalTempRow("Zone", Live("zone"), thresholds.cpuTemp)}
      placeholders == {"CPU", "GPU", "SSD", "Motherboard"} \X {Null} \X {"track"}
  IN IF \E s \in Sensors : Real(Live(s)) THEN cpu \cup gpu \cup ssd \cup board
     ELSE IF Real(Live("zone")) THEN zone ELSE placeholders

-----------------------------------------------------------------------------
(* App.tsx: the health score and its trend *)

SubScores == {<<"Performance", getPerformanceScore>>, <<"Security", getSecurityHealthPercent>>,
              <<"Battery", getBatteryHealthPercent>>}
RealSubs == {s \in SubScores : Real(s[2])}

Points(v) == IF Real(v) THEN v ELSE 0

HealthScore == IF RealSubs = {} THEN Null
               ELSE Round(Points(getPerformanceScore) + Points(getSecurityHealthPercent) + Points(getBatteryHealthPercent),
                          Cardinality(RealSubs))

\* The worst part decides the label.
HealthLabel ==
  IF RealSubs = {} THEN "Unknown"
  ELSE LET worst == Min({s[2] : s \in RealSubs})
       IN IF worst < 40 THEN "Poor" ELSE IF worst < 60 THEN "Fair"
          ELSE IF HealthScore >= 90 THEN "Excellent" ELSE "Good"

\* Mutant of ScoreToRecord: any score will do.
ScoreToRecordPartial == HealthScore

ScoreToRecord == IF Cardinality(RealSubs) = 3 THEN HealthScore ELSE Null

\* Mutant of recordIfNeeded: every new score of the day is a point.
RecordEveryScore(history, day, value) ==
  IF ~Real(value) THEN history
  ELSE LET updated == Append(history, [date |-> day, value |-> value])
       IN SubSeq(updated, Max({1, Len(updated) - MaxEntries + 1}), Len(updated))

\* At most one point per day; the oldest gives way.
recordIfNeeded(history, day, value) ==
  IF ~Real(value) \/ \E i \in DOMAIN history : history[i].date = day THEN history
  ELSE LET updated == Append(history, [date |-> day, value |-> value])
       IN SubSeq(updated, Max({1, Len(updated) - MaxEntries + 1}), Len(updated))

\* What a re-rendering with a new snapshot or connection does: the effect of the hook runs
\* when one of its dependencies is another value than before.
Rendered ==
  LET dependencies == <<connected, getStorageWearPercent, getBatteryHealthPercent, ScoreToRecord>>
      recorded == recordIfNeeded(trend, today, ScoreToRecord')
  IN trend' = IF connected' /\ recorded # trend /\ dependencies' # dependencies
              THEN recorded ELSE trend

\* Mutant of Window: the history has no horizon.
WholeHistory(dates, latest) == dates

\* The days the newest one is compared with.
Window(dates, latest) == {d \in dates : d >= latest - 7}

computeScoreDelta(history) ==
  LET dates == {history[i].date : i \in DOMAIN history}
      latest == Max(dates)
      baseline == Min(Window(dates, latest))
      value(d) == history[CHOOSE i \in DOMAIN history : history[i].date = d].value
  IN IF Cardinality(dates) < 2 THEN Null
     ELSE [delta |-> value(latest) - value(baseline), daysAgo |-> latest - baseline]

-----------------------------------------------------------------------------
(* App.tsx: verdict, risk, recommendations and insights *)

Below(v, line) == ~Real(v) \/ v < line
AtLeast(v, line) == ~Real(v) \/ v >= line

\* The badges of the verdict card, each with whether it has a reading and is in order.
badges ==
  LET load == getCpuLoad  mem == getMemUsedPercent
      health == getBatteryHealthPercent  wear == getStorageWearPercent
  IN {[label |-> "Performance", real |-> Real(load) /\ Real(mem), ok |-> Below(load, 85) /\ Below(mem, 85)],
      [label |-> "Wear risk", real |-> Real(health) \/ Real(wear), ok |-> AtLeast(health, 60) /\ Below(wear, 90)],
      [label |-> "Active issues", real |-> \E v \in {load, mem, health, wear} : Real(v),
       ok |-> Below(load, 95) /\ Below(mem, 95) /\ AtLeast(health, 60) /\ Below(wear, 95)],
      [label |-> "Compliance", real |-> getSecurityCompliance.real, ok |-> getSecurityCompliance.ok]}

VerdictBadges == {b \in badges : b.real}

AllGood == VerdictBadges # {} /\ \A b \in VerdictBadges : b.ok

computeRiskFactors ==
  {<<"Hardware", IF Real(getPerformanceScore) THEN 100 - getPerformanceScore ELSE Null>>,
   <<"Battery wear", getBatteryWearPercent>>, <<"SSD wear", getStorageWearPercent>>,
   <<"Security", IF Real(getSecurityHealthPercent) THEN 100 - getSecurityHealthPercent ELSE Null>>}

RealFactors == {f \in computeRiskFactors : Real(f[2])}

\* Mutant of RiskPercent: the needle follows the average.
RiskPercentAverage == Round(MapThenSumSet(LAMBDA f : f[2], RealFactors), Max({1, Cardinality(RealFactors)}))

\* The needle follows the worst live factor.
RiskPercent == IF RealFactors = {} THEN 0 ELSE Max({f[2] : f \in RealFactors})

RiskLevel == IF RealFactors = {} THEN "Unknown" ELSE riskTier(RiskPercent)

\* predictionToLifeDisplay: what is shown of a prediction; "Low", "Medium" and "High" are
\* the risks of one that has a number of days.
predictionToLifeDisplay(p) ==
  IF ~Real(p) THEN [real |-> FALSE, matured |-> FALSE, value |-> "Unknown"]
  ELSE [real |-> TRUE, matured |-> p # "insufficient-data", value |-> p]

isElevatedRisk(display) == display.real /\ display.value \in ElevatedRisks

\* Mutant of BatteryPastThreshold: only the prediction counts.
NeverPast == FALSE

BatteryPastThreshold == Real(getBatteryHealthPercent) /\ getBatteryHealthPercent < 80

\* A recommendation, if there is reason for it.
when(condition, title, high) ==
  IF condition THEN {[title |-> title, priority |-> IF high THEN "High" ELSE "Medium"]} ELSE {}

SsdShown == predictionToLifeDisplay(Live("ssdLife"))
BatteryShown == predictionToLifeDisplay(Live("batteryLife"))
UpdatesPending == Real(Live("updates")) /\ Live("updates") > 0

recs ==
  when(getSecurityCompliance.real /\ ~getSecurityCompliance.ok, "Security Hardening", TRUE)
    \cup when(UpdatesPending, "Windows Update", UpdatesPending /\ Live("updates") >= 3)
    \cup when(Live("biosUpdate") = TRUE, "BIOS Update", FALSE)
    \cup when(BatteryPastThreshold \/ isElevatedRisk(BatteryShown), "Battery Replacement",
              BatteryPastThreshold \/ BatteryShown.value = "already-past-threshold")
    \cup when(isElevatedRisk(SsdShown), "Storage Replacement", SsdShown.value \in {"already-past-threshold", "High"})

Recommendations ==
  LET healthy == Real(getBatteryHealthPercent) /\ getBatteryHealthPercent >= 80
      fine == SsdShown.matured /\ (BatteryShown.matured \/ healthy)
  IN IF recs # {} THEN recs
     ELSE IF fine THEN {[title |-> "Keep Monitoring", priority |-> "OK"]}
     ELSE {[title |-> "Not Enough History", priority |-> "Info"]}

\* The rows of the insights card that come from readings, with their tones.
insight(id, real, crit, warn) ==
  IF real THEN {<<id, IF crit THEN "crit" ELSE IF warn THEN "warn" ELSE "ok">>} ELSE {}

Insights ==
  LET health == getBatteryHealthPercent  wear == getStorageWearPercent
      used == getWorstStorageUsedPct  margin == Live("margin")
      hot == Real(Live("cpuTemp")) /\ Live("cpuTemp") >= thresholds.cpuTemp.warning
      thermal == IF Real(margin) THEN thermalRiskFromMargin(margin) ELSE "Low"
      full == Real(used) /\ used >= 85
  IN insight("battery", Real(health), Real(health) /\ health < thresholds.batteryHealth.critical, BatteryPastThreshold)
       \cup insight("security", getSecurityCompliance.real, FALSE, ~getSecurityCompliance.ok)
       \cup (IF full THEN insight("disk", TRUE, used >= 95, TRUE)
             ELSE insight("ssd", Real(wear), Real(wear) /\ wear >= 90, Real(wear) /\ wear >= 50))
       \cup insight("thermal", Real(Live("cpuTemp")) \/ Real(margin), hot \/ thermal = "High", thermal = "Moderate")

-----------------------------------------------------------------------------
(* App.tsx: the cards of the dashboard and of the hardware page *)

gpuDisplayName(gpu) == FirstReal(<<gpu.name, Live("gpuName")>>)

InOrderOfList(kept) == SetToSortSeq(kept, <)

\* One entry for a name, without the virtual adapters; the sensor's name when WMI has none.
listDisplayGpus ==
  LET gpus == IF Real(Live("gpus")) THEN Live("gpus") ELSE <<>>
      name(i) == gpuDisplayName(gpus[i])
      kept == {i \in DOMAIN gpus : /\ Real(name(i)) /\ name(i) \notin SkippedGpus
                                   /\ \A j \in 1..(i - 1) : name(j) # name(i)}
      order == InOrderOfList(kept)
  IN IF kept # {} THEN [k \in DOMAIN order |-> [gpus[order[k]] EXCEPT !.name = name(order[k])]]
     ELSE IF Real(Live("gpuName")) /\ Live("gpuName") \notin SkippedGpus
     THEN <<[name |-> Live("gpuName"), driver |-> Null]>> ELSE <<>>

\* The first discrete card, or the first.
getPrimaryGpu ==
  LET discrete == {i \in DOMAIN listDisplayGpus : listDisplayGpus[i].name \in DiscreteGpus}
  IN IF discrete # {} THEN listDisplayGpus[Min(discrete)] ELSE FirstReal(listDisplayGpus)

FromVendor == {"chipset", "intelMe", "wifi", "audio", "bluetooth"}

\* The checks that have data, of the eight.
getDriverDataCompleteness ==
  {f \in {"bios", "firmware"} : Real(Live(f))}
    \cup {f \in FromVendor : Real(Live("drivers")) /\ f \in Live("drivers")}
    \cup {f \in {"gpu"} : Real(getPrimaryGpu) /\ Real(getPrimaryGpu.driver)}

\* Mutant of Drivers: the row shows the first adapter's driver.
DriversOfFirstGpu ==
  {<<"bios", Real(Live("bios"))>>, <<"firmware", Live("firmware") \notin {Null, ""}>>,
   <<"gpu", listDisplayGpus # <<>> /\ Real(listDisplayGpus[1].driver)>>}
    \cup {<<f, Real(Live("drivers")) /\ f \in Live("drivers")>> : f \in FromVendor}

\* HWDriversCard: the rows, each with whether it has a version to show.
Drivers ==
  {<<"bios", Real(Live("bios"))>>, <<"firmware", Live("firmware") \notin {Null, ""}>>,
   <<"gpu", Real(getPrimaryGpu) /\ Real(getPrimaryGpu.driver)>>}
    \cup {<<f, Real(Live("drivers")) /\ f \in Live("drivers")>> : f \in FromVendor}

\* The count on the distribution card.
DriversLabel == IF connected THEN Cardinality(getDriverDataCompleteness) ELSE "Unknown"

getBatteryRemainingMinutes == FirstReal(<<Live("runTime"), Live("lhmTime")>>)

isBatteryOnAc(status) == status \notin {Null, "Discharging", "Undefined"}

\* What the battery card says of the charge; an unknown code is no status.
BatteryCard ==
  [badge |-> getBatteryHealthBadge,
   status |-> IF Real(Live("batteryStatus")) THEN Live("batteryStatus") ELSE "Unknown",
   time |-> IF Real(getBatteryRemainingMinutes) THEN "remaining"
            ELSE IF isBatteryOnAc(Live("batteryStatus")) THEN "On charger" ELSE "Unknown",
   showTemp |-> Real(Live("batteryTemp")) \/ isActionableReason(Live("batteryTempReason"))]

\* Mutant of WindowsUpdateLabel: a few updates do not count.
WindowsUpdateSome ==
  IF ~Real(Live("updates")) THEN "Unknown" ELSE IF Live("updates") < 3 THEN "Up to date" ELSE "Update Available"

\* The badge of the OS card.
WindowsUpdateLabel ==
  IF ~Real(Live("updates")) THEN "Unknown" ELSE IF Live("updates") = 0 THEN "Up to date" ELSE "Update Available"

BiosFirmwareLabel ==
  IF ~Real(Live("biosUpdate")) THEN "Unknown" ELSE IF Live("biosUpdate") THEN "Update Available" ELSE "Up to date"

TpmLabel == IF ~Real(Live("tpm")) THEN "Unknown" ELSE IF Live("tpm") THEN "Verified" ELSE "Inactive"

MotherboardLabel == IF Real(Live("bios")) /\ Real(Live("biosDate")) THEN "Healthy" ELSE "Unknown"

\* HWComponentsSection: the status of each tile.
Tiles ==
  {<<"CPU", getCpuBadge>>, <<"RAM", getMemoryBadge>>, <<"Storage", getStorageBadge>>, <<"GPU", getGpuBadge>>,
   <<"Battery", getBatteryHealthBadge>>, <<"Network", getNetworkBadge>>, <<"Motherboard", MotherboardLabel>>,
   <<"TPM", TpmLabel>>, <<"BIOS", BiosFirmwareLabel>>}

\* The security rows of the inventory card; those of the integrity card add BitLocker.
InventoryRows ==
  {<<"tpm", TpmLabel>>,
   <<"secureBoot", IF ~Real(Live("secureBoot")) THEN "Unknown" ELSE IF Live("secureBoot") THEN "On" ELSE "Off">>}

IntegrityHeader ==
  CASE getHardwareInventoryBadge = "Healthy" -> "Verified" [] getHardwareInventoryBadge = "Warning" -> "Attention"
    [] OTHER -> "Unknown"

\* The thermal card: whether a missing fan speed is explained, and its footer.
FanReasonShown == ~Real(Live("fanRpm")) /\ isActionableReason(Live("fanReason"))

CoolingFooter ==
  CASE getThermalCardBadge = "Unknown" -> "Waiting for temperature sensors"
    [] getThermalCardBadge = "Normal" -> "All sensors within range" [] OTHER -> getThermalCardBadge

\* The network card: a rate is shown only on a link that is up.
ConnectionLabel ==
  IF getWifiLinkStatus = "Online" /\ Real(Live("rate")) THEN Live("rate") ELSE getWifiLinkStatus

-----------------------------------------------------------------------------
(* App.tsx: the hardware, warranty and settings pages *)

Vital(v, elevated) ==
  IF ~Real(v) THEN "No reading" ELSE IF v >= 90 THEN "High" ELSE IF v >= elevated THEN "Elevated" ELSE "Normal"

\* LIVE SYSTEM VITALS.
Vitals == {<<"GPU", Vital(Live("util"), 60)>>, <<"Memory", Vital(getMemUsedPercent, 70)>>,
           <<"CPU", Vital(getCpuLoad, 70)>>,
           <<"Thermal", IF Real(Live("margin")) THEN thermalRiskFromMargin(Live("margin")) ELSE "No reading">>}

TamperStatus ==
  IF ~connected THEN "Unknown"
  ELSE IF ~Real(Live("integrity")) THEN "Baseline Pending"
  ELSE IF Live("integrity") = "mismatch" THEN "Tamper Detected" ELSE "Clear"

SecuritySignalsPct == IF Cardinality(SecurityChecks) = 3 THEN getSecurityHealthPercent ELSE Null

CpuGpuLabel ==
  IF getCpuBadge = "Unknown" /\ getGpuBadge = "Unknown" THEN "Unknown"
  ELSE IF {getCpuBadge, getGpuBadge} \subseteq {"Unknown", "Healthy"} THEN "Stable" ELSE "Attention"

MemoryLabel ==
  CASE getMemoryBadge = "Unknown" -> "Unknown" [] getMemoryBadge = "Healthy" -> "Stable" [] OTHER -> "Attention"

\* Settings: a battery that is worn out or a failing drive is a problem, whatever the other says.
HardwareHealth ==
  IF getBatteryHealthBadge = "Unknown" /\ getStorageBadge = "Unknown" THEN "Unknown"
  ELSE IF getBatteryHealthBadge = "Poor" \/ getStorageBadge = "Critical" THEN "Attention" ELSE "Healthy"

WarrantyLabel == IF Real(Live("warranty")) THEN Live("warranty") ELSE "Unknown"

\* The subscription as the agent reports it: past the tolerance it is unverified.
SubscriptionLabel == IF Real(Live("entitlement")) THEN Live("entitlement") ELSE "Unknown"

CoverageLabel ==
  CASE WarrantyLabel = "Unknown" -> "Unknown" [] WarrantyLabel = "Active" -> "Good" [] OTHER -> "Needs Attention"

-----------------------------------------------------------------------------

Poll ==
  /\ data' \in Snapshots /\ connected' = TRUE
  /\ UNCHANGED <<thresholds, today>>
  /\ Rendered

Disconnect ==
  /\ connected /\ connected' = FALSE
  /\ UNCHANGED <<data, thresholds, today>>
  /\ Rendered

\* A card is mounted anew, with a telemetry hook of its own.
Reopen ==
  /\ data' = Null /\ connected' = FALSE
  /\ UNCHANGED <<thresholds, today, trend>>

EditThresholds ==
  /\ thresholds' \in ThresholdSets
  /\ UNCHANGED <<data, connected, today, trend>>

\* Another day, or a clock that was set.
DayChanges ==
  /\ today' \in Days
  /\ UNCHANGED <<data, connected, thresholds, trend>>

DashboardInit ==
  /\ data = Null /\ connected = FALSE
  /\ thresholds \in ThresholdSets
  /\ today \in Days
  /\ trend = <<>>

DashboardNext == Poll \/ Disconnect \/ Reopen \/ EditThresholds \/ DayChanges

DashboardSpec == DashboardInit /\ [][DashboardNext]_dashboardVars

-----------------------------------------------------------------------------
(* Properties *)

\* The state has the shape the hooks give it, and no day has two points, in whatever order
\* the days come.  A score may exceed 100: a battery above its design capacity counts in full.
DashboardTypeOK ==
  /\ data \in Snapshots \cup {Null} /\ connected \in BOOLEAN
  /\ thresholds \in ThresholdSets /\ today \in Days
  /\ trend \in Seq([date : Days, value : Nat]) /\ Len(trend) <= MaxEntries
  /\ \A i, j \in DOMAIN trend : trend[i].date = trend[j].date => i = j

\* Nothing shown outlives the connection: the snapshot is kept, and every badge, verdict,
\* risk, recommendation and row still says that it does not know (the rule at the head of
\* derived.ts, which each derivation and each card has to obey by itself).
NothingStale ==
  ~connected =>
    /\ {getCpuBadge, getMemoryBadge, getStorageBadge, getBatteryHealthBadge, getGpuBadge, getNetworkBadge,
        getHardwareInventoryBadge, getThermalCardBadge, HealthLabel, RiskLevel, CpuGpuLabel, MemoryLabel,
        HardwareHealth, TamperStatus, WarrantyLabel, SubscriptionLabel, CoverageLabel, WindowsUpdateLabel,
        IntegrityHeader, ConnectionLabel, BatteryCard.status, BatteryCard.time, DriversLabel} = {"Unknown"}
    /\ {t[2] : t \in Tiles \cup InventoryRows} = {"Unknown"} /\ {d[2] : d \in Drivers} = {FALSE}
    /\ CoolingFooter = "Waiting for temperature sensors" /\ ~FanReasonShown /\ ~BatteryCard.showTemp
    /\ VerdictBadges = {} /\ Insights = {}
    /\ {v[2] : v \in Vitals} = {"No reading"} /\ {r[2] : r \in getThermalRows} = {Null}
    /\ Recommendations = {[title |-> "Not Enough History", priority |-> "Info"]}

\* The pages agree on the security of the device: inventory badge, integrity card, verdict,
\* insights, recommendations and risk are computed from the same three signals by different
\* rules about missing ones, and none says all is well while another warns.
SecurityAgrees ==
  LET known == {f \in Signals : Real(Live(f))}
      bad == \E f \in known : ~InOrder(f)
  IN /\ bad = \E r \in Recommendations : r.title = "Security Hardening"
     /\ bad = (<<"security", "warn">> \in Insights)
     /\ bad => ~AllGood /\ getHardwareInventoryBadge # "Healthy" /\ RiskLevel \in {"Medium", "High"}
     /\ getHardwareInventoryBadge = "Healthy" <=> (SecuritySignalsPct = 100)
     /\ (known # {} /\ ~bad) => HealthLabel = "Excellent" \/ Cardinality(RealSubs) > 1

\* The risk gauge is as bad as the worst row of the overview, and fits the health score of
\* the same readings: Poor is High, and Good or Excellent is not, unless the drive is worn.
RiskAgrees ==
  /\ \A f \in RealFactors : riskTier(f[2]) = "High" => RiskLevel = "High"
  /\ \A f \in RealFactors : riskTier(f[2]) = "Medium" => RiskLevel # "Low"
  /\ HealthLabel = "Poor" => RiskLevel = "High"
  /\ (HealthLabel \in {"Good", "Excellent"} /\ Below(getStorageWearPercent, 51)) => RiskLevel # "High"

\* What useAlertEngine makes of a value that is bad above its lines: 2 is critical.
AlertAbove(v, warning, critical) ==
  IF Real(v) /\ v > critical THEN 2 ELSE IF Real(v) /\ v > warning THEN 1 ELSE 0

\* A badge is not milder than the alert of the same reading under the same thresholds,
\* also when the user has edited them (the engine fires beyond a line, the badge at it),
\* but for one case: the engine judges the memory in use unrounded, so that at less than
\* half a percent above the critical line the alert is critical and the badge a warning.
BadgeCoversAlert ==
  LET rank(badge) == CASE badge \in {"Critical", "Poor"} -> 2 [] badge \in {"Warning", "Fair"} -> 1 [] OTHER -> 0
      cpu == thresholds.cpu  cpuTemp == thresholds.cpuTemp  memory == thresholds.memory
      memoryAlert == AlertAbove(Live("mem"), 10 * memory.warning, 10 * memory.critical)
      health == getBatteryHealthPercent
  IN /\ rank(getCpuBadge) >= AlertAbove(getCpuLoad, cpu.warning, cpu.critical)
     /\ rank(getCpuBadge) >= AlertAbove(Live("cpuTemp"), cpuTemp.warning, cpuTemp.critical)
     /\ \/ rank(getMemoryBadge) >= memoryAlert
        \/ memoryAlert = 2 /\ getMemUsedPercent = memory.critical
     /\ (Real(health) /\ health < thresholds.batteryHealth.critical) => HardwareHealth = "Attention"
     /\ getCpuBadge \in {"Warning", "Critical"} => CpuGpuLabel = "Attention"

\* "No action needed" is only said when nothing the card or its neighbours watch needs one:
\* no worn battery, no signal out of order, no prediction of trouble.
AdviceFitsReadings ==
  [title |-> "Keep Monitoring", priority |-> "OK"] \in Recommendations =>
    /\ Recommendations = {[title |-> "Keep Monitoring", priority |-> "OK"]}
    /\ AtLeast(getBatteryHealthPercent, 80) /\ Below(getBatteryWearPercent, 21)
    /\ <<"security", "warn">> \notin Insights
    /\ {Live("ssdLife"), Live("batteryLife")} \cap ElevatedRisks = {}

\* The badge of the thermal card judges every temperature the rows show, and only while
\* there is one.  It goes by the processor's thresholds, and so do the rows of the
\* processor and of the zones: of these a red one makes the badge critical, and a yellow
\* one keeps it from "Normal".  The colours of the other rows bind the badge to nothing.
ThermalAgrees ==
  /\ getThermalCardBadge = "Unknown" <=> \A r \in getThermalRows : ~Real(r[2])
  /\ \A r \in getThermalRows : (Real(r[2]) /\ r[2] > thresholds.cpuTemp.critical) => getThermalCardBadge = "Critical"
  /\ \A r \in getThermalRows : r[1] \in {"CPU", "Zone"} =>
       /\ r[3] = "critical" => getThermalCardBadge = "Critical"
       /\ r[3] = "warning" => getThermalCardBadge \in {"Warning", "Critical"}

\* The count of drivers with data and the rows of the drivers' card are computed apart and
\* must agree (the comment of getDriverDataCompleteness): on the adapter they speak of too.
\* An empty firmware string is the one case in which they do not: counted, and not shown.
DriversAgree ==
  connected => {d[1] : d \in {e \in Drivers : e[2]}} =
                 getDriverDataCompleteness \ (IF Live("firmware") = "" THEN {"firmware"} ELSE {})

\* What one page says of a component no other page contradicts: a pending update is a
\* recommendation, a verified device has a verified TPM, a component in attention has a tile
\* that is not healthy, and "within range" is not said of a processor an insight calls hot.
PagesAgree ==
  LET advised(title) == \E r \in Recommendations : r.title = title
  IN /\ (WindowsUpdateLabel = "Update Available") = advised("Windows Update")
     /\ (<<"BIOS", "Update Available">> \in Tiles) = advised("BIOS Update")
     /\ IntegrityHeader = "Verified" => SecuritySignalsPct = 100 /\ <<"tpm", "Verified">> \in InventoryRows
     /\ MemoryLabel = "Attention" => <<"RAM", "Healthy">> \notin Tiles
     /\ HardwareHealth = "Attention" => \E t \in Tiles : t[2] \in {"Poor", "Critical"}
     /\ CoolingFooter = "All sensors within range" => Below(Live("cpuTemp"), thresholds.cpuTemp.warning)

\* The change shown is one between two recorded days at most a week apart, the newer of
\* which is the newest, whatever the gaps in the history and the order of its entries.
DeltaWithinWeek ==
  LET change == computeScoreDelta(trend)
      latest == Max({trend[i].date : i \in DOMAIN trend})
  IN Real(change) =>
       /\ change.daysAgo \in 0..7
       /\ \E i, j \in DOMAIN trend :
            trend[i].date = latest /\ trend[j].date = latest - change.daysAgo /\ change.delta = trend[i].value - trend[j].value

\* A point of the history is earned: it is of today, by a score that rests on all three
\* parts, and it is never replaced by a later score of the day.
PointsAreEarned ==
  [][trend' # trend =>
       /\ connected' /\ trend'[Len(trend')].date = today
       /\ Cardinality(RealSubs') = 3 /\ trend'[Len(trend')].value = HealthScore'
       /\ \A i \in DOMAIN trend : trend[i].date # today]_trend

\* The cards agree about one snapshot on what the parts name: none shows anything of an agent that
\* is gone, and security, risk, alerts, advice, temperatures, drivers, updates, the TPM and
\* the memory tile are judged alike, with the exceptions of each part.
CardsAgree ==
  NothingStale /\ SecurityAgrees /\ RiskAgrees /\ BadgeCoversAlert /\ AdviceFitsReadings
  /\ ThermalAgrees /\ DriversAgree /\ PagesAgree

\* The history holds at most MAX_ENTRIES points, each earned, and the change shown is one of
\* the last week.
TrendIsHonest == [](DashboardTypeOK /\ DeltaWithinWeek) /\ PointsAreEarned

-----------------------------------------------------------------------------
(* What comments of the code say and the code does not do.  No run checks   *)
(* these; TLC finds a counterexample to each.                               *)

\* "A dashboard badge and the alert engine that fires real alerts from the exact same metric
\* can never disagree", and the memory badge's number is "the exact number the alert
\* engine evaluates": the badge's is rounded (getMemUsedPercent, the rule memory-usage).
MemoryBadgeNeverDisagrees ==
  AlertAbove(Live("mem"), 10 * thresholds.memory.warning, 10 * thresholds.memory.critical) = 2
    => getMemoryBadge = "Critical"

\* "No separate established danger zone for GPU/SSD/motherboard temps in this app": the
\* rows have them, and one may be red under "All sensors within range"
\* (getThermalCardBadge, getThermalRows).
WithinRangeIsNoRowsAlarm ==
  CoolingFooter = "All sensors within range" => \A r \in getThermalRows : r[3] \in {"track", "normal"}

=============================================================================
