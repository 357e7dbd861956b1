---- MODULE MCDashboard ----
(* Snapshots in families: each varies the readings some verdicts share, the rest is null. *)
EXTENDS Dashboard

CONSTANT none

Fields == {"load", "mem", "wmi", "report", "lhm", "wear", "used", "tpm", "secureBoot", "bitlocker",
           "cpuTemp", "gpuTemp", "ssdTemp", "boardTemp", "dimmTemp", "zone", "margin", "opLimit", "criticalLimit", "util",
           "gpuReason", "boardReason", "wifi", "signal", "ssdLife", "batteryLife", "updates",
           "biosUpdate", "integrity", "entitlement", "warranty", "gpus", "gpuName", "drivers", "firmware",
           "bios", "biosDate", "batteryStatus", "runTime", "lhmTime", "rate",
           "batteryTemp", "batteryTempReason", "fanRpm", "fanReason"}
Blank == [f \in Fields |-> none]
With(changes) == [f \in Fields |-> IF f \in DOMAIN changes THEN changes[f] ELSE none]

Maybe(S) == S \cup {none}
Gpu(name, driver) == [name |-> name, driver |-> driver]
Families == UNION {
  [tpm : Maybe(BOOLEAN), secureBoot : Maybe(BOOLEAN), bitlocker : Maybe({"On", "Unknown"})],
  [load : Maybe({96}), mem : {860, 953, 1000}, cpuTemp : Maybe({96})],
  [report : Maybe({30, 50, 95}), wear : Maybe({60, 92})],
  [wmi : {none, 60}, lhm : {none, 90}, util : {90}],
  [used : {50, 90, 96}, wear : {10}],
  [cpuTemp : {none, 60, 90}, gpuTemp : {none, 92, 96}, zone : {none, 96}],
  [ssdTemp : {60, 82}, opLimit : Maybe({85}), criticalLimit : Maybe({88})],
  [ssdTemp : {60}, boardTemp : {none, 60}, dimmTemp : {none, 96}],
  [ssdTemp : {60}, gpuReason : {none, "tool-not-found", "hardware-unsupported"}, boardReason : {none, "tool-not-found"}],
  [ssdLife : {none, "stable", "High"}, batteryLife : {none, "Low", "already-past-threshold"}, wmi : {79, 80}],
  [ssdLife : {"stable"}, batteryLife : {"insufficient-data"}, updates : {0, 1, 3}, biosUpdate : Maybe({TRUE})],
  [entitlement : {"Unverified"}, warranty : Maybe({"Active", "Warning"}), integrity : {"match"}],
  [entitlement : {"Active"}, integrity : {"mismatch"}],
  [wifi : {"connected", "disconnected"}, signal : Maybe({40, 90}), rate : {866}],
  [margin : {10, 20, 40}],
  [gpus : {none, <<Gpu("Basic", "b"), Gpu("Iris", none), Gpu("RTX", "r")>>, <<Gpu(none, "n"), Gpu("RTX", "r")>>},
   gpuName : Maybe({"RTX"})],
  [drivers : Maybe({{"wifi", "audio"}}), firmware : {none, "", "F1"}, bios : {"1.2"}, biosDate : {"2024"}],
  [batteryStatus : Maybe({"Discharging", "Charging"}), lhmTime : Maybe({60}), batteryTempReason : {"tool-not-found"},
   fanReason : {"tool-not-found"}],
  \* a performance, a security and a battery score
  [load : {40}, mem : {1000}, wmi : {35, 90}, secureBoot : {TRUE}],
  [load : {none}, mem : {400}, wmi : {103}, secureBoot : BOOLEAN]}
Readable == {With(c) : c \in Families}

Pair(w, c) == [warning |-> w, critical |-> c]
Defaults == [cpu |-> Pair(85, 95), memory |-> Pair(85, 95), cpuTemp |-> Pair(85, 95), batteryHealth |-> Pair(60, 40)]
Edited == [Defaults EXCEPT !.cpu = Pair(39, 40), !.batteryHealth = Pair(96, 95)]
TwoSets == {Defaults, Edited}
Virtual == {"Basic"}
Discrete == {"RTX"}
SomeDays == {1, 2, 11}
====
