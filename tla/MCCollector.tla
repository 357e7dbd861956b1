------------------------------ MODULE MCCollector ------------------------------
(* Collector with the families of readings that merge with each other. *)
EXTENDS Collector

\* Readings of sources ss for the field f.
Of(f, ss) == ss \X {f}

AllFamilies ==
  {Of("cpu", {"ps", "rust"}) \cup Of("secureBoot", {"ps", "rust"}) \cup Of("gpu", {"ps", "rust"})
     \cup Of("gpuBlank", {"rust"}),
   Of("network", {"ps", "rust"}),
   Of("wear", {"ps", "rust"}) \cup Of("wearReason", {"ps", "rust"}) \cup Of("smart", {"rust"}),
   Of("battery", {"rust"}) \cup Of("cycles", {"ps", "rust"}) \cup Of("batteryTemp", {"lhm", "rust"}),
   Of("battery", {"rust"}) \cup Of("capacity", {"ps", "rust"}) \cup Of("report", {"ps"})
     \cup Of("health", {"lhm"}),
   Of("attached", {"hwinfo"}) \cup Of("fan", {"lhm", "hwinfo", "wmi"}) \cup Of("parked", {"lhm"}),
   Of("attached", {"hwinfo"}) \cup Of("board", {"lhm", "hwinfo"}) \cup Of("boardZero", {"lhm", "hwinfo"})
     \cup Of("gpuTemp", {"lhm"}) \cup Of("gpuTempZero", {"lhm"}),
   Of("tpm", {"rust", "hourly"}) \cup Of("tpmVersion", {"hourly"}) \cup Of("unknown", {"rust"})
     \cup Of("bitlocker", {"rust", "hourly"})}
=============================================================================
