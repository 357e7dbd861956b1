---- MODULE MCAlertEngine ----
(* A threshold rule with hysteresis and a rule without. *)
EXTENDS AlertEngine

CONSTANT missing

TwoRules == {"cpu_load", "hardware_tamper"}
Margins == [cpu_load |-> 1, hardware_tamper |-> 0]
Defaults == [cpu_load |-> [warning |-> 1, critical |-> 2], hardware_tamper |-> [warning |-> 0, critical |-> 0]]
\* A usage beyond, at and below every line, and unknown; tampered with, or not known to be.
Readable == [cpu_load |-> {missing} \cup 0..2, hardware_tamper |-> {missing, 1}]
JustCpu == {"cpu_load"}
====
