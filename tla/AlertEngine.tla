------------------------------ MODULE AlertEngine ------------------------------
(***************************************************************************)
(* Alerts of the desktop application (frontend/src/app): the poll loop of  *)
(* useTelemetry.ts with its pause switch, the rules of useAlertEngine.ts   *)
(* with their latches, hysteresis, snoozes and persisted state, and the    *)
(* list AppContext.tsx shows, which acknowledging and dismissing change    *)
(* and the engine never sees.                                              *)
(*                                                                         *)
(* React renders and runs its effects between two tasks of the event loop, *)
(* so an action is one task with every effect it causes: a reply replaces  *)
(* the data, the engine evaluates its rules, the context merges the result.*)
(* localStorage holds what memory holds, except for keys a reset removed:  *)
(* erased is the set of those.  An alert is known by its rule, of which    *)
(* the engine keeps at most one.                                           *)
(***************************************************************************)
EXTENDS Integers, FiniteSets, FiniteSetsExt

CONSTANTS
  Rules,       \* rules of the engine
  Margin,      \* per rule: clearMargin, in the units of this instance
  Default,     \* per rule: its default thresholds
  Editable,    \* rules whose thresholds Settings edits
  Full,        \* 100 percent
  Values,      \* per rule: what its evaluate can return
  Missing,     \* a reading that is null
  MaxCount,    \* bound on the occurrences of an alert
  MaxSteps     \* bound on what the user does

\* RULE_CATEGORY: the switch in Settings that a rule hangs on.
Category ==
  [cpu_load |-> "Performance", memory_usage |-> "Performance", cpu_temp |-> "Performance",
   storage_free |-> "Storage", battery_low |-> "Battery", battery_full |-> "Battery",
   battery_health |-> "BatteryHealth", warranty_expiry |-> "Warranty", hardware_tamper |-> "Security"]

\* RULES, where a low value is the bad one, and where evaluate returns a verdict
\* or a day, which has no margin.
WatchedBelow == {"storage_free", "battery_low", "battery_health", "warranty_expiry"}
Discrete == {"warranty_expiry", "hardware_tamper", "battery_full"}

ASSUME RulesAssumption ==
  /\ Rules \subseteq DOMAIN Category
  /\ Margin \in [Rules -> Nat]
  /\ \A r \in Rules : Margin[r] = 0 <=> r \in Discrete
  /\ Editable \subseteq Rules \ Discrete
ASSUME ScaleAssumption ==
  /\ Full \in Nat /\ Missing \notin Nat
  /\ \A r \in Rules : Missing \in Values[r] /\ Values[r] \subseteq Nat \cup {Missing}
ASSUME BoundsAssumption == MaxCount \in Nat \ {0} /\ MaxSteps \in Nat

VARIABLES
  enabled,     \* telemetryEnabled
  fetches,     \* polls that wait for a reply
  armed,       \* the timer in timer.current is running
  strays,      \* running timers that timer.current no longer names
  connected,
  data,        \* per rule: what evaluate returns for the last reply
  latch,       \* ruleStateRef.current: the level a rule fired at, or "none"
  muted,       \* rules whose category is off
  thresholds,
  snoozed,     \* per rule: "none", "active", or "over" when its time has passed
  alerts,      \* the engine's alerts
  shown,       \* per rule: the alert AppContext holds, or None
  erased,      \* keys removed from localStorage and not written since
  live,        \* liveActiveRules: rules the last evaluation found latched or crossing
  announced,   \* history: rules alerted and not cleared, switched off or reset since
  torn,        \* history: a key was written again after a reset, before the reload
  steps

client == <<enabled, fetches, armed, strays, connected>>
settings == <<muted, thresholds>>
lists == <<alerts, shown>>
vars == <<client, data, latch, settings, snoozed, live, lists, erased, announced, torn, steps>>

Levels == {"warning", "critical"}
Readings == {reading \in [Rules -> UNION {Values[r] : r \in Rules}] : \A r \in Rules : reading[r] \in Values[r]}
Pairs == [warning : 0..Full, critical : 0..Full]
\* Mutant of Keys: the reset forgets the latches.
KeysWithoutLatch == {"alerts", "muted", "thresholds", "snoozed", "enabled"}

\* What a reset removes.
Keys == {"latch", "alerts", "muted", "thresholds", "snoozed", "enabled"}
None == [count |-> 0, unread |-> FALSE]
Step == steps < MaxSteps /\ steps' = steps + 1

-----------------------------------------------------------------------------
(* Thresholds *)

\* Mutant of ApplyThresholdEdit: the other threshold leaves the scale.
ApplyThresholdEditUnbounded(comparison, pair, field, value) ==
  LET other == IF field = "warning" THEN "critical" ELSE "warning"
      away == IF (comparison = "above") = (field = "warning") THEN value + 1 ELSE value - 1
  IN [pair EXCEPT ![field] = value, ![other] = away]

\* The other threshold makes way, as far as the scale allows.
ApplyThresholdEdit(comparison, pair, field, value) ==
  LET edited == [pair EXCEPT ![field] = value]
      up(n) == Min({Full, n + 1})
      down(n) == Max({0, n - 1})
      above == edited.critical > edited.warning
      below == edited.critical < edited.warning
  IN CASE comparison = "above" /\ ~above /\ field = "warning" -> [edited EXCEPT !.critical = up(value)]
       [] comparison = "above" /\ ~above /\ field = "critical" -> [edited EXCEPT !.warning = down(value)]
       [] comparison = "below" /\ ~below /\ field = "warning" -> [edited EXCEPT !.critical = down(value)]
       [] comparison = "below" /\ ~below /\ field = "critical" -> [edited EXCEPT !.warning = up(value)]
       [] OTHER -> edited

Comparison(r) == IF r \in WatchedBelow THEN "below" ELSE "above"

\* The critical line lies at the warning line or beyond it.
Ordered(r, pair) ==
  IF r \in WatchedBelow THEN pair.critical <= pair.warning ELSE pair.warning <= pair.critical

\* A verdict's lines may lie off the scale that Settings edits.
ASSUME DefaultAssumption ==
  /\ Default \in [Rules -> [warning : Nat, critical : Nat]]
  /\ \A r \in Editable : Default[r] \in Pairs
  /\ \A r \in Rules \ Discrete : Ordered(r, Default[r])

\* The value lies beyond the line, on the side the rule watches.
Beyond(r, value, line) ==
  value # Missing /\ IF r \notin WatchedBelow THEN value > line ELSE value < line

LevelFor(r, value, pair) ==
  IF Beyond(r, value, pair.critical) THEN "critical"
  ELSE IF Beyond(r, value, pair.warning) THEN "warning" ELSE "none"

\* Mutant of HasCleared: a missing reading counts as cleared.
HasClearedUnknown(r, value, pair) ==
  \/ value = Missing
  \/ IF r \notin WatchedBelow THEN value <= pair.warning - Margin[r] ELSE value >= pair.warning + Margin[r]

\* A rule with a margin must come back past it, and only a reading tells.
HasCleared(r, value, pair) ==
  IF Margin[r] = 0 THEN LevelFor(r, value, pair) = "none"
  ELSE /\ value # Missing
       /\ IF r \notin WatchedBelow THEN value <= pair.warning - Margin[r] ELSE value >= pair.warning + Margin[r]

-----------------------------------------------------------------------------
(* The engine's effect: it runs whenever the data, the connection or a setting changes. *)

Snoozed(snooze, r) == snooze[r] = "active"

\* Mutant of Raise: the alert a rule already has is kept beside the new one.
RaiseAnother(list, fired, level) ==
  list \cup {[rule |-> r, level |-> level[r], count |-> 1] : r \in fired}

\* One alert per rule: an alert that is still listed is counted up.
Raise(list, fired, level) ==
  LET count(r) == Max({a.count : a \in {b \in list : b.rule = r}} \cup {0})
  IN {a \in list : a.rule \notin fired}
       \cup {[rule |-> r, level |-> level[r], count |-> count(r) + 1] : r \in fired}

\* Mutant of Surfaced: an alert already in the list is never taken again.
SurfacedOnce(list, view) == {a \in list : view[a.rule] = None}

\* What the context takes from the engine: alerts it does not hold, and recurring ones.
Surfaced(list, view) == {a \in list : view[a.rule].count # a.count}

Merge(list, view) ==
  [r \in Rules |-> IF \E a \in Surfaced(list, view) : a.rule = r
                   THEN [count |-> (CHOOSE a \in list : a.rule = r).count, unread |-> TRUE]
                   ELSE view[r]]

Saved(keys) ==
  /\ erased' = erased \ keys
  /\ torn' = (torn \/ (erased # {} /\ keys # {}))

Idle == UNCHANGED <<latch, snoozed, live, lists, announced>>

\* The rules that fire, those that clear, what is latched and raised then.
Evaluate(on, reading, off, pairs, snooze, view) ==
  IF ~on THEN snoozed' = snooze /\ shown' = view /\ UNCHANGED <<latch, live, alerts, announced>>
  ELSE LET level == [r \in Rules |-> LevelFor(r, reading[r], pairs[r])]
           fired == {r \in Rules \ off : latch[r] = "none" /\ level[r] # "none" /\ ~Snoozed(snooze, r)}
           cleared == {r \in Rules : latch[r] # "none" /\ (r \in off \/ HasCleared(r, reading[r], pairs[r]))}
           raised == Raise(alerts, fired, level)
       IN /\ latch' = [r \in Rules |-> IF r \in fired THEN level[r] ELSE IF r \in cleared THEN "none" ELSE latch[r]]
          /\ snoozed' = [r \in Rules |-> IF r \notin off /\ snooze[r] = "over" THEN "none" ELSE snooze[r]]
          /\ live' = {r \in Rules \ off : latch'[r] # "none" \/ level[r] # "none"}
          /\ alerts' = raised
          /\ shown' = IF raised = alerts THEN view ELSE Merge(raised, view)
          /\ \A a \in raised : a.count <= MaxCount
          /\ announced' = (announced \ (cleared \cup off)) \cup fired

\* The keys the effect writes.
Written(keys) ==
  Saved(keys \cup (IF latch' # latch THEN {"latch"} ELSE {})
             \cup (IF alerts' # alerts THEN {"alerts"} ELSE {})
             \cup (IF snoozed' # snoozed THEN {"snoozed"} ELSE {}))

-----------------------------------------------------------------------------
(* useTelemetry: poll, which re-arms itself after each reply *)

\* Mutant of Rearm: a poll that failed is not followed by another.
RearmAfterSuccess == IF connected' THEN armed' = TRUE /\ strays' = strays + (IF armed THEN 1 ELSE 0)
                     ELSE UNCHANGED <<armed, strays>>

\* timer.current keeps the newest timer; one it named before runs on.
Rearm == IF enabled THEN armed' = TRUE /\ strays' = strays + (IF armed THEN 1 ELSE 0)
         ELSE UNCHANGED <<armed, strays>>

Succeed ==
  /\ fetches > 0
  /\ fetches' = fetches - 1
  /\ connected' = TRUE
  /\ Rearm
  /\ \E reading \in Readings :
       /\ data' = reading
       /\ Evaluate(TRUE, reading, muted, thresholds, snoozed, shown)
  /\ Written({})
  /\ UNCHANGED <<enabled, settings, steps>>

\* Refused, aborted after eight seconds, or not JSON.
Fail ==
  /\ fetches > 0
  /\ fetches' = fetches - 1
  /\ connected' = FALSE
  /\ Rearm
  /\ Idle
  /\ UNCHANGED <<enabled, data, settings, erased, torn, steps>>

\* A timer runs out; a paused poll returns at once.
Tick ==
  /\ \/ armed /\ armed' = FALSE /\ UNCHANGED strays
     \/ strays > 0 /\ strays' = strays - 1 /\ UNCHANGED armed
  /\ fetches' = fetches + (IF enabled THEN 1 ELSE 0)
  /\ Idle
  /\ UNCHANGED <<enabled, connected, data, settings, erased, torn, steps>>

Pause ==
  /\ enabled
  /\ enabled' = FALSE
  /\ armed' = FALSE
  /\ connected' = FALSE
  /\ Idle
  /\ Saved({"enabled"}) /\ Step
  /\ UNCHANGED <<fetches, strays, data, settings>>

\* Resuming polls at once, also when an earlier poll is still under way.
Resume ==
  /\ ~enabled
  /\ enabled' = TRUE
  /\ fetches' = fetches + 1
  /\ Idle
  /\ Saved({"enabled"}) /\ Step
  /\ UNCHANGED <<armed, strays, connected, data, settings>>

-----------------------------------------------------------------------------
(* Settings *)

\* Every rule of the category is switched, and unlatched, with it.
SetCategoryEnabled(category) ==
  /\ LET switched == {r \in Rules : Category[r] = category}
     IN muted' = IF switched \subseteq muted THEN muted \ switched ELSE muted \cup switched
  /\ Evaluate(connected, data, muted', thresholds, snoozed, shown)
  /\ Written({"muted"}) /\ Step
  /\ UNCHANGED <<client, data, thresholds>>

SetThresholdField(r, field, value) ==
  /\ thresholds' = [thresholds EXCEPT ![r] = ApplyThresholdEdit(Comparison(r), @, field, value)]
  /\ Evaluate(connected, data, muted, thresholds', snoozed, shown)
  /\ Written({"thresholds"}) /\ Step
  /\ UNCHANGED <<client, data, muted>>

\* resetAllSettings, before it reloads the page.
ResetSettings ==
  /\ muted' = {} /\ thresholds' = Default
  /\ enabled' = TRUE
  /\ fetches' = fetches + (IF enabled THEN 0 ELSE 1)
  /\ Evaluate(connected, data, {}, Default, snoozed, shown)
  /\ Written({"muted", "thresholds", "enabled"}) /\ Step
  /\ UNCHANGED <<armed, strays, connected, data>>

\* A notification setting changes: the context merges the engine's alerts anew.
ChangeNotifications ==
  /\ shown' = Merge(alerts, shown)
  /\ Step
  /\ UNCHANGED <<client, data, latch, settings, snoozed, live, alerts, erased, announced, torn>>

-----------------------------------------------------------------------------
(* The list of alerts *)

Acknowledge(r) ==
  /\ shown[r].unread
  /\ shown' = [shown EXCEPT ![r].unread = FALSE]
  /\ Step
  /\ UNCHANGED <<client, data, latch, settings, snoozed, live, alerts, erased, announced, torn>>

Dismiss(r) ==
  /\ shown[r] # None
  /\ shown' = [shown EXCEPT ![r] = None]
  /\ Step
  /\ UNCHANGED <<client, data, latch, settings, snoozed, live, alerts, erased, announced, torn>>

\* Snoozing marks the alert read and holds its rule back for a day.
Snooze(r) ==
  /\ shown[r] # None
  /\ Evaluate(connected, data, muted, thresholds, [snoozed EXCEPT ![r] = "active"],
              [shown EXCEPT ![r].unread = FALSE])
  /\ Written({"snoozed"}) /\ Step
  /\ UNCHANGED <<client, data, settings>>

DayPasses(r) ==
  /\ snoozed[r] = "active"
  /\ snoozed' = [snoozed EXCEPT ![r] = "over"]
  /\ UNCHANGED <<client, data, latch, settings, live, lists, erased, announced, torn, steps>>

\* Mutant of DismissedButActive: a snoozed rule is listed too.
DismissedOrSnoozed == {r \in live : shown[r] = None}

\* What the page lists under "dismissed condition still active".
DismissedButActive == {r \in live : ~Snoozed(snoozed, r) /\ shown[r] = None}

-----------------------------------------------------------------------------
(* Start of the page *)

\* Mutant of Stored: the latches are not persisted.
StoredWithoutLatch(key, value, initial) == IF key \in erased \cup {"latch"} THEN initial ELSE value

\* What loadJSON returns for a key.
Stored(key, value, initial) == IF key \in erased THEN initial ELSE value

Unlatched == [r \in Rules |-> "none"]
Awake == [r \in Rules |-> "none"]

\* handleCheckFullReset: the keys go, the page is reloaded a moment later.
ClearStorage ==
  /\ erased' = Keys
  /\ Step
  /\ UNCHANGED <<client, data, latch, settings, snoozed, live, lists, announced, torn>>

Reload ==
  /\ enabled' = Stored("enabled", enabled, TRUE)
  /\ fetches' = IF enabled' THEN 1 ELSE 0
  /\ armed' = FALSE /\ strays' = 0
  /\ connected' = FALSE
  /\ data' = [r \in Rules |-> Missing]
  /\ latch' = Stored("latch", latch, Unlatched)
  /\ muted' = Stored("muted", muted, {})
  /\ thresholds' = Stored("thresholds", thresholds, Default)
  /\ snoozed' = Stored("snoozed", snoozed, Awake)
  /\ live' = {}
  /\ alerts' = Stored("alerts", alerts, {})
  /\ shown' = Merge(alerts', [r \in Rules |-> None])
  /\ announced' = IF "latch" \in erased THEN {} ELSE announced
  /\ erased' = {}
  /\ torn' = (torn /\ erased # Keys)
  /\ Step

Init ==
  /\ enabled = TRUE
  /\ fetches = 1 /\ armed = FALSE /\ strays = 0
  /\ connected = FALSE
  /\ data = [r \in Rules |-> Missing]
  /\ latch = Unlatched
  /\ muted = {} /\ thresholds = Default
  /\ snoozed = Awake /\ live = {}
  /\ alerts = {} /\ shown = [r \in Rules |-> None]
  /\ erased = {} /\ announced = {} /\ torn = FALSE
  /\ steps = 0

Poll == Succeed \/ Fail \/ Tick
Switches == Pause \/ Resume \/ ResetSettings \/ ChangeNotifications \/ ClearStorage \/ Reload

Next ==
  \/ Poll \/ Switches
  \/ \E r \in Rules : SetCategoryEnabled(Category[r])
  \/ \E r \in Rules : Acknowledge(r) \/ Dismiss(r) \/ Snooze(r) \/ DayPasses(r)
  \/ \E r \in Editable, field \in Levels, value \in 0..Full : SetThresholdField(r, field, value)

Spec == Init /\ [][Next]_vars
\* The browser runs timers and settles every fetch, at the latest by aborting it;
\* the agent answers again and again.
FairSpec == Spec /\ WF_vars(Tick) /\ WF_vars(Succeed \/ Fail) /\ SF_vars(Succeed)

-----------------------------------------------------------------------------
(* Properties *)

\* Every variable has the type the code gives it; the thresholds that Settings
\* edits stay on its scale.
TypeOK ==
  /\ enabled \in BOOLEAN /\ armed \in BOOLEAN /\ connected \in BOOLEAN /\ torn \in BOOLEAN
  /\ fetches \in Nat /\ strays \in Nat
  /\ data \in Readings
  /\ latch \in [Rules -> Levels \cup {"none"}]
  /\ muted \subseteq Rules /\ thresholds \in [Rules -> [warning : Nat, critical : Nat]]
  /\ \A r \in Editable : thresholds[r] \in Pairs
  /\ snoozed \in [Rules -> {"none", "active", "over"}]
  /\ alerts \subseteq [rule : Rules, level : Levels, count : 1..MaxCount]
  /\ shown \in [Rules -> [count : 0..MaxCount, unread : BOOLEAN]]
  /\ erased \subseteq Keys /\ announced \subseteq Rules /\ live \subseteq Rules
  /\ steps \in 0..MaxSteps

\* However often a rule fires, clears and fires again, over reloads, resets and
\* dismissals, the engine has one alert for it (the runaway-alert fix of the fire logic).
OneAlertPerRule == \A a, b \in alerts : a.rule = b.rule => a = b

\* A rule that is held back because it has fired has an alert the user can find: latches and
\* alerts are two keys of the storage and are written and removed apart.  A reset that a
\* poll interrupts before the reload is the exception, and torn marks it.
LatchedIsAlerted ==
  \A r \in Rules : latch[r] # "none" => torn \/ (\E a \in alerts : a.rule = r)

\* The list on the screen never lags behind the engine: an alert it holds has the count
\* of the engine's alert, although the two are merged by effects and changed separately.
EngineAlertsSurface ==
  \A r \in Rules : shown[r] # None => \E a \in alerts : a.rule = r /\ a.count = shown[r].count

\* A rule the page lists as dismissed but active is held back by the engine: it is
\* latched, until the next evaluation after a snooze ends, so that the engine raises
\* nothing for it before it clears.  The list comes from the last evaluation, the
\* alerts and snoozes from later clicks.  The alert already raised may come back
\* to the screen all the same: DismissedStaysAway below.
BannerRulesAreHeld ==
  \A r \in DismissedButActive : latch[r] # "none" \/ snoozed[r] = "over"

\* One alert for one crossing: a rule that has fired does not fire again before its value
\* has cleared, its category was switched off, or a reset removed its latch; a reload, a
\* snooze, a pause or an edit of the thresholds does not make it.
OneAlertPerCrossing ==
  [][\A r \in Rules : latch[r] = "none" /\ latch'[r] # "none" => r \notin announced]_vars

\* No reading is no recovery: the latch of a rule with a margin ends at a reading that no
\* longer crosses, when its category is off, or when a reset removed it.
LatchSurvivesSilence ==
  [][\A r \in Rules : (Margin[r] > 0 /\ latch[r] # "none" /\ latch'[r] = "none") =>
       \/ r \in muted'
       \/ connected' /\ data'[r] # Missing /\ LevelFor(r, data'[r], thresholds'[r]) = "none"
       \/ "latch" \in erased]_vars

\* A snooze ends: when its day has passed the rule is evaluated again, unless monitoring is
\* paused or the category off.  The poll loop must survive every failure, pause and resume.
SnoozeEnds ==
  \A r \in Rules : snoozed[r] = "over" ~> (snoozed[r] # "over" \/ ~enabled \/ r \in muted)

\* Latches, alerts and the list on the screen are kept and saved apart and tell the
\* same story.
AlertsAgree == OneAlertPerRule /\ LatchedIsAlerted /\ EngineAlertsSurface /\ BannerRulesAreHeld

\* A crossing has its alert once, a recovery is a reading, and a snooze ends.
AlertsFollowReadings == OneAlertPerCrossing /\ LatchSurvivesSilence /\ SnoozeEnds

-----------------------------------------------------------------------------
(* What a message of the page says and the code does not do.  No run checks *)
(* this; TLC finds a counterexample.                                        *)

\* "You won't see a new alert until it clears and re-crosses the threshold", says the
\* toast of a dismissal, and the banner likewise.  The context takes every alert of the
\* engine that it does not hold for a new one, so a dismissed one is back, with its
\* notification and its tone, as soon as any rule fires or a notification setting
\* changes (dismissAlert against the effect on engineAlerts).
DismissedStaysAway ==
  [][\A r \in DismissedButActive : latch[r] # "none" /\ latch'[r] # "none" /\ r \in live' =>
       shown'[r] = None]_vars
=============================================================================
