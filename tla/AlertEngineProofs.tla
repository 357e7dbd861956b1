--------------------------- MODULE AlertEngineProofs ---------------------------
(***************************************************************************)
(* What holds of AlertEngine for any rules, margins, thresholds and        *)
(* readings, and however often the user acts.                              *)
(***************************************************************************)
EXTENDS AlertEngine, TLAPS

(***************************************************************************)
(* The inductive invariant.                                                *)
(***************************************************************************)

\* An edit moves the other threshold out of the way, so the two lines never cross.
LinesOrdered == \A r \in Rules \ Discrete : Ordered(r, thresholds[r])

\* A rule of the last evaluation's list is latched unless a snooze held it back.
LiveIsLatched == \A r \in live : latch[r] # "none" \/ snoozed[r] # "none"

\* What has been announced and not cleared is what is latched.
AnnouncedIsLatched == \A r \in announced : latch[r] # "none"

\* Between a reset and the reload the storage is empty, or a poll has torn the reset.
ErasedWhole == erased \in {{}, Keys} \/ torn

Holds ==
  /\ TypeOK /\ LinesOrdered /\ OneAlertPerRule /\ LatchedIsAlerted /\ EngineAlertsSurface
  /\ LiveIsLatched /\ AnnouncedIsLatched /\ ErasedWhole

-----------------------------------------------------------------------------
(* Types, and the helpers of the engine. *)

LatchType == [Rules -> Levels \cup {"none"}]
LineType == [warning : Nat, critical : Nat]
SnoozeType == [Rules -> {"none", "active", "over"}]
AlertType == [rule : Rules, level : Levels, count : 1..MaxCount]
ViewType == [Rules -> [count : 0..MaxCount, unread : BOOLEAN]]
AnyAlert == [rule : Rules, level : Levels, count : Nat \ {0}]
Unique(list) == \A a, b \in list : a.rule = b.rule => a = b
Listed(list, r) == \E a \in list : a.rule = r

\* Every rule that is shown has an alert with the same count.
Backed(list, view) ==
  \A r \in Rules : view[r] # None => \E a \in list : a.rule = r /\ a.count = view[r].count

\* Thresholds that are typed, on the scale where Settings edits them, and ordered.
GoodLines(pairs) ==
  /\ pairs \in [Rules -> LineType]
  /\ \A r \in Editable : pairs[r] \in Pairs
  /\ \A r \in Rules \ Discrete : Ordered(r, pairs[r])

LEMMA TypesRead ==
  ASSUME TypeOK
  PROVE  /\ enabled \in BOOLEAN /\ armed \in BOOLEAN /\ connected \in BOOLEAN /\ torn \in BOOLEAN
         /\ fetches \in Nat /\ strays \in Nat /\ data \in Readings /\ latch \in LatchType
         /\ muted \subseteq Rules /\ thresholds \in [Rules -> LineType]
         /\ \A r \in Editable : thresholds[r] \in Pairs
         /\ snoozed \in SnoozeType /\ alerts \subseteq AlertType /\ shown \in ViewType
         /\ erased \subseteq Keys /\ announced \subseteq Rules /\ live \subseteq Rules
         /\ steps \in 0..MaxSteps
  BY DEF TypeOK, LatchType, LineType, SnoozeType, AlertType, ViewType

LEMMA TypesWritten ==
  ASSUME enabled' \in BOOLEAN /\ armed' \in BOOLEAN /\ connected' \in BOOLEAN /\ torn' \in BOOLEAN,
         fetches' \in Nat /\ strays' \in Nat /\ data' \in Readings /\ latch' \in LatchType,
         muted' \subseteq Rules /\ thresholds' \in [Rules -> LineType],
         \A r \in Editable : thresholds'[r] \in Pairs,
         snoozed' \in SnoozeType /\ alerts' \subseteq AlertType /\ shown' \in ViewType,
         erased' \subseteq Keys /\ announced' \subseteq Rules /\ live' \subseteq Rules,
         steps' \in 0..MaxSteps
  PROVE  TypeOK'
  BY DEF TypeOK, LatchType, LineType, SnoozeType, AlertType, ViewType

LEMMA ReadingTypes ==
  ASSUME NEW reading \in Readings, NEW r \in Rules
  PROVE  reading[r] = Missing \/ reading[r] \in Nat
  BY ScaleAssumption DEF Readings

LEMMA NothingRead == [r \in Rules |-> Missing] \in Readings
  BY ScaleAssumption DEF Readings

LEMMA Bigger ==
  ASSUME NEW c \in Nat
  PROVE  Max({c} \cup {0}) = c /\ Max({} \cup {0}) = 0
<1>1. \A x \in {c, 0} : (\A y \in {c, 0} : x >= y) <=> x = c
  OBVIOUS
<1>2. {c} \cup {0} = {c, 0} /\ {} \cup {0} = {0}
  OBVIOUS
<1>3. Max({c, 0}) = c
  BY <1>1 DEF Max
<1>4. \A x \in {0} : (\A y \in {0} : x >= y) <=> x = 0
  OBVIOUS
<1>5. Max({0}) = 0
  BY <1>4 DEF Max
<1> QED
  BY <1>2, <1>3, <1>5

\* One step up the scale, one step down.
LEMMA StepsOnScale ==
  ASSUME NEW n \in 0..Full
  PROVE  /\ Min({Full, n + 1}) \in 0..Full /\ n <= Min({Full, n + 1})
         /\ Max({0, n - 1}) \in 0..Full /\ Max({0, n - 1}) <= n
<1>0. Full \in Nat
  BY ScaleAssumption
<1>1. PICK u \in {Full, n + 1} : \A y \in {Full, n + 1} : u <= y
  BY <1>0
<1>2. Min({Full, n + 1}) \in {Full, n + 1} /\ \A y \in {Full, n + 1} : Min({Full, n + 1}) <= y
  BY <1>1 DEF Min
<1>3. PICK l \in {0, n - 1} : \A y \in {0, n - 1} : l >= y
  BY <1>0
<1>4. Max({0, n - 1}) \in {0, n - 1} /\ \A y \in {0, n - 1} : Max({0, n - 1}) >= y
  BY <1>3 DEF Max
<1> QED
  BY <1>0, <1>2, <1>4

\* An edit stays on the scale and leaves the lines in order.
LEMMA EditIsOrdered ==
  ASSUME NEW r \in Rules, NEW pair \in Pairs, Ordered(r, pair), NEW field \in Levels,
         NEW value \in 0..Full
  PROVE  /\ ApplyThresholdEdit(Comparison(r), pair, field, value) \in Pairs
         /\ Ordered(r, ApplyThresholdEdit(Comparison(r), pair, field, value))
<1> DEFINE up == Min({Full, value + 1})
           down == Max({0, value - 1})
           edited == [pair EXCEPT ![field] = value]
           new == ApplyThresholdEdit(Comparison(r), pair, field, value)
<1>0. Full \in Nat
  BY ScaleAssumption
<1>1. up \in 0..Full /\ value <= up /\ down \in 0..Full /\ down <= value
  BY StepsOnScale
<1>2. /\ edited \in Pairs
      /\ field = "warning" => edited.warning = value
      /\ field = "critical" => edited.critical = value
  BY DEF Pairs, Levels
<1>c. Comparison(r) = (IF r \in WatchedBelow THEN "below" ELSE "above")
  BY DEF Comparison
<1>3. CASE r \notin WatchedBelow
  <2>1. CASE edited.critical > edited.warning
    <3>1. new = edited
      BY <1>c, <1>3, <2>1 DEF ApplyThresholdEdit
    <3> QED
      BY <1>0, <1>2, <1>3, <2>1, <3>1 DEF Ordered, Pairs
  <2>2. CASE ~(edited.critical > edited.warning) /\ field = "warning"
    <3>1. new = [edited EXCEPT !.critical = up]
      BY <1>c, <1>3, <2>2 DEF ApplyThresholdEdit
    <3> HIDE DEF up, edited, new
    <3>2. new \in Pairs /\ new.critical = up /\ new.warning = edited.warning
      BY <1>1, <1>2, <3>1 DEF Pairs
    <3> QED
      BY <1>1, <1>2, <1>3, <2>2, <3>2 DEF Ordered, new
  <2>3. CASE ~(edited.critical > edited.warning) /\ field = "critical"
    <3>1. new = [edited EXCEPT !.warning = down]
      BY <1>c, <1>3, <2>3 DEF ApplyThresholdEdit
    <3> HIDE DEF down, edited, new
    <3>2. new \in Pairs /\ new.warning = down /\ new.critical = edited.critical
      BY <1>1, <1>2, <3>1 DEF Pairs
    <3> QED
      BY <1>1, <1>2, <1>3, <2>3, <3>2 DEF Ordered, new
  <2> QED
    BY <2>1, <2>2, <2>3 DEF Levels
<1>4. CASE r \in WatchedBelow
  <2>1. CASE edited.critical < edited.warning
    <3>1. new = edited
      BY <1>c, <1>4, <2>1 DEF ApplyThresholdEdit
    <3> QED
      BY <1>0, <1>2, <1>4, <2>1, <3>1 DEF Ordered, Pairs
  <2>2. CASE ~(edited.critical < edited.warning) /\ field = "warning"
    <3>1. new = [edited EXCEPT !.critical = down]
      BY <1>c, <1>4, <2>2 DEF ApplyThresholdEdit
    <3> HIDE DEF down, edited, new
    <3>2. new \in Pairs /\ new.critical = down /\ new.warning = edited.warning
      BY <1>1, <1>2, <3>1 DEF Pairs
    <3> QED
      BY <1>1, <1>2, <1>4, <2>2, <3>2 DEF Ordered, new
  <2>3. CASE ~(edited.critical < edited.warning) /\ field = "critical"
    <3>1. new = [edited EXCEPT !.warning = up]
      BY <1>c, <1>4, <2>3 DEF ApplyThresholdEdit
    <3> HIDE DEF up, edited, new
    <3>2. new \in Pairs /\ new.warning = up /\ new.critical = edited.critical
      BY <1>1, <1>2, <3>1 DEF Pairs
    <3> QED
      BY <1>1, <1>2, <1>4, <2>3, <3>2 DEF Ordered, new
  <2> QED
    BY <2>1, <2>2, <2>3 DEF Levels
<1> QED
  BY <1>3, <1>4

LEMMA LevelNames ==
  ASSUME NEW r, NEW value, NEW pair
  PROVE  LevelFor(r, value, pair) \in Levels \cup {"none"}
  BY DEF LevelFor, Levels

\* A value that has come back crosses neither line.
LEMMA ClearedIsBack ==
  ASSUME NEW r \in Rules, NEW value, value = Missing \/ value \in Nat, NEW pair \in LineType,
         r \notin Discrete => Ordered(r, pair), HasCleared(r, value, pair)
  PROVE  /\ LevelFor(r, value, pair) = "none"
         /\ Margin[r] > 0 => value # Missing
<1>1. CASE Margin[r] = 0
  BY <1>1 DEF HasCleared
<1>2. CASE Margin[r] # 0
  <2>1. r \notin Discrete /\ Margin[r] \in Nat /\ pair.warning \in Nat /\ pair.critical \in Nat
    BY <1>2, RulesAssumption DEF LineType
  <2>2. value # Missing /\ value \in Nat
    BY <1>2 DEF HasCleared
  <2>3. CASE r \notin WatchedBelow
    <3>1. value <= pair.warning - Margin[r] /\ pair.warning <= pair.critical
      BY <1>2, <2>1, <2>3 DEF HasCleared, Ordered
    <3>2. ~(value > pair.warning) /\ ~(value > pair.critical)
      BY <2>1, <2>2, <3>1
    <3> QED
      BY <2>2, <2>3, <3>2 DEF LevelFor, Beyond
  <2>4. CASE r \in WatchedBelow
    <3>1. value >= pair.warning + Margin[r] /\ pair.critical <= pair.warning
      BY <1>2, <2>1, <2>4 DEF HasCleared, Ordered
    <3>2. ~(value < pair.warning) /\ ~(value < pair.critical)
      BY <2>1, <2>2, <3>1
    <3> QED
      BY <2>2, <2>4, <3>2 DEF LevelFor, Beyond
  <2> QED
    BY <2>3, <2>4
<1> QED
  BY <1>1, <1>2

-----------------------------------------------------------------------------
(* The list of the engine and the list on the screen. *)

LEMMA RaisedOnce ==
  ASSUME NEW list, list \subseteq AnyAlert, Unique(list), NEW fired \in SUBSET Rules,
         NEW level, \A r \in fired : level[r] \in Levels
  PROVE  /\ Raise(list, fired, level) \subseteq AnyAlert
         /\ Unique(Raise(list, fired, level))
         /\ \A r \in fired : Listed(Raise(list, fired, level), r)
         /\ \A r : Listed(list, r) => Listed(Raise(list, fired, level), r)
<1> DEFINE held(r) == {a.count : a \in {b \in list : b.rule = r}}
           counted(r) == Max(held(r) \cup {0})
           new(r) == [rule |-> r, level |-> level[r], count |-> counted(r) + 1]
           kept == {a \in list : a.rule \notin fired}
           raised == kept \cup {new(r) : r \in fired}
<1>0. Raise(list, fired, level) = raised
  BY DEF Raise
<1>1. ASSUME NEW r \in fired PROVE counted(r) \in Nat
  <2>1. CASE \E a \in list : a.rule = r
    <3>1. PICK a \in list : a.rule = r
      BY <2>1
    <3>2. {b \in list : b.rule = r} = {a}
      BY <3>1 DEF Unique
    <3>3. held(r) = {a.count}
      BY <3>2
    <3>4. a.count \in Nat
      BY DEF AnyAlert
    <3> QED
      BY <3>3, <3>4, Bigger
  <2>2. CASE ~\E a \in list : a.rule = r
    <3>1. held(r) = {}
      BY <2>2
    <3> QED
      BY <3>1, Bigger
  <2> QED
    BY <2>1, <2>2
<1> HIDE DEF counted
<1>2. \A r \in fired : new(r) \in AnyAlert /\ new(r).rule = r
  BY <1>1 DEF AnyAlert
<1> HIDE DEF new
<1>3. raised \subseteq AnyAlert
  BY <1>2
<1>4. Unique(raised)
  <2> SUFFICES ASSUME NEW a \in raised, NEW b \in raised, a.rule = b.rule PROVE a = b
    BY DEF Unique
  <2>1. CASE a \in kept /\ b \in kept
    BY <2>1 DEF Unique
  <2>2. CASE a \notin kept \/ b \notin kept
    <3>1. a.rule \in fired /\ b.rule \in fired
      BY <1>2, <2>2
    <3>2. a \notin kept /\ b \notin kept
      BY <3>1
    <3>3. a = new(a.rule) /\ b = new(b.rule)
      BY <1>2, <3>2
    <3> QED
      BY <3>3
  <2> QED
    BY <2>1, <2>2
<1>5. \A r \in fired : Listed(raised, r)
  BY <1>2 DEF Listed
<1>6. ASSUME NEW r, Listed(list, r) PROVE Listed(raised, r)
  <2>1. CASE r \in fired
    BY <1>5, <2>1
  <2>2. CASE r \notin fired
    BY <1>6, <2>2 DEF Listed
  <2> QED
    BY <2>1, <2>2
<1> HIDE DEF raised
<1> QED
  BY <1>0, <1>3, <1>4, <1>5, <1>6

\* Merging leaves what is shown backed by the list.
LEMMA MergeBacks ==
  ASSUME NEW list, list \subseteq AlertType, Unique(list), NEW view \in ViewType,
         \A r \in Rules : view[r] # None => Listed(list, r)
  PROVE  Merge(list, view) \in ViewType /\ Backed(list, Merge(list, view))
<1>1. \A r \in Rules : Merge(list, view)[r] =
        IF \E a \in Surfaced(list, view) : a.rule = r
        THEN [count |-> (CHOOSE a \in list : a.rule = r).count, unread |-> TRUE]
        ELSE view[r]
  BY DEF Merge
<1>2. ASSUME NEW r \in Rules, NEW a \in list, a.rule = r
      PROVE  (CHOOSE b \in list : b.rule = r) = a
  BY <1>2 DEF Unique
<1>3. ASSUME NEW r \in Rules, NEW a \in Surfaced(list, view), a.rule = r
      PROVE  /\ a \in list /\ a.count \in 0..MaxCount
             /\ Merge(list, view)[r] = [count |-> a.count, unread |-> TRUE]
  <2>1. a \in list
    BY DEF Surfaced
  <2>2. (CHOOSE b \in list : b.rule = r).count = a.count
    BY <1>2, <1>3, <2>1
  <2>3. a.count \in 0..MaxCount
    BY <2>1, BoundsAssumption DEF AlertType
  <2> QED
    BY <1>1, <1>3, <2>1, <2>2, <2>3
<1>4. Merge(list, view) \in ViewType
  <2>1. \A r \in Rules : Merge(list, view)[r] \in [count : 0..MaxCount, unread : BOOLEAN]
    <3> TAKE r \in Rules
    <3>1. CASE \E a \in Surfaced(list, view) : a.rule = r
      <4>1. PICK a \in Surfaced(list, view) : a.rule = r
        BY <3>1
      <4>2. Merge(list, view)[r] = [count |-> a.count, unread |-> TRUE] /\ a.count \in 0..MaxCount
        BY <1>3, <4>1
      <4> QED
        BY <4>2
    <3>2. CASE ~\E a \in Surfaced(list, view) : a.rule = r
      BY <1>1, <3>2 DEF ViewType
    <3> QED
      BY <3>1, <3>2
  <2>2. Merge(list, view) = [r \in Rules |-> Merge(list, view)[r]]
    BY DEF Merge
  <2> QED
    BY <2>1, <2>2 DEF ViewType
<1>5. ASSUME NEW r \in Rules, Merge(list, view)[r] # None
      PROVE  \E a \in list : a.rule = r /\ a.count = Merge(list, view)[r].count
  <2>1. CASE \E a \in Surfaced(list, view) : a.rule = r
    <3>1. PICK a \in Surfaced(list, view) : a.rule = r
      BY <2>1
    <3>2. a \in list /\ Merge(list, view)[r] = [count |-> a.count, unread |-> TRUE]
      BY <1>3, <3>1
    <3>3. Merge(list, view)[r].count = a.count
      BY <3>2
    <3> QED
      BY <3>1, <3>2, <3>3
  <2>2. CASE ~\E a \in Surfaced(list, view) : a.rule = r
    <3>1. Merge(list, view)[r] = view[r]
      BY <1>1, <2>2
    <3>2. PICK a \in list : a.rule = r
      BY <1>5, <3>1 DEF Listed
    <3>3. view[r].count = a.count
      BY <2>2, <3>2 DEF Surfaced
    <3> QED
      BY <3>1, <3>2, <3>3
  <2> QED
    BY <2>1, <2>2
<1> QED
  BY <1>4, <1>5 DEF Backed

-----------------------------------------------------------------------------
(* The engine's effect. *)

Level(reading, pairs) == [r \in Rules |-> LevelFor(r, reading[r], pairs[r])]
Fired(reading, off, pairs, snooze) ==
  {r \in Rules \ off : latch[r] = "none" /\ Level(reading, pairs)[r] # "none" /\ ~Snoozed(snooze, r)}
ClearedNow(reading, off, pairs) ==
  {r \in Rules : latch[r] # "none" /\ (r \in off \/ HasCleared(r, reading[r], pairs[r]))}

LEMMA Evaluated ==
  ASSUME NEW reading, NEW off, NEW pairs, NEW snooze, NEW view,
         Evaluate(TRUE, reading, off, pairs, snooze, view)
  PROVE  LET level == Level(reading, pairs)
             fired == Fired(reading, off, pairs, snooze)
             cleared == ClearedNow(reading, off, pairs)
         IN /\ latch' = [r \in Rules |-> IF r \in fired THEN level[r]
                                         ELSE IF r \in cleared THEN "none" ELSE latch[r]]
            /\ snoozed' = [r \in Rules |-> IF r \notin off /\ snooze[r] = "over" THEN "none"
                                           ELSE snooze[r]]
            /\ live' = {r \in Rules \ off : latch'[r] # "none" \/ level[r] # "none"}
            /\ alerts' = Raise(alerts, fired, level)
            /\ shown' = (IF alerts' = alerts THEN view ELSE Merge(alerts', view))
            /\ \A a \in alerts' : a.count <= MaxCount
            /\ announced' = (announced \ (cleared \cup off)) \cup fired
  BY DEF Evaluate, Level, Fired, ClearedNow

LEMMA NotEvaluated ==
  ASSUME NEW reading, NEW off, NEW pairs, NEW snooze, NEW view,
         Evaluate(FALSE, reading, off, pairs, snooze, view)
  PROVE  snoozed' = snooze /\ shown' = view /\ UNCHANGED <<latch, live, alerts, announced>>
  BY DEF Evaluate

\* What a run of the effect leaves: types, one alert per rule, a list on the screen that
\* is backed, and an alert for every rule it latched.
LEMMA EffectLists ==
  ASSUME TypeOK, OneAlertPerRule, NEW on \in BOOLEAN, NEW reading \in Readings,
         NEW off \in SUBSET Rules, NEW pairs, GoodLines(pairs), NEW snooze \in SnoozeType,
         NEW view \in ViewType, Backed(alerts, view),
         Evaluate(on, reading, off, pairs, snooze, view)
  PROVE  /\ latch' \in LatchType /\ snoozed' \in SnoozeType /\ live' \subseteq Rules
         /\ alerts' \subseteq AlertType /\ shown' \in ViewType /\ announced' \subseteq Rules
         /\ Unique(alerts') /\ Backed(alerts', shown')
         /\ \A r : Listed(alerts, r) => Listed(alerts', r)
         /\ \A r \in Rules : latch'[r] # "none" => latch[r] # "none" \/ Listed(alerts', r)
<1>t. /\ latch \in LatchType /\ alerts \subseteq AlertType /\ live \subseteq Rules
      /\ announced \subseteq Rules /\ Unique(alerts)
  BY TypesRead DEF OneAlertPerRule, Unique
<1>1. CASE on = FALSE
  <2>1. Evaluate(FALSE, reading, off, pairs, snooze, view)
    BY <1>1
  <2>2. snoozed' = snooze /\ shown' = view /\ UNCHANGED <<latch, live, alerts, announced>>
    BY <2>1, NotEvaluated
  <2> QED
    BY <1>t, <2>2
<1>2. CASE on = TRUE
  <2> DEFINE level == Level(reading, pairs)
             fired == Fired(reading, off, pairs, snooze)
             cleared == ClearedNow(reading, off, pairs)
  <2>1. Evaluate(TRUE, reading, off, pairs, snooze, view)
    BY <1>2
  <2>2. /\ latch' = [r \in Rules |-> IF r \in fired THEN level[r]
                                     ELSE IF r \in cleared THEN "none" ELSE latch[r]]
        /\ snoozed' = [r \in Rules |-> IF r \notin off /\ snooze[r] = "over" THEN "none"
                                       ELSE snooze[r]]
        /\ live' = {r \in Rules \ off : latch'[r] # "none" \/ level[r] # "none"}
        /\ alerts' = Raise(alerts, fired, level)
        /\ shown' = (IF alerts' = alerts THEN view ELSE Merge(alerts', view))
        /\ \A a \in alerts' : a.count <= MaxCount
        /\ announced' = (announced \ (cleared \cup off)) \cup fired
    BY <2>1, Evaluated
  <2>3. \A r \in Rules : level[r] \in Levels \cup {"none"}
    BY LevelNames DEF Level
  <2>4. fired \subseteq Rules /\ \A r \in fired : level[r] \in Levels
    BY <2>3 DEF Fired
  <2> HIDE DEF level, fired, cleared
  <2>5. alerts \subseteq AnyAlert
    BY <1>t, BoundsAssumption DEF AlertType, AnyAlert
  <2>6. /\ alerts' \subseteq AnyAlert /\ Unique(alerts')
        /\ \A r \in fired : Listed(alerts', r)
        /\ \A r : Listed(alerts, r) => Listed(alerts', r)
    BY <1>t, <2>2, <2>4, <2>5, RaisedOnce
  <2>7. alerts' \subseteq AlertType
    <3> SUFFICES ASSUME NEW a \in alerts' PROVE a \in AlertType
      OBVIOUS
    <3>1. a \in AnyAlert /\ a.count <= MaxCount
      BY <2>2, <2>6
    <3> QED
      BY <3>1, BoundsAssumption DEF AnyAlert, AlertType
  <2>8. shown' \in ViewType /\ Backed(alerts', shown')
    <3>1. CASE alerts' = alerts
      BY <2>2, <3>1
    <3>2. CASE alerts' # alerts
      <4>1. \A r \in Rules : view[r] # None => Listed(alerts', r)
        BY <2>6 DEF Backed, Listed
      <4>2. shown' = Merge(alerts', view)
        BY <2>2, <3>2
      <4> QED
        BY <2>6, <2>7, <4>1, <4>2, MergeBacks
    <3> QED
      BY <3>1, <3>2
  <2>9. latch' \in LatchType
    BY <1>t, <2>2, <2>3 DEF LatchType
  <2>10. snoozed' \in SnoozeType
    BY <2>2 DEF SnoozeType
  <2>11. live' \subseteq Rules /\ announced' \subseteq Rules
    BY <1>t, <2>2, <2>4
  <2>12. ASSUME NEW r \in Rules, latch'[r] # "none", latch[r] = "none" PROVE Listed(alerts', r)
    <3>1. r \in fired
      BY <2>2, <2>12
    <3> QED
      BY <2>6, <3>1
  <2> QED
    BY <2>6, <2>7, <2>8, <2>9, <2>10, <2>11, <2>12
<1> QED
  BY <1>1, <1>2

\* What it says of latches: a rule it lists is latched or snoozed, an announced rule is
\* latched, and a latch it ends was ended by a reading or by the switch.
LEMMA EffectLatches ==
  ASSUME TypeOK, LiveIsLatched, AnnouncedIsLatched, NEW on \in BOOLEAN, NEW reading \in Readings,
         NEW off \in SUBSET Rules, NEW pairs, GoodLines(pairs), NEW snooze \in SnoozeType,
         \A r \in Rules : snoozed[r] # "none" => snooze[r] # "none", NEW view,
         Evaluate(on, reading, off, pairs, snooze, view)
  PROVE  /\ LiveIsLatched' /\ AnnouncedIsLatched'
         /\ \A r \in Rules : latch[r] # "none" /\ latch'[r] = "none" =>
              /\ on
              /\ \/ r \in off
                 \/ /\ LevelFor(r, reading[r], pairs[r]) = "none"
                    /\ Margin[r] > 0 => reading[r] # Missing
<1>t. latch \in LatchType /\ live \subseteq Rules /\ announced \subseteq Rules
  BY TypesRead
<1>1. CASE on = FALSE
  <2>1. Evaluate(FALSE, reading, off, pairs, snooze, view)
    BY <1>1
  <2>2. snoozed' = snooze /\ UNCHANGED <<latch, live, announced>>
    BY <2>1, NotEvaluated
  <2>3. LiveIsLatched'
    BY <1>t, <2>2 DEF LiveIsLatched
  <2>4. AnnouncedIsLatched'
    BY <2>2 DEF AnnouncedIsLatched
  <2> QED
    BY <2>2, <2>3, <2>4
<1>2. CASE on = TRUE
  <2> DEFINE level == Level(reading, pairs)
             fired == Fired(reading, off, pairs, snooze)
             cleared == ClearedNow(reading, off, pairs)
  <2>1. Evaluate(TRUE, reading, off, pairs, snooze, view)
    BY <1>2
  <2>2. /\ latch' = [r \in Rules |-> IF r \in fired THEN level[r]
                                     ELSE IF r \in cleared THEN "none" ELSE latch[r]]
        /\ snoozed' = [r \in Rules |-> IF r \notin off /\ snooze[r] = "over" THEN "none"
                                       ELSE snooze[r]]
        /\ live' = {r \in Rules \ off : latch'[r] # "none" \/ level[r] # "none"}
        /\ alerts' = Raise(alerts, fired, level)
        /\ shown' = (IF alerts' = alerts THEN view ELSE Merge(alerts', view))
        /\ \A a \in alerts' : a.count <= MaxCount
        /\ announced' = (announced \ (cleared \cup off)) \cup fired
    BY <2>1, Evaluated
  <2>3. \A r \in Rules : level[r] = LevelFor(r, reading[r], pairs[r])
    BY DEF Level
  <2>4. \A r : r \in fired <=> /\ r \in Rules \ off /\ latch[r] = "none"
                               /\ level[r] # "none" /\ snooze[r] # "active"
    BY DEF Fired, Snoozed
  <2>5. \A r : r \in cleared <=> /\ r \in Rules /\ latch[r] # "none"
                                 /\ r \in off \/ HasCleared(r, reading[r], pairs[r])
    BY DEF ClearedNow
  <2> HIDE DEF level, fired, cleared
  <2>6. ASSUME NEW r \in Rules, HasCleared(r, reading[r], pairs[r])
        PROVE  level[r] = "none" /\ (Margin[r] > 0 => reading[r] # Missing)
    <3>1. reading[r] = Missing \/ reading[r] \in Nat
      BY ReadingTypes
    <3>2. pairs[r] \in LineType /\ (r \notin Discrete => Ordered(r, pairs[r]))
      BY DEF GoodLines
    <3> QED
      BY <2>3, <2>6, <3>1, <3>2, ClearedIsBack
  <2>7. ASSUME NEW r \in live' PROVE latch'[r] # "none" \/ snoozed'[r] # "none"
    <3>0. r \in Rules /\ r \notin off /\ (latch'[r] # "none" \/ level[r] # "none")
      BY <2>2, <2>7
    <3>1. CASE latch'[r] = "none"
      <4>1. level[r] # "none" /\ r \notin fired
        BY <2>2, <3>0, <3>1
      <4>2. r \notin cleared
        BY <2>5, <2>6, <3>0, <4>1
      <4>3. latch[r] = "none"
        BY <2>2, <3>0, <3>1, <4>1, <4>2
      <4>4. snooze[r] = "active"
        BY <2>4, <3>0, <4>1, <4>3
      <4> QED
        BY <2>2, <3>0, <4>4
    <3> QED
      BY <3>1
  <2>8. ASSUME NEW r \in announced' PROVE latch'[r] # "none"
    <3>1. CASE r \in fired
      BY <2>2, <2>4, <3>1
    <3>2. CASE r \notin fired
      <4>1. r \in announced /\ r \notin cleared /\ r \in Rules
        BY <1>t, <2>2, <2>8, <3>2
      <4>2. latch[r] # "none"
        BY <4>1 DEF AnnouncedIsLatched
      <4> QED
        BY <2>2, <3>2, <4>1, <4>2
    <3> QED
      BY <3>1, <3>2
  <2>9. ASSUME NEW r \in Rules, latch[r] # "none", latch'[r] = "none"
        PROVE  /\ on
               /\ \/ r \in off
                  \/ /\ LevelFor(r, reading[r], pairs[r]) = "none"
                     /\ Margin[r] > 0 => reading[r] # Missing
    <3>1. r \in cleared
      BY <2>2, <2>4, <2>9
    <3> QED
      BY <1>2, <2>3, <2>5, <2>6, <3>1
  <2> QED
    BY <2>7, <2>8, <2>9 DEF LiveIsLatched, AnnouncedIsLatched
<1> QED
  BY <1>1, <1>2

-----------------------------------------------------------------------------
(* The steps. *)

LEMMA ListsRead ==
  /\ OneAlertPerRule <=> Unique(alerts)
  /\ EngineAlertsSurface <=> Backed(alerts, shown)
  /\ LatchedIsAlerted <=> \A r \in Rules : latch[r] # "none" => torn \/ Listed(alerts, r)
  BY DEF OneAlertPerRule, Unique, EngineAlertsSurface, Backed, LatchedIsAlerted, Listed

LEMMA ListsWritten ==
  /\ OneAlertPerRule' <=> Unique(alerts')
  /\ EngineAlertsSurface' <=> Backed(alerts', shown')
  /\ LatchedIsAlerted' <=> \A r \in Rules : latch'[r] # "none" => torn' \/ Listed(alerts', r)
  BY DEF OneAlertPerRule, Unique, EngineAlertsSurface, Backed, LatchedIsAlerted, Listed

LEMMA LinesRead ==
  ASSUME TypeOK, LinesOrdered
  PROVE  GoodLines(thresholds)
  BY TypesRead DEF GoodLines, LinesOrdered

\* A key that is written during a reset tears it.
LEMMA SavedWhole ==
  ASSUME TypeOK, ErasedWhole, NEW keys, Saved(keys)
  PROVE  torn' \in BOOLEAN /\ (torn => torn') /\ erased' \subseteq Keys /\ ErasedWhole'
<1>1. torn \in BOOLEAN /\ erased \subseteq Keys
  BY TypesRead
<1>2. erased' = erased \ keys /\ torn' = (torn \/ (erased # {} /\ keys # {}))
  BY DEF Saved
<1>3. torn' \in BOOLEAN /\ (torn => torn')
  BY <1>1, <1>2
<1>4. erased' \subseteq Keys
  BY <1>1, <1>2
<1>5. ErasedWhole'
  <2>1. CASE erased = {}
    BY <1>2, <2>1 DEF ErasedWhole
  <2>2. CASE keys = {}
    <3>1. erased' = erased
      BY <1>2, <2>2
    <3> QED
      BY <1>3, <3>1 DEF ErasedWhole
  <2>3. CASE erased # {} /\ keys # {}
    BY <1>2, <2>3 DEF ErasedWhole
  <2> QED
    BY <2>1, <2>2, <2>3
<1> QED
  BY <1>3, <1>4, <1>5

LEMMA WrittenWhole ==
  ASSUME TypeOK, ErasedWhole, NEW keys, Written(keys)
  PROVE  torn' \in BOOLEAN /\ (torn => torn') /\ erased' \subseteq Keys /\ ErasedWhole'
  BY SavedWhole DEF Written

LEMMA StepsCounted ==
  ASSUME steps \in 0..MaxSteps, Step
  PROVE  steps' \in 0..MaxSteps
  BY BoundsAssumption DEF Step

\* A step that runs the effect.
LEMMA EffectStep ==
  ASSUME Holds, NEW on \in BOOLEAN, NEW reading \in Readings, NEW off \in SUBSET Rules,
         NEW pairs, GoodLines(pairs), NEW snooze \in SnoozeType,
         \A r \in Rules : snoozed[r] # "none" => snooze[r] # "none",
         NEW view \in ViewType, Backed(alerts, view),
         Evaluate(on, reading, off, pairs, snooze, view), NEW keys, Written(keys),
         enabled' \in BOOLEAN, armed' \in BOOLEAN, connected' \in BOOLEAN,
         fetches' \in Nat, strays' \in Nat, data' \in Readings,
         muted' = off, thresholds' = pairs, steps' \in 0..MaxSteps
  PROVE  Holds'
<1>h. /\ TypeOK /\ LinesOrdered /\ OneAlertPerRule /\ LatchedIsAlerted /\ EngineAlertsSurface
      /\ LiveIsLatched /\ AnnouncedIsLatched /\ ErasedWhole
  BY DEF Holds
<1>1. /\ latch' \in LatchType /\ snoozed' \in SnoozeType /\ live' \subseteq Rules
      /\ alerts' \subseteq AlertType /\ shown' \in ViewType /\ announced' \subseteq Rules
      /\ Unique(alerts') /\ Backed(alerts', shown')
      /\ \A r : Listed(alerts, r) => Listed(alerts', r)
      /\ \A r \in Rules : latch'[r] # "none" => latch[r] # "none" \/ Listed(alerts', r)
  BY <1>h, EffectLists
<1>2. LiveIsLatched' /\ AnnouncedIsLatched'
  BY <1>h, EffectLatches
<1>3. torn' \in BOOLEAN /\ (torn => torn') /\ erased' \subseteq Keys /\ ErasedWhole'
  BY <1>h, WrittenWhole
<1>4. TypeOK'
  BY <1>1, <1>3, TypesWritten DEF GoodLines
<1>5. LatchedIsAlerted'
  BY <1>h, <1>1, <1>3, ListsRead, ListsWritten
<1>6. LinesOrdered'
  BY DEF LinesOrdered, GoodLines
<1> QED
  BY <1>1, <1>2, <1>3, <1>4, <1>5, <1>6, ListsWritten DEF Holds

\* A step that leaves latches, alerts, settings and the list of live rules alone.
LEMMA QuietStep ==
  ASSUME Holds, UNCHANGED <<data, latch, settings, live, alerts, announced>>,
         snoozed' \in SnoozeType,
         \A r \in Rules : snoozed[r] # "none" => snoozed'[r] # "none",
         shown' \in ViewType, Backed(alerts, shown'),
         torn' \in BOOLEAN, torn => torn', erased' \subseteq Keys, ErasedWhole',
         enabled' \in BOOLEAN, armed' \in BOOLEAN, connected' \in BOOLEAN,
         fetches' \in Nat, strays' \in Nat, steps' \in 0..MaxSteps
  PROVE  Holds'
<1>h. /\ TypeOK /\ LinesOrdered /\ OneAlertPerRule /\ LatchedIsAlerted /\ EngineAlertsSurface
      /\ LiveIsLatched /\ AnnouncedIsLatched /\ ErasedWhole
  BY DEF Holds
<1>u. UNCHANGED <<data, latch, muted, thresholds, live, alerts, announced>>
  BY DEF settings
<1>1. TypeOK'
  BY <1>h, <1>u, TypesRead, TypesWritten
<1>2. LinesOrdered' /\ AnnouncedIsLatched'
  BY <1>h, <1>u DEF LinesOrdered, AnnouncedIsLatched
<1>3. LiveIsLatched'
  BY <1>h, <1>u, TypesRead DEF LiveIsLatched
<1>4. OneAlertPerRule' /\ EngineAlertsSurface'
  BY <1>h, <1>u, ListsRead, ListsWritten
<1>5. LatchedIsAlerted'
  BY <1>h, <1>u, ListsRead, ListsWritten
<1> QED
  BY <1>1, <1>2, <1>3, <1>4, <1>5 DEF Holds

LEMMA HoldsPoll ==
  ASSUME Holds, Poll
  PROVE  Holds'
<1>h. TypeOK /\ LinesOrdered /\ EngineAlertsSurface /\ ErasedWhole
  BY DEF Holds
<1>t. /\ enabled \in BOOLEAN /\ armed \in BOOLEAN /\ connected \in BOOLEAN /\ torn \in BOOLEAN
      /\ fetches \in Nat /\ strays \in Nat /\ snoozed \in SnoozeType /\ shown \in ViewType
      /\ erased \subseteq Keys /\ steps \in 0..MaxSteps /\ muted \subseteq Rules
  BY <1>h, TypesRead
<1>b. Backed(alerts, shown) /\ GoodLines(thresholds)
  BY <1>h, ListsRead, LinesRead
<1>1. CASE Succeed
  <2>0. PICK reading \in Readings :
          data' = reading /\ Evaluate(TRUE, reading, muted, thresholds, snoozed, shown)
    BY <1>1 DEF Succeed
  <2>2. enabled' \in BOOLEAN /\ armed' \in BOOLEAN /\ connected' \in BOOLEAN
    BY <1>1, <1>t DEF Succeed, Rearm
  <2>3. fetches' \in Nat /\ strays' \in Nat
    BY <1>1, <1>t DEF Succeed, Rearm
  <2>4. Written({}) /\ muted' = muted /\ thresholds' = thresholds /\ steps' = steps
    BY <1>1 DEF Succeed, settings
  <2> QED
    BY <1>t, <1>b, <2>0, <2>2, <2>3, <2>4, EffectStep
<1>2. CASE Fail
  <2>1. enabled' \in BOOLEAN /\ armed' \in BOOLEAN /\ connected' \in BOOLEAN
    BY <1>2, <1>t DEF Fail, Rearm
  <2>2. fetches' \in Nat /\ strays' \in Nat
    BY <1>2, <1>t DEF Fail, Rearm
  <2>3. /\ UNCHANGED <<data, latch, settings, live, alerts, announced>>
        /\ UNCHANGED <<snoozed, shown, erased, torn, steps>>
    BY <1>2 DEF Fail, Idle, lists
  <2>4. ErasedWhole'
    BY <1>h, <2>3 DEF ErasedWhole
  <2> QED
    BY <1>t, <1>b, <2>1, <2>2, <2>3, <2>4, QuietStep
<1>3. CASE Tick
  <2>1. enabled' \in BOOLEAN /\ armed' \in BOOLEAN /\ connected' \in BOOLEAN
    BY <1>3, <1>t DEF Tick
  <2>2. fetches' \in Nat /\ strays' \in Nat
    BY <1>3, <1>t DEF Tick
  <2>3. /\ UNCHANGED <<data, latch, settings, live, alerts, announced>>
        /\ UNCHANGED <<snoozed, shown, erased, torn, steps>>
    BY <1>3 DEF Tick, Idle, lists
  <2>4. ErasedWhole'
    BY <1>h, <2>3 DEF ErasedWhole
  <2> QED
    BY <1>t, <1>b, <2>1, <2>2, <2>3, <2>4, QuietStep
<1> QED
  BY <1>1, <1>2, <1>3 DEF Poll

LEMMA HoldsPause ==
  ASSUME Holds, Pause \/ Resume
  PROVE  Holds'
<1>h. TypeOK /\ EngineAlertsSurface /\ ErasedWhole
  BY DEF Holds
<1>t. /\ enabled \in BOOLEAN /\ armed \in BOOLEAN /\ connected \in BOOLEAN
      /\ fetches \in Nat /\ strays \in Nat /\ snoozed \in SnoozeType /\ shown \in ViewType
      /\ steps \in 0..MaxSteps
  BY <1>h, TypesRead
<1>b. Backed(alerts, shown)
  BY <1>h, ListsRead
<1>1. Saved({"enabled"}) /\ Step
  BY DEF Pause, Resume
<1>2. torn' \in BOOLEAN /\ (torn => torn') /\ erased' \subseteq Keys /\ ErasedWhole'
  BY <1>h, <1>1, SavedWhole
<1>3. /\ UNCHANGED <<data, latch, settings, live, alerts, announced>>
      /\ UNCHANGED <<snoozed, shown, strays>>
  BY DEF Pause, Resume, Idle, lists
<1>4. enabled' \in BOOLEAN /\ armed' \in BOOLEAN /\ connected' \in BOOLEAN
  BY <1>t DEF Pause, Resume
<1>f. fetches' \in Nat
  BY <1>t DEF Pause, Resume
<1>5. steps' \in 0..MaxSteps
  BY <1>t, <1>1, StepsCounted
<1> QED
  BY <1>t, <1>b, <1>2, <1>3, <1>4, <1>f, <1>5, QuietStep

LEMMA HoldsSettings ==
  ASSUME Holds,
         \/ ResetSettings
         \/ \E r \in Rules : SetCategoryEnabled(Category[r])
         \/ \E r \in Editable, field \in Levels, value \in 0..Full : SetThresholdField(r, field, value)
  PROVE  Holds'
<1>h. TypeOK /\ LinesOrdered /\ EngineAlertsSurface /\ ErasedWhole
  BY DEF Holds
<1>t. /\ enabled \in BOOLEAN /\ armed \in BOOLEAN /\ connected \in BOOLEAN
      /\ fetches \in Nat /\ strays \in Nat /\ snoozed \in SnoozeType /\ shown \in ViewType
      /\ steps \in 0..MaxSteps /\ muted \subseteq Rules /\ data \in Readings
      /\ thresholds \in [Rules -> LineType]
  BY <1>h, TypesRead
<1>b. Backed(alerts, shown) /\ GoodLines(thresholds)
  BY <1>h, ListsRead, LinesRead
<1>1. CASE ResetSettings
  <2>1. /\ Evaluate(connected, data, {}, Default, snoozed, shown)
        /\ Written({"muted", "thresholds", "enabled"}) /\ Step
        /\ muted' = {} /\ thresholds' = Default /\ enabled' = TRUE
        /\ UNCHANGED <<armed, strays, connected, data>>
    BY <1>1 DEF ResetSettings
  <2>2. fetches' \in Nat
    BY <1>1, <1>t DEF ResetSettings
  <2>3. GoodLines(Default)
    BY DefaultAssumption DEF GoodLines, LineType
  <2>4. steps' \in 0..MaxSteps
    BY <1>t, <2>1, StepsCounted
  <2> QED
    BY <1>t, <1>b, <2>1, <2>2, <2>3, <2>4, EffectStep
<1>2. ASSUME NEW c, SetCategoryEnabled(c)
      PROVE  Holds'
  <2>1. /\ Evaluate(connected, data, muted', thresholds, snoozed, shown)
        /\ Written({"muted"}) /\ Step
        /\ thresholds' = thresholds
        /\ UNCHANGED <<enabled, armed, strays, connected, data, fetches>>
    BY <1>2 DEF SetCategoryEnabled, client
  <2>2. muted' \subseteq Rules
    BY <1>2, <1>t DEF SetCategoryEnabled
  <2>3. steps' \in 0..MaxSteps
    BY <1>t, <2>1, StepsCounted
  <2> QED
    BY <1>t, <1>b, <2>1, <2>2, <2>3, EffectStep
<1>3. ASSUME NEW r \in Editable, NEW field \in Levels, NEW value \in 0..Full,
             SetThresholdField(r, field, value)
      PROVE  Holds'
  <2> DEFINE new == ApplyThresholdEdit(Comparison(r), thresholds[r], field, value)
  <2>1. /\ Evaluate(connected, data, muted, thresholds', snoozed, shown)
        /\ Written({"thresholds"}) /\ Step
        /\ muted' = muted /\ thresholds' = [thresholds EXCEPT ![r] = new]
        /\ UNCHANGED <<enabled, armed, strays, connected, data, fetches>>
    BY <1>3 DEF SetThresholdField, client
  <2>2. r \in Rules \ Discrete
    BY RulesAssumption
  <2>3. thresholds[r] \in Pairs /\ Ordered(r, thresholds[r])
    BY <1>b, <2>2 DEF GoodLines
  <2>4. new \in Pairs /\ Ordered(r, new)
    BY <2>2, <2>3, EditIsOrdered
  <2>5. new \in LineType
    BY <2>4, ScaleAssumption DEF Pairs, LineType
  <2> HIDE DEF new
  <2>6. GoodLines(thresholds')
    <3>1. thresholds' \in [Rules -> LineType]
      BY <1>t, <2>1, <2>5
    <3>2. \A q \in Rules : thresholds'[q] = IF q = r THEN new ELSE thresholds[q]
      BY <1>t, <2>1
    <3> QED
      BY <1>b, <2>4, <3>1, <3>2, RulesAssumption DEF GoodLines
  <2>7. steps' \in 0..MaxSteps
    BY <1>t, <2>1, StepsCounted
  <2> QED
    BY <1>t, <1>b, <2>1, <2>6, <2>7, EffectStep
<1> QED
  BY <1>1, <1>2, <1>3

\* The user's list: what is acknowledged, dismissed or snoozed stays backed.
LEMMA HoldsList ==
  ASSUME Holds,
         \/ ChangeNotifications
         \/ \E r \in Rules : Acknowledge(r) \/ Dismiss(r) \/ Snooze(r) \/ DayPasses(r)
  PROVE  Holds'
<1>h. TypeOK /\ LinesOrdered /\ OneAlertPerRule /\ EngineAlertsSurface /\ ErasedWhole
  BY DEF Holds
<1>t. /\ enabled \in BOOLEAN /\ armed \in BOOLEAN /\ connected \in BOOLEAN /\ torn \in BOOLEAN
      /\ fetches \in Nat /\ strays \in Nat /\ snoozed \in SnoozeType /\ shown \in ViewType
      /\ steps \in 0..MaxSteps /\ muted \subseteq Rules /\ data \in Readings
      /\ erased \subseteq Keys /\ alerts \subseteq AlertType
  BY <1>h, TypesRead
<1>b. Backed(alerts, shown) /\ Unique(alerts) /\ GoodLines(thresholds)
  BY <1>h, ListsRead, LinesRead
<1>n. None \in [count : 0..MaxCount, unread : BOOLEAN]
  BY BoundsAssumption DEF None
\* Steps of the list alone.
<1>q. ASSUME UNCHANGED <<client, data, latch, settings, snoozed, live, alerts, erased, announced, torn>>,
             Step, shown' \in ViewType, Backed(alerts, shown')
      PROVE  Holds'
  <2>1. UNCHANGED <<enabled, fetches, armed, strays, connected>>
    BY <1>q DEF client
  <2>2. steps' \in 0..MaxSteps
    BY <1>t, <1>q, StepsCounted
  <2>3. ErasedWhole'
    BY <1>h, <1>q DEF ErasedWhole
  <2> QED
    BY <1>t, <1>q, <2>1, <2>2, <2>3, QuietStep
<1>1. CASE ChangeNotifications
  <2>1. \A r \in Rules : shown[r] # None => Listed(alerts, r)
    BY <1>b DEF Backed, Listed
  <2>2. Merge(alerts, shown) \in ViewType /\ Backed(alerts, Merge(alerts, shown))
    BY <1>t, <1>b, <2>1, MergeBacks
  <2> QED
    BY <1>1, <1>q, <2>2 DEF ChangeNotifications
<1>v. ASSUME NEW r \in Rules, shown[r] # None
      PROVE  /\ [shown EXCEPT ![r].unread = FALSE] \in ViewType
             /\ Backed(alerts, [shown EXCEPT ![r].unread = FALSE])
  <2> DEFINE view == [shown EXCEPT ![r].unread = FALSE]
             read == [shown[r] EXCEPT !.unread = FALSE]
  <2>1. shown[r] \in [count : 0..MaxCount, unread : BOOLEAN]
    BY <1>t DEF ViewType
  <2>2. read \in [count : 0..MaxCount, unread : BOOLEAN] /\ read.count = shown[r].count
    BY <2>1
  <2>3. view = [shown EXCEPT ![r] = read]
    OBVIOUS
  <2> HIDE DEF view, read
  <2>4. view \in ViewType
    BY <1>t, <2>2, <2>3 DEF ViewType
  <2>5. \A q \in Rules : view[q] = IF q = r THEN read ELSE shown[q]
    BY <1>t, <2>3 DEF ViewType
  <2>6. Backed(alerts, view)
    BY <1>b, <1>v, <2>2, <2>5 DEF Backed
  <2> QED
    BY <2>4, <2>6 DEF view
<1>2. ASSUME NEW r \in Rules, Acknowledge(r)
      PROVE  Holds'
  <2>1. shown[r] # None
    BY <1>2 DEF Acknowledge, None
  <2> QED
    BY <1>2, <1>q, <1>v, <2>1 DEF Acknowledge
<1>3. ASSUME NEW r \in Rules, Dismiss(r)
      PROVE  Holds'
  <2>1. shown' = [shown EXCEPT ![r] = None]
    BY <1>3 DEF Dismiss
  <2>2. shown' \in ViewType
    BY <1>t, <1>n, <2>1 DEF ViewType
  <2>3. \A q \in Rules : shown'[q] = IF q = r THEN None ELSE shown[q]
    BY <1>t, <2>1 DEF ViewType
  <2>4. Backed(alerts, shown')
    BY <1>b, <2>3 DEF Backed
  <2> QED
    BY <1>3, <1>q, <2>2, <2>4 DEF Dismiss
<1>4. ASSUME NEW r \in Rules, Snooze(r)
      PROVE  Holds'
  <2> DEFINE view == [shown EXCEPT ![r].unread = FALSE]
             snooze == [snoozed EXCEPT ![r] = "active"]
  <2>1. /\ shown[r] # None
        /\ Evaluate(connected, data, muted, thresholds, snooze, view)
        /\ Written({"snoozed"}) /\ Step
        /\ UNCHANGED <<client, data, settings>>
    BY <1>4 DEF Snooze
  <2>2. view \in ViewType /\ Backed(alerts, view)
    BY <1>v, <2>1
  <2>3. snooze \in SnoozeType
    BY <1>t DEF SnoozeType
  <2>4. \A q \in Rules : snoozed[q] # "none" => snooze[q] # "none"
    BY <1>t DEF SnoozeType
  <2>5. steps' \in 0..MaxSteps
    BY <1>t, <2>1, StepsCounted
  <2>6. UNCHANGED <<enabled, fetches, armed, strays, connected, data, muted, thresholds>>
    BY <2>1 DEF client, settings
  <2> HIDE DEF view, snooze
  <2> QED
    BY <1>h, <1>t, <1>b, <2>1, <2>2, <2>3, <2>4, <2>5, <2>6, EffectStep
<1>5. ASSUME NEW r \in Rules, DayPasses(r)
      PROVE  Holds'
  <2>1. /\ snoozed[r] = "active" /\ snoozed' = [snoozed EXCEPT ![r] = "over"]
        /\ UNCHANGED <<client, data, latch, settings, live, lists, erased, announced, torn, steps>>
    BY <1>5 DEF DayPasses
  <2>2. UNCHANGED <<enabled, fetches, armed, strays, connected, alerts, shown>>
    BY <2>1 DEF client, lists
  <2>3. snoozed' \in SnoozeType
    BY <1>t, <2>1 DEF SnoozeType
  <2>4. \A q \in Rules : snoozed[q] # "none" => snoozed'[q] # "none"
    BY <1>t, <2>1 DEF SnoozeType
  <2>5. ErasedWhole'
    BY <1>h, <2>1 DEF ErasedWhole
  <2> QED
    BY <1>t, <1>b, <2>1, <2>2, <2>3, <2>4, <2>5, QuietStep
<1> QED
  BY <1>1, <1>2, <1>3, <1>4, <1>5

LEMMA NothingShown ==
  /\ [r \in Rules |-> None] \in ViewType
  /\ \A list : Backed(list, [r \in Rules |-> None])
<1>1. None \in [count : 0..MaxCount, unread : BOOLEAN]
  BY BoundsAssumption DEF None
<1> QED
  BY <1>1 DEF ViewType, Backed

LEMMA NothingLatched == Unlatched \in LatchType /\ Awake \in SnoozeType
  BY DEF Unlatched, Awake, LatchType, SnoozeType

\* A reset removes the keys together; a reload reads what is left of them.
LEMMA HoldsReset ==
  ASSUME Holds, ClearStorage \/ Reload
  PROVE  Holds'
<1>h. /\ TypeOK /\ LinesOrdered /\ OneAlertPerRule /\ EngineAlertsSurface /\ ErasedWhole
      /\ LatchedIsAlerted /\ AnnouncedIsLatched
  BY DEF Holds
<1>t. /\ enabled \in BOOLEAN /\ armed \in BOOLEAN /\ connected \in BOOLEAN /\ torn \in BOOLEAN
      /\ fetches \in Nat /\ strays \in Nat /\ snoozed \in SnoozeType /\ shown \in ViewType
      /\ steps \in 0..MaxSteps /\ muted \subseteq Rules /\ data \in Readings
      /\ erased \subseteq Keys /\ alerts \subseteq AlertType /\ latch \in LatchType
      /\ announced \subseteq Rules /\ thresholds \in [Rules -> LineType]
  BY <1>h, TypesRead
<1>b. Backed(alerts, shown) /\ Unique(alerts) /\ GoodLines(thresholds)
  BY <1>h, ListsRead, LinesRead
<1>1. CASE ClearStorage
  <2>1. /\ erased' = Keys /\ Step
        /\ UNCHANGED <<client, data, latch, settings, snoozed, live, lists, announced, torn>>
    BY <1>1 DEF ClearStorage
  <2>2. UNCHANGED <<enabled, fetches, armed, strays, connected, alerts, shown>>
    BY <2>1 DEF client, lists
  <2>3. ErasedWhole'
    BY <2>1 DEF ErasedWhole
  <2>4. steps' \in 0..MaxSteps
    BY <1>t, <2>1, StepsCounted
  <2> QED
    BY <1>t, <1>b, <2>1, <2>2, <2>3, <2>4, QuietStep
<1>2. CASE Reload
  <2>1. /\ enabled' = (IF "enabled" \in erased THEN TRUE ELSE enabled)
        /\ latch' = (IF "latch" \in erased THEN Unlatched ELSE latch)
        /\ muted' = (IF "muted" \in erased THEN {} ELSE muted)
        /\ thresholds' = (IF "thresholds" \in erased THEN Default ELSE thresholds)
        /\ snoozed' = (IF "snoozed" \in erased THEN Awake ELSE snoozed)
        /\ alerts' = (IF "alerts" \in erased THEN {} ELSE alerts)
    BY <1>2 DEF Reload, Stored
  <2>2. /\ fetches' = (IF enabled' THEN 1 ELSE 0)
        /\ armed' = FALSE /\ strays' = 0 /\ connected' = FALSE
        /\ data' = [r \in Rules |-> Missing]
        /\ live' = {} /\ erased' = {}
        /\ shown' = Merge(alerts', [r \in Rules |-> None])
        /\ announced' = (IF "latch" \in erased THEN {} ELSE announced)
        /\ torn' = (torn /\ erased # Keys) /\ Step
    BY <1>2 DEF Reload
  <2>3. alerts' \subseteq AlertType /\ Unique(alerts')
    BY <1>t, <1>b, <2>1 DEF Unique
  <2>4. shown' \in ViewType /\ Backed(alerts', shown')
    <3>1. \A r \in Rules : [q \in Rules |-> None][r] = None
      OBVIOUS
    <3> QED
      BY <2>2, <2>3, <3>1, NothingShown, MergeBacks
  <2>5. GoodLines(Default)
    BY DefaultAssumption DEF GoodLines, LineType
  <2>6. GoodLines(thresholds')
    BY <1>b, <2>1, <2>5
  <2>7. /\ thresholds' \in [Rules -> LineType]
        /\ \A r \in Editable : thresholds'[r] \in Pairs
    BY <2>6 DEF GoodLines
  <2>8. latch' \in LatchType /\ snoozed' \in SnoozeType /\ muted' \subseteq Rules
    BY <1>t, <2>1, NothingLatched
  <2>9. enabled' \in BOOLEAN /\ torn' \in BOOLEAN /\ announced' \subseteq Rules
    BY <1>t, <2>1, <2>2
  <2>10. steps' \in 0..MaxSteps /\ data' \in Readings /\ fetches' \in Nat /\ strays' \in Nat
    BY <1>t, <2>2, StepsCounted, NothingRead
  <2>11. erased' \subseteq Keys /\ live' \subseteq Rules /\ armed' \in BOOLEAN /\ connected' \in BOOLEAN
    BY <2>2
  <2>12. TypeOK'
    BY <2>3, <2>4, <2>7, <2>8, <2>9, <2>10, <2>11, TypesWritten
  <2>13. LinesOrdered'
    BY <2>6 DEF GoodLines, LinesOrdered
  <2>14. LatchedIsAlerted'
    <3> SUFFICES ASSUME NEW r \in Rules, latch'[r] # "none" PROVE torn' \/ Listed(alerts', r)
      BY ListsWritten
    <3>1. "latch" \notin erased /\ latch' = latch
      BY <2>1 DEF Unlatched
    <3>2. erased # Keys
      BY <3>1 DEF Keys
    <3>3. CASE torn
      BY <2>2, <3>2, <3>3
    <3>4. CASE ~torn
      <4>1. erased = {}
        BY <1>h, <3>2, <3>4 DEF ErasedWhole
      <4>2. alerts' = alerts
        BY <2>1, <4>1
      <4>3. Listed(alerts, r)
        BY <1>h, <3>1, <3>4, ListsRead
      <4> QED
        BY <4>2, <4>3
    <3> QED
      BY <3>3, <3>4
  <2>15. AnnouncedIsLatched'
    BY <1>h, <2>1, <2>2 DEF AnnouncedIsLatched
  <2>16. LiveIsLatched' /\ ErasedWhole'
    BY <2>2 DEF LiveIsLatched, ErasedWhole
  <2> QED
    BY <2>3, <2>4, <2>12, <2>13, <2>14, <2>15, <2>16, ListsWritten DEF Holds
<1> QED
  BY <1>1, <1>2

LEMMA HoldsFirst ==
  ASSUME Init
  PROVE  Holds
<1>1. /\ enabled = TRUE /\ fetches = 1 /\ armed = FALSE /\ strays = 0 /\ connected = FALSE
      /\ data = [r \in Rules |-> Missing] /\ latch = Unlatched
      /\ muted = {} /\ thresholds = Default /\ snoozed = Awake /\ live = {}
      /\ alerts = {} /\ shown = [r \in Rules |-> None]
      /\ erased = {} /\ announced = {} /\ torn = FALSE /\ steps = 0
  BY DEF Init
<1>2. \A r \in Rules : latch[r] = "none" /\ shown[r] = None
  BY <1>1 DEF Unlatched
<1>3. thresholds \in [Rules -> LineType] /\ (\A r \in Editable : thresholds[r] \in Pairs) /\ LinesOrdered
  BY <1>1, DefaultAssumption DEF LineType, LinesOrdered
<1>4. data \in Readings /\ latch \in LatchType /\ snoozed \in SnoozeType /\ shown \in ViewType
  BY <1>1, NothingRead, NothingLatched, NothingShown
<1>5. steps \in 0..MaxSteps
  BY <1>1, BoundsAssumption
<1>6. TypeOK
  BY <1>1, <1>3, <1>4, <1>5 DEF TypeOK, LatchType, LineType, SnoozeType, ViewType
<1>7. OneAlertPerRule /\ LiveIsLatched /\ AnnouncedIsLatched /\ ErasedWhole
  BY <1>1 DEF OneAlertPerRule, LiveIsLatched, AnnouncedIsLatched, ErasedWhole
<1>8. LatchedIsAlerted /\ EngineAlertsSurface
  BY <1>2 DEF LatchedIsAlerted, EngineAlertsSurface
<1> QED
  BY <1>3, <1>6, <1>7, <1>8 DEF Holds

LEMMA HoldsStill ==
  ASSUME Holds, UNCHANGED vars
  PROVE  Holds'
<1>h. TypeOK /\ EngineAlertsSurface /\ ErasedWhole
  BY DEF Holds
<1>u. /\ UNCHANGED <<enabled, fetches, armed, strays, connected>>
      /\ UNCHANGED <<data, latch, settings, live, alerts, announced>>
      /\ UNCHANGED <<snoozed, shown, erased, torn, steps>>
  BY DEF vars, client, lists
<1>1. ErasedWhole'
  BY <1>h, <1>u DEF ErasedWhole
<1> QED
  BY <1>h, <1>u, <1>1, TypesRead, ListsRead, QuietStep

LEMMA HoldsNext ==
  ASSUME Holds, [Next]_vars
  PROVE  Holds'
<1>1. CASE Poll
  BY <1>1, HoldsPoll
<1>2. CASE Switches
  BY <1>2, HoldsPause, HoldsSettings, HoldsList, HoldsReset DEF Switches
<1>3. CASE UNCHANGED vars
  BY <1>3, HoldsStill
<1> QED
  BY <1>1, <1>2, <1>3, HoldsSettings, HoldsList DEF Next

LEMMA HoldsAlways == Spec => []Holds
  BY HoldsFirst, HoldsNext, PTL DEF Spec

\* Every variable of the alert engine keeps its type; the thresholds that Settings
\* edits stay on the scale.
THEOREM AlertTypes == Spec => []TypeOK
<1>1. Holds => TypeOK
  BY DEF Holds
<1> QED
  BY <1>1, HoldsAlways, PTL

\* The latches, the engine's alerts and the list on the screen tell the same story,
\* however they are saved, reset and reloaded apart.
THEOREM AlertsAgreeAlways == Spec => []AlertsAgree
<1>1. ASSUME Holds PROVE AlertsAgree
  <2>1. snoozed \in SnoozeType
    BY <1>1, TypesRead DEF Holds
  <2>2. ASSUME NEW r \in DismissedButActive PROVE latch[r] # "none" \/ snoozed[r] = "over"
    <3>1. r \in live /\ snoozed[r] # "active" /\ r \in Rules
      BY <1>1, TypesRead DEF DismissedButActive, Snoozed, Holds
    <3>2. latch[r] # "none" \/ snoozed[r] # "none"
      BY <1>1, <3>1 DEF Holds, LiveIsLatched
    <3> QED
      BY <2>1, <3>1, <3>2 DEF SnoozeType
  <2>3. BannerRulesAreHeld
    BY <2>2 DEF BannerRulesAreHeld
  <2> QED
    BY <1>1, <2>3 DEF AlertsAgree, Holds
<1> QED
  BY <1>1, HoldsAlways, PTL

\* A rule that has fired does not fire again for the same crossing.
THEOREM CrossingsAlertOnce == Spec => OneAlertPerCrossing
<1>1. ASSUME Holds
      PROVE  \A r \in Rules : latch[r] = "none" /\ latch'[r] # "none" => r \notin announced
  BY <1>1 DEF Holds, AnnouncedIsLatched
<1> QED
  BY <1>1, HoldsAlways, PTL DEF OneAlertPerCrossing

\* What ends a rule's latch in a step.
Released(r) ==
  (Margin[r] > 0 /\ latch[r] # "none" /\ latch'[r] = "none") =>
       \/ r \in muted'
       \/ connected' /\ data'[r] # Missing /\ LevelFor(r, data'[r], thresholds'[r]) = "none"
       \/ "latch" \in erased

\* The effect releases a latch for a reading or a switch only.
LEMMA EffectReleases ==
  ASSUME Holds, data' \in Readings, connected' \in BOOLEAN, muted' \subseteq Rules,
         GoodLines(thresholds'), NEW snooze \in SnoozeType,
         \A r \in Rules : snoozed[r] # "none" => snooze[r] # "none", NEW view,
         Evaluate(connected', data', muted', thresholds', snooze, view)
  PROVE  \A r \in Rules : Released(r)
<1>1. \A r \in Rules : latch[r] # "none" /\ latch'[r] = "none" =>
        /\ connected'
        /\ \/ r \in muted'
           \/ /\ LevelFor(r, data'[r], thresholds'[r]) = "none"
              /\ Margin[r] > 0 => data'[r] # Missing
  BY EffectLatches DEF Holds
<1> QED
  BY <1>1 DEF Released

LEMMA StepReleases ==
  ASSUME Holds, [Next]_vars
  PROVE  \A r \in Rules : Released(r)
<1>h. TypeOK /\ LinesOrdered /\ EngineAlertsSurface
  BY DEF Holds
<1>g. GoodLines(thresholds') /\ data' \in Readings /\ connected' \in BOOLEAN /\ muted' \subseteq Rules
  <2>1. Holds'
    BY HoldsNext
  <2>2. TypeOK' /\ LinesOrdered'
    BY <2>1 DEF Holds
  <2> QED
    BY <2>2 DEF TypeOK, LinesOrdered, GoodLines, LineType
<1>t. snoozed \in SnoozeType
  BY <1>h, TypesRead
<1>s. \A r \in Rules : snoozed[r] # "none" => snoozed[r] # "none"
  OBVIOUS
\* Steps that leave the latches alone.
<1>q. ASSUME latch' = latch PROVE \A r \in Rules : Released(r)
  BY <1>q DEF Released
<1>1. CASE Succeed
  <2>1. PICK reading \in Readings :
          data' = reading /\ Evaluate(TRUE, reading, muted, thresholds, snoozed, shown)
    BY <1>1 DEF Succeed
  <2>2. connected' = TRUE /\ muted' = muted /\ thresholds' = thresholds
    BY <1>1 DEF Succeed, settings
  <2>3. Evaluate(connected', data', muted', thresholds', snoozed, shown)
    BY <2>1, <2>2
  <2> QED
    BY <1>g, <1>t, <1>s, <2>3, EffectReleases
<1>2. CASE Fail \/ Tick \/ Pause \/ Resume \/ ChangeNotifications \/ ClearStorage
  BY <1>2, <1>q DEF Fail, Tick, Pause, Resume, ChangeNotifications, ClearStorage, Idle
<1>3. CASE Reload
  <2>1. latch' = IF "latch" \in erased THEN Unlatched ELSE latch
    BY <1>3 DEF Reload, Stored
  <2> QED
    BY <2>1 DEF Released
<1>4. CASE ResetSettings
  <2>1. Evaluate(connected, data, {}, Default, snoozed, shown)
    BY <1>4 DEF ResetSettings
  <2>2. connected' = connected /\ data' = data /\ muted' = {} /\ thresholds' = Default
    BY <1>4 DEF ResetSettings
  <2>3. Evaluate(connected', data', muted', thresholds', snoozed, shown)
    BY <2>1, <2>2
  <2> QED
    BY <1>g, <1>t, <1>s, <2>3, EffectReleases
<1>5. ASSUME NEW c, SetCategoryEnabled(c) PROVE \A r \in Rules : Released(r)
  <2>1. Evaluate(connected, data, muted', thresholds, snoozed, shown)
    BY <1>5 DEF SetCategoryEnabled
  <2>2. connected' = connected /\ data' = data /\ thresholds' = thresholds
    BY <1>5 DEF SetCategoryEnabled, client
  <2>3. Evaluate(connected', data', muted', thresholds', snoozed, shown)
    BY <2>1, <2>2
  <2> QED
    BY <1>g, <1>t, <1>s, <2>3, EffectReleases
<1>6. ASSUME NEW r, NEW field, NEW value, SetThresholdField(r, field, value)
      PROVE  \A q \in Rules : Released(q)
  <2>1. Evaluate(connected, data, muted, thresholds', snoozed, shown)
    BY <1>6 DEF SetThresholdField
  <2>2. connected' = connected /\ data' = data /\ muted' = muted
    BY <1>6 DEF SetThresholdField, client
  <2>3. Evaluate(connected', data', muted', thresholds', snoozed, shown)
    BY <2>1, <2>2
  <2> QED
    BY <1>g, <1>t, <1>s, <2>3, EffectReleases
<1>7. ASSUME NEW r \in Rules, Acknowledge(r) \/ Dismiss(r) \/ DayPasses(r)
      PROVE  \A q \in Rules : Released(q)
  BY <1>7, <1>q DEF Acknowledge, Dismiss, DayPasses
<1>8. ASSUME NEW r \in Rules, Snooze(r) PROVE \A q \in Rules : Released(q)
  <2> DEFINE snooze == [snoozed EXCEPT ![r] = "active"]
             view == [shown EXCEPT ![r].unread = FALSE]
  <2>1. Evaluate(connected, data, muted, thresholds, snooze, view)
    BY <1>8 DEF Snooze
  <2>2. connected' = connected /\ data' = data /\ muted' = muted /\ thresholds' = thresholds
    BY <1>8 DEF Snooze, client, settings
  <2>3. snooze \in SnoozeType /\ \A q \in Rules : snoozed[q] # "none" => snooze[q] # "none"
    BY <1>t DEF SnoozeType
  <2> HIDE DEF snooze, view
  <2>4. Evaluate(connected', data', muted', thresholds', snooze, view)
    BY <2>1, <2>2
  <2> QED
    BY <1>g, <2>3, <2>4, EffectReleases
<1>9. CASE UNCHANGED vars
  BY <1>9, <1>q DEF vars
<1> QED
  BY <1>1, <1>2, <1>3, <1>4, <1>5, <1>6, <1>7, <1>8, <1>9 DEF Next, Poll, Switches

\* A missing reading never ends the latch of a rule with a margin.
THEOREM LatchesSurviveSilence == Spec => LatchSurvivesSilence
<1>1. ASSUME Holds, [Next]_vars
      PROVE  \A r \in Rules : (Margin[r] > 0 /\ latch[r] # "none" /\ latch'[r] = "none") =>
               \/ r \in muted'
               \/ connected' /\ data'[r] # Missing /\ LevelFor(r, data'[r], thresholds'[r]) = "none"
               \/ "latch" \in erased
  BY <1>1, StepReleases DEF Released
<1> QED
  BY <1>1, HoldsAlways, PTL DEF Spec, LatchSurvivesSilence
=============================================================================
