--------------------------- MODULE SelfUpdateProofs ---------------------------
(***************************************************************************)
(* What holds of SelfUpdate for every number of releases, updates, faults  *)
(* and required heartbeats.                                                *)
(*                                                                         *)
(* The shared file is read, held and written back by the agent and the     *)
(* watchdog at will, so whatever is to hold of it must hold of every copy: *)
(* a good update returns to an older release, and has no heartbeats before *)
(* the first start of the agent after it.                                  *)
(***************************************************************************)
EXTENDS SelfUpdate, TLAPS

-----------------------------------------------------------------------------
GoodUpdates ==
  {p \in Updates : /\ p.attempt # 0 => p.prev < p.to
                   /\ p.starts = 0 => p.beats = 0}

GoodStates == [accepted : Releases, pending : GoodUpdates]

AgentPcs == {"down", "cycle", "deadline", "rollback", "update", "fetch", "launch"}

AgentRecs == [pc : AgentPcs, release : Releases, target : Releases, state : GoodStates,
              life : 0..HeartbeatsRequired]

Late(p, n) == p.attempt \in 1..n

FileHolds ==
  /\ file \in GoodStates
  /\ memory \in GoodUpdates
  /\ memory # NoUpdate => memory.starts # 0

AgentHolds ==
  /\ agent \in AgentRecs
  /\ memory.beats <= agent.life
  /\ agent.pc \in {"fetch", "launch"} => agent.state.accepted < agent.target /\ attempts < MaxAttempts
  /\ agent.pc = "rollback" => Late(memory, overdue)

WatchdogHolds ==
  /\ watchdog \in [pc : {"idle", "read", "claim", "download"}, file : GoodStates]
  /\ watchdog.pc \in {"claim", "download"} => Late(watchdog.file.pending, overdue)

InstallHolds ==
  /\ installed \in Releases
  /\ installers \subseteq [by : {"agent", "watchdog"}, kind : {"update", "rollback"},
                            release : Releases, pc : {"stop", "copy"}]

CountersHold ==
  /\ published \in Releases
  /\ attempts \in Attempts /\ overdue \in 0..attempts
  /\ faults \in 0..MaxFaults
  /\ rollbacks \in [Attempts -> 0..2]
  /\ RollbackIsLate

Holds == FileHolds /\ AgentHolds /\ WatchdogHolds /\ InstallHolds /\ CountersHold

-----------------------------------------------------------------------------
(* Copies of the file. *)

LEMMA Constants ==
  /\ HeartbeatsRequired \in Nat /\ HeartbeatsRequired > 0
  /\ MaxRelease \in Nat /\ MaxAttempts \in Nat /\ MaxFaults \in Nat
  /\ 0 \in Releases /\ 0 \in Attempts
  BY HeartbeatsAssumption, BoundsAssumption DEF Releases, Attempts

LEMMA GoodUpdateFields ==
  ASSUME NEW p \in GoodUpdates
  PROVE  /\ p.attempt \in Attempts /\ p.to \in Releases /\ p.prev \in Releases
         /\ p.beats \in 0..HeartbeatsRequired /\ p.starts \in 0..2 /\ p.claimed \in BOOLEAN
         /\ p.attempt # 0 => p.prev < p.to
         /\ p.starts = 0 => p.beats = 0
  BY DEF GoodUpdates, Updates

LEMMA MakeGoodUpdate ==
  ASSUME NEW a \in Attempts, NEW t \in Releases, NEW v \in Releases,
         NEW b \in 0..HeartbeatsRequired, NEW s \in 0..2, NEW c \in BOOLEAN,
         a # 0 => v < t, s = 0 => b = 0
  PROVE  [attempt |-> a, to |-> t, prev |-> v, beats |-> b, starts |-> s, claimed |-> c]
           \in GoodUpdates
<1> DEFINE p == [attempt |-> a, to |-> t, prev |-> v, beats |-> b, starts |-> s, claimed |-> c]
<1>1. p \in Updates /\ p.attempt = a /\ p.to = t /\ p.prev = v /\ p.beats = b /\ p.starts = s
  BY DEF Updates
<1> HIDE DEF p
<1>2. p \in GoodUpdates
  BY <1>1 DEF GoodUpdates
<1> QED
  BY <1>2 DEF p

LEMMA NoUpdateGood == NoUpdate \in GoodUpdates /\ NoUpdate.beats = 0
<1>1. 0 \in 0..HeartbeatsRequired /\ 0 \in 0..2 /\ 0 \in Attempts /\ 0 \in Releases
  BY Constants
<1>2. NoUpdate \in GoodUpdates
  BY <1>1, MakeGoodUpdate DEF NoUpdate
<1> QED
  BY <1>2 DEF NoUpdate

LEMMA ClaimGood ==
  ASSUME NEW p \in GoodUpdates
  PROVE  Claim(p) \in GoodUpdates /\ Claim(p).attempt = p.attempt
<1> DEFINE q == [p EXCEPT !.claimed = TRUE]
<1>1. p \in Updates /\ (p.attempt # 0 => p.prev < p.to) /\ (p.starts = 0 => p.beats = 0)
  BY DEF GoodUpdates
<1>2. /\ q \in Updates /\ q.attempt = p.attempt /\ q.prev = p.prev /\ q.to = p.to
      /\ q.starts = p.starts /\ q.beats = p.beats
  BY <1>1 DEF Updates
<1> HIDE DEF q
<1>3. q \in GoodUpdates /\ q.attempt = p.attempt
  BY <1>1, <1>2 DEF GoodUpdates
<1> QED
  BY <1>3 DEF Claim, q

LEMMA StartedGood ==
  ASSUME NEW p \in GoodUpdates, NEW s \in 1..2
  PROVE  /\ [p EXCEPT !.starts = s, !.beats = 0] \in GoodUpdates
         /\ [p EXCEPT !.starts = s, !.beats = 0].starts # 0
         /\ [p EXCEPT !.starts = s, !.beats = 0].beats = 0
<1> DEFINE q == [p EXCEPT !.starts = s, !.beats = 0]
<1>1. p \in Updates /\ (p.attempt # 0 => p.prev < p.to)
  BY DEF GoodUpdates
<1>2. s \in 0..2 /\ s # 0 /\ 0 \in 0..HeartbeatsRequired
  BY Constants
<1>3. /\ q \in Updates /\ q.attempt = p.attempt /\ q.prev = p.prev /\ q.to = p.to
      /\ q.starts = s /\ q.beats = 0
  BY <1>1, <1>2 DEF Updates
<1> HIDE DEF q
<1>4. q \in GoodUpdates /\ q.starts # 0 /\ q.beats = 0
  BY <1>1, <1>2, <1>3 DEF GoodUpdates
<1> QED
  BY <1>4 DEF q

LEMMA StartGood ==
  ASSUME NEW p \in GoodUpdates, NEW q,
         q = [p EXCEPT !.starts = IF @ < 2 THEN @ + 1 ELSE @,
                       !.beats = IF p.starts > 0 THEN 0 ELSE @]
  PROVE  q \in GoodUpdates /\ q.starts # 0 /\ q.beats = 0
<1> DEFINE s == IF p.starts < 2 THEN p.starts + 1 ELSE p.starts
           b == IF p.starts > 0 THEN 0 ELSE p.beats
<1>1. p.starts \in 0..2 /\ (p.starts = 0 => p.beats = 0)
  BY GoodUpdateFields
<1>2. s \in 1..2 /\ b = 0
  BY <1>1
<1>3. q = [p EXCEPT !.starts = s, !.beats = b]
  OBVIOUS
<1> HIDE DEF s, b
<1>4. q = [p EXCEPT !.starts = s, !.beats = 0]
  BY <1>2, <1>3
<1> QED
  BY <1>2, <1>4, StartedGood

LEMMA BeatGood ==
  ASSUME NEW p \in GoodUpdates, NEW q, p.starts # 0, q = [p EXCEPT !.beats = @ + 1],
         q.beats < HeartbeatsRequired
  PROVE  q \in GoodUpdates /\ q.starts = p.starts /\ q.beats = p.beats + 1
<1>1. p \in Updates /\ (p.attempt # 0 => p.prev < p.to)
  BY DEF GoodUpdates
<1>2. p.beats \in 0..HeartbeatsRequired
  BY <1>1 DEF Updates
<1>3. q.beats = p.beats + 1
  BY <1>1 DEF Updates
<1>4. q.beats \in 0..HeartbeatsRequired
  BY <1>2, <1>3, Constants
<1> DEFINE b == p.beats + 1
<1>5. b \in 0..HeartbeatsRequired /\ q = [p EXCEPT !.beats = b]
  BY <1>3, <1>4
<1> HIDE DEF b
<1>6. q \in Updates /\ q.attempt = p.attempt /\ q.prev = p.prev /\ q.to = p.to /\ q.starts = p.starts
  BY <1>1, <1>5 DEF Updates
<1> QED
  BY <1>1, <1>3, <1>6 DEF GoodUpdates

LEMMA ReadGood ==
  ASSUME NEW s \in GoodStates
  PROVE  s.pending \in GoodUpdates /\ s.accepted \in Releases
  BY DEF GoodStates

LEMMA WriteGood ==
  ASSUME NEW s \in GoodStates, NEW p \in GoodUpdates
  PROVE  [s EXCEPT !.pending = p] \in GoodStates /\ [s EXCEPT !.pending = p].pending = p
  BY DEF GoodStates

LEMMA AcceptGood ==
  ASSUME NEW s \in GoodStates, NEW r \in Releases
  PROVE  [s EXCEPT !.accepted = r] \in GoodStates
  BY DEF GoodStates

LEMMA NoStateGood == NoState \in GoodStates
  BY NoUpdateGood, Constants DEF NoState, GoodStates

LEMMA DownGood == Down \in AgentRecs /\ Down.life = 0 /\ Down.pc = "down"
  BY NoStateGood, Constants DEF Down, AgentRecs, AgentPcs

LEMMA RestingGood ==
  /\ Resting \in [pc : {"idle", "read", "claim", "download"}, file : GoodStates]
  /\ Resting.pc = "idle"
  BY NoStateGood DEF Resting

LEMMA HoldsTypeOK == Holds => TypeOK
<1>1. GoodUpdates \subseteq Updates /\ GoodStates \subseteq States
  BY DEF GoodUpdates, GoodStates, States
<1>2. AgentRecs \subseteq [pc : AgentPcs, release : Releases, target : Releases, state : States,
                           life : 0..HeartbeatsRequired]
  BY <1>1 DEF AgentRecs
<1> QED
  BY <1>1, <1>2 DEF Holds, FileHolds, AgentHolds, WatchdogHolds, InstallHolds, CountersHold, TypeOK,
     AgentPcs

LEMMA HoldsInit == Init => Holds
<1> SUFFICES ASSUME Init PROVE Holds
  OBVIOUS
<1> USE Constants DEF Init
<1>1. FileHolds
  BY NoStateGood, NoUpdateGood DEF FileHolds
<1>2. AgentHolds
  <2>1. agent \in AgentRecs /\ agent.life = 0 /\ agent.pc = "cycle"
    BY DownGood DEF AgentRecs, AgentPcs
  <2> QED
    BY <2>1, NoUpdateGood DEF AgentHolds
<1>3. WatchdogHolds
  BY RestingGood DEF WatchdogHolds
<1>4. InstallHolds
  BY DEF InstallHolds
<1>5. CountersHold
  BY DEF CountersHold, RollbackIsLate
<1> QED
  BY <1>1, <1>2, <1>3, <1>4, <1>5 DEF Holds

-----------------------------------------------------------------------------
(* Every step keeps the copies good. *)

LEMMA AgentFields ==
  ASSUME NEW a \in AgentRecs
  PROVE  /\ a.pc \in AgentPcs /\ a.release \in Releases /\ a.target \in Releases
         /\ a.state \in GoodStates /\ a.life \in 0..HeartbeatsRequired
         /\ \A pc \in AgentPcs : /\ [a EXCEPT !.pc = pc] \in AgentRecs
                                /\ [a EXCEPT !.pc = pc].pc = pc
                                /\ [a EXCEPT !.pc = pc].life = a.life
                                /\ [a EXCEPT !.pc = pc].state = a.state
                                /\ [a EXCEPT !.pc = pc].target = a.target
  BY DEF AgentRecs

\* What a process has seen of its own heartbeats after one more.
LEMMA AliveGood ==
  ASSUME NEW pc \in AgentPcs, agent \in AgentRecs
  PROVE  LET a == [Alive EXCEPT !.pc = pc] IN
         /\ a \in AgentRecs /\ a.pc = pc
         /\ a.life = (IF agent.life < HeartbeatsRequired THEN agent.life + 1 ELSE agent.life)
<1> DEFINE l == IF agent.life < HeartbeatsRequired THEN agent.life + 1 ELSE agent.life
<1>1. agent.life \in 0..HeartbeatsRequired
  BY AgentFields
<1>2. l \in 0..HeartbeatsRequired
  BY <1>1, Constants
<1>3. Alive = [agent EXCEPT !.life = l]
  BY DEF Alive, AgentRecs
<1> HIDE DEF l
<1>4. Alive \in AgentRecs /\ Alive.life = l
  BY <1>2, <1>3 DEF AgentRecs
<1>5. [Alive EXCEPT !.pc = pc] \in AgentRecs /\ [Alive EXCEPT !.pc = pc].pc = pc
      /\ [Alive EXCEPT !.pc = pc].life = l
  BY <1>4, AgentFields
<1> QED
  BY <1>5 DEF l

LEMMA MarkerGood ==
  ASSUME Holds, agent.pc = "launch"
  PROVE  Marker \in GoodUpdates /\ Marker.attempt = attempts + 1 /\ attempts + 1 \in Attempts
<1>1. /\ agent.target \in Releases /\ agent.state.accepted \in Releases
      /\ agent.state.accepted < agent.target /\ attempts < MaxAttempts /\ attempts \in Attempts
  BY AgentFields, NoUpdateGood, Constants, ReadGood DEF Holds, AgentHolds, CountersHold
<1>2. attempts + 1 \in Attempts /\ 0 \in 0..HeartbeatsRequired /\ 0 \in 0..2
  BY <1>1, Constants DEF Attempts
<1> DEFINE a == attempts + 1
           t == agent.target
           v == agent.state.accepted
<1>3. a \in Attempts /\ t \in Releases /\ v \in Releases /\ v < t
  BY <1>1, <1>2
<1>4. Marker = [NoUpdate EXCEPT !.attempt = a, !.to = t, !.prev = v]
  BY DEF Marker
<1> HIDE DEF a, t, v
<1>5. Marker = [attempt |-> a, to |-> t, prev |-> v, beats |-> 0, starts |-> 0, claimed |-> FALSE]
  BY <1>4 DEF NoUpdate
<1>6. Marker \in GoodUpdates
  BY <1>2, <1>3, <1>5, MakeGoodUpdate
<1>7. Marker.attempt = a
  BY <1>5
<1> QED
  BY <1>2, <1>6, <1>7 DEF a

LEMMA BeatOfMemory ==
  ASSUME FileHolds, Waiting(memory), Beat.beats < HeartbeatsRequired
  PROVE  Beat \in GoodUpdates /\ Beat.starts # 0 /\ Beat.beats = memory.beats + 1
<1>1. memory \in GoodUpdates /\ memory.starts # 0
  BY DEF FileHolds, Waiting
<1> QED
  BY <1>1, BeatGood DEF Beat

\* What a part of the invariant does not mention cannot disturb it.
LEMMA Frames ==
  /\ FileHolds /\ UNCHANGED <<file, memory>> => FileHolds'
  /\ AgentHolds /\ UNCHANGED <<agent, memory, attempts, overdue>> => AgentHolds'
  /\ WatchdogHolds /\ UNCHANGED <<watchdog, overdue>> => WatchdogHolds'
  /\ InstallHolds /\ UNCHANGED <<installed, installers>> => InstallHolds'
  /\ CountersHold /\ UNCHANGED <<published, attempts, overdue, faults, rollbacks>> => CountersHold'
  BY DEF FileHolds, AgentHolds, WatchdogHolds, InstallHolds, CountersHold, RollbackIsLate

\* The process at a place where nothing but its heartbeats is claimed of it.
LEMMA AgentAtRest ==
  ASSUME agent' \in AgentRecs, agent'.pc \notin {"fetch", "launch", "rollback"},
         memory'.beats <= agent'.life
  PROVE  AgentHolds'
  BY DEF AgentHolds

LEMMA GotoRest ==
  ASSUME AgentHolds, NEW pc \in {"cycle", "deadline", "update"}, Goto(pc),
         memory' = memory \/ memory' = NoUpdate
  PROVE  AgentHolds'
<1>1. agent \in AgentRecs /\ memory.beats <= agent.life
  BY DEF AgentHolds
<1>2. agent' \in AgentRecs /\ agent'.pc = pc /\ agent'.life = agent.life
  <2>1. pc \in AgentPcs
    BY DEF AgentPcs
  <2>2. agent' = [agent EXCEPT !.pc = pc]
    BY DEF Goto
  <2> QED
    BY <1>1, <2>1, <2>2, AgentFields
<1>3. agent.life >= 0
  BY <1>1, AgentFields, Constants
<1>4. memory'.beats <= agent'.life
  BY <1>1, <1>2, <1>3, NoUpdateGood
<1> QED
  BY <1>2, <1>4, AgentAtRest

\* The process is stopped: it forgets what it was about to do.
LEMMA StopsHolding ==
  ASSUME agent' = Down, memory' = NoUpdate, FileHolds, file' = file
  PROVE  AgentHolds' /\ FileHolds'
<1>1. AgentHolds'
  BY DownGood, NoUpdateGood, AgentAtRest
<1>2. FileHolds'
  BY NoUpdateGood DEF FileHolds
<1> QED
  BY <1>1, <1>2

\* A rollback of an overdue attempt is counted.
LEMMA RollbackCounted ==
  ASSUME CountersHold, NEW p \in GoodUpdates, Late(p, overdue),
         UNCHANGED <<published, attempts, overdue, faults>>,
         rollbacks' = [rollbacks EXCEPT ![p.attempt] = IF @ < 2 THEN @ + 1 ELSE @]
  PROVE  CountersHold'
<1>1. p.attempt \in Attempts /\ p.attempt \in 1..overdue
  BY GoodUpdateFields DEF Late
<1>2. rollbacks \in [Attempts -> 0..2] /\ RollbackIsLate
  BY DEF CountersHold
<1>3. rollbacks' \in [Attempts -> 0..2]
  BY <1>1, <1>2
<1>4. \A i \in Attempts : rollbacks'[i] = rollbacks[i] \/ i = p.attempt
  BY <1>1, <1>2
<1>5. RollbackIsLate'
  BY <1>1, <1>2, <1>4 DEF RollbackIsLate
<1> QED
  BY <1>3, <1>5 DEF CountersHold

LEMMA InstallerAdded ==
  ASSUME InstallHolds, NEW by \in {"agent", "watchdog"}, NEW kind \in {"update", "rollback"},
         NEW r \in Releases, installers' = installers \cup {Installer(by, kind, r)},
         installed' = installed
  PROVE  InstallHolds'
  BY DEF InstallHolds, Installer

LEMMA FaultCounted ==
  ASSUME CountersHold, Faulty, UNCHANGED <<published, attempts, overdue, rollbacks>>
  PROVE  CountersHold'
<1>1. faults' \in 0..MaxFaults
  BY Constants DEF CountersHold, Faulty
<1> QED
  BY <1>1 DEF CountersHold, RollbackIsLate

-----------------------------------------------------------------------------

LEMMA StartHolds == Holds /\ Start => Holds'
<1> SUFFICES ASSUME Holds, Start PROVE Holds'
  OBVIOUS
<1> USE DEF Holds
<1>1. file \in GoodStates /\ file.pending \in GoodUpdates
  BY ReadGood DEF FileHolds
<1>2. memory' \in GoodUpdates /\ (memory' # NoUpdate => memory'.starts # 0) /\ memory'.beats = 0
  <2>1. CASE ~Waiting(file.pending)
    BY <2>1, NoUpdateGood DEF Start
  <2>2. CASE Waiting(file.pending)
    <3>1. memory' = [file.pending EXCEPT !.starts = IF @ < 2 THEN @ + 1 ELSE @,
                                         !.beats = IF file.pending.starts > 0 THEN 0 ELSE @]
      BY <2>2 DEF Start
    <3> QED
      BY <1>1, <3>1, StartGood
  <2> QED
    BY <2>1, <2>2
<1>3. FileHolds'
  <2>1. file' = [file EXCEPT !.pending = memory']
    BY DEF Start
  <2> QED
    BY <1>1, <1>2, <2>1, WriteGood DEF FileHolds
<1>4. AgentHolds'
  <2>1. installed \in Releases
    BY DEF InstallHolds
  <2>2. agent' \in AgentRecs /\ agent'.pc = "cycle" /\ agent'.life = 0
    BY <2>1, DownGood DEF Start, AgentRecs, AgentPcs
  <2> QED
    BY <1>2, <2>2, AgentAtRest
<1> QED
  BY <1>3, <1>4, Frames DEF Start

LEMMA HeartbeatsHold ==
  Holds /\ (NothingPending \/ ConfirmHealthy \/ CountHeartbeat \/ MissHeartbeat \/ KeepWaiting) => Holds'
<1> USE DEF Holds
<1>1. ASSUME Holds, NothingPending PROVE Holds'
  BY <1>1, GotoRest, Frames DEF NothingPending
<1>2. ASSUME Holds, ConfirmHealthy PROVE Holds'
  <2>1. agent \in AgentRecs
    BY <1>2 DEF AgentHolds
  <2>2. agent' \in AgentRecs /\ agent'.pc = "update" /\ agent'.life >= 0
    <3>1. "update" \in AgentPcs /\ agent' = [Alive EXCEPT !.pc = "update"]
      BY <1>2 DEF ConfirmHealthy, AgentPcs
    <3>2. agent.life \in 0..HeartbeatsRequired
      BY <2>1, AgentFields
    <3>3. /\ agent' \in AgentRecs /\ agent'.pc = "update"
          /\ agent'.life = (IF agent.life < HeartbeatsRequired THEN agent.life + 1 ELSE agent.life)
      BY <2>1, <3>1, AliveGood
    <3> QED
      BY <3>2, <3>3, Constants
  <2>3. AgentHolds'
    BY <1>2, <2>2, NoUpdateGood, AgentAtRest DEF ConfirmHealthy
  <2>4. FileHolds'
    BY <1>2, NoUpdateGood, WriteGood DEF ConfirmHealthy, FileHolds
  <2> QED
    BY <1>2, <2>3, <2>4, Frames DEF ConfirmHealthy
<1>3. ASSUME Holds, CountHeartbeat PROVE Holds'
  <2>1. agent \in AgentRecs /\ memory.beats <= agent.life
    BY <1>3 DEF AgentHolds
  <2>2. Beat \in GoodUpdates /\ Beat.starts # 0 /\ Beat.beats = memory.beats + 1
    BY <1>3, BeatOfMemory DEF CountHeartbeat
  <2>3. /\ agent' \in AgentRecs /\ agent'.pc = "deadline"
        /\ agent'.life = (IF agent.life < HeartbeatsRequired THEN agent.life + 1 ELSE agent.life)
    BY <1>3, <2>1, AliveGood DEF CountHeartbeat, AgentPcs
  <2>4. memory'.beats <= agent'.life
    <3>1. memory.beats \in 0..HeartbeatsRequired /\ agent.life \in 0..HeartbeatsRequired
      BY <1>3, <2>1, AgentFields, GoodUpdateFields DEF FileHolds
    <3>2. memory.beats + 1 < HeartbeatsRequired /\ memory'.beats = memory.beats + 1
      BY <1>3, <2>2 DEF CountHeartbeat
    <3> QED
      BY <2>1, <2>3, <3>1, <3>2, Constants
  <2>5. AgentHolds'
    BY <2>3, <2>4, AgentAtRest
  <2>6. FileHolds'
    BY <1>3, <2>2, WriteGood DEF CountHeartbeat, FileHolds
  <2> QED
    BY <1>3, <2>5, <2>6, Frames DEF CountHeartbeat
<1>4. ASSUME Holds, MissHeartbeat PROVE Holds'
  BY <1>4, GotoRest, Frames DEF MissHeartbeat
<1>5. ASSUME Holds, KeepWaiting PROVE Holds'
  BY <1>5, GotoRest, Frames DEF KeepWaiting
<1> QED
  BY <1>1, <1>2, <1>3, <1>4, <1>5

LEMMA RollbackHolds == Holds /\ (ClaimRollback \/ RollBack) => Holds'
<1> USE DEF Holds
<1>1. ASSUME Holds, ClaimRollback PROVE Holds'
  <2>1. agent \in AgentRecs /\ memory.beats <= agent.life
    BY <1>1 DEF AgentHolds
  <2>2. agent' \in AgentRecs /\ agent'.pc = "rollback" /\ agent'.life = agent.life
    <3>1. "rollback" \in AgentPcs /\ agent' = [agent EXCEPT !.pc = "rollback"]
      BY <1>1 DEF ClaimRollback, Goto, AgentPcs
    <3> QED
      BY <2>1, <3>1, AgentFields
  <2>3. Late(memory, overdue) /\ memory' = memory /\ overdue' = overdue
    BY <1>1 DEF ClaimRollback, Actionable, Overdue, Late
  <2>4. AgentHolds'
    BY <2>1, <2>2, <2>3 DEF AgentHolds, Late
  <2>5. FileHolds'
    <3>1. file \in GoodStates /\ file' = [file EXCEPT !.pending = Claim(file.pending)]
      BY <1>1 DEF ClaimRollback, FileHolds
    <3>2. Claim(file.pending) \in GoodUpdates
      BY <3>1, ReadGood, ClaimGood
    <3> QED
      BY <1>1, <2>3, <3>1, <3>2, WriteGood DEF FileHolds
  <2> QED
    BY <1>1, <2>4, <2>5, Frames DEF ClaimRollback
<1>2. ASSUME Holds, RollBack PROVE Holds'
  <2>1. memory \in GoodUpdates /\ Late(memory, overdue)
    BY <1>2 DEF RollBack, FileHolds, AgentHolds
  <2>2. FileHolds'
    BY <1>2, NoUpdateGood, WriteGood DEF RollBack, FileHolds
  <2>3. AgentHolds'
    BY <1>2, GotoRest DEF RollBack
  <2>4. CountersHold'
    BY <1>2, <2>1, RollbackCounted DEF RollBack
  <2>5. InstallHolds'
    <3>1. memory.prev \in Releases
      BY <2>1, GoodUpdateFields
    <3> QED
      BY <1>2, <3>1, InstallerAdded DEF RollBack
  <2> QED
    BY <1>2, <2>2, <2>3, <2>4, <2>5, Frames DEF RollBack
<1> QED
  BY <1>1, <1>2

LEMMA UpdateHolds == Holds /\ (FetchUpdate \/ SkipUpdate \/ Accept \/ Launch) => Holds'
<1> USE DEF Holds
<1>1. ASSUME Holds, FetchUpdate PROVE Holds'
  <2>1. /\ file \in GoodStates /\ file.accepted < published /\ published \in Releases
        /\ agent \in AgentRecs /\ memory.beats <= agent.life /\ attempts < MaxAttempts
    BY <1>1 DEF FetchUpdate, Outdated, FileHolds, AgentHolds, CountersHold, Releases
  <2>2. agent' = [agent EXCEPT !.pc = "fetch", !.target = published, !.state = file]
    BY <1>1 DEF FetchUpdate
  <2>3. /\ agent' \in AgentRecs /\ agent'.pc = "fetch" /\ agent'.target = published
        /\ agent'.state = file /\ agent'.life = agent.life
    BY <2>1, <2>2 DEF AgentRecs, AgentPcs
  <2>4. AgentHolds'
    BY <1>1, <2>1, <2>3 DEF FetchUpdate, AgentHolds
  <2> QED
    BY <1>1, <2>4, Frames DEF FetchUpdate
<1>2. ASSUME Holds, SkipUpdate PROVE Holds'
  BY <1>2, GotoRest, Frames DEF SkipUpdate
<1>3. ASSUME Holds, Accept PROVE Holds'
  <2>1. /\ agent \in AgentRecs /\ memory.beats <= agent.life
        /\ agent.state.accepted < agent.target /\ attempts < MaxAttempts
    BY <1>3 DEF Accept, AgentHolds
  <2>2. /\ agent' \in AgentRecs /\ agent'.pc = "launch" /\ agent'.life = agent.life
        /\ agent'.state = agent.state /\ agent'.target = agent.target
    <3>1. "launch" \in AgentPcs /\ agent' = [agent EXCEPT !.pc = "launch"]
      BY <1>3 DEF Accept, Goto, AgentPcs
    <3> QED
      BY <2>1, <3>1, AgentFields
  <2>3. AgentHolds'
    BY <1>3, <2>1, <2>2 DEF Accept, AgentHolds
  <2>4. FileHolds'
    <3>1. agent.state \in GoodStates /\ agent.target \in Releases
      BY <2>1, AgentFields
    <3>2. file' \in GoodStates
      BY <1>3, <3>1, AcceptGood DEF Accept
    <3> QED
      BY <1>3, <3>2 DEF Accept, FileHolds
  <2> QED
    BY <1>3, <2>3, <2>4, Frames DEF Accept
<1>4. ASSUME Holds, Launch PROVE Holds'
  <2>1. Marker \in GoodUpdates /\ attempts + 1 \in Attempts
    BY <1>4, MarkerGood DEF Launch
  <2>2. FileHolds'
    BY <1>4, <2>1, WriteGood DEF Launch, FileHolds
  <2>3. AgentHolds'
    BY <1>4, GotoRest DEF Launch
  <2>4. CountersHold'
    BY <1>4, <2>1 DEF Launch, CountersHold, RollbackIsLate, Attempts
  <2>5. InstallHolds'
    <3>1. agent.target \in Releases
      BY <1>4, AgentFields DEF AgentHolds
    <3> QED
      BY <1>4, <3>1, InstallerAdded DEF Launch
  <2> QED
    BY <1>4, <2>2, <2>3, <2>4, <2>5, Frames DEF Launch
<1> QED
  BY <1>1, <1>2, <1>3, <1>4

LEMMA WatchHolds == Holds /\ (Watch \/ WatchdogFails) => Holds'
<1> USE DEF Holds
<1> DEFINE Passes == [pc : {"idle", "read", "claim", "download"}, file : GoodStates]
<1>1. ASSUME Holds, FindNotListening PROVE Holds'
  <2>1. watchdog' \in Passes /\ watchdog'.pc = "read"
    BY <1>1 DEF FindNotListening, WatchdogHolds
  <2>2. WatchdogHolds'
    BY <2>1 DEF WatchdogHolds
  <2> QED
    BY <1>1, <2>2, Frames DEF FindNotListening, Elsewhere
<1>2. ASSUME Holds, ReadState PROVE Holds'
  <2>1. ASSUME Abandoned(file.pending) PROVE WatchdogHolds'
    <3>1. watchdog' = [pc |-> "claim", file |-> file] /\ file \in GoodStates /\ overdue' = overdue
      BY <1>2, <2>1 DEF ReadState, FileHolds, Elsewhere
    <3>2. watchdog' \in Passes /\ watchdog'.file = file
      BY <3>1
    <3>3. Late(file.pending, overdue)
      BY <2>1 DEF Abandoned, Overdue, Late
    <3> QED
      BY <3>1, <3>2, <3>3 DEF WatchdogHolds, Late
  <2>2. ASSUME ~Abandoned(file.pending) PROVE WatchdogHolds'
    <3>1. watchdog' = Resting
      BY <1>2, <2>2 DEF ReadState
    <3> QED
      BY <3>1, RestingGood DEF WatchdogHolds, Late
  <2> QED
    BY <1>2, <2>1, <2>2, Frames DEF ReadState, Elsewhere
<1>3. ASSUME Holds, WatchdogClaims PROVE Holds'
  <2>1. watchdog \in Passes /\ Late(watchdog.file.pending, overdue) /\ watchdog.file \in GoodStates
    BY <1>3 DEF WatchdogClaims, WatchdogHolds
  <2>2. FileHolds'
    <3>1. Claim(watchdog.file.pending) \in GoodUpdates
      BY <2>1, ReadGood, ClaimGood
    <3>2. file' \in GoodStates
      BY <1>3, <2>1, <3>1, WriteGood DEF WatchdogClaims
    <3> QED
      BY <1>3, <3>2 DEF WatchdogClaims, FileHolds, Elsewhere
  <2>3. watchdog' \in Passes /\ watchdog'.file = watchdog.file /\ overdue' = overdue
    BY <1>3, <2>1 DEF WatchdogClaims, Elsewhere
  <2>4. WatchdogHolds'
    BY <2>1, <2>3 DEF WatchdogHolds
  <2> QED
    BY <1>3, <2>2, <2>4, Frames DEF WatchdogClaims, Elsewhere
<1>4. ASSUME Holds, WatchdogRollsBack PROVE Holds'
  <2>1. watchdog.file \in GoodStates /\ Late(watchdog.file.pending, overdue)
    BY <1>4 DEF WatchdogRollsBack, WatchdogHolds
  <2>2. watchdog.file.pending \in GoodUpdates /\ watchdog.file.pending.prev \in Releases
    BY <2>1, ReadGood, GoodUpdateFields
  <2>3. FileHolds'
    BY <1>4, <2>1, NoUpdateGood, WriteGood DEF WatchdogRollsBack, FileHolds, Elsewhere
  <2>4. WatchdogHolds'
    BY <1>4, RestingGood DEF WatchdogRollsBack, WatchdogHolds
  <2>5. InstallHolds'
    BY <1>4, <2>2, InstallerAdded DEF WatchdogRollsBack, Elsewhere
  <2>6. CountersHold'
    BY <1>4, <2>1, <2>2, RollbackCounted DEF WatchdogRollsBack, Elsewhere
  <2> QED
    BY <1>4, <2>3, <2>4, <2>5, <2>6, Frames DEF WatchdogRollsBack, Elsewhere
<1>5. ASSUME Holds, WatchdogFails PROVE Holds'
  <2>1. WatchdogHolds'
    BY <1>5, RestingGood DEF WatchdogFails, WatchdogHolds
  <2>2. CountersHold'
    BY <1>5, FaultCounted DEF WatchdogFails, Elsewhere
  <2> QED
    BY <1>5, <2>1, <2>2, Frames DEF WatchdogFails, Elsewhere
<1> QED
  BY <1>1, <1>2, <1>3, <1>4, <1>5 DEF Watch

LEMMA InstallerHolds ==
  ASSUME Holds, NEW i \in installers, InstallerStops(i) \/ InstallerCopies(i) \/ InstallerFails(i)
  PROVE  Holds'
<1> USE DEF Holds
<1>1. /\ i \in [by : {"agent", "watchdog"}, kind : {"update", "rollback"},
                release : Releases, pc : {"stop", "copy"}]
      /\ i.release \in Releases
  BY DEF InstallHolds
<1>2. CASE InstallerStops(i)
  <2>1. FileHolds' /\ AgentHolds'
    BY <1>2, StopsHolding DEF InstallerStops
  <2>2. InstallHolds'
    BY <1>1, <1>2 DEF InstallerStops, InstallHolds
  <2> QED
    BY <1>2, <2>1, <2>2, Frames DEF InstallerStops
<1>3. CASE InstallerCopies(i)
  <2>1. InstallHolds'
    BY <1>1, <1>3 DEF InstallerCopies, InstallHolds
  <2> QED
    BY <1>3, <2>1, Frames DEF InstallerCopies
<1>4. CASE InstallerFails(i)
  <2>1. InstallHolds'
    BY <1>4 DEF InstallerFails, InstallHolds
  <2>2. CountersHold'
    BY <1>4, FaultCounted DEF InstallerFails
  <2> QED
    BY <1>4, <2>1, <2>2, Frames DEF InstallerFails
<1> QED
  BY <1>2, <1>3, <1>4

LEMMA OutsideHolds == Holds /\ (Publish \/ WindowCloses \/ DownloadFails \/ Crash) => Holds'
<1> USE DEF Holds
<1>1. ASSUME Holds, Publish PROVE Holds'
  <2>1. CountersHold'
    BY <1>1, Constants DEF Publish, CountersHold, RollbackIsLate, Releases
  <2> QED
    BY <1>1, <2>1, Frames DEF Publish
<1>2. ASSUME Holds, WindowCloses PROVE Holds'
  <2>1. overdue \in Nat /\ overdue' = overdue + 1 /\ overdue' \in 0..attempts
    BY <1>2 DEF WindowCloses, CountersHold, Attempts
  <2>2. \A p : Late(p, overdue) => Late(p, overdue')
    BY <2>1 DEF Late
  <2>3. AgentHolds'
    BY <1>2, <2>2 DEF WindowCloses, AgentHolds
  <2>4. WatchdogHolds'
    BY <1>2, <2>2 DEF WindowCloses, WatchdogHolds
  <2>5. CountersHold'
    BY <1>2, <2>1 DEF WindowCloses, CountersHold, RollbackIsLate, Attempts
  <2> QED
    BY <1>2, <2>3, <2>4, <2>5, Frames DEF WindowCloses
<1>3. ASSUME Holds, DownloadFails PROVE Holds'
  <2>1. AgentHolds' /\ CountersHold'
    BY <1>3, GotoRest, FaultCounted DEF DownloadFails
  <2> QED
    BY <1>3, <2>1, Frames DEF DownloadFails
<1>4. ASSUME Holds, Crash PROVE Holds'
  <2>1. FileHolds' /\ AgentHolds' /\ CountersHold'
    BY <1>4, StopsHolding, FaultCounted DEF Crash
  <2> QED
    BY <1>4, <2>1, Frames DEF Crash
<1> QED
  BY <1>1, <1>2, <1>3, <1>4

LEMMA HoldsNext == Holds /\ [Next]_vars => Holds'
<1>1. Holds /\ Next => Holds'
  BY StartHolds, HeartbeatsHold, RollbackHolds, UpdateHolds, WatchHolds, InstallerHolds, OutsideHolds
     DEF Next, Cycle, Install, Fault
<1>2. Holds /\ UNCHANGED vars => Holds'
  BY Frames DEF Holds, vars
<1> QED
  BY <1>1, <1>2

LEMMA HoldsAlways == Spec => []Holds
  BY HoldsInit, HoldsNext, PTL DEF Spec

-----------------------------------------------------------------------------
\* The file, the process, the watchdog and the installers keep their types.
THEOREM UpdateTypes == Spec => []TypeOK
  BY HoldsAlways, HoldsTypeOK, PTL

\* A rollback installer is only ever launched for an update whose window has
\* closed, whatever the agent and the watchdog write over each other's file.
THEOREM RollbacksAreLate == Spec => []RollbackIsLate
<1>1. Holds => RollbackIsLate
  BY DEF Holds, CountersHold
<1> QED
  BY <1>1, HoldsAlways, PTL

\* What a rollback would install is older than what it undoes, in the file and
\* in every copy of it.
THEOREM RollbacksGoBack == Spec => []RollbackGoesBack
<1>1. Holds => RollbackGoesBack
  <2> SUFFICES ASSUME Holds PROVE RollbackGoesBack
    OBVIOUS
  <2>1. /\ file.pending \in GoodUpdates /\ memory \in GoodUpdates
        /\ watchdog.file.pending \in GoodUpdates
    BY ReadGood DEF Holds, FileHolds, WatchdogHolds
  <2> QED
    BY <2>1, GoodUpdateFields DEF RollbackGoesBack
<1> QED
  BY <1>1, HoldsAlways, PTL

\* The process that confirms an update has itself made the required heartbeats.
THEOREM ConfirmationsAreEarned == Spec => HealthIsEarned
<1>1. Holds /\ [Next]_vars => [ConfirmHealthy => agent'.life >= HeartbeatsRequired]_vars
  <2> SUFFICES ASSUME Holds, ConfirmHealthy PROVE agent'.life >= HeartbeatsRequired
    OBVIOUS
  <2>1. agent \in AgentRecs /\ memory \in GoodUpdates /\ memory.beats <= agent.life
    BY DEF Holds, FileHolds, AgentHolds
  <2>2. memory.beats \in 0..HeartbeatsRequired /\ agent.life \in 0..HeartbeatsRequired
    BY <2>1, GoodUpdateFields, AgentFields
  <2>3. memory.beats + 1 >= HeartbeatsRequired
    <3>1. Beat.beats = memory.beats + 1
      <4>1. memory \in Updates
        BY <2>1 DEF GoodUpdates
      <4> QED
        BY <4>1 DEF Beat, Updates
    <3>2. Beat.beats >= HeartbeatsRequired
      BY DEF ConfirmHealthy
    <3> QED
      BY <3>1, <3>2
  <2>4. agent'.life = (IF agent.life < HeartbeatsRequired THEN agent.life + 1 ELSE agent.life)
    BY <2>1, AliveGood DEF ConfirmHealthy, AgentPcs
  <2> QED
    BY <2>1, <2>2, <2>3, <2>4, Constants
<1> QED
  BY <1>1, HoldsAlways, PTL DEF Spec, HealthIsEarned
==============================================================================
