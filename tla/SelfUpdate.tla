------------------------------ MODULE SelfUpdate ------------------------------
(***************************************************************************)
(* Self-update of one device: the agent accepts a newer signed release,    *)
(* launches its installer and waits for healthy heartbeats, or rolls back  *)
(* to the release it had accepted before                                   *)
(* (local-agent/server/telemetry-server.mjs, PRD section 31), with         *)
(* local-agent/scripts/watchdog.ps1 as the backstop for an agent that does *)
(* not run and installer/PulseEndpoint.iss as what both of them launch.    *)
(*                                                                         *)
(* The three share one file, .self-update-state.json, which each of them   *)
(* reads and writes whole.                                                 *)
(***************************************************************************)
EXTENDS Integers, FiniteSets

CONSTANTS
  HeartbeatsRequired,  \* SELF_UPDATE_HEARTBEATS_REQUIRED
  MaxRelease,          \* bound: releases published; 0 is the unsigned original
  MaxAttempts,         \* bound: updates launched
  MaxFaults            \* bound: crashes, failed downloads, failed installs

ASSUME HeartbeatsAssumption == HeartbeatsRequired \in Nat \ {0}
ASSUME BoundsAssumption == MaxRelease \in Nat /\ MaxAttempts \in Nat /\ MaxFaults \in Nat

\* A release's number is both its version and its sequence.
Releases == 0..MaxRelease
Attempts == 0..MaxAttempts

VARIABLES
  published,   \* what GET /v1/agent/latest offers
  installed,   \* the release on disk
  file,        \* .self-update-state.json: lastAcceptedManifest, pendingUpdate
  memory,      \* pendingUpdateConfirmation of the running process
  agent,       \* the running process and its place in the cycle
  watchdog,    \* a pass of watchdog.ps1 and the file as it read it
  installers,  \* installers launched and not finished
  attempts,    \* updates launched so far; names a pendingUpdate's startedAt
  overdue,     \* attempts up to this one are past the confirmation window
  rollbacks,   \* rollbacks[i]: rollback installers launched for attempt i, up to 2
  faults       \* faults so far

vars == <<published, installed, file, memory, agent, watchdog, installers,
          attempts, overdue, rollbacks, faults>>

-----------------------------------------------------------------------------
NoUpdate == [attempt |-> 0, to |-> 0, prev |-> 0, beats |-> 0, starts |-> 0,
             claimed |-> FALSE]

\* Claiming a pendingUpdate somebody has removed leaves {rollbackClaimed: true}.
Claim(p) == [p EXCEPT !.claimed = TRUE]

Waiting(p) == p # NoUpdate

\* Date.now() - startedAt > SELF_UPDATE_CONFIRM_WINDOW_MS; never without a startedAt.
Overdue(p) == p.attempt \in 1..overdue

NoState == [accepted |-> 0, pending |-> NoUpdate]

\* life: heartbeats accepted since this process started (history).
Down == [pc |-> "down", release |-> 0, target |-> 0, state |-> NoState, life |-> 0]

Resting == [pc |-> "idle", file |-> NoState]

Init ==
  /\ published = 0
  /\ installed = 0
  /\ file = NoState
  /\ memory = NoUpdate
  /\ agent = [Down EXCEPT !.pc = "cycle"]
  /\ watchdog = Resting
  /\ installers = {}
  /\ attempts = 0
  /\ overdue = 0
  /\ rollbacks = [i \in Attempts |-> 0]
  /\ faults = 0

Faulty == faults < MaxFaults /\ faults' = faults + 1

Goto(pc) == agent' = [agent EXCEPT !.pc = pc]

\* The watchdog's look at the port, its read and its claim follow each other
\* within a second or two: no download ends and no window closes in between.
WatchdogIsQuick == watchdog.pc \notin {"read", "claim"}

-----------------------------------------------------------------------------
(* The agent process. *)

\* Mutant of Start: a restart keeps the heartbeats counted before it.
StartKeepingBeats ==
  /\ agent.pc = "down"
  /\ agent' = [Down EXCEPT !.pc = "cycle", !.release = installed]
  /\ memory' = IF ~Waiting(file.pending) THEN NoUpdate
               ELSE [file.pending EXCEPT !.starts = IF @ < 2 THEN @ + 1 ELSE @]
  /\ file' = [file EXCEPT !.pending = memory']
  /\ UNCHANGED <<published, installed, watchdog, installers, attempts, overdue, rollbacks, faults>>

\* primeSelfUpdateConfirmation at module load; a second start since the update
\* resets the heartbeat count.
Start ==
  /\ agent.pc = "down"
  /\ agent' = [Down EXCEPT !.pc = "cycle", !.release = installed]
  /\ memory' = IF ~Waiting(file.pending) THEN NoUpdate
               ELSE [file.pending EXCEPT
                       !.starts = IF @ < 2 THEN @ + 1 ELSE @,
                       !.beats = IF file.pending.starts > 0 THEN 0 ELSE @]
  /\ file' = [file EXCEPT !.pending = memory']
  /\ UNCHANGED <<published, installed, watchdog, installers, attempts, overdue, rollbacks, faults>>

\* processPendingSelfUpdate with nothing to confirm.
NothingPending ==
  /\ agent.pc = "cycle"
  /\ ~Waiting(memory)
  /\ Goto("update")
  /\ UNCHANGED <<published, installed, file, memory, watchdog, installers, attempts, overdue, rollbacks, faults>>

Beat == [memory EXCEPT !.beats = @ + 1]

Alive == [agent EXCEPT !.life = IF @ < HeartbeatsRequired THEN @ + 1 ELSE @]

\* The heartbeat of this cycle succeeded and was one of enough.
ConfirmHealthy ==
  /\ agent.pc = "cycle"
  /\ Waiting(memory)
  /\ Beat.beats >= HeartbeatsRequired
  /\ memory' = NoUpdate
  /\ file' = [file EXCEPT !.pending = NoUpdate]
  /\ agent' = [Alive EXCEPT !.pc = "update"]
  /\ UNCHANGED <<published, installed, watchdog, installers, attempts, overdue, rollbacks, faults>>

\* Mutant of CountHeartbeat: it goes on counting past the required number.
CountForever ==
  /\ agent.pc = "cycle"
  /\ Waiting(memory)
  /\ memory' = Beat
  /\ file' = [file EXCEPT !.pending = Beat]
  /\ agent' = [Alive EXCEPT !.pc = "deadline"]
  /\ UNCHANGED <<published, installed, watchdog, installers, attempts, overdue, rollbacks, faults>>

\* It succeeded and more are needed: persistPendingUpdate writes what this
\* process remembers over what the file says.
CountHeartbeat ==
  /\ agent.pc = "cycle"
  /\ Waiting(memory)
  /\ Beat.beats < HeartbeatsRequired
  /\ memory' = Beat
  /\ file' = [file EXCEPT !.pending = Beat]
  /\ agent' = [Alive EXCEPT !.pc = "deadline"]
  /\ UNCHANGED <<published, installed, watchdog, installers, attempts, overdue, rollbacks, faults>>

MissHeartbeat ==
  /\ agent.pc = "cycle"
  /\ Waiting(memory)
  /\ Goto("deadline")
  /\ UNCHANGED <<published, installed, file, memory, watchdog, installers, attempts, overdue, rollbacks, faults>>

\* Mutants of Actionable: the window is not looked at; one heartbeat is
\* enough to be left alone.
ActionableAtOnce == memory.prev # 0 /\ ~file.pending.claimed
ActionableIfSilent ==
  Overdue(memory) /\ memory.prev # 0 /\ ~file.pending.claimed /\ memory.beats = 0

Actionable == Overdue(memory) /\ memory.prev # 0 /\ ~file.pending.claimed

\* Not overdue, nothing to return to, or claimed: the cycle is over, since
\* checkAndApplySelfUpdate does nothing while an update is unconfirmed.
KeepWaiting ==
  /\ agent.pc = "deadline"
  /\ ~Actionable
  /\ Goto("cycle")
  /\ UNCHANGED <<published, installed, file, memory, watchdog, installers, attempts, overdue, rollbacks, faults>>

ClaimRollback ==
  /\ agent.pc = "deadline"
  /\ Actionable
  /\ file' = [file EXCEPT !.pending = Claim(@)]
  /\ Goto("rollback")
  /\ UNCHANGED <<published, installed, memory, watchdog, installers, attempts, overdue, rollbacks, faults>>

Installer(by, kind, release) ==
  [by |-> by, kind |-> kind, release |-> release, pc |-> "stop"]

\* The rollback installer is on its way: the pendingUpdate is dropped and the
\* same cycle goes on to checkAndApplySelfUpdate.
RollBack ==
  /\ agent.pc = "rollback"
  /\ WatchdogIsQuick
  /\ file' = [file EXCEPT !.pending = NoUpdate]
  /\ memory' = NoUpdate
  /\ installers' = installers \cup {Installer("agent", "rollback", memory.prev)}
  /\ rollbacks' = [rollbacks EXCEPT ![memory.attempt] = IF @ < 2 THEN @ + 1 ELSE @]
  /\ Goto("update")
  /\ UNCHANGED <<published, installed, watchdog, attempts, overdue, faults>>

\* checkAndApplySelfUpdate: a release newer than the running one, and of a
\* later sequence than the last accepted one, is downloaded.
Outdated == published > agent.release /\ published > file.accepted

FetchUpdate ==
  /\ agent.pc = "update"
  /\ Outdated
  /\ attempts < MaxAttempts
  /\ agent' = [agent EXCEPT !.pc = "fetch", !.target = published, !.state = file]
  /\ UNCHANGED <<published, installed, file, memory, watchdog, installers, attempts, overdue, rollbacks, faults>>

\* Nothing newer, or the backend did not answer.
SkipUpdate ==
  /\ agent.pc = "update"
  /\ Goto("cycle")
  /\ UNCHANGED <<published, installed, file, memory, watchdog, installers, attempts, overdue, rollbacks, faults>>

\* The state read before the download is written back with the new manifest.
Accept ==
  /\ agent.pc = "fetch"
  /\ WatchdogIsQuick
  /\ file' = [agent.state EXCEPT !.accepted = agent.target]
  /\ Goto("launch")
  /\ UNCHANGED <<published, installed, memory, watchdog, installers, attempts, overdue, rollbacks, faults>>

\* Mutant of Marker: previousManifest is read after the new one was accepted.
MarkerReadLate == [NoUpdate EXCEPT !.attempt = attempts + 1, !.to = agent.target,
                                   !.prev = file.accepted]

\* previousManifest is the manifest accepted before this one.
Marker == [NoUpdate EXCEPT !.attempt = attempts + 1, !.to = agent.target,
                           !.prev = agent.state.accepted]

\* launchSilentInstall: the marker first, then the installer.
Launch ==
  /\ agent.pc = "launch"
  /\ attempts' = attempts + 1
  /\ file' = [file EXCEPT !.pending = Marker]
  /\ installers' = installers \cup {Installer("agent", "update", agent.target)}
  /\ Goto("cycle")
  /\ UNCHANGED <<published, installed, memory, watchdog, overdue, rollbacks, faults>>

\* A download that failed or did not match its hash ends the cycle; a rollback
\* keeps its claim.
DownloadFails ==
  /\ agent.pc \in {"fetch", "rollback"}
  /\ Faulty
  /\ Goto("cycle")
  /\ UNCHANGED <<published, installed, file, memory, watchdog, installers, attempts, overdue, rollbacks>>

Crash ==
  /\ agent.pc # "down"
  /\ Faulty
  /\ agent' = Down
  /\ memory' = NoUpdate
  /\ UNCHANGED <<published, installed, file, watchdog, installers, attempts, overdue, rollbacks>>

-----------------------------------------------------------------------------
(* One pass of watchdog.ps1.  It looks whether the agent listens before it *)
(* reads the file, and the agent may start at any point after that.        *)

Elsewhere == <<published, installed, memory, agent, attempts, overdue>>

FindNotListening ==
  /\ watchdog.pc = "idle"
  /\ agent.pc = "down"
  /\ watchdog' = [watchdog EXCEPT !.pc = "read"]
  /\ UNCHANGED <<file, installers, rollbacks, faults, Elsewhere>>

Abandoned(p) == Overdue(p) /\ ~p.claimed /\ p.prev # 0

ReadState ==
  /\ watchdog.pc = "read"
  /\ watchdog' = IF Abandoned(file.pending) THEN [pc |-> "claim", file |-> file] ELSE Resting
  /\ UNCHANGED <<file, installers, rollbacks, faults, Elsewhere>>

WatchdogClaims ==
  /\ watchdog.pc = "claim"
  /\ file' = [watchdog.file EXCEPT !.pending = Claim(@)]
  /\ watchdog' = [watchdog EXCEPT !.pc = "download"]
  /\ UNCHANGED <<installers, rollbacks, faults, Elsewhere>>

\* The state it read a download ago, without its pendingUpdate.
WatchdogRollsBack ==
  LET p == watchdog.file.pending IN
  /\ watchdog.pc = "download"
  /\ file' = [watchdog.file EXCEPT !.pending = NoUpdate]
  /\ installers' = installers \cup {Installer("watchdog", "rollback", p.prev)}
  /\ rollbacks' = [rollbacks EXCEPT ![p.attempt] = IF @ < 2 THEN @ + 1 ELSE @]
  /\ watchdog' = Resting
  /\ UNCHANGED <<faults, Elsewhere>>

\* The download fails, or the pass is cut short.
WatchdogFails ==
  /\ watchdog.pc # "idle"
  /\ Faulty
  /\ watchdog' = Resting
  /\ UNCHANGED <<file, installers, rollbacks, Elsewhere>>

-----------------------------------------------------------------------------
(* A silent installer: CloseApplications=force stops the agent, the files  *)
(* are replaced, the tasks are run again (Start).                          *)

InstallerStops(i) ==
  /\ i.pc = "stop"
  /\ installers' = (installers \ {i}) \cup {[i EXCEPT !.pc = "copy"]}
  /\ agent' = Down
  /\ memory' = NoUpdate
  /\ UNCHANGED <<published, installed, file, watchdog, attempts, overdue, rollbacks, faults>>

InstallerCopies(i) ==
  /\ i.pc = "copy"
  /\ installed' = i.release
  /\ installers' = installers \ {i}
  /\ UNCHANGED <<published, file, memory, agent, watchdog, attempts, overdue, rollbacks, faults>>

\* It aborts, having stopped the agent or not.
InstallerFails(i) ==
  /\ Faulty
  /\ installers' = installers \ {i}
  /\ UNCHANGED <<published, installed, file, memory, agent, watchdog, attempts, overdue, rollbacks>>

-----------------------------------------------------------------------------
Publish ==
  /\ published < MaxRelease
  /\ published' = published + 1
  /\ UNCHANGED <<installed, file, memory, agent, watchdog, installers, attempts, overdue, rollbacks, faults>>

\* Ten minutes after the next attempt was launched.  An installer needs less,
\* and so do the Scheduled Tasks to start an agent that nothing has failed.
WindowCloses ==
  /\ overdue < attempts
  /\ installers = {}
  /\ faults = 0 => agent.pc # "down"
  /\ WatchdogIsQuick
  /\ overdue' = overdue + 1
  /\ UNCHANGED <<published, installed, file, memory, agent, watchdog, installers, attempts, rollbacks, faults>>

Cycle ==
  \/ NothingPending \/ ConfirmHealthy \/ CountHeartbeat \/ MissHeartbeat
  \/ KeepWaiting \/ ClaimRollback \/ RollBack
  \/ FetchUpdate \/ SkipUpdate \/ Accept \/ Launch

Watch == FindNotListening \/ ReadState \/ WatchdogClaims \/ WatchdogRollsBack

Install == \E i \in installers : InstallerStops(i) \/ InstallerCopies(i)

Fault ==
  \/ DownloadFails \/ Crash \/ WatchdogFails
  \/ \E i \in installers : InstallerFails(i)

Next == Start \/ Cycle \/ Watch \/ Install \/ Publish \/ WindowCloses \/ Fault

Spec == Init /\ [][Next]_vars

\* The poll loop, the watchdog's one-minute schedule, the Scheduled Tasks that
\* start the agent, an installer once launched, and the clock.
FairSpec ==
  /\ Spec
  /\ WF_vars(Start) /\ WF_vars(Cycle) /\ WF_vars(Watch)
  /\ WF_vars(Install) /\ WF_vars(WindowCloses)

-----------------------------------------------------------------------------
Updates == [attempt : Attempts, to : Releases, prev : Releases,
            beats : 0..HeartbeatsRequired, starts : 0..2, claimed : BOOLEAN]

States == [accepted : Releases, pending : Updates]

\* The types of the state.
TypeOK ==
  /\ published \in Releases /\ installed \in Releases
  /\ file \in States /\ memory \in Updates
  /\ agent \in [pc : {"down", "cycle", "deadline", "rollback", "update", "fetch", "launch"},
                release : Releases, target : Releases, state : States,
                life : 0..HeartbeatsRequired]
  /\ watchdog \in [pc : {"idle", "read", "claim", "download"}, file : States]
  /\ installers \subseteq [by : {"agent", "watchdog"}, kind : {"update", "rollback"},
                            release : Releases, pc : {"stop", "copy"}]
  /\ attempts \in Attempts /\ overdue \in 0..attempts
  /\ rollbacks \in [Attempts -> 0..2]
  /\ faults \in 0..MaxFaults

\* An update is only declared healthy by a process that itself made the
\* required heartbeats since it started: no crash, restart or claim written
\* over the shared file lets one process inherit the heartbeats of another.
HealthIsEarned ==
  [][ConfirmHealthy => agent'.life >= HeartbeatsRequired]_vars

\* Nobody gives up on an update before its window has closed: a rollback
\* installer is only ever launched for an overdue attempt, by agent or watchdog.
RollbackIsLate ==
  \A i \in Attempts : rollbacks[i] > 0 => i \in 1..overdue

\* What either party would return to was accepted before the update it undoes,
\* and is an older release.
RollbackGoesBack ==
  \A p \in {file.pending, memory, watchdog.file.pending} :
    p.attempt # 0 => p.prev < p.to

\* "Whichever gets here first claims it; the other sees rollbackClaimed already
\* set and skips": one attempt is rolled back at most once.
RollbackOnce == \A i \in Attempts : rollbacks[i] <= 1

\* "Confirms healthy after ... or rolls back automatically": an update with a
\* release to return to does not stay unsettled for ever.  One fault may leave it
\* so: a rollback whose download fails keeps its claim, and nobody tries again.
EveryUpdateSettles ==
  \A i \in Attempts \ {0} :
    (file.pending.attempt = i /\ file.pending.prev # 0)
    ~> (file.pending.attempt # i \/ faults > 0)
==============================================================================
