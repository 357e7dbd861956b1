-------------------------------- MODULE MqttLink --------------------------------
(***************************************************************************)
(* The agent's MQTT connection (local-agent/server/telemetry-server.mjs    *)
(* ensureMqttClient, publishMqttLiveStatus, handleIncomingMqttCommand):    *)
(* the lazy import, one client per enrolled identity, the hand-driven      *)
(* reconnection with its one shared timer and backoff, and commands taken  *)
(* from the broker and answered over it.                                   *)
(*                                                                         *)
(* Identities are numbered in the order they are enrolled, and the client  *)
(* made for an identity has its number.  The mqtt library, modelled from   *)
(* how it is used: end(true) drops what waits to be published and closes   *)
(* the stream, whose 'close' comes later; reconnect() reopens any client,  *)
(* also one that was ended; a QoS 1 publish by a client that is down waits *)
(* for its next connection, by one that was ended it fails.                *)
(***************************************************************************)
EXTENDS Integers, FiniteSets

CONSTANTS
  MaxIds,    \* bound on the identities the device is enrolled under
  Commands,  \* commands Nexus One dispatches, each once, to some identity
  MaxMishaps  \* bound on refused or dropped connections and restarts of the agent

ASSUME IdsAssumption == MaxIds \in Nat \ {0}
ASSUME MishapsAssumption == MaxMishaps \in Nat

VARIABLES
  id,      \* deviceCredentials.id, 0 before enrolment
  wiped,   \* deviceCredentials is null
  import,  \* mqttImportState
  client,  \* the identity mqttClient was made for, 0 when it is null
  link,    \* per client: none, connecting, connected, closed, ending, ended
  timer,   \* the client mqttReconnectTimer will reconnect, 0 when it is not set
  retry,   \* doublings of mqttRetryMs
  cmd,     \* per command: new, running at a client, its result waiting there, answered, lost
  mishaps

linkVars == <<id, wiped, import, client, link, timer, retry, cmd, mishaps>>

Ids == 1..MaxIds
MaxRetry == 5  \* 1, 2, 4, 8, 16, 30 seconds
Clean(status) == [status |-> status, at |-> 0]

LinkInit ==
  /\ id = 0 /\ wiped = TRUE
  /\ import = "idle"
  /\ client = 0
  /\ link = [k \in Ids |-> "none"]
  /\ timer = 0
  /\ retry = 0
  /\ cmd = [c \in Commands |-> Clean("new")]
  /\ mishaps = 0

Mishap == mishaps < MaxMishaps /\ mishaps' = mishaps + 1

-----------------------------------------------------------------------------
(* The device's identity, changed by the poll loop and by approved wipes. *)

Enrol ==
  /\ wiped /\ id < MaxIds
  /\ id' = id + 1
  /\ wiped' = FALSE
  /\ UNCHANGED <<import, client, link, timer, retry, cmd, mishaps>>

Wipe ==
  /\ ~wiped
  /\ wiped' = TRUE
  /\ UNCHANGED <<id, import, client, link, timer, retry, cmd, mishaps>>

-----------------------------------------------------------------------------
(* ensureMqttClient, called with every collection of an enrolled device *)

BeginImport ==
  /\ ~wiped /\ import = "idle"
  /\ import' = "loading"
  /\ UNCHANGED <<id, wiped, client, link, timer, retry, cmd, mishaps>>

Imported ==
  /\ import = "loading"
  /\ import' \in {"ready", "failed"}
  /\ UNCHANGED <<id, wiped, client, link, timer, retry, cmd, mishaps>>

\* What an ended client still has open is closed later.
Ended(k) == IF link[k] = "closed" THEN "ended" ELSE "ending"

Waiting(c, k) == cmd[c] = [status |-> "waiting", at |-> k]
Lost(c) == [cmd[c] EXCEPT !.status = "lost"]

\* A change of identity replaces the client.  When a certificate cannot be read
\* there is none until the next collection.
Replace ==
  /\ ~wiped /\ import = "ready" /\ client # id
  /\ timer' = 0
  /\ \E readable \in BOOLEAN :
       /\ client' = IF readable THEN id ELSE 0
       /\ retry' = IF readable THEN 0 ELSE retry
       /\ link' = [k \in Ids |-> IF k = id /\ readable THEN "connecting"
                               ELSE IF k = client THEN Ended(k) ELSE link[k]]
  /\ cmd' = [c \in Commands |-> IF Waiting(c, client) THEN Lost(c) ELSE cmd[c]]
  /\ UNCHANGED <<id, wiped, import, mishaps>>

-----------------------------------------------------------------------------
(* Events of a client *)

\* 'connect': the backoff starts over; what was waiting to be published goes.
\* Mutant of Connected: the backoff is kept.
ConnectedBackedOff(k) ==
  /\ link[k] = "connecting"
  /\ link' = [link EXCEPT ![k] = "connected"]
  /\ cmd' = [c \in Commands |-> IF Waiting(c, k) THEN Clean("answered") ELSE cmd[c]]
  /\ UNCHANGED <<id, wiped, import, client, timer, retry, mishaps>>
Connected(k) ==
  /\ link[k] = "connecting"
  /\ link' = [link EXCEPT ![k] = "connected"]
  /\ retry' = 0
  /\ cmd' = [c \in Commands |-> IF Waiting(c, k) THEN Clean("answered") ELSE cmd[c]]
  /\ UNCHANGED <<id, wiped, import, client, timer, mishaps>>

\* 'close': one timer for all clients; a close while it is set is not acted on.
\* Mutant of OnClose: nothing is scheduled while there are no credentials.
OnCloseIfEnrolled(k) == timer' = IF timer = 0 /\ ~wiped THEN k ELSE timer
OnClose(k) == timer' = IF timer = 0 THEN k ELSE timer

\* Mutant of Close: only a drop is retried, not a refusal.
CloseOfConnected(k) ==
  /\ link[k] \in {"connecting", "connected"}
  /\ Mishap
  /\ link' = [link EXCEPT ![k] = "closed"]
  /\ timer' = IF timer = 0 /\ link[k] = "connected" THEN k ELSE timer
  /\ UNCHANGED <<id, wiped, import, client, retry, cmd>>

\* A refused or dropped connection.
Close(k) ==
  /\ link[k] \in {"connecting", "connected"}
  /\ Mishap
  /\ link' = [link EXCEPT ![k] = "closed"]
  /\ OnClose(k)
  /\ UNCHANGED <<id, wiped, import, client, retry, cmd>>

\* The stream of an ended client closes; its listener is still attached.
EndedClose(k) ==
  /\ link[k] = "ending"
  /\ link' = [link EXCEPT ![k] = "ended"]
  /\ OnClose(k)
  /\ UNCHANGED <<id, wiped, import, client, retry, cmd, mishaps>>

\* Mutants of Reconnect: no ceiling; the client is reopened and the timer not forgotten.
ReconnectUncapped ==
  /\ timer # 0
  /\ timer' = 0
  /\ retry' = retry + 1
  /\ link' = [link EXCEPT ![timer] = "connecting"]
  /\ UNCHANGED <<id, wiped, import, client, cmd, mishaps>>
ReconnectKeepingTimer ==
  /\ timer # 0
  /\ retry' = IF retry = MaxRetry THEN retry ELSE retry + 1
  /\ link' = [link EXCEPT ![timer] = "connecting"]
  /\ UNCHANGED <<id, wiped, import, client, timer, cmd, mishaps>>
Reconnect ==
  /\ timer # 0
  /\ timer' = 0
  /\ retry' = IF retry = MaxRetry THEN retry ELSE retry + 1
  /\ link' = [link EXCEPT ![timer] = "connecting"]
  /\ UNCHANGED <<id, wiped, import, client, cmd, mishaps>>

-----------------------------------------------------------------------------
(* handleIncomingMqttCommand *)

\* The client of the identity it was sent to takes it, whatever identity the
\* device has by now.
Take(c, k) ==
  /\ cmd[c].status = "new" /\ link[k] = "connected"
  /\ cmd' = [cmd EXCEPT ![c] = [status |-> "running", at |-> k]]
  /\ UNCHANGED <<id, wiped, import, client, link, timer, retry, mishaps>>

\* Run, refused or unknown: each is published, by the client that took it.
\* Mutant of Result: a result is only published when the action succeeded.
ResultOfSuccess(c) ==
  /\ cmd[c].status = "running"
  /\ \E succeeded \in BOOLEAN :
       cmd' = [cmd EXCEPT ![c] =
                 CASE ~succeeded -> [@ EXCEPT !.status = "dropped"]
                   [] succeeded /\ link[@.at] = "connected" -> Clean("answered")
                   [] succeeded /\ link[@.at] \in {"ending", "ended"} -> [@ EXCEPT !.status = "lost"]
                   [] OTHER -> [@ EXCEPT !.status = "waiting"]]
  /\ UNCHANGED <<id, wiped, import, client, link, timer, retry, mishaps>>
Result(c) ==
  /\ cmd[c].status = "running"
  /\ cmd' = [cmd EXCEPT ![c] =
               CASE link[@.at] = "connected" -> Clean("answered")
                 [] link[@.at] \in {"ending", "ended"} -> [@ EXCEPT !.status = "lost"]
                 [] OTHER -> [@ EXCEPT !.status = "waiting"]]
  /\ UNCHANGED <<id, wiped, import, client, link, timer, retry, mishaps>>

\* The agent starts again.  Its identity is on disk.
Restart ==
  /\ Mishap
  /\ import' = "idle" /\ client' = 0 /\ timer' = 0 /\ retry' = 0
  /\ link' = [k \in Ids |-> "none"]
  /\ cmd' = [c \in Commands |-> IF cmd[c].status \in {"running", "waiting"}
                                THEN Lost(c) ELSE cmd[c]]
  /\ UNCHANGED <<id, wiped>>

LinkNext ==
  \/ Enrol \/ Wipe \/ BeginImport \/ Imported \/ Replace \/ Reconnect \/ Restart
  \/ \E k \in Ids : Connected(k) \/ Close(k) \/ EndedClose(k)
  \/ \E c \in Commands : Result(c) \/ \E k \in Ids : Take(c, k)

LinkSpec == LinkInit /\ [][LinkNext]_linkVars

\* Collections, timers and the library keep running, certificates that cannot
\* be read are put right, and the network fails at most MaxMishaps times.
\* Nobody owes the device a wipe or a command.
LinkFairSpec ==
  /\ LinkSpec
  /\ WF_linkVars(Enrol) /\ WF_linkVars(BeginImport) /\ WF_linkVars(Imported)
  /\ WF_linkVars(Replace) /\ WF_linkVars(Reconnect)
  /\ \A k \in Ids : WF_linkVars(Connected(k)) /\ WF_linkVars(EndedClose(k))
  /\ \A c \in Commands : WF_linkVars(Result(c))

-----------------------------------------------------------------------------
(* Properties *)

\* A client that was ended has the timer, or was opened again by it: its late 'close'
\* came while no timer was set.  A device that is enrolled anew need not come to this.
Strayed ==
  \E k \in Ids : k # client /\ (timer = k \/ link[k] \in {"connecting", "connected", "closed"})

LinkTypeOK ==
  /\ id \in 0..MaxIds /\ wiped \in BOOLEAN
  /\ import \in {"idle", "loading", "ready", "failed"}
  /\ client \in 0..MaxIds
  /\ link \in [Ids -> {"none", "connecting", "connected", "closed", "ending", "ended"}]
  /\ timer \in 0..MaxIds /\ retry \in 0..MaxRetry
  /\ cmd \in [Commands -> [status : {"new", "running", "waiting", "answered", "lost"},
                           at : 0..MaxIds]]
  /\ mishaps \in 0..MaxMishaps

\* The timer only ever reopens a client that is down: no connection is opened
\* a second time under the same client id, which a broker answers by closing
\* the first (the guard of the 'close' listener, the reset in ensureMqttClient).
OnlyReopensClosed == timer # 0 => link[timer] \in {"closed", "ended"}

\* The client in use, when it is down, holds the timer and will be reopened, also after
\* the device was enrolled anew; only an ended client that came back, or that is about
\* to, can have taken the timer from it.
DownIsScheduled ==
  client # 0 /\ link[client] = "closed" => timer = client \/ Strayed

\* While the client in use is up the next drop is retried after one second, not after
\* what earlier outages, or those of an earlier identity, had doubled the wait to.
BackoffStartsOver ==
  client # 0 /\ link[client] = "connected" => retry = 0 \/ Strayed

\* A command that is taken is answered, unless the client that took it is ended or the
\* agent restarts meanwhile, and again unless an ended client came back
\* (handleIncomingMqttCommand publishes every outcome, queued while the client is down).
TakenIsAnswered ==
  \A c \in Commands :
    cmd[c].status = "running" ~> cmd[c].status \in {"answered", "lost"} \/ Strayed

\* An enrolled device is connected again and again, however often the broker dropped or
\* refused it and whoever it was before, unless an ended client came back.
StaysConnected ==
  []<>(wiped \/ import = "failed" \/ Strayed \/ (client # 0 /\ link[client] = "connected"))

\* One timer, for a client that is down, growing only while it is down.
ReconnectionIsSound == OnlyReopensClosed /\ DownIsScheduled /\ BackoffStartsOver

\* The link comes back and what was taken over it is answered.
LinkRecovers == TakenIsAnswered /\ StaysConnected

\* StaysConnected whatever became of ended clients.  This one does not hold: the late
\* 'close' of one takes the one timer, and the close of the client in use is then not
\* acted on (the comments at the reconnection constants).
ReplacementStaysConnected ==
  []<>(wiped \/ import = "failed" \/ (client # 0 /\ link[client] = "connected"))
=============================================================================
