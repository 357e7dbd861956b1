----------------------------- MODULE RemoteSession -----------------------------
(***************************************************************************)
(* A remote-assist session: the customer's page and the joining page       *)
(* (frontend remote-poc/ScreenSharePOC.tsx, share and view role), the      *)
(* agent's proxies in between (create, end) and the backend's relay        *)
(* (backend/remote_session.go).  Once the two pages have negotiated, files *)
(* move over their data channel (FileTransfer).                            *)
(*                                                                         *)
(* Every await of the customer's page is a state of its own, so that a     *)
(* click, a close event or a timer can come in between.  A socket that is  *)
(* cut delivers any part of what was under way, and each end learns of the *)
(* cut in its own time.                                                    *)
(***************************************************************************)
EXTENDS FileTransfer, FiniteSets

CONSTANTS
  Modes,       \* what the customer asks for: "screen", "voice", "chat"
  Operators,   \* pages that join
  MaxStarts,   \* bound: sessions the customer asks for
  MaxSockets,  \* bound: sockets opened, of both roles
  MaxJoins,    \* bound: clicks on Join
  MaxFaults    \* bound: dropped connections and failed requests

ASSUME StartsAssumption == MaxStarts \in Nat /\ MaxSockets \in Nat /\ MaxJoins \in Nat
ASSUME FaultsAssumption == MaxFaults \in Nat
ASSUME OperatorsAssumption == "none" \notin Operators /\ "customer" \notin Operators

\* A session has the number of the startSession call that asked for it.
Sessions == 1..MaxStarts
Sockets == 1..MaxSockets
None == 0
Kinds == {"join-request", "join-denied", "offer", "answer"}

VARIABLES
  sess,       \* the backend's sessions
  sock,       \* sockets: whose, to which session, both ends, what is under way
  start,      \* start[s]: the await at which startSession stands
  page,       \* the customer's page: state and refs
  waits,      \* its other pending work: existence checks, unclearable timers, approvals, a stop
  capturing,  \* startSession calls whose screen capture is live
  view,       \* the joining pages
  joins,      \* clicks on Join so far
  faults

relayVars == <<sess, sock>>
pageVars == <<start, page, waits, capturing>>
vars == <<relayVars, pageVars, view, joins, faults, fileVars>>

NoSession == [created |-> FALSE, stored |-> FALSE, peers |-> {}, last |-> "none",
              armed |-> FALSE, stray |-> 0, removing |-> 0]
NoSocket == [of |-> None, by |-> "none", client |-> "none", server |-> "none",
             cut |-> FALSE, replay |-> "none", in |-> <<>>, out |-> <<>>]
Blank == [status |-> "idle", session |-> None, ws |-> None, pc |-> None, offered |-> FALSE,
          pending |-> FALSE, offerSent |-> FALSE, intentional |-> FALSE, timer |-> None,
          stream |-> None]
NoView == [status |-> "idle", ws |-> None]

Init ==
  /\ sess = [s \in Sessions |-> NoSession]
  /\ sock = [k \in Sockets |-> NoSocket]
  /\ start = [s \in Sessions |-> "none"]
  /\ page = Blank
  /\ waits = [checks |-> {}, stray |-> {}, approvals |-> {}, stopping |-> None]
  /\ capturing = {}
  /\ view = [o \in Operators |-> NoView]
  /\ joins = 0
  /\ faults = 0
  /\ FileInit

Fault == faults < MaxFaults /\ faults' = faults + 1

-----------------------------------------------------------------------------
(* Sockets.  send() on one that is cut, closing or closed is lost without a *)
(* sound; on one that is open it is under way.                              *)

Free == {k \in Sockets : sock[k].by = "none"}
Fresh == CHOOSE k \in Free : \A j \in Free : k <= j

Opened(s, who) == [NoSocket EXCEPT !.of = s, !.by = who, !.client = "connecting"]
Sent(k, msg) ==
  IF sock[k].client = "open" /\ ~sock[k].cut
  THEN [sock[k] EXCEPT !.out = Append(@, msg)] ELSE sock[k]
Shut(k) ==
  IF sock[k].client \in {"connecting", "open"}
  THEN [sock[k] EXCEPT !.client = "closing", !.cut = TRUE] ELSE sock[k]
Told(k, msg) == IF sock[k].cut THEN sock[k] ELSE [sock[k] EXCEPT !.in = Append(@, msg)]

Drop(k) ==
  /\ sock[k].client = "open" /\ ~sock[k].cut
  /\ Fault
  /\ sock' = [sock EXCEPT ![k].cut = TRUE]
  /\ UNCHANGED <<sess, pageVars, view, joins, fileVars>>

-----------------------------------------------------------------------------
(* The backend: handleRemoteSessionWS *)

\* store.get, then the upgrade.
Lookup(k) ==
  /\ sock[k].by # "none" /\ sock[k].server = "none"
  /\ sock' = [sock EXCEPT ![k] =
       IF sess[sock[k].of].stored THEN [@ EXCEPT !.server = "found"]
       ELSE [@ EXCEPT !.server = "gone", !.cut = TRUE]]
  /\ UNCHANGED <<sess, pageVars, view, joins, faults, fileVars>>

\* What a newcomer is told: the one message the session keeps.
\* Mutant of Kept: nothing is kept for who comes later.
KeptNothing(s) == "none"
Kept(s) == sess[s].last

\* The peer is added and a pending removal stopped, under the session's lock.  The
\* joining page asks to join the instant its socket is open.
Join(k) ==
  /\ sock[k].server = "found"
  /\ LET s == sock[k].of
         opens == sock[k].client = "connecting"
     IN  /\ sess' = [sess EXCEPT ![s].peers = @ \cup {k}, ![s].armed = FALSE]
         /\ sock' = [sock EXCEPT
              ![k].server = "peer", ![k].replay = Kept(s),
              ![k].client = IF opens THEN "open" ELSE @,
              ![k].out = IF opens /\ sock[k].by \in Operators THEN <<"join-request">> ELSE @]
         /\ page' = IF opens /\ sock[k].by = "customer" /\ page.status = "reconnecting"
                    THEN [page EXCEPT !.status = "waiting"] ELSE page
         /\ view' = [o \in Operators |-> IF opens /\ sock[k].by = o
                                         THEN [view[o] EXCEPT !.status = "waiting"] ELSE view[o]]
  /\ UNCHANGED <<start, waits, capturing, joins, faults, fileVars>>

\* The last message is written to the newcomer outside the lock, so a newer one may
\* have gone before it.
Replay(k) ==
  /\ sock[k].replay # "none"
  /\ sock' = [sock EXCEPT ![k] = [Told(k, sock[k].replay) EXCEPT !.replay = "none"]]
  /\ UNCHANGED <<sess, pageVars, view, joins, faults, fileVars>>

Relay(k) ==
  /\ sock[k].server = "peer" /\ sock[k].replay = "none" /\ sock[k].out # <<>>
  /\ LET s == sock[k].of
         msg == Head(sock[k].out)
     IN  /\ sess' = [sess EXCEPT ![s].last = msg]
         /\ sock' = [j \in Sockets |-> IF j = k THEN [sock[k] EXCEPT !.out = Tail(@)]
                                       ELSE IF j \in sess[s].peers THEN Told(j, msg) ELSE sock[j]]
  /\ UNCHANGED <<pageVars, view, joins, faults, fileVars>>

\* The deferred clean-up: out of the peers, and once more under the lock to arm the
\* removal if none were left.  Mutant of Leave: the peer that leaves is still counted.
LeaveCounted(k) ==
  /\ sock[k].server = "peer" /\ sock[k].cut /\ sock[k].replay = "none"
  /\ LET s == sock[k].of
     IN  /\ sess' = [sess EXCEPT ![s].peers = @ \ {k}]
         /\ sock' = [sock EXCEPT ![k].server = IF sess[s].peers = {} THEN "leaving" ELSE "gone", ![k].out = <<>>]
  /\ UNCHANGED <<pageVars, view, joins, faults, fileVars>>
Leave(k) ==
  /\ sock[k].server = "peer" /\ sock[k].cut /\ sock[k].replay = "none"
  /\ LET s == sock[k].of
         rest == sess[s].peers \ {k}
     IN  /\ sess' = [sess EXCEPT ![s].peers = rest]
         /\ sock' = [sock EXCEPT ![k].server = IF rest = {} THEN "leaving" ELSE "gone", ![k].out = <<>>]
  /\ UNCHANGED <<pageVars, view, joins, faults, fileVars>>

Arm(k) ==
  /\ sock[k].server = "leaving"
  /\ LET s == sock[k].of
     IN  sess' = [sess EXCEPT ![s].armed = TRUE, ![s].stray = IF sess[s].armed THEN @ + 1 ELSE @]
  /\ sock' = [sock EXCEPT ![k].server = "gone"]
  /\ UNCHANGED <<pageVars, view, joins, faults, fileVars>>

\* sessionRemovalGracePeriod is over: the callback looks, unlocks, and removes.
GraceOver(s) ==
  /\ \/ sess[s].armed /\ sess' = [sess EXCEPT ![s].armed = FALSE,
                                  ![s].removing = IF sess[s].peers = {} THEN @ + 1 ELSE @]
     \/ sess[s].stray > 0 /\ sess' = [sess EXCEPT ![s].stray = @ - 1,
                                      ![s].removing = IF sess[s].peers = {} THEN @ + 1 ELSE @]
  /\ UNCHANGED <<sock, pageVars, view, joins, faults, fileVars>>

Remove(s) ==
  /\ sess[s].removing > 0
  /\ sess' = [sess EXCEPT ![s].stored = FALSE, ![s].removing = @ - 1]
  /\ UNCHANGED <<sock, pageVars, view, joins, faults, fileVars>>

\* sweepExpired: nobody is there, and the last join or message (not the last leave) is half
\* an hour old; how long a peer had been silent before it left is not kept here.
Sweep(s) ==
  /\ sess[s].stored /\ sess[s].peers = {}
  /\ sess' = [sess EXCEPT ![s].stored = FALSE]
  /\ UNCHANGED <<sock, pageVars, view, joins, faults, fileVars>>

\* endImmediately: the peers are closed, the removal stopped, the session evicted.
Ended(s) ==
  /\ sess' = [sess EXCEPT ![s].stored = FALSE, ![s].armed = FALSE]
  /\ sock' = [k \in Sockets |-> IF k \in sess[s].peers THEN [sock[k] EXCEPT !.cut = TRUE] ELSE sock[k]]

EndByOperator(s) ==
  /\ sess[s].stored
  /\ Ended(s)
  /\ UNCHANGED <<pageVars, view, joins, faults, fileVars>>

-----------------------------------------------------------------------------
(* The customer's page: startSession, one action per await *)

StartSession(s) ==
  /\ page.status = "idle" /\ start[s] = "none" /\ \A r \in 1..(s - 1) : start[r] # "none"
  /\ page' = [page EXCEPT !.status = "starting"]
  /\ \E mode \in Modes :
       start' = [start EXCEPT ![s] = IF mode = "screen" THEN "media" ELSE "setup"]
  /\ UNCHANGED <<relayVars, waits, capturing, view, joins, faults, fileVars>>

\* getDisplayMedia
Media(s) ==
  /\ start[s] = "media"
  /\ \/ /\ start' = [start EXCEPT ![s] = "setup"]
        /\ capturing' = capturing \cup {s}
        /\ page' = [page EXCEPT !.stream = s]
     \/ /\ start' = [start EXCEPT ![s] = "over"]
        /\ page' = [page EXCEPT !.status = "idle"]
        /\ UNCHANGED capturing
  /\ UNCHANGED <<relayVars, waits, view, joins, faults, fileVars>>

\* The peer connection, the microphone, the data channel.
SetUp(s) ==
  /\ start[s] = "setup"
  /\ start' = [start EXCEPT ![s] = "creating"]
  /\ page' = [page EXCEPT !.status = "creating", !.pc = s, !.offered = FALSE]
  /\ UNCHANGED <<relayVars, waits, capturing, view, joins, faults, fileVars>>

\* handleRemoteSessionCreate: the agent asks the backend for a session under its own key.
Created(s) == sess' = [sess EXCEPT ![s].created = TRUE, ![s].stored = TRUE]

\* createRemoteSession.
Create(s) ==
  /\ start[s] = "creating"
  /\ \/ /\ start' = [start EXCEPT ![s] = "origin"]
        /\ Created(s)
        /\ page' = [page EXCEPT !.session = s, !.intentional = FALSE, !.offerSent = FALSE]
        /\ UNCHANGED faults
     \/ /\ Fault
        /\ start' = [start EXCEPT ![s] = "over"]
        /\ page' = [page EXCEPT !.status = "idle"]
        /\ UNCHANGED sess
  /\ UNCHANGED <<sock, waits, capturing, view, joins, fileVars>>

\* openSessionSocket awaits the backend's address.
FirstSocket(s) ==
  /\ start[s] = "origin" /\ Free # {}
  /\ start' = [start EXCEPT ![s] = "over"]
  /\ sock' = [sock EXCEPT ![Fresh] = Opened(s, "customer")]
  /\ page' = [page EXCEPT !.ws = Fresh, !.status = "waiting"]
  /\ UNCHANGED <<sess, waits, capturing, view, joins, faults, fileVars>>

-----------------------------------------------------------------------------
(* The customer's socket: connectShareSocket, scheduleShareReconnect *)

CustomerReceives(k) ==
  /\ sock[k].by = "customer" /\ sock[k].client = "open" /\ sock[k].in # <<>>
  /\ sock' = [sock EXCEPT ![k].in = Tail(@)]
  /\ page' = CASE Head(sock[k].in) = "join-request" -> [page EXCEPT !.pending = TRUE]
               [] Head(sock[k].in) = "answer" /\ page.pc # None /\ page.offered ->
                    [page EXCEPT !.status = "completing"]
               [] OTHER -> page
  /\ UNCHANGED <<sess, start, waits, capturing, view, joins, faults, fileVars>>

\* onclose: the refs are read now, not when the socket was opened.
CustomerClosed(k) ==
  /\ sock[k].by = "customer" /\ sock[k].cut /\ sock[k].client \in {"connecting", "open", "closing"}
  /\ sock' = [sock EXCEPT ![k].client = "closed", ![k].in = <<>>]
  /\ waits' = IF page.intentional \/ page.offerSent THEN waits
              ELSE [waits EXCEPT !.checks = @ \cup {sock[k].of}]
  /\ UNCHANGED <<sess, start, page, capturing, view, joins, faults, fileVars>>

\* checkSessionExists: no, yes, or it could not tell.
\* Mutant of CheckDone: no timer is set unless the session is known to exist.
CheckDoneUnsure(s) ==
  /\ s \in waits.checks
  /\ \/ /\ ~sess[s].stored
        /\ page' = [page EXCEPT !.status = "idle"]
        /\ waits' = [waits EXCEPT !.checks = @ \ {s}]
        /\ UNCHANGED faults
     \/ /\ \/ sess[s].stored /\ UNCHANGED faults /\ page' = [page EXCEPT !.status = "reconnecting", !.timer = s]
           \/ Fault /\ page' = [page EXCEPT !.status = "reconnecting"]
        /\ waits' = [waits EXCEPT !.checks = @ \ {s},
                       !.stray = IF page.timer = None THEN @ ELSE @ \cup {page.timer}]
  /\ UNCHANGED <<relayVars, start, capturing, view, joins, fileVars>>
CheckDone(s) ==
  /\ s \in waits.checks
  /\ \/ /\ ~sess[s].stored
        /\ page' = [page EXCEPT !.status = "idle"]
        /\ waits' = [waits EXCEPT !.checks = @ \ {s}]
        /\ UNCHANGED faults
     \/ /\ IF sess[s].stored THEN UNCHANGED faults ELSE Fault
        /\ page' = [page EXCEPT !.status = "reconnecting", !.timer = s]
        /\ waits' = [waits EXCEPT !.checks = @ \ {s},
                       !.stray = IF page.timer = None THEN @ ELSE @ \cup {page.timer}]
  /\ UNCHANGED <<relayVars, start, capturing, view, joins, fileVars>>

Reconnect(s) ==
  /\ Free # {}
  /\ \/ page.timer = s /\ page' = [page EXCEPT !.timer = None, !.ws = Fresh] /\ UNCHANGED waits
     \/ s \in waits.stray /\ page' = [page EXCEPT !.ws = Fresh]
                          /\ waits' = [waits EXCEPT !.stray = @ \ {s}]
  /\ sock' = [sock EXCEPT ![Fresh] = Opened(s, "customer")]
  /\ UNCHANGED <<sess, start, capturing, view, joins, faults, fileVars>>

-----------------------------------------------------------------------------
(* The customer's clicks *)

\* approveJoinRequest up to the wait for ICE candidates, and after it.
Approve ==
  /\ page.pending
  /\ page' = [page EXCEPT !.pending = FALSE]
  /\ waits' = IF page.pc # None /\ page.ws # None /\ sock[page.ws].client = "open"
              THEN [waits EXCEPT !.approvals = @ \cup {<<page.pc, page.ws>>}] ELSE waits
  /\ UNCHANGED <<relayVars, start, capturing, view, joins, faults, fileVars>>

Offer(a) ==
  /\ a \in waits.approvals
  /\ waits' = [waits EXCEPT !.approvals = @ \ {a}]
  /\ \/ /\ sock' = [sock EXCEPT ![a[2]] = Sent(a[2], "offer")]
        /\ page' = [page EXCEPT !.offerSent = TRUE, !.offered = @ \/ page.pc = a[1]]
        /\ UNCHANGED faults
     \/ Fault /\ UNCHANGED <<sock, page>>
  /\ UNCHANGED <<sess, start, capturing, view, joins, fileVars>>

Deny ==
  /\ page.pending
  /\ page' = [page EXCEPT !.pending = FALSE]
  /\ sock' = IF page.ws = None THEN sock ELSE [sock EXCEPT ![page.ws] = Sent(page.ws, "join-denied")]
  /\ UNCHANGED <<sess, start, waits, capturing, view, joins, faults, fileVars>>

\* teardownLocalState: what is awaited at that moment goes on.
Teardown ==
  /\ page' = [Blank EXCEPT !.intentional = TRUE]
  /\ sock' = IF page.ws = None THEN sock ELSE [sock EXCEPT ![page.ws] = Shut(page.ws)]
  /\ capturing' = capturing \ {page.stream}
  /\ IF channel = "open" THEN CloseChannel ELSE UNCHANGED fileVars

Reset ==
  /\ page # [Blank EXCEPT !.intentional = TRUE] /\ page # Blank
  /\ Teardown
  /\ UNCHANGED <<sess, start, waits, view, joins, faults>>

\* stopSharing: the backend is told first, and torn down whatever it said.
Stop ==
  /\ page.status \in {"waiting", "reconnecting", "completing"} /\ page.session # None
  /\ waits.stopping = None
  /\ waits' = [waits EXCEPT !.stopping = page.session]
  /\ UNCHANGED <<relayVars, start, page, capturing, view, joins, faults, fileVars>>

EndReaches ==
  /\ waits.stopping # None /\ sess[waits.stopping].stored
  /\ Ended(waits.stopping)
  /\ UNCHANGED <<pageVars, view, joins, faults, fileVars>>

StopDone ==
  /\ waits.stopping # None
  /\ IF sess[waits.stopping].stored THEN Fault ELSE UNCHANGED faults
  /\ Teardown
  /\ waits' = [waits EXCEPT !.stopping = None]
  /\ UNCHANGED <<sess, start, view, joins>>

-----------------------------------------------------------------------------
(* The joining page: joinSession, handleOffer *)

ClickJoin(o, s) ==
  /\ view[o].status = "idle" /\ sess[s].created /\ joins < MaxJoins /\ Free # {}
  /\ joins' = joins + 1
  /\ sock' = [sock EXCEPT ![Fresh] = Opened(s, o)]
  /\ view' = [view EXCEPT ![o] = [status |-> "connecting", ws |-> Fresh]]
  /\ UNCHANGED <<sess, pageVars, faults, fileVars>>

ViewReceives(o) ==
  /\ view[o].ws # None
  /\ LET k == view[o].ws
     IN  /\ sock[k].client = "open" /\ sock[k].in # <<>>
         /\ LET msg == Head(sock[k].in)
                read == [sock EXCEPT ![k].in = Tail(@)]
            IN  CASE msg = "offer" ->
                       view' = [view EXCEPT ![o].status = "answering"] /\ sock' = read
                  [] msg = "join-denied" ->
                       view' = [view EXCEPT ![o].status = "idle"]
                       /\ sock' = [read EXCEPT ![k] = [Shut(k) EXCEPT !.in = <<>>]]
                  [] OTHER -> sock' = read /\ UNCHANGED view
  /\ UNCHANGED <<sess, pageVars, joins, faults, fileVars>>

\* The answer goes out after the microphone prompt and the ICE candidates.
Answer(o) ==
  /\ view[o].status = "answering"
  /\ view' = [view EXCEPT ![o].status = "ready"]
  /\ sock' = [sock EXCEPT ![view[o].ws] = Sent(view[o].ws, "answer")]
  /\ UNCHANGED <<sess, pageVars, joins, faults, fileVars>>

\* There is no onclose: the page is told of a failed handshake only.
ViewClosed(k) ==
  /\ sock[k].by \in Operators /\ sock[k].cut /\ sock[k].client \in {"connecting", "open", "closing"}
  /\ sock' = [sock EXCEPT ![k].client = "closed", ![k].in = <<>>]
  /\ view' = IF sock[k].client = "connecting"
             THEN [view EXCEPT ![sock[k].by].status = "idle"] ELSE view
  /\ UNCHANGED <<sess, pageVars, joins, faults, fileVars>>

-----------------------------------------------------------------------------
\* Both pages have negotiated: the data channel opens.
Connected ==
  /\ page.status = "completing" /\ \E o \in Operators : view[o].status = "ready"
  /\ OpenChannel
  /\ UNCHANGED <<relayVars, pageVars, view, joins, faults>>

\* The data channel and the relay touch nothing of each other's: to keep instances small
\* files move while the relay is at rest and nothing has failed yet.
AtRest ==
  /\ faults = 0 /\ \A s \in Sessions : sess[s].created => sess[s].stored
  /\ \A k \in Sockets :
       /\ sock[k].in = <<>> /\ sock[k].out = <<>> /\ sock[k].replay = "none"
       /\ sock[k].cut => sock[k].client = "closed" /\ sock[k].server = "gone"
  /\ waits.approvals = {} /\ waits.stopping = None
Transfer ==
  /\ AtRest
  /\ FileStep \/ (channel = "open" /\ CloseChannel)
  /\ UNCHANGED <<relayVars, pageVars, view, joins, faults>>

Backend ==
  \/ \E k \in Sockets : Lookup(k) \/ Join(k) \/ Replay(k) \/ Relay(k) \/ Leave(k) \/ Arm(k)
  \/ \E s \in Sessions : Remove(s)
Page ==
  \/ \E k \in Sockets : CustomerReceives(k) \/ CustomerClosed(k)
  \/ \E s \in Sessions : SetUp(s) \/ Create(s) \/ FirstSocket(s) \/ CheckDone(s) \/ Reconnect(s)
  \/ \E a \in waits.approvals : Offer(a)
  \/ StopDone
View == (\E o \in Operators : ViewReceives(o) \/ Answer(o)) \/ \E k \in Sockets : ViewClosed(k)
Clicks ==
  \/ Approve \/ Deny \/ Reset \/ Stop \/ EndReaches
  \/ \E s \in Sessions : \/ StartSession(s) \/ Media(s) \/ EndByOperator(s)
                       \/ \E o \in Operators : ClickJoin(o, s)
Time == \E s \in Sessions : GraceOver(s) \/ Sweep(s)
Network == \E k \in Sockets : Drop(k)

Next == Backend \/ Page \/ View \/ Clicks \/ Time \/ Network \/ Connected \/ Transfer

Spec == Init /\ [][Next]_vars

\* The server, the event loops and the timers run: none of their steps can go on for ever
\* without a click or a fault, so what is enabled of them is done.  Nobody has to click.
FairSpec == Spec /\ WF_vars(Backend \/ Page \/ View)

-----------------------------------------------------------------------------
(* Properties *)

TypeOK ==
  /\ sess \in [Sessions -> [created : BOOLEAN, stored : BOOLEAN, peers : SUBSET Sockets,
                            last : Kinds \cup {"none"}, armed : BOOLEAN, stray : 0..MaxSockets,
                            removing : 0..MaxSockets]]
  /\ sock \in [Sockets -> [of : 0..MaxStarts, by : {"none", "customer"} \cup Operators,
                           client : {"none", "connecting", "open", "closing", "closed"},
                           server : {"none", "found", "peer", "leaving", "gone"},
                           cut : BOOLEAN, replay : Kinds \cup {"none"},
                           in : Seq(Kinds), out : Seq(Kinds)]]
  /\ start \in [Sessions -> {"none", "media", "setup", "creating", "origin", "over"}]
  /\ page \in [status : {"idle", "starting", "creating", "waiting", "reconnecting", "completing"},
               session : 0..MaxStarts, ws : 0..MaxSockets, pc : 0..MaxStarts, offered : BOOLEAN,
               pending : BOOLEAN, offerSent : BOOLEAN, intentional : BOOLEAN, timer : 0..MaxStarts,
               stream : 0..MaxStarts]
  /\ waits \in [checks : SUBSET Sessions, stray : SUBSET Sessions,
                approvals : SUBSET (Sessions \X Sockets), stopping : 0..MaxStarts]
  /\ capturing \subseteq Sessions
  /\ view \in [Operators -> [status : {"idle", "connecting", "waiting", "answering", "ready"},
                             ws : 0..MaxSockets]]
  /\ joins \in 0..MaxJoins /\ faults \in 0..MaxFaults
  /\ FileTypeOK

\* A session all peers have left is on its way out of the store: whatever order leaves,
\* joins and timers came in, a removal is armed or about to be.
SessionsAreReclaimed ==
  \A s \in Sessions :
    sess[s].stored /\ sess[s].peers = {} /\ (\E k \in Sockets : sock[k].of = s /\ sock[k].server = "gone")
    => \/ sess[s].armed \/ sess[s].removing > 0
       \/ \E k \in Sockets : sock[k].of = s /\ sock[k].server = "leaving"

\* The operator has asked to join, and its socket is fine.
Asking(o) ==
  LET k == view[o].ws
  IN  view[o].status = "waiting" /\ sock[k].client = "open" /\ ~sock[k].cut

\* A blip of the customer's socket does not lose a request to join: the customer's page
\* comes back to the session and shows the request, unless the customer leaves, is told
\* that the session has ended, or has let an operator in already (the replay of the last
\* message, scheduleShareReconnect).
RequestReachesCustomer ==
  \A o \in Operators :
    page.status = "reconnecting" /\ Asking(o)
      ~> \/ page.pending \/ ~Asking(o)
         \/ page.intentional \/ page.offerSent \/ page.status = "idle"

\* "Reconnecting" is not for ever: the page is back in the session or says it has ended.
\* After a Reset or Stop, or once the offer counts as sent, nothing of the kind is promised:
\* see the README.
ReconnectEnds ==
  page.status = "reconnecting" ~> \/ page.status # "reconnecting"
                                  \/ page.intentional \/ page.offerSent

\* Neither a session at the backend nor a file in the channel is left behind unaccounted for.
NothingLeftBehind == SessionsAreReclaimed /\ SentIsNotLost

\* A broken connection of the customer's is got over.
SessionRecovers == RequestReachesCustomer /\ ReconnectEnds

\* An answer the joining page sent reaches the customer's page.  It does not: past the offer
\* a dropped socket is not reopened, though the answer has still to come through it (the
\* comment at connectShareSocket).
AnswerArrives ==
  \A o \in Operators :
    view[o].status = "ready"
      ~> page.status = "completing" \/ page.intentional \/ waits.stopping # None
=============================================================================
