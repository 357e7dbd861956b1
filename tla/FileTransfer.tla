------------------------------ MODULE FileTransfer ------------------------------
(***************************************************************************)
(* Files over the data channel of one support session, in one direction    *)
(* (frontend remote-poc/ScreenSharePOC.tsx, setupDataChannel and           *)
(* sendFileOverChannel): the sender offers, waits up to 30 s for the other *)
(* side's answer, then sends the chunks and the end.  Both directions run  *)
(* the same code over state of their own.                                  *)
(*                                                                         *)
(* The channel is ordered and reliable while it is open.  What the sender  *)
(* handed to it and nobody received counts as buffered, also after the     *)
(* channel has closed.                                                     *)
(***************************************************************************)
EXTENDS Integers, Sequences

CONSTANTS
  MaxFiles,      \* bound: files offered over the channel
  Size,          \* chunks of a file
  HighWatermark  \* what may be buffered before the sender holds back

ASSUME FilesAssumption == MaxFiles \in Nat
ASSUME SizeAssumption == Size \in Nat \ {0}
ASSUME WatermarkAssumption == HighWatermark \in Nat

Files == 1..MaxFiles
NoFile == 0
Message(kind, f) == [kind |-> kind, id |-> f]
NotIncoming == [id |-> NoFile, chunks |-> 0]

VARIABLES
  channel,     \* dc.readyState: new, open, closed
  sending,     \* the last file offered, and how far sendFileOverChannel got
  outcome,     \* outcome[f]: what the sender was told of f
  toReceiver,  \* messages on their way to the receiver
  toSender,    \* and back
  offer,       \* pendingFileOffer of the receiver
  incoming,    \* the transfer it accepted and the chunks it has got of it
  received     \* received[f]: chunks of f handed to onFileReceived

fileVars == <<channel, sending, outcome, toReceiver, toSender, offer, incoming, received>>

FileInit ==
  /\ channel = "new"
  /\ sending = [id |-> NoFile, at |-> "idle", sent |-> 0]
  /\ outcome = [f \in Files |-> "none"]
  /\ toReceiver = <<>> /\ toSender = <<>>
  /\ offer = NoFile
  /\ incoming = NotIncoming
  /\ received = [f \in Files |-> 0]

-----------------------------------------------------------------------------
(* The sender: handleSendFile, one file at a time *)

OfferFile ==
  /\ channel = "open" /\ sending.at = "idle" /\ sending.id < MaxFiles
  /\ sending' = [id |-> sending.id + 1, at |-> "waiting", sent |-> 0]
  /\ toReceiver' = Append(toReceiver, Message("file-start", sending.id + 1))
  /\ UNCHANGED <<channel, outcome, toSender, offer, incoming, received>>

\* The transfer is over for the sender, whose picker is enabled again.
Over(result) ==
  /\ sending' = [sending EXCEPT !.at = "idle"]
  /\ outcome' = [outcome EXCEPT ![sending.id] = result]

\* waitForFileResponse and handleFileResponse: an answer is for whom it names; nobody
\* waits for one that comes after the 30 s.
\* Mutant of Answered: any answer will do.
AnsweredByAny(m) == sending.at = "waiting"
Answered(m) == sending.at = "waiting" /\ sending.id = m.id

ReceiveAnswer ==
  /\ channel = "open" /\ toSender # <<>>
  /\ LET m == Head(toSender)
     IN  IF ~Answered(m) THEN UNCHANGED <<sending, outcome>>
         ELSE IF m.kind = "file-accept"
         THEN sending' = [sending EXCEPT !.at = "sending"] /\ UNCHANGED outcome
         ELSE Over("refused")
  /\ toSender' = Tail(toSender)
  /\ UNCHANGED <<channel, toReceiver, offer, incoming, received>>

AnswerTimeout ==
  /\ sending.at = "waiting"
  /\ Over("refused")
  /\ UNCHANGED <<channel, toReceiver, toSender, offer, incoming, received>>

\* Nothing more is handed over while too much is buffered.
\* Mutant of SendChunk: a chunk more than the file has.
SendChunkTooMany ==
  /\ channel = "open" /\ sending.at = "sending" /\ sending.sent <= Size
  /\ Len(toReceiver) <= HighWatermark
  /\ sending' = [sending EXCEPT !.sent = @ + 1]
  /\ toReceiver' = Append(toReceiver, Message("chunk", sending.id))
  /\ UNCHANGED <<channel, outcome, toSender, offer, incoming, received>>
SendChunk ==
  /\ channel = "open" /\ sending.at = "sending" /\ sending.sent < Size
  /\ Len(toReceiver) <= HighWatermark
  /\ sending' = [sending EXCEPT !.sent = @ + 1]
  /\ toReceiver' = Append(toReceiver, Message("chunk", sending.id))
  /\ UNCHANGED <<channel, outcome, toSender, offer, incoming, received>>

\* Mutant of SendEnd: the loop stops a chunk early.
SendEndEarly ==
  /\ channel = "open" /\ sending.at = "sending" /\ sending.sent >= Size - 1
  /\ Over("sent")
  /\ toReceiver' = Append(toReceiver, Message("file-end", sending.id))
  /\ UNCHANGED <<channel, toSender, offer, incoming, received>>
SendEnd ==
  /\ channel = "open" /\ sending.at = "sending" /\ sending.sent = Size
  /\ Over("sent")
  /\ toReceiver' = Append(toReceiver, Message("file-end", sending.id))
  /\ UNCHANGED <<channel, toSender, offer, incoming, received>>

\* send() throws on a closed channel.  Below the high watermark only: above it the
\* sender keeps polling a bufferedAmount that will not shrink any more.
SendFails ==
  /\ channel = "closed" /\ sending.at = "sending"
  /\ sending.sent < Size => Len(toReceiver) <= HighWatermark
  /\ Over("failed")
  /\ UNCHANGED <<channel, toReceiver, toSender, offer, incoming, received>>

-----------------------------------------------------------------------------
(* The receiver: onmessage, and the answer its user gives *)

Complete(m) == incoming.id # NoFile /\ incoming.id = m.id

\* A chunk carries no id: it counts for whatever transfer was accepted last.
Receive ==
  /\ channel = "open" /\ toReceiver # <<>>
  /\ toReceiver' = Tail(toReceiver)
  /\ LET m == Head(toReceiver)
     IN  \/ m.kind = "file-start" /\ offer' = m.id /\ UNCHANGED <<incoming, received>>
         \/ /\ m.kind = "chunk"
            /\ incoming' = IF incoming.id = NoFile THEN incoming ELSE [incoming EXCEPT !.chunks = @ + 1]
            /\ UNCHANGED <<offer, received>>
         \/ /\ m.kind = "file-end"
            /\ IF Complete(m)
               THEN /\ received' = [received EXCEPT ![incoming.id] = incoming.chunks]
                    /\ incoming' = NotIncoming
               ELSE UNCHANGED <<incoming, received>>
            /\ UNCHANGED offer
  /\ UNCHANGED <<channel, sending, outcome, toSender>>

\* respondToFileOffer arms the channel before it tells the sender.
Accept == incoming' = [id |-> offer, chunks |-> 0]

Respond ==
  /\ channel = "open" /\ offer # NoFile
  /\ \/ Accept /\ toSender' = Append(toSender, Message("file-accept", offer))
     \/ toSender' = Append(toSender, Message("file-decline", offer)) /\ UNCHANGED incoming
  /\ offer' = NoFile
  /\ UNCHANGED <<channel, sending, outcome, toReceiver, received>>

-----------------------------------------------------------------------------
OpenChannel ==
  /\ channel = "new"
  /\ channel' = "open"
  /\ UNCHANGED <<sending, outcome, toReceiver, toSender, offer, incoming, received>>

CloseChannel ==
  /\ channel # "closed"
  /\ channel' = "closed"
  /\ UNCHANGED <<sending, outcome, toReceiver, toSender, offer, incoming, received>>

SenderStep == ReceiveAnswer \/ AnswerTimeout \/ SendChunk \/ SendEnd \/ SendFails
FileStep == OfferFile \/ SenderStep \/ Receive \/ Respond

FileNext == FileStep \/ OpenChannel \/ CloseChannel

FileSpec == FileInit /\ [][FileNext]_fileVars

-----------------------------------------------------------------------------
(* Properties *)

FileTypeOK ==
  /\ channel \in {"new", "open", "closed"}
  /\ sending \in [id : 0..MaxFiles, at : {"idle", "waiting", "sending"}, sent : 0..Size]
  /\ outcome \in [Files -> {"none", "sent", "refused", "failed"}]
  /\ toReceiver \in Seq([kind : {"file-start", "chunk", "file-end"}, id : Files])
  /\ toSender \in Seq([kind : {"file-accept", "file-decline"}, id : Files])
  /\ offer \in 0..MaxFiles
  /\ incoming \in [id : 0..MaxFiles, chunks : 0..Size]
  /\ received \in [Files -> 0..Size]

\* What the sender counts as sent is not lost while the channel is open: it was received
\* whole, or the receiver is still taking it and its end is on the way, whatever answers
\* came late and whatever files were given up before.
SentIsNotLost ==
  \A f \in Files :
    outcome[f] = "sent" /\ channel = "open" =>
      \/ received[f] = Size
      \/ incoming.id = f /\ \E i \in DOMAIN toReceiver : toReceiver[i] = Message("file-end", f)

\* The transfer implements what a file transfer promises.
Delivery == INSTANCE FileDelivery WITH
  offered <- 1..sending.id,
  open <- incoming.id,
  delivered <- received
ImplementsDelivery == Delivery!Spec
=============================================================================
