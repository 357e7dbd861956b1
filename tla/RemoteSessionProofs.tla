-------------------------- MODULE RemoteSessionProofs --------------------------
(***************************************************************************)
(* What holds of RemoteSession for every number of pages, sessions,        *)
(* sockets, files, chunks and faults.  First the files alone, as           *)
(* FileTransfer has them; then the session around them.                    *)
(***************************************************************************)
EXTENDS RemoteSession, SequenceTheorems, FiniteSetTheorems, WellFoundedInduction, TLAPS

-----------------------------------------------------------------------------
(* The queue to the receiver, which tells chunks of one file from chunks   *)
(* of another by nothing but their place in it.                            *)

ToReceiver == [kind : {"file-start", "chunk", "file-end"}, id : Files]
ToSender == [kind : {"file-accept", "file-decline"}, id : Files]

IsStart(i) == toReceiver[i].kind = "file-start"
OnlyStarts == \A i \in 1..Len(toReceiver) : IsStart(i)

\* Offers come in the order of their numbers, after everything the receiver has had.
StartsAscend ==
  /\ \A i, j \in 1..Len(toReceiver) : i < j /\ IsStart(i) /\ IsStart(j) => toReceiver[i].id < toReceiver[j].id
  /\ \A i \in 1..Len(toReceiver) : toReceiver[i].id <= sending.id
  /\ \A i \in 1..Len(toReceiver) : IsStart(i) =>
       /\ offer < toReceiver[i].id /\ incoming.id < toReceiver[i].id
       /\ \A f \in Files : received[f] # 0 => f < toReceiver[i].id

\* What the receiver knows, or answered, was offered; an offer is newer than what was
\* accepted.
OffersAscend ==
  /\ offer <= sending.id /\ incoming.id <= sending.id
  /\ \A i \in 1..Len(toSender) : toSender[i].id <= sending.id
  /\ offer # NoFile => incoming.id < offer /\ OnlyStarts
  /\ \A f \in Files : received[f] # 0 => f <= sending.id /\ (offer # NoFile => f < offer)

\* A file has an outcome when the sender is done with it, and not before.
OutcomesAreFinal ==
  \A f \in Files : outcome[f] # "none" => f < sending.id \/ (f = sending.id /\ sending.at = "idle")

\* While the chunks of the accepted file are sent, nothing but them is under way.
Sending == sending.at = "sending" /\ sending.id = incoming.id
ChunksUnderWay ==
  /\ \A i \in 1..Len(toReceiver) : toReceiver[i] = Message("chunk", incoming.id)
  /\ Len(toReceiver) + incoming.chunks = sending.sent

\* Once it is sent: the chunks that are missing, its end, then offers.
Rest(m, i, rest) ==
  /\ i <= rest => m = Message("chunk", incoming.id)
  /\ i = rest + 1 => m = Message("file-end", incoming.id)
  /\ i > rest + 1 => m.kind = "file-start"
RestUnderWay ==
  LET rest == Size - incoming.chunks
  IN  /\ rest < Len(toReceiver)
      /\ \A i \in 1..Len(toReceiver) : Rest(toReceiver[i], i, rest)

\* An accepted file that is neither being sent nor sent has no chunk anywhere.
NothingUnderWay == incoming.chunks = 0 /\ OnlyStarts

IncomingHolds ==
  channel = "open" =>
    IF incoming.id = NoFile THEN OnlyStarts
    ELSE IF outcome[incoming.id] = "sent" THEN RestUnderWay
    ELSE IF Sending THEN ChunksUnderWay ELSE NothingUnderWay

\* The receiver is armed for the file the sender waits with, or sends.
AnswersHold ==
  channel = "open" =>
    /\ sending.at = "sending" => incoming.id = sending.id
    /\ sending.at = "waiting" /\ (\E i \in 1..Len(toSender) : toSender[i] = Message("file-accept", sending.id))
         => incoming.id = sending.id

NothingYet ==
  /\ sending.at # "idle" => sending.id # NoFile
  /\ sending.at = "waiting" => sending.sent = 0
  /\ channel = "new" => toReceiver = <<>> /\ toSender = <<>> /\ sending.id = NoFile /\ sending.at = "idle"

FilesHold ==
  /\ FileTypeOK /\ StartsAscend /\ OffersAscend /\ OutcomesAreFinal
  /\ IncomingHolds /\ AnswersHold /\ NothingYet /\ SentIsNotLost

-----------------------------------------------------------------------------
(* The queues lose their head and grow at their end. *)

LEMMA QueueTail ==
  ASSUME NEW S, NEW q \in Seq(S), q # <<>>
  PROVE  /\ Head(q) = q[1] /\ Head(q) \in S
         /\ Tail(q) \in Seq(S) /\ Len(q) \in Nat \ {0} /\ Len(Tail(q)) = Len(q) - 1
         /\ \A i \in 1..Len(Tail(q)) : Tail(q)[i] = q[i + 1] /\ i + 1 \in 1..Len(q)
<1>1. Len(q) \in Nat /\ Len(q) # 0
  BY EmptySeq, LenProperties
<1>2. Head(q) \in S /\ Tail(q) \in Seq(S) /\ Len(Tail(q)) = Len(q) - 1
      /\ \A i \in 1..Len(Tail(q)) : Tail(q)[i] = q[i + 1]
  BY HeadTailProperties
<1> QED
  BY <1>1, <1>2

LEMMA QueueAppend ==
  ASSUME NEW S, NEW q \in Seq(S), NEW m \in S
  PROVE  /\ Append(q, m) \in Seq(S) /\ Len(q) \in Nat /\ Len(Append(q, m)) = Len(q) + 1
         /\ Append(q, m)[Len(q) + 1] = m
         /\ \A i \in 1..Len(q) : Append(q, m)[i] = q[i]
  BY AppendProperties, LenProperties

(* The types, taken apart. *)
Numbers ==
  /\ sending.id \in Nat /\ sending.sent \in Nat /\ sending.sent <= Size
  /\ offer \in Nat /\ incoming.id \in Nat /\ incoming.chunks \in Nat
  /\ Size \in Nat \ {0} /\ \A f \in Files : f \in Nat /\ f # NoFile

Queues ==
  /\ Len(toReceiver) \in Nat /\ \A i \in 1..Len(toReceiver) : toReceiver[i].id \in Nat
  /\ Len(toSender) \in Nat /\ \A i \in 1..Len(toSender) : toSender[i].id \in Nat

LEMMA FileFacts ==
  ASSUME FileTypeOK
  PROVE  Numbers /\ Queues /\ toReceiver \in Seq(ToReceiver) /\ toSender \in Seq(ToSender)
<1>1. Numbers
  BY FilesAssumption, SizeAssumption DEF FileTypeOK, Files, NoFile, Numbers
<1>2. toReceiver \in Seq(ToReceiver) /\ toSender \in Seq(ToSender)
  BY DEF FileTypeOK, ToReceiver, ToSender
<1>3. /\ Len(toReceiver) \in Nat /\ \A i \in 1..Len(toReceiver) : toReceiver[i] \in ToReceiver
      /\ Len(toSender) \in Nat /\ \A i \in 1..Len(toSender) : toSender[i] \in ToSender
  BY <1>2, ElementOfSeq, LenProperties
<1>4. \A m \in ToReceiver \cup ToSender : m.id \in Nat
  BY <1>1 DEF ToReceiver, ToSender, Numbers
<1> QED
  BY <1>1, <1>2, <1>3, <1>4 DEF Queues

LEMMA FileNames ==
  ASSUME FileTypeOK
  PROVE  \A f : f \in Files <=> f \in Nat /\ f # NoFile /\ f <= MaxFiles
  BY FilesAssumption DEF Files, NoFile

LEMMA OfferedName ==
  ASSUME FileTypeOK, offer # NoFile
  PROVE  offer \in Files
<1>1. offer \in 0..MaxFiles
  BY DEF FileTypeOK
<1> QED
  BY <1>1, FilesAssumption DEF Files, NoFile

(* The sender hands a message to the channel; the receiver takes one. *)
Handed(m) ==
  /\ Len(toReceiver') = Len(toReceiver) + 1
  /\ toReceiver'[Len(toReceiver) + 1] = m
  /\ \A i \in 1..Len(toReceiver') : i \in 1..Len(toReceiver) \/ i = Len(toReceiver) + 1
  /\ \A i \in 1..Len(toReceiver) : i < Len(toReceiver) + 1 /\ toReceiver'[i] = toReceiver[i]

LEMMA HandOver ==
  ASSUME toReceiver \in Seq(ToReceiver), NEW m \in ToReceiver, toReceiver' = Append(toReceiver, m)
  PROVE  toReceiver' \in Seq(ToReceiver) /\ Handed(m)
<1>1. /\ Append(toReceiver, m) \in Seq(ToReceiver) /\ Len(toReceiver) \in Nat
      /\ Len(Append(toReceiver, m)) = Len(toReceiver) + 1
      /\ Append(toReceiver, m)[Len(toReceiver) + 1] = m
      /\ \A i \in 1..Len(toReceiver) : Append(toReceiver, m)[i] = toReceiver[i]
  BY QueueAppend
<1> QED
  BY <1>1 DEF Handed

Taken(q, r) ==
  /\ Len(q) \in Nat \ {0} /\ 1 \in 1..Len(q) /\ Head(q) = q[1] /\ Len(r) = Len(q) - 1
  /\ \A i \in 1..Len(r) : r[i] = q[i + 1] /\ i + 1 \in 1..Len(q)

LEMMA TakeReceived ==
  ASSUME toReceiver \in Seq(ToReceiver), toReceiver # <<>>, toReceiver' = Tail(toReceiver)
  PROVE  /\ toReceiver' \in Seq(ToReceiver) /\ Head(toReceiver) \in ToReceiver
         /\ Taken(toReceiver, toReceiver')
  BY QueueTail DEF Taken

LEMMA TakeAnswer ==
  ASSUME toSender \in Seq(ToSender), toSender # <<>>, toSender' = Tail(toSender)
  PROVE  /\ toSender' \in Seq(ToSender) /\ Head(toSender) \in ToSender
         /\ Taken(toSender, toSender')
  BY QueueTail DEF Taken

LEMMA FilesHoldInit == FileInit => FilesHold
<1> SUFFICES ASSUME FileInit PROVE FilesHold
  OBVIOUS
<1> USE FilesAssumption, SizeAssumption DEF FileInit, NoFile, NotIncoming
<1>1. toReceiver \in Seq(ToReceiver) /\ toSender \in Seq(ToSender) /\ Len(toReceiver) = 0 /\ Len(toSender) = 0
  OBVIOUS
<1>2. FileTypeOK
  BY <1>1 DEF FileTypeOK, ToReceiver, ToSender
<1>3. StartsAscend /\ OffersAscend
  BY <1>1 DEF StartsAscend, OffersAscend, OnlyStarts
<1> QED
  BY <1>2, <1>3 DEF FilesHold, OutcomesAreFinal, IncomingHolds, AnswersHold, NothingYet, SentIsNotLost

LEMMA OfferFileHolds ==
  ASSUME FilesHold, OfferFile
  PROVE  FilesHold'
<1> USE DEF FilesHold
<1>a. Numbers /\ Queues
  BY FileFacts
<1> DEFINE g == sending.id + 1
           m == Message("file-start", g)
<1>1. g \in Files /\ m \in ToReceiver /\ m.kind = "file-start" /\ m.id = g
  <2>1. g \in Files
    BY <1>a, FileNames, FilesAssumption DEF OfferFile, NoFile, Numbers
  <2> QED
    BY <2>1 DEF ToReceiver, Message
<1>2. toReceiver' \in Seq(ToReceiver) /\ Handed(m)
  BY <1>1, FileFacts, HandOver DEF OfferFile
<1>3. /\ sending.at = "idle" /\ channel = "open"
      /\ sending'.id = g /\ sending'.at = "waiting" /\ sending'.sent = 0
      /\ UNCHANGED <<channel, outcome, toSender, offer, incoming, received>>
  BY DEF OfferFile
<1>5. FileTypeOK'
  BY <1>1, <1>2, SizeAssumption DEF FileTypeOK, ToReceiver, Files, OfferFile
<1> HIDE DEF m
<1>6. StartsAscend'
  <2>1. ASSUME NEW i \in 1..Len(toReceiver'), NEW j \in 1..Len(toReceiver'),
               i < j, IsStart(i)', IsStart(j)'
        PROVE  toReceiver'[i].id < toReceiver'[j].id
    <3>1. i \in 1..Len(toReceiver) /\ toReceiver'[i] = toReceiver[i]
      BY <2>1, <1>2, <1>a DEF Handed, Queues
    <3>2. CASE j \in 1..Len(toReceiver)
      BY <2>1, <3>1, <3>2, <1>2 DEF StartsAscend, IsStart, Handed
    <3>3. CASE j = Len(toReceiver) + 1
      BY <3>1, <3>3, <1>1, <1>2, <1>a DEF StartsAscend, Handed, Numbers, Queues
    <3> QED
      BY <3>2, <3>3, <1>2 DEF Handed
  <2>2. \A i \in 1..Len(toReceiver') : toReceiver'[i].id <= sending'.id
    BY <1>1, <1>2, <1>a, <1>3 DEF StartsAscend, Handed, Numbers, Queues
  <2>3. \A i \in 1..Len(toReceiver') : IsStart(i)' =>
          /\ offer < toReceiver'[i].id /\ incoming.id < toReceiver'[i].id
          /\ \A f \in Files : received[f] # 0 => f < toReceiver'[i].id
    BY <1>1, <1>2, <1>a DEF StartsAscend, OffersAscend, IsStart, Handed, Numbers, Queues
  <2> QED
    BY <2>1, <2>2, <2>3, <1>3 DEF StartsAscend, IsStart
<1>7. OffersAscend'
  <2>1. OnlyStarts => OnlyStarts'
    BY <1>1, <1>2 DEF OnlyStarts, IsStart, Handed
  <2> QED
    BY <2>1, <1>3, <1>a DEF OffersAscend, Numbers, Queues
<1>8. OutcomesAreFinal'
  BY <1>a, <1>3 DEF OutcomesAreFinal, Numbers
<1>9. IncomingHolds'
  <2>1. OnlyStarts => OnlyStarts'
    BY <1>1, <1>2 DEF OnlyStarts, IsStart, Handed
  <2>2. RestUnderWay => RestUnderWay'
    <3> SUFFICES ASSUME RestUnderWay PROVE RestUnderWay'
      OBVIOUS
    <3> DEFINE rest == Size - incoming.chunks
    <3>1. rest \in Int /\ rest < Len(toReceiver)
      BY <1>a DEF RestUnderWay, Numbers
    <3>2. \A i \in 1..Len(toReceiver) : Rest(toReceiver[i], i, rest)
      BY DEF RestUnderWay
    <3> HIDE DEF rest
    <3>3. \A i \in 1..Len(toReceiver') : Rest(toReceiver'[i], i, rest)
      BY <3>1, <3>2, <1>1, <1>2, <1>a DEF Rest, Handed, Queues
    <3> QED
      BY <3>1, <3>3, <1>2, <1>3, <1>a DEF RestUnderWay, rest, Rest, Handed, Queues
  <2> QED
    BY <2>1, <2>2, <1>3 DEF IncomingHolds, NothingUnderWay, Sending
<1>10. AnswersHold'
  BY <1>a, <1>3 DEF AnswersHold, OffersAscend, Message, Numbers, Queues
<1>11. NothingYet'
  BY <1>a, <1>3 DEF NothingYet, NoFile, Numbers
<1>12. SentIsNotLost'
  BY <1>a, <1>2, <1>3 DEF SentIsNotLost, Handed, Queues
<1> QED
  BY <1>5, <1>6, <1>7, <1>8, <1>9, <1>10, <1>11, <1>12

(* The sender is told something, or gives up, and what is under way stays. *)
Waits == sending.at = "waiting" /\ sending.id \in Files
GoesOn == UNCHANGED <<sending, outcome>>
StartsSending ==
  /\ Waits /\ \E i \in 1..Len(toSender) : toSender[i] = Message("file-accept", sending.id)
  /\ sending' = [sending EXCEPT !.at = "sending"] /\ UNCHANGED outcome
GivesUp ==
  \E result \in {"refused", "failed"} :
    /\ result = "refused" => Waits
    /\ result = "failed" => sending.at = "sending" /\ channel = "closed"
    /\ sending.id \in Files
    /\ Over(result)

LEMMA SenderMoves ==
  ASSUME FilesHold, UNCHANGED <<channel, toReceiver, offer, incoming, received>>,
         toSender' \in Seq(ToSender),
         \A i \in 1..Len(toSender') : \E j \in 1..Len(toSender) : toSender'[i] = toSender[j],
         GoesOn \/ StartsSending \/ GivesUp
  PROVE  FilesHold'
<1> USE DEF FilesHold
<1>a. Numbers /\ Queues
  BY FileFacts
<1>s. sending \in [id : 0..MaxFiles, at : {"idle", "waiting", "sending"}, sent : 0..Size]
  BY DEF FileTypeOK
<1>1. /\ sending'.id = sending.id /\ sending'.sent = sending.sent
      /\ UNCHANGED <<channel, toReceiver, offer, incoming, received>>
      /\ StartsAscend' = StartsAscend /\ OnlyStarts' = OnlyStarts
      /\ RestUnderWay' = RestUnderWay /\ NothingUnderWay' = NothingUnderWay
  <2>1. sending'.id = sending.id /\ sending'.sent = sending.sent
    BY <1>s DEF GoesOn, StartsSending, GivesUp, Over
  <2> QED
    BY <2>1 DEF StartsAscend, IsStart, OnlyStarts, RestUnderWay, Rest, NothingUnderWay
<1>2. FileTypeOK'
  <2>1. sending' \in [id : 0..MaxFiles, at : {"idle", "waiting", "sending"}, sent : 0..Size]
    BY <1>s DEF GoesOn, StartsSending, GivesUp, Over
  <2>2. outcome' \in [Files -> {"none", "sent", "refused", "failed"}]
    BY DEF GoesOn, StartsSending, GivesUp, Over, FileTypeOK
  <2> QED
    BY <2>1, <2>2 DEF FileTypeOK, ToSender
<1>3. OffersAscend'
  BY <1>1 DEF OffersAscend
<1>4. CASE GoesOn
  <2>1. AnswersHold'
    BY <1>1, <1>4 DEF AnswersHold, GoesOn
  <2>2. IncomingHolds' /\ OutcomesAreFinal' /\ SentIsNotLost'
    BY <1>1, <1>4 DEF GoesOn, IncomingHolds, Sending, ChunksUnderWay, OutcomesAreFinal, SentIsNotLost
  <2>3. NothingYet'
    <3>1. toSender = <<>> => toSender' = <<>>
      <4> SUFFICES ASSUME toSender = <<>> PROVE toSender' = <<>>
        OBVIOUS
      <4>1. Len(toSender') \in Nat /\ Len(toSender) = 0
        BY LenProperties
      <4>2. Len(toSender') = 0
        BY <4>1
      <4> QED
        BY <4>2, EmptySeq
    <3> QED
      BY <3>1, <1>1, <1>4 DEF GoesOn, NothingYet
  <2> QED
    BY <2>1, <2>2, <2>3, <1>1, <1>2, <1>3
<1>5. CASE StartsSending
  <2>1. sending'.at = "sending" /\ sending.at = "waiting" /\ UNCHANGED outcome /\ sending.id \in Files
    BY <1>5, <1>s DEF StartsSending, Waits
  <2>2. channel = "open" => incoming.id = sending.id
    BY <1>5 DEF StartsSending, Waits, AnswersHold
  <2>3. outcome[sending.id] = "none" /\ sending.sent = 0
    BY <2>1, <1>a DEF OutcomesAreFinal, NothingYet, Numbers
  <2>4. channel = "open" => Len(toReceiver) = 0 /\ incoming.chunks = 0
    <3> SUFFICES ASSUME channel = "open" PROVE Len(toReceiver) = 0 /\ incoming.chunks = 0
      OBVIOUS
    <3>1. NothingUnderWay
      BY <2>1, <2>2, <2>3, <1>a DEF IncomingHolds, Sending, Numbers
    <3>2. \A i \in 1..Len(toReceiver) : FALSE
      BY <3>1, <2>2, <1>a DEF NothingUnderWay, OnlyStarts, StartsAscend, Numbers, Queues
    <3> QED
      BY <3>1, <3>2, <1>a DEF NothingUnderWay, Queues
  <2>5. IncomingHolds'
    <3>1. channel = "open" => ChunksUnderWay'
      BY <1>1, <2>3, <2>4 DEF ChunksUnderWay
    <3> QED
      BY <3>1, <1>1, <2>1, <2>2, <2>3, <1>a DEF IncomingHolds, Sending, NothingYet
  <2>6. AnswersHold' /\ SentIsNotLost' /\ NothingYet'
    BY <1>1, <2>1, <2>2, <1>a DEF AnswersHold, SentIsNotLost, NothingYet, Numbers, NoFile
  <2>7. OutcomesAreFinal'
    BY <1>1, <2>1 DEF OutcomesAreFinal
  <2> QED
    BY <2>5, <2>6, <2>7, <1>1, <1>2, <1>3
<1>6. CASE GivesUp
  <2> PICK result \in {"refused", "failed"} :
        /\ result = "refused" => Waits
        /\ result = "failed" => sending.at = "sending" /\ channel = "closed"
        /\ sending.id \in Files
        /\ Over(result)
    BY <1>6 DEF GivesUp
  <2>1. /\ sending'.at = "idle" /\ outcome[sending.id] = "none"
        /\ \A f \in Files : outcome'[f] = IF f = sending.id THEN result ELSE outcome[f]
    <3>1. sending.at # "idle"
      BY DEF Waits
    <3> QED
      BY <1>s, <1>a, <3>1 DEF Over, OutcomesAreFinal, FileTypeOK, Numbers
  <2>2. IncomingHolds'
    <3> SUFFICES ASSUME channel = "open", incoming.id # NoFile
                 PROVE  IF outcome'[incoming.id] = "sent" THEN RestUnderWay ELSE NothingUnderWay
      BY <1>1, <2>1 DEF IncomingHolds, Sending
    <3>1. sending.at = "waiting"
      BY DEF Waits
    <3> QED
      BY <2>1, <3>1, <1>a, FileNames DEF IncomingHolds, Sending, Numbers, FileTypeOK
  <2>3. OutcomesAreFinal'
    BY <1>1, <2>1, <1>a DEF OutcomesAreFinal, Numbers
  <2>4. SentIsNotLost' /\ AnswersHold' /\ NothingYet'
    BY <1>1, <2>1, <1>a DEF SentIsNotLost, AnswersHold, NothingYet, Numbers, Waits
  <2> QED
    BY <2>2, <2>3, <2>4, <1>1, <1>2, <1>3
<1> QED
  BY <1>4, <1>5, <1>6

LEMMA ReceiveAnswerHolds ==
  ASSUME FilesHold, ReceiveAnswer
  PROVE  FilesHold'
<1> USE DEF FilesHold
<1>a. Numbers /\ Queues
  BY FileFacts
<1> DEFINE m == Head(toSender)
<1>1. toSender' \in Seq(ToSender) /\ m \in ToSender /\ Taken(toSender, toSender')
  BY FileFacts, TakeAnswer DEF ReceiveAnswer
<1>2. \A i \in 1..Len(toSender') : \E j \in 1..Len(toSender) : toSender'[i] = toSender[j]
  BY <1>1 DEF Taken
<1>3. ASSUME Answered(m)
      PROVE  Waits /\ m.id = sending.id
  BY <1>3, <1>1 DEF Waits, Answered, ToSender
<1>4. ~Answered(m) => GoesOn
  BY DEF ReceiveAnswer, GoesOn
<1>5. CASE Answered(m) /\ m.kind = "file-accept"
  <2>1. m = Message("file-accept", sending.id)
    BY <1>1, <1>3, <1>5 DEF ToSender, Message
  <2>2. toSender[1] = m /\ 1 \in 1..Len(toSender)
    BY <1>1 DEF Taken
  <2>3. StartsSending
    BY <2>1, <2>2, <1>3, <1>5 DEF ReceiveAnswer, StartsSending
  <2> QED
    BY <2>3, <1>1, <1>2, SenderMoves DEF ReceiveAnswer
<1>6. CASE Answered(m) /\ m.kind # "file-accept"
  <2>1. GivesUp
    BY <1>3, <1>6 DEF ReceiveAnswer, GivesUp, Waits
  <2> QED
    BY <2>1, <1>1, <1>2, SenderMoves DEF ReceiveAnswer
<1> QED
  BY <1>4, <1>5, <1>6, <1>1, <1>2, SenderMoves DEF ReceiveAnswer, GoesOn

LEMMA SenderGivesUpHolds ==
  ASSUME FilesHold, AnswerTimeout \/ SendFails
  PROVE  FilesHold'
<1> USE DEF FilesHold
<1>1. toSender' \in Seq(ToSender)
      /\ \A i \in 1..Len(toSender') : \E j \in 1..Len(toSender) : toSender'[i] = toSender[j]
  BY FileFacts DEF AnswerTimeout, SendFails
<1>2. sending.id \in Files
  BY FileFacts, FileNames DEF AnswerTimeout, SendFails, NothingYet, FileTypeOK, Numbers
<1>3. GivesUp
  BY <1>2 DEF AnswerTimeout, SendFails, GivesUp, Waits
<1> QED
  BY <1>1, <1>3, SenderMoves DEF AnswerTimeout, SendFails

(* A chunk, or the end, joins the chunks under way. *)
LEMMA HandOverOfSent ==
  ASSUME FilesHold, NEW m, Handed(m), m.kind # "file-start", m.id = sending.id,
         sending'.id = sending.id, UNCHANGED <<toSender, offer, incoming, received>>,
         offer = NoFile
  PROVE  StartsAscend' /\ OffersAscend'
<1> USE DEF FilesHold
<1>a. Numbers /\ Queues
  BY FileFacts
<1>1. \A i \in 1..Len(toReceiver') : IsStart(i)' => i \in 1..Len(toReceiver) /\ toReceiver'[i] = toReceiver[i] /\ IsStart(i)
  BY DEF Handed, IsStart
<1>2. \A i, j \in 1..Len(toReceiver') : i < j /\ IsStart(i)' /\ IsStart(j)' => toReceiver'[i].id < toReceiver'[j].id
  BY <1>1 DEF StartsAscend
<1>3. \A i \in 1..Len(toReceiver') : toReceiver'[i].id <= sending'.id
  BY <1>a DEF StartsAscend, Handed, Numbers
<1>4. \A i \in 1..Len(toReceiver') : IsStart(i)' =>
        /\ offer < toReceiver'[i].id /\ incoming.id < toReceiver'[i].id
        /\ \A f \in Files : received[f] # 0 => f < toReceiver'[i].id
  BY <1>1 DEF StartsAscend
<1> QED
  BY <1>2, <1>3, <1>4 DEF StartsAscend, OffersAscend

LEMMA WhileSending ==
  ASSUME FilesHold, channel = "open", sending.at = "sending"
  PROVE  /\ incoming.id = sending.id /\ incoming.id # NoFile /\ incoming.id \in Files
         /\ outcome[sending.id] = "none" /\ ChunksUnderWay /\ offer = NoFile
<1> USE DEF FilesHold
<1>a. Numbers /\ Queues
  BY FileFacts
<1>1. incoming.id = sending.id /\ incoming.id # NoFile
  BY DEF AnswersHold, NothingYet
<1>2. incoming.id \in Files
  BY <1>1, <1>a, FileNames DEF FileTypeOK, Numbers
<1>3. outcome[sending.id] = "none"
  BY <1>1, <1>2, <1>a DEF OutcomesAreFinal, Numbers
<1>4. ChunksUnderWay
  BY <1>1, <1>3 DEF IncomingHolds, Sending
<1>5. offer = NoFile
  BY <1>1, <1>a DEF OffersAscend, Numbers
<1> QED
  BY <1>1, <1>2, <1>3, <1>4, <1>5

LEMMA SendChunkHolds ==
  ASSUME FilesHold, SendChunk
  PROVE  FilesHold'
<1> USE DEF FilesHold
<1>a. Numbers /\ Queues
  BY FileFacts
<1> DEFINE m == Message("chunk", sending.id)
<1>0. channel = "open" /\ sending.at = "sending" /\ sending.sent < Size
  BY DEF SendChunk
<1>w. /\ incoming.id = sending.id /\ incoming.id # NoFile /\ incoming.id \in Files
      /\ outcome[sending.id] = "none" /\ ChunksUnderWay /\ offer = NoFile
  BY <1>0, WhileSending
<1>1. m \in ToReceiver /\ m.kind = "chunk" /\ m.id = sending.id
  BY <1>w DEF ToReceiver, Message
<1>2. toReceiver' \in Seq(ToReceiver) /\ Handed(m)
  BY <1>1, FileFacts, HandOver DEF SendChunk
<1>3. /\ sending'.id = sending.id /\ sending'.at = "sending" /\ sending'.sent = sending.sent + 1
      /\ UNCHANGED <<channel, outcome, toSender, offer, incoming, received>>
  <2>1. sending \in [id : 0..MaxFiles, at : {"idle", "waiting", "sending"}, sent : 0..Size]
    BY DEF FileTypeOK
  <2> QED
    BY <2>1, <1>0 DEF SendChunk
<1>4. FileTypeOK'
  <2>1. sending' \in [id : 0..MaxFiles, at : {"idle", "waiting", "sending"}, sent : 0..Size]
    <3>1. sending.sent + 1 \in 0..Size
      BY <1>0, <1>a DEF Numbers
    <3>2. sending \in [id : 0..MaxFiles, at : {"idle", "waiting", "sending"}, sent : 0..Size]
      BY DEF FileTypeOK
    <3> QED
      BY <3>1, <3>2 DEF SendChunk
  <2> QED
    BY <2>1, <1>2, <1>3 DEF FileTypeOK, ToReceiver
<1>5. StartsAscend' /\ OffersAscend'
  BY <1>1, <1>2, <1>3, <1>w, HandOverOfSent
<1>6. ChunksUnderWay'
  <2>1. \A i \in 1..Len(toReceiver') : toReceiver'[i] = m
    BY <1>w, <1>2 DEF ChunksUnderWay, Handed
  <2>2. Len(toReceiver') + incoming.chunks = sending.sent + 1
    <3>1. Len(toReceiver) + incoming.chunks = sending.sent /\ Len(toReceiver') = Len(toReceiver) + 1
      BY <1>w, <1>2 DEF ChunksUnderWay, Handed
    <3>2. Len(toReceiver) \in Nat /\ incoming.chunks \in Nat
      BY <1>a DEF Numbers, Queues
    <3> QED
      BY <3>1, <3>2
  <2> QED
    BY <2>1, <2>2, <1>3, <1>w DEF ChunksUnderWay, Message
<1>7. IncomingHolds' /\ OutcomesAreFinal' /\ AnswersHold' /\ NothingYet'
  BY <1>6, <1>w, <1>0, <1>3 DEF IncomingHolds, Sending, OutcomesAreFinal, AnswersHold, NothingYet
<1>8. SentIsNotLost'
  BY <1>2, <1>3, <1>a DEF SentIsNotLost, Handed, Queues
<1> QED
  BY <1>4, <1>5, <1>7, <1>8

LEMMA SendEndHolds ==
  ASSUME FilesHold, SendEnd
  PROVE  FilesHold'
<1> USE DEF FilesHold
<1>a. Numbers /\ Queues
  BY FileFacts
<1> DEFINE m == Message("file-end", sending.id)
<1>0. channel = "open" /\ sending.at = "sending" /\ sending.sent = Size
  BY DEF SendEnd
<1>w. /\ incoming.id = sending.id /\ incoming.id # NoFile /\ incoming.id \in Files
      /\ outcome[sending.id] = "none" /\ ChunksUnderWay /\ offer = NoFile
  BY <1>0, WhileSending
<1>1. m \in ToReceiver /\ m.kind = "file-end" /\ m.id = sending.id
  BY <1>w DEF ToReceiver, Message
<1>2. toReceiver' \in Seq(ToReceiver) /\ Handed(m)
  BY <1>1, FileFacts, HandOver DEF SendEnd
<1>s. sending \in [id : 0..MaxFiles, at : {"idle", "waiting", "sending"}, sent : 0..Size]
  BY DEF FileTypeOK
<1>3. /\ sending'.id = sending.id /\ sending'.at = "idle"
      /\ \A f \in Files : outcome'[f] = IF f = sending.id THEN "sent" ELSE outcome[f]
      /\ UNCHANGED <<channel, toSender, offer, incoming, received>>
  BY <1>s, <1>0 DEF SendEnd, Over, FileTypeOK
<1>4. FileTypeOK'
  <2>1. sending' \in [id : 0..MaxFiles, at : {"idle", "waiting", "sending"}, sent : 0..Size]
    BY <1>s DEF SendEnd, Over
  <2>2. outcome' \in [Files -> {"none", "sent", "refused", "failed"}]
    BY DEF SendEnd, Over, FileTypeOK
  <2> QED
    BY <2>1, <2>2, <1>2, <1>3 DEF FileTypeOK, ToReceiver
<1>5. StartsAscend' /\ OffersAscend'
  BY <1>1, <1>2, <1>3, <1>w, HandOverOfSent
<1>6. RestUnderWay'
  <2>1. Size - incoming.chunks = Len(toReceiver)
    BY <1>w, <1>0, <1>a DEF ChunksUnderWay, Numbers, Queues
  <2>2. \A i \in 1..Len(toReceiver') : Rest(toReceiver'[i], i, Len(toReceiver))
    BY <1>w, <1>2, <1>a DEF ChunksUnderWay, Handed, Rest, Queues
  <2> QED
    BY <2>1, <2>2, <1>2, <1>3, <1>a DEF RestUnderWay, Rest, Handed, Queues
<1>7. IncomingHolds'
  BY <1>6, <1>w, <1>3 DEF IncomingHolds
<1>8. OutcomesAreFinal' /\ AnswersHold' /\ NothingYet'
  BY <1>w, <1>0, <1>3, <1>a DEF OutcomesAreFinal, AnswersHold, NothingYet, Numbers
<1>9. SentIsNotLost'
  <2> SUFFICES ASSUME NEW f \in Files, outcome'[f] = "sent"
               PROVE  \/ received'[f] = Size
                      \/ incoming'.id = f /\ \E i \in DOMAIN toReceiver' : toReceiver'[i] = Message("file-end", f)
    BY DEF SentIsNotLost
  <2>1. DOMAIN toReceiver = 1..Len(toReceiver) /\ DOMAIN toReceiver' = 1..Len(toReceiver')
    BY FileFacts, <1>2, LenProperties
  <2>2. CASE f = sending.id
    <3>1. Len(toReceiver) + 1 \in 1..Len(toReceiver')
      BY <1>2, <1>a DEF Handed, Queues
    <3> QED
      BY <2>1, <2>2, <3>1, <1>2, <1>3, <1>w DEF Handed
  <2>3. CASE f # sending.id
    BY <2>3, <1>0, <1>3, <1>w DEF SentIsNotLost, ChunksUnderWay
  <2> QED
    BY <2>2, <2>3
<1> QED
  BY <1>4, <1>5, <1>7, <1>8, <1>9

(* The receiver takes a message.  What is left ascends as it did. *)
LEMMA TakenAscends ==
  ASSUME FilesHold, Taken(toReceiver, toReceiver'), UNCHANGED sending,
         \A i \in 1..Len(toReceiver) : i > 1 /\ IsStart(i) =>
           /\ offer' < toReceiver[i].id /\ incoming'.id < toReceiver[i].id
           /\ \A f \in Files : received'[f] # 0 => f < toReceiver[i].id
  PROVE  StartsAscend' /\ (OnlyStarts => OnlyStarts')
<1> USE DEF FilesHold
<1>1. \A i, j \in 1..Len(toReceiver') : i < j /\ IsStart(i)' /\ IsStart(j)' => toReceiver'[i].id < toReceiver'[j].id
  <2> SUFFICES ASSUME NEW i \in 1..Len(toReceiver'), NEW j \in 1..Len(toReceiver'),
                      i < j, IsStart(i)', IsStart(j)'
               PROVE  toReceiver'[i].id < toReceiver'[j].id
    OBVIOUS
  <2>1. /\ i + 1 \in 1..Len(toReceiver) /\ toReceiver'[i] = toReceiver[i + 1]
        /\ j + 1 \in 1..Len(toReceiver) /\ toReceiver'[j] = toReceiver[j + 1] /\ i + 1 < j + 1
    BY DEF Taken
  <2> QED
    BY <2>1 DEF StartsAscend, IsStart
<1>2. \A i \in 1..Len(toReceiver') : toReceiver'[i].id <= sending'.id
  BY DEF StartsAscend, Taken
<1>3. ASSUME NEW i \in 1..Len(toReceiver'), IsStart(i)'
      PROVE  /\ offer' < toReceiver'[i].id /\ incoming'.id < toReceiver'[i].id
             /\ \A f \in Files : received'[f] # 0 => f < toReceiver'[i].id
  <2>1. i + 1 \in 1..Len(toReceiver) /\ toReceiver'[i] = toReceiver[i + 1] /\ i + 1 > 1
    BY DEF Taken
  <2> QED
    BY <2>1, <1>3 DEF IsStart
<1>4. OnlyStarts => OnlyStarts'
  BY DEF OnlyStarts, IsStart, Taken
<1> QED
  BY <1>1, <1>2, <1>3, <1>4 DEF StartsAscend

(* The three kinds of message, as Receive treats them. *)
Received(m) ==
  /\ channel = "open" /\ toReceiver # <<>> /\ m = Head(toReceiver)
  /\ toReceiver' = Tail(toReceiver)
  /\ UNCHANGED <<channel, sending, outcome, toSender>>

LEMMA ReceiveStartHolds ==
  ASSUME FilesHold, NEW m, Received(m), m.kind = "file-start",
         offer' = m.id, UNCHANGED <<incoming, received>>
  PROVE  FilesHold'
<1> USE DEF FilesHold
<1>a. Numbers /\ Queues
  BY FileFacts
<1>1. toReceiver' \in Seq(ToReceiver) /\ m \in ToReceiver /\ Taken(toReceiver, toReceiver') /\ m = toReceiver[1]
  BY FileFacts, TakeReceived DEF Received, Taken
<1>2. 1 \in 1..Len(toReceiver) /\ IsStart(1) /\ m.id \in Files /\ m.id \in Nat
  BY <1>1, <1>a DEF Taken, IsStart, ToReceiver, Numbers
<1>3. OnlyStarts
  <2>1. ~ChunksUnderWay
    BY <1>2 DEF ChunksUnderWay, IsStart, Message
  <2>2. ~RestUnderWay
    <3> SUFFICES ASSUME RestUnderWay PROVE FALSE
      OBVIOUS
    <3> DEFINE rest == Size - incoming.chunks
    <3>1. rest \in Int /\ rest >= 0
      BY <1>a DEF FileTypeOK, Numbers
    <3>2. Rest(toReceiver[1], 1, rest)
      BY <1>2 DEF RestUnderWay
    <3> HIDE DEF rest
    <3> QED
      BY <3>1, <3>2, <1>2 DEF Rest, IsStart, Message
  <2> QED
    BY <2>1, <2>2 DEF IncomingHolds, NothingUnderWay, Received
<1>4. \A i \in 1..Len(toReceiver) : i > 1 => m.id < toReceiver[i].id
  BY <1>1, <1>2, <1>3 DEF OnlyStarts, StartsAscend
<1>5. FileTypeOK'
  BY <1>1, <1>2, FilesAssumption DEF FileTypeOK, Received, ToReceiver, Files
<1>6. StartsAscend' /\ OnlyStarts'
  <2>1. \A i \in 1..Len(toReceiver) : i > 1 /\ IsStart(i) =>
           /\ offer' < toReceiver[i].id /\ incoming'.id < toReceiver[i].id
           /\ \A f \in Files : received'[f] # 0 => f < toReceiver[i].id
    BY <1>4 DEF StartsAscend
  <2> QED
    BY <2>1, <1>1, <1>3, TakenAscends DEF Received
<1>7. OffersAscend'
  BY <1>1, <1>2, <1>6 DEF OffersAscend, StartsAscend, Received
<1>8. IncomingHolds'
  <2>1. ~RestUnderWay /\ ~ChunksUnderWay
    <3>1. ~ChunksUnderWay
      BY <1>2 DEF ChunksUnderWay, IsStart, Message
    <3>2. RestUnderWay => FALSE
      <4> SUFFICES ASSUME RestUnderWay PROVE FALSE
        OBVIOUS
      <4> DEFINE rest == Size - incoming.chunks
      <4>1. rest \in Int /\ rest >= 0
        BY <1>a DEF FileTypeOK, Numbers
      <4>2. Rest(toReceiver[1], 1, rest)
        BY <1>2 DEF RestUnderWay
      <4> HIDE DEF rest
      <4> QED
        BY <4>1, <4>2, <1>2 DEF Rest, IsStart, Message
    <3> QED
      BY <3>1, <3>2
  <2> QED
    BY <2>1, <1>6 DEF IncomingHolds, NothingUnderWay, Sending, Received
<1>9. OutcomesAreFinal' /\ AnswersHold' /\ NothingYet'
  BY DEF OutcomesAreFinal, AnswersHold, NothingYet, Received
<1>10. SentIsNotLost'
  <2> SUFFICES ASSUME NEW f \in Files, outcome[f] = "sent"
               PROVE  \/ received[f] = Size
                      \/ incoming.id = f /\ \E i \in DOMAIN toReceiver' : toReceiver'[i] = Message("file-end", f)
    BY DEF SentIsNotLost, Received
  <2>1. DOMAIN toReceiver = 1..Len(toReceiver)
    BY FileFacts, LenProperties
  <2> QED
    BY <2>1, <1>3 DEF SentIsNotLost, OnlyStarts, IsStart, Message, Received
<1> QED
  BY <1>5, <1>6, <1>7, <1>8, <1>9, <1>10


\* Without a transfer, or with one that nothing is under way of, there is no chunk or
\* end to receive.
LEMMA SomethingUnderWay ==
  ASSUME FilesHold, channel = "open", 1 \in 1..Len(toReceiver), ~IsStart(1)
  PROVE  /\ incoming.id # NoFile /\ incoming.id \in Files /\ offer = NoFile
         /\ IF outcome[incoming.id] = "sent" THEN RestUnderWay
            ELSE Sending /\ ChunksUnderWay /\ sending.at = "sending"
<1> USE DEF FilesHold
<1>a. Numbers /\ Queues
  BY FileFacts
<1>1. ~OnlyStarts
  BY DEF OnlyStarts
<1>2. incoming.id # NoFile /\ offer = NoFile
  BY <1>1 DEF IncomingHolds, OffersAscend
<1>3. incoming.id \in Files
  BY <1>2, <1>a, FileNames DEF FileTypeOK, Numbers
<1> QED
  BY <1>1, <1>2, <1>3 DEF IncomingHolds, NothingUnderWay, Sending

LEMMA ReceiveChunkHolds ==
  ASSUME FilesHold, NEW m, Received(m), m.kind = "chunk",
         incoming' = IF incoming.id = NoFile THEN incoming ELSE [incoming EXCEPT !.chunks = @ + 1],
         UNCHANGED <<offer, received>>
  PROVE  FilesHold'
<1> USE DEF FilesHold
<1>a. Numbers /\ Queues
  BY FileFacts
<1>1. toReceiver' \in Seq(ToReceiver) /\ m \in ToReceiver /\ Taken(toReceiver, toReceiver') /\ m = toReceiver[1]
  BY FileFacts, TakeReceived DEF Received, Taken
<1>2. 1 \in 1..Len(toReceiver) /\ ~IsStart(1)
  BY <1>1 DEF Taken, IsStart
<1>w. /\ incoming.id # NoFile /\ incoming.id \in Files /\ offer = NoFile
      /\ IF outcome[incoming.id] = "sent" THEN RestUnderWay
         ELSE Sending /\ ChunksUnderWay /\ sending.at = "sending"
  BY <1>2, SomethingUnderWay DEF Received
<1>s. incoming \in [id : 0..MaxFiles, chunks : 0..Size]
  BY DEF FileTypeOK
<1>3. /\ incoming'.id = incoming.id /\ incoming'.chunks = incoming.chunks + 1
      /\ UNCHANGED <<channel, sending, outcome, toSender, offer, received>>
  BY <1>s, <1>w DEF Received
<1>n. /\ Len(toReceiver) \in Nat /\ Len(toReceiver') = Len(toReceiver) - 1 /\ Len(toReceiver) # 0
      /\ incoming.chunks \in Nat /\ Size \in Nat
      /\ \A i \in 1..Len(toReceiver') : toReceiver'[i] = toReceiver[i + 1] /\ i + 1 \in 1..Len(toReceiver)
  BY <1>1, <1>a DEF Taken, Numbers
<1>4. ASSUME outcome[incoming.id] = "sent"
      PROVE  RestUnderWay' /\ incoming.chunks + 1 <= Size
  <2> DEFINE rest == Size - incoming.chunks
  <2>1. rest \in Int /\ rest < Len(toReceiver) /\ \A i \in 1..Len(toReceiver) : Rest(toReceiver[i], i, rest)
    BY <1>4, <1>w, <1>n DEF RestUnderWay
  <2>2. rest >= 0
    <3>1. incoming.chunks <= Size
      BY <1>s
    <3> QED
      BY <3>1, <1>n
  <2>3. Size - incoming'.chunks = rest - 1
    BY <1>3, <1>n
  <2>4. rest - 1 >= 0 => incoming.chunks + 1 <= Size
    BY <1>n
  <2> HIDE DEF rest
  <2>5. Rest(m, 1, rest)
    BY <2>1, <1>1, <1>2
  <2>6. rest # 0
    BY <2>5 DEF Rest, Message
  <2>7. \A i \in 1..Len(toReceiver') : Rest(toReceiver[i + 1], i + 1, rest) /\ toReceiver'[i] = toReceiver[i + 1] /\ i \in Nat
    BY <1>n, <2>1
  <2>8. \A i \in 1..Len(toReceiver') :
          LET n == toReceiver'[i]
          IN  /\ i <= rest - 1 => n = Message("chunk", incoming'.id)
              /\ i = rest => n = Message("file-end", incoming'.id)
              /\ i > rest => n.kind = "file-start"
    BY <2>7, <2>1, <1>3 DEF Rest
  <2>9. rest - 1 < Len(toReceiver')
    BY <2>1, <1>n
  <2>10. RestUnderWay'
    BY <2>1, <2>3, <2>8, <2>9 DEF RestUnderWay, Rest
  <2> QED
    BY <2>1, <2>2, <2>4, <2>6, <2>10
<1>5. ASSUME outcome[incoming.id] # "sent"
      PROVE  ChunksUnderWay' /\ incoming.chunks + 1 <= Size
  <2>1. (\A i \in 1..Len(toReceiver) : toReceiver[i] = Message("chunk", incoming.id))
        /\ Len(toReceiver) + incoming.chunks = sending.sent
    BY <1>5, <1>w DEF ChunksUnderWay
  <2>2. Len(toReceiver') + incoming'.chunks = sending'.sent
    <3>1. sending' = sending
      BY <1>3
    <3> QED
      BY <2>1, <3>1, <1>3, <1>n
  <2>3. incoming.chunks + 1 <= Size
    <3>1. sending.sent <= Size /\ sending.sent \in Nat
      BY <1>a DEF Numbers
    <3> QED
      BY <2>1, <3>1, <1>n
  <2>4. \A i \in 1..Len(toReceiver') : toReceiver'[i] = Message("chunk", incoming'.id)
    BY <2>1, <1>3, <1>n
  <2> QED
    BY <2>2, <2>3, <2>4 DEF ChunksUnderWay
<1>6. FileTypeOK'
  <2>1. incoming' \in [id : 0..MaxFiles, chunks : 0..Size]
    <3>1. incoming.chunks + 1 \in 0..Size
      BY <1>4, <1>5, <1>n
    <3> QED
      BY <3>1, <1>s, <1>w
  <2> QED
    BY <2>1, <1>1, <1>3 DEF FileTypeOK, ToReceiver
<1>7. StartsAscend'
  <2>1. \A i \in 1..Len(toReceiver) : i > 1 /\ IsStart(i) =>
           /\ offer' < toReceiver[i].id /\ incoming'.id < toReceiver[i].id
           /\ \A f \in Files : received'[f] # 0 => f < toReceiver[i].id
    BY <1>3 DEF StartsAscend
  <2> QED
    BY <2>1, <1>1, <1>3, TakenAscends
<1>8. OffersAscend'
  BY <1>3, <1>w DEF OffersAscend
<1>9. IncomingHolds'
  <2>1. outcome[incoming.id] # "sent" => Sending'
    BY <1>3, <1>w DEF Sending
  <2> QED
    BY <2>1, <1>3, <1>4, <1>5, <1>w DEF IncomingHolds
<1>10. OutcomesAreFinal' /\ AnswersHold'
  BY <1>3 DEF OutcomesAreFinal, AnswersHold
<1>11. NothingYet'
  BY <1>3 DEF NothingYet, Received
<1>12. SentIsNotLost'
  <2> SUFFICES ASSUME NEW f \in Files, outcome[f] = "sent"
               PROVE  \/ received[f] = Size
                      \/ incoming'.id = f /\ \E i \in DOMAIN toReceiver' : toReceiver'[i] = Message("file-end", f)
    BY <1>3 DEF SentIsNotLost
  <2>1. DOMAIN toReceiver = 1..Len(toReceiver) /\ DOMAIN toReceiver' = 1..Len(toReceiver')
    BY FileFacts, <1>1, LenProperties
  <2>2. ASSUME NEW i \in 1..Len(toReceiver), toReceiver[i] = Message("file-end", f)
        PROVE  \E j \in DOMAIN toReceiver' : toReceiver'[j] = Message("file-end", f)
    <3>1. i # 1
      BY <2>2, <1>1 DEF Message
    <3>2. i - 1 \in 1..Len(toReceiver') /\ toReceiver'[i - 1] = toReceiver[i]
      <4>1. i - 1 \in 1..Len(toReceiver') /\ (i - 1) + 1 = i
        BY <3>1, <1>n
      <4> QED
        BY <4>1, <1>n
    <3> QED
      BY <3>2, <2>1, <2>2
  <2> QED
    BY <2>1, <2>2, <1>3 DEF SentIsNotLost, Received
<1> QED
  BY <1>6, <1>7, <1>8, <1>9, <1>10, <1>11, <1>12


\* The end that is received is the end of the accepted file, all of whose chunks came.
LEMMA EndIsOfIncoming ==
  ASSUME FilesHold, NEW m, Received(m), m.kind = "file-end"
  PROVE  /\ incoming.id \in Files /\ incoming.chunks = Size /\ m.id = incoming.id
         /\ offer = NoFile /\ outcome[incoming.id] = "sent"
         /\ \A i \in 1..Len(toReceiver) : i > 1 => IsStart(i)
<1> USE DEF FilesHold
<1>1. m \in ToReceiver /\ Taken(toReceiver, toReceiver') /\ m = toReceiver[1]
  BY FileFacts, TakeReceived DEF Received, Taken
<1>2. 1 \in 1..Len(toReceiver) /\ ~IsStart(1)
  BY <1>1 DEF Taken, IsStart
<1>w. /\ incoming.id # NoFile /\ incoming.id \in Files /\ offer = NoFile
      /\ IF outcome[incoming.id] = "sent" THEN RestUnderWay
         ELSE Sending /\ ChunksUnderWay /\ sending.at = "sending"
  BY <1>2, SomethingUnderWay DEF Received
<1>3. ~ChunksUnderWay
  BY <1>1, <1>2 DEF ChunksUnderWay, Message
<1>4. incoming.chunks \in Nat /\ Size \in Nat /\ incoming.chunks <= Size
  BY SizeAssumption DEF FileTypeOK
<1> DEFINE rest == Size - incoming.chunks
<1>5. rest \in Nat /\ (rest = 0 => incoming.chunks = Size)
  BY <1>4
<1>6. \A i \in 1..Len(toReceiver) : Rest(toReceiver[i], i, rest)
  BY <1>w, <1>3 DEF RestUnderWay
<1> HIDE DEF rest
<1>7. rest = 0 /\ m.id = incoming.id
  <2>1. Rest(m, 1, rest)
    BY <1>6, <1>1, <1>2
  <2>2. ~(1 <= rest)
    BY <2>1 DEF Rest, Message
  <2> QED
    BY <2>1, <2>2, <1>5 DEF Rest, Message
<1> QED
  BY <1>w, <1>3, <1>5, <1>6, <1>7 DEF Rest, IsStart

LEMMA ReceiveEndHolds ==
  ASSUME FilesHold, NEW m, Received(m), m.kind = "file-end",
         received' = [received EXCEPT ![incoming.id] = incoming.chunks],
         incoming' = NotIncoming, UNCHANGED offer
  PROVE  FilesHold'
<1> USE DEF FilesHold
<1>a. Numbers /\ Queues
  BY FileFacts
<1>w. /\ incoming.id \in Files /\ incoming.chunks = Size /\ m.id = incoming.id
      /\ offer = NoFile /\ outcome[incoming.id] = "sent"
      /\ \A i \in 1..Len(toReceiver) : i > 1 => IsStart(i)
  BY EndIsOfIncoming
<1>1. toReceiver' \in Seq(ToReceiver) /\ Taken(toReceiver, toReceiver')
  BY FileFacts, TakeReceived DEF Received
<1>2. /\ incoming'.id = NoFile /\ incoming'.chunks = 0
      /\ UNCHANGED <<channel, sending, outcome, toSender, offer>>
      /\ \A f \in Files : received'[f] = IF f = incoming.id THEN Size ELSE received[f]
  BY <1>w DEF Received, NotIncoming, FileTypeOK
<1>3. FileTypeOK'
  <2>1. received' \in [Files -> 0..Size] /\ incoming' \in [id : 0..MaxFiles, chunks : 0..Size]
    BY <1>w, FilesAssumption, SizeAssumption DEF FileTypeOK, NotIncoming, NoFile
  <2> QED
    BY <2>1, <1>1, <1>2 DEF FileTypeOK, ToReceiver
<1>4. OnlyStarts'
  BY <1>1, <1>w DEF OnlyStarts, IsStart, Taken
<1>5. StartsAscend'
  <2>1. \A i \in 1..Len(toReceiver) : i > 1 /\ IsStart(i) =>
           /\ offer' < toReceiver[i].id /\ incoming'.id < toReceiver[i].id
           /\ \A f \in Files : received'[f] # 0 => f < toReceiver[i].id
    BY <1>2, <1>w DEF StartsAscend
  <2> QED
    BY <2>1, <1>1, <1>2, TakenAscends
<1>6. OffersAscend'
  <2>1. NoFile <= sending.id
    BY <1>a DEF Numbers, NoFile
  <2> QED
    BY <2>1, <1>2, <1>w DEF OffersAscend
<1>7. IncomingHolds' /\ OutcomesAreFinal'
  BY <1>2, <1>4 DEF IncomingHolds, OutcomesAreFinal
<1>8. sending.at # "sending" /\ ~(sending.at = "waiting" /\ incoming.id = sending.id)
  BY <1>w, <1>a DEF OutcomesAreFinal, AnswersHold, Received, Numbers
<1>9. AnswersHold' /\ NothingYet'
  BY <1>2, <1>8 DEF AnswersHold, NothingYet, Received
<1>10. SentIsNotLost'
  BY <1>2 DEF SentIsNotLost, Received
<1> QED
  BY <1>3, <1>5, <1>6, <1>7, <1>9, <1>10

LEMMA ReceiveHolds ==
  ASSUME FilesHold, Receive
  PROVE  FilesHold'
<1> DEFINE m == Head(toReceiver)
<1>1. Received(m)
  BY DEF Receive, Received
<1>2. m.kind = "file-end" => Complete(m)
  BY <1>1, EndIsOfIncoming, FileFacts DEF FilesHold, Complete, Numbers
<1> HIDE DEF m
<1>3. \/ m.kind = "file-start" /\ offer' = m.id /\ UNCHANGED <<incoming, received>>
      \/ /\ m.kind = "chunk"
         /\ incoming' = IF incoming.id = NoFile THEN incoming ELSE [incoming EXCEPT !.chunks = @ + 1]
         /\ UNCHANGED <<offer, received>>
      \/ /\ m.kind = "file-end"
         /\ received' = [received EXCEPT ![incoming.id] = incoming.chunks]
         /\ incoming' = NotIncoming /\ UNCHANGED offer
  BY <1>2 DEF Receive, m
<1> QED
  BY <1>1, <1>3, ReceiveStartHolds, ReceiveChunkHolds, ReceiveEndHolds

\* The answer of the receiver's user: the sender either sends nothing, or waits for it.
LEMMA RespondHolds ==
  ASSUME FilesHold, Respond
  PROVE  FilesHold'
<1> USE DEF FilesHold
<1>a. Numbers /\ Queues
  BY FileFacts
<1>1. /\ channel = "open" /\ offer # NoFile /\ offer' = NoFile
      /\ UNCHANGED <<channel, sending, outcome, toReceiver, received>>
  BY DEF Respond
<1>2. /\ incoming.id < offer /\ offer <= sending.id /\ OnlyStarts
      /\ \A f \in Files : received[f] # 0 => f < offer
  BY <1>1 DEF OffersAscend
<1>3. offer \in Files
  BY <1>1, OfferedName
<1>4. PICK kind \in {"file-accept", "file-decline"} :
        /\ toSender' = Append(toSender, Message(kind, offer))
        /\ IF kind = "file-accept" THEN Accept ELSE UNCHANGED incoming
  <2>1. CASE Accept /\ toSender' = Append(toSender, Message("file-accept", offer))
    BY <2>1
  <2>2. CASE toSender' = Append(toSender, Message("file-decline", offer)) /\ UNCHANGED incoming
    BY <2>2
  <2> QED
    BY <2>1, <2>2 DEF Respond
<1>5. Message(kind, offer) \in ToSender
  BY <1>3 DEF Message, ToSender
<1>6. /\ toSender' \in Seq(ToSender) /\ Len(toSender) \in Nat /\ Len(toSender') = Len(toSender) + 1
      /\ toSender'[Len(toSender) + 1] = Message(kind, offer)
      /\ \A i \in 1..Len(toSender) : toSender'[i] = toSender[i]
  BY <1>4, <1>5, FileFacts, QueueAppend
<1>7. \A i \in 1..Len(toSender') : i \in 1..Len(toSender) \/ i = Len(toSender) + 1
  BY <1>6
<1>8. /\ kind = "file-accept" => incoming'.id = offer /\ incoming'.chunks = 0
      /\ kind # "file-accept" => UNCHANGED incoming
  BY <1>4 DEF Accept
<1>9. FileTypeOK'
  <2>1. incoming' \in [id : 0..MaxFiles, chunks : 0..Size]
    <3>1. offer \in 0..MaxFiles /\ 0 \in 0..Size
      BY SizeAssumption DEF FileTypeOK
    <3> QED
      BY <3>1, <1>4 DEF Accept, FileTypeOK
  <2> QED
    BY <2>1, <1>1, <1>6, FilesAssumption DEF FileTypeOK, ToSender, NoFile
<1>10. StartsAscend'
  <2>1. \A i \in 1..Len(toReceiver) : IsStart(i) => NoFile < toReceiver[i].id /\ incoming'.id < toReceiver[i].id
    BY <1>2, <1>8, <1>a DEF StartsAscend, Numbers, Queues, NoFile
  <2> QED
    BY <2>1, <1>1 DEF StartsAscend, IsStart
<1>11. OffersAscend'
  <2>1. \A i \in 1..Len(toSender') : toSender'[i].id <= sending.id
    BY <1>2, <1>6, <1>7 DEF OffersAscend, Message
  <2>2. incoming'.id <= sending.id /\ NoFile <= sending.id
    BY <1>2, <1>8, <1>a DEF OffersAscend, Numbers, NoFile
  <2> QED
    BY <2>1, <2>2, <1>1 DEF OffersAscend
<1>12. sending.at # "sending" /\ incoming.id # sending.id
  BY <1>1, <1>2, <1>a DEF AnswersHold, Numbers
<1>13. AnswersHold'
  <2> SUFFICES ASSUME sending.at = "waiting", NEW i \in 1..Len(toSender'),
                      toSender'[i] = Message("file-accept", sending.id)
               PROVE  incoming'.id = sending.id
    BY <1>1, <1>12 DEF AnswersHold
  <2>1. i = Len(toSender) + 1
    BY <1>1, <1>6, <1>7, <1>12 DEF AnswersHold
  <2> QED
    BY <2>1, <1>6, <1>8 DEF Message
<1>14. outcome[offer] # "sent"
  BY <1>1, <1>2, <1>3, <1>a, SizeAssumption DEF SentIsNotLost, Numbers
<1>15. IncomingHolds'
  <2>1. OnlyStarts'
    BY <1>1, <1>2 DEF OnlyStarts, IsStart
  <2>2. CASE kind = "file-accept"
    BY <2>1, <2>2, <1>1, <1>8, <1>12, <1>14 DEF IncomingHolds, NothingUnderWay, Sending
  <2>3. CASE kind # "file-accept"
    <3>1. UNCHANGED <<incoming, sending, outcome, toReceiver, channel>>
      BY <2>3, <1>1, <1>8
    <3> QED
      BY <3>1 DEF IncomingHolds, NothingUnderWay, OnlyStarts, IsStart, Sending, RestUnderWay, Rest, ChunksUnderWay
  <2> QED
    BY <2>2, <2>3
<1>16. OutcomesAreFinal' /\ NothingYet'
  BY <1>1 DEF OutcomesAreFinal, NothingYet
<1>17. SentIsNotLost'
  <2>1. DOMAIN toReceiver = 1..Len(toReceiver)
    BY FileFacts, LenProperties
  <2>2. \A f \in Files, i \in DOMAIN toReceiver : toReceiver[i] # Message("file-end", f)
    BY <2>1, <1>2 DEF OnlyStarts, IsStart, Message
  <2> QED
    BY <2>2, <1>1 DEF SentIsNotLost
<1> QED
  BY <1>9, <1>10, <1>11, <1>13, <1>15, <1>16, <1>17

LEMMA ChannelHolds ==
  ASSUME FilesHold, OpenChannel \/ CloseChannel
  PROVE  FilesHold'
<1> USE DEF FilesHold
<1>a. Numbers /\ Queues
  BY FileFacts
<1>1. /\ UNCHANGED <<sending, outcome, toReceiver, toSender, offer, incoming, received>>
      /\ channel' \in {"open", "closed"}
      /\ channel' = "open" => channel = "new"
  BY DEF OpenChannel, CloseChannel
<1>2. FileTypeOK' /\ StartsAscend' /\ OffersAscend' /\ OutcomesAreFinal' /\ NothingYet'
  BY <1>1 DEF FileTypeOK, StartsAscend, OffersAscend, OutcomesAreFinal, NothingYet, IsStart, OnlyStarts
<1>3. channel' = "open" =>
        /\ toReceiver = <<>> /\ sending.id = NoFile /\ sending.at = "idle"
        /\ incoming.id = NoFile /\ \A f \in Files : outcome[f] = "none"
  BY <1>1, <1>a DEF NothingYet, OffersAscend, OutcomesAreFinal, Numbers, NoFile
<1>4. channel' = "open" => OnlyStarts'
  BY <1>1, <1>3 DEF OnlyStarts
<1>5. IncomingHolds' /\ AnswersHold' /\ SentIsNotLost'
  BY <1>1, <1>3, <1>4 DEF IncomingHolds, AnswersHold, SentIsNotLost
<1> QED
  BY <1>2, <1>5

LEMMA FilesHoldNext ==
  ASSUME FilesHold, [FileNext]_fileVars
  PROVE  FilesHold'
<1>1. CASE UNCHANGED fileVars
  BY <1>1 DEF fileVars, FilesHold, FileTypeOK, StartsAscend, OffersAscend, OutcomesAreFinal, IncomingHolds,
     AnswersHold, NothingYet, SentIsNotLost, OnlyStarts, IsStart, Sending, ChunksUnderWay, RestUnderWay, Rest,
     NothingUnderWay
<1> QED
  BY <1>1, OfferFileHolds, ReceiveAnswerHolds, SenderGivesUpHolds, SendChunkHolds, SendEndHolds,
     ReceiveHolds, RespondHolds, ChannelHolds
     DEF FileNext, FileStep, SenderStep


(* What the transfer promises: every step of the two pages is one of FileDelivery's. *)
LEMMA DeliveryInit == FileInit => Delivery!Init
  BY DEF FileInit, Delivery!Init, NoFile, NotIncoming

LEMMA DeliveryNext ==
  ASSUME FilesHold, [FileNext]_fileVars
  PROVE  [Delivery!Next]_(Delivery!deliveryVars)
<1> USE DEF FilesHold
<1>a. Numbers
  BY FileFacts
<1>s. sending \in [id : 0..MaxFiles, at : {"idle", "waiting", "sending"}, sent : 0..Size]
  BY DEF FileTypeOK
<1> DEFINE Same == sending'.id = sending.id /\ incoming'.id = incoming.id /\ received' = received
<1>1. Same => [Delivery!Next]_(Delivery!deliveryVars)
  BY DEF Delivery!deliveryVars
<1>2. CASE UNCHANGED fileVars \/ OpenChannel \/ CloseChannel
  BY <1>1, <1>2 DEF fileVars, OpenChannel, CloseChannel
<1>3. CASE SenderStep
  BY <1>1, <1>3, <1>s DEF SenderStep, ReceiveAnswer, AnswerTimeout, SendChunk, SendEnd, SendFails, Over
<1>4. CASE OfferFile
  <2>1. sending.id + 1 \in Files
    BY <1>4, <1>a, FileNames, FilesAssumption DEF OfferFile, NoFile, Numbers
  <2>2. sending'.id = sending.id + 1 /\ incoming' = incoming /\ received' = received
    BY <1>4 DEF OfferFile
  <2>3. Delivery!Offer(sending.id + 1)
    BY <2>1, <2>2, <1>a DEF Delivery!Offer, Numbers
  <2> QED
    BY <2>1, <2>3 DEF Delivery!Next
<1>5. CASE Respond
  <2>1. offer \in Files /\ offer \in 1..sending.id /\ sending' = sending /\ received' = received
    <3>1. offer \in Files /\ offer <= sending.id
      BY <1>5, OfferedName DEF Respond, OffersAscend
    <3> QED
      BY <3>1, <1>5, <1>a DEF Respond, Numbers, Files
  <2>2. received[offer] = 0
    BY <2>1, <1>5, <1>a DEF Respond, OffersAscend, Numbers
  <2>3. CASE Accept
    <3>1. Delivery!Accept(offer)
      BY <2>1, <2>2, <2>3 DEF Accept, Delivery!Accept
    <3> QED
      BY <2>1, <3>1 DEF Delivery!Next
  <2>4. CASE UNCHANGED incoming
    BY <2>1, <2>4, <1>1
  <2> QED
    BY <1>5, <2>3, <2>4 DEF Respond
<1>6. CASE Receive
  <2> DEFINE m == Head(toReceiver)
  <2>1. Received(m) /\ sending' = sending
    BY <1>6 DEF Receive, Received
  <2>2. CASE m.kind = "file-end"
    <3>1. incoming.id \in Files /\ incoming.chunks = Size /\ m.id = incoming.id
      BY <2>1, <2>2, EndIsOfIncoming
    <3>2. Complete(m)
      BY <3>1, <1>a DEF Complete, Numbers
    <3>3. received' = [received EXCEPT ![incoming.id] = Size] /\ incoming'.id = 0
      BY <3>1, <3>2, <2>2, <1>6 DEF Receive, NotIncoming, NoFile
    <3>4. Delivery!Deliver(incoming.id)
      BY <3>3, <2>1 DEF Delivery!Deliver
    <3> QED
      BY <3>1, <3>4 DEF Delivery!Next
  <2>3. CASE m.kind # "file-end"
    <3>1. incoming \in [id : 0..MaxFiles, chunks : 0..Size]
      BY DEF FileTypeOK
    <3>2. incoming'.id = incoming.id /\ received' = received
      BY <2>3, <3>1, <1>6 DEF Receive
    <3> QED
      BY <3>2, <2>1, <1>1
  <2> QED
    BY <2>2, <2>3
<1> QED
  BY <1>2, <1>3, <1>4, <1>5, <1>6 DEF FileNext, FileStep

-----------------------------------------------------------------------------
(* The session leaves the files to FileTransfer. *)

LEMMA SessionsTransfer == Next => [FileNext]_fileVars
<1> SUFFICES ASSUME Next PROVE FileNext \/ UNCHANGED fileVars
  OBVIOUS
<1>1. ASSUME Transfer \/ Connected
      PROVE  FileNext
  BY <1>1 DEF Transfer, Connected, FileNext
<1>2. ASSUME Teardown
      PROVE  FileNext \/ UNCHANGED fileVars
  BY <1>2 DEF Teardown, FileNext
<1>3. ASSUME Backend \/ Network \/ Time
      PROVE  UNCHANGED fileVars
  BY <1>3 DEF Backend, Lookup, Join, Replay, Relay, Leave, Arm, Remove, Network, Drop, Time, GraceOver, Sweep
<1>4. ASSUME View
      PROVE  UNCHANGED fileVars
  BY <1>4 DEF View, ViewReceives, Answer, ViewClosed
<1>5. CASE Page
  BY <1>2, <1>5 DEF Page, CustomerReceives, CustomerClosed, SetUp, Create, FirstSocket, CheckDone, Reconnect, Offer, StopDone
<1>6. CASE Clicks
  BY <1>2, <1>6 DEF Clicks, Approve, Deny, Reset, Stop, EndReaches, StartSession, Media, EndByOperator, ClickJoin
<1> QED
  BY <1>1, <1>3, <1>4, <1>5, <1>6 DEF Next

LEMMA SessionsFilesHold == Spec => []FilesHold
<1>1. Init => FilesHold
  BY FilesHoldInit DEF Init
<1>2. FilesHold /\ [Next]_vars => FilesHold'
  <2> SUFFICES ASSUME FilesHold, [Next]_vars PROVE FilesHold'
    OBVIOUS
  <2>1. [FileNext]_fileVars
    BY SessionsTransfer DEF vars
  <2> QED
    BY <2>1, FilesHoldNext
<1> QED
  BY <1>1, <1>2, PTL DEF Spec

\* Over the whole session the pages deliver files as FileDelivery has it: nothing that was
\* not offered, accepted and whole reaches onFileReceived, for any number of files and
\* chunks and any high watermark.
THEOREM SessionsDeliver == Spec => ImplementsDelivery
<1>1. Init => Delivery!Init
  BY DeliveryInit DEF Init
<1>2. FilesHold /\ [Next]_vars => [Delivery!Next]_(Delivery!deliveryVars)
  <2> SUFFICES ASSUME FilesHold, [Next]_vars PROVE [Delivery!Next]_(Delivery!deliveryVars)
    OBVIOUS
  <2>1. [FileNext]_fileVars
    BY SessionsTransfer DEF vars
  <2> QED
    BY <2>1, DeliveryNext
<1> QED
  BY <1>1, <1>2, SessionsFilesHold, PTL DEF Spec, ImplementsDelivery, Delivery!Spec


-----------------------------------------------------------------------------
(* The session.  What the types say, but for the number of timers. *)

SessType == [created : BOOLEAN, stored : BOOLEAN, peers : SUBSET Sockets,
             last : Kinds \cup {"none"}, armed : BOOLEAN, stray : Nat, removing : Nat]
SockType == [of : 0..MaxStarts, by : {"none", "customer"} \cup Operators,
             client : {"none", "connecting", "open", "closing", "closed"},
             server : {"none", "found", "peer", "leaving", "gone"},
             cut : BOOLEAN, replay : Kinds \cup {"none"}, in : Seq(Kinds), out : Seq(Kinds)]
PageType == [status : {"idle", "starting", "creating", "waiting", "reconnecting", "completing"},
             session : 0..MaxStarts, ws : 0..MaxSockets, pc : 0..MaxStarts, offered : BOOLEAN,
             pending : BOOLEAN, offerSent : BOOLEAN, intentional : BOOLEAN, timer : 0..MaxStarts,
             stream : 0..MaxStarts]
WaitsType == [checks : SUBSET Sessions, stray : SUBSET Sessions,
              approvals : SUBSET (Sessions \X Sockets), stopping : 0..MaxStarts]
ViewType == [status : {"idle", "connecting", "waiting", "answering", "ready"}, ws : 0..MaxSockets]

RelayTypes == sess \in [Sessions -> SessType] /\ sock \in [Sockets -> SockType]
PageTypes ==
  /\ start \in [Sessions -> {"none", "media", "setup", "creating", "origin", "over"}]
  /\ page \in PageType /\ waits \in WaitsType /\ capturing \subseteq Sessions
OtherTypes == view \in [Operators -> ViewType] /\ joins \in 0..MaxJoins /\ faults \in 0..MaxFaults

\* Whatever has to do with a session comes after the backend was asked for it.
Begun(s) == start[s] \in {"origin", "over"}
SocketsBelong ==
  \A k \in Sockets :
    IF sock[k].by = "none" THEN sock[k].of = None /\ sock[k].server = "none"
    ELSE sock[k].of \in Sessions /\ Begun(sock[k].of)
CallsBelong ==
  /\ \A s \in Sessions : sess[s].created => Begun(s)
  /\ \A s \in waits.checks \cup waits.stray : Begun(s)
  /\ page.timer # None => Begun(page.timer)

\* Every timer of a session was armed by a socket that is gone from it.
GoneFrom(s) == {k \in Sockets : sock[k].of = s /\ sock[k].server = "gone"}
Timers(s) == (IF sess[s].armed THEN 1 ELSE 0) + sess[s].stray + sess[s].removing
TimersBounded == \A s \in Sessions : Timers(s) <= Cardinality(GoneFrom(s))

SessionHolds ==
  /\ RelayTypes /\ PageTypes /\ OtherTypes
  /\ SocketsBelong /\ CallsBelong /\ TimersBounded /\ SessionsAreReclaimed


(* The helpers keep a socket whose it is and where the server has it. *)
Same(t, u) == t.of = u.of /\ t.by = u.by /\ t.server = u.server

LEMMA SocketHelpers ==
  ASSUME RelayTypes, NEW k \in Sockets
  PROVE  /\ Shut(k) \in SockType /\ Same(Shut(k), sock[k])
         /\ \A m \in Kinds : /\ Sent(k, m) \in SockType /\ Same(Sent(k, m), sock[k])
                             /\ Told(k, m) \in SockType /\ Same(Told(k, m), sock[k])
<1>1. sock[k] \in SockType
  BY DEF RelayTypes
<1>2. Shut(k) \in SockType /\ Same(Shut(k), sock[k])
  BY <1>1 DEF Shut, SockType, Same
<1>3. ASSUME NEW m \in Kinds
      PROVE  Sent(k, m) \in SockType /\ Same(Sent(k, m), sock[k])
  <2>1. Append(sock[k].out, m) \in Seq(Kinds)
    BY <1>1 DEF SockType
  <2> QED
    BY <1>1, <2>1 DEF Sent, SockType, Same
<1>4. ASSUME NEW m \in Kinds
      PROVE  Told(k, m) \in SockType /\ Same(Told(k, m), sock[k])
  <2>1. Append(sock[k].in, m) \in Seq(Kinds)
    BY <1>1 DEF SockType
  <2> QED
    BY <1>1, <2>1 DEF Told, SockType, Same
<1> QED
  BY <1>2, <1>3, <1>4

LEMMA FreshIsFree ==
  ASSUME Free # {}
  PROVE  Fresh \in Sockets /\ sock[Fresh].by = "none"
<1>1. Free \subseteq Nat
  BY StartsAssumption DEF Free, Sockets
<1> DEFINE Less == {p \in Nat \X Nat : p[1] < p[2]}
<1>2. IsWellFoundedOn(Less, Nat)
  BY NatLessThanWellFounded DEF OpToRel
<1> HIDE DEF Less
<1>3. \E k \in Free : \A j \in Free : k <= j
  <2>1. PICK k \in Free : \A j \in Free : ~(<<j, k>> \in Less)
    BY <1>1, <1>2, WFMin
  <2>2. \A j \in Free : ~(j < k)
    BY <2>1, <1>1 DEF Less
  <2> QED
    BY <2>2, <1>1
<1>4. Fresh \in Free
  BY <1>3 DEF Fresh
<1> QED
  BY <1>4 DEF Free

LEMMA OpenedIs ==
  ASSUME NEW s \in Sessions, NEW who \in {"customer"} \cup Operators
  PROVE  /\ Opened(s, who) \in SockType
         /\ Opened(s, who).of = s /\ Opened(s, who).by = who /\ Opened(s, who).server = "none"
<1>1. NoSocket \in SockType
  <2>1. <<>> \in Seq(Kinds) /\ 0 \in 0..MaxStarts
    BY StartsAssumption
  <2> QED
    BY <2>1 DEF NoSocket, SockType, None
<1>2. s \in 0..MaxStarts
  BY StartsAssumption DEF Sessions
<1> QED
  BY <1>1, <1>2 DEF Opened, SockType, NoSocket


(* The backend's steps. *)
LEMMA RelayTypesBackend ==
  ASSUME RelayTypes, SocketsBelong, Backend \/ Time \/ Network
  PROVE  RelayTypes'
<1> USE DEF RelayTypes
<1>1. ASSUME NEW k \in Sockets, Lookup(k) \/ Drop(k)
      PROVE  RelayTypes'
  <2>1. /\ [sock[k] EXCEPT !.server = "found"] \in SockType
        /\ [sock[k] EXCEPT !.server = "gone", !.cut = TRUE] \in SockType
        /\ [sock[k] EXCEPT !.cut = TRUE] \in SockType
    BY DEF SockType
  <2> QED
    BY <2>1, <1>1 DEF Lookup, Drop
<1>2. ASSUME NEW k \in Sockets, sock[k].server # "none"
      PROVE  sock[k].of \in Sessions
  BY <1>2 DEF SocketsBelong
<1>3. ASSUME NEW k \in Sockets, Join(k)
      PROVE  RelayTypes'
  <2>1. sock[k].of \in Sessions
    BY <1>2, <1>3 DEF Join
  <2>2. Kept(sock[k].of) \in Kinds \cup {"none"}
    BY <2>1 DEF Kept, SessType
  <2>3. sess' \in [Sessions -> SessType]
    BY <2>1, <1>3 DEF Join, SessType
  <2>4. <<"join-request">> \in Seq(Kinds)
    BY DEF Kinds
  <2> DEFINE opens == sock[k].client = "connecting"
             t == [sock[k] EXCEPT !.server = "peer", !.replay = Kept(sock[k].of),
                    !.client = IF opens THEN "open" ELSE @,
                    !.out = IF opens /\ sock[k].by \in Operators THEN <<"join-request">> ELSE @]
  <2>5. t \in SockType
    BY <2>2, <2>4 DEF SockType
  <2>6. sock' = [sock EXCEPT ![k] = t]
    BY <1>3 DEF Join
  <2> QED
    BY <2>3, <2>5, <2>6
<1>4. ASSUME NEW k \in Sockets, Replay(k)
      PROVE  RelayTypes'
  <2>1. Told(k, sock[k].replay) \in SockType
    BY <1>4, SocketHelpers DEF Replay, SockType
  <2>2. [Told(k, sock[k].replay) EXCEPT !.replay = "none"] \in SockType
    BY <2>1 DEF SockType
  <2> QED
    BY <2>2, <1>4 DEF Replay
<1>5. ASSUME NEW k \in Sockets, Relay(k)
      PROVE  RelayTypes'
  <2>1. sock[k].out \in Seq(Kinds) /\ sock[k].out # <<>>
    BY <1>5 DEF Relay, SockType
  <2>2. Head(sock[k].out) \in Kinds /\ Tail(sock[k].out) \in Seq(Kinds)
    BY <2>1, HeadTailProperties
  <2>3. sess' \in [Sessions -> SessType]
    BY <2>2, <1>5 DEF Relay, SessType
  <2>4. \A j \in Sockets : Told(j, Head(sock[k].out)) \in SockType
    BY <2>2, SocketHelpers
  <2>5. [sock[k] EXCEPT !.out = Tail(@)] \in SockType
    BY <2>2 DEF SockType
  <2>6. sock' \in [Sockets -> SockType]
    BY <2>4, <2>5, <1>5 DEF Relay
  <2> QED
    BY <2>3, <2>6
<1>6. ASSUME NEW k \in Sockets, Leave(k) \/ Arm(k)
      PROVE  RelayTypes'
  <2>1. sock[k].of \in Sessions
    BY <1>2, <1>6 DEF Leave, Arm
  <2>2. sess' \in [Sessions -> SessType]
    <3>1. CASE Leave(k)
      BY <2>1, <3>1 DEF Leave, SessType
    <3>2. CASE Arm(k)
      <4> DEFINE x == sock[k].of
                 n == IF sess[x].armed THEN sess[x].stray + 1 ELSE sess[x].stray
      <4>1. n \in Nat
        BY <2>1 DEF SessType
      <4>2. sess' = [sess EXCEPT ![x].armed = TRUE, ![x].stray = n]
        BY <3>2 DEF Arm
      <4> HIDE DEF n
      <4> QED
        BY <2>1, <4>1, <4>2 DEF SessType
    <3> QED
      BY <1>6, <3>1, <3>2
  <2>3. <<>> \in Seq(Kinds)
    OBVIOUS
  <2>4. /\ [sock[k] EXCEPT !.server = "leaving", !.out = <<>>] \in SockType
        /\ [sock[k] EXCEPT !.server = "gone", !.out = <<>>] \in SockType
        /\ [sock[k] EXCEPT !.server = "gone"] \in SockType
    BY <2>3 DEF SockType
  <2>5. sock' \in [Sockets -> SockType]
    BY <2>4, <1>6 DEF Leave, Arm
  <2> QED
    BY <2>2, <2>5
<1>7. ASSUME NEW s \in Sessions, Remove(s) \/ GraceOver(s) \/ Sweep(s)
      PROVE  RelayTypes'
  <2>1. CASE Remove(s)
    BY <2>1 DEF Remove, SessType
  <2>2. CASE GraceOver(s)
    <3> DEFINE n == IF sess[s].peers = {} THEN sess[s].removing + 1 ELSE sess[s].removing
    <3>1. n \in Nat /\ (sess[s].stray > 0 => sess[s].stray - 1 \in Nat)
      BY DEF SessType
    <3>2. \/ sess' = [sess EXCEPT ![s].armed = FALSE, ![s].removing = n]
          \/ sess[s].stray > 0 /\ sess' = [sess EXCEPT ![s].stray = @ - 1, ![s].removing = n]
      BY <2>2 DEF GraceOver
    <3>3. sock' = sock
      BY <2>2 DEF GraceOver
    <3> HIDE DEF n
    <3>4. [sess[s] EXCEPT !.armed = FALSE, !.removing = n] \in SessType
      BY <3>1 DEF SessType
    <3>5. sess[s].stray > 0 => [sess[s] EXCEPT !.stray = @ - 1, !.removing = n] \in SessType
      BY <3>1 DEF SessType
    <3>6. sess' \in [Sessions -> SessType]
      BY <3>2, <3>4, <3>5
    <3> QED
      BY <3>3, <3>6
  <2>3. CASE Sweep(s)
    BY <2>3 DEF Sweep, SessType
  <2> QED
    BY <1>7, <2>1, <2>2, <2>3
<1> QED
  BY <1>1, <1>3, <1>4, <1>5, <1>6, <1>7 DEF Backend, Time, Network

LEMMA EndedTypes ==
  ASSUME RelayTypes, NEW s, Ended(s)
  PROVE  RelayTypes'
<1>1. sess' \in [Sessions -> SessType]
  BY DEF Ended, RelayTypes, SessType
<1>2. \A k \in Sockets : [sock[k] EXCEPT !.cut = TRUE] \in SockType
  BY DEF RelayTypes, SockType
<1> QED
  BY <1>1, <1>2 DEF Ended, RelayTypes

LEMMA TeardownTypes ==
  ASSUME RelayTypes, PageTypes, Teardown
  PROVE  sock' \in [Sockets -> SockType] /\ page' \in PageType /\ capturing' \subseteq Sessions
<1>1. sock' \in [Sockets -> SockType]
  <2>1. \A k \in Sockets : Shut(k) \in SockType
    BY SocketHelpers
  <2> QED
    BY <2>1 DEF Teardown, RelayTypes
<1>2. page' \in PageType
  <2>1. None \in 0..MaxStarts /\ None \in 0..MaxSockets
    BY StartsAssumption DEF None
  <2>2. Blank \in PageType
    BY <2>1 DEF Blank, PageType
  <2>3. [Blank EXCEPT !.intentional = TRUE] \in PageType
    BY <2>2 DEF PageType
  <2> QED
    BY <2>3 DEF Teardown
<1> QED
  BY <1>1, <1>2 DEF Teardown, PageTypes

LEMMA SocketReads ==
  ASSUME RelayTypes, NEW k \in Sockets
  PROVE  /\ sock[k].in # <<>> => Head(sock[k].in) \in Kinds /\ [sock[k] EXCEPT !.in = Tail(@)] \in SockType
         /\ [sock[k] EXCEPT !.client = "closed", !.in = <<>>] \in SockType
<1>1. sock[k] \in SockType /\ sock[k].in \in Seq(Kinds)
  BY DEF RelayTypes, SockType
<1>2. ASSUME sock[k].in # <<>>
      PROVE  Head(sock[k].in) \in Kinds /\ Tail(sock[k].in) \in Seq(Kinds)
  BY <1>1, <1>2, HeadTailProperties
<1>3. <<>> \in Seq(Kinds)
  OBVIOUS
<1> QED
  BY <1>1, <1>2, <1>3 DEF SockType

LEMMA RelayTypesView ==
  ASSUME RelayTypes, OtherTypes, View
  PROVE  RelayTypes' /\ OtherTypes'
<1>1. ASSUME NEW o \in Operators, ViewReceives(o)
      PROVE  RelayTypes' /\ OtherTypes'
  <2> DEFINE k == view[o].ws
  <2>1. k \in Sockets /\ sock[k].in # <<>>
    BY <1>1, StartsAssumption DEF ViewReceives, OtherTypes, ViewType, None, Sockets
  <2>2. [sock[k] EXCEPT !.in = Tail(@)] \in SockType
    BY <2>1, SocketReads
  <2>3. [Shut(k) EXCEPT !.in = <<>>] \in SockType
    <3>1. Shut(k) \in SockType /\ <<>> \in Seq(Kinds)
      BY <2>1, SocketHelpers
    <3> HIDE DEF k
    <3> QED
      BY <3>1 DEF SockType
  <2>4. sock' = [sock EXCEPT ![k].in = Tail(@)] \/ sock' = [sock EXCEPT ![k] = [Shut(k) EXCEPT !.in = <<>>]]
    BY <1>1 DEF ViewReceives
  <2>5. view' \in [Operators -> ViewType]
    BY <1>1 DEF ViewReceives, OtherTypes, ViewType
  <2>6. sock' \in [Sockets -> SockType]
    BY <2>2, <2>3, <2>4 DEF RelayTypes
  <2> QED
    BY <1>1, <2>5, <2>6 DEF ViewReceives, RelayTypes, OtherTypes
<1>2. ASSUME NEW o \in Operators, Answer(o)
      PROVE  RelayTypes' /\ OtherTypes'
  <2>1. "answer" \in Kinds
    BY DEF Kinds
  <2>2. sock' \in [Sockets -> SockType]
    BY <1>2, <2>1, SocketHelpers DEF Answer, RelayTypes
  <2>3. view' \in [Operators -> ViewType]
    BY <1>2 DEF Answer, OtherTypes, ViewType
  <2> QED
    BY <1>2, <2>2, <2>3 DEF Answer, RelayTypes, OtherTypes
<1>3. ASSUME NEW k \in Sockets, ViewClosed(k)
      PROVE  RelayTypes' /\ OtherTypes'
  <2>1. sock' \in [Sockets -> SockType]
    BY <1>3, SocketReads DEF ViewClosed, RelayTypes
  <2>2. view' \in [Operators -> ViewType]
    BY <1>3 DEF ViewClosed, OtherTypes, ViewType
  <2> QED
    BY <1>3, <2>1, <2>2 DEF ViewClosed, RelayTypes, OtherTypes
<1> QED
  BY <1>1, <1>2, <1>3 DEF View


LEMMA SessionIsNumber ==
  ASSUME PageTypes
  PROVE  \A s \in Sessions : s \in 0..MaxStarts /\ s # None
  BY StartsAssumption DEF Sessions, None

LEMMA WsIsSocket ==
  ASSUME PageTypes
  PROVE  page.ws # None => page.ws \in Sockets
<1>1. page.ws \in 0..MaxSockets
  BY DEF PageTypes, PageType
<1> QED
  BY <1>1, StartsAssumption DEF Sockets, None

LEMMA SessionNames ==
  ASSUME PageTypes
  PROVE  /\ page.pc # None => page.pc \in Sessions
         /\ page.timer # None => page.timer \in Sessions
         /\ page.session # None => page.session \in Sessions
<1>1. page.pc \in 0..MaxStarts /\ page.timer \in 0..MaxStarts /\ page.session \in 0..MaxStarts
  BY DEF PageTypes, PageType
<1> QED
  BY <1>1, StartsAssumption DEF Sessions, None

LEMMA FaultType ==
  ASSUME OtherTypes, Fault \/ UNCHANGED faults
  PROVE  faults' \in 0..MaxFaults
<1>1. faults \in 0..MaxFaults
  BY DEF OtherTypes
<1> QED
  BY <1>1, FaultsAssumption DEF Fault

AllTypes == RelayTypes /\ PageTypes /\ OtherTypes

LEMMA FreshSocketType ==
  ASSUME RelayTypes, NEW s \in Sessions, NEW who \in {"customer"} \cup Operators, Free # {},
         sock' = [sock EXCEPT ![Fresh] = Opened(s, who)]
  PROVE  sock' \in [Sockets -> SockType] /\ Fresh \in Sockets /\ Fresh \in 0..MaxSockets
<1>1. Fresh \in Sockets /\ Opened(s, who) \in SockType
  BY FreshIsFree, OpenedIs
<1> QED
  BY <1>1, StartsAssumption DEF RelayTypes, Sockets

\* startSession.
LEMMA StartTypes ==
  ASSUME AllTypes, NEW s \in Sessions,
         StartSession(s) \/ Media(s) \/ SetUp(s) \/ Create(s) \/ FirstSocket(s)
  PROVE  AllTypes'
<1> USE DEF AllTypes
<1>0. s \in 0..MaxStarts
  BY SessionIsNumber
<1>p. page \in PageType
  BY DEF PageTypes
<1>s. start \in [Sessions -> {"none", "media", "setup", "creating", "origin", "over"}]
  BY DEF PageTypes
<1>1. CASE StartSession(s)
  <2>1. page' \in PageType
    BY <1>1, <1>p DEF StartSession, PageType
  <2>2. start' \in [Sessions -> {"none", "media", "setup", "creating", "origin", "over"}]
    BY <1>1, <1>s DEF StartSession
  <2> QED
    BY <1>1, <2>1, <2>2 DEF StartSession, relayVars, RelayTypes, PageTypes, OtherTypes
<1>2. CASE Media(s)
  <2>1. page' \in PageType
    BY <1>2, <1>0, <1>p DEF Media, PageType
  <2>2. start' \in [Sessions -> {"none", "media", "setup", "creating", "origin", "over"}]
    BY <1>2, <1>s DEF Media
  <2> QED
    BY <1>2, <2>1, <2>2 DEF Media, relayVars, RelayTypes, PageTypes, OtherTypes
<1>3. CASE SetUp(s)
  <2>1. page' \in PageType
    BY <1>3, <1>0, <1>p DEF SetUp, PageType
  <2>2. start' \in [Sessions -> {"none", "media", "setup", "creating", "origin", "over"}]
    BY <1>3, <1>s DEF SetUp
  <2> QED
    BY <1>3, <2>1, <2>2 DEF SetUp, relayVars, RelayTypes, PageTypes, OtherTypes
<1>4. CASE Create(s)
  <2>1. page' \in PageType
    BY <1>4, <1>0, <1>p DEF Create, PageType
  <2>2. start' \in [Sessions -> {"none", "media", "setup", "creating", "origin", "over"}]
    BY <1>4, <1>s DEF Create
  <2>3. sess' \in [Sessions -> SessType]
    <3>1. sess' = [sess EXCEPT ![s].created = TRUE, ![s].stored = TRUE] \/ sess' = sess
      BY <1>4 DEF Create, Created
    <3>2. [sess[s] EXCEPT !.created = TRUE, !.stored = TRUE] \in SessType
      BY DEF RelayTypes, SessType
    <3> QED
      BY <3>1, <3>2 DEF RelayTypes
  <2>4. faults' \in 0..MaxFaults
    BY <1>4, FaultType DEF Create
  <2> QED
    BY <1>4, <2>1, <2>2, <2>3, <2>4 DEF Create, RelayTypes, PageTypes, OtherTypes
<1>5. CASE FirstSocket(s)
  <2>1. sock' \in [Sockets -> SockType] /\ Fresh \in 0..MaxSockets
    BY <1>5, FreshSocketType DEF FirstSocket
  <2>2. page' \in PageType
    BY <1>5, <2>1, <1>p DEF FirstSocket, PageType
  <2>3. start' \in [Sessions -> {"none", "media", "setup", "creating", "origin", "over"}]
    BY <1>5, <1>s DEF FirstSocket
  <2> QED
    BY <1>5, <2>1, <2>2, <2>3 DEF FirstSocket, RelayTypes, PageTypes, OtherTypes
<1> QED
  BY <1>1, <1>2, <1>3, <1>4, <1>5

\* The customer's socket.
LEMMA CustomerTypes ==
  ASSUME AllTypes, SocketsBelong,
         \/ \E k \in Sockets : CustomerReceives(k) \/ CustomerClosed(k)
         \/ \E s \in Sessions : CheckDone(s) \/ Reconnect(s)
  PROVE  AllTypes'
<1> USE DEF AllTypes
<1>p. page \in PageType /\ waits \in WaitsType
  BY DEF PageTypes
<1>1. ASSUME NEW k \in Sockets, CustomerReceives(k)
      PROVE  AllTypes'
  <2>1. sock' \in [Sockets -> SockType]
    BY <1>1, SocketReads DEF CustomerReceives, RelayTypes
  <2>2. page' \in {page, [page EXCEPT !.pending = TRUE], [page EXCEPT !.status = "completing"]}
    BY <1>1 DEF CustomerReceives
  <2>3. page' \in PageType
    BY <2>2, <1>p DEF PageType
  <2> QED
    BY <1>1, <2>1, <2>3 DEF CustomerReceives, RelayTypes, PageTypes, OtherTypes
<1>2. ASSUME NEW k \in Sockets, CustomerClosed(k)
      PROVE  AllTypes'
  <2>1. sock' \in [Sockets -> SockType]
    BY <1>2, SocketReads DEF CustomerClosed, RelayTypes
  <2>2. sock[k].of \in Sessions
    BY <1>2 DEF CustomerClosed, SocketsBelong
  <2>3. waits' \in WaitsType
    BY <1>2, <2>2, <1>p DEF CustomerClosed, WaitsType
  <2> QED
    BY <1>2, <2>1, <2>3 DEF CustomerClosed, RelayTypes, PageTypes, OtherTypes
<1>3. ASSUME NEW s \in Sessions, CheckDone(s)
      PROVE  AllTypes'
  <2>0. s \in 0..MaxStarts
    BY SessionIsNumber
  <2>1. page' \in {[page EXCEPT !.status = "idle"], [page EXCEPT !.status = "reconnecting", !.timer = s]}
    BY <1>3 DEF CheckDone
  <2>2. page' \in PageType
    BY <2>0, <2>1, <1>p DEF PageType
  <2>3. waits' \in WaitsType
    <3> DEFINE x == IF page.timer = None THEN waits.stray ELSE waits.stray \cup {page.timer}
    <3>1. x \in SUBSET Sessions
      BY <1>p, SessionNames DEF WaitsType
    <3>2. waits' = [waits EXCEPT !.checks = @ \ {s}] \/ waits' = [waits EXCEPT !.checks = @ \ {s}, !.stray = x]
      BY <1>3 DEF CheckDone
    <3> HIDE DEF x
    <3>3. [waits EXCEPT !.checks = @ \ {s}] \in WaitsType /\ [waits EXCEPT !.checks = @ \ {s}, !.stray = x] \in WaitsType
      BY <3>1, <1>p DEF WaitsType
    <3> QED
      BY <3>2, <3>3
  <2>4. faults' \in 0..MaxFaults
    BY <1>3, FaultType DEF CheckDone
  <2> QED
    BY <1>3, <2>2, <2>3, <2>4 DEF CheckDone, relayVars, RelayTypes, PageTypes, OtherTypes
<1>4. ASSUME NEW s \in Sessions, Reconnect(s)
      PROVE  AllTypes'
  <2>1. sock' \in [Sockets -> SockType] /\ Fresh \in 0..MaxSockets
    BY <1>4, FreshSocketType DEF Reconnect
  <2>2. page' \in {[page EXCEPT !.timer = None, !.ws = Fresh], [page EXCEPT !.ws = Fresh]}
    BY <1>4 DEF Reconnect
  <2>3. page' \in PageType
    <3>1. None \in 0..MaxStarts
      BY StartsAssumption DEF None
    <3> QED
      BY <2>1, <2>2, <3>1, <1>p DEF PageType
  <2>4. waits' \in WaitsType
    BY <1>4, <1>p DEF Reconnect, WaitsType
  <2> QED
    BY <1>4, <2>1, <2>3, <2>4 DEF Reconnect, RelayTypes, PageTypes, OtherTypes
<1> QED
  BY <1>1, <1>2, <1>3, <1>4

\* The clicks.
LEMMA ClickTypes ==
  ASSUME AllTypes,
         \/ Approve \/ Deny \/ Reset \/ Stop \/ EndReaches \/ StopDone
         \/ \E s \in Sessions : EndByOperator(s) \/ \E o \in Operators : ClickJoin(o, s)
         \/ \E a \in waits.approvals : Offer(a)
  PROVE  AllTypes'
<1> USE DEF AllTypes
<1>p. page \in PageType /\ waits \in WaitsType
  BY DEF PageTypes
<1>1. CASE Approve
  <2>1. page' \in PageType
    BY <1>1, <1>p DEF Approve, PageType
  <2>2. waits' \in WaitsType
    <3>1. page.pc # None /\ page.ws # None => <<page.pc, page.ws>> \in Sessions \X Sockets
      BY SessionNames, WsIsSocket
    <3> QED
      BY <1>1, <1>p, <3>1 DEF Approve, WaitsType
  <2> QED
    BY <1>1, <2>1, <2>2 DEF Approve, relayVars, RelayTypes, PageTypes, OtherTypes
<1>2. CASE Deny
  <2>1. page' \in PageType
    BY <1>2, <1>p DEF Deny, PageType
  <2>2. page.ws # None => Sent(page.ws, "join-denied") \in SockType
    BY SocketHelpers, WsIsSocket DEF Kinds
  <2>3. sock' \in [Sockets -> SockType]
    BY <1>2, <2>2 DEF Deny, RelayTypes
  <2> QED
    BY <1>2, <2>1, <2>3 DEF Deny, RelayTypes, PageTypes, OtherTypes
<1>3. CASE Reset
  BY <1>3, TeardownTypes DEF Reset, RelayTypes, PageTypes, OtherTypes
<1>4. CASE Stop
  <2>1. waits' \in WaitsType
    <3>1. page.session \in 0..MaxStarts
      BY <1>p DEF PageType
    <3> QED
      BY <1>4, <1>p, <3>1 DEF Stop, WaitsType
  <2> QED
    BY <1>4, <2>1 DEF Stop, relayVars, RelayTypes, PageTypes, OtherTypes
<1>5. CASE EndReaches
  BY <1>5, EndedTypes DEF EndReaches, pageVars, PageTypes, OtherTypes
<1>6. CASE StopDone
  <2>1. waits' \in WaitsType
    <3>1. None \in 0..MaxStarts
      BY StartsAssumption DEF None
    <3> QED
      BY <1>6, <1>p, <3>1 DEF StopDone, WaitsType
  <2>2. faults' \in 0..MaxFaults
    BY <1>6, FaultType DEF StopDone
  <2> QED
    BY <1>6, <2>1, <2>2, TeardownTypes DEF StopDone, RelayTypes, PageTypes, OtherTypes
<1>7. ASSUME NEW s \in Sessions, EndByOperator(s)
      PROVE  AllTypes'
  BY <1>7, EndedTypes DEF EndByOperator, pageVars, PageTypes, OtherTypes
<1>8. ASSUME NEW s \in Sessions, NEW o \in Operators, ClickJoin(o, s)
      PROVE  AllTypes'
  <2>1. sock' \in [Sockets -> SockType] /\ Fresh \in 0..MaxSockets
    BY <1>8, FreshSocketType DEF ClickJoin
  <2>2. view' \in [Operators -> ViewType]
    BY <1>8, <2>1 DEF ClickJoin, OtherTypes, ViewType
  <2>3. joins' \in 0..MaxJoins
    <3>1. joins \in 0..MaxJoins
      BY DEF OtherTypes
    <3> QED
      BY <1>8, <3>1, StartsAssumption DEF ClickJoin
  <2> QED
    BY <1>8, <2>1, <2>2, <2>3 DEF ClickJoin, pageVars, RelayTypes, PageTypes, OtherTypes
<1>9. ASSUME NEW a \in waits.approvals, Offer(a)
      PROVE  AllTypes'
  <2>1. a \in Sessions \X Sockets
    BY <1>p DEF WaitsType
  <2>2. waits' \in WaitsType
    BY <1>9, <1>p DEF Offer, WaitsType
  <2>3. Sent(a[2], "offer") \in SockType
    BY <2>1, SocketHelpers DEF Kinds
  <2>4. sock' \in [Sockets -> SockType]
    BY <1>9, <2>1, <2>3 DEF Offer, RelayTypes
  <2>5. page' \in PageType
    BY <1>9, <1>p DEF Offer, PageType
  <2>6. faults' \in 0..MaxFaults
    BY <1>9, FaultType DEF Offer
  <2> QED
    BY <1>9, <2>2, <2>4, <2>5, <2>6 DEF Offer, RelayTypes, PageTypes, OtherTypes
<1> QED
  BY <1>1, <1>2, <1>3, <1>4, <1>5, <1>6, <1>7, <1>8, <1>9

LEMMA TypesNext ==
  ASSUME AllTypes, SocketsBelong, Next
  PROVE  AllTypes'
<1> USE DEF AllTypes
<1>1. CASE Backend \/ Time \/ Network
  <2>1. RelayTypes'
    BY <1>1, RelayTypesBackend
  <2>2. PageTypes' /\ OtherTypes'
    <3>1. ASSUME NEW k \in Sockets, Join(k)
          PROVE  PageTypes' /\ OtherTypes'
      <4>1. page' \in PageType
        BY <3>1 DEF Join, PageTypes, PageType
      <4>2. view' \in [Operators -> ViewType]
        BY <3>1 DEF Join, OtherTypes, ViewType
      <4> QED
        BY <3>1, <4>1, <4>2 DEF Join, PageTypes, OtherTypes
    <3>2. ASSUME NEW k \in Sockets, Lookup(k) \/ Replay(k) \/ Relay(k) \/ Leave(k) \/ Arm(k)
          PROVE  PageTypes' /\ OtherTypes'
      BY <3>2 DEF Lookup, Replay, Relay, Leave, Arm, pageVars, PageTypes, OtherTypes
    <3>3. ASSUME NEW k \in Sockets, Drop(k)
          PROVE  PageTypes' /\ OtherTypes'
      BY <3>3, FaultType DEF Drop, pageVars, PageTypes, OtherTypes
    <3>4. ASSUME NEW s \in Sessions, Remove(s) \/ GraceOver(s) \/ Sweep(s)
          PROVE  PageTypes' /\ OtherTypes'
      BY <3>4 DEF Remove, GraceOver, Sweep, pageVars, PageTypes, OtherTypes
    <3> QED
      BY <1>1, <3>1, <3>2, <3>3, <3>4 DEF Backend, Time, Network
  <2> QED
    BY <2>1, <2>2
<1>2. CASE View
  <2>1. PageTypes'
    BY <1>2 DEF View, ViewReceives, Answer, ViewClosed, pageVars, PageTypes
  <2> QED
    BY <1>2, <2>1, RelayTypesView
<1>3. CASE Page
  BY <1>3, StartTypes, CustomerTypes, ClickTypes DEF Page
<1>4. CASE Clicks
  BY <1>4, StartTypes, ClickTypes DEF Clicks
<1>5. CASE Connected \/ Transfer
  BY <1>5 DEF Connected, Transfer, relayVars, pageVars, RelayTypes, PageTypes, OtherTypes
<1> QED
  BY <1>1, <1>2, <1>3, <1>4, <1>5 DEF Next


(* Sessions and calls that have begun stay so, and so does whose a socket is. *)
LEMMA BegunStays ==
  ASSUME AllTypes, Next
  PROVE  \A s \in Sessions : Begun(s) => Begun(s)'
<1>s. start \in [Sessions -> {"none", "media", "setup", "creating", "origin", "over"}]
  BY DEF AllTypes, PageTypes
<1>1. ASSUME NEW s \in Sessions, StartSession(s) \/ Media(s) \/ SetUp(s) \/ Create(s) \/ FirstSocket(s)
      PROVE  \A t \in Sessions : Begun(t) => Begun(t)'
  BY <1>1, <1>s DEF StartSession, Media, SetUp, Create, FirstSocket, Begun
<1>2. CASE UNCHANGED start
  BY <1>2 DEF Begun
<1>3. \/ UNCHANGED start
      \/ \E s \in Sessions : StartSession(s) \/ Media(s) \/ SetUp(s) \/ Create(s) \/ FirstSocket(s)
  <2>1. Backend \/ Time \/ Network \/ View \/ Connected \/ Transfer => UNCHANGED start
    BY DEF Backend, Time, Network, View, Connected, Transfer, pageVars, Lookup, Join, Replay, Relay, Leave, Arm,
       Remove, GraceOver, Sweep, Drop, ViewReceives, Answer, ViewClosed
  <2>2. ASSUME Page
        PROVE  \/ UNCHANGED start
               \/ \E s \in Sessions : StartSession(s) \/ Media(s) \/ SetUp(s) \/ Create(s) \/ FirstSocket(s)
    BY <2>2 DEF Page, CustomerReceives, CustomerClosed, CheckDone, Reconnect, Offer, StopDone
  <2>3. ASSUME Clicks
        PROVE  \/ UNCHANGED start
               \/ \E s \in Sessions : StartSession(s) \/ Media(s) \/ SetUp(s) \/ Create(s) \/ FirstSocket(s)
    BY <2>3 DEF Clicks, Approve, Deny, Reset, Stop, EndReaches, EndByOperator, ClickJoin, pageVars
  <2> QED
    BY <2>1, <2>2, <2>3 DEF Next
<1> QED
  BY <1>1, <1>2, <1>3

QuietSockets == \A k \in Sockets : Same(sock'[k], sock[k])
NewSocket(s) == Free # {} /\ \E who \in {"customer"} \cup Operators : sock' = [sock EXCEPT ![Fresh] = Opened(s, who)]
ServerMoves(k) == sock[k].by # "none" /\ \A j \in Sockets : j = k \/ Same(sock'[j], sock[j])
Moved(k) == sock'[k].of = sock[k].of /\ sock'[k].by = sock[k].by

LEMMA ServerSteps ==
  ASSUME AllTypes, SocketsBelong, NEW k \in Sockets, Lookup(k) \/ Join(k) \/ Leave(k) \/ Arm(k)
  PROVE  Moved(k) /\ ServerMoves(k)
<1>0. sock \in [Sockets -> SockType]
  BY DEF AllTypes, RelayTypes
<1>1. sock[k].by # "none"
  BY DEF Lookup, Join, Leave, Arm, SocketsBelong
<1>2. \A j \in Sockets : j # k => sock'[j] = sock[j]
  BY <1>0 DEF Lookup, Join, Leave, Arm
<1>3. CASE Lookup(k)
  BY <1>0, <1>1, <1>2, <1>3 DEF Lookup, Moved, ServerMoves, Same, SockType
<1>4. CASE Join(k)
  BY <1>0, <1>1, <1>2, <1>4 DEF Join, Moved, ServerMoves, Same, SockType
<1>5. CASE Leave(k)
  BY <1>0, <1>1, <1>2, <1>5 DEF Leave, Moved, ServerMoves, Same, SockType
<1>6. CASE Arm(k)
  BY <1>0, <1>1, <1>2, <1>6 DEF Arm, Moved, ServerMoves, Same, SockType
<1> QED
  BY <1>3, <1>4, <1>5, <1>6

\* What each step does to the sockets, as far as the backend is concerned.
LEMMA SocketSteps ==
  ASSUME AllTypes, SocketsBelong, CallsBelong, Next
  PROVE  \/ QuietSockets
         \/ \E s \in Sessions : NewSocket(s) /\ Begun(s) /\ UNCHANGED sess
         \/ \E k \in Sockets : Moved(k) /\ ServerMoves(k) /\ (Lookup(k) \/ Join(k) \/ Leave(k) \/ Arm(k))
<1> USE DEF AllTypes
<1>0. sock \in [Sockets -> SockType]
  BY DEF RelayTypes
<1>1. ASSUME NEW k \in Sockets, Lookup(k) \/ Join(k) \/ Leave(k) \/ Arm(k)
      PROVE  Moved(k) /\ ServerMoves(k)
  BY <1>1, ServerSteps
<1>2. ASSUME NEW k \in Sockets, Replay(k) \/ Drop(k) \/ CustomerReceives(k) \/ CustomerClosed(k) \/ ViewClosed(k)
      PROVE  QuietSockets
  <2>1. \A m \in Kinds : Told(k, m) \in SockType /\ Same(Told(k, m), sock[k])
    BY SocketHelpers
  <2>2. Replay(k) => sock[k].replay \in Kinds
    BY <1>0 DEF Replay, SockType
  <2>3. CASE Replay(k)
    <3>1. Told(k, sock[k].replay) \in SockType /\ Same(Told(k, sock[k].replay), sock[k])
      BY <2>1, <2>2, <2>3
    <3>2. Same([Told(k, sock[k].replay) EXCEPT !.replay = "none"], sock[k])
      BY <3>1 DEF Same, SockType
    <3> QED
      BY <1>0, <2>3, <3>2 DEF Replay, QuietSockets, Same
  <2>4. CASE ~Replay(k)
    <3>1. /\ Same([sock[k] EXCEPT !.cut = TRUE], sock[k]) /\ Same([sock[k] EXCEPT !.in = Tail(@)], sock[k])
          /\ Same([sock[k] EXCEPT !.client = "closed", !.in = <<>>], sock[k])
      BY <1>0 DEF Same, SockType
    <3>2. \/ sock' = [sock EXCEPT ![k].cut = TRUE] \/ sock' = [sock EXCEPT ![k].in = Tail(@)]
          \/ sock' = [sock EXCEPT ![k].client = "closed", ![k].in = <<>>]
      BY <1>2, <2>4 DEF Drop, CustomerReceives, CustomerClosed, ViewClosed
    <3> QED
      BY <1>0, <3>1, <3>2 DEF QuietSockets, Same
  <2> QED
    BY <2>3, <2>4
<1>3. ASSUME NEW k \in Sockets, Relay(k)
      PROVE  QuietSockets
  <2>1. Head(sock[k].out) \in Kinds
    BY <1>0, <1>3, HeadTailProperties DEF Relay, SockType
  <2>2. \A j \in Sockets : Same(Told(j, Head(sock[k].out)), sock[j])
    BY <2>1, SocketHelpers
  <2>3. Same([sock[k] EXCEPT !.out = Tail(@)], sock[k])
    BY <1>0 DEF Same, SockType
  <2> QED
    BY <1>3, <2>2, <2>3 DEF Relay, QuietSockets, Same
<1>4. ASSUME Teardown
      PROVE  QuietSockets
  BY <1>0, <1>4, SocketHelpers DEF Teardown, QuietSockets, Same
<1>5. ASSUME NEW s, Ended(s)
      PROVE  QuietSockets
  BY <1>0, <1>5 DEF Ended, QuietSockets, Same, SockType
<1>6. ASSUME NEW s \in Sessions, NEW o \in Operators, ClickJoin(o, s)
      PROVE  NewSocket(s) /\ Begun(s) /\ UNCHANGED sess
  BY <1>6 DEF ClickJoin, NewSocket, CallsBelong
<1>7. ASSUME NEW s \in Sessions, FirstSocket(s) \/ Reconnect(s)
      PROVE  NewSocket(s) /\ Begun(s) /\ UNCHANGED sess
  <2>1. s # None
    BY SessionIsNumber
  <2> QED
    BY <1>7, <2>1 DEF FirstSocket, Reconnect, NewSocket, CallsBelong, Begun
<1>8. ASSUME NEW o \in Operators, ViewReceives(o) \/ Answer(o)
      PROVE  QuietSockets
  <2> DEFINE k == view[o].ws
  <2>1. Answer(o) => QuietSockets
    BY <1>0, SocketHelpers DEF Answer, QuietSockets, Same, Kinds
  <2>2. ASSUME ViewReceives(o)
        PROVE  QuietSockets
    <3>1. k \in Sockets
      BY <2>2, StartsAssumption DEF ViewReceives, OtherTypes, ViewType, None, Sockets
    <3>2. sock' = [sock EXCEPT ![k].in = Tail(@)] \/ sock' = [sock EXCEPT ![k] = [Shut(k) EXCEPT !.in = <<>>]]
      BY <2>2 DEF ViewReceives
    <3>3. Shut(k) \in SockType /\ Same(Shut(k), sock[k])
      BY <3>1, SocketHelpers
    <3> HIDE DEF k
    <3>4. Same([Shut(k) EXCEPT !.in = <<>>], sock[k]) /\ Same([sock[k] EXCEPT !.in = Tail(@)], sock[k])
      BY <1>0, <3>1, <3>3 DEF Same, SockType
    <3> QED
      BY <1>0, <3>2, <3>4 DEF QuietSockets, Same
  <2> QED
    BY <1>8, <2>1, <2>2
<1>9. ASSUME NEW a \in waits.approvals, Offer(a)
      PROVE  QuietSockets
  <2>1. a[2] \in Sockets
    BY DEF PageTypes, WaitsType
  <2> QED
    BY <1>0, <1>9, <2>1, SocketHelpers DEF Offer, QuietSockets, Same, Kinds
<1>10. ASSUME Deny
       PROVE  QuietSockets
  BY <1>0, <1>10, SocketHelpers DEF Deny, QuietSockets, Same, Kinds
<1>11. ASSUME UNCHANGED sock
       PROVE  QuietSockets
  BY <1>11 DEF QuietSockets, Same
<1>12. CASE Backend \/ Time \/ Network
  BY <1>1, <1>2, <1>3, <1>11, <1>12 DEF Backend, Time, Network, Remove, GraceOver, Sweep
<1>13. CASE View
  BY <1>2, <1>8, <1>13 DEF View
<1>14. CASE Page
  <2>1. ASSUME NEW s \in Sessions, SetUp(s) \/ Create(s) \/ CheckDone(s)
        PROVE  UNCHANGED sock
    BY <2>1 DEF SetUp, Create, CheckDone, relayVars
  <2> QED
    BY <1>2, <1>4, <1>7, <1>9, <1>11, <1>14, <2>1 DEF Page, StopDone
<1>15. CASE Clicks
  <2>1. ASSUME NEW s \in Sessions, StartSession(s) \/ Media(s)
        PROVE  UNCHANGED sock
    BY <2>1 DEF StartSession, Media, relayVars
  <2>2. Approve \/ Stop => UNCHANGED sock
    BY DEF Approve, Stop, relayVars
  <2> QED
    BY <1>4, <1>5, <1>6, <1>10, <1>11, <1>15, <2>1, <2>2 DEF Clicks, Reset, EndReaches, EndByOperator
<1>16. CASE Connected \/ Transfer
  BY <1>11, <1>16 DEF Connected, Transfer, relayVars
<1> QED
  BY <1>12, <1>13, <1>14, <1>15, <1>16 DEF Next


LEMMA BelongNext ==
  ASSUME AllTypes, SocketsBelong, CallsBelong, Next
  PROVE  SocketsBelong' /\ CallsBelong'
<1> USE DEF AllTypes
<1>b. \A s \in Sessions : Begun(s) => Begun(s)'
  BY BegunStays
<1>1. SocketsBelong'
  <2>1. CASE QuietSockets
    BY <2>1, <1>b DEF QuietSockets, Same, SocketsBelong
  <2>2. ASSUME NEW s \in Sessions, NewSocket(s), Begun(s)
        PROVE  SocketsBelong'
    <3>1. PICK who \in {"customer"} \cup Operators : sock' = [sock EXCEPT ![Fresh] = Opened(s, who)]
      BY <2>2 DEF NewSocket
    <3>2. who # "none" /\ Opened(s, who).of = s /\ Opened(s, who).by = who
      BY OpenedIs, OperatorsAssumption
    <3>3. \A k \in Sockets : sock'[k] = IF k = Fresh THEN Opened(s, who) ELSE sock[k]
      BY <3>1 DEF RelayTypes
    <3> QED
      BY <2>2, <3>2, <3>3, <1>b DEF SocketsBelong
  <2>3. ASSUME NEW k \in Sockets, Moved(k), ServerMoves(k)
        PROVE  SocketsBelong'
    BY <2>3, <1>b DEF SocketsBelong, Moved, ServerMoves, Same
  <2> QED
    BY <2>1, <2>2, <2>3, SocketSteps
<1>2. CallsBelong'
  <2> DEFINE B(x) == start'[x] \in {"origin", "over"}
  <2>b. \A x \in Sessions : Begun(x) => B(x)
    BY <1>b DEF Begun
  <2>w. waits.checks \subseteq Sessions /\ waits.stray \subseteq Sessions
    BY DEF PageTypes, WaitsType
  <2>c. \A x \in waits.checks \cup waits.stray : B(x)
    BY <2>b, <2>w DEF CallsBelong
  <2>t. page.timer # None => B(page.timer)
    BY <2>b, SessionNames DEF CallsBelong
  <2>k. \A k \in Sockets : sock[k].by # "none" => B(sock[k].of)
    BY <2>b DEF SocketsBelong
  <2> HIDE DEF B
  <2>1. ASSUME \A x \in Sessions : sess'[x].created => sess[x].created \/ B(x),
               \A x \in waits'.checks \cup waits'.stray : B(x),
               page'.timer # None => B(page'.timer)
        PROVE  CallsBelong'
    <3>1. \A x \in Sessions : sess'[x].created => B(x)
      BY <2>1, <2>b DEF CallsBelong
    <3> QED
      BY <2>1, <3>1 DEF CallsBelong, Begun, B
  <2>2. ASSUME \A x \in Sessions : sess'[x].created => sess[x].created \/ B(x),
               waits'.checks \subseteq waits.checks, waits'.stray \subseteq waits.stray,
               page'.timer = page.timer \/ page'.timer = None
        PROVE  CallsBelong'
    BY <2>1, <2>2, <2>c, <2>t
  <2>3. ASSUME UNCHANGED sess, waits'.checks \subseteq waits.checks, waits'.stray \subseteq waits.stray,
               page'.timer = page.timer \/ page'.timer = None
        PROVE  CallsBelong'
    BY <2>2, <2>3
  <2>p. page \in PageType /\ waits \in WaitsType /\ sess \in [Sessions -> SessType]
    BY DEF PageTypes, RelayTypes
  <2>4. ASSUME NEW k \in Sockets, Join(k) \/ Relay(k) \/ Leave(k) \/ Arm(k)
        PROVE  CallsBelong'
    <3>1. \A x \in Sessions : sess'[x].created = sess[x].created
      <4> DEFINE y == sock[k].of
                 n == IF sess[y].armed THEN sess[y].stray + 1 ELSE sess[y].stray
      <4>1. \/ sess' = [sess EXCEPT ![y].peers = @ \cup {k}, ![y].armed = FALSE]
            \/ sess' = [sess EXCEPT ![y].last = Head(sock[k].out)]
            \/ sess' = [sess EXCEPT ![y].peers = @ \ {k}]
            \/ sess' = [sess EXCEPT ![y].armed = TRUE, ![y].stray = n]
        BY <2>4 DEF Join, Relay, Leave, Arm
      <4> HIDE DEF y, n
      <4> QED
        BY <4>1, <2>p DEF SessType
    <3>2. page'.timer = page.timer /\ waits' = waits
      BY <2>4, <2>p DEF Join, Relay, Leave, Arm, pageVars, PageType
    <3> QED
      BY <2>2, <3>1, <3>2
  <2>5. ASSUME NEW k \in Sockets, Lookup(k) \/ Replay(k) \/ Drop(k)
        PROVE  CallsBelong'
    BY <2>3, <2>5 DEF Lookup, Replay, Drop, pageVars
  <2>6. ASSUME NEW x \in Sessions, Remove(x) \/ GraceOver(x) \/ Sweep(x) \/ (Ended(x) /\ UNCHANGED pageVars)
        PROVE  CallsBelong'
    <3>1. \A y \in Sessions : sess'[y].created = sess[y].created
      BY <2>6, <2>p DEF Remove, GraceOver, Sweep, Ended, SessType
    <3>2. page' = page /\ waits' = waits
      BY <2>6 DEF Remove, GraceOver, Sweep, pageVars
    <3> QED
      BY <2>2, <3>1, <3>2
  <2>7. ASSUME NEW x \in Sessions, Create(x)
        PROVE  CallsBelong'
    <3>1. B(x) \/ sess' = sess
      BY <2>7 DEF Create, B, AllTypes, PageTypes
    <3>2. \A y \in Sessions : sess'[y].created => sess[y].created \/ B(y)
      BY <2>7, <2>p, <3>1 DEF Create, Created, SessType
    <3>3. page'.timer = page.timer /\ waits' = waits
      BY <2>7, <2>p DEF Create, PageType
    <3> QED
      BY <2>2, <3>2, <3>3
  <2>8. ASSUME NEW x \in Sessions, StartSession(x) \/ Media(x) \/ SetUp(x) \/ FirstSocket(x)
        PROVE  CallsBelong'
    <3>1. page'.timer = page.timer /\ waits' = waits /\ sess' = sess
      BY <2>8, <2>p DEF StartSession, Media, SetUp, FirstSocket, relayVars, PageType
    <3> QED
      BY <2>3, <3>1
  <2>9. ASSUME NEW k \in Sockets, CustomerReceives(k)
        PROVE  CallsBelong'
    <3>1. page' \in {page, [page EXCEPT !.pending = TRUE], [page EXCEPT !.status = "completing"]}
      BY <2>9 DEF CustomerReceives
    <3>2. page'.timer = page.timer /\ waits' = waits /\ sess' = sess
      BY <2>9, <2>p, <3>1 DEF CustomerReceives, PageType
    <3> QED
      BY <2>3, <3>2
  <2>10. ASSUME NEW k \in Sockets, CustomerClosed(k)
         PROVE  CallsBelong'
    <3>1. B(sock[k].of)
      BY <2>10, <2>k, OperatorsAssumption DEF CustomerClosed
    <3>2. waits'.checks \subseteq waits.checks \cup {sock[k].of} /\ waits'.stray = waits.stray
      BY <2>10, <2>p DEF CustomerClosed, WaitsType
    <3>3. page' = page /\ sess' = sess
      BY <2>10 DEF CustomerClosed
    <3> QED
      BY <2>1, <2>c, <2>t, <3>1, <3>2, <3>3
  <2>11. ASSUME NEW x \in Sessions, CheckDone(x)
         PROVE  CallsBelong'
    <3>1. B(x)
      BY <2>11, <2>c DEF CheckDone
    <3> DEFINE z == IF page.timer = None THEN waits.stray ELSE waits.stray \cup {page.timer}
    <3>2. waits' = [waits EXCEPT !.checks = @ \ {x}] \/ waits' = [waits EXCEPT !.checks = @ \ {x}, !.stray = z]
      BY <2>11 DEF CheckDone
    <3>3. \A y \in z : B(y)
      BY <2>c, <2>t
    <3>4. waits.stray \subseteq z
      OBVIOUS
    <3> HIDE DEF z
    <3>5. waits'.checks \subseteq waits.checks /\ waits'.stray \subseteq z
      BY <2>p, <3>2, <3>4 DEF WaitsType
    <3>6. page' \in {[page EXCEPT !.status = "idle"], [page EXCEPT !.status = "reconnecting", !.timer = x]}
      BY <2>11 DEF CheckDone
    <3>7. page'.timer = page.timer \/ page'.timer = x
      BY <3>6, <2>p DEF PageType
    <3>8. sess' = sess
      BY <2>11 DEF CheckDone, relayVars
    <3> QED
      BY <2>1, <2>c, <2>t, <3>1, <3>3, <3>5, <3>7, <3>8
  <2>12. ASSUME NEW x \in Sessions, Reconnect(x)
         PROVE  CallsBelong'
    <3>1. waits'.checks = waits.checks /\ waits'.stray \subseteq waits.stray
      BY <2>12, <2>p DEF Reconnect, WaitsType
    <3>2. page'.timer = page.timer \/ page'.timer = None
      BY <2>12, <2>p DEF Reconnect, PageType
    <3>3. sess' = sess
      BY <2>12 DEF Reconnect
    <3> QED
      BY <2>3, <3>1, <3>2, <3>3
  <2>13. ASSUME Teardown
         PROVE  page'.timer = None
    BY <2>13 DEF Teardown, Blank
  <2>14. ASSUME Approve \/ Deny \/ Reset \/ Stop \/ StopDone \/ \E a \in waits.approvals : Offer(a)
         PROVE  CallsBelong'
    <3>1. waits'.checks = waits.checks /\ waits'.stray = waits.stray
      BY <2>14, <2>p DEF Approve, Deny, Reset, Stop, StopDone, Offer, WaitsType
    <3>2. page'.timer = page.timer \/ page'.timer = None
      BY <2>13, <2>14, <2>p DEF Approve, Deny, Reset, Stop, StopDone, Offer, PageType
    <3>3. sess' = sess
      BY <2>14 DEF Approve, Deny, Reset, Stop, StopDone, Offer, relayVars
    <3> QED
      BY <2>3, <3>1, <3>2, <3>3
  <2>15. ASSUME View \/ Connected \/ Transfer \/ \E x \in Sessions, o \in Operators : ClickJoin(o, x)
         PROVE  CallsBelong'
    <3>1. sess' = sess /\ page' = page /\ waits' = waits
      BY <2>15 DEF View, ViewReceives, Answer, ViewClosed, Connected, Transfer, ClickJoin, relayVars, pageVars
    <3> QED
      BY <2>3, <3>1
  <2>16. CASE Backend \/ Time \/ Network
    BY <2>4, <2>5, <2>6, <2>16 DEF Backend, Time, Network
  <2>17. CASE Page
    BY <2>7, <2>8, <2>9, <2>10, <2>11, <2>12, <2>14, <2>17 DEF Page
  <2>18. CASE Clicks
    <3>1. EndReaches => \E x \in Sessions : Ended(x) /\ UNCHANGED pageVars
      <4>1. waits.stopping # None => waits.stopping \in Sessions
        BY <2>p, StartsAssumption DEF WaitsType, Sessions, None
      <4> QED
        BY <4>1 DEF EndReaches
    <3>2. \A x \in Sessions : EndByOperator(x) => Ended(x) /\ UNCHANGED pageVars
      BY DEF EndByOperator
    <3> QED
      BY <2>6, <2>8, <2>14, <2>15, <2>18, <3>1, <3>2 DEF Clicks
  <2> QED
    BY <2>15, <2>16, <2>17, <2>18 DEF Next
<1> QED
  BY <1>1, <1>2


-----------------------------------------------------------------------------
(* Timers are bounded by the sockets that are gone, and a session that was  *)
(* left is on its way out.                                                 *)

LEMMA CountOfSockets ==
  ASSUME NEW G \in SUBSET Sockets
  PROVE  IsFiniteSet(G) /\ Cardinality(G) \in Nat /\ Cardinality(G) <= MaxSockets
<1>1. IsFiniteSet(Sockets) /\ Cardinality(Sockets) = MaxSockets
  BY StartsAssumption, FS_Interval DEF Sockets
<1> QED
  BY <1>1, FS_Subset, FS_CardinalityType

LEMMA TimersAreNumbers ==
  ASSUME RelayTypes, NEW s \in Sessions
  PROVE  /\ Timers(s) \in Nat /\ sess[s].stray \in Nat /\ sess[s].removing \in Nat /\ sess[s].armed \in BOOLEAN
         /\ sess[s].stray <= Timers(s) /\ sess[s].removing <= Timers(s)
<1>1. sess[s].stray \in Nat /\ sess[s].removing \in Nat /\ sess[s].armed \in BOOLEAN
  BY DEF RelayTypes, SessType
<1> QED
  BY <1>1 DEF Timers

LEMMA TimersAreNumbersNext ==
  ASSUME RelayTypes', NEW s \in Sessions
  PROVE  Timers(s)' \in Nat
  BY DEF RelayTypes, SessType, Timers

\* Nothing is armed, and whoever has gone has gone.
LEMMA TimersKept ==
  ASSUME RelayTypes, RelayTypes', TimersBounded,
         \A s \in Sessions : Timers(s)' <= Timers(s) /\ GoneFrom(s) \subseteq GoneFrom(s)'
  PROVE  TimersBounded'
<1> SUFFICES ASSUME NEW s \in Sessions PROVE Timers(s)' <= Cardinality(GoneFrom(s)')
  BY DEF TimersBounded
<1>1. GoneFrom(s) \in SUBSET Sockets /\ GoneFrom(s)' \in SUBSET Sockets
  BY DEF GoneFrom
<1>2. Cardinality(GoneFrom(s)) <= Cardinality(GoneFrom(s)')
  BY <1>1, CountOfSockets, FS_Subset
<1>3. Cardinality(GoneFrom(s)) \in Nat /\ Cardinality(GoneFrom(s)') \in Nat
  BY <1>1, CountOfSockets
<1>4. Timers(s) \in Nat /\ Timers(s)' \in Nat
  BY TimersAreNumbers, TimersAreNumbersNext
<1>5. Timers(s)' <= Timers(s) /\ Timers(s) <= Cardinality(GoneFrom(s))
  BY DEF TimersBounded
<1> QED
  BY <1>2, <1>3, <1>4, <1>5

(* A session is on its way out. *)
Leaves(s) == sess[s].armed \/ sess[s].removing > 0
Idle(s) == sess[s].stored /\ sess[s].peers = {}

\* The sockets stay what they are to the backend.
LEMMA WhileQuiet ==
  ASSUME RelayTypes, RelayTypes', TimersBounded, SessionsAreReclaimed, QuietSockets,
         \A s \in Sessions : /\ Timers(s)' <= Timers(s)
                             /\ Idle(s)' => Idle(s) /\ (Leaves(s) => Leaves(s)')
  PROVE  TimersBounded' /\ SessionsAreReclaimed'
<1>1. \A s \in Sessions : GoneFrom(s)' = GoneFrom(s)
  BY DEF GoneFrom, QuietSockets, Same
<1>2. TimersBounded'
  BY <1>1, TimersKept
<1>3. SessionsAreReclaimed'
  <2> SUFFICES ASSUME NEW s \in Sessions, Idle(s)', NEW k \in Sockets, sock'[k].of = s, sock'[k].server = "gone"
               PROVE  Leaves(s)' \/ \E j \in Sockets : sock'[j].of = s /\ sock'[j].server = "leaving"
    BY DEF SessionsAreReclaimed, Idle, Leaves
  <2>1. Leaves(s) \/ \E j \in Sockets : sock[j].of = s /\ sock[j].server = "leaving"
    BY DEF SessionsAreReclaimed, Idle, Leaves, QuietSockets, Same
  <2> QED
    BY <2>1 DEF QuietSockets, Same
<1> QED
  BY <1>2, <1>3

\* A socket is opened: it was nobody's.
LEMMA WhileOpening ==
  ASSUME RelayTypes, RelayTypes', SocketsBelong, TimersBounded, SessionsAreReclaimed,
         NEW s \in Sessions, NewSocket(s), UNCHANGED sess
  PROVE  TimersBounded' /\ SessionsAreReclaimed'
<1>1. PICK who \in {"customer"} \cup Operators : sock' = [sock EXCEPT ![Fresh] = Opened(s, who)]
  BY DEF NewSocket
<1>2. /\ Fresh \in Sockets /\ sock[Fresh].server = "none" /\ Opened(s, who).server = "none"
  BY OpenedIs, FreshIsFree DEF NewSocket, SocketsBelong
<1>3. \A k \in Sockets : sock'[k] = IF k = Fresh THEN Opened(s, who) ELSE sock[k]
  BY <1>1 DEF RelayTypes
<1>5. \A r \in Sessions : GoneFrom(r) \subseteq GoneFrom(r)'
  BY <1>2, <1>3 DEF GoneFrom
<1>6. \A r \in Sessions : Timers(r)' = Timers(r) /\ Timers(r) \in Nat
  BY TimersAreNumbers DEF Timers
<1>7. TimersBounded'
  BY <1>5, <1>6, TimersKept
<1>8. SessionsAreReclaimed'
  BY <1>2, <1>3 DEF SessionsAreReclaimed
<1> QED
  BY <1>7, <1>8


LEMMA LookupReclaims ==
  ASSUME RelayTypes, RelayTypes', TimersBounded, SessionsAreReclaimed,
         NEW k \in Sockets, Lookup(k), Moved(k), ServerMoves(k)
  PROVE  TimersBounded' /\ SessionsAreReclaimed'
<1>1. /\ sess' = sess /\ sock[k].server = "none"
      /\ \A j \in Sockets : j # k => Same(sock'[j], sock[j])
      /\ sock'[k].server = "gone" => ~sess[sock[k].of].stored
      /\ sock'[k].of = sock[k].of /\ sock'[k].server \in {"found", "gone"}
  <2>1. sock'[k].server = IF sess[sock[k].of].stored THEN "found" ELSE "gone"
    BY DEF Lookup, RelayTypes, SockType
  <2> QED
    BY <2>1 DEF Lookup, Moved, ServerMoves
<1>2. \A r \in Sessions : GoneFrom(r) \subseteq GoneFrom(r)'
  BY <1>1 DEF GoneFrom, Same
<1>3. \A r \in Sessions : Timers(r)' = Timers(r) /\ Timers(r) \in Nat
  BY <1>1, TimersAreNumbers DEF Timers
<1>4. TimersBounded'
  BY <1>2, <1>3, TimersKept
<1>5. SessionsAreReclaimed'
  BY <1>1 DEF SessionsAreReclaimed, Same
<1> QED
  BY <1>4, <1>5

LEMMA JoinReclaims ==
  ASSUME RelayTypes, RelayTypes', TimersBounded, SessionsAreReclaimed,
         NEW k \in Sockets, sock[k].of \in Sessions, Join(k), Moved(k), ServerMoves(k)
  PROVE  TimersBounded' /\ SessionsAreReclaimed'
<1> DEFINE s == sock[k].of
<1>1. /\ sock[k].server = "found" /\ sock'[k].server = "peer" /\ sock'[k].of = s
      /\ \A j \in Sockets : j # k => Same(sock'[j], sock[j])
  BY DEF Join, Moved, ServerMoves, RelayTypes, SockType
<1>2. /\ \A r \in Sessions : r # s => sess'[r] = sess[r]
      /\ sess'[s].peers # {} /\ sess'[s].armed = FALSE
      /\ sess'[s].stray = sess[s].stray /\ sess'[s].removing = sess[s].removing
  <2>1. sess' = [sess EXCEPT ![s].peers = @ \cup {k}, ![s].armed = FALSE]
    BY DEF Join
  <2> HIDE DEF s
  <2>2. s \in Sessions
    BY DEF s
  <2> QED
    BY <2>1, <2>2 DEF RelayTypes, SessType
<1>3. \A r \in Sessions : GoneFrom(r) \subseteq GoneFrom(r)'
  BY <1>1 DEF GoneFrom, Same
<1>4. \A r \in Sessions : Timers(r)' <= Timers(r)
  <2> TAKE r \in Sessions
  <2>1. Timers(r) \in Nat /\ Timers(r)' \in Nat
    BY TimersAreNumbers, TimersAreNumbersNext
  <2>2. CASE r = s
    BY <2>2, <1>2, TimersAreNumbers DEF Timers
  <2>3. CASE r # s
    BY <2>1, <2>3, <1>2 DEF Timers
  <2> QED
    BY <2>2, <2>3
<1>5. TimersBounded'
  BY <1>3, <1>4, TimersKept
<1>6. SessionsAreReclaimed'
  BY <1>1, <1>2 DEF SessionsAreReclaimed, Same
<1> QED
  BY <1>5, <1>6

LEMMA LeaveReclaims ==
  ASSUME RelayTypes, RelayTypes', TimersBounded, SessionsAreReclaimed,
         NEW k \in Sockets, sock[k].of \in Sessions, Leave(k), Moved(k), ServerMoves(k)
  PROVE  TimersBounded' /\ SessionsAreReclaimed'
<1> DEFINE s == sock[k].of
<1>1. /\ sock[k].server = "peer" /\ sock'[k].of = s
      /\ sock'[k].server = IF sess[s].peers \ {k} = {} THEN "leaving" ELSE "gone"
      /\ \A j \in Sockets : j # k => Same(sock'[j], sock[j])
  <2> DEFINE v == IF sess[s].peers \ {k} = {} THEN "leaving" ELSE "gone"
  <2>1. sock' = [sock EXCEPT ![k].server = v, ![k].out = <<>>]
    BY DEF Leave
  <2>2. sock[k].server = "peer"
    BY DEF Leave
  <2> HIDE DEF v
  <2>3. sock'[k].server = v
    BY <2>1 DEF RelayTypes, SockType
  <2> QED
    BY <2>2, <2>3 DEF Moved, ServerMoves, v
<1>2. /\ \A r \in Sessions : r # s => sess'[r] = sess[r]
      /\ sess'[s].peers = sess[s].peers \ {k} /\ sess'[s].armed = sess[s].armed
      /\ sess'[s].stray = sess[s].stray /\ sess'[s].removing = sess[s].removing
  <2>1. sess' = [sess EXCEPT ![s].peers = @ \ {k}]
    BY DEF Leave
  <2> HIDE DEF s
  <2>2. s \in Sessions
    BY DEF s
  <2> QED
    BY <2>1, <2>2 DEF RelayTypes, SessType
<1>3. \A r \in Sessions : GoneFrom(r) \subseteq GoneFrom(r)'
  BY <1>1 DEF GoneFrom, Same
<1>4. \A r \in Sessions : Timers(r)' = Timers(r) /\ Timers(r) \in Nat
  BY <1>2, TimersAreNumbers DEF Timers
<1>5. TimersBounded'
  BY <1>3, <1>4, TimersKept
<1>6. SessionsAreReclaimed'
  BY <1>1, <1>2 DEF SessionsAreReclaimed, Same
<1> QED
  BY <1>5, <1>6

\* One socket more has gone, and one timer more may run.
LEMMA ArmReclaims ==
  ASSUME RelayTypes, RelayTypes', TimersBounded, SessionsAreReclaimed,
         NEW k \in Sockets, sock[k].of \in Sessions, Arm(k), Moved(k), ServerMoves(k)
  PROVE  TimersBounded' /\ SessionsAreReclaimed'
<1> DEFINE s == sock[k].of
           n == IF sess[s].armed THEN sess[s].stray + 1 ELSE sess[s].stray
<1>1. /\ sock[k].server = "leaving" /\ sock'[k].of = s /\ sock'[k].server = "gone"
      /\ \A j \in Sockets : j # k => Same(sock'[j], sock[j])
  BY DEF Arm, Moved, ServerMoves, RelayTypes, SockType
<1>2. /\ \A r \in Sessions : r # s => sess'[r] = sess[r]
      /\ sess'[s].armed = TRUE /\ sess'[s].stray = n /\ sess'[s].removing = sess[s].removing
  <2>1. sess' = [sess EXCEPT ![s].armed = TRUE, ![s].stray = n]
    BY DEF Arm
  <2>2. s \in Sessions
    OBVIOUS
  <2> HIDE DEF s, n
  <2> QED
    BY <2>1, <2>2 DEF RelayTypes, SessType
<1>3. ASSUME NEW r \in Sessions
      PROVE  Timers(r)' <= Cardinality(GoneFrom(r)')
  <2>1. GoneFrom(r) \in SUBSET Sockets /\ IsFiniteSet(GoneFrom(r)) /\ Cardinality(GoneFrom(r)) \in Nat
    BY CountOfSockets DEF GoneFrom
  <2>2. Timers(r) \in Nat /\ Timers(r) <= Cardinality(GoneFrom(r))
    BY TimersAreNumbers DEF TimersBounded
  <2>3. CASE r = s
    <3>1. GoneFrom(r)' = GoneFrom(r) \cup {k} /\ k \notin GoneFrom(r)
      BY <1>1, <2>3 DEF GoneFrom, Same
    <3>2. Cardinality(GoneFrom(r)') = Cardinality(GoneFrom(r)) + 1
      BY <2>1, <3>1, FS_AddElement
    <3>3. Timers(r)' = Timers(r) + 1
      BY <1>2, <2>3, TimersAreNumbers DEF Timers
    <3> QED
      BY <2>1, <2>2, <3>2, <3>3
  <2>4. CASE r # s
    <3>1. GoneFrom(r)' = GoneFrom(r)
      BY <1>1, <2>4 DEF GoneFrom, Same
    <3>2. Timers(r)' = Timers(r)
      BY <1>2, <2>4 DEF Timers
    <3> QED
      BY <2>2, <3>1, <3>2
  <2> QED
    BY <2>3, <2>4
<1>4. SessionsAreReclaimed'
  BY <1>1, <1>2 DEF SessionsAreReclaimed, Same
<1> QED
  BY <1>3, <1>4 DEF TimersBounded


LEMMA ReclaimNext ==
  ASSUME AllTypes, AllTypes', SocketsBelong, CallsBelong, TimersBounded, SessionsAreReclaimed, Next
  PROVE  TimersBounded' /\ SessionsAreReclaimed'
<1> USE DEF AllTypes
<1>w. waits.stopping # None => waits.stopping \in Sessions
  <2>1. waits.stopping \in 0..MaxStarts
    BY DEF PageTypes, WaitsType
  <2> QED
    BY <2>1, StartsAssumption DEF Sessions, None
<1>1. ASSUME NEW k \in Sockets, Moved(k), ServerMoves(k), Lookup(k) \/ Join(k) \/ Leave(k) \/ Arm(k)
      PROVE  TimersBounded' /\ SessionsAreReclaimed'
  <2>1. sock[k].of \in Sessions
    BY <1>1 DEF SocketsBelong, ServerMoves
  <2> QED
    BY <1>1, <2>1, LookupReclaims, JoinReclaims, LeaveReclaims, ArmReclaims
<1>2. ASSUME QuietSockets, UNCHANGED sess
      PROVE  TimersBounded' /\ SessionsAreReclaimed'
  <2>1. \A s \in Sessions : /\ Timers(s)' <= Timers(s)
                            /\ Idle(s)' => Idle(s) /\ (Leaves(s) => Leaves(s)')
    BY <1>2, TimersAreNumbers DEF Timers, Idle, Leaves
  <2> QED
    BY <1>2, <2>1, WhileQuiet
<1>3. ASSUME QuietSockets, NEW s \in Sessions, \A r \in Sessions : r # s => sess'[r] = sess[r],
             /\ Timers(s)' <= Timers(s)
             /\ Idle(s)' => Idle(s) /\ (Leaves(s) => Leaves(s)')
      PROVE  TimersBounded' /\ SessionsAreReclaimed'
  <2>1. \A r \in Sessions : /\ Timers(r)' <= Timers(r)
                            /\ Idle(r)' => Idle(r) /\ (Leaves(r) => Leaves(r)')
    BY <1>3, TimersAreNumbers DEF Timers, Idle, Leaves
  <2> QED
    BY <1>3, <2>1, WhileQuiet
<1>4. ASSUME QuietSockets, NEW k \in Sockets, Relay(k)
      PROVE  TimersBounded' /\ SessionsAreReclaimed'
  <2>1. \A s \in Sessions : /\ sess'[s].stored = sess[s].stored /\ sess'[s].peers = sess[s].peers
                            /\ sess'[s].armed = sess[s].armed /\ sess'[s].stray = sess[s].stray
                            /\ sess'[s].removing = sess[s].removing
    BY <1>4 DEF Relay, RelayTypes, SessType
  <2>2. \A s \in Sessions : /\ Timers(s)' <= Timers(s)
                            /\ Idle(s)' => Idle(s) /\ (Leaves(s) => Leaves(s)')
    BY <2>1, TimersAreNumbers DEF Timers, Idle, Leaves
  <2> QED
    BY <1>4, <2>2, WhileQuiet
<1>5. ASSUME QuietSockets, NEW s \in Sessions, Remove(s) \/ Sweep(s) \/ Ended(s)
      PROVE  TimersBounded' /\ SessionsAreReclaimed'
  <2>1. /\ \A r \in Sessions : r # s => sess'[r] = sess[r]
        /\ ~sess'[s].stored
        /\ sess'[s].stray = sess[s].stray
        /\ \/ sess'[s].armed = FALSE /\ sess'[s].removing = sess[s].removing
           \/ sess'[s].armed = sess[s].armed /\ sess'[s].removing \in {sess[s].removing, sess[s].removing - 1}
    BY <1>5 DEF Remove, Sweep, Ended, RelayTypes, SessType
  <2>2. Timers(s)' <= Timers(s) /\ ~Idle(s)'
    BY <2>1, TimersAreNumbers DEF Timers, Idle
  <2> QED
    BY <1>3, <1>5, <2>1, <2>2
<1>6. ASSUME QuietSockets, NEW s \in Sessions, GraceOver(s)
      PROVE  TimersBounded' /\ SessionsAreReclaimed'
  <2> DEFINE n == IF sess[s].peers = {} THEN sess[s].removing + 1 ELSE sess[s].removing
  <2>1. \/ sess[s].armed /\ sess' = [sess EXCEPT ![s].armed = FALSE, ![s].removing = n]
        \/ sess[s].stray > 0 /\ sess' = [sess EXCEPT ![s].stray = @ - 1, ![s].removing = n]
    BY <1>6 DEF GraceOver
  <2> HIDE DEF n
  <2>2. /\ \A r \in Sessions : r # s => sess'[r] = sess[r]
        /\ sess'[s].stored = sess[s].stored /\ sess'[s].peers = sess[s].peers
        /\ sess'[s].removing = n
        /\ \/ sess[s].armed /\ sess'[s].armed = FALSE /\ sess'[s].stray = sess[s].stray
           \/ sess'[s].armed = sess[s].armed /\ sess'[s].stray = sess[s].stray - 1
    BY <2>1 DEF RelayTypes, SessType
  <2>3. n \in Nat /\ n <= sess[s].removing + 1 /\ (sess[s].peers = {} => n > 0)
    BY TimersAreNumbers DEF n
  <2>4. Timers(s)' <= Timers(s)
    BY <2>2, <2>3, TimersAreNumbers DEF Timers
  <2>5. Idle(s)' => Idle(s) /\ Leaves(s)'
    BY <2>2, <2>3 DEF Idle, Leaves
  <2> QED
    BY <1>3, <1>6, <2>2, <2>4, <2>5
<1>7. ASSUME QuietSockets, NEW s \in Sessions, Create(s)
      PROVE  TimersBounded' /\ SessionsAreReclaimed'
  <2>1. ~Begun(s) /\ s # None
    BY <1>7, SessionIsNumber DEF Create, Begun
  <2>2. \A k \in Sockets : sock[k].of # s
    BY <2>1 DEF SocketsBelong
  <2>3. sess' = [sess EXCEPT ![s].created = TRUE, ![s].stored = TRUE] \/ sess' = sess
    BY <1>7 DEF Create, Created
  <2>4. /\ \A r \in Sessions : r # s => sess'[r] = sess[r]
        /\ sess'[s].armed = sess[s].armed /\ sess'[s].stray = sess[s].stray /\ sess'[s].removing = sess[s].removing
    BY <2>3 DEF RelayTypes, SessType
  <2>5. \A r \in Sessions : GoneFrom(r) = GoneFrom(r)' /\ Timers(r)' = Timers(r) /\ Timers(r) \in Nat
    BY <1>7, <2>4, TimersAreNumbers DEF Create, GoneFrom, Timers
  <2>6. TimersBounded'
    BY <2>5, TimersKept
  <2>7. SessionsAreReclaimed'
    BY <1>7, <2>2, <2>4 DEF Create, SessionsAreReclaimed
  <2> QED
    BY <2>6, <2>7
<1>8. \/ UNCHANGED sess
      \/ \E k \in Sockets : Relay(k) \/ Join(k) \/ Leave(k) \/ Arm(k)
      \/ \E s \in Sessions : Remove(s) \/ Sweep(s) \/ Ended(s) \/ GraceOver(s) \/ Create(s)
  <2>1. CASE Backend \/ Time \/ Network
    BY <2>1 DEF Backend, Time, Network, Lookup, Replay, Drop
  <2>2. CASE Page
    BY <2>2 DEF Page, CustomerReceives, CustomerClosed, SetUp, FirstSocket, CheckDone, Reconnect, Offer, StopDone, relayVars
  <2>3. CASE Clicks
    BY <1>w, <2>3 DEF Clicks, Approve, Deny, Reset, Stop, EndReaches, StartSession, Media, EndByOperator, ClickJoin, relayVars
  <2>4. CASE View \/ Connected \/ Transfer
    BY <2>4 DEF View, ViewReceives, Answer, ViewClosed, Connected, Transfer, relayVars
  <2> QED
    BY <2>1, <2>2, <2>3, <2>4 DEF Next
<1>9. ASSUME NEW k \in Sockets, Lookup(k) \/ Join(k) \/ Leave(k) \/ Arm(k)
      PROVE  TimersBounded' /\ SessionsAreReclaimed'
  BY <1>1, <1>9, ServerSteps
<1>10. ASSUME NEW s \in Sessions, NewSocket(s), UNCHANGED sess
       PROVE  TimersBounded' /\ SessionsAreReclaimed'
  BY <1>10, WhileOpening
<1> QED
  BY <1>2, <1>4, <1>5, <1>6, <1>7, <1>8, <1>9, <1>10, SocketSteps

(* All of it together. *)
LEMMA SessionHoldsInit == Init => SessionHolds
<1> SUFFICES ASSUME Init PROVE SessionHolds
  OBVIOUS
<1>0. None \in 0..MaxStarts /\ None \in 0..MaxSockets /\ 0 \in 0..MaxJoins /\ 0 \in 0..MaxFaults /\ <<>> \in Seq(Kinds)
  BY StartsAssumption, FaultsAssumption DEF None
<1>1. sess \in [Sessions -> SessType]
  BY DEF Init, NoSession, SessType
<1>2. NoSocket \in SockType
  BY <1>0 DEF NoSocket, SockType
<1>3. Blank \in PageType
  BY <1>0 DEF Blank, PageType
<1>4. [checks |-> {}, stray |-> {}, approvals |-> {}, stopping |-> None] \in WaitsType
  BY <1>0 DEF WaitsType
<1>5. NoView \in ViewType
  BY <1>0 DEF NoView, ViewType
<1>6. RelayTypes /\ PageTypes /\ OtherTypes
  BY <1>0, <1>1, <1>2, <1>3, <1>4, <1>5 DEF Init, RelayTypes, PageTypes, OtherTypes
<1>7. SocketsBelong /\ CallsBelong
  BY DEF Init, SocketsBelong, CallsBelong, NoSocket, NoSession, Blank
<1>8. \A k \in Sockets : sock[k].server = "none"
  BY DEF Init, NoSocket
<1>9. SessionsAreReclaimed
  BY <1>8 DEF SessionsAreReclaimed
<1>10. TimersBounded
  <2> SUFFICES ASSUME NEW s \in Sessions PROVE Timers(s) <= Cardinality(GoneFrom(s))
    BY DEF TimersBounded
  <2>1. Timers(s) = 0
    BY DEF Init, NoSession, Timers
  <2>2. Cardinality(GoneFrom(s)) \in Nat
    BY CountOfSockets DEF GoneFrom
  <2> QED
    BY <2>1, <2>2
<1> QED
  BY <1>6, <1>7, <1>9, <1>10 DEF SessionHolds

LEMMA SessionHoldsNext ==
  ASSUME SessionHolds, [Next]_vars
  PROVE  SessionHolds'
<1>1. CASE UNCHANGED vars
  BY <1>1 DEF vars, relayVars, pageVars, SessionHolds, RelayTypes, PageTypes, OtherTypes, SocketsBelong, CallsBelong,
     Begun, TimersBounded, Timers, GoneFrom, SessionsAreReclaimed
<1>2. CASE Next
  <2>1. AllTypes'
    BY <1>2, TypesNext DEF SessionHolds, AllTypes
  <2>2. SocketsBelong' /\ CallsBelong'
    BY <1>2, BelongNext DEF SessionHolds, AllTypes
  <2>3. TimersBounded' /\ SessionsAreReclaimed'
    BY <1>2, <2>1, ReclaimNext DEF SessionHolds, AllTypes
  <2> QED
    BY <2>1, <2>2, <2>3 DEF SessionHolds, AllTypes
<1> QED
  BY <1>1, <1>2

LEMMA SessionHoldsAlways == Spec => []SessionHolds
  BY SessionHoldsInit, SessionHoldsNext, PTL DEF Spec

\* Every variable stays within its type; in particular a session never has more timers and
\* removals under way than sockets have gone from it, which bounds what scheduleRemoval leaves.
THEOREM RemoteSessionTypes == Spec => []TypeOK
<1>1. FilesHold /\ SessionHolds => TypeOK
  <2> SUFFICES ASSUME FilesHold, SessionHolds PROVE TypeOK
    OBVIOUS
  <2>1. \A s \in Sessions : sess[s].stray \in 0..MaxSockets /\ sess[s].removing \in 0..MaxSockets
    <3> TAKE s \in Sessions
    <3>1. Timers(s) <= Cardinality(GoneFrom(s)) /\ Cardinality(GoneFrom(s)) \in Nat /\ Cardinality(GoneFrom(s)) <= MaxSockets
      BY CountOfSockets DEF SessionHolds, TimersBounded, GoneFrom
    <3> QED
      BY <3>1, TimersAreNumbers, StartsAssumption DEF SessionHolds
  <2>2. sess \in [Sessions -> [created : BOOLEAN, stored : BOOLEAN, peers : SUBSET Sockets,
                               last : Kinds \cup {"none"}, armed : BOOLEAN, stray : 0..MaxSockets,
                               removing : 0..MaxSockets]]
    BY <2>1 DEF SessionHolds, RelayTypes, SessType
  <2> QED
    BY <2>2 DEF TypeOK, FilesHold, SessionHolds, RelayTypes, PageTypes, OtherTypes, SockType, PageType, WaitsType, ViewType
<1> QED
  BY <1>1, SessionsFilesHold, SessionHoldsAlways, PTL

\* A session every peer has left is on its way out of the store, and a file the sender
\* counts as sent was received or still is, whatever the order of leaves, joins, timers,
\* answers and offers.
THEOREM NothingIsLeftBehind == Spec => []NothingLeftBehind
<1>1. FilesHold /\ SessionHolds => NothingLeftBehind
  BY DEF FilesHold, SessionHolds, NothingLeftBehind
<1> QED
  BY <1>1, SessionsFilesHold, SessionHoldsAlways, PTL
=============================================================================
