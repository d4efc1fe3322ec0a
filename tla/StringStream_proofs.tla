------------------------ MODULE StringStream_proofs -------------------------
(***************************************************************************)
(* The stream delivers the whole text or nothing, for every number of      *)
(* chunks: it implements StringDelivery.                                   *)
(***************************************************************************)
EXTENDS StringStream, TLAPS

(* The receiver holds an initial part of the text. *)
BuilderIsPrefix == builder = [i \in 1 .. latestIndex + 1 |-> i - 1]

(***************************************************************************)
(* A sender at work is at the chunk after those that were acknowledged,    *)
(* and the receiver has those.                                             *)
(***************************************************************************)
SenderInStep ==
  /\ recipient => currentIndex = NumChunks - remainingChunks
  /\ recipient => currentIndex <= latestIndex + 1
  /\ ~recipient => currentIndex = -1 /\ remainingChunks = NumChunks

(* No chunk under way is more than one ahead of what the receiver has. *)
ChunksInStep ==
  \A k \in 1 .. Len(toReceiver) :
    /\ toReceiver[k].kind = "StringChunk" => toReceiver[k].index <= latestIndex + 1
    /\ toReceiver[k].kind = "Complete" => latestIndex = NumChunks - 1

(* An Ack of a chunk under way is of a chunk the receiver has. *)
AcksInStep ==
  \A k \in 1 .. Len(toSender) :
    toSender[k].kind = "Ack" /\ toSender[k].index < NumChunks => toSender[k].index <= latestIndex

(* Ready comes before any Ack, and only once. *)
ReadyComesFirst ==
  /\ \A k \in 1 .. Len(toSender) : toSender[k] = Ready => k = 1 /\ ~recipient
  /\ receiver = "none" => toSender = <<>> /\ ~recipient
  /\ oversized => receiver = "none"

CompletedInStep == worker = "completed" => latestIndex = NumChunks - 1

IInv ==
  /\ TypeOK
  /\ BuilderIsPrefix
  /\ SenderInStep
  /\ ChunksInStep
  /\ AcksInStep
  /\ ReadyComesFirst
  /\ CompletedInStep

-----------------------------------------------------------------------------
(* Reading and sending messages. *)

(* What reading the head of a mailbox leaves. *)
LEMMA ReadHead ==
  ASSUME NEW S, NEW s \in Seq(S), s # <<>>
  PROVE  /\ Len(s) \in Nat \ {0}
         /\ Head(s) \in S /\ Head(s) = s[1]
         /\ Tail(s) \in Seq(S)
         /\ Len(Tail(s)) = Len(s) - 1
         /\ \A k \in 1 .. Len(Tail(s)) : k + 1 \in 1 .. Len(s) /\ Tail(s)[k] = s[k + 1]
OBVIOUS

(* What sending a message adds to a mailbox. *)
LEMMA AppendLast ==
  ASSUME NEW S, NEW s \in Seq(S), NEW m \in S
  PROVE  /\ Append(s, m) \in Seq(S)
         /\ \A k \in 1 .. Len(Append(s, m)) :
              \/ k \in 1 .. Len(s) /\ Append(s, m)[k] = s[k]
              \/ k = Len(s) + 1 /\ Append(s, m)[k] = m
OBVIOUS

(* The three kinds of messages are different. *)
LEMMA MessageKinds ==
  /\ \A m \in SenderMessages :
       \/ m = Ready /\ m.kind = "Ready" /\ m.index = -1
       \/ m.kind = "Ack" /\ m.index \in 0 .. NumChunks /\ m = Ack(m.index) /\ m # Ready
  /\ \A m \in ReceiverMessages :
       \/ m.kind = "StringChunk" /\ m.index \in 0 .. NumChunks - 1
       \/ m.kind = "Complete" /\ m.index = NumChunks
BY DEF SenderMessages, ReceiverMessages, Ready, Ack, StringChunk, Complete

(* The sender sends a chunk that keeps it in step. *)
LEMMA SendingKeepsType ==
  ASSUME toReceiver \in Seq(ReceiverMessages),
         NEW message \in ReceiverMessages, NEW attempt \in 0 .. LastAttempt,
         Send(message, attempt)
  PROVE  /\ currentIndex' = message.index
         /\ currentIndex' \in 0 .. NumChunks
         /\ toReceiver' \in Seq(ReceiverMessages)
         /\ timer' \in Timeouts
<1>1. message.index \in 0 .. NumChunks
  BY MessageKinds, NumChunksAssumption
<1>2. toReceiver' \in Seq(ReceiverMessages)
  BY AppendLast DEF Send
<1> QED
  BY <1>1, <1>2 DEF Send, Timeouts

-----------------------------------------------------------------------------
(* The invariant is inductive. *)

LEMMA InitIInv == Init => IInv
<1> SUFFICES ASSUME Init PROVE IInv
  OBVIOUS
<1>1. TypeOK
  <2>1. remainingChunks \in 0 .. NumChunks /\ currentIndex \in -1 .. NumChunks
        /\ latestIndex \in -1 .. NumChunks - 1
    BY NumChunksAssumption DEF Init
  <2>2. \A S : <<>> \in Seq(S)
    OBVIOUS
  <2> QED
    BY <2>1, <2>2 DEF Init, TypeOK
<1>2. BuilderIsPrefix
  BY DEF Init, BuilderIsPrefix
<1> QED
  BY <1>1, <1>2 DEF Init, IInv, SenderInStep, ChunksInStep, AcksInStep, ReadyComesFirst,
                    CompletedInStep

LEMMA RouteOversizedKeepsIInv == IInv /\ RouteOversized => IInv'
<1> SUFFICES ASSUME IInv, RouteOversized PROVE IInv'
  OBVIOUS
<1> USE DEF RouteOversized, senderVars, callerVars
<1>1. toSender = <<>> /\ ~recipient /\ toSender' = <<Ready>>
  BY DEF IInv, ReadyComesFirst, TypeOK
<1>2. TypeOK'
  <2>1. <<Ready>> \in Seq(SenderMessages)
    BY DEF SenderMessages
  <2> QED
    BY <1>1, <2>1 DEF IInv, TypeOK
<1>3. ReadyComesFirst' /\ AcksInStep'
  BY <1>1 DEF ReadyComesFirst, AcksInStep, Ready
<1> QED
  BY <1>2, <1>3 DEF IInv, BuilderIsPrefix, SenderInStep, ChunksInStep, CompletedInStep

(* Reading the head of a mailbox keeps the rest of it in step. *)
LEMMA ReadSenderMail ==
  ASSUME IInv, toSender # <<>>, toSender' = Tail(toSender), latestIndex' = latestIndex
  PROVE  /\ Head(toSender) \in SenderMessages
         /\ Head(toSender).kind = "Ack" /\ Head(toSender).index < NumChunks
              => Head(toSender).index <= latestIndex
         /\ Head(toSender) = Ready => ~recipient
         /\ toSender' \in Seq(SenderMessages)
         /\ AcksInStep'
         /\ \A k \in 1 .. Len(toSender') : toSender'[k] # Ready
         /\ receiver # "none"
<1>1. toSender \in Seq(SenderMessages)
  BY DEF IInv, TypeOK
<1>2. /\ Head(toSender) = toSender[1] /\ Head(toSender) \in SenderMessages
      /\ Len(toSender) \in Nat \ {0}
      /\ toSender' \in Seq(SenderMessages)
      /\ \A k \in 1 .. Len(toSender') : k + 1 \in 1 .. Len(toSender) /\ toSender'[k] = toSender[k + 1]
  BY <1>1, ReadHead
<1> QED
  BY <1>1, <1>2 DEF IInv, AcksInStep, ReadyComesFirst

LEMMA ReadReceiverMail ==
  ASSUME IInv, toReceiver # <<>>, toReceiver' = Tail(toReceiver)
  PROVE  /\ Head(toReceiver) \in ReceiverMessages
         /\ Head(toReceiver).kind = "StringChunk" => Head(toReceiver).index <= latestIndex + 1
         /\ Head(toReceiver).kind = "Complete" => latestIndex = NumChunks - 1
         /\ toReceiver' \in Seq(ReceiverMessages)
         /\ \A k \in 1 .. Len(toReceiver') : \E j \in 1 .. Len(toReceiver) : toReceiver'[k] = toReceiver[j]
<1>1. toReceiver \in Seq(ReceiverMessages)
  BY DEF IInv, TypeOK
<1>2. /\ Head(toReceiver) = toReceiver[1] /\ Head(toReceiver) \in ReceiverMessages
      /\ Len(toReceiver) \in Nat \ {0}
      /\ toReceiver' \in Seq(ReceiverMessages)
      /\ \A k \in 1 .. Len(toReceiver') :
           k + 1 \in 1 .. Len(toReceiver) /\ toReceiver'[k] = toReceiver[k + 1]
  BY <1>1, ReadHead
<1> QED
  BY <1>1, <1>2 DEF IInv, ChunksInStep

(***************************************************************************)
(* Sending the chunk that is due keeps the receiver's mailbox in step.     *)
(***************************************************************************)
LEMMA SendingKeepsChunksInStep ==
  ASSUME IInv, UNCHANGED latestIndex,
         NEW message \in ReceiverMessages, NEW attempt \in 0 .. LastAttempt,
         Send(message, attempt),
         message.kind = "StringChunk" => message.index <= latestIndex + 1,
         message.kind = "Complete" => latestIndex = NumChunks - 1
  PROVE  ChunksInStep'
<1>1. toReceiver \in Seq(ReceiverMessages)
  BY DEF IInv, TypeOK
<1>2. \A k \in 1 .. Len(toReceiver') :
        \/ k \in 1 .. Len(toReceiver) /\ toReceiver'[k] = toReceiver[k]
        \/ toReceiver'[k] = message
  BY <1>1, AppendLast DEF Send
<1> QED
  BY <1>2 DEF IInv, ChunksInStep

LEMMA ReadyKeepsIInv == IInv /\ ReadyArrives => IInv'
<1> SUFFICES ASSUME IInv, ReadyArrives PROVE IInv'
  OBVIOUS
<1> USE DEF ReadyArrives, receiverVars, callerVars
<1>1. toReceiver \in Seq(ReceiverMessages) /\ toSender # <<>>
  BY DEF IInv, TypeOK
<1>2. /\ Head(toSender) = Ready => ~recipient
      /\ toSender' \in Seq(SenderMessages) /\ AcksInStep'
      /\ \A k \in 1 .. Len(toSender') : toSender'[k] # Ready
      /\ receiver # "none"
  BY <1>1, ReadSenderMail
<1>3. ~recipient /\ remainingChunks = NumChunks
  BY <1>2 DEF IInv, SenderInStep
<1>4. Send(StringChunk(0), 0)
  BY <1>3, NumChunksAssumption DEF SendCurrentChunk
<1>5. StringChunk(0) \in ReceiverMessages
  BY NumChunksAssumption DEF ReceiverMessages
<1>6. currentIndex' = 0 /\ toReceiver' \in Seq(ReceiverMessages) /\ timer' \in Timeouts
  BY <1>1, <1>4, <1>5, SendingKeepsType DEF StringChunk, LastAttempt
<1>7. TypeOK'
  BY <1>2, <1>6, NumChunksAssumption DEF IInv, TypeOK
<1>8. SenderInStep'
  BY <1>3, <1>6, NumChunksAssumption DEF IInv, TypeOK, SenderInStep
<1>9. ChunksInStep'
  <2>1. 0 <= latestIndex + 1
    BY NumChunksAssumption DEF IInv, TypeOK
  <2> QED
    BY <1>4, <1>5, <2>1, SendingKeepsChunksInStep DEF StringChunk, LastAttempt
<1>10. ReadyComesFirst'
  BY <1>2 DEF IInv, ReadyComesFirst
<1> QED
  BY <1>2, <1>7, <1>8, <1>9, <1>10 DEF IInv, BuilderIsPrefix, CompletedInStep

(***************************************************************************)
(* The steps that touch neither the mailboxes nor the place of the sender. *)
(***************************************************************************)
LEMMA QuietStepsKeepIInv ==
  ASSUME IInv,
         CallerTimesOut \/ WorkerTimesOut \/ Start \/ TimerFires \/ ObsoleteTimeout \/ GiveUp
           \/ LoseOversized \/ UNCHANGED vars
  PROVE  IInv'
<1> USE DEF senderVars, receiverVars, callerVars, network
<1>1. /\ UNCHANGED <<remainingChunks, currentIndex, recipient, receiver, builder, latestIndex,
                     answer, toSender, toReceiver>>
      /\ worker' \in {worker, "timedOut"}
      /\ oversized' = oversized \/ oversized' = FALSE
  BY DEF CallerTimesOut, WorkerTimesOut, Start, TimerFires, ObsoleteTimeout, GiveUp,
         LoseOversized, vars
<1>2. TypeOK'
  <2>1. sender' \in {"running", "stopped"} /\ caller' \in {"waiting", "received", "failed"}
    BY DEF CallerTimesOut, WorkerTimesOut, Start, TimerFires, ObsoleteTimeout, GiveUp,
           LoseOversized, vars, IInv, TypeOK
  <2>2. originator' \in BOOLEAN /\ start' \in BOOLEAN /\ oversized' \in BOOLEAN
    BY DEF CallerTimesOut, WorkerTimesOut, Start, TimerFires, ObsoleteTimeout, GiveUp,
           LoseOversized, vars, IInv, TypeOK
  <2>3. timer' \in Timeouts \cup {NoTimer} /\ timeouts' \subseteq Timeouts
    BY DEF CallerTimesOut, WorkerTimesOut, Start, TimerFires, ObsoleteTimeout, GiveUp,
           LoseOversized, vars, FinalTimeout, TimeoutArrives, IInv, TypeOK
  <2>4. worker' \in {"waiting", "completed", "timedOut"}
    BY <1>1 DEF IInv, TypeOK
  <2> QED
    BY <1>1, <2>1, <2>2, <2>3, <2>4 DEF IInv, TypeOK
<1>3. BuilderIsPrefix' /\ SenderInStep' /\ ChunksInStep' /\ AcksInStep'
  BY <1>1 DEF IInv, BuilderIsPrefix, SenderInStep, ChunksInStep, AcksInStep
<1>4. ReadyComesFirst' /\ CompletedInStep'
  BY <1>1 DEF IInv, ReadyComesFirst, CompletedInStep
<1> QED
  BY <1>2, <1>3, <1>4 DEF IInv

LEMMA LossesKeepIInv ==
  ASSUME IInv, ObsoleteAck \/ LoseToSender \/ LoseToReceiver
  PROVE  IInv'
<1> USE DEF senderVars, receiverVars, callerVars
<1>1. UNCHANGED <<senderVars, receiverVars, worker, callerVars, start, oversized>>
  BY DEF ObsoleteAck, LoseToSender, LoseToReceiver
<1>2. CASE toSender # <<>> /\ toSender' = Tail(toSender) /\ UNCHANGED toReceiver
  <2>1. /\ toSender' \in Seq(SenderMessages) /\ AcksInStep'
        /\ \A k \in 1 .. Len(toSender') : toSender'[k] # Ready
        /\ receiver # "none"
    BY <1>1, <1>2, ReadSenderMail
  <2>2. TypeOK'
    BY <1>1, <1>2, <2>1 DEF IInv, TypeOK
  <2> QED
    BY <1>1, <1>2, <2>1, <2>2 DEF IInv, BuilderIsPrefix, SenderInStep, ChunksInStep,
                                  ReadyComesFirst, CompletedInStep
<1>3. CASE toReceiver # <<>> /\ toReceiver' = Tail(toReceiver) /\ UNCHANGED toSender
  <2>1. /\ toReceiver' \in Seq(ReceiverMessages)
        /\ \A k \in 1 .. Len(toReceiver') :
             \E j \in 1 .. Len(toReceiver) : toReceiver'[k] = toReceiver[j]
    BY <1>1, <1>3, ReadReceiverMail
  <2>2. TypeOK'
    BY <1>1, <1>3, <2>1 DEF IInv, TypeOK
  <2>3. ChunksInStep'
    BY <1>1, <2>1 DEF IInv, ChunksInStep
  <2> QED
    BY <1>1, <1>3, <2>2, <2>3 DEF IInv, BuilderIsPrefix, SenderInStep, AcksInStep,
                                  ReadyComesFirst, CompletedInStep
<1> QED
  BY <1>2, <1>3 DEF ObsoleteAck, AckArrives, LoseToSender, LoseToReceiver

LEMMA AckOfChunkKeepsIInv == IInv /\ AckOfChunk => IInv'
<1> SUFFICES ASSUME IInv, AckOfChunk PROVE IInv'
  OBVIOUS
<1> USE DEF receiverVars, callerVars
<1>1. /\ toSender # <<>> /\ toSender' = Tail(toSender) /\ Head(toSender).kind = "Ack"
      /\ Head(toSender).index = currentIndex
      /\ remainingChunks > 0 /\ remainingChunks' = remainingChunks - 1
      /\ UNCHANGED <<sender, originator, recipient, timeouts, receiver, builder, latestIndex,
                     worker, caller, answer, start, oversized>>
  BY DEF AckOfChunk, AckArrives, AckOfCurrent
<1>2. /\ Head(toSender) \in SenderMessages
      /\ Head(toSender).index < NumChunks => Head(toSender).index <= latestIndex
      /\ toSender' \in Seq(SenderMessages) /\ AcksInStep'
      /\ \A k \in 1 .. Len(toSender') : toSender'[k] # Ready
      /\ receiver # "none"
  BY <1>1, ReadSenderMail
<1>3. currentIndex >= 0
  BY <1>1, <1>2, MessageKinds
<1>4. recipient /\ currentIndex = NumChunks - remainingChunks /\ currentIndex <= latestIndex
  BY <1>1, <1>2, <1>3, NumChunksAssumption DEF IInv, TypeOK, SenderInStep
<1>5. PICK message \in ReceiverMessages :
        /\ Send(message, 0)
        /\ message.index = currentIndex + 1
        /\ message.kind = "Complete" => remainingChunks = 1
  <2>1. CASE remainingChunks > 1
    <3>1. StringChunk(currentIndex + 1) \in ReceiverMessages
      <4>1. currentIndex + 1 \in 0 .. NumChunks - 1
        BY <1>3, <1>4, <2>1, NumChunksAssumption DEF IInv, TypeOK
      <4> QED
        BY <4>1 DEF ReceiverMessages
    <3>2. NumChunks - (remainingChunks - 1) = currentIndex + 1
      BY <1>4, NumChunksAssumption DEF IInv, TypeOK
    <3>3. Send(StringChunk(currentIndex + 1), 0)
      BY <2>1, <3>2 DEF AckOfChunk, SendCurrentChunk
    <3> QED
      BY <3>1, <3>3 DEF StringChunk
  <2>2. CASE remainingChunks = 1
    <3>1. currentIndex + 1 = NumChunks
      BY <1>4, <2>2, NumChunksAssumption DEF IInv, TypeOK
    <3>2. Complete(currentIndex + 1) \in ReceiverMessages
      BY <3>1 DEF ReceiverMessages
    <3>3. Send(Complete(currentIndex + 1), 0)
      BY <2>2 DEF AckOfChunk, SendComplete
    <3> QED
      BY <2>2, <3>2, <3>3 DEF Complete
  <2> QED
    BY <1>1, <2>1, <2>2 DEF IInv, TypeOK
<1>6. /\ currentIndex' = currentIndex + 1 /\ currentIndex' \in 0 .. NumChunks
      /\ toReceiver' \in Seq(ReceiverMessages) /\ timer' \in Timeouts
  BY <1>5, SendingKeepsType DEF IInv, TypeOK, LastAttempt
<1>7. TypeOK'
  <2>1. remainingChunks' \in 0 .. NumChunks
    BY <1>1, NumChunksAssumption DEF IInv, TypeOK
  <2> QED
    BY <1>1, <1>2, <1>6, <2>1 DEF IInv, TypeOK
<1>8. SenderInStep'
  BY <1>1, <1>4, <1>6, NumChunksAssumption DEF IInv, TypeOK, SenderInStep
<1>9. ChunksInStep'
  <2>1. remainingChunks = 1 => latestIndex = NumChunks - 1
    BY <1>4 DEF IInv, TypeOK
  <2>2. currentIndex + 1 <= latestIndex + 1
    BY <1>4 DEF IInv, TypeOK
  <2> QED
    BY <1>1, <1>5, <2>1, <2>2, SendingKeepsChunksInStep DEF LastAttempt
<1> QED
  BY <1>1, <1>2, <1>7, <1>8, <1>9
    DEF IInv, BuilderIsPrefix, ReadyComesFirst, CompletedInStep

LEMMA AckOfCompleteKeepsIInv == IInv /\ AckOfComplete => IInv'
<1> SUFFICES ASSUME IInv, AckOfComplete PROVE IInv'
  OBVIOUS
<1> USE DEF receiverVars, callerVars
<1>1. /\ toSender # <<>> /\ toSender' = Tail(toSender) /\ remainingChunks = 0
      /\ timer' = NoTimer /\ sender' = "stopped"
      /\ UNCHANGED <<remainingChunks, currentIndex, originator, recipient, timeouts, receiver,
                     builder, latestIndex, caller, answer, start, oversized, toReceiver>>
  BY DEF AckOfComplete, AckArrives
<1>2. /\ toSender' \in Seq(SenderMessages) /\ AcksInStep'
      /\ \A k \in 1 .. Len(toSender') : toSender'[k] # Ready
      /\ receiver # "none"
  BY <1>1, ReadSenderMail
<1>3. latestIndex = NumChunks - 1
  BY <1>1, NumChunksAssumption DEF IInv, TypeOK, SenderInStep
<1>4. TypeOK'
  <2>1. worker' \in {"waiting", "completed", "timedOut"}
    BY DEF IInv, TypeOK, AckOfComplete, ReportTo
  <2> QED
    BY <1>1, <1>2, <2>1 DEF IInv, TypeOK
<1> QED
  BY <1>1, <1>2, <1>3, <1>4
    DEF IInv, BuilderIsPrefix, SenderInStep, ChunksInStep, ReadyComesFirst, CompletedInStep

LEMMA ChunkTimeoutKeepsIInv == IInv /\ ChunkTimeout => IInv'
<1> SUFFICES ASSUME IInv, ChunkTimeout PROVE IInv'
  OBVIOUS
<1> USE DEF receiverVars, callerVars
<1>1. UNCHANGED <<sender, remainingChunks, originator, recipient, receiver, builder, latestIndex,
                  worker, caller, answer, start, oversized, toSender>>
  BY DEF ChunkTimeout
<1>2. PICK t \in timeouts :
        TimeoutArrives(t) /\ t.index = currentIndex /\ ~Exhausted(t.attempt) /\ SendAgain(t.attempt)
  BY DEF ChunkTimeout
<1>3. t \in Timeouts /\ timeouts' \subseteq Timeouts
  BY <1>2 DEF IInv, TypeOK, TimeoutArrives
<1>4. t.attempt + 1 \in 0 .. LastAttempt /\ currentIndex >= 0
  BY <1>2, <1>3 DEF Timeouts, Exhausted, LastAttempt
<1>5. recipient /\ currentIndex = NumChunks - remainingChunks /\ currentIndex <= latestIndex + 1
  BY <1>4 DEF IInv, TypeOK, SenderInStep
<1>6. PICK message \in ReceiverMessages :
        /\ Send(message, t.attempt + 1)
        /\ message.index = currentIndex
        /\ message.kind = "Complete" => remainingChunks = 0
  <2>1. CASE remainingChunks > 0
    <3>1. NumChunks - remainingChunks = currentIndex
      BY <1>5
    <3>2. StringChunk(currentIndex) \in ReceiverMessages
      BY <1>4, <1>5, <2>1, NumChunksAssumption DEF IInv, TypeOK, ReceiverMessages
    <3>3. Send(StringChunk(currentIndex), t.attempt + 1)
      BY <1>2, <2>1, <3>1 DEF SendAgain, SendCurrentChunk
    <3> QED
      BY <3>2, <3>3 DEF StringChunk
  <2>2. CASE remainingChunks = 0
    <3>1. currentIndex = NumChunks
      BY <1>5, <2>2, NumChunksAssumption
    <3>2. Complete(currentIndex) \in ReceiverMessages
      BY <3>1 DEF ReceiverMessages
    <3>3. Send(Complete(currentIndex), t.attempt + 1)
      BY <1>2, <2>2 DEF SendAgain, SendComplete
    <3> QED
      BY <2>2, <3>2, <3>3 DEF Complete
  <2> QED
    BY <2>1, <2>2 DEF IInv, TypeOK
<1>7. /\ currentIndex' = currentIndex /\ currentIndex' \in 0 .. NumChunks
      /\ toReceiver' \in Seq(ReceiverMessages) /\ timer' \in Timeouts
  BY <1>4, <1>6, SendingKeepsType DEF IInv, TypeOK
<1>8. TypeOK'
  BY <1>1, <1>3, <1>7 DEF IInv, TypeOK
<1>9. ChunksInStep'
  <2>1. remainingChunks = 0 => latestIndex = NumChunks - 1
    BY <1>5, NumChunksAssumption DEF IInv, TypeOK
  <2> QED
    BY <1>1, <1>4, <1>5, <1>6, <2>1, SendingKeepsChunksInStep
<1> QED
  BY <1>1, <1>7, <1>8, <1>9
    DEF IInv, BuilderIsPrefix, SenderInStep, AcksInStep, ReadyComesFirst, CompletedInStep

LEMMA FinalTimeoutKeepsIInv ==
  ASSUME IInv, CompleteOptimistically \/ RestartSender
  PROVE  IInv'
<1> USE DEF receiverVars, callerVars, network
<1>1. /\ remainingChunks = 0 /\ timeouts' \subseteq timeouts
      /\ UNCHANGED <<receiver, builder, latestIndex, caller, answer, start, oversized, toSender,
                     toReceiver>>
  BY DEF CompleteOptimistically, RestartSender, FinalTimeout, TimeoutArrives
<1>2. recipient /\ latestIndex = NumChunks - 1
  BY <1>1, NumChunksAssumption DEF IInv, TypeOK, SenderInStep
<1>3. BuilderIsPrefix' /\ ChunksInStep' /\ AcksInStep'
  BY <1>1 DEF IInv, BuilderIsPrefix, ChunksInStep, AcksInStep
<1>4. CASE CompleteOptimistically
  <2>1. TypeOK'
    BY <1>1, <1>4 DEF IInv, TypeOK, CompleteOptimistically, ReportTo
  <2> QED
    BY <1>1, <1>2, <1>3, <1>4, <2>1
      DEF IInv, SenderInStep, ReadyComesFirst, CompletedInStep, CompleteOptimistically
<1>5. CASE RestartSender
  <2>1. TypeOK'
    <3>1. remainingChunks' = NumChunks /\ currentIndex' = -1
      BY <1>5 DEF RestartSender
    <3>2. NumChunks \in 0 .. NumChunks /\ -1 \in -1 .. NumChunks
      BY NumChunksAssumption
    <3>3. originator' \in BOOLEAN /\ recipient' \in BOOLEAN /\ timer' = NoTimer
      BY <1>5 DEF RestartSender
    <3>4. timeouts' \subseteq Timeouts /\ sender' = sender /\ worker' = worker
      BY <1>1, <1>5 DEF IInv, TypeOK, RestartSender
    <3> QED
      BY <1>1, <3>1, <3>2, <3>3, <3>4 DEF IInv, TypeOK
  <2>2. SenderInStep' /\ ReadyComesFirst'
    BY <1>1, <1>5 DEF IInv, SenderInStep, ReadyComesFirst, RestartSender
  <2> QED
    BY <1>1, <1>2, <1>3, <1>5, <2>1, <2>2 DEF IInv, CompletedInStep, RestartSender
<1> QED
  BY <1>4, <1>5

LEMMA ChunkArrivesKeepsIInv == IInv /\ ChunkArrives => IInv'
<1> SUFFICES ASSUME IInv, ChunkArrives PROVE IInv'
  OBVIOUS
<1> USE DEF senderVars, callerVars
<1> DEFINE index == Head(toReceiver).index
<1>1. /\ toReceiver # <<>> /\ toReceiver' = Tail(toReceiver)
      /\ Head(toReceiver).kind = "StringChunk"
      /\ toSender' = Append(toSender, Ack(index))
      /\ receiver = "running"
      /\ UNCHANGED <<sender, remainingChunks, currentIndex, originator, recipient, timer, timeouts,
                     receiver, worker, caller, answer, start, oversized>>
  BY DEF ChunkArrives
<1>2. /\ index \in 0 .. NumChunks - 1 /\ index <= latestIndex + 1
      /\ toReceiver' \in Seq(ReceiverMessages)
      /\ \A k \in 1 .. Len(toReceiver') : \E j \in 1 .. Len(toReceiver) : toReceiver'[k] = toReceiver[j]
  BY <1>1, ReadReceiverMail, MessageKinds
<1>3. \/ index = latestIndex + 1 /\ builder' = Append(builder, index) /\ latestIndex' = index
      \/ index <= latestIndex /\ UNCHANGED <<builder, latestIndex>>
  BY <1>2 DEF IInv, TypeOK, ChunkArrives, IsNew
<1>4. /\ latestIndex \in -1 .. NumChunks - 1 /\ latestIndex' \in -1 .. NumChunks - 1
      /\ latestIndex <= latestIndex' /\ index <= latestIndex'
  BY <1>2, <1>3, NumChunksAssumption DEF IInv, TypeOK
<1>5. Ack(index) \in SenderMessages /\ Ack(index) # Ready
  BY <1>2, NumChunksAssumption DEF SenderMessages, Ack, Ready
<1>6. /\ toSender \in Seq(SenderMessages) /\ toSender' \in Seq(SenderMessages)
      /\ \A k \in 1 .. Len(toSender') :
           \/ k \in 1 .. Len(toSender) /\ toSender'[k] = toSender[k]
           \/ toSender'[k] = Ack(index)
  BY <1>1, <1>5, AppendLast DEF IInv, TypeOK
<1>7. TypeOK'
  <2>1. builder' \in Seq(0 .. NumChunks - 1)
    <3>1. builder \in Seq(0 .. NumChunks - 1)
      BY DEF IInv, TypeOK
    <3>2. Append(builder, index) \in Seq(0 .. NumChunks - 1)
      BY <1>2, <3>1, AppendLast
    <3> QED
      BY <1>3, <3>1, <3>2
  <2> QED
    BY <1>1, <1>2, <1>4, <1>6, <2>1 DEF IInv, TypeOK
<1>8. BuilderIsPrefix'
  <2>1. CASE index = latestIndex + 1 /\ builder' = Append(builder, index) /\ latestIndex' = index
    <3>1. Len(builder) = latestIndex + 1 /\ \A i \in 1 .. latestIndex + 1 : builder[i] = i - 1
      BY DEF IInv, TypeOK, BuilderIsPrefix
    <3> QED
      BY <2>1, <3>1 DEF IInv, TypeOK, BuilderIsPrefix
  <2> QED
    BY <1>3, <2>1 DEF IInv, BuilderIsPrefix
<1>9. SenderInStep'
  <2>1. currentIndex \in Int /\ latestIndex \in Int /\ latestIndex' \in Int
    BY <1>4, NumChunksAssumption DEF IInv, TypeOK
  <2>2. latestIndex <= latestIndex'
    BY <1>4
  <2>3. \A a, b, c \in Int : a <= b + 1 /\ b <= c => a <= c + 1
    OBVIOUS
  <2>4. currentIndex <= latestIndex + 1 => currentIndex <= latestIndex' + 1
    BY <2>1, <2>2, <2>3
  <2> QED
    BY <1>1, <2>4 DEF IInv, SenderInStep
<1>10. ChunksInStep'
  <2>1. \A m \in ReceiverMessages :
          m.kind = "StringChunk" /\ m.index <= latestIndex + 1 => m.index <= latestIndex' + 1
    BY <1>4, MessageKinds, NumChunksAssumption
  <2>2. latestIndex = NumChunks - 1 => latestIndex' = NumChunks - 1
    BY <1>4, NumChunksAssumption
  <2>3. \A j \in 1 .. Len(toReceiver) : toReceiver[j] \in ReceiverMessages
    BY DEF IInv, TypeOK
  <2> QED
    BY <1>2, <2>1, <2>2, <2>3 DEF IInv, ChunksInStep
<1>11. AcksInStep'
  <2>1. \A m \in SenderMessages :
          m.kind = "Ack" /\ m.index <= latestIndex => m.index <= latestIndex'
    BY <1>4, MessageKinds, NumChunksAssumption
  <2>2. \A k \in 1 .. Len(toSender) : toSender[k] \in SenderMessages
    BY <1>6
  <2>3. Ack(index).index <= latestIndex'
    BY <1>4 DEF Ack
  <2> HIDE DEF index
  <2> QED
    BY <1>6, <2>1, <2>2, <2>3 DEF IInv, AcksInStep
<1>12. ReadyComesFirst'
  BY <1>1, <1>5, <1>6 DEF IInv, ReadyComesFirst
<1>13. CompletedInStep'
  BY <1>1, <1>4, NumChunksAssumption DEF IInv, TypeOK, CompletedInStep
<1> QED
  BY <1>7, <1>8, <1>9, <1>10, <1>11, <1>12, <1>13 DEF IInv

(* When Complete arrives the receiver has the whole text. *)
LEMMA CompleteArrivesWhole ==
  ASSUME IInv, CompleteArrives
  PROVE  builder = Text /\ latestIndex = NumChunks - 1
<1>1. latestIndex = NumChunks - 1
  BY ReadReceiverMail DEF CompleteArrives
<1> QED
  BY <1>1, NumChunksAssumption DEF IInv, BuilderIsPrefix, Text

LEMMA CompleteArrivesKeepsIInv == IInv /\ CompleteArrives => IInv'
<1> SUFFICES ASSUME IInv, CompleteArrives PROVE IInv'
  OBVIOUS
<1> USE DEF senderVars, callerVars
<1> DEFINE index == Head(toReceiver).index
<1>1. /\ toReceiver # <<>> /\ toReceiver' = Tail(toReceiver)
      /\ Head(toReceiver).kind = "Complete"
      /\ toSender' = Append(toSender, Ack(index))
      /\ receiver = "running" /\ receiver' = "stopped"
      /\ UNCHANGED <<sender, remainingChunks, currentIndex, originator, recipient, timer, timeouts,
                     builder, latestIndex, worker, start, oversized>>
  BY DEF CompleteArrives
<1>2. /\ index = NumChunks
      /\ toReceiver' \in Seq(ReceiverMessages)
      /\ \A k \in 1 .. Len(toReceiver') : \E j \in 1 .. Len(toReceiver) : toReceiver'[k] = toReceiver[j]
  BY <1>1, ReadReceiverMail, MessageKinds
<1>3. Ack(index) \in SenderMessages /\ Ack(index) # Ready
  BY <1>2, NumChunksAssumption DEF SenderMessages, Ack, Ready
<1>4. /\ toSender \in Seq(SenderMessages) /\ toSender' \in Seq(SenderMessages)
      /\ \A k \in 1 .. Len(toSender') :
           \/ k \in 1 .. Len(toSender) /\ toSender'[k] = toSender[k]
           \/ toSender'[k] = Ack(index)
  BY <1>1, <1>3, AppendLast DEF IInv, TypeOK
<1>5. TypeOK'
  <2>1. caller' \in {"waiting", "received", "failed"} /\ answer' \in Seq(0 .. NumChunks - 1)
    BY DEF IInv, TypeOK, CompleteArrives
  <2> QED
    BY <1>1, <1>2, <1>4, <2>1 DEF IInv, TypeOK
<1>6. ChunksInStep'
  BY <1>1, <1>2 DEF IInv, ChunksInStep
<1>7. AcksInStep'
  BY <1>1, <1>2, <1>4, NumChunksAssumption DEF IInv, AcksInStep, Ack
<1>8. ReadyComesFirst'
  BY <1>1, <1>3, <1>4 DEF IInv, ReadyComesFirst
<1> QED
  BY <1>1, <1>5, <1>6, <1>7, <1>8 DEF IInv, BuilderIsPrefix, SenderInStep, CompletedInStep

LEMMA NextIInv == IInv /\ [Next]_vars => IInv'
<1> SUFFICES ASSUME IInv, [Next]_vars PROVE IInv'
  OBVIOUS
<1>1. CASE RouteOversized
  BY <1>1, RouteOversizedKeepsIInv
<1>2. CASE CallerTimesOut \/ WorkerTimesOut \/ TimerFires \/ LoseOversized \/ UNCHANGED vars
  BY <1>2, QuietStepsKeepIInv
<1>3. CASE SenderStep
  <2>1. CASE Start \/ ObsoleteTimeout \/ GiveUp
    BY <2>1, QuietStepsKeepIInv
  <2>2. CASE ReadyArrives
    BY <2>2, ReadyKeepsIInv
  <2>3. CASE ObsoleteAck
    BY <2>3, LossesKeepIInv
  <2>4. CASE AckOfChunk
    BY <2>4, AckOfChunkKeepsIInv
  <2>5. CASE AckOfComplete
    BY <2>5, AckOfCompleteKeepsIInv
  <2>6. CASE ChunkTimeout
    BY <2>6, ChunkTimeoutKeepsIInv
  <2>7. CASE CompleteOptimistically \/ RestartSender
    BY <2>7, FinalTimeoutKeepsIInv
  <2> QED
    BY <1>3, <2>1, <2>2, <2>3, <2>4, <2>5, <2>6, <2>7 DEF SenderStep
<1>4. CASE ReceiverStep
  BY <1>4, ChunkArrivesKeepsIInv, CompleteArrivesKeepsIInv DEF ReceiverStep
<1>5. CASE LoseToSender \/ LoseToReceiver
  BY <1>5, LossesKeepIInv
<1> QED
  BY <1>1, <1>2, <1>3, <1>4, <1>5 DEF Next

-----------------------------------------------------------------------------
(* Every state the stream reaches satisfies the inductive invariant. *)
THEOREM InvariantHolds == Spec => []IInv
BY InitIInv, NextIInv, PTL DEF Spec

(***************************************************************************)
(* The state keeps its type for every number of chunks: no attempt past    *)
(* the last, no message of an index that does not exist.                   *)
(***************************************************************************)
THEOREM TypeCorrect == Spec => []TypeOK
<1>1. IInv => TypeOK
  BY DEF IInv
<1> QED
  BY <1>1, InvariantHolds, PTL

(***************************************************************************)
(* The worker is told of the completion only when the receiver has the     *)
(* whole text, whatever was lost and however often the sender restarted.   *)
(***************************************************************************)
THEOREM EarnedCompletion == Spec => []CompletionIsEarned
<1>1. IInv => CompletionIsEarned
  BY NumChunksAssumption DEF IInv, CompletedInStep, BuilderIsPrefix, CompletionIsEarned, Text
<1> QED
  BY <1>1, InvariantHolds, PTL

(***************************************************************************)
(* The stream implements StringDelivery: the caller receives the whole     *)
(* text once or fails, for every text and every loss of messages.          *)
(***************************************************************************)
THEOREM ImplementsDelivery == Spec => WholeTextOrFailure
<1>1. Init => Delivery!Init
  BY DEF Init, Delivery!Init
<1>2. IInv /\ [Next]_vars => [Delivery!Next]_<<caller, answer>>
  <2> SUFFICES ASSUME IInv, [Next]_vars PROVE [Delivery!Next]_<<caller, answer>>
    OBVIOUS
  <2>1. CASE CallerTimesOut
    BY <2>1 DEF CallerTimesOut, Delivery!Next, Delivery!Fail
  <2>2. CASE CompleteArrives
    BY <2>2, CompleteArrivesWhole
      DEF CompleteArrives, callerVars, Delivery!Next, Delivery!Deliver
  <2>3. CASE \/ RouteOversized \/ WorkerTimesOut \/ SenderStep \/ TimerFires \/ ChunkArrives
             \/ LoseToSender \/ LoseToReceiver \/ LoseOversized \/ UNCHANGED vars
    BY <2>3 DEF RouteOversized, WorkerTimesOut, SenderStep, TimerFires, ChunkArrives,
      LoseToSender, LoseToReceiver, LoseOversized, Start, ReadyArrives, ObsoleteAck, AckOfChunk,
      AckOfComplete, ObsoleteTimeout, ChunkTimeout, GiveUp, CompleteOptimistically,
      RestartSender, callerVars, vars
  <2> QED
    BY <2>1, <2>2, <2>3 DEF Next, ReceiverStep
<1> QED
  BY <1>1, <1>2, InvariantHolds, PTL DEF Spec, WholeTextOrFailure, Delivery!Spec

=============================================================================
