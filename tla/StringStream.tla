---------------------------- MODULE StringStream ----------------------------
(***************************************************************************)
(* The stream that brings the result of an API call to the caller when it  *)
(* is too large for one message.  The worker that computed the result      *)
(* starts a StringStreamSender and tells the caller of it; the caller      *)
(* starts a StringStreamReceiver, which asks the sender for the chunks.    *)
(* One chunk is under way at a time, and sent again when no Ack comes.     *)
(*                                                                         *)
(* Worker and sender are on one node, caller and receiver on another.      *)
(* Between the nodes messages keep their order and may be lost; on a node  *)
(* they arrive.  A chunk is represented by its index.                      *)
(***************************************************************************)
EXTENDS Integers, Sequences

CONSTANT NumChunks      \* the chunks of the result: only one too large for a chunk is streamed

ASSUME NumChunksAssumption == NumChunks \in Nat /\ NumChunks >= 2

LastAttempt == 3        \* ChunkTimeout gives up after this one; the first is 0

Text == [i \in 1 .. NumChunks |-> i - 1]

(* From the receiver to the sender. *)
Ready == [kind |-> "Ready", index |-> -1]
Ack(index) == [kind |-> "Ack", index |-> index]
(* From the sender to the receiver. *)
StringChunk(index) == [kind |-> "StringChunk", index |-> index]
Complete(index) == [kind |-> "Complete", index |-> index]

VARIABLES
  \* the sender
  sender,             \* "running" or "stopped"
  remainingChunks,    \* how many they are; the head is the first not acknowledged
  currentIndex,
  originator,         \* whether Start has told it whom to report to
  recipient,          \* whether Ready has told it whom to send to
  timer,              \* currentTimeout, while it runs
  timeouts,           \* the ChunkTimeouts in its mailbox
  \* the receiver
  receiver,           \* "none", "running" or "stopped"
  builder,            \* keeps its last value when the receiver stops
  latestIndex,
  \* the two who started them
  worker,             \* "waiting" for SendComplete, "completed" or "timedOut"
  caller,             \* "waiting", "received" or "failed"
  answer,             \* what the caller received
  \* the messages under way
  start,              \* whether Start is under way to the sender
  oversized,          \* whether OversizedResponse is under way to the caller
  toSender, toReceiver

senderVars == <<sender, remainingChunks, currentIndex, originator, recipient, timer, timeouts>>
receiverVars == <<receiver, builder, latestIndex>>
callerVars == <<caller, answer>>
network == <<start, oversized, toSender, toReceiver>>
vars == <<senderVars, receiverVars, worker, callerVars, network>>

NoTimer == [index |-> -1, attempt |-> 0]
Timeouts == [index : 0 .. NumChunks, attempt : 0 .. LastAttempt]
SenderMessages == {Ready} \cup {Ack(i) : i \in 0 .. NumChunks}
ReceiverMessages ==
  {StringChunk(i) : i \in 0 .. NumChunks - 1} \cup {Complete(NumChunks)}

TypeOK ==
  /\ sender \in {"running", "stopped"}
  /\ remainingChunks \in 0 .. NumChunks
  /\ currentIndex \in -1 .. NumChunks
  /\ originator \in BOOLEAN /\ recipient \in BOOLEAN
  /\ timer \in Timeouts \cup {NoTimer}
  /\ timeouts \subseteq Timeouts
  /\ receiver \in {"none", "running", "stopped"}
  /\ builder \in Seq(0 .. NumChunks - 1)
  /\ latestIndex \in -1 .. NumChunks - 1
  /\ worker \in {"waiting", "completed", "timedOut"}
  /\ caller \in {"waiting", "received", "failed"}
  /\ answer \in Seq(0 .. NumChunks - 1)
  /\ start \in BOOLEAN /\ oversized \in BOOLEAN
  /\ toSender \in Seq(SenderMessages)
  /\ toReceiver \in Seq(ReceiverMessages)

-----------------------------------------------------------------------------
(* The worker has its result, sent OversizedResponse and then Start. *)
Init ==
  /\ sender = "running"
  /\ remainingChunks = NumChunks /\ currentIndex = -1
  /\ originator = FALSE /\ recipient = FALSE
  /\ timer = NoTimer /\ timeouts = {}
  /\ receiver = "none" /\ builder = <<>> /\ latestIndex = -1
  /\ worker = "waiting"
  /\ caller = "waiting" /\ answer = <<>>
  /\ start = TRUE /\ oversized = TRUE
  /\ toSender = <<>> /\ toReceiver = <<>>

-----------------------------------------------------------------------------
(* The caller and the worker. *)

(***************************************************************************)
(* OversizedResponse reaches the caller, who starts a receiver and asks it *)
(* to Start; the receiver asks for the first chunk.                        *)
(***************************************************************************)
RouteOversized ==
  /\ oversized /\ caller = "waiting"
  /\ oversized' = FALSE
  /\ receiver' = "running"
  /\ toSender' = Append(toSender, Ready)
  /\ UNCHANGED <<senderVars, builder, latestIndex, worker, callerVars, start, toReceiver>>

(* An ask of the caller times out; it ignores what comes later. *)
CallerTimesOut ==
  /\ caller = "waiting"
  /\ caller' = "failed"
  /\ UNCHANGED <<senderVars, receiverVars, worker, answer, network>>

(* The request(Start) of the worker times out: completeCb is not called. *)
WorkerTimesOut ==
  /\ worker = "waiting"
  /\ worker' = "timedOut"
  /\ UNCHANGED <<senderVars, receiverVars, callerVars, network>>

(* SendComplete comes to the worker, which calls completeCb if it still waits. *)
ReportTo(w) == IF w = "waiting" THEN "completed" ELSE w

-----------------------------------------------------------------------------
(* The sender. *)

Start ==
  /\ sender = "running" /\ start
  /\ start' = FALSE
  /\ originator' = TRUE
  /\ UNCHANGED <<sender, remainingChunks, currentIndex, recipient, timer, timeouts,
                 receiverVars, worker, callerVars, oversized, toSender, toReceiver>>

Send(message, attempt) ==
  /\ currentIndex' = message.index
  /\ toReceiver' = Append(toReceiver, message)
  /\ timer' = [index |-> message.index, attempt |-> attempt]

SendCurrentChunk(remaining, attempt) == Send(StringChunk(NumChunks - remaining), attempt)

SendComplete(index, attempt) == Send(Complete(index), attempt)

ReadyArrives ==
  /\ sender = "running" /\ toSender # <<>> /\ Head(toSender) = Ready
  /\ recipient' = TRUE
  /\ SendCurrentChunk(remainingChunks, 0)
  /\ toSender' = Tail(toSender)
  /\ UNCHANGED <<sender, remainingChunks, originator, timeouts, receiverVars, worker,
                 callerVars, start, oversized>>

(* Mutant: the sender takes every Ack for one of the current chunk. *)
AckOfCurrentAlways(index) == index \in 0 .. NumChunks

AckOfCurrent(index) == index = currentIndex

AckArrives ==
  /\ sender = "running" /\ toSender # <<>> /\ Head(toSender).kind = "Ack"
  /\ toSender' = Tail(toSender)

ObsoleteAck ==
  /\ AckArrives
  /\ ~AckOfCurrent(Head(toSender).index)
  /\ UNCHANGED <<senderVars, receiverVars, worker, callerVars, start, oversized, toReceiver>>

(***************************************************************************)
(* The current chunk has arrived: the next one, or Complete, is sent.      *)
(***************************************************************************)
AckOfChunk ==
  /\ AckArrives
  /\ AckOfCurrent(Head(toSender).index)
  /\ remainingChunks > 0
  /\ remainingChunks' = remainingChunks - 1
  /\ \/ remainingChunks > 1 /\ SendCurrentChunk(remainingChunks - 1, 0)
     \/ remainingChunks = 1 /\ SendComplete(currentIndex + 1, 0)
  /\ UNCHANGED <<sender, originator, recipient, timeouts, receiverVars, worker, callerVars,
                 start, oversized>>

(* Complete has arrived.  Without an originator nobody is told. *)
AckOfComplete ==
  /\ AckArrives
  /\ AckOfCurrent(Head(toSender).index)
  /\ remainingChunks = 0
  /\ timer' = NoTimer
  /\ worker' = IF originator THEN ReportTo(worker) ELSE worker
  /\ sender' = "stopped"
  /\ UNCHANGED <<remainingChunks, currentIndex, originator, recipient, timeouts,
                 receiverVars, callerVars, start, oversized, toReceiver>>

(* The timer sends ChunkTimeout; cancelling it comes too late from then on. *)
TimerFires ==
  /\ sender = "running" /\ timer # NoTimer
  /\ timeouts' = timeouts \cup {timer}
  /\ timer' = NoTimer
  /\ UNCHANGED <<sender, remainingChunks, currentIndex, originator, recipient,
                 receiverVars, worker, callerVars, network>>

TimeoutArrives(t) ==
  /\ sender = "running" /\ t \in timeouts
  /\ timeouts' = timeouts \ {t}

ObsoleteTimeout ==
  /\ \E t \in timeouts : TimeoutArrives(t) /\ t.index # currentIndex
  /\ UNCHANGED <<sender, remainingChunks, currentIndex, originator, recipient, timer,
                 receiverVars, worker, callerVars, network>>

(* Mutant: one attempt more. *)
ExhaustedLate(attempt) == attempt > LastAttempt

Exhausted(attempt) == attempt >= LastAttempt

(* Mutant: the attempts are not counted. *)
SendAgainUncounted(attempt) ==
  \/ remainingChunks = 0 /\ SendComplete(currentIndex, attempt)
  \/ remainingChunks > 0 /\ SendCurrentChunk(remainingChunks, attempt)

SendAgain(attempt) ==
  \/ remainingChunks = 0 /\ SendComplete(currentIndex, attempt + 1)
  \/ remainingChunks > 0 /\ SendCurrentChunk(remainingChunks, attempt + 1)

ChunkTimeout ==
  /\ \E t \in timeouts :
       /\ TimeoutArrives(t) /\ t.index = currentIndex /\ ~Exhausted(t.attempt)
       /\ SendAgain(t.attempt)
  /\ UNCHANGED <<sender, remainingChunks, originator, recipient, receiverVars, worker,
                 callerVars, start, oversized, toSender>>

FinalTimeout ==
  \E t \in timeouts : TimeoutArrives(t) /\ t.index = currentIndex /\ Exhausted(t.attempt)

(* No Ack for a chunk in all attempts. *)
GiveUp ==
  /\ FinalTimeout
  /\ remainingChunks > 0
  /\ sender' = "stopped"
  /\ UNCHANGED <<remainingChunks, currentIndex, originator, recipient, timer, receiverVars,
                 worker, callerVars, network>>

(* No Ack for Complete in all attempts: taken for a lost Ack. *)
CompleteOptimistically ==
  /\ FinalTimeout
  /\ remainingChunks = 0 /\ originator
  /\ worker' = ReportTo(worker)
  /\ sender' = "stopped"
  /\ UNCHANGED <<remainingChunks, currentIndex, originator, recipient, timer, receiverVars,
                 callerVars, network>>

(* The same before Start was read: originator.get throws, the actor is restarted. *)
RestartSender ==
  /\ FinalTimeout
  /\ remainingChunks = 0 /\ ~originator
  /\ remainingChunks' = NumChunks /\ currentIndex' = -1
  /\ originator' = FALSE /\ recipient' = FALSE
  /\ timer' = NoTimer
  /\ UNCHANGED <<sender, receiverVars, worker, callerVars, network>>

-----------------------------------------------------------------------------
(* The receiver. *)

(* Mutant: the receiver appends what it already has. *)
IsNewAlways(index) == index \in 0 .. NumChunks

IsNew(index) == index > latestIndex

ChunkArrives ==
  /\ receiver = "running" /\ toReceiver # <<>> /\ Head(toReceiver).kind = "StringChunk"
  /\ LET index == Head(toReceiver).index
     IN /\ \/ /\ IsNew(index)
              /\ builder' = Append(builder, index)
              /\ latestIndex' = index
           \/ /\ ~IsNew(index)
              /\ UNCHANGED <<builder, latestIndex>>
        /\ toSender' = Append(toSender, Ack(index))
  /\ toReceiver' = Tail(toReceiver)
  /\ UNCHANGED <<senderVars, receiver, worker, callerVars, start, oversized>>

(* The asker is local; it no longer listens if its ask has timed out. *)
CompleteArrives ==
  /\ receiver = "running" /\ toReceiver # <<>> /\ Head(toReceiver).kind = "Complete"
  /\ toSender' = Append(toSender, Ack(Head(toReceiver).index))
  /\ toReceiver' = Tail(toReceiver)
  /\ \/ /\ caller = "waiting"
        /\ caller' = "received"
        /\ answer' = builder
     \/ caller # "waiting" /\ UNCHANGED callerVars
  /\ receiver' = "stopped"
  /\ UNCHANGED <<senderVars, builder, latestIndex, worker, start, oversized>>

-----------------------------------------------------------------------------
(* A message between the nodes is lost, or comes to an actor that is gone. *)

LoseToSender ==
  /\ toSender # <<>>
  /\ toSender' = Tail(toSender)
  /\ UNCHANGED <<senderVars, receiverVars, worker, callerVars, start, oversized, toReceiver>>

LoseToReceiver ==
  /\ toReceiver # <<>>
  /\ toReceiver' = Tail(toReceiver)
  /\ UNCHANGED <<senderVars, receiverVars, worker, callerVars, start, oversized, toSender>>

LoseOversized ==
  /\ oversized
  /\ oversized' = FALSE
  /\ UNCHANGED <<senderVars, receiverVars, worker, callerVars, start, toSender, toReceiver>>

-----------------------------------------------------------------------------
SenderStep ==
  \/ Start \/ ReadyArrives
  \/ ObsoleteAck \/ AckOfChunk \/ AckOfComplete
  \/ ObsoleteTimeout \/ ChunkTimeout
  \/ GiveUp \/ CompleteOptimistically \/ RestartSender

ReceiverStep == ChunkArrives \/ CompleteArrives

Next ==
  \/ RouteOversized \/ CallerTimesOut \/ WorkerTimesOut
  \/ SenderStep \/ TimerFires
  \/ ReceiverStep
  \/ LoseToSender \/ LoseToReceiver \/ LoseOversized

(***************************************************************************)
(* Actors read their mail and timers fire.  Nothing is assumed of losses:  *)
(* every message between the nodes may be lost.                            *)
(***************************************************************************)
Fairness ==
  /\ WF_vars(SenderStep) /\ WF_vars(TimerFires)
  /\ WF_vars(ReceiverStep)
  /\ WF_vars(RouteOversized) /\ WF_vars(CallerTimesOut) /\ WF_vars(WorkerTimesOut)

Spec == Init /\ [][Next]_vars

FairSpec == Spec /\ Fairness

-----------------------------------------------------------------------------
(* Properties. *)

Delivery == INSTANCE StringDelivery WITH Text <- Text, caller <- caller, answer <- answer

(***************************************************************************)
(* Whatever is lost, late or sent twice, the caller gets the whole text    *)
(* once or a failure: no chunk is missing, repeated or out of place, as    *)
(* the receiver only looks whether the index has grown.                    *)
(***************************************************************************)
WholeTextOrFailure == Delivery!Spec

(***************************************************************************)
(* A worker is told of the completion only when the receiver has the whole *)
(* text, also when the sender assumes so after its last attempt.           *)
(***************************************************************************)
CompletionIsEarned == worker = "completed" => builder = Text

(***************************************************************************)
(* A sender that has begun to send stops, or fails and starts afresh,      *)
(* even if nothing arrives any more.                                       *)
(***************************************************************************)
SendingEnds == (sender = "running" /\ recipient) ~> (sender = "stopped" \/ ~recipient)

=============================================================================
