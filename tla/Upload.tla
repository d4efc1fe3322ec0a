------------------------------- MODULE Upload -------------------------------
(***************************************************************************)
(* The upload of a file.  The browser posts it to StreamController, which  *)
(* gives one block at a time to a StreamSendActor and waits for its        *)
(* UploadChunkAck; that actor sends the block to an UploadActor, anywhere  *)
(* in the cluster, and sends it again when no Ack comes.  At the end the   *)
(* controller asks for the UploadTimeout and sends UploadComplete.         *)
(*                                                                         *)
(* Controller and StreamSendActor are on one node.  Between the nodes      *)
(* messages of one actor to another keep their order and may be lost.  A   *)
(* block of bytes is represented by its number, the file by their          *)
(* sequence.                                                               *)
(***************************************************************************)
EXTENDS Integers, Sequences

CONSTANTS
  NumBlocks,        \* the blocks of the file
  MaxRestarts       \* bounds how often the UploadActor fails

ASSUME UploadAssumption == NumBlocks \in Nat \ {0} /\ MaxRestarts \in Nat

LastAttempt == 3    \* StreamChunkTimeout gives up after this one; the first is 0

File == [i \in 1 .. NumBlocks |-> i]

VARIABLES
  \* StreamController
  controller,       \* "sending", "timing" (GetUploadTimeout), "completing", "answered" or "failed"
  given,            \* how many blocks it has given to the StreamSendActor
  \* StreamSendActor
  sendActor,        \* "running" or "stopped"
  currentIndex,
  currentBlock,     \* 0 when no block is under way; currentAsk is set with it
  timer,            \* currentTimeout, while it runs
  timeouts,         \* the StreamChunkTimeouts in its mailbox
  \* UploadActor
  uploadActor,      \* "running" or "stopped"
  chunkBuffer, lastIndex, uploadComplete,
  uploaded,         \* the lazy val: Unread, or the bytes that were there at its first use
  restarts,         \* how often this actor has failed and started afresh
  \* the messages under way
  chunks, acks,     \* between the two actors
  request, reply    \* between the controller and the UploadActor

controllerVars == <<controller, given>>
sendVars == <<sendActor, currentIndex, currentBlock, timer, timeouts>>
bufferVars == <<uploadActor, chunkBuffer, lastIndex, uploadComplete, uploaded, restarts>>
network == <<chunks, acks, request, reply>>
uploadVars == <<controllerVars, sendVars, bufferVars, network>>

Block == 1 .. NumBlocks
Unread == <<0>>
UploadChunk == [index : Block, chunk : Block]
NoTimer == [index |-> 0, attempt |-> 0]
StreamChunkTimeout == [index : Block, attempt : 0 .. LastAttempt]

UploadTypeOK ==
  /\ controller \in {"sending", "timing", "completing", "answered", "failed"}
  /\ given \in 0 .. NumBlocks
  /\ sendActor \in {"running", "stopped"}
  /\ currentIndex \in 1 .. NumBlocks + 1
  /\ currentBlock \in 0 .. NumBlocks
  /\ timer \in StreamChunkTimeout \cup {NoTimer}
  /\ timeouts \subseteq StreamChunkTimeout
  /\ uploadActor \in {"running", "stopped"}
  /\ chunkBuffer \in Seq(Block)
  /\ lastIndex \in {-1} \cup Block
  /\ uploadComplete \in BOOLEAN
  /\ uploaded \in Seq(Block) \cup {Unread}
  /\ restarts \in 0 .. MaxRestarts
  /\ chunks \in Seq(UploadChunk)
  /\ acks \in Seq(Block)
  /\ request \in {"none", "GetUploadTimeout", "UploadComplete"}
  /\ reply \in {"none", "UploadTimeout", "UploadProcessSuccessful"}

UploadInit ==
  /\ controller = "sending" /\ given = 0
  /\ sendActor = "running" /\ currentIndex = 1 /\ currentBlock = 0
  /\ timer = NoTimer /\ timeouts = {}
  /\ uploadActor = "running"
  /\ chunkBuffer = <<>> /\ lastIndex = -1 /\ uploadComplete = FALSE
  /\ uploaded = Unread /\ restarts = 0
  /\ chunks = <<>> /\ acks = <<>> /\ request = "none" /\ reply = "none"

-----------------------------------------------------------------------------
(* StreamSendActor. *)

SendBlock(block, attempt) ==
  /\ chunks' = Append(chunks, [index |-> currentIndex, chunk |-> block])
  /\ timer' = [index |-> currentIndex, attempt |-> attempt]

(* The next block of the body is there, and the one before is acknowledged. *)
GiveBlock ==
  /\ controller = "sending" /\ given < NumBlocks
  /\ currentBlock = 0
  /\ given' = given + 1
  /\ currentBlock' = given + 1
  /\ SendBlock(given + 1, 0)
  /\ UNCHANGED <<controller, sendActor, currentIndex, timeouts, bufferVars, acks, request, reply>>

(* A mutant: any Ack is taken for the current block's. *)
IsCurrentAlways(index) == TRUE

(* An Ack of an earlier block, or a second one of this block, is ignored. *)
IsCurrent(index) == index = currentIndex

AckArrives ==
  /\ sendActor = "running" /\ acks # <<>>
  /\ acks' = Tail(acks)
  /\ IF IsCurrent(Head(acks))
     THEN /\ currentIndex' = currentIndex + 1
          /\ currentBlock' = 0
          /\ timer' = NoTimer
     ELSE UNCHANGED <<currentIndex, currentBlock, timer>>
  /\ UNCHANGED <<controllerVars, sendActor, timeouts, bufferVars, chunks, request, reply>>

TimerFires ==
  /\ timer # NoTimer
  /\ timer' = NoTimer
  /\ timeouts' = timeouts \cup {timer}
  /\ UNCHANGED <<controllerVars, sendActor, currentIndex, currentBlock, bufferVars, network>>

(* A mutant: the attempts are counted from one. *)
MayTryAgainOnceMore(timeout) == timeout.index = currentIndex /\ timeout.attempt <= LastAttempt

(* The timeout is of the current block, and not that of its last attempt. *)
MayTryAgain(timeout) == timeout.index = currentIndex /\ timeout.attempt < LastAttempt

TimeoutArrives(timeout) ==
  /\ sendActor = "running" /\ timeout \in timeouts
  /\ timeouts' = timeouts \ {timeout}
  /\ IF MayTryAgain(timeout)
     THEN SendBlock(currentBlock, timeout.attempt + 1)
     ELSE UNCHANGED <<timer, chunks>>
  /\ UNCHANGED <<controllerVars, sendActor, currentIndex, currentBlock, bufferVars,
                 acks, request, reply>>

-----------------------------------------------------------------------------
(* StreamController. *)

(* The body is read, its last block acknowledged: the sender is thrown away, with its mail. *)
BodyEnds ==
  /\ controller = "sending" /\ given = NumBlocks /\ currentBlock = 0
  /\ controller' = "timing"
  /\ sendActor' = "stopped"
  /\ acks' = <<>> /\ timeouts' = {}
  /\ request' = "GetUploadTimeout"
  /\ UNCHANGED <<given, currentIndex, currentBlock, timer, bufferVars, chunks, reply>>

HearTimeout ==
  /\ controller = "timing" /\ reply = "UploadTimeout"
  /\ controller' = "completing"
  /\ reply' = "none"
  /\ request' = "UploadComplete"
  /\ UNCHANGED <<given, sendVars, bufferVars, chunks, acks>>

HearSuccess ==
  /\ controller = "completing" /\ reply = "UploadProcessSuccessful"
  /\ controller' = "answered"
  /\ reply' = "none"
  /\ UNCHANGED <<given, sendVars, bufferVars, chunks, acks, request>>

(* An ask of the controller times out, or the browser breaks the connection. *)
UploadFails ==
  /\ controller \in {"sending", "timing", "completing"}
  /\ controller' = "failed"
  /\ UNCHANGED <<given, sendVars, bufferVars, network>>

-----------------------------------------------------------------------------
(* UploadActor. *)

(* A mutant: a chunk that is sent again is stored again. *)
IsNewOrRepeated(index) == index >= lastIndex

IsNew(index) == index > lastIndex

ChunkArrives ==
  /\ uploadActor = "running" /\ chunks # <<>>
  /\ LET message == Head(chunks) IN
       /\ chunks' = Tail(chunks)
       /\ IF IsNew(message.index)
          THEN /\ chunkBuffer' = Append(chunkBuffer, message.chunk)
               /\ lastIndex' = message.index
          ELSE UNCHANGED <<chunkBuffer, lastIndex>>
       /\ acks' = IF sendActor = "running" THEN Append(acks, message.index) ELSE acks
  /\ UNCHANGED <<controllerVars, sendVars, uploadActor, uploadComplete, uploaded, restarts,
                 request, reply>>

TimeoutIsAsked ==
  /\ uploadActor = "running" /\ request = "GetUploadTimeout"
  /\ request' = "none"
  /\ reply' = "UploadTimeout"
  /\ UNCHANGED <<controllerVars, sendVars, bufferVars, chunks, acks>>

(* The file as the actor reads it; the lazy val keeps what it finds first. *)
Uploaded == IF uploaded = Unread THEN chunkBuffer ELSE uploaded

(* UploadComplete: processBuffer reads the file, starts its work and answers. *)
CompleteArrives ==
  /\ uploadActor = "running" /\ request = "UploadComplete"
  /\ uploadComplete' = TRUE
  /\ uploaded' = Uploaded
  /\ request' = "none"
  /\ reply' = "UploadProcessSuccessful"
  /\ UNCHANGED <<controllerVars, sendVars, uploadActor, chunkBuffer, lastIndex, restarts,
                 chunks, acks>>

(* A handler looks at the file before UploadComplete. *)
LookEarly ==
  /\ uploadActor = "running" /\ ~uploadComplete
  /\ uploaded' = Uploaded
  /\ UNCHANGED <<controllerVars, sendVars, uploadActor, chunkBuffer, lastIndex, uploadComplete,
                 restarts, network>>

(***************************************************************************)
(* A part of a zipped file cannot be unzipped, nor half of a character     *)
(* read: the exception restarts the actor, which loses all it has.         *)
(***************************************************************************)
FailEarly ==
  /\ uploadActor = "running" /\ ~uploadComplete
  /\ uploaded = Unread /\ chunkBuffer \notin {<<>>, File}
  /\ restarts < MaxRestarts
  /\ restarts' = restarts + 1
  /\ chunkBuffer' = <<>> /\ lastIndex' = -1
  /\ UNCHANGED <<controllerVars, sendVars, uploadActor, uploadComplete, uploaded, network>>

StopActor ==
  /\ uploadActor = "running" /\ uploadComplete
  /\ uploadActor' = "stopped"
  /\ UNCHANGED <<controllerVars, sendVars, chunkBuffer, lastIndex, uploadComplete, uploaded,
                 restarts, network>>

-----------------------------------------------------------------------------
(* The network between the nodes. *)

LoseChunk ==
  /\ chunks # <<>> /\ chunks' = Tail(chunks)
  /\ UNCHANGED <<controllerVars, sendVars, bufferVars, acks, request, reply>>

LoseAck ==
  /\ acks # <<>> /\ acks' = Tail(acks)
  /\ UNCHANGED <<controllerVars, sendVars, bufferVars, chunks, request, reply>>

LoseRequest ==
  /\ request # "none" /\ request' = "none"
  /\ UNCHANGED <<controllerVars, sendVars, bufferVars, chunks, acks, reply>>

LoseReply ==
  /\ reply # "none" /\ reply' = "none"
  /\ UNCHANGED <<controllerVars, sendVars, bufferVars, chunks, acks, request>>

-----------------------------------------------------------------------------
(* What all uploads do; the reading of the file is up to the kind of upload. *)
Transfer ==
  \/ GiveBlock \/ AckArrives \/ TimerFires \/ \E t \in timeouts : TimeoutArrives(t)
  \/ BodyEnds \/ HearTimeout \/ HearSuccess \/ UploadFails
  \/ ChunkArrives \/ TimeoutIsAsked
  \/ LoseChunk \/ LoseAck \/ LoseRequest \/ LoseReply

-----------------------------------------------------------------------------
(* Properties. *)

(***************************************************************************)
(* Whatever is lost, late or sent again, the buffer holds a piece of the   *)
(* file with no block missing, repeated or out of place, which ends with   *)
(* lastIndex: the receiver only looks whether the index has grown.         *)
(***************************************************************************)
BufferIsInOrder ==
  \E first \in 1 .. NumBlocks + 1 :
    chunkBuffer = SubSeq(File, first, IF lastIndex = -1 THEN 0 ELSE lastIndex)

(***************************************************************************)
(* UploadComplete finds the whole file in the buffer of an actor that has  *)
(* not failed: the controller does not send it before every block is       *)
(* acknowledged, and no Ack stands for another block.                      *)
(***************************************************************************)
CompleteIsWhole == uploadComplete /\ restarts = 0 => chunkBuffer = File

=============================================================================
