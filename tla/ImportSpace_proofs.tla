------------------------- MODULE ImportSpace_proofs -------------------------
(***************************************************************************)
(* For every length of the file, number of restarts and set of Spaces: the *)
(* upload gives UploadComplete the whole file, and a Space is neither      *)
(* shown nor reported as made before it can be used.                       *)
(***************************************************************************)
EXTENDS ImportSpace, TLAPS

(***************************************************************************)
(* The sender: the block under way is the current one, and whatever may    *)
(* still be sent again is a block that was given.                          *)
(***************************************************************************)
SenderInStep ==
  /\ currentBlock # 0 => currentBlock = currentIndex /\ given = currentIndex
  /\ currentBlock = 0 => given = currentIndex - 1
  /\ timer # NoTimer => timer.index = currentIndex /\ currentBlock # 0
  /\ \A t \in timeouts : t.index <= given

(***************************************************************************)
(* The network: chunks come in order, no older than the block before the   *)
(* current one, and behind every Ack that is under way.                    *)
(***************************************************************************)
ChunksInOrder ==
  \A n \in 1 .. Len(chunks) :
    /\ chunks[n].chunk = chunks[n].index
    /\ currentIndex - 1 <= chunks[n].index /\ chunks[n].index <= given
    /\ \A m \in 1 .. n : chunks[m].index <= chunks[n].index

AcksBehind ==
  \A n \in 1 .. Len(acks) :
    /\ acks[n] <= given
    /\ lastIndex # -1 => acks[n] <= lastIndex
    /\ \A m \in 1 .. Len(chunks) : acks[n] <= chunks[m].index

(***************************************************************************)
(* The receiver: unless it has failed it has every block before the        *)
(* current one, and its buffer ends with the block lastIndex.              *)
(***************************************************************************)
ReceiverInStep ==
  /\ lastIndex # -1 => currentIndex - 1 <= lastIndex /\ lastIndex <= given
  /\ lastIndex = -1 /\ restarts = 0 => acks = <<>> /\ currentIndex = 1

BufferEndsWithLast ==
  /\ lastIndex = -1 => chunkBuffer = <<>>
  /\ lastIndex # -1 =>
       /\ Len(chunkBuffer) \in 1 .. lastIndex
       /\ \A j \in 1 .. Len(chunkBuffer) : chunkBuffer[j] = lastIndex - Len(chunkBuffer) + j
       /\ restarts = 0 => Len(chunkBuffer) = lastIndex

(* Nothing is said of the end of the upload before all blocks are acknowledged. *)
EndIsEarned ==
  \/ controller \in {"timing", "completing", "answered"}
  \/ request # "none" \/ reply # "none" \/ uploadComplete
  => currentIndex = NumBlocks + 1

UploadInv ==
  /\ UploadTypeOK /\ SenderInStep /\ ChunksInOrder /\ AcksBehind
  /\ ReceiverInStep /\ BufferEndsWithLast /\ EndIsEarned

(***************************************************************************)
(* The making of a Space.  The request to insert it, the persister that is *)
(* about to, and the answer that it did: there is one of them at most, and *)
(* none before it is asked for or after it was heard.                      *)
(***************************************************************************)
Inserting(s) ==
  \/ <<s, "CreateSpacePersist">> \in mail
  \/ s \in checked
  \/ <<s, "Changed">> \in answers

OneInsertion(s) ==
  /\ maker[s] \in {"idle", "numbering", "booting", "opening", "done"} => ~Inserting(s)
  /\ <<s, "CreateSpacePersist">> \in mail => s \notin checked
  /\ <<s, "Changed">> \in answers => s \notin checked /\ <<s, "CreateSpacePersist">> \notin mail

(* By hand: the Space is in the table before its actor is asked. *)
MadeByHand(s) ==
  /\ <<s, "Changed">> \in answers \/ maker[s] = "booting" => s \in Imported \/ status[s] = "Normal"
  /\ <<s, "InitialState">> \in mail => s \notin Imported
  /\ <<s, "StateInitialized">> \in answers => s \notin Imported /\ state[s] # "none"

(* By an import: the Space has its state before anybody is asked to show it. *)
MadeByImport(s) ==
  /\ <<s, "SetState">> \in mail => s \in Imported
  /\ \/ <<s, "ThingFound">> \in answers \/ <<s, "ChangeSpaceStatus">> \in mail
     \/ maker[s] = "opening" \/ <<s, "StatusChanged">> \in answers
     => s \in Imported /\ state[s] = "SetState"
  /\ <<s, "ChangeSpaceStatus">> \in mail \/ <<s, "StatusChanged">> \in answers
     => maker[s] \in {"opening", "done", "stuck"}
  /\ <<s, "StatusChanged">> \in answers /\ maker[s] = "opening" => status[s] = "Normal"

CreationInv ==
  /\ CreationTypeOK
  /\ \A s \in Space : OneInsertion(s) /\ MadeByHand(s) /\ MadeByImport(s)
  /\ VisibleImportIsWhole /\ DoneIsUsable

ImportTypeOK ==
  /\ failed \in BOOLEAN
  /\ imported \in Seq(Block) \cup {NotYet}
  /\ browser \in {"polling", "finished"}
  /\ polls \in 0 .. MaxPolls

IInv == UploadInv /\ CreationInv /\ ImportTypeOK

-----------------------------------------------------------------------------
(* The making of a Space: each step of its maker and of those it asks. *)

LEMMA BeginKeeps ==
  ASSUME CreationInv, NEW s \in Space, Begin(s)
  PROVE  CreationInv'
<1> USE DEF CreationInv, CreationTypeOK, Begin
<1>1. CreationTypeOK'
  BY DEF Step, Message, Answer
<1>2. ASSUME NEW t \in Space
      PROVE  OneInsertion(t)' /\ MadeByHand(t)' /\ MadeByImport(t)'
  <2>1. OneInsertion(t)'
    BY DEF OneInsertion, Inserting
  <2>2. MadeByHand(t)'
    BY DEF OneInsertion, Inserting, MadeByHand
  <2>3. MadeByImport(t)'
    BY DEF OneInsertion, Inserting, MadeByImport
  <2> QED BY <2>1, <2>2, <2>3
<1>3. VisibleImportIsWhole'
  BY DEF VisibleImportIsWhole, MadeByHand, MadeByImport
<1>4. DoneIsUsable'
  BY DEF DoneIsUsable, OneInsertion, Inserting, MadeByHand, MadeByImport
<1> QED BY <1>1, <1>2, <1>3, <1>4

LEMMA OIDsArriveKeeps ==
  ASSUME CreationInv, NEW s \in Space, OIDsArrive(s)
  PROVE  CreationInv'
<1> USE DEF CreationInv, CreationTypeOK, OIDsArrive, GoOn
<1>1. CreationTypeOK'
  BY DEF Step, Message, Answer
<1>2. ASSUME NEW t \in Space
      PROVE  OneInsertion(t)' /\ MadeByHand(t)' /\ MadeByImport(t)'
  <2>1. OneInsertion(t)'
    BY DEF OneInsertion, Inserting
  <2>2. MadeByHand(t)'
    BY DEF OneInsertion, Inserting, MadeByHand
  <2>3. MadeByImport(t)'
    BY DEF OneInsertion, Inserting, MadeByImport
  <2> QED BY <2>1, <2>2, <2>3
<1>3. VisibleImportIsWhole'
  BY DEF VisibleImportIsWhole, MadeByHand, MadeByImport
<1>4. DoneIsUsable'
  BY DEF DoneIsUsable, OneInsertion, Inserting, MadeByHand, MadeByImport
<1> QED BY <1>1, <1>2, <1>3, <1>4

LEMMA CreatedKeeps ==
  ASSUME CreationInv, NEW s \in Space, Created(s)
  PROVE  CreationInv'
<1> USE DEF CreationInv, CreationTypeOK, Created, GoOn, Hear
<1>1. CreationTypeOK'
  BY DEF Step, Message, Answer
<1>2. ASSUME NEW t \in Space
      PROVE  OneInsertion(t)' /\ MadeByHand(t)' /\ MadeByImport(t)'
  <2>1. OneInsertion(t)'
    BY DEF OneInsertion, Inserting
  <2>2. MadeByHand(t)'
    BY DEF OneInsertion, Inserting, MadeByHand
  <2>3. MadeByImport(t)'
    BY DEF OneInsertion, Inserting, MadeByImport
  <2> QED BY <2>1, <2>2, <2>3
<1>3. VisibleImportIsWhole'
  BY DEF VisibleImportIsWhole, MadeByHand, MadeByImport
<1>4. DoneIsUsable'
  BY DEF DoneIsUsable, OneInsertion, Inserting, MadeByHand, MadeByImport
<1> QED BY <1>1, <1>2, <1>3, <1>4

LEMMA RefusedKeeps ==
  ASSUME CreationInv, NEW s \in Space, Refused(s)
  PROVE  CreationInv'
<1> USE DEF CreationInv, CreationTypeOK, Refused, Hear
<1>1. CreationTypeOK'
  BY DEF Step, Message, Answer
<1>2. ASSUME NEW t \in Space
      PROVE  OneInsertion(t)' /\ MadeByHand(t)' /\ MadeByImport(t)'
  <2>1. OneInsertion(t)'
    BY DEF OneInsertion, Inserting
  <2>2. MadeByHand(t)'
    BY DEF OneInsertion, Inserting, MadeByHand
  <2>3. MadeByImport(t)'
    BY DEF OneInsertion, Inserting, MadeByImport
  <2> QED BY <2>1, <2>2, <2>3
<1>3. VisibleImportIsWhole'
  BY DEF VisibleImportIsWhole, MadeByHand, MadeByImport
<1>4. DoneIsUsable'
  BY DEF DoneIsUsable, OneInsertion, Inserting, MadeByHand, MadeByImport
<1> QED BY <1>1, <1>2, <1>3, <1>4

LEMMA InitializedKeeps ==
  ASSUME CreationInv, NEW s \in Space, Initialized(s)
  PROVE  CreationInv'
<1> USE DEF CreationInv, CreationTypeOK, Initialized, Hear
<1>1. CreationTypeOK'
  BY DEF Step, Message, Answer
<1>2. ASSUME NEW t \in Space
      PROVE  OneInsertion(t)' /\ MadeByHand(t)' /\ MadeByImport(t)'
  <2>1. OneInsertion(t)'
    BY DEF OneInsertion, Inserting
  <2>2. MadeByHand(t)'
    BY DEF OneInsertion, Inserting, MadeByHand
  <2>3. MadeByImport(t)'
    BY DEF OneInsertion, Inserting, MadeByImport
  <2> QED BY <2>1, <2>2, <2>3
<1>3. VisibleImportIsWhole'
  BY DEF VisibleImportIsWhole, MadeByHand, MadeByImport
<1>4. DoneIsUsable'
  BY DEF DoneIsUsable, OneInsertion, Inserting, MadeByHand, MadeByImport
<1> QED BY <1>1, <1>2, <1>3, <1>4

LEMMA StateSetKeeps ==
  ASSUME CreationInv, NEW s \in Space, StateSet(s)
  PROVE  CreationInv'
<1> USE DEF CreationInv, CreationTypeOK, StateSet, GoOn, Hear
<1>1. CreationTypeOK'
  BY DEF Step, Message, Answer
<1>2. ASSUME NEW t \in Space
      PROVE  OneInsertion(t)' /\ MadeByHand(t)' /\ MadeByImport(t)'
  <2>1. OneInsertion(t)'
    BY DEF OneInsertion, Inserting
  <2>2. MadeByHand(t)'
    BY DEF OneInsertion, Inserting, MadeByHand
  <2>3. MadeByImport(t)'
    <3>1. CASE t = s
      BY <3>1 DEF OneInsertion, Inserting, MadeByImport
    <3>2. CASE t # s
      BY <3>2 DEF OneInsertion, Inserting, MadeByImport
    <3> QED BY <3>1, <3>2
  <2> QED BY <2>1, <2>2, <2>3
<1>3. VisibleImportIsWhole'
  BY DEF VisibleImportIsWhole, MadeByHand, MadeByImport
<1>4. DoneIsUsable'
  BY DEF DoneIsUsable, OneInsertion, Inserting, MadeByHand, MadeByImport
<1> QED BY <1>1, <1>2, <1>3, <1>4

LEMMA OpenedKeeps ==
  ASSUME CreationInv, NEW s \in Space, Opened(s)
  PROVE  CreationInv'
<1> USE DEF CreationInv, CreationTypeOK, Opened, Hear
<1>1. CreationTypeOK'
  BY DEF Step, Message, Answer
<1>2. ASSUME NEW t \in Space
      PROVE  OneInsertion(t)' /\ MadeByHand(t)' /\ MadeByImport(t)'
  <2>1. OneInsertion(t)'
    BY DEF OneInsertion, Inserting
  <2>2. MadeByHand(t)'
    BY DEF OneInsertion, Inserting, MadeByHand
  <2>3. MadeByImport(t)'
    BY DEF OneInsertion, Inserting, MadeByImport
  <2> QED BY <2>1, <2>2, <2>3
<1>3. VisibleImportIsWhole'
  BY DEF VisibleImportIsWhole, MadeByHand, MadeByImport
<1>4. DoneIsUsable'
  BY DEF DoneIsUsable, OneInsertion, Inserting, MadeByHand, MadeByImport
<1> QED BY <1>1, <1>2, <1>3, <1>4

LEMMA RequestFailsKeeps ==
  ASSUME CreationInv, NEW s \in Space, RequestFails(s)
  PROVE  CreationInv'
<1> USE DEF CreationInv, CreationTypeOK, RequestFails
<1>1. CreationTypeOK'
  BY DEF Step, Message, Answer
<1>2. ASSUME NEW t \in Space
      PROVE  OneInsertion(t)' /\ MadeByHand(t)' /\ MadeByImport(t)'
  <2>1. OneInsertion(t)'
    BY DEF OneInsertion, Inserting
  <2>2. MadeByHand(t)'
    BY DEF OneInsertion, Inserting, MadeByHand
  <2>3. MadeByImport(t)'
    BY DEF OneInsertion, Inserting, MadeByImport
  <2> QED BY <2>1, <2>2, <2>3
<1>3. VisibleImportIsWhole'
  BY DEF VisibleImportIsWhole, MadeByHand, MadeByImport
<1>4. DoneIsUsable'
  BY DEF DoneIsUsable, OneInsertion, Inserting, MadeByHand, MadeByImport
<1> QED BY <1>1, <1>2, <1>3, <1>4

LEMMA CheckSpaceKeeps ==
  ASSUME CreationInv, NEW s \in Space, CheckSpace(s)
  PROVE  CreationInv'
<1> USE DEF CreationInv, CreationTypeOK
<1>1. /\ <<s, "CreateSpacePersist">> \in mail /\ mail' = mail \ {<<s, "CreateSpacePersist">>}
      /\ \/ checked' = checked \cup {s} /\ answers' = answers
         \/ checked' = checked /\ answers' = answers \cup {<<s, "ThingError">>}
      /\ UNCHANGED <<maker, status, state>>
  BY DEF CheckSpace, Read
<1>2. CreationTypeOK'
  BY <1>1 DEF Answer
<1>3. ASSUME NEW t \in Space
      PROVE  OneInsertion(t)' /\ MadeByHand(t)' /\ MadeByImport(t)'
  <2>1. \A answer : <<t, answer>> \in answers' => <<t, answer>> \in answers \/ answer = "ThingError"
    BY <1>1
  <2>2. OneInsertion(t)'
    BY <1>1 DEF OneInsertion, Inserting
  <2>3. MadeByHand(t)'
    BY <1>1, <2>1 DEF MadeByHand
  <2>4. MadeByImport(t)'
    BY <1>1, <2>1 DEF MadeByImport
  <2> QED BY <2>2, <2>3, <2>4
<1>4. VisibleImportIsWhole' /\ DoneIsUsable'
  BY <1>1 DEF VisibleImportIsWhole, DoneIsUsable
<1> QED BY <1>2, <1>3, <1>4

LEMMA InsertSpaceKeeps ==
  ASSUME CreationInv, NEW s \in Space, InsertSpace(s)
  PROVE  CreationInv'
<1> USE DEF CreationInv, CreationTypeOK, InsertSpace, InitialStatus
<1>1. CreationTypeOK'
  BY DEF Step, Message, Answer
<1>2. ASSUME NEW t \in Space
      PROVE  OneInsertion(t)' /\ MadeByHand(t)' /\ MadeByImport(t)'
  <2>1. OneInsertion(t)'
    BY DEF OneInsertion, Inserting
  <2>2. MadeByHand(t)'
    <3>1. CASE t = s
      BY <3>1 DEF OneInsertion, Inserting, MadeByHand
    <3>2. CASE t # s
      BY <3>2 DEF OneInsertion, Inserting, MadeByHand
    <3> QED BY <3>1, <3>2
  <2>3. MadeByImport(t)'
    <3>1. CASE t = s
      BY <3>1 DEF OneInsertion, Inserting, MadeByImport
    <3>2. CASE t # s
      BY <3>2 DEF OneInsertion, Inserting, MadeByImport
    <3> QED BY <3>1, <3>2
  <2> QED BY <2>1, <2>2, <2>3
<1>3. VisibleImportIsWhole'
  BY DEF VisibleImportIsWhole, MadeByHand, MadeByImport
<1>4. DoneIsUsable'
  BY DEF DoneIsUsable, OneInsertion, Inserting, MadeByHand, MadeByImport
<1> QED BY <1>1, <1>2, <1>3, <1>4

LEMMA PersisterStopsKeeps ==
  ASSUME CreationInv, NEW s \in Space, PersisterStops(s)
  PROVE  CreationInv'
<1> USE DEF CreationInv, CreationTypeOK, PersisterStops, InitialStatus
<1>1. CreationTypeOK'
  BY DEF Step, Message, Answer
<1>2. ASSUME NEW t \in Space
      PROVE  OneInsertion(t)' /\ MadeByHand(t)' /\ MadeByImport(t)'
  <2>1. OneInsertion(t)'
    BY DEF OneInsertion, Inserting
  <2>2. MadeByHand(t)'
    BY DEF OneInsertion, Inserting, MadeByHand
  <2>3. MadeByImport(t)'
    BY DEF OneInsertion, Inserting, MadeByImport
  <2> QED BY <2>1, <2>2, <2>3
<1>3. VisibleImportIsWhole'
  BY DEF VisibleImportIsWhole, MadeByHand, MadeByImport
<1>4. DoneIsUsable'
  BY DEF DoneIsUsable, OneInsertion, Inserting, MadeByHand, MadeByImport
<1> QED BY <1>1, <1>2, <1>3, <1>4

LEMMA ChangeSpaceStatusKeeps ==
  ASSUME CreationInv, NEW s \in Space, ChangeSpaceStatus(s)
  PROVE  CreationInv'
<1> USE DEF CreationInv, CreationTypeOK, ChangeSpaceStatus, Read
<1>1. CreationTypeOK'
  BY DEF Step, Message, Answer
<1>2. ASSUME NEW t \in Space
      PROVE  OneInsertion(t)' /\ MadeByHand(t)' /\ MadeByImport(t)'
  <2>1. OneInsertion(t)'
    BY DEF OneInsertion, Inserting
  <2>2. MadeByHand(t)'
    BY DEF OneInsertion, Inserting, MadeByHand
  <2>3. MadeByImport(t)'
    BY DEF OneInsertion, Inserting, MadeByImport
  <2> QED BY <2>1, <2>2, <2>3
<1>3. VisibleImportIsWhole'
  <2>1. ASSUME NEW t \in Imported, status'[t] = "Normal" PROVE state[t] = "SetState"
    <3>1. CASE t = s
      BY <2>1, <3>1 DEF MadeByImport
    <3>2. CASE t # s
      BY <2>1, <3>2 DEF VisibleImportIsWhole
    <3> QED BY <3>1, <3>2
  <2> QED BY <2>1 DEF VisibleImportIsWhole
<1>4. DoneIsUsable'
  BY DEF DoneIsUsable, OneInsertion, Inserting, MadeByHand, MadeByImport
<1> QED BY <1>1, <1>2, <1>3, <1>4

LEMMA InitialStateKeeps ==
  ASSUME CreationInv, NEW s \in Space, InitialState(s)
  PROVE  CreationInv'
<1> USE DEF CreationInv, CreationTypeOK, InitialState, Read
<1>1. CreationTypeOK'
  BY DEF Step, Message, Answer
<1>2. ASSUME NEW t \in Space
      PROVE  OneInsertion(t)' /\ MadeByHand(t)' /\ MadeByImport(t)'
  <2>1. OneInsertion(t)'
    BY DEF OneInsertion, Inserting
  <2>2. MadeByHand(t)'
    BY DEF OneInsertion, Inserting, MadeByHand
  <2>3. MadeByImport(t)'
    <3>1. CASE t = s
      BY <3>1 DEF OneInsertion, Inserting, MadeByHand, MadeByImport
    <3>2. CASE t # s
      BY <3>2 DEF OneInsertion, Inserting, MadeByHand, MadeByImport
    <3> QED BY <3>1, <3>2
  <2> QED BY <2>1, <2>2, <2>3
<1>3. VisibleImportIsWhole'
  <2>1. ASSUME NEW t \in Imported, status[t] = "Normal" PROVE state'[t] = "SetState"
    <3>1. CASE t = s
      BY <2>1, <3>1 DEF VisibleImportIsWhole, MadeByHand
    <3>2. CASE t # s
      BY <2>1, <3>2 DEF VisibleImportIsWhole
    <3> QED BY <3>1, <3>2
  <2> QED BY <2>1 DEF VisibleImportIsWhole
<1>4. DoneIsUsable'
  BY DEF DoneIsUsable, OneInsertion, Inserting, MadeByHand, MadeByImport
<1> QED BY <1>1, <1>2, <1>3, <1>4

LEMMA SetStateKeeps ==
  ASSUME CreationInv, NEW s \in Space, SetState(s)
  PROVE  CreationInv'
<1> USE DEF CreationInv, CreationTypeOK, SetState, Read
<1>1. CreationTypeOK'
  BY DEF Step, Message, Answer
<1>2. ASSUME NEW t \in Space
      PROVE  OneInsertion(t)' /\ MadeByHand(t)' /\ MadeByImport(t)'
  <2>1. OneInsertion(t)'
    BY DEF OneInsertion, Inserting
  <2>2. MadeByHand(t)'
    BY DEF OneInsertion, Inserting, MadeByHand
  <2>3. MadeByImport(t)'
    <3>1. CASE t = s
      BY <3>1 DEF OneInsertion, Inserting, MadeByImport
    <3>2. CASE t # s
      BY <3>2 DEF OneInsertion, Inserting, MadeByImport
    <3> QED BY <3>1, <3>2
  <2> QED BY <2>1, <2>2, <2>3
<1>3. VisibleImportIsWhole'
  <2>1. ASSUME NEW t \in Imported, status[t] = "Normal" PROVE state'[t] = "SetState"
    <3>1. CASE t = s
      BY <2>1, <3>1 DEF VisibleImportIsWhole, MadeByHand
    <3>2. CASE t # s
      BY <2>1, <3>2 DEF VisibleImportIsWhole
    <3> QED BY <3>1, <3>2
  <2> QED BY <2>1 DEF VisibleImportIsWhole
<1>4. DoneIsUsable'
  BY DEF DoneIsUsable, OneInsertion, Inserting, MadeByHand, MadeByImport
<1> QED BY <1>1, <1>2, <1>3, <1>4

(* What is under way may be lost. *)
LEMMA LossKeeps ==
  ASSUME CreationInv, mail' \subseteq mail, answers' \subseteq answers,
         UNCHANGED <<maker, checked, status, state>>
  PROVE  CreationInv'
<1> USE DEF CreationInv, CreationTypeOK
<1>1. CreationTypeOK'
  OBVIOUS
<1>2. ASSUME NEW t \in Space
      PROVE  OneInsertion(t)' /\ MadeByHand(t)' /\ MadeByImport(t)'
  BY DEF OneInsertion, Inserting, MadeByHand, MadeByImport
<1>3. VisibleImportIsWhole' /\ DoneIsUsable'
  BY DEF VisibleImportIsWhole, DoneIsUsable
<1> QED BY <1>1, <1>2, <1>3

LEMMA MakeKeeps == CreationInv /\ Make => CreationInv'
<1> SUFFICES ASSUME CreationInv, Make PROVE CreationInv'
  OBVIOUS
<1>1. ASSUME NEW s \in Space,
             \/ OIDsArrive(s) \/ Created(s) \/ Refused(s) \/ Initialized(s)
             \/ StateSet(s) \/ Opened(s) \/ RequestFails(s)
             \/ CheckSpace(s) \/ InsertSpace(s) \/ PersisterStops(s) \/ ChangeSpaceStatus(s)
             \/ InitialState(s) \/ SetState(s)
      PROVE  CreationInv'
  BY <1>1, OIDsArriveKeeps, CreatedKeeps, RefusedKeeps, InitializedKeeps, StateSetKeeps,
     OpenedKeeps, RequestFailsKeeps, CheckSpaceKeeps, InsertSpaceKeeps, PersisterStopsKeeps,
     ChangeSpaceStatusKeeps, InitialStateKeeps, SetStateKeeps
<1>2. ASSUME NEW m \in mail, LoseMail(m) PROVE CreationInv'
  BY <1>2, LossKeeps DEF LoseMail
<1>3. ASSUME NEW a \in answers, LoseAnswer(a) PROVE CreationInv'
  BY <1>3, LossKeeps DEF LoseAnswer
<1> QED BY <1>1, <1>2, <1>3 DEF Make

-----------------------------------------------------------------------------
(* The upload: each step of the two nodes and of the network between them. *)

(* The first n elements of a file are told by their numbers. *)
LEMMA PieceOfFile ==
  ASSUME NEW first \in Nat \ {0}, NEW last \in 0 .. NumBlocks, first <= last + 1,
         NEW s \in Seq(Block), Len(s) = last + 1 - first,
         \A j \in 1 .. Len(s) : s[j] = first + j - 1
  PROVE  s = SubSeq(File, first, last)
<1> USE UploadAssumption
<1>1. File \in Seq(Block) /\ Len(File) = NumBlocks /\ \A i \in 1 .. NumBlocks : File[i] = i
  BY DEF File, Block
<1>2. PICK piece : piece = SubSeq(File, first, last)
  OBVIOUS
<1>3. piece \in Seq(Block) /\ Len(piece) = last + 1 - first
        /\ \A j \in 1 .. last + 1 - first : piece[j] = File[first + j - 1]
  BY <1>1, <1>2
<1>4. \A j \in 1 .. last + 1 - first : piece[j] = s[j]
  <2> SUFFICES ASSUME NEW j \in 1 .. last + 1 - first PROVE piece[j] = s[j]
    OBVIOUS
  <2>1. first + j - 1 \in 1 .. NumBlocks
    OBVIOUS
  <2> QED BY <1>1, <1>3, <2>1
<1>5. piece = s
  BY <1>3, <1>4
<1> QED BY <1>2, <1>5

LEMMA NumbersOfUpload ==
  ASSUME UploadTypeOK
  PROVE  /\ NumBlocks \in Nat \ {0} /\ given \in 0 .. NumBlocks
         /\ currentIndex \in 1 .. NumBlocks + 1 /\ currentBlock \in 0 .. NumBlocks
         /\ lastIndex \in {-1} \cup (1 .. NumBlocks)
         /\ chunks \in Seq(UploadChunk) /\ acks \in Seq(1 .. NumBlocks)
         /\ Len(chunks) \in Nat /\ Len(acks) \in Nat
         /\ \A n \in 1 .. Len(chunks) : chunks[n].index \in 1 .. NumBlocks
         /\ \A n \in 1 .. Len(acks) : acks[n] \in 1 .. NumBlocks
<1>1. /\ NumBlocks \in Nat \ {0} /\ given \in 0 .. NumBlocks
      /\ currentIndex \in 1 .. NumBlocks + 1 /\ currentBlock \in 0 .. NumBlocks
      /\ lastIndex \in {-1} \cup (1 .. NumBlocks)
      /\ chunks \in Seq(UploadChunk) /\ acks \in Seq(1 .. NumBlocks)
  BY UploadAssumption DEF UploadTypeOK, Block
<1>2. \A n \in 1 .. Len(chunks) : chunks[n] \in UploadChunk
  BY <1>1
<1> QED BY <1>1, <1>2 DEF UploadChunk, Block

(* The ends of the upload, and who looks at the file. *)
LEMMA ControlKeeps ==
  ASSUME UploadInv, UploadTypeOK', EndIsEarned',
         UNCHANGED <<given, sendVars, chunkBuffer, lastIndex, restarts, chunks, acks>>
  PROVE  UploadInv'
BY DEF UploadInv, SenderInStep, ChunksInOrder, AcksBehind, ReceiverInStep, BufferEndsWithLast,
       sendVars

LEMMA ControlStepKeeps ==
  ASSUME UploadInv,
         \/ HearTimeout \/ HearSuccess \/ UploadFails \/ TimeoutIsAsked \/ LoseRequest \/ LoseReply
         \/ CompleteArrives \/ LookEarly \/ StopActor
  PROVE  UploadInv'
<1> USE DEF UploadInv, controllerVars, sendVars, bufferVars, network
<1>1. UNCHANGED <<given, sendVars, chunkBuffer, lastIndex, restarts, chunks, acks>>
  BY DEF HearTimeout, HearSuccess, UploadFails, TimeoutIsAsked, LoseRequest, LoseReply,
         CompleteArrives, LookEarly, StopActor
<1>2. Uploaded \in Seq(Block)
  BY DEF Uploaded, UploadTypeOK
<1>3. UploadTypeOK'
  BY <1>2 DEF UploadTypeOK, HearTimeout, HearSuccess, UploadFails, TimeoutIsAsked, LoseRequest,
              LoseReply, CompleteArrives, LookEarly, StopActor
<1>4. EndIsEarned'
  BY DEF EndIsEarned, HearTimeout, HearSuccess, UploadFails, TimeoutIsAsked, LoseRequest,
         LoseReply, CompleteArrives, LookEarly, StopActor
<1> QED BY <1>1, <1>3, <1>4, ControlKeeps

LEMMA BodyEndsKeeps ==
  ASSUME UploadInv, BodyEnds
  PROVE  UploadInv'
<1> USE DEF UploadInv, BodyEnds, bufferVars
<1>1. UploadTypeOK'
  <2>1. <<>> \in Seq(Block)
    OBVIOUS
  <2> QED BY <2>1 DEF UploadTypeOK
<1>2. SenderInStep' /\ ChunksInOrder' /\ ReceiverInStep' /\ BufferEndsWithLast'
  BY DEF SenderInStep, ChunksInOrder, ReceiverInStep, BufferEndsWithLast
<1>3. AcksBehind'
  BY DEF AcksBehind
<1>4. EndIsEarned'
  BY NumbersOfUpload DEF EndIsEarned, SenderInStep
<1> QED BY <1>1, <1>2, <1>3, <1>4

LEMMA TimerFiresKeeps ==
  ASSUME UploadInv, TimerFires
  PROVE  UploadInv'
<1> USE DEF UploadInv, TimerFires, controllerVars, bufferVars, network
<1>1. UploadTypeOK'
  BY DEF UploadTypeOK
<1>2. SenderInStep'
  <2>1. timer.index = given /\ given \in Nat
    BY NumbersOfUpload DEF SenderInStep
  <2>2. \A t \in timeouts' : t.index <= given
    BY <2>1 DEF SenderInStep
  <2> QED BY <2>2 DEF SenderInStep
<1>3. ChunksInOrder' /\ AcksBehind' /\ ReceiverInStep' /\ BufferEndsWithLast' /\ EndIsEarned'
  BY DEF ChunksInOrder, AcksBehind, ReceiverInStep, BufferEndsWithLast, EndIsEarned
<1> QED BY <1>1, <1>2, <1>3

(* A block is sent, for the first time or again. *)
LEMMA ChunkIsSent ==
  ASSUME UploadInv, given' \in 0 .. NumBlocks, given <= given', currentIndex = given',
         chunks' = Append(chunks, [index |-> currentIndex, chunk |-> currentIndex]),
         UNCHANGED <<currentIndex, acks, lastIndex, restarts>>
  PROVE  chunks' \in Seq(UploadChunk) /\ ChunksInOrder' /\ AcksBehind' /\ ReceiverInStep'
<1> USE DEF UploadInv
<1>1. PICK msg : msg = [index |-> currentIndex, chunk |-> currentIndex]
  OBVIOUS
<1>2. currentIndex \in 1 .. NumBlocks /\ msg \in UploadChunk
        /\ msg.index = currentIndex /\ msg.chunk = currentIndex
  BY <1>1, NumbersOfUpload DEF UploadChunk, Block
<1>3. /\ chunks' \in Seq(UploadChunk) /\ Len(chunks') = Len(chunks) + 1
      /\ \A n \in 1 .. Len(chunks) : chunks'[n] = chunks[n]
      /\ chunks'[Len(chunks) + 1] = msg
  BY <1>1, <1>2, NumbersOfUpload
<1>4. \A n \in 1 .. Len(chunks) : chunks[n].index <= given
  BY DEF ChunksInOrder
<1>5. ChunksInOrder'
  <2> SUFFICES ASSUME NEW n \in 1 .. Len(chunks) + 1
               PROVE  /\ chunks'[n].chunk = chunks'[n].index
                      /\ currentIndex - 1 <= chunks'[n].index /\ chunks'[n].index <= given'
                      /\ \A m \in 1 .. n : chunks'[m].index <= chunks'[n].index
    BY <1>3 DEF ChunksInOrder
  <2>1. CASE n = Len(chunks) + 1
    BY <1>2, <1>3, <1>4, <2>1, NumbersOfUpload
  <2>2. CASE n \in 1 .. Len(chunks)
    <3>1. /\ chunks[n].chunk = chunks[n].index
          /\ currentIndex - 1 <= chunks[n].index /\ chunks[n].index <= given
          /\ \A m \in 1 .. n : chunks[m].index <= chunks[n].index
      BY <2>2 DEF ChunksInOrder
    <3>2. \A m \in 1 .. n : chunks'[m] = chunks[m]
      BY <1>3, <2>2, NumbersOfUpload
    <3>3. chunks'[n] = chunks[n]
      BY <1>3, <2>2
    <3>4. chunks[n].index <= given'
      <4>1. chunks[n].index \in Nat /\ given \in Nat /\ given' \in Nat
        BY <2>2, NumbersOfUpload
      <4> QED BY <3>1, <4>1
    <3> QED BY <3>1, <3>2, <3>3, <3>4
  <2>3. n = Len(chunks) + 1 \/ n \in 1 .. Len(chunks)
    BY NumbersOfUpload
  <2> QED BY <2>1, <2>2, <2>3
<1>6. AcksBehind'
  <2> SUFFICES ASSUME NEW n \in 1 .. Len(acks)
               PROVE  /\ acks[n] <= given'
                      /\ lastIndex # -1 => acks[n] <= lastIndex
                      /\ \A m \in 1 .. Len(chunks') : acks[n] <= chunks'[m].index
    BY DEF AcksBehind
  <2>1. /\ acks[n] <= given
        /\ lastIndex # -1 => acks[n] <= lastIndex
        /\ \A m \in 1 .. Len(chunks) : acks[n] <= chunks[m].index
    BY DEF AcksBehind
  <2>2. acks[n] \in Nat /\ given \in Nat /\ given' \in Nat /\ Len(chunks) \in Nat
    BY NumbersOfUpload
  <2>3. acks[n] <= given'
    BY <2>1, <2>2
  <2>4. ASSUME NEW m \in 1 .. Len(chunks') PROVE acks[n] <= chunks'[m].index
    <3>1. CASE m = Len(chunks) + 1
      BY <1>2, <1>3, <2>3, <3>1
    <3>2. CASE m \in 1 .. Len(chunks)
      BY <1>3, <2>1, <3>2
    <3> QED BY <1>3, <2>2, <3>1, <3>2
  <2> QED BY <2>1, <2>3, <2>4
<1>7. ReceiverInStep'
  BY NumbersOfUpload DEF ReceiverInStep
<1> QED BY <1>3, <1>5, <1>6, <1>7

LEMMA GiveBlockKeeps ==
  ASSUME UploadInv, GiveBlock
  PROVE  UploadInv'
<1> USE DEF UploadInv
<1>1. /\ controller = "sending" /\ given < NumBlocks /\ currentBlock = 0
      /\ given' = given + 1 /\ currentBlock' = given + 1 /\ currentIndex = given + 1
      /\ chunks' = Append(chunks, [index |-> currentIndex, chunk |-> currentIndex])
      /\ timer' = [index |-> currentIndex, attempt |-> 0]
      /\ UNCHANGED <<controller, sendActor, currentIndex, timeouts, bufferVars, acks, request, reply>>
  BY NumbersOfUpload DEF GiveBlock, SendBlock, SenderInStep
<1>2. chunks' \in Seq(UploadChunk) /\ ChunksInOrder' /\ AcksBehind' /\ ReceiverInStep'
  BY <1>1, NumbersOfUpload, ChunkIsSent DEF bufferVars
<1>3. timer' \in StreamChunkTimeout
  BY <1>1, NumbersOfUpload DEF StreamChunkTimeout, Block, LastAttempt
<1>4. UploadTypeOK'
  BY <1>1, <1>2, <1>3, NumbersOfUpload DEF UploadTypeOK, bufferVars
<1>5. SenderInStep'
  <2>1. timer'.index = currentIndex
    BY <1>1
  <2>2. \A t \in timeouts : t.index \in Nat /\ t.index <= given
    BY UploadAssumption DEF SenderInStep, UploadTypeOK, StreamChunkTimeout, Block
  <2> QED BY <1>1, <2>1, <2>2, NumbersOfUpload DEF SenderInStep
<1>6. BufferEndsWithLast' /\ EndIsEarned'
  BY <1>1 DEF BufferEndsWithLast, EndIsEarned, bufferVars
<1> QED BY <1>2, <1>4, <1>5, <1>6

LEMMA TimeoutArrivesKeeps ==
  ASSUME UploadInv, NEW t \in timeouts, TimeoutArrives(t)
  PROVE  UploadInv'
<1> USE DEF UploadInv
<1>1. /\ timeouts' = timeouts \ {t}
      /\ UNCHANGED <<controllerVars, sendActor, currentIndex, currentBlock, bufferVars,
                     acks, request, reply>>
  BY DEF TimeoutArrives
<1>2. EndIsEarned' /\ BufferEndsWithLast'
  BY <1>1 DEF EndIsEarned, BufferEndsWithLast, controllerVars, bufferVars
<1>3. CASE MayTryAgain(t)
  <2>1. t \in StreamChunkTimeout /\ t.index = currentIndex /\ t.attempt < LastAttempt
          /\ t.index <= given
    BY <1>3 DEF UploadTypeOK, MayTryAgain, SenderInStep
  <2>2. currentBlock = currentIndex /\ given = currentIndex /\ currentBlock # 0
    BY <2>1, NumbersOfUpload DEF SenderInStep
  <2>3. /\ chunks' = Append(chunks, [index |-> currentIndex, chunk |-> currentIndex])
        /\ timer' = [index |-> currentIndex, attempt |-> t.attempt + 1]
    BY <1>3, <2>2 DEF TimeoutArrives, SendBlock
  <2>4. chunks' \in Seq(UploadChunk) /\ ChunksInOrder' /\ AcksBehind' /\ ReceiverInStep'
    BY <1>1, <2>2, <2>3, NumbersOfUpload, ChunkIsSent DEF controllerVars, bufferVars
  <2>5. timer' \in StreamChunkTimeout
    BY <2>1, <2>2, <2>3, NumbersOfUpload DEF StreamChunkTimeout, Block, LastAttempt
  <2>6. UploadTypeOK'
    BY <1>1, <2>4, <2>5 DEF UploadTypeOK, controllerVars, bufferVars
  <2>7. SenderInStep'
    BY <1>1, <2>2, <2>3 DEF SenderInStep, controllerVars
  <2> QED BY <1>2, <2>4, <2>6, <2>7
<1>4. CASE ~MayTryAgain(t)
  <2>1. UNCHANGED <<timer, chunks>>
    BY <1>4 DEF TimeoutArrives
  <2>2. UploadTypeOK' /\ SenderInStep'
    BY <1>1, <2>1 DEF UploadTypeOK, SenderInStep, controllerVars, bufferVars
  <2>3. ChunksInOrder' /\ AcksBehind' /\ ReceiverInStep'
    BY <1>1, <2>1 DEF ChunksInOrder, AcksBehind, ReceiverInStep, controllerVars, bufferVars
  <2> QED BY <1>2, <2>2, <2>3
<1> QED BY <1>3, <1>4

LEMMA AckArrivesKeeps ==
  ASSUME UploadInv, AckArrives
  PROVE  UploadInv'
<1> USE DEF UploadInv
<1>1. /\ acks # <<>> /\ acks' = Tail(acks)
      /\ UNCHANGED <<controllerVars, sendActor, timeouts, bufferVars, chunks, request, reply>>
  BY DEF AckArrives
<1>2. /\ Len(acks) \in Nat \ {0} /\ acks' \in Seq(Block) /\ Len(acks') = Len(acks) - 1
      /\ Head(acks) = acks[1] /\ \A n \in 1 .. Len(acks) - 1 : acks'[n] = acks[n + 1]
  BY <1>1, NumbersOfUpload DEF Block
<1>3. AcksBehind'
  <2> SUFFICES ASSUME NEW n \in 1 .. Len(acks) - 1
               PROVE  /\ acks'[n] <= given
                      /\ lastIndex # -1 => acks'[n] <= lastIndex
                      /\ \A m \in 1 .. Len(chunks) : acks'[n] <= chunks[m].index
    BY <1>1, <1>2 DEF AcksBehind, controllerVars, bufferVars
  <2>1. n + 1 \in 1 .. Len(acks) /\ acks'[n] = acks[n + 1]
    BY <1>2
  <2> QED BY <2>1 DEF AcksBehind
<1>4. BufferEndsWithLast'
  BY <1>1 DEF BufferEndsWithLast, bufferVars
<1>5. acks[1] \in 1 .. NumBlocks /\ acks[1] <= given /\ 1 \in 1 .. Len(acks)
  BY <1>2, NumbersOfUpload DEF AcksBehind
<1>6. CASE IsCurrent(Head(acks))
  <2>1. /\ currentIndex = acks[1] /\ currentIndex' = currentIndex + 1
        /\ currentBlock' = 0 /\ timer' = NoTimer
    BY <1>2, <1>6 DEF AckArrives, IsCurrent
  <2>2. given = currentIndex
    BY <1>5, <2>1, NumbersOfUpload DEF SenderInStep
  <2>3. UploadTypeOK'
    <3>1. currentIndex' \in 1 .. NumBlocks + 1 /\ currentBlock' \in 0 .. NumBlocks
      BY <2>1, <2>2, NumbersOfUpload
    <3> QED BY <1>1, <1>2, <2>1, <3>1 DEF UploadTypeOK, controllerVars, bufferVars
  <2>4. SenderInStep'
    BY <1>1, <2>1, <2>2, NumbersOfUpload DEF SenderInStep, controllerVars
  <2>5. ChunksInOrder'
    <3>1. \A n \in 1 .. Len(chunks) : currentIndex' - 1 <= chunks[n].index
      BY <1>5, <2>1, NumbersOfUpload DEF AcksBehind
    <3> QED BY <1>1, <3>1 DEF ChunksInOrder, controllerVars
  <2>6. ReceiverInStep'
    <3>1. lastIndex # -1 => currentIndex' - 1 <= lastIndex
      BY <1>5, <2>1, NumbersOfUpload DEF AcksBehind
    <3>2. ~(lastIndex = -1 /\ restarts = 0)
      BY <1>1 DEF ReceiverInStep
    <3> QED BY <1>1, <3>1, <3>2 DEF ReceiverInStep, controllerVars, bufferVars
  <2>7. EndIsEarned'
    BY <1>1, <1>5, <2>1, NumbersOfUpload DEF EndIsEarned, controllerVars, bufferVars
  <2> QED BY <1>3, <1>4, <2>3, <2>4, <2>5, <2>6, <2>7
<1>7. CASE ~IsCurrent(Head(acks))
  <2>1. UNCHANGED <<currentIndex, currentBlock, timer>>
    BY <1>7 DEF AckArrives
  <2>2. UploadTypeOK'
    BY <1>1, <1>2, <2>1 DEF UploadTypeOK, controllerVars, bufferVars
  <2>3. SenderInStep' /\ ChunksInOrder' /\ EndIsEarned'
    BY <1>1, <2>1 DEF SenderInStep, ChunksInOrder, EndIsEarned, controllerVars, bufferVars
  <2>4. ReceiverInStep'
    BY <1>1, <2>1 DEF ReceiverInStep, controllerVars, bufferVars
  <2> QED BY <1>3, <1>4, <2>2, <2>3, <2>4
<1> QED BY <1>6, <1>7

(* The chunk in front is gone, read or lost. *)
LEMMA ChunkLeaves ==
  ASSUME UploadInv, chunks # <<>>, chunks' = Tail(chunks), UNCHANGED <<currentIndex, given>>
  PROVE  /\ chunks' \in Seq(UploadChunk) /\ ChunksInOrder'
         /\ Len(chunks) \in Nat \ {0} /\ Len(chunks') = Len(chunks) - 1
         /\ Head(chunks) = chunks[1]
         /\ \A n \in 1 .. Len(chunks) - 1 : chunks'[n] = chunks[n + 1]
<1> USE DEF UploadInv
<1>1. /\ Len(chunks) \in Nat \ {0} /\ chunks' \in Seq(UploadChunk)
      /\ Len(chunks') = Len(chunks) - 1 /\ Head(chunks) = chunks[1]
      /\ \A n \in 1 .. Len(chunks) - 1 : chunks'[n] = chunks[n + 1]
  BY NumbersOfUpload
<1>2. ChunksInOrder'
  <2> SUFFICES ASSUME NEW n \in 1 .. Len(chunks) - 1
               PROVE  /\ chunks'[n].chunk = chunks'[n].index
                      /\ currentIndex - 1 <= chunks'[n].index /\ chunks'[n].index <= given
                      /\ \A m \in 1 .. n : chunks'[m].index <= chunks'[n].index
    BY <1>1 DEF ChunksInOrder
  <2>1. n + 1 \in 1 .. Len(chunks) /\ chunks'[n] = chunks[n + 1]
    BY <1>1
  <2>2. \A m \in 1 .. n : m + 1 \in 1 .. n + 1 /\ chunks'[m] = chunks[m + 1]
    BY <1>1
  <2> QED BY <2>1, <2>2 DEF ChunksInOrder
<1> QED BY <1>1, <1>2

LEMMA LoseChunkKeeps ==
  ASSUME UploadInv, LoseChunk
  PROVE  UploadInv'
<1> USE DEF UploadInv, LoseChunk, controllerVars, sendVars, bufferVars
<1>1. UploadTypeOK'
  BY ChunkLeaves DEF UploadTypeOK
<1>2. AcksBehind'
  <2>1. \A m \in 1 .. Len(chunks') : m + 1 \in 1 .. Len(chunks) /\ chunks'[m] = chunks[m + 1]
    BY ChunkLeaves
  <2> QED BY <2>1 DEF AcksBehind
<1>3. SenderInStep' /\ ReceiverInStep' /\ BufferEndsWithLast' /\ EndIsEarned'
  BY DEF SenderInStep, ReceiverInStep, BufferEndsWithLast, EndIsEarned
<1> QED BY <1>1, <1>2, <1>3, ChunkLeaves

LEMMA LoseAckKeeps ==
  ASSUME UploadInv, LoseAck
  PROVE  UploadInv'
<1> USE DEF UploadInv, LoseAck, controllerVars, sendVars, bufferVars
<1>1. /\ Len(acks) \in Nat \ {0} /\ acks' \in Seq(Block) /\ Len(acks') = Len(acks) - 1
      /\ \A n \in 1 .. Len(acks) - 1 : acks'[n] = acks[n + 1]
  BY NumbersOfUpload DEF Block
<1>2. UploadTypeOK'
  BY <1>1 DEF UploadTypeOK
<1>3. AcksBehind'
  <2>1. \A n \in 1 .. Len(acks') : n + 1 \in 1 .. Len(acks) /\ acks'[n] = acks[n + 1]
    BY <1>1
  <2> QED BY <2>1 DEF AcksBehind
<1>4. ReceiverInStep'
  BY DEF ReceiverInStep
<1>5. SenderInStep' /\ ChunksInOrder' /\ BufferEndsWithLast' /\ EndIsEarned'
  BY DEF SenderInStep, ChunksInOrder, BufferEndsWithLast, EndIsEarned
<1> QED BY <1>2, <1>3, <1>4, <1>5

LEMMA FailEarlyKeeps ==
  ASSUME UploadInv, FailEarly
  PROVE  UploadInv'
<1> USE DEF UploadInv, FailEarly, controllerVars, sendVars, network
<1>1. restarts' \in 1 .. MaxRestarts
  BY UploadAssumption DEF UploadTypeOK
<1>2. UploadTypeOK'
  <2>1. <<>> \in Seq(Block)
    OBVIOUS
  <2> QED BY <1>1, <2>1 DEF UploadTypeOK
<1>3. AcksBehind' /\ ReceiverInStep' /\ BufferEndsWithLast'
  BY <1>1 DEF AcksBehind, ReceiverInStep, BufferEndsWithLast
<1>4. SenderInStep' /\ ChunksInOrder' /\ EndIsEarned'
  BY DEF SenderInStep, ChunksInOrder, EndIsEarned
<1> QED BY <1>2, <1>3, <1>4

LEMMA ChunkArrivesKeeps ==
  ASSUME UploadInv, ChunkArrives
  PROVE  UploadInv'
<1> USE DEF UploadInv
<1>1. PICK index : index = chunks[1].index
  OBVIOUS
<1>2. /\ chunks # <<>> /\ chunks' = Tail(chunks)
      /\ UNCHANGED <<controllerVars, sendVars, uploadActor, uploadComplete, uploaded, restarts,
                     request, reply>>
  BY DEF ChunkArrives
<1>3. /\ chunks' \in Seq(UploadChunk) /\ ChunksInOrder'
      /\ Len(chunks) \in Nat \ {0} /\ Len(chunks') = Len(chunks) - 1
      /\ Head(chunks) = chunks[1]
      /\ \A n \in 1 .. Len(chunks) - 1 : chunks'[n] = chunks[n + 1]
  BY <1>2, ChunkLeaves DEF controllerVars, sendVars
<1>4. /\ index \in 1 .. NumBlocks /\ chunks[1].chunk = index
      /\ currentIndex - 1 <= index /\ index <= given
      /\ \A n \in 1 .. Len(chunks) : index <= chunks[n].index
      /\ \A n \in 1 .. Len(acks) : acks[n] <= index
  <2>1. 1 \in 1 .. Len(chunks)
    BY <1>3
  <2>2. /\ chunks[1].index \in 1 .. NumBlocks /\ chunks[1].chunk = chunks[1].index
        /\ currentIndex - 1 <= chunks[1].index /\ chunks[1].index <= given
    BY <2>1, NumbersOfUpload DEF ChunksInOrder
  <2>3. ASSUME NEW n \in 1 .. Len(chunks) PROVE chunks[1].index <= chunks[n].index
    <3>1. 1 \in 1 .. n
      BY <1>3
    <3> QED BY <3>1 DEF ChunksInOrder
  <2>4. \A n \in 1 .. Len(acks) : acks[n] <= chunks[1].index
    BY <2>1 DEF AcksBehind
  <2> QED BY <1>1, <2>2, <2>3, <2>4
<1>5. given <= currentIndex
  BY NumbersOfUpload DEF SenderInStep
<1>6. acks' = acks \/ acks' = Append(acks, index)
  BY <1>1, <1>3 DEF ChunkArrives
<1>7. /\ acks' \in Seq(Block)
      /\ \A n \in 1 .. Len(acks') : acks'[n] = index \/ \E m \in 1 .. Len(acks) : acks'[n] = acks[m]
  <2>1. acks \in Seq(Block) /\ index \in Block /\ Len(acks) \in Nat
    BY <1>4, NumbersOfUpload DEF Block
  <2>2. CASE acks' = acks
    BY <2>1, <2>2
  <2>3. CASE acks' = Append(acks, index)
    <3>1. /\ acks' \in Seq(Block) /\ Len(acks') = Len(acks) + 1
          /\ acks'[Len(acks) + 1] = index
          /\ \A n \in 1 .. Len(acks) : acks'[n] = acks[n]
      BY <2>1, <2>3
    <3>2. \A n \in 1 .. Len(acks') : n = Len(acks) + 1 \/ n \in 1 .. Len(acks)
      BY <2>1, <3>1
    <3> QED BY <3>1, <3>2
  <2> QED BY <1>6, <2>2, <2>3
<1>8. \/ /\ IsNew(index)
         /\ chunkBuffer' = Append(chunkBuffer, index) /\ lastIndex' = index
      \/ ~IsNew(index) /\ UNCHANGED <<chunkBuffer, lastIndex>>
  BY <1>1, <1>3, <1>4 DEF ChunkArrives
<1>9. lastIndex' # -1 /\ lastIndex' \in 1 .. NumBlocks /\ index <= lastIndex' /\ lastIndex' <= given
  <2>1. CASE IsNew(index)
    BY <1>4, <1>8, <2>1
  <2>2. CASE ~IsNew(index)
    <3>1. lastIndex' = lastIndex /\ index <= lastIndex
      BY <1>4, <1>8, <2>2, NumbersOfUpload DEF IsNew
    <3>2. lastIndex # -1 /\ lastIndex \in 1 .. NumBlocks
      BY <1>4, <3>1, NumbersOfUpload
    <3> QED BY <3>1, <3>2 DEF ReceiverInStep
  <2> QED BY <2>1, <2>2
<1>10. AcksBehind'
  <2>1. ASSUME NEW n \in 1 .. Len(acks')
        PROVE  acks'[n] \in 1 .. NumBlocks /\ acks'[n] <= index
    <3>1. CASE acks'[n] = index
      BY <1>4, <3>1
    <3>2. ASSUME NEW m \in 1 .. Len(acks), acks'[n] = acks[m]
          PROVE  acks'[n] \in 1 .. NumBlocks /\ acks'[n] <= index
      BY <1>4, <3>2, NumbersOfUpload
    <3> QED BY <1>7, <3>1, <3>2
  <2>2. \A m \in 1 .. Len(chunks') : index <= chunks'[m].index /\ chunks'[m].index \in 1 .. NumBlocks
    <3>1. \A m \in 1 .. Len(chunks') : m + 1 \in 1 .. Len(chunks) /\ chunks'[m] = chunks[m + 1]
      BY <1>3
    <3> QED BY <1>4, <3>1, NumbersOfUpload
  <2>3. given' = given /\ given \in Nat
    BY <1>2, NumbersOfUpload DEF controllerVars
  <2> QED BY <1>4, <1>9, <2>1, <2>2, <2>3 DEF AcksBehind
<1>11. ReceiverInStep'
  <2>1. currentIndex - 1 <= lastIndex'
    BY <1>4, <1>9, NumbersOfUpload
  <2> QED BY <1>2, <1>9, <2>1 DEF ReceiverInStep, controllerVars, sendVars
<1>12. BufferEndsWithLast' /\ chunkBuffer' \in Seq(Block)
  <2>1. CASE ~IsNew(index)
    BY <1>2, <1>8, <2>1 DEF BufferEndsWithLast, UploadTypeOK
  <2>2. CASE IsNew(index) /\ lastIndex = -1
    <3>1. chunkBuffer = <<>>
      BY <2>2 DEF BufferEndsWithLast
    <3>2. chunkBuffer' = <<index>> /\ Len(chunkBuffer') = 1 /\ chunkBuffer'[1] = index
      BY <1>8, <2>2, <3>1
    <3>3. restarts = 0 => index = 1
      BY <1>4, <1>5, <2>2, NumbersOfUpload DEF ReceiverInStep
    <3>4. BufferEndsWithLast'
      BY <1>2, <1>4, <1>8, <2>2, <3>2, <3>3 DEF BufferEndsWithLast
    <3> QED BY <1>4, <3>2, <3>4 DEF Block
  <2>3. CASE IsNew(index) /\ lastIndex # -1
    <3>1. index = lastIndex + 1
      BY <1>4, <1>5, <2>3, NumbersOfUpload DEF IsNew, ReceiverInStep
    <3>2. chunkBuffer \in Seq(Block) /\ Len(chunkBuffer) \in 1 .. lastIndex
            /\ (\A j \in 1 .. Len(chunkBuffer) : chunkBuffer[j] = lastIndex - Len(chunkBuffer) + j)
            /\ (restarts = 0 => Len(chunkBuffer) = lastIndex)
      BY <2>3 DEF BufferEndsWithLast, UploadTypeOK
    <3>3. chunkBuffer' \in Seq(Block) /\ Len(chunkBuffer') = Len(chunkBuffer) + 1
            /\ (\A j \in 1 .. Len(chunkBuffer) : chunkBuffer'[j] = chunkBuffer[j])
            /\ chunkBuffer'[Len(chunkBuffer) + 1] = index
      <4>1. index \in Block /\ chunkBuffer' = Append(chunkBuffer, index)
        BY <1>4, <1>8, <2>3 DEF Block
      <4> QED BY <3>2, <4>1
    <3>4. \A j \in 1 .. Len(chunkBuffer') : chunkBuffer'[j] = index - Len(chunkBuffer') + j
      <4> SUFFICES ASSUME NEW j \in 1 .. Len(chunkBuffer) + 1
                   PROVE  chunkBuffer'[j] = index - (Len(chunkBuffer) + 1) + j
        BY <3>3
      <4>1. CASE j = Len(chunkBuffer) + 1
        BY <1>4, <3>2, <3>3, <4>1
      <4>2. CASE j \in 1 .. Len(chunkBuffer)
        <5>1. chunkBuffer'[j] = chunkBuffer[j] /\ chunkBuffer[j] = lastIndex - Len(chunkBuffer) + j
          BY <3>2, <3>3, <4>2
        <5>2. lastIndex \in Int /\ Len(chunkBuffer) \in Int /\ j \in Int
          BY <2>3, <3>2, NumbersOfUpload
        <5> QED BY <3>1, <5>1, <5>2
      <4> QED BY <3>2, <4>1, <4>2
    <3>5. lastIndex' = index /\ Len(chunkBuffer') \in 1 .. index
            /\ (restarts' = 0 => Len(chunkBuffer') = index)
      <4>1. lastIndex' = index /\ restarts' = restarts
        BY <1>2, <1>8, <2>3
      <4>2. lastIndex \in Nat
        BY <2>3, NumbersOfUpload
      <4> QED BY <3>1, <3>2, <3>3, <4>1, <4>2
    <3> QED BY <1>9, <3>3, <3>4, <3>5 DEF BufferEndsWithLast
  <2> QED BY <2>1, <2>2, <2>3
<1>13. UploadTypeOK'
  BY <1>2, <1>3, <1>7, <1>9, <1>12 DEF UploadTypeOK, Block, controllerVars, sendVars
<1>14. SenderInStep' /\ EndIsEarned'
  BY <1>2 DEF SenderInStep, EndIsEarned, controllerVars, sendVars
<1> QED BY <1>3, <1>10, <1>11, <1>12, <1>13, <1>14

(* Each step of the transfer of a file. *)
LEMMA TransferKeeps == UploadInv /\ Transfer => UploadInv'
BY GiveBlockKeeps, AckArrivesKeeps, TimerFiresKeeps, TimeoutArrivesKeeps, BodyEndsKeeps,
   ControlStepKeeps, ChunkArrivesKeeps, LoseChunkKeeps, LoseAckKeeps DEF Transfer

LEMMA UploadStays == UploadInv /\ UNCHANGED uploadVars => UploadInv'
<1> SUFFICES ASSUME UploadInv, UNCHANGED uploadVars PROVE UploadInv'
  OBVIOUS
<1> USE DEF UploadInv, uploadVars, controllerVars, bufferVars, network
<1>1. UploadTypeOK' /\ EndIsEarned'
  BY DEF UploadTypeOK, EndIsEarned, sendVars
<1> QED BY <1>1, ControlKeeps

LEMMA CreationStays == CreationInv /\ UNCHANGED creationVars => CreationInv'
BY LossKeeps DEF creationVars

-----------------------------------------------------------------------------
(* The import: uploads and Spaces meet where the file is read. *)

LEMMA InitIInv == Init => IInv
<1> SUFFICES ASSUME Init PROVE IInv
  OBVIOUS
<1> USE UploadAssumption, CreationAssumption, ImportAssumption DEF Init
<1>1. UploadTypeOK
  <2>1. chunkBuffer \in Seq(Block) /\ chunks \in Seq(UploadChunk) /\ acks \in Seq(Block)
    BY DEF UploadInit
  <2>2. /\ given \in 0 .. NumBlocks /\ currentIndex \in 1 .. NumBlocks + 1
        /\ currentBlock \in 0 .. NumBlocks /\ restarts \in 0 .. MaxRestarts
    BY DEF UploadInit
  <2> QED BY <2>1, <2>2 DEF UploadInit, UploadTypeOK
<1>2. /\ SenderInStep /\ ChunksInOrder /\ AcksBehind
      /\ ReceiverInStep /\ BufferEndsWithLast /\ EndIsEarned
  BY DEF UploadInit, SenderInStep, ChunksInOrder, AcksBehind, ReceiverInStep,
         BufferEndsWithLast, EndIsEarned
<1>3. CreationTypeOK
  BY DEF CreationInit, CreationTypeOK, Step
<1>4. ASSUME NEW s \in Space PROVE OneInsertion(s) /\ MadeByHand(s) /\ MadeByImport(s)
  BY DEF CreationInit, OneInsertion, Inserting, MadeByHand, MadeByImport
<1>5. VisibleImportIsWhole /\ DoneIsUsable
  BY DEF CreationInit, VisibleImportIsWhole, DoneIsUsable
<1>6. ImportTypeOK
  <2>1. polls \in 0 .. MaxPolls
    OBVIOUS
  <2> QED BY <2>1 DEF ImportTypeOK
<1> QED BY <1>1, <1>2, <1>3, <1>4, <1>5, <1>6 DEF IInv, UploadInv, CreationInv

LEMMA StutterIInv == IInv /\ UNCHANGED vars => IInv'
<1> SUFFICES ASSUME IInv, UNCHANGED vars PROVE IInv'
  OBVIOUS
<1>1. UploadInv' /\ CreationInv'
  BY UploadStays, CreationStays DEF IInv, vars
<1>2. ImportTypeOK'
  BY DEF IInv, ImportTypeOK, vars, importVars
<1> QED BY <1>1, <1>2 DEF IInv

LEMMA NextIInv == IInv /\ Next => IInv'
<1> SUFFICES ASSUME IInv, Next PROVE IInv'
  OBVIOUS
<1> USE DEF IInv
<1>1. CASE Transfer /\ UNCHANGED <<creationVars, importVars>>
  BY <1>1, TransferKeeps, CreationStays DEF importVars, ImportTypeOK
<1>2. CASE Make /\ UNCHANGED <<uploadVars, importVars>>
  BY <1>2, MakeKeeps, UploadStays DEF importVars, ImportTypeOK
<1>3. CASE ProcessBuffer
  <2>1. UploadInv'
    BY <1>3, ControlStepKeeps DEF ProcessBuffer
  <2>2. ImportedSpace \in Space
    BY ImportAssumption, CreationAssumption
  <2>3. CreationInv'
    BY <1>3, <2>2, BeginKeeps, CreationStays DEF ProcessBuffer
  <2>4. Uploaded \in Seq(Block)
    BY DEF UploadInv, UploadTypeOK, Uploaded
  <2>5. ImportTypeOK'
    BY <1>3, <2>4 DEF ProcessBuffer, ImportTypeOK
  <2> QED BY <2>1, <2>3, <2>5
<1>4. CASE GetProgressOfUpload
  <2>1. UploadInv' /\ CreationInv'
    BY <1>4, ControlStepKeeps, FailEarlyKeeps, CreationStays DEF GetProgressOfUpload
  <2>2. ImportTypeOK'
    BY <1>4, ImportAssumption DEF GetProgressOfUpload, ImportTypeOK
  <2> QED BY <2>1, <2>2
<1>5. CASE GetProgressOfProcessing
  <2>1. UploadInv' /\ CreationInv'
    BY <1>5, UploadStays, CreationStays DEF GetProgressOfProcessing
  <2>2. ImportTypeOK'
    BY <1>5 DEF GetProgressOfProcessing, ImportTypeOK
  <2> QED BY <2>1, <2>2
<1>6. CASE CompletionAcknowledged
  BY <1>6, ControlStepKeeps, CreationStays DEF CompletionAcknowledged, importVars, ImportTypeOK
<1>7. ASSUME NEW s \in Space \ Imported, CreateSpace(s) PROVE IInv'
  BY <1>7, UploadStays, BeginKeeps DEF CreateSpace, importVars, ImportTypeOK
<1> QED BY <1>1, <1>2, <1>3, <1>4, <1>5, <1>6, <1>7 DEF Next

(***************************************************************************)
(* Every reachable state has the strengthened invariant, from which the    *)
(* properties of the import below follow.                                  *)
(***************************************************************************)
THEOREM InductiveInvariant == Spec => []IInv
<1>1. IInv /\ [Next]_vars => IInv'
  BY NextIInv, StutterIInv
<1> QED BY InitIInv, <1>1, PTL DEF Spec

(***************************************************************************)
(* Every variable of the upload, of the making of Spaces and of the import *)
(* keeps to its type; in particular currentIndex never passes the block    *)
(* after the last.                                                         *)
(***************************************************************************)
THEOREM TypeCorrect == Spec => []TypeOK
<1>1. IInv => TypeOK
  BY DEF IInv, UploadInv, CreationInv, ImportTypeOK, TypeOK
<1> QED BY InductiveInvariant, <1>1, PTL

(***************************************************************************)
(* Whatever is lost, late or sent again, and however often the actor has   *)
(* failed, its buffer is a piece of the file that ends with lastIndex      *)
(* (ChunkArrives of UploadActor looks at nothing but the index).           *)
(***************************************************************************)
THEOREM BufferInOrder == Spec => []BufferIsInOrder
<1>1. IInv => BufferIsInOrder
  <2> SUFFICES ASSUME IInv PROVE BufferIsInOrder
    OBVIOUS
  <2> USE DEF IInv, UploadInv, BufferEndsWithLast
  <2>1. chunkBuffer \in Seq(Block) /\ Len(chunkBuffer) \in Nat
    BY DEF UploadTypeOK
  <2>2. CASE lastIndex = -1
    <3>1. chunkBuffer = <<>> /\ 0 \in 0 .. NumBlocks /\ 1 \in 1 .. NumBlocks + 1
      BY <2>2, NumbersOfUpload
    <3>2. chunkBuffer = SubSeq(File, 1, 0)
      BY <2>1, <3>1, PieceOfFile
    <3> QED BY <2>2, <3>1, <3>2 DEF BufferIsInOrder
  <2>3. CASE lastIndex # -1
    <3>1. PICK first : first = lastIndex - Len(chunkBuffer) + 1
      OBVIOUS
    <3>2. first \in 1 .. NumBlocks + 1 /\ first <= lastIndex + 1 /\ lastIndex \in 0 .. NumBlocks
            /\ Len(chunkBuffer) = lastIndex + 1 - first
      <4>1. lastIndex \in 1 .. NumBlocks /\ NumBlocks \in Nat
        BY <2>3, NumbersOfUpload
      <4>2. Len(chunkBuffer) \in 1 .. lastIndex
        BY <2>3
      <4> QED BY <3>1, <4>1, <4>2
    <3>3. \A j \in 1 .. Len(chunkBuffer) : chunkBuffer[j] = first + j - 1
      <4>1. \A j \in 1 .. Len(chunkBuffer) : chunkBuffer[j] = lastIndex - Len(chunkBuffer) + j
        BY <2>3
      <4>2. lastIndex \in Int /\ Len(chunkBuffer) \in Int
        BY <2>1, <3>2
      <4> QED BY <3>1, <4>1, <4>2
    <3>4. chunkBuffer = SubSeq(File, first, lastIndex)
      <4>1. first \in Nat \ {0}
        BY <3>2, NumbersOfUpload
      <4> QED BY <2>1, <3>2, <3>3, <4>1, PieceOfFile
    <3> QED BY <2>3, <3>2, <3>4 DEF BufferIsInOrder
  <2> QED BY <2>2, <2>3
<1> QED BY InductiveInvariant, <1>1, PTL

(***************************************************************************)
(* UploadComplete finds every block of the file in the buffer of an actor  *)
(* that has not failed: StreamController sends it when the last block is   *)
(* acknowledged, and an Ack of a block stands for those before it.         *)
(***************************************************************************)
THEOREM UploadIsWhole == Spec => []CompleteIsWhole
<1>1. IInv => CompleteIsWhole
  <2> SUFFICES ASSUME IInv, uploadComplete, restarts = 0 PROVE chunkBuffer = File
    BY DEF CompleteIsWhole
  <2> USE DEF IInv, UploadInv
  <2>1. currentIndex = NumBlocks + 1
    BY DEF EndIsEarned
  <2>2. lastIndex = NumBlocks
    BY <2>1, NumbersOfUpload DEF ReceiverInStep
  <2>3. chunkBuffer \in Seq(Block) /\ Len(chunkBuffer) = NumBlocks
          /\ \A j \in 1 .. NumBlocks : chunkBuffer[j] = j
    <3>1. lastIndex # -1 /\ NumBlocks \in Nat
      BY <2>2, NumbersOfUpload
    <3>2. Len(chunkBuffer) = lastIndex
            /\ \A j \in 1 .. Len(chunkBuffer) : chunkBuffer[j] = lastIndex - Len(chunkBuffer) + j
      BY <3>1 DEF BufferEndsWithLast
    <3> QED BY <2>2, <3>1, <3>2 DEF UploadTypeOK
  <2>4. File \in Seq(Block) /\ Len(File) = NumBlocks /\ \A i \in 1 .. NumBlocks : File[i] = i
    BY UploadAssumption DEF File, Block
  <2> QED BY <2>3, <2>4
<1> QED BY InductiveInvariant, <1>1, PTL

(***************************************************************************)
(* A Space that is being imported is shown to others only with the state   *)
(* that was imported, whichever message is lost and wherever the persister *)
(* stops.                                                                  *)
(***************************************************************************)
THEOREM ImportsAreShownWhole == Spec => []VisibleImportIsWhole
<1>1. IInv => VisibleImportIsWhole
  BY DEF IInv, CreationInv
<1> QED BY InductiveInvariant, <1>1, PTL

(***************************************************************************)
(* A Space whose making is reported as done is in the Spaces table, can be *)
(* seen, and has a state: for CreateSpace of the SpaceManager and for the  *)
(* ImportSpaceActor.                                                       *)
(***************************************************************************)
THEOREM MadeSpacesAreUsable == Spec => []DoneIsUsable
<1>1. IInv => DoneIsUsable
  BY DEF IInv, CreationInv
<1> QED BY InductiveInvariant, <1>1, PTL

=============================================================================
