----------------------------- MODULE ImportSpace -----------------------------
(***************************************************************************)
(* An ImportSpaceActor: it takes the upload of a file and makes a Space of *)
(* it, while the browser asks it once a second how far it is.  Beside it   *)
(* the owner makes other Spaces.                                           *)
(***************************************************************************)
EXTENDS Upload, SpaceCreation

CONSTANTS
  ImportedSpace,    \* the Space that the upload becomes
  MaxPolls          \* bounds the questions of the browser before the upload is complete

ASSUME ImportAssumption == Imported = {ImportedSpace} /\ MaxPolls \in Nat

VARIABLES
  failed,           \* the file could not be read, and the browser may know
  imported,         \* the bytes the Space was made of, NotYet before
  browser,          \* "polling" or "finished"
  polls             \* the questions that looked at the file

importVars == <<failed, imported, browser, polls>>
vars == <<uploadVars, creationVars, importVars>>

NotYet == Unread

TypeOK ==
  /\ UploadTypeOK /\ CreationTypeOK
  /\ failed \in BOOLEAN
  /\ imported \in Seq(Block) \cup {NotYet}
  /\ browser \in {"polling", "finished"}
  /\ polls \in 0 .. MaxPolls

Init ==
  /\ UploadInit /\ CreationInit
  /\ failed = FALSE /\ imported = NotYet
  /\ browser = "polling" /\ polls = 0

-----------------------------------------------------------------------------
(***************************************************************************)
(* processBuffer: the file is read and parsed.  What is no file of the     *)
(* expected form is reported; a part of a MySQL dump may well be one.      *)
(***************************************************************************)
ProcessBuffer ==
  /\ CompleteArrives
  /\ \/ /\ Begin(ImportedSpace)
        /\ imported' = Uploaded
        /\ UNCHANGED failed
     \/ /\ failed' = TRUE
        /\ UNCHANGED <<imported, creationVars>>
  /\ UNCHANGED <<browser, polls>>

(* GetProgress before the upload is complete measures the file by reading it. *)
GetProgressOfUpload ==
  /\ browser = "polling" /\ polls < MaxPolls
  /\ polls' = polls + 1
  /\ LookEarly \/ FailEarly
  /\ UNCHANGED <<creationVars, failed, imported, browser>>

(* Afterwards it only reports; the browser hears of an end and stops asking. *)
GetProgressOfProcessing ==
  /\ uploadActor = "running" /\ uploadComplete
  /\ browser = "polling"
  /\ failed \/ maker[ImportedSpace] = "done"
  /\ browser' = "finished"
  /\ UNCHANGED <<uploadVars, creationVars, failed, imported, polls>>

CompletionAcknowledged ==
  /\ browser = "finished"
  /\ StopActor
  /\ UNCHANGED <<creationVars, importVars>>

(***************************************************************************)
(* The owner makes another Space with the SpaceManager.  It meets the      *)
(* import in the Spaces table only, so it may as well begin, and end,      *)
(* while the import waits for its OIDs: earlier is left out.               *)
(***************************************************************************)
CreateSpace(s) ==
  /\ uploadComplete
  /\ Begin(s)
  /\ UNCHANGED <<uploadVars, importVars>>

-----------------------------------------------------------------------------
Next ==
  \/ Transfer /\ UNCHANGED <<creationVars, importVars>>
  \/ Make /\ UNCHANGED <<uploadVars, importVars>>
  \/ ProcessBuffer
  \/ GetProgressOfUpload \/ GetProgressOfProcessing \/ CompletionAcknowledged
  \/ \E s \in Space \ Imported : CreateSpace(s)

Spec == Init /\ [][Next]_vars

-----------------------------------------------------------------------------
(* Properties. *)

(***************************************************************************)
(* "This should only be called once uploading is complete -- we don't      *)
(* support progressive loading yet" (UploadActor.scala, of what GetProgress *)
(* calls): whoever looked, an import is made of all that was uploaded.     *)
(***************************************************************************)
ImportIsWhole == imported # NotYet => imported = File

=============================================================================
