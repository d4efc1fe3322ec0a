---------------------------- MODULE SpaceCreation ----------------------------
(***************************************************************************)
(* The making of a Space.  Whoever makes one (the SpaceManager for a user, *)
(* an ImportSpaceActor for an upload) asks a SpaceManagerPersister to put  *)
(* it in the Spaces table, and then gives its actor a first state.  The    *)
(* persisters are a pool and each maker has its own, so their transactions *)
(* interleave; the check of the name is one, the insertion another, and no *)
(* index of the table makes names unique.                                  *)
(*                                                                         *)
(* All Spaces here are of one owner.  A message or its answer may be lost; *)
(* a request whose answer does not come fails.                             *)
(***************************************************************************)
EXTENDS Integers, FiniteSets

CONSTANTS
  Space,          \* the Spaces that are made
  Imported,       \* those that are made of an upload
  NameOf(_),      \* the canonical name of each
  MaxSpaces       \* querki.public.maxSpaces

ASSUME CreationAssumption == Imported \subseteq Space /\ MaxSpaces \in Nat \ {0}

VARIABLES
  maker,          \* how far the maker of each Space is
  mail,           \* the requests under way, <<space, message>>
  answers,        \* the answers under way, <<space, message>>
  checked,        \* the Spaces whose persister is past its checks
  status,         \* the Spaces table
  state           \* what the journal of each Space starts with

creationVars == <<maker, mail, answers, checked, status, state>>

Message == {"CreateSpacePersist", "InitialState", "SetState", "ChangeSpaceStatus"}
Answer == {"Changed", "ThingError", "StateInitialized", "ThingFound", "StatusChanged"}

(***************************************************************************)
(* A maker waits for an OID ("numbering"), the persister ("creating"), the *)
(* Space ("booting") and, for an import, the persister again ("opening").  *)
(* It is "done" when its client can be told so, "refused" when the client  *)
(* is told an error, and "stuck" when a failure is told to nobody.         *)
(***************************************************************************)
Step == {"idle", "numbering", "creating", "booting", "opening", "done", "refused", "stuck"}

CreationTypeOK ==
  /\ maker \in [Space -> Step]
  /\ mail \subseteq Space \X Message
  /\ answers \subseteq Space \X Answer
  /\ checked \subseteq Space
  /\ status \in [Space -> {"none", "Normal", "Initializing"}]
  /\ state \in [Space -> {"none", "InitState", "SetState"}]

CreationInit ==
  /\ maker = [s \in Space |-> "idle"]
  /\ mail = {} /\ answers = {} /\ checked = {}
  /\ status = [s \in Space |-> "none"]
  /\ state = [s \in Space |-> "none"]

-----------------------------------------------------------------------------
(* The maker. *)

(* CreateSpace asks for one OID; an import for one for each of its Things. *)
Begin(s) ==
  /\ maker[s] = "idle"
  /\ maker' = [maker EXCEPT ![s] = "numbering"]
  /\ UNCHANGED <<mail, answers, checked, status, state>>

GoOn(s, from, to, message) ==
  /\ maker[s] = from
  /\ maker' = [maker EXCEPT ![s] = to]
  /\ mail' = mail \cup {<<s, message>>}

(* The OIDs are there; the OIDAllocator gives no OID twice. *)
OIDsArrive(s) ==
  /\ GoOn(s, "numbering", "creating", "CreateSpacePersist")
  /\ UNCHANGED <<answers, checked, status, state>>

Hear(s, answer) ==
  /\ <<s, answer>> \in answers
  /\ answers' = answers \ {<<s, answer>>}

(* A mutant: the import opens the Space while it sends the state. *)
CreatedAndOpened(s) ==
  /\ Hear(s, "Changed")
  /\ maker[s] = "creating"
  /\ maker' = [maker EXCEPT ![s] = IF s \in Imported THEN "opening" ELSE "booting"]
  /\ mail' = mail \cup
       (IF s \in Imported THEN {<<s, "SetState">>, <<s, "ChangeSpaceStatus">>}
        ELSE {<<s, "InitialState">>})
  /\ UNCHANGED <<checked, status, state>>

(* The Space is in the table: its actor gets its first state. *)
Created(s) ==
  /\ Hear(s, "Changed")
  /\ GoOn(s, "creating", "booting", IF s \in Imported THEN "SetState" ELSE "InitialState")
  /\ UNCHANGED <<checked, status, state>>

(* The name is taken, or the owner has too many Spaces.  Nobody listens for the failure of an import. *)
Refused(s) ==
  /\ Hear(s, "ThingError")
  /\ maker[s] = "creating"
  /\ maker' = [maker EXCEPT ![s] = IF s \in Imported THEN "stuck" ELSE "refused"]
  /\ UNCHANGED <<mail, checked, status, state>>

(* The client of CreateSpace is told of its Space. *)
Initialized(s) ==
  /\ Hear(s, "StateInitialized")
  /\ maker[s] = "booting"
  /\ maker' = [maker EXCEPT ![s] = "done"]
  /\ UNCHANGED <<mail, checked, status, state>>

(* An import stops its own actor of the Space and opens the Space to all. *)
StateSet(s) ==
  /\ Hear(s, "ThingFound")
  /\ GoOn(s, "booting", "opening", "ChangeSpaceStatus")
  /\ UNCHANGED <<checked, status, state>>

Opened(s) ==
  /\ Hear(s, "StatusChanged")
  /\ maker[s] = "opening"
  /\ maker' = [maker EXCEPT ![s] = "done"]
  /\ UNCHANGED <<mail, checked, status, state>>

(***************************************************************************)
(* A request gets no answer, or one that it does not know.  Only the first *)
(* two of CreateSpace have somebody who listens for that.                  *)
(***************************************************************************)
RequestFails(s) ==
  /\ maker[s] \in {"numbering", "creating", "booting", "opening"}
  /\ maker' = [maker EXCEPT ![s] =
       IF s \notin Imported /\ maker[s] \in {"numbering", "creating"} THEN "refused" ELSE "stuck"]
  /\ UNCHANGED <<mail, answers, checked, status, state>>

-----------------------------------------------------------------------------
(* The persisters and the actors of the Spaces. *)

Read(s, message) ==
  /\ <<s, message>> \in mail
  /\ mail' = mail \ {<<s, message>>}

Normal == {s \in Space : status[s] = "Normal"}

NameIsFree(s) == \A t \in Normal : NameOf(t) # NameOf(s)

CheckSpace(s) ==
  /\ Read(s, "CreateSpacePersist")
  /\ IF NameIsFree(s) /\ Cardinality(Normal) < MaxSpaces
     THEN checked' = checked \cup {s} /\ UNCHANGED answers
     ELSE answers' = answers \cup {<<s, "ThingError">>} /\ UNCHANGED checked
  /\ UNCHANGED <<maker, status, state>>

InitialStatus(s) == IF s \in Imported THEN "Initializing" ELSE "Normal"

InsertSpace(s) ==
  /\ s \in checked
  /\ checked' = checked \ {s}
  /\ status' = [status EXCEPT ![s] = InitialStatus(s)]
  /\ answers' = answers \cup {<<s, "Changed">>}
  /\ UNCHANGED <<maker, mail, state>>

(* An SQLException stops the persister, before the insertion or after it. *)
PersisterStops(s) ==
  /\ s \in checked
  /\ checked' = checked \ {s}
  /\ \E inserted \in BOOLEAN :
       status' = [status EXCEPT ![s] = IF inserted THEN InitialStatus(s) ELSE @]
  /\ UNCHANGED <<maker, mail, answers, state>>

ChangeSpaceStatus(s) ==
  /\ Read(s, "ChangeSpaceStatus")
  /\ status' = [status EXCEPT ![s] = "Normal"]
  /\ answers' = answers \cup {<<s, "StatusChanged">>}
  /\ UNCHANGED <<maker, checked, state>>

InitialState(s) ==
  /\ Read(s, "InitialState")
  /\ state' = [state EXCEPT ![s] = "InitState"]
  /\ answers' = answers \cup {<<s, "StateInitialized">>}
  /\ UNCHANGED <<maker, checked, status>>

(* A mutant: the Space answers although its journal refused the state. *)
SetStateUnpersisted(s) ==
  /\ Read(s, "SetState")
  /\ answers' = answers \cup {<<s, "ThingFound">>}
  /\ UNCHANGED <<maker, checked, status, state>>

SetState(s) ==
  /\ Read(s, "SetState")
  /\ state' = [state EXCEPT ![s] = "SetState"]
  /\ answers' = answers \cup {<<s, "ThingFound">>}
  /\ UNCHANGED <<maker, checked, status>>

LoseMail(m) ==
  /\ m \in mail /\ mail' = mail \ {m}
  /\ UNCHANGED <<maker, answers, checked, status, state>>

LoseAnswer(a) ==
  /\ a \in answers /\ answers' = answers \ {a}
  /\ UNCHANGED <<maker, mail, checked, status, state>>

-----------------------------------------------------------------------------
(* What the makers do once they have begun. *)
Make ==
  \/ \E s \in Space :
       \/ OIDsArrive(s) \/ Created(s) \/ Refused(s) \/ Initialized(s)
       \/ StateSet(s) \/ Opened(s) \/ RequestFails(s)
       \/ CheckSpace(s) \/ InsertSpace(s) \/ PersisterStops(s) \/ ChangeSpaceStatus(s)
       \/ InitialState(s) \/ SetState(s)
  \/ \E m \in mail : LoseMail(m)
  \/ \E a \in answers : LoseAnswer(a)

-----------------------------------------------------------------------------
(* Properties. *)

(***************************************************************************)
(* An import can be seen only when its Space has the imported state,       *)
(* whatever fails on the way; until then the Spaces table hides it.        *)
(***************************************************************************)
VisibleImportIsWhole ==
  \A s \in Imported : status[s] = "Normal" => state[s] = "SetState"

(***************************************************************************)
(* A client that is told that its Space is made can open it: it is in the  *)
(* table, visible, and its journal has the state it starts from.           *)
(***************************************************************************)
DoneIsUsable ==
  \A s \in Space : maker[s] = "done" => status[s] = "Normal" /\ state[s] # "none"

(***************************************************************************)
(* "You already have a Space with the name {0}. Please choose a different  *)
(* name." (conf/messages): an owner does not have two Spaces of one name.  *)
(***************************************************************************)
NamesAreUnique == \A s, t \in Normal : NameOf(s) = NameOf(t) => s = t

=============================================================================
