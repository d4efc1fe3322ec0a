------------------------- MODULE InPublicationState -------------------------
(***************************************************************************)
(* The actor of a Space that keeps the drafts: the changes to Publishable  *)
(* Things, which do not move to the Space itself until they are published. *)
(* Of each Thing's vector of events only what they add up to is kept: the  *)
(* value, and whether the Thing's creation is one of them.                 *)
(*                                                                         *)
(* Every handler persists its event before it changes pState, and other    *)
(* messages wait until then, so pState is also what a recovery rebuilds.   *)
(***************************************************************************)
EXTENDS Integers, Sequences

CONSTANTS
  Thing,      \* the Things there may be, by OID
  Value,      \* what the properties of a Thing may be
  Absent,     \* no such Thing
  Client,     \* who sends requests to the Space
  Nobody      \* who asked for what is no longer waited for

ASSUME ThingAssumption == Thing # {}
ASSUME AbsentAssumption == Absent \notin Value
ASSUME NobodyAssumption == Nobody \notin Client

Content == [Thing -> Value \union {Absent}]     \* what a Space holds

Draft == [creates : BOOLEAN, value : Value \union {Absent}]
NoDraft == [creates |-> FALSE, value |-> Absent]
Drafts == [Thing -> Draft]

(* The SpaceEvents: DHCreateThing, DHModifyThing, DHDeleteThing (Absent). *)
Event == [kind : {"create", "modify", "delete"}, thing : Thing, value : Value \union {Absent}]
EventOf(kind, t, value) == [kind |-> kind, thing |-> t, value |-> value]

VARIABLES
  pState,     \* the draft of each Thing
  pubInbox,   \* the messages of the Space on their way to this actor
  replies,    \* its replies to the Space, in no order
  notices     \* the CurrentPublicationStates on their way to the Space

publicationVars == <<pState, pubInbox, replies, notices>>

(* A ThingPublished names only the Thing; its handler deletes the draft. *)
Message == [type : {"AddPublicationEvents", "ThingPublished"}, event : Event,
            client : Client \union {Nobody}]

(* late (history): has the state changed since the reply was made? *)
Reply == [client : Client, state : Drafts, late : BOOLEAN]

PublicationTypeOK ==
  /\ pState \in Drafts
  /\ pubInbox \in Seq(Message)
  /\ replies \subseteq Reply
  /\ notices \in Seq(Drafts)

PublicationInit ==
  /\ pState = [t \in Thing |-> NoDraft]
  /\ pubInbox = <<>>
  /\ replies = {}
  /\ notices = <<>>

(* addEvent: a deletion drops the draft. *)
AddEvent(drafts, e) ==
  [drafts EXCEPT ![e.thing] =
     IF e.kind = "delete" THEN NoDraft
     ELSE [creates |-> drafts[e.thing].creates \/ e.kind = "create", value |-> e.value]]

(* enhanceState: the Space with the drafts on top.  A modification of a Thing *)
(* that is not there changes nothing.                                         *)
EnhanceState(state, drafts) ==
  [t \in Thing |->
     IF drafts[t] = NoDraft \/ (~drafts[t].creates /\ state[t] = Absent)
       THEN state[t] ELSE drafts[t].value]

(* The sender hears of it, if it still waits. *)
Respond(state) ==
  LET c == Head(pubInbox).client IN
  /\ replies' = {[r EXCEPT !.late = TRUE] : r \in replies} \union
                (IF c = Nobody THEN {} ELSE {[client |-> c, state |-> state, late |-> FALSE]})
  /\ pubInbox' = Tail(pubInbox)

(* setState tells everybody, the Space included; the reply goes its own way. *)
SetState(state) ==
  /\ pState' = state
  /\ notices' = Append(notices, state)
  /\ Respond(state)

SetStateQuietly(state) ==      \* mutant: nobody is told
  /\ pState' = state
  /\ UNCHANGED notices
  /\ Respond(state)

AddPublicationEvents ==
  /\ pubInbox # <<>>
  /\ Head(pubInbox).type = "AddPublicationEvents"
  /\ SetState(AddEvent(pState, Head(pubInbox).event))

ThingPublishedQuietly ==      \* mutant
  /\ pubInbox # <<>>
  /\ Head(pubInbox).type = "ThingPublished"
  /\ SetStateQuietly(AddEvent(pState, Head(pubInbox).event))

(* The Thing has been published: its draft goes.  (The reply is an ack only.) *)
ThingPublished ==
  /\ pubInbox # <<>>
  /\ Head(pubInbox).type = "ThingPublished"
  /\ SetState(AddEvent(pState, Head(pubInbox).event))

(* The actor dies with its Space; when it recovers it tells what it has. *)
PublicationDies == pubInbox' = <<>> /\ replies' = {} /\ notices' = <<>> /\ UNCHANGED pState
PublicationRecovers == notices' = <<pState>> /\ UNCHANGED <<pState, pubInbox, replies>>
=============================================================================
