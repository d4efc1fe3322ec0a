------------------------- MODULE SpaceConversations -------------------------
(***************************************************************************)
(* The conversations about one Thing of a Space: the                       *)
(* SpaceConversationsManager, which routes requests, the                   *)
(* ThingConversationsActors it starts for that Thing, one after the other, *)
(* and their journal.  Of the journal we keep what a replay of it gives:   *)
(* to store one more event is to apply recover once more.                  *)
(*                                                                         *)
(* Requests reach the manager in any order, so to send one and to route it *)
(* is one step; while the manager boots they wait in its stash.  While a   *)
(* child recovers or persists, its commands wait in a stash in front of    *)
(* its mailbox, so they stay in the mailbox here; a PoisonPill is read at  *)
(* once and does not wait for them.                                        *)
(***************************************************************************)
EXTENDS RoutingParent, ThingConversations, FiniteSets

CONSTANTS
  OldConvs,       \* the comments that the old MySQL Space has, stitched together
  MaxRequests,    \* bounds
  MaxVersions,
  MaxFaults

Request == 1 .. MaxRequests     \* numbered as they are routed

ASSUME ConversationsAssumption ==
  /\ Request \subseteq Post
  /\ OldConvs \in Seq(Node) /\ Stitched(OldConvs)
  /\ MaxId \in Nat /\ MaxChildren \in Nat /\ MaxTimeouts \in Nat
  /\ MaxVersions \in Nat /\ MaxFaults \in Nat

VARIABLES
  state,          \* the SpaceState the manager has, as a version; 0 before it booted
  version,        \* the last version that the Space has sent
  child,          \* child -> what a ThingConversationsActor is doing and remembers
  journal,        \* what a replay of the Thing's journal gives
  outcome,        \* what has become of each request
  faults          \* crashes and failed writes, for the bound

vars == <<routingVars, state, version, child, journal, outcome, faults>>

NoEvent == [type |-> "none"]
Unborn == [phase |-> "unborn", memory |-> NoMemory, state |-> 0, event |-> NoEvent,
           request |-> NoEvent]
Dead == [Unborn EXCEPT !.phase = "dead"]

Running(k) == child[k].phase \notin {"unborn", "dead"}

Place(node) == [id |-> node.id, under |-> node.under, post |-> node.post]
Places(convs) == {Place(convs[n]) : n \in DOMAIN convs}

(* What authors have been told: where their comments are. *)
told == {outcome[p].node : p \in {q \in Request : outcome[q].type = "AddedNode"}}

Events == {NoEvent, DHConvs(OldConvs)} \union {DHAddComment(c) : c \in Comment}
            \union {DHDeleteComment(id) : id \in CommentId}
Outcomes == {"unsent", "sent", "buffered", "lost", "AddedNode", "ThingError", "Conversations",
             "CommentDeleted", "CommentNotDeleted"}

TypeOK ==
  /\ RoutingTypeOK
  /\ state \in 0 .. MaxVersions
  /\ version \in 0 .. MaxVersions
  /\ \A k \in Children :
       /\ child[k].phase \in {"unborn", "recovering", "ready", "persisting", "written", "dead"}
       /\ child[k].memory \in Memory
       /\ child[k].state \in 0 .. MaxVersions
       /\ child[k].event \in Events
  /\ journal \in Memory
  /\ \A p \in Request : outcome[p].type \in Outcomes
  /\ faults \in 0 .. MaxFaults

Init ==
  /\ RoutingInit
  /\ state = 0
  /\ version = 0
  /\ child = [k \in Children |-> Unborn]
  /\ journal = NoMemory
  /\ outcome = [p \in Request |-> [type |-> "unsent"]]
  /\ faults = 0

(* An event is appended to the journal. *)
Store(event) == journal' = recover(journal, event)

-----------------------------------------------------------------------------
(* The manager. *)

(***************************************************************************)
(* SetConversations, sent to an actor of its own for each Thing while an   *)
(* old Space is loaded from MySQL.  The Space has no event yet; when it    *)
(* dies before it stores its first one this is done again.                 *)
(***************************************************************************)
RunTransition ==
  /\ version = 0
  /\ \/ journal = NoMemory /\ UNCHANGED faults
     \/ journal # NoMemory /\ faults < MaxFaults /\ faults' = faults + 1
  /\ Store(DHConvs(OldConvs))
  /\ UNCHANGED <<routingVars, state, version, child, outcome>>

(* CurrentState: the first one boots the manager. *)
CurrentState ==
  /\ \/ state = 0 /\ version > 0 /\ version' = version
     \/ version < MaxVersions /\ version' = version + 1
  /\ state' = version'
  /\ routeToAll([type |-> "CurrentState", state |-> version'])
  /\ UNCHANGED <<managed, parentBox, created, timeouts, child, journal, outcome, faults>>

(* What a SpaceSubsystemRequest asks for, and what is known when it is      *)
(* routed.  addComment makes every comment a primary response.              *)
Ask(type) == [type |-> type, post |-> 0, responseTo |-> Root,
              primary |-> TRUE, id |-> Root, routedIn |-> state, owed |-> {}]
NewComment(id) == [Ask("NewComment") EXCEPT !.responseTo = id]
DeleteComment(id) == [Ask("DeleteComment") EXCEPT !.id = id]
GetConversations == [Ask("GetConversations") EXCEPT !.owed = told]

(* The ids that users can have seen. *)
KnownIds == Ids(journal.conversations)
Payloads ==
  {NewComment(id) : id \in KnownIds \union {Root}}
    \union {DeleteComment(id) : id \in KnownIds} \union {GetConversations}

Route(p, payload) ==
  LET msg == [payload EXCEPT !.post = p] IN
  /\ state > 0
  /\ outcome[p].type = "unsent" /\ \A q \in 1 .. p - 1 : outcome[q].type # "unsent"
  /\ \/ /\ CreateAndForward(msg)
        /\ child' = [child EXCEPT ![created'] = [Unborn EXCEPT !.phase = "recovering", !.state = state]]
        /\ outcome' = [outcome EXCEPT ![p] = [type |-> "sent"]]
     \/ /\ Forward(msg)
        /\ outcome' = [outcome EXCEPT ![p] =
                         [type |-> IF Stopped(managed.ref) THEN "lost" ELSE "sent"]]
        /\ UNCHANGED child
     \/ /\ ForwardToDying(msg)
        /\ outcome' = [outcome EXCEPT ![p] = [type |-> "buffered"]]
        /\ UNCHANGED child
  /\ UNCHANGED <<parentBox, timeouts, state, version, journal, faults>>

ManagerStep ==
  /\ KillMe \/ Terminated
  /\ UNCHANGED <<state, version, child, journal, outcome, faults>>

-----------------------------------------------------------------------------
(* A child. *)

Recover(k) ==
  /\ child[k].phase = "recovering"
  /\ child' = [child EXCEPT ![k].phase = "ready", ![k].memory = journal]
  /\ UNCHANGED <<routingVars, state, version, journal, outcome, faults>>

(* The next command, when the child can take one. *)
Reads(k, type) ==
  /\ child[k].phase = "ready"
  /\ mailbox[k] # <<>>
  /\ Head(mailbox[k]).type = type
  /\ mailbox' = [mailbox EXCEPT ![k] = Tail(@)]
  /\ UNCHANGED <<managed, parentBox, created, timeouts, state, version, journal, faults>>

Respond(p, answer) == outcome' = [outcome EXCEPT ![p] = answer]

ReadCurrentState(k) ==
  /\ Reads(k, "CurrentState")
  /\ child' = [child EXCEPT ![k].state = Head(mailbox[k]).state]
  /\ UNCHANGED outcome

SilentRefusal(k) ==      \* mutant: readers without the permission get no answer
  LET msg == Head(mailbox[k]) IN
  /\ Reads(k, "GetConversations")
  /\ \/ Respond(msg.post, [type |-> "Conversations", missed |-> {}])
     \/ UNCHANGED outcome
  /\ UNCHANGED child

(* Readers without the permission get an empty answer. *)
ReadGetConversations(k) ==
  LET msg == Head(mailbox[k]) IN
  /\ Reads(k, "GetConversations")
  /\ \/ Respond(msg.post, [type |-> "Conversations",
                           missed |-> msg.owed \ Places(child[k].memory.conversations)])
     \/ Respond(msg.post, [type |-> "Conversations", missed |-> {}])
  /\ UNCHANGED child

Persist(k, event, msg, nextId) ==
  child' = [child EXCEPT ![k].phase = "persisting", ![k].event = event, ![k].request = msg,
                         ![k].memory.nextId = nextId]

AnswerFirst(k) ==      \* mutant: the answer does not wait for the journal
  LET msg == Head(mailbox[k])
      comment == [id |-> child[k].memory.nextId, post |-> msg.post,
                  responseTo |-> msg.responseTo, primary |-> msg.primary]
  IN
  /\ Reads(k, "NewComment")
  /\ comment.id <= MaxId
  /\ Persist(k, DHAddComment(comment), msg, comment.id + 1)
  /\ Respond(msg.post, [type |-> "AddedNode",
                        node |-> Place(Last(doAdd(child[k].memory.conversations, comment)))])

ReadNewComment(k) ==
  LET msg == Head(mailbox[k])
      id == child[k].memory.nextId
  IN
  /\ Reads(k, "NewComment")
  /\ \/ /\ id <= MaxId
        /\ Persist(k, DHAddComment([id |-> id, post |-> msg.post, responseTo |-> msg.responseTo,
                                    primary |-> msg.primary]), msg, id + 1)
        /\ UNCHANGED outcome
     \/ Respond(msg.post, [type |-> "ThingError"]) /\ UNCHANGED child

DeleteWrongComment(k) ==      \* mutant: the comment that is answered is deleted
  LET msg == Head(mailbox[k]) IN
  /\ Reads(k, "DeleteComment")
  /\ Persist(k, DHDeleteComment(msg.responseTo), msg, child[k].memory.nextId)
  /\ UNCHANGED outcome

(* Only a moderator or the author may delete a comment. *)
ReadDeleteComment(k) ==
  LET msg == Head(mailbox[k]) IN
  /\ Reads(k, "DeleteComment")
  /\ \/ /\ msg.id \in Ids(child[k].memory.conversations)
        /\ Persist(k, DHDeleteComment(msg.id), msg, child[k].memory.nextId)
        /\ UNCHANGED outcome
     \/ Respond(msg.post, [type |-> "CommentNotDeleted"]) /\ UNCHANGED child

(* The event is stored; the handler has not run yet. *)
EventWritten(k) ==
  /\ child[k].phase = "persisting"
  /\ Store(child[k].event)
  /\ child' = [child EXCEPT ![k].phase = "written"]
  /\ UNCHANGED <<routingVars, state, version, outcome, faults>>

(* The handler: doAdd or doDelete, and the answer. *)
Handler(k) ==
  LET event == child[k].event
      convs == recover(child[k].memory, event).conversations
  IN
  /\ child[k].phase = "written"
  /\ child' = [child EXCEPT ![k].phase = "ready", ![k].memory.conversations = convs,
                            ![k].event = NoEvent, ![k].request = NoEvent]
  /\ Respond(child[k].request.post,
       IF event.type = "DHAddComment"
         THEN [type |-> "AddedNode", node |-> Place(convs[Len(convs)])]
         ELSE [type |-> "CommentDeleted"])
  /\ UNCHANGED <<routingVars, state, version, journal, faults>>

-----------------------------------------------------------------------------
(* The end of a child. *)

(* Whom the child k will not answer any more. *)
Unanswered(k) ==
  {p \in Request :
     \/ \E n \in DOMAIN mailbox[k] : "post" \in DOMAIN mailbox[k][n] /\ mailbox[k][n].post = p
     \/ child[k].phase \in {"persisting", "written"} /\ child[k].request.post = p}

Lose(posts) == outcome' = [p \in Request |-> IF p \in posts THEN [type |-> "lost"] ELSE outcome[p]]

(* A write that is under way when its actor ends may still be made; the     *)
(* journal finishes it before it lets the next actor replay.                *)
WriteMayEnd(k) ==
  \/ UNCHANGED journal
  \/ child[k].phase = "persisting" /\ Store(child[k].event)

Stop(k) ==
  /\ ChildStops(k)
  /\ child' = [child EXCEPT ![k] = Dead]
  /\ Lose(Unanswered(k))
  /\ WriteMayEnd(k)

(* Before the commands that wait in the stash, but after those in front. *)
TakePoisonPill(k) ==
  /\ Running(k)
  /\ \/ child[k].phase # "ready" /\ Contains(mailbox[k], PoisonPill)
     \/ child[k].phase = "ready" /\ mailbox[k] # <<>> /\ Head(mailbox[k]) = PoisonPill
  /\ Stop(k)
  /\ UNCHANGED <<state, version, faults>>

CarryOn(k) ==      \* mutant: a failed write is reported, and the actor goes on
  /\ child[k].phase = "persisting"
  /\ faults < MaxFaults
  /\ faults' = faults + 1
  /\ child' = [child EXCEPT ![k].phase = "ready", ![k].event = NoEvent, ![k].request = NoEvent]
  /\ Respond(child[k].request.post, [type |-> "ThingError"])
  /\ WriteMayEnd(k)
  /\ UNCHANGED <<routingVars, state, version>>

(* A failed write stops the actor; the event may have been stored all the same. *)
PersistFails(k) ==
  /\ child[k].phase = "persisting"
  /\ faults < MaxFaults
  /\ faults' = faults + 1
  /\ Stop(k)
  /\ UNCHANGED <<state, version>>

ChildTimesOut(k) ==
  /\ child[k].phase = "ready"
  /\ ReceiveTimeout(k)
  /\ UNCHANGED <<state, version, child, journal, outcome, faults>>

(* The Space's actors die together; the journal stays. *)
Crash ==
  /\ faults < MaxFaults
  /\ faults' = faults + 1
  /\ state > 0
  /\ FamilyDies
  /\ state' = 0
  /\ child' = [k \in Children |-> IF Running(k) THEN Dead ELSE child[k]]
  /\ Lose({p \in Request : outcome[p].type \in {"sent", "buffered"}})
  /\ \/ UNCHANGED journal
     \/ \E k \in Children : child[k].phase = "persisting" /\ WriteMayEnd(k)
  /\ UNCHANGED version

-----------------------------------------------------------------------------
ChildReads(k) ==
  \/ ReadCurrentState(k) \/ ReadGetConversations(k)
  \/ ReadNewComment(k) \/ ReadDeleteComment(k)

ChildStep(k) ==
  \/ Recover(k)
  \/ ChildReads(k)
  \/ EventWritten(k)
  \/ Handler(k)
  \/ TakePoisonPill(k)

Next ==
  \/ RunTransition
  \/ CurrentState
  \/ \E p \in Request : \E payload \in Payloads : Route(p, payload)
  \/ ManagerStep
  \/ \E k \in Children : ChildStep(k) \/ PersistFails(k) \/ ChildTimesOut(k)
  \/ Crash

Spec == Init /\ [][Next]_vars

(* The manager and the children read their mail, and the journal answers. *)
Fairness ==
  /\ WF_vars(ManagerStep)
  /\ \A k \in Children : WF_vars(ChildStep(k))

FairSpec == Spec /\ Fairness

-----------------------------------------------------------------------------
(* Properties. *)

Board == INSTANCE CommentBoard WITH
  Id <- CommentId,
  Post <- Post,
  OldBoard <- OldConvs,
  Root <- Root,
  board <- journal.conversations,
  told <- told

(***************************************************************************)
(* Whatever times out, fails or crashes, no comment is lost, moved or      *)
(* changed once it is stored, no id is given to two of them (nextId is in  *)
(* memory only), and an author is told the place that the comment has from *)
(* then on, also when doAdd moved it to the end of its conversation: the   *)
(* event has the comment as it was sent, and each replay corrects it anew. *)
(***************************************************************************)
CommentsStay == Board!Spec

(* What an actor remembers is what the journal says, apart from the write   *)
(* that is under way: users see what the next recovery will bring.          *)
MemoryIsJournal ==
  \A k \in Children :
    LET memory == child[k].memory IN
    /\ child[k].phase = "ready" => memory = journal
    /\ child[k].phase = "persisting" => memory.conversations = journal.conversations
    /\ child[k].phase = "written" =>
         recover(memory, child[k].event).conversations = journal.conversations

(* Two people who reply to the same comment at once do not fork the         *)
(* conversation: there is at most one primary response to a comment.        *)
OneMainLine ==
  \A id \in CommentId : Cardinality(primaries(journal.conversations, id)) <= 1

(* No two actors ever work on the journal of a Thing: the next child is     *)
(* made only when the last one is gone, whatever timeouts and messages      *)
(* cross.                                                                   *)
OneWriter == \A j, k \in Children : Running(j) /\ Running(k) => j = k

(* A request is judged by a state of the Space that is no older than the    *)
(* one the manager had when it passed the request on: who has lost the      *)
(* permission to comment cannot use it because a child lags behind.         *)
NoStalePermission ==
  \A k \in Children :
    child[k].phase = "ready" /\ mailbox[k] # <<>> /\ "post" \in DOMAIN Head(mailbox[k])
      => child[k].state >= Head(mailbox[k]).routedIn

(* Who reads the conversations sees every comment, in its place, whose      *)
(* author had an answer by the time the request was routed.                 *)
ReadersSeeWhatWasTold ==
  \A p \in Request : outcome[p].type = "Conversations" => outcome[p].missed = {}

(* Each request is answered once: one that is neither answered nor lost is  *)
(* in the mail of a child or in its hands, and what is there has no answer. *)
SentIsWaiting ==
  \A p \in Request : outcome[p].type = "sent" <=> \E k \in Children : p \in Unanswered(k)

(* A child that is to die has its PoisonPill before it, or its parent will  *)
(* read of its end; neither is ever lost on the way.                        *)
DyingIsTold ==
  managed.state = "Dying" =>
    Stopped(managed.ref) \/ Contains(mailbox[managed.ref], PoisonPill)

(* A request that was given to a child is answered or lost with that child; *)
(* none waits in a mailbox or a stash for ever.                             *)
RequestsEnd == \A p \in Request : outcome[p].type = "sent" ~> outcome[p].type # "sent"

(* A child that was told to stop does stop, and the parent hears of it: the *)
(* conversations of a Thing are not closed for good by a timeout.           *)
DyingEnds == managed.state = "Dying" ~> managed.state = "Normal"

(* "... but more messages came in the meantime, so rebuild the child"       *)
(* (TimeoutChild.scala:116): what came for a dying child is not forgotten.  *)
BufferIsReplayed == \A p \in Request : outcome[p].type = "buffered" ~> outcome[p].type # "buffered"
=============================================================================
