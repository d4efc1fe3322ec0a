------------------------- MODULE ThingConversations -------------------------
(***************************************************************************)
(* The comments about one Thing, as ThingConversationsCore keeps them: a   *)
(* forest of comments and what each stored event does to it.  A forest is  *)
(* the sequence of its comments in the order in which they came, each with *)
(* the id of the comment that it was put under: responses are only ever    *)
(* added at the end, so their order is that of the sequence.               *)
(***************************************************************************)
EXTENDS Naturals, Sequences, FiniteSetsExt, SequencesExt

CONSTANTS
  Post,         \* what a comment says: its text, its author and so on
  MaxId         \* bound: the ids a comment can have

Root == 0       \* not an id: there is no parent, or no responseTo
CommentId == 1 .. MaxId

(* A comment as it is sent and stored, and as it stands in the forest. *)
Comment == [id : CommentId, post : Post, responseTo : CommentId \union {Root}, primary : BOOLEAN]
Node == [id : CommentId, post : Post, under : CommentId \union {Root}, primary : BOOLEAN,
         isDeleted : BOOLEAN]

NodeOf(comment, under) ==
  [id |-> comment.id, post |-> comment.post, under |-> under, primary |-> comment.primary,
   isDeleted |-> FALSE]

Ids(convs) == {convs[n].id : n \in DOMAIN convs}

(* What buildConversations makes of comments: each comment is there once, and *)
(* a response is with the comment that it responds to, which comes before it. *)
Stitched(convs) ==
  /\ \A m, n \in DOMAIN convs : convs[m].id = convs[n].id => m = n
  /\ \A n \in DOMAIN convs :
       convs[n].under = Root \/ \E m \in 1 .. n - 1 : convs[m].id = convs[n].under

responses(convs, id) == {n \in DOMAIN convs : convs[n].under = id}

primaries(convs, id) == {n \in responses(convs, id) : convs[n].primary}

(* Down the primary responses, to the last comment of a conversation. *)
currentConvEnd(convs) ==
  LET End[id \in CommentId] ==
        IF primaries(convs, id) = {} THEN id ELSE End[convs[Min(primaries(convs, id))].id]
  IN End

responseToOf(convs, comment) == comment.responseTo      \* mutant: no correction

(***************************************************************************)
(* doAdd: a comment whose parent is not known starts a conversation.  A    *)
(* second primary response to the same comment goes to the end of the      *)
(* conversation instead.                                                   *)
(***************************************************************************)
parentOf(convs, comment) ==
  CASE comment.responseTo \notin Ids(convs) -> Root
    [] comment.responseTo \in Ids(convs) /\ comment.primary
         /\ responses(convs, comment.responseTo) # {} -> currentConvEnd(convs)[comment.responseTo]
    [] OTHER -> comment.responseTo

doAdd(convs, comment) == Append(convs, NodeOf(comment, parentOf(convs, comment)))

doDelete(convs, id) ==
  [n \in DOMAIN convs |->
     IF convs[n].id = id THEN [convs[n] EXCEPT !.isDeleted = TRUE] ELSE convs[n]]

(* fixNextIdRec, and the same for a single comment. *)
fixNextId(nextId, convs) == Max({nextId} \union {id + 1 : id \in Ids(convs)})

-----------------------------------------------------------------------------
(* The stored events, and the state they rebuild. *)

Memory == [conversations : Seq(Node), nextId : Nat]
NoMemory == [conversations |-> <<>>, nextId |-> 1]

DHConvs(convs) == [type |-> "DHConvs", convs |-> convs]
DHAddComment(comment) == [type |-> "DHAddComment", comment |-> comment]
DHDeleteComment(id) == [type |-> "DHDeleteComment", id |-> id]

ForgetNextId(memory, event) ==      \* mutant: a replayed comment does not raise nextId
  CASE event.type = "DHConvs" ->
         [conversations |-> event.convs, nextId |-> fixNextId(memory.nextId, event.convs)]
    [] event.type = "DHAddComment" ->
         [memory EXCEPT !.conversations = doAdd(@, event.comment)]
    [] event.type = "DHDeleteComment" ->
         [memory EXCEPT !.conversations = doDelete(@, event.id)]

(* receiveRecover *)
recover(memory, event) ==
  CASE event.type = "DHConvs" ->
         [conversations |-> event.convs, nextId |-> fixNextId(memory.nextId, event.convs)]
    [] event.type = "DHAddComment" ->
         [conversations |-> doAdd(memory.conversations, event.comment),
          nextId |-> Max({memory.nextId, event.comment.id + 1})]
    [] event.type = "DHDeleteComment" ->
         [memory EXCEPT !.conversations = doDelete(@, event.id)]
=============================================================================
