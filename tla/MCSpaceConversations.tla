------------------------ MODULE MCSpaceConversations ------------------------
(***************************************************************************)
(* SpaceConversations with two old comments, which have ids of their own   *)
(* (in MySQL the ids were unique in the Space), one an aside to the other. *)
(***************************************************************************)
EXTENDS SpaceConversations

MCPost == 0 .. MaxRequests

OldComment(id, under, primary) ==
  [id |-> id, post |-> 0, under |-> under, primary |-> primary, isDeleted |-> FALSE]
MCOldConvs == <<OldComment(2, Root, TRUE), OldComment(3, 2, FALSE)>>
=============================================================================
