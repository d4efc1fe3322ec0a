---------------------------- MODULE CommentBoard ----------------------------
(***************************************************************************)
(* What the conversations of a Thing promise, with no actors, journals or  *)
(* timeouts: comments are put up one after the other, each under its own   *)
(* id and below one that is there (or below none); from then on a comment  *)
(* stays where it is and can only be marked as deleted; and whoever is     *)
(* told where a comment is was told the truth.  SpaceConversations         *)
(* implements this specification.                                          *)
(***************************************************************************)
EXTENDS Naturals, Sequences, SequencesExt

CONSTANTS
  Id,         \* what comments are known by
  Post,       \* what a comment says: its text, its author and so on
  OldBoard,   \* the comments of an old Space, in MySQL
  Root        \* stands for "below no other comment"

VARIABLES
  board,      \* the comments, in the order in which they came
  told        \* what the authors were told: which comment is where

vars == <<board, told>>

Ids == {board[n].id : n \in DOMAIN board}
Place(c) == [id |-> c.id, under |-> c.under, post |-> c.post]

Init == board = <<>> /\ told = {}

Import ==
  /\ board = <<>>
  /\ board' = OldBoard
  /\ UNCHANGED told

Put ==
  /\ Len(board') = Len(board) + 1 /\ Front(board') = board
  /\ LET comment == Last(board') IN
       /\ comment.id \in Id \ Ids
       /\ comment.under \in Ids \union {Root}
       /\ comment.post \in Post
       /\ ~comment.isDeleted
  /\ UNCHANGED told

MarkDeleted ==
  /\ \E n \in DOMAIN board : board' = [board EXCEPT ![n].isDeleted = TRUE]
  /\ UNCHANGED told

Tell ==
  /\ \E n \in DOMAIN board : told' = told \union {Place(board[n])}
  /\ UNCHANGED board

Next ==
  \/ Import
  \/ Put
  \/ MarkDeleted
  \/ Tell

Spec == Init /\ [][Next]_vars
=============================================================================
