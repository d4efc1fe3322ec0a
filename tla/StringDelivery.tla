--------------------------- MODULE StringDelivery ---------------------------
(***************************************************************************)
(* What an API call with an oversized result promises its caller, with no  *)
(* chunks and no network: the caller gets the whole text, once, or the     *)
(* call fails.  StringStream implements this specification.                *)
(***************************************************************************)
EXTENDS Sequences

CONSTANT Text

VARIABLES caller, answer

Init == caller = "waiting" /\ answer = <<>>

Deliver ==
  /\ caller = "waiting"
  /\ caller' = "received"
  /\ answer' = Text

Fail ==
  /\ caller = "waiting"
  /\ caller' = "failed"
  /\ UNCHANGED answer

Next == Deliver \/ Fail

Spec == Init /\ [][Next]_<<caller, answer>>

=============================================================================
