----------------------------- MODULE OIDService -----------------------------
(***************************************************************************)
(* What an OID allocator promises its clients, with no blocks, no journal  *)
(* and no crashes: an OID that some client already makes use of is never   *)
(* handed out for use again.  OIDAllocator implements this specification.  *)
(***************************************************************************)
EXTENDS Integers

CONSTANT Index          \* the lower half of an OID: its number within the shard

VARIABLE uses           \* how many times each index was handed out for use

Init == uses = [i \in Index |-> 0]

(***************************************************************************)
(* One request is answered with the indices in `fresh`, all of them new.   *)
(***************************************************************************)
Issue(fresh) ==
  /\ \A i \in fresh : uses[i] = 0
  /\ uses' = [i \in Index |-> IF i \in fresh THEN 1 ELSE uses[i]]

Next == \E fresh \in SUBSET Index : Issue(fresh)

Spec == Init /\ [][Next]_uses

=============================================================================
