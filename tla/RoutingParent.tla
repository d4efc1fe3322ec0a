---------------------------- MODULE RoutingParent ----------------------------
(***************************************************************************)
(* How a parent routes messages to a child that it starts when needed and  *)
(* stops when it has been idle (RoutingParent, TimeoutChild), for one key: *)
(* each key has its own child, and only CurrentState goes to all of them.  *)
(* Children are numbered in the order in which they are created; the names *)
(* that Akka gives them differ in the same way.                            *)
(***************************************************************************)
EXTENDS Naturals, Sequences, SequencesExt

CONSTANTS
  MaxChildren,    \* bounds
  MaxTimeouts

VARIABLES
  managed,        \* the ManagedChild of the key, if there is one
  mailbox,        \* child -> the messages that it has yet to read
  parentBox,      \* what the children have told the parent
  created,        \* how many children there have been
  timeouts        \* how many receive timeouts, for the bound

routingVars == <<managed, mailbox, parentBox, created, timeouts>>

Children == 1 .. MaxChildren
NoChild == 0
NoManagedChild == [ref |-> NoChild, state |-> "Normal"]
PoisonPill == [type |-> "PoisonPill"]

RoutingTypeOK ==
  /\ managed \in [ref : Children \union {NoChild}, state : {"Normal", "Dying"}]
  /\ DOMAIN mailbox = Children
  /\ parentBox \in Seq([type : {"KillMe", "Terminated"}, child : Children])
  /\ created \in 0 .. MaxChildren
  /\ timeouts \in 0 .. MaxTimeouts

RoutingInit ==
  /\ managed = NoManagedChild
  /\ mailbox = [k \in Children |-> <<>>]
  /\ parentBox = <<>>
  /\ created = 0
  /\ timeouts = 0

-----------------------------------------------------------------------------
(* What is sent to a child that has stopped goes to the dead letters; its  *)
(* parent may not have heard of it.                                        *)
Stopped(k) == Contains(parentBox, [type |-> "Terminated", child |-> k])
Sent(k, msg) == IF Stopped(k) THEN mailbox ELSE [mailbox EXCEPT ![k] = Append(@, msg)]

(***************************************************************************)
(* routeToChild.  A message for a dying child should wait in its buffer,   *)
(* but buffer.enqueue(msg) returns a new Queue, which is dropped: buffer   *)
(* is always empty, and the message is gone.                               *)
(***************************************************************************)
CreateAndForward(msg) ==
  /\ managed.ref = NoChild
  /\ created < MaxChildren
  /\ created' = created + 1
  /\ managed' = [ref |-> created', state |-> "Normal"]
  /\ mailbox' = [mailbox EXCEPT ![created'] = <<msg>>]

Forward(msg) ==
  /\ managed.ref # NoChild
  /\ managed.state = "Normal"
  /\ mailbox' = Sent(managed.ref, msg)
  /\ UNCHANGED <<managed, created>>

ForwardToDying(msg) ==
  /\ managed.ref # NoChild
  /\ managed.state = "Dying"
  /\ UNCHANGED <<managed, mailbox, created>>

RouteToNone(msg) == UNCHANGED mailbox      \* mutant: CurrentState is not passed on

(* Also to a child that is dying. *)
routeToAll(msg) ==
  mailbox' = IF managed.ref = NoChild THEN mailbox
             ELSE Sent(managed.ref, msg)

-----------------------------------------------------------------------------
(* A timeout may fire just as a message arrives. *)
ReceiveTimeout(k) ==
  /\ timeouts < MaxTimeouts
  /\ timeouts' = timeouts + 1
  /\ parentBox' = Append(parentBox, [type |-> "KillMe", child |-> k])
  /\ UNCHANGED <<managed, mailbox, created>>

ForgetAtOnce ==      \* mutant: the child is removed when it is told to stop
  /\ parentBox # <<>>
  /\ Head(parentBox).type = "KillMe"
  /\ parentBox' = Tail(parentBox)
  /\ IF managed.ref = Head(parentBox).child
       THEN /\ managed' = NoManagedChild
            /\ mailbox' = Sent(managed.ref, PoisonPill)
       ELSE UNCHANGED <<managed, mailbox>>
  /\ UNCHANGED <<created, timeouts>>

KillWithoutPill ==      \* mutant: beginShutdown only marks the child
  /\ parentBox # <<>>
  /\ Head(parentBox).type = "KillMe"
  /\ parentBox' = Tail(parentBox)
  /\ managed' = IF managed.ref = Head(parentBox).child
                  THEN [managed EXCEPT !.state = "Dying"] ELSE managed
  /\ UNCHANGED <<mailbox, created, timeouts>>

(* beginShutdown, unless the child is not known any more. *)
KillMe ==
  /\ parentBox # <<>>
  /\ Head(parentBox).type = "KillMe"
  /\ parentBox' = Tail(parentBox)
  /\ IF managed.ref = Head(parentBox).child
       THEN /\ managed' = [managed EXCEPT !.state = "Dying"]
            /\ mailbox' = Sent(managed.ref, PoisonPill)
       ELSE UNCHANGED <<managed, mailbox>>
  /\ UNCHANGED <<created, timeouts>>

(* removeChild; there is nothing in the buffer to rebuild the child for. *)
Terminated ==
  /\ parentBox # <<>>
  /\ Head(parentBox).type = "Terminated"
  /\ parentBox' = Tail(parentBox)
  /\ managed' = IF managed.ref = Head(parentBox).child THEN NoManagedChild ELSE managed
  /\ UNCHANGED <<mailbox, created, timeouts>>

(* A child is gone: what it did not read goes to the dead letters, and its *)
(* parent, which watches it, is told.                                      *)
ChildStops(k) ==
  /\ mailbox' = [mailbox EXCEPT ![k] = <<>>]
  /\ parentBox' = Append(parentBox, [type |-> "Terminated", child |-> k])
  /\ UNCHANGED <<managed, created, timeouts>>

(* Parent and children are gone with their node. *)
FamilyDies ==
  /\ managed' = NoManagedChild
  /\ mailbox' = [k \in Children |-> <<>>]
  /\ parentBox' = <<>>
  /\ UNCHANGED <<created, timeouts>>
=============================================================================
