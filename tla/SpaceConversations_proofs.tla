---------------------- MODULE SpaceConversations_proofs ----------------------
(***************************************************************************)
(* For every number of requests, children and versions of the Space: one   *)
(* actor at a time works on the journal of a Thing, what it remembers is   *)
(* what the journal says, and its users are neither judged by old          *)
(* permissions nor shown less than their fellows were told.                *)
(***************************************************************************)
EXTENDS SpaceConversations, WellFoundedInduction, TLAPS

(***************************************************************************)
(* What is known of the comments is their shape.  Where currentConvEnd     *)
(* puts them is left open: it is recursive.                                *)
(***************************************************************************)
AnyNode(V) == [id : V, post : V, under : V, primary : V, isDeleted : BOOLEAN]
Forest(convs) == \E V : convs \in Seq(AnyNode(V))

MemoryShape(memory) ==
  memory = [conversations |-> memory.conversations, nextId |-> memory.nextId]

JournalType ==
  /\ MemoryShape(journal)
  /\ journal.nextId \in Nat
  /\ Forest(journal.conversations)

Placed == Places(journal.conversations)

ParentMsg == [type : {"KillMe", "Terminated"}, child : 1 .. created]

FamilyType ==
  /\ mailbox = [k \in Children |-> mailbox[k]]
  /\ parentBox \in Seq(ParentMsg)
  /\ created \in 0 .. MaxChildren
  /\ managed \in [ref : 0 .. created, state : {"Normal", "Dying"}]

SpaceType ==
  /\ state \in Nat /\ version \in Nat /\ state <= version
  /\ outcome = [p \in Request |-> outcome[p]]

ChildShape(c) ==
  /\ c = [phase |-> c.phase, memory |-> c.memory, state |-> c.state, event |-> c.event,
          request |-> c.request]
  /\ MemoryShape(c.memory)
ChildType == child = [k \in Children |-> child[k]] /\ \A k \in Children : ChildShape(child[k])

(***************************************************************************)
(* The child that runs is the managed one, and its parent has not been     *)
(* told of its end; who does not run has no mail.                          *)
(***************************************************************************)
ManagedRuns ==
  \A k \in Children :
    /\ Running(k) => managed.ref = k /\ ~Stopped(k)
    /\ managed.ref = k => Running(k) \/ Stopped(k)
    /\ ~Running(k) => mailbox[k] = <<>>

(* Until the Space has sent a state nothing happens, and nobody lives without one. *)
NothingBefore ==
  /\ state = 0 => managed.ref = NoChild
  /\ version = 0 => \A p \in Request : outcome[p].type = "unsent"

(* What a child is about to do to its memory and to the journal. *)
InStep(c) ==
  /\ c.phase = "ready" => c.memory = journal
  /\ c.phase = "persisting" =>
       /\ c.memory.conversations = journal.conversations
       /\ \/ \E comment : /\ c.event = DHAddComment(comment)
                          /\ comment.id = journal.nextId /\ c.memory.nextId = journal.nextId + 1
          \/ \E id : c.event = DHDeleteComment(id) /\ c.memory.nextId = journal.nextId
  /\ c.phase = "written" =>
       /\ c.event.type \in {"DHAddComment", "DHDeleteComment"}
       /\ c.memory.nextId = journal.nextId
       /\ recover(c.memory, c.event).conversations = journal.conversations
       /\ c.event.type = "DHAddComment" => journal.conversations # <<>>
MemoryInStep == \A k \in Children : InStep(child[k])

(***************************************************************************)
(* A mailbox of a child that judges by state s.  The states in it are      *)
(* never older than s and do not go back; what a request was routed in is  *)
(* among those in front of it, or s; and so is the state of the manager.   *)
(***************************************************************************)
IsSeq(s) == \E S : s \in Seq(S)
RequestType == {"NewComment", "DeleteComment", "GetConversations"}
IsRequest(m) == m.type \in RequestType
IsState(m) == m.type = "CurrentState"

MsgOK(m, placed) ==
  \/ m = PoisonPill
  \/ \E v \in Nat : m = [type |-> "CurrentState", state |-> v]
  \/ IsRequest(m) /\ m.routedIn \in Nat /\ m.owed \subseteq placed

Informed(box, s, n, v) ==
  s >= v \/ \E m \in 1 .. n : IsState(box[m]) /\ box[m].state >= v

BoxOK(box, s, now, latest, placed) ==
  /\ IsSeq(box)
  /\ s <= latest /\ Informed(box, s, Len(box), now)
  /\ \A n \in 1 .. Len(box) :
       /\ MsgOK(box[n], placed)
       /\ IsRequest(box[n]) => Informed(box, s, n, box[n].routedIn)
       /\ IsState(box[n]) => s <= box[n].state /\ box[n].state <= latest
       /\ \A m \in 1 .. n : IsState(box[m]) /\ IsState(box[n]) => box[m].state <= box[n].state

MailInOrder ==
  \A k \in Children :
    Running(k) => child[k].state \in Nat /\ BoxOK(mailbox[k], child[k].state, state, version, Placed)

ToldIsTrue ==
  \A p \in Request : outcome[p].type = "AddedNode" => outcome[p].node \in Placed

IInv ==
  /\ JournalType /\ FamilyType /\ SpaceType /\ ChildType
  /\ ManagedRuns /\ NothingBefore /\ MemoryInStep /\ MailInOrder
  /\ ToldIsTrue /\ ReadersSeeWhatWasTold

-----------------------------------------------------------------------------
(* Sequences. *)

LEMMA SeqMonotone ==
  ASSUME NEW S, NEW T, S \subseteq T, NEW s \in Seq(S)
  PROVE  s \in Seq(T)
<1> DEFINE n == Len(s)
<1>1. n \in Nat /\ s \in [1 .. n -> S]
  OBVIOUS
<1>2. s \in [1 .. n -> T]
  BY <1>1
<1> QED BY <1>1, <1>2

LEMMA AppendIs ==
  ASSUME NEW s, NEW e, IsSeq(s)
  PROVE  /\ IsSeq(Append(s, e))
         /\ Len(s) \in Nat /\ Len(Append(s, e)) = Len(s) + 1
         /\ \A n \in 1 .. Len(s) : Append(s, e)[n] = s[n]
         /\ Append(s, e)[Len(s) + 1] = e
<1>1. PICK S : s \in Seq(S)
  BY DEF IsSeq
<1> DEFINE T == S \union {e}
<1>2. s \in Seq(T) /\ e \in T
  BY <1>1, SeqMonotone
<1> HIDE DEF T
<1>3. Append(s, e) \in Seq(T)
  BY <1>2
<1> QED BY <1>2, <1>3 DEF IsSeq

LEMMA TailIs ==
  ASSUME NEW s, IsSeq(s), s # <<>>
  PROVE  /\ IsSeq(Tail(s))
         /\ Len(s) \in Nat \ {0} /\ Len(Tail(s)) = Len(s) - 1
         /\ \A n \in 1 .. Len(s) - 1 : Tail(s)[n] = s[n + 1]
         /\ Head(s) = s[1]
<1>1. PICK S : s \in Seq(S)
  BY DEF IsSeq
<1>2. Tail(s) \in Seq(S)
  BY <1>1
<1> QED BY <1>1, <1>2 DEF IsSeq

(* A set of numbers that is bounded has a maximum. *)
LEMMA MaxOfBounded ==
  ASSUME NEW n \in Nat, NEW S \in SUBSET (0 .. n), S # {}
  PROVE  Max(S) \in S /\ \A y \in S : Max(S) >= y
<1> DEFINE T == {n - x : x \in S}
<1>1. T \subseteq Nat /\ T # {}
  <2>1. PICK x \in S : TRUE
    OBVIOUS
  <2>2. n - x \in T
    OBVIOUS
  <2>3. \A y \in S : n - y \in Nat
    OBVIOUS
  <2> QED BY <2>2, <2>3
<1>2. PICK d \in T : \A e \in T : ~ (<<e, d>> \in OpToRel(<, Nat))
  BY <1>1, NatLessThanWellFounded, WFMin, Zenon
<1>3. PICK x \in S : d = n - x
  OBVIOUS
<1>4. \A y \in S : x >= y
  <2> SUFFICES ASSUME NEW y \in S PROVE x >= y
    OBVIOUS
  <2>1. n - y \in T /\ n - y \in Nat /\ d \in Nat
    OBVIOUS
  <2>2. ~ (n - y < d)
    BY <1>2, <2>1 DEF OpToRel
  <2> QED BY <1>3, <2>2
<1> QED BY <1>3, <1>4 DEF Max

-----------------------------------------------------------------------------
(* Mailboxes. *)

LEMMA MsgKinds ==
  ASSUME NEW m, NEW placed, MsgOK(m, placed)
  PROVE  /\ IsState(m) => m.state \in Nat /\ ~IsRequest(m)
         /\ IsRequest(m) => m.routedIn \in Nat /\ m.owed \subseteq placed
         /\ "post" \in DOMAIN m => IsRequest(m)
<1>1. CASE m = PoisonPill
  <2>1. m.type = "PoisonPill" /\ DOMAIN m = {"type"}
    BY <1>1 DEF PoisonPill
  <2> QED BY <2>1 DEF IsState, IsRequest, RequestType
<1>2. ASSUME NEW v \in Nat, m = [type |-> "CurrentState", state |-> v]
      PROVE  m.type = "CurrentState" /\ m.state = v /\ DOMAIN m = {"type", "state"}
  BY <1>2
<1>3. CASE IsRequest(m) /\ m.routedIn \in Nat /\ m.owed \subseteq placed
  BY <1>3 DEF IsState, IsRequest, RequestType
<1> QED BY <1>1, <1>2, <1>3 DEF MsgOK, IsState, IsRequest, RequestType

LEMMA BoxOfOne ==
  ASSUME NEW now \in Nat, NEW latest \in Nat, now <= latest, NEW placed, NEW msg,
         IsRequest(msg), msg.routedIn = now, msg.owed \subseteq placed
  PROVE  BoxOK(<<msg>>, now, now, latest, placed)
<1>1. <<msg>> \in Seq({msg}) /\ Len(<<msg>>) = 1 /\ <<msg>>[1] = msg
  OBVIOUS
<1> DEFINE box == <<msg>>
<1>2. MsgOK(msg, placed) /\ ~IsState(msg)
  BY DEF MsgOK, IsRequest, IsState, RequestType
<1>3. IsSeq(box)
  BY <1>1 DEF IsSeq
<1>4. Informed(box, now, 1, now)
  BY DEF Informed
<1> HIDE DEF box
<1>5. \A n \in 1 .. 1 : box[n] = msg
  BY <1>1 DEF box
<1>6. BoxOK(box, now, now, latest, placed)
  BY <1>1, <1>2, <1>3, <1>4, <1>5 DEF BoxOK, box
<1> QED BY <1>6 DEF box

LEMMA BoxWithRequest ==
  ASSUME NEW box, NEW s \in Nat, NEW now \in Nat, NEW latest, NEW placed,
         BoxOK(box, s, now, latest, placed),
         NEW msg, IsRequest(msg), msg.routedIn = now, msg.owed \subseteq placed
  PROVE  BoxOK(Append(box, msg), s, now, latest, placed)
<1> DEFINE new == Append(box, msg)
           len == Len(box)
<1>1. IsSeq(new) /\ len \in Nat /\ Len(new) = len + 1
        /\ (\A n \in 1 .. len : new[n] = box[n]) /\ new[len + 1] = msg
  BY AppendIs DEF BoxOK
<1>2. MsgOK(msg, placed) /\ ~IsState(msg)
  BY DEF MsgOK, IsRequest, IsState, RequestType
<1> HIDE DEF new, len
<1>3. Informed(new, s, len + 1, now)
  BY <1>1 DEF BoxOK, Informed, len
<1>4. ASSUME NEW n \in 1 .. len + 1, IsRequest(new[n])
      PROVE  Informed(new, s, n, new[n].routedIn)
  <2>1. CASE n = len + 1
    BY <1>1, <1>3, <2>1
  <2>2. CASE n \in 1 .. len
    BY <1>1, <1>4, <2>2 DEF BoxOK, Informed, len
  <2> QED BY <1>1, <2>1, <2>2
<1> QED BY <1>1, <1>2, <1>3, <1>4 DEF BoxOK, len, new

LEMMA BoxWithState ==
  ASSUME NEW box, NEW s \in Nat, NEW now, NEW latest \in Nat, NEW placed,
         BoxOK(box, s, now, latest, placed),
         NEW v \in Nat, v >= latest
  PROVE  BoxOK(Append(box, [type |-> "CurrentState", state |-> v]), s, v, v, placed)
<1> DEFINE msg == [type |-> "CurrentState", state |-> v]
           new == Append(box, msg)
           len == Len(box)
<1>1. IsSeq(new) /\ len \in Nat /\ Len(new) = len + 1
        /\ (\A n \in 1 .. len : new[n] = box[n]) /\ new[len + 1] = msg
  BY AppendIs DEF BoxOK
<1>2. MsgOK(msg, placed) /\ IsState(msg) /\ msg.state = v /\ ~IsRequest(msg)
  BY DEF MsgOK, IsRequest, IsState, RequestType
<1> HIDE DEF new, len, msg
<1>3. \A n \in 1 .. len : IsState(box[n]) => box[n].state \in Nat
  BY MsgKinds DEF BoxOK, len
<1>4. ASSUME NEW n \in 1 .. len + 1, IsRequest(new[n])
      PROVE  Informed(new, s, n, new[n].routedIn)
  BY <1>1, <1>2, <1>4 DEF BoxOK, Informed, len
<1>5. ASSUME NEW n \in 1 .. len + 1, IsState(new[n])
      PROVE  /\ s <= new[n].state /\ new[n].state <= v
             /\ \A m \in 1 .. n : IsState(new[m]) => new[m].state <= new[n].state
  <2>1. CASE n = len + 1
    BY <1>1, <1>2, <1>3, <2>1 DEF BoxOK, len
  <2>2. CASE n \in 1 .. len
    BY <1>1, <1>3, <1>5, <2>2 DEF BoxOK, len
  <2> QED BY <1>1, <2>1, <2>2
<1>6. Informed(new, s, len + 1, v) /\ s <= v
  BY <1>1, <1>2 DEF BoxOK, Informed
<1>7. \A n \in 1 .. len + 1 : MsgOK(new[n], placed)
  BY <1>1, <1>2 DEF BoxOK, len
<1> QED BY <1>1, <1>4, <1>5, <1>6, <1>7 DEF BoxOK, new, msg

LEMMA BoxWithPill ==
  ASSUME NEW box, NEW s, NEW now, NEW latest, NEW placed,
         BoxOK(box, s, now, latest, placed)
  PROVE  BoxOK(Append(box, PoisonPill), s, now, latest, placed)
<1> DEFINE new == Append(box, PoisonPill)
           len == Len(box)
<1>1. IsSeq(new) /\ len \in Nat /\ Len(new) = len + 1
        /\ (\A n \in 1 .. len : new[n] = box[n]) /\ new[len + 1] = PoisonPill
  BY AppendIs DEF BoxOK
<1>2. MsgOK(PoisonPill, placed) /\ ~IsState(PoisonPill) /\ ~IsRequest(PoisonPill)
  BY DEF MsgOK, IsRequest, IsState, RequestType, PoisonPill
<1> HIDE DEF new, len
<1>3. Informed(new, s, len + 1, now)
  BY <1>1 DEF BoxOK, Informed, len
<1>4. \A n \in 1 .. len + 1 : IsRequest(new[n]) => Informed(new, s, n, new[n].routedIn)
  BY <1>1, <1>2 DEF BoxOK, Informed, len
<1> QED BY <1>1, <1>2, <1>3, <1>4 DEF BoxOK, len, new

(* The next message is read; if it is a state, the child judges by it from then on. *)
LEMMA BoxRead ==
  ASSUME NEW box, NEW s \in Nat, NEW now \in Nat, NEW latest, NEW placed,
         BoxOK(box, s, now, latest, placed), box # <<>>
  PROVE  /\ IsState(Head(box)) =>
              /\ Head(box).state \in Nat
              /\ BoxOK(Tail(box), Head(box).state, now, latest, placed)
         /\ ~IsState(Head(box)) => BoxOK(Tail(box), s, now, latest, placed)
         /\ IsRequest(Head(box)) => s >= Head(box).routedIn /\ Head(box).owed \subseteq placed
<1> DEFINE new == Tail(box)
           len == Len(box)
           s2 == IF IsState(box[1]) THEN box[1].state ELSE s
<1>1. IsSeq(new) /\ len \in Nat \ {0} /\ Len(new) = len - 1
        /\ (\A n \in 1 .. len - 1 : new[n] = box[n + 1]) /\ Head(box) = box[1]
  BY TailIs DEF BoxOK
<1> HIDE DEF new, len
<1>2. \A n \in 1 .. len : /\ IsState(box[n]) => box[n].state \in Nat
                          /\ IsRequest(box[n]) => ~IsState(box[n]) /\ box[n].routedIn \in Nat
                                                  /\ box[n].owed \subseteq placed
  BY MsgKinds DEF BoxOK, len
<1>3. s2 \in Nat /\ s2 >= s /\ s2 <= latest
  BY <1>1, <1>2 DEF BoxOK, len
<1>4. ASSUME NEW n \in 1 .. len - 1, NEW v \in Nat, Informed(box, s, n + 1, v)
      PROVE  Informed(new, s2, n, v)
  <2>1. CASE s >= v
    BY <1>3, <2>1 DEF Informed
  <2>2. ASSUME NEW m \in 1 .. n + 1, IsState(box[m]), box[m].state >= v
        PROVE  Informed(new, s2, n, v)
    <3>1. CASE m = 1
      BY <2>2, <3>1 DEF Informed
    <3>2. CASE m - 1 \in 1 .. n
      <4>1. new[m - 1] = box[m]
        BY <1>1, <3>2
      <4> QED BY <2>2, <3>2, <4>1 DEF Informed
    <3> QED BY <3>1, <3>2
  <2> QED BY <1>4, <2>1, <2>2 DEF Informed
<1>5. Informed(new, s2, len - 1, now)
  <2>1. CASE len = 1
    BY <1>1, <1>3, <2>1 DEF BoxOK, Informed, len
  <2>2. CASE len - 1 \in 1 .. len - 1
    BY <1>1, <1>4, <2>2 DEF BoxOK, len
  <2> QED BY <1>1, <2>1, <2>2
<1>6. ASSUME NEW n \in 1 .. len - 1
      PROVE  /\ MsgOK(new[n], placed)
             /\ IsRequest(new[n]) => Informed(new, s2, n, new[n].routedIn)
             /\ IsState(new[n]) => s2 <= new[n].state /\ new[n].state <= latest
             /\ \A m \in 1 .. n : IsState(new[m]) /\ IsState(new[n])
                                    => new[m].state <= new[n].state
  <2>1. new[n] = box[n + 1] /\ n + 1 \in 1 .. len /\ \A m \in 1 .. n : new[m] = box[m + 1]
    BY <1>1
  <2>2. IsRequest(new[n]) => Informed(new, s2, n, new[n].routedIn)
    BY <1>2, <1>4, <2>1 DEF BoxOK, len
  <2>3. \A m \in 1 .. n : IsState(new[m]) /\ IsState(new[n]) => new[m].state <= new[n].state
    BY <2>1 DEF BoxOK, len
  <2>4. IsState(new[n]) => s2 <= new[n].state /\ new[n].state <= latest
    BY <2>1 DEF BoxOK, len
  <2> QED BY <2>1, <2>2, <2>3, <2>4 DEF BoxOK, len
<1>7. BoxOK(new, s2, now, latest, placed)
  BY <1>1, <1>3, <1>5, <1>6 DEF BoxOK
<1>8. IsRequest(box[1]) => s >= box[1].routedIn /\ box[1].owed \subseteq placed
  BY <1>1, <1>2 DEF BoxOK, Informed, len
<1> QED BY <1>1, <1>2, <1>7, <1>8 DEF new

LEMMA BoxGrows ==
  ASSUME NEW box, NEW s, NEW now, NEW latest, NEW placed, NEW more,
         BoxOK(box, s, now, latest, placed), placed \subseteq more
  PROVE  BoxOK(box, s, now, latest, more)
<1>1. \A m : MsgOK(m, placed) => MsgOK(m, more)
  BY DEF MsgOK
<1> QED BY <1>1 DEF BoxOK

-----------------------------------------------------------------------------
(* Comments. *)

LEMMA ForestAdd ==
  ASSUME NEW convs, NEW comment, Forest(convs)
  PROVE  /\ Forest(doAdd(convs, comment)) /\ doAdd(convs, comment) # <<>>
         /\ Places(convs) \subseteq Places(doAdd(convs, comment))
<1>1. PICK V : convs \in Seq(AnyNode(V))
  BY DEF Forest
<1> DEFINE under == parentOf(convs, comment)
           W == V \union {comment.id, comment.post, comment.primary, under}
           node == NodeOf(comment, under)
           new == Append(convs, node)
<1>2. node \in AnyNode(W)
  BY DEF NodeOf, AnyNode
<1>3. convs \in Seq(AnyNode(W))
  <2>1. AnyNode(V) \subseteq AnyNode(W)
    BY DEF AnyNode
  <2> QED BY <1>1, <2>1, SeqMonotone
<1>4. new = doAdd(convs, comment)
  BY DEF doAdd
<1> HIDE DEF W, node
<1>5. new \in Seq(AnyNode(W)) /\ Len(new) = Len(convs) + 1 /\ Len(convs) \in Nat
        /\ \A n \in 1 .. Len(convs) : new[n] = convs[n]
  BY <1>2, <1>3
<1>6. Places(convs) \subseteq Places(new)
  <2>1. DOMAIN convs = 1 .. Len(convs) /\ DOMAIN new = 1 .. Len(new)
    BY <1>3, <1>5
  <2>2. \A n \in DOMAIN convs : n \in DOMAIN new /\ Place(new[n]) = Place(convs[n])
    BY <1>5, <2>1
  <2> QED BY <2>2 DEF Places
<1>7. new # <<>>
  BY <1>5
<1> QED BY <1>4, <1>5, <1>6, <1>7 DEF Forest

LEMMA ForestDelete ==
  ASSUME NEW convs, NEW id, Forest(convs)
  PROVE  Forest(doDelete(convs, id)) /\ Places(convs) \subseteq Places(doDelete(convs, id))
<1>1. PICK V : convs \in Seq(AnyNode(V))
  BY DEF Forest
<1> DEFINE new == doDelete(convs, id)
<1>2. ASSUME NEW n \in DOMAIN convs
      PROVE  new[n] \in AnyNode(V) /\ Place(new[n]) = Place(convs[n])
  <2>1. convs[n] \in AnyNode(V)
    BY <1>1
  <2>2. new[n] = IF convs[n].id = id THEN [convs[n] EXCEPT !.isDeleted = TRUE] ELSE convs[n]
    BY DEF doDelete
  <2> QED BY <2>1, <2>2 DEF AnyNode, Place
<1>3. DOMAIN new = DOMAIN convs
  BY DEF doDelete
<1>4. DOMAIN convs = 1 .. Len(convs) /\ Len(convs) \in Nat
  BY <1>1
<1>5. new \in Seq(AnyNode(V))
  <2>1. new = [n \in 1 .. Len(convs) |-> new[n]]
    BY <1>4 DEF doDelete
  <2>2. \A n \in 1 .. Len(convs) : new[n] \in AnyNode(V)
    BY <1>2, <1>4
  <2> HIDE DEF new
  <2>3. new \in [1 .. Len(convs) -> AnyNode(V)]
    BY <2>1, <2>2
  <2> QED BY <1>4, <2>3
<1>6. Places(convs) \subseteq Places(new)
  BY <1>2, <1>3 DEF Places
<1> QED BY <1>5, <1>6 DEF Forest

LEMMA LastIsPlaced ==
  ASSUME NEW convs, Forest(convs), convs # <<>>
  PROVE  Place(convs[Len(convs)]) \in Places(convs)
<1>1. PICK V : convs \in Seq(AnyNode(V))
  BY DEF Forest
<1>2. Len(convs) \in DOMAIN convs
  BY <1>1
<1> QED BY <1>2 DEF Places

(* The next id after a conversation or a comment that was read is a number. *)
LEMMA NextIdOfConvs ==
  ASSUME NEW nextId \in Nat
  PROVE  fixNextId(nextId, OldConvs) \in Nat
<1> DEFINE S == {nextId} \union {id + 1 : id \in Ids(OldConvs)}
           bound == nextId + MaxId + 1
<1>1. Ids(OldConvs) \subseteq CommentId
  <2>1. \A n \in DOMAIN OldConvs : OldConvs[n] \in Node
    BY ConversationsAssumption
  <2> QED BY <2>1 DEF Ids, Node
<1>2. bound \in Nat /\ S \subseteq 0 .. bound
  BY <1>1, ConversationsAssumption DEF CommentId
<1> HIDE DEF bound
<1>3. Max(S) \in S
  BY <1>2, MaxOfBounded
<1> QED BY <1>2, <1>3 DEF fixNextId

LEMMA NextIdOfComment ==
  ASSUME NEW n \in Nat
  PROVE  Max({n, n + 1}) = n + 1
BY DEF Max

-----------------------------------------------------------------------------
(* What the steps have in common. *)

LEMMA Numbers == MaxChildren \in Nat /\ Children = 1 .. MaxChildren /\ NoChild \notin Children
BY ConversationsAssumption DEF Children, NoChild

(* Whom a crash, a write or a read does not concern. *)
LEMMA SameJournal ==
  ASSUME JournalType, UNCHANGED journal
  PROVE  JournalType' /\ Placed' = Placed
BY DEF JournalType, Placed, MemoryShape

(* An event of a child that writes is stored: the journal has what the child will have. *)
LEMMA StoreKeeps ==
  ASSUME JournalType, NEW c, ChildShape(c), InStep(c), c.phase = "persisting", Store(c.event)
  PROVE  /\ JournalType' /\ Placed \subseteq Placed'
         /\ c.event.type \in {"DHAddComment", "DHDeleteComment"}
         /\ recover(c.memory, c.event).conversations = journal'.conversations
         /\ c.memory.nextId = journal'.nextId
         /\ c.event.type = "DHAddComment" => journal'.conversations # <<>>
<1>1. c.memory.conversations = journal.conversations /\ MemoryShape(c.memory)
  BY DEF InStep, ChildShape
<1>2. ASSUME NEW comment, c.event = DHAddComment(comment),
             comment.id = journal.nextId, c.memory.nextId = journal.nextId + 1
      PROVE  /\ JournalType' /\ Placed \subseteq Placed'
             /\ c.event.type \in {"DHAddComment", "DHDeleteComment"}
             /\ recover(c.memory, c.event).conversations = journal'.conversations
             /\ c.memory.nextId = journal'.nextId
             /\ c.event.type = "DHAddComment" => journal'.conversations # <<>>
  <2> DEFINE convs == doAdd(journal.conversations, comment)
  <2>1. c.event.type = "DHAddComment" /\ c.event.comment = comment
    BY <1>2 DEF DHAddComment
  <2>2. Max({journal.nextId, comment.id + 1}) = journal.nextId + 1
    BY <1>2, NextIdOfComment DEF JournalType
  <2>3. journal' = [conversations |-> convs, nextId |-> journal.nextId + 1]
    BY <2>1, <2>2 DEF Store, recover
  <2>4. recover(c.memory, c.event).conversations = convs
    BY <1>1, <2>1 DEF recover
  <2>5. Forest(convs) /\ convs # <<>> /\ Placed \subseteq Places(convs)
    BY ForestAdd DEF JournalType, Placed
  <2> HIDE DEF convs
  <2> QED BY <1>2, <2>1, <2>3, <2>4, <2>5 DEF JournalType, Placed, MemoryShape
<1>3. ASSUME NEW id, c.event = DHDeleteComment(id), c.memory.nextId = journal.nextId
      PROVE  /\ JournalType' /\ Placed \subseteq Placed'
             /\ c.event.type \in {"DHAddComment", "DHDeleteComment"}
             /\ recover(c.memory, c.event).conversations = journal'.conversations
             /\ c.memory.nextId = journal'.nextId
             /\ c.event.type = "DHAddComment" => journal'.conversations # <<>>
  <2> DEFINE convs == doDelete(journal.conversations, id)
  <2>1. c.event.type = "DHDeleteComment" /\ c.event.id = id
    BY <1>3 DEF DHDeleteComment
  <2>2. journal' = [conversations |-> convs, nextId |-> journal.nextId]
    <3>1. journal' = [journal EXCEPT !.conversations = convs]
      BY <2>1 DEF Store, recover
    <3> HIDE DEF convs
    <3> QED BY <3>1 DEF JournalType, MemoryShape
  <2>3. recover(c.memory, c.event).conversations = convs
    <3>1. recover(c.memory, c.event) = [c.memory EXCEPT !.conversations = convs]
      BY <1>1, <2>1 DEF recover
    <3> HIDE DEF convs
    <3> QED BY <1>1, <3>1 DEF MemoryShape
  <2>4. Forest(convs) /\ Placed \subseteq Places(convs)
    BY ForestDelete DEF JournalType, Placed
  <2> HIDE DEF convs
  <2> QED BY <1>3, <2>1, <2>2, <2>3, <2>4 DEF JournalType, Placed, MemoryShape
<1> QED BY <1>2, <1>3 DEF InStep

(* Nobody reads or runs before the Space has sent its first state. *)
LEMMA QuietBefore ==
  ASSUME IInv, version = 0
  PROVE  /\ \A k \in Children : ~Running(k)
         /\ \A p \in Request : outcome[p].type = "unsent"
<1>1. managed.ref = NoChild
  BY DEF IInv, SpaceType, NothingBefore
<1> QED BY <1>1, Numbers DEF IInv, ManagedRuns, NothingBefore

(* The outcomes that tell nobody a place leave what was told true. *)
LEMMA AnswerKeeps ==
  ASSUME IInv, NEW p, NEW answer, Respond(p, answer), Placed \subseteq Placed',
         answer.type = "AddedNode" => answer.node \in Placed',
         answer.type = "Conversations" => answer.missed = {},
         version # 0, UNCHANGED <<state, version>>, state # 0 \/ UNCHANGED managed
  PROVE  SpaceType' /\ ToldIsTrue' /\ ReadersSeeWhatWasTold' /\ NothingBefore'
<1>1. outcome = [q \in Request |-> outcome[q]]
  BY DEF IInv, SpaceType
<1>2. /\ outcome' = [q \in Request |-> outcome'[q]]
      /\ \A q \in Request : outcome'[q] = IF q = p THEN answer ELSE outcome[q]
  BY <1>1 DEF Respond
<1>3. SpaceType'
  BY <1>2 DEF IInv, SpaceType
<1>4. ToldIsTrue'
  BY <1>2 DEF IInv, ToldIsTrue
<1>5. ReadersSeeWhatWasTold'
  BY <1>2 DEF IInv, ReadersSeeWhatWasTold
<1>6. NothingBefore'
  BY DEF IInv, NothingBefore
<1> QED BY <1>3, <1>4, <1>5, <1>6

LEMMA NoAnswerKeeps ==
  ASSUME IInv, UNCHANGED <<outcome, state, version, managed>>, Placed \subseteq Placed'
  PROVE  SpaceType' /\ ToldIsTrue' /\ ReadersSeeWhatWasTold' /\ NothingBefore'
<1>1. SpaceType' /\ NothingBefore'
  BY DEF IInv, SpaceType, NothingBefore
<1>2. ToldIsTrue'
  BY DEF IInv, ToldIsTrue
<1>3. ReadersSeeWhatWasTold'
  BY DEF IInv, ReadersSeeWhatWasTold
<1> QED BY <1>1, <1>2, <1>3

LEMMA LoseKeeps ==
  ASSUME IInv, NEW posts, Lose(posts), Placed \subseteq Placed', version # 0,
         version' = version, UNCHANGED <<state, managed>> \/ (state' = 0 /\ managed' = NoManagedChild)
  PROVE  SpaceType' /\ ToldIsTrue' /\ ReadersSeeWhatWasTold' /\ NothingBefore'
<1>1. /\ outcome' = [q \in Request |-> outcome'[q]]
      /\ \A q \in Request : outcome'[q] = outcome[q] \/ outcome'[q].type = "lost"
  BY DEF Lose
<1>2. SpaceType'
  BY <1>1 DEF IInv, SpaceType
<1>3. ToldIsTrue'
  BY <1>1 DEF IInv, ToldIsTrue
<1>4. ReadersSeeWhatWasTold'
  BY <1>1 DEF IInv, ReadersSeeWhatWasTold
<1>5. NothingBefore'
  BY DEF IInv, NothingBefore, NoManagedChild
<1> QED BY <1>2, <1>3, <1>4, <1>5

(* What a parent has been told is about children that there have been. *)
LEMMA ParentTold ==
  ASSUME FamilyType, NEW k
  PROVE  Stopped(k) => k \in 1 .. created
BY DEF FamilyType, Stopped, Contains, ParentMsg

LEMMA ParentHears ==
  ASSUME FamilyType, NEW msg \in ParentMsg, parentBox' = Append(parentBox, msg)
  PROVE  /\ parentBox' \in Seq(ParentMsg)
         /\ \A k : Stopped(k)' <=> Stopped(k) \/ msg = [type |-> "Terminated", child |-> k]
<1>1. parentBox' \in Seq(ParentMsg) /\ Len(parentBox') = Len(parentBox) + 1 /\ Len(parentBox) \in Nat
        /\ (\A n \in 1 .. Len(parentBox) : parentBox'[n] = parentBox[n])
        /\ parentBox'[Len(parentBox) + 1] = msg
  BY DEF FamilyType
<1>2. ASSUME NEW k
      PROVE  Stopped(k)' <=> Stopped(k) \/ msg = [type |-> "Terminated", child |-> k]
  <2> DEFINE t == [type |-> "Terminated", child |-> k]
  <2> HIDE DEF t
  <2>1. (\E n \in 1 .. Len(parentBox') : parentBox'[n] = t)
          <=> (\E n \in 1 .. Len(parentBox) : parentBox[n] = t) \/ msg = t
    BY <1>1
  <2> QED BY <2>1 DEF Stopped, Contains, t
<1> QED BY <1>1, <1>2

LEMMA ParentReads ==
  ASSUME FamilyType, parentBox # <<>>, parentBox' = Tail(parentBox)
  PROVE  /\ parentBox' \in Seq(ParentMsg) /\ Head(parentBox) \in ParentMsg
         /\ \A k : Stopped(k)' => Stopped(k)
         /\ \A k : Stopped(k) => Stopped(k)' \/ Head(parentBox) = [type |-> "Terminated", child |-> k]
<1>1. parentBox' \in Seq(ParentMsg) /\ Len(parentBox') = Len(parentBox) - 1
        /\ Len(parentBox) \in Nat \ {0}
        /\ (\A n \in 1 .. Len(parentBox) - 1 : parentBox'[n] = parentBox[n + 1])
        /\ parentBox[1] = Head(parentBox) /\ Head(parentBox) \in ParentMsg
  BY DEF FamilyType
<1>2. ASSUME NEW k
      PROVE  /\ Stopped(k)' => Stopped(k)
             /\ Stopped(k) => Stopped(k)' \/ Head(parentBox) = [type |-> "Terminated", child |-> k]
  <2> DEFINE t == [type |-> "Terminated", child |-> k]
  <2> HIDE DEF t
  <2>1. ASSUME NEW n \in 1 .. Len(parentBox'), parentBox'[n] = t
        PROVE  n + 1 \in 1 .. Len(parentBox) /\ parentBox[n + 1] = t
    BY <1>1, <2>1
  <2>2. ASSUME NEW n \in 1 .. Len(parentBox), parentBox[n] = t, n # 1
        PROVE  n - 1 \in 1 .. Len(parentBox') /\ parentBox'[n - 1] = t
    <3>1. n - 1 \in 1 .. Len(parentBox) - 1
      BY <1>1, <2>2
    <3>2. parentBox'[n - 1] = parentBox[(n - 1) + 1]
      BY <1>1, <3>1
    <3> QED BY <1>1, <2>2, <3>1, <3>2
  <2> QED BY <1>1, <2>1, <2>2 DEF Stopped, Contains, t
<1> QED BY <1>1, <1>2

(* The managed child gets a message, if it can still read it. *)
LEMMA SentIs ==
  ASSUME IInv, NEW msg, managed.ref # NoChild
  PROVE  /\ managed.ref \in Children
         /\ Sent(managed.ref, msg) = [k \in Children |-> Sent(managed.ref, msg)[k]]
         /\ \A k \in Children :
              Sent(managed.ref, msg)[k] =
                IF Running(k) THEN Append(mailbox[k], msg) ELSE mailbox[k]
<1>1. managed.ref \in Children
  BY Numbers DEF IInv, FamilyType, NoChild
<1>2. mailbox = [k \in Children |-> mailbox[k]]
  BY DEF IInv, FamilyType
<1>3. \A k \in Children : Running(k) <=> k = managed.ref /\ ~Stopped(managed.ref)
  BY DEF IInv, ManagedRuns
<1> QED BY <1>1, <1>2, <1>3 DEF Sent

-----------------------------------------------------------------------------
(* Each action keeps the invariant. *)

LEMMA InitIInv == Init => IInv
<1> SUFFICES ASSUME Init PROVE IInv
  OBVIOUS
<1>1. JournalType
  <2>1. <<>> \in Seq(AnyNode({}))
    OBVIOUS
  <2>2. Forest(<<>>)
    BY <2>1 DEF Forest
  <2> QED BY <2>2 DEF Init, NoMemory, JournalType, MemoryShape
<1>2. FamilyType
  BY Numbers DEF Init, RoutingInit, FamilyType, NoManagedChild, NoChild
<1>3. SpaceType
  BY DEF Init, SpaceType
<1>4. \A k \in Children : child[k] = Unborn /\ ~Running(k) /\ mailbox[k] = <<>>
  BY DEF Init, RoutingInit, Unborn, Running
<1>5. ChildType
  BY <1>4 DEF Init, ChildType, ChildShape, Unborn, NoMemory, MemoryShape
<1>6. ManagedRuns
  BY <1>4, Numbers DEF Init, RoutingInit, ManagedRuns, NoManagedChild
<1>7. NothingBefore
  BY DEF Init, RoutingInit, NothingBefore, NoManagedChild
<1>8. MemoryInStep
  BY <1>4 DEF MemoryInStep, InStep, Unborn
<1>9. MailInOrder
  BY <1>4 DEF MailInOrder
<1>10. ToldIsTrue /\ ReadersSeeWhatWasTold
  BY DEF Init, ToldIsTrue, ReadersSeeWhatWasTold
<1> QED BY <1>1, <1>2, <1>3, <1>5, <1>6, <1>7, <1>8, <1>9, <1>10 DEF IInv

LEMMA StutterIInv == IInv /\ UNCHANGED vars => IInv'
<1> SUFFICES ASSUME IInv, UNCHANGED vars PROVE IInv'
  OBVIOUS
<1> USE DEF IInv, vars, routingVars
<1>1. JournalType' /\ Placed' = Placed
  BY SameJournal
<1>2. SpaceType' /\ ToldIsTrue' /\ ReadersSeeWhatWasTold' /\ NothingBefore'
  BY <1>1, NoAnswerKeeps
<1>3. FamilyType' /\ ChildType'
  BY DEF FamilyType, ParentMsg, ChildType
<1>4. ManagedRuns'
  BY DEF ManagedRuns, Running, Stopped
<1>5. MemoryInStep'
  BY DEF MemoryInStep, InStep
<1>6. MailInOrder'
  BY <1>1 DEF MailInOrder, Running
<1> QED BY <1>1, <1>2, <1>3, <1>4, <1>5, <1>6

LEMMA RunTransitionIInv == IInv /\ RunTransition => IInv'
<1> SUFFICES ASSUME IInv, RunTransition PROVE IInv'
  OBVIOUS
<1>1. /\ version = 0 /\ Store(DHConvs(OldConvs))
      /\ UNCHANGED <<routingVars, state, version, child, outcome>>
  BY DEF RunTransition
<1>2. JournalType'
  <2>1. journal' = [conversations |-> OldConvs, nextId |-> fixNextId(journal.nextId, OldConvs)]
    BY <1>1 DEF Store, recover, DHConvs
  <2>2. fixNextId(journal.nextId, OldConvs) \in Nat
    BY NextIdOfConvs DEF IInv, JournalType
  <2>3. Forest(OldConvs)
    <3> DEFINE V == CommentId \union Post \union {Root} \union BOOLEAN
    <3>1. Node \subseteq AnyNode(V)
      BY DEF Node, AnyNode
    <3>2. OldConvs \in Seq(AnyNode(V))
      BY <3>1, ConversationsAssumption, SeqMonotone
    <3> QED BY <3>2 DEF Forest
  <2> QED BY <2>1, <2>2, <2>3 DEF JournalType, MemoryShape
<1>3. (\A k \in Children : ~Running(k)) /\ \A p \in Request : outcome[p].type = "unsent"
  BY <1>1, QuietBefore
<1>4. SpaceType' /\ ToldIsTrue' /\ ReadersSeeWhatWasTold' /\ NothingBefore'
  BY <1>1, <1>3 DEF IInv, SpaceType, ToldIsTrue, ReadersSeeWhatWasTold, NothingBefore, routingVars
<1>5. FamilyType' /\ ChildType'
  BY <1>1 DEF IInv, FamilyType, ParentMsg, ChildType, routingVars
<1>6. ManagedRuns'
  BY <1>1 DEF IInv, ManagedRuns, Running, Stopped, routingVars
<1>7. \A k \in Children : ~Running(k)'
  BY <1>1, <1>3 DEF Running
<1>8. MemoryInStep' /\ MailInOrder'
  BY <1>7 DEF MemoryInStep, InStep, MailInOrder, Running
<1> QED BY <1>2, <1>4, <1>5, <1>6, <1>8 DEF IInv

LEMMA CurrentStateIInv == IInv /\ CurrentState => IInv'
<1> SUFFICES ASSUME IInv, CurrentState PROVE IInv'
  OBVIOUS
<1> DEFINE msg == [type |-> "CurrentState", state |-> version']
<1>1. /\ version' \in Nat /\ version <= version' /\ version' # 0 /\ state' = version'
      /\ routeToAll(msg)
      /\ UNCHANGED <<managed, parentBox, created, timeouts, child, journal, outcome, faults>>
  BY DEF CurrentState, IInv, SpaceType
<1>2. JournalType' /\ Placed' = Placed
  BY <1>1, SameJournal DEF IInv
<1>3. SpaceType' /\ ToldIsTrue' /\ ReadersSeeWhatWasTold' /\ NothingBefore'
  BY <1>1, <1>2 DEF IInv, SpaceType, ToldIsTrue, ReadersSeeWhatWasTold, NothingBefore
<1>4. /\ mailbox' = [k \in Children |-> mailbox'[k]]
      /\ \A k \in Children :
           mailbox'[k] = IF Running(k) THEN Append(mailbox[k], msg) ELSE mailbox[k]
  <2> HIDE DEF msg
  <2>1. CASE managed.ref = NoChild
    <3>1. \A k \in Children : ~Running(k)
      BY <2>1, Numbers DEF IInv, ManagedRuns
    <3> QED BY <1>1, <2>1, <3>1 DEF routeToAll, IInv, FamilyType
  <2>2. CASE managed.ref # NoChild
    BY <1>1, <2>2, SentIs DEF routeToAll
  <2> QED BY <2>1, <2>2
<1>5. FamilyType' /\ ChildType' /\ MemoryInStep'
  BY <1>1, <1>4 DEF IInv, FamilyType, ParentMsg, ChildType, MemoryInStep, InStep
<1>6. ManagedRuns'
  BY <1>1, <1>4 DEF IInv, ManagedRuns, Running, Stopped
<1>7. MailInOrder'
  <2> SUFFICES ASSUME NEW k \in Children, Running(k)
               PROVE  child[k].state \in Nat
                        /\ BoxOK(mailbox'[k], child[k].state, version', version', Placed)
    BY <1>1, <1>2 DEF MailInOrder, Running
  <2>1. child[k].state \in Nat /\ BoxOK(mailbox[k], child[k].state, state, version, Placed)
    BY DEF IInv, MailInOrder
  <2>2. BoxOK(Append(mailbox[k], msg), child[k].state, version', version', Placed)
    BY <1>1, <2>1, BoxWithState DEF IInv, SpaceType
  <2> QED BY <1>4, <2>1, <2>2
<1> QED BY <1>2, <1>3, <1>5, <1>6, <1>7 DEF IInv

(* What is asked for has a number, a state, and what was told to others. *)
LEMMA AskIs ==
  ASSUME IInv, NEW p, NEW payload \in Payloads
  PROVE  LET msg == [payload EXCEPT !.post = p] IN
           IsRequest(msg) /\ msg.routedIn = state /\ msg.owed \subseteq Placed
<1>1. told \subseteq Placed
  BY DEF IInv, ToldIsTrue, told
<1>2. ASSUME NEW id, payload = NewComment(id)
      PROVE  /\ payload = [type |-> "NewComment", post |-> 0, responseTo |-> id, primary |-> TRUE,
                           id |-> Root, routedIn |-> state, owed |-> {}]
  BY <1>2 DEF NewComment, Ask
<1>3. ASSUME NEW id, payload = DeleteComment(id)
      PROVE  /\ payload = [type |-> "DeleteComment", post |-> 0, responseTo |-> Root,
                           primary |-> TRUE, id |-> id, routedIn |-> state, owed |-> {}]
  BY <1>3 DEF DeleteComment, Ask
<1>4. ASSUME payload = GetConversations
      PROVE  /\ payload = [type |-> "GetConversations", post |-> 0, responseTo |-> Root,
                           primary |-> TRUE, id |-> Root, routedIn |-> state, owed |-> told]
  BY <1>4 DEF GetConversations, Ask
<1>5. \/ \E id : payload = NewComment(id)
      \/ \E id : payload = DeleteComment(id)
      \/ payload = GetConversations
  BY DEF Payloads
<1> HIDE DEF Placed
<1> QED BY <1>1, <1>2, <1>3, <1>4, <1>5 DEF IsRequest, RequestType

LEMMA NewChild ==
  [Unborn EXCEPT !.phase = "recovering", !.state = state] =
    [phase |-> "recovering", memory |-> NoMemory, state |-> state, event |-> NoEvent,
     request |-> NoEvent]
<1> DEFINE new == [Unborn EXCEPT !.phase = "recovering", !.state = state]
           mid == [Unborn EXCEPT !.phase = "recovering"]
<1>1. mid = [phase |-> "recovering", memory |-> NoMemory, state |-> 0, event |-> NoEvent,
             request |-> NoEvent]
  BY DEF Unborn
<1>2. new = [mid EXCEPT !.state = state]
  BY DEF Unborn
<1> HIDE DEF mid, new
<1>3. new = [phase |-> "recovering", memory |-> NoMemory, state |-> state, event |-> NoEvent,
             request |-> NoEvent]
  BY <1>1, <1>2
<1> QED BY <1>3 DEF new

LEMMA RouteIInv ==
  ASSUME IInv, NEW p \in Request, NEW payload \in Payloads, Route(p, payload)
  PROVE  IInv'
<1> DEFINE msg == [payload EXCEPT !.post = p]
<1>1. IsRequest(msg) /\ msg.routedIn = state /\ msg.owed \subseteq Placed
  BY AskIs
<1> HIDE DEF msg
<1>2. /\ state # 0 /\ version # 0 /\ state \in Nat /\ version \in Nat /\ state <= version
      /\ UNCHANGED <<parentBox, timeouts, state, version, journal, faults>>
  BY DEF Route, IInv, SpaceType
<1>3. JournalType' /\ Placed' = Placed
  BY <1>2, SameJournal DEF IInv
<1>4. \E type \in {"sent", "lost", "buffered"} : Respond(p, [type |-> type])
  BY DEF Route, Respond
<1>5. SpaceType' /\ ToldIsTrue' /\ ReadersSeeWhatWasTold' /\ NothingBefore'
  <2>1. PICK type \in {"sent", "lost", "buffered"} : Respond(p, [type |-> type])
    BY <1>4
  <2> DEFINE answer == [type |-> type]
  <2>2. answer.type # "AddedNode" /\ answer.type # "Conversations"
    BY <2>1
  <2> HIDE DEF answer
  <2> QED BY <1>2, <1>3, <2>1, <2>2, AnswerKeeps DEF answer
<1>6. CASE /\ CreateAndForward(msg)
           /\ child' = [child EXCEPT ![created'] =
                          [Unborn EXCEPT !.phase = "recovering", !.state = state]]
  <2> DEFINE c == [phase |-> "recovering", memory |-> NoMemory, state |-> state,
                   event |-> NoEvent, request |-> NoEvent]
  <2>1. created < MaxChildren /\ created \in Nat
    BY <1>6 DEF CreateAndForward, IInv, FamilyType
  <2>2. PICK new \in Children : new = created + 1
    BY <2>1, Numbers
  <2>3. /\ managed.ref = NoChild /\ created' = new /\ managed' = [ref |-> new, state |-> "Normal"]
        /\ mailbox' = [mailbox EXCEPT ![new] = <<msg>>] /\ child' = [child EXCEPT ![new] = c]
        /\ created \in Nat
    BY <1>6, <2>1, <2>2, NewChild DEF CreateAndForward
  <2> HIDE DEF c
  <2>4. \A k \in Children : ~Running(k) /\ mailbox[k] = <<>>
    BY <2>3, Numbers DEF IInv, ManagedRuns
  <2>5. \A k \in Children : child'[k] = (IF k = new THEN c ELSE child[k])
                              /\ mailbox'[k] = IF k = new THEN <<msg>> ELSE <<>>
    BY <2>3, <2>4 DEF IInv, ChildType, FamilyType
  <2>6. \A k \in Children : Running(k)' <=> k = new
    BY <2>4, <2>5 DEF Running, c
  <2>7. ~Stopped(new)'
    BY <1>2, <2>1, <2>2, ParentTold DEF IInv, Stopped
  <2>8. FamilyType'
    <3>1. parentBox' \in Seq(ParentMsg')
      <4>1. ParentMsg \subseteq ParentMsg'
        BY <2>3, <2>2 DEF ParentMsg
      <4> QED BY <1>2, <4>1, SeqMonotone DEF IInv, FamilyType
    <3>2. mailbox' = [k \in Children |-> mailbox'[k]]
      BY <2>3 DEF IInv, FamilyType
    <3>3. created' \in 0 .. MaxChildren
      BY <2>3, Numbers
    <3>4. managed' \in [ref : 0 .. created', state : {"Normal", "Dying"}]
      <4>1. new \in 0 .. created'
        BY <2>1, <2>2, <2>3
      <4> QED BY <2>3, <4>1
    <3> QED BY <3>1, <3>2, <3>3, <3>4 DEF FamilyType
  <2>9. ChildType'
    BY <2>3, <2>5 DEF IInv, ChildType, ChildShape, MemoryShape, NoMemory, c
  <2>10. ManagedRuns'
    <3>1. managed'.ref = new
      BY <2>3
    <3>2. \A k \in Children : /\ Running(k)' => k = new
                              /\ ~Running(k)' => mailbox'[k] = <<>>
                              /\ k = new => Running(k)' /\ ~Stopped(k)'
      BY <2>5, <2>6, <2>7
    <3> QED BY <3>1, <3>2 DEF ManagedRuns
  <2>11. MemoryInStep'
    BY <1>2, <2>5 DEF IInv, MemoryInStep, InStep, c
  <2>12. MailInOrder'
    <3>1. child'[new].state = state /\ mailbox'[new] = <<msg>>
      BY <2>3, <2>5 DEF c
    <3>2. BoxOK(<<msg>>, state, state, version, Placed)
      BY <1>1, <1>2, BoxOfOne
    <3> QED BY <1>2, <1>3, <2>6, <3>1, <3>2 DEF MailInOrder
  <2> QED BY <1>3, <1>5, <2>8, <2>9, <2>10, <2>11, <2>12 DEF IInv
<1>7. CASE Forward(msg) /\ UNCHANGED child
  <2>1. managed.ref # NoChild /\ mailbox' = Sent(managed.ref, msg)
          /\ UNCHANGED <<managed, created, child>>
    BY <1>7 DEF Forward
  <2>2. /\ mailbox' = [k \in Children |-> mailbox'[k]]
        /\ \A k \in Children :
             mailbox'[k] = IF Running(k) THEN Append(mailbox[k], msg) ELSE mailbox[k]
    BY <2>1, SentIs
  <2>3. FamilyType' /\ ChildType' /\ MemoryInStep'
    BY <1>2, <2>1, <2>2 DEF IInv, FamilyType, ParentMsg, ChildType, MemoryInStep, InStep
  <2>4. ManagedRuns'
    BY <1>2, <2>1, <2>2 DEF IInv, ManagedRuns, Running, Stopped
  <2>5. MailInOrder'
    <3> SUFFICES ASSUME NEW k \in Children, Running(k)
                 PROVE  child[k].state \in Nat
                          /\ BoxOK(mailbox'[k], child[k].state, state, version, Placed)
      BY <1>2, <1>3, <2>1 DEF MailInOrder, Running
    <3>1. child[k].state \in Nat /\ BoxOK(mailbox[k], child[k].state, state, version, Placed)
      BY DEF IInv, MailInOrder
    <3>2. BoxOK(Append(mailbox[k], msg), child[k].state, state, version, Placed)
      BY <1>1, <1>2, <3>1, BoxWithRequest
    <3> QED BY <2>2, <3>1, <3>2
  <2> QED BY <1>3, <1>5, <2>3, <2>4, <2>5 DEF IInv
<1>8. CASE ForwardToDying(msg) /\ UNCHANGED child
  <2>1. UNCHANGED <<managed, mailbox, created, child>>
    BY <1>8 DEF ForwardToDying
  <2>2. FamilyType' /\ ChildType' /\ MemoryInStep'
    BY <1>2, <2>1 DEF IInv, FamilyType, ParentMsg, ChildType, MemoryInStep, InStep
  <2>3. ManagedRuns'
    BY <1>2, <2>1 DEF IInv, ManagedRuns, Running, Stopped
  <2>4. MailInOrder'
    BY <1>2, <1>3, <2>1 DEF IInv, MailInOrder, Running
  <2> QED BY <1>3, <1>5, <2>2, <2>3, <2>4 DEF IInv
<1> QED BY <1>6, <1>7, <1>8 DEF Route, msg

LEMMA ManagerStepIInv == IInv /\ ManagerStep => IInv'
<1> SUFFICES ASSUME IInv, ManagerStep PROVE IInv'
  OBVIOUS
<1>1. /\ UNCHANGED <<state, version, child, journal, outcome, faults, created, timeouts>>
      /\ parentBox # <<>> /\ parentBox' = Tail(parentBox)
  BY DEF ManagerStep, KillMe, Terminated
<1>2. JournalType' /\ Placed' = Placed
  BY <1>1, SameJournal DEF IInv
<1>3. /\ parentBox' \in Seq(ParentMsg) /\ Head(parentBox) \in ParentMsg
      /\ \A k : Stopped(k)' => Stopped(k)
      /\ \A k : Stopped(k) => Stopped(k)' \/ Head(parentBox) = [type |-> "Terminated", child |-> k]
  BY <1>1, ParentReads DEF IInv
<1>4. ToldIsTrue' /\ ReadersSeeWhatWasTold' /\ SpaceType'
  BY <1>1, <1>2 DEF IInv, ToldIsTrue, ReadersSeeWhatWasTold, SpaceType
<1>5. ChildType' /\ MemoryInStep' /\ \A k \in Children : Running(k)' <=> Running(k)
  BY <1>1 DEF IInv, ChildType, MemoryInStep, InStep, Running
<1>6. CASE KillMe
  <2>1. Head(parentBox).type = "KillMe"
    BY <1>6 DEF KillMe
  <2>2. \A k : Stopped(k)' <=> Stopped(k)
    BY <1>3, <2>1
  <2>3. CASE managed.ref = Head(parentBox).child
    <3>1. managed.ref # NoChild /\ mailbox' = Sent(managed.ref, PoisonPill)
            /\ managed' = [managed EXCEPT !.state = "Dying"]
      BY <1>3, <1>6, <2>3, Numbers DEF KillMe, ParentMsg, IInv, FamilyType, NoChild
    <3>2. /\ mailbox' = [k \in Children |-> mailbox'[k]]
          /\ \A k \in Children :
               mailbox'[k] = IF Running(k) THEN Append(mailbox[k], PoisonPill) ELSE mailbox[k]
      BY <3>1, SentIs
    <3>3. managed' \in [ref : 0 .. created, state : {"Normal", "Dying"}] /\ managed'.ref = managed.ref
      BY <3>1 DEF IInv, FamilyType
    <3>4. FamilyType'
      BY <1>1, <1>3, <3>2, <3>3 DEF IInv, FamilyType, ParentMsg
    <3>5. ManagedRuns' /\ NothingBefore'
      BY <1>1, <1>5, <2>2, <3>2, <3>3 DEF IInv, ManagedRuns, NothingBefore
    <3>6. MailInOrder'
      BY <1>1, <1>2, <1>5, <3>2, BoxWithPill DEF IInv, MailInOrder
    <3> QED BY <1>2, <1>4, <1>5, <3>4, <3>5, <3>6 DEF IInv
  <2>4. CASE managed.ref # Head(parentBox).child
    <3>1. UNCHANGED <<managed, mailbox>>
      BY <1>6, <2>4 DEF KillMe
    <3>2. FamilyType'
      BY <1>1, <1>3, <3>1 DEF IInv, FamilyType, ParentMsg
    <3>3. ManagedRuns' /\ NothingBefore'
      BY <1>1, <1>5, <2>2, <3>1 DEF IInv, ManagedRuns, NothingBefore
    <3>4. MailInOrder'
      BY <1>1, <1>2, <1>5, <3>1 DEF IInv, MailInOrder
    <3> QED BY <1>2, <1>4, <1>5, <3>2, <3>3, <3>4 DEF IInv
  <2> QED BY <2>3, <2>4
<1>7. CASE Terminated
  <2> DEFINE gone == Head(parentBox).child
  <2>1. /\ managed' = IF managed.ref = gone THEN NoManagedChild ELSE managed
        /\ UNCHANGED mailbox /\ Head(parentBox) = [type |-> "Terminated", child |-> gone]
        /\ parentBox[1] = Head(parentBox) /\ 1 \in 1 .. Len(parentBox)
    BY <1>1, <1>3, <1>7 DEF Terminated, ParentMsg, IInv, FamilyType
  <2>2. Stopped(gone) /\ \A k : k # gone => (Stopped(k)' <=> Stopped(k))
    <3>1. \A k : [type |-> "Terminated", child |-> k] = [type |-> "Terminated", child |-> gone]
                   => k = gone
      OBVIOUS
    <3> HIDE DEF gone
    <3> QED BY <1>3, <2>1, <3>1 DEF Stopped, Contains
  <2> HIDE DEF gone
  <2>3. FamilyType'
    BY <1>1, <1>3, <2>1 DEF IInv, FamilyType, ParentMsg, NoManagedChild, NoChild
  <2>4. NothingBefore'
    BY <1>1, <2>1 DEF IInv, NothingBefore, NoManagedChild
  <2>5. ManagedRuns'
    <3>1. CASE managed.ref = gone
      <4>1. \A k \in Children : ~Running(k)
        BY <2>2, <3>1 DEF IInv, ManagedRuns
      <4> QED BY <1>5, <2>1, <3>1, <4>1, Numbers DEF IInv, ManagedRuns, NoManagedChild
    <3>2. CASE managed.ref # gone
      BY <1>5, <2>1, <2>2, <3>2 DEF IInv, ManagedRuns
    <3> QED BY <3>1, <3>2
  <2>6. MailInOrder'
    BY <1>1, <1>2, <1>5, <2>1 DEF IInv, MailInOrder
  <2> QED BY <1>2, <1>4, <1>5, <2>3, <2>4, <2>5, <2>6 DEF IInv
<1> QED BY <1>6, <1>7 DEF ManagerStep

-----------------------------------------------------------------------------
(* The steps of a child. *)

LEMMA OthersRest ==
  ASSUME IInv, NEW k \in Children, Running(k)
  PROVE  /\ managed.ref = k /\ state # 0 /\ version # 0
         /\ \A j \in Children \ {k} : ~Running(j) /\ mailbox[j] = <<>>
BY Numbers DEF IInv, ManagedRuns, NothingBefore, SpaceType

(* A running child k becomes c, with box for its mail; the others rest. *)
LEMMA ChildGoesOn ==
  ASSUME IInv, NEW k \in Children, Running(k), NEW c, NEW box,
         child' = [child EXCEPT ![k] = c], ChildShape(c), c.phase \notin {"unborn", "dead"},
         mailbox' = [mailbox EXCEPT ![k] = box],
         UNCHANGED <<managed, parentBox, created, state, version>>,
         JournalType', InStep(c)', c.state \in Nat, BoxOK(box, c.state, state, version, Placed'),
         SpaceType', ToldIsTrue', ReadersSeeWhatWasTold', NothingBefore'
  PROVE  IInv'
<1>1. \A j \in Children : /\ child'[j] = (IF j = k THEN c ELSE child[j])
                          /\ mailbox'[j] = IF j = k THEN box ELSE mailbox[j]
  BY DEF IInv, ChildType, FamilyType
<1>2. \A j \in Children : Running(j)' <=> j = k
  BY <1>1, OthersRest DEF Running
<1>3. FamilyType' /\ ChildType'
  BY <1>1 DEF IInv, FamilyType, ParentMsg, ChildType
<1>4. ManagedRuns'
  BY <1>1, <1>2, OthersRest DEF IInv, ManagedRuns, Stopped
<1>5. MemoryInStep'
  <2>1. \A j \in Children \ {k} : child'[j].phase \in {"unborn", "dead"}
    BY <1>2 DEF Running
  <2>2. \A j \in Children \ {k} : InStep(child[j])'
    BY <2>1 DEF InStep
  <2>3. InStep(child[k])'
    BY <1>1 DEF InStep
  <2> QED BY <2>2, <2>3 DEF MemoryInStep
<1>6. MailInOrder'
  BY <1>1, <1>2 DEF MailInOrder
<1> QED BY <1>3, <1>4, <1>5, <1>6 DEF IInv

AChild(phase, convs, nextId, s, event, request) ==
  [phase |-> phase, memory |-> [conversations |-> convs, nextId |-> nextId], state |-> s,
   event |-> event, request |-> request]

LEMMA ChildIs ==
  ASSUME NEW c
  PROVE  /\ ChildShape(c) => \E phase, convs, nextId, s, event, request :
                                c = AChild(phase, convs, nextId, s, event, request)
         /\ \A phase, convs, nextId, s, event, request :
              c = AChild(phase, convs, nextId, s, event, request) => ChildShape(c)
<1>1. ASSUME ChildShape(c)
      PROVE  c = AChild(c.phase, c.memory.conversations, c.memory.nextId, c.state, c.event, c.request)
  <2>1. c = [phase |-> c.phase, memory |-> c.memory, state |-> c.state, event |-> c.event,
             request |-> c.request]
    BY <1>1 DEF ChildShape
  <2>2. c.memory = [conversations |-> c.memory.conversations, nextId |-> c.memory.nextId]
    BY <1>1 DEF ChildShape, MemoryShape
  <2> QED BY <2>1, <2>2, Zenon DEF AChild
<1>2. ASSUME NEW phase, NEW convs, NEW nextId, NEW s, NEW event, NEW request,
             c = AChild(phase, convs, nextId, s, event, request)
      PROVE  ChildShape(c)
  <2>1. c.phase = phase /\ c.state = s /\ c.event = event /\ c.request = request
          /\ c.memory = [conversations |-> convs, nextId |-> nextId]
    BY <1>2 DEF AChild
  <2>2. c.memory.conversations = convs /\ c.memory.nextId = nextId
    BY <2>1
  <2> QED BY <1>2, <2>1, <2>2, Zenon DEF AChild, ChildShape, MemoryShape
<1> QED BY <1>1, <1>2

LEMMA RecoverIInv ==
  ASSUME IInv, NEW k \in Children, Recover(k)
  PROVE  IInv'
<1>1. /\ child[k].phase = "recovering" /\ Running(k)
      /\ child' = [child EXCEPT ![k].phase = "ready", ![k].memory = journal]
      /\ UNCHANGED <<routingVars, state, version, journal, outcome, faults>>
  BY DEF Recover, Running
<1>2. PICK c : c = [phase |-> "ready", memory |-> journal, state |-> child[k].state,
                    event |-> child[k].event, request |-> child[k].request]
  OBVIOUS
<1>3. child' = [child EXCEPT ![k] = c]
  <2>1. PICK old : old = child[k]
    OBVIOUS
  <2>2. child' = [child EXCEPT ![k] = [[old EXCEPT !.phase = "ready"] EXCEPT !.memory = journal]]
    BY <1>1, <2>1 DEF IInv, ChildType
  <2>3. PICK phase, convs, nextId, s, event, request :
          old = AChild(phase, convs, nextId, s, event, request)
    BY <2>1, ChildIs DEF IInv, ChildType
  <2>4. old.state = s /\ old.event = event /\ old.request = request
    BY <2>3 DEF AChild
  <2>5. [[old EXCEPT !.phase = "ready"] EXCEPT !.memory = journal]
          = [phase |-> "ready", memory |-> journal, state |-> s, event |-> event,
             request |-> request]
    <3>1. PICK mid : mid = [old EXCEPT !.phase = "ready"]
      OBVIOUS
    <3>2. mid = AChild("ready", convs, nextId, s, event, request)
      BY <2>3, <3>1 DEF AChild
    <3>3. [mid EXCEPT !.memory = journal] = [phase |-> "ready", memory |-> journal, state |-> s,
                                             event |-> event, request |-> request]
      BY <3>2 DEF AChild
    <3> QED BY <3>1, <3>3
  <2> QED BY <1>2, <2>1, <2>2, <2>4, <2>5
<1>4. JournalType' /\ Placed' = Placed
  BY <1>1, SameJournal DEF IInv
<1>5. ChildShape(c) /\ InStep(c)' /\ c.phase = "ready" /\ c.state = child[k].state
  BY <1>1, <1>2 DEF ChildShape, InStep, IInv, JournalType, MemoryShape
<1>6. SpaceType' /\ ToldIsTrue' /\ ReadersSeeWhatWasTold' /\ NothingBefore'
  BY <1>1, <1>4, NoAnswerKeeps DEF routingVars
<1>7. mailbox' = [mailbox EXCEPT ![k] = mailbox[k]]
  BY <1>1 DEF IInv, FamilyType, routingVars
<1>8. child[k].state \in Nat /\ BoxOK(mailbox[k], child[k].state, state, version, Placed)
  BY <1>1 DEF IInv, MailInOrder
<1> QED BY <1>1, <1>3, <1>4, <1>5, <1>6, <1>7, <1>8, ChildGoesOn DEF routingVars

(* What reading a message does to the mailbox. *)
LEMMA ReadsOne ==
  ASSUME IInv, NEW k \in Children, NEW type, Reads(k, type)
  PROVE  /\ Running(k) /\ child[k].memory = journal /\ Head(mailbox[k]).type = type
         /\ ChildShape(child[k]) /\ child[k].state \in Nat
         /\ mailbox' = [mailbox EXCEPT ![k] = Tail(mailbox[k])]
         /\ UNCHANGED <<managed, parentBox, created, state, version, journal>>
         /\ JournalType' /\ Placed' = Placed
         /\ type = "CurrentState" =>
              /\ Head(mailbox[k]).state \in Nat
              /\ BoxOK(Tail(mailbox[k]), Head(mailbox[k]).state, state, version, Placed)
         /\ type \in RequestType =>
              /\ BoxOK(Tail(mailbox[k]), child[k].state, state, version, Placed)
              /\ Head(mailbox[k]).owed \subseteq Placed
<1>1. /\ child[k].phase = "ready" /\ mailbox[k] # <<>> /\ Head(mailbox[k]).type = type
      /\ mailbox' = [mailbox EXCEPT ![k] = Tail(mailbox[k])]
      /\ UNCHANGED <<managed, parentBox, created, state, version, journal>>
  BY DEF Reads
<1>2. Running(k) /\ child[k].memory = journal /\ ChildShape(child[k])
  BY <1>1 DEF Running, IInv, MemoryInStep, InStep, ChildType
<1>3. child[k].state \in Nat /\ BoxOK(mailbox[k], child[k].state, state, version, Placed)
  BY <1>2 DEF IInv, MailInOrder
<1>4. JournalType' /\ Placed' = Placed
  BY <1>1, SameJournal DEF IInv
<1>5. state \in Nat
  BY DEF IInv, SpaceType
<1> QED BY <1>1, <1>2, <1>3, <1>4, <1>5, BoxRead DEF IsState, IsRequest, RequestType

LEMMA ReadCurrentStateIInv ==
  ASSUME IInv, NEW k \in Children, ReadCurrentState(k)
  PROVE  IInv'
<1>1. Reads(k, "CurrentState") /\ child' = [child EXCEPT ![k].state = Head(mailbox[k]).state]
        /\ UNCHANGED outcome
  BY DEF ReadCurrentState
<1>2. PICK old, s : old = child[k] /\ s = Head(mailbox[k]).state
  OBVIOUS
<1>3. PICK c : c = [old EXCEPT !.state = s]
  OBVIOUS
<1>4. c.phase = old.phase /\ c.memory = old.memory /\ c.event = old.event /\ c.state = s
        /\ ChildShape(c)
  <2>1. PICK phase, convs, nextId, old_s, event, request :
          old = AChild(phase, convs, nextId, old_s, event, request)
    BY <1>1, <1>2, ReadsOne, ChildIs
  <2>2. c = AChild(phase, convs, nextId, s, event, request)
    BY <1>3, <2>1 DEF AChild
  <2> QED BY <2>1, <2>2, ChildIs DEF AChild
<1>5. child' = [child EXCEPT ![k] = c] /\ c.phase \notin {"unborn", "dead"}
  BY <1>1, <1>2, <1>3, <1>4, ReadsOne DEF Running
<1>6. InStep(c)'
  <2>1. old.phase = "ready" /\ old.memory = journal
    BY <1>1, <1>2, ReadsOne DEF Reads
  <2> QED BY <1>1, <1>4, <2>1, ReadsOne DEF InStep
<1>7. SpaceType' /\ ToldIsTrue' /\ ReadersSeeWhatWasTold' /\ NothingBefore'
  BY <1>1, ReadsOne, NoAnswerKeeps
<1>8. c.state \in Nat /\ BoxOK(Tail(mailbox[k]), c.state, state, version, Placed')
  BY <1>1, <1>2, <1>4, ReadsOne
<1> QED BY <1>1, <1>4, <1>5, <1>6, <1>7, <1>8, ReadsOne, ChildGoesOn

(* A request that is answered at once, without a change to the child. *)
LEMMA AnsweredIInv ==
  ASSUME IInv, NEW k \in Children, NEW type \in RequestType, Reads(k, type), UNCHANGED child,
         NEW p, NEW answer, Respond(p, answer), answer.type # "AddedNode",
         answer.type = "Conversations" => answer.missed = {}
  PROVE  IInv'
<1>1. Running(k) /\ version # 0 /\ state # 0
  BY ReadsOne, OthersRest
<1>2. SpaceType' /\ ToldIsTrue' /\ ReadersSeeWhatWasTold' /\ NothingBefore'
  BY <1>1, ReadsOne, AnswerKeeps
<1>3. PICK c : c = child[k]
  OBVIOUS
<1>4. child' = [child EXCEPT ![k] = c] /\ ChildShape(c) /\ c.phase \notin {"unborn", "dead"}
  BY <1>1, <1>3, ReadsOne DEF IInv, ChildType, Running
<1>5. InStep(c)'
  BY <1>3, ReadsOne DEF InStep, IInv, MemoryInStep
<1>6. c.state \in Nat /\ BoxOK(Tail(mailbox[k]), c.state, state, version, Placed')
  BY <1>3, ReadsOne
<1> QED BY <1>1, <1>2, <1>4, <1>5, <1>6, ReadsOne, ChildGoesOn

LEMMA ReadGetConversationsIInv ==
  ASSUME IInv, NEW k \in Children, ReadGetConversations(k)
  PROVE  IInv'
<1>1. Reads(k, "GetConversations") /\ UNCHANGED child
  BY DEF ReadGetConversations
<1>2. Head(mailbox[k]).owed \ Places(child[k].memory.conversations) = {}
  BY <1>1, ReadsOne DEF RequestType, Placed
<1>3. Respond(Head(mailbox[k]).post, [type |-> "Conversations", missed |-> {}])
  BY <1>2 DEF ReadGetConversations
<1> QED BY <1>1, <1>3, AnsweredIInv DEF RequestType

(* A child that was ready now waits for its event to be stored. *)
LEMMA PersistIs ==
  ASSUME IInv, NEW k \in Children, NEW event, NEW msg, NEW nextId,
         child[k].memory = journal, Persist(k, event, msg, nextId)
  PROVE  \E c : /\ child' = [child EXCEPT ![k] = c] /\ ChildShape(c)
                /\ c.phase = "persisting" /\ c.event = event /\ c.request = msg
                /\ c.state = child[k].state
                /\ c.memory.conversations = journal.conversations /\ c.memory.nextId = nextId
<1>1. PICK old : old = child[k]
  OBVIOUS
<1>2. PICK phase, convs, oldId, s, oldEvent, oldMsg :
        old = AChild(phase, convs, oldId, s, oldEvent, oldMsg)
  BY <1>1, ChildIs DEF IInv, ChildType
<1>3. PICK c1 : c1 = [old EXCEPT !.phase = "persisting"]
  OBVIOUS
<1>4. PICK c2 : c2 = [c1 EXCEPT !.event = event]
  OBVIOUS
<1>5. PICK c3 : c3 = [c2 EXCEPT !.request = msg]
  OBVIOUS
<1>6. PICK c : c = [c3 EXCEPT !.memory.nextId = nextId]
  OBVIOUS
<1>7. child' = [child EXCEPT ![k] = c]
  <2>1. child = [j \in Children |-> child[j]]
    BY DEF IInv, ChildType
  <2>2. k \in DOMAIN child
    BY <2>1
  <2>3. PICK f1 : f1 = [child EXCEPT ![k].phase = "persisting"]
    OBVIOUS
  <2>4. PICK f2 : f2 = [f1 EXCEPT ![k].event = event]
    OBVIOUS
  <2>5. PICK f3 : f3 = [f2 EXCEPT ![k].request = msg]
    OBVIOUS
  <2>6. child' = [f3 EXCEPT ![k].memory.nextId = nextId]
    BY <2>3, <2>4, <2>5 DEF Persist
  <2>7. f1 = [child EXCEPT ![k] = c1] /\ f1[k] = c1
    BY <1>1, <1>3, <2>2, <2>3
  <2>8. f2 = [child EXCEPT ![k] = c2] /\ f2[k] = c2
    BY <1>4, <2>2, <2>4, <2>7
  <2>9. f3 = [child EXCEPT ![k] = c3] /\ f3[k] = c3
    BY <1>5, <2>2, <2>5, <2>8
  <2> QED BY <1>6, <2>2, <2>6, <2>9
<1>8. c1 = AChild("persisting", convs, oldId, s, oldEvent, oldMsg)
  BY <1>2, <1>3 DEF AChild
<1>9. c2 = AChild("persisting", convs, oldId, s, event, oldMsg)
  BY <1>4, <1>8 DEF AChild
<1>10. c3 = AChild("persisting", convs, oldId, s, event, msg)
  BY <1>5, <1>9 DEF AChild
<1>11. c = AChild("persisting", convs, nextId, s, event, msg)
  <2>1. PICK memory : memory = [conversations |-> convs, nextId |-> oldId]
    OBVIOUS
  <2>2. c3 = [phase |-> "persisting", memory |-> memory, state |-> s, event |-> event,
              request |-> msg]
    BY <1>10, <2>1 DEF AChild
  <2>3. [memory EXCEPT !.nextId = nextId] = [conversations |-> convs, nextId |-> nextId]
    BY <2>1
  <2>4. c = [c3 EXCEPT !.memory = [memory EXCEPT !.nextId = nextId]]
    BY <1>6, <2>2
  <2> QED BY <2>2, <2>3, <2>4 DEF AChild
<1>12. convs = journal.conversations /\ s = child[k].state
  <2>1. old.memory.conversations = convs /\ old.state = s
    BY <1>2 DEF AChild
  <2> QED BY <1>1, <2>1
<1>13. c.phase = "persisting" /\ c.event = event /\ c.request = msg /\ c.state = s
         /\ c.memory.conversations = convs /\ c.memory.nextId = nextId
  BY <1>11 DEF AChild
<1> QED BY <1>7, <1>11, <1>12, <1>13, ChildIs

LEMMA PersistingIInv ==
  ASSUME IInv, NEW k \in Children, NEW type \in RequestType, Reads(k, type), UNCHANGED outcome,
         NEW event, NEW msg, NEW nextId, Persist(k, event, msg, nextId),
         \/ \E comment : /\ event = DHAddComment(comment)
                         /\ comment.id = journal.nextId /\ nextId = journal.nextId + 1
         \/ \E id : event = DHDeleteComment(id) /\ nextId = journal.nextId
  PROVE  IInv'
<1>1. PICK c : /\ child' = [child EXCEPT ![k] = c] /\ ChildShape(c)
               /\ c.phase = "persisting" /\ c.event = event /\ c.state = child[k].state
               /\ c.memory.conversations = journal.conversations /\ c.memory.nextId = nextId
  BY ReadsOne, PersistIs
<1>2. journal' = journal
  BY ReadsOne
<1>3. InStep(c)'
  BY <1>1, <1>2 DEF InStep
<1>4. SpaceType' /\ ToldIsTrue' /\ ReadersSeeWhatWasTold' /\ NothingBefore'
  BY ReadsOne, NoAnswerKeeps
<1>5. c.state \in Nat /\ BoxOK(Tail(mailbox[k]), c.state, state, version, Placed')
  BY <1>1, ReadsOne
<1> QED BY <1>1, <1>3, <1>4, <1>5, ReadsOne, ChildGoesOn

LEMMA ReadNewCommentIInv ==
  ASSUME IInv, NEW k \in Children, ReadNewComment(k)
  PROVE  IInv'
<1>1. Reads(k, "NewComment") /\ "NewComment" \in RequestType
  BY DEF ReadNewComment, RequestType
<1>2. child[k].memory.nextId = journal.nextId
  BY <1>1, ReadsOne
<1>3. CASE Respond(Head(mailbox[k]).post, [type |-> "ThingError"]) /\ UNCHANGED child
  BY <1>1, <1>3, AnsweredIInv
<1>4. ASSUME NEW comment, comment.id = journal.nextId, NEW msg,
             Persist(k, DHAddComment(comment), msg, journal.nextId + 1), UNCHANGED outcome
      PROVE  IInv'
  <2>1. PICK event, nextId : event = DHAddComment(comment) /\ nextId = journal.nextId + 1
    OBVIOUS
  <2>2. Persist(k, event, msg, nextId)
    BY <1>4, <2>1
  <2> QED BY <1>1, <1>4, <2>1, <2>2, PersistingIInv
<1> QED BY <1>2, <1>3, <1>4 DEF ReadNewComment

LEMMA ReadDeleteCommentIInv ==
  ASSUME IInv, NEW k \in Children, ReadDeleteComment(k)
  PROVE  IInv'
<1>1. Reads(k, "DeleteComment") /\ "DeleteComment" \in RequestType
  BY DEF ReadDeleteComment, RequestType
<1>2. child[k].memory.nextId = journal.nextId
  BY <1>1, ReadsOne
<1>3. CASE Respond(Head(mailbox[k]).post, [type |-> "CommentNotDeleted"]) /\ UNCHANGED child
  BY <1>1, <1>3, AnsweredIInv
<1>4. ASSUME NEW id, NEW msg, Persist(k, DHDeleteComment(id), msg, journal.nextId),
             UNCHANGED outcome
      PROVE  IInv'
  <2>1. PICK event, nextId : event = DHDeleteComment(id) /\ nextId = journal.nextId
    OBVIOUS
  <2>2. Persist(k, event, msg, nextId)
    BY <1>4, <2>1
  <2> QED BY <1>1, <1>4, <2>1, <2>2, PersistingIInv
<1> QED BY <1>2, <1>3, <1>4 DEF ReadDeleteComment

LEMMA EventWrittenIInv ==
  ASSUME IInv, NEW k \in Children, EventWritten(k)
  PROVE  IInv'
<1>1. /\ child[k].phase = "persisting" /\ Running(k) /\ Store(child[k].event)
      /\ child' = [child EXCEPT ![k].phase = "written"]
      /\ UNCHANGED <<routingVars, state, version, outcome, faults>>
  BY DEF EventWritten, Running
<1>2. PICK old : old = child[k]
  OBVIOUS
<1>3. ChildShape(old) /\ InStep(old)
  BY <1>2 DEF IInv, ChildType, MemoryInStep
<1>4. /\ JournalType' /\ Placed \subseteq Placed'
      /\ old.event.type \in {"DHAddComment", "DHDeleteComment"}
      /\ recover(old.memory, old.event).conversations = journal'.conversations
      /\ old.memory.nextId = journal'.nextId
      /\ old.event.type = "DHAddComment" => journal'.conversations # <<>>
  BY <1>1, <1>2, <1>3, StoreKeeps DEF IInv
<1>5. PICK c : c = [old EXCEPT !.phase = "written"]
  OBVIOUS
<1>6. /\ ChildShape(c) /\ c.phase = "written" /\ c.event = old.event /\ c.memory = old.memory
      /\ c.state = old.state
  <2>1. PICK phase, convs, nextId, s, event, request :
          old = AChild(phase, convs, nextId, s, event, request)
    BY <1>3, ChildIs
  <2>2. c = AChild("written", convs, nextId, s, event, request)
    BY <1>5, <2>1 DEF AChild
  <2> QED BY <2>1, <2>2, ChildIs DEF AChild
<1>7. child' = [child EXCEPT ![k] = c]
  BY <1>1, <1>2, <1>5
<1>8. InStep(c)'
  BY <1>4, <1>6 DEF InStep, recover
<1>9. SpaceType' /\ ToldIsTrue' /\ ReadersSeeWhatWasTold' /\ NothingBefore'
  BY <1>1, <1>4, NoAnswerKeeps DEF routingVars
<1>10. mailbox' = [mailbox EXCEPT ![k] = mailbox[k]]
  BY <1>1 DEF IInv, FamilyType, routingVars
<1>11. c.state \in Nat /\ BoxOK(mailbox[k], c.state, state, version, Placed')
  BY <1>1, <1>2, <1>4, <1>6, BoxGrows DEF IInv, MailInOrder
<1> QED BY <1>1, <1>4, <1>6, <1>7, <1>8, <1>9, <1>10, <1>11, ChildGoesOn DEF routingVars

(* The child has its event applied, and is ready for the next command. *)
LEMMA HandlerIs ==
  ASSUME IInv, NEW k \in Children, Handler(k)
  PROVE  \E c : /\ child' = [child EXCEPT ![k] = c] /\ ChildShape(c)
                /\ c.phase = "ready" /\ c.state = child[k].state
                /\ c.event = NoEvent /\ c.memory = journal
<1>1. PICK old, convs : /\ old = child[k]
                        /\ convs = recover(child[k].memory, child[k].event).conversations
  OBVIOUS
<1>2. /\ old.phase = "written" /\ Running(k)
      /\ child' = [child EXCEPT ![k].phase = "ready", ![k].memory.conversations = convs,
                                ![k].event = NoEvent, ![k].request = NoEvent]
      /\ Respond(old.request.post,
           IF old.event.type = "DHAddComment"
             THEN [type |-> "AddedNode", node |-> Place(convs[Len(convs)])]
             ELSE [type |-> "CommentDeleted"])
      /\ UNCHANGED <<routingVars, state, version, journal, faults>>
  BY <1>1 DEF Handler, Running
<1>3. /\ convs = journal.conversations /\ old.memory.nextId = journal.nextId
      /\ old.event.type = "DHAddComment" => convs # <<>>
  BY <1>1, <1>2 DEF IInv, MemoryInStep, InStep
<1>4. ChildShape(old)
  BY <1>1 DEF IInv, ChildType
<1>5. PICK phase, oldConvs, nextId, s, event, request :
        old = AChild(phase, oldConvs, nextId, s, event, request)
  BY <1>4, ChildIs
<1>6. PICK c : c = AChild("ready", convs, nextId, s, NoEvent, NoEvent)
  OBVIOUS
<1>7. child' = [child EXCEPT ![k] = c]
  <2>1. PICK c1 : c1 = [old EXCEPT !.phase = "ready"]
    OBVIOUS
  <2>2. PICK c2 : c2 = [c1 EXCEPT !.memory.conversations = convs]
    OBVIOUS
  <2>3. PICK c3 : c3 = [c2 EXCEPT !.event = NoEvent]
    OBVIOUS
  <2>4. PICK c4 : c4 = [c3 EXCEPT !.request = NoEvent]
    OBVIOUS
  <2>5. child' = [child EXCEPT ![k] = c4]
    <3>1. child' = [child EXCEPT ![k].phase = "ready", ![k].memory.conversations = convs,
                                 ![k].event = NoEvent, ![k].request = NoEvent]
      BY <1>2
    <3>2. ChildType
      BY DEF IInv
    <3>3. k \in DOMAIN child /\ child = [j \in DOMAIN child |-> child[j]]
      BY <3>2 DEF ChildType
    <3>4. PICK ch1 : ch1 = [child EXCEPT ![k].phase = "ready"]
      OBVIOUS
    <3>5. PICK ch2 : ch2 = [ch1 EXCEPT ![k].memory.conversations = convs]
      OBVIOUS
    <3>6. PICK ch3 : ch3 = [ch2 EXCEPT ![k].event = NoEvent]
      OBVIOUS
    <3>7. child' = [ch3 EXCEPT ![k].request = NoEvent]
      BY <3>1, <3>4, <3>5, <3>6
    <3>8. ch1 = [child EXCEPT ![k] = c1] /\ ch1[k] = c1
      BY <1>1, <2>1, <3>3, <3>4
    <3>9. ch2 = [child EXCEPT ![k] = c2] /\ ch2[k] = c2
      BY <2>2, <3>3, <3>5, <3>8
    <3>10. ch3 = [child EXCEPT ![k] = c3] /\ ch3[k] = c3
      BY <2>3, <3>3, <3>6, <3>9
    <3> QED BY <2>4, <3>3, <3>7, <3>10
  <2>6. c1 = AChild("ready", oldConvs, nextId, s, event, request)
    BY <1>5, <2>1 DEF AChild
  <2>7. c2 = AChild("ready", convs, nextId, s, event, request)
    <3>1. PICK memory : memory = [conversations |-> oldConvs, nextId |-> nextId]
      OBVIOUS
    <3>2. c1 = [phase |-> "ready", memory |-> memory, state |-> s, event |-> event,
                request |-> request]
      BY <2>6, <3>1 DEF AChild
    <3>3. [memory EXCEPT !.conversations = convs] = [conversations |-> convs, nextId |-> nextId]
      BY <3>1
    <3>4. c2 = [c1 EXCEPT !.memory = [memory EXCEPT !.conversations = convs]]
      BY <2>2, <3>2
    <3> QED BY <3>2, <3>3, <3>4 DEF AChild
  <2>8. c3 = AChild("ready", convs, nextId, s, NoEvent, request)
    BY <2>3, <2>7 DEF AChild
  <2>9. c4 = AChild("ready", convs, nextId, s, NoEvent, NoEvent)
    BY <2>4, <2>8 DEF AChild
  <2> QED BY <1>6, <2>5, <2>9
<1>8. /\ ChildShape(c) /\ c.phase = "ready" /\ c.state = old.state /\ c.event = NoEvent
      /\ c.memory = [conversations |-> convs, nextId |-> nextId]
  BY <1>5, <1>6, ChildIs DEF AChild
<1>9. c.memory = journal
  <2>1. nextId = journal.nextId
    BY <1>3, <1>5 DEF AChild
  <2> QED BY <1>3, <1>8, <2>1 DEF IInv, JournalType, MemoryShape
<1> QED BY <1>1, <1>7, <1>8, <1>9

LEMMA HandlerIInv ==
  ASSUME IInv, NEW k \in Children, Handler(k)
  PROVE  IInv'
<1>1. PICK old, convs : /\ old = child[k]
                        /\ convs = recover(child[k].memory, child[k].event).conversations
  OBVIOUS
<1>2. /\ old.phase = "written" /\ Running(k)
      /\ child' = [child EXCEPT ![k].phase = "ready", ![k].memory.conversations = convs,
                                ![k].event = NoEvent, ![k].request = NoEvent]
      /\ Respond(old.request.post,
           IF old.event.type = "DHAddComment"
             THEN [type |-> "AddedNode", node |-> Place(convs[Len(convs)])]
             ELSE [type |-> "CommentDeleted"])
      /\ UNCHANGED <<routingVars, state, version, journal, faults>>
  BY <1>1 DEF Handler, Running
<1>3. JournalType' /\ Placed' = Placed
  BY <1>2, SameJournal DEF IInv
<1>4. /\ convs = journal.conversations /\ old.memory.nextId = journal.nextId
      /\ old.event.type = "DHAddComment" => convs # <<>>
  BY <1>1, <1>2 DEF IInv, MemoryInStep, InStep
<1>5. PICK c : /\ child' = [child EXCEPT ![k] = c] /\ ChildShape(c)
               /\ c.phase = "ready" /\ c.state = old.state /\ c.memory = journal
  BY <1>1, HandlerIs
<1>6. InStep(c)'
  BY <1>2, <1>5 DEF InStep
<1>7. SpaceType' /\ ToldIsTrue' /\ ReadersSeeWhatWasTold' /\ NothingBefore'
  <2>1. PICK answer :
          answer = IF old.event.type = "DHAddComment"
                     THEN [type |-> "AddedNode", node |-> Place(convs[Len(convs)])]
                     ELSE [type |-> "CommentDeleted"]
    OBVIOUS
  <2>2. answer.type # "Conversations" /\ (answer.type = "AddedNode" => answer.node \in Placed')
    BY <1>3, <1>4, <2>1, LastIsPlaced DEF IInv, JournalType, Placed
  <2>3. Respond(old.request.post, answer)
    BY <1>2, <2>1
  <2> QED BY <1>2, <1>3, <2>2, <2>3, OthersRest, AnswerKeeps DEF routingVars
<1>8. mailbox' = [mailbox EXCEPT ![k] = mailbox[k]]
  BY <1>2 DEF IInv, FamilyType, routingVars
<1>9. c.state \in Nat /\ BoxOK(mailbox[k], c.state, state, version, Placed')
  BY <1>1, <1>2, <1>3, <1>5 DEF IInv, MailInOrder
<1> QED BY <1>2, <1>3, <1>5, <1>6, <1>7, <1>8, <1>9, ChildGoesOn DEF routingVars

-----------------------------------------------------------------------------
(* The end of a child. *)

LEMMA DeadShape == ChildShape(Dead) /\ Dead.phase = "dead"
<1>1. Unborn = AChild("unborn", NoMemory.conversations, NoMemory.nextId, 0, NoEvent, NoEvent)
  <2>1. PICK convs, nextId : convs = <<>> /\ nextId = 1
    OBVIOUS
  <2>2. NoMemory = [conversations |-> convs, nextId |-> nextId]
    BY <2>1 DEF NoMemory
  <2> QED BY <2>2 DEF Unborn, AChild
<1>2. Dead = AChild("dead", NoMemory.conversations, NoMemory.nextId, 0, NoEvent, NoEvent)
  BY <1>1 DEF Dead, AChild
<1> QED BY <1>2, ChildIs DEF AChild

LEMMA WriteMayEndKeeps ==
  ASSUME IInv, NEW k \in Children, WriteMayEnd(k)
  PROVE  JournalType' /\ Placed \subseteq Placed'
<1>1. CASE UNCHANGED journal
  BY <1>1, SameJournal DEF IInv
<1>2. CASE child[k].phase = "persisting" /\ Store(child[k].event)
  <2>1. PICK c : c = child[k]
    OBVIOUS
  <2>2. ChildShape(c) /\ InStep(c)
    BY <2>1 DEF IInv, ChildType, MemoryInStep
  <2> QED BY <1>2, <2>1, <2>2, StoreKeeps DEF IInv
<1> QED BY <1>1, <1>2 DEF WriteMayEnd

LEMMA StopIInv ==
  ASSUME IInv, NEW k \in Children, Running(k), Stop(k), UNCHANGED <<state, version>>
  PROVE  IInv'
<1>1. /\ mailbox' = [mailbox EXCEPT ![k] = <<>>]
      /\ parentBox' = Append(parentBox, [type |-> "Terminated", child |-> k])
      /\ UNCHANGED <<managed, created, timeouts>>
      /\ child' = [child EXCEPT ![k] = Dead]
      /\ Lose(Unanswered(k)) /\ WriteMayEnd(k)
  BY DEF Stop, ChildStops
<1>2. JournalType' /\ Placed \subseteq Placed'
  BY <1>1, WriteMayEndKeeps
<1>3. managed.ref = k /\ version # 0 /\ \A j \in Children \ {k} : ~Running(j) /\ mailbox[j] = <<>>
  BY OthersRest
<1>4. SpaceType' /\ ToldIsTrue' /\ ReadersSeeWhatWasTold' /\ NothingBefore'
  <2>1. UNCHANGED <<state, managed>> \/ (state' = 0 /\ managed' = NoManagedChild)
    BY <1>1
  <2>2. PICK posts : Lose(posts)
    BY <1>1
  <2> QED BY <1>2, <1>3, <2>1, <2>2, LoseKeeps
<1>5. \A j \in Children : /\ child'[j] = (IF j = k THEN Dead ELSE child[j])
                          /\ mailbox'[j] = <<>>
  BY <1>1, <1>3 DEF IInv, ChildType, FamilyType
<1>6. \A j \in Children : ~Running(j)'
  BY <1>3, <1>5, DeadShape DEF Running
<1>7. parentBox' \in Seq(ParentMsg) /\ Stopped(k)'
  <2>1. k \in 1 .. created
    BY <1>3, Numbers DEF IInv, FamilyType, NoChild
  <2>2. [type |-> "Terminated", child |-> k] \in ParentMsg
    BY <2>1 DEF ParentMsg
  <2> QED BY <1>1, <2>2, ParentHears DEF IInv
<1>8. FamilyType'
  BY <1>1, <1>7 DEF IInv, FamilyType, ParentMsg
<1>9. ChildType'
  BY <1>1, <1>5, DeadShape DEF IInv, ChildType
<1>10. ManagedRuns'
  BY <1>1, <1>3, <1>5, <1>6, <1>7 DEF ManagedRuns
<1>11. MemoryInStep' /\ MailInOrder'
  <2>1. \A j \in Children : child'[j].phase \in {"unborn", "dead"}
    BY <1>6 DEF Running
  <2> QED BY <1>6, <2>1 DEF MemoryInStep, InStep, MailInOrder
<1> QED BY <1>2, <1>4, <1>8, <1>9, <1>10, <1>11 DEF IInv

LEMMA TakePoisonPillIInv ==
  ASSUME IInv, NEW k \in Children, TakePoisonPill(k)
  PROVE  IInv'
BY StopIInv DEF TakePoisonPill

LEMMA PersistFailsIInv ==
  ASSUME IInv, NEW k \in Children, PersistFails(k)
  PROVE  IInv'
BY StopIInv DEF PersistFails, Running

LEMMA ChildTimesOutIInv ==
  ASSUME IInv, NEW k \in Children, ChildTimesOut(k)
  PROVE  IInv'
<1>1. /\ parentBox' = Append(parentBox, [type |-> "KillMe", child |-> k]) /\ Running(k)
      /\ UNCHANGED <<managed, mailbox, created, state, version, child, journal, outcome, faults>>
  BY DEF ChildTimesOut, ReceiveTimeout, Running
<1>2. JournalType' /\ Placed' = Placed
  BY <1>1, SameJournal DEF IInv
<1>3. SpaceType' /\ ToldIsTrue' /\ ReadersSeeWhatWasTold' /\ NothingBefore'
  BY <1>1, <1>2, NoAnswerKeeps
<1>4. parentBox' \in Seq(ParentMsg) /\ \A j : Stopped(j)' <=> Stopped(j)
  <2>1. k \in 1 .. created
    BY <1>1, OthersRest, Numbers DEF IInv, FamilyType, NoChild
  <2>2. PICK msg : msg = [type |-> "KillMe", child |-> k]
    OBVIOUS
  <2>3. msg \in ParentMsg /\ msg.type = "KillMe"
    BY <2>1, <2>2 DEF ParentMsg
  <2>4. parentBox' \in Seq(ParentMsg)
          /\ \A j : Stopped(j)' <=> Stopped(j) \/ msg = [type |-> "Terminated", child |-> j]
    BY <1>1, <2>2, <2>3, ParentHears DEF IInv
  <2> QED BY <2>3, <2>4
<1>5. FamilyType' /\ ChildType' /\ MemoryInStep'
  BY <1>1, <1>4 DEF IInv, FamilyType, ParentMsg, ChildType, MemoryInStep, InStep
<1>6. ManagedRuns' /\ MailInOrder'
  BY <1>1, <1>2, <1>4 DEF IInv, ManagedRuns, MailInOrder, Running
<1> QED BY <1>2, <1>3, <1>5, <1>6 DEF IInv

LEMMA CrashIInv == IInv /\ Crash => IInv'
<1> SUFFICES ASSUME IInv, Crash PROVE IInv'
  OBVIOUS
<1>1. /\ state > 0 /\ state' = 0 /\ version' = version
      /\ managed' = NoManagedChild /\ mailbox' = [k \in Children |-> <<>>]
      /\ parentBox' = <<>> /\ created' = created
      /\ child' = [k \in Children |-> IF Running(k) THEN Dead ELSE child[k]]
      /\ \E posts : Lose(posts)
  BY DEF Crash, FamilyDies
<1>2. version # 0
  BY <1>1 DEF IInv, SpaceType
<1>3. JournalType' /\ Placed \subseteq Placed'
  <2>1. CASE UNCHANGED journal
    BY <2>1, SameJournal DEF IInv
  <2>2. CASE \E k \in Children : WriteMayEnd(k)
    BY <2>2, WriteMayEndKeeps
  <2> QED BY <2>1, <2>2 DEF Crash
<1>4. SpaceType' /\ ToldIsTrue' /\ ReadersSeeWhatWasTold' /\ NothingBefore'
  <2>1. PICK posts : Lose(posts)
    BY <1>1
  <2>2. UNCHANGED <<state, managed>> \/ (state' = 0 /\ managed' = NoManagedChild)
    BY <1>1
  <2>3. version' = version
    BY <1>1
  <2> QED BY <1>2, <1>3, <2>1, <2>2, <2>3, LoseKeeps
<1>5. FamilyType'
  <2>1. created \in Nat
    BY DEF IInv, FamilyType
  <2>2. NoManagedChild \in [ref : 0 .. created, state : {"Normal", "Dying"}]
    BY <2>1 DEF NoManagedChild, NoChild
  <2> QED BY <1>1, <2>2 DEF IInv, FamilyType, ParentMsg
<1>6. \A k \in Children : /\ child'[k].phase \in {"unborn", "dead"} /\ ~Running(k)'
                          /\ ChildShape(child'[k]) /\ mailbox'[k] = <<>>
  BY <1>1, DeadShape DEF IInv, ChildType, Running
<1>7. ChildType'
  BY <1>1, <1>6 DEF ChildType
<1>8. ManagedRuns'
  <2>1. managed'.ref = NoChild
    BY <1>1 DEF NoManagedChild
  <2> QED BY <1>6, <2>1, Numbers DEF ManagedRuns
<1>9. MemoryInStep' /\ MailInOrder'
  BY <1>6 DEF MemoryInStep, InStep, MailInOrder
<1> QED BY <1>3, <1>4, <1>5, <1>7, <1>8, <1>9 DEF IInv

LEMMA NextIInv == IInv /\ [Next]_vars => IInv'
<1> SUFFICES ASSUME IInv, [Next]_vars PROVE IInv'
  OBVIOUS
<1>1. CASE UNCHANGED vars
  BY <1>1, StutterIInv
<1>2. CASE RunTransition
  BY <1>2, RunTransitionIInv
<1>3. CASE CurrentState
  BY <1>3, CurrentStateIInv
<1>4. ASSUME NEW p \in Request, NEW payload \in Payloads, Route(p, payload) PROVE IInv'
  BY <1>4, RouteIInv
<1>5. CASE ManagerStep
  BY <1>5, ManagerStepIInv
<1>6. ASSUME NEW k \in Children, ChildStep(k) PROVE IInv'
  BY <1>6, RecoverIInv, ReadCurrentStateIInv, ReadGetConversationsIInv, ReadNewCommentIInv,
     ReadDeleteCommentIInv, EventWrittenIInv, HandlerIInv, TakePoisonPillIInv
     DEF ChildStep, ChildReads
<1>7. ASSUME NEW k \in Children, PersistFails(k) PROVE IInv'
  BY <1>7, PersistFailsIInv
<1>8. ASSUME NEW k \in Children, ChildTimesOut(k) PROVE IInv'
  BY <1>8, ChildTimesOutIInv
<1>9. CASE Crash
  BY <1>9, CrashIInv
<1> QED BY <1>1, <1>2, <1>3, <1>4, <1>5, <1>6, <1>7, <1>8, <1>9 DEF Next

-----------------------------------------------------------------------------
(***************************************************************************)
(* A child that is to die finds a PoisonPill in its mail, until it takes   *)
(* it; then Terminated is on its way, until the parent reads it.           *)
(***************************************************************************)
PillIn(box) == \E n \in 1 .. Len(box) : box[n] = PoisonPill

ToldToDie ==
  managed.state = "Dying" =>
    managed.ref \in Children /\ (Stopped(managed.ref) \/ PillIn(mailbox[managed.ref]))

LEMMA PillStays ==
  ASSUME NEW box, IsSeq(box), NEW msg, PillIn(box)
  PROVE  PillIn(Append(box, msg))
<1>1. PICK n \in 1 .. Len(box) : box[n] = PoisonPill
  BY DEF PillIn
<1>2. n \in 1 .. Len(Append(box, msg)) /\ Append(box, msg)[n] = PoisonPill
  BY <1>1, AppendIs
<1> QED BY <1>2 DEF PillIn

LEMMA PillIsLast ==
  ASSUME NEW box, IsSeq(box)
  PROVE  PillIn(Append(box, PoisonPill))
<1>1. Len(box) + 1 \in 1 .. Len(Append(box, PoisonPill))
        /\ Append(box, PoisonPill)[Len(box) + 1] = PoisonPill
  BY AppendIs
<1> QED BY <1>1 DEF PillIn

(* A child reads what is not a PoisonPill, so the pill is behind it. *)
LEMMA PillIsNotRead ==
  ASSUME NEW box, IsSeq(box), box # <<>>, Head(box).type # "PoisonPill", PillIn(box)
  PROVE  PillIn(Tail(box))
<1>1. PICK n \in 1 .. Len(box) : box[n] = PoisonPill
  BY DEF PillIn
<1>2. n # 1
  BY <1>1, TailIs DEF PoisonPill
<1>3. n - 1 \in 1 .. Len(Tail(box)) /\ Tail(box)[n - 1] = box[n]
  BY <1>1, <1>2, TailIs
<1> QED BY <1>1, <1>3 DEF PillIn

LEMMA BoxesAreSeqs ==
  ASSUME IInv, NEW k \in Children
  PROVE  IsSeq(mailbox[k])
<1>1. CASE Running(k)
  BY <1>1 DEF IInv, MailInOrder, BoxOK
<1>2. CASE ~Running(k)
  <2>1. mailbox[k] = <<>> /\ <<>> \in Seq({})
    BY <1>2 DEF IInv, ManagedRuns
  <2> QED BY <2>1 DEF IsSeq
<1> QED BY <1>1, <1>2

LEMMA NextToldToDie == IInv /\ ToldToDie /\ [Next]_vars => ToldToDie'
<1> SUFFICES ASSUME IInv, ToldToDie, [Next]_vars PROVE ToldToDie'
  OBVIOUS
<1>1. ASSUME UNCHANGED <<managed, parentBox>>,
             \A k \in Children : PillIn(mailbox[k]) => PillIn(mailbox'[k])
      PROVE  ToldToDie'
  BY <1>1 DEF ToldToDie, Stopped
<1>2. ASSUME UNCHANGED <<managed, parentBox, mailbox>> PROVE ToldToDie'
  BY <1>2 DEF ToldToDie, Stopped
<1>3. ASSUME managed'.state # "Dying" PROVE ToldToDie'
  BY <1>3 DEF ToldToDie
<1>4. ASSUME NEW msg, managed.ref # NoChild, mailbox' = Sent(managed.ref, msg)
      PROVE  \A k \in Children : PillIn(mailbox[k]) => PillIn(mailbox'[k])
  <2>1. \A k \in Children :
          mailbox'[k] = Append(mailbox[k], msg) \/ mailbox'[k] = mailbox[k]
    BY <1>4, SentIs
  <2>2. \A k \in Children : PillIn(mailbox[k]) => PillIn(Append(mailbox[k], msg))
    BY BoxesAreSeqs, PillStays
  <2> QED BY <2>1, <2>2, Zenon
<1>5. CASE CurrentState
  <2>1. UNCHANGED <<managed, parentBox>> /\ routeToAll([type |-> "CurrentState", state |-> version'])
    BY <1>5 DEF CurrentState
  <2>2. PICK msg : msg = [type |-> "CurrentState", state |-> version']
    OBVIOUS
  <2>3. mailbox' = mailbox \/ (managed.ref # NoChild /\ mailbox' = Sent(managed.ref, msg))
    BY <2>1, <2>2 DEF routeToAll
  <2> QED BY <1>1, <1>4, <2>1, <2>3
<1>6. ASSUME NEW p \in Request, NEW payload \in Payloads, Route(p, payload) PROVE ToldToDie'
  <2>1. PICK msg : msg = [payload EXCEPT !.post = p]
    OBVIOUS
  <2>2. CreateAndForward(msg) \/ Forward(msg) \/ ForwardToDying(msg)
    BY <1>6, <2>1 DEF Route
  <2>3. parentBox' = parentBox
    BY <1>6 DEF Route
  <2>4. CASE CreateAndForward(msg)
    BY <1>3, <2>4 DEF CreateAndForward
  <2>5. CASE Forward(msg)
    BY <1>3, <2>5 DEF Forward
  <2>6. CASE ForwardToDying(msg)
    BY <1>2, <2>3, <2>6 DEF ForwardToDying
  <2> QED BY <2>2, <2>4, <2>5, <2>6
<1>7. CASE KillMe
  <2>1. /\ parentBox # <<>> /\ Head(parentBox).type = "KillMe" /\ parentBox' = Tail(parentBox)
    BY <1>7 DEF KillMe
  <2>2. \A k : Stopped(k) => Stopped(k)'
    BY <2>1, ParentReads DEF IInv
  <2>3. CASE managed.ref = Head(parentBox).child
    <3>1. managed.ref # NoChild
      BY <2>1, <2>3, ParentReads, Numbers DEF ParentMsg, IInv, FamilyType, NoChild
    <3>2. mailbox' = Sent(managed.ref, PoisonPill) /\ managed'.ref = managed.ref
      BY <1>7, <2>3 DEF KillMe, IInv, FamilyType
    <3>3. managed.ref \in Children /\ (Running(managed.ref) \/ Stopped(managed.ref))
      BY <3>1, SentIs DEF IInv, ManagedRuns
    <3>4. Running(managed.ref) => PillIn(mailbox'[managed.ref])
      BY <3>1, <3>2, <3>3, SentIs, BoxesAreSeqs, PillIsLast
    <3> QED BY <2>2, <3>2, <3>3, <3>4 DEF ToldToDie
  <2>4. CASE managed.ref # Head(parentBox).child
    <3>1. UNCHANGED <<managed, mailbox>>
      BY <1>7, <2>4 DEF KillMe
    <3> QED BY <2>2, <3>1 DEF ToldToDie
  <2> QED BY <2>3, <2>4
<1>8. CASE Terminated
  <2>1. /\ parentBox # <<>> /\ parentBox' = Tail(parentBox) /\ mailbox' = mailbox
        /\ managed' = IF managed.ref = Head(parentBox).child THEN NoManagedChild ELSE managed
    BY <1>8 DEF Terminated
  <2>2. CASE managed.ref = Head(parentBox).child
    BY <1>3, <2>1, <2>2 DEF NoManagedChild
  <2>3. CASE managed.ref # Head(parentBox).child
    <3>1. Stopped(managed.ref) => Stopped(managed.ref)'
      BY <2>1, <2>3, ParentReads DEF IInv
    <3> QED BY <2>1, <2>3, <3>1 DEF ToldToDie
  <2> QED BY <2>2, <2>3
<1>9. ASSUME NEW k \in Children, ChildReads(k) PROVE ToldToDie'
  <2>1. PICK type \in {"CurrentState", "GetConversations", "NewComment", "DeleteComment"} :
          Reads(k, type)
    BY <1>9 DEF ChildReads, ReadCurrentState, ReadGetConversations, ReadNewComment,
       ReadDeleteComment
  <2>2. mailbox[k] # <<>> /\ Head(mailbox[k]).type # "PoisonPill"
        /\ mailbox' = [mailbox EXCEPT ![k] = Tail(mailbox[k])] /\ UNCHANGED <<managed, parentBox>>
    BY <2>1 DEF Reads
  <2>3. \A j \in Children : mailbox'[j] = IF j = k THEN Tail(mailbox[k]) ELSE mailbox[j]
    BY <2>2 DEF IInv, FamilyType
  <2>4. PillIn(mailbox[k]) => PillIn(Tail(mailbox[k]))
    BY <2>2, BoxesAreSeqs, PillIsNotRead
  <2> QED BY <1>1, <2>2, <2>3, <2>4
<1>10. ASSUME NEW k \in Children, Running(k), Stop(k) PROVE ToldToDie'
  <2>1. managed.ref = k /\ managed' = managed
    BY <1>10, OthersRest DEF Stop, ChildStops
  <2>2. k \in 1 .. created
    BY <2>1, Numbers DEF IInv, FamilyType, NoChild
  <2>3. PICK msg : msg = [type |-> "Terminated", child |-> k]
    OBVIOUS
  <2>4. msg \in ParentMsg /\ parentBox' = Append(parentBox, msg)
    BY <1>10, <2>2, <2>3 DEF ParentMsg, Stop, ChildStops
  <2>5. Stopped(k)'
    BY <2>3, <2>4, ParentHears DEF IInv
  <2> QED BY <2>1, <2>5 DEF ToldToDie
<1>11. ASSUME NEW k \in Children, ChildTimesOut(k) PROVE ToldToDie'
  <2>1. UNCHANGED <<managed, mailbox>> /\ Running(k)
        /\ parentBox' = Append(parentBox, [type |-> "KillMe", child |-> k])
    BY <1>11 DEF ChildTimesOut, ReceiveTimeout, Running
  <2>2. k \in 1 .. created
    BY <2>1, OthersRest, Numbers DEF IInv, FamilyType, NoChild
  <2>3. PICK msg : msg = [type |-> "KillMe", child |-> k]
    OBVIOUS
  <2>4. msg \in ParentMsg /\ parentBox' = Append(parentBox, msg)
    BY <2>1, <2>2, <2>3 DEF ParentMsg
  <2>5. \A j : Stopped(j) => Stopped(j)'
    BY <2>4, ParentHears DEF IInv
  <2> QED BY <2>1, <2>5 DEF ToldToDie
<1>12. CASE Crash
  BY <1>3, <1>12 DEF Crash, FamilyDies, NoManagedChild
<1>13. ASSUME NEW k \in Children, ChildStep(k) \/ PersistFails(k) PROVE ToldToDie'
  <2>1. CASE Recover(k) \/ EventWritten(k) \/ Handler(k)
    BY <1>2, <2>1 DEF Recover, EventWritten, Handler, routingVars
  <2>2. CASE TakePoisonPill(k) \/ PersistFails(k)
    BY <1>10, <2>2 DEF TakePoisonPill, PersistFails, Running
  <2> QED BY <1>9, <1>13, <2>1, <2>2 DEF ChildStep
<1>14. CASE RunTransition \/ UNCHANGED vars
  BY <1>2, <1>14 DEF RunTransition, vars, routingVars
<1> QED
  BY <1>5, <1>6, <1>7, <1>8, <1>11, <1>12, <1>13, <1>14 DEF Next, ManagerStep

-----------------------------------------------------------------------------
(* The results. *)

(* What a child remembers, whom it has read and what its parent knows of it *)
(* fit together after every step of parent, child, Space and journal.       *)
THEOREM InductiveInvariant == Spec => []IInv
<1>1. Init => IInv
  BY InitIInv
<1>2. IInv /\ [Next]_vars => IInv'
  BY NextIInv
<1> QED BY <1>1, <1>2, PTL DEF Spec

(* A second ThingConversationsActor never runs beside the first, however    *)
(* receive timeouts, PoisonPills and Terminated cross.                      *)
THEOREM OneWriterAtATime == Spec => []OneWriter
<1>1. IInv => OneWriter
  BY DEF IInv, ManagedRuns, OneWriter
<1> QED BY <1>1, InductiveInvariant, PTL

(* The actor's fields are what a recovery would make of the journal, but    *)
(* for the event that persistMessage has under way.                         *)
THEOREM MemoryIsTheJournal == Spec => []MemoryIsJournal
<1>1. IInv => MemoryIsJournal
  BY DEF IInv, MemoryInStep, InStep, MemoryIsJournal
<1> QED BY <1>1, InductiveInvariant, PTL

(* No request is judged by permissions older than those that the manager    *)
(* had when it routed the request to the child.                             *)
THEOREM PermissionsAreFresh == Spec => []NoStalePermission
<1>1. ASSUME IInv, NEW k \in Children, child[k].phase = "ready", mailbox[k] # <<>>,
             "post" \in DOMAIN Head(mailbox[k])
      PROVE  child[k].state >= Head(mailbox[k]).routedIn
  <2>1. Running(k)
    BY <1>1 DEF Running
  <2>2. child[k].state \in Nat /\ state \in Nat
          /\ BoxOK(mailbox[k], child[k].state, state, version, Placed)
    BY <1>1, <2>1 DEF IInv, MailInOrder, SpaceType
  <2>3. MsgOK(Head(mailbox[k]), Placed)
    BY <1>1, <2>2, TailIs DEF BoxOK
  <2>4. IsRequest(Head(mailbox[k]))
    BY <1>1, <2>3, MsgKinds
  <2> QED BY <1>1, <2>2, <2>4, BoxRead
<1>2. IInv => NoStalePermission
  BY <1>1 DEF NoStalePermission
<1> QED BY <1>2, InductiveInvariant, PTL

(* GetConversations shows every comment, where its author was told it is,   *)
(* that was answered before the request was routed.                         *)
THEOREM ReadersSeeIt == Spec => []ReadersSeeWhatWasTold
<1>1. IInv => ReadersSeeWhatWasTold
  BY DEF IInv
<1> QED BY <1>1, InductiveInvariant, PTL

(* A child that is to die is told so or has told its parent of its end.     *)
THEOREM DyingAreTold == Spec => []DyingIsTold
<1>1. Init => ToldToDie
  BY DEF Init, RoutingInit, NoManagedChild, ToldToDie
<1>2. IInv /\ ToldToDie /\ [Next]_vars => ToldToDie'
  BY NextToldToDie
<1>3. ToldToDie => DyingIsTold
  BY DEF ToldToDie, DyingIsTold, PillIn, Contains
<1> QED BY <1>1, <1>2, <1>3, InductiveInvariant, PTL DEF Spec

=============================================================================
