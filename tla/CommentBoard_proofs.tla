------------------------- MODULE CommentBoard_proofs -------------------------
(***************************************************************************)
(* For every number of requests, children, timeouts and faults: comments   *)
(* stay where their authors were told they are, two replies do not fork a  *)
(* conversation, and no request that a child has is forgotten.             *)
(***************************************************************************)
EXTENDS SpaceConversations_proofs, FiniteSetTheorems

(* The counters stay within their bounds. *)
Counted ==
  /\ timeouts \in 0 .. MaxTimeouts /\ faults \in 0 .. MaxFaults
  /\ version \in 0 .. MaxVersions /\ state \in 0 .. MaxVersions
  /\ \A p \in Request : outcome[p].type \in Outcomes

(* No two primary responses to a comment. *)
OneMain(convs) == \A id \in CommentId : \A m, n \in primaries(convs, id) : m = n

(***************************************************************************)
(* The journal: its comments are stitched together, and nextId is not the  *)
(* id of one of them, nor will be.  Before the Space has sent a state, it  *)
(* has at most the old comments; if they do not fork, no comments do.      *)
(***************************************************************************)
JournalWhole ==
  /\ journal \in Memory
  /\ Stitched(journal.conversations)
  /\ journal.nextId # 0 /\ \A id \in Ids(journal.conversations) : id < journal.nextId
  /\ version = 0 => journal.conversations \in {<<>>, OldConvs}
  /\ OneMain(OldConvs) => OneMain(journal.conversations)

(***************************************************************************)
(* What a child c with the mail box works on, and that each request is     *)
(* once in its hands or in its mail.                                       *)
(***************************************************************************)
Phase == {"unborn", "recovering", "ready", "persisting", "written", "dead"}

ChildTyped(c) ==
  /\ c.phase \in Phase
  /\ c.memory \in Memory
  /\ c.state \in 0 .. MaxVersions
  /\ c.event \in Events

Asked(m) ==
  /\ "post" \in DOMAIN m /\ m.post \in Request
  /\ m.responseTo \in CommentId \union {Root}
  /\ m.primary \in BOOLEAN

Asks(box, p) == \E n \in 1 .. Len(box) : IsRequest(box[n]) /\ box[n].post = p
Handles(c, p) == c.phase \in {"persisting", "written"} /\ c.request.post = p
Holds(c, box, p) == Asks(box, p) \/ Handles(c, p)

MailTyped(box) ==
  \A n \in 1 .. Len(box) :
    /\ IsRequest(box[n]) => Asked(box[n])
    /\ IsState(box[n]) => box[n].state \in 0 .. MaxVersions

OnceEach(c, box) ==
  /\ \A p : Handles(c, p) => ~Asks(box, p)
  /\ \A m, n \in 1 .. Len(box) :
       IsRequest(box[m]) /\ IsRequest(box[n]) /\ box[m].post = box[n].post => m = n

ChildrenWhole ==
  \A k \in Children :
    /\ ChildTyped(child[k])
    /\ MailTyped(mailbox[k])
    /\ OnceEach(child[k], mailbox[k])

(* A request that is neither answered nor lost is in the hands of a child. *)
SentIsHeld ==
  \A p \in Request :
    outcome[p].type = "sent" <=> \E k \in Children : Holds(child[k], mailbox[k], p)

BInv == Counted /\ JournalWhole /\ ChildrenWhole /\ SentIsHeld

-----------------------------------------------------------------------------
(* Positions in a sequence. *)

LEMMA MinOf ==
  ASSUME NEW S \in SUBSET Nat, S # {}
  PROVE  Min(S) \in S /\ \A y \in S : Min(S) <= y
<1>1. PICK x \in S : \A y \in S : ~ (<<y, x>> \in OpToRel(<, Nat))
  BY NatLessThanWellFounded, WFMin, Zenon
<1>2. ASSUME NEW y \in S PROVE x <= y
  <2>1. x \in Nat /\ y \in Nat /\ ~ (y < x)
    BY <1>1 DEF OpToRel
  <2> QED BY <2>1
<1> QED BY <1>2 DEF Min

(* What holds behind the end, and at a place when it holds after it, holds everywhere. *)
LEMMA FromTheEnd ==
  ASSUME NEW len \in Nat, NEW S, len + 1 \in S,
         \A k \in 1 .. len : k + 1 \in S => k \in S
  PROVE  \A k \in 1 .. len + 1 : k \in S
<1> DEFINE D == {d \in Nat : d <= len /\ len + 1 - d \notin S}
<1>1. D = {}
  <2> SUFFICES ASSUME D # {} PROVE FALSE
    OBVIOUS
  <2>1. D \in SUBSET Nat
    OBVIOUS
  <2> HIDE DEF D
  <2>2. Min(D) \in D /\ \A d \in D : Min(D) <= d
    BY <2>1, MinOf
  <2>3. PICK d \in Nat : d \in D /\ \A e \in D : d <= e
    BY <2>1, <2>2
  <2>4. d <= len /\ len + 1 - d \notin S
    BY <2>3 DEF D
  <2>5. d # 0
    BY <2>4
  <2>6. d - 1 \notin D
    BY <2>3, <2>5
  <2>7. len + 1 - (d - 1) \in S
    BY <2>4, <2>5, <2>6 DEF D
  <2>8. len + 1 - d \in 1 .. len /\ (len + 1 - d) + 1 = len + 1 - (d - 1)
    BY <2>4, <2>5
  <2> QED BY <2>4, <2>7, <2>8
<1>2. ASSUME NEW k \in 1 .. len + 1, k \notin S PROVE FALSE
  <2>1. PICK d \in Nat : d <= len /\ len + 1 - d = k
    <3>1. len + 1 - k \in Nat /\ len + 1 - k <= len /\ len + 1 - (len + 1 - k) = k
      OBVIOUS
    <3> QED BY <3>1
  <2> QED BY <1>1, <1>2, <2>1
<1> QED BY <1>2

-----------------------------------------------------------------------------
(***************************************************************************)
(* currentConvEnd is recursive.  A comment comes before its responses, so  *)
(* there is a function that solves its equation, from the last comment to  *)
(* the first, and every such function leads to a comment that has no       *)
(* primary response.                                                       *)
(***************************************************************************)
Whole(convs) == convs \in Seq(Node) /\ Stitched(convs)

Step(convs, f, id) ==
  IF primaries(convs, id) = {} THEN id ELSE f[convs[Min(primaries(convs, id))].id]

LEMMA IdsAre ==
  ASSUME NEW convs, Whole(convs)
  PROVE  Ids(convs) \subseteq CommentId /\ \A id \in Ids(convs) : id \in Nat
<1>1. \A n \in DOMAIN convs : convs[n] \in Node
  BY DEF Whole
<1>2. Ids(convs) \subseteq CommentId
  BY <1>1 DEF Ids, Node
<1>3. CommentId \subseteq Nat
  BY ConversationsAssumption DEF CommentId
<1> QED BY <1>2, <1>3

LEMMA EndIs ==
  ASSUME NEW convs, NEW f, f = [id \in CommentId |-> Step(convs, f, id)]
  PROVE  currentConvEnd(convs) = [id \in CommentId |-> Step(convs, currentConvEnd(convs), id)]
BY DEF currentConvEnd, Step

(* The first primary response to a comment comes after it. *)
LEMMA ResponseIsLater ==
  ASSUME NEW convs, Whole(convs), NEW id \in CommentId, primaries(convs, id) # {}
  PROVE  LET first == Min(primaries(convs, id)) IN
           /\ first \in DOMAIN convs /\ convs[first].id \in CommentId
           /\ \E n \in 1 .. first - 1 : convs[n].id = id
<1>1. primaries(convs, id) \in SUBSET Nat
  BY DEF primaries, responses, Whole
<1>2. PICK first : first = Min(primaries(convs, id)) /\ first \in primaries(convs, id)
  BY <1>1, MinOf
<1>3. first \in DOMAIN convs /\ convs[first].under = id
  BY <1>2 DEF primaries, responses
<1>4. convs[first] \in Node
  BY <1>3 DEF Whole
<1>5. id # Root
  BY DEF CommentId, Root
<1>6. \E n \in 1 .. first - 1 : convs[n].id = id
  BY <1>3, <1>5 DEF Whole, Stitched
<1> QED BY <1>2, <1>3, <1>4, <1>6 DEF Node

LEMMA EndExists ==
  ASSUME NEW convs, Whole(convs)
  PROVE  currentConvEnd(convs) = [id \in CommentId |-> Step(convs, currentConvEnd(convs), id)]
<1> DEFINE len == Len(convs)
           After(k, id) == \A n \in DOMAIN convs : convs[n].id = id => n >= k
           S == {k \in Nat : \E f \in [CommentId -> CommentId] :
                   \A id \in CommentId : After(k, id) => f[id] = Step(convs, f, id)}
<1>1. len \in Nat /\ DOMAIN convs = 1 .. len /\ \A n \in 1 .. len : convs[n] \in Node
  BY DEF Whole
<1>2. \A m, n \in 1 .. len : convs[m].id = convs[n].id => m = n
  BY <1>1 DEF Whole, Stitched
<1> HIDE DEF len
<1>3. len + 1 \in S
  <2> DEFINE f == [id \in CommentId |-> id]
  <2>1. ASSUME NEW id \in CommentId, After(len + 1, id) PROVE primaries(convs, id) = {}
    <3> SUFFICES ASSUME primaries(convs, id) # {} PROVE FALSE
      OBVIOUS
    <3>1. PICK n \in DOMAIN convs : convs[n].id = id
      <4>1. PICK first : first = Min(primaries(convs, id))
        OBVIOUS
      <4>2. first \in DOMAIN convs /\ \E n \in 1 .. first - 1 : convs[n].id = id
        BY <4>1, ResponseIsLater
      <4> QED BY <1>1, <4>2
    <3> QED BY <1>1, <2>1, <3>1
  <2>2. f \in [CommentId -> CommentId]
    OBVIOUS
  <2>3. \A id \in CommentId : After(len + 1, id) => f[id] = Step(convs, f, id)
    BY <2>1 DEF Step
  <2> HIDE DEF f
  <2> QED BY <1>1, <2>2, <2>3
<1>4. ASSUME NEW k \in 1 .. len, k + 1 \in S PROVE k \in S
  <2>1. PICK f \in [CommentId -> CommentId] :
          \A id \in CommentId : After(k + 1, id) => f[id] = Step(convs, f, id)
    BY <1>4
  <2>2. PICK here : here = convs[k].id
    OBVIOUS
  <2>3. here \in CommentId
    BY <1>1, <2>2 DEF Node
  <2>4. ASSUME NEW id \in CommentId, After(k, id), primaries(convs, id) # {}
        PROVE  /\ convs[Min(primaries(convs, id))].id \in CommentId
               /\ convs[Min(primaries(convs, id))].id # here
    <3>1. PICK first : first = Min(primaries(convs, id))
      OBVIOUS
    <3>2. /\ first \in 1 .. len /\ convs[first].id \in CommentId
          /\ \E n \in 1 .. first - 1 : convs[n].id = id
      BY <1>1, <2>4, <3>1, ResponseIsLater
    <3>3. PICK n \in 1 .. first - 1 : convs[n].id = id
      BY <3>2
    <3>4. n >= k
      BY <1>1, <2>4, <3>2, <3>3
    <3>5. first # k
      BY <1>1, <3>2, <3>3, <3>4
    <3> QED BY <1>2, <2>2, <3>1, <3>2, <3>5
  <2>5. PICK g : g = [f EXCEPT ![here] = Step(convs, f, here)]
    OBVIOUS
  <2>6. After(k, here)
    BY <1>1, <1>2, <2>2
  <2>7. Step(convs, f, here) \in CommentId
    BY <2>3, <2>4, <2>6 DEF Step
  <2>8. g \in [CommentId -> CommentId] /\ g[here] = Step(convs, f, here)
          /\ \A id \in CommentId \ {here} : g[id] = f[id]
    BY <2>3, <2>5, <2>7
  <2>9. \A id \in CommentId : After(k, id) => Step(convs, g, id) = Step(convs, f, id)
    BY <2>4, <2>8 DEF Step
  <2>10. \A id \in CommentId \ {here} : After(k, id) => After(k + 1, id)
    BY <1>1, <2>2
  <2>11. \A id \in CommentId : After(k, id) => g[id] = Step(convs, g, id)
    BY <2>1, <2>8, <2>9, <2>10
  <2> QED BY <1>1, <2>8, <2>11
<1>5. 1 \in S
  <2> HIDE DEF S
  <2>1. \A k \in 1 .. len + 1 : k \in S
    BY <1>1, <1>3, <1>4, FromTheEnd
  <2> QED BY <1>1, <2>1
<1>6. PICK f \in [CommentId -> CommentId] :
        \A id \in CommentId : After(1, id) => f[id] = Step(convs, f, id)
  BY <1>5
<1>7. \A id \in CommentId : After(1, id)
  BY <1>1
<1>8. f = [id \in CommentId |-> Step(convs, f, id)]
  BY <1>6, <1>7
<1> QED BY <1>8, EndIs

(* In every forest of comments currentConvEnd stops, at one of them that   *)
(* has no primary response: there a new comment forks nothing.             *)
THEOREM EndOfConv ==
  ASSUME NEW convs, Whole(convs), NEW id \in Ids(convs)
  PROVE  /\ currentConvEnd(convs)[id] \in Ids(convs)
         /\ primaries(convs, currentConvEnd(convs)[id]) = {}
<1> DEFINE len == Len(convs)
<1>1. PICK End : End = currentConvEnd(convs)
  OBVIOUS
<1> DEFINE Ends(n) == End[convs[n].id] \in Ids(convs) /\ primaries(convs, End[convs[n].id]) = {}
           S == {k \in Nat : \A n \in k .. len : Ends(n)}
<1>2. len \in Nat /\ DOMAIN convs = 1 .. len
        /\ \A n \in 1 .. len : convs[n].id \in CommentId /\ convs[n].id \in Ids(convs)
  <2>1. len \in Nat /\ DOMAIN convs = 1 .. len /\ \A n \in 1 .. len : convs[n] \in Node
    BY DEF Whole
  <2> QED BY <2>1 DEF Node, Ids
<1>3. \A m, n \in 1 .. len : convs[m].id = convs[n].id => m = n
  BY <1>2 DEF Whole, Stitched
<1>4. \A i \in CommentId : End[i] = IF primaries(convs, i) = {} THEN i
                                    ELSE End[convs[Min(primaries(convs, i))].id]
  BY <1>1, EndExists DEF Step
<1> HIDE DEF len
<1>5. len + 1 \in S
  BY <1>2
<1>6. ASSUME NEW k \in 1 .. len, k + 1 \in S PROVE k \in S
  <2>1. \A n \in k + 1 .. len : Ends(n)
    BY <1>6
  <2>2. Ends(k)
    <3>1. CASE primaries(convs, convs[k].id) = {}
      BY <1>2, <1>4, <3>1
    <3>2. CASE primaries(convs, convs[k].id) # {}
      <4>1. PICK first : first = Min(primaries(convs, convs[k].id))
        OBVIOUS
      <4>2. first \in 1 .. len /\ \E n \in 1 .. first - 1 : convs[n].id = convs[k].id
        BY <1>2, <3>2, <4>1, ResponseIsLater
      <4>3. PICK n \in 1 .. first - 1 : convs[n].id = convs[k].id
        BY <4>2
      <4>4. n = k
        BY <1>2, <1>3, <4>2, <4>3
      <4>5. first \in k + 1 .. len
        BY <1>2, <4>2, <4>3, <4>4
      <4>6. End[convs[k].id] = End[convs[first].id]
        BY <1>2, <1>4, <3>2, <4>1
      <4>7. Ends(first)
        BY <2>1, <4>5
      <4> QED BY <4>6, <4>7
    <3> QED BY <3>1, <3>2
  <2>3. \A n \in k .. len : n = k \/ n \in k + 1 .. len
    BY <1>2
  <2> HIDE DEF Ends
  <2> QED BY <1>2, <2>1, <2>2, <2>3
<1>7. \A n \in 1 .. len : Ends(n)
  <2> HIDE DEF S
  <2>1. \A k \in 1 .. len + 1 : k \in S
    BY <1>2, <1>5, <1>6, FromTheEnd
  <2>2. 1 \in S
    BY <1>2, <2>1
  <2> QED BY <2>2 DEF S
<1>8. PICK n \in 1 .. len : convs[n].id = id
  BY <1>2 DEF Ids
<1> QED BY <1>1, <1>7, <1>8

-----------------------------------------------------------------------------
(* What the events do to a forest. *)

(* doAdd puts a comment below one that is there, and a primary response *)
(* below one that has no other.                                         *)
LEMMA ParentIs ==
  ASSUME NEW convs, Whole(convs), NEW comment \in Comment
  PROVE  /\ parentOf(convs, comment) \in Ids(convs) \union {Root}
         /\ comment.primary /\ parentOf(convs, comment) # Root
              => primaries(convs, parentOf(convs, comment)) = {}
<1> DEFINE to == comment.responseTo
<1>1. CASE to \notin Ids(convs)
  BY <1>1 DEF parentOf
<1>2. CASE to \in Ids(convs) /\ comment.primary /\ responses(convs, to) # {}
  <2>1. parentOf(convs, comment) = currentConvEnd(convs)[to]
    BY <1>2 DEF parentOf
  <2> QED BY <1>2, <2>1, EndOfConv
<1>3. CASE to \in Ids(convs) /\ ~(comment.primary /\ responses(convs, to) # {})
  <2>1. parentOf(convs, comment) = to
    BY <1>3 DEF parentOf
  <2> QED BY <1>3, <2>1 DEF primaries
<1> QED BY <1>1, <1>2, <1>3

LEMMA AddIsWhole ==
  ASSUME NEW convs, Whole(convs), NEW comment \in Comment, comment.id \notin Ids(convs),
         NEW new, new = doAdd(convs, comment)
  PROVE  /\ Whole(new) /\ Ids(new) = Ids(convs) \union {comment.id}
         /\ Len(new) = Len(convs) + 1 /\ Front(new) = convs
         /\ Last(new) = NodeOf(comment, parentOf(convs, comment))
         /\ OneMain(convs) => OneMain(new)
<1> DEFINE len == Len(convs)
<1>1. PICK under : under = parentOf(convs, comment)
  OBVIOUS
<1>2. PICK node : node = NodeOf(comment, under)
  OBVIOUS
<1>3. /\ under \in Ids(convs) \union {Root}
      /\ comment.primary /\ under # Root => primaries(convs, under) = {}
  BY <1>1, ParentIs
<1>4. convs \in Seq(Node) /\ len \in Nat /\ DOMAIN convs = 1 .. len
        /\ \A n \in 1 .. len : convs[n] \in Node
  BY DEF Whole
<1>5. node \in Node /\ node.id = comment.id /\ node.under = under /\ node.primary = comment.primary
  <2>1. Ids(convs) \subseteq CommentId
    BY <1>4 DEF Ids, Node
  <2> QED BY <1>2, <1>3, <2>1 DEF NodeOf, Node, Comment
<1>6. new = Append(convs, node)
  BY <1>1, <1>2 DEF doAdd
<1>7. /\ new \in Seq(Node) /\ Len(new) = len + 1 /\ DOMAIN new = 1 .. len + 1
      /\ \A n \in 1 .. len : new[n] = convs[n]
      /\ new[len + 1] = node
  BY <1>4, <1>5, <1>6
<1> HIDE DEF len
<1>8. Front(new) = convs
  <2>1. Front(new) = SubSeq(new, 1, len)
    BY <1>4, <1>7 DEF Front
  <2>2. Len(Front(new)) = len /\ \A n \in 1 .. len : Front(new)[n] = new[n]
    BY <1>4, <1>7, <2>1
  <2>3. Front(new) \in Seq(Node)
    BY <1>4, <1>7, <2>1
  <2> QED BY <1>4, <1>7, <2>2, <2>3 DEF len
<1>9. Ids(new) = Ids(convs) \union {comment.id}
  BY <1>4, <1>5, <1>7 DEF Ids
<1>10. Stitched(new)
  <2>1. ASSUME NEW m \in 1 .. len + 1, NEW n \in 1 .. len + 1, new[m].id = new[n].id
        PROVE  m = n
    <3>1. \A i \in 1 .. len : convs[i].id # comment.id
      BY <1>4 DEF Ids
    <3>2. \A i, j \in 1 .. len : convs[i].id = convs[j].id => i = j
      BY <1>4 DEF Whole, Stitched
    <3> QED BY <1>4, <1>5, <1>7, <2>1, <3>1, <3>2
  <2>2. ASSUME NEW n \in 1 .. len + 1
        PROVE  new[n].under = Root \/ \E m \in 1 .. n - 1 : new[m].id = new[n].under
    <3>1. CASE n \in 1 .. len
      <4>1. convs[n].under = Root \/ \E m \in 1 .. n - 1 : convs[m].id = convs[n].under
        BY <1>4, <3>1 DEF Whole, Stitched
      <4> QED BY <1>4, <1>7, <3>1, <4>1
    <3>2. CASE n = len + 1 /\ under # Root
      <4>1. PICK m \in 1 .. len : convs[m].id = under
        BY <1>3, <1>4, <3>2 DEF Ids
      <4> QED BY <1>4, <1>5, <1>7, <3>2, <4>1
    <3> QED BY <1>4, <1>5, <1>7, <3>1, <3>2
  <2> QED BY <1>7, <2>1, <2>2 DEF Stitched
<1>11. ASSUME OneMain(convs), NEW id \in CommentId,
              NEW m \in primaries(new, id), NEW n \in primaries(new, id)
       PROVE  m = n
  <2>1. \A i : i \in primaries(new, id)
                 <=> i \in primaries(convs, id) \/ (i = len + 1 /\ under = id /\ comment.primary)
    BY <1>4, <1>5, <1>7 DEF primaries, responses
  <2>2. CASE under = id /\ comment.primary
    <3>1. primaries(convs, id) = {}
      BY <1>3, <2>2 DEF CommentId, Root
    <3> QED BY <1>11, <2>1, <3>1
  <2>3. CASE ~(under = id /\ comment.primary)
    BY <1>11, <2>1, <2>3 DEF OneMain
  <2> QED BY <2>2, <2>3
<1> QED BY <1>1, <1>2, <1>7, <1>8, <1>9, <1>10, <1>11 DEF Whole, Last, OneMain, len

LEMMA DeleteIsWhole ==
  ASSUME NEW convs, Whole(convs), NEW id, NEW new, new = doDelete(convs, id)
  PROVE  /\ Whole(new) /\ Ids(new) = Ids(convs)
         /\ new = convs \/ \E n \in DOMAIN convs : new = [convs EXCEPT ![n].isDeleted = TRUE]
         /\ OneMain(convs) => OneMain(new)
<1> DEFINE len == Len(convs)
<1>1. convs \in Seq(Node) /\ len \in Nat /\ DOMAIN convs = 1 .. len
        /\ \A n \in 1 .. len : convs[n] \in Node
  BY DEF Whole
<1>2. \A m, n \in 1 .. len : convs[m].id = convs[n].id => m = n
  BY <1>1 DEF Whole, Stitched
<1> HIDE DEF len
<1>3. /\ new = [n \in 1 .. len |-> new[n]]
      /\ \A n \in 1 .. len :
           new[n] = IF convs[n].id = id THEN [convs[n] EXCEPT !.isDeleted = TRUE] ELSE convs[n]
  BY <1>1 DEF doDelete
<1>4. \A n \in 1 .. len : /\ new[n] \in Node /\ new[n].id = convs[n].id
                          /\ new[n].under = convs[n].under /\ new[n].primary = convs[n].primary
  <2>1. \A c \in Node : LET d == [c EXCEPT !.isDeleted = TRUE]
                       IN  d \in Node /\ d.id = c.id /\ d.under = c.under /\ d.primary = c.primary
    BY DEF Node
  <2> TAKE n \in 1 .. len
  <2>2. convs[n] \in Node /\ (new[n] = [convs[n] EXCEPT !.isDeleted = TRUE] \/ new[n] = convs[n])
    BY <1>1, <1>3
  <2> QED BY <2>1, <2>2, Zenon
<1>5. new \in Seq(Node) /\ DOMAIN new = 1 .. len
  <2>1. new \in [1 .. len -> Node]
    BY <1>3, <1>4
  <2> QED BY <1>1, <2>1
<1>6. Stitched(new)
  BY <1>1, <1>4, <1>5 DEF Whole, Stitched
<1>7. Ids(new) = Ids(convs)
  BY <1>1, <1>4, <1>5 DEF Ids
<1>8. new = convs \/ \E n \in DOMAIN convs : new = [convs EXCEPT ![n].isDeleted = TRUE]
  <2>1. CASE \A n \in 1 .. len : convs[n].id # id
    <3>1. new = [n \in 1 .. len |-> convs[n]]
      BY <1>3, <2>1
    <3>2. convs = [n \in 1 .. len |-> convs[n]]
      BY <1>1
    <3> QED BY <3>1, <3>2
  <2>2. ASSUME NEW n \in 1 .. len, convs[n].id = id
        PROVE  new = [convs EXCEPT ![n].isDeleted = TRUE]
    <3>1. \A m \in 1 .. len : convs[m].id = id <=> m = n
      BY <1>2, <2>2
    <3> QED BY <1>1, <1>3, <3>1
  <2> QED BY <1>1, <2>1, <2>2
<1>9. \A i : primaries(new, i) = primaries(convs, i)
  BY <1>1, <1>4, <1>5 DEF primaries, responses
<1> QED BY <1>5, <1>6, <1>7, <1>8, <1>9 DEF Whole, OneMain

(* The same, as OneMainLine counts it. *)
LEMMA MainIsOne ==
  ASSUME NEW convs, Whole(convs), NEW id
  PROVE  Cardinality(primaries(convs, id)) <= 1
           <=> \A m, n \in primaries(convs, id) : m = n
<1> DEFINE P == primaries(convs, id)
<1>1. IsFiniteSet(P)
  <2>1. Len(convs) \in Nat /\ P \in SUBSET (1 .. Len(convs))
    BY DEF Whole, primaries, responses
  <2> HIDE DEF P
  <2>2. IsFiniteSet(1 .. Len(convs))
    BY <2>1, FS_Interval
  <2> QED BY <2>1, <2>2, FS_Subset
<1> HIDE DEF P
<1>2. Cardinality(P) \in Nat
  BY <1>1, FS_CardinalityType
<1>3. ASSUME \A m, n \in P : m = n PROVE Cardinality(P) <= 1
  <2>1. CASE P = {}
    BY <2>1, FS_EmptySet
  <2>2. ASSUME NEW m \in P PROVE Cardinality(P) <= 1
    <3>1. P = {m}
      BY <1>3
    <3>2. Cardinality({m}) = 1
      BY FS_Singleton
    <3> QED BY <3>1, <3>2
  <2> QED BY <2>1, <2>2
<1>4. ASSUME Cardinality(P) <= 1, NEW m \in P, NEW n \in P PROVE m = n
  <2>1. CASE Cardinality(P) = 0
    BY <1>1, <2>1, FS_EmptySet
  <2>2. CASE Cardinality(P) = 1
    BY <1>1, <2>2, FS_Singleton
  <2> QED BY <1>2, <1>4, <2>1, <2>2
<1> QED BY <1>3, <1>4 DEF P

-----------------------------------------------------------------------------
(* What requests a child has. *)

LEMMA MailOfOne ==
  ASSUME NEW c, NEW msg, IsRequest(msg), Asked(msg), ~Handles(c, msg.post)
  PROVE  /\ MailTyped(<<msg>>) /\ OnceEach(c, <<msg>>)
         /\ \A p : Asks(<<msg>>, p) <=> msg.post = p
<1>1. PICK box : box = <<msg>>
  OBVIOUS
<1>2. Len(box) = 1 /\ \A n \in 1 .. 1 : box[n] = msg
  BY <1>1
<1>3. ~IsState(msg)
  BY DEF IsState, IsRequest, RequestType
<1>4. \A p : Asks(box, p) <=> msg.post = p
  BY <1>2 DEF Asks
<1>5. MailTyped(box)
  BY <1>2, <1>3 DEF MailTyped
<1>6. OnceEach(c, box)
  BY <1>2, <1>4 DEF OnceEach
<1> QED BY <1>1, <1>4, <1>5, <1>6

LEMMA MailGrows ==
  ASSUME NEW c, NEW box, IsSeq(box), MailTyped(box), OnceEach(c, box), NEW msg,
         IsRequest(msg) => Asked(msg) /\ ~Holds(c, box, msg.post),
         IsState(msg) => msg.state \in 0 .. MaxVersions
  PROVE  /\ MailTyped(Append(box, msg)) /\ OnceEach(c, Append(box, msg))
         /\ \A p : Asks(Append(box, msg), p) <=> Asks(box, p) \/ (IsRequest(msg) /\ msg.post = p)
<1> DEFINE new == Append(box, msg)
           len == Len(box)
<1>1. len \in Nat /\ Len(new) = len + 1
        /\ (\A n \in 1 .. len : new[n] = box[n]) /\ new[len + 1] = msg
  BY AppendIs
<1> HIDE DEF new, len
<1>2. MailTyped(new)
  BY <1>1 DEF MailTyped, len
<1>3. \A p : Asks(new, p) <=> Asks(box, p) \/ (IsRequest(msg) /\ msg.post = p)
  BY <1>1 DEF Asks, len
<1>4. OnceEach(c, new)
  <2>1. \A p : Handles(c, p) => ~Asks(new, p)
    BY <1>3 DEF OnceEach, Holds
  <2>2. ASSUME NEW m \in 1 .. len + 1, NEW n \in 1 .. len + 1, IsRequest(new[m]),
               IsRequest(new[n]), new[m].post = new[n].post
        PROVE  m = n
    <3>1. IsRequest(msg) => \A i \in 1 .. len : IsRequest(box[i]) => box[i].post # msg.post
      BY DEF Holds, Asks, len
    <3> QED BY <1>1, <2>2, <3>1 DEF OnceEach, len
  <2> QED BY <1>1, <2>1, <2>2 DEF OnceEach
<1> QED BY <1>2, <1>3, <1>4 DEF new

LEMMA MailShrinks ==
  ASSUME NEW c, NEW box, IsSeq(box), box # <<>>, MailTyped(box), OnceEach(c, box),
         NEW msg, msg = Head(box)
  PROVE  /\ MailTyped(Tail(box)) /\ OnceEach(c, Tail(box))
         /\ IsState(msg) => msg.state \in 0 .. MaxVersions
         /\ IsRequest(msg) => Asked(msg) /\ ~Holds(c, Tail(box), msg.post)
         /\ \A p : Asks(box, p) <=> Asks(Tail(box), p) \/ (IsRequest(msg) /\ msg.post = p)
<1> DEFINE new == Tail(box)
           len == Len(box)
<1>1. len \in Nat \ {0} /\ Len(new) = len - 1 /\ (\A n \in 1 .. len - 1 : new[n] = box[n + 1])
        /\ msg = box[1]
  BY TailIs
<1> HIDE DEF new, len
<1>2. MailTyped(new) /\ (IsState(msg) => msg.state \in 0 .. MaxVersions)
        /\ (IsRequest(msg) => Asked(msg))
  BY <1>1 DEF MailTyped, len
<1>3. \A p : Asks(box, p) <=> Asks(new, p) \/ (IsRequest(msg) /\ msg.post = p)
  <2>1. ASSUME NEW n \in 1 .. len, n # 1 PROVE n - 1 \in 1 .. len - 1 /\ new[n - 1] = box[n]
    <3>1. n - 1 \in 1 .. len - 1 /\ (n - 1) + 1 = n
      BY <1>1, <2>1
    <3> QED BY <1>1, <3>1
  <2>2. ASSUME NEW p, Asks(box, p) PROVE Asks(new, p) \/ (IsRequest(msg) /\ msg.post = p)
    <3>1. PICK n \in 1 .. len : IsRequest(box[n]) /\ box[n].post = p
      BY <2>2 DEF Asks, len
    <3> QED BY <1>1, <2>1, <3>1 DEF Asks
  <2>3. ASSUME NEW p, Asks(new, p) PROVE Asks(box, p)
    <3>1. PICK n \in 1 .. len - 1 : IsRequest(new[n]) /\ new[n].post = p
      BY <1>1, <2>3 DEF Asks
    <3>2. n + 1 \in 1 .. len /\ new[n] = box[n + 1]
      BY <1>1
    <3> QED BY <3>1, <3>2 DEF Asks, len
  <2>4. IsRequest(msg) => Asks(box, msg.post)
    BY <1>1 DEF Asks, len
  <2> QED BY <2>2, <2>3, <2>4
<1>4. IsRequest(msg) => ~Holds(c, new, msg.post)
  <2> SUFFICES ASSUME IsRequest(msg) PROVE ~Holds(c, new, msg.post)
    OBVIOUS
  <2>1. ~Handles(c, msg.post)
    BY <1>3 DEF OnceEach
  <2>2. ASSUME NEW n \in 1 .. len - 1, IsRequest(new[n]), new[n].post = msg.post PROVE FALSE
    <3>1. n + 1 \in 1 .. len /\ 1 \in 1 .. len /\ new[n] = box[n + 1] /\ n + 1 # 1
      BY <1>1
    <3> QED BY <1>1, <2>2, <3>1 DEF OnceEach, len
  <2> QED BY <1>1, <2>1, <2>2 DEF Holds, Asks
<1>5. OnceEach(c, new)
  <2>1. \A p : Handles(c, p) => ~Asks(new, p)
    BY <1>3 DEF OnceEach
  <2>2. ASSUME NEW m \in 1 .. len - 1, NEW n \in 1 .. len - 1, IsRequest(new[m]),
               IsRequest(new[n]), new[m].post = new[n].post
        PROVE  m = n
    <3>1. m + 1 \in 1 .. len /\ n + 1 \in 1 .. len /\ new[m] = box[m + 1] /\ new[n] = box[n + 1]
      BY <1>1
    <3>2. m + 1 = n + 1
      BY <2>2, <3>1 DEF OnceEach, len
    <3> QED BY <3>2
  <2> QED BY <1>1, <2>1, <2>2 DEF OnceEach
<1> QED BY <1>2, <1>3, <1>4, <1>5 DEF new

-----------------------------------------------------------------------------
(* What the steps have in common. *)

LEMMA AnswerTyped ==
  ASSUME IInv, Counted, NEW p, NEW answer, Respond(p, answer), answer.type \in Outcomes
  PROVE  \A q \in Request : /\ outcome'[q] = IF q = p THEN answer ELSE outcome[q]
                            /\ outcome'[q].type \in Outcomes
<1>1. outcome = [q \in Request |-> outcome[q]]
  BY DEF IInv, SpaceType
<1>2. \A q \in Request : outcome'[q] = IF q = p THEN answer ELSE outcome[q]
  BY <1>1 DEF Respond
<1> QED BY <1>2 DEF Counted

LEMMA LoseTyped ==
  ASSUME Counted, NEW posts, Lose(posts)
  PROVE  \A q \in Request : /\ outcome'[q].type = IF q \in posts THEN "lost" ELSE outcome[q].type
                            /\ outcome'[q].type \in Outcomes
<1>1. "lost" \in Outcomes
  BY DEF Outcomes
<1> QED BY <1>1 DEF Lose, Counted

LEMMA JournalStays ==
  ASSUME JournalWhole, UNCHANGED journal, version' = 0 => version = 0
  PROVE  JournalWhole'
BY DEF JournalWhole

LEMMA JournalOfConvs ==
  ASSUME JournalWhole
  PROVE  /\ Whole(journal.conversations) /\ journal.nextId \in Nat
         /\ journal = [conversations |-> journal.conversations, nextId |-> journal.nextId]
BY DEF JournalWhole, Whole, Memory

(* Who does not run has no requests; so a request that is sent is with the *)
(* one that does.                                                          *)
LEMMA HoldsNothing ==
  ASSUME IInv, NEW k \in Children, ~Running(k), NEW p
  PROVE  ~Holds(child[k], mailbox[k], p)
<1>1. mailbox[k] = <<>> /\ child[k].phase \in {"unborn", "dead"}
  BY DEF IInv, ManagedRuns, Running
<1> QED BY <1>1 DEF Holds, Asks, Handles

LEMMA HeldByOne ==
  ASSUME IInv, BInv, NEW k \in Children, \A j \in Children \ {k} : ~Running(j)
  PROVE  \A p \in Request : outcome[p].type = "sent" <=> Holds(child[k], mailbox[k], p)
BY HoldsNothing DEF BInv, SentIsHeld

(* The child k becomes c, with box for its mail; the others rest. *)
LEMMA OneGoesOn ==
  ASSUME IInv, BInv, NEW k \in Children, \A j \in Children \ {k} : ~Running(j),
         NEW c, NEW box, child' = [child EXCEPT ![k] = c], mailbox' = [mailbox EXCEPT ![k] = box],
         ChildTyped(c), MailTyped(box), OnceEach(c, box),
         \A p \in Request : outcome'[p].type = "sent" <=> Holds(c, box, p)
  PROVE  ChildrenWhole' /\ SentIsHeld'
<1>1. \A j \in Children : /\ child'[j] = (IF j = k THEN c ELSE child[j])
                          /\ mailbox'[j] = IF j = k THEN box ELSE mailbox[j]
  BY DEF IInv, ChildType, FamilyType
<1>2. ChildrenWhole'
  BY <1>1 DEF BInv, ChildrenWhole
<1>3. \A p \in Request, j \in Children :
        Holds(child'[j], mailbox'[j], p) <=> j = k /\ Holds(c, box, p)
  BY <1>1, HoldsNothing
<1> QED BY <1>2, <1>3 DEF SentIsHeld

LEMMA NobodyMoves ==
  ASSUME BInv, UNCHANGED <<child, mailbox>>,
         \A p \in Request : outcome'[p].type = "sent" <=> outcome[p].type = "sent"
  PROVE  ChildrenWhole' /\ SentIsHeld'
<1>1. ChildrenWhole'
  BY DEF BInv, ChildrenWhole
<1>2. SentIsHeld'
  BY DEF BInv, SentIsHeld
<1> QED BY <1>1, <1>2

LEMMA RunningMail ==
  ASSUME IInv, NEW k \in Children, Running(k)
  PROVE  IsSeq(mailbox[k]) /\ \A n \in 1 .. Len(mailbox[k]) : MsgOK(mailbox[k][n], Placed)
BY DEF IInv, MailInOrder, BoxOK

(* A message that is not a request, to the child that runs. *)
LEMMA MailForOne ==
  ASSUME IInv, BInv, NEW msg, ~IsRequest(msg), IsState(msg) => msg.state \in 0 .. MaxVersions,
         \A k \in Children :
           mailbox'[k] = IF Running(k) THEN Append(mailbox[k], msg) ELSE mailbox[k],
         UNCHANGED <<child, outcome>>
  PROVE  ChildrenWhole' /\ SentIsHeld'
<1>1. ASSUME NEW k \in Children
      PROVE  /\ MailTyped(mailbox'[k]) /\ OnceEach(child[k], mailbox'[k])
             /\ \A p : Asks(mailbox'[k], p) <=> Asks(mailbox[k], p)
  <2>1. MailTyped(mailbox[k]) /\ OnceEach(child[k], mailbox[k])
    BY DEF BInv, ChildrenWhole
  <2>2. CASE Running(k)
    <3>1. PICK c, box : c = child[k] /\ box = mailbox[k]
      OBVIOUS
    <3>2. IsSeq(box) /\ MailTyped(box) /\ OnceEach(c, box)
      BY <2>1, <2>2, <3>1, RunningMail
    <3>3. /\ MailTyped(Append(box, msg)) /\ OnceEach(c, Append(box, msg))
          /\ \A p : Asks(Append(box, msg), p) <=> Asks(box, p)
      BY <3>2, MailGrows
    <3>4. mailbox'[k] = Append(box, msg)
      BY <2>2, <3>1
    <3> QED BY <3>1, <3>3, <3>4
  <2>3. CASE ~Running(k)
    BY <2>1, <2>3
  <2> QED BY <2>2, <2>3
<1>2. ChildrenWhole'
  BY <1>1 DEF BInv, ChildrenWhole
<1>3. SentIsHeld'
  BY <1>1 DEF BInv, SentIsHeld, Holds
<1> QED BY <1>2, <1>3

(* A comment that is new in the journal or deleted from it. *)
StoresOne ==
  LET old == journal.conversations
      new == journal'.conversations
  IN
  \/ new = old
  \/ \E n \in DOMAIN old : new = [old EXCEPT ![n].isDeleted = TRUE]
  \/ \E comment \in Comment, under \in Ids(old) \union {Root} :
       /\ comment.id \notin Ids(old)
       /\ Len(new) = Len(old) + 1 /\ Front(new) = old /\ Last(new) = NodeOf(comment, under)

LEMMA StoreIsWhole ==
  ASSUME IInv, BInv, NEW k \in Children, child[k].phase = "persisting", Store(child[k].event),
         UNCHANGED version
  PROVE  JournalWhole' /\ StoresOne
<1>1. PICK convs, nextId : convs = journal.conversations /\ nextId = journal.nextId
  OBVIOUS
<1>2. Whole(convs) /\ nextId \in Nat /\ journal = [conversations |-> convs, nextId |-> nextId]
        /\ nextId # 0 /\ (\A id \in Ids(convs) : id < nextId)
        /\ (OneMain(OldConvs) => OneMain(convs))
  BY <1>1, JournalOfConvs DEF BInv, JournalWhole
<1>3. version' # 0
  BY OthersRest DEF Running
<1>4. PICK event : event = child[k].event
  OBVIOUS
<1>5. event \in Events
  BY <1>4 DEF BInv, ChildrenWhole, ChildTyped
<1>6. ASSUME NEW comment, event = DHAddComment(comment), comment.id = nextId
      PROVE  JournalWhole' /\ StoresOne
  <2>1. comment \in Comment
    BY <1>5, <1>6 DEF Events, NoEvent, DHConvs, DHAddComment, DHDeleteComment
  <2>2. comment.id \notin Ids(convs)
    BY <1>2, <1>6
  <2>3. PICK new : new = doAdd(convs, comment)
    OBVIOUS
  <2>4. /\ Whole(new) /\ Ids(new) = Ids(convs) \union {comment.id}
        /\ Len(new) = Len(convs) + 1 /\ Front(new) = convs
        /\ Last(new) = NodeOf(comment, parentOf(convs, comment))
        /\ OneMain(convs) => OneMain(new)
    BY <1>2, <2>1, <2>2, <2>3, AddIsWhole
  <2>5. event.type = "DHAddComment" /\ event.comment = comment
    BY <1>6 DEF DHAddComment
  <2>6. journal' = [conversations |-> new, nextId |-> nextId + 1]
    BY <1>2, <1>4, <1>6, <2>3, <2>5, NextIdOfComment DEF Store, recover
  <2>7. JournalWhole'
    <3>1. \A id \in Ids(new) : id < nextId + 1
      <4>1. \A id \in Ids(convs) : id \in Nat
        BY <1>2, IdsAre
      <4> QED BY <1>2, <1>6, <2>4, <4>1
    <3>2. journal'.conversations = new /\ journal'.nextId = nextId + 1 /\ journal' \in Memory
      BY <1>2, <2>4, <2>6 DEF Memory, Whole
    <3> QED BY <1>2, <1>3, <2>4, <3>1, <3>2 DEF JournalWhole, Whole
  <2>8. parentOf(convs, comment) \in Ids(convs) \union {Root}
    BY <1>2, <2>1, ParentIs
  <2>9. StoresOne
    BY <1>1, <2>1, <2>2, <2>4, <2>6, <2>8 DEF StoresOne
  <2> QED BY <2>7, <2>9
<1>7. ASSUME NEW id, event = DHDeleteComment(id)
      PROVE  JournalWhole' /\ StoresOne
  <2>1. PICK new : new = doDelete(convs, id)
    OBVIOUS
  <2>2. /\ Whole(new) /\ Ids(new) = Ids(convs)
        /\ new = convs \/ \E n \in DOMAIN convs : new = [convs EXCEPT ![n].isDeleted = TRUE]
        /\ OneMain(convs) => OneMain(new)
    BY <1>2, <2>1, DeleteIsWhole
  <2>3. event.type = "DHDeleteComment" /\ event.id = id
    BY <1>7 DEF DHDeleteComment
  <2>4. journal' = [conversations |-> new, nextId |-> nextId]
    BY <1>2, <1>4, <2>1, <2>3 DEF Store, recover
  <2>5. JournalWhole'
    BY <1>2, <1>3, <2>2, <2>4 DEF JournalWhole, Memory, Whole
  <2>6. StoresOne
    BY <1>1, <2>2, <2>4 DEF StoresOne
  <2> QED BY <2>5, <2>6
<1>8. \/ \E comment : event = DHAddComment(comment) /\ comment.id = nextId
      \/ \E id : event = DHDeleteComment(id)
  BY <1>1, <1>4 DEF IInv, MemoryInStep, InStep
<1> QED BY <1>6, <1>7, <1>8

(* The fields of a child that has a new phase or another state of the Space. *)
LEMMA ChildExcept ==
  ASSUME NEW c, ChildShape(c), NEW v
  PROVE  /\ \A new : new = [c EXCEPT !.phase = v] =>
              /\ ChildShape(new) /\ new.phase = v /\ new.memory = c.memory
              /\ new.state = c.state /\ new.event = c.event /\ new.request = c.request
         /\ \A new : new = [c EXCEPT !.state = v] =>
              /\ ChildShape(new) /\ new.phase = c.phase /\ new.memory = c.memory
              /\ new.state = v /\ new.event = c.event /\ new.request = c.request
         /\ \A new : new = [c EXCEPT !.memory = v] =>
              /\ new.phase = c.phase /\ new.memory = v
              /\ new.state = c.state /\ new.event = c.event /\ new.request = c.request
<1>1. PICK phase, convs, nextId, s, event, request :
        c = AChild(phase, convs, nextId, s, event, request)
  BY ChildIs
<1>2. ASSUME NEW new, new = [c EXCEPT !.phase = v]
      PROVE  new = AChild(v, convs, nextId, s, event, request)
  BY <1>1, <1>2 DEF AChild
<1>3. ASSUME NEW new, new = [c EXCEPT !.state = v]
      PROVE  new = AChild(phase, convs, nextId, v, event, request)
  BY <1>1, <1>3 DEF AChild
<1>4. ASSUME NEW new, new = [c EXCEPT !.memory = v]
      PROVE  new = [phase |-> phase, memory |-> v, state |-> s, event |-> event,
                    request |-> request]
  BY <1>1, <1>4 DEF AChild
<1>5. /\ c.phase = phase /\ c.memory = [conversations |-> convs, nextId |-> nextId]
      /\ c.state = s /\ c.event = event /\ c.request = request
  BY <1>1 DEF AChild
<1>6. ASSUME NEW new, new = [c EXCEPT !.phase = v]
      PROVE  /\ ChildShape(new) /\ new.phase = v /\ new.memory = c.memory
             /\ new.state = c.state /\ new.event = c.event /\ new.request = c.request
  BY <1>2, <1>5, <1>6, ChildIs DEF AChild
<1>7. ASSUME NEW new, new = [c EXCEPT !.state = v]
      PROVE  /\ ChildShape(new) /\ new.phase = c.phase /\ new.memory = c.memory
             /\ new.state = v /\ new.event = c.event /\ new.request = c.request
  BY <1>3, <1>5, <1>7, ChildIs DEF AChild
<1> QED BY <1>4, <1>5, <1>6, <1>7

-----------------------------------------------------------------------------
(* Each action keeps the invariant. *)

LEMMA InitBInv == Init => BInv
<1> SUFFICES ASSUME Init PROVE BInv
  OBVIOUS
<1>1. Counted
  BY ConversationsAssumption DEF Init, RoutingInit, Counted, Outcomes
<1>2. journal = [conversations |-> <<>>, nextId |-> 1]
  BY DEF Init, NoMemory
<1>3. JournalWhole
  <2>1. PICK convs : convs = <<>>
    OBVIOUS
  <2>2. /\ convs \in Seq(Node) /\ DOMAIN convs = {}
        /\ journal = [conversations |-> convs, nextId |-> 1]
    BY <1>2, <2>1
  <2>3. Stitched(convs) /\ Ids(convs) = {} /\ OneMain(convs)
    BY <2>2 DEF Stitched, Ids, OneMain, primaries, responses
  <2> QED BY <2>1, <2>2, <2>3 DEF JournalWhole, Memory
<1>4. \A k \in Children : child[k] = Unborn /\ mailbox[k] = <<>>
  BY DEF Init, RoutingInit
<1>5. ChildTyped(Unborn)
  <2>1. /\ Unborn.phase = "unborn" /\ Unborn.memory = NoMemory
        /\ Unborn.state = 0 /\ Unborn.event = NoEvent
    BY DEF Unborn
  <2>2. NoMemory \in Memory
    BY DEF NoMemory, Memory
  <2> QED BY <2>1, <2>2, ConversationsAssumption DEF ChildTyped, Phase, Events
<1>6. \A p : ~Handles(Unborn, p) /\ ~Asks(<<>>, p)
  BY DEF Handles, Asks, Unborn
<1>7. ChildrenWhole
  BY <1>4, <1>5, <1>6 DEF ChildrenWhole, MailTyped, OnceEach
<1>8. SentIsHeld
  BY <1>4, <1>6 DEF SentIsHeld, Holds, Init
<1> QED BY <1>1, <1>3, <1>7, <1>8 DEF BInv

LEMMA StutterBInv == BInv /\ UNCHANGED vars => BInv'
<1> SUFFICES ASSUME BInv, UNCHANGED vars PROVE BInv'
  OBVIOUS
<1>1. Counted' /\ JournalWhole'
  BY JournalStays DEF BInv, Counted, vars, routingVars
<1>2. ChildrenWhole' /\ SentIsHeld'
  BY NobodyMoves DEF vars, routingVars
<1> QED BY <1>1, <1>2 DEF BInv

(* The next id after the old comments is the id of none of them. *)
LEMMA NextIdAfter ==
  ASSUME NEW nextId \in Nat
  PROVE  /\ nextId <= fixNextId(nextId, OldConvs)
         /\ \A id \in Ids(OldConvs) : id < fixNextId(nextId, OldConvs)
<1> DEFINE S == {nextId} \union {id + 1 : id \in Ids(OldConvs)}
           bound == nextId + MaxId + 1
<1>1. Ids(OldConvs) \subseteq CommentId /\ \A id \in Ids(OldConvs) : id \in Nat
  BY ConversationsAssumption, IdsAre DEF Whole
<1>2. bound \in Nat /\ S \subseteq 0 .. bound
  BY <1>1, ConversationsAssumption DEF CommentId
<1> HIDE DEF bound
<1>3. Max(S) \in S /\ \A y \in S : Max(S) >= y
  BY <1>2, MaxOfBounded
<1>4. ASSUME NEW id \in Ids(OldConvs) PROVE id < Max(S)
  <2>1. id + 1 \in S /\ id \in Nat /\ Max(S) \in Nat
    BY <1>1, <1>2, <1>3
  <2>2. Max(S) >= id + 1
    BY <1>3, <2>1
  <2> HIDE DEF S
  <2> QED BY <2>1, <2>2
<1>5. nextId <= Max(S)
  <2>1. nextId \in S /\ Max(S) \in Nat
    BY <1>2, <1>3
  <2>2. Max(S) >= nextId
    BY <1>3, <2>1
  <2> HIDE DEF S
  <2> QED BY <2>1, <2>2
<1> QED BY <1>4, <1>5 DEF fixNextId

LEMMA RunTransitionBInv ==
  ASSUME IInv, BInv, RunTransition
  PROVE  BInv'
<1>1. /\ version = 0 /\ Store(DHConvs(OldConvs))
      /\ faults' = faults \/ (faults < MaxFaults /\ faults' = faults + 1)
      /\ UNCHANGED <<routingVars, state, version, child, outcome>>
  BY DEF RunTransition
<1>2. Counted'
  BY <1>1, ConversationsAssumption DEF BInv, Counted, routingVars
<1>3. JournalWhole'
  <2>1. PICK nextId : nextId = fixNextId(journal.nextId, OldConvs)
    OBVIOUS
  <2>2. journal' = [conversations |-> OldConvs, nextId |-> nextId]
    BY <1>1, <2>1 DEF Store, recover, DHConvs
  <2>3. nextId \in Nat /\ nextId # 0 /\ \A id \in Ids(OldConvs) : id < nextId
    <3>1. journal.nextId \in Nat /\ journal.nextId # 0
      BY DEF IInv, JournalType, BInv, JournalWhole
    <3> QED BY <2>1, <3>1, NextIdOfConvs, NextIdAfter
  <2> QED BY <2>2, <2>3, ConversationsAssumption DEF JournalWhole, Memory
<1>4. ChildrenWhole' /\ SentIsHeld'
  BY <1>1, NobodyMoves DEF routingVars
<1> QED BY <1>2, <1>3, <1>4 DEF BInv

LEMMA CurrentStateBInv ==
  ASSUME IInv, BInv, CurrentState
  PROVE  BInv'
<1>1. PICK msg : msg = [type |-> "CurrentState", state |-> version']
  OBVIOUS
<1>2. /\ version' \in 0 .. MaxVersions /\ version' # 0 /\ state' = version' /\ routeToAll(msg)
      /\ UNCHANGED <<managed, parentBox, created, timeouts, child, journal, outcome, faults>>
  BY <1>1, ConversationsAssumption DEF CurrentState, BInv, Counted
<1>3. Counted' /\ JournalWhole'
  BY <1>2, JournalStays DEF BInv, Counted
<1>4. \A k \in Children : mailbox'[k] = IF Running(k) THEN Append(mailbox[k], msg) ELSE mailbox[k]
  <2>1. CASE managed.ref = NoChild
    <3>1. \A k \in Children : ~Running(k)
      BY <2>1, Numbers DEF IInv, ManagedRuns
    <3> QED BY <1>2, <2>1, <3>1 DEF routeToAll
  <2>2. CASE managed.ref # NoChild
    BY <1>2, <2>2, SentIs DEF routeToAll
  <2> QED BY <2>1, <2>2
<1>5. ~IsRequest(msg) /\ msg.state \in 0 .. MaxVersions
  BY <1>1, <1>2 DEF IsRequest, RequestType
<1>6. ChildrenWhole' /\ SentIsHeld'
  BY <1>2, <1>4, <1>5, MailForOne
<1> QED BY <1>3, <1>6 DEF BInv

(* What is asked for can be answered: it has a number, and it responds to a *)
(* comment that there is.                                                   *)
LEMMA AskIsTyped ==
  ASSUME BInv, NEW p \in Request, NEW payload \in Payloads
  PROVE  Asked([payload EXCEPT !.post = p]) /\ [payload EXCEPT !.post = p].post = p
<1>1. KnownIds \subseteq CommentId
  BY JournalOfConvs, IdsAre DEF BInv, KnownIds
<1>2. PICK s, owed : s = state /\ owed = told
  OBVIOUS
<1>3. ASSUME NEW id \in KnownIds \union {Root}, payload = NewComment(id)
      PROVE  payload = [type |-> "NewComment", post |-> 0, responseTo |-> id, primary |-> TRUE,
                        id |-> Root, routedIn |-> s, owed |-> {}]
  BY <1>2, <1>3 DEF NewComment, Ask
<1>4. ASSUME NEW id, payload = DeleteComment(id)
      PROVE  payload = [type |-> "DeleteComment", post |-> 0, responseTo |-> Root,
                        primary |-> TRUE, id |-> id, routedIn |-> s, owed |-> {}]
  BY <1>2, <1>4 DEF DeleteComment, Ask
<1>5. ASSUME payload = GetConversations
      PROVE  payload = [type |-> "GetConversations", post |-> 0, responseTo |-> Root,
                        primary |-> TRUE, id |-> Root, routedIn |-> s, owed |-> owed]
  BY <1>2, <1>5 DEF GetConversations, Ask
<1> DEFINE Asking(type, to, id, all) ==
             [type |-> type, post |-> 0, responseTo |-> to, primary |-> TRUE, id |-> id,
              routedIn |-> s, owed |-> all]
<1>6. PICK to \in CommentId \union {Root} : \E type, id, all : payload = Asking(type, to, id, all)
  <2>1. \/ \E id \in KnownIds \union {Root} : payload = NewComment(id)
        \/ \E id : payload = DeleteComment(id)
        \/ payload = GetConversations
    BY DEF Payloads
  <2>2. ASSUME NEW id \in KnownIds \union {Root}, payload = NewComment(id)
        PROVE  id \in CommentId \union {Root} /\ payload = Asking("NewComment", id, Root, {})
    BY <1>1, <1>3, <2>2
  <2>3. ASSUME NEW id, payload = DeleteComment(id)
        PROVE  payload = Asking("DeleteComment", Root, id, {})
    BY <1>4, <2>3
  <2>4. ASSUME payload = GetConversations
        PROVE  payload = Asking("GetConversations", Root, Root, owed)
    BY <1>5, <2>4
  <2> HIDE DEF Asking
  <2> QED BY <2>1, <2>2, <2>3, <2>4
<1>7. PICK type, id, all : payload = Asking(type, to, id, all)
  BY <1>6
<1>8. PICK msg : msg = [payload EXCEPT !.post = p]
  OBVIOUS
<1>9. /\ DOMAIN payload = {"type", "post", "responseTo", "primary", "id", "routedIn", "owed"}
      /\ payload.responseTo = to /\ payload.primary = TRUE
  BY <1>7
<1>10. "post" \in DOMAIN msg /\ msg.post = p /\ msg.responseTo = to /\ msg.primary = TRUE
  BY <1>8, <1>9
<1> QED BY <1>8, <1>10 DEF Asked

(* A request that nobody had goes to a child, or is lost or dropped. *)
LEMMA RouteBInv ==
  ASSUME IInv, BInv, NEW p \in Request, NEW payload \in Payloads, Route(p, payload)
  PROVE  BInv'
<1>1. PICK msg : msg = [payload EXCEPT !.post = p]
  OBVIOUS
<1>2. IsRequest(msg) /\ ~IsState(msg) /\ Asked(msg) /\ msg.post = p
  BY <1>1, AskIs, AskIsTyped DEF IsRequest, IsState, RequestType
<1>3. /\ outcome[p].type = "unsent" /\ state # 0
      /\ UNCHANGED <<parentBox, timeouts, state, version, journal, faults>>
  BY DEF Route, IInv, SpaceType
<1>4. PICK type \in {"sent", "lost", "buffered"} : Respond(p, [type |-> type])
  BY DEF Route, Respond
<1>5. \A q \in Request : /\ outcome'[q].type = IF q = p THEN type ELSE outcome[q].type
                         /\ outcome'[q].type \in Outcomes
  <2>1. PICK answer : answer = [type |-> type]
    OBVIOUS
  <2>2. answer.type = type /\ answer.type \in Outcomes
    BY <2>1 DEF Outcomes
  <2> QED BY <1>4, <2>1, <2>2, AnswerTyped DEF BInv
<1>6. Counted' /\ JournalWhole'
  BY <1>3, <1>5, JournalStays DEF BInv, Counted
<1>7. \A k \in Children : ~Holds(child[k], mailbox[k], p)
  BY <1>3 DEF BInv, SentIsHeld
<1>8. CASE /\ CreateAndForward(msg)
           /\ child' = [child EXCEPT ![created'] =
                          [Unborn EXCEPT !.phase = "recovering", !.state = state]]
           /\ outcome'[p].type = "sent"
  <2>1. created < MaxChildren /\ created \in Nat
    BY <1>8 DEF CreateAndForward, IInv, FamilyType
  <2>2. PICK new \in Children : new = created + 1
    BY <2>1, Numbers
  <2>3. PICK c : c = [phase |-> "recovering", memory |-> NoMemory, state |-> state,
                      event |-> NoEvent, request |-> NoEvent]
    OBVIOUS
  <2>4. /\ managed.ref = NoChild
        /\ mailbox' = [mailbox EXCEPT ![new] = <<msg>>] /\ child' = [child EXCEPT ![new] = c]
    BY <1>8, <2>1, <2>2, <2>3, NewChild DEF CreateAndForward
  <2>5. \A k \in Children : ~Running(k)
    BY <2>4, Numbers DEF IInv, ManagedRuns
  <2>6. ChildTyped(c) /\ \A q : ~Handles(c, q)
    <3>1. c.phase = "recovering" /\ c.memory = NoMemory /\ c.state = state /\ c.event = NoEvent
      BY <2>3
    <3>2. NoMemory \in Memory
      BY DEF NoMemory, Memory
    <3>3. c.phase \in Phase /\ c.event \in Events /\ \A q : ~Handles(c, q)
      BY <3>1 DEF Phase, Events, Handles
    <3> QED BY <3>1, <3>2, <3>3 DEF ChildTyped, BInv, Counted
  <2>7. MailTyped(<<msg>>) /\ OnceEach(c, <<msg>>) /\ \A q : Asks(<<msg>>, q) <=> msg.post = q
    BY <1>2, <2>6, MailOfOne
  <2>8. \A q \in Request : outcome'[q].type = "sent" <=> Holds(c, <<msg>>, q)
    <3>1. \A q \in Request : outcome[q].type # "sent"
      BY <2>5, HoldsNothing DEF BInv, SentIsHeld
    <3> QED BY <1>2, <1>5, <1>8, <2>6, <2>7, <3>1 DEF Holds
  <2>9. ChildrenWhole' /\ SentIsHeld'
    BY <2>4, <2>5, <2>6, <2>7, <2>8, OneGoesOn
  <2> QED BY <1>6, <2>9 DEF BInv
<1>9. CASE /\ Forward(msg) /\ UNCHANGED child
           /\ outcome'[p].type = IF Stopped(managed.ref) THEN "lost" ELSE "sent"
  <2>1. managed.ref # NoChild /\ mailbox' = Sent(managed.ref, msg)
    BY <1>9 DEF Forward
  <2>2. PICK k \in Children : k = managed.ref
    BY <2>1, SentIs
  <2>3. CASE Stopped(k)
    <3>1. UNCHANGED <<child, mailbox>> /\ outcome'[p].type = "lost"
      BY <1>9, <2>1, <2>2, <2>3 DEF Sent
    <3>2. \A q \in Request : outcome'[q].type = "sent" <=> outcome[q].type = "sent"
      BY <1>3, <1>5, <3>1
    <3> QED BY <1>6, <3>1, <3>2, NobodyMoves DEF BInv
  <2>4. CASE ~Stopped(k)
    <3>1. Running(k) /\ \A j \in Children \ {k} : ~Running(j)
      BY <2>2, <2>4, OthersRest DEF IInv, ManagedRuns
    <3>2. PICK c, box : c = child[k] /\ box = mailbox[k]
      OBVIOUS
    <3>3. IsSeq(box) /\ MailTyped(box) /\ OnceEach(c, box) /\ ChildTyped(c)
      BY <3>1, <3>2, RunningMail DEF BInv, ChildrenWhole
    <3>4. /\ MailTyped(Append(box, msg)) /\ OnceEach(c, Append(box, msg))
          /\ \A q : Asks(Append(box, msg), q) <=> Asks(box, q) \/ q = p
      BY <1>2, <1>7, <3>2, <3>3, MailGrows
    <3>5. mailbox' = [mailbox EXCEPT ![k] = Append(box, msg)] /\ child' = [child EXCEPT ![k] = c]
      BY <1>9, <2>1, <2>2, <2>4, <3>2 DEF Sent, IInv, ChildType
    <3>6. outcome'[p].type = "sent"
      BY <1>9, <2>2, <2>4
    <3>7. \A q \in Request : outcome[q].type = "sent" <=> Holds(c, box, q)
      BY <3>1, <3>2, HeldByOne
    <3>8. \A q \in Request : outcome'[q].type = "sent" <=> Holds(c, Append(box, msg), q)
      BY <1>5, <3>4, <3>6, <3>7 DEF Holds
    <3>9. ChildrenWhole' /\ SentIsHeld'
      BY <3>1, <3>3, <3>4, <3>5, <3>8, OneGoesOn
    <3> QED BY <1>6, <3>9 DEF BInv
  <2> QED BY <2>3, <2>4
<1>10. CASE /\ ForwardToDying(msg) /\ UNCHANGED child /\ outcome'[p].type = "buffered"
  <2>1. UNCHANGED <<child, mailbox>>
    BY <1>10 DEF ForwardToDying
  <2>2. \A q \in Request : outcome'[q].type = "sent" <=> outcome[q].type = "sent"
    BY <1>3, <1>5, <1>10
  <2> QED BY <1>6, <2>1, <2>2, NobodyMoves DEF BInv
<1>11. \A t : outcome' = [outcome EXCEPT ![p] = [type |-> t]] => outcome'[p].type = t
  BY DEF IInv, SpaceType
<1>12. \/ /\ CreateAndForward(msg)
          /\ child' = [child EXCEPT ![created'] =
                         [Unborn EXCEPT !.phase = "recovering", !.state = state]]
          /\ outcome' = [outcome EXCEPT ![p] = [type |-> "sent"]]
       \/ /\ Forward(msg)
          /\ outcome' = [outcome EXCEPT ![p] =
                           [type |-> IF Stopped(managed.ref) THEN "lost" ELSE "sent"]]
          /\ UNCHANGED child
       \/ /\ ForwardToDying(msg)
          /\ outcome' = [outcome EXCEPT ![p] = [type |-> "buffered"]]
          /\ UNCHANGED child
  BY <1>1, Zenon DEF Route
<1> QED BY <1>8, <1>9, <1>10, <1>11, <1>12

LEMMA ManagerStepBInv ==
  ASSUME IInv, BInv, ManagerStep
  PROVE  BInv'
<1>1. /\ UNCHANGED <<state, version, child, journal, outcome, faults, created, timeouts>>
  BY DEF ManagerStep, KillMe, Terminated
<1>2. Counted' /\ JournalWhole'
  BY <1>1, JournalStays DEF BInv, Counted
<1>3. CASE UNCHANGED mailbox
  BY <1>1, <1>2, <1>3, NobodyMoves DEF BInv
<1>4. CASE managed.ref # NoChild /\ mailbox' = Sent(managed.ref, PoisonPill)
  <2>1. ~IsRequest(PoisonPill) /\ ~IsState(PoisonPill)
    BY DEF PoisonPill, IsRequest, IsState, RequestType
  <2>2. \A k \in Children :
          mailbox'[k] = IF Running(k) THEN Append(mailbox[k], PoisonPill) ELSE mailbox[k]
    BY <1>4, SentIs
  <2>3. ChildrenWhole' /\ SentIsHeld'
    BY <1>1, <2>1, <2>2, MailForOne
  <2> QED BY <1>2, <2>3 DEF BInv
<1>5. KillMe => \/ UNCHANGED mailbox
                \/ (managed.ref # NoChild /\ mailbox' = Sent(managed.ref, PoisonPill))
  <2>1. parentBox # <<>> => Head(parentBox) \in ParentMsg
    BY DEF IInv, FamilyType
  <2>2. created \in Nat
    BY DEF IInv, FamilyType
  <2> QED BY <2>1, <2>2 DEF KillMe, ParentMsg, NoChild
<1>6. Terminated => UNCHANGED mailbox
  BY DEF Terminated
<1> QED BY <1>3, <1>4, <1>5, <1>6 DEF ManagerStep

LEMMA RecoverBInv ==
  ASSUME IInv, BInv, NEW k \in Children, Recover(k)
  PROVE  BInv'
<1>1. /\ child[k].phase = "recovering" /\ Running(k)
      /\ child' = [child EXCEPT ![k].phase = "ready", ![k].memory = journal]
      /\ UNCHANGED <<routingVars, state, version, journal, outcome, faults>>
  BY DEF Recover, Running
<1>2. Counted' /\ JournalWhole'
  BY <1>1, JournalStays DEF BInv, Counted, routingVars
<1>3. \A j \in Children \ {k} : ~Running(j)
  BY <1>1, OthersRest
<1>4. PICK old, box : old = child[k] /\ box = mailbox[k]
  OBVIOUS
<1>5. PICK mid : mid = [old EXCEPT !.phase = "ready"]
  OBVIOUS
<1>6. PICK memory : memory = journal
  OBVIOUS
<1>7. PICK c : c = [mid EXCEPT !.memory = memory]
  OBVIOUS
<1>8. ChildShape(old) /\ ChildTyped(old) /\ MailTyped(box) /\ OnceEach(old, box)
  BY <1>4 DEF IInv, ChildType, BInv, ChildrenWhole
<1>9. ChildShape(mid) /\ mid.phase = "ready" /\ mid.state = old.state /\ mid.event = old.event
  BY <1>5, <1>8, ChildExcept
<1>10. c.phase = "ready" /\ c.memory = memory /\ c.state = old.state /\ c.event = old.event
  BY <1>7, <1>9, ChildExcept
<1>11. child' = [child EXCEPT ![k] = c]
  BY <1>1, <1>4, <1>5, <1>6, <1>7 DEF IInv, ChildType
<1>12. ChildTyped(c)
  BY <1>6, <1>8, <1>10 DEF ChildTyped, Phase, BInv, JournalWhole
<1>13. OnceEach(c, box) /\ \A p : Holds(c, box, p) <=> Holds(old, box, p)
  BY <1>1, <1>4, <1>8, <1>10 DEF OnceEach, Holds, Handles
<1>14. mailbox' = [mailbox EXCEPT ![k] = box]
  BY <1>1, <1>4 DEF IInv, FamilyType, routingVars
<1>15. \A p \in Request : outcome'[p].type = "sent" <=> Holds(c, box, p)
  BY <1>1, <1>3, <1>4, <1>13, HeldByOne
<1>16. ChildrenWhole' /\ SentIsHeld'
  BY <1>3, <1>8, <1>11, <1>12, <1>13, <1>14, <1>15, OneGoesOn
<1> QED BY <1>2, <1>16 DEF BInv

(* A message is read. *)
LEMMA ReadsWhole ==
  ASSUME IInv, BInv, NEW k \in Children, NEW type, Reads(k, type)
  PROVE  LET msg == Head(mailbox[k])
             box == Tail(mailbox[k])
         IN
         /\ \A j \in Children \ {k} : ~Running(j)
         /\ child[k].phase = "ready" /\ child[k].memory = journal
         /\ ChildShape(child[k]) /\ ChildTyped(child[k])
         /\ mailbox' = [mailbox EXCEPT ![k] = box]
         /\ MailTyped(box)
         /\ \A c : (\A p : Handles(c, p) => IsRequest(msg) /\ p = msg.post) => OnceEach(c, box)
         /\ IsState(msg) => msg.state \in 0 .. MaxVersions
         /\ IsRequest(msg) => Asked(msg) /\ ~Asks(box, msg.post)
         /\ \A p \in Request :
              outcome[p].type = "sent" <=> Asks(box, p) \/ (IsRequest(msg) /\ p = msg.post)
         /\ JournalWhole'
         /\ (\A p \in Request : outcome'[p].type \in Outcomes) => Counted'
<1>1. Running(k) /\ child[k].phase = "ready" /\ child[k].memory = journal
        /\ mailbox' = [mailbox EXCEPT ![k] = Tail(mailbox[k])] /\ mailbox[k] # <<>>
        /\ UNCHANGED <<managed, parentBox, created, timeouts, state, version, journal, faults>>
  BY ReadsOne DEF Reads
<1>2. \A j \in Children \ {k} : ~Running(j)
  BY <1>1, OthersRest
<1>3. PICK old, box : old = child[k] /\ box = mailbox[k]
  OBVIOUS
<1>4. IsSeq(box) /\ MailTyped(box) /\ OnceEach(old, box) /\ ChildTyped(old) /\ ChildShape(old)
  BY <1>1, <1>3, RunningMail DEF BInv, ChildrenWhole, IInv, ChildType
<1>5. PICK msg : msg = Head(box)
  OBVIOUS
<1>6. /\ MailTyped(Tail(box)) /\ OnceEach(old, Tail(box))
      /\ IsState(msg) => msg.state \in 0 .. MaxVersions
      /\ IsRequest(msg) => Asked(msg) /\ ~Holds(old, Tail(box), msg.post)
      /\ \A p : Asks(box, p) <=> Asks(Tail(box), p) \/ (IsRequest(msg) /\ msg.post = p)
  BY <1>1, <1>3, <1>4, <1>5, MailShrinks
<1>7. \A c : (\A p : Handles(c, p) => IsRequest(msg) /\ p = msg.post) => OnceEach(c, Tail(box))
  BY <1>6 DEF OnceEach, Holds
<1>8. \A p \in Request : outcome[p].type = "sent" <=> Holds(old, box, p)
  BY <1>2, <1>3, HeldByOne
<1>9. \A p : ~Handles(old, p)
  BY <1>1, <1>3 DEF Handles
<1>10. \A p \in Request :
         outcome[p].type = "sent" <=> Asks(Tail(box), p) \/ (IsRequest(msg) /\ p = msg.post)
  BY <1>6, <1>8, <1>9 DEF Holds
<1>11. JournalWhole' /\ ((\A p \in Request : outcome'[p].type \in Outcomes) => Counted')
  BY <1>1, JournalStays DEF BInv, Counted
<1> QED BY <1>1, <1>2, <1>3, <1>4, <1>5, <1>6, <1>7, <1>10, <1>11 DEF Holds

LEMMA ReadCurrentStateBInv ==
  ASSUME IInv, BInv, NEW k \in Children, ReadCurrentState(k)
  PROVE  BInv'
<1>1. Reads(k, "CurrentState") /\ child' = [child EXCEPT ![k].state = Head(mailbox[k]).state]
        /\ UNCHANGED outcome
  BY DEF ReadCurrentState
<1>2. PICK msg, box, old : msg = Head(mailbox[k]) /\ box = Tail(mailbox[k]) /\ old = child[k]
  OBVIOUS
<1>3. IsState(msg) /\ ~IsRequest(msg)
  BY <1>1, <1>2 DEF Reads, IsState, IsRequest, RequestType
<1>4. PICK s : s = msg.state
  OBVIOUS
<1>5. PICK c : c = [old EXCEPT !.state = s]
  OBVIOUS
<1>6. c.phase = "ready" /\ c.memory = old.memory /\ c.event = old.event /\ c.state = s
        /\ ChildTyped(old)
  BY <1>1, <1>2, <1>5, ReadsWhole, ChildExcept
<1>7. s \in 0 .. MaxVersions
  BY <1>1, <1>2, <1>3, <1>4, ReadsWhole
<1>8. ChildTyped(c) /\ \A p : ~Handles(c, p)
  BY <1>6, <1>7 DEF ChildTyped, Phase, Handles
<1>9. child' = [child EXCEPT ![k] = c]
  BY <1>1, <1>2, <1>4, <1>5
<1>10. OnceEach(c, box)
  BY <1>1, <1>2, <1>8, ReadsWhole
<1>11. \A p \in Request : outcome'[p].type = "sent" <=> Holds(c, box, p)
  BY <1>1, <1>2, <1>3, <1>8, ReadsWhole DEF Holds
<1>12. ChildrenWhole' /\ SentIsHeld'
  BY <1>1, <1>2, <1>8, <1>9, <1>10, <1>11, ReadsWhole, OneGoesOn
<1>13. Counted' /\ JournalWhole'
  BY <1>1, ReadsWhole DEF BInv, Counted
<1> QED BY <1>12, <1>13 DEF BInv

(* The request that is read is answered at once. *)
LEMMA AnsweredBInv ==
  ASSUME IInv, BInv, NEW k \in Children, NEW type \in RequestType, Reads(k, type), UNCHANGED child,
         NEW answer, Respond(Head(mailbox[k]).post, answer),
         answer.type \in Outcomes \ {"sent"}
  PROVE  BInv'
<1>1. PICK msg, box, c : msg = Head(mailbox[k]) /\ box = Tail(mailbox[k]) /\ c = child[k]
  OBVIOUS
<1>2. IsRequest(msg)
  BY <1>1 DEF Reads, IsRequest
<1>3. \A q \in Request : /\ outcome'[q] = IF q = msg.post THEN answer ELSE outcome[q]
                         /\ outcome'[q].type \in Outcomes
  BY <1>1, AnswerTyped DEF BInv
<1>4. /\ c.phase = "ready" /\ ChildTyped(c) /\ MailTyped(box)
      /\ ~Asks(box, msg.post)
      /\ mailbox' = [mailbox EXCEPT ![k] = box]
      /\ \A p \in Request : outcome[p].type = "sent" <=> Asks(box, p) \/ p = msg.post
  BY <1>1, <1>2, ReadsWhole
<1>5. \A p : ~Handles(c, p)
  BY <1>4 DEF Handles
<1>6. OnceEach(c, box)
  BY <1>1, <1>5, ReadsWhole
<1>7. child' = [child EXCEPT ![k] = c]
  BY <1>1 DEF IInv, ChildType
<1>8. \A p \in Request : outcome'[p].type = "sent" <=> Holds(c, box, p)
  BY <1>3, <1>4, <1>5 DEF Holds
<1>9. ChildrenWhole' /\ SentIsHeld'
  BY <1>4, <1>6, <1>7, <1>8, ReadsWhole, OneGoesOn
<1>10. Counted' /\ JournalWhole'
  BY <1>3, ReadsWhole
<1> QED BY <1>9, <1>10 DEF BInv

LEMMA ReadGetConversationsBInv ==
  ASSUME IInv, BInv, NEW k \in Children, ReadGetConversations(k)
  PROVE  BInv'
<1>1. Reads(k, "GetConversations") /\ UNCHANGED child /\ "GetConversations" \in RequestType
  BY DEF ReadGetConversations, RequestType
<1>2. PICK missed : Respond(Head(mailbox[k]).post, [type |-> "Conversations", missed |-> missed])
  BY DEF ReadGetConversations
<1>3. PICK answer : answer = [type |-> "Conversations", missed |-> missed]
  OBVIOUS
<1>4. answer.type \in Outcomes \ {"sent"}
  BY <1>3 DEF Outcomes
<1> QED BY <1>1, <1>2, <1>3, <1>4, AnsweredBInv

(* The request that is read has an event to store first. *)
LEMMA PersistingBInv ==
  ASSUME IInv, BInv, NEW k \in Children, NEW type \in RequestType, Reads(k, type),
         UNCHANGED outcome, NEW event \in Events, NEW nextId \in Nat,
         Persist(k, event, Head(mailbox[k]), nextId)
  PROVE  BInv'
<1>1. PICK msg, box, old : msg = Head(mailbox[k]) /\ box = Tail(mailbox[k]) /\ old = child[k]
  OBVIOUS
<1>2. IsRequest(msg)
  BY <1>1 DEF Reads, IsRequest
<1>3. /\ ChildTyped(old) /\ MailTyped(box)
      /\ ~Asks(box, msg.post)
      /\ mailbox' = [mailbox EXCEPT ![k] = box]
      /\ \A p \in Request : outcome[p].type = "sent" <=> Asks(box, p) \/ p = msg.post
  BY <1>1, <1>2, ReadsWhole
<1>4. PICK c : /\ child' = [child EXCEPT ![k] = c] /\ ChildShape(c)
               /\ c.phase = "persisting" /\ c.event = event /\ c.request = msg
               /\ c.state = old.state
               /\ c.memory.conversations = journal.conversations /\ c.memory.nextId = nextId
  BY <1>1, ReadsWhole, PersistIs
<1>5. ChildTyped(c)
  <2>1. c.memory = [conversations |-> journal.conversations, nextId |-> nextId]
    BY <1>4 DEF ChildShape, MemoryShape
  <2>2. c.memory \in Memory
    BY <2>1, JournalOfConvs DEF BInv, Memory, Whole
  <2> QED BY <1>3, <1>4, <2>2 DEF ChildTyped, Phase
<1>6. \A p : Handles(c, p) <=> p = msg.post
  BY <1>4 DEF Handles
<1>7. OnceEach(c, box)
  BY <1>1, <1>2, <1>6, ReadsWhole
<1>8. \A p \in Request : outcome'[p].type = "sent" <=> Holds(c, box, p)
  BY <1>3, <1>6 DEF Holds
<1>9. ChildrenWhole' /\ SentIsHeld'
  BY <1>3, <1>4, <1>5, <1>7, <1>8, ReadsWhole, OneGoesOn
<1>10. Counted' /\ JournalWhole'
  BY ReadsWhole DEF BInv, Counted
<1> QED BY <1>9, <1>10 DEF BInv

LEMMA ReadNewCommentBInv ==
  ASSUME IInv, BInv, NEW k \in Children, ReadNewComment(k)
  PROVE  BInv'
<1>1. Reads(k, "NewComment") /\ "NewComment" \in RequestType
  BY DEF ReadNewComment, RequestType
<1>2. PICK msg : msg = Head(mailbox[k])
  OBVIOUS
<1>3. IsRequest(msg) /\ Asked(msg) /\ child[k].memory = journal
  BY <1>1, <1>2, ReadsWhole DEF Reads, IsRequest
<1>4. PICK id \in Nat : id = child[k].memory.nextId /\ id # 0
  <2>1. child[k].memory.nextId \in Nat /\ child[k].memory.nextId # 0
    BY <1>3, JournalOfConvs DEF BInv, JournalWhole
  <2> QED BY <2>1
<1>5. ASSUME Respond(msg.post, [type |-> "ThingError"]), UNCHANGED child PROVE BInv'
  <2>1. PICK answer : answer = [type |-> "ThingError"]
    OBVIOUS
  <2>2. answer.type \in Outcomes \ {"sent"}
    BY <2>1 DEF Outcomes
  <2> QED BY <1>1, <1>2, <1>5, <2>1, <2>2, AnsweredBInv
<1>6. ASSUME NEW comment, comment = [id |-> id, post |-> msg.post, responseTo |-> msg.responseTo,
                                     primary |-> msg.primary],
             id <= MaxId, Persist(k, DHAddComment(comment), msg, id + 1), UNCHANGED outcome
      PROVE  BInv'
  <2>1. comment \in Comment
    BY <1>3, <1>4, <1>6, ConversationsAssumption DEF Comment, CommentId, Asked
  <2>2. PICK event \in Events : event = DHAddComment(comment)
    BY <2>1 DEF Events
  <2>3. PICK nextId \in Nat : nextId = id + 1
    OBVIOUS
  <2> QED BY <1>1, <1>2, <1>6, <2>2, <2>3, PersistingBInv
<1> QED BY <1>2, <1>4, <1>5, <1>6 DEF ReadNewComment

LEMMA ReadDeleteCommentBInv ==
  ASSUME IInv, BInv, NEW k \in Children, ReadDeleteComment(k)
  PROVE  BInv'
<1>1. Reads(k, "DeleteComment") /\ "DeleteComment" \in RequestType
  BY DEF ReadDeleteComment, RequestType
<1>2. PICK msg : msg = Head(mailbox[k])
  OBVIOUS
<1>3. child[k].memory = journal
  BY <1>1, ReadsWhole
<1>4. PICK nextId \in Nat : nextId = child[k].memory.nextId
  BY <1>3, JournalOfConvs DEF BInv
<1>5. ASSUME Respond(msg.post, [type |-> "CommentNotDeleted"]), UNCHANGED child PROVE BInv'
  <2>1. PICK answer : answer = [type |-> "CommentNotDeleted"]
    OBVIOUS
  <2>2. answer.type \in Outcomes \ {"sent"}
    BY <2>1 DEF Outcomes
  <2> QED BY <1>1, <1>2, <1>5, <2>1, <2>2, AnsweredBInv
<1>6. ASSUME NEW id \in Ids(journal.conversations), Persist(k, DHDeleteComment(id), msg, nextId),
             UNCHANGED outcome
      PROVE  BInv'
  <2>1. id \in CommentId
    BY JournalOfConvs, IdsAre DEF BInv
  <2>2. PICK event \in Events : event = DHDeleteComment(id)
    BY <2>1 DEF Events
  <2> QED BY <1>1, <1>2, <1>6, <2>2, PersistingBInv
<1> QED BY <1>2, <1>3, <1>4, <1>5, <1>6 DEF ReadDeleteComment

(* The mail and the other children are left alone while a child works. *)
LEMMA ChildWorks ==
  ASSUME IInv, BInv, NEW k \in Children, Running(k), UNCHANGED mailbox,
         NEW c, child' = [child EXCEPT ![k] = c], ChildTyped(c),
         \A p : Handles(c, p) => Handles(child[k], p),
         \A p \in Request :
           outcome'[p].type = "sent" <=> Asks(mailbox[k], p) \/ Handles(c, p)
  PROVE  ChildrenWhole' /\ SentIsHeld'
<1>1. \A j \in Children \ {k} : ~Running(j)
  BY OthersRest
<1>2. PICK box : box = mailbox[k]
  OBVIOUS
<1>3. MailTyped(box) /\ OnceEach(child[k], box)
  BY <1>2 DEF BInv, ChildrenWhole
<1>4. OnceEach(c, box)
  BY <1>3 DEF OnceEach
<1>5. mailbox' = [mailbox EXCEPT ![k] = box]
  BY <1>2 DEF IInv, FamilyType
<1>6. \A p \in Request : outcome'[p].type = "sent" <=> Holds(c, box, p)
  BY <1>2 DEF Holds
<1> QED BY <1>1, <1>3, <1>4, <1>5, <1>6, OneGoesOn

LEMMA EventWrittenBInv ==
  ASSUME IInv, BInv, NEW k \in Children, EventWritten(k)
  PROVE  BInv'
<1>1. /\ child[k].phase = "persisting" /\ Running(k) /\ Store(child[k].event)
      /\ child' = [child EXCEPT ![k].phase = "written"]
      /\ UNCHANGED <<routingVars, state, version, outcome, faults>>
  BY DEF EventWritten, Running
<1>2. Counted' /\ JournalWhole'
  BY <1>1, StoreIsWhole DEF BInv, Counted, routingVars
<1>3. PICK old : old = child[k]
  OBVIOUS
<1>4. PICK c : c = [old EXCEPT !.phase = "written"]
  OBVIOUS
<1>5. ChildShape(old) /\ ChildTyped(old)
  BY <1>3 DEF IInv, ChildType, BInv, ChildrenWhole
<1>6. c.phase = "written" /\ c.memory = old.memory /\ c.event = old.event /\ c.state = old.state
        /\ c.request = old.request
  BY <1>4, <1>5, ChildExcept
<1>7. ChildTyped(c) /\ \A p : Handles(c, p) <=> Handles(old, p)
  BY <1>1, <1>3, <1>5, <1>6 DEF ChildTyped, Phase, Handles
<1>8. child' = [child EXCEPT ![k] = c]
  BY <1>1, <1>3, <1>4
<1>9. \A p \in Request : outcome'[p].type = "sent" <=> Asks(mailbox[k], p) \/ Handles(c, p)
  BY <1>1, <1>3, <1>7, OthersRest, HeldByOne DEF Holds
<1>10. ChildrenWhole' /\ SentIsHeld'
  BY <1>1, <1>3, <1>7, <1>8, <1>9, ChildWorks DEF routingVars
<1> QED BY <1>2, <1>10 DEF BInv

LEMMA HandlerBInv ==
  ASSUME IInv, BInv, NEW k \in Children, Handler(k)
  PROVE  BInv'
<1>1. /\ child[k].phase = "written" /\ Running(k)
      /\ UNCHANGED <<routingVars, state, version, journal, faults>>
  BY DEF Handler, Running
<1>2. PICK post : post = child[k].request.post
  OBVIOUS
<1>3. \E answer : Respond(post, answer) /\ answer.type \in {"AddedNode", "CommentDeleted"}
  <2>1. PICK node : node = Place(recover(child[k].memory, child[k].event).conversations[
                             Len(recover(child[k].memory, child[k].event).conversations)])
    OBVIOUS
  <2>2. PICK answer : answer = IF child[k].event.type = "DHAddComment"
                                 THEN [type |-> "AddedNode", node |-> node]
                                 ELSE [type |-> "CommentDeleted"]
    OBVIOUS
  <2>3. Respond(post, answer)
    BY <1>2, <2>1, <2>2 DEF Handler
  <2>4. answer.type \in {"AddedNode", "CommentDeleted"}
    BY <2>2
  <2> QED BY <2>3, <2>4
<1>4. \A q \in Request : /\ outcome'[q].type \in Outcomes
                         /\ outcome'[q].type = "sent" <=> outcome[q].type = "sent" /\ q # post
  <2>1. PICK answer : Respond(post, answer) /\ answer.type \in {"AddedNode", "CommentDeleted"}
    BY <1>3
  <2>2. answer.type \in Outcomes
    BY <2>1 DEF Outcomes
  <2> QED BY <2>1, <2>2, AnswerTyped DEF BInv
<1>5. Counted' /\ JournalWhole'
  BY <1>1, <1>4, JournalStays DEF BInv, Counted, routingVars
<1>6. PICK c : /\ child' = [child EXCEPT ![k] = c] /\ ChildShape(c)
               /\ c.phase = "ready" /\ c.state = child[k].state
               /\ c.event = NoEvent /\ c.memory = journal
  BY HandlerIs
<1>7. ChildTyped(child[k]) /\ OnceEach(child[k], mailbox[k])
  BY DEF BInv, ChildrenWhole
<1>8. ChildTyped(c) /\ \A p : ~Handles(c, p)
  BY <1>6, <1>7 DEF ChildTyped, Phase, Events, Handles, BInv, JournalWhole
<1>9. \A p : Handles(child[k], p) <=> p = post
  BY <1>1, <1>2 DEF Handles
<1>10. ~Asks(mailbox[k], post)
  BY <1>7, <1>9 DEF OnceEach
<1>11. \A p \in Request : outcome'[p].type = "sent" <=> Asks(mailbox[k], p) \/ Handles(c, p)
  <2>1. \A p \in Request : outcome[p].type = "sent" <=> Asks(mailbox[k], p) \/ p = post
    BY <1>1, <1>9, OthersRest, HeldByOne DEF Holds
  <2> QED BY <1>4, <1>8, <1>10, <2>1
<1>12. ChildrenWhole' /\ SentIsHeld'
  BY <1>1, <1>6, <1>8, <1>11, ChildWorks DEF routingVars
<1> QED BY <1>5, <1>12 DEF BInv

-----------------------------------------------------------------------------
(* The end of a child. *)

LEMMA DeadIs == ChildTyped(Dead) /\ \A p : ~Handles(Dead, p)
<1>1. PICK c : c = Unborn
  OBVIOUS
<1>2. c.phase = "unborn" /\ c.memory = NoMemory /\ c.state = 0 /\ c.event = NoEvent /\ ChildShape(c)
  <2>1. PICK memory : memory = NoMemory
    OBVIOUS
  <2>2. c = [phase |-> "unborn", memory |-> memory, state |-> 0, event |-> NoEvent,
             request |-> NoEvent]
    BY <1>1, <2>1 DEF Unborn
  <2>3. MemoryShape(memory)
    BY <2>1 DEF MemoryShape, NoMemory
  <2> QED BY <2>1, <2>2, <2>3 DEF ChildShape
<1>3. PICK new : new = [c EXCEPT !.phase = "dead"]
  OBVIOUS
<1>4. new.phase = "dead" /\ new.memory = NoMemory /\ new.state = 0 /\ new.event = NoEvent
  BY <1>2, <1>3, ChildExcept
<1>5. new = Dead
  BY <1>1, <1>3 DEF Dead
<1>6. NoMemory \in Memory
  BY DEF NoMemory, Memory
<1> QED BY <1>4, <1>5, <1>6, ConversationsAssumption DEF ChildTyped, Phase, Events, Handles

(* Whom a child will not answer any more are those that it holds. *)
LEMMA UnansweredAreHeld ==
  ASSUME IInv, BInv, NEW k \in Children, NEW p \in Request
  PROVE  p \in Unanswered(k) <=> Holds(child[k], mailbox[k], p)
<1>1. PICK box : box = mailbox[k]
  OBVIOUS
<1>2. CASE Running(k)
  <2>1. IsSeq(box) /\ (\A n \in 1 .. Len(box) : MsgOK(box[n], Placed)) /\ MailTyped(box)
    BY <1>1, <1>2, RunningMail DEF BInv, ChildrenWhole
  <2>2. DOMAIN box = 1 .. Len(box)
    BY <2>1 DEF IsSeq
  <2>3. \A n \in 1 .. Len(box) : "post" \in DOMAIN box[n] <=> IsRequest(box[n])
    BY <2>1, MsgKinds DEF MailTyped, Asked
  <2>4. (\E n \in DOMAIN box : "post" \in DOMAIN box[n] /\ box[n].post = p) <=> Asks(box, p)
    BY <2>2, <2>3 DEF Asks
  <2> QED BY <1>1, <2>4 DEF Unanswered, Holds, Handles
<1>3. CASE ~Running(k)
  <2>1. box = <<>> /\ child[k].phase \notin {"persisting", "written"}
    BY <1>1, <1>3 DEF IInv, ManagedRuns, Running
  <2> QED BY <1>1, <2>1 DEF Unanswered, Holds, Handles, Asks
<1> QED BY <1>2, <1>3

LEMMA UnansweredIs ==
  ASSUME IInv, BInv, NEW k \in Children, Running(k), NEW p \in Request
  PROVE  p \in Unanswered(k) <=> outcome[p].type = "sent"
<1>1. outcome[p].type = "sent" <=> Holds(child[k], mailbox[k], p)
  BY OthersRest, HeldByOne
<1> QED BY <1>1, UnansweredAreHeld

LEMMA WriteMayEndIsWhole ==
  ASSUME IInv, BInv, NEW k \in Children, WriteMayEnd(k), UNCHANGED version
  PROVE  JournalWhole' /\ StoresOne
<1>1. CASE UNCHANGED journal
  BY <1>1, JournalStays DEF BInv, StoresOne
<1>2. CASE child[k].phase = "persisting" /\ Store(child[k].event)
  BY <1>2, StoreIsWhole
<1> QED BY <1>1, <1>2 DEF WriteMayEnd

LEMMA StopBInv ==
  ASSUME IInv, BInv, NEW k \in Children, Running(k), Stop(k), UNCHANGED <<state, version>>,
         faults' \in 0 .. MaxFaults
  PROVE  BInv'
<1>1. /\ mailbox' = [mailbox EXCEPT ![k] = <<>>] /\ UNCHANGED timeouts
      /\ child' = [child EXCEPT ![k] = Dead]
      /\ Lose(Unanswered(k)) /\ WriteMayEnd(k)
  BY DEF Stop, ChildStops
<1>2. JournalWhole'
  BY <1>1, WriteMayEndIsWhole
<1>3. \A q \in Request : outcome'[q].type \in Outcomes /\ outcome'[q].type # "sent"
  BY <1>1, LoseTyped, UnansweredIs DEF BInv
<1>4. Counted'
  BY <1>1, <1>3 DEF BInv, Counted
<1>5. MailTyped(<<>>) /\ OnceEach(Dead, <<>>) /\ \A p : ~Holds(Dead, <<>>, p)
  BY DeadIs DEF MailTyped, OnceEach, Holds, Asks
<1>6. ChildrenWhole' /\ SentIsHeld'
  <2>1. PICK c, box : c = Dead /\ box = <<>>
    OBVIOUS
  <2>2. ChildTyped(c) /\ MailTyped(box) /\ OnceEach(c, box) /\ \A p : ~Holds(c, box, p)
    BY <1>5, <2>1, DeadIs
  <2> QED BY <1>1, <1>3, <2>1, <2>2, OthersRest, OneGoesOn
<1> QED BY <1>2, <1>4, <1>6 DEF BInv

LEMMA TakePoisonPillBInv ==
  ASSUME IInv, BInv, NEW k \in Children, TakePoisonPill(k)
  PROVE  BInv'
BY StopBInv DEF TakePoisonPill, BInv, Counted

LEMMA PersistFailsBInv ==
  ASSUME IInv, BInv, NEW k \in Children, PersistFails(k)
  PROVE  BInv'
<1>1. faults' \in 0 .. MaxFaults
  BY ConversationsAssumption DEF PersistFails, BInv, Counted
<1> QED BY <1>1, StopBInv DEF PersistFails, Running

LEMMA ChildTimesOutBInv ==
  ASSUME BInv, NEW k \in Children, ChildTimesOut(k)
  PROVE  BInv'
<1>1. /\ timeouts < MaxTimeouts /\ timeouts' = timeouts + 1
      /\ UNCHANGED <<mailbox, state, version, child, journal, outcome, faults>>
  BY DEF ChildTimesOut, ReceiveTimeout
<1>2. Counted' /\ JournalWhole'
  BY <1>1, JournalStays, ConversationsAssumption DEF BInv, Counted
<1>3. ChildrenWhole' /\ SentIsHeld'
  BY <1>1, NobodyMoves
<1> QED BY <1>2, <1>3 DEF BInv

LEMMA CrashBInv ==
  ASSUME IInv, BInv, Crash
  PROVE  BInv'
<1>1. /\ faults < MaxFaults /\ faults' = faults + 1 /\ state' = 0
      /\ mailbox' = [k \in Children |-> <<>>]
      /\ child' = [k \in Children |-> IF Running(k) THEN Dead ELSE child[k]]
      /\ Lose({p \in Request : outcome[p].type \in {"sent", "buffered"}})
      /\ UNCHANGED <<timeouts, version>>
  BY DEF Crash, FamilyDies
<1>2. JournalWhole'
  BY <1>1, JournalStays, WriteMayEndIsWhole DEF Crash, BInv
<1>3. \A q \in Request : outcome'[q].type \in Outcomes /\ outcome'[q].type # "sent"
  BY <1>1, LoseTyped DEF BInv
<1>4. Counted'
  BY <1>1, <1>3, ConversationsAssumption DEF BInv, Counted
<1>5. ASSUME NEW k \in Children
      PROVE  /\ ChildTyped(child'[k]) /\ MailTyped(mailbox'[k]) /\ OnceEach(child'[k], mailbox'[k])
             /\ \A p : ~Holds(child'[k], mailbox'[k], p)
  <2>1. ChildTyped(child[k])
    BY DEF BInv, ChildrenWhole
  <2>2. ChildTyped(child'[k]) /\ \A p : ~Handles(child'[k], p)
    BY <1>1, <2>1, DeadIs DEF Running, Handles
  <2>3. mailbox'[k] = <<>>
    BY <1>1
  <2> QED BY <2>2, <2>3 DEF MailTyped, OnceEach, Holds, Asks
<1>6. ChildrenWhole'
  BY <1>5 DEF ChildrenWhole
<1>7. SentIsHeld'
  BY <1>3, <1>5 DEF SentIsHeld
<1> QED BY <1>2, <1>4, <1>6, <1>7 DEF BInv

LEMMA NextBInv == IInv /\ BInv /\ [Next]_vars => BInv'
<1> SUFFICES ASSUME IInv, BInv, [Next]_vars PROVE BInv'
  OBVIOUS
<1>1. CASE UNCHANGED vars
  BY <1>1, StutterBInv
<1>2. CASE RunTransition
  BY <1>2, RunTransitionBInv
<1>3. CASE CurrentState
  BY <1>3, CurrentStateBInv
<1>4. ASSUME NEW p \in Request, NEW payload \in Payloads, Route(p, payload) PROVE BInv'
  BY <1>4, RouteBInv
<1>5. CASE ManagerStep
  BY <1>5, ManagerStepBInv
<1>6. ASSUME NEW k \in Children, ChildStep(k) PROVE BInv'
  BY <1>6, RecoverBInv, ReadCurrentStateBInv, ReadGetConversationsBInv, ReadNewCommentBInv,
     ReadDeleteCommentBInv, EventWrittenBInv, HandlerBInv, TakePoisonPillBInv
     DEF ChildStep, ChildReads
<1>7. ASSUME NEW k \in Children, PersistFails(k) \/ ChildTimesOut(k) PROVE BInv'
  BY <1>7, PersistFailsBInv, ChildTimesOutBInv
<1>8. CASE Crash
  BY <1>8, CrashBInv
<1> QED BY <1>1, <1>2, <1>3, <1>4, <1>5, <1>6, <1>7, <1>8 DEF Next

-----------------------------------------------------------------------------
(* Each action is one of the board, or leaves it and what was told alone. *)

OnBoard == [Board!Next]_(Board!vars)

LEMMA ToldStays ==
  ASSUME \A p \in Request : \/ outcome'[p] = outcome[p]
                            \/ outcome[p].type # "AddedNode" /\ outcome'[p].type # "AddedNode"
  PROVE  told' = told
BY DEF told

LEMMA AnswerToldStays ==
  ASSUME IInv, NEW p, NEW answer, Respond(p, answer), answer.type # "AddedNode",
         p \in Request => outcome[p].type # "AddedNode"
  PROVE  told' = told
<1>1. outcome = [q \in Request |-> outcome[q]]
  BY DEF IInv, SpaceType
<1>2. \A q \in Request : outcome'[q] = IF q = p THEN answer ELSE outcome[q]
  BY <1>1 DEF Respond
<1> QED BY <1>2, ToldStays

LEMMA LoseToldStays ==
  ASSUME NEW posts, Lose(posts), \A p \in Request : p \in posts => outcome[p].type # "AddedNode"
  PROVE  told' = told
BY ToldStays DEF Lose

LEMMA BoardStays ==
  ASSUME told' = told, journal'.conversations = journal.conversations
  PROVE  OnBoard
BY DEF OnBoard, Board!vars

LEMMA StoreOnBoard ==
  ASSUME told' = told, StoresOne
  PROVE  OnBoard
<1> DEFINE old == journal.conversations
           new == journal'.conversations
<1>1. CASE new = old
  BY <1>1, BoardStays
<1>2. CASE \E n \in DOMAIN old : new = [old EXCEPT ![n].isDeleted = TRUE]
  BY <1>2 DEF OnBoard, Board!Next, Board!MarkDeleted
<1>3. ASSUME NEW comment \in Comment, NEW under \in Ids(old) \union {Root}, comment.id \notin Ids(old),
             Len(new) = Len(old) + 1, Front(new) = old, Last(new) = NodeOf(comment, under)
      PROVE  OnBoard
  <2>1. PICK node : node = NodeOf(comment, under)
    OBVIOUS
  <2>2. node.id = comment.id /\ node.under = under /\ node.post = comment.post /\ ~node.isDeleted
    BY <2>1 DEF NodeOf
  <2>3. comment.id \in CommentId /\ comment.post \in Post
    BY DEF Comment
  <2>4. Board!Ids = Ids(old)
    BY DEF Board!Ids, Ids
  <2>5. Board!Front(new) = old /\ Board!Last(new) = node
    BY <1>3, <2>1 DEF Board!Front, Front, Board!Last, Last
  <2>6. told' = told
    OBVIOUS
  <2> HIDE DEF old, new
  <2>7. Board!Put
    BY <1>3, <2>2, <2>3, <2>4, <2>5, <2>6 DEF Board!Put, old, new
  <2> QED BY <2>7 DEF OnBoard, Board!Next
<1> QED BY <1>1, <1>2, <1>3 DEF StoresOne

LEMMA RunTransitionOnBoard ==
  ASSUME IInv, BInv, RunTransition
  PROVE  OnBoard
<1>1. version = 0 /\ UNCHANGED outcome /\ journal'.conversations = OldConvs
  BY DEF RunTransition, Store, recover, DHConvs
<1>2. told' = told
  BY <1>1, ToldStays
<1>3. journal.conversations \in {<<>>, OldConvs}
  BY <1>1 DEF BInv, JournalWhole
<1>4. CASE journal.conversations = <<>>
  BY <1>1, <1>2, <1>4 DEF OnBoard, Board!Next, Board!Import
<1>5. CASE journal.conversations = OldConvs
  BY <1>1, <1>2, <1>5, BoardStays
<1> QED BY <1>3, <1>4, <1>5

LEMMA RouteOnBoard ==
  ASSUME IInv, NEW p \in Request, NEW payload \in Payloads, Route(p, payload)
  PROVE  OnBoard
<1>1. outcome[p].type = "unsent" /\ UNCHANGED journal
  BY DEF Route
<1>2. PICK type \in {"sent", "lost", "buffered"} : Respond(p, [type |-> type])
  BY DEF Route, Respond
<1>3. PICK answer : answer = [type |-> type]
  OBVIOUS
<1>4. told' = told
  BY <1>1, <1>2, <1>3, AnswerToldStays
<1> QED BY <1>1, <1>4, BoardStays

(* A request that is read has no answer yet. *)
LEMMA ReadsOnBoard ==
  ASSUME IInv, BInv, NEW k \in Children, ChildReads(k)
  PROVE  OnBoard
<1>1. PICK type : Reads(k, type) /\ type \in RequestType \union {"CurrentState"}
                    /\ (type = "CurrentState" => UNCHANGED outcome)
  BY DEF ChildReads, ReadCurrentState, ReadGetConversations, ReadNewComment, ReadDeleteComment,
         RequestType
<1>2. journal' = journal
  BY <1>1 DEF Reads
<1>3. CASE UNCHANGED outcome
  BY <1>2, <1>3, ToldStays, BoardStays
<1>4. PICK msg : msg = Head(mailbox[k])
  OBVIOUS
<1>5. ASSUME NEW answer, Respond(msg.post, answer), answer.type # "AddedNode",
             type \in RequestType
      PROVE  OnBoard
  <2>1. IsRequest(msg)
    BY <1>1, <1>4, <1>5 DEF Reads, IsRequest
  <2>2. msg.post \in Request => outcome[msg.post].type = "sent"
    BY <1>1, <1>4, <2>1, ReadsWhole
  <2>3. told' = told
    BY <1>5, <2>2, AnswerToldStays
  <2> QED BY <1>2, <2>3, BoardStays
<1>6. \/ UNCHANGED outcome
      \/ \E answer : Respond(msg.post, answer) /\ answer.type # "AddedNode" /\ type \in RequestType
  <2>1. ASSUME NEW a, NEW missed, a = [type |-> "Conversations", missed |-> missed]
        PROVE  a.type # "AddedNode"
    BY <2>1
  <2>2. ASSUME NEW a, NEW t \in {"ThingError", "CommentNotDeleted"}, a = [type |-> t]
        PROVE  a.type # "AddedNode"
    BY <2>2
  <2>3. CASE ReadCurrentState(k)
    BY <2>3 DEF ReadCurrentState
  <2>4. CASE ReadGetConversations(k)
    <3>1. PICK missed : Respond(msg.post, [type |-> "Conversations", missed |-> missed])
      BY <1>4, <2>4 DEF ReadGetConversations
    <3>2. type = "GetConversations"
      BY <1>1, <2>4 DEF ReadGetConversations, Reads
    <3> QED BY <2>1, <3>1, <3>2 DEF RequestType
  <2>5. CASE ReadNewComment(k)
    <3>1. UNCHANGED outcome \/ Respond(msg.post, [type |-> "ThingError"])
      BY <1>4, <2>5 DEF ReadNewComment
    <3>2. type = "NewComment"
      BY <1>1, <2>5 DEF ReadNewComment, Reads
    <3> QED BY <2>2, <3>1, <3>2 DEF RequestType
  <2>6. CASE ReadDeleteComment(k)
    <3>1. UNCHANGED outcome \/ Respond(msg.post, [type |-> "CommentNotDeleted"])
      BY <1>4, <2>6 DEF ReadDeleteComment
    <3>2. type = "DeleteComment"
      BY <1>1, <2>6 DEF ReadDeleteComment, Reads
    <3> QED BY <2>2, <3>1, <3>2 DEF RequestType
  <2> QED BY <2>3, <2>4, <2>5, <2>6 DEF ChildReads
<1> QED BY <1>3, <1>5, <1>6

(* The author is told what the journal says. *)
LEMMA HandlerOnBoard ==
  ASSUME IInv, BInv, NEW k \in Children, Handler(k)
  PROVE  OnBoard
<1>1. PICK old, convs, post : /\ old = child[k] /\ post = old.request.post
                              /\ convs = recover(child[k].memory, child[k].event).conversations
  OBVIOUS
<1>2. /\ old.phase = "written" /\ Running(k) /\ journal' = journal
      /\ Respond(post, IF old.event.type = "DHAddComment"
                         THEN [type |-> "AddedNode", node |-> Place(convs[Len(convs)])]
                         ELSE [type |-> "CommentDeleted"])
  BY <1>1 DEF Handler, Running
<1>3. /\ convs = journal.conversations
      /\ old.event.type = "DHAddComment" => convs # <<>>
  BY <1>1, <1>2 DEF IInv, MemoryInStep, InStep
<1>4. post \in Request => outcome[post].type = "sent"
  <2>1. Handles(old, post)
    BY <1>1, <1>2 DEF Handles
  <2> QED BY <1>1, <2>1 DEF BInv, SentIsHeld, Holds
<1>5. CASE old.event.type = "DHAddComment" /\ post \in Request
  <2>1. PICK node : node = Place(convs[Len(convs)])
    OBVIOUS
  <2>2. PICK answer : answer = [type |-> "AddedNode", node |-> node]
    OBVIOUS
  <2>3. outcome = [q \in Request |-> outcome[q]] /\ Respond(post, answer)
    BY <1>2, <1>5, <2>1, <2>2 DEF IInv, SpaceType
  <2>4. \A q \in Request : outcome'[q] = IF q = post THEN answer ELSE outcome[q]
    BY <2>3 DEF Respond
  <2>5. answer.type = "AddedNode" /\ answer.node = node
    BY <2>2
  <2>6. told' = told \union {node}
    BY <1>4, <1>5, <2>4, <2>5 DEF told
  <2>7. Len(convs) \in DOMAIN convs
    <3>1. convs \in Seq(Node)
      BY <1>3, JournalOfConvs DEF BInv, Whole
    <3> QED BY <1>3, <1>5, <3>1
  <2>8. node = Board!Place(convs[Len(convs)])
    BY <2>1 DEF Place, Board!Place
  <2>9. Board!Tell
    BY <1>2, <1>3, <2>6, <2>7, <2>8 DEF Board!Tell
  <2> QED BY <2>9 DEF OnBoard, Board!Next
<1>6. CASE old.event.type # "DHAddComment" \/ post \notin Request
  <2>1. told' = told
    <3>1. CASE post \notin Request
      BY <1>2, <3>1, ToldStays DEF Respond, IInv, SpaceType
    <3>2. CASE old.event.type # "DHAddComment"
      <4>1. PICK answer : answer = [type |-> "CommentDeleted"]
        OBVIOUS
      <4> QED BY <1>2, <1>4, <3>2, <4>1, AnswerToldStays
    <3> QED BY <1>6, <3>1, <3>2
  <2> QED BY <1>2, <2>1, BoardStays
<1> QED BY <1>5, <1>6

LEMMA StopOnBoard ==
  ASSUME IInv, BInv, NEW k \in Children, Running(k), Stop(k), UNCHANGED version
  PROVE  OnBoard
<1>1. Lose(Unanswered(k)) /\ WriteMayEnd(k)
  BY DEF Stop
<1>2. told' = told
  BY <1>1, UnansweredIs, LoseToldStays
<1> QED BY <1>1, <1>2, WriteMayEndIsWhole, StoreOnBoard

LEMMA CrashOnBoard ==
  ASSUME IInv, BInv, Crash
  PROVE  OnBoard
<1>1. Lose({p \in Request : outcome[p].type \in {"sent", "buffered"}}) /\ UNCHANGED version
  BY DEF Crash
<1>2. told' = told
  BY <1>1, LoseToldStays
<1>3. CASE UNCHANGED journal
  BY <1>2, <1>3, BoardStays
<1>4. CASE \E k \in Children : WriteMayEnd(k)
  BY <1>1, <1>2, <1>4, WriteMayEndIsWhole, StoreOnBoard
<1> QED BY <1>3, <1>4 DEF Crash

LEMMA NextOnBoard == IInv /\ BInv /\ [Next]_vars => OnBoard
<1> SUFFICES ASSUME IInv, BInv, [Next]_vars PROVE OnBoard
  OBVIOUS
<1>1. CASE UNCHANGED <<journal, outcome>>
  BY <1>1, ToldStays, BoardStays
<1>2. CASE RunTransition
  BY <1>2, RunTransitionOnBoard
<1>3. ASSUME NEW p \in Request, NEW payload \in Payloads, Route(p, payload) PROVE OnBoard
  BY <1>3, RouteOnBoard
<1>4. ASSUME NEW k \in Children, ChildReads(k) PROVE OnBoard
  BY <1>4, ReadsOnBoard
<1>5. ASSUME NEW k \in Children, EventWritten(k) PROVE OnBoard
  <2>1. told' = told
    BY <1>5, ToldStays DEF EventWritten
  <2> QED BY <1>5, <2>1, StoreIsWhole, StoreOnBoard DEF EventWritten
<1>6. ASSUME NEW k \in Children, Handler(k) PROVE OnBoard
  BY <1>6, HandlerOnBoard
<1>7. ASSUME NEW k \in Children, TakePoisonPill(k) \/ PersistFails(k) PROVE OnBoard
  BY <1>7, StopOnBoard DEF TakePoisonPill, PersistFails, Running
<1>8. CASE Crash
  BY <1>8, CrashOnBoard
<1>9. UNCHANGED vars \/ CurrentState \/ ManagerStep \/ (\E k \in Children : Recover(k) \/ ChildTimesOut(k))
        => UNCHANGED <<journal, outcome>>
  BY DEF vars, CurrentState, ManagerStep, Recover, ChildTimesOut
<1> QED BY <1>1, <1>2, <1>3, <1>4, <1>5, <1>6, <1>7, <1>8, <1>9 DEF Next, ChildStep

-----------------------------------------------------------------------------
(* The results. *)

THEOREM WholeInvariant == Spec => []BInv
<1>1. Init => BInv
  BY InitBInv
<1>2. IInv /\ BInv /\ [Next]_vars => BInv'
  BY NextBInv
<1> QED BY <1>1, <1>2, InductiveInvariant, PTL DEF Spec

(* Whatever the routing, the replays and the crashes do, every variable *)
(* keeps to its type and every counter to its bound.                    *)
THEOREM TypeCorrect == Spec => []TypeOK
<1>1. IInv /\ BInv => TypeOK
  <2> SUFFICES ASSUME IInv, BInv PROVE TypeOK
    OBVIOUS
  <2>1. RoutingTypeOK
    <3>1. 1 .. created \subseteq Children /\ 0 .. created \subseteq Children \union {NoChild}
      BY Numbers DEF IInv, FamilyType, NoChild
    <3>2. ParentMsg \subseteq [type : {"KillMe", "Terminated"}, child : Children]
      BY <3>1 DEF ParentMsg
    <3>3. parentBox \in Seq([type : {"KillMe", "Terminated"}, child : Children])
      BY <3>2, SeqMonotone DEF IInv, FamilyType
    <3>4. managed \in [ref : Children \union {NoChild}, state : {"Normal", "Dying"}]
      BY <3>1 DEF IInv, FamilyType
    <3> QED BY <3>3, <3>4 DEF RoutingTypeOK, IInv, FamilyType, BInv, Counted
  <2>2. journal \in Memory
    BY DEF BInv, JournalWhole
  <2> QED BY <2>1, <2>2 DEF TypeOK, BInv, Counted, ChildrenWhole, ChildTyped, Phase
<1> QED BY <1>1, InductiveInvariant, WholeInvariant, PTL

(* Who is owed an answer: a request that the manager forwarded and that is *)
(* neither answered nor lost is in the mailbox of a child or in its hands, *)
(* and what is there has not been answered yet.                            *)
THEOREM NoRequestIsForgotten == Spec => []SentIsWaiting
<1>1. IInv /\ BInv => SentIsWaiting
  <2> SUFFICES ASSUME IInv, BInv, NEW p \in Request
               PROVE  outcome[p].type = "sent" <=> \E k \in Children : p \in Unanswered(k)
    BY DEF SentIsWaiting
  <2>1. outcome[p].type = "sent" <=> \E k \in Children : Holds(child[k], mailbox[k], p)
    BY DEF BInv, SentIsHeld
  <2> QED BY <2>1, UnansweredAreHeld
<1> QED BY <1>1, InductiveInvariant, WholeInvariant, PTL

(* doAdd never forks a conversation: if the old comments of the Space did *)
(* not fork, no comment ever has two primary responses, in any order of   *)
(* requests and with any replay of the events.                            *)
THEOREM NoForks ==
  ASSUME \A id \in CommentId : Cardinality(primaries(OldConvs, id)) <= 1
  PROVE  Spec => []OneMainLine
<1>1. OneMain(OldConvs)
  BY ConversationsAssumption, MainIsOne DEF OneMain, Whole
<1>2. BInv => OneMainLine
  BY <1>1, JournalOfConvs, MainIsOne DEF BInv, JournalWhole, OneMain, OneMainLine
<1> QED BY <1>2, WholeInvariant, PTL

(* The journal of the children and what they tell the authors are those of *)
(* one board: a comment stays where it is, under an id of its own, and its *)
(* author is told its place.                                               *)
THEOREM ImplementsBoard == Spec => CommentsStay
<1>1. Init => Board!Init
  <2>1. Init => told = {}
    BY DEF Init, told
  <2> QED BY <2>1 DEF Init, NoMemory, Board!Init
<1>2. IInv /\ BInv /\ [Next]_vars => [Board!Next]_(Board!vars)
  BY NextOnBoard DEF OnBoard
<1> QED BY <1>1, <1>2, InductiveInvariant, WholeInvariant, PTL DEF Spec, CommentsStay, Board!Spec
=============================================================================
