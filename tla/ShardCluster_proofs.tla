------------------------ MODULE ShardCluster_proofs ------------------------
(***************************************************************************)
(* For every number of nodes, shards and mishaps: what a coordinator knows *)
(* a recovery finds again; and two live nodes with the same shard include  *)
(* one that was slow to answer a check, or denied a shard on its way.      *)
(***************************************************************************)
EXTENDS ShardCluster, SequenceTheorems, TLAPS

(***************************************************************************)
(* The coordinator: a shard that was just assigned is in memory only until *)
(* its event is stored.  Otherwise memory may have dropped an assignment   *)
(* that the record still has, and so may each snapshot under way.          *)
(***************************************************************************)
Assigns(events, n) == \E i \in 1 .. Len(events) :
                        events[i].type = "ShardAssigned" /\ events[i].node = n

Follows(image, full, assigned, events) ==
  /\ image.full = full
  /\ \A n \in Node : assigned[n] \in {NoShard, image.assigned[n]} \/ Assigns(events, n)

AssignedAlone ==
  \A i \in 1 .. Len(persisting) : persisting[i].type = "ShardAssigned" =>
    /\ i = 1 /\ Len(persisting) = 1
    /\ shardAssignments[persisting[i].node] = persisting[i].shard
    /\ \A m \in Node \ {persisting[i].node} : shardAssignments[m] # persisting[i].shard

RecordInStep ==
  /\ running =>
       /\ Follows(stored, fullShards, shardAssignments, persisting)
       /\ \A i \in 1 .. Len(saving) :
            Follows(saving[i], fullShards, shardAssignments, persisting)
  /\ ~running => persisting = <<>> /\ assignmentsBeingChecked = {}
  /\ AssignedAlone

(***************************************************************************)
(* The asks of a node: no message, event or answer is of a later ask than  *)
(* the one outstanding, and of that one there is only one thing under way. *)
(***************************************************************************)
InboxInOrder(box, id) ==
  \A j \in 1 .. Len(box) : /\ box[j].id <= id
                           /\ j < Len(box) => box[j].id < id

EventsAsked(n, events, box, id) ==
  \A i \in 1 .. Len(events) : events[i].node = n =>
    /\ events[i].id <= id
    /\ events[i].id = id => box = <<>> \/ id = 0

AnswersAsked(given, id) == \A a \in given : a.id <= id

AsksInStep ==
  \A n \in Node :
    /\ InboxInOrder(inbox[n], request[n].id)
    /\ EventsAsked(n, persisting, inbox[n], request[n].id)
    /\ AnswersAsked(answers[n], request[n].id)
    /\ request[n].waiting => request[n].id # 0
    /\ request[n].waiting \/ ~up[n] => shardId[n] = NoShard

(***************************************************************************)
(* A node claims the shard that it has, or that an answer to its ask will  *)
(* give it, unless the coordinator may have given it up.                   *)
(***************************************************************************)
Claims(n, s) ==
  /\ n \notin disowned
  /\ s # NoShard
  /\ shardId[n] = s \/ \E a \in Live(n) : a.shard = s

Favours(check, s) ==
  check.state \notin {"refute", "failed"} /\ (check.state = "asked" => check.shard = s)

(* The check of a claim cannot fail, and whom the coordinator buries is dead. *)
ChecksInStep ==
  /\ \A n \in terminated : ~up[n]
  /\ \A i \in 1 .. Len(persisting) : persisting[i].node \notin assignmentsBeingChecked
  /\ \A n \in assignmentsBeingChecked, s \in Shard : Claims(n, s) => Favours(checks[n], s)

(* What is claimed is on record, now and after every snapshot, and by one node only. *)
OnRecord(n, s) ==
  /\ stored.assigned[n] = s
  /\ \A i \in 1 .. Len(saving) : saving[i].assigned[n] = s
  /\ running => shardAssignments[n] = s

ClaimsInStep ==
  \A n \in Node, s \in Shard : Claims(n, s) =>
    /\ OnRecord(n, s)
    /\ inbox[n] = <<>>
    /\ \A i \in 1 .. Len(persisting) : persisting[i].node # n
    /\ \A m \in Node \ {n} : ~Claims(m, s)

IInv == TypeOK /\ RecordInStep /\ AsksInStep /\ ChecksInStep /\ ClaimsInStep
-----------------------------------------------------------------------------
(* Types. *)

LEMMA ConstantTypes ==
  /\ NoShard \in ShardOrNone /\ Shard \subseteq ShardOrNone /\ NoShard \notin Shard
  /\ NothingAssigned \in [Node -> ShardOrNone]
  /\ SetAside \subseteq Shard
  /\ SnapshotInterval \in Nat \ {0}
BY NoShardAssumption, SetAsideAssumption, SnapshotIntervalAssumption
   DEF ShardOrNone, Shard, NothingAssigned

(* A sequence without its i-th element. *)
Without(q, i) == SubSeq(q, 1, i - 1) \o SubSeq(q, i + 1, Len(q))

LEMMA WithoutOne ==
  ASSUME NEW S, NEW q \in Seq(S), NEW i \in 1 .. Len(q)
  PROVE  /\ Without(q, i) \in Seq(S) /\ Len(Without(q, i)) = Len(q) - 1
         /\ \A j \in 1 .. Len(q) - 1 :
              /\ Without(q, i)[j] = IF j < i THEN q[j] ELSE q[j + 1]
              /\ j \in 1 .. Len(q) /\ j + 1 \in 1 .. Len(q)
<1>1. PICK a, b, c : /\ a = SubSeq(q, 1, i - 1) /\ b = SubSeq(q, i + 1, Len(q))
                     /\ c = Without(q, i)
  OBVIOUS
<1>2. Len(q) \in Nat /\ i \in Nat /\ i >= 1 /\ i <= Len(q)
  OBVIOUS
<1>3. a \in Seq(S) /\ Len(a) = i - 1 /\ \A j \in 1 .. i - 1 : a[j] = q[j]
  BY <1>1, <1>2
<1>4. /\ b \in Seq(S) /\ Len(b) = Len(q) - i
      /\ \A j \in 1 .. Len(q) - i : b[j] = q[i + j]
  BY <1>1, <1>2
<1>5. /\ c \in Seq(S) /\ Len(c) = Len(a) + Len(b)
      /\ \A j \in 1 .. Len(a) + Len(b) : c[j] = IF j <= Len(a) THEN a[j] ELSE b[j - Len(a)]
  <2>1. c = a \o b
    BY <1>1 DEF Without
  <2>2. a \in Seq(S) /\ b \in Seq(S)
    BY <1>3, <1>4
  <2> QED BY <2>1, <2>2, ConcatProperties
<1>6. Len(c) = Len(q) - 1
  <2>1. Len(c) = (i - 1) + (Len(q) - i)
    BY <1>3, <1>4, <1>5
  <2> QED BY <1>2, <2>1
<1>7. ASSUME NEW j \in 1 .. Len(q) - 1
      PROVE  /\ c[j] = IF j < i THEN q[j] ELSE q[j + 1]
             /\ j \in 1 .. Len(q) /\ j + 1 \in 1 .. Len(q)
  <2>1. j \in 1 .. Len(a) + Len(b) /\ j \in 1 .. Len(q) /\ j + 1 \in 1 .. Len(q)
    BY <1>2, <1>3, <1>4
  <2>2. CASE j < i
    <3>1. j \in 1 .. i - 1 /\ j <= Len(a)
      BY <1>2, <1>3, <2>2
    <3> QED BY <1>3, <1>5, <2>1, <2>2, <3>1
  <2>3. CASE ~(j < i)
    <3>1. /\ ~(j <= Len(a)) /\ j - Len(a) \in 1 .. Len(q) - i
          /\ i + (j - Len(a)) = j + 1
      BY <1>2, <1>3, <2>3
    <3>2. c[j] = b[j - Len(a)]
      BY <1>5, <2>1, <3>1
    <3>3. b[j - Len(a)] = q[i + (j - Len(a))]
      BY <1>4, <3>1
    <3> QED BY <2>1, <2>3, <3>1, <3>2, <3>3
  <2> QED BY <2>2, <2>3
<1> QED BY <1>1, <1>5, <1>6, <1>7

LEMMA ReplayType ==
  ASSUME NEW e \in Event, NEW image \in Image
  PROVE  Replay(e, image) \in Image
<1>1. e.node \in Node /\ e.shard \in Shard /\ e.shard \in ShardOrNone
      /\ e.type \in {"ShardUnavailable", "ShardUnassigned", "ShardAssigned"}
  BY DEF Event, ShardOrNone
<1>2. CASE e.type = "ShardUnavailable"
  BY <1>1, <1>2 DEF Replay, Image
<1>3. CASE e.type = "ShardUnassigned"
  BY <1>1, <1>3, ConstantTypes DEF Replay, Image
<1>4. CASE e.type = "ShardAssigned"
  BY <1>1, <1>4 DEF Replay, Image
<1> QED BY <1>1, <1>2, <1>3, <1>4

(* What an event does to an image. *)
LEMMA ReplayDoes ==
  ASSUME NEW e \in Event, NEW image \in Image
  PROVE  /\ e.type = "ShardUnavailable" =>
              /\ Replay(e, image).full = image.full \union {e.shard}
              /\ Replay(e, image).assigned = image.assigned
         /\ e.type = "ShardUnassigned" =>
              /\ Replay(e, image).full = image.full
              /\ Replay(e, image).assigned = [image.assigned EXCEPT ![e.node] = NoShard]
         /\ e.type = "ShardAssigned" =>
              /\ Replay(e, image).full = image.full
              /\ Replay(e, image).assigned = [image.assigned EXCEPT ![e.node] = e.shard]
BY DEF Replay, Image

LEMMA ReplayAllDoes ==
  ASSUME NEW e \in Event, saving \in Seq(Image)
  PROVE  /\ ReplayAll(e) \in Seq(Image)
         /\ Len(ReplayAll(e)) = Len(saving)
         /\ \A i \in 1 .. Len(saving) : ReplayAll(e)[i] = Replay(e, saving[i])
<1>1. DOMAIN saving = 1 .. Len(saving) /\ Len(saving) \in Nat
  OBVIOUS
<1>2. \A i \in 1 .. Len(saving) : Replay(e, saving[i]) \in Image
  BY ReplayType
<1>3. ReplayAll(e) = [i \in 1 .. Len(saving) |-> Replay(e, saving[i])]
  BY <1>1 DEF ReplayAll
<1> QED BY <1>1, <1>2, <1>3

(* makeAssignment, one fact at a time. *)
LEMMA MakeAssignmentDoes ==
  ASSUME TypeOK, NEW n \in Node, NEW id \in Nat, NEW images \in Seq(Image),
         MakeAssignment(n, id, images)
  PROVE  \E s \in Shard, e \in Event :
           /\ s \notin fullShards
           /\ \A m \in Node \ {n} : shardAssignments[m] # s
           /\ shardAssignments' = [shardAssignments EXCEPT ![n] = s]
           /\ shardAssignments' \in [Node -> ShardOrNone]
           /\ e.type = "ShardAssigned" /\ e.node = n /\ e.shard = s /\ e.id = id
           /\ persisting' = <<e>>
           /\ snapshotCounter' \in 0 .. SnapshotInterval - 1
           /\ \E image \in Image :
                /\ image.full = fullShards /\ image.assigned = shardAssignments'
                /\ saving' = images \/ saving' = Append(images, image)
<1> DEFINE others == [shardAssignments EXCEPT ![n] = NoShard]
<1>1. PICK s \in Shard :
        /\ Free(others, s)
        /\ shardAssignments' = [others EXCEPT ![n] = s]
        /\ persisting' = <<[type |-> "ShardAssigned", node |-> n, shard |-> s,
                            reassign |-> FALSE, id |-> id]>>
        /\ IF snapshotCounter + 1 >= SnapshotInterval
             THEN /\ snapshotCounter' = 0
                  /\ saving' = Append(images,
                       [full |-> fullShards, assigned |-> shardAssignments'])
             ELSE /\ snapshotCounter' = snapshotCounter + 1
                  /\ saving' = images
  BY DEF MakeAssignment
<1>2. shardAssignments \in [Node -> ShardOrNone] /\ fullShards \subseteq Shard
      /\ snapshotCounter \in 0 .. SnapshotInterval - 1
  BY DEF TypeOK, CoordinatorTypeOK
<1>3. s \notin fullShards /\ \A m \in Node \ {n} : shardAssignments[m] # s
  BY <1>1, <1>2 DEF Free
<1>4. shardAssignments' = [shardAssignments EXCEPT ![n] = s]
  BY <1>1, <1>2
<1>5. shardAssignments' \in [Node -> ShardOrNone]
  BY <1>2, <1>4, ConstantTypes
<1>6. PICK e : e = [type |-> "ShardAssigned", node |-> n, shard |-> s,
                    reassign |-> FALSE, id |-> id]
  OBVIOUS
<1>7. e \in Event /\ e.type = "ShardAssigned" /\ e.node = n /\ e.shard = s /\ e.id = id
      /\ persisting' = <<e>>
  BY <1>1, <1>6 DEF Event
<1>8. snapshotCounter' \in 0 .. SnapshotInterval - 1
  BY <1>1, <1>2, ConstantTypes
<1>9. PICK image : image = [full |-> fullShards, assigned |-> shardAssignments']
  OBVIOUS
<1>10. image \in Image /\ image.full = fullShards /\ image.assigned = shardAssignments'
       /\ (saving' = images \/ saving' = Append(images, image))
  BY <1>1, <1>2, <1>5, <1>9 DEF Image
<1> QED BY <1>3, <1>4, <1>5, <1>7, <1>8, <1>10

LEMMA MakeAssignmentPersists ==
  ASSUME TypeOK, NEW n \in Node, NEW id \in Nat, NEW images \in Seq(Image),
         MakeAssignment(n, id, images)
  PROVE  \E e \in Event : persisting' = <<e>> /\ e.node = n /\ e.id = id
<1>1. PICK s \in Shard, e \in Event :
        /\ e.type = "ShardAssigned" /\ e.node = n /\ e.shard = s /\ e.id = id
        /\ persisting' = <<e>>
  BY MakeAssignmentDoes
<1> QED BY <1>1

LEMMA MakeAssignmentTypes ==
  ASSUME TypeOK, NEW n \in Node, NEW id \in Nat, NEW images \in Seq(Image),
         MakeAssignment(n, id, images)
  PROVE  /\ shardAssignments' \in [Node -> ShardOrNone] /\ persisting' \in Seq(Event)
         /\ snapshotCounter' \in 0 .. SnapshotInterval - 1 /\ saving' \in Seq(Image)
<1>1. PICK s \in Shard, e \in Event :
        /\ shardAssignments' \in [Node -> ShardOrNone]
        /\ persisting' = <<e>>
        /\ snapshotCounter' \in 0 .. SnapshotInterval - 1
        /\ \E image \in Image : saving' = images \/ saving' = Append(images, image)
  BY MakeAssignmentDoes
<1>2. persisting' \in Seq(Event)
  BY <1>1
<1>3. saving' \in Seq(Image)
  BY <1>1
<1> QED BY <1>1, <1>2, <1>3

(* unassign *)
LEMMA UnassignDoes ==
  ASSUME TypeOK, NEW n \in Node, NEW reassign \in BOOLEAN, NEW id \in Nat
  PROVE  \/ Unassign(n, reassign, id) = <<>> /\ shardAssignments[n] = NoShard
         \/ \E e \in Event :
              /\ Unassign(n, reassign, id) = <<e>>
              /\ e.type = "ShardUnassigned" /\ e.node = n /\ e.id = id
<1>1. shardAssignments[n] \in ShardOrNone
  BY DEF TypeOK, CoordinatorTypeOK
<1>2. CASE shardAssignments[n] = NoShard
  BY <1>2 DEF Unassign
<1>3. CASE shardAssignments[n] # NoShard
  <2>1. PICK e : e = [type |-> "ShardUnassigned", node |-> n, shard |-> shardAssignments[n],
                      reassign |-> reassign, id |-> id]
    OBVIOUS
  <2>2. e \in Event /\ e.type = "ShardUnassigned" /\ e.node = n /\ e.id = id
    BY <1>1, <1>3, <2>1 DEF Event, ShardOrNone
  <2> QED BY <1>3, <2>1, <2>2 DEF Unassign
<1> QED BY <1>2, <1>3
(* unassign of a node that does not ask for another shard. *)
LEMMA UnassignOnly ==
  ASSUME TypeOK, NEW n \in Node
  PROVE  \/ Unassign(n, FALSE, 0) = <<>>
         \/ \E e \in Event :
              /\ Unassign(n, FALSE, 0) = <<e>>
              /\ e.type = "ShardUnassigned" /\ e.node = n /\ e.id = 0
<1>1. \A b \in BOOLEAN :
        \/ Unassign(n, b, 0) = <<>>
        \/ \E e \in Event : /\ Unassign(n, b, 0) = <<e>>
                           /\ e.type = "ShardUnassigned" /\ e.node = n /\ e.id = 0
  BY UnassignDoes
<1> QED BY <1>1

LEMMA UnassignType ==
  ASSUME TypeOK, NEW n \in Node, NEW reassign \in BOOLEAN, NEW id \in Nat
  PROVE  Unassign(n, reassign, id) \in Seq(Event)
<1>1. CASE Unassign(n, reassign, id) = <<>>
  BY <1>1
<1>2. ASSUME NEW e \in Event, Unassign(n, reassign, id) = <<e>>
      PROVE  Unassign(n, reassign, id) \in Seq(Event)
  BY <1>2
<1> QED BY <1>1, <1>2, UnassignDoes

LEMMA TakeDoes ==
  ASSUME TypeOK, NEW n \in Node, Take(n)
  PROVE  /\ inbox' \in [Node -> Seq(Message)]
         /\ inbox' = [inbox EXCEPT ![n] = Tail(inbox[n])]
         /\ inbox[n] \in Seq(Message) /\ inbox[n] # <<>>
         /\ Head(inbox[n]) \in Message /\ Head(inbox[n]) = inbox[n][1]
         /\ Head(inbox[n]).shard \in ShardOrNone /\ Head(inbox[n]).id \in Nat
<1>1. inbox \in [Node -> Seq(Message)] /\ inbox[n] \in Seq(Message) /\ inbox[n] # <<>>
  BY DEF Take, TypeOK, NetworkTypeOK
<1>2. Head(inbox[n]) \in Message /\ Head(inbox[n]) = inbox[n][1]
      /\ Tail(inbox[n]) \in Seq(Message)
  BY <1>1
<1>3. Head(inbox[n]).shard \in ShardOrNone /\ Head(inbox[n]).id \in Nat
  BY <1>2 DEF Message
<1> QED BY <1>1, <1>2, <1>3 DEF Take

(* An event under way is stored: the journal has it, and each snapshot that *)
(* is stored later is followed by it.                                       *)
LEMMA PersistTypes ==
  ASSUME TypeOK, persisting # <<>>
  PROVE  /\ Head(persisting) \in Event /\ Head(persisting) = persisting[1]
         /\ Tail(persisting) \in Seq(Event)
         /\ Replay(Head(persisting), stored) \in Image
         /\ ReplayAll(Head(persisting)) \in Seq(Image)
<1>1. persisting \in Seq(Event) /\ saving \in Seq(Image) /\ stored \in Image
  BY DEF TypeOK, CoordinatorTypeOK
<1>2. Head(persisting) \in Event /\ Head(persisting) = persisting[1]
      /\ Tail(persisting) \in Seq(Event)
  BY <1>1
<1> QED BY <1>1, <1>2, ReplayType, ReplayAllDoes

LEMMA RequestTypes ==
  ASSUME TypeOK, NEW n \in Node, NEW shard \in ShardOrNone, NEW sent \in Seq(Message),
         RequestShardId(n, shard, sent)
  PROVE  /\ request[n].id \in Nat
         /\ request' \in [Node -> Request] /\ inbox' \in [Node -> Seq(Message)]
         /\ disowned' \subseteq Node
<1>1. request \in [Node -> Request] /\ request[n].id \in Nat /\ disowned \subseteq Node
      /\ inbox \in [Node -> Seq(Message)]
  BY DEF TypeOK, ManagerTypeOK, NetworkTypeOK, Request
<1>2. [shard |-> shard, id |-> request[n].id + 1] \in Message
      /\ [waiting |-> TRUE, shard |-> shard, id |-> request[n].id + 1] \in Request
  BY <1>1 DEF Message, Request
<1>3. Append(sent, [shard |-> shard, id |-> request[n].id + 1]) \in Seq(Message)
  BY <1>2
<1> QED BY <1>1, <1>2, <1>3 DEF RequestShardId

-----------------------------------------------------------------------------
(* Type correctness: one lemma for each part of the system. *)

LEMMA RecoveryTypes ==
  ASSUME TypeOK, Recover \/ CoordinatorStops, UNCHANGED <<managerVars>>, mishaps' \in 0 .. MaxMishaps
  PROVE  TypeOK'
<1>1. ManagerTypeOK'
  BY DEF TypeOK, ManagerTypeOK, managerVars
<1>2. ASSUME Recover PROVE NetworkTypeOK' /\ CoordinatorTypeOK'
  <2>1. NetworkTypeOK'
    BY <1>2, ConstantTypes DEF Recover, TypeOK, CoordinatorTypeOK, NetworkTypeOK, NoCheck, Image
  <2>2. CoordinatorTypeOK'
    BY <1>2, ConstantTypes DEF Recover, TypeOK, CoordinatorTypeOK, Image
  <2> QED BY <2>1, <2>2
<1>3. ASSUME CoordinatorStops PROVE NetworkTypeOK' /\ CoordinatorTypeOK'
  <2>1. NetworkTypeOK'
    BY <1>3, ConstantTypes DEF CoordinatorStops, TypeOK, NetworkTypeOK, NoCheck
  <2>2. stored' \in Image /\ saving' \in Seq(Image)
    BY <1>3, PersistTypes DEF CoordinatorStops, TypeOK, CoordinatorTypeOK
  <2>3. 0 \in 0 .. SnapshotInterval - 1
    BY ConstantTypes
  <2>4. /\ running' = FALSE /\ fullShards' = SetAside /\ shardAssignments' = NothingAssigned
        /\ assignmentsBeingChecked' = {} /\ snapshotCounter' = 0 /\ persisting' = <<>>
    BY <1>3 DEF CoordinatorStops
  <2>5. running' \in BOOLEAN /\ fullShards' \subseteq Shard
        /\ shardAssignments' \in [Node -> ShardOrNone] /\ assignmentsBeingChecked' \subseteq Node
    BY <2>4, ConstantTypes
  <2>6. persisting' \in Seq(Event)
    BY <2>4
  <2>7. CoordinatorTypeOK'
    BY <2>2, <2>3, <2>4, <2>5, <2>6 DEF CoordinatorTypeOK
  <2> QED BY <2>1, <2>7
<1> QED BY <1>1, <1>2, <1>3 DEF TypeOK

LEMMA CommandTypes ==
  ASSUME TypeOK, UNCHANGED <<managerVars, mishaps>>, NEW n \in Node,
         CheckFailed(n) \/ CheckConfirmed(n) \/ CheckRefuted(n) \/ AssignShard(n)
           \/ ShardFull(n) \/ Terminated(n)
  PROVE  TypeOK'
<1>0. /\ inbox \in [Node -> Seq(Message)] /\ answers \in [Node -> SUBSET Answer]
      /\ checks \in [Node -> [state : {"none", "asked", "confirm", "refute", "failed"},
                              shard : ShardOrNone]]
      /\ watched \subseteq Node /\ terminated \subseteq Node
      /\ running \in BOOLEAN /\ fullShards \subseteq Shard
      /\ shardAssignments \in [Node -> ShardOrNone] /\ assignmentsBeingChecked \subseteq Node
      /\ snapshotCounter \in 0 .. SnapshotInterval - 1
      /\ persisting \in Seq(Event) /\ stored \in Image /\ saving \in Seq(Image)
  BY DEF TypeOK, NetworkTypeOK, CoordinatorTypeOK
<1>1. ManagerTypeOK' /\ mishaps' \in 0 .. MaxMishaps
  BY DEF TypeOK, ManagerTypeOK, managerVars
<1>2. ASSUME CheckFailed(n) PROVE NetworkTypeOK' /\ CoordinatorTypeOK'
  <2>1. checks' \in [Node -> [state : {"none", "asked", "confirm", "refute", "failed"},
                              shard : ShardOrNone]]
    BY <1>0, <1>2, ConstantTypes DEF CheckFailed, NoCheck
  <2>2. shardAssignments' \in [Node -> ShardOrNone]
        /\ snapshotCounter' \in 0 .. SnapshotInterval - 1
    <3>1. 0 \in 0 .. SnapshotInterval - 1
      BY ConstantTypes
    <3> QED BY <1>0, <1>2, <3>1, ConstantTypes DEF CheckFailed
  <2>3. PICK image : image = [full |-> fullShards, assigned |-> shardAssignments']
    OBVIOUS
  <2>4. image \in Image
    BY <1>0, <2>2, <2>3 DEF Image
  <2>5. saving' = saving \/ saving' = Append(saving, image)
    BY <1>2, <2>3 DEF CheckFailed
  <2>6. saving' \in Seq(Image)
    <3>1. saving \in Seq(Image)
      BY <1>0
    <3> QED BY <3>1, <2>4, <2>5
  <2>7. UNCHANGED <<running, fullShards, assignmentsBeingChecked, persisting, stored, inbox,
                    answers, watched, terminated>>
    BY <1>2 DEF CheckFailed
  <2> QED BY <1>0, <2>1, <2>2, <2>6, <2>7
     DEF NetworkTypeOK, CoordinatorTypeOK
<1>3. ASSUME CheckConfirmed(n) PROVE NetworkTypeOK' /\ CoordinatorTypeOK'
  BY <1>0, <1>3, ConstantTypes
     DEF CheckConfirmed, NoCheck, coordinatorVars, coordinatorMemory, NetworkTypeOK, CoordinatorTypeOK
<1>4. ASSUME CheckRefuted(n) PROVE NetworkTypeOK' /\ CoordinatorTypeOK'
  <2>1. persisting' \in Seq(Event)
    <3>1. PICK rest : rest = Unassign(n, FALSE, 0)
      OBVIOUS
    <3>2. rest \in Seq(Event)
      BY <3>1, UnassignType, FALSE \in BOOLEAN
    <3>3. persisting' = rest \/ persisting' = <<>>
      BY <1>4, <3>1 DEF CheckRefuted
    <3>4. CASE persisting' = rest
      BY <3>2, <3>4
    <3>5. CASE persisting' = <<>>
      BY <3>5
    <3> QED BY <3>3, <3>4, <3>5
  <2>2. checks' \in [Node -> [state : {"none", "asked", "confirm", "refute", "failed"},
                              shard : ShardOrNone]]
    BY <1>0, <1>4, ConstantTypes DEF CheckRefuted, NoCheck
  <2> QED BY <1>0, <1>4, <2>1, <2>2
     DEF CheckRefuted, NetworkTypeOK, CoordinatorTypeOK
<1>5. ASSUME AssignShard(n) PROVE NetworkTypeOK' /\ CoordinatorTypeOK'
  <2>1. inbox' \in [Node -> Seq(Message)] /\ Head(inbox[n]).id \in Nat
    BY <1>5, TakeDoes DEF AssignShard
  <2>2. PICK images : images = saving
    OBVIOUS
  <2>3. MakeAssignment(n, Head(inbox[n]).id, images) /\ images \in Seq(Image)
    BY <1>0, <1>5, <2>2 DEF AssignShard
  <2>4. /\ shardAssignments' \in [Node -> ShardOrNone] /\ persisting' \in Seq(Event)
        /\ snapshotCounter' \in 0 .. SnapshotInterval - 1 /\ saving' \in Seq(Image)
    BY <2>1, <2>3, MakeAssignmentTypes
  <2> QED BY <1>0, <1>5, <2>1, <2>4
     DEF AssignShard, NetworkTypeOK, CoordinatorTypeOK
<1>6. ASSUME ShardFull(n) PROVE NetworkTypeOK' /\ CoordinatorTypeOK'
  <2>1. inbox' \in [Node -> Seq(Message)] /\ Head(inbox[n]).id \in Nat
        /\ Head(inbox[n]).shard \in Shard
    BY <1>6, TakeDoes DEF ShardFull, ShardOrNone
  <2>2. [type |-> "ShardUnavailable", node |-> n, shard |-> Head(inbox[n]).shard,
         reassign |-> FALSE, id |-> 0] \in Event
    BY <2>1 DEF Event
  <2>3. Unassign(n, TRUE, Head(inbox[n]).id) \in Seq(Event)
    BY <2>1, UnassignType
  <2>4. PICK e, rest : /\ e = [type |-> "ShardUnavailable", node |-> n,
                              shard |-> Head(inbox[n]).shard, reassign |-> FALSE, id |-> 0]
                       /\ rest = Unassign(n, TRUE, Head(inbox[n]).id)
    OBVIOUS
  <2>5. persisting' = <<e>> \o rest
    BY <1>6, <2>4 DEF ShardFull
  <2>6. e \in Event /\ rest \in Seq(Event)
    BY <2>2, <2>3, <2>4
  <2>7. persisting' \in Seq(Event)
    BY <2>5, <2>6
  <2> QED BY <1>0, <1>6, <2>1, <2>7
     DEF ShardFull, NetworkTypeOK, CoordinatorTypeOK
<1>7. ASSUME Terminated(n) PROVE NetworkTypeOK' /\ CoordinatorTypeOK'
  <2>1. persisting' \in Seq(Event)
    BY <1>7, UnassignType DEF Terminated
  <2> QED BY <1>0, <1>7, <2>1
     DEF Terminated, NetworkTypeOK, CoordinatorTypeOK
<1> QED BY <1>1, <1>2, <1>3, <1>4, <1>5, <1>6, <1>7 DEF TypeOK

LEMMA StoreTypes ==
  ASSUME TypeOK, UNCHANGED <<managerVars, mishaps>>,
         \/ UnavailablePersisted \/ UnassignedPersisted \/ AssignedPersisted
         \/ \E i \in DOMAIN saving : SnapshotSaved(i) \/ SnapshotFailed(i)
  PROVE  TypeOK'
<1>0. /\ inbox \in [Node -> Seq(Message)] /\ answers \in [Node -> SUBSET Answer]
      /\ checks \in [Node -> [state : {"none", "asked", "confirm", "refute", "failed"},
                              shard : ShardOrNone]]
      /\ watched \subseteq Node /\ terminated \subseteq Node
      /\ running \in BOOLEAN /\ fullShards \subseteq Shard
      /\ shardAssignments \in [Node -> ShardOrNone] /\ assignmentsBeingChecked \subseteq Node
      /\ snapshotCounter \in 0 .. SnapshotInterval - 1
      /\ persisting \in Seq(Event) /\ stored \in Image /\ saving \in Seq(Image)
  BY DEF TypeOK, NetworkTypeOK, CoordinatorTypeOK
<1>1. ManagerTypeOK' /\ mishaps' \in 0 .. MaxMishaps
  BY DEF TypeOK, ManagerTypeOK, managerVars
<1>2. ASSUME UnavailablePersisted PROVE NetworkTypeOK' /\ CoordinatorTypeOK'
  <2>1. persisting # <<>>
    BY <1>2 DEF UnavailablePersisted, PersistHead
  <2>2. fullShards' \subseteq Shard
    BY <1>0, <1>2, <2>1, PersistTypes DEF UnavailablePersisted, Event
  <2> QED BY <1>0, <1>2, <2>1, <2>2, PersistTypes
     DEF UnavailablePersisted, PersistHead, NetworkTypeOK, CoordinatorTypeOK
<1>3. ASSUME UnassignedPersisted PROVE NetworkTypeOK' /\ CoordinatorTypeOK'
  <2>1. persisting # <<>>
    BY <1>3 DEF UnassignedPersisted, PersistHead
  <2>2. PICK images : images = ReplayAll(Head(persisting))
    OBVIOUS
  <2>3. images \in Seq(Image) /\ Head(persisting).node \in Node /\ Head(persisting).id \in Nat
    BY <2>1, <2>2, PersistTypes DEF Event
  <2>4. ASSUME MakeAssignment(Head(persisting).node, Head(persisting).id, images)
        PROVE  /\ shardAssignments' \in [Node -> ShardOrNone] /\ persisting' \in Seq(Event)
               /\ snapshotCounter' \in 0 .. SnapshotInterval - 1 /\ saving' \in Seq(Image)
    BY <2>3, <2>4, MakeAssignmentTypes
  <2>5. /\ shardAssignments' \in [Node -> ShardOrNone] /\ persisting' \in Seq(Event)
        /\ snapshotCounter' \in 0 .. SnapshotInterval - 1 /\ saving' \in Seq(Image)
    <3>1. CASE Head(persisting).reassign
      BY <1>3, <2>2, <2>4, <3>1 DEF UnassignedPersisted
    <3>2. CASE ~Head(persisting).reassign
      <4>1. shardAssignments' = [shardAssignments EXCEPT ![Head(persisting).node] = NoShard]
            /\ persisting' = Tail(persisting) /\ saving' = images
            /\ snapshotCounter' = snapshotCounter
        BY <1>3, <2>2, <3>2 DEF UnassignedPersisted
      <4>2. Tail(persisting) \in Seq(Event)
        BY <2>1, PersistTypes
      <4>3. shardAssignments' \in [Node -> ShardOrNone]
        BY <1>0, <4>1, ConstantTypes
      <4> QED BY <1>0, <2>3, <4>1, <4>2, <4>3
    <3> QED BY <3>1, <3>2
  <2> QED BY <1>0, <1>3, <2>1, <2>5, PersistTypes
     DEF UnassignedPersisted, PersistHead, NetworkTypeOK, CoordinatorTypeOK
<1>4. ASSUME AssignedPersisted PROVE NetworkTypeOK' /\ CoordinatorTypeOK'
  <2>1. persisting # <<>>
    BY <1>4 DEF AssignedPersisted, PersistHead
  <2>2. [shard |-> Head(persisting).shard, id |-> Head(persisting).id] \in Answer
    BY <2>1, PersistTypes DEF Event, Answer
  <2>3. answers' \in [Node -> SUBSET Answer]
    BY <1>0, <1>4, <2>2 DEF AssignedPersisted
  <2> QED BY <1>0, <1>4, <2>1, <2>3, PersistTypes
     DEF AssignedPersisted, PersistHead, NetworkTypeOK, CoordinatorTypeOK
<1>5. ASSUME NEW i \in DOMAIN saving, SnapshotSaved(i) \/ SnapshotFailed(i)
      PROVE  NetworkTypeOK' /\ CoordinatorTypeOK'
  <2>1. i \in 1 .. Len(saving) /\ Len(saving) \in Nat
    BY <1>0, <1>5
  <2>2. saving[i] \in Image /\ SubSeq(saving, i + 1, Len(saving)) \in Seq(Image)
        /\ SubSeq(saving, 1, i - 1) \in Seq(Image)
    BY <1>0, <2>1
  <2>3. stored' \in Image /\ saving' \in Seq(Image)
    <3>1. CASE SnapshotSaved(i)
      BY <2>2, <3>1 DEF SnapshotSaved
    <3>2. CASE SnapshotFailed(i)
      <4>1. saving' = Without(saving, i) /\ stored' = stored
        BY <3>2 DEF SnapshotFailed, Without
      <4> QED BY <1>0, <2>1, <4>1, WithoutOne
    <3> QED BY <1>5, <3>1, <3>2
  <2>4. UNCHANGED <<coordinatorMemory, network>>
    BY <1>5 DEF SnapshotSaved, SnapshotFailed
  <2> QED BY <1>0, <2>3, <2>4
     DEF coordinatorMemory, network, NetworkTypeOK, CoordinatorTypeOK
<1> QED BY <1>1, <1>2, <1>3, <1>4, <1>5 DEF TypeOK
LEMMA RestartTypes ==
  ASSUME TypeOK, NEW n \in Node, Restart(n)
  PROVE  /\ shardId' \in [Node -> ShardOrNone] /\ routing' \in [Node -> BOOLEAN]
         /\ child' \in [Node -> ShardOrNone]
         /\ request' \in [Node -> Request] /\ inbox' \in [Node -> Seq(Message)]
         /\ disowned' \subseteq Node
<1>1. /\ shardId \in [Node -> ShardOrNone] /\ routing \in [Node -> BOOLEAN]
      /\ child \in [Node -> ShardOrNone] /\ inbox[n] \in Seq(Message)
  BY DEF TypeOK, ManagerTypeOK, NetworkTypeOK
<1>2. request' \in [Node -> Request] /\ inbox' \in [Node -> Seq(Message)]
      /\ disowned' \subseteq Node
  BY <1>1, RequestTypes, ConstantTypes DEF Restart
<1> QED BY <1>1, <1>2, ConstantTypes DEF Restart

LEMMA NodeTypes ==
  ASSUME TypeOK, UNCHANGED coordinatorVars, mishaps' \in 0 .. MaxMishaps, NEW n \in Node,
         \/ NodeStep(n) \/ NodeDies(n) \/ SendAgainHastily(n) \/ AllocatorAlarms(n)
  PROVE  TypeOK'
<1> DEFINE Checks == [state : {"none", "asked", "confirm", "refute", "failed"},
                      shard : ShardOrNone]
<1>0. /\ inbox \in [Node -> Seq(Message)] /\ answers \in [Node -> SUBSET Answer]
      /\ checks \in [Node -> Checks]
      /\ watched \subseteq Node /\ terminated \subseteq Node
      /\ up \in [Node -> BOOLEAN] /\ shardId \in [Node -> ShardOrNone]
      /\ routing \in [Node -> BOOLEAN] /\ child \in [Node -> ShardOrNone]
      /\ request \in [Node -> Request] /\ alarms \in [Node -> SUBSET Shard]
      /\ disowned \subseteq Node
  BY DEF TypeOK, NetworkTypeOK, ManagerTypeOK
<1>1. CoordinatorTypeOK'
  BY DEF TypeOK, CoordinatorTypeOK, coordinatorVars, coordinatorMemory
<1>2. inbox[n] \in Seq(Message) /\ request[n] \in Request /\ checks[n] \in Checks
      /\ checks[n].state \in {"none", "asked", "confirm", "refute", "failed"}
  BY <1>0
<1>3. ASSUME Start(n) PROVE NetworkTypeOK' /\ ManagerTypeOK'
  <2>1. <<>> \in Seq(Message)
    OBVIOUS
  <2>2. RequestShardId(n, NoShard, <<>>)
    BY <1>3 DEF Start
  <2>3. request' \in [Node -> Request] /\ inbox' \in [Node -> Seq(Message)]
        /\ disowned' \subseteq Node
    BY <2>1, <2>2, RequestTypes, ConstantTypes
  <2>4. checks' \in [Node -> Checks]
    BY <1>0, <1>2, <1>3 DEF Start
  <2>5. up' \in [Node -> BOOLEAN] /\ answers' \in [Node -> SUBSET Answer]
        /\ UNCHANGED <<shardId, routing, child, alarms, watched, terminated>>
    BY <1>0, <1>3 DEF Start
  <2> QED BY <1>0, <2>3, <2>4, <2>5 DEF NetworkTypeOK, ManagerTypeOK
<1>4. ASSUME SendAgain(n) PROVE NetworkTypeOK' /\ ManagerTypeOK'
  <2>1. [shard |-> request[n].shard, id |-> request[n].id] \in Message
    BY <1>2 DEF Request, Message
  <2>2. Append(inbox[n], [shard |-> request[n].shard, id |-> request[n].id]) \in Seq(Message)
    BY <1>2, <2>1
  <2>3. inbox' \in [Node -> Seq(Message)]
    BY <1>0, <1>4, <2>2 DEF SendAgain
  <2> QED BY <1>0, <1>4, <2>3 DEF SendAgain, NetworkTypeOK, ManagerTypeOK, managerVars
<1>5. ASSUME SendAgainHastily(n) PROVE NetworkTypeOK' /\ ManagerTypeOK'
  <2>1. request[n].shard \in ShardOrNone
    BY <1>2 DEF Request
  <2>2. RequestShardId(n, request[n].shard, inbox[n])
    BY <1>5 DEF SendAgainHastily
  <2>3. request' \in [Node -> Request] /\ inbox' \in [Node -> Seq(Message)]
        /\ disowned' \subseteq Node
    BY <1>2, <2>1, <2>2, RequestTypes
  <2> QED BY <1>0, <1>5, <2>3 DEF SendAgainHastily, NetworkTypeOK, ManagerTypeOK
<1>6. ASSUME DropAnswer(n) PROVE NetworkTypeOK' /\ ManagerTypeOK'
  BY <1>0, <1>6 DEF DropAnswer, NetworkTypeOK, ManagerTypeOK, managerVars
<1>7. ASSUME ReceiveAssignment(n) PROVE NetworkTypeOK' /\ ManagerTypeOK'
  <2>1. PICK a \in answers[n] :
          /\ answers' = [answers EXCEPT ![n] = @ \ {a}]
          /\ \/ /\ shardId' = [shardId EXCEPT ![n] = a.shard]
                /\ routing' = [routing EXCEPT ![n] = TRUE]
                /\ child' = [child EXCEPT ![n] = a.shard]
                /\ request' = [request EXCEPT ![n].waiting = FALSE]
                /\ UNCHANGED <<inbox, disowned>>
             \/ /\ shardId' = [shardId EXCEPT ![n] = a.shard]
                /\ request' = [request EXCEPT ![n].waiting = FALSE]
                /\ UNCHANGED <<inbox, routing, child, disowned>>
             \/ Restart(n)
          /\ UNCHANGED <<up, alarms, checks, watched, terminated>>
    BY <1>7 DEF ReceiveAssignment
  <2>2. a.shard \in Shard /\ a.shard \in ShardOrNone
    BY <1>0, <2>1 DEF Answer, ShardOrNone
  <2>3. [request EXCEPT ![n].waiting = FALSE] \in [Node -> Request]
    BY <1>0 DEF Request
  <2>4. /\ shardId' \in [Node -> ShardOrNone] /\ routing' \in [Node -> BOOLEAN]
        /\ child' \in [Node -> ShardOrNone]
        /\ request' \in [Node -> Request] /\ inbox' \in [Node -> Seq(Message)]
        /\ disowned' \subseteq Node
    BY <1>0, <2>1, <2>2, <2>3, RestartTypes
  <2>5. answers' \in [Node -> SUBSET Answer]
    BY <1>0, <2>1
  <2> QED BY <1>0, <2>1, <2>4, <2>5 DEF NetworkTypeOK, ManagerTypeOK
<1>8. ASSUME HandleShardFull(n) PROVE NetworkTypeOK' /\ ManagerTypeOK'
  <2>1. PICK s \in alarms[n] :
          /\ alarms' = [alarms EXCEPT ![n] = @ \ {s}]
          /\ \/ Restart(n)
             \/ UNCHANGED <<shardId, routing, child, request, disowned, inbox>>
             \/ /\ shardId' = [shardId EXCEPT ![n] = NoShard]
                /\ routing' = [routing EXCEPT ![n] = FALSE]
                /\ RequestShardId(n, s, inbox[n])
                /\ UNCHANGED child
          /\ UNCHANGED <<up, answers, checks, watched, terminated>>
    BY <1>8 DEF HandleShardFull
  <2>2. s \in Shard /\ s \in ShardOrNone
    BY <1>0, <2>1 DEF ShardOrNone
  <2>3. ASSUME RequestShardId(n, s, inbox[n])
        PROVE  request' \in [Node -> Request] /\ inbox' \in [Node -> Seq(Message)]
               /\ disowned' \subseteq Node
    BY <1>2, <2>2, <2>3, RequestTypes
  <2>4. /\ shardId' \in [Node -> ShardOrNone] /\ routing' \in [Node -> BOOLEAN]
        /\ child' \in [Node -> ShardOrNone]
        /\ request' \in [Node -> Request] /\ inbox' \in [Node -> Seq(Message)]
        /\ disowned' \subseteq Node
    <3>1. CASE Restart(n)
      BY <3>1, RestartTypes
    <3>2. CASE UNCHANGED <<shardId, routing, child, request, disowned, inbox>>
      BY <1>0, <3>2
    <3>3. CASE /\ shardId' = [shardId EXCEPT ![n] = NoShard]
               /\ routing' = [routing EXCEPT ![n] = FALSE]
               /\ RequestShardId(n, s, inbox[n])
               /\ UNCHANGED child
      BY <1>0, <2>3, <3>3, ConstantTypes
    <3> QED BY <2>1, <3>1, <3>2, <3>3
  <2>5. alarms' \in [Node -> SUBSET Shard]
    BY <1>0, <2>1
  <2> QED BY <1>0, <2>1, <2>4, <2>5 DEF NetworkTypeOK, ManagerTypeOK
<1>9. ASSUME AnswerCheck(n) PROVE NetworkTypeOK' /\ ManagerTypeOK'
  <2>1. checks' \in [Node -> Checks]
    BY <1>0, <1>2, <1>9 DEF AnswerCheck
  <2> QED BY <1>0, <1>9, <2>1 DEF AnswerCheck, NetworkTypeOK, ManagerTypeOK, managerVars
<1>10. ASSUME NodeDies(n) PROVE NetworkTypeOK' /\ ManagerTypeOK'
  <2>1. PICK k \in 0 .. Len(inbox[n]) : inbox' = [inbox EXCEPT ![n] = SubSeq(@, 1, k)]
    BY <1>10 DEF NodeDies
  <2>2. SubSeq(inbox[n], 1, k) \in Seq(Message)
    BY <1>2, <2>1
  <2>3. inbox' \in [Node -> Seq(Message)]
    BY <1>0, <2>1, <2>2
  <2>4. request' \in [Node -> Request]
    <3>1. [request EXCEPT ![n].waiting = FALSE] \in [Node -> Request]
      BY <1>0 DEF Request
    <3> QED BY <1>10, <3>1 DEF NodeDies
  <2>5. /\ up' \in [Node -> BOOLEAN] /\ shardId' \in [Node -> ShardOrNone]
        /\ routing' \in [Node -> BOOLEAN] /\ child' \in [Node -> ShardOrNone]
        /\ alarms' \in [Node -> SUBSET Shard] /\ answers' \in [Node -> SUBSET Answer]
        /\ disowned' \subseteq Node /\ UNCHANGED <<checks, watched, terminated>>
    BY <1>0, <1>10, ConstantTypes DEF NodeDies
  <2> QED BY <1>0, <2>3, <2>4, <2>5 DEF NetworkTypeOK, ManagerTypeOK
<1>11. ASSUME AllocatorAlarms(n) PROVE NetworkTypeOK' /\ ManagerTypeOK'
  <2>1. child[n] \in Shard
    BY <1>0, <1>11 DEF AllocatorAlarms, ShardOrNone
  <2> QED BY <1>0, <1>11, <2>1 DEF AllocatorAlarms, NetworkTypeOK, ManagerTypeOK, network
<1> QED BY <1>1, <1>3, <1>4, <1>5, <1>6, <1>7, <1>8, <1>9, <1>10, <1>11 DEF NodeStep, TypeOK

LEMMA FaultTypes ==
  ASSUME TypeOK, mishaps' \in 0 .. MaxMishaps, NEW n \in Node,
         CheckTimesOut(n) \/ DetectDeath(n) \/ LoseMessage(n) \/ LoseAnswer(n)
  PROVE  TypeOK'
<1>0. /\ inbox \in [Node -> Seq(Message)] /\ answers \in [Node -> SUBSET Answer]
      /\ checks \in [Node -> [state : {"none", "asked", "confirm", "refute", "failed"},
                              shard : ShardOrNone]]
      /\ watched \subseteq Node /\ terminated \subseteq Node
  BY DEF TypeOK, NetworkTypeOK
<1>1. CoordinatorTypeOK' /\ ManagerTypeOK'
  <2>1. UNCHANGED <<coordinatorVars, up, shardId, routing, child, request, alarms>>
    BY DEF managerVars, CheckTimesOut, DetectDeath, LoseMessage, LoseAnswer
  <2>2. disowned' \subseteq Node
    BY DEF TypeOK, ManagerTypeOK, managerVars, CheckTimesOut, DetectDeath, LoseMessage, LoseAnswer
  <2> QED BY <2>1, <2>2 DEF TypeOK, CoordinatorTypeOK, ManagerTypeOK, coordinatorVars,
                           coordinatorMemory
<1>2. ASSUME CheckTimesOut(n) PROVE NetworkTypeOK'
  BY <1>0, <1>2 DEF CheckTimesOut, NetworkTypeOK
<1>3. ASSUME DetectDeath(n) PROVE NetworkTypeOK'
  BY <1>0, <1>3 DEF DetectDeath, NetworkTypeOK
<1>4. ASSUME LoseMessage(n) PROVE NetworkTypeOK'
  <2>1. PICK i \in DOMAIN inbox[n] : inbox' = [inbox EXCEPT ![n] = RemoveAt(@, i)]
    BY <1>4 DEF LoseMessage
  <2>2. inbox[n] \in Seq(Message) /\ i \in 1 .. Len(inbox[n]) /\ Len(inbox[n]) \in Nat
    BY <1>0, <2>1
  <2>3. RemoveAt(inbox[n], i) \in Seq(Message)
    BY <2>2 DEF RemoveAt
  <2> QED BY <1>0, <1>4, <2>1, <2>3 DEF LoseMessage, NetworkTypeOK
<1>5. ASSUME LoseAnswer(n) PROVE NetworkTypeOK'
  BY <1>0, <1>5 DEF LoseAnswer, NetworkTypeOK
<1> QED BY <1>1, <1>2, <1>3, <1>4, <1>5 DEF TypeOK

LEMMA StepTypes ==
  ASSUME TypeOK, [Next]_vars
  PROVE  TypeOK'
<1>1. GoesWrong => mishaps' \in 0 .. MaxMishaps
  BY MaxMishapsAssumption DEF GoesWrong, TypeOK
<1>2. mishaps \in 0 .. MaxMishaps
  BY DEF TypeOK
<1>3. CASE Recover /\ UNCHANGED <<managerVars, mishaps>>
  BY <1>2, <1>3, RecoveryTypes
<1>4. CASE CoordinatorStep /\ UNCHANGED <<managerVars, mishaps>>
  BY <1>4, CommandTypes, StoreTypes DEF CoordinatorStep
<1>5. CASE GoesWrong /\ CoordinatorStops /\ UNCHANGED managerVars
  BY <1>1, <1>5, RecoveryTypes
<1>6. ASSUME NEW n \in Node, NodeStep(n) /\ UNCHANGED <<coordinatorVars, mishaps>>
      PROVE  TypeOK'
  BY <1>2, <1>6, NodeTypes
<1>7. ASSUME NEW n \in Node, UNCHANGED mishaps, CheckTimesOut(n) \/ DetectDeath(n)
      PROVE  TypeOK'
  BY <1>2, <1>7, FaultTypes
<1>8. ASSUME NEW n \in Node, Mishaps(n) PROVE TypeOK'
  <2>1. mishaps' \in 0 .. MaxMishaps
    BY <1>1, <1>8 DEF Mishaps
  <2> QED BY <1>8, <2>1, NodeTypes, FaultTypes DEF Mishaps
<1>9. CASE UNCHANGED vars
  <2>1. UNCHANGED <<managerVars, coordinatorVars, network, mishaps>>
    BY <1>9 DEF vars
  <2> QED BY <2>1 DEF TypeOK, NetworkTypeOK, CoordinatorTypeOK, ManagerTypeOK, network,
                     coordinatorVars, coordinatorMemory, managerVars
<1> QED BY <1>3, <1>4, <1>5, <1>6, <1>7, <1>8, <1>9 DEF Next

LEMMA InitTypes == Init => TypeOK
<1> SUFFICES ASSUME Init PROVE TypeOK
  OBVIOUS
<1>1. NetworkTypeOK
  BY ConstantTypes DEF Init, NetworkInit, NetworkTypeOK, NoCheck
<1>2. CoordinatorTypeOK
  <2>1. running \in BOOLEAN /\ fullShards \subseteq Shard
        /\ shardAssignments \in [Node -> ShardOrNone] /\ assignmentsBeingChecked \subseteq Node
        /\ snapshotCounter \in 0 .. SnapshotInterval - 1
    <3>1. 0 \in 0 .. SnapshotInterval - 1
      BY ConstantTypes
    <3> QED BY <3>1, ConstantTypes DEF Init, CoordinatorInit
  <2>2. persisting \in Seq(Event)
    BY DEF Init, CoordinatorInit
  <2>3. saving \in Seq(Image)
    BY DEF Init, CoordinatorInit
  <2>4. stored \in Image
    BY ConstantTypes DEF Init, CoordinatorInit, Image
  <2> QED BY <2>1, <2>2, <2>3, <2>4 DEF CoordinatorTypeOK
<1>3. ManagerTypeOK
  BY ConstantTypes DEF Init, ManagerInit, ManagerTypeOK, Request
<1>4. mishaps \in 0 .. MaxMishaps
  BY MaxMishapsAssumption DEF Init
<1> QED BY <1>1, <1>2, <1>3, <1>4 DEF TypeOK

(***************************************************************************)
(* Every message, answer, event, snapshot and assignment is well formed,   *)
(* whatever coordinators, nodes and network do.                            *)
(***************************************************************************)
THEOREM TypeCorrect == Spec => []TypeOK
BY InitTypes, StepTypes, PTL DEF Spec
-----------------------------------------------------------------------------
(* The record: what each step of the coordinator does to what it stores. *)

LEMMA ShardFullDoes ==
  ASSUME TypeOK, NEW n \in Node, ShardFull(n)
  PROVE  /\ Len(persisting') \in {1, 2}
         /\ persisting'[1].type = "ShardUnavailable" /\ persisting'[1].node = n
         /\ persisting'[1].id = 0
         /\ Len(persisting') = 2 =>
              /\ persisting'[2].type = "ShardUnassigned" /\ persisting'[2].node = n
              /\ persisting'[2].id = Head(inbox[n]).id
<1>1. Head(inbox[n]).shard \in Shard /\ Head(inbox[n]).id \in Nat
  BY TakeDoes DEF ShardFull, ShardOrNone
<1>2. PICK e, rest, id :
        /\ e = [type |-> "ShardUnavailable", node |-> n,
                shard |-> Head(inbox[n]).shard, reassign |-> FALSE, id |-> 0]
        /\ rest = Unassign(n, TRUE, id) /\ id = Head(inbox[n]).id
  OBVIOUS
<1>3. persisting' = <<e>> \o rest
  BY <1>2 DEF ShardFull
<1>4. e \in Event /\ e.type = "ShardUnavailable" /\ e.node = n /\ e.id = 0
  BY <1>1, <1>2 DEF Event
<1>5. \/ rest = <<>>
      \/ \E f \in Event : rest = <<f>> /\ f.type = "ShardUnassigned" /\ f.node = n /\ f.id = id
  <2>1. id \in Nat /\ TRUE \in BOOLEAN
    BY <1>1, <1>2
  <2>2. \A b \in BOOLEAN :
          \/ Unassign(n, b, id) = <<>>
          \/ \E f \in Event : /\ Unassign(n, b, id) = <<f>>
                             /\ f.type = "ShardUnassigned" /\ f.node = n /\ f.id = id
    BY <2>1, UnassignDoes
  <2>3. \/ Unassign(n, TRUE, id) = <<>>
        \/ \E f \in Event : /\ Unassign(n, TRUE, id) = <<f>>
                           /\ f.type = "ShardUnassigned" /\ f.node = n /\ f.id = id
    BY <2>1, <2>2
  <2> QED BY <1>2, <2>3
<1>6. PICK first : first = <<e>>
  OBVIOUS
<1>7. first \in Seq(Event) /\ Len(first) = 1 /\ first[1] = e
  BY <1>4, <1>6
<1>8. CASE rest = <<>>
  <2>1. persisting' = first
    BY <1>3, <1>6, <1>7, <1>8
  <2> QED BY <1>4, <1>7, <2>1
<1>9. ASSUME NEW f \in Event, rest = <<f>>, f.type = "ShardUnassigned", f.node = n, f.id = id
      PROVE  /\ Len(persisting') = 2 /\ persisting'[1] = e /\ persisting'[2] = f
  <2>1. rest \in Seq(Event) /\ Len(rest) = 1 /\ rest[1] = f
    BY <1>9
  <2>2. persisting' = first \o rest
    BY <1>3, <1>6
  <2>3. /\ Len(first \o rest) = Len(first) + Len(rest)
        /\ \A i \in 1 .. Len(first) + Len(rest) :
             (first \o rest)[i] = IF i <= Len(first) THEN first[i] ELSE rest[i - Len(first)]
    <3>1. first \in Seq(Event) /\ rest \in Seq(Event)
      BY <1>7, <2>1
    <3> QED BY <3>1, ConcatProperties
  <2>4. Len(first \o rest) = 2 /\ (first \o rest)[1] = first[1]
    BY <1>7, <2>1, <2>3
  <2>5. (first \o rest)[2] = rest[2 - 1]
    BY <1>7, <2>1, <2>3
  <2> QED BY <1>7, <2>1, <2>2, <2>3, <2>4, <2>5
<1> QED BY <1>2, <1>4, <1>5, <1>8, <1>9

(* The events that these commands persist assign nothing. *)
LEMMA CommandEvents ==
  ASSUME TypeOK, NEW n \in Node, CheckRefuted(n) \/ ShardFull(n) \/ Terminated(n)
  PROVE  /\ \A i \in 1 .. Len(persisting') :
              persisting'[i].type # "ShardAssigned" /\ persisting'[i].node = n
         /\ UNCHANGED <<running, fullShards, shardAssignments, stored, saving>>
<1>1. ASSUME NEW rest, rest = Unassign(n, FALSE, 0), persisting' = rest \/ persisting' = <<>>
      PROVE  \A i \in 1 .. Len(persisting') :
               persisting'[i].type # "ShardAssigned" /\ persisting'[i].node = n
  <2>1. rest = <<>> \/ \E e \in Event : /\ rest = <<e>>
                                        /\ e.type = "ShardUnassigned" /\ e.node = n
    BY <1>1, UnassignOnly
  <2>2. CASE persisting' = <<>>
    BY <2>2
  <2>3. ASSUME NEW e \in Event, persisting' = <<e>>,
               e.type = "ShardUnassigned", e.node = n
        PROVE  \A i \in 1 .. Len(persisting') :
                 persisting'[i].type # "ShardAssigned" /\ persisting'[i].node = n
    BY <2>3
  <2> QED BY <1>1, <2>1, <2>2, <2>3
<1>2. CASE CheckRefuted(n) \/ Terminated(n)
  <2>1. PICK rest : rest = Unassign(n, FALSE, 0)
    OBVIOUS
  <2>2. persisting' = rest \/ persisting' = <<>>
    BY <1>2, <2>1 DEF CheckRefuted, Terminated
  <2> QED BY <1>1, <1>2, <2>1, <2>2 DEF CheckRefuted, Terminated
<1>3. CASE ShardFull(n)
  <2>4. UNCHANGED <<running, fullShards, shardAssignments, stored, saving>>
    BY <1>3 DEF ShardFull
  <2>5. \A i \in 1 .. Len(persisting') :
          persisting'[i].type # "ShardAssigned" /\ persisting'[i].node = n
    BY <1>3, ShardFullDoes
  <2> QED BY <2>4, <2>5
<1> QED BY <1>2, <1>3

LEMMA RecordCommands ==
  ASSUME TypeOK, TypeOK', RecordInStep, NEW n \in Node,
         CheckFailed(n) \/ CheckConfirmed(n) \/ CheckRefuted(n) \/ AssignShard(n)
           \/ ShardFull(n) \/ Terminated(n)
  PROVE  RecordInStep'
<1>1. /\ running /\ persisting = <<>>
      /\ saving \in Seq(Image) /\ stored \in Image
      /\ shardAssignments \in [Node -> ShardOrNone]
      /\ assignmentsBeingChecked \subseteq Node
  BY DEF CheckFailed, CheckConfirmed, CheckRefuted, AssignShard, ShardFull, Terminated, Ready,
         TypeOK, CoordinatorTypeOK
<1>2. \A m \in Node : ~Assigns(<<>>, m)
  BY DEF Assigns
<1>3. \A image : Follows(image, fullShards, shardAssignments, <<>>) =>
        /\ image.full = fullShards
        /\ \A m \in Node : shardAssignments[m] \in {NoShard, image.assigned[m]}
  BY <1>2 DEF Follows
<1>4. /\ Follows(stored, fullShards, shardAssignments, <<>>)
      /\ \A i \in 1 .. Len(saving) : Follows(saving[i], fullShards, shardAssignments, <<>>)
  BY <1>1 DEF RecordInStep
<1>5. ASSUME CheckFailed(n) PROVE RecordInStep'
  <2>1. /\ running' /\ persisting' = <<>> /\ stored' = stored /\ fullShards' = fullShards
        /\ \A m \in Node : shardAssignments'[m] \in {NoShard, shardAssignments[m]}
    BY <1>1, <1>5 DEF CheckFailed
  <2>2. \A image : Follows(image, fullShards, shardAssignments, <<>>) =>
                     Follows(image, fullShards', shardAssignments', <<>>)
    BY <1>3, <2>1 DEF Follows
  <2>3. PICK image : image = [full |-> fullShards, assigned |-> shardAssignments']
    OBVIOUS
  <2>4. Follows(image, fullShards', shardAssignments', <<>>)
    BY <2>1, <2>3 DEF Follows
  <2>5. saving' = saving \/ saving' = Append(saving, image)
    BY <1>5, <2>3 DEF CheckFailed
  <2>6. \A i \in 1 .. Len(saving') : Follows(saving'[i], fullShards', shardAssignments', <<>>)
    <3>1. CASE saving' = saving
      BY <1>4, <2>2, <3>1
    <3>2. CASE saving' = Append(saving, image)
      BY <1>1, <1>4, <2>2, <2>4, <3>2
    <3> QED BY <2>5, <3>1, <3>2
  <2>7. AssignedAlone'
    BY <2>1 DEF AssignedAlone
  <2> QED BY <1>4, <2>1, <2>2, <2>6, <2>7 DEF RecordInStep
<1>6. ASSUME CheckConfirmed(n) PROVE RecordInStep'
  BY <1>6 DEF CheckConfirmed, RecordInStep, AssignedAlone, coordinatorVars, coordinatorMemory
<1>7. ASSUME CheckRefuted(n) \/ ShardFull(n) \/ Terminated(n) PROVE RecordInStep'
  <2>1. /\ \A i \in 1 .. Len(persisting') : persisting'[i].type # "ShardAssigned"
        /\ UNCHANGED <<running, fullShards, shardAssignments, stored, saving>>
    BY <1>7, CommandEvents
  <2>2. \A image : Follows(image, fullShards, shardAssignments, <<>>) =>
                     Follows(image, fullShards', shardAssignments', persisting')
    BY <1>3, <2>1 DEF Follows
  <2>3. AssignedAlone'
    BY <2>1 DEF AssignedAlone
  <2> QED BY <1>1, <1>4, <2>1, <2>2, <2>3 DEF RecordInStep
<1>8. ASSUME AssignShard(n) PROVE RecordInStep'
  <2>1. Head(inbox[n]).id \in Nat /\ UNCHANGED <<running, fullShards, stored>>
    BY <1>8, TakeDoes DEF AssignShard
  <2>2. PICK images : images = saving
    OBVIOUS
  <2>3. MakeAssignment(n, Head(inbox[n]).id, images) /\ images \in Seq(Image)
    BY <1>1, <1>8, <2>2 DEF AssignShard
  <2>4. PICK s \in Shard, e \in Event :
           /\ \A m \in Node \ {n} : shardAssignments[m] # s
           /\ shardAssignments' = [shardAssignments EXCEPT ![n] = s]
           /\ e.type = "ShardAssigned" /\ e.node = n /\ e.shard = s
           /\ persisting' = <<e>>
           /\ \E image \in Image :
                /\ image.full = fullShards /\ image.assigned = shardAssignments'
                /\ saving' = images \/ saving' = Append(images, image)
    BY <2>1, <2>3, MakeAssignmentDoes
  <2>5. \A m \in Node : Assigns(<<e>>, m) <=> m = n
    BY <2>4 DEF Assigns
  <2>6. \A image : Follows(image, fullShards, shardAssignments, <<>>) =>
                     Follows(image, fullShards', shardAssignments', persisting')
    BY <1>1, <1>3, <2>1, <2>4, <2>5 DEF Follows
  <2>7. \A i \in 1 .. Len(saving') :
          Follows(saving'[i], fullShards', shardAssignments', persisting')
    <3>1. PICK image \in Image :
            /\ image.full = fullShards /\ image.assigned = shardAssignments'
            /\ saving' = saving \/ saving' = Append(saving, image)
      BY <2>2, <2>4
    <3>2. Follows(image, fullShards', shardAssignments', persisting')
      BY <2>1, <3>1 DEF Follows
    <3>3. CASE saving' = saving
      BY <1>4, <2>6, <3>3
    <3>4. CASE saving' = Append(saving, image)
      BY <1>1, <1>4, <2>6, <3>2, <3>4
    <3> QED BY <3>1, <3>3, <3>4
  <2>8. AssignedAlone'
    BY <1>1, <2>4 DEF AssignedAlone
  <2> QED BY <1>1, <1>4, <2>1, <2>6, <2>7, <2>8 DEF RecordInStep
<1> QED BY <1>5, <1>6, <1>7, <1>8
LEMMA RecordStores ==
  ASSUME TypeOK, TypeOK', RecordInStep,
         UnavailablePersisted \/ UnassignedPersisted \/ AssignedPersisted
  PROVE  RecordInStep'
<1>1. /\ running /\ running' /\ persisting # <<>>
      /\ UNCHANGED assignmentsBeingChecked
      /\ stored' = Replay(Head(persisting), stored)
      /\ saving \in Seq(Image) /\ stored \in Image /\ persisting \in Seq(Event)
      /\ shardAssignments \in [Node -> ShardOrNone]
  BY DEF UnavailablePersisted, UnassignedPersisted, AssignedPersisted, PersistHead, TypeOK,
         CoordinatorTypeOK
<1>2. PICK e : e = Head(persisting)
  OBVIOUS
<1>3. /\ e \in Event /\ e = persisting[1] /\ e.node \in Node /\ e.shard \in Shard /\ e.id \in Nat
      /\ Len(persisting) \in Nat /\ Len(persisting) >= 1
  <2>1. e \in Event /\ e = persisting[1] /\ Len(persisting) \in Nat /\ Len(persisting) >= 1
    BY <1>1, <1>2
  <2> QED BY <2>1 DEF Event
<1>4. PICK images : images = ReplayAll(e)
  OBVIOUS
<1>5. /\ images \in Seq(Image) /\ Len(images) = Len(saving)
      /\ \A i \in 1 .. Len(saving) : images[i] = Replay(e, saving[i])
  BY <1>1, <1>3, <1>4, ReplayAllDoes
<1>6. /\ Len(Tail(persisting)) = Len(persisting) - 1
      /\ \A i \in 1 .. Len(Tail(persisting)) : Tail(persisting)[i] = persisting[i + 1]
                                              /\ i + 1 \in 1 .. Len(persisting)
  BY <1>1, <1>3
<1>7. /\ Follows(stored, fullShards, shardAssignments, persisting)
      /\ \A i \in 1 .. Len(saving) :
           Follows(saving[i], fullShards, shardAssignments, persisting)
      /\ AssignedAlone
  BY <1>1 DEF RecordInStep
(* If replaying the event keeps every image in step, the record stays in step. *)
<1>8. ASSUME \A image \in Image :
               Follows(image, fullShards, shardAssignments, persisting) =>
                 Follows(Replay(e, image), fullShards', shardAssignments', persisting')
      PROVE  /\ Follows(stored', fullShards', shardAssignments', persisting')
             /\ \A i \in 1 .. Len(images) :
                  Follows(images[i], fullShards', shardAssignments', persisting')
  <2>1. \A i \in 1 .. Len(saving) : saving[i] \in Image
    BY <1>1
  <2> QED BY <1>1, <1>2, <1>5, <1>7, <1>8, <2>1
(* Only the last event under way assigns a shard. *)
<1>9. ASSUME e.type # "ShardAssigned"
      PROVE  /\ \A m \in Node : ~Assigns(persisting, m) /\ ~Assigns(Tail(persisting), m)
             /\ \A i \in 1 .. Len(Tail(persisting)) : Tail(persisting)[i].type # "ShardAssigned"
  <2>1. \A i \in 1 .. Len(persisting) : persisting[i].type # "ShardAssigned"
    BY <1>3, <1>7, <1>9 DEF AssignedAlone
  <2> QED BY <1>6, <2>1 DEF Assigns
<1>10. CASE UnavailablePersisted
  <2>1. /\ e.type = "ShardUnavailable" /\ fullShards' = fullShards \union {e.shard}
        /\ persisting' = Tail(persisting) /\ saving' = images
        /\ UNCHANGED shardAssignments
    BY <1>2, <1>4, <1>10 DEF UnavailablePersisted, PersistHead
  <2>2. \A image \in Image : Replay(e, image).full = image.full \union {e.shard}
                             /\ Replay(e, image).assigned = image.assigned
    BY <1>3, <2>1, ReplayDoes
  <2>3. \A image \in Image :
          Follows(image, fullShards, shardAssignments, persisting) =>
            Follows(Replay(e, image), fullShards', shardAssignments', persisting')
    BY <1>9, <2>1, <2>2 DEF Follows
  <2>4. AssignedAlone'
    BY <1>9, <2>1 DEF AssignedAlone
  <2> QED BY <1>1, <1>8, <2>1, <2>3, <2>4 DEF RecordInStep
<1>11. CASE UnassignedPersisted
  <2>1. e.type = "ShardUnassigned" /\ UNCHANGED fullShards
    BY <1>2, <1>11 DEF UnassignedPersisted, PersistHead
  <2>2. \A image \in Image :
          /\ Replay(e, image).full = image.full
          /\ Replay(e, image).assigned = [image.assigned EXCEPT ![e.node] = NoShard]
          /\ image.assigned \in [Node -> ShardOrNone]
    BY <1>3, <2>1, ReplayDoes DEF Image
  <2>3. CASE e.reassign
    <3>1. MakeAssignment(e.node, e.id, images)
      BY <1>2, <1>4, <1>11, <2>3 DEF UnassignedPersisted
    <3>2. PICK s \in Shard, f \in Event :
             /\ \A m \in Node \ {e.node} : shardAssignments[m] # s
             /\ shardAssignments' = [shardAssignments EXCEPT ![e.node] = s]
             /\ f.type = "ShardAssigned" /\ f.node = e.node /\ f.shard = s
             /\ persisting' = <<f>>
             /\ \E image \in Image :
                  /\ image.full = fullShards /\ image.assigned = shardAssignments'
                  /\ saving' = images \/ saving' = Append(images, image)
      BY <1>3, <1>5, <3>1, MakeAssignmentDoes
    <3>3. \A m \in Node : Assigns(<<f>>, m) <=> m = e.node
      BY <3>2 DEF Assigns
    <3>4. \A image \in Image :
            Follows(image, fullShards, shardAssignments, persisting) =>
              Follows(Replay(e, image), fullShards', shardAssignments', persisting')
      <4>1. SUFFICES ASSUME NEW image \in Image,
                            Follows(image, fullShards, shardAssignments, persisting)
                     PROVE  Follows(Replay(e, image), fullShards', shardAssignments', <<f>>)
        BY <3>2
      <4>2. /\ image.full = fullShards
            /\ \A m \in Node : shardAssignments[m] \in {NoShard, image.assigned[m]}
        BY <1>9, <2>1, <4>1 DEF Follows
      <4>3. ASSUME NEW m \in Node, m # e.node
            PROVE  shardAssignments'[m] \in {NoShard, Replay(e, image).assigned[m]}
        <5>1. shardAssignments'[m] = shardAssignments[m]
          BY <1>1, <1>3, <3>2, <4>3
        <5>2. Replay(e, image).assigned[m] = image.assigned[m]
          BY <1>3, <2>2, <4>3
        <5> QED BY <4>2, <5>1, <5>2
      <4> QED BY <2>1, <2>2, <3>3, <4>2, <4>3 DEF Follows
    <3>5. PICK image \in Image :
            /\ image.full = fullShards /\ image.assigned = shardAssignments'
            /\ saving' = images \/ saving' = Append(images, image)
      BY <3>2
    <3>6. Follows(image, fullShards', shardAssignments', persisting')
      BY <2>1, <3>5 DEF Follows
    <3>7. \A i \in 1 .. Len(saving') :
            Follows(saving'[i], fullShards', shardAssignments', persisting')
      <4>1. CASE saving' = images
        BY <1>8, <3>4, <4>1
      <4>2. CASE saving' = Append(images, image)
        BY <1>5, <1>8, <3>4, <3>6, <4>2
      <4> QED BY <3>5, <4>1, <4>2
    <3>8. AssignedAlone'
      BY <1>1, <1>3, <3>2 DEF AssignedAlone
    <3> QED BY <1>1, <1>8, <3>4, <3>7, <3>8 DEF RecordInStep
  <2>4. CASE ~e.reassign
    <3>1. /\ shardAssignments' = [shardAssignments EXCEPT ![e.node] = NoShard]
          /\ persisting' = Tail(persisting) /\ saving' = images
      BY <1>2, <1>4, <1>11, <2>4 DEF UnassignedPersisted
    <3>2. \A image \in Image :
            Follows(image, fullShards, shardAssignments, persisting) =>
              Follows(Replay(e, image), fullShards', shardAssignments', persisting')
      <4>1. SUFFICES ASSUME NEW image \in Image,
                            Follows(image, fullShards, shardAssignments, persisting)
                     PROVE  Follows(Replay(e, image), fullShards', shardAssignments', persisting')
        OBVIOUS
      <4>2. /\ image.full = fullShards
            /\ \A m \in Node : shardAssignments[m] \in {NoShard, image.assigned[m]}
        BY <1>9, <2>1, <4>1 DEF Follows
      <4>3. ASSUME NEW m \in Node
            PROVE  shardAssignments'[m] \in {NoShard, Replay(e, image).assigned[m]}
        <5>1. CASE m = e.node
          BY <1>1, <3>1, <5>1
        <5>2. CASE m # e.node
          <6>1. shardAssignments'[m] = shardAssignments[m]
            BY <1>1, <1>3, <3>1, <5>2
          <6>2. Replay(e, image).assigned[m] = image.assigned[m]
            BY <1>3, <2>2, <5>2
          <6> QED BY <4>2, <6>1, <6>2
        <5> QED BY <5>1, <5>2
      <4> QED BY <2>1, <2>2, <4>2, <4>3 DEF Follows
    <3>3. AssignedAlone'
      BY <1>9, <2>1, <3>1 DEF AssignedAlone
    <3> QED BY <1>1, <1>8, <3>1, <3>2, <3>3 DEF RecordInStep
  <2> QED BY <2>3, <2>4
<1>12. CASE AssignedPersisted
  <2>1. /\ e.type = "ShardAssigned" /\ UNCHANGED <<fullShards, shardAssignments>>
        /\ persisting' = Tail(persisting) /\ saving' = images
    BY <1>2, <1>4, <1>12 DEF AssignedPersisted, PersistHead
  <2>2. Len(persisting) = 1 /\ shardAssignments[e.node] = e.shard
    BY <1>3, <1>7, <2>1 DEF AssignedAlone
  <2>3. \A image \in Image :
          /\ Replay(e, image).full = image.full
          /\ Replay(e, image).assigned = [image.assigned EXCEPT ![e.node] = e.shard]
          /\ image.assigned \in [Node -> ShardOrNone]
    BY <1>3, <2>1, ReplayDoes DEF Image
  <2>4. \A m \in Node : Assigns(persisting, m) => m = e.node
    BY <1>3, <2>2 DEF Assigns
  <2>5. \A image \in Image :
          Follows(image, fullShards, shardAssignments, persisting) =>
            Follows(Replay(e, image), fullShards', shardAssignments', persisting')
    <3>1. SUFFICES ASSUME NEW image \in Image,
                          Follows(image, fullShards, shardAssignments, persisting)
                   PROVE  Follows(Replay(e, image), fullShards', shardAssignments', persisting')
      OBVIOUS
    <3>2. image.full = fullShards
      BY <3>1 DEF Follows
    <3>3. ASSUME NEW m \in Node
          PROVE  shardAssignments[m] \in {NoShard, Replay(e, image).assigned[m]}
      <4>1. CASE m = e.node
        BY <1>3, <2>2, <2>3, <4>1
      <4>2. CASE m # e.node
        <5>1. shardAssignments[m] \in {NoShard, image.assigned[m]}
          BY <2>4, <3>1, <4>2 DEF Follows
        <5>2. Replay(e, image).assigned[m] = image.assigned[m]
          BY <1>3, <2>3, <4>2
        <5> QED BY <5>1, <5>2
      <4> QED BY <4>1, <4>2
    <3> QED BY <2>1, <2>3, <3>2, <3>3 DEF Follows
  <2>6. AssignedAlone'
    BY <1>3, <1>6, <2>1, <2>2 DEF AssignedAlone
  <2> QED BY <1>1, <1>8, <2>1, <2>5, <2>6 DEF RecordInStep
<1> QED BY <1>10, <1>11, <1>12

(* What is left of the snapshots under way when one of them has come to an end. *)
LEMMA SnapshotsLeft ==
  ASSUME TypeOK, NEW i \in DOMAIN saving, SnapshotSaved(i) \/ SnapshotFailed(i)
  PROVE  /\ stored' \in {stored, saving[i]}
         /\ \A j \in 1 .. Len(saving') : \E k \in 1 .. Len(saving) : saving'[j] = saving[k]
<1>0. saving \in Seq(Image) /\ i \in 1 .. Len(saving) /\ Len(saving) \in Nat
  BY DEF TypeOK, CoordinatorTypeOK
<1>1. CASE SnapshotSaved(i)
  <2>1. stored' = saving[i] /\ saving' = SubSeq(saving, i + 1, Len(saving))
    BY <1>1 DEF SnapshotSaved
  <2>2. /\ Len(SubSeq(saving, i + 1, Len(saving))) = Len(saving) - i
        /\ \A j \in 1 .. Len(saving) - i :
             /\ SubSeq(saving, i + 1, Len(saving))[j] = saving[i + j]
             /\ i + j \in 1 .. Len(saving)
    BY <1>0
  <2> QED BY <2>1, <2>2
<1>2. CASE SnapshotFailed(i)
  <2>1. stored' = stored
        /\ saving' = Without(saving, i)
    BY <1>2 DEF SnapshotFailed, Without
  <2>2. /\ Len(saving') = Len(saving) - 1
        /\ \A j \in 1 .. Len(saving) - 1 :
             /\ saving'[j] = IF j < i THEN saving[j] ELSE saving[j + 1]
             /\ j \in 1 .. Len(saving) /\ j + 1 \in 1 .. Len(saving)
    BY <1>0, <2>1, WithoutOne
  <2> QED BY <2>1, <2>2
<1> QED BY <1>1, <1>2

LEMMA RecordSnapshots ==
  ASSUME TypeOK, RecordInStep, NEW i \in DOMAIN saving, SnapshotSaved(i) \/ SnapshotFailed(i)
  PROVE  RecordInStep'
<1>1. /\ UNCHANGED <<running, fullShards, shardAssignments, persisting, assignmentsBeingChecked>>
      /\ saving \in Seq(Image) /\ i \in 1 .. Len(saving) /\ Len(saving) \in Nat
  BY DEF SnapshotSaved, SnapshotFailed, coordinatorMemory, TypeOK, CoordinatorTypeOK
<1>2. AssignedAlone'
  BY <1>1 DEF AssignedAlone, RecordInStep
<1>3. /\ stored' \in {stored, saving[i]}
      /\ \A j \in 1 .. Len(saving') : \E k \in 1 .. Len(saving) : saving'[j] = saving[k]
  BY SnapshotsLeft
<1>4. running' =>
        /\ Follows(stored', fullShards', shardAssignments', persisting')
        /\ \A j \in 1 .. Len(saving') :
             Follows(saving'[j], fullShards', shardAssignments', persisting')
  BY <1>1, <1>3 DEF RecordInStep
<1> QED BY <1>1, <1>2, <1>4 DEF RecordInStep

LEMMA RecordRecovery ==
  ASSUME TypeOK, RecordInStep, Recover \/ CoordinatorStops
  PROVE  RecordInStep'
<1>1. CASE Recover
  <2>1. /\ ~running /\ fullShards' = stored.full /\ shardAssignments' = stored.assigned
        /\ stored' = stored /\ persisting' = persisting /\ saving' = <<>> /\ running'
    BY <1>1 DEF Recover
  <2>2. persisting' = <<>>
    BY <2>1 DEF RecordInStep
  <2>3. Follows(stored', fullShards', shardAssignments', persisting')
    BY <2>1 DEF Follows
  <2> QED BY <2>1, <2>2, <2>3 DEF RecordInStep, AssignedAlone
<1>2. CASE CoordinatorStops
  <2>1. ~running' /\ persisting' = <<>> /\ assignmentsBeingChecked' = {}
    BY <1>2 DEF CoordinatorStops
  <2> QED BY <2>1 DEF RecordInStep, AssignedAlone
<1> QED BY <1>1, <1>2

LEMMA RecordStep ==
  ASSUME TypeOK, TypeOK', RecordInStep, [Next]_vars
  PROVE  RecordInStep'
<1>1. ASSUME UNCHANGED coordinatorVars PROVE RecordInStep'
  BY <1>1 DEF RecordInStep, AssignedAlone, coordinatorVars, coordinatorMemory
<1>2. CASE Recover \/ CoordinatorStops
  BY <1>2, RecordRecovery
<1>3. CASE CoordinatorStep
  BY <1>3, RecordCommands, RecordStores, RecordSnapshots DEF CoordinatorStep
<1>4. CASE UNCHANGED vars
  BY <1>1, <1>4 DEF vars
<1>5. ASSUME NEW n \in Node, \/ NodeStep(n) /\ UNCHANGED coordinatorVars
                             \/ CheckTimesOut(n) \/ DetectDeath(n) \/ Mishaps(n)
      PROVE  UNCHANGED coordinatorVars
  BY <1>5 DEF CheckTimesOut, DetectDeath, Mishaps, LoseMessage, LoseAnswer
<1> QED BY <1>1, <1>2, <1>3, <1>4, <1>5 DEF Next

LEMMA RecordInit == Init => RecordInStep
BY DEF Init, CoordinatorInit, RecordInStep, AssignedAlone

(***************************************************************************)
(* However coordinators stop, journal entries are stored and snapshots     *)
(* overtake each other or fail: the next coordinator knows every shard     *)
(* that is full and every assignment that the last one knew.               *)
(***************************************************************************)
THEOREM RecordIsKept == Spec => []RecoveryIsConservative
<1>1. TypeOK /\ RecordInStep => RecoveryIsConservative
  <2>1. \A n \in Node : ~Assigns(<<>>, n)
    BY DEF Assigns
  <2> QED BY <2>1 DEF RecordInStep, Follows, RecoveryIsConservative
<1>2. TypeOK /\ RecordInStep /\ [Next]_vars => RecordInStep'
  BY StepTypes, RecordStep
<1> QED BY <1>1, <1>2, RecordInit, InitTypes, StepTypes, PTL DEF Spec
-----------------------------------------------------------------------------
(* The asks: answers can be told from those to earlier asks. *)

LEMMA TailInOrder ==
  ASSUME NEW box \in Seq(Message), box # <<>>, NEW id \in Nat, InboxInOrder(box, id)
  PROVE  /\ InboxInOrder(Tail(box), id)
         /\ Head(box).id <= id
         /\ Head(box).id = id => Tail(box) = <<>>
<1>1. Len(box) \in Nat /\ Len(box) >= 1 /\ Head(box) = box[1] /\ Tail(box) \in Seq(Message)
      /\ Len(Tail(box)) = Len(box) - 1
      /\ \A j \in 1 .. Len(Tail(box)) : Tail(box)[j] = box[j + 1]
  OBVIOUS
<1>2. \A j \in 1 .. Len(Tail(box)) : j + 1 \in 1 .. Len(box)
                                     /\ (j < Len(Tail(box)) => j + 1 < Len(box))
  BY <1>1
<1>3. InboxInOrder(Tail(box), id)
  BY <1>1, <1>2 DEF InboxInOrder
<1>4. Head(box).id <= id /\ (Head(box).id = id => ~(1 < Len(box)))
  BY <1>1 DEF InboxInOrder, Message
<1>5. ~(1 < Len(box)) => Tail(box) = <<>>
  BY <1>1
<1> QED BY <1>3, <1>4, <1>5

LEMMA AppendInOrder ==
  ASSUME NEW box \in Seq(Message), NEW id \in Nat, NEW old \in Nat, NEW msg \in Message,
         msg.id = id, InboxInOrder(box, old), old <= id,
         \A j \in 1 .. Len(box) : box[j].id # id
  PROVE  InboxInOrder(Append(box, msg), id)
<1>1. Len(box) \in Nat /\ Len(Append(box, msg)) = Len(box) + 1
      /\ \A j \in 1 .. Len(box) : Append(box, msg)[j] = box[j]
      /\ Append(box, msg)[Len(box) + 1] = msg
  OBVIOUS
<1>2. \A j \in 1 .. Len(box) : box[j] \in Message /\ box[j].id \in Nat
  <2>1. \A j \in 1 .. Len(box) : box[j] \in Message
    OBVIOUS
  <2> QED BY <2>1 DEF Message
<1>3. \A j \in 1 .. Len(box) : box[j].id < id
  BY <1>2 DEF InboxInOrder
<1>4. ASSUME NEW j \in 1 .. Len(box) + 1
      PROVE  /\ Append(box, msg)[j].id <= id
             /\ j < Len(box) + 1 => Append(box, msg)[j].id < id
  <2>1. CASE j = Len(box) + 1
    BY <1>1, <2>1
  <2>2. CASE j # Len(box) + 1
    <3>1. j \in 1 .. Len(box)
      BY <1>1, <2>2
    <3> QED BY <1>1, <1>2, <1>3, <3>1
  <2> QED BY <2>1, <2>2
<1> QED BY <1>1, <1>4 DEF InboxInOrder

(* A new ask: everything under way is of an earlier one. *)
LEMMA NewAsk ==
  ASSUME TypeOK, AsksInStep, NEW n \in Node, NEW shard \in ShardOrNone,
         NEW sent \in Seq(Message), sent = <<>> \/ sent = inbox[n],
         RequestShardId(n, shard, sent)
  PROVE  /\ request[n].id \in Nat /\ request'[n].id = request[n].id + 1 /\ request'[n].waiting
         /\ \A m \in Node \ {n} : request'[m] = request[m] /\ inbox'[m] = inbox[m]
         /\ InboxInOrder(inbox'[n], request'[n].id)
         /\ EventsAsked(n, persisting, inbox'[n], request'[n].id)
         /\ AnswersAsked(answers[n], request'[n].id)
         /\ \A a \in answers[n] : a.id # request'[n].id
<1>1. /\ request \in [Node -> Request] /\ request[n].id \in Nat
      /\ inbox \in [Node -> Seq(Message)] /\ answers[n] \subseteq Answer
      /\ persisting \in Seq(Event)
  BY DEF TypeOK, ManagerTypeOK, NetworkTypeOK, CoordinatorTypeOK, Request
<1>2. PICK msg, id, new : /\ id = request[n].id + 1
                          /\ msg = [shard |-> shard, id |-> id]
                          /\ new = [waiting |-> TRUE, shard |-> shard, id |-> id]
  OBVIOUS
<1>3. /\ request' = [request EXCEPT ![n] = new]
      /\ inbox' = [inbox EXCEPT ![n] = Append(sent, msg)]
  BY <1>2 DEF RequestShardId
<1>4. /\ id \in Nat /\ request[n].id < id /\ msg \in Message /\ msg.id = id
      /\ new.id = id /\ new.waiting
  BY <1>1, <1>2 DEF Message
<1>5. /\ request'[n] = new /\ inbox'[n] = Append(sent, msg)
      /\ \A m \in Node \ {n} : request'[m] = request[m] /\ inbox'[m] = inbox[m]
  BY <1>1, <1>3
<1>6. InboxInOrder(sent, request[n].id)
  <2>1. CASE sent = <<>>
    BY <2>1 DEF InboxInOrder
  <2>2. CASE sent = inbox[n]
    BY <2>2 DEF AsksInStep
  <2> QED BY <2>1, <2>2
<1>7. \A j \in 1 .. Len(sent) : sent[j].id # id
  <2>1. \A j \in 1 .. Len(sent) : sent[j] \in Message /\ sent[j].id \in Nat
    <3>1. \A j \in 1 .. Len(sent) : sent[j] \in Message
      OBVIOUS
    <3> QED BY <3>1 DEF Message
  <2> QED BY <1>1, <1>4, <1>6, <2>1 DEF InboxInOrder
<1>8. InboxInOrder(inbox'[n], id)
  BY <1>1, <1>4, <1>5, <1>6, <1>7, AppendInOrder
<1>9. \A i \in 1 .. Len(persisting) : persisting[i].node = n =>
        persisting[i].id \in Nat /\ persisting[i].id <= request[n].id
  <2>1. \A i \in 1 .. Len(persisting) : persisting[i] \in Event
    BY <1>1
  <2>2. \A i \in 1 .. Len(persisting) : persisting[i].id \in Nat
    BY <2>1 DEF Event
  <2>3. EventsAsked(n, persisting, inbox[n], request[n].id)
    BY DEF AsksInStep
  <2> QED BY <2>2, <2>3 DEF EventsAsked
<1>10. EventsAsked(n, persisting, inbox'[n], id)
  BY <1>1, <1>4, <1>9 DEF EventsAsked
<1>11. \A a \in answers[n] : a.id \in Nat /\ a.id <= request[n].id
  BY <1>1 DEF AsksInStep, AnswersAsked, Answer
<1>12. AnswersAsked(answers[n], id) /\ \A a \in answers[n] : a.id # id
  BY <1>1, <1>4, <1>11 DEF AnswersAsked
<1> QED BY <1>1, <1>2, <1>4, <1>5, <1>8, <1>10, <1>12

LEMMA AsksRecovery ==
  ASSUME TypeOK, AsksInStep, UNCHANGED managerVars, Recover \/ CoordinatorStops
  PROVE  AsksInStep'
<1>1. UNCHANGED <<inbox, answers, up, shardId, request>>
      /\ (persisting' = persisting \/ persisting' = <<>>)
  BY DEF Recover, CoordinatorStops, managerVars
<1>2. \A n \in Node : EventsAsked(n, persisting', inbox[n], request[n].id)
  <2>1. CASE persisting' = persisting
    BY <2>1 DEF AsksInStep
  <2>2. CASE persisting' = <<>>
    BY <2>2 DEF EventsAsked
  <2> QED BY <1>1, <2>1, <2>2
<1> QED BY <1>1, <1>2 DEF AsksInStep

LEMMA AsksCommands ==
  ASSUME TypeOK, AsksInStep, UNCHANGED managerVars, NEW n \in Node,
         CheckFailed(n) \/ CheckConfirmed(n) \/ CheckRefuted(n) \/ AssignShard(n)
           \/ ShardFull(n) \/ Terminated(n)
  PROVE  AsksInStep'
<1>1. /\ UNCHANGED <<answers, up, shardId, request>> /\ persisting = <<>>
      /\ inbox \in [Node -> Seq(Message)] /\ request[n].id \in Nat
  BY DEF CheckFailed, CheckConfirmed, CheckRefuted, AssignShard, ShardFull, Terminated, Ready,
         managerVars, TypeOK, NetworkTypeOK, ManagerTypeOK, Request
(* It is enough to look at the events now under way and what is left of n's inbox. *)
<1>2. ASSUME \A m \in Node \ {n} : inbox'[m] = inbox[m],
             \A i \in 1 .. Len(persisting') : persisting'[i].node = n,
             InboxInOrder(inbox'[n], request[n].id),
             EventsAsked(n, persisting', inbox'[n], request[n].id)
      PROVE  AsksInStep'
  <2>1. \A m \in Node \ {n} : EventsAsked(m, persisting', inbox'[m], request[m].id)
    BY <1>2 DEF EventsAsked
  <2> QED BY <1>1, <1>2, <2>1 DEF AsksInStep
<1>3. InboxInOrder(inbox[n], request[n].id)
  BY DEF AsksInStep
<1>4. CASE CheckFailed(n) \/ CheckConfirmed(n)
  <2>1. persisting' = <<>> /\ inbox' = inbox
    BY <1>1, <1>4 DEF CheckFailed, CheckConfirmed, coordinatorVars, coordinatorMemory
  <2> QED BY <1>2, <1>3, <2>1 DEF EventsAsked
<1>5. CASE CheckRefuted(n) \/ Terminated(n)
  <2>1. PICK rest : rest = Unassign(n, FALSE, 0)
    OBVIOUS
  <2>2. inbox' = inbox /\ (persisting' = rest \/ persisting' = <<>>)
    BY <1>5, <2>1 DEF CheckRefuted, Terminated
  <2>3. rest = <<>> \/ \E e \in Event : /\ rest = <<e>> /\ e.node = n /\ e.id = 0
    BY <2>1, UnassignOnly
  <2>4. CASE persisting' = <<>>
    BY <1>2, <1>3, <2>2, <2>4 DEF EventsAsked
  <2>5. ASSUME NEW e \in Event, persisting' = <<e>>, e.node = n, e.id = 0
        PROVE  AsksInStep'
    <3>1. \A i \in 1 .. Len(persisting') : persisting'[i].node = n /\ persisting'[i].id = 0
      BY <2>5
    <3>2. EventsAsked(n, persisting', inbox'[n], request[n].id)
      BY <1>1, <3>1 DEF EventsAsked
    <3> QED BY <1>2, <1>3, <2>2, <3>1, <3>2
  <2> QED BY <2>2, <2>3, <2>4, <2>5
<1>6. CASE AssignShard(n) \/ ShardFull(n)
  <2>1. /\ inbox' = [inbox EXCEPT ![n] = Tail(inbox[n])] /\ inbox[n] # <<>>
        /\ inbox[n] \in Seq(Message) /\ Head(inbox[n]).id \in Nat
    BY <1>6, TakeDoes DEF AssignShard, ShardFull
  <2>2. PICK id : id = Head(inbox[n]).id
    OBVIOUS
  <2>3. /\ InboxInOrder(Tail(inbox[n]), request[n].id)
        /\ id <= request[n].id /\ (id = request[n].id => Tail(inbox[n]) = <<>>)
    BY <1>1, <1>3, <2>1, <2>2, TailInOrder
  <2>4. inbox'[n] = Tail(inbox[n]) /\ \A m \in Node \ {n} : inbox'[m] = inbox[m]
    BY <1>1, <2>1
  <2>5. \A i \in 1 .. Len(persisting') : persisting'[i].node = n /\ persisting'[i].id \in {0, id}
    <3>1. CASE AssignShard(n)
      <4>1. PICK images : images = saving
        OBVIOUS
      <4>2. MakeAssignment(n, id, images) /\ images \in Seq(Image) /\ id \in Nat
        BY <2>1, <2>2, <3>1, <4>1 DEF AssignShard, TypeOK, CoordinatorTypeOK
      <4>3. PICK e \in Event : persisting' = <<e>> /\ e.node = n /\ e.id = id
        BY <4>2, MakeAssignmentPersists
      <4> QED BY <4>3
    <3>2. CASE ShardFull(n)
      BY <2>2, <3>2, ShardFullDoes
    <3> QED BY <1>6, <3>1, <3>2
  <2>6. EventsAsked(n, persisting', inbox'[n], request[n].id)
    BY <1>1, <2>3, <2>4, <2>5 DEF EventsAsked
  <2> QED BY <1>2, <2>3, <2>4, <2>5, <2>6
<1> QED BY <1>4, <1>5, <1>6

LEMMA AsksStores ==
  ASSUME TypeOK, AsksInStep, UNCHANGED managerVars,
         UnavailablePersisted \/ UnassignedPersisted \/ AssignedPersisted
  PROVE  AsksInStep'
<1>1. /\ UNCHANGED <<inbox, up, shardId, request>> /\ persisting # <<>>
      /\ persisting \in Seq(Event) /\ saving \in Seq(Image)
      /\ answers \in [Node -> SUBSET Answer]
  BY DEF UnavailablePersisted, UnassignedPersisted, AssignedPersisted, PersistHead,
         managerVars, TypeOK, CoordinatorTypeOK, NetworkTypeOK
<1>2. PICK e : e = Head(persisting)
  OBVIOUS
<1>3. /\ e = persisting[1] /\ e \in Event /\ 1 \in 1 .. Len(persisting)
      /\ Len(Tail(persisting)) = Len(persisting) - 1
      /\ \A i \in 1 .. Len(Tail(persisting)) : Tail(persisting)[i] = persisting[i + 1]
                                              /\ i + 1 \in 1 .. Len(persisting)
  BY <1>1, <1>2
<1>4. e.node \in Node /\ e.id \in Nat
  BY <1>3 DEF Event
<1>5. \A m \in Node : EventsAsked(m, persisting, inbox[m], request[m].id)
  BY DEF AsksInStep
<1>6. \A m \in Node : EventsAsked(m, persisting', inbox[m], request[m].id)
  <2>1. CASE persisting' = Tail(persisting)
    BY <1>3, <1>5, <2>1 DEF EventsAsked
  <2>2. CASE UnassignedPersisted /\ e.reassign
    <3>1. PICK images : images = ReplayAll(e)
      OBVIOUS
    <3>2. MakeAssignment(e.node, e.id, images) /\ images \in Seq(Image)
      BY <1>1, <1>2, <1>3, <2>2, <3>1, ReplayAllDoes DEF UnassignedPersisted
    <3>3. PICK f \in Event : persisting' = <<f>> /\ f.node = e.node /\ f.id = e.id
      BY <1>4, <3>2, MakeAssignmentDoes
    <3> QED BY <1>3, <1>5, <3>3 DEF EventsAsked
  <2>3. persisting' = Tail(persisting) \/ (UnassignedPersisted /\ e.reassign)
    BY <1>2 DEF UnavailablePersisted, UnassignedPersisted, AssignedPersisted
  <2> QED BY <2>1, <2>2, <2>3
<1>7. \A m \in Node : AnswersAsked(answers'[m], request[m].id)
  <2>1. \A m \in Node : AnswersAsked(answers[m], request[m].id)
    BY DEF AsksInStep
  <2>2. CASE AssignedPersisted
    <3>1. PICK a : a = [shard |-> e.shard, id |-> e.id]
      OBVIOUS
    <3>2. a.id = e.id
      BY <3>1
    <3>3. answers' = [answers EXCEPT ![e.node] = @ \union {a}]
      BY <1>2, <2>2, <3>1 DEF AssignedPersisted
    <3>4. e.id <= request[e.node].id
      BY <1>3, <1>4, <1>5 DEF EventsAsked
    <3> QED BY <1>1, <1>4, <2>1, <3>2, <3>3, <3>4 DEF AnswersAsked
  <2>3. CASE ~AssignedPersisted
    BY <2>1, <2>3 DEF UnavailablePersisted, UnassignedPersisted
  <2> QED BY <2>2, <2>3
<1> QED BY <1>1, <1>6, <1>7 DEF AsksInStep
LEMMA AsksNode ==
  ASSUME TypeOK, AsksInStep, NEW n \in Node, UNCHANGED coordinatorVars,
         \/ Start(n) \/ (AskIsGone(n) /\ SendAgain(n)) \/ DropAnswer(n)
         \/ ReceiveAssignment(n) \/ HandleShardFull(n) \/ AnswerCheck(n)
         \/ NodeDies(n) \/ SendAgainHastily(n) \/ AllocatorAlarms(n)
         \/ LoseMessage(n) \/ LoseAnswer(n) \/ CheckTimesOut(n) \/ DetectDeath(n)
  PROVE  AsksInStep'
<1>0. /\ inbox \in [Node -> Seq(Message)] /\ answers \in [Node -> SUBSET Answer]
      /\ up \in [Node -> BOOLEAN] /\ shardId \in [Node -> ShardOrNone]
      /\ request \in [Node -> Request] /\ request[n].id \in Nat
      /\ inbox[n] \in Seq(Message) /\ persisting' = persisting
  BY DEF TypeOK, NetworkTypeOK, ManagerTypeOK, Request, coordinatorVars, coordinatorMemory
<1>1. /\ InboxInOrder(inbox[n], request[n].id)
      /\ EventsAsked(n, persisting, inbox[n], request[n].id)
      /\ AnswersAsked(answers[n], request[n].id)
      /\ request[n].waiting => request[n].id # 0
      /\ request[n].waiting \/ ~up[n] => shardId[n] = NoShard
  BY DEF AsksInStep
(* Only n's own asks are touched. *)
<1>2. ASSUME \A m \in Node \ {n} : /\ inbox'[m] = inbox[m] /\ answers'[m] = answers[m]
                                   /\ request'[m] = request[m] /\ up'[m] = up[m]
                                   /\ shardId'[m] = shardId[m],
             InboxInOrder(inbox'[n], request'[n].id),
             EventsAsked(n, persisting, inbox'[n], request'[n].id),
             AnswersAsked(answers'[n], request'[n].id),
             request'[n].waiting => request'[n].id # 0,
             request'[n].waiting \/ ~up'[n] => shardId'[n] = NoShard
      PROVE  AsksInStep'
  BY <1>0, <1>2 DEF AsksInStep
<1>3. ASSUME NEW shard \in ShardOrNone, NEW sent \in Seq(Message),
             sent = <<>> \/ sent = inbox[n], RequestShardId(n, shard, sent),
             answers'[n] \subseteq answers[n], shardId'[n] = NoShard,
             \A m \in Node \ {n} : /\ answers'[m] = answers[m] /\ up'[m] = up[m]
                                   /\ shardId'[m] = shardId[m]
      PROVE  AsksInStep'
  <2>1. /\ request'[n].id = request[n].id + 1 /\ request'[n].waiting
        /\ \A m \in Node \ {n} : request'[m] = request[m] /\ inbox'[m] = inbox[m]
        /\ InboxInOrder(inbox'[n], request'[n].id)
        /\ EventsAsked(n, persisting, inbox'[n], request'[n].id)
        /\ AnswersAsked(answers[n], request'[n].id)
    BY <1>3, NewAsk
  <2>2. AnswersAsked(answers'[n], request'[n].id)
    BY <1>3, <2>1 DEF AnswersAsked
  <2>3. request'[n].id # 0
    BY <1>0, <2>1
  <2> QED BY <1>2, <1>3, <2>1, <2>2, <2>3
<1>4. ASSUME Restart(n), answers'[n] \subseteq answers[n],
             \A m \in Node \ {n} : answers'[m] = answers[m] /\ up'[m] = up[m]
      PROVE  AsksInStep'
  <2>1. RequestShardId(n, NoShard, inbox[n]) /\ shardId'[n] = NoShard
        /\ \A m \in Node \ {n} : shardId'[m] = shardId[m]
    BY <1>0, <1>4 DEF Restart
  <2> QED BY <1>0, <1>3, <1>4, <2>1, ConstantTypes
<1>5. CASE Start(n)
  <2>1. /\ RequestShardId(n, NoShard, <<>>) /\ answers'[n] = {} /\ ~up[n]
        /\ shardId' = shardId
        /\ \A m \in Node \ {n} : answers'[m] = answers[m] /\ up'[m] = up[m]
    BY <1>0, <1>5 DEF Start
  <2>2. <<>> \in Seq(Message)
    OBVIOUS
  <2> QED BY <1>1, <1>3, <2>1, <2>2, ConstantTypes
<1>6. CASE AskIsGone(n) /\ SendAgain(n)
  <2>1. PICK msg : msg = [shard |-> request[n].shard, id |-> request[n].id]
    OBVIOUS
  <2>2. msg \in Message /\ msg.id = request[n].id
    BY <1>0, <2>1 DEF Message, Request
  <2>3. /\ inbox' = [inbox EXCEPT ![n] = Append(inbox[n], msg)]
        /\ UNCHANGED <<answers, request, up, shardId>>
    BY <1>6, <2>1 DEF SendAgain, managerVars
  <2>4. \A j \in 1 .. Len(inbox[n]) : inbox[n][j].id # request[n].id
    BY <1>0, <1>6 DEF AskIsGone
  <2>5. InboxInOrder(Append(inbox[n], msg), request[n].id)
    BY <1>0, <1>1, <2>2, <2>4, AppendInOrder
  <2>6. EventsAsked(n, persisting, Append(inbox[n], msg), request[n].id)
    <3>1. persisting \in Seq(Event)
      BY DEF TypeOK, CoordinatorTypeOK
    <3>2. \A i \in 1 .. Len(persisting) :
            ~(persisting[i].node = n /\ persisting[i].id = request[n].id)
      BY <1>6, <3>1 DEF AskIsGone
    <3> QED BY <1>1, <3>2 DEF EventsAsked
  <2> QED BY <1>0, <1>1, <1>2, <2>3, <2>5, <2>6
<1>7. CASE SendAgainHastily(n)
  <2>1. /\ RequestShardId(n, request[n].shard, inbox[n]) /\ request[n].waiting
        /\ UNCHANGED <<answers, up, shardId>>
    BY <1>7 DEF SendAgainHastily
  <2>2. request[n].shard \in ShardOrNone
    BY <1>0 DEF Request
  <2> QED BY <1>0, <1>1, <1>3, <2>1, <2>2
<1>8. CASE DropAnswer(n) \/ LoseAnswer(n)
  <2>1. PICK a \in answers[n] : answers' = [answers EXCEPT ![n] = @ \ {a}]
    BY <1>8 DEF DropAnswer, LoseAnswer
  <2>2. UNCHANGED <<inbox, request, up, shardId>>
    BY <1>8 DEF DropAnswer, LoseAnswer, managerVars
  <2>3. AnswersAsked(answers'[n], request[n].id)
    BY <1>0, <1>1, <2>1 DEF AnswersAsked
  <2> QED BY <1>0, <1>1, <1>2, <2>1, <2>2, <2>3
<1>9. CASE ReceiveAssignment(n)
  <2>1. PICK a \in answers[n] :
          /\ up[n] /\ answers' = [answers EXCEPT ![n] = @ \ {a}]
          /\ \/ /\ shardId' = [shardId EXCEPT ![n] = a.shard]
                /\ request' = [request EXCEPT ![n].waiting = FALSE]
                /\ UNCHANGED inbox
             \/ Restart(n)
          /\ UNCHANGED up
    BY <1>9 DEF ReceiveAssignment
  <2>2. CASE Restart(n)
    BY <1>0, <1>4, <2>1, <2>2
  <2>3. CASE /\ shardId' = [shardId EXCEPT ![n] = a.shard]
             /\ request' = [request EXCEPT ![n].waiting = FALSE]
             /\ UNCHANGED inbox
    <3>1. /\ request'[n].id = request[n].id /\ ~request'[n].waiting
          /\ \A m \in Node \ {n} : request'[m] = request[m]
      BY <1>0, <2>3 DEF Request
    <3>2. AnswersAsked(answers'[n], request[n].id)
      BY <1>0, <1>1, <2>1 DEF AnswersAsked
    <3> QED BY <1>0, <1>1, <1>2, <2>1, <2>3, <3>1, <3>2
  <2> QED BY <2>1, <2>2, <2>3
<1>10. CASE HandleShardFull(n)
  <2>1. PICK s \in alarms[n] :
          /\ \/ Restart(n)
             \/ UNCHANGED <<shardId, request, inbox>>
             \/ /\ shardId' = [shardId EXCEPT ![n] = NoShard]
                /\ RequestShardId(n, s, inbox[n])
          /\ UNCHANGED <<up, answers>>
    BY <1>10 DEF HandleShardFull
  <2>2. s \in ShardOrNone
    BY <2>1 DEF TypeOK, ManagerTypeOK, ShardOrNone
  <2>3. CASE Restart(n)
    BY <1>4, <2>1, <2>3
  <2>4. CASE UNCHANGED <<shardId, request, inbox>>
    BY <1>1, <1>2, <2>1, <2>4
  <2>5. CASE /\ shardId' = [shardId EXCEPT ![n] = NoShard]
             /\ RequestShardId(n, s, inbox[n])
    BY <1>0, <1>3, <2>1, <2>2, <2>5
  <2> QED BY <2>1, <2>3, <2>4, <2>5
<1>11. CASE AnswerCheck(n) \/ AllocatorAlarms(n) \/ CheckTimesOut(n) \/ DetectDeath(n)
  <2>1. UNCHANGED <<inbox, answers, request, up, shardId>>
    BY <1>11 DEF AnswerCheck, AllocatorAlarms, CheckTimesOut, DetectDeath, managerVars, network
  <2> QED BY <1>1, <1>2, <2>1
<1>12. CASE NodeDies(n)
  <2>1. PICK k \in 0 .. Len(inbox[n]) : inbox' = [inbox EXCEPT ![n] = SubSeq(@, 1, k)]
    BY <1>12 DEF NodeDies
  <2>2. /\ request' = [request EXCEPT ![n].waiting = FALSE]
        /\ shardId' = [shardId EXCEPT ![n] = NoShard] /\ answers' = [answers EXCEPT ![n] = {}]
        /\ up' = [up EXCEPT ![n] = FALSE]
    BY <1>12 DEF NodeDies
  <2>3. /\ request'[n].id = request[n].id /\ ~request'[n].waiting
        /\ \A m \in Node \ {n} : request'[m] = request[m]
    BY <1>0, <2>2 DEF Request
  <2>4. /\ Len(SubSeq(inbox[n], 1, k)) = k /\ k \in Nat /\ k <= Len(inbox[n])
        /\ \A j \in 1 .. k : SubSeq(inbox[n], 1, k)[j] = inbox[n][j]
    BY <1>0, <2>1
  <2>5. InboxInOrder(SubSeq(inbox[n], 1, k), request[n].id)
    BY <1>1, <2>4 DEF InboxInOrder
  <2>6. inbox[n] = <<>> => SubSeq(inbox[n], 1, k) = <<>>
    BY <1>0, <2>1, <2>4
  <2>7. EventsAsked(n, persisting, SubSeq(inbox[n], 1, k), request[n].id)
    BY <1>1, <2>6 DEF EventsAsked
  <2>8. AnswersAsked(answers'[n], request[n].id) /\ inbox'[n] = SubSeq(inbox[n], 1, k)
    BY <1>0, <2>1, <2>2 DEF AnswersAsked
  <2> QED BY <1>0, <1>2, <2>1, <2>2, <2>3, <2>5, <2>7, <2>8
<1>13. CASE LoseMessage(n)
  <2>1. PICK i \in DOMAIN inbox[n] : inbox' = [inbox EXCEPT ![n] = RemoveAt(inbox[n], i)]
    BY <1>13 DEF LoseMessage
  <2>2. UNCHANGED <<answers, request, up, shardId>>
    BY <1>13 DEF LoseMessage, managerVars
  <2>3. i \in 1 .. Len(inbox[n]) /\ Len(inbox[n]) \in Nat
    BY <1>0, <2>1
  <2>4. PICK rest : rest = RemoveAt(inbox[n], i)
    OBVIOUS
  <2>5. rest = Without(inbox[n], i)
    BY <2>4 DEF RemoveAt, Without
  <2>6. /\ Len(rest) = Len(inbox[n]) - 1
        /\ \A j \in 1 .. Len(inbox[n]) - 1 :
             /\ rest[j] = IF j < i THEN inbox[n][j] ELSE inbox[n][j + 1]
             /\ j \in 1 .. Len(inbox[n]) /\ j + 1 \in 1 .. Len(inbox[n])
    BY <1>0, <2>3, <2>5, WithoutOne
  <2>7. ASSUME NEW j \in 1 .. Len(inbox[n]) - 1
        PROVE  /\ rest[j].id <= request[n].id
               /\ j < Len(inbox[n]) - 1 => rest[j].id < request[n].id
    <3>1. j < Len(inbox[n]) /\ (j < Len(inbox[n]) - 1 => j + 1 < Len(inbox[n]))
      BY <2>3
    <3>2. \A k \in 1 .. Len(inbox[n]) :
            /\ inbox[n][k].id <= request[n].id
            /\ k < Len(inbox[n]) => inbox[n][k].id < request[n].id
      BY <1>1 DEF InboxInOrder
    <3>3. CASE j < i
      <4>1. rest[j] = inbox[n][j] /\ j \in 1 .. Len(inbox[n])
        BY <2>6, <3>3
      <4> QED BY <3>1, <3>2, <4>1
    <3>4. CASE ~(j < i)
      <4>1. rest[j] = inbox[n][j + 1] /\ j + 1 \in 1 .. Len(inbox[n])
        BY <2>6, <3>4
      <4> QED BY <3>1, <3>2, <4>1
    <3> QED BY <3>3, <3>4
  <2>8. InboxInOrder(rest, request[n].id)
    BY <2>6, <2>7 DEF InboxInOrder
  <2>9. EventsAsked(n, persisting, rest, request[n].id)
    <3>1. inbox[n] # <<>>
      BY <2>3
    <3> QED BY <1>1, <3>1 DEF EventsAsked
  <2> QED BY <1>0, <1>1, <1>2, <2>1, <2>2, <2>4, <2>8, <2>9
<1> QED BY <1>5, <1>6, <1>7, <1>8, <1>9, <1>10, <1>11, <1>12, <1>13

LEMMA AsksStep ==
  ASSUME TypeOK, AsksInStep, [Next]_vars
  PROVE  AsksInStep'
<1>1. CASE Recover /\ UNCHANGED managerVars
  BY <1>1, AsksRecovery
<1>2. CASE CoordinatorStops /\ UNCHANGED managerVars
  BY <1>2, AsksRecovery
<1>3. CASE CoordinatorStep /\ UNCHANGED managerVars
  <2>1. ASSUME NEW i \in DOMAIN saving, SnapshotSaved(i) \/ SnapshotFailed(i)
        PROVE  AsksInStep'
    BY <1>3, <2>1 DEF SnapshotSaved, SnapshotFailed, coordinatorMemory, network, managerVars,
                      AsksInStep
  <2> QED BY <1>3, <2>1, AsksCommands, AsksStores DEF CoordinatorStep
<1>4. ASSUME NEW n \in Node,
             \/ NodeStep(n) /\ UNCHANGED coordinatorVars
             \/ CheckTimesOut(n) \/ DetectDeath(n) \/ Mishaps(n)
      PROVE  AsksInStep'
  <2>1. UNCHANGED coordinatorVars
    BY <1>4 DEF CheckTimesOut, DetectDeath, Mishaps, LoseMessage, LoseAnswer
  <2> QED BY <1>4, <2>1, AsksNode DEF NodeStep, Mishaps
<1>5. CASE UNCHANGED vars
  BY <1>5 DEF vars, coordinatorVars, coordinatorMemory, managerVars, network, AsksInStep
<1> QED BY <1>1, <1>2, <1>3, <1>4, <1>5 DEF Next

LEMMA AsksInit == Init => AsksInStep
<1> SUFFICES ASSUME Init, NEW n \in Node
             PROVE  /\ InboxInOrder(inbox[n], request[n].id)
                    /\ EventsAsked(n, persisting, inbox[n], request[n].id)
                    /\ AnswersAsked(answers[n], request[n].id)
                    /\ request[n].waiting => request[n].id # 0
                    /\ request[n].waiting \/ ~up[n] => shardId[n] = NoShard
  BY DEF AsksInStep
<1> QED BY DEF Init, NetworkInit, CoordinatorInit, ManagerInit, InboxInOrder, EventsAsked,
               AnswersAsked
-----------------------------------------------------------------------------
(* The claims. *)

LEMMA Unclaimed ==
  ASSUME NEW n \in Node, shardId[n] = NoShard, Live(n) = {}
  PROVE  \A s \in Shard : ~Claims(n, s)
BY ConstantTypes DEF Claims

(* Whoever has sent something that is not read yet, or whom an event under way *)
(* is about, claims nothing.                                                   *)
LEMMA AskersClaimNothing ==
  ASSUME ClaimsInStep, NEW n \in Node,
         inbox[n] # <<>> \/ \E i \in 1 .. Len(persisting) : persisting[i].node = n
  PROVE  \A s \in Shard : ~Claims(n, s)
BY DEF ClaimsInStep

(* A step of the coordinator that leaves the records of all but n as they are, *)
(* where n claims nothing.                                                     *)
LEMMA ClaimsSpared ==
  ASSUME TypeOK, ClaimsInStep, NEW n \in Node,
         UNCHANGED <<answers, up, request, shardId, disowned>>,
         \A s \in Shard : ~Claims(n, s),
         \A m \in Node \ {n} : inbox'[m] = inbox[m],
         \A i \in 1 .. Len(persisting') :
           \/ persisting'[i].node = n
           \/ \E k \in 1 .. Len(persisting) : persisting[k].node = persisting'[i].node,
         \A m \in Node \ {n}, s \in Shard : OnRecord(m, s) =>
           /\ stored'.assigned[m] = s
           /\ \A i \in 1 .. Len(saving') : saving'[i].assigned[m] = s
           /\ running' => shardAssignments'[m] = s
  PROVE  ClaimsInStep'
<1>1. \A m \in Node, s \in Shard : Claims(m, s)' <=> Claims(m, s)
  BY DEF Claims, Live
<1>2. SUFFICES ASSUME NEW m \in Node, NEW s \in Shard, Claims(m, s)'
               PROVE  /\ OnRecord(m, s)' /\ inbox'[m] = <<>>
                      /\ \A i \in 1 .. Len(persisting') : persisting'[i].node # m
                      /\ \A k \in Node \ {m} : ~Claims(k, s)'
  BY DEF ClaimsInStep
<1>3. Claims(m, s) /\ m # n
  BY <1>1, <1>2
<1>4. /\ OnRecord(m, s) /\ inbox[m] = <<>>
      /\ \A i \in 1 .. Len(persisting) : persisting[i].node # m
      /\ \A k \in Node \ {m} : ~Claims(k, s)
  BY <1>3 DEF ClaimsInStep
<1>5. OnRecord(m, s)'
  BY <1>3, <1>4 DEF OnRecord
<1>6. inbox'[m] = <<>>
  BY <1>3, <1>4
<1>7. \A i \in 1 .. Len(persisting') : persisting'[i].node # m
  BY <1>3, <1>4
<1>8. \A k \in Node \ {m} : ~Claims(k, s)'
  BY <1>1, <1>4
<1> QED BY <1>5, <1>6, <1>7, <1>8

(* A step of anyone else, after which nothing more is claimed. *)
LEMMA ClaimsShrink ==
  ASSUME TypeOK, ClaimsInStep, UNCHANGED coordinatorVars,
         \A m \in Node, s \in Shard : Claims(m, s)' => Claims(m, s) /\ inbox'[m] = inbox[m]
  PROVE  ClaimsInStep'
<1>1. UNCHANGED <<running, shardAssignments, persisting, stored, saving>>
  BY DEF coordinatorVars, coordinatorMemory
<1>2. SUFFICES ASSUME NEW m \in Node, NEW s \in Shard, Claims(m, s)'
               PROVE  /\ OnRecord(m, s)' /\ inbox'[m] = <<>>
                      /\ \A i \in 1 .. Len(persisting') : persisting'[i].node # m
                      /\ \A k \in Node \ {m} : ~Claims(k, s)'
  BY DEF ClaimsInStep
<1>3. Claims(m, s) /\ inbox'[m] = inbox[m]
  BY <1>2
<1>4. /\ OnRecord(m, s) /\ inbox[m] = <<>>
      /\ \A i \in 1 .. Len(persisting) : persisting[i].node # m
      /\ \A k \in Node \ {m} : ~Claims(k, s)
  BY <1>3 DEF ClaimsInStep
<1>5. OnRecord(m, s)'
  BY <1>1, <1>4 DEF OnRecord
<1>6. \A k \in Node \ {m} : ~Claims(k, s)'
  BY <1>2, <1>4
<1> QED BY <1>1, <1>3, <1>4, <1>5, <1>6

(* The record of a node that no event is about is the same after the oldest event. *)
LEMMA ReplaySpares ==
  ASSUME TypeOK, persisting # <<>>, NEW m \in Node, persisting[1].node # m
  PROVE  /\ Replay(Head(persisting), stored).assigned[m] = stored.assigned[m]
         /\ Len(ReplayAll(Head(persisting))) = Len(saving)
         /\ \A i \in 1 .. Len(saving) :
              ReplayAll(Head(persisting))[i].assigned[m] = saving[i].assigned[m]
<1>0. saving \in Seq(Image) /\ stored \in Image
  BY DEF TypeOK, CoordinatorTypeOK
<1>1. PICK e : e = Head(persisting)
  OBVIOUS
<1>2. e \in Event /\ e.node # m
  BY <1>1, PersistTypes
<1>3. \A image \in Image : Replay(e, image).assigned[m] = image.assigned[m]
  <2>1. SUFFICES ASSUME NEW image \in Image
                 PROVE  Replay(e, image).assigned[m] = image.assigned[m]
    OBVIOUS
  <2>2. image.assigned \in [Node -> ShardOrNone]
    BY DEF Image
  <2>3. e.type \in {"ShardUnavailable", "ShardUnassigned", "ShardAssigned"}
    BY <1>2 DEF Event
  <2>4. /\ e.type = "ShardUnavailable" => Replay(e, image).assigned = image.assigned
        /\ e.type = "ShardUnassigned" =>
             Replay(e, image).assigned = [image.assigned EXCEPT ![e.node] = NoShard]
        /\ e.type = "ShardAssigned" =>
             Replay(e, image).assigned = [image.assigned EXCEPT ![e.node] = e.shard]
    BY <1>2, ReplayDoes
  <2> QED BY <1>2, <2>2, <2>3, <2>4
<1>4. /\ Len(ReplayAll(e)) = Len(saving)
      /\ \A i \in 1 .. Len(saving) : ReplayAll(e)[i] = Replay(e, saving[i])
  BY <1>0, <1>2, ReplayAllDoes
<1>5. \A i \in 1 .. Len(saving) : saving[i] \in Image
  BY <1>0
<1> QED BY <1>0, <1>1, <1>3, <1>4, <1>5

LEMMA ClaimsRecovery ==
  ASSUME TypeOK, ClaimsInStep, UNCHANGED managerVars, Recover \/ CoordinatorStops
  PROVE  ClaimsInStep'
<1>0. UNCHANGED <<inbox, answers, up, request, shardId, disowned>>
      /\ saving \in Seq(Image) /\ stored \in Image
  BY DEF Recover, CoordinatorStops, managerVars, TypeOK, CoordinatorTypeOK
<1>1. \A m \in Node, s \in Shard : Claims(m, s)' <=> Claims(m, s)
  BY <1>0 DEF Claims, Live
<1>2. SUFFICES ASSUME NEW m \in Node, NEW s \in Shard, Claims(m, s)'
               PROVE  /\ OnRecord(m, s)' /\ inbox'[m] = <<>>
                      /\ \A i \in 1 .. Len(persisting') : persisting'[i].node # m
                      /\ \A k \in Node \ {m} : ~Claims(k, s)'
  BY DEF ClaimsInStep
<1>3. /\ OnRecord(m, s) /\ inbox[m] = <<>>
      /\ \A i \in 1 .. Len(persisting) : persisting[i].node # m
      /\ \A k \in Node \ {m} : ~Claims(k, s)
  BY <1>1, <1>2 DEF ClaimsInStep
<1>4. \A i \in 1 .. Len(persisting') : persisting'[i].node # m
  <2>1. CASE persisting' = persisting
    BY <1>3, <2>1
  <2>2. CASE persisting' = <<>>
    BY <2>2
  <2> QED BY <2>1, <2>2 DEF Recover, CoordinatorStops
<1>5. OnRecord(m, s)'
  <2>1. CASE Recover
    BY <1>3, <2>1 DEF Recover, OnRecord
  <2>2. CASE CoordinatorStops
    <3>1. ~running'
      BY <2>2 DEF CoordinatorStops
    <3>2. CASE UNCHANGED <<stored, saving>>
      BY <1>3, <3>1, <3>2 DEF OnRecord
    <3>3. CASE /\ persisting # <<>>
               /\ stored' = Replay(Head(persisting), stored)
               /\ saving' = ReplayAll(Head(persisting))
      <4>1. 1 \in 1 .. Len(persisting)
        <5>1. persisting \in Seq(Event)
          BY DEF TypeOK, CoordinatorTypeOK
        <5> QED BY <3>3, <5>1
      <4>2. persisting[1].node # m
        BY <1>3, <4>1
      <4> QED BY <1>3, <3>1, <3>3, <4>2, ReplaySpares DEF OnRecord
    <3> QED BY <2>2, <3>2, <3>3 DEF CoordinatorStops
  <2> QED BY <2>1, <2>2
<1>6. \A k \in Node \ {m} : ~Claims(k, s)'
  BY <1>1, <1>3
<1> QED BY <1>0, <1>3, <1>4, <1>5, <1>6

LEMMA ClaimsCommands ==
  ASSUME TypeOK, TypeOK', AsksInStep, ChecksInStep, ClaimsInStep, UNCHANGED managerVars,
         NEW n \in Node,
         CheckFailed(n) \/ CheckConfirmed(n) \/ CheckRefuted(n) \/ AssignShard(n)
           \/ ShardFull(n) \/ Terminated(n)
  PROVE  ClaimsInStep'
<1>1. /\ UNCHANGED <<answers, up, shardId, request, disowned, stored>> /\ persisting = <<>> /\ running
      /\ inbox \in [Node -> Seq(Message)] /\ saving \in Seq(Image)
      /\ shardAssignments \in [Node -> ShardOrNone]
  BY DEF CheckFailed, CheckConfirmed, CheckRefuted, AssignShard, ShardFull, Terminated, Ready,
         managerVars, coordinatorVars, TypeOK, NetworkTypeOK, CoordinatorTypeOK
(* A new snapshot that is taken of memory has the records of all but n. *)
<1>2. ASSUME NEW image, image.assigned = shardAssignments',
             saving' = saving \/ saving' = Append(saving, image),
             NEW m \in Node, NEW s \in Shard, OnRecord(m, s),
             shardAssignments'[m] = shardAssignments[m]
      PROVE  \A i \in 1 .. Len(saving') : saving'[i].assigned[m] = s
  <2>1. image.assigned[m] = s /\ \A i \in 1 .. Len(saving) : saving[i].assigned[m] = s
    BY <1>1, <1>2 DEF OnRecord
  <2>2. CASE saving' = saving
    BY <2>1, <2>2
  <2>3. CASE saving' = Append(saving, image)
    BY <1>1, <2>1, <2>3
  <2> QED BY <1>2, <2>2, <2>3
<1>3. CASE CheckFailed(n)
  <2>1. CASE n \notin assignmentsBeingChecked
    <3>1. UNCHANGED <<coordinatorVars, inbox>>
      BY <1>3, <2>1 DEF CheckFailed, coordinatorVars, coordinatorMemory
    <3>2. \A m \in Node, s \in Shard : Claims(m, s)' <=> Claims(m, s)
      BY <1>1 DEF Claims, Live
    <3> QED BY <3>1, <3>2, ClaimsShrink
  <2>2. CASE n \in assignmentsBeingChecked
    <3>1. PICK image : image = [full |-> fullShards, assigned |-> shardAssignments']
      OBVIOUS
    <3>2. /\ shardAssignments' = [shardAssignments EXCEPT ![n] = NoShard]
          /\ saving' = Append(saving, image)
          /\ persisting' = <<>> /\ inbox' = inbox
      BY <1>1, <1>3, <2>2, <3>1 DEF CheckFailed
    <3>3. \A m \in Node \ {n} : shardAssignments'[m] = shardAssignments[m]
      BY <1>1, <3>2
    <3>4. image.assigned = shardAssignments'
      BY <3>1
    <3>5. \A m \in Node \ {n}, s \in Shard : OnRecord(m, s) =>
             /\ stored'.assigned[m] = s
             /\ \A i \in 1 .. Len(saving') : saving'[i].assigned[m] = s
             /\ running' => shardAssignments'[m] = s
      <4>1. SUFFICES ASSUME NEW m \in Node \ {n}, NEW s \in Shard, OnRecord(m, s)
                     PROVE  /\ stored'.assigned[m] = s
                            /\ \A i \in 1 .. Len(saving') : saving'[i].assigned[m] = s
                            /\ running' => shardAssignments'[m] = s
        OBVIOUS
      <4>2. stored.assigned[m] = s /\ shardAssignments[m] = s
        BY <1>1, <4>1 DEF OnRecord
      <4>3. \A i \in 1 .. Len(saving') : saving'[i].assigned[m] = s
        BY <1>2, <3>2, <3>3, <3>4, <4>1
      <4> QED BY <1>1, <3>3, <4>2, <4>3
    <3>6. \A i \in 1 .. Len(persisting') : persisting'[i].node = n
      BY <3>2
    <3>7. \A s \in Shard : ~Claims(n, s)
      BY <1>3, <2>2 DEF CheckFailed, ChecksInStep, Favours
    <3> QED BY <1>1, <3>2, <3>5, <3>6, <3>7, ClaimsSpared
  <2> QED BY <2>1, <2>2
<1>4. CASE CheckConfirmed(n)
  <2>1. UNCHANGED <<coordinatorVars, inbox>>
    BY <1>4 DEF CheckConfirmed
  <2>2. \A m \in Node, s \in Shard : Claims(m, s)' <=> Claims(m, s)
    BY <1>1 DEF Claims, Live
  <2> QED BY <2>1, <2>2, ClaimsShrink
<1>5. CASE CheckRefuted(n) \/ Terminated(n) \/ ShardFull(n)
  <2>1. /\ \A i \in 1 .. Len(persisting') : persisting'[i].node = n
        /\ UNCHANGED <<running, shardAssignments, stored, saving>>
    BY <1>5, CommandEvents
  <2>2. \A m \in Node \ {n} : inbox'[m] = inbox[m]
    BY <1>1, <1>5, TakeDoes DEF CheckRefuted, Terminated, ShardFull
  <2>3. CASE \A s \in Shard : ~Claims(n, s)
    BY <1>1, <2>1, <2>2, <2>3, ClaimsSpared DEF OnRecord
  <2>4. CASE CheckRefuted(n) /\ n \notin assignmentsBeingChecked
    <3>1. UNCHANGED <<coordinatorVars, inbox>>
      <4>1. assignmentsBeingChecked \ {n} = assignmentsBeingChecked
        BY <2>4
      <4> QED BY <1>1, <2>4, <4>1 DEF CheckRefuted, coordinatorVars, coordinatorMemory
    <3>2. \A m \in Node, s \in Shard : Claims(m, s)' <=> Claims(m, s)
      BY <1>1 DEF Claims, Live
    <3> QED BY <3>1, <3>2, ClaimsShrink
  <2>5. CASE CheckRefuted(n) /\ n \in assignmentsBeingChecked
    <3>1. \A s \in Shard : ~Claims(n, s)
      BY <2>5 DEF CheckRefuted, ChecksInStep, Favours
    <3> QED BY <2>3, <3>1
  <2>6. CASE Terminated(n)
    <3>1. ~up[n]
      BY <2>6 DEF Terminated, ChecksInStep
    <3>2. shardId[n] = NoShard /\ Live(n) = {}
      BY <3>1 DEF AsksInStep, Live
    <3> QED BY <2>3, <3>2, Unclaimed
  <2>7. CASE ShardFull(n)
    <3>1. inbox[n] # <<>>
      BY <2>7 DEF ShardFull, Take
    <3> QED BY <2>3, <3>1, AskersClaimNothing
  <2> QED BY <1>5, <2>4, <2>5, <2>6, <2>7
<1>6. CASE AssignShard(n)
  <2>1. /\ inbox[n] # <<>> /\ Head(inbox[n]).id \in Nat
        /\ \A m \in Node \ {n} : inbox'[m] = inbox[m]
    BY <1>1, <1>6, TakeDoes DEF AssignShard
  <2>2. PICK images, id : images = saving /\ id = Head(inbox[n]).id
    OBVIOUS
  <2>3. MakeAssignment(n, id, images) /\ images \in Seq(Image) /\ id \in Nat
    BY <1>1, <1>6, <2>1, <2>2 DEF AssignShard
  <2>4. PICK s \in Shard, e \in Event, image \in Image :
           /\ shardAssignments' = [shardAssignments EXCEPT ![n] = s]
           /\ e.node = n /\ persisting' = <<e>>
           /\ image.assigned = shardAssignments'
           /\ saving' = images \/ saving' = Append(images, image)
    <3>1. PICK s \in Shard, e \in Event :
            /\ shardAssignments' = [shardAssignments EXCEPT ![n] = s]
            /\ e.node = n /\ persisting' = <<e>>
            /\ \E image \in Image :
                 /\ image.full = fullShards /\ image.assigned = shardAssignments'
                 /\ saving' = images \/ saving' = Append(images, image)
      BY <2>3, MakeAssignmentDoes
    <3> QED BY <3>1
  <2>5. saving' = saving \/ saving' = Append(saving, image)
    BY <2>2, <2>4
  <2>6. \A m \in Node \ {n} : shardAssignments'[m] = shardAssignments[m]
    BY <1>1, <2>4
  <2>7. \A m \in Node \ {n}, t \in Shard : OnRecord(m, t) =>
           /\ stored'.assigned[m] = t
           /\ \A i \in 1 .. Len(saving') : saving'[i].assigned[m] = t
           /\ running' => shardAssignments'[m] = t
    <3>1. SUFFICES ASSUME NEW m \in Node \ {n}, NEW t \in Shard, OnRecord(m, t)
                   PROVE  /\ stored'.assigned[m] = t
                          /\ \A i \in 1 .. Len(saving') : saving'[i].assigned[m] = t
                          /\ running' => shardAssignments'[m] = t
      OBVIOUS
    <3>2. stored.assigned[m] = t /\ shardAssignments[m] = t
      BY <1>1, <3>1 DEF OnRecord
    <3>3. \A i \in 1 .. Len(saving') : saving'[i].assigned[m] = t
      BY <1>2, <2>4, <2>5, <2>6, <3>1
    <3> QED BY <1>1, <2>6, <3>2, <3>3
  <2>8. \A i \in 1 .. Len(persisting') : persisting'[i].node = n
    BY <2>4
  <2>9. \A t \in Shard : ~Claims(n, t)
    BY <2>1, AskersClaimNothing
  <2> QED BY <1>1, <2>1, <2>7, <2>8, <2>9, ClaimsSpared
<1> QED BY <1>3, <1>4, <1>5, <1>6
LEMMA ClaimsStores ==
  ASSUME TypeOK, TypeOK', RecordInStep, AsksInStep, ClaimsInStep, UNCHANGED managerVars,
         UnavailablePersisted \/ UnassignedPersisted \/ AssignedPersisted
  PROVE  ClaimsInStep'
<1>1. /\ running /\ running' /\ persisting # <<>>
      /\ UNCHANGED <<inbox, up, shardId, request, disowned>>
      /\ stored' = Replay(Head(persisting), stored)
      /\ persisting \in Seq(Event) /\ saving \in Seq(Image) /\ stored \in Image
      /\ answers \in [Node -> SUBSET Answer]
      /\ shardAssignments \in [Node -> ShardOrNone]
  BY DEF UnavailablePersisted, UnassignedPersisted, AssignedPersisted, PersistHead,
         managerVars, TypeOK, CoordinatorTypeOK, NetworkTypeOK
<1>2. PICK e, n, images : e = Head(persisting) /\ n = e.node /\ images = ReplayAll(e)
  OBVIOUS
<1>3. /\ e = persisting[1] /\ e \in Event /\ 1 \in 1 .. Len(persisting)
      /\ Len(Tail(persisting)) = Len(persisting) - 1
      /\ \A i \in 1 .. Len(Tail(persisting)) : Tail(persisting)[i] = persisting[i + 1]
                                              /\ i + 1 \in 1 .. Len(persisting)
  BY <1>1, <1>2
<1>4. n \in Node /\ e.id \in Nat /\ e.shard \in Shard
  BY <1>2, <1>3 DEF Event
<1>5. \A s \in Shard : ~Claims(n, s)
  BY <1>2, <1>3, <1>4, AskersClaimNothing
<1>6. images \in Seq(Image) /\ Len(images) = Len(saving)
  BY <1>1, <1>2, <1>3, ReplayAllDoes
<1>7. \A m \in Node \ {n}, s \in Shard : OnRecord(m, s) =>
        /\ stored'.assigned[m] = s
        /\ \A i \in 1 .. Len(images) : images[i].assigned[m] = s
        /\ shardAssignments[m] = s
  <2>1. ASSUME NEW m \in Node \ {n}, NEW s \in Shard, OnRecord(m, s)
        PROVE  /\ stored'.assigned[m] = s
               /\ \A i \in 1 .. Len(images) : images[i].assigned[m] = s
               /\ shardAssignments[m] = s
    <3>1. /\ Replay(Head(persisting), stored).assigned[m] = stored.assigned[m]
          /\ \A i \in 1 .. Len(saving) : images[i].assigned[m] = saving[i].assigned[m]
      BY <1>1, <1>2, <1>3, ReplaySpares
    <3> QED BY <1>1, <1>6, <2>1, <3>1 DEF OnRecord
  <2> QED BY <2>1
<1>8. CASE UnavailablePersisted \/ (UnassignedPersisted /\ ~e.reassign)
  <2>1. /\ persisting' = Tail(persisting) /\ saving' = images /\ answers' = answers
        /\ \A m \in Node \ {n} : shardAssignments'[m] = shardAssignments[m]
    BY <1>1, <1>2, <1>4, <1>8 DEF UnavailablePersisted, UnassignedPersisted
  <2>2. \A m \in Node \ {n}, s \in Shard : OnRecord(m, s) =>
          /\ stored'.assigned[m] = s
          /\ \A i \in 1 .. Len(saving') : saving'[i].assigned[m] = s
          /\ running' => shardAssignments'[m] = s
    BY <1>7, <2>1
  <2>3. \A i \in 1 .. Len(persisting') :
          \E k \in 1 .. Len(persisting) : persisting[k].node = persisting'[i].node
    BY <1>3, <2>1
  <2> QED BY <1>1, <1>4, <1>5, <2>1, <2>2, <2>3, ClaimsSpared
<1>9. CASE UnassignedPersisted /\ e.reassign
  <2>1. MakeAssignment(n, e.id, images) /\ answers' = answers
    BY <1>2, <1>9 DEF UnassignedPersisted
  <2>2. PICK s \in Shard, f \in Event, image \in Image :
           /\ shardAssignments' = [shardAssignments EXCEPT ![n] = s]
           /\ f.node = n /\ persisting' = <<f>>
           /\ image.assigned = shardAssignments'
           /\ saving' = images \/ saving' = Append(images, image)
    BY <1>4, <1>6, <2>1, MakeAssignmentDoes
  <2>3. \A m \in Node \ {n} : shardAssignments'[m] = shardAssignments[m]
    BY <1>1, <2>2
  <2>4. \A m \in Node \ {n}, t \in Shard : OnRecord(m, t) =>
          /\ stored'.assigned[m] = t
          /\ \A i \in 1 .. Len(saving') : saving'[i].assigned[m] = t
          /\ running' => shardAssignments'[m] = t
    <3>1. SUFFICES ASSUME NEW m \in Node \ {n}, NEW t \in Shard, OnRecord(m, t)
                   PROVE  /\ stored'.assigned[m] = t
                          /\ \A i \in 1 .. Len(saving') : saving'[i].assigned[m] = t
                          /\ running' => shardAssignments'[m] = t
      OBVIOUS
    <3>2. /\ stored'.assigned[m] = t /\ shardAssignments'[m] = t
          /\ \A i \in 1 .. Len(images) : images[i].assigned[m] = t
      BY <1>7, <2>3, <3>1
    <3>3. image.assigned[m] = t
      BY <2>2, <3>2
    <3>4. CASE saving' = images
      BY <3>2, <3>4
    <3>5. CASE saving' = Append(images, image)
      BY <1>6, <3>2, <3>3, <3>5
    <3> QED BY <2>2, <3>4, <3>5
  <2>5. \A i \in 1 .. Len(persisting') : persisting'[i].node = n
    BY <2>2
  <2> QED BY <1>1, <1>4, <1>5, <2>1, <2>4, <2>5, ClaimsSpared
(* The only new claim: the answer to an ask of a node that has asked nothing since. *)
<1>10. CASE AssignedPersisted
  <2>1. PICK a : a = [shard |-> e.shard, id |-> e.id]
    OBVIOUS
  <2>2. /\ e.type = "ShardAssigned" /\ persisting' = Tail(persisting) /\ saving' = images
        /\ shardAssignments' = shardAssignments
        /\ answers' = [answers EXCEPT ![n] = @ \union {a}]
    BY <1>2, <1>10, <2>1 DEF AssignedPersisted, PersistHead
  <2>3. /\ Len(persisting) = 1 /\ shardAssignments[n] = e.shard
        /\ \A m \in Node \ {n} : shardAssignments[m] # e.shard
    BY <1>2, <1>3, <2>2 DEF RecordInStep, AssignedAlone
  <2>4. \A i \in 1 .. Len(persisting') : FALSE
    BY <1>3, <2>2, <2>3
  <2>5. \A m \in Node \ {n}, s \in Shard : Claims(m, s)' <=> Claims(m, s)
    BY <1>1, <1>4, <2>2 DEF Claims, Live
  <2>6. \A s \in Shard : Claims(n, s)' =>
          /\ s = e.shard
          /\ request[n].waiting /\ e.id = request[n].id
    <3>1. ASSUME NEW s \in Shard, Claims(n, s)'
          PROVE  s = e.shard /\ request[n].waiting /\ e.id = request[n].id
      <4>1. shardId[n] # s /\ \A b \in Live(n) : b.shard # s
        <5>1. n \notin disowned /\ s # NoShard
          BY <1>1, <3>1 DEF Claims
        <5> QED BY <1>5, <5>1 DEF Claims
      <4>2. PICK b \in Live(n)' : b.shard = s
        BY <1>1, <3>1, <4>1 DEF Claims
      <4>3. /\ b \in answers[n] \union {a} /\ up[n] /\ request[n].waiting
            /\ b.id = request[n].id
        BY <1>1, <1>4, <2>2, <4>2 DEF Live
      <4>4. b = a
        BY <4>1, <4>2, <4>3 DEF Live
      <4> QED BY <2>1, <4>2, <4>3, <4>4
    <3> QED BY <3>1
  <2>7. SUFFICES ASSUME NEW m \in Node, NEW s \in Shard, Claims(m, s)'
                 PROVE  /\ OnRecord(m, s)' /\ inbox'[m] = <<>>
                        /\ \A i \in 1 .. Len(persisting') : persisting'[i].node # m
                        /\ \A k \in Node \ {m} : ~Claims(k, s)'
    BY DEF ClaimsInStep
  <2>8. CASE m # n
    <3>1. /\ OnRecord(m, s) /\ inbox[m] = <<>> /\ \A k \in Node \ {m} : ~Claims(k, s)
      BY <2>5, <2>7, <2>8 DEF ClaimsInStep
    <3>2. s # e.shard
      BY <1>1, <2>3, <2>8, <3>1 DEF OnRecord
    <3>3. OnRecord(m, s)'
      BY <1>1, <1>7, <2>2, <2>8, <3>1 DEF OnRecord
    <3>4. \A k \in Node \ {m} : ~Claims(k, s)'
      BY <2>5, <2>6, <3>1, <3>2
    <3> QED BY <1>1, <2>4, <3>1, <3>3, <3>4
  <2>9. CASE m = n
    <3>1. s = e.shard /\ request[n].waiting /\ e.id = request[n].id
      BY <2>6, <2>7, <2>9
    <3>2. inbox[n] = <<>>
      <4>1. EventsAsked(n, persisting, inbox[n], request[n].id) /\ request[n].id # 0
        BY <1>4, <3>1 DEF AsksInStep
      <4> QED BY <1>2, <1>3, <3>1, <4>1 DEF EventsAsked
    <3>3. \A image \in Image : Replay(e, image).assigned[n] = s
      <4>1. SUFFICES ASSUME NEW image \in Image PROVE Replay(e, image).assigned[n] = s
        OBVIOUS
      <4>2. image.assigned \in [Node -> ShardOrNone]
        BY DEF Image
      <4>3. Replay(e, image).assigned = [image.assigned EXCEPT ![e.node] = e.shard]
        BY <1>3, <2>2, ReplayDoes
      <4> QED BY <1>2, <1>4, <3>1, <4>2, <4>3
    <3>4. OnRecord(n, s)'
      <4>1. \A i \in 1 .. Len(saving) : images[i] = Replay(e, saving[i]) /\ saving[i] \in Image
        BY <1>1, <1>2, <1>3, ReplayAllDoes
      <4>2. stored'.assigned[n] = s
        BY <1>1, <1>2, <3>3
      <4>3. \A i \in 1 .. Len(saving') : saving'[i].assigned[n] = s
        BY <1>6, <2>2, <3>3, <4>1
      <4>4. shardAssignments'[n] = s
        BY <2>2, <2>3, <3>1
      <4> QED BY <4>2, <4>3, <4>4 DEF OnRecord
    <3>5. \A k \in Node \ {n} : ~Claims(k, s)'
      <4>1. SUFFICES ASSUME NEW k \in Node \ {n}, Claims(k, s) PROVE FALSE
        BY <2>5
      <4>2. shardAssignments[k] = s
        BY <1>1, <4>1 DEF ClaimsInStep, OnRecord
      <4> QED BY <2>3, <3>1, <4>2
    <3> QED BY <1>1, <2>4, <2>9, <3>2, <3>4, <3>5
  <2> QED BY <2>8, <2>9
<1> QED BY <1>8, <1>9, <1>10

LEMMA ClaimsSnapshots ==
  ASSUME TypeOK, ClaimsInStep, UNCHANGED managerVars,
         NEW i \in DOMAIN saving, SnapshotSaved(i) \/ SnapshotFailed(i)
  PROVE  ClaimsInStep'
<1>1. /\ UNCHANGED <<running, shardAssignments, persisting, inbox, answers, up, request, shardId,
                     disowned>>
      /\ stored' \in {stored, saving[i]} /\ i \in 1 .. Len(saving)
  BY DEF SnapshotSaved, SnapshotFailed, coordinatorMemory, network, managerVars, TypeOK,
         CoordinatorTypeOK
<1>2. \A j \in 1 .. Len(saving') : \E k \in 1 .. Len(saving) : saving'[j] = saving[k]
  BY SnapshotsLeft
<1>3. \A m \in Node, s \in Shard : Claims(m, s)' <=> Claims(m, s)
  BY <1>1 DEF Claims, Live
<1>4. \A m \in Node, s \in Shard : OnRecord(m, s) => OnRecord(m, s)'
  BY <1>1, <1>2 DEF OnRecord
<1> QED BY <1>1, <1>3, <1>4 DEF ClaimsInStep
(* No step of a node, and nothing that happens to it, adds a claim: an ask clears *)
(* what is held against it, and then it has neither shard nor answer.            *)
LEMMA NodesClaimNoMore ==
  ASSUME TypeOK, AsksInStep, ClaimsInStep, NEW n \in Node, UNCHANGED coordinatorVars,
         \/ Start(n) \/ (AskIsGone(n) /\ SendAgain(n)) \/ DropAnswer(n)
         \/ ReceiveAssignment(n) \/ HandleShardFull(n) \/ AnswerCheck(n)
         \/ NodeDies(n) \/ SendAgainHastily(n) \/ AllocatorAlarms(n)
         \/ LoseMessage(n) \/ LoseAnswer(n) \/ CheckTimesOut(n) \/ DetectDeath(n)
  PROVE  \A m \in Node, s \in Shard : Claims(m, s)' => Claims(m, s) /\ inbox'[m] = inbox[m]
<1> DEFINE NoMore ==
      \A m \in Node, s \in Shard : Claims(m, s)' => Claims(m, s) /\ inbox'[m] = inbox[m]
<1>0. /\ inbox \in [Node -> Seq(Message)] /\ answers \in [Node -> SUBSET Answer]
      /\ up \in [Node -> BOOLEAN] /\ shardId \in [Node -> ShardOrNone]
      /\ request \in [Node -> Request] /\ request[n].id \in Nat
      /\ inbox[n] \in Seq(Message) /\ disowned \subseteq Node
  BY DEF TypeOK, NetworkTypeOK, ManagerTypeOK, Request
<1>1. request[n].waiting \/ ~up[n] => shardId[n] = NoShard
  BY DEF AsksInStep
(* The others are left alone, and n claims no more than before. *)
<1>2. ASSUME \A m \in Node \ {n} : /\ inbox'[m] = inbox[m] /\ answers'[m] = answers[m]
                                   /\ request'[m] = request[m] /\ up'[m] = up[m]
                                   /\ shardId'[m] = shardId[m]
                                   /\ m \in disowned' <=> m \in disowned,
             \A s \in Shard : Claims(n, s)' => Claims(n, s) /\ inbox'[n] = inbox[n]
      PROVE  NoMore
  <2>1. \A m \in Node \ {n}, s \in Shard : Claims(m, s)' => Claims(m, s)
    BY <1>2 DEF Claims, Live
  <2> QED BY <1>2, <2>1
(* A node whose answers cannot be told any more, and that has no shard. *)
<1>3. ASSUME shardId'[n] = NoShard, Live(n)' = {}
      PROVE  \A s \in Shard : ~Claims(n, s)'
  BY <1>3, ConstantTypes DEF Claims
<1>4. ASSUME NEW shard \in ShardOrNone, NEW sent \in Seq(Message),
             sent = <<>> \/ sent = inbox[n], RequestShardId(n, shard, sent),
             answers'[n] \subseteq answers[n], shardId'[n] = NoShard,
             \A m \in Node \ {n} : /\ answers'[m] = answers[m] /\ up'[m] = up[m]
                                   /\ shardId'[m] = shardId[m]
      PROVE  NoMore
  <2>1. /\ \A a \in answers[n] : a.id # request'[n].id
        /\ \A m \in Node \ {n} : /\ request'[m] = request[m] /\ inbox'[m] = inbox[m]
                                 /\ m \in disowned' <=> m \in disowned
    BY <1>4, NewAsk DEF RequestShardId
  <2>2. Live(n)' = {}
    BY <1>4, <2>1 DEF Live
  <2> QED BY <1>2, <1>3, <1>4, <2>1, <2>2
<1>5. ASSUME Restart(n), answers'[n] \subseteq answers[n],
             \A m \in Node \ {n} : answers'[m] = answers[m] /\ up'[m] = up[m]
      PROVE  NoMore
  <2>1. RequestShardId(n, NoShard, inbox[n]) /\ shardId'[n] = NoShard
        /\ \A m \in Node \ {n} : shardId'[m] = shardId[m]
    BY <1>0, <1>5 DEF Restart
  <2> QED BY <1>0, <1>4, <1>5, <2>1, ConstantTypes
<1>6. CASE Start(n)
  <2>1. /\ RequestShardId(n, NoShard, <<>>) /\ answers'[n] = {} /\ ~up[n]
        /\ shardId' = shardId
        /\ \A m \in Node \ {n} : answers'[m] = answers[m] /\ up'[m] = up[m]
    BY <1>0, <1>6 DEF Start
  <2>2. <<>> \in Seq(Message)
    OBVIOUS
  <2> QED BY <1>1, <1>4, <2>1, <2>2, ConstantTypes
<1>7. CASE AskIsGone(n) /\ SendAgain(n)
  <2>1. Live(n) = {} /\ shardId[n] = NoShard
    BY <1>1, <1>7 DEF AskIsGone, SendAgain, Live
  <2>2. UNCHANGED <<answers, request, up, shardId>>
        /\ \A m \in Node \ {n} : inbox'[m] = inbox[m] /\ (m \in disowned' <=> m \in disowned)
    BY <1>0, <1>7 DEF SendAgain, managerVars
  <2>3. Live(n)' = {} /\ shardId'[n] = NoShard
    BY <2>1, <2>2 DEF Live
  <2> QED BY <1>2, <1>3, <2>2, <2>3
<1>8. CASE SendAgainHastily(n)
  <2>1. /\ RequestShardId(n, request[n].shard, inbox[n]) /\ request[n].waiting
        /\ UNCHANGED <<answers, up, shardId>>
    BY <1>8 DEF SendAgainHastily
  <2>2. request[n].shard \in ShardOrNone
    BY <1>0 DEF Request
  <2> QED BY <1>0, <1>1, <1>4, <2>1, <2>2
<1>9. CASE DropAnswer(n) \/ LoseAnswer(n)
  <2>1. /\ UNCHANGED <<inbox, request, up, shardId, disowned>> /\ answers'[n] \subseteq answers[n]
        /\ \A m \in Node \ {n} : answers'[m] = answers[m]
    BY <1>0, <1>9 DEF DropAnswer, LoseAnswer, managerVars
  <2>2. \A s \in Shard : Claims(n, s)' => Claims(n, s)
    BY <2>1 DEF Claims, Live
  <2> QED BY <1>2, <2>1, <2>2
<1>10. CASE ReceiveAssignment(n)
  <2>1. PICK a \in answers[n] :
          /\ up[n] /\ request[n].waiting /\ a.id = request[n].id
          /\ answers' = [answers EXCEPT ![n] = @ \ {a}]
          /\ \/ /\ shardId' = [shardId EXCEPT ![n] = a.shard]
                /\ request' = [request EXCEPT ![n].waiting = FALSE]
                /\ UNCHANGED <<inbox, disowned>>
             \/ Restart(n)
          /\ UNCHANGED up
    BY <1>10 DEF ReceiveAssignment
  <2>2. CASE Restart(n)
    BY <1>0, <1>5, <2>1, <2>2
  <2>3. CASE /\ shardId' = [shardId EXCEPT ![n] = a.shard]
             /\ request' = [request EXCEPT ![n].waiting = FALSE]
             /\ UNCHANGED <<inbox, disowned>>
    <3>1. ~request'[n].waiting /\ \A m \in Node \ {n} : request'[m] = request[m]
      BY <1>0, <2>3 DEF Request
    <3>2. Live(n)' = {} /\ shardId'[n] = a.shard /\ a \in Live(n)
      BY <1>0, <2>1, <2>3, <3>1 DEF Live
    <3>3. \A s \in Shard : Claims(n, s)' => Claims(n, s)
      <4>1. ASSUME NEW s \in Shard, Claims(n, s)' PROVE Claims(n, s)
        <5>1. n \notin disowned /\ s # NoShard
          BY <2>3, <4>1 DEF Claims
        <5>2. a.shard = s
          BY <3>2, <4>1 DEF Claims
        <5> QED BY <3>2, <5>1, <5>2 DEF Claims
      <4> QED BY <4>1
    <3> QED BY <1>0, <1>2, <2>1, <2>3, <3>1, <3>3
  <2> QED BY <2>1, <2>2, <2>3
<1>11. CASE HandleShardFull(n)
  <2>1. PICK s \in alarms[n] :
          /\ \/ Restart(n)
             \/ UNCHANGED <<shardId, request, disowned, inbox>>
             \/ /\ shardId' = [shardId EXCEPT ![n] = NoShard]
                /\ RequestShardId(n, s, inbox[n])
          /\ UNCHANGED <<up, answers>>
    BY <1>11 DEF HandleShardFull
  <2>2. s \in ShardOrNone
    BY <2>1 DEF TypeOK, ManagerTypeOK, ShardOrNone
  <2>3. CASE Restart(n)
    BY <1>5, <2>1, <2>3
  <2>4. CASE UNCHANGED <<shardId, request, disowned, inbox>>
    <3>1. \A t \in Shard : Claims(n, t)' => Claims(n, t)
      BY <2>1, <2>4 DEF Claims, Live
    <3> QED BY <1>2, <2>1, <2>4, <3>1
  <2>5. CASE /\ shardId' = [shardId EXCEPT ![n] = NoShard]
             /\ RequestShardId(n, s, inbox[n])
    BY <1>0, <1>4, <2>1, <2>2, <2>5
  <2> QED BY <2>1, <2>3, <2>4, <2>5
<1>12. CASE AnswerCheck(n) \/ AllocatorAlarms(n) \/ CheckTimesOut(n) \/ DetectDeath(n)
  <2>1. UNCHANGED <<inbox, answers, request, up, shardId>>
        /\ disowned' \in {disowned, disowned \union {n}}
    BY <1>12 DEF AnswerCheck, AllocatorAlarms, CheckTimesOut, DetectDeath, managerVars, network
  <2>2. \A s \in Shard : Claims(n, s)' => Claims(n, s)
    BY <2>1 DEF Claims, Live
  <2> QED BY <1>2, <2>1, <2>2
<1>13. CASE NodeDies(n)
  <2>1. /\ request' = [request EXCEPT ![n].waiting = FALSE]
        /\ shardId' = [shardId EXCEPT ![n] = NoShard] /\ answers' = [answers EXCEPT ![n] = {}]
        /\ up' = [up EXCEPT ![n] = FALSE]
        /\ \A m \in Node \ {n} : inbox'[m] = inbox[m] /\ (m \in disowned' <=> m \in disowned)
    BY <1>0, <1>13 DEF NodeDies
  <2>2. shardId'[n] = NoShard /\ Live(n)' = {}
    BY <1>0, <2>1 DEF Live
  <2>3. \A m \in Node \ {n} : /\ answers'[m] = answers[m] /\ request'[m] = request[m]
                              /\ up'[m] = up[m] /\ shardId'[m] = shardId[m]
    BY <1>0, <2>1
  <2> QED BY <1>2, <1>3, <2>1, <2>2, <2>3
<1>14. CASE LoseMessage(n)
  <2>1. PICK i \in DOMAIN inbox[n] : inbox' = [inbox EXCEPT ![n] = RemoveAt(inbox[n], i)]
    BY <1>14 DEF LoseMessage
  <2>2. UNCHANGED <<answers, request, up, shardId, disowned>>
    BY <1>14 DEF LoseMessage, managerVars
  <2>3. inbox[n] # <<>> /\ \A m \in Node \ {n} : inbox'[m] = inbox[m]
    BY <1>0, <2>1
  <2>4. \A s \in Shard : ~Claims(n, s)
    BY <2>3, AskersClaimNothing
  <2>5. \A s \in Shard : ~Claims(n, s)'
    BY <2>2, <2>4 DEF Claims, Live
  <2> QED BY <1>2, <2>2, <2>3, <2>5
<1> QED BY <1>6, <1>7, <1>8, <1>9, <1>10, <1>11, <1>12, <1>13, <1>14

LEMMA ClaimsStep ==
  ASSUME TypeOK, TypeOK', RecordInStep, AsksInStep, ChecksInStep, ClaimsInStep, [Next]_vars
  PROVE  ClaimsInStep'
<1>1. CASE Recover /\ UNCHANGED managerVars
  BY <1>1, ClaimsRecovery
<1>2. CASE CoordinatorStops /\ UNCHANGED managerVars
  BY <1>2, ClaimsRecovery
<1>3. CASE CoordinatorStep /\ UNCHANGED managerVars
  BY <1>3, ClaimsCommands, ClaimsStores, ClaimsSnapshots DEF CoordinatorStep
<1>4. ASSUME NEW n \in Node,
             \/ NodeStep(n) /\ UNCHANGED coordinatorVars
             \/ CheckTimesOut(n) \/ DetectDeath(n) \/ Mishaps(n)
      PROVE  ClaimsInStep'
  <2>1. UNCHANGED coordinatorVars
    BY <1>4 DEF CheckTimesOut, DetectDeath, Mishaps, LoseMessage, LoseAnswer
  <2> QED BY <1>4, <2>1, NodesClaimNoMore, ClaimsShrink DEF NodeStep, Mishaps
<1>5. CASE UNCHANGED vars
  <2>1. UNCHANGED <<coordinatorVars, inbox, answers, up, request, shardId, disowned>>
    BY <1>5 DEF vars, managerVars, network
  <2>2. \A m \in Node, s \in Shard : Claims(m, s)' => Claims(m, s) /\ inbox'[m] = inbox[m]
    BY <2>1 DEF Claims, Live
  <2> QED BY <2>1, <2>2, ClaimsShrink
<1> QED BY <1>1, <1>2, <1>3, <1>4, <1>5 DEF Next
-----------------------------------------------------------------------------
(* The checks. *)

(* A step of the coordinator that checks no more nodes than before, and gives *)
(* no answer to those.                                                        *)
LEMMA ChecksCarryOn ==
  ASSUME TypeOK, ChecksInStep, UNCHANGED <<up, request, shardId, disowned>>,
         terminated' \subseteq terminated,
         assignmentsBeingChecked' \subseteq assignmentsBeingChecked,
         \A n \in assignmentsBeingChecked' :
           /\ answers'[n] = answers[n]
           /\ checks'[n] = checks[n] \/ checks'[n] = NoCheck,
         \A i \in 1 .. Len(persisting') : persisting'[i].node \notin assignmentsBeingChecked'
  PROVE  ChecksInStep'
<1>1. \A n \in terminated' : ~up'[n]
  BY DEF ChecksInStep
<1>2. ASSUME NEW n \in assignmentsBeingChecked', NEW s \in Shard, Claims(n, s)'
      PROVE  Favours(checks'[n], s)
  <2>1. Claims(n, s)
    BY <1>2 DEF Claims, Live
  <2>2. Favours(checks[n], s)
    BY <1>2, <2>1 DEF ChecksInStep
  <2> QED BY <1>2, <2>2 DEF Favours, NoCheck
<1> QED BY <1>1, <1>2 DEF ChecksInStep

LEMMA ChecksCommands ==
  ASSUME TypeOK, ChecksInStep, UNCHANGED managerVars, NEW n \in Node,
         CheckFailed(n) \/ CheckConfirmed(n) \/ CheckRefuted(n) \/ AssignShard(n)
           \/ ShardFull(n) \/ Terminated(n)
  PROVE  ChecksInStep'
<1>1. /\ UNCHANGED <<answers, up, shardId, request, disowned>> /\ persisting = <<>>
      /\ assignmentsBeingChecked \subseteq Node
  BY DEF CheckFailed, CheckConfirmed, CheckRefuted, AssignShard, ShardFull, Terminated, Ready,
         managerVars, TypeOK, CoordinatorTypeOK
<1>2. /\ terminated' \subseteq terminated
      /\ assignmentsBeingChecked' \subseteq assignmentsBeingChecked
  BY DEF CheckFailed, CheckConfirmed, CheckRefuted, AssignShard, ShardFull, Terminated,
         coordinatorVars, coordinatorMemory
<1>3. \A m \in Node : checks'[m] = checks[m] \/ checks'[m] = NoCheck
  <2>1. checks' = checks \/ checks' = [checks EXCEPT ![n] = NoCheck]
    BY DEF CheckFailed, CheckConfirmed, CheckRefuted, AssignShard, ShardFull, Terminated
  <2>2. DOMAIN checks = Node
    BY DEF TypeOK, NetworkTypeOK
  <2> QED BY <2>1, <2>2
<1>4. \A i \in 1 .. Len(persisting') : persisting'[i].node \notin assignmentsBeingChecked'
  <2>1. CASE CheckFailed(n) \/ CheckConfirmed(n)
    <3>1. persisting' = <<>>
      BY <1>1, <2>1 DEF CheckFailed, CheckConfirmed, coordinatorVars, coordinatorMemory
    <3> QED BY <3>1
  <2>2. CASE CheckRefuted(n) \/ ShardFull(n) \/ Terminated(n)
    <3>1. \A i \in 1 .. Len(persisting') : persisting'[i].node = n
      BY <2>2, CommandEvents
    <3>2. n \notin assignmentsBeingChecked'
      BY <2>2 DEF CheckRefuted, ShardFull, Terminated
    <3> QED BY <3>1, <3>2
  <2>3. CASE AssignShard(n)
    <3>1. PICK images, id : images = saving /\ id = Head(inbox[n]).id
      OBVIOUS
    <3>2. MakeAssignment(n, id, images) /\ images \in Seq(Image) /\ id \in Nat
      BY <2>3, <3>1, TakeDoes DEF AssignShard, TypeOK, CoordinatorTypeOK
    <3>3. PICK e \in Event : persisting' = <<e>> /\ e.node = n
      BY <3>2, MakeAssignmentPersists
    <3>4. n \notin assignmentsBeingChecked'
      BY <2>3 DEF AssignShard
    <3> QED BY <3>3, <3>4
  <2> QED BY <2>1, <2>2, <2>3
<1> QED BY <1>1, <1>2, <1>3, <1>4, ChecksCarryOn

LEMMA ChecksStores ==
  ASSUME TypeOK, ChecksInStep, UNCHANGED managerVars,
         UnavailablePersisted \/ UnassignedPersisted \/ AssignedPersisted
  PROVE  ChecksInStep'
<1>1. /\ UNCHANGED <<up, shardId, request, disowned, checks, terminated,
                     assignmentsBeingChecked>>
      /\ persisting # <<>> /\ persisting \in Seq(Event) /\ saving \in Seq(Image)
      /\ answers \in [Node -> SUBSET Answer] /\ assignmentsBeingChecked \subseteq Node
  BY DEF UnavailablePersisted, UnassignedPersisted, AssignedPersisted, PersistHead,
         managerVars, TypeOK, CoordinatorTypeOK, NetworkTypeOK
<1>2. PICK e : e = Head(persisting)
  OBVIOUS
<1>3. /\ e = persisting[1] /\ e \in Event /\ 1 \in 1 .. Len(persisting)
      /\ \A i \in 1 .. Len(Tail(persisting)) : Tail(persisting)[i] = persisting[i + 1]
                                              /\ i + 1 \in 1 .. Len(persisting)
  BY <1>1, <1>2
<1>4. e.node \in Node /\ e.id \in Nat /\ e.node \notin assignmentsBeingChecked
  BY <1>3 DEF Event, ChecksInStep
<1>5. \A i \in 1 .. Len(persisting') : persisting'[i].node \notin assignmentsBeingChecked'
  <2>1. CASE persisting' = Tail(persisting)
    BY <1>1, <1>3, <2>1 DEF ChecksInStep
  <2>2. CASE UnassignedPersisted /\ e.reassign
    <3>1. PICK images : images = ReplayAll(e)
      OBVIOUS
    <3>2. MakeAssignment(e.node, e.id, images) /\ images \in Seq(Image)
      BY <1>1, <1>2, <1>3, <2>2, <3>1, ReplayAllDoes DEF UnassignedPersisted
    <3>3. PICK f \in Event : persisting' = <<f>> /\ f.node = e.node
      BY <1>4, <3>2, MakeAssignmentPersists
    <3> QED BY <1>1, <1>4, <3>3
  <2>3. persisting' = Tail(persisting) \/ (UnassignedPersisted /\ e.reassign)
    BY <1>2 DEF UnavailablePersisted, UnassignedPersisted, AssignedPersisted
  <2> QED BY <2>1, <2>2, <2>3
<1>6. \A n \in assignmentsBeingChecked : answers'[n] = answers[n]
  <2>1. CASE AssignedPersisted
    <3>1. PICK a : answers' = [answers EXCEPT ![e.node] = @ \union {a}]
      BY <1>2, <2>1 DEF AssignedPersisted
    <3> QED BY <1>1, <1>4, <3>1
  <2>2. CASE ~AssignedPersisted
    BY <2>2 DEF UnavailablePersisted, UnassignedPersisted
  <2> QED BY <2>1, <2>2
<1> QED BY <1>1, <1>5, <1>6, ChecksCarryOn

(* A new coordinator asks about what is on record, and that is what is claimed. *)
LEMMA ChecksRecovery ==
  ASSUME TypeOK, RecordInStep, ChecksInStep, ClaimsInStep, UNCHANGED managerVars,
         Recover \/ CoordinatorStops
  PROVE  ChecksInStep'
<1>1. CASE CoordinatorStops
  BY <1>1 DEF CoordinatorStops, ChecksInStep
<1>2. CASE Recover
  <2>1. /\ UNCHANGED <<up, shardId, request, disowned, answers, terminated, persisting>>
        /\ ~running
        /\ assignmentsBeingChecked' = {n \in Node : stored.assigned[n] # NoShard}
        /\ checks' = [n \in Node |->
             IF stored.assigned[n] = NoShard THEN NoCheck
             ELSE [state |-> "asked", shard |-> stored.assigned[n]]]
    BY <1>2 DEF Recover, managerVars
  <2>2. persisting' = <<>>
    BY <2>1 DEF RecordInStep
  <2>3. ASSUME NEW n \in assignmentsBeingChecked', NEW s \in Shard, Claims(n, s)'
        PROVE  Favours(checks'[n], s)
    <3>1. /\ n \in Node /\ checks'[n].state = "asked"
          /\ checks'[n].shard = stored.assigned[n]
      BY <2>1, <2>3
    <3>2. Claims(n, s)
      BY <2>1, <2>3 DEF Claims, Live
    <3>3. stored.assigned[n] = s
      BY <3>1, <3>2 DEF ClaimsInStep, OnRecord
    <3> QED BY <3>1, <3>3 DEF Favours
  <2> QED BY <2>1, <2>2, <2>3 DEF ChecksInStep
<1> QED BY <1>1, <1>2

(* Only a node's answer, or its silence, decides a check.  It denies the shard that *)
(* it has only if it has another, and the shard on its way by being slow.           *)
LEMMA ChecksNode ==
  ASSUME TypeOK, AsksInStep, ChecksInStep, ClaimsInStep, NEW n \in Node,
         UNCHANGED coordinatorVars,
         \/ Start(n) \/ (AskIsGone(n) /\ SendAgain(n)) \/ DropAnswer(n)
         \/ ReceiveAssignment(n) \/ HandleShardFull(n) \/ AnswerCheck(n)
         \/ NodeDies(n) \/ SendAgainHastily(n) \/ AllocatorAlarms(n)
         \/ LoseMessage(n) \/ LoseAnswer(n) \/ CheckTimesOut(n) \/ DetectDeath(n)
  PROVE  ChecksInStep'
<1>0. /\ up \in [Node -> BOOLEAN] /\ request \in [Node -> Request]
      /\ checks \in [Node -> [state : {"none", "asked", "confirm", "refute", "failed"},
                              shard : ShardOrNone]]
      /\ UNCHANGED <<persisting, assignmentsBeingChecked>>
      /\ assignmentsBeingChecked \subseteq Node /\ terminated \subseteq Node
      /\ shardId \in [Node -> ShardOrNone]
  BY DEF TypeOK, NetworkTypeOK, ManagerTypeOK, CoordinatorTypeOK, coordinatorVars,
         coordinatorMemory
<1>1. \A m \in Node, s \in Shard : Claims(m, s)' => Claims(m, s)
  BY NodesClaimNoMore
<1>2. request[n].waiting \/ ~up[n] => shardId[n] = NoShard
  BY DEF AsksInStep
<1>3. \A m \in terminated' : ~up'[m]
  <2>1. CASE DetectDeath(n)
    BY <2>1 DEF DetectDeath, managerVars, ChecksInStep
  <2>2. CASE Start(n)
    BY <1>0, <2>2 DEF Start, ChecksInStep
  <2>3. CASE NodeDies(n)
    BY <1>0, <2>3 DEF NodeDies, ChecksInStep
  <2>4. CASE ~DetectDeath(n) /\ ~Start(n) /\ ~NodeDies(n)
    <3>1. UNCHANGED <<up, terminated>>
      BY <2>4 DEF SendAgain, DropAnswer, ReceiveAssignment, HandleShardFull, AnswerCheck,
                  SendAgainHastily, AllocatorAlarms, LoseMessage, LoseAnswer, CheckTimesOut,
                  managerVars, network
    <3> QED BY <3>1 DEF ChecksInStep
  <2> QED BY <2>1, <2>2, <2>3, <2>4
<1>4. ASSUME NEW m \in assignmentsBeingChecked, NEW s \in Shard, Claims(m, s)'
      PROVE  Favours(checks'[m], s)
  <2>1. m \in Node /\ Claims(m, s) /\ Favours(checks[m], s)
    BY <1>0, <1>1, <1>4 DEF ChecksInStep
  <2>2. CASE checks'[m] = checks[m]
    BY <2>1, <2>2
  <2>3. CASE AnswerCheck(n) /\ m = n
    <3>1. /\ checks[n].state = "asked" /\ checks[n].shard = s
          /\ checks'[n].state = IF shardId[n] = checks[n].shard THEN "confirm" ELSE "refute"
      BY <1>0, <2>1, <2>3 DEF AnswerCheck, Favours
    <3>2. Live(n) = {}
      BY <1>4, <2>3 DEF AnswerCheck, Claims
    <3>3. shardId[n] = s
      BY <2>1, <2>3, <3>2 DEF Claims
    <3> QED BY <2>3, <3>1, <3>3 DEF Favours
  <2>4. CASE CheckTimesOut(n) /\ m = n
    <3>1. ~up[n]
      BY <1>4, <2>4 DEF CheckTimesOut, Claims
    <3>2. shardId[n] = NoShard /\ Live(n) = {}
      BY <1>2, <3>1 DEF Live
    <3> QED BY <2>1, <2>4, <3>2, Unclaimed
  <2>5. CASE Start(n) /\ m = n
    <3>1. shardId[n] = NoShard /\ Live(n) = {}
      BY <1>2, <2>5 DEF Start, Live
    <3> QED BY <2>1, <2>5, <3>1, Unclaimed
  <2>6. checks'[m] = checks[m] \/ (m = n /\ (AnswerCheck(n) \/ CheckTimesOut(n) \/ Start(n)))
    <3>1. CASE AnswerCheck(n) \/ CheckTimesOut(n) \/ Start(n)
      BY <1>0, <2>1, <3>1 DEF AnswerCheck, CheckTimesOut, Start
    <3>2. CASE ~(AnswerCheck(n) \/ CheckTimesOut(n) \/ Start(n))
      <4>1. checks' = checks
        BY <3>2 DEF SendAgain, DropAnswer, ReceiveAssignment, HandleShardFull, NodeDies,
                    SendAgainHastily, AllocatorAlarms, LoseMessage, LoseAnswer, DetectDeath,
                    network
      <4> QED BY <4>1
    <3> QED BY <3>1, <3>2
  <2> QED BY <2>2, <2>3, <2>4, <2>5, <2>6
<1> QED BY <1>0, <1>3, <1>4 DEF ChecksInStep

LEMMA ChecksStep ==
  ASSUME TypeOK, RecordInStep, AsksInStep, ChecksInStep, ClaimsInStep, [Next]_vars
  PROVE  ChecksInStep'
<1>1. CASE Recover /\ UNCHANGED managerVars
  BY <1>1, ChecksRecovery
<1>2. CASE CoordinatorStops /\ UNCHANGED managerVars
  BY <1>2, ChecksRecovery
<1>3. CASE CoordinatorStep /\ UNCHANGED managerVars
  <2>1. ASSUME NEW i \in DOMAIN saving, SnapshotSaved(i) \/ SnapshotFailed(i)
        PROVE  ChecksInStep'
    BY <1>3, <2>1 DEF SnapshotSaved, SnapshotFailed, coordinatorMemory, network, managerVars,
                      ChecksInStep, Claims, Live
  <2> QED BY <1>3, <2>1, ChecksCommands, ChecksStores DEF CoordinatorStep
<1>4. ASSUME NEW n \in Node,
             \/ NodeStep(n) /\ UNCHANGED coordinatorVars
             \/ CheckTimesOut(n) \/ DetectDeath(n) \/ Mishaps(n)
      PROVE  ChecksInStep'
  <2>1. UNCHANGED coordinatorVars
    BY <1>4 DEF CheckTimesOut, DetectDeath, Mishaps, LoseMessage, LoseAnswer
  <2> QED BY <1>4, <2>1, ChecksNode DEF NodeStep, Mishaps
<1>5. CASE UNCHANGED vars
  BY <1>5 DEF vars, coordinatorVars, coordinatorMemory, managerVars, network, ChecksInStep,
              Claims, Live
<1> QED BY <1>1, <1>2, <1>3, <1>4, <1>5 DEF Next

-----------------------------------------------------------------------------

(***************************************************************************)
(* The inductive invariant: what a node has, or will have when its answer  *)
(* comes, is on record, in memory and in every snapshot, unless the node   *)
(* was slow to answer a check or denied what was on its way.               *)
(***************************************************************************)
THEOREM InductiveInvariant == Spec => []IInv
<1>1. Init => IInv
  <2>1. Init => ChecksInStep /\ ClaimsInStep
    BY DEF Init, NetworkInit, CoordinatorInit, ManagerInit, ChecksInStep, ClaimsInStep, Claims,
           Live
  <2> QED BY <2>1, InitTypes, RecordInit, AsksInit DEF IInv
<1>2. IInv /\ [Next]_vars => IInv'
  BY StepTypes, RecordStep, AsksStep, ChecksStep, ClaimsStep DEF IInv
<1> QED BY <1>1, <1>2, PTL DEF Spec

(***************************************************************************)
(* However late messages and answers are, and whatever stops, dies or is   *)
(* lost: what a node that is not disowned owns is on record, so that the   *)
(* coordinator in charge and every later one find the shard taken.         *)
(***************************************************************************)
THEOREM OwnersAreOnRecord == Spec => []OwnershipIsOnRecord
<1>1. IInv => OwnershipIsOnRecord
  <2> SUFFICES ASSUME IInv, NEW n \in Node \ disowned, shardId[n] # NoShard
               PROVE  /\ stored.assigned[n] = shardId[n]
                      /\ running => shardAssignments[n] = shardId[n]
    BY DEF OwnershipIsOnRecord
  <2>1. shardId[n] \in Shard
    BY DEF IInv, TypeOK, ManagerTypeOK, ShardOrNone
  <2>2. Claims(n, shardId[n])
    BY DEF Claims
  <2> QED BY <2>1, <2>2 DEF IInv, ClaimsInStep, OnRecord
<1> QED BY <1>1, InductiveInvariant, PTL

(***************************************************************************)
(* Under the same circumstances, two live nodes that think they have the   *)
(* same shard include one that was slow to answer a check of a new         *)
(* coordinator, or denied a shard that was on its way to it.               *)
(***************************************************************************)
THEOREM OneOwner == Spec => []OnlyTheDisownedShare
<1>1. IInv => OnlyTheDisownedShare
  <2> SUFFICES ASSUME IInv, NEW m \in Node \ disowned, NEW n \in Node \ disowned, m # n,
                      shardId[m] # NoShard
               PROVE  shardId[m] # shardId[n]
    BY DEF OnlyTheDisownedShare
  <2>1. shardId[m] \in Shard
    BY DEF IInv, TypeOK, ManagerTypeOK, ShardOrNone
  <2>2. Claims(m, shardId[m])
    BY DEF Claims
  <2>3. ~Claims(n, shardId[m])
    BY <2>1, <2>2 DEF IInv, ClaimsInStep
  <2> QED BY <2>3 DEF Claims
<1> QED BY <1>1, InductiveInvariant, PTL

=============================================================================
