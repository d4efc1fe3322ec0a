------------------------ MODULE QuerkiNodeCoordinator ------------------------
(***************************************************************************)
(* The cluster singleton that decides which node owns which shard of the   *)
(* OID namespace.  It is a persistent actor: its state is rebuilt from a   *)
(* snapshot and the events journaled since.  Replay is deterministic, so   *)
(* the journal is represented by what a recovery would make of it.         *)
(***************************************************************************)
EXTENDS ShardNetwork

CONSTANT SnapshotInterval   \* querki.cluster.snapshotInterval
ASSUME SnapshotIntervalAssumption == SnapshotInterval \in Nat \ {0}

VARIABLES
  \* memory
  running,
  fullShards,
  shardAssignments,        \* node -> its shard, or NoShard
  assignmentsBeingChecked,
  snapshotCounter,
  persisting,              \* the events whose persist() is under way, in order
  \* what outlives the actor
  stored,                  \* what a recovery would rebuild
  saving                   \* the same, were a snapshot under way to be stored

coordinatorMemory == <<running, fullShards, shardAssignments, assignmentsBeingChecked,
                       snapshotCounter, persisting>>
coordinatorVars == <<coordinatorMemory, stored, saving>>

Image == [full : SUBSET Shard, assigned : [Node -> ShardOrNone]]

Event == [type : {"ShardUnavailable", "ShardUnassigned", "ShardAssigned"},
          node : Node, shard : Shard,
          reassign : BOOLEAN, id : Nat]   \* what its handler will go on with

CoordinatorTypeOK ==
  /\ running \in BOOLEAN
  /\ fullShards \subseteq Shard
  /\ shardAssignments \in [Node -> ShardOrNone]
  /\ assignmentsBeingChecked \subseteq Node
  /\ snapshotCounter \in 0 .. SnapshotInterval - 1
  /\ persisting \in Seq(Event)
  /\ stored \in Image
  /\ saving \in Seq(Image)

(* Shards 0 to 3 are set aside. *)
SetAside == {0, 1, 2, 3}
ASSUME SetAsideAssumption == SetAside \subseteq Shard

NothingAssigned == [n \in Node |-> NoShard]

CoordinatorInit ==
  /\ running = FALSE
  /\ fullShards = SetAside
  /\ shardAssignments = NothingAssigned
  /\ assignmentsBeingChecked = {}
  /\ snapshotCounter = 0
  /\ persisting = <<>>
  /\ stored = [full |-> SetAside, assigned |-> NothingAssigned]
  /\ saving = <<>>

-----------------------------------------------------------------------------
(* receiveRecover: what replaying an event does to the state so far. *)
Replay(event, image) ==
  CASE event.type = "ShardUnavailable" -> [image EXCEPT !.full = @ \union {event.shard}]
    [] event.type = "ShardUnassigned"  -> [image EXCEPT !.assigned[event.node] = NoShard]
    [] event.type = "ShardAssigned"    -> [image EXCEPT !.assigned[event.node] = event.shard]

ReplayAll(event) == [i \in DOMAIN saving |-> Replay(event, saving[i])]

(* Commands wait (in the internal stash) while a persist() is under way. *)
Ready == running /\ persisting = <<>>

Free(assigned, s) == s \notin fullShards /\ \A m \in Node : assigned[m] # s

MakeAssignmentSnappingLate(n, id, images) ==      \* mutant: > for >=
  LET others == [shardAssignments EXCEPT ![n] = NoShard]
  IN \E s \in Shard :
       /\ Free(others, s)
       /\ \A t \in 0 .. s - 1 : ~Free(others, t)
       /\ shardAssignments' = [others EXCEPT ![n] = s]
       /\ persisting' = <<[type |-> "ShardAssigned", node |-> n, shard |-> s,
                           reassign |-> FALSE, id |-> id]>>
       /\ IF snapshotCounter + 1 > SnapshotInterval
            THEN /\ snapshotCounter' = 0
                 /\ saving' = Append(images,
                      [full |-> fullShards, assigned |-> shardAssignments'])
            ELSE /\ snapshotCounter' = snapshotCounter + 1
                 /\ saving' = images

(***************************************************************************)
(* makeAssignment: whatever n had is stale, as n is asking; it gets the    *)
(* lowest free shard, in memory at once, and hears of it when the event is *)
(* persisted.  A snapshot taken now already holds that event.  `images`    *)
(* are the snapshots under way.                                            *)
(***************************************************************************)
MakeAssignment(n, id, images) ==
  LET others == [shardAssignments EXCEPT ![n] = NoShard]
  IN \E s \in Shard :
       /\ Free(others, s)
       /\ \A t \in 0 .. s - 1 : ~Free(others, t)
       /\ shardAssignments' = [others EXCEPT ![n] = s]
       /\ persisting' = <<[type |-> "ShardAssigned", node |-> n, shard |-> s,
                           reassign |-> FALSE, id |-> id]>>
       /\ IF snapshotCounter + 1 >= SnapshotInterval
            THEN /\ snapshotCounter' = 0
                 /\ saving' = Append(images,
                      [full |-> fullShards, assigned |-> shardAssignments'])
            ELSE /\ snapshotCounter' = snapshotCounter + 1
                 /\ saving' = images

(* unassign: the event it persists; with no entry for n there is none. *)
Unassign(n, reassign, id) ==
  IF shardAssignments[n] = NoShard THEN <<>>
  ELSE <<[type |-> "ShardUnassigned", node |-> n, shard |-> shardAssignments[n],
          reassign |-> reassign, id |-> id]>>

-----------------------------------------------------------------------------
(* Recovery. *)

(***************************************************************************)
(* RecoveryCompleted: every node that has a shard is asked about it.  How  *)
(* many assignments were replayed since the snapshot is left open.  A      *)
(* snapshot not stored by now is taken to have failed.                     *)
(***************************************************************************)
Recover ==
  /\ ~running
  /\ running' = TRUE
  /\ fullShards' = stored.full
  /\ shardAssignments' = stored.assigned
  /\ assignmentsBeingChecked' = {n \in Node : stored.assigned[n] # NoShard}
  /\ \E count \in 0 .. SnapshotInterval - 1 : snapshotCounter' = count
  /\ checks' = [n \in Node |->
       IF stored.assigned[n] = NoShard THEN NoCheck
       ELSE [state |-> "asked", shard |-> stored.assigned[n]]]
  /\ saving' = <<>>
  /\ UNCHANGED <<persisting, stored, inbox, answers, watched, terminated>>

(***************************************************************************)
(* The check timed out.  There is no ref to unassign, so the change goes   *)
(* into a snapshot.                                                        *)
(***************************************************************************)
CheckFailed(n) ==
  /\ Ready
  /\ checks[n].state = "failed"
  /\ checks' = [checks EXCEPT ![n] = NoCheck]
  /\ IF n \in assignmentsBeingChecked
       THEN /\ shardAssignments' = [shardAssignments EXCEPT ![n] = NoShard]
            /\ snapshotCounter' = 0
            /\ saving' = Append(saving,
                 [full |-> fullShards, assigned |-> shardAssignments'])
       ELSE UNCHANGED <<shardAssignments, snapshotCounter, saving>>
  /\ UNCHANGED <<running, fullShards, assignmentsBeingChecked, persisting, stored, inbox,
                 answers, watched, terminated>>

CheckConfirmed(n) ==
  /\ Ready
  /\ checks[n].state = "confirm"
  /\ checks' = [checks EXCEPT ![n] = NoCheck]
  /\ watched' = IF n \in assignmentsBeingChecked THEN watched \union {n} ELSE watched
  /\ UNCHANGED <<coordinatorVars, inbox, answers, terminated>>

CheckRefutedUnconditionally(n) ==      \* mutant: heeds the answer of a node that asked anew
  /\ Ready
  /\ checks[n].state = "refute"
  /\ checks' = [checks EXCEPT ![n] = NoCheck]
  /\ persisting' = Unassign(n, FALSE, 0)
  /\ assignmentsBeingChecked' = assignmentsBeingChecked \ {n}
  /\ UNCHANGED <<running, fullShards, shardAssignments, snapshotCounter, stored, saving,
                 inbox, answers, watched, terminated>>

CheckRefuted(n) ==
  /\ Ready
  /\ checks[n].state = "refute"
  /\ checks' = [checks EXCEPT ![n] = NoCheck]
  /\ persisting' = IF n \in assignmentsBeingChecked THEN Unassign(n, FALSE, 0) ELSE <<>>
  /\ assignmentsBeingChecked' = assignmentsBeingChecked \ {n}
  /\ UNCHANGED <<running, fullShards, shardAssignments, snapshotCounter, stored, saving,
                 inbox, answers, watched, terminated>>

-----------------------------------------------------------------------------
(* Commands. *)

(* n's oldest message is taken out of its inbox. *)
Take(n) == inbox[n] # <<>> /\ inbox' = [inbox EXCEPT ![n] = Tail(@)]

AssignShardStillChecking(n) ==      \* mutant: the check of n's shard goes on
  /\ Ready
  /\ Take(n)
  /\ Head(inbox[n]).shard = NoShard
  /\ watched' = watched \union {n}
  /\ MakeAssignment(n, Head(inbox[n]).id, saving)
  /\ UNCHANGED <<running, fullShards, assignmentsBeingChecked, stored, answers, checks,
                 terminated>>

AssignShard(n) ==
  /\ Ready
  /\ Take(n)
  /\ Head(inbox[n]).shard = NoShard
  /\ watched' = watched \union {n}
  /\ assignmentsBeingChecked' = assignmentsBeingChecked \ {n}
  /\ MakeAssignment(n, Head(inbox[n]).id, saving)
  /\ UNCHANGED <<running, fullShards, stored, answers, checks, terminated>>

ShardFullUnpersisted(n) ==      \* mutant: the full shard is remembered only
  /\ Ready
  /\ Take(n)
  /\ Head(inbox[n]).shard # NoShard
  /\ fullShards' = fullShards \union {Head(inbox[n]).shard}
  /\ persisting' = Unassign(n, TRUE, Head(inbox[n]).id)
  /\ assignmentsBeingChecked' = assignmentsBeingChecked \ {n}
  /\ UNCHANGED <<running, shardAssignments, snapshotCounter, stored, saving, answers, checks,
                 watched, terminated>>

ShardFull(n) ==
  /\ Ready
  /\ Take(n)
  /\ Head(inbox[n]).shard # NoShard
  /\ persisting' =
       <<[type |-> "ShardUnavailable", node |-> n, shard |-> Head(inbox[n]).shard,
          reassign |-> FALSE, id |-> 0]>>
       \o Unassign(n, TRUE, Head(inbox[n]).id)
  /\ assignmentsBeingChecked' = assignmentsBeingChecked \ {n}
  /\ UNCHANGED <<running, fullShards, shardAssignments, snapshotCounter, stored, saving,
                 answers, checks, watched, terminated>>

Terminated(n) ==
  /\ Ready
  /\ n \in terminated
  /\ terminated' = terminated \ {n}
  /\ persisting' = Unassign(n, FALSE, 0)
  /\ assignmentsBeingChecked' = assignmentsBeingChecked \ {n}
  /\ UNCHANGED <<running, fullShards, shardAssignments, snapshotCounter, stored, saving,
                 inbox, answers, checks, watched>>

-----------------------------------------------------------------------------
(* The journal stores the oldest event under way, and its handler runs. *)

PersistHead(type) ==
  /\ running
  /\ persisting # <<>>
  /\ Head(persisting).type = type
  /\ stored' = Replay(Head(persisting), stored)
  /\ UNCHANGED <<running, assignmentsBeingChecked, inbox, checks, watched, terminated>>

UnavailablePersisted ==
  /\ PersistHead("ShardUnavailable")
  /\ fullShards' = fullShards \union {Head(persisting).shard}
  /\ persisting' = Tail(persisting)
  /\ saving' = ReplayAll(Head(persisting))
  /\ UNCHANGED <<shardAssignments, snapshotCounter, answers>>

UnassignedPersisted ==
  /\ PersistHead("ShardUnassigned")
  /\ IF Head(persisting).reassign
       THEN MakeAssignment(Head(persisting).node, Head(persisting).id,
                           ReplayAll(Head(persisting)))
       ELSE /\ shardAssignments' = [shardAssignments EXCEPT ![Head(persisting).node] = NoShard]
            /\ persisting' = Tail(persisting)
            /\ saving' = ReplayAll(Head(persisting))
            /\ UNCHANGED snapshotCounter
  /\ UNCHANGED <<fullShards, answers>>

AssignedPersisted ==
  /\ PersistHead("ShardAssigned")
  /\ answers' = [answers EXCEPT ![Head(persisting).node] =
       @ \union {[shard |-> Head(persisting).shard, id |-> Head(persisting).id]}]
  /\ persisting' = Tail(persisting)
  /\ saving' = ReplayAll(Head(persisting))
  /\ UNCHANGED <<fullShards, shardAssignments, snapshotCounter>>

-----------------------------------------------------------------------------
(* The snapshot store stores a snapshot (the older ones then matter no more) *)
(* or fails; SaveSnapshotFailure is only logged.                             *)
SnapshotSaved(i) ==
  /\ stored' = saving[i]
  /\ saving' = SubSeq(saving, i + 1, Len(saving))
  /\ UNCHANGED <<coordinatorMemory, network>>

SnapshotFailed(i) ==
  /\ saving' = SubSeq(saving, 1, i - 1) \o SubSeq(saving, i + 1, Len(saving))
  /\ UNCHANGED <<coordinatorMemory, stored, network>>

(***************************************************************************)
(* The actor is stopped for a handoff (Stop), or dies with its node.  The  *)
(* journal may have stored an event whose handler then never runs.         *)
(***************************************************************************)
CoordinatorStops ==
  /\ running
  /\ \/ UNCHANGED <<stored, saving>>
     \/ /\ persisting # <<>>
        /\ stored' = Replay(Head(persisting), stored)
        /\ saving' = ReplayAll(Head(persisting))
  /\ running' = FALSE
  /\ fullShards' = SetAside
  /\ shardAssignments' = NothingAssigned
  /\ assignmentsBeingChecked' = {}
  /\ snapshotCounter' = 0
  /\ persisting' = <<>>
  /\ checks' = [n \in Node |-> NoCheck]
  /\ watched' = {}
  /\ terminated' = {}
  /\ UNCHANGED <<inbox, answers>>

(* All but Recover and CoordinatorStops, whose occasion is not the actor's to choose. *)
CoordinatorStep ==
  \/ \E n \in Node : \/ CheckFailed(n)
                     \/ CheckConfirmed(n)
                     \/ CheckRefuted(n)
                     \/ AssignShard(n)
                     \/ ShardFull(n)
                     \/ Terminated(n)
  \/ UnavailablePersisted
  \/ UnassignedPersisted
  \/ AssignedPersisted
  \/ \E i \in DOMAIN saving : SnapshotSaved(i) \/ SnapshotFailed(i)
=============================================================================
