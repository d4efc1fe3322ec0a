---------------------------- MODULE ShardCluster ----------------------------
(***************************************************************************)
(* The coordinator and the node managers together, with what can go wrong  *)
(* between them: coordinators that stop, nodes that die, messages that are *)
(* lost, asks that time out early.                                         *)
(***************************************************************************)
EXTENDS QuerkiNodeCoordinator, QuerkiNodeManager, FiniteSets

CONSTANT MaxMishaps   \* bound: how often something goes wrong

ASSUME MaxMishapsAssumption == MaxMishaps \in Nat

VARIABLE mishaps   \* how often something has gone wrong

vars == <<coordinatorVars, managerVars, network, mishaps>>

GoesWrong == mishaps < MaxMishaps /\ mishaps' = mishaps + 1

Init ==
  /\ NetworkInit
  /\ CoordinatorInit
  /\ ManagerInit
  /\ mishaps = 0

-----------------------------------------------------------------------------
(* Nothing is left of n's ask: an answer to it cannot come any more. *)
AskIsGone(n) ==
  /\ \A i \in DOMAIN inbox[n] : inbox[n][i].id # request[n].id
  /\ \A i \in DOMAIN persisting :
       ~(persisting[i].node = n /\ persisting[i].id = request[n].id)
  /\ \A a \in answers[n] : a.id # request[n].id

(* A check fails because its node is down, or slow, or the check was lost. *)
CheckTimesOut(n) ==
  /\ running
  /\ checks[n].state = "asked"
  /\ checks' = [checks EXCEPT ![n].state = "failed"]
  /\ disowned' = IF up[n] THEN disowned \union {n} ELSE disowned
  /\ UNCHANGED <<coordinatorVars, up, shardId, routing, child, request, alarms, inbox, answers,
                 watched, terminated>>

(* The cluster removes a dead node and tells the coordinator that watches it. *)
DetectDeath(n) ==
  /\ ~up[n]
  /\ n \in watched
  /\ watched' = watched \ {n}
  /\ terminated' = terminated \union {n}
  /\ UNCHANGED <<coordinatorVars, managerVars, inbox, answers, checks>>

LoseMessage(n) ==
  /\ \E i \in DOMAIN inbox[n] : inbox' = [inbox EXCEPT ![n] = RemoveAt(@, i)]
  /\ UNCHANGED <<coordinatorVars, managerVars, answers, checks, watched, terminated>>

LoseAnswer(n) ==
  /\ \E a \in answers[n] : answers' = [answers EXCEPT ![n] = @ \ {a}]
  /\ UNCHANGED <<coordinatorVars, managerVars, inbox, checks, watched, terminated>>

-----------------------------------------------------------------------------
NodeStep(n) ==
  \/ Start(n)
  \/ AskIsGone(n) /\ SendAgain(n)
  \/ DropAnswer(n)
  \/ ReceiveAssignment(n)
  \/ HandleShardFull(n)
  \/ AnswerCheck(n)

Mishaps(n) ==
  \/ GoesWrong /\ NodeDies(n) /\ UNCHANGED coordinatorVars
  \/ GoesWrong /\ ~AskIsGone(n) /\ SendAgainHastily(n) /\ UNCHANGED coordinatorVars
  \/ GoesWrong /\ AllocatorAlarms(n) /\ UNCHANGED coordinatorVars
  \/ GoesWrong /\ (LoseMessage(n) \/ LoseAnswer(n))

Next ==
  \/ Recover /\ UNCHANGED <<managerVars, mishaps>>
  \/ CoordinatorStep /\ UNCHANGED <<managerVars, mishaps>>
  \/ GoesWrong /\ CoordinatorStops /\ UNCHANGED managerVars
  \/ \E n \in Node : \/ NodeStep(n) /\ UNCHANGED <<coordinatorVars, mishaps>>
                     \/ CheckTimesOut(n) /\ UNCHANGED mishaps
                     \/ DetectDeath(n) /\ UNCHANGED mishaps
                     \/ Mishaps(n)

(***************************************************************************)
(* Mailboxes are read in order, so no message waits for ever while others  *)
(* are read; the cluster runs one coordinator; asks time out; a node that  *)
(* is down may stay down.                                                  *)
(***************************************************************************)
Fairness ==
  /\ WF_vars(Recover /\ UNCHANGED <<managerVars, mishaps>>)
  /\ WF_vars((UnavailablePersisted \/ UnassignedPersisted \/ AssignedPersisted)
             /\ UNCHANGED <<managerVars, mishaps>>)
  /\ \A n \in Node :
       /\ SF_vars(AssignShard(n) /\ UNCHANGED <<managerVars, mishaps>>)
       /\ SF_vars(ShardFull(n) /\ UNCHANGED <<managerVars, mishaps>>)
       /\ WF_vars(AskIsGone(n) /\ SendAgain(n) /\ UNCHANGED <<coordinatorVars, mishaps>>)
       /\ WF_vars((ReceiveAssignment(n) \/ DropAnswer(n)) /\ UNCHANGED <<coordinatorVars, mishaps>>)

Spec == Init /\ [][Next]_vars /\ Fairness

-----------------------------------------------------------------------------
(* Properties. *)

TypeOK ==
  /\ NetworkTypeOK
  /\ CoordinatorTypeOK
  /\ ManagerTypeOK
  /\ mishaps \in 0 .. MaxMishaps

(* However slow messages are, and whatever is lost, stops or dies: two nodes  *)
(* that think they have the same shard include one that was slow to answer a  *)
(* check of a new coordinator, or denied a shard that was on its way to it.   *)
OnlyTheDisownedShare ==
  \A m, n \in Node \ disowned : m # n /\ shardId[m] # NoShard => shardId[m] # shardId[n]

(* What every other live node owns is on record: any coordinator that recovers *)
(* finds the shard taken by that node, and so does the one in charge now.      *)
OwnershipIsOnRecord ==
  \A n \in Node \ disowned : shardId[n] # NoShard =>
    /\ stored.assigned[n] = shardId[n]
    /\ running => shardAssignments[n] = shardId[n]

(* A recovery never finds less than the coordinator knows: no assignment is *)
(* forgotten (one that was dropped may come back) and no full shard.        *)
RecoveryIsConservative ==
  running /\ persisting = <<>> =>
    /\ stored.full = fullShards
    /\ \A n \in Node : shardAssignments[n] \in {NoShard, stored.assigned[n]}

(* A node that asks for a shard gets one, or dies. *)
Asking(n) == up[n] /\ request[n].waiting /\ request[n].shard = NoShard
AskingIsAnswered == \A n \in Node : Asking(n) ~> (shardId[n] # NoShard \/ ~up[n])

(* "Response is a fresh ShardId": a node that turned in its shard gets another. *)
TurnedIn(n) == up[n] /\ request[n].waiting /\ request[n].shard # NoShard
ShardFullIsAnswered == \A n \in Node : TurnedIn(n) ~> ~TurnedIn(n)
=============================================================================
