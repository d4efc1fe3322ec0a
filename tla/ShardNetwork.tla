---------------------------- MODULE ShardNetwork ----------------------------
(***************************************************************************)
(* What travels between the QuerkiNodeCoordinator (one per cluster) and    *)
(* the QuerkiNodeManagers (one per node).  A node stands for its path: a   *)
(* restarted node has the same path, and the coordinator knows paths only. *)
(*                                                                         *)
(* Akka delivers the messages of one sender in order or not at all, and    *)
(* drops those of a dead incarnation once its successor has joined.        *)
(***************************************************************************)
EXTENDS Integers, Sequences

CONSTANTS
  Node,        \* the nodes, by path
  LastShard,   \* bound: the shard ids are 0 .. LastShard
  NoShard      \* no shard id

ASSUME LastShardAssumption == LastShard \in Nat
ASSUME NoShardAssumption == NoShard \notin 0 .. LastShard

Shard == 0 .. LastShard
ShardOrNone == Shard \union {NoShard}

(* AssignShard, where shard is NoShard, or ShardFull(shard); id names the ask. *)
Message == [shard : ShardOrNone, id : Nat]

(* ShardAssignment(shard), the answer to the ask with this id. *)
Answer == [shard : Shard, id : Nat]

VARIABLES
  inbox,       \* node -> its messages on their way to the coordinator
  answers,     \* node -> the ShardAssignments on their way to it
  checks,      \* node -> how far its CheckShardAssignment has come
  watched,     \* the nodes the coordinator watches
  terminated   \* the nodes whose Terminated is on its way to the coordinator

network == <<inbox, answers, checks, watched, terminated>>

NoCheck == [state |-> "none", shard |-> NoShard]

NetworkTypeOK ==
  /\ inbox \in [Node -> Seq(Message)]
  /\ answers \in [Node -> SUBSET Answer]
  /\ checks \in [Node -> [state : {"none", "asked", "confirm", "refute", "failed"},
                          shard : ShardOrNone]]
  /\ watched \subseteq Node
  /\ terminated \subseteq Node

NetworkInit ==
  /\ inbox = [n \in Node |-> <<>>]
  /\ answers = [n \in Node |-> {}]
  /\ checks = [n \in Node |-> NoCheck]
  /\ watched = {}
  /\ terminated = {}
=============================================================================
