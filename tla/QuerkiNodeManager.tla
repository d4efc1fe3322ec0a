-------------------------- MODULE QuerkiNodeManager --------------------------
(***************************************************************************)
(* The actor of each node that obtains a shard from the coordinator, runs  *)
(* an OIDAllocator for it as its child, routes the requests for OIDs to    *)
(* the child, and turns in the shard when the child says that it is full.  *)
(***************************************************************************)
EXTENDS ShardNetwork, SequencesExt

VARIABLES
  up,        \* node -> is it alive?
  shardId,   \* _shardId
  routing,   \* _allocator is defined: requests are forwarded, not stashed
  child,     \* the shard of the OIDAllocator that is the manager's child
  request,   \* the request to the coordinator that waits for its answer
  alarms,    \* the ShardFull messages of its children in the manager's mailbox
  disowned   \* history: the nodes whose shard the coordinator may have given up
             \* although they have it, or are about to, since they asked last

managerVars == <<up, shardId, routing, child, request, alarms, disowned>>

(* shard as in Message: NoShard for AssignShard. *)
Request == [waiting : BOOLEAN, shard : ShardOrNone, id : Nat]

ManagerTypeOK ==
  /\ up \in [Node -> BOOLEAN]
  /\ shardId \in [Node -> ShardOrNone]
  /\ routing \in [Node -> BOOLEAN]
  /\ child \in [Node -> ShardOrNone]
  /\ request \in [Node -> Request]
  /\ alarms \in [Node -> SUBSET Shard]
  /\ disowned \subseteq Node

ManagerInit ==
  /\ up = [n \in Node |-> FALSE]
  /\ shardId = [n \in Node |-> NoShard]
  /\ routing = [n \in Node |-> FALSE]
  /\ child = [n \in Node |-> NoShard]
  /\ request = [n \in Node |-> [waiting |-> FALSE, shard |-> NoShard, id |-> 0]]
  /\ alarms = [n \in Node |-> {}]
  /\ disowned = {}

(* The answers to the ask that n waits for. *)
Live(n) == {a \in answers[n] : up[n] /\ request[n].waiting /\ a.id = request[n].id}

-----------------------------------------------------------------------------
(* requestShardId(msg): a new ask, sent after what the node sent before. *)
RequestShardId(n, shard, sent) ==
  LET id == request[n].id + 1 IN
  /\ request' = [request EXCEPT ![n] = [waiting |-> TRUE, shard |-> shard, id |-> id]]
  /\ inbox' = [inbox EXCEPT ![n] = Append(sent, [shard |-> shard, id |-> id])]
  /\ disowned' = disowned \ {n}

(***************************************************************************)
(* The node (its process) starts, and preStart asks for a shard.  The      *)
(* cluster admits it after its previous incarnation was removed, which     *)
(* its watcher has been told; what that incarnation sent is dropped.       *)
(***************************************************************************)
Start(n) ==
  /\ ~up[n]
  /\ n \notin watched \union terminated
  /\ up' = [up EXCEPT ![n] = TRUE]
  /\ RequestShardId(n, NoShard, <<>>)
  /\ answers' = [answers EXCEPT ![n] = {}]
  /\ checks' = [checks EXCEPT ![n].state = IF @ \in {"confirm", "refute"} THEN "failed" ELSE @]
  /\ UNCHANGED <<shardId, routing, child, alarms, watched, terminated>>

(* An exception: the actor restarts.  Its children are stopped first. *)
Restart(n) ==
  /\ shardId' = [shardId EXCEPT ![n] = NoShard]
  /\ routing' = [routing EXCEPT ![n] = FALSE]
  /\ child' = [child EXCEPT ![n] = NoShard]
  /\ RequestShardId(n, NoShard, inbox[n])

SendAgainNever(n) ==      \* mutant: gives up
  /\ up[n]
  /\ request[n].waiting
  /\ request' = [request EXCEPT ![n].waiting = FALSE]
  /\ UNCHANGED <<up, shardId, routing, child, alarms, disowned, network>>

(***************************************************************************)
(* The ask timed out: the same message is sent again.  When nothing is     *)
(* left of the ask, nothing can be mistaken for its answer, and its id     *)
(* serves again.                                                           *)
(***************************************************************************)
SendAgain(n) ==
  /\ up[n]
  /\ request[n].waiting
  /\ inbox' = [inbox EXCEPT ![n] =
       Append(@, [shard |-> request[n].shard, id |-> request[n].id])]
  /\ disowned' = disowned \ {n}
  /\ UNCHANGED <<up, shardId, routing, child, request, alarms, answers, checks, watched,
                 terminated>>

SendAgainHastily(n) ==
  /\ up[n]
  /\ request[n].waiting
  /\ RequestShardId(n, request[n].shard, inbox[n])
  /\ UNCHANGED <<up, shardId, routing, child, alarms, answers, checks, watched, terminated>>

(* An answer that is not to the request outstanding has no one to go to. *)
DropAnswer(n) ==
  /\ \E a \in answers[n] :
       /\ ~(up[n] /\ request[n].waiting /\ a.id = request[n].id)
       /\ answers' = [answers EXCEPT ![n] = @ \ {a}]
  /\ UNCHANGED <<managerVars, inbox, checks, watched, terminated>>

(***************************************************************************)
(* Success(ShardAssignment(id)).  The child is created under a fixed name; *)
(* while the child before it lives (nothing stops it: it has no handler    *)
(* for the Shutdown it is sent), actorOf throws, after _shardId was set.   *)
(* Whether the requester library passes that exception on, so that the     *)
(* manager restarts, or logs it is not in src/: either may happen.         *)
(***************************************************************************)
ReceiveAssignment(n) ==
  \E a \in answers[n] :
    /\ up[n] /\ request[n].waiting /\ a.id = request[n].id
    /\ answers' = [answers EXCEPT ![n] = @ \ {a}]
    /\ \/ /\ child[n] = NoShard
          /\ shardId' = [shardId EXCEPT ![n] = a.shard]
          /\ routing' = [routing EXCEPT ![n] = TRUE]
          /\ child' = [child EXCEPT ![n] = a.shard]
          /\ request' = [request EXCEPT ![n].waiting = FALSE]
          /\ UNCHANGED <<inbox, disowned>>
       \/ /\ child[n] # NoShard
          /\ shardId' = [shardId EXCEPT ![n] = a.shard]
          /\ request' = [request EXCEPT ![n].waiting = FALSE]
          /\ UNCHANGED <<inbox, routing, child, disowned>>
       \/ child[n] # NoShard /\ Restart(n)
    /\ UNCHANGED <<up, alarms, checks, watched, terminated>>

-----------------------------------------------------------------------------
(* The allocator reports that it is full. *)
AllocatorAlarms(n) ==
  /\ up[n]
  /\ child[n] # NoShard
  /\ alarms' = [alarms EXCEPT ![n] = @ \union {child[n]}]
  /\ UNCHANGED <<up, shardId, routing, child, request, disowned, network>>

(* ShardFull: shardId throws when there is none. *)
HandleShardFull(n) ==
  \E s \in alarms[n] :
    /\ up[n]
    /\ alarms' = [alarms EXCEPT ![n] = @ \ {s}]
    /\ \/ /\ shardId[n] = NoShard
          /\ Restart(n)
       \/ /\ shardId[n] \notin {NoShard, s}
          /\ UNCHANGED <<shardId, routing, child, request, disowned, inbox>>
       \/ /\ shardId[n] = s
          /\ IF routing[n]
               THEN /\ shardId' = [shardId EXCEPT ![n] = NoShard]
                    /\ routing' = [routing EXCEPT ![n] = FALSE]
                    /\ RequestShardId(n, s, inbox[n])
                    /\ UNCHANGED child
               ELSE Restart(n)          \* allocator throws
    /\ UNCHANGED <<up, answers, checks, watched, terminated>>

(* CheckShardAssignment.  The node denies a shard that it does not have, also *)
(* when the answer that will give it that shard is on its way.                *)
AnswerCheck(n) ==
  /\ up[n]
  /\ checks[n].state = "asked"
  /\ checks' = [checks EXCEPT ![n].state =
       IF shardId[n] = checks[n].shard THEN "confirm" ELSE "refute"]
  /\ disowned' = IF Live(n) # {} THEN disowned \union {n} ELSE disowned
  /\ UNCHANGED <<up, shardId, routing, child, request, alarms, inbox, answers, watched,
                 terminated>>

(* The node dies: by itself, or at the hands of the split-brain resolver.  The *)
(* last of what it sent may not have left it.                                  *)
NodeDies(n) ==
  /\ up[n]
  /\ up' = [up EXCEPT ![n] = FALSE]
  /\ shardId' = [shardId EXCEPT ![n] = NoShard]
  /\ routing' = [routing EXCEPT ![n] = FALSE]
  /\ child' = [child EXCEPT ![n] = NoShard]
  /\ request' = [request EXCEPT ![n].waiting = FALSE]
  /\ alarms' = [alarms EXCEPT ![n] = {}]
  /\ disowned' = disowned \ {n}
  /\ answers' = [answers EXCEPT ![n] = {}]
  /\ \E k \in 0 .. Len(inbox[n]) : inbox' = [inbox EXCEPT ![n] = SubSeq(@, 1, k)]
  /\ UNCHANGED <<checks, watched, terminated>>
=============================================================================
