---------------------------- MODULE OIDAllocator ----------------------------
(***************************************************************************)
(* One OIDAllocator: the persistent actor that hands out the OIDs of one   *)
(* shard.  It reserves OIDs in blocks: only the reservation of a block     *)
(* (an Alloc event) is journaled, never the single OIDs, so a recovering   *)
(* allocator skips whatever is left of the blocks it reserved before.      *)
(*                                                                         *)
(* The actor works on Scala Ints.  They are modelled with their wrap, at a *)
(* small width: the largest Int is the constant MaxInt.                    *)
(***************************************************************************)
EXTENDS Integers, Sequences

CONSTANTS
  MaxInt,                 \* Int.MaxValue
  AllocBlockSize,         \* querki.cluster.allocBlockSize
  AllocSnapshotInterval,  \* querki.cluster.allocSnapshotInterval
  ShardFullBufferSize,    \* querki.cluster.shardFullBufferSize
  BlockRequests,          \* the sizes clients ask GiveOIDBlock for
  MaxAllocs               \* bound: the number of Alloc events journaled

ASSUME MaxIntAssumption == MaxInt \in Nat \ {0}
ASSUME BlockSizeAssumption == AllocBlockSize \in 1 .. MaxInt
ASSUME IntervalAssumption == AllocSnapshotInterval \in Nat \ {0}
ASSUME BufferAssumption == ShardFullBufferSize \in 0 .. MaxInt
ASSUME RequestsAssumption == BlockRequests \subseteq 1 .. MaxInt
ASSUME MaxAllocsAssumption == MaxAllocs \in Nat

Index == -(MaxInt + 1) .. MaxInt

(* Two Ints added: the sum wraps around past either end of the Ints. *)
Wrap(x) ==
  IF x > MaxInt THEN x - 2 * (MaxInt + 1)
  ELSE IF x < -(MaxInt + 1) THEN x + 2 * (MaxInt + 1)
  ELSE x

ShardFullMark == MaxInt - ShardFullBufferSize

Requests == [kind : {"NextOID", "GiveOIDBlock"}, n : 1 .. MaxInt]

NextOIDRequest == [kind |-> "NextOID", n |-> 1]

(***************************************************************************)
(* An Alloc event carries the size n of the block.  The field `through` is *)
(* no part of the stored event: it is a history value, what replaying the  *)
(* journal up to and including this event makes of availableThrough.       *)
(***************************************************************************)
Alloc == [n : Index, through : Index]

(* An AllocState snapshot, with the sequence number it was taken at. *)
Snapshot == [seqNr : Nat, availableThrough : Index]
NoSnapshot == [seqNr |-> 0, availableThrough |-> 0]

VARIABLES
  \* the actor's memory
  phase,             \* "down", "recovering", "ready", or where persist() stands
  current,
  availableThrough,
  snapshotCount,
  lastSequenceNr,    \* the last event this incarnation replayed or persisted
  request,           \* the request whose persist() is under way
  \* what outlives the actor
  journal,           \* Seq(Alloc)
  snapshot,          \* the newest snapshot in the snapshot store
  saving,            \* the snapshots on their way to the snapshot store
  \* history: what clients and parent were sent
  given,             \* how many NewOID(s) answers hold each index
  uses,              \* how many of those answers had been asked for the index
  alarms             \* ShardFull was sent to the parent

memory == <<phase, current, availableThrough, snapshotCount, lastSequenceNr, request>>
store == <<journal, snapshot, saving>>
sent == <<given, uses, alarms>>
vars == <<memory, store, sent>>

TypeOK ==
  /\ phase \in {"down", "recovering", "ready", "persisting", "persisted"}
  /\ current \in Index
  /\ availableThrough \in Index
  /\ snapshotCount \in 0 .. AllocSnapshotInterval - 1
  /\ lastSequenceNr \in Nat
  /\ request \in Requests
  /\ journal \in Seq(Alloc)
  /\ snapshot \in Snapshot
  /\ saving \subseteq Snapshot
  /\ given \in [Index -> Nat]
  /\ uses \in [Index -> Nat]
  /\ alarms \in BOOLEAN

-----------------------------------------------------------------------------
(* Helpers. *)

(***************************************************************************)
(* updateAvailable.  Int.MaxValue is the largest Int, so the min in the    *)
(* code cannot see a sum that has already wrapped.                         *)
(***************************************************************************)
MinInt(a, b) == IF a =< b THEN a ELSE b
UpdateAvailable(available, blockSize) == MinInt(Wrap(available + blockSize), MaxInt)

(* What replaying the first k events of the journal yields. *)
ThroughAt(k) == IF k = 0 THEN 0 ELSE journal[k].through

(* What the whole journal reserves: the availableThrough a recovery ends with. *)
Reserved == ThroughAt(Len(journal))

(***************************************************************************)
(* countToSnapshot.  saveSnapshot only sends the snapshot on its way; it   *)
(* gets the sequence number of the event being handled.                    *)
(***************************************************************************)
CountToSnapshotOfCurrent(seqNr, available) ==    \* mutant: snapshots `current`
  IF snapshotCount + 1 >= AllocSnapshotInterval
    THEN /\ snapshotCount' = 0
         /\ saving' = saving \union {[seqNr |-> seqNr, availableThrough |-> current']}
    ELSE /\ snapshotCount' = snapshotCount + 1
         /\ UNCHANGED saving

CountToSnapshotNoReset(seqNr, available) ==      \* mutant: the count is never reset
  /\ snapshotCount' = snapshotCount + 1
  /\ saving' = IF snapshotCount + 1 >= AllocSnapshotInterval
               THEN saving \union {[seqNr |-> seqNr, availableThrough |-> available]}
               ELSE saving

CountToSnapshot(seqNr, available) ==
  IF snapshotCount + 1 >= AllocSnapshotInterval
    THEN /\ snapshotCount' = 0
         /\ saving' = saving \union {[seqNr |-> seqNr, availableThrough |-> available]}
    ELSE /\ snapshotCount' = snapshotCount + 1
         /\ UNCHANGED saving

-----------------------------------------------------------------------------
Init ==
  /\ phase = "down"
  /\ current = 0
  /\ availableThrough = 0
  /\ snapshotCount = 0
  /\ lastSequenceNr = 0
  /\ request = NextOIDRequest
  /\ journal = <<>>
  /\ snapshot = NoSnapshot
  /\ saving = {}
  /\ given = [i \in Index |-> 0]
  /\ uses = [i \in Index |-> 0]
  /\ alarms = FALSE

-----------------------------------------------------------------------------
(* Recovery: receiveRecover. *)

(***************************************************************************)
(* The actor starts: recovery offers the newest stored snapshot, if there  *)
(* is one, and replays the events that follow it.  With no snapshot it     *)
(* starts from zero, which is what NoSnapshot says.                        *)
(***************************************************************************)
Recover ==
  /\ phase = "down"
  /\ phase' = "recovering"
  /\ availableThrough' = snapshot.availableThrough
  /\ current' = snapshot.availableThrough
  /\ lastSequenceNr' = snapshot.seqNr
  /\ UNCHANGED <<snapshotCount, request, store, sent>>

(* One journaled Alloc is replayed: its whole block counts as given out. *)
ReplayAlloc ==
  /\ phase = "recovering"
  /\ lastSequenceNr < Len(journal)
  /\ lastSequenceNr' = lastSequenceNr + 1
  /\ availableThrough' = UpdateAvailable(availableThrough, journal[lastSequenceNr + 1].n)
  /\ current' = availableThrough'
  /\ CountToSnapshot(lastSequenceNr + 1, availableThrough')
  /\ UNCHANGED <<phase, request, journal, snapshot, sent>>

RecoveryDone ==
  /\ phase = "recovering"
  /\ lastSequenceNr = Len(journal)
  /\ phase' = "ready"
  /\ UNCHANGED <<current, availableThrough, snapshotCount, lastSequenceNr, request,
                 store, sent>>

(***************************************************************************)
(* The actor's memory is lost: the process dies, or an exception makes the *)
(* supervisor start it afresh.  What is on its way to the stores may still *)
(* arrive.                                                                 *)
(***************************************************************************)
LoseMemory ==
  /\ phase' = "down"
  /\ current' = 0
  /\ availableThrough' = 0
  /\ snapshotCount' = 0
  /\ lastSequenceNr' = 0
  /\ request' = NextOIDRequest

Crash ==
  /\ phase # "down"
  /\ LoseMemory
  /\ UNCHANGED <<store, sent>>

-----------------------------------------------------------------------------
(* Handing out OIDs: receiveCommand. *)

(* giveOID: one NewOID. *)
GiveOID ==
  /\ given' = [given EXCEPT ![current] = @ + 1]
  /\ uses' = [uses EXCEPT ![current] = @ + 1]
  /\ current' = current + 1
  /\ alarms' = (alarms \/ current' = ShardFullMark)

(***************************************************************************)
(* giveOIDs: one NewOIDs.  `0 to nAlloc` is inclusive, so the answer holds *)
(* one index more than the n that were asked for; the callers (Remapper,   *)
(* AppRemapper, AppsSpacePlugin) zip it with the n things they have and    *)
(* drop the last one.                                                      *)
(***************************************************************************)
GiveOIDsShort(n) ==                    \* mutant: current advances one too few
  /\ given' = [i \in Index |-> IF i \in current .. current + n THEN given[i] + 1 ELSE given[i]]
  /\ uses' = [i \in Index |-> IF i \in current .. current + n - 1 THEN uses[i] + 1 ELSE uses[i]]
  /\ current' = current + n - 1
  /\ alarms' = (alarms \/ (current < ShardFullMark /\ current' >= ShardFullMark))

GiveOIDs(n) ==
  /\ given' = [i \in Index |-> IF i \in current .. current + n THEN given[i] + 1 ELSE given[i]]
  /\ uses' = [i \in Index |-> IF i \in current .. current + n - 1 THEN uses[i] + 1 ELSE uses[i]]
  /\ current' = current + n
  /\ alarms' = (alarms \/ (current < ShardFullMark /\ current' >= ShardFullMark))

(* The emergency exit: alarm the parent, then throw. *)
FallOver ==
  /\ alarms' = TRUE
  /\ LoseMemory
  /\ UNCHANGED <<store, given, uses>>

(* persist(Alloc(..)) is called: no other command runs until its handler has. *)
BeginPersist(r) ==
  /\ Len(journal) < MaxAllocs
  /\ request' = r
  /\ phase' = "persisting"
  /\ UNCHANGED <<current, availableThrough, snapshotCount, lastSequenceNr, store, sent>>

NextOIDTooFar == current = MaxInt

NextOID ==
  /\ phase = "ready"
  /\ \/ NextOIDTooFar /\ FallOver
     \/ /\ ~NextOIDTooFar
        /\ current >= availableThrough
        /\ BeginPersist(NextOIDRequest)
     \/ /\ ~NextOIDTooFar
        /\ current < availableThrough
        /\ GiveOID
        /\ UNCHANGED <<phase, availableThrough, snapshotCount, lastSequenceNr, request,
                       store>>

BlockTooFarOffByOne(n) == current + n > MaxInt               \* mutant
BlockTooFar(n) == current + n >= MaxInt

BlockFitsLoosely(n) == current + n =< availableThrough + 1   \* mutant
BlockFits(n) == current + n < availableThrough

GiveOIDBlock(n) ==
  /\ phase = "ready"
  /\ \/ BlockTooFar(n) /\ FallOver
     \/ /\ ~BlockTooFar(n)
        /\ ~BlockFits(n)
        /\ BeginPersist([kind |-> "GiveOIDBlock", n |-> n])
     \/ /\ ~BlockTooFar(n)
        /\ BlockFits(n)
        /\ GiveOIDs(n)
        /\ UNCHANGED <<phase, availableThrough, snapshotCount, lastSequenceNr, request,
                       store>>

(* The size of the block that is persisted for a request. *)
AllocSize(r) ==
  IF r.kind = "NextOID" THEN AllocBlockSize ELSE Wrap(r.n + AllocBlockSize)

(* The journal stores the Alloc event; the handler has yet to run. *)
JournalAlloc ==
  /\ phase = "persisting"
  /\ LET size == AllocSize(request)
     IN journal' = Append(journal,
          [n |-> size, through |-> UpdateAvailable(Reserved, size)])
  /\ lastSequenceNr' = lastSequenceNr + 1
  /\ phase' = "persisted"
  /\ UNCHANGED <<current, availableThrough, snapshotCount, request, snapshot, saving, sent>>

(* The persist handler: take the block, answer, count towards a snapshot. *)
AllocPersisted ==
  /\ phase = "persisted"
  /\ availableThrough' = UpdateAvailable(availableThrough, AllocSize(request))
  /\ IF request.kind = "NextOID" THEN GiveOID ELSE GiveOIDs(request.n)
  /\ CountToSnapshot(lastSequenceNr, availableThrough')
  /\ phase' = "ready"
  /\ UNCHANGED <<lastSequenceNr, request, journal, snapshot>>

-----------------------------------------------------------------------------
(* The snapshot store stores a snapshot, or fails or loses it. *)
SnapshotSaved(s) ==
  /\ snapshot' = IF s.seqNr > snapshot.seqNr THEN s ELSE snapshot
  /\ saving' = saving \ {s}
  /\ UNCHANGED <<memory, journal, sent>>

SnapshotFailed(s) ==
  /\ saving' = saving \ {s}
  /\ UNCHANGED <<memory, journal, snapshot, sent>>

Next ==
  \/ Recover
  \/ ReplayAlloc
  \/ RecoveryDone
  \/ Crash
  \/ NextOID
  \/ \E n \in BlockRequests : GiveOIDBlock(n)
  \/ JournalAlloc
  \/ AllocPersisted
  \/ \E s \in saving : SnapshotSaved(s) \/ SnapshotFailed(s)

Spec == Init /\ [][Next]_vars

-----------------------------------------------------------------------------
(* Properties. *)

(***************************************************************************)
(* No reservation ever wrapped around: neither the size of a journaled     *)
(* block nor any availableThrough it led to is negative.                   *)
(***************************************************************************)
NoWrap == \A k \in DOMAIN journal : journal[k].n >= 0 /\ journal[k].through >= 0

(***************************************************************************)
(* Every index in an answer was reserved in the journal before the answer  *)
(* was sent, so no crash at any point makes a later incarnation hand it    *)
(* out again.  (The blocks of OIDAllocator.scala:19-25.)                   *)
(***************************************************************************)
ReservedBeforeGiven ==
  NoWrap => \A i \in Index : given[i] > 0 => i < Reserved

(***************************************************************************)
(* A stored snapshot, and one still on its way, says what replaying the    *)
(* journal up to its sequence number says: whichever of them recovery      *)
(* starts from, it ends in the same state.                                 *)
(***************************************************************************)
SnapshotsMatchJournal ==
  \A s \in {snapshot} \union saving :
    s.seqNr =< Len(journal) /\ s.availableThrough = ThroughAt(s.seqNr)

(***************************************************************************)
(* The emergency exits come in time: the last Int is never handed out, and *)
(* no answer holds an index past it, even after availableThrough wrapped.  *)
(***************************************************************************)
LastIntNeverGiven == given[MaxInt] = 0

(***************************************************************************)
(* Whatever is interleaved (crashes, recoveries, late snapshots), an OID a *)
(* client makes use of is new: every step is one of OIDService or leaves   *)
(* the uses alone, as long as no reservation has wrapped.                  *)
(***************************************************************************)
Service == INSTANCE OIDService WITH Index <- Index, uses <- uses

OnlyFreshOIDsUsed == [][NoWrap' => Service!Next \/ UNCHANGED uses]_vars

=============================================================================
