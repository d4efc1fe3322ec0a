------------------------ MODULE OIDAllocator_proofs -------------------------
(***************************************************************************)
(* Theorems about one OIDAllocator, for every Int width, block size,       *)
(* snapshot interval and request size.                                     *)
(***************************************************************************)
EXTENDS OIDAllocator, TLAPS

-----------------------------------------------------------------------------
(* Arithmetic of updateAvailable and of the block sizes. *)

(* Adding two Ints yields an Int. *)
LEMMA UpdateIsInt ==
  ASSUME NEW a \in Index, NEW b \in Index
  PROVE  UpdateAvailable(a, b) \in Index
BY MaxIntAssumption DEF Index, UpdateAvailable, MinInt, Wrap

(* A sum of two non-negative Ints that is not negative has not wrapped. *)
LEMMA UpdateAdds ==
  ASSUME NEW a \in Index, NEW b \in Index, a >= 0, b >= 0, UpdateAvailable(a, b) >= 0
  PROVE  UpdateAvailable(a, b) = a + b
BY MaxIntAssumption DEF Index, UpdateAvailable, MinInt, Wrap

(* The size of a block is an Int, and covers the request unless it wrapped. *)
LEMMA AllocSizeCovers ==
  ASSUME NEW r \in Requests
  PROVE  /\ AllocSize(r) \in Index
         /\ AllocSize(r) >= 0 =>
              AllocSize(r) >= (IF r.kind = "NextOID" THEN 1 ELSE r.n + 1)
<1>1. r.n \in 1 .. MaxInt
  BY DEF Requests
<1> QED
  BY <1>1, MaxIntAssumption, BlockSizeAssumption DEF AllocSize, Index, Wrap

-----------------------------------------------------------------------------
(* The inductive invariant. *)

(* The history field `through` is what updateAvailable computes. *)
ThroughIsReplay ==
  \A k \in 1 .. Len(journal) :
    journal[k].through = UpdateAvailable(ThroughAt(k - 1), journal[k].n)

(* The memory of a running actor agrees with the journal it has seen. *)
MemoryMatchesJournal ==
  /\ lastSequenceNr =< Len(journal)
  /\ phase = "down" => lastSequenceNr = 0 /\ availableThrough = 0 /\ current = 0
  /\ phase = "recovering" =>
       /\ availableThrough = ThroughAt(lastSequenceNr)
       /\ current = availableThrough
  /\ phase \in {"ready", "persisting"} =>
       /\ lastSequenceNr = Len(journal)
       /\ availableThrough = ThroughAt(Len(journal))
  /\ phase = "persisted" =>
       /\ lastSequenceNr = Len(journal)
       /\ Len(journal) > 0
       /\ availableThrough = ThroughAt(Len(journal) - 1)
       /\ journal[Len(journal)].n = AllocSize(request)
  /\ phase \in {"persisting", "persisted"} =>
       IF request.kind = "NextOID" THEN current < MaxInt
                                   ELSE current + request.n < MaxInt

(* What has been handed out lies below what is reserved. *)
GivenIsReserved ==
  NoWrap =>
    /\ \A i \in Index : given[i] > 0 => i < Reserved
    /\ \A i \in Index : uses[i] =< 1 /\ (uses[i] > 0 => given[i] > 0)
    /\ phase \in {"ready", "persisting", "persisted"} =>
         /\ 0 =< current
         /\ current =< availableThrough
         /\ \A i \in Index : uses[i] > 0 => i < current

IInv ==
  /\ TypeOK
  /\ ThroughIsReplay
  /\ SnapshotsMatchJournal
  /\ MemoryMatchesJournal
  /\ GivenIsReserved
  /\ LastIntNeverGiven

-----------------------------------------------------------------------------
(* Facts about the journal: what appending an event does to ThroughAt. *)

(* ThroughAt is an Int at every position of the journal. *)
LEMMA ThroughIsInt ==
  ASSUME TypeOK, NEW k \in 0 .. Len(journal)
  PROVE  ThroughAt(k) \in Index
<1>1. CASE k = 0
  BY <1>1, MaxIntAssumption DEF ThroughAt, Index
<1>2. CASE k # 0
  <2>1. journal[k] \in Alloc
    BY <1>2 DEF TypeOK
  <2> QED
    BY <1>2, <2>1 DEF ThroughAt, Alloc
<1> QED
  BY <1>1, <1>2

(* JournalAlloc adds one event and changes none of those before it. *)
LEMMA JournalGrows ==
  ASSUME TypeOK, JournalAlloc
  PROVE  /\ Len(journal') = Len(journal) + 1
         /\ \A k \in 1 .. Len(journal) : journal'[k] = journal[k]
         /\ \A k \in 0 .. Len(journal) : ThroughAt(k)' = ThroughAt(k)
         /\ journal'[Len(journal) + 1].n = AllocSize(request)
         /\ journal'[Len(journal) + 1].through
              = UpdateAvailable(Reserved, AllocSize(request))
         /\ journal' \in Seq(Alloc)
<1> DEFINE event == [n |-> AllocSize(request),
                     through |-> UpdateAvailable(Reserved, AllocSize(request))]
<1>1. journal' = Append(journal, event)
  BY DEF JournalAlloc
<1>2. journal \in Seq(Alloc) /\ Len(journal) \in Nat
  BY DEF TypeOK
<1>3. event \in Alloc
  <2>1. AllocSize(request) \in Index
    BY AllocSizeCovers DEF TypeOK
  <2>2. Reserved \in Index
    BY <1>2, ThroughIsInt DEF Reserved
  <2> QED
    BY <2>1, <2>2, UpdateIsInt DEF Alloc
<1> HIDE DEF event
<1>4. /\ Len(journal') = Len(journal) + 1
      /\ \A k \in 1 .. Len(journal) : journal'[k] = journal[k]
      /\ journal'[Len(journal) + 1] = event
      /\ journal' \in Seq(Alloc)
  BY <1>1, <1>2, <1>3
<1>5. \A k \in 0 .. Len(journal) : ThroughAt(k)' = ThroughAt(k)
  BY <1>2, <1>4 DEF ThroughAt
<1> QED
  BY <1>4, <1>5 DEF event

(* A step that journals nothing leaves NoWrap and ThroughAt alone. *)
LEMMA SameJournal ==
  ASSUME UNCHANGED journal
  PROVE  /\ NoWrap' <=> NoWrap
         /\ \A k \in Nat : ThroughAt(k)' = ThroughAt(k)
         /\ ThroughIsReplay' <=> ThroughIsReplay
BY DEF NoWrap, ThroughAt, ThroughIsReplay

-----------------------------------------------------------------------------
(* Handing out. *)

(* A NextOID answer: the actor hands out `current`, which is not the last Int. *)
LEMMA GiveOIDEffect ==
  ASSUME TypeOK, GiveOID, current < MaxInt
  PROVE  /\ current' = current + 1
         /\ current' \in Index
         /\ given' \in [Index -> Nat]
         /\ uses' \in [Index -> Nat]
         /\ alarms' \in BOOLEAN
         /\ \A i \in Index : given'[i] = IF i = current THEN given[i] + 1 ELSE given[i]
         /\ \A i \in Index : uses'[i] = IF i = current THEN uses[i] + 1 ELSE uses[i]
<1>1. current \in Index /\ given \in [Index -> Nat] /\ uses \in [Index -> Nat]
  BY DEF TypeOK
<1>2. current + 1 \in Index
  BY <1>1, MaxIntAssumption DEF Index
<1>3. alarms' \in BOOLEAN
  BY DEF GiveOID
<1>4. given' = [given EXCEPT ![current] = given[current] + 1]
  BY DEF GiveOID
<1>5. uses' = [uses EXCEPT ![current] = uses[current] + 1]
  BY DEF GiveOID
<1>6. current' = current + 1
  BY DEF GiveOID
<1> QED
  BY <1>1, <1>2, <1>3, <1>4, <1>5, <1>6

(* A NewOIDs answer to a request for n: n + 1 indices, n of them for use. *)
LEMMA GiveOIDsEffect ==
  ASSUME TypeOK, NEW n \in 1 .. MaxInt, GiveOIDs(n), current + n < MaxInt
  PROVE  /\ current' = current + n
         /\ current' \in Index
         /\ given' \in [Index -> Nat]
         /\ uses' \in [Index -> Nat]
         /\ alarms' \in BOOLEAN
         /\ \A i \in Index : given'[i] =
              IF i \in current .. current + n THEN given[i] + 1 ELSE given[i]
         /\ \A i \in Index : uses'[i] =
              IF i \in current .. current + n - 1 THEN uses[i] + 1 ELSE uses[i]
<1>1. current \in Index /\ given \in [Index -> Nat] /\ uses \in [Index -> Nat]
  BY DEF TypeOK
<1>2. current + n \in Index
  BY <1>1, MaxIntAssumption DEF Index
<1>3. alarms' \in BOOLEAN /\ current' = current + n
  BY DEF GiveOIDs
<1>4. given' = [i \in Index |-> IF i \in current .. current + n THEN given[i] + 1 ELSE given[i]]
  BY DEF GiveOIDs
<1>5. uses' = [i \in Index |-> IF i \in current .. current + n - 1 THEN uses[i] + 1 ELSE uses[i]]
  BY DEF GiveOIDs
<1>6. given' \in [Index -> Nat]
  BY <1>1, <1>4
<1>7. uses' \in [Index -> Nat]
  BY <1>1, <1>5
<1> QED
  BY <1>1, <1>2, <1>3, <1>4, <1>5, <1>6, <1>7

-----------------------------------------------------------------------------
(* Type correctness. *)

(* countToSnapshot keeps the count below the interval and saves a snapshot. *)
LEMMA CountToSnapshotEffect ==
  ASSUME TypeOK, NEW seqNr \in Nat, NEW available \in Index,
         CountToSnapshot(seqNr, available)
  PROVE  /\ snapshotCount' \in 0 .. AllocSnapshotInterval - 1
         /\ saving' \subseteq saving \union
              {[seqNr |-> seqNr, availableThrough |-> available]}
         /\ saving' \subseteq Snapshot
<1>1. snapshotCount \in 0 .. AllocSnapshotInterval - 1 /\ saving \subseteq Snapshot
  BY DEF TypeOK
<1>2. snapshotCount' \in 0 .. AllocSnapshotInterval - 1
  BY <1>1, IntervalAssumption DEF CountToSnapshot
<1>3. saving' \subseteq saving \union {[seqNr |-> seqNr, availableThrough |-> available]}
  BY DEF CountToSnapshot
<1>4. [seqNr |-> seqNr, availableThrough |-> available] \in Snapshot
  BY DEF Snapshot
<1> QED
  BY <1>1, <1>2, <1>3, <1>4

LEMMA TypeOKInit == Init => TypeOK
<1> SUFFICES ASSUME Init PROVE TypeOK
  OBVIOUS
<1>1. 0 \in Index
  BY MaxIntAssumption DEF Index
<1>2. NextOIDRequest \in Requests
  BY MaxIntAssumption DEF NextOIDRequest, Requests
<1>3. NoSnapshot \in Snapshot
  BY <1>1 DEF NoSnapshot, Snapshot
<1> QED
  BY <1>1, <1>2, <1>3, IntervalAssumption DEF Init, TypeOK

LEMMA TypeOKStep ==
  ASSUME TypeOK, MemoryMatchesJournal, [Next]_vars
  PROVE  TypeOK'
<1> USE DEF TypeOK
<1>1. 0 \in Index /\ NextOIDRequest \in Requests /\ 0 \in 0 .. AllocSnapshotInterval - 1
  BY MaxIntAssumption, IntervalAssumption DEF Index, NextOIDRequest, Requests
<1>2. ASSUME LoseMemory, UNCHANGED <<store, given, uses>>, alarms' \in BOOLEAN
      PROVE  TypeOK'
  BY <1>1, <1>2 DEF LoseMemory, store
<1>3. CASE Recover
  <2>1. snapshot.availableThrough \in Index /\ snapshot.seqNr \in Nat
    BY DEF Snapshot
  <2> QED
    BY <1>3, <2>1 DEF Recover, store, sent
<1>4. CASE ReplayAlloc
  <2>1. lastSequenceNr + 1 \in 1 .. Len(journal)
    BY <1>4 DEF ReplayAlloc
  <2>2. journal[lastSequenceNr + 1].n \in Index
    <3>1. journal[lastSequenceNr + 1] \in Alloc
      BY <2>1
    <3> QED
      BY <3>1 DEF Alloc
  <2>3. availableThrough' \in Index
    BY <1>4, <2>2, UpdateIsInt DEF ReplayAlloc
  <2>4. CountToSnapshot(lastSequenceNr + 1, availableThrough')
    BY <1>4 DEF ReplayAlloc
  <2>5. snapshotCount' \in 0 .. AllocSnapshotInterval - 1 /\ saving' \subseteq Snapshot
    BY <2>3, <2>4, CountToSnapshotEffect
  <2> QED
    BY <1>4, <2>3, <2>5 DEF ReplayAlloc, sent
<1>5. CASE RecoveryDone
  BY <1>5 DEF RecoveryDone, store, sent
<1>6. CASE Crash
  BY <1>6, <1>2 DEF Crash, store, sent
<1>7. CASE NextOID
  <2>1. CASE NextOIDTooFar /\ FallOver
    BY <2>1, <1>2 DEF FallOver
  <2>2. CASE BeginPersist(NextOIDRequest)
    BY <2>2, <1>1 DEF BeginPersist, store, sent
  <2>3. CASE /\ ~NextOIDTooFar
             /\ GiveOID
             /\ UNCHANGED <<phase, availableThrough, snapshotCount, lastSequenceNr, request,
                            store>>
    <3>1. current < MaxInt
      BY <2>3, MaxIntAssumption DEF NextOIDTooFar, Index
    <3> QED
      BY <2>3, <3>1, GiveOIDEffect DEF store
  <2> QED
    BY <1>7, <2>1, <2>2, <2>3 DEF NextOID
<1>8. ASSUME NEW n \in BlockRequests, GiveOIDBlock(n)
      PROVE  TypeOK'
  <2>1. n \in 1 .. MaxInt
    BY RequestsAssumption
  <2>2. CASE BlockTooFar(n) /\ FallOver
    BY <2>2, <1>2 DEF FallOver
  <2>3. CASE BeginPersist([kind |-> "GiveOIDBlock", n |-> n])
    <3>1. [kind |-> "GiveOIDBlock", n |-> n] \in Requests
      BY <2>1 DEF Requests
    <3> QED
      BY <2>3, <3>1 DEF BeginPersist, store, sent
  <2>4. CASE /\ ~BlockTooFar(n)
             /\ GiveOIDs(n)
             /\ UNCHANGED <<phase, availableThrough, snapshotCount, lastSequenceNr, request,
                            store>>
    <3>1. current + n < MaxInt
      BY <2>1, <2>4, MaxIntAssumption DEF BlockTooFar, Index
    <3> QED
      BY <2>1, <2>4, <3>1, GiveOIDsEffect DEF store
  <2> QED
    BY <1>8, <2>2, <2>3, <2>4 DEF GiveOIDBlock
<1>9. CASE JournalAlloc
  BY <1>9, JournalGrows DEF JournalAlloc, sent
<1>10. CASE AllocPersisted
  <2>1. AllocSize(request) \in Index
    BY AllocSizeCovers
  <2>2. availableThrough' \in Index
    BY <1>10, <2>1, UpdateIsInt DEF AllocPersisted
  <2>3. CountToSnapshot(lastSequenceNr, availableThrough')
    BY <1>10 DEF AllocPersisted
  <2>4. snapshotCount' \in 0 .. AllocSnapshotInterval - 1 /\ saving' \subseteq Snapshot
    BY <2>2, <2>3, CountToSnapshotEffect
  <2>5. CASE request.kind = "NextOID"
    <3>1. GiveOID /\ current < MaxInt
      BY <1>10, <2>5 DEF AllocPersisted, MemoryMatchesJournal
    <3> QED
      BY <1>10, <2>2, <2>4, <3>1, GiveOIDEffect DEF AllocPersisted
  <2>6. CASE request.kind # "NextOID"
    <3>1. GiveOIDs(request.n) /\ current + request.n < MaxInt
      BY <1>10, <2>6 DEF AllocPersisted, MemoryMatchesJournal
    <3>2. request.n \in 1 .. MaxInt
      BY DEF Requests
    <3> QED
      BY <1>10, <2>2, <2>4, <3>1, <3>2, GiveOIDsEffect DEF AllocPersisted
  <2> QED
    BY <2>5, <2>6
<1>11. ASSUME NEW s \in saving, SnapshotSaved(s) \/ SnapshotFailed(s)
       PROVE  TypeOK'
  BY <1>11 DEF SnapshotSaved, SnapshotFailed, memory, sent
<1>12. CASE UNCHANGED vars
  BY <1>12 DEF vars, memory, store, sent
<1> QED
  BY <1>3, <1>4, <1>5, <1>6, <1>7, <1>8, <1>9, <1>10, <1>11, <1>12 DEF Next

-----------------------------------------------------------------------------
(* The journal, the snapshots and the memory agree. *)

LEMMA AgreementInit ==
  Init => ThroughIsReplay /\ SnapshotsMatchJournal /\ MemoryMatchesJournal
BY DEF Init, ThroughIsReplay, SnapshotsMatchJournal, MemoryMatchesJournal, ThroughAt, NoSnapshot

LEMMA ThroughIsReplayStep ==
  ASSUME TypeOK, ThroughIsReplay, [Next]_vars
  PROVE  ThroughIsReplay'
<1>1. CASE JournalAlloc
  <2>1. Len(journal) \in Nat
    BY DEF TypeOK
  <2> SUFFICES ASSUME NEW k \in 1 .. Len(journal')
               PROVE  journal'[k].through = UpdateAvailable(ThroughAt(k - 1)', journal'[k].n)
    BY DEF ThroughIsReplay
  <2>2. ThroughAt(k - 1)' = ThroughAt(k - 1)
    BY <1>1, <2>1, JournalGrows
  <2>3. CASE k \in 1 .. Len(journal)
    BY <1>1, <2>2, <2>3, JournalGrows DEF ThroughIsReplay
  <2>4. CASE k = Len(journal) + 1
    <3>1. /\ journal'[k].n = AllocSize(request)
          /\ journal'[k].through = UpdateAvailable(Reserved, AllocSize(request))
      BY <1>1, <2>4, JournalGrows
    <3>2. ThroughAt(k - 1) = Reserved
      BY <2>1, <2>4 DEF Reserved
    <3> QED
      BY <2>2, <3>1, <3>2
  <2> QED
    BY <1>1, <2>1, <2>3, <2>4, JournalGrows
<1>2. CASE ~JournalAlloc
  <2>1. UNCHANGED journal
    BY <1>2 DEF Next, vars, store, memory, Recover, ReplayAlloc, RecoveryDone, Crash, NextOID,
       GiveOIDBlock, BeginPersist, FallOver, AllocPersisted, SnapshotSaved, SnapshotFailed
  <2> QED
    BY <2>1, SameJournal
<1> QED
  BY <1>1, <1>2

LEMMA SnapshotsStep ==
  ASSUME TypeOK, SnapshotsMatchJournal, MemoryMatchesJournal, ThroughIsReplay, [Next]_vars
  PROVE  SnapshotsMatchJournal'
<1> DEFINE Matches(s) == s.seqNr =< Len(journal) /\ s.availableThrough = ThroughAt(s.seqNr)
<1>1. \A s \in {snapshot} \union saving : Matches(s) /\ s.seqNr \in Nat
  BY DEF SnapshotsMatchJournal, TypeOK, Snapshot
<1>2. ASSUME UNCHANGED journal,
             {snapshot'} \union saving' \subseteq {snapshot} \union saving
      PROVE  SnapshotsMatchJournal'
  BY <1>1, <1>2, SameJournal DEF SnapshotsMatchJournal
<1>3. CASE ReplayAlloc
  <2> DEFINE seqNr == lastSequenceNr + 1
  <2>1. seqNr \in 1 .. Len(journal) /\ availableThrough = ThroughAt(lastSequenceNr)
    BY <1>3 DEF ReplayAlloc, MemoryMatchesJournal, TypeOK
  <2>2. availableThrough' = ThroughAt(seqNr)
    BY <1>3, <2>1 DEF ReplayAlloc, ThroughIsReplay, ThroughAt, TypeOK
  <2>3. availableThrough' \in Index
    BY TypeOKStep DEF TypeOK
  <2>4. saving' \subseteq saving \union
          {[seqNr |-> seqNr, availableThrough |-> availableThrough']}
    BY <1>3, <2>1, <2>3, CountToSnapshotEffect DEF ReplayAlloc
  <2>5. Matches([seqNr |-> seqNr, availableThrough |-> availableThrough'])
    BY <2>1, <2>2
  <2>6. \A s \in {snapshot'} \union saving' : Matches(s) /\ s.seqNr \in Nat
    BY <1>1, <1>3, <2>1, <2>4, <2>5 DEF ReplayAlloc
  <2> QED
    BY <1>3, <2>6, SameJournal DEF ReplayAlloc, SnapshotsMatchJournal
<1>4. CASE AllocPersisted
  <2>1. lastSequenceNr \in 1 .. Len(journal)
    BY <1>4 DEF AllocPersisted, MemoryMatchesJournal, TypeOK
  <2>2. availableThrough' = ThroughAt(lastSequenceNr)
    <3>1. /\ lastSequenceNr = Len(journal)
          /\ availableThrough = ThroughAt(Len(journal) - 1)
          /\ journal[Len(journal)].n = AllocSize(request)
      BY <1>4 DEF AllocPersisted, MemoryMatchesJournal
    <3>2. journal[lastSequenceNr].through
            = UpdateAvailable(ThroughAt(lastSequenceNr - 1), journal[lastSequenceNr].n)
      BY <2>1 DEF ThroughIsReplay
    <3>3. ThroughAt(lastSequenceNr) = journal[lastSequenceNr].through
      BY <2>1 DEF ThroughAt
    <3> QED
      BY <1>4, <3>1, <3>2, <3>3 DEF AllocPersisted
  <2>3. availableThrough' \in Index
    BY TypeOKStep DEF TypeOK
  <2>4. saving' \subseteq saving \union
          {[seqNr |-> lastSequenceNr, availableThrough |-> availableThrough']}
    BY <1>4, <2>1, <2>3, CountToSnapshotEffect DEF AllocPersisted
  <2>5. Matches([seqNr |-> lastSequenceNr, availableThrough |-> availableThrough'])
    BY <2>1, <2>2
  <2>6. \A s \in {snapshot'} \union saving' : Matches(s) /\ s.seqNr \in Nat
    BY <1>1, <1>4, <2>1, <2>4, <2>5 DEF AllocPersisted
  <2> QED
    BY <1>4, <2>6, SameJournal DEF AllocPersisted, SnapshotsMatchJournal
<1>5. CASE JournalAlloc
  <2>1. \A s \in {snapshot'} \union saving' : Matches(s) /\ s.seqNr \in Nat
    BY <1>1, <1>5 DEF JournalAlloc
  <2>2. Len(journal) \in Nat /\ Len(journal') = Len(journal) + 1
    BY <1>5, JournalGrows DEF TypeOK
  <2>3. \A k \in 0 .. Len(journal) : ThroughAt(k)' = ThroughAt(k)
    BY <1>5, JournalGrows
  <2> QED
    BY <2>1, <2>2, <2>3 DEF SnapshotsMatchJournal
<1>6. CASE ~ReplayAlloc /\ ~AllocPersisted /\ ~JournalAlloc
  <2>1. UNCHANGED journal /\ {snapshot'} \union saving' \subseteq {snapshot} \union saving
    BY <1>6 DEF Next, vars, store, memory, Recover, RecoveryDone, Crash, NextOID,
       GiveOIDBlock, BeginPersist, FallOver, SnapshotSaved, SnapshotFailed
  <2> QED
    BY <1>2, <2>1
<1> QED
  BY <1>3, <1>4, <1>5, <1>6

LEMMA MemoryStep ==
  ASSUME TypeOK, SnapshotsMatchJournal, MemoryMatchesJournal, ThroughIsReplay, [Next]_vars
  PROVE  MemoryMatchesJournal'
<1> USE DEF MemoryMatchesJournal
<1>1. Len(journal) \in Nat /\ lastSequenceNr \in Nat
  BY DEF TypeOK
<1>2. ASSUME LoseMemory, UNCHANGED journal
      PROVE  MemoryMatchesJournal'
  BY <1>1, <1>2 DEF LoseMemory
<1>3. CASE Recover
  <2>1. /\ snapshot.seqNr =< Len(journal)
        /\ snapshot.availableThrough = ThroughAt(snapshot.seqNr)
        /\ snapshot.seqNr \in Nat
    BY DEF SnapshotsMatchJournal, TypeOK, Snapshot
  <2>2. UNCHANGED journal
    BY <1>3 DEF Recover, store
  <2> QED
    BY <1>3, <2>1, <2>2, SameJournal DEF Recover
<1>4. CASE ReplayAlloc
  <2>1. lastSequenceNr + 1 \in 1 .. Len(journal)
    BY <1>4, <1>1 DEF ReplayAlloc
  <2>2. ThroughAt(lastSequenceNr + 1)
          = UpdateAvailable(ThroughAt(lastSequenceNr), journal[lastSequenceNr + 1].n)
    BY <2>1, <1>1 DEF ThroughIsReplay, ThroughAt
  <2>3. availableThrough' = ThroughAt(lastSequenceNr + 1)
    BY <1>4, <2>2 DEF ReplayAlloc
  <2> QED
    BY <1>1, <1>4, <2>1, <2>3, SameJournal DEF ReplayAlloc
<1>5. CASE RecoveryDone
  BY <1>1, <1>5, SameJournal DEF RecoveryDone, store
<1>6. CASE Crash
  BY <1>2, <1>6 DEF Crash, store
<1>7. CASE NextOID
  <2>1. current \in Index
    BY DEF TypeOK
  <2>2. CASE NextOIDTooFar /\ FallOver
    BY <1>2, <2>2 DEF FallOver, store
  <2>3. CASE ~NextOIDTooFar /\ BeginPersist(NextOIDRequest)
    <3>1. current < MaxInt
      BY <2>1, <2>3, MaxIntAssumption DEF NextOIDTooFar, Index
    <3> QED
      BY <1>1, <1>7, <2>3, <3>1, SameJournal DEF NextOID, BeginPersist, NextOIDRequest, store
  <2>4. CASE UNCHANGED <<phase, availableThrough, lastSequenceNr, request, store>>
    BY <1>1, <1>7, <2>4, SameJournal DEF NextOID, store
  <2> QED
    BY <1>7, <2>2, <2>3, <2>4 DEF NextOID
<1>8. ASSUME NEW n \in BlockRequests, GiveOIDBlock(n)
      PROVE  MemoryMatchesJournal'
  <2>1. current \in Index /\ n \in 1 .. MaxInt
    BY RequestsAssumption DEF TypeOK
  <2>2. CASE BlockTooFar(n) /\ FallOver
    BY <1>2, <2>2 DEF FallOver, store
  <2>3. CASE ~BlockTooFar(n) /\ BeginPersist([kind |-> "GiveOIDBlock", n |-> n])
    <3>1. current + n < MaxInt
      BY <2>1, <2>3, MaxIntAssumption DEF BlockTooFar, Index
    <3> QED
      BY <1>1, <1>8, <2>3, <3>1, SameJournal DEF GiveOIDBlock, BeginPersist, store
  <2>4. CASE UNCHANGED <<phase, availableThrough, lastSequenceNr, request, store>>
    BY <1>1, <1>8, <2>4, SameJournal DEF GiveOIDBlock, store
  <2> QED
    BY <1>8, <2>2, <2>3, <2>4 DEF GiveOIDBlock
<1>9. CASE JournalAlloc
  <2>1. PICK k \in Nat : k = Len(journal)
    BY <1>1
  <2>2. /\ Len(journal') = k + 1
        /\ ThroughAt(k)' = ThroughAt(k)
        /\ journal'[k + 1].n = AllocSize(request)
    BY <1>9, <2>1, JournalGrows
  <2>3. /\ phase' = "persisted" /\ lastSequenceNr' = lastSequenceNr + 1
        /\ UNCHANGED <<current, availableThrough, request>>
        /\ phase = "persisting"
    BY <1>9 DEF JournalAlloc
  <2>4. lastSequenceNr = k /\ availableThrough = ThroughAt(k)
    BY <2>1, <2>3
  <2>5. /\ availableThrough' = ThroughAt(Len(journal) - 1)'
        /\ (journal[Len(journal)].n = AllocSize(request))'
    BY <2>1, <2>2, <2>3, <2>4 DEF AllocSize
  <2> QED
    BY <1>1, <2>2, <2>3, <2>4, <2>5
<1>10. CASE AllocPersisted
  <2>1. lastSequenceNr \in 1 .. Len(journal)
    BY <1>1, <1>10 DEF AllocPersisted
  <2>2. ThroughAt(Len(journal))
          = UpdateAvailable(ThroughAt(Len(journal) - 1), journal[Len(journal)].n)
    BY <1>1, <1>10, <2>1 DEF AllocPersisted, ThroughIsReplay, ThroughAt
  <2>3. availableThrough' = ThroughAt(Len(journal))
    BY <1>10, <2>2 DEF AllocPersisted
  <2> QED
    BY <1>1, <1>10, <2>3, SameJournal DEF AllocPersisted
<1>11. ASSUME NEW s \in saving, SnapshotSaved(s) \/ SnapshotFailed(s)
       PROVE  MemoryMatchesJournal'
  BY <1>1, <1>11, SameJournal DEF SnapshotSaved, SnapshotFailed, memory
<1>12. CASE UNCHANGED vars
  BY <1>1, <1>12, SameJournal DEF vars, memory, store
<1> QED
  BY <1>3, <1>4, <1>5, <1>6, <1>7, <1>8, <1>9, <1>10, <1>11, <1>12 DEF Next

-----------------------------------------------------------------------------
(* Handing out keeps what is given below a limit that was reserved. *)

(* The part of GivenIsReserved that handing out disturbs. *)
GivenBelow(limit) ==
  /\ 0 =< current
  /\ current =< limit
  /\ \A i \in Index : given[i] > 0 => i < limit
  /\ \A i \in Index : uses[i] =< 1 /\ (uses[i] > 0 => given[i] > 0)
  /\ \A i \in Index : uses[i] > 0 => i < current

LEMMA GiveOIDKeeps ==
  ASSUME TypeOK, NEW limit \in Int, GivenBelow(limit), GiveOID,
         current < MaxInt, current < limit
  PROVE  GivenBelow(limit)' /\ Service!Next
<1>1. current \in Int /\ current \in Index /\ Index \subseteq Int
  BY MaxIntAssumption DEF TypeOK, Index
<1>2. \A i \in Index : given[i] \in Nat /\ uses[i] \in Nat
  BY DEF TypeOK
<1>3. /\ 0 =< current
      /\ \A i \in Index : given[i] > 0 => i < limit
      /\ \A i \in Index : uses[i] =< 1 /\ (uses[i] > 0 => given[i] > 0)
      /\ \A i \in Index : uses[i] > 0 => i < current
  BY DEF GivenBelow
<1>4. /\ current' = current + 1
      /\ uses' \in [Index -> Nat]
      /\ \A i \in Index : given'[i] = IF i = current THEN given[i] + 1 ELSE given[i]
      /\ \A i \in Index : uses'[i] = IF i = current THEN uses[i] + 1 ELSE uses[i]
  BY GiveOIDEffect
<1>5. uses[current] = 0
  BY <1>1, <1>2, <1>3
<1>6. \A i \in Index : uses'[i] = IF i \in {current} THEN 1 ELSE uses[i]
  BY <1>4, <1>5
<1>7. Service!Issue({current})
  <2>1. uses' = [i \in Index |-> IF i \in {current} THEN 1 ELSE uses[i]]
    BY <1>4, <1>6
  <2> QED
    BY <1>5, <2>1 DEF Service!Issue
<1>8. ASSUME NEW i \in Index
      PROVE  /\ given'[i] > 0 => i < limit
             /\ uses'[i] =< 1 /\ (uses'[i] > 0 => given'[i] > 0)
             /\ uses'[i] > 0 => i < current'
  <2>1. CASE i = current
    BY <1>1, <1>2, <1>4, <1>5, <2>1
  <2>2. CASE i # current
    BY <1>1, <1>2, <1>3, <1>4, <2>2
  <2> QED
    BY <2>1, <2>2
<1>9. GivenBelow(limit)'
  BY <1>1, <1>3, <1>4, <1>8 DEF GivenBelow
<1> QED
  BY <1>1, <1>7, <1>9 DEF Service!Next

LEMMA GiveOIDsKeeps ==
  ASSUME TypeOK, NEW limit \in Int, NEW n \in 1 .. MaxInt, GivenBelow(limit), GiveOIDs(n),
         current + n < MaxInt, current + n < limit
  PROVE  GivenBelow(limit)' /\ Service!Next
<1> DEFINE fresh == current .. current + n - 1
<1>1. current \in Int /\ n \in Int /\ n > 0 /\ Index \subseteq Int
  BY MaxIntAssumption DEF TypeOK, Index
<1>2. \A i \in Index : given[i] \in Nat /\ uses[i] \in Nat
  BY DEF TypeOK
<1>3. /\ 0 =< current
      /\ \A i \in Index : given[i] > 0 => i < limit
      /\ \A i \in Index : uses[i] =< 1 /\ (uses[i] > 0 => given[i] > 0)
      /\ \A i \in Index : uses[i] > 0 => i < current
  BY DEF GivenBelow
<1>4. /\ current' = current + n
      /\ uses' \in [Index -> Nat]
      /\ \A i \in Index : given'[i] =
           IF i \in current .. current + n THEN given[i] + 1 ELSE given[i]
      /\ \A i \in Index : uses'[i] = IF i \in fresh THEN uses[i] + 1 ELSE uses[i]
  BY GiveOIDsEffect
<1>5. \A i \in Int : i >= current /\ i < current + n => i \in Index
  BY <1>1, <1>3, MaxIntAssumption DEF Index
<1>6. ASSUME NEW i \in fresh
      PROVE  i \in Index /\ uses[i] = 0
  <2>1. i \in Int /\ current =< i /\ i < current + n
    BY <1>1
  <2>2. i \in Index
    BY <1>5, <2>1
  <2> QED
    BY <1>1, <1>2, <1>3, <2>1, <2>2
<1>7. \A i \in Index : uses'[i] = IF i \in fresh THEN 1 ELSE uses[i]
  BY <1>4, <1>6
<1>8. Service!Issue(fresh)
  <2>1. uses' = [i \in Index |-> IF i \in fresh THEN 1 ELSE uses[i]]
    BY <1>4, <1>7
  <2> QED
    BY <1>6, <2>1 DEF Service!Issue
<1>9. ASSUME NEW i \in Index
      PROVE  /\ given'[i] > 0 => i < limit
             /\ uses'[i] =< 1 /\ (uses'[i] > 0 => given'[i] > 0)
             /\ uses'[i] > 0 => i < current'
  <2>1. CASE i \in current .. current + n
    <3>1. given'[i] = given[i] + 1
      BY <1>4, <2>1
    <3>2. CASE i \in fresh
      BY <1>1, <1>2, <1>4, <1>7, <2>1, <3>1, <3>2
    <3>3. CASE i \notin fresh
      BY <1>1, <1>2, <1>3, <1>4, <1>7, <2>1, <3>1, <3>3
    <3> QED
      BY <3>2, <3>3
  <2>2. CASE i \notin current .. current + n
    <3>1. i \notin fresh
      BY <1>1, <2>2
    <3> QED
      BY <1>1, <1>2, <1>3, <1>4, <2>2, <3>1
  <2> QED
    BY <2>1, <2>2
<1>10. GivenBelow(limit)'
  BY <1>1, <1>3, <1>4, <1>9 DEF GivenBelow
<1> QED
  BY <1>6, <1>8, <1>10 DEF Service!Next

(* While nothing has wrapped, ThroughAt is never negative. *)
LEMMA ThroughIsNat ==
  ASSUME TypeOK, NoWrap, NEW k \in 0 .. Len(journal)
  PROVE  ThroughAt(k) \in Nat
<1>1. ThroughAt(k) \in Index
  BY ThroughIsInt
<1>2. k # 0 => ThroughAt(k) >= 0
  BY DEF ThroughAt, NoWrap, TypeOK
<1> QED
  BY <1>1, <1>2, MaxIntAssumption DEF ThroughAt, Index

(* A journal that has not wrapped after a step had not wrapped before it. *)
LEMMA NoWrapBefore ==
  ASSUME TypeOK, [Next]_vars, NoWrap'
  PROVE  NoWrap
<1>1. CASE JournalAlloc
  <2>1. \A k \in 1 .. Len(journal) : journal'[k] = journal[k]
    BY <1>1, JournalGrows
  <2>2. Len(journal') = Len(journal) + 1 /\ journal' \in Seq(Alloc) /\ journal \in Seq(Alloc)
    BY <1>1, JournalGrows DEF TypeOK
  <2> QED
    BY <2>1, <2>2 DEF NoWrap
<1>2. CASE ~JournalAlloc
  <2>1. UNCHANGED journal
    BY <1>2 DEF Next, vars, store, memory, Recover, ReplayAlloc, RecoveryDone, Crash, NextOID,
       GiveOIDBlock, BeginPersist, FallOver, AllocPersisted, SnapshotSaved, SnapshotFailed
  <2> QED
    BY <2>1, SameJournal
<1> QED
  BY <1>1, <1>2

-----------------------------------------------------------------------------
(* What is reserved never shrinks while nothing wraps. *)
LEMMA ReservedGrows ==
  ASSUME TypeOK, TypeOK', [Next]_vars, NoWrap, NoWrap'
  PROVE  Reserved \in Nat /\ Reserved' \in Nat /\ Reserved =< Reserved'
<1>1. PICK k \in Nat : k = Len(journal)
  BY DEF TypeOK
<1>2. Reserved \in Nat
  BY <1>1, ThroughIsNat DEF Reserved
<1>3. CASE JournalAlloc
  <2>1. /\ Len(journal') = k + 1
        /\ journal'[k + 1].n = AllocSize(request)
        /\ journal'[k + 1].through = UpdateAvailable(Reserved, AllocSize(request))
    BY <1>1, <1>3, JournalGrows
  <2>2. Reserved' = UpdateAvailable(Reserved, AllocSize(request))
    BY <1>1, <2>1 DEF Reserved, ThroughAt
  <2>3. journal'[k + 1].n >= 0 /\ journal'[k + 1].through >= 0
    <3>1. journal' \in Seq(Alloc)
      BY <1>3, JournalGrows
    <3>2. k + 1 \in DOMAIN journal'
      BY <1>1, <2>1, <3>1
    <3> QED
      BY <3>2 DEF NoWrap
  <2>4. AllocSize(request) \in Index
    BY AllocSizeCovers DEF TypeOK
  <2>5. Reserved \in Index
    BY <1>1, ThroughIsInt DEF Reserved
  <2>6. UpdateAvailable(Reserved, AllocSize(request)) = Reserved + AllocSize(request)
    BY <1>2, <2>1, <2>3, <2>4, <2>5, UpdateAdds
  <2> QED
    BY <1>2, <2>1, <2>2, <2>3, <2>4, <2>6, MaxIntAssumption DEF Index
<1>4. CASE ~JournalAlloc
  <2>1. UNCHANGED journal
    BY <1>4 DEF Next, vars, store, memory, Recover, ReplayAlloc, RecoveryDone, Crash, NextOID,
       GiveOIDBlock, BeginPersist, FallOver, AllocPersisted, SnapshotSaved, SnapshotFailed
  <2> QED
    BY <1>2, <2>1 DEF Reserved, ThroughAt
<1> QED
  BY <1>3, <1>4

(* A step that answers nobody keeps GivenIsReserved. *)
LEMMA QuietKeepsReserved ==
  ASSUME TypeOK, TypeOK', [Next]_vars, GivenIsReserved, NoWrap, NoWrap',
         UNCHANGED <<given, uses>>,
         phase' \in {"ready", "persisting", "persisted"} =>
           /\ 0 =< current'
           /\ current' =< availableThrough'
           /\ \A i \in Index : uses[i] > 0 => i < current'
  PROVE  GivenIsReserved'
<1>1. Index \subseteq Int
  BY MaxIntAssumption DEF Index
<1>2. \A i \in Index : given[i] > 0 => i < Reserved
  BY DEF GivenIsReserved
<1>3. \A i \in Index : given'[i] > 0 => i < Reserved'
  BY <1>1, <1>2, ReservedGrows
<1> QED
  BY <1>3 DEF GivenIsReserved

(* Answering from the block in hand, and from the block just persisted. *)
LEMMA AnswerKeepsReserved ==
  ASSUME TypeOK, TypeOK', GivenIsReserved, NoWrap, UNCHANGED journal,
         phase \in {"ready", "persisted"}, availableThrough' = Reserved,
         \/ GiveOID /\ current < MaxInt /\ current < availableThrough'
         \/ \E n \in 1 .. MaxInt : /\ GiveOIDs(n)
                                   /\ current + n < MaxInt
                                   /\ current + n < availableThrough'
  PROVE  GivenIsReserved' /\ Service!Next
<1>1. Reserved \in Int /\ current \in Int /\ Reserved >= 0
  <2>1. Len(journal) \in 0 .. Len(journal)
    BY DEF TypeOK
  <2>2. Reserved \in Nat
    BY <2>1, ThroughIsNat DEF Reserved
  <2>3. current \in Int
    BY MaxIntAssumption DEF TypeOK, Index
  <2> QED
    BY <2>2, <2>3
<1>2. Reserved' = Reserved
  BY DEF Reserved, ThroughAt
<1>3. GivenBelow(Reserved)
  BY <1>1 DEF GivenIsReserved, GivenBelow
<1>4. PICK limit \in Int : limit = Reserved
  BY <1>1
<1>5. GivenBelow(limit)' /\ Service!Next
  BY <1>3, <1>4, GiveOIDKeeps, GiveOIDsKeeps
<1> QED
  BY <1>2, <1>4, <1>5 DEF GivenIsReserved, GivenBelow

-----------------------------------------------------------------------------
(* Every step keeps GivenIsReserved, and uses fresh OIDs only. *)

(* The block just persisted covers the request it was persisted for. *)
LEMMA PersistedBlockCovers ==
  ASSUME TypeOK, ThroughIsReplay, MemoryMatchesJournal, NoWrap, phase = "persisted"
  PROVE  /\ Reserved = UpdateAvailable(availableThrough, AllocSize(request))
         /\ availableThrough \in Nat /\ Reserved \in Nat
         /\ request.kind = "NextOID" => availableThrough < Reserved
         /\ request.kind # "NextOID" => availableThrough + request.n < Reserved
<1>1. PICK k \in Nat : k = Len(journal)
  BY DEF TypeOK
<1>2. /\ k > 0
      /\ availableThrough = ThroughAt(k - 1)
      /\ journal[k].n = AllocSize(request)
  BY <1>1 DEF MemoryMatchesJournal
<1>3. journal[k].through = UpdateAvailable(ThroughAt(k - 1), journal[k].n)
  BY <1>1, <1>2 DEF ThroughIsReplay
<1>4. Reserved = journal[k].through
  BY <1>1, <1>2 DEF Reserved, ThroughAt
<1>5. Reserved = UpdateAvailable(availableThrough, AllocSize(request))
  BY <1>2, <1>3, <1>4
<1>6. availableThrough \in Nat /\ Reserved \in Nat
  <2>1. ThroughAt(k - 1) \in Nat /\ ThroughAt(k) \in Nat
    BY <1>1, <1>2, ThroughIsNat
  <2> QED
    BY <1>1, <1>2, <2>1 DEF Reserved
<1>7. AllocSize(request) >= 0
  <2>1. k \in DOMAIN journal
    BY <1>1, <1>2 DEF TypeOK
  <2> QED
    BY <1>2, <2>1 DEF NoWrap
<1>8. request \in Requests /\ availableThrough \in Index
  BY DEF TypeOK
<1>9. AllocSize(request) \in Index
  BY <1>8, AllocSizeCovers
<1>10. AllocSize(request) >= (IF request.kind = "NextOID" THEN 1 ELSE request.n + 1)
  BY <1>7, <1>8, AllocSizeCovers
<1>11. Reserved = availableThrough + AllocSize(request)
  <2>1. UpdateAvailable(availableThrough, AllocSize(request)) >= 0 /\ availableThrough >= 0
    BY <1>5, <1>6
  <2> QED
    BY <1>5, <1>7, <1>8, <1>9, <2>1, UpdateAdds
<1>12. AllocSize(request) \in Int /\ request.n \in Int
  BY <1>8, <1>9, MaxIntAssumption DEF Index, Requests
<1>13. CASE request.kind = "NextOID"
  BY <1>5, <1>6, <1>10, <1>11, <1>12, <1>13
<1>14. CASE request.kind # "NextOID"
  BY <1>5, <1>6, <1>10, <1>11, <1>12, <1>14
<1> QED
  BY <1>13, <1>14

LEMMA GivenStep ==
  ASSUME IInv, TypeOK', MemoryMatchesJournal', [Next]_vars, NoWrap'
  PROVE  GivenIsReserved' /\ (Service!Next \/ UNCHANGED uses)
<1> USE DEF IInv
<1>1. NoWrap
  BY NoWrapBefore
<1>2. Index \subseteq Int /\ current \in Int
  BY MaxIntAssumption DEF Index, TypeOK
<1>3. phase \in {"ready", "persisting", "persisted"} =>
        /\ 0 =< current
        /\ current =< availableThrough
        /\ \A i \in Index : uses[i] > 0 => i < current
  BY <1>1 DEF GivenIsReserved
<1>4. ASSUME UNCHANGED <<given, uses>>,
             \/ phase' \in {"down", "recovering"}
             \/ /\ phase \in {"ready", "persisting", "persisted"}
                /\ UNCHANGED <<current, availableThrough>>
      PROVE  GivenIsReserved' /\ (Service!Next \/ UNCHANGED uses)
  BY <1>1, <1>3, <1>4, QuietKeepsReserved
<1>5. CASE Recover
  BY <1>4, <1>5 DEF Recover, sent
<1>6. CASE ReplayAlloc
  BY <1>4, <1>6 DEF ReplayAlloc, sent
<1>7. CASE RecoveryDone
  <2>1. /\ UNCHANGED <<given, uses, current, availableThrough, journal>>
        /\ lastSequenceNr = Len(journal)
        /\ phase = "recovering"
    BY <1>7 DEF RecoveryDone, sent, store
  <2>2. availableThrough = Reserved /\ current = Reserved
    BY <2>1 DEF MemoryMatchesJournal, Reserved
  <2>3. \A i \in Index : uses[i] > 0 => i < Reserved
    BY <1>1 DEF GivenIsReserved
  <2>4. Reserved \in Nat
    BY <1>1, ReservedGrows
  <2> QED
    BY <1>1, <2>1, <2>2, <2>3, <2>4, QuietKeepsReserved
<1>8. CASE Crash
  BY <1>4, <1>8 DEF Crash, LoseMemory, sent
<1>9. CASE NextOID
  <2>1. CASE NextOIDTooFar /\ FallOver
    BY <1>4, <2>1 DEF FallOver, LoseMemory
  <2>2. CASE BeginPersist(NextOIDRequest)
    BY <1>4, <1>9, <2>2 DEF NextOID, BeginPersist, sent
  <2>3. CASE /\ ~NextOIDTooFar
             /\ current < availableThrough
             /\ GiveOID
             /\ UNCHANGED <<phase, availableThrough, snapshotCount, lastSequenceNr, request,
                            store>>
    <3>1. current < MaxInt
      BY <2>3, MaxIntAssumption DEF NextOIDTooFar, Index, TypeOK
    <3>2. UNCHANGED journal /\ phase = "ready" /\ availableThrough' = Reserved
      BY <1>9, <2>3 DEF NextOID, store, MemoryMatchesJournal, Reserved
    <3> QED
      BY <1>1, <2>3, <3>1, <3>2, AnswerKeepsReserved
  <2> QED
    BY <1>9, <2>1, <2>2, <2>3 DEF NextOID
<1>10. ASSUME NEW n \in BlockRequests, GiveOIDBlock(n)
       PROVE  GivenIsReserved' /\ (Service!Next \/ UNCHANGED uses)
  <2>1. n \in 1 .. MaxInt
    BY RequestsAssumption
  <2>2. CASE BlockTooFar(n) /\ FallOver
    BY <1>4, <2>2 DEF FallOver, LoseMemory
  <2>3. CASE BeginPersist([kind |-> "GiveOIDBlock", n |-> n])
    BY <1>4, <1>10, <2>3 DEF GiveOIDBlock, BeginPersist, sent
  <2>4. CASE /\ ~BlockTooFar(n)
             /\ BlockFits(n)
             /\ GiveOIDs(n)
             /\ UNCHANGED <<phase, availableThrough, snapshotCount, lastSequenceNr, request,
                            store>>
    <3>1. current + n < MaxInt
      BY <1>2, <2>1, <2>4, MaxIntAssumption DEF BlockTooFar
    <3>2. UNCHANGED journal /\ phase = "ready" /\ availableThrough' = Reserved
      BY <1>10, <2>4 DEF GiveOIDBlock, store, MemoryMatchesJournal, Reserved
    <3>3. current + n < availableThrough'
      BY <2>4 DEF BlockFits
    <3> QED
      BY <1>1, <2>1, <2>4, <3>1, <3>2, <3>3, AnswerKeepsReserved
  <2> QED
    BY <1>10, <2>2, <2>3, <2>4 DEF GiveOIDBlock
<1>11. CASE JournalAlloc
  BY <1>4, <1>11 DEF JournalAlloc, sent
<1>12. CASE AllocPersisted
  <2>1. /\ phase = "persisted"
        /\ UNCHANGED journal
        /\ availableThrough' = UpdateAvailable(availableThrough, AllocSize(request))
        /\ IF request.kind = "NextOID" THEN GiveOID ELSE GiveOIDs(request.n)
    BY <1>12 DEF AllocPersisted
  <2>2. IF request.kind = "NextOID" THEN current < MaxInt ELSE current + request.n < MaxInt
    BY <2>1 DEF MemoryMatchesJournal
  <2>3. /\ availableThrough' = Reserved
        /\ availableThrough \in Nat /\ Reserved \in Nat
        /\ request.kind = "NextOID" => availableThrough < Reserved
        /\ request.kind # "NextOID" => availableThrough + request.n < Reserved
    BY <1>1, <2>1, PersistedBlockCovers
  <2>4. current =< availableThrough
    BY <1>3, <2>1
  <2>5. request.n \in 1 .. MaxInt /\ request.n \in Int
    BY DEF TypeOK, Requests
  <2>6. CASE request.kind = "NextOID"
    <3>1. current < availableThrough'
      BY <1>2, <2>3, <2>4, <2>6
    <3> QED
      BY <1>1, <2>1, <2>2, <2>3, <2>6, <3>1, AnswerKeepsReserved
  <2>7. CASE request.kind # "NextOID"
    <3>1. current + request.n < availableThrough'
      BY <1>2, <2>3, <2>4, <2>5, <2>7
    <3> QED
      BY <1>1, <2>1, <2>2, <2>3, <2>5, <2>7, <3>1, AnswerKeepsReserved
  <2> QED
    BY <2>6, <2>7
<1>13. ASSUME NEW s \in saving, SnapshotSaved(s) \/ SnapshotFailed(s)
       PROVE  GivenIsReserved' /\ (Service!Next \/ UNCHANGED uses)
  BY <1>4, <1>13 DEF SnapshotSaved, SnapshotFailed, memory, sent, TypeOK
<1>14. CASE UNCHANGED vars
  BY <1>4, <1>14 DEF vars, memory, sent, TypeOK
<1> QED
  BY <1>5, <1>6, <1>7, <1>8, <1>9, <1>10, <1>11, <1>12, <1>13, <1>14 DEF Next

-----------------------------------------------------------------------------
(* The last Int. *)
LEMMA LastIntStep ==
  ASSUME IInv, [Next]_vars
  PROVE  LastIntNeverGiven'
<1>1. TypeOK /\ MemoryMatchesJournal /\ given[MaxInt] = 0
  BY DEF IInv, LastIntNeverGiven
<1>2. MaxInt \in Index /\ current \in Int /\ MaxInt \in Int
  BY <1>1, MaxIntAssumption DEF Index, TypeOK
<1>3. ASSUME GiveOID, current < MaxInt
      PROVE  LastIntNeverGiven'
  BY <1>1, <1>2, <1>3, GiveOIDEffect DEF LastIntNeverGiven
<1>4. ASSUME NEW n \in 1 .. MaxInt, GiveOIDs(n), current + n < MaxInt
      PROVE  LastIntNeverGiven'
  <2>1. MaxInt \notin current .. current + n
    BY <1>2, <1>4
  <2> QED
    BY <1>1, <1>2, <1>4, <2>1, GiveOIDsEffect DEF LastIntNeverGiven
<1>5. CASE UNCHANGED given
  BY <1>1, <1>5 DEF LastIntNeverGiven
<1>6. CASE NextOID
  <2>1. CASE ~NextOIDTooFar /\ GiveOID
    <3>1. current < MaxInt
      BY <1>1, <2>1, MaxIntAssumption DEF NextOIDTooFar, TypeOK, Index
    <3> QED
      BY <1>3, <2>1, <3>1
  <2> QED
    BY <1>5, <1>6, <2>1 DEF NextOID, FallOver, BeginPersist, sent
<1>7. ASSUME NEW n \in BlockRequests, GiveOIDBlock(n)
      PROVE  LastIntNeverGiven'
  <2>1. n \in 1 .. MaxInt
    BY RequestsAssumption
  <2>2. CASE ~BlockTooFar(n) /\ GiveOIDs(n)
    <3>1. current + n < MaxInt
      BY <1>2, <2>1, <2>2 DEF BlockTooFar
    <3> QED
      BY <1>4, <2>1, <2>2, <3>1
  <2> QED
    BY <1>5, <1>7, <2>2 DEF GiveOIDBlock, FallOver, BeginPersist, sent
<1>8. CASE AllocPersisted
  <2>1. request.n \in 1 .. MaxInt
    BY <1>1 DEF TypeOK, Requests
  <2> QED
    BY <1>1, <1>3, <1>4, <1>8, <2>1 DEF AllocPersisted, MemoryMatchesJournal
<1> QED
  BY <1>5, <1>6, <1>7, <1>8 DEF Next, vars, sent, Recover, ReplayAlloc, RecoveryDone, Crash,
     JournalAlloc, SnapshotSaved, SnapshotFailed

-----------------------------------------------------------------------------
(***************************************************************************)
(* The capacity of a shard.  If no request is larger than `largest`, each  *)
(* reservation takes at most largest + AllocBlockSize indices, so as many  *)
(* reservations as fit in the Ints cannot wrap.                            *)
(***************************************************************************)
Most(largest, k) == k * (largest + AllocBlockSize)

FitsCapacity(largest) ==
  /\ largest \in Nat
  /\ \A n \in BlockRequests : n =< largest
  /\ Most(largest, MaxAllocs) =< MaxInt

WithinCapacity(largest) ==
  /\ Len(journal) =< MaxAllocs
  /\ phase = "persisting" =>
       /\ Len(journal) < MaxAllocs
       /\ request.kind # "NextOID" => request.n =< largest
  /\ \A k \in 1 .. Len(journal) :
       /\ journal[k].n >= 0
       /\ 0 =< journal[k].through /\ journal[k].through =< Most(largest, k)

LEMMA MostGrows ==
  ASSUME NEW largest \in Nat, NEW k \in Nat
  PROVE  /\ Most(largest, k) \in Nat
         /\ Most(largest, k + 1) = Most(largest, k) + largest + AllocBlockSize
         /\ \A m \in Nat : k =< m => Most(largest, k) =< Most(largest, m)
<1> DEFINE size == largest + AllocBlockSize
<1>1. size \in Nat
  BY MaxIntAssumption, BlockSizeAssumption
<1>2. AllocBlockSize \in Int
  BY MaxIntAssumption, BlockSizeAssumption
<1> HIDE DEF size
<1>3. k * size \in Nat /\ (k + 1) * size = k * size + size
  BY <1>1
<1>4. ASSUME NEW m \in Nat, k =< m PROVE k * size =< m * size
  <2>1. m - k \in Nat /\ m = k + (m - k)
    BY <1>4
  <2>2. (m - k) * size \in Nat
    BY <1>1, <2>1
  <2>3. m * size = k * size + (m - k) * size
    BY <1>1, <2>1
  <2> QED BY <1>3, <2>2, <2>3
<1> QED BY <1>1, <1>2, <1>3, <1>4 DEF Most, size

(* A reservation below the capacity is added, and does not wrap. *)
LEMMA ReservationFits ==
  ASSUME TypeOK, NEW largest, FitsCapacity(largest), WithinCapacity(largest),
         phase = "persisting"
  PROVE  /\ AllocSize(request) >= 0
         /\ UpdateAvailable(Reserved, AllocSize(request)) >= 0
         /\ UpdateAvailable(Reserved, AllocSize(request)) =< Most(largest, Len(journal) + 1)
<1>1. Len(journal) \in Nat /\ Len(journal) + 1 =< MaxAllocs /\ MaxAllocs \in Nat
  BY MaxAllocsAssumption DEF TypeOK, WithinCapacity
<1>2. Most(largest, Len(journal)) \in Nat
      /\ Most(largest, Len(journal) + 1) = Most(largest, Len(journal)) + largest + AllocBlockSize
      /\ Most(largest, Len(journal) + 1) =< MaxInt
  <2>1. Most(largest, Len(journal) + 1) =< Most(largest, MaxAllocs)
    BY <1>1, MostGrows DEF FitsCapacity
  <2>2. Most(largest, MaxAllocs) \in Nat /\ Most(largest, Len(journal) + 1) \in Nat
    BY <1>1, MostGrows DEF FitsCapacity
  <2> QED BY <1>1, <2>1, <2>2, MostGrows, MaxIntAssumption DEF FitsCapacity
<1>3. Reserved \in Int /\ 0 =< Reserved /\ Reserved =< Most(largest, Len(journal))
  <2>1. CASE Len(journal) = 0
    BY <1>2, <2>1 DEF Reserved, ThroughAt
  <2>2. CASE Len(journal) # 0
    <3>1. Len(journal) \in 1 .. Len(journal) /\ Reserved = journal[Len(journal)].through
      BY <1>1, <2>2 DEF Reserved, ThroughAt
    <3>2. journal[Len(journal)].through \in Int
      BY <1>1, <3>1, ThroughIsInt, MaxIntAssumption DEF Reserved, Index
    <3> QED BY <3>1, <3>2 DEF WithinCapacity
  <2> QED BY <2>1, <2>2
<1>4. AllocSize(request) \in 0 .. largest + AllocBlockSize
  <2>1. largest \in Nat /\ largest + AllocBlockSize =< MaxInt /\ AllocBlockSize \in 1 .. MaxInt
    BY <1>2, MaxIntAssumption, BlockSizeAssumption DEF FitsCapacity
  <2>2. request.n \in 1 .. MaxInt
    BY DEF TypeOK, Requests
  <2>3. request.kind # "NextOID" => request.n =< largest
    BY DEF WithinCapacity
  <2> QED BY <2>1, <2>2, <2>3, MaxIntAssumption DEF AllocSize, Wrap
<1>5. largest \in Nat /\ AllocBlockSize \in Nat /\ MaxInt \in Nat
  BY MaxIntAssumption, BlockSizeAssumption DEF FitsCapacity
<1> QED BY <1>2, <1>3, <1>4, <1>5 DEF UpdateAvailable, MinInt, Wrap

LEMMA CapacityStep ==
  ASSUME TypeOK, NEW largest, FitsCapacity(largest), WithinCapacity(largest), [Next]_vars
  PROVE  WithinCapacity(largest)'
<1>1. CASE JournalAlloc
  <2>1. phase = "persisting" /\ phase' = "persisted"
    BY <1>1 DEF JournalAlloc
  <2>2. Len(journal) \in Nat /\ Len(journal) < MaxAllocs /\ MaxAllocs \in Nat
    BY <2>1, MaxAllocsAssumption DEF TypeOK, WithinCapacity
  <2>3. Len(journal') = Len(journal) + 1
    BY <1>1, JournalGrows
  <2>4. ASSUME NEW k \in 1 .. Len(journal')
        PROVE  /\ journal'[k].n >= 0
               /\ 0 =< journal'[k].through /\ journal'[k].through =< Most(largest, k)
    <3>1. CASE k \in 1 .. Len(journal)
      BY <1>1, <3>1, JournalGrows DEF WithinCapacity
    <3>2. CASE k = Len(journal) + 1
      BY <1>1, <2>1, <3>2, JournalGrows, ReservationFits
    <3> QED BY <2>2, <2>3, <2>4, <3>1, <3>2
  <2> QED BY <2>1, <2>2, <2>3, <2>4 DEF WithinCapacity, Most
<1>2. ASSUME UNCHANGED journal, phase' # "persisting" PROVE WithinCapacity(largest)'
  BY <1>2 DEF WithinCapacity, Most
<1>3. ASSUME NEW r, BeginPersist(r), r.kind # "NextOID" => r.n =< largest
      PROVE  WithinCapacity(largest)'
  BY <1>3 DEF BeginPersist, store, WithinCapacity, Most
<1>4. CASE NextOID
  <2>1. CASE BeginPersist(NextOIDRequest)
    BY <1>3, <2>1 DEF NextOIDRequest
  <2> QED BY <1>2, <1>4, <2>1 DEF NextOID, FallOver, LoseMemory, store
<1>5. ASSUME NEW n \in BlockRequests, GiveOIDBlock(n) PROVE WithinCapacity(largest)'
  <2>1. CASE BeginPersist([kind |-> "GiveOIDBlock", n |-> n])
    BY <1>3, <2>1 DEF FitsCapacity
  <2> QED BY <1>2, <1>5, <2>1 DEF GiveOIDBlock, FallOver, LoseMemory, store
<1>6. ASSUME UNCHANGED <<phase, request, journal>> PROVE WithinCapacity(largest)'
  BY <1>6 DEF WithinCapacity, Most
<1> QED
  BY <1>1, <1>2, <1>4, <1>5, <1>6 DEF Next, vars, memory, store, Recover, ReplayAlloc,
     RecoveryDone, Crash, LoseMemory, AllocPersisted, SnapshotSaved, SnapshotFailed

-----------------------------------------------------------------------------
(* The theorems. *)

LEMMA IInvInit == Init => IInv
<1> SUFFICES ASSUME Init PROVE IInv
  OBVIOUS
<1>1. MaxInt \in Index
  BY MaxIntAssumption DEF Index
<1>2. LastIntNeverGiven
  BY <1>1 DEF Init, LastIntNeverGiven
<1>3. GivenIsReserved
  BY DEF Init, GivenIsReserved
<1> QED
  BY <1>2, <1>3, TypeOKInit, AgreementInit DEF IInv

LEMMA IInvStep ==
  ASSUME IInv, [Next]_vars
  PROVE  IInv'
<1>1. TypeOK' /\ ThroughIsReplay' /\ SnapshotsMatchJournal' /\ MemoryMatchesJournal'
  BY TypeOKStep, ThroughIsReplayStep, SnapshotsStep, MemoryStep DEF IInv
<1>2. GivenIsReserved'
  <2>1. CASE NoWrap'
    BY <1>1, <2>1, GivenStep
  <2>2. CASE ~NoWrap'
    BY <2>2 DEF GivenIsReserved
  <2> QED
    BY <2>1, <2>2
<1> QED
  BY <1>1, <1>2, LastIntStep DEF IInv

(* The invariant the theorems below are read off from. *)
THEOREM InductiveInvariant == Spec => []IInv
BY IInvInit, IInvStep, PTL DEF Spec

(* The type invariant of the allocator. *)
THEOREM TypeCorrect == Spec => []TypeOK
<1>1. IInv => TypeOK
  BY DEF IInv
<1> QED
  BY <1>1, InductiveInvariant, PTL

(***************************************************************************)
(* Every OID of an answer is covered by a reservation the journal held     *)
(* before the answer was sent (OIDAllocator.scala:108-155), as long as no  *)
(* reservation has wrapped.                                                *)
(***************************************************************************)
THEOREM ReservationsPrecedeAnswers == Spec => []ReservedBeforeGiven
<1>1. IInv => ReservedBeforeGiven
  BY DEF IInv, GivenIsReserved, ReservedBeforeGiven
<1> QED
  BY <1>1, InductiveInvariant, PTL

(***************************************************************************)
(* Snapshots never disagree with the journal (OIDAllocator.scala:51-69):   *)
(* recovery from any of them and from the whole journal are the same.      *)
(***************************************************************************)
THEOREM SnapshotsAgree == Spec => []SnapshotsMatchJournal
<1>1. IInv => SnapshotsMatchJournal
  BY DEF IInv
<1> QED
  BY <1>1, InductiveInvariant, PTL

(* The emergency exits of OIDAllocator.scala:91-95 and 123-127 come in time. *)
THEOREM LastIntIsKept == Spec => []LastIntNeverGiven
<1>1. IInv => LastIntNeverGiven
  BY DEF IInv
<1> QED
  BY <1>1, InductiveInvariant, PTL

(***************************************************************************)
(* No OID is used twice (OIDAllocator.scala:19-25, 89-156): through every  *)
(* crash, recovery and late snapshot, each step of an allocator is a step  *)
(* of OIDService or leaves the uses alone, until a reservation wraps.      *)
(***************************************************************************)
THEOREM FreshOIDs == Spec => OnlyFreshOIDsUsed
<1>1. IInv /\ IInv' /\ [Next]_vars => [NoWrap' => Service!Next \/ UNCHANGED uses]_vars
  BY GivenStep DEF IInv
<1> QED
  BY <1>1, InductiveInvariant, PTL DEF Spec, OnlyFreshOIDsUsed

(* An allocator none of whose reservations ever wraps implements OIDService. *)
THEOREM ImplementsService == Spec /\ []NoWrap => Service!Spec
<1>1. Init => Service!Init
  BY DEF Init, Service!Init
<1>2. IInv /\ IInv' /\ NoWrap' /\ [Next]_vars => [Service!Next]_uses
  BY GivenStep DEF IInv
<1> QED
  BY <1>1, <1>2, InductiveInvariant, PTL DEF Spec, Service!Spec

(***************************************************************************)
(* updateAvailable does not wrap while a shard has room for its blocks: if *)
(* all reservations that are ever made fit in the Ints, none wraps.        *)
(***************************************************************************)
THEOREM NoReservationWraps ==
  ASSUME NEW CONSTANT largest, FitsCapacity(largest)
  PROVE  Spec => []NoWrap
<1>1. Init => WithinCapacity(largest)
  BY MaxAllocsAssumption DEF Init, WithinCapacity
<1>2. TypeOK /\ WithinCapacity(largest) /\ [Next]_vars => WithinCapacity(largest)'
  BY CapacityStep
<1>3. TypeOK /\ WithinCapacity(largest) => NoWrap
  BY DEF TypeOK, WithinCapacity, NoWrap
<1> QED
  BY <1>1, <1>2, <1>3, TypeCorrect, PTL DEF Spec

(* Within its capacity, an allocator implements OIDService without a condition. *)
COROLLARY ServiceWithinCapacity ==
  ASSUME NEW CONSTANT largest, FitsCapacity(largest)
  PROVE  Spec => Service!Spec
<1>1. Spec => []NoWrap
  BY NoReservationWraps
<1> QED
  BY <1>1, ImplementsService, PTL

=============================================================================
