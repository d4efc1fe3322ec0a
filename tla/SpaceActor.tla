----------------------------- MODULE SpaceActor -----------------------------
(***************************************************************************)
(* The actor that owns a Space: a persistent actor whose state is the      *)
(* Space's Things.  A request is checked and its result computed from the  *)
(* state at hand (currentState, or enhancedState: the same with the drafts *)
(* on top); some then wait for an OID or for the publication actor, with   *)
(* the state they captured, while the actor goes on with other messages.   *)
(*                                                                         *)
(* persist() keeps other messages waiting until its handler has run, so a  *)
(* persist and its handler are one step here.  Requests that are refused   *)
(* (permissions, names, unknown Things) change nothing and are left out.   *)
(***************************************************************************)
EXTENDS InPublicationState, FiniteSets

CONSTANTS
  Publishable,        \* the Things whose Model is Publishable
  SnapshotInterval,   \* querki.space.snapshotInterval
  Patient,            \* do clients wait until a Space that recovered is ready?
  MaxRequests,        \* bounds
  MaxCrashes

ASSUME PublishableAssumption == Publishable \subseteq Thing
ASSUME SnapshotIntervalAssumption == SnapshotInterval \in Nat
ASSUME PatientAssumption == Patient \in BOOLEAN
ASSUME BoundsAssumption == MaxRequests \in Nat /\ MaxCrashes \in Nat

VARIABLES
  up,
  currentState,
  readying,           \* the states captured by readyState, if it is under way
  pubState,           \* the drafts, as far as this actor knows
  pending,            \* client -> its request that waits for an answer
  snapshotCounter,
  stored,             \* what a recovery would rebuild
  saving,             \* the same, were a snapshot under way to be stored
  issued,             \* the OIDs the allocator has given
  deleted,            \* history: the Things somebody asked to delete
  since,              \* history: the Things that changed since each request that waits
                      \* (and readyState: Nobody) captured its state
  overwritten,        \* history: the Things that a state captured earlier overwrote
  outdated,           \* history: does pubState come from a reply that was late?
  requests, crashes   \* counts, for the bounds

spaceVars == <<up, currentState, readying, pubState, pending, snapshotCounter, stored,
               saving, issued, deleted, since, overwritten, outdated, requests, crashes>>
vars == <<publicationVars, spaceVars>>

Nothing == [t \in Thing |-> Absent]
NoDrafts == [t \in Thing |-> NoDraft]
NoThing == CHOOSE t \in Thing : TRUE     \* fills a field that is not used
Idle == [type |-> "idle", thing |-> NoThing, value |-> Absent, pub |-> FALSE, base |-> Nothing]

Pending == [type : {"idle", "create", "draft", "deleteDraft", "publish"},
            thing : Thing, value : Value \union {Absent}, pub : BOOLEAN, base : Content]

TypeOK ==
  /\ PublicationTypeOK
  /\ up \in BOOLEAN
  /\ currentState \in Content
  /\ readying \subseteq Content /\ Cardinality(readying) <= 1
  /\ pubState \in Drafts
  /\ pending \in [Client -> Pending]
  /\ snapshotCounter \in 0 .. SnapshotInterval + 1
  /\ stored \in Content
  /\ saving \in Seq(Content)
  /\ issued \subseteq Thing
  /\ deleted \subseteq Thing
  /\ since \in [Client \union {Nobody} -> SUBSET Thing]
  /\ overwritten \subseteq Thing
  /\ outdated \in BOOLEAN
  /\ requests \in 0 .. MaxRequests
  /\ crashes \in 0 .. MaxCrashes

Init ==
  /\ PublicationInit
  /\ up = FALSE
  /\ currentState = Nothing
  /\ readying = {}
  /\ pubState = NoDrafts
  /\ pending = [c \in Client |-> Idle]
  /\ snapshotCounter = 0
  /\ stored = Nothing
  /\ saving = <<>>
  /\ issued = {}
  /\ deleted = {}
  /\ since = [d \in Client \union {Nobody} |-> {}]
  /\ overwritten = {}
  /\ outdated = FALSE
  /\ requests = 0
  /\ crashes = 0

-----------------------------------------------------------------------------
enhancedState == EnhanceState(currentState, pubState)

isPublishable(t) == t \in Publishable /\ enhancedState[t] # Absent

(* createPure, modifyPure and deletePure, on a state that was checked before. *)
Changed(state, e) == [state EXCEPT ![e.thing] = e.value]

(* evolveState, in a recovery: the modification of a Thing that is not there *)
(* is passed over.                                                           *)
Evolve(state, e) == IF e.kind = "modify" /\ state[e.thing] = Absent THEN state ELSE Changed(state, e)

Waits(d) == IF d = Nobody THEN readying # {} ELSE pending[d].type # "idle"

(* The current state changes, to one made of a state captured earlier: late *)
(* are the Things that have changed since then, and change back.            *)
Moves(late) ==
  LET moved == {t \in Thing : currentState'[t] # currentState[t]} IN
  /\ since' = [d \in DOMAIN since |-> IF Waits(d) THEN since[d] \union moved ELSE {}]
  /\ overwritten' = overwritten \union late

SnapsWithoutReset(e, state) ==      \* mutant: doSaveSnapshot leaves the counter
  LET images == [i \in DOMAIN saving |-> Evolve(saving[i], e)] IN
  /\ snapshotCounter' = snapshotCounter + 1
  /\ saving' = IF snapshotCounter > SnapshotInterval THEN Append(images, state) ELSE images

Snaps(e, state) ==
  LET images == [i \in DOMAIN saving |-> Evolve(saving[i], e)] IN
  IF snapshotCounter > SnapshotInterval
    THEN snapshotCounter' = 0 /\ saving' = Append(images, state)
    ELSE snapshotCounter' = snapshotCounter + 1 /\ saving' = images

PersistSnappingFirst(e, base, late) ==      \* mutant: checkSnapshot before updateState
  /\ stored' = Evolve(stored, e)
  /\ currentState' = Changed(base, e)
  /\ Snaps(e, currentState)
  /\ Moves(late)

(***************************************************************************)
(* runChanges of one change to base: persist the event, make the result    *)
(* the current state, and take a snapshot of it now and then.              *)
(***************************************************************************)
Persist(e, base, late) ==
  /\ stored' = Evolve(stored, e)
  /\ currentState' = Changed(base, e)
  /\ Snaps(e, currentState')
  /\ Moves(late)

StaysAsItIs == UNCHANGED <<stored, currentState, saving, snapshotCounter, overwritten>>

NoChange == StaysAsItIs /\ UNCHANGED since

(* The request of c goes on later with a state of now. *)
Captures(c) == StaysAsItIs /\ since' = [since EXCEPT ![c] = {}]

(* Sends a message to the publication actor, and remembers what to go on with. *)
AskPublication(c, type, e, next) ==
  /\ pubInbox' = Append(pubInbox, [type |-> type, event |-> e, client |-> c])
  /\ pending' = [pending EXCEPT ![c] = next]
  /\ UNCHANGED <<pState, replies, notices>>

-----------------------------------------------------------------------------
(* Requests. *)

Receive(c) ==
  /\ up
  /\ Patient => readying = {}
  /\ pending[c].type = "idle"
  /\ requests < MaxRequests
  /\ requests' = requests + 1
  /\ UNCHANGED <<up, readying, pubState, outdated, issued, crashes>>

CreateThingFromEnhanced(c, value, pub) ==      \* mutant: always from enhancedState
  /\ Receive(c)
  /\ pending' = [pending EXCEPT ![c] =
       [type |-> "create", thing |-> NoThing, value |-> value, pub |-> pub,
        base |-> enhancedState]]
  /\ Captures(c)
  /\ UNCHANGED <<publicationVars, deleted>>

(* CreateThing, up to allocThingId; pub: its Model is Publishable. *)
CreateThing(c, value, pub) ==
  /\ Receive(c)
  /\ pending' = [pending EXCEPT ![c] =
       [type |-> "create", thing |-> NoThing, value |-> value, pub |-> pub,
        base |-> IF pub THEN enhancedState ELSE currentState]]
  /\ Captures(c)
  /\ UNCHANGED <<publicationVars, deleted>>

(* ModifyThing, and ChangeProps that does not publish. *)
ModifyThing(c, t, value) ==
  /\ Receive(c)
  /\ IF isPublishable(t)
       THEN /\ AskPublication(c, "AddPublicationEvents", EventOf("modify", t, value),
                 [Idle EXCEPT !.type = "draft", !.thing = t])
            /\ NoChange
       ELSE /\ currentState[t] # Absent
            /\ Persist(EventOf("modify", t, value), currentState, {})
            /\ UNCHANGED <<pending, publicationVars>>
  /\ UNCHANGED deleted

(* ChangeProps that publishes: the draft is to be created or slammed in the  *)
(* Space (the result is computed now) once the publication actor dropped it. *)
Publish(c, t) ==
  /\ Receive(c)
  /\ isPublishable(t)
  /\ AskPublication(c, "ThingPublished", EventOf("delete", t, Absent),
       [type |-> "publish", thing |-> t, value |-> enhancedState[t], pub |-> FALSE,
        base |-> currentState])
  /\ Captures(c)
  /\ UNCHANGED deleted

DeleteThing(c, t) ==
  /\ Receive(c)
  /\ deleted' = deleted \union {t}
  /\ IF isPublishable(t)
       THEN /\ AskPublication(c, "AddPublicationEvents", EventOf("delete", t, Absent),
                 [Idle EXCEPT !.type = "deleteDraft", !.thing = t])
            /\ NoChange
       ELSE /\ currentState[t] # Absent
            /\ Persist(EventOf("delete", t, Absent), currentState, {})
            /\ UNCHANGED <<pending, publicationVars>>

-----------------------------------------------------------------------------
(* Answers to what the requests wait for. *)

(* NewOID: the rest of doCreate.  The allocator never gives an OID twice. *)
OIDArrives(c) ==
  /\ pending[c].type = "create"
  /\ \E t \in Thing \ issued :
       /\ (t \in Publishable) = pending[c].pub
       /\ issued' = issued \union {t}
       /\ IF pending[c].pub
            THEN /\ AskPublication(c, "AddPublicationEvents",
                      EventOf("create", t, pending[c].value),
                      [Idle EXCEPT !.type = "draft", !.thing = t])
                 /\ NoChange
            ELSE /\ Persist(EventOf("create", t, pending[c].value), pending[c].base, since[c])
                 /\ pending' = [pending EXCEPT ![c] = Idle]
                 /\ UNCHANGED publicationVars
  /\ UNCHANGED <<up, readying, pubState, outdated, deleted, requests, crashes>>

(* What the publication actor replied. *)
TakeReply(c, type) ==
  /\ pending[c].type = type
  /\ \E r \in replies :
       /\ r.client = c
       /\ replies' = replies \ {r}
       /\ IF type = "publish" THEN UNCHANGED <<pubState, outdated>>
          ELSE pubState' = r.state /\ outdated' = r.late
  /\ pending' = [pending EXCEPT ![c] = Idle]
  /\ UNCHANGED <<up, readying, issued, deleted, requests, crashes, pState, pubInbox, notices>>

DraftChanged(c) == TakeReply(c, "draft") /\ NoChange

(* The draft is deleted; so is the Thing in the Space, if it is there. *)
DraftDeleted(c) ==
  /\ TakeReply(c, "deleteDraft")
  /\ LET t == pending[c].thing IN
     IF currentState[t] = Absent THEN NoChange
     ELSE Persist(EventOf("delete", t, Absent), currentState, {})

(* PublishedAck *)
DraftPublished(c) ==
  /\ TakeReply(c, "publish")
  /\ LET t == pending[c].thing
         base == pending[c].base
         kind == IF base[t] = Absent THEN "create" ELSE "modify"
     IN Persist(EventOf(kind, t, pending[c].value), base, since[c])

(* An ask timed out: the client is told of an error, and the answer, should it *)
(* come, is for nobody.                                                        *)
RequestTimesOut(c) ==
  /\ pending[c].type # "idle"
  /\ pending' = [pending EXCEPT ![c] = Idle]
  /\ pubInbox' = [i \in DOMAIN pubInbox |->
       IF pubInbox[i].client = c THEN [pubInbox[i] EXCEPT !.client = Nobody] ELSE pubInbox[i]]
  /\ replies' = {r \in replies : r.client # c}
  /\ UNCHANGED <<pState, notices, up, currentState, readying, pubState, snapshotCounter, stored,
                 saving, issued, deleted, since, overwritten, outdated, requests, crashes>>

(* CurrentPublicationState, by way of the router. *)
HearOfDrafts ==
  /\ up
  /\ notices # <<>>
  /\ pubState' = Head(notices)
  /\ notices' = Tail(notices)
  /\ outdated' = FALSE
  /\ UNCHANGED <<up, currentState, readying, pending, snapshotCounter, stored, saving, issued,
                 deleted, since, overwritten, requests, crashes, pState, pubInbox, replies>>

-----------------------------------------------------------------------------
(* Crash and recovery. *)

SnapshotSaved(i) ==
  /\ stored' = saving[i]
  /\ saving' = SubSeq(saving, i + 1, Len(saving))
  /\ UNCHANGED <<up, currentState, readying, pubState, pending, snapshotCounter, issued, deleted,
                 since, overwritten, outdated, requests, crashes, publicationVars>>

(* The Space's actors die together, with all that is under way between them. *)
Crash ==
  /\ up
  /\ crashes < MaxCrashes
  /\ crashes' = crashes + 1
  /\ up' = FALSE
  /\ currentState' = Nothing
  /\ readying' = {}
  /\ pubState' = NoDrafts
  /\ pending' = [c \in Client |-> Idle]
  /\ snapshotCounter' = 0
  /\ saving' = <<>>
  /\ since' = [d \in DOMAIN since |-> {}]
  /\ overwritten' = {}
  /\ outdated' = FALSE
  /\ PublicationDies
  /\ UNCHANGED <<stored, issued, deleted, requests>>

(* RecoveryCompleted: the state that was rebuilt lacks the owner's identity. *)
Recover ==
  /\ ~up
  /\ up' = TRUE
  /\ currentState' = stored
  /\ readying' = {stored}
  /\ \E count \in 0 .. SnapshotInterval + 1 : snapshotCounter' = count
  /\ PublicationRecovers
  /\ since' = [since EXCEPT ![Nobody] = {}]
  /\ UNCHANGED <<pubState, pending, stored, saving, issued, deleted, overwritten, outdated, requests,
                 crashes>>

(* readyState goes on: the captured state, with the identity, is the state. *)
Ready ==
  /\ readying # {}
  /\ currentState' \in readying
  /\ readying' = {}
  /\ Moves(since[Nobody])
  /\ UNCHANGED <<up, pubState, pending, snapshotCounter, stored, saving, issued, deleted, outdated,
                 requests, crashes, publicationVars>>

-----------------------------------------------------------------------------
Next ==
  \/ \E c \in Client :
       \/ \E value \in Value, pub \in BOOLEAN : CreateThing(c, value, pub)
       \/ \E t \in Thing : \/ \E value \in Value : ModifyThing(c, t, value)
                           \/ Publish(c, t)
                           \/ DeleteThing(c, t)
       \/ OIDArrives(c)
       \/ DraftChanged(c)
       \/ DraftDeleted(c)
       \/ DraftPublished(c)
       \/ RequestTimesOut(c)
  \/ (AddPublicationEvents \/ ThingPublished) /\ UNCHANGED spaceVars
  \/ HearOfDrafts
  \/ \E i \in DOMAIN saving : SnapshotSaved(i)
  \/ Crash
  \/ Recover
  \/ Ready

Spec == Init /\ [][Next]_vars

-----------------------------------------------------------------------------
(* Properties. *)

(* History replays properly: the Space that a recovery would rebuild is the *)
(* Space its users see, no event is missing from either.                    *)
MemoryIsHistory == up => currentState = stored

(* However requests overlap, with each other and with readyState, the two   *)
(* differ only about Things that somebody changed while a state captured    *)
(* before was waiting to go on: nothing else gets lost, and a crash heals   *)
(* the difference.                                                          *)
MemoryKeepsUp == up => \A t \in Thing \ overwritten : currentState[t] = stored[t]

(* A snapshot that replaces the history, however late it is stored, says *)
(* the same as the history, but for the Things that were overwritten.    *)
SnapshotsKeepUp ==
  \A i \in DOMAIN saving : \A t \in Thing \ overwritten : saving[i][t] = stored[t]

(* When nothing is under way the Space knows its drafts as they are, unless *)
(* the last that it took was a reply made before another change.            *)
Quiet ==
  /\ up
  /\ \A c \in Client : pending[c].type = "idle"
  /\ pubInbox = <<>> /\ notices = <<>>
DraftsAreKnown == Quiet /\ ~outdated => pubState = pState

(* What is in the Space's history stays there, whatever requests, snapshots *)
(* and recoveries come to pass, until somebody deletes it; only a Thing     *)
(* that was overwritten in memory can go, with a snapshot of that memory.   *)
ThingsAreKept ==
  [][\A t \in Thing :
       stored[t] # Absent /\ stored'[t] = Absent => t \in deleted' \union overwritten']_vars

=============================================================================
