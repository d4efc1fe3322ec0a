-------------------------- MODULE SpaceActor_proofs --------------------------
(***************************************************************************)
(* For every set of Things, values and clients, every interval of the      *)
(* snapshots and every number of requests and crashes, and whether or not  *)
(* clients wait for a Space that recovers: the Space, its history, its     *)
(* snapshots and its drafts agree, but for what a state captured earlier   *)
(* overwrote.                                                              *)
(***************************************************************************)
EXTENDS SpaceActor, FiniteSetTheorems, TLAPS

(* Memory and snapshots keep up with history; while the Space is down *)
(* nothing waits.                                                     *)
MemoryInStep ==
  /\ MemoryKeepsUp
  /\ SnapshotsKeepUp
  /\ ~up => readying = {} /\ \A c \in Client : pending[c].type = "idle"

(***************************************************************************)
(* What a request that waits is about to do is what was asked for; and a   *)
(* state that was captured is the current one, but for what changed since. *)
(***************************************************************************)
CapturesInStep ==
  /\ \A c \in Client :
       /\ pending[c].type \in {"create", "publish"} => pending[c].value # Absent
       /\ pending[c].type = "publish" \/ (pending[c].type = "create" /\ ~pending[c].pub)
          => \A t \in Thing \ since[c] : pending[c].base[t] = currentState[t]
       /\ pending[c].type = "deleteDraft" => pending[c].thing \in deleted
  /\ \A state \in readying : \A t \in Thing \ since[Nobody] : state[t] = currentState[t]

(***************************************************************************)
(* A reply that is not late is still true when it comes; and so is the     *)
(* last of the notices that the Space has not heard.                       *)
(***************************************************************************)
DraftsInStep ==
  /\ \A r \in replies : ~r.late => r.state = pState
  /\ IF notices = <<>> THEN up /\ ~outdated => pubState = pState
     ELSE notices[Len(notices)] = pState

IInv == TypeOK /\ MemoryInStep /\ CapturesInStep /\ DraftsInStep

-----------------------------------------------------------------------------
(* Types. *)

LEMMA ContentTypes ==
  ASSUME TypeOK
  PROVE  /\ NoThing \in Thing /\ Idle \in Pending
         /\ Nothing \in Content /\ NoDrafts \in Drafts
         /\ enhancedState \in Content
<1> USE DEF Content, Drafts, Draft, NoDraft
<1>1. NoThing \in Thing
  BY ThingAssumption DEF NoThing
<1>2. Nothing \in Content /\ NoDrafts \in Drafts
  BY DEF Nothing, NoDrafts
<1>3. Idle \in Pending
  BY <1>1, <1>2 DEF Idle, Pending
<1>4. enhancedState \in Content
  <2>1. currentState \in Content /\ pubState \in Drafts
    BY DEF TypeOK
  <2>2. \A t \in Thing : currentState[t] \in Value \union {Absent}
                         /\ pubState[t].value \in Value \union {Absent}
    BY <2>1
  <2> QED BY <2>2 DEF enhancedState, EnhanceState
<1> QED BY <1>1, <1>2, <1>3, <1>4

LEMMA EventTypes ==
  ASSUME NEW kind \in {"create", "modify", "delete"}, NEW t \in Thing,
         NEW value \in Value \union {Absent}
  PROVE  /\ EventOf(kind, t, value) \in Event
         /\ EventOf(kind, t, value).kind = kind
         /\ EventOf(kind, t, value).thing = t
         /\ EventOf(kind, t, value).value = value
BY DEF EventOf, Event

LEMMA AddEventType ==
  ASSUME NEW drafts \in Drafts, NEW e \in Event
  PROVE  AddEvent(drafts, e) \in Drafts
<1>1. \A t \in Thing : drafts[t] \in Draft
  BY DEF Drafts
<1>2. e.thing \in Thing /\ e.kind \in {"create", "modify", "delete"}
        /\ e.value \in Value \union {Absent}
  BY DEF Event
<1>3. NoDraft \in Draft
  BY DEF NoDraft, Draft
<1>4. [creates |-> drafts[e.thing].creates \/ e.kind = "create", value |-> e.value] \in Draft
  BY <1>2 DEF Draft
<1> QED BY <1>1, <1>2, <1>3, <1>4 DEF AddEvent, Drafts

LEMMA EvolveType ==
  ASSUME NEW state \in Content, NEW e \in Event
  PROVE  Evolve(state, e) \in Content /\ Changed(state, e) \in Content
BY DEF Evolve, Changed, Content, Event

LEMMA MovesTypes ==
  ASSUME TypeOK, NEW late \in SUBSET Thing, Moves(late)
  PROVE  since' \in [Client \union {Nobody} -> SUBSET Thing] /\ overwritten' \subseteq Thing
<1>1. PICK moved : /\ moved = {t \in Thing : currentState'[t] # currentState[t]}
                   /\ since' = [d \in DOMAIN since |-> IF Waits(d) THEN since[d] \union moved ELSE {}]
                   /\ overwritten' = overwritten \union late
  BY DEF Moves
<1> QED BY <1>1 DEF TypeOK

(* What a persist does, whatever state the change is made to. *)
LEMMA PersistTypes ==
  ASSUME TypeOK, NEW e \in Event, NEW base \in Content, NEW late \in SUBSET Thing,
         Persist(e, base, late)
  PROVE  /\ stored' \in Content /\ currentState' \in Content
         /\ saving' \in Seq(Content)
         /\ snapshotCounter' \in 0 .. SnapshotInterval + 1
         /\ since' \in [Client \union {Nobody} -> SUBSET Thing]
         /\ overwritten' \subseteq Thing
<1>1. stored' \in Content /\ currentState' \in Content
  BY EvolveType DEF Persist, TypeOK
<1>2. PICK images : images = [i \in DOMAIN saving |-> Evolve(saving[i], e)]
  OBVIOUS
<1>3. images \in Seq(Content)
  <2>1. saving \in Seq(Content)
    BY DEF TypeOK
  <2>2. \A i \in 1 .. Len(saving) : saving[i] \in Content /\ Evolve(saving[i], e) \in Content
    BY <2>1, EvolveType
  <2>3. DOMAIN saving = 1 .. Len(saving) /\ Len(saving) \in Nat
    BY <2>1
  <2> QED BY <1>2, <2>2, <2>3
<1>4. saving' = images \/ saving' = Append(images, currentState')
  BY <1>2 DEF Persist, Snaps
<1>5. saving' \in Seq(Content)
  BY <1>1, <1>3, <1>4
<1>6. snapshotCounter' \in 0 .. SnapshotInterval + 1
  <2>1. snapshotCounter \in 0 .. SnapshotInterval + 1
    BY DEF TypeOK
  <2>2. snapshotCounter' = IF snapshotCounter > SnapshotInterval THEN 0 ELSE snapshotCounter + 1
    BY DEF Persist, Snaps
  <2> QED BY <2>1, <2>2, SnapshotIntervalAssumption
<1> QED BY <1>1, <1>5, <1>6, MovesTypes DEF Persist

(***************************************************************************)
(* A persist of a change to a state that was captured: nothing but what    *)
(* changed since then is lost, from memory or from a snapshot.             *)
(***************************************************************************)
LEMMA PersistKeeps ==
  ASSUME TypeOK, NEW e \in Event, NEW base \in Content, NEW late \in SUBSET Thing,
         Persist(e, base, late), up, MemoryKeepsUp, SnapshotsKeepUp,
         \A t \in Thing \ late : base[t] = currentState[t],
         e.kind = "modify" => base[e.thing] # Absent
  PROVE  /\ \A t \in Thing \ overwritten' : currentState'[t] = stored'[t]
         /\ SnapshotsKeepUp'
         /\ \A t \in Thing : stored[t] # Absent /\ stored'[t] = Absent
                               => t = e.thing /\ e.value = Absent
<1>1. /\ stored' = Evolve(stored, e) /\ currentState' = Changed(base, e)
      /\ overwritten' = overwritten \union late
  BY DEF Persist, Moves
<1>2. e.thing \in Thing /\ e.value \in Value \union {Absent}
  BY DEF Event
<1>3. stored \in Content /\ currentState \in Content /\ saving \in Seq(Content)
        /\ DOMAIN saving = 1 .. Len(saving) /\ Len(saving) \in Nat
  BY DEF TypeOK
<1>4. stored' \in Content /\ currentState' \in Content
  BY PersistTypes
<1>5. ASSUME NEW t \in Thing \ overwritten'
      PROVE  currentState'[t] = stored'[t]
  <2>1. base[t] = stored[t]
    BY <1>1, <1>5 DEF MemoryKeepsUp
  <2> QED BY <1>1, <1>2, <1>3, <2>1 DEF Evolve, Changed, Content
<1>6. ASSUME NEW i \in 1 .. Len(saving), NEW t \in Thing \ overwritten'
      PROVE  Evolve(saving[i], e)[t] = stored'[t]
  <2>1. saving[i] \in Content /\ saving[i][t] = stored[t]
    BY <1>1, <1>3 DEF SnapshotsKeepUp
  <2> QED BY <1>1, <1>2, <1>3, <2>1 DEF Evolve, Changed, Content
<1>7. SnapshotsKeepUp'
  <2>1. PICK images : images = [i \in DOMAIN saving |-> Evolve(saving[i], e)]
    OBVIOUS
  <2>2. saving' = images \/ saving' = Append(images, currentState')
    BY <2>1 DEF Persist, Snaps
  <2>3. images \in Seq(Content) /\ Len(images) = Len(saving)
    <3>1. \A i \in 1 .. Len(saving) : Evolve(saving[i], e) \in Content
      BY <1>3, EvolveType
    <3> QED BY <1>3, <2>1, <3>1
  <2>4. \A i \in 1 .. Len(images) : \A t \in Thing \ overwritten' : images[i][t] = stored'[t]
    BY <1>3, <1>6, <2>1, <2>3
  <2>5. CASE saving' = images
    BY <2>3, <2>4, <2>5 DEF SnapshotsKeepUp
  <2>6. CASE saving' = Append(images, currentState')
    <3>1. /\ DOMAIN saving' = 1 .. Len(images) + 1
          /\ saving'[Len(images) + 1] = currentState'
          /\ \A i \in 1 .. Len(images) : saving'[i] = images[i]
      BY <1>4, <2>3, <2>6
    <3>2. \A i \in 1 .. Len(images) + 1 : i = Len(images) + 1 \/ i \in 1 .. Len(images)
      BY <1>3, <2>3
    <3> QED BY <1>5, <2>4, <3>1, <3>2 DEF SnapshotsKeepUp
  <2> QED BY <2>2, <2>5, <2>6
<1>8. \A t \in Thing : stored[t] # Absent /\ stored'[t] = Absent => t = e.thing /\ e.value = Absent
  BY <1>1, <1>3 DEF Evolve, Changed, Content
<1> QED BY <1>5, <1>7, <1>8

LEMMA AskTypes ==
  ASSUME TypeOK, NEW c \in Client, NEW type \in {"AddPublicationEvents", "ThingPublished"},
         NEW e \in Event, NEW next \in Pending, AskPublication(c, type, e, next)
  PROVE  PublicationTypeOK' /\ pending' \in [Client -> Pending]
<1>1. pubInbox' \in Seq(Message)
  <2>1. [type |-> type, event |-> e, client |-> c] \in Message
    BY DEF Message
  <2>2. pubInbox \in Seq(Message)
    BY DEF TypeOK, PublicationTypeOK
  <2> QED BY <2>1, <2>2 DEF AskPublication
<1>2. pending' \in [Client -> Pending]
  BY DEF AskPublication, TypeOK
<1> QED BY <1>1, <1>2 DEF AskPublication, TypeOK, PublicationTypeOK

LEMMA NoChangeTypes ==
  ASSUME TypeOK, NoChange \/ \E c \in Client : Captures(c)
  PROVE  /\ stored' \in Content /\ currentState' \in Content
         /\ saving' \in Seq(Content)
         /\ snapshotCounter' \in 0 .. SnapshotInterval + 1
         /\ since' \in [Client \union {Nobody} -> SUBSET Thing]
         /\ overwritten' \subseteq Thing
BY DEF NoChange, Captures, StaysAsItIs, TypeOK

(* What a request may be, when it starts to wait. *)
LEMMA PendingTypes ==
  ASSUME TypeOK, NEW t \in Thing, NEW type \in {"draft", "deleteDraft"}
  PROVE  [Idle EXCEPT !.type = type, !.thing = t] \in Pending
<1>1. PICK first : first = [Idle EXCEPT !.type = type]
  OBVIOUS
<1>2. first \in Pending
  BY <1>1, ContentTypes DEF Pending
<1>3. [first EXCEPT !.thing = t] \in Pending
  BY <1>2 DEF Pending
<1> QED BY <1>1, <1>3

(* The messages that the publication actor reads, and its answers. *)
LEMMA PublicationTypes ==
  ASSUME TypeOK, AddPublicationEvents \/ ThingPublished
  PROVE  PublicationTypeOK'
<1>1. pubInbox \in Seq(Message) /\ pubInbox # <<>> /\ pState \in Drafts /\ notices \in Seq(Drafts)
        /\ replies \subseteq Reply
  BY DEF TypeOK, PublicationTypeOK, AddPublicationEvents, ThingPublished
<1>2. Head(pubInbox) \in Message /\ Tail(pubInbox) \in Seq(Message)
  BY <1>1
<1>3. PICK state : state = AddEvent(pState, Head(pubInbox).event)
  OBVIOUS
<1>4. state \in Drafts
  BY <1>1, <1>2, <1>3, AddEventType DEF Message
<1>5. pState' = state /\ notices' = Append(notices, state) /\ Respond(state)
  BY <1>3 DEF AddPublicationEvents, ThingPublished, SetState
<1>6. pubInbox' \in Seq(Message) /\ replies' \subseteq Reply
  <2>1. PICK c : /\ c = Head(pubInbox).client /\ pubInbox' = Tail(pubInbox)
                 /\ replies' = {[r EXCEPT !.late = TRUE] : r \in replies} \union
                      (IF c = Nobody THEN {} ELSE {[client |-> c, state |-> state, late |-> FALSE]})
    BY <1>5 DEF Respond
  <2>2. c \in Client \union {Nobody}
    BY <1>2, <2>1 DEF Message
  <2>3. \A r \in Reply : [r EXCEPT !.late = TRUE] \in Reply
    BY DEF Reply
  <2>4. c # Nobody => [client |-> c, state |-> state, late |-> FALSE] \in Reply
    BY <1>4, <2>2 DEF Reply
  <2> QED BY <1>1, <1>2, <2>1, <2>3, <2>4
<1> QED BY <1>1, <1>4, <1>5, <1>6 DEF PublicationTypeOK

LEMMA ReplyTypes ==
  ASSUME TypeOK, NEW c \in Client, NEW type \in {"draft", "deleteDraft", "publish"},
         TakeReply(c, type)
  PROVE  /\ PublicationTypeOK' /\ pending' \in [Client -> Pending] /\ pubState' \in Drafts
         /\ outdated' \in BOOLEAN
<1>1. PICK r \in replies : r.client = c /\ replies' = replies \ {r}
                           /\ IF type = "publish" THEN UNCHANGED <<pubState, outdated>>
                              ELSE pubState' = r.state /\ outdated' = r.late
  BY DEF TakeReply
<1>2. r.state \in Drafts /\ r.late \in BOOLEAN
  BY DEF TypeOK, PublicationTypeOK, Reply
<1>3. PublicationTypeOK'
  BY <1>1 DEF TypeOK, PublicationTypeOK, TakeReply
<1> QED BY <1>1, <1>2, <1>3, ContentTypes DEF TypeOK, TakeReply

LEMMA RequestType ==
  ASSUME TypeOK, NEW c \in Client, Receive(c)
  PROVE  requests' \in 0 .. MaxRequests
BY BoundsAssumption DEF Receive, TypeOK

(* The requests. *)
LEMMA RequestTypes ==
  ASSUME TypeOK, NEW c \in Client, NEW t \in Thing, NEW value \in Value \union {Absent},
         NEW pub \in BOOLEAN,
         CreateThing(c, value, pub) \/ ModifyThing(c, t, value) \/ Publish(c, t) \/ DeleteThing(c, t)
  PROVE  TypeOK'
<1> USE DEF TypeOK
<1>1. Receive(c)
  BY DEF CreateThing, ModifyThing, Publish, DeleteThing
<1>2. /\ requests' \in 0 .. MaxRequests
      /\ UNCHANGED <<up, readying, pubState, outdated, issued, crashes>>
  BY <1>1, RequestType DEF Receive
<1>3. currentState \in Content /\ enhancedState \in Content /\ Idle \in Pending
  BY ContentTypes
<1>4. CASE CreateThing(c, value, pub)
  <2>1. PICK base : base = IF pub THEN enhancedState ELSE currentState
    OBVIOUS
  <2>2. [type |-> "create", thing |-> NoThing, value |-> value, pub |-> pub, base |-> base] \in Pending
    BY <1>3, <2>1, ContentTypes DEF Pending
  <2>3. pending' \in [Client -> Pending]
    BY <1>4, <2>1, <2>2 DEF CreateThing
  <2>4. PublicationTypeOK'
    BY <1>4 DEF CreateThing, publicationVars, PublicationTypeOK
  <2> QED BY <1>2, <1>4, <2>3, <2>4, NoChangeTypes DEF CreateThing
<1>5. CASE ModifyThing(c, t, value)
  <2>1. EventOf("modify", t, value) \in Event
    BY EventTypes
  <2>2. CASE isPublishable(t)
    <3>1. PICK next : next = [Idle EXCEPT !.type = "draft", !.thing = t]
      OBVIOUS
    <3>2. next \in Pending
      BY <3>1, PendingTypes
    <3>3. AskPublication(c, "AddPublicationEvents", EventOf("modify", t, value), next) /\ NoChange
      BY <1>5, <2>2, <3>1 DEF ModifyThing
    <3> QED BY <1>2, <1>5, <2>1, <3>2, <3>3, AskTypes, NoChangeTypes DEF ModifyThing
  <2>3. CASE ~isPublishable(t)
    <3>1. /\ Persist(EventOf("modify", t, value), currentState, {})
          /\ UNCHANGED <<pending, deleted, publicationVars>>
      BY <1>5, <2>3 DEF ModifyThing
    <3>2. /\ stored' \in Content /\ currentState' \in Content /\ saving' \in Seq(Content)
          /\ snapshotCounter' \in 0 .. SnapshotInterval + 1
          /\ since' \in [Client \union {Nobody} -> SUBSET Thing] /\ overwritten' \subseteq Thing
      BY <1>3, <2>1, <3>1, PersistTypes
    <3>3. PublicationTypeOK'
      BY <3>1 DEF publicationVars, PublicationTypeOK
    <3> QED BY <1>2, <3>1, <3>2, <3>3
  <2> QED BY <2>2, <2>3
<1>6. CASE Publish(c, t)
  <2>1. EventOf("delete", t, Absent) \in Event
    BY EventTypes
  <2>2. PICK next : next = [type |-> "publish", thing |-> t, value |-> enhancedState[t],
                            pub |-> FALSE, base |-> currentState]
    OBVIOUS
  <2>3. next \in Pending
    BY <1>3, <2>2 DEF Pending, Content
  <2>4. AskPublication(c, "ThingPublished", EventOf("delete", t, Absent), next)
    BY <1>6, <2>2 DEF Publish
  <2> QED BY <1>2, <1>6, <2>1, <2>3, <2>4, AskTypes, NoChangeTypes DEF Publish
<1>7. CASE DeleteThing(c, t)
  <2>1. EventOf("delete", t, Absent) \in Event
    BY EventTypes
  <2>2. deleted' \subseteq Thing
    BY <1>7 DEF DeleteThing
  <2>3. CASE isPublishable(t)
    <3>1. PICK next : next = [Idle EXCEPT !.type = "deleteDraft", !.thing = t]
      OBVIOUS
    <3>2. next \in Pending
      BY <3>1, PendingTypes
    <3>3. AskPublication(c, "AddPublicationEvents", EventOf("delete", t, Absent), next) /\ NoChange
      BY <1>7, <2>3, <3>1 DEF DeleteThing
    <3> QED BY <1>2, <2>1, <2>2, <3>2, <3>3, AskTypes, NoChangeTypes
  <2>4. CASE ~isPublishable(t)
    <3>1. /\ Persist(EventOf("delete", t, Absent), currentState, {})
          /\ UNCHANGED <<pending, publicationVars>>
      BY <1>7, <2>4 DEF DeleteThing
    <3>2. /\ stored' \in Content /\ currentState' \in Content /\ saving' \in Seq(Content)
          /\ snapshotCounter' \in 0 .. SnapshotInterval + 1
          /\ since' \in [Client \union {Nobody} -> SUBSET Thing] /\ overwritten' \subseteq Thing
      BY <1>3, <2>1, <3>1, PersistTypes
    <3>3. PublicationTypeOK'
      BY <3>1 DEF publicationVars, PublicationTypeOK
    <3> QED BY <1>2, <2>2, <3>1, <3>2, <3>3
  <2> QED BY <2>3, <2>4
<1> QED BY <1>4, <1>5, <1>6, <1>7

(* The answers that requests wait for. *)
LEMMA AnswerTypes ==
  ASSUME TypeOK, NEW c \in Client,
         OIDArrives(c) \/ DraftChanged(c) \/ DraftDeleted(c) \/ DraftPublished(c)
  PROVE  TypeOK'
<1> USE DEF TypeOK
<1>1. CASE OIDArrives(c)
  <2>1. pending[c].value \in Value \union {Absent} /\ pending[c].base \in Content
    BY DEF Pending
  <2>2. PICK t \in Thing \ issued :
          /\ issued' = issued \union {t}
          /\ IF pending[c].pub
             THEN /\ AskPublication(c, "AddPublicationEvents",
                       EventOf("create", t, pending[c].value),
                       [Idle EXCEPT !.type = "draft", !.thing = t])
                  /\ NoChange
             ELSE /\ Persist(EventOf("create", t, pending[c].value), pending[c].base, since[c])
                  /\ pending' = [pending EXCEPT ![c] = Idle]
                  /\ UNCHANGED publicationVars
    BY <1>1 DEF OIDArrives
  <2>3. EventOf("create", t, pending[c].value) \in Event
    BY <2>1, EventTypes
  <2>4. issued' \subseteq Thing /\ UNCHANGED <<up, readying, pubState, outdated, deleted, requests, crashes>>
    BY <1>1, <2>2 DEF OIDArrives
  <2>5. CASE pending[c].pub
    <3>1. PICK next : next = [Idle EXCEPT !.type = "draft", !.thing = t]
      OBVIOUS
    <3>2. next \in Pending
      BY <3>1, PendingTypes
    <3>3. AskPublication(c, "AddPublicationEvents", EventOf("create", t, pending[c].value), next)
            /\ NoChange
      BY <2>2, <2>5, <3>1
    <3> QED BY <2>3, <2>4, <3>2, <3>3, AskTypes, NoChangeTypes
  <2>6. CASE ~pending[c].pub
    <3>1. Persist(EventOf("create", t, pending[c].value), pending[c].base, since[c])
            /\ pending' = [pending EXCEPT ![c] = Idle] /\ UNCHANGED publicationVars
      BY <2>2, <2>6
    <3>2. pending' \in [Client -> Pending] /\ PublicationTypeOK'
      BY <3>1, ContentTypes DEF publicationVars, PublicationTypeOK
    <3>3. since[c] \in SUBSET Thing
      OBVIOUS
    <3>4. /\ stored' \in Content /\ currentState' \in Content /\ saving' \in Seq(Content)
          /\ snapshotCounter' \in 0 .. SnapshotInterval + 1
          /\ since' \in [Client \union {Nobody} -> SUBSET Thing] /\ overwritten' \subseteq Thing
      BY <2>1, <2>3, <3>1, <3>3, PersistTypes
    <3> QED BY <2>4, <3>2, <3>4
  <2> QED BY <2>5, <2>6
<1>2. CASE DraftChanged(c)
  <2>1. TakeReply(c, "draft") /\ NoChange
    BY <1>2 DEF DraftChanged
  <2> QED BY <2>1, ReplyTypes, NoChangeTypes DEF TakeReply
<1>3. CASE DraftDeleted(c)
  <2>1. TakeReply(c, "deleteDraft")
    BY <1>3 DEF DraftDeleted
  <2>2. EventOf("delete", pending[c].thing, Absent) \in Event
    BY EventTypes DEF Pending
  <2>3. NoChange \/ Persist(EventOf("delete", pending[c].thing, Absent), currentState, {})
    BY <1>3 DEF DraftDeleted
  <2>4. /\ stored' \in Content /\ currentState' \in Content /\ saving' \in Seq(Content)
        /\ snapshotCounter' \in 0 .. SnapshotInterval + 1
        /\ since' \in [Client \union {Nobody} -> SUBSET Thing] /\ overwritten' \subseteq Thing
    <3>1. {} \in SUBSET Thing /\ currentState \in Content
      OBVIOUS
    <3> QED BY <2>2, <2>3, <3>1, NoChangeTypes, PersistTypes
  <2> QED BY <2>1, <2>4, ReplyTypes DEF TakeReply
<1>4. CASE DraftPublished(c)
  <2>1. TakeReply(c, "publish")
    BY <1>4 DEF DraftPublished
  <2>2. PICK kind \in {"create", "modify"} :
          Persist(EventOf(kind, pending[c].thing, pending[c].value), pending[c].base, since[c])
    BY <1>4 DEF DraftPublished
  <2>3. /\ EventOf(kind, pending[c].thing, pending[c].value) \in Event
        /\ pending[c].base \in Content /\ since[c] \in SUBSET Thing
    BY EventTypes DEF Pending
  <2>4. /\ stored' \in Content /\ currentState' \in Content /\ saving' \in Seq(Content)
        /\ snapshotCounter' \in 0 .. SnapshotInterval + 1
        /\ since' \in [Client \union {Nobody} -> SUBSET Thing] /\ overwritten' \subseteq Thing
    BY <2>2, <2>3, PersistTypes
  <2> QED BY <2>1, <2>4, ReplyTypes DEF TakeReply
<1> QED BY <1>1, <1>2, <1>3, <1>4

LEMMA TimeOutTypes ==
  ASSUME TypeOK, NEW c \in Client, RequestTimesOut(c)
  PROVE  TypeOK'
<1> USE DEF TypeOK, PublicationTypeOK
<1>1. pubInbox' \in Seq(Message)
  <2>1. ASSUME NEW i \in 1 .. Len(pubInbox)
        PROVE  pubInbox[i] \in Message /\ [pubInbox[i] EXCEPT !.client = Nobody] \in Message
    <3>1. pubInbox[i] \in Message
      OBVIOUS
    <3> QED BY <3>1 DEF Message
  <2>2. DOMAIN pubInbox = 1 .. Len(pubInbox) /\ Len(pubInbox) \in Nat
    OBVIOUS
  <2>3. /\ pubInbox' = [i \in 1 .. Len(pubInbox) |-> pubInbox'[i]]
        /\ \A i \in 1 .. Len(pubInbox) : pubInbox'[i] \in Message
    BY <2>1, <2>2 DEF RequestTimesOut
  <2>4. Len(pubInbox) \in Nat
    OBVIOUS
  <2> HIDE DEF TypeOK, PublicationTypeOK
  <2> QED BY <2>3, <2>4
<1>2. pending' \in [Client -> Pending] /\ replies' \subseteq Reply
  BY ContentTypes DEF RequestTimesOut
<1> QED BY <1>1, <1>2 DEF RequestTimesOut

LEMMA HearTypes == TypeOK /\ HearOfDrafts => TypeOK'
<1> SUFFICES ASSUME TypeOK, HearOfDrafts PROVE TypeOK'
  OBVIOUS
<1> USE DEF TypeOK, PublicationTypeOK
<1>1. pubState' \in Drafts /\ notices' \in Seq(Drafts)
  BY DEF HearOfDrafts
<1> QED BY <1>1 DEF HearOfDrafts

LEMMA CrashTypes ==
  ASSUME TypeOK, Crash \/ Recover \/ Ready \/ \E i \in DOMAIN saving : SnapshotSaved(i)
  PROVE  TypeOK'
<1> USE DEF TypeOK, PublicationTypeOK
<1>1. CASE Crash
  <2>1. Cardinality({}) <= 1
    BY FS_EmptySet
  <2>2. crashes' \in 0 .. MaxCrashes
    BY <1>1, BoundsAssumption DEF Crash
  <2>3. snapshotCounter' \in 0 .. SnapshotInterval + 1 /\ saving' \in Seq(Content)
    BY <1>1, SnapshotIntervalAssumption DEF Crash
  <2>4. pubInbox' \in Seq(Message) /\ notices' \in Seq(Drafts)
    BY <1>1 DEF Crash, PublicationDies
  <2> QED BY <1>1, <2>1, <2>2, <2>3, <2>4, ContentTypes DEF Crash, PublicationDies
<1>2. CASE Recover
  <2>1. Cardinality({stored}) = 1
    BY FS_Singleton
  <2>2. notices' \in Seq(Drafts)
    BY <1>2 DEF Recover, PublicationRecovers
  <2> QED BY <1>2, <2>1, <2>2 DEF Recover, PublicationRecovers
<1>3. CASE Ready
  <2>1. Cardinality({}) <= 1
    BY FS_EmptySet
  <2>2. since[Nobody] \in SUBSET Thing /\ Moves(since[Nobody])
    BY <1>3 DEF Ready
  <2> QED BY <1>3, <2>1, <2>2, MovesTypes DEF Ready, publicationVars
<1>4. ASSUME NEW i \in DOMAIN saving, SnapshotSaved(i) PROVE TypeOK'
  <2>1. i \in 1 .. Len(saving) /\ Len(saving) \in Nat
    OBVIOUS
  <2>2. saving[i] \in Content /\ SubSeq(saving, i + 1, Len(saving)) \in Seq(Content)
    BY <2>1
  <2> QED BY <1>4, <2>2 DEF SnapshotSaved, publicationVars
<1> QED BY <1>1, <1>2, <1>3, <1>4

LEMMA InitTypes == Init => TypeOK
<1> SUFFICES ASSUME Init PROVE TypeOK
  OBVIOUS
<1>1. PublicationTypeOK
  BY DEF Init, PublicationInit, PublicationTypeOK, Drafts, Draft, NoDraft
<1>2. currentState = Nothing /\ stored = Nothing /\ pubState = NoDrafts
        /\ pending = [c \in Client |-> Idle]
  BY DEF Init
<1>3. /\ currentState \in Content /\ stored \in Content /\ pubState \in Drafts
      /\ pending \in [Client -> Pending]
  <2>1. Nothing \in Content /\ NoDrafts \in Drafts
    BY DEF Nothing, NoDrafts, Content, Drafts, Draft, NoDraft
  <2>2. Idle \in Pending
    BY <2>1, ThingAssumption DEF Idle, Pending, NoThing
  <2> QED BY <1>2, <2>1, <2>2
<1>4. Cardinality({}) <= 1
  BY FS_EmptySet
<1>5. 0 \in 0 .. SnapshotInterval + 1 /\ 0 \in 0 .. MaxRequests /\ 0 \in 0 .. MaxCrashes
  BY SnapshotIntervalAssumption, BoundsAssumption
<1>6. readying \subseteq Content /\ Cardinality(readying) <= 1 /\ saving \in Seq(Content)
  BY <1>4 DEF Init
<1>7. /\ up \in BOOLEAN /\ snapshotCounter \in 0 .. SnapshotInterval + 1
      /\ issued \subseteq Thing /\ deleted \subseteq Thing
      /\ since \in [Client \union {Nobody} -> SUBSET Thing] /\ overwritten \subseteq Thing
      /\ outdated \in BOOLEAN
      /\ requests \in 0 .. MaxRequests /\ crashes \in 0 .. MaxCrashes
  BY <1>5 DEF Init
<1> QED BY <1>1, <1>3, <1>6, <1>7 DEF TypeOK

LEMMA NextTypes == TypeOK /\ [Next]_vars => TypeOK'
<1> SUFFICES ASSUME TypeOK, [Next]_vars PROVE TypeOK'
  OBVIOUS
<1>1. ASSUME NEW c \in Client, NEW value \in Value, NEW pub \in BOOLEAN, CreateThing(c, value, pub)
      PROVE  TypeOK'
  BY <1>1, RequestTypes, ThingAssumption
<1>2. ASSUME NEW c \in Client, NEW t \in Thing, NEW value \in Value, ModifyThing(c, t, value)
      PROVE  TypeOK'
  BY <1>2, RequestTypes
<1>3. ASSUME NEW c \in Client, NEW t \in Thing, Publish(c, t) \/ DeleteThing(c, t)
      PROVE  TypeOK'
  BY <1>3, RequestTypes
<1>4. ASSUME NEW c \in Client,
             OIDArrives(c) \/ DraftChanged(c) \/ DraftDeleted(c) \/ DraftPublished(c)
      PROVE  TypeOK'
  BY <1>4, AnswerTypes
<1>5. ASSUME NEW c \in Client, RequestTimesOut(c) PROVE TypeOK'
  BY <1>5, TimeOutTypes
<1>6. CASE (AddPublicationEvents \/ ThingPublished) /\ UNCHANGED spaceVars
  BY <1>6, PublicationTypes DEF TypeOK, spaceVars
<1>7. CASE UNCHANGED vars
  BY <1>7 DEF TypeOK, PublicationTypeOK, vars, spaceVars, publicationVars
<1> QED BY <1>1, <1>2, <1>3, <1>4, <1>5, <1>6, <1>7, HearTypes, CrashTypes DEF Next

(***************************************************************************)
(* Every variable of the Space and of its publication actor keeps to its   *)
(* type, also with requests that overlap (SpaceCore, InPublicationState).  *)
(***************************************************************************)
THEOREM TypeCorrect == Spec => []TypeOK
BY InitTypes, NextTypes, PTL DEF Spec

-----------------------------------------------------------------------------
(* Parts that steps have in common. *)

(* What the step of a Space does to its history. *)
KeepsThings ==
  \A t \in Thing : stored[t] # Absent /\ stored'[t] = Absent => t \in deleted' \union overwritten'

(* A request that waits with a state from which its change will be made. *)
Carries(c) == pending[c].type = "publish" \/ (pending[c].type = "create" /\ ~pending[c].pub)

(* When the current state changes, those that wait fall behind by just that. *)
LEMMA MovesKeep ==
  ASSUME TypeOK, CapturesInStep, NEW late, Moves(late)
  PROVE  /\ \A c \in Client : Carries(c) =>
              \A t \in Thing \ since'[c] : pending[c].base[t] = currentState'[t]
         /\ \A state \in readying : \A t \in Thing \ since'[Nobody] : state[t] = currentState'[t]
<1>1. PICK moved : /\ moved = {t \in Thing : currentState'[t] # currentState[t]}
                   /\ since' = [d \in DOMAIN since |-> IF Waits(d) THEN since[d] \union moved ELSE {}]
  BY DEF Moves
<1>2. DOMAIN since = Client \union {Nobody}
  BY DEF TypeOK
<1>3. ASSUME NEW c \in Client, Carries(c), NEW t \in Thing \ since'[c]
      PROVE  pending[c].base[t] = currentState'[t]
  <2>1. Waits(c)
    BY <1>3, NobodyAssumption DEF Waits, Carries
  <2>2. t \notin since[c] /\ t \notin moved
    BY <1>1, <1>2, <1>3, <2>1
  <2>3. pending[c].base[t] = currentState[t]
    BY <1>3, <2>2 DEF CapturesInStep, Carries
  <2> QED BY <1>1, <2>2, <2>3
<1>4. ASSUME NEW state \in readying, NEW t \in Thing \ since'[Nobody]
      PROVE  state[t] = currentState'[t]
  <2>1. Waits(Nobody)
    BY <1>4 DEF Waits
  <2>2. t \notin since[Nobody] /\ t \notin moved
    BY <1>1, <1>2, <1>4, <2>1
  <2> QED BY <1>1, <1>4, <2>2 DEF CapturesInStep
<1> QED BY <1>3, <1>4

(* A step after which no request waits with a state that it did not have before. *)
LEMMA CapturesKeep ==
  ASSUME TypeOK, CapturesInStep, readying' \subseteq readying, deleted \subseteq deleted',
         \A c \in Client : \/ pending'[c] = pending[c]
                           \/ pending'[c].type \in {"idle", "draft"}
                           \/ pending'[c].type = "deleteDraft" /\ pending'[c].thing \in deleted',
         (\E late : Moves(late)) \/ UNCHANGED <<currentState, since>>
  PROVE  CapturesInStep'
<1>1. /\ \A c \in Client : Carries(c) =>
           \A t \in Thing \ since'[c] : pending[c].base[t] = currentState'[t]
      /\ \A state \in readying : \A t \in Thing \ since'[Nobody] : state[t] = currentState'[t]
  <2>1. CASE \E late : Moves(late)
    BY <2>1, MovesKeep
  <2>2. CASE UNCHANGED <<currentState, since>>
    BY <2>2 DEF CapturesInStep, Carries
  <2> QED BY <2>1, <2>2
<1> QED BY <1>1 DEF CapturesInStep, Carries

(* A request that starts to wait with the state of now. *)
LEMMA CaptureKeeps ==
  ASSUME TypeOK, CapturesInStep, NEW c \in Client, Captures(c), UNCHANGED <<readying, deleted>>,
         NEW next, pending' = [pending EXCEPT ![c] = next], next.type \in {"create", "publish"},
         next.value # Absent,
         next.type = "publish" \/ ~next.pub => next.base = currentState
  PROVE  CapturesInStep'
<1>1. c # Nobody /\ DOMAIN since = Client \union {Nobody}
  BY NobodyAssumption DEF TypeOK
<1>2. since' = [since EXCEPT ![c] = {}] /\ UNCHANGED currentState
  BY DEF Captures, StaysAsItIs
<1>3. pending'[c] = next /\ \A d \in Client \ {c} : pending'[d] = pending[d] /\ since'[d] = since[d]
  BY <1>2 DEF TypeOK
<1>4. since'[Nobody] = since[Nobody]
  BY <1>1, <1>2
<1> QED BY <1>2, <1>3, <1>4 DEF CapturesInStep

(* The Space and its history are not touched. *)
LEMMA MemoryStays ==
  ASSUME MemoryInStep, UNCHANGED <<stored, currentState, saving, overwritten>>,
         up => up', up
  PROVE  MemoryInStep' /\ KeepsThings
BY DEF MemoryInStep, MemoryKeepsUp, SnapshotsKeepUp, KeepsThings

LEMMA NoChangeStays ==
  ASSUME MemoryInStep, up, up', NoChange \/ \E c \in Client : Captures(c)
  PROVE  MemoryInStep' /\ KeepsThings
BY MemoryStays DEF NoChange, Captures, StaysAsItIs

(* A change is made to a state that was captured, or to the current one. *)
LEMMA ChangeKeeps ==
  ASSUME TypeOK, MemoryInStep, NEW e \in Event, NEW base \in Content, NEW late \in SUBSET Thing,
         Persist(e, base, late), up, up',
         \A t \in Thing \ late : base[t] = currentState[t],
         e.kind = "modify" => base[e.thing] # Absent,
         e.value # Absent \/ e.thing \in deleted'
  PROVE  MemoryInStep' /\ KeepsThings /\ \E l : Moves(l)
<1>1. MemoryKeepsUp /\ SnapshotsKeepUp
  BY DEF MemoryInStep
<1>2. MemoryInStep' /\ KeepsThings
  BY <1>1, PersistKeeps DEF MemoryInStep, MemoryKeepsUp, KeepsThings
<1> QED BY <1>2 DEF Persist

(* The Space hears nothing new of its drafts. *)
LEMMA DraftsStay ==
  ASSUME DraftsInStep, replies' \subseteq replies,
         UNCHANGED <<pState, notices, pubState, outdated, up>>
  PROVE  DraftsInStep'
BY DEF DraftsInStep

-----------------------------------------------------------------------------
(* The steps. *)

LEMMA RequestKeeps ==
  ASSUME IInv, NEW c \in Client, NEW t \in Thing,
         NEW value \in Value \union {Absent}, NEW pub \in BOOLEAN,
         \/ CreateThing(c, value, pub) /\ value # Absent
         \/ ModifyThing(c, t, value) /\ value # Absent
         \/ Publish(c, t) \/ DeleteThing(c, t)
  PROVE  MemoryInStep' /\ CapturesInStep' /\ DraftsInStep' /\ KeepsThings
<1> USE DEF IInv
<1>1. Receive(c)
  BY DEF CreateThing, ModifyThing, Publish, DeleteThing
<1>2. up /\ up' /\ UNCHANGED <<up, readying, pubState, outdated>>
  BY <1>1 DEF Receive
<1>3. currentState \in Content /\ {} \in SUBSET Thing
  BY DEF TypeOK
<1>4. DraftsInStep'
  BY <1>2, DraftsStay
     DEF CreateThing, ModifyThing, Publish, DeleteThing, AskPublication, publicationVars
<1>5. CASE CreateThing(c, value, pub) /\ value # Absent
  <2>1. PICK next : next = [type |-> "create", thing |-> NoThing, value |-> value, pub |-> pub,
                            base |-> IF pub THEN enhancedState ELSE currentState]
    OBVIOUS
  <2>2. pending' = [pending EXCEPT ![c] = next] /\ Captures(c) /\ UNCHANGED deleted
    BY <1>5, <2>1 DEF CreateThing
  <2>3. next.type = "create" /\ next.value # Absent /\ (~next.pub => next.base = currentState)
    BY <1>5, <2>1
  <2> QED BY <1>2, <1>4, <2>2, <2>3, CaptureKeeps, NoChangeStays
<1>6. CASE ModifyThing(c, t, value) /\ value # Absent
  <2>1. CASE isPublishable(t)
    <3>1. PICK next : next = [Idle EXCEPT !.type = "draft", !.thing = t]
      OBVIOUS
    <3>2. pending' = [pending EXCEPT ![c] = next] /\ NoChange /\ UNCHANGED deleted
      BY <1>6, <2>1, <3>1 DEF ModifyThing, AskPublication
    <3>3. next.type = "draft"
      BY <3>1 DEF Idle
    <3>4. CapturesInStep'
      BY <1>2, <3>2, <3>3, CapturesKeep DEF TypeOK, NoChange, StaysAsItIs
    <3> QED BY <1>2, <1>4, <3>2, <3>4, NoChangeStays
  <2>2. CASE ~isPublishable(t)
    <3>1. /\ EventOf("modify", t, value) \in Event /\ EventOf("modify", t, value).thing = t
          /\ EventOf("modify", t, value).value = value
      BY EventTypes
    <3>2. /\ currentState[t] # Absent /\ Persist(EventOf("modify", t, value), currentState, {})
          /\ UNCHANGED <<pending, deleted>>
      BY <1>6, <2>2 DEF ModifyThing
    <3>3. MemoryInStep' /\ KeepsThings /\ \E l : Moves(l)
      BY <1>2, <1>3, <1>6, <3>1, <3>2, ChangeKeeps
    <3>4. CapturesInStep'
      BY <1>2, <3>2, <3>3, CapturesKeep
    <3> QED BY <1>4, <3>3, <3>4
  <2> QED BY <2>1, <2>2
<1>7. CASE Publish(c, t)
  <2>1. PICK next : next = [type |-> "publish", thing |-> t, value |-> enhancedState[t],
                            pub |-> FALSE, base |-> currentState]
    OBVIOUS
  <2>2. pending' = [pending EXCEPT ![c] = next] /\ Captures(c) /\ enhancedState[t] # Absent
          /\ UNCHANGED deleted
    BY <1>7, <2>1 DEF Publish, isPublishable, AskPublication
  <2>3. next.type = "publish" /\ next.value # Absent /\ next.base = currentState
    BY <2>1, <2>2
  <2> QED BY <1>2, <1>4, <2>2, <2>3, CaptureKeeps, NoChangeStays
<1>8. CASE DeleteThing(c, t)
  <2>1. deleted' = deleted \union {t}
    BY <1>8 DEF DeleteThing
  <2>2. CASE isPublishable(t)
    <3>1. PICK next : next = [Idle EXCEPT !.type = "deleteDraft", !.thing = t]
      OBVIOUS
    <3>2. pending' = [pending EXCEPT ![c] = next] /\ NoChange
      BY <1>8, <2>2, <3>1 DEF DeleteThing, AskPublication
    <3>3. next.type = "deleteDraft" /\ next.thing = t
      BY <3>1 DEF Idle
    <3>4. CapturesInStep'
      BY <1>2, <2>1, <3>2, <3>3, CapturesKeep DEF TypeOK, NoChange, StaysAsItIs
    <3> QED BY <1>2, <1>4, <3>2, <3>4, NoChangeStays
  <2>3. CASE ~isPublishable(t)
    <3>1. /\ EventOf("delete", t, Absent) \in Event /\ EventOf("delete", t, Absent).thing = t
          /\ EventOf("delete", t, Absent).kind = "delete"
      BY EventTypes
    <3>2. Persist(EventOf("delete", t, Absent), currentState, {}) /\ UNCHANGED pending
      BY <1>8, <2>3 DEF DeleteThing
    <3>3. MemoryInStep' /\ KeepsThings /\ \E l : Moves(l)
      BY <1>2, <1>3, <2>1, <3>1, <3>2, ChangeKeeps
    <3>4. CapturesInStep'
      BY <1>2, <2>1, <3>2, <3>3, CapturesKeep
    <3> QED BY <1>4, <3>3, <3>4
  <2> QED BY <2>2, <2>3
<1> QED BY <1>5, <1>6, <1>7, <1>8

(* A reply that is not late brings the drafts as they are. *)
LEMMA ReplyKeeps ==
  ASSUME IInv, NEW c \in Client, NEW type \in {"draft", "deleteDraft", "publish"},
         TakeReply(c, type)
  PROVE  /\ DraftsInStep' /\ up /\ up' /\ pending[c].type = type
         /\ readying' = readying /\ deleted' = deleted
         /\ \A d \in Client : pending'[d] = pending[d] \/ pending'[d].type \in {"idle", "draft"}
<1> USE DEF IInv
<1>1. PICK r \in replies : r.client = c /\ replies' = replies \ {r}
                           /\ IF type = "publish" THEN UNCHANGED <<pubState, outdated>>
                              ELSE pubState' = r.state /\ outdated' = r.late
  BY DEF TakeReply
<1>2. UNCHANGED <<up, readying, deleted, pState, notices>> /\ pending[c].type = type
        /\ pending' = [pending EXCEPT ![c] = Idle]
  BY DEF TakeReply
<1>3. up
  BY <1>2 DEF MemoryInStep
<1>4. DraftsInStep'
  BY <1>1, <1>2 DEF DraftsInStep
<1> QED BY <1>2, <1>3, <1>4 DEF TypeOK, Idle

LEMMA OIDKeeps ==
  ASSUME IInv, NEW c \in Client, OIDArrives(c)
  PROVE  MemoryInStep' /\ CapturesInStep' /\ DraftsInStep' /\ KeepsThings
<1> USE DEF IInv
<1>1. PICK t \in Thing \ issued :
        IF pending[c].pub
          THEN /\ AskPublication(c, "AddPublicationEvents", EventOf("create", t, pending[c].value),
                    [Idle EXCEPT !.type = "draft", !.thing = t])
               /\ NoChange
          ELSE /\ Persist(EventOf("create", t, pending[c].value), pending[c].base, since[c])
               /\ pending' = [pending EXCEPT ![c] = Idle]
               /\ UNCHANGED publicationVars
  BY DEF OIDArrives
<1>2. UNCHANGED <<up, readying, pubState, outdated, deleted>> /\ pending[c].type = "create"
  BY DEF OIDArrives
<1>3. up /\ up'
  BY <1>2 DEF MemoryInStep
<1>4. DraftsInStep'
  BY <1>1, <1>2, DraftsStay DEF AskPublication, publicationVars
<1>5. CASE pending[c].pub
  <2>1. PICK next : next = [Idle EXCEPT !.type = "draft", !.thing = t]
    OBVIOUS
  <2>2. pending' = [pending EXCEPT ![c] = next] /\ NoChange
    BY <1>1, <1>5, <2>1 DEF AskPublication
  <2>3. next.type = "draft"
    BY <2>1 DEF Idle
  <2>4. CapturesInStep'
    BY <1>2, <2>2, <2>3, CapturesKeep DEF TypeOK, NoChange, StaysAsItIs
  <2> QED BY <1>3, <1>4, <2>2, <2>4, NoChangeStays
<1>6. CASE ~pending[c].pub
  <2>1. /\ Persist(EventOf("create", t, pending[c].value), pending[c].base, since[c])
        /\ pending' = [pending EXCEPT ![c] = Idle]
    BY <1>1, <1>6
  <2>2. /\ pending[c].value \in Value \union {Absent} /\ pending[c].base \in Content
        /\ since[c] \in SUBSET Thing
    BY DEF TypeOK, Pending
  <2>3. /\ EventOf("create", t, pending[c].value) \in Event
        /\ EventOf("create", t, pending[c].value).kind = "create"
        /\ EventOf("create", t, pending[c].value).value = pending[c].value
    BY <2>2, EventTypes
  <2>4. pending[c].value # Absent /\ \A u \in Thing \ since[c] : pending[c].base[u] = currentState[u]
    BY <1>2, <1>6 DEF CapturesInStep
  <2>5. MemoryInStep' /\ KeepsThings /\ \E l : Moves(l)
    BY <1>3, <2>1, <2>2, <2>3, <2>4, ChangeKeeps
  <2>6. CapturesInStep'
    BY <1>2, <2>1, <2>5, CapturesKeep DEF TypeOK, Idle
  <2> QED BY <1>4, <2>5, <2>6
<1> QED BY <1>5, <1>6

LEMMA AnswerKeeps ==
  ASSUME IInv, NEW c \in Client, DraftChanged(c) \/ DraftDeleted(c) \/ DraftPublished(c)
  PROVE  MemoryInStep' /\ CapturesInStep' /\ DraftsInStep' /\ KeepsThings
<1> USE DEF IInv
<1>1. PICK type \in {"draft", "deleteDraft", "publish"} : TakeReply(c, type)
  BY DEF DraftChanged, DraftDeleted, DraftPublished
<1>2. /\ DraftsInStep' /\ up /\ up' /\ readying' = readying /\ deleted' = deleted
      /\ \A d \in Client : pending'[d] = pending[d] \/ pending'[d].type \in {"idle", "draft"}
  BY <1>1, ReplyKeeps
<1>3. ASSUME NoChange PROVE MemoryInStep' /\ CapturesInStep' /\ KeepsThings
  <2>1. CapturesInStep'
    BY <1>2, <1>3, CapturesKeep DEF NoChange, StaysAsItIs
  <2> QED BY <1>2, <1>3, <2>1, NoChangeStays
<1>4. ASSUME NEW e \in Event, NEW base \in Content, NEW late \in SUBSET Thing,
             Persist(e, base, late), \A t \in Thing \ late : base[t] = currentState[t],
             e.kind = "modify" => base[e.thing] # Absent,
             e.value # Absent \/ e.thing \in deleted
      PROVE  MemoryInStep' /\ CapturesInStep' /\ KeepsThings
  <2>1. MemoryInStep' /\ KeepsThings /\ \E l : Moves(l)
    BY <1>2, <1>4, ChangeKeeps
  <2>2. CapturesInStep'
    BY <1>2, <2>1, CapturesKeep
  <2> QED BY <2>1, <2>2
<1>5. CASE DraftChanged(c)
  BY <1>2, <1>3, <1>5 DEF DraftChanged
<1>6. CASE DraftDeleted(c)
  <2>1. pending[c].type = "deleteDraft"
    BY <1>6 DEF DraftDeleted, TakeReply
  <2>2. pending[c].thing \in Thing /\ pending[c].thing \in deleted
    BY <2>1 DEF TypeOK, Pending, CapturesInStep
  <2>3. PICK e : e = EventOf("delete", pending[c].thing, Absent)
    OBVIOUS
  <2>4. e \in Event /\ e.kind = "delete" /\ e.thing = pending[c].thing
    BY <2>2, <2>3, EventTypes
  <2>5. NoChange \/ Persist(e, currentState, {})
    BY <1>6, <2>3 DEF DraftDeleted
  <2>6. currentState \in Content /\ {} \in SUBSET Thing
    BY DEF TypeOK
  <2>7. CASE NoChange
    BY <1>2, <1>3, <2>7
  <2>8. CASE Persist(e, currentState, {})
    BY <1>2, <1>4, <2>2, <2>4, <2>6, <2>8
  <2> QED BY <2>5, <2>7, <2>8
<1>7. CASE DraftPublished(c)
  <2>1. pending[c].type = "publish"
    BY <1>7 DEF DraftPublished, TakeReply
  <2>2. /\ pending[c].thing \in Thing /\ pending[c].value \in Value \union {Absent}
        /\ pending[c].base \in Content /\ since[c] \in SUBSET Thing
    BY DEF TypeOK, Pending
  <2>3. PICK kind \in {"create", "modify"} :
          /\ kind = IF pending[c].base[pending[c].thing] = Absent THEN "create" ELSE "modify"
          /\ Persist(EventOf(kind, pending[c].thing, pending[c].value), pending[c].base, since[c])
    BY <1>7 DEF DraftPublished
  <2>4. PICK e : e = EventOf(kind, pending[c].thing, pending[c].value)
    OBVIOUS
  <2>5. e \in Event /\ e.kind = kind /\ e.thing = pending[c].thing /\ e.value = pending[c].value
    BY <2>2, <2>4, EventTypes
  <2>6. pending[c].value # Absent /\ \A u \in Thing \ since[c] : pending[c].base[u] = currentState[u]
    BY <2>1 DEF CapturesInStep
  <2>7. Persist(e, pending[c].base, since[c])
    BY <2>3, <2>4
  <2>8. e.kind = "modify" => pending[c].base[e.thing] # Absent
    BY <2>3, <2>5
  <2> QED BY <1>2, <1>4, <2>2, <2>5, <2>6, <2>7, <2>8
<1> QED BY <1>5, <1>6, <1>7

-----------------------------------------------------------------------------
(* Everything else. *)

LEMMA TimeOutKeeps ==
  ASSUME IInv, NEW c \in Client, RequestTimesOut(c)
  PROVE  MemoryInStep' /\ CapturesInStep' /\ DraftsInStep' /\ KeepsThings
<1> USE DEF IInv, RequestTimesOut
<1>1. up
  BY DEF MemoryInStep
<1>2. MemoryInStep' /\ KeepsThings
  BY <1>1, MemoryStays
<1>3. CapturesInStep'
  BY CapturesKeep DEF TypeOK, Idle
<1>4. DraftsInStep'
  BY DraftsStay
<1> QED BY <1>2, <1>3, <1>4

LEMMA PublicationKeeps ==
  ASSUME IInv, AddPublicationEvents \/ ThingPublished, UNCHANGED spaceVars
  PROVE  MemoryInStep' /\ CapturesInStep' /\ DraftsInStep' /\ KeepsThings
<1> USE DEF IInv
<1>1. MemoryInStep' /\ CapturesInStep' /\ KeepsThings
  BY DEF MemoryInStep, MemoryKeepsUp, SnapshotsKeepUp, CapturesInStep, KeepsThings, spaceVars
<1>2. PICK drafts : SetState(drafts)
  BY DEF AddPublicationEvents, ThingPublished
<1>3. pState' = drafts /\ notices' = Append(notices, drafts)
  BY <1>2 DEF SetState
<1>4. \A r \in replies' : r.late \/ r.state = drafts
  <2>1. PICK c : replies' = {[r EXCEPT !.late = TRUE] : r \in replies} \union
                    (IF c = Nobody THEN {} ELSE {[client |-> c, state |-> drafts, late |-> FALSE]})
    BY <1>2 DEF SetState, Respond
  <2>2. ASSUME NEW r \in replies PROVE [r EXCEPT !.late = TRUE].late
    <3>1. r \in Reply
      BY DEF TypeOK, PublicationTypeOK
    <3> QED BY <3>1 DEF Reply
  <2>3. PICK told : told = [client |-> c, state |-> drafts, late |-> FALSE]
    OBVIOUS
  <2>4. told.state = drafts
    BY <2>3
  <2>5. \A r \in replies' : r = told \/ \E q \in replies : r = [q EXCEPT !.late = TRUE]
    BY <2>1, <2>3
  <2> QED BY <2>2, <2>4, <2>5
<1>5. notices' # <<>> /\ notices'[Len(notices')] = drafts
  <2>1. notices \in Seq(Drafts) /\ Len(notices) \in Nat
    BY DEF TypeOK, PublicationTypeOK
  <2>2. Len(notices') = Len(notices) + 1 /\ notices'[Len(notices) + 1] = drafts
    BY <1>3, <2>1
  <2>3. notices' # <<>>
    BY <2>1, <2>2
  <2> QED BY <2>2, <2>3
<1>6. DraftsInStep'
  BY <1>3, <1>4, <1>5 DEF DraftsInStep
<1> QED BY <1>1, <1>6

LEMMA HearKeeps ==
  ASSUME IInv, HearOfDrafts
  PROVE  MemoryInStep' /\ CapturesInStep' /\ DraftsInStep' /\ KeepsThings
<1> USE DEF IInv, HearOfDrafts
<1>1. MemoryInStep' /\ CapturesInStep' /\ KeepsThings
  BY DEF MemoryInStep, MemoryKeepsUp, SnapshotsKeepUp, CapturesInStep, KeepsThings
<1>2. /\ Len(notices) \in Nat \ {0} /\ Head(notices) = notices[1]
      /\ Len(notices') = Len(notices) - 1
      /\ \A i \in 1 .. Len(notices) - 1 : notices'[i] = notices[i + 1]
  BY DEF TypeOK, PublicationTypeOK
<1>3. notices[Len(notices)] = pState
  BY DEF DraftsInStep
<1>4. IF notices' = <<>> THEN pubState' = pState ELSE notices'[Len(notices')] = pState
  <2>1. CASE Len(notices) = 1
    <3>1. notices \in Seq(Drafts) /\ notices' = Tail(notices)
      BY DEF TypeOK, PublicationTypeOK
    <3>2. notices' = <<>>
      BY <2>1, <3>1
    <3> QED BY <1>2, <1>3, <2>1, <3>2
  <2>2. CASE Len(notices) # 1
    <3>1. Len(notices) - 1 \in 1 .. Len(notices) - 1 /\ Len(notices) - 1 + 1 = Len(notices)
      BY <1>2, <2>2
    <3>2. notices'[Len(notices')] = pState /\ Len(notices') # 0
      BY <1>2, <1>3, <3>1
    <3>3. notices' # <<>>
      BY <3>2
    <3> QED BY <3>2, <3>3
  <2> QED BY <2>1, <2>2
<1>5. DraftsInStep'
  BY <1>4 DEF DraftsInStep
<1> QED BY <1>1, <1>5

(* readyState goes on: what was changed since the recovery changes back. *)
LEMMA ReadyKeeps ==
  ASSUME IInv, Ready
  PROVE  MemoryInStep' /\ CapturesInStep' /\ DraftsInStep' /\ KeepsThings
<1> USE DEF IInv
<1>1. /\ currentState' \in readying /\ readying' = {} /\ Moves(since[Nobody])
      /\ UNCHANGED <<up, pubState, pending, stored, saving, deleted, outdated>>
      /\ UNCHANGED publicationVars
  BY DEF Ready
<1>2. up
  BY <1>1 DEF MemoryInStep
<1>3. overwritten' = overwritten \union since[Nobody]
  BY <1>1 DEF Moves
<1>4. \A t \in Thing \ overwritten' : currentState'[t] = stored[t]
  BY <1>1, <1>2, <1>3 DEF MemoryInStep, MemoryKeepsUp, CapturesInStep
<1>5. MemoryInStep' /\ KeepsThings
  BY <1>1, <1>2, <1>3, <1>4 DEF MemoryInStep, MemoryKeepsUp, SnapshotsKeepUp, KeepsThings
<1>6. CapturesInStep'
  <2>1. readying' \subseteq readying
    BY <1>1
  <2> QED BY <1>1, <2>1, CapturesKeep
<1>7. DraftsInStep'
  BY <1>1, DraftsStay DEF publicationVars
<1> QED BY <1>5, <1>6, <1>7

(* A snapshot that is stored becomes the history; it may lack what was overwritten. *)
LEMMA SnapshotKeeps ==
  ASSUME IInv, NEW i \in DOMAIN saving, SnapshotSaved(i)
  PROVE  MemoryInStep' /\ CapturesInStep' /\ DraftsInStep' /\ KeepsThings
<1> USE DEF IInv
<1>1. /\ stored' = saving[i] /\ saving' = SubSeq(saving, i + 1, Len(saving))
      /\ UNCHANGED <<up, currentState, readying, pubState, pending, deleted, since, overwritten,
                     outdated>>
      /\ UNCHANGED publicationVars
  BY DEF SnapshotSaved
<1>2. \A t \in Thing \ overwritten : stored'[t] = stored[t]
  BY <1>1 DEF MemoryInStep, SnapshotsKeepUp
<1>3. \A j \in DOMAIN saving' : \E n \in DOMAIN saving : saving'[j] = saving[n]
  <2>1. saving \in Seq(Content) /\ i \in 1 .. Len(saving) /\ Len(saving) \in Nat
    BY DEF TypeOK
  <2>2. /\ DOMAIN saving' = 1 .. Len(saving) - i
        /\ \A j \in 1 .. Len(saving) - i : saving'[j] = saving[i + j]
    BY <1>1, <2>1
  <2>3. \A j \in 1 .. Len(saving) - i : i + j \in 1 .. Len(saving)
    BY <2>1
  <2>4. DOMAIN saving = 1 .. Len(saving)
    BY <2>1
  <2> QED BY <2>2, <2>3, <2>4
<1>4. SnapshotsKeepUp'
  BY <1>1, <1>2, <1>3 DEF MemoryInStep, SnapshotsKeepUp
<1>5. MemoryInStep' /\ KeepsThings
  BY <1>1, <1>2, <1>4 DEF MemoryInStep, MemoryKeepsUp, KeepsThings
<1>6. CapturesInStep' /\ DraftsInStep'
  BY <1>1 DEF CapturesInStep, DraftsInStep, publicationVars
<1> QED BY <1>5, <1>6

LEMMA CrashKeeps ==
  ASSUME IInv, Crash \/ Recover
  PROVE  MemoryInStep' /\ CapturesInStep' /\ DraftsInStep' /\ KeepsThings
<1> USE DEF IInv
<1>1. CASE Crash
  <2>1. MemoryInStep' /\ KeepsThings
    BY <1>1 DEF Crash, Idle, MemoryInStep, MemoryKeepsUp, SnapshotsKeepUp, KeepsThings
  <2>2. CapturesInStep'
    BY <1>1 DEF Crash, CapturesInStep, Idle
  <2>3. DraftsInStep'
    BY <1>1 DEF Crash, PublicationDies, DraftsInStep
  <2> QED BY <2>1, <2>2, <2>3
<1>2. CASE Recover
  <2>1. MemoryInStep' /\ KeepsThings
    BY <1>2 DEF Recover, MemoryInStep, MemoryKeepsUp, SnapshotsKeepUp, KeepsThings
  <2>2. CapturesInStep'
    BY <1>2 DEF Recover, MemoryInStep, CapturesInStep
  <2>3. DraftsInStep'
    BY <1>2 DEF Recover, PublicationRecovers, DraftsInStep
  <2> QED BY <2>1, <2>2, <2>3
<1> QED BY <1>1, <1>2

LEMMA InitIInv == Init => IInv
<1> SUFFICES ASSUME Init PROVE IInv
  OBVIOUS
<1>1. TypeOK
  BY InitTypes
<1>2. MemoryInStep
  BY DEF Init, MemoryInStep, MemoryKeepsUp, SnapshotsKeepUp, Idle
<1>3. CapturesInStep
  BY DEF Init, CapturesInStep, Idle
<1>4. DraftsInStep
  BY DEF Init, PublicationInit, DraftsInStep
<1> QED BY <1>1, <1>2, <1>3, <1>4 DEF IInv

LEMMA NextKeeps ==
  ASSUME IInv, [Next]_vars
  PROVE  IInv' /\ KeepsThings
<1>1. TypeOK'
  BY NextTypes DEF IInv
<1>2. ASSUME NEW c \in Client, NEW value \in Value, NEW pub \in BOOLEAN, CreateThing(c, value, pub)
      PROVE  MemoryInStep' /\ CapturesInStep' /\ DraftsInStep' /\ KeepsThings
  BY <1>2, RequestKeeps, ThingAssumption, AbsentAssumption
<1>3. ASSUME NEW c \in Client, NEW t \in Thing, NEW value \in Value, ModifyThing(c, t, value)
      PROVE  MemoryInStep' /\ CapturesInStep' /\ DraftsInStep' /\ KeepsThings
  <2>1. value \in Value \union {Absent} /\ value # Absent /\ TRUE \in BOOLEAN
    BY AbsentAssumption
  <2> QED BY <1>3, <2>1, RequestKeeps
<1>4. ASSUME NEW c \in Client, NEW t \in Thing, Publish(c, t) \/ DeleteThing(c, t)
      PROVE  MemoryInStep' /\ CapturesInStep' /\ DraftsInStep' /\ KeepsThings
  BY <1>4, RequestKeeps
<1>5. ASSUME NEW c \in Client,
             \/ OIDArrives(c) \/ RequestTimesOut(c)
             \/ DraftChanged(c) \/ DraftDeleted(c) \/ DraftPublished(c)
      PROVE  MemoryInStep' /\ CapturesInStep' /\ DraftsInStep' /\ KeepsThings
  BY <1>5, OIDKeeps, AnswerKeeps, TimeOutKeeps
<1>6. ASSUME AddPublicationEvents \/ ThingPublished, UNCHANGED spaceVars
      PROVE  MemoryInStep' /\ CapturesInStep' /\ DraftsInStep' /\ KeepsThings
  BY <1>6, PublicationKeeps
<1>7. ASSUME UNCHANGED vars
      PROVE  MemoryInStep' /\ CapturesInStep' /\ DraftsInStep' /\ KeepsThings
  BY <1>7 DEF IInv, MemoryInStep, MemoryKeepsUp, SnapshotsKeepUp, CapturesInStep, DraftsInStep,
              KeepsThings, vars, spaceVars, publicationVars
<1>8. MemoryInStep' /\ CapturesInStep' /\ DraftsInStep' /\ KeepsThings
  BY <1>2, <1>3, <1>4, <1>5, <1>6, <1>7, HearKeeps, SnapshotKeeps, CrashKeeps, ReadyKeeps DEF Next
<1> QED BY <1>1, <1>8 DEF IInv

(***************************************************************************)
(* Every reachable state has the strengthened invariant: what a request    *)
(* captured is the current state, but for what changed since.              *)
(***************************************************************************)
THEOREM InductiveInvariant == Spec => []IInv
<1>1. IInv /\ [Next]_vars => IInv'
  BY NextKeeps
<1> QED BY InitIInv, <1>1, PTL DEF Spec

(***************************************************************************)
(* However requests overlap, what users see of the Space is what a         *)
(* recovery would make of its events (runChanges and receiveRecover), but  *)
(* for the Things that changed while another request, or readyState, held  *)
(* an older state.                                                         *)
(***************************************************************************)
THEOREM MemoryAgrees == Spec => []MemoryKeepsUp
<1>1. IInv => MemoryKeepsUp
  BY DEF IInv, MemoryInStep
<1> QED BY InductiveInvariant, <1>1, PTL

(***************************************************************************)
(* Every snapshot that doSaveSnapshot has under way says what the events   *)
(* say, however late it is stored, but for those same Things.              *)
(***************************************************************************)
THEOREM SnapshotsAgree == Spec => []SnapshotsKeepUp
<1>1. IInv => SnapshotsKeepUp
  BY DEF IInv, MemoryInStep
<1> QED BY InductiveInvariant, <1>1, PTL

(***************************************************************************)
(* Whatever overlaps, times out or crashes, a Space that is at rest knows  *)
(* the drafts that its publication actor has, unless the last thing it     *)
(* took was a reply that another change had passed: the race that          *)
(* runAndSendResponse admits is the only one.                              *)
(***************************************************************************)
THEOREM DraftsAgree == Spec => []DraftsAreKnown
<1>1. IInv => DraftsAreKnown
  BY DEF IInv, DraftsInStep, DraftsAreKnown, Quiet
<1> QED BY InductiveInvariant, <1>1, PTL

(***************************************************************************)
(* No Thing leaves the history of a Space, through changes, publications,  *)
(* snapshots or recoveries, unless somebody asked to delete it or it was   *)
(* overwritten in the memory that a snapshot was taken of.                 *)
(***************************************************************************)
THEOREM ThingsStay == Spec => ThingsAreKept
<1>1. IInv /\ [Next]_vars =>
        [\A t \in Thing :
           stored[t] # Absent /\ stored'[t] = Absent => t \in deleted' \union overwritten']_vars
  BY NextKeeps DEF KeepsThings
<1> QED BY InductiveInvariant, <1>1, PTL DEF Spec, ThingsAreKept
=============================================================================
