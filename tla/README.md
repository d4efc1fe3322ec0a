# Querki in TLA+

Querki is a server for small shared databases ("Spaces"), written in Scala on
Akka: persistent actors, a cluster, a browser client in Scala.js.  This directory
holds TLA+ models of the parts of it whose correctness depends on what happens
between messages, crashes and recoveries, the TLC configurations that check them,
and TLAPS proofs of what the checks found to hold.  Paths below are relative to
`src/querki/scalajvm/app/querki/` unless they start with `src/`.

## 1. Inventory

### How the parts hang together

    QuerkiNodeCoordinator  (one per cluster, persistent)     cluster/
          ^ AssignShard, ShardFull      | ShardAssignment, CheckShardAssignment
    QuerkiNodeManager      (one per node)
          | forwards NextOID, GiveOIDBlock     ^ ShardFull
    OIDAllocator           (child of the manager, persistent, one per shard)
          ^ NextOID                     | NewOID
    SpaceActor             (one per Space, persistent)       spaces/
          | AddPublicationEvents, ThingPublished  ^ CurrentPublicationState
    InPublicationState     (one per Space, persistent)       publication/

    SpaceConversationsManager  (one per Space)               conversations/
          | requests, CurrentState, PoisonPill     ^ KillMe, Terminated
    ThingConversationsActor    (one per Thing in use, persistent)

    caller (ApiManagement)  -- on the node of the browser connection     api/
          | Ready, Ack            ^ OversizedResponse, StringChunk, Complete
    StringStreamSender     (child of the worker that ran the API call)   streaming/

    StreamController -> StreamSendActor  -- on that node, too     controllers/, streaming/
          | UploadChunk, UploadComplete ^ UploadChunkAck, UploadProcessSuccessful
    ImportSpaceActor       (an UploadActor)                   imexport/
          | CreateSpacePersist, ChangeSpaceStatus  | SetState
    SpaceManagerPersister  (the Spaces table)     SpaceActor  spaces/

    InputGadgets, PageManager  -- in the browser    src/querki/scalajs/.../display/
          | alterProperty         ^ PropertyChanged, errors
    API of the server

    The SpaceRouter passes messages between the actors of one Space: the Space,
    its drafts, the conversations, the members, the user sessions.

### The components

| Component | State | Operations | Hard behaviour | What makes it correct |
|---|---|---|---|---|
| OIDAllocator | `current`, `availableThrough`; journal of blocks, snapshots | NextOID, GiveOIDBlock, recovery, snapshot | crash between persist and handler, late snapshots, Int overflow, the end of the shard | no OID is used twice; recovery agrees from any snapshot |
| QuerkiNodeCoordinator | full shards, shard of each node, checks under way; journal, snapshots | AssignShard, ShardFull, Terminated, checks on recovery, Stop | checks that time out or cross a request, stops between two events, an unjournaled unassignment | two live nodes never own one shard (they may, when one is slow to answer a check); what a node owns is on record |
| QuerkiNodeManager | shard, child allocator, outstanding request | request with retries, ShardFull, check, restart, split-brain resolution | lost and late answers, a child that outlives its shard, node death | a node that asks is answered |
| SpaceActor | current state, drafts it knows, snapshot counter; event log, snapshots | create, modify, publish, delete, recovery | requests that wait with a captured state, stale drafts, crash between two actors' persists | history, memory and snapshots agree (they do not, where requests overlap); nothing else vanishes |
| InPublicationState | drafts; event log | AddPublicationEvents, ThingPublished, recovery | replies and notices by different ways | the Space knows the drafts as they are |
| ThingConversations | tree of comments, next id, state of the Space; event log | add, delete, read, recovery; boot of the manager, transition of an old Space | racing replies to one comment, ids after a crash, failed writes, permissions that change | comments stay where their authors were told they are; replay yields the same tree |
| RoutingParent, TimeoutChild (util/) | children, messages kept for a dying child | route, time out, kill, rebuild | a message that meets a dying child | one child per key at a time; no message is lost |
| StringStream | chunks left, current index and timer; text so far; who waits | Start, Ready, Ack, ChunkTimeout; StringChunk, Complete | losses, late Acks, retries, a Start that comes last | the whole text or a failure; a completion means a text |
| Uploads (streaming/UploadActor, StreamSendActor, controllers/StreamController) | blocks given, current block and timer; buffer, last index, the file once read | block, Ack, timeout, UploadComplete, a look at the file | as the stream, and a lazy val that is read too early | every block once, in order; the file is whole when it is used |
| Import (imexport/) | progress | upload, parse, remap, create, set state, set status | failure between two steps | a Space is whole or cannot be seen |
| Space creation (spaces/SpaceManager*, SpaceCreator) | the Spaces table; the first event of a Space | CreateSpace, InitialState, SetState, ChangeSpaceStatus | a check in one transaction and an insertion in another, lost answers | a Space that is reported as made can be opened; names are unique |
| Input fields of the browser (src/querki/scalajs/src/main/scala/querki/display/) | fields being edited, calls under way, waiting navigation, pages being rendered, status line | edit with or without a keypress, save, answer, navigate, render | answers in any order, failures, timeouts of calls that are carried out all the same, navigations that wait, renderings that overlap | what the server lacks is on the list of fields to save; only the last navigation goes on; the window shows its page (where renderings overlap, it may not) |
| SpaceRouter | references, last state | forwarding | order between senders | a stream of states in order |
| User sessions (session/, uservalues/) | user values over a Space state | add value, change props | state captured before an answer | a user sees the newest state and their own values |
| Publication events | log of publish events | publish, feeds | - | the log is complete |
| Identity, notifications, history, apps | caches, notes, copies | lookups, copies | cache against SQL | - |
| QL, types, rendering, ecology | none | interpretation, start-up | sequential | - |
| Photos, email, pages of the browser | - | I/O | outside services | - |

The first twelve rows have modules.  The other rows, listed in `PROJECT.json` as
`not_modelled`, have none (of the SpaceRouter only the order in which it passes
messages on is used); section 6 says why.

## 2. The course of the work

The models were written from the bottom up, each component under what it promises
where that can be said without its mechanism, and each proved about once TLC agreed:

1. `OIDAllocator` under `OIDService`;
2. `ShardNetwork`, `QuerkiNodeCoordinator`, `QuerkiNodeManager`, composed in
   `ShardCluster`;
3. `InPublicationState`, composed with the Space in `SpaceActor`;
4. `StringStream` under `StringDelivery`;
5. `ThingConversations` (the data) and `RoutingParent` (the children of an actor),
   composed in `SpaceConversations` under `CommentBoard`;
6. `InputGadgets`, the browser's side of an edit;
7. `Upload` and `SpaceCreation`, composed in `ImportSpace`.

What could follow: SetState, InitialState and ChangeModel in `SpaceActor` (in
`ImportSpace` the Space is only what its journal starts with); the user sessions,
whose overlays capture a state of the Space as `SpaceActor` does; other children of
a `RoutingParent`.

## 3. Modules

| Module | Models | Remarks |
|---|---|---|
| `OIDService` | what an allocator promises | abstract: an index in use is never issued again |
| `OIDAllocator` | cluster/OIDAllocator.scala | refines `OIDService` through `uses` |
| `OIDAllocator_proofs` | - | invariants, refinement |
| `ShardNetwork` | messages, checks and death watch between nodes and coordinator | what Akka promises: order per sender, at most once |
| `QuerkiNodeCoordinator` | cluster/QuerkiNodeCoordinator.scala | actions of the coordinator alone |
| `QuerkiNodeManager` | cluster/QuerkiNodeManager.scala | actions of each node |
| `ShardCluster` | the two together | mishaps, fairness, properties |
| `ShardCluster_proofs` | - | invariants, on any network |
| `InPublicationState` | publication/InPublicationState*.scala | actions of the publication actor |
| `SpaceActor` | spaces/SpaceCore.scala, PersistentSpaceActor.scala, SpacePure.scala | composes the Space with its drafts |
| `SpaceActor_proofs` | - | invariants, however requests overlap |
| `MCSpaceActor` | - | symmetry, for TLC |
| `StringDelivery` | what the caller of an API call is promised | abstract: the whole text once, or a failure |
| `StringStream` | streaming/StringStream.scala, its use in api/ | refines `StringDelivery` |
| `StringStream_proofs` | - | invariants, refinement |
| `CommentBoard` | what the conversations of a Thing promise | abstract: comments stay, each under its id, and authors are told where |
| `ThingConversations` | the data of conversations/ThingConversationsCore.scala | what each event does to a forest of comments |
| `RoutingParent` | util/TimeoutChild.scala | a parent and the children of one key |
| `SpaceConversations` | conversations/: manager, actors, transition | composes the two, refines `CommentBoard` |
| `SpaceConversations_proofs` | - | invariants of actors and mail |
| `CommentBoard_proofs` | - | invariants of the comments, refinement |
| `MCSpaceConversations` | - | the comments of an old Space, for TLC |
| `InputGadgets` | display/input/, PageManager, client/Client.scala of the browser client | fields, calls, navigation, rendering |
| `InputGadgets_proofs` | - | invariants, action properties |
| `Upload` | streaming/UploadActor, StreamSendActor, controllers/StreamController | any upload |
| `SpaceCreation` | spaces/SpaceManager, SpaceManagerPersister, SpaceCreator | transactions of several makers |
| `ImportSpace` | imexport/ImportSpaceActor.scala | composes the two |
| `ImportSpace_proofs` | - | invariants of all three |
| `MCImportSpace` | - | the names of the Spaces, for TLC |

A name in a module is the name in the code where TLA+ allows.  Operators marked
`mutant` are faulty variants of the definition that follows them; no
specification uses them.  They serve to confirm that each property would notice
the fault.

### OIDAllocator

`current`, `availableThrough`, `snapshotCount` and `lastSequenceNr` are the fields
of the actor.  `journal`, `snapshot` and `saving` are what Akka Persistence keeps;
`given`, `uses` and `alarms` are history variables.  `persist()` is three steps,
as the code can crash between them: `BeginPersist` (the command, after which other
commands wait), `JournalAlloc` (the event is stored), `AllocPersisted` (the handler
runs).  `Recover`, `ReplayAlloc` and `RecoveryDone` are `receiveRecover`; a crash
may come between any two of them, and a snapshot may be stored at any time later,
or never.  Int arithmetic wraps (`Wrap`) at `MaxInt`.  `given` counts every answer
that holds an index, `uses` only the indices that were asked for: an answer to
`GiveOIDBlock(n)` holds n + 1 of them and the callers drop the last.

### The shard cluster

An event is persisted in the order of `persisting`; while it is not empty commands
wait (`Ready`).  Replay is deterministic, so `stored` holds not the journal but
what a recovery would make of it, and `saving` the same for each snapshot under
way, were it stored.  A node is known by its path: `Start` is a new incarnation
under the same path.  `request[n].id` names the outstanding ask, so that a late
answer to an earlier ask is dropped (`DropAnswer`) as the ask pattern does.

A child allocator outlives the shard that was turned in: it has no handler for the
`Shutdown` it is sent, and the next `actorOf` finds the name taken.  Whether the
exception reaches the manager's supervisor is decided in a library that is not in
`src/`; `ReceiveAssignment` allows both outcomes.  The allocator itself appears as
`AllocatorAlarms`, its ShardFull, at any time.

Nothing is assumed of how fast the network is.  A check may time out at any time, also
of a node that is alive and has the shard (`CheckTimesOut`); an answer of the last
coordinator may arrive after the next one has recovered; a death may be noticed before
or after what the dead node had sent is read.  A restarted node joins only after its
watcher was told of the old incarnation's end.  Two of these break what the code wants,
that no two live nodes ever have one shard: a live node's check times out, and its shard is free for others
while it goes on using it; or a node denies (`AnswerCheck`) the shard that an answer on
its way will give it.  The history variable `disowned` holds the nodes to which one of
these has happened since they asked last, and `OnlyTheDisownedShare` and
`OwnershipIsOnRecord` say that nothing else can go wrong.  A node leaves `disowned` when
it dies or asks anew: it then has no shard, and the coordinator will give it one that
nobody is known to have.

### The Space

`currentState` and `stored` map each Thing to its value: the memory and what a
recovery would rebuild; `saving` is what a recovery would rebuild from each
snapshot under way.  A request that waits is in `pending`, with the state it
captured (`base`): for an OID (`CreateThing`, then `OIDArrives`), for the
publication actor (drafts, publications, deletions of Publishable Things).  The
state passed to the function is what the code computes the result from, even when
`currentState` has moved on.  A draft is kept as the sum of its events.  Replies of
the publication actor go straight to the asker, its notices by way of the router,
so the two are not in order with each other.

`persist()` keeps commands waiting until its handler has run, and the handler is
the rest of the request, so a persist and its handler are one step: a crash between
the two has the effect of a crash after.  (The allocator's handler answers a client, which is why it is
a step of its own there.)

What was captured may be old when the request goes on, and then the change is made to
an old state: `CreateThing`, `Publish` and `readyState` all do this.  `since[c]` are the
Things that have changed since the state of c was captured (`since[Nobody]` the same for
`readyState`), and when a captured state becomes the current one, they are
`overwritten`.  The reply of the publication actor is `late` when it has changed its
drafts again before that reply is taken; `outdated` says that the last thing the Space
heard of its drafts was such a reply (the TODO at SpaceCore.scala:521 admits it; the next
notice mends it).  `MemoryKeepsUp`, `SnapshotsKeepUp`, `ThingsAreKept` and
`DraftsAreKnown` say that these are the only ways in which memory, history, snapshots
and drafts come apart.

`Patient` says whether clients wait for a Space that recovers.  The code means to
stash their requests while `readyState` is under way, but `receiveCommand` is
evaluated once, before `initializing` is set (the comment at SpaceCore.scala:719
doubts it too): the passing run has `Patient = FALSE`, as the code has it.
`SpaceOverlap.cfg` has it TRUE, to show that two clients are enough without it.

### The stream

`sender`, `remainingChunks` (their number: the head is the first that was not
acknowledged), `currentIndex`, `originator` and `recipient` are the
StringStreamSender, `receiver`, `builder` and `latestIndex` the receiver; a chunk is
its index, so that the text is the sequence 0, 1, 2.  `timer` is the running
`currentTimeout`, `timeouts` the ChunkTimeouts that have been sent: cancelling does not
take those back.  The mailbox of the sender appears as three parts (Start, what the
receiver sent, the timeouts), read in any order with each other, since each is filled by
someone else.  Sender and receiver are on different nodes: what goes between them
stays in order and may be lost (`Lose...`, which also stands for mail to an actor that
has stopped).  The asks and Start are local.  `RestartSender` is what supervision does
when `originator.get` throws: the fields are new, the text is the same, and nobody sends
Ready again.

A result is streamed only when it is longer than one chunk (AutowireApiImpl.scala:126),
hence `NumChunksAssumption`; an empty text, for which `remainingChunks.head` would
throw, cannot come here.

### The conversations

A forest of comments is the sequence of its comments in the order in which they
came, each with the id of the one it is under (`under`): responses are only ever
appended, so this is the tree of the code.  What a comment says is a `Post`; here it
is the number of the request that brought it, so that all are different.  `doAdd`
does what the code does with a second primary response to one comment: it goes to the
end of the conversation (`currentConvEnd`).  Events keep the comment as it was sent,
so each replay makes this correction anew.

`RoutingParent` is one key of a RoutingParent.  Its children are numbered as they are
created; `managed` is the ManagedChild, `parentBox` what the parent has to read,
`mailbox[k]` what child k has.  A message for a dying child is meant to be buffered;
`ForwardToDying` does what the code does, which is to drop it.

`SpaceConversations` adds the manager (`state`, `version`: a SpaceState is its number)
and what each child is doing (`child[k]`): it recovers, is ready, persists an event, or
has it `written` but its handler has not run.  `journal` is what a replay of the
Thing's journal gives, since replay is deterministic.  While a child persists, commands
stay in its mailbox (the code stashes them in front of it); a PoisonPill is handled at
once.  A failed write stops the actor (`PersistFails`), and the event may have been
stored all the same (`WriteMayEnd`).  `Crash` takes the whole family, as the actors of
a Space live on one node.  Who may comment, read or delete is a choice.
`outcome[p]` says what has become of each request; `RunTransition` is the import of the
comments of an old Space from MySQL, which is repeated when the Space dies before it
has stored an event of its own.

### The browser's fields

What is typed is numbered: `text[g]` is the last edit of field g, `stored[g]` what
the server has.  An edit is a `Keypress`, which puts the field on `gadgetsBeingEdited`,
or a `QuietEdit` (Backspace, Delete, cut, paste, drop), for which browsers raise no
keypress and the code does nothing; the next blur of a field that was changed is a
`Change`, which saves it without putting it on the list.

`calls` are the calls of alterProperty that are not answered, `requests` what the server
has yet to do for them: each is a request of its own, so `ServerHandles` takes them in
any order and `Answer` comes in any order, too.  A call may fail with or without its
change being made, and it may fail (`TimesOut`, the ask of the controller) and be carried
out afterwards.  `Fails` is what doSaveChange makes of each error: an exception it does
not know (a session that is gone, for instance) ends in a MatchError, the status line
stays at "Saving...", and nobody is told (`unreported`).

A handler of the page and the callbacks of the Futures it completes are one step: the
callbacks are microtasks, which run before the next event.  What waits for the server is
another step.  So a navigation that finds nothing to save, or whose last field is saved,
goes on at once (`GoesOn`: currentHash, currentPageRx), unless its page cannot be made;
its page is then among those that are `rendering`, which wait for standardThings and for
their own beforeRender, until `Display` empties and fills the display.  Until then the
old fields stay on display and can be used.  Several may be rendering at once and are
displayed in any order; one that fails is never displayed.  Whether the new page's
status line keeps its message is left open.  `navigations` counts those that were
begun, each of which is its number; `savePromise` is the one that waits for the fields and
`fullHash` where it goes (a later one replaces it, as in the code), `currentPage` the one that went on last, `shown` the one on display.
`navigateTo` of another URL, and a full reload, leave without asking the fields.

Two history variables hold the fields whose text the code loses track of: `unheard`,
changed without a keypress and not on the list, and `overlapped`, changed while an older
text was being saved.

### Uploads, imports and new Spaces

A block of bytes is its number and a file their sequence.  `GiveBlock`, `AckArrives`,
`TimerFires` and `TimeoutArrives` are the StreamSendActor, which has one block under way
and sends it up to four times; `timeouts` are those that were already in its mailbox when
the timer was cancelled.  `BodyEnds`, `HearTimeout` and `HearSuccess` are the controller.
`ChunkArrives` is the UploadActor, which takes any index higher than the last.  Between
the nodes messages keep their order and may be lost.  `uploaded` is the lazy val of the
file: a handler that looks at it before the end (`LookEarly`) freezes it, and one that
cannot read half a file (`FailEarly`) restarts the actor with nothing.

In `SpaceCreation` each Space has a `maker`, whose steps are the requests it waits
for.  The persisters are a pool, so the check of a name (`CheckSpace`) and the insertion
(`InsertSpace`) of several makers interleave; `status` is the Spaces table, `state` what
the journal of each Space starts with.  Requests and answers may be lost.  A maker whose
failure nobody is told of is `stuck`.

`ImportSpace` puts the ImportSpaceActor between the two: `ProcessBuffer` is the step in
which an upload becomes a maker, GetProgress is what the browser asks once a second.  A
Space that is made by hand begins only once the upload is complete: it meets the import
in the Spaces table alone, where it can still come before, between or after each of the
import's steps.

## 4. Runs

| Run | Question | Bounds |
|---|---|---|
| `OIDAllocator.cfg` | does any order of crashes, recoveries and late snapshots make an OID serve twice, or a snapshot lie? | Ints up to 8, blocks of 2, requests of 1 and 2, four reservations: two snapshots, the alarm and both emergency exits occur |
| `ShardCluster.cfg` | can two nodes own a shard other than by a check that went wrong, is what they own on record, can a recovery forget, is an asking node answered? | two nodes, shards up to 7, snapshots every 2 assignments, two mishaps, any timing, fairness |
| `SpaceActor.cfg` | where do memory, history, snapshots and drafts come apart, and is anything else lost? | two clients that do not wait, one ordinary and one Publishable Thing, two values, four requests, one crash, a snapshot every other event |
| `StringStream.cfg` | does a caller get the whole text or fail, does the sender end? | three chunks, any losses, fairness |
| `SpaceConversations.cfg` | does every comment stay where its author was told, is one actor at work at a time, does every request end? | two old comments, three requests, two children, one timeout, two states of the Space, one crash or failed write, fairness |
| `InputGadgets.cfg` | is what the server lacks on the list, does a navigation go on too early or not at all, is the status line true? | two fields, two pages, two edits, two saves, one failure, two navigations, fairness |
| `ImportSpace.cfg` | is an upload whole, and a Space whole when it is shown or reported? | three blocks, one restart, an import and a Space made by hand of the same name, two questions of the browser |
| `ShardFullAnswered.cfg` (violated) | does a node that turned in its shard get another? | two mishaps, fairness |
| `SpaceOverlap.cfg` (violated) | do memory and history agree with two clients? | two ordinary Things, clients that wait |
| `BufferLost.cfg` (violated) | is a message to a dying child handled in the end? | two requests, one child, no faults, fairness |
| `ImportTruncated.cfg` (violated) | is an import made of the whole file? | two blocks, one question of the browser |
| `SpaceNames.cfg` (violated) | are the names of an owner's Spaces unique? | one block, an import and a Space made by hand |

A mishap is one of: the coordinator stops, a node dies, a message or an answer is
lost, an ask times out although its answer may still come, an allocator raises its
alarm; `MaxMishaps` bounds how often they happen in all, in any mixture (two alarms of
one child, for instance).  A check that times out counts for nothing.  Two nodes are
enough for a conflict over a shard; two mishaps are a handoff and one more thing that goes
wrong around it, or two handoffs.  Shards 0 to 3 are set aside, each node has one and each mishap can use
up one more, so `LastShard` is at least 3 + nodes + mishaps and shards do not run out
(282,097 states).  In `SpaceActor` four requests of
two clients are what it takes to capture a state, change it behind the request's back,
let the request go on and ask once more; every outcome of the waiting (answer, late
answer, time-out, crash) is explored at each (1,020,000 states, with clients and values
as symmetry sets).  In `StringStream` and `Upload` the four attempts of the code bound
everything else; three chunks have a first, a last and one that is neither.

In `SpaceConversations` two requests race as replies to one comment and the third
reads the result or follows the correction; ids go up to 6, so that there is one for
every request, also after the ids of the old comments.  Two children are what a race
between an old and a new one needs.  In `InputGadgets` the
two saves let a field be saved while its last save is not answered, or the waiting
navigation make its own; two navigations let the second replace the first, and two
renderings overlap (1,256,066 states).  `ImportSpace` has 620,668 states.

`CHECK_DEADLOCK FALSE` stands where the model really stops: a cluster in which every
node has its shard and no mishap is left, a Space whose clients have used up their
requests, a stream that has ended, an import that has failed or is done, a page that
was left.

### What the passing runs show

* No OID is used twice by a client, through any crash (`OnlyFreshOIDsUsed`, an
  implementation of `OIDService`), because nothing is given before its block is in
  the journal (`ReservedBeforeGiven`) and every snapshot says what the journal says
  (`SnapshotsMatchJournal`); the last Int is never given.
* Two live nodes own one shard only if one of them was slow to answer a check of a new
  coordinator, or denied a shard that was on its way to it (`OnlyTheDisownedShare`); what
  every other live node owns is on record (`OwnershipIsOnRecord`); a recovering
  coordinator never knows less than its predecessor had stored
  (`RecoveryIsConservative`).  All this on a network of any speed.
* A node that asks for its first shard gets one or dies (`AskingIsAnswered`).
* However requests overlap each other and the readying of the Space, memory
  (`MemoryKeepsUp`) and snapshots (`SnapshotsKeepUp`) differ from the history only about
  Things that a state captured earlier has overwritten, nothing else leaves the history
  without a deletion (`ThingsAreKept`, which is proved and has no run of its own: it
  nearly follows from the other two), and once all is quiet the Space knows its drafts
  as they are, unless the last thing it heard of them was a late reply
  (`DraftsAreKnown`).  What a crash between the two actors' persists does to the content
  of a draft is not claimed: the draft is dropped before the Thing is stored.
* A stream implements `StringDelivery` (`WholeTextOrFailure`): the receiver takes any
  index that is higher than the last, and it is the sender's stop-and-wait that makes it
  the next one.  The sender's optimism after the last attempt is right about the text
  (`CompletionIsEarned`), though the caller may not have it.  A sender that has begun
  ends (`SendingEnds`), or has been restarted.
* The conversations implement `CommentBoard` (`CommentsStay`): no comment is lost,
  moved or given the id of another, though `nextId` is in memory only and the place of a
  comment is not in its event.  Two replies to one comment do not fork a conversation
  (`OneMainLine`); only one actor works on a Thing at a time (`OneWriter`); no request is
  judged by permissions older than those the manager had when it routed the request
  (`NoStalePermission`); readers see what authors were told (`ReadersSeeWhatWasTold`); a
  request is answered once and never dropped unseen (`SentIsWaiting`) and one that
  reached a child ends (`RequestsEnd`); a child that is to die is told so
  (`DyingIsTold`), and a timeout closes nothing for good (`DyingEnds`).
* Whatever fails, times out or comes late, a text that the server lacks is on the list
  of fields to save (`UnsavedIsOnTheList`), also when its page is no longer on display,
  and no navigation goes on while it lacks one (`GoingOnLosesNothing`) - but for the
  fields that were edited without a keypress or during their own save.  A navigation
  never goes on after a later one was begun (`LastNavigationGoesOn`), and one that waits
  goes on (`WaitingEnds`) unless a save fails or the user edits on or leaves.  The status
  line does not say "Saving..." for nothing (`SavingIsTrue`), but after an error that
  doSaveChange does not know.
* What is in the buffer of an upload is a piece of the file without gaps or repetitions
  (`BufferIsInOrder`), and all of it at UploadComplete (`CompleteIsWhole`) unless the
  actor was restarted.  A Space that is made of it is hidden until it has its state
  (`VisibleImportIsWhole`; that the state was made from the whole file is
  `ImportIsWhole`, which fails), and no Space is reported as made that cannot be opened
  (`DoneIsUsable`), whatever fails between the steps.

### What the violated runs show

* `ShardFullIsAnswered`: the coordinator dies after `ShardUnassigned` and before
  `ShardAssigned`; the repeated ShardFull finds no entry and is never answered.
* `MemoryIsHistory` with two clients: two overlapping creations; the second makes
  current a state that lacks the first, and a snapshot makes that permanent.
* `BufferIsReplayed`: `buffer.enqueue(msg)` returns a new Queue and leaves the old one
  empty, so a message for a child that is being stopped is gone.
* `ImportIsWhole`: GetProgress reads the lazy val of the file during the upload; the
  import is then made of what had come by that time.
* `NamesAreUnique`: the check of a name and the insertion are two transactions, the
  check does not see imports that are not finished, and ChangeSpaceStatus checks nothing.

### What the code does without a run of its own

Five more things that the code does are not what its comments want.  They are not runs:
the first four are each an exception that properties of a passing run name, kept in a
history variable, and those properties say that nothing else goes wrong.

* `disowned` (`OnlyTheDisownedShare`): a check that a live node is too slow to answer
  makes its shard free, and the next node that asks gets it
  (QuerkiNodeCoordinator.scala:199), where :29-33 of that file puts not having two nodes
  with one shard above all, and the TODO at :35-37 doubts the timeouts.
* `overwritten` (`MemoryKeepsUp`): besides the overlapping requests of
  `SpaceOverlap.cfg`, `readyState` (SpaceCore.scala:628) takes back what was handled while
  it fetched the identity of the owner; the comment at :646-647 says that it is stashed.
* `unheard` (`GoingOnLosesNothing`): a text that was changed by Backspace, Delete, cut,
  paste or drop is not on the list (TextInputGadget.scala:21), and a navigation, which is
  to "give any outstanding InputGadgets a chance to save their values"
  (PageManager.scala:151), goes on at once.
* `overlapped` (`UnsavedIsOnTheList`): a field that is edited during its save is off the
  list when that save is answered (InputGadgets.scala:80), though the list is of those
  "which haven't yet been saved" (:71).
* What is on display: renderings overlap, and the page of an earlier navigation may be
  displayed over that of a later one (PageManager.scala:287; ThingPage.scala:41-46 fears
  as much).  `LastNavigationGoesOn` is about the current page only; no property says which
  page is displayed.

One thing that holds only under a condition has no run of its own, either: an answer to
`GiveOIDBlock(n)` can be so large that `updateAvailable` wraps before it takes the
minimum; the theorems about `OIDAllocator` that need it say `NoWrap`.

### Fairness

All fairness is of what the scheduler, the journal and the timers do; that a message
arrives is assumed nowhere.

* `StringStream`: actors read their mail (one condition for each actor, not one for each
  message), timers fire and asks time out, all of it weak.
* `ShardCluster`: weak on recovery (the cluster keeps one coordinator running), on
  persist handlers (the journal answers), on repeating an ask that is gone (the ask
  times out) and on handling answers; strong on reading each node's messages, because
  the coordinator's mailbox is read in order and a message at its head disables the
  others only for a while.  Nothing is assumed of restarts of dead nodes, checks,
  snapshots or mishaps.
* `SpaceConversations`: weak on the manager reading its mail and on each child's own
  steps (it recovers, reads, and the journal answers, if only with a failure, which stops
  it).  Nothing is assumed of timeouts, new states or faults.
* `InputGadgets` (`FairSpec`): weak on the calls, as a whole: while one has no result,
  one gets it, if only by the timeout of the ask, and while results are unread, one is
  read.  Nothing is assumed of the user or of rendering.

## 5. Proofs

Eight modules hold theorems, for all values of the constants under the assumptions
that the component modules name (`...Assumption`).  Each proves an inductive invariant
`IInv`, whose parts are named for what they say, and the listed theorems from it.

**`OIDAllocator_proofs`** (positive largest Int, blocks, requests and the buffer no
larger than it): `TypeCorrect`, `ReservationsPrecedeAnswers`, `SnapshotsAgree` and
`LastIntIsKept` are the invariants of the run; `FreshOIDs` is
`Spec => OnlyFreshOIDsUsed`; `ImplementsService` says that an allocator whose
reservations never wrap implements `OIDService`.  `IInv` adds three parts to the
invariants of the run.  `ThroughIsReplay` says that the history field `through` of each
event is what replay computes; without it nothing ties a snapshot to the events before
it.  `MemoryMatchesJournal` says for each phase what the memory of the actor has seen of
the journal: while an event is stored but not handled, memory is one event behind.
`GivenIsReserved` says that `current` lies between what has been used and what is
available, so that the next answer is both new and reserved.  The last two are needed
together: that an answer is reserved follows from where `current` is, and where
`current` is after a recovery follows from the replay.  These hold while no reservation
has wrapped (`NoWrap`); `LastIntNeverGiven` holds without.  `NoReservationWraps` says
when that is: if no request is larger than `largest` and `MaxAllocs` blocks of
`largest + AllocBlockSize` fit in the Ints, nothing wraps, and `ServiceWithinCapacity`
then has `Spec => Service!Spec` without a condition.  The bound `MaxAllocs` is here the
capacity of a shard, counted in reservations; a shard that goes on beyond it may wrap, as
`updateAvailable` takes the min after the sum.

**`ShardCluster_proofs`**: `TypeCorrect`, `RecordIsKept` (`RecoveryIsConservative`),
`OwnersAreOnRecord` (`OwnershipIsOnRecord`) and `OneOwner` (`OnlyTheDisownedShare`), all
of `Spec` as it is, on a network of any speed.  `IInv` says:

* `RecordInStep`: the coordinator's memory may have dropped an assignment that the
  store and the snapshots under way still have, never the reverse, except for the one
  assignment whose event is being persisted;
* `AsksInStep`: the asks of a node are numbered, and of the outstanding one only one
  thing is under way: a message, an event or an answer;
* `ChecksInStep`: the check of a claim that is still heeded is not refuted and has not
  failed, and whom the coordinator buries is dead;
* `ClaimsInStep`: a node that claims a shard - it has it, or a live answer will give it
  the shard, and it is not `disowned` - is on record with it in memory, in the store and
  in every snapshot, has sent nothing that is still to be read, and is alone with it.

The last is what both theorems of ownership follow from.  It is preserved because an
assignment takes a shard that nobody has in memory, because memory and record differ only
by what the first parts allow, and because a stale message or answer is recognised by its
number.  The answer has to be among the claims: the assignment is made when the event is
stored, and the node hears of it any time later.  `disowned` marks just the two steps
after which a claim may no longer be on record; it is cleared only where a node asks
anew, and then it has neither shard nor live answer.

**`SpaceActor_proofs`**: `TypeCorrect`, `MemoryAgrees` (`MemoryKeepsUp`),
`SnapshotsAgree` (`SnapshotsKeepUp`), `DraftsAgree` (`DraftsAreKnown`) and `ThingsStay`
(`ThingsAreKept`), for any number of clients and however their requests overlap.  `IInv`
adds that a state that was captured, by a request or by `readyState`, is the current one
but for the Things that changed since (`CapturesInStep`), so that what is overwritten
when it becomes the current state is just what `since` says; and that a reply which is
not late, and the last of the notices that are under way, are what the publication actor
holds (`DraftsInStep`): the ways of replies and notices differ, and the Space knows its
drafts when nothing is under way, unless a late reply came last.

**`StringStream_proofs`**, for every number of chunks from two up: `TypeCorrect`,
`EarnedCompletion` (`CompletionIsEarned`) and `ImplementsDelivery`
(`Spec => WholeTextOrFailure`).  `IInv` says that the receiver holds an initial part
of the text (`BuilderIsPrefix`), that the sender is at most one chunk ahead of it
(`SenderInStep`), and the same of what is under way: a chunk in the mailbox is at most
one ahead (`ChunksInStep`), an Ack in the mailbox is of a chunk the receiver has
(`AcksInStep`), Ready comes once and first (`ReadyComesFirst`).  The mailboxes are what
makes it inductive: a stale Ack or a chunk sent twice must be harmless at any later time.
The refinement follows, as Complete is under way only when the receiver has all chunks.

**`SpaceConversations_proofs`**: `OneWriterAtATime`, `MemoryIsTheJournal`,
`PermissionsAreFresh`, `ReadersSeeIt`, `DyingAreTold` (`DyingIsTold`).  The proofs of this
module use only the shape of the comments.  `IInv` has the parts `ManagedRuns` (a child
that runs is the one that is managed, and its parent has not been told of its end),
`NothingBefore` (before the Space sends a state there is no child and no request),
`MemoryInStep` (memory is the journal, but for the event under way), `MailInOrder` (the
states in a mailbox never go back, and each request has the state in which it was routed
in front of it) and `ToldIsTrue` (what an author was told is a place in the journal, so
that an actor which recovers has it).  `DyingAreTold` adds `ToldToDie`: the PoisonPill stays
in the mailbox until it is taken, and then Terminated stays with the parent.

**`CommentBoard_proofs`** goes on from there with the comments themselves: `TypeCorrect`,
`NoForks` (`OneMainLine`), `NoRequestIsForgotten` (`SentIsWaiting`), `ImplementsBoard`
(`Spec => CommentsStay`) and `EndOfConv`.  `currentConvEnd` is a recursive function; that
its equation has a solution, and where the solution leads, rests on the order of the
comments: a comment comes before its responses (`Stitched`), so the equation is solved
from the last comment to the first, by the least position at which it is not.
`EndOfConv` is the result: in every forest it ends, at a comment of the forest without a
primary response.  The inductive invariant `BInv` then says that the journal is `Stitched`
and nextId is above every id in it (`JournalWhole`), that each child has the right type and
each request once in its hands or its mail (`ChildrenWhole`), and that these requests are
just those that are neither answered nor lost (`SentIsHeld`).  Two things had to be added:
that nextId is never 0, or a first comment would have the id that stands for the root, and
that before the Space has sent a state the journal holds nothing but the old comments, as
the transition may be repeated.  `NoForks` has one premise, that the old comments do not
fork themselves; the code takes them from MySQL as they are.

**`InputGadgets_proofs`**: `TypeCorrect`, `StatusLineIsTrue` (`SavingIsTrue`),
`NothingIsForgotten` (`UnsavedIsOnTheList`), `NavigationsSaveFirst`
(`GoingOnLosesNothing`), `OnlyTheLastGoesOn` (`LastNavigationGoesOn`).  `IInv` says of
every field that was not changed while it was being saved that all requests under way
carry what it shows, also those whose call has timed out, that a call with a good result
has stored it, and that a field which is neither on the list nor `unheard` is on the
server (`CallsAreOfTheText`); and that a navigation that waits is the last one and waits
for a field (`PromiseIsOfTheLast`).  Requests must be among these, not calls alone: a
request that outlives its call may overwrite what a later call has stored, and is
harmless only because it carries the same text.

**`ImportSpace_proofs`**: `TypeCorrect`, `BufferInOrder`, `UploadIsWhole`,
`ImportsAreShownWhole`, `MadeSpacesAreUsable`.  `IInv` is in two halves.  `UploadInv`:
one block is under way (`SenderInStep`), chunks and Acks in the mailboxes are in order and
not ahead of it (`ChunksInOrder`, `AcksBehind`), the buffer is a piece of the file that
ends with `lastIndex` (`ReceiverInStep`, `BufferEndsWithLast`), and a controller that asks
for the end has had every Ack (`EndIsEarned`).  `CreationInv`: a Space is inserted at most
once (`OneInsertion`), and each step of a maker, each request and each answer under way
implies what the steps before it have put in the table and the journal (`MadeByHand`,
`MadeByImport`).

Only model-checked: liveness (`AskingIsAnswered`, `SendingEnds`, `RequestsEnd`,
`DyingEnds`, `WaitingEnds`), which needs fairness and ENABLED.  What can go
wrong in `RequestsEnd` and `DyingEnds` without any question of fairness, a request or a
PoisonPill that is dropped, is excluded by `NoRequestIsForgotten` and `DyingAreTold`.  All
invariants and action properties of the passing runs, and the three refinements, are
proved.  No module declares a RECURSIVE operator.

## 6. Not modelled

In the modelled components: names, permissions and validation of requests (they refuse
a request and change nothing; where a refusal matters it is a choice); the values of
properties beyond being different; the caches of a Space state; SetState, InitialState
and ChangeModel in `SpaceActor`, and the migration of old Spaces from MySQL; events of
earlier releases (`Old*`); how a quorum is counted in the split-brain resolver (its
outcome, a node that dies, is); journal failures of the allocator, the coordinator and the
Space (their actors stop); notifications about comments, which are sent and forgotten;
ClusterTimeoutChild, the passivation of cluster sharding; the parsing of XML and MySQL
files and the remapping of their OIDs, which are pure; archiving of Spaces; the input
fields of the browser that save at once and wait for nothing (lists, tags, ratings), text
that is set by program (setValue), the answer PropertyNotChangedYet (the code says that
it should never come), an empty hash (showRoot, which navigates once more), and the race
of ThingPage's own two calls (ThingPage.scala:41-46), which is about its title only.

Other components: the user sessions overlay one user's values on a state of the Space
and would need the parts of the SpaceActor named above first; publication events, identity,
notifications, history and apps are logs, lookups and copies around SQL and other
services; QL, the types, the rendering and the ecology are pure or run once at start-up;
photos and email are I/O with outside services; the pages of the browser have layout
and single calls, and no state that outlives them.

Most JavaScript in the repository (jQuery, jQuery UI and its plugins in
`src/jquery-ui-1.10.0.custom`, `src/querki/scalajs/src/main/resources` and
`src/querki/scalajvm/public/javascripts`) comes from elsewhere and is not Querki's own
logic; what there is of its own (`querki-common.js`, `conversations.js`) belongs to the
client before the one in Scala.js.  Querki's own code is the Scala that is modelled here.

The hazard list in `PROJECT.json` names, with a note, each hazard no property covers.
