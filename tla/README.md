# A TLA+ model of Flubber

Flubber embeds an IPFS node, runs as a REST and WebSocket server, and offers
authenticated direct messages, pub-sub topics and file storage to programs of
any language. This directory holds TLA+ modules that model it, TLC
configurations that check them on small instances, and TLAPS proofs of what
matters most for every instance. Paths below are relative to the repository's
source root; `file:line` refers to the code as it is there.

Contents: the system, its hard parts, the modules, the runs, the fairness, the
proofs, what is abstracted or left out, the disagreements found, and the plan.

## 1. The system: inventory

| Component | Code | State it keeps | Operations |
|---|---|---|---|
| Direct messages | `p2p/p2p.go`, `did/did.go`, `blockchain/blockchain.go`, `node/node.go` (putDM, getDM) | `DMs`, a package-level slice without a lock | `SendDM`, the stream handler, PUT and GET /DM |
| Topic subscriptions | `ipfs/ipfs.go:556-620`, `node/node.go:199-303, 333-380` | `Subscriptions`, a package-level map without a lock; a buffer per subscription inside pubsub | PUT/GET /subscriptions, PUT/GET /messages, GET /peers, GET /stream/messages |
| File storage | `node/node.go:382-430`, `ipfs/ipfs.go:158-179` | `Files`, a package-level slice without a lock; an in-memory block repository; pins at Pinata | PUT and GET /files |
| DAG walk | `w3s/car.go:34-293` | per walk: channels, a work queue, a count of items in progress, the visit lock | `Walk`, `WalkDepth`, sequential or parallel, with error-handler options |
| CAR files | `w3s/car.go:320-638` | per call: the set of seen nodes; the reader's position; the batch buffer | `WriteCar`, `NewCarReader`, `Next`, `LoadCar` (fast and slow) |
| Node life cycle | `main.go`, `node/node.go:82-190` | `node.json` on disk; `CurrentConfig`, `nodeRun`, the listening port, the node's context | `flubber node init`, `flubber node run`, Ctrl-C |
| IPLD storage | `ipfs/ipfs.go:95-247, 431-476`, `w3s/put.go` | the node's repository with its pins; what Web3.Storage keeps | `Put` (pin, walk, upload), `Get`, `OpenRead`; `Has` and `OpenWrite` change nothing |
| IPNS publication | `ipfs/ipfs.go:478-544`, `w3s/name.go` | the name record at Web3.Storage | lookup and publication of a record |
| Bootstrap connections | `ipfs/ipfs.go:622-654` | a WaitGroup per start | one goroutine per peer, and the wait for all |
| Web3.Storage client | `w3s/client.go`, `put.go`, `w3s.go`, `status.go`, `opts.go` | an API token | one HTTP request per call |
| The rest | `w3s/fs`, `util`, the `did` command, GET /did, key generation | none | queries and conversions |

How they interact. Every REST request, every WebSocket stream and every
incoming libp2p stream runs in a goroutine of its own; they share the three
package variables above and `nodeRun`. PUT /files publishes on the topic
"files" through the subscriptions. Direct messages resolve both ends through
ENS, a service whose records change at any time. `WriteCar` drives the DAG
walk with its own visit function and store; `IPFSCore.Put` drives `WriteCar`
through the node's DAG service and uploads the result, and a program that has
put a node may publish it under an IPNS name. `node run` starts the IPFS node,
subscribes it to two topics, connects to the bootstrap peers, installs the
stream handler and starts the REST server, in that order; Ctrl-C cancels the context everything runs under.

What makes each component correct:

- *Direct messages*: what GET /DM shows came from the peer its DID named, is
  on the node its recipient's DID named, and appears once, down to the single
  field of an entry; a message whose append overlaps no other is not lost; every
  request and every handler comes to an end once the calls it makes return.
- *Subscriptions*: a message that has arrived is in one place, is read in
  order by each of several readers, and reaches the subscription that was there;
  requests end by their deadline.
- *Files*: the list, the repository, the pins and the announcements agree.
- *DAG walk*: every reachable node is entered once, fetched by one goroutine,
  and nothing is missed or left running when the walk returns.
- *CAR files*: what is written is complete, what is loaded is a prefix of it,
  and a load that succeeds early has done so for one of two known reasons.
- *IPLD storage*: a successful put has brought the whole DAG to Web3.Storage,
  which never has a part of one, however late it takes what was sent; a put ends
  when its data is there or its context is done.
- *IPNS publication*: a successful publication is kept until a newer one, and a
  name leads to a DAG that is stored.
- *Life cycle*: inits that do not race keep one identity per user; a node that
  says it runs is usable and panics over no later request; a start comes to an
  end; a node that is asked to stop does, whatever its handlers wait for.

What is hard to test: two goroutines inside `append` or inside a map; a record
or a file that changes between two reads; a deadline beside a ready message;
the termination count of the parallel walk; goroutines waiting on unbuffered
channels after main has left; streams cut at a byte that matters; a batch
written over one that a store may have kept; a call whose answer is lost after
or before it took effect; a process that ends between two steps. `PROJECT.json`
lists each at its line, with the properties that would catch it, or with the
reason why none does: some of them do go wrong in the code, and the models say
how without a statement of the repository to hold against it. The repository
has no tests.

## 2. The modules

| Module | Models | Remarks |
|---|---|---|
| `GoSlice` | a Go slice header, its backing array, and `append` with its stores | used by the two modules with an unlocked list |
| `DirectMessages` | the sending goroutine, the stream handler, ENS, the network, process stops | the core module; `IInv` is its inductive invariant |
| `AuthenticatedMail` | what direct messages promise | abstract; `DirectMessages` implements it |
| `Subscriptions` | the map, its readers and writers, streams, shutdown | pubsub is external |
| `TopicDelivery` | what a subscription promises | abstract; `Subscriptions` implements it |
| `FileStore` | PUT and GET /files | Pinata, the file and its owner are external |
| `WalkOptions` | DAG, options and error handlers | shared by the two walks |
| `WalkDepth` | `WalkDepth`, which chooses between the walks | composes the next two |
| `ParallelWalk` | `parallelWalkDepth` | main and a worker meet in one step |
| `SequentialWalk` | `sequentialWalkDepth` | the recursion as a stack of calls |
| `GraphWalk` | what any walk promises | abstract; both walks implement it |
| `DepthFirst` | the order of a depth-first walk: one list of what is to be met | abstract; `SequentialWalk` implements it |
| `CarFile` | `WriteCar`, the stream, `LoadCar` | |
| `NodeLifecycle` | `node init`, `node run`, node.json, bootstrap connections, early requests and streams | |
| `DagStore` | `IPFSCore.Put`, `Get`, `OpenRead`, `PinIPLDBlockToW3S`, `PutCar` with its effect and its answer | the network and Web3.Storage are external |
| `DagPinning` | what `IPFSCore.Put` promises | abstract; `DagStore` implements it |
| `IpnsPublish` | publication and lookup of one IPNS name | the name service is external |
| `DagNames` | a program that puts, publishes, looks up and gets | composes `DagStore` and `IpnsPublish` |
| `GoSliceProofs`, `DirectMessagesProofs`, `SubscriptionsProofs`, `FileStoreProofs`, `WalkDepthProofs`, `CarFileProofs`, `NodeLifecycleProofs`, `DagProofs` | | TLAPS proofs about the modules they are named after; `DagProofs` is about `DagStore` and `DagNames` |
| `MC*` | the constants and symmetry of the runs | |

Definitions preceded by a comment that begins with FAULT are plausible bugs of
the definition that follows. No specification uses them; each shows that a
property would catch that bug.

How state and actions correspond to the code:

**DirectMessages.** `pc` is the place of a `SendDM` call, `hpc` that of a
stream handler. `ens` maps a DID to the peer its `ipfsKey` record decodes to,
or to `NoKey`. `PutDM` is putDM up to the DID checks; `ResolveRecipient`,
`FindPeer`, `OpenStream` and `WriteDM` are the calls of `SendDM` in order, each
with its error return. `ReadDM`, `ResolveSender` and the append steps are
the handler. `append` is split where two goroutines can come between: loading
the header and making room (`AppendLoad`), storing the header (`AppendHeader`)
and storing each field of the element (`AppendField`), in any order, since
nothing orders them for another goroutine. An element is a function of `Fields`,
and the value of a field is named after the append that has stored it, so that an
entry with the Did of one message and the text of another is a state of the
model. `arr` holds the backing arrays, named after the
append that allocated them, and `hdr[n]` is `DMs` of node n. `toBound` and
`claimBound` are history variables: the peers a DID named while it mattered;
`clashed` is another, the appends that have overlapped one.
`Stop` ends a process with its goroutines and its list; `Rebind` changes a
record; `LoseStream` breaks a connection.

**AuthenticatedMail.** A mail is posted, routed by the record of that moment,
accepted by the record of that moment or refused; a node may show any part of
what it has accepted and may forget. The refinement maps `accept`, `store` and
`done` to accepted, and the visible list to the node's box.

**Subscriptions.** Handles are what `Subscribe` returns; `table` is the map.
The write of a map entry is two steps, so that `MapFault` (the runtime's check
for concurrent map access) can happen in between. `ReadNext` is one turn of
the loop in `GetSubscriptionMessages` and `Answer` its exit; with both the
context done and a message ready, either may happen. A stream alternates between
`s.Next` (`StreamNext`) and `WriteJSON` (`StreamWritten`), which need not return
while the client does not read; only in `s.Next` does it see the context
(`StreamEnd`). `due` and `full` are
histories of what arrived and of what a full buffer dropped.

**TopicDelivery.** Each arrival at a handle has a fate: waiting, dropped,
taken by a reader, or lost. Only the oldest that waits can be read, and a fate
never changes afterwards. The refinement computes fates from `due`, `full`, the
buffers and the answers.

**FileStore.** One action per call of putFiles: read, `PutIPFSBlock`,
`PinFile` (which reads the file again), the append as above, publication.
`Earlier` are requests that were answered one by one before the model starts;
`FilesAfter` is the list they have left. `Pinned` are requests that are about to
append then. A restart takes requests, blocks and list away and leaves the pins
and what has been announced.

**ParallelWalk.** `queue` is the variable `next` followed by `todoQueue` (the
code keeps `todoQueue` empty while `next` is undefined). A send on an
unbuffered channel and its receive are one step. The visit function is split
into its test and its insertion, which the lock must protect. Cancellation,
the deferred calls and the workers' exits are actions. The error handler is
what `addHandler` builds from the options; with two of them it calls itself,
and the walk crashes. `entered`, `expanded`, `skipped` and `failed` are
histories that map the walk to `GraphWalk`.

**SequentialWalk.** `stack` holds the active calls with their remaining links.

**DepthFirst.** A depth-first walk keeps one list, `todo`. The next node leaves
its head; if it is new it is visited and becomes `open`, and its links are put
in front of the list, unless they cannot be read. The refinement
(`WalkDepth`) makes `todo` of the links that the calls on the stack have still
to follow, the innermost call's first (`ToFollow`); following a link and
returning from a call change nothing there.

**WalkDepth.** The options include `Concurrency`, and above one the walk is the
parallel one. The two walks share the result and the histories, so the
refinement of `GraphWalk` is stated once and holds of both. The variables
of the walk that is not called stay as if it had returned.

**CarFile.** A section is four bytes, two of length and two of body: these are
the places where the end of a stream makes a difference to `LdRead`. The
header is read like a section. `WriteCar` takes the roots one after another;
`toVisit` is what the recursion of a walk has still to visit, as in
`DepthFirst`, and a node is written when it is read, before its links are
followed. The writer or the store of nodes may fail at any of them. The stream
ends after any number of bytes, any nodes are too
big, the store may fail at any block, and it has PutMany or not. Any sections
arrive `damaged`, which their CID gives away, or `blank`, with 0 for their
length: in an empty section `CidFromReader` finds a plain io.EOF, which `Next`
and the loaders take for the end of the CAR (`BlankEnds`). The slices that
PutMany has been given are in `kept`, as they look now: `buf[:0]` keeps the
array, so that each block of a later batch is written over them (`Overwritten`).

**NodeLifecycle.** `dialing` holds the goroutines of `connectToPeers` that have
not called Done. `os.WriteFile` is a truncation and a write. `nodeRun` is
assigned after the server goroutine has started. Shutdown is cancel, close of
the IPFS node, shutdown of the server, exit. A request is a `call` with one
answer or a `stream`. Either may be refused without a use of `nodeRun`
(`Refuse`). A call that finds none panics, and Recovery answers 500; a stream
whose connection has been upgraded cannot be answered any more and is cut. No
handler need return: an open stream looks at its context between two messages
only (`CloseStream`), and the process ends without waiting for it.

**DagStore.** A `Put` is `Put` (up to DecodeNode), `AddAndPin` (the recursive
pin, which fetches nothing, and NewClient), `WriteNode` for each node the walk
of `WriteCar` reads, and `PutCar` in three: the request (`SendCar`), its effect
(`TakeCar`) and its answer (`UploadOk`, `UploadFails`). The effect may come before
the answer, after a call that has failed or been cancelled, after a restart, or
never. The walk is abstracted to the set `car` of the
nodes written and the set `Wanted` of those it has still to read: its order and
its options are the subject of the walk modules. A read takes a block from the
repository, other nodes (`elsewhere`) or Web3.Storage (`remote`), and waits
while nobody has it. `garbled` are nodes of other peers whose data does not
decode.

**DagPinning.** A node becomes durable with all it leads to at one moment, of a
call or after one that has failed; success means that it has; failure says
nothing.

**IpnsPublish.** The record of the name is `record`. `Sequence` asks for the
record under the path, as the code does, finds none there and gives 1; so the
validity, which comes from the publisher's clock, decides which record is
newer. `PutName` covers refusals and lost answers, `GetName` absent, damaged and
lost ones. Nothing verifies the signature of a record, and the error beside a
record that was decoded in part is passed over, so that `GetName` may find the
CID of anything, or no path at all, over which it panics. `known` and `changed`
are histories: what had been acknowledged when a lookup began, and the lookups
that were given another value than the record's.

**DagNames.** A program publishes a node after its `Put` has returned nil, and
another gets what its lookup has found. That order is an assumption about the
program; the repository has no caller. Token and process are shared.

## 3. The runs

Every run is `tlc -config <run>.cfg <module>`. Passing runs:

| Run | Shows | Bounds |
|---|---|---|
| DirectMessages | IInv, Authentic, RightRecipient, AtMostOnce, LossNeedsOverlap, ImplementsMail | 3 nodes, two of which claim the same DID, 3 DIDs (one not ENS), 2 messages, 1 rebinding, 1 stop |
| DirectMessagesLive | Answered, HandlerEnds | 1 message, 2 rebindings, 2 stops |
| Subscriptions | DeliveryInv, ReachesSubscriber, ImplementsDelivery, GetsAnswered | 1 topic that is not subscribed to at first, 1 GET, 2 PUTs, 1 stream, 2 messages (one of them of another node, which may not decode), a buffer of 1 and two of 2 |
| SubscriptionsTwoReaders | InOrder | the same topic, 2 GETs, 2 PUTs, 3 messages (two of another node), a buffer of 1 and one of 2 |
| WalkDepth | WalkInv, FetchedOnce, ImplementsWalk, WalksDepthFirst, WalkReturns, no deadlock | 5 nodes, one of them below three others at two depths, no concurrency and 2 workers, 5 choices of handlers |
| FileStore | FilesInv, AnnouncedIsPinned, OkIsComplete, LossNeedsOverlap | 2 earlier requests, one about to append and 2 more, entries of 2 fields, 2 contents, 1 edit, 1 stop |
| CarFile | CarInv, RoundTrip, SuccessExplained, SlicesAreReused, WholeCarLoads | 5 nodes, 3 overlapping roots, batches of 2 |
| NodeLifecycle | LifecycleInv, IdentityIsKept, RunningIsUsable, PanicIsEarly, StartEnds, StopsWhenAsked | 2 inits, 2 runs, 2 bootstrap peers, 1 request, 1 kill |
| DagNames | StoreInv, NamesInv, PanicIsForeign, LookupIsCurrent, ResolvedIsStored, ImplementsPinning, PutsEnd | a DAG of depth two whose leaf other nodes may offer, 2 puts with a publication each, 1 lookup with a get, 2 clock values, 1 stop |

The invariants that end in Inv are the state invariants of their modules: the
type invariant with the property the module's state hangs on. `DeliveryInv`
contains `InOnePlace` (a message is in one place), `WalkInv` `CountIsRight` (the
count that ends the parallel walk), `FilesInv` `ListedIsStored`, `CarInv`
`StoredPrefix`, `LifecycleInv` `BrokenFileHasCause`, `StoreInv` `RemoteIsClosed`
(Web3.Storage never has a part of a DAG), and `NamesInv` `PublishedIsKept`.

Why the bounds are enough for these questions. Two appends overlap in every
way two can. In FileStore the two earlier entries fill their array; the third
append makes room for four, the fourth stores in place and the fifth grows the
array again, so that appends meet both in one array and across a reallocation,
and after a stop the list begins from nothing. In DirectMessages two messages
never meet in an array with spare room: that case, the only one in which two
appends store into one slot and mix their fields, is covered for any number of
messages by the proofs of section 5, and by FileStore, which has the same
append. In DirectMessages, nodes a and b claim one DID of which a is the
owner at first, and the rebinding can hand it over before, during and after a
check. In Subscriptions the two PUTs replace one handle by another and write
the map together; the buffer of one is filled by a single message, in the
others two messages wait for their order to matter. SubscriptionsTwoReaders
leaves the stream out, which owns its handle, and has two GETs that may find the
same one. (In the code all buffers
have the same size; the model gives each handle its own so that both cases
happen in one run.) The DAG of the walks has a node with several parents, the
only shape in which two workers meet at one node, and it is shared at two
depths, where depth-first and other orders differ. The options of a walk are
chosen in its initial state: no handler, one of each kind, two of them,
SkipRoot, a node that an earlier walk has seen, with and without concurrency. A
CAR with three overlapping roots has a root that is reached from another.
BatchLimit 1 gives full, partial and empty last batches. In DagNames a put may
need a node that only the other put or the network can bring; two clock values
make two publications equal, older or newer; the stop falls between any two
steps.

Symmetry is used only in FileStore and SubscriptionsTwoReaders, which check
invariants, and only for sets whose members nothing orders: requests, contents,
GETs and the messages of other nodes. Deadlock is checked in WalkDepth, where a
walk that has returned stutters; elsewhere the system really may come to rest
(all requests answered) and the check is off.

Runs that end in a violation each check one statement of the repository:

| Run | Statement | What the code does |
|---|---|---|
| ParallelWalkReport | OnMissing is triggered on a missing node (`w3s/car.go:104`) | the parallel walk reports the root (`w3s/car.go:217`) |
| ParallelWalkTwoHandlers | IgnoreMissing continues (`w3s/car.go:91`) | two handlers recurse without end (`w3s/car.go:47`) |
| CarFileTruncated | don't pretend this is a clean EOF (`w3s/car.go:623`) | a cut right after a length is one (`w3s/car.go:633`) |

More disagreements are visible in the models, but have no run of their own,
because nothing in the repository says the contrary in so many words: two
handlers that append to `DMs` together lose a message, or leave an entry mixed of
two (`p2p/p2p.go:71`; `LossNeedsOverlap` says that nothing else does; the
"delivered" of line 70 stays in a buffer that is never flushed, and what reads it
at line 141 is commented out); two PUT /files do the same to `Files`, and answer
200 (`node/node.go:409`); a section whose length arrives as 0 ends a load
successfully (`w3s/car.go:574`; `SuccessExplained`), and a slice given to PutMany
is overwritten by the next batch (`w3s/car.go:496`; `SlicesAreReused`); two inits
that run together report two identities (`main.go:90`; `raced`); a second PUT
/subscriptions strands what the first subscription has buffered (`ipfs/ipfs.go:561`; `StoreEnds` leaves the old
handle open and out of the map); a node whose `Did` is a bare name, as
`README.md:28` has it, resolves the empty name and does not start
(`node/node.go:128`; the reason `"name"`); a node whose port is refused
logs it and reports that it has started (`node/node.go:171`; `rest` is
`"refused"`); every IPNS record has sequence number 1, because the current one is
looked up under the wrong name (`ipfs/ipfs.go:517`; `Sequence`); a read of a block
that does not decode panics (`ipfs/ipfs.go:123`; the place `"panic"`); and the
link writer stores nothing, while `Has` answers the opposite of what its name
says (`ipfs/ipfs.go:96, 106`; deterministic, and without an action here).

## 4. Fairness

Safety needs none. The liveness runs assume weak fairness of the steps that a
goroutine takes on its own, because the Go scheduler runs every runnable
goroutine:

- *DirectMessages*: each sender and handler step; the calls they wait for (ENS,
  the DHT, NewStream) return with a result or an error. Nothing makes a
  message, a record change or a restart happen, and a handler whose stream
  neither carries data nor breaks may wait for ever: `HandlerEnds` speaks only
  of the others.
- *Subscriptions*: a timer fires (`Expire`), a context that is done ends the loop
  of a GET (`Answer`): a select between a done context and a ready message
  does not choose the message for ever. Reading is not assumed to be fair for
  GETs, and nothing is assumed of streams: WriteJSON has no deadline.
- *WalkDepth*: of the parallel walk, main as one process and each worker as one;
  of the sequential walk, its only goroutine; getLinks returns. Nothing says
  which ready case of a select is taken.
- *NodeLifecycle*: a process that starts or has received Ctrl-C goes on
  (ResolveENS, NewNode and node.Close return; an attempt to connect to a
  bootstrap peer succeeds or times out). Handlers need not return: a stream does
  not, and the calls of the others have no deadline. No one has to run
  a command or press Ctrl-C.
- *DagNames*: a put goes on while the node it needs next is at hand, and
  Web3.Storage answers or the connection breaks. A read fails by itself only
  when its context is done or what it has found does not decode; nothing else
  ends a put that waits for a node nobody has, and `PutsEnd` does not promise it.

## 5. The proofs

Every invariant and every safety property that a passing run checks is also a
theorem, for all values of the constants that the assumptions allow. The
passing runs check the properties that the last column names.

| Module | Theorem | States |
|---|---|---|
| `DirectMessagesProofs` | `IInvInvariant` | IInv |
| | `MailIsAuthentic` | Authentic |
| | `MailIsForRecipient` | RightRecipient |
| | `MailIsShownOnce` | AtMostOnce |
| | `OnlyOverlapsLoseMail` | LossNeedsOverlap |
| | `MessagesAreMail` | ImplementsMail: `AuthenticatedMail` is refined |
| `SubscriptionsProofs` | `MessagesHaveOnePlace` | DeliveryInv |
| | `AnswersAreInOrder` | InOrder |
| | `OwnMessagesArrive` | ReachesSubscriber |
| | `SubscriptionsDeliver` | ImplementsDelivery: `TopicDelivery` is refined |
| `FileStoreProofs` | `ListIsBacked` | FilesInv |
| | `AnnouncementsLast` | AnnouncedIsPinned |
| | `OkKeepsItsPromise` | OkIsComplete |
| | `OnlyOverlapsLoseFiles` | LossNeedsOverlap |
| `WalkDepthProofs` | `CountIsKept` | WalkInv |
| | `NodesAreFetchedOnce` | FetchedOnce |
| | `WalksAreGraphWalks` | ImplementsWalk: both walks refine `GraphWalk` |
| | `SequentialIsDepthFirst` | WalksDepthFirst: the sequential walk refines `DepthFirst` |
| `CarFileProofs` | `StoreIsGivenAPrefix` | CarInv |
| | `SuccessStopsForAReason` | SuccessExplained |
| | `KeptSlicesAreOverwritten` | SlicesAreReused |
| | `FailuresHaveAReason` | WholeCarLoads |
| | `CarsRoundTrip` | RoundTrip |
| `NodeLifecycleProofs` | `FileIsExplained` | LifecycleInv |
| | `OneIdentity` | IdentityIsKept |
| | `NodeIsUsable` | RunningIsUsable |
| | `PanicsAreEarly` | PanicIsEarly |
| `DagProofs`, of `DagStore` | `NothingIsPartial`, `PanicsAreForeign` | StoreInv, PanicIsForeign |
| | `PutKeepsItsPromise` | ImplementsPinning: `DagPinning` is refined |
| `DagProofs`, of `DagNames` | `StoreUnderNames`, `PromiseUnderNames` | the same of the composition |
| | `PublishedIsKeptOrReplaced` | NamesInv |
| | `LookupsAreCurrent` | LookupIsCurrent |
| | `NamesLeadToWholeDags` | ResolvedIsStored |

Each module also proves its inductive invariant (`IInvInvariant`,
`LossInvInvariant`, `DepthInvInvariant`, `NInvInvariant`), on which the others
rest. A refinement theorem shows that initial states are initial states and
that every step is a step of the abstract specification or changes nothing
there.

**Assumptions.** They are the named ASSUMEs of the modules, and TLC evaluates
them on every run. None says that a set is finite but that of the walk's workers
(`Concurrency` is a number of goroutines), and none bounds a sequence.
- `SliceAssumption`: the header is no field of an element.

- `DMAssumption`: ENS DIDs are DIDs, every node has a configured DID, the
  initial records are nodes or `NoKey`.
- `SubscriptionsAssumption`: the kinds of requests and messages have different
  names, and every buffer has room for one message.
- `FileAssumption`: an earlier request is listed once, an entry has a CID and a
  size, and "no file" and "no CID" are no contents.
- `WalkAssumption`: no node links to the root. A CID is a hash of a node with
  its links, so that a DAG has no cycle; the walks rely on it only to tell the
  call for the root from others. The rest of the graph is arbitrary.
- `CarAssumption`: the header is no node. The graph is arbitrary, cyclic too.
- `LifecycleAssumption`: processes and peers have different names.
- `DagAssumption`, `ClockAssumption`: links are nodes, a time is a number. The
  graph may be cyclic or infinite.
- Elsewhere the null values are none of the things they stand for the absence
  of, and the bounds on stops, edits and the like are natural numbers.

**Direct messages.** None of the properties is inductive: all speak of what a
slice shows, and a header that is stored late may point into an array that has
been written since. `IInv` ties the pieces together. `StageInv` relates sender
and handler. `BoundInv` says that the histories contain what the records named
when it mattered. `ArrayInv` says that an array belongs to the append that
allocated it and holds only fields of messages of the same node that have made
that store. `HeaderInv` and `TargetInv` say that a stored header, and one about
to be stored, lies within an array of the same node. `PlaceInv` says that every
array has the fields of a message at the one place its append chose. That appends
race needs no case of its own: `TargetInv` holds for every pending append at once.
`LossInv` is about the messages whose append has overlapped no other
(`Listing`, for each node): a completed one is whole in the slice and in every
slice that a pending append will store, and before its end (`KeptIn`), so that
nothing writes over it; one that is still appending is alone (`PendingIn`).
Where none have overlapped, all elements are whole (`CleanIn`). `GoSliceProofs`
shows once, for both users of append, that making room, storing the header and
storing a field keep this. The status of
a mail is read off the two goroutines, and its moves are those of
`AuthenticatedMail`; what a node shows has been accepted there, which is why the
box of the mail is never too large.

**Subscriptions.** `PlaceInv` says that no message has two places and that those
without one do not decode or were with a stream that has gone; `OrderInv` that
buffers are in the order of arrival and answers older than buffers. Readers of
one handle never meet, because each turn of a loop takes the head of the buffer
and appends it to one answer in one step. For the refinement, the fate of an
arrival is computed from its place (`FateOf`); the step lemmas show which fates a
step changes, at most one.

**Files.** The slice is treated as above, with one list and with the earlier
requests as its beginning. `StageInv` says what a request has stored, pinned and
read in a given place, `SliceInv` and `PlaceInv` which fields the arrays hold,
and `CountInv` that no slice is longer than the appends that have begun. `FilesAfter` is a recursive function: a least
counterexample shows that its equation has a solution, hence that it satisfies
it, and another that after n requests the slice lists them in order.

**The walks.** The lock makes the two halves of visit one step (`VisitInv`), so
that what a worker is about to enter has not been entered; `FetchInv` gives each
entered and unsettled node to one worker. `AccountInv` is what makes the end of
the parallel walk right: while the count is exact nothing that can be reached is
lost, and once a worker has given up the count exceeds the busy workers and
never falls back, so that it does not come to zero. In the sequential walk, what
can be reached and has not been entered waits in the links of a call on the
stack (`OpenInv`). For the order, `ToFollow` of a stack is the links of its top
before those of the rest, which again needs a least counterexample, and
`OrderInv` says that what visit has seen is what it was given and what it visited.

**CAR files.** What has been seen is what has been written, each node once
(`FileInv`); the roots and the links of what was seen are seen or still to be
visited (`VisitInv`), and nothing but what every closed set with the roots
contains ever is (`LedInv`). When nothing is left the file therefore holds
`Reachable`. `LoadInv` says that stored and buffered blocks are the sections read,
in order (`Holds`), none of them damaged, empty or too big; a load that has
returned stopped where `AtEnd` let it. `SlicesInv` says that every slice that was
given to PutMany is the current batch written over the last one.

**Life cycle.** Unless two inits have passed the check of node.json together, at
most one is about to write it, and an init that is done finds what it wrote
(`FileInv`); a run has loaded what is still there (`ConfigInv`); and a process in
a given place has done all that comes before (`StageInv`). A request that has
come after the start message finds `nodeRun` assigned, which nothing takes back
(`EarlyInv`).

**DAGs and names.** `Dag` is defined by closed sets, so that it is the least one
with its top (`DagIsLeast`) without any recursion. A CAR never holds a node that
the DAG of its put does not have, and when nothing is wanted it is closed and so
holds all of it. What is on its way to Web3.Storage is the whole DAG of its put,
whatever has become of the call, and has arrived when it is no longer on its way
(`SentInv`). What was put, written or uploaded has been decoded. The records
at the name service are ordered by their validity (all have sequence number 1);
a record that was acknowledged, or known to a lookup on its way, is not newer
than the one at the service (`OrderInv`), and a record is made of what is stored
(`StoredInv`).

**Only model-checked** is liveness: `Answered`, `HandlerEnds`, `GetsAnswered`,
`WalkReturns`, `StartEnds`, `StopsWhenAsked` and `PutsEnd`. They need fairness and ENABLED, which are out of the prover's reach.
So are the disagreements, which are counterexamples.

## 6. Abstractions, and what is not modelled

- *Cryptography and libp2p*: a node is identified with its peer ID, and
  NewStream reaches the holder of that ID or fails. A process, and so a peer
  ID, runs at most once at a time.
- *Slices*: a header is stored in one step, and so is each field of an
  element. On a 64-bit machine a header is three words and a string two, and a
  reader may see a mixture of two stores; that is not modelled. Mixtures of
  fields are: an entry with the CID of one file and the size of another is a
  state of the FileStore run, and the theorems about both lists cover it. The copy
  of an array that grows is one step, at the moment the header is loaded.
- *Calls that return*: FindPeer, ResolveENS, NewStream, Pinata, NewNode and
  node.Close return with a result or an error. Some of them have no deadline in
  the code; what happens while one of them hangs is that its request, and for the
  last two the start and the stop, hang too.
- *Stream data* is a whole message or nothing; a message that does not parse
  has an empty DID and is dropped like one whose DID is not valid.
- *Pubsub* hands a message to all open subscriptions of the node at once and
  drops it where a buffer is full. Messages between nodes are `Remote`.
- *Concurrent WriteCar*: no caller passes a Concurrency option to `WriteCar`;
  with one, workers would write to one stream without a lock (`w3s/car.go:596`).
- *CAR contents*: hashing is the comparison with the CID, which a damaged
  section fails unless its length has become 0; what other lengths do to the
  sections behind is that the CID does not match or the stream ends inside one; version and codec errors of a header do not occur in what
  `WriteCar` writes.
- *IPLD nodes*: a CID fixes its links; the order in which the walk of a put
  reads them, and the sections of its CAR, belong to the walk and CAR modules.
  The repository's garbage collection is off, and nothing is unpinned.
- *The name service* keeps one record and compares records as IPNS asks. A
  record is not refused for having expired: 48 hours are longer than anything
  modelled.
- *Not modelled*: `Has`, `OpenWrite` and its commit, which change no state;
  `Status`, `Pin` and `Get` of the Web3.Storage client with the decoding of their
  JSON answers, which nothing calls; the file wrappers of `w3s/fs`, which nothing
  uses; the `did` command and GET /did (stateless queries); key generation;
  logging. `PROJECT.json` has the reason for each.

## 7. The plan

Done, in this order: `GoSlice` and `DirectMessages` with their proofs and
`AuthenticatedMail`; `Subscriptions`; `GraphWalk`, `WalkOptions` and the two
walks; `FileStore`; `CarFile`; `NodeLifecycle`; then `WalkDepth`, the earlier
requests of `FileStore`, `DagPinning`, `DagStore`, `IpnsPublish` and `DagNames`, the
bootstrap connections, and `TopicDelivery`. Last came what happens beside the
result of a call: the single stores of an append, the sections that arrive empty
and the array that batches share, a stream inside WriteJSON, handlers that do not
return, an upload that is taken late, and records that arrive changed.

A composition of `FileStore` and `Subscriptions` was considered and left out: an
announcement is one PUT /messages more, about which `ReachesSubscriber` and
`ImplementsDelivery` already speak. A parallel `WriteCar` has no caller.

`DepthFirst` was first a recursive definition of the order, and `WriteCar` wrote
the DAG of a root in one step; as state machines, the two have become theorems
as well.

What is left:

1. Lemmas of a few proof modules are stated for one component and would serve
   another: least elements of sets of naturals (`FileStoreProofs`,
   `WalkDepthProofs`, `DagProofs`), sequences and their elements (`CarFileProofs`,
   `SubscriptionsProofs`). They can move to a module of their own.
2. The safety part of termination: a variant that every step of a put, a walk
   or a load decreases, so that liveness is left with fairness alone.
