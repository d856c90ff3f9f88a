# Verification of dht-rs

TLA+ models of dht-rs, a BitTorrent DHT crawler written in Rust on tokio, with
TLC runs on small instances and TLAPS proofs for all values of the constants.
Source paths below are relative to `src/src/`.

## 1. The system

One process runs a *crawler* on one UDP socket. Its receive loop hands every
datagram to the DHT session, else to the trackers, else to uTP. The DHT session
keeps the *routing table*, asks other nodes over *KRPC*, and answers them. What
it hears (announced info hashes, queries) feeds the *peer finder* (which looks
up the peers of a hash), the *sampler* (which asks nodes for hashes they know)
and the *downloader* (which fetches the metadata of a hash from its peers over
uTP or TCP, with or without protocol encryption). A found torrent goes to the
*application*, which stores, tags and serves it.

Everything runs on a multi-threaded tokio runtime: each `await` is a place where
other tasks run, and where a task may be dropped (timeout, abort, shutdown).
Between awaits, tasks still run in parallel; shared state is behind mutexes,
RwLocks or atomics.

| component | source | state | operations | talks to | hard part |
|---|---|---|---|---|---|
| routing table | `dht/routing_table.rs` | buckets, endpoint index, routers | update, add (splits), timeout, next refresh, find | called by the session under a RwLock | long histories; order inside buckets; index kept beside the buckets; wall clock |
| krpc | `krpc/krpc_context.rs` | tid counter, pending map, a oneshot per call | send with timeout, receive, cancel guard | UDP socket; session | races of timeout, answer and abort; tid reuse; loss, duplication |
| DHT session | `dht/dht_session.rs` | table, announced peers | searches, bootstrap, refresh, query handlers | krpc, table, observer | completion order of up to 10 parallel queries; state read before an await |
| messages, bencode | `krpc/messages.rs`, `bencode/object.rs` | none | encode, decode | | partial input |
| node ids, compact forms | `core/nodeid.rs`, `core/compact.rs` | none | XOR, prefix, random id with prefix | | bit boundaries |
| crawler | `crawler/crawler.rs` | hash LRU, switches | datagram demultiplexing, callbacks | all of the above and below | callbacks from many tasks, hysteresis switch |
| peer finder | `crawler/peer_finder.rs` | hash -> task handle, semaphore | add, cancel, cancel all, task | session, crawler | a task that ends while it is cancelled and restarted |
| downloader | `crawler/downloader.rs` | hash -> worker and queue, LRUs | add peer, worker, cancel, incoming | uTP, TCP, crawler | worker exit against new peers; cancel by hash |
| sampler | `crawler/sampler.rs` | endpoint -> next time | add node, sampling task | session, crawler | LRU eviction, early returns |
| UDP tracker, trackers | `bt/udp_tracker.rs`, `bt/tracker*.rs`, `bt/http_tracker.rs` | connection id, pending map, tracker map | connect, announce, scrape | UDP socket | shared connect worker, expiry |
| BitTorrent stream | `bt/bt_stream.rs`, `bt/ext_messages.rs` | peer and local info | handshakes, messages | peers | order of the handshake |
| protocol encryption | `bt/pe_stream.rs` | ciphers, buffers | two handshakes, read, write | peers | synchronisation on unknown padding |
| uTP | `utp/*.rs` (over `vendor/libutp`) | socket state, buffers, wakers | connect, read, write, accept, close | UDP socket | callbacks of a C library between polls |
| storage, tags | `storage.rs`, `tags.rs`, `sql/init.sql` | SQLite tables and a text index | add, tag, search | application | several statements per operation |
| application, web UI | `app.rs`, `main.rs`, `static/` | crawler slot, settings, broadcast | start, stop, settings, tools, events | all | concurrent requests |

What makes each component correct, in one line: the table never misplaces,
loses, duplicates or forgets a contact; each krpc call ends once, with its own
answer, and leaves nothing behind; a search ends, and lets nobody back into its queue whom it has heard of; a hash has
at most one finder task and one worker, and cancelling stops it; a sampled node is
sampled once at a time and again when due; a handshake leaves both sides at the
same position of the stream; a waiting reader or writer is woken; a torrent is in
the table, the index and its tags, or in none; at most one crawler runs.

`PROJECT.json` lists the components with their status and, under `hazards`, the
places where each of these can go wrong.

## 2. Modules

| module | what it is |
|---|---|
| `RoutingTable` | the routing table, whole |
| `ContactSet` | what the table promises: a set of graded contacts |
| `SeqHelpers` | two operations on a `Vec`: filter (`retain`), `swap_remove` |
| `DataLemmas` | lemmas about them, about sums over a finite set, and induction over a set |
| `MCRoutingTable` | 3-bit ids, XOR and leading zeros, and the bound on the clock, for TLC |
| `Krpc` | queries in flight: `krpc_context.rs` under the retry of `do_krpc` |
| `Rpc` | what a caller of `do_krpc` relies on |
| `KrpcProofs` | the theorems about Krpc, that it implements Rpc among them |
| `MCKrpc` | symmetry for TLC |
| `DhtSearch`, `DhtSearchProofs` | the iterative searches for nodes and for peers; theorems |
| `MCDhtSearch` | five nodes for TLC |
| `Bencode`, `Messages` | encoding and decoding, as operators: bencode, and every query and reply |
| `DhtSession`, `MCDhtSession` | query handlers, bootstrap, refresh and main loop over `RoutingTable` and `Messages` |
| `DhtSessionProofs` | the theorems about the table, the messages and the session |
| `PeerFinder` | finder tasks and the crawler's sampling switch |
| `Downloader`, `DownloaderProofs` | download workers; theorems |
| `Sampler` | sampling tasks and the cache of sampled nodes |
| `Crawler`, `CrawlerProofs` | the callbacks that join `PeerFinder`, `Sampler`, the downloader and the application; theorems about it, the finder and the sampler |
| `UdpTracker` | connection id, connect workers, transactions |
| `TrackerManager`, `TrackerProofs` | the map of trackers and the announce tasks, over `UdpTracker`; theorems about both |
| `PeStream` | protocol encryption: both handshakes, and the stream after |
| `Pipe` | what a stream owes its users |
| `PeerWire`, `PeerWireProofs` | BitTorrent handshakes and the exchange of metadata, over `PeStream`; theorems about both |

`PROJECT.json` maps each definition to the lines it stands for.

### RoutingTable

`buckets`, `ips` and `routers` are the fields of the struct; `clock` is what
`SystemTime::now()` shows, which the environment moves, backwards too. Buckets are
numbered from 1. Every public method runs under the session's lock and is one
action: `UpdateNode`, `AddNode` (with all the splits its loop makes: `SplitTimes(bs,
n)` is `split_bucket` n times over, and the splits stay when the last attempt
fails), `NodeTimeout` (with `RemoveNode`), `NextRefreshNode`, `AddRouter`.
`UpdateResult` follows the early returns of `update_node` in their order.
`find_node` changes nothing and is the operator `FindNode`: the buckets its loop
visits, then the K nearest entries. Ids are abstract: `Clz` and `Dist` are the
prefix lengths and distances, arbitrary in the proofs, computed in `MCRoutingTable`.
`KBucket.pending` (unused) and `KBucket.last_seen` (never read) are left out.

### Krpc

A call of `do_krpc` goes `idle -> drawn -> sending -> waiting -> done`. Drawing the
tid (`fetch_add`) and registering the sender are two steps, since other threads run
in between. `sending` and `waiting` are the two await points, where the timeout
or an abort drops the call; whatever ends a call runs its `CancelGuard`
(`Unregister`), except an answer (`Receive`), which disarms it. Removing or
replacing an entry of the map drops the sender in it, which its receiver sees
(`Closing`). `Timeout` puts the call back to `idle` while attempts are left: that is
the loop of `do_krpc`. The network is the set `sent`: an answer to any query ever
sent may arrive at any time, any number of times, or never; only its tid is looked
at. The tid is `seq % TidMod`; `draws` counts draws without wrapping so that
a query has an identity to state properties with.

`Window` bounds reuse: a call ends, and late answers are gone, before `Window`
more tids are drawn. With a large `Window` tids are reused under live calls; with
`Window <= TidMod` they are not. In the code `TidMod` is 65536 and a call lasts 3
seconds; 65536 calls in that time are out of its reach.

### PeerFinder

`pending` is the map of the struct without the handles: a task stands for its own,
and `aborted` holds those aborted. A task goes `queued -> searching -> reporting`,
then to `sleeping` (a further round) or `leaving`, where it waits for the lock of the
map. `queued`, `searching` and `sleeping` are its await points, where alone the
runtime drops an aborted task (`Drop`); one aborted while it reports or leaves goes on.
Callers (`AddHash`, `Cancel`, `CancelAll`) hold the lock of the map throughout, so each is one action
with the notification that ends it; `Notify` is the crawler's
`on_tasks_count_changed`. Permits are the tasks in `Holders`. A hash may be added at any moment, as the web
interface does; the history variable `overtaken` keeps those that were added while a cancelled task
of theirs was still on its way to the lock (`Late`).

### Downloader

A worker goes `queued -> filling -> joining -> filling ...`, through `pausing` when it has
nothing to do, then `leaving` (`JoinSet::shutdown`), `cleanup` (its last call of `cancel`) and
`over`. `queued`, `joining`, `pausing`, and `leaving` with downloads left, are await points.
`Offer` and `Start` are the two ends of `add_peer`, `Unlist` (within `Cleanup` or `IncomingDownload`)
is `cancel`; both hold the lock of the map. `Exit` drops what `worker_main` holds.
`Incoming` stands for `bind_ip`, which the crawler leaves `None`: then only workers call `cancel`.
`JoinPanics` is a download that panics, as `todo!()` in the message decoder makes it.
Peers are not told apart, so `queue` and `active` are numbers. How a download fares is a choice of
three ends. The LRU of hashes is left out: it serves incoming handshakes only.

### DhtSearch

One search of either `kind`. `Spawn` is the top of the loop, `Failed` and `Answer` what `join_next`
yields, `Finish` what follows the loop, aborting what is in flight. An id is its distance to the target, so that ids compare
as numbers. `SortNodeAndUnique` is a stable sort by insertion that makes equal neighbours one, as
the code does (its comment says "based on the NodeId"; the code compares the pairs).
`Answered` keeps the order of the code: on the convergence `break` neither list is cut. `reported`, `unchanged` and `asked` are history.

### DhtSession

Extends `RoutingTable` with `Messages`. A step of the main loop is an action (`Bootstrap`, `SearchEnds`, `Fill`, `TooFew`, `Ping`,
`Pinged`, `Rested`, `Napped`), and so is the end of each `do_krpc` it waits for (`Fails`, `Succeeds`), after which
`Joined` adds the node that answered: the lock of the table is released in between, and the handler
of a query (`ProcessUdp`) may run there. Of a search only whom it may ask is left: the details are those of `DhtSearch`.
`Incoming` are the queries of others after decoding, from packets that may be cut, unknown or
without a valid id. Time is relative: at rest nodes grow older, so that no clock has to run on.
`Flip` lets a node fall silent and come back.

In `Messages` a string is a sequence of cells (an id, an endpoint, a word) of known width, so that
the tests of `parse_nodes` on lengths in bytes are those of the code. `Bencode` works on tokens. What the code decodes by
recursion is read there a token at a time: a state is what is being read, with, in `outer`, what that is part of, which is the stack of
the calls under way (`Read`, `Put`). Encoded data is put together of the encodings of its parts, the entries of a dictionary in the
order of their keys, as the `BTreeMap` writes them. An `Option` is a set with what it holds or nothing, so that `?` is a quantifier
and a missing field leaves no message.

### Sampler, Crawler

A sampling task (slot) goes `queued -> asking -> collecting | pinging -> marking -> reporting`, with a permit
in `asking`, `collecting` and `pinging`. `sampled` is the LRU cache with a mark per endpoint: being sampled (`None`), later, due.
`Crawler` gives each caller (the UDP loop, a sampling slot, a finder task) a place in the callback it runs, since others
run between two calls of it: `has_metadata` (`Enter`), `check_hash_lru`, `add_hash` (`Seek`), `add_peer` (`Peers`). The downloader is
reduced to the worker of a hash: `working`, `storing` (the finder is cancelled, the application not told yet), `leaving`.
`late` is history: hashes for which somebody had been let in when they were stored.

### UdpTracker, TrackerManager

Each call and each connect worker has one request at most, and stands for its transaction id. `Begin` is `connection_id` up to its
await: it uses a valid id, or subscribes to the worker in the state, or starts one. `Connected` and `Broadcast`
are apart, as the lock is dropped in between. `DropCall` is the guard at every await.
An announce task keeps the times of its trackers relative to now; `Abandon` drops the future of a round with its
`JoinSet`. In the crawler `process_udp` of the manager returns false and `add_tracker` refuses `udp` URLs
("TODO"): a UDP tracker takes part only through `add_tracker_instance`, and that its socket is read is assumed of whoever adds it.

### PeStream, Pipe, PeerWire

What is sent is a sequence of tokens that carry the key and position they are encrypted with; read with another
key or at another position they are garbage. Marks are two tokens long and padding may end with the first of them, so that a read can split
or anticipate a mark. `sync_for`, `read_exact` and `write_all` work on buffers over a transport of limited capacity. `PeerWire` puts this
code's end (`me`, of either side) on it, against a peer that does as it likes once encryption is up: handshake, extension handshake,
pieces one after the other, SHA1 check, timeout. A message is one token. `server_handshake` of `BtStream` sends no handshake
of its own, and neither does the model. `IsPipe` says that `wrote` and `read` behave as `Pipe`.

## 3. Runs

| run | shows |
|---|---|
| `rt_invariants` | shape, `Placement`, `EndpointIndex`, `FindNodeCoversBucket`, `RefreshFindsStale`, and that the table implements `ContactSet`: 7 ids of 3 bits, 3 endpoints, buckets of 2, at most 3 buckets |
| `krpc_reuse` | shape, `PendingExact` and `EveryCallEnds`: a tid of one bit, two calls of two attempts, reused at will, over a network that need not deliver |
| `krpc_window` | `AnswersItsQuery` and the refinement of `Rpc` under `Window = TidMod = 4`: three calls of two attempts, where the answer to an attempt may come during the next |
| `search` | `SearchInv` (shape, the result is the nearest of all that was reported, no busy wait), `StopsConverged` (it stands still when a search stops early), `RequeuedInFlight` (whoever has been asked is queued again only while no query to it has ended), `SearchEnds` |
| `session_table` | `DeadForgotten`: a silent node leaves the table; `NeverHot`: the main loop always sleeps or has an answer between two bootstraps |
| `session_queries` | `QueriesInv`: shape of session and table (announced ports are 16 bits), and every answer is read by a node of this code as it was meant (`ReadBack`) |
| `pf_tasks` | shape, `NoDeadEntry`, `SwitchFollows`, `WorkListed`, `EveryTaskEnds`: three tasks of two rounds, two hashes, one permit |
| `dl_workers` | shape, `WorkListed`, `NoDeadEntry`, `IdleEnds`, `StopEnds`: two workers, two hashes, one permit, queues and JoinSets of two, with panics and incoming downloads |
| `dl_panic` | violation: a worker ends without its cleanup (see 6) |
| `crawl` | `CrawlerInv` (shape, `SampledOnce`, `NoStuckMark`: no mark stays behind), `SampleEnds`; `FetchedOnce`, `NoSearchForStored`: a hash is fetched once and not searched for after, but for who was let in before: the race itself is the code's, and these bound what it can do |
| `trackers` | `TrackerInv` (shape, `OneConnect`, `SubscribersHeard`: who waits is told, `NoStrayCall`: an abandoned round leaves no call running, and the drop of a task only those that it spawns), `TransactionsExact`, `RoundServes`, `RoundsEnd` |
| `wire` | `WireInv` (shape, `Agreed`: both ends have one cipher and hash, `NeverRefused`: only an unknown hash is refused), `IsPipe`, `HandshakeEnds`, `Downloaded`: what is downloaded is what was asked for |

Bounds. `rt_invariants`: three bits give every prefix length, ids that share all or no bits with
the node's own, and the two kinds of edge `find_node` stops at; buckets of two
overflow after two insertions, so that full, split and refused buckets all occur,
and the limit of three buckets is reached. The endpoints are symmetric; the ids are
not. The clock takes three values and moves both ways over tables of two endpoints and four ids (`ClockBound`); over larger ones it
rests, since no operation but refresh reads the times. `krpc_reuse`: four draws of a tid of one bit use every tid twice, under live calls. `krpc_window`: six draws of a tid of
two bits use two of them again, and an answer may come up to three draws late, so that it meets the retry of its call, or other calls. `search`: results of two nodes, lists of three, two queries at once and five in all, convergence after two;
five nodes at four endpoints with two ids at one, one id at two, and one of the other IP version, so that lists
are cut, limits met and entries compete. `session_*`: four ids (the null id among them), a router and two nodes, one of which may be reported at the
endpoint of the other; buckets of two, two of them. All queries run against all tables of two nodes in `session_queries`, where 65537 stands for the ports
that do not fit; there nobody falls silent, and no router is found. `pf_tasks`, `dl_workers`: tasks and workers are used once each; two of one hash are enough for a predecessor to meet its
successor, and two hashes for tasks of both to wait for one permit. Queues and JoinSets of two are
filled, refused and drained. Two tasks turn the switch on, and an empty map turns it off. `crawl`: one hash, two finder tasks, two nodes of which the cache holds one, one
permit; at most one of the slots (`MaxBusy`) is at work once the hash has been announced (`MaySample`, `MayAnnounce`). A run whose tasks are used
up stops, hence `CHECK_DEADLOCK FALSE`. `trackers`: an announce task, another caller, two connect workers (used again), a UDP and an HTTP tracker; each reply asks for an interval of its own of none, one or three ticks,
and an error takes two, so that their times and the mean of them differ. `wire`: padding of none or one token, of at most two; two hashes, two pieces; the peer sends three messages, one if encrypted (there TLC completes no download: `Downloaded` says something in plain mode only, and the theorem in both).

Fairness. The runtime polls tasks that are ready and fires timers that are due; nothing is assumed of sockets, the network or
the remote. In `krpc_reuse`: `Draw` of a retry, `Register`, `Timeout`. `search`: the search is
polled and its queries end (that is `EveryCallEnds`). `session_table`: the main loop takes a step when it can, for the
same reason, and its sleeps end; a search's nodes come from what it was told, and each is asked once. `pf_tasks` and `dl_workers`
assume that tasks are polled, timers fire, a search ends, a download ends (its timeout) and that permits reach those who wait, as
tokio's semaphore gives them in order. The strong fairness of `Stopped` is what
`select!` does: with the cancel watch changed, the worker ends at the first poll in which `worker_main`
is pending. Nothing is assumed of the callers: peers may keep coming. In `crawl` the strong fairness of `Samples` is the order of the
semaphore again. In `trackers` the requests of a call or worker end (`MAX_TIMEOUT`) and time passes; the strong fairness of `Woken` is there because
the model has finitely many connect workers where the code spawns new ones. In `wire` both ends are polled during the encrypted handshake and the transport
delivers; after it nothing is assumed.

## 4. Proofs

All proofs are for any values of the constants under the `ASSUME` of each module, which TLC evaluates in the runs.

`DhtSessionProofs`, of the table: `TypeOK`, `Placement` and `EndpointIndex` form an inductive
invariant for any ids, prefix lengths, bucket sizes and limits
(`TableAssumption`). They need each other: a split keeps the
bound on buckets only if it distributes the nodes of one bucket; removal keeps
the index exact only because no endpoint is stored twice. From it, without a further
invariant: `RefreshFindsStale`; the refinement of `ContactSet`, where the work is that
a split keeps the set of contacts (`SplitContacts`) and that an operation changes the one
contact it is about; and `FindNodeCoversBucket`, which also needs `DistanceAssumption`, what
XOR and leading zeros have to do with each other: then the nodes of the bucket of the target are nearer to it than
those of every other bucket, at most K, and so among the K nearest (counting positions).

`DhtSessionProofs`, of the messages: `Encodes(o, obj)` says that wherever an object may begin, the tokens `o` are read as `obj` and nothing more is; `Adds(entries, f)`
that they put the keys of `f` over those a dictionary has. Both are closed under concatenation (`ReadConcat`, by induction over the tokens), so an encoded message
is taken apart along the lines it was put together, and each field is found under its key (`LookUp`). `QueryRoundTrip` is that for the queries; one that has lost its last token is none, since
the dictionary around it is still open. `ReplyRoundTrip` is that for the replies, up to twelve nodes: `parse_nodes` tells the family by the number of bytes,
and thirteen nodes of IPv6 have 494 of them, as nineteen of IPv4 have. Hence `AnswerAssumption` (`K < 13`, 8 in the code).

`DhtSessionProofs`, of the session: the invariant is `SessionIInv`. Its part on the table is the table's own, and holds because every step of the session calls one
method of the table at most (`SessionCalls`, `TableCalled`), by ids and endpoints that came through the decoder (`IncomingForms`). For `ReadBack` the peers of a hash are finitely many,
so that they can be listed, and `find_node` returns K nodes at most: `Nearer` is a strict order of the positions, which in a finite set gives each rank to one (`Ranked`), since
two nodes at one distance have one id and lie in one bucket. `NeverHot` needs `Busy`: whoever found nodes, or has an answer to hear, has had an answer, and of the phases only the bootstrap, its first search and the nap
come before one. The proofs that it holds do not use the bounds of the model (`Targets`, `Mortal`, `Announcers`, `Told`, any number of them). By the same steps the session implements
`ContactSet` (`SessionImplementsContactSet`).

`KrpcProofs`: `PendingExact` holds for any number of calls, tid width and reuse. For
`AnswersItsQuery` the strengthening is `Numbered`: live calls have distinct numbers, at
most `Window` behind the counter, and a query in the network with the number of a
live call is that call's; two numbers that close with equal tids are equal
(`SameTid`). `Refinement` adds `Visible`, that no channel is ever closed by another
call, and maps each step to a step of `Rpc` or to a stutter.

`DhtSearchProofs`: `NearestReported` says that cutting lists never loses a node that mattered, and is far from inductive.
The invariant is `SearchIInv`: the output is the K first of `collected`, which is sorted without like neighbours, and (`LeftOut`)
what was reported and is not in it is no nearer than its first `Cap`, all of which are then there. It survives a reply because
sorting a longer list and removing like neighbours moves no entry farther back (`NoneFarther`): an entry of the old list is still there, with
as many nearer ones at least. The queries in flight are a sum over endpoints (`SpawnFits`, `JoinedFits`), so that `NeverSpins` and the bound `Alpha` need that
there are finitely many endpoints; the bound on peers, finitely many peers. Nothing else is assumed of the replies or their order.
`RequeuedInFlight` needs `AskedKnown`: until the search stops, an endpoint to which a query has been started is in flight or visited. Starting a query puts one in flight,
and every end of one, a failure too, marks its endpoint in the same step.

`CrawlerProofs`, of the finder: `NoDeadEntry` needs that a handle is aborted only after its task was spawned;
`WorkListed` needs `LateAlone`: nothing is listed for a hash that was not overtaken while a cancelled
task of it may still come to the lock. `DownloaderProofs`: `WorkListed` holds even though `cancel` goes
by hash, because whoever removes a worker from the map aborts it under the same lock, and `NoDeadEntry`
because every other end of a worker but the panic comes after its removal. The steps of a worker that
leave the map alone are treated together (`MainStepMap`).

`CrawlerProofs`, of the crawler: every step of it is one of the finder's or leaves the finder alone (`RunsFinder`), so that the finder's
invariant carries over, and only what the crawler adds has to be kept. `SamplerInv`: whoever is marked as being sampled has a task that samples it (`MarkMeant`), and a task's node is so marked and
has no other task, unless the cache has evicted it (`Marked`, `Alone`; `PutIn` drops the least recent).
`CallInv` ties the callbacks to the hashes: nobody past his look at the store is about a stored hash, no worker is at work on it (`StoredLeft`)
and no finder task is listed for it (`Unlisted`), unless it is `late`; from these `FetchedOnce`, and with `WorkListed` of the finder `NoSearchForStored`. The bound `MaxBusy` is a constant, and the theorems hold whatever it is.

`TrackerProofs`: `TransactionsExact` holds because an answer is kept only for a request that is under way
(`AnswersWaited`), so a call that registers after a broadcast has none. `OneConnect` alone is inductive, but `SubscribersHeard`
needs that the channel in the state is that of a worker at work (`WorkerWorks`) and that only calls subscribe and only workers tell
(`Roles`). `NoStrayCall` needs that a task waits for its call only while it announces or stops, or once dropped (`TaskInv`): a task at
rest has none, so `announce` always finds its call idle. `RoundServes` is about a rounded mean: it holds because a mean is at least the least of
its numbers (`MeanBounds`, by induction over finite sets), so that some tracker's time comes no later than `wake` (`Served`), and during a sleep both go down together (`TimesInv`).

`PeerWireProofs`: neither `Agreed` nor `NeverRefused` is inductive, since whether an end goes on depends on tokens that are
somewhere between the two. `Line(x)` is all of these: what `x` has set aside while it synchronises, its buffer, the channel and what the other end is
still writing. The transport moves tokens within it (`SendLines`, `FillLines`), so what is said of the line survives any chunking; an end that acts drops its first tokens (`Drops`) or
adds to the other's last ones (`Puts`). The invariant `StreamInv` says, for each pair of places in the two handshakes (`Pairs`, `Stages`), what the lines hold: keys, padding without the end of a mark, the mark (`MarkFound`: the search finds it at its place
whatever part of it has been read), the hash, the headers, each with its position in the keystream (`ToServer`, `ToClient`), and after the handshake
(`Ahead`, `Talk`) what has been written and not been read, encrypted from where the reader is on. From it follow `Agreed` and that what is read is the next of what was written, so that
every step is one of `Pipe` (`TurnIsPipe`). It holds only while both ends are there (`Open`): whoever goes takes what is under way along.
On top of it `AppInv`: the peer says a handshake, then messages; what this end has written is its greetings and a request for each piece up to the one it waits for (`Progress`); the pieces
it has are in order and among what it has read (`Collected`). With both, `Downloaded`. The proofs assume a transport of at least one token and `Lens \subseteq 0..MaxPad`, no more.

`DataLemmas` has what these share: induction over a set of numbers or a finite set, stated for a set `T` instead of a predicate, which is
what the provers can instantiate; what filtering and `swap_remove` do to a sequence; sums.

Only model-checked: liveness, which is out of the prover's reach (`EveryCallEnds`, `SearchEnds`, `DeadForgotten`, `EveryTaskEnds`, `IdleEnds`, `StopEnds`, `SampleEnds`, `RoundsEnd`,
`HandshakeEnds`). Every other property of a passing run is a theorem.

## 5. What is left

Worth proving next: that the packets of the UDP tracker are read as they were written, once they are modelled below the message, as those of the DHT are. Worth modelling next: the wakers of `utp/wrapper.rs` against a stated contract of libutp, and start and stop of the crawler in `app.rs`.

## 6. Disagreements found

By a run (`dl_panic`): `worker_main` says `expect("The task could not be canceled")`, but `join_next` also yields the panic of a download, which
`todo!()` in the decoder of messages (`bt/bt_stream.rs:447`) makes of a request, piece or cancel message. The worker
ends without "Doing cleanup", its entry stays, and its hash gets no worker any more.

Met while modelling, kept as they are in the modules:

* `find_node` ("Find the closest nodes of the target", `dht/routing_table.rs:136`) stops when its next bucket is the
  first or the last one, before reading it, and walks one way only; `FindNodeCoversBucket` states what it does do.
* `routers` ("The endpoints of the bootstrap node, ignore it"): `add_router` (`:310`) does not remove a node
  already stored at that endpoint; a query may arrive from it while bootstrap resolves its name.
* `add_node` ("If the node already exists, it will update the timestamp"): an id stored at
  one endpoint is stored again from another (`:178`); lookups then find the first only. `DeadForgotten` excepts such nodes.
* `pending_len` ("Get the number of pending tasks"): a task cancelled after its last await removes the
  entry of the task that was added for its hash since (`crawler/peer_finder.rs:169`), which then runs unlisted. `overtaken` names these.
* `worker_main` ("No more job, exit", `crawler/downloader.rs:187`): a peer may have been queued since the queue was found empty (the FIXME of
  `add_peer` suspects as much); `Exit` drops it.
* `SampleInfoHashesReply` writes the number of samples as `sum` (`krpc/messages.rs:523`), documents it as `num` (`:503`) and reads `num` (`:540`): a node
  cannot read the samples of its like. `ReadBack` leaves them out.
* A search passes over nodes "Already visited" (`dht/dht_session.rs:216`, `:320`) or failed ("Mark failed as visited", `:202`), but an endpoint is visited only once a query
  to it has ended. Named by a reply while it is in flight, or before under another id, it is queued, and what the queue holds is asked without another look at
  `visited` (`:172-186`): also after it has answered, where in `get_peers` a failure then forgets its token. `RequeuedInFlight` says what does hold.
* `sort_node_and_unique` ("remove duplicates based on the NodeId", `dht/dht_session.rs:68`) compares id and endpoint.
* A UDP announce with IPv6 peers is read as IPv4: 18 bytes each are a multiple of 6 (`bt/udp_tracker.rs:316`).
* A tracker's interval, in seconds, is taken as milliseconds (`bt/tracker_manager.rs:182`); in `TrackerManager` it is a number of ticks.
* Errors are sent as replies, with `y` = `r`; the receiver fails to read them, so that they count as no answer.

## 7. Not modelled

* uTP (`utp/`): which callback comes when is decided inside the vendored C++ library; `PeStream` assumes a reliable stream below.
* Storage and tags: an operation is a few SQL statements in a transaction, whose meaning is SQLite's; `Crawler` keeps the set of stored hashes.
* Application and web interface: HTTP handlers around one mutex; `add_hash` on request is `UserAdds`, stop is `CancelAll` and `Stop`.
* Torrent files, `http_tracker.rs`, `tracker.rs`: parsing and formatting without state. `dual_stack.rs` is used by nobody.
* Within the downloader, the LRUs of hashes and of own addresses (for incoming connections, which the crawler does not accept) and the order of TCP and uTP.
* Cryptography: keys, hashes and ciphers are perfect. Log output, texts, and limits on sizes of packets.
