# HNS DANE Browser: verification project

TLA+ models of the HNS DANE Browser, TLC runs that check them on small instances, and
TLAPS proofs of the properties that matter most, for all values of the constants. Paths
below are those of the repository; `C`, `S`, `P`, `D`, `R` stand for the `lib.rs` of
`hns-chain`, `hns-sync`, `hns-p2p`, for `hns-p2p/src/dns_relay.rs` and for the `lib.rs` of
`hns-browser-runtime`. `PROJECT.json` lists the lines every definition models.

## 1. The system

The browser resolves Handshake (HNS) names without trusting a resolver. It keeps a chain of
block headers, fetches Urkel proofs of names under the best header from peers, validates
DNSSEC from the proven delegation down, matches TLSA records against the certificate of the
origin, and serves the page to a WebView through a loopback proxy.

```text
Android / iOS shell      BrowserProxyCoordinator, HnsProxyController
   | android-ffi, ios-ffi: handles, mailboxes, buffers
loopback proxy           hns-loopback-proxy (listener, HTTP/CONNECT, local TLS identities)
   | gateway requests
browser runtime          hns-browser-runtime: locks, policy, resolver layers, reports
   |            |                 |                    |
resolver     header sync      peer book            origin transport
hns-resolver hns-sync         hns-p2p              hns-gateway, hns-dane,
hns-dnssec   hns-chain        peers.sqlite,        hns-transport
hns-urkel    headers.sqlite   DNS relay client
resources.sqlite
```

### Components

| Component | State | Operations | Hard behaviour | Correct when |
|---|---|---|---|---|
| Header chain (`hns-chain`) | tables `headers_by_hash`, `hash_by_height`, `best_hash` | `insert_genesis`, `insert_header(s)`, promotion, reorganisation | two transactions per insertion, threads that race for genesis, ties, mixed batches | the index is the chain to the best header, the best header is a heaviest one and only gains work |
| Header sync (`hns-sync`) | staged ranges, the race under way, outcomes of peers | checkpoint prefetch, race for pages, ingest | answers out of order, drops, reorganising peers, crash between commits | ticks end, the chain catches up, honest peers are not charged |
| P2P session (`hns-p2p`) | handshake state, pending packets, tracked proof | handshake, `getheaders`, `getproof`, `getaddr` | packets early, twice, in pieces; failing writes | answers match requests, a peer is booked once |
| Peer manager and store (`hns-p2p`) | score, height, ban of each address; `peers.sqlite` | `record_*`, selection, row-wise save | several writers with books of different age | no ban is shortened, no row lost |
| DNS relay client (`dns_relay.rs`) | own peer book, pool, cooldowns, budget | refresh, replenish, exchange, alternate, persist | a long exchange between two merges; limits of pool and handshakes | no banned peer is asked, a capable peer gets the query |
| Proof provider and resource cache (`R`, `hns-resolver`) | `resources.sqlite`, `peer_state` lock | cached lookup, live fetch, prune, evict, clear, reset | four reads at four moments next to a moving tip | an answer was true at a best header of its time |
| Resolver (`hns-resolver`) | targets left, fetched key sets, endpoint cache | delegated resolution, CNAME chains, referrals, inline children, denial | servers that answer anything, transports in a fixed order | every answer rests on the proven DS; one honest server suffices |
| DNSSEC (`hns-dnssec`) | none | DS, DNSKEY, RRSIG, NSEC, NSEC3 | wrap-around, opt-out, zone cuts, wildcards | an accepted denial is true of the zone |
| Relay exchanges (`R`) | flights under way, observed peers | join or lead, publish, report, retry | callers that join at any moment | everyone is answered; blame meets the right peers |
| Gateway request (`R`) | layer reached, fallback marks, events | lookups through four layers, response, trace | fallbacks remembered for a request, provenance read off a log | questions stay within policy, reports say what happened |
| Browser runtime (`R`) | weak registry, three locks, policy revision, proxy generation | sync, status, maintenance, requests, proxy start | several runtimes of one directory, cancelled waits | stores replaced alone, calls return |
| Gateway plan (`hns-gateway`), DANE (`hns-dane`) | none | address, service, TLSA, trust mode; certificate policy and evidence | several answers about one origin, records a certificate carries itself | the policy is that of the port connected to |
| Transport (`hns-transport`) | pool, verifiers, session stores, Alt-Svc | fetch, upgrade, retry, promote | caches shared by threads and policies, resumed sessions | no verdict speaks for another policy or host |
| Loopback proxy (`hns-loopback-proxy`) | listener, workers, streams, limiter windows, identities | accept, serve, stop, drop | stop racing accept, from a worker or a callback; cut bodies | stop joins all, one truthful response, framing kept |
| FFI bridges | handle registries, mailboxes, buffers | create, start, policy, take status, destroy | locks released around long calls | no stale policy, no orphan, no use after destroy |
| Android coordinator and override queue | one coordinator per Activity, one queue per process | navigate, start, apply, clear, claim, revoke, retire | late callbacks of older Activities, platform calls that fail half way | routes only while in force; pages load as routed; proxies end |

### How they interact

- `sync_once` takes `sync_lock`, the `maintenance` lock for reading and `peer_state`, in that
  order; a gateway request takes `maintenance` for reading, a proof fetch `peer_state` as
  well. `clear_resolver_cache`, `install_header_snapshot` and `reset_headers_from_peers`
  take `sync_lock` and `maintenance` for writing. `sync_status` takes `maintenance` for
  reading only and still opens the header chain. Runtimes of one directory share the locks.
- The DNS relay client lives as long as the runtime. It merges its book with
  `peers.sqlite` under `peer_state` before and after a resolution, not during it.
- A worker of the loopback proxy calls the runtime, which plans (`hns-gateway`), resolves and
  fetches (`hns-transport`); an observer carries the outcome to the bridge's mailbox.
- The Android coordinators share one process-global override queue; callbacks run on the
  main looper, proxies are started and joined on one lifecycle worker.

The hazards in `PROJECT.json` are the places in this code where a test would hardly reach
the interesting case; each names the properties that would catch it, or says why none does.

## 2. Modules

| Module | Models | Uses |
|---|---|---|
| `TipStore` | abstract: what readers of the header store may rely on | |
| `HeaderChain` | `hns-chain` on SQLite and the runtime threads that open it | refines `TipStore` |
| `HeaderSync` | sync ticks of `hns-sync` on the racing path the runtime configures | keeps the steps of `TipStore` |
| `PeerSession` | one conversation with a peer: `PeerConnection`, `HeaderSyncSession`, their callers | |
| `PeerManager` | operators: scores, bans, records, outbound order | |
| `RelayPeers` | `peers.sqlite` with chain threads and the DNS relay client | `PeerManager` |
| `ProofCache` | `GatewayProofProvider`, the resource cache, ticks and maintenance around it | `PeerManager` |
| `Dnssec` | operators: `hns-dnssec` on abstract records | |
| `DenialProofs` | every denial a small signed zone can publish, against the zone | `Dnssec` |
| `DelegatedResolver` | delegated resolution of `hns-resolver` | `Dnssec` |
| `RelayExchange` | coalesced relay exchanges and DNSSEC retries | |
| `GatewayResolution` | one gateway request: resolver layers, events, trace, response, status | |
| `BrowserRuntime` | calls on runtimes of one directory: locks, policies, proxy generations | |
| `OriginPlan` | `resolve_origin_request` of `hns-gateway` | |
| `DanePolicy`, `DaneEvidence` | `hns-dane`; what a certificate may claim about itself | |
| `OriginTransport` | caches, locks and retries of `TcpHttpTransport` | `DanePolicy` |
| `OriginWire` | HTTP/1.1 messages on a kept connection | |
| `ListenerLifecycle` | abstract: what one proxy generation promises its owner | |
| `OwnedListener` | accept thread, workers, reaper and stops of the proxy | refines `ListenerLifecycle` |
| `LoopbackRequest` | the handler of one request, with a stop at any step | |
| `HttpFraming` | heads and bodies as the proxy reads and rewrites them | |
| `RequestRateLimiter`, `IdentityStore` | the limiter and the local certificates of a generation | |
| `IosBridge`, `AndroidBridge` | `ios-ffi`; `android-ffi` with `NativeBridge.kt` | |
| `OverrideQueue` | `BrowserProxyOverrideOperationQueue` | |
| `ProxyCoordinator` | `BrowserProxyCoordinator` of several Activities | `OverrideQueue` |
| `HeaderChainProofs`, `PeerProofs`, `ProofCacheProofs`, `LoopbackProofs`, `RelayExchangeProofs`, `BrowserRuntimeProofs`, `OriginTransportProofs`, `ProxyCoordinatorProofs` | proofs about the component named (`BrowserRuntimeProofs`: also `AndroidBridge`, `IosBridge`; `LoopbackProofs`: `OwnedListener`, `LoopbackRequest`, `IdentityStore`, `RequestRateLimiter`; `PeerProofs`: `RelayPeers`, `PeerSession`, `HeaderSync`) | |
| `MC*` | instances for TLC; those with a `focus` let one part move at a time | |

Components that only meet through a narrow interface are checked side by side in one run: the
variable `focus` picks the part that moves, the others rest in their initial states. A part
stands for its neighbours by choices: `GatewayResolution` takes any verdict of the validator,
`OriginTransport` any answer of an origin, `LoopbackRequest` any result of its backend. So what a
part promises holds whatever the neighbour does.

### Header store, sync and peers

*HeaderChain.* A SQLite transaction is one step. `insert_headers` reads the batch header by
header (`SkipKnown`, `AcceptHeader`, `EndBatch`, `RejectBatch`), decides (`NothingNew`,
`ValidatedBatch`), commits `put_headers` (`PutHeaders`) and promotes in a second transaction:
`KeepBest`, `PromoteTips` (the cheap upserts for an extension) or `PromoteFork` (the
rewrite of the height index). `insert_genesis` is `PutGenesis` or `GenesisDuplicate`, then
`PromoteGenesis`. Between any two of these steps the status threads run, a storage error
sends the thread back, or the process dies and all threads start afresh on what was
committed. Headers are model values with a parent, their work, and two facts, whether their
bits are the expected ones and whether the hash meets the target.

*HeaderSync.* A tick prefetches the ranges after the sync checkpoints (`Prefetch`, in any order of
arrival), applies those whose parent is known (`ApplyRange`), then races for one page at a
time: `RaceHandshake`, `WinRace` by the first useful page, `SkipPeer`, `PeerFails`. Ingestion
keeps its two commits. Honest peers are full nodes on some branch, which answer
`getheaders` from the first locator hash they know and may reorganise to a heavier branch at
any time (external); faulty ones advertise any height and send any of `FaultyPages`.

*PeerSession.* Every caller of `hns-sync` (race, proof, `sync_peer`, discovery) drives one
connection: connect, handshake, requests, booking. The peer sends any sequence of packets in
pieces that need not end where a packet does; what arrives early waits in `pending`. Reads time out,
writes and the peer store fail.

*PeerManager and RelayPeers.* A peer book is a function from addresses to score, height and time
left of the ban. The chain threads load, change and save a book under `peer_state`. The relay
client refreshes its own book, replenishes the pool (leaders of address groups first, the peer that
supplied the proof last), asks, tries one alternate, persists, and later hears of DNSSEC
failures. Saving is row by row, so an error or crash saves any part. Merges take the maximum
of scores, heights and bans, as `merge_dns_relay_peer_state` does.

*ProofCache.* A resolution is the chain of reads of `cached_records`: the row (`Lookup`), the best
header (`CheckAnchor`), its height (`ReadHeight`), the peers (`Serve`, `LocalChainNotCurrent`).
`ProofUnavailable` leads to one fetch: `LockPeers` reads the best header and chooses peers,
`ProofStored` or `AskFails` ask them one after another, `SavePeers` releases the lock, and
the reads are made again. The tick moves the best header any number of times while it holds
`peer_state` (what `TipStore` allows), then prunes and evicts. Maintenance runs alone. A
faulty peer sends any root, name and value; a proof is accepted for a pending request only
and if its path leads to the root (the verdict of `UrkelProof::verify`).

### Resolver and relay

*Dnssec and DenialProofs.* Names are sequences of labels, records have the data their type is
read for; a signature holds its key and its text and verifies for exactly these. DNSKEY
rdata and type bit maps stay bytes, because key tags and bit map windows are computed from them.
`DenialProofs` puts every combination of NSEC and NSEC3 records a zone publishes to the
validators and compares the verdict with the zone. What it asks of NSEC name errors below a cut is
weaker than of NSEC3 ones, because of finding 4; `ResolutionSound` judges an empty answer by the
deepest zone on the chain.

*DelegatedResolver.* `run` is the attempt in progress on one target; `run.pc` says which answer it
waits for, `todo` which targets follow. The proof answers itself, delegates, or leads to the
discovery of authoritative DoH endpoints; UDP, TCP after a DNSSEC failure, and DoH follow one
another. A child zone comes by referral (`Referred`, `ChildKeysAnswered`) or in an answer
signed inline (`InlineDsAnswered`, `InlineKeysAnswered`). One set of validation operators, with
and without a child, stands for the parent and child variants of the code.

*RelayExchange.* `JoinFlight` takes `live_queries`, `Exchange` runs under the client's mutex,
publication comes before `RemoveFlight`. Each thread notes the peers whose responses it was
handed; a failed validation reports them and leads to one retry.

### Runtime and bridges

*GatewayResolution.* The layers of `android_gateway_resolver` are steps (`layer`), with the marks that
make later lookups of a request start further down. Every DNS exchange is pushed to the event
log; the summary, the trace, the response head and the status the observer gets are computed
from it as the code does. Data that no property tells apart (JSON layout, wording) is left out.

*BrowserRuntime.* A call is a record with its stage and the locks it holds. Dropping the last
handle lets the weak registry entry die only when no call is under way on it. A session identifier
is 32 random bytes in the code; the model names it after the caller that generated it, so that
distinct draws differ, and the draw may fail (`R:1285`).

*IosBridge, AndroidBridge.* The registry lock is one step; opening, starting, stopping and
joining happen outside it, so a call looks again at what it saw. On Android a runtime is a bare
address: `NativeBridge.kt`'s read-write lock is what keeps it alive, and it is part of the model.

### Origin and loopback proxy

*OriginPlan* asks the resolver one question at a time. *OriginTransport* makes each lock section a step:
taking and returning pooled connections, the verifier of a policy, its handshakes and last
successes, the session store, Alt-Svc knowledge. *OriginWire* reads a token stream. *DaneEvidence*
lets a server put a certificate's evidence together from published and invented pieces.

*OwnedListener* has one action per step of accept, register, worker end, stop and join. A stop can come
from outside threads, twice, from a worker, from the accept thread in a callback, or by drop, which
hands the accept thread to the reaper. *LoopbackRequest* follows a worker from `handle_client`
to the last byte. *HttpFraming* rewrites heads and relays bodies unit by unit; the reference is
how any HTTP/1.1 party reads a head.

### Android proxy

Every handler of the coordinator is one step on the main thread, with the reconciliation it
ends in. The override the platform may be using is a *set*, because a call that throws may
or may not have taken effect. Proxies are numbered in order of their start. Left out because
they cannot differ or do not steer: operation ids, executors that reject work, the host of a
status context.

## 3. Runs

| Run | Result | Shows |
|---|---|---|
| `header_chain` | pass | tree, index, heaviest tip, refinement of `TipStore`, genesis race, and that without a fault the store gets its genesis tip |
| `genesis_restart` | violation | a fault between the two commits of `insert_genesis` leaves a store no open can initialise (finding) |
| `header_sync` | pass | a reorganising and a faulty peer, prefetch, drop, crash: store promise, no honest peer charged, ticks end, the chain catches up; conversations with a peer that sends anything |
| `sync_restart` | violation | a crash between `put_headers` and promotion of a full page leaves the best header behind for good (finding) |
| `relay_peers` | pass | no ban shortened, no banned peer asked, resolutions end and are answered, with failing writes and a crash |
| `proof_cache` | pass | answers true at a best header of their time, verified rows only, lookups keep being answered |
| `loopback` | pass | a stop closes and joins everything and returns, whoever calls it; refinement of `ListenerLifecycle`; one truthful response per request; the Activities that own proxies: ownership of the override, published routes in force, pages loaded as routed, own joins before starts, navigations end, proxies are joined |
| `origin` | pass | plan and evidence (`TrustedEvidence`), transport, messages on both sides of the proxy (`MessageFraming`); the identity store under eviction, leases, renumbering and a stop; the limiter under old clock readings |
| `resolver` | pass | answers rest on the proven DS, one honest server suffices, denials are true of the zone, shared relay exchanges |
| `dnskey` | violation | a key set signed by an added key alone passes (finding) |
| `cut_denial` | violation | the parent's NSEC record at a delegation denies a record of the signed child (finding) |
| `runtime` | pass | exclusion and progress of calls, routes within policy, true reports; handles of both bridges under calls that overlap (`AndroidSafety`, `IosSafety`), mailboxes and buffers within their limits (`OutputSafety`) |

Every property of a passing run has a mutant: a definition changed the way a plausible bug
would change the code, under which TLC finds the property violated. Several properties are
conjunctions of named parts; each part is a definition of its own with its statement.

### Bounds, and why they are enough

- `header_chain`: eight headers with a fork that ties and then overtakes, a wrong checkpoint,
  a header without work and one with wrong bits, batches up to three (all sequences of them),
  a sync and a status thread, one crash or error. Three headers per batch are the least with
  which a batch can mix an extension and a fork.
- `header_sync`: pages of two headers stand for 2000, so four headers are two pages and a fork of
  one header fits into a page; the locator is exact for chains of this height (its gaps begin
  after ten headers). Two peers, one crash, one dropped connection, two pages per tick: less
  than the chain, so a tick ends at its limit, too. Four packets per conversation allow a handshake
  with both orders of version and verack and two answers.
- `relay_peers`: two addresses. The one the store begins with fails in every way any number of
  times; a chain thread may discover the other, which works, so resolutions with no capable peer
  happen, too. Scores are
  scaled (reward <= transient < ban, `MaxScore` for `i32::MAX`); a unit of time is longer than
  a resolution, a cooldown one unit, bans one and two.
- `proof_cache`: two resolutions of one name, a chain and a heavier branch with different name
  trees (one value, another value, absence), two moves of the best header, one fault, a
  window and a lag of one block for 144, a limit that keeps no value at all, a faulty peer
  asked before the honest one, and one peer asked per fetch for eight, so that ranking decides.
- `loopback`: two outside threads, two clients for one permit (admission, overload and reuse of the
  permit), one request with hosts of every class, bodies up to two units; two Activities, two hosts that are
  scopes of their own, three calls of the Activities, one failed start or platform call: show, displace,
  navigate.
- `origin`: three scenarios of the transport: one thread with three requests (pool, Alt-Svc and
  policies one after another, every cache of size one), two threads that race, two threads
  of different hosts with one policy and resumption. Plans: requests of every scheme and port
  class against answers that are missing, insecure, empty, aliased, or move the port. Wire: two
  replies on a connection, any three tokens of a stray origin. Framing: two fields of every kind that matters.
  The identity store: two workers, a hook, three hosts for a cache of two, an access counter that ends
  at three, so that it is renumbered; the limiter: two hosts whose keys may collide, a window of three
  ticks and instants up to one tick old.
- `resolver`: a parent zone with NSEC and a child with NSEC3, honest and faulty servers, whose
  answers are put together from all published records, stale signatures, wildcards, truncation and
  silence; denial over small zones with wildcard, delegations and opt-out; two threads, two
  peers and two questions for the relay.
- `runtime`: two handles of one directory and two callers of one call each suffice for every pair of
  operations to overlap; ten requests with conflicting option headers; two threads at each bridge, one
  more start than the registry holds.

In the runs with `focus`, parts rest when their work is done, so deadlock is not checked there;
what must end is stated as a property.

### Fairness

- `HeaderChain`: weak fairness of the steps that open the store and insert genesis; the shells
  call sync and status again and again.
- `HeaderSync`: weak fairness of the runner's steps. Ticks are scheduled for ever and every wait
  ends with the timeout of a connection. Peers, bans, drops and crashes are not fair. `CatchesUp`
  supposes that a faulty peer does not win the race for every page for ever.
- `RelayPeers`: weak fairness of a resolution (timeouts of 3 s) and of the release of
  `peer_state`; strong fairness of the steps that acquire it, since other threads come and go.
- `ProofCache`: strong fairness of each resolution and of ticks, for the same reason, with
  the enabling conditions written out. Nothing makes faulty peers answer.
- `ProxyCoordinator`: the main looper and the worker run what is queued and the platform
  answers (weak fairness, enabling conditions written out). Activities need not call.
- `OwnedListener`, `LoopbackRequest`: threads run; a handler runs on once the stop was requested,
  because its reads and writes have timeouts and its sockets are shut. Before that a client may hold
  its worker.
- `RelayExchange`, `BrowserRuntime`: threads run (weak fairness); locks need not be fair, since every thread
  takes each a bounded number of times. Replacing the stores may take for ever: that calls return then
  supposes that it does not, while a cancelled proxy request returns in any case.

### Findings

1. `C:558`: `insert_genesis` commits the header before `best_hash`. A crash or error between
   them makes every later open fail with `DuplicateHeader`, while `docs/plan.md:211` has "Can
   survive restart and continue."
2. `C:688`: `put_headers` is committed before the promotion. After a crash between them peers
   send a full page of duplicates and the loop ends at `accepted == 0` (`S:799`) in every tick;
   `docs/plan.md:249`: "Restart resumes from stored tip." A snapshot import interrupted at its last
   batch has the same cause.
3. `hns-dnssec/src/lib.rs:665`: `validate_dnskey_rrset` accepts a key set signed by any of its keys, and
   the match with a DS record is tested apart from it; `docs/security-model.md:179` asks that an answer
   "validates against the HNS-proven DS RRset." The passing run `resolver` therefore
   supposes key sets without added keys (`AddedKeys = FALSE`); `dnskey` is the same run with one.
4. `hns-dnssec/src/lib.rs:787`: `validate_nsec_name_error` takes any NSEC record that covers the name, and the
   parent's at a delegation covers every name of the child. A response with NXDOMAIN is validated
   under the parent's keys before a referral is looked for (`hns-resolver/src/lib.rs:2472`), so it denies
   records the signed child publishes; `docs/security-model.md:185` wants "the parent DNSKEY chain, child
   DS RRset, child DNSKEY RRset, and child NSEC/NSEC3 no-data proof" for an empty child-zone answer. In
   `resolver` no server sends this record for a name of the child (`CutDenials = FALSE`); in
   `cut_denial` one does, and the question is for an address the child has. With the requests of
   `resolver` TLC finds the no-data side of it, too: the record denies the child's SOA
   (`validate_nsec_no_data`, `hns-dnssec/src/lib.rs:731`).

Seen while modelling, without a run of their own:

- `D:925`: the handshake budget is spent on peers without the relay service, which never lose rank
  and leave their cooldown together; with more of them than the budget a capable peer has no turn,
  while `docs/experimental-hns-p2p-dns-relay.md:184` says "One capable peer is still sufficient."
- `BrowserProxyCoordinator.kt:490`: a start that is on the worker when its Activity is displaced is
  retired only after the next Activity may have queued its own; the comment at line 20 says
  "Process-lifetime serialization keeps old proxy joins ahead of replacement starts." `OwnJoinsFirst`
  is the part of it that holds.
- The relay merges lose rewards and bring old heights back (`R:3531`, comment at 3480,
  `docs/experimental-hns-p2p-dns-relay.md:62`). Ticks keep rows of the last 144 blocks while
  `docs/security-model.md:161` speaks of rows "not anchored to the current tip" (harmless, since a
  row is served at the tip only).
- In compatibility mode the recursive resolver is also used after `ProofUnavailable`,
  `LocalChainNotCurrent` and `NoNameserverAddress`, and the trace then has `hnsProof` "verified" for
  an answer with the AD bit; `TraceTruthful` says what distinguishes it. Error responses of the proxy
  carry no resolver policy.
- An ICANN relay that fails after the head was sent reports the metadata of a 502, and a chunked
  body that is cut reaches the client delimited by the end of the stream (the exceptions in
  `MetadataMatches` and `ClientReadsRelay`).
- The limiter's clock is read before its lock, so a window holds up to the longest delay between
  the two (`WindowHolds`).
- Denials: a name error shown by two NSEC records of different owners is refused; an NSEC3 name
  error has to find its three records in one set. Both fail closed. A wildcard expansion is accepted
  without proof that no closer name exists.
- A retry of a relayed resolution reports every peer of the retry, whatever failed. A discovery that
  finds no endpoint is cached like one that does.
- A peer that keeps sending packets can prolong a request, since the timeout is per read (`P:1097`),
  and a proof nobody asked for leaves the request tracked (`S:1584`, the exception of
  `NotTrackedAfterwards`).

## 4. Proofs

TLAPS proves the following for every block tree, name tree and question list, any number of threads,
peers, callers, clients and connections, and any bounds. Each module proves that an invariant
`IInv` holds at first, that every action keeps it (one lemma per action or group of actions), and
that it implies the property (`LoopbackProofs` has four: `ListenerInv`, `RequestInv`, `StoreInv` and `LimiterInv`; `PeerProofs`
three, with `SessionInv` and `SyncInv`; `BrowserRuntimeProofs` four, with `HandleInv`, `StatusInv` and `IosInv`). TLC checked each on a small instance before it was proved.

| Theorem | States | Why the property alone is not inductive |
|---|---|---|
| `HeaderChainProofs`: `TypeCorrect`, `StoreIsLinked`, `IndexIsBestChain`, `GenesisRaceIsHarmless`, `BestOutweighsStore`, `BestGainsWork` | types, `StoredHeadersLinked`, `CanonicalIsBestChain`, the genesis race, `BestIsHeaviest`, work is only gained | an insertion spans several steps: `ThreadInv`, `PendingInv`, `PromotingInv`, `HeaviestInv` say what a thread has read, accepted and is about to promote |
| `HeaderChainProofs`: `HeaderChainImplementsTipStore` | refinement of `TipStore` | follows from the same `IInv`, step by step |
| `PeerProofs`: `RelayInvariant`, `RelayAsksNoBarredPeer`, `BansEndByTime`, `RelayTypes` | `AsksNoBarredPeer`, `BanNeverRelaxed`, `TypeOK` | the book of a lock holder is never behind the store (`LockedBook`); a ban seen at the refresh lasts to the exchange (`BarredAreBanned`); the limit of the pool needs its finiteness, that of the budget the guard of the handshake |
| `PeerProofs`: `SessionSafe` | `SessionSafety` | a promise about answers rests on what the session has taken: each state says which packets it goes with (`HandshakeInv`), the request under way says which state the session is in (`StateOf`), and a caller goes on only while nothing it needs has failed (`BookInv`) |
| `PeerProofs`: `TicksAreSafe`, `SyncKeepsPromise` | `TickSafety`, `KeepsStorePromise` | no honest page is refused because it is a run of checked headers whose first parent is stored when it is ingested (`PagesInv`); the parent is stored because the table holds the whole branch of the locator, and is the tree of checked headers with the records of their branches (`TableInv`); reorganising peers stay on good branches (`HonestTips`) |
| `ProofCacheProofs`: `RowsAreVerified`, `FetchesForTip`, `AnswersWereCurrent` | `RowsVerified`, `AnswerWasCurrent` | a resolution holds a row its own tree supports; after the anchor check some best header of its time; a phase holds the lock exactly when it should |
| `LoopbackProofs`: `ListenerSafe` | `ListenerSafety` | what the accept thread has done by each place of its exit (`ExitInv`), registered clients are the workers and the client in hand (`ClientsInv`, `HandInv`), each of them is in the snapshot of a thread about to shut it (`ShutInv`), events are a function of the flags (`EventsInv`) |
| `LoopbackProofs`: `ListenerImplementsLifecycle` | initial states and steps of `ListenerLifecycle` | from the same `ListenerInv`: every action maps to a step of the abstract lifecycle or to none |
| `LoopbackProofs`: `RequestSafe` | `RequestSafety` | what entitles a request is established long before it is used: `Rights` says for every place of a handler what has been checked on the way there, `Report` what the client and the observer have seen |
| `LoopbackProofs`: `StoreSafe` | `StoreSafety` | what a look-up finds or chooses to evict is used two steps later: the lock has one owner, and what it carries stays true until it returns (`LockInv`); renumbering keeps the order because no entry is ahead of the counter (`Book`) |
| `LoopbackProofs`: `LimiterSafe` | `WindowHolds` | the limiter counts the instants it was told, the property the times at which it let requests pass: `CoverInv` matches each recent admission with a recorded instant of its own |
| `RelayExchangeProofs`: `ExchangeSafe` | `ExchangeSafety` | a flight is about the question of all who lead or await it and stays in the table until its leader takes it down (`LeadInv`, `FlightInv`); a frame holds only peers whose responses were handed over in the attempt (`FrameOf`, `HandedOf`, `VerdictOf`) |
| `BrowserRuntimeProofs`: `RuntimeSafe` | `RuntimeSafety` | two calls exclude each other only through the same locks: every live runtime has the coordination its directory is registered with (`CoordinationInv`); a stage says what is held (`HoldsOf`), a request keeps its policy (`PolicyOf`), identifiers are drawn once (`StartOf`, `GenerationInv`, `SessionInv`) |
| `BrowserRuntimeProofs`: `JavaIsSafe` | `AndroidSafety` | a runtime is an address that nobody can check: only the stage of a call says that it holds the lock and the runtime of the map (`CallOk`, `LocksInv`, `BoxInv`); a proxy that left the registry is in the hands of the call that took it (`CoverInv`); what a take has looked at is still what its number names, until the numbering starts again (`StillNamed`) |
| `BrowserRuntimeProofs`: `IosIsSafe` | `IosSafety` | a proxy is started before it is known and stopped after it is forgotten: the calls' lists of proxies to stop cover the ones that the registry does not (`PolicyInv`, `ReachInv`), and a proxy about to be registered is in the list of the call that started it alone (`InsertInv`), which then registers it or stops it |
| `OriginTransportProofs`: `OriginAuthenticated`, `TransportSafe` | `AuthenticatedOrigin`, `TransportSafety` | a response is worth what an earlier handshake settled: whatever the shared caches hold under a policy was accepted by that policy (`PoolInv`, `StoresInv`, `VerifiersInv`), a number means one verifier, store or connection while anyone holds it, and `SendsOf`, `ConnOf`, `VerifierOf`, `StoreOf` say what a fetch has established at each of its places |
| `ProxyCoordinatorProofs`: `RoutingIsSafe`, `JoinsComeFirst` | `RoutingSafety`, `OwnJoinsFirst` | what a coordinator may rely on was settled by a callback long before: `HandsOf`, `ActiveOf`, `OpOf` and `RightsOf` say what its proxies, its operation and its readiness stand for, `QueueInv` whose the override is, `FlightInv` that every operation is in exactly one of queue, platform, worker and callbacks, that a callback still holds when it runs, and that no proxy is lost |

The instances on which TLC checked the newer invariants: `OwnedListener` as in `MCLoopback`
(71 961 states); `RelayExchange` with two threads, questions and peers (174 393);
`BrowserRuntime` with two handles of a directory, two callers, three policies of which one is
refused, two opens and two generations (189 403); `LoopbackRequest` with two connections in both
modes (2 637 923); `OriginTransport`, `IdentityStore` and `RequestRateLimiter` as in `MCOrigin`
(697 662, 225 913 and 132 852); `PeerSession` and `HeaderSync` as in `MCHeaderSync` (175 108 and 20 064);
`ProxyCoordinator` as in `MCLoopback` (95 873) and with a fourth call and no fault (58 263);
`AndroidBridge` and `IosBridge` as in `MCRuntime` (71 563 and 187 473).

Assumptions are the named `ASSUME`s of the components, which TLC evaluates in every run that
extends them. The assumptions say what the strings and numbers of the models need
(`QuestionsAssumption`: a resolution asks something; `LoopbackRequestAssumption`: an address is not
one of the words `none` and `backend`; `OwnedListener`: a thread is not a word either), that limits
are numbers, that the pool keeps at least one connection of an origin (`PoolAssumption`; the code
keeps two), and how scores, bans and work compare. `NoneAssumption` of `ProxyCoordinator` keeps
the value for `null` apart from operations, configurations, hosts and loads. `CapacityAssumption` of
`IdentityStore` says that its access counter (128 bits in the code) can hold more than the cached
identities (128), `NobodyAssumption` that a free mutex has no owner, `PagesAssumption` of
`PeerSession` that a peer is asked for one page at least (`S:454`). `AncestryAssumption` of
`HeaderSync` says that hashes commit to parents, so no block is among its own ancestors, and that
only genesis is accepted without a parent; it stands for the induction on heights, since the
recursive functions `Branch` and `ChainWork` are shown to exist from it alone
(`DefinedByAncestry`). `HonestAssumption` says that peers that follow the protocol begin on branches
whose blocks they checked. `AndroidAssumption` and `IosAssumption` say that the limits of the bridges
are numbers, and that a mailbox can number one status at least. Types leave out nothing the code could do:
`Rights` and `Report` range over every place of every handler, `HoldsOf` over every stage.

Six choices in the models serve the proofs without changing what is modelled. Final heads and
terminal reports in `LoopbackRequest` are sets of positions, not subsequences, because what a fold
computes for every input is out of the prover's reach. `Observe` of `RelayExchange` and the
policy operation of `BrowserRuntime` are written without nested updates. The
session identifier of `BrowserRuntime` is the caller that drew it. `FreshId` of `OriginTransport`
names any number not in use, since pointers of the code are compared and never ordered. The
workers of `IdentityStore` carry the victim they chose in their own record. The
accepted headers of a page in `HeaderSync` are positions of it, not a subsequence.

Only model-checked:

- Liveness (`SyncProgress`, `RelayProgress`, `ProxiesProgress`, `AnsweredAtLast`,
  `OpensUnlessFaulted`, `StopEnds`, `CallersEnd`, `CallsReturn`), which is out of the prover's reach;
  with it the fairness that `ListenerLifecycle` promises (`ImplementsLifecycle`).
- What functions compute over data: `Dnssec`, `DenialProofs`, `DelegatedResolver`, `OriginWire`,
  `HttpFraming`, `DaneEvidence`, `OriginPlan`, `GatewayResolution`. Their definitions recurse over
  chains, tokens and records, and proofs by induction over data are out of reach.
- `OutputSafety` of the bridges: what their mailboxes and buffers add up to is computed by folds over
  sets and by subsequences, which the provers cannot follow. `JavaIsSafe` and `IosIsSafe` do not
  depend on these sums.

## 5. Not modelled

- Power loss that undoes committed WAL transactions; reads that fail (`C:400`); panics (the release
  profile aborts).
- Byte layout: packets, DNS messages, HTTP tokens, certificates; cryptography, hashing, proof of
  work, the recomputation of Urkel paths, the difficulty retarget. Malformed input is one choice
  wherever the code refuses it.
- The order of peer discovery and its counters, seeding of an empty book; the probe for intercepted
  DNS; the ICANN address resolver of the whole-browser proxy; proof details and trace JSON.
- What HTTP/2, HTTP/3 and TLS libraries do between the calls of `hns-transport`.
- Cases the bounds do not reach: exhausted proxy generations, eviction of the oldest host from the
  iOS mailbox, forks deeper than a page, more incapable relay peers than the handshake budget.
- Which certificate, instance or challenge a bridge is asked about: the calls are steps whose
  answer is not told apart.
- `hns-cache`, whose one user is built by tests only; views, settings, the Swift shell, build tools,
  vendored and generated code.

## 6. Plan

Done in this order: header store, sync, peer store and relay, override and proxies, proof cache;
then listener and requests, origin, resolver and DNSSEC, relay exchanges, runtime, bridges, sessions. Next:

1. Failing reads in `HeaderChain`, with the proofs that depend on them.
2. The Swift coordinator; path recomputation and difficulty as functions against reference definitions.
