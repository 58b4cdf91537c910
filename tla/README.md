# TLA+ models of isolated-browser

isolated-browser is a mobile browser whose traffic leaves the device through a
tunnel of its own: a Flutter app starts a Rust transport (`transport-core`, a
SOCKS5 proxy behind a C interface), which carries every connection over TLS to
a Rust gateway (`gateway`), which connects to the target. The modules here
model the transport, the gateway and the services of the app from their
source, TLC checks them on small instances, and TLAPS proves the theorems of the `_proofs` modules for
every value of the constants.

Contents: [inventory](#inventory), [modules](#modules-and-the-code),
[runs](#runs), [what the models show about the code](#what-the-models-show),
[proofs](#proofs), [what is left out](#not-modelled), [plan](#plan).

## Inventory

### Client side, `src/transport-core`

| Part | State | Operations | Hard because | Correct when |
|---|---|---|---|---|
| FFI lifecycle, `lib.rs` | the slot `ACTIVE`; per worker thread its listener, bind channel and `Notify` | `transport_start`, `transport_stop`, `transport_get_status` | any app thread may call; the slot is released while a start waits for the bind; the wait has a timeout | every listener can be stopped, every call returns, the status is true |
| SOCKS proxy, `proxy.rs` | one task per client: greeting, connect, handshake, relay | `run_with_listener`, `handle_connection`, `connect_tls`, `relay` | tasks share the failover manager and the rate limiter, and await between reading and reporting | see failover and tunnel |
| Failover, `failover.rs` | `current_idx`; per endpoint `consecutive_failures`, `last_failure` | `report_failure`, `report_success`, `try_switch` | reports arrive late, from tasks that connected to another endpoint; the clock is read before the lock | an available endpoint is never passed over, cooldowns hold, clients get through |
| Framing, `protocol.rs` | `send_counter`, replay window, active and previous key, frames since the rekey | `write_frame`, `read_frame`, `start_rekey` | `read_frame` is dropped by `select!`; counters end at `REKEY_THRESHOLD`; a socket dropped with unread data resets the connection | no nonce repeats, frames arrive in order |
| Replay window, `replay.rs` | `window_base`, `seen`, `max_counter` | `check` | forgets what falls out of the window | never accepts a counter twice, never grows |
| Rekey, `steal.rs` | the offered key | `send_rekey_init`, `client_handle_rekey`, `server_handle_rekey_ack` | both sides must change keys at the right frame while data is in flight; control frames are told from data by how they begin | both sides agree on the key, nobody waits for an answer that cannot come |
| Rate limiter, `rate_limiter.rs` | `tokens`, `last_refill` | `try_consume`, `refill`, waiting loops | atomics changed inside and outside a mutex by all relays; polling loops in no order | never over the rate |
| Handshake, `steal.rs`, `tls.rs` | per session ephemeral keys, nonce prefixes, a codec at each end | `client_handshake`, `server_derive_session`, `build_connect_frame` | several sessions at once, wrong keys, a peer that is really the CDN, no timeout after TLS | success means both ends agree; the two ends never wait for each other |
| Endpoints, `endpoint.rs` | none | `parse_endpoints` | input validation | every list the app calls configured is accepted |

### Gateway, `src/gateway`

| Part | State | Operations | Hard because | Correct when |
|---|---|---|---|---|
| Accept loop and connections, `main.rs` | semaphore, `connections_active`, one task per connection | accept, `handle_tcp_connection`, `handle_authenticated_client` | many early returns; tasks that unwind | permits come back, the gauge is right, only proven clients reach a target |
| Relay, `main.rs` | as the client's relay, and an idle timeout | `relay` | see framing | see tunnel |
| Per-address limiter, `main.rs` | connection times per address | `check`, `cleanup` | eviction under load | the limit holds, nobody is refused without cause, memory is bounded |
| Rate limiter, `main.rs` | as the client's | as the client's | used by one task | as the client's |
| Tokens and keys, `auth.rs` | HMAC keys, `active_kid` | `rotate_hmac_key`, `remove_hmac_key`, `validate_token` | a removal shifts the vector under `active_kid`, a `u8` | nothing but the newest key signs |
| Promo codes, `promo.rs` | codes and their uses | `validate_code`, `use_code` | the lock is released between the two | a code is used no more often than allowed |
| Metrics, `metrics.rs` | counters | increments, rendering | one gauge among the counters | the gauge is right |

### App, `src/app/lib`

| Part | State | Operations | Hard because | Correct when |
|---|---|---|---|---|
| Transport, `transport_service.dart` | `_state`, next to the native slot | `start`, `stop` | the slot outlives the Flutter engine | a running transport can be stopped |
| Catalog, `catalog_service.dart` | plan, base and extra selections, custom services; the same in SharedPreferences | selections, swaps, unlocks, the owner's edits | `_persist` makes four writes; operations overlap; a kill falls between two writes | what is saved is consistent and, in the end, what memory holds |
| Subscription and promo, `subscription_service.dart`, `promo_service.dart` | user id, subscription, used codes; the same in SharedPreferences | `init`, `upgradeToTier`, `activate` | reads before an await, writes after it; kills | a trial is given, a code is applied once and not for nothing |
| Settings, `settings_service.dart` | endpoints; the keys of version 0.1.0 | `load` with migration, edits of the list | a kill during the migration; the library judges the list by rules of its own | nothing is lost, and what the app calls configured starts |

The screens only call them.

### How the parts interact

`main.dart` loads the settings, the catalog and the subscription one after the
other, then shows the screens. The transport service calls the C interface. A worker thread runs a tokio runtime in which
every SOCKS client is a task; the tasks share the failover manager and the
rate limiter. A task and a gateway task are the two ends of one TLS
connection, which carries frames; after the handshake both run a `relay` loop
with a `FrameCodec` each. At the gateway the accept loop consults the
per-address limiter and the semaphore before it spawns a task.

The hazards this leads to are listed in `PROJECT.json`, each at its line, with
the properties that cover it.

## Modules and the code

A module is one component. Each has its state as variables, one action per
operation or per step between two accesses to shared state, and its
properties at the end. Definitions with a suffix (`SwitchTo_KeepsCount`) are
deliberately wrong variants of the definition that follows them: a property
earns its place by failing when one of them is put in. `_proofs` modules hold
the theorems. `MC*` modules give the
constants of a component their values for TLC.

**ReplayWindow** has `replay.rs` as operators on a window value (`Accepts` is
the answer of `check`, `Check` the window it leaves), so that other modules
can hold windows in their state. **ReplayReceiver** is one receiving direction: any
counter, in any order, any number of times. **ReplayGuard** is the abstract
promise: a guard that remembers everything ever accepted.

**Failover** composes `FailoverManager` with the connection tasks. A task takes
a snapshot of the endpoint (`Connect`), waits, and reports (`ReportFailure`,
`Established`); what it reports is charged to the endpoint that is current by
then, as in the code. Instants appear as ages, because the code only subtracts
them; an age saturates where no test can tell the difference. The reading of the clock before
the lock is the age of a task in phase `failed`. Endpoints in `Good` always
answer, those in `Flaky` come and go, the rest never answer. Protocol errors
after the TLS handshake (`HandshakeFails`) are not reported, as in the code.

**Tunnel** is the two relay loops over one TLS connection, modelled record by
record: `read_frame` is dropped when `select!` takes the other branch
(`ReadLocal`), and loses the records it has taken (`torn`). Both branches hold
the task while they wait for the rate limiter or a write. The client's relay
takes whatever begins with `REKEY_INIT_MAGIC` for a REKEY_INIT (`ReadInit`): it
ends the session if it is too short (`ReadShort`), else it keeps it, answers
with an ACK and switches its key (`AnswerInit`), after which the gateway's frames
open for `REKEY_OVERLAP_FRAMES` more and its own no longer (`overlap`, `Opens`). As the gateway never
sends a REKEY_INIT, what is taken for one is data of the target (`mimic`). A
relay that returns drops its socket without a lingering close: with something of
its peer's unread the connection is reset and a suffix of what it had sent may
be lost (`Reset`). **BytePipe** is what the two relays promise together: an ordered
pipe in each direction, except that ambiguous chunks are kept and answered.

**Rekey** is the two codecs with the rekey handshake. Keys are numbers, kids are
numbers modulo the size of the kid space, and encryption is abstract: a frame opens under the key
it was sealed with. A plaintext is described by what it reads as, and an
application's bytes may read as a control frame (`AppData`): at the client as a
REKEY_INIT with a key nobody else has, or as one that is too short; at the
gateway as a REKEY_ACK. That this has happened is the history `mistaken`. The relay never starts a rekey in practice (a session that
reaches the threshold ends, see below); the model lets the gateway start one whenever it
relays, which is what `send_rekey_init` offers its callers.

**TransportFfi** has one step per access to the slot, the channel, the `Notify`
or the port. Refusals, which change nothing, are no actions; return codes are left out. The
environment's faults are a constant: a bind slower than
`BIND_CONFIRM_TIMEOUT`, an error of `accept`, a runtime that cannot be
created. Other processes open and close listeners on the same ports.

**TransportService** is the app's service over TransportFfi, whose actions it
conjoins with its own state: callers that are services keep a `_state`, the
others are any threads of the process. An engine restart makes a service idle
and leaves the library as it is. A `start` with settings that are not
configured, one that the library refuses and a `stop` that finds nothing are
actions here, because they change `_state`.

**TokenBucket** has the steps of `try_consume` between two accesses to shared
state. A successful compare-and-exchange is one step. The clock may run
between its reading and its use.

**IpRateLimiter** has `check` (eviction included) and `cleanup`, atomic because both
hold the mutex throughout. An entry is a sequence of ages.

**GatewayConnection** has the accept loop and the phases of a connection's task
through `handle_tcp_connection` and `handle_authenticated_client`. A client is
described by what its first bytes are (`hello`), whether it has the keys (`psk`)
and whether it has a subscription. `--test-mode` is a variable that is fixed
at the start.

**Session** composes GatewayConnection with the proxy's tasks: each action of
the gateway is conjoined with what it reads and writes, and a task of
`handle_connection` is at the other end of two queues. Keys are symbolic: a
shared secret is the set of the two secrets it is made from, a session key is
derived from one, and a frame opens under the key and prefix it was sealed
with. Endpoints are configured with the gateway's keys or with others.
Connections that no task has made (`StrangerSteps`) run as in
GatewayConnection. The CDN behind the fallback answers with bytes, which
`client_handshake` takes for a key.

**Promo** has `use_code` in its two halves, `validate_code` under one lock and the
count under the next, with codes that expire or are replaced by
`add_promo_code` in between. **HmacKeys** is the vector of keys with `active_kid`;
`KidSpace` is the number of values of a `u8`. A removal goes through
`Vec::remove`, so the keys behind it move.

**Guards** puts the replay receiver, the token bucket, the limiter per address, the
promo codes and the keys side by side for one run: none reads or writes the state of
another. `MCGuards` explores, in each behaviour, the steps of one of them.

**Endpoints** has `parse_endpoints` and the app's `isValid` as predicates on an
endpoint, which is a host, a port and the first flaw of the rest. **Settings**, **Catalog** and **Subscription**
are the app's services, **AppStore** their composition: the launch in the order of
`main.dart`, the user's calls, and kills. The writes follow the plugin: a call
runs to its first platform round trip in one step, with its first write; every
later write is a step of its own, which reads memory as it is then. The
platform makes the writes in the order they were issued, so a kill loses a
suffix of them. A launch reads what is there. The migration of the settings is
`LoadSettings`, which saves the new list, and `RemoveLegacy`, one key at a time; it
puts a port out of range back to 18080 (`clampPort`) and makes nothing of an empty
host. `swapBase` has no conditions of its own; `SwapOffered` has those under which the
one dialog calls it.

## Runs

Every number of states is small enough for seconds or a minute; the bounds
below are chosen so that every case of the code occurs, which the variants
confirm: each property of each passing run fails for one of them.

| Run | Instance | What it shows |
|---|---|---|
| Guards | replay window 3 with counters 0..8; 2 relays with 2 chunks each of 1, 3 or 4 tokens, capacity 3, rate 2; 4 addresses, map of 2, 2 connections per window of 2; 3 users, 1 code with 1 or 2 uses, replaced once; 6 keys, 3 values of `active_kid`; 145,821 states | The replay window slides over more than two of its lengths, saturates at 0, is jumped over and re-entered: it remembers exactly what still matters (`WindowExact`), accepts nothing twice (`NeverTwice`) and answers as a guard with unlimited memory would (`ImplementsGuard`). Relays never get more than the rate (`WithinRate`). Only an evicted address exceeds its limit and nobody is refused below it (`PerIpLimit`), the map is bounded (`EntriesBounded`). A code is over-issued by uses validated together only (`OverIssueBounded`), and no key but the newest signs before `active_kid` wraps (`OnlyNewestSigns`). |
| Failover | 2 endpoints (one dead, one that comes and goes), threshold 2, 3 tasks, cooldown 2, lag 1; 213,730 states | The manager goes round the list, gets stuck with everything cooling, and recovers. The next endpoint starts with its full allowance (`FullAllowance`), none that is available is passed over (`StuckOnlyWhenAllCooling`), cooldowns hold (`NoEarlyReturn`), and with more tasks than the threshold stragglers can drive the manager off an endpoint that stays up but not keep it off (`Reached`). |
| FailoverBlame | 3 tasks, threshold 2, endpoint 1 always answers | *violated*: `NeverLeavesAnswering`. |
| Tunnel | 2 chunks up in frames of up to two records, 4 down in frames of one, any of which may begin with the magic, 2 records on the wire, threshold 4, overlap 1; 102,672 states | No false alarm where frames fit a record (`NoFalseAlarm`), an ordered pipe even where they do not, but for ambiguous data (`ImplementsPipe`). While the rate limiters let chunks pass and the applications take what they are given, everything arrives unless the session ends or both relays block (`AllDelivered`), and what a target sent before it closed arrives unless something of the client's is unread then (`DrainsAfterEof`). |
| Transparent | as Tunnel | *violated*: `Transparent`. |
| Rekey | 3 rekeys, 2 kids, overlap 2, threshold 5, both sides talk; 1,015,150 states | Kids repeat, the overlap window expires, data crosses the handshake and reads as part of it. No nonce repeats under a key (`NoncesUnique`). Unless data was taken for a control frame, nobody refuses a frame (`NoFrameRefused`), the next frame is always under the reader's own key (`ReadsUnderActiveKey`) and both agree in the end (`Converged`). The gateway never waits with nothing under way that ends the wait (`NoStandoff`). |
| TransportService | 2 callers, each a service or not, 2 workers, 2 ports, every fault, engine restarts; 114,012 states | A running transport gets out of reach of the app in one way only (`StoppableFromApp`), nobody joins a worker twice or one that was not woken (`OneOwner`), the status is wrong only after an accept error (`StatusTruthful`), every call returns (`CallsReturn`). |
| TransportLeak | 2 callers, a bind that may be slow | *violated*: `FailClosed`. |
| Session | 2 connections, 1 permit, every kind of first bytes, endpoints with right and wrong keys, 1 target, both modes; 100,855 states | Permits are never lost or doubled and the gauge is off by the panicked tasks only (`AccountsExact`), only proven clients reach a target or hear more than `ERR`, and outside test mode those that send no token hear the CDN only (`OnlyProven`), success means that both ends agree on keys and target (`Agreement`), no key and prefix have two senders (`NoncesApart`), failures are reported but for one case (`FailureReported`), and the two ends never wait for each other (`NoMutualWait`). |
| AppStore | 3 calls of the user, of which 2 of the catalog and 2 promo activations may overlap, 2 kills, 3 hosts and 2 ports, one out of range, for a list of 2; 2,479,263 states, two minutes | What is saved is what memory holds once saving is over (`CatalogSaved`), selections name known services and fit their slots (`SelectionsSound`), the migration keeps the endpoint, with a port in range (`MigrationKept`), a configured list starts (`ConfiguredAccepted`), the user has a subscription (`TrialGiven`), a code is applied once (`PromoOnce`) and not used up for nothing (`PromoNotWasted`), each with the exceptions it names. |
| GatewaySubscriber | 3 connections, 2 permits, whole ClientHellos | *violated*: `SubscriberServed`. |
| GatewayProbe | 3 connections, 2 permits, session ids of 32 bytes or less | *violated*: `ProbeSeesCdn`. |

Why the bounds are enough. Two actors suffice for the races in question, which
are between a step and one interfering step; a third worker, address or
connection is there where something has to be left over. Constants with large
values in the code (a window of 64, a threshold of 0xF000_0000, 256 kids) matter
by being reached, passed and wrapped round, so they are small. Time is bounded
by saturating ages, histories by saturating or by pruning. In AppStore three
calls suffice for two that overlap and one that finds what they left, and two
kills for one in the launch that follows another. The safety properties of
TransportService also hold with a third worker. `CHECK_DEADLOCK FALSE` is set in Tunnel and
Rekey, whose sessions end, and in Guards and AppStore, which stop at
their bounds. Symmetry is used in runs without liveness: connections,
addresses, users and operations.

Fairness. tokio polls every task that is ready and fires every timer that has
expired, and threads are scheduled: weak fairness of the steps of a relay, a call
or a worker once begun, where they wait for nobody else (`Relay` in Tunnel). Time
passes: weak fairness of `Tick`. `Failover` also assumes that a browser that still wants a page
connects again. No fairness is given to what an application, a peer, the CDN, the
network or a rate limiter may do: nobody has to close, call, send, answer, take what
it is given or come back. What Tunnel's liveness needs of them is the premise
`NoneHeld` of the properties. `std::sync::Mutex`, which the token bucket uses, is handed
out in no order, so nothing is claimed about when a chunk gets its tokens; the waits
without a timeout in Rekey and Session are the subject of invariants instead.

## What the models show

Five runs are expected to fail; `PROJECT.json` quotes the lines they disagree
with.

* *FailoverBlame*. `connect_tls` reports a failure to a manager that has moved
  on meanwhile. With more tasks in flight than the threshold, the stragglers of
  a dead endpoint make the manager leave one that answers. It comes back to it
  again and again (`Reached`), but a client whose attempts begin while it is away
  may fail each time under an unlucky schedule.
* *GatewaySubscriber*. Outside test mode the string given to `validate_token`
  is derived from the client's ephemeral key and is never a JWT.
* *GatewayProbe*. `main.rs:8` and `tcp_handler.rs:8` send clients whose auth is not
  valid to the CDN. But a session id of 32 bytes is all that is looked for in the
  ClientHello, and TLS 1.3 clients commonly send one: without the key they meet
  the gateway's own TLS and its `ERR`.
* *TransportLeak*. After `BIND_CONFIRM_TIMEOUT` the worker is neither stopped nor
  remembered (`lib.rs:205`, against the "fail-closed" of `:76`): a bind that
  succeeds after all serves out of reach of `transport_stop`. Two concurrent starts
  on different ports lead to the same: both succeed, and the second overwrites the
  first in the slot. There is no third way (`NeverOrphaned`).
* *Transparent*. The client's relay tells control frames from data by how they
  begin. Data of a target that begins with `REKEY_INIT_MAGIC` does not reach the
  application; the client's key changes alone, and the gateway cannot open what
  the client sends after that, or the session ends at once.

Other things a reader of the code should know are written into the properties
as exceptions:

* `AllDelivered`: both relays can block in a write at the same time; neither
  reads while it writes, and the idle timeout does not cover a write. A chunk
  larger than the bucket's capacity is held for ever.
* `DrainsAfterEof`: the gateway drops its socket without a lingering close. If the
  client has sent something that is unread then, the connection is reset and
  what the target sent last may be lost.
* `StoppableFromApp`: an engine restart makes a new service, which is idle: its
  start is refused while the old transport runs, and its stop does nothing.
* `StatusTruthful`: an accept error ends the worker and leaves it in the slot.
* `PerIpLimit`: eviction forgets counts that are still inside their window.
* `AccountsExact`: a task that unwinds is never subtracted.
* `NoFalseAlarm`: `read_frame` is not safe to drop; it is harmless only because
  8192 bytes and the frame's overhead fit one TLS record.
* `NoFrameRefused`, `ReadsUnderActiveKey`, `Converged`: they hold until application
  data is taken for a REKEY_INIT or, while the gateway waits, for a REKEY_ACK.
* `NoStandoff`: data the client sent before it saw `REKEY_INIT` is read where the
  ACK is expected and ends the session (`NotAck`). The wait has no timeout: a
  client that stays silent holds the gateway for ever.
* `NoMutualWait`: `client_handshake` has no timeout either (`steal.rs:111`; `proxy.rs:46`
  says that the protocol phase has a timing of its own): a peer that stays silent
  holds the client for ever.
* `FailureReported`: outside test mode the claims are refused after the gateway
  has sent its key; the plain `ERR` is no frame, `read_frame` fails, and the
  SOCKS client is closed without a reply. The same happens when the first read
  gets only part of the ClientHello: the client is sent to the CDN, whose bytes
  it takes for the server's key.
* `OverIssueBounded`: `use_code` does not look at the count again, so up to all
  users but one go past `max_uses`.
* `OnlyNewestSigns`: removing a key other than the active one leaves `active_kid`
  out of range, and signing panics until the next rotation; with 256 keys the
  index wraps to the oldest. Verification signs anew and compares, so it takes the
  active key only: the comments at `auth.rs:41`, `:125`, `:131` and `main.rs:16` speak of
  two keys that are valid during a rotation, for which there is no code.
* `TrialGiven`: a kill between marking the trial and saving it loses the trial
  for good.
* `PromoOnce`, `PromoNotWasted`: a kill between applying and recording a code
  lets it be applied again, overlapping activations forget each other's code,
  and without a subscription a code is used up for nothing, because `activate`
  ignores what `applyPromoCode` returns.
* `SelectionsSound`: operations that overlap may leave the selection of a
  service that another one has removed.
* `MigrationKept`: a legacy port out of range becomes 18080, the default of the SOCKS
  port, at the gateway's host.
* `ConfiguredAccepted`: the app accepts an SNI of blanks from a migration and
  does not limit the list, the library refuses both.

Some things no property is about. A session that reaches `REKEY_THRESHOLD` ends
(Tunnel): `write_frame` returns `RekeyNeeded` and `?` ends the relay, while the
branch that would start a rekey (`main.rs:651`) waits for that error from
`read_frame`, which never returns it. No request handler of the
gateway calls `PromoManager` or the rotation of keys yet. One user may redeem a
code several times. `applyPromoCode` drops a speed boost and its devices. Settings that are
saved while the transport runs apply to the next start only. The catalog's
`activateBase` and `activateExtended` and the settings' `setEndpoints` have no
callers in the screens; they are in the model.

## Proofs

Eight modules hold theorems. Every safety invariant, action property and
refinement that a passing run checks on its instance is proved for all values
of the constants, under the assumptions named below; each inductive invariant was
checked with TLC on the instance of its run before it was proved.

**ReplayReceiver_proofs**, for every window size and every set of counters:
`TypeCorrect`, `WindowAlwaysExact`, `NoReplay`, `MemoryBounded` and
`Refinement` (the bounded window implements `ReplayGuard`). The inductive
invariant is `TypeOK /\ WindowExact /\ NeverTwice`: `NeverTwice` alone is not
inductive, since a window that had forgotten an accepted counter would accept
it again; `WindowExact` says which counters are forgotten, namely those below
the base, and those are refused. `MemoryBounded` follows because `seen` lies in
an interval of `WindowSize + 1` numbers. Assumed: `WindowSize \in Nat`,
`Counters \subseteq Nat`.

**Failover_proofs**, for every number of endpoints and tasks, every threshold
and interval: `TypeCorrect`, `AllowanceAlwaysFull`, `NoEndpointPassedOver` and
`CooldownRespected`. The inductive invariant adds two facts: a clock reading is
at most `MaxLag` old when it is used (`LagBounded`), and the record of an
endpoint that is not current is as old as the time since it was left, up to
that lag (`CooldownKept`): reports only ever touch the current endpoint. That the search of
`try_switch_locked` goes over all endpoints once rests on two lemmas about `%`.
Assumed: `FailoverAssumption` (`N`, `Threshold` and `Interval` positive, ...).

**Session_proofs** begins with GatewayConnection, for every finite set of
connections and every number of permits: `TypeCorrect`, `AccountsAlwaysExact` and
`AlwaysProven`. The conjunction of these is inductive; the accounts need that a
step adds at most one connection to `Live` or takes one away, which the lemmas
state once for all actions. On this rest, for any set of targets, the theorems
about both ends: `GatewayImplemented`
(`SessionSpec => Spec`, every behaviour of both ends is one of
GatewayConnection, so `GatewayKept` carries its invariants over),
`SuccessIsAgreement`, `NoncesAlwaysApart`, `AlwaysForwardSecret` (a session key is
never made from the gateway's long-term secret), `FailuresReported` and
`NeverMutualWait`. The
inductive invariant `SInv` is one formula per connection, since connections
share nothing but permits: what either queue may hold; that the gateway only
ever makes one codec for a connection, the mirror image of the client's
(`Mirror`), and only for a client with the right keys; that nothing reaches the
client before the gateway is past authentication (`AuthFirst`), so that an `OK` it
opens is this session's and comes after the target is connected (`Joined`).
`NeverMutualWait` adds what the gateway still has to read while the client waits.

**TransportService_proofs**, for all sets of callers, workers and ports:
`FfiImplemented` (the service's behaviours are behaviours of TransportFfi),
`TypeCorrect`, `NeverOrphaned`, `AlwaysOneOwner`, `StatusAlwaysTruthful` and
`AlwaysStoppable`. `NoOrphan` is strengthened to workers that have not bound
yet (`NoneLost`), and a waiting start owns its worker, whose channel and phase
agree (`WaitingOwns`). `StoppableFromApp` is strengthened by the service that says
running having no call under way (`SomeoneIdle`): every call that goes out finds
the slot empty or empties it.

**Tunnel_proofs**, for every size of the relay buffers, of a record, of the
wires and of the replay window, and for any number of chunks: `TunnelInvariant`,
`NeverFalseAlarm` and `TunnelIsPipe` (the relays implement BytePipe). The
inductive invariant `TInv` takes each direction by itself, along the line from
what the writer still holds over the records on the wire to what the reader has
taken: counters never fall along it and rise after the last record of a frame
(`Numbered`), chunk numbers go on where the application stopped (`InOrder`), and
the reader's window is behind the next counter on the line, so no frame is a
replay. Only a frame of several records can be torn (`OneRecord`), and a relay
that meets a torn one ends, so what was delivered stays a prefix (`Delivering`). A
reset takes a suffix off the line and closes it, which keeps all of this. `Control`
adds that what the client's relay is about to give to its application is never
ambiguous. Assumed: `TunnelAssumption`
(positive sizes).

**Rekey_proofs**, for every size of the kid space, of the overlap, of the window
and of the wires, and any number of rekeys: `RekeyInvariant`, `NonceUniqueness`,
`NoneRefused`, `ActiveKeyReads`, `Convergence` and `NeverStandoff`. Besides types and counters
that rise along each wire (`Numbered`) the inductive invariant `RInv` has the
nonces spent so far, all below the counter of their key's writer (`NoncesSpent`),
whatever is taken for a control frame, and, until application data is taken for
one, the handshake in its phases: while the gateway relays, both codecs and both
wires use one key (`InStep`); while it waits, either `REKEY_INIT` is still the last
frame on its wire and nothing has changed (`Unanswered`), or the client has
answered, the gateway's wire is empty and the ACK divides the client's wire into
what is under the old key and what is under the new one (`Answered`). `ActiveKeyReads`
is about the overlap: the previous key is kept for frames that, as the proof
shows, never come. `NeverStandoff` needs nothing of the phases: the client
ends or answers when it reads `REKEY_INIT`, and the gateway reads one frame. Assumed: `RekeyAssumption` (positive sizes).

**Gateway_proofs** has what the gateway's connections share.

* Promo codes, for every finite set of users and positive limits:
  `PromoTypeCorrect` and `OverIssueAlwaysBounded`. The bound counts the uses that
  are validated but not yet counted, which makes it inductive: a use is validated
  only below the limit, and counting moves it from one term to the other.
* Keys, for every `KidSpace`: `KeysTypeCorrect` and `NewestAlone`. The invariant adds
  that, until `active_kid` wraps, its place is the last of the vector and holds
  the newest key, or lies behind the end (`ActiveLast`): a removal shortens the
  vector and so never moves another key to that place.
* `SideBySide`: Guards implements each of its five components, so what is proved of
  each holds of the whole.
* The token bucket, for any number of relays, every capacity, rate and clock
  resolution: `BucketInvariant` and `RateKept`. `WithinRate` alone is not inductive.
  `Paid` says that what was granted and what is left in the bucket was paid for by
  the time of `last_refill`, and that the tokens of a refill under way were paid
  for by the time of its clock reading; the lock makes sure that there is one
  such refill (`Excluded`). That refills add up rests on lemmas about `\div`: seconds
  rounded down apart are no more than rounded down together. Assumed:
  `BucketAssumption`; its last conjunct only keeps the mark of a free lock apart
  from the tasks.
* The limiter per address, for any set of addresses: `LimiterInvariant`,
  `LimitPerIp` and `MapBounded`. The invariant compares the entry of an address with
  what really happened, both read from the newest end: the entry has nothing
  else (`Truthful`), and all of it if the address was not evicted (`Complete`), in the
  order of time (`Past`), so that what leaves the window is a prefix. The map is
  bounded because an eviction that is due makes room for at least one; this is
  where `LimiterAssumption` needs `MaxEntries + 1 >= EvictOneIn` (10,000 and 5 in
  the code).

**AppStore_proofs**, for every number of calls, kills, tasks, services, endpoints
and promo codes: `AppInvariant`, and from it `SavedInTheEnd`, `SoundSelections`,
`MigrationKeepsEndpoint`, `ConfiguredIsAccepted`, `TrialIsGiven`, `CodesOnce` and
`CodesNotWasted`. The services share no state, so `AppInv` is a conjunction of one
invariant for each, and a step of the app is a step of each service or leaves
it alone.

* Catalog: where memory and SharedPreferences differ in a key, some operation still
  has the write of that key before it (`WriteDue`). No id takes two slots and there
  are never too many (`Slots`). As long as nothing overlaps, the selections in
  memory are of known services, and so are the saved ones at every point
  between two writes (`Alone`): this is where the order of `_persist` matters.
* Settings: the legacy keys are whole until the list is stored, and what is stored
  is the legacy endpoint, with its port in range, until the user edits it (`Migration`), and
  no address is listed twice (`NoneTwice`), which edits need to keep what
  `parse_endpoints` asks for.
* Subscription: what is saved belongs to the saved user (`Owned`), a trial marked
  is a trial saved unless a kill fell in between (`Trial`), and an activation that
  has applied its code but not recorded it counts as the one use (`OnceInv`,
  `NotWastedInv`).

Assumed: `SlotsAssumption`, `MaxEndpointsAssumption` (natural numbers), and that the
marks for no code and no stored list are no code and no address.

Only model-checked: liveness (`Reached`, `AllDelivered`, `DrainsAfterEof`,
`CallsReturn`), because fairness and `ENABLED` are beyond this prover; and the five
runs that are expected to fail.

## Not modelled

Cryptography and TLS (library calls; a frame opens with the right key or not at all).
Parsing of SOCKS, HTTP, JSON and ClientHello bytes beyond the cases they
distinguish. `update_limits`, `try_switch` and `complete_rekey`, which only tests
call, and `transport-core/src/auth.rs`, an earlier variant of the handshake that
nothing calls. Making and judging tokens, which has no state (GatewayConnection has
the verdict). Metrics other than the gauge. The three separate lock acquisitions
of the status call, which only a display shows. In the app: the screens, with
their dialogs; the SOCKS port and the shared secret of the settings, single values
saved as they are set; the subscription's operations on services, devices and
boost, which save like `upgradeToTier`; its expiry; `resetForTesting`.

## Plan

What is left is smaller than what is done. Of the proofs: how Session, Rekey and
Tunnel fit together (the key that both ends of a session agree on is the one
Rekey starts from), and the safety half of the liveness properties, that is,
in which states nothing can go on (`NoStandoff` and `NoMutualWait` are such
statements for Rekey and Session, Tunnel and Failover have none). `update_limits` becomes
an action of TokenBucket when something calls it, and the subscription's other
operations become actions when one of them saves in more than one write.
