# iceberg in TLA+

iceberg is a sidecar proxy: it listens for HTTP and WebSocket traffic, runs each
request through a chain of members (OPA policies, a response cache, filters, the
backend) and answers with what the chain makes of it. This directory holds TLA+
modules translated from the Go source, TLC configurations that check them on
small instances, and TLAPS proofs.

Paths below are relative to `src/internal/` unless they start with `src/`.

## Inventory

| component | source | state it keeps | operations | what makes it correct |
|---|---|---|---|---|
| filter chain | `common/netio/exports.go`, `request.go`, `response.go` | request `in` and response `out` of a run, tasks and contexts by name, a channel per task | `Cascade`, `await`, `spin`, `createOrUpdateResponse` | order, awaited results first, failing closed, one coherent response, no goroutine left behind |
| execution order | `Sort` in `exports.go` | none | `Sort` | gates before what they guard, whatever the order of configuration |
| HTTP proxy | `callers/proxies/http.go` | frozen list of callers | `Handle`, `Call` | the backend sees the client's request, and only one that was let through |
| cache | `middleware/cache/` | a JetStream key-value bucket outside the process | `Get`, `Set`, `ParseKey` | only vetted answers are stored, hits answer a like request |
| OPA | `middleware/opa/` | connections | `Eval`, `Call` | asked before any filter; an answer that is not a clear yes refuses |
| HTTP filter | `callers/filters/http.go` | none | `Call` | 400 and above is an error |
| core NATS filter | `callers/filters/nats.go`, `common.go` | an inbox, a subscription and two channels per call | `Call`, `SubscribeOnce`, `Publish`, `Await`, callbacks | answers go to their own call, once; every call ends; a late answer does no harm |
| durable NATS filter | `callers/filters/nats.go` | a queue, a reflector channel per server | `Call`, reflector, callbacks | as above, across redelivery, crash and restart; nothing leaves the queue undone |
| WebSocket proxy | `callers/proxies/ws.go` | two connections, two goroutines, a shared address | `Handle`, the goroutines pump and relay | each way a pipe that keeps the order of each connection, across reconnects; it gets to an open connection again; it goes to its own path |
| router | `common/router/router.go` | the route table | `Register`, `Find`, `Bind` | the most specific pattern, right parameters |
| start | `bootstrap/`, `src/cmd/main.go` | configuration, route table | `ParseV1`, `HandleFunc`, CORS | every resource is served or the program says why not |

How they interact: `main` parses the configuration, builds the callers of each
resource, sorts them into a chain and registers a handler with the router. A
request runs in a goroutine of its own (net/http) through `HttpProxy.Handle` and
`Cascade`. Cascade calls members and hands each two cloners, of the request as
the chain has rewritten it and of the original; parallel filters get a goroutine
that clones when it runs. NATS filters talk to workers through inboxes; an
answer starts a goroutine of the client library's subscription, which sends to
the channels of the call and then runs the filter's callbacks, another Cascade.

What is hard: the goroutines of a chain share the request without a lock;
channels are closed by one side while the other may still send; answers are
late, repeated or missing; the cache's puts are not acknowledged; the durable
queues deliver again what was not acknowledged, also to another process; the
two goroutines of a WebSocket session replace one connection; resources come in
the order of a Go map; errors are sometimes answered with `return nil`, or
reported and gone on from.
PROJECT.json lists each of these hazards at its line.

## Modules

**Callers.tla** — the members as records (kind, name, level, parallel, await list,
what their updaters replace, and the two settings of the configuration that
nothing reads, `onError` and `exchange`), with the fields that the constructors set, and
`Sort` as it is written, including that a pre- or post-level list is rebuilt
from the main callers met so far. `Parsed` is the order in which ParseV1 appends
members, `HttpChain` what NewHttpProxy makes of them, `FilterOf` the filters that
the parser lets pass: Level knows three levels. Filters come out of the
parser without updaters: SetExchangeHeaders and SetExchangeBody have no caller.
`AwaitedTwice` and `Collides` say of which chains a run can panic or die.

**FilterChain.tla** — the abstract specification: members are handed control one
after the other, none is skipped, a synchronous one has passed before the next
starts (or has failed and is configured with `onError: continue`, a step the code
never takes), and the answer is given once and only when the chain is through (or
by a cache hit, or by a failure).

**Cascade.tla** — one run of a chain. `pc`, `i`, `k` are main's place in the loop;
`await` is split by what the select finds (AwaitUnknown, AwaitExpired,
AwaitFailure, AwaitResult, AwaitClosed), the call and what follows it by what the
member returns (ReturnError, ReturnHit, ReturnNothing, ReturnResponse, UpdateIn,
Stamp). A goroutine clones in two steps (BeginClone, EndClone: headers, then
body), sends (Deliver) and closes its channel (CloseChannel); its context may
expire at any time. A parallel member may have an await list of its own, which
main goes through before it spins the member. A response whose body breaks off
(`"cut"`) fails where the code reads it (`ReadFails`). Contents are abstracted to their origin, 0 for the client,
j for the response of member j. A Go data race on the header map is a choice:
the runtime may notice (StampFatal) or not (Stamp). `out` inside `await` is a
copy of the pointer (`loc`): a response created there is lost on return, one
that exists is updated in place.

**HttpResource.tla** — one resource that serves several requests at a time and
shares the bucket among them. Its chain is what the source makes of a
configuration, `HttpChain(Parsed(...))`; parallel filters are left to Cascade.tla. Each member's call is one action, the backend's
two (the request reaches it; its answer comes back). The key has what ParseKey
replaces; one in which `{method}` is left the bucket does not take (`KeyValid`), so
with such a template no lookup and no put succeeds. The value stored is the request as rewritten by the proxy's updaters,
which by then holds the backend's answer. A put may fail and still arrive later,
entries expire. For OPA (`Decide`) the environment chooses the agent's answer, a
status and the set of results of its rules, and `Eval` says what the code makes
of it. Which response `Cascade` ends with is left to Cascade.tla.

**NatsFilter.tla** — concurrent calls of one core NATS filter: subscribe, publish,
await (a choice of what is ready), the deferred closes, the goroutine of a
delivered answer (`handle`, then the deferred callbacks). The messaging system
is external: `asked` holds what has been published and not yet answered, any of
it may be answered late, in any order, or never. The panic of a send on a closed
channel ends the process only after the deferred callbacks, as in Go.

**DurableNats.tla** — the durable filters of one server, on top of NatsFilter: the
call, the inbox and the goroutine of a reply are the same operators (`HandleResponse`,
`HandleError`, `Receive`), except that a reply starts no callbacks. The request
goes into a queue (`asked`) whose push may fail although it was stored
(`PushUnconfirmed`); a worker's answer goes into the second queue, which the
reflectors of all filters pull from. A reflector publishes the answer to its inbox
or cannot (`Reflect`, `CannotReflect`), runs its callbacks, and settles it; those
are three steps between which the process may end. `Redeliver` brings back what is
not acknowledged, to any reflector, and also while one is still at work on it.
`Restart` empties what lives in the process and keeps what the queues hold.

**WebSocketProxy.tla** — the sessions of a WebSocket resource. `Handle` is a sequence
of steps (Connect, Upgrade, WritePath, FirstDial) each of which goes on after an
error, recorded in `failed`. `pump` (lines 139-174) and `relay` (lines 176-206) are
the two goroutines, `out` the number of the connection in the variable they share,
`links` all connections the session has dialled: replaced ones are not closed, so
they stay, and `relay` may be reading one of them (`from`) while `out` is another.
The path is a Go string that sessions write without a lock: two words, one written
after the other. gorilla/websocket is external: reads and writes of a broken
connection fail from then on, and too many reads of a failed one panic.
A write puts the message on its way (`Posts`, `wire`), and it reaches the backend
later (`Delivers`); what the backend says waits in `queue` until the relay reads
that connection. A connection keeps the order of what it carries, two of one
session do not, and a break loses a suffix of what is under way on it, either way.
Of a chain's run only the end is kept: it may pass or, when it has members, refuse
(`MayRefuse`); panic when a task is awaited twice; and die over the header map
when a goroutine may be cloning it (`Fatal`). net/http recovers a panic in the connect chain
(`ConnectPanics`), nobody those in the goroutines (`PumpCascadeEnds`,
`RelayCascadeEnds`). That is more than Cascade allows, since it does not look at what
the members answer.

**LossyPipe.tla** — the abstract specification of one direction of a session: only
what was let through arrives, none twice, and in the order it was said among those
that took the same connection.

**Router.tla** — operators for ParseRoute, RouteCompare, Register, Find and Bind.
Find is the source's loop, as a recursive function of the turns: it keeps the
first route of the greatest rank. A segment "?" cannot be told from a parameter
once it is parsed; the pattern of a URL can hold one as "%3F", and a segment of a
request that begins with ":" becomes one. Bind gives the set of values a name can
get, since a Go map's order decides when two segments share a name.

**Bootstrap.tla** — ParseV1's loop in every order, HandleFunc with CORS
registered before the methods, what each failure does (`return nil` ends the
loop and the server listens; `return err` ends the program). What fails is said of
each part of a resource by itself: a filter's address, level or scheme, its timeout,
and the NATS server where one is connected to; an HTTP filter connects to nothing
when it is built. `Clean` is what http.ServeMux leaves of a path. Timeout is modelled
character by character because it cuts the unit from the wrong end.

**LoopProofs.tla** — induction over the turns of a loop, in a form the provers can
use: about sets and functions instead of operators.

**CallersProofs.tla**, **CascadeProofs.tla**, **HttpResourceProofs.tla**,
**NatsFilterProofs.tla**, **DurableNatsProofs.tla**, **WebSocketProxyProofs.tla**,
**BootstrapProofs.tla** (with the router) — the proofs. `MC*.tla` hold the instances.

## What is checked

| run | bounds | distinct states | shows |
|---|---|---|---|
| cascade | 37 chains: 8 sets of filters, each with and without OPA and cache, and 5 callback lists; up to 9 members, 2 goroutines | 103,025 | AwaitedFirst, NotFoundHonest, FailClosed, ResponseIsProxys, PanicNeedsSharedAwait, IsolatedWhenAwaited; implements FilterChain; nothing is left blocked |
| http_resource | 2 requests, 2 bodies, 2 methods, 4 resources | 55,680 | EntryVetted, HitVetted, BackendGated, OpaFirst, DenialHolds; each run implements FilterChain; every request is answered |
| nats_filter | 2 calls, 2 workers, with and without an HTTP callback | 59,390 | LetsThrough, CallbacksOnce, CrashOnlyLate; calls end, callbacks follow |
| durable_nats | 2 calls, 1 worker, 2 filters, answers below 400, malformed or without an inbox, 1 redelivery of what is still worked on, any number after a crash | 361,064 | LetsThrough, NobodyBlocks, SettledMeansDone, LateOnly; every answer is settled |
| websocket | 1 session, 2 messages of the client, 1 of the backend, 2 breaks, 2 resources | 265,760 | NoLossWithoutBreak, CrashOnlyAfterFailure, FewOrphans; each way implements LossyPipe; it reads from an open connection again; the client's goroutine ends |
| bootstrap | 3 resources out of 18, overlapping patterns and every kind of failure, 8 paths, 3 methods | about 22,000 up to symmetry | RoutesToMostSpecific, BindsSegments, RoutesStay |

Why the bounds are enough. Cascade's members interact through the request, the
response and the tasks: two parallel filters and one that awaits both, in either
order, with members on both sides of the proxy, and a parallel one that awaits
another, give every relation between them; longer chains are covered by the proofs. In the cache, two requests are
the smallest number where one stores and one hits; a third would add only
further entries under other keys. Two calls and two workers let answers cross
and repeat. With durable filters one worker is enough, because the queue hands a
request to it again (`PushUnconfirmed`, `Redeliver`) and answers repeat anyway; two
filters give an answer to the reflector of the other one. Sessions of a WebSocket
resource share nothing but the address, so one session is enough for the rest,
and `websocket_path` has two; two breaks let both goroutines find the same
connection broken and a reconnect break again. Two messages of the client are
enough for the later one to overtake the earlier on another connection, or for
one to be lost and the other not; the backend's one meets every state of the relay,
and the order of several is proved. `ReadLimit` stands for the 1000
failed reads gorilla/websocket puts up with: 2 lets the relay try once more. Three
resources let two patterns tie while a third is more specific. Identifiers of resources are
interchangeable because they are visited in any order, so `bootstrap` uses
symmetry (it checks no liveness). Runs that end do so by explicit `Terminated`
steps, so deadlock is checked everywhere; in the WebSocket runs the backend may come
and go for ever, so they never end, and the liveness properties of `websocket` say
what the goroutines must get to.

Fairness. Goroutines are scheduled again and again (weak fairness of main and of
each goroutine), timers fire, and every call of a member returns: filters and
the proxy are bounded by a context, OPA and the bucket by the client's timeout.
Nothing is assumed of the network, of workers, or of which ready case a select
takes. In `durable_nats` the reflectors are scheduled, the queue redelivers what is
not acknowledged (that is what its acknowledgement is for) and the container is
restarted; calls need not go on. In `websocket` the steps of the goroutines
that wait for nobody are scheduled, and a message that has come in is read; that a
client or the backend says anything, and that what is written arrives, is not
assumed, and that the backend is up is a premise of the two liveness properties
(ReadsAgain: always, PumpFollowsClient: from some time on) and not of the
specification.

### Where code and documentation disagree

Six runs expect a violation; each is one property that a line of the
documentation states, and TLC shows how the code breaks it.

| run | property | the code |
|---|---|---|
| cascade_shared_await | AwaitNeverPanics | a task's channel holds one result and is then closed; a second await reads nil |
| cascade_parallel_isolated | ParallelIsolated | a parallel filter clones when it is scheduled and without a lock: the request it gets may be half the client's and half the backend's, and its clone may collide with the chain's write to the header map |
| cascade_settings | SettingsHonoured | `onError: continue` and `exchange` are decoded and never read: a filter that fails ends the chain, and no filter changes a request or a response |
| nats_late_answer | LateAnswerHarmless | send on a channel that the returned call has closed |
| websocket_path | OwnPath | every session writes its path into the address that all of them dial |
| bootstrap_timeout | DocumentedIsServed | "30s" does not parse, and the rest of the resources is dropped silently |

Two more are so for every input, and are proved instead of shown by a trace:
 - The copies of a request that are forwarded, to OPA too, have no method
   (`common/netio/request.go:145-153`), so that everything reaches the backend as a GET:
   EverythingIsAGet. `src/README.md:19` says "Proxy requests to main app as backend", and
   `src/examples/fullspecs.yml:17-23` lists the methods of a resource.
 - Find parses the path of a request as if it were a pattern (`common/router/router.go:71-75`),
   so that of a segment ":x" a parameter gets "?": ColonSegmentsAreHidden. Line 34 of
   fullspecs.yml says "${:PARAM_NAME}: captures a route parameter".

The passing runs leave these behaviours in: CrashOnlyLate says that a late
answer is the only way to that crash, KeepsChainPromise counts a panic as a
failed run, and LeavesNothingBehind excuses only a dead process. FailClosed,
ResponseIsProxys and FilterChain promise what the documentation does: they allow a
filter to be passed over, or to replace a part of the response, where the
configuration says so, and `cascade_settings` shows that the code does neither.
BindsSegments declares two exceptions: segments that begin with ":", and names that
stand in a pattern more than once.

Other behaviours that the models have and that a reader of the code may not
expect, without a run of their own:
 - `{method}` in a cache's key template (`src/examples/fullspecs.yml:37, 39`) is never replaced:
   for it ParseKey replaces `{body}` once more (`middleware/cache/common.go:86`). The bucket
   refuses a key with braces, so that every request of such a resource fails (`KeyValid`);
   the run `http_resource` has a template without it, for the cache to be used at all.
 - A parameter whose name stands in its pattern once more, as in `/:a/a`, gets either
   segment, as a Go map's order has it (`Bind`).
 - When two patterns with as many literals cover a request, which of them is taken
   changes from one start to the next: ParseV1 registers in the order of a Go map.
   RoutesToMostSpecific and RoutesStay accept either.
 - A pattern with an empty segment in between, `/a//:x`, takes `/a/b` with x empty
   (RouteCompare counts the segments, and a missing one reads ""). No document says
   what such a pattern means; the properties speak of standard templates (`Standard`).
 - An HTTP filter among the callbacks of a NATS filter writes through a nil URL,
   which ends the process (`RunCallbacks`); for a durable filter the answer is
   redelivered after the restart, which ends it again. `durable_nats` therefore
   has no HTTP callbacks.
 - OPA lets a request through on an answer of the agent that has no boolean at all
   (`Eval`); DenialHolds says that a false is never outweighed.
 - A client that the connect chain of a WebSocket resource refuses still gets its
   session, and after a failed upgrade or dial the goroutines start on a nil
   connection, which ends the process (`PumpPanics`, `RelayPanics`).
 - When pump reconnects while relay sleeps, relay reconnects as well: from then on
   the backend has two connections of one session, and relay stays with an old
   one for as long as that is open (`from`). What the backend answers to one it
   no longer reads is never carried, and of two messages that pump has written to
   the two connections the later may reach the backend first. The relay of a client
   that has left never ends.
 - A message that is written when the connection is already broken is lost, and so
   is the one whose write fails if the dial after it succeeds (`PumpDials`).
 - All messages are forwarded as text, binary ones too.
 - The reflector of one durable filter runs its own callbacks for the answer to
   another (`RunReflectorCallbacks` does not ask whose answer it is).

## What is proved

Every invariant, every action property and every refinement that a passing run
checks is also proved, for every value of the constants. What follows says from
which assumptions and along which argument.

### Loops, and the chain that Sort makes

Sort's and Find's loops are recursive functions. LoopProofs shows that such a
function exists (`LoopExists`) and that what each turn keeps holds at the end
(`AfterAllTurns`), both from the library's well-foundedness of the natural numbers.
With them CallersProofs shows that `OfLevel` picks out exactly the callers of a
level in their order (`OfLevelKeeps`), and ChainIsSorted: for any number of filters
of any of the parser's levels in any order, with and without OPA and cache, the
chain is in the order of the levels, holds the proxy, and has OPA's connect-level
member first. The rebuilt pre- and post-level lists do no harm there, because
NewHttpProxy appends itself after everything else (`LastAlone`).

### Cascade

For every set of chains of callers (any names, lengths, await lists) in which a
chain has at most one proxy — `ChainsAssumption`, `OneProxyAssumption`, which hold
because NewHttpProxy appends itself once — TLAPS proves of `Cascade!Spec`:
TypeCorrect, AwaitedFirstHolds, NotFoundHonestHolds, FailClosedHolds,
ResponseIsProxysHolds, and KeepsChainPromiseHolds, that Cascade implements
FilterChain.

None of the invariants is inductive by itself. The inductive invariant `Inv`
joins `TypeOK` to:
 - `MainAt`: a member that is being called is synchronous and its await list is
   through;
 - `Tasks`: every registered task is a parallel member before the current one,
   and the name of every such member is registered, which NotFoundHonest needs;
 - `Goroutines`: only parallel members that main has passed have one, and what is
   in its channel is what its call returned;
 - `AwaitedSoFar`: the entries of the await list before `k` are done, which
   AwaitedFirst needs, since it speaks of results after their channels have been
   drained;
 - `Passed`: the synchronous members before `i` did not fail, and where the body of
   one broke off nothing would have used it, for FailClosed and the refinement;
 - `NotFoundHonest` itself;
 - `Response`: from the proxy on, headers and body of `out` are its own, because
   no other member carries updaters, and await's pointer is main's.
Each conjunct has a lemma for its step, with one case for each action that can
disturb it. The refinement is proved from `Inv`: StartMember is Spin or Call,
AcceptMember the end of a synchronous member, every other step a stutter.

Two theorems say when the two defects that the runs above find in Cascade cannot
show. PanicNeedsSharedAwaitHolds: the panic needs a task that an earlier entry has
awaited, so chains in which each task is awaited once never meet it, with callers
of one name told apart by which of them the entry gets (`Awaits`).
IsolatedWhenAwaitedHolds: a parallel filter that a member in front of the proxy
awaits clones the client's request and nothing else, and the collision on the
header map needs a filter that no member up to the current one awaits. They
strengthen `Inv` by:
 - `Latest`: the task registered under a name is that of the last member that has it,
   which makes the task at an await the one `Awaits` names (`TaskAwaited`);
 - `Channels`: what main has awaited has delivered; a channel is closed last; and
   while the run goes on, an empty channel of a goroutine that has delivered was
   emptied by an await;
 - `Untouched`: until the proxy is left, headers and body of the request are the
   client's, and so are the clones made by then.

### HTTP resource

For any set of requests, bodies, filter names and configurations
(`ConfigsAssumption`: the filters are such as the parser makes and not parallel)
TLAPS proves TypeCorrect, EntriesAreVetted, HitsAreVetted, BackendIsGated,
OpaIsFirst, DenialsHold, and RunsAreFilterChains, that each request's run
implements FilterChain. From ChainIsSorted come the facts about the chain: every
gate is before the proxy, the put is after everything else, a cache lookup is
after every connect-level member. The inductive invariant joins to `TypeOK`, per request,
 - `Progress`: the members before `at` have let it through, those after were not
   called;
 - `Proxied`: the backend was reached only by the proxy's call, and past the proxy
   the body is the backend's;
 - `HitAt`: a hit ends the run at the lookup, with a checked entry under the key of
   the request;
 - `DeniedAt`: the member that was denied is the last called, and the run failed;
and of the cache, that every entry, and every put that may still arrive, is
`Checked`: under its own key, with the backend's answer, of a request that had
passed every gate. Since what passed stays passed, entries stay checked while
other requests go on. Steps are sorted into the few kinds of things that they do
to one request, and each kind has a lemma.
EverythingIsAGet: whatever the client's method, the backend is called with a GET.

### NATS filters

For every set of calls and of workers TLAPS proves of `NatsFilter!Spec` TypeCorrect,
LetsThroughHolds, CallbacksOnceHolds and CrashOnlyLateHolds. The inductive invariant
is `CallInv` with `GaveUp` and CrashOnlyLate. `CallInv` joins to `TypeOK`, LetsThrough
and CallbacksOnce:
 - `OwnInbox`, `OwnRequest`, `OwnAnswer`: subscription, request, goroutine and
   what is in the channels belong to one call, which LetsThrough needs since Await
   looks only at what it receives;
 - `Unanswered`: nothing has reached a call whose subscription is not spent;
 - `OneGoroutine`: a spent one started one goroutine, which hands its answer over
   before it runs the callbacks, for CallbacksOnce.
`GaveUp` is for CrashOnlyLate: a call that returned with its request under way and
nothing received has timed out.

The lemmas on `CallInv` are about the operators both kinds of filters use, so the
proofs about `DurableNats!DSpec` cite them for every step of a call and of a reply's
goroutine, and add what the queues do: `DInv` is `CallInv`, `DTypeOK`, `OwnReply` (an
answer in a queue names the inbox of the call it answers), SettledMeansDone and
LateOnly. DTypeCorrect, DLetsThroughHolds, NobodyBlocksHolds, SettledMeansDoneHolds
and LateOnlyHolds hold for every set of filters and any number of redeliveries,
crashes and restarts (`DurableAssumption`: MaxEarly is a natural number and answers
have one of the known contents).

### WebSocket proxy

For any number of sessions, messages, breaks and resources TLAPS proves
TypeCorrect, NilOnlyAfterFailure, NothingIsLostWithoutBreak, BreaksBoundOrphans and
SessionsImplementPipes. The inductive invariant joins to `TypeOK` and
CrashOnlyAfterFailure, per session,
 - `Handshaken`: while Handle is at work neither goroutine is, nothing was dialled
   or said, and what is nil afterwards is so because a step of it failed;
 - `Linked`: `out` is the connection dialled last, whoever dialled it, and who dials
   again had one before and has seen a break;
 - `Budget`: the open connections, and those that pump and relay are about to dial
   because they found theirs broken, are at most one more than the breaks. This
   is what FewOrphans needs: both may replace the same connection, but each pays
   for its dial with a break of its own;
 - `Pumped`: what the pump carries was let through and is later than all it has
   sent (`Carried`); writes are made in the order of the messages, and what is under
   way is later than all that has arrived on its connection, and nowhere else
   (`OnTheirWay`); as long as no connection has broken that is all there is (`Kept`);
 - `Relayed`: the same of the other way, where messages wait in `queue` and are let
   through when they are read (`BackCarried`, `BackOnTheirWay`, `BackKept`).
Since writes are numbered, the order on a connection follows from that of the
writes, whatever other connections are open. The refinement follows from the last
two: towards the backend a read is Say and a delivery Arrive, towards the client
what the backend says is Say, a read Pass and a write Arrive; everything else is a
stutter of both pipes. Nothing is claimed of the order between two connections.

### Router and start

For any resources, patterns (any sequences of segments, empty ones included) and
requests, and for every order in which the resources are visited, TLAPS proves
TypeCorrect, MostSpecificIsTaken, ParametersAreBound, ColonSegmentsAreHidden and
HandlersStay (`ConfigurationAssumption` gives the configuration its types and says
that requests have clean paths; MostSpecificIsTaken speaks of tables of standard
templates, ParametersAreBound of the standard templates that are taken, with the two
exceptions it declares). `RankOfCover` says what RouteCompare computes: 0 for a
pattern that does not match the path (as many segments, and its literals at their
places, `Matches`), and otherwise a number that grows with the pattern's literals.
For a standard template and a clean path `MatchesIsCovers` shows that this is what
`Covers` says: the segments of both are at the same places, each the pattern's own
or a parameter. `FindsBest` is the invariant of Find's loop, `FindStays` compares
the loops over a table and over one that has grown: what comes later wins only with
a greater rank. `Registers` and `ResourceRegistered` say what a registration adds,
also when the preflight handler takes the route of the resource's own OPTIONS method
first. The inductive invariant is `TypeOK` with `IsTable`, that the handlers are
exactly those of the routes, which HandlersStay needs to know that the route that
was found still has its handler.

EveryTimeoutFails shows that the run bootstrap_timeout has not met an odd
spelling: Timeout refuses every string that is not empty. NoTimeoutIsServed is the
consequence, no resource that is served has a timeout.

### Only model-checked

Liveness: LeavesNothingBehind, Answered, CallEnds, CallbacksFollow, AnswersSettle,
ReadsAgain and PumpFollowsClient need fairness, and with it ENABLED, which the
installed provers do not handle. Deadlock freedom is ENABLED of the next-state
relation and stays with TLC for the same reason. The six violations are
counterexamples and need no proof.

## Not modelled, and why

 - Publishing local policies to OPA's agent at the start: one step of Bootstrap
   that may fail, since what the agent then knows is outside the process.
 - Encodings (gob, YAML, JSON), header contents, `Write` to the client, preflight
   headers, `[[envvar]]` hosts: data that no property tells apart. Of the updaters
   only those the constructors install are modelled; the others have no caller.
 - `src/internal/common/netio/common.go` and `conf.go`: copies and declarations.
 - The queue library and gorilla/websocket: external, modelled by how the code
   uses them.

## Plan

1. Done: Callers, FilterChain, Cascade and its proofs; HttpResource with Eval;
   NatsFilter, DurableNats and their proofs; WebSocketProxy and LossyPipe; Router
   and Bootstrap.
2. Done: the proofs of Callers' Sort, HttpResource, WebSocketProxy, Router and
   Bootstrap, so that only liveness is without a proof.
3. Compositions: Cascade inside HttpResource's members (a parallel member in a
   resource with a cache), NatsFilter as the member a Cascade calls; with the
   refinement of FilterChain proved for them as it is for the parts.
