# libhttpserver in TLA+

Specifications of the concurrent and stateful core of libhttpserver (the C++
library under `src/`), model-checked with TLC on small instances and, for the
properties that matter most, proved with TLAPS for every instance. Source paths
below are relative to `src/` of the repository.

## 1. The system

libhttpserver wraps libmicrohttpd (MHD, external). MHD owns the sockets and
calls back into the library on its worker threads; the application calls the
public API from any thread, handlers included.

| Part | State | Operations | Where |
|---|---|---|---|
| Segment trie | nodes with literal children, one wildcard child (name, constraint), an exact and a prefix terminus | insert, remove, has_terminus_at, find | `httpserver/detail/segment_trie.hpp` |
| Route table | `exact_routes_`, trie, `regex_routes_`, one `shared_mutex` | register_path/prefix, on_*/route, unregister_* | `detail/route_table.cpp`, `webserver.cpp` |
| Lambda shims | one handler slot per method | prepare_or_create, commit_handlers | `detail/webserver_impl.cpp`, `httpserver/detail/lambda_resource.hpp` |
| Route cache | LRU list, hash index, a mutex of its own | find_by_view, insert, clear | `httpserver/detail/route_cache.hpp` |
| Route lookup | (per request thread) | lookup_v2: exact, cache, walk, install | `detail/route_table.cpp` |
| Hook bus | eleven phase vectors, slot ids, per-phase gates, two alias slots, a `shared_mutex` | add_hook, remove, fire | `detail/hook_bus.cpp`, `hook_handle.cpp` |
| Per-resource hooks | the same for five phases, created lazily | add_hook, remove, fire | `resource_hook_table.cpp`, `http_resource.cpp` |
| Request dispatch | connection_context of one request | answer_to_connection, body phases, finalize_answer, completed | `detail/webserver_callbacks.cpp`, `detail/request_pipeline.cpp`, `detail/request_dispatcher.cpp`, `detail/hook_dispatcher.cpp`, `detail/response_materializer.cpp` |
| Daemon lifecycle | running flag, mutex and condition variable, MHD daemon handle | start, stop, stop_and_wait, quiesce, run, destructor | `webserver.cpp`, `detail/daemon_lifecycle.cpp` |
| IP access control | allow and deny sets ordered by pattern, a `shared_mutex` | allow_ip, deny_ip, remove_*, policy_callback | `detail/ip_access_control.cpp`, `detail/ip_representation.cpp` |
| WebSockets | registry of handlers; a session per upgraded connection | register, unregister, upgrade, session loop | `detail/ws_registry.cpp`, `detail/websocket_upgrader.cpp` |
| Upload pipeline | open file part, sizes | post_iterator, chunks | `detail/upload_pipeline.cpp` |
| TLS callbacks | SNI credential cache | psk, sni | `detail/webserver_callbacks.cpp` |
| Values | requests, responses, cookies, strings | parsing and formatting | `http_request.cpp`, `http_response.cpp`, ... |

How they interact: a registration call takes the table lock exclusively,
changes the table, releases it and then clears the cache. A request thread
resolves its route through lookup_v2, which takes the table lock and the cache
mutex in turn and never together, and then runs the hooks of each phase around
the handler; hooks are fired from a snapshot taken under the bus lock. The
daemon's stop waits for MHD's threads.

What is hard to get right, and to test: the gaps between the critical sections
of a lookup; the order of a table change and of its cache clear; calls that
throw half way; shims that several calls, and several paths, share; the
structures with two representations of one fact (list and index, gate and
vector). `PROJECT.json` lists these hazards at the lines where they bite.

## 2. Modules

### SegmentTrie (operators)

A path is a sequence of segments; a segment is a literal or the text of a
placeholder. A node is named by the edges that lead to it, and a trie is a
function from its nodes to `[name, constraint, exact, prefix]`. `insert`,
`remove`, `has_terminus_at`, `find`, `step_to_child`, `walk_registered_pattern`
and `descend_or_create` keep the names of the source. A constraint is the set of
segments its regex accepts (`Accepts`); a constraint that does not compile is in
`Uncompilable`. `TornInsert` is what an insert that throws leaves: every node
down to the offending one, which has its name and no constraint. Such
constraints do reach the trie: `http_endpoint` compiles the constraint as part
of the whole URL's regex, without parentheses, and a text may be valid there
and not alone.

### RouteTable

`routes` holds the three tiers, `slots` the methods each lambda shim answers,
`made` the shims in use. One action per public call: `register_v2_route`
(register_path, register_prefix), `on_methods` (on_get ... route),
`unregister_impl`, `unregister_resource`. Each does its work under the exclusive
table lock and is one step, with its early throws as disjuncts (`Refuse`,
`Tear`). `accepted` and `outcome` are history: the registrations that returned
and stand, and how the last call ended.

`find_v2_entry_by_path` is the duplicate probe of the on_* calls. For a
placeholder path it is `find`, the lookup of requests, applied to the text of the
pattern, and much depends on that: a constraint hides the entry of the same path
(`RegistrationsCompose` fails, `FindableRegistrationsCompose` holds), and a
wildcard on the way finds the entry of another path, whose shim the call then
shares (`HandlersServeTheirPaths` and `FailedCallKeepsHandlers` fail,
`ApartHandlersServeTheirPaths` holds where no placeholder path covers another).
`LookupComplete` is about registrations that nothing shadows: a literal node,
also one whose route was removed, takes the descent away from its wildcard
sibling, and the trie keeps such nodes on purpose.

### LruCache, LruSpec, RouteCache

`LruCache` has the operators of an LRU cache as a sequence of records
(`Promote`, `Install`). `LruSpec` is the abstract specification of
`route_cache`: find, insert, clear and their replies. `RouteCache` is the code:
a list of nodes with an identity and an index from keys to identities, where the
identity of a freed node is taken again. `ImplementsLru` is the refinement.

### RouteLookup

Threads that look routes up or call the registration API. `ProbeExact`,
`ProbeCache`, `Walk`, `InstallWalked` are the four critical sections of
lookup_v2; `MutateTable` is any step of RouteTable and
`invalidate_route_cache` the clear that follows it if the call returned. Two
history variables make staleness precise: `disturbed[t]` says that a
registration call overlapped the lookup of `t`, and a record is `exposed` when
the table changed after it was read and the clear came too early (or never,
after a call that failed half way).

### LookupHistory

RouteLookup with two more history variables: `views[t]`, what the tables that were
current during the lookup of `t` would have answered in one step, and
`changes[t]`, how often the table changed meanwhile. `AnswerLinearizes` says
nothing of a lookup that a registration call overlaps; `OneChangeLinearizes` says
that one change is harmless wherever it falls between the two lock windows and
the cache probe: the answer is that of the table before or after it. The bound is
sharp. With two changes (`/a` registered after the exact tier was probed for it,
then `/{id}` removed before the trie is walked) the lookup misses although every
table had an answer; the repository promises nothing for that case.

### HookBus

The server-wide bus: `hooks` (the phase vectors, as slot ids in the order of
registration), `any_hooks` (the gates), `next_slot_id`, and the `handle` objects
of the application. `AllocateSlot` is the fetch_add that precedes the lock of
add_impl and `PushSlot` its critical section, or `FailPush` when push_back throws
there; `RemoveHandle`, `Move`, `Detach`
are the operations of `hook_handle`, each with the one critical section of
`hook_bus::remove` (`EraseSlot`) it may contain. Registration calls come from any
thread, running hooks included, so they are tied to the handle they fill and not
to a thread. A request thread fires a phase in steps: it reads the gate
(`EnterPhase`, `SkipPhase`), copies the vector (`TakeSnapshot`, or
`FailSnapshot` when the copy throws), runs each hook (`CallHook`: pass, throw or
respond) and at the end the alias slot (`RunTail`). `standing` and `seen` are
history: the slots registered during all, or part, of a firing. The gate's
relaxed load is modelled as a read of its current value. Two things of
`fire_response_sent_gated` are outside: the per-route chain it fires last, and its
return when the connection has no response, which its only caller has ruled out
by dereferencing that response. `remove` does not wait
for firings: a hook that a firing has already copied may still run after
`remove` has returned, and `FiringSound` says exactly how far that goes.

### SequenceLemmas

Lemmas on `Append`, `RemoveAt` and `Tail` that the proofs of RouteLookup and of
HookBus use.

### MC modules

`MCRouteTable`, `MCRouteLookup` and `MCLookupHistory` give the constants values. A
`.cfg` file only assigns constants.

## 3. Runs

| Run | Expect | Shows |
|---|---|---|
| RouteTableApi | pass | four overlapping paths (literal, placeholder, placeholder in the middle, two levels), one class resource, two shims, two methods: `LookupSound`, `LookupComplete` |
| RouteTableMixed | pass | an exact path, a constrained placeholder, an uncompilable constraint, a regex path: `TierPolarity`, `FindableRegistrationsCompose`, `ApartHandlersServeTheirPaths` |
| RouteTableConstraint | violation | the constraint of a second placeholder at one node is dropped |
| RouteTableCompose | violation | a second on_get on a constrained path is accepted and replaces the first |
| RouteTableAlias | violation | on_post on `/{id}/a` shares the shim of `/{id}/{n}` and answers its requests |
| RouteTableTorn | violation | a call that throws leaves nodes that shadow a route |
| RouteTableTornShim | violation | a call that throws leaves its handler in the shim of another route |
| RouteCache | pass | capacity 3, four keys, two values: index and list agree, LRU order, refinement |
| RouteLookup | pass | two threads, cache of one entry, three paths of which one cannot be inserted and tears the trie: `CacheCoherent`, `AnswerLinearizes` |
| LookupHistory | pass | two threads, two paths that match one request: `OneChangeLinearizes` |
| RouteLookupStale | violation | two threads: a stale route survives in the cache after both calls are over |
| HookBus | pass | three phases (no alias, short-circuit with alias, observing with alias), two handles, three slots: `GateAccurate`, `RegistrationsOwned`, `FiringComplete`, `FiringSound`, `FiringInOrder` |

Bounds. Two shims are enough for a shim to be found, to be replaced and to be
left without a route; two methods for a partial overlap of method sets. The
requests are all literal paths of up to two segments over two of the literals,
plus the root. Four keys against capacity three let every position be evicted.
With two threads a walk, a mutation, its clear, the install and a second lookup
can be ordered in every way; a third thread only adds a second mutator, which
the theorem covers. `LookupHistory` looks one request up that an exact and a
placeholder path both match, and is symmetric in its threads; `Many` stops its
count of changes at two. The number of calls is not bounded in the route modules: the
state spaces are finite without it. In HookBus `MaxSlotId` bounds the
registrations (2^64 in the code); three slots let a vector lose its first, middle
or last entry during a firing, and two handles are what a move needs. One firing
thread is enough there because firings do not change what other firings read.

The violations are recorded under "findings" with the text they contradict.

No liveness property is checked so far and no fairness is assumed: every
operation of these modules is a loop-free critical section.

## 4. Proofs

`RouteLookup_proofs` proves `TypeOK`, `CacheCoherent` and `AnswerLinearizes` for
any set of threads, any routes and any cache capacity above zero. The only
assumption used is `MaxEntriesAssumption`, which the constructor of
`route_cache` enforces by throwing.

A registration call (`TableNext`) and a walk of the tiers (`WalkTiers`) are
opaque in the proof: it depends on the order of the critical sections and on
nothing of what the calls do to the table. `AnswerLinearizes` is not inductive:
a hit is only as good as the cache (`CacheCoherent`), an install as good as what
was walked (`WalkedCoherent`), a walk only right if the exact tier that missed
earlier still misses (`ExactMissStands`), and a hit on a record that awaits its
clear must be impossible in an undisturbed lookup (`NoClearPending`). `IInv` is
their conjunction with the types. TLC found it to hold on the instances of the
runs before it was proved; the runs themselves list only the properties.
One lemma per action shows that it keeps `IInv`; the lemmas on `Promote` and
`Install` say that the cache only ever holds records it held before and the one
inserted.

`HookBus_proofs` proves `TypeOK`, `GateAccurate`, `RegistrationsOwned`,
`FiringComplete` and `FiringSound` for any set of phases, aliases, handles and
threads, from `BusAssumption` alone: there is a phase, only
handler_exception and response_sent can have an alias, and the bound on slot ids
is a natural number. TLC found its `IInv` to hold on the instance of the run.
`RegistrationsOwned` needs `SlotsFresh`: ids in use are below the counter, no two handles hold one id, a detached id has no handle; without it
a push could add an id twice and a removal take away the wrong registration.
`FiringComplete` needs `FiringCovered`: before the copy, what the firing owes is
in the vector; after it, in what has run or is left in the copy; and the alias has
not run before the copy is used up. A gate found
closed owes nothing by `GateAccurate`, which is where the two parts meet. The
effect of `EraseSlot` is one lemma that removal and move assignment share. The
proof is in three modules: `HookRegister_proofs` (the invariant, the initial state,
registration and erasure), `HookHandle_proofs` (the operations of a handle) and
`HookBus_proofs` (the steps of a firing, and the theorems).

Only model-checked: `FiringInOrder`, `OneChangeLinearizes`, everything about RouteTable (its properties
quantify over the recursive descent of a lookup) and the refinement of
RouteCache.

## 5. Not modelled

String processing (canonicalisation of URLs, unescaping, regex syntax, header
formatting), value types, I/O, TLS libraries and libmicrohttpd itself. The parts
of section 1 without a module are listed in `PROJECT.json` with status
`not_modelled` and are the plan below.

## 6. Plan

1. **Per-resource hooks**: the table of `resource_hook_table.cpp`, created by a
   compare-and-swap, shared by copies of a resource, reached by handles through a
   weak pointer; its order after the server-wide chain.
2. **Lifecycle**: start, stop, stop_and_wait, blocking start, destructor, with
   the condition variable; deadlock and liveness (a blocked start returns after
   a stop); nested firings on one thread under an external event loop.
3. **RequestDispatch**: one request through the callbacks and the pipeline,
   composed with an abstract hook bus: phase order, exactly one response,
   request_completed exactly once, handler exceptions.
4. **AccessControl**: policy and the two sets; the order on patterns as a pure
   algorithm against a reference definition.
5. **WebSockets**, **Upload**, **SNI cache**.
6. More proofs: `TierPolarity` for every pattern set, the refinement of
   RouteCache, `FiringInOrder`.
