----------------------------- MODULE RouteTable -----------------------------
(***************************************************************************)
(* The three-tier route table and its registration API                     *)
(* (src/detail/route_table.cpp, src/webserver.cpp,                         *)
(* src/detail/webserver_impl.cpp).                                         *)
(*                                                                         *)
(* Every mutator does its whole work under route_table_mutex_ held         *)
(* exclusively, so each one is a single action here; the cache clear that  *)
(* follows it outside the lock is added by module RouteLookup.             *)
(***************************************************************************)
EXTENDS SegmentTrie

CONSTANTS
  Patterns,        \* the paths registration calls are made with
  Requests,        \* the paths requests are made for
  RegexPatterns,   \* the literal patterns that do not match their own text
  RegexMatches,    \* for each of these, the requests its regex matches
  Resources,       \* class-based http_resource objects
  Shims,           \* lambda_resource objects that can be created
  Methods,         \* HTTP methods
  SingleResource   \* the single_resource option

ASSUME PatternAssumption ==
  /\ Patterns \subseteq Seq(Segments)
  /\ Requests \subseteq Seq(Segments)
  /\ RegexPatterns \subseteq Patterns \cap Seq(Literals)
  /\ DOMAIN RegexMatches = RegexPatterns

ASSUME HandlerAssumption ==
  /\ Resources \cap Shims = {}
  /\ None \notin Resources \cup Shims
  /\ SingleResource \in BOOLEAN

VARIABLES
  routes,     \* exact_routes_, param_and_prefix_routes_ and regex_routes_
  slots,      \* for each lambda_resource, the methods it has a handler for
  made,       \* the lambda_resources created so far and stored in a route
  accepted,   \* history: the registrations that returned and stand
  outcome     \* how the last call ended: returned or threw

tableVars == <<routes, slots, made, accepted, outcome>>

Entries == [methods : SUBSET Methods, handler : Resources \cup Shims,
            is_prefix : BOOLEAN]

-----------------------------------------------------------------------------
(* Reading the table.                                                      *)

HasPars(pattern) == \E i \in DOMAIN pattern : is_wildcard_segment(pattern[i])

classify_route_tier(pattern) ==
  IF HasPars(pattern) THEN "radix"
  ELSE IF pattern \in RegexPatterns THEN "regex" ELSE "exact"

\* The tiers that lookup_v2 walks on a cache miss: the trie, then the first
\* regex that matches.
WalkTiers(r, path) ==
  LET m    == find(r.trie, path)
      hits == {i \in DOMAIN r.regex : path \in RegexMatches[r.regex[i].url_complete]}
  IN  IF m # None THEN [tier |-> "radix", entry |-> m.entry, captures |-> m.captures]
      ELSE IF hits # {}
      THEN [tier |-> "regex", entry |-> r.regex[Min(hits)].entry, captures |-> << >>]
      ELSE None

\* Mutant: the regex tier is not searched.
FindExactEntryOnly(r, pattern) ==
  LET m == find(r.trie, pattern)
  IN  IF HasPars(pattern)
      THEN IF m # None /\ ~m.is_prefix_match THEN m.entry ELSE None
      ELSE IF pattern \in DOMAIN r.exact THEN r.exact[pattern] ELSE None

\* Mutant: a regex route that matches the path is taken for one at the path.
FindRegexByMatch(r, pattern) ==
  LET m    == find(r.trie, pattern)
      hits == {i \in DOMAIN r.regex :
                 LET url == r.regex[i].url_complete
                 IN  url = pattern \/ pattern \in RegexMatches[url]}
  IN  IF HasPars(pattern)
      THEN IF m # None /\ ~m.is_prefix_match THEN m.entry ELSE None
      ELSE IF pattern \in DOMAIN r.exact THEN r.exact[pattern]
      ELSE IF hits # {} THEN r.regex[Min(hits)].entry ELSE None

\* The entry that on_methods_ takes to be the one at a pattern.  A placeholder
\* path is looked up with its own text, as a request would be: a constraint on
\* the way usually refuses it, and a wildcard sibling may answer in its place.
find_v2_entry_by_path(r, pattern) ==
  LET m    == find(r.trie, pattern)
      same == {i \in DOMAIN r.regex : r.regex[i].url_complete = pattern}
  IN  IF HasPars(pattern)
      THEN IF m # None /\ ~m.is_prefix_match THEN m.entry ELSE None
      ELSE IF pattern \in DOMAIN r.exact THEN r.exact[pattern]
      ELSE IF same # {} THEN r.regex[Min(same)].entry ELSE None

\* Mutant: a prefix registration only looks at the trie.
CollisionIgnoresExact(r, pattern, want_is_prefix) ==
  has_terminus_at(r.trie, pattern, ~want_is_prefix)

reject_terminus_collision(r, pattern, want_is_prefix) ==
  IF want_is_prefix
  THEN pattern \in DOMAIN r.exact \/ has_terminus_at(r.trie, pattern, FALSE)
  ELSE has_terminus_at(r.trie, pattern, TRUE)

reject_duplicate_v2_entry(r, pattern, family) ==
  LET tier == classify_route_tier(pattern)
  IN  IF family THEN has_terminus_at(r.trie, pattern, TRUE)
      ELSE \/ tier = "exact" /\ pattern \in DOMAIN r.exact
           \/ tier = "radix" /\ has_terminus_at(r.trie, pattern, FALSE)
           \/ tier = "regex" /\ \E i \in DOMAIN r.regex :
                                   r.regex[i].url_complete = pattern

-----------------------------------------------------------------------------
(* Writing the table: what each successful operation makes of it.          *)

PutExact(r, pattern, entry) ==
  [r EXCEPT !.exact = [p \in DOMAIN r.exact \cup {pattern} |->
                         IF p = pattern THEN entry ELSE r.exact[p]]]

PutRegex(r, pattern, entry) ==
  [r EXCEPT !.regex = Append(@, [url_complete |-> pattern, entry |-> entry])]

PutTrie(r, pattern, entry, is_prefix) ==
  [r EXCEPT !.trie = insert(@, pattern, entry, is_prefix)]

\* The tier switch of register_v2_route.
PlaceRoute(r, pattern, entry, family) ==
  LET tier == classify_route_tier(pattern)
  IN  IF family \/ tier = "radix" THEN PutTrie(r, pattern, entry, family)
      ELSE IF tier = "regex" THEN PutRegex(r, pattern, entry)
      ELSE PutExact(r, pattern, entry)

\* Mutant: the shim is not stored.
MergeMethodsOnly(entry, methods, shim) ==
  [entry EXCEPT !.methods = @ \cup methods]

\* merge_into: the methods accumulate, the shim is stored.
MergeInto(entry, methods, shim) ==
  [methods |-> entry.methods \cup methods, handler |-> shim, is_prefix |-> FALSE]

NoEntry == [methods |-> {}, handler |-> None, is_prefix |-> FALSE]

upsert_v2_radix_route(r, pattern, methods, shim) ==
  LET m   == find(r.trie, pattern)
      old == IF m # None /\ ~m.is_prefix_match THEN m.entry ELSE NoEntry
  IN  PutTrie(r, pattern, MergeInto(old, methods, shim), FALSE)

update_existing_v2_entry(r, pattern, methods, shim) ==
  LET owned == {i \in DOMAIN r.regex : r.regex[i].entry.handler = shim}
  IN  IF pattern \in DOMAIN r.exact
      THEN PutExact(r, pattern, MergeInto(r.exact[pattern], methods, shim))
      ELSE IF owned # {}
      THEN [r EXCEPT !.regex[Min(owned)].entry = MergeInto(@, methods, shim)]
      ELSE r

upsert_v2_table_entry(r, pattern, methods, shim, fresh) ==
  IF HasPars(pattern) THEN upsert_v2_radix_route(r, pattern, methods, shim)
  ELSE IF fresh
  THEN PlaceRoute(r, pattern, MergeInto(NoEntry, methods, shim), FALSE)
  ELSE update_existing_v2_entry(r, pattern, methods, shim)

erase_exact_and_regex(r, pattern) ==
  [r EXCEPT !.exact = [p \in DOMAIN r.exact \ {pattern} |-> r.exact[p]],
            !.regex = SelectSeq(@, LAMBDA rr : rr.url_complete # pattern)]

remove_param_prefix(r, pattern, is_prefix) ==
  [r EXCEPT !.trie = remove(@, pattern, is_prefix)]

-----------------------------------------------------------------------------
(* The registration API.                                                   *)

TableInit ==
  /\ routes = [exact |-> [p \in {} |-> None], trie |-> EmptyTrie, regex |-> << >>]
  /\ slots = [s \in Shims |-> {}]
  /\ made = {}
  /\ accepted = {}
  /\ outcome = "returned"

SamePath(p, q) == walk_registered_pattern(p) = walk_registered_pattern(q)

Registration(pattern, is_prefix, handler, methods) ==
  [pattern |-> pattern, is_prefix |-> is_prefix, handler |-> handler,
   methods |-> methods]

\* A call that throws before it touched anything.
Refuse ==
  /\ outcome' = "threw"
  /\ UNCHANGED <<routes, slots, made, accepted>>

\* A call whose trie insert throws half way.
Tear(pattern, newSlots) ==
  /\ routes' = [routes EXCEPT !.trie = TornInsert(@, pattern)]
  /\ slots' = newSlots
  /\ outcome' = "threw"
  /\ UNCHANGED <<made, accepted>>

validate_register_inputs(pattern, family) ==
  SingleResource => pattern = << >> /\ family

validate_on_methods_inputs(pattern, methods) ==
  /\ methods # {}
  /\ SingleResource => pattern = << >>

\* register_path and register_prefix: register_impl_ and register_v2_route.
register_v2_route(pattern, res, family) ==
  LET refused == \/ ~validate_register_inputs(pattern, family)
                 \/ reject_terminus_collision(routes, pattern, family)
                 \/ reject_duplicate_v2_entry(routes, pattern, family)
      torn    == /\ family \/ HasPars(pattern)
                 /\ InsertThrows(routes.trie, pattern)
      entry   == [methods |-> Methods, handler |-> res, is_prefix |-> family]
  IN  \/ refused /\ Refuse
      \/ ~refused /\ torn /\ Tear(pattern, slots)
      \/ /\ ~refused /\ ~torn
         /\ routes' = PlaceRoute(routes, pattern, entry, family)
         /\ accepted' = accepted \cup {Registration(pattern, family, res, Methods)}
         /\ outcome' = "returned"
         /\ UNCHANGED <<slots, made>>

\* The tail of on_methods_ once a shim has been found or created: the slots
\* are written first, then the table.  A fresh shim of a call that throws is
\* dropped with its slots; a shim already in the table keeps them.
CommitAndUpsert(pattern, methods, shim, fresh) ==
  LET committed == [slots EXCEPT ![shim] = @ \cup methods]
      kept      == IF fresh THEN slots ELSE committed
      refused   == /\ HasPars(pattern) \/ (fresh /\ classify_route_tier(pattern) = "exact")
                   /\ reject_terminus_collision(routes, pattern, FALSE)
      torn      == HasPars(pattern) /\ InsertThrows(routes.trie, pattern)
  IN  \/ /\ refused
         /\ slots' = kept
         /\ outcome' = "threw"
         /\ UNCHANGED <<routes, made, accepted>>
      \/ ~refused /\ torn /\ Tear(pattern, kept)
      \/ /\ ~refused /\ ~torn
         /\ routes' = upsert_v2_table_entry(routes, pattern, methods, shim, fresh)
         /\ slots' = committed
         /\ made' = made \cup {shim}
         /\ accepted' = accepted \cup {Registration(pattern, FALSE, shim, methods)}
         /\ outcome' = "returned"

\* on_get, on_post, ..., route: on_methods_ with prepare_or_create_lambda_shim
\* and commit_handlers_to_shim.
on_methods(methods, pattern) ==
  LET existing == find_v2_entry_by_path(routes, pattern)
      valid    == validate_on_methods_inputs(pattern, methods)
  IN  \/ ~valid /\ Refuse
      \/ /\ valid /\ existing = None
         /\ \E shim \in Shims \ made : CommitAndUpsert(pattern, methods, shim, TRUE)
      \/ /\ valid /\ existing # None
         /\ existing.handler \in Shims
         /\ slots[existing.handler] \cap methods = {}
         /\ CommitAndUpsert(pattern, methods, existing.handler, FALSE)
      \/ /\ valid /\ existing # None
         /\ existing.handler \in Shims => slots[existing.handler] \cap methods # {}
         /\ Refuse

\* unregister_path and unregister_prefix.
unregister_impl(pattern, family) ==
  /\ routes' = IF family THEN remove_param_prefix(routes, pattern, TRUE)
               ELSE IF HasPars(pattern) THEN remove_param_prefix(routes, pattern, FALSE)
               ELSE erase_exact_and_regex(routes, pattern)
  /\ accepted' = {a \in accepted : ~(SamePath(a.pattern, pattern) /\ a.is_prefix = family)}
  /\ outcome' = "returned"
  /\ UNCHANGED <<slots, made>>

unregister_resource(pattern) ==
  /\ routes' = remove_param_prefix(
                 remove_param_prefix(erase_exact_and_regex(routes, pattern),
                                     pattern, FALSE),
                 pattern, TRUE)
  /\ accepted' = {a \in accepted : ~SamePath(a.pattern, pattern)}
  /\ outcome' = "returned"
  /\ UNCHANGED <<slots, made>>

TableNext ==
  \E p \in Patterns :
    \/ \E res \in Resources, family \in BOOLEAN : register_v2_route(p, res, family)
    \/ \E ms \in SUBSET Methods : on_methods(ms, p)
    \/ \E family \in BOOLEAN : unregister_impl(p, family)
    \/ unregister_resource(p)

TableSpec == TableInit /\ [][TableNext]_tableVars

-----------------------------------------------------------------------------
(* Properties.                                                             *)

\* Every stored entry of the table.
StoredEntries(r) ==
  {r.exact[p] : p \in DOMAIN r.exact}
    \cup {r.regex[i].entry : i \in DOMAIN r.regex}
    \cup ({r.trie[n].exact : n \in DOMAIN r.trie} \ {None})
    \cup ({r.trie[n].prefix : n \in DOMAIN r.trie} \ {None})

\* The values of the table, the shims and the history.
TableTypeOK ==
  /\ DOMAIN routes.exact \subseteq Patterns
  /\ \A i \in DOMAIN routes.regex : routes.regex[i].url_complete \in RegexPatterns
  /\ << >> \in DOMAIN routes.trie
  /\ DOMAIN routes.trie \subseteq Seq(Literals \cup {Wildcard})
  /\ StoredEntries(routes) \subseteq Entries
  /\ slots \in [Shims -> SUBSET Methods]
  /\ made \subseteq Shims
  /\ outcome \in {"returned", "threw"}

\* No canonical path is an exact route and a prefix route at once.  The cache
\* key (method, path) cannot tell the two apart, which is why
\* reject_terminus_collision exists; every path that stores a route has to
\* keep it (registration, lambda upsert, merge into an existing entry).
TierPolarity ==
  /\ \A n \in DOMAIN routes.trie :
       routes.trie[n].exact = None \/ routes.trie[n].prefix = None
  /\ \A p \in DOMAIN routes.exact :
       p \in DOMAIN routes.trie => routes.trie[p].prefix = None

\* The entry stored for a registration, None if there is none.
EntryAt(r, pattern, is_prefix) ==
  LET node == walk_registered_pattern(pattern)
      same == {i \in DOMAIN r.regex : r.regex[i].url_complete = pattern}
  IN  IF is_prefix \/ HasPars(pattern)
      THEN IF node \notin DOMAIN r.trie THEN None
           ELSE IF is_prefix THEN r.trie[node].prefix ELSE r.trie[node].exact
      ELSE IF pattern \in DOMAIN r.exact THEN r.exact[pattern]
      ELSE IF same # {} THEN r.regex[Min(same)].entry ELSE None

Stands(a) ==
  LET e == EntryAt(routes, a.pattern, a.is_prefix)
  IN  /\ e # None
      /\ e.handler = a.handler
      /\ a.methods \subseteq e.methods

\* Registrations compose: a call that returned stays in force until a call
\* unregisters its path, whatever else is registered in between
\* (httpserver/webserver_routes.hpp:138-143).
RegistrationsCompose == \A a \in accepted : Stands(a)

\* The same for paths whose text passes the constraints on its way, which is
\* what find_v2_entry_by_path_ needs to see the entry already there.
FindableRegistrationsCompose ==
  \A a \in accepted :
    (\A b \in accepted : SamePath(a.pattern, b.pattern)
        => Descent(routes.trie, b.pattern)[Len(b.pattern)] # None \/ ~HasPars(b.pattern))
    => Stands(a)

\* A call that throws changes the answer to no request: "a failed
\* registration leaves the table exactly as before" (route_table.cpp:500-502).
FailedCallKeepsAnswers ==
  [][outcome' = "threw" =>
       \A path \in Requests : WalkTiers(routes', path) = WalkTiers(routes, path)]_tableVars

\* A call that throws leaves the handlers of the routes in the table alone: "An
\* upsert throw (e.g. reject_terminus_collision) leaves the local shim
\* unreferenced and discarded -- no rollback required since the table itself
\* was never touched" (webserver.cpp:768-771).
FailedCallKeepsHandlers ==
  [][outcome' = "threw" =>
       \A e \in StoredEntries(routes) :
         e.handler \in Shims => slots'[e.handler] = slots[e.handler]]_tableVars

\* The segments of a path fit those of a pattern, constraints aside.
SegmentsFit(pattern, path) ==
  /\ Len(pattern) <= Len(path)
  /\ \A i \in DOMAIN pattern :
       is_wildcard_segment(pattern[i]) \/ pattern[i] = path[i]

\* The request matches the registration, constraints aside.
ShapeMatches(a, path) ==
  IF a.pattern \in RegexPatterns /\ ~a.is_prefix
  THEN path \in RegexMatches[a.pattern]
  ELSE SegmentsFit(a.pattern, path) /\ (a.is_prefix \/ Len(a.pattern) = Len(path))

\* The entry that answers a request: the exact tier, then the others.
AnsweringEntry(path) ==
  LET m == WalkTiers(routes, path)
  IN  IF path \in DOMAIN routes.exact THEN routes.exact[path]
      ELSE IF m # None THEN m.entry ELSE None

\* A handler answers requests for its own path only: when a request reaches a
\* lambda_resource that has a handler for its method, some on_* call that
\* stands has put it there for a path the request has.  The probe that
\* on_methods_ shares a lambda_resource by "wants 'is there already an entry
\* registered AT this path', not 'does this request URL match a registered
\* route'" (route_table.cpp:240-242).
HandlersServeTheirPaths ==
  \A path \in Requests, m \in Methods :
    LET e == AnsweringEntry(path)
    IN  /\ e # None
        /\ e.handler \in Shims
        /\ m \in slots[e.handler]
        => \E a \in accepted :
             a.handler = e.handler /\ m \in a.methods /\ ShapeMatches(a, path)

\* No placeholder path in use has, read as a request, the shape of another.
PatternsApart ==
  \A p, q \in Patterns :
    HasPars(p) /\ HasPars(q) /\ Len(p) = Len(q) /\ SegmentsFit(q, p) => SamePath(p, q)

\* The same where no pattern in use covers another, so that the probe cannot
\* take the one for the other: neither a call that throws, nor a shim that
\* lost its route, nor a regex route leaves a handler answering elsewhere.
ApartHandlersServeTheirPaths == PatternsApart => HandlersServeTheirPaths

\* A walk of the tiers only ever answers with a registration that stands and
\* whose shape the request has: no removed terminus, no prefix too deep.
LookupSound ==
  \A path \in Requests :
    LET m == WalkTiers(routes, path)
    IN  m # None => \E a \in accepted : /\ a.handler = m.entry.handler
                                        /\ ShapeMatches(a, path)

\* Nothing diverts the descent towards the registration: no literal sibling
\* of a placeholder, alive or dead, and no constraint on the way.
Unshadowed(a, path) ==
  \A i \in DOMAIN a.pattern :
    is_wildcard_segment(a.pattern[i]) =>
      step_to_child(routes.trie, NodeAt(a.pattern, i - 1), path[i]) = NodeAt(a.pattern, i)

\* A request finds every registration it matches that nothing shadows, and
\* an exact one wins over every prefix: the incremental trie (creation,
\* overwriting, removal without collapsing) loses no route.
LookupComplete ==
  \A path \in Requests, a \in accepted :
    LET m == WalkTiers(routes, path)
    IN  /\ ShapeMatches(a, path)
        /\ a.is_prefix \/ classify_route_tier(a.pattern) # "exact"
        /\ Unshadowed(a, path)
        => /\ m # None
           /\ ~a.is_prefix /\ HasPars(a.pattern)
                => m.entry = routes.trie[walk_registered_pattern(a.pattern)].exact

\* A request is only routed to a registration whose own per-segment
\* constraints it satisfies (README.md:880-881: "Only requests where the `id`
\* segment matches `[0-9]+` will match this registration").
ConstraintHonoured ==
  \A path \in Requests :
    LET m == find(routes.trie, path)
    IN  m # None =>
          \E a \in accepted :
            /\ a.handler = m.entry.handler
            /\ ShapeMatches(a, path)
            /\ \A i \in DOMAIN a.pattern :
                 is_wildcard_segment(a.pattern[i]) /\ ConstraintOf[a.pattern[i]] # None
                   => path[i] \in Accepts[ConstraintOf[a.pattern[i]]]

=============================================================================
