----------------------------- MODULE RouteLookup -----------------------------
(***************************************************************************)
(* Request threads in route_table::lookup_v2 (src/detail/route_table.cpp)  *)
(* racing the registration API of src/webserver.cpp.                       *)
(*                                                                         *)
(* A lookup is four critical sections: probe exact_routes_ under the table *)
(* lock, probe the cache under its own mutex, walk the trie and the regex  *)
(* tier under the table lock again, install the result in the cache.  A    *)
(* mutator is two: change the table, then clear the cache.  No lock is     *)
(* held between them, so the steps of different threads interleave freely. *)
(***************************************************************************)
EXTENDS RouteTable, LruCache

CONSTANT Threads   \* request threads and threads that call the API

ASSUME ThreadsAssumption == Threads # {}

VARIABLES
  cache,      \* route_lru_cache: records [key, value, exposed]
  pc,         \* where each thread is
  req,        \* the (method, path) key each thread is looking up
  walked,     \* the record each thread has found and will install
  result,     \* the lookup_result each thread's lookup returned
  disturbed   \* history: a registration call overlapped the thread's lookup

lookupVars == <<cache, pc, req, walked, result, disturbed>>

vars == <<tableVars, lookupVars>>

Keys == [method : Methods, path : Requests]

Looking == {"probe_cache", "walk", "install", "served"}

\* The cache_value of a hit.  exposed is history: the table was changed after
\* this value was read and the clear that followed, if any, came too early.
Record(key, entry, captures) ==
  [key |-> key, value |-> [entry |-> entry, captures |-> captures], exposed |-> FALSE]

\* A lookup_result.
Hit(r) == [found |-> TRUE, value |-> r.value, exposed |-> r.exposed]

Miss == [found |-> FALSE]

\* A mutator has changed the table and has not cleared the cache yet.
Clearing == \E t \in Threads : pc[t] = "clear"

Init ==
  /\ TableInit
  /\ cache = << >>
  /\ pc = [t \in Threads |-> "idle"]
  /\ req = [t \in Threads |-> None]
  /\ walked = [t \in Threads |-> None]
  /\ result = [t \in Threads |-> Miss]
  /\ disturbed = [t \in Threads |-> FALSE]

\* Mutant: the lookup begins with the cache.
SkipExact(t, key) ==
  /\ pc[t] = "idle"
  /\ req' = [req EXCEPT ![t] = key]
  /\ disturbed' = [disturbed EXCEPT ![t] = Clearing]
  /\ pc' = [pc EXCEPT ![t] = "probe_cache"]
  /\ UNCHANGED <<tableVars, cache, walked, result>>

\* Step 1: the exact tier.
ProbeExact(t, key) ==
  /\ pc[t] = "idle"
  /\ req' = [req EXCEPT ![t] = key]
  /\ disturbed' = [disturbed EXCEPT ![t] = Clearing]
  /\ \/ /\ key.path \in DOMAIN routes.exact
        /\ result' = [result EXCEPT ![t] = Hit(Record(key, routes.exact[key.path], << >>))]
        /\ pc' = [pc EXCEPT ![t] = "served"]
     \/ /\ key.path \notin DOMAIN routes.exact
        /\ pc' = [pc EXCEPT ![t] = "probe_cache"]
        /\ UNCHANGED result
  /\ UNCHANGED <<tableVars, cache, walked>>

\* Step 2: the cache; a hit is promoted.
ProbeCache(t) ==
  /\ pc[t] = "probe_cache"
  /\ \/ /\ Cached(cache, req[t])
        /\ cache' = Promote(cache, req[t])
        /\ result' = [result EXCEPT ![t] = Hit(cache[PositionOf(cache, req[t])])]
        /\ pc' = [pc EXCEPT ![t] = "served"]
     \/ /\ ~Cached(cache, req[t])
        /\ pc' = [pc EXCEPT ![t] = "walk"]
        /\ UNCHANGED <<cache, result>>
  /\ UNCHANGED <<tableVars, req, walked, disturbed>>

\* Step 3: the trie, then the regex tier.
Walk(t) ==
  LET m == WalkTiers(routes, req[t].path)
  IN  /\ pc[t] = "walk"
      /\ \/ /\ m # None
            /\ walked' = [walked EXCEPT ![t] = Record(req[t], m.entry, m.captures)]
            /\ pc' = [pc EXCEPT ![t] = "install"]
            /\ UNCHANGED result
         \/ /\ m = None
            /\ result' = [result EXCEPT ![t] = Miss]
            /\ pc' = [pc EXCEPT ![t] = "served"]
            /\ UNCHANGED walked
      /\ UNCHANGED <<tableVars, cache, req, disturbed>>

\* Step 4: install what was found, whatever has happened to the table since.
InstallWalked(t) ==
  /\ pc[t] = "install"
  /\ cache' = Install(cache, walked[t])
  /\ result' = [result EXCEPT ![t] = Hit(walked[t])]
  /\ walked' = [walked EXCEPT ![t] = None]
  /\ pc' = [pc EXCEPT ![t] = "served"]
  /\ UNCHANGED <<tableVars, req, disturbed>>

\* The request is over.
Return(t) ==
  /\ pc[t] = "served"
  /\ pc' = [pc EXCEPT ![t] = "idle"]
  /\ req' = [req EXCEPT ![t] = None]
  /\ result' = [result EXCEPT ![t] = Miss]
  /\ disturbed' = [disturbed EXCEPT ![t] = FALSE]
  /\ UNCHANGED <<tableVars, cache, walked>>

Expose(r) == [key |-> r.key, value |-> r.value, exposed |-> TRUE]

\* Mutant: the call does not clear the cache.
MutateWithoutClear(t) ==
  /\ pc[t] = "idle"
  /\ TableNext
  /\ disturbed' = [u \in Threads |-> disturbed[u] \/ pc[u] \in Looking]
  /\ walked' = [u \in Threads |-> IF pc[u] = "install" /\ routes' # routes
                                  THEN Expose(walked[u]) ELSE walked[u]]
  /\ UNCHANGED <<cache, pc, req, result>>

\* A registration call up to the point where it releases the table lock.  A
\* call that returns goes on to clear the cache; one that throws never does.
MutateTable(t) ==
  /\ pc[t] = "idle"
  /\ TableNext
  /\ pc' = [pc EXCEPT ![t] = IF outcome' = "returned" THEN "clear" ELSE "idle"]
  /\ disturbed' = [u \in Threads |-> disturbed[u] \/ pc[u] \in Looking]
  /\ walked' = [u \in Threads |-> IF pc[u] = "install" /\ routes' # routes
                                  THEN Expose(walked[u]) ELSE walked[u]]
  /\ cache' = [i \in DOMAIN cache |-> IF outcome' # "returned" /\ routes' # routes
                                      THEN Expose(cache[i]) ELSE cache[i]]
  /\ UNCHANGED <<req, result>>

invalidate_route_cache(t) ==
  /\ pc[t] = "clear"
  /\ cache' = << >>
  /\ pc' = [pc EXCEPT ![t] = "idle"]
  /\ UNCHANGED <<tableVars, req, walked, result, disturbed>>

Next ==
  \E t \in Threads :
    \/ \E key \in Keys : ProbeExact(t, key)
    \/ ProbeCache(t)
    \/ Walk(t)
    \/ InstallWalked(t)
    \/ Return(t)
    \/ MutateTable(t)
    \/ invalidate_route_cache(t)

Spec == Init /\ [][Next]_vars

-----------------------------------------------------------------------------

\* The values of the cache and of the threads.
TypeOK ==
  /\ pc \in [Threads -> {"idle", "clear"} \cup Looking]
  /\ disturbed \in [Threads -> BOOLEAN]
  /\ \A t \in Threads : pc[t] \in Looking => req[t] \in Keys
  /\ \A t \in Threads : pc[t] = "install" => walked[t].key = req[t]
  /\ Len(cache) <= MaxEntries

\* The value is what a walk of the tiers finds for the path now.
Fresh(path, value) ==
  LET m == WalkTiers(routes, path)
  IN  m # None /\ value = [entry |-> m.entry, captures |-> m.captures]

\* A cached route is what the table holds, or a mutator is about to clear it,
\* or it was read before a table change whose clear it missed.  So every
\* mutator clears after it has changed the table, and the one way for an
\* outdated route to survive a clear is the gap between the walk and the
\* install of a lookup (or a registration that failed half way).
CacheCoherent ==
  \A i \in DOMAIN cache :
    Fresh(cache[i].key.path, cache[i].value) \/ cache[i].exposed \/ Clearing

\* The answer a lookup would give if it were a single step.
AnswerIsCurrent(t) ==
  LET path == req[t].path
  IN  IF path \in DOMAIN routes.exact
      THEN result[t].found /\ result[t].value.entry = routes.exact[path]
      ELSE IF WalkTiers(routes, path) = None THEN ~result[t].found
      ELSE result[t].found /\ Fresh(path, result[t].value)

\* A lookup that no registration call overlapped answers as one atomic lookup, and
\* so with the exact route if there is one, unless the cache gave it a record
\* that missed a clear.
AnswerLinearizes ==
  \A t \in Threads :
    pc[t] = "served" /\ ~disturbed[t] =>
      AnswerIsCurrent(t) \/ (result[t].found /\ result[t].exposed)

\* A request that no registration call overlaps is served by what is
\* registered.  httpserver/webserver.hpp:95-102 allows a stale answer to "an
\* in-flight request" only, and says that "the response for that one request
\* may be logically stale".
OnlyInFlightRequestsAreStale ==
  \A t \in Threads : pc[t] = "served" /\ ~disturbed[t] => AnswerIsCurrent(t)

=============================================================================
