---------------------------- MODULE LookupHistory ----------------------------
(***************************************************************************)
(* RouteLookup with the history that a lookup in progress is judged by:    *)
(* what the tables that were current meanwhile would have answered.        *)
(***************************************************************************)
EXTENDS RouteLookup

VARIABLES
  views,    \* per thread, the answers of the tables current during its lookup
  changes   \* per thread, how often the table changed meanwhile, up to Many

historyVars == <<vars, views, changes>>

Many == 2

Unfinished == Looking \ {"served"}

\* The answer of a lookup that is a single step.
AtomicAnswer(r, path) ==
  LET m == WalkTiers(r, path)
  IN  IF path \in DOMAIN r.exact THEN [entry |-> r.exact[path], captures |-> << >>]
      ELSE IF m # None THEN [entry |-> m.entry, captures |-> m.captures]
      ELSE None

HistoryInit ==
  /\ Init
  /\ views = [t \in Threads |-> {}]
  /\ changes = [t \in Threads |-> 0]

\* What a step adds to the history of a thread.  A lookup that begins while a
\* clear is pending may be answered by a table that was replaced before: that
\* counts as many changes.
ViewsAfter(t) ==
  LET answer == AtomicAnswer(routes', req'[t].path)
  IN  CASE pc'[t] \notin Looking    -> {}
        [] pc[t] \in Unfinished     -> views[t] \cup {answer}
        [] pc[t] = "served"         -> views[t]
        [] OTHER                    -> {answer}

ChangesAfter(t) ==
  CASE pc'[t] \notin Looking                        -> 0
    [] pc[t] \in Unfinished /\ routes' # routes     -> Min({changes[t] + 1, Many})
    [] pc[t] \in Unfinished /\ routes' = routes     -> changes[t]
    [] pc[t] = "served"                             -> changes[t]
    [] OTHER                                        -> IF Clearing THEN Many ELSE 0

HistoryNext ==
  /\ Next
  /\ views' = [t \in Threads |-> ViewsAfter(t)]
  /\ changes' = [t \in Threads |-> ChangesAfter(t)]

HistorySpec == HistoryInit /\ [][HistoryNext]_historyVars

-----------------------------------------------------------------------------

\* The answer a thread was served with.
Served(t) == IF result[t].found THEN result[t].value ELSE None

\* A lookup that at most one change of the table overlaps answers as the table
\* before or as the table after it, although lookup_v2 reads the exact tier
\* and the other tiers in two lock windows (route_table.cpp:155 and 183) and the
\* cache between them: no call moves a path from a tier read later to one read
\* earlier.  The exception is a cached record that missed its clear.
OneChangeLinearizes ==
  \A t \in Threads :
    pc[t] = "served" /\ changes[t] < Many
      => Served(t) \in views[t] \/ (result[t].found /\ result[t].exposed)

=============================================================================
