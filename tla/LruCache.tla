------------------------------ MODULE LruCache ------------------------------
(***************************************************************************)
(* What detail::route_cache promises: a bounded cache that keeps the       *)
(* entries used last.  A cache is the sequence of its records [key, value, *)
(* ...], the most recently used first.  The operators are what one call of *)
(* find_by_view, insert or clear makes of it; module RouteCache shows that *)
(* the list and the index of the code implement them.                      *)
(***************************************************************************)
EXTENDS Integers, SequencesExt

CONSTANT MaxEntries   \* max_entries_, ROUTE_CACHE_MAX_SIZE in the route table

ASSUME MaxEntriesAssumption == MaxEntries \in Nat \ {0}

Cached(c, key) == \E i \in DOMAIN c : c[i].key = key

PositionOf(c, key) == CHOOSE i \in DOMAIN c : c[i].key = key

\* A hit moves the record to the front.
Promote(c, key) ==
  LET i == PositionOf(c, key) IN <<c[i]>> \o RemoveAt(c, i)

\* Mutant: nothing is ever evicted.
InstallUnbounded(c, record) ==
  IF Cached(c, record.key)
  THEN <<record>> \o RemoveAt(c, PositionOf(c, record.key))
  ELSE <<record>> \o c

\* A record whose key is present replaces it and moves to the front; a new
\* one evicts the record at the back when there are too many.
Install(c, record) ==
  IF Cached(c, record.key)
  THEN <<record>> \o RemoveAt(c, PositionOf(c, record.key))
  ELSE IF Len(c) + 1 > MaxEntries THEN <<record>> \o Front(c)
  ELSE <<record>> \o c

=============================================================================
