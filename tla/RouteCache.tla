----------------------------- MODULE RouteCache -----------------------------
(***************************************************************************)
(* detail::route_cache as it is built (httpserver/detail/route_cache.hpp): *)
(* a doubly linked list of (key, value) nodes, the most recent first, and  *)
(* a hash map from keys to list iterators.  Every method holds mutex_ for  *)
(* its whole body, so every method is one action.  An iterator is the      *)
(* identity of a list node, and the identity of a freed node is reused.    *)
(***************************************************************************)
EXTENDS LruCache, FiniteSets

CONSTANTS Keys, Values

VARIABLES
  list_,    \* the LRU list: nodes [id, key, value]
  map_,     \* key -> id of its node
  call,     \* the last call, its arguments and its answer
  uses      \* history: the keys used since the last clear, the latest first

vars == <<list_, map_, call, uses>>

Miss == "miss"

NodeIds == 1..(MaxEntries + 1)

NodeWith(id) == CHOOSE i \in DOMAIN list_ : list_[i].id = id

\* list_.splice(list_.begin(), list_, it)
Splice(l, i) == <<l[i]>> \o RemoveAt(l, i)

Use(k) == <<k>> \o SelectSeq(uses, LAMBDA u : u # k)

WithoutKey(m, k) == [j \in DOMAIN m \ {k} |-> m[j]]

Init ==
  /\ list_ = << >>
  /\ map_ = [k \in {} |-> 0]
  /\ call = <<"clear">>
  /\ uses = << >>

\* Mutant: a hit is not promoted.
FindWithoutSplice(k) ==
  /\ call' = <<"find", k, IF k \in DOMAIN map_ THEN list_[NodeWith(map_[k])].value ELSE Miss>>
  /\ uses' = IF k \in DOMAIN map_ THEN Use(k) ELSE uses
  /\ UNCHANGED <<list_, map_>>

\* find and find_by_view: the two differ in how the key is hashed.
find_by_view(k) ==
  \/ /\ k \in DOMAIN map_
     /\ list_' = Splice(list_, NodeWith(map_[k]))
     /\ call' = <<"find", k, list_[NodeWith(map_[k])].value>>
     /\ uses' = Use(k)
     /\ UNCHANGED map_
  \/ /\ k \notin DOMAIN map_
     /\ call' = <<"find", k, Miss>>
     /\ UNCHANGED <<list_, map_, uses>>

\* Mutant: the value of a present key is not replaced.
ReplaceKeepsValue(k, v) ==
  /\ list_' = Splice(list_, NodeWith(map_[k]))
  /\ UNCHANGED map_

\* insert of a key that is present: replace in place, promote.
Replace(k, v) ==
  LET i == NodeWith(map_[k])
  IN  /\ list_' = Splice([list_ EXCEPT ![i].value = v], i)
      /\ UNCHANGED map_

\* Mutant: the bound is off by one.
EmplaceOneTooMany(k, v) ==
  LET id    == CHOOSE n \in NodeIds : \A i \in DOMAIN list_ : list_[i].id # n
      grown == <<[id |-> id, key |-> k, value |-> v]>> \o list_
      index == [j \in DOMAIN map_ \cup {k} |-> IF j = k THEN id ELSE map_[j]]
  IN  IF Cardinality(DOMAIN index) > MaxEntries + 1
      THEN map_' = WithoutKey(index, Last(grown).key) /\ list_' = Front(grown)
      ELSE map_' = index /\ list_' = grown

\* Mutant: the eviction pops the list and leaves the index alone.
EmplaceKeepsIndex(k, v) ==
  LET id    == CHOOSE n \in NodeIds : \A i \in DOMAIN list_ : list_[i].id # n
      grown == <<[id |-> id, key |-> k, value |-> v]>> \o list_
      index == [j \in DOMAIN map_ \cup {k} |-> IF j = k THEN id ELSE map_[j]]
  IN  /\ map_' = index
      /\ list_' = IF Cardinality(DOMAIN index) > MaxEntries THEN Front(grown) ELSE grown

\* insert of a new key: emplace_front, index it, evict the back when the map
\* has grown past max_entries_.
Emplace(k, v) ==
  LET id    == CHOOSE n \in NodeIds : \A i \in DOMAIN list_ : list_[i].id # n
      grown == <<[id |-> id, key |-> k, value |-> v]>> \o list_
      index == [j \in DOMAIN map_ \cup {k} |-> IF j = k THEN id ELSE map_[j]]
  IN  IF Cardinality(DOMAIN index) > MaxEntries
      THEN /\ map_' = WithoutKey(index, Last(grown).key)
           /\ list_' = Front(grown)
      ELSE /\ map_' = index
           /\ list_' = grown

insert(k, v) ==
  /\ IF k \in DOMAIN map_ THEN Replace(k, v) ELSE Emplace(k, v)
  /\ call' = <<"insert", k, v>>
  /\ uses' = Use(k)

clear ==
  /\ map_' = [k \in {} |-> 0]
  /\ list_' = << >>
  /\ call' = <<"clear">>
  /\ uses' = << >>

Next ==
  \/ \E k \in Keys : find_by_view(k)
  \/ \E k \in Keys, v \in Values : insert(k, v)
  \/ clear

Spec == Init /\ [][Next]_vars

-----------------------------------------------------------------------------

\* The values of the list, the index and the last call, and the bound.
TypeOK ==
  /\ \A i \in DOMAIN list_ : /\ list_[i].id \in NodeIds
                              /\ list_[i].key \in Keys
                              /\ list_[i].value \in Values
  /\ DOMAIN map_ \subseteq Keys
  /\ call \in {<<"clear">>} \cup ({"find", "insert"} \X Keys \X (Values \cup {Miss}))
  /\ Len(list_) <= MaxEntries

\* The index and the list hold the same keys, and every iterator in the index
\* is to a live node of its own key.  A broken eviction
\* leaves an iterator to a freed node, whose identity the next emplace takes.
IndexMatchesList ==
  /\ DOMAIN map_ = {list_[i].key : i \in DOMAIN list_}
  /\ Len(list_) = Cardinality(DOMAIN map_)
  /\ \A k \in DOMAIN map_ : \E i \in DOMAIN list_ :
       list_[i].id = map_[k] /\ list_[i].key = k

\* The cache holds exactly the keys used last, as many as fit, in that order:
\* promotion on a hit, replacement and eviction of the back together make it
\* a least-recently-used cache.
HoldsMostRecent ==
  LET kept == IF Len(uses) < MaxEntries THEN Len(uses) ELSE MaxEntries
  IN  [i \in DOMAIN list_ |-> list_[i].key] = SubSeq(uses, 1, kept)

Abstract == INSTANCE LruSpec WITH
  cache <- [i \in DOMAIN list_ |-> [key |-> list_[i].key, value |-> list_[i].value]]

\* Every call of the two-structure cache is a call of the abstract one: it
\* returns the same value and leaves the same records in the same order.
ImplementsLru == Abstract!LruSpec

=============================================================================
