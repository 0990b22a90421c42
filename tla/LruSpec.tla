------------------------------- MODULE LruSpec -------------------------------
(* The cache of module LruCache on its own: the calls a client can make and *)
(* what they return.  It is the abstract specification of route_cache.      *)
EXTENDS LruCache

CONSTANTS Keys, Values

VARIABLES cache, call   \* the cache; the last call, its arguments and its answer

Miss == "miss"

LruInit == cache = << >> /\ call = <<"clear">>

LruFind(k) ==
  \/ /\ Cached(cache, k)
     /\ cache' = Promote(cache, k)
     /\ call' = <<"find", k, cache[PositionOf(cache, k)].value>>
  \/ /\ ~Cached(cache, k)
     /\ call' = <<"find", k, Miss>>
     /\ UNCHANGED cache

LruInsert(k, v) ==
  /\ cache' = Install(cache, [key |-> k, value |-> v])
  /\ call' = <<"insert", k, v>>

LruClear == cache' = << >> /\ call' = <<"clear">>

LruNext ==
  \/ \E k \in Keys : LruFind(k) \/ \E v \in Values : LruInsert(k, v)
  \/ LruClear

LruSpec == LruInit /\ [][LruNext]_<<cache, call>>

=============================================================================
