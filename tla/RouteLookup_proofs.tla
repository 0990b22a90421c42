-------------------------- MODULE RouteLookup_proofs --------------------------
(***************************************************************************)
(* CacheCoherent and AnswerLinearizes for any number of threads, any       *)
(* routes and any cache size.  The proof treats a registration call as an  *)
(* arbitrary change of the table: it needs the order of the critical       *)
(* sections and nothing of what the calls do.                              *)
(***************************************************************************)
EXTENDS RouteLookup, SequenceLemmas

\* A record in front of some of the elements of a sequence.
LEMMA ConsElements ==
  ASSUME NEW S, NEW s \in Seq(S), NEW e \in S
  PROVE  /\ <<e>> \o s \in Seq(S)
         /\ Len(<<e>> \o s) = Len(s) + 1
         /\ \A i \in 1..(Len(s) + 1) : (<<e>> \o s)[i] = IF i = 1 THEN e ELSE s[i - 1]
<1>1. <<e>> \in Seq(S) /\ Len(<<e>>) = 1 /\ <<e>>[1] = e /\ Len(s) \in Nat
  OBVIOUS
<1> QED BY <1>1

\* A hit moves a record and adds none.
LEMMA PromoteElements ==
  ASSUME NEW S, NEW c \in Seq(S), NEW key, Cached(c, key)
  PROVE  /\ Promote(c, key) \in Seq(S)
         /\ Len(Promote(c, key)) = Len(c)
         /\ \A i \in DOMAIN Promote(c, key) : \E j \in DOMAIN c : Promote(c, key)[i] = c[j]
<1> DEFINE p == PositionOf(c, key)
           rest == RemoveAt(c, p)
           new  == <<c[p]>> \o rest
<1>1. p \in 1..Len(c) /\ Len(c) \in Nat
  BY DEF Cached, PositionOf
<1> HIDE DEF p
<1>2. c[p] \in S
  BY <1>1
<1>3. /\ rest \in Seq(S)
      /\ Len(rest) = Len(c) - 1
      /\ \A i \in 1..(Len(c) - 1) : rest[i] = IF i < p THEN c[i] ELSE c[i + 1]
  BY <1>1, RemoveAtElements
<1> HIDE DEF rest
<1>4. /\ new \in Seq(S)
      /\ Len(new) = Len(c)
      /\ \A i \in 1..Len(c) : new[i] = IF i = 1 THEN c[p] ELSE rest[i - 1]
  BY <1>1, <1>2, <1>3, ConsElements
<1> HIDE DEF new
<1>5. ASSUME NEW i \in 1..Len(c)
      PROVE  \E j \in 1..Len(c) : new[i] = c[j]
  <2>1. CASE i = 1
    BY <2>1, <1>1, <1>4
  <2>2. CASE i # 1
    BY <2>2, <1>1, <1>3, <1>4
  <2> QED BY <2>1, <2>2
<1>6. Promote(c, key) = new
  BY DEF Promote, p, rest, new
<1>7. DOMAIN new = 1..Len(c) /\ DOMAIN c = 1..Len(c)
  BY <1>1, <1>4
<1>8. \A i \in DOMAIN new : \E j \in DOMAIN c : new[i] = c[j]
  BY <1>5, <1>7, Zenon
<1>9. new \in Seq(S) /\ Len(new) = Len(c)
  BY <1>4
<1> QED BY <1>6, <1>8, <1>9, Zenon

\* An insert adds its record, takes the others from the cache, and never
\* goes over the bound.
LEMMA InstallElements ==
  ASSUME NEW S, NEW c \in Seq(S), NEW r \in S, Len(c) <= MaxEntries
  PROVE  /\ Install(c, r) \in Seq(S)
         /\ Len(Install(c, r)) <= MaxEntries
         /\ \A i \in DOMAIN Install(c, r) :
              Install(c, r)[i] = r \/ \E j \in DOMAIN c : Install(c, r)[i] = c[j]
<1> DEFINE Fits(s) == /\ s \in Seq(S)
                       /\ Len(s) + 1 <= MaxEntries
                       /\ \A i \in 1..Len(s) : \E j \in 1..Len(c) : s[i] = c[j]
           p == PositionOf(c, r.key)
<1>0. Len(c) \in Nat /\ DOMAIN c = 1..Len(c) /\ MaxEntries \in Nat /\ MaxEntries >= 1
  BY MaxEntriesAssumption
<1>1. ASSUME NEW s, Fits(s), Install(c, r) = <<r>> \o s
      PROVE  /\ Install(c, r) \in Seq(S)
             /\ Len(Install(c, r)) <= MaxEntries
             /\ \A i \in DOMAIN Install(c, r) :
                  Install(c, r)[i] = r \/ \E j \in DOMAIN c : Install(c, r)[i] = c[j]
  <2>1. /\ <<r>> \o s \in Seq(S)
        /\ Len(<<r>> \o s) = Len(s) + 1
        /\ \A i \in 1..(Len(s) + 1) : (<<r>> \o s)[i] = IF i = 1 THEN r ELSE s[i - 1]
    BY <1>1, ConsElements
  <2>2. Len(s) \in Nat /\ \A i \in 2..(Len(s) + 1) : i - 1 \in 1..Len(s)
    BY <1>1
  <2>3. DOMAIN (<<r>> \o s) = 1..(Len(s) + 1)
    BY <2>1, <2>2
  <2>4. ASSUME NEW i \in 1..(Len(s) + 1)
        PROVE  (<<r>> \o s)[i] = r \/ \E j \in DOMAIN c : (<<r>> \o s)[i] = c[j]
    <3>1. CASE i = 1
      BY <3>1, <2>1
    <3>2. CASE i # 1
      <4>1. i - 1 \in 1..Len(s) /\ (<<r>> \o s)[i] = s[i - 1]
        BY <3>2, <2>1, <2>2
      <4> QED BY <1>0, <1>1, <4>1
    <3> QED BY <3>1, <3>2
  <2> QED BY <1>1, <2>1, <2>3, <2>4
<1>2. CASE Cached(c, r.key)
  <2>1. p \in 1..Len(c)
    BY <1>2 DEF Cached, PositionOf
  <2> HIDE DEF p
  <2>2. /\ RemoveAt(c, p) \in Seq(S)
        /\ Len(RemoveAt(c, p)) = Len(c) - 1
        /\ \A i \in 1..(Len(c) - 1) : RemoveAt(c, p)[i] = IF i < p THEN c[i] ELSE c[i + 1]
    BY <2>1, RemoveAtElements
  <2>3. Fits(RemoveAt(c, p))
    BY <1>0, <2>1, <2>2
  <2>4. Install(c, r) = <<r>> \o RemoveAt(c, p)
    BY <1>2 DEF Install, p
  <2> QED BY <1>1, <2>3, <2>4, ZenonT(30)
<1>3. CASE ~Cached(c, r.key) /\ Len(c) + 1 > MaxEntries
  <2>1. /\ Front(c) \in Seq(S)
        /\ Len(Front(c)) = Len(c) - 1
        /\ \A i \in 1..(Len(c) - 1) : Front(c)[i] = c[i]
    BY <1>0, <1>3 DEF Front
  <2>2. Fits(Front(c))
    BY <1>0, <2>1
  <2>3. Install(c, r) = <<r>> \o Front(c)
    BY <1>3 DEF Install
  <2> QED BY <1>1, <2>2, <2>3, ZenonT(30)
<1>4. CASE ~Cached(c, r.key) /\ ~(Len(c) + 1 > MaxEntries)
  <2>1. Fits(c)
    BY <1>0, <1>4
  <2>2. Install(c, r) = <<r>> \o c
    BY <1>4 DEF Install
  <2> QED BY <1>1, <2>1, <2>2
<1> QED BY <1>2, <1>3, <1>4

-----------------------------------------------------------------------------

\* The variables are functions on the threads and the cache is a sequence.
Shape ==
  /\ DOMAIN req = Threads
  /\ DOMAIN walked = Threads
  /\ DOMAIN result = Threads
  /\ cache \in Seq(Range(cache))

\* What a thread has walked and not installed yet is what the table holds,
\* or is marked.
WalkedCoherent ==
  \A t \in Threads :
    pc[t] = "install" => Fresh(walked[t].key.path, walked[t].value) \/ walked[t].exposed

\* The exact tier that missed still has no entry, unless a registration call
\* overlapped the lookup.
ExactMissStands ==
  \A t \in Threads :
    pc[t] \in {"probe_cache", "walk", "install"} /\ ~disturbed[t]
      => req[t].path \notin DOMAIN routes.exact

\* A clear is never pending during an undisturbed lookup.
NoClearPending ==
  \A t \in Threads : pc[t] \in Looking /\ ~disturbed[t] => ~Clearing

\* The inductive invariant.
IInv ==
  /\ TypeOK
  /\ Shape
  /\ CacheCoherent
  /\ WalkedCoherent
  /\ ExactMissStands
  /\ NoClearPending
  /\ AnswerLinearizes

USE DEF Looking

\* The initial states satisfy the invariant: nothing is cached or looked up.
LEMMA InitInvariant == Init => IInv
<1> SUFFICES ASSUME Init PROVE IInv
  OBVIOUS
<1>1. TypeOK /\ Shape
  BY MaxEntriesAssumption DEF Init, TypeOK, Shape
<1>2. CacheCoherent /\ WalkedCoherent /\ ExactMissStands /\ NoClearPending /\ AnswerLinearizes
  BY DEF Init, CacheCoherent, WalkedCoherent, ExactMissStands, NoClearPending, AnswerLinearizes
<1> QED BY <1>1, <1>2 DEF IInv

\* Step 1 reads the exact tier and the pending clears at one moment.
LEMMA ProbeExactStep ==
  ASSUME IInv, NEW t \in Threads, NEW key \in Keys, ProbeExact(t, key)
  PROVE  IInv'
<1> USE DEF IInv
<1>1. TypeOK' /\ Shape'
  BY DEF TypeOK, Shape, ProbeExact, Clearing
<1>2. Clearing' = Clearing /\ routes' = routes
  BY DEF ProbeExact, Clearing, tableVars, TypeOK
<1>3. CacheCoherent'
  BY <1>2 DEF CacheCoherent, Fresh, ProbeExact
<1>4. WalkedCoherent'
  BY <1>2 DEF WalkedCoherent, Fresh, ProbeExact, TypeOK
<1>5. ExactMissStands'
  BY <1>2 DEF ExactMissStands, ProbeExact, TypeOK, Shape
<1>6. NoClearPending'
  BY <1>2 DEF NoClearPending, ProbeExact, TypeOK
<1>7. AnswerLinearizes'
  BY <1>2 DEF AnswerLinearizes, AnswerIsCurrent, Fresh, ProbeExact, Record, Hit, TypeOK, Shape
<1> QED BY <1>1, <1>3, <1>4, <1>5, <1>6, <1>7

\* Step 2 answers with a coherent record: no clear is pending if the lookup
\* is undisturbed.
LEMMA ProbeCacheStep ==
  ASSUME IInv, NEW t \in Threads, ProbeCache(t)
  PROVE  IInv'
<1> USE DEF IInv
<1>1. Clearing' = Clearing /\ routes' = routes /\ pc[t] = "probe_cache"
  BY DEF ProbeCache, Clearing, tableVars, TypeOK
<1>2. /\ cache' \in Seq(Range(cache))
      /\ Len(cache') = Len(cache)
      /\ \A i \in DOMAIN cache' : \E j \in DOMAIN cache : cache'[i] = cache[j]
  <2>1. CASE Cached(cache, req[t])
    <3>1. cache' = Promote(cache, req[t]) /\ cache \in Seq(Range(cache))
      BY <2>1 DEF ProbeCache, Shape
    <3> QED BY <2>1, <3>1, PromoteElements
  <2>2. CASE ~Cached(cache, req[t])
    <3>1. cache' = cache /\ cache \in Seq(Range(cache))
      BY <2>2 DEF ProbeCache, Shape
    <3> QED BY <3>1
  <2> QED BY <2>1, <2>2
<1>3. TypeOK' /\ Shape'
  <2>1. cache' \in Seq(Range(cache'))
    BY <1>2, SeqOfRange
  <2> QED BY <1>1, <1>2, <2>1 DEF TypeOK, Shape, ProbeCache
<1>4. CacheCoherent'
  BY <1>1, <1>2 DEF CacheCoherent, Fresh
<1>5. WalkedCoherent'
  BY <1>1 DEF WalkedCoherent, Fresh, ProbeCache, TypeOK
<1>6. ExactMissStands'
  BY <1>1 DEF ExactMissStands, ProbeCache, TypeOK
<1>7. NoClearPending'
  BY <1>1 DEF NoClearPending, ProbeCache, TypeOK
<1>8. AnswerLinearizes'
  <2>1. CASE Cached(cache, req[t])
    <3> DEFINE p == PositionOf(cache, req[t])
    <3>1. p \in DOMAIN cache /\ cache[p].key = req[t]
      BY <2>1 DEF Cached, PositionOf
    <3> HIDE DEF p
    <3>2. result' = [result EXCEPT ![t] = Hit(cache[p])]
      BY <2>1 DEF ProbeCache, p
    <3>3. ~disturbed[t] => Fresh(req[t].path, cache[p].value) \/ cache[p].exposed
      BY <1>1, <3>1 DEF CacheCoherent, NoClearPending
    <3> QED BY <1>1, <3>2, <3>3 DEF AnswerLinearizes, AnswerIsCurrent, ExactMissStands,
             Fresh, ProbeCache, Hit, TypeOK, Shape
  <2>2. CASE ~Cached(cache, req[t])
    BY <1>1, <2>2 DEF AnswerLinearizes, AnswerIsCurrent, Fresh, ProbeCache, TypeOK
  <2> QED BY <2>1, <2>2
<1> QED BY <1>3, <1>4, <1>5, <1>6, <1>7, <1>8

\* Step 3 reads the table: what it finds is fresh, and a miss is current.
LEMMA WalkStep ==
  ASSUME IInv, NEW t \in Threads, Walk(t)
  PROVE  IInv'
<1> USE DEF IInv
<1>1. Clearing' = Clearing /\ routes' = routes /\ pc[t] = "walk" /\ cache' = cache
  BY DEF Walk, Clearing, tableVars, TypeOK
<1>2. TypeOK' /\ Shape'
  BY <1>1 DEF TypeOK, Shape, Walk, Record
<1>3. CacheCoherent'
  BY <1>1 DEF CacheCoherent, Fresh
<1>4. WalkedCoherent'
  BY <1>1 DEF WalkedCoherent, Fresh, Walk, Record, TypeOK, Shape
<1>5. ExactMissStands'
  BY <1>1 DEF ExactMissStands, Walk, TypeOK
<1>6. NoClearPending'
  BY <1>1 DEF NoClearPending, Walk, TypeOK
<1>7. AnswerLinearizes'
  BY <1>1, SMTT(30) DEF AnswerLinearizes, AnswerIsCurrent, ExactMissStands, Fresh, Walk, Miss, TypeOK, Shape
<1> QED BY <1>2, <1>3, <1>4, <1>5, <1>6, <1>7

\* Step 4 puts a fresh or a marked record in the cache.
LEMMA InstallStep ==
  ASSUME IInv, NEW t \in Threads, InstallWalked(t)
  PROVE  IInv'
<1> USE DEF IInv
<1> DEFINE S == Range(cache) \cup {walked[t]}
<1>1. /\ Clearing' = Clearing /\ routes' = routes /\ pc[t] = "install"
      /\ cache' = Install(cache, walked[t]) /\ walked[t].key = req[t]
  BY DEF InstallWalked, Clearing, tableVars, TypeOK
<1>2. cache \in Seq(S)
  BY DEF Shape
<1>3. /\ cache' \in Seq(S)
      /\ Len(cache') <= MaxEntries
      /\ \A i \in DOMAIN cache' : cache'[i] = walked[t] \/ \E j \in DOMAIN cache : cache'[i] = cache[j]
  BY <1>1, <1>2, InstallElements DEF TypeOK
<1>4. TypeOK' /\ Shape'
  <2>1. cache' \in Seq(Range(cache'))
    BY <1>3, SeqOfRange
  <2> QED BY <1>1, <1>3, <2>1 DEF TypeOK, Shape, InstallWalked
<1>5. Fresh(walked[t].key.path, walked[t].value) \/ walked[t].exposed
  BY <1>1 DEF WalkedCoherent
<1>6. CacheCoherent'
  BY <1>1, <1>3, <1>5 DEF CacheCoherent, Fresh
<1>7. WalkedCoherent'
  BY <1>1 DEF WalkedCoherent, Fresh, InstallWalked, TypeOK, Shape
<1>8. ExactMissStands'
  BY <1>1 DEF ExactMissStands, InstallWalked, TypeOK
<1>9. NoClearPending'
  BY <1>1 DEF NoClearPending, InstallWalked, TypeOK
<1>10. AnswerLinearizes'
  BY <1>1, <1>5 DEF AnswerLinearizes, AnswerIsCurrent, ExactMissStands, Fresh, InstallWalked,
                    Hit, TypeOK, Shape
<1> QED BY <1>4, <1>6, <1>7, <1>8, <1>9, <1>10

\* The end of a request changes neither the table nor the cache.
LEMMA ReturnStep ==
  ASSUME IInv, NEW t \in Threads, Return(t)
  PROVE  IInv'
<1> USE DEF IInv
<1>1. Clearing' = Clearing /\ routes' = routes /\ cache' = cache
  BY DEF Return, Clearing, tableVars, TypeOK
<1>2. TypeOK' /\ Shape'
  BY <1>1 DEF TypeOK, Shape, Return
<1>3. CacheCoherent' /\ WalkedCoherent'
  BY <1>1 DEF CacheCoherent, WalkedCoherent, Fresh, Return, TypeOK
<1>4. ExactMissStands' /\ NoClearPending'
  BY <1>1 DEF ExactMissStands, NoClearPending, Return, TypeOK, Shape
<1>5. AnswerLinearizes'
  BY <1>1 DEF AnswerLinearizes, AnswerIsCurrent, Fresh, Return, TypeOK, Shape
<1> QED BY <1>2, <1>3, <1>4, <1>5

\* A registration call changes the table in any way: it marks every lookup in
\* progress and leaves a clear pending, or marks what a clear would miss.
LEMMA MutateStep ==
  ASSUME IInv, NEW t \in Threads, MutateTable(t)
  PROVE  IInv'
<1> USE DEF IInv
<1>1. pc[t] = "idle" /\ req' = req /\ result' = result
  BY DEF MutateTable
<1>2. DOMAIN cache' = DOMAIN cache /\ cache' \in Seq(Range(cache')) /\ Len(cache') = Len(cache)
  <2>1. cache' = [i \in 1..Len(cache) |-> cache'[i]] /\ Len(cache) \in Nat
    BY DEF MutateTable, Shape
  <2>2. \A i \in 1..Len(cache) : cache'[i] \in Range(cache')
    BY <2>1 DEF Range
  <2>3. cache' \in [1..Len(cache) -> Range(cache')]
    BY <2>1, <2>2
  <2> QED BY <2>1, <2>3 DEF Shape
<1>3. TypeOK' /\ Shape'
  BY <1>1, <1>2 DEF TypeOK, Shape, MutateTable, Expose
<1>4. CacheCoherent'
  <2>1. CASE outcome' = "returned"
    BY <2>1 DEF CacheCoherent, Clearing, MutateTable, TypeOK
  <2>2. CASE outcome' # "returned" /\ routes' # routes
    BY <2>2 DEF CacheCoherent, MutateTable, Expose
  <2>3. CASE outcome' # "returned" /\ routes' = routes
    <3>1. pc' = pc /\ \A i \in DOMAIN cache : cache'[i] = cache[i]
      BY <2>3, <1>1 DEF MutateTable, TypeOK
    <3> QED BY <2>3, <3>1, <1>2 DEF CacheCoherent, Clearing, Fresh
  <2> QED BY <2>1, <2>2, <2>3
<1>5. WalkedCoherent'
  <2>1. CASE routes' # routes
    BY <2>1, <1>1 DEF WalkedCoherent, MutateTable, Expose, TypeOK
  <2>2. CASE routes' = routes
    BY <2>2, <1>1 DEF WalkedCoherent, MutateTable, Fresh, TypeOK
  <2> QED BY <2>1, <2>2
<1>6. \A u \in Threads : pc'[u] \in Looking => disturbed'[u]
  BY <1>1 DEF MutateTable, TypeOK
<1>7. ExactMissStands' /\ NoClearPending' /\ AnswerLinearizes'
  BY <1>6 DEF ExactMissStands, NoClearPending, AnswerLinearizes
<1> QED BY <1>3, <1>4, <1>5, <1>7

\* A clear empties the cache and ends one pending clear.
LEMMA InvalidateStep ==
  ASSUME IInv, NEW t \in Threads, invalidate_route_cache(t)
  PROVE  IInv'
<1> USE DEF IInv
<1>1. routes' = routes /\ cache' = << >> /\ pc[t] = "clear" /\ (Clearing' => Clearing)
  BY DEF invalidate_route_cache, Clearing, tableVars, TypeOK
<1>2. TypeOK' /\ Shape'
  BY <1>1, MaxEntriesAssumption DEF TypeOK, Shape, invalidate_route_cache
<1>3. CacheCoherent' /\ WalkedCoherent'
  BY <1>1 DEF CacheCoherent, WalkedCoherent, Fresh, invalidate_route_cache, TypeOK
<1>4. ExactMissStands' /\ NoClearPending'
  BY <1>1 DEF ExactMissStands, NoClearPending, invalidate_route_cache, TypeOK
<1>5. AnswerLinearizes'
  BY <1>1 DEF AnswerLinearizes, AnswerIsCurrent, Fresh, invalidate_route_cache, TypeOK
<1> QED BY <1>2, <1>3, <1>4, <1>5

\* Every step of the lookups and of the registration API keeps the invariant.
LEMMA NextInvariant == IInv /\ [Next]_vars => IInv'
<1> SUFFICES ASSUME IInv, [Next]_vars PROVE IInv'
  OBVIOUS
<1>1. CASE Next
  <2>1. PICK t \in Threads :
          \/ \E key \in Keys : ProbeExact(t, key)
          \/ ProbeCache(t)
          \/ Walk(t)
          \/ InstallWalked(t)
          \/ Return(t)
          \/ MutateTable(t)
          \/ invalidate_route_cache(t)
    BY <1>1 DEF Next
  <2> QED BY <2>1, ProbeExactStep, ProbeCacheStep, WalkStep, InstallStep, ReturnStep,
             MutateStep, InvalidateStep
<1>2. CASE UNCHANGED vars
  BY <1>2 DEF IInv, TypeOK, Shape, CacheCoherent, WalkedCoherent, ExactMissStands,
              NoClearPending, AnswerLinearizes, AnswerIsCurrent, Fresh, Clearing,
              vars, tableVars, lookupVars
<1> QED BY <1>1, <1>2

\* The invariant holds in every reachable state.
THEOREM Invariance == Spec => []IInv
<1> QED BY InitInvariant, NextInvariant, PTL DEF Spec

\* lookup_v2 and the registration API keep their types, and the cache never
\* holds more than max_entries_ records.
THEOREM TypeCorrect == Spec => []TypeOK
<1>1. IInv => TypeOK
  BY DEF IInv
<1> QED BY <1>1, Invariance, PTL

\* Whatever the calls do to the table, a cached route is current, or about to
\* be cleared, or was read before a change whose clear it missed.
THEOREM CacheIsCoherent == Spec => []CacheCoherent
<1>1. IInv => CacheCoherent
  BY DEF IInv
<1> QED BY <1>1, Invariance, PTL

\* A lookup_v2 call that no registration call overlaps answers as a single
\* step would, or with a cached record that missed a clear.
THEOREM LookupLinearizes == Spec => []AnswerLinearizes
<1>1. IInv => AnswerLinearizes
  BY DEF IInv
<1> QED BY <1>1, Invariance, PTL

=============================================================================
