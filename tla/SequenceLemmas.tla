--------------------------- MODULE SequenceLemmas ---------------------------
(***************************************************************************)
(* What appending to, erasing from and consuming a sequence does to its    *)
(* elements.  The vectors of the hook bus and the list of the route cache  *)
(* are changed by these operations only.                                   *)
(***************************************************************************)
EXTENDS Integers, SequencesExt, SequenceTheorems, TLAPS

\* Removing one element of a sequence leaves the others in order.
LEMMA RemoveAtElements ==
  ASSUME NEW S, NEW c \in Seq(S), NEW p \in 1..Len(c)
  PROVE  /\ RemoveAt(c, p) \in Seq(S)
         /\ Len(RemoveAt(c, p)) = Len(c) - 1
         /\ \A i \in 1..(Len(c) - 1) : RemoveAt(c, p)[i] = IF i < p THEN c[i] ELSE c[i + 1]
<1> DEFINE low  == SubSeq(c, 1, p - 1)
           high == SubSeq(c, p + 1, Len(c))
<1>0. Len(c) \in Nat /\ p \in Int /\ 1 <= p /\ p <= Len(c)
  OBVIOUS
<1>1. low \in Seq(S) /\ Len(low) = p - 1 /\ \A i \in 1..(p - 1) : low[i] = c[i]
  BY <1>0
<1>2. /\ high \in Seq(S) /\ Len(high) = Len(c) - p
      /\ \A i \in 1..(Len(c) - p) : high[i] = c[p + i]
  BY <1>0
<1> HIDE DEF low, high
<1>3. low \o high \in Seq(S) /\ Len(low \o high) = Len(c) - 1
  <2>1. low \o high \in Seq(S) /\ Len(low \o high) = Len(low) + Len(high)
    BY <1>1, <1>2, ConcatProperties
  <2> QED BY <2>1, <1>0, <1>1, <1>2
<1>4. ASSUME NEW i \in 1..(Len(c) - 1)
      PROVE  (low \o high)[i] = IF i < p THEN c[i] ELSE c[i + 1]
  <2>1. CASE i < p
    BY <2>1, <1>0, <1>1, <1>2
  <2>2. CASE ~(i < p)
    <3>1. (low \o high)[i] = high[i - (p - 1)]
      BY <2>2, <1>0, <1>1, <1>2
    <3>2. i - (p - 1) \in 1..(Len(c) - p) /\ p + (i - (p - 1)) = i + 1
      BY <2>2, <1>0
    <3> QED BY <2>2, <3>1, <3>2, <1>2
  <2> QED BY <2>1, <2>2
<1> QED BY <1>3, <1>4 DEF RemoveAt, low, high

\* Erasing a position of a sequence without duplicates takes away the element
\* there, no other, and leaves it without duplicates.
LEMMA EraseElement ==
  ASSUME NEW S, NEW c \in Seq(S), NEW p \in 1..Len(c), IsInjective(c)
  PROVE  /\ RemoveAt(c, p) \in Seq(S)
         /\ Range(RemoveAt(c, p)) = Range(c) \ {c[p]}
         /\ IsInjective(RemoveAt(c, p))
         /\ RemoveAt(c, p) # <<>> <=> Len(c) > 1
<1> DEFINE r == RemoveAt(c, p)
<1>1. /\ r \in Seq(S) /\ Len(r) = Len(c) - 1
      /\ \A i \in 1..(Len(c) - 1) : r[i] = IF i < p THEN c[i] ELSE c[i + 1]
  BY RemoveAtElements
<1>2. Len(c) \in Nat /\ DOMAIN c = 1..Len(c) /\ p \in Int /\ 1 <= p /\ p <= Len(c)
  OBVIOUS
<1> HIDE DEF r
<1>3. DOMAIN r = 1..(Len(c) - 1)
  BY <1>1, <1>2
<1>4. ASSUME NEW i \in 1..(Len(c) - 1)
      PROVE  \E k \in 1..Len(c) : k # p /\ r[i] = c[k] /\ k = IF i < p THEN i ELSE i + 1
  BY <1>1, <1>2
<1>5. ASSUME NEW k \in 1..Len(c), k # p
      PROVE  \E i \in 1..(Len(c) - 1) : r[i] = c[k]
  <2>1. CASE k < p
    <3>1. k \in 1..(Len(c) - 1) /\ r[k] = c[k]
      BY <2>1, <1>1, <1>2
    <3> QED BY <3>1
  <2>2. CASE k > p
    <3>1. k - 1 \in 1..(Len(c) - 1) /\ ~(k - 1 < p) /\ (k - 1) + 1 = k
      BY <2>2, <1>2
    <3>2. r[k - 1] = c[k]
      BY <3>1, <1>1
    <3> QED BY <3>1, <3>2
  <2> QED BY <2>1, <2>2, <1>5, <1>2
<1>6. Range(r) = Range(c) \ {c[p]}
  <2>1. ASSUME NEW x \in Range(r) PROVE x \in Range(c) /\ x # c[p]
    <3>1. PICK i \in 1..(Len(c) - 1) : x = r[i]
      BY <1>3 DEF Range
    <3>2. PICK k \in 1..Len(c) : k # p /\ r[i] = c[k]
      BY <1>4
    <3> QED BY <3>1, <3>2, <1>2 DEF Range, IsInjective
  <2>2. ASSUME NEW x \in Range(c), x # c[p] PROVE x \in Range(r)
    <3>1. PICK k \in 1..Len(c) : x = c[k]
      BY <1>2 DEF Range
    <3>2. PICK i \in 1..(Len(c) - 1) : r[i] = c[k]
      BY <2>2, <3>1, <1>5
    <3> QED BY <3>1, <3>2, <1>3 DEF Range
  <2> QED BY <2>1, <2>2
<1>7. IsInjective(r)
  <2>1. SUFFICES ASSUME NEW i \in 1..(Len(c) - 1), NEW j \in 1..(Len(c) - 1), r[i] = r[j]
                 PROVE  i = j
    BY <1>3 DEF IsInjective
  <2>2. PICK k \in 1..Len(c) : r[i] = c[k] /\ k = IF i < p THEN i ELSE i + 1
    BY <1>4
  <2>3. PICK m \in 1..Len(c) : r[j] = c[m] /\ m = IF j < p THEN j ELSE j + 1
    BY <1>4
  <2>4. k = m
    BY <2>1, <2>2, <2>3, <1>2 DEF IsInjective
  <2> QED BY <2>2, <2>3, <2>4, <1>2
<1>8. r # <<>> <=> Len(c) > 1
  BY <1>1, <1>2
<1> QED BY <1>1, <1>6, <1>7, <1>8 DEF r

\* Appending adds one element, and no duplicate when it is new.
LEMMA AppendElement ==
  ASSUME NEW S, NEW s \in Seq(S), NEW e \in S
  PROVE  /\ Append(s, e) \in Seq(S)
         /\ Append(s, e) # <<>>
         /\ Range(Append(s, e)) = Range(s) \cup {e}
         /\ IsInjective(s) /\ e \notin Range(s) => IsInjective(Append(s, e))
<1> DEFINE a == Append(s, e)
<1>1. /\ a \in Seq(S) /\ Len(a) = Len(s) + 1 /\ a[Len(s) + 1] = e
      /\ \A i \in 1..Len(s) : a[i] = s[i]
  OBVIOUS
<1>2. Len(s) \in Nat /\ DOMAIN s = 1..Len(s) /\ DOMAIN a = 1..(Len(s) + 1)
  BY <1>1
<1> HIDE DEF a
<1>3. Range(a) = Range(s) \cup {e}
  <2>1. ASSUME NEW x \in Range(a) PROVE x \in Range(s) \cup {e}
    <3>1. PICK i \in 1..(Len(s) + 1) : x = a[i]
      BY <1>2 DEF Range
    <3>2. CASE i = Len(s) + 1
      BY <3>1, <3>2, <1>1
    <3>3. CASE i # Len(s) + 1
      <4>1. i \in 1..Len(s)
        BY <3>3, <1>2
      <4> QED BY <4>1, <3>1, <1>1, <1>2 DEF Range
    <3> QED BY <3>2, <3>3
  <2>2. ASSUME NEW x \in Range(s) PROVE x \in Range(a)
    <3>1. PICK i \in 1..Len(s) : x = s[i]
      BY <1>2 DEF Range
    <3>2. i \in 1..(Len(s) + 1)
      BY <1>2
    <3> QED BY <3>1, <3>2, <1>1, <1>2 DEF Range
  <2>3. e \in Range(a)
    <3>1. Len(s) + 1 \in 1..(Len(s) + 1)
      BY <1>2
    <3> QED BY <3>1, <1>1, <1>2 DEF Range
  <2> QED BY <2>1, <2>2, <2>3
<1>4. ASSUME IsInjective(s), e \notin Range(s) PROVE IsInjective(a)
  <2>1. SUFFICES ASSUME NEW i \in 1..(Len(s) + 1), NEW j \in 1..(Len(s) + 1), a[i] = a[j]
                 PROVE  i = j
    BY <1>2 DEF IsInjective
  <2>2. \A k \in 1..Len(s) : a[k] # e
    BY <1>4, <1>1, <1>2 DEF Range
  <2>3. CASE i = Len(s) + 1 \/ j = Len(s) + 1
    BY <2>1, <2>2, <2>3, <1>1, <1>2
  <2>4. CASE ~(i = Len(s) + 1 \/ j = Len(s) + 1)
    <3>1. i \in 1..Len(s) /\ j \in 1..Len(s)
      BY <2>4, <1>2
    <3> QED BY <3>1, <2>1, <1>1, <1>2, <1>4 DEF IsInjective
  <2> QED BY <2>3, <2>4
<1>5. a # <<>>
  BY <1>1, <1>2
<1> QED BY <1>1, <1>3, <1>4, <1>5 DEF a

\* The elements of a sequence are its head and those of its tail.
LEMMA ConsumeElement ==
  ASSUME NEW S, NEW s \in Seq(S), s # <<>>
  PROVE  /\ Head(s) \in S
         /\ Tail(s) \in Seq(S)
         /\ Range(s) = {Head(s)} \cup Range(Tail(s))
<1> DEFINE t == Tail(s)
<1>1. Len(s) \in Nat /\ Len(s) > 0 /\ DOMAIN s = 1..Len(s)
  OBVIOUS
<1>2. Head(s) \in S /\ Head(s) = s[1]
  BY <1>1
<1>3. t \in Seq(S) /\ Len(t) = Len(s) - 1 /\ \A i \in 1..(Len(s) - 1) : t[i] = s[i + 1]
  BY <1>1
<1> HIDE DEF t
<1>4. DOMAIN t = 1..(Len(s) - 1)
  BY <1>1, <1>3
<1>5. ASSUME NEW x \in Range(s) PROVE x \in {Head(s)} \cup Range(t)
  <2>1. PICK i \in 1..Len(s) : x = s[i]
    BY <1>1 DEF Range
  <2>2. CASE i = 1
    BY <2>1, <2>2, <1>2
  <2>3. CASE i # 1
    <3>1. i - 1 \in 1..(Len(s) - 1) /\ (i - 1) + 1 = i
      BY <2>3, <1>1
    <3>2. t[i - 1] = s[i]
      BY <3>1, <1>3
    <3> QED BY <3>1, <3>2, <2>1, <1>4 DEF Range
  <2> QED BY <2>2, <2>3
<1>6. ASSUME NEW x \in Range(t) PROVE x \in Range(s)
  <2>1. PICK i \in 1..(Len(s) - 1) : x = t[i]
    BY <1>4 DEF Range
  <2>2. i + 1 \in 1..Len(s) /\ t[i] = s[i + 1]
    BY <1>1, <1>3
  <2> QED BY <2>1, <2>2, <1>1 DEF Range
<1>7. Head(s) \in Range(s)
  <2>1. 1 \in 1..Len(s)
    BY <1>1
  <2> QED BY <2>1, <1>1, <1>2 DEF Range
<1> QED BY <1>2, <1>3, <1>5, <1>6, <1>7 DEF t
=============================================================================
