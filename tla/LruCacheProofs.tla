--------------------------- MODULE LruCacheProofs ---------------------------
(***************************************************************************)
(* Proofs about LruCache, for any capacity, files, handlers and objects.   *)
(***************************************************************************)
EXTENDS LruCache, FiniteSetTheorems, TLAPS

(* No key occurs twice in the history.                                     *)
RecentDistinct ==
  \A i, j \in 1..Len(recent) : recent[i] = recent[j] => i = j

(* map.size() and cacheList.size() are the same.                           *)
SizesAgree == Cardinality(CachedKeys) = Len(cacheList)

IInv ==
  /\ TypeOK /\ MapListAgree /\ LruOrder /\ ServesRequested
  /\ RecentDistinct /\ SizesAgree

-----------------------------------------------------------------------------
(* What splice, push_front and pop_back do to a sequence.                  *)
LEMMA MoveToFrontFacts ==
  ASSUME NEW S, NEW s \in Seq(S), NEW i \in 1..Len(s)
  PROVE  /\ MoveToFront(s, i) \in Seq(S)
         /\ Len(MoveToFront(s, i)) = Len(s)
         /\ \A j \in 1..Len(s) : MoveToFront(s, i)[j] =
              IF j = 1 THEN s[i] ELSE IF j <= i THEN s[j - 1] ELSE s[j]
<1>1. Len(s) \in Nat
  OBVIOUS
<1>2. \A j \in 1..Len(s) :
        (IF j = 1 THEN s[i] ELSE IF j <= i THEN s[j - 1] ELSE s[j]) \in S
  OBVIOUS
<1>3. MoveToFront(s, i) \in [1..Len(s) -> S]
  BY <1>2 DEF MoveToFront
<1>4. MoveToFront(s, i) \in Seq(S)
  BY <1>1, <1>3
<1>5. DOMAIN MoveToFront(s, i) = 1..Len(s)
  BY DEF MoveToFront
<1>6. Len(MoveToFront(s, i)) = Len(s)
  BY <1>1, <1>4, <1>5
<1> QED
  BY <1>4, <1>6 DEF MoveToFront

LEMMA PushFrontFacts ==
  ASSUME NEW S, NEW s \in Seq(S), NEW x \in S
  PROVE  /\ PushFront(x, s) \in Seq(S)
         /\ Len(PushFront(x, s)) = Len(s) + 1
         /\ \A j \in 1..(Len(s) + 1) : PushFront(x, s)[j] = IF j = 1 THEN x ELSE s[j - 1]
<1>1. Len(s) + 1 \in Nat
  OBVIOUS
<1>2. \A j \in 1..(Len(s) + 1) : (IF j = 1 THEN x ELSE s[j - 1]) \in S
  OBVIOUS
<1>3. PushFront(x, s) \in [1..(Len(s) + 1) -> S]
  BY <1>2 DEF PushFront
<1>4. PushFront(x, s) \in Seq(S)
  BY <1>1, <1>3
<1>5. DOMAIN PushFront(x, s) = 1..(Len(s) + 1)
  BY DEF PushFront
<1>6. Len(PushFront(x, s)) = Len(s) + 1
  BY <1>1, <1>4, <1>5
<1> QED
  BY <1>4, <1>6 DEF PushFront

LEMMA PopBackFacts ==
  ASSUME NEW S, NEW s \in Seq(S), Len(s) > 0
  PROVE  /\ PopBack(s) \in Seq(S)
         /\ Len(PopBack(s)) = Len(s) - 1
         /\ \A j \in 1..(Len(s) - 1) : PopBack(s)[j] = s[j]
<1>1. Len(s) - 1 \in Nat
  OBVIOUS
<1>2. PopBack(s) \in [1..(Len(s) - 1) -> S]
  BY DEF PopBack
<1>3. PopBack(s) \in Seq(S)
  BY <1>1, <1>2
<1>4. DOMAIN PopBack(s) = 1..(Len(s) - 1)
  BY DEF PopBack
<1>5. Len(PopBack(s)) = Len(s) - 1
  BY <1>1, <1>3, <1>4
<1> QED
  BY <1>3, <1>5 DEF PopBack

(* An entry that occurs has a position.                                    *)
LEMMA PositionFacts ==
  ASSUME NEW s, NEW x, \E i \in 1..Len(s) : s[i] = x
  PROVE  Position(s, x) \in 1..Len(s) /\ s[Position(s, x)] = x
BY DEF Position

(* The history keeps its type and stays free of duplicates; its first      *)
(* entry is the key just got.                                              *)
LEMMA TouchFacts ==
  ASSUME NEW k \in Keys, recent \in Seq(Keys), RecentDistinct
  PROVE  /\ Touch(k) \in Seq(Keys)
         /\ \A i, j \in 1..Len(Touch(k)) : Touch(k)[i] = Touch(k)[j] => i = j
<1>1. CASE \E i \in 1..Len(recent) : recent[i] = k
  <2> DEFINE p == Position(recent, k)
  <2>1. p \in 1..Len(recent) /\ recent[p] = k
    BY <1>1, PositionFacts
  <2>2. Touch(k) = MoveToFront(recent, p)
    BY <1>1 DEF Touch
  <2> HIDE DEF p
  <2>3. /\ Touch(k) \in Seq(Keys)
        /\ Len(Touch(k)) = Len(recent)
        /\ \A j \in 1..Len(recent) : Touch(k)[j] =
             IF j = 1 THEN recent[p] ELSE IF j <= p THEN recent[j - 1] ELSE recent[j]
    BY <2>1, <2>2, MoveToFrontFacts
  <2>4. ASSUME NEW i \in 1..Len(recent), NEW j \in 1..Len(recent),
               Touch(k)[i] = Touch(k)[j]
        PROVE  i = j
    <3> DEFINE f(n) == IF n = 1 THEN p ELSE IF n <= p THEN n - 1 ELSE n
    <3>1. f(i) \in 1..Len(recent) /\ f(j) \in 1..Len(recent)
      BY <2>1
    <3>2. Touch(k)[i] = recent[f(i)] /\ Touch(k)[j] = recent[f(j)]
      BY <2>3
    <3>3. f(i) = f(j)
      BY <2>4, <3>1, <3>2 DEF RecentDistinct
    <3> QED
      BY <2>1, <3>3
  <2> QED
    BY <2>3, <2>4
<1>2. CASE ~(\E i \in 1..Len(recent) : recent[i] = k)
  <2>1. Touch(k) = PushFront(k, recent)
    BY <1>2 DEF Touch
  <2>2. /\ Touch(k) \in Seq(Keys)
        /\ Len(Touch(k)) = Len(recent) + 1
        /\ \A j \in 1..(Len(recent) + 1) : Touch(k)[j] =
             IF j = 1 THEN k ELSE recent[j - 1]
    BY <2>1, PushFrontFacts
  <2>3. ASSUME NEW i \in 1..(Len(recent) + 1), NEW j \in 1..(Len(recent) + 1),
               Touch(k)[i] = Touch(k)[j]
        PROVE  i = j
    <3>1. CASE i = 1 /\ j = 1
      BY <3>1
    <3>2. CASE i # 1 /\ j = 1
      BY <1>2, <2>2, <2>3, <3>2
    <3>3. CASE i = 1 /\ j # 1
      BY <1>2, <2>2, <2>3, <3>3
    <3>4. CASE i # 1 /\ j # 1
      <4>1. i - 1 \in 1..Len(recent) /\ j - 1 \in 1..Len(recent)
        BY <3>4
      <4>2. recent[i - 1] = recent[j - 1]
        BY <2>2, <2>3, <3>4
      <4>3. i - 1 = j - 1
        BY <4>1, <4>2 DEF RecentDistinct
      <4> QED
        BY <4>3
    <3> QED
      BY <3>1, <3>2, <3>3, <3>4
  <2> QED
    BY <2>2, <2>3
<1> QED
  BY <1>1, <1>2

-----------------------------------------------------------------------------
(* An object in use keeps its contents, any other one becomes free.        *)
LEMMA ReclaimFacts ==
  ASSUME NEW list, NEW h, memory \in [Objects -> Built \cup {"free"}]
  PROVE  /\ Reclaim(list, h) \in [Objects -> Built \cup {"free"}]
         /\ \A o \in Objects : (\E i \in 1..Len(list) : list[i] = o)
              => Reclaim(list, h)[o] = memory[o]
         /\ \A o \in Objects : (\E c \in Clients : h[c] = o)
              => Reclaim(list, h)[o] = memory[o]
BY DEF Reclaim, InUse

LEMMA InitInv == Init => IInv
<1> SUFFICES ASSUME Init PROVE IInv
  OBVIOUS
<1> USE ConstantsAssumption
<1>1. TypeOK
  BY DEF Init, TypeOK
<1>2. CachedKeys = {}
  BY DEF Init, CachedKeys, Cached
<1>3. SizesAgree
  BY <1>2, FS_EmptySet DEF Init, SizesAgree
<1>4. MapListAgree
  BY DEF Init, MapListAgree, Cached
<1>5. LruOrder /\ RecentDistinct
  BY DEF Init, LruOrder, RecentDistinct
<1>6. ServesRequested
  BY DEF Init, ServesRequested
<1> QED
  BY <1>1, <1>3, <1>4, <1>5, <1>6 DEF IInv

(* A hit moves the same entry to the front of the list and of the history. *)
LEMMA HitStep ==
  ASSUME IInv, NEW c \in Clients, NEW k \in Keys, GetHit(c, k)
  PROVE  IInv'
<1> USE ConstantsAssumption
<1> DEFINE o == map[k]
           p == Position(cacheList, o)
<1>1. /\ TypeOK /\ MapListAgree /\ LruOrder /\ ServesRequested
      /\ RecentDistinct /\ SizesAgree
  BY DEF IInv
<1>2. o \in Objects /\ mPath[o] = k /\ (\E i \in 1..Len(cacheList) : cacheList[i] = o)
  BY <1>1 DEF GetHit, Cached, TypeOK, MapListAgree
<1>3. p \in 1..Len(cacheList) /\ cacheList[p] = o
  BY <1>2, PositionFacts
<1>4. Len(cacheList) <= Len(recent) /\ p \in 1..Len(recent) /\ recent[p] = k
  BY <1>1, <1>2, <1>3 DEF LruOrder, TypeOK
<1>5. Position(recent, k) = p
  <2>1. Position(recent, k) \in 1..Len(recent) /\ recent[Position(recent, k)] = k
    BY <1>4, PositionFacts
  <2> QED
    BY <1>1, <1>4, <2>1 DEF RecentDistinct
<1>6. recent' = MoveToFront(recent, p)
  BY <1>4, <1>5 DEF GetHit, Touch
<1>7. cacheList' = MoveToFront(cacheList, p)
  BY DEF GetHit, Splice
<1> HIDE DEF p
<1>8. /\ cacheList' \in Seq(Objects)
      /\ Len(cacheList') = Len(cacheList)
      /\ \A j \in 1..Len(cacheList) : cacheList'[j] =
           IF j = 1 THEN cacheList[p] ELSE IF j <= p THEN cacheList[j - 1] ELSE cacheList[j]
  BY <1>1, <1>3, <1>7, MoveToFrontFacts DEF TypeOK
<1>9. /\ recent' \in Seq(Keys)
      /\ Len(recent') = Len(recent)
      /\ \A j \in 1..Len(recent) : recent'[j] =
           IF j = 1 THEN recent[p] ELSE IF j <= p THEN recent[j - 1] ELSE recent[j]
  BY <1>1, <1>4, <1>6, MoveToFrontFacts DEF TypeOK
<1>10. map' = map /\ mPath' = mPath /\ memory' = memory /\ recent' = Touch(k)
       /\ held' = [held EXCEPT ![c] = o] /\ want' = [want EXCEPT ![c] = k]
  BY DEF GetHit
<1>11. TypeOK'
  BY <1>1, <1>2, <1>8, <1>9, <1>10 DEF TypeOK
<1>12. MapListAgree'
  <2>1. \A i \in 1..Len(cacheList) : \E j \in 1..Len(cacheList') : cacheList'[j] = cacheList[i]
    <3> SUFFICES ASSUME NEW i \in 1..Len(cacheList)
                 PROVE  \E j \in 1..Len(cacheList') : cacheList'[j] = cacheList[i]
      OBVIOUS
    <3>1. CASE i = p
      BY <1>3, <1>8, <3>1
    <3>2. CASE i < p
      <4>1. i + 1 \in 1..Len(cacheList') /\ cacheList'[i + 1] = cacheList[i]
        BY <1>3, <1>8, <3>2
      <4> QED
        BY <4>1
    <3>3. CASE i > p
      <4>1. i \in 1..Len(cacheList') /\ cacheList'[i] = cacheList[i]
        BY <1>3, <1>8, <3>3
      <4> QED
        BY <4>1
    <3> QED
      BY <1>3, <3>1, <3>2, <3>3
  <2>2. \A j \in 1..Len(cacheList') : \E i \in 1..Len(cacheList) : cacheList'[j] = cacheList[i]
    BY <1>3, <1>8
  <2> QED
    BY <1>1, <1>10, <2>1, <2>2 DEF MapListAgree, Cached
<1>13. LruOrder'
  <2>1. Len(cacheList') = IF Len(recent') <= Capacity THEN Len(recent') ELSE Capacity
    BY <1>1, <1>8, <1>9 DEF LruOrder
  <2>2. \A i \in 1..Len(cacheList') : mPath'[cacheList'[i]] = recent'[i]
    <3> SUFFICES ASSUME NEW i \in 1..Len(cacheList)
                 PROVE  mPath[cacheList'[i]] = recent'[i]
      BY <1>8, <1>10
    <3>1. i \in 1..Len(recent)
      BY <1>4
    <3>2. CASE i = 1
      BY <1>2, <1>3, <1>4, <1>8, <1>9, <3>1, <3>2
    <3>3. CASE i # 1 /\ i <= p
      <4>1. i - 1 \in 1..Len(cacheList)
        BY <3>3
      <4> QED
        BY <1>1, <1>8, <1>9, <3>1, <3>3, <4>1 DEF LruOrder
    <3>4. CASE i # 1 /\ ~(i <= p)
      BY <1>1, <1>8, <1>9, <3>1, <3>4 DEF LruOrder
    <3> QED
      BY <3>2, <3>3, <3>4
  <2> QED
    BY <2>1, <2>2 DEF LruOrder
<1>14. ServesRequested'
  <2>1. memory[o] # "free"
    BY <1>1, <1>3 DEF MapListAgree
  <2> QED
    BY <1>1, <1>2, <1>10, <2>1 DEF ServesRequested, TypeOK
<1>15. RecentDistinct'
  BY <1>1, <1>10, TouchFacts DEF RecentDistinct, TypeOK
<1>16. SizesAgree'
  BY <1>1, <1>8, <1>10 DEF SizesAgree, CachedKeys, Cached
<1> QED
  BY <1>11, <1>12, <1>13, <1>14, <1>15, <1>16 DEF IInv

(* A miss puts a new object in front of what is kept of the list.          *)
LEMMA MissStep ==
  ASSUME IInv, NEW c \in Clients, NEW k \in Keys, NEW o \in Objects,
         NEW m \in Built, GetMiss(c, k, o, m)
  PROVE  IInv'
<1> USE ConstantsAssumption
<1> DEFINE full == Full(Cardinality(CachedKeys))
           rest == IF full THEN PopBack(cacheList) ELSE cacheList
           v == VictimKey(k)
           left == IF full THEN [map EXCEPT ![v] = NoObj] ELSE map
           n == Len(rest)
<1>1. /\ TypeOK /\ MapListAgree /\ LruOrder /\ ServesRequested
      /\ RecentDistinct /\ SizesAgree
  BY DEF IInv
<1>2. /\ held[c] = NoObj /\ ~Cached(k) /\ memory[o] = "free"
      /\ cacheList' = PushFront(o, rest)
      /\ map' = [left EXCEPT ![k] = o]
      /\ mPath' = [mPath EXCEPT ![o] = k]
      /\ held' = [held EXCEPT ![c] = o]
      /\ memory' = [Reclaim(cacheList', held') EXCEPT ![o] = m]
      /\ want' = [want EXCEPT ![c] = k]
      /\ recent' = Touch(k)
  BY DEF GetMiss
<1>3. full <=> Len(cacheList) = Capacity
  BY <1>1 DEF SizesAgree, Full
<1>4. Len(cacheList) \in Nat /\ Len(recent) \in Nat /\ Len(cacheList) <= Len(recent)
      /\ Len(cacheList) <= Capacity /\ (~full => Len(recent) = Len(cacheList))
  BY <1>1, <1>3 DEF LruOrder, TypeOK
<1>5. /\ rest \in Seq(Objects)
      /\ n = IF full THEN Capacity - 1 ELSE Len(cacheList)
      /\ \A j \in 1..n : rest[j] = cacheList[j]
  BY <1>1, <1>3, PopBackFacts DEF TypeOK
<1>6. full => v \in Keys /\ v = mPath[cacheList[Capacity]] /\ v = recent[Capacity]
              /\ map[v] = cacheList[Capacity]
  BY <1>1, <1>3 DEF VictimKey, TypeOK, LruOrder, MapListAgree
<1> HIDE DEF full, rest, v
<1>7. \A i \in 1..Len(cacheList) : recent[i] # k /\ mPath[cacheList[i]] # k
  BY <1>1, <1>2 DEF LruOrder, MapListAgree, TypeOK, Cached
<1>8. (\A i \in 1..Len(cacheList) : cacheList[i] # o) /\ (\A d \in Clients : held[d] # o)
  BY <1>1, <1>2 DEF MapListAgree, ServesRequested
<1>9. n \in Nat /\ n <= Len(cacheList)
  BY <1>3, <1>4, <1>5
<1>10. /\ cacheList' \in Seq(Objects)
       /\ Len(cacheList') = n + 1
       /\ \A j \in 1..(n + 1) : cacheList'[j] = IF j = 1 THEN o ELSE cacheList[j - 1]
  <2>1. /\ cacheList' \in Seq(Objects)
        /\ Len(cacheList') = n + 1
        /\ \A j \in 1..(n + 1) : cacheList'[j] = IF j = 1 THEN o ELSE rest[j - 1]
    <3>1. o \in Objects /\ rest \in Seq(Objects)
      BY <1>5
    <3>2. /\ PushFront(o, rest) \in Seq(Objects)
          /\ Len(PushFront(o, rest)) = Len(rest) + 1
          /\ \A j \in 1..(Len(rest) + 1) :
               PushFront(o, rest)[j] = IF j = 1 THEN o ELSE rest[j - 1]
      BY ONLY <3>1, PushFrontFacts
    <3> QED
      BY <1>2, <3>2
  <2>2. \A j \in 1..(n + 1) : j # 1 => j - 1 \in 1..n
    BY <1>9
  <2> QED
    BY <1>5, <2>1, <2>2
<1>11. /\ n + 1 = IF Len(recent') <= Capacity THEN Len(recent') ELSE Capacity
       /\ \A j \in 1..(n + 1) : recent'[j] = IF j = 1 THEN k ELSE recent[j - 1]
  <2>1. CASE \E i \in 1..Len(recent) : recent[i] = k
    <3> DEFINE q == Position(recent, k)
    <3>1. q \in 1..Len(recent) /\ recent[q] = k
      BY <2>1, PositionFacts
    <3>2. recent' = MoveToFront(recent, q)
      BY <1>2, <2>1 DEF Touch
    <3> HIDE DEF q
    <3>3. q > Len(cacheList)
      BY <1>4, <1>7, <3>1
    <3>4. full
      BY <1>3, <1>4, <3>1, <3>3
    <3>5. /\ Len(recent') = Len(recent)
          /\ \A j \in 1..Len(recent) : recent'[j] =
               IF j = 1 THEN recent[q] ELSE IF j <= q THEN recent[j - 1] ELSE recent[j]
      BY <1>1, <3>1, <3>2, MoveToFrontFacts DEF TypeOK
    <3>6. n + 1 = Capacity /\ Len(cacheList) = Capacity
      BY <1>3, <1>5, <3>4
    <3> QED
      BY <1>4, <3>1, <3>3, <3>5, <3>6
  <2>2. CASE ~(\E i \in 1..Len(recent) : recent[i] = k)
    <3>1. recent' = PushFront(k, recent)
      BY <1>2, <2>2 DEF Touch
    <3>2. /\ Len(recent') = Len(recent) + 1
          /\ \A j \in 1..(Len(recent) + 1) : recent'[j] = IF j = 1 THEN k ELSE recent[j - 1]
      <4>1. recent \in Seq(Keys)
        BY <1>1 DEF TypeOK
      <4>2. /\ Len(PushFront(k, recent)) = Len(recent) + 1
            /\ \A j \in 1..(Len(recent) + 1) :
                 PushFront(k, recent)[j] = IF j = 1 THEN k ELSE recent[j - 1]
        BY <4>1, PushFrontFacts
      <4> QED
        BY <3>1, <4>2
    <3>3. n + 1 = IF Len(recent') <= Capacity THEN Len(recent') ELSE Capacity
      BY <1>3, <1>4, <1>5, <3>2
    <3> QED
      BY <1>4, <1>9, <3>2, <3>3
  <2> QED
    BY <2>1, <2>2
<1> HIDE DEF n
<1>12. /\ \A x \in Keys : map'[x] = IF x = k THEN o ELSE
                                     IF full /\ x = v THEN NoObj ELSE map[x]
       /\ map' \in [Keys -> Objects \cup {NoObj}]
  BY <1>1, <1>2, <1>6 DEF TypeOK
<1>13. \A j \in 2..(n + 1) :
         /\ j - 1 \in 1..Len(cacheList)
         /\ cacheList[j - 1] \in Objects \ {o}
         /\ mPath[cacheList[j - 1]] \in Keys \ {k}
         /\ full => mPath[cacheList[j - 1]] # v
  <2> SUFFICES ASSUME NEW j \in 2..(n + 1)
               PROVE  /\ j - 1 \in 1..Len(cacheList)
                      /\ cacheList[j - 1] \in Objects \ {o}
                      /\ mPath[cacheList[j - 1]] \in Keys \ {k}
                      /\ full => mPath[cacheList[j - 1]] # v
    OBVIOUS
  <2>1. j - 1 \in 1..Len(cacheList)
    BY <1>4, <1>9
  <2>2. cacheList[j - 1] \in Objects \ {o} /\ mPath[cacheList[j - 1]] \in Keys \ {k}
    BY <1>1, <1>7, <1>8, <2>1 DEF TypeOK
  <2>3. ASSUME full PROVE mPath[cacheList[j - 1]] # v
    <3>1. j - 1 < Capacity /\ Capacity \in 1..Len(recent) /\ j - 1 \in 1..Len(recent)
      BY <1>3, <1>4, <1>5, <2>1, <2>3 DEF n
    <3>2. mPath[cacheList[j - 1]] = recent[j - 1] /\ v = recent[Capacity]
      BY <1>1, <1>6, <2>1, <2>3 DEF LruOrder
    <3> QED
      BY <1>1, <3>1, <3>2 DEF RecentDistinct
  <2> QED
    BY <2>1, <2>2, <2>3
<1>14. /\ memory' \in [Objects -> Built \cup {"free"}]
       /\ memory'[o] = m
       /\ \A j \in 2..(n + 1) : memory'[cacheList[j - 1]] = memory[cacheList[j - 1]]
       /\ \A d \in Clients \ {c} : held[d] # NoObj => memory'[held[d]] = memory[held[d]]
  <2> DEFINE R == Reclaim(cacheList', held')
  <2>1. R \in [Objects -> Built \cup {"free"}]
    BY <1>1, ReclaimFacts DEF TypeOK
  <2>2. memory' = [R EXCEPT ![o] = m]
    BY <1>2
  <2>3. \A j \in 2..(n + 1) : R[cacheList[j - 1]] = memory[cacheList[j - 1]]
    <3> SUFFICES ASSUME NEW j \in 2..(n + 1)
                 PROVE  R[cacheList[j - 1]] = memory[cacheList[j - 1]]
      OBVIOUS
    <3>1. j \in 1..Len(cacheList') /\ cacheList'[j] = cacheList[j - 1]
      BY <1>9, <1>10
    <3>2. cacheList[j - 1] \in Objects
      BY <1>13
    <3> QED
      BY <1>1, <3>1, <3>2, ReclaimFacts DEF TypeOK
  <2>4. \A d \in Clients \ {c} : held[d] # NoObj => R[held[d]] = memory[held[d]]
    <3> SUFFICES ASSUME NEW d \in Clients \ {c}, held[d] # NoObj
                 PROVE  R[held[d]] = memory[held[d]]
      OBVIOUS
    <3>1. held[d] \in Objects /\ held'[d] = held[d]
      BY <1>1, <1>2 DEF TypeOK
    <3> QED
      BY <1>1, <3>1, ReclaimFacts DEF TypeOK
  <2> HIDE DEF R
  <2>5. \A d \in Clients \ {c} : held[d] # NoObj => held[d] \in Objects \ {o}
    BY <1>1, <1>8 DEF TypeOK
  <2> QED
    BY <1>13, <2>1, <2>2, <2>3, <2>4, <2>5
<1>15. TypeOK'
  <2>1. recent' \in Seq(Keys)
    BY <1>1, <1>2, TouchFacts DEF TypeOK
  <2>2. Len(cacheList') <= Capacity
    BY <1>10, <1>11, <2>1
  <2> QED
    BY <1>1, <1>2, <1>10, <1>12, <1>14, <2>1, <2>2 DEF TypeOK
<1>16. MapListAgree'
  <2>1. ASSUME NEW x \in Keys, map'[x] # NoObj
        PROVE  (\E i \in 1..Len(cacheList') : cacheList'[i] = map'[x]) /\ mPath'[map'[x]] = x
    <3>1. CASE x = k
      BY <1>1, <1>2, <1>9, <1>10, <1>12, <3>1 DEF TypeOK
    <3>2. CASE x # k
      <4>1. map'[x] = map[x] /\ (full => x # v)
        BY <1>12, <2>1, <3>2
      <4>2. PICK i \in 1..Len(cacheList) : cacheList[i] = map[x]
        BY <1>1, <2>1, <4>1 DEF MapListAgree, Cached
      <4>3. mPath[map[x]] = x
        BY <1>1, <2>1, <4>1 DEF MapListAgree, Cached
      <4>4. i <= n
        BY <1>3, <1>4, <1>5, <1>6, <4>1, <4>2, <4>3 DEF n
      <4>5. i + 1 \in 1..Len(cacheList') /\ cacheList'[i + 1] = map'[x]
        BY <1>9, <1>10, <4>1, <4>2, <4>4
      <4>6. map[x] \in Objects \ {o}
        BY <1>1, <1>8, <4>2 DEF TypeOK
      <4> QED
        BY <1>1, <1>2, <4>1, <4>3, <4>5, <4>6 DEF TypeOK
    <3> QED
      BY <3>1, <3>2
  <2>2. ASSUME NEW j \in 1..Len(cacheList')
        PROVE  map'[mPath'[cacheList'[j]]] = cacheList'[j] /\ memory'[cacheList'[j]] # "free"
    <3>1. CASE j = 1
      BY <1>1, <1>2, <1>10, <1>12, <1>14, <3>1 DEF TypeOK, Built
    <3>2. CASE j # 1
      <4>1. j \in 2..(n + 1) /\ cacheList'[j] = cacheList[j - 1]
        BY <1>9, <1>10, <3>2
      <4>2. mPath'[cacheList[j - 1]] = mPath[cacheList[j - 1]]
        BY <1>1, <1>2, <1>13, <4>1 DEF TypeOK
      <4>3. map'[mPath[cacheList[j - 1]]] = map[mPath[cacheList[j - 1]]]
        BY <1>12, <1>13, <4>1
      <4>4. map[mPath[cacheList[j - 1]]] = cacheList[j - 1] /\ memory[cacheList[j - 1]] # "free"
        BY <1>1, <1>13, <4>1 DEF MapListAgree
      <4> QED
        BY <1>14, <4>1, <4>2, <4>3, <4>4
    <3> QED
      BY <3>1, <3>2
  <2> QED
    BY <2>1, <2>2 DEF MapListAgree, Cached
<1>17. LruOrder'
  <2>1. ASSUME NEW i \in 1..Len(cacheList') PROVE mPath'[cacheList'[i]] = recent'[i]
    <3>1. CASE i = 1
      BY <1>1, <1>2, <1>10, <1>11, <3>1 DEF TypeOK
    <3>2. CASE i # 1
      <4>1. i \in 2..(n + 1) /\ cacheList'[i] = cacheList[i - 1] /\ recent'[i] = recent[i - 1]
        BY <1>9, <1>10, <1>11, <3>2
      <4>2. mPath'[cacheList[i - 1]] = mPath[cacheList[i - 1]]
        BY <1>1, <1>2, <1>13, <4>1 DEF TypeOK
      <4>3. mPath[cacheList[i - 1]] = recent[i - 1]
        BY <1>1, <1>13, <4>1 DEF LruOrder
      <4> QED
        BY <4>1, <4>2, <4>3
    <3> QED
      BY <3>1, <3>2
  <2> QED
    BY <1>10, <1>11, <2>1 DEF LruOrder
<1>18. ServesRequested'
  <2> SUFFICES ASSUME NEW d \in Clients, held'[d] # NoObj
               PROVE  mPath'[held'[d]] = want'[d] /\ memory'[held'[d]] # "free"
    BY DEF ServesRequested
  <2>1. CASE d = c
    BY <1>1, <1>2, <1>14, <2>1 DEF TypeOK, Built
  <2>2. CASE d # c
    <3>1. held'[d] = held[d] /\ want'[d] = want[d] /\ held[d] \in Objects \ {o}
      BY <1>1, <1>2, <1>8, <2>2 DEF TypeOK
    <3> QED
      BY <1>1, <1>2, <1>14, <2>2, <3>1 DEF ServesRequested, TypeOK
  <2> QED
    BY <2>1, <2>2
<1>19. RecentDistinct'
  BY <1>1, <1>2, TouchFacts DEF RecentDistinct, TypeOK
<1>20. SizesAgree'
  <2> DEFINE kept == IF full THEN CachedKeys \ {v} ELSE CachedKeys
  <2>1. CachedKeys' = kept \cup {k}
    BY <1>1, <1>12 DEF CachedKeys, Cached, TypeOK
  <2>2. IsFiniteSet(CachedKeys) /\ (full => v \in CachedKeys)
    <3>1. CachedKeys \subseteq Keys
      BY DEF CachedKeys
    <3>2. full => v \in CachedKeys
      BY <1>1, <1>3, <1>6 DEF CachedKeys, Cached, TypeOK
    <3> QED
      BY <3>1, <3>2, FS_Subset
  <2>3. IsFiniteSet(kept) /\ Cardinality(kept) = n
    <3>1. CASE full
      <4>1. /\ IsFiniteSet(CachedKeys \ {v})
            /\ Cardinality(CachedKeys \ {v}) = Cardinality(CachedKeys) - 1
        BY <2>2, <3>1, FS_RemoveElement
      <4> QED
        BY <1>1, <1>3, <1>5, <3>1, <4>1 DEF SizesAgree, n
    <3>2. CASE ~full
      BY <1>1, <1>5, <2>2, <3>2 DEF SizesAgree, n
    <3> QED
      BY <3>1, <3>2
  <2>4. k \notin kept
    BY <1>2 DEF CachedKeys
  <2> HIDE DEF kept
  <2>5. Cardinality(CachedKeys') = n + 1
    BY <2>1, <2>3, <2>4, FS_AddElement
  <2> QED
    BY <1>10, <2>5 DEF SizesAgree
<1> QED
  BY <1>15, <1>16, <1>17, <1>18, <1>19, <1>20 DEF IInv

(* refresh empties list, map and history; objects in use stay.             *)
LEMMA RefreshStep ==
  ASSUME IInv, refresh
  PROVE  IInv'
<1> USE ConstantsAssumption
<1>1. TypeOK /\ ServesRequested
  BY DEF IInv
<1>2. cacheList' = <<>> /\ map' = [k \in Keys |-> NoObj] /\ recent' = <<>>
      /\ memory' = Reclaim(cacheList', held)
      /\ mPath' = mPath /\ held' = held /\ want' = want
  BY DEF refresh
<1>3. /\ memory' \in [Objects -> Built \cup {"free"}]
      /\ \A o \in Objects : (\E c \in Clients : held[c] = o) => memory'[o] = memory[o]
  BY <1>1, <1>2, ReclaimFacts DEF TypeOK
<1>4. TypeOK'
  BY <1>1, <1>2, <1>3 DEF TypeOK
<1>5. MapListAgree' /\ LruOrder' /\ RecentDistinct'
  BY <1>2 DEF MapListAgree, LruOrder, RecentDistinct, Cached
<1>6. ServesRequested'
  BY <1>1, <1>2, <1>3 DEF ServesRequested, TypeOK
<1>7. CachedKeys' = {}
  BY <1>2 DEF CachedKeys, Cached
<1>8. SizesAgree'
  BY <1>2, <1>7, FS_EmptySet DEF SizesAgree
<1> QED
  BY <1>4, <1>5, <1>6, <1>8 DEF IInv

(* A client that lets go of a file frees no object that others use.        *)
LEMMA ReleaseStep ==
  ASSUME IInv, NEW c \in Clients, Release(c)
  PROVE  IInv'
<1>1. /\ TypeOK /\ MapListAgree /\ LruOrder /\ ServesRequested
      /\ RecentDistinct /\ SizesAgree
  BY DEF IInv
<1>2. /\ held' = [held EXCEPT ![c] = NoObj]
      /\ memory' = Reclaim(cacheList, held')
      /\ UNCHANGED <<cacheList, map, mPath, want, recent>>
  BY DEF Release
<1>3. /\ memory' \in [Objects -> Built \cup {"free"}]
      /\ \A o \in Objects : (\E i \in 1..Len(cacheList) : cacheList[i] = o)
           => memory'[o] = memory[o]
      /\ \A o \in Objects : (\E d \in Clients : held'[d] = o) => memory'[o] = memory[o]
  <2>1. memory \in [Objects -> Built \cup {"free"}]
    BY <1>1 DEF TypeOK
  <2> QED
    BY <1>2, <2>1 DEF Reclaim, InUse
<1>4. TypeOK'
  BY <1>1, <1>2, <1>3 DEF TypeOK
<1>5. MapListAgree'
  <2>1. \A i \in 1..Len(cacheList) : memory'[cacheList[i]] = memory[cacheList[i]]
    <3> SUFFICES ASSUME NEW i \in 1..Len(cacheList)
                 PROVE  memory'[cacheList[i]] = memory[cacheList[i]]
      OBVIOUS
    <3>1. cacheList[i] \in Objects
      BY <1>1 DEF TypeOK
    <3> QED
      BY <1>3, <3>1
  <2> QED
    BY <1>1, <1>2, <2>1 DEF MapListAgree, Cached
<1>6. ServesRequested'
  BY <1>1, <1>2, <1>3 DEF ServesRequested, TypeOK
<1>7. LruOrder' /\ RecentDistinct' /\ SizesAgree'
  BY <1>1, <1>2 DEF LruOrder, RecentDistinct, SizesAgree, CachedKeys, Cached
<1> QED
  BY <1>4, <1>5, <1>6, <1>7 DEF IInv

(* A failed get changes only the note of what was asked for, by a client   *)
(* that holds nothing.                                                     *)
LEMMA FailStep ==
  ASSUME IInv, NEW c \in Clients, NEW k \in Keys, GetFails(c, k)
  PROVE  IInv'
BY DEF IInv, GetFails, TypeOK, MapListAgree, LruOrder, ServesRequested,
       RecentDistinct, SizesAgree, CachedKeys, Cached

LEMMA StepInv == IInv /\ [Next]_vars => IInv'
<1> SUFFICES ASSUME IInv, [Next]_vars PROVE IInv'
  OBVIOUS
<1>1. CASE \E c \in Clients, k \in Keys : GetHit(c, k)
  BY <1>1, HitStep
<1>2. CASE \E c \in Clients, k \in Keys : GetFails(c, k)
  BY <1>2, FailStep
<1>3. CASE \E c \in Clients, k \in Keys, o \in Objects, m \in Built : GetMiss(c, k, o, m)
  BY <1>3, MissStep
<1>4. CASE \E c \in Clients : Release(c)
  BY <1>4, ReleaseStep
<1>5. CASE refresh
  BY <1>5, RefreshStep
<1>6. CASE UNCHANGED vars
  BY <1>6 DEF vars, IInv, TypeOK, MapListAgree, LruOrder, ServesRequested,
              RecentDistinct, SizesAgree, CachedKeys, Cached
<1> QED
  BY <1>1, <1>2, <1>3, <1>4, <1>5, <1>6 DEF Next

(* The inductive invariant holds in every reachable state of the cache.    *)
THEOREM Invariance == Spec => []IInv
BY InitInv, StepInv, PTL DEF Spec

(* get and put keep the list within the capacity and all types right.      *)
THEOREM TypeCorrect == Spec => []TypeOK
<1>1. IInv => TypeOK
  BY DEF IInv
<1> QED
  BY <1>1, Invariance, PTL

(* List and map of lruCache describe the same set of live files.           *)
THEOREM MapAndListAgree == Spec => []MapListAgree
<1>1. IInv => MapListAgree
  BY DEF IInv
<1> QED
  BY <1>1, Invariance, PTL

(* The cache holds the most recently got files, in order, for any capacity.*)
THEOREM EvictsLeastRecent == Spec => []LruOrder
<1>1. IInv => LruOrder
  BY DEF IInv
<1> QED
  BY <1>1, Invariance, PTL

(* A handler's file is the one it asked for and is not unmapped under it.  *)
THEOREM RequestedServed == Spec => []ServesRequested
<1>1. IInv => ServesRequested
  BY DEF IInv
<1> QED
  BY <1>1, Invariance, PTL
=============================================================================
