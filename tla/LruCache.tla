------------------------------ MODULE LruCache ------------------------------
(***************************************************************************)
(* The cache of open, memory-mapped files: lruCache of include/utils/      *)
(* Lru.hpp over the builder of include/file/FileCache.hpp.  get and        *)
(* refresh run under one mutex from beginning to end and are one step      *)
(* each; what they return is a shared_ptr that a response handler keeps    *)
(* until its frame is destroyed, cached or not.                            *)
(***************************************************************************)
EXTENDS Integers, Sequences, FiniteSets

CONSTANTS
  Keys,      \* paths of files
  Clients,   \* response handlers, each with room for one shared_ptr
  Objects,   \* addresses of fileCache objects, reused after destruction
  NoObj,     \* nullptr
  Capacity   \* capacity of the cache (1024 in the server)

(* With capacity 0, put would read back() of an empty list.                *)
ASSUME ConstantsAssumption ==
  /\ IsFiniteSet(Keys)
  /\ NoObj \notin Objects
  /\ Capacity \in Nat \ {0}

VARIABLES
  cacheList,  \* the objects of the cache, most recently used first
  map,        \* key -> the object of the list node its iterator points to
  mPath,      \* object -> the key it was built with
  memory,     \* object -> what it owns: destroyed ones are "free"
  held,       \* client -> its shared_ptr
  want,       \* client -> the key it asked for last
  recent      \* history: the keys got since the last refresh, latest first

vars == <<cacheList, map, mPath, memory, held, want, recent>>

(* The i-th entry becomes the first one, the others keep their order.      *)
MoveToFront(s, i) ==
  [j \in 1..Len(s) |-> IF j = 1 THEN s[i] ELSE IF j <= i THEN s[j - 1] ELSE s[j]]

(* Faulty variants, here and below, precede what they are a variant of.    *)
SpliceNothing(s, i) == IF i > 0 THEN s ELSE <<>>

(* splice(begin(), list, i)                                                *)
Splice(s, i) == MoveToFront(s, i)

PushFront(x, s) == [j \in 1..(Len(s) + 1) |-> IF j = 1 THEN x ELSE s[j - 1]]

PopBack(s) == [j \in 1..(Len(s) - 1) |-> s[j]]

(* Where x stands in s, which has it once.                                 *)
Position(s, x) == CHOOSE i \in 1..Len(s) : s[i] = x

(* map.contains(key)                                                       *)
Cached(k) == map[k] # NoObj

CachedKeys == {k \in Keys : Cached(k)}

(* The test of map.size() that makes put evict.                            *)
Full(n) == n = Capacity

(* The key under which put erases the entry it evicts: endNode->path().    *)
VictimIsNew(k) == k
VictimKey(k) == mPath[cacheList[Len(cacheList)]]

UsedByCache(o, list, h) == \E i \in 1..Len(list) : list[i] = o

(* Some shared_ptr refers to o: a list node or a client.                   *)
InUse(o, list, h) ==
  (\E i \in 1..Len(list) : list[i] = o) \/ (\E c \in Clients : h[c] = o)

(* When the last shared_ptr goes, ~fileCache unmaps the file and the       *)
(* regularFile in it closes the descriptor.                                *)
Reclaim(list, h) ==
  [o \in Objects |-> IF InUse(o, list, h) THEN memory[o] ELSE "free"]

(* History: k becomes the most recent key.                                 *)
Touch(k) ==
  IF \E i \in 1..Len(recent) : recent[i] = k
    THEN MoveToFront(recent, Position(recent, k))
    ELSE PushFront(k, recent)

(* Nothing is built or asked for yet: mPath and want are arbitrary.        *)
Init ==
  /\ cacheList = <<>>
  /\ map = [k \in Keys |-> NoObj]
  /\ mPath \in [Objects -> Keys]
  /\ memory = [o \in Objects |-> "free"]
  /\ held = [c \in Clients |-> NoObj]
  /\ want \in [Clients -> Keys]
  /\ recent = <<>>

-----------------------------------------------------------------------------
GetHit(c, k) ==
  /\ held[c] = NoObj
  /\ Cached(k)
  /\ cacheList' = Splice(cacheList, Position(cacheList, map[k]))
  /\ held' = [held EXCEPT ![c] = map[k]]
  /\ want' = [want EXCEPT ![c] = k]
  /\ recent' = Touch(k)
  /\ UNCHANGED <<map, mPath, memory>>

(* get calls put, which builds o.  build ignores the result of map(): a    *)
(* file that is not empty and could not be mapped is cached all the same.  *)
GetMiss(c, k, o, m) ==
  /\ held[c] = NoObj
  /\ ~Cached(k)
  /\ memory[o] = "free"
  /\ LET full == Full(Cardinality(CachedKeys))
         rest == IF full THEN PopBack(cacheList) ELSE cacheList
         left == IF full THEN [map EXCEPT ![VictimKey(k)] = NoObj] ELSE map
     IN  /\ cacheList' = PushFront(o, rest)
         /\ map' = [left EXCEPT ![k] = o]
  /\ mPath' = [mPath EXCEPT ![o] = k]
  /\ held' = [held EXCEPT ![c] = o]
  /\ memory' = [Reclaim(cacheList', held') EXCEPT ![o] = m]
  /\ want' = [want EXCEPT ![c] = k]
  /\ recent' = Touch(k)

(* The file cannot be opened: nullptr.  Or file_size throws: the exception *)
(* leaves get.  The cache has not been touched yet in either case.         *)
GetFails(c, k) ==
  /\ held[c] = NoObj
  /\ ~Cached(k)
  /\ want' = [want EXCEPT ![c] = k]
  /\ UNCHANGED <<cacheList, map, mPath, memory, held, recent>>

refresh ==
  /\ cacheList' = <<>>
  /\ map' = [k \in Keys |-> NoObj]
  /\ memory' = Reclaim(cacheList', held)
  /\ recent' = <<>>
  /\ UNCHANGED <<mPath, held, want>>

(* The handler's frame is destroyed, and with it its shared_ptr.           *)
Release(c) ==
  /\ held[c] # NoObj
  /\ held' = [held EXCEPT ![c] = NoObj]
  /\ memory' = Reclaim(cacheList, held')
  /\ UNCHANGED <<cacheList, map, mPath, want, recent>>

(* What an object owns after map(): a mapping, nothing because the file is *)
(* empty, or nothing because mmap failed.                                  *)
Built == {"mapped", "empty", "unmapped"}

Next ==
  \/ \E c \in Clients, k \in Keys :
       \/ GetHit(c, k) \/ GetFails(c, k)
       \/ \E o \in Objects, m \in Built : GetMiss(c, k, o, m)
  \/ \E c \in Clients : Release(c)
  \/ refresh

Spec == Init /\ [][Next]_vars

-----------------------------------------------------------------------------
(* Type invariant; the list is never longer than the capacity.             *)
TypeOK ==
  /\ cacheList \in Seq(Objects)
  /\ Len(cacheList) <= Capacity
  /\ map \in [Keys -> Objects \cup {NoObj}]
  /\ mPath \in [Objects -> Keys]
  /\ memory \in [Objects -> Built \cup {"free"}]
  /\ held \in [Clients -> Objects \cup {NoObj}]
  /\ want \in [Clients -> Keys]
  /\ recent \in Seq(Keys)

(* The map's iterators (Lru.hpp:132) point to nodes of the list that hold  *)
(* a live object built for that key, and every node is reached from the    *)
(* map, although put erases by the evicted object's own path.              *)
MapListAgree ==
  /\ \A k \in Keys : Cached(k) =>
       /\ \E i \in 1..Len(cacheList) : cacheList[i] = map[k]
       /\ mPath[map[k]] = k
  /\ \A i \in 1..Len(cacheList) :
       map[mPath[cacheList[i]]] = cacheList[i] /\ memory[cacheList[i]] # "free"

(* Least recently used: the cache holds exactly the most recently got keys *)
(* that fit, in that order, whatever was evicted, failed to build or was   *)
(* got again after eviction.                                               *)
LruOrder ==
  /\ Len(cacheList) = IF Len(recent) <= Capacity THEN Len(recent) ELSE Capacity
  /\ \A i \in 1..Len(cacheList) : mPath[cacheList[i]] = recent[i]

(* The file a response handler sends is the one it asked for, and stays    *)
(* mapped and open after other handlers have evicted it or refreshed.      *)
ServesRequested ==
  \A c \in Clients : held[c] # NoObj =>
    mPath[held[c]] = want[c] /\ memory[held[c]] # "free"

(* "own the file and mmap memory" (FileCache.hpp:12): a cached file that   *)
(* is not empty is mapped.                                                 *)
CachedIsMapped ==
  \A i \in 1..Len(cacheList) : memory[cacheList[i]] # "unmapped"
=============================================================================
