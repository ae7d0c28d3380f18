----------------------------- MODULE StoreCache -----------------------------
(***************************************************************************)
(* CachedStore, src/cloud/resolver/src/cached_store.rs, in front of a store of *)
(* the same process: an LRU cache and a negative cache with a deadline.  Reads *)
(* run concurrently under the service's read lock and look at the store        *)
(* between two holds of the cache's own lock; writes exclude the reads.        *)
(***************************************************************************)
EXTENDS Integers, FiniteSets

CONSTANTS
  CacheAddrs, Readers,
  MaxEntries, NegativeTtl,      \* CacheConfig
  EntryTtl,                     \* time to live of an entry
  MaxCacheTime, MaxWrites       \* bounds

ASSUME StoreCacheAssumption ==
  /\ MaxEntries \in Nat \ {0} /\ {NegativeTtl, EntryTtl} \subseteq Nat
  /\ IsFiniteSet(CacheAddrs)

VARIABLES
  inner,       \* the store: entry numbers with their deadlines, NoRow when absent
  lru,         \* lru[a]: the cached row of a and its rank, 1 the most recently used, 0 not cached
  negative,    \* deadlines of the remembered absences, 0 when there is none
  reader,      \* a get in progress: [addr, pc, row]
  answer,      \* history: what the last get of a reader returned, and what it should have
  cacheNow, writes

cacheVars == <<inner, lru, negative, reader, answer, cacheNow, writes>>

NoRow == [no |-> 0, due |-> 0]
Absent == [rank |-> 0, row |-> NoRow]
IdleReader == [addr |-> "none", pc |-> "idle", row |-> NoRow]

CacheInit ==
  /\ inner = [a \in CacheAddrs |-> NoRow] /\ lru = [a \in CacheAddrs |-> Absent]
  /\ negative = [a \in CacheAddrs |-> 0]
  /\ reader = [r \in Readers |-> IdleReader] /\ answer = [r \in Readers |-> TRUE]
  /\ cacheNow = 0 /\ writes = 0

Cached(a) == lru[a].rank # 0

(* Used since a was, so that a coming to the front pushes it back. *)
AheadOf(a, b) == Cached(b) /\ (Cached(a) => lru[b].rank < lru[a].rank)

(* LruCache::put: to the front, the least recently used one falls off the end *)
PutFront(a, row) ==
  [b \in CacheAddrs |->
     IF b = a THEN [rank |-> 1, row |-> row]
     ELSE IF ~AheadOf(a, b) THEN lru[b]
     ELSE IF lru[b].rank = MaxEntries THEN Absent
     ELSE [rank |-> lru[b].rank + 1, row |-> lru[b].row]]

(* LruCache::pop of all but these: their order stays *)
Keeping(kept) ==
  [b \in CacheAddrs |->
     IF b \in kept
       THEN [rank |-> Cardinality({c \in kept : lru[c].rank <= lru[b].rank}), row |-> lru[b].row]
       ELSE Absent]

NoReader == \A r \in Readers : reader[r].pc = "idle"
Return(r, right) ==
  /\ reader' = [reader EXCEPT ![r] = IdleReader]
  /\ answer' = [answer EXCEPT ![r] = right]

(* get, first hold of the lock: a hit, a remembered absence, or a miss *)
GetHit(r, a) ==
  /\ reader[r].pc = "idle" /\ Cached(a)
  /\ lru' = PutFront(a, lru[a].row)
  /\ Return(r, lru[a].row = inner[a])
  /\ UNCHANGED <<inner, negative, cacheNow, writes>>

GetNegative(r, a) ==
  /\ reader[r].pc = "idle" /\ ~Cached(a) /\ negative[a] > cacheNow
  /\ Return(r, inner[a] = NoRow)
  /\ UNCHANGED <<inner, lru, negative, cacheNow, writes>>

GetMiss(r, a) ==
  /\ reader[r].pc = "idle" /\ ~Cached(a) /\ negative[a] <= cacheNow
  /\ negative' = [negative EXCEPT ![a] = 0]
  /\ reader' = [reader EXCEPT ![r] = [addr |-> a, pc |-> "inner", row |-> NoRow]]
  /\ UNCHANGED <<inner, lru, answer, cacheNow, writes>>

GetInner(r) ==
  /\ reader[r].pc = "inner"
  /\ reader' = [reader EXCEPT ![r].pc = "fill", ![r].row = inner[reader[r].addr]]
  /\ UNCHANGED <<inner, lru, negative, answer, cacheNow, writes>>

(* second hold: fill whichever cache the answer belongs to *)
GetFill(r) ==
  LET a == reader[r].addr
      row == reader[r].row
  IN /\ reader[r].pc = "fill"
     /\ lru' = IF row # NoRow THEN PutFront(a, row) ELSE lru
     /\ negative' = IF row = NoRow THEN [negative EXCEPT ![a] = cacheNow + NegativeTtl] ELSE negative
     /\ Return(r, row = inner[a])
     /\ UNCHANGED <<inner, cacheNow, writes>>

(* Mutant of CacheInsert: the remembered absence is left. *)
CacheInsertKeepsNegative(a) ==
  LET row == [no |-> writes + 1, due |-> cacheNow + EntryTtl]
  IN /\ NoReader /\ writes < MaxWrites
     /\ inner' = [inner EXCEPT ![a] = row]
     /\ lru' = PutFront(a, row) /\ UNCHANGED negative
     /\ writes' = writes + 1
     /\ UNCHANGED <<reader, answer, cacheNow>>

(* insert writes through, under the write lock *)
CacheInsert(a) ==
  LET row == [no |-> writes + 1, due |-> cacheNow + EntryTtl]
  IN /\ NoReader /\ writes < MaxWrites
     /\ inner' = [inner EXCEPT ![a] = row]
     /\ lru' = PutFront(a, row) /\ negative' = [negative EXCEPT ![a] = 0]
     /\ writes' = writes + 1
     /\ UNCHANGED <<reader, answer, cacheNow>>

(* sweep_expired: the store, the cache and the absences by the same clock *)
CacheSweep ==
  /\ NoReader
  /\ inner' = [a \in CacheAddrs |-> IF inner[a].due <= cacheNow THEN NoRow ELSE inner[a]]
  /\ lru' = Keeping({a \in CacheAddrs : Cached(a) /\ lru[a].row.due > cacheNow})
  /\ negative' = [a \in CacheAddrs |-> IF negative[a] > cacheNow THEN negative[a] ELSE 0]
  /\ UNCHANGED <<reader, answer, cacheNow, writes>>

CacheTick == cacheNow < MaxCacheTime /\ cacheNow' = cacheNow + 1
             /\ UNCHANGED <<inner, lru, negative, reader, answer, writes>>

CacheNext ==
  \/ \E r \in Readers : GetInner(r) \/ GetFill(r) \/ \E a \in CacheAddrs : GetHit(r, a) \/ GetNegative(r, a) \/ GetMiss(r, a)
  \/ \E a \in CacheAddrs : CacheInsert(a)
  \/ CacheSweep \/ CacheTick

CacheSpec == CacheInit /\ [][CacheNext]_cacheVars

-----------------------------------------------------------------------------
(* At most MaxEntries rows, each with a rank of its own. *)
CacheTypeOK ==
  /\ \A a \in CacheAddrs : lru[a].rank \in 0 .. MaxEntries
  /\ \A a, b \in CacheAddrs : Cached(a) /\ Cached(b) /\ a # b => lru[a].rank # lru[b].rank

(* Every get answers what the store holds: no eviction, remembered absence, sweep *)
(* or concurrent fill makes the cache say otherwise.                              *)
CacheFaithful == \A r \in Readers : answer[r]
=============================================================================
