---------------------------- MODULE ServicesProofs ----------------------------
(***************************************************************************)
(* Proofs about the cloud services, each on its own: the zone server, the  *)
(* store's cache, the resolver and the agent naming service, for every set *)
(* of addresses, keys and parties and every time to live; and the hash     *)
(* ring of the routing core, for every ring its fingers can serve.         *)
(***************************************************************************)
EXTENDS Resolver, StoreCache, Zone, Ans, Chord, NatLemmas, FiniteSetTheorems, FunctionTheorems

-----------------------------------------------------------------------------
(* Zone server: who holds an address under the anchor in force. *)

ZoneShape ==
  /\ records \in [ZoneAddrs -> ZoneKeys \cup {"none"}] /\ anchor \in Nat /\ seeded \in BOOLEAN
  /\ \A c \in certs : c.addr \in ZoneAddrs /\ c.key \in ZoneKeys /\ c.anchor \in 0 .. anchor
  /\ \A t \in tokens : t.sub \in ZoneAddrs /\ t.to \in Parties /\ t.anchor \in 0 .. anchor

(* A certificate or token of this anchor names the party the record names.  *)
BoundByRecord ==
  /\ \A c \in certs : c.anchor = anchor =>
       records[c.addr] # "none" /\ OwnerOf(c.key) = OwnerOf(records[c.addr])
  /\ \A t \in tokens : t.anchor = anchor =>
       records[t.sub] # "none" /\ t.to = OwnerOf(records[t.sub])

ZoneInv == ZoneShape /\ OneHolderPerAnchor /\ (~seeded => BoundByRecord)

\* A key has one owner, the party that made it.
LEMMA OwnerIsMaker ==
  ASSUME NEW p \in Parties, NEW k \in KeysOf[p]
  PROVE  OwnerOf(k) = p /\ k \in ZoneKeys /\ k # "none"
BY ZoneAssumption, NoKeyAssumption DEF OwnerOf, ZoneKeys

\* A certificate for a key of the party the address belongs to, or for a free
\* address, keeps the holders one.
LEMMA IssuesToHolder ==
  ASSUME ZoneInv, NEW a \in ZoneAddrs, NEW p \in Parties, NEW k \in KeysOf[p], Issue(a, k),
         records' = [records EXCEPT ![a] = k], UNCHANGED <<anchor, seeded>>,
         ~seeded => records[a] = "none" \/ OwnerOf(records[a]) = p,
         \A t \in tokens' : t \in tokens \/ (t.sub = a /\ t.to = p /\ t.anchor = anchor)
  PROVE  ZoneInv'
<1>. DEFINE d == [addr |-> a, key |-> k, not_after |-> zoneNow + CertTtl, anchor |-> anchor]
<1>1. OwnerOf(k) = p /\ k \in ZoneKeys /\ k # "none"
  BY OwnerIsMaker
<1>2. certs' = certs \cup {d}
  BY DEF Issue
<1>3. d.addr = a /\ d.key = k /\ d.anchor = anchor
  OBVIOUS
<1>. HIDE DEF d
<1>4. ZoneShape'
  BY <1>1, <1>2, <1>3 DEF ZoneInv, ZoneShape
<1>5. ASSUME ~seeded
      PROVE  BoundByRecord'
  <2>1. ASSUME NEW c \in certs', c.anchor = anchor
        PROVE  records'[c.addr] # "none" /\ OwnerOf(c.key) = OwnerOf(records'[c.addr])
    BY <1>1, <1>2, <1>3, <1>5, <2>1 DEF ZoneInv, ZoneShape, BoundByRecord
  <2>2. ASSUME NEW t \in tokens', t.anchor = anchor
        PROVE  records'[t.sub] # "none" /\ t.to = OwnerOf(records'[t.sub])
    BY <1>1, <1>5, <2>2 DEF ZoneInv, ZoneShape, BoundByRecord
  <2>. QED BY <2>1, <2>2 DEF BoundByRecord
<1>6. ASSUME ~seeded, NEW c \in certs, c.addr = a, c.anchor = anchor
      PROVE  OwnerOf(c.key) = p
  BY <1>6 DEF ZoneInv, BoundByRecord
<1>7. OneHolderPerAnchor'
  BY <1>1, <1>2, <1>3, <1>6 DEF ZoneInv, OneHolderPerAnchor
<1>. QED BY <1>4, <1>5, <1>7 DEF ZoneInv

LEMMA ZoneInitInv == ZoneInit => ZoneInv
BY DEF ZoneInit, ZoneInv, ZoneShape, BoundByRecord, OneHolderPerAnchor

LEMMA ZoneNextInv == ZoneInv /\ [ZoneNext]_zoneVars => ZoneInv'
<1>. SUFFICES ASSUME ZoneInv, [ZoneNext]_zoneVars PROVE ZoneInv'
  OBVIOUS
<1>1. ASSUME NEW p \in Parties, NEW a \in ZoneAddrs, NEW k \in ZoneKeys, ZoneRegister(p, a, k)
      PROVE  ZoneInv'
  <2>1. k \in KeysOf[p] /\ OwnerOf(k) = p
    BY <1>1, OwnerIsMaker DEF ZoneRegister
  <2>2. records[a] = "none" \/ OwnerOf(records[a]) = p
    BY <1>1, <2>1 DEF ZoneRegister, Registers
  <2>3. \A t \in tokens' : t \in tokens \/ (t.sub = a /\ t.to = p /\ t.anchor = anchor)
    BY <1>1 DEF ZoneRegister
  <2>. QED BY <1>1, <2>1, <2>2, <2>3, IssuesToHolder DEF ZoneRegister
<1>2. ASSUME NEW p \in Parties, NEW t \in tokens, NEW k \in ZoneKeys, RotateKey(p, t, k)
      PROVE  ZoneInv'
  <2>1. k \in KeysOf[p] /\ t.sub \in ZoneAddrs /\ t.to = p /\ t.anchor = anchor
    BY <1>2 DEF RotateKey, VerifyToken, ZoneInv, ZoneShape
  <2>2. ~seeded => OwnerOf(records[t.sub]) = p
    BY <2>1 DEF ZoneInv, BoundByRecord
  <2>. QED BY <1>2, <2>1, <2>2, IssuesToHolder DEF RotateKey
<1>3. CASE ZoneRestart
  <2>1. anchor' \in Nat /\ anchor <= anchor' /\ (~seeded => anchor < anchor')
    BY <1>3 DEF ZoneRestart, ZoneInv, ZoneShape
  <2>2. ZoneShape'
    BY <1>3, <2>1 DEF ZoneRestart, ZoneInv, ZoneShape
  <2>3. ~seeded => BoundByRecord'
    BY <1>3, <2>1 DEF ZoneRestart, ZoneInv, ZoneShape, BoundByRecord
  <2>. QED BY <1>3, <2>2, <2>3 DEF ZoneRestart, ZoneInv, OneHolderPerAnchor
<1>4. CASE ZoneTick \/ UNCHANGED zoneVars
  BY <1>4 DEF ZoneTick, zoneVars, ZoneInv, ZoneShape, BoundByRecord, OneHolderPerAnchor
<1>. QED BY <1>1, <1>2, <1>3, <1>4 DEF ZoneNext

\* "The registration interface is no channel for replacing keys": with generated
\* seeds no two parties ever hold certificates of one anchor for one address,
\* through any registrations, renewals, rotations and restarts.
THEOREM OneHolder == ZoneSpec => []OneHolderPerAnchor
<1>1. ZoneInv => OneHolderPerAnchor
  BY DEF ZoneInv
<1>. QED BY <1>1, ZoneInitInv, ZoneNextInv, PTL DEF ZoneSpec

-----------------------------------------------------------------------------
(* The store's cache. *)

Rows == [no : Nat, due : Nat]

CacheShape ==
  /\ inner \in [CacheAddrs -> Rows] /\ negative \in [CacheAddrs -> Nat]
  /\ lru \in [CacheAddrs -> [rank : 0 .. MaxEntries, row : Rows]]
  /\ cacheNow \in Nat /\ writes \in Nat
  /\ DOMAIN reader = Readers /\ answer \in [Readers -> BOOLEAN]

RanksApart ==
  \A a, b \in CacheAddrs : Cached(a) /\ Cached(b) /\ a # b => lru[a].rank # lru[b].rank

(* What the caches say is what the store holds, and so is what a get that is  *)
(* about to fill them has read: no write comes between its two holds.        *)
CacheTrue ==
  /\ \A a \in CacheAddrs : Cached(a) => lru[a].row = inner[a]
  /\ \A a \in CacheAddrs : negative[a] > cacheNow => inner[a] = NoRow
  /\ \A r \in Readers :
       /\ reader[r].pc # "idle" => reader[r].addr \in CacheAddrs
       /\ reader[r].pc = "fill" => reader[r].row = inner[reader[r].addr]

CacheInv == CacheShape /\ RanksApart /\ CacheTrue /\ CacheFaithful

\* A row put in front: the ranks stay apart and within the limit.
LEMMA PutsFront ==
  ASSUME CacheShape, RanksApart, NEW a \in CacheAddrs, NEW row \in Rows, lru' = PutFront(a, row)
  PROVE  /\ lru' \in [CacheAddrs -> [rank : 0 .. MaxEntries, row : Rows]] /\ RanksApart'
         /\ lru'[a].row = row
         /\ \A b \in CacheAddrs \ {a} : Cached(b)' => Cached(b) /\ lru'[b].row = lru[b].row
<1>. DEFINE R == [rank : 0 .. MaxEntries, row : Rows]
<1>1. /\ MaxEntries \in Nat \ {0} /\ NoRow \in Rows
      /\ \A b \in CacheAddrs : lru[b] \in R /\ lru[b].rank \in 0 .. MaxEntries /\ lru[b].row \in Rows
  BY StoreCacheAssumption DEF CacheShape, Rows, NoRow
<1>2. lru'[a] = [rank |-> 1, row |-> row] /\ DOMAIN lru' = CacheAddrs
  BY DEF PutFront
<1>3. ASSUME NEW b \in CacheAddrs \ {a}
      PROVE  \/ ~AheadOf(a, b) /\ lru'[b] = lru[b]
             \/ AheadOf(a, b) /\ lru[b].rank = MaxEntries /\ lru'[b] = Absent
             \/ /\ AheadOf(a, b) /\ lru[b].rank # MaxEntries
                /\ lru'[b] = [rank |-> lru[b].rank + 1, row |-> lru[b].row]
  BY DEF PutFront
<1>4. ASSUME NEW b \in CacheAddrs
      PROVE  lru'[b] \in R
  <2>1. CASE b = a
    BY <1>1, <1>2, <2>1
  <2>2. CASE lru'[b] = lru[b] \/ lru'[b] = Absent
    BY <1>1, <2>2 DEF Absent
  <2>3. CASE lru[b].rank # MaxEntries /\ lru'[b] = [rank |-> lru[b].rank + 1, row |-> lru[b].row]
    <3>1. lru[b].rank + 1 \in 0 .. MaxEntries
      BY <1>1, <2>3
    <3>. QED BY <1>1, <2>3, <3>1
  <2>. QED BY <1>3, <2>1, <2>2, <2>3
<1>5. lru' = [b \in CacheAddrs |-> lru'[b]]
  BY DEF PutFront
<1>6. lru' \in [CacheAddrs -> R]
  BY <1>4, <1>5
<1>7. ASSUME NEW b \in CacheAddrs \ {a}, Cached(b)'
      PROVE  /\ Cached(b) /\ lru'[b].row = lru[b].row /\ lru'[b].rank # 1
             /\ lru'[b].rank = IF AheadOf(a, b) THEN lru[b].rank + 1 ELSE lru[b].rank
             /\ ~AheadOf(a, b) => Cached(a) /\ lru[a].rank < lru[b].rank
  <2>1. lru'[b].rank # 0
    BY <1>7 DEF Cached
  <2>2. lru[b].rank \in Nat /\ lru[a].rank \in Nat
    BY <1>1
  <2>3. CASE ~AheadOf(a, b)
    <3>1. lru'[b] = lru[b] /\ Cached(b)
      BY <1>3, <2>1, <2>3 DEF Cached
    <3>2. Cached(a) /\ lru[a].rank # 0 /\ ~(lru[b].rank < lru[a].rank)
      BY <2>3, <3>1 DEF AheadOf, Cached
    <3>3. lru[a].rank < lru[b].rank
      BY <2>2, <3>1, <3>2 DEF RanksApart
    <3>. QED BY <2>2, <2>3, <3>1, <3>2, <3>3
  <2>4. CASE AheadOf(a, b)
    <3>1. lru'[b] = [rank |-> lru[b].rank + 1, row |-> lru[b].row]
      BY <1>3, <2>1, <2>4 DEF Absent
    <3>2. Cached(b) /\ lru[b].rank # 0
      BY <2>4 DEF AheadOf, Cached
    <3>. QED BY <2>2, <2>4, <3>1, <3>2
  <2>. QED BY <2>3, <2>4
<1>8. ASSUME NEW b \in CacheAddrs, NEW c \in CacheAddrs, Cached(b)', Cached(c)', b # c
      PROVE  lru'[b].rank # lru'[c].rank
  <2>1. CASE b = a \/ c = a
    BY <1>2, <1>7, <1>8, <2>1
  <2>2. CASE b # a /\ c # a
    <3>1. lru[b].rank \in Nat /\ lru[c].rank \in Nat /\ lru[a].rank \in Nat
      BY <1>1
    <3>2. lru[b].rank # lru[c].rank
      BY <1>7, <1>8, <2>2 DEF RanksApart
    <3>3. /\ AheadOf(a, b) /\ ~AheadOf(a, c) => lru[b].rank < lru[a].rank
          /\ AheadOf(a, c) /\ ~AheadOf(a, b) => lru[c].rank < lru[a].rank
      BY <1>7, <1>8, <2>2 DEF AheadOf
    <3>4. /\ ~AheadOf(a, b) => lru[a].rank < lru[b].rank
          /\ ~AheadOf(a, c) => lru[a].rank < lru[c].rank
      BY <1>7, <1>8, <2>2
    <3>5. /\ lru'[b].rank = IF AheadOf(a, b) THEN lru[b].rank + 1 ELSE lru[b].rank
          /\ lru'[c].rank = IF AheadOf(a, c) THEN lru[c].rank + 1 ELSE lru[c].rank
      BY <1>7, <1>8, <2>2
    <3>. QED BY <3>1, <3>2, <3>3, <3>4, <3>5
  <2>. QED BY <2>1, <2>2
<1>9. RanksApart'
  BY <1>8 DEF RanksApart
<1>. QED BY <1>2, <1>6, <1>7, <1>9

\* Popping some rows: the others keep their order, in ranks without gaps.
LEMMA KeepsOrder ==
  ASSUME CacheShape, RanksApart, NEW kept \in SUBSET {a \in CacheAddrs : Cached(a)},
         lru' = Keeping(kept)
  PROVE  /\ lru' \in [CacheAddrs -> [rank : 0 .. MaxEntries, row : Rows]] /\ RanksApart'
         /\ \A b \in CacheAddrs : Cached(b)' => b \in kept /\ lru'[b].row = lru[b].row
<1>. DEFINE Up(b) == {c \in kept : lru[c].rank <= lru[b].rank}
            n(b) == Cardinality(Up(b))
<1>1. /\ IsFiniteSet(kept) /\ NoRow \in Rows /\ MaxEntries \in Nat
      /\ \A b \in CacheAddrs : lru[b].rank \in 0 .. MaxEntries /\ lru[b].row \in Rows
  BY StoreCacheAssumption, FS_Subset DEF CacheShape, Rows, NoRow
<1>2. ASSUME NEW b \in CacheAddrs
      PROVE  IsFiniteSet(Up(b)) /\ n(b) \in Nat
  BY <1>1, FS_Subset, FS_CardinalityType
<1>3. ASSUME NEW b \in kept
      PROVE  n(b) \in 1 .. MaxEntries
  <2>1. b \in Up(b)
    BY <1>1
  <2>2. n(b) # 0
    BY <1>2, <2>1, FS_EmptySet
  <2>. DEFINE r == lru[b].rank
              f == [c \in Up(b) |-> lru[c].rank]
  <2>3. r \in 0 .. MaxEntries
    BY <1>1
  <2>4. f \in Injection(Up(b), 1 .. r)
    <3>1. \A c \in Up(b) : lru[c].rank \in 1 .. r
      BY <1>1, <2>3 DEF Cached
    <3>2. \A c, d \in Up(b) : f[c] = f[d] => c = d
      BY DEF RanksApart
    <3>. QED BY <3>1, <3>2, Fun_IsInj
  <2>5. IsFiniteSet(1 .. r) /\ Cardinality(1 .. r) = r
    <3>1. ASSUME NEW j \in Nat
          PROVE  IsFiniteSet(1 .. j) /\ Cardinality(1 .. j) = j
      BY FS_Interval
    <3>. QED BY <2>3, <3>1
  <2>6. n(b) <= r
    BY <2>4, <2>5, FS_Injection
  <2>7. n(b) \in Nat
    BY <1>2
  <2>. HIDE DEF n, r
  <2>. QED BY <1>1, <2>2, <2>3, <2>6, <2>7
<1>4. ASSUME NEW b \in kept, NEW c \in kept, lru[b].rank < lru[c].rank
      PROVE  n(b) # n(c)
  <2>1. Up(b) \subseteq Up(c)
    BY <1>1, <1>4
  <2>2. c \in Up(c) /\ c \notin Up(b)
    BY <1>1, <1>4
  <2>. QED BY <1>2, <2>1, <2>2, FS_Subset
<1>5. lru' = [b \in CacheAddrs |-> IF b \in kept THEN [rank |-> n(b), row |-> lru[b].row]
                                   ELSE Absent]
  BY DEF Keeping
<1>. HIDE DEF n, Up
<1>6. ASSUME NEW b \in CacheAddrs
      PROVE  /\ b \in kept => lru'[b].rank = n(b) /\ lru'[b].row = lru[b].row
             /\ b \notin kept => lru'[b].rank = 0
  <2>1. lru'[b] = IF b \in kept THEN [rank |-> n(b), row |-> lru[b].row] ELSE Absent
    BY <1>5
  <2>2. Absent.rank = 0
    BY DEF Absent
  <2>3. CASE b \in kept
    <3>1. lru'[b] = [rank |-> n(b), row |-> lru[b].row]
      BY <2>1, <2>3
    <3>. QED BY <2>3, <3>1
  <2>4. CASE b \notin kept
    BY <2>1, <2>2, <2>4
  <2>. QED BY <2>3, <2>4
<1>7. lru' \in [CacheAddrs -> [rank : 0 .. MaxEntries, row : Rows]]
  <2>1. \A b \in kept : [rank |-> n(b), row |-> lru[b].row] \in [rank : 0 .. MaxEntries, row : Rows]
    BY <1>1, <1>3
  <2>2. Absent \in [rank : 0 .. MaxEntries, row : Rows]
    BY <1>1 DEF Absent
  <2>. QED BY <1>5, <2>1, <2>2
<1>8. \A b \in CacheAddrs : Cached(b)' => b \in kept /\ lru'[b].row = lru[b].row
  BY <1>6 DEF Cached
<1>9. ASSUME NEW b \in CacheAddrs, NEW c \in CacheAddrs, Cached(b)', Cached(c)', b # c
      PROVE  lru'[b].rank # lru'[c].rank
  <2>1. b \in kept /\ c \in kept /\ lru'[b].rank = n(b) /\ lru'[c].rank = n(c)
    <3>1. b \in kept /\ c \in kept
      BY <1>8, <1>9
    <3>. QED BY <1>6, <3>1
  <2>2. lru[b].rank # lru[c].rank
    BY <1>9, <2>1 DEF RanksApart
  <2>3. lru[b].rank < lru[c].rank \/ lru[c].rank < lru[b].rank
    BY <1>1, <2>2
  <2>. QED BY <1>4, <2>1, <2>3
<1>. QED BY <1>7, <1>8, <1>9 DEF RanksApart

\* Putting a row that is the store's own in front.
LEMMA PutsTrue ==
  ASSUME CacheInv, NEW a \in CacheAddrs, NEW row \in Rows, lru' = PutFront(a, row),
         inner'[a] = row, \A b \in CacheAddrs \ {a} : inner'[b] = inner[b]
  PROVE  /\ lru' \in [CacheAddrs -> [rank : 0 .. MaxEntries, row : Rows]] /\ RanksApart'
         /\ \A b \in CacheAddrs : Cached(b)' => lru'[b].row = inner'[b]
BY PutsFront DEF CacheInv, CacheTrue

\* A get that ends with the right answer.
LEMMA Returns ==
  ASSUME CacheInv, NEW r \in Readers, NEW right, right = TRUE, Return(r, right),
         UNCHANGED inner
  PROVE  /\ DOMAIN reader' = Readers /\ answer' \in [Readers -> BOOLEAN] /\ CacheFaithful'
         /\ \A q \in Readers :
              /\ reader'[q].pc # "idle" => reader'[q].addr \in CacheAddrs
              /\ reader'[q].pc = "fill" => reader'[q].row = inner'[reader'[q].addr]
<1>1. answer \in [Readers -> BOOLEAN] /\ DOMAIN reader = Readers /\ \A q \in Readers : answer[q] = TRUE
  BY DEF CacheInv, CacheShape, CacheFaithful
<1>2. answer' = [answer EXCEPT ![r] = right] /\ reader' = [reader EXCEPT ![r] = IdleReader]
  BY DEF Return
<1>3. answer' \in [Readers -> BOOLEAN] /\ \A q \in Readers : answer'[q] = TRUE
  BY <1>1, <1>2
<1>4. ASSUME NEW q \in Readers
      PROVE  /\ reader'[q].pc # "idle" => reader'[q].addr \in CacheAddrs
             /\ reader'[q].pc = "fill" => reader'[q].row = inner'[reader'[q].addr]
  <2>1. CASE q = r
    BY <1>1, <1>2, <2>1 DEF IdleReader
  <2>2. CASE q # r
    BY <1>1, <1>2, <2>2 DEF CacheInv, CacheTrue
  <2>. QED BY <2>1, <2>2
<1>. QED BY <1>1, <1>2, <1>3, <1>4 DEF CacheFaithful

LEMMA GetsPreserve ==
  ASSUME CacheInv, NEW r \in Readers, NEW a \in CacheAddrs,
         GetHit(r, a) \/ GetNegative(r, a) \/ GetMiss(r, a) \/ GetInner(r) \/ GetFill(r)
  PROVE  CacheInv'
<1>1. /\ CacheShape /\ RanksApart /\ CacheTrue /\ CacheFaithful
      /\ \A b \in CacheAddrs : lru[b].row \in Rows /\ inner[b] \in Rows /\ negative[b] \in Nat
      /\ cacheNow \in Nat /\ NegativeTtl \in Nat
  BY StoreCacheAssumption DEF CacheInv, CacheShape
<1>2. UNCHANGED <<inner, cacheNow, writes>>
  BY DEF GetHit, GetNegative, GetMiss, GetInner, GetFill
<1>3. CASE GetHit(r, a)
  <2>1. lru[a].row = inner[a] /\ negative' = negative
    BY <1>1, <1>3 DEF GetHit, CacheTrue
  <2>2. /\ lru' \in [CacheAddrs -> [rank : 0 .. MaxEntries, row : Rows]] /\ RanksApart'
        /\ \A b \in CacheAddrs : Cached(b)' => lru'[b].row = inner'[b]
    BY <1>1, <1>2, <1>3, <2>1, PutsTrue DEF GetHit
  <2>3. /\ DOMAIN reader' = Readers /\ answer' \in [Readers -> BOOLEAN] /\ CacheFaithful'
        /\ \A q \in Readers :
             /\ reader'[q].pc # "idle" => reader'[q].addr \in CacheAddrs
             /\ reader'[q].pc = "fill" => reader'[q].row = inner'[reader'[q].addr]
    <3>1. (lru[a].row = inner[a]) = TRUE
      BY <2>1
    <3>2. Return(r, lru[a].row = inner[a])
      BY <1>3 DEF GetHit
    <3>. QED BY <1>2, <3>1, <3>2, Returns
  <2>. QED BY <1>1, <1>2, <2>1, <2>2, <2>3 DEF CacheInv, CacheShape, CacheTrue
<1>4. CASE GetNegative(r, a)
  <2>1. UNCHANGED <<lru, negative>>
    BY <1>4 DEF GetNegative
  <2>2. /\ DOMAIN reader' = Readers /\ answer' \in [Readers -> BOOLEAN] /\ CacheFaithful'
        /\ \A q \in Readers :
             /\ reader'[q].pc # "idle" => reader'[q].addr \in CacheAddrs
             /\ reader'[q].pc = "fill" => reader'[q].row = inner'[reader'[q].addr]
    <3>1. (inner[a] = NoRow) = TRUE
      BY <1>1, <1>4 DEF GetNegative, CacheTrue
    <3>2. Return(r, inner[a] = NoRow)
      BY <1>4 DEF GetNegative
    <3>. QED BY <1>2, <3>1, <3>2, Returns
  <2>. QED BY <1>1, <1>2, <2>1, <2>2 DEF CacheInv, CacheShape, CacheTrue, RanksApart, Cached
<1>5. CASE GetMiss(r, a)
  <2>1. UNCHANGED <<lru, answer>> /\ negative' = [negative EXCEPT ![a] = 0]
    BY <1>5 DEF GetMiss
  <2>2. ASSUME NEW q \in Readers
        PROVE  /\ reader'[q].pc # "idle" => reader'[q].addr \in CacheAddrs
               /\ reader'[q].pc = "fill" => reader'[q].row = inner'[reader'[q].addr]
    BY <1>1, <1>2, <1>5 DEF GetMiss, CacheShape, CacheTrue
  <2>3. negative' \in [CacheAddrs -> Nat] /\ DOMAIN reader' = Readers
    BY <1>1, <1>5, <2>1 DEF CacheShape, GetMiss
  <2>4. \A b \in CacheAddrs : negative'[b] > cacheNow => inner[b] = NoRow
    BY <1>1, <2>1 DEF CacheShape, CacheTrue
  <2>. QED BY <1>1, <1>2, <2>1, <2>2, <2>3, <2>4
       DEF CacheInv, CacheShape, CacheTrue, CacheFaithful, RanksApart, Cached
<1>6. CASE GetInner(r)
  <2>1. UNCHANGED <<lru, answer, negative>>
    BY <1>6 DEF GetInner
  <2>2. ASSUME NEW q \in Readers
        PROVE  /\ reader'[q].pc # "idle" => reader'[q].addr \in CacheAddrs
               /\ reader'[q].pc = "fill" => reader'[q].row = inner'[reader'[q].addr]
    <3>1. CASE q # r
      BY <1>1, <1>2, <1>6, <3>1 DEF GetInner, CacheShape, CacheTrue
    <3>2. CASE q = r
      <4>1. reader[r].addr \in CacheAddrs
        BY <1>1, <1>6 DEF GetInner, CacheTrue
      <4>2. reader'[r].addr = reader[r].addr
        BY <1>1, <1>6 DEF GetInner, CacheShape
      <4>3. reader'[r].pc = "fill" => reader'[r].row = inner[reader[r].addr]
        BY <1>1, <1>6 DEF GetInner, CacheShape
      <4>. QED BY <1>2, <3>2, <4>1, <4>2, <4>3
    <3>. QED BY <3>1, <3>2
  <2>3. DOMAIN reader' = Readers
    BY <1>1, <1>6 DEF CacheShape, GetInner
  <2>. QED BY <1>1, <1>2, <2>1, <2>2, <2>3
       DEF CacheInv, CacheShape, CacheTrue, CacheFaithful, RanksApart, Cached
<1>7. CASE GetFill(r)
  <2>. DEFINE b == reader[r].addr
              row == reader[r].row
  <2>1. b \in CacheAddrs /\ row = inner[b] /\ row \in Rows
    BY <1>1, <1>7 DEF GetFill, CacheTrue
  <2>2. /\ lru' = IF row # NoRow THEN PutFront(b, row) ELSE lru
        /\ negative' = IF row = NoRow THEN [negative EXCEPT ![b] = cacheNow + NegativeTtl]
                       ELSE negative
        /\ Return(r, row = inner[b])
    BY <1>7 DEF GetFill
  <2>. HIDE DEF b, row
  <2>3. /\ lru' \in [CacheAddrs -> [rank : 0 .. MaxEntries, row : Rows]] /\ RanksApart'
        /\ \A c \in CacheAddrs : Cached(c)' => lru'[c].row = inner'[c]
    <3>1. CASE row # NoRow
      BY <1>1, <1>2, <2>1, <2>2, <3>1, PutsTrue
    <3>2. CASE row = NoRow
      BY <1>1, <1>2, <2>2, <3>2 DEF CacheShape, RanksApart, CacheTrue, Cached
    <3>. QED BY <3>1, <3>2
  <2>4. /\ negative' \in [CacheAddrs -> Nat]
        /\ \A c \in CacheAddrs : negative'[c] > cacheNow => inner[c] = NoRow
    <3>1. CASE row # NoRow
      BY <1>1, <2>2, <3>1 DEF CacheShape, CacheTrue
    <3>2. CASE row = NoRow
      <4>1. negative' = [negative EXCEPT ![b] = cacheNow + NegativeTtl]
        BY <2>2, <3>2
      <4>2. cacheNow + NegativeTtl \in Nat /\ inner[b] = NoRow
        BY <1>1, <2>1, <3>2
      <4>3. negative \in [CacheAddrs -> Nat]
        BY <1>1 DEF CacheShape
      <4>4. \A c \in CacheAddrs \ {b} : negative[c] > cacheNow => inner[c] = NoRow
        BY <1>1 DEF CacheTrue
      <4>. QED BY <2>1, <4>1, <4>2, <4>3, <4>4
    <3>. QED BY <3>1, <3>2
  <2>5. /\ DOMAIN reader' = Readers /\ answer' \in [Readers -> BOOLEAN] /\ CacheFaithful'
        /\ \A q \in Readers :
             /\ reader'[q].pc # "idle" => reader'[q].addr \in CacheAddrs
             /\ reader'[q].pc = "fill" => reader'[q].row = inner'[reader'[q].addr]
    <3>1. (row = inner[b]) = TRUE
      BY <2>1
    <3>. QED BY <1>2, <2>2, <3>1, Returns
  <2>. QED BY <1>1, <1>2, <2>3, <2>4, <2>5 DEF CacheInv, CacheShape, CacheTrue
<1>. QED BY <1>3, <1>4, <1>5, <1>6, <1>7

\* insert and sweep_expired, which exclude every get.
LEMMA WritesPreserve ==
  ASSUME CacheInv, CacheSweep \/ \E a \in CacheAddrs : CacheInsert(a)
  PROVE  CacheInv'
<1>1. /\ CacheShape /\ RanksApart /\ CacheTrue /\ CacheFaithful
      /\ \A b \in CacheAddrs : lru[b].row \in Rows /\ inner[b] \in Rows /\ negative[b] \in Nat
      /\ cacheNow \in Nat /\ writes \in Nat /\ EntryTtl \in Nat /\ NoRow \in Rows
  BY StoreCacheAssumption DEF CacheInv, CacheShape, Rows, NoRow
<1>2. UNCHANGED <<reader, answer, cacheNow>> /\ \A r \in Readers : reader[r].pc = "idle"
  BY DEF CacheInsert, CacheSweep, NoReader
<1>3. CASE CacheSweep
  <2>. DEFINE kept == {a \in CacheAddrs : Cached(a) /\ lru[a].row.due > cacheNow}
  <2>1. /\ inner' = [a \in CacheAddrs |-> IF inner[a].due <= cacheNow THEN NoRow ELSE inner[a]]
        /\ negative' = [a \in CacheAddrs |-> IF negative[a] > cacheNow THEN negative[a] ELSE 0]
        /\ lru' = Keeping(kept) /\ writes' = writes
    BY <1>3 DEF CacheSweep
  <2>2. kept \in SUBSET {a \in CacheAddrs : Cached(a)}
    OBVIOUS
  <2>3. /\ lru' \in [CacheAddrs -> [rank : 0 .. MaxEntries, row : Rows]] /\ RanksApart'
        /\ \A b \in CacheAddrs : Cached(b)' => b \in kept /\ lru'[b].row = lru[b].row
    BY <1>1, <2>1, <2>2, KeepsOrder
  <2>4. ASSUME NEW b \in CacheAddrs, Cached(b)'
        PROVE  lru'[b].row = inner'[b]
    <3>1. /\ Cached(b) /\ lru[b].row.due > cacheNow /\ lru'[b].row = lru[b].row
          /\ lru[b].row = inner[b] /\ inner[b].due \in Nat
      BY <1>1, <2>3, <2>4 DEF CacheTrue, Rows
    <3>. QED BY <1>1, <2>1, <3>1
  <2>5. inner' \in [CacheAddrs -> Rows] /\ negative' \in [CacheAddrs -> Nat]
    BY <1>1, <2>1
  <2>6. \A b \in CacheAddrs : negative'[b] > cacheNow => inner'[b] = NoRow
    BY <1>1, <2>1 DEF CacheTrue
  <2>. QED BY <1>1, <1>2, <2>1, <2>3, <2>4, <2>5, <2>6
       DEF CacheInv, CacheShape, CacheTrue, CacheFaithful
<1>4. ASSUME NEW a \in CacheAddrs, CacheInsert(a)
      PROVE  CacheInv'
  <2>. DEFINE row == [no |-> writes + 1, due |-> cacheNow + EntryTtl]
  <2>1. row \in Rows
    BY <1>1 DEF Rows
  <2>2. /\ inner' = [inner EXCEPT ![a] = row] /\ lru' = PutFront(a, row)
        /\ negative' = [negative EXCEPT ![a] = 0] /\ writes' = writes + 1
    BY <1>4 DEF CacheInsert
  <2>. HIDE DEF row
  <2>3. /\ inner' \in [CacheAddrs -> Rows] /\ negative' \in [CacheAddrs -> Nat]
        /\ inner'[a] = row /\ \A b \in CacheAddrs \ {a} : inner'[b] = inner[b]
    BY <1>1, <2>1, <2>2 DEF CacheShape
  <2>4. /\ lru' \in [CacheAddrs -> [rank : 0 .. MaxEntries, row : Rows]] /\ RanksApart'
        /\ \A b \in CacheAddrs : Cached(b)' => lru'[b].row = inner'[b]
    BY <2>1, <2>2, <2>3, PutsTrue
  <2>5. \A b \in CacheAddrs : negative'[b] > cacheNow => inner'[b] = NoRow
    BY <1>1, <2>2, <2>3 DEF CacheShape, CacheTrue
  <2>. QED BY <1>1, <1>2, <2>2, <2>3, <2>4, <2>5
       DEF CacheInv, CacheShape, CacheTrue, CacheFaithful
<1>. QED BY <1>3, <1>4

LEMMA CacheInitInv == CacheInit => CacheInv
<1>. SUFFICES ASSUME CacheInit PROVE CacheInv
  OBVIOUS
<1>1. NoRow \in Rows /\ Absent \in [rank : 0 .. MaxEntries, row : Rows]
  BY StoreCacheAssumption DEF NoRow, Rows, Absent
<1>2. CacheShape
  BY <1>1 DEF CacheInit, CacheShape
<1>3. \A a \in CacheAddrs : ~Cached(a)
  BY DEF CacheInit, Cached, Absent
<1>. QED BY <1>2, <1>3 DEF CacheInit, CacheInv, RanksApart, CacheTrue, CacheFaithful, IdleReader

LEMMA CacheNextInv == CacheInv /\ [CacheNext]_cacheVars => CacheInv'
<1>. SUFFICES ASSUME CacheInv, [CacheNext]_cacheVars PROVE CacheInv'
  OBVIOUS
<1>1. CASE CacheTick
  BY <1>1 DEF CacheTick, CacheInv, CacheShape, RanksApart, CacheTrue, CacheFaithful, Cached
<1>2. CASE UNCHANGED cacheVars
  BY <1>2 DEF cacheVars, CacheInv, CacheShape, RanksApart, CacheTrue, CacheFaithful, Cached
<1>3. ASSUME NEW r \in Readers, GetInner(r) \/ GetFill(r)
      PROVE  CacheInv'
  <2>1. reader[r].addr \in CacheAddrs
    BY <1>3 DEF CacheInv, CacheTrue, GetInner, GetFill
  <2>. QED BY <1>3, <2>1, GetsPreserve
<1>. QED BY <1>1, <1>2, <1>3, GetsPreserve, WritesPreserve DEF CacheNext

\* Every get of CachedStore answers what the store behind it holds, for any
\* capacity, whatever gets run side by side and whatever is evicted, swept or
\* remembered as absent; and the cache stays within its limit.
THEOREM CacheAnswersTruly == CacheSpec => [](CacheFaithful /\ CacheTypeOK)
<1>1. CacheInv => CacheFaithful /\ CacheTypeOK
  BY DEF CacheInv, CacheShape, RanksApart, CacheTypeOK
<1>. QED BY <1>1, CacheInitInv, CacheNextInv, PTL DEF CacheSpec

-----------------------------------------------------------------------------
(* The resolver. *)

EntryShape(e) == DOMAIN e = DOMAIN NoEntry /\ e.reg \in Nat /\ e.ttl \in Nat /\ e.obsAt \in Nat

(* Whatever was observed of the node was observed of the key that holds it.  *)
OwnObserved(e) == e.obs # "none" => e.obsBy = e.key

(* The entry of the last accepted registration r, while that is in force.   *)
Holds(r, e) ==
  e.key = r.key /\ e.entry = r.entry /\ e.ttl = r.ttl /\ e.reg >= r.at

ResShape ==
  /\ DOMAIN resCache = ResAddrs /\ DOMAIN resDb = ResAddrs /\ DOMAIN resLast = ResAddrs
  /\ \A a \in ResAddrs : EntryShape(resCache[a]) /\ EntryShape(resDb[a])
  /\ \A a \in ResAddrs :
       /\ DOMAIN resLast[a] = {"key", "entry", "at", "ttl", "durable"}
       /\ resLast[a].at \in Nat /\ resLast[a].ttl \in Nat
  /\ resNow \in Nat /\ resBase \in Nat /\ resBoot \in Nat

InForce(r) == r.durable /\ r.key # "none" /\ resNow < r.at + r.ttl

(* A registration that reached the table is in the table and in the cache.   *)
ResInv ==
  /\ ResShape
  /\ \A a \in ResAddrs : OwnObserved(resCache[a]) /\ OwnObserved(resDb[a])
  /\ \A a \in ResAddrs :
       InForce(resLast[a]) =>
         resBacked /\ Holds(resLast[a], resCache[a]) /\ Holds(resLast[a], resDb[a])

LEMMA NoEntryFits == EntryShape(NoEntry) /\ OwnObserved(NoEntry) /\ ~Known(NoEntry)
BY DEF EntryShape, OwnObserved, NoEntry, Known

\* The invariant gives the registry's two promises.
LEMMA ResInvSuffices == ResInv => RegistryFaithful
<1>. SUFFICES ASSUME ResInv PROVE RegistryFaithful
  OBVIOUS
<1>1. ASSUME NEW a \in ResAddrs, InForce(resLast[a])
      PROVE  Resolve(a) = resLast[a].entry
  <2>1. Holds(resLast[a], resCache[a]) /\ resLast[a].key # "none" /\ resNow \in Nat
    BY <1>1 DEF ResInv, ResShape, InForce
  <2>2. /\ resLast[a].at \in Nat /\ resLast[a].ttl \in Nat /\ resCache[a].reg \in Nat
        /\ resNow < resLast[a].at + resLast[a].ttl
    BY <1>1 DEF ResInv, ResShape, EntryShape, InForce
  <2>3. resNow < resCache[a].reg + resCache[a].ttl
    BY <2>1, <2>2 DEF Holds
  <2>4. Live(resCache[a])
    BY <2>1, <2>2, <2>3 DEF Live, Known, IsExpired, Holds
  <2>. QED BY <2>1, <2>4 DEF Resolve, Holds
<1>2. RegistrationsSurvive
  BY <1>1 DEF RegistrationsSurvive, InForce
<1>3. ObservedIsTheHolders
  BY DEF ResInv, ObservedIsTheHolders, OwnObserved, FreshObserved
<1>. QED BY <1>2, <1>3 DEF RegistryFaithful

\* The conversion to an Instant never moves a time back.
LEMMA InstantsDoNotGoBack ==
  ASSUME NEW t \in Nat, NEW base \in Nat, NEW boot \in Nat
  PROVE  ToInstant(t, base, boot) \in Nat /\ ToInstant(t, base, boot) >= t
<1>1. CASE t >= base
  BY <1>1 DEF ToInstant
<1>2. CASE t < base
  <2>. DEFINE m == Min({base - t, MaxBack})
  <2>1. base - t \in Nat /\ MaxBack \in Nat
    BY <1>2, ResolverAssumption
  <2>2. m \in {base - t, MaxBack} /\ \A x \in {base - t, MaxBack} : m <= x
    BY <2>1, MinOfNats
  <2>3. m \in Nat /\ m <= base - t
    BY <2>1, <2>2
  <2>4. ToInstant(t, base, boot) = IF base - m >= boot THEN base - m ELSE base
    BY <1>2 DEF ToInstant
  <2>. HIDE DEF m
  <2>. QED BY <1>2, <2>3, <2>4
<1>. QED BY <1>1, <1>2

\* A row read back at the start.
LEMMA LoadedKeeps ==
  ASSUME NEW e, EntryShape(e), OwnObserved(e), resNow \in Nat, NEW boot \in Nat
  PROVE  LET l == Loaded(e, resNow, boot)
         IN /\ EntryShape(l) /\ OwnObserved(l)
            /\ ~IsExpired(e) => /\ l.key = e.key /\ l.entry = e.entry /\ l.ttl = e.ttl
                                /\ l.reg >= e.reg
<1>. DEFINE l == Loaded(e, resNow, boot)
            i == ToInstant(e.reg, resNow, boot)
            o == ToInstant(e.obsAt, resNow, boot)
<1>1. i \in Nat /\ i >= e.reg /\ o \in Nat
  BY InstantsDoNotGoBack DEF EntryShape
<1>2. l = IF IsExpired(e) THEN NoEntry ELSE [e EXCEPT !.reg = i, !.obsAt = o]
  BY DEF Loaded
<1>. HIDE DEF i, o, l
<1>3. CASE IsExpired(e)
  BY <1>2, <1>3, NoEntryFits DEF l
<1>4. CASE ~IsExpired(e)
  <2>1. /\ DOMAIN l = DOMAIN e /\ l.reg = i /\ l.obsAt = o /\ l.key = e.key
        /\ l.entry = e.entry /\ l.ttl = e.ttl /\ l.obs = e.obs /\ l.obsBy = e.obsBy
    BY <1>2, <1>4 DEF EntryShape, NoEntry
  <2>2. EntryShape(l) /\ OwnObserved(l)
    BY <1>1, <2>1 DEF EntryShape, OwnObserved
  <2>. QED BY <1>1, <2>1, <2>2 DEF l
<1>. QED BY <1>3, <1>4

\* A write of the entry e at a, through to the table or not.
LEMMA Inserts ==
  ASSUME ResInv, NEW a \in ResAddrs, NEW e, EntryShape(e), OwnObserved(e),
         NEW fault \in BOOLEAN, ResInsert(a, e, fault),
         UNCHANGED <<resBacked, resNow, resBase, resBoot>>,
         DOMAIN resLast' = ResAddrs, \A b \in ResAddrs \ {a} : resLast'[b] = resLast[b],
         DOMAIN resLast'[a] = {"key", "entry", "at", "ttl", "durable"},
         resLast'[a].at \in Nat, resLast'[a].ttl \in Nat,
         InForce(resLast'[a]) =>
           /\ resBacked /\ Holds(resLast'[a], e)
           /\ fault => Holds(resLast'[a], resDb[a])
  PROVE  ResInv'
<1>1. /\ resCache' = [resCache EXCEPT ![a] = e]
      /\ resDb' = IF resBacked /\ ~fault THEN [resDb EXCEPT ![a] = e] ELSE resDb
  BY DEF ResInsert
<1>2. ResShape
  BY DEF ResInv
<1>3. DOMAIN resCache' = ResAddrs /\ DOMAIN resDb' = ResAddrs
  BY <1>1, <1>2 DEF ResShape
<1>4. /\ resCache'[a] = e /\ \A b \in ResAddrs \ {a} : resCache'[b] = resCache[b]
      /\ \A b \in ResAddrs \ {a} : resDb'[b] = resDb[b]
      /\ resDb'[a] = IF resBacked /\ ~fault THEN e ELSE resDb[a]
  BY <1>1, <1>2 DEF ResShape
<1>5. ResShape'
  BY <1>2, <1>3, <1>4 DEF ResShape
<1>6. ASSUME NEW b \in ResAddrs
      PROVE  OwnObserved(resCache'[b]) /\ OwnObserved(resDb'[b])
  BY <1>4 DEF ResInv
<1>7. ASSUME NEW b \in ResAddrs, InForce(resLast'[b])
      PROVE  resBacked /\ Holds(resLast'[b], resCache'[b]) /\ Holds(resLast'[b], resDb'[b])
  <2>1. CASE b = a
    BY <1>4, <1>7, <2>1
  <2>2. CASE b # a
    BY <1>4, <1>7, <2>2 DEF ResInv
  <2>. QED BY <2>1, <2>2
<1>8. \A r : InForce(r)' => InForce(r)
  BY DEF InForce
<1>. QED BY <1>5, <1>6, <1>7, <1>8 DEF ResInv, InForce

LEMMA RegisterPreserves ==
  ASSUME ResInv, NEW a \in ResAddrs, NEW k \in ResKeys, NEW proof, NEW req \in ReqTtls,
         NEW ep \in Endpoints, NEW observed \in BOOLEAN, NEW fault \in BOOLEAN,
         Register(a, k, proof, req, ep, observed, fault)
  PROVE  ResInv'
<1>. DEFINE was == Inherit(a, k)
            e == [key |-> k, entry |-> ep, reg |-> resNow, ttl |-> EffectiveTtl(req),
                  obs |-> IF observed THEN ep ELSE was.obs,
                  obsAt |-> IF observed THEN resNow ELSE was.obsAt,
                  obsBy |-> IF observed THEN k ELSE was.obsBy,
                  cands |-> IF observed THEN {} ELSE was.cands]
            r == [key |-> k, entry |-> ep, at |-> resNow, ttl |-> e.ttl,
                  durable |-> resBacked /\ ~fault]
<1>1. resNow \in Nat /\ EntryShape(resCache[a]) /\ OwnObserved(resCache[a])
      /\ DOMAIN resLast = ResAddrs
  BY DEF ResInv, ResShape
<1>2. EffectiveTtl(req) \in Nat
  <2>1. req \in Nat /\ MaxTtl \in Nat /\ DefaultTtl \in Nat
    BY ResolverAssumption
  <2>2. Min({req, MaxTtl}) \in {req, MaxTtl}
    BY <2>1, MinOfNats
  <2>. QED BY <2>1, <2>2 DEF EffectiveTtl
<1>3. was.obsAt \in Nat /\ (was.obs # "none" => was.obsBy = k)
  <2>1. EntryShape(was) /\ (was = NoEntry \/ (was = resCache[a] /\ was.key = k))
    BY <1>1, NoEntryFits DEF Inherit
  <2>2. OwnObserved(was) /\ NoEntry.obs = "none"
    BY <1>1, <2>1, NoEntryFits DEF NoEntry
  <2>. QED BY <2>1, <2>2 DEF EntryShape, OwnObserved
<1>4. EntryShape(e) /\ OwnObserved(e)
  BY <1>1, <1>2, <1>3 DEF EntryShape, OwnObserved, NoEntry
<1>5. /\ ResInsert(a, e, fault) /\ resLast' = [resLast EXCEPT ![a] = r]
      /\ UNCHANGED <<resBacked, resNow, resBase, resBoot>>
  BY DEF Register
<1>6. /\ e.key = k /\ e.entry = ep /\ e.reg = resNow /\ e.ttl \in Nat
      /\ DOMAIN r = {"key", "entry", "at", "ttl", "durable"} /\ r.at = resNow /\ r.ttl = e.ttl
      /\ r.key = k /\ r.entry = ep
  BY <1>2
<1>7. InForce(r) => resBacked /\ ~fault
  BY DEF InForce
<1>. HIDE DEF e, r
<1>8. /\ DOMAIN resLast' = ResAddrs /\ resLast'[a] = r
      /\ \A b \in ResAddrs \ {a} : resLast'[b] = resLast[b]
  BY <1>1, <1>5
<1>9. Holds(r, e)
  BY <1>1, <1>6 DEF Holds
<1>. QED BY <1>1, <1>4, <1>5, <1>6, <1>7, <1>8, <1>9, Inserts

LEMMA RendezvousPreserves ==
  ASSUME ResInv, NEW a \in ResAddrs, NEW cands, NEW ep \in Endpoints,
         NEW observed \in BOOLEAN, NEW fault \in BOOLEAN,
         Rendezvous(a, cands, ep, observed, fault)
  PROVE  ResInv'
<1>. DEFINE me == resCache[a]
            e == [me EXCEPT !.obs = IF observed THEN ep ELSE @,
                            !.obsAt = IF observed THEN resNow ELSE @,
                            !.obsBy = IF observed THEN me.key ELSE @, !.cands = cands]
            r == [resLast[a] EXCEPT !.durable = @ /\ resBacked]
<1>1. /\ resNow \in Nat /\ EntryShape(me) /\ OwnObserved(me) /\ DOMAIN resLast = ResAddrs
      /\ DOMAIN resLast[a] = {"key", "entry", "at", "ttl", "durable"}
      /\ resLast[a].at \in Nat /\ resLast[a].ttl \in Nat
  BY DEF ResInv, ResShape
<1>2. /\ ResInsert(a, e, fault) /\ resLast' = [resLast EXCEPT ![a].durable = @ /\ resBacked]
      /\ UNCHANGED <<resBacked, resNow, resBase, resBoot>>
  BY DEF Rendezvous
<1>3. /\ DOMAIN e = DOMAIN me /\ e.key = me.key /\ e.entry = me.entry /\ e.reg = me.reg
      /\ e.ttl = me.ttl /\ e.obs = (IF observed THEN ep ELSE me.obs)
      /\ e.obsAt = (IF observed THEN resNow ELSE me.obsAt)
      /\ e.obsBy = (IF observed THEN me.key ELSE me.obsBy)
  BY <1>1 DEF EntryShape, NoEntry
<1>. HIDE DEF e
<1>4. EntryShape(e) /\ OwnObserved(e)
  BY <1>1, <1>3 DEF EntryShape, OwnObserved
<1>5. /\ DOMAIN resLast' = ResAddrs /\ resLast'[a] = r
      /\ \A b \in ResAddrs \ {a} : resLast'[b] = resLast[b]
  BY <1>1, <1>2
<1>6. /\ DOMAIN r = DOMAIN resLast[a] /\ r.at = resLast[a].at /\ r.ttl = resLast[a].ttl
      /\ r.key = resLast[a].key /\ r.entry = resLast[a].entry
      /\ r.durable = (resLast[a].durable /\ resBacked)
  BY <1>1
<1>. HIDE DEF r
<1>7. InForce(r) => resBacked /\ Holds(r, e) /\ Holds(r, resDb[a])
  <2>. SUFFICES ASSUME InForce(r) PROVE resBacked /\ Holds(r, e) /\ Holds(r, resDb[a])
    OBVIOUS
  <2>1. resLast[a].durable
    BY <1>6 DEF InForce
  <2>2. InForce(resLast[a])
    BY <1>6, <2>1 DEF InForce
  <2>3. resBacked /\ Holds(resLast[a], me) /\ Holds(resLast[a], resDb[a])
    BY <2>2 DEF ResInv
  <2>. QED BY <1>3, <1>6, <2>3 DEF Holds
<1>. QED BY <1>1, <1>2, <1>4, <1>5, <1>6, <1>7, Inserts

\* The reaper, a restart and time.
LEMMA SweepPreserves == ResInv /\ SweepExpired => ResInv'
<1>. SUFFICES ASSUME ResInv, SweepExpired PROVE ResInv'
  OBVIOUS
<1>1. /\ resCache' = SweepTable(resCache) /\ resDb' = SweepTable(resDb)
      /\ UNCHANGED <<resBacked, resNow, resBase, resBoot, resLast>>
  BY DEF SweepExpired
<1>2. ASSUME NEW t, NEW a \in ResAddrs, EntryShape(t[a]), OwnObserved(t[a])
      PROVE  /\ EntryShape(SweepTable(t)[a]) /\ OwnObserved(SweepTable(t)[a])
             /\ InForce(resLast[a]) /\ Holds(resLast[a], t[a])
                  => Holds(resLast[a], SweepTable(t)[a])
  <2>1. SweepTable(t)[a] = IF IsExpired(t[a]) THEN NoEntry ELSE t[a]
    BY DEF SweepTable
  <2>2. InForce(resLast[a]) /\ Holds(resLast[a], t[a]) => ~IsExpired(t[a])
    <3>1. resNow \in Nat /\ resLast[a].at \in Nat /\ resLast[a].ttl \in Nat
      BY DEF ResInv, ResShape
    <3>. QED BY <1>2, <3>1 DEF InForce, Holds, IsExpired, EntryShape
  <2>. QED BY <1>2, <2>1, <2>2, NoEntryFits
<1>3. DOMAIN resCache' = ResAddrs /\ DOMAIN resDb' = ResAddrs
  BY <1>1 DEF SweepTable
<1>4. ResShape'
  BY <1>1, <1>2, <1>3 DEF ResInv, ResShape
<1>5. \A a \in ResAddrs : OwnObserved(resCache'[a]) /\ OwnObserved(resDb'[a])
  BY <1>1, <1>2 DEF ResInv, ResShape
<1>6. ASSUME NEW a \in ResAddrs, InForce(resLast[a])
      PROVE  resBacked /\ Holds(resLast[a], resCache'[a]) /\ Holds(resLast[a], resDb'[a])
  BY <1>1, <1>2, <1>6 DEF ResInv, ResShape
<1>. QED BY <1>1, <1>4, <1>5, <1>6 DEF ResInv, InForce

LEMMA RestartPreserves ==
  ASSUME ResInv, NEW reboot \in BOOLEAN, ResRestart(reboot)
  PROVE  ResInv'
<1>. DEFINE boot == IF reboot THEN resNow ELSE resBoot
<1>1. /\ resBase' = resNow /\ resBoot' = boot /\ boot \in Nat
      /\ resCache' = (IF resBacked THEN [a \in ResAddrs |-> Loaded(resDb[a], resNow, boot)]
                      ELSE NoTable)
      /\ UNCHANGED <<resDb, resBacked, resNow, resLast>>
  BY DEF ResRestart, ResInv, ResShape
<1>. HIDE DEF boot
<1>2. ASSUME NEW a \in ResAddrs
      PROVE  /\ EntryShape(resCache'[a]) /\ OwnObserved(resCache'[a])
             /\ InForce(resLast[a]) => Holds(resLast[a], resCache'[a])
  <2>1. CASE ~resBacked
    <3>1. resCache'[a] = NoEntry
      BY <1>1, <2>1 DEF NoTable
    <3>. QED BY <2>1, <3>1, NoEntryFits DEF ResInv
  <2>2. CASE resBacked
    <3>. DEFINE l == Loaded(resDb[a], resNow, boot)
    <3>1. resCache'[a] = l
      BY <1>1, <2>2
    <3>2. EntryShape(resDb[a]) /\ OwnObserved(resDb[a]) /\ resNow \in Nat
      BY DEF ResInv, ResShape
    <3>3. /\ EntryShape(l) /\ OwnObserved(l)
          /\ ~IsExpired(resDb[a]) => /\ l.key = resDb[a].key /\ l.entry = resDb[a].entry
                                     /\ l.ttl = resDb[a].ttl /\ l.reg >= resDb[a].reg
      BY <1>1, <3>2, LoadedKeeps
    <3>. HIDE DEF l
    <3>4. ASSUME InForce(resLast[a])
          PROVE  Holds(resLast[a], l)
      <4>1. /\ Holds(resLast[a], resDb[a]) /\ resLast[a].at \in Nat /\ resLast[a].ttl \in Nat
            /\ resNow < resLast[a].at + resLast[a].ttl
        BY <3>4 DEF ResInv, ResShape, InForce
      <4>2. ~IsExpired(resDb[a])
        BY <3>2, <4>1 DEF Holds, IsExpired, EntryShape
      <4>. QED BY <3>2, <3>3, <4>1, <4>2 DEF Holds, EntryShape
    <3>. QED BY <3>1, <3>3, <3>4
  <2>. QED BY <2>1, <2>2
<1>3. DOMAIN resCache' = ResAddrs
  BY <1>1 DEF NoTable
<1>4. ResShape'
  BY <1>1, <1>2, <1>3 DEF ResInv, ResShape
<1>5. \A a \in ResAddrs : OwnObserved(resCache'[a]) /\ OwnObserved(resDb'[a])
  BY <1>1, <1>2 DEF ResInv
<1>6. ASSUME NEW a \in ResAddrs, InForce(resLast[a])
      PROVE  resBacked /\ Holds(resLast[a], resCache'[a]) /\ Holds(resLast[a], resDb'[a])
  BY <1>1, <1>2, <1>6 DEF ResInv
<1>. QED BY <1>1, <1>4, <1>5, <1>6 DEF ResInv, InForce

LEMMA ResTickPreserves == ResInv /\ ResTick => ResInv'
<1>. SUFFICES ASSUME ResInv, ResTick PROVE ResInv'
  OBVIOUS
<1>1. /\ resNow \in Nat /\ resNow' = resNow + 1
      /\ UNCHANGED <<resCache, resDb, resBacked, resBase, resBoot, resLast>>
  BY DEF ResTick, ResInv, ResShape
<1>2. ResShape'
  BY <1>1 DEF ResInv, ResShape
<1>3. ASSUME NEW a \in ResAddrs, InForce(resLast[a])'
      PROVE  InForce(resLast[a])
  BY <1>1, <1>3 DEF InForce, ResInv, ResShape
<1>. QED BY <1>1, <1>2, <1>3 DEF ResInv

LEMMA ResInitInv == ResInit => ResInv
<1>. SUFFICES ASSUME ResInit PROVE ResInv
  OBVIOUS
<1>1. ASSUME NEW a \in ResAddrs
      PROVE  /\ resCache[a] = NoEntry /\ resDb[a] = NoEntry /\ resLast[a].key = "none"
             /\ DOMAIN resLast[a] = {"key", "entry", "at", "ttl", "durable"}
             /\ resLast[a].at \in Nat /\ resLast[a].ttl \in Nat
  BY DEF ResInit, NoTable
<1>2. ResShape
  BY <1>1, NoEntryFits DEF ResInit, NoTable, ResShape
<1>. QED BY <1>1, <1>2, NoEntryFits DEF ResInv, InForce

LEMMA ResNextInv == ResInv /\ [ResNext]_resVars => ResInv'
<1>. SUFFICES ASSUME ResInv, [ResNext]_resVars PROVE ResInv'
  OBVIOUS
<1>1. CASE UNCHANGED resVars
  BY <1>1 DEF resVars, ResInv, ResShape, InForce
<1>2. ASSUME NEW a \in ResAddrs, NEW ep \in Endpoints, NEW observed \in BOOLEAN,
             NEW fault \in BOOLEAN,
             \/ \E k \in ResKeys, proof \in BOOLEAN, req \in ReqTtls :
                  Register(a, k, proof, req, ep, observed, fault)
             \/ \E cands \in {{}, {ep}} : Rendezvous(a, cands, ep, observed, fault)
      PROVE  ResInv'
  BY <1>2, RegisterPreserves, RendezvousPreserves
<1>. QED BY <1>1, <1>2, SweepPreserves, RestartPreserves, ResTickPreserves DEF ResNext

\* What the registry promises of the entry it answers with: a registration that
\* reached the table is resolvable until its time to live is over, and the
\* observed address of a node was seen on a connection of the key that holds it,
\* through renewals, take-overs, failing writes, sweeps and restarts.
THEOREM RegistryKeepsFaith == ResSpec => []RegistryFaithful
BY ResInitInv, ResNextInv, ResInvSuffices, PTL DEF ResSpec

-----------------------------------------------------------------------------
(* The agent naming service. *)

Promises == [plan : Nat, addr : AgentAddrs, exp : Nat, life : Nat, held : BOOLEAN]

AnsShape ==
  /\ DOMAIN agents \subseteq AgentAddrs
  /\ \A a \in DOMAIN agents :
       /\ DOMAIN agents[a] = {"key", "name", "caps", "qos", "na", "lease"}
       /\ agents[a].lease \in [plan : Nat, exp : Nat]
  /\ leases \subseteq Promises /\ ansNow \in Nat /\ ansLife \in Nat /\ nextPlan \in Nat

(* Expired or not, a stored card is the one its name leads to. *)
Indexed ==
  \A a \in DOMAIN agents : agents[a].name \in DOMAIN nameIndex /\ nameIndex[agents[a].name] = a

(* A promise in force is the lease its agent carries. *)
Carried(p) ==
  /\ p.addr \in DOMAIN agents /\ p.life = ansLife
  /\ agents[p.addr].lease.plan = p.plan /\ agents[p.addr].lease.exp = p.exp

AnsInv == AnsShape /\ Indexed /\ \A p \in leases : p.held /\ p.exp > ansNow => Carried(p)

LEMMA AnsInvSuffices == AnsInv => AgentsSound
<1>. SUFFICES ASSUME AnsInv PROVE AgentsSound
  OBVIOUS
<1>1. ASSUME NEW a \in DOMAIN agents, ~CardExpired(a)
      PROVE  ResolveName(agents[a].name) = {a}
  BY <1>1 DEF AnsInv, Indexed, ResolveName, NameHolder, StoredAgent
<1>2. ASSUME NEW p \in leases, NEW q \in leases, p.addr = q.addr, p.held, q.held,
             p.exp > ansNow, q.exp > ansNow
      PROVE  p = q
  <2>1. Carried(p) /\ Carried(q) /\ p \in Promises /\ q \in Promises
    BY <1>2 DEF AnsInv, AnsShape
  <2>2. p.held = q.held
    BY <1>2, <2>1 DEF Promises
  <2>. QED BY <1>2, <2>1, <2>2 DEF Carried, Promises
<1>. QED BY <1>1, <1>2 DEF AgentsSound, FoundByName, OneLeaseAtATime

\* What is left when some agents go, with their names and the promises of them.
LEMMA Removals ==
  ASSUME AnsInv, NEW gone \in SUBSET DOMAIN agents
  PROVE  /\ DOMAIN WithoutAgents(agents, gone) = DOMAIN agents \ gone
         /\ \A a \in DOMAIN agents \ gone :
              /\ WithoutAgents(agents, gone)[a] = agents[a]
              /\ agents[a].name \in DOMAIN Unindexed(gone)
              /\ Unindexed(gone)[agents[a].name] = a
         /\ Orphan(gone) \subseteq Promises
         /\ \A p \in Orphan(gone) : p.held => p \in leases /\ p.addr \notin gone
<1>1. ASSUME NEW a \in DOMAIN agents \ gone
      PROVE  /\ WithoutAgents(agents, gone)[a] = agents[a]
             /\ agents[a].name \in DOMAIN Unindexed(gone)
             /\ Unindexed(gone)[agents[a].name] = a
  <2>1. agents[a].name \in DOMAIN nameIndex /\ nameIndex[agents[a].name] = a
    BY DEF AnsInv, Indexed
  <2>2. \A b \in gone : agents[b].name # agents[a].name
    BY <2>1 DEF AnsInv, Indexed
  <2>. QED BY <2>1, <2>2 DEF WithoutAgents, Unindexed
<1>2. ASSUME NEW p \in Orphan(gone)
      PROVE  p \in Promises /\ (p.held => p \in leases /\ p.addr \notin gone)
  <2>1. PICK q \in leases : p = IF q.addr \in gone THEN [q EXCEPT !.held = FALSE] ELSE q
    BY DEF Orphan
  <2>2. q \in Promises
    BY DEF AnsInv, AnsShape
  <2>3. CASE q.addr \in gone
    <3>1. p = [q EXCEPT !.held = FALSE]
      BY <2>1, <2>3
    <3>. QED BY <2>2, <3>1 DEF Promises
  <2>4. CASE q.addr \notin gone
    BY <2>1, <2>2, <2>4
  <2>. QED BY <2>3, <2>4
<1>. QED BY <1>1, <1>2 DEF WithoutAgents

\* A step that leaves the indexes and the leases of the kept agents as they are.
LEMMA Removed ==
  ASSUME AnsInv, NEW gone \in SUBSET DOMAIN agents, agents' = WithoutAgents(agents, gone),
         nameIndex' = Unindexed(gone), leases' = Orphan(gone), UNCHANGED <<nextPlan, ansLife, ansNow>>
  PROVE  AnsInv'
<1>1. /\ DOMAIN agents' = DOMAIN agents \ gone
      /\ \A a \in DOMAIN agents \ gone :
           /\ agents'[a] = agents[a]
           /\ agents[a].name \in DOMAIN nameIndex' /\ nameIndex'[agents[a].name] = a
      /\ leases' \subseteq Promises
      /\ \A p \in leases' : p.held => p \in leases /\ p.addr \notin gone
  BY Removals
<1>2. AnsShape'
  BY <1>1 DEF AnsInv, AnsShape
<1>3. Indexed'
  BY <1>1 DEF Indexed
<1>4. ASSUME NEW p \in leases', p.held, p.exp > ansNow'
      PROVE  Carried(p)'
  <2>1. p \in leases /\ p.addr \notin gone /\ p.exp > ansNow
    BY <1>1, <1>4
  <2>2. Carried(p)
    BY <1>4, <2>1 DEF AnsInv
  <2>. QED BY <1>1, <2>1, <2>2 DEF Carried
<1>. QED BY <1>2, <1>3, <1>4 DEF AnsInv

LEMMA RegisterAgentPreserves ==
  ASSUME AnsInv, NEW r \in AnsRequests, NEW life \in CardLives, RegisterAgent(r, life)
  PROVE  AnsInv'
<1>. DEFINE na == ansNow + life
            gone == Reclaimed(r)
            ag == WithoutAgents(agents, gone)
            ix == Unindexed(gone)
<1>1. gone \subseteq DOMAIN agents /\ r.addr \notin gone /\ r.addr \in AgentAddrs
  BY AnsAssumption DEF Reclaimed, StoredAgent
<1>2. UNCHANGED <<nextPlan, ansLife, ansNow>>
  BY DEF RegisterAgent
<1>3. CASE UNCHANGED <<agents, nameIndex, leases>>
  BY <1>2, <1>3 DEF AnsInv, AnsShape, Indexed, Carried
<1>4. CASE leases' = Orphan(gone) /\ agents' = ag /\ nameIndex' = ix
  BY <1>1, <1>2, <1>4, Removed
<1>5. CASE leases' = Orphan(gone) /\ PutAgent(r, na, ag, ix)
  <2>. DEFINE x == r.addr
              new == [key |-> r.cert.key, name |-> r.name, caps |-> r.caps,
                      qos |-> r.qos, na |-> na, lease |-> KeptLease(r)]
  <2>1. /\ DOMAIN ag = DOMAIN agents \ gone
        /\ \A a \in DOMAIN agents \ gone :
             ag[a] = agents[a] /\ agents[a].name \in DOMAIN ix /\ ix[agents[a].name] = a
        /\ leases' \subseteq Promises
        /\ \A p \in leases' : p.held => p \in leases /\ p.addr \notin gone
    BY <1>1, <1>5, Removals
  <2>. HIDE DEF ag, ix
  <2>2. /\ agents' = [a \in DOMAIN ag \cup {x} |-> IF a = x THEN new ELSE ag[a]]
        /\ nameIndex' = [n \in DOMAIN ix \cup {r.name} |-> IF n = r.name THEN x ELSE ix[n]]
    BY <1>5 DEF PutAgent
  <2>3. KeptLease(r) \in [plan : Nat, exp : Nat]
    BY DEF KeptLease, NoLease, StoredAgent, AnsInv, AnsShape
  <2>4. /\ DOMAIN new = {"key", "name", "caps", "qos", "na", "lease"}
        /\ new.lease = KeptLease(r) /\ new.name = r.name
    OBVIOUS
  <2>. HIDE DEF new
  <2>5. /\ DOMAIN agents' = (DOMAIN agents \ gone) \cup {x} /\ agents'[x] = new
        /\ \A a \in DOMAIN agents' \ {x} : agents'[a] = agents[a] /\ a \in DOMAIN agents \ gone
    BY <2>1, <2>2
  <2>6. AnsShape'
    BY <1>1, <1>2, <2>1, <2>3, <2>4, <2>5 DEF AnsInv, AnsShape
  <2>7. ASSUME NEW a \in DOMAIN agents'
        PROVE  agents'[a].name \in DOMAIN nameIndex' /\ nameIndex'[agents'[a].name] = a
    <3>1. CASE a = x
      BY <2>2, <2>4, <2>5, <3>1
    <3>2. CASE a # x
      <4>1. a \in DOMAIN agents \ gone /\ agents'[a] = agents[a]
        BY <2>5, <3>2
      <4>2. agents[a].name # r.name
        BY <3>2, <4>1 DEF AnsInv, Indexed, Reclaimed, NameHolder, StoredAgent
      <4>. QED BY <2>1, <2>2, <4>1, <4>2
    <3>. QED BY <3>1, <3>2
  <2>8. ASSUME NEW p \in leases', p.held, p.exp > ansNow
        PROVE  Carried(p)'
    <3>1. Carried(p) /\ p.addr \notin gone
      BY <2>1, <2>8 DEF AnsInv
    <3>2. CASE p.addr = x
      BY <1>2, <2>4, <2>5, <3>1, <3>2 DEF Carried, KeptLease, StoredAgent
    <3>3. CASE p.addr # x
      BY <1>2, <2>5, <3>1, <3>3 DEF Carried
    <3>. QED BY <3>2, <3>3
  <2>. QED BY <1>2, <2>6, <2>7, <2>8 DEF AnsInv, Indexed
<1>. QED BY <1>3, <1>4, <1>5 DEF RegisterAgent

LEMMA PlanTaskPreserves ==
  ASSUME AnsInv, NEW t \in AnsTasks, PlanTask(t)
  PROVE  AnsInv'
<1>. DEFINE found == SearchCapability(t.caps, t.qos, TRUE)
            chosen == TopOf(found, t.count)
            until == ansNow + LeaseSecs(t.ms)
            made == {[plan |-> nextPlan, addr |-> a, exp |-> until, life |-> ansLife,
                      held |-> TRUE] : a \in chosen}
<1>1. chosen \subseteq DOMAIN agents /\ \A a \in chosen : ~Leased(a)
  BY DEF TopOf, SearchCapability
<1>2. until \in Nat
  <2>1. LeaseSecs(t.ms) \in Nat
    <3>1. t.ms \in Nat /\ MaxLeaseSecs \in Nat
      BY AnsAssumption
    <3>2. (t.ms + 999) \div 1000 \in Nat
      BY <3>1
    <3>. QED BY <3>1, <3>2 DEF LeaseSecs
  <2>. QED BY <2>1 DEF AnsInv, AnsShape
<1>3. /\ nextPlan' = nextPlan + 1 /\ leases' = leases \cup made
      /\ agents' = [a \in DOMAIN agents |->
                      IF a \in chosen
                      THEN [agents[a] EXCEPT !.lease = [plan |-> nextPlan, exp |-> until]]
                      ELSE agents[a]]
      /\ UNCHANGED <<nameIndex, ansLife, ansNow>>
  BY Zenon DEF PlanTask
<1>. HIDE DEF until, chosen
<1>4. ASSUME NEW p \in made
      PROVE  p.addr \in chosen /\ p.plan = nextPlan /\ p.exp = until /\ p.life = ansLife
  <2>1. PICK a \in chosen : p = [plan |-> nextPlan, addr |-> a, exp |-> until, life |-> ansLife,
                                 held |-> TRUE]
    OBVIOUS
  <2>. QED BY <2>1
<1>5. made \subseteq Promises
  <2>1. /\ chosen \subseteq AgentAddrs /\ until \in Nat /\ nextPlan \in Nat /\ ansLife \in Nat
    BY <1>1, <1>2 DEF AnsInv, AnsShape
  <2>2. ASSUME NEW a \in chosen
        PROVE  [plan |-> nextPlan, addr |-> a, exp |-> until, life |-> ansLife, held |-> TRUE]
                 \in Promises
    BY <2>1 DEF Promises
  <2>. QED BY <2>2
<1>. HIDE DEF made
<1>6. /\ DOMAIN agents' = DOMAIN agents
      /\ \A a \in DOMAIN agents \ chosen : agents'[a] = agents[a]
      /\ \A a \in chosen : agents'[a] = [agents[a] EXCEPT !.lease = [plan |-> nextPlan, exp |-> until]]
  BY <1>1, <1>3
<1>7. ASSUME NEW a \in chosen
      PROVE  /\ DOMAIN agents'[a] = DOMAIN agents[a] /\ agents'[a].name = agents[a].name
             /\ agents'[a].lease = [plan |-> nextPlan, exp |-> until]
  BY <1>1, <1>6 DEF AnsInv, AnsShape
<1>8. AnsShape'
  <2>1. [plan |-> nextPlan, exp |-> until] \in [plan : Nat, exp : Nat]
    BY <1>2 DEF AnsInv, AnsShape
  <2>. QED BY <1>1, <1>3, <1>5, <1>6, <1>7, <2>1 DEF AnsInv, AnsShape
<1>9. Indexed'
  BY <1>1, <1>3, <1>6, <1>7 DEF AnsInv, Indexed
<1>10. ASSUME NEW p \in leases', p.held, p.exp > ansNow
       PROVE  Carried(p)'
  <2>1. CASE p \in made
    BY <1>1, <1>3, <1>4, <1>6, <1>7, <2>1 DEF Carried
  <2>2. CASE p \in leases
    <3>1. Carried(p)
      BY <1>10, <2>2 DEF AnsInv
    <3>2. Leased(p.addr)
      BY <1>10, <2>2, <3>1 DEF Carried, Leased, NoLease, AnsInv, AnsShape, Promises
    <3>3. p.addr \notin chosen
      BY <1>1, <3>2
    <3>. QED BY <1>3, <1>6, <3>1, <3>3 DEF Carried
  <2>. QED BY <1>3, <2>1, <2>2
<1>. QED BY <1>3, <1>8, <1>9, <1>10 DEF AnsInv

LEMMA ReportDonePreserves ==
  ASSUME AnsInv, NEW p \in leases, ReportDone(p)
  PROVE  AnsInv'
<1>1. /\ leases' = {IF q.plan = p.plan /\ q.addr = p.addr
                    THEN [q EXCEPT !.held = FALSE] ELSE q : q \in leases \ {p}}
      /\ agents' = IF StoredAgent(p.addr) /\ agents[p.addr].lease.plan = p.plan
                   THEN [agents EXCEPT ![p.addr].lease = NoLease] ELSE agents
      /\ UNCHANGED <<nameIndex, nextPlan, ansLife, ansNow>>
  BY DEF ReportDone
<1>2. ASSUME NEW q \in leases'
      PROVE  q \in Promises /\ (q.held => q \in leases /\ ~(q.plan = p.plan /\ q.addr = p.addr))
  <2>1. PICK o \in leases : q = IF o.plan = p.plan /\ o.addr = p.addr
                                THEN [o EXCEPT !.held = FALSE] ELSE o
    BY <1>1
  <2>2. o \in Promises
    BY DEF AnsInv, AnsShape
  <2>3. CASE o.plan = p.plan /\ o.addr = p.addr
    <3>1. q = [o EXCEPT !.held = FALSE]
      BY <2>1, <2>3
    <3>. QED BY <2>2, <3>1 DEF Promises
  <2>4. CASE ~(o.plan = p.plan /\ o.addr = p.addr)
    <3>1. q = o
      BY <2>1, <2>4
    <3>. QED BY <2>2, <2>4, <3>1
  <2>. QED BY <2>3, <2>4
<1>3. /\ DOMAIN agents' = DOMAIN agents
      /\ \A a \in DOMAIN agents : \/ agents'[a] = agents[a]
                                  \/ /\ a = p.addr /\ agents[a].lease.plan = p.plan
                                     /\ agents'[a] = [agents[a] EXCEPT !.lease = NoLease]
  BY <1>1 DEF StoredAgent
<1>4. NoLease \in [plan : Nat, exp : Nat]
  BY DEF NoLease
<1>5. \A a \in DOMAIN agents :
        /\ DOMAIN agents'[a] = DOMAIN agents[a] /\ agents'[a].name = agents[a].name
        /\ agents'[a].lease \in {agents[a].lease, NoLease}
  BY <1>3 DEF AnsInv, AnsShape
<1>6. AnsShape' /\ Indexed'
  BY <1>1, <1>2, <1>3, <1>4, <1>5 DEF AnsInv, AnsShape, Indexed
<1>7. ASSUME NEW q \in leases', q.held, q.exp > ansNow
      PROVE  Carried(q)'
  <2>1. Carried(q) /\ ~(q.plan = p.plan /\ q.addr = p.addr)
    BY <1>2, <1>7 DEF AnsInv
  <2>2. agents'[q.addr] = agents[q.addr]
    BY <1>3, <2>1 DEF Carried
  <2>. QED BY <1>1, <1>3, <2>1, <2>2 DEF Carried
<1>. QED BY <1>1, <1>6, <1>7 DEF AnsInv

LEMMA AnsReapPreserves == AnsInv /\ AnsReap => AnsInv'
<1>. SUFFICES ASSUME AnsInv, AnsReap PROVE AnsInv'
  OBVIOUS
<1>. DEFINE gone == {a \in DOMAIN agents : CardExpired(a)}
<1>1. /\ agents' = WithoutAgents(Reaped(agents), gone) /\ nameIndex' = Unindexed(gone)
      /\ leases' = Orphan(gone) /\ UNCHANGED <<nextPlan, ansLife, ansNow>>
  BY DEF AnsReap
<1>2. gone \in SUBSET DOMAIN agents
  OBVIOUS
<1>. HIDE DEF gone
<1>3. /\ \A a \in DOMAIN agents \ gone :
           agents[a].name \in DOMAIN nameIndex' /\ nameIndex'[agents[a].name] = a
      /\ leases' \subseteq Promises
      /\ \A p \in leases' : p.held => p \in leases /\ p.addr \notin gone
  BY <1>1, <1>2, Removals
<1>4. /\ DOMAIN agents' = DOMAIN agents \ gone
      /\ \A a \in DOMAIN agents \ gone :
           agents'[a] = IF agents[a].lease.exp <= ansNow
                        THEN [agents[a] EXCEPT !.lease = NoLease] ELSE agents[a]
  BY <1>1 DEF WithoutAgents, Reaped
<1>5. ASSUME NEW a \in DOMAIN agents'
      PROVE  /\ DOMAIN agents'[a] = DOMAIN agents[a] /\ agents'[a].name = agents[a].name
             /\ agents'[a].lease \in [plan : Nat, exp : Nat]
             /\ ~(agents[a].lease.exp <= ansNow) => agents'[a].lease = agents[a].lease
  <2>1. NoLease \in [plan : Nat, exp : Nat]
    BY DEF NoLease
  <2>2. CASE agents[a].lease.exp <= ansNow
    <3>1. agents'[a] = [agents[a] EXCEPT !.lease = NoLease]
      BY <1>4, <2>2
    <3>. QED BY <1>4, <2>1, <2>2, <3>1 DEF AnsInv, AnsShape
  <2>3. CASE ~(agents[a].lease.exp <= ansNow)
    BY <1>4, <2>3 DEF AnsInv, AnsShape
  <2>. QED BY <2>2, <2>3
<1>6. AnsShape' /\ Indexed'
  BY <1>1, <1>3, <1>4, <1>5 DEF AnsInv, AnsShape, Indexed
<1>7. ASSUME NEW p \in leases', p.held, p.exp > ansNow
      PROVE  Carried(p)'
  <2>1. Carried(p) /\ p.addr \notin gone /\ p \in Promises /\ ansNow \in Nat
    BY <1>3, <1>7 DEF AnsInv, AnsShape
  <2>2. ~(agents[p.addr].lease.exp <= ansNow)
    BY <1>7, <2>1 DEF Carried, Promises
  <2>. QED BY <1>1, <1>4, <1>5, <2>1, <2>2 DEF Carried
<1>. QED BY <1>1, <1>6, <1>7 DEF AnsInv

\* A restart: no promise is held any more, and nothing is stored.
LEMMA AnsRestartPreserves == AnsInv /\ AnsRestart => AnsInv'
<1>. SUFFICES ASSUME AnsInv, AnsRestart PROVE AnsInv'
  OBVIOUS
<1>1. /\ DOMAIN agents' = {} /\ leases' = Orphan(AgentAddrs) /\ nextPlan' = 1
      /\ ansLife' = ansLife + 1 /\ ansNow' = ansNow
  BY DEF AnsRestart
<1>2. ASSUME NEW p \in leases'
      PROVE  p \in Promises /\ ~p.held
  <2>1. PICK q \in leases : p = IF q.addr \in AgentAddrs THEN [q EXCEPT !.held = FALSE] ELSE q
    BY <1>1 DEF Orphan
  <2>2. q \in Promises /\ p = [q EXCEPT !.held = FALSE]
    BY <2>1 DEF AnsInv, AnsShape, Promises
  <2>. QED BY <2>2 DEF Promises
<1>. QED BY <1>1, <1>2 DEF AnsInv, AnsShape, Indexed

LEMMA AnsInitInv == AnsInit => AnsInv
<1>. SUFFICES ASSUME AnsInit PROVE AnsInv
  OBVIOUS
<1>1. DOMAIN agents = {}
  BY DEF AnsInit
<1>. QED BY <1>1 DEF AnsInit, AnsInv, AnsShape, Indexed

LEMMA AnsNextInv == AnsInv /\ [AnsNext]_ansVars => AnsInv'
<1>. SUFFICES ASSUME AnsInv, [AnsNext]_ansVars PROVE AnsInv'
  OBVIOUS
<1>1. CASE AnsTick
  <2>1. UNCHANGED <<agents, nameIndex, nextPlan, leases, ansLife>> /\ ansNow' = ansNow + 1
    BY <1>1 DEF AnsTick
  <2>2. AnsShape' /\ Indexed'
    BY <2>1 DEF AnsInv, AnsShape, Indexed
  <2>3. ASSUME NEW p \in leases, p.held, p.exp > ansNow'
        PROVE  Carried(p)'
    BY <2>1, <2>3 DEF AnsInv, AnsShape, Promises, Carried
  <2>. QED BY <2>1, <2>2, <2>3 DEF AnsInv
<1>2. CASE UNCHANGED ansVars
  BY <1>2 DEF ansVars, AnsInv, AnsShape, Indexed, Carried
<1>. QED BY <1>1, <1>2, RegisterAgentPreserves, PlanTaskPreserves, ReportDonePreserves,
            AnsReapPreserves, AnsRestartPreserves DEF AnsNext

\* What MemStore's two indexes and the lease field promise a planner: an agent
\* whose card is alive is found under its own name, whatever names were taken
\* over, changed or reaped, and no agent that stays in the store is leased to a
\* second plan while the first one's lease runs.
THEOREM AgentsAreSound == AnsSpec => []AgentsSound
BY AnsInitInv, AnsNextInv, AnsInvSuffices, PTL DEF AnsSpec

-----------------------------------------------------------------------------
(* The Chord ring.  Every pointer of a member names a member; a put that the *)
(* history counts lies on the first member at or after its key, alone.       *)

Members == inRing \cup {NoNode}
NodeShape == [succ : ChordNodes, pred : ChordNodes \cup {NoNode}, next_fix : Fingers,
              finger : [Fingers -> ChordNodes \cup {NoNode}]]

PointsInside(n) ==
  /\ chord[n].succ \in inRing /\ chord[n].pred \in Members
  /\ \A i \in Fingers : chord[n].finger[i] \in Members

RingInv ==
  /\ chord \in [ChordNodes -> NodeShape] /\ inRing \subseteq ChordNodes /\ inRing # {}
  /\ \A n \in inRing : PointsInside(n)
  /\ \A n \in ChordNodes \ inRing, i \in Fingers : chord[n].finger[i] \in {n, NoNode}

FirstAfter(m, k) == m \in inRing /\ \A j \in inRing \ {m} : InOpenInterval(m, k, j)

PutsInv ==
  /\ putNo \in Nat /\ dht \in [ChordNodes -> [Positions -> Nat]] /\ latest \in [Positions -> Nat]
  /\ \A n \in ChordNodes, k \in Positions : dht[n][k] <= putNo
  /\ \A k \in Positions \ ChordNodes : latest[k] # 0 =>
       \E m \in inRing : /\ FirstAfter(m, k) /\ dht[m][k] = latest[k]
                         /\ \A n \in ChordNodes \ {m} : dht[n][k] # latest[k]

ChordInv == RingInv /\ PutsInv

LEMMA ChordConstants ==
  /\ RingBits \in Nat /\ RingBits > 0 /\ 0 \in Fingers /\ Fingers \subseteq 0..RingBits
  /\ ChordNodes \subseteq Nat /\ FirstNode \in ChordNodes /\ NoNode \notin ChordNodes
  /\ Positions \subseteq Nat /\ \A a \in DhtAddrs : AddrToKey(a) \in Positions
<1>1. Positions \subseteq Nat
  BY DEF Positions
<1>2. RingBits \in Nat /\ RingBits > 0
  BY ChordAssumption
<1>. QED BY <1>1, <1>2, ChordAssumption DEF Fingers, NoNode, AddrToKey

\* The node asked next is one that the node asked knows.
LEMMA NextIsKnown ==
  ASSUME NEW N, NEW n, NEW k, chord[n].succ \in N, \A i \in Fingers : chord[n].finger[i] \in N \cup {NoNode}
  PROVE  ClosestPrecedingFinger(n, k) \in N
<1>. DEFINE near == {i \in Fingers : chord[n].finger[i] # NoNode /\ InOpenInterval(chord[n].finger[i], n, k)}
<1>1. CASE near = {}
  BY <1>1 DEF ClosestPrecedingFinger
<1>2. CASE near # {}
  <2>1. near \in SUBSET 0..RingBits /\ RingBits \in Nat
    BY ChordConstants
  <2>2. Max(near) \in near
    BY <2>1, <1>2, MaxOfBounded
  <2>3. ClosestPrecedingFinger(n, k) = chord[n].finger[Max(near)]
    BY <1>2 DEF ClosestPrecedingFinger
  <2>. HIDE DEF near
  <2>4. Max(near) \in Fingers /\ chord[n].finger[Max(near)] # NoNode
    BY <2>2 DEF near
  <2>. QED BY <2>3, <2>4
<1>. QED BY <1>1, <1>2

\* The node asked next lies nearer to the key, unless the answer is found.
LEMMA NextIsNearer ==
  ASSUME RingInv, NEW n \in inRing, NEW k \in Nat, k # n,
         ~InClosedInterval(k, n, chord[n].succ), chord[n].succ # n
  PROVE  InOpenInterval(ClosestPrecedingFinger(n, k), n, k) /\ ClosestPrecedingFinger(n, k) # n
<1>. DEFINE near == {i \in Fingers : chord[n].finger[i] # NoNode /\ InOpenInterval(chord[n].finger[i], n, k)}
            next == ClosestPrecedingFinger(n, k)
            s == chord[n].succ
<1>1. n \in Nat /\ s \in Nat /\ next \in Nat
  <2>1. n \in Nat /\ s \in inRing /\ inRing \subseteq Nat
    BY ChordConstants DEF RingInv, PointsInside
  <2>2. next \in inRing
    BY <2>1, NextIsKnown DEF RingInv, PointsInside, Members
  <2>. QED BY <2>1, <2>2
<1>2. InOpenInterval(next, n, k)
  <2>1. CASE near = {}
    <3>1. next = s
      BY <2>1 DEF ClosestPrecedingFinger
    <3>2. ~InClosedInterval(k, n, s) /\ s # n
      OBVIOUS
    <3>. HIDE DEF s, next
    <3>3. InOpenInterval(s, n, k)
      BY <3>2, <1>1 DEF InOpenInterval, InClosedInterval
    <3>. QED BY <3>1, <3>3
  <2>2. CASE near # {}
    <3>1. near \in SUBSET 0..RingBits /\ RingBits \in Nat
      BY ChordConstants
    <3>2. Max(near) \in near
      BY <3>1, <2>2, MaxOfBounded
    <3>3. next = chord[n].finger[Max(near)]
      BY <2>2 DEF ClosestPrecedingFinger
    <3>. HIDE DEF near, next
    <3>4. InOpenInterval(chord[n].finger[Max(near)], n, k)
      BY <3>2 DEF near
    <3>. QED BY <3>3, <3>4
  <2>. QED BY <2>1, <2>2
<1>. HIDE DEF next, s
<1>3. next # n
  BY <1>1, <1>2 DEF InOpenInterval
<1>. QED BY <1>2, <1>3 DEF next

-----------------------------------------------------------------------------
(* The lookup, hop by hop. *)

Answers == [ChordNodes -> ChordNodes \cup {NoNode}]

LEMMA AskTyped ==
  ASSUME RingInv, NEW n \in ChordNodes, NEW k, NEW rest \in Answers
  PROVE  AskOrEnd(n, k, rest) \in ChordNodes \cup {NoNode}
<1>1. chord[n] \in NodeShape
  BY DEF RingInv
<1>2. /\ chord[n].succ \in ChordNodes
      /\ \A i \in Fingers : chord[n].finger[i] \in ChordNodes \cup {NoNode}
  BY <1>1 DEF NodeShape
<1>3. ClosestPrecedingFinger(n, k) \in ChordNodes
  BY <1>2, NextIsKnown
<1>. QED BY <1>2, <1>3 DEF AskOrEnd, Answers

\* iterative_find_successor is a loop: what a node answers in h hops it answers in one, then h - 1.
LEMMA LookupByHops ==
  ASSUME RingInv, NEW k
  PROVE  \E hop \in [Nat -> Answers] :
           /\ \A n \in ChordNodes : hop[0][n] = NoNode
           /\ \A h \in Nat, n \in ChordNodes : hop[h + 1][n] = AskOrEnd(n, k, hop[h])
           /\ \A start : IterativeFind(start, k) = hop[RingBits][start]
<1>. DEFINE a == [n \in ChordNodes |-> NoNode]
            g == [rest \in Answers |-> [n \in ChordNodes |-> AskOrEnd(n, k, rest)]]
            step(f) == [h \in Nat |-> [n \in ChordNodes |-> IF h = 0 THEN NoNode ELSE AskOrEnd(n, k, f[h - 1])]]
            hop == CHOOSE f : f = step(f)
<1>1. a \in Answers
  BY DEF Answers
<1>2. g \in [Answers -> Answers]
  <2>1. ASSUME NEW rest \in Answers PROVE [n \in ChordNodes |-> AskOrEnd(n, k, rest)] \in Answers
    BY <2>1, AskTyped DEF Answers
  <2>. QED BY <2>1
<1>3. PICK f \in [Nat -> Answers] : f[0] = a /\ \A n \in Nat : f[n + 1] = g[f[n]]
  <2>. HIDE DEF a, g
  <2>. QED BY <1>1, <1>2, IterationExists
<1>4. ASSUME NEW h \in Nat PROVE f[h] = step(f)[h]
  <2>1. CASE h = 0
    BY <2>1, <1>3
  <2>2. CASE h # 0
    <3>1. h - 1 \in Nat /\ (h - 1) + 1 = h
      BY <2>2
    <3>2. f[h] = g[f[h - 1]] /\ f[h - 1] \in Answers
      BY <3>1, <1>3
    <3>3. f[h] = [n \in ChordNodes |-> AskOrEnd(n, k, f[h - 1])]
      BY <3>2
    <3>. QED BY <3>3, <2>2
  <2>. QED BY <2>1, <2>2
<1>5. f = step(f)
  <2>1. step(f) \in [Nat -> {step(f)[h] : h \in Nat}]
    OBVIOUS
  <2>. HIDE DEF step
  <2>. QED BY <1>3, <1>4, <2>1
<1>6. hop = step(hop)
  <2>. HIDE DEF step
  <2>. QED BY <1>5
<1>7. \A start : IterativeFind(start, k) = hop[RingBits][start]
  BY DEF IterativeFind
<1>. HIDE DEF hop
<1>8. /\ \A n \in ChordNodes : hop[0][n] = NoNode
      /\ \A h \in Nat, n \in ChordNodes : hop[h + 1][n] = AskOrEnd(n, k, hop[h])
  <2>1. \A h \in Nat : hop[h] = [n \in ChordNodes |-> IF h = 0 THEN NoNode ELSE AskOrEnd(n, k, hop[h - 1])]
    BY <1>6
  <2>2. ASSUME NEW h \in Nat, NEW n \in ChordNodes PROVE hop[h + 1][n] = AskOrEnd(n, k, hop[h])
    <3>1. h + 1 \in Nat /\ (h + 1) - 1 = h /\ h + 1 # 0
      OBVIOUS
    <3>2. hop[h + 1] = [m \in ChordNodes |-> AskOrEnd(m, k, hop[h])]
      BY <2>1, <3>1
    <3>. QED BY <3>2
  <2>3. ASSUME NEW n \in ChordNodes PROVE hop[0][n] = NoNode
    BY <2>1
  <2>. QED BY <2>2, <2>3
<1>9. hop \in [Nat -> Answers]
  <2>. DEFINE T == {h \in Nat : hop[h] \in Answers}
  <2>1. \A h \in Nat : hop[h] = [n \in ChordNodes |-> IF h = 0 THEN NoNode ELSE AskOrEnd(n, k, hop[h - 1])]
    BY <1>6
  <2>2. 0 \in T
    BY <2>1, <1>1
  <2>3. ASSUME NEW h \in Nat, h \in T PROVE h + 1 \in T
    <3>1. \A n \in ChordNodes : AskOrEnd(n, k, hop[h]) \in ChordNodes \cup {NoNode}
      BY <2>3, AskTyped
    <3>2. hop[h + 1] = [n \in ChordNodes |-> AskOrEnd(n, k, hop[h])]
      <4>1. h + 1 \in Nat /\ (h + 1) - 1 = h /\ h + 1 # 0
        OBVIOUS
      <4>. QED BY <4>1, <2>1
    <3>. QED BY <3>1, <3>2 DEF Answers
  <2>4. Nat \subseteq T
    <3>. HIDE DEF T
    <3>. QED BY <2>2, <2>3, NatSetInduction
  <2>5. \A h \in Nat : hop[h] \in Answers
    BY <2>4
  <2>6. hop = [h \in Nat |-> hop[h]]
    <3>1. hop \in [Nat -> {step(hop)[h] : h \in Nat}]
      BY <1>6
    <3>. QED BY <3>1
  <2>. QED BY <2>5, <2>6
<1>. QED BY <1>7, <1>8, <1>9

-----------------------------------------------------------------------------
(* What a lookup answers. *)

\* A lookup that a member starts answers with a member or fails.
LEMMA LookupStaysInside ==
  ASSUME RingInv, NEW start \in inRing, NEW k
  PROVE  IterativeFind(start, k) \in Members
<1>1. PICK hop \in [Nat -> Answers] :
        /\ \A n \in ChordNodes : hop[0][n] = NoNode
        /\ \A h \in Nat, n \in ChordNodes : hop[h + 1][n] = AskOrEnd(n, k, hop[h])
        /\ \A s : IterativeFind(s, k) = hop[RingBits][s]
  BY LookupByHops
<1>. DEFINE T == {h \in Nat : \A n \in inRing : hop[h][n] \in Members}
<1>2. inRing \subseteq ChordNodes
  BY DEF RingInv
<1>3. 0 \in T
  BY <1>1, <1>2 DEF Members
<1>4. ASSUME NEW h \in Nat, h \in T PROVE h + 1 \in T
  <2>. SUFFICES ASSUME NEW n \in inRing PROVE hop[h + 1][n] \in Members
    OBVIOUS
  <2>1. chord[n].succ \in inRing /\ \A i \in Fingers : chord[n].finger[i] \in inRing \cup {NoNode}
    BY DEF RingInv, PointsInside, Members
  <2>2. ClosestPrecedingFinger(n, k) \in inRing
    BY <2>1, NextIsKnown
  <2>3. hop[h][ClosestPrecedingFinger(n, k)] \in Members
    BY <1>4, <2>2
  <2>4. hop[h + 1][n] = AskOrEnd(n, k, hop[h])
    BY <1>1, <1>2
  <2>. QED BY <2>1, <2>3, <2>4 DEF AskOrEnd, Members
<1>5. Nat \subseteq T
  <2>. HIDE DEF T
  <2>. QED BY <1>3, <1>4, NatSetInduction
<1>6. RingBits \in T
  BY <1>5, ChordConstants
<1>. QED BY <1>1, <1>6

LEMMA FindStaysInside ==
  ASSUME RingInv, NEW n \in inRing, NEW k
  PROVE  FindSuccessor(n, k) \in Members
<1>1. chord[n].succ \in inRing /\ \A i \in Fingers : chord[n].finger[i] \in inRing \cup {NoNode}
  BY DEF RingInv, PointsInside, Members
<1>2. ClosestPrecedingFinger(n, k) \in inRing
  BY <1>1, NextIsKnown
<1>3. IterativeFind(ClosestPrecedingFinger(n, k), k) \in Members
  BY <1>2, LookupStaysInside
<1>. QED BY <1>1, <1>3 DEF FindSuccessor, Members

\* On a right ring the successor of a node that answers is the first member after the key.
LEMMA AnswerIsFirst ==
  ASSUME RingInv, RingRight, NEW n \in inRing, NEW k \in Nat \ ChordNodes,
         InClosedInterval(k, n, chord[n].succ) \/ chord[n].succ = n
  PROVE  FirstAfter(chord[n].succ, k)
<1>. DEFINE s == chord[n].succ
<1>1. s \in inRing /\ \A m \in inRing \ {n} : InOpenInterval(s, n, m)
  BY DEF RingRight
<1>2. inRing \subseteq Nat /\ k \notin inRing
  BY ChordConstants DEF RingInv
<1>3. InClosedInterval(k, n, s) \/ s = n
  OBVIOUS
<1>. HIDE DEF s
<1>4. ASSUME NEW j \in inRing \ {s} PROVE InOpenInterval(s, k, j)
  <2>1. k \in Nat /\ n \in Nat /\ s \in Nat /\ j \in Nat /\ k # n /\ k # s /\ k # j /\ j # s
    BY <1>1, <1>2
  <2>2. CASE j = n
    BY <2>1, <2>2, <1>3 DEF InOpenInterval, InClosedInterval
  <2>3. CASE j # n
    <3>1. InOpenInterval(s, n, j)
      BY <2>3, <1>1
    <3>2. CASE s = n
      BY <3>1, <3>2, <2>1 DEF InOpenInterval
    <3>3. CASE InClosedInterval(k, n, s)
      BY <3>1, <3>3, <2>1, <2>3 DEF InOpenInterval, InClosedInterval
    <3>. QED BY <3>2, <3>3, <1>3
  <2>. QED BY <2>2, <2>3
<1>. QED BY <1>1, <1>4 DEF FirstAfter, s

\* There is at most one first member.
LEMMA FirstIsOne ==
  ASSUME RingInv, NEW k \in Nat \ ChordNodes, NEW m, NEW n, FirstAfter(m, k), FirstAfter(n, k)
  PROVE  m = n
<1>1. m \in Nat /\ n \in Nat /\ k \in Nat /\ k # m /\ k # n
  BY ChordConstants DEF RingInv, FirstAfter
<1>. SUFFICES ASSUME m # n PROVE FALSE
  OBVIOUS
<1>2. InOpenInterval(m, k, n) /\ InOpenInterval(n, k, m)
  BY DEF FirstAfter
<1>. QED BY <1>1, <1>2 DEF InOpenInterval

\* The members between a node and the key; each hop leaves fewer.
Between(n, k) == {m \in inRing \ {n} : InOpenInterval(m, n, k)}

LEMMA HopLeavesFewer ==
  ASSUME RingInv, NEW n \in inRing, NEW m \in inRing, NEW k \in Nat \ ChordNodes, m \in Between(n, k)
  PROVE  Between(m, k) \subseteq Between(n, k) \ {m}
<1>1. inRing \subseteq Nat /\ k \notin inRing
  BY ChordConstants DEF RingInv
<1>2. InOpenInterval(m, n, k) /\ m # n
  BY DEF Between
<1>3. ASSUME NEW j \in Between(m, k) PROVE j \in Between(n, k) \ {m}
  <2>1. j \in inRing /\ j # m /\ InOpenInterval(j, m, k)
    BY DEF Between
  <2>2. j \in Nat /\ m \in Nat /\ n \in Nat /\ k \in Nat /\ k # j /\ k # m /\ k # n
    BY <2>1, <1>1
  <2>3. j # n /\ InOpenInterval(j, n, k)
    BY <2>1, <2>2, <1>2 DEF InOpenInterval
  <2>. QED BY <2>1, <2>3 DEF Between
<1>. QED BY <1>3

\* On a right ring of at most RingBits members every lookup finds the first member after the key.
LEMMA LookupFindsFirst ==
  ASSUME RingInv, RingRight, IsFiniteSet(ChordNodes), Cardinality(ChordNodes) <= RingBits,
         NEW start \in inRing, NEW k \in Nat \ ChordNodes
  PROVE  FirstAfter(IterativeFind(start, k), k)
<1>1. PICK hop \in [Nat -> Answers] :
        /\ \A n \in ChordNodes : hop[0][n] = NoNode
        /\ \A h \in Nat, n \in ChordNodes : hop[h + 1][n] = AskOrEnd(n, k, hop[h])
        /\ \A s : IterativeFind(s, k) = hop[RingBits][s]
  BY LookupByHops
<1>. DEFINE T == {h \in Nat : \A n \in inRing : Cardinality(Between(n, k)) < h => FirstAfter(hop[h][n], k)}
<1>2. inRing \subseteq ChordNodes /\ IsFiniteSet(inRing)
  BY FS_Subset DEF RingInv
<1>3. \A n \in inRing : IsFiniteSet(Between(n, k)) /\ Cardinality(Between(n, k)) \in Nat
  <2>1. \A n \in inRing : Between(n, k) \subseteq inRing
    BY DEF Between
  <2>. QED BY <2>1, <1>2, FS_Subset, FS_CardinalityType
<1>4. 0 \in T
  BY <1>3
<1>5. ASSUME NEW h \in Nat, h \in T PROVE h + 1 \in T
  <2>. SUFFICES ASSUME NEW n \in inRing, Cardinality(Between(n, k)) < h + 1
                PROVE  FirstAfter(hop[h + 1][n], k)
    OBVIOUS
  <2>. DEFINE next == ClosestPrecedingFinger(n, k)
              s == chord[n].succ
  <2>1. hop[h + 1][n] = AskOrEnd(n, k, hop[h])
    BY <1>1, <1>2
  <2>2. CASE InClosedInterval(k, n, s) \/ s = n
    <3>1. AskOrEnd(n, k, hop[h]) = s
      BY <2>2 DEF AskOrEnd
    <3>2. FirstAfter(s, k)
      BY <2>2, AnswerIsFirst
    <3>. QED BY <3>1, <3>2, <2>1
  <2>3. CASE ~(InClosedInterval(k, n, s) \/ s = n)
    <3>1. k # n
      BY <1>2
    <3>2. InOpenInterval(next, n, k) /\ next # n
      BY <2>3, <3>1, NextIsNearer
    <3>3. next \in inRing
      <4>1. chord[n].succ \in inRing /\ \A i \in Fingers : chord[n].finger[i] \in inRing \cup {NoNode}
        BY DEF RingInv, PointsInside, Members
      <4>. QED BY <4>1, NextIsKnown
    <3>4. AskOrEnd(n, k, hop[h]) = hop[h][next]
      BY <2>3, <3>2 DEF AskOrEnd
    <3>. HIDE DEF next
    <3>5. next \in Between(n, k)
      BY <3>2, <3>3 DEF Between
    <3>6. Between(next, k) \subseteq Between(n, k) \ {next}
      BY <3>3, <3>5, HopLeavesFewer
    <3>7. Cardinality(Between(next, k)) <= Cardinality(Between(n, k)) - 1
      <4>1. IsFiniteSet(Between(n, k) \ {next}) /\ Cardinality(Between(n, k) \ {next}) = Cardinality(Between(n, k)) - 1
        BY <1>3, <3>5, FS_RemoveElement
      <4>2. Cardinality(Between(next, k)) <= Cardinality(Between(n, k) \ {next})
        BY <3>6, <4>1, FS_Subset
      <4>. QED BY <4>1, <4>2
    <3>8. Cardinality(Between(next, k)) < h
      BY <3>3, <3>7, <1>3
    <3>9. FirstAfter(hop[h][next], k)
      BY <3>3, <3>8, <1>5
    <3>. QED BY <3>4, <3>9, <2>1
  <2>. QED BY <2>2, <2>3
<1>6. Nat \subseteq T
  <2>. HIDE DEF T
  <2>. QED BY <1>4, <1>5, NatSetInduction
<1>7. Cardinality(Between(start, k)) < RingBits
  <2>1. Between(start, k) \subseteq ChordNodes \ {start}
    BY <1>2 DEF Between
  <2>2. /\ IsFiniteSet(ChordNodes \ {start}) /\ Cardinality(ChordNodes \ {start}) = Cardinality(ChordNodes) - 1
        /\ Cardinality(ChordNodes) \in Nat
    BY <1>2, FS_RemoveElement, FS_CardinalityType
  <2>3. Cardinality(Between(start, k)) <= Cardinality(ChordNodes \ {start})
    BY <2>1, <2>2, FS_Subset
  <2>. QED BY <2>2, <2>3, <1>3, ChordConstants
<1>8. RingBits \in T
  BY <1>6, ChordConstants
<1>. QED BY <1>1, <1>7, <1>8

-----------------------------------------------------------------------------
(* The steps. *)

\* A node with one pointer set; the others are what they were.
NodeIs(c, n, old, succ, pred, finger) ==
  /\ c \in [ChordNodes -> NodeShape] /\ \A m \in ChordNodes \ {n} : c[m] = old[m]
  /\ c[n].succ = succ /\ c[n].pred = pred /\ c[n].finger = finger

Pointed(finger, i, s) == [finger EXCEPT ![i] = s]

LEMMA SetSuccessorIs ==
  ASSUME chord \in [ChordNodes -> NodeShape], NEW n \in ChordNodes, NEW s \in ChordNodes
  PROVE  NodeIs(SetSuccessor(n, s), n, chord, s, chord[n].pred, Pointed(chord[n].finger, 0, s))
<1>. DEFINE old == chord[n]
            node == [old EXCEPT !.succ = s, !.finger = Pointed(old.finger, 0, s)]
<1>1. old \in NodeShape
  OBVIOUS
<1>2. SetSuccessor(n, s) = [chord EXCEPT ![n] = node]
  BY DEF SetSuccessor, Pointed
<1>3. Pointed(old.finger, 0, s) \in [Fingers -> ChordNodes \cup {NoNode}]
  BY <1>1 DEF NodeShape, Pointed
<1>. HIDE DEF old
<1>4. node \in NodeShape /\ node.succ = s /\ node.pred = old.pred /\ node.finger = Pointed(old.finger, 0, s)
  BY <1>1, <1>3 DEF NodeShape
<1>. HIDE DEF node
<1>5. NodeIs([chord EXCEPT ![n] = node], n, chord, s, old.pred, Pointed(old.finger, 0, s))
  BY <1>4 DEF NodeIs
<1>. QED BY <1>2, <1>5 DEF old

LEMMA PredIs ==
  ASSUME NEW c \in [ChordNodes -> NodeShape], NEW n \in ChordNodes, NEW p \in ChordNodes \cup {NoNode}
  PROVE  NodeIs([c EXCEPT ![n].pred = p], n, c, c[n].succ, p, c[n].finger)
<1>. DEFINE old == c[n]
            node == [old EXCEPT !.pred = p]
<1>1. old \in NodeShape
  OBVIOUS
<1>2. [c EXCEPT ![n].pred = p] = [c EXCEPT ![n] = node]
  OBVIOUS
<1>. HIDE DEF old
<1>3. node \in NodeShape /\ node.succ = old.succ /\ node.pred = p /\ node.finger = old.finger
  BY <1>1 DEF NodeShape
<1>. HIDE DEF node
<1>4. NodeIs([c EXCEPT ![n] = node], n, c, old.succ, p, old.finger)
  BY <1>3 DEF NodeIs
<1>. QED BY <1>2, <1>4 DEF old

\* The pointers of a node, read from a table of nodes.
Inside(c, n, members) ==
  /\ c[n].succ \in members /\ c[n].pred \in members \cup {NoNode}
  /\ \A i \in Fingers : c[n].finger[i] \in members \cup {NoNode}

RingOf(c, members) ==
  /\ c \in [ChordNodes -> NodeShape] /\ members \subseteq ChordNodes /\ members # {}
  /\ \A n \in members : Inside(c, n, members)
  /\ \A n \in ChordNodes \ members, i \in Fingers : c[n].finger[i] \in {n, NoNode}

LEMMA RingOfChord == RingInv <=> RingOf(chord, inRing)
BY DEF RingInv, RingOf, PointsInside, Inside, Members

LEMMA NodeStaysInside ==
  ASSUME NEW c, NEW old, NEW members, RingOf(old, members), NEW n \in members, NEW succ \in members,
         NEW pred \in members \cup {NoNode}, NEW finger, NodeIs(c, n, old, succ, pred, finger),
         \A i \in Fingers : finger[i] \in members \cup {NoNode}
  PROVE  RingOf(c, members)
<1>1. Inside(c, n, members)
  BY DEF NodeIs, Inside
<1>2. ASSUME NEW m \in members \ {n} PROVE Inside(c, m, members)
  <2>1. c[m] = old[m] /\ Inside(old, m, members)
    BY DEF NodeIs, RingOf
  <2>. QED BY <2>1 DEF Inside
<1>3. c \in [ChordNodes -> NodeShape] /\ members \subseteq ChordNodes
  BY DEF NodeIs, RingOf
<1>4. \A m \in ChordNodes \ members, i \in Fingers : c[m].finger[i] \in {m, NoNode}
  BY DEF NodeIs, RingOf
<1>. QED BY <1>1, <1>2, <1>3, <1>4 DEF RingOf

LEMMA PointedInside ==
  ASSUME NEW finger \in [Fingers -> ChordNodes \cup {NoNode}], NEW i, NEW members, NEW s \in members \cup {NoNode},
         \A j \in Fingers : finger[j] \in members \cup {NoNode}
  PROVE  \A j \in Fingers : Pointed(finger, i, s)[j] \in members \cup {NoNode}
BY DEF Pointed

LEMMA SetSuccessorInside ==
  ASSUME RingInv, NEW n \in inRing, NEW s \in inRing
  PROVE  RingOf(SetSuccessor(n, s), inRing)
<1>1. /\ RingOf(chord, inRing) /\ chord \in [ChordNodes -> NodeShape] /\ n \in ChordNodes /\ s \in ChordNodes
      /\ chord[n].pred \in inRing \cup {NoNode}
      /\ \A i \in Fingers : chord[n].finger[i] \in inRing \cup {NoNode}
  BY RingOfChord DEF RingInv, PointsInside, Members
<1>2. chord[n].finger \in [Fingers -> ChordNodes \cup {NoNode}]
  BY <1>1 DEF NodeShape
<1>3. NodeIs(SetSuccessor(n, s), n, chord, s, chord[n].pred, Pointed(chord[n].finger, 0, s))
  BY <1>1, SetSuccessorIs
<1>4. \A j \in Fingers : Pointed(chord[n].finger, 0, s)[j] \in inRing \cup {NoNode}
  BY <1>1, <1>2, PointedInside
<1>. QED BY <1>1, <1>3, <1>4, NodeStaysInside

LEMMA NotifiedInside ==
  ASSUME NEW c, RingOf(c, inRing), NEW n \in inRing, NEW cand \in inRing
  PROVE  RingOf(Notified(c, n, cand), inRing)
<1>1. /\ c \in [ChordNodes -> NodeShape] /\ n \in ChordNodes /\ cand \in ChordNodes
      /\ c[n].succ \in inRing /\ \A i \in Fingers : c[n].finger[i] \in inRing \cup {NoNode}
  BY DEF RingOf, Inside
<1>. DEFINE d == [c EXCEPT ![n].pred = cand]
<1>2. NodeIs(d, n, c, c[n].succ, cand, c[n].finger)
  BY <1>1, PredIs
<1>. HIDE DEF d
<1>3. RingOf(d, inRing)
  BY <1>1, <1>2, NodeStaysInside
<1>. QED BY <1>3 DEF Notified, d

LEMMA StabilizeKeeps == ASSUME RingInv, NEW n \in ChordNodes, Stabilize(n) PROVE RingInv'
<1>. DEFINE s == chord[n].succ
            x == chord[s].pred
            c == IF x # NoNode /\ x # s /\ InOpenInterval(x, n, s) THEN SetSuccessor(n, x) ELSE chord
<1>1. n \in inRing /\ inRing' = inRing /\ chord' = IF s # n THEN Notified(c, s, n) ELSE c
  BY DEF Stabilize
<1>2. s \in inRing /\ x \in Members
  BY <1>1 DEF RingInv, PointsInside
<1>3. RingOf(c, inRing)
  <2>1. RingOf(chord, inRing)
    BY RingOfChord
  <2>2. x # NoNode => RingOf(SetSuccessor(n, x), inRing)
    BY <1>1, <1>2, SetSuccessorInside DEF Members
  <2>. QED BY <2>1, <2>2
<1>. HIDE DEF c, s, x
<1>4. RingOf(Notified(c, s, n), inRing)
  BY <1>1, <1>2, <1>3, NotifiedInside
<1>5. RingOf(chord', inRing)
  BY <1>1, <1>3, <1>4
<1>6. RingOf(chord', inRing') <=> RingInv'
  BY DEF RingInv, RingOf, PointsInside, Inside, Members
<1>. QED BY <1>1, <1>5, <1>6

LEMMA FixFingersKeeps == ASSUME RingInv, NEW n \in ChordNodes, FixFingers(n) PROVE RingInv'
<1>. DEFINE i == chord[n].next_fix
            s == FindSuccessor(n, (n + 2^i) % 2^RingBits)
            v == IF s # NoNode THEN s ELSE chord[n].finger[i]
            old == chord[n]
            node == [old EXCEPT !.finger = Pointed(old.finger, i, v), !.next_fix = (i + 1) % RingBits]
<1>1. /\ n \in inRing /\ inRing' = inRing
      /\ chord' = [chord EXCEPT ![n].finger[i] = IF s # NoNode THEN s ELSE @,
                                ![n].next_fix = (i + 1) % RingBits]
  BY DEF FixFingers
<1>2. /\ old \in NodeShape /\ i \in Fingers /\ old.succ \in inRing /\ old.pred \in Members
      /\ old.finger \in [Fingers -> ChordNodes \cup {NoNode}]
      /\ \A j \in Fingers : old.finger[j] \in inRing \cup {NoNode}
      /\ inRing \subseteq ChordNodes
  BY <1>1 DEF RingInv, NodeShape, PointsInside, Members
<1>3. s \in Members
  BY <1>1, FindStaysInside
<1>4. chord' = [chord EXCEPT ![n] = node]
  <2>. HIDE DEF s
  <2>. QED BY <1>1 DEF Pointed
<1>5. v \in inRing \cup {NoNode}
  <2>. HIDE DEF s
  <2>. QED BY <1>2, <1>3 DEF Members
<1>. HIDE DEF v, s
<1>6. \A j \in Fingers : Pointed(old.finger, i, v)[j] \in inRing \cup {NoNode}
  BY <1>2, <1>5, PointedInside
<1>7. (i + 1) % RingBits \in Fingers
  BY <1>2, ChordConstants DEF Fingers
<1>8. node \in NodeShape /\ node.succ = old.succ /\ node.pred = old.pred /\ node.finger = Pointed(old.finger, i, v)
  <2>1. Pointed(old.finger, i, v) \in [Fingers -> ChordNodes \cup {NoNode}]
    BY <1>2, <1>5 DEF Pointed
  <2>. DEFINE f == Pointed(old.finger, i, v)
              next == (i + 1) % RingBits
  <2>. HIDE DEF f, next, old
  <2>2. node = [old EXCEPT !.finger = f, !.next_fix = next]
    BY DEF f, next
  <2>. QED BY <2>1, <2>2, <1>2, <1>7 DEF NodeShape, f, next
<1>. HIDE DEF node
<1>9. NodeIs(chord', n, chord, old.succ, old.pred, Pointed(old.finger, i, v))
  BY <1>4, <1>8 DEF NodeIs, RingInv
<1>10. RingOf(chord', inRing)
  <2>1. RingOf(chord, inRing)
    BY RingOfChord
  <2>. HIDE DEF old, i
  <2>. QED BY <2>1, <1>1, <1>2, <1>6, <1>9, NodeStaysInside DEF Members
<1>11. RingOf(chord', inRing') <=> RingInv'
  BY DEF RingInv, RingOf, PointsInside, Inside, Members
<1>. QED BY <1>1, <1>10, <1>11

LEMMA JoinKeeps == ASSUME RingInv, NEW n \in ChordNodes, NEW boot \in ChordNodes, ChordJoin(n, boot) PROVE RingInv'
<1>. DEFINE s == IterativeFind(boot, n)
            c == SetSuccessor(n, s)
            d == [c EXCEPT ![n].pred = NoNode]
            f == Pointed(chord[n].finger, 0, s)
            more == inRing \cup {n}
<1>1. n \notin inRing /\ boot \in inRing /\ s # NoNode /\ inRing' = more /\ chord' = d
  BY DEF ChordJoin
<1>2. s \in inRing
  BY <1>1, LookupStaysInside DEF Members
<1>3. chord \in [ChordNodes -> NodeShape] /\ inRing \subseteq ChordNodes /\ RingOf(chord, inRing)
  BY RingOfChord DEF RingInv
<1>4. chord[n].finger \in [Fingers -> ChordNodes \cup {NoNode}] /\ 0 \in Fingers
  BY <1>3, ChordConstants DEF NodeShape
<1>5. \A i \in Fingers : f[i] \in more \cup {NoNode}
  <2>1. \A i \in Fingers : chord[n].finger[i] \in {n, NoNode}
    BY <1>1 DEF RingInv
  <2>. HIDE DEF s
  <2>. QED BY <2>1, <1>2, <1>4 DEF Pointed
<1>. HIDE DEF s
<1>6. NodeIs(c, n, chord, s, chord[n].pred, f)
  BY <1>2, <1>3, SetSuccessorIs
<1>. HIDE DEF c, f
<1>7. NodeIs(d, n, c, s, NoNode, f)
  <2>1. c \in [ChordNodes -> NodeShape] /\ c[n].succ = s /\ c[n].finger = f
    BY <1>6 DEF NodeIs
  <2>. QED BY <2>1, PredIs
<1>. HIDE DEF d
<1>8. NodeIs(d, n, chord, s, NoNode, f)
  BY <1>6, <1>7 DEF NodeIs
<1>9. Inside(d, n, more)
  BY <1>2, <1>5, <1>8 DEF NodeIs, Inside
<1>10. ASSUME NEW m \in inRing PROVE Inside(d, m, more)
  <2>1. d[m] = chord[m] /\ Inside(chord, m, inRing)
    BY <1>1, <1>3, <1>8 DEF NodeIs, RingOf
  <2>. QED BY <2>1 DEF Inside
<1>11. \A m \in ChordNodes \ more, i \in Fingers : d[m].finger[i] \in {m, NoNode}
  BY <1>3, <1>8 DEF NodeIs, RingOf
<1>12. RingOf(d, more)
  <2>1. d \in [ChordNodes -> NodeShape] /\ more \subseteq ChordNodes /\ more # {}
    BY <1>3, <1>8 DEF NodeIs
  <2>. QED BY <2>1, <1>9, <1>10, <1>11 DEF RingOf
<1>13. RingOf(chord', inRing') <=> RingInv'
  BY DEF RingInv, RingOf, PointsInside, Inside, Members
<1>. QED BY <1>1, <1>12, <1>13

\* A put, on a right ring, leaves the value on the first member after the key and nowhere else.
LEMMA InsertKeeps ==
  ASSUME IsFiniteSet(ChordNodes), Cardinality(ChordNodes) <= RingBits,
         ChordInv, NEW from \in ChordNodes, NEW a \in DhtAddrs, DhtInsert(from, a)
  PROVE  ChordInv'
<1>. DEFINE k == AddrToKey(a)
            owner == IterativeFind(from, k)
<1>1. /\ from \in inRing /\ putNo' = putNo + 1 /\ chord' = chord /\ inRing' = inRing
      /\ dht' = IF owner # NoNode THEN [dht EXCEPT ![owner][k] = putNo + 1] ELSE dht
      /\ latest' = [latest EXCEPT ![k] = IF RingRight THEN putNo + 1 ELSE 0]
  BY DEF DhtInsert
<1>2. k \in Positions /\ owner \in Members /\ RingInv
  BY <1>1, ChordConstants, LookupStaysInside DEF ChordInv
<1>3. RingRight /\ k \notin ChordNodes => FirstAfter(owner, k)
  <2>. SUFFICES ASSUME RingRight, k \notin ChordNodes PROVE FirstAfter(owner, k)
    OBVIOUS
  <2>1. k \in Nat \ ChordNodes
    BY <1>2, ChordConstants
  <2>. HIDE DEF k
  <2>. QED BY <2>1, <1>1, <1>2, LookupFindsFirst
<1>. HIDE DEF k, owner
<1>4. /\ putNo \in Nat /\ dht \in [ChordNodes -> [Positions -> Nat]] /\ latest \in [Positions -> Nat]
      /\ \A n \in ChordNodes, p \in Positions : dht[n][p] <= putNo /\ dht[n][p] \in Nat
  BY DEF ChordInv, PutsInv
<1>5. owner # NoNode => owner \in ChordNodes
  BY <1>2 DEF Members, RingInv
<1>6. /\ dht' \in [ChordNodes -> [Positions -> Nat]]
      /\ \A n \in ChordNodes, p \in Positions :
           dht'[n][p] = IF n = owner /\ p = k THEN putNo + 1 ELSE dht[n][p]
  <2>1. CASE owner = NoNode
    BY <2>1, <1>1, <1>4, ChordConstants
  <2>2. CASE owner # NoNode
    <3>1. dht' = [dht EXCEPT ![owner][k] = putNo + 1] /\ owner \in ChordNodes /\ putNo + 1 \in Nat
      BY <2>2, <1>1, <1>4, <1>5
    <3>. QED BY <3>1, <1>2, <1>4
  <2>. QED BY <2>1, <2>2
<1>7. /\ latest' \in [Positions -> Nat] /\ latest'[k] = IF RingRight THEN putNo + 1 ELSE 0
      /\ \A p \in Positions : p # k => latest'[p] = latest[p]
  BY <1>1, <1>2, <1>4
<1>8. \A n \in ChordNodes, p \in Positions : dht'[n][p] <= putNo'
  BY <1>1, <1>4, <1>6
<1>9. ASSUME NEW p \in Positions \ ChordNodes, latest'[p] # 0
      PROVE  \E m \in inRing : /\ FirstAfter(m, p) /\ dht'[m][p] = latest'[p]
                               /\ \A n \in ChordNodes \ {m} : dht'[n][p] # latest'[p]
  <2>1. CASE p = k
    <3>1. RingRight /\ latest'[p] = putNo + 1
      BY <2>1, <1>7, <1>9
    <3>2. FirstAfter(owner, p) /\ owner \in inRing /\ owner \in ChordNodes
      BY <3>1, <2>1, <1>2, <1>3 DEF FirstAfter, RingInv
    <3>3. dht'[owner][p] = putNo + 1
      BY <2>1, <3>2, <1>6
    <3>4. ASSUME NEW n \in ChordNodes \ {owner} PROVE dht'[n][p] # putNo + 1
      BY <1>4, <1>6
    <3>. QED BY <3>1, <3>2, <3>3, <3>4
  <2>2. CASE p # k
    <3>1. latest'[p] = latest[p] /\ latest[p] # 0
      BY <2>2, <1>7, <1>9
    <3>2. PICK m \in inRing : /\ FirstAfter(m, p) /\ dht[m][p] = latest[p]
                              /\ \A n \in ChordNodes \ {m} : dht[n][p] # latest[p]
      BY <3>1 DEF ChordInv, PutsInv
    <3>3. \A n \in ChordNodes : dht'[n][p] = dht[n][p]
      BY <2>2, <1>6
    <3>4. m \in ChordNodes
      BY <1>2 DEF RingInv
    <3>. QED BY <3>1, <3>2, <3>3, <3>4
  <2>. QED BY <2>1, <2>2
<1>10. PutsInv'
  <2>1. \A m, p : FirstAfter(m, p)' <=> FirstAfter(m, p)
    BY <1>1 DEF FirstAfter
  <2>2. putNo' \in Nat
    BY <1>1, <1>4
  <2>. QED BY <2>1, <2>2, <1>1, <1>6, <1>7, <1>8, <1>9 DEF PutsInv
<1>11. RingInv'
  BY <1>1, <1>2 DEF RingInv, PointsInside, Members
<1>. QED BY <1>10, <1>11 DEF ChordInv

LEMMA DhtSweepKeeps ==
  ASSUME ChordInv, NEW n \in ChordNodes, NEW k \in Positions, DhtSweep(n, k)
  PROVE  ChordInv'
<1>1. /\ dht[n][k] # 0 /\ chord' = chord /\ inRing' = inRing /\ putNo' = putNo
      /\ dht' = [dht EXCEPT ![n][k] = 0]
      /\ latest' = [latest EXCEPT ![k] = IF latest[k] = dht[n][k] THEN 0 ELSE latest[k]]
  BY DEF DhtSweep
<1>2. /\ putNo \in Nat /\ dht \in [ChordNodes -> [Positions -> Nat]] /\ latest \in [Positions -> Nat]
      /\ \A m \in ChordNodes, p \in Positions : dht[m][p] <= putNo /\ RingInv
  BY DEF ChordInv, PutsInv
<1>3. /\ dht' \in [ChordNodes -> [Positions -> Nat]]
      /\ \A m \in ChordNodes, p \in Positions : dht'[m][p] = IF m = n /\ p = k THEN 0 ELSE dht[m][p]
  BY <1>1, <1>2
<1>4. /\ latest' \in [Positions -> Nat]
      /\ \A p \in Positions : latest'[p] = IF p = k /\ latest[p] = dht[n][p] THEN 0 ELSE latest[p]
  BY <1>1, <1>2
<1>5. ASSUME NEW p \in Positions \ ChordNodes, latest'[p] # 0
      PROVE  \E m \in inRing : /\ FirstAfter(m, p) /\ dht'[m][p] = latest'[p]
                               /\ \A j \in ChordNodes \ {m} : dht'[j][p] # latest'[p]
  <2>1. latest'[p] = latest[p] /\ ~(p = k /\ latest[p] = dht[n][p])
    BY <1>4, <1>5
  <2>2. PICK m \in inRing : /\ FirstAfter(m, p) /\ dht[m][p] = latest[p]
                            /\ \A j \in ChordNodes \ {m} : dht[j][p] # latest[p]
    BY <2>1, <1>5 DEF ChordInv, PutsInv
  <2>3. m \in ChordNodes /\ ~(m = n /\ p = k)
    BY <2>1, <2>2 DEF ChordInv, RingInv
  <2>4. dht'[m][p] = latest[p]
    BY <2>2, <2>3, <1>3
  <2>5. \A j \in ChordNodes \ {m} : dht'[j][p] # latest[p]
    BY <2>1, <2>2, <1>3, <1>5
  <2>. QED BY <2>1, <2>2, <2>4, <2>5
<1>6. \A m \in ChordNodes, p \in Positions : dht'[m][p] <= putNo
  BY <1>2, <1>3
<1>7. PutsInv'
  <2>1. \A m, p : FirstAfter(m, p)' <=> FirstAfter(m, p)
    BY <1>1 DEF FirstAfter
  <2>. QED BY <2>1, <1>1, <1>2, <1>3, <1>4, <1>5, <1>6 DEF PutsInv
<1>8. RingInv'
  BY <1>1 DEF ChordInv, RingInv, PointsInside, Members
<1>. QED BY <1>7, <1>8 DEF ChordInv

\* Ring maintenance leaves the store alone, and a join starts the history afresh.
LEMMA PutsStay ==
  ASSUME PutsInv, dht' = dht, putNo' = putNo,
         (inRing' = inRing /\ latest' = latest) \/ latest' = [k \in Positions |-> 0]
  PROVE  PutsInv'
<1>1. CASE inRing' = inRing /\ latest' = latest
  <2>1. \A m, p : FirstAfter(m, p)' <=> FirstAfter(m, p)
    BY <1>1 DEF FirstAfter
  <2>. QED BY <2>1, <1>1 DEF PutsInv
<1>2. CASE latest' = [k \in Positions |-> 0]
  BY <1>2 DEF PutsInv
<1>. QED BY <1>1, <1>2

LEMMA ChordInitial == ChordInit => ChordInv
<1>. SUFFICES ASSUME ChordInit PROVE ChordInv
  OBVIOUS
<1>1. ASSUME NEW n \in ChordNodes PROVE ChordNew(n) \in NodeShape
  <2>1. 0 \in Fingers
    BY ChordConstants
  <2>. QED BY <2>1 DEF ChordNew, NodeShape
<1>2. \A n \in ChordNodes : chord[n] = ChordNew(n)
  BY DEF ChordInit
<1>3. /\ \A n \in ChordNodes : chord[n].succ = n /\ chord[n].pred = n
      /\ \A n \in ChordNodes, i \in Fingers : chord[n].finger[i] \in {n, NoNode}
  <2>1. ASSUME NEW n \in ChordNodes
        PROVE  /\ chord[n].succ = n /\ chord[n].pred = n
               /\ chord[n].finger = [i \in Fingers |-> IF i = 0 THEN n ELSE NoNode]
    <3>1. chord[n] = [succ |-> n, pred |-> n, next_fix |-> 0,
                      finger |-> [i \in Fingers |-> IF i = 0 THEN n ELSE NoNode]]
      BY <1>2 DEF ChordNew
    <3>. QED BY <3>1
  <2>2. ASSUME NEW n \in ChordNodes, NEW i \in Fingers
        PROVE  chord[n].finger[i] \in {n, NoNode}
    BY <2>1
  <2>. QED BY <2>1, <2>2
<1>4. chord \in [ChordNodes -> NodeShape]
  BY <1>1 DEF ChordInit
<1>5. inRing = {FirstNode} /\ FirstNode \in ChordNodes
  BY ChordConstants DEF ChordInit
<1>6. RingInv
  BY <1>3, <1>4, <1>5 DEF RingInv, PointsInside, Members
<1>7. PutsInv
  BY DEF ChordInit, PutsInv
<1>. QED BY <1>6, <1>7 DEF ChordInv

LEMMA ChordStep ==
  ASSUME IsFiniteSet(ChordNodes), Cardinality(ChordNodes) <= RingBits
  PROVE  ChordInv /\ [ChordNext]_chordVars => ChordInv'
<1>. SUFFICES ASSUME ChordInv, [ChordNext]_chordVars PROVE ChordInv'
  OBVIOUS
<1>1. RingInv /\ PutsInv
  BY DEF ChordInv
<1>2. ASSUME NEW n \in ChordNodes, Stabilize(n) PROVE ChordInv'
  <2>1. PutsInv'
    BY <1>1, <1>2, PutsStay DEF Stabilize
  <2>. QED BY <2>1, <1>1, <1>2, StabilizeKeeps DEF ChordInv
<1>3. ASSUME NEW n \in ChordNodes, FixFingers(n) PROVE ChordInv'
  <2>1. PutsInv'
    BY <1>1, <1>3, PutsStay DEF FixFingers
  <2>. QED BY <2>1, <1>1, <1>3, FixFingersKeeps DEF ChordInv
<1>4. ASSUME NEW n \in ChordNodes, NEW b \in ChordNodes, ChordJoin(n, b) PROVE ChordInv'
  <2>1. PutsInv'
    BY <1>1, <1>4, PutsStay DEF ChordJoin
  <2>. QED BY <2>1, <1>1, <1>4, JoinKeeps DEF ChordInv
<1>5. CASE UNCHANGED chordVars
  <2>1. PutsInv'
    BY <1>1, <1>5, PutsStay DEF chordVars
  <2>2. RingInv'
    BY <1>1, <1>5 DEF chordVars, RingInv, PointsInside, Members
  <2>. QED BY <2>1, <2>2 DEF ChordInv
<1>. QED BY <1>2, <1>3, <1>4, <1>5, InsertKeeps, DhtSweepKeeps DEF ChordNext

LEMMA PutsAreFound ==
  ASSUME IsFiniteSet(ChordNodes), Cardinality(ChordNodes) <= RingBits, ChordInv
  PROVE  PutIsFound
<1>. SUFFICES ASSUME NEW a \in DhtAddrs, NEW n \in inRing,
                     RingRight, latest[AddrToKey(a)] # 0, AddrToKey(a) \notin ChordNodes
              PROVE  /\ DhtGet(n, a) = latest[AddrToKey(a)]
                     /\ dht[n][AddrToKey(a)] = latest[AddrToKey(a)] => IAmResponsibleFor(n, AddrToKey(a))
  BY DEF PutIsFound
<1>. DEFINE k == AddrToKey(a)
            p == IF chord[n].pred = NoNode THEN n ELSE chord[n].pred
<1>1. k \in Positions /\ k \in Nat \ ChordNodes /\ latest[k] # 0
  BY ChordConstants
<1>2. RingInv
  BY DEF ChordInv
<1>3. DhtGet(n, a) = IF IterativeFind(n, k) = NoNode THEN 0 ELSE dht[IterativeFind(n, k)][k]
  BY DEF DhtGet
<1>. HIDE DEF k
<1>4. PICK m \in inRing : /\ FirstAfter(m, k) /\ dht[m][k] = latest[k]
                          /\ \A j \in ChordNodes \ {m} : dht[j][k] # latest[k]
  BY <1>1 DEF ChordInv, PutsInv
<1>5. IterativeFind(n, k) = m
  BY <1>1, <1>2, <1>4, LookupFindsFirst, FirstIsOne
<1>6. m # NoNode /\ n \in ChordNodes
  BY <1>2, ChordConstants DEF RingInv
<1>7. DhtGet(n, a) = latest[k]
  BY <1>3, <1>4, <1>5, <1>6
<1>8. ASSUME dht[n][k] = latest[k] PROVE IAmResponsibleFor(n, k)
  <2>1. n = m
    BY <1>4, <1>6, <1>8
  <2>2. p \in inRing
    BY <1>2 DEF RingInv, PointsInside, Members
  <2>3. n \in Nat /\ p \in Nat /\ k \in Nat /\ k # n /\ k # p
    BY <2>2, <1>1, <1>2, ChordConstants DEF RingInv
  <2>. HIDE DEF p
  <2>4. InOpenInterval(k, p, n)
    <3>1. CASE p = n
      BY <3>1, <2>3 DEF InOpenInterval
    <3>2. CASE p # n
      <4>1. InOpenInterval(n, k, p)
        BY <2>1, <2>2, <3>2, <1>4 DEF FirstAfter
      <4>. QED BY <4>1, <2>3, <3>2 DEF InOpenInterval
    <3>. QED BY <3>1, <3>2
  <2>. QED BY <2>4 DEF IAmResponsibleFor, p
<1>. QED BY <1>7, <1>8 DEF k

\* On a ring whose successors are right every node gets what one node put, however
\* stale the fingers (cf.rs iterative_find_successor, dht_store.rs), and only the
\* responsible node holds it; for rings of at most FINGER_COUNT nodes, the number
\* of hops a lookup may take.
THEOREM PutsFoundOnRightRing ==
  ASSUME IsFiniteSet(ChordNodes), Cardinality(ChordNodes) <= RingBits
  PROVE  ChordSpec => []PutIsFound
<1>1. ChordInit => ChordInv
  BY ChordInitial
<1>2. ChordInv /\ [ChordNext]_chordVars => ChordInv'
  BY ChordStep
<1>3. ChordInv => PutIsFound
  BY PutsAreFound
<1>. QED BY <1>1, <1>2, <1>3, PTL DEF ChordSpec
===============================================================================
