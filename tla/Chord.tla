-------------------------------- MODULE Chord --------------------------------
(***************************************************************************)
(* The Chord ring, src/core/ipv8-routing/src/cf.rs, with its in-process RPC,    *)
(* and the DHT store of the resolver on it, src/cloud/resolver/src/dht_store.rs. *)
(* The ring has 2^RingBits positions.  One stabilize or fix_fingers call is one *)
(* step ("不在本轮：并发 stabilize").                                              *)
(***************************************************************************)
EXTENDS Integers, FiniteSets, FiniteSetsExt, Sequences, SequencesExt

CONSTANTS
  RingBits,                  \* M = FINGER_COUNT
  ChordNodes, FirstNode,     \* ring positions of the nodes, the one that starts the ring
  DhtAddrs, RegionOf,        \* registered addresses, and the fields of each that make its key
  MaxPuts                    \* bound

Positions == 0..2^RingBits - 1

ASSUME ChordAssumption ==
  /\ RingBits \in Nat \ {0} /\ ChordNodes \subseteq Positions /\ FirstNode \in ChordNodes
  /\ RegionOf \in [DhtAddrs -> Positions]

VARIABLES
  chord,       \* chord[n]: ChordNode
  inRing,      \* nodes that have joined
  dht,         \* dht[n]: what n's store holds, by key: the put's number, 0 for nothing
  putNo,       \* puts so far
  latest       \* history: by key, the last put while the ring was right, 0 after a join

chordVars == <<chord, inRing, dht, putNo, latest>>

NoNode == -1
Fingers == 0..RingBits - 1

(* (lo, hi] around the ring; the whole ring when lo = hi *)
InOpenInterval(k, lo, hi) == IF lo < hi THEN k > lo /\ k <= hi ELSE k > lo \/ k <= hi
InClosedInterval(k, lo, hi) == k = lo \/ InOpenInterval(k, lo, hi)

ChordNew(n) == [succ |-> n, pred |-> n, next_fix |-> 0,
                finger |-> [i \in Fingers |-> IF i = 0 THEN n ELSE NoNode]]

ChordInit ==
  /\ chord = [n \in ChordNodes |-> ChordNew(n)] /\ inRing = {FirstNode}
  /\ dht = [n \in ChordNodes |-> [k \in Positions |-> 0]] /\ putNo = 0
  /\ latest = [k \in Positions |-> 0]

IAmResponsibleFor(n, k) ==
  LET p == IF chord[n].pred = NoNode THEN n ELSE chord[n].pred IN InOpenInterval(k, p, n) \/ k = n

(* Mutant of ClosestPrecedingFinger: the farthest finger, beyond k or not. *)
FarthestFinger(n, k) ==
  LET known == {i \in Fingers : chord[n].finger[i] \notin {NoNode, n}}
  IN IF known = {} THEN chord[n].succ ELSE chord[n].finger[Max(known)]

(* The farthest finger in (n, k], the successor without one *)
ClosestPrecedingFinger(n, k) ==
  LET near == {i \in Fingers : chord[n].finger[i] # NoNode /\ InOpenInterval(chord[n].finger[i], n, k)}
  IN IF near = {} THEN chord[n].succ ELSE chord[n].finger[Max(near)]

(* A node that is asked answers with its successor, or names the node to ask next. *)
AskOrEnd(n, k, rest) ==
  LET succ == chord[n].succ
      next == ClosestPrecedingFinger(n, k)
  IN IF InClosedInterval(k, n, succ) \/ succ = n \/ next = n THEN succ ELSE rest[next]

(* iterative_find_successor: at most FINGER_COUNT hops *)
IterativeFind(start, k) ==
  LET hop[h \in Nat] == [n \in ChordNodes |-> IF h = 0 THEN NoNode ELSE AskOrEnd(n, k, hop[h - 1])]
  IN hop[RingBits][start]

(* ChordNode::find_successor: the first hop is local *)
FindSuccessor(n, k) ==
  LET succ == chord[n].succ
      next == ClosestPrecedingFinger(n, k)
  IN IF InClosedInterval(k, n, succ) \/ next = n THEN succ ELSE IterativeFind(next, k)

SetSuccessor(n, s) == [chord EXCEPT ![n].succ = s, ![n].finger[0] = s]

(* notified: a closer predecessor replaces the one there is *)
Notified(c, n, cand) ==
  IF c[n].pred = NoNode \/ InOpenInterval(cand, c[n].pred, n) THEN [c EXCEPT ![n].pred = cand] ELSE c

-----------------------------------------------------------------------------
RingRight ==
  \A n \in inRing : /\ chord[n].succ \in inRing
                    /\ \A m \in inRing \ {n} : InOpenInterval(chord[n].succ, n, m)

ChordJoin(n, boot) ==
  LET s == IterativeFind(boot, n)
  IN /\ n \notin inRing /\ boot \in inRing /\ s # NoNode
     /\ chord' = [SetSuccessor(n, s) EXCEPT ![n].pred = NoNode]
     /\ inRing' = inRing \cup {n}
     /\ latest' = [k \in Positions |-> 0]
     /\ UNCHANGED <<dht, putNo>>

(* Mutant of Stabilize: the successor is not told. *)
StabilizeQuietly(n) ==
  LET s == chord[n].succ
      x == chord[s].pred
  IN /\ n \in inRing
     /\ chord' = IF x # NoNode /\ x # s /\ InOpenInterval(x, n, s) THEN SetSuccessor(n, x) ELSE chord
     /\ UNCHANGED <<inRing, dht, putNo, latest>>

(* stabilize: learn a closer successor, then notify the one there was *)
Stabilize(n) ==
  LET s == chord[n].succ
      x == chord[s].pred
      c == IF x # NoNode /\ x # s /\ InOpenInterval(x, n, s) THEN SetSuccessor(n, x) ELSE chord
  IN /\ n \in inRing
     /\ chord' = IF s # n THEN Notified(c, s, n) ELSE c
     /\ UNCHANGED <<inRing, dht, putNo, latest>>

(* fix_fingers: one slot per call, round robin *)
FixFingers(n) ==
  LET i == chord[n].next_fix
      s == FindSuccessor(n, (n + 2^i) % 2^RingBits)
  IN /\ n \in inRing
     /\ chord' = [chord EXCEPT ![n].finger[i] = IF s # NoNode THEN s ELSE @,
                               ![n].next_fix = (i + 1) % RingBits]
     /\ UNCHANGED <<inRing, dht, putNo, latest>>

-----------------------------------------------------------------------------
(* DhtStore on a node: the key of an address is its region, nothing below it *)

AddrToKey(a) == RegionOf[a]

DhtInsert(from, a) ==
  LET k == AddrToKey(a)
      owner == IterativeFind(from, k)
  IN /\ from \in inRing /\ putNo < MaxPuts
     /\ putNo' = putNo + 1
     /\ dht' = IF owner # NoNode THEN [dht EXCEPT ![owner][k] = putNo + 1] ELSE dht
     /\ latest' = [latest EXCEPT ![k] = IF RingRight THEN putNo + 1 ELSE 0]
     /\ UNCHANGED <<chord, inRing>>

(* dht_get: 0 for nothing *)
DhtGet(from, a) ==
  LET owner == IterativeFind(from, AddrToKey(a)) IN IF owner = NoNode THEN 0 ELSE dht[owner][AddrToKey(a)]

(* sweep_expired on a node: entries whose time to live is over, or that do not decode *)
DhtSweep(n, k) ==
  /\ n \in inRing /\ dht[n][k] # 0
  /\ dht' = [dht EXCEPT ![n][k] = 0]
  /\ latest' = [latest EXCEPT ![k] = IF @ = dht[n][k] THEN 0 ELSE @]
  /\ UNCHANGED <<chord, inRing, putNo>>

ChordNext ==
  \/ \E n \in ChordNodes : Stabilize(n) \/ FixFingers(n) \/ \E b \in ChordNodes : ChordJoin(n, b)
  \/ \E n \in ChordNodes, a \in DhtAddrs : DhtInsert(n, a)
  \/ \E n \in ChordNodes, k \in Positions : DhtSweep(n, k)

(* stabilize is periodic on every node; fix_fingers may lag behind for ever. *)
ChordFairness == \A n \in ChordNodes : WF_chordVars(Stabilize(n))
ChordSpec == ChordInit /\ [][ChordNext]_chordVars /\ ChordFairness

-----------------------------------------------------------------------------
ChordTypeOK == \A n \in ChordNodes : chord[n].succ \in ChordNodes /\ chord[n].pred \in ChordNodes \cup {NoNode}

(* After the last join stabilize makes every successor pointer the next node of    *)
(* the ring, for good, in whatever order the nodes run it.                         *)
RingConverges == <>[]RingRight

(* "查询请求通过 DHT put/get 路由到负责 key 的节点": on a ring whose successors are right, what  *)
(* one node put under a key every node gets, however stale the fingers are, and it *)
(* lies only on nodes that answer for the key, for keys that are no node's own     *)
(* position.                                                                       *)
PutIsFound ==
  \A a \in DhtAddrs, n \in inRing :
    LET k == AddrToKey(a)
    IN (RingRight /\ latest[k] # 0 /\ k \notin ChordNodes)
         => /\ DhtGet(n, a) = latest[k]
            /\ dht[n][k] = latest[k] => IAmResponsibleFor(n, k)
=============================================================================
