--------------------------- MODULE DataPathProofs ---------------------------
(***************************************************************************)
(* Theorems about the data path: the flow shards, the raw-frame (L2)       *)
(* plane, source-routed packets, the Registered I/O plane, forward error   *)
(* correction, the TUN reader, and fragmentation with reassembly.          *)
(***************************************************************************)
EXTENDS FlowShards, L2Plane, MultiHop, Rio, Fec, TunReader, Reassembly, NatLemmas,
        FiniteSetTheorems, SequenceTheorems

-----------------------------------------------------------------------------
(* Flow shards.  What a worker still has to do is one line of tasks: its    *)
(* batch and then its queue.  The packets of a flow stand in one line, in   *)
(* the order of their numbers, behind those that left.                      *)

Packets == [task : {"Seal", "Send"}, flow : Flows, no : Nat]
Tasks ==
  Packets \cup [task : {"Data"}, outcome : {m.outcome : m \in InFrames}] \cup [task : {"Shutdown"}]

ShardStates ==
  [ok : BOOLEAN, q : [Workers -> Seq(Tasks)], batch : [Workers -> Seq(Tasks)],
   live : [Workers -> BOOLEAN], counters : [Totals -> Nat]]

Line(s, k) == s.batch[k] \o s.q[k]

InRow(l) ==
  \A i, j \in 1..Len(l) :
    i < j /\ l[i] \in Packets /\ l[j] \in Packets /\ l[i].flow = l[j].flow => l[i].no < l[j].no

Behind(t, k, sent, out) ==
  /\ ShardOf(t.flow) = k /\ t.no <= sent[t.flow]
  /\ \A x \in 1..Len(out[t.flow]) : out[t.flow][x] < t.no

LineOk(l, k, sent, out) ==
  InRow(l) /\ \A i \in 1..Len(l) : l[i] \in Packets => Behind(l[i], k, sent, out)

LeftOk(s, n) ==
  /\ \A x \in 1..Len(s) : s[x] <= n
  /\ \A x \in 1..Len(s) - 1 : s[x] < s[x + 1]

FsInv ==
  /\ fs \in ShardStates /\ hubOn \in BOOLEAN /\ fsOff \in [Totals -> Nat]
  /\ fsSent \in [Flows -> Nat] /\ fsOut \in [Flows -> Seq(Nat)]
  /\ \A k \in Workers : LineOk(Line(fs, k), k, fsSent, fsOut)
  /\ \A f \in Flows : LeftOk(fsOut[f], fsSent[f])

LEMMA FsConstants ==
  /\ FsShards \in Nat /\ FsShards # 0 /\ BatchMax \in Nat /\ BatchMax # 0
  /\ \A f \in Flows : ShardOf(f) \in Workers
  /\ \A m \in InFrames : m.epoch % FsShards \in Workers
<1>1. FsShards \in Nat /\ FsShards # 0 /\ BatchMax \in Nat /\ BatchMax # 0
  BY FlowShardsAssumption
<1>2. \A n \in Nat : n % FsShards \in Workers
  BY <1>1 DEF Workers
<1>. QED BY <1>1, <1>2, FlowShardsAssumption DEF ShardOf

-----------------------------------------------------------------------------
(* What each step does to a line. *)

LEMMA LineEmpty == ASSUME NEW k, NEW sent, NEW out PROVE LineOk(<<>>, k, sent, out)
BY DEF LineOk, InRow

LEMMA LineTail ==
  ASSUME NEW l \in Seq(Tasks), l # <<>>, NEW k, NEW sent, NEW out, LineOk(l, k, sent, out)
  PROVE  LineOk(Tail(l), k, sent, out)
<1>1. /\ Tail(l) \in Seq(Tasks) /\ Len(l) \in Nat /\ Len(Tail(l)) = Len(l) - 1
      /\ \A i \in 1..Len(Tail(l)) : Tail(l)[i] = l[i + 1] /\ i + 1 \in 1..Len(l)
  BY HeadTailProperties, LenProperties
<1>2. InRow(Tail(l))
  <2>. SUFFICES ASSUME NEW i \in 1..Len(Tail(l)), NEW j \in 1..Len(Tail(l)), i < j,
                       Tail(l)[i] \in Packets, Tail(l)[j] \in Packets,
                       Tail(l)[i].flow = Tail(l)[j].flow
                PROVE  Tail(l)[i].no < Tail(l)[j].no
    BY DEF InRow
  <2>1. i + 1 \in 1..Len(l) /\ j + 1 \in 1..Len(l) /\ i + 1 < j + 1
    BY <1>1
  <2>. QED BY <1>1, <2>1 DEF LineOk, InRow
<1>3. \A i \in 1..Len(Tail(l)) : Tail(l)[i] \in Packets => Behind(Tail(l)[i], k, sent, out)
  BY <1>1 DEF LineOk
<1>. QED BY <1>2, <1>3 DEF LineOk

\* A task that is no packet may join a line at its end.
LEMMA LineTold ==
  ASSUME NEW l \in Seq(Tasks), NEW t \in Tasks, t \notin Packets,
         NEW k, NEW sent, NEW out, LineOk(l, k, sent, out)
  PROVE  LineOk(Append(l, t), k, sent, out)
<1>1. /\ Len(l) \in Nat /\ Len(Append(l, t)) = Len(l) + 1
      /\ \A i \in 1..Len(l) : Append(l, t)[i] = l[i]
      /\ Append(l, t)[Len(l) + 1] = t
  BY AppendProperties, LenProperties
<1>2. \A i \in 1..Len(Append(l, t)) : Append(l, t)[i] \in Packets => i \in 1..Len(l)
  BY <1>1
<1>. QED BY <1>1, <1>2 DEF LineOk, InRow

\* A packet joins at the end with the next number of its flow.
LEMMA LineDispatch ==
  ASSUME NEW l \in Seq(Tasks), NEW f \in Flows, NEW sent \in [Flows -> Nat],
         NEW out \in [Flows -> Seq(Nat)], LeftOk(out[f], sent[f]),
         LineOk(l, ShardOf(f), sent, out), NEW t \in Packets, t.flow = f, t.no = sent[f] + 1
  PROVE  LineOk(Append(l, t), ShardOf(f), [sent EXCEPT ![f] = @ + 1], out)
<1>. DEFINE a == Append(l, t)
            more == [sent EXCEPT ![f] = @ + 1]
<1>1. /\ Len(l) \in Nat /\ Len(a) = Len(l) + 1
      /\ \A i \in 1..Len(l) : a[i] = l[i]
      /\ a[Len(l) + 1] = t
  <2>1. t \in Tasks
    BY DEF Tasks
  <2>. QED BY <2>1, AppendProperties, LenProperties
<1>2. \A g \in Flows : more[g] \in Nat /\ sent[g] \in Nat /\ sent[g] <= more[g] /\ more[f] = sent[f] + 1
  OBVIOUS
<1>3. \A p \in Packets : p.flow \in Flows /\ p.no \in Nat
  BY DEF Packets
<1>. HIDE DEF a, more
<1>4. InRow(a)
  <2>. SUFFICES ASSUME NEW i \in 1..Len(a), NEW j \in 1..Len(a), i < j,
                       a[i] \in Packets, a[j] \in Packets, a[i].flow = a[j].flow
                PROVE  a[i].no < a[j].no
    BY DEF InRow
  <2>1. i \in 1..Len(l) /\ a[i] = l[i]
    BY <1>1
  <2>2. CASE j \in 1..Len(l)
    <3>1. a[j] = l[j]
      BY <1>1, <2>2
    <3>. QED BY <2>1, <2>2, <3>1 DEF LineOk, InRow
  <2>3. CASE j = Len(l) + 1
    <3>1. a[j] = t /\ l[i].flow = f
      BY <1>1, <2>1, <2>3
    <3>2. l[i].no <= sent[f]
      BY <2>1, <3>1 DEF LineOk, Behind
    <3>. QED BY <1>2, <1>3, <2>1, <3>1, <3>2
  <2>4. j \in 1..Len(l) \/ j = Len(l) + 1
    <3>1. j \in 1..(Len(l) + 1) /\ Len(l) \in Nat
      BY <1>1
    <3>. QED BY <3>1
  <2>. QED BY <2>2, <2>3, <2>4
<1>5. ASSUME NEW i \in 1..Len(a), a[i] \in Packets
      PROVE  Behind(a[i], ShardOf(f), more, out)
  <2>1. CASE i \in 1..Len(l)
    <3>1. a[i] = l[i] /\ Behind(l[i], ShardOf(f), sent, out)
      BY <1>1, <1>5, <2>1 DEF LineOk
    <3>2. l[i].flow \in Flows /\ l[i].no \in Nat
      BY <1>3, <1>5, <3>1
    <3>3. l[i].no <= more[l[i].flow]
      BY <1>2, <3>1, <3>2 DEF Behind
    <3>. QED BY <3>1, <3>3 DEF Behind
  <2>2. CASE i = Len(l) + 1
    <3>1. a[i] = t
      BY <1>1, <2>2
    <3>2. \A x \in 1..Len(out[f]) : out[f][x] < sent[f] + 1
      <4>1. \A x \in 1..Len(out[f]) : out[f][x] \in Nat
        BY ElementOfSeq
      <4>2. sent[f] \in Nat
        OBVIOUS
      <4>. QED BY <4>1, <4>2 DEF LeftOk
    <3>3. t.no <= more[t.flow]
      BY <1>2
    <3>. QED BY <3>1, <3>2, <3>3 DEF Behind
  <2>. QED BY <1>1, <2>1, <2>2
<1>. QED BY <1>4, <1>5 DEF LineOk, a, more

\* The other lines do not notice.
LEMMA LineBystander ==
  ASSUME NEW l \in Seq(Tasks), NEW f \in Flows, NEW sent \in [Flows -> Nat], NEW k, NEW out,
         LineOk(l, k, sent, out)
  PROVE  LineOk(l, k, [sent EXCEPT ![f] = @ + 1], out)
<1>. DEFINE more == [sent EXCEPT ![f] = @ + 1]
<1>1. \A g \in Flows : more[g] \in Nat /\ sent[g] \in Nat /\ sent[g] <= more[g]
  OBVIOUS
<1>2. \A p \in Packets : p.flow \in Flows /\ p.no \in Nat
  BY DEF Packets
<1>. HIDE DEF more
<1>3. ASSUME NEW i \in 1..Len(l), l[i] \in Packets PROVE Behind(l[i], k, more, out)
  <2>1. Behind(l[i], k, sent, out)
    BY <1>3 DEF LineOk
  <2>2. l[i].flow \in Flows /\ l[i].no \in Nat
    BY <1>2, <1>3
  <2>3. l[i].no <= more[l[i].flow]
    BY <1>1, <2>1, <2>2 DEF Behind
  <2>. QED BY <2>1, <2>3 DEF Behind
<1>. QED BY <1>3 DEF LineOk, more

\* The head of a line is sealed and waits to be sent.
LEMMA LineSeal ==
  ASSUME NEW l \in Seq(Tasks), l # <<>>, Head(l) \in Packets, NEW k, NEW sent, NEW out,
         LineOk(l, k, sent, out), NEW t \in Packets, t.flow = Head(l).flow, t.no = Head(l).no
  PROVE  LineOk(<<t>> \o Tail(l), k, sent, out)
<1>. DEFINE s == <<t>> \o Tail(l)
<1>1. /\ Tail(l) \in Seq(Tasks) /\ Len(l) \in Nat \ {0} /\ Len(Tail(l)) = Len(l) - 1
      /\ \A i \in 1..Len(Tail(l)) : Tail(l)[i] = l[i + 1]
      /\ Head(l) = l[1]
  BY HeadTailProperties, LenProperties
<1>2. <<t>> \in Seq(Tasks) /\ Len(<<t>>) = 1 /\ <<t>>[1] = t
  <2>1. t \in Tasks
    BY DEF Tasks
  <2>. QED BY <2>1
<1>3. Len(s) = Len(l) /\ \A i \in 1..Len(s) : s[i] = IF i = 1 THEN t ELSE l[i]
  <2>1. /\ Len(s) = 1 + Len(Tail(l))
        /\ \A i \in 1..1 + Len(Tail(l)) : s[i] = IF i <= 1 THEN <<t>>[i] ELSE Tail(l)[i - 1]
    BY <1>1, <1>2, ConcatProperties
  <2>. QED BY <1>1, <1>2, <2>1
<1>. HIDE DEF s
<1>4. \A i \in 1..Len(s) : /\ s[i] \in Packets => l[i] \in Packets
                           /\ s[i].flow = l[i].flow /\ s[i].no = l[i].no
  BY <1>1, <1>3
<1>5. InRow(s)
  BY <1>3, <1>4 DEF LineOk, InRow
<1>6. \A i \in 1..Len(s) : s[i] \in Packets => Behind(s[i], k, sent, out)
  BY <1>3, <1>4 DEF LineOk, Behind
<1>. QED BY <1>5, <1>6 DEF LineOk, s

Leaving(out, t) == [out EXCEPT ![t.flow] = Append(@, t.no)]

\* The head of a line leaves: the rest of the line is behind it, and the
\* packets of its flow stand in no other line.
LEMMA LineSend ==
  ASSUME NEW l \in Seq(Tasks), l # <<>>, Head(l) \in Packets, NEW k, NEW sent,
         NEW out \in [Flows -> Seq(Nat)], LineOk(l, k, sent, out),
         NEW l2 \in Seq(Tasks), NEW k2, LineOk(l2, k2, sent, out), k2 # k
  PROVE  /\ LineOk(Tail(l), k, sent, Leaving(out, Head(l)))
         /\ LineOk(l2, k2, sent, Leaving(out, Head(l)))
<1>. DEFINE t == Head(l)
            left == Leaving(out, t)
<1>1. /\ Tail(l) \in Seq(Tasks) /\ Len(l) \in Nat \ {0} /\ Len(Tail(l)) = Len(l) - 1
      /\ \A i \in 1..Len(Tail(l)) : Tail(l)[i] = l[i + 1] /\ i + 1 \in 2..Len(l)
      /\ t = l[1] /\ 1 \in 1..Len(l)
  BY HeadTailProperties, LenProperties
<1>2. \A p \in Packets : p.flow \in Flows /\ p.no \in Nat
  BY DEF Packets
<1>3. /\ \A g \in Flows : g # t.flow => left[g] = out[g]
      /\ left[t.flow] = Append(out[t.flow], t.no) /\ out[t.flow] \in Seq(Nat) /\ t.no \in Nat
  <2>1. t.flow \in Flows /\ t.no \in Nat
    BY <1>2
  <2>2. left = [out EXCEPT ![t.flow] = Append(out[t.flow], t.no)]
    BY DEF Leaving
  <2>. HIDE DEF left, t
  <2>. QED BY <2>1, <2>2
<1>. HIDE DEF left
<1>4. /\ Len(out[t.flow]) \in Nat /\ Len(left[t.flow]) = Len(out[t.flow]) + 1
      /\ \A x \in 1..Len(out[t.flow]) : left[t.flow][x] = out[t.flow][x]
      /\ left[t.flow][Len(out[t.flow]) + 1] = t.no
  BY <1>3, AppendProperties, LenProperties
<1>5. LineOk(Tail(l), k, sent, out)
  BY LineTail
<1>6. ASSUME NEW i \in 1..Len(Tail(l)), Tail(l)[i] \in Packets
      PROVE  Behind(Tail(l)[i], k, sent, left)
  <2>1. Behind(Tail(l)[i], k, sent, out)
    BY <1>5, <1>6 DEF LineOk
  <2>2. CASE Tail(l)[i].flow # t.flow
    BY <1>2, <1>3, <1>6, <2>1, <2>2 DEF Behind
  <2>3. CASE Tail(l)[i].flow = t.flow
    <3>1. t.no < Tail(l)[i].no
      <4>1. Tail(l)[i] = l[i + 1] /\ i + 1 \in 1..Len(l) /\ 1 < i + 1
        BY <1>1
      <4>. QED BY <1>1, <1>6, <2>3, <4>1 DEF LineOk, InRow
    <3>2. \A x \in 1..Len(left[t.flow]) : left[t.flow][x] < Tail(l)[i].no
      <4>1. ASSUME NEW x \in 1..Len(left[t.flow]) PROVE left[t.flow][x] < Tail(l)[i].no
        <5>1. x \in 1..Len(out[t.flow]) \/ x = Len(out[t.flow]) + 1
          BY <1>4
        <5>2. CASE x \in 1..Len(out[t.flow])
          BY <1>4, <2>1, <2>3, <5>2 DEF Behind
        <5>3. CASE x = Len(out[t.flow]) + 1
          BY <1>4, <3>1, <5>3
        <5>. QED BY <5>1, <5>2, <5>3
      <4>. QED BY <4>1
    <3>. QED BY <2>1, <2>3, <3>2 DEF Behind
  <2>. QED BY <2>2, <2>3
<1>7. ASSUME NEW i \in 1..Len(l2), l2[i] \in Packets
      PROVE  Behind(l2[i], k2, sent, left)
  <2>1. Behind(l2[i], k2, sent, out)
    BY <1>7 DEF LineOk
  <2>2. ShardOf(t.flow) = k
    BY <1>1 DEF LineOk, Behind
  <2>3. l2[i].flow # t.flow
    BY <2>1, <2>2 DEF Behind
  <2>. QED BY <1>2, <1>3, <1>7, <2>1, <2>3 DEF Behind
<1>. QED BY <1>5, <1>6, <1>7 DEF LineOk, left

\* The numbers that left: one more, behind the others.
LEMMA LeftSend ==
  ASSUME NEW s \in Seq(Nat), NEW n \in Nat, LeftOk(s, n), NEW no \in Nat, no <= n,
         \A x \in 1..Len(s) : s[x] < no
  PROVE  LeftOk(Append(s, no), n)
<1>. DEFINE a == Append(s, no)
<1>1. /\ Len(s) \in Nat /\ Len(a) = Len(s) + 1
      /\ \A x \in 1..Len(s) : a[x] = s[x]
      /\ a[Len(s) + 1] = no
  BY AppendProperties, LenProperties
<1>. HIDE DEF a
<1>2. \A x \in 1..Len(a) : x \in 1..Len(s) \/ x = Len(s) + 1
  BY <1>1
<1>3. \A x \in 1..Len(a) : a[x] <= n
  BY <1>1, <1>2 DEF LeftOk
<1>4. ASSUME NEW x \in 1..Len(a) - 1 PROVE a[x] < a[x + 1]
  <2>1. /\ x \in 1..Len(s)
        /\ \/ x \in 1..Len(s) - 1 /\ x + 1 \in 1..Len(s)
           \/ x + 1 = Len(s) + 1
    BY <1>1
  <2>. QED BY <1>1, <2>1 DEF LeftOk
<1>. QED BY <1>3, <1>4 DEF LeftOk, a

LEMMA LeftMore ==
  ASSUME NEW s \in Seq(Nat), NEW n \in Nat, LeftOk(s, n)
  PROVE  LeftOk(s, n + 1)
<1>1. \A x \in 1..Len(s) : s[x] \in Nat
  BY ElementOfSeq
<1>. QED BY <1>1 DEF LeftOk

-----------------------------------------------------------------------------
(* A line is a batch and a queue. *)

LEMMA BatchAndQueue ==
  ASSUME NEW b \in Seq(Tasks), NEW q \in Seq(Tasks)
  PROVE  /\ b \o q \in Seq(Tasks)
         /\ \A t \in Tasks : b \o Append(q, t) = Append(b \o q, t)
         /\ b # <<>> => /\ b \o q # <<>> /\ Head(b \o q) = Head(b)
                       /\ Head(b) \in Tasks
                       /\ Tail(b) \o q = Tail(b \o q)
         /\ \A t \in Tasks : b # <<>> => (<<t>> \o Tail(b)) \o q = <<t>> \o Tail(b \o q)
<1>1. b \o q \in Seq(Tasks)
  BY ConcatProperties
<1>2. ASSUME NEW t \in Tasks PROVE b \o Append(q, t) = Append(b \o q, t)
  <2>1. <<t>> \in Seq(Tasks)
    OBVIOUS
  <2>2. Append(q, t) = q \o <<t>> /\ Append(b \o q, t) = (b \o q) \o <<t>>
    BY <1>1, AppendIsConcat
  <2>. QED BY <2>1, <2>2, ConcatAssociative
<1>3. ASSUME b # <<>>
      PROVE  /\ b \o q # <<>> /\ Head(b \o q) = Head(b) /\ Head(b) \in Tasks
             /\ Tail(b) \o q = Tail(b \o q)
  <2>1. /\ Len(b) \in Nat \ {0} /\ Len(q) \in Nat
        /\ Tail(b) \in Seq(Tasks) /\ Len(Tail(b)) = Len(b) - 1 /\ Head(b) \in Tasks
        /\ \A i \in 1..Len(Tail(b)) : Tail(b)[i] = b[i + 1]
    BY <1>3, HeadTailProperties, LenProperties
  <2>2. /\ Len(b \o q) = Len(b) + Len(q)
        /\ \A i \in 1..Len(b) + Len(q) : (b \o q)[i] = IF i <= Len(b) THEN b[i] ELSE q[i - Len(b)]
    BY ConcatProperties
  <2>3. b \o q # <<>> /\ Head(b \o q) = Head(b)
    <3>1. b \o q # <<>>
      BY <1>1, <2>1, <2>2, LenProperties
    <3>2. Head(b \o q) = (b \o q)[1] /\ Head(b) = b[1]
      BY <1>1, <1>3, <3>1
    <3>. QED BY <2>1, <2>2, <3>1, <3>2
  <2>4. /\ Tail(b \o q) \in Seq(Tasks) /\ Len(Tail(b \o q)) = Len(b) + Len(q) - 1
        /\ \A i \in 1..Len(Tail(b \o q)) : Tail(b \o q)[i] = (b \o q)[i + 1]
    BY <1>1, <2>2, <2>3, HeadTailProperties
  <2>5. /\ Tail(b) \o q \in Seq(Tasks) /\ Len(Tail(b) \o q) = Len(b) - 1 + Len(q)
        /\ \A i \in 1..Len(b) - 1 + Len(q) :
              (Tail(b) \o q)[i] = IF i <= Len(b) - 1 THEN Tail(b)[i] ELSE q[i - (Len(b) - 1)]
    BY <2>1, ConcatProperties
  <2>6. Len(Tail(b) \o q) = Len(Tail(b \o q))
    BY <2>1, <2>4, <2>5
  <2>7. ASSUME NEW i \in 1..Len(Tail(b) \o q) PROVE (Tail(b) \o q)[i] = Tail(b \o q)[i]
    <3>1. i \in 1..Len(b) - 1 + Len(q) /\ i + 1 \in 1..Len(b) + Len(q)
      BY <2>1, <2>5
    <3>2. Tail(b \o q)[i] = (b \o q)[i + 1]
      BY <2>4, <2>6
    <3>3. CASE i <= Len(b) - 1
      BY <2>1, <2>2, <2>5, <3>1, <3>2, <3>3
    <3>4. CASE i > Len(b) - 1
      <4>1. i - (Len(b) - 1) = i + 1 - Len(b) /\ ~(i + 1 <= Len(b)) /\ ~(i <= Len(b) - 1)
        BY <2>1, <3>1, <3>4
      <4>. QED BY <2>2, <2>5, <3>1, <3>2, <4>1
    <3>. QED BY <2>1, <3>1, <3>3, <3>4
  <2>8. Tail(b) \o q = Tail(b \o q)
    BY <2>4, <2>5, <2>6, <2>7, SeqEqual
  <2>. QED BY <2>1, <2>3, <2>8
<1>4. ASSUME NEW t \in Tasks, b # <<>> PROVE (<<t>> \o Tail(b)) \o q = <<t>> \o Tail(b \o q)
  <2>1. <<t>> \in Seq(Tasks) /\ Tail(b) \in Seq(Tasks)
    BY <1>4, HeadTailProperties
  <2>2. (<<t>> \o Tail(b)) \o q = <<t>> \o (Tail(b) \o q)
    BY <2>1, ConcatAssociative
  <2>. QED BY <1>3, <1>4, <2>2
<1>. QED BY <1>1, <1>2, <1>3, <1>4

-----------------------------------------------------------------------------
(* The steps.  FsShape is the type part of the invariant. *)

FsShape ==
  /\ fs \in ShardStates /\ hubOn \in BOOLEAN /\ fsOff \in [Totals -> Nat]
  /\ fsSent \in [Flows -> Nat] /\ fsOut \in [Flows -> Seq(Nat)]

\* A step of worker k that leaves the numbers alone keeps the invariant if
\* it keeps k's line in order.
LEMMA WorkerKeeps ==
  ASSUME FsInv, NEW k \in Workers, fs' \in ShardStates,
         LineOk(Line(fs', k), k, fsSent, fsOut),
         \A j \in Workers : j # k => fs'.batch[j] = fs.batch[j] /\ fs'.q[j] = fs.q[j],
         UNCHANGED <<hubOn, fsOff, fsSent, fsOut>>
  PROVE  FsInv'
<1>1. \A j \in Workers : LineOk(Line(fs', j), j, fsSent, fsOut)
  BY DEF FsInv, Line
<1>. QED BY <1>1 DEF FsInv

LEMMA LinesAreSeqs ==
  ASSUME FsInv, NEW k \in Workers
  PROVE  /\ fs.batch[k] \in Seq(Tasks) /\ fs.q[k] \in Seq(Tasks)
         /\ Line(fs, k) \in Seq(Tasks) /\ LineOk(Line(fs, k), k, fsSent, fsOut)
<1>1. fs.batch[k] \in Seq(Tasks) /\ fs.q[k] \in Seq(Tasks)
  BY DEF FsInv, ShardStates
<1>. QED BY <1>1, BatchAndQueue DEF FsInv, Line

LEMMA LineAppend ==
  ASSUME NEW s, NEW s2, NEW k, s.batch[k] \in Seq(Tasks), s.q[k] \in Seq(Tasks), NEW t \in Tasks,
         s2.batch[k] = s.batch[k], s2.q[k] = Append(s.q[k], t)
  PROVE  Line(s2, k) = Append(Line(s, k), t)
<1>. DEFINE b == s.batch[k]
            q == s.q[k]
<1>1. b \o Append(q, t) = Append(b \o q, t)
  BY BatchAndQueue
<1>. QED BY <1>1 DEF Line

LEMMA CutInTwo ==
  ASSUME NEW q \in Seq(Tasks), NEW n \in 0..Len(q)
  PROVE  SubSeq(q, 1, n) \o SubSeq(q, n + 1, Len(q)) = q
<1>1. Len(q) \in Nat
  BY LenProperties
<1>2. 1 \in 1..Len(q) + 1 /\ n \in 1 - 1..Len(q) /\ Len(q) \in n..Len(q)
  BY <1>1
<1>3. SubSeq(q, 1, n) \o SubSeq(q, n + 1, Len(q)) = SubSeq(q, 1, Len(q))
  BY <1>2, ConcatAdjacentSubSeq
<1>. QED BY <1>3, SubSeqFull

LEMMA SealDispatchKeeps == ASSUME FsInv, NEW f \in Flows, SealDispatch(f) PROVE FsInv'
<1>. DEFINE k == ShardOf(f)
            t == [task |-> "Seal", flow |-> f, no |-> fsSent[f] + 1]
<1>1. k \in Workers /\ fsSent \in [Flows -> Nat] /\ fsOut \in [Flows -> Seq(Nat)] /\ fsSent[f] \in Nat
  BY FsConstants DEF FsInv
<1>2. t \in Packets /\ t \in Tasks
  BY <1>1 DEF Packets, Tasks
<1>. DEFINE l == Line(fs, k)
<1>3. /\ fs.batch[k] \in Seq(Tasks) /\ fs.q[k] \in Seq(Tasks)
      /\ l \in Seq(Tasks) /\ LineOk(l, k, fsSent, fsOut)
  BY <1>1, LinesAreSeqs
<1>4. /\ fs' \in ShardStates /\ fs'.batch = fs.batch
      /\ fs'.q[k] = Append(fs.q[k], t) /\ \A j \in Workers : j # k => fs'.q[j] = fs.q[j]
  <2>1. fs' = [fs EXCEPT !.q[k] = Append(fs.q[k], t)] /\ fs \in ShardStates
    BY DEF SealDispatch, FsInv
  <2>2. Append(fs.q[k], t) \in Seq(Tasks)
    BY <1>2, <1>3, AppendProperties
  <2>. HIDE DEF t, k
  <2>. QED BY <1>1, <2>1, <2>2 DEF ShardStates
<1>5. fsSent' = [fsSent EXCEPT ![f] = @ + 1] /\ UNCHANGED <<hubOn, fsOff, fsOut>>
  BY DEF SealDispatch
<1>6. Line(fs', k) = Append(l, t)
  <2>. HIDE DEF t
  <2>1. fs'.batch[k] = fs.batch[k]
    BY <1>4
  <2>. HIDE DEF t, k
  <2>. QED BY <1>2, <1>3, <1>4, <2>1, LineAppend
<1>7. LeftOk(fsOut[f], fsSent[f])
  BY DEF FsInv
<1>8. LineOk(Line(fs', k), k, fsSent', fsOut)
  <2>1. t.flow = f /\ t.no = fsSent[f] + 1
    OBVIOUS
  <2>. HIDE DEF t, l
  <2>. QED BY <1>1, <1>2, <1>3, <1>5, <1>6, <1>7, <2>1, LineDispatch
<1>9. ASSUME NEW j \in Workers, j # k PROVE LineOk(Line(fs', j), j, fsSent', fsOut)
  <2>1. Line(fs, j) \in Seq(Tasks) /\ LineOk(Line(fs, j), j, fsSent, fsOut)
    BY LinesAreSeqs
  <2>2. Line(fs', j) = Line(fs, j)
    BY <1>4, <1>9 DEF Line
  <2>. QED BY <1>1, <1>5, <2>1, <2>2, LineBystander
<1>10. ASSUME NEW g \in Flows PROVE LeftOk(fsOut[g], fsSent'[g])
  <2>1. LeftOk(fsOut[g], fsSent[g]) /\ fsOut[g] \in Seq(Nat) /\ fsSent[g] \in Nat
    BY <1>1 DEF FsInv
  <2>2. fsSent'[g] = fsSent[g] \/ fsSent'[g] = fsSent[g] + 1
    BY <1>1, <1>5
  <2>. QED BY <2>1, <2>2, LeftMore
<1>11. fsSent' \in [Flows -> Nat]
  BY <1>1, <1>5
<1>. HIDE DEF k
<1>. QED BY <1>1, <1>4, <1>5, <1>8, <1>9, <1>10, <1>11 DEF FsInv

LEMMA BumpKeeps ==
  ASSUME NEW s \in ShardStates, NEW c \in Totals
  PROVE  /\ [s EXCEPT !.counters[c] = @ + 1] \in ShardStates
         /\ [s EXCEPT !.counters[c] = @ + 1].batch = s.batch
         /\ [s EXCEPT !.counters[c] = @ + 1].q = s.q
         /\ \A d \in Totals : [s EXCEPT !.counters[c] = @ + 1].counters[d] >= s.counters[d]
<1>. DEFINE v == [s.counters EXCEPT ![c] = @ + 1]
            b == [s EXCEPT !.counters = v]
<1>1. s.counters \in [Totals -> Nat]
  BY DEF ShardStates
<1>2. v \in [Totals -> Nat] /\ \A d \in Totals : v[d] >= s.counters[d]
  BY <1>1
<1>. HIDE DEF v
<1>3. b \in ShardStates /\ b.batch = s.batch /\ b.q = s.q /\ b.counters = v
  BY <1>2 DEF ShardStates
<1>4. [s EXCEPT !.counters[c] = @ + 1] = b
  BY DEF v
<1>. QED BY <1>2, <1>3, <1>4

LEMMA FeedKeeps == ASSUME FsInv, NEW m \in InFrames, Feed(m) PROVE FsInv'
<1>. DEFINE k == m.epoch % FsShards
            t == [task |-> "Data", outcome |-> m.outcome]
<1>1. k \in Workers
  BY FsConstants
<1>2. t \in Tasks /\ t \notin Packets
  BY DEF Tasks, Packets
<1>3. /\ fs.batch[k] \in Seq(Tasks) /\ fs.q[k] \in Seq(Tasks) /\ Line(fs, k) \in Seq(Tasks)
      /\ LineOk(Line(fs, k), k, fsSent, fsOut)
  BY <1>1, LinesAreSeqs
<1>4. UNCHANGED <<hubOn, fsOff, fsSent, fsOut>> /\ fs \in ShardStates
  BY DEF Feed, FsInv
<1>5. CASE fs.live[k]
  <2>1. /\ fs' \in ShardStates /\ fs'.batch = fs.batch
        /\ fs'.q[k] = Append(fs.q[k], t) /\ \A j \in Workers : j # k => fs'.q[j] = fs.q[j]
    <3>1. fs' = [fs EXCEPT !.q[k] = Append(fs.q[k], t)]
      BY <1>5 DEF Feed
    <3>2. Append(fs.q[k], t) \in Seq(Tasks)
      BY <1>2, <1>3, AppendProperties
    <3>. HIDE DEF t, k
    <3>. QED BY <1>1, <1>4, <3>1, <3>2 DEF ShardStates
  <2>2. Line(fs', k) = Append(Line(fs, k), t)
    <3>1. fs'.batch[k] = fs.batch[k]
      BY <2>1
    <3>. HIDE DEF t, k
    <3>. QED BY <1>2, <1>3, <2>1, <3>1, LineAppend
  <2>. HIDE DEF t, k
  <2>3. LineOk(Line(fs', k), k, fsSent, fsOut)
    BY <1>2, <1>3, <2>2, LineTold
  <2>. QED BY <1>1, <1>4, <2>1, <2>3, WorkerKeeps
<1>6. CASE ~fs.live[k]
  <2>1. fs' = Bump("dropped")
    BY <1>6 DEF Feed
  <2>2. fs' \in ShardStates /\ fs'.batch = fs.batch /\ fs'.q = fs.q
    BY <1>4, <2>1, BumpKeeps DEF Bump, Totals
  <2>3. \A j \in Workers : Line(fs', j) = Line(fs, j)
    BY <2>2 DEF Line
  <2>. QED BY <1>4, <2>2, <2>3 DEF FsInv
<1>. QED BY <1>5, <1>6

LEMMA TakeBatchKeeps == ASSUME FsInv, NEW k \in Workers, TakeBatch(k) PROVE FsInv'
<1>. DEFINE q == fs.q[k]
            n == IF Len(q) < BatchMax THEN Len(q) ELSE BatchMax
            s1 == SubSeq(q, 1, n)
            s2 == SubSeq(q, n + 1, Len(q))
<1>1. /\ q \in Seq(Tasks) /\ fs.batch[k] = <<>> /\ LineOk(Line(fs, k), k, fsSent, fsOut)
      /\ UNCHANGED <<hubOn, fsOff, fsSent, fsOut>> /\ fs \in ShardStates
  BY LinesAreSeqs DEF TakeBatch, FsInv
<1>2. n \in 0..Len(q) /\ Len(q) \in Nat
  BY <1>1, FsConstants, LenProperties
<1>3. s1 \in Seq(Tasks) /\ s2 \in Seq(Tasks)
  <2>1. \A i \in 1..Len(q) : q[i] \in Tasks
    BY <1>1, ElementOfSeq
  <2>2. \A i \in 1..n : q[i] \in Tasks
    BY <1>2, <2>1
  <2>3. \A i \in (n + 1)..Len(q) : q[i] \in Tasks
    BY <1>2, <2>1
  <2>. HIDE DEF n
  <2>. QED BY <1>2, <2>2, <2>3, SubSeqProperties
<1>4. s1 \o s2 = q
  <2>. HIDE DEF n
  <2>. QED BY <1>1, <1>2, CutInTwo
<1>5. /\ fs' \in ShardStates /\ fs'.batch[k] = s1 /\ fs'.q[k] = s2
      /\ \A j \in Workers : j # k => fs'.batch[j] = fs.batch[j] /\ fs'.q[j] = fs.q[j]
  <2>1. fs' = [fs EXCEPT !.batch[k] = s1, !.q[k] = s2]
    BY DEF TakeBatch
  <2>. HIDE DEF s1, s2
  <2>. QED BY <1>1, <1>3, <2>1 DEF ShardStates
<1>6. Line(fs', k) = Line(fs, k)
  BY <1>1, <1>4, <1>5, ConcatEmptySeq DEF Line
<1>. HIDE DEF s1, s2
<1>. QED BY <1>1, <1>5, <1>6, WorkerKeeps

\* The worker is done with the head of its batch.
LEMMA RestOfLine ==
  ASSUME FsInv, NEW k \in Workers, fs.batch[k] # <<>>
  PROVE  /\ Rest(k) \in ShardStates /\ Rest(k).q = fs.q /\ Rest(k).counters = fs.counters
         /\ \A j \in Workers : j # k => Rest(k).batch[j] = fs.batch[j]
         /\ Line(Rest(k), k) = Tail(Line(fs, k)) /\ Line(fs, k) # <<>>
         /\ Head(Line(fs, k)) = Head(fs.batch[k]) /\ Head(fs.batch[k]) \in Tasks
         /\ LineOk(Line(Rest(k), k), k, fsSent, fsOut)
<1>1. /\ fs.batch[k] \in Seq(Tasks) /\ fs.q[k] \in Seq(Tasks) /\ Line(fs, k) \in Seq(Tasks)
      /\ LineOk(Line(fs, k), k, fsSent, fsOut) /\ fs \in ShardStates
  BY LinesAreSeqs DEF FsInv
<1>2. Tail(fs.batch[k]) \in Seq(Tasks)
  BY <1>1, HeadTailProperties
<1>3. /\ Rest(k) \in ShardStates /\ Rest(k).q = fs.q /\ Rest(k).counters = fs.counters
      /\ Rest(k).batch[k] = Tail(fs.batch[k])
      /\ \A j \in Workers : j # k => Rest(k).batch[j] = fs.batch[j]
  BY <1>1, <1>2 DEF Rest, ShardStates
<1>4. /\ Tail(fs.batch[k]) \o fs.q[k] = Tail(fs.batch[k] \o fs.q[k])
      /\ fs.batch[k] \o fs.q[k] # <<>>
      /\ Head(fs.batch[k] \o fs.q[k]) = Head(fs.batch[k]) /\ Head(fs.batch[k]) \in Tasks
  BY <1>1, BatchAndQueue
<1>5. /\ Line(Rest(k), k) = Tail(Line(fs, k)) /\ Line(fs, k) # <<>>
      /\ Head(Line(fs, k)) = Head(fs.batch[k])
  BY <1>3, <1>4 DEF Line
<1>6. LineOk(Tail(Line(fs, k)), k, fsSent, fsOut)
  BY <1>1, <1>5, LineTail
<1>. QED BY <1>3, <1>4, <1>5, <1>6

\* ... and may have counted it.
LEMMA RestAndBump ==
  ASSUME FsInv, NEW k \in Workers, fs.batch[k] # <<>>, NEW c \in Totals
  PROVE  LET s == [Rest(k) EXCEPT !.counters[c] = @ + 1]
         IN  /\ s \in ShardStates /\ s.q = fs.q /\ s.batch = Rest(k).batch
             /\ \A j \in Workers : j # k => s.batch[j] = fs.batch[j] /\ s.q[j] = fs.q[j]
             /\ Line(s, k) = Tail(Line(fs, k))
             /\ LineOk(Line(s, k), k, fsSent, fsOut)
             /\ \A d \in Totals : s.counters[d] >= fs.counters[d]
<1>. DEFINE r == Rest(k)
            s == [r EXCEPT !.counters[c] = @ + 1]
<1>1. /\ r \in ShardStates /\ r.q = fs.q /\ r.counters = fs.counters
      /\ \A j \in Workers : j # k => r.batch[j] = fs.batch[j]
      /\ Line(r, k) = Tail(Line(fs, k)) /\ LineOk(Line(r, k), k, fsSent, fsOut)
  BY RestOfLine
<1>. HIDE DEF r
<1>2. /\ s \in ShardStates /\ s.batch = r.batch /\ s.q = r.q
      /\ \A d \in Totals : s.counters[d] >= r.counters[d]
  BY <1>1, BumpKeeps
<1>. HIDE DEF s
<1>3. Line(s, k) = Line(r, k)
  BY <1>2 DEF Line
<1>4. /\ s \in ShardStates /\ s.q = fs.q /\ s.batch = r.batch
      /\ \A j \in Workers : j # k => s.batch[j] = fs.batch[j] /\ s.q[j] = fs.q[j]
      /\ Line(s, k) = Tail(Line(fs, k))
      /\ LineOk(Line(s, k), k, fsSent, fsOut)
      /\ \A d \in Totals : s.counters[d] >= fs.counters[d]
  BY <1>1, <1>2, <1>3
<1>. QED BY <1>4 DEF s, r

LEMMA DoSealKeeps ==
  ASSUME FsInv, NEW k \in Workers, NEW refused \in BOOLEAN, DoSeal(k, refused)
  PROVE  FsInv'
<1>. DEFINE t == Head(fs.batch[k])
<1>1. /\ fs.batch[k] # <<>> /\ t.task = "Seal"
      /\ UNCHANGED <<hubOn, fsOff, fsSent, fsOut>> /\ fs \in ShardStates
  BY DEF DoSeal, FsInv
<1>2. CASE ~fs.ok
  <2>1. fs' = Rest(k)
    BY <1>2 DEF DoSeal
  <2>. QED BY <1>1, <2>1, RestOfLine, WorkerKeeps
<1>3. CASE fs.ok /\ refused
  <2>1. fs' = [Rest(k) EXCEPT !.counters["dropped"] = @ + 1]
    BY <1>3 DEF DoSeal
  <2>2. "dropped" \in Totals
    BY DEF Totals
  <2>. QED BY <1>1, <2>1, <2>2, RestAndBump, WorkerKeeps
<1>4. CASE fs.ok /\ ~refused
  <2>. DEFINE u == [t EXCEPT !.task = "Send"]
              b == fs.batch[k]
              q == fs.q[k]
  <2>1. /\ b \in Seq(Tasks) /\ q \in Seq(Tasks) /\ Line(fs, k) = b \o q
        /\ Line(fs, k) \in Seq(Tasks) /\ LineOk(Line(fs, k), k, fsSent, fsOut)
    BY LinesAreSeqs DEF Line
  <2>2. /\ t \in Tasks /\ Line(fs, k) # <<>> /\ Head(Line(fs, k)) = t
    BY <1>1, RestOfLine
  <2>3. t \in Packets
    BY <1>1, <2>2 DEF Tasks
  <2>4. u \in Packets /\ u.flow = t.flow /\ u.no = t.no /\ u \in Tasks
    BY <2>3 DEF Packets, Tasks
  <2>. HIDE DEF u, t
  <2>5. (<<u>> \o Tail(b)) \o q = <<u>> \o Tail(b \o q) /\ <<u>> \o Tail(b) \in Seq(Tasks)
    <3>1. <<u>> \in Seq(Tasks)
      BY <2>4
    <3>2. Tail(b) \in Seq(Tasks)
      BY <1>1, <2>1, HeadTailProperties
    <3>3. (<<u>> \o Tail(b)) \o q = <<u>> \o Tail(b \o q)
      BY <1>1, <2>1, <2>4, BatchAndQueue
    <3>. QED BY <3>1, <3>2, <3>3, ConcatProperties
  <2>6. LineOk(<<u>> \o Tail(b \o q), k, fsSent, fsOut)
    BY <2>1, <2>2, <2>3, <2>4, LineSeal
  <2>7. fs' = [fs EXCEPT !.batch[k] = <<u>> \o Tail(fs.batch[k])]
    BY <1>4 DEF DoSeal, u, t
  <2>8. /\ fs' \in ShardStates /\ fs'.q = fs.q /\ fs'.batch[k] = <<u>> \o Tail(b)
        /\ \A j \in Workers : j # k => fs'.batch[j] = fs.batch[j]
    BY <1>1, <2>5, <2>7 DEF ShardStates
  <2>9. Line(fs', k) = <<u>> \o Tail(b \o q)
    BY <2>5, <2>8 DEF Line
  <2>10. \A j \in Workers : j # k => fs'.batch[j] = fs.batch[j] /\ fs'.q[j] = fs.q[j]
    BY <2>8
  <2>. QED BY <1>1, <2>6, <2>8, <2>9, <2>10, WorkerKeeps
<1>. QED BY <1>2, <1>3, <1>4

LEMMA DoDataKeeps == ASSUME FsInv, NEW k \in Workers, DoData(k) PROVE FsInv'
<1>. DEFINE t == Head(fs.batch[k])
<1>1. fs.batch[k] # <<>> /\ UNCHANGED <<hubOn, fsOff, fsSent, fsOut>>
  BY DEF DoData
<1>2. CASE t.outcome \in Totals
  <2>1. fs' = [Rest(k) EXCEPT !.counters[t.outcome] = @ + 1]
    BY <1>2 DEF DoData
  <2>. HIDE DEF t
  <2>. QED BY <1>1, <1>2, <2>1, RestAndBump, WorkerKeeps
<1>3. CASE t.outcome \notin Totals
  <2>1. fs' = Rest(k)
    BY <1>3 DEF DoData
  <2>. QED BY <1>1, <2>1, RestOfLine, WorkerKeeps
<1>. QED BY <1>2, <1>3

LEMMA DoShutdownKeeps == ASSUME FsInv, NEW k \in Workers, DoShutdown(k) PROVE FsInv'
<1>1. /\ fs' = [fs EXCEPT !.live[k] = FALSE, !.batch[k] = <<>>, !.q[k] = <<>>]
      /\ UNCHANGED <<hubOn, fsOff, fsSent, fsOut>> /\ fs \in ShardStates
  BY DEF DoShutdown, FsInv
<1>2. <<>> \in Seq(Tasks)
  OBVIOUS
<1>3. /\ fs' \in ShardStates /\ fs'.batch[k] = <<>> /\ fs'.q[k] = <<>>
      /\ \A j \in Workers : j # k => fs'.batch[j] = fs.batch[j] /\ fs'.q[j] = fs.q[j]
  BY <1>1, <1>2 DEF ShardStates
<1>4. Line(fs', k) = <<>>
  BY <1>2, <1>3, ConcatEmptySeq DEF Line
<1>. QED BY <1>1, <1>3, <1>4, LineEmpty, WorkerKeeps

LEMMA DoSendKeeps == ASSUME FsInv, NEW k \in Workers, DoSend(k) PROVE FsInv'
<1>. DEFINE t == Head(fs.batch[k])
            l == Line(fs, k)
            left == [fsOut EXCEPT ![t.flow] = Append(@, t.no)]
<1>1. /\ fs.batch[k] # <<>> /\ t.task = "Send" /\ fsOut' = left
      /\ fs' = [Rest(k) EXCEPT !.counters["sealed"] = @ + 1]
      /\ UNCHANGED <<hubOn, fsOff, fsSent>> /\ fsOut \in [Flows -> Seq(Nat)]
      /\ fsSent \in [Flows -> Nat] /\ hubOn \in BOOLEAN /\ fsOff \in [Totals -> Nat]
  BY DEF DoSend, FsInv
<1>2. /\ t \in Tasks /\ l # <<>> /\ Head(l) = t /\ l \in Seq(Tasks)
      /\ LineOk(l, k, fsSent, fsOut)
  BY <1>1, RestOfLine, LinesAreSeqs
<1>3. t \in Packets /\ t.flow \in Flows /\ t.no \in Nat
  BY <1>1, <1>2 DEF Tasks, Packets
<1>4. "sealed" \in Totals
  BY DEF Totals
<1>5. /\ fs' \in ShardStates /\ Line(fs', k) = Tail(l)
      /\ \A j \in Workers : j # k => fs'.batch[j] = fs.batch[j] /\ fs'.q[j] = fs.q[j]
  BY <1>1, <1>4, RestAndBump
<1>6. Behind(t, k, fsSent, fsOut)
  <2>1. t = l[1] /\ 1 \in 1..Len(l)
    BY <1>2, LenProperties
  <2>. HIDE DEF t, l
  <2>. QED BY <1>2, <1>3, <2>1 DEF LineOk
<1>. HIDE DEF t, l
<1>7. ASSUME NEW l2 \in Seq(Tasks), NEW j, j # k, LineOk(l2, j, fsSent, fsOut)
      PROVE  LineOk(Tail(l), k, fsSent, left) /\ LineOk(l2, j, fsSent, left)
  <2>1. left = Leaving(fsOut, Head(l))
    BY <1>2 DEF Leaving
  <2>. HIDE DEF left
  <2>2. l \in Seq(Tasks) /\ l # <<>> /\ Head(l) \in Packets /\ fsOut \in [Flows -> Seq(Nat)]
    BY <1>1, <1>2, <1>3
  <2>3. LineOk(l, k, fsSent, fsOut)
    BY <1>2
  <2>4. LineOk(l2, j, fsSent, fsOut) /\ j # k
    BY <1>7
  <2>. QED BY <2>1, <2>2, <2>3, <2>4, LineSend
<1>8. /\ LineOk(Tail(l), k, fsSent, left)
      /\ \A j \in Workers : j # k => LineOk(Line(fs', j), j, fsSent, left)
  <2>1. LineOk(<<>>, k + 1, fsSent, fsOut) /\ <<>> \in Seq(Tasks) /\ k + 1 # k
    BY LineEmpty DEF Workers
  <2>2. LineOk(Tail(l), k, fsSent, left)
    BY <1>7, <2>1
  <2>3. ASSUME NEW j \in Workers, j # k PROVE LineOk(Line(fs', j), j, fsSent, left)
    <3>1. Line(fs, j) \in Seq(Tasks) /\ LineOk(Line(fs, j), j, fsSent, fsOut)
      BY LinesAreSeqs
    <3>2. Line(fs', j) = Line(fs, j)
      BY <1>5, <2>3 DEF Line
    <3>. QED BY <1>7, <2>3, <3>1, <3>2
  <2>. QED BY <2>2, <2>3
<1>9. ASSUME NEW g \in Flows PROVE LeftOk(left[g], fsSent[g])
  <2>1. LeftOk(fsOut[g], fsSent[g])
    BY DEF FsInv
  <2>2. CASE g = t.flow
    <3>1. fsOut[g] \in Seq(Nat) /\ fsSent[g] \in Nat /\ left[g] = Append(fsOut[g], t.no)
      BY <1>1, <1>3, <2>2
    <3>. QED BY <1>3, <1>6, <2>1, <2>2, <3>1, LeftSend DEF Behind
  <2>3. CASE g # t.flow
    BY <1>1, <2>1, <2>3
  <2>. QED BY <2>2, <2>3
<1>10. left \in [Flows -> Seq(Nat)]
  <2>1. Append(fsOut[t.flow], t.no) \in Seq(Nat)
    BY <1>1, <1>3, AppendProperties
  <2>. QED BY <1>1, <2>1
<1>. HIDE DEF left
<1>. QED BY <1>1, <1>5, <1>8, <1>9, <1>10 DEF FsInv

LEMMA MainTickKeeps == ASSUME FsInv, MainTick PROVE FsInv'
<1>1. CASE Retire
  <2>1. /\ hubOn' = FALSE /\ fsOff' = HubTotals /\ UNCHANGED <<fs, fsSent, fsOut>>
        /\ fs \in ShardStates /\ fsOff \in [Totals -> Nat]
    BY <1>1 DEF Retire, FsInv
  <2>2. HubTotals \in [Totals -> Nat]
    BY <2>1 DEF HubTotals, ShardStates
  <2>. QED BY <2>1, <2>2 DEF FsInv
<1>2. CASE Stop
  <2>. DEFINE t == [task |-> "Shutdown"]
  <2>1. t \in Tasks /\ t \notin Packets
    BY DEF Tasks, Packets
  <2>2. /\ fs' = [fs EXCEPT !.ok = FALSE, !.q = [k \in Workers |-> Append(fs.q[k], t)]]
        /\ UNCHANGED <<hubOn, fsOff, fsSent, fsOut>> /\ fs \in ShardStates
    BY <1>2 DEF Stop, FsInv
  <2>. HIDE DEF t
  <2>3. \A k \in Workers : /\ fs.batch[k] \in Seq(Tasks) /\ fs.q[k] \in Seq(Tasks)
                           /\ Line(fs, k) \in Seq(Tasks) /\ LineOk(Line(fs, k), k, fsSent, fsOut)
    BY LinesAreSeqs
  <2>4. \A k \in Workers : Append(fs.q[k], t) \in Seq(Tasks)
    BY <2>1, <2>3, AppendProperties
  <2>5. /\ fs' \in ShardStates /\ fs'.batch = fs.batch
        /\ \A k \in Workers : fs'.q[k] = Append(fs.q[k], t)
    BY <2>2, <2>4 DEF ShardStates
  <2>6. ASSUME NEW k \in Workers PROVE LineOk(Line(fs', k), k, fsSent, fsOut)
    <3>1. Line(fs', k) = Append(Line(fs, k), t)
      <4>1. fs'.batch[k] = fs.batch[k] /\ fs'.q[k] = Append(fs.q[k], t)
        BY <2>5
      <4>. QED BY <2>1, <2>3, <4>1, LineAppend
    <3>. QED BY <2>1, <2>3, <3>1, LineTold
  <2>. QED BY <2>2, <2>5, <2>6 DEF FsInv
<1>3. CASE Install
  <2>1. fs' = FsNew /\ hubOn' = TRUE /\ UNCHANGED <<fsOff, fsSent, fsOut>>
    BY <1>3 DEF Install
  <2>2. FsNew \in ShardStates /\ \A k \in Workers : Line(FsNew, k) = <<>>
    BY DEF FsNew, ShardStates, NoTotals, Line
  <2>. QED BY <2>1, <2>2, LineEmpty DEF FsInv
<1>4. CASE Join \/ TakeSched \/ FreeSched
  <2>1. UNCHANGED <<fs, hubOn, fsOff, fsSent, fsOut>>
    BY <1>4 DEF Join, TakeSched, FreeSched
  <2>. QED BY <2>1 DEF FsInv
<1>. QED BY <1>1, <1>2, <1>3, <1>4 DEF MainTick

LEMMA FsInitial == FsInit => FsInv
<1>. SUFFICES ASSUME FsInit PROVE FsInv
  OBVIOUS
<1>1. FsNew \in ShardStates /\ \A k \in Workers : Line(FsNew, k) = <<>>
  BY DEF FsNew, ShardStates, NoTotals, Line
<1>2. \A f \in Flows : fsOut[f] = <<>> /\ LeftOk(<<>>, fsSent[f])
  BY DEF FsInit, LeftOk
<1>3. fsSent \in [Flows -> Nat] /\ fsOut \in [Flows -> Seq(Nat)] /\ fsOff \in [Totals -> Nat]
  BY DEF FsInit, NoTotals
<1>. QED BY <1>1, <1>2, <1>3, LineEmpty DEF FsInit, FsInv

LEMMA FsStep == FsInv /\ [FsNext]_fsVars => FsInv'
<1>. SUFFICES ASSUME FsInv, [FsNext]_fsVars PROVE FsInv'
  OBVIOUS
<1>1. ASSUME NEW k \in Workers, Worker(k) PROVE FsInv'
  BY <1>1, TakeBatchKeeps, DoSealKeeps, DoSendKeeps, DoDataKeeps, DoShutdownKeeps DEF Worker
<1>2. CASE UNCHANGED fsVars
  BY <1>2 DEF fsVars, FsInv, Line
<1>3. CASE FsNext
  BY <1>1, <1>3, SealDispatchKeeps, FeedKeeps, MainTickKeeps DEF FsNext
<1>. QED BY <1>2, <1>3

\* "同流同 worker → 计数器严格递增": the numbers of a flow leave in order.
LEMMA FsOrder == FsInv => FlowOrder
BY DEF FsInv, LeftOk, FlowOrder

\* "[stats] 单调性不因换片倒退", step by step: retiring shards hands their totals
\* over, new shards begin at zero, and a worker only adds.
LEMMA StatsStep ==
  ASSUME FsInv, [FsNext]_fsVars
  PROVE  UNCHANGED fsVars \/ \A c \in Totals : HubTotals'[c] >= HubTotals[c]
<1>1. /\ fs \in ShardStates /\ fsOff \in [Totals -> Nat] /\ hubOn \in BOOLEAN
      /\ \A c \in Totals : fs.counters[c] \in Nat /\ fsOff[c] \in Nat
  BY DEF FsInv, ShardStates
<1>2. ASSUME UNCHANGED <<hubOn, fsOff>>, \A c \in Totals : fs'.counters[c] >= fs.counters[c]
      PROVE  \A c \in Totals : HubTotals'[c] >= HubTotals[c]
  <2>1. fs' \in ShardStates /\ \A c \in Totals : fs'.counters[c] \in Nat
    BY FsStep DEF FsInv, ShardStates
  <2>. QED BY <1>1, <1>2, <2>1 DEF HubTotals
<1>3. ASSUME fs'.counters = fs.counters PROVE \A c \in Totals : fs'.counters[c] >= fs.counters[c]
  BY <1>1, <1>3
<1>4. ASSUME NEW f \in Flows, SealDispatch(f) PROVE \A c \in Totals : HubTotals'[c] >= HubTotals[c]
  <2>1. fs'.counters = fs.counters /\ UNCHANGED <<hubOn, fsOff>>
    BY <1>1, <1>4 DEF SealDispatch, ShardStates
  <2>. QED BY <1>2, <1>3, <2>1
<1>5. ASSUME NEW m \in InFrames, Feed(m) PROVE \A c \in Totals : HubTotals'[c] >= HubTotals[c]
  <2>. DEFINE k == m.epoch % FsShards
  <2>1. UNCHANGED <<hubOn, fsOff>>
    BY <1>5 DEF Feed
  <2>2. CASE fs.live[k]
    <3>1. fs'.counters = fs.counters
      BY <1>1, <1>5, <2>2 DEF Feed, ShardStates
    <3>. QED BY <1>2, <1>3, <2>1, <3>1
  <2>3. CASE ~fs.live[k]
    <3>1. fs' = Bump("dropped") /\ "dropped" \in Totals
      BY <1>5, <2>3 DEF Feed, Totals
    <3>2. \A c \in Totals : fs'.counters[c] >= fs.counters[c]
      BY <1>1, <3>1, BumpKeeps DEF Bump
    <3>. QED BY <1>2, <2>1, <3>2
  <2>. QED BY <2>2, <2>3
<1>6. ASSUME NEW k \in Workers, Worker(k) PROVE \A c \in Totals : HubTotals'[c] >= HubTotals[c]
  <2>1. UNCHANGED <<hubOn, fsOff>>
    BY <1>6 DEF Worker, TakeBatch, DoSeal, DoSend, DoData, DoShutdown
  <2>2. CASE TakeBatch(k) \/ DoShutdown(k)
    <3>1. fs'.counters = fs.counters
      BY <1>1, <2>2 DEF TakeBatch, DoShutdown, ShardStates
    <3>. QED BY <1>2, <1>3, <2>1, <3>1
  <2>3. ASSUME NEW refused \in BOOLEAN, DoSeal(k, refused)
        PROVE  \A c \in Totals : fs'.counters[c] >= fs.counters[c]
    <3>1. fs.batch[k] # <<>> /\ "dropped" \in Totals
      BY <2>3 DEF DoSeal, Totals
    <3>2. CASE ~fs.ok
      BY <1>3, <2>3, <3>1, <3>2, RestOfLine DEF DoSeal
    <3>3. CASE fs.ok /\ refused
      <4>1. fs' = [Rest(k) EXCEPT !.counters["dropped"] = @ + 1]
        BY <2>3, <3>3 DEF DoSeal
      <4>. QED BY <3>1, <4>1, RestAndBump
    <3>4. CASE fs.ok /\ ~refused
      <4>1. fs'.counters = fs.counters
        BY <1>1, <2>3, <3>4 DEF DoSeal, ShardStates
      <4>. QED BY <1>3, <4>1
    <3>. QED BY <3>2, <3>3, <3>4
  <2>4. CASE DoSend(k)
    <3>1. /\ fs.batch[k] # <<>> /\ "sealed" \in Totals
          /\ fs' = [Rest(k) EXCEPT !.counters["sealed"] = @ + 1]
      BY <2>4 DEF DoSend, Totals
    <3>2. \A c \in Totals : fs'.counters[c] >= fs.counters[c]
      BY <3>1, RestAndBump
    <3>. QED BY <1>2, <2>1, <3>2
  <2>5. CASE DoData(k)
    <3>. DEFINE o == Head(fs.batch[k]).outcome
    <3>1. fs.batch[k] # <<>>
      BY <2>5 DEF DoData
    <3>2. CASE o \in Totals
      <4>1. fs' = [Rest(k) EXCEPT !.counters[o] = @ + 1]
        BY <2>5, <3>2 DEF DoData
      <4>. HIDE DEF o
      <4>2. \A c \in Totals : fs'.counters[c] >= fs.counters[c]
        BY <3>1, <3>2, <4>1, RestAndBump
      <4>. QED BY <1>2, <2>1, <4>2
    <3>3. CASE o \notin Totals
      <4>1. fs' = Rest(k)
        BY <2>5, <3>3 DEF DoData
      <4>2. fs'.counters = fs.counters
        BY <3>1, <4>1, RestOfLine
      <4>. QED BY <1>2, <1>3, <2>1, <4>2
    <3>. QED BY <3>2, <3>3
  <2>. QED BY <1>2, <1>6, <2>1, <2>2, <2>3, <2>4, <2>5 DEF Worker
<1>7. CASE Retire
  <2>1. hubOn /\ hubOn' = FALSE /\ fsOff' = HubTotals /\ fs' = fs
    BY <1>7 DEF Retire
  <2>2. \A c \in Totals : HubTotals[c] \in Nat /\ HubTotals'[c] = HubTotals[c] + 0
    BY <1>1, <2>1 DEF HubTotals
  <2>. QED BY <2>2
<1>8. CASE Stop
  <2>1. fs'.counters = fs.counters /\ UNCHANGED <<hubOn, fsOff>>
    BY <1>1, <1>8 DEF Stop, ShardStates
  <2>. QED BY <1>2, <1>3, <2>1
<1>9. CASE Install
  <2>1. ~hubOn /\ hubOn' = TRUE /\ fsOff' = fsOff /\ \A c \in Totals : fs'.counters[c] = 0
    BY <1>9 DEF Install, FsNew, NoTotals
  <2>. QED BY <1>1, <2>1 DEF HubTotals
<1>10. CASE Join \/ TakeSched \/ FreeSched
  <2>1. UNCHANGED <<fs, hubOn, fsOff>>
    BY <1>10 DEF Join, TakeSched, FreeSched
  <2>. QED BY <1>2, <1>3, <2>1
<1>. QED BY <1>4, <1>5, <1>6, <1>7, <1>8, <1>9, <1>10 DEF FsNext, MainTick

\* Shards come and go without disturbing what the node promises: a flow's
\* packets leave in order and the totals never run backwards.
THEOREM ShardsAreFaithful == FsSpec => ShardsFaithful
<1>1. FsSpec => []FsInv
  <2>1. FsInit => FsInv
    BY FsInitial
  <2>2. FsInv /\ [FsNext]_fsVars => FsInv'
    BY FsStep
  <2>. QED BY <2>1, <2>2, PTL DEF FsSpec
<1>2. FsInv => FlowOrder
  BY FsOrder
<1>3. FsInv /\ [FsNext]_fsVars => [\A c \in Totals : HubTotals'[c] >= HubTotals[c]]_fsVars
  BY StatsStep
<1>4. FsSpec => [][\A c \in Totals : HubTotals'[c] >= HubTotals[c]]_fsVars
  BY <1>1, <1>3, PTL DEF FsSpec
<1>5. FsSpec => []FlowOrder
  BY <1>1, <1>2, PTL
<1>. QED BY <1>4, <1>5 DEF ShardsFaithful, StatsNeverRunBack

-----------------------------------------------------------------------------
(* The raw-frame plane.  While no wait fails and no cancel lands late, a    *)
(* request is in the driver only while its caller waits, and the event of   *)
(* its kind is set exactly when it has completed; the frames received, in   *)
(* hand and queued are those that came, numbered from one.                  *)

Kinds == {"send", "recv"}
Calling == {"wait", "expired", "cancel"}
L2Frames == [n : Nat, mac : Stations, good : BOOLEAN]

CallOk(pc, request, event) ==
  /\ pc \in {"idle", "learn"} => request = "none"
  /\ pc \in {"wait", "expired"} => request \in {"pending", "done"} /\ (event <=> request = "done")
  /\ pc = "cancel" => request \in {"done", "aborted"} /\ event

CallsOk ==
  /\ l2pc \in [L2Threads -> {"idle", "learn"} \cup Calling]
  /\ irp \in [L2Threads -> {"none", "pending", "done", "aborted"}]
  /\ ioEvent \in [Kinds -> BOOLEAN]
  /\ orphans = [k \in Kinds |-> 0]
  /\ \A t \in L2Threads : CallOk(l2pc[t], irp[t], ioEvent[Kind(t)])
  /\ \A t \in L2Senders : l2pc[t] # "learn" /\ (l2pc[t] \in Calling <=> peerLock = t)

Hand == IF rxHand.n = 0 THEN 0 ELSE 1

FramesOk ==
  /\ rxq \in Seq(L2Frames) /\ gotFrames \in Seq(Nat) /\ rxHand.n \in Nat
  /\ Len(gotFrames) + Hand + Len(rxq) = l2Count.in
  /\ \A i \in 1..Len(gotFrames) : gotFrames[i] = i
  /\ Hand = 1 => rxHand.n = Len(gotFrames) + 1
  /\ \A i \in 1..Len(rxq) : rxq[i].n = Len(gotFrames) + Hand + i
  /\ Hand = 1 <=> (irp[Rx] = "done" \/ l2pc[Rx] = "learn")
  /\ irp[Rx] = "pending" => rxq = <<>>

L2Inv ==
  /\ l2Count \in [in : Nat, sends : Nat, late : Nat]
  /\ l2Count.late = 0 => CallsOk /\ FramesOk

LEMMA L2Threading ==
  /\ Rx \in L2Threads /\ Rx \notin L2Senders /\ "free" \notin L2Senders
  /\ \A t \in L2Threads : Kind(t) \in Kinds /\ (t # Rx => t \in L2Senders /\ Kind(t) = "send")
  /\ Kind(Rx) = "recv" /\ \A t \in L2Senders : t \in L2Threads /\ t # Rx
BY L2Assumption DEF L2Threads, Kinds, Kind

\* The counters only grow, so a state without late waits came from one.
LEMMA LateStays ==
  ASSUME l2Count \in [in : Nat, sends : Nat, late : Nat], [L2Next]_l2Vars
  PROVE  /\ l2Count' \in [in : Nat, sends : Nat, late : Nat]
         /\ l2Count'.late = 0 => l2Count.late = 0
         /\ Late => l2Count'.late # 0
<1>1. \A w \in {"in", "sends", "late"} :
        LET c == [l2Count EXCEPT ![w] = @ + 1]
        IN  /\ c \in [in : Nat, sends : Nat, late : Nat]
            /\ c.late = 0 => l2Count.late = 0
            /\ w = "late" => c.late # 0
  OBVIOUS
<1>2. \/ UNCHANGED l2Count
      \/ L2Counted("in") \/ L2Counted("sends") \/ L2Counted("late")
  BY DEF L2Next, l2Vars, SendToMac, RecvFrame, FrameIn, SendComplete, Learn, AwaitDone,
         AwaitExpires, AwaitCancel, AwaitFinal, AwaitFails, Late
<1>. QED BY <1>1, <1>2 DEF L2Counted, Late

LEMMA L2Initial == L2Init => L2Inv
<1>. SUFFICES ASSUME L2Init PROVE L2Inv
  OBVIOUS
<1>1. CallsOk
  BY L2Threading DEF L2Init, CallsOk, CallOk, Kinds, Calling
<1>2. FramesOk
  BY L2Threading DEF L2Init, FramesOk, Hand, NoRx
<1>. QED BY <1>1, <1>2 DEF L2Init, L2Inv

L2Good == l2Count \in [in : Nat, sends : Nat, late : Nat] /\ CallsOk /\ FramesOk

\* peer_mac's guard: a sender that waits is the only one.
LEMMA OneCaller ==
  ASSUME CallsOk, NEW t \in L2Threads, NEW u \in L2Threads, t # u, Kind(t) = Kind(u),
         l2pc[t] \in Calling
  PROVE  l2pc[u] \in {"idle", "learn"} /\ irp[u] = "none"
<1>1. t \in L2Senders /\ u \in L2Senders
  BY DEF Kind, L2Threads
<1>2. l2pc[u] \notin Calling /\ l2pc[u] \in {"idle", "learn"} \cup Calling
  BY <1>1 DEF CallsOk
<1>3. CallOk(l2pc[u], irp[u], ioEvent[Kind(u)])
  BY DEF CallsOk
<1>. QED BY <1>2, <1>3 DEF CallOk

\* What a step leaves of the calls it does not touch.
LEMMA OtherCalls ==
  ASSUME CallsOk, NEW t \in L2Threads,
         \/ l2pc[t] \in Calling
         \/ l2pc'[t] \in Calling /\ (t \in L2Senders => peerLock = "free"),
         \A u \in L2Threads : u # t => l2pc'[u] = l2pc[u] /\ irp'[u] = irp[u],
         \A k \in Kinds : k # Kind(t) => ioEvent'[k] = ioEvent[k]
  PROVE  \A u \in L2Threads : u # t => CallOk(l2pc'[u], irp'[u], ioEvent'[Kind(u)])
<1>. SUFFICES ASSUME NEW u \in L2Threads, u # t
              PROVE  CallOk(l2pc'[u], irp'[u], ioEvent'[Kind(u)])
  OBVIOUS
<1>1. CallOk(l2pc[u], irp[u], ioEvent[Kind(u)]) /\ Kind(u) \in Kinds
  BY L2Threading DEF CallsOk
<1>2. CASE Kind(u) # Kind(t)
  BY <1>1, <1>2
<1>3. CASE Kind(u) = Kind(t)
  <2>1. l2pc[u] \in {"idle", "learn"} /\ irp[u] = "none"
    <3>1. CASE l2pc[t] \in Calling
      BY <1>3, <3>1, OneCaller
    <3>2. CASE l2pc'[t] \in Calling /\ (t \in L2Senders => peerLock = "free")
      <4>1. t \in L2Senders /\ u \in L2Senders
        BY <1>3, L2Threading DEF Kind
      <4>2. l2pc[u] \notin Calling /\ l2pc[u] \in {"idle", "learn"} \cup Calling
        BY <3>2, <4>1, L2Threading DEF CallsOk
      <4>. QED BY <1>1, <4>2 DEF CallOk
    <3>. QED BY <3>1, <3>2
  <2>. QED BY <2>1 DEF CallOk
<1>. QED BY <1>2, <1>3

LEMMA PendKeeps ==
  ASSUME L2Good, NEW t \in L2Threads, l2pc[t] = "idle", Pend(t), UNCHANGED orphans,
         t \in L2Senders => peerLock = "free" /\ peerLock' = t,
         t = Rx => UNCHANGED peerLock
  PROVE  CallsOk'
<1>1. /\ l2pc' = [l2pc EXCEPT ![t] = "wait"] /\ irp' = [irp EXCEPT ![t] = "pending"]
      /\ ioEvent' = [ioEvent EXCEPT ![Kind(t)] = FALSE]
      /\ l2pc \in [L2Threads -> {"idle", "learn"} \cup Calling]
      /\ irp \in [L2Threads -> {"none", "pending", "done", "aborted"}]
      /\ ioEvent \in [Kinds -> BOOLEAN] /\ Kind(t) \in Kinds
  BY L2Threading DEF Pend, L2Good, CallsOk
<1>2. /\ l2pc'[t] = "wait" /\ irp'[t] = "pending" /\ ioEvent'[Kind(t)] = FALSE
      /\ \A u \in L2Threads : u # t => l2pc'[u] = l2pc[u] /\ irp'[u] = irp[u]
      /\ \A k \in Kinds : k # Kind(t) => ioEvent'[k] = ioEvent[k]
  BY <1>1
<1>3. /\ l2pc' \in [L2Threads -> {"idle", "learn"} \cup Calling]
      /\ irp' \in [L2Threads -> {"none", "pending", "done", "aborted"}]
      /\ ioEvent' \in [Kinds -> BOOLEAN]
  BY <1>1 DEF Calling
<1>4. \A u \in L2Threads : CallOk(l2pc'[u], irp'[u], ioEvent'[Kind(u)])
  <2>1. CallOk(l2pc'[t], irp'[t], ioEvent'[Kind(t)])
    BY <1>2 DEF CallOk
  <2>2. l2pc'[t] \in Calling
    BY <1>2 DEF Calling
  <2>. QED BY <1>2, <2>1, <2>2, OtherCalls DEF L2Good
<1>5. \A u \in L2Senders : l2pc'[u] # "learn" /\ (l2pc'[u] \in Calling <=> peerLock' = u)
  <2>1. \A u \in L2Senders : l2pc[u] # "learn" /\ (l2pc[u] \in Calling <=> peerLock = u)
    BY DEF L2Good, CallsOk
  <2>. QED BY <1>2, <2>1, L2Threading DEF Calling
<1>. QED BY <1>3, <1>4, <1>5 DEF L2Good, CallsOk

\* A call returns with its request completed: nothing is left behind.
LEMMA ReturnKeeps ==
  ASSUME L2Good, NEW t \in L2Threads, l2pc[t] \in Calling, irp[t] \in {"done", "aborted"},
         L2Return(t), ioEvent' = [ioEvent EXCEPT ![Kind(t)] = FALSE],
         UNCHANGED <<rxq, gotFrames, l2Count>>
  PROVE  CallsOk' /\ FramesOk'
<1>. DEFINE pc == IF t = Rx /\ irp[t] = "done" THEN "learn" ELSE "idle"
<1>1. /\ l2pc' = [l2pc EXCEPT ![t] = pc] /\ irp' = [irp EXCEPT ![t] = "none"]
      /\ orphans' = [orphans EXCEPT ![Kind(t)] = @]
      /\ rxHand' = IF t = Rx /\ irp[t] # "done" THEN NoRx ELSE rxHand
      /\ peerLock' = IF peerLock = t THEN "free" ELSE peerLock
      /\ l2pc \in [L2Threads -> {"idle", "learn"} \cup Calling]
      /\ irp \in [L2Threads -> {"none", "pending", "done", "aborted"}]
      /\ ioEvent \in [Kinds -> BOOLEAN] /\ Kind(t) \in Kinds
      /\ orphans = [k \in Kinds |-> 0]
  BY L2Threading DEF L2Return, L2Good, CallsOk
<1>2. /\ l2pc'[t] = pc /\ irp'[t] = "none"
      /\ \A u \in L2Threads : u # t => l2pc'[u] = l2pc[u] /\ irp'[u] = irp[u]
      /\ \A k \in Kinds : k # Kind(t) => ioEvent'[k] = ioEvent[k]
      /\ pc \in {"idle", "learn"}
  BY <1>1
<1>. HIDE DEF pc
<1>3. /\ l2pc' \in [L2Threads -> {"idle", "learn"} \cup Calling]
      /\ irp' \in [L2Threads -> {"none", "pending", "done", "aborted"}]
      /\ ioEvent' \in [Kinds -> BOOLEAN]
      /\ orphans' = [k \in Kinds |-> 0]
  BY <1>1, <1>2
<1>4. \A u \in L2Threads : CallOk(l2pc'[u], irp'[u], ioEvent'[Kind(u)])
  <2>1. CallOk(l2pc'[t], irp'[t], ioEvent'[Kind(t)])
    BY <1>2 DEF CallOk
  <2>2. CallsOk /\ l2pc[t] \in Calling
    BY DEF L2Good
  <2>3. \A u \in L2Threads : u # t => CallOk(l2pc'[u], irp'[u], ioEvent'[Kind(u)])
    BY <1>2, <2>2, OtherCalls
  <2>. QED BY <2>1, <2>3
<1>5. \A u \in L2Senders : l2pc'[u] # "learn" /\ (l2pc'[u] \in Calling <=> peerLock' = u)
  <2>1. \A u \in L2Senders : l2pc[u] # "learn" /\ (l2pc[u] \in Calling <=> peerLock = u)
    BY DEF L2Good, CallsOk
  <2>2. t \in L2Senders => pc = "idle"
    BY L2Threading DEF pc
  <2>. QED BY <1>1, <1>2, <2>1, <2>2, L2Threading DEF Calling
<1>6. CallsOk'
  BY <1>3, <1>4, <1>5 DEF CallsOk
<1>7. FramesOk'
  <2>1. FramesOk /\ CallOk(l2pc[Rx], irp[Rx], ioEvent[Kind(Rx)])
    BY L2Threading DEF L2Good, CallsOk
  <2>2. CASE t # Rx
    <3>1. rxHand' = rxHand /\ irp'[Rx] = irp[Rx] /\ l2pc'[Rx] = l2pc[Rx]
      BY <1>1, <1>2, <2>2, L2Threading
    <3>. QED BY <2>1, <3>1 DEF FramesOk, Hand
  <2>3. CASE t = Rx /\ irp[t] = "done"
    <3>1. rxHand' = rxHand /\ irp'[Rx] = "none" /\ l2pc'[Rx] = "learn"
      BY <1>1, <1>2, <2>3 DEF pc
    <3>. QED BY <2>1, <2>3, <3>1 DEF FramesOk, Hand
  <2>4. CASE t = Rx /\ irp[t] = "aborted"
    <3>1. rxHand' = NoRx /\ irp'[Rx] = "none" /\ l2pc'[Rx] = "idle"
      BY <1>1, <1>2, <2>4 DEF pc
    <3>2. l2pc[Rx] # "learn"
      BY <2>4 DEF Calling
    <3>3. Hand = 0 /\ rxHand'.n = 0 /\ Hand' = 0
      BY <2>1, <2>4, <3>1, <3>2 DEF FramesOk, Hand, NoRx
    <3>. QED BY <2>1, <2>4, <3>1, <3>3 DEF FramesOk
  <2>. QED BY <2>2, <2>3, <2>4
<1>. QED BY <1>6, <1>7

LEMMA SendToMacKeeps ==
  ASSUME L2Good, NEW t \in L2Senders, SendToMac(t) PROVE CallsOk' /\ FramesOk'
<1>1. /\ l2pc[t] = "idle" /\ peerLock = "free" /\ L2Counted("sends")
      /\ UNCHANGED <<orphans, rxq, rxHand, gotFrames>>
  BY DEF SendToMac
<1>2. l2Count'.in = l2Count.in
  BY <1>1 DEF L2Counted, L2Good
<1>3. CASE Pend(t) /\ peerLock' = t
  <2>1. CallsOk'
    BY <1>1, <1>3, L2Threading, PendKeeps
  <2>2. irp'[Rx] = irp[Rx] /\ l2pc'[Rx] = l2pc[Rx]
    BY <1>3, L2Threading DEF Pend, L2Good, CallsOk
  <2>. QED BY <1>1, <1>2, <2>1, <2>2 DEF L2Good, FramesOk, Hand
<1>4. CASE UNCHANGED <<l2pc, irp, ioEvent, peerLock>>
  BY <1>1, <1>2, <1>4 DEF L2Good, CallsOk, FramesOk, Hand
<1>. QED BY <1>3, <1>4 DEF SendToMac

LEMMA RecvFrameKeeps == ASSUME L2Good, RecvFrame PROVE CallsOk' /\ FramesOk'
<1>1. /\ l2pc[Rx] = "idle" /\ UNCHANGED <<orphans, peerLock, gotFrames, l2Count>>
      /\ CallOk(l2pc[Rx], irp[Rx], ioEvent[Kind(Rx)]) /\ FramesOk /\ CallsOk
      /\ l2pc \in [L2Threads -> {"idle", "learn"} \cup Calling]
  BY L2Threading DEF RecvFrame, L2Good, CallsOk
<1>2. irp[Rx] = "none" /\ Hand = 0
  BY <1>1 DEF CallOk, FramesOk, Hand
<1>3. CASE rxq # <<>>
  <2>1. /\ l2pc' = [l2pc EXCEPT ![Rx] = "learn"] /\ rxHand' = Head(rxq) /\ rxq' = Tail(rxq)
        /\ UNCHANGED <<irp, ioEvent>>
    BY <1>3 DEF RecvFrame
  <2>2. l2pc'[Rx] = "learn" /\ \A u \in L2Threads : u # Rx => l2pc'[u] = l2pc[u]
    BY <1>1, <2>1, L2Threading
  <2>3. CallsOk'
    <3>1. l2pc' \in [L2Threads -> {"idle", "learn"} \cup Calling]
      BY <1>1, <2>1
    <3>2. \A u \in L2Threads : CallOk(l2pc'[u], irp'[u], ioEvent'[Kind(u)])
      <4>1. CallOk(l2pc'[Rx], irp'[Rx], ioEvent'[Kind(Rx)])
        BY <1>2, <2>1, <2>2 DEF CallOk
      <4>. QED BY <1>1, <2>1, <2>2, <4>1 DEF CallsOk
    <3>. QED BY <1>1, <2>1, <2>2, <3>1, <3>2, L2Threading DEF CallsOk
  <2>4. /\ Head(rxq) = rxq[1] /\ Head(rxq) \in L2Frames /\ Tail(rxq) \in Seq(L2Frames)
        /\ Len(rxq) \in Nat \ {0} /\ Len(Tail(rxq)) = Len(rxq) - 1
        /\ \A i \in 1..Len(Tail(rxq)) : Tail(rxq)[i] = rxq[i + 1]
    BY <1>1, <1>3, HeadTailProperties, LenProperties DEF FramesOk
  <2>5. Len(gotFrames) \in Nat /\ rxq[1].n = Len(gotFrames) + 1 /\ rxq[1].n # 0
    <3>1. Len(gotFrames) \in Nat
      BY <1>1, LenProperties DEF FramesOk
    <3>. QED BY <1>1, <1>2, <2>4, <3>1 DEF FramesOk
  <2>6. Hand' = 1 /\ rxHand'.n = Len(gotFrames) + 1
    BY <2>1, <2>4, <2>5 DEF Hand
  <2>7. \A i \in 1..Len(rxq') : rxq'[i].n = Len(gotFrames) + 1 + i
    <3>1. ASSUME NEW i \in 1..Len(Tail(rxq)) PROVE Tail(rxq)[i].n = Len(gotFrames) + 1 + i
      <4>1. i + 1 \in 1..Len(rxq) /\ Tail(rxq)[i] = rxq[i + 1]
        BY <2>4
      <4>2. rxq[i + 1].n = Len(gotFrames) + 0 + (i + 1)
        BY <1>1, <1>2, <4>1 DEF FramesOk
      <4>. QED BY <2>5, <4>1, <4>2
    <3>. QED BY <2>1, <3>1
  <2>8. Len(gotFrames') + Hand' + Len(rxq') = l2Count'.in
    BY <1>1, <1>2, <2>1, <2>4, <2>5, <2>6 DEF FramesOk
  <2>9. irp'[Rx] # "pending" /\ rxHand'.n \in Nat /\ rxq' \in Seq(L2Frames)
    BY <1>2, <2>1, <2>4, <2>5
  <2>10. FramesOk'
    BY <1>1, <2>2, <2>6, <2>7, <2>8, <2>9 DEF FramesOk
  <2>. QED BY <2>3, <2>10
<1>4. CASE rxq = <<>>
  <2>1. Pend(Rx) /\ UNCHANGED <<rxq, rxHand>>
    BY <1>4 DEF RecvFrame
  <2>2. CallsOk'
    BY <1>1, <2>1, L2Threading, PendKeeps
  <2>3. irp'[Rx] = "pending" /\ l2pc'[Rx] = "wait"
    BY <1>1, <2>1, L2Threading DEF Pend, CallsOk
  <2>. QED BY <1>1, <1>2, <1>4, <2>1, <2>2, <2>3 DEF FramesOk, Hand
<1>. QED BY <1>3, <1>4

LEMMA FrameInKeeps == ASSUME L2Good, FrameIn PROVE CallsOk' /\ FramesOk'
<1>1. PICK mac \in Stations, good \in BOOLEAN :
        LET frame == [n |-> l2Count.in + 1, mac |-> mac, good |-> good]
        IN  \/ orphans["recv"] > 0
            \/ /\ irp[Rx] = "pending"
               /\ irp' = [irp EXCEPT ![Rx] = "done"]
               /\ rxHand' = frame
               /\ ioEvent' = [ioEvent EXCEPT !["recv"] = TRUE]
               /\ UNCHANGED <<orphans, rxq>>
            \/ /\ irp[Rx] # "pending"
               /\ rxq' = Append(rxq, frame)
               /\ UNCHANGED <<irp, rxHand, ioEvent, orphans>>
  BY DEF FrameIn
<1>. DEFINE frame == [n |-> l2Count.in + 1, mac |-> mac, good |-> good]
<1>2. /\ L2Counted("in") /\ UNCHANGED <<l2pc, peerLock, gotFrames>> /\ FramesOk /\ CallsOk
      /\ l2Count \in [in : Nat, sends : Nat, late : Nat]
  BY DEF FrameIn, L2Good
<1>3. l2Count'.in = l2Count.in + 1 /\ l2Count.in \in Nat
  BY <1>2 DEF L2Counted
<1>4. frame \in L2Frames /\ frame.n = l2Count.in + 1
  BY <1>3 DEF L2Frames
<1>5. orphans["recv"] = 0
  BY <1>2 DEF CallsOk, Kinds
<1>6. Len(gotFrames) \in Nat /\ Len(rxq) \in Nat /\ Hand \in {0, 1}
  BY <1>2, LenProperties DEF FramesOk, Hand
<1>. HIDE DEF frame
<1>7. CASE /\ irp[Rx] = "pending" /\ irp' = [irp EXCEPT ![Rx] = "done"]
           /\ rxHand' = frame /\ ioEvent' = [ioEvent EXCEPT !["recv"] = TRUE]
           /\ UNCHANGED <<orphans, rxq>>
  <2>1. /\ CallOk(l2pc[Rx], irp[Rx], ioEvent[Kind(Rx)])
        /\ l2pc \in [L2Threads -> {"idle", "learn"} \cup Calling]
        /\ irp \in [L2Threads -> {"none", "pending", "done", "aborted"}]
        /\ ioEvent \in [Kinds -> BOOLEAN]
    BY <1>2, L2Threading DEF CallsOk
  <2>2. l2pc[Rx] \in {"wait", "expired"} /\ l2pc[Rx] \in Calling
    <3>1. l2pc[Rx] \in {"idle", "learn"} \cup Calling
      BY <2>1, L2Threading
    <3>. QED BY <1>7, <2>1, <3>1 DEF CallOk, Calling
  <2>3. /\ irp'[Rx] = "done" /\ ioEvent'[Kind(Rx)] = TRUE
        /\ \A u \in L2Threads : u # Rx => irp'[u] = irp[u]
        /\ \A k \in Kinds : k # Kind(Rx) => ioEvent'[k] = ioEvent[k]
    BY <1>7, <2>1, L2Threading DEF Kinds
  <2>4. CallsOk'
    <3>1. CallOk(l2pc'[Rx], irp'[Rx], ioEvent'[Kind(Rx)])
      BY <1>2, <2>2, <2>3 DEF CallOk
    <3>2. \A u \in L2Threads : u # Rx => CallOk(l2pc'[u], irp'[u], ioEvent'[Kind(u)])
      BY <1>2, <2>2, <2>3, L2Threading, OtherCalls
    <3>3. irp' \in [L2Threads -> {"none", "pending", "done", "aborted"}] /\ ioEvent' \in [Kinds -> BOOLEAN]
      BY <1>7, <2>1
    <3>. QED BY <1>2, <1>7, <3>1, <3>2, <3>3 DEF CallsOk
  <2>5. rxq = <<>> /\ Hand = 0
    BY <1>2, <1>7, <2>2 DEF FramesOk, Hand
  <2>6. Hand' = 1
    BY <1>3, <1>4, <1>7 DEF Hand
  <2>7. Len(rxq) = 0 /\ l2Count.in = Len(gotFrames)
    BY <1>2, <1>6, <2>5 DEF FramesOk
  <2>8. FramesOk'
    BY <1>2, <1>3, <1>4, <1>6, <1>7, <2>3, <2>5, <2>6, <2>7 DEF FramesOk
  <2>. QED BY <2>4, <2>8
<1>8. CASE /\ irp[Rx] # "pending" /\ rxq' = Append(rxq, frame)
           /\ UNCHANGED <<irp, rxHand, ioEvent, orphans>>
  <2>1. CallsOk'
    BY <1>2, <1>8 DEF CallsOk
  <2>2. Hand' = Hand
    BY <1>8 DEF Hand
  <2>3. /\ rxq' \in Seq(L2Frames) /\ Len(rxq') = Len(rxq) + 1
        /\ \A i \in 1..Len(rxq) : rxq'[i] = rxq[i]
        /\ rxq'[Len(rxq) + 1] = frame
    BY <1>2, <1>4, <1>8, AppendProperties DEF FramesOk
  <2>4. \A i \in 1..Len(rxq') : rxq'[i].n = Len(gotFrames) + Hand + i
    <3>1. \A i \in 1..Len(rxq') : i \in 1..Len(rxq) \/ i = Len(rxq) + 1
      BY <1>6, <2>3
    <3>2. frame.n = Len(gotFrames) + Hand + (Len(rxq) + 1)
      BY <1>2, <1>4, <1>6 DEF FramesOk
    <3>. QED BY <1>2, <2>3, <3>1, <3>2 DEF FramesOk
  <2>5. Len(gotFrames') + Hand' + Len(rxq') = l2Count'.in
    BY <1>2, <1>3, <1>6, <2>2, <2>3 DEF FramesOk
  <2>6. FramesOk'
    BY <1>2, <1>8, <2>2, <2>3, <2>4, <2>5 DEF FramesOk
  <2>. QED BY <2>1, <2>6
<1>. QED BY <1>1, <1>5, <1>7, <1>8 DEF frame

LEMMA SendCompleteKeeps == ASSUME L2Good, SendComplete PROVE CallsOk' /\ FramesOk'
<1>1. orphans["send"] = 0 /\ CallsOk /\ FramesOk
  BY DEF L2Good, CallsOk, Kinds
<1>2. PICK t \in L2Senders : irp[t] = "pending" /\ irp' = [irp EXCEPT ![t] = "done"] /\ UNCHANGED orphans
  BY <1>1 DEF SendComplete
<1>3. /\ ioEvent' = [ioEvent EXCEPT !["send"] = TRUE]
      /\ UNCHANGED <<l2pc, peerLock, rxq, rxHand, gotFrames, l2Count>>
  BY DEF SendComplete
<1>4. /\ t \in L2Threads /\ t # Rx /\ Kind(t) = "send"
      /\ CallOk(l2pc[t], irp[t], ioEvent[Kind(t)])
      /\ l2pc \in [L2Threads -> {"idle", "learn"} \cup Calling]
      /\ irp \in [L2Threads -> {"none", "pending", "done", "aborted"}]
      /\ ioEvent \in [Kinds -> BOOLEAN]
  BY <1>1, L2Threading DEF CallsOk
<1>5. l2pc[t] \in {"wait", "expired"} /\ l2pc[t] \in Calling
  <2>1. l2pc[t] \in {"idle", "learn"} \cup Calling
    BY <1>4
  <2>. QED BY <1>2, <1>4, <2>1 DEF CallOk, Calling
<1>6. /\ irp'[t] = "done" /\ ioEvent'[Kind(t)] = TRUE
      /\ \A u \in L2Threads : u # t => irp'[u] = irp[u]
      /\ \A k \in Kinds : k # Kind(t) => ioEvent'[k] = ioEvent[k]
  BY <1>2, <1>3, <1>4 DEF Kinds
<1>7. CallsOk'
  <2>1. CallOk(l2pc'[t], irp'[t], ioEvent'[Kind(t)])
    BY <1>3, <1>5, <1>6 DEF CallOk
  <2>2. \A u \in L2Threads : u # t => CallOk(l2pc'[u], irp'[u], ioEvent'[Kind(u)])
    BY <1>1, <1>3, <1>4, <1>5, <1>6, OtherCalls
  <2>3. irp' \in [L2Threads -> {"none", "pending", "done", "aborted"}] /\ ioEvent' \in [Kinds -> BOOLEAN]
    BY <1>2, <1>3, <1>4
  <2>. QED BY <1>1, <1>2, <1>3, <2>1, <2>2, <2>3 DEF CallsOk
<1>8. irp'[Rx] = irp[Rx]
  BY <1>4, <1>6, L2Threading
<1>. QED BY <1>1, <1>3, <1>7, <1>8 DEF FramesOk, Hand

LEMMA AwaitKeeps ==
  ASSUME L2Good, NEW t \in L2Threads, AwaitDone(t) \/ AwaitFinal(t)
  PROVE  CallsOk' /\ FramesOk'
<1>1. CallOk(l2pc[t], irp[t], ioEvent[Kind(t)])
  BY DEF L2Good, CallsOk
<1>2. /\ l2pc[t] \in Calling /\ irp[t] \in {"done", "aborted"} /\ L2Return(t)
      /\ ioEvent' = [ioEvent EXCEPT ![Kind(t)] = FALSE] /\ UNCHANGED <<rxq, gotFrames, l2Count>>
  BY <1>1 DEF AwaitDone, AwaitFinal, CallOk, Calling
<1>. QED BY <1>2, ReturnKeeps

LEMMA AwaitExpiresKeeps ==
  ASSUME L2Good, NEW t \in L2Threads, AwaitExpires(t) PROVE CallsOk' /\ FramesOk'
<1>1. /\ l2pc[t] = "wait" /\ l2pc' = [l2pc EXCEPT ![t] = "expired"]
      /\ UNCHANGED <<irp, ioEvent, orphans, peerLock, rxq, rxHand, gotFrames, l2Count>>
      /\ CallsOk /\ FramesOk /\ l2pc \in [L2Threads -> {"idle", "learn"} \cup Calling]
  BY DEF AwaitExpires, L2Good, CallsOk
<1>2. l2pc'[t] = "expired" /\ \A u \in L2Threads : u # t => l2pc'[u] = l2pc[u]
  BY <1>1
<1>3. CallsOk'
  <2>1. l2pc' \in [L2Threads -> {"idle", "learn"} \cup Calling]
    BY <1>1 DEF Calling
  <2>2. \A u \in L2Threads : CallOk(l2pc'[u], irp'[u], ioEvent'[Kind(u)])
    <3>1. CallOk(l2pc'[t], irp'[t], ioEvent'[Kind(t)])
      BY <1>1, <1>2 DEF CallsOk, CallOk
    <3>. QED BY <1>1, <1>2, <3>1 DEF CallsOk
  <2>3. \A u \in L2Senders : l2pc'[u] # "learn" /\ (l2pc'[u] \in Calling <=> peerLock' = u)
    BY <1>1, <1>2, L2Threading DEF CallsOk, Calling
  <2>. QED BY <1>1, <2>1, <2>2, <2>3 DEF CallsOk
<1>4. l2pc'[Rx] = "learn" <=> l2pc[Rx] = "learn"
  BY <1>1, <1>2, L2Threading
<1>. QED BY <1>1, <1>3, <1>4 DEF FramesOk, Hand

LEMMA AwaitCancelKeeps ==
  ASSUME L2Good, NEW t \in L2Threads, AwaitCancel(t), ~Late PROVE CallsOk' /\ FramesOk'
<1>. DEFINE r == IF irp[t] = "pending" THEN "aborted" ELSE irp[t]
<1>1. /\ l2pc[t] = "expired" /\ l2pc' = [l2pc EXCEPT ![t] = "cancel"]
      /\ irp' = [irp EXCEPT ![t] = r] /\ ioEvent' = [ioEvent EXCEPT ![Kind(t)] = TRUE]
      /\ UNCHANGED <<orphans, peerLock, rxq, rxHand, gotFrames, l2Count>>
      /\ CallsOk /\ FramesOk /\ l2pc \in [L2Threads -> {"idle", "learn"} \cup Calling]
      /\ irp \in [L2Threads -> {"none", "pending", "done", "aborted"}]
      /\ ioEvent \in [Kinds -> BOOLEAN] /\ Kind(t) \in Kinds
      /\ CallOk(l2pc[t], irp[t], ioEvent[Kind(t)])
  BY L2Threading DEF AwaitCancel, L2Good, CallsOk
<1>2. irp[t] \in {"pending", "done"} /\ r \in {"done", "aborted"}
  BY <1>1 DEF CallOk
<1>3. /\ l2pc'[t] = "cancel" /\ irp'[t] = r /\ ioEvent'[Kind(t)] = TRUE
      /\ \A u \in L2Threads : u # t => l2pc'[u] = l2pc[u] /\ irp'[u] = irp[u]
      /\ \A k \in Kinds : k # Kind(t) => ioEvent'[k] = ioEvent[k]
  BY <1>1
<1>4. CallsOk'
  <2>1. /\ l2pc' \in [L2Threads -> {"idle", "learn"} \cup Calling]
        /\ irp' \in [L2Threads -> {"none", "pending", "done", "aborted"}]
        /\ ioEvent' \in [Kinds -> BOOLEAN]
    BY <1>1, <1>2 DEF Calling
  <2>2. CallOk(l2pc'[t], irp'[t], ioEvent'[Kind(t)])
    BY <1>2, <1>3 DEF CallOk
  <2>3. l2pc[t] \in Calling
    BY <1>1 DEF Calling
  <2>4. \A u \in L2Threads : u # t => CallOk(l2pc'[u], irp'[u], ioEvent'[Kind(u)])
    BY <1>1, <1>3, <2>3, OtherCalls
  <2>5. \A u \in L2Senders : l2pc'[u] # "learn" /\ (l2pc'[u] \in Calling <=> peerLock' = u)
    BY <1>1, <1>3, L2Threading DEF CallsOk, Calling
  <2>. QED BY <1>1, <2>1, <2>2, <2>4, <2>5 DEF CallsOk
<1>5. /\ l2pc'[Rx] = "learn" <=> l2pc[Rx] = "learn"
      /\ irp'[Rx] = "done" <=> irp[Rx] = "done"
      /\ irp'[Rx] = "pending" => irp[Rx] = "pending"
  BY <1>1, <1>2, <1>3, L2Threading
<1>. QED BY <1>1, <1>4, <1>5 DEF FramesOk, Hand

LEMMA LearnKeeps == ASSUME L2Good, Learn PROVE CallsOk' /\ FramesOk'
<1>1. /\ l2pc[Rx] = "learn" /\ gotFrames' = Append(gotFrames, rxHand.n)
      /\ l2pc' = [l2pc EXCEPT ![Rx] = "idle"] /\ rxHand' = NoRx
      /\ UNCHANGED <<irp, ioEvent, orphans, peerLock, rxq, l2Count>>
      /\ CallsOk /\ FramesOk /\ l2pc \in [L2Threads -> {"idle", "learn"} \cup Calling]
      /\ CallOk(l2pc[Rx], irp[Rx], ioEvent[Kind(Rx)])
  BY L2Threading DEF Learn, L2Good, CallsOk
<1>2. l2pc'[Rx] = "idle" /\ \A u \in L2Threads : u # Rx => l2pc'[u] = l2pc[u]
  BY <1>1, L2Threading
<1>3. irp[Rx] = "none" /\ Hand = 1 /\ Hand' = 0 /\ rxHand'.n = 0 /\ rxHand.n = Len(gotFrames) + 1
  BY <1>1 DEF CallOk, FramesOk, Hand, NoRx
<1>4. CallsOk'
  <2>1. l2pc' \in [L2Threads -> {"idle", "learn"} \cup Calling]
    BY <1>1
  <2>2. CallOk(l2pc'[Rx], irp'[Rx], ioEvent'[Kind(Rx)])
    BY <1>1, <1>2, <1>3 DEF CallOk
  <2>3. \A u \in L2Threads : CallOk(l2pc'[u], irp'[u], ioEvent'[Kind(u)])
    BY <1>1, <1>2, <2>2 DEF CallsOk
  <2>. QED BY <1>1, <1>2, <2>1, <2>3, L2Threading DEF CallsOk
<1>5. /\ gotFrames' \in Seq(Nat) /\ Len(gotFrames) \in Nat /\ Len(gotFrames') = Len(gotFrames) + 1
      /\ \A i \in 1..Len(gotFrames) : gotFrames'[i] = gotFrames[i]
      /\ gotFrames'[Len(gotFrames) + 1] = rxHand.n
  BY <1>1, AppendProperties, LenProperties DEF FramesOk
<1>6. FramesOk'
  <2>1. \A i \in 1..Len(gotFrames') : gotFrames'[i] = i
    <3>1. \A i \in 1..Len(gotFrames') : i \in 1..Len(gotFrames) \/ i = Len(gotFrames) + 1
      BY <1>5
    <3>. QED BY <1>1, <1>3, <1>5, <3>1 DEF FramesOk
  <2>2. Len(rxq) \in Nat
    BY <1>1, LenProperties DEF FramesOk
  <2>3. Len(gotFrames') + Hand' + Len(rxq') = l2Count'.in
    BY <1>1, <1>3, <1>5, <2>2 DEF FramesOk
  <2>4. \A i \in 1..Len(rxq') : rxq'[i].n = Len(gotFrames') + Hand' + i
    <3>1. \A i \in 1..Len(rxq) : rxq[i].n = Len(gotFrames) + 1 + i /\ i \in Nat
      BY <1>1, <1>3, <2>2 DEF FramesOk
    <3>. QED BY <1>1, <1>3, <1>5, <3>1
  <2>. QED BY <1>1, <1>2, <1>3, <1>5, <2>1, <2>3, <2>4 DEF FramesOk
<1>. QED BY <1>4, <1>6

LEMMA L2Step == L2Inv /\ [L2Next]_l2Vars => L2Inv'
<1>. SUFFICES ASSUME L2Inv, [L2Next]_l2Vars, l2Count'.late = 0
              PROVE  CallsOk' /\ FramesOk'
  BY LateStays DEF L2Inv
<1>1. L2Good /\ ~Late
  BY LateStays DEF L2Inv, L2Good
<1>2. CASE UNCHANGED l2Vars
  BY <1>1, <1>2 DEF l2Vars, L2Good, CallsOk, FramesOk, Hand
<1>3. ASSUME NEW t \in L2Threads, AwaitCancel(t) PROVE CallsOk' /\ FramesOk'
  BY <1>1, <1>3, AwaitCancelKeeps
<1>4. ASSUME NEW t \in L2Threads, AwaitFails(t) PROVE FALSE
  BY <1>1, <1>4 DEF AwaitFails
<1>5. CASE L2Next
  BY <1>1, <1>3, <1>4, <1>5, SendToMacKeeps, RecvFrameKeeps, FrameInKeeps, SendCompleteKeeps,
     LearnKeeps, AwaitKeeps, AwaitExpiresKeeps DEF L2Next
<1>. QED BY <1>2, <1>5

LEMMA L2Order == L2Inv => L2RequestsPaired
<1>. SUFFICES ASSUME L2Inv, l2Count.late = 0 PROVE NoOrphans /\ EveryFrameSeen
  BY DEF L2RequestsPaired, NoOrphans, EveryFrameSeen
<1>1. CallsOk /\ FramesOk /\ l2Count.in \in Nat
  BY DEF L2Inv
<1>2. NoOrphans
  BY <1>1 DEF CallsOk, NoOrphans, Kinds
<1>. DEFINE h == IF rxHand.n = 0 THEN <<>> ELSE <<rxHand.n>>
            q == [i \in DOMAIN rxq |-> rxq[i].n]
            g == gotFrames
            all == [i \in 1..l2Count.in |-> i]
<1>3. g \in Seq(Nat) /\ Len(g) \in Nat /\ rxq \in Seq(L2Frames) /\ Len(rxq) \in Nat
  BY <1>1, LenProperties DEF FramesOk
<1>4. h \in Seq(Nat) /\ Len(h) = Hand /\ Hand \in {0, 1} /\ (Hand = 1 => h[1] = Len(g) + 1)
  BY <1>1 DEF FramesOk, Hand
<1>5. q \in Seq(Nat) /\ Len(q) = Len(rxq) /\ \A i \in 1..Len(q) : q[i] = Len(g) + Hand + i
  <2>1. DOMAIN rxq = 1..Len(rxq) /\ \A i \in 1..Len(rxq) : rxq[i].n \in Nat
    <3>1. \A i \in 1..Len(rxq) : rxq[i] \in L2Frames
      BY <1>3, ElementOfSeq
    <3>. QED BY <1>3, <3>1, LenProperties DEF L2Frames
  <2>2. q \in Seq(Nat) /\ Len(q) = Len(rxq)
    BY <1>3, <2>1, IsASeq
  <2>. QED BY <1>1, <2>1, <2>2 DEF FramesOk
<1>. HIDE DEF h, q
<1>6. /\ g \o h \in Seq(Nat) /\ Len(g \o h) = Len(g) + Hand
      /\ \A i \in 1..Len(g) + Hand : (g \o h)[i] = i
  <2>1. /\ g \o h \in Seq(Nat) /\ Len(g \o h) = Len(g) + Len(h)
        /\ \A i \in 1..Len(g) + Len(h) : (g \o h)[i] = IF i <= Len(g) THEN g[i] ELSE h[i - Len(g)]
    BY <1>3, <1>4, ConcatProperties
  <2>2. ASSUME NEW i \in 1..Len(g) + Hand PROVE (g \o h)[i] = i
    <3>1. CASE i <= Len(g)
      BY <1>1, <1>3, <1>4, <2>1, <3>1 DEF FramesOk
    <3>2. CASE i > Len(g)
      <4>1. i = Len(g) + 1 /\ i - Len(g) = 1 /\ Hand = 1 /\ ~(i <= Len(g))
        BY <1>3, <1>4, <3>2
      <4>. QED BY <1>4, <2>1, <4>1
    <3>. QED BY <1>3, <1>4, <3>1, <3>2
  <2>. QED BY <1>4, <2>1, <2>2
<1>7. /\ (g \o h) \o q \in Seq(Nat) /\ Len((g \o h) \o q) = l2Count.in
      /\ \A i \in 1..l2Count.in : ((g \o h) \o q)[i] = i
  <2>1. /\ (g \o h) \o q \in Seq(Nat) /\ Len((g \o h) \o q) = Len(g \o h) + Len(q)
        /\ \A i \in 1..Len(g \o h) + Len(q) :
             ((g \o h) \o q)[i] = IF i <= Len(g \o h) THEN (g \o h)[i] ELSE q[i - Len(g \o h)]
    BY <1>5, <1>6, ConcatProperties
  <2>2. Len(g \o h) + Len(q) = l2Count.in /\ Len(g \o h) = Len(g) + Hand
    BY <1>1, <1>5, <1>6 DEF FramesOk
  <2>3. ASSUME NEW i \in 1..l2Count.in PROVE ((g \o h) \o q)[i] = i
    <3>1. CASE i <= Len(g) + Hand
      BY <1>3, <1>4, <1>6, <2>1, <2>2, <3>1
    <3>2. CASE i > Len(g) + Hand
      <4>. DEFINE j == i - (Len(g) + Hand)
      <4>1. j \in 1..Len(q) /\ ~(i <= Len(g) + Hand) /\ Len(g) + Hand + j = i
        BY <1>1, <1>3, <1>4, <1>5, <2>2, <3>2
      <4>2. ((g \o h) \o q)[i] = q[j]
        BY <2>1, <2>2, <4>1
      <4>. HIDE DEF j
      <4>3. q[j] = Len(g) + Hand + j
        BY <1>5, <4>1
      <4>. QED BY <4>1, <4>2, <4>3
    <3>3. i <= Len(g) + Hand \/ i > Len(g) + Hand
      <4>1. i \in Int /\ Len(g) \in Int /\ Hand \in Int
        BY <1>1, <1>3, <1>4
      <4>. QED BY <4>1
    <3>. QED BY <3>1, <3>2, <3>3
  <2>. QED BY <2>1, <2>2, <2>3
<1>8. all \in Seq(Nat) /\ Len(all) = l2Count.in /\ \A i \in 1..l2Count.in : all[i] = i
  BY <1>1, IsASeq
<1>. HIDE DEF all
<1>9. (g \o h) \o q = all
  BY <1>7, <1>8, SeqEqual
<1>. QED BY <1>2, <1>9 DEF EveryFrameSeen, h, q, all

\* The promise of the raw-frame plane: requests and calls stay paired, so that
\* no abandoned request takes a frame, and every frame is seen in its order.
THEOREM RequestsStayPaired == L2Spec => []L2RequestsPaired
<1>1. L2Init => L2Inv
  BY L2Initial
<1>2. L2Inv /\ [L2Next]_l2Vars => L2Inv'
  BY L2Step
<1>3. L2Inv => L2RequestsPaired
  BY L2Order
<1>. QED BY <1>1, <1>2, <1>3, PTL DEF L2Spec

-----------------------------------------------------------------------------
(* Source-routed packets.                                                    *)

(* Two faults that fit together pass; the theorem is about one.              *)
OneFault == MaxFaults <= 1

PubKeys == {PubKey(n) : n \in Routers}
RouteMessages ==
  [src_addr : Routers, dst_addr : Routers, payload_len : Nat, init_hop_limit : Nat,
   src_pubkey : PubKeys, hops : Seq(Routers)]
RouteTraces ==
  [src_pubkey : PubKeys, init_hop_limit : Nat, hops : Seq(Routers),
   path_sig : [key : PubKeys, msg : RouteMessages]]
MhPackets ==
  [id : Nat, src : Routers, dst : Routers, payload_len : Nat, hop_limit : Int,
   cert : [addr : Routers, verify_key : PubKeys], trace : RouteTraces,
   trail : Seq(Routers), sound : BOOLEAN]

Signed(p) == p.trace.path_sig.msg

(* A list of hops that visits no node twice and ends at dst.                 *)
Straight(hops, dst) ==
  /\ hops # <<>> /\ hops[Len(hops)] = dst
  /\ \A i, j \in 1..Len(hops) : hops[i] = hops[j] => i = j

(* A packet that is still what its source signed, on its way to node n: it   *)
(* has been at the hops before n and has counted down once at each.          *)
OnTrack(p, n) ==
  /\ PathSigOk(p) /\ p.trace.src_pubkey = PubKey(p.src)
  /\ p.cert.addr = p.src /\ p.cert.verify_key = PubKey(p.src)
  /\ Straight(p.trace.hops, p.dst)
  /\ Len(p.trail) < Len(p.trace.hops) /\ n = p.trace.hops[Len(p.trail) + 1]
  /\ \A i \in 1..Len(p.trail) : p.trail[i] = p.trace.hops[i]
  /\ p.hop_limit = p.trace.init_hop_limit - Len(p.trail)

(* A packet that verify_for_next_hop refuses at node n.                      *)
Doomed(p, n) == ~(PathSigOk(p) /\ OnPath(p, n) /\ HopLimitFits(p, n))

InTunnel(m, faults) ==
  /\ m \in [to : Routers, pkt : MhPackets]
  /\ IF m.pkt.sound THEN OnTrack(m.pkt, m.to) ELSE faults >= 1 /\ Doomed(m.pkt, m.to)

Waiting(f) == f.pkt.sound /\ OnTrack(f.pkt, f.next)

MhInv ==
  /\ mhFaults \in 0..MaxFaults /\ mhSends \in Nat
  /\ \A m \in mhNet : InTunnel(m, mhFaults)
  /\ forward_out \in [Routers -> Seq([next : Routers, pkt : MhPackets])]
  /\ \A n \in Routers : \A i \in 1..Len(forward_out[n]) : Waiting(forward_out[n][i])
  /\ PathHonoured

\* A list of hops places a node at most once, so its position is that place.
LEMMA HopPosition ==
  ASSUME NEW p, p.trace.hops \in Seq(Routers), NEW n
  PROVE  /\ OnPath(p, n) => /\ HopIndex(p, n) \in Nat
                            /\ HopIndex(p, n) + 1 \in 1..Len(p.trace.hops)
                            /\ p.trace.hops[HopIndex(p, n) + 1] = n
         /\ \A i \in 1..Len(p.trace.hops) : p.trace.hops[i] = n => OnPath(p, n)
<1>. DEFINE hops == p.trace.hops
            S == {i \in DOMAIN p.trace.hops : p.trace.hops[i] = n}
<1>1. DOMAIN hops = 1..Len(hops) /\ Len(hops) \in Nat
  BY LenProperties
<1>2. ASSUME OnPath(p, n)
      PROVE  HopIndex(p, n) \in Nat /\ HopIndex(p, n) + 1 \in 1..Len(hops) /\ hops[HopIndex(p, n) + 1] = n
  <2>1. S # {} /\ S \in SUBSET Nat
    BY <1>1, <1>2 DEF OnPath, Range
  <2>2. Min(S) \in S
    BY <2>1, MinOfNats
  <2>3. HopIndex(p, n) = Min(S) - 1 /\ Min(S) \in 1..Len(hops) /\ hops[Min(S)] = n
    BY <1>1, <2>2 DEF HopIndex
  <2>. HIDE DEF S
  <2>. QED BY <1>1, <2>3
<1>3. \A i \in 1..Len(hops) : hops[i] = n => OnPath(p, n)
  BY <1>1 DEF OnPath, Range
<1>. QED BY <1>2, <1>3

\* On a straight path it is the only place.
LEMMA HopAt ==
  ASSUME NEW p, p.trace.hops \in Seq(Routers), NEW dst, Straight(p.trace.hops, dst),
         NEW i \in 1..Len(p.trace.hops)
  PROVE  OnPath(p, p.trace.hops[i]) /\ HopIndex(p, p.trace.hops[i]) = i - 1
<1>. DEFINE n == p.trace.hops[i]
            x == HopIndex(p, n)
<1>1. OnPath(p, n) /\ x \in Nat /\ x + 1 \in 1..Len(p.trace.hops) /\ p.trace.hops[x + 1] = n
  BY HopPosition
<1>2. x + 1 = i
  BY <1>1 DEF Straight
<1>. QED BY <1>1, <1>2

\* path_to returns a shortest walk, and that visits no node twice.
LEMMA PathsAreStraight ==
  ASSUME NEW n \in Routers, NEW dst \in Routers, NEW p \in PathsTo(n, dst)
  PROVE  p \in Seq(Routers) /\ Straight(p, dst)
<1>. DEFINE most == Cardinality(Routers) - 1
            before(f, x) == IF x = 1 THEN n ELSE f[x - 1]
<1>1. most \in Int
  BY FS_CardinalityType, MultiHopAssumption
<1>2. PICK k \in 1..most : p \in [1..k -> Routers]
  BY DEF PathsTo, WalksTo
<1>3. p \in Seq(Routers) /\ Len(p) = k /\ k \in Nat /\ k >= 1 /\ DOMAIN p = 1..k
  BY <1>1, <1>2, IsASeq
<1>4. p[k] = dst /\ \A x \in 1..k : {before(p, x), p[x]} \in links
  BY <1>3 DEF PathsTo, WalksTo, Last
<1>5. \A q \in WalksTo(n, dst) : k <= Len(q)
  BY <1>3 DEF PathsTo
<1>6. ASSUME NEW i \in 1..k, NEW j \in 1..k, p[i] = p[j], i < j PROVE FALSE
  <2>. DEFINE m == k - (j - i)
              q == [x \in 1..m |-> IF x <= i THEN p[x] ELSE p[x + (j - i)]]
  <2>1. m \in 1..most /\ m < k /\ m >= i /\ k = m + (j - i)
    BY <1>1, <1>3, <1>6
  <2>2. \A x \in 1..m : x + (j - i) \in 1..k /\ x \in 1..k
    BY <1>3, <1>6, <2>1
  <2>3. q \in [1..m -> Routers]
    BY <1>2, <2>2
  <2>. DEFINE d == j - i
  <2>4. \A x \in 1..m : q[x] = IF x <= i THEN p[x] ELSE p[x + d]
    OBVIOUS
  <2>5. d \in Int /\ i \in Int /\ j = i + d
    BY <1>6
  <2>. HIDE DEF q, m, d
  <2>6. q \in Seq(Routers) /\ Len(q) = m /\ DOMAIN q = 1..m
    BY <2>1, <2>3, IsASeq
  <2>7. q[m] = dst
    <3>1. CASE m = i
      BY <1>3, <1>4, <1>6, <2>1, <2>4, <2>5, <3>1 DEF m, d
    <3>2. CASE m > i
      BY <1>3, <1>4, <1>6, <2>1, <2>4, <2>5, <3>2 DEF m, d
    <3>. QED BY <2>1, <2>5, <3>1, <3>2
  <2>8. ASSUME NEW x \in 1..m PROVE {before(q, x), q[x]} \in links
    <3>1. x \in Int /\ x >= 1 /\ x \in 1..k
      BY <2>2
    <3>2. CASE x <= i
      <4>1. q[x] = p[x] /\ before(q, x) = before(p, x)
        BY <2>1, <2>4, <2>5, <3>1, <3>2
      <4>. QED BY <1>4, <3>1, <4>1
    <3>3. CASE x = i + 1
      <4>1. q[x] = p[j + 1] /\ before(q, x) = p[j] /\ j + 1 \in 1..k
        BY <1>6, <2>1, <2>2, <2>4, <2>5, <3>1, <3>3 DEF d
      <4>. QED BY <1>4, <1>6, <4>1
    <3>4. CASE x > i + 1
      <4>1. q[x] = p[x + d] /\ before(q, x) = before(p, x + d) /\ x + d \in 1..k
        BY <1>6, <2>1, <2>2, <2>4, <2>5, <3>1, <3>4 DEF d
      <4>. QED BY <1>4, <4>1
    <3>. QED BY <2>5, <3>1, <3>2, <3>3, <3>4
  <2>9. q \in WalksTo(n, dst)
    <3>1. Last(q) = dst
      BY <2>6, <2>7 DEF Last
    <3>2. q \in UNION {[1..l -> Routers] : l \in 1..most}
      BY <2>1, <2>3
    <3>. QED BY <2>6, <2>8, <3>1, <3>2 DEF WalksTo
  <2>. QED BY <1>3, <1>5, <2>1, <2>6, <2>9
<1>7. \A i, j \in 1..k : p[i] = p[j] => i = j
  BY <1>3, <1>6
<1>8. p # <<>>
  BY <1>3, LenProperties
<1>. QED BY <1>3, <1>4, <1>7, <1>8 DEF Straight

LEMMA MhInitial == MhInit => MhInv
<1>. SUFFICES ASSUME MhInit PROVE MhInv
  OBVIOUS
<1>1. mhFaults \in 0..MaxFaults /\ mhSends \in Nat /\ PathHonoured /\ \A m \in mhNet : InTunnel(m, mhFaults)
  BY MultiHopAssumption DEF MhInit, PathHonoured, DeliveredAlongPath, NoFalseReject
<1>2. <<>> \in Seq([next : Routers, pkt : MhPackets]) /\ Len(<<>>) = 0
  BY EmptySeq
<1>. QED BY <1>1, <1>2 DEF MhInit, MhInv

LEMMA SealMultihopKeeps ==
  ASSUME MhInv, NEW n \in Routers, NEW dst \in Routers, NEW h \in InitHopLimits,
         SealMultihop(n, dst, h)
  PROVE  MhInv'
<1>1. PICK hops \in PathsTo(n, dst) :
        mhNet' = mhNet \cup
          {[to |-> hops[1], pkt |-> MultihopPacket(n, dst, hops, h, mhSends)]}
  BY DEF SealMultihop
<1>. DEFINE p == MultihopPacket(n, dst, hops, h, mhSends)
            m == [to |-> hops[1], pkt |-> p]
<1>2. hops \in Seq(Routers) /\ Straight(hops, dst) /\ Len(hops) \in Nat /\ Len(hops) # 0
      /\ hops[1] \in Routers
  <2>1. hops \in Seq(Routers) /\ Straight(hops, dst)
    BY PathsAreStraight
  <2>2. hops # <<>>
    BY <2>1 DEF Straight
  <2>3. Len(hops) \in Nat /\ Len(hops) # 0
    BY <2>1, <2>2, EmptySeq, LenProperties
  <2>. QED BY <2>1, <2>3, ElementOfSeq
<1>3. <<>> \in Seq(Routers) /\ Len(<<>>) = 0 /\ PubKey(n) \in PubKeys /\ h \in Nat
      /\ mhSends \in Nat
  BY EmptySeq, MultiHopAssumption DEF PubKeys, MhInv
<1>4. RouteTraceMessage(p) \in RouteMessages /\ Signed(p) = RouteTraceMessage(p)
  BY <1>2, <1>3 DEF MultihopPacket, RouteTraceMessage, RouteMessages, Signed, Sign
<1>5. p \in MhPackets
  <2>1. p.trace \in RouteTraces
    BY <1>2, <1>3, <1>4 DEF MultihopPacket, RouteTraces, Sign, Signed
  <2>2. p.cert \in [addr : Routers, verify_key : PubKeys]
    BY <1>3 DEF MultihopPacket
  <2>. DEFINE t == p.trace
              c == p.cert
  <2>3. p = [id |-> mhSends, src |-> n, dst |-> dst, payload_len |-> mhSends, hop_limit |-> h,
             cert |-> c, trace |-> t, trail |-> <<>>, sound |-> TRUE]
    BY DEF MultihopPacket
  <2>4. t \in RouteTraces /\ c \in [addr : Routers, verify_key : PubKeys]
    BY <2>1, <2>2
  <2>. HIDE DEF p, t, c
  <2>. QED BY <1>3, <2>3, <2>4 DEF MhPackets
<1>6. OnTrack(p, hops[1]) /\ p.sound
  <2>1. /\ p.trace.hops = hops /\ p.trail = <<>> /\ p.src = n /\ p.dst = dst
        /\ p.trace.src_pubkey = PubKey(n) /\ p.cert = [addr |-> n, verify_key |-> PubKey(n)]
        /\ p.hop_limit = h /\ p.trace.init_hop_limit = h /\ p.sound
        /\ p.trace.path_sig.key = PubKey(n)
    BY DEF MultihopPacket, Sign
  <2>2. PathSigOk(p)
    BY <1>4 DEF PathSigOk, Sign, MultihopPacket, Signed
  <2>. HIDE DEF p
  <2>. QED BY <1>2, <1>3, <2>1, <2>2 DEF OnTrack
<1>7. mhNet' = mhNet \cup {m}
  BY <1>1
<1>. HIDE DEF p
<1>8. InTunnel(m, mhFaults)
  BY <1>2, <1>5, <1>6 DEF InTunnel
<1>. HIDE DEF m
<1>9. \A x \in mhNet' : InTunnel(x, mhFaults')
  BY <1>7, <1>8 DEF MhInv, InTunnel, SealMultihop
<1>10. UNCHANGED <<forward_out, mhFaults, mhDelivered, mhRejected>> /\ mhSends' = mhSends + 1
  BY DEF SealMultihop
<1>11. PathHonoured'
  BY <1>10 DEF MhInv, PathHonoured, DeliveredAlongPath, NoFalseReject
<1>12. mhSends' \in Nat
  BY <1>3, <1>10
<1>13. /\ mhFaults' \in 0..MaxFaults
       /\ forward_out' \in [Routers -> Seq([next : Routers, pkt : MhPackets])]
       /\ \A x \in Routers : \A i \in 1..Len(forward_out'[x]) : Waiting(forward_out'[x][i])
  BY <1>10 DEF MhInv
<1>. QED BY <1>9, <1>11, <1>12, <1>13 DEF MhInv

\* With one fault at most, a packet verify_for_next_hop accepts kept to its path.
LEMMA AcceptedIsOnTrack ==
  ASSUME NEW m, InTunnel(m, mhFaults), Verified(m.pkt, m.to)
  PROVE  m.pkt.sound /\ OnTrack(m.pkt, m.to)
  BY DEF InTunnel, Doomed, Verified

\* A relay's position is the number of relays before it.
LEMMA TrackPosition ==
  ASSUME NEW p \in MhPackets, NEW n, OnTrack(p, n)
  PROVE  /\ OnPath(p, n) /\ HopIndex(p, n) = Len(p.trail) /\ Len(p.trail) \in Nat
         /\ p.trace.hops \in Seq(Routers) /\ Len(p.trace.hops) \in Nat
         /\ Len(p.trail) + 1 \in 1..Len(p.trace.hops) /\ p.trace.init_hop_limit \in Nat
<1>1. p.trail \in Seq(Routers) /\ p.trace.hops \in Seq(Routers) /\ p.trace.init_hop_limit \in Nat
  BY DEF MhPackets, RouteTraces
<1>2. Len(p.trail) \in Nat /\ Len(p.trace.hops) \in Nat /\ Len(p.trail) + 1 \in 1..Len(p.trace.hops)
  BY <1>1, LenProperties DEF OnTrack
<1>. DEFINE i == Len(p.trail) + 1
<1>3. Straight(p.trace.hops, p.dst) /\ n = p.trace.hops[i]
  BY DEF OnTrack
<1>4. OnPath(p, n) /\ HopIndex(p, n) = i - 1
  <2>. HIDE DEF i
  <2>. QED BY <1>1, <1>2, <1>3, HopAt DEF i
<1>. QED BY <1>1, <1>2, <1>4

\* One more packet waiting at a node that is on its track.
LEMMA QueueOfWaiting ==
  ASSUME MhInv, NEW n \in Routers, NEW f \in [next : Routers, pkt : MhPackets], Waiting(f),
         forward_out' = [forward_out EXCEPT ![n] = Append(@, f)]
  PROVE  /\ forward_out' \in [Routers -> Seq([next : Routers, pkt : MhPackets])]
         /\ \A x \in Routers : \A i \in 1..Len(forward_out'[x]) : Waiting(forward_out'[x][i])
<1>. DEFINE out == forward_out[n]
<1>1. out \in Seq([next : Routers, pkt : MhPackets]) /\ Len(out) \in Nat
      /\ \A i \in 1..Len(out) : Waiting(out[i])
  BY LenProperties DEF MhInv
<1>2. forward_out' \in [Routers -> Seq([next : Routers, pkt : MhPackets])]
      /\ forward_out'[n] = Append(out, f)
      /\ \A x \in Routers : x # n => forward_out'[x] = forward_out[x]
  BY <1>1, AppendProperties DEF MhInv
<1>. HIDE DEF out
<1>3. Len(Append(out, f)) = Len(out) + 1 /\ Append(out, f)[Len(out) + 1] = f
      /\ \A i \in 1..Len(out) : Append(out, f)[i] = out[i]
  BY <1>1, AppendProperties
<1>4. \A i \in 1..Len(out) + 1 : i \in 1..Len(out) \/ i = Len(out) + 1
  BY <1>1
<1>5. \A i \in 1..Len(forward_out'[n]) : Waiting(forward_out'[n][i])
  BY <1>1, <1>2, <1>3, <1>4
<1>. QED BY <1>2, <1>5 DEF MhInv

LEMMA IngestKeeps == ASSUME MhInv, NEW m \in mhNet, Ingest(m) PROVE MhInv'
<1>. DEFINE p == m.pkt
            n == m.to
            j == Len(p.trail)
            hops == p.trace.hops
<1>1. InTunnel(m, mhFaults) /\ p \in MhPackets /\ n \in Routers
  BY DEF MhInv, InTunnel
<1>2. \A x \in mhNet' : InTunnel(x, mhFaults')
  BY DEF MhInv, InTunnel, Ingest
<1>3. ASSUME OnTrack(p, n)
      PROVE  /\ OnPath(p, n) /\ HopIndex(p, n) = j /\ j \in Nat
             /\ hops \in Seq(Routers) /\ Len(hops) \in Nat
             /\ j + 1 \in 1..Len(hops) /\ p.trace.init_hop_limit \in Nat
  BY <1>1, <1>3, TrackPosition
<1>. HIDE DEF p, n, hops
<1>4. CASE Delivers(p, n)
  <2>1. p.sound /\ OnTrack(p, n) /\ IsLastHop(p, n) /\ p.dst = n
    BY <1>1, <1>4, AcceptedIsOnTrack DEF Delivers, p, n
  <2>2. j + 1 = Len(hops) /\ j \in Nat /\ hops \in Seq(Routers)
    BY <1>3, <2>1 DEF IsLastHop, hops
  <2>3. p.trail = Front(hops)
    <3>1. p.trail \in Seq(Routers) /\ DOMAIN p.trail = 1..j
      BY <1>1, LenProperties DEF MhPackets
    <3>2. Front(hops) = [i \in 1..j |-> hops[i]]
      <4>1. Len(hops) - 1 = j
        BY <2>2
      <4>. QED BY <2>2, <4>1 DEF Front, SubSeq
    <3>3. \A i \in 1..j : p.trail[i] = hops[i]
      BY <2>1 DEF OnTrack, hops
    <3>4. p.trail = [i \in 1..j |-> p.trail[i]]
      BY <3>1
    <3>. QED BY <3>2, <3>3, <3>4
  <2>4. LET signed == p.trace.path_sig.msg
        IN /\ n = signed.dst_addr /\ p.trace.path_sig.key = PubKey(signed.src_addr)
           /\ p.trail = Front(signed.hops)
    BY <2>1, <2>3 DEF OnTrack, PathSigOk, Sign, RouteTraceMessage, hops
  <2>5. mhDelivered' = mhDelivered \cup {[at |-> n, pkt |-> p]}
        /\ UNCHANGED <<forward_out, mhRejected, mhSends, mhFaults>>
    BY <1>4 DEF Ingest, p, n, Forwards, Delivers
  <2>6. DeliveredAlongPath'
    BY <2>4, <2>5 DEF MhInv, PathHonoured, DeliveredAlongPath
  <2>. QED BY <1>2, <2>5, <2>6 DEF MhInv, PathHonoured, NoFalseReject
<1>5. CASE Forwards(p, n)
  <2>1. p.sound /\ OnTrack(p, n) /\ ~IsLastHop(p, n) /\ p.hop_limit - 1 > 0
    BY <1>1, <1>5, AcceptedIsOnTrack DEF Forwards, p, n
  <2>2. j + 1 < Len(hops) /\ j \in Nat /\ hops \in Seq(Routers) /\ HopIndex(p, n) = j
        /\ Len(hops) \in Nat
    BY <1>3, <2>1 DEF IsLastHop, hops
  <2>. DEFINE q == [p EXCEPT !.hop_limit = @ - 1, !.trail = Append(@, n)]
              f == [next |-> hops[HopIndex(p, n) + 2], pkt |-> q]
  <2>3. forward_out' = [forward_out EXCEPT ![n] = Append(@, f)]
        /\ UNCHANGED <<mhDelivered, mhRejected, mhSends, mhFaults>>
    BY <1>5 DEF Ingest, p, n, hops, Forwards, Delivers
  <2>4. p.trail \in Seq(Routers) /\ p.hop_limit \in Int
    BY <1>1 DEF MhPackets
  <2>5. /\ Append(p.trail, n) \in Seq(Routers) /\ Len(Append(p.trail, n)) = j + 1
        /\ \A i \in 1..j : Append(p.trail, n)[i] = p.trail[i]
        /\ Append(p.trail, n)[j + 1] = n
    BY <1>1, <2>4, AppendProperties, LenProperties
  <2>6. q \in MhPackets /\ q.sound /\ q.trace = p.trace /\ q.cert = p.cert /\ q.src = p.src
        /\ q.dst = p.dst /\ q.payload_len = p.payload_len
        /\ q.hop_limit = p.hop_limit - 1 /\ q.trail = Append(p.trail, n)
    <3>. DEFINE t == Append(p.trail, n)
                h == p.hop_limit - 1
    <3>1. t \in Seq(Routers) /\ h \in Int /\ q = [p EXCEPT !.hop_limit = h, !.trail = t]
      BY <2>4, <2>5
    <3>. HIDE DEF t, h, q
    <3>2. q \in MhPackets
      BY <1>1, <3>1 DEF MhPackets
    <3>3. q.sound /\ q.trace = p.trace /\ q.cert = p.cert /\ q.src = p.src
          /\ q.dst = p.dst /\ q.payload_len = p.payload_len /\ q.hop_limit = h /\ q.trail = t
      BY <1>1, <2>1, <3>1 DEF MhPackets
    <3>. QED BY <3>2, <3>3 DEF t, h
  <2>7. hops[j + 2] \in Routers
    BY <2>2, ElementOfSeq
  <2>8. OnTrack(q, hops[j + 2])
    <3>1. PathSigOk(q)
      BY <2>1, <2>6 DEF OnTrack, PathSigOk, RouteTraceMessage
    <3>2. \A i \in 1..(j + 1) : q.trail[i] = hops[i]
      BY <2>1, <2>2, <2>5, <2>6 DEF OnTrack, hops
    <3>3. q.hop_limit = p.trace.init_hop_limit - (j + 1)
      BY <1>3, <2>1, <2>2, <2>6 DEF OnTrack
    <3>4. Len(q.trail) = j + 1 /\ j + 1 < Len(hops) /\ (j + 1) + 1 = j + 2
      BY <2>2, <2>5, <2>6
    <3>. HIDE DEF q, j
    <3>. QED BY <2>1, <2>6, <3>1, <3>2, <3>3, <3>4 DEF OnTrack, hops
  <2>9. Waiting(f) /\ f \in [next : Routers, pkt : MhPackets]
    <3>. HIDE DEF q, j
    <3>1. f = [next |-> hops[j + 2], pkt |-> q]
      BY <2>2
    <3>. QED BY <2>6, <2>7, <2>8, <3>1 DEF Waiting
  <2>. HIDE DEF f, q
  <2>10. /\ forward_out' \in [Routers -> Seq([next : Routers, pkt : MhPackets])]
         /\ \A x \in Routers : \A i \in 1..Len(forward_out'[x]) : Waiting(forward_out'[x][i])
    BY <1>1, <2>3, <2>9, QueueOfWaiting DEF MhInv
  <2>. QED BY <1>2, <2>3, <2>10 DEF MhInv, PathHonoured, DeliveredAlongPath, NoFalseReject
<1>6. CASE ~Delivers(p, n) /\ ~Forwards(p, n)
  <2>1. /\ mhRejected' = mhRejected \cup {[at |-> n, pkt |-> p, expired |-> p.src \in mhExpired]}
        /\ UNCHANGED <<mhDelivered, forward_out, mhSends, mhFaults>>
    BY <1>6 DEF Ingest, p, n
  <2>2. ASSUME p.sound, p.src \notin mhExpired, n \in Forwarders
        PROVE  p.trace.init_hop_limit < Len(hops)
    <3>1. OnTrack(p, n)
      BY <1>1, <2>2 DEF InTunnel, p, n
    <3>2. HopIndex(p, n) = j /\ j \in Nat /\ j + 1 \in 1..Len(hops) /\ OnPath(p, n)
          /\ Len(hops) \in Nat /\ p.trace.init_hop_limit \in Nat
          /\ p.hop_limit = p.trace.init_hop_limit - j
      BY <1>3, <3>1 DEF OnTrack
    <3>. HIDE DEF j
    <3>3. CASE p.trace.init_hop_limit < j
      BY <3>2, <3>3
    <3>4. CASE p.trace.init_hop_limit >= j
      <4>1. Verified(p, n)
        BY <2>2, <3>1, <3>2, <3>4 DEF OnTrack, Verified, CertBindingOk, HopLimitFits
      <4>2. CASE j + 1 = Len(hops)
        <5>1. IsLastHop(p, n) /\ p.dst = n
          BY <3>1, <3>2, <4>2 DEF IsLastHop, OnTrack, Straight, hops, j
        <5>. QED BY <1>6, <4>1, <5>1 DEF Delivers
      <4>3. CASE j + 1 # Len(hops)
        <5>1. ~IsLastHop(p, n)
          BY <3>2, <4>3 DEF IsLastHop, hops
        <5>2. ~(p.hop_limit - 1 > 0)
          BY <1>6, <4>1, <5>1 DEF Forwards
        <5>. QED BY <3>2, <4>3, <5>2
      <4>. QED BY <4>2, <4>3
    <3>. QED BY <3>2, <3>3, <3>4
  <2>3. NoFalseReject'
    <3>. DEFINE r == [at |-> n, pkt |-> p, expired |-> p.src \in mhExpired]
    <3>1. r.at = n /\ r.pkt = p /\ (r.expired <=> p.src \in mhExpired)
      OBVIOUS
    <3>2. mhRejected' = mhRejected \cup {r}
      BY <2>1
    <3>. HIDE DEF r
    <3>3. r.pkt.sound =>
            r.expired \/ r.pkt.trace.init_hop_limit < Len(r.pkt.trace.hops) \/ r.at \notin Forwarders
      BY <2>2, <3>1 DEF hops
    <3>. QED BY <3>2, <3>3 DEF MhInv, PathHonoured, NoFalseReject
  <2>. QED BY <1>2, <2>1, <2>3 DEF MhInv, PathHonoured, DeliveredAlongPath
<1>. QED BY <1>4, <1>5, <1>6

\* A straight path has no second place with the same count: a packet in a
\* wrong tunnel is refused where that ends.
LEMMA DetourIsDoomed ==
  ASSUME NEW p \in MhPackets, NEW next, NEW to, OnTrack(p, next), to # next
  PROVE  Doomed(p, to)
<1>. DEFINE j == Len(p.trail)
            i == HopIndex(p, to) + 1
<1>. SUFFICES ASSUME OnPath(p, to), HopLimitFits(p, to) PROVE FALSE
  BY DEF Doomed
<1>1. /\ p.trace.hops \in Seq(Routers) /\ j \in Nat /\ p.trace.init_hop_limit \in Nat
      /\ next = p.trace.hops[j + 1] /\ p.hop_limit = p.trace.init_hop_limit - j
  BY TrackPosition DEF OnTrack
<1>2. HopIndex(p, to) \in Nat /\ p.trace.hops[i] = to
  BY <1>1, HopPosition
<1>3. HopIndex(p, to) = j
  BY <1>1, <1>2 DEF HopLimitFits
<1>. QED BY <1>1, <1>2, <1>3

LEMMA SealPrebuiltKeeps ==
  ASSUME OneFault, MhInv, NEW n \in Routers, NEW to \in Routers, SealPrebuilt(n, to)
  PROVE  MhInv'
<1>. DEFINE out == forward_out[n]
            p == Head(out).pkt
            next == Head(out).next
            q == [p EXCEPT !.sound = @ /\ to = next]
            m == [to |-> to, pkt |-> q]
<1>1. /\ out \in Seq([next : Routers, pkt : MhPackets]) /\ out # <<>>
      /\ \A i \in 1..Len(out) : Waiting(out[i])
  BY DEF SealPrebuilt, MhInv
<1>2. /\ Head(out) \in [next : Routers, pkt : MhPackets] /\ Waiting(Head(out))
      /\ Tail(out) \in Seq([next : Routers, pkt : MhPackets])
      /\ \A i \in 1..Len(Tail(out)) : Waiting(Tail(out)[i])
  <2>1. Len(out) \in Nat /\ Len(out) # 0
    BY <1>1, LenProperties, EmptySeq
  <2>2. Head(out) \in [next : Routers, pkt : MhPackets] /\ Head(out) = out[1]
        /\ Tail(out) \in Seq([next : Routers, pkt : MhPackets])
        /\ Len(Tail(out)) = Len(out) - 1
        /\ \A i \in 1..Len(Tail(out)) : Tail(out)[i] = out[i + 1]
    <3>. DEFINE S == [next : Routers, pkt : MhPackets]
    <3>. HIDE DEF out, S
    <3>1. out \in Seq(S) /\ out # <<>>
      BY <1>1 DEF S
    <3>2. /\ Head(out) \in S /\ Head(out) = out[1] /\ Tail(out) \in Seq(S)
          /\ Len(Tail(out)) = Len(out) - 1
          /\ \A i \in 1..Len(Tail(out)) : Tail(out)[i] = out[i + 1]
      BY <3>1, HeadTailProperties, ElementOfSeq, LenProperties, EmptySeq
    <3>. QED BY <3>2 DEF S
  <2>. HIDE DEF out
  <2>3. 1 \in 1..Len(out) /\ \A i \in 1..Len(Tail(out)) : i + 1 \in 1..Len(out)
    BY <2>1, <2>2
  <2>. QED BY <1>1, <2>2, <2>3
<1>3. p \in MhPackets /\ next \in Routers /\ p.sound /\ OnTrack(p, next)
  BY <1>2 DEF Waiting
<1>4. /\ forward_out' = [forward_out EXCEPT ![n] = Tail(@)]
      /\ mhFaults' = IF to = next THEN mhFaults ELSE mhFaults + 1
      /\ to # next => mhFaults < MaxFaults
      /\ mhNet' = mhNet \cup {m}
      /\ UNCHANGED <<mhDelivered, mhRejected, mhSends>>
  BY DEF SealPrebuilt
<1>. HIDE DEF p, next
<1>5. /\ q \in MhPackets /\ q = [p EXCEPT !.sound = (to = next)] /\ (q.sound <=> to = next)
      /\ q.trace = p.trace /\ q.cert = p.cert /\ q.src = p.src /\ q.dst = p.dst
      /\ q.payload_len = p.payload_len /\ q.hop_limit = p.hop_limit /\ q.trail = p.trail
  BY <1>3 DEF MhPackets
<1>. HIDE DEF q
<1>6. PathSigOk(q) = PathSigOk(p) /\ (OnTrack(p, next) => OnTrack(q, next))
  BY <1>5 DEF OnTrack, PathSigOk, RouteTraceMessage
<1>7. mhFaults' \in 0..MaxFaults /\ mhFaults \in Nat
  BY <1>4, MultiHopAssumption DEF MhInv
<1>8. InTunnel(m, mhFaults')
  <2>1. m \in [to : Routers, pkt : MhPackets] /\ m.to = to /\ m.pkt = q
    BY <1>5
  <2>. HIDE DEF m
  <2>2. CASE to = next
    BY <1>3, <1>5, <1>6, <2>1, <2>2 DEF InTunnel
  <2>3. CASE to # next
    <3>1. Doomed(q, to)
      BY <1>3, <1>5, <1>6, <2>3, DetourIsDoomed
    <3>2. mhFaults' >= 1
      BY <1>4, <1>7, <2>3
    <3>. QED BY <1>5, <2>1, <2>3, <3>1, <3>2 DEF InTunnel
  <2>. QED BY <2>2, <2>3
<1>. HIDE DEF m
<1>9. \A x \in mhNet' : InTunnel(x, mhFaults')
  <2>1. mhFaults >= 1 => mhFaults' >= 1
    BY <1>4, <1>7
  <2>. QED BY <1>4, <1>8, <2>1 DEF MhInv, InTunnel
<1>10. /\ forward_out' \in [Routers -> Seq([next : Routers, pkt : MhPackets])]
       /\ \A x \in Routers : \A i \in 1..Len(forward_out'[x]) : Waiting(forward_out'[x][i])
  BY <1>2, <1>4 DEF MhInv
<1>. QED
  BY <1>4, <1>7, <1>9, <1>10 DEF MhInv, PathHonoured, DeliveredAlongPath, NoFalseReject

LEMMA RewriteKeeps ==
  ASSUME OneFault, MhInv, NEW m \in mhNet, Rewrite(m)
  PROVE  MhInv'
<1>. DEFINE p == m.pkt
            n == m.to
<1>1. /\ mhFaults = 0 /\ mhFaults' = 1 /\ mhFaults' \in 0..MaxFaults
      /\ UNCHANGED <<links, forward_out, mhExpired, mhDelivered, mhRejected, mhSends>>
  BY MultiHopAssumption DEF Rewrite, MhInv, OneFault
<1>2. PICK q \in Rewrites(p) : mhNet' = (mhNet \ {m}) \cup {[m EXCEPT !.pkt = q]}
  BY DEF Rewrite
<1>3. m \in [to : Routers, pkt : MhPackets] /\ p.sound /\ OnTrack(p, n)
  BY <1>1 DEF MhInv, InTunnel
<1>. HIDE DEF p
<1>4. p \in MhPackets
  BY <1>3 DEF p
<1>5. q \in MhPackets /\ ~q.sound /\ Doomed(q, n)
  <2>1. ASSUME NEW h \in {p.hop_limit + 1, p.hop_limit - 1},
               q = [p EXCEPT !.hop_limit = h, !.sound = FALSE]
        PROVE  q \in MhPackets /\ ~q.sound /\ Doomed(q, n)
    <3>1. h \in Int /\ h # p.hop_limit
      BY <1>4 DEF MhPackets
    <3>2. q \in MhPackets /\ ~q.sound /\ q.hop_limit = h /\ q.trace = p.trace
      BY <1>4, <2>1, <3>1 DEF MhPackets
    <3>3. HopIndex(q, n) = HopIndex(p, n) /\ HopIndex(p, n) = Len(p.trail)
          /\ p.hop_limit = p.trace.init_hop_limit - Len(p.trail)
      BY <1>3, <1>4, <3>2, TrackPosition DEF HopIndex, OnTrack
    <3>. QED BY <3>1, <3>2, <3>3 DEF Doomed, HopLimitFits
  <2>2. ASSUME NEW d \in Routers \ {p.dst}, q = [p EXCEPT !.dst = d, !.sound = FALSE]
        PROVE  q \in MhPackets /\ ~q.sound /\ Doomed(q, n)
    <3>1. q \in MhPackets /\ ~q.sound /\ q.dst = d /\ q.trace = p.trace
      BY <1>4, <2>2 DEF MhPackets
    <3>2. RouteTraceMessage(p).dst_addr = p.dst /\ RouteTraceMessage(q).dst_addr = d
      BY <3>1 DEF RouteTraceMessage
    <3>3. p.trace.path_sig.msg = RouteTraceMessage(p)
      BY <1>3 DEF OnTrack, PathSigOk, Sign
    <3>4. PathSigOk(q) => q.trace.path_sig.msg = RouteTraceMessage(q)
      BY DEF PathSigOk, Sign
    <3>. QED BY <3>1, <3>2, <3>3, <3>4 DEF Doomed
  <2>3. ASSUME Len(p.trace.hops) = 2, q = [p EXCEPT !.trace.hops = Tail(@), !.sound = FALSE]
        PROVE  q \in MhPackets /\ ~q.sound /\ Doomed(q, n)
    <3>. DEFINE hops == p.trace.hops
                rest == Tail(p.trace.hops)
                t == [p.trace EXCEPT !.hops = rest]
    <3>1. p.trace \in RouteTraces /\ hops \in Seq(Routers) /\ hops # <<>> /\ Len(hops) = 2
      <4>1. p.trace \in RouteTraces /\ hops \in Seq(Routers)
        BY <1>4 DEF MhPackets, RouteTraces
      <4>2. Len(hops) = 2
        BY <2>3
      <4>. QED BY <4>1, <4>2, EmptySeq
    <3>2. rest \in Seq(Routers) /\ Len(rest) = 1
      BY <3>1, HeadTailProperties
    <3>. HIDE DEF rest
    <3>3. t \in RouteTraces /\ t.hops = rest /\ t.path_sig = p.trace.path_sig
      BY <3>1, <3>2 DEF RouteTraces
    <3>4. q = [p EXCEPT !.trace = t, !.sound = FALSE]
      BY <1>4, <2>3 DEF rest
    <3>. HIDE DEF t
    <3>5. q \in MhPackets /\ ~q.sound /\ q.trace = t
      BY <1>4, <3>3, <3>4 DEF MhPackets
    <3>6. p.trace.path_sig.msg.hops = hops
      BY <1>3 DEF OnTrack, PathSigOk, Sign, RouteTraceMessage
    <3>7. PathSigOk(q) => q.trace.path_sig.msg.hops = rest
      BY <3>3, <3>5 DEF PathSigOk, Sign, RouteTraceMessage
    <3>8. hops # rest
      <4>1. Len(hops) # Len(rest)
        BY <3>1, <3>2
      <4>. QED BY <4>1
    <3>. QED BY <3>3, <3>5, <3>6, <3>7, <3>8 DEF Doomed
  <2>4. Len(p.trace.hops) \in Nat
    BY <1>4, LenProperties DEF MhPackets, RouteTraces
  <2>5. q \in {[p EXCEPT !.trace.hops = Tail(@), !.sound = FALSE] : x \in {1} \cap {Len(p.trace.hops) - 1}}
          => Len(p.trace.hops) = 2 /\ q = [p EXCEPT !.trace.hops = Tail(@), !.sound = FALSE]
    BY <2>4
  <2>. QED BY <2>1, <2>2, <2>3, <2>5 DEF Rewrites
<1>. DEFINE r == [m EXCEPT !.pkt = q]
<1>6. InTunnel(r, 1)
  <2>1. r.to = n /\ r.pkt = q /\ r \in [to : Routers, pkt : MhPackets]
    BY <1>3, <1>5
  <2>. HIDE DEF r, n
  <2>. QED BY <1>5, <2>1 DEF InTunnel
<1>7. mhNet' = (mhNet \ {m}) \cup {r}
  BY <1>2
<1>. HIDE DEF r
<1>8. \A x \in mhNet' : InTunnel(x, mhFaults')
  BY <1>1, <1>6, <1>7 DEF MhInv, InTunnel
<1>9. PathHonoured'
  BY <1>1 DEF MhInv, PathHonoured, DeliveredAlongPath, NoFalseReject
<1>. QED BY <1>1, <1>8, <1>9 DEF MhInv

LEMMA MhStep == OneFault /\ MhInv /\ [MhNext]_mhVars => MhInv'
<1>. SUFFICES ASSUME OneFault, MhInv, [MhNext]_mhVars PROVE MhInv'
  OBVIOUS
<1>1. ASSUME UNCHANGED <<mhNet, forward_out, mhDelivered, mhRejected, mhSends, mhFaults>>
      PROVE  MhInv'
  BY <1>1 DEF MhInv, PathHonoured, DeliveredAlongPath, NoFalseReject
<1>2. CASE UNCHANGED mhVars
  BY <1>1, <1>2 DEF mhVars
<1>3. ASSUME NEW a, NEW b, AddLink(a, b) PROVE MhInv'
  BY <1>1, <1>3 DEF AddLink
<1>4. ASSUME NEW n, MhExpire(n) PROVE MhInv'
  BY <1>1, <1>4 DEF MhExpire
<1>. QED BY <1>2, <1>3, <1>4, SealMultihopKeeps, IngestKeeps, SealPrebuiltKeeps, RewriteKeeps DEF MhNext

\* What the route trace promises, for any nodes, links, hop limits and number
\* of packets: with one wrong tunnel or rewritten field on the way a packet is
\* handed up only at the end of the very path its source signed, and one that
\* kept to its path is refused only for lack of hops, of a valid certificate or
\* of a willing relay.
THEOREM SignedPathHonoured == ASSUME OneFault PROVE MhSpec => []PathHonoured
<1>1. MhInit => MhInv
  BY MhInitial
<1>2. OneFault /\ MhInv /\ [MhNext]_mhVars => MhInv'
  BY MhStep
<1>3. OneFault
  OBVIOUS
<1>4. MhInv => PathHonoured
  BY DEF MhInv
<1>. QED BY <1>1, <1>2, <1>3, <1>4, PTL DEF MhSpec

-----------------------------------------------------------------------------
(* Registered I/O: who owns a slot.                                          *)

CqEntries == [send : BOOLEAN, slot : Nat, bad : BOOLEAN, probe : BOOLEAN]

Budgets == [{"in", "sends", "tun", "faults"} -> Nat]

RioPlanes ==
  [io : {"bind", "check", "rio", "std", "none"}, mode : RioModes,
   small : BOOLEAN, sent : BOOLEAN, back : BOOLEAN]

RioShape ==
  /\ plane \in RioPlanes
  /\ rioBudget \in Budgets
  /\ cq \in Seq(CqEntries)
  /\ DOMAIN recvSlot \subseteq Nat /\ DOMAIN sendUsed \subseteq Nat
  /\ recvSlot \in [DOMAIN recvSlot -> {"kernel", "cq", "held"}]
  /\ sendUsed \in [DOMAIN sendUsed -> BOOLEAN]
  /\ sendBuf \in [DOMAIN sendUsed -> Nat] /\ sending \in [DOMAIN sendUsed -> Nat]
  /\ caller \in [Callers -> [pc : {"idle", "alloc", "copy", "post"}, slot : Nat, frame : Nat]]

(* A completion is the only one of its request; a send's slot is taken and no *)
(* longer with the kernel, a receive's slot is in the queue.                  *)
CqOk ==
  /\ \A i \in 1..Len(cq) :
       IF cq[i].send
       THEN LET s == cq[i].slot IN s \in DOMAIN sendUsed /\ sendUsed[s] /\ sending[s] = NoFrame
       ELSE cq[i].slot \in DOMAIN recvSlot /\ recvSlot[cq[i].slot] = "cq"
  /\ \A i, j \in 1..Len(cq) : cq[i].send = cq[j].send /\ cq[i].slot = cq[j].slot => i = j
  /\ \A s \in DOMAIN recvSlot : recvSlot[s] = "cq" =>
       \E i \in 1..Len(cq) : ~cq[i].send /\ cq[i].slot = s

(* A request in the kernel has its slot and its frame in it.                  *)
PostedOk == \A s \in DOMAIN sending : sending[s] # NoFrame => sendUsed[s] /\ sendBuf[s] = sending[s]

(* A thread between its swap and its RIOSendEx has a slot for itself.         *)
HasSlot(c) == caller[c].pc \in {"copy", "post"}

CallersOk ==
  /\ \A c \in Callers :
       LET s == caller[c].slot
       IN /\ caller[c].pc # "idle" => plane.io = "rio" /\ caller[c].frame # NoFrame
          /\ HasSlot(c) => /\ s \in DOMAIN sendUsed /\ sendUsed[s] /\ sending[s] = NoFrame
                           /\ \A i \in 1..Len(cq) : ~(cq[i].send /\ cq[i].slot = s)
          /\ caller[c].pc = "post" => sendBuf[s] = caller[c].frame
  /\ \A c, d \in Callers : HasSlot(c) /\ HasSlot(d) /\ caller[c].slot = caller[d].slot => c = d

RioInv == RioShape /\ CqOk /\ PostedOk /\ CallersOk

LEMMA RioInvSuffices == RioInv => SlotsSound
<1>. SUFFICES ASSUME RioInv PROVE SlotsSound
  OBVIOUS
<1>1. SentAsGiven
  BY DEF RioInv, PostedOk, SentAsGiven
<1>2. ASSUME NEW s \in DOMAIN recvSlot
      PROVE  LET queued == {i \in DOMAIN cq : ~cq[i].send /\ cq[i].slot = s}
             IN  /\ recvSlot[s] # "gone"
                 /\ Cardinality(queued) = IF recvSlot[s] = "cq" THEN 1 ELSE 0
  <2>. DEFINE queued == {i \in DOMAIN cq : ~cq[i].send /\ cq[i].slot = s}
  <2>1. DOMAIN cq = 1..Len(cq) /\ recvSlot[s] # "gone"
    BY LenProperties DEF RioInv, RioShape
  <2>2. CASE recvSlot[s] = "cq"
    <3>1. PICK i \in 1..Len(cq) : ~cq[i].send /\ cq[i].slot = s
      BY <2>2 DEF RioInv, CqOk
    <3>2. \A j \in 1..Len(cq) : cq[j].send \in BOOLEAN
      <4>1. cq \in Seq(CqEntries)
        BY DEF RioInv, RioShape
      <4>2. \A j \in 1..Len(cq) : cq[j] \in CqEntries
        BY <4>1, ElementOfSeq
      <4>. QED BY <4>2 DEF CqEntries
    <3>3. \A j \in 1..Len(cq) : ~cq[j].send /\ cq[j].slot = s => j = i
      BY <3>1, <3>2 DEF RioInv, CqOk
    <3>4. queued = {i}
      BY <2>1, <3>1, <3>3
    <3>. QED BY <2>1, <2>2, <3>4, FS_Singleton
  <2>3. CASE recvSlot[s] # "cq"
    <3>1. queued = {}
      BY <2>1, <2>3 DEF RioInv, CqOk
    <3>. QED BY <2>1, <2>3, <3>1, FS_EmptySet
  <2>. QED BY <2>2, <2>3
<1>. QED BY <1>1, <1>2 DEF SlotsSound, RecvSlotsKept

\* create starts over: every receive slot with the kernel, the probe in slot 1.
LEMMA CreateKeeps ==
  ASSUME RioInv, plane.io # "rio", NEW n \in Nat, NEW m \in Nat, RioCreate(n, m),
         rioBudget' \in Budgets
  PROVE  RioInv'
<1>1. /\ cq' = <<>> /\ caller' = caller
      /\ recvSlot' = [s \in 1..n |-> "kernel"]
      /\ sendUsed' = [s \in 1..m |-> s = 1]
      /\ sendBuf' = [s \in 1..m |-> IF s = 1 THEN Probe ELSE NoFrame]
      /\ sending' = [s \in 1..m |-> IF s = 1 THEN Probe ELSE NoFrame]
  BY DEF RioCreate, Fresh
<1>2. \A c \in Callers : caller[c].pc = "idle"
  BY DEF RioInv, CallersOk, RioShape
<1>3. cq' \in Seq(CqEntries) /\ Len(cq') = 0
  BY <1>1, EmptySeq
<1>4. plane' \in RioPlanes
  BY DEF RioCreate, RioInv, RioShape, RioPlanes
<1>5. RioShape'
  <2>1. recvSlot' \in [1..n -> {"kernel", "cq", "held"}] /\ DOMAIN recvSlot' = 1..n
    BY <1>1
  <2>2. /\ sendUsed' \in [1..m -> BOOLEAN] /\ DOMAIN sendUsed' = 1..m
        /\ sendBuf' \in [1..m -> Nat] /\ sending' \in [1..m -> Nat]
    BY <1>1 DEF Probe, NoFrame
  <2>3. DOMAIN recvSlot' \subseteq Nat /\ DOMAIN sendUsed' \subseteq Nat
    BY <2>1, <2>2
  <2>4. caller' \in [Callers -> [pc : {"idle", "alloc", "copy", "post"}, slot : Nat, frame : Nat]]
    BY <1>1 DEF RioInv, RioShape
  <2>5. /\ recvSlot' \in [DOMAIN recvSlot' -> {"kernel", "cq", "held"}]
        /\ sendUsed' \in [DOMAIN sendUsed' -> BOOLEAN]
        /\ sendBuf' \in [DOMAIN sendUsed' -> Nat] /\ sending' \in [DOMAIN sendUsed' -> Nat]
    BY <2>1, <2>2
  <2>. QED BY <1>3, <1>4, <2>3, <2>4, <2>5 DEF RioShape
<1>6. CqOk' /\ PostedOk'
  <2>1. \A s \in DOMAIN recvSlot' : recvSlot'[s] # "cq"
    BY <1>1
  <2>2. 1..Len(cq') = {}
    BY <1>3
  <2>3. PostedOk'
    BY <1>1 DEF PostedOk, NoFrame
  <2>. QED BY <2>1, <2>2, <2>3 DEF CqOk
<1>7. CallersOk'
  BY <1>1, <1>2 DEF CallersOk, HasSlot
<1>. QED BY <1>5, <1>6, <1>7 DEF RioInv

LEMMA SlotCounts ==
  /\ RecvSlots \in Nat /\ SendSlots \in Nat /\ SmallSlots \in Nat /\ DequeueBatch \in Nat
  BY RioAssumption

LEMMA FaultCounts ==
  ASSUME RioShape, NEW what \in {"in", "sends", "tun", "faults"}, Spent(what)
  PROVE  rioBudget' \in Budgets
  BY DEF RioShape, Spent, Budgets

LEMMA GiveUpKeeps ==
  ASSUME RioInv, plane.io # "rio", GiveUp,
         rioBudget' \in Budgets
  PROVE  RioInv'
<1>1. RioShape'
  BY DEF RioInv, RioShape, RioPlanes, GiveUp
<1>2. \A c \in Callers : caller[c].pc = "idle"
  BY DEF RioInv, CallersOk, RioShape
<1>3. CqOk' /\ PostedOk' /\ CallersOk'
  BY <1>2 DEF RioInv, CqOk, PostedOk, CallersOk, HasSlot, GiveUp
<1>. QED BY <1>1, <1>3 DEF RioInv

\* A completion enters the queue: of a send the kernel is done with, or of a
\* receive slot it has filled.
LEMMA CompleteKeeps ==
  ASSUME RioInv, NEW e \in CqEntries, Complete(e),
         IF e.send
         THEN /\ e.slot \in DOMAIN sending /\ sending[e.slot] # NoFrame
              /\ sending' = [sending EXCEPT ![e.slot] = NoFrame] /\ UNCHANGED recvSlot
         ELSE /\ e.slot \in DOMAIN recvSlot /\ recvSlot[e.slot] = "kernel"
              /\ recvSlot' = [recvSlot EXCEPT ![e.slot] = "cq"] /\ UNCHANGED sending,
         UNCHANGED <<sendUsed, sendBuf, caller>>, plane'.io = plane.io
  PROVE  /\ cq' \in Seq(CqEntries) /\ CqOk' /\ PostedOk' /\ CallersOk'
         /\ recvSlot' \in [DOMAIN recvSlot' -> {"kernel", "cq", "held"}]
         /\ DOMAIN recvSlot' = DOMAIN recvSlot
         /\ sending' \in [DOMAIN sendUsed' -> Nat]
<1>. DEFINE n == Len(cq)
<1>1. /\ cq \in Seq(CqEntries) /\ n \in Nat /\ \A i \in 1..n : cq[i] \in CqEntries
      /\ e.send \in BOOLEAN
  BY LenProperties, ElementOfSeq DEF RioInv, RioShape, CqEntries
<1>2. /\ cq' \in Seq(CqEntries) /\ Len(cq') = n + 1 /\ cq'[n + 1] = e
      /\ \A i \in 1..n : cq'[i] = cq[i]
  BY <1>1, AppendProperties DEF Complete
<1>. HIDE DEF n
<1>3. \A i \in 1..n + 1 : i \in 1..n \/ i = n + 1
  BY <1>1
<1>4. \A i \in 1..n : i # n + 1 /\ i \in 1..n + 1
  BY <1>1
<1>5. /\ recvSlot \in [DOMAIN recvSlot -> {"kernel", "cq", "held"}]
      /\ sending \in [DOMAIN sendUsed -> Nat] /\ DOMAIN sending = DOMAIN sendUsed
      /\ \A i \in 1..n : cq[i].send \in BOOLEAN
  BY <1>1 DEF RioInv, RioShape, CqEntries
<1>6. CASE e.send
  <2>1. /\ sending' \in [DOMAIN sendUsed' -> Nat] /\ recvSlot' = recvSlot
        /\ DOMAIN sending' = DOMAIN sending /\ sending'[e.slot] = NoFrame
        /\ \A s \in DOMAIN sending : s # e.slot => sending'[s] = sending[s]
    BY <1>5, <1>6 DEF NoFrame
  <2>2. sendUsed[e.slot] /\ e.slot \in DOMAIN sendUsed /\ sending[e.slot] # NoFrame
    BY <1>5, <1>6 DEF RioInv, PostedOk
  <2>3. \A i \in 1..n : cq[i].send => cq[i].slot # e.slot
    BY <2>2 DEF RioInv, CqOk, n
  <2>4. \A c \in Callers : HasSlot(c) => caller[c].slot # e.slot
    BY <2>2 DEF RioInv, CallersOk
  <2>5. PostedOk'
    BY <2>1 DEF RioInv, PostedOk
  <2>6. CallersOk'
    <3>1. ASSUME NEW c \in Callers, HasSlot(c)
          PROVE  /\ caller[c].slot \in DOMAIN sendUsed /\ sendUsed[caller[c].slot]
                 /\ sending'[caller[c].slot] = NoFrame
                 /\ \A i \in 1..Len(cq') : ~(cq'[i].send /\ cq'[i].slot = caller[c].slot)
      <4>1. /\ caller[c].slot \in DOMAIN sendUsed /\ sendUsed[caller[c].slot]
            /\ sending[caller[c].slot] = NoFrame
            /\ \A i \in 1..n : ~(cq[i].send /\ cq[i].slot = caller[c].slot)
        BY <3>1 DEF RioInv, CallersOk, n
      <4>. QED BY <1>2, <1>3, <1>5, <2>1, <2>4, <3>1, <4>1
    <3>. QED BY <3>1 DEF RioInv, CallersOk, HasSlot
  <2>7. CqOk'
    <3>1. \A i \in 1..n + 1 :
            IF cq'[i].send
            THEN LET s == cq'[i].slot IN s \in DOMAIN sendUsed /\ sendUsed[s] /\ sending'[s] = NoFrame
            ELSE cq'[i].slot \in DOMAIN recvSlot /\ recvSlot[cq'[i].slot] = "cq"
      <4>1. \A i \in 1..n :
              IF cq[i].send
              THEN LET s == cq[i].slot IN s \in DOMAIN sendUsed /\ sendUsed[s] /\ sending[s] = NoFrame
              ELSE cq[i].slot \in DOMAIN recvSlot /\ recvSlot[cq[i].slot] = "cq"
        BY DEF RioInv, CqOk, n
      <4>. QED BY <1>2, <1>3, <1>5, <1>6, <2>1, <2>2, <4>1
    <3>2. \A i, j \in 1..n + 1 : cq'[i].send = cq'[j].send /\ cq'[i].slot = cq'[j].slot => i = j
      <4>1. \A i, j \in 1..n : cq[i].send = cq[j].send /\ cq[i].slot = cq[j].slot => i = j
        BY DEF RioInv, CqOk, n
      <4>. QED BY <1>2, <1>3, <1>5, <1>6, <2>3, <4>1
    <3>3. \A s \in DOMAIN recvSlot : recvSlot[s] = "cq" =>
            \E i \in 1..n + 1 : ~cq'[i].send /\ cq'[i].slot = s
      BY <1>2, <1>4 DEF RioInv, CqOk, n
    <3>. QED BY <1>2, <2>1, <3>1, <3>2, <3>3 DEF CqOk
  <2>. QED BY <1>2, <1>5, <2>1, <2>5, <2>6, <2>7
<1>7. CASE ~e.send
  <2>1. /\ sending' = sending /\ DOMAIN recvSlot' = DOMAIN recvSlot /\ recvSlot'[e.slot] = "cq"
        /\ recvSlot' \in [DOMAIN recvSlot -> {"kernel", "cq", "held"}]
        /\ \A s \in DOMAIN recvSlot : s # e.slot => recvSlot'[s] = recvSlot[s]
        /\ e.slot \in DOMAIN recvSlot /\ recvSlot[e.slot] = "kernel"
    BY <1>5, <1>7
  <2>2. \A i \in 1..n : ~cq[i].send => cq[i].slot # e.slot
    BY <2>1 DEF RioInv, CqOk, n
  <2>3. PostedOk'
    BY <2>1 DEF RioInv, PostedOk
  <2>4. CallersOk'
    <3>1. ASSUME NEW c \in Callers, HasSlot(c)
          PROVE  \A i \in 1..Len(cq') : ~(cq'[i].send /\ cq'[i].slot = caller[c].slot)
      <4>1. \A i \in 1..n : ~(cq[i].send /\ cq[i].slot = caller[c].slot)
        BY <3>1 DEF RioInv, CallersOk, n
      <4>. QED BY <1>2, <1>3, <1>7, <4>1
    <3>. QED BY <2>1, <3>1 DEF RioInv, CallersOk, HasSlot
  <2>5. CqOk'
    <3>1. \A i \in 1..n + 1 :
            IF cq'[i].send
            THEN LET s == cq'[i].slot IN s \in DOMAIN sendUsed /\ sendUsed[s] /\ sending[s] = NoFrame
            ELSE cq'[i].slot \in DOMAIN recvSlot /\ recvSlot'[cq'[i].slot] = "cq"
      <4>1. \A i \in 1..n :
              IF cq[i].send
              THEN LET s == cq[i].slot IN s \in DOMAIN sendUsed /\ sendUsed[s] /\ sending[s] = NoFrame
              ELSE cq[i].slot \in DOMAIN recvSlot /\ recvSlot[cq[i].slot] = "cq"
        BY DEF RioInv, CqOk, n
      <4>. QED BY <1>2, <1>3, <1>5, <1>7, <2>1, <4>1
    <3>2. \A i, j \in 1..n + 1 : cq'[i].send = cq'[j].send /\ cq'[i].slot = cq'[j].slot => i = j
      <4>1. \A i, j \in 1..n : cq[i].send = cq[j].send /\ cq[i].slot = cq[j].slot => i = j
        BY DEF RioInv, CqOk, n
      <4>. QED BY <1>2, <1>3, <1>5, <1>7, <2>2, <4>1
    <3>3. \A s \in DOMAIN recvSlot : recvSlot'[s] = "cq" =>
            \E i \in 1..n + 1 : ~cq'[i].send /\ cq'[i].slot = s
      <4>1. \A s \in DOMAIN recvSlot : recvSlot[s] = "cq" =>
              \E i \in 1..n : ~cq[i].send /\ cq[i].slot = s
        BY DEF RioInv, CqOk, n
      <4>2. n + 1 \in 1..n + 1 /\ \A s : s = e.slot => ~cq'[n + 1].send /\ cq'[n + 1].slot = s
        BY <1>1, <1>2, <1>7
      <4>. QED BY <1>2, <1>4, <2>1, <4>1, <4>2
    <3>. QED BY <1>2, <2>1, <3>1, <3>2, <3>3 DEF CqOk
  <2>. QED BY <1>2, <1>5, <2>1, <2>3, <2>4, <2>5
<1>. QED BY <1>6, <1>7

\* The kernel fills a receive slot or finishes a send.
LEMMA KernelKeeps ==
  ASSUME RioInv, WireIn \/ SendDone \/ ProbeBack
  PROVE  RioInv'
<1>. DEFINE RioKept == /\ cq' \in Seq(CqEntries) /\ CqOk' /\ PostedOk' /\ CallersOk'
                    /\ recvSlot' \in [DOMAIN recvSlot' -> {"kernel", "cq", "held"}]
                    /\ DOMAIN recvSlot' = DOMAIN recvSlot
                    /\ sending' \in [DOMAIN sendUsed' -> Nat]
<1>1. /\ DOMAIN recvSlot \subseteq Nat /\ DOMAIN sendUsed \subseteq Nat
      /\ DOMAIN sending = DOMAIN sendUsed
      /\ plane \in RioPlanes
  BY DEF RioInv, RioShape
<1>2. ASSUME NEW e \in CqEntries, Complete(e), ~e.send, e.slot \in DOMAIN recvSlot,
             recvSlot[e.slot] = "kernel", recvSlot' = [recvSlot EXCEPT ![e.slot] = "cq"],
             UNCHANGED <<sending, sendUsed, sendBuf, caller>>, plane'.io = plane.io
      PROVE  RioKept
  BY <1>2, CompleteKeeps
<1>3. ASSUME NEW e \in CqEntries, Complete(e), e.send, e.slot \in DOMAIN sending,
             sending[e.slot] # NoFrame, sending' = [sending EXCEPT ![e.slot] = NoFrame],
             UNCHANGED <<recvSlot, sendUsed, sendBuf, caller>>, plane'.io = plane.io
      PROVE  RioKept
  BY <1>3, CompleteKeeps
<1>. HIDE DEF RioKept
<1>4. ASSUME RioKept, UNCHANGED <<sendUsed, sendBuf, caller>>, rioBudget' \in Budgets,
             plane' \in RioPlanes
      PROVE  RioInv'
  BY <1>4 DEF RioKept, RioInv, RioShape
<1>5. CASE WireIn
  <2>1. PICK s \in DOMAIN recvSlot, bad \in BOOLEAN :
          /\ recvSlot[s] = "kernel" /\ recvSlot' = [recvSlot EXCEPT ![s] = "cq"]
          /\ Complete([send |-> FALSE, slot |-> s, bad |-> bad, probe |-> FALSE])
    BY <1>5 DEF WireIn
  <2>. DEFINE e == [send |-> FALSE, slot |-> s, bad |-> bad, probe |-> FALSE]
  <2>2. e \in CqEntries /\ ~e.send /\ e.slot = s
    BY <1>1 DEF CqEntries
  <2>3. rioBudget' \in Budgets /\ UNCHANGED <<plane, sending, sendUsed, sendBuf, caller>>
    BY <1>5, FaultCounts DEF WireIn, RioInv
  <2>4. Complete(e)
    BY <2>1
  <2>. HIDE DEF e
  <2>5. RioKept
    BY <1>2, <2>1, <2>2, <2>3, <2>4
  <2>. QED BY <1>1, <1>4, <2>3, <2>5
<1>6. CASE SendDone
  <2>1. PICK s \in DOMAIN sending :
          /\ sending[s] # NoFrame /\ sending' = [sending EXCEPT ![s] = NoFrame]
          /\ Complete([send |-> TRUE, slot |-> s, bad |-> FALSE, probe |-> FALSE])
    BY <1>6 DEF SendDone
  <2>. DEFINE e == [send |-> TRUE, slot |-> s, bad |-> FALSE, probe |-> FALSE]
  <2>2. e \in CqEntries /\ e.send /\ e.slot = s
    BY <1>1 DEF CqEntries
  <2>3. rioBudget' \in Budgets /\ UNCHANGED <<plane, recvSlot, sendUsed, sendBuf, caller>>
    BY <1>6 DEF SendDone, RioInv, RioShape
  <2>4. Complete(e)
    BY <2>1
  <2>. HIDE DEF e
  <2>5. RioKept
    BY <1>3, <2>1, <2>2, <2>3, <2>4
  <2>. QED BY <1>1, <1>4, <2>3, <2>5
<1>7. CASE ProbeBack
  <2>1. PICK s \in DOMAIN recvSlot :
          /\ recvSlot[s] = "kernel" /\ recvSlot' = [recvSlot EXCEPT ![s] = "cq"]
          /\ Complete([send |-> FALSE, slot |-> s, bad |-> FALSE, probe |-> TRUE])
    BY <1>7 DEF ProbeBack
  <2>. DEFINE e == [send |-> FALSE, slot |-> s, bad |-> FALSE, probe |-> TRUE]
  <2>2. e \in CqEntries /\ ~e.send /\ e.slot = s
    BY <1>1 DEF CqEntries
  <2>3. /\ rioBudget' \in Budgets /\ UNCHANGED <<sending, sendUsed, sendBuf, caller>>
        /\ plane' \in RioPlanes
        /\ plane'.io = plane.io
    BY <1>1, <1>7 DEF ProbeBack, RioInv, RioShape, RioPlanes
  <2>4. Complete(e)
    BY <2>1
  <2>. HIDE DEF e
  <2>5. RioKept
    BY <1>2, <2>1, <2>2, <2>3, <2>4
  <2>. QED BY <1>4, <2>3, <2>5
<1>. QED BY <1>5, <1>6, <1>7

(* dequeue, by the loop (which holds the good receives) or by self_check.    *)
Took ==
  /\ cq' = SubSeq(cq, Len(Reaped) + 1, Len(cq))
  /\ sendUsed' = [s \in DOMAIN sendUsed |-> sendUsed[s] /\ s \notin FreedSends]
  /\ DOMAIN recvSlot' = DOMAIN recvSlot
  /\ recvSlot' \in [DOMAIN recvSlot' -> {"kernel", "cq", "held"}]
  /\ \A s \in DOMAIN recvSlot :
       IF s \in BadReceives \cup GoodReceives
       THEN recvSlot'[s] \in {"kernel", "held"} ELSE recvSlot'[s] = recvSlot[s]
  /\ UNCHANGED <<sendBuf, sending, caller>>

\* What dequeue takes is a head of the queue, and what it leaves stays in order.
LEMMA ReapedHead ==
  ASSUME RioShape, cq' = SubSeq(cq, Len(Reaped) + 1, Len(cq))
  PROVE  /\ Len(Reaped) \in 0..Len(cq) /\ Len(cq) \in Nat
         /\ ReapedEntries = {cq[i] : i \in 1..Len(Reaped)}
         /\ cq' \in Seq(CqEntries) /\ Len(cq') = Len(cq) - Len(Reaped)
         /\ \A i \in 1..Len(cq') : i + Len(Reaped) \in 1..Len(cq) /\ cq'[i] = cq[i + Len(Reaped)]
<1>. DEFINE d == Len(Reaped)
<1>1. cq \in Seq(CqEntries) /\ Len(cq) \in Nat /\ DOMAIN cq = 1..Len(cq)
      /\ \A i \in 1..Len(cq) : cq[i] \in CqEntries
  BY LenProperties, ElementOfSeq DEF RioShape
<1>2. d \in 0..Len(cq) /\ DOMAIN Reaped = 1..d /\ \A i \in 1..d : Reaped[i] = cq[i]
  <2>1. CASE Len(cq) <= DequeueBatch
    BY <1>1, <2>1 DEF Reaped
  <2>2. CASE ~(Len(cq) <= DequeueBatch)
    <3>1. DequeueBatch \in 1..Len(cq)
      BY <1>1, <2>2, RioAssumption
    <3>2. Reaped = SubSeq(cq, 1, DequeueBatch)
      BY <2>2 DEF Reaped
    <3>3. SubSeq(cq, 1, DequeueBatch) = [i \in 1..DequeueBatch |-> cq[i]]
      BY <1>1, <3>1 DEF SubSeq
    <3>4. Reaped \in Seq(CqEntries) /\ Len(Reaped) = DequeueBatch /\ DOMAIN Reaped = 1..DequeueBatch
      BY <1>1, <3>1, <3>2, <3>3, IsASeq
    <3>. QED BY <1>1, <3>1, <3>2, <3>3, <3>4
  <2>. QED BY <2>1, <2>2
<1>3. ReapedEntries = {cq[i] : i \in 1..d}
  BY <1>2 DEF ReapedEntries
<1>. HIDE DEF d
<1>4. \A i \in 1..Len(cq) - d : i + d \in 1..Len(cq) /\ (d + 1) + i - 1 = i + d
  BY <1>1, <1>2
<1>5. \A i \in (d + 1)..Len(cq) : cq[i] \in CqEntries
  BY <1>1, <1>2
<1>6. /\ cq' \in Seq(CqEntries) /\ Len(cq') = Len(cq) - d
      /\ \A i \in 1..Len(cq) - d : cq'[i] = cq[i + d]
  <2>1. /\ cq' \in Seq(CqEntries) /\ Len(cq') = IF d + 1 <= Len(cq) THEN Len(cq) - (d + 1) + 1 ELSE 0
        /\ \A i \in 1..Len(cq) - (d + 1) + 1 : cq'[i] = cq[(d + 1) + i - 1]
    BY <1>1, <1>2, <1>5, SubSeqProperties DEF d
  <2>2. Len(cq) - (d + 1) + 1 = Len(cq) - d
    BY <1>1, <1>2
  <2>3. Len(cq') = Len(cq) - d
    <3>1. Len(cq) \in Nat /\ d \in Nat /\ d <= Len(cq)
      BY <1>1, <1>2
    <3>2. CASE d = Len(cq)
      BY <2>1, <3>1, <3>2
    <3>3. CASE d < Len(cq)
      <4>1. d + 1 <= Len(cq)
        BY <3>1, <3>3
      <4>2. Len(cq') = Len(cq) - (d + 1) + 1
        BY <2>1, <4>1
      <4>. QED BY <2>2, <4>2
    <3>. QED BY <3>1, <3>2, <3>3
  <2>. QED BY <1>4, <2>1, <2>2, <2>3
<1>. QED BY <1>1, <1>2, <1>3, <1>4, <1>5, <1>6 DEF d

\* Dequeuing frees the slots of the completions taken and of no others.
LEMMA TookKeeps ==
  ASSUME RioInv, Took, rioBudget' \in Budgets,
         plane' \in RioPlanes, plane.io = "rio" => plane'.io = "rio"
  PROVE  RioInv'
<1>. DEFINE d == Len(Reaped)
            n == Len(cq)
<1>1. /\ d \in 0..n /\ n \in Nat
      /\ ReapedEntries = {cq[i] : i \in 1..d}
      /\ cq' \in Seq(CqEntries) /\ Len(cq') = n - d
      /\ \A i \in 1..Len(cq') : i + d \in 1..n /\ cq'[i] = cq[i + d]
  BY ReapedHead DEF RioInv, Took
<1>2. \A i \in 1..n : cq[i] \in CqEntries /\ cq[i].send \in BOOLEAN
  <2>1. \A i \in 1..n : cq[i] \in CqEntries
    BY ElementOfSeq DEF RioInv, RioShape
  <2>. QED BY <2>1 DEF CqEntries
<1>. HIDE DEF d, n
<1>3. \A s : s \in FreedSends <=> \E i \in 1..d : cq[i].send /\ cq[i].slot = s
  BY <1>1 DEF FreedSends
<1>4. \A s : s \in BadReceives \cup GoodReceives <=> \E i \in 1..d : ~cq[i].send /\ cq[i].slot = s
  BY <1>1 DEF BadReceives, GoodReceives
<1>5. \A i \in 1..n - d, j \in 1..d : i + d \in 1..n /\ j \in 1..n /\ i + d # j
  BY <1>1
<1>6. \A i, j \in 1..n : cq[i].send = cq[j].send /\ cq[i].slot = cq[j].slot => i = j
  BY DEF RioInv, CqOk, n
<1>7. ASSUME NEW i \in 1..n - d
      PROVE  IF cq[i + d].send THEN cq[i + d].slot \notin FreedSends
             ELSE cq[i + d].slot \notin BadReceives \cup GoodReceives
  <2>1. i + d \in 1..n /\ cq[i + d].send \in BOOLEAN
    BY <1>2, <1>5, <1>1
  <2>2. ASSUME NEW j \in 1..d, cq[j].send = cq[i + d].send, cq[j].slot = cq[i + d].slot PROVE FALSE
    BY <1>5, <1>6, <2>2
  <2>3. \A j \in 1..d : cq[j].send \in BOOLEAN
    BY <1>2, <1>5, <1>7
  <2>. QED BY <1>3, <1>4, <2>1, <2>2, <2>3
<1>8. /\ DOMAIN sendUsed' = DOMAIN sendUsed /\ sendUsed' \in [DOMAIN sendUsed' -> BOOLEAN]
      /\ \A s \in DOMAIN sendUsed : sendUsed'[s] = (sendUsed[s] /\ s \notin FreedSends)
      /\ UNCHANGED <<sendBuf, sending, caller>> /\ DOMAIN recvSlot' = DOMAIN recvSlot
      /\ recvSlot' \in [DOMAIN recvSlot' -> {"kernel", "cq", "held"}]
  BY DEF Took, RioInv, RioShape
<1>9. RioShape'
  BY <1>1, <1>8 DEF RioInv, RioShape
<1>10. \A i \in 1..n :
         IF cq[i].send
         THEN LET s == cq[i].slot IN s \in DOMAIN sendUsed /\ sendUsed[s] /\ sending[s] = NoFrame
         ELSE cq[i].slot \in DOMAIN recvSlot /\ recvSlot[cq[i].slot] = "cq"
  BY DEF RioInv, CqOk, n
<1>11. CqOk'
  <2>1. ASSUME NEW i \in 1..n - d
        PROVE  IF cq'[i].send
               THEN LET s == cq'[i].slot
                    IN s \in DOMAIN sendUsed' /\ sendUsed'[s] /\ sending'[s] = NoFrame
               ELSE cq'[i].slot \in DOMAIN recvSlot' /\ recvSlot'[cq'[i].slot] = "cq"
    <3>. DEFINE e == cq[i + d]
    <3>1. i + d \in 1..n /\ cq'[i] = e
      BY <1>1, <1>5
    <3>2. IF e.send
          THEN e.slot \in DOMAIN sendUsed /\ sendUsed[e.slot] /\ sending[e.slot] = NoFrame
               /\ e.slot \notin FreedSends
          ELSE e.slot \in DOMAIN recvSlot /\ recvSlot[e.slot] = "cq"
               /\ e.slot \notin BadReceives \cup GoodReceives
      BY <1>7, <1>10, <3>1
    <3>. HIDE DEF e
    <3>3. CASE e.send
      BY <1>8, <3>1, <3>2, <3>3
    <3>4. CASE ~e.send
      <4>1. recvSlot'[e.slot] = recvSlot[e.slot]
        BY <3>2, <3>4 DEF Took
      <4>. QED BY <1>8, <3>1, <3>2, <3>4, <4>1
    <3>. QED BY <3>3, <3>4
  <2>2. ASSUME NEW i \in 1..n - d, NEW j \in 1..n - d,
               cq'[i].send = cq'[j].send, cq'[i].slot = cq'[j].slot
        PROVE  i = j
    <3>1. i + d \in 1..n /\ j + d \in 1..n /\ cq'[i] = cq[i + d] /\ cq'[j] = cq[j + d]
      BY <1>1
    <3>2. i + d = j + d
      BY <1>6, <2>2, <3>1
    <3>. QED BY <1>1, <3>2
  <2>3. ASSUME NEW s \in DOMAIN recvSlot', recvSlot'[s] = "cq"
        PROVE  \E i \in 1..n - d : ~cq'[i].send /\ cq'[i].slot = s
    <3>1. s \notin BadReceives \cup GoodReceives /\ recvSlot[s] = "cq" /\ s \in DOMAIN recvSlot
      BY <1>8, <2>3 DEF Took
    <3>2. PICK i \in 1..n : ~cq[i].send /\ cq[i].slot = s
      BY <3>1 DEF RioInv, CqOk, n
    <3>3. i \notin 1..d
      BY <1>4, <3>1, <3>2
    <3>4. i - d \in 1..n - d /\ (i - d) + d = i
      BY <1>1, <3>3
    <3>. QED BY <1>1, <3>2, <3>4
  <2>. QED BY <1>1, <2>1, <2>2, <2>3 DEF CqOk
<1>12. PostedOk'
  <2>1. ASSUME NEW s \in DOMAIN sending, sending[s] # NoFrame PROVE s \notin FreedSends
    BY <1>3, <1>5, <1>10, <1>1, <2>1
  <2>. QED BY <1>8, <2>1 DEF RioInv, PostedOk, RioShape
<1>13. CallersOk'
  <2>1. ASSUME NEW c \in Callers, HasSlot(c)
        PROVE  /\ sendUsed'[caller[c].slot]
               /\ \A i \in 1..n - d : ~(cq'[i].send /\ cq'[i].slot = caller[c].slot)
    <3>1. /\ caller[c].slot \in DOMAIN sendUsed /\ sendUsed[caller[c].slot]
          /\ \A i \in 1..n : ~(cq[i].send /\ cq[i].slot = caller[c].slot)
      BY <2>1 DEF RioInv, CallersOk, n
    <3>2. caller[c].slot \notin FreedSends
      <4>1. \A i \in 1..d : i \in 1..n
        BY <1>1
      <4>. QED BY <1>3, <3>1, <4>1
    <3>. QED BY <1>1, <1>8, <3>1, <3>2
  <2>. QED BY <1>1, <1>8, <2>1 DEF RioInv, CallersOk, HasSlot
<1>. QED BY <1>9, <1>11, <1>12, <1>13 DEF RioInv

LEMMA DequeueKeeps == ASSUME RioInv, SelfCheck \/ LoopDrain PROVE RioInv'
<1>1. /\ recvSlot \in [DOMAIN recvSlot -> {"kernel", "cq", "held"}]
      /\ plane \in RioPlanes /\ rioBudget \in Budgets
  BY DEF RioInv, RioShape
<1>2. CASE LoopDrain
  <2>1. Took
    BY <1>1, <1>2 DEF Took, LoopDrain, Dequeue
  <2>. QED BY <1>1, <1>2, <2>1, TookKeeps DEF LoopDrain
<1>3. CASE SelfCheck
  <2>1. Took
    BY <1>1, <1>3 DEF Took, SelfCheck
  <2>2. plane' \in RioPlanes /\ plane.io # "rio"
    BY <1>1, <1>3 DEF SelfCheck, RioPlanes
  <2>. QED BY <1>1, <1>3, <2>1, <2>2, TookKeeps DEF SelfCheck
<1>. QED BY <1>2, <1>3

\* A thread's steps touch no slot but the one it has.
LEMMA CallerKeeps ==
  ASSUME RioInv, NEW c \in Callers, SendStart(c) \/ CallerStep(c)
  PROVE  RioInv'
<1>. DEFINE s == caller[c].slot
<1>1. /\ caller \in [Callers -> [pc : {"idle", "alloc", "copy", "post"}, slot : Nat, frame : Nat]]
      /\ sendUsed \in [DOMAIN sendUsed -> BOOLEAN] /\ DOMAIN sendUsed \subseteq Nat
      /\ sendBuf \in [DOMAIN sendUsed -> Nat] /\ sending \in [DOMAIN sendUsed -> Nat]
      /\ rioBudget \in Budgets /\ s \in Nat /\ caller[c].frame \in Nat
  BY DEF RioInv, RioShape
<1>2. ASSUME NEW v \in [pc : {"idle", "alloc", "copy", "post"}, slot : Nat, frame : Nat],
             caller' = [caller EXCEPT ![c] = v]
      PROVE  /\ caller' \in [Callers -> [pc : {"idle", "alloc", "copy", "post"}, slot : Nat, frame : Nat]]
             /\ caller'[c] = v /\ \A x \in Callers : x # c => caller'[x] = caller[x]
  BY <1>1, <1>2
<1>3. CASE SendStart(c)
  <2>. DEFINE v == [pc |-> "alloc", slot |-> 1, frame |-> rioBudget.sends + 2]
  <2>1. v \in [pc : {"idle", "alloc", "copy", "post"}, slot : Nat, frame : Nat]
        /\ v.pc = "alloc" /\ v.frame # NoFrame
    BY <1>1 DEF Budgets, NoFrame
  <2>2. caller' = [caller EXCEPT ![c] = v] /\ plane.io = "rio" /\ rioBudget' \in Budgets
        /\ UNCHANGED <<plane, recvSlot, cq, sendUsed, sendBuf, sending>>
    BY <1>3, FaultCounts DEF SendStart, RioInv
  <2>. HIDE DEF v
  <2>3. RioShape'
    BY <1>2, <2>1, <2>2 DEF RioInv, RioShape
  <2>4. CallersOk'
    BY <1>2, <2>1, <2>2 DEF RioInv, CallersOk, HasSlot
  <2>. QED BY <2>2, <2>3, <2>4 DEF RioInv, CqOk, PostedOk
<1>4. CASE Alloc(c)
  <2>1. /\ caller[c].pc = "alloc" /\ plane.io = "rio" /\ caller[c].frame # NoFrame
        /\ UNCHANGED <<plane, recvSlot, cq, sendBuf, sending, rioBudget>>
    BY <1>4 DEF Alloc, RioInv, CallersOk
  <2>2. CASE s \notin DOMAIN sendUsed
    <3>. DEFINE v == [caller[c] EXCEPT !.pc = "idle"]
    <3>1. v \in [pc : {"idle", "alloc", "copy", "post"}, slot : Nat, frame : Nat] /\ v.pc = "idle"
      BY <1>1
    <3>2. caller' = [caller EXCEPT ![c] = v] /\ UNCHANGED sendUsed
      BY <1>4, <2>2 DEF Alloc
    <3>. HIDE DEF v
    <3>3. RioShape' /\ CallersOk'
      BY <1>2, <2>1, <3>1, <3>2 DEF RioInv, RioShape, CallersOk, HasSlot
    <3>. QED BY <2>1, <3>2, <3>3 DEF RioInv, CqOk, PostedOk
  <2>3. CASE s \in DOMAIN sendUsed /\ sendUsed[s]
    <3>. DEFINE v == [caller[c] EXCEPT !.slot = s + 1]
    <3>1. v \in [pc : {"idle", "alloc", "copy", "post"}, slot : Nat, frame : Nat]
          /\ v.pc = "alloc" /\ v.frame = caller[c].frame
      BY <1>1, <2>1
    <3>2. caller' = [caller EXCEPT ![c] = v] /\ sendUsed' = sendUsed
      BY <1>1, <1>4, <2>3 DEF Alloc
    <3>. HIDE DEF v
    <3>3. RioShape' /\ CallersOk'
      BY <1>2, <2>1, <3>1, <3>2 DEF RioInv, RioShape, CallersOk, HasSlot
    <3>. QED BY <2>1, <3>2, <3>3 DEF RioInv, CqOk, PostedOk
  <2>4. CASE s \in DOMAIN sendUsed /\ ~sendUsed[s]
    <3>. DEFINE v == [caller[c] EXCEPT !.pc = "copy"]
    <3>1. v \in [pc : {"idle", "alloc", "copy", "post"}, slot : Nat, frame : Nat]
          /\ v.pc = "copy" /\ v.frame = caller[c].frame /\ v.slot = s
      BY <1>1
    <3>2. caller' = [caller EXCEPT ![c] = v] /\ sendUsed' = [sendUsed EXCEPT ![s] = TRUE]
      BY <1>4, <2>4 DEF Alloc
    <3>. HIDE DEF v
    <3>3. /\ sendUsed' \in [DOMAIN sendUsed' -> BOOLEAN] /\ DOMAIN sendUsed' = DOMAIN sendUsed
          /\ sendUsed'[s] /\ \A x \in DOMAIN sendUsed : sendUsed[x] => sendUsed'[x]
      BY <1>1, <2>4, <3>2
    <3>4. RioShape'
      BY <1>2, <2>1, <3>1, <3>2, <3>3 DEF RioInv, RioShape
    <3>5. CqOk' /\ PostedOk'
      BY <1>1, <2>1, <3>3 DEF RioInv, CqOk, PostedOk
    <3>6. sending[s] = NoFrame /\ \A i \in 1..Len(cq) : ~(cq[i].send /\ cq[i].slot = s)
      BY <1>1, <2>4 DEF RioInv, CqOk, PostedOk
    <3>7. \A x \in Callers : HasSlot(x) => caller[x].slot # s
      BY <2>4 DEF RioInv, CallersOk
    <3>8. CallersOk'
      BY <1>2, <2>1, <2>4, <3>1, <3>2, <3>3, <3>6, <3>7 DEF RioInv, CallersOk, HasSlot
    <3>. QED BY <3>4, <3>5, <3>8 DEF RioInv
  <2>. QED BY <2>2, <2>3, <2>4
<1>5. CASE CopyIn(c)
  <2>. DEFINE v == [caller[c] EXCEPT !.pc = "post"]
              f == caller[c].frame
  <2>1. v \in [pc : {"idle", "alloc", "copy", "post"}, slot : Nat, frame : Nat]
        /\ v.pc = "post" /\ v.frame = f /\ v.slot = s
    BY <1>1
  <2>2. /\ caller[c].pc = "copy" /\ caller' = [caller EXCEPT ![c] = v]
        /\ sendBuf' = [sendBuf EXCEPT ![s] = f]
        /\ UNCHANGED <<plane, recvSlot, cq, sendUsed, sending, rioBudget>>
    BY <1>5 DEF CopyIn
  <2>. HIDE DEF v
  <2>3. /\ plane.io = "rio" /\ f # NoFrame /\ s \in DOMAIN sendUsed /\ sendUsed[s]
        /\ sending[s] = NoFrame /\ \A i \in 1..Len(cq) : ~(cq[i].send /\ cq[i].slot = s)
        /\ \A x \in Callers : HasSlot(x) /\ x # c => caller[x].slot # s
    BY <2>2 DEF RioInv, CallersOk, HasSlot
  <2>4. /\ sendBuf' \in [DOMAIN sendUsed -> Nat] /\ sendBuf'[s] = f
        /\ \A x \in DOMAIN sendUsed : x # s => sendBuf'[x] = sendBuf[x]
    BY <1>1, <2>2, <2>3
  <2>5. RioShape'
    BY <1>2, <2>1, <2>2, <2>4 DEF RioInv, RioShape
  <2>6. CqOk' /\ PostedOk'
    BY <1>1, <2>2, <2>3, <2>4 DEF RioInv, CqOk, PostedOk
  <2>7. CallersOk'
    BY <1>2, <2>1, <2>2, <2>3, <2>4 DEF RioInv, CallersOk, HasSlot
  <2>. QED BY <2>5, <2>6, <2>7 DEF RioInv
<1>6. CASE SendEx(c)
  <2>. DEFINE v == [caller[c] EXCEPT !.pc = "idle"]
              f == caller[c].frame
  <2>1. v \in [pc : {"idle", "alloc", "copy", "post"}, slot : Nat, frame : Nat] /\ v.pc = "idle"
    BY <1>1
  <2>2. /\ caller[c].pc = "post" /\ caller' = [caller EXCEPT ![c] = v]
        /\ UNCHANGED <<plane, recvSlot, cq, sendBuf>>
    BY <1>6 DEF SendEx
  <2>. HIDE DEF v
  <2>3. /\ plane.io = "rio" /\ f # NoFrame /\ s \in DOMAIN sendUsed /\ sendUsed[s]
        /\ sending[s] = NoFrame /\ \A i \in 1..Len(cq) : ~(cq[i].send /\ cq[i].slot = s)
        /\ sendBuf[s] = f
        /\ \A x \in Callers : HasSlot(x) /\ x # c => caller[x].slot # s
    BY <2>2 DEF RioInv, CallersOk, HasSlot
  <2>4. CASE sending' = [sending EXCEPT ![s] = f] /\ UNCHANGED <<sendUsed, rioBudget>>
    <3>1. /\ sending' \in [DOMAIN sendUsed -> Nat] /\ sending'[s] = f
          /\ DOMAIN sending' = DOMAIN sending
          /\ \A x \in DOMAIN sendUsed : x # s => sending'[x] = sending[x]
      BY <1>1, <2>3, <2>4
    <3>2. RioShape'
      BY <1>2, <2>1, <2>2, <2>4, <3>1 DEF RioInv, RioShape
    <3>3. CqOk'
      BY <1>1, <2>2, <2>3, <2>4, <3>1 DEF RioInv, CqOk
    <3>4. PostedOk'
      BY <1>1, <2>2, <2>3, <2>4, <3>1 DEF RioInv, PostedOk
    <3>5. CallersOk'
      BY <1>2, <2>1, <2>2, <2>3, <2>4, <3>1 DEF RioInv, CallersOk, HasSlot
    <3>. QED BY <3>2, <3>3, <3>4, <3>5 DEF RioInv
  <2>5. CASE Fault /\ sendUsed' = [sendUsed EXCEPT ![s] = FALSE] /\ UNCHANGED sending
    <3>1. /\ sendUsed' \in [DOMAIN sendUsed' -> BOOLEAN] /\ DOMAIN sendUsed' = DOMAIN sendUsed
          /\ \A x \in DOMAIN sendUsed : x # s => sendUsed'[x] = sendUsed[x]
      BY <1>1, <2>5
    <3>2. rioBudget' \in Budgets
      BY <2>5, FaultCounts DEF Fault, RioInv
    <3>3. RioShape'
      BY <1>2, <2>1, <2>2, <2>5, <3>1, <3>2 DEF RioInv, RioShape
    <3>4. CqOk' /\ PostedOk'
      BY <1>1, <2>2, <2>3, <2>5, <3>1 DEF RioInv, CqOk, PostedOk
    <3>5. CallersOk'
      <4>1. ASSUME NEW x \in Callers, HasSlot(x), x # c
            PROVE  sendUsed'[caller[x].slot] /\ caller[x].slot \in DOMAIN sendUsed'
        BY <2>3, <3>1, <4>1 DEF RioInv, CallersOk
      <4>. QED BY <1>2, <2>1, <2>2, <2>5, <4>1 DEF RioInv, CallersOk, HasSlot
    <3>. QED BY <3>3, <3>4, <3>5 DEF RioInv
  <2>. QED BY <1>6, <2>4, <2>5 DEF SendEx
<1>. QED BY <1>3, <1>4, <1>5, <1>6 DEF CallerStep

LEMMA RioInitInv == RioInit => RioInv
<1>. SUFFICES ASSUME RioInit PROVE RioInv
  OBVIOUS
<1>1. /\ cq = <<>> /\ recvSlot = <<>> /\ sendUsed = <<>> /\ sendBuf = <<>> /\ sending = <<>>
      /\ caller = [c \in Callers |-> [pc |-> "idle", slot |-> 1, frame |-> NoFrame]]
  BY DEF RioInit
<1>2. cq \in Seq(CqEntries) /\ 1..Len(cq) = {} /\ DOMAIN <<>> = {}
  BY <1>1, EmptySeq
<1>3. plane \in RioPlanes /\ rioBudget \in Budgets
  <2>1. plane \in RioPlanes
    BY DEF RioInit, RioPlanes
  <2>2. rioBudget \in Budgets
    BY DEF RioInit, Budgets
  <2>. QED BY <2>1, <2>2
<1>4. RioShape
  BY <1>1, <1>2, <1>3 DEF RioShape, NoFrame
<1>5. CqOk /\ PostedOk
  BY <1>1, <1>2 DEF CqOk, PostedOk
<1>6. CallersOk
  BY <1>1 DEF CallersOk, HasSlot
<1>. QED BY <1>4, <1>5, <1>6 DEF RioInv

LEMMA RioNextInv == RioInv /\ [RioNext]_rioVars => RioInv'
<1>. SUFFICES ASSUME RioInv, [RioNext]_rioVars PROVE RioInv'
  OBVIOUS
<1>1. rioBudget \in Budgets
  BY DEF RioInv, RioShape
<1>2. ASSUME UNCHANGED <<plane, recvSlot, cq, sendUsed, sendBuf, sending, caller>>,
             rioBudget' \in Budgets
      PROVE  RioInv'
  BY <1>2 DEF RioInv, RioShape, CqOk, PostedOk, CallersOk, HasSlot
<1>3. CASE UNCHANGED rioVars
  BY <1>1, <1>2, <1>3 DEF rioVars
<1>4. CASE UdpBind
  <2>1. CASE plane' = [plane EXCEPT !.io = "std"]
               /\ UNCHANGED <<recvSlot, cq, sendUsed, sendBuf, sending, caller, rioBudget>>
    <3>1. RioShape'
      BY <2>1 DEF RioInv, RioShape, RioPlanes
    <3>2. \A c \in Callers : caller[c].pc = "idle"
      BY <1>4 DEF RioInv, CallersOk, RioShape, UdpBind
    <3>. QED BY <2>1, <3>1, <3>2 DEF RioInv, CqOk, PostedOk, CallersOk, HasSlot
  <2>2. CASE RioCreate(RecvSlots, SendSlots) /\ UNCHANGED rioBudget
    BY <1>1, <1>4, <2>2, CreateKeeps, SlotCounts DEF UdpBind
  <2>3. CASE Fault /\ (RioCreate(SmallSlots, SmallSlots) \/ GiveUp)
    <3>1. rioBudget' \in Budgets
      BY <2>3, FaultCounts DEF Fault, RioInv
    <3>. QED BY <1>4, <2>3, <3>1, CreateKeeps, GiveUpKeeps, SlotCounts DEF UdpBind
  <2>. QED BY <1>4, <2>1, <2>2, <2>3 DEF UdpBind
<1>5. CASE SelfCheckTimesOut
  BY <1>1, <1>5, GiveUpKeeps DEF SelfCheckTimesOut
<1>6. CASE SelfCheckFails
  <2>1. rioBudget' \in Budgets
    BY <1>6, FaultCounts DEF SelfCheckFails, Fault, RioInv
  <2>. QED BY <1>6, <2>1, CreateKeeps, GiveUpKeeps, SlotCounts DEF SelfCheckFails
<1>7. CASE LoopRepost
  <2>1. /\ recvSlot' = [s \in DOMAIN recvSlot |->
                          IF recvSlot[s] = "held" THEN "kernel" ELSE recvSlot[s]]
        /\ UNCHANGED <<plane, cq, sendUsed, sendBuf, sending, caller, rioBudget>>
    BY <1>7 DEF LoopRepost
  <2>2. /\ DOMAIN recvSlot' = DOMAIN recvSlot
        /\ recvSlot' \in [DOMAIN recvSlot' -> {"kernel", "cq", "held"}]
        /\ \A s \in DOMAIN recvSlot : recvSlot'[s] = "cq" <=> recvSlot[s] = "cq"
    BY <2>1 DEF RioInv, RioShape
  <2>3. RioShape' /\ PostedOk' /\ CallersOk'
    BY <2>1, <2>2 DEF RioInv, RioShape, PostedOk, CallersOk, HasSlot
  <2>4. CqOk'
    BY <2>1, <2>2 DEF RioInv, CqOk
  <2>. QED BY <2>3, <2>4 DEF RioInv
<1>8. CASE ArmNotify \/ WaitIo
  BY <1>1, <1>2, <1>8 DEF ArmNotify, WaitIo
<1>9. CASE LoopFails \/ TunReady
  <2>1. rioBudget' \in Budgets
    BY <1>9, FaultCounts DEF LoopFails, TunReady, Fault, RioInv
  <2>. QED BY <1>2, <1>9, <2>1 DEF LoopFails, TunReady
<1>. QED
  BY <1>3, <1>4, <1>5, <1>6, <1>7, <1>8, <1>9, KernelKeeps, DequeueKeeps, CallerKeeps
     DEF RioNext, LoopStep

\* What rio.rs promises of its registered buffer, for any numbers of slots,
\* callers and failing calls: no frame is overwritten while the kernel may
\* still send it, and no receive slot is lost or in the queue twice.
THEOREM SlotsHaveOneOwner == RioSpec => []SlotsSound
<1>1. RioInit => RioInv
  BY RioInitInv
<1>2. RioInv /\ [RioNext]_rioVars => RioInv'
  BY RioNextInv
<1>3. RioInv => SlotsSound
  BY RioInvSuffices
<1>. QED BY <1>1, <1>2, <1>3, PTL DEF RioSpec

-----------------------------------------------------------------------------
(* Forward error correction.  A member table names the frames it was made    *)
(* of, each once, and the exclusive or kept beside it is of exactly those.   *)

DataOf(wire) == {f \in wire : f.type = "Data"}
FecFrames == [type : {"Data"}, life : Nat, ctr : Nat, len : FecLens]
MemberTags == [id : Nat \X Nat, len : FecLens]

Tells(members, frames) ==
  /\ members \in Seq(MemberTags)
  /\ \A i \in DOMAIN members : \E f \in frames : members[i] = [id |-> DataCounter(f), len |-> f.len]
  /\ \A f \in frames : \E i \in DOMAIN members : members[i].id = DataCounter(f)
  /\ \A i, j \in DOMAIN members : members[i].id = members[j].id => i = j

GroupOpen(tx, frames) ==
  /\ tx \in [group_seq : Nat, acc : SUBSET frames, members : Seq(MemberTags)]
  /\ Len(tx.members) < FecK /\ Tells(tx.members, tx.acc)

GroupTold(r, frames) ==
  /\ r.type = "FecRecovery" /\ r.group_seq \in Nat /\ r.xor \subseteq frames /\ Len(r.members) = FecK
  /\ Tells(r.members, r.xor) /\ r.xorLen = Max({m.len : m \in ToSet(r.members)})

SealedBefore(f, life, ctr) == f \in FecFrames /\ (f.life < life \/ (f.life = life /\ f.ctr < ctr))

WireTrue(wire, life, ctr) ==
  /\ life \in Nat /\ ctr \in Nat
  /\ \A f \in wire : f.type \in {"Data", "FecRecovery"}
  /\ \A f \in DataOf(wire) : SealedBefore(f, life, ctr)
  /\ \A f, g \in DataOf(wire) : DataCounter(f) = DataCounter(g) => f = g
  /\ \A r \in wire : r.type = "FecRecovery" => GroupTold(r, DataOf(wire))

FecInv ==
  /\ fecNext \in [life : Nat, ctr : Nat] /\ WireTrue(fecWire, fecNext.life, fecNext.ctr)
  /\ GroupOpen(fecTx, DataOf(fecWire))
  /\ fecGot \subseteq DataOf(fecWire)
  /\ fecRx \in [cache : Seq(fecGot), seen_groups : Seq(Nat)]

\* More frames on the wire leave an open and a finished group what they were.
LEMMA GroupsStay ==
  ASSUME NEW A, NEW B, A \subseteq B
  PROVE  /\ \A tx : GroupOpen(tx, A) => GroupOpen(tx, B)
         /\ \A r : GroupTold(r, A) => GroupTold(r, B)
BY DEF GroupOpen, GroupTold

\* One more member: the table tells of the frame too.
LEMMA TellsOneMore ==
  ASSUME NEW members, NEW acc, Tells(members, acc), NEW f \in FecFrames,
         \A g \in acc : DataCounter(g) # DataCounter(f)
  PROVE  LET more == Append(members, [id |-> DataCounter(f), len |-> f.len])
         IN Tells(more, Xor(acc, {f})) /\ Len(more) = Len(members) + 1
<1>. DEFINE tag == [id |-> DataCounter(f), len |-> f.len]
            more == Append(members, tag)
            all == Xor(acc, {f})
<1>1. members \in Seq(MemberTags) /\ tag \in MemberTags
  BY DEF Tells, FecFrames, MemberTags, DataCounter
<1>2. /\ more \in Seq(MemberTags) /\ Len(more) = Len(members) + 1 /\ Len(members) \in Nat
      /\ \A i \in 1..Len(members) : more[i] = members[i]
      /\ more[Len(members) + 1] = tag
      /\ DOMAIN more = 1..Len(members) + 1 /\ DOMAIN members = 1..Len(members)
  BY <1>1, AppendProperties, LenProperties
<1>3. all = acc \cup {f}
  BY DEF Xor
<1>4. tag.id = DataCounter(f)
  OBVIOUS
<1>. HIDE DEF more, tag, all
<1>5. ASSUME NEW i \in DOMAIN more
      PROVE  \E g \in all : more[i] = [id |-> DataCounter(g), len |-> g.len]
  <2>1. CASE i \in 1..Len(members)
    BY <2>1, <1>2, <1>3 DEF Tells
  <2>2. CASE i = Len(members) + 1
    BY <2>2, <1>2, <1>3 DEF tag
  <2>. QED BY <2>1, <2>2, <1>2
<1>6. ASSUME NEW g \in all PROVE \E i \in DOMAIN more : more[i].id = DataCounter(g)
  <2>1. CASE g \in acc
    BY <2>1, <1>2 DEF Tells
  <2>2. CASE g = f
    BY <2>2, <1>2, <1>4
  <2>. QED BY <2>1, <2>2, <1>3
<1>7. \A i \in 1..Len(members) : more[i].id # DataCounter(f)
  <2>. SUFFICES ASSUME NEW i \in 1..Len(members) PROVE more[i].id # DataCounter(f)
    OBVIOUS
  <2>1. PICK g \in acc : members[i] = [id |-> DataCounter(g), len |-> g.len]
    BY <1>2 DEF Tells
  <2>2. more[i].id = DataCounter(g)
    BY <2>1, <1>2
  <2>. QED BY <2>2
<1>8. ASSUME NEW i \in DOMAIN more, NEW j \in DOMAIN more, more[i].id = more[j].id PROVE i = j
  <2>1. CASE i \in 1..Len(members) /\ j \in 1..Len(members)
    BY <2>1, <1>8, <1>2 DEF Tells
  <2>. QED BY <2>1, <1>2, <1>4, <1>7, <1>8
<1>9. Tells(more, all)
  BY <1>2, <1>5, <1>6, <1>8 DEF Tells
<1>. QED BY <1>2, <1>9 DEF more, all, tag

\* A pushed frame joins the open group, or closes it with a true recovery frame.
LEMMA PushKeeps ==
  ASSUME NEW tx, NEW frames, GroupOpen(tx, frames), NEW f \in FecFrames, f \in frames,
         \A g \in tx.acc : DataCounter(g) # DataCounter(f)
  PROVE  /\ GroupOpen(FecPush(tx, f).tx, frames)
         /\ \A r \in FecPush(tx, f).out : GroupTold(r, frames)
         /\ FecPush(tx, f).tx.acc \subseteq tx.acc \cup {f}
<1>. DEFINE acc == Xor(tx.acc, {f})
            members == Append(tx.members, [id |-> DataCounter(f), len |-> f.len])
            told == [type |-> "FecRecovery", group_seq |-> tx.group_seq, life |-> fecNext.life,
                     members |-> members, xor |-> acc, xorLen |-> Max({m.len : m \in ToSet(members)})]
            grown == [tx EXCEPT !.acc = acc, !.members = members]
            fresh == [FecTxNew EXCEPT !.group_seq = tx.group_seq + 1]
<1>1. /\ tx \in [group_seq : Nat, acc : SUBSET frames, members : Seq(MemberTags)]
      /\ Len(tx.members) < FecK /\ Tells(tx.members, tx.acc) /\ Len(tx.members) \in Nat
      /\ FecK \in Nat /\ FecK > 0
  BY FecAssumption DEF GroupOpen
<1>2. Tells(members, acc) /\ Len(members) = Len(tx.members) + 1
  BY <1>1, TellsOneMore
<1>3. acc \subseteq frames /\ acc \subseteq tx.acc \cup {f}
  BY <1>1 DEF Xor
<1>4. members \in Seq(MemberTags)
  BY <1>2 DEF Tells
<1>. HIDE DEF acc, members
<1>5. CASE Len(members) < FecK
  <2>1. FecPush(tx, f) = [tx |-> grown, out |-> {}]
    BY <1>5 DEF FecPush, acc, members
  <2>2. grown \in [group_seq : Nat, acc : SUBSET frames, members : Seq(MemberTags)]
        /\ grown.members = members /\ grown.acc = acc
    BY <1>1, <1>3, <1>4
  <2>. HIDE DEF grown
  <2>. QED BY <2>1, <2>2, <1>2, <1>3, <1>5 DEF GroupOpen
<1>6. CASE ~(Len(members) < FecK)
  <2>1. FecPush(tx, f) = [tx |-> fresh, out |-> {told}]
    BY <1>6 DEF FecPush, acc, members
  <2>2. fresh \in [group_seq : Nat, acc : SUBSET frames, members : Seq(MemberTags)]
        /\ fresh.members = <<>> /\ fresh.acc = {}
    <3>. DEFINE base == FecTxNew
    <3>1. base \in [group_seq : Nat, acc : SUBSET frames, members : Seq(MemberTags)]
          /\ base.acc = {} /\ base.members = <<>>
      BY DEF FecTxNew
    <3>2. fresh = [base EXCEPT !.group_seq = tx.group_seq + 1] /\ tx.group_seq + 1 \in Nat
      BY <1>1
    <3>. HIDE DEF base, fresh
    <3>. QED BY <3>1, <3>2
  <2>3. GroupOpen(fresh, frames)
    <3>. HIDE DEF fresh
    <3>1. Tells(<<>>, {}) /\ Len(<<>>) = 0
      BY DEF Tells
    <3>. QED BY <3>1, <2>2, <1>1 DEF GroupOpen
  <2>4. Len(members) = FecK
    BY <1>1, <1>2, <1>6
  <2>5. GroupTold(told, frames)
    <3>1. /\ told.type = "FecRecovery" /\ told.group_seq = tx.group_seq /\ told.members = members
          /\ told.xor = acc /\ told.xorLen = Max({m.len : m \in ToSet(members)})
      OBVIOUS
    <3>2. tx.group_seq \in Nat
      BY <1>1
    <3>. HIDE DEF told
    <3>. QED BY <3>1, <3>2, <2>4, <1>2, <1>3 DEF GroupTold
  <2>. HIDE DEF fresh, told
  <2>6. FecPush(tx, f).tx = fresh /\ FecPush(tx, f).out = {told}
    BY <2>1
  <2>. QED BY <2>6, <2>2, <2>3, <2>5
<1>. QED BY <1>5, <1>6

\* The next frame sealed is told apart from every frame before it.
LEMMA SealOne ==
  ASSUME NEW wire, NEW life, NEW ctr, WireTrue(wire, life, ctr), NEW f \in FecFrames,
         f.life = life, f.ctr = ctr
  PROVE  /\ WireTrue(wire \cup {f}, life, ctr + 1)
         /\ DataOf(wire \cup {f}) = DataOf(wire) \cup {f}
         /\ \A g \in DataOf(wire) : DataCounter(g) # DataCounter(f)
<1>1. f.type = "Data" /\ f.life \in Nat /\ f.ctr \in Nat
  BY DEF FecFrames
<1>2. DataOf(wire \cup {f}) = DataOf(wire) \cup {f}
  BY <1>1 DEF DataOf
<1>3. ASSUME NEW g \in DataOf(wire)
      PROVE  DataCounter(g) # DataCounter(f) /\ SealedBefore(g, life, ctr + 1)
  BY <1>1 DEF WireTrue, SealedBefore, FecFrames, DataCounter
<1>4. SealedBefore(f, life, ctr + 1) /\ ctr + 1 \in Nat /\ life \in Nat
  BY <1>1 DEF SealedBefore, WireTrue
<1>5. \A g, h \in DataOf(wire) \cup {f} : DataCounter(g) = DataCounter(h) => g = h
  BY <1>3 DEF WireTrue
<1>6. ASSUME NEW r \in wire \cup {f}, r.type = "FecRecovery"
      PROVE  GroupTold(r, DataOf(wire) \cup {f})
  <2>1. GroupTold(r, DataOf(wire))
    BY <1>1, <1>6 DEF WireTrue
  <2>. QED BY <2>1, GroupsStay
<1>7. \A g \in wire \cup {f} : g.type \in {"Data", "FecRecovery"}
  BY <1>1 DEF WireTrue
<1>. QED BY <1>2, <1>3, <1>4, <1>5, <1>6, <1>7 DEF WireTrue

LEMMA SendTold ==
  ASSUME NEW wire, NEW life, NEW ctr, WireTrue(wire, life, ctr), NEW out,
         \A r \in out : GroupTold(r, DataOf(wire))
  PROVE  WireTrue(wire \cup out, life, ctr) /\ DataOf(wire \cup out) = DataOf(wire)
<1>1. DataOf(wire \cup out) = DataOf(wire)
  BY DEF DataOf, GroupTold
<1>. QED BY <1>1 DEF WireTrue, GroupTold

\* What is cached came from the frames the engine was handed, and a cached frame stays one of them.
LEMMA ObserveKeeps ==
  ASSUME NEW got, NEW f \in got, NEW rx \in [cache : Seq(got), seen_groups : Seq(Nat)]
  PROVE  FecObserve(rx, f) \in [cache : Seq(got), seen_groups : Seq(Nat)]
<1>. DEFINE c == Append(rx.cache, f)
            kept == IF Len(c) > FecCacheLimit THEN Tail(c) ELSE c
<1>1. c \in Seq(got) /\ c # <<>>
  BY AppendProperties
<1>2. kept \in Seq(got)
  BY <1>1, HeadTailProperties
<1>3. FecObserve(rx, f) = rx \/ FecObserve(rx, f) = [rx EXCEPT !.cache = kept]
  BY DEF FecObserve
<1>. HIDE DEF c, kept
<1>. QED BY <1>2, <1>3

\* One inner packet, in one or two frames, pushed or not.
LEMMA FecSendKeeps ==
  ASSUME FecInv, NEW lens, NEW marked \in BOOLEAN, FecSend(lens, marked),
         lens \in Seq(FecLens), Len(lens) \in {1, 2}
  PROVE  FecInv'
<1>. DEFINE n == fecNext.life
            c == fecNext.ctr
            f1 == [type |-> "Data", life |-> n, ctr |-> c + 1 - 1, len |-> lens[1]]
            f2 == [type |-> "Data", life |-> n, ctr |-> c + 2 - 1, len |-> lens[2]]
            w1 == fecWire \cup {f1}
            w2 == w1 \cup {f2}
            first == FecPush(fecTx, f1)
            second == FecPush(first.tx, f2)
<1>1. /\ n \in Nat /\ c \in Nat /\ fecNext \in [life : Nat, ctr : Nat]
      /\ WireTrue(fecWire, n, c) /\ GroupOpen(fecTx, DataOf(fecWire))
      /\ fecGot \subseteq DataOf(fecWire) /\ fecRx \in [cache : Seq(fecGot), seen_groups : Seq(Nat)]
  BY DEF FecInv
<1>2. f1 \in FecFrames /\ f1.life = n /\ f1.ctr = c /\ lens[1] \in FecLens
  BY <1>1 DEF FecFrames
<1>3. /\ WireTrue(w1, n, c + 1) /\ DataOf(w1) = DataOf(fecWire) \cup {f1}
      /\ \A g \in DataOf(fecWire) : DataCounter(g) # DataCounter(f1)
  <2>. HIDE DEF f1, n, c
  <2>. QED BY <1>1, <1>2, SealOne
<1>4. /\ GroupOpen(first.tx, DataOf(w1)) /\ \A r \in first.out : GroupTold(r, DataOf(w1))
      /\ first.tx.acc \subseteq DataOf(w1)
  <2>1. GroupOpen(fecTx, DataOf(w1)) /\ fecTx.acc \subseteq DataOf(fecWire) /\ f1 \in DataOf(w1)
    BY <1>1, <1>3, GroupsStay DEF GroupOpen
  <2>2. \A g \in fecTx.acc : DataCounter(g) # DataCounter(f1)
    BY <2>1, <1>3
  <2>. HIDE DEF f1, w1
  <2>3. GroupOpen(first.tx, DataOf(w1)) /\ \A r \in first.out : GroupTold(r, DataOf(w1))
    BY <1>2, <2>1, <2>2, PushKeeps
  <2>. QED BY <2>3 DEF GroupOpen
<1>5. /\ fecRx' = fecRx /\ fecGot' = fecGot
      /\ fecNext' = [fecNext EXCEPT !.ctr = @ + Len(lens)]
  BY DEF FecSend
<1>6. fecNext' \in [life : Nat, ctr : Nat] /\ fecNext'.life = n /\ fecNext'.ctr = c + Len(lens)
  BY <1>1, <1>5
<1>7. ASSUME NEW wire, NEW tx, NEW out, WireTrue(wire, n, c + Len(lens)), fecWire \subseteq wire,
             GroupOpen(tx, DataOf(wire)), \A r \in out : GroupTold(r, DataOf(wire)),
             fecTx' = tx, fecWire' = wire \cup out
      PROVE  FecInv'
  <2>1. WireTrue(fecWire', n, c + Len(lens)) /\ DataOf(fecWire') = DataOf(wire)
    BY <1>7, SendTold
  <2>2. DataOf(fecWire) \subseteq DataOf(wire)
    BY <1>7 DEF DataOf
  <2>. HIDE DEF n, c
  <2>. QED BY <1>7, <2>1, <2>2, <1>1, <1>5, <1>6 DEF FecInv
<1>8. CASE Len(lens) = 1
  <2>1. {[type |-> "Data", life |-> n, ctr |-> c + i - 1, len |-> lens[i]] : i \in DOMAIN lens} = {f1}
    BY <1>8
  <2>2. /\ fecTx' = IF marked THEN first.tx ELSE fecTx
        /\ fecWire' = w1 \cup (IF marked THEN first.out ELSE {})
    <3>1. ToSet([i \in DOMAIN lens |-> [type |-> "Data", life |-> n, ctr |-> c + i - 1, len |-> lens[i]]]) = {f1}
      BY <1>8 DEF ToSet
    <3>. HIDE DEF FecPush
    <3>. QED BY <3>1, <1>8 DEF FecSend
  <2>3. GroupOpen(fecTx, DataOf(w1))
    BY <1>1, <1>3, GroupsStay
  <2>4. WireTrue(w1, n, c + Len(lens)) /\ fecWire \subseteq w1
    BY <1>3, <1>8
  <2>. HIDE DEF first, w1, n, c
  <2>5. CASE marked
    <3>1. fecTx' = first.tx /\ fecWire' = w1 \cup first.out
      BY <2>2, <2>5
    <3>. QED BY <3>1, <2>4, <1>4, <1>7
  <2>6. CASE ~marked
    <3>. DEFINE none == {}
    <3>1. fecTx' = fecTx /\ fecWire' = w1 \cup none /\ \A r \in none : GroupTold(r, DataOf(w1))
      BY <2>2, <2>6
    <3>. HIDE DEF none
    <3>. QED BY <3>1, <2>3, <2>4, <1>7
  <2>. QED BY <2>5, <2>6
<1>9. CASE Len(lens) = 2
  <2>1. f2 \in FecFrames /\ f2.life = n /\ f2.ctr = c + 1
    <3>1. lens[2] \in FecLens
      <4>1. 2 \in 1..Len(lens)
        BY <1>9
      <4>. QED BY <4>1
    <3>2. n \in Nat /\ c + 2 - 1 \in Nat /\ c + 2 - 1 = c + 1
      <4>1. n \in Nat /\ c \in Nat
        BY <1>1
      <4>. QED BY <4>1
    <3>. QED BY <3>1, <3>2 DEF FecFrames
  <2>2. /\ WireTrue(w2, n, (c + 1) + 1) /\ DataOf(w2) = DataOf(w1) \cup {f2}
        /\ \A g \in DataOf(w1) : DataCounter(g) # DataCounter(f2)
    <3>. DEFINE c1 == c + 1
    <3>1. WireTrue(w1, n, c1) /\ f2 \in FecFrames /\ f2.life = n /\ f2.ctr = c1
      <4>. HIDE DEF f2, w1, n, c
      <4>. QED BY <1>3, <2>1
    <3>. HIDE DEF f2, w1, n, c1
    <3>2. /\ WireTrue(w1 \cup {f2}, n, c1 + 1) /\ DataOf(w1 \cup {f2}) = DataOf(w1) \cup {f2}
          /\ \A g \in DataOf(w1) : DataCounter(g) # DataCounter(f2)
      BY <3>1, SealOne
    <3>. QED BY <3>2 DEF c1
  <2>3. GroupOpen(second.tx, DataOf(w2)) /\ \A r \in second.out : GroupTold(r, DataOf(w2))
    <3>1. GroupOpen(first.tx, DataOf(w2)) /\ f2 \in DataOf(w2)
      BY <1>4, <2>2, GroupsStay
    <3>2. \A g \in first.tx.acc : DataCounter(g) # DataCounter(f2)
      BY <1>4, <2>2
    <3>. HIDE DEF f2, w2, first
    <3>. QED BY <2>1, <3>1, <3>2, PushKeeps
  <2>4. \A r \in first.out \cup second.out : GroupTold(r, DataOf(w2))
    <3>1. \A r \in first.out : GroupTold(r, DataOf(w2))
      BY <1>4, <2>2, GroupsStay
    <3>. QED BY <3>1, <2>3
  <2>5. /\ fecTx' = IF marked THEN second.tx ELSE fecTx
        /\ fecWire' = w2 \cup (IF marked THEN first.out \cup second.out ELSE {})
    <3>1. ToSet([i \in DOMAIN lens |-> [type |-> "Data", life |-> n, ctr |-> c + i - 1, len |-> lens[i]]])
          = {f1, f2}
      BY <1>9 DEF ToSet
    <3>2. fecWire \cup {f1, f2} = w2
      OBVIOUS
    <3>. HIDE DEF FecPush
    <3>. QED BY <3>1, <3>2, <1>9 DEF FecSend
  <2>6. GroupOpen(fecTx, DataOf(w2))
    BY <1>1, <1>3, <2>2, GroupsStay
  <2>7. WireTrue(w2, n, c + Len(lens)) /\ fecWire \subseteq w2
    <3>1. (c + 1) + 1 = c + Len(lens)
      BY <1>1, <1>9
    <3>2. fecWire \subseteq w2
      OBVIOUS
    <3>. HIDE DEF w2, n, c
    <3>. QED BY <2>2, <3>1, <3>2
  <2>. HIDE DEF first, second, w1, w2, n, c
  <2>8. CASE marked
    <3>1. fecTx' = second.tx /\ fecWire' = w2 \cup (first.out \cup second.out)
      BY <2>5, <2>8
    <3>. QED BY <3>1, <2>7, <2>3, <2>4, <1>7
  <2>9. CASE ~marked
    <3>. DEFINE none == {}
    <3>1. fecTx' = fecTx /\ fecWire' = w2 \cup none /\ \A r \in none : GroupTold(r, DataOf(w2))
      BY <2>5, <2>9
    <3>. HIDE DEF none
    <3>. QED BY <3>1, <2>6, <2>7, <1>7
  <2>. QED BY <2>8, <2>9
<1>. QED BY <1>8, <1>9

LEMMA FecDataKeeps == ASSUME FecInv, NEW f \in fecWire, FecData(f) PROVE FecInv'
<1>1. f \in fecGot' /\ fecGot' \subseteq DataOf(fecWire)
  BY DEF FecInv, FecData, DataOf
<1>2. fecRx \in [cache : Seq(fecGot'), seen_groups : Seq(Nat)]
  BY DEF FecInv, FecData
<1>3. fecRx' \in [cache : Seq(fecGot'), seen_groups : Seq(Nat)]
  BY <1>1, <1>2, ObserveKeeps DEF FecData
<1>. QED BY <1>1, <1>3 DEF FecInv, FecData

LEMMA FecRestartKeeps == ASSUME FecInv, FecRestart PROVE FecInv'
<1>1. fecNext' \in [life : Nat, ctr : Nat] /\ fecNext'.life = fecNext.life + 1 /\ fecNext'.ctr = 0
  BY DEF FecInv, FecRestart
<1>2. WireTrue(fecWire, fecNext.life + 1, 0)
  <2>1. \A f \in DataOf(fecWire) : SealedBefore(f, fecNext.life + 1, 0)
    <3>1. fecNext.life \in Nat /\ \A f \in DataOf(fecWire) : SealedBefore(f, fecNext.life, fecNext.ctr)
      BY DEF FecInv, WireTrue
    <3>. QED BY <3>1 DEF SealedBefore, FecFrames
  <2>2. fecNext.life + 1 \in Nat /\ 0 \in Nat
    BY DEF FecInv
  <2>. QED BY <2>1, <2>2 DEF FecInv, WireTrue
<1>3. GroupOpen(FecTxNew, DataOf(fecWire))
  BY FecAssumption DEF GroupOpen, FecTxNew, Tells
<1>. QED BY <1>1, <1>2, <1>3 DEF FecInv, FecRestart

-----------------------------------------------------------------------------
(* The recovery. *)

\* Of a true group, the members at hand are what the receiver holds of it; with *)
\* one member lost the rebuilt frame is that member.
LEMMA LoneLossRebuilt ==
  ASSUME FecInv, NEW r \in fecWire, r.type = "FecRecovery", NEW i \in DOMAIN r.members,
         FecMissing(fecRx, r) = {i}
  PROVE  \E f \in DataOf(fecWire) : FecRebuild(fecRx, r) = {f} /\ DataCounter(f) = r.members[i].id
<1>1. /\ GroupTold(r, DataOf(fecWire)) /\ r.xor \subseteq DataOf(fecWire)
      /\ \A f, g \in DataOf(fecWire) : DataCounter(f) = DataCounter(g) => f = g
  BY DEF FecInv, WireTrue, GroupTold
<1>2. ToSet(fecRx.cache) \subseteq DataOf(fecWire)
  BY DEF FecInv, ToSet
<1>. DEFINE here == {f \in ToSet(fecRx.cache) : \E j \in DOMAIN r.members : r.members[j].id = DataCounter(f)}
<1>3. /\ \A j \in DOMAIN r.members : \E f \in r.xor : r.members[j].id = DataCounter(f)
      /\ \A f \in r.xor : \E j \in DOMAIN r.members : r.members[j].id = DataCounter(f)
      /\ \A j, k \in DOMAIN r.members : r.members[j].id = r.members[k].id => j = k
  <2>1. Tells(r.members, r.xor)
    BY <1>1 DEF GroupTold
  <2>2. ASSUME NEW j \in DOMAIN r.members PROVE \E f \in r.xor : r.members[j].id = DataCounter(f)
    <3>1. PICK f \in r.xor : r.members[j] = [id |-> DataCounter(f), len |-> f.len]
      BY <2>1 DEF Tells
    <3>2. r.members[j].id = DataCounter(f)
      BY <3>1
    <3>. QED BY <3>2
  <2>. QED BY <2>1, <2>2 DEF Tells
<1>4. PICK f \in r.xor : r.members[i].id = DataCounter(f)
  BY <1>3
<1>5. here = r.xor \ {f}
  <2>1. ASSUME NEW g \in here PROVE g \in r.xor \ {f}
    <3>1. PICK j \in DOMAIN r.members : r.members[j].id = DataCounter(g)
      OBVIOUS
    <3>2. PICK h \in r.xor : r.members[j].id = DataCounter(h)
      BY <1>3
    <3>3. g = h
      BY <3>1, <3>2, <1>1, <1>2
    <3>4. i \in FecMissing(fecRx, r)
      OBVIOUS
    <3>5. DataCounter(f) \notin FecCounters(fecRx) /\ DataCounter(g) \in FecCounters(fecRx)
      BY <3>4, <1>4 DEF FecMissing, FecCounters
    <3>. QED BY <3>2, <3>3, <3>5
  <2>2. ASSUME NEW g \in r.xor, g # f PROVE g \in here
    <3>1. PICK j \in DOMAIN r.members : r.members[j].id = DataCounter(g)
      BY <1>3
    <3>2. j # i
      BY <3>1, <2>2, <1>1, <1>4
    <3>3. DataCounter(g) \in FecCounters(fecRx)
      BY <3>1, <3>2 DEF FecMissing
    <3>4. PICK h \in ToSet(fecRx.cache) : DataCounter(h) = DataCounter(g)
      BY <3>3 DEF FecCounters
    <3>5. h = g
      BY <3>4, <1>1, <1>2
    <3>. QED BY <3>1, <3>4, <3>5
  <2>. QED BY <2>1, <2>2
<1>6. FecRebuild(fecRx, r) = Xor(r.xor, here)
  BY DEF FecRebuild
<1>. HIDE DEF here
<1>7. Xor(r.xor, here) = {f}
  BY <1>4, <1>5 DEF Xor
<1>. QED BY <1>1, <1>4, <1>6, <1>7

\* A recovery frame that reached the wire is well formed.
LEMMA ToldIsWellFormed ==
  ASSUME NEW r, NEW frames, GroupTold(r, frames)
  PROVE  FecWellFormed(r)
<1>1. r.members \in Seq(MemberTags) /\ Len(r.members) = FecK /\ FecK \in 2..16
  BY FecAssumption DEF GroupTold, Tells
<1>2. \A m \in ToSet(r.members) : m.len \in FecLens
  <2>. SUFFICES ASSUME NEW j \in 1..Len(r.members) PROVE r.members[j].len \in FecLens
    BY <1>1 DEF ToSet
  <2>1. r.members[j] \in MemberTags
    BY <1>1
  <2>. QED BY <2>1 DEF MemberTags
<1>. QED BY <1>1, <1>2, FecAssumption DEF FecWellFormed, GroupTold

LEMMA MissingFinite ==
  ASSUME NEW rx, NEW r, r.members \in Seq(MemberTags)
  PROVE  IsFiniteSet(FecMissing(rx, r))
<1>1. IsFiniteSet(1..Len(r.members))
  BY FS_Interval
<1>2. FecMissing(rx, r) \subseteq 1..Len(r.members)
  BY DEF FecMissing
<1>. QED BY <1>1, <1>2, FS_Subset

\* A recovery frame makes nothing, or the one member that was lost.
LEMMA MadeWasLost ==
  ASSUME FecInv, NEW r \in fecWire, r.type = "FecRecovery"
  PROVE  /\ FecAccept(fecRx, r).rx \in [cache : Seq(fecGot), seen_groups : Seq(Nat)]
         /\ FecAccept(fecRx, r).rx.cache = fecRx.cache
         /\ FecAccept(fecRx, r).out = {} \/ \E f \in DataOf(fecWire) : FecAccept(fecRx, r).out = {f}
         /\ \A i \in DOMAIN r.members :
              FecMissing(fecRx, r) = {i} /\ r.group_seq \notin ToSet(fecRx.seen_groups)
              => r.members[i].id \in {DataCounter(f) : f \in FecAccept(fecRx, r).out}
<1>. DEFINE seenNow == Append(fecRx.seen_groups, r.group_seq)
            seen == IF Len(seenNow) > MaxSeenGroups THEN Tail(seenNow) ELSE seenNow
            rx1 == [fecRx EXCEPT !.seen_groups = seen]
            lost == FecMissing(fecRx, r)
            made == FecRebuild(fecRx, r)
            out == IF Cardinality(lost) = 1 /\ {DataCounter(f) : f \in made} = {r.members[i].id : i \in lost}
                   THEN made ELSE {}
<1>1. fecRx \in [cache : Seq(fecGot), seen_groups : Seq(Nat)] /\ GroupTold(r, DataOf(fecWire))
  BY DEF FecInv, WireTrue
<1>2. rx1 \in [cache : Seq(fecGot), seen_groups : Seq(Nat)] /\ rx1.cache = fecRx.cache
  <2>1. seenNow \in Seq(Nat) /\ seenNow # <<>>
    <3>1. r.group_seq \in Nat /\ fecRx.seen_groups \in Seq(Nat)
      BY <1>1 DEF GroupTold
    <3>. QED BY <3>1, AppendProperties
  <2>2. seen \in Seq(Nat)
    BY <2>1, HeadTailProperties
  <2>. HIDE DEF seen
  <2>. QED BY <1>1, <2>2
<1>3. out = {} \/ \E f \in DataOf(fecWire) : out = {f}
  <2>. SUFFICES ASSUME Cardinality(lost) = 1 PROVE out = {} \/ \E f \in DataOf(fecWire) : out = {f}
    OBVIOUS
  <2>1. PICK i : lost = {i}
    <3>1. IsFiniteSet(lost)
      BY <1>1, MissingFinite DEF GroupTold, Tells
    <3>. QED BY <3>1, FS_Singleton
  <2>2. i \in DOMAIN r.members
    BY <2>1 DEF FecMissing
  <2>3. \E f \in DataOf(fecWire) : made = {f}
    BY <2>1, <2>2, LoneLossRebuilt
  <2>. QED BY <2>3
<1>4. ASSUME NEW i \in DOMAIN r.members, lost = {i} PROVE r.members[i].id \in {DataCounter(f) : f \in out}
  <2>1. PICK f \in DataOf(fecWire) : made = {f} /\ DataCounter(f) = r.members[i].id
    BY <1>4, LoneLossRebuilt
  <2>2. Cardinality(lost) = 1
    BY <1>4, FS_Singleton
  <2>3. {DataCounter(g) : g \in made} = {r.members[j].id : j \in lost}
    BY <2>1, <1>4
  <2>4. out = {f}
    BY <2>1, <2>2, <2>3
  <2>. QED BY <2>1, <2>4
<1>5. FecWellFormed(r)
  BY <1>1, ToldIsWellFormed
<1>6. FecAccept(fecRx, r) = IF r.group_seq \in ToSet(fecRx.seen_groups) THEN [rx |-> fecRx, out |-> {}]
                            ELSE [rx |-> rx1, out |-> out]
  BY <1>5 DEF FecAccept
<1>. HIDE DEF rx1, out, lost
<1>7. CASE r.group_seq \in ToSet(fecRx.seen_groups)
  <2>1. FecAccept(fecRx, r).rx = fecRx /\ FecAccept(fecRx, r).out = {}
    BY <1>6, <1>7
  <2>. QED BY <2>1, <1>1, <1>7
<1>8. CASE r.group_seq \notin ToSet(fecRx.seen_groups)
  <2>1. FecAccept(fecRx, r).rx = rx1 /\ FecAccept(fecRx, r).out = out
    BY <1>6, <1>8
  <2>2. \A i \in DOMAIN r.members : FecMissing(fecRx, r) = {i} => r.members[i].id \in {DataCounter(f) : f \in out}
    BY <1>4 DEF lost
  <2>. QED BY <2>1, <2>2, <1>2, <1>3
<1>. QED BY <1>7, <1>8

LEMMA FecRecoveryKeeps == ASSUME FecInv, NEW r \in fecWire, FecRecovery(r) PROVE FecInv'
<1>. DEFINE res == FecAccept(fecRx, r)
<1>1. /\ r.type = "FecRecovery" /\ fecGot' = fecGot \cup res.out
      /\ fecRx' = IF res.out = {} THEN res.rx ELSE FecObserve(res.rx, CHOOSE f \in res.out : TRUE)
      /\ UNCHANGED <<fecTx, fecWire, fecNext>>
  BY DEF FecRecovery
<1>2. /\ res.rx \in [cache : Seq(fecGot), seen_groups : Seq(Nat)]
      /\ res.out = {} \/ \E f \in DataOf(fecWire) : res.out = {f}
  BY <1>1, MadeWasLost
<1>. HIDE DEF res
<1>3. fecGot' \subseteq DataOf(fecWire) /\ res.rx \in [cache : Seq(fecGot'), seen_groups : Seq(Nat)]
  BY <1>1, <1>2 DEF FecInv
<1>4. fecRx' \in [cache : Seq(fecGot'), seen_groups : Seq(Nat)]
  <2>1. CASE res.out = {}
    BY <2>1, <1>1, <1>3
  <2>2. CASE res.out # {}
    <3>. DEFINE f == CHOOSE f \in res.out : TRUE
    <3>1. f \in fecGot'
      BY <2>2, <1>1
    <3>2. fecRx' = FecObserve(res.rx, f)
      BY <2>2, <1>1
    <3>. HIDE DEF f
    <3>. QED BY <3>1, <3>2, <1>3, ObserveKeeps
  <2>. QED BY <2>1, <2>2
<1>. QED BY <1>1, <1>3, <1>4 DEF FecInv

LEMMA FecInitial == FecInit => FecInv
<1>. SUFFICES ASSUME FecInit PROVE FecInv
  OBVIOUS
<1>1. fecNext \in [life : Nat, ctr : Nat] /\ WireTrue(fecWire, fecNext.life, fecNext.ctr)
  BY DEF FecInit, WireTrue, DataOf
<1>2. GroupOpen(fecTx, DataOf(fecWire))
  BY FecAssumption DEF FecInit, GroupOpen, FecTxNew, Tells
<1>. QED BY <1>1, <1>2 DEF FecInit, FecInv

LEMMA FecStep == FecInv /\ [FecNext]_fecVars => FecInv'
<1>. SUFFICES ASSUME FecInv, [FecNext]_fecVars PROVE FecInv'
  OBVIOUS
<1>1. CASE \E l \in FecLens, marked \in BOOLEAN : FecSend(<<l>>, marked)
  <2>1. PICK l \in FecLens, marked \in BOOLEAN : FecSend(<<l>>, marked)
    BY <1>1
  <2>. DEFINE lens == <<l>>
  <2>2. lens \in Seq(FecLens) /\ Len(lens) \in {1, 2} /\ FecSend(lens, marked)
    BY <2>1
  <2>. HIDE DEF lens
  <2>. QED BY <2>2, FecSendKeeps
<1>2. CASE \E l, m \in FecLens, marked \in BOOLEAN : FecSend(<<l, m>>, marked)
  <2>1. PICK l \in FecLens, m \in FecLens, marked \in BOOLEAN : FecSend(<<l, m>>, marked)
    BY <1>2
  <2>. DEFINE lens == <<l, m>>
  <2>2. lens \in Seq(FecLens) /\ Len(lens) \in {1, 2} /\ FecSend(lens, marked)
    BY <2>1
  <2>. HIDE DEF lens
  <2>. QED BY <2>2, FecSendKeeps
<1>3. CASE \E f \in fecWire : FecData(f) \/ FecRecovery(f)
  BY <1>3, FecDataKeeps, FecRecoveryKeeps
<1>4. CASE FecRestart
  BY <1>4, FecRestartKeeps
<1>5. CASE UNCHANGED fecVars
  BY <1>5 DEF fecVars, FecInv
<1>. QED BY <1>1, <1>2, <1>3, <1>4, <1>5 DEF FecNext

\* A group that lost one member is complete once its recovery frame is taken.
LEMMA GroupComplete ==
  ASSUME FecInv, NEW r \in fecWire, r.type = "FecRecovery", FecRecovery(r),
         r.group_seq \notin ToSet(fecRx.seen_groups), Cardinality(FecMissing(fecRx, r)) = 1
  PROVE  {m.id : m \in ToSet(r.members)} \subseteq {DataCounter(f) : f \in fecGot'}
<1>1. GroupTold(r, DataOf(fecWire)) /\ r.members \in Seq(MemberTags)
  BY DEF FecInv, WireTrue, GroupTold, Tells
<1>2. PICK i : FecMissing(fecRx, r) = {i}
  <2>1. IsFiniteSet(FecMissing(fecRx, r))
    BY <1>1, MissingFinite
  <2>. QED BY <2>1, FS_Singleton
<1>3. i \in DOMAIN r.members
  BY <1>2 DEF FecMissing
<1>4. r.members[i].id \in {DataCounter(f) : f \in fecGot'}
  <2>1. r.members[i].id \in {DataCounter(f) : f \in FecAccept(fecRx, r).out}
    BY <1>2, <1>3, MadeWasLost
  <2>. QED BY <2>1 DEF FecRecovery
<1>5. ASSUME NEW j \in DOMAIN r.members, j # i PROVE r.members[j].id \in {DataCounter(f) : f \in fecGot'}
  <2>1. r.members[j].id \in FecCounters(fecRx)
    BY <1>2, <1>5 DEF FecMissing
  <2>2. ToSet(fecRx.cache) \subseteq fecGot
    BY DEF FecInv, ToSet
  <2>3. fecGot \subseteq fecGot'
    BY DEF FecRecovery
  <2>. QED BY <2>1, <2>2, <2>3 DEF FecCounters
<1>. QED BY <1>4, <1>5 DEF ToSet

\* Whatever the receiver opens was sealed by the sender, and a group that lost one
\* member is complete once its recovery frame is accepted (lib.rs, tx.rs, rx.rs of
\* ipv8-fec): the frame rebuilt is the lost one, whatever the wire did in between.
THEOREM LossesAreRepaired == FecSpec => LoneLossRepaired
<1>1. ASSUME FecInv, FecInv'
      PROVE  /\ fecGot' \subseteq fecWire'
             /\ \A r \in fecWire :
                  (/\ r.type = "FecRecovery" /\ FecRecovery(r)
                   /\ r.group_seq \notin ToSet(fecRx.seen_groups)
                   /\ Cardinality(FecMissing(fecRx, r)) = 1)
                  => {m.id : m \in ToSet(r.members)} \subseteq {DataCounter(f) : f \in fecGot'}
  <2>1. fecGot' \subseteq fecWire'
    BY <1>1 DEF FecInv, DataOf
  <2>. QED BY <2>1, <1>1, GroupComplete
<1>. QED BY <1>1, FecInitial, FecStep, PTL DEF FecSpec, LoneLossRepaired

-----------------------------------------------------------------------------
(* The TUN reader.  What was kept is what went out and then, in order, the    *)
(* packets of the device's queue that the processor keeps: at[j] is the place *)
(* in the queue of the j-th of them.                                          *)

TunReads == TunPackets \cup {"Transient", "Closed"}

Places(at, in, due) ==
  /\ at \in [1..due -> 1..Len(in)]
  /\ \A i, j \in 1..due : i < j => at[i] < at[j]
  /\ \A i \in 1..Len(in) : in[i] \in Processed => \E j \in 1..due : at[j] = i

InTurn(in, out, kept) ==
  \E at : /\ Places(at, in, Len(kept) - Len(out))
          /\ \A j \in 1..Len(kept) - Len(out) : in[at[j]] \in Processed /\ in[at[j]] = kept[Len(out) + j]

PassedOn(out, kept) == Len(out) <= Len(kept) /\ \A i \in 1..Len(out) : out[i] = kept[i]

TunInv ==
  /\ tunIn \in Seq(TunReads) /\ tunOut \in Seq(TunPackets) /\ tunKept \in Seq(TunPackets)
  /\ tunPc \in {"check", "read", "gone"} /\ tunStop \in BOOLEAN /\ tunRx \in BOOLEAN
  /\ \A i \in 1..Len(tunIn) : tunIn[i] = "Closed" => i = Len(tunIn)
  /\ PassedOn(tunOut, tunKept)
  /\ tunPc # "gone" \/ tunRx => InTurn(tunIn, tunOut, tunKept)
  /\ tunPc = "gone" /\ tunRx /\ ~tunStop => tunIn = <<"Closed">>

LEMMA NotProcessed == "Closed" \notin Processed /\ "Transient" \notin Processed /\ Processed \subseteq TunPackets
BY TunAssumption

\* A packet that joins the queue joins what is kept, if the processor keeps it.
LEMMA FeedInTurn ==
  ASSUME NEW in \in Seq(TunReads), NEW out \in Seq(TunPackets), NEW kept \in Seq(TunPackets),
         PassedOn(out, kept), InTurn(in, out, kept), NEW p \in TunReads
  PROVE  InTurn(Append(in, p), out, IF p \in Processed THEN Append(kept, p) ELSE kept)
<1>. DEFINE due == Len(kept) - Len(out)
            more == Append(in, p)
            held == Append(kept, p)
<1>1. /\ due \in Nat /\ Len(out) \in Nat /\ Len(in) \in Nat /\ Len(kept) = Len(out) + due
  BY DEF PassedOn
<1>2. PICK at : /\ Places(at, in, due)
                /\ \A j \in 1..due : in[at[j]] \in Processed /\ in[at[j]] = kept[Len(out) + j]
  BY DEF InTurn
<1>3. /\ at \in [1..due -> 1..Len(in)] /\ \A i, j \in 1..due : i < j => at[i] < at[j]
      /\ \A i \in 1..Len(in) : in[i] \in Processed => \E j \in 1..due : at[j] = i
  BY <1>2 DEF Places
<1>4. /\ Len(more) = Len(in) + 1 /\ more[Len(in) + 1] = p
      /\ \A i \in 1..Len(in) : more[i] = in[i]
  BY AppendProperties
<1>. HIDE DEF more, due
<1>5. CASE p \notin Processed
  <2>1. Places(at, more, due)
    <3>1. at \in [1..due -> 1..Len(more)]
      <4>1. 1..Len(in) \subseteq 1..Len(more)
        BY <1>1, <1>4
      <4>. QED BY <4>1, <1>3
    <3>2. \A i \in 1..Len(more) : i \in 1..Len(in) \/ i = Len(in) + 1
      BY <1>1, <1>4
    <3>3. \A i \in 1..Len(more) : more[i] \in Processed => \E j \in 1..due : at[j] = i
      BY <3>2, <1>3, <1>4, <1>5
    <3>. QED BY <3>1, <3>3, <1>3 DEF Places
  <2>2. \A j \in 1..due : more[at[j]] \in Processed /\ more[at[j]] = kept[Len(out) + j]
    BY <1>2, <1>3, <1>4
  <2>3. InTurn(more, out, kept)
    BY <2>1, <2>2 DEF InTurn, due
  <2>. QED BY <2>3, <1>5 DEF more
<1>6. CASE p \in Processed
  <2>. DEFINE next == [j \in 1..due + 1 |-> IF j = due + 1 THEN Len(in) + 1 ELSE at[j]]
  <2>1. p \in TunPackets
    BY <1>6, NotProcessed
  <2>2. /\ Len(held) = Len(kept) + 1 /\ held[Len(kept) + 1] = p
        /\ \A i \in 1..Len(kept) : held[i] = kept[i]
    BY <2>1, AppendProperties
  <2>. HIDE DEF held
  <2>3. /\ \A j \in 1..due : j \in 1..due + 1 /\ next[j] = at[j] /\ at[j] \in 1..Len(in)
        /\ next[due + 1] = Len(in) + 1
    BY <1>1, <1>3
  <2>4. next \in [1..due + 1 -> 1..Len(more)]
    BY <1>1, <1>3, <1>4
  <2>. HIDE DEF next
  <2>5. \A i, j \in 1..due + 1 : i < j => next[i] < next[j]
    <3>. SUFFICES ASSUME NEW i \in 1..due + 1, NEW j \in 1..due + 1, i < j PROVE next[i] < next[j]
      OBVIOUS
    <3>1. i \in 1..due
      BY <1>1
    <3>2. CASE j \in 1..due
      BY <3>1, <3>2, <2>3, <1>3
    <3>3. CASE j = due + 1
      BY <3>1, <3>3, <2>3, <1>1
    <3>. QED BY <3>2, <3>3, <1>1
  <2>6. \A i \in 1..Len(more) : more[i] \in Processed => \E j \in 1..due + 1 : next[j] = i
    <3>. SUFFICES ASSUME NEW i \in 1..Len(more), more[i] \in Processed PROVE \E j \in 1..due + 1 : next[j] = i
      OBVIOUS
    <3>1. CASE i \in 1..Len(in)
      BY <3>1, <1>3, <1>4, <2>3
    <3>2. CASE i = Len(in) + 1
      BY <3>2, <2>3, <1>1
    <3>. QED BY <3>1, <3>2, <1>1, <1>4
  <2>7. \A j \in 1..due + 1 : more[next[j]] \in Processed /\ more[next[j]] = held[Len(out) + j]
    <3>. SUFFICES ASSUME NEW j \in 1..due + 1
                  PROVE  more[next[j]] \in Processed /\ more[next[j]] = held[Len(out) + j]
      OBVIOUS
    <3>1. CASE j \in 1..due
      <4>1. Len(out) + j \in 1..Len(kept)
        BY <3>1, <1>1
      <4>. QED BY <3>1, <4>1, <2>2, <2>3, <1>2, <1>4
    <3>2. CASE j = due + 1
      <4>1. Len(out) + j = Len(kept) + 1
        BY <3>2, <1>1
      <4>. QED BY <3>2, <4>1, <2>2, <2>3, <1>4, <1>6
    <3>. QED BY <3>1, <3>2, <1>1
  <2>8. Places(next, more, due + 1)
    BY <2>4, <2>5, <2>6 DEF Places
  <2>9. Len(held) - Len(out) = due + 1
    BY <2>2, <1>1 DEF due
  <2>10. InTurn(more, out, held)
    BY <2>7, <2>8, <2>9 DEF InTurn
  <2>. QED BY <2>10, <1>6 DEF more, held
<1>. QED BY <1>5, <1>6

\* The head of the queue goes out when the processor keeps it, and is dropped otherwise.
LEMMA ReadInTurn ==
  ASSUME NEW in \in Seq(TunReads), in # <<>>, NEW out \in Seq(TunPackets), NEW kept \in Seq(TunPackets),
         PassedOn(out, kept), InTurn(in, out, kept)
  PROVE  /\ Head(in) \notin Processed => InTurn(Tail(in), out, kept)
         /\ Head(in) \in Processed =>
              InTurn(Tail(in), Append(out, Head(in)), kept) /\ PassedOn(Append(out, Head(in)), kept)
<1>. DEFINE due == Len(kept) - Len(out)
            rest == Tail(in)
<1>1. /\ due \in Nat /\ Len(out) \in Nat /\ Len(in) \in Nat /\ Len(in) > 0 /\ Len(kept) = Len(out) + due
  BY EmptySeq DEF PassedOn
<1>2. PICK at : /\ Places(at, in, due)
                /\ \A j \in 1..due : in[at[j]] \in Processed /\ in[at[j]] = kept[Len(out) + j]
  BY DEF InTurn
<1>3. /\ at \in [1..due -> 1..Len(in)] /\ \A i, j \in 1..due : i < j => at[i] < at[j]
      /\ \A i \in 1..Len(in) : in[i] \in Processed => \E j \in 1..due : at[j] = i
  BY <1>2 DEF Places
<1>4. /\ Len(rest) = Len(in) - 1 /\ Head(in) = in[1]
      /\ \A i \in 1..Len(rest) : rest[i] = in[i + 1]
  BY HeadTailProperties
<1>. HIDE DEF rest, due
<1>5. CASE Head(in) \notin Processed
  <2>. DEFINE next == [j \in 1..due |-> at[j] - 1]
  <2>1. \A j \in 1..due : at[j] \in 2..Len(in)
    <3>. SUFFICES ASSUME NEW j \in 1..due PROVE at[j] \in 2..Len(in)
      OBVIOUS
    <3>1. at[j] \in 1..Len(in) /\ at[j] # 1
      BY <1>2, <1>3, <1>4, <1>5
    <3>. QED BY <3>1, <1>1
  <2>2. next \in [1..due -> 1..Len(rest)] /\ \A j \in 1..due : next[j] = at[j] - 1
    BY <2>1, <1>1, <1>4
  <2>. HIDE DEF next
  <2>3. \A i, j \in 1..due : i < j => next[i] < next[j]
    BY <1>3, <2>1, <2>2
  <2>4. \A i \in 1..Len(rest) : rest[i] \in Processed => \E j \in 1..due : next[j] = i
    <3>. SUFFICES ASSUME NEW i \in 1..Len(rest), rest[i] \in Processed PROVE \E j \in 1..due : next[j] = i
      OBVIOUS
    <3>1. i + 1 \in 1..Len(in) /\ in[i + 1] \in Processed
      BY <1>1, <1>4
    <3>2. PICK j \in 1..due : at[j] = i + 1
      BY <3>1, <1>3
    <3>. QED BY <3>2, <2>2, <1>1
  <2>5. \A j \in 1..due : rest[next[j]] \in Processed /\ rest[next[j]] = kept[Len(out) + j]
    <3>. SUFFICES ASSUME NEW j \in 1..due
                  PROVE  rest[next[j]] \in Processed /\ rest[next[j]] = kept[Len(out) + j]
      OBVIOUS
    <3>1. next[j] \in 1..Len(rest) /\ next[j] + 1 = at[j]
      BY <2>1, <2>2, <1>1
    <3>2. rest[next[j]] = in[at[j]]
      BY <3>1, <1>4
    <3>. QED BY <3>2, <1>2
  <2>6. Places(next, rest, due)
    BY <2>2, <2>3, <2>4 DEF Places
  <2>7. InTurn(rest, out, kept)
    BY <2>5, <2>6 DEF InTurn, due
  <2>. QED BY <2>7, <1>5 DEF rest
<1>6. CASE Head(in) \in Processed
  <2>. DEFINE next == [j \in 1..due - 1 |-> at[j + 1] - 1]
              sent == Append(out, Head(in))
  <2>1. due > 0 /\ at[1] = 1
    <3>1. PICK j \in 1..due : at[j] = 1
      BY <1>1, <1>3, <1>4, <1>6
    <3>2. 1 \in 1..due /\ at[1] \in 1..Len(in)
      BY <3>1, <1>1, <1>3
    <3>. QED BY <3>1, <3>2, <1>1, <1>3
  <2>2. \A j \in 1..due - 1 : j + 1 \in 1..due /\ at[j + 1] \in 2..Len(in)
    <3>. SUFFICES ASSUME NEW j \in 1..due - 1 PROVE j + 1 \in 1..due /\ at[j + 1] \in 2..Len(in)
      OBVIOUS
    <3>1. j + 1 \in 1..due /\ 1 \in 1..due /\ 1 < j + 1
      BY <1>1
    <3>2. at[j + 1] \in 1..Len(in) /\ at[1] < at[j + 1]
      BY <3>1, <1>3
    <3>. QED BY <3>1, <3>2, <2>1, <1>1
  <2>3. next \in [1..due - 1 -> 1..Len(rest)] /\ \A j \in 1..due - 1 : next[j] = at[j + 1] - 1
    BY <2>2, <1>1, <1>4
  <2>. HIDE DEF next
  <2>4. \A i, j \in 1..due - 1 : i < j => next[i] < next[j]
    <3>. SUFFICES ASSUME NEW i \in 1..due - 1, NEW j \in 1..due - 1, i < j PROVE next[i] < next[j]
      OBVIOUS
    <3>1. at[i + 1] < at[j + 1]
      BY <1>3, <2>2, <1>1
    <3>2. at[i + 1] \in 2..Len(in) /\ at[j + 1] \in 2..Len(in)
      BY <2>2
    <3>3. next[i] = at[i + 1] - 1 /\ next[j] = at[j + 1] - 1
      BY <2>3
    <3>. QED BY <3>1, <3>2, <3>3, <1>1
  <2>5. \A i \in 1..Len(rest) : rest[i] \in Processed => \E j \in 1..due - 1 : next[j] = i
    <3>. SUFFICES ASSUME NEW i \in 1..Len(rest), rest[i] \in Processed PROVE \E j \in 1..due - 1 : next[j] = i
      OBVIOUS
    <3>1. i + 1 \in 1..Len(in) /\ in[i + 1] \in Processed
      BY <1>1, <1>4
    <3>2. PICK j \in 1..due : at[j] = i + 1
      BY <3>1, <1>3
    <3>3. j # 1
      BY <3>2, <2>1, <1>1
    <3>4. j - 1 \in 1..due - 1 /\ (j - 1) + 1 = j
      BY <3>3, <1>1
    <3>5. next[j - 1] = i
      <4>1. next[j - 1] = at[j] - 1
        BY <3>4, <2>3
      <4>. QED BY <4>1, <3>2
    <3>. QED BY <3>4, <3>5
  <2>6. Head(in) = kept[Len(out) + 1]
    <3>1. 1 \in 1..due
      BY <2>1, <1>1
    <3>. QED BY <3>1, <2>1, <1>2, <1>4
  <2>7. Head(in) \in TunPackets
    BY <1>6, NotProcessed
  <2>8. /\ Len(sent) = Len(out) + 1 /\ sent[Len(out) + 1] = Head(in)
        /\ \A i \in 1..Len(out) : sent[i] = out[i]
    BY <2>7, AppendProperties
  <2>. HIDE DEF sent
  <2>9. PassedOn(sent, kept)
    <3>1. \A i \in 1..Len(sent) : i \in 1..Len(out) \/ i = Len(out) + 1
      BY <2>8, <1>1
    <3>. QED BY <3>1, <2>1, <2>6, <2>8, <1>1 DEF PassedOn
  <2>10. \A j \in 1..due - 1 : rest[next[j]] \in Processed /\ rest[next[j]] = kept[Len(sent) + j]
    <3>. SUFFICES ASSUME NEW j \in 1..due - 1
                  PROVE  rest[next[j]] \in Processed /\ rest[next[j]] = kept[Len(sent) + j]
      OBVIOUS
    <3>1. next[j] \in 1..Len(rest) /\ next[j] + 1 = at[j + 1]
      <4>1. next[j] \in 1..Len(rest) /\ next[j] = at[j + 1] - 1
        BY <2>3
      <4>2. at[j + 1] \in 2..Len(in)
        BY <2>2
      <4>. QED BY <4>1, <4>2
    <3>2. rest[next[j]] = in[at[j + 1]]
      BY <3>1, <1>4
    <3>3. Len(out) + (j + 1) = Len(sent) + j
      BY <2>8, <1>1
    <3>. QED BY <3>2, <3>3, <2>2, <1>2
  <2>11. Places(next, rest, due - 1)
    BY <2>3, <2>4, <2>5 DEF Places
  <2>12. Len(kept) - Len(sent) = due - 1
    BY <2>8, <1>1 DEF due
  <2>13. InTurn(rest, sent, kept)
    BY <2>10, <2>11, <2>12 DEF InTurn
  <2>. QED BY <2>13, <2>9, <1>6 DEF rest, sent
<1>. QED BY <1>5, <1>6

LEMMA TunInitial == TunInit => TunInv
<1>. SUFFICES ASSUME TunInit PROVE TunInv
  OBVIOUS
<1>. DEFINE none == <<>>
<1>1. none \in Seq(TunReads) /\ none \in Seq(TunPackets) /\ Len(none) = 0 /\ Len(none) - Len(none) = 0
  OBVIOUS
<1>2. tunIn = none /\ tunOut = none /\ tunKept = none /\ tunPc = "check" /\ tunStop = FALSE /\ tunRx = TRUE
  BY DEF TunInit
<1>. HIDE DEF none
<1>3. \A i \in 1..0 : FALSE
  OBVIOUS
<1>4. InTurn(none, none, none)
  <2>. DEFINE at == [j \in 1..0 |-> j]
  <2>. DEFINE due == Len(none) - Len(none)
  <2>1. due = 0
    BY <1>1
  <2>. HIDE DEF due
  <2>2. Places(at, none, due)
    BY <2>1, <1>1, <1>3 DEF Places
  <2>3. \A j \in 1..due : none[at[j]] \in Processed /\ none[at[j]] = none[Len(none) + j]
    BY <2>1, <1>3
  <2>. HIDE DEF at
  <2>. QED BY <2>2, <2>3 DEF InTurn, due
<1>5. PassedOn(none, none)
  BY <1>1 DEF PassedOn
<1>6. \A i \in 1..Len(tunIn) : tunIn[i] = "Closed" => i = Len(tunIn)
  BY <1>1, <1>2, <1>3
<1>7. /\ tunIn \in Seq(TunReads) /\ tunOut \in Seq(TunPackets) /\ tunKept \in Seq(TunPackets)
      /\ PassedOn(tunOut, tunKept) /\ InTurn(tunIn, tunOut, tunKept)
  BY <1>1, <1>2, <1>4, <1>5
<1>8. tunPc = "check" /\ tunStop \in BOOLEAN /\ tunRx \in BOOLEAN
  BY <1>2
<1>. QED BY <1>6, <1>7, <1>8 DEF TunInv

LEMMA FeedTunKeeps == ASSUME TunInv, NEW p \in TunPackets \cup {"Transient"}, FeedInbound(p) PROVE TunInv'
<1>1. /\ tunIn' = Append(tunIn, p) /\ ~Closed /\ tunOut' = tunOut /\ tunPc' = tunPc
      /\ tunStop' = tunStop /\ tunRx' = tunRx
      /\ tunKept' = IF p \in Processed THEN Append(tunKept, p) ELSE tunKept
  BY DEF FeedInbound
<1>2. p \in TunReads /\ p # "Closed" /\ (p \in Processed => p \in TunPackets)
  BY TunAssumption DEF TunReads
<1>3. tunIn \in Seq(TunReads) /\ tunOut \in Seq(TunPackets) /\ tunKept \in Seq(TunPackets)
  BY DEF TunInv
<1>4. \A i \in 1..Len(tunIn) : tunIn[i] # "Closed"
  BY <1>1, <1>3 DEF Closed, Range
<1>5. /\ tunIn' \in Seq(TunReads) /\ Len(tunIn') = Len(tunIn) + 1
      /\ \A i \in 1..Len(tunIn') : tunIn'[i] # "Closed"
  BY <1>1, <1>2, <1>3, <1>4, AppendProperties
<1>6. tunKept' \in Seq(TunPackets) /\ PassedOn(tunOut, tunKept')
  <2>1. PassedOn(tunOut, tunKept)
    BY DEF TunInv
  <2>2. CASE p \in Processed
    <3>1. /\ tunKept' \in Seq(TunPackets) /\ Len(tunKept') = Len(tunKept) + 1
          /\ \A i \in 1..Len(tunKept) : tunKept'[i] = tunKept[i]
      BY <2>2, <1>1, <1>2, <1>3, AppendProperties
    <3>2. Len(tunKept) \in Nat /\ Len(tunOut) \in Nat
      BY <1>3
    <3>. QED BY <3>1, <3>2, <2>1 DEF PassedOn
  <2>3. CASE p \notin Processed
    BY <2>1, <2>3, <1>1, <1>3
  <2>. QED BY <2>2, <2>3
<1>7. ~(tunPc = "gone" /\ tunRx /\ ~tunStop)
  <2>1. tunIn = <<"Closed">> => 1 \in 1..Len(tunIn) /\ tunIn[1] = "Closed"
    OBVIOUS
  <2>2. tunIn # <<"Closed">>
    BY <2>1, <1>4
  <2>. QED BY <2>2 DEF TunInv
<1>8. tunPc # "gone" \/ tunRx => InTurn(tunIn', tunOut, tunKept')
  BY <1>1, <1>2, <1>3, FeedInTurn DEF TunInv
<1>. QED BY <1>1, <1>3, <1>5, <1>6, <1>7, <1>8 DEF TunInv

LEMMA CloseKeeps == ASSUME TunInv, CloseDevice PROVE TunInv'
<1>1. /\ tunIn' = Append(tunIn, "Closed") /\ ~Closed /\ tunOut' = tunOut /\ tunPc' = tunPc
      /\ tunStop' = tunStop /\ tunRx' = tunRx /\ tunKept' = tunKept
  BY DEF CloseDevice
<1>2. "Closed" \in TunReads /\ "Closed" \notin Processed
  BY NotProcessed DEF TunReads
<1>3. tunIn \in Seq(TunReads) /\ tunOut \in Seq(TunPackets) /\ tunKept \in Seq(TunPackets)
  BY DEF TunInv
<1>4. \A i \in 1..Len(tunIn) : tunIn[i] # "Closed"
  BY <1>1, <1>3 DEF Closed, Range
<1>5. /\ tunIn' \in Seq(TunReads) /\ Len(tunIn') = Len(tunIn) + 1
      /\ \A i \in 1..Len(tunIn) : tunIn'[i] = tunIn[i]
  BY <1>1, <1>2, <1>3, AppendProperties
<1>6. \A i \in 1..Len(tunIn') : tunIn'[i] = "Closed" => i = Len(tunIn')
  <2>1. \A i \in 1..Len(tunIn') : i \in 1..Len(tunIn) \/ i = Len(tunIn')
    BY <1>3, <1>5
  <2>. QED BY <2>1, <1>4, <1>5
<1>7. ~(tunPc = "gone" /\ tunRx /\ ~tunStop)
  <2>1. tunIn = <<"Closed">> => 1 \in 1..Len(tunIn) /\ tunIn[1] = "Closed"
    OBVIOUS
  <2>2. tunIn # <<"Closed">>
    BY <2>1, <1>4
  <2>. QED BY <2>2 DEF TunInv
<1>8. tunPc # "gone" \/ tunRx => InTurn(tunIn', tunOut, tunKept)
  BY <1>1, <1>2, <1>3, FeedInTurn DEF TunInv
<1>. QED BY <1>1, <1>3, <1>5, <1>6, <1>7, <1>8 DEF TunInv

LEMMA ReadKeeps == ASSUME TunInv, ReadBlocking PROVE TunInv'
<1>. DEFINE x == Head(tunIn)
<1>1. /\ tunPc = "read" /\ tunIn # <<>> /\ tunKept' = tunKept /\ tunStop' = tunStop /\ tunRx' = tunRx
      /\ tunIn' = IF x = "Closed" THEN tunIn ELSE Tail(tunIn)
      /\ tunPc' = IF x = "Closed" \/ (x \in Processed /\ ~tunRx) THEN "gone" ELSE "check"
      /\ tunOut' = IF x \in Processed /\ tunRx THEN Append(tunOut, x) ELSE tunOut
  BY DEF ReadBlocking
<1>2. /\ tunIn \in Seq(TunReads) /\ tunOut \in Seq(TunPackets) /\ tunKept \in Seq(TunPackets)
      /\ tunStop \in BOOLEAN /\ tunRx \in BOOLEAN /\ PassedOn(tunOut, tunKept)
      /\ InTurn(tunIn, tunOut, tunKept)
      /\ \A i \in 1..Len(tunIn) : tunIn[i] = "Closed" => i = Len(tunIn)
  BY <1>1 DEF TunInv
<1>3. x = tunIn[1] /\ Len(tunIn) \in Nat /\ Len(tunIn) > 0
  BY <1>1, <1>2, HeadTailProperties, EmptySeq
<1>4. CASE x = "Closed"
  <2>1. tunIn' = tunIn /\ tunPc' = "gone" /\ tunOut' = tunOut
    BY <1>1, <1>4, NotProcessed
  <2>2. Len(tunIn) = 1 /\ tunIn = <<"Closed">>
    <3>1. Len(tunIn) = 1
      <4>1. 1 \in 1..Len(tunIn) /\ tunIn[1] = "Closed"
        BY <1>3, <1>4
      <4>. QED BY <4>1, <1>2
    <3>. QED BY <3>1, <1>2, <1>3, <1>4
  <2>. QED BY <2>1, <2>2, <1>1, <1>2 DEF TunInv
<1>5. CASE x # "Closed"
  <2>1. tunIn' = Tail(tunIn) /\ tunPc' \in {"check", "gone"}
    BY <1>1, <1>5
  <2>2. tunIn' \in Seq(TunReads) /\ \A i \in 1..Len(tunIn') : tunIn'[i] = "Closed" => i = Len(tunIn')
    <3>1. /\ tunIn' \in Seq(TunReads) /\ Len(tunIn') = Len(tunIn) - 1
          /\ \A i \in 1..Len(tunIn') : tunIn'[i] = tunIn[i + 1]
      BY <2>1, <1>1, <1>2, HeadTailProperties
    <3>. QED BY <3>1, <1>2, <1>3
  <2>3. CASE x \notin Processed
    <3>1. tunOut' = tunOut /\ tunPc' = "check"
      BY <2>3, <1>1, <1>5
    <3>2. InTurn(tunIn', tunOut, tunKept)
      BY <2>1, <2>3, <1>1, <1>2, ReadInTurn
    <3>. QED BY <3>1, <3>2, <2>2, <1>1, <1>2 DEF TunInv
  <2>4. CASE x \in Processed /\ tunRx
    <3>1. tunOut' = Append(tunOut, x) /\ tunPc' = "check"
      BY <2>4, <1>1, <1>5
    <3>2. InTurn(tunIn', tunOut', tunKept) /\ PassedOn(tunOut', tunKept)
      BY <3>1, <2>1, <2>4, <1>1, <1>2, ReadInTurn
    <3>3. tunOut' \in Seq(TunPackets)
      BY <3>1, <2>4, <1>2, NotProcessed, AppendProperties
    <3>. QED BY <3>1, <3>2, <3>3, <2>2, <1>1, <1>2 DEF TunInv
  <2>5. CASE x \in Processed /\ ~tunRx
    <3>1. tunOut' = tunOut /\ tunPc' = "gone" /\ ~tunRx'
      BY <2>5, <1>1, <1>5
    <3>. QED BY <3>1, <2>2, <1>1, <1>2 DEF TunInv
  <2>6. x \notin Processed \/ (x \in Processed /\ tunRx) \/ (x \in Processed /\ ~tunRx)
    OBVIOUS
  <2>. QED BY <2>3, <2>4, <2>5, <2>6
<1>. QED BY <1>4, <1>5

LEMMA OwnerKeeps ==
  ASSUME TunInv, Shutdown \/ JoinReader \/ DropReceiver \/ CheckStop
  PROVE  TunInv'
<1>1. /\ tunIn' = tunIn /\ tunOut' = tunOut /\ tunKept' = tunKept
      /\ tunPc' = tunPc \/ (tunPc = "check" /\ tunPc' = IF tunStop THEN "gone" ELSE "read")
      /\ tunStop' = tunStop \/ tunStop' = TRUE
      /\ tunRx' = tunRx \/ tunRx' = FALSE
      /\ tunPc' # tunPc => tunStop' = tunStop /\ tunRx' = tunRx
  BY DEF Shutdown, JoinReader, DropReceiver, CheckStop
<1>2. tunPc' \in {"check", "read", "gone"} /\ tunStop' \in BOOLEAN /\ tunRx' \in BOOLEAN
  BY <1>1 DEF TunInv
<1>3. tunPc' # "gone" \/ tunRx' => tunPc # "gone" \/ tunRx
  BY <1>1 DEF TunInv
<1>4. tunPc' = "gone" /\ tunRx' /\ ~tunStop' => tunPc = "gone" /\ tunRx /\ ~tunStop
  BY <1>1 DEF TunInv
<1>. QED BY <1>1, <1>2, <1>3, <1>4 DEF TunInv

LEMMA TunStep == TunInv /\ [TunNext]_tunVars => TunInv'
<1>. SUFFICES ASSUME TunInv, [TunNext]_tunVars PROVE TunInv'
  OBVIOUS
<1>1. CASE UNCHANGED tunVars
  BY <1>1 DEF tunVars, TunInv
<1>. QED BY <1>1, FeedTunKeeps, CloseKeeps, ReadKeeps, OwnerKeeps DEF TunNext

LEMMA InTurnIsInOrder == TunInv => ReadInOrder
<1>. SUFFICES ASSUME TunInv PROVE ReadInOrder
  OBVIOUS
<1>1. /\ tunOut \in Seq(TunPackets) /\ tunKept \in Seq(TunPackets) /\ PassedOn(tunOut, tunKept)
  BY DEF TunInv
<1>2. IsPrefix(tunOut, tunKept)
  <2>1. SubSeq(tunOut, 1, Len(tunOut)) = SubSeq(tunKept, 1, Len(tunOut))
    BY <1>1, SubSeqProperties DEF PassedOn
  <2>. QED BY <2>1, <1>1 DEF IsPrefix, PassedOn
<1>3. ASSUME tunPc = "gone", tunRx, ~tunStop PROVE tunOut = tunKept
  <2>. DEFINE due == Len(tunKept) - Len(tunOut)
  <2>1. tunIn = <<"Closed">> /\ InTurn(tunIn, tunOut, tunKept)
    BY <1>3 DEF TunInv
  <2>2. PICK at : /\ Places(at, tunIn, due)
                  /\ \A j \in 1..due : tunIn[at[j]] \in Processed
    BY <2>1 DEF InTurn
  <2>3. \A j \in 1..due : at[j] \in 1..1
    BY <2>1, <2>2 DEF Places
  <2>4. 1 \notin 1..due
    <3>. SUFFICES ASSUME 1 \in 1..due PROVE FALSE
      OBVIOUS
    <3>1. at[1] = 1 /\ tunIn[at[1]] \in Processed
      BY <2>2, <2>3
    <3>2. tunIn[1] = "Closed"
      BY <2>1
    <3>. QED BY <3>1, <3>2, NotProcessed
  <2>5. Len(tunOut) = Len(tunKept)
    BY <2>4, <1>1 DEF PassedOn
  <2>. QED BY <2>5, <1>1, SeqEqual DEF PassedOn
<1>. QED BY <1>2, <1>3 DEF ReadInOrder

\* The consumer of the TUN reader sees what the processor keeps, in order and none
\* twice, and a reader that ended because the device closed has passed on all of it
\* (tun_worker.rs, the loop of TunWorker::spawn), for every traffic and timing.
THEOREM ReaderKeepsOrder == TunSpec => []ReadInOrder
<1>. QED BY TunInitial, TunStep, InTurnIsInOrder, PTL DEF TunSpec

-----------------------------------------------------------------------------
(* Fragmentation and reassembly.  First the codec: what decode finds in a     *)
(* packet that encode wrote, and where the pieces of a payload lie.           *)

LegalChain(exts) ==
  /\ exts \in Seq(Range(exts))
  /\ \A e \in Range(exts) : LegalExt(e) /\ e = ExtHeader(e.ext_type, e.units, e.body)

WireOf(h, payload) ==
  [version |-> h.version, min_compat_ver |-> h.min_compat_ver,
   flags |-> h.flags, payload_len |-> h.payload_len,
   hop_limit |-> h.hop_limit, next_header |-> h.next_header,
   src_addr |-> h.src_addr, dst_addr |-> h.dst_addr,
   exts |-> WireExts(h.ext_headers), tail |-> payload,
   size |-> BaseHeaderSize + ExtTotal(h.ext_headers) + Len(payload)]

IsHeader(h) ==
  h = [version |-> h.version, min_compat_ver |-> h.min_compat_ver,
       flags |-> h.flags, payload_len |-> h.payload_len,
       hop_limit |-> h.hop_limit, next_header |-> h.next_header,
       src_addr |-> h.src_addr, dst_addr |-> h.dst_addr, ext_headers |-> h.ext_headers]

LEMMA ChainElements ==
  ASSUME NEW exts, LegalChain(exts)
  PROVE  /\ Len(exts) \in Nat /\ DOMAIN exts = 1..Len(exts) /\ exts = [i \in 1..Len(exts) |-> exts[i]]
         /\ \A i \in 1..Len(exts) :
              /\ exts[i] = ExtHeader(exts[i].ext_type, exts[i].units, exts[i].body)
              /\ exts[i].ext_type # 0 /\ exts[i].units \in 1..255
<1>1. exts \in Seq(Range(exts))
  BY DEF LegalChain
<1>2. Len(exts) \in Nat /\ DOMAIN exts = 1..Len(exts) /\ exts \in [1..Len(exts) -> Range(exts)]
  BY <1>1, LenProperties
<1>3. \A i \in 1..Len(exts) : exts[i] \in Range(exts)
  BY <1>2
<1>. QED BY <1>2, <1>3 DEF LegalChain, LegalExt

LEMMA EncodeGives ==
  ASSUME NEW h, NEW payload, EncodeFault(h, payload) = "none"
  PROVE  /\ Encode(h, payload) = Ok(WireOf(h, payload))
         /\ Encode(h, payload).ok /\ Encode(h, payload).val = WireOf(h, payload)
<1>1. Encode(h, payload) = Ok(WireOf(h, payload))
  BY DEF Encode, WireOf
<1>. QED BY <1>1 DEF Ok

LEMMA EncodedIsSound ==
  ASSUME NEW h, NEW payload, EncodeFault(h, payload) = "none"
  PROVE  /\ Len(payload) = h.payload_len /\ h.next_header = FirstType(h.ext_headers)
  BY DEF EncodeFault

LEMMA EncodeFails ==
  ASSUME NEW h, NEW payload, Encode(h, payload).ok
  PROVE  EncodeFault(h, payload) = "none"
  BY DEF Encode, Err

\* decode inverts encode: what decode accepts of a packet encode wrote is the header
\* and the payload that went in.
LEMMA DecodeInverts ==
  ASSUME NEW h, NEW V, NEW payload \in Seq(V), IsHeader(h), LegalChain(h.ext_headers),
         EncodeFault(h, payload) = "none", NEW w, w = Encode(h, payload).val,
         DecodeFault(w) = "none"
  PROVE  Decode(w).val = [header |-> h, payload |-> payload]
<1>. DEFINE exts == h.ext_headers
            L == Len(exts)
<1>1. /\ L \in Nat /\ DOMAIN exts = 1..L /\ exts = [i \in 1..L |-> exts[i]]
      /\ \A i \in 1..L : exts[i] = ExtHeader(exts[i].ext_type, exts[i].units, exts[i].body)
                         /\ exts[i].ext_type # 0
  BY ChainElements
<1>2. w = WireOf(h, payload)
  BY EncodeGives
<1>3. /\ w.version = h.version /\ w.min_compat_ver = h.min_compat_ver /\ w.flags = h.flags
      /\ w.payload_len = h.payload_len /\ w.hop_limit = h.hop_limit /\ w.next_header = h.next_header
      /\ w.src_addr = h.src_addr /\ w.dst_addr = h.dst_addr /\ w.exts = WireExts(exts)
      /\ w.tail = payload
  BY <1>2 DEF WireOf
<1>4. h.next_header = FirstType(exts) /\ Len(payload) = h.payload_len
  BY EncodedIsSound
<1>. HIDE DEF exts, L
<1>5. DOMAIN w.exts = 1..L
  BY <1>1, <1>3 DEF WireExts
<1>6. ASSUME NEW i \in 1..L
      PROVE  /\ w.exts[i].next = (IF i < L THEN exts[i + 1].ext_type ELSE 0)
             /\ w.exts[i].units = exts[i].units /\ w.exts[i].body = exts[i].body
  <2>1. w.exts[i] = [next |-> IF i < Len(exts) THEN exts[i + 1].ext_type ELSE 0,
                     units |-> exts[i].units, body |-> exts[i].body]
    BY <1>1, <1>3 DEF WireExts
  <2>. QED BY <2>1 DEF L
<1>7. ASSUME NEW i \in 1..L
      PROVE  TypeAt(w, i) = exts[i].ext_type
  <2>1. CASE i = 1
    <3>1. exts # <<>>
      BY <1>1
    <3>. QED BY <2>1, <3>1, <1>3, <1>4 DEF TypeAt, FirstType
  <2>2. CASE i # 1
    <3>1. i - 1 \in 1..L /\ i - 1 < L
      BY <1>1, <2>2
    <3>2. w.exts[i - 1].next = exts[(i - 1) + 1].ext_type
      BY <3>1, <1>6
    <3>3. (i - 1) + 1 = i
      OBVIOUS
    <3>. QED BY <2>2, <3>2, <3>3 DEF TypeAt
  <2>. QED BY <2>1, <2>2
<1>8. Chain(w) = 1..L
  <2>1. CASE w.next_header = 0
    <3>1. L = 0
      BY <2>1, <1>1, <1>3, <1>4 DEF FirstType, L
    <3>. QED BY <2>1, <3>1 DEF Chain
  <2>2. CASE w.next_header # 0
    <3>1. \A i \in 1..L : \A j \in 1..(i - 1) : w.exts[j].next # 0
      <4>1. ASSUME NEW i \in 1..L, NEW j \in 1..(i - 1)
            PROVE  w.exts[j].next # 0
        <5>1. j \in 1..L /\ j < L /\ j + 1 \in 1..L
          BY <1>1
        <5>. QED BY <5>1, <1>1, <1>6
      <4>. QED BY <4>1
    <3>. QED BY <2>2, <3>1, <1>5 DEF Chain
  <2>. QED BY <2>1, <2>2
<1>9. Cardinality(Chain(w)) = L
  <2>1. Cardinality(1..L) = L
    BY <1>1, FS_Interval
  <2>. QED BY <2>1, <1>8
<1>10. [i \in 1..Cardinality(Chain(w)) |-> ExtHeader(TypeAt(w, i), w.exts[i].units, w.exts[i].body)]
       = exts
  <2>1. \A i \in 1..L : ExtHeader(TypeAt(w, i), w.exts[i].units, w.exts[i].body) = exts[i]
    BY <1>1, <1>6, <1>7
  <2>. QED BY <2>1, <1>1, <1>9
<1>11. SubSeq(w.tail, 1, w.payload_len) = payload
  <2>1. SubSeq(payload, 1, Len(payload)) = payload
    BY SubSeqFull
  <2>. QED BY <2>1, <1>3, <1>4
<1>12. Decode(w).val = [header |->
             [version |-> w.version, min_compat_ver |-> w.min_compat_ver,
              flags |-> w.flags, payload_len |-> w.payload_len,
              hop_limit |-> w.hop_limit, next_header |-> w.next_header,
              src_addr |-> w.src_addr, dst_addr |-> w.dst_addr, ext_headers |-> exts],
           payload |-> payload]
  BY <1>10, <1>11 DEF Decode, Ok
<1>. QED BY <1>12, <1>3 DEF IsHeader, exts

LEMMA TimesGrows ==
  ASSUME NEW i \in Nat, NEW j \in Nat, NEW c \in Nat, i < j
  PROVE  i * c \in Nat /\ j * c \in Nat /\ i * c + c <= j * c
<1>1. i * c \in Nat /\ j * c \in Nat /\ (i + 1) * c = i * c + c
  OBVIOUS
<1>2. PICK d \in Nat : j = (i + 1) + d
  <2>1. j - (i + 1) \in Nat /\ j = (i + 1) + (j - (i + 1))
    OBVIOUS
  <2>. QED BY <2>1
<1>3. j * c = (i + 1) * c + d * c /\ d * c \in Nat
  BY <1>2
<1>. QED BY <1>1, <1>3

LEMMA RoundedUp ==
  ASSUME NEW len \in Nat, NEW c \in Nat \ {0}, NEW m, m = (len + c - 1) \div c
  PROVE  m \in Nat /\ len <= m * c /\ (m # 0 => (m - 1) * c < len)
<1>1. len + c - 1 \in Nat
  OBVIOUS
<1>2. m \in Int /\ c * m <= len + c - 1 /\ len + c - 1 < c * m + c
  BY <1>1
<1>3. m >= 0
  <2>. SUFFICES ASSUME m < 0 PROVE FALSE
    BY <1>2
  <2>1. c * m + c <= 0
    <3>1. PICK d \in Nat : m = -1 - d
      <4>1. -1 - m \in Nat /\ m = -1 - (-1 - m)
        BY <1>2
      <4>. QED BY <4>1
    <3>2. c * m = -c - c * d /\ c * d \in Nat
      BY <3>1
    <3>. QED BY <3>2
  <2>. QED BY <2>1, <1>1, <1>2
<1>4. m * c = c * m /\ (m - 1) * c = c * m - c /\ c * m \in Int
  BY <1>2
<1>. QED BY <1>2, <1>3, <1>4

\* The chain's length on the wire is a number (the loop of ext_total).
LEMMA TotalIsNat ==
  ASSUME NEW exts, LegalChain(exts)
  PROVE  ExtTotal(exts) \in Nat
<1>. DEFINE L == Len(exts)
            W(i) == IF i \in 1..L THEN WireSize(exts[i]) ELSE 0
            S == Nat \X Nat
            a == <<0, 0>>
            g == [s \in S |-> <<s[1] + 1, s[2] + W(s[1] + 1)>>]
            next(f) == [n \in 0..L |-> IF n = 0 THEN 0 ELSE f[n - 1] + WireSize(exts[n])]
            sum == CHOOSE f : f = next(f)
<1>1. /\ L \in Nat
      /\ \A i \in 1..L : WireSize(exts[i]) \in Nat
  <2>1. L \in Nat /\ \A i \in 1..L : exts[i].units \in 1..255
    BY ChainElements
  <2>2. \A e : e.units \in 1..255 => WireSize(e) \in Nat
    BY DEF WireSize
  <2>. QED BY <2>1, <2>2
<1>2. g \in [S -> S] /\ a \in S
  <2>1. \A i \in Nat : W(i) \in Nat
    BY <1>1
  <2>. HIDE DEF W
  <2>2. \A s \in S : <<s[1] + 1, s[2] + W(s[1] + 1)>> \in S
    BY <2>1
  <2>. QED BY <2>2
<1>3. PICK f \in [Nat -> S] : f[0] = a /\ \A n \in Nat : f[n + 1] = g[f[n]]
  <2>. HIDE DEF a, g, S
  <2>. QED BY <1>2, IterationExists
<1>4. \A n \in Nat : f[n][1] = n
  <2>. DEFINE T == {n \in Nat : f[n][1] = n}
  <2>. HIDE DEF W
  <2>1. 0 \in T
    BY <1>3
  <2>2. ASSUME NEW n \in Nat, n \in T PROVE n + 1 \in T
    <3>1. f[n] \in S /\ f[n + 1] = <<f[n][1] + 1, f[n][2] + W(f[n][1] + 1)>>
      BY <1>3
    <3>. QED BY <3>1, <2>2
  <2>. HIDE DEF T
  <2>3. Nat \subseteq T
    BY <2>1, <2>2, NatSetInduction
  <2>. QED BY <2>3 DEF T
<1>5. \E h : h = next(h)
  <2>. DEFINE h == [n \in 0..L |-> f[n][2]]
  <2>1. ASSUME NEW n \in 0..L
        PROVE  h[n] = IF n = 0 THEN 0 ELSE h[n - 1] + WireSize(exts[n])
    <3>1. CASE n = 0
      BY <3>1, <1>3
    <3>2. CASE n # 0
      <4>1. n - 1 \in Nat /\ n - 1 \in 0..L /\ n \in 1..L /\ (n - 1) + 1 = n
        BY <3>2, <1>1
      <4>2. f[n] = <<f[n - 1][1] + 1, f[n - 1][2] + W(f[n - 1][1] + 1)>>
        <5>. HIDE DEF W
        <5>1. f[n - 1] \in S /\ f[(n - 1) + 1] = g[f[n - 1]]
          BY <4>1, <1>3
        <5>. QED BY <5>1, <4>1
      <4>3. f[n][2] = f[n - 1][2] + W(n)
        <5>. HIDE DEF W
        <5>. QED BY <4>1, <4>2, <1>4
      <4>4. W(n) = WireSize(exts[n])
        BY <4>1
      <4>. QED BY <3>2, <4>1, <4>3, <4>4
    <3>. QED BY <3>1, <3>2
  <2>2. h = next(h)
    BY <2>1
  <2>. QED BY <2>2
<1>6. sum = next(sum)
  <2>. HIDE DEF next
  <2>. QED BY <1>5
<1>7. \A n \in 0..L : sum[n] = IF n = 0 THEN 0 ELSE sum[n - 1] + WireSize(exts[n])
  <2>. HIDE DEF sum
  <2>1. sum = [n \in 0..L |-> IF n = 0 THEN 0 ELSE sum[n - 1] + WireSize(exts[n])]
    BY <1>6
  <2>. QED BY <2>1
<1>8. \A n \in Nat : n <= L => sum[n] \in Nat
  <2>. DEFINE T == {n \in Nat : n <= L => sum[n] \in Nat}
  <2>. HIDE DEF sum, L
  <2>1. 0 \in T
    <3>1. 0 \in 0..L
      BY <1>1
    <3>. QED BY <3>1, <1>7
  <2>2. ASSUME NEW n \in Nat, n \in T PROVE n + 1 \in T
    <3>. SUFFICES ASSUME n + 1 <= L PROVE sum[n + 1] \in Nat
      OBVIOUS
    <3>1. n + 1 \in 0..L /\ n + 1 \in 1..L /\ (n + 1) - 1 = n /\ n + 1 # 0 /\ sum[n] \in Nat
      BY <1>1, <2>2
    <3>2. sum[n + 1] = sum[n] + WireSize(exts[n + 1])
      BY <3>1, <1>7
    <3>. QED BY <3>1, <3>2, <1>1
  <2>. HIDE DEF T
  <2>3. Nat \subseteq T
    BY <2>1, <2>2, NatSetInduction
  <2>. QED BY <2>3 DEF T
<1>9. ExtTotal(exts) = sum[L]
  BY DEF ExtTotal
<1>. HIDE DEF sum, L
<1>. QED BY <1>1, <1>8, <1>9

-----------------------------------------------------------------------------
(* Where the pieces of a packet lie: piece k starts at Start(p, k) and ends at *)
(* Reach(p, k).                                                               *)

Chunk(p) == ChunkOf(Mtu, p.exts)
Pieces(p) == (p.len + Chunk(p) - 1) \div Chunk(p)
Start(p, k) == (k - 1) * Chunk(p)
Reach(p, r) == IF r = Pieces(p) THEN p.len ELSE r * Chunk(p)
Cut(p) == p \in FragPackets /\ Chunk(p) >= 8

LEMMA ChunkByEight ==
  ASSUME NEW p, Cut(p)
  PROVE  \E q \in Nat \ {0} : Chunk(p) = q * 8
<1>1. LegalChain(p.exts)
  BY PacketAssumption DEF Cut, LegalChain
<1>2. ExtTotal(p.exts) \in Nat
  BY <1>1, TotalIsNat
<1>. DEFINE over == BaseHeaderSize + FragExtWire + ExtTotal(p.exts)
<1>3. over \in Nat /\ Mtu \in Nat
  BY <1>2, PacketAssumption DEF BaseHeaderSize, FragExtWire
<1>4. Chunk(p) = IF Mtu < over THEN 0 ELSE ((Mtu - over) \div 8) * 8
  BY DEF Chunk, ChunkOf
<1>. HIDE DEF over
<1>5. ~(Mtu < over)
  BY <1>4 DEF Cut
<1>6. Chunk(p) = ((Mtu - over) \div 8) * 8 /\ Mtu - over \in Nat
  BY <1>3, <1>4, <1>5
<1>7. (Mtu - over) \div 8 \in Int
  BY <1>6
<1>8. (Mtu - over) \div 8 \in Nat \ {0}
  BY <1>6, <1>7 DEF Cut
<1>. QED BY <1>6, <1>8

LEMMA PacketLengths ==
  ASSUME NEW p \in FragPackets
  PROVE  p.len \in Nat /\ p.len <= MaxPayloadLen /\ MaxPayloadLen \in Nat
<1>1. p.len \in Nat /\ EncodeFault(PacketHeader(Receiver, p), Octets(p, 0)) = "none"
  BY PacketAssumption
<1>2. PacketHeader(Receiver, p).payload_len <= MaxPayloadLen
  <2>1. PacketHeader(Receiver, p).payload_len = p.len
    BY DEF PacketHeader, AttachExtHeaders, NewHeader
  <2>2. ~(PacketHeader(Receiver, p).payload_len > MaxPayloadLen)
    BY <1>1 DEF EncodeFault
  <2>. QED BY <1>1, <2>1, <2>2, CodecAssumption
<1>3. PacketHeader(Receiver, p).payload_len = p.len
  BY DEF PacketHeader, AttachExtHeaders, NewHeader
<1>. QED BY <1>1, <1>2, <1>3, CodecAssumption

LEMMA PiecesLie ==
  ASSUME NEW p, Cut(p)
  PROVE  /\ Chunk(p) \in Nat \ {0} /\ p.len \in Nat /\ Pieces(p) \in Nat
         /\ \A k \in 1..Pieces(p) :
              /\ Start(p, k) \in Nat /\ Start(p, k) < p.len
              /\ Reach(p, k) \in Nat /\ Reach(p, k) <= p.len /\ Start(p, k) < Reach(p, k)
              /\ Reach(p, k) - Start(p, k) <= Chunk(p)
              /\ Start(p, k) = Reach(p, k - 1)
              /\ k # Pieces(p) => Reach(p, k) = Start(p, k) + Chunk(p) /\ Reach(p, k) < p.len
         /\ \A j, k \in 1..Pieces(p) : j < k => Start(p, j) < Start(p, k)
<1>. DEFINE c == Chunk(p)
            m == Pieces(p)
<1>1. PICK q \in Nat \ {0} : c = q * 8
  BY ChunkByEight
<1>2. c \in Nat \ {0} /\ p.len \in Nat
  BY <1>1, PacketLengths DEF Cut
<1>3. m \in Nat /\ p.len <= m * c /\ (m # 0 => (m - 1) * c < p.len)
  <2>1. m = (p.len + c - 1) \div c
    BY DEF Pieces
  <2>. HIDE DEF c, m
  <2>. QED BY <1>2, <2>1, RoundedUp
<1>. HIDE DEF c, m
<1>4. ASSUME NEW k \in 1..m
      PROVE  /\ (k - 1) * c \in Nat /\ (k - 1) * c < p.len /\ k * c = (k - 1) * c + c
             /\ k # m => k * c < p.len
  <2>1. (k - 1) * c \in Nat /\ k * c = (k - 1) * c + c /\ k - 1 \in Nat /\ m - 1 \in Nat /\ m # 0
    BY <1>2, <1>3
  <2>2. CASE k = m
    BY <2>1, <2>2, <1>3
  <2>3. CASE k # m
    <3>1. k - 1 < m - 1
      BY <2>3, <1>3
    <3>2. (k - 1) * c + c <= (m - 1) * c /\ (m - 1) * c \in Nat
      BY <3>1, <2>1, <1>2, TimesGrows
    <3>. QED BY <3>2, <2>1, <1>2, <1>3
  <2>. QED BY <2>2, <2>3
<1>5. ASSUME NEW k \in 1..m
      PROVE  /\ Start(p, k) \in Nat /\ Start(p, k) < p.len
             /\ Reach(p, k) \in Nat /\ Reach(p, k) <= p.len /\ Start(p, k) < Reach(p, k)
             /\ Reach(p, k) - Start(p, k) <= c
             /\ Start(p, k) = Reach(p, k - 1)
             /\ k # m => Reach(p, k) = Start(p, k) + c /\ Reach(p, k) < p.len
  <2>1. Start(p, k) = (k - 1) * c /\ Reach(p, k) = (IF k = m THEN p.len ELSE k * c)
    BY DEF Start, Reach, c, m
  <2>2. Reach(p, k - 1) = (k - 1) * c
    <3>1. k - 1 # m
      BY <1>3
    <3>. QED BY <3>1 DEF Reach, c, m
  <2>3. CASE k = m
    <3>1. p.len <= (k - 1) * c + c
      BY <2>3, <1>3, <1>4
    <3>. QED BY <3>1, <2>1, <2>2, <2>3, <1>2, <1>4
  <2>4. CASE k # m
    BY <2>1, <2>2, <2>4, <1>2, <1>4
  <2>. QED BY <2>3, <2>4
<1>6. ASSUME NEW j \in 1..m, NEW k \in 1..m, j < k
      PROVE  Start(p, j) < Start(p, k)
  <2>1. j - 1 \in Nat /\ k - 1 \in Nat /\ j - 1 < k - 1
    BY <1>3, <1>6
  <2>2. (j - 1) * c + c <= (k - 1) * c /\ (j - 1) * c \in Nat /\ (k - 1) * c \in Nat
    BY <2>1, <1>2, TimesGrows
  <2>3. Start(p, j) = (j - 1) * c /\ Start(p, k) = (k - 1) * c
    BY DEF Start, c
  <2>. QED BY <2>2, <2>3, <1>2
<1>. QED BY <1>2, <1>3, <1>5, <1>6 DEF c, m

\* The offset field holds any offset of a payload that 16 bits can measure.
LEMMA OffsetsFit ==
  ASSUME NEW p, Cut(p), NEW k \in 1..Pieces(p)
  PROVE  /\ ((Start(p, k) \div 8) % OffsetRange) * 8 = Start(p, k)
         /\ k # Pieces(p) => (Reach(p, k) - Start(p, k)) % 8 = 0
<1>1. PICK q \in Nat \ {0} : Chunk(p) = q * 8
  BY ChunkByEight
<1>2. /\ Start(p, k) \in Nat /\ Start(p, k) < 65536
      /\ k # Pieces(p) => Reach(p, k) = Start(p, k) + Chunk(p)
  <2>1. /\ Start(p, k) \in Nat /\ Start(p, k) < p.len
        /\ k # Pieces(p) => Reach(p, k) = Start(p, k) + Chunk(p)
    BY PiecesLie
  <2>2. p.len \in Nat /\ p.len < 65536
    BY PacketLengths, PacketAssumption DEF Cut
  <2>. QED BY <2>1, <2>2
<1>3. PICK r \in Nat : Start(p, k) = r * 8
  <2>1. (k - 1) * q \in Nat /\ (k - 1) * (q * 8) = ((k - 1) * q) * 8
    BY PiecesLie
  <2>. QED BY <2>1, <1>1 DEF Start
<1>4. Start(p, k) \div 8 = r /\ r < 8192
  BY <1>2, <1>3
<1>5. r % 8192 = r
  BY <1>4
<1>6. k # Pieces(p) => (Reach(p, k) - Start(p, k)) % 8 = 0
  BY <1>1, <1>2
<1>. QED BY <1>3, <1>4, <1>5, <1>6 DEF OffsetRange

-----------------------------------------------------------------------------
(* What is sent, and the pieces it is sent in. *)

FragExt(p, id, k) == FragmentExt(id, Start(p, k) \div 8, k # Pieces(p))
PieceChain(p, id, k) == IF k = 1 THEN <<FragExt(p, id, k)>> \o p.exts ELSE <<FragExt(p, id, k)>>
Piece(p, n, k) == SubSeq(Octets(p, n), Start(p, k) + 1, Reach(p, k))

PieceHeader(s, p, id, k) ==
  [version |-> Version, min_compat_ver |-> 0, flags |-> {"HAS_EXTENSION", "FRAGMENT"},
   payload_len |-> Reach(p, k) - Start(p, k), hop_limit |-> 64, next_header |-> FragmentType,
   src_addr |-> s, dst_addr |-> Receiver, ext_headers |-> PieceChain(p, id, k)]

PieceWire(s, p, n, id, k) == Encode(PieceHeader(s, p, id, k), Piece(p, n, k)).val

LEMMA OctetsInOrder ==
  ASSUME NEW p \in FragPackets, NEW n \in Nat
  PROVE  /\ Octets(p, n) \in Seq(Nat) /\ Len(Octets(p, n)) = p.len
         /\ \A i \in 1..p.len : Octets(p, n)[i] = 100 * n + i
<1>1. p.len \in Nat
  BY PacketLengths
<1>. QED BY <1>1 DEF Octets

HeaderOf(l, s, d, f, n, e) ==
  [version |-> Version, min_compat_ver |-> 0, flags |-> f, payload_len |-> l, hop_limit |-> 64,
   next_header |-> n, src_addr |-> s, dst_addr |-> d, ext_headers |-> e]

\* attach_ext_headers sets three fields and leaves the others.
LEMMA ChainAttached ==
  ASSUME NEW l, NEW s, NEW d, NEW f, NEW n, NEW e, NEW e2, e2 # <<>>
  PROVE  AttachExtHeaders(HeaderOf(l, s, d, f, n, e), e2)
         = HeaderOf(l, s, d, f \cup {"HAS_EXTENSION"}, FirstType(e2), e2)
<1>. DEFINE h == HeaderOf(l, s, d, f, n, e)
            n2 == FirstType(e2)
            f2 == f \cup {"HAS_EXTENSION"}
            a == [h EXCEPT !.next_header = n2]
            b == [a EXCEPT !.flags = f2]
<1>. HIDE DEF n2, f2
<1>1. a = HeaderOf(l, s, d, f, n2, e)
  BY DEF HeaderOf
<1>. HIDE DEF a
<1>2. b = HeaderOf(l, s, d, f2, n2, e)
  BY <1>1 DEF HeaderOf
<1>. HIDE DEF b
<1>3. [b EXCEPT !.ext_headers = e2] = HeaderOf(l, s, d, f2, n2, e2)
  BY <1>2 DEF HeaderOf
<1>4. [b EXCEPT !.ext_headers = e2] = [h EXCEPT !.next_header = n2, !.flags = f2, !.ext_headers = e2]
  BY DEF a, b
<1>. USE DEF f2
<1>5. h.flags = f
  BY DEF HeaderOf
<1>6. AttachExtHeaders(h, e2) = [h EXCEPT !.next_header = n2, !.flags = f2, !.ext_headers = e2]
  <2>. HIDE DEF h
  <2>. QED BY <1>5 DEF AttachExtHeaders, n2
<1>. QED BY <1>3, <1>4, <1>6 DEF n2

\* Addresses, hop limit and content are nothing to the checks of encode.
LEMMA FaultsAgree ==
  ASSUME NEW g, NEW h, NEW o, NEW q, Len(o) = Len(q),
         h.payload_len = g.payload_len, h.version = g.version,
         h.min_compat_ver = g.min_compat_ver, h.flags = g.flags,
         h.ext_headers = g.ext_headers, h.next_header = g.next_header
  PROVE  EncodeFault(h, o) = EncodeFault(g, q)
  BY DEF EncodeFault

LEMMA PacketEncoded ==
  ASSUME NEW s, NEW p \in FragPackets, NEW n \in Nat
  PROVE  /\ EncodeFault(PacketHeader(s, p), Octets(p, n)) = "none"
         /\ PacketHeader(s, p) =
              [version |-> Version, min_compat_ver |-> 0,
               flags |-> IF p.exts = <<>> THEN {} ELSE {"HAS_EXTENSION"}, payload_len |-> p.len,
               hop_limit |-> 64, next_header |-> FirstType(p.exts), src_addr |-> s,
               dst_addr |-> Receiver, ext_headers |-> p.exts]
         /\ LegalChain(p.exts)
<1>. DEFINE H(a) == [version |-> Version, min_compat_ver |-> 0,
               flags |-> IF p.exts = <<>> THEN {} ELSE {"HAS_EXTENSION"}, payload_len |-> p.len,
               hop_limit |-> 64, next_header |-> FirstType(p.exts), src_addr |-> a,
               dst_addr |-> Receiver, ext_headers |-> p.exts]
<1>1. ASSUME NEW a PROVE PacketHeader(a, p) = H(a)
  <2>. DEFINE h == NewHeader(a, Receiver, p.len)
  <2>1. h = [version |-> Version, min_compat_ver |-> 0, flags |-> {}, payload_len |-> p.len,
             hop_limit |-> 64, next_header |-> 0, src_addr |-> a, dst_addr |-> Receiver,
             ext_headers |-> <<>>]
    BY DEF NewHeader
  <2>2. PacketHeader(a, p) = [h EXCEPT !.next_header = FirstType(p.exts),
            !.flags = IF p.exts = <<>> THEN @ \ {"HAS_EXTENSION"} ELSE @ \cup {"HAS_EXTENSION"},
            !.ext_headers = p.exts]
    BY DEF PacketHeader, AttachExtHeaders
  <2>3. /\ h.flags \ {"HAS_EXTENSION"} = {}
        /\ h.flags \cup {"HAS_EXTENSION"} = {"HAS_EXTENSION"}
    BY <2>1
  <2>. HIDE DEF h
  <2>. QED BY <2>1, <2>2, <2>3
<1>2. PacketHeader(Receiver, p) = H(Receiver) /\ PacketHeader(s, p) = H(s)
  BY <1>1
<1>3. EncodeFault(PacketHeader(Receiver, p), Octets(p, 0)) = "none"
  BY PacketAssumption
<1>4. Len(Octets(p, n)) = Len(Octets(p, 0))
  <2>1. Len(Octets(p, n)) = p.len
    BY OctetsInOrder
  <2>2. 0 \in Nat
    OBVIOUS
  <2>3. Len(Octets(p, 0)) = p.len
    BY <2>2, OctetsInOrder
  <2>. QED BY <2>1, <2>3
<1>5. EncodeFault(PacketHeader(s, p), Octets(p, n)) = EncodeFault(PacketHeader(Receiver, p), Octets(p, 0))
  <2>. DEFINE h == PacketHeader(s, p)
              g == PacketHeader(Receiver, p)
  <2>1. /\ h.payload_len = g.payload_len /\ h.version = g.version
        /\ h.min_compat_ver = g.min_compat_ver /\ h.flags = g.flags
        /\ h.ext_headers = g.ext_headers /\ h.next_header = g.next_header
    BY <1>2
  <2>. HIDE DEF h, g
  <2>2. EncodeFault(h, Octets(p, n)) = EncodeFault(g, Octets(p, 0))
    BY <2>1, <1>4, FaultsAgree
  <2>. QED BY <2>2 DEF h, g
<1>6. LegalChain(p.exts)
  BY PacketAssumption DEF LegalChain
<1>. QED BY <1>2, <1>3, <1>5, <1>6

LEMMA PacketDecoded ==
  ASSUME NEW s, NEW p \in FragPackets, NEW n \in Nat, NEW w, w = BuildPacket(s, p, n)
  PROVE  /\ Encode(PacketHeader(s, p), Octets(p, n)) = Ok(w)
         /\ w.tail = Octets(p, n) /\ "FRAGMENT" \notin w.flags
         /\ DecodeFault(w) = "none" =>
              Decode(w).val = [header |-> PacketHeader(s, p), payload |-> Octets(p, n)]
<1>. DEFINE h == PacketHeader(s, p)
            o == Octets(p, n)
<1>1. /\ EncodeFault(h, o) = "none" /\ IsHeader(h) /\ LegalChain(h.ext_headers)
      /\ "FRAGMENT" \notin h.flags
  BY PacketEncoded DEF IsHeader
<1>2. o \in Seq(Nat) /\ w = Encode(h, o).val
  BY OctetsInOrder DEF BuildPacket
<1>. HIDE DEF h, o
<1>3. Encode(h, o) = Ok(WireOf(h, o)) /\ w = WireOf(h, o)
  BY <1>1, <1>2, EncodeGives
<1>4. w.tail = o /\ w.flags = h.flags
  BY <1>3 DEF WireOf
<1>5. DecodeFault(w) = "none" => Decode(w).val = [header |-> h, payload |-> o]
  BY <1>1, <1>2, DecodeInverts
<1>. QED BY <1>1, <1>3, <1>4, <1>5 DEF h, o

LEMMA PieceChainLegal ==
  ASSUME NEW p \in FragPackets, NEW id, NEW k
  PROVE  /\ LegalChain(PieceChain(p, id, k)) /\ PieceChain(p, id, k) # <<>>
         /\ PieceChain(p, id, k)[1] = FragExt(p, id, k)
         /\ Tail(PieceChain(p, id, k)) = (IF k = 1 THEN p.exts ELSE <<>>)
<1>. DEFINE f == FragExt(p, id, k)
            R == Range(p.exts)
<1>1. /\ f = [ext_type |-> 6, units |-> 1, body |-> f.body]
      /\ LegalExt(f) /\ f = ExtHeader(f.ext_type, f.units, f.body)
  BY DEF FragExt, FragmentExt, ExtHeader, FragmentType, LegalExt
<1>2. p.exts \in Seq(R) /\ \A e \in R : LegalExt(e) /\ e = ExtHeader(e.ext_type, e.units, e.body)
  BY PacketAssumption
<1>. HIDE DEF f, R
<1>3. ASSUME NEW c \in Seq({f} \cup R)
      PROVE  LegalChain(c)
  <2>1. c \in [1..Len(c) -> {f} \cup R] /\ Len(c) \in Nat
    BY LenProperties
  <2>2. Range(c) \subseteq {f} \cup R
    BY <2>1 DEF Range
  <2>3. c \in [1..Len(c) -> Range(c)]
    BY <2>1 DEF Range
  <2>4. c \in Seq(Range(c))
    BY <2>1, <2>3
  <2>. QED BY <2>2, <2>4, <1>1, <1>2 DEF LegalChain
<1>4. CASE k = 1
  <2>1. p.exts \in Seq({f} \cup R) /\ <<f>> \in Seq({f} \cup R)
    BY <1>2
  <2>2. PieceChain(p, id, k) = <<f>> \o p.exts
    BY <1>4 DEF PieceChain, f
  <2>. DEFINE c == <<f>> \o p.exts
  <2>3. /\ c \in Seq({f} \cup R) /\ Len(c) = 1 + Len(p.exts)
        /\ \A i \in 1..1 + Len(p.exts) : c[i] = IF i <= 1 THEN f ELSE p.exts[i - 1]
    BY <2>1, ConcatProperties
  <2>4. Len(p.exts) \in Nat
    BY <1>2
  <2>5. c # <<>> /\ c[1] = f
    BY <2>3, <2>4
  <2>6. Tail(c) = p.exts
    <3>1. Tail(c) \in Seq({f} \cup R) /\ Len(Tail(c)) = Len(p.exts)
      BY <2>3, <2>4, <2>5, HeadTailProperties
    <3>2. \A i \in 1..Len(p.exts) : Tail(c)[i] = c[i + 1]
      BY <2>3, <2>4, <2>5, HeadTailProperties
    <3>3. \A i \in 1..Len(p.exts) : Tail(c)[i] = p.exts[i]
      BY <3>2, <2>3, <2>4
    <3>. QED BY <3>1, <3>3, <2>1, SeqEqual
  <2>. QED BY <2>2, <2>3, <2>5, <2>6, <1>3, <1>4 DEF f
<1>5. CASE k # 1
  <2>1. PieceChain(p, id, k) = <<f>> /\ <<f>> \in Seq({f} \cup R)
    BY <1>5 DEF PieceChain, f
  <2>2. Tail(<<f>>) = <<>> /\ <<f>> # <<>>
    OBVIOUS
  <2>3. LegalChain(<<f>>)
    BY <2>1, <1>3
  <2>4. <<f>>[1] = f
    OBVIOUS
  <2>5. PieceChain(p, id, k)[1] = f /\ Tail(PieceChain(p, id, k)) = <<>> /\ PieceChain(p, id, k) # <<>>
    BY <2>1, <2>2, <2>4
  <2>. QED BY <2>1, <2>3, <2>5, <1>5 DEF f
<1>. QED BY <1>4, <1>5

LEMMA PieceLength ==
  ASSUME NEW p, Cut(p), NEW n \in Nat, NEW k \in 1..Pieces(p)
  PROVE  /\ Piece(p, n, k) \in Seq(Nat) /\ Len(Piece(p, n, k)) = Reach(p, k) - Start(p, k)
         /\ \A i \in 1..Reach(p, k) - Start(p, k) : Piece(p, n, k)[i] = 100 * n + (Start(p, k) + i)
<1>1. /\ Start(p, k) \in Nat /\ Reach(p, k) \in Nat /\ p.len \in Nat
      /\ Start(p, k) < Reach(p, k) /\ Reach(p, k) <= p.len
  BY PiecesLie
<1>2. /\ Octets(p, n) \in Seq(Nat) /\ Len(Octets(p, n)) = p.len
      /\ \A i \in 1..p.len : Octets(p, n)[i] = 100 * n + i
  BY OctetsInOrder DEF Cut
<1>. DEFINE a == Start(p, k)
            b == Reach(p, k)
            o == Octets(p, n)
<1>. HIDE DEF a, b, o
<1>3. \A i \in (a + 1) .. b : o[i] \in Nat
  BY <1>1, <1>2 DEF a, b, o
<1>4. /\ SubSeq(o, a + 1, b) \in Seq(Nat) /\ Len(SubSeq(o, a + 1, b)) = b - (a + 1) + 1
      /\ \A i \in 1..b - (a + 1) + 1 : SubSeq(o, a + 1, b)[i] = o[(a + 1) + i - 1]
  BY <1>1, <1>3, SubSeqProperties DEF a, b
<1>5. b - (a + 1) + 1 = b - a
  BY <1>1 DEF a, b
<1>6. \A i \in 1..b - a : (a + 1) + i - 1 = a + i /\ a + i \in 1..p.len
  BY <1>1 DEF a, b
<1>7. \A i \in 1..b - a : SubSeq(o, a + 1, b)[i] = 100 * n + (a + i)
  BY <1>4, <1>5, <1>6, <1>2 DEF o
<1>. QED BY <1>4, <1>5, <1>7 DEF Piece, a, b, o

ShowsPiece(w, p, n, id, k) ==
  w.exts[1].body = FragExt(p, id, k).body /\ w.tail = Piece(p, n, k)

LEMMA PieceDecoded ==
  ASSUME NEW s, NEW p, Cut(p), NEW n \in Nat, NEW id, NEW k \in 1..Pieces(p),
         EncodeFault(PieceHeader(s, p, id, k), Piece(p, n, k)) = "none"
  PROVE  /\ ShowsPiece(PieceWire(s, p, n, id, k), p, n, id, k)
         /\ DecodeFault(PieceWire(s, p, n, id, k)) = "none" =>
              Decode(PieceWire(s, p, n, id, k)).val =
                [header |-> PieceHeader(s, p, id, k), payload |-> Piece(p, n, k)]
<1>. DEFINE h == PieceHeader(s, p, id, k)
            o == Piece(p, n, k)
            w == PieceWire(s, p, n, id, k)
            c == PieceChain(p, id, k)
<1>1. IsHeader(h) /\ h.ext_headers = c
  BY DEF IsHeader, PieceHeader
<1>2. LegalChain(c) /\ c # <<>> /\ c[1] = FragExt(p, id, k)
  BY PieceChainLegal DEF Cut
<1>3. o \in Seq(Nat)
  BY PieceLength
<1>4. w = Encode(h, o).val
  BY DEF PieceWire
<1>. HIDE DEF h, o, w, c
<1>5. w = WireOf(h, o)
  BY <1>4, EncodeGives DEF h, o
<1>6. DecodeFault(w) = "none" => Decode(w).val = [header |-> h, payload |-> o]
  BY <1>1, <1>2, <1>3, <1>4, DecodeInverts DEF h, o
<1>7. w.tail = o /\ w.exts = WireExts(c)
  BY <1>1, <1>5 DEF WireOf
<1>8. w.exts[1].body = c[1].body
  <2>1. 1 \in DOMAIN c
    BY <1>2, ChainElements
  <2>. QED BY <2>1, <1>7 DEF WireExts
<1>9. ShowsPiece(w, p, n, id, k)
  BY <1>2, <1>7, <1>8 DEF ShowsPiece, o
<1>. QED BY <1>6, <1>9 DEF h, o, w

LEMMA FragmentIsPiece ==
  ASSUME NEW s, NEW p, Cut(p), NEW n \in Nat, NEW id, NEW k \in 1..Pieces(p),
         NEW d, d = [header |-> PacketHeader(s, p), payload |-> Octets(p, n)]
  PROVE  FragmentAt(d, Chunk(p), id, (k - 1) * Chunk(p)) =
           Encode(PieceHeader(s, p, id, k), Piece(p, n, k))
<1>. DEFINE pos == Start(p, k)
            c == Chunk(p)
            take == Reach(p, k) - pos
            frag == FragExt(p, id, k)
            h == [d.header EXCEPT !.flags = @ \ {"HAS_EXTENSION", "FRAGMENT"}, !.payload_len = take]
            whole == AttachExtHeaders(h, PieceChain(p, id, k))
<1>1. /\ c \in Nat \ {0} /\ p.len \in Nat /\ Pieces(p) \in Nat
      /\ pos \in Nat /\ pos < p.len /\ Reach(p, k) \in Nat /\ Reach(p, k) <= p.len /\ pos < Reach(p, k)
      /\ take <= c /\ (k # Pieces(p) => Reach(p, k) = pos + c /\ Reach(p, k) < p.len)
      /\ (k = Pieces(p) => Reach(p, k) = p.len)
  BY PiecesLie DEF Reach
<1>2. Len(d.payload) = p.len
  BY OctetsInOrder DEF Cut
<1>3. Min({c, p.len - pos}) = take
  <2>1. {c, p.len - pos} \in SUBSET Nat
    BY <1>1
  <2>2. Min({c, p.len - pos}) \in {c, p.len - pos} /\ \A x \in {c, p.len - pos} : Min({c, p.len - pos}) <= x
    BY <2>1, MinOfNats
  <2>3. take \in {c, p.len - pos} /\ take <= c /\ take <= p.len - pos
    BY <1>1
  <2>. HIDE DEF c, pos, take
  <2>4. Min({c, p.len - pos}) <= c /\ Min({c, p.len - pos}) <= p.len - pos
    BY <2>2
  <2>5. c \in Nat /\ p.len - pos \in Nat /\ take \in Nat
    BY <2>1, <2>3
  <2>. QED BY <2>2, <2>3, <2>4, <2>5
<1>4. pos + take = Reach(p, k) /\ (Reach(p, k) < p.len <=> k # Pieces(p))
  BY <1>1
<1>5. pos = 0 <=> k = 1
  <2>1. CASE k = 1
    BY <2>1, <1>1 DEF Start
  <2>2. CASE k # 1
    <3>1. 1 \in 1..Pieces(p) /\ 1 < k
      BY <2>2, <1>1
    <3>2. Start(p, 1) < pos /\ Start(p, 1) \in Nat
      BY <3>1, PiecesLie
    <3>. QED BY <2>2, <3>2, <1>1
  <2>. QED BY <2>1, <2>2
<1>6. d.header.ext_headers = p.exts
  BY PacketEncoded DEF Cut
<1>7. FragmentAt(d, c, id, pos) =
        Encode([whole EXCEPT !.flags = @ \cup {"FRAGMENT"}], SubSeq(d.payload, pos + 1, pos + take))
  <2>1. FragmentExt(id, pos \div 8, pos + take < Len(d.payload)) = frag
    <3>1. (pos + take < Len(d.payload)) = (k # Pieces(p))
      BY <1>2, <1>4
    <3>. QED BY <3>1 DEF FragExt
  <2>2. (IF pos = 0 THEN <<frag>> \o d.header.ext_headers ELSE <<frag>>) = PieceChain(p, id, k)
    BY <1>5, <1>6 DEF PieceChain
  <2>3. Min({c, Len(d.payload) - pos}) = take
    BY <1>2, <1>3
  <2>. HIDE DEF c, pos, take, frag
  <2>. QED BY <2>1, <2>2, <2>3 DEF FragmentAt
<1>8. [whole EXCEPT !.flags = @ \cup {"FRAGMENT"}] = PieceHeader(s, p, id, k)
  <2>. DEFINE chain == PieceChain(p, id, k)
              fl == IF p.exts = <<>> THEN {} ELSE {"HAS_EXTENSION"}
  <2>1. chain # <<>> /\ FirstType(chain) = FragmentType
    <3>1. chain # <<>> /\ chain[1] = frag
      BY PieceChainLegal DEF Cut
    <3>2. frag.ext_type = FragmentType
      BY DEF FragExt, FragmentExt, ExtHeader
    <3>. HIDE DEF chain, frag
    <3>. QED BY <3>1, <3>2 DEF FirstType
  <2>2. d.header = [version |-> Version, min_compat_ver |-> 0, flags |-> fl, payload_len |-> p.len,
               hop_limit |-> 64, next_header |-> FirstType(p.exts), src_addr |-> s,
               dst_addr |-> Receiver, ext_headers |-> p.exts]
    BY PacketEncoded DEF Cut
  <2>3. fl \ {"HAS_EXTENSION", "FRAGMENT"} = {}
    OBVIOUS
  <2>. HIDE DEF fl, chain, take
  <2>4. h = [version |-> Version, min_compat_ver |-> 0, flags |-> {}, payload_len |-> take,
             hop_limit |-> 64, next_header |-> FirstType(p.exts), src_addr |-> s,
             dst_addr |-> Receiver, ext_headers |-> p.exts]
    <3>. DEFINE x == d.header
    <3>1. x.flags \ {"HAS_EXTENSION", "FRAGMENT"} = {}
      BY <2>2, <2>3
    <3>2. [x EXCEPT !.flags = @ \ {"HAS_EXTENSION", "FRAGMENT"}, !.payload_len = take]
          = [x EXCEPT !.flags = {}, !.payload_len = take]
      BY <3>1
    <3>3. x = [version |-> Version, min_compat_ver |-> 0, flags |-> fl, payload_len |-> p.len,
               hop_limit |-> 64, next_header |-> FirstType(p.exts), src_addr |-> s,
               dst_addr |-> Receiver, ext_headers |-> p.exts]
      BY <2>2
    <3>4. h = [x EXCEPT !.flags = {}, !.payload_len = take]
      BY <3>2
    <3>. HIDE DEF x, h
    <3>. QED BY <3>3, <3>4
  <2>. HIDE DEF h
  <2>5. AttachExtHeaders(h, chain) =
          [version |-> Version, min_compat_ver |-> 0, flags |-> {"HAS_EXTENSION"}, payload_len |-> take,
           hop_limit |-> 64, next_header |-> FragmentType, src_addr |-> s,
           dst_addr |-> Receiver, ext_headers |-> chain]
    <3>1. h = HeaderOf(take, s, Receiver, {}, FirstType(p.exts), p.exts)
      BY <2>4 DEF HeaderOf
    <3>2. AttachExtHeaders(h, chain) =
            HeaderOf(take, s, Receiver, {} \cup {"HAS_EXTENSION"}, FirstType(chain), chain)
      BY <2>1, <3>1, ChainAttached
    <3>3. {} \cup {"HAS_EXTENSION"} = {"HAS_EXTENSION"}
      OBVIOUS
    <3>. QED BY <3>2, <3>3, <2>1 DEF HeaderOf
  <2>6. {"HAS_EXTENSION"} \cup {"FRAGMENT"} = {"HAS_EXTENSION", "FRAGMENT"}
    OBVIOUS
  <2>7. [AttachExtHeaders(h, chain) EXCEPT !.flags = @ \cup {"FRAGMENT"}] =
          [version |-> Version, min_compat_ver |-> 0, flags |-> {"HAS_EXTENSION", "FRAGMENT"}, payload_len |-> take,
           hop_limit |-> 64, next_header |-> FragmentType, src_addr |-> s,
           dst_addr |-> Receiver, ext_headers |-> chain]
    BY <2>5, <2>6
  <2>. QED BY <2>7 DEF PieceHeader, chain, take, h
<1>9. SubSeq(d.payload, pos + 1, pos + take) = Piece(p, n, k)
  BY <1>4 DEF Piece
<1>10. pos = (k - 1) * c
  BY DEF Start
<1>. HIDE DEF pos, c, whole, take
<1>. QED BY <1>7, <1>8, <1>9, <1>10 DEF c

Pieced(v, s, p, n, id) ==
  /\ Cut(p) /\ v = [k \in 1..Pieces(p) |-> PieceWire(s, p, n, id, k)]
  /\ \A k \in 1..Pieces(p) : EncodeFault(PieceHeader(s, p, id, k), Piece(p, n, k)) = "none"

LEMMA PacketCut ==
  ASSUME NEW s, NEW p \in FragPackets, NEW n \in Nat, NEW id, NEW w, w = BuildPacket(s, p, n),
         FragmentPacket(w, Mtu, id).ok
  PROVE  \/ FragmentPacket(w, Mtu, id).val = <<w>>
         \/ Pieced(FragmentPacket(w, Mtu, id).val, s, p, n, id)
<1>. DEFINE d == Decode(w).val
            fault == FragmentFault(w, Mtu)
            c == ChunkOf(Mtu, d.header.ext_headers)
            m == (Len(d.payload) + c - 1) \div c
            cut == [k \in 1..m |-> FragmentAt(d, c, id, (k - 1) * c)]
<1>1. FragmentPacket(w, Mtu, id) =
        CASE fault # "none" -> Err(fault)
          [] fault = "none" /\ w.size <= Mtu -> Ok(<<w>>)
          [] OTHER -> IF \E k \in 1..m : ~cut[k].ok THEN Err("NotAValidPacket")
                                                    ELSE Ok([k \in 1..m |-> cut[k].val])
  BY DEF FragmentPacket
<1>2. fault = "none"
  <2>. SUFFICES ASSUME fault # "none" PROVE FALSE
    OBVIOUS
  <2>. HIDE DEF fault, cut, m
  <2>1. FragmentPacket(w, Mtu, id) = Err(fault)
    BY <1>1
  <2>. QED BY <2>1 DEF Err
<1>3. DecodeFault(w) = "none"
  BY <1>2 DEF FragmentFault
<1>4. d = [header |-> PacketHeader(s, p), payload |-> Octets(p, n)] /\ d.header.ext_headers = p.exts
  BY <1>3, PacketDecoded, PacketEncoded
<1>5. c = Chunk(p) /\ m = Pieces(p)
  <2>1. c = Chunk(p)
    BY <1>4 DEF Chunk
  <2>2. Len(d.payload) = p.len
    BY <1>4, OctetsInOrder
  <2>. HIDE DEF c, d
  <2>. QED BY <2>1, <2>2 DEF Pieces
<1>6. CASE w.size <= Mtu
  <2>. HIDE DEF fault, cut, m
  <2>1. FragmentPacket(w, Mtu, id) = Ok(<<w>>)
    BY <1>1, <1>2, <1>6
  <2>. QED BY <2>1 DEF Ok
<1>7. CASE ~(w.size <= Mtu)
  <2>1. w.size > Mtu
    <3>1. LegalChain(p.exts) /\ w = WireOf(PacketHeader(s, p), Octets(p, n))
          /\ PacketHeader(s, p).ext_headers = p.exts
      BY PacketEncoded, EncodeGives DEF BuildPacket
    <3>2. ExtTotal(p.exts) \in Nat /\ Len(Octets(p, n)) \in Nat
      BY <3>1, TotalIsNat, OctetsInOrder, PacketLengths
    <3>3. w.size = BaseHeaderSize + ExtTotal(p.exts) + Len(Octets(p, n))
      BY <3>1 DEF WireOf
    <3>. QED BY <3>2, <3>3, <1>7, PacketAssumption DEF BaseHeaderSize
  <2>2. ~(ChunkOf(Mtu, d.header.ext_headers) < 8)
    BY <1>2, <2>1 DEF FragmentFault
  <2>3. Chunk(p) \in Int
    <3>1. ExtTotal(p.exts) \in Nat
      BY PacketEncoded, TotalIsNat
    <3>. DEFINE over == BaseHeaderSize + FragExtWire + ExtTotal(p.exts)
    <3>2. over \in Nat /\ Mtu \in Nat
      BY <3>1, PacketAssumption DEF BaseHeaderSize, FragExtWire
    <3>3. Chunk(p) = IF Mtu < over THEN 0 ELSE ((Mtu - over) \div 8) * 8
      BY DEF Chunk, ChunkOf
    <3>. HIDE DEF over
    <3>. QED BY <3>2, <3>3
  <2>4. Cut(p)
    <3>1. ~(Chunk(p) < 8)
      BY <2>2, <1>5
    <3>. QED BY <3>1, <2>3 DEF Cut
  <2>5. ASSUME NEW k \in 1..Pieces(p)
        PROVE  cut[k] = Encode(PieceHeader(s, p, id, k), Piece(p, n, k))
    <3>1. cut[k] = FragmentAt(d, Chunk(p), id, (k - 1) * Chunk(p))
      <4>. HIDE DEF d, c, m
      <4>. QED BY <1>5
    <3>. HIDE DEF cut
    <3>2. FragmentAt(d, Chunk(p), id, (k - 1) * Chunk(p)) = Encode(PieceHeader(s, p, id, k), Piece(p, n, k))
      BY <2>4, <1>4, FragmentIsPiece
    <3>. QED BY <3>1, <3>2
  <2>. HIDE DEF cut, m, fault
  <2>6. FragmentPacket(w, Mtu, id) =
          IF \E k \in 1..m : ~cut[k].ok THEN Err("NotAValidPacket") ELSE Ok([k \in 1..m |-> cut[k].val])
    BY <1>1, <1>2, <1>7
  <2>7. ~\E k \in 1..m : ~cut[k].ok
    BY <2>6 DEF Err
  <2>8. FragmentPacket(w, Mtu, id).val = [k \in 1..Pieces(p) |-> cut[k].val]
    BY <2>6, <2>7, <1>5 DEF Ok
  <2>9. \A k \in 1..Pieces(p) : EncodeFault(PieceHeader(s, p, id, k), Piece(p, n, k)) = "none"
    BY <2>5, <2>7, <1>5, EncodeFails
  <2>10. \A k \in 1..Pieces(p) : cut[k].val = PieceWire(s, p, n, id, k)
    BY <2>5 DEF PieceWire
  <2>. QED BY <2>4, <2>8, <2>9, <2>10 DEF Pieced
<1>. QED BY <1>6, <1>7

-----------------------------------------------------------------------------
(* The reassembly of one packet.  GroupIs(g, K, r, s, p, n): the group g has   *)
(* taken the pieces in K of the packet, and joined the first r of them.        *)

GroupFields ==
  {"has_ext", "orig_ext", "flags", "version", "min_compat_ver", "hop_limit", "src", "dst",
   "chunks", "pos", "total", "payload", "created"}

GroupHead(g, s) ==
  /\ DOMAIN g = GroupFields /\ g.flags = {} /\ g.version = Version /\ g.min_compat_ver = 0
  /\ g.hop_limit = 64 /\ g.src = s /\ g.dst = Receiver

GroupIs(g, K, r, s, p, n) ==
  /\ GroupHead(g, s)
  /\ g.has_ext = (1 \in K) /\ g.orig_ext = (IF 1 \in K THEN p.exts ELSE <<>>)
  /\ g.pos = Reach(p, r) /\ g.payload = SubSeq(Octets(p, n), 1, Reach(p, r))
  /\ g.total = (IF Pieces(p) \in K THEN p.len ELSE NoTotal)
  /\ DOMAIN g.chunks = {Start(p, k) : k \in {j \in K : j > r}}
  /\ \A k \in K : k > r => g.chunks[Start(p, k)] = Piece(p, n, k)

SameHead(g, h) ==
  /\ DOMAIN h = DOMAIN g /\ h.flags = g.flags /\ h.version = g.version
  /\ h.min_compat_ver = g.min_compat_ver /\ h.hop_limit = g.hop_limit /\ h.src = g.src
  /\ h.dst = g.dst /\ h.created = g.created

LEMMA AdvanceFields ==
  ASSUME NEW d, DOMAIN d = GroupFields, d.pos \in DOMAIN d.chunks
  PROVE  /\ SameHead(d, Advance(d)) /\ Advance(d).has_ext = d.has_ext
         /\ Advance(d).orig_ext = d.orig_ext /\ Advance(d).total = d.total
         /\ Advance(d).payload = d.payload \o d.chunks[d.pos]
         /\ Advance(d).pos = d.pos + Len(d.chunks[d.pos])
         /\ Advance(d).chunks = Restrict(d.chunks, DOMAIN d.chunks \ {d.pos})
<1>. DEFINE o == d.payload \o d.chunks[d.pos]
            x == d.pos + Len(d.chunks[d.pos])
            c == Restrict(d.chunks, DOMAIN d.chunks \ {d.pos})
<1>1. Advance(d) = [d EXCEPT !.payload = o, !.pos = x, !.chunks = c]
  BY DEF Advance
<1>. HIDE DEF o, x, c
<1>. QED BY <1>1 DEF GroupFields, SameHead, o, x, c

LEMMA KeptFields ==
  ASSUME NEW g, DOMAIN g = GroupFields, NEW h, NEW payload, NEW start, NEW more
  PROVE  LET k == Kept(g, h, payload, start, more)
         IN  /\ SameHead(g, k) /\ k.pos = g.pos /\ k.payload = g.payload
             /\ k.total = TotalAfter(g, more, start + Len(payload))
             /\ k.has_ext = (g.has_ext \/ start = 0)
             /\ k.orig_ext = (IF start = 0 /\ ~g.has_ext THEN Tail(h.ext_headers) ELSE g.orig_ext)
             /\ k.chunks = Put(g.chunks, start, payload)
<1>. DEFINE t == TotalAfter(g, more, start + Len(payload))
            e == g.has_ext \/ start = 0
            o == IF start = 0 /\ ~g.has_ext THEN Tail(h.ext_headers) ELSE g.orig_ext
            c == Put(g.chunks, start, payload)
<1>1. Kept(g, h, payload, start, more) =
        [g EXCEPT !.total = t, !.has_ext = e, !.orig_ext = o, !.chunks = c]
  BY DEF Kept
<1>. HIDE DEF t, e, o, c
<1>. QED BY <1>1 DEF GroupFields, SameHead, t, e, o, c

\* The loop of insert, step by step: the recursion of Drain has a solution.
Stepped(f, m, a) == f[0] = a /\ \A i \in 0..m - 1 : f[i + 1] = Advance(f[i])

LEMMA SteppedAgree ==
  ASSUME NEW a, NEW m \in Nat, NEW n \in Nat, NEW f, NEW h, Stepped(f, m, a), Stepped(h, n, a)
  PROVE  \A i \in Nat : i <= m /\ i <= n => f[i] = h[i]
<1>. DEFINE T == {i \in Nat : i <= m /\ i <= n => f[i] = h[i]}
<1>1. 0 \in T
  BY DEF Stepped
<1>2. ASSUME NEW i \in Nat, i \in T PROVE i + 1 \in T
  <2>. SUFFICES ASSUME i + 1 <= m, i + 1 <= n PROVE f[i + 1] = h[i + 1]
    OBVIOUS
  <2>1. i \in 0..m - 1 /\ i \in 0..n - 1 /\ f[i] = h[i]
    BY <1>2
  <2>. QED BY <2>1 DEF Stepped
<1>. HIDE DEF T
<1>3. Nat \subseteq T
  BY <1>1, <1>2, NatSetInduction
<1>. QED BY <1>3 DEF T

LEMMA DrainByStep ==
  ASSUME NEW a
  PROVE  \E f : /\ f[0] = a /\ \A n \in Nat : f[n + 1] = Advance(f[n])
                /\ Drain(a) = f[Cardinality(DOMAIN a.chunks)]
<1>. DEFINE T == {m \in Nat : \E f : Stepped(f, m, a)}
<1>1. 0 \in T
  <2>. DEFINE f == [i \in 0..0 |-> a]
  <2>1. Stepped(f, 0, a)
    BY DEF Stepped
  <2>. QED BY <2>1
<1>2. ASSUME NEW m \in Nat, m \in T PROVE m + 1 \in T
  <2>1. PICK f : Stepped(f, m, a)
    BY <1>2
  <2>. DEFINE h == [i \in 0..m + 1 |-> IF i = m + 1 THEN Advance(f[m]) ELSE f[i]]
  <2>2. /\ h[m + 1] = Advance(f[m])
        /\ \A i \in 0..m : h[i] = f[i]
    OBVIOUS
  <2>. HIDE DEF h
  <2>3. \A i \in 0..(m + 1) - 1 : h[i + 1] = Advance(h[i])
    <3>. SUFFICES ASSUME NEW i \in 0..(m + 1) - 1 PROVE h[i + 1] = Advance(h[i])
      OBVIOUS
    <3>1. CASE i = m
      BY <3>1, <2>2
    <3>2. CASE i # m
      <4>1. i \in 0..m - 1 /\ i + 1 \in 0..m /\ i \in 0..m
        BY <3>2
      <4>. QED BY <4>1, <2>1, <2>2 DEF Stepped
    <3>. QED BY <3>1, <3>2
  <2>4. h[0] = a
    BY <2>1, <2>2 DEF Stepped
  <2>5. Stepped(h, m + 1, a)
    BY <2>3, <2>4 DEF Stepped
  <2>. QED BY <2>5
<1>3. Nat \subseteq T
  <2>. HIDE DEF T
  <2>. QED BY <1>1, <1>2, NatSetInduction
<1>. DEFINE upTo(m) == CHOOSE f : Stepped(f, m, a)
            F == [m \in Nat |-> upTo(m)[m]]
<1>4. ASSUME NEW m \in Nat PROVE Stepped(upTo(m), m, a)
  <2>1. \E f : Stepped(f, m, a)
    BY <1>3
  <2>. QED BY <2>1
<1>5. \A m \in Nat : F[m] = upTo(m)[m]
  OBVIOUS
<1>. HIDE DEF upTo, T
<1>6. F = [n \in Nat |-> F[n]]
  OBVIOUS
<1>. HIDE DEF F
<1>7. F[0] = a
  BY <1>4, <1>5 DEF Stepped
<1>8. ASSUME NEW n \in Nat PROVE F[n + 1] = Advance(F[n])
  <2>1. Stepped(upTo(n), n, a) /\ Stepped(upTo(n + 1), n + 1, a)
    BY <1>4
  <2>2. upTo(n)[n] = upTo(n + 1)[n]
    BY <2>1, SteppedAgree
  <2>3. upTo(n + 1)[n + 1] = Advance(upTo(n + 1)[n])
    <3>1. n \in 0..(n + 1) - 1
      OBVIOUS
    <3>. QED BY <3>1, <2>1 DEF Stepped
  <2>. QED BY <2>2, <2>3, <1>5
<1>. DEFINE next(f) == [n \in Nat |-> IF n = 0 THEN a ELSE Advance(f[n - 1])]
            drained == CHOOSE f : f = next(f)
<1>9. F = next(F)
  <2>1. ASSUME NEW n \in Nat PROVE F[n] = IF n = 0 THEN a ELSE Advance(F[n - 1])
    <3>1. CASE n = 0
      BY <3>1, <1>7
    <3>2. CASE n # 0
      <4>1. n - 1 \in Nat /\ (n - 1) + 1 = n
        BY <3>2
      <4>. QED BY <3>2, <4>1, <1>8
    <3>. QED BY <3>1, <3>2
  <2>. QED BY <2>1, <1>6
<1>10. drained = next(drained)
  <2>. HIDE DEF next
  <2>. QED BY <1>9
<1>11. Drain(a) = drained[Cardinality(DOMAIN a.chunks)]
  BY DEF Drain
<1>. HIDE DEF drained
<1>12. drained = [n \in Nat |-> IF n = 0 THEN a ELSE Advance(drained[n - 1])]
  BY <1>10
<1>13. drained[0] = a
  BY <1>12
<1>14. ASSUME NEW n \in Nat PROVE drained[n + 1] = Advance(drained[n])
  <2>1. n + 1 \in Nat /\ n + 1 # 0 /\ (n + 1) - 1 = n
    OBVIOUS
  <2>. QED BY <2>1, <1>12
<1>. QED BY <1>11, <1>13, <1>14

LEMMA AdvanceTakes ==
  ASSUME NEW s, NEW p, Cut(p), NEW n \in Nat, NEW K \in SUBSET (1..Pieces(p)),
         NEW r \in Nat, r + 1 \in K, NEW d, GroupIs(d, K, r, s, p, n)
  PROVE  GroupIs(Advance(d), K, r + 1, s, p, n) /\ Advance(d).created = d.created
<1>. DEFINE e == Advance(d)
            a == Reach(p, r)
            b == Reach(p, r + 1)
            o == Octets(p, n)
            D == {Start(p, k) : k \in {j \in K : j > r}}
<1>1. /\ r + 1 \in 1..Pieces(p) /\ Start(p, r + 1) = a /\ a \in Nat /\ b \in Nat /\ a < b /\ b <= p.len
      /\ p.len \in Nat
  <2>1. (r + 1) - 1 = r /\ r + 1 \in 1..Pieces(p)
    OBVIOUS
  <2>. QED BY <2>1, PiecesLie
<1>2. /\ DOMAIN d = GroupFields /\ d.pos = a /\ DOMAIN d.chunks = D
      /\ d.payload = SubSeq(o, 1, a)
  BY DEF GroupIs, GroupHead
<1>3. a \in D /\ d.chunks[a] = Piece(p, n, r + 1)
  BY <1>1 DEF GroupIs
<1>. HIDE DEF e, a, b, o, D
<1>4. /\ SameHead(d, e) /\ e.has_ext = d.has_ext /\ e.orig_ext = d.orig_ext /\ e.total = d.total
      /\ e.payload = d.payload \o d.chunks[a] /\ e.pos = a + Len(d.chunks[a])
      /\ e.chunks = Restrict(d.chunks, D \ {a})
  BY <1>2, <1>3, AdvanceFields DEF e
<1>5. e.pos = b
  <2>1. Len(Piece(p, n, r + 1)) = b - a
    BY <1>1, PieceLength DEF b
  <2>. QED BY <2>1, <1>1, <1>3, <1>4
<1>6. e.payload = SubSeq(o, 1, b)
  <2>1. Piece(p, n, r + 1) = SubSeq(o, a + 1, b)
    BY <1>1 DEF Piece, o, b
  <2>2. o \in Seq(Nat) /\ Len(o) = p.len
    BY OctetsInOrder DEF o, Cut
  <2>3. SubSeq(o, 1, a) \o SubSeq(o, a + 1, b) = SubSeq(o, 1, b)
    <3>1. 1 \in 1..Len(o) + 1 /\ a \in (1 - 1)..Len(o) /\ b \in a..Len(o)
      BY <1>1, <2>2
    <3>. QED BY <2>2, <3>1, ConcatAdjacentSubSeq
  <2>. QED BY <2>1, <2>3, <1>2, <1>3, <1>4
<1>7. DOMAIN e.chunks = {Start(p, k) : k \in {j \in K : j > r + 1}}
  <2>1. DOMAIN e.chunks = D \ {a}
    BY <1>4 DEF Restrict
  <2>2. \A k \in K : k \in 1..Pieces(p) /\ (k > r <=> k = r + 1 \/ k > r + 1)
    OBVIOUS
  <2>3. \A k \in K : k > r + 1 => Start(p, k) # a
    <3>1. ASSUME NEW k \in K, k > r + 1 PROVE Start(p, k) # a
      <4>1. Start(p, r + 1) < Start(p, k) /\ Start(p, k) \in Nat
        BY <3>1, <1>1, PiecesLie
      <4>. QED BY <4>1, <1>1
    <3>. QED BY <3>1
  <2>. QED BY <2>1, <2>2, <2>3, <1>1 DEF D
<1>8. \A k \in K : k > r + 1 => e.chunks[Start(p, k)] = Piece(p, n, k)
  <2>. SUFFICES ASSUME NEW k \in K, k > r + 1 PROVE e.chunks[Start(p, k)] = Piece(p, n, k)
    OBVIOUS
  <2>1. Start(p, k) \in D \ {a}
    BY <1>4, <1>7 DEF Restrict
  <2>2. d.chunks[Start(p, k)] = Piece(p, n, k)
    <3>1. k > r
      OBVIOUS
    <3>. QED BY <3>1 DEF GroupIs
  <2>. QED BY <2>1, <2>2, <1>4 DEF Restrict
<1>9. GroupHead(e, s)
  BY <1>4 DEF GroupIs, GroupHead, SameHead
<1>10. e.created = d.created
  BY <1>4 DEF SameHead
<1>. QED BY <1>4, <1>5, <1>6, <1>7, <1>8, <1>9, <1>10 DEF GroupIs, e, o, b

LEMMA AdvanceStops ==
  ASSUME NEW s, NEW p, Cut(p), NEW n \in Nat, NEW K \in SUBSET (1..Pieces(p)),
         NEW r \in 0..Pieces(p), r + 1 \notin K, NEW d, GroupIs(d, K, r, s, p, n)
  PROVE  d.pos \notin DOMAIN d.chunks /\ Advance(d) = d
<1>1. d.pos \notin DOMAIN d.chunks
  <2>. SUFFICES ASSUME NEW k \in K, k > r, Start(p, k) = Reach(p, r) PROVE FALSE
    BY DEF GroupIs
  <2>1. k \in 1..Pieces(p) /\ r + 1 \in 1..Pieces(p) /\ (r + 1) - 1 = r /\ r + 1 < k
    BY PiecesLie
  <2>2. Start(p, r + 1) = Reach(p, r) /\ Start(p, r + 1) < Start(p, k)
        /\ Start(p, r + 1) \in Nat
    BY <2>1, PiecesLie
  <2>. QED BY <2>2
<1>. QED BY <1>1 DEF Advance

\* Drain joins every piece up to the first that is missing, and no further.
LEMMA DrainsToGap ==
  ASSUME NEW s, NEW p, Cut(p), NEW n \in Nat, NEW K \in SUBSET (1..Pieces(p)),
         NEW r \in 0..Pieces(p), NEW g, GroupIs(g, K, r, s, p, n)
  PROVE  \E t \in r..Pieces(p) :
           /\ GroupIs(Drain(g), K, t, s, p, n) /\ Drain(g).created = g.created
           /\ t + 1 \notin K /\ \A k \in r + 1..t : k \in K
<1>. DEFINE m == Pieces(p)
            T == {j \in Nat : j >= r /\ j + 1 \notin K}
<1>1. m \in Nat /\ m \in T
  <2>1. m \in Nat
    BY PiecesLie
  <2>. QED BY <2>1
<1>2. PICK t \in T : \A j \in T : t <= j
  <2>. HIDE DEF T, m
  <2>1. T \in SUBSET Nat
    BY DEF T
  <2>. QED BY <1>1, <2>1, NatLeast
<1>3. t \in r..m /\ t + 1 \notin K
  BY <1>1, <1>2
<1>4. \A k \in r + 1..t : k \in K
  <2>. SUFFICES ASSUME NEW k \in r + 1..t, k \notin K PROVE FALSE
    OBVIOUS
  <2>1. k - 1 \in T
    BY <1>3
  <2>. QED BY <2>1, <1>2, <1>3
<1>. HIDE DEF T, m
<1>5. PICK f : /\ f[0] = g /\ \A i \in Nat : f[i + 1] = Advance(f[i])
               /\ Drain(g) = f[Cardinality(DOMAIN g.chunks)]
  BY DrainByStep
<1>. DEFINE at(i) == IF r + i <= t THEN r + i ELSE t
            S == {i \in Nat : GroupIs(f[i], K, at(i), s, p, n) /\ f[i].created = g.created}
<1>6. Nat \subseteq S
  <2>1. 0 \in S
    <3>1. at(0) = r
      BY <1>3
    <3>. QED BY <3>1, <1>5
  <2>2. ASSUME NEW i \in Nat, i \in S PROVE i + 1 \in S
    <3>1. GroupIs(f[i], K, at(i), s, p, n) /\ f[i].created = g.created /\ f[i + 1] = Advance(f[i])
      BY <2>2, <1>5
    <3>2. CASE r + i < t
      <4>1. at(i) = r + i /\ at(i + 1) = (r + i) + 1 /\ r + i \in Nat /\ (r + i) + 1 \in K
        BY <3>2, <1>3, <1>4
      <4>. HIDE DEF at
      <4>2. GroupIs(f[i], K, r + i, s, p, n)
        BY <3>1, <4>1
      <4>3. /\ GroupIs(Advance(f[i]), K, (r + i) + 1, s, p, n)
            /\ Advance(f[i]).created = f[i].created
        <5>. DEFINE x == f[i]
                    y == r + i
        <5>1. GroupIs(x, K, y, s, p, n) /\ y \in Nat /\ y + 1 \in K
          BY <4>1, <4>2
        <5>. HIDE DEF x, y
        <5>2. GroupIs(Advance(x), K, y + 1, s, p, n) /\ Advance(x).created = x.created
          BY <5>1, AdvanceTakes
        <5>. QED BY <5>2 DEF x, y
      <4>. QED BY <3>1, <4>1, <4>3
    <3>3. CASE ~(r + i < t)
      <4>1. at(i) = t /\ at(i + 1) = t /\ t \in 0..Pieces(p)
        BY <3>3, <1>3 DEF m
      <4>. HIDE DEF at
      <4>2. f[i + 1] = f[i]
        BY <3>1, <4>1, <1>3, AdvanceStops
      <4>. QED BY <3>1, <4>1, <4>2
    <3>. QED BY <3>2, <3>3
  <2>. HIDE DEF S
  <2>. QED BY <2>1, <2>2, NatSetInduction
<1>7. Cardinality(DOMAIN g.chunks) \in Nat /\ t - r <= Cardinality(DOMAIN g.chunks)
  <2>. DEFINE D == {Start(p, k) : k \in {j \in K : j > r}}
              h == [k \in r + 1..t |-> Start(p, k)]
  <2>1. DOMAIN g.chunks = D
    BY DEF GroupIs
  <2>2. D \subseteq 0..p.len /\ p.len \in Nat
    <3>1. \A k \in K : Start(p, k) \in 0..p.len
      BY PiecesLie
    <3>. QED BY <3>1, PiecesLie
  <2>3. IsFiniteSet(D) /\ Cardinality(D) \in Nat
    <3>1. \A j \in Nat : IsFiniteSet(0..j)
      BY FS_Interval
    <3>2. IsFiniteSet(0..p.len)
      BY <3>1, <2>2
    <3>. HIDE DEF D
    <3>. QED BY <3>2, <2>2, FS_Subset, FS_CardinalityType
  <2>4. h \in Injection(r + 1..t, D)
    <3>1. \A k \in r + 1..t : k \in K /\ k > r /\ k \in 1..Pieces(p)
      BY <1>3, <1>4
    <3>2. h \in [r + 1..t -> D]
      BY <3>1
    <3>3. \A j, k \in r + 1..t : h[j] = h[k] => j = k
      <4>1. ASSUME NEW j \in r + 1..t, NEW k \in r + 1..t, j < k PROVE h[j] < h[k]
        BY <4>1, <3>1, PiecesLie
      <4>2. \A j \in r + 1..t : h[j] \in Nat /\ j \in Nat
        BY <3>1, PiecesLie
      <4>. HIDE DEF h
      <4>. QED BY <4>1, <4>2
    <3>. HIDE DEF h, D
    <3>. QED BY <3>2, <3>3 DEF Injection, IsInjective
  <2>5. Cardinality(r + 1..t) = t - r
    <3>1. Cardinality(r + 1..t) = IF r + 1 > t THEN 0 ELSE t - (r + 1) + 1
      BY <1>3, FS_Interval
    <3>. QED BY <3>1, <1>3
  <2>. HIDE DEF h, D
  <2>6. Cardinality(r + 1..t) <= Cardinality(D)
    BY <2>3, <2>4, FS_Injection
  <2>. QED BY <2>1, <2>3, <2>5, <2>6
<1>. DEFINE c == Cardinality(DOMAIN g.chunks)
<1>8. at(c) = t
  <2>. HIDE DEF c
  <2>. QED BY <1>3, <1>7 DEF c
<1>9. GroupIs(Drain(g), K, t, s, p, n) /\ Drain(g).created = g.created
  <2>1. c \in S
    BY <1>6, <1>7
  <2>. HIDE DEF c, at
  <2>. QED BY <2>1, <1>5, <1>8 DEF c
<1>. QED BY <1>3, <1>4, <1>9 DEF m

-----------------------------------------------------------------------------
(* One fragment at its group. *)

\* The first r pieces are there and the next is not.
Gap(p, K, r) ==
  /\ K \in SUBSET (1..Pieces(p)) /\ r \in 0..Pieces(p) /\ r + 1 \notin K
  /\ \A j \in 1..r : j \in K

LEMMA StartsApart ==
  ASSUME NEW p, Cut(p), NEW j \in 1..Pieces(p), NEW k \in 1..Pieces(p)
  PROVE  /\ Start(p, j) = Start(p, k) => j = k
         /\ Start(p, k) = 0 <=> k = 1
<1>1. Pieces(p) \in Nat /\ Chunk(p) \in Nat
  BY PiecesLie
<1>2. ASSUME NEW a \in 1..Pieces(p), NEW b \in 1..Pieces(p), Start(p, a) = Start(p, b)
      PROVE  a = b
  <2>1. Start(p, a) \in Nat /\ ~(a < b) /\ ~(b < a)
    BY <1>2, PiecesLie
  <2>. QED BY <2>1, <1>1
<1>3. 1 \in 1..Pieces(p) /\ Start(p, 1) = 0
  BY <1>1 DEF Start
<1>. QED BY <1>2, <1>3

LEMMA GroupStarts ==
  ASSUME NEW s, NEW p, Cut(p), NEW n \in Nat, NEW id, NEW k \in 1..Pieces(p)
  PROVE  /\ GroupIs(GroupNew(PieceHeader(s, p, id, k)), {}, 0, s, p, n)
         /\ GroupNew(PieceHeader(s, p, id, k)).created = fragTime
         /\ Gap(p, {}, 0)
<1>. DEFINE h == PieceHeader(s, p, id, k)
            g == GroupNew(h)
<1>1. g = [has_ext |-> FALSE, orig_ext |-> <<>>, flags |-> h.flags \ {"FRAGMENT", "HAS_EXTENSION"},
           version |-> h.version, min_compat_ver |-> h.min_compat_ver, hop_limit |-> h.hop_limit,
           src |-> h.src_addr, dst |-> h.dst_addr, chunks |-> <<>>, pos |-> 0,
           total |-> NoTotal, payload |-> <<>>, created |-> fragTime]
  BY DEF GroupNew
<1>2. /\ h.flags \ {"FRAGMENT", "HAS_EXTENSION"} = {} /\ h.version = Version
      /\ h.min_compat_ver = 0 /\ h.hop_limit = 64 /\ h.src_addr = s /\ h.dst_addr = Receiver
  BY DEF PieceHeader
<1>3. Reach(p, 0) = 0
  <2>1. Pieces(p) # 0 /\ Chunk(p) \in Nat
    BY PiecesLie
  <2>. QED BY <2>1 DEF Reach
<1>4. SubSeq(Octets(p, n), 1, 0) = <<>>
  BY SubSeqEmpty
<1>. HIDE DEF g, h
<1>5. GroupHead(g, s)
  BY <1>1, <1>2 DEF GroupHead, GroupFields
<1>6. DOMAIN g.chunks = {}
  BY <1>1
<1>7. GroupIs(g, {}, 0, s, p, n)
  <2>1. /\ g.has_ext = FALSE /\ g.orig_ext = <<>> /\ g.pos = 0 /\ g.payload = <<>>
        /\ g.total = NoTotal
    BY <1>1
  <2>2. g.has_ext = (1 \in {}) /\ g.orig_ext = (IF 1 \in {} THEN p.exts ELSE <<>>)
    <3>1. 1 \notin {}
      OBVIOUS
    <3>2. (1 \in {}) = FALSE
      BY <3>1
    <3>. QED BY <2>1, <3>1, <3>2
  <2>3. g.pos = Reach(p, 0) /\ g.payload = SubSeq(Octets(p, n), 1, Reach(p, 0))
    BY <2>1, <1>3, <1>4
  <2>4. g.total = (IF Pieces(p) \in {} THEN p.len ELSE NoTotal)
    BY <2>1
  <2>5. {Start(p, j) : j \in {i \in {} : i > 0}} = {}
    OBVIOUS
  <2>. QED BY <2>2, <2>3, <2>4, <2>5, <1>5, <1>6 DEF GroupIs
<1>8. Gap(p, {}, 0)
  <2>1. 0 \in 0..Pieces(p)
    BY PiecesLie
  <2>. QED BY <2>1 DEF Gap
<1>. QED BY <1>1, <1>7, <1>8 DEF g, h

Onward(p, k) == k # Pieces(p)

LEMMA PieceKept ==
  ASSUME NEW s, NEW p, Cut(p), NEW n \in Nat, NEW id, NEW k \in 1..Pieces(p),
         NEW K \in SUBSET (1..Pieces(p)), NEW r \in 0..Pieces(p), k > r,
         NEW g, GroupIs(g, K, r, s, p, n), NEW more, more = Onward(p, k)
  PROVE  /\ GroupIs(Kept(g, PieceHeader(s, p, id, k), Piece(p, n, k), Start(p, k), more),
                    K \cup {k}, r, s, p, n)
         /\ Kept(g, PieceHeader(s, p, id, k), Piece(p, n, k), Start(p, k), more).created = g.created
<1>. DEFINE h == PieceHeader(s, p, id, k)
            o == Piece(p, n, k)
            a == Start(p, k)
            e == Kept(g, h, o, a, more)
            L == K \cup {k}
<1>1. DOMAIN g = GroupFields
  BY DEF GroupIs, GroupHead
<1>2. /\ SameHead(g, e) /\ e.pos = g.pos /\ e.payload = g.payload
      /\ e.total = TotalAfter(g, more, a + Len(o))
      /\ e.has_ext = (g.has_ext \/ a = 0)
      /\ e.orig_ext = (IF a = 0 /\ ~g.has_ext THEN Tail(h.ext_headers) ELSE g.orig_ext)
      /\ e.chunks = Put(g.chunks, a, o)
  <2>. HIDE DEF h, o, a
  <2>. QED BY <1>1, KeptFields
<1>3. (a = 0 <=> k = 1) /\ \A j \in 1..Pieces(p) : Start(p, j) = a => j = k
  BY StartsApart
<1>4. Tail(h.ext_headers) = (IF k = 1 THEN p.exts ELSE <<>>)
  BY PieceChainLegal DEF PieceHeader, Cut
<1>5. k = Pieces(p) => a + Len(o) = p.len
  <2>. SUFFICES ASSUME k = Pieces(p) PROVE a + Len(o) = p.len
    OBVIOUS
  <2>1. Len(o) = Reach(p, k) - a /\ Reach(p, k) = p.len
    BY PieceLength DEF Reach
  <2>2. a \in Nat /\ p.len \in Nat
    BY PiecesLie
  <2>. HIDE DEF a, o
  <2>. QED BY <2>1, <2>2
<1>. HIDE DEF h, o, a, e
<1>6. e.total = IF Pieces(p) \in L THEN p.len ELSE NoTotal
  <2>1. g.total = (IF Pieces(p) \in K THEN p.len ELSE NoTotal)
    BY DEF GroupIs
  <2>2. CASE k = Pieces(p)
    <3>1. ~more /\ Pieces(p) \in L
      BY <2>2 DEF Onward
    <3>. QED BY <3>1, <2>2, <1>2, <1>5 DEF TotalAfter
  <2>3. CASE k # Pieces(p)
    <3>1. more /\ (Pieces(p) \in L <=> Pieces(p) \in K)
      BY <2>3 DEF Onward
    <3>2. e.total = g.total
      BY <3>1, <1>2 DEF TotalAfter
    <3>. QED BY <3>1, <3>2, <2>1
  <2>. QED BY <2>2, <2>3
<1>7. e.has_ext = (1 \in L) /\ e.orig_ext = IF 1 \in L THEN p.exts ELSE <<>>
  <2>1. g.has_ext = (1 \in K) /\ g.orig_ext = (IF 1 \in K THEN p.exts ELSE <<>>)
    BY DEF GroupIs
  <2>2. CASE k = 1
    <3>1. a = 0 /\ 1 \in L /\ Tail(h.ext_headers) = p.exts
      BY <2>2, <1>3, <1>4 DEF L
    <3>2. e.has_ext = TRUE /\ (1 \in L) = TRUE
      BY <3>1, <1>2
    <3>3. e.orig_ext = p.exts
      <4>1. CASE 1 \in K
        <5>1. g.has_ext /\ g.orig_ext = p.exts
          BY <2>1, <4>1
        <5>. QED BY <5>1, <3>1, <1>2
      <4>2. CASE 1 \notin K
        <5>1. ~g.has_ext
          BY <2>1, <4>2
        <5>. QED BY <5>1, <3>1, <1>2
      <4>. QED BY <4>1, <4>2
    <3>. QED BY <3>1, <3>2, <3>3
  <2>3. CASE k # 1
    <3>1. a # 0 /\ (1 \in L) = (1 \in K)
      BY <2>3, <1>3 DEF L
    <3>2. e.orig_ext = g.orig_ext
      BY <3>1, <1>2
    <3>3. e.has_ext = (1 \in K)
      <4>1. (a = 0) = FALSE
        BY <3>1
      <4>2. CASE 1 \in K
        <5>1. g.has_ext = TRUE
          BY <2>1, <4>2
        <5>. QED BY <5>1, <4>2, <1>2
      <4>3. CASE 1 \notin K
        <5>1. g.has_ext = FALSE
          <6>1. (1 \in K) = FALSE
            BY <4>3
          <6>. QED BY <6>1, <2>1
        <5>. QED BY <5>1, <4>1, <4>3, <1>2
      <4>. QED BY <4>2, <4>3
    <3>. QED BY <2>1, <3>1, <3>2, <3>3
  <2>. QED BY <2>2, <2>3
<1>8. DOMAIN e.chunks = {Start(p, j) : j \in {i \in L : i > r}}
  <2>1. DOMAIN e.chunks = DOMAIN g.chunks \cup {a}
    BY <1>2 DEF Put
  <2>2. DOMAIN g.chunks = {Start(p, j) : j \in {i \in K : i > r}}
    BY DEF GroupIs
  <2>. QED BY <2>1, <2>2 DEF a
<1>9. \A j \in L : j > r => e.chunks[Start(p, j)] = Piece(p, n, j)
  <2>. SUFFICES ASSUME NEW j \in L, j > r PROVE e.chunks[Start(p, j)] = Piece(p, n, j)
    OBVIOUS
  <2>1. Start(p, j) \in DOMAIN e.chunks
    BY <1>8
  <2>2. e.chunks[Start(p, j)] = IF Start(p, j) = a THEN o ELSE g.chunks[Start(p, j)]
    BY <2>1, <1>2 DEF Put
  <2>3. CASE j = k
    BY <2>2, <2>3 DEF a, o
  <2>4. CASE j # k
    <3>1. Start(p, j) # a /\ j \in K
      BY <2>4, <1>3
    <3>. QED BY <3>1, <2>2 DEF GroupIs
  <2>. QED BY <2>3, <2>4
<1>10. GroupHead(e, s) /\ e.created = g.created
  BY <1>2 DEF GroupIs, GroupHead, SameHead
<1>11. e.pos = Reach(p, r) /\ e.payload = SubSeq(Octets(p, n), 1, Reach(p, r))
  BY <1>2 DEF GroupIs
<1>12. GroupIs(e, L, r, s, p, n)
  <2>. HIDE DEF L
  <2>. QED BY <1>6, <1>7, <1>8, <1>9, <1>10, <1>11 DEF GroupIs
<1>. QED BY <1>10, <1>12 DEF e, h, o, a

\* A piece that is not behind the front is taken, once.
LEMMA PieceStored ==
  ASSUME NEW s, NEW p, Cut(p), NEW n \in Nat, NEW id, NEW k \in 1..Pieces(p),
         NEW K, NEW r, Gap(p, K, r), k > r, NEW g, GroupIs(g, K, r, s, p, n),
         NEW more, more = Onward(p, k)
  PROVE  LET e == Stored(g, PieceHeader(s, p, id, k), Piece(p, n, k), Start(p, k), more)
         IN  \E t : /\ Gap(p, K \cup {k}, t) /\ GroupIs(e, K \cup {k}, t, s, p, n)
                    /\ e.created = g.created
<1>. DEFINE kept == Kept(g, PieceHeader(s, p, id, k), Piece(p, n, k), Start(p, k), more)
            e == Stored(g, PieceHeader(s, p, id, k), Piece(p, n, k), Start(p, k), more)
            L == K \cup {k}
<1>1. /\ K \in SUBSET (1..Pieces(p)) /\ r \in 0..Pieces(p) /\ r + 1 \notin K
      /\ \A j \in 1..r : j \in K
  BY DEF Gap
<1>2. GroupIs(kept, L, r, s, p, n) /\ kept.created = g.created /\ L \in SUBSET (1..Pieces(p))
  <2>1. L \in SUBSET (1..Pieces(p))
    BY <1>1
  <2>2. GroupIs(kept, L, r, s, p, n) /\ kept.created = g.created
    <3>1. K \in SUBSET (1..Pieces(p)) /\ r \in 0..Pieces(p)
      BY <1>1
    <3>. QED BY <3>1, PieceKept
  <2>. QED BY <2>1, <2>2
<1>3. e = IF Start(p, k) \in DOMAIN g.chunks THEN kept ELSE Drain(kept)
  BY DEF Stored
<1>. HIDE DEF kept, e, L
<1>4. CASE Start(p, k) \in DOMAIN g.chunks
  <2>1. PICK j \in K : j > r /\ Start(p, j) = Start(p, k)
    BY <1>4 DEF GroupIs
  <2>2. j = k
    BY <2>1, <1>1, StartsApart
  <2>3. L = K
    BY <2>2 DEF L
  <2>. QED BY <2>3, <1>2, <1>3, <1>4 DEF Gap, e, L
<1>5. CASE Start(p, k) \notin DOMAIN g.chunks
  <2>1. PICK t \in r..Pieces(p) :
          /\ GroupIs(Drain(kept), L, t, s, p, n) /\ Drain(kept).created = kept.created
          /\ t + 1 \notin L /\ \A j \in r + 1..t : j \in L
    BY <1>1, <1>2, DrainsToGap
  <2>2. \A j \in 1..t : j \in L
    <3>1. \A j \in 1..t : j \in 1..r \/ j \in r + 1..t
      BY <1>1, <2>1
    <3>. QED BY <3>1, <1>1, <2>1 DEF L
  <2>3. t \in 0..Pieces(p)
    BY <1>1, <2>1
  <2>4. Gap(p, L, t)
    BY <2>1, <2>2, <2>3, <1>2 DEF Gap
  <2>. QED BY <2>1, <2>4, <1>2, <1>3, <1>5 DEF e, L
<1>. QED BY <1>4, <1>5

LEMMA NotBehind ==
  ASSUME NEW s, NEW p, Cut(p), NEW n \in Nat, NEW k \in 1..Pieces(p), NEW end, NEW more,
         NEW K, NEW r, Gap(p, K, r), NEW g, GroupIs(g, K, r, s, p, n),
         ~Refused(g, Start(p, k), end, more)
  PROVE  k > r
<1>. SUFFICES ASSUME ~(k > r) PROVE FALSE
  OBVIOUS
<1>1. r \in 0..Pieces(p) /\ k <= r /\ r \in 1..Pieces(p)
  BY PiecesLie DEF Gap
<1>2. Start(p, k) <= Start(p, r) /\ Start(p, r) < Reach(p, r)
      /\ Start(p, k) \in Nat /\ Start(p, r) \in Nat /\ Reach(p, r) \in Nat
  BY <1>1, PiecesLie
<1>3. ~(Start(p, k) < Reach(p, r))
  BY DEF Refused, GroupIs
<1>. QED BY <1>2, <1>3

\* A group is complete when its last piece is joined, and then it is the packet.
LEMMA DoneIsWhole ==
  ASSUME NEW s, NEW p, Cut(p), NEW n \in Nat, NEW K, NEW r, Gap(p, K, r), K # {},
         NEW g, GroupIs(g, K, r, s, p, n)
  PROVE  /\ GroupDone(g) <=> r = Pieces(p)
         /\ GroupDone(g) => Rebuilt(g) = Ok(BuildPacket(s, p, n))
<1>. DEFINE m == Pieces(p)
<1>1. /\ K \in SUBSET (1..m) /\ r \in 0..m /\ r + 1 \notin K /\ (\A j \in 1..r : j \in K)
      /\ m \in Nat /\ m # 0 /\ p.len \in Nat /\ Chunk(p) \in Nat
  <2>1. K \in SUBSET (1..m) /\ r \in 0..m /\ r + 1 \notin K /\ (\A j \in 1..r : j \in K)
    BY DEF Gap
  <2>2. m \in Nat /\ p.len \in Nat /\ Chunk(p) \in Nat
    BY PiecesLie
  <2>. HIDE DEF m
  <2>3. PICK k : k \in K
    OBVIOUS
  <2>4. m # 0
    BY <2>1, <2>2, <2>3
  <2>. QED BY <2>1, <2>2, <2>4
<1>2. /\ g.pos = Reach(p, r) /\ g.total = (IF m \in K THEN p.len ELSE NoTotal)
      /\ g.payload = SubSeq(Octets(p, n), 1, Reach(p, r))
      /\ g.orig_ext = (IF 1 \in K THEN p.exts ELSE <<>>)
  BY DEF GroupIs
<1>3. r = m => Reach(p, r) = p.len /\ m \in K /\ 1 \in K
  BY <1>1 DEF Reach
<1>4. r # m => Reach(p, r) # p.len
  <2>. SUFFICES ASSUME r # m PROVE Reach(p, r) # p.len
    OBVIOUS
  <2>1. r + 1 \in 1..m /\ (r + 1) - 1 = r
    BY <1>1
  <2>2. Start(p, r + 1) = Reach(p, r) /\ Start(p, r + 1) < p.len /\ Start(p, r + 1) \in Nat
    BY <2>1, PiecesLie
  <2>. QED BY <2>2, <1>1
<1>5. GroupDone(g) <=> r = m
  <2>1. p.len # NoTotal
    BY <1>1 DEF NoTotal
  <2>. HIDE DEF m
  <2>. QED BY <2>1, <1>2, <1>3, <1>4 DEF GroupDone
<1>6. ASSUME r = m PROVE Rebuilt(g) = Ok(BuildPacket(s, p, n))
  <2>1. g.total = p.len /\ g.orig_ext = p.exts
    BY <1>2, <1>3, <1>6
  <2>2. g.payload = Octets(p, n)
    <3>1. Octets(p, n) \in Seq(Nat) /\ Len(Octets(p, n)) = p.len
      BY OctetsInOrder DEF Cut
    <3>2. SubSeq(Octets(p, n), 1, Len(Octets(p, n))) = Octets(p, n)
      BY <3>1, SubSeqFull
    <3>. QED BY <3>1, <3>2, <1>2, <1>3, <1>6
  <2>3. /\ g.flags = {} /\ g.version = Version /\ g.min_compat_ver = 0
        /\ g.hop_limit = 64 /\ g.src = s /\ g.dst = Receiver
    BY DEF GroupIs, GroupHead
  <2>4. Rebuilt(g) = Encode(AttachExtHeaders(NewHeader(s, Receiver, p.len), p.exts), Octets(p, n))
    BY <2>1, <2>2, <2>3 DEF Rebuilt, NewHeader
  <2>5. Encode(PacketHeader(s, p), Octets(p, n)) = Ok(BuildPacket(s, p, n))
    BY PacketDecoded DEF Cut
  <2>. QED BY <2>4, <2>5 DEF PacketHeader
<1>. QED BY <1>5, <1>6

-----------------------------------------------------------------------------
(* The table, the network and what was sent. *)

\* x is the n-th packet, from s.
WrittenAs(x, s, p, n) ==
  /\ p \in FragPackets /\ n \in Nat
  /\ x.wire = BuildPacket(s, p, n) /\ x.key = <<s, Receiver, x.key[3]>>
Written(x) == x.at \in Nat /\ \E s, p, n : WrittenAs(x, s, p, n)

\* The first octet of a packet tells which one it is.
ToldApart(S) ==
  \A x \in S : x.wire.tail # <<>> =>
    /\ x.wire.tail[1] \in Nat /\ x.wire.tail[1] < 100 * Cardinality(S)
    /\ \A y \in S : y.wire.tail # <<>> /\ y.wire.tail[1] = x.wire.tail[1] => x = y

PieceOf(dg, x) ==
  /\ dg.born = x.at /\ FragmentPacket(x.wire, Mtu, x.key[3]).ok
  /\ dg.wire \in Range(FragmentPacket(x.wire, Mtu, x.key[3]).val)
Flies(dg, S, t) ==
  /\ dg.born \in Nat /\ dg.born <= t /\ t - dg.born <= Lifetime
  /\ \E x \in S : PieceOf(dg, x)

\* The group g has taken the pieces got of the packet x, not all of them.
BuildsAs(x, g, got, s, p, n) ==
  /\ WrittenAs(x, s, p, n) /\ Cut(p)
  /\ g.created \in Nat /\ x.at <= g.created /\ g.created - x.at <= Lifetime
  /\ \E K, r : /\ Gap(p, K, r) /\ r # Pieces(p) /\ GroupIs(g, K, r, s, p, n)
               /\ got = {<<Start(p, k), Piece(p, n, k)>> : k \in K}
GroupOK(key, g, got) ==
  \/ IdReusedSoon(key)
  \/ /\ g.created <= fragTime
     /\ \E x \in fragSent : x.key = key /\ \E s, p, n : BuildsAs(x, g, got, s, p, n)

FragInv ==
  /\ fragTime \in Nat /\ IsFiniteSet(fragSent)
  /\ \A x \in fragSent : Written(x)
  /\ ToldApart(fragSent)
  /\ \A dg \in fragNet : Flies(dg, fragSent, fragTime)
  /\ DOMAIN fragGot = DOMAIN groups
  /\ \A key \in DOMAIN groups : GroupOK(key, groups[key], fragGot[key])
  /\ ReassembledIntact

LEMMA WrittenWire ==
  ASSUME NEW s, NEW p \in FragPackets, NEW n \in Nat
  PROVE  /\ BuildPacket(s, p, n).src_addr = s /\ BuildPacket(s, p, n).tail = Octets(p, n)
         /\ Octets(p, n) # <<>> => Octets(p, n)[1] = 100 * n + 1
         /\ p.len > 0 => Octets(p, n) # <<>>
<1>1. BuildPacket(s, p, n) = WireOf(PacketHeader(s, p), Octets(p, n)) /\ PacketHeader(s, p).src_addr = s
  BY PacketEncoded, EncodeGives DEF BuildPacket
<1>2. /\ Octets(p, n) \in Seq(Nat) /\ Len(Octets(p, n)) = p.len /\ p.len \in Nat
      /\ \A i \in 1..p.len : Octets(p, n)[i] = 100 * n + i
  BY OctetsInOrder, PacketLengths
<1>3. ASSUME Octets(p, n) # <<>> PROVE Octets(p, n)[1] = 100 * n + 1
  <2>1. Len(Octets(p, n)) # 0
    BY <1>2, <1>3, EmptySeq
  <2>. QED BY <2>1, <1>2
<1>4. ASSUME p.len > 0 PROVE Octets(p, n) # <<>>
  <2>1. Len(Octets(p, n)) # 0
    BY <1>2, <1>4
  <2>. QED BY <2>1, EmptySeq
<1>. QED BY <1>1, <1>3, <1>4 DEF WireOf

PieceFound(d, s, p, n, id) ==
  \E k \in 1..Pieces(p) : d = [header |-> PieceHeader(s, p, id, k), payload |-> Piece(p, n, k)]

\* A fragment that is received is a piece of the packet it was cut from.
LEMMA FragmentFrom ==
  ASSUME NEW x, NEW s, NEW p, NEW n, WrittenAs(x, s, p, n), NEW dg, PieceOf(dg, x),
         "FRAGMENT" \in dg.wire.flags, DecodeFault(dg.wire) = "none"
  PROVE  Cut(p) /\ PieceFound(Decode(dg.wire).val, s, p, n, x.key[3])
<1>. DEFINE w == x.wire
            id == x.key[3]
            f == FragmentPacket(w, Mtu, id)
<1>1. p \in FragPackets /\ n \in Nat /\ w = BuildPacket(s, p, n)
  BY DEF WrittenAs
<1>2. f.ok /\ dg.wire \in Range(f.val)
  BY DEF PieceOf
<1>3. "FRAGMENT" \notin w.flags
  BY <1>1, PacketDecoded
<1>. HIDE DEF w, id
<1>4. f.val # <<w>>
  <2>. SUFFICES ASSUME f.val = <<w>> PROVE FALSE
    OBVIOUS
  <2>1. Range(<<w>>) = {w}
    BY DEF Range
  <2>. QED BY <2>1, <1>2, <1>3
<1>5. /\ Cut(p) /\ f.val = [k \in 1..Pieces(p) |-> PieceWire(s, p, n, id, k)]
      /\ \A k \in 1..Pieces(p) : EncodeFault(PieceHeader(s, p, id, k), Piece(p, n, k)) = "none"
  <2>1. f.val = <<w>> \/ Pieced(f.val, s, p, n, id)
    BY <1>1, <1>2, PacketCut
  <2>. HIDE DEF f
  <2>. QED BY <2>1, <1>4 DEF Pieced
<1>. HIDE DEF f
<1>6. PICK k \in 1..Pieces(p) : dg.wire = PieceWire(s, p, n, id, k)
  BY <1>2, <1>5 DEF Range
<1>7. Decode(dg.wire).val = [header |-> PieceHeader(s, p, id, k), payload |-> Piece(p, n, k)]
  BY <1>1, <1>5, <1>6, PieceDecoded
<1>. QED BY <1>5, <1>7 DEF id, PieceFound

\* insert at a group that is being built: the packet, or a group that builds it.
LEMMA GroupSteps ==
  ASSUME NEW x, NEW s, NEW p, NEW n, NEW g, NEW got, BuildsAs(x, g, got, s, p, n),
         NEW id, NEW k \in 1..Pieces(p), NEW end, NEW more, more = Onward(p, k),
         ~Refused(g, Start(p, k), end, more),
         NEW e, e = Stored(g, PieceHeader(s, p, id, k), Piece(p, n, k), Start(p, k), more)
  PROVE  /\ GroupDone(e) => Rebuilt(e) = Ok(x.wire)
         /\ ~GroupDone(e) => BuildsAs(x, e, got \cup {<<Start(p, k), Piece(p, n, k)>>}, s, p, n)
         /\ e.created = g.created
<1>1. PICK K, r : /\ Gap(p, K, r) /\ r # Pieces(p) /\ GroupIs(g, K, r, s, p, n)
                  /\ got = {<<Start(p, j), Piece(p, n, j)>> : j \in K}
  BY DEF BuildsAs
<1>2. /\ WrittenAs(x, s, p, n) /\ Cut(p) /\ n \in Nat /\ x.wire = BuildPacket(s, p, n)
      /\ g.created \in Nat /\ x.at <= g.created /\ g.created - x.at <= Lifetime
  BY DEF BuildsAs, WrittenAs
<1>3. k > r
  BY <1>1, <1>2, NotBehind
<1>. DEFINE L == K \cup {k}
            G == got \cup {<<Start(p, k), Piece(p, n, k)>>}
<1>4. PICK t : Gap(p, L, t) /\ GroupIs(e, L, t, s, p, n) /\ e.created = g.created
  <2>. DEFINE e2 == Stored(g, PieceHeader(s, p, id, k), Piece(p, n, k), Start(p, k), more)
  <2>1. \E t : Gap(p, L, t) /\ GroupIs(e2, L, t, s, p, n) /\ e2.created = g.created
    <3>1. Cut(p) /\ n \in Nat /\ Gap(p, K, r) /\ k > r /\ GroupIs(g, K, r, s, p, n)
      BY <1>1, <1>2, <1>3
    <3>. QED BY <3>1, PieceStored
  <2>2. e = e2
    OBVIOUS
  <2>. HIDE DEF e2
  <2>. QED BY <2>1, <2>2
<1>5. L # {} /\ G = {<<Start(p, j), Piece(p, n, j)>> : j \in L}
  BY <1>1
<1>. HIDE DEF L, G
<1>6. /\ GroupDone(e) <=> t = Pieces(p)
      /\ GroupDone(e) => Rebuilt(e) = Ok(BuildPacket(s, p, n))
  BY <1>2, <1>4, <1>5, DoneIsWhole
<1>7. ASSUME ~GroupDone(e) PROVE BuildsAs(x, e, G, s, p, n)
  <2>1. t # Pieces(p)
    BY <1>6, <1>7
  <2>. QED BY <2>1, <1>2, <1>4, <1>5 DEF BuildsAs
<1>. QED BY <1>2, <1>4, <1>6, <1>7 DEF G

LEMMA ReapLeaves ==
  ASSUME NEW k, k \in DOMAIN Reap(groups)
  PROVE  /\ k \in DOMAIN groups /\ Reap(groups)[k] = groups[k]
         /\ fragTime - groups[k].created < ReassemblyTimeout
<1>1. Reap(groups) = Restrict(groups, {i \in DOMAIN groups :
                         fragTime - groups[i].created < ReassemblyTimeout})
  BY DEF Reap, RestrictDomain
<1>. QED BY <1>1 DEF Restrict

\* Two packets of one key in one group's life reuse the identifier soon.
LEMMA GroupsOwn ==
  ASSUME NEW x \in fragSent, NEW y \in fragSent, y.key = x.key, ~IdReusedSoon(x.key),
         x.at \in Nat, y.at \in Nat, fragTime \in Nat, x.at <= fragTime, fragTime - x.at <= Lifetime,
         NEW c \in Nat, y.at <= c, c - y.at <= Lifetime, c <= fragTime, fragTime - c < ReassemblyTimeout
  PROVE  y = x
<1>. SUFFICES ASSUME y # x PROVE FALSE
  OBVIOUS
<1>0. Lifetime \in Nat /\ ReassemblyTimeout \in Nat
  BY ReassemblyAssumption
<1>1. /\ ~(y.at - x.at \in 0..(ReassemblyTimeout + Lifetime))
      /\ ~(x.at - y.at \in 0..(ReassemblyTimeout + Lifetime))
  BY DEF IdReusedSoon
<1>. DEFINE a == x.at
            b == y.at
<1>. HIDE DEF a, b
<1>. QED BY <1>0, <1>1 DEF a, b

LEMMA ToldApartGrows ==
  ASSUME NEW S, IsFiniteSet(S), ToldApart(S), NEW x, NEW n, n = Cardinality(S),
         x.wire.tail # <<>> => x.wire.tail[1] = 100 * n + 1
  PROVE  ToldApart(S \cup {x}) /\ IsFiniteSet(S \cup {x})
<1>1. CASE x \in S
  <2>1. S \cup {x} = S
    BY <1>1
  <2>. QED BY <2>1
<1>2. CASE x \notin S
  <2>. DEFINE T == S \cup {x}
  <2>1. /\ IsFiniteSet(T) /\ Cardinality(T) = n + 1 /\ n \in Nat
    BY <1>2, FS_AddElement, FS_CardinalityType
  <2>2. T = S \cup {x}
    OBVIOUS
  <2>. HIDE DEF T
  <2>3. ASSUME NEW y \in T, y.wire.tail # <<>>
        PROVE  /\ y.wire.tail[1] \in Nat
               /\ y \in S => y.wire.tail[1] < 100 * n
               /\ y \notin S => y = x /\ y.wire.tail[1] = 100 * n + 1
    <3>1. CASE y \in S
      BY <3>1, <2>3 DEF ToldApart
    <3>2. CASE y \notin S
      BY <3>2, <2>1, <2>2, <2>3
    <3>. QED BY <3>1, <3>2
  <2>4. ASSUME NEW y \in T, y.wire.tail # <<>>
        PROVE  y.wire.tail[1] \in Nat /\ y.wire.tail[1] < 100 * Cardinality(T)
    <3>. DEFINE a == y.wire.tail[1]
    <3>1. a \in Nat /\ (a < 100 * n \/ a = 100 * n + 1)
      BY <2>3, <2>4
    <3>. HIDE DEF a
    <3>2. a < 100 * (n + 1)
      BY <3>1, <2>1
    <3>. QED BY <3>1, <3>2, <2>1 DEF a
  <2>5. ASSUME NEW y \in T, NEW z \in T, y.wire.tail # <<>>, z.wire.tail # <<>>,
               z.wire.tail[1] = y.wire.tail[1]
        PROVE  y = z
    <3>1. CASE y \in S /\ z \in S
      BY <3>1, <2>5 DEF ToldApart
    <3>2. CASE y \notin S /\ z \notin S
      BY <3>2, <2>3, <2>5
    <3>3. CASE (y \in S) # (z \in S)
      <4>. DEFINE a == y.wire.tail[1]
                  b == z.wire.tail[1]
      <4>1. a \in Nat /\ b \in Nat /\ a = b
        BY <2>3, <2>5
      <4>2. (a < 100 * n /\ b = 100 * n + 1) \/ (b < 100 * n /\ a = 100 * n + 1)
        <5>1. CASE y \in S /\ z \notin S
          BY <5>1, <2>3, <2>5
        <5>2. CASE y \notin S /\ z \in S
          BY <5>2, <2>3, <2>5
        <5>. QED BY <5>1, <5>2, <3>3
      <4>. HIDE DEF a, b
      <4>. QED BY <4>1, <4>2, <2>1
    <3>. QED BY <3>1, <3>2, <3>3
  <2>. QED BY <2>1, <2>2, <2>4, <2>5 DEF ToldApart
<1>. QED BY <1>1, <1>2

LEMMA SentKeeps ==
  ASSUME fragSent \subseteq fragSent', NEW key
  PROVE  IdReusedSoon(key) => IdReusedSoon(key)'
  BY DEF IdReusedSoon

LEMMA FragInitial == FragInit => FragInv
<1>. SUFFICES ASSUME FragInit PROVE FragInv
  OBVIOUS
<1>1. fragSent = {} /\ fragTime = 0 /\ fragNet = {} /\ fragOut = {} /\ DOMAIN groups = {} /\ DOMAIN fragGot = {}
  BY DEF FragInit
<1>2. IsFiniteSet(fragSent)
  BY <1>1, FS_EmptySet
<1>. QED BY <1>1, <1>2 DEF FragInv, ToldApart, ReassembledIntact

LEMMA SendKeeps ==
  ASSUME FragInv, NEW s, NEW p \in FragPackets, SendFragmented(s, p)
  PROVE  FragInv'
<1>. DEFINE n == Cardinality(fragSent)
            w == BuildPacket(s, p, n)
            id == frag_id[s]
            pkts == FragmentPacket(w, Mtu, id)
            x == [key |-> <<s, Receiver, id>>, wire |-> w, at |-> fragTime]
<1>1. /\ fragTime \in Nat /\ IsFiniteSet(fragSent) /\ (\A y \in fragSent : Written(y))
      /\ ToldApart(fragSent) /\ (\A dg \in fragNet : Flies(dg, fragSent, fragTime))
      /\ DOMAIN fragGot = DOMAIN groups
      /\ (\A key \in DOMAIN groups : GroupOK(key, groups[key], fragGot[key])) /\ ReassembledIntact
  BY DEF FragInv
<1>2. /\ fragNet' = (IF pkts.ok THEN fragNet \cup {[wire |-> f, born |-> fragTime] : f \in Range(pkts.val)}
                               ELSE fragNet)
      /\ fragSent' = fragSent \cup {x}
      /\ groups' = groups /\ fragTime' = fragTime /\ fragOut' = fragOut /\ fragGot' = fragGot
  BY DEF SendFragmented
<1>3. n \in Nat
  BY <1>1, FS_CardinalityType
<1>4. w.tail # <<>> => w.tail[1] = 100 * n + 1
  BY <1>3, WrittenWire
<1>5. x.wire = w /\ x.at = fragTime /\ x.key = <<s, Receiver, id>> /\ x.key[3] = id
  OBVIOUS
<1>. HIDE DEF x
<1>6. WrittenAs(x, s, p, n) /\ Written(x)
  <2>1. WrittenAs(x, s, p, n)
    <3>. HIDE DEF n, id
    <3>. QED BY <1>3, <1>5 DEF WrittenAs, n
  <2>. HIDE DEF n
  <2>. QED BY <2>1, <1>1, <1>5 DEF Written
<1>7. ToldApart(fragSent') /\ IsFiniteSet(fragSent')
  <2>1. x.wire.tail # <<>> => x.wire.tail[1] = 100 * n + 1
    BY <1>4, <1>5
  <2>2. ToldApart(fragSent \cup {x}) /\ IsFiniteSet(fragSent \cup {x})
    BY <2>1, <1>1, ToldApartGrows
  <2>. QED BY <2>2, <1>2
<1>. HIDE DEF n, w, id, pkts
<1>8. ASSUME NEW dg \in fragNet' PROVE Flies(dg, fragSent', fragTime')
  <2>1. CASE dg \in fragNet
    BY <2>1, <1>1, <1>2 DEF Flies
  <2>2. CASE dg \notin fragNet
    <3>1. pkts.ok /\ \E f \in Range(pkts.val) : dg = [wire |-> f, born |-> fragTime]
      BY <2>2, <1>2
    <3>2. dg.born = fragTime /\ dg.wire \in Range(pkts.val)
      BY <3>1
    <3>3. PieceOf(dg, x)
      BY <3>1, <3>2, <1>5 DEF PieceOf, pkts
    <3>4. fragTime - fragTime <= Lifetime /\ fragTime <= fragTime
      BY <1>1, ReassemblyAssumption
    <3>. QED BY <3>2, <3>3, <3>4, <1>1, <1>2 DEF Flies
  <2>. QED BY <2>1, <2>2
<1>9. ASSUME NEW key PROVE IdReusedSoon(key) => IdReusedSoon(key)'
  BY <1>2, SentKeeps
<1>10. ASSUME NEW key \in DOMAIN groups PROVE GroupOK(key, groups[key], fragGot[key])'
  <2>1. GroupOK(key, groups[key], fragGot[key])
    BY <1>1
  <2>. QED BY <2>1, <1>2, <1>9 DEF GroupOK
<1>11. ReassembledIntact'
  BY <1>1, <1>2, <1>9 DEF ReassembledIntact
<1>12. \A y \in fragSent' : Written(y)
  BY <1>1, <1>2, <1>6
<1>. QED BY <1>1, <1>2, <1>7, <1>8, <1>10, <1>11, <1>12 DEF FragInv

LEMMA TickKeeps ==
  ASSUME FragInv, FragTick
  PROVE  FragInv'
<1>1. /\ fragTime' = fragTime + 1 /\ fragTime \in Nat
      /\ fragNet' = {d \in fragNet : fragTime + 1 - d.born <= Lifetime}
      /\ groups' = groups /\ fragSent' = fragSent /\ fragOut' = fragOut /\ fragGot' = fragGot
  BY DEF FragTick, FragInv
<1>2. ASSUME NEW dg \in fragNet' PROVE Flies(dg, fragSent', fragTime')
  <2>1. Flies(dg, fragSent, fragTime) /\ fragTime + 1 - dg.born <= Lifetime
    BY <1>1 DEF FragInv
  <2>. DEFINE b == dg.born
  <2>2. b \in Nat /\ b <= fragTime /\ fragTime + 1 - b <= Lifetime
    BY <2>1 DEF Flies
  <2>. HIDE DEF b
  <2>3. b <= fragTime + 1
    BY <2>2, <1>1
  <2>. QED BY <2>1, <2>2, <2>3, <1>1 DEF Flies, b
<1>3. ASSUME NEW key PROVE IdReusedSoon(key)' <=> IdReusedSoon(key)
  BY <1>1 DEF IdReusedSoon
<1>4. ASSUME NEW key \in DOMAIN groups PROVE GroupOK(key, groups[key], fragGot[key])'
  <2>1. GroupOK(key, groups[key], fragGot[key])
    BY DEF FragInv
  <2>2. CASE IdReusedSoon(key)
    BY <2>2, <1>3 DEF GroupOK
  <2>3. CASE ~IdReusedSoon(key)
    <3>1. PICK x \in fragSent : x.key = key /\ \E s, p, n : BuildsAs(x, groups[key], fragGot[key], s, p, n)
      BY <2>1, <2>3 DEF GroupOK
    <3>2. groups[key].created <= fragTime /\ groups[key].created \in Nat
      BY <2>1, <2>3, <3>1 DEF GroupOK, BuildsAs
    <3>. DEFINE c == groups[key].created
    <3>. HIDE DEF c
    <3>3. c <= fragTime + 1
      BY <3>2, <1>1 DEF c
    <3>. QED BY <3>1, <3>3, <1>1 DEF GroupOK, c
  <2>. QED BY <2>2, <2>3
<1>5. ReassembledIntact'
  BY <1>1, <1>3 DEF ReassembledIntact, FragInv
<1>. QED BY <1>1, <1>2, <1>4, <1>5 DEF FragInv

\* What the header of a piece says to insert.
LEMMA PieceSays ==
  ASSUME NEW s, NEW p, Cut(p), NEW id, NEW k \in 1..Pieces(p), NEW h, h = PieceHeader(s, p, id, k)
  PROVE  /\ h.src_addr = s /\ h.dst_addr = Receiver
         /\ h.ext_headers[1].body.id = id /\ h.ext_headers[1].body.more = Onward(p, k)
         /\ h.ext_headers[1].body.offset * 8 = Start(p, k)
<1>1. h.src_addr = s /\ h.dst_addr = Receiver /\ h.ext_headers = PieceChain(p, id, k)
  BY DEF PieceHeader
<1>2. h.ext_headers[1] = FragExt(p, id, k)
  BY <1>1, PieceChainLegal DEF Cut
<1>. DEFINE q == Start(p, k) \div 8
            o == q % OffsetRange
            b == FragExt(p, id, k).body
<1>3. b = [id |-> id, offset |-> o, more |-> k # Pieces(p)]
  <2>. HIDE DEF q
  <2>. QED BY DEF FragExt, FragmentExt, ExtHeader, q
<1>4. o * 8 = Start(p, k)
  BY OffsetsFit
<1>. HIDE DEF o, b
<1>5. b.id = id /\ b.offset = o /\ b.more = Onward(p, k)
  BY <1>3 DEF Onward
<1>. QED BY <1>1, <1>2, <1>4, <1>5 DEF b

\* The five ways through insert.
LEMMA InsertOutcomes ==
  ASSUME NEW d, Insert(d)
  PROVE  LET h == d.header
             frag == h.ext_headers[1].body
             start == frag.offset * 8
             key == <<h.src_addr, h.dst_addr, frag.id>>
             live == Reap(groups)
             g == IF key \in DOMAIN live THEN live[key] ELSE GroupNew(h)
             g2 == Stored(g, h, d.payload, start, frag.more)
             taken == IF key \in DOMAIN live THEN fragGot[key] ELSE {}
         IN  \/ UNCHANGED <<groups, fragOut, fragGot>>
             \/ groups' = live /\ fragGot' = Restrict(fragGot, DOMAIN live) /\ UNCHANGED fragOut
             \/ /\ groups' = Put(live, key, g)
                /\ fragGot' = Put(Restrict(fragGot, DOMAIN live), key, taken)
                /\ UNCHANGED fragOut
             \/ /\ ~Refused(g, start, start + Len(d.payload), frag.more)
                /\ GroupDone(g2)
                /\ groups' = Restrict(live, DOMAIN live \ {key})
                /\ fragGot' = Restrict(fragGot, DOMAIN live \ {key})
                /\ fragOut' = fragOut \cup {[key |-> key, wire |-> Rebuilt(g2)]}
             \/ /\ ~Refused(g, start, start + Len(d.payload), frag.more)
                /\ ~GroupDone(g2)
                /\ groups' = Put(live, key, g2)
                /\ fragGot' = Put(Restrict(fragGot, DOMAIN live), key, taken \cup {<<start, d.payload>>})
                /\ UNCHANGED fragOut
  BY Zenon DEF Insert

\* The group a fragment meets, or the one it starts, builds the fragment's packet.
MetBy(x, g, got, d) ==
  \E s, p, n : \E k \in 1..Pieces(p) :
    /\ BuildsAs(x, g, got, s, p, n)
    /\ d = [header |-> PieceHeader(s, p, x.key[3], k), payload |-> Piece(p, n, k)]

LEMMA GroupMet ==
  ASSUME FragInv, NEW dg \in fragNet, NEW x \in fragSent, PieceOf(dg, x),
         dg.born <= fragTime, fragTime - dg.born <= Lifetime,
         "FRAGMENT" \in dg.wire.flags, DecodeFault(dg.wire) = "none",
         ~IdReusedSoon(x.key),
         NEW g, NEW got, NEW h, h = Decode(dg.wire).val.header,
         x.key \in DOMAIN Reap(groups) => g = groups[x.key] /\ got = fragGot[x.key],
         x.key \notin DOMAIN Reap(groups) => g = GroupNew(h) /\ got = {}
  PROVE  g.created <= fragTime /\ MetBy(x, g, got, Decode(dg.wire).val)
<1>. DEFINE id == x.key[3]
<1>1. fragTime \in Nat /\ x.at \in Nat /\ dg.born = x.at /\ Written(x)
  BY DEF FragInv, Written, PieceOf
<1>2. ASSUME NEW s, NEW p, NEW n, WrittenAs(x, s, p, n)
      PROVE  /\ Cut(p) /\ n \in Nat
             /\ \E k \in 1..Pieces(p) :
                  Decode(dg.wire).val = [header |-> PieceHeader(s, p, id, k), payload |-> Piece(p, n, k)]
  <2>1. Cut(p) /\ PieceFound(Decode(dg.wire).val, s, p, n, x.key[3])
    BY <1>2, FragmentFrom
  <2>. QED BY <1>2, <2>1 DEF WrittenAs, PieceFound
<1>3. CASE x.key \in DOMAIN Reap(groups)
  <2>1. /\ x.key \in DOMAIN groups /\ g = groups[x.key] /\ got = fragGot[x.key]
        /\ fragTime - g.created < ReassemblyTimeout
    BY <1>3, ReapLeaves
  <2>2. GroupOK(x.key, g, got)
    BY <2>1 DEF FragInv
  <2>3. PICK y \in fragSent : y.key = x.key /\ \E s, p, n : BuildsAs(y, g, got, s, p, n)
    BY <2>2 DEF GroupOK
  <2>4. PICK s, p, n : BuildsAs(y, g, got, s, p, n)
    BY <2>3
  <2>5. g.created <= fragTime
    BY <2>2 DEF GroupOK
  <2>6. g.created \in Nat /\ y.at <= g.created /\ g.created - y.at <= Lifetime
    BY <2>4 DEF BuildsAs
  <2>7. y.at \in Nat
    BY DEF FragInv, Written
  <2>8. x.at <= fragTime /\ fragTime - x.at <= Lifetime
    BY <1>1
  <2>9. y = x
    BY <1>1, <2>1, <2>3, <2>5, <2>6, <2>7, <2>8, GroupsOwn
  <2>10. BuildsAs(x, g, got, s, p, n) /\ WrittenAs(x, s, p, n)
    BY <2>4, <2>9 DEF BuildsAs
  <2>. QED BY <2>5, <2>10, <1>2 DEF MetBy
<1>4. CASE x.key \notin DOMAIN Reap(groups)
  <2>1. PICK s, p, n : WrittenAs(x, s, p, n)
    BY <1>1 DEF Written
  <2>2. PICK k \in 1..Pieces(p) :
          Decode(dg.wire).val = [header |-> PieceHeader(s, p, id, k), payload |-> Piece(p, n, k)]
    BY <2>1, <1>2
  <2>3. Cut(p) /\ n \in Nat
    BY <2>1, <1>2
  <2>4. g = GroupNew(PieceHeader(s, p, id, k)) /\ got = {}
    BY <1>4, <2>2
  <2>5. GroupIs(g, {}, 0, s, p, n) /\ g.created = fragTime /\ Gap(p, {}, 0)
    BY <2>3, <2>4, GroupStarts
  <2>6. 0 # Pieces(p)
    <3>1. Pieces(p) \in Nat
      BY <2>3, PiecesLie
    <3>. QED BY <3>1
  <2>7. got = {<<Start(p, j), Piece(p, n, j)>> : j \in {}}
    BY <2>4
  <2>8. BuildsAs(x, g, got, s, p, n)
    BY <2>1, <2>3, <2>5, <2>6, <2>7, <1>1 DEF BuildsAs
  <2>9. g.created <= fragTime
    BY <2>5, <1>1
  <2>. QED BY <2>2, <2>8, <2>9 DEF MetBy
<1>. QED BY <1>3, <1>4

LEMMA PutKeeps ==
  ASSUME NEW f, NEW t, DOMAIN t = DOMAIN f, \A i \in DOMAIN f : GroupOK(i, f[i], t[i]),
         NEW key, NEW v, NEW u, GroupOK(key, v, u)
  PROVE  /\ DOMAIN Put(t, key, u) = DOMAIN Put(f, key, v)
         /\ \A i \in DOMAIN Put(f, key, v) : GroupOK(i, Put(f, key, v)[i], Put(t, key, u)[i])
<1>1. /\ DOMAIN Put(t, key, u) = DOMAIN f \cup {key} /\ DOMAIN Put(f, key, v) = DOMAIN f \cup {key}
      /\ \A i \in DOMAIN f \cup {key} :
           /\ Put(f, key, v)[i] = (IF i = key THEN v ELSE f[i])
           /\ Put(t, key, u)[i] = (IF i = key THEN u ELSE t[i])
  BY DEF Put
<1>2. ASSUME NEW i \in DOMAIN f \cup {key} PROVE GroupOK(i, Put(f, key, v)[i], Put(t, key, u)[i])
  <2>1. CASE i = key
    BY <2>1, <1>1
  <2>2. CASE i # key
    BY <2>2, <1>1
  <2>. QED BY <2>1, <2>2
<1>. QED BY <1>1, <1>2

LEMMA ReceiveKeeps ==
  ASSUME FragInv, NEW dg \in fragNet, ReceiveFragment(dg)
  PROVE  FragInv'
<1>. DEFINE d == Decode(dg.wire).val
            h == d.header
            frag == h.ext_headers[1].body
            start == frag.offset * 8
            key == <<h.src_addr, h.dst_addr, frag.id>>
            live == Reap(groups)
            g == IF key \in DOMAIN live THEN live[key] ELSE GroupNew(h)
            g2 == Stored(g, h, d.payload, start, frag.more)
            taken == IF key \in DOMAIN live THEN fragGot[key] ELSE {}
            keep == Restrict(fragGot, DOMAIN live)
            grown == taken \cup {<<start, d.payload>>}
            refused == Refused(g, start, start + Len(d.payload), frag.more)
<1>1. /\ fragTime \in Nat /\ IsFiniteSet(fragSent) /\ (\A y \in fragSent : Written(y))
      /\ ToldApart(fragSent) /\ (\A e \in fragNet : Flies(e, fragSent, fragTime))
      /\ DOMAIN fragGot = DOMAIN groups
      /\ (\A k \in DOMAIN groups : GroupOK(k, groups[k], fragGot[k])) /\ ReassembledIntact
  BY DEF FragInv
<1>2. /\ "FRAGMENT" \in dg.wire.flags /\ DecodeFault(dg.wire) = "none" /\ Insert(d)
      /\ fragNet' = fragNet \ {dg} /\ fragTime' = fragTime /\ fragSent' = fragSent
  BY DEF ReceiveFragment
<1>3. PICK x \in fragSent : PieceOf(dg, x)
  BY <1>1 DEF Flies
<1>4. dg.born <= fragTime /\ fragTime - dg.born <= Lifetime
  BY <1>1 DEF Flies
<1>5. key = x.key
  <2>1. PICK s, p, n : WrittenAs(x, s, p, n)
    BY <1>1 DEF Written
  <2>2. Cut(p) /\ PieceFound(d, s, p, n, x.key[3])
    BY <2>1, <1>2, <1>3, FragmentFrom
  <2>3. PICK k \in 1..Pieces(p) : h = PieceHeader(s, p, x.key[3], k)
    BY <2>2 DEF PieceFound
  <2>4. h.src_addr = s /\ h.dst_addr = Receiver /\ frag.id = x.key[3]
    <3>. HIDE DEF d
    <3>. QED BY <2>2, <2>3, PieceSays
  <2>5. x.key = <<s, Receiver, x.key[3]>>
    BY <2>1 DEF WrittenAs
  <2>. HIDE DEF h, frag
  <2>. QED BY <2>4, <2>5
<1>6. \/ UNCHANGED <<groups, fragOut, fragGot>>
      \/ groups' = live /\ fragGot' = keep /\ UNCHANGED fragOut
      \/ groups' = Put(live, key, g) /\ fragGot' = Put(keep, key, taken) /\ UNCHANGED fragOut
      \/ /\ ~refused /\ GroupDone(g2)
         /\ groups' = Restrict(live, DOMAIN live \ {key})
         /\ fragGot' = Restrict(fragGot, DOMAIN live \ {key})
         /\ fragOut' = fragOut \cup {[key |-> key, wire |-> Rebuilt(g2)]}
      \/ /\ ~refused /\ ~GroupDone(g2)
         /\ groups' = Put(live, key, g2) /\ fragGot' = Put(keep, key, grown) /\ UNCHANGED fragOut
  BY <1>2, InsertOutcomes, Zenon
<1>7. ASSUME ~IdReusedSoon(x.key)
      PROVE  /\ GroupOK(key, g, taken)
             /\ ~refused /\ ~GroupDone(g2) => GroupOK(key, g2, grown)
             /\ ~refused /\ GroupDone(g2) => Rebuilt(g2) = Ok(x.wire)
  <2>1. /\ key \in DOMAIN live => g = groups[key] /\ taken = fragGot[key]
        /\ key \notin DOMAIN live => g = GroupNew(h) /\ taken = {}
    BY ReapLeaves
  <2>. HIDE DEF g, taken, key, live
  <2>2. g.created <= fragTime /\ MetBy(x, g, taken, d)
    <3>1. x.key \in DOMAIN Reap(groups) => g = groups[x.key] /\ taken = fragGot[x.key]
      BY <2>1, <1>5 DEF live
    <3>2. x.key \notin DOMAIN Reap(groups) => g = GroupNew(h) /\ taken = {}
      BY <2>1, <1>5 DEF live
    <3>3. "FRAGMENT" \in dg.wire.flags /\ DecodeFault(dg.wire) = "none" /\ PieceOf(dg, x)
      BY <1>2, <1>3
    <3>. QED BY <3>1, <3>2, <3>3, <1>4, <1>7, GroupMet
  <2>3. PICK s, p, n : \E k \in 1..Pieces(p) :
              /\ BuildsAs(x, g, taken, s, p, n)
              /\ d = [header |-> PieceHeader(s, p, x.key[3], k), payload |-> Piece(p, n, k)]
    BY <2>2 DEF MetBy
  <2>4. PICK k \in 1..Pieces(p) :
              /\ BuildsAs(x, g, taken, s, p, n)
              /\ d = [header |-> PieceHeader(s, p, x.key[3], k), payload |-> Piece(p, n, k)]
    BY <2>3
  <2>. HIDE DEF d
  <2>5. h = PieceHeader(s, p, x.key[3], k) /\ d.payload = Piece(p, n, k) /\ Cut(p)
    BY <2>4 DEF BuildsAs
  <2>. HIDE DEF h
  <2>6. start = Start(p, k) /\ frag.more = Onward(p, k)
    BY <2>5, PieceSays
  <2>. HIDE DEF start, frag
  <2>. DEFINE more == frag.more
              end == start + Len(d.payload)
  <2>7. g2 = Stored(g, PieceHeader(s, p, x.key[3], k), Piece(p, n, k), Start(p, k), more)
    BY <2>5, <2>6
  <2>8. refused <=> Refused(g, Start(p, k), end, more)
    BY <2>6
  <2>. HIDE DEF g2, refused, more, end
  <2>9. more = Onward(p, k)
    BY <2>6 DEF more
  <2>10. ASSUME ~refused
         PROVE  /\ GroupDone(g2) => Rebuilt(g2) = Ok(x.wire)
                /\ ~GroupDone(g2) => BuildsAs(x, g2, taken \cup {<<Start(p, k), Piece(p, n, k)>>}, s, p, n)
                /\ g2.created = g.created
    BY <2>4, <2>7, <2>8, <2>9, <2>10, GroupSteps
  <2>11. grown = taken \cup {<<Start(p, k), Piece(p, n, k)>>}
    BY <2>5, <2>6
  <2>12. GroupOK(key, g, taken)
    BY <2>2, <2>4, <1>5 DEF GroupOK
  <2>13. ASSUME ~refused, ~GroupDone(g2) PROVE GroupOK(key, g2, grown)
    <3>1. BuildsAs(x, g2, grown, s, p, n) /\ g2.created <= fragTime
      BY <2>2, <2>10, <2>11, <2>13
    <3>. QED BY <3>1, <1>5 DEF GroupOK
  <2>. QED BY <2>10, <2>12, <2>13
<1>8. /\ GroupOK(key, g, taken)
      /\ ~refused /\ ~GroupDone(g2) => GroupOK(key, g2, grown)
      /\ ~refused /\ GroupDone(g2) => IdReusedSoon(key) \/ Rebuilt(g2) = Ok(x.wire)
  <2>1. CASE IdReusedSoon(key)
    BY <2>1 DEF GroupOK
  <2>2. CASE ~IdReusedSoon(key)
    BY <2>2, <1>5, <1>7
  <2>. QED BY <2>1, <2>2
<1>9. /\ DOMAIN live \subseteq DOMAIN groups /\ DOMAIN keep = DOMAIN live
      /\ \A i \in DOMAIN live : GroupOK(i, live[i], keep[i])
  <2>1. \A i \in DOMAIN live : i \in DOMAIN groups /\ live[i] = groups[i]
    BY ReapLeaves
  <2>. HIDE DEF live
  <2>. QED BY <2>1, <1>1 DEF Restrict
<1>. HIDE DEF d, h, frag, start, key, live, g, g2, taken, keep, grown, refused
<1>10. DOMAIN fragGot' = DOMAIN groups' /\ \A i \in DOMAIN groups' : GroupOK(i, groups'[i], fragGot'[i])
  <2>1. CASE UNCHANGED <<groups, fragOut, fragGot>>
    BY <2>1, <1>1
  <2>2. CASE groups' = live /\ fragGot' = keep
    BY <2>2, <1>9
  <2>3. CASE groups' = Put(live, key, g) /\ fragGot' = Put(keep, key, taken)
    BY <2>3, <1>8, <1>9, PutKeeps
  <2>4. CASE /\ groups' = Restrict(live, DOMAIN live \ {key})
             /\ fragGot' = Restrict(fragGot, DOMAIN live \ {key})
    <3>1. \A i \in DOMAIN live : keep[i] = fragGot[i]
      BY DEF keep, Restrict
    <3>. QED BY <3>1, <2>4, <1>9 DEF Restrict
  <2>5. CASE /\ ~refused /\ ~GroupDone(g2)
             /\ groups' = Put(live, key, g2) /\ fragGot' = Put(keep, key, grown)
    BY <2>5, <1>8, <1>9, PutKeeps
  <2>. QED BY <1>6, <2>1, <2>2, <2>3, <2>4, <2>5
<1>11. ASSUME NEW i PROVE IdReusedSoon(i)' <=> IdReusedSoon(i)
  BY <1>2 DEF IdReusedSoon
<1>12. \A i \in DOMAIN groups' : GroupOK(i, groups[i], fragGot[i])'
  <2>. SUFFICES ASSUME NEW i \in DOMAIN groups' PROVE GroupOK(i, groups[i], fragGot[i])'
    OBVIOUS
  <2>1. GroupOK(i, groups'[i], fragGot'[i])
    BY <1>10
  <2>. QED BY <2>1, <1>2, <1>11 DEF GroupOK
<1>13. ReassembledIntact'
  <2>1. ASSUME NEW o \in fragOut PROVE IdReusedSoon(o.key)' \/ \E y \in fragSent' : y.key = o.key /\ o.wire = Ok(y.wire)
    BY <1>1, <1>2, <1>11 DEF ReassembledIntact
  <2>2. CASE fragOut' = fragOut
    BY <2>1, <2>2 DEF ReassembledIntact
  <2>3. CASE ~refused /\ GroupDone(g2) /\ fragOut' = fragOut \cup {[key |-> key, wire |-> Rebuilt(g2)]}
    <3>1. ASSUME NEW o, o = [key |-> key, wire |-> Rebuilt(g2)]
          PROVE  IdReusedSoon(o.key)' \/ \E y \in fragSent' : y.key = o.key /\ o.wire = Ok(y.wire)
      <4>1. o.key = key /\ o.wire = Rebuilt(g2)
        BY <3>1
      <4>2. CASE IdReusedSoon(o.key)
        BY <4>2, <1>11
      <4>3. CASE ~IdReusedSoon(o.key)
        BY <4>1, <4>3, <2>3, <1>2, <1>5, <1>8
      <4>. QED BY <4>2, <4>3
    <3>. QED BY <2>1, <2>3, <3>1 DEF ReassembledIntact
  <2>. QED BY <1>6, <2>2, <2>3
<1>14. \A e \in fragNet' : Flies(e, fragSent', fragTime')
  BY <1>1, <1>2
<1>. QED BY <1>1, <1>2, <1>10, <1>12, <1>13, <1>14 DEF FragInv

LEMMA FragStep == FragInv /\ [FragNext]_fragVars => FragInv'
<1>. SUFFICES ASSUME FragInv, [FragNext]_fragVars PROVE FragInv'
  OBVIOUS
<1>1. ASSUME NEW s \in FragSenders, NEW p \in FragPackets, SendFragmented(s, p) PROVE FragInv'
  BY <1>1, SendKeeps
<1>2. ASSUME NEW dg \in fragNet, ReceiveFragment(dg) PROVE FragInv'
  BY <1>2, ReceiveKeeps
<1>3. CASE FragTick
  BY <1>3, TickKeeps
<1>4. CASE UNCHANGED fragVars
  <2>1. /\ groups' = groups /\ fragNet' = fragNet /\ fragTime' = fragTime /\ fragSent' = fragSent
        /\ fragOut' = fragOut /\ fragGot' = fragGot
    BY <1>4 DEF fragVars
  <2>2. ASSUME NEW i PROVE IdReusedSoon(i)' <=> IdReusedSoon(i)
    BY <2>1 DEF IdReusedSoon
  <2>3. ASSUME NEW i \in DOMAIN groups PROVE GroupOK(i, groups[i], fragGot[i])'
    <3>1. GroupOK(i, groups[i], fragGot[i])
      BY DEF FragInv
    <3>. QED BY <3>1, <2>1, <2>2 DEF GroupOK
  <2>4. ReassembledIntact'
    BY <2>1, <2>2 DEF ReassembledIntact, FragInv
  <2>. QED BY <2>1, <2>3, <2>4 DEF FragInv
<1>. QED BY <1>1, <1>2, <1>3, <1>4 DEF FragNext

\* What the fragments of a packet show to a group that has seen them all.
LEMMA AllSeen ==
  ASSUME NEW x, NEW s, NEW p, NEW n, WrittenAs(x, s, p, n), NEW got,
         NEW frags, frags = FragmentPacket(x.wire, Mtu, x.key[3]), frags.ok, Len(frags.val) > 1,
         \A f \in Range(frags.val) : <<f.exts[1].body.offset * 8, f.tail>> \in got
  PROVE  /\ Cut(p) /\ 1 \in 1..Pieces(p)
         /\ \A k \in 1..Pieces(p) : <<Start(p, k), Piece(p, n, k)>> \in got
<1>. DEFINE id == x.key[3]
            w == x.wire
<1>1. p \in FragPackets /\ n \in Nat /\ w = BuildPacket(s, p, n)
  BY DEF WrittenAs
<1>. HIDE DEF id, w
<1>2. frags.val # <<w>>
  <2>. SUFFICES ASSUME frags.val = <<w>> PROVE FALSE
    OBVIOUS
  <2>1. Len(<<w>>) = 1
    OBVIOUS
  <2>2. Len(frags.val) = 1
    BY <2>1
  <2>3. ~(1 > 1)
    OBVIOUS
  <2>. QED BY <2>2, <2>3
<1>3. frags.val = <<w>> \/ Pieced(frags.val, s, p, n, id)
  <2>1. frags = FragmentPacket(w, Mtu, id)
    BY DEF w, id
  <2>. DEFINE f == FragmentPacket(w, Mtu, id)
  <2>2. f.ok
    BY <2>1
  <2>3. f.val = <<w>> \/ Pieced(f.val, s, p, n, id)
    BY <1>1, <2>2, PacketCut
  <2>. HIDE DEF f
  <2>. QED BY <2>1, <2>3 DEF f
<1>4. /\ Cut(p) /\ frags.val = [k \in 1..Pieces(p) |-> PieceWire(s, p, n, id, k)]
      /\ \A k \in 1..Pieces(p) : EncodeFault(PieceHeader(s, p, id, k), Piece(p, n, k)) = "none"
  BY <1>2, <1>3 DEF Pieced
<1>5. Pieces(p) \in Nat
  BY <1>4, PiecesLie
<1>6. 1 \in 1..Pieces(p)
  <2>1. Len(frags.val) = Pieces(p)
    <3>1. Len([k \in 1..Pieces(p) |-> PieceWire(s, p, n, id, k)]) = Pieces(p)
      BY <1>5
    <3>. QED BY <3>1, <1>4
  <2>. QED BY <2>1, <1>5
<1>7. ASSUME NEW k \in 1..Pieces(p) PROVE <<Start(p, k), Piece(p, n, k)>> \in got
  <2>. DEFINE f == PieceWire(s, p, n, id, k)
  <2>1. f.exts[1].body = FragExt(p, id, k).body /\ f.tail = Piece(p, n, k)
    <3>1. EncodeFault(PieceHeader(s, p, id, k), Piece(p, n, k)) = "none" /\ Cut(p) /\ n \in Nat
      BY <1>1, <1>4
    <3>2. ShowsPiece(PieceWire(s, p, n, id, k), p, n, id, k)
      BY <3>1, PieceDecoded
    <3>. QED BY <3>2 DEF ShowsPiece
  <2>2. f \in Range(frags.val)
    BY <1>4 DEF Range
  <2>. HIDE DEF f
  <2>3. FragExt(p, id, k).body.offset = (Start(p, k) \div 8) % OffsetRange
    <3>. DEFINE q == Start(p, k) \div 8
    <3>. HIDE DEF q
    <3>. QED BY DEF FragExt, FragmentExt, ExtHeader, q
  <2>4. f.exts[1].body.offset * 8 = Start(p, k)
    BY <2>1, <2>3, <1>4, OffsetsFit
  <2>. QED BY <2>1, <2>2, <2>4
<1>. QED BY <1>4, <1>6, <1>7

LEMMA FirstPieceTells ==
  ASSUME NEW x, NEW s, NEW p, NEW n, WrittenAs(x, s, p, n), Cut(p), 1 \in 1..Pieces(p)
  PROVE  /\ x.wire.tail # <<>> /\ x.wire.tail[1] = Piece(p, n, 1)[1]
         /\ Piece(p, n, 1)[1] = 100 * n + 1 /\ n \in Nat
<1>1. p \in FragPackets /\ n \in Nat /\ x.wire = BuildPacket(s, p, n)
  BY DEF WrittenAs
<1>2. Start(p, 1) = 0 /\ Start(p, 1) < Reach(p, 1) /\ Reach(p, 1) \in Nat /\ p.len \in Nat
      /\ Start(p, 1) < p.len
  <2>1. Start(p, 1) = 0
    BY StartsApart
  <2>. QED BY <2>1, PiecesLie
<1>3. Piece(p, n, 1)[1] = 100 * n + 1
  <2>1. 1 \in 1..Reach(p, 1) - Start(p, 1)
    BY <1>2
  <2>2. Piece(p, n, 1)[1] = 100 * n + (Start(p, 1) + 1)
    BY <2>1, <1>1, PieceLength
  <2>. QED BY <2>2, <1>2
<1>4. x.wire.tail # <<>> /\ x.wire.tail[1] = 100 * n + 1
  BY <1>1, <1>2, WrittenWire
<1>. QED BY <1>1, <1>3, <1>4

LEMMA NoneWithheld == FragInv => NothingWithheld
<1>. SUFFICES ASSUME FragInv, NEW key \in DOMAIN groups, NEW y \in fragSent, y.key = key,
                     ~IdReusedSoon(key),
                     NEW frags, frags = FragmentPacket(y.wire, Mtu, key[3]), frags.ok, Len(frags.val) > 1,
                     \A f \in Range(frags.val) : <<f.exts[1].body.offset * 8, f.tail>> \in fragGot[key]
              PROVE  FALSE
  BY DEF NothingWithheld
<1>1. PICK x \in fragSent : x.key = key /\ \E s, p, n : BuildsAs(x, groups[key], fragGot[key], s, p, n)
  BY DEF FragInv, GroupOK
<1>2. PICK s, p, n : BuildsAs(x, groups[key], fragGot[key], s, p, n)
  BY <1>1
<1>3. PICK K, r : /\ Gap(p, K, r) /\ r # Pieces(p)
                  /\ fragGot[key] = {<<Start(p, k), Piece(p, n, k)>> : k \in K}
  BY <1>2 DEF BuildsAs
<1>4. WrittenAs(x, s, p, n) /\ Cut(p)
  BY <1>2 DEF BuildsAs
<1>5. K \in SUBSET (1..Pieces(p)) /\ r \in 0..Pieces(p) /\ r + 1 \notin K
  BY <1>3 DEF Gap
<1>6. PICK s2, p2, n2 : WrittenAs(y, s2, p2, n2)
  BY DEF FragInv, Written
<1>7. /\ Cut(p2) /\ 1 \in 1..Pieces(p2)
      /\ \A k \in 1..Pieces(p2) : <<Start(p2, k), Piece(p2, n2, k)>> \in fragGot[key]
  BY <1>6, AllSeen
<1>8. PICK j \in K : <<Start(p2, 1), Piece(p2, n2, 1)>> = <<Start(p, j), Piece(p, n, j)>>
  BY <1>3, <1>7
<1>9. j = 1 /\ Piece(p2, n2, 1) = Piece(p, n, 1) /\ 1 \in 1..Pieces(p)
  <2>1. Start(p2, 1) = 0 /\ j \in 1..Pieces(p)
    BY <1>5, <1>7, StartsApart
  <2>2. Start(p, j) = 0 /\ Piece(p2, n2, 1) = Piece(p, n, j)
    BY <2>1, <1>8
  <2>3. j = 1
    BY <2>1, <2>2, <1>4, StartsApart
  <2>. QED BY <2>1, <2>2, <2>3
<1>10. y = x
  <2>1. x.wire.tail # <<>> /\ x.wire.tail[1] = Piece(p, n, 1)[1]
    BY <1>4, <1>9, FirstPieceTells
  <2>2. y.wire.tail # <<>> /\ y.wire.tail[1] = Piece(p2, n2, 1)[1]
    BY <1>6, <1>7, FirstPieceTells
  <2>. QED BY <2>1, <2>2, <1>9 DEF FragInv, ToldApart
<1>11. \A k \in 1..Pieces(p) : <<Start(p, k), Piece(p, n, k)>> \in fragGot[key]
  BY <1>4, <1>10, AllSeen
<1>12. r + 1 \in 1..Pieces(p)
  <2>1. Pieces(p) \in Nat
    BY <1>4, PiecesLie
  <2>. QED BY <2>1, <1>3, <1>5
<1>13. PICK k \in K : <<Start(p, r + 1), Piece(p, n, r + 1)>> = <<Start(p, k), Piece(p, n, k)>>
  BY <1>3, <1>11, <1>12
<1>14. r + 1 = k
  <2>1. Start(p, r + 1) = Start(p, k) /\ k \in 1..Pieces(p)
    BY <1>5, <1>13
  <2>. QED BY <2>1, <1>4, <1>12, StartsApart
<1>. QED BY <1>5, <1>14

(* Fragmentation loses nothing and mixes nothing (fragment.rs: fragment_packet, *)
(* Reassembler::insert): what insert hands up is a packet that was sent, header, *)
(* chain and payload, and it hands the packet up with the fragment that          *)
(* completes it, whatever the order, the losses, the expiries and the other      *)
(* groups - unless the source reused the identifier within the life of a         *)
(* fragment and of a group.                                                      *)
THEOREM FragmentsAreFaithful == FragSpec => []FragmentsFaithful
<1>1. FragInit => FragInv
  BY FragInitial
<1>2. FragInv /\ [FragNext]_fragVars => FragInv'
  BY FragStep
<1>3. FragInv => FragmentsFaithful
  BY NoneWithheld DEF FragInv, FragmentsFaithful
<1>. QED BY <1>1, <1>2, <1>3, PTL DEF FragSpec

=============================================================================
