-------------------------- MODULE TunnelKeysProofs --------------------------
(***************************************************************************)
(* Proofs about TunnelKeys for every window width, grace, stride, rotation *)
(* volume and bound.                                                       *)
(***************************************************************************)
EXTENDS TunnelKeys, TLAPS

-----------------------------------------------------------------------------
(* Facts about the operators. *)

\* advance_epoch stays in the association's residue class.
LEMMA StrideStep ==
  ASSUME NEW x \in Nat, InShard(x)
  PROVE  InShard(x + Stride)
<1>. DEFINE q == x \div Stride
            p == (x + Stride) \div Stride
            r == (x + Stride) % Stride
<1>0. Stride \in Nat \ {0}
  BY ShardAssumption
<1>1. q \in Int /\ x = Stride * q + Shard /\ Shard \in 0 .. Stride - 1
  BY <1>0, ShardAssumption DEF InShard
<1>2. p \in Int /\ x + Stride = Stride * p + r /\ r \in 0 .. Stride - 1
  BY <1>0
<1>. DEFINE d == p - q - 1
<1>3. d \in Int /\ Stride * d = Shard - r
  <2>. HIDE DEF q, p, r
  <2>1. Stride * (p - q - 1) = Stride * p - Stride * q - Stride
    BY <1>0, <1>1, <1>2
  <2>. QED BY <2>1, <1>0, <1>1, <1>2
<1>. HIDE DEF q, p, r, d
<1>4. d <= 0
  <2>1. SUFFICES ASSUME d >= 1 PROVE FALSE
    BY <1>3
  <2>2. Stride * d >= Stride
    BY <2>1, <1>0, <1>3
  <2>. QED BY <2>2, <1>0, <1>1, <1>2, <1>3
<1>5. d >= 0
  <2>1. SUFFICES ASSUME d <= -1 PROVE FALSE
    BY <1>3
  <2>2. Stride * d <= -Stride
    BY <2>1, <1>0, <1>3
  <2>. QED BY <2>2, <1>0, <1>1, <1>2, <1>3
<1>6. d = 0
  BY <1>3, <1>4, <1>5
<1>7. r = Shard
  BY <1>6, <1>3, <1>0, <1>1, <1>2
<1>. QED BY <1>7 DEF r, InShard

\* RxWindow::accept keeps a window a window.
LEMMA MarkType ==
  ASSUME NEW w \in Windows, NEW c \in Nat
  PROVE  Mark(w, c) \in Windows
<1>1. CASE ~Accepts(w, c)
  BY <1>1 DEF Mark
<1>2. CASE Accepts(w, c) /\ Ahead(w, c)
  BY <1>2, WidthAssumption DEF Mark, Windows, ShiftLeft
<1>3. CASE Accepts(w, c) /\ ~Ahead(w, c)
  <2>1. w.top - c \in 0 .. RxWindowBits
    BY <1>3, WidthAssumption DEF Accepts, Ahead, Windows
  <2>2. Mark(w, c) = [w EXCEPT !.mask = @ \cup {w.top - c}]
    BY <1>3 DEF Mark
  <2>. QED BY <2>1, <2>2 DEF Windows
<1>. QED BY <1>1, <1>2, <1>3

\* accept refuses exactly the counters the window covers.
LEMMA CoveredRefused ==
  ASSUME NEW w \in Windows, NEW c \in Nat \ {0}, Covers(w, c)
  PROVE  ~Accepts(w, c)
  BY WidthAssumption DEF Covers, Accepts, Ahead, Windows

\* accept covers the counter it accepted, and uncovers none.
LEMMA MarkCovers ==
  ASSUME NEW w \in Windows, NEW c \in Nat \ {0}, NEW d \in Nat \ {0},
         0 \in w.mask \/ w = EmptyWindow,
         d = c \/ Covers(w, d)
  PROVE  Covers(Mark(w, c), d)
<1>1. CASE ~Accepts(w, c)
  <2>1. Covers(w, c)
    BY <1>1, WidthAssumption DEF Covers, Accepts, Ahead, Windows
  <2>. QED BY <1>1, <2>1 DEF Mark
<1>2. CASE Accepts(w, c) /\ Ahead(w, c)
  <2>1. /\ Mark(w, c).top = c
        /\ Mark(w, c).mask = IF c - w.top >= RxWindowBits THEN {0}
                             ELSE ShiftLeft(w.mask, c - w.top) \cup {0}
    BY <1>2 DEF Mark
  <2>2. CASE d = c
    BY <2>1, <2>2 DEF Covers
  <2>3. CASE Covers(w, d)
    <3>1. d <= w.top /\ w.top < c
      BY <1>2, <2>3 DEF Covers, Ahead, Windows
    <3>2. CASE c - w.top >= RxWindowBits
      BY <3>1, <3>2, <2>1, WidthAssumption DEF Covers, Windows
    <3>3. CASE c - w.top < RxWindowBits
      <4>1. CASE c - d >= RxWindowBits
        BY <3>1, <4>1, <2>1, WidthAssumption DEF Covers, Windows
      <4>2. CASE c - d < RxWindowBits
        <5>1. w.top - d \in w.mask
          BY <4>2, <3>1, <2>3, WidthAssumption DEF Covers, Windows
        <5>2. /\ c - d \in 0 .. RxWindowBits
              /\ c - d >= c - w.top
              /\ (c - d) - (c - w.top) = w.top - d
          BY <4>2, <3>1, WidthAssumption DEF Windows
        <5>3. c - d \in ShiftLeft(w.mask, c - w.top)
          BY <5>1, <5>2 DEF ShiftLeft
        <5>. QED BY <5>3, <3>1, <3>3, <2>1, WidthAssumption DEF Covers, Windows
      <4>. QED BY <4>1, <4>2, <3>1, WidthAssumption DEF Windows
    <3>. QED BY <3>2, <3>3, <3>1, WidthAssumption DEF Windows
  <2>. QED BY <2>2, <2>3
<1>3. CASE Accepts(w, c) /\ ~Ahead(w, c)
  <2>1. Mark(w, c) = [w EXCEPT !.mask = @ \cup {w.top - c}]
    BY <1>3 DEF Mark
  <2>2. c <= w.top
    BY <1>3 DEF Ahead, Windows
  <2>. QED BY <2>1, <2>2 DEF Covers, Windows
<1>. QED BY <1>1, <1>2, <1>3

\* The bits of a marked window: the ones it had, and the counter accepted.
LEMMA MarkBits ==
  ASSUME NEW w \in Windows, NEW c \in Nat \ {0},
         Accepts(w, c)
  PROVE  /\ Mark(w, c).top > 0
         /\ Mark(w, c).top >= w.top
         /\ 0 \in w.mask \/ w = EmptyWindow => 0 \in Mark(w, c).mask
         /\ \A b \in Mark(w, c).mask :
              \/ Mark(w, c).top - b = c
              \/ \E a \in w.mask : Mark(w, c).top - b = w.top - a
<1>1. CASE Ahead(w, c)
  <2>1. /\ Mark(w, c).top = c
        /\ Mark(w, c).mask = IF c - w.top >= RxWindowBits THEN {0}
                             ELSE ShiftLeft(w.mask, c - w.top) \cup {0}
    BY <1>1 DEF Mark
  <2>2. ASSUME NEW b \in Mark(w, c).mask, b # 0
        PROVE  \E a \in w.mask : Mark(w, c).top - b = w.top - a
    <3>1. b \in ShiftLeft(w.mask, c - w.top)
      BY <2>1, <2>2
    <3>2. b \in Nat /\ b - (c - w.top) \in w.mask
      BY <3>1, WidthAssumption DEF ShiftLeft, Windows
    <3>3. c - b = w.top - (b - (c - w.top))
      BY <3>2 DEF Windows
    <3>. QED BY <3>2, <3>3, <2>1
  <2>3. c >= w.top
    BY <1>1 DEF Ahead, Windows
  <2>. QED BY <2>1, <2>2, <2>3
<1>2. CASE ~Ahead(w, c)
  <2>1. Mark(w, c) = [w EXCEPT !.mask = @ \cup {w.top - c}]
    BY <1>2 DEF Mark
  <2>2. w.top # 0 /\ w.top \in Nat /\ w.top - (w.top - c) = c
    BY <1>2 DEF Ahead, Windows
  <2>3. Mark(w, c).top = w.top /\ Mark(w, c).mask = w.mask \cup {w.top - c}
    BY <2>1 DEF Windows
  <2>4. w # EmptyWindow
    BY <2>2 DEF EmptyWindow
  <2>. QED BY <2>2, <2>3, <2>4
<1>. QED BY <1>1, <1>2

-----------------------------------------------------------------------------
(* The sending half: seal, rotation, the caches. *)

\* The state after TunnelKeys::new on both ends satisfies the invariant.
LEMMA InitInv == Init => IInv
<1>. SUFFICES ASSUME Init PROVE IInv
  OBVIOUS
<1>1. TypeOK
  BY ShardAssumption DEF Init, TypeOK, Ends, Kinds, Windows, NoWindows
<1>2. CountersBounded
  <2>1. InShard(Shard)
    BY ShardAssumption DEF InShard
  <2>. QED BY <2>1, RotateAssumption DEF Init, CountersBounded
<1>3. CachesFresh
  BY DEF Init, CachesFresh
<1>4. SealedBehind /\ CountersUnique
  BY DEF Init, SealedBehind, CountersUnique
<1>5. \A e \in Ends : RxEpochs(e) = {} /\ DOMAIN out[e] = {}
  BY DEF Init, RxEpochs, Kinds, NoWindows
<1>6. \A e \in Ends : \A k \in Kinds : DOMAIN rx[e][k] = {}
  BY DEF Init, NoWindows
<1>7. EpochsClose
  BY <1>5 DEF EpochsClose
<1>8. OpenedCovered /\ AtMostOnce
  BY <1>5 DEF OpenedCovered, AtMostOnce
<1>9. WindowsBacked
  BY <1>6 DEF WindowsBacked
<1>. QED
  BY <1>1, <1>2, <1>3, <1>4, <1>7, <1>8, <1>9 DEF IInv, SendInv, ReplayInv

\* What one seal does: the frame it appends, and the counters it leaves.
SealedFrame(e, kind, epoch, counter) ==
  [kind |-> kind, key_suite |-> suite[e], key_epoch |-> epoch,
   counter |-> counter, key |-> SendKey(e, epoch)]

SameEpochSeal(e, kind, epoch, counter) ==
  /\ epoch = send_epoch[e] /\ counter = tx[e][kind] + 1
  /\ epoch_bytes[e] < RotateBytes
  /\ epoch_bytes' = [epoch_bytes EXCEPT ![e] = @ + 1]
  /\ tx' = [tx EXCEPT ![e] = [tx[e] EXCEPT ![kind] = counter]]

NextEpochSeal(e, kind, epoch, counter) ==
  /\ epoch > send_epoch[e] /\ counter = 1
  /\ epoch_bytes' = [epoch_bytes EXCEPT ![e] = 1]
  /\ tx' = [tx EXCEPT ![e] = [k \in Kinds |-> IF k = kind THEN 1 ELSE 0]]

SealEffect(e, kind, epoch, counter) ==
  /\ InShard(epoch)
  /\ \/ SameEpochSeal(e, kind, epoch, counter)
     \/ NextEpochSeal(e, kind, epoch, counter)
  /\ send_epoch' = [send_epoch EXCEPT ![e] = epoch]
  /\ send_cipher' = [send_cipher EXCEPT ![e] = SendKey(e, epoch)]
  /\ sealed' = Append(sealed, SealedFrame(e, kind, epoch, counter))
  /\ UNCHANGED <<dh, suite, rx, rx_ciphers, out>>

\* A seal either counts on in its epoch or starts the next one at 1, and it
\* encrypts under the key its header names, cached or not.
LEMMA SealStep ==
  ASSUME SendInv, NEW e \in Ends, NEW kind \in Kinds, Seal(e, kind)
  PROVE  \E epoch \in Nat, counter \in 1 .. RotateBytes :
           SealEffect(e, kind, epoch, counter)
<1>0. PICK aged \in BOOLEAN : SealWith(e, kind, aged)
  BY DEF Seal
<1>. DEFINE epoch == EpochReady(e, aged)
            counter == CountersReady(e, aged)[kind] + 1
<1>1. send_epoch[e] \in Nat /\ epoch_bytes[e] \in Nat /\ tx[e] \in [Kinds -> Nat]
  BY DEF SendInv, TypeOK
<1>2. CipherReady(e, aged) = SendKey(e, epoch)
  BY DEF CipherReady, EpochReady, SendInv, CachesFresh
<1>3. CASE RotatesBeforeSeal(e, aged)
  <2>1. epoch = send_epoch[e] + Stride /\ counter = 1
    BY <1>3 DEF EpochReady, CountersReady
  <2>2. epoch \in Nat /\ epoch > send_epoch[e] /\ counter \in 1 .. RotateBytes
    BY <2>1, <1>1, ShardAssumption, RotateAssumption
  <2>3. InShard(epoch)
    BY <2>1, <1>1, StrideStep DEF SendInv, CountersBounded
  <2>4. [CountersReady(e, aged) EXCEPT ![kind] = counter]
          = [k \in Kinds |-> IF k = kind THEN 1 ELSE 0]
    BY <1>3, <2>1 DEF CountersReady
  <2>. QED
    BY <1>0, <1>2, <1>3, <2>1, <2>2, <2>3, <2>4
       DEF SealWith, SealEffect, NextEpochSeal, SealedFrame
<1>4. CASE ~RotatesBeforeSeal(e, aged)
  <2>1. epoch = send_epoch[e] /\ counter = tx[e][kind] + 1 /\ CountersReady(e, aged) = tx[e]
    BY <1>4 DEF EpochReady, CountersReady
  <2>2. epoch_bytes[e] < RotateBytes
    BY <1>4, <1>1, RotateAssumption DEF RotatesBeforeSeal
  <2>3. counter \in 1 .. RotateBytes
    BY <2>1, <2>2, <1>1, RotateAssumption DEF SendInv, CountersBounded
  <2>4. InShard(epoch)
    BY <2>1 DEF SendInv, CountersBounded
  <2>. QED
    BY <1>0, <1>1, <1>2, <1>4, <2>1, <2>2, <2>3, <2>4
       DEF SealWith, SealEffect, SameEpochSeal, SealedFrame
<1>. QED BY <1>3, <1>4

\* Appending a frame keeps the earlier ones where they are.
LEMMA SealedGrows ==
  ASSUME sealed \in Seq(Frames), NEW f \in Frames, sealed' = Append(sealed, f)
  PROVE  /\ sealed' \in Seq(Frames)
         /\ DOMAIN sealed' = DOMAIN sealed \cup {Len(sealed) + 1}
         /\ Len(sealed) + 1 \notin DOMAIN sealed
         /\ sealed'[Len(sealed) + 1] = f
         /\ \A i \in DOMAIN sealed : sealed'[i] = sealed[i]
  OBVIOUS

\* The direction bit of cipher_for tells which end sealed a frame.
LEMMA SealerOfSendKey ==
  ASSUME NEW e \in Ends, NEW f, NEW epoch, f.key = SendKey(e, epoch)
  PROVE  SealerOf(f) = e
  BY DEF SealerOf, SendKey, DirBit, Ends

\* seal and seal_receipt keep the sending half: counters below the rotation
\* volume, caches fresh, every frame behind its sealer's counters.
LEMMA SealSendInv ==
  ASSUME SendInv, NEW e \in Ends, NEW kind \in Kinds, Seal(e, kind)
  PROVE  SendInv'
<1>1. PICK epoch \in Nat, counter \in 1 .. RotateBytes :
        SealEffect(e, kind, epoch, counter)
  BY SealStep
<1>. DEFINE f == SealedFrame(e, kind, epoch, counter)
<1>2. TypeOK /\ counter \in Nat
  BY RotateAssumption DEF SendInv
<1>3. SendKey(e, epoch) \in Keys /\ f \in Frames
  BY <1>2 DEF TypeOK, SendKey, Keys, Frames, DirBit, SealedFrame
<1>4. /\ sealed' \in Seq(Frames)
      /\ DOMAIN sealed' = DOMAIN sealed \cup {Len(sealed) + 1}
      /\ Len(sealed) + 1 \notin DOMAIN sealed
      /\ sealed'[Len(sealed) + 1] = f
      /\ \A i \in DOMAIN sealed : sealed'[i] = sealed[i]
  BY <1>1, <1>2, <1>3, SealedGrows DEF TypeOK, SealEffect
<1>5. SealerOf(f) = e
  BY SealerOfSendKey DEF SealedFrame
<1>6. TypeOK'
  <2>1. tx' \in [Ends -> [Kinds -> Nat]] /\ epoch_bytes' \in [Ends -> Nat]
    <3>1. tx \in [Ends -> [Kinds -> Nat]] /\ epoch_bytes \in [Ends -> Nat] /\ tx[e] \in [Kinds -> Nat]
      BY <1>2 DEF TypeOK
    <3>2. [tx[e] EXCEPT ![kind] = counter] \in [Kinds -> Nat]
      BY <3>1, <1>2
    <3>3. [k \in Kinds |-> IF k = kind THEN 1 ELSE 0] \in [Kinds -> Nat]
      OBVIOUS
    <3>4. CASE SameEpochSeal(e, kind, epoch, counter)
      BY <3>1, <3>2, <3>4 DEF SameEpochSeal
    <3>5. CASE NextEpochSeal(e, kind, epoch, counter)
      BY <3>1, <3>3, <3>5 DEF NextEpochSeal
    <3>. QED BY <3>4, <3>5, <1>1 DEF SealEffect
  <2>2. send_epoch' \in [Ends -> Nat] /\ send_cipher' \in [Ends -> Keys \cup {NoCipher}]
    BY <1>1, <1>2, <1>3 DEF TypeOK, SealEffect
  <2>3. \A d \in Ends : \A n \in DOMAIN out[d] : out[d][n] \in DOMAIN sealed'
    BY <1>2, <1>4 DEF TypeOK
  <2>. QED BY <2>1, <2>2, <2>3, <1>1, <1>2, <1>4 DEF TypeOK, SealEffect
<1>7. CountersBounded'
  <2>1. CASE SameEpochSeal(e, kind, epoch, counter)
    BY <2>1, <1>1, <1>2, RotateAssumption
       DEF TypeOK, SendInv, CountersBounded, SealEffect, SameEpochSeal
  <2>2. CASE NextEpochSeal(e, kind, epoch, counter)
    BY <2>2, <1>1, <1>2, RotateAssumption
       DEF TypeOK, SendInv, CountersBounded, SealEffect, NextEpochSeal
  <2>. QED BY <2>1, <2>2, <1>1 DEF SealEffect
<1>8. CachesFresh'
  BY <1>1, <1>2 DEF TypeOK, SendInv, CachesFresh, SendKey, RecvKey, SealEffect
<1>9. SealedBehind'
  <2>1. SUFFICES ASSUME NEW i \in DOMAIN sealed'
        PROVE  LET g == sealed'[i]
                   d == SealerOf(g)
               IN /\ g.key_suite = g.key.suite /\ g.key_epoch = g.key.epoch
                  /\ g.key_epoch <= send_epoch'[d] /\ InShard(g.key_epoch)
                  /\ g.counter \in 1 .. RotateBytes
                  /\ g.key_epoch = send_epoch'[d] => g.counter <= tx'[d][g.kind]
    BY DEF SealedBehind, SealerOf, InShard
  <2>2. CASE i = Len(sealed) + 1
    BY <2>2, <1>1, <1>2, <1>4, <1>5
       DEF TypeOK, SendKey, SealEffect, SameEpochSeal, NextEpochSeal, SealedFrame
  <2>3. CASE i \in DOMAIN sealed
    <3>. DEFINE g == sealed[i]
                d == SealerOf(g)
    <3>1. g \in Frames /\ d \in Ends /\ sealed'[i] = g
      BY <2>3, <1>2, <1>4 DEF TypeOK, SealerOf, Ends
    <3>2. /\ g.key_suite = g.key.suite /\ g.key_epoch = g.key.epoch
          /\ g.key_epoch <= send_epoch[d] /\ InShard(g.key_epoch)
          /\ g.counter \in 1 .. RotateBytes
          /\ g.key_epoch = send_epoch[d] => g.counter <= tx[d][g.kind]
      BY <2>3 DEF SendInv, SealedBehind
    <3>3. /\ g.key_epoch \in Nat /\ g.counter \in Nat /\ g.kind \in Kinds
          /\ send_epoch \in [Ends -> Nat] /\ tx \in [Ends -> [Kinds -> Nat]]
      BY <3>1, <1>2 DEF Frames, TypeOK
    <3>. HIDE DEF g, d
    <3>4. CASE SameEpochSeal(e, kind, epoch, counter)
      <4>1. /\ send_epoch'[d] = send_epoch[d]
            /\ tx'[d] = IF d = e THEN [tx[e] EXCEPT ![kind] = counter] ELSE tx[d]
        BY <3>1, <3>3, <3>4, <1>1 DEF SealEffect, SameEpochSeal
      <4>2. tx[d][g.kind] <= tx'[d][g.kind]
        BY <4>1, <3>1, <3>3, <3>4 DEF SameEpochSeal
      <4>3. tx'[d][g.kind] \in Nat /\ tx[d][g.kind] \in Nat
        BY <4>1, <3>1, <3>3, <1>2
      <4>. QED BY <4>1, <4>2, <4>3, <3>1, <3>2, <3>3 DEF g, d
    <3>5. CASE NextEpochSeal(e, kind, epoch, counter)
      <4>1. CASE d = e
        <5>1. send_epoch'[d] = epoch /\ epoch > send_epoch[d]
          BY <4>1, <3>1, <3>3, <3>5, <1>1 DEF SealEffect, NextEpochSeal
        <5>. QED BY <5>1, <3>1, <3>2, <3>3 DEF g, d
      <4>2. CASE d # e
        <5>1. send_epoch'[d] = send_epoch[d] /\ tx'[d] = tx[d]
          BY <4>2, <3>1, <3>3, <3>5, <1>1 DEF SealEffect, NextEpochSeal
        <5>. QED BY <5>1, <3>1, <3>2, <3>3 DEF g, d
      <4>. QED BY <4>1, <4>2
    <3>. QED BY <3>4, <3>5, <1>1 DEF SealEffect, g, d
  <2>. QED BY <2>2, <2>3, <1>4
<1>10. CountersUnique'
  <2>1. ASSUME NEW i \in DOMAIN sealed, SealerOf(sealed[i]) = e,
               sealed[i].kind = kind, sealed[i].key_epoch = epoch
        PROVE  sealed[i].counter # counter
    <3>1. /\ sealed[i].key_epoch <= send_epoch[e]
          /\ sealed[i].key_epoch = send_epoch[e] => sealed[i].counter <= tx[e][kind]
          /\ sealed[i].counter \in Nat
      BY <2>1, RotateAssumption DEF SendInv, SealedBehind
    <3>2. send_epoch[e] \in Nat /\ tx[e][kind] \in Nat
      BY <1>2 DEF TypeOK
    <3>. QED
      BY <3>1, <3>2, <2>1, <1>1 DEF SealEffect, SameEpochSeal, NextEpochSeal
  <2>. QED
    BY <2>1, <1>4, <1>5 DEF SendInv, CountersUnique, SealerOf, SealedFrame
<1>. QED BY <1>6, <1>7, <1>8, <1>9, <1>10 DEF SendInv

\* The fields of a sealed frame have their types.
LEMMA FrameTypes ==
  ASSUME TypeOK, NEW i \in DOMAIN sealed
  PROVE  /\ sealed[i] \in Frames
         /\ sealed[i].kind \in Kinds /\ sealed[i].key_epoch \in Nat
         /\ sealed[i].counter \in Nat /\ sealed[i].key \in Keys
         /\ sealed[i].key.dh \in Nat
         /\ SealerOf(sealed[i]) \in Ends
<1>1. sealed[i] \in Frames
  BY DEF TypeOK
<1>2. /\ sealed[i].kind \in Kinds /\ sealed[i].key_epoch \in Nat
      /\ sealed[i].counter \in Nat /\ sealed[i].key \in Keys
  BY <1>1 DEF Frames
<1>3. sealed[i].key.dh \in Nat
  BY <1>2 DEF Keys
<1>4. SealerOf(sealed[i]) \in Ends
  BY DEF SealerOf, Ends
<1>. QED BY <1>1, <1>2, <1>3, <1>4

\* A step that opens nothing, and only adds frames, keeps the replay half.
LEMMA NoOpenReplayInv ==
  ASSUME TypeOK, ReplayInv, UNCHANGED <<dh, rx, out>>,
         \A i \in DOMAIN sealed : sealed'[i] = sealed[i]
  PROVE  ReplayInv'
<1>1. \A e \in Ends : \A n \in DOMAIN out[e] : sealed'[out[e][n]] = sealed[out[e][n]]
  BY DEF TypeOK
<1>2. EpochsClose'
  BY DEF ReplayInv, EpochsClose, RxEpochs, StaleAgainst
<1>3. OpenedCovered'
  <2>1. ASSUME NEW e \in Ends, NEW f PROVE Refuses(e, f)' <=> Refuses(e, f)
    BY DEF Refuses, RxEpochs, StaleAgainst, Covers
  <2>. QED BY <1>1, <2>1 DEF ReplayInv, OpenedCovered, DirBit, Peer
<1>4. WindowsBacked'
  BY <1>1 DEF ReplayInv, WindowsBacked
<1>5. AtMostOnce'
  BY <1>1 DEF ReplayInv, AtMostOnce, DirBit, Peer
<1>. QED BY <1>2, <1>3, <1>4, <1>5 DEF ReplayInv

\* seal and seal_receipt keep the invariant.
LEMMA SealInv ==
  ASSUME IInv, NEW e \in Ends, NEW kind \in Kinds, Seal(e, kind)
  PROVE  IInv'
<1>1. SendInv'
  BY SealSendInv DEF IInv
<1>2. PICK epoch \in Nat, counter \in 1 .. RotateBytes :
        SealEffect(e, kind, epoch, counter)
  BY SealStep DEF IInv
<1>3. TypeOK /\ ReplayInv /\ UNCHANGED <<dh, rx, out>>
  BY <1>2 DEF IInv, SendInv, SealEffect
<1>4. \A i \in DOMAIN sealed : sealed'[i] = sealed[i]
  <2>1. sealed \in Seq(Frames)
    BY <1>3 DEF TypeOK
  <2>2. sealed' = Append(sealed, SealedFrame(e, kind, epoch, counter))
    BY <1>2 DEF SealEffect
  <2>. QED BY <2>1, <2>2
<1>5. ReplayInv'
  BY <1>3, <1>4, NoOpenReplayInv
<1>. QED BY <1>1, <1>5 DEF IInv

\* A frame that does not decrypt grows the cipher cache only, with a key a
\* fresh derivation would give.
LEMMA OpenFailsInv ==
  ASSUME IInv, NEW e \in Ends, NEW s \in Suites, NEW epoch \in GarbledEpochs,
         OpenFails(e, s, epoch)
  PROVE  IInv'
<1>1. TypeOK /\ ReplayInv /\ epoch \in Nat
  BY BoundsAssumption DEF IInv, SendInv
<1>2. UNCHANGED <<dh, suite, send_epoch, epoch_bytes, tx, send_cipher, rx, sealed, out>>
  BY DEF OpenFails
<1>3. ReplayInv'
  BY <1>1, <1>2, NoOpenReplayInv
<1>4. OpenCipher(e, epoch) = RecvKey(e, epoch)
  BY DEF IInv, SendInv, CachesFresh, OpenCipher
<1>5. RecvKey(e, epoch) \in Keys /\ RecvKey(e, epoch).epoch = epoch
  BY <1>1 DEF RecvKey, Keys, TypeOK, DirBit
<1>6. rx_ciphers' = [rx_ciphers EXCEPT ![e] = @ \cup {RecvKey(e, epoch)}]
  BY <1>4 DEF OpenFails
<1>7. TypeOK'
  BY <1>1, <1>2, <1>5, <1>6 DEF TypeOK
<1>8. CachesFresh'
  BY <1>1, <1>2, <1>5, <1>6 DEF IInv, SendInv, CachesFresh, TypeOK, SendKey, RecvKey
<1>9. CountersBounded' /\ SealedBehind' /\ CountersUnique'
  BY <1>2 DEF IInv, SendInv, CountersBounded, SealedBehind, CountersUnique, SealerOf
<1>. QED BY <1>3, <1>7, <1>8, <1>9 DEF IInv, SendInv

\* set_suite empties both caches, so no cipher of the old suite survives.
LEMMA SetSuiteInv ==
  ASSUME IInv, NEW e \in Ends, NEW s \in Suites, SetSuite(e, s)
  PROVE  IInv'
<1>1. TypeOK /\ ReplayInv
  BY DEF IInv, SendInv
<1>2. UNCHANGED <<dh, send_epoch, epoch_bytes, tx, rx, sealed, out>>
  BY DEF SetSuite
<1>3. ReplayInv'
  BY <1>1, <1>2, NoOpenReplayInv
<1>4. TypeOK'
  BY <1>1, <1>2 DEF TypeOK, SetSuite
<1>5. CachesFresh'
  BY <1>1, <1>2 DEF IInv, SendInv, CachesFresh, TypeOK, SendKey, RecvKey, SetSuite
<1>6. CountersBounded' /\ SealedBehind' /\ CountersUnique'
  BY <1>2 DEF IInv, SendInv, CountersBounded, SealedBehind, CountersUnique, SealerOf
<1>. QED BY <1>3, <1>4, <1>5, <1>6 DEF IInv, SendInv

\* rekey moves to a new DH and a new epoch: nothing sealed before is under the
\* new keys, so forgetting every window opens nothing twice.
LEMMA RekeyInv ==
  ASSUME IInv, NEW e \in Ends, Rekey(e)
  PROVE  IInv'
<1>1. TypeOK /\ SendInv /\ ReplayInv /\ Stride \in Nat \ {0}
  BY ShardAssumption DEF IInv, SendInv
<1>2. UNCHANGED <<suite, sealed, out>>
  BY DEF Rekey
<1>3. /\ rx' = [rx EXCEPT ![e] = [k \in Kinds |-> NoWindows]]
      /\ dh' = [dh EXCEPT ![e] = @ + 1]
      /\ rx_ciphers' = [rx_ciphers EXCEPT ![e] = {}]
      /\ send_epoch' = [send_epoch EXCEPT ![e] = @ + Stride]
      /\ send_cipher' = [send_cipher EXCEPT ![e] = NoCipher]
      /\ tx' = [tx EXCEPT ![e] = [k \in Kinds |-> 0]]
      /\ epoch_bytes' = [epoch_bytes EXCEPT ![e] = 0]
  BY DEF Rekey
<1>4. \A k \in Kinds : rx'[e][k] = NoWindows /\ DOMAIN rx'[e][k] = {}
  BY <1>1, <1>3 DEF TypeOK, NoWindows
<1>5. \A d \in Ends \ {e} : rx'[d] = rx[d] /\ dh'[d] = dh[d]
  BY <1>1, <1>3 DEF TypeOK
<1>6. TypeOK'
  <2>1. DOMAIN rx' = Ends /\ DOMAIN rx'[e] = Kinds
    BY <1>1, <1>3 DEF TypeOK
  <2>2. \A d \in Ends :
         /\ DOMAIN rx'[d] = Kinds
         /\ \A k \in Kinds :
              /\ DOMAIN rx'[d][k] \subseteq Nat
              /\ rx'[d][k] \in [DOMAIN rx'[d][k] -> Windows]
    <3>1. ASSUME NEW d \in Ends, d # e, NEW k \in Kinds
          PROVE  /\ DOMAIN rx'[d] = Kinds
                 /\ DOMAIN rx'[d][k] \subseteq Nat
                 /\ rx'[d][k] \in [DOMAIN rx'[d][k] -> Windows]
      BY <3>1, <1>1, <1>5 DEF TypeOK
    <3>2. \A k \in Kinds : rx'[e][k] \in [DOMAIN rx'[e][k] -> Windows]
      BY <1>4 DEF NoWindows
    <3>. QED BY <3>1, <3>2, <2>1, <1>4 DEF Kinds
  <2>. QED BY <2>1, <2>2, <1>1, <1>2, <1>3 DEF TypeOK
<1>7. CountersBounded'
  BY <1>1, <1>3, StrideStep, RotateAssumption DEF TypeOK, SendInv, CountersBounded
<1>8. CachesFresh'
  BY <1>1, <1>2, <1>3 DEF SendInv, CachesFresh, TypeOK, SendKey, RecvKey
<1>9. SealedBehind'
  <2>1. SUFFICES ASSUME NEW i \in DOMAIN sealed
        PROVE  LET g == sealed[i]
                   d == SealerOf(g)
               IN /\ g.key_suite = g.key.suite /\ g.key_epoch = g.key.epoch
                  /\ g.key_epoch <= send_epoch'[d] /\ InShard(g.key_epoch)
                  /\ g.counter \in 1 .. RotateBytes
                  /\ g.key_epoch = send_epoch'[d] => g.counter <= tx'[d][g.kind]
    BY <1>2 DEF SealedBehind, SealerOf, InShard
  <2>. DEFINE g == sealed[i]
              d == SealerOf(g)
  <2>2. g \in Frames /\ d \in Ends /\ g.key_epoch \in Nat /\ g.kind \in Kinds
    BY <1>1, FrameTypes
  <2>3. /\ g.key_suite = g.key.suite /\ g.key_epoch = g.key.epoch
        /\ g.key_epoch <= send_epoch[d] /\ InShard(g.key_epoch)
        /\ g.counter \in 1 .. RotateBytes
        /\ g.key_epoch = send_epoch[d] => g.counter <= tx[d][g.kind]
    BY <1>1 DEF SendInv, SealedBehind
  <2>. HIDE DEF g, d
  <2>4. CASE d = e
    <3>1. send_epoch'[d] = send_epoch[d] + Stride /\ send_epoch[d] \in Nat
      BY <2>4, <1>1, <1>3 DEF TypeOK
    <3>. QED BY <3>1, <2>2, <2>3, <1>1 DEF g, d
  <2>5. CASE d # e
    <3>1. send_epoch'[d] = send_epoch[d] /\ tx'[d] = tx[d]
      BY <2>5, <2>2, <1>1, <1>3 DEF TypeOK
    <3>. QED BY <3>1, <2>2, <2>3 DEF g, d
  <2>. QED BY <2>4, <2>5
<1>10. CountersUnique'
  BY <1>1, <1>2 DEF SendInv, CountersUnique, SealerOf
<1>11. /\ \A d \in Ends \ {e} : RxEpochs(d)' = RxEpochs(d)
       /\ RxEpochs(e)' = {}
  BY <1>4, <1>5 DEF RxEpochs, Kinds
<1>12. EpochsClose'
  BY <1>1, <1>11 DEF ReplayInv, EpochsClose, StaleAgainst
<1>13. OpenedCovered'
  <2>1. SUFFICES ASSUME NEW d \in Ends, NEW n \in DOMAIN out[d]
        PROVE  LET f == sealed[out[d][n]] IN
               /\ f.key.dir = DirBit(Peer(d), TRUE)
               /\ f.key.dh <= dh'[d]
               /\ f.key.dh = dh'[d] => Refuses(d, f)'
    BY <1>2 DEF OpenedCovered, DirBit, Peer
  <2>. DEFINE f == sealed[out[d][n]]
  <2>2. /\ f.key.dir = DirBit(Peer(d), TRUE)
        /\ f.key.dh <= dh[d] /\ dh[d] \in Nat /\ f.key.dh \in Nat
        /\ f.key.dh = dh[d] => Refuses(d, f)
    BY <1>1, FrameTypes DEF ReplayInv, OpenedCovered, TypeOK
  <2>. HIDE DEF f
  <2>3. CASE d = e
    <3>1. dh'[d] = dh[d] + 1
      BY <2>3, <1>1, <1>3 DEF TypeOK
    <3>. QED BY <3>1, <2>2 DEF f
  <2>4. CASE d # e
    <3>1. dh'[d] = dh[d] /\ rx'[d] = rx[d]
      BY <2>4, <1>5
    <3>2. Refuses(d, f)' <=> Refuses(d, f)
      BY <3>1, <1>2 DEF Refuses, RxEpochs, StaleAgainst, Covers, f
    <3>. QED BY <3>1, <3>2, <2>2, <1>2 DEF f
  <2>. QED BY <2>3, <2>4
<1>14. WindowsBacked'
  BY <1>1, <1>2, <1>4, <1>5 DEF ReplayInv, WindowsBacked
<1>15. AtMostOnce'
  BY <1>1, <1>2 DEF ReplayInv, AtMostOnce, DirBit, Peer
<1>. QED
  BY <1>6, <1>7, <1>8, <1>9, <1>10, <1>12, <1>13, <1>14, <1>15
     DEF IInv, SendInv, ReplayInv

-----------------------------------------------------------------------------
(* The receiving half: open, the replay windows, pruning. *)

\* The epoch of a frame that passes the checks survives the prune, which
\* removes exactly the epochs that this one makes stale.
LEMMA PruneKeeps ==
  ASSUME TypeOK, EpochsClose, NEW e \in Ends, NEW epoch \in Nat,
         ~StaleAgainst(RxEpochs(e), epoch)
  PROVE  /\ RxEpochs(e) \subseteq Nat
         /\ epoch \in Kept(e, epoch)
         /\ \A x \in RxEpochs(e) : x \in Kept(e, epoch) <=> epoch <= x + GraceSpan
         /\ \A x \in Nat : StaleAgainst(RxEpochs(e), x) => StaleAgainst(Kept(e, epoch), x)
<1>1. RxEpochs(e) \subseteq Nat
  BY DEF RxEpochs, TypeOK, Kinds
<1>2. epoch \in Kept(e, epoch)
  BY <1>1, WidthAssumption DEF Kept, StaleAgainst
<1>3. ASSUME NEW x \in RxEpochs(e)
      PROVE  x \in Kept(e, epoch) <=> epoch <= x + GraceSpan
  BY <1>1, WidthAssumption DEF Kept, StaleAgainst, EpochsClose
<1>4. ASSUME NEW x \in Nat, StaleAgainst(RxEpochs(e), x)
      PROVE  StaleAgainst(Kept(e, epoch), x)
  <2>1. PICK n \in RxEpochs(e) : n > x + GraceSpan
    BY <1>4 DEF StaleAgainst
  <2>2. CASE n \in Kept(e, epoch)
    BY <2>1, <2>2 DEF StaleAgainst
  <2>3. CASE n \notin Kept(e, epoch)
    <3>1. epoch > n + GraceSpan
      BY <2>3, <1>1, <1>3, WidthAssumption
    <3>2. epoch > x + GraceSpan
      BY <3>1, <2>1, <1>1, WidthAssumption
    <3>. QED BY <3>2, <1>2 DEF StaleAgainst
  <2>. QED BY <2>2, <2>3
<1>. QED BY <1>1, <1>2, <1>3, <1>4

\* A window in use is typed and has its own top marked; so is a new one empty.
LEMMA WindowFacts ==
  ASSUME TypeOK, WindowsBacked, NEW e \in Ends, NEW kind \in Kinds, NEW epoch \in Nat
  PROVE  LET w == WindowOf(e, kind, epoch) IN
         /\ w \in Windows
         /\ 0 \in w.mask \/ w = EmptyWindow
         /\ epoch \notin DOMAIN rx[e][kind] => w = EmptyWindow
         /\ epoch \in DOMAIN rx[e][kind] => w = rx[e][kind][epoch]
<1>1. EmptyWindow \in Windows
  BY DEF EmptyWindow, Windows
<1>2. CASE epoch \in DOMAIN rx[e][kind]
  <2>1. rx[e][kind] \in [DOMAIN rx[e][kind] -> Windows]
    BY DEF TypeOK
  <2>2. rx[e][kind][epoch] \in Windows /\ 0 \in rx[e][kind][epoch].mask
    BY <1>2, <2>1 DEF WindowsBacked
  <2>. QED BY <1>2, <2>2 DEF WindowOf
<1>3. CASE epoch \notin DOMAIN rx[e][kind]
  BY <1>1, <1>3 DEF WindowOf
<1>. QED BY <1>2, <1>3

\* Everything the proofs need to know of the state after a decrypted frame.
OpenEffect(e, f, i) ==
  LET w == WindowOf(e, f.kind, f.key_epoch) IN
  /\ f.key = RecvKey(e, f.key_epoch)
  /\ ~StaleAgainst(RxEpochs(e), f.key_epoch)
  /\ \A d \in Ends : d # e => rx'[d] = rx[d] /\ rx_ciphers'[d] = rx_ciphers[d]
  /\ \A k \in Kinds : DOMAIN rx'[e][k] =
       (DOMAIN rx[e][k] \cup (IF k = f.kind THEN {f.key_epoch} ELSE {}))
         \cap Kept(e, f.key_epoch)
  /\ rx'[e][f.kind][f.key_epoch] = Mark(w, f.counter)
  /\ \A k \in Kinds : \A x \in DOMAIN rx'[e][k] :
       k # f.kind \/ x # f.key_epoch => rx'[e][k][x] = rx[e][k][x]
  /\ RxEpochs(e)' = Kept(e, f.key_epoch)
  /\ rx_ciphers'[e] \subseteq rx_ciphers[e] \cup {RecvKey(e, f.key_epoch)}
  /\ out' = IF Accepts(w, f.counter) THEN [out EXCEPT ![e] = Append(@, i)] ELSE out
  /\ UNCHANGED <<dh, suite, send_epoch, epoch_bytes, tx, send_cipher, sealed>>

\* What a successful decryption changes: the window of its epoch and kind, the
\* prune of the three maps, and the frame handed up if it was not a replay.
LEMMA OpenStep ==
  ASSUME IInv, NEW e \in Ends, NEW i \in DOMAIN sealed, Open(e, i)
  PROVE  OpenEffect(e, sealed[i], i)
<1>. DEFINE f == sealed[i]
            w == WindowOf(e, f.kind, f.key_epoch)
<1>1. TypeOK /\ EpochsClose /\ WindowsBacked /\ CachesFresh
  BY DEF IInv, SendInv, ReplayInv
<1>2. f \in Frames /\ f.kind \in Kinds /\ f.key_epoch \in Nat
  BY <1>1, FrameTypes
<1>3. OpenCipher(e, f.key_epoch) = RecvKey(e, f.key_epoch)
  BY <1>1 DEF CachesFresh, OpenCipher
<1>4. f.key = RecvKey(e, f.key_epoch) /\ ~StaleAgainst(RxEpochs(e), f.key_epoch)
  BY <1>3 DEF Open, PassesChecks
<1>5. rx' = [rx EXCEPT ![e] = [k \in Kinds |->
                 WindowsAfter(e, k, f.kind, f.key_epoch, f.counter)]]
  BY DEF Open
<1>6. /\ \A d \in Ends : d # e => rx'[d] = rx[d]
      /\ \A k \in Kinds : rx'[e][k] = WindowsAfter(e, k, f.kind, f.key_epoch, f.counter)
  BY <1>1, <1>5 DEF TypeOK
<1>7. \A k \in Kinds : DOMAIN rx'[e][k] =
       (DOMAIN rx[e][k] \cup (IF k = f.kind THEN {f.key_epoch} ELSE {}))
         \cap Kept(e, f.key_epoch)
  BY <1>6 DEF WindowsAfter
<1>8. f.key_epoch \in Kept(e, f.key_epoch)
  BY <1>1, <1>2, <1>4, PruneKeeps
<1>9. f.key_epoch \in DOMAIN rx'[e][f.kind]
  BY <1>2, <1>7, <1>8
<1>10. rx'[e][f.kind][f.key_epoch] = Mark(w, f.counter)
  BY <1>2, <1>6, <1>8 DEF WindowsAfter
<1>11. \A k \in Kinds : \A x \in DOMAIN rx'[e][k] :
         k # f.kind \/ x # f.key_epoch => rx'[e][k][x] = rx[e][k][x]
  <2>1. SUFFICES ASSUME NEW k \in Kinds, NEW x \in DOMAIN rx'[e][k],
                        k # f.kind \/ x # f.key_epoch
                 PROVE  rx'[e][k][x] = rx[e][k][x]
    OBVIOUS
  <2>. DEFINE W == WindowsAfter(e, k, f.kind, f.key_epoch, f.counter)
  <2>2. rx'[e][k] = W /\ x \in DOMAIN W
    BY <1>6
  <2>3. W[x] = rx[e][k][x]
    BY <2>1, <2>2 DEF WindowsAfter
  <2>. QED BY <2>2, <2>3
<1>12. RxEpochs(e)' = Kept(e, f.key_epoch)
  <2>1. Kept(e, f.key_epoch) \subseteq RxEpochs(e) \cup {f.key_epoch}
    BY DEF Kept
  <2>2. RxEpochs(e)' = DOMAIN rx'[e]["data"] \cup DOMAIN rx'[e]["receipt"]
    BY DEF RxEpochs
  <2>3. f.kind = "data" \/ f.kind = "receipt"
    BY <1>2 DEF Kinds
  <2>. QED BY <2>1, <2>2, <2>3, <1>7 DEF RxEpochs, Kinds
<1>13. /\ \A d \in Ends : d # e => rx_ciphers'[d] = rx_ciphers[d]
       /\ rx_ciphers'[e] \subseteq rx_ciphers[e] \cup {RecvKey(e, f.key_epoch)}
  <2>1. rx_ciphers' = [rx_ciphers EXCEPT ![e] =
          {c \in @ \cup {RecvKey(e, f.key_epoch)} :
             ~StaleAgainst(RxEpochs(e) \cup {f.key_epoch}, c.epoch)}]
    BY <1>3 DEF Open
  <2>2. rx_ciphers \in [Ends -> SUBSET Keys]
    BY <1>1 DEF TypeOK
  <2>. QED BY <2>1, <2>2
<1>14. /\ out' = IF Accepts(w, f.counter) THEN [out EXCEPT ![e] = Append(@, i)] ELSE out
       /\ UNCHANGED <<dh, suite, send_epoch, epoch_bytes, tx, send_cipher, sealed>>
  BY DEF Open
<1>. QED
  BY <1>4, <1>6, <1>7, <1>10, <1>11, <1>12, <1>13, <1>14, Zenon DEF OpenEffect

\* open and open_receipt keep the sending half and the caches fresh.
LEMMA OpenSendInv ==
  ASSUME IInv, NEW e \in Ends, NEW i \in DOMAIN sealed, Open(e, i)
  PROVE  SendInv'
<1>. DEFINE f == sealed[i]
            w == WindowOf(e, f.kind, f.key_epoch)
<1>1. TypeOK /\ SendInv /\ WindowsBacked
  BY DEF IInv, SendInv, ReplayInv
<1>2. /\ f.kind \in Kinds /\ f.key_epoch \in Nat /\ f.counter \in Nat
      /\ f.key \in Keys
  BY <1>1, FrameTypes
<1>3. OpenEffect(e, f, i)
  BY OpenStep
<1>4. UNCHANGED <<dh, suite, send_epoch, epoch_bytes, tx, send_cipher, sealed>>
  BY <1>3 DEF OpenEffect
<1>5. w \in Windows /\ Mark(w, f.counter) \in Windows
  BY <1>1, <1>2, WindowFacts, MarkType
<1>6. rx_ciphers' \in [Ends -> SUBSET Keys]
  <2>1. rx_ciphers \in [Ends -> SUBSET Keys]
    BY <1>1 DEF TypeOK
  <2>2. \A d \in Ends : rx_ciphers'[d] \subseteq Keys
    BY <2>1, <1>2, <1>3 DEF OpenEffect
  <2>3. DOMAIN rx_ciphers' = Ends /\ rx_ciphers' = [d \in Ends |-> rx_ciphers'[d]]
    BY <2>1 DEF Open
  <2>. QED BY <2>2, <2>3
<1>7. DOMAIN rx' = Ends /\ \A d \in Ends : DOMAIN rx'[d] = Kinds
  BY <1>1 DEF Open, TypeOK
<1>8. ASSUME NEW d \in Ends, NEW k \in Kinds
      PROVE  /\ DOMAIN rx'[d][k] \subseteq Nat
             /\ rx'[d][k] \in [DOMAIN rx'[d][k] -> Windows]
  <2>1. CASE d # e
    BY <2>1, <1>1, <1>3 DEF OpenEffect, TypeOK
  <2>2. CASE d = e
    <3>1. DOMAIN rx'[e][k] \subseteq Nat
      <4>1. DOMAIN rx[e][k] \subseteq Nat
        BY <1>1 DEF TypeOK
      <4>2. DOMAIN rx'[e][k] \subseteq DOMAIN rx[e][k] \cup {f.key_epoch}
        BY <1>3 DEF OpenEffect
      <4>. QED BY <4>1, <4>2, <1>2
    <3>2. \A x \in DOMAIN rx'[e][k] : k # f.kind \/ x # f.key_epoch =>
            x \in DOMAIN rx[e][k] /\ rx'[e][k][x] = rx[e][k][x]
      BY <1>3 DEF OpenEffect
    <3>3. rx[e][k] \in [DOMAIN rx[e][k] -> Windows]
      BY <1>1 DEF TypeOK
    <3>4. \A x \in DOMAIN rx'[e][k] : rx'[e][k][x] \in Windows
      BY <3>2, <3>3, <1>3, <1>5 DEF OpenEffect
    <3>5. rx'[e][k] = WindowsAfter(e, k, f.kind, f.key_epoch, f.counter)
      BY <1>1 DEF Open, TypeOK
    <3>6. rx'[e][k] = [x \in DOMAIN rx'[e][k] |-> rx'[e][k][x]]
      BY <3>5 DEF WindowsAfter
    <3>. QED BY <2>2, <3>1, <3>4, <3>6
  <2>. QED BY <2>1, <2>2
<1>9. out' \in [Ends -> Seq(Nat)] /\ \A d \in Ends : \A n \in DOMAIN out'[d] : out'[d][n] \in DOMAIN sealed
  <2>1. out \in [Ends -> Seq(Nat)] /\ \A d \in Ends : \A n \in DOMAIN out[d] : out[d][n] \in DOMAIN sealed
    BY <1>1 DEF TypeOK
  <2>2. out[e] \in Seq(Nat) /\ i \in Nat
    BY <1>1, <2>1 DEF TypeOK
  <2>3. CASE Accepts(w, f.counter)
    <3>1. out' = [out EXCEPT ![e] = Append(out[e], i)]
      BY <2>3, <1>3 DEF OpenEffect
    <3>2. Append(out[e], i) \in Seq(Nat)
      BY <2>2
    <3>3. \A n \in DOMAIN Append(out[e], i) : Append(out[e], i)[n] \in DOMAIN sealed
      BY <2>1, <2>2
    <3>. QED BY <3>1, <3>2, <3>3, <2>1
  <2>4. CASE ~Accepts(w, f.counter)
    BY <2>1, <2>4, <1>3 DEF OpenEffect
  <2>. QED BY <2>3, <2>4
<1>10. TypeOK'
  BY <1>1, <1>4, <1>6, <1>7, <1>8, <1>9 DEF TypeOK
<1>11. CachesFresh'
  <2>1. RecvKey(e, f.key_epoch).epoch = f.key_epoch
    BY DEF RecvKey
  <2>2. \A d \in Ends : \A c \in rx_ciphers'[d] : c = RecvKey(d, c.epoch)
    BY <1>1, <1>3, <2>1 DEF SendInv, CachesFresh, OpenEffect
  <2>. QED BY <2>2, <1>1, <1>4 DEF SendInv, CachesFresh, SendKey, RecvKey
<1>12. CountersBounded' /\ SealedBehind' /\ CountersUnique'
  BY <1>1, <1>4 DEF SendInv, CountersBounded, SealedBehind, CountersUnique, SealerOf
<1>. QED BY <1>10, <1>11, <1>12 DEF SendInv

\* What end e refused before the frame it still refuses after it.
LEMMA RefusalKept ==
  ASSUME TypeOK, EpochsClose, WindowsBacked, NEW e \in Ends, NEW f, NEW i, NEW g,
         f.kind \in Kinds, f.key_epoch \in Nat, f.counter \in Nat \ {0},
         g.kind \in Kinds, g.key_epoch \in Nat, g.counter \in Nat \ {0},
         OpenEffect(e, f, i), Refuses(e, g)
  PROVE  \/ StaleAgainst(RxEpochs(e)', g.key_epoch)
         \/ /\ g.key_epoch \in DOMAIN rx'[e][g.kind]
            /\ Covers(rx'[e][g.kind][g.key_epoch], g.counter)
<1>. DEFINE epoch == f.key_epoch
            w == WindowOf(e, f.kind, f.key_epoch)
<1>1. /\ ~StaleAgainst(RxEpochs(e), epoch)
      /\ RxEpochs(e)' = Kept(e, epoch)
  BY DEF OpenEffect
<1>2. /\ RxEpochs(e) \subseteq Nat
      /\ epoch \in Kept(e, epoch)
      /\ \A x \in RxEpochs(e) : x \in Kept(e, epoch) <=> epoch <= x + GraceSpan
      /\ \A x \in Nat : StaleAgainst(RxEpochs(e), x) => StaleAgainst(Kept(e, epoch), x)
  BY <1>1, PruneKeeps
<1>3. CASE StaleAgainst(RxEpochs(e), g.key_epoch)
  BY <1>1, <1>2, <1>3
<1>4. CASE /\ g.key_epoch \in DOMAIN rx[e][g.kind]
           /\ Covers(rx[e][g.kind][g.key_epoch], g.counter)
  <2>1. g.key_epoch \in RxEpochs(e)
    BY <1>4 DEF RxEpochs, Kinds
  <2>2. CASE g.key_epoch \notin Kept(e, epoch)
    <3>1. epoch > g.key_epoch + GraceSpan
      BY <2>1, <2>2, <1>2, WidthAssumption
    <3>2. StaleAgainst(Kept(e, epoch), g.key_epoch)
      BY <3>1, <1>2 DEF StaleAgainst
    <3>. QED BY <3>2, <1>1
  <2>3. CASE g.key_epoch \in Kept(e, epoch)
    <3>1. g.key_epoch \in DOMAIN rx'[e][g.kind]
      BY <2>3, <1>4 DEF OpenEffect
    <3>2. CASE g.kind = f.kind /\ g.key_epoch = epoch
      <4>1. w = rx[e][f.kind][epoch] /\ w \in Windows /\ (0 \in w.mask \/ w = EmptyWindow)
        BY <3>2, <1>4, WindowFacts
      <4>2. Covers(Mark(w, f.counter), g.counter)
        BY <4>1, <3>2, <1>4, MarkCovers
      <4>3. rx'[e][g.kind][g.key_epoch] = Mark(w, f.counter)
        BY <3>2 DEF OpenEffect
      <4>. QED BY <4>2, <4>3, <3>1
    <3>3. CASE ~(g.kind = f.kind /\ g.key_epoch = epoch)
      <4>1. rx'[e][g.kind][g.key_epoch] = rx[e][g.kind][g.key_epoch]
        BY <3>1, <3>3 DEF OpenEffect
      <4>. QED BY <4>1, <3>1, <1>4
    <3>. QED BY <3>2, <3>3
  <2>. QED BY <2>2, <2>3
<1>. QED BY <1>3, <1>4 DEF Refuses

\* What handing one more frame up does to the sequence of frames opened.
LEMMA AppendFacts ==
  ASSUME NEW s \in Seq(Nat), NEW x \in Nat
  PROVE  /\ DOMAIN Append(s, x) = DOMAIN s \cup {Len(s) + 1}
         /\ Append(s, x)[Len(s) + 1] = x
         /\ \A n \in DOMAIN s : Append(s, x)[n] = s[n]
  OBVIOUS

\* open and open_receipt keep the replay half: pruned windows are of epochs
\* refused as stale, and every bit set stands for a frame handed up.
LEMMA OpenReplayInv ==
  ASSUME IInv, NEW e \in Ends, NEW i \in DOMAIN sealed, Open(e, i)
  PROVE  ReplayInv'
<1>. DEFINE f == sealed[i]
            w == WindowOf(e, f.kind, f.key_epoch)
            new == Len(out[e]) + 1
<1>1. TypeOK /\ SendInv /\ ReplayInv
  BY DEF IInv, SendInv
<1>2. /\ f.kind \in Kinds /\ f.key_epoch \in Nat
      /\ f.counter \in Nat \ {0}
  BY <1>1, FrameTypes, RotateAssumption DEF SendInv, SealedBehind
<1>3. OpenEffect(e, f, i)
  BY OpenStep
<1>4. sealed' = sealed /\ dh' = dh
  BY <1>3 DEF OpenEffect
<1>5. /\ w \in Windows
      /\ 0 \in w.mask \/ w = EmptyWindow
      /\ f.key_epoch \notin DOMAIN rx[e][f.kind] => w = EmptyWindow
      /\ f.key_epoch \in DOMAIN rx[e][f.kind] => w = rx[e][f.kind][f.key_epoch]
  BY <1>1, <1>2, WindowFacts DEF ReplayInv
<1>6. f.key_epoch \in Kept(e, f.key_epoch)
  BY <1>1, <1>2, <1>3, PruneKeeps DEF ReplayInv, OpenEffect
<1>7. /\ f.key_epoch \in DOMAIN rx'[e][f.kind]
      /\ rx'[e][f.kind][f.key_epoch] = Mark(w, f.counter)
  BY <1>2, <1>3, <1>6 DEF OpenEffect
<1>8. /\ f.key.dh = dh[e]
      /\ f.key.dir = DirBit(Peer(e), TRUE)
  BY <1>3 DEF OpenEffect, RecvKey, DirBit, Peer, Ends
<1>9. ASSUME Accepts(w, f.counter), NEW n \in DOMAIN out[e] PROVE out[e][n] # i
  <2>1. SUFFICES ASSUME out[e][n] = i PROVE FALSE
    OBVIOUS
  <2>2. Refuses(e, f)
    BY <2>1, <1>1, <1>8 DEF ReplayInv, OpenedCovered
  <2>3. Covers(w, f.counter)
    BY <2>2, <1>3, <1>5 DEF Refuses, OpenEffect
  <2>. QED BY <2>3, <1>2, <1>5, <1>9, CoveredRefused
<1>10. \A d \in Ends : out[d] \in Seq(Nat)
  BY <1>1 DEF TypeOK
<1>11. /\ \A d \in Ends : d # e => out'[d] = out[d]
       /\ Accepts(w, f.counter) => out'[e] = Append(out[e], i)
       /\ ~Accepts(w, f.counter) => out'[e] = out[e]
  BY <1>1, <1>3 DEF OpenEffect, TypeOK
<1>12. /\ \A d \in Ends : \A n \in DOMAIN out[d] : n \in DOMAIN out'[d] /\ out'[d][n] = out[d][n]
       /\ Accepts(w, f.counter) => new \in DOMAIN out'[e] /\ out'[e][new] = i
       /\ \A d \in Ends : \A n \in DOMAIN out'[d] :
            n \in DOMAIN out[d] \/ (d = e /\ n = new /\ Accepts(w, f.counter))
  <2>1. i \in Nat
    BY <1>1 DEF TypeOK
  <2>2. CASE Accepts(w, f.counter)
    <3>1. /\ DOMAIN out'[e] = DOMAIN out[e] \cup {new}
          /\ out'[e][new] = i
          /\ \A n \in DOMAIN out[e] : out'[e][n] = out[e][n]
      <4>1. out'[e] = Append(out[e], i) /\ out[e] \in Seq(Nat)
        BY <2>2, <1>10, <1>11
      <4>. DEFINE q == out[e]
      <4>2. q \in Seq(Nat) /\ out'[e] = Append(q, i) /\ new = Len(q) + 1
        BY <4>1
      <4>. HIDE DEF q, new
      <4>3. /\ DOMAIN Append(q, i) = DOMAIN q \cup {Len(q) + 1}
            /\ Append(q, i)[Len(q) + 1] = i
            /\ \A n \in DOMAIN q : Append(q, i)[n] = q[n]
        BY <4>2, <2>1, AppendFacts
      <4>. QED BY <4>2, <4>3 DEF q
    <3>. HIDE DEF new
    <3>. QED BY <3>1, <2>2, <1>11
  <2>3. CASE ~Accepts(w, f.counter)
    BY <2>3, <1>11
  <2>. QED BY <2>2, <2>3
<1>. HIDE DEF new
<1>13. EpochsClose'
  <2>1. \A x \in Kept(e, f.key_epoch) : ~StaleAgainst(Kept(e, f.key_epoch), x)
    BY DEF Kept, StaleAgainst
  <2>2. \A d \in Ends : d # e => RxEpochs(d)' = RxEpochs(d)
    BY <1>3 DEF OpenEffect, RxEpochs
  <2>. QED
    BY <2>1, <2>2, <1>1, <1>3 DEF ReplayInv, EpochsClose, OpenEffect, StaleAgainst
<1>14. OpenedCovered'
  <2>1. SUFFICES ASSUME NEW d \in Ends, NEW n \in DOMAIN out'[d]
        PROVE  LET g == sealed[out'[d][n]] IN
               /\ g.key.dir = DirBit(Peer(d), TRUE)
               /\ g.key.dh <= dh[d]
               /\ g.key.dh = dh[d] =>
                    \/ StaleAgainst(RxEpochs(d)', g.key_epoch)
                    \/ /\ g.key_epoch \in DOMAIN rx'[d][g.kind]
                       /\ Covers(rx'[d][g.kind][g.key_epoch], g.counter)
    BY <1>4 DEF OpenedCovered, Refuses, DirBit, Peer, StaleAgainst, Covers
  <2>2. CASE n \in DOMAIN out[d]
    <3>. DEFINE g == sealed[out[d][n]]
    <3>1. /\ g.key.dir = DirBit(Peer(d), TRUE) /\ g.key.dh <= dh[d]
          /\ g.key.dh = dh[d] => Refuses(d, g)
      BY <2>2, <1>1 DEF ReplayInv, OpenedCovered
    <3>2. out[d][n] \in DOMAIN sealed
      BY <2>2, <1>1 DEF TypeOK
    <3>3. g.kind \in Kinds /\ g.key_epoch \in Nat /\ g.counter \in Nat \ {0}
      BY <3>2, <1>1, FrameTypes, RotateAssumption DEF SendInv, SealedBehind
    <3>4. CASE d = e /\ g.key.dh = dh[d]
      BY <3>1, <3>3, <3>4, <2>2, <1>1, <1>2, <1>3, <1>12, RefusalKept DEF ReplayInv
    <3>5. CASE d # e
      <4>1. rx'[d] = rx[d]
        BY <3>5, <1>3 DEF OpenEffect
      <4>. QED BY <4>1, <3>1, <2>2, <1>12 DEF Refuses, RxEpochs
    <3>. QED BY <3>1, <3>4, <3>5, <2>2, <1>12
  <2>3. CASE d = e /\ n = new /\ Accepts(w, f.counter)
    <3>1. Covers(Mark(w, f.counter), f.counter)
      BY <1>2, <1>5, MarkCovers
    <3>2. dh[e] \in Nat
      BY <1>1 DEF TypeOK
    <3>3. sealed[out'[d][n]] = f
      BY <2>3, <1>12
    <3>4. f.key.dh <= dh[d] /\ f.key.dir = DirBit(Peer(d), TRUE)
      BY <2>3, <3>2, <1>8
    <3>5. Covers(rx'[d][f.kind][f.key_epoch], f.counter)
      BY <2>3, <3>1, <1>7
    <3>6. f.key_epoch \in DOMAIN rx'[d][f.kind]
      BY <2>3, <1>7
    <3>. HIDE DEF f
    <3>. QED BY <3>3, <3>4, <3>5, <3>6
  <2>. QED BY <2>2, <2>3, <1>12
<1>15. WindowsBacked'
  <2>1. SUFFICES ASSUME NEW d \in Ends, NEW k \in Kinds, NEW x \in DOMAIN rx'[d][k]
        PROVE  /\ rx'[d][k][x].top > 0
               /\ 0 \in rx'[d][k][x].mask
               /\ \A b \in rx'[d][k][x].mask : \E n \in DOMAIN out'[d] :
                    LET g == sealed[out'[d][n]] IN
                    /\ g.kind = k /\ g.key_epoch = x /\ g.key.dh = dh[d]
                    /\ g.counter = rx'[d][k][x].top - b
    BY <1>4 DEF WindowsBacked
  <2>2. CASE x \in DOMAIN rx[d][k] /\ rx'[d][k][x] = rx[d][k][x]
    <3>1. /\ rx[d][k][x].top > 0
          /\ 0 \in rx[d][k][x].mask
          /\ \A b \in rx[d][k][x].mask : \E n \in DOMAIN out[d] :
               LET g == sealed[out[d][n]] IN
               /\ g.kind = k /\ g.key_epoch = x /\ g.key.dh = dh[d]
               /\ g.counter = rx[d][k][x].top - b
      BY <2>2, <1>1 DEF ReplayInv, WindowsBacked
    <3>. QED BY <3>1, <2>2, <1>12
  <2>3. CASE d = e /\ k = f.kind /\ x = f.key_epoch /\ Accepts(w, f.counter)
    <3>1. rx'[d][k][x] = Mark(w, f.counter)
      BY <2>3, <1>7
    <3>2. /\ Mark(w, f.counter).top > 0
          /\ 0 \in Mark(w, f.counter).mask
          /\ \A b \in Mark(w, f.counter).mask :
               \/ Mark(w, f.counter).top - b = f.counter
               \/ \E a \in w.mask : Mark(w, f.counter).top - b = w.top - a
      BY <2>3, <1>2, <1>5, MarkBits
    <3>3. ASSUME NEW a \in w.mask
          PROVE  \E n \in DOMAIN out[e] :
                    LET g == sealed[out[e][n]] IN
                    /\ g.kind = k /\ g.key_epoch = x /\ g.key.dh = dh[e]
                    /\ g.counter = w.top - a
      <4>1. f.key_epoch \in DOMAIN rx[e][f.kind] /\ w = rx[e][f.kind][f.key_epoch]
        BY <3>3, <1>5 DEF EmptyWindow
      <4>. QED BY <4>1, <2>3, <1>1, <1>2 DEF ReplayInv, WindowsBacked
    <3>4. ASSUME NEW b \in Mark(w, f.counter).mask
          PROVE  \E n \in DOMAIN out'[d] :
                    LET g == sealed[out'[d][n]] IN
                    /\ g.kind = k /\ g.key_epoch = x /\ g.key.dh = dh[d]
                    /\ g.counter = Mark(w, f.counter).top - b
      <4>1. CASE Mark(w, f.counter).top - b = f.counter
        BY <4>1, <2>3, <1>8, <1>12
      <4>2. CASE \E a \in w.mask : Mark(w, f.counter).top - b = w.top - a
        <5>1. PICK a \in w.mask : Mark(w, f.counter).top - b = w.top - a
          BY <4>2
        <5>2. PICK n \in DOMAIN out[e] :
                    LET g == sealed[out[e][n]] IN
                    /\ g.kind = k /\ g.key_epoch = x /\ g.key.dh = dh[e]
                    /\ g.counter = w.top - a
          BY <3>3
        <5>. QED BY <5>1, <5>2, <2>3, <1>12
      <4>. QED BY <4>1, <4>2, <3>2
    <3>. QED BY <3>1, <3>2, <3>4
  <2>4. CASE d = e /\ k = f.kind /\ x = f.key_epoch /\ ~Accepts(w, f.counter)
    <3>1. Mark(w, f.counter) = w
      BY <2>4 DEF Mark
    <3>2. w # EmptyWindow
      BY <2>4, <1>2 DEF Accepts, Ahead, EmptyWindow
    <3>. QED BY <3>1, <3>2, <2>2, <2>4, <1>5, <1>7
  <2>5. CASE d # e
    BY <2>2, <2>5, <1>3 DEF OpenEffect
  <2>6. CASE d = e /\ ~(k = f.kind /\ x = f.key_epoch)
    <3>1. x \in DOMAIN rx[e][k] /\ rx'[e][k][x] = rx[e][k][x]
      BY <2>6, <1>3 DEF OpenEffect
    <3>. QED BY <3>1, <2>2, <2>6
  <2>. QED BY <2>3, <2>4, <2>5, <2>6
<1>16. AtMostOnce'
  <2>1. \A d \in Ends : \A m, n \in DOMAIN out[d] : out[d][m] = out[d][n] => m = n
    BY <1>1 DEF ReplayInv, AtMostOnce
  <2>2. ASSUME NEW d \in Ends, NEW m \in DOMAIN out'[d], NEW n \in DOMAIN out'[d],
               out'[d][m] = out'[d][n]
        PROVE  m = n
    BY <2>1, <2>2, <1>9, <1>12
  <2>3. \A d \in Ends : \A n \in DOMAIN out'[d] :
          sealed'[out'[d][n]].key.dir = DirBit(Peer(d), TRUE)
    BY <1>14 DEF OpenedCovered, DirBit, Peer
  <2>. QED BY <2>2, <2>3 DEF AtMostOnce, DirBit, Peer
<1>. QED BY <1>13, <1>14, <1>15, <1>16 DEF ReplayInv

-----------------------------------------------------------------------------
(* The theorems. *)

\* Every operation on either end keeps the invariant.
LEMMA NextInv == IInv /\ [Next]_vars => IInv'
<1>. SUFFICES ASSUME IInv, [Next]_vars PROVE IInv'
  OBVIOUS
<1>1. CASE Next
  <2>1. PICK e \in Ends :
          \/ \E kind \in Kinds : Seal(e, kind)
          \/ \E i \in DOMAIN sealed : Open(e, i)
          \/ \E s \in Suites, epoch \in GarbledEpochs : OpenFails(e, s, epoch)
          \/ \E s \in Suites : SetSuite(e, s)
          \/ Rekey(e)
    BY <1>1 DEF Next
  <2>2. ASSUME NEW kind \in Kinds, Seal(e, kind) PROVE IInv'
    BY <2>2, SealInv
  <2>3. ASSUME NEW i \in DOMAIN sealed, Open(e, i) PROVE IInv'
    BY <2>3, OpenSendInv, OpenReplayInv DEF IInv
  <2>4. ASSUME NEW s \in Suites, NEW epoch \in GarbledEpochs, OpenFails(e, s, epoch)
        PROVE IInv'
    BY <2>4, OpenFailsInv
  <2>5. ASSUME NEW s \in Suites, SetSuite(e, s) PROVE IInv'
    BY <2>5, SetSuiteInv
  <2>6. CASE Rekey(e)
    BY <2>6, RekeyInv
  <2>. QED BY <2>1, <2>2, <2>3, <2>4, <2>5, <2>6
<1>2. CASE UNCHANGED vars
  <2>1. UNCHANGED <<dh, suite, send_epoch, epoch_bytes, tx, send_cipher, rx,
                    rx_ciphers, sealed, out>>
    BY <1>2 DEF vars
  <2>2. TypeOK /\ ReplayInv
    BY DEF IInv, SendInv
  <2>3. ReplayInv'
    BY <2>1, <2>2, NoOpenReplayInv
  <2>4. TypeOK'
    BY <2>1, <2>2 DEF TypeOK
  <2>5. CountersBounded' /\ CachesFresh' /\ SealedBehind' /\ CountersUnique'
    BY <2>1 DEF IInv, SendInv, CountersBounded, CachesFresh, SealedBehind,
                CountersUnique, SealerOf, SendKey, RecvKey
  <2>. QED BY <2>3, <2>4, <2>5 DEF IInv, SendInv
<1>. QED BY <1>1, <1>2

\* The inductive invariant holds in every reachable state of the association.
THEOREM Inductive == Spec => []IInv
  BY InitInv, NextInv, PTL DEF Spec

\* The association's state stays well typed: every index handed up names a
\* sealed frame, every window is a window.
THEOREM TypeCorrect == Spec => []TypeOK
<1>1. IInv => TypeOK
  BY DEF IInv, SendInv
<1>. QED BY <1>1, Inductive, PTL

\* seal and seal_receipt never use a nonce twice with one key, for every
\* rotation volume below the receipt bit and every interleaving.
THEOREM NoncesAreUnique == Spec => []NonceUnique
<1>1. IInv => NonceUnique
  <2>1. SUFFICES ASSUME IInv, NEW i \in DOMAIN sealed, NEW j \in DOMAIN sealed,
                        sealed[i].key = sealed[j].key,
                        Nonce(sealed[i].kind, sealed[i].counter)
                          = Nonce(sealed[j].kind, sealed[j].counter)
                 PROVE  i = j
    BY DEF NonceUnique
  <2>2. TypeOK /\ SealedBehind /\ CountersUnique
    BY <2>1 DEF IInv, SendInv
  <2>3. /\ sealed[i].kind \in Kinds /\ sealed[i].counter \in 1 .. RotateBytes
        /\ sealed[j].kind \in Kinds /\ sealed[j].counter \in 1 .. RotateBytes
    BY <2>2, FrameTypes DEF SealedBehind
  <2>4. sealed[i].kind = sealed[j].kind /\ sealed[i].counter = sealed[j].counter
    BY <2>1, <2>3, RotateAssumption DEF Nonce, Kinds
  <2>5. sealed[i].key_epoch = sealed[j].key_epoch
    BY <2>1, <2>2 DEF SealedBehind
  <2>6. SealerOf(sealed[i]) = SealerOf(sealed[j])
    BY <2>1 DEF SealerOf
  <2>. QED BY <2>2, <2>4, <2>5, <2>6 DEF CountersUnique
<1>. QED BY <1>1, Inductive, PTL

\* open hands no frame up twice and none that the peer did not seal.
THEOREM OpenedAtMostOnce == Spec => []AtMostOnce
<1>1. IInv => AtMostOnce
  BY DEF IInv, ReplayInv
<1>. QED BY <1>1, Inductive, PTL

\* open never refuses a fresh frame that is inside the window and the grace.
THEOREM ReorderingIsTolerated == Spec => []ReorderTolerated
<1>1. IInv => ReorderTolerated
  <2>1. SUFFICES ASSUME IInv, NEW e \in Ends, NEW i \in DOMAIN sealed,
                        sealed[i].key = RecvKey(e, sealed[i].key_epoch),
                        \A n \in DOMAIN out[e] : out[e][n] # i,
                        \A g \in Opened(e) :
                          /\ g.key_epoch <= sealed[i].key_epoch + GraceSpan
                          /\ g.kind = sealed[i].kind /\ g.key_epoch = sealed[i].key_epoch
                               => g.counter < sealed[i].counter + RxWindowBits
                 PROVE  Openable(e, i)
    BY DEF ReorderTolerated
  <2>. DEFINE ff == sealed[i]
  <2>2. /\ TypeOK /\ SealedBehind /\ CountersUnique /\ CachesFresh
        /\ WindowsBacked /\ OpenedCovered
    BY <2>1 DEF IInv, SendInv, ReplayInv
  <2>3. /\ ff.kind \in Kinds /\ ff.key_epoch \in Nat /\ ff.counter \in Nat \ {0}
        /\ ff.key_suite = ff.key.suite /\ InShard(ff.key_epoch)
    BY <2>2, FrameTypes, RotateAssumption DEF SealedBehind
  <2>4. ASSUME NEW k \in Kinds, NEW x \in DOMAIN rx[e][k], NEW b \in rx[e][k][x].mask
        PROVE  \E n \in DOMAIN out[e] :
                 /\ sealed[out[e][n]].kind = k /\ sealed[out[e][n]].key_epoch = x
                 /\ sealed[out[e][n]].counter = rx[e][k][x].top - b
                 /\ sealed[out[e][n]] \in Opened(e)
    BY <2>2, <2>4 DEF WindowsBacked, Opened
  <2>5. \A k \in Kinds : \A x \in DOMAIN rx[e][k] : x <= ff.key_epoch + GraceSpan
    BY <2>1, <2>2, <2>4 DEF WindowsBacked
  <2>6. PassesChecks(e, ff.key_suite, ff.key_epoch)
    <3>1. ~StaleAgainst(RxEpochs(e), ff.key_epoch)
      <4>1. RxEpochs(e) \subseteq Nat
        BY <2>2 DEF RxEpochs, TypeOK, Kinds
      <4>. QED BY <4>1, <2>3, <2>5, WidthAssumption DEF StaleAgainst, RxEpochs, Kinds
    <3>2. ff.key_suite = suite[e]
      BY <2>1, <2>3 DEF RecvKey
    <3>. QED BY <3>1, <3>2, <2>3 DEF PassesChecks
  <2>7. OpenCipher(e, ff.key_epoch) = ff.key
    BY <2>1, <2>2 DEF CachesFresh, OpenCipher
  <2>8. Accepts(WindowOf(e, ff.kind, ff.key_epoch), ff.counter)
    <3>. DEFINE w == WindowOf(e, ff.kind, ff.key_epoch)
    <3>1. /\ w \in Windows
          /\ ff.key_epoch \notin DOMAIN rx[e][ff.kind] => w = EmptyWindow
          /\ ff.key_epoch \in DOMAIN rx[e][ff.kind] => w = rx[e][ff.kind][ff.key_epoch]
      BY <2>2, <2>3, WindowFacts
    <3>2. CASE ff.key_epoch \notin DOMAIN rx[e][ff.kind]
      BY <3>1, <3>2, <2>3 DEF Accepts, Ahead, EmptyWindow
    <3>3. CASE ff.key_epoch \in DOMAIN rx[e][ff.kind] /\ ~Ahead(w, ff.counter)
      <4>1. w = rx[e][ff.kind][ff.key_epoch] /\ 0 \in w.mask
        BY <3>1, <3>3, <2>2, <2>3 DEF WindowsBacked
      <4>2. \E g \in Opened(e) : g.kind = ff.kind /\ g.key_epoch = ff.key_epoch
                                  /\ g.counter = w.top - 0
        BY <4>1, <3>3, <2>3, <2>4
      <4>3. w.top - ff.counter < RxWindowBits
        BY <4>2, <3>1, <2>1, <2>3, WidthAssumption DEF Windows
      <4>4. w.top - ff.counter \notin w.mask
        <5>1. SUFFICES ASSUME w.top - ff.counter \in w.mask PROVE FALSE
          OBVIOUS
        <5>2. PICK n \in DOMAIN out[e] :
                 /\ sealed[out[e][n]].kind = ff.kind
                 /\ sealed[out[e][n]].key_epoch = ff.key_epoch
                 /\ sealed[out[e][n]].counter = w.top - (w.top - ff.counter)
          BY <5>1, <4>1, <3>3, <2>3, <2>4
        <5>3. sealed[out[e][n]].counter = ff.counter
          BY <5>2, <3>1, <2>3 DEF Windows
        <5>4. sealed[out[e][n]].key.dir = DirBit(Peer(e), TRUE) /\ out[e][n] \in DOMAIN sealed
          BY <2>2 DEF OpenedCovered, TypeOK
        <5>5. ff.key.dir = DirBit(Peer(e), TRUE)
          BY <2>1 DEF RecvKey, DirBit, Peer, Ends
        <5>6. SealerOf(sealed[out[e][n]]) = SealerOf(ff)
          BY <5>4, <5>5 DEF SealerOf
        <5>7. out[e][n] = i
          BY <5>2, <5>3, <5>4, <5>6, <2>2 DEF CountersUnique
        <5>. QED BY <5>7, <2>1
      <4>. QED BY <4>3, <4>4, <2>3 DEF Accepts
    <3>4. CASE Ahead(w, ff.counter)
      BY <3>4, <2>3 DEF Accepts
    <3>. QED BY <3>2, <3>3, <3>4
  <2>. QED BY <2>6, <2>7, <2>8 DEF Openable
<1>. QED BY <1>1, Inductive, PTL

-----------------------------------------------------------------------------
(* The refinement. *)

Log == [i \in DOMAIN sealed |-> SealerOf(sealed[i])]

\* Append, as a function on the longer index range.
LEMMA AppendIsFunction ==
  ASSUME NEW T, NEW s \in Seq(T), NEW x \in T
  PROVE  Append(s, x) = [i \in 1 .. (Len(s) + 1) |-> IF i = Len(s) + 1 THEN x ELSE s[i]]
<1>. DEFINE t == Append(s, x)
<1>1. t \in Seq(T) /\ Len(t) = Len(s) + 1
  OBVIOUS
<1>2. \A i \in 1 .. (Len(s) + 1) : t[i] = IF i = Len(s) + 1 THEN x ELSE s[i]
  OBVIOUS
<1>. HIDE DEF t
<1>3. t = [i \in 1 .. Len(t) |-> t[i]]
  BY <1>1
<1>. QED BY <1>1, <1>2, <1>3 DEF t

\* The association implements the abstract datagram channel.
THEOREM Refinement == Spec => ImplementsChannel
<1>1. Init => Channel!Init
  <2>1. Init => Log = <<>>
    BY DEF Init, Log
  <2>. QED BY <2>1 DEF Init, Channel!Init, Log
<1>2. IInv /\ [Next]_vars => [Channel!Next]_(Channel!vars)
  <2>. SUFFICES ASSUME IInv, [Next]_vars PROVE [Channel!Next]_(Channel!vars)
    OBVIOUS
  <2>0. TypeOK /\ SendInv
    BY DEF IInv, SendInv
  <2>1. ASSUME NEW e \in Ends, NEW kind \in Kinds, Seal(e, kind)
        PROVE  Channel!Next
    <3>1. PICK epoch \in Nat, counter \in 1 .. RotateBytes :
            SealEffect(e, kind, epoch, counter)
      BY <2>0, <2>1, SealStep
    <3>. DEFINE g == SealedFrame(e, kind, epoch, counter)
    <3>2. sealed' = Append(sealed, g) /\ out' = out
      BY <3>1 DEF SealEffect
    <3>3. SealerOf(g) = e
      BY SealerOfSendKey DEF SealedFrame
    <3>4. Log' = [i \in DOMAIN sealed' |-> SealerOf(sealed'[i])]
      BY DEF Log, SealerOf
    <3>5. Log' = Append(Log, e)
      <4>. HIDE DEF g
      <4>1. sealed \in Seq(Frames)
        BY <2>0 DEF TypeOK
      <4>2. Log \in Seq(Ends) /\ Len(Log) = Len(sealed)
        BY <4>1 DEF Log, SealerOf, Ends
      <4>3. \A i \in DOMAIN sealed : Log[i] = SealerOf(sealed[i])
        BY DEF Log
      <4>4. /\ DOMAIN sealed' = 1 .. (Len(sealed) + 1)
            /\ sealed'[Len(sealed) + 1] = g
            /\ \A i \in 1 .. Len(sealed) : sealed'[i] = sealed[i]
        BY <4>1, <3>2
      <4>5. Append(Log, e) =
              [i \in 1 .. (Len(Log) + 1) |-> IF i = Len(Log) + 1 THEN e ELSE Log[i]]
        BY <4>2, AppendIsFunction
      <4>6. \A i \in 1 .. (Len(sealed) + 1) :
              SealerOf(sealed'[i]) = IF i = Len(sealed) + 1 THEN e ELSE Log[i]
        BY <4>1, <4>3, <4>4, <3>3
      <4>. QED BY <4>2, <4>4, <4>5, <4>6, <3>4
    <3>. QED BY <3>2, <3>5 DEF Channel!Next, Channel!Send, Log
  <2>2. ASSUME NEW e \in Ends, NEW i \in DOMAIN sealed, Open(e, i)
        PROVE  Channel!Next \/ UNCHANGED Channel!vars
    <3>. DEFINE w == WindowOf(e, sealed[i].kind, sealed[i].key_epoch)
    <3>1. OpenEffect(e, sealed[i], i)
      BY <2>2, OpenStep
    <3>2. sealed' = sealed /\ Log' = Log
      BY <3>1 DEF OpenEffect, Log, SealerOf
    <3>3. CASE ~Accepts(w, sealed[i].counter)
      <4>1. out' = out
        BY <3>1, <3>3 DEF OpenEffect
      <4>. QED BY <4>1, <3>2 DEF Channel!vars, Log
    <3>4. CASE Accepts(w, sealed[i].counter)
      <4>1. out' = [out EXCEPT ![e] = Append(@, i)]
        BY <3>1, <3>4 DEF OpenEffect
      <4>2. SealerOf(sealed[i]) # e
        BY <3>1 DEF OpenEffect, RecvKey, DirBit, SealerOf, Ends
      <4>3. \A n \in DOMAIN out[e] : out[e][n] # i
        <5>1. AtMostOnce'
          BY <2>2, OpenReplayInv DEF ReplayInv
        <5>2. out[e] \in Seq(Nat) /\ i \in Nat /\ DOMAIN out = Ends
          BY <2>0 DEF TypeOK
        <5>3. out'[e] = Append(out[e], i)
          BY <4>1, <5>2
        <5>4. \A m, n \in DOMAIN out'[e] : out'[e][m] = out'[e][n] => m = n
          BY <5>1 DEF AtMostOnce
        <5>5. SUFFICES ASSUME NEW n \in DOMAIN out[e], out[e][n] = i PROVE FALSE
          OBVIOUS
        <5>6. n \in DOMAIN out'[e] /\ Len(out[e]) + 1 \in DOMAIN out'[e] /\ n # Len(out[e]) + 1
          BY <5>2, <5>3
        <5>7. out'[e][n] = i /\ out'[e][Len(out[e]) + 1] = i
          BY <5>2, <5>3, <5>5, AppendFacts
        <5>. QED BY <5>4, <5>6, <5>7
      <4>4. Log[i] # e /\ i \in DOMAIN Log
        BY <4>2 DEF Log
      <4>5. Channel!Deliver(e, i)
        BY <4>1, <4>3, <4>4, <3>2 DEF Channel!Deliver, Log
      <4>. QED BY <4>4, <4>5 DEF Channel!Next, Log
    <3>. QED BY <3>3, <3>4
  <2>3. ASSUME sealed' = sealed, out' = out PROVE UNCHANGED Channel!vars
    BY <2>3 DEF Channel!vars, SealerOf
  <2>4. CASE Next
    BY <2>1, <2>2, <2>3, <2>4 DEF Next, OpenFails, SetSuite, Rekey
  <2>5. CASE UNCHANGED vars
    BY <2>3, <2>5 DEF vars
  <2>. QED BY <2>4, <2>5
<1>. QED BY <1>1, <1>2, Inductive, PTL DEF Spec, ImplementsChannel, Channel!Spec
=============================================================================
