-------------------------------- MODULE Fec ---------------------------------
(***************************************************************************)
(* Forward error correction, src/core/ipv8-fec/src/{lib,tx,rx}.rs, and its  *)
(* wiring in ipv8-node (Plane::dispatch_tun_batch and handle_inbound): the   *)
(* sender adds one XOR recovery frame to each K marked Data frames, the      *)
(* receiver rebuilds the one member it misses.  The exclusive or of frames   *)
(* is the symmetric difference of the set of frames it was taken of.  The    *)
(* wire loses, repeats and reorders; the sender may restart.                *)
(***************************************************************************)
EXTENDS Integers, Sequences, FiniteSets, FiniteSetsExt, SequencesExt

CONSTANTS
  FecK,             \* group size, FecTx::k
  FecCacheLimit,    \* FecRx::limit
  MaxSeenGroups,    \* MAX_SEEN_GROUPS
  FecLens,          \* frame lengths
  DataMinFrame,     \* DATA_MIN_FRAME
  MaxFecFrames,     \* bound: frames sealed in a model run
  MaxFecLives,      \* bound: lives of the sender
  MaxFecArrivals    \* bound: datagrams that arrive

ASSUME FecAssumption ==
  /\ FecK \in 2..16 /\ {FecCacheLimit, MaxSeenGroups} \subseteq Nat \ {0}
  /\ \A l \in FecLens : l >= DataMinFrame

VARIABLES
  fecTx,        \* FecTx: group_seq, acc and the member table (id, len)
  fecRx,        \* FecRx: cache in arrival order, seen_groups
  fecWire,      \* every datagram ever sent
  fecNext,      \* [life, ctr]: the sender's engine
  fecGot,       \* the Data frames the receiver's engine opened (its replay window)
  fecMet,       \* history: the Data frames that arrived
  fecLeft       \* arrivals left

fecVars == <<fecTx, fecRx, fecWire, fecNext, fecGot, fecMet, fecLeft>>

Xor(a, b) == (a \ b) \cup (b \ a)

(* data_counter: the eight octets before the tag, ciphertext of one nonce, hence *)
(* the same for copies of a frame and different for frames of other nonces.      *)
DataCounter(f) == <<f.life, f.ctr>>
FecCounters(rx) == {DataCounter(f) : f \in ToSet(rx.cache)}

FecTxNew == [group_seq |-> 0, acc |-> {}, members |-> <<>>]

(* Mutant of FecPush: the accumulator is not cleared for the next group. *)
FecPushKept(tx, f) ==
  LET acc == Xor(tx.acc, {f})
      members == Append(tx.members, [id |-> DataCounter(f), len |-> f.len])
  IN IF Len(members) < FecK
     THEN [tx |-> [tx EXCEPT !.acc = acc, !.members = members], out |-> {}]
     ELSE [tx |-> [FecTxNew EXCEPT !.group_seq = tx.group_seq + 1, !.acc = acc],
           out |-> {[type |-> "FecRecovery", group_seq |-> tx.group_seq, life |-> fecNext.life,
                     members |-> members, xor |-> acc,
                     xorLen |-> Max({m.len : m \in ToSet(members)})]}]

(* FecTx::push: the new state and the recovery frame, if the group is full *)
FecPush(tx, f) ==
  LET acc == Xor(tx.acc, {f})
      members == Append(tx.members, [id |-> DataCounter(f), len |-> f.len])
  IN IF Len(members) < FecK
     THEN [tx |-> [tx EXCEPT !.acc = acc, !.members = members], out |-> {}]
     ELSE [tx |-> [FecTxNew EXCEPT !.group_seq = tx.group_seq + 1],
           out |-> {[type |-> "FecRecovery", group_seq |-> tx.group_seq, life |-> fecNext.life,
                     members |-> members, xor |-> acc,
                     xorLen |-> Max({m.len : m \in ToSet(members)})]}]

(* FecRx::observe_data: cache by identifier, oldest out *)
FecObserve(rx, f) ==
  IF DataCounter(f) \in FecCounters(rx) THEN rx
  ELSE [rx EXCEPT !.cache =
          LET c == Append(@, f) IN IF Len(c) > FecCacheLimit THEN Tail(c) ELSE c]

FecMissing(rx, r) == {i \in DOMAIN r.members : r.members[i].id \notin FecCounters(rx)}

(* The member rebuilt: the recovery frame, and the members at hand taken out of it *)
FecRebuild(rx, r) ==
  LET here == {f \in ToSet(rx.cache) : \E i \in DOMAIN r.members : r.members[i].id = DataCounter(f)}
  IN Xor(r.xor, here)

FecWellFormed(r) ==
  /\ Len(r.members) \in 2..16
  /\ r.xorLen = Max({m.len : m \in ToSet(r.members)})
  /\ \A m \in ToSet(r.members) : m.len >= DataMinFrame

(* FecRx::accept_recovery: the new state and the rebuilt frame, if any; the    *)
(* self check of the rebuilt frame is that it is the frame the table names.    *)
FecAccept(rx, r) ==
  LET groups == Append(rx.seen_groups, r.group_seq)
      rx1 == [rx EXCEPT !.seen_groups = IF Len(groups) > MaxSeenGroups THEN Tail(groups) ELSE groups]
      lost == FecMissing(rx, r)
      made == FecRebuild(rx, r)
  IN IF ~FecWellFormed(r) \/ r.group_seq \in ToSet(rx.seen_groups) THEN [rx |-> rx, out |-> {}]
     ELSE [rx |-> rx1,
           out |-> IF Cardinality(lost) = 1 /\ {DataCounter(f) : f \in made} = {r.members[i].id : i \in lost}
                   THEN made ELSE {}]

-----------------------------------------------------------------------------
FecInit ==
  /\ fecTx = FecTxNew /\ fecRx = [cache |-> <<>>, seen_groups |-> <<>>]
  /\ fecWire = {} /\ fecNext = [life |-> 1, ctr |-> 0]
  /\ fecGot = {} /\ fecMet = {} /\ fecLeft = MaxFecArrivals

(* dispatch_tun_batch: one inner packet sealed as one or two frames; when the  *)
(* gate is open every frame is pushed, and recovery frames are sent first.     *)
FecSend(lens, marked) ==
  LET frame(i) == [type |-> "Data", life |-> fecNext.life, ctr |-> fecNext.ctr + i - 1, len |-> lens[i]]
      frames == [i \in DOMAIN lens |-> frame(i)]
      first == FecPush(fecTx, frame(1))
      second == FecPush(first.tx, frame(2))
      pushed == IF Len(lens) = 1 THEN first
                ELSE [tx |-> second.tx, out |-> first.out \cup second.out]
  IN /\ Cardinality({f \in fecWire : f.type = "Data"}) + Len(lens) <= MaxFecFrames
     /\ fecNext' = [fecNext EXCEPT !.ctr = @ + Len(lens)]
     /\ fecTx' = IF marked THEN pushed.tx ELSE fecTx
     /\ fecWire' = fecWire \cup ToSet(frames) \cup (IF marked THEN pushed.out ELSE {})
     /\ UNCHANGED <<fecRx, fecGot, fecMet, fecLeft>>

(* handle_inbound of a Data frame: it is cached, then opened by the engine,    *)
(* whose replay window takes each frame once.                                  *)
FecData(f) ==
  /\ fecLeft > 0 /\ fecLeft' = fecLeft - 1
  /\ f.type = "Data"
  /\ fecRx' = FecObserve(fecRx, f)
  /\ fecGot' = fecGot \cup {f} /\ fecMet' = fecMet \cup {f}
  /\ UNCHANGED <<fecTx, fecWire, fecNext>>

(* handle_inbound of a recovery frame; the rebuilt frame takes the same way in. *)
FecRecovery(r) ==
  LET res == FecAccept(fecRx, r)
  IN /\ fecLeft > 0 /\ fecLeft' = fecLeft - 1
     /\ r.type = "FecRecovery"
     /\ fecRx' = IF res.out = {} THEN res.rx ELSE FecObserve(res.rx, CHOOSE f \in res.out : TRUE)
     /\ fecGot' = fecGot \cup res.out
     /\ UNCHANGED <<fecTx, fecWire, fecNext, fecMet>>

(* The sending process is restarted: new keys, new FecTx; the receiver lives on. *)
FecRestart ==
  /\ fecNext.life < MaxFecLives
  /\ fecNext' = [life |-> fecNext.life + 1, ctr |-> 0] /\ fecTx' = FecTxNew
  /\ UNCHANGED <<fecRx, fecWire, fecGot, fecMet, fecLeft>>

FecNext ==
  \/ \E l \in FecLens, marked \in BOOLEAN : FecSend(<<l>>, marked)
  \/ \E l, m \in FecLens, marked \in BOOLEAN : FecSend(<<l, m>>, marked)
  \/ \E f \in fecWire : FecData(f) \/ FecRecovery(f)
  \/ FecRestart

FecSpec == FecInit /\ [][FecNext]_fecVars

-----------------------------------------------------------------------------
FecTypeOK ==
  /\ Len(fecTx.members) < FecK /\ Len(fecRx.cache) <= FecCacheLimit
  /\ IsInjective(fecRx.cache) /\ Len(fecRx.seen_groups) <= MaxSeenGroups
  /\ fecMet \subseteq fecGot

(* A frame the receiver's engine is handed was sealed by the sender, also when *)
(* it was rebuilt ("K 选 1 ... 无法注入数据"), and a group that lost exactly one     *)
(* member is complete once its recovery frame is accepted, whatever arrived     *)
(* in between, as long as the others are still cached and the receiver has not  *)
(* met the group number before.                                                *)
LoneLossRepaired ==
  [][/\ fecGot' \subseteq fecWire'
     /\ \A r \in fecWire :
          (/\ r.type = "FecRecovery" /\ FecRecovery(r)
           /\ r.group_seq \notin ToSet(fecRx.seen_groups)
           /\ Cardinality(FecMissing(fecRx, r)) = 1)
          => {m.id : m \in ToSet(r.members)} \subseteq {DataCounter(f) : f \in fecGot'}]_fecVars
=============================================================================
