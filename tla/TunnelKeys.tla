----------------------------- MODULE TunnelKeys -----------------------------
(***************************************************************************)
(* One security association of the tunnel: the TunnelKeys values held by   *)
(* its two ends (src/core/ipv8-tunnel/src/crypto.rs) and the underlay      *)
(* between them, which may lose, duplicate, delay, reorder, reflect and    *)
(* garble frames.                                                          *)
(*                                                                         *)
(* Abstractions.  A key is the record of the inputs of its derivation      *)
(* (HKDF is injective), encryption is ideal (a frame opens exactly under   *)
(* the key and the nonce it was sealed with), bodies are counted as one    *)
(* unit of epoch_bytes each, and the hourly rotation is a choice that any  *)
(* seal may take.  Error returns that change no state are stuttering.      *)
(***************************************************************************)
EXTENDS Integers, Sequences

CONSTANTS
  Suites,           \* CipherSuite values
  RxWindowBits,     \* RX_WINDOW, 127 in the code
  GraceSpan,        \* GRACE_EPOCHS * stride: how far behind an epoch may be
  Stride,           \* number of flow shards (1: not sharded)
  Shard,            \* the residue class of this association's epochs
  RotateBytes,      \* ROTATE_BYTES, in frames
  ReceiptNonceBit,  \* 2^63: the bit receipt_nonce sets
  NoCipher,         \* an empty send_cipher
  MaxEpoch,         \* bound: epochs a model run reaches
  MaxRekey,         \* bound: DH generations a model run reaches
  MaxSeals,         \* bound: frames a model run seals
  Sealers,          \* bound: the ends that seal frames in a model run
  GarbledEpochs     \* bound: epochs a frame that does not decrypt may name

ASSUME SuitesAssumption == Suites # {} /\ NoCipher \notin [dh : Nat, suite : Suites, epoch : Nat, dir : {0, 1}]
ASSUME WidthAssumption == RxWindowBits \in Nat \ {0} /\ GraceSpan \in Nat
ASSUME ShardAssumption == Stride \in Nat \ {0} /\ Shard \in 0 .. Stride - 1
ASSUME RotateAssumption ==
  /\ RotateBytes \in Nat \ {0}
  /\ ReceiptNonceBit \in Nat
  /\ RotateBytes < ReceiptNonceBit
ASSUME BoundsAssumption ==
  /\ MaxEpoch \in Nat /\ MaxRekey \in Nat /\ MaxSeals \in Nat
  /\ Sealers \subseteq {"initiator", "responder"}
  /\ GarbledEpochs \subseteq Nat

Ends == {"initiator", "responder"}
Peer(e) == IF e = "initiator" THEN "responder" ELSE "initiator"

(* Data frames and receipts count, and are replay-checked, separately.     *)
Kinds == {"data", "receipt"}

VARIABLES
  dh,           \* the shared secret's generation, per end
  suite,        \* the suite configured, per end
  send_epoch, epoch_bytes,
  tx,           \* tx[e]["data"] = tx_counter, tx[e]["receipt"] = tx_receipt_counter
  send_cipher,  \* the cached send key, or NoCipher
  rx,           \* rx[e][kind]: the replay windows by epoch
  rx_ciphers,   \* the cached receive keys
  sealed,       \* every frame sealed, in order (the underlay keeps them all)
  out           \* out[e]: indices in sealed of the frames opened, in order

vars == <<dh, suite, send_epoch, epoch_bytes, tx, send_cipher, rx, rx_ciphers,
          sealed, out>>

-----------------------------------------------------------------------------
(* Keys and nonces. *)

\* mutant of DirBit: the direction without the role
RolelessDirBit(e, sending) == IF sending THEN 0 ELSE 1

\* cipher_for: the initiator sends, and the responder receives, under 0
DirBit(e, sending) == IF (e = "initiator") = sending THEN 0 ELSE 1

SendKey(e, epoch) ==
  [dh |-> dh[e], suite |-> suite[e], epoch |-> epoch, dir |-> DirBit(e, TRUE)]

\* mutant of RecvKey: an end receives under its own sending key
ReflectedRecvKey(e, epoch) == SendKey(e, epoch)

RecvKey(e, epoch) ==
  [dh |-> dh[e], suite |-> suite[e], epoch |-> epoch, dir |-> DirBit(e, FALSE)]

Keys == [dh : Nat, suite : Suites, epoch : Nat, dir : {0, 1}]

\* mutant of Nonce: receipts share the counter space of Data
SharedNonce(kind, counter) == counter

\* nonce_for, and receipt_nonce's bitwise OR with the top bit of the counter
Nonce(kind, counter) ==
  IF kind = "receipt" /\ counter < ReceiptNonceBit
    THEN counter + ReceiptNonceBit
    ELSE counter

Frames == [kind : Kinds, key_suite : Suites, key_epoch : Nat,
           counter : Nat, key : Keys]

-----------------------------------------------------------------------------
(* RxWindow: bit k of mask (RxWindowBits + 1 bits wide) stands for top - k. *)

Windows == [top : Nat, mask : SUBSET (0 .. RxWindowBits)]
EmptyWindow == [top |-> 0, mask |-> {}]
NoWindows == [x \in {} |-> EmptyWindow]

Ahead(w, c) == w.top = 0 \/ c > w.top

\* mutant of Accepts: the window is one counter short
ShortAccepts(w, c) ==
  /\ c # 0
  /\ \/ Ahead(w, c)
     \/ w.top - c < RxWindowBits - 1 /\ (w.top - c) \notin w.mask

Accepts(w, c) ==
  /\ c # 0
  /\ \/ Ahead(w, c)
     \/ w.top - c < RxWindowBits /\ (w.top - c) \notin w.mask

\* mutant of ShiftLeft: the mask is not cut to its width
UncutShiftLeft(mask, n) == {k + n : k \in mask}

ShiftLeft(mask, n) == {k \in 0 .. RxWindowBits : k >= n /\ (k - n) \in mask}

\* RxWindow::accept's new value: unchanged when the counter is refused
Mark(w, c) ==
  CASE ~Accepts(w, c) -> w
    [] Accepts(w, c) /\ Ahead(w, c) ->
         [top |-> c,
          mask |-> IF c - w.top >= RxWindowBits THEN {0}
                   ELSE ShiftLeft(w.mask, c - w.top) \cup {0}]
    [] OTHER -> [w EXCEPT !.mask = @ \cup {w.top - c}]

-----------------------------------------------------------------------------
Init ==
  /\ dh = [e \in Ends |-> 0]
  /\ suite \in [Ends -> Suites]
  /\ send_epoch = [e \in Ends |-> Shard]
  /\ epoch_bytes = [e \in Ends |-> 0]
  /\ tx = [e \in Ends |-> [k \in Kinds |-> 0]]
  /\ send_cipher = [e \in Ends |-> NoCipher]
  /\ rx = [e \in Ends |-> [k \in Kinds |-> NoWindows]]
  /\ rx_ciphers = [e \in Ends |-> {}]
  /\ sealed = <<>>
  /\ out = [e \in Ends |-> <<>>]

-----------------------------------------------------------------------------
(* Sending: seal and seal_receipt. *)

\* send_epoch_ready rotates on volume; the hour may have passed at any seal
RotatesBeforeSeal(e, aged) == epoch_bytes[e] >= RotateBytes \/ aged

EpochReady(e, aged) ==
  IF RotatesBeforeSeal(e, aged) THEN send_epoch[e] + Stride ELSE send_epoch[e]

\* the cached cipher is reused when it is of the epoch being sent
CipherReady(e, aged) ==
  IF /\ ~RotatesBeforeSeal(e, aged)
     /\ send_cipher[e] # NoCipher
     /\ send_cipher[e].epoch = send_epoch[e]
    THEN send_cipher[e]
    ELSE SendKey(e, EpochReady(e, aged))

\* advance_epoch restarts both counters
CountersReady(e, aged) ==
  IF RotatesBeforeSeal(e, aged) THEN [k \in Kinds |-> 0] ELSE tx[e]

SealWith(e, kind, aged) ==
  LET epoch == EpochReady(e, aged)
      cipher == CipherReady(e, aged)
      counter == CountersReady(e, aged)[kind] + 1
  IN /\ epoch <= MaxEpoch
     /\ send_epoch' = [send_epoch EXCEPT ![e] = epoch]
     /\ epoch_bytes' = [epoch_bytes EXCEPT
          ![e] = IF RotatesBeforeSeal(e, aged) THEN 1 ELSE @ + 1]
     /\ tx' = [tx EXCEPT ![e] = [CountersReady(e, aged) EXCEPT ![kind] = counter]]
     /\ send_cipher' = [send_cipher EXCEPT ![e] = cipher]
     /\ sealed' = Append(sealed,
          [kind |-> kind, key_suite |-> suite[e], key_epoch |-> epoch,
           counter |-> counter, key |-> cipher])
     /\ UNCHANGED <<dh, suite, rx, rx_ciphers, out>>

Seal(e, kind) ==
  /\ e \in Sealers /\ Len(sealed) < MaxSeals
  /\ \E aged \in BOOLEAN : SealWith(e, kind, aged)

-----------------------------------------------------------------------------
(* Receiving: open and open_receipt. *)

RxEpochs(e) == DOMAIN rx[e]["data"] \cup DOMAIN rx[e]["receipt"]

\* newest > epoch + GRACE_EPOCHS * stride, newest the largest epoch seen
StaleAgainst(epochs, epoch) == \E n \in epochs : n > epoch + GraceSpan

\* flow-shard routing: epoch = shard (mod stride)
InShard(epoch) == epoch % Stride = Shard

\* open_cipher's checks; every failure is an error return without effect
PassesChecks(e, key_suite, key_epoch) ==
  /\ key_suite = suite[e]
  /\ InShard(key_epoch)
  /\ ~StaleAgainst(RxEpochs(e), key_epoch)

\* the receive cipher of an epoch: the cached one, else a fresh derivation
OpenCipher(e, epoch) ==
  IF \E c \in rx_ciphers[e] : c.epoch = epoch
    THEN CHOOSE c \in rx_ciphers[e] : c.epoch = epoch
    ELSE RecvKey(e, epoch)

WindowOf(e, kind, epoch) ==
  IF epoch \in DOMAIN rx[e][kind] THEN rx[e][kind][epoch] ELSE EmptyWindow

\* mutant of Kept: the floor is an epoch too high
EagerKept(e, epoch) ==
  LET seen == RxEpochs(e) \cup {epoch}
  IN {x \in seen : ~\E n \in seen : n >= x + GraceSpan}

\* prune keeps the epochs that are not stale against the newest one
Kept(e, epoch) ==
  {x \in RxEpochs(e) \cup {epoch} : ~StaleAgainst(RxEpochs(e) \cup {epoch}, x)}

\* the windows of a kind after a decrypted frame: entry().or_default(), prune
WindowsAfter(e, k, kind, epoch, counter) ==
  [x \in (IF k = kind THEN DOMAIN rx[e][k] \cup {epoch} ELSE DOMAIN rx[e][k])
         \cap Kept(e, epoch) |->
     IF k = kind /\ x = epoch THEN Mark(WindowOf(e, kind, epoch), counter)
                              ELSE rx[e][k][x]]

\* the frame decrypts: it takes its place in the window, or is a Replay
Open(e, i) ==
  LET f == sealed[i]
      cipher == OpenCipher(e, f.key_epoch)
  IN /\ PassesChecks(e, f.key_suite, f.key_epoch)
     /\ cipher = f.key
     /\ rx' = [rx EXCEPT ![e] = [k \in Kinds |->
                 WindowsAfter(e, k, f.kind, f.key_epoch, f.counter)]]
     /\ rx_ciphers' = [rx_ciphers EXCEPT ![e] =
          {c \in @ \cup {cipher} :
             ~StaleAgainst(RxEpochs(e) \cup {f.key_epoch}, c.epoch)}]
     /\ out' = IF Accepts(WindowOf(e, f.kind, f.key_epoch), f.counter)
                 THEN [out EXCEPT ![e] = Append(@, i)]
                 ELSE out
     /\ UNCHANGED <<dh, suite, send_epoch, epoch_bytes, tx, send_cipher, sealed>>

\* DecryptFailed (garbled, reflected, or of another DH): only the cache grows
OpenFails(e, key_suite, key_epoch) ==
  /\ PassesChecks(e, key_suite, key_epoch)
  /\ rx_ciphers' = [rx_ciphers EXCEPT ![e] = @ \cup {OpenCipher(e, key_epoch)}]
  /\ UNCHANGED <<dh, suite, send_epoch, epoch_bytes, tx, send_cipher, rx,
                 sealed, out>>

-----------------------------------------------------------------------------
\* set_suite looks at the Data counter and the Data windows only
SetSuite(e, s) ==
  /\ send_epoch[e] = Shard
  /\ tx[e]["data"] = 0
  /\ DOMAIN rx[e]["data"] = {}
  /\ suite' = [suite EXCEPT ![e] = s]
  /\ send_cipher' = [send_cipher EXCEPT ![e] = NoCipher]
  /\ rx_ciphers' = [rx_ciphers EXCEPT ![e] = {}]
  /\ UNCHANGED <<dh, send_epoch, epoch_bytes, tx, rx, sealed, out>>

\* rekey: a new DH, the next epoch, and every receive window forgotten
Rekey(e) ==
  /\ dh[e] < MaxRekey
  /\ send_epoch[e] + Stride <= MaxEpoch
  /\ dh' = [dh EXCEPT ![e] = @ + 1]
  /\ send_epoch' = [send_epoch EXCEPT ![e] = @ + Stride]
  /\ epoch_bytes' = [epoch_bytes EXCEPT ![e] = 0]
  /\ tx' = [tx EXCEPT ![e] = [k \in Kinds |-> 0]]
  /\ send_cipher' = [send_cipher EXCEPT ![e] = NoCipher]
  /\ rx' = [rx EXCEPT ![e] = [k \in Kinds |-> NoWindows]]
  /\ rx_ciphers' = [rx_ciphers EXCEPT ![e] = {}]
  /\ UNCHANGED <<suite, sealed, out>>

Next ==
  \E e \in Ends :
    \/ \E kind \in Kinds : Seal(e, kind)
    \/ \E i \in DOMAIN sealed : Open(e, i)
    \/ \E s \in Suites, epoch \in GarbledEpochs : OpenFails(e, s, epoch)
    \/ \E s \in Suites : SetSuite(e, s)
    \/ Rekey(e)

Spec == Init /\ [][Next]_vars

-----------------------------------------------------------------------------
(* Properties. *)

\* The shape of the state: counters, caches, windows no wider than their mask,
\* and only frames that were sealed handed up.
TypeOK ==
  /\ dh \in [Ends -> Nat]
  /\ suite \in [Ends -> Suites]
  /\ send_epoch \in [Ends -> Nat]
  /\ epoch_bytes \in [Ends -> Nat]
  /\ tx \in [Ends -> [Kinds -> Nat]]
  /\ send_cipher \in [Ends -> Keys \cup {NoCipher}]
  /\ DOMAIN rx = Ends
  /\ \A e \in Ends :
       /\ DOMAIN rx[e] = Kinds
       /\ \A k \in Kinds :
            /\ DOMAIN rx[e][k] \subseteq Nat
            /\ rx[e][k] \in [DOMAIN rx[e][k] -> Windows]
  /\ rx_ciphers \in [Ends -> SUBSET Keys]
  /\ sealed \in Seq(Frames)
  /\ out \in [Ends -> Seq(Nat)]
  /\ \A e \in Ends : \A n \in DOMAIN out[e] : out[e][n] \in DOMAIN sealed

\* The nonce claim of crypto.rs ("the sender's counter is strictly increasing,
\* hence the nonce is unique"; receipts "in a disjoint space"): no key ever
\* encrypts two frames under one nonce, across rotations, rekeys, suite
\* changes and the interleaving of Data with receipts.
NonceUnique ==
  \A i, j \in DOMAIN sealed :
    /\ sealed[i].key = sealed[j].key
    /\ Nonce(sealed[i].kind, sealed[i].counter)
         = Nonce(sealed[j].kind, sealed[j].counter)
    => i = j

\* open's replay windows and epoch grace together: whatever the underlay
\* duplicates or delays, no frame is handed up twice, and every frame handed
\* up was sealed by the other end.  Pruning a window must therefore never
\* outrun the refusal of its epoch.
AtMostOnce ==
  \A e \in Ends : \A m, n \in DOMAIN out[e] :
    /\ sealed[out[e][n]].key.dir = DirBit(Peer(e), TRUE)
    /\ out[e][m] = out[e][n] => m = n

\* The frames end e has opened under its present DH.
Opened(e) ==
  {sealed[out[e][n]] : n \in {m \in DOMAIN out[e] : sealed[out[e][m]].key.dh = dh[e]}}

\* open would hand frame i up now.
Openable(e, i) ==
  /\ PassesChecks(e, sealed[i].key_suite, sealed[i].key_epoch)
  /\ OpenCipher(e, sealed[i].key_epoch) = sealed[i].key
  /\ Accepts(WindowOf(e, sealed[i].kind, sealed[i].key_epoch), sealed[i].counter)

\* "Tolerates reordering": a frame of the current keys that was never handed up,
\* is less than a window behind the frames opened of its epoch and not beyond
\* the epoch grace, is still accepted: no replay, garbled frame, prune, cached
\* cipher or frame of the other kind makes open refuse it.
ReorderTolerated ==
  \A e \in Ends : \A i \in DOMAIN sealed :
    LET f == sealed[i] IN
    /\ f.key = RecvKey(e, f.key_epoch)
    /\ \A n \in DOMAIN out[e] : out[e][n] # i
    /\ \A g \in Opened(e) :
         /\ g.key_epoch <= f.key_epoch + GraceSpan
         /\ g.kind = f.kind /\ g.key_epoch = f.key_epoch
              => g.counter < f.counter + RxWindowBits
    => Openable(e, i)

\* The end that sealed a frame.
SealerOf(f) == IF f.key.dir = 0 THEN "initiator" ELSE "responder"

Channel == INSTANCE SecureChannel WITH
  log <- [i \in DOMAIN sealed |-> SealerOf(sealed[i])]

\* The association implements the channel the tunnel promises: seal is a Send,
\* a successful open a Deliver to the other end, every other step (replays,
\* failed decryptions, rotation bookkeeping, rekey, set_suite) changes nothing
\* a user of the tunnel sees.
ImplementsChannel == Channel!Spec

-----------------------------------------------------------------------------
(* The inductive strengthening the proofs rest on. *)

\* Both counters stay below the volume that forces a rotation.
CountersBounded ==
  \A e \in Ends :
    /\ epoch_bytes[e] <= RotateBytes
    /\ \A k \in Kinds : tx[e][k] <= epoch_bytes[e]
    /\ InShard(send_epoch[e])

\* A cached cipher is the one a fresh derivation would give.
CachesFresh ==
  \A e \in Ends :
    /\ send_cipher[e] \in {NoCipher, SendKey(e, send_epoch[e])}
    /\ \A c \in rx_ciphers[e] : c = RecvKey(e, c.epoch)

\* A sealed frame names its key, and lies behind its sealer's counters.
SealedBehind ==
  \A i \in DOMAIN sealed :
    LET f == sealed[i]
        e == SealerOf(f)
    IN /\ f.key_suite = f.key.suite /\ f.key_epoch = f.key.epoch
       /\ f.key_epoch <= send_epoch[e] /\ InShard(f.key_epoch)
       /\ f.counter \in 1 .. RotateBytes
       /\ f.key_epoch = send_epoch[e] => f.counter <= tx[e][f.kind]

CountersUnique ==
  \A i, j \in DOMAIN sealed :
    /\ SealerOf(sealed[i]) = SealerOf(sealed[j])
    /\ sealed[i].kind = sealed[j].kind
    /\ sealed[i].key_epoch = sealed[j].key_epoch
    /\ sealed[i].counter = sealed[j].counter
    => i = j

\* The epochs with a window are within the grace of each other.
EpochsClose ==
  \A e \in Ends : \A x \in RxEpochs(e) : ~StaleAgainst(RxEpochs(e), x)

\* A window would refuse this counter.
Covers(w, c) ==
  c <= w.top /\ (w.top - c >= RxWindowBits \/ (w.top - c) \in w.mask)

\* End e would refuse frame f as stale or as a replay.
Refuses(e, f) ==
  \/ StaleAgainst(RxEpochs(e), f.key_epoch)
  \/ /\ f.key_epoch \in DOMAIN rx[e][f.kind]
     /\ Covers(rx[e][f.kind][f.key_epoch], f.counter)

\* What was opened came from the peer; under the present DH it is refused.
OpenedCovered ==
  \A e \in Ends : \A n \in DOMAIN out[e] :
    LET f == sealed[out[e][n]] IN
    /\ f.key.dir = DirBit(Peer(e), TRUE)
    /\ f.key.dh <= dh[e]
    /\ f.key.dh = dh[e] => Refuses(e, f)

\* Every bit of a window stands for a frame that was opened.
WindowsBacked ==
  \A e \in Ends : \A k \in Kinds : \A x \in DOMAIN rx[e][k] :
    /\ rx[e][k][x].top > 0
    /\ 0 \in rx[e][k][x].mask
    /\ \A b \in rx[e][k][x].mask : \E n \in DOMAIN out[e] :
         LET f == sealed[out[e][n]] IN
         /\ f.kind = k /\ f.key_epoch = x /\ f.key.dh = dh[e]
         /\ f.counter = rx[e][k][x].top - b

SendInv == TypeOK /\ CountersBounded /\ CachesFresh /\ SealedBehind /\ CountersUnique
ReplayInv == EpochsClose /\ OpenedCovered /\ WindowsBacked /\ AtMostOnce
IInv == SendInv /\ ReplayInv
=============================================================================
