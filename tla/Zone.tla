-------------------------------- MODULE Zone --------------------------------
(***************************************************************************)
(* The zone server, src/cloud/zoneserver: registration with a proof of         *)
(* possession, certificates, tokens, key rotation; behind one mutex, so each   *)
(* request is one step.  Records live in memory only.  A key belongs to the    *)
(* party that made it; a signature or token is what its maker can produce.     *)
(***************************************************************************)
EXTENDS Integers, FiniteSets

CONSTANTS
  ZoneAddrs, Parties, KeysOf,   \* KeysOf[p]: the keys party p holds the private half of
  CertTtl, TokenTtl,            \* DEFAULT_VALIDITY_SECS, DEFAULT_TOKEN_TTL_SECS
  MaxZoneTime, MaxZoneOps, MaxZoneRestarts

ASSUME ZoneAssumption ==
  /\ {CertTtl, TokenTtl} \subseteq Nat \ {0}
  /\ \A p, q \in Parties : p # q => KeysOf[p] \cap KeysOf[q] = {}

ZoneKeys == UNION {KeysOf[p] : p \in Parties}
ASSUME NoKeyAssumption == "none" \notin ZoneKeys
OwnerOf(k) == CHOOSE p \in Parties : k \in KeysOf[p]

VARIABLES
  records,     \* records[a]: the key bound to a, "none"
  anchor,      \* which CA and token key the process runs with
  seeded,      \* started with --ca-seed and --jwt-seed: a restart keeps them
  tokens,      \* tokens in circulation: [sub, exp, anchor, to]
  certs,       \* certificates in circulation: [addr, key, not_after, anchor]
  zoneNow, zoneBudget

zoneVars == <<records, anchor, seeded, tokens, certs, zoneNow, zoneBudget>>

ZoneInit ==
  /\ records = [a \in ZoneAddrs |-> "none"] /\ anchor = 0 /\ seeded \in BOOLEAN
  /\ tokens = {} /\ certs = {} /\ zoneNow = 0
  /\ zoneBudget = [ops |-> MaxZoneOps, restarts |-> MaxZoneRestarts]

Issue(a, k) == certs' = certs \cup {[addr |-> a, key |-> k, not_after |-> zoneNow + CertTtl, anchor |-> anchor]}

(* Mutant of Registers: registering again replaces the key. *)
RegistersOver(a, k) == TRUE

(* An address is free, or renewed by the key it is bound to *)
Registers(a, k) == records[a] \in {"none", k}

(* register: the proof is a signature by k, so only the holder of k gets here *)
ZoneRegister(p, a, k) ==
  /\ zoneBudget.ops > 0 /\ k \in KeysOf[p] /\ Registers(a, k)
  /\ records' = [records EXCEPT ![a] = k]
  /\ Issue(a, k)
  /\ tokens' = tokens \cup {[sub |-> a, exp |-> zoneNow + TokenTtl, anchor |-> anchor, to |-> p]}
  /\ zoneBudget' = [zoneBudget EXCEPT !.ops = @ - 1]
  /\ UNCHANGED <<anchor, seeded, zoneNow>>

(* verify_token: signed by this process, valid up to and including exp *)
VerifyToken(t) == t.anchor = anchor /\ zoneNow <= t.exp

(* rotate_key over gRPC: the address is the token's; the proof is by the new key. *)
(* The token is handed back unchanged, earlier certificates stay in circulation.  *)
RotateKey(p, t, k) ==
  /\ zoneBudget.ops > 0 /\ t.to = p /\ k \in KeysOf[p]
  /\ VerifyToken(t) /\ records[t.sub] # "none"
  /\ records' = [records EXCEPT ![t.sub] = k]
  /\ Issue(t.sub, k)
  /\ zoneBudget' = [zoneBudget EXCEPT !.ops = @ - 1]
  /\ UNCHANGED <<anchor, seeded, tokens, zoneNow>>

(* Restart: records are gone; without seeds so are the CA and the token key *)
ZoneRestart ==
  /\ zoneBudget.restarts > 0
  /\ records' = [a \in ZoneAddrs |-> "none"]
  /\ anchor' = IF seeded THEN anchor ELSE anchor + 1
  /\ zoneBudget' = [zoneBudget EXCEPT !.restarts = @ - 1]
  /\ UNCHANGED <<seeded, tokens, certs, zoneNow>>

ZoneTick == zoneNow < MaxZoneTime /\ zoneNow' = zoneNow + 1
            /\ UNCHANGED <<records, anchor, seeded, tokens, certs, zoneBudget>>

ZoneNext ==
  \/ \E p \in Parties : \/ \E a \in ZoneAddrs, k \in ZoneKeys : ZoneRegister(p, a, k)
                        \/ \E t \in tokens, k \in ZoneKeys : RotateKey(p, t, k)
  \/ ZoneRestart \/ ZoneTick

ZoneSpec == ZoneInit /\ [][ZoneNext]_zoneVars

-----------------------------------------------------------------------------
ZoneTypeOK == \A a \in ZoneAddrs : records[a] \in ZoneKeys \cup {"none"}

(* "注册接口不构成密钥替换通道": with generated seeds (the production setting), no two     *)
(* parties ever hold valid certificates of one trust anchor for the same address,  *)
(* whatever registrations, renewals, rotations and restarts come in between.       *)
(* (With fixed seeds a restart forgets who an address belonged to, and with it     *)
(* the guarantee; certificates of rotated-out keys stay valid until they expire.)  *)
OneHolderPerAnchor ==
  ~seeded => \A c, d \in certs : (c.addr = d.addr /\ c.anchor = d.anchor) => OwnerOf(c.key) = OwnerOf(d.key)
=============================================================================
