----------------------------- MODULE Handshake ------------------------------
(***************************************************************************)
(* Key agreement between tunnel engines over UDP: any host may start,      *)
(* abandon or reset at any time, and the underlay may lose, duplicate,     *)
(* delay, reorder and misdeliver the Init and Resp frames.  Time is only   *)
(* what certificate expiry makes of it.                                    *)
(***************************************************************************)
EXTENDS Engine, Naturals, Sequences

CONSTANTS
  Hosts,
  PeerAddr,    \* PeerAddr[h]: the peer_addr h is configured with
  MaxEph       \* bound: ephemerals a host makes in a model run

ASSUME HostsAssumption == PeerAddr \in [Hosts -> Hosts] /\ MaxEph \in Nat

VARIABLES
  eng,       \* eng[h]: the engine of h
  made,      \* made[h]: how many ephemerals h has made
  net,       \* every frame sent, forever deliverable
  expired,   \* hosts whose certificate has expired (now > not_after)
  installs   \* every TunnelKeys value an engine ever installed, in order

vars == <<eng, made, net, expired, installs>>

Eph == Hosts \X Nat

(* Mutant of NextEph: a host makes its key pair once. *)
StaticEph(h) == <<h, 1>>

(* EphemeralKey::generate: a key pair never made before. *)
NextEph(h) == <<h, made[h] + 1>>

Init ==
  /\ eng = [h \in Hosts |-> EngineNew]
  /\ made = [h \in Hosts |-> 0]
  /\ net = {}
  /\ expired = {}
  /\ installs = <<>>

-----------------------------------------------------------------------------
(* auth_accept / auth_finish_init: a certificate that has not expired, of   *)
(* the peer we mean to talk to.  The plaintext handshake checks neither.    *)
Trusts(h, m) == Auth => m.from \notin expired /\ m.from = PeerAddr[h]

Start(h) ==
  /\ eng[h].state = "Idle"
  /\ made[h] < MaxEph
  /\ eng' = [eng EXCEPT ![h] = StartHandshake(@, NextEph(h))]
  /\ made' = [made EXCEPT ![h] = @ + 1]
  /\ net' = net \cup {InitFrame(h, NextEph(h))}
  /\ UNCHANGED <<expired, installs>>

Abandon(h) ==
  /\ eng[h].state = "Initiating"
  /\ eng' = [eng EXCEPT ![h] = AbandonHandshake(@)]
  /\ UNCHANGED <<made, net, expired, installs>>

ResetEngine(h) ==
  /\ eng' = [eng EXCEPT ![h] = Reset(@)]
  /\ UNCHANGED <<made, net, expired, installs>>

ReplayResp(h, m) ==
  /\ m.type = "init" /\ IsBoundInit(eng[h], m)
  /\ net' = net \cup {eng[h].cached_resp}
  /\ UNCHANGED <<eng, made, expired, installs>>

TakeInit(h, m) ==
  /\ m.type = "init" /\ ConsidersInit(eng[h], m) /\ Trusts(h, m)
  /\ made[h] < MaxEph
  /\ eng' = [eng EXCEPT ![h] = AcceptInit(@, h, m, NextEph(h))]
  /\ made' = [made EXCEPT ![h] = @ + 1]
  /\ net' = net \cup {eng'[h].cached_resp}
  /\ installs' = Append(installs, eng'[h].keys)
  /\ UNCHANGED expired

RejectInit(h, m) ==
  /\ m.type = "init" /\ ConsidersInit(eng[h], m) /\ ~Trusts(h, m)
  /\ eng' = [eng EXCEPT ![h] = RefuseInit(@)]
  /\ UNCHANGED <<made, net, expired, installs>>

TakeResp(h, m) ==
  /\ m.type = "resp" /\ AwaitsResp(eng[h])
  /\ Trusts(h, m) /\ BindsOurInit(eng[h], m)
  /\ eng' = [eng EXCEPT ![h] = FinishInit(@, m)]
  /\ installs' = Append(installs, eng'[h].keys)
  /\ UNCHANGED <<made, net, expired>>

RejectResp(h, m) ==
  /\ m.type = "resp" /\ AwaitsResp(eng[h])
  /\ ~(Trusts(h, m) /\ BindsOurInit(eng[h], m))
  /\ eng' = [eng EXCEPT ![h] = RefuseResp(@)]
  /\ UNCHANGED <<made, net, expired, installs>>

(* A Resp of the wrong length: BadHandshakeLen, BadBundleLen. *)
GarbledResp(h) ==
  /\ AwaitsResp(eng[h])
  /\ eng' = [eng EXCEPT ![h] = RefuseResp(@)]
  /\ UNCHANGED <<made, net, expired, installs>>

(* The clock passes not_after; certificates matter in Auth mode only. *)
Expire(h) ==
  /\ Auth
  /\ expired' = expired \cup {h}
  /\ UNCHANGED <<eng, made, net, installs>>

Receive(h, m) ==
  \/ ReplayResp(h, m) \/ TakeInit(h, m) \/ RejectInit(h, m)
  \/ TakeResp(h, m) \/ RejectResp(h, m)

Next ==
  \E h \in Hosts :
    \/ Start(h) \/ Abandon(h) \/ ResetEngine(h) \/ GarbledResp(h) \/ Expire(h)
    \/ \E m \in net : m.from # h /\ Receive(h, m)

Spec == Init /\ [][Next]_vars

-----------------------------------------------------------------------------
(* Properties. *)

Frames ==
  [type : {"init"}, from : Hosts, eph : Eph]
    \cup [type : {"resp"}, from : Hosts, eph : Eph, bound : Eph \cup {None}]

Keys == [dh : SUBSET Eph, initiator : BOOLEAN]

Engines ==
  [state : {"Idle", "Initiating", "Established"}, pending : Eph \cup {None},
   keys : Keys \cup {None}, bound_init : Eph \cup {None},
   cached_resp : Frames \cup {None}, sharded : {FALSE}, auth_failed : BOOLEAN]

ASSUME NoneAssumption == None \notin Eph \cup Keys \cup Frames

\* The shape of an engine: pending exactly while Initiating, keys exactly while
\* Established, a cached Resp exactly with the Init it answers; a frame carries
\* an ephemeral of the host that sent it.
TypeOK ==
  /\ eng \in [Hosts -> Engines]
  /\ \A h \in Hosts :
       LET g == eng[h] IN
       /\ (g.pending # None) = (g.state = "Initiating")
       /\ (g.keys # None) = (g.state = "Established")
       /\ (g.bound_init # None) = (g.cached_resp # None)
  /\ made \in [Hosts -> Nat] /\ expired \subseteq Hosts
  /\ net \subseteq Frames /\ \A m \in net : m.eph[1] = m.from
  /\ installs \in Seq(Keys)

\* TunnelKeys starts its counters at zero and derives its sending key from
\* (shared secret, role): installing the same pair twice, on one host or on
\* two, would repeat nonces.  No retry, duplicate Init, renegotiation, stale
\* Resp or reset makes the engines do it.
SendKeysFresh ==
  \A i, j \in DOMAIN installs : installs[i] = installs[j] => i = j

\* The promise of the authenticated handshake: a host's keys were agreed with
\* the peer it expects, and an initiator holds only keys that peer installed
\* as the responder.  Whatever was replayed, misdelivered or retried, no host
\* is Established on keys its peer never had.
KeysAgree ==
  \A h \in Hosts : eng[h].state = "Established" =>
    LET k == eng[h].keys IN
    /\ \E own, other \in k.dh :
         k.dh = {own, other} /\ own[1] = h /\ other[1] = PeerAddr[h]
    /\ k.initiator => \E i \in DOMAIN installs :
                        installs[i] = [k EXCEPT !.initiator = FALSE]

=============================================================================
