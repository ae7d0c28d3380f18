-------------------------- MODULE HandshakeProofs ---------------------------
(***************************************************************************)
(* Proofs about Handshake for every set of hosts, every configuration of   *)
(* peer addresses and any number of ephemerals.                            *)
(***************************************************************************)
EXTENDS Handshake, TLAPS

-----------------------------------------------------------------------------
(* The inductive invariant. *)

Inits == {m \in net : m.type = "init"}
Resps == {m \in net : m.type = "resp"}

(* No ephemeral in use is one NextEph has still to make. *)
EphMade ==
  /\ \A m \in net : m.eph[2] \in 1 .. made[m.from]
  /\ \A i \in DOMAIN installs : \A e \in installs[i].dh : e[2] \in 1 .. made[e[1]]

(* An ephemeral is made for an Init or for a Resp, never for both. *)
RolesApart == \A m \in Inits, n \in Resps : m.eph # n.eph

(* A pending ephemeral is its host's own, and that host has sent the Init. *)
PendingSent ==
  \A h \in Hosts : eng[h].state = "Initiating" => InitFrame(h, eng[h].pending) \in net

(* take(): the ephemeral an initiator's keys were made from is spent. *)
InitiatorSpent ==
  \A i \in DOMAIN installs : installs[i].initiator =>
    \E m \in Inits, n \in Resps :
      /\ installs[i].dh = {m.eph, n.eph}
      /\ \A h \in Hosts : eng[h].pending # m.eph

(* What a host is Established on was installed. *)
KeysInstalled ==
  \A h \in Hosts : eng[h].state = "Established" =>
    \E i \in DOMAIN installs : installs[i] = eng[h].keys

(* The Resp to a host's current Init went out when that Init was accepted. *)
RespSent == \A h \in Hosts : eng[h].cached_resp # None => eng[h].cached_resp \in net

(* What an authenticated handshake adds: a Resp proves its keys installed,  *)
(* and a host's keys were agreed with the peer it is configured with.       *)
RespProves ==
  \A m \in Resps : /\ m.bound \in Eph
                   /\ \E i \in DOMAIN installs : installs[i] = NewKeys(m.eph, m.bound, FALSE)

AgreedWithPeer(h, k, log) ==
  \E own, other \in k.dh :
    /\ k.dh = {own, other} /\ own[1] = h /\ other[1] = PeerAddr[h]
    /\ k.initiator => \E i \in DOMAIN log : log[i] = NewKeys(other, own, FALSE)

KeysWithPeer ==
  \A h \in Hosts :
    eng[h].state = "Established" => AgreedWithPeer(h, eng[h].keys, installs)

Inv ==
  /\ TypeOK /\ EphMade /\ RolesApart /\ PendingSent /\ InitiatorSpent
  /\ KeysInstalled /\ RespSent /\ SendKeysFresh
  /\ Auth => RespProves /\ KeysWithPeer

-----------------------------------------------------------------------------
(* Lemmas. *)

\* Option::None is no ephemeral, no keys and no frame.
LEMMA NoneApart ==
  /\ \A e \in Eph : e # None
  /\ \A k \in Keys : k # None
  /\ \A m \in Frames : m # None
BY NoneAssumption

\* What generate makes is an ephemeral of its host, and none that is in use.
LEMMA NextEphFresh ==
  ASSUME Inv, NEW h \in Hosts
  PROVE  /\ NextEph(h) \in Eph /\ NextEph(h) # None /\ NextEph(h)[1] = h
         /\ NextEph(h)[2] = made[h] + 1
         /\ \A m \in net : m.eph # NextEph(h)
         /\ \A i \in DOMAIN installs : NextEph(h) \notin installs[i].dh
<1>1. made[h] \in Nat
  BY DEF Inv, TypeOK
<1>2. NextEph(h) = <<h, made[h] + 1>> /\ NextEph(h) \in Eph
  BY <1>1 DEF NextEph, Eph
<1>3. \A m \in net : m.eph # NextEph(h)
  BY <1>1, <1>2 DEF Inv, TypeOK, EphMade
<1>4. \A i \in DOMAIN installs : NextEph(h) \notin installs[i].dh
  BY <1>1, <1>2 DEF Inv, EphMade
<1>. QED BY <1>1, <1>2, <1>3, <1>4, NoneApart

\* Installing a key appends it to what was installed.
LEMMA InstallProperties ==
  ASSUME NEW s \in Seq(Keys), NEW k \in Keys
  PROVE  /\ Append(s, k) \in Seq(Keys)
         /\ DOMAIN Append(s, k) = DOMAIN s \cup {Len(s) + 1}
         /\ Len(s) + 1 \notin DOMAIN s
         /\ \A i \in DOMAIN s : Append(s, k)[i] = s[i]
         /\ Append(s, k)[Len(s) + 1] = k
  OBVIOUS

\* The engine an action leaves at its host is an engine, and the others stay.
LEMMA EngineStep ==
  ASSUME TypeOK, NEW h \in Hosts, NEW g \in Engines, eng' = [eng EXCEPT ![h] = g]
  PROVE  /\ eng' \in [Hosts -> Engines]
         /\ eng'[h] = g
         /\ \A o \in Hosts : o # h => eng'[o] = eng[o]
  BY DEF TypeOK

\* The actions that make, send and install nothing.
Quiet(h) ==
  \/ Abandon(h) \/ ResetEngine(h) \/ GarbledResp(h) \/ Expire(h)
  \/ \E m \in net : RejectInit(h, m) \/ RejectResp(h, m)

(* A step of h that leaves its engine as it was, or clears parts of it. *)
Clears(h) ==
  /\ UNCHANGED <<made, net, installs>> /\ expired' \subseteq Hosts
  /\ eng' \in [Hosts -> Engines]
  /\ \A o \in Hosts : o # h => eng'[o] = eng[o]
  /\ \/ /\ eng'[h].state = eng[h].state /\ eng'[h].pending = eng[h].pending
        /\ eng'[h].keys = eng[h].keys
        /\ eng'[h].bound_init = eng[h].bound_init
        /\ eng'[h].cached_resp = eng[h].cached_resp
     \/ /\ eng'[h].state = "Idle" /\ eng'[h].pending = None /\ eng'[h].keys = None
        /\ \/ eng'[h].bound_init = None /\ eng'[h].cached_resp = None
           \/ /\ eng'[h].bound_init = eng[h].bound_init
              /\ eng'[h].cached_resp = eng[h].cached_resp

\* Abandoning, resetting, refusing and expiring only clear an engine.
LEMMA QuietClears ==
  ASSUME Inv, NEW h \in Hosts, Quiet(h)
  PROVE  Clears(h)
<1>. TypeOK /\ eng[h] \in Engines /\ expired \subseteq Hosts
  BY DEF Inv, TypeOK
<1>0. (eng[h].keys # None) = (eng[h].state = "Established")
  BY DEF TypeOK
<1>1. CASE Abandon(h)
  <2>1. eng[h].keys = None
    BY <1>0, <1>1 DEF Abandon
  <2>2. AbandonHandshake(eng[h]) \in Engines
    BY DEF AbandonHandshake, Engines
  <2>3. eng' = [eng EXCEPT ![h] = AbandonHandshake(eng[h])]
    BY <1>1 DEF Abandon
  <2>4. /\ eng' \in [Hosts -> Engines] /\ eng'[h] = AbandonHandshake(eng[h])
        /\ \A o \in Hosts : o # h => eng'[o] = eng[o]
    BY <2>2, <2>3, EngineStep
  <2>. QED BY <1>1, <2>1, <2>4 DEF Clears, Abandon, AbandonHandshake, Engines
<1>2. CASE ResetEngine(h)
  <2>1. Reset(eng[h]) \in Engines
    BY DEF Reset, Engines
  <2>. QED BY <1>2, <2>1, EngineStep DEF Clears, ResetEngine, Reset, Engines
<1>3. ASSUME eng' = [eng EXCEPT ![h] = RefuseResp(@)], AwaitsResp(eng[h]),
             UNCHANGED <<made, net, expired, installs>>
      PROVE  Clears(h)
  <2>1. eng[h].keys = None
    BY <1>0, <1>3 DEF AwaitsResp
  <2>2. RefuseResp(eng[h]) \in Engines
    BY ModeAssumption DEF RefuseResp, Engines
  <2>3. /\ eng' \in [Hosts -> Engines] /\ eng'[h] = RefuseResp(eng[h])
        /\ \A o \in Hosts : o # h => eng'[o] = eng[o]
    BY <1>3, <2>2, EngineStep
  <2>. QED BY <1>3, <2>1, <2>3 DEF Clears, RefuseResp, Engines
<1>4. CASE GarbledResp(h)
  BY <1>3, <1>4 DEF GarbledResp
<1>5. CASE Expire(h)
  BY <1>5 DEF Clears, Expire, TypeOK
<1>6. ASSUME NEW m \in net, RejectInit(h, m) PROVE Clears(h)
  <2>1. RefuseInit(eng[h]) \in Engines
    BY DEF RefuseInit, Engines
  <2>. QED BY <1>6, <2>1, EngineStep DEF Clears, RejectInit, RefuseInit, Engines
<1>7. ASSUME NEW m \in net, RejectResp(h, m) PROVE Clears(h)
  BY <1>3, <1>7 DEF RejectResp
<1>. QED BY <1>1, <1>2, <1>4, <1>5, <1>6, <1>7 DEF Quiet

\* A step after which every Established engine was Established on the same keys
\* keeps the keys agreed with the configured peer.
LEMMA PeersKept ==
  ASSUME KeysWithPeer, installs' = installs,
         \A o \in Hosts : eng'[o].state = "Established" =>
            eng[o].state = "Established" /\ eng'[o].keys = eng[o].keys
  PROVE  KeysWithPeer'
  BY DEF KeysWithPeer

\* Installing one key more takes none of them away.
LEMMA AgreedGrows ==
  ASSUME NEW log \in Seq(Keys), NEW k \in Keys, NEW h, NEW l, AgreedWithPeer(h, l, log)
  PROVE  AgreedWithPeer(h, l, Append(log, k))
<1>1. \A i \in DOMAIN log : i \in DOMAIN Append(log, k) /\ Append(log, k)[i] = log[i]
  BY InstallProperties
<1>2. PICK own, other \in l.dh :
        /\ l.dh = {own, other} /\ own[1] = h /\ other[1] = PeerAddr[h]
        /\ l.initiator => \E i \in DOMAIN log : log[i] = NewKeys(other, own, FALSE)
  BY DEF AgreedWithPeer
<1>3. l.initiator =>
        \E i \in DOMAIN Append(log, k) : Append(log, k)[i] = NewKeys(other, own, FALSE)
  BY <1>1, <1>2
<1>. QED BY <1>2, <1>3 DEF AgreedWithPeer

-----------------------------------------------------------------------------
(* The invariant is inductive: one lemma per kind of action. *)

\* Clearing an engine preserves the invariant.
LEMMA QuietInv ==
  ASSUME Inv, NEW h \in Hosts, Quiet(h)
  PROVE  Inv'
<1>. Clears(h) /\ TypeOK
  BY QuietClears DEF Inv
<1>1. TypeOK'
  BY DEF Clears, TypeOK
<1>2. EphMade' /\ RolesApart' /\ SendKeysFresh'
  BY DEF Clears, Inv, EphMade, RolesApart, SendKeysFresh, Inits, Resps
<1>3. PendingSent' /\ KeysInstalled' /\ RespSent'
  BY DEF Clears, Inv, PendingSent, KeysInstalled, RespSent
<1>4. InitiatorSpent'
  <2>1. \A m \in Inits : (\A o \in Hosts : eng[o].pending # m.eph)
                           => \A o \in Hosts : eng'[o].pending # m.eph
    BY NoneApart DEF Clears, TypeOK, Inits, Frames
  <2>2. Inits' = Inits /\ Resps' = Resps /\ installs' = installs
    BY DEF Clears, Inits, Resps
  <2>. QED BY <2>1, <2>2 DEF Inv, InitiatorSpent
<1>5. ASSUME Auth PROVE RespProves' /\ KeysWithPeer'
  <2>1. RespProves /\ KeysWithPeer
    BY <1>5 DEF Inv
  <2>2. Resps' = Resps /\ installs' = installs
    BY DEF Clears, Resps
  <2>3. \A o \in Hosts : eng'[o].state = "Established" =>
          eng[o].state = "Established" /\ eng'[o].keys = eng[o].keys
    BY DEF Clears
  <2>4. RespProves'
    BY <2>1, <2>2 DEF RespProves, NewKeys
  <2>5. KeysWithPeer'
    BY <2>1, <2>2, <2>3, PeersKept
  <2>. QED BY <2>4, <2>5
<1>. QED BY <1>1, <1>2, <1>3, <1>4, <1>5 DEF Inv

\* start_handshake preserves the invariant.
LEMMA StartInv ==
  ASSUME Inv, NEW h \in Hosts, Start(h)
  PROVE  Inv'
<1>. DEFINE e == NextEph(h)
            g == StartHandshake(eng[h], e)
            f == InitFrame(h, e)
<1>. TypeOK /\ eng[h] \in Engines
  BY DEF Inv, TypeOK
<1>0. /\ e \in Eph /\ e # None /\ e[1] = h /\ e[2] = made[h] + 1 /\ made[h] \in Nat
      /\ \A m \in net : m.eph # e
      /\ \A i \in DOMAIN installs : e \notin installs[i].dh
  BY NextEphFresh DEF TypeOK
<1>. HIDE DEF e
<1>1. /\ g \in Engines /\ g.state = "Initiating" /\ g.pending = e
      /\ g.keys = eng[h].keys /\ g.bound_init = eng[h].bound_init
      /\ g.cached_resp = eng[h].cached_resp
  BY <1>0 DEF StartHandshake, Engines
<1>2. f \in Frames /\ f.type = "init" /\ f.eph = e /\ f.from = h
  BY <1>0 DEF InitFrame, Frames
<1>3. /\ eng[h].state = "Idle"
      /\ eng' = [eng EXCEPT ![h] = g]
      /\ made' = [made EXCEPT ![h] = @ + 1]
      /\ net' = net \cup {f}
      /\ expired' = expired /\ installs' = installs
  BY DEF Start, e
<1>. HIDE DEF g, f
<1>4. /\ eng' \in [Hosts -> Engines] /\ eng'[h] = g
      /\ \A o \in Hosts : o # h => eng'[o] = eng[o]
  BY <1>1, <1>3, EngineStep
<1>5. /\ made' \in [Hosts -> Nat] /\ made'[h] = made[h] + 1
      /\ \A o \in Hosts : made[o] <= made'[o]
  BY <1>3 DEF TypeOK
<1>6. TypeOK'
  BY <1>0, <1>1, <1>2, <1>3, <1>4, <1>5 DEF TypeOK
<1>7. Inits' = Inits \cup {f} /\ Resps' = Resps
  BY <1>2, <1>3 DEF Inits, Resps
<1>8. EphMade'
  <2>1. \A m \in net : m.from \in Hosts
    BY DEF TypeOK, Frames
  <2>2. \A i \in DOMAIN installs : \A x \in installs[i].dh : x[1] \in Hosts /\ x[2] \in Nat
    <3>1. \A i \in DOMAIN installs : installs[i] \in Keys
      BY DEF TypeOK
    <3>. QED BY <3>1 DEF Keys, Eph
  <2>. QED BY <1>0, <1>2, <1>3, <1>5, <2>1, <2>2 DEF Inv, EphMade, TypeOK
<1>9. RolesApart'
  BY <1>0, <1>2, <1>7 DEF Inv, RolesApart, Resps
<1>10. PendingSent'
  BY <1>1, <1>3, <1>4 DEF Inv, PendingSent, f
<1>11. InitiatorSpent'
  BY <1>0, <1>1, <1>3, <1>4, <1>7 DEF Inv, InitiatorSpent, Inits
<1>12. KeysInstalled' /\ RespSent' /\ SendKeysFresh'
  BY <1>1, <1>3, <1>4 DEF Inv, KeysInstalled, RespSent, SendKeysFresh
<1>13. ASSUME Auth PROVE RespProves' /\ KeysWithPeer'
  <2>1. RespProves /\ KeysWithPeer
    BY <1>13 DEF Inv
  <2>2. \A o \in Hosts : eng'[o].state = "Established" =>
          eng[o].state = "Established" /\ eng'[o].keys = eng[o].keys
    BY <1>1, <1>4
  <2>3. RespProves'
    BY <2>1, <1>3, <1>7 DEF RespProves, NewKeys
  <2>4. KeysWithPeer'
    BY <2>1, <2>2, <1>3, PeersKept
  <2>. QED BY <2>3, <2>4
<1>. QED BY <1>6, <1>8, <1>9, <1>10, <1>11, <1>12, <1>13 DEF Inv

\* A step that changes nothing.
LEMMA StutterInv ==
  ASSUME Inv, UNCHANGED vars
  PROVE  Inv'
<1>1. /\ eng' = eng /\ made' = made /\ net' = net /\ expired' = expired
      /\ installs' = installs /\ Inits' = Inits /\ Resps' = Resps
  BY DEF vars, Inits, Resps
<1>2. TypeOK' /\ EphMade' /\ RolesApart' /\ PendingSent'
  BY <1>1 DEF Inv, TypeOK, EphMade, RolesApart, PendingSent
<1>3. InitiatorSpent' /\ KeysInstalled' /\ RespSent' /\ SendKeysFresh'
  BY <1>1 DEF Inv, InitiatorSpent, KeysInstalled, RespSent, SendKeysFresh
<1>4. Auth => RespProves' /\ KeysWithPeer'
  BY <1>1, PeersKept DEF Inv, RespProves
<1>. QED BY <1>2, <1>3, <1>4 DEF Inv

\* Sending the cached Resp again sends nothing new.
LEMMA ReplayInv ==
  ASSUME Inv, NEW h \in Hosts, NEW m \in net, ReplayResp(h, m)
  PROVE  Inv'
<1>1. m.eph # None
  BY NoneApart DEF Inv, TypeOK, Frames
<1>2. eng[h].cached_resp # None
  BY <1>1 DEF ReplayResp, IsBoundInit, Inv, TypeOK
<1>3. UNCHANGED vars
  BY <1>2 DEF ReplayResp, Inv, RespSent, vars
<1>. QED BY <1>3, StutterInv

\* auth_accept preserves the invariant: the responder's fresh ephemeral makes
\* its keys new, and the Resp that goes out proves them.
LEMMA TakeInitInv ==
  ASSUME Inv, NEW h \in Hosts, NEW m \in net, TakeInit(h, m)
  PROVE  Inv'
<1>. DEFINE e == NextEph(h)
            g == AcceptInit(eng[h], h, m, e)
            k == NewKeys(e, m.eph, FALSE)
            r == RespFrame(h, e, m.eph)
            n == Len(installs) + 1
<1>. TypeOK /\ eng[h] \in Engines /\ m \in Frames /\ installs \in Seq(Keys)
  BY DEF Inv, TypeOK
<1>0. /\ e \in Eph /\ e # None /\ e[1] = h /\ e[2] = made[h] + 1 /\ made[h] \in Nat
      /\ \A f \in net : f.eph # e
      /\ \A i \in DOMAIN installs : e \notin installs[i].dh
  BY NextEphFresh DEF TypeOK
<1>. HIDE DEF e
<1>1. m.eph \in Eph /\ m.eph # None /\ m.type = "init" /\ m.eph[1] = m.from
  BY NoneApart DEF TakeInit, TypeOK, Frames
<1>2. k \in Keys /\ k # None /\ k.initiator = FALSE /\ k.dh = {e, m.eph}
  BY <1>0, <1>1, NoneApart DEF NewKeys, Keys
<1>3. /\ r \in Frames /\ r # None /\ r.type = "resp" /\ r.eph = e /\ r.from = h
      /\ Auth => r.bound = m.eph
  BY <1>0, <1>1, NoneApart DEF RespFrame, Frames
<1>4. /\ g \in Engines /\ g.state = "Established" /\ g.pending = eng[h].pending
      /\ g.keys = k /\ g.bound_init = m.eph /\ g.cached_resp = r
  BY <1>1, <1>2, <1>3, ModeAssumption DEF AcceptInit, Engines
<1>5. /\ eng[h].pending = None
      /\ Auth => m.from = PeerAddr[h]
      /\ eng' = [eng EXCEPT ![h] = g]
      /\ made' = [made EXCEPT ![h] = @ + 1]
      /\ expired' = expired
  BY DEF TakeInit, ConsidersInit, Trusts, TypeOK, e
<1>6. /\ eng' \in [Hosts -> Engines] /\ eng'[h] = g
      /\ \A o \in Hosts : o # h => eng'[o] = eng[o]
  BY <1>4, <1>5, EngineStep
<1>7. net' = net \cup {r} /\ installs' = Append(installs, k)
  BY <1>4, <1>6 DEF TakeInit
<1>. HIDE DEF g, k, r
<1>8. /\ installs' \in Seq(Keys) /\ DOMAIN installs' = DOMAIN installs \cup {n}
      /\ n \notin DOMAIN installs /\ installs'[n] = k
      /\ \A i \in DOMAIN installs : installs'[i] = installs[i]
  BY <1>2, <1>7, InstallProperties
<1>. HIDE DEF n
<1>9. /\ made' \in [Hosts -> Nat] /\ made'[h] = made[h] + 1
      /\ \A o \in Hosts : made[o] <= made'[o]
  BY <1>0, <1>5 DEF TypeOK
<1>10. Inits' = Inits /\ Resps' = Resps \cup {r}
  BY <1>3, <1>7 DEF Inits, Resps
<1>11. TypeOK'
  BY <1>0, <1>1, <1>2, <1>3, <1>4, <1>5, <1>6, <1>7, <1>8, <1>9 DEF TypeOK
<1>12. EphMade'
  <2>1. \A f \in net : f.from \in Hosts
    BY DEF TypeOK, Frames
  <2>2. \A i \in DOMAIN installs : \A x \in installs[i].dh : x[1] \in Hosts /\ x[2] \in Nat
    <3>1. \A i \in DOMAIN installs : installs[i] \in Keys
      OBVIOUS
    <3>. QED BY <3>1 DEF Keys, Eph
  <2>3. \A f \in net' : f.eph[2] \in 1 .. made'[f.from]
    BY <1>0, <1>3, <1>7, <1>9, <2>1 DEF Inv, EphMade, TypeOK
  <2>4. \A x \in k.dh : x[2] \in 1 .. made'[x[1]]
    BY <1>0, <1>1, <1>2, <1>9, <2>1 DEF Inv, EphMade, TypeOK
  <2>5. \A i \in DOMAIN installs : \A x \in installs[i].dh : x[2] \in 1 .. made'[x[1]]
    BY <1>9, <2>2 DEF Inv, EphMade, TypeOK
  <2>. QED BY <1>8, <2>3, <2>4, <2>5 DEF EphMade
<1>13. RolesApart'
  BY <1>0, <1>3, <1>10 DEF Inv, RolesApart, Inits
<1>14. PendingSent' /\ RespSent'
  BY <1>4, <1>6, <1>7 DEF Inv, PendingSent, RespSent
<1>15. InitiatorSpent'
  BY <1>2, <1>4, <1>6, <1>8, <1>10 DEF Inv, InitiatorSpent
<1>16. KeysInstalled'
  BY <1>4, <1>6, <1>8 DEF Inv, KeysInstalled
<1>17. SendKeysFresh'
  BY <1>0, <1>2, <1>8 DEF Inv, SendKeysFresh
<1>18. ASSUME Auth PROVE RespProves' /\ KeysWithPeer'
  <2>1. RespProves /\ KeysWithPeer
    BY <1>18 DEF Inv
  <2>2. RespProves'
    <3>1. r.bound = m.eph /\ r.eph = e /\ installs'[n] = NewKeys(e, m.eph, FALSE)
      BY <1>3, <1>8, <1>18 DEF k
    <3>2. \A b \in Resps : /\ b.bound \in Eph
                            /\ \E i \in DOMAIN installs' :
                                 installs'[i] = NewKeys(b.eph, b.bound, FALSE)
      BY <2>1, <1>8 DEF RespProves
    <3>3. /\ r.bound \in Eph
          /\ \E i \in DOMAIN installs' : installs'[i] = NewKeys(r.eph, r.bound, FALSE)
      BY <3>1, <1>1, <1>8
    <3>. QED BY <3>2, <3>3, <1>10 DEF RespProves
  <2>3. AgreedWithPeer(h, k, installs')
    BY <1>0, <1>1, <1>2, <1>5, <1>18 DEF AgreedWithPeer
  <2>4. \A o \in Hosts : o # h /\ eng'[o].state = "Established" =>
          AgreedWithPeer(o, eng'[o].keys, installs')
    BY <2>1, <1>2, <1>6, <1>7, AgreedGrows DEF KeysWithPeer
  <2>. QED BY <2>2, <2>3, <2>4, <1>4, <1>6 DEF KeysWithPeer
<1>. QED BY <1>11, <1>12, <1>13, <1>14, <1>15, <1>16, <1>17, <1>18 DEF Inv

\* auth_finish_init preserves the invariant: take() spends the pending
\* ephemeral, and the Resp is bound to it.
LEMMA TakeRespInv ==
  ASSUME Inv, NEW h \in Hosts, NEW m \in net, TakeResp(h, m)
  PROVE  Inv'
<1>. DEFINE p == eng[h].pending
            f == InitFrame(h, p)
            g == FinishInit(eng[h], m)
            k == NewKeys(p, m.eph, TRUE)
            n == Len(installs) + 1
<1>. TypeOK /\ eng[h] \in Engines /\ m \in Frames /\ installs \in Seq(Keys)
  BY DEF Inv, TypeOK
<1>0. /\ eng[h].state = "Initiating" /\ p \in Eph /\ m \in Resps
      /\ f \in Inits /\ f.eph = p /\ p[1] = h
  <2>1. eng[h].state = "Initiating" /\ p \in Eph /\ m.type = "resp"
    BY DEF TakeResp, AwaitsResp, Engines
  <2>2. f \in net /\ f.type = "init" /\ f.eph = p /\ f.from = h
    BY <2>1 DEF Inv, PendingSent, InitFrame
  <2>. QED BY <2>1, <2>2 DEF TypeOK, Inits, Resps
<1>1. m.eph \in Eph /\ m.eph[1] = m.from
  BY DEF TypeOK, Frames
<1>2. k \in Keys /\ k # None /\ k.initiator = TRUE /\ k.dh = {p, m.eph}
  BY <1>0, <1>1, NoneApart DEF NewKeys, Keys
<1>3. /\ g \in Engines /\ g.state = "Established" /\ g.pending = None /\ g.keys = k
      /\ g.bound_init = eng[h].bound_init /\ g.cached_resp = eng[h].cached_resp
  BY <1>0, <1>2, ModeAssumption DEF FinishInit, Engines
<1>4. /\ Auth => m.from = PeerAddr[h] /\ m.bound = p
      /\ eng' = [eng EXCEPT ![h] = g]
      /\ made' = made /\ net' = net /\ expired' = expired
  BY DEF TakeResp, Trusts, BindsOurInit
<1>5. /\ eng' \in [Hosts -> Engines] /\ eng'[h] = g
      /\ \A o \in Hosts : o # h => eng'[o] = eng[o]
  BY <1>3, <1>4, EngineStep
<1>6. installs' = Append(installs, k)
  BY <1>3, <1>5 DEF TakeResp
<1>. HIDE DEF f, g, k
<1>7. /\ installs' \in Seq(Keys) /\ DOMAIN installs' = DOMAIN installs \cup {n}
      /\ n \notin DOMAIN installs /\ installs'[n] = k
      /\ \A i \in DOMAIN installs : installs'[i] = installs[i]
  BY <1>2, <1>6, InstallProperties
<1>. HIDE DEF n
<1>8. Inits' = Inits /\ Resps' = Resps
  BY <1>4 DEF Inits, Resps
<1>9. \A o \in Hosts : eng'[o].pending # p
  <2>1. ASSUME NEW o \in Hosts, o # h, eng[o].pending = p PROVE FALSE
    <3>1. eng[o].state = "Initiating"
      BY <1>0, <2>1, NoneApart DEF TypeOK
    <3>2. InitFrame(o, p) \in net
      BY <3>1, <2>1 DEF Inv, PendingSent
    <3>3. p[1] = o
      BY <3>2 DEF TypeOK, InitFrame
    <3>. QED BY <3>3, <1>0, <2>1
  <2>2. eng'[h].pending # p
    BY <1>0, <1>3, <1>5, NoneApart
  <2>. QED BY <2>1, <2>2, <1>5
<1>. HIDE DEF p
<1>10. TypeOK'
  BY <1>0, <1>2, <1>3, <1>4, <1>5, <1>7 DEF TypeOK
<1>11. EphMade'
  <2>1. \A x \in k.dh : x[2] \in 1 .. made[x[1]]
    BY <1>0, <1>1, <1>2 DEF Inv, EphMade, TypeOK, Inits, Resps
  <2>. QED BY <2>1, <1>4, <1>7 DEF Inv, EphMade
<1>12. RolesApart'
  BY <1>8 DEF Inv, RolesApart
<1>13. PendingSent' /\ RespSent'
  BY <1>3, <1>4, <1>5 DEF Inv, PendingSent, RespSent
<1>14. InitiatorSpent'
  <2>1. ASSUME NEW i \in DOMAIN installs, installs[i].initiator
        PROVE  \E a \in Inits, b \in Resps :
                 installs[i].dh = {a.eph, b.eph} /\ \A o \in Hosts : eng'[o].pending # a.eph
    <3>1. PICK a \in Inits, b \in Resps :
            installs[i].dh = {a.eph, b.eph} /\ \A o \in Hosts : eng[o].pending # a.eph
      BY <2>1 DEF Inv, InitiatorSpent
    <3>2. a.eph # None
      BY NoneApart DEF TypeOK, Inits, Frames
    <3>. QED BY <3>1, <3>2, <1>3, <1>5
  <2>2. \E a \in Inits, b \in Resps :
          k.dh = {a.eph, b.eph} /\ \A o \in Hosts : eng'[o].pending # a.eph
    BY <1>0, <1>2, <1>9
  <2>. QED BY <2>1, <2>2, <1>7, <1>8 DEF InitiatorSpent
<1>15. KeysInstalled'
  BY <1>3, <1>5, <1>7 DEF Inv, KeysInstalled
<1>16. SendKeysFresh'
  <2>1. ASSUME NEW i \in DOMAIN installs, installs[i] = k PROVE FALSE
    <3>1. PICK a \in Inits, b \in Resps :
            installs[i].dh = {a.eph, b.eph} /\ \A o \in Hosts : eng[o].pending # a.eph
      BY <2>1, <1>2 DEF Inv, InitiatorSpent
    <3>2. a.eph # p
      BY <3>1 DEF p
    <3>3. a.eph = m.eph
      BY <3>1, <3>2, <2>1, <1>2
    <3>. QED BY <3>3, <1>0 DEF Inv, RolesApart
  <2>. QED BY <2>1, <1>7 DEF Inv, SendKeysFresh
<1>17. ASSUME Auth PROVE RespProves' /\ KeysWithPeer'
  <2>1. RespProves /\ KeysWithPeer
    BY <1>17 DEF Inv
  <2>2. RespProves'
    BY <2>1, <1>7, <1>8 DEF RespProves
  <2>3. \E i \in DOMAIN installs' : installs'[i] = NewKeys(m.eph, p, FALSE)
    BY <2>1, <1>0, <1>4, <1>7, <1>17 DEF RespProves, p
  <2>4. AgreedWithPeer(h, k, installs')
    <3>1. p \in k.dh /\ m.eph \in k.dh /\ k.dh = {p, m.eph}
      BY <1>2
    <3>2. p[1] = h /\ m.eph[1] = PeerAddr[h]
      BY <1>0, <1>1, <1>4, <1>17
    <3>. QED BY <3>1, <3>2, <2>3 DEF AgreedWithPeer
  <2>5. \A o \in Hosts : o # h /\ eng'[o].state = "Established" =>
          AgreedWithPeer(o, eng'[o].keys, installs')
    BY <2>1, <1>2, <1>5, <1>6, AgreedGrows DEF KeysWithPeer
  <2>. QED BY <2>2, <2>4, <2>5, <1>3, <1>5 DEF KeysWithPeer
<1>. QED BY <1>10, <1>11, <1>12, <1>13, <1>14, <1>15, <1>16, <1>17 DEF Inv

-----------------------------------------------------------------------------
(* The theorems. *)

\* The responder's keys differ from the initiator's in the role only.
LEMMA RoleOnly ==
  ASSUME NEW k \in Keys
  PROVE  [k EXCEPT !.initiator = FALSE] = [dh |-> k.dh, initiator |-> FALSE]
<1>. DEFINE l == [k EXCEPT !.initiator = FALSE]
            r == [dh |-> k.dh, initiator |-> FALSE]
<1>1. l \in Keys /\ r \in Keys
  BY DEF Keys
<1>2. l.dh = r.dh /\ l.initiator = r.initiator
  BY DEF Keys
<1>. HIDE DEF l, r
<1>3. l = r
  BY <1>1, <1>2 DEF Keys
<1>. QED BY <1>3 DEF l, r

\* The invariant holds of every behaviour.
LEMMA Inductive == Spec => []Inv
<1>1. Init => Inv
  <2>. SUFFICES ASSUME Init PROVE Inv
    OBVIOUS
  <2>1. EngineNew \in Engines
    BY DEF EngineNew, Engines
  <2>2. TypeOK
    BY <2>1 DEF Init, TypeOK, EngineNew
  <2>. QED BY <2>2 DEF Init, Inv, EphMade, RolesApart, PendingSent, InitiatorSpent, KeysInstalled,
                       RespSent, SendKeysFresh, RespProves, KeysWithPeer, Inits, Resps, EngineNew
<1>2. Inv /\ [Next]_vars => Inv'
  <2>. SUFFICES ASSUME Inv, [Next]_vars PROVE Inv'
    OBVIOUS
  <2>1. ASSUME NEW h \in Hosts, Start(h) PROVE Inv'
    BY <2>1, StartInv
  <2>2. ASSUME NEW h \in Hosts, Abandon(h) \/ ResetEngine(h) \/ GarbledResp(h) \/ Expire(h)
        PROVE  Inv'
    BY <2>2, QuietInv DEF Quiet
  <2>3. ASSUME NEW h \in Hosts, NEW m \in net, Receive(h, m) PROVE Inv'
    BY <2>3, QuietInv, ReplayInv, TakeInitInv, TakeRespInv DEF Receive, Quiet
  <2>4. CASE UNCHANGED vars
    BY <2>4, StutterInv
  <2>. QED BY <2>1, <2>2, <2>3, <2>4 DEF Next
<1>. QED BY <1>1, <1>2, PTL DEF Spec

\* The engines and the frames keep their shape in every mode (TypeOK).
THEOREM EnginesTyped == Spec => []TypeOK
BY Inductive, PTL DEF Inv

\* No sending key is ever installed twice, authenticated or not (SendKeysFresh):
\* the responder's half is fresh, the initiator's is spent when it is used.
THEOREM SendKeysAreFresh == Spec => []SendKeysFresh
BY Inductive, PTL DEF Inv

\* The authenticated handshake agrees keys with the configured peer only, and
\* an initiator holds none its peer did not install (KeysAgree).
THEOREM KeysAreAgreed == ASSUME Auth PROVE Spec => []KeysAgree
<1>1. Inv => KeysAgree
  <2>. SUFFICES ASSUME Inv, NEW h \in Hosts, eng[h].state = "Established"
                PROVE  LET k == eng[h].keys IN
                       /\ \E own, other \in k.dh :
                            k.dh = {own, other} /\ own[1] = h /\ other[1] = PeerAddr[h]
                       /\ k.initiator => \E i \in DOMAIN installs :
                                           installs[i] = [k EXCEPT !.initiator = FALSE]
    BY DEF KeysAgree
  <2>. DEFINE k == eng[h].keys
  <2>1. k \in Keys
    BY NoneApart DEF Inv, TypeOK, Engines
  <2>2. PICK own, other \in k.dh :
          /\ k.dh = {own, other} /\ own[1] = h /\ other[1] = PeerAddr[h]
          /\ k.initiator => \E i \in DOMAIN installs : installs[i] = NewKeys(other, own, FALSE)
    BY DEF Inv, KeysWithPeer, AgreedWithPeer
  <2>3. NewKeys(other, own, FALSE) = [k EXCEPT !.initiator = FALSE]
    <3>1. [k EXCEPT !.initiator = FALSE] = [dh |-> k.dh, initiator |-> FALSE]
      BY <2>1, RoleOnly
    <3>2. k.dh = {other, own}
      BY <2>2
    <3>. QED BY <3>1, <3>2 DEF NewKeys
  <2>. QED BY <2>2, <2>3
<1>. QED BY <1>1, Inductive, PTL
=============================================================================
