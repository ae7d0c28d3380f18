------------------------------- MODULE MCLive -------------------------------
(***************************************************************************)
(* The components with liveness properties, each on its own small          *)
(* instance.  They do not interact: a behaviour runs one of them, chosen   *)
(* at the start, while the others stay in their initial states, so the     *)
(* state space is the sum of theirs and every property is checked of the   *)
(* component it is about.                                                  *)
(***************************************************************************)
EXTENDS Fallback, AltPath, Chord, FlowShards, TunReader, Firewall, Rio, WsRelay, TLC

VARIABLE active   \* the component that runs

-----------------------------------------------------------------------------
(* Constants that a cfg cannot write. *)

Answer(main, alts, capable) ==
  [tunnel_entry |-> main, alt_entries |-> alts, ipv8_capable |-> capable,
   last_good |-> NoEntry]

\* a main entry with two backups, a sole entry, and a peer without IPv8+
SomeAnswers ==
  {Answer("m", <<"x", "y">>, TRUE), Answer("m", <<>>, TRUE),
   Answer("m", <<"x">>, FALSE)}

\* one address whose region falls between the last node and the first
OneRegion == [p |-> 7]

\* two flows on two shards
TwoFlows == [x |-> 1, y |-> 2]

\* a packet the shard opens, one of an epoch it must derive, and a stray Resp
SomeFrames ==
  {[type |-> "Data", epoch |-> 3, outcome |-> "delivered"],
   [type |-> "Data", epoch |-> 2, outcome |-> "wait"],
   [type |-> "Resp", epoch |-> 0, outcome |-> "none"]}

OneRule ==
  {[proto |-> "any", lo |-> 80, hi |-> 80, anySource |-> TRUE, target |-> "peer", tport |-> 0]}

-----------------------------------------------------------------------------
LiveInit ==
  /\ active \in {"fallback", "altpath", "chord", "flows", "tun", "firewall", "rio", "relay"}
  /\ Init /\ AltInit /\ ChordInit /\ FsInit /\ TunInit /\ FwInit /\ RioInit /\ WsInit
  /\ active # "rio" => plane.mode = "Off"   \* one initial state for an idle component

LiveNext ==
  \/ /\ active = "fallback" /\ Next
     /\ UNCHANGED <<active, altVars, chordVars, fsVars, tunVars, fwVars, rioVars, wsVars>>
  \/ /\ active = "altpath" /\ AltNext
     /\ UNCHANGED <<active, vars, chordVars, fsVars, tunVars, fwVars, rioVars, wsVars>>
  \/ /\ active = "chord" /\ ChordNext
     /\ UNCHANGED <<active, vars, altVars, fsVars, tunVars, fwVars, rioVars, wsVars>>
  \/ /\ active = "flows" /\ FsNext
     /\ UNCHANGED <<active, vars, altVars, chordVars, tunVars, fwVars, rioVars, wsVars>>
  \/ /\ active = "tun" /\ TunNext
     /\ UNCHANGED <<active, vars, altVars, chordVars, fsVars, fwVars, rioVars, wsVars>>
  \/ /\ active = "firewall" /\ FwNext
     /\ UNCHANGED <<active, vars, altVars, chordVars, fsVars, tunVars, rioVars, wsVars>>
  \/ /\ active = "rio" /\ RioNext
     /\ UNCHANGED <<active, vars, altVars, chordVars, fsVars, tunVars, fwVars, wsVars>>
  \/ /\ active = "relay" /\ WsNext
     /\ UNCHANGED <<active, vars, altVars, chordVars, fsVars, tunVars, fwVars, rioVars>>

liveVars == <<active, vars, altVars, chordVars, fsVars, tunVars, fwVars, rioVars, wsVars>>

(* The fairness of each component's own specification, while it runs. *)
LiveFairness ==
  /\ WF_vars(active = "fallback" /\ AskPath) /\ WF_vars(active = "fallback" /\ Tick)
  /\ WF_altVars(active = "altpath" /\ Round(TRUE))
  /\ \A n \in ChordNodes : WF_chordVars(active = "chord" /\ Stabilize(n))
  /\ WF_fsVars(active = "flows" /\ Stop) /\ WF_fsVars(active = "flows" /\ Join)
  /\ \A k \in Workers : WF_fsVars(active = "flows" /\ WorkerStep(k))
  /\ WF_tunVars(active = "tun" /\ CheckStop) /\ WF_tunVars(active = "tun" /\ ReadBlocking)
  /\ WF_tunVars(active = "tun" /\ JoinReader)
  /\ WF_fwVars(active = "firewall" /\ Watch)
  /\ WF_rioVars(active = "rio" /\ LoopStep) /\ WF_rioVars(active = "rio" /\ SendDone)
  /\ \A c \in Callers : WF_rioVars(active = "rio" /\ CallerStep(c))
  /\ \A s \in Sessions :
       /\ WF_wsVars(active = "relay" /\ SessionStep(s))
       /\ WF_wsVars(active = "relay" /\ WriterStep(s))

LiveSpec == LiveInit /\ [][LiveNext]_liveVars /\ LiveFairness

\* The state of every component keeps its shape.
LiveTypesOK ==
  /\ TypeOK /\ AltTypeOK /\ ChordTypeOK /\ FsTypeOK
  /\ TunTypeOK /\ FwTypeOK /\ RioTypeOK /\ WsTypeOK
=============================================================================
