------------------------------ MODULE TunReader ------------------------------
(***************************************************************************)
(* The TUN read thread, src/core/ipv8-tunnel/src/tun_worker.rs: a blocking     *)
(* read, the processor, the channel to the consumer, and the two ways to end   *)
(* it: closing the device, and TunWorker::shutdown, which only joins.          *)
(***************************************************************************)
EXTENDS Integers, Sequences, SequencesExt

CONSTANTS TunPackets, Processed,    \* Processed: packets the processor keeps
          MaxTunFeeds               \* bound

ASSUME TunAssumption == Processed \subseteq TunPackets /\ {"Transient", "Closed"} \cap TunPackets = {}

VARIABLES
  tunIn,       \* the device's queue: packets, "Transient" errors, "Closed"
  tunFed,      \* reads fed so far
  tunKept,     \* history: the packets fed that the processor keeps
  tunOut,      \* what went down the channel
  tunPc,       \* the thread: "check", "read", "gone"
  tunStop,     \* the stop flag
  tunOwner,    \* the owner: "running", "closing" (shutdown begun after close), "joined"
  tunRx        \* the consumer still holds the receiver

tunVars == <<tunIn, tunFed, tunKept, tunOut, tunPc, tunStop, tunOwner, tunRx>>

TunInit ==
  /\ tunIn = <<>> /\ tunFed = 0 /\ tunKept = <<>> /\ tunOut = <<>> /\ tunPc = "check"
  /\ tunStop = FALSE /\ tunOwner = "running" /\ tunRx = TRUE

Closed == "Closed" \in Range(tunIn)

(* MockTunHandle::feed_inbound, or the OS; a real device can also fail for a moment *)
FeedInbound(p) ==
  /\ ~Closed /\ tunOwner = "running" /\ tunFed < MaxTunFeeds
  /\ tunIn' = Append(tunIn, p) /\ tunFed' = tunFed + 1
  /\ tunKept' = IF p \in Processed THEN Append(tunKept, p) ELSE tunKept
  /\ UNCHANGED <<tunOut, tunPc, tunStop, tunOwner, tunRx>>

(* close: the sentinel that wakes the blocked read *)
CloseDevice ==
  /\ ~Closed /\ tunOwner = "running"
  /\ tunIn' = Append(tunIn, "Closed")
  /\ UNCHANGED <<tunFed, tunKept, tunOut, tunPc, tunStop, tunOwner, tunRx>>

(* Mutant of Shutdown: the device is left open. *)
ShutdownFirst ==
  /\ tunOwner = "running"
  /\ tunStop' = TRUE /\ tunOwner' = "closing"
  /\ UNCHANGED <<tunIn, tunFed, tunKept, tunOut, tunPc, tunRx>>

(* shutdown, in the order its contract asks for: the device is closed by then *)
Shutdown ==
  /\ tunOwner = "running" /\ (Closed \/ tunPc = "gone")
  /\ tunStop' = TRUE /\ tunOwner' = "closing"
  /\ UNCHANGED <<tunIn, tunFed, tunKept, tunOut, tunPc, tunRx>>

JoinReader ==
  /\ tunOwner = "closing" /\ tunPc = "gone" /\ tunOwner' = "joined"
  /\ UNCHANGED <<tunIn, tunFed, tunKept, tunOut, tunPc, tunStop, tunRx>>

DropReceiver == tunRx /\ tunRx' = FALSE /\ UNCHANGED <<tunIn, tunFed, tunKept, tunOut, tunPc, tunStop, tunOwner>>

CheckStop ==
  /\ tunPc = "check" /\ tunPc' = IF tunStop THEN "gone" ELSE "read"
  /\ UNCHANGED <<tunIn, tunFed, tunKept, tunOut, tunStop, tunOwner, tunRx>>

(* Mutant of ReadBlocking: any error ends the thread. *)
ReadBlockingFragile ==
  LET x == Head(tunIn)
  IN /\ tunPc = "read" /\ tunIn # <<>>
     /\ tunIn' = IF x = "Closed" THEN tunIn ELSE Tail(tunIn)
     /\ tunPc' = IF x \notin TunPackets \/ (x \in Processed /\ ~tunRx) THEN "gone" ELSE "check"
     /\ tunOut' = IF x \in Processed /\ tunRx THEN Append(tunOut, x) ELSE tunOut
     /\ UNCHANGED <<tunFed, tunKept, tunStop, tunOwner, tunRx>>

(* read_blocking and what the loop does with its answer *)
ReadBlocking ==
  LET x == Head(tunIn)
  IN /\ tunPc = "read" /\ tunIn # <<>>
     /\ tunIn' = IF x = "Closed" THEN tunIn ELSE Tail(tunIn)
     /\ tunPc' = IF x = "Closed" \/ (x \in Processed /\ ~tunRx) THEN "gone" ELSE "check"
     /\ tunOut' = IF x \in Processed /\ tunRx THEN Append(tunOut, x) ELSE tunOut
     /\ UNCHANGED <<tunFed, tunKept, tunStop, tunOwner, tunRx>>

TunNext == (\E p \in TunPackets \cup {"Transient"} : FeedInbound(p)) \/ CloseDevice \/ Shutdown \/ JoinReader
           \/ DropReceiver \/ CheckStop \/ ReadBlocking

(* The thread runs whenever it is not blocked *)
TunFairness == WF_tunVars(CheckStop) /\ WF_tunVars(ReadBlocking) /\ WF_tunVars(JoinReader)
TunSpec == TunInit /\ [][TunNext]_tunVars /\ TunFairness

-----------------------------------------------------------------------------
TunTypeOK == tunPc \in {"check", "read", "gone"} /\ (tunOwner = "joined" => tunPc = "gone")

(* The consumer sees the packets the processor keeps, in order and none twice,    *)
(* and a reader that stopped because the device closed has passed on all of them. *)
ReadInOrder ==
  /\ IsPrefix(tunOut, tunKept)
  /\ (tunPc = "gone" /\ tunRx /\ ~tunStop) => tunOut = tunKept

(* "正确顺序：ctl.close() → worker.shutdown()": in that order shutdown always returns; *)
(* a transient read error does not end or hang the thread.                        *)
ShutdownReturns == tunOwner = "closing" ~> tunOwner = "joined"
=============================================================================
