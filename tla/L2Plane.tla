------------------------------ MODULE L2Plane ------------------------------
(***************************************************************************)
(* The raw-frame data plane (--l2): rio.rs's L2Io over the ipv8proto.sys   *)
(* driver, UdpIo::send_to's use of it, and main.rs's receive thread.       *)
(* Every call is one overlapped request with an event; sends share one     *)
(* event and receives another.  The driver (a FIFO of frames, a FIFO of    *)
(* waiting receive requests, no timeout of its own) is external.           *)
(***************************************************************************)
EXTENDS Integers, Sequences

CONSTANTS L2Senders,    \* threads that call UdpIo::send_to
          Stations,     \* MAC addresses frames come from
          Broadcast,    \* ff:ff:ff:ff:ff:ff
          MaxL2In,      \* bound on frames from the wire
          MaxL2Sends,   \* bound on calls of send_to
          MaxLate       \* bound on waits that fail or cancels that land late

Rx == "rx"
L2Threads == L2Senders \cup {Rx}

\* "rx" and "free" name no sender.
ASSUME L2Assumption == L2Senders \cap {Rx, "free"} = {}

Kind(t) == IF t = Rx THEN "recv" ELSE "send"

VARIABLES l2pc,       \* where each thread is in its call
          irp,        \* the state of each thread's request
          ioEvent,    \* send_event and recv_event (auto-reset)
          orphans,    \* requests whose caller has returned, still in the driver
          peerLock,   \* who holds peer_mac's mutex: a thread, or "free"
          peerMac,    \* the station frames are sent to
          rxq,        \* frames the driver holds
          rxHand,     \* the frame the receive request completed with
          gotFrames,  \* frames the receive thread has been given
          l2Count     \* frames, sends and late waits so far

l2Vars == <<l2pc, irp, ioEvent, orphans, peerLock, peerMac, rxq, rxHand,
            gotFrames, l2Count>>

NoRx == [n |-> 0, mac |-> Broadcast, good |-> FALSE]
L2Counted(what) == l2Count' = [l2Count EXCEPT ![what] = @ + 1]
Late == l2Count.late < MaxLate /\ L2Counted("late")

(***************************************************************************)
(* Starting a request.  The system clears the request's event first.       *)
(***************************************************************************)
Pend(t) ==
    /\ l2pc' = [l2pc EXCEPT ![t] = "wait"]
    /\ irp' = [irp EXCEPT ![t] = "pending"]
    /\ ioEvent' = [ioEvent EXCEPT ![Kind(t)] = FALSE]

\* UdpIo::send_to keeps peer_mac's guard until send_to_mac returns, so one
\* request at a time uses send_event.
SendToMac(t) ==
    /\ l2pc[t] = "idle"
    /\ l2Count.sends < MaxL2Sends
    /\ peerLock = "free"
    /\ L2Counted("sends")
    /\ \/ Pend(t) /\ peerLock' = t
       \/ UNCHANGED <<l2pc, irp, ioEvent, peerLock>>  \* done, or refused, at once
    /\ UNCHANGED <<orphans, peerMac, rxq, rxHand, gotFrames>>

\* recv: a frame the driver already holds completes the request at once.
RecvFrame ==
    /\ l2pc[Rx] = "idle"
    /\ IF rxq # <<>>
       THEN /\ l2pc' = [l2pc EXCEPT ![Rx] = "learn"]
            /\ rxHand' = Head(rxq)
            /\ rxq' = Tail(rxq)
            /\ UNCHANGED <<irp, ioEvent>>
       ELSE Pend(Rx) /\ UNCHANGED <<rxq, rxHand>>
    /\ UNCHANGED <<orphans, peerLock, peerMac, gotFrames, l2Count>>

(***************************************************************************)
(* The driver.                                                             *)
(***************************************************************************)
\* A frame goes to the oldest waiting request, an abandoned one included.
FrameIn ==
    /\ l2Count.in < MaxL2In
    /\ \E mac \in Stations, good \in BOOLEAN :
         LET frame == [n |-> l2Count.in + 1, mac |-> mac, good |-> good]
         IN  \/ /\ orphans["recv"] > 0
                /\ orphans' = [orphans EXCEPT !["recv"] = @ - 1]
                /\ ioEvent' = [ioEvent EXCEPT !["recv"] = TRUE]
                /\ UNCHANGED <<irp, rxHand, rxq>>
             \/ /\ orphans["recv"] = 0 /\ irp[Rx] = "pending"
                /\ irp' = [irp EXCEPT ![Rx] = "done"]
                /\ rxHand' = frame
                /\ ioEvent' = [ioEvent EXCEPT !["recv"] = TRUE]
                /\ UNCHANGED <<orphans, rxq>>
             \/ /\ orphans["recv"] = 0 /\ irp[Rx] # "pending"
                /\ rxq' = Append(rxq, frame)
                /\ UNCHANGED <<irp, rxHand, ioEvent, orphans>>
    /\ L2Counted("in")
    /\ UNCHANGED <<l2pc, peerLock, peerMac, gotFrames>>

SendComplete ==
    /\ \/ \E t \in L2Senders :
            /\ irp[t] = "pending"
            /\ irp' = [irp EXCEPT ![t] = "done"]
            /\ UNCHANGED orphans
       \/ /\ orphans["send"] > 0
          /\ orphans' = [orphans EXCEPT !["send"] = @ - 1]
          /\ UNCHANGED irp
    /\ ioEvent' = [ioEvent EXCEPT !["send"] = TRUE]
    /\ UNCHANGED <<l2pc, peerLock, peerMac, rxq, rxHand, gotFrames, l2Count>>

(***************************************************************************)
(* l2_await.                                                               *)
(***************************************************************************)
\* What the call returns once its wait is over: the request's own result.
\* A request that is still pending is left behind.
L2Return(t) ==
    /\ irp' = [irp EXCEPT ![t] = "none"]
    /\ orphans' = [orphans EXCEPT ![Kind(t)] = IF irp[t] = "pending" THEN @ + 1 ELSE @]
    /\ l2pc' = [l2pc EXCEPT ![t] = IF t = Rx /\ irp[t] = "done" THEN "learn" ELSE "idle"]
    /\ rxHand' = IF t = Rx /\ irp[t] # "done" THEN NoRx ELSE rxHand
    /\ peerLock' = IF peerLock = t THEN "free" ELSE peerLock

\* The first wait ends with the event.
AwaitDone(t) ==
    /\ l2pc[t] = "wait"
    /\ ioEvent[Kind(t)]
    /\ ioEvent' = [ioEvent EXCEPT ![Kind(t)] = FALSE]
    /\ L2Return(t)
    /\ UNCHANGED <<peerMac, rxq, gotFrames, l2Count>>

\* It times out; the request may still complete before CancelIoEx.
AwaitExpires(t) ==
    /\ l2pc[t] = "wait"
    /\ ~ioEvent[Kind(t)]
    /\ l2pc' = [l2pc EXCEPT ![t] = "expired"]
    /\ UNCHANGED <<irp, ioEvent, orphans, peerLock, peerMac, rxq, rxHand,
                   gotFrames, l2Count>>

\* CancelIoEx completes a request still pending.
AwaitCancel(t) ==
    /\ l2pc[t] = "expired"
    /\ l2pc' = [l2pc EXCEPT ![t] = "cancel"]
    /\ \/ /\ irp' = [irp EXCEPT ![t] = IF @ = "pending" THEN "aborted" ELSE @]
          /\ ioEvent' = [ioEvent EXCEPT ![Kind(t)] = TRUE]
          /\ UNCHANGED l2Count
       \/ Late /\ UNCHANGED <<irp, ioEvent>>
    /\ UNCHANGED <<orphans, peerLock, peerMac, rxq, rxHand, gotFrames>>

\* Mutant of AwaitFinal: a cancelled call reports a timeout, whatever the request came to.
AwaitFinalBlind(t) ==
    /\ l2pc[t] = "cancel"
    /\ ioEvent[Kind(t)]
    /\ ioEvent' = [ioEvent EXCEPT ![Kind(t)] = FALSE]
    /\ irp' = [irp EXCEPT ![t] = "none"]
    /\ l2pc' = [l2pc EXCEPT ![t] = "idle"]
    /\ rxHand' = IF t = Rx THEN NoRx ELSE rxHand
    /\ peerLock' = IF peerLock = t THEN "free" ELSE peerLock
    /\ UNCHANGED <<orphans, peerMac, rxq, gotFrames, l2Count>>

\* The second wait ends and GetOverlappedResult decides: a frame that came
\* before the cancel took effect is a success.
AwaitFinal(t) ==
    /\ l2pc[t] = "cancel"
    /\ ioEvent[Kind(t)] \/ irp[t] = "pending"
    /\ ioEvent' = [ioEvent EXCEPT ![Kind(t)] = FALSE]
    /\ L2Return(t)
    /\ UNCHANGED <<peerMac, rxq, gotFrames, l2Count>>

\* The wait itself fails: cancelled and given up, its result not looked at.
AwaitFails(t) ==
    /\ l2pc[t] = "wait"
    /\ Late
    /\ irp' = [irp EXCEPT ![t] = "none"]
    /\ ioEvent' = [ioEvent EXCEPT ![Kind(t)] = FALSE]
    /\ l2pc' = [l2pc EXCEPT ![t] = "idle"]
    /\ rxHand' = IF t = Rx THEN NoRx ELSE rxHand
    /\ peerLock' = IF peerLock = t THEN "free" ELSE peerLock
    /\ UNCHANGED <<orphans, peerMac, rxq, gotFrames>>

\* The receive thread: a short frame or another EtherType is an error; the
\* station of the first good frame becomes the peer for good.
Learn ==
    /\ l2pc[Rx] = "learn"
    /\ rxHand.good => peerLock = "free"
    /\ gotFrames' = Append(gotFrames, rxHand.n)
    /\ peerMac' = IF rxHand.good /\ peerMac = Broadcast THEN rxHand.mac ELSE peerMac
    /\ l2pc' = [l2pc EXCEPT ![Rx] = "idle"]
    /\ rxHand' = NoRx
    /\ UNCHANGED <<irp, ioEvent, orphans, peerLock, rxq, l2Count>>

(***************************************************************************)
(* The specification.                                                      *)
(***************************************************************************)
L2Init ==
    /\ l2pc = [t \in L2Threads |-> "idle"]
    /\ irp = [t \in L2Threads |-> "none"]
    /\ ioEvent = [k \in {"send", "recv"} |-> FALSE]
    /\ orphans = [k \in {"send", "recv"} |-> 0]
    /\ peerLock = "free"
    /\ peerMac = Broadcast
    /\ rxq = <<>>
    /\ rxHand = NoRx
    /\ gotFrames = <<>>
    /\ l2Count = [in |-> 0, sends |-> 0, late |-> 0]

L2Next ==
    \/ \E t \in L2Senders : SendToMac(t)
    \/ RecvFrame \/ FrameIn \/ SendComplete \/ Learn
    \/ \E t \in L2Threads :
         AwaitDone(t) \/ AwaitExpires(t) \/ AwaitCancel(t) \/ AwaitFinal(t) \/ AwaitFails(t)

L2Spec == L2Init /\ [][L2Next]_l2Vars

(***************************************************************************)
(* Properties.                                                             *)
(***************************************************************************)
\* The types of the data plane's state.
L2TypeOK ==
    /\ l2pc \in [L2Threads -> {"idle", "wait", "expired", "cancel", "learn"}]
    /\ irp \in [L2Threads -> {"none", "pending", "done", "aborted"}]
    /\ ioEvent \in [{"send", "recv"} -> BOOLEAN]
    /\ orphans \in [{"send", "recv"} -> 0..(MaxL2Sends + MaxL2In)]
    /\ peerLock \in L2Senders \cup {"free"}
    /\ peerMac \in Stations \cup {Broadcast}
    /\ gotFrames \in Seq(1..MaxL2In)

\* While the waits and the cancels do what the driver's contract says, no
\* call returns before its own request has: neither another thread's event
\* nor a timeout leaves a request behind that would take a later frame.
NoOrphans == l2Count.late = 0 => \A k \in {"send", "recv"} : orphans[k] = 0

\* Under the same contract a timeout that races a frame loses none: the
\* frames the receive thread got, the one in its hand and the ones the
\* driver holds are all the frames that came, in their order.
EveryFrameSeen ==
    LET inHand == IF rxHand.n = 0 THEN <<>> ELSE <<rxHand.n>>
    IN  l2Count.late = 0 =>
          gotFrames \o inHand \o [i \in DOMAIN rxq |-> rxq[i].n]
            = [i \in 1..l2Count.in |-> i]

\* Both, the promise of the L2 data plane: the driver's requests and the
\* calls that made them stay paired, and no frame is lost between them.
L2RequestsPaired == NoOrphans /\ EveryFrameSeen

=============================================================================
