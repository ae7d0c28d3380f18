-------------------------------- MODULE Rio --------------------------------
(***************************************************************************)
(* The Registered I/O data plane of ipv8-node: rio.rs (UdpIo::bind,        *)
(* RioRuntime, SlotTable) and the event loop in main.rs that is the only   *)
(* consumer of its completion queue.  Any thread may send.  The kernel     *)
(* side of RIO (request queue, completion queue, RIONotify) is external.   *)
(***************************************************************************)
EXTENDS Integers, Sequences, FiniteSets

CONSTANTS RecvSlots,     \* FULL_RECV_SLOTS
          SendSlots,     \* FULL_SEND_SLOTS
          SmallSlots,    \* SMALL_RECV_SLOTS and SMALL_SEND_SLOTS
          DequeueBatch,  \* DEQUEUE_BATCH
          Callers,       \* threads that call UdpIo::send_to
          MaxRioIn,      \* bound on frames from the wire
          MaxRioSends,   \* bound on calls of send_to
          MaxRioTun,     \* bound on wake-ups by the TUN ring
          MaxRioFaults,  \* bound on failing system calls
          MaxRioEvents   \* bound on all of them together

ASSUME RioAssumption ==
    /\ {RecvSlots, SendSlots, SmallSlots, DequeueBatch} \subseteq Nat \ {0}
    /\ SmallSlots <= RecvSlots /\ SmallSlots <= SendSlots

VARIABLES plane,     \* rio: which data plane the node has, and RIO's sizes
          recvSlot,  \* where each receive slot is
          cq,        \* the completion queue
          sendUsed,  \* SlotTable::used
          sendBuf,   \* the frame in each send slot's registered buffer
          sending,   \* the frame each request in the kernel was posted for
          caller,    \* where each sending thread is
          loop,      \* the event loop: pc, idle_rounds, the slots it holds
          notify,    \* RIONotify's state and the event
          rioBudget  \* frames, calls, wake-ups and faults so far

rioVars == <<plane, recvSlot, cq, sendUsed, sendBuf, sending, caller, loop,
             notify, rioBudget>>

NoFrame == 0
Probe == 1       \* self_check's probe; the callers' frames come after it
RioModes == {"On", "Auto", "Off"}

Spent(what) ==
    /\ rioBudget.in + rioBudget.sends + rioBudget.tun + rioBudget.faults < MaxRioEvents
    /\ rioBudget' = [rioBudget EXCEPT ![what] = @ + 1]
Fault == rioBudget.faults < MaxRioFaults /\ Spent("faults")

(***************************************************************************)
(* UdpIo::bind and RioRuntime::create.                                     *)
(***************************************************************************)
Fresh(n, m) ==
    /\ recvSlot' = [s \in 1..n |-> "kernel"]
    /\ cq' = <<>>
    /\ sendUsed' = [s \in 1..m |-> s = 1]
    /\ sendBuf' = [s \in 1..m |-> IF s = 1 THEN Probe ELSE NoFrame]
    /\ sending' = [s \in 1..m |-> IF s = 1 THEN Probe ELSE NoFrame]

\* Every receive slot is posted, then self_check sends its probe.
RioCreate(n, m) ==
    /\ plane' = [plane EXCEPT !.io = "check", !.small = (n # RecvSlots),
                              !.sent = FALSE, !.back = FALSE]
    /\ Fresh(n, m)
    /\ UNCHANGED <<caller, loop, notify>>

\* On: the error ends the node; Auto: the standard socket is used instead.
GiveUp ==
    /\ plane' = [plane EXCEPT !.io = IF plane.mode = "On" THEN "none" ELSE "std"]
    /\ UNCHANGED <<recvSlot, cq, sendUsed, sendBuf, sending, caller, loop, notify>>

UdpBind ==
    /\ plane.io = "bind"
    /\ \/ /\ plane.mode = "Off"
          /\ plane' = [plane EXCEPT !.io = "std"]
          /\ UNCHANGED <<recvSlot, cq, sendUsed, sendBuf, sending, caller,
                         loop, notify, rioBudget>>
       \/ /\ plane.mode # "Off"
          /\ RioCreate(RecvSlots, SendSlots)
          /\ UNCHANGED rioBudget
       \/ /\ plane.mode # "Off"
          /\ Fault
          /\ \/ RioCreate(SmallSlots, SmallSlots)
             \/ GiveUp

(***************************************************************************)
(* The kernel.  It fills posted receive slots, transmits posted sends, and *)
(* queues a completion for either; the event fires when armed.             *)
(***************************************************************************)
Complete(entry) ==
    /\ cq' = Append(cq, entry)
    /\ notify' = IF notify.armed THEN [armed |-> FALSE, event |-> TRUE] ELSE notify

WireIn ==
    /\ plane.io \in {"check", "rio"}
    /\ rioBudget.in < MaxRioIn
    /\ \E s \in DOMAIN recvSlot, bad \in BOOLEAN :
         /\ recvSlot[s] = "kernel"
         /\ recvSlot' = [recvSlot EXCEPT ![s] = "cq"]
         /\ Complete([send |-> FALSE, slot |-> s, bad |-> bad, probe |-> FALSE])
    /\ Spent("in")
    /\ UNCHANGED <<plane, sendUsed, sendBuf, sending, caller, loop>>

SendDone ==
    /\ plane.io \in {"check", "rio"}
    /\ \E s \in DOMAIN sending :
         /\ sending[s] # NoFrame
         /\ sending' = [sending EXCEPT ![s] = NoFrame]
         /\ Complete([send |-> TRUE, slot |-> s, bad |-> FALSE, probe |-> FALSE])
    /\ UNCHANGED <<plane, recvSlot, sendUsed, sendBuf, caller, loop, rioBudget>>

\* The probe comes back through the loopback; nothing orders it against the
\* completion of its own send.
ProbeBack ==
    /\ plane.io = "check"
    /\ ~plane.back
    /\ \E s \in DOMAIN recvSlot :
         /\ recvSlot[s] = "kernel"
         /\ recvSlot' = [recvSlot EXCEPT ![s] = "cq"]
         /\ Complete([send |-> FALSE, slot |-> s, bad |-> FALSE, probe |-> TRUE])
    /\ plane' = [plane EXCEPT !.back = TRUE]
    /\ UNCHANGED <<sendUsed, sendBuf, sending, caller, loop, rioBudget>>

(***************************************************************************)
(* dequeue: at most DEQUEUE_BATCH completions.  A send gives its slot back,*)
(* a bad receive is posted again at once, a good one is handed out.        *)
(***************************************************************************)
Reaped == IF Len(cq) <= DequeueBatch THEN cq ELSE SubSeq(cq, 1, DequeueBatch)
ReapedEntries == {Reaped[i] : i \in DOMAIN Reaped}
FreedSends == {e.slot : e \in {r \in ReapedEntries : r.send}}
BadReceives == {e.slot : e \in {r \in ReapedEntries : ~r.send /\ r.bad}}
GoodReceives == {e.slot : e \in {r \in ReapedEntries : ~r.send /\ ~r.bad}}
ProbeSeen == \E e \in ReapedEntries : e.probe

Dequeue ==
    /\ cq' = SubSeq(cq, Len(Reaped) + 1, Len(cq))
    /\ sendUsed' = [s \in DOMAIN sendUsed |-> sendUsed[s] /\ s \notin FreedSends]
    /\ recvSlot' = [s \in DOMAIN recvSlot |->
                      IF s \in BadReceives THEN "kernel"
                      ELSE IF s \in GoodReceives THEN "held" ELSE recvSlot[s]]

(***************************************************************************)
(* self_check: dequeue, look at the packets, post their slots again; done  *)
(* when the probe is among them and a send has completed by then.          *)
(***************************************************************************)
SelfCheck ==
    LET sent == plane.sent \/ FreedSends # {}
    IN  /\ plane.io = "check"
        /\ cq' = SubSeq(cq, Len(Reaped) + 1, Len(cq))
        /\ sendUsed' = [s \in DOMAIN sendUsed |-> sendUsed[s] /\ s \notin FreedSends]
        /\ recvSlot' = [s \in DOMAIN recvSlot |->
                          IF s \in BadReceives \cup GoodReceives THEN "kernel"
                          ELSE recvSlot[s]]
        /\ plane' = [plane EXCEPT
                       !.sent = sent,
                       !.io = IF ProbeSeen /\ sent THEN "rio" ELSE @]
        /\ cq # <<>>
        /\ UNCHANGED <<sendBuf, sending, caller, loop, notify, rioBudget>>

\* The deadline passes: no second try with fewer slots.
SelfCheckTimesOut ==
    /\ plane.io = "check"
    /\ GiveUp
    /\ UNCHANGED rioBudget

\* A system call fails: once more with fewer slots, then no more.
SelfCheckFails ==
    /\ plane.io = "check"
    /\ Fault
    /\ IF plane.small THEN GiveUp ELSE RioCreate(SmallSlots, SmallSlots)

(***************************************************************************)
(* send_to, from any thread: SlotTable::alloc tries the slots in turn, one *)
(* atomic swap each; the frame is copied in; RIOSendEx is called.          *)
(***************************************************************************)
SendStart(c) ==
    /\ plane.io = "rio"
    /\ caller[c].pc = "idle"
    /\ rioBudget.sends < MaxRioSends
    /\ caller' = [caller EXCEPT ![c] = [pc |-> "alloc", slot |-> 1,
                                        frame |-> rioBudget.sends + 2]]
    /\ Spent("sends")
    /\ UNCHANGED <<plane, recvSlot, cq, sendUsed, sendBuf, sending, loop, notify>>

Alloc(c) ==
    LET s == caller[c].slot
    IN  /\ caller[c].pc = "alloc"
        /\ IF s \notin DOMAIN sendUsed
           THEN /\ caller' = [caller EXCEPT ![c].pc = "idle"]  \* WouldBlock
                /\ UNCHANGED sendUsed
           ELSE /\ sendUsed' = [sendUsed EXCEPT ![s] = TRUE]
                /\ caller' = [caller EXCEPT ![c] =
                                IF sendUsed[s] THEN [@ EXCEPT !.slot = s + 1]
                                               ELSE [@ EXCEPT !.pc = "copy"]]
        /\ UNCHANGED <<plane, recvSlot, cq, sendBuf, sending, loop, notify, rioBudget>>

CopyIn(c) ==
    /\ caller[c].pc = "copy"
    /\ sendBuf' = [sendBuf EXCEPT ![caller[c].slot] = caller[c].frame]
    /\ caller' = [caller EXCEPT ![c].pc = "post"]
    /\ UNCHANGED <<plane, recvSlot, cq, sendUsed, sending, loop, notify, rioBudget>>

\* Mutant of SendEx: the slot is free again as soon as the request is posted.
SendExFrees(c) ==
    LET s == caller[c].slot
    IN  /\ caller[c].pc = "post"
        /\ sending' = [sending EXCEPT ![s] = caller[c].frame]
        /\ sendUsed' = [sendUsed EXCEPT ![s] = FALSE]
        /\ caller' = [caller EXCEPT ![c].pc = "idle"]
        /\ UNCHANGED <<plane, recvSlot, cq, sendBuf, loop, notify, rioBudget>>

SendEx(c) ==
    LET s == caller[c].slot
    IN  /\ caller[c].pc = "post"
        /\ \/ /\ sending' = [sending EXCEPT ![s] = caller[c].frame]
              /\ UNCHANGED <<sendUsed, rioBudget>>
           \/ /\ Fault
              /\ sendUsed' = [sendUsed EXCEPT ![s] = FALSE]
              /\ UNCHANGED sending
        /\ caller' = [caller EXCEPT ![c].pc = "idle"]
        /\ UNCHANGED <<plane, recvSlot, cq, sendBuf, loop, notify>>

(***************************************************************************)
(* The event loop: drain both sides; while a round did something keep      *)
(* draining, after two idle rounds arm the notification and wait for the   *)
(* TUN ring or the queue.  A round that only reaped sends did nothing.     *)
(***************************************************************************)
Leave == loop' = [loop EXCEPT !.pc = "exit"]

LoopDrain ==
    /\ plane.io = "rio"
    /\ loop.pc = "drain"
    /\ loop' = [loop EXCEPT !.pc = "repost", !.tun = 0,
                            !.worked = loop.tun > 0 \/ GoodReceives # {}]
    /\ Dequeue
    /\ UNCHANGED <<plane, sendBuf, sending, caller, notify, rioBudget>>

LoopRepost ==
    /\ loop.pc = "repost"
    /\ recvSlot' = [s \in DOMAIN recvSlot |->
                      IF recvSlot[s] = "held" THEN "kernel" ELSE recvSlot[s]]
    /\ LET idle == IF loop.worked THEN 0 ELSE loop.idle + 1
       IN  loop' = [loop EXCEPT !.idle = idle,
                                !.pc = IF idle >= 2 THEN "arm" ELSE "drain"]
    /\ UNCHANGED <<plane, cq, sendUsed, sendBuf, sending, caller, notify, rioBudget>>

\* Mutant of ArmNotify: the notification is armed without a look at what is already queued.
ArmNotifyEdge ==
    /\ loop.pc = "arm"
    /\ loop' = [loop EXCEPT !.pc = "wait"]
    /\ notify' = [armed |-> TRUE, event |-> FALSE]
    /\ UNCHANGED <<plane, recvSlot, cq, sendUsed, sendBuf, sending, caller, rioBudget>>

\* RIONotify: fires at once when the queue is not empty.
ArmNotify ==
    /\ loop.pc = "arm"
    /\ loop' = [loop EXCEPT !.pc = "wait"]
    /\ notify' = [armed |-> cq = <<>>, event |-> cq # <<>>]
    /\ UNCHANGED <<plane, recvSlot, cq, sendUsed, sendBuf, sending, caller, rioBudget>>

\* WaitForMultipleObjects([tun, cq]): the TUN handle is looked at first, and
\* the auto-reset event is only taken when it is the one that woke the loop.
WaitIo ==
    /\ loop.pc = "wait"
    /\ loop.tun > 0 \/ notify.event
    /\ notify' = IF loop.tun > 0 THEN notify ELSE [notify EXCEPT !.event = FALSE]
    /\ loop' = [loop EXCEPT !.pc = "drain", !.idle = 1]
    /\ UNCHANGED <<plane, recvSlot, cq, sendUsed, sendBuf, sending, caller, rioBudget>>

\* A corrupt queue, a slot that cannot be posted, RIONotify or the wait
\* failing: the loop ends, and the threads that send go on.
LoopFails ==
    /\ plane.io = "rio"
    /\ loop.pc # "exit"
    /\ Fault
    /\ Leave
    /\ UNCHANGED <<plane, recvSlot, cq, sendUsed, sendBuf, sending, caller, notify>>

TunReady ==
    /\ plane.io = "rio"
    /\ rioBudget.tun < MaxRioTun
    /\ loop' = [loop EXCEPT !.tun = @ + 1]
    /\ Spent("tun")
    /\ UNCHANGED <<plane, recvSlot, cq, sendUsed, sendBuf, sending, caller, notify>>

(***************************************************************************)
(* The specification.                                                      *)
(***************************************************************************)
RioInit ==
    /\ plane \in [io : {"bind"}, mode : RioModes, small : {FALSE},
                  sent : {FALSE}, back : {FALSE}]
    /\ recvSlot = <<>>
    /\ cq = <<>>
    /\ sendUsed = <<>>
    /\ sendBuf = <<>>
    /\ sending = <<>>
    /\ caller = [c \in Callers |-> [pc |-> "idle", slot |-> 1, frame |-> NoFrame]]
    /\ loop = [pc |-> "drain", idle |-> 1, worked |-> FALSE, tun |-> 0]
    /\ notify = [armed |-> FALSE, event |-> FALSE]
    /\ rioBudget = [in |-> 0, sends |-> 0, tun |-> 0, faults |-> 0]

LoopStep == LoopDrain \/ LoopRepost \/ ArmNotify \/ WaitIo
CallerStep(c) == Alloc(c) \/ CopyIn(c) \/ SendEx(c)

RioNext ==
    \/ UdpBind \/ SelfCheck \/ SelfCheckTimesOut \/ SelfCheckFails
    \/ WireIn \/ SendDone \/ ProbeBack \/ TunReady
    \/ \E c \in Callers : SendStart(c) \/ CallerStep(c)
    \/ LoopStep \/ LoopFails

\* The loop and the callers are threads that nothing stops, and the kernel
\* finishes every send.
RioFairness ==
    /\ WF_rioVars(LoopStep)
    /\ \A c \in Callers : WF_rioVars(CallerStep(c))
    /\ WF_rioVars(SendDone)

RioSpec == RioInit /\ [][RioNext]_rioVars /\ RioFairness

(***************************************************************************)
(* Properties.                                                             *)
(***************************************************************************)
\* The types of the data plane's state.
RioTypeOK ==
    /\ plane \in [io : {"bind", "check", "rio", "std", "none"}, mode : RioModes,
                  small : BOOLEAN, sent : BOOLEAN, back : BOOLEAN]
    /\ \A s \in DOMAIN recvSlot : recvSlot[s] \in {"kernel", "cq", "held", "gone"}
    /\ \A s \in DOMAIN sendUsed : sendUsed[s] \in BOOLEAN
    /\ DOMAIN sendBuf = DOMAIN sendUsed /\ DOMAIN sending = DOMAIN sendUsed
    /\ loop \in [pc : {"drain", "repost", "arm", "wait", "exit"}, idle : 0..2,
                 worked : BOOLEAN, tun : 0..MaxRioTun]
    /\ notify \in [armed : BOOLEAN, event : BOOLEAN]

\* send_to copies into a registered buffer the kernel reads later: whatever
\* the threads do, the frame in the buffer of a request still in the kernel
\* is the frame that request was posted for.
SentAsGiven ==
    \A s \in DOMAIN sending : sending[s] # NoFrame => sendBuf[s] = sending[s]

\* dequeue and the loop lose no receive slot: each is with the kernel, in
\* the queue exactly once, or held by the running loop.
RecvSlotsKept ==
    \A s \in DOMAIN recvSlot :
      LET queued == {i \in DOMAIN cq : ~cq[i].send /\ cq[i].slot = s}
      IN  /\ recvSlot[s] # "gone"
          /\ Cardinality(queued) = IF recvSlot[s] = "cq" THEN 1 ELSE 0

\* Both, the slots of the registered buffer have one owner at a time.
SlotsSound == SentAsGiven /\ RecvSlotsKept

\* "drain, arm, wait" has no window in which a completion wakes nobody: a
\* slot taken for a send comes back while the loop runs, even though a
\* round that only reaps sends counts as idle.
SlotsComeBack ==
    LET taken(s) == s \in DOMAIN sendUsed /\ sendUsed[s]
    IN  \A s \in 1..SendSlots :
          (plane.io = "rio" /\ taken(s)) ~> (loop.pc = "exit" \/ ~taken(s))
=============================================================================
