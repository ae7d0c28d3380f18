------------------------------ MODULE WsRelay ------------------------------
(***************************************************************************)
(* The WebSocket relay of ws-node: RelayHub (address -> session), one      *)
(* relay_session task with its writer task per connection, and two         *)
(* relay-node endpoints, an initiator and an echo, that shake hands and    *)
(* exchange echoes through it.  The WebSocket transport is external; the   *)
(* engines are reduced to the pair of sessions whose keys they hold.       *)
(***************************************************************************)
EXTENDS Integers, Sequences

CONSTANTS UntilOk,        \* --until: echoes the initiator waits for
          MaxWsSessions,  \* bound on connections
          MaxWsEvents     \* bound on connections and injected payloads together

WsNodes == {"initiator", "echo"}   \* each is also its own address
Sessions == 1..MaxWsSessions
NoSession == 0
NoKeys == <<NoSession, NoSession>>

Other(n) == IF n = "initiator" THEN "echo" ELSE "initiator"

VARIABLES by_addr,   \* RelayHub::by_addr
          session,   \* relay_session: new, open, closing, done; whose address
          chan,      \* the unbounded channel of each session's writer
          writer,    \* the writer task of each session
          wsUp,      \* messages on their way from each client to the relay
          wsDown,    \* messages on their way from the relay to each client
          node,      \* the two relay-node processes
          wsCount    \* connections and injections so far

wsVars == <<by_addr, session, chan, writer, wsUp, wsDown, node, wsCount>>

\* The address session s registers: the initiator's connections are odd.
SessionAddr(s) == IF s % 2 = 1 THEN "initiator" ELSE "echo"
Msg(kind, keys) == [kind |-> kind, keys |-> keys]
SenderHeld(s) == \E a \in WsNodes : by_addr[a] = s

(***************************************************************************)
(* RelayHub.                                                               *)
(***************************************************************************)
\* register: the certificate is good and its address the one claimed; an
\* older session of the address is replaced.
HubRegister(a, s) == by_addr' = [by_addr EXCEPT ![a] = s]

\* route: to the channel of the session registered; a session whose writer
\* is gone is taken out and the message dropped.
HubRoute(a, msg) ==
    LET t == by_addr[a]
    IN  IF t = NoSession THEN UNCHANGED <<by_addr, chan>>
        ELSE IF writer[t] = "run"
        THEN chan' = [chan EXCEPT ![t] = Append(@, msg)] /\ UNCHANGED by_addr
        ELSE by_addr' = [by_addr EXCEPT ![a] = NoSession] /\ UNCHANGED chan

\* Mutant of HubUnregister: a live sender is left where it is.
HubUnregisterDead(a) ==
    by_addr' = [by_addr EXCEPT ![a] = IF @ # NoSession /\ writer[@] = "run"
                                      THEN @ ELSE NoSession]

\* unregister takes out whatever session the address has now.
HubUnregister(a) == by_addr' = [by_addr EXCEPT ![a] = NoSession]

(***************************************************************************)
(* relay_session: the first message registers, the rest are routed; a      *)
(* Close unregisters, an error ends the task at once.                      *)
(***************************************************************************)
SessionFirst(s) ==
    /\ session[s] = "new"
    /\ wsUp[s] # <<>>
    /\ wsUp' = [wsUp EXCEPT ![s] = Tail(@)]
    /\ \/ /\ HubRegister(SessionAddr(s), s)
          /\ session' = [session EXCEPT ![s] = "open"]
          /\ writer' = [writer EXCEPT ![s] = "run"]
       \/ /\ session' = [session EXCEPT ![s] = "done"]  \* late, or refused
          /\ UNCHANGED <<by_addr, writer>>
    /\ UNCHANGED <<chan, wsDown, node, wsCount>>

SessionRead(s) ==
    /\ session[s] = "open"
    /\ wsUp[s] # <<>>
    /\ wsUp' = [wsUp EXCEPT ![s] = Tail(@)]
    /\ LET msg == Head(wsUp[s])
       IN  \/ /\ msg.kind \notin {"Close", "Err"}
              /\ HubRoute(Other(SessionAddr(s)), msg)
              /\ UNCHANGED session
           \/ /\ msg.kind = "Close"
              /\ HubUnregister(SessionAddr(s))
              /\ session' = [session EXCEPT ![s] = "closing"]
              /\ UNCHANGED chan
           \/ /\ msg.kind = "Err"
              /\ session' = [session EXCEPT ![s] = "done"]
              /\ UNCHANGED <<by_addr, chan>>
    /\ UNCHANGED <<writer, wsDown, node, wsCount>>

\* writer.await
SessionEnd(s) ==
    /\ session[s] = "closing"
    /\ writer[s] = "end"
    /\ session' = [session EXCEPT ![s] = "done"]
    /\ UNCHANGED <<by_addr, chan, writer, wsUp, wsDown, node, wsCount>>

\* The client of s is still there to be written to.
Connected(s) == \E n \in WsNodes : node[n].s = s /\ node[n].pc = "up"

\* The writer task: ends when a write fails, or when its channel is empty
\* and the hub has dropped the sender.
WriterStep(s) ==
    /\ writer[s] = "run"
    /\ \/ /\ chan[s] # <<>>
          /\ chan' = [chan EXCEPT ![s] = IF Connected(s) THEN Tail(@) ELSE <<>>]
          /\ wsDown' = [wsDown EXCEPT ![s] =
                          IF Connected(s) THEN Append(@, Head(chan[s])) ELSE @]
          /\ writer' = [writer EXCEPT ![s] = IF Connected(s) THEN @ ELSE "end"]
       \/ /\ chan[s] = <<>>
          /\ ~SenderHeld(s)
          /\ writer' = [writer EXCEPT ![s] = "end"]
          /\ UNCHANGED <<chan, wsDown>>
    /\ UNCHANGED <<by_addr, session, wsUp, node, wsCount>>

(***************************************************************************)
(* relay_node.                                                             *)
(***************************************************************************)
WsEvents == wsCount.initiator + wsCount.echo + wsCount.injects
NextSession(n) == 2 * wsCount[n] + (IF n = "initiator" THEN 1 ELSE 2)

\* Connects, registers, and as the initiator sends its one Init.
NodeStart(n) ==
    LET s == NextSession(n)
        reg == <<Msg("Reg", NoKeys)>>
    IN  /\ node[n].pc # "up"
        /\ node[n].pc # "pass"
        /\ s \in Sessions /\ WsEvents < MaxWsEvents
        /\ wsCount' = [wsCount EXCEPT ![n] = @ + 1]
        /\ node' = [node EXCEPT ![n] = [pc |-> "up", s |-> s, keys |-> NoKeys, ok |-> 0]]
        /\ wsUp' = [wsUp EXCEPT ![s] =
                      IF n = "initiator" THEN Append(reg, Msg("Init", <<s, NoSession>>))
                                         ELSE reg]
        /\ UNCHANGED <<by_addr, session, chan, writer, wsDown>>

\* The connection ends: with a Close frame, or with an error.
HangUp(n, pc) ==
    /\ node' = [node EXCEPT ![n].pc = pc]
    /\ \E how \in {"Close", "Err"} :
         wsUp' = [wsUp EXCEPT ![node[n].s] = Append(@, Msg(how, NoKeys))]

Send(n, msg) == wsUp' = [wsUp EXCEPT ![node[n].s] = Append(@, msg)]

\* handle_frame and take_delivered, for the message at the head.
NodeRecv(n) ==
    LET s == node[n].s
        msg == Head(wsDown[s])
    IN  /\ node[n].pc = "up"
        /\ wsDown[s] # <<>>
        /\ wsDown' = [wsDown EXCEPT ![s] = Tail(@)]
        /\ \/ /\ n = "echo" /\ msg.kind = "Init"
              /\ node' = [node EXCEPT ![n].keys = <<msg.keys[1], s>>]
              /\ Send(n, Msg("Resp", <<msg.keys[1], s>>))
           \/ /\ n = "initiator" /\ msg.kind = "Resp"
              /\ node' = [node EXCEPT ![n].keys =
                            IF @ = NoKeys /\ msg.keys[1] = s THEN msg.keys ELSE @]
              /\ UNCHANGED wsUp
           \/ /\ n = "echo" /\ msg.kind = "Data"
              /\ UNCHANGED node
              /\ IF msg.keys = node[n].keys THEN Send(n, Msg("Echo", msg.keys))
                                            ELSE UNCHANGED wsUp
           \/ /\ n = "initiator" /\ msg.kind = "Echo"
              /\ IF msg.keys # node[n].keys THEN UNCHANGED <<node, wsUp>>
                 ELSE IF node[n].ok + 1 >= UntilOk THEN HangUp(n, "pass")
                 ELSE node' = [node EXCEPT ![n].ok = @ + 1] /\ UNCHANGED wsUp
        /\ UNCHANGED <<by_addr, session, chan, writer, wsCount>>

\* Established: a synthetic payload every two seconds.
NodeInject ==
    /\ node["initiator"].pc = "up"
    /\ node["initiator"].keys # NoKeys
    /\ WsEvents < MaxWsEvents
    /\ wsCount' = [wsCount EXCEPT !.injects = @ + 1]
    /\ Send("initiator", Msg("Data", node["initiator"].keys))
    /\ UNCHANGED <<by_addr, session, chan, writer, wsDown, node>>

\* Ninety seconds pass, the process dies, the relay's side closes.
NodeStop(n) ==
    /\ node[n].pc = "up"
    /\ HangUp(n, "fail")
    /\ UNCHANGED <<by_addr, session, chan, writer, wsDown, wsCount>>

(***************************************************************************)
(* The specification.                                                      *)
(***************************************************************************)
WsInit ==
    /\ by_addr = [a \in WsNodes |-> NoSession]
    /\ session = [s \in Sessions |-> "new"]
    /\ chan = [s \in Sessions |-> <<>>]
    /\ writer = [s \in Sessions |-> "none"]
    /\ wsUp = [s \in Sessions |-> <<>>]
    /\ wsDown = [s \in Sessions |-> <<>>]
    /\ node = [n \in WsNodes |-> [pc |-> "off", s |-> NoSession, keys |-> NoKeys, ok |-> 0]]
    /\ wsCount = [initiator |-> 0, echo |-> 0, injects |-> 0]

SessionStep(s) == SessionFirst(s) \/ SessionRead(s) \/ SessionEnd(s)

WsNext ==
    \/ \E s \in Sessions : SessionStep(s) \/ WriterStep(s)
    \/ \E n \in WsNodes : NodeStart(n) \/ NodeRecv(n) \/ NodeStop(n)
    \/ NodeInject

\* The relay's tasks run; the processes may stop at any time.
WsFairness ==
    \A s \in Sessions : WF_wsVars(SessionStep(s)) /\ WF_wsVars(WriterStep(s))

WsSpec == WsInit /\ [][WsNext]_wsVars /\ WsFairness

(***************************************************************************)
(* Properties.                                                             *)
(***************************************************************************)
\* The types of the relay's state.
WsTypeOK ==
    /\ by_addr \in [WsNodes -> {NoSession} \cup Sessions]
    /\ session \in [Sessions -> {"new", "open", "closing", "done"}]
    /\ writer \in [Sessions -> {"none", "run", "end"}]
    /\ \A n \in WsNodes : node[n].pc \in {"off", "up", "pass", "fail"}

\* relay_session waits for its writer and the writer for the hub to drop
\* its sender: whichever sessions replaced which in between, the sessions
\* whose clients have closed come to their end.
ClosedSessionsEnd == []<>(\A s \in Sessions : session[s] # "closing")
=============================================================================
