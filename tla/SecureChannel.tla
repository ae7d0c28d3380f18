--------------------------- MODULE SecureChannel ---------------------------
(***************************************************************************)
(* What an established tunnel promises its users: a two-way datagram       *)
(* channel.  Messages may be lost and overtake each other, but each one    *)
(* reaches only the end it was sent to, and reaches it at most once.       *)
(***************************************************************************)
EXTENDS Naturals, Sequences

CONSTANT Ends

VARIABLES
  log,  \* log[i]: the end that sent the i-th message
  out   \* out[e]: the messages handed up to end e, in order

vars == <<log, out>>

Init ==
  /\ log = <<>>
  /\ out = [e \in Ends |-> <<>>]

Send(e) ==
  /\ log' = Append(log, e)
  /\ UNCHANGED out

Deliver(e, i) ==
  /\ log[i] # e
  /\ \A n \in DOMAIN out[e] : out[e][n] # i
  /\ out' = [out EXCEPT ![e] = Append(@, i)]
  /\ UNCHANGED log

Next == \E e \in Ends : Send(e) \/ \E i \in DOMAIN log : Deliver(e, i)

Spec == Init /\ [][Next]_vars
=============================================================================
