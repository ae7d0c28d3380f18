----------------------------- MODULE MCFallback -----------------------------
(* A small instance of Fallback: the resolver answers the cfg cannot write. *)
EXTENDS Fallback

Answer(main, alts, capable) ==
  [tunnel_entry |-> main, alt_entries |-> alts, ipv8_capable |-> capable,
   last_good |-> NoEntry]

\* a main entry with two backups, a sole entry, and a peer without IPv8+
SomeAnswers ==
  {Answer("m", <<"x", "y">>, TRUE), Answer("m", <<>>, TRUE),
   Answer("m", <<"x">>, FALSE)}
=============================================================================
