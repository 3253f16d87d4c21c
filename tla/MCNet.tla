------------------------------- MODULE MCNet -------------------------------
(* Net for TLC. *)
EXTENDS Net

Packet(h, b, e) == [hdr |-> h, body |-> b, event |-> e]

\* A login with packets after each change of state, and a two-byte size.
Login ==
  << Packet(1, 2, "compress"), Packet(1, 1, "success"), Packet(2, 3, "other"),
     Packet(1, 1, "other"), Packet(1, 4, "other") >>

\* Two packets that both have handlers.
TwoHandled == << Packet(1, 1, "compress"), Packet(1, 1, "success") >>
=============================================================================
