----------------------------- MODULE MCLoopback -----------------------------
(* One server thread that sends to itself while one reciever adds.         *)
EXTENDS Loopback

CONSTANTS m1, r1, n1, n2, n3

MCMains == {m1}
MCRecievers == {r1}
MCNodes == {n1, n2, n3}
=============================================================================
