--------------------------- MODULE MCWaitResponse ---------------------------
(* Two recievers, with two instructions and with one.                      *)
EXTENDS WaitResponse, TLC

CONSTANTS r1, r2

MCRecievers == {r1, r2}
MCMaxAdds == r1 :> 2 @@ r2 :> 1
=============================================================================
