-------------------------------- MODULE Header --------------------------------
(***************************************************************************)
(* The sizes in front of instructions and of their arguments: an int32_t   *)
(* as the code copies it into a buffer and out of it again, in width cells *)
(* that hold a digit of the base each, lowest first: 4 and 256 in the code.*)
(***************************************************************************)
EXTENDS Integers, Sequences

(* What is left of n without its k lowest digits, and the digits.          *)
Shifts(n, base, width) ==
    LET left[k \in 0..width] == IF k = 0 THEN n ELSE left[k - 1] \div base IN left
DigitsOf(n, base, width) == [k \in 1..width |-> Shifts(n, base, width)[k - 1] % base]

(* Reading starts with the highest digit.                                  *)
ValueOf(digits, base, width) ==
    LET top[k \in 0..width] ==      \* the value of the k highest digits
            IF k = 0 THEN 0 ELSE digits[width + 1 - k] + base * top[k - 1]
    IN  top[width]

(* A number has no more digits than that.                                  *)
HeaderHolds(n, base, width) == Shifts(n, base, width)[width] = 0
=============================================================================
