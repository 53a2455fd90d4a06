------------------------------ MODULE MCStartup ------------------------------
(* A server that expects its parent and a child, and a program that is no  *)
(* process of it; three threads; and the inputs of the pure functions.     *)
EXTENDS Startup

CONSTANTS p, k, f       \* the parent, the child, a foreign program

MCClients == {p, k, f}
MCNameOf == [c \in MCClients |-> IF c = p THEN "parent" ELSE IF c = k THEN "kid" ELSE "stranger"]
MCTables == {{"parent", "kid"}, {"parent"}}

(* Around every power of the bases at which a width changes.               *)
MCInts == {-2147483647, -1000000000, -10, -9, 0, 7, 8, 10, 65535, 65536,
           999999999, 1000000000, 1073741823, 1073741824, 2147483647}
MCTexts == {<<>>, <<97>>, <<97, 98, 99>>}

MCNames == {<<1>>, <<2, 1>>, <<1, 1, 2>>}
MCArguments == {<<>>, <<0>>, <<3, 0>>, <<0, 1, 0, 2>>}
MCPacks == UNION {[1..n -> {<<>>, <<1>>, <<2, 1>>}] : n \in 0..3}

MCArgs == {<<>>, <<"a">>, <<"b", "c">>, <<"a", " ", "b">>}
MCPaths == {<<"/", "d", "/", "e">>, <<"/", "d", "/", "d", "/", "e">>, <<"/", "e">>, <<"d", "/">>}
=============================================================================
