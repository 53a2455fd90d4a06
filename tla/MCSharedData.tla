---------------------------- MODULE MCSharedData ----------------------------
(* Instances of SharedData: three processes would add nothing but time, two *)
(* names and two slots let slots be reused under another name.              *)
EXTENDS SharedData

CONSTANTS master, child, n1, n2

MCProcs == {master, child}
MCNames == {n1, n2}
=============================================================================
