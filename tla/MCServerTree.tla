---------------------------- MODULE MCServerTree ----------------------------
(* A master with two children, one of which has a child of its own.  With   *)
(* MCHash both children share a bucket and the last bucket is empty, with   *)
(* MCHashLast every bucket of the master's table is in use but the first.   *)
EXTENDS ServerTree

CONSTANTS master, a, b, g

MCProcs == {master, a, b, g}
MCParent == (master :> NoKey) @@ (a :> master) @@ (b :> master) @@ (g :> a)
MCHash == (master :> 0) @@ (a :> 1) @@ (b :> 1) @@ (g :> 1)
MCHashLast == (master :> 0) @@ (a :> 1) @@ (b :> 2) @@ (g :> 1)

(* Bounds, of the size of the state space: programs send to each other, or  *)
(* they leave by themselves or die, but not both in one behaviour; and a    *)
(* program sends an exit to a child of its process only.                    *)
VARIABLE scene
mcVars == <<vars, scene>>

AddInScene(p) ==
    /\ scene = "sending"
    /\ Add(p)
    /\ LET instr == outgoing'[p][Len(outgoing'[p])]
       IN  instr.kind = "exit" => instr.dest \in Children(p)

MCInit == Init /\ scene \in {"sending", "leaving"}

MCNext ==
    /\ UNCHANGED scene
    /\ \E p \in Procs :
        \/ AddInScene(p)
        \/ Loop(p)
        \/ ParentGone(p)
        \/ scene = "leaving" /\ (Quit(p) \/ Crash(p))
        \/ \E q \in Procs : Recieve(p, q)

(* The fairness of FairSpec: none of it is about the steps left out.        *)
MCSpec ==
    /\ MCInit /\ [][MCNext]_mcVars
    /\ \A p \in Procs : WF_vars(Send(p)) /\ WF_vars(Handle(p) \/ ParentGone(p))
    /\ \A p \in Procs : WF_vars(TellChildren(p)) /\ WF_vars(Close(p))
    /\ \A p, q \in Procs : WF_vars(Recieve(p, q))
=============================================================================
