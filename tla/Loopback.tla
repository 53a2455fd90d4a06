------------------------------ MODULE Loopback ------------------------------
(***************************************************************************)
(* wimp_server_send_instructions on an instruction that the process has    *)
(* addressed to itself (wimp_server.c 391-395 and 427).                    *)
(*                                                                         *)
(* The server's thread holds the mutexes of its outgoing queue only.  It   *)
(* runs wimp_instr_queue_add on the incoming queue, which the recievers    *)
(* add to under that queue's own mutexes, and gives it the buffer of the   *)
(* outgoing node; then it frees the outgoing node and with it the buffer.  *)
(***************************************************************************)
EXTENDS InstrQueue

CONSTANT MaxSends   \* bound: instructions the process sends to itself

VARIABLES
    loop,           \* where the server's thread is in the unlocked add
    sends,          \* how many it has sent to itself
    freed           \* nodes whose instruction buffer has been freed

loopVars == <<loop, sends, freed>>

LoopbackInit ==
    /\ QueueInit
    /\ loop = [t \in Mains |-> "none"]
    /\ sends = [t \in Mains |-> 0]
    /\ freed = {}

(* A step outside every lock of the incoming queue.                        *)
Outside(t, from, to) ==
    /\ pc[t] = "idle"
    /\ loop[t] = from
    /\ loop' = [loop EXCEPT ![t] = to]
    /\ UNCHANGED <<lockVars, step, adds, handled>>

LoopAlloc(t) ==
    \E n \in Nodes \ allocated :
        /\ sends[t] < MaxSends
        /\ Outside(t, "none", "test")
        /\ allocated' = allocated \cup {n}
        /\ nextnode' = [nextnode EXCEPT ![n] = NULL]
        /\ instr' = [instr EXCEPT ![n] = [from |-> t, num |-> sends[t] + 1]]
        /\ cur' = [cur EXCEPT ![t] = n]
        /\ sends' = [sends EXCEPT ![t] = @ + 1]
        /\ freed' = freed \ {n}
        /\ UNCHANGED <<front, back, queued>>

LoopTest(t) ==
    /\ Outside(t, "test", IF back = NULL THEN "link_front" ELSE "link_back")
    /\ UNCHANGED <<listVars, cur, sends, freed>>

LoopLinkFront(t) ==
    /\ Outside(t, "link_front", "set_back")
    /\ front' = cur[t]
    /\ queued' = Append(queued, cur[t])
    /\ UNCHANGED <<nextnode, instr, back, allocated, cur, sends, freed>>

LoopLinkBack(t) ==
    /\ Outside(t, "link_back", "set_back")
    /\ nextnode' = [nextnode EXCEPT ![back] = cur[t]]
    /\ queued' = Append(queued, cur[t])
    /\ UNCHANGED <<instr, front, back, allocated, cur, sends, freed>>

LoopSetBack(t) ==
    /\ Outside(t, "set_back", "free")
    /\ back' = cur[t]
    /\ UNCHANGED <<nextnode, instr, front, allocated, queued, cur, sends, freed>>

(* wimp_instr_node_free(currentn): the outgoing node and the shared buffer *)
LoopFreeOutgoing(t) ==
    /\ Outside(t, "free", "none")
    /\ freed' = freed \cup {cur[t]}
    /\ cur' = [cur EXCEPT ![t] = NULL]
    /\ UNCHANGED <<listVars, sends>>

LoopbackAdd(t) ==
    \/ LoopAlloc(t)
    \/ LoopTest(t)
    \/ LoopLinkFront(t)
    \/ LoopLinkBack(t)
    \/ LoopSetBack(t)
    \/ LoopFreeOutgoing(t)

(* The thread is in its reading stage or in its sending stage.             *)
LoopbackNext ==
    \/ \E t \in Threads :
        /\ t \in Mains => loop[t] = "none"
        /\ QueueEnter(t) \/ QueueLeave(t) \/ Add(t) \/ Pop(t)
        /\ UNCHANGED loopVars
    \/ \E t \in Mains : LoopbackAdd(t)

LoopbackSpec == LoopbackInit /\ [][LoopbackNext]_<<queueVars, loopVars>>

-----------------------------------------------------------------------------
(* "Formatted as FIFO.  The reciever(s) for the process add to the         *)
(* incoming queue (as multiple threads could write need to use mutexes)"   *)
(* (wimp_instruction.h 13-15): every node linked into the list can be      *)
(* reached from its front, in the order of the adds.                       *)
LinkedNodesReachable ==
    /\ queued # <<>> => front = queued[1]
    /\ \A i \in 1..(Len(queued) - 1) : nextnode[queued[i]] = queued[i + 1]

(* "Once the instruction data is not used anymore, must free the           *)
(* instruction node" (wimp_instruction.h 19): an instruction that waits in *)
(* the incoming queue has not been freed.                                  *)
QueuedInstructionsReadable == \A i \in DOMAIN queued : queued[i] \notin freed
=============================================================================
