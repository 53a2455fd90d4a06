----------------------------- MODULE InstrQueue -----------------------------
(***************************************************************************)
(* The linked list of an instruction queue (wimp_instruction.c 3-160),     *)
(* read and written one pointer at a time under the triple mutex.          *)
(*                                                                         *)
(* Recievers lock, add one instruction and unlock.  The server's thread    *)
(* locks and pops until the queue is empty, or until wait_response has     *)
(* what it waits for, handling and freeing each node before the next pop.  *)
(***************************************************************************)
EXTENDS QueueLock, Naturals, Sequences

CONSTANTS
    Nodes,      \* heap cells malloc can hand out
    NULL,
    MaxAdds     \* bound: instructions each reciever adds

ASSUME QueueAssumption == NULL \notin Nodes /\ MaxAdds \in Nat

VARIABLES
    nextnode,   \* node->nextnode
    instr,      \* node->instr
    front,      \* queue->nextnode, the first node
    back,       \* queue->backnode, the last node
    allocated,  \* the nodes malloc has handed out and nobody has freed
    step,       \* where each thread is in add or pop
    cur,        \* the node a thread is adding or has popped
    adds,       \* how many instructions each reciever has tried to add
    handled,    \* history: the instructions popped, in order
    queued      \* history: the nodes linked and not yet unlinked, in order

listVars == <<nextnode, instr, front, back, allocated, queued>>
progVars == <<step, cur, adds, handled>>
queueVars == <<lockVars, listVars, progVars>>

(* The instruction a reciever has just read off its connection.            *)
Msgs == [from : Recievers, num : 1..MaxAdds]
NewMsg(t) == [from |-> t, num |-> adds[t] + 1]

AddSteps == {"alloc", "test", "link_front", "link_back", "set_back"}
PopSteps == {"read", "advance", "fix_back", "handle", "again"}
Steps == AddSteps \cup PopSteps \cup {"done"}
FirstStep(t) == IF t \in Recievers THEN "alloc" ELSE "read"

QueueTypeOK ==
    /\ LockTypeOK
    /\ nextnode \in [Nodes -> Nodes \cup {NULL}]
    /\ instr \in [Nodes -> Msgs \cup {NULL}]
    /\ front \in Nodes \cup {NULL}
    /\ back \in Nodes \cup {NULL}
    /\ allocated \in SUBSET Nodes
    /\ step \in [Threads -> Steps]
    /\ cur \in [Threads -> Nodes \cup {NULL}]
    /\ adds \in [Recievers -> 0..MaxAdds]
    /\ handled \in Seq(Msgs)
    /\ queued \in Seq(Nodes)
    /\ \A t \in Threads : step[t] # FirstStep(t) => pc[t] = "inside"

(* wimp_create_instr_queue *)
QueueInit ==
    /\ LockInit
    /\ nextnode = [n \in Nodes |-> NULL]
    /\ instr = [n \in Nodes |-> NULL]
    /\ front = NULL
    /\ back = NULL
    /\ allocated = {}
    /\ step = [t \in Threads |-> FirstStep(t)]
    /\ cur = [t \in Threads |-> NULL]
    /\ adds = [t \in Recievers |-> 0]
    /\ handled = <<>>
    /\ queued = <<>>

-----------------------------------------------------------------------------
(* A step of a thread that is between lock and unlock.                     *)
Within(t, from, to) ==
    /\ pc[t] = "inside"
    /\ step[t] = from
    /\ step' = [step EXCEPT ![t] = to]
    /\ UNCHANGED lockVars

(* wimp_instr_queue_add: a new node with no successor, or no memory and    *)
(* FAIL, which the reciever does not look at.                              *)
AddAlloc(t) ==
    \E n \in Nodes \ allocated :
        /\ Within(t, "alloc", "test")
        /\ allocated' = allocated \cup {n}
        /\ nextnode' = [nextnode EXCEPT ![n] = NULL]
        /\ instr' = [instr EXCEPT ![n] = NewMsg(t)]
        /\ cur' = [cur EXCEPT ![t] = n]
        /\ adds' = [adds EXCEPT ![t] = @ + 1]
        /\ UNCHANGED <<front, back, queued, handled>>

AddNoMemory(t) ==
    /\ Within(t, "alloc", "done")
    /\ adds' = [adds EXCEPT ![t] = @ + 1]
    /\ UNCHANGED <<listVars, cur, handled>>

(* The test of queue->backnode and the two writes of either branch.        *)
AddTest(t) ==
    /\ Within(t, "test", IF back = NULL THEN "link_front" ELSE "link_back")
    /\ UNCHANGED <<listVars, cur, adds, handled>>

AddLinkFront(t) ==
    /\ Within(t, "link_front", "set_back")
    /\ front' = cur[t]
    /\ queued' = Append(queued, cur[t])
    /\ UNCHANGED <<nextnode, instr, back, allocated, cur, adds, handled>>

(* Slip: the new node goes to the front.                                   *)
AddLinkBackAtFront(t) ==
    /\ Within(t, "link_back", "set_back")
    /\ nextnode' = [nextnode EXCEPT ![cur[t]] = front]
    /\ front' = cur[t]
    /\ queued' = <<cur[t]>> \o queued
    /\ UNCHANGED <<instr, back, allocated, cur, adds, handled>>

AddLinkBack(t) ==
    /\ Within(t, "link_back", "set_back")
    /\ nextnode' = [nextnode EXCEPT ![back] = cur[t]]
    /\ queued' = Append(queued, cur[t])
    /\ UNCHANGED <<instr, front, back, allocated, cur, adds, handled>>

(* Slip: backnode is set for the first node only.                          *)
AddSetBackFirstOnly(t) ==
    /\ Within(t, "set_back", "done")
    /\ back' = IF back = NULL THEN cur[t] ELSE back
    /\ cur' = [cur EXCEPT ![t] = NULL]
    /\ UNCHANGED <<nextnode, instr, front, allocated, queued, adds, handled>>

AddSetBack(t) ==
    /\ Within(t, "set_back", "done")
    /\ back' = cur[t]
    /\ cur' = [cur EXCEPT ![t] = NULL]
    /\ UNCHANGED <<nextnode, instr, front, allocated, queued, adds, handled>>

(* wimp_instr_queue_pop: NULL from an empty queue, and the end of the drain *)
PopEmpty(t) ==
    /\ step[t] \in {"read", "again"}
    /\ front = NULL
    /\ Within(t, step[t], "done")
    /\ UNCHANGED <<listVars, cur, adds, handled>>

PopRead(t) ==
    /\ step[t] \in {"read", "again"}
    /\ front # NULL
    /\ Within(t, step[t], "advance")
    /\ cur' = [cur EXCEPT ![t] = front]
    /\ UNCHANGED <<listVars, adds, handled>>

PopAdvance(t) ==
    /\ Within(t, "advance", "fix_back")
    /\ front' = nextnode[cur[t]]
    /\ queued' = Tail(queued)
    /\ handled' = Append(handled, instr[cur[t]])
    /\ UNCHANGED <<nextnode, instr, back, allocated, cur, adds>>

(* Slip: backnode still points to the last node after it was popped.       *)
PopFixBackForgotten(t) ==
    /\ Within(t, "fix_back", "handle")
    /\ UNCHANGED <<listVars, cur, adds, handled>>

PopFixBack(t) ==
    /\ Within(t, "fix_back", "handle")
    /\ back' = IF front = NULL THEN NULL ELSE back
    /\ UNCHANGED <<nextnode, instr, front, allocated, queued, cur, adds, handled>>

(* Slips: the node is not freed; the drain gives up after one instruction. *)
NodeFreeForgotten(t) ==
    /\ Within(t, "handle", "again")
    /\ cur' = [cur EXCEPT ![t] = NULL]
    /\ UNCHANGED <<listVars, adds, handled>>

(* wimp_instr_node_free, once the instruction has been handled.            *)
NodeFree(t) ==
    /\ Within(t, "handle", "again")
    /\ allocated' = allocated \ {cur[t]}
    /\ cur' = [cur EXCEPT ![t] = NULL]
    /\ UNCHANGED <<nextnode, instr, front, back, queued, adds, handled>>

(* The lock and unlock around it.  A reciever comes in with an instruction *)
(* in hand; unlock is called when add has returned, or after any pop.      *)
QueueEnter(t) ==
    /\ Enter(t)
    /\ t \in Recievers => adds[t] < MaxAdds
    /\ UNCHANGED <<listVars, progVars>>

(* Slip: unlock is called in the middle of add or pop.                     *)
QueueLeaveMidPop(t) ==
    /\ Leave(t)
    /\ UNCHANGED <<listVars, progVars>>

QueueLeave(t) ==
    /\ \/ UnlockData(t) /\ step[t] \in {"done", "again"}
       \/ UnlockLowPrio(t)
    /\ step' = [step EXCEPT ![t] = FirstStep(t)]
    /\ UNCHANGED <<listVars, cur, adds, handled>>

Add(t) ==
    \/ AddAlloc(t)
    \/ AddNoMemory(t)
    \/ AddTest(t)
    \/ AddLinkFront(t)
    \/ AddLinkBack(t)
    \/ AddSetBack(t)

Pop(t) ==
    \/ PopEmpty(t)
    \/ PopRead(t)
    \/ PopAdvance(t)
    \/ PopFixBack(t)
    \/ NodeFree(t)

QueueNext == \E t \in Threads : QueueEnter(t) \/ QueueLeave(t) \/ Add(t) \/ Pop(t)

QueueSpec == QueueInit /\ [][QueueNext]_queueVars

(* The program's loop: the server's thread comes back to its queue again   *)
(* and again, and a call that has begun runs to its end, if its mutexes    *)
(* let it.                                                                 *)
FairQueueSpec ==
    /\ QueueSpec
    /\ \A t \in Threads :
        /\ WF_queueVars(LockSteps(t) /\ QueueEnter(t))
        /\ WF_queueVars(UnlockNext(t) /\ QueueEnter(t))
        /\ WF_queueVars(QueueLeave(t) \/ Add(t) \/ Pop(t))
    /\ \A t \in Mains : WF_queueVars(HighPrioCall(t) /\ QueueEnter(t))

-----------------------------------------------------------------------------
Contents == [i \in DOMAIN queued |-> instr[queued[i]]]
Fifo == INSTANCE FifoQueue WITH contents <- Contents
LastNode == queued[Len(queued)]

(* Every instruction added comes out of a pop once, in the order in which  *)
(* the recievers' add calls linked them: wimp_instruction.h 92-128.        *)
ImplementsFifo == Fifo!FifoSpec

(* The links and the two ends of the list agree with that order.           *)
ListWellFormed ==
    /\ \A i, j \in 1..Len(queued) : queued[i] = queued[j] => i = j
    /\ \A i \in 1..Len(queued) :
        /\ queued[i] \in allocated
        /\ i < Len(queued) => nextnode[queued[i]] = queued[i + 1]
    /\ IF queued = <<>> THEN front = NULL
                        ELSE front = queued[1] /\ nextnode[LastNode] = NULL
    /\ (\A t \in Threads : step[t] \notin {"set_back", "fix_back"})
        => back = IF queued = <<>> THEN NULL ELSE LastNode

(* "Ensure won't add to deallocated memory" (wimp_instruction.c 137): no   *)
(* pointer a later add or pop follows leads to a freed node.               *)
NoDanglingPointer ==
    /\ {front, back} \subseteq allocated \cup {NULL}
    /\ \A t \in Threads : step[t] = "link_back" => back \in allocated

(* A node is in the queue, or in the hands of one thread, and then not in  *)
(* the queue too; nothing else is allocated, so nothing leaks.             *)
EveryNodeHasOneOwner ==
    /\ allocated = {queued[i] : i \in DOMAIN queued}
                        \cup {cur[t] : t \in {u \in Threads : cur[u] # NULL}}
    /\ \A t, u \in Threads : cur[t] = cur[u] /\ cur[t] # NULL => t = u
    /\ \A t \in Threads :
        step[t] \in {"test", "link_front", "link_back", "fix_back", "handle"}
            => \A i \in DOMAIN queued : queued[i] # cur[t]

(* An instruction that was linked is handled, if the loop keeps running    *)
(* and the mutexes starve nobody.                                          *)
EveryInstructionHandled ==
    StarvationFree =>
        \A m \in Msgs :
            (\E i \in DOMAIN queued : instr[queued[i]] = m)
                ~> (\E i \in DOMAIN handled : handled[i] = m)
=============================================================================
