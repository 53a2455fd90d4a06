---------------------------- MODULE WaitResponse ----------------------------
(***************************************************************************)
(* wimp_server_wait_response (wimp_server.c 323-367): the server's thread  *)
(* moves instructions from the incoming queue to a queue of its own until  *)
(* one of them ends the wait, appends the rest of the incoming queue to it *)
(* and swaps the two queues, while recievers go on adding.                 *)
(*                                                                         *)
(* A WimpInstrQueue is its nodes and pointers to its three mutexes, and    *)
(* the swap exchanges both.  Each p_mutex_lock(queue->_m) is two steps:    *)
(* the pointer is read, then the mutex it led to is waited for.            *)
(***************************************************************************)
EXTENDS Naturals, Sequences

CONSTANTS
    Recievers,
    Main,       \* the thread that owns the server
    MaxAdds,    \* bound: how many instructions each reciever adds
    MaxCalls    \* bound: calls of wimp_server_wait_response

ASSUME WaitAssumption ==
    Main \notin Recievers /\ MaxAdds \in [Recievers -> Nat] /\ MaxCalls \in Nat

Threads == Recievers \cup {Main}
Mutexes == {"lowprio", "next", "data"}
Triples == 0..MaxCalls      \* the triples of mutexes that have been created
NONE == MaxCalls + 1        \* no mutex is waited for

Kinds == {"awaited", "exit", "other"}
Msgs == UNION {[from : {r}, num : 1..MaxAdds[r], kind : Kinds] : r \in Recievers}
EndsWait(m) == m.kind \in {"awaited", "exit"}

VARIABLES
    incoming,   \* server->incomingmsg
    tmpqueue,
    locked,     \* the mutexes that are locked
    freed,      \* the triples that wimp_instr_queue_free has freed
    pc,         \* the mutex a thread is about to lock or unlock, or "inside"
    asks,       \* the triple of the mutex it waits for
    adds,       \* how many instructions each reciever has added
    phase,      \* where the server's thread is in wimp_server_wait_response
    calls,      \* how often it has called it
    taken       \* history: the instructions that ended a wait

threadVars == <<pc, asks>>
waitVars == <<phase, calls, taken>>
waitResponseVars == <<incoming, tmpqueue, locked, freed, threadVars, adds, waitVars>>

Queue(triple) == [mutexes |-> triple, nodes |-> <<>>]

WaitTypeOK ==
    /\ incoming \in [mutexes : Triples, nodes : Seq(Msgs)]
    /\ tmpqueue \in [mutexes : Triples, nodes : Seq(Msgs)]
    /\ locked \subseteq Triples \X Mutexes
    /\ freed \subseteq Triples
    /\ pc \in [Threads -> {"idle", "lowprio", "next", "data", "drop_next", "inside",
                           "drop_data", "drop_lowprio"}]
    /\ asks \in [Threads -> Triples \cup {NONE}]
    /\ \A r \in Recievers : adds[r] \in 0..MaxAdds[r]
    /\ phase \in {"out", "scan", "found", "join", "free"}
    /\ calls \in 0..MaxCalls
    /\ taken \in Seq(Msgs)
    /\ phase # "out" => incoming.mutexes # tmpqueue.mutexes

WaitInit ==
    /\ incoming = Queue(0) /\ tmpqueue = Queue(0)
    /\ locked = {} /\ freed = {}
    /\ pc = [t \in Threads |-> "idle"]
    /\ asks = [t \in Threads |-> NONE]
    /\ adds = [t \in Recievers |-> 0]
    /\ phase = "out" /\ calls = 0 /\ taken = <<>>

-----------------------------------------------------------------------------
(* The lock functions, wimp_instruction.c 21-45.                           *)
Goto(t, place) == pc' = [pc EXCEPT ![t] = place]

ReadPointer(t) ==
    /\ pc[t] \in Mutexes /\ asks[t] = NONE
    /\ asks' = [asks EXCEPT ![t] = incoming.mutexes]
    /\ UNCHANGED <<incoming, tmpqueue, locked, freed, pc, adds, waitVars>>

LockMutex(t) ==
    /\ asks[t] # NONE
    /\ <<asks[t], pc[t]>> \notin locked
    /\ locked' = locked \cup {<<asks[t], pc[t]>>}
    /\ asks' = [asks EXCEPT ![t] = NONE]
    /\ Goto(t, CASE pc[t] = "lowprio" -> "next"
                 [] pc[t] = "next"    -> "data"
                 [] pc[t] = "data"    -> "drop_next")
    /\ UNCHANGED <<incoming, tmpqueue, freed, adds, waitVars>>

Unlock(m) == locked' = locked \ {<<incoming.mutexes, m>>}

UnlockNext(t) ==
    /\ pc[t] = "drop_next"
    /\ Unlock("next")
    /\ Goto(t, "inside")
    /\ UNCHANGED <<incoming, tmpqueue, freed, asks, adds, waitVars>>

EnterQueue(t) == ReadPointer(t) \/ LockMutex(t) \/ UnlockNext(t)

-----------------------------------------------------------------------------
(* A reciever: lock, wimp_instr_queue_add, unlock.                         *)
RecieverCall(t) ==
    /\ pc[t] = "idle" /\ adds[t] < MaxAdds[t]
    /\ Goto(t, "lowprio")
    /\ UNCHANGED <<incoming, tmpqueue, locked, freed, asks, adds, waitVars>>

RecieverAdd(t) ==
    /\ pc[t] = "inside"
    /\ \E k \in Kinds :
        LET m == [from |-> t, num |-> adds[t] + 1, kind |-> k]
        IN  incoming' = [incoming EXCEPT !.nodes = Append(@, m)]
    /\ adds' = [adds EXCEPT ![t] = @ + 1]
    /\ Goto(t, "drop_data")
    /\ UNCHANGED <<tmpqueue, locked, freed, asks, waitVars>>

RecieverUnlock(t) ==
    /\ \/ pc[t] = "drop_data" /\ Unlock("data") /\ Goto(t, "drop_lowprio")
       \/ pc[t] = "drop_lowprio" /\ Unlock("lowprio") /\ Goto(t, "idle")
    /\ UNCHANGED <<incoming, tmpqueue, freed, asks, adds, waitVars>>

RecieverStep(t) == EnterQueue(t) \/ RecieverCall(t) \/ RecieverAdd(t) \/ RecieverUnlock(t)

-----------------------------------------------------------------------------
(* wimp_instr_queue_add_existing, of a node that was just popped.          *)
PutAside(m) ==
    /\ incoming' = [incoming EXCEPT !.nodes = Tail(@)]
    /\ tmpqueue' = [tmpqueue EXCEPT !.nodes = Append(@, m)]

(* The call creates the temporary queue with mutexes of its own.           *)
WaitCall ==
    /\ phase = "out" /\ calls < MaxCalls
    /\ calls' = calls + 1
    /\ tmpqueue' = Queue(calls + 1)
    /\ phase' = "scan"
    /\ Goto(Main, "next")
    /\ UNCHANGED <<incoming, locked, freed, asks, adds, taken>>

(* Slip: an exit instruction does not end the wait, nor anything else.     *)
ScanPassesExit ==
    /\ pc[Main] = "inside" /\ phase = "scan"
    /\ incoming.nodes # <<>>
    /\ PutAside(Head(incoming.nodes))
    /\ UNCHANGED <<locked, freed, threadVars, adds, waitVars>>

(* One node is popped: it ends the wait, and is returned or, if it is an   *)
(* exit, freed; or wimp_instr_queue_add_existing puts it aside.            *)
Scan ==
    /\ pc[Main] = "inside" /\ phase = "scan"
    /\ incoming.nodes # <<>>
    /\ LET m == Head(incoming.nodes)
       IN  IF EndsWait(m)
           THEN /\ phase' = "found" /\ taken' = Append(taken, m)
                /\ incoming' = [incoming EXCEPT !.nodes = Tail(@)]
                /\ UNCHANGED tmpqueue
           ELSE PutAside(m) /\ UNCHANGED <<phase, taken>>
    /\ UNCHANGED <<locked, freed, threadVars, adds, calls>>

(* Slip: the queue is not locked again to be put together.                 *)
ScanUnlockOnce ==
    /\ pc[Main] = "inside"
    /\ \/ phase = "scan" /\ incoming.nodes = <<>> /\ UNCHANGED phase /\ Goto(Main, "next")
       \/ phase = "found" /\ phase' = "join" /\ UNCHANGED pc
    /\ Unlock("data")
    /\ UNCHANGED <<incoming, tmpqueue, freed, asks, adds, calls, taken>>

(* Unlock when the queue is exhausted, to lock it and look again at once,  *)
(* whatever the timeout is; or when the wait is over.                      *)
ScanUnlock ==
    /\ pc[Main] = "inside"
    /\ \/ phase = "scan" /\ incoming.nodes = <<>> /\ UNCHANGED phase
       \/ phase = "found" /\ phase' = "join"
    /\ Unlock("data")
    /\ Goto(Main, "next")
    /\ UNCHANGED <<incoming, tmpqueue, freed, asks, adds, calls, taken>>

(* wimp_instr_queue_append_queue(add, queue), one node at a time.          *)
JoinAppend ==
    /\ pc[Main] = "inside" /\ phase = "join"
    /\ incoming.nodes # <<>>
    /\ PutAside(Head(incoming.nodes))
    /\ UNCHANGED <<locked, freed, threadVars, adds, waitVars>>

(* Slip: the queues are not appended first.                                *)
JoinSwapUnappended ==
    /\ pc[Main] = "inside" /\ phase = "join"
    /\ incoming' = tmpqueue /\ tmpqueue' = incoming
    /\ Goto(Main, "drop_data")
    /\ UNCHANGED <<locked, freed, asks, adds, waitVars>>

(* wimp_instr_queue_prepend_queue: the structures are swapped whole.       *)
JoinSwap ==
    /\ pc[Main] = "inside" /\ phase = "join" /\ incoming.nodes = <<>>
    /\ incoming' = tmpqueue /\ tmpqueue' = incoming
    /\ Goto(Main, "drop_data")
    /\ UNCHANGED <<locked, freed, asks, adds, waitVars>>

(* wimp_instr_queue_high_prio_unlock now finds the other datamutex.        *)
JoinUnlock ==
    /\ pc[Main] = "drop_data"
    /\ Unlock("data")
    /\ Goto(Main, "idle")
    /\ phase' = "free"
    /\ UNCHANGED <<incoming, tmpqueue, freed, asks, adds, calls, taken>>

(* wimp_instr_queue_free(tmpqueue): what is left in it, and its mutexes.   *)
FreeTmpQueue ==
    /\ phase = "free"
    /\ freed' = freed \cup {tmpqueue.mutexes}
    /\ tmpqueue' = [tmpqueue EXCEPT !.nodes = <<>>]
    /\ phase' = "out"
    /\ UNCHANGED <<incoming, locked, threadVars, adds, calls, taken>>

MainStep ==
    \/ EnterQueue(Main)
    \/ WaitCall
    \/ Scan
    \/ ScanUnlock
    \/ JoinAppend
    \/ JoinSwap
    \/ JoinUnlock
    \/ FreeTmpQueue

-----------------------------------------------------------------------------
(* Two threads touch the links of the queue, or a thread waits for a mutex *)
(* that has been freed: from here on C promises nothing, and the model     *)
(* stops.                                                                  *)
Undefined ==
    \/ \E t, u \in Threads : t # u /\ pc[t] = "inside" /\ pc[u] = "inside"
    \/ \E t \in Threads : asks[t] \in freed

WaitNext == ~Undefined /\ (MainStep \/ \E t \in Recievers : RecieverStep(t))

WaitSpec == WaitInit /\ [][WaitNext]_waitResponseVars

(* A thread that can run does.                                             *)
FairWaitSpec ==
    /\ WaitSpec
    /\ WF_waitResponseVars(~Undefined /\ MainStep)
    /\ \A t \in Recievers : WF_waitResponseVars(~Undefined /\ RecieverStep(t))

-----------------------------------------------------------------------------
Contents == tmpqueue.nodes \o incoming.nodes
MailboxOf == INSTANCE Mailbox WITH
    Awaited <- {m \in Msgs : EndsWait(m)}, contents <- Contents

(* Whatever arrives while it scans and joins, the call takes the first     *)
(* instruction that ends the wait, and leaves the others in the order they *)
(* arrived in: none lost, none twice, none moved.                          *)
TakesFirstAwaited == MailboxOf!MailboxSpec

(* "must not be called when queue mutexes are already locked"              *)
(* (wimp_server.h 150): up to the first swap the call and the recievers    *)
(* lock each other out and no mutex is gone.                               *)
GuardedUntilSwap == incoming.mutexes = 0 => ~Undefined

(* Types, and who may touch the queue.                                     *)
WaitInv == WaitTypeOK /\ GuardedUntilSwap

(* Once the awaited instruction or an exit is there, the call returns.     *)
AwaitedEndsWait ==
    (phase = "scan" /\ \E i \in DOMAIN Contents : EndsWait(Contents[i]))
        ~> (phase = "out" \/ Undefined)

(* "as multiple threads could write need to use mutexes"                   *)
(* (wimp_instruction.h 15): the queue's mutexes guard it, wait or no wait. *)
AlwaysGuarded == ~Undefined
=============================================================================
