-------------------------- MODULE WaitResponseProofs --------------------------
(***************************************************************************)
(* wimp_server_wait_response, for any number of recievers, instructions    *)
(* and calls: the mutexes exclude up to the first swap, and whatever the   *)
(* mutexes do the call implements Mailbox.                                 *)
(***************************************************************************)
EXTENDS WaitResponse, SequenceTheorems, TLAPS

Ways == {"next", "data", "drop_next", "inside"}     \* of the server's thread, to the queue

(* Where the server's thread is in the call and in the lock functions.     *)
PhaseInv ==
    /\ phase \in {"out", "free"} => pc[Main] = "idle"
    /\ phase = "scan" => pc[Main] \in Ways
    /\ phase = "found" => pc[Main] = "inside"
    /\ phase = "join" => pc[Main] \in Ways \cup {"drop_data"}

(* A thread waits only at a mutex, and a reciever has its instruction in   *)
(* hand until it has added it.                                             *)
ThreadInv ==
    /\ \A t \in Threads : asks[t] # NONE => pc[t] \in Mutexes
    /\ adds \in [Recievers -> Nat]
    /\ \A r \in Recievers : pc[r] \in Ways \cup {"lowprio"} => adds[r] < MaxAdds[r]

(* The mutexes of the queues are those of the calls so far, and the        *)
(* temporary queue has its own until the swap.                             *)
TripleInv ==
    /\ incoming.mutexes \in 0..calls
    /\ phase \in {"scan", "found", "join"} /\ pc[Main] # "drop_data" =>
        calls > 0 /\ tmpqueue.mutexes = calls /\ incoming.mutexes < calls
    /\ phase # "out" => incoming.mutexes # tmpqueue.mutexes

(* What has been put aside is no end of the wait, and nothing is left      *)
(* aside after the swap.                                                   *)
AsideInv ==
    /\ phase = "scan" =>
        \A i \in 1..Len(tmpqueue.nodes) : ~EndsWait(tmpqueue.nodes[i])
    /\ phase \in {"out", "free"} \/ pc[Main] = "drop_data" => tmpqueue.nodes = <<>>

(* The mutexes that a thread relies on.                                    *)
Holds(t, m) ==
    \/ m = "lowprio" /\ t \in Recievers /\ pc[t] \notin {"idle", "lowprio"}
    \/ m = "next" /\ pc[t] \in {"data", "drop_next"}
    \/ m = "data" /\ pc[t] \in {"drop_next", "inside", "drop_data"}

(* Before the first swap there is one triple of mutexes that anyone waits  *)
(* for, and each of its mutexes is relied on by one thread at most.        *)
GuardInv ==
    incoming.mutexes = 0 =>
        /\ freed = {}
        /\ phase # "free" /\ pc[Main] # "drop_data"
        /\ \A t \in Threads : asks[t] \in {0, NONE}
        /\ \A t \in Threads, m \in Mutexes : Holds(t, m) => <<0, m>> \in locked
        /\ \A t, u \in Threads, m \in Mutexes : Holds(t, m) /\ Holds(u, m) => t = u

CallInv ==
    /\ WaitTypeOK
    /\ PhaseInv
    /\ ThreadInv
    /\ TripleInv
    /\ AsideInv
    /\ GuardInv

-----------------------------------------------------------------------------
LEMMA CallInitInv == WaitInit => CallInv
<1> SUFFICES ASSUME WaitInit PROVE CallInv
  OBVIOUS
<1> USE WaitAssumption
        DEF WaitInit, Queue, WaitTypeOK, PhaseInv, ThreadInv, TripleInv, AsideInv, GuardInv, Holds,
            Threads, Triples, NONE, Ways
<1>1. WaitTypeOK
  <2>1. 0 \in Triples /\ calls \in 0..MaxCalls /\ <<>> \in Seq(Msgs)
    OBVIOUS
  <2>2. Queue(0) \in [mutexes : Triples, nodes : Seq(Msgs)]
    BY <2>1
  <2>3. \A r \in Recievers : adds[r] \in 0..MaxAdds[r]
    OBVIOUS
  <2> QED
    BY <2>1, <2>2, <2>3
<1>2. PhaseInv /\ ThreadInv /\ TripleInv /\ AsideInv
  OBVIOUS
<1>3. GuardInv
  OBVIOUS
<1> QED
  BY <1>1, <1>2, <1>3 DEF CallInv

-----------------------------------------------------------------------------
(* The lock functions.                                                     *)
LEMMA ReadPointerInv ==
    ASSUME CallInv, NEW t \in Threads, ReadPointer(t)
    PROVE  CallInv'
<1> USE WaitAssumption DEF CallInv, ReadPointer, waitVars
<1>1. incoming.mutexes \in Triples
  BY DEF WaitTypeOK
<1>2. \A u \in Threads : asks'[u] = IF u = t THEN incoming.mutexes ELSE asks[u]
  BY DEF WaitTypeOK
<1>3. WaitTypeOK'
  BY <1>1 DEF WaitTypeOK
<1>4. PhaseInv' /\ TripleInv' /\ AsideInv'
  BY DEF PhaseInv, TripleInv, AsideInv
<1>5. ThreadInv'
  BY <1>2 DEF ThreadInv
<1>6. GuardInv'
  BY <1>2 DEF GuardInv, Holds
<1> QED
  BY <1>3, <1>4, <1>5, <1>6

LEMMA LockMutexInv ==
    ASSUME CallInv, NEW t \in Threads, LockMutex(t)
    PROVE  CallInv'
<1> DEFINE to == CASE pc[t] = "lowprio" -> "next"
                   [] pc[t] = "next"    -> "data"
                   [] pc[t] = "data"    -> "drop_next"
<1>1. /\ asks[t] # NONE /\ <<asks[t], pc[t]>> \notin locked
      /\ locked' = locked \cup {<<asks[t], pc[t]>>}
      /\ asks' = [asks EXCEPT ![t] = NONE]
      /\ pc' = [pc EXCEPT ![t] = to]
      /\ UNCHANGED <<incoming, tmpqueue, freed, adds, waitVars>>
  BY DEF LockMutex, Goto
<1>2. pc[t] \in Mutexes /\ asks[t] \in Triples
  BY <1>1 DEF CallInv, ThreadInv, WaitTypeOK
<1>3. /\ pc[t] = "lowprio" => to = "next"
      /\ pc[t] = "next" => to = "data"
      /\ pc[t] = "data" => to = "drop_next"
      /\ to \in {"next", "data", "drop_next"}
  BY <1>2 DEF Mutexes
<1> HIDE DEF to
<1> USE WaitAssumption DEF CallInv
<1>4. /\ pc'[t] = to /\ asks'[t] = NONE
      /\ \A u \in Threads : u # t => pc'[u] = pc[u] /\ asks'[u] = asks[u]
  BY <1>1 DEF WaitTypeOK
<1>5. WaitTypeOK'
  BY <1>1, <1>2, <1>3 DEF WaitTypeOK, waitVars
<1>6. Main \in Threads /\ Recievers \subseteq Threads /\ Main \notin Recievers
  BY DEF Threads
<1>7. PhaseInv'
  BY <1>1, <1>2, <1>3, <1>4, <1>6 DEF PhaseInv, Ways, Mutexes, waitVars
<1>8. ThreadInv'
  BY <1>1, <1>2, <1>3, <1>4, <1>6 DEF ThreadInv, Ways, Mutexes, waitVars
<1>9. TripleInv' /\ AsideInv'
  BY <1>1, <1>2, <1>3, <1>4, <1>6 DEF TripleInv, AsideInv, Mutexes, waitVars
<1>10. GuardInv'
  <2> SUFFICES ASSUME incoming.mutexes = 0
               PROVE  /\ pc'[Main] # "drop_data"
                      /\ \A u \in Threads : asks'[u] \in {0, NONE}
                      /\ \A u \in Threads, m \in Mutexes : Holds(u, m)' => <<0, m>> \in locked'
                      /\ \A u, v \in Threads, m \in Mutexes : Holds(u, m)' /\ Holds(v, m)' => u = v
    BY <1>1 DEF GuardInv, waitVars
  <2>1. pc'[Main] # "drop_data" /\ \A u \in Threads : asks'[u] \in {0, NONE}
    BY <1>3, <1>4, <1>6 DEF GuardInv
  <2>2. asks[t] = 0
    BY <1>1 DEF GuardInv
  <2>3. \A u \in Threads : ~Holds(u, pc[t])
    BY <1>1, <1>2, <2>2 DEF GuardInv
  <2>4. \A u \in Threads, m \in Mutexes : Holds(u, m)' => Holds(u, m) \/ (u = t /\ m = pc[t])
    BY <1>2, <1>3, <1>4 DEF Holds, Mutexes
  <2> QED
    BY <1>1, <2>1, <2>2, <2>3, <2>4 DEF GuardInv
<1> QED
  BY <1>5, <1>7, <1>8, <1>9, <1>10

(* A thread that lets go of a mutex, as far as the mutexes matter.         *)
LEMMA GuardKept ==
    ASSUME CallInv, NEW t \in Threads,
           UNCHANGED <<freed, asks>>, incoming'.mutexes = incoming.mutexes,
           incoming.mutexes = 0 => phase' # "free" /\ pc'[Main] # "drop_data",
           \A u \in Threads : u # t => pc'[u] = pc[u],
           \A m \in Mutexes : Holds(t, m)' => Holds(t, m),
           \/ locked' = locked
           \/ \E m \in Mutexes : /\ locked' = locked \ {<<incoming.mutexes, m>>}
                                 /\ Holds(t, m) /\ ~Holds(t, m)'
    PROVE  GuardInv'
<1> SUFFICES ASSUME incoming.mutexes = 0
             PROVE  /\ \A u \in Threads, m \in Mutexes : Holds(u, m)' => <<0, m>> \in locked'
                    /\ \A u, v \in Threads, m \in Mutexes : Holds(u, m)' /\ Holds(v, m)' => u = v
  BY DEF CallInv, GuardInv
<1>1. \A u \in Threads, m \in Mutexes : Holds(u, m)' => Holds(u, m)
  BY DEF Holds
<1>2. \A u, v \in Threads, m \in Mutexes : Holds(u, m) /\ Holds(v, m) => u = v
  BY DEF CallInv, GuardInv
<1>3. \A u \in Threads, m \in Mutexes : Holds(u, m) => <<0, m>> \in locked
  BY DEF CallInv, GuardInv
<1> QED
  BY <1>1, <1>2, <1>3

LEMMA UnlockNextInv ==
    ASSUME CallInv, NEW t \in Threads, UnlockNext(t)
    PROVE  CallInv'
<1>1. /\ pc[t] = "drop_next"
      /\ locked' = locked \ {<<incoming.mutexes, "next">>}
      /\ pc' = [pc EXCEPT ![t] = "inside"]
      /\ UNCHANGED <<incoming, tmpqueue, freed, asks, adds, waitVars>>
  BY DEF UnlockNext, Unlock, Goto
<1> USE WaitAssumption DEF CallInv
<1>2. /\ pc'[t] = "inside"
      /\ \A u \in Threads : u # t => pc'[u] = pc[u]
  BY <1>1 DEF WaitTypeOK
<1>3. Main \in Threads /\ Recievers \subseteq Threads /\ Main \notin Recievers
  BY DEF Threads
<1>4. WaitTypeOK'
  BY <1>1 DEF WaitTypeOK, waitVars
<1>5. PhaseInv' /\ ThreadInv'
  BY <1>1, <1>2, <1>3 DEF PhaseInv, ThreadInv, Ways, Mutexes, waitVars
<1>6. TripleInv' /\ AsideInv'
  BY <1>1, <1>2, <1>3 DEF TripleInv, AsideInv, waitVars
<1>7. GuardInv'
  <2>1. Holds(t, "next") /\ ~Holds(t, "next")' /\ \A m \in Mutexes : Holds(t, m)' => Holds(t, m)
    BY <1>1, <1>2 DEF Holds, Mutexes
  <2>2. incoming.mutexes = 0 => phase' # "free" /\ pc'[Main] # "drop_data"
    BY <1>1, <1>2, <1>3 DEF GuardInv, waitVars
  <2>3. "next" \in Mutexes
    BY DEF Mutexes
  <2> QED
    BY <1>1, <1>2, <2>1, <2>2, <2>3, GuardKept
<1> QED
  BY <1>4, <1>5, <1>6, <1>7

-----------------------------------------------------------------------------
(* The recievers.                                                          *)
LEMMA RecieverCallInv ==
    ASSUME CallInv, NEW t \in Recievers, RecieverCall(t)
    PROVE  CallInv'
<1>1. /\ pc[t] = "idle" /\ adds[t] < MaxAdds[t]
      /\ pc' = [pc EXCEPT ![t] = "lowprio"]
      /\ UNCHANGED <<incoming, tmpqueue, locked, freed, asks, adds, waitVars>>
  BY DEF RecieverCall, Goto
<1> USE WaitAssumption DEF CallInv
<1>2. t \in Threads /\ Main \in Threads /\ Recievers \subseteq Threads /\ t # Main
  BY DEF Threads
<1>3. /\ pc'[t] = "lowprio"
      /\ \A u \in Threads : u # t => pc'[u] = pc[u]
  BY <1>1, <1>2 DEF WaitTypeOK
<1>4. WaitTypeOK'
  BY <1>1 DEF WaitTypeOK, waitVars
<1>5. PhaseInv' /\ ThreadInv' /\ TripleInv' /\ AsideInv'
  BY <1>1, <1>2, <1>3 DEF PhaseInv, ThreadInv, TripleInv, AsideInv, Mutexes, waitVars
<1>6. GuardInv'
  <2>1. \A m \in Mutexes : Holds(t, m)' => Holds(t, m)
    BY <1>3 DEF Holds, Mutexes
  <2>2. incoming.mutexes = 0 => phase' # "free" /\ pc'[Main] # "drop_data"
    BY <1>1, <1>2, <1>3 DEF GuardInv, waitVars
  <2> QED
    BY <1>1, <1>2, <1>3, <2>1, <2>2, GuardKept
<1> QED
  BY <1>4, <1>5, <1>6

LEMMA RecieverAddInv ==
    ASSUME CallInv, NEW t \in Recievers, RecieverAdd(t)
    PROVE  CallInv'
<1>1. PICK k \in Kinds :
        incoming' = [incoming EXCEPT !.nodes = Append(@, [from |-> t, num |-> adds[t] + 1, kind |-> k])]
  BY DEF RecieverAdd
<1> DEFINE m == [from |-> t, num |-> adds[t] + 1, kind |-> k]
<1>2. /\ pc[t] = "inside"
      /\ adds' = [adds EXCEPT ![t] = @ + 1]
      /\ pc' = [pc EXCEPT ![t] = "drop_data"]
      /\ UNCHANGED <<tmpqueue, locked, freed, asks, waitVars>>
  BY DEF RecieverAdd, Goto
<1> USE WaitAssumption DEF CallInv
<1>3. t \in Threads /\ Main \in Threads /\ Recievers \subseteq Threads /\ t # Main
  BY DEF Threads
<1>4. /\ pc'[t] = "drop_data"
      /\ \A u \in Threads : u # t => pc'[u] = pc[u]
  BY <1>2, <1>3 DEF WaitTypeOK
<1>5. adds[t] \in Nat /\ MaxAdds[t] \in Nat /\ adds[t] < MaxAdds[t]
  BY <1>2 DEF ThreadInv, Ways
<1>6. m \in Msgs
  BY <1>1, <1>5 DEF Msgs
<1> HIDE DEF m
<1>7. /\ incoming'.mutexes = incoming.mutexes
      /\ incoming' \in [mutexes : Triples, nodes : Seq(Msgs)]
  <2>1. incoming.nodes \in Seq(Msgs) /\ Append(incoming.nodes, m) \in Seq(Msgs)
    BY <1>6, AppendProperties DEF WaitTypeOK
  <2>2. incoming' = [incoming EXCEPT !.nodes = Append(@, m)]
    BY <1>1 DEF m
  <2> QED
    BY <2>1, <2>2 DEF WaitTypeOK
<1>8. /\ adds'[t] = adds[t] + 1
      /\ adds' \in [Recievers -> Nat]
      /\ \A r \in Recievers : r # t => adds'[r] = adds[r]
  BY <1>2, <1>5 DEF ThreadInv
<1>9. WaitTypeOK'
  <2>1. \A r \in Recievers : adds'[r] \in 0..MaxAdds[r]
    <3>1. ASSUME NEW r \in Recievers, r # t PROVE adds'[r] \in 0..MaxAdds[r]
      BY <1>8, <3>1 DEF WaitTypeOK
    <3>2. adds'[t] \in 0..MaxAdds[t]
      BY <1>5, <1>8
    <3> QED
      BY <3>1, <3>2
  <2> QED
    BY <1>2, <1>7, <2>1 DEF WaitTypeOK, waitVars
<1>10. PhaseInv' /\ TripleInv' /\ AsideInv'
  BY <1>2, <1>3, <1>4, <1>7 DEF PhaseInv, TripleInv, AsideInv, waitVars
<1>11. ThreadInv'
  BY <1>2, <1>3, <1>4, <1>8 DEF ThreadInv, Ways, Mutexes
<1>12. GuardInv'
  <2>1. \A n \in Mutexes : Holds(t, n)' => Holds(t, n)
    BY <1>2, <1>4 DEF Holds, Mutexes
  <2>2. incoming.mutexes = 0 => phase' # "free" /\ pc'[Main] # "drop_data"
    BY <1>2, <1>3, <1>4 DEF GuardInv, waitVars
  <2> QED
    BY <1>2, <1>3, <1>4, <1>7, <2>1, <2>2, GuardKept
<1> QED
  BY <1>9, <1>10, <1>11, <1>12

LEMMA RecieverUnlockInv ==
    ASSUME CallInv, NEW t \in Recievers, RecieverUnlock(t)
    PROVE  CallInv'
<1>1. PICK m \in Mutexes, to \in {"drop_lowprio", "idle"} :
        /\ \/ pc[t] = "drop_data" /\ m = "data" /\ to = "drop_lowprio"
           \/ pc[t] = "drop_lowprio" /\ m = "lowprio" /\ to = "idle"
        /\ locked' = locked \ {<<incoming.mutexes, m>>}
        /\ pc' = [pc EXCEPT ![t] = to]
        /\ UNCHANGED <<incoming, tmpqueue, freed, asks, adds, waitVars>>
  BY DEF RecieverUnlock, Unlock, Goto, Mutexes
<1> USE WaitAssumption DEF CallInv
<1>2. t \in Threads /\ Main \in Threads /\ Recievers \subseteq Threads /\ t # Main
  BY DEF Threads
<1>3. /\ pc'[t] = to
      /\ \A u \in Threads : u # t => pc'[u] = pc[u]
  BY <1>1, <1>2 DEF WaitTypeOK
<1>4. WaitTypeOK'
  BY <1>1 DEF WaitTypeOK, waitVars
<1>5. PhaseInv' /\ ThreadInv' /\ TripleInv' /\ AsideInv'
  BY <1>1, <1>2, <1>3 DEF PhaseInv, ThreadInv, TripleInv, AsideInv, Ways, Mutexes, waitVars
<1>6. GuardInv'
  <2>1. Holds(t, m) /\ ~Holds(t, m)' /\ \A n \in Mutexes : Holds(t, n)' => Holds(t, n)
    BY <1>1, <1>3 DEF Holds, Mutexes
  <2>2. incoming.mutexes = 0 => phase' # "free" /\ pc'[Main] # "drop_data"
    BY <1>1, <1>2, <1>3 DEF GuardInv, waitVars
  <2> QED
    BY <1>1, <1>2, <1>3, <2>1, <2>2, GuardKept
<1> QED
  BY <1>4, <1>5, <1>6

-----------------------------------------------------------------------------
(* The server's thread.                                                    *)
LEMMA WaitCallInv ==
    ASSUME CallInv, WaitCall
    PROVE  CallInv'
<1>1. /\ phase = "out" /\ calls < MaxCalls
      /\ calls' = calls + 1
      /\ tmpqueue' = [mutexes |-> calls + 1, nodes |-> <<>>]
      /\ phase' = "scan"
      /\ pc' = [pc EXCEPT ![Main] = "next"]
      /\ UNCHANGED <<incoming, locked, freed, asks, adds, taken>>
  BY DEF WaitCall, Queue, Goto
<1> USE WaitAssumption DEF CallInv
<1>2. Main \in Threads /\ Recievers \subseteq Threads /\ Main \notin Recievers
  BY DEF Threads
<1>3. /\ pc[Main] = "idle" /\ pc'[Main] = "next"
      /\ \A u \in Threads : u # Main => pc'[u] = pc[u]
  BY <1>1, <1>2 DEF WaitTypeOK, PhaseInv
<1>4. /\ calls \in Nat /\ calls' \in 0..MaxCalls
      /\ incoming.mutexes \in 0..calls
  BY <1>1 DEF WaitTypeOK, TripleInv
<1>5. tmpqueue' \in [mutexes : Triples, nodes : Seq(Msgs)] /\ tmpqueue'.mutexes = calls + 1
  <2>1. <<>> \in Seq(Msgs) /\ calls + 1 \in Triples
    BY <1>1, <1>4, EmptySeq DEF Triples
  <2> QED
    BY <1>1, <2>1
<1>6. WaitTypeOK'
  <2>1. incoming'.mutexes # tmpqueue'.mutexes
    BY <1>1, <1>4, <1>5
  <2>2. pc' \in [Threads -> {"idle", "lowprio", "next", "data", "drop_next", "inside",
                            "drop_data", "drop_lowprio"}]
    BY <1>1 DEF WaitTypeOK
  <2>3. phase' \in {"out", "scan", "found", "join", "free"}
    BY <1>1
  <2> QED
    BY <1>1, <1>4, <1>5, <2>1, <2>2, <2>3 DEF WaitTypeOK
<1>7. PhaseInv' /\ ThreadInv'
  BY <1>1, <1>2, <1>3 DEF PhaseInv, ThreadInv, Ways, Mutexes
<1>8. TripleInv'
  BY <1>1, <1>3, <1>4, <1>5 DEF TripleInv
<1>9. AsideInv'
  BY <1>1, <1>3 DEF AsideInv
<1>10. GuardInv'
  <2>1. \A m \in Mutexes : Holds(Main, m)' => Holds(Main, m)
    BY <1>2, <1>3 DEF Holds, Mutexes
  <2> QED
    BY <1>1, <1>2, <1>3, <2>1, GuardKept
<1> QED
  BY <1>6, <1>7, <1>8, <1>9, <1>10

(* The steps that take the first node off the incoming queue.              *)
LEMMA PopType ==
    ASSUME CallInv, incoming.nodes # <<>>
    PROVE  /\ Head(incoming.nodes) \in Msgs
           /\ [incoming EXCEPT !.nodes = Tail(@)] \in [mutexes : Triples, nodes : Seq(Msgs)]
           /\ [tmpqueue EXCEPT !.nodes = Append(@, Head(incoming.nodes))]
                \in [mutexes : Triples, nodes : Seq(Msgs)]
<1>1. incoming.nodes \in Seq(Msgs) /\ tmpqueue.nodes \in Seq(Msgs)
  BY DEF CallInv, WaitTypeOK
<1>2. Head(incoming.nodes) \in Msgs /\ Tail(incoming.nodes) \in Seq(Msgs)
  BY <1>1, HeadTailProperties
<1>3. Append(tmpqueue.nodes, Head(incoming.nodes)) \in Seq(Msgs)
  BY <1>1, <1>2, AppendProperties
<1> QED
  BY <1>2, <1>3 DEF CallInv, WaitTypeOK

(* A step of the server's thread between lock and unlock that keeps to the *)
(* nodes of the two queues.                                                *)
LEMMA NodesMoved ==
    ASSUME CallInv, pc[Main] = "inside", phase \in {"scan", "join"},
           incoming'.mutexes = incoming.mutexes, tmpqueue'.mutexes = tmpqueue.mutexes,
           phase' \in {phase, "found"},
           UNCHANGED <<locked, freed, pc, asks, adds, calls>>,
           WaitTypeOK', AsideInv'
    PROVE  CallInv'
<1>1. PhaseInv' /\ ThreadInv' /\ TripleInv'
  BY DEF CallInv, PhaseInv, ThreadInv, TripleInv, Ways
<1>2. GuardInv'
  BY DEF CallInv, GuardInv, Holds
<1> QED
  BY <1>1, <1>2 DEF CallInv

LEMMA PutAsideInv ==
    ASSUME CallInv, pc[Main] = "inside", phase \in {"scan", "join"},
           incoming.nodes # <<>>,
           PutAside(Head(incoming.nodes)),
           phase = "scan" => ~EndsWait(Head(incoming.nodes)),
           UNCHANGED <<locked, freed, pc, asks, adds, phase, calls, taken>>
    PROVE  CallInv'
<1>1. /\ incoming' = [incoming EXCEPT !.nodes = Tail(@)]
      /\ tmpqueue' = [tmpqueue EXCEPT !.nodes = Append(@, Head(incoming.nodes))]
  BY DEF PutAside
<1>2. /\ incoming'.mutexes = incoming.mutexes /\ tmpqueue'.mutexes = tmpqueue.mutexes
      /\ tmpqueue'.nodes = Append(tmpqueue.nodes, Head(incoming.nodes))
      /\ tmpqueue.nodes \in Seq(Msgs) /\ Head(incoming.nodes) \in Msgs
  BY <1>1, PopType DEF CallInv, WaitTypeOK
<1>3. WaitTypeOK'
  BY <1>1, <1>2, PopType DEF CallInv, WaitTypeOK
<1>4. AsideInv'
  <2>1. /\ Len(tmpqueue'.nodes) = Len(tmpqueue.nodes) + 1 /\ Len(tmpqueue.nodes) \in Nat
        /\ \A i \in 1..Len(tmpqueue.nodes) : tmpqueue'.nodes[i] = tmpqueue.nodes[i]
        /\ tmpqueue'.nodes[Len(tmpqueue.nodes) + 1] = Head(incoming.nodes)
    BY <1>2, AppendProperties, LenProperties
  <2>2. phase = "scan" =>
          \A i \in 1..Len(tmpqueue'.nodes) : ~EndsWait(tmpqueue'.nodes[i])
    <3> SUFFICES ASSUME phase = "scan", NEW i \in 1..Len(tmpqueue'.nodes)
                 PROVE  ~EndsWait(tmpqueue'.nodes[i])
      OBVIOUS
    <3>1. CASE i = Len(tmpqueue.nodes) + 1
      BY <2>1, <3>1
    <3>2. CASE i # Len(tmpqueue.nodes) + 1
      <4>1. i \in 1..Len(tmpqueue.nodes)
        BY <2>1, <3>2
      <4> QED
        BY <2>1, <4>1 DEF CallInv, AsideInv
    <3> QED
      BY <3>1, <3>2
  <2> QED
    BY <2>2 DEF AsideInv, CallInv
<1> QED
  BY <1>2, <1>3, <1>4, NodesMoved

LEMMA ScanInv ==
    ASSUME CallInv, Scan
    PROVE  CallInv'
<1> DEFINE m == Head(incoming.nodes)
<1>1. /\ pc[Main] = "inside" /\ phase = "scan" /\ incoming.nodes # <<>>
      /\ UNCHANGED <<locked, freed, pc, asks, adds, calls>>
  BY DEF Scan, threadVars
<1>2. CASE EndsWait(m)
  <2>1. /\ phase' = "found" /\ taken' = Append(taken, m)
        /\ incoming' = [incoming EXCEPT !.nodes = Tail(@)]
        /\ tmpqueue' = tmpqueue
    BY <1>2 DEF Scan
  <2>2. taken' \in Seq(Msgs)
    BY <1>1, <2>1, PopType, AppendProperties DEF CallInv, WaitTypeOK
  <2>3. incoming'.mutexes = incoming.mutexes
    BY <2>1 DEF CallInv, WaitTypeOK
  <2>4. WaitTypeOK'
    BY <1>1, <2>1, <2>2, <2>3, PopType DEF CallInv, WaitTypeOK
  <2>5. AsideInv'
    BY <1>1, <2>1 DEF AsideInv
  <2> QED
    BY <1>1, <2>1, <2>3, <2>4, <2>5, NodesMoved
<1>3. CASE ~EndsWait(m)
  BY <1>1, <1>3, PutAsideInv DEF Scan
<1> QED
  BY <1>2, <1>3

LEMMA ScanUnlockInv ==
    ASSUME CallInv, ScanUnlock
    PROVE  CallInv'
<1>1. /\ pc[Main] = "inside"
      /\ \/ phase = "scan" /\ phase' = "scan"
         \/ phase = "found" /\ phase' = "join"
      /\ locked' = locked \ {<<incoming.mutexes, "data">>}
      /\ pc' = [pc EXCEPT ![Main] = "next"]
      /\ UNCHANGED <<incoming, tmpqueue, freed, asks, adds, calls, taken>>
  BY DEF ScanUnlock, Unlock, Goto
<1> USE WaitAssumption DEF CallInv
<1>2. Main \in Threads /\ Recievers \subseteq Threads /\ Main \notin Recievers
  BY DEF Threads
<1>3. /\ pc'[Main] = "next"
      /\ \A u \in Threads : u # Main => pc'[u] = pc[u]
  BY <1>1, <1>2 DEF WaitTypeOK
<1>4. WaitTypeOK'
  BY <1>1 DEF WaitTypeOK
<1>5. PhaseInv' /\ ThreadInv' /\ TripleInv' /\ AsideInv'
  BY <1>1, <1>2, <1>3 DEF PhaseInv, ThreadInv, TripleInv, AsideInv, Ways, Mutexes
<1>6. GuardInv'
  <2>1. Holds(Main, "data") /\ ~Holds(Main, "data")' /\ "data" \in Mutexes
    BY <1>1, <1>3 DEF Holds, Mutexes
  <2>2. \A m \in Mutexes : Holds(Main, m)' => Holds(Main, m)
    BY <1>1, <1>2, <1>3 DEF Holds, Mutexes
  <2> QED
    BY <1>1, <1>2, <1>3, <2>1, <2>2, GuardKept
<1> QED
  BY <1>4, <1>5, <1>6

LEMMA JoinAppendInv ==
    ASSUME CallInv, JoinAppend
    PROVE  CallInv'
BY PutAsideInv DEF JoinAppend, threadVars, waitVars

(* The swap puts the mutexes of the call in the place of the old ones, for *)
(* good.                                                                   *)
LEMMA JoinSwapInv ==
    ASSUME CallInv, JoinSwap
    PROVE  CallInv'
<1>1. /\ pc[Main] = "inside" /\ phase = "join" /\ incoming.nodes = <<>>
      /\ incoming' = tmpqueue /\ tmpqueue' = incoming
      /\ pc' = [pc EXCEPT ![Main] = "drop_data"]
      /\ UNCHANGED <<locked, freed, asks, adds, waitVars>>
  BY DEF JoinSwap, Goto
<1> USE WaitAssumption DEF CallInv
<1>2. Main \in Threads /\ Recievers \subseteq Threads /\ Main \notin Recievers
  BY DEF Threads
<1>3. /\ pc'[Main] = "drop_data"
      /\ \A u \in Threads : u # Main => pc'[u] = pc[u]
  BY <1>1, <1>2 DEF WaitTypeOK
<1>4. WaitTypeOK'
  BY <1>1 DEF WaitTypeOK, waitVars
<1>5. PhaseInv' /\ ThreadInv' /\ AsideInv'
  BY <1>1, <1>2, <1>3 DEF PhaseInv, ThreadInv, AsideInv, Ways, Mutexes, waitVars
<1>6. incoming'.mutexes \in 1..calls
  BY <1>1 DEF TripleInv, WaitTypeOK
<1>7. TripleInv'
  BY <1>1, <1>3, <1>6 DEF TripleInv, waitVars
<1>8. GuardInv'
  BY <1>6 DEF GuardInv
<1> QED
  BY <1>4, <1>5, <1>7, <1>8

LEMMA JoinUnlockInv ==
    ASSUME CallInv, JoinUnlock
    PROVE  CallInv'
<1>1. /\ pc[Main] = "drop_data"
      /\ phase' = "free"
      /\ locked' = locked \ {<<incoming.mutexes, "data">>}
      /\ pc' = [pc EXCEPT ![Main] = "idle"]
      /\ UNCHANGED <<incoming, tmpqueue, freed, asks, adds, calls, taken>>
  BY DEF JoinUnlock, Unlock, Goto
<1> USE WaitAssumption DEF CallInv
<1>2. Main \in Threads /\ Recievers \subseteq Threads /\ Main \notin Recievers
  BY DEF Threads
<1>3. /\ phase # "out"
      /\ pc'[Main] = "idle"
      /\ \A u \in Threads : u # Main => pc'[u] = pc[u]
  BY <1>1, <1>2 DEF WaitTypeOK, PhaseInv
<1>4. WaitTypeOK'
  BY <1>1, <1>3 DEF WaitTypeOK
<1>5. PhaseInv' /\ ThreadInv' /\ TripleInv' /\ AsideInv'
  BY <1>1, <1>2, <1>3 DEF PhaseInv, ThreadInv, TripleInv, AsideInv, Ways, Mutexes
<1>6. GuardInv'
  BY <1>1 DEF GuardInv
<1> QED
  BY <1>4, <1>5, <1>6

LEMMA FreeTmpQueueInv ==
    ASSUME CallInv, FreeTmpQueue
    PROVE  CallInv'
<1>1. /\ phase = "free" /\ phase' = "out"
      /\ freed' = freed \cup {tmpqueue.mutexes}
      /\ tmpqueue' = [tmpqueue EXCEPT !.nodes = <<>>]
      /\ UNCHANGED <<incoming, locked, pc, asks, adds, calls, taken>>
  BY DEF FreeTmpQueue, threadVars
<1> USE DEF CallInv
<1>2. tmpqueue' \in [mutexes : Triples, nodes : Seq(Msgs)] /\ tmpqueue'.nodes = <<>>
  BY <1>1, EmptySeq DEF WaitTypeOK
<1>3. WaitTypeOK'
  BY <1>1, <1>2 DEF WaitTypeOK
<1>4. PhaseInv' /\ ThreadInv' /\ TripleInv' /\ AsideInv'
  BY <1>1, <1>2 DEF PhaseInv, ThreadInv, TripleInv, AsideInv
<1>5. GuardInv'
  BY <1>1 DEF GuardInv
<1> QED
  BY <1>3, <1>4, <1>5

-----------------------------------------------------------------------------
LEMMA CallStepInv == CallInv /\ [WaitNext]_waitResponseVars => CallInv'
<1> SUFFICES ASSUME CallInv, [WaitNext]_waitResponseVars PROVE CallInv'
  OBVIOUS
<1>1. ASSUME NEW t \in Threads, EnterQueue(t) PROVE CallInv'
  BY <1>1, ReadPointerInv, LockMutexInv, UnlockNextInv DEF EnterQueue
<1>2. ASSUME NEW t \in Recievers, RecieverStep(t) PROVE CallInv'
  BY <1>1, <1>2, RecieverCallInv, RecieverAddInv, RecieverUnlockInv DEF RecieverStep, Threads
<1>3. CASE MainStep
  BY <1>1, <1>3, WaitCallInv, ScanInv, ScanUnlockInv, JoinAppendInv, JoinSwapInv, JoinUnlockInv,
     FreeTmpQueueInv
  DEF MainStep, Threads
<1>4. CASE UNCHANGED waitResponseVars
  BY <1>4
  DEF waitResponseVars, threadVars, waitVars, CallInv, WaitTypeOK, PhaseInv, ThreadInv, TripleInv,
      AsideInv, GuardInv, Holds
<1> QED
  BY <1>2, <1>3, <1>4 DEF WaitNext

LEMMA CallInvariant == WaitSpec => []CallInv
  BY CallInitInv, CallStepInv, PTL DEF WaitSpec

(* The types are kept, and up to the first swap the call and the recievers *)
(* lock each other out and nobody waits for a mutex that is gone.          *)
THEOREM WaitCorrect == WaitSpec => []WaitInv
<1>1. CallInv => WaitInv
  BY DEF CallInv, WaitInv, GuardedUntilSwap, GuardInv, Undefined, Holds, Mutexes, NONE
<1> QED
  BY <1>1, CallInvariant, PTL

-----------------------------------------------------------------------------
(* The sequences of the refinement: one node moved from the head of one    *)
(* queue to the tail of the other, one added behind both, one taken from   *)
(* between them.                                                           *)
LEMMA MoveOne ==
    ASSUME NEW S, NEW s \in Seq(S), NEW t \in Seq(S), t # <<>>
    PROVE  Append(s, Head(t)) \o Tail(t) = s \o t
<1>1. Head(t) \in S /\ Tail(t) \in Seq(S) /\ <<Head(t)>> \in Seq(S)
  BY HeadTailProperties
<1>2. Append(s, Head(t)) = s \o <<Head(t)>>
  BY <1>1, AppendIsConcat
<1>3. (s \o <<Head(t)>>) \o Tail(t) = s \o (<<Head(t)>> \o Tail(t))
  BY <1>1, ConcatAssociative
<1>4. <<Head(t)>> \o Tail(t) = t
  OBVIOUS
<1> QED
  BY <1>2, <1>3, <1>4

LEMMA AddBehind ==
    ASSUME NEW S, NEW s \in Seq(S), NEW t \in Seq(S), NEW m \in S
    PROVE  s \o Append(t, m) = Append(s \o t, m)
<1>1. s \o t \in Seq(S) /\ <<m>> \in Seq(S)
  BY ConcatProperties
<1>2. Append(t, m) = t \o <<m>> /\ Append(s \o t, m) = (s \o t) \o <<m>>
  BY <1>1, AppendIsConcat
<1> QED
  BY <1>1, <1>2, ConcatAssociative

LEMMA TakeBetween ==
    ASSUME NEW S, NEW s \in Seq(S), NEW t \in Seq(S), t # <<>>
    PROVE  LET i == Len(s) + 1
           IN  /\ i \in DOMAIN (s \o t)
               /\ (s \o t)[i] = Head(t)
               /\ \A j \in 1..(i - 1) : (s \o t)[j] = s[j]
               /\ s \o Tail(t) = MailboxOf!RemoveAt(s \o t, i)
<1> DEFINE i == Len(s) + 1
           c == s \o t
<1>1. /\ Len(s) \in Nat /\ Len(t) \in Nat \ {0} /\ i \in 1..Len(c)
      /\ c \in Seq(S) /\ Len(c) = Len(s) + Len(t)
      /\ \A j \in 1..Len(c) : c[j] = IF j <= Len(s) THEN s[j] ELSE t[j - Len(s)]
  BY ConcatProperties, LenProperties, EmptySeq
<1> HIDE DEF c
<1>2. c[i] = Head(t) /\ \A j \in 1..(i - 1) : c[j] = s[j]
  BY <1>1
<1>3. SubSeq(c, 1, i - 1) = s
  <2>1. /\ SubSeq(c, 1, i - 1) \in Seq(S)
        /\ Len(SubSeq(c, 1, i - 1)) = Len(s)
        /\ \A j \in 1..Len(s) : SubSeq(c, 1, i - 1)[j] = c[j]
    BY <1>1
  <2>2. \A j \in 1..Len(s) : SubSeq(c, 1, i - 1)[j] = s[j]
    BY <1>1, <2>1
  <2> QED
    BY <2>1, <2>2, SeqEqual
<1>4. SubSeq(c, i + 1, Len(c)) = Tail(t)
  <2>1. /\ Tail(t) \in Seq(S) /\ Len(Tail(t)) = Len(t) - 1
        /\ \A j \in 1..Len(Tail(t)) : Tail(t)[j] = t[j + 1]
    BY <1>1, HeadTailProperties
  <2>2. /\ SubSeq(c, i + 1, Len(c)) \in Seq(S)
        /\ Len(SubSeq(c, i + 1, Len(c))) = Len(t) - 1
        /\ \A j \in 1..(Len(t) - 1) : SubSeq(c, i + 1, Len(c))[j] = c[i + j]
    <3>1. \A j \in (i + 1)..Len(c) : c[j] \in S
      BY <1>1, ElementOfSeq
    <3>2. /\ SubSeq(c, i + 1, Len(c)) \in Seq(S)
          /\ Len(SubSeq(c, i + 1, Len(c))) = IF i + 1 <= Len(c) THEN Len(c) - (i + 1) + 1 ELSE 0
          /\ \A j \in 1..(Len(c) - (i + 1) + 1) : SubSeq(c, i + 1, Len(c))[j] = c[i + 1 + j - 1]
      <4>1. i + 1 \in Int /\ Len(c) \in Int
        BY <1>1
      <4> QED
        BY <3>1, <4>1, SubSeqProperties
    <3>3. Len(c) - (i + 1) + 1 = Len(t) - 1 /\ \A j \in 1..(Len(t) - 1) : i + 1 + j - 1 = i + j
      BY <1>1
    <3>4. Len(SubSeq(c, i + 1, Len(c))) = Len(t) - 1
      <4>1. CASE i + 1 <= Len(c)
        BY <3>2, <3>3, <4>1
      <4>2. CASE ~(i + 1 <= Len(c))
        <5>1. /\ Len(s) \in Nat /\ Len(t) \in Nat /\ Len(t) # 0
              /\ Len(s) + Len(t) < Len(s) + 2
          BY <1>1, <4>2
        <5>2. \A a, b \in Nat : b # 0 /\ a + b < a + 2 => b - 1 = 0
          OBVIOUS
        <5>3. Len(t) - 1 = 0
          BY <5>1, <5>2
        <5> QED
          BY <3>2, <4>2, <5>3
      <4> QED
        BY <4>1, <4>2
    <3> QED
      BY <3>2, <3>3, <3>4
  <2>3. \A j \in 1..(Len(t) - 1) : c[i + j] = t[j + 1]
    BY <1>1
  <2> QED
    BY <1>1, <2>1, <2>2, <2>3, SeqEqual
<1>5. MailboxOf!RemoveAt(c, i) = s \o Tail(t)
  BY <1>3, <1>4 DEF MailboxOf!RemoveAt
<1>6. i \in DOMAIN c
  BY <1>1, LenProperties
<1> QED
  BY <1>2, <1>5, <1>6 DEF c

-----------------------------------------------------------------------------
(* Putting one node aside changes nothing for a reader of the mailbox.     *)
LEMMA PutAsideStutters ==
    ASSUME CallInv, incoming.nodes # <<>>, PutAside(Head(incoming.nodes))
    PROVE  Contents' = Contents
<1>1. /\ incoming'.nodes = Tail(incoming.nodes)
      /\ tmpqueue'.nodes = Append(tmpqueue.nodes, Head(incoming.nodes))
  BY DEF PutAside, CallInv, WaitTypeOK
<1>2. incoming.nodes \in Seq(Msgs) /\ tmpqueue.nodes \in Seq(Msgs)
  BY DEF CallInv, WaitTypeOK
<1> QED
  BY <1>1, <1>2, MoveOne DEF Contents

(* A reciever's add is the mailbox's Put.                                  *)
LEMMA AddPuts ==
    ASSUME CallInv, NEW t \in Recievers, RecieverAdd(t)
    PROVE  MailboxOf!Put
<1>1. PICK k \in Kinds :
        incoming' = [incoming EXCEPT !.nodes = Append(@, [from |-> t, num |-> adds[t] + 1, kind |-> k])]
  BY DEF RecieverAdd
<1> DEFINE m == [from |-> t, num |-> adds[t] + 1, kind |-> k]
<1>2. adds[t] \in Nat /\ MaxAdds[t] \in Nat /\ adds[t] < MaxAdds[t]
  BY WaitAssumption DEF CallInv, ThreadInv, Ways, RecieverAdd
<1>3. m \in Msgs
  BY <1>1, <1>2 DEF Msgs
<1> HIDE DEF m
<1>4. incoming'.nodes = Append(incoming.nodes, m)
  BY <1>1 DEF m, CallInv, WaitTypeOK
<1>5. tmpqueue' = tmpqueue /\ taken' = taken
  BY DEF RecieverAdd, waitVars
<1>6. incoming.nodes \in Seq(Msgs) /\ tmpqueue.nodes \in Seq(Msgs)
  BY DEF CallInv, WaitTypeOK
<1>7. Contents' = Append(Contents, m)
  <2>1. PICK aside \in Seq(Msgs), rest \in Seq(Msgs) :
          aside = tmpqueue.nodes /\ rest = incoming.nodes
    BY <1>6
  <2>2. aside \o Append(rest, m) = Append(aside \o rest, m)
    BY <1>3, AddBehind
  <2> QED
    BY <1>4, <1>5, <2>1, <2>2 DEF Contents
<1> QED
  BY <1>3, <1>5, <1>7 DEF MailboxOf!Put

(* What the scan finds is the first that ends the wait: what it put aside  *)
(* before does not.                                                        *)
LEMMA ScanTakesOrStutters ==
    ASSUME CallInv, Scan
    PROVE  MailboxOf!TakeFirstAwaited \/ UNCHANGED <<Contents, taken>>
<1> DEFINE m == Head(incoming.nodes)
<1>1. phase = "scan" /\ incoming.nodes # <<>>
  BY DEF Scan
<1>2. CASE ~EndsWait(m)
  BY <1>1, <1>2, PutAsideStutters DEF Scan
<1>3. CASE EndsWait(m)
  <2>1. /\ taken' = Append(taken, m)
        /\ incoming' = [incoming EXCEPT !.nodes = Tail(@)]
        /\ tmpqueue' = tmpqueue
    BY <1>3 DEF Scan
  <2>2. /\ incoming.nodes \in Seq(Msgs) /\ tmpqueue.nodes \in Seq(Msgs)
        /\ incoming'.nodes = Tail(incoming.nodes)
    BY <2>1 DEF CallInv, WaitTypeOK
  <2> DEFINE i == Len(tmpqueue.nodes) + 1
  <2>3. /\ i \in DOMAIN Contents
        /\ Contents[i] = m
        /\ \A j \in 1..(i - 1) : Contents[j] = tmpqueue.nodes[j]
        /\ Contents' = MailboxOf!RemoveAt(Contents, i)
    <3>1. LET c == tmpqueue.nodes \o incoming.nodes
          IN  /\ i \in DOMAIN c
              /\ c[i] = m
              /\ \A j \in 1..(i - 1) : c[j] = tmpqueue.nodes[j]
              /\ tmpqueue.nodes \o Tail(incoming.nodes) = MailboxOf!RemoveAt(c, i)
      BY <1>1, <2>2, TakeBetween
    <3>2. Contents' = tmpqueue.nodes \o Tail(incoming.nodes)
      BY <2>1, <2>2 DEF Contents
    <3> QED
      BY <3>1, <3>2 DEF Contents
  <2>4. m \in Msgs /\ Len(tmpqueue.nodes) \in Nat
    BY <1>1, <2>2, HeadTailProperties, LenProperties
  <2>5. \A j \in 1..(i - 1) : ~EndsWait(Contents[j])
    BY <1>1, <2>3, <2>4 DEF CallInv, AsideInv
  <2> QED
    BY <1>3, <2>1, <2>3, <2>4, <2>5 DEF MailboxOf!TakeFirstAwaited
<1> QED
  BY <1>2, <1>3

LEMMA OthersStutter ==
    ASSUME CallInv,
           \/ \E t \in Threads : EnterQueue(t)
           \/ \E t \in Recievers : RecieverCall(t) \/ RecieverUnlock(t)
           \/ WaitCall \/ ScanUnlock \/ JoinAppend \/ JoinSwap \/ JoinUnlock \/ FreeTmpQueue
           \/ UNCHANGED waitResponseVars
    PROVE  UNCHANGED <<Contents, taken>>
<1>1. CASE \E t \in Threads : EnterQueue(t)
  BY <1>1 DEF EnterQueue, ReadPointer, LockMutex, UnlockNext, waitVars, Contents
<1>2. CASE \E t \in Recievers : RecieverCall(t) \/ RecieverUnlock(t)
  BY <1>2 DEF RecieverCall, RecieverUnlock, waitVars, Contents
<1>3. CASE WaitCall
  BY <1>3 DEF WaitCall, Queue, CallInv, AsideInv, Contents
<1>4. CASE ScanUnlock \/ JoinUnlock \/ UNCHANGED waitResponseVars
  BY <1>4 DEF ScanUnlock, JoinUnlock, waitResponseVars, waitVars, Contents
<1>5. CASE JoinAppend
  BY <1>5, PutAsideStutters DEF JoinAppend, waitVars
<1>6. CASE JoinSwap
  <2>1. /\ incoming.nodes = <<>> /\ incoming' = tmpqueue /\ tmpqueue' = incoming
        /\ taken' = taken /\ tmpqueue.nodes \in Seq(Msgs)
    BY <1>6 DEF JoinSwap, waitVars, CallInv, WaitTypeOK
  <2> QED
    BY <2>1, ConcatEmptySeq DEF Contents
<1>7. CASE FreeTmpQueue
  <2>1. tmpqueue'.nodes = tmpqueue.nodes /\ incoming' = incoming /\ taken' = taken
    BY <1>7 DEF FreeTmpQueue, CallInv, WaitTypeOK, AsideInv
  <2> QED
    BY <2>1 DEF Contents
<1> QED
  BY <1>1, <1>2, <1>3, <1>4, <1>5, <1>6, <1>7

(* Whatever arrives while it scans and joins, and whoever shares the       *)
(* mutexes by then, the call takes the first instruction that ends the     *)
(* wait and leaves the others in the order they arrived in.                *)
THEOREM WaitImplementsMailbox == WaitSpec => TakesFirstAwaited
<1>1. WaitInit => MailboxOf!MailboxInit
  BY EmptySeq, ConcatEmptySeq DEF WaitInit, Queue, MailboxOf!MailboxInit, Contents
<1>2. CallInv /\ [WaitNext]_waitResponseVars =>
        [MailboxOf!Put \/ MailboxOf!TakeFirstAwaited]_<<Contents, taken>>
  <2> SUFFICES ASSUME CallInv, [WaitNext]_waitResponseVars
               PROVE  \/ MailboxOf!Put \/ MailboxOf!TakeFirstAwaited
                      \/ UNCHANGED <<Contents, taken>>
    OBVIOUS
  <2>1. CASE \E t \in Recievers : RecieverAdd(t)
    BY <2>1, AddPuts
  <2>2. CASE Scan
    BY <2>2, ScanTakesOrStutters
  <2>3. CASE ~Scan /\ ~\E t \in Recievers : RecieverAdd(t)
    BY <2>3, OthersStutter DEF WaitNext, MainStep, RecieverStep, Threads
  <2> QED
    BY <2>1, <2>2, <2>3
<1> QED
  BY <1>1, <1>2, CallInvariant, PTL DEF WaitSpec, TakesFirstAwaited, MailboxOf!MailboxSpec
=============================================================================
