----------------------------- MODULE MCRecieving -----------------------------
(* What a reciever's thread does, in two parts that share no state: it      *)
(* puts instructions together from a stream, with small numbers for header, *)
(* base and buffer; and it adds them to the queue of its server: one server *)
(* thread and two recievers with two instructions each, and two heap cells, *)
(* so that cells are used again and malloc can fail.                        *)
EXTENDS InstrQueue, Reciever

CONSTANTS m1, r1, r2, n1, n2

MCMains == {m1}
MCRecievers == {r1, r2}
MCNodes == {n1, n2}

VARIABLE part       \* which of the two a behaviour is about

mcVars == <<queueVars, vars, part>>
QueuePart(A) == part = "queue" /\ A /\ UNCHANGED <<vars, part>>
StreamPart(A) == part = "stream" /\ A /\ UNCHANGED <<queueVars, part>>

MCInit == QueueInit /\ Init /\ part \in {"queue", "stream"}

(* The queue must not come to a stop, a stream may.                         *)
MCNext ==
    \/ QueuePart(QueueNext)
    \/ StreamPart(Next)
    \/ StreamPart(UNCHANGED vars)

(* FairQueueSpec and FairSpec, each in its part.                            *)
MCSpec ==
    /\ MCInit /\ [][MCNext]_mcVars
    /\ \A t \in Threads :
        /\ WF_mcVars(QueuePart(LockSteps(t) /\ QueueEnter(t)))
        /\ WF_mcVars(QueuePart(UnlockNext(t) /\ QueueEnter(t)))
        /\ WF_mcVars(QueuePart(QueueLeave(t) \/ Add(t) \/ Pop(t)))
    /\ \A t \in Mains : WF_mcVars(QueuePart(HighPrioCall(t) /\ QueueEnter(t)))
    /\ WF_mcVars(StreamPart(Thread))
==============================================================================
