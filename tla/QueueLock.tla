------------------------------ MODULE QueueLock ------------------------------
(***************************************************************************)
(* The triple mutex of an instruction queue (wimp_instruction.c 21-45).    *)
(*                                                                         *)
(* A queue carries three mutexes.  The threads that add to the incoming    *)
(* queue are the recievers, one per connected process; they take the low   *)
(* priority path, so that they contend with each other on lowpriomutex     *)
(* before they may contend with the server's own thread on nextmutex.      *)
(* The threads that drain a queue take the high priority path.  Every      *)
(* p_mutex_lock and p_mutex_unlock is one step; a lock step is enabled     *)
(* while the mutex is free, which is all that plibsys promises of it.      *)
(***************************************************************************)
CONSTANTS
    Mains,      \* threads that use the high priority pair
    Recievers,  \* threads that use the low priority pair
    NoThread    \* owner of a free mutex

Threads == Mains \cup Recievers

(* A thread is of one kind, and the owner of a free mutex is no thread.    *)
ASSUME ThreadsAssumption ==
    /\ Mains \cap Recievers = {}
    /\ NoThread \notin Threads

Mutexes == {"lowprio", "next", "data"}

VARIABLES
    owner,      \* which thread holds each mutex
    pc          \* where each thread is in the lock or unlock it is executing

lockVars == <<owner, pc>>

(* "want_x": about to lock x.  "drop_x": about to unlock x.                *)
(* "inside": between lock and unlock, where the queue may be touched.      *)
LowOnly == {"want_lowprio", "drop_lowprio"}
PCs == {"idle", "want_next", "want_data", "drop_next", "inside"} \cup LowOnly

LockTypeOK ==
    /\ owner \in [Mutexes -> Threads \cup {NoThread}]
    /\ pc \in [Threads -> PCs]
    /\ \A t \in Mains : pc[t] \notin LowOnly

LockInit ==
    /\ owner = [m \in Mutexes |-> NoThread]
    /\ pc = [t \in Threads |-> "idle"]

-----------------------------------------------------------------------------
(* p_mutex_lock and p_mutex_unlock (plibsys).                              *)
Lock(t, m, from, to) ==
    /\ pc[t] = from
    /\ owner[m] = NoThread
    /\ owner' = [owner EXCEPT ![m] = t]
    /\ pc' = [pc EXCEPT ![t] = to]

Unlock(t, m, from, to) ==
    /\ pc[t] = from
    /\ owner' = [owner EXCEPT ![m] = NoThread]
    /\ pc' = [pc EXCEPT ![t] = to]

(* A thread calls the lock function of its kind.                           *)
LowPrioCall(t) ==
    /\ t \in Recievers
    /\ pc[t] = "idle"
    /\ pc' = [pc EXCEPT ![t] = "want_lowprio"]
    /\ UNCHANGED owner

HighPrioCall(t) ==
    /\ t \in Mains
    /\ pc[t] = "idle"
    /\ pc' = [pc EXCEPT ![t] = "want_next"]
    /\ UNCHANGED owner

(* Variants of the steps below with a plausible slip, see the README.      *)
LockNextSkipped(t) ==
    /\ pc[t] = "want_next"
    /\ pc' = [pc EXCEPT ![t] = "want_data"]
    /\ UNCHANGED owner
LockDataSkipped(t) ==
    /\ pc[t] = "want_data"
    /\ pc' = [pc EXCEPT ![t] = "drop_next"]
    /\ UNCHANGED owner
UnlockLowPrioForgotten(t) ==
    /\ pc[t] = "drop_lowprio"
    /\ pc' = [pc EXCEPT ![t] = "idle"]
    /\ UNCHANGED owner

LockLowPrio(t) == Lock(t, "lowprio", "want_lowprio", "want_next")
LockNext(t)    == Lock(t, "next", "want_next", "want_data")
LockData(t)    == Lock(t, "data", "want_data", "drop_next")
UnlockNext(t)  == Unlock(t, "next", "drop_next", "inside")

(* high_prio_unlock is over once data is free, low_prio_unlock goes on.    *)
UnlockData(t) ==
    Unlock(t, "data", "inside", IF t \in Recievers THEN "drop_lowprio" ELSE "idle")
UnlockLowPrio(t) == Unlock(t, "lowprio", "drop_lowprio", "idle")

(* Everything a thread does to get in, and to get out.                     *)
Enter(t) ==
    \/ LowPrioCall(t)
    \/ HighPrioCall(t)
    \/ LockLowPrio(t)
    \/ LockNext(t)
    \/ LockData(t)
    \/ UnlockNext(t)
Leave(t) == UnlockData(t) \/ UnlockLowPrio(t)

LockNextState == \E t \in Threads : Enter(t) \/ Leave(t)

LockSpec == LockInit /\ [][LockNextState]_lockVars

LockSteps(t) == LockLowPrio(t) \/ LockNext(t) \/ LockData(t)
UnlockSteps(t) == UnlockNext(t) \/ Leave(t)

(* What may be assumed of the scheduler.  A thread that can run does, and  *)
(* callers come out again; calling in is up to the program.  Scheduled     *)
(* assumes of a mutex only that a waiter gets it if it stays free;         *)
(* StarvationFree also that a waiter gets it if it becomes free again and  *)
(* again.                                                                  *)
Scheduled ==
    \A t \in Threads : WF_lockVars(LockSteps(t)) /\ WF_lockVars(UnlockSteps(t))
StarvationFree ==
    \A t \in Threads : SF_lockVars(LockSteps(t)) /\ WF_lockVars(UnlockSteps(t))

-----------------------------------------------------------------------------
InSection(t) == pc[t] \in {"drop_next", "inside"}

(* Each mutex is held by the thread whose place in its lock and unlock     *)
(* functions says so and by no other: none is left locked, none is         *)
(* unlocked while another thread relies on it.                             *)
OwnersMatchPlaces ==
    \A t \in Threads :
        /\ owner["lowprio"] = t <=> t \in Recievers /\ pc[t] \notin {"idle", "want_lowprio"}
        /\ owner["next"] = t <=> pc[t] \in {"want_data", "drop_next"}
        /\ owner["data"] = t <=> pc[t] \in {"drop_next", "inside"}

(* At most one thread is between lock and unlock: the queue's links and    *)
(* its nodes are touched by one thread at a time, whichever pair it uses.  *)
MutualExclusion ==
    \A t, u \in Threads : InSection(t) /\ InSection(u) => t = u

(* The point of lowpriomutex: of all the recievers, at most one competes   *)
(* with the server's thread for nextmutex and datamutex.                   *)
OneLowPrioContender ==
    \A t, u \in Recievers :
        pc[t] \notin {"idle", "want_lowprio"} /\ pc[u] \notin {"idle", "want_lowprio"}
            => t = u

(* The point of nextmutex: a thread that holds it is the next one in.  No  *)
(* thread that asks later is let in before it.                             *)
NoOvertaking ==
    [][\A t, u \in Threads :
          t # u /\ pc[t] = "want_data" /\ pc'[t] = "want_data"
              => ~(~InSection(u) /\ InSection(u)')]_lockVars

(* However often others come and go, whoever holds nextmutex gets in: the  *)
(* only competitor left for datamutex is the thread that is inside.        *)
NextHolderGetsIn ==
    Scheduled => \A t \in Threads : pc[t] = "want_data" ~> pc[t] = "inside"

(* With starvation-free mutexes every caller of either pair gets in.       *)
EveryCallerGetsIn ==
    StarvationFree =>
        \A t \in Threads : pc[t] \in {"want_lowprio", "want_next"} ~> pc[t] = "inside"

(* From every place of the lock functions a thread gets to the end: nobody *)
(* waits for ever in wimp_instr_queue_low_prio_lock or ..._high_prio_lock. *)
CallersGetIn == NextHolderGetsIn /\ EveryCallerGetsIn
=============================================================================
