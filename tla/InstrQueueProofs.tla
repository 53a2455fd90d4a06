-------------------------- MODULE InstrQueueProofs --------------------------
(***************************************************************************)
(* The triple mutex and the linked list under it, for any number of        *)
(* threads of either kind, heap cells and instructions: the invariants of  *)
(* QueueLock and of InstrQueue, and that it implements FifoQueue.          *)
(***************************************************************************)
EXTENDS InstrQueue, SequenceTheorems, TLAPS

-----------------------------------------------------------------------------
(* The types and who holds which mutex: inductive together.                *)
LockInv == LockTypeOK /\ OwnersMatchPlaces

LEMMA LockInitInv == LockInit => LockInv
BY ThreadsAssumption
DEF LockInit, LockInv, LockTypeOK, OwnersMatchPlaces, Mutexes, PCs, LowOnly, Threads

LEMMA EnterInv ==
    ASSUME LockInv, NEW t \in Threads, Enter(t)
    PROVE  LockInv'
<1> USE ThreadsAssumption
    DEF LockInv, LockTypeOK, OwnersMatchPlaces, Mutexes, PCs, LowOnly, Threads, Lock, Unlock
<1>1. CASE LowPrioCall(t)
  BY <1>1 DEF LowPrioCall
<1>2. CASE HighPrioCall(t)
  BY <1>2 DEF HighPrioCall
<1>3. CASE LockLowPrio(t)
  BY <1>3 DEF LockLowPrio
<1>4. CASE LockNext(t)
  BY <1>4 DEF LockNext
<1>5. CASE LockData(t)
  BY <1>5 DEF LockData
<1>6. CASE UnlockNext(t)
  BY <1>6 DEF UnlockNext
<1> QED
  BY <1>1, <1>2, <1>3, <1>4, <1>5, <1>6 DEF Enter

LEMMA LeaveInv ==
    ASSUME LockInv, NEW t \in Threads, Leave(t)
    PROVE  LockInv'
<1> USE ThreadsAssumption
    DEF LockInv, LockTypeOK, OwnersMatchPlaces, Mutexes, PCs, LowOnly, Threads, Unlock
<1>1. CASE UnlockData(t)
  BY <1>1 DEF UnlockData
<1>2. CASE UnlockLowPrio(t)
  BY <1>2 DEF UnlockLowPrio
<1> QED
  BY <1>1, <1>2 DEF Leave

LEMMA LockStepInv == LockInv /\ [LockNextState]_lockVars => LockInv'
<1> SUFFICES ASSUME LockInv, [LockNextState]_lockVars PROVE LockInv'
  OBVIOUS
<1>1. CASE LockNextState
  BY <1>1, EnterInv, LeaveInv DEF LockNextState
<1>2. CASE UNCHANGED lockVars
  BY <1>2 DEF lockVars, LockInv, LockTypeOK, OwnersMatchPlaces
<1> QED
  BY <1>1, <1>2

(* The variables keep their types: no thread strays into the lock function *)
(* of the other kind.                                                      *)
THEOREM LockTypeCorrect == LockSpec => []LockTypeOK
<1>1. LockInv => LockTypeOK
  BY DEF LockInv
<1> QED
  BY LockInitInv, LockStepInv, <1>1, PTL DEF LockSpec

(* Every mutex is held where the lock and unlock functions say, only.      *)
THEOREM OwnersCorrect == LockSpec => []OwnersMatchPlaces
<1>1. LockInv => OwnersMatchPlaces
  BY DEF LockInv
<1> QED
  BY LockInitInv, LockStepInv, <1>1, PTL DEF LockSpec

(* The queue is touched by one thread at a time.                           *)
THEOREM LockExcludes == LockSpec => []MutualExclusion
<1>1. LockInv => MutualExclusion
  BY DEF LockInv, OwnersMatchPlaces, MutualExclusion, InSection
<1> QED
  BY LockInitInv, LockStepInv, <1>1, PTL DEF LockSpec

(* Only one of all the recievers ever competes with the server's thread.   *)
THEOREM LowPrioContention == LockSpec => []OneLowPrioContender
<1>1. LockInv => OneLowPrioContender
  BY DEF LockInv, OwnersMatchPlaces, OneLowPrioContender, Threads
<1> QED
  BY LockInitInv, LockStepInv, <1>1, PTL DEF LockSpec

(* A step lets a thread in only if that thread held nextmutex, and nobody  *)
(* else can hold it then.                                                  *)
LEMMA InOnlyWithNext ==
    ASSUME LockInv, [LockNextState]_lockVars,
           NEW u \in Threads, ~InSection(u), InSection(u)'
    PROVE  owner["next"] = u
<1> USE DEF InSection, LockInv, LockTypeOK, OwnersMatchPlaces
<1>1. PICK t \in Threads : Enter(t) \/ Leave(t)
  BY DEF LockNextState, lockVars
<1>2. pc[u] = "want_data"
  BY <1>1, ThreadsAssumption
  DEF Enter, Leave, LowPrioCall, HighPrioCall, LockLowPrio, LockNext, LockData, UnlockNext,
      UnlockData, UnlockLowPrio, Lock, Unlock
<1> QED
  BY <1>2

(* Whoever holds nextmutex is the next one in.                             *)
THEOREM NobodyOvertakes == LockSpec => NoOvertaking
<1>1. LockInv /\ [LockNextState]_lockVars =>
        [\A t, u \in Threads :
            t # u /\ pc[t] = "want_data" /\ pc'[t] = "want_data"
                => ~(~InSection(u) /\ InSection(u)')]_lockVars
  BY InOnlyWithNext DEF LockInv, OwnersMatchPlaces
<1> QED
  BY LockInitInv, LockStepInv, <1>1, PTL DEF LockSpec, NoOvertaking

-----------------------------------------------------------------------------

(* What add and pop rely on between two of their steps.                    *)
AddInv(t) ==
    /\ step[t] \in AddSteps \cup {"done"}
    /\ step[t] \in {"test", "link_front", "link_back"} =>
        /\ cur[t] \in allocated
        /\ nextnode[cur[t]] = NULL
        /\ instr[cur[t]] \in Msgs
        /\ \A i \in 1..Len(queued) : queued[i] # cur[t]
    /\ step[t] = "link_front" => back = NULL
    /\ step[t] = "link_back" => back # NULL
    /\ step[t] = "set_back" => queued # <<>> /\ cur[t] = LastNode
    /\ step[t] \in {"alloc", "done"} => cur[t] = NULL
    /\ step[t] = "alloc" /\ pc[t] \notin {"idle", "drop_lowprio"} => adds[t] < MaxAdds

PopInv(t) ==
    /\ step[t] \in PopSteps \cup {"done"}
    /\ step[t] = "advance" => cur[t] = front /\ front # NULL
    /\ step[t] \in {"fix_back", "handle"} =>
        /\ cur[t] \in allocated
        /\ \A i \in 1..Len(queued) : queued[i] # cur[t]
    /\ step[t] = "fix_back" /\ queued # <<>> => back = LastNode
    /\ step[t] \in {"read", "again", "done"} => cur[t] = NULL

(* The history of the list: types, no node twice, every node filled in,    *)
(* and what backnode may point to at any time.                             *)
NodesInv ==
    /\ queued \in Seq(Nodes)
    /\ \A i, j \in 1..Len(queued) : queued[i] = queued[j] => i = j
    /\ \A i \in 1..Len(queued) : queued[i] \in allocated /\ instr[queued[i]] \in Msgs
    /\ back \in allocated \cup {NULL}

(* The pointers of the list.                                               *)
LinksInv ==
    /\ \A i \in 1..Len(queued) : i < Len(queued) => nextnode[queued[i]] = queued[i + 1]
    /\ queued = <<>> => front = NULL
    /\ queued # <<>> => front = queued[1] /\ nextnode[LastNode] = NULL

BackInv ==
    (\A t \in Threads : step[t] \notin {"set_back", "fix_back"})
        => /\ queued = <<>> => back = NULL
           /\ queued # <<>> => back = LastNode

QueueInv ==
    /\ LockInv
    /\ QueueTypeOK
    /\ NodesInv
    /\ LinksInv
    /\ BackInv
    /\ \A t \in Recievers : AddInv(t)
    /\ \A t \in Mains : PopInv(t)

LEMMA QueueInitInv == QueueInit => QueueInv
<1> SUFFICES ASSUME QueueInit PROVE QueueInv
  OBVIOUS
<1> USE QueueAssumption, ThreadsAssumption DEF QueueInit
<1>1. LockInv
  BY LockInitInv
<1>2. QueueTypeOK
  <2>1. step \in [Threads -> Steps] /\ \A t \in Threads : step[t] = FirstStep(t)
    BY DEF FirstStep, Steps, AddSteps, PopSteps
  <2>2. adds \in [Recievers -> 0..MaxAdds]
    OBVIOUS
  <2>3. handled \in Seq(Msgs) /\ queued \in Seq(Nodes)
    OBVIOUS
  <2> QED
    BY <1>1, <2>1, <2>2, <2>3 DEF LockInv, QueueTypeOK
<1>3. NodesInv /\ LinksInv /\ BackInv
  BY DEF NodesInv, LinksInv, BackInv
<1>4. \A t \in Recievers : AddInv(t)
  BY DEF AddInv, FirstStep, AddSteps, Threads, LockInit
<1>5. \A t \in Mains : PopInv(t)
  BY DEF PopInv, FirstStep, PopSteps, Threads
<1> QED
  BY <1>1, <1>2, <1>3, <1>4, <1>5 DEF QueueInv

(* A thread in the middle of add or pop is alone there.                    *)
LEMMA OthersAtFirstStep ==
    ASSUME QueueInv, NEW t \in Threads, pc[t] = "inside",
           NEW u \in Threads, u # t
    PROVE  step[u] = FirstStep(u) /\ pc[u] # "inside"
BY DEF QueueInv, QueueTypeOK, LockInv, OwnersMatchPlaces

(* So a step of add or pop leaves what the others rely on alone.           *)
LEMMA OthersUndisturbed ==
    ASSUME QueueInv, NEW t \in Threads, NEW from, NEW to \in Steps, Within(t, from, to),
           \A u \in Threads : u # t => cur'[u] = cur[u],
           \A u \in Recievers : u # t => adds'[u] = adds[u]
    PROVE  /\ LockInv'
           /\ step' \in [Threads -> Steps]
           /\ \A u \in Threads : step'[u] # FirstStep(u) => pc'[u] = "inside"
           /\ step'[t] = to
           /\ \A u \in Threads : u # t => step'[u] = FirstStep(u)
           /\ \A u \in Recievers : u # t => AddInv(u)'
           /\ \A u \in Mains : u # t => PopInv(u)'
<1>1. LockInv'
  BY DEF Within, QueueInv, lockVars, LockInv, LockTypeOK, OwnersMatchPlaces
<1>2. pc' = pc /\ pc[t] = "inside" /\ step' = [step EXCEPT ![t] = to]
  BY DEF Within, lockVars
<1>3. step \in [Threads -> Steps]
  BY DEF QueueInv, QueueTypeOK
<1>4. \A u \in Threads : u # t => step[u] = FirstStep(u)
  BY <1>2, OthersAtFirstStep
<1>5. /\ step' \in [Threads -> Steps]
      /\ step'[t] = to
      /\ \A u \in Threads : u # t => step'[u] = FirstStep(u)
      /\ \A u \in Threads : step'[u] # FirstStep(u) => pc'[u] = "inside"
  BY <1>2, <1>3, <1>4
<1>6. ASSUME NEW u \in Recievers, u # t PROVE AddInv(u)'
  BY <1>2, <1>4, <1>5, <1>6, u \in Threads
  DEF QueueInv, AddInv, AddSteps, FirstStep, Threads
<1>7. ASSUME NEW u \in Mains, u # t PROVE PopInv(u)'
  BY <1>4, <1>5, <1>7, u \in Threads, ThreadsAssumption
  DEF QueueInv, PopInv, PopSteps, FirstStep, Threads
<1> QED
  BY <1>1, <1>5, <1>6, <1>7

(* Which kind of thread is at which step.                                  *)
LEMMA StepsByKind ==
    ASSUME QueueInv, NEW t \in Threads
    PROVE  /\ step[t] \in AddSteps => t \in Recievers /\ t \notin Mains
           /\ step[t] \in PopSteps => t \in Mains /\ t \notin Recievers
BY ThreadsAssumption DEF QueueInv, AddInv, PopInv, AddSteps, PopSteps, Threads

LEMMA AddAllocInv ==
    ASSUME QueueInv, NEW t \in Threads, AddAlloc(t)
    PROVE  QueueInv'
<1> USE QueueAssumption
<1>1. PICK n \in Nodes \ allocated :
        /\ Within(t, "alloc", "test")
        /\ allocated' = allocated \cup {n}
        /\ nextnode' = [nextnode EXCEPT ![n] = NULL]
        /\ instr' = [instr EXCEPT ![n] = NewMsg(t)]
        /\ cur' = [cur EXCEPT ![t] = n]
        /\ adds' = [adds EXCEPT ![t] = @ + 1]
        /\ UNCHANGED <<front, back, queued, handled>>
  BY DEF AddAlloc
<1>2. "test" \in Steps /\ cur \in [Threads -> Nodes \cup {NULL}]
  BY DEF Steps, AddSteps, QueueInv, QueueTypeOK
<1>3. /\ \A u \in Threads : u # t => cur'[u] = cur[u]
      /\ \A u \in Recievers : u # t => adds'[u] = adds[u]
  BY <1>1, <1>2 DEF QueueInv, QueueTypeOK
<1>4. t \in Recievers /\ NewMsg(t) \in Msgs /\ adds[t] + 1 \in 0..MaxAdds
  <2>1. t \in Recievers
    BY <1>1, StepsByKind DEF Within, AddSteps
  <2>2. adds[t] \in 0..MaxAdds /\ adds[t] < MaxAdds
    BY <1>1, <2>1 DEF Within, AddInv, QueueInv, QueueTypeOK
  <2> QED
    BY <2>1, <2>2 DEF NewMsg, Msgs
<1>5. QueueTypeOK'
  BY <1>1, <1>2, <1>3, <1>4, OthersUndisturbed
  DEF QueueInv, QueueTypeOK, LockInv
<1>6. \A i \in 1..Len(queued) : queued[i] \in Nodes /\ queued[i] # n
  BY DEF QueueInv, NodesInv
<1>7. NodesInv'
  BY <1>1, <1>6 DEF QueueInv, QueueTypeOK, NodesInv
<1>8. LinksInv'
  BY <1>1, <1>6 DEF QueueInv, QueueTypeOK, LinksInv, NodesInv, LastNode
<1>9. step[t] = "alloc" /\ pc[t] = "inside"
  BY <1>1 DEF Within
<1>10. BackInv'
  BY <1>1, <1>9, <1>2, <1>3, OthersUndisturbed, OthersAtFirstStep
  DEF QueueInv, BackInv, FirstStep, LastNode
<1>11. AddInv(t)'
  BY <1>1, <1>2, <1>3, <1>4, <1>6, OthersUndisturbed
  DEF AddInv, AddSteps, QueueInv, QueueTypeOK
<1> QED
  BY <1>1, <1>2, <1>3, <1>4, <1>5, <1>7, <1>8, <1>10, <1>11, OthersUndisturbed, ThreadsAssumption
  DEF QueueInv

(* The remaining steps of add.                                             *)
LEMMA AddNoMemoryInv ==
    ASSUME QueueInv, NEW t \in Threads, AddNoMemory(t)
    PROVE  QueueInv'
<1>1. /\ Within(t, "alloc", "done")
      /\ adds' = [adds EXCEPT ![t] = @ + 1]
      /\ UNCHANGED <<listVars, cur, handled>>
  BY DEF AddNoMemory
<1>2. "done" \in Steps
  BY DEF Steps
<1>3. t \in Recievers /\ t \notin Mains
  BY <1>1, StepsByKind DEF Within, AddSteps
<1>4. adds[t] + 1 \in 0..MaxAdds /\ \A u \in Recievers : u # t => adds'[u] = adds[u]
  BY <1>1, <1>3, QueueAssumption, SMTT(40) DEF Within, AddInv, QueueInv, QueueTypeOK
<1>5. QueueTypeOK'
  BY <1>1, <1>2, <1>4, OthersUndisturbed DEF QueueInv, QueueTypeOK, LockInv, listVars
<1>6. NodesInv' /\ LinksInv'
  BY <1>1 DEF QueueInv, NodesInv, LinksInv, LastNode, listVars
<1>7. step[t] = "alloc" /\ pc[t] = "inside"
  BY <1>1 DEF Within
<1>8. BackInv'
  BY <1>1, <1>2, <1>4, <1>7, OthersUndisturbed, OthersAtFirstStep
  DEF QueueInv, BackInv, FirstStep, LastNode, listVars
<1>9. AddInv(t)'
  BY <1>1, <1>2, <1>3, <1>4, <1>7, OthersUndisturbed DEF AddInv, QueueInv
<1> QED
  BY <1>1, <1>2, <1>3, <1>4, <1>5, <1>6, <1>8, <1>9, OthersUndisturbed DEF QueueInv

LEMMA AddTestInv ==
    ASSUME QueueInv, NEW t \in Threads, AddTest(t)
    PROVE  QueueInv'
<1> DEFINE to == IF back = NULL THEN "link_front" ELSE "link_back"
<1>1. Within(t, "test", to) /\ UNCHANGED <<listVars, cur, adds, handled>>
  BY DEF AddTest
<1>2. to \in Steps
  BY DEF Steps, AddSteps
<1>3. t \in Recievers /\ t \notin Mains
  BY <1>1, StepsByKind DEF Within, AddSteps
<1>4. step[t] = "test" /\ pc[t] = "inside"
  BY <1>1 DEF Within
<1> HIDE DEF to
<1>5. QueueTypeOK'
  BY <1>1, <1>2, OthersUndisturbed DEF QueueInv, QueueTypeOK, LockInv, listVars
<1>6. NodesInv' /\ LinksInv'
  BY <1>1 DEF QueueInv, NodesInv, LinksInv, LastNode, listVars
<1>7. BackInv'
  BY <1>1, <1>2, <1>4, OthersUndisturbed, OthersAtFirstStep
  DEF QueueInv, BackInv, FirstStep, LastNode, listVars
<1>8. AddInv(t)'
  BY <1>1, <1>2, <1>3, <1>4, OthersUndisturbed
  DEF AddInv, AddSteps, QueueInv, listVars, to
<1> QED
  BY <1>1, <1>2, <1>3, <1>5, <1>6, <1>7, <1>8, OthersUndisturbed DEF QueueInv

(* What appending a node to the history does to the lists' facts.          *)
LEMMA AppendFacts ==
    ASSUME NEW q \in Seq(Nodes), NEW n \in Nodes
    PROVE  LET r == Append(q, n)
           IN  /\ r \in Seq(Nodes)
               /\ r # <<>>
               /\ Len(r) = Len(q) + 1
               /\ Len(q) \in Nat
               /\ r[Len(r)] = n
               /\ \A i \in 1..Len(q) : r[i] = q[i]
               /\ q = <<>> <=> Len(q) = 0
OBVIOUS

(* An allocated node that is not in the list may be appended to it.        *)
LEMMA AppendNode ==
    ASSUME NodesInv, NEW n \in Nodes,
           n \in allocated, instr[n] \in Msgs,
           \A i \in 1..Len(queued) : queued[i] # n,
           queued' = Append(queued, n),
           UNCHANGED <<instr, back, allocated>>
    PROVE  NodesInv'
<1>1. /\ queued \in Seq(Nodes)
      /\ \A i, j \in 1..Len(queued) : queued[i] = queued[j] => i = j
      /\ \A i \in 1..Len(queued) : queued[i] \in allocated /\ instr[queued[i]] \in Msgs
      /\ back \in allocated \cup {NULL}
  BY DEF NodesInv
<1>2. /\ queued' \in Seq(Nodes)
      /\ Len(queued') = Len(queued) + 1
      /\ Len(queued) \in Nat
      /\ queued'[Len(queued')] = n
      /\ \A i \in 1..Len(queued) : queued'[i] = queued[i]
  BY <1>1, AppendFacts
<1>3. ASSUME NEW i \in 1..Len(queued')
      PROVE  queued'[i] \in allocated' /\ instr'[queued'[i]] \in Msgs
  <2>1. i \in 1..Len(queued) \/ i = Len(queued')
    BY <1>2
  <2> QED
    BY <1>1, <1>2, <2>1
<1>4. ASSUME NEW i \in 1..Len(queued'), NEW j \in 1..Len(queued'), queued'[i] = queued'[j]
      PROVE  i = j
  <2>1. /\ i \in 1..Len(queued) \/ i = Len(queued')
        /\ j \in 1..Len(queued) \/ j = Len(queued')
    BY <1>2
  <2> QED
    BY <1>1, <1>2, <1>4, <2>1
<1> QED
  BY <1>1, <1>2, <1>3, <1>4 DEF NodesInv

LEMMA AddLinkFrontInv ==
    ASSUME QueueInv, NEW t \in Threads, AddLinkFront(t)
    PROVE  QueueInv'
<1>1. /\ Within(t, "link_front", "set_back")
      /\ front' = cur[t]
      /\ queued' = Append(queued, cur[t])
      /\ UNCHANGED <<nextnode, instr, back, allocated, cur, adds, handled>>
  BY DEF AddLinkFront
<1>2. "set_back" \in Steps /\ step[t] = "link_front" /\ pc[t] = "inside"
  BY <1>1 DEF Within, Steps, AddSteps
<1>3. t \in Recievers /\ t \notin Mains
  BY <1>2, StepsByKind DEF AddSteps
<1>4. /\ cur[t] \in allocated
      /\ cur[t] \in Nodes
      /\ nextnode[cur[t]] = NULL
      /\ instr[cur[t]] \in Msgs
      /\ \A i \in 1..Len(queued) : queued[i] # cur[t]
      /\ back = NULL
  BY <1>2, <1>3 DEF QueueInv, AddInv, QueueTypeOK
<1>5. queued \in Seq(Nodes)
  BY DEF QueueInv, NodesInv
<1>6. queued = <<>>
  <2>1. \A u \in Threads : step[u] \notin {"set_back", "fix_back"}
    BY <1>2, OthersAtFirstStep DEF FirstStep
  <2>2. queued # <<>> => queued[Len(queued)] \in Nodes
    BY <1>5
  <2> QED
    BY <1>4, <2>1, <2>2, QueueAssumption DEF QueueInv, BackInv, LastNode
<1>7. QueueTypeOK'
  BY <1>1, <1>2, <1>4, <1>5, AppendFacts, OthersUndisturbed DEF QueueInv, QueueTypeOK, LockInv
<1>8. NodesInv'
  BY <1>1, <1>4, AppendNode DEF QueueInv
<1>9. LinksInv'
  BY <1>1, <1>4, <1>6, AppendFacts DEF LinksInv, LastNode
<1>10. BackInv'
  BY <1>1, <1>2, OthersUndisturbed DEF BackInv
<1>11. AddInv(t)'
  BY <1>1, <1>2, <1>4, <1>5, AppendFacts, OthersUndisturbed DEF AddInv, AddSteps, LastNode
<1> QED
  BY <1>1, <1>2, <1>3, <1>7, <1>8, <1>9, <1>10, <1>11, OthersUndisturbed DEF QueueInv

LEMMA AddLinkBackInv ==
    ASSUME QueueInv, NEW t \in Threads, AddLinkBack(t)
    PROVE  QueueInv'
<1>1. /\ Within(t, "link_back", "set_back")
      /\ nextnode' = [nextnode EXCEPT ![back] = cur[t]]
      /\ queued' = Append(queued, cur[t])
      /\ UNCHANGED <<instr, front, back, allocated, cur, adds, handled>>
  BY DEF AddLinkBack
<1>2. "set_back" \in Steps /\ step[t] = "link_back" /\ pc[t] = "inside"
  BY <1>1 DEF Within, Steps, AddSteps
<1>3. t \in Recievers /\ t \notin Mains
  BY <1>2, StepsByKind DEF AddSteps
<1>4. /\ cur[t] \in allocated
      /\ cur[t] \in Nodes
      /\ nextnode[cur[t]] = NULL
      /\ instr[cur[t]] \in Msgs
      /\ \A i \in 1..Len(queued) : queued[i] # cur[t]
      /\ back # NULL
  BY <1>2, <1>3 DEF QueueInv, AddInv, QueueTypeOK
<1>5. queued \in Seq(Nodes)
  BY DEF QueueInv, NodesInv
<1>6. queued # <<>> /\ back = queued[Len(queued)] /\ back \in Nodes
  <2>1. \A u \in Threads : step[u] \notin {"set_back", "fix_back"}
    BY <1>2, OthersAtFirstStep DEF FirstStep
  <2> QED
    BY <1>4, <1>5, <2>1 DEF QueueInv, BackInv, LastNode
<1>7. nextnode' \in [Nodes -> Nodes \cup {NULL}]
  BY <1>1, <1>4 DEF QueueInv, QueueTypeOK
<1>8. QueueTypeOK'
  BY <1>1, <1>2, <1>4, <1>5, <1>7, AppendFacts, OthersUndisturbed
  DEF QueueInv, QueueTypeOK, LockInv
<1>9. NodesInv'
  BY <1>1, <1>4, AppendNode DEF QueueInv
<1>10. LinksInv'
  <2>1. /\ nextnode'[back] = cur[t]
        /\ \A n \in Nodes : n # back => nextnode'[n] = nextnode[n]
    BY <1>1, <1>6 DEF QueueInv, QueueTypeOK
  <2>2. nextnode'[cur[t]] = NULL
    BY <1>4, <1>5, <1>6, <2>1
  <2>3. ASSUME NEW i \in 1..Len(queued'), i < Len(queued')
        PROVE  nextnode'[queued'[i]] = queued'[i + 1]
    <3>1. i \in 1..Len(queued) /\ queued'[i] = queued[i]
      BY <1>1, <1>4, <1>5, <2>3, AppendFacts
    <3>2. CASE i = Len(queued)
      BY <1>1, <1>4, <1>5, <1>6, <2>1, <3>1, <3>2, AppendFacts
    <3>3. CASE i # Len(queued)
      <4>1. i + 1 \in 1..Len(queued) /\ queued'[i + 1] = queued[i + 1]
        BY <1>1, <1>4, <1>5, <3>1, <3>3, AppendFacts
      <4>2. queued[i] \in Nodes /\ queued[i] # back
        BY <1>5, <1>6, <3>1, <3>3, AppendFacts DEF QueueInv, NodesInv
      <4> QED
        BY <2>1, <3>1, <3>3, <4>1, <4>2, <1>5 DEF QueueInv, LinksInv
    <3> QED
      BY <3>2, <3>3
  <2>4. queued' # <<>> /\ LastNode' = cur[t] /\ queued'[1] = queued[1]
    BY <1>1, <1>4, <1>5, <1>6, AppendFacts DEF LastNode
  <2> QED
    BY <1>1, <1>6, <2>2, <2>3, <2>4 DEF QueueInv, LinksInv
<1>11. BackInv'
  BY <1>1, <1>2, OthersUndisturbed DEF BackInv
<1>12. AddInv(t)'
  BY <1>1, <1>2, <1>4, <1>5, AppendFacts, OthersUndisturbed DEF AddInv, AddSteps, LastNode
<1> QED
  BY <1>1, <1>2, <1>3, <1>8, <1>9, <1>10, <1>11, <1>12, OthersUndisturbed DEF QueueInv

LEMMA AddSetBackInv ==
    ASSUME QueueInv, NEW t \in Threads, AddSetBack(t)
    PROVE  QueueInv'
<1>1. /\ Within(t, "set_back", "done")
      /\ back' = cur[t]
      /\ cur' = [cur EXCEPT ![t] = NULL]
      /\ UNCHANGED <<nextnode, instr, front, allocated, queued, adds, handled>>
  BY DEF AddSetBack
<1>2. "done" \in Steps /\ step[t] = "set_back" /\ pc[t] = "inside"
  BY <1>1 DEF Within, Steps
<1>3. t \in Recievers /\ t \notin Mains
  BY <1>2, StepsByKind DEF AddSteps
<1>4. /\ cur \in [Threads -> Nodes \cup {NULL}]
      /\ \A u \in Threads : u # t => cur'[u] = cur[u]
  BY <1>1 DEF QueueInv, QueueTypeOK
<1>5. queued # <<>> /\ cur[t] = LastNode
  BY <1>2, <1>3 DEF QueueInv, AddInv
<1>6. QueueTypeOK'
  BY <1>1, <1>2, <1>4, OthersUndisturbed DEF QueueInv, QueueTypeOK, LockInv
<1>7. NodesInv' /\ LinksInv'
  <2>1. cur[t] \in allocated
    BY <1>5, AppendFacts DEF QueueInv, NodesInv, LastNode
  <2> QED
    BY <1>1, <2>1 DEF QueueInv, NodesInv, LinksInv, LastNode
<1>8. BackInv'
  BY <1>1, <1>5 DEF BackInv, LastNode
<1>9. AddInv(t)'
  BY <1>1, <1>2, <1>4, OthersUndisturbed DEF AddInv
<1> QED
  BY <1>1, <1>2, <1>3, <1>4, <1>6, <1>7, <1>8, <1>9, OthersUndisturbed DEF QueueInv

(* The steps of pop.                                                       *)
LEMMA PopEmptyInv ==
    ASSUME QueueInv, NEW t \in Threads, PopEmpty(t)
    PROVE  QueueInv'
<1>1. /\ step[t] \in {"read", "again"}
      /\ Within(t, step[t], "done")
      /\ UNCHANGED <<listVars, cur, adds, handled>>
  BY DEF PopEmpty
<1>2. "done" \in Steps /\ pc[t] = "inside"
  BY <1>1 DEF Within, Steps
<1>3. t \in Mains /\ t \notin Recievers
  BY <1>1, StepsByKind DEF PopSteps
<1>4. QueueTypeOK'
  BY <1>1, <1>2, OthersUndisturbed DEF QueueInv, QueueTypeOK, LockInv, listVars
<1>5. NodesInv' /\ LinksInv'
  BY <1>1 DEF QueueInv, NodesInv, LinksInv, LastNode, listVars
<1>6. BackInv'
  BY <1>1, <1>2, OthersUndisturbed, OthersAtFirstStep
  DEF QueueInv, BackInv, FirstStep, LastNode, listVars
<1>7. PopInv(t)'
  BY <1>1, <1>2, <1>3, OthersUndisturbed DEF PopInv, QueueInv
<1> QED
  BY <1>1, <1>2, <1>3, <1>4, <1>5, <1>6, <1>7, OthersUndisturbed DEF QueueInv

LEMMA PopReadInv ==
    ASSUME QueueInv, NEW t \in Threads, PopRead(t)
    PROVE  QueueInv'
<1>1. /\ step[t] \in {"read", "again"}
      /\ front # NULL
      /\ Within(t, step[t], "advance")
      /\ cur' = [cur EXCEPT ![t] = front]
      /\ UNCHANGED <<listVars, adds, handled>>
  BY DEF PopRead
<1>2. "advance" \in Steps /\ pc[t] = "inside"
  BY <1>1 DEF Within, Steps, PopSteps
<1>3. t \in Mains /\ t \notin Recievers
  BY <1>1, StepsByKind DEF PopSteps
<1>4. /\ cur' \in [Threads -> Nodes \cup {NULL}]
      /\ cur'[t] = front
      /\ \A u \in Threads : u # t => cur'[u] = cur[u]
  BY <1>1 DEF QueueInv, QueueTypeOK
<1>5. QueueTypeOK'
  BY <1>1, <1>2, <1>4, OthersUndisturbed DEF QueueInv, QueueTypeOK, LockInv, listVars
<1>6. NodesInv' /\ LinksInv'
  BY <1>1 DEF QueueInv, NodesInv, LinksInv, LastNode, listVars
<1>7. BackInv'
  BY <1>1, <1>2, <1>4, OthersUndisturbed, OthersAtFirstStep
  DEF QueueInv, BackInv, FirstStep, LastNode, listVars
<1>8. PopInv(t)'
  BY <1>1, <1>2, <1>3, <1>4, OthersUndisturbed DEF PopInv, PopSteps, listVars
<1> QED
  BY <1>1, <1>2, <1>3, <1>4, <1>5, <1>6, <1>7, <1>8, OthersUndisturbed DEF QueueInv

(* Where the head of the history is, and what its tail looks like.         *)
LEMMA TailFacts ==
    ASSUME NEW q \in Seq(Nodes), q # <<>>
    PROVE  LET r == Tail(q)
           IN  /\ r \in Seq(Nodes)
               /\ Len(q) \in Nat \ {0}
               /\ Len(r) = Len(q) - 1
               /\ q[1] = Head(q)
               /\ \A i \in 1..Len(r) : i + 1 \in 1..Len(q) /\ r[i] = q[i + 1]
               /\ r = <<>> <=> Len(q) = 1
<1> DEFINE r == Tail(q)
<1>1. Len(q) \in Nat \ {0} /\ Head(q) = q[1]
  OBVIOUS
<1>2. r \in Seq(Nodes) /\ Len(r) = Len(q) - 1
  OBVIOUS
<1>3. \A i \in 1..Len(r) : i + 1 \in 1..Len(q) /\ r[i] = q[i + 1]
  BY <1>1, <1>2
<1>4. r = <<>> <=> Len(r) = 0
  BY <1>2
<1> QED
  BY <1>1, <1>2, <1>3, <1>4

LEMMA PopAdvanceInv ==
    ASSUME QueueInv, NEW t \in Threads, PopAdvance(t)
    PROVE  /\ QueueInv'
           /\ queued # <<>>
           /\ cur[t] = queued[1]
<1>1. /\ Within(t, "advance", "fix_back")
      /\ front' = nextnode[cur[t]]
      /\ queued' = Tail(queued)
      /\ handled' = Append(handled, instr[cur[t]])
      /\ UNCHANGED <<nextnode, instr, back, allocated, cur, adds>>
  BY DEF PopAdvance
<1>2. "fix_back" \in Steps /\ step[t] = "advance" /\ pc[t] = "inside"
  BY <1>1 DEF Within, Steps, PopSteps
<1>3. t \in Mains /\ t \notin Recievers
  BY <1>2, StepsByKind DEF PopSteps
<1>4. queued # <<>> /\ cur[t] = queued[1] /\ queued \in Seq(Nodes)
  BY <1>2, <1>3 DEF QueueInv, PopInv, LinksInv, NodesInv
<1>5. 1 \in 1..Len(queued) /\ cur[t] \in Nodes /\ cur[t] \in allocated /\ instr[cur[t]] \in Msgs
  BY <1>4, TailFacts DEF QueueInv, NodesInv
<1>6. front' \in Nodes \cup {NULL} /\ handled' \in Seq(Msgs)
  BY <1>1, <1>5 DEF QueueInv, QueueTypeOK
<1>7. QueueTypeOK'
  BY <1>1, <1>2, <1>4, <1>6, TailFacts, OthersUndisturbed DEF QueueInv, QueueTypeOK, LockInv
<1>8. NodesInv'
  BY <1>1, <1>4, TailFacts DEF QueueInv, NodesInv
<1>9. LinksInv'
  <2>1. \A i \in 1..Len(queued') : i < Len(queued') => nextnode'[queued'[i]] = queued'[i + 1]
    <3> SUFFICES ASSUME NEW i \in 1..Len(queued'), i < Len(queued')
                 PROVE  nextnode[queued'[i]] = queued'[i + 1]
      BY <1>1
    <3>1. /\ Len(queued) \in Nat /\ Len(queued') = Len(queued) - 1
          /\ i + 1 \in 1..Len(queued')
      BY <1>1, <1>4, TailFacts
    <3>2. queued'[i] = queued[i + 1] /\ queued'[i + 1] = queued[(i + 1) + 1]
      BY <1>1, <1>4, <3>1, TailFacts
    <3>3. nextnode[queued[i + 1]] = queued[(i + 1) + 1]
      BY <3>1 DEF QueueInv, LinksInv
    <3> QED
      BY <3>2, <3>3
  <2>2. CASE queued' = <<>>
    <3>1. Len(queued) = 1 /\ LastNode = queued[1]
      BY <1>1, <1>4, <2>2, TailFacts DEF LastNode
    <3> QED
      BY <1>1, <1>4, <2>1, <2>2, <3>1 DEF QueueInv, LinksInv
  <2>3. CASE queued' # <<>>
    <3>1. Len(queued') \in Nat \ {0} /\ Len(queued) > 1
      BY <1>1, <1>4, <2>3, TailFacts
    <3>2. queued'[1] = queued[2] /\ queued'[Len(queued')] = LastNode
      BY <1>1, <1>4, <2>3, <3>1, TailFacts DEF LastNode
    <3>3. front' = queued[2]
      BY <1>1, <1>4, <1>5, <3>1 DEF QueueInv, LinksInv
    <3> QED
      BY <1>1, <1>4, <2>1, <2>3, <3>2, <3>3 DEF QueueInv, LinksInv, LastNode
  <2> QED
    BY <2>2, <2>3
<1>10. BackInv'
  BY <1>1, <1>2, OthersUndisturbed DEF BackInv
<1>11. PopInv(t)'
  <2>1. \A i \in 1..Len(queued') : queued'[i] # cur[t]
    BY <1>1, <1>4, <1>5, TailFacts DEF QueueInv, NodesInv
  <2>2. back = LastNode
    BY <1>2, <1>4, OthersAtFirstStep DEF QueueInv, BackInv, FirstStep
  <2>3. queued' # <<>> => LastNode' = LastNode
    BY <1>1, <1>4, TailFacts DEF LastNode
  <2> QED
    BY <1>1, <1>2, <1>5, <2>1, <2>2, <2>3, OthersUndisturbed DEF PopInv, PopSteps
<1> QED
  BY <1>1, <1>2, <1>3, <1>4, <1>7, <1>8, <1>9, <1>10, <1>11, OthersUndisturbed DEF QueueInv

LEMMA PopFixBackInv ==
    ASSUME QueueInv, NEW t \in Threads, PopFixBack(t)
    PROVE  QueueInv'
<1>1. /\ Within(t, "fix_back", "handle")
      /\ back' = IF front = NULL THEN NULL ELSE back
      /\ UNCHANGED <<nextnode, instr, front, allocated, queued, cur, adds, handled>>
  BY DEF PopFixBack
<1>2. "handle" \in Steps /\ step[t] = "fix_back" /\ pc[t] = "inside"
  BY <1>1 DEF Within, Steps, PopSteps
<1>3. t \in Mains /\ t \notin Recievers
  BY <1>2, StepsByKind DEF PopSteps
<1>4. QueueTypeOK'
  BY <1>1, <1>2, OthersUndisturbed DEF QueueInv, QueueTypeOK, LockInv
<1>5. NodesInv' /\ LinksInv'
  BY <1>1 DEF QueueInv, NodesInv, LinksInv, LastNode
<1>6. BackInv'
  <2>1. queued # <<>> => front # NULL
    BY TailFacts, QueueAssumption DEF QueueInv, LinksInv, NodesInv
  <2> QED
    BY <1>1, <1>2, <1>3, <2>1 DEF BackInv, QueueInv, LinksInv, PopInv, LastNode
<1>7. PopInv(t)'
  BY <1>1, <1>2, <1>3, OthersUndisturbed DEF PopInv, PopSteps, QueueInv
<1> QED
  BY <1>1, <1>2, <1>3, <1>4, <1>5, <1>6, <1>7, OthersUndisturbed DEF QueueInv

LEMMA NodeFreeInv ==
    ASSUME QueueInv, NEW t \in Threads, NodeFree(t)
    PROVE  QueueInv'
<1>1. /\ Within(t, "handle", "again")
      /\ allocated' = allocated \ {cur[t]}
      /\ cur' = [cur EXCEPT ![t] = NULL]
      /\ UNCHANGED <<nextnode, instr, front, back, queued, adds, handled>>
  BY DEF NodeFree
<1>2. "again" \in Steps /\ step[t] = "handle" /\ pc[t] = "inside"
  BY <1>1 DEF Within, Steps, PopSteps
<1>3. t \in Mains /\ t \notin Recievers
  BY <1>2, StepsByKind DEF PopSteps
<1>4. /\ cur' \in [Threads -> Nodes \cup {NULL}]
      /\ cur'[t] = NULL
      /\ \A u \in Threads : u # t => cur'[u] = cur[u]
  BY <1>1 DEF QueueInv, QueueTypeOK
<1>5. QueueTypeOK'
  BY <1>1, <1>2, <1>4, OthersUndisturbed DEF QueueInv, QueueTypeOK, LockInv
<1>6. NodesInv'
  <2>1. back = NULL \/ \E i \in 1..Len(queued) : back = queued[i]
    BY <1>2, OthersAtFirstStep, TailFacts DEF QueueInv, NodesInv, BackInv, FirstStep, LastNode
  <2> QED
    BY <1>1, <1>2, <1>3, <2>1 DEF QueueInv, NodesInv, PopInv
<1>7. LinksInv'
  BY <1>1 DEF QueueInv, LinksInv, LastNode
<1>8. BackInv'
  BY <1>1, <1>2, <1>4, OthersUndisturbed, OthersAtFirstStep
  DEF QueueInv, BackInv, FirstStep, LastNode
<1>9. PopInv(t)'
  BY <1>1, <1>2, <1>4, OthersUndisturbed DEF PopInv, PopSteps
<1> QED
  BY <1>1, <1>2, <1>3, <1>4, <1>5, <1>6, <1>7, <1>8, <1>9, OthersUndisturbed DEF QueueInv

(* The lock and unlock steps.                                              *)
LEMMA QueueEnterInv ==
    ASSUME QueueInv, NEW t \in Threads, QueueEnter(t)
    PROVE  QueueInv'
<1>1. /\ Enter(t)
      /\ t \in Recievers => adds[t] < MaxAdds
      /\ UNCHANGED <<listVars, progVars>>
  BY DEF QueueEnter
<1>2. LockInv'
  BY <1>1, EnterInv DEF QueueInv
<1>3. pc[t] # "inside" /\ \A u \in Threads : u # t => pc'[u] = pc[u]
  BY <1>1
  DEF Enter, LowPrioCall, HighPrioCall, LockLowPrio, LockNext, LockData, UnlockNext, Lock, Unlock,
      QueueInv, LockInv, LockTypeOK
<1>4. QueueTypeOK'
  BY <1>1, <1>2, <1>3 DEF QueueInv, QueueTypeOK, LockInv, listVars, progVars
<1>5. NodesInv' /\ LinksInv' /\ BackInv'
  BY <1>1 DEF QueueInv, NodesInv, LinksInv, BackInv, LastNode, listVars, progVars
<1>6. \A u \in Recievers : AddInv(u)'
  BY <1>1, <1>3, ThreadsAssumption DEF QueueInv, AddInv, LastNode, Threads, listVars, progVars
<1>7. \A u \in Mains : PopInv(u)'
  BY <1>1 DEF QueueInv, PopInv, LastNode, listVars, progVars
<1> QED
  BY <1>2, <1>4, <1>5, <1>6, <1>7 DEF QueueInv

LEMMA QueueLeaveInv ==
    ASSUME QueueInv, NEW t \in Threads, QueueLeave(t)
    PROVE  QueueInv'
<1>1. /\ Leave(t)
      /\ step' = [step EXCEPT ![t] = FirstStep(t)]
      /\ UNCHANGED <<listVars, cur, adds, handled>>
  BY DEF QueueLeave, Leave
<1>2. LockInv'
  BY <1>1, LeaveInv DEF QueueInv
<1>3. /\ step[t] \in {"done", "again", FirstStep(t)}
      /\ pc'[t] \in {"idle", "drop_lowprio"}
      /\ \A u \in Threads : u # t => pc'[u] = pc[u]
  BY <1>1
  DEF QueueLeave, UnlockData, UnlockLowPrio, Unlock, QueueInv, LockInv, LockTypeOK, QueueTypeOK
<1>4. /\ step' \in [Threads -> Steps]
      /\ step'[t] = FirstStep(t)
      /\ \A u \in Threads : u # t => step'[u] = step[u]
  BY <1>1 DEF QueueInv, QueueTypeOK, FirstStep, Steps, AddSteps, PopSteps
<1>5. QueueTypeOK'
  BY <1>1, <1>2, <1>3, <1>4 DEF QueueInv, QueueTypeOK, LockInv, listVars
<1>6. NodesInv' /\ LinksInv'
  BY <1>1 DEF QueueInv, NodesInv, LinksInv, LastNode, listVars
<1>7. BackInv'
  BY <1>1, <1>3, <1>4 DEF QueueInv, BackInv, LastNode, listVars, FirstStep
<1>8. ASSUME NEW u \in Recievers PROVE AddInv(u)'
  <2>1. CASE u = t
    BY <1>1, <1>3, <1>4, <2>1 DEF QueueInv, AddInv, AddSteps, FirstStep
  <2>2. CASE u # t
    BY <1>1, <1>3, <1>4, <2>2 DEF QueueInv, AddInv, LastNode, Threads, listVars
  <2> QED
    BY <2>1, <2>2
<1>9. ASSUME NEW u \in Mains PROVE PopInv(u)'
  <2>1. CASE u = t
    BY <1>1, <1>3, <1>4, <2>1, ThreadsAssumption DEF QueueInv, PopInv, PopSteps, FirstStep
  <2>2. CASE u # t
    BY <1>1, <1>4, <2>2 DEF QueueInv, PopInv, LastNode, Threads, listVars
  <2> QED
    BY <2>1, <2>2
<1> QED
  BY <1>2, <1>5, <1>6, <1>7, <1>8, <1>9 DEF QueueInv

LEMMA QueueStepInv == QueueInv /\ [QueueNext]_queueVars => QueueInv'
<1> SUFFICES ASSUME QueueInv, [QueueNext]_queueVars PROVE QueueInv'
  OBVIOUS
<1>1. ASSUME NEW t \in Threads, Add(t) PROVE QueueInv'
  BY <1>1, AddAllocInv, AddNoMemoryInv, AddTestInv, AddLinkFrontInv, AddLinkBackInv,
     AddSetBackInv
  DEF Add
<1>2. ASSUME NEW t \in Threads, Pop(t) PROVE QueueInv'
  BY <1>2, PopEmptyInv, PopReadInv, PopAdvanceInv, PopFixBackInv, NodeFreeInv DEF Pop
<1>3. CASE QueueNext
  BY <1>1, <1>2, <1>3, QueueEnterInv, QueueLeaveInv DEF QueueNext
<1>4. CASE UNCHANGED queueVars
  BY <1>4
  DEF queueVars, lockVars, listVars, progVars, QueueInv, LockInv, LockTypeOK, OwnersMatchPlaces,
      QueueTypeOK, NodesInv, LinksInv, BackInv, AddInv, PopInv, LastNode
<1> QED
  BY <1>3, <1>4

LEMMA QueueInvariant == QueueSpec => []QueueInv
BY QueueInitInv, QueueStepInv, PTL DEF QueueSpec

(* The list, its cells and the threads' places in it keep their types: a   *)
(* thread is in the middle of add or pop only between lock and unlock.     *)
THEOREM QueueTypeCorrect == QueueSpec => []QueueTypeOK
<1>1. QueueInv => QueueTypeOK
  BY DEF QueueInv
<1> QED
  BY QueueInvariant, <1>1, PTL

(* The pointers in memory always spell out the order of the adds.          *)
THEOREM ListCorrect == QueueSpec => []ListWellFormed
<1>1. QueueInv => ListWellFormed
  BY DEF QueueInv, NodesInv, LinksInv, BackInv, ListWellFormed, LastNode
<1> QED
  BY QueueInvariant, <1>1, PTL

(* No pointer that add or pop will follow leads to freed memory.           *)
THEOREM NothingDangles == QueueSpec => []NoDanglingPointer
<1>1. ASSUME QueueInv PROVE NoDanglingPointer
  <2>1. front \in allocated \cup {NULL}
    BY <1>1, TailFacts DEF QueueInv, NodesInv, LinksInv
  <2>2. back \in allocated \cup {NULL}
    BY <1>1 DEF QueueInv, NodesInv
  <2>3. ASSUME NEW t \in Threads, step[t] = "link_back" PROVE back \in allocated
    BY <1>1, <2>2, <2>3, StepsByKind DEF QueueInv, AddInv, AddSteps
  <2> QED
    BY <2>1, <2>2, <2>3 DEF NoDanglingPointer
<1> QED
  BY QueueInvariant, <1>1, PTL

(* What a step does to the instructions in the queue: nothing while the    *)
(* nodes of the queue and what is written in them stay.                    *)
LEMMA ContentsKept ==
    ASSUME NEW q, NEW f, NEW g, \A i \in DOMAIN q : f[q[i]] = g[q[i]]
    PROVE  [i \in DOMAIN q |-> f[q[i]]] = [i \in DOMAIN q |-> g[q[i]]]
OBVIOUS

LEMMA QueuedDomain ==
    ASSUME QueueInv
    PROVE  DOMAIN queued = 1..Len(queued) /\ Contents \in Seq(Msgs)
<1>1. queued \in Seq(Nodes) /\ \A i \in 1..Len(queued) : instr[queued[i]] \in Msgs
  BY DEF QueueInv, NodesInv
<1> QED
  BY <1>1 DEF Contents

(* Linking a node puts its instruction in, advancing takes the first out.  *)
LEMMA LinkPuts ==
    ASSUME QueueInv, NEW t \in Threads, AddLinkFront(t) \/ AddLinkBack(t)
    PROVE  \E m \in Msgs : Fifo!Put(m)
<1>1. /\ step[t] \in {"link_front", "link_back"}
      /\ queued' = Append(queued, cur[t])
      /\ instr' = instr
      /\ handled' = handled
  BY DEF AddLinkFront, AddLinkBack, Within
<1>2. /\ t \in Recievers
      /\ cur[t] \in Nodes
      /\ instr[cur[t]] \in Msgs
      /\ queued \in Seq(Nodes)
  BY <1>1, StepsByKind DEF AddSteps, QueueInv, AddInv, QueueTypeOK
<1>3. Contents' = Append(Contents, instr[cur[t]])
  <2> DEFINE r == Append(Contents, instr[cur[t]])
  <2>1. DOMAIN queued = 1..Len(queued) /\ Len(queued) \in Nat
    BY <1>2
  <2>2. DOMAIN Contents = 1..Len(queued) /\ Len(Contents) = Len(queued) /\ Contents \in Seq(Msgs)
    BY <2>1, QueuedDomain DEF Contents
  <2>3. queued' \in Seq(Nodes) /\ DOMAIN queued' = 1..(Len(queued) + 1)
    BY <1>1, <1>2
  <2>4. Contents' = [i \in 1..(Len(queued) + 1) |-> instr[queued'[i]]]
    BY <1>1, <2>3 DEF Contents
  <2>5. r \in Seq(Msgs) /\ Len(r) = Len(queued) + 1
    BY <1>2, <2>2
  <2>6. ASSUME NEW i \in 1..(Len(queued) + 1) PROVE r[i] = instr[queued'[i]] /\ r[i] \in Msgs
    <3>1. CASE i = Len(queued) + 1
      BY <1>1, <1>2, <2>1, <2>2, <3>1
    <3>2. CASE i # Len(queued) + 1
      <4>1. i \in 1..Len(queued) /\ r[i] = Contents[i] /\ queued'[i] = queued[i]
        BY <1>1, <1>2, <2>1, <2>2, <3>2
      <4> QED
        BY <2>2, <4>1 DEF Contents
    <3> QED
      BY <3>1, <3>2
  <2> HIDE DEF r
  <2>7. Contents' \in Seq(Msgs) /\ Len(Contents') = Len(queued) + 1
    BY <2>1, <2>4, <2>6
  <2>8. \A i \in 1..Len(Contents') : Contents'[i] = r[i]
    BY <2>4, <2>6, <2>7
  <2> QED
    BY <2>5, <2>7, <2>8, SeqEqual DEF r
<1> QED
  BY <1>1, <1>2, <1>3 DEF Fifo!Put

LEMMA AdvanceTakes ==
    ASSUME QueueInv, NEW t \in Threads, PopAdvance(t)
    PROVE  Fifo!Take
<1>1. /\ queued' = Tail(queued)
      /\ handled' = Append(handled, instr[cur[t]])
      /\ instr' = instr
  BY DEF PopAdvance
<1>2. queued # <<>> /\ cur[t] = queued[1] /\ queued \in Seq(Nodes)
  BY PopAdvanceInv DEF QueueInv, NodesInv
<1>3. /\ DOMAIN queued = 1..Len(queued)
      /\ Len(queued) \in Nat \ {0}
      /\ DOMAIN Contents = 1..Len(queued)
      /\ Len(Contents) = Len(queued)
      /\ Contents \in Seq(Msgs)
  BY <1>2, QueuedDomain, TailFacts DEF Contents
<1>4. Contents # <<>> /\ Head(Contents) = instr[cur[t]]
  BY <1>2, <1>3 DEF Contents
<1>5. Contents' = Tail(Contents)
  <2>1. DOMAIN queued' = 1..(Len(queued) - 1)
    BY <1>1, <1>2, <1>3
  <2>2. Contents' = [i \in 1..(Len(queued) - 1) |-> instr[queued[i + 1]]]
    BY <1>1, <1>2, <1>3, <2>1 DEF Contents
  <2>3. /\ Tail(Contents) \in Seq(Msgs)
        /\ Len(Tail(Contents)) = Len(queued) - 1
        /\ \A i \in 1..(Len(queued) - 1) : Tail(Contents)[i] = Contents[i + 1]
    BY <1>3, <1>4, HeadTailProperties
  <2>4. \A i \in 1..(Len(queued) - 1) :
          i + 1 \in 1..Len(queued) /\ Contents[i + 1] = instr[queued[i + 1]]
                                   /\ Contents[i + 1] \in Msgs
    BY <1>3 DEF Contents
  <2>5. Contents' \in Seq(Msgs) /\ Len(Contents') = Len(queued) - 1
    BY <1>3, <2>2, <2>4
  <2>6. \A i \in 1..Len(Contents') : Contents'[i] = Tail(Contents)[i]
    BY <2>2, <2>3, <2>4, <2>5
  <2> QED
    BY <2>3, <2>5, <2>6, SeqEqual
<1> QED
  BY <1>1, <1>4, <1>5 DEF Fifo!Take

(* Every other step leaves the promise of the queue where it is.           *)
LEMMA OthersStutter ==
    ASSUME QueueInv, NEW t \in Threads,
           \/ AddAlloc(t) \/ AddNoMemory(t) \/ AddTest(t) \/ AddSetBack(t)
           \/ PopEmpty(t) \/ PopRead(t) \/ PopFixBack(t) \/ NodeFree(t)
           \/ QueueEnter(t) \/ QueueLeave(t)
    PROVE  UNCHANGED Fifo!fifoVars
<1>1. queued' = queued /\ handled' = handled
  BY DEF AddAlloc, AddNoMemory, AddTest, AddSetBack, PopEmpty, PopRead, PopFixBack, NodeFree,
         QueueEnter, QueueLeave, listVars, progVars
<1>2. \A i \in DOMAIN queued : instr'[queued[i]] = instr[queued[i]]
  <2>1. CASE AddAlloc(t)
    <3>1. PICK n \in Nodes \ allocated : instr' = [instr EXCEPT ![n] = NewMsg(t)]
      BY <2>1 DEF AddAlloc
    <3>2. \A i \in DOMAIN queued : queued[i] \in allocated
      BY QueuedDomain DEF QueueInv, NodesInv
    <3> QED
      BY <3>1, <3>2 DEF QueueInv, QueueTypeOK
  <2>2. CASE ~AddAlloc(t)
    BY <2>2
    DEF AddNoMemory, AddTest, AddSetBack, PopEmpty, PopRead, PopFixBack, NodeFree,
        QueueEnter, QueueLeave, listVars
  <2> QED
    BY <2>1, <2>2
<1>3. Contents' = Contents
  BY <1>1, <1>2, ContentsKept DEF Contents
<1> QED
  BY <1>1, <1>3 DEF Fifo!fifoVars

(* The list under its locks is a queue: each instruction comes out once,   *)
(* in the order of the adds.                                               *)
THEOREM QueueIsFifo == QueueSpec => ImplementsFifo
<1>1. QueueInit => Fifo!FifoInit
  BY DEF QueueInit, Fifo!FifoInit, Contents
<1>2. QueueInv /\ [QueueNext]_queueVars => [Fifo!FifoNext]_(Fifo!fifoVars)
  <2> SUFFICES ASSUME QueueInv, [QueueNext]_queueVars
               PROVE  [Fifo!FifoNext]_(Fifo!fifoVars)
    OBVIOUS
  <2>1. CASE QueueNext
    <3>1. PICK t \in Threads : QueueEnter(t) \/ QueueLeave(t) \/ Add(t) \/ Pop(t)
      BY <2>1 DEF QueueNext
    <3>2. CASE AddLinkFront(t) \/ AddLinkBack(t)
      BY <3>2, LinkPuts DEF Fifo!FifoNext
    <3>3. CASE PopAdvance(t)
      BY <3>3, AdvanceTakes DEF Fifo!FifoNext
    <3> QED
      BY <3>1, <3>2, <3>3, OthersStutter DEF Add, Pop
  <2>2. CASE UNCHANGED queueVars
    BY <2>2 DEF queueVars, listVars, progVars, Fifo!fifoVars, Contents
  <2> QED
    BY <2>1, <2>2
<1> QED
  BY <1>1, <1>2, QueueInvariant, PTL DEF QueueSpec, ImplementsFifo, Fifo!FifoSpec

-----------------------------------------------------------------------------
(* Every allocated node is in the list or in a thread's hands: the part of *)
(* EveryNodeHasOneOwner that QueueInv does not imply.                      *)
NoLeak ==
    \A n \in allocated :
        \/ \E i \in 1..Len(queued) : queued[i] = n
        \/ \E t \in Threads : cur[t] = n

LEMMA AddNoLeak ==
    ASSUME QueueInv, NoLeak, NEW t \in Threads, Add(t)
    PROVE  NoLeak'
<1> USE DEF NoLeak
<1>1. cur \in [Threads -> Nodes \cup {NULL}] /\ queued \in Seq(Nodes)
  BY DEF QueueInv, QueueTypeOK
<1>2. CASE AddAlloc(t)
  <2>1. PICK n \in Nodes \ allocated :
          /\ Within(t, "alloc", "test")
          /\ allocated' = allocated \cup {n}
          /\ cur' = [cur EXCEPT ![t] = n]
          /\ queued' = queued
    BY <1>2 DEF AddAlloc
  <2>2. cur[t] = NULL
    BY <2>1, StepsByKind DEF Within, AddSteps, QueueInv, AddInv
  <2>3. NULL \notin allocated
    BY QueueAssumption DEF QueueInv, QueueTypeOK
  <2> QED
    BY <1>1, <2>1, <2>2, <2>3
<1>3. CASE AddNoMemory(t) \/ AddTest(t)
  BY <1>3 DEF AddNoMemory, AddTest, listVars
<1>4. CASE AddLinkFront(t) \/ AddLinkBack(t)
  <2>1. /\ queued' = Append(queued, cur[t])
        /\ step[t] \in {"link_front", "link_back"}
        /\ UNCHANGED <<allocated, cur>>
    BY <1>4 DEF AddLinkFront, AddLinkBack, Within
  <2>2. cur[t] \in Nodes
    BY <2>1, StepsByKind DEF AddSteps, QueueInv, AddInv, QueueTypeOK
  <2> QED
    BY <1>1, <2>1, <2>2, AppendFacts
<1>5. CASE AddSetBack(t)
  <2>1. /\ step[t] = "set_back"
        /\ cur' = [cur EXCEPT ![t] = NULL]
        /\ UNCHANGED <<allocated, queued>>
    BY <1>5 DEF AddSetBack, Within
  <2>2. queued # <<>> /\ cur[t] = LastNode
    BY <2>1, StepsByKind DEF AddSteps, QueueInv, AddInv
  <2>3. Len(queued) \in 1..Len(queued) /\ queued[Len(queued)] = cur[t]
    BY <1>1, <2>2, TailFacts DEF LastNode
  <2> QED
    BY <1>1, <2>1, <2>3
<1> QED
  BY <1>2, <1>3, <1>4, <1>5 DEF Add

LEMMA PopNoLeak ==
    ASSUME QueueInv, NoLeak, NEW t \in Threads, Pop(t)
    PROVE  NoLeak'
<1> USE DEF NoLeak
<1>1. cur \in [Threads -> Nodes \cup {NULL}] /\ queued \in Seq(Nodes)
  BY DEF QueueInv, QueueTypeOK
<1>2. NULL \notin allocated
  BY QueueAssumption DEF QueueInv, QueueTypeOK
<1>3. CASE PopEmpty(t) \/ PopFixBack(t)
  BY <1>3 DEF PopEmpty, PopFixBack, listVars
<1>4. CASE PopRead(t)
  <2>1. /\ step[t] \in {"read", "again"}
        /\ cur' = [cur EXCEPT ![t] = front]
        /\ UNCHANGED <<allocated, queued>>
    BY <1>4 DEF PopRead, listVars
  <2>2. cur[t] = NULL
    BY <2>1, StepsByKind DEF PopSteps, QueueInv, PopInv
  <2> QED
    BY <1>1, <1>2, <2>1, <2>2
<1>5. CASE PopAdvance(t)
  <2>1. queued' = Tail(queued) /\ UNCHANGED <<allocated, cur>>
    BY <1>5 DEF PopAdvance
  <2>2. queued # <<>> /\ cur[t] = queued[1]
    BY <1>5, PopAdvanceInv
  <2>3. ASSUME NEW i \in 1..Len(queued), i # 1
        PROVE  i - 1 \in 1..Len(queued') /\ queued'[i - 1] = queued[i]
    BY <1>1, <2>1, <2>2, <2>3, TailFacts
  <2>4. ASSUME NEW n \in allocated'
        PROVE  (\E i \in 1..Len(queued') : queued'[i] = n) \/ (\E u \in Threads : cur'[u] = n)
    <3>1. CASE \E u \in Threads : cur[u] = n
      BY <2>1, <3>1
    <3>2. CASE \E i \in 1..Len(queued) : queued[i] = n
      <4>1. PICK i \in 1..Len(queued) : queued[i] = n
        BY <3>2
      <4>2. CASE i = 1
        BY <2>1, <2>2, <4>1, <4>2
      <4>3. CASE i # 1
        BY <2>3, <4>1, <4>3
      <4> QED
        BY <4>2, <4>3
    <3> QED
      BY <2>1, <3>1, <3>2
  <2> QED
    BY <2>4
<1>6. CASE NodeFree(t)
  <2>1. /\ allocated' = allocated \ {cur[t]}
        /\ cur' = [cur EXCEPT ![t] = NULL]
        /\ queued' = queued
    BY <1>6 DEF NodeFree
  <2> QED
    BY <1>1, <2>1
<1> QED
  BY <1>3, <1>4, <1>5, <1>6 DEF Pop

(* Who may hold a node, and where that node may be.                        *)
LEMMA OneHolder ==
    ASSUME QueueInv
    PROVE  /\ \A t \in Threads : cur[t] # NULL => cur[t] \in allocated /\ step[t] # FirstStep(t)
           /\ \A t, u \in Threads : cur[t] # NULL /\ cur[u] # NULL => t = u
<1>1. ASSUME NEW t \in Threads, cur[t] # NULL
      PROVE  cur[t] \in allocated /\ step[t] # FirstStep(t)
  <2>1. CASE t \in Recievers
    <3>1. AddInv(t) /\ FirstStep(t) = "alloc"
      BY <2>1 DEF QueueInv, FirstStep
    <3>2. step[t] = "set_back" => cur[t] \in allocated
      BY <3>1, TailFacts DEF AddInv, QueueInv, NodesInv, LastNode
    <3> QED
      BY <1>1, <3>1, <3>2 DEF AddInv, AddSteps
  <2>2. CASE t \in Mains
    <3>1. PopInv(t) /\ FirstStep(t) = "read"
      BY <2>2, ThreadsAssumption DEF QueueInv, FirstStep
    <3>2. step[t] = "advance" => cur[t] \in allocated
      BY <3>1, TailFacts DEF PopInv, QueueInv, NodesInv, LinksInv
    <3> QED
      BY <1>1, <3>1, <3>2 DEF PopInv, PopSteps
  <2> QED
    BY <2>1, <2>2 DEF Threads
<1>2. \A t, u \in Threads : cur[t] # NULL /\ cur[u] # NULL => t = u
  BY <1>1, OthersAtFirstStep DEF QueueInv, QueueTypeOK
<1> QED
  BY <1>1, <1>2

(* Nothing leaks and nothing is owned twice: malloc's failure, the drain   *)
(* to empty and the free behind every instruction included.                *)
THEOREM NodesOwned == QueueSpec => []EveryNodeHasOneOwner
<1>1. QueueInit => NoLeak
  BY DEF QueueInit, NoLeak
<1>2. QueueInv /\ NoLeak /\ [QueueNext]_queueVars => NoLeak'
  <2> SUFFICES ASSUME QueueInv, NoLeak, [QueueNext]_queueVars PROVE NoLeak'
    OBVIOUS
  <2>1. ASSUME NEW t \in Threads, QueueEnter(t) \/ QueueLeave(t) PROVE NoLeak'
    BY <2>1 DEF NoLeak, QueueEnter, QueueLeave, listVars, progVars
  <2>2. CASE QueueNext
    BY <2>1, <2>2, AddNoLeak, PopNoLeak DEF QueueNext
  <2>3. CASE UNCHANGED queueVars
    BY <2>3 DEF NoLeak, queueVars, listVars, progVars
  <2> QED
    BY <2>2, <2>3
<1>3. ASSUME QueueInv, NoLeak PROVE EveryNodeHasOneOwner
  <2>1. DOMAIN queued = 1..Len(queued) /\ \A i \in 1..Len(queued) : queued[i] \in allocated
    BY <1>3, QueuedDomain DEF QueueInv, NodesInv
  <2>2. NULL \notin allocated
    BY <1>3, QueueAssumption DEF QueueInv, QueueTypeOK
  <2>3. allocated = {queued[i] : i \in DOMAIN queued}
                        \cup {cur[t] : t \in {u \in Threads : cur[u] # NULL}}
    BY <1>3, <2>1, <2>2, OneHolder DEF NoLeak
  <2>4. \A t, u \in Threads : cur[t] = cur[u] /\ cur[t] # NULL => t = u
    BY <1>3, OneHolder
  <2>5. ASSUME NEW t \in Threads,
               step[t] \in {"test", "link_front", "link_back", "fix_back", "handle"}
        PROVE  \A i \in DOMAIN queued : queued[i] # cur[t]
    BY <1>3, <2>1, <2>5, StepsByKind DEF QueueInv, AddInv, PopInv, AddSteps, PopSteps
  <2> QED
    BY <2>3, <2>4, <2>5 DEF EveryNodeHasOneOwner
<1> QED
  BY <1>1, <1>2, <1>3, QueueInvariant, PTL DEF QueueSpec
=============================================================================
