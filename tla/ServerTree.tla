----------------------------- MODULE ServerTree -----------------------------
(***************************************************************************)
(* A tree of processes that pass instructions to each other: the process   *)
(* tables, routing and sending (wimp_server.c 231-256, 317-321, 369-475,   *)
(* wimp_process_table.c), a reciever per connection, and the way processes *)
(* leave: on an exit instruction, by themselves, because their parent is   *)
(* gone, or by a crash.                                                    *)
(*                                                                         *)
(* The handshakes are over and every connection is active.  A connection   *)
(* delivers instructions whole and in order (see Reciever), and adding to  *)
(* and popping from a queue are one step each (see InstrQueue).  The main  *)
(* loop is the one of tests/5_SHARED_DATA_SPACE.                           *)
(***************************************************************************)
EXTENDS HashString, FiniteSets

CONSTANTS
    Parent,     \* the parent of each process, NoKey for the master
    Programs,   \* what programs may do: "work", "exit", "quit", "crash"
    MaxSends    \* bound: instructions that programs send

Procs == Keys

(* A process is started by its parent: from one to the next the depth in   *)
(* the tree grows.                                                         *)
ASSUME TreeAssumption ==
    /\ IsFiniteSet(Procs)
    /\ Parent \in [Procs -> Procs \cup {NoKey}]
    /\ \E depth \in [Procs -> 0..Cardinality(Procs)] :
        \A p \in Procs : Parent[p] # NoKey => depth[Parent[p]] < depth[p]
    /\ Programs \subseteq {"work", "exit", "quit", "crash"}
    /\ MaxSends \in Nat

Children(p) == {q \in Procs : Parent[q] = p}
Neighbours(p) == Children(p) \cup ({Parent[p]} \ {NoKey})

VARIABLES
    mode,       \* "running", "draining", "freeing", "sending", "gone", "crashed"
    table,      \* the process table: the keys
    live,       \* ... and process_active of each of them
    cursor,     \* where wimp_server_free is in its loop over the table
    incoming, outgoing,     \* the two queues
    channel,    \* channel[p][q]: sent by p and not yet read by q
    listening,  \* listening[p][q]: p's reciever for q is running
    sends,      \* how many instructions programs have sent
    handled     \* history: what each process has handled

vars == <<mode, table, live, cursor, incoming, outgoing, channel, listening, sends, handled>>

(* "via" is history: the processes an instruction has been at.             *)
Instr(id, kind, src, dest) ==
    [id |-> id, kind |-> kind, src |-> src, dest |-> dest, via |-> <<src>>]
Instrs == [id : 0..MaxSends, kind : {"work", "exit"}, src : Procs, dest : Procs, via : Seq(Procs)]

TreeTypeOK ==
    /\ mode \in [Procs -> {"running", "draining", "freeing", "sending", "gone", "crashed"}]
    /\ table \in [Procs -> [Buckets -> Seq(Procs)]]
    /\ live \in [Procs -> [Procs -> BOOLEAN]]
    /\ cursor \in [Procs -> [entry : Procs \cup {NoKey}, i : 0..Size]]
    /\ incoming \in [Procs -> Seq(Instrs)] /\ outgoing \in [Procs -> Seq(Instrs)]
    /\ channel \in [Procs -> [Procs -> Seq(Instrs)]]
    /\ listening \in [Procs -> [Procs -> BOOLEAN]]
    /\ sends \in 0..MaxSends
    /\ handled \in [Procs -> Seq(Instrs)]
    /\ \A p, q \in Procs : live[p][q] => Has(table[p], q)

(* Programs add their neighbours in any order.                             *)
Init ==
    /\ mode = [p \in Procs |-> "running"]
    /\ \E order \in [Procs -> UNION {SetToSeqs(Neighbours(p)) : p \in Procs}] :
        /\ \A p \in Procs : order[p] \in SetToSeqs(Neighbours(p))
        /\ table = [p \in Procs |-> Filled(order[p])]
    /\ live = [p \in Procs |-> [q \in Procs |-> q \in Neighbours(p)]]
    /\ cursor = [p \in Procs |-> [entry |-> NoKey, i |-> 0]]
    /\ incoming = [p \in Procs |-> <<>>] /\ outgoing = [p \in Procs |-> <<>>]
    /\ channel = [p \in Procs |-> [q \in Procs |-> <<>>]]
    /\ listening = [p \in Procs |-> [q \in Procs |-> q \in Neighbours(p)]]
    /\ sends = 0
    /\ handled = [p \in Procs |-> <<>>]

Up(p) == mode[p] \in {"running", "draining", "freeing", "sending"}

(* What a process takes with it when it ends: its queues and what is still *)
(* on its way to it.  What it sent itself can still be read.               *)
Ends(p, how) ==
    /\ mode' = [mode EXCEPT ![p] = how]
    /\ incoming' = [incoming EXCEPT ![p] = <<>>]
    /\ outgoing' = [outgoing EXCEPT ![p] = <<>>]
    /\ channel' = [q \in Procs |-> [channel[q] EXCEPT ![p] = <<>>]]
    /\ UNCHANGED <<cursor, listening, sends, handled>>

-----------------------------------------------------------------------------
(* wimp_server_add, called by the program.                                 *)
Add(p) ==
    /\ mode[p] = "running"
    /\ sends < MaxSends
    /\ \E kind \in {"work", "exit"} \cap Programs, dest \in Procs \ {p} :
        outgoing' = [outgoing EXCEPT ![p] = Append(@, Instr(sends + 1, kind, p, dest))]
    /\ sends' = sends + 1
    /\ UNCHANGED <<mode, table, live, cursor, incoming, channel, listening, handled>>

(* Slips: the parent is asked first; the first entry is the last resort.   *)
NextHopFirstEntry(p, instr) ==
    IF Has(table[p], instr.dest) THEN instr.dest
    ELSE IF Parent[p] # NoKey /\ Has(table[p], Parent[p]) THEN Parent[p]
    ELSE FirstEntry(table[p]).entry
NextHopParentFirst(p, instr) ==
    IF Parent[p] # NoKey /\ Has(table[p], Parent[p]) THEN Parent[p]
    ELSE IF Has(table[p], instr.dest) THEN instr.dest
    ELSE NoKey

(* wimp_server_send_instructions, one instruction: to its destination if   *)
(* the table has it, else to the parent, else to nobody.                   *)
NextHop(p, instr) ==
    IF Has(table[p], instr.dest) THEN instr.dest
    ELSE IF Parent[p] # NoKey /\ Has(table[p], Parent[p]) THEN Parent[p]
    ELSE NoKey

(* A send to a process that has left fails, and the loop is left.          *)
Send(p) ==
    /\ mode[p] \in {"running", "sending"}
    /\ outgoing[p] # <<>>
    /\ LET instr == Head(outgoing[p])
           hop == NextHop(p, instr)
       IN  channel' = IF hop # NoKey /\ live[p][hop] /\ Up(hop)
                      THEN [channel EXCEPT ![p][hop] = Append(@, instr)]
                      ELSE channel
    /\ outgoing' = [outgoing EXCEPT ![p] = Tail(@)]
    /\ UNCHANGED <<mode, table, live, cursor, incoming, listening, sends, handled>>

(* Slip: the instruction is put at the front of the queue.                 *)
RecieveAtFront(p, q) ==
    /\ Up(p) /\ listening[p][q]
    /\ mode[p] # "draining"
    /\ channel[q][p] # <<>>
    /\ LET instr == [Head(channel[q][p]) EXCEPT !.via = Append(@, p)]
       IN  /\ incoming' = [incoming EXCEPT ![p] = <<instr>> \o @]
           /\ listening' = [listening EXCEPT
                  ![p][q] = ~(instr.kind = "exit" /\ instr.dest = p)]
    /\ channel' = [channel EXCEPT ![q][p] = Tail(@)]
    /\ UNCHANGED <<mode, table, live, cursor, outgoing, sends, handled>>

(* p's reciever for q; our own exit is the last instruction it reads.      *)
Recieve(p, q) ==
    /\ Up(p) /\ listening[p][q]
    /\ mode[p] # "draining"
    /\ channel[q][p] # <<>>
    /\ LET instr == [Head(channel[q][p]) EXCEPT !.via = Append(@, p)]
       IN  /\ incoming' = [incoming EXCEPT ![p] = Append(@, instr)]
           /\ listening' = [listening EXCEPT
                  ![p][q] = ~(instr.kind = "exit" /\ instr.dest = p)]
    /\ channel' = [channel EXCEPT ![q][p] = Tail(@)]
    /\ UNCHANGED <<mode, table, live, cursor, outgoing, sends, handled>>

(* One round of the main loop: route what is for others, handle the rest.  *)
(* wimp_server_instr_routed hands the node over to the outgoing queue.     *)
(* After an exit the rest of the queue, which stays locked, is handled too.*)
Handle(p) ==
    /\ mode[p] \in {"running", "draining"}
    /\ incoming[p] # <<>>
    /\ LET instr == Head(incoming[p])
       IN  IF instr.dest # p
           THEN /\ outgoing' = [outgoing EXCEPT ![p] = Append(@, instr)]
                /\ UNCHANGED handled
           ELSE /\ handled' = [handled EXCEPT ![p] = Append(@, instr)]
                /\ UNCHANGED outgoing
    /\ LET instr == Head(incoming[p])
           leave == mode[p] = "draining" \/ (instr.kind = "exit" /\ instr.dest = p)
       IN  mode' = IF leave THEN [mode EXCEPT ![p] =
                                      IF Len(incoming[p]) = 1 THEN "freeing" ELSE "draining"]
                   ELSE mode
    /\ incoming' = [incoming EXCEPT ![p] = Tail(@)]
    /\ UNCHANGED <<table, live, cursor, channel, listening, sends>>

(* Slip: the main loop goes on.                                            *)
ParentGoneIgnored(p) ==
    /\ mode[p] = "running"
    /\ Parent[p] # NoKey
    /\ ~Up(Parent[p])
    /\ live' = [live EXCEPT ![p][Parent[p]] = FALSE]
    /\ table' = [table EXCEPT ![p] = RemoveEntry(@, Parent[p])]
    /\ UNCHANGED <<mode, cursor, incoming, outgoing, channel, listening, sends, handled>>

(* wimp_server_is_parent_alive: the parent's sockets are closed and the    *)
(* ping fails.  The entry is removed, and the main loop is left.           *)
ParentGone(p) ==
    /\ mode[p] = "running"
    /\ Parent[p] # NoKey
    /\ ~Up(Parent[p])
    /\ live' = [live EXCEPT ![p][Parent[p]] = FALSE]
    /\ IF RemoveFollowsNull(table[p], Parent[p])
       THEN Ends(p, "crashed") /\ UNCHANGED table
       ELSE /\ mode' = [mode EXCEPT ![p] = "freeing"]
            /\ table' = [table EXCEPT ![p] = RemoveEntry(@, Parent[p])]
            /\ UNCHANGED <<cursor, incoming, outgoing, channel, listening, sends, handled>>

(* A program leaves its loop, or its process dies.                         *)
Quit(p) ==
    /\ "quit" \in Programs
    /\ mode[p] = "running"
    /\ mode' = [mode EXCEPT ![p] = "freeing"]
    /\ UNCHANGED <<table, live, cursor, incoming, outgoing, channel, listening, sends, handled>>

Crash(p) ==
    /\ "crash" \in Programs
    /\ Up(p)
    /\ Ends(p, "crashed")
    /\ UNCHANGED <<table, live>>

-----------------------------------------------------------------------------
(* wimp_server_free: one round of the loop over the table, an exit for     *)
(* every child.                                                            *)
TellChildren(p) ==
    /\ mode[p] = "freeing"
    /\ LET here == IF cursor[p].i = 0 THEN FirstEntry(table[p]) ELSE cursor[p]
       IN  IF InLoop(here)
           THEN /\ outgoing' =
                    IF here.entry \in Children(p)
                    THEN [outgoing EXCEPT ![p] = Append(@, Instr(0, "exit", p, here.entry))]
                    ELSE outgoing
                /\ cursor' = [cursor EXCEPT ![p] = NextEntry(table[p], here)]
                /\ UNCHANGED mode
           ELSE /\ mode' = [mode EXCEPT ![p] = "sending"]
                /\ UNCHANGED <<outgoing, cursor>>
    /\ UNCHANGED <<table, live, incoming, channel, listening, sends, handled>>

(* Slip: the server is closed with the exits still in its queue.           *)
CloseAtOnce(p) ==
    /\ mode[p] = "sending"
    /\ Ends(p, "gone")
    /\ UNCHANGED <<table, live>>

(* Everything has been sent: sockets, table and queues are freed.          *)
Close(p) ==
    /\ mode[p] = "sending"
    /\ outgoing[p] = <<>>
    /\ Ends(p, "gone")
    /\ UNCHANGED <<table, live>>

Loop(p) == Send(p) \/ Handle(p) \/ TellChildren(p) \/ Close(p)
Faults(p) == ParentGone(p) \/ Quit(p) \/ Crash(p)

Next ==
    \E p \in Procs :
        \/ Add(p)
        \/ Loop(p)
        \/ Faults(p)
        \/ \E q \in Procs : Recieve(p, q)

Spec == Init /\ [][Next]_vars

(* The threads of a process that has not left run on, and its main loop    *)
(* looks at its parent in every round.                                     *)
FairSpec ==
    /\ Spec
    /\ \A p \in Procs : WF_vars(Send(p)) /\ WF_vars(Handle(p) \/ ParentGone(p))
    /\ \A p \in Procs : WF_vars(TellChildren(p)) /\ WF_vars(Close(p))
    /\ \A p, q \in Procs : WF_vars(Recieve(p, q))

-----------------------------------------------------------------------------
InFlight(p) ==
    ToSet(incoming[p]) \cup ToSet(outgoing[p]) \cup UNION {ToSet(channel[p][q]) : q \in Procs}

(* Routing goes up the tree until a process knows the destination, and     *)
(* then down one step: no instruction comes back to where it has been.     *)
NoRoundTrips ==
    \A p \in Procs : \A instr \in InFlight(p) : IsInjective(instr.via)

(* Types, and the ways that instructions have come.                        *)
TreeInv == TreeTypeOK /\ NoRoundTrips

(* Whatever way they are routed, the instructions of one process to        *)
(* another are handled in the order in which they were sent.               *)
HandledInSendOrder ==
    \A p \in Procs : \A i, j \in DOMAIN handled[p] :
        i < j /\ handled[p][i].src = handled[p][j].src /\ handled[p][i].id # 0
            => handled[p][j].id = 0 \/ handled[p][i].id < handled[p][j].id

(* An instruction whose destination is next to an ancestor of its sender,  *)
(* or to the sender itself, is handled there unless some process leaves.   *)
ancestors[p \in Procs] == {p} \cup IF Parent[p] = NoKey THEN {} ELSE ancestors[Parent[p]]
WithinReach(src, dest) == \E a \in ancestors[src] : dest \in Neighbours(a)
SentWithinReach(id) ==
    \E p \in Procs : \E instr \in ToSet(outgoing[p]) :
        instr.id = id /\ instr.src = p /\ WithinReach(p, instr.dest)
HandledAtDest(id) ==
    \E p \in Procs : \E instr \in ToSet(handled[p]) : instr.id = id /\ instr.dest = p
InstructionsArrive ==
    \A id \in 1..MaxSends :
        SentWithinReach(id) ~> HandledAtDest(id) \/ \E p \in Procs : mode[p] # "running"

(* "When a process server is cleaned, it automatically instructs all of    *)
(* its children to exit as well" (README.md 18): each child that is alive  *)
(* finds an exit in what its parent sent before the parent is gone.        *)
ChildrenToldToExit ==
    [][\A p \in Procs : mode[p] = "sending" /\ mode'[p] = "gone" =>
          \A c \in Children(p) :
              \/ mode[c] # "running"
              \/ ~listening[c][p]
              \/ \E instr \in ToSet(channel[p][c]) \cup ToSet(incoming[c]) :
                    instr.kind = "exit" /\ instr.dest = c]_vars

(* However a process leaves, its descendants leave as well.                *)
NobodyIsLeftBehind ==
    \A p \in Procs : Parent[p] # NoKey => (~Up(Parent[p]) ~> ~Up(p))
=============================================================================
