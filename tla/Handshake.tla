------------------------------ MODULE Handshake ------------------------------
(***************************************************************************)
(* How a process comes to be connected: it picks a port, creates its       *)
(* server, and accepts the recievers of the processes it expects           *)
(* (wimp_server.c 17-229), while each of those recievers, a thread of its  *)
(* process, tries to connect and shakes hands (wimp_reciever.c 51-184).    *)
(*                                                                         *)
(* One server and its clients.  A handshake arrives whole.  Time is left   *)
(* out: a timeout strikes whenever what it waits for is not there, and the *)
(* pause that ends wimp_server_process_accept is as long as PauseSuffices  *)
(* says.                                                                   *)
(***************************************************************************)
EXTENDS Naturals, Sequences, FiniteSets

CONSTANTS
    Clients,        \* recievers, and whatever else may connect
    NameOf,         \* the process name each sends in its handshake
    Foreign,        \* those that are no recievers: they send anything, or hang up
    Expected,       \* the names given to wimp_server_process_accept
    Tables,         \* which names the program may have added to the process table
    ParentName,     \* the one whose relation is WIMP_Process_Parent
    NOBODY,
    Tries,          \* WIMP_REC_TRY_COUNT
    PauseSuffices   \* the recievers read the reply during the 100 ms

(* A process starts one reciever for each of its neighbours, and names     *)
(* differ.  No client is nobody.                                           *)
ASSUME HandshakeAssumption ==
    /\ Foreign \subseteq Clients /\ NOBODY \notin Clients
    /\ IsFiniteSet(Expected)
    /\ ParentName # NOBODY
    /\ \A c, d \in Clients : NameOf[c] = NameOf[d] => c = d
    /\ \A names \in Tables : names \subseteq Expected
    /\ Tries \in Nat \ {0} /\ PauseSuffices \in BOOLEAN

VARIABLES
    port,       \* "none", "unused" when it was looked up, "taken" by another program
    server,     \* where the server's thread is
    result,     \* what wimp_create_server or wimp_server_process_accept has returned
    failure_reason, accepted_count,
    round,      \* rounds of the accept loop that count
    backlog,    \* clients that have connected and are not yet accepted
    con,        \* the connection at hand
    unclosed,   \* whose connection was turned down: it is never closed
    table,      \* the names in the server's process table
    connection, \* process_connection of the table's entries, NOBODY: inactive
    parent,     \* server->parent
    client,     \* where each client is
    num_tries,
    hello,      \* what a client has sent
    down,       \* what was sent to it and it has not read, until it runs (see Reciever)
    read        \* history: the instructions read as part of the handshake, and lost

acceptVars == <<failure_reason, accepted_count, round, con, unclosed>>
tableVars == <<table, connection, parent>>
serverVars == <<port, server, result, acceptVars, tableVars>>
clientVars == <<client, num_tries, hello, read>>
handshakeVars == <<serverVars, clientVars, backlog, down>>

pcount == Cardinality(Expected)
Results == {"none", "SUCCESS", "FAIL", "ADDRESS_FAIL", "SOCKET_FAIL", "BIND_FAIL", "LISTEN_FAIL",
            "TOO_FEW_PROCESSES", "UNEXPECTED_PROCESS"}

HandshakeTypeOK ==
    /\ port \in {"none", "unused", "taken"}
    /\ server \in {"port", "create", "listen", "accept", "hello", "pause", "done", "gone"}
    /\ result \in Results
    /\ failure_reason \in {"TOO_FEW_PROCESSES", "UNEXPECTED_PROCESS"}
    /\ accepted_count \in 0..pcount /\ round \in 0..pcount
    /\ backlog \in Seq(Clients) /\ con \in Clients \cup {NOBODY}
    /\ unclosed \subseteq Clients
    /\ table \in Tables
    /\ connection \in [Expected -> Clients \cup {NOBODY}]
    /\ parent \in table \cup {NOBODY}
    /\ client \in [Clients -> {"start", "connect", "hello", "await",
                               "running", "failed", "crashed"}]
    /\ num_tries \in [Clients -> 0..Tries]
    /\ hello \in [Clients -> {"none", "handshake", "other", "closed"}]
    /\ down \in [Clients -> Seq({"reply", "log", "instr"})]
    /\ read \subseteq {"log", "instr"}
    /\ accepted_count <= round

HandshakeInit ==
    /\ port = "none" /\ server = "port" /\ result = "none"
    /\ failure_reason = "TOO_FEW_PROCESSES" /\ accepted_count = 0 /\ round = 0
    /\ backlog = <<>> /\ con = NOBODY /\ unclosed = {}
    /\ table \in Tables /\ connection = [n \in Expected |-> NOBODY] /\ parent = NOBODY
    /\ client = [c \in Clients |-> "start"]
    /\ num_tries = [c \in Clients |-> 0]
    /\ hello = [c \in Clients |-> "none"]
    /\ down = [c \in Clients |-> <<>>]
    /\ read = {}

Listening ==
    /\ server \in {"accept", "hello", "pause", "done"}
    /\ result \notin {"FAIL", "ADDRESS_FAIL", "SOCKET_FAIL", "BIND_FAIL", "LISTEN_FAIL"}

-----------------------------------------------------------------------------
(* wimp_assign_unused_local_port binds a socket, looks at its port and     *)
(* closes it: from then on the port is anybody's.                          *)
AssignPort ==
    /\ server = "port"
    /\ port' \in {"none", "unused"}
    /\ server' = "create"
    /\ UNCHANGED <<result, acceptVars, tableVars, clientVars, backlog, down>>

OtherProgramBinds ==
    /\ port = "unused" /\ server = "create"
    /\ port' = "taken"
    /\ UNCHANGED <<server, result, acceptVars, tableVars, clientVars, backlog, down>>

(* wimp_init_local_server and wimp_create_server: address, socket, bind.   *)
(* A failure of the last two is logged by way of the local server, which   *)
(* is not filled in yet: the process may end there (ServerGone).           *)
CreateServer ==
    /\ server = "create"
    /\ result' \in CASE port = "unused" -> {"SUCCESS", "SOCKET_FAIL"}
                     [] port = "taken"  -> {"BIND_FAIL", "SOCKET_FAIL"}
                     [] port = "none"   -> {"ADDRESS_FAIL"}
    /\ server' = IF result' = "SUCCESS" THEN "listen" ELSE "done"
    /\ UNCHANGED <<port, acceptVars, tableVars, clientVars, backlog, down>>

(* wimp_server_process_accept up to its loop: no memory for the names, no  *)
(* listening, or neither of the two.                                       *)
Listen ==
    /\ server = "listen"
    /\ \/ server' = "accept" /\ result' = "none"
       \/ server' = "done" /\ result' \in {"FAIL", "LISTEN_FAIL"}
    /\ UNCHANGED <<port, acceptVars, tableVars, clientVars, backlog, down>>

SentTo(c, message) ==
    IF client[c] = "running" THEN down ELSE [down EXCEPT ![c] = Append(@, message)]

(* wimp_log_internal: a process that has a parent sends it what it logs,   *)
(* over the connection the parent has just made.  Lines that follow each   *)
(* other count as one.                                                     *)
LogWaits(c) == down[c] # <<>> /\ down[c][Len(down[c])] = "log"
Logged ==
    IF parent = NOBODY THEN down
    ELSE IF LogWaits(connection[parent]) THEN down
    ELSE SentTo(connection[parent], "log")

(* Slip: an attempt that timed out is made good for.                       *)
AcceptTimeoutAgain ==
    /\ server = "accept" /\ round < pcount
    /\ backlog = <<>>
    /\ failure_reason' = "UNEXPECTED_PROCESS"
    /\ down' = down
    /\ UNCHANGED <<port, server, result, accepted_count, round, con, unclosed, tableVars,
                   clientVars, backlog>>

(* One round of the loop: the accept times out, or yields a connection.    *)
AcceptTimeout ==
    /\ server = "accept" /\ round < pcount
    /\ backlog = <<>>
    /\ round' = round + 1
    /\ down' = Logged
    /\ UNCHANGED <<port, server, result, failure_reason, accepted_count, con, unclosed,
                   tableVars, clientVars, backlog>>

Accept ==
    /\ server = "accept" /\ round < pcount
    /\ backlog # <<>>
    /\ con' = Head(backlog) /\ backlog' = Tail(backlog)
    /\ server' = "hello"
    /\ UNCHANGED <<port, result, failure_reason, accepted_count, round, unclosed, tableVars,
                   clientVars, down>>

(* The checks turn the connection down: nothing received, no handshake, a  *)
(* name that is not in the table; or a name that is not expected, which    *)
(* costs no round.  The socket is dropped, and stays open.                 *)
TurnDown ==
    /\ server = "hello"
    /\ unclosed' = unclosed \cup {con}
    /\ con' = NOBODY
    /\ server' = "accept"
    /\ UNCHANGED <<port, result, accepted_count, tableVars, clientVars, backlog>>

RefuseNoHandshake ==
    /\ TurnDown
    /\ hello[con] \in {"other", "closed"}
    /\ round' = round + 1
    /\ UNCHANGED <<failure_reason, down>>

(* Slip: the round is given back, and the stranger counted.                *)
RefuseStrangerCounted ==
    /\ server = "hello"
    /\ hello[con] = "handshake" /\ NameOf[con] \notin Expected
    /\ unclosed' = unclosed \cup {con} /\ con' = NOBODY /\ server' = "accept"
    /\ accepted_count' = accepted_count + 1
    /\ UNCHANGED <<port, result, failure_reason, round, tableVars, clientVars, backlog, down>>

RefuseStranger ==
    /\ TurnDown
    /\ hello[con] = "handshake" /\ NameOf[con] \notin Expected
    /\ failure_reason' = "UNEXPECTED_PROCESS"
    /\ down' = Logged
    /\ UNCHANGED round

RefuseNotInTable ==
    /\ TurnDown
    /\ hello[con] = "handshake" /\ NameOf[con] \in Expected \ table
    /\ round' = round + 1
    /\ down' = Logged
    /\ UNCHANGED failure_reason

(* Slip: the reply goes out before the name was checked.                   *)
AcceptProcessUnchecked ==
    /\ server = "hello" /\ hello[con] = "handshake"
    /\ down' = [down EXCEPT ![con] = Append(@, "reply")]
    /\ accepted_count' = accepted_count + 1 /\ round' = round + 1
    /\ con' = NOBODY /\ server' = "accept"
    /\ UNCHANGED <<port, result, failure_reason, unclosed, tableVars, clientVars, backlog>>

(* An expected process: its entry becomes active, and it gets a reply.     *)
AcceptProcess ==
    /\ server = "hello"
    /\ hello[con] = "handshake" /\ NameOf[con] \in Expected \cap table
    /\ connection' = [connection EXCEPT ![NameOf[con]] = con]
    /\ parent' = IF NameOf[con] = ParentName /\ parent = NOBODY THEN ParentName ELSE parent
    /\ down' = [Logged EXCEPT ![con] = Append(@, "reply")]
    /\ accepted_count' = accepted_count + 1 /\ round' = round + 1
    /\ con' = NOBODY /\ server' = "accept"
    /\ UNCHANGED <<port, result, failure_reason, unclosed, table, clientVars, backlog>>

Returned == IF accepted_count = pcount THEN "SUCCESS" ELSE failure_reason

(* Slip: no pause.                                                         *)
PauseSkipped ==
    /\ server = "pause"
    /\ server' = "done"
    /\ result' = Returned
    /\ UNCHANGED <<port, acceptVars, tableVars, clientVars, backlog, down>>

LoopEnds ==
    /\ server = "accept" /\ round = pcount
    /\ server' = "pause"
    /\ UNCHANGED <<port, result, acceptVars, tableVars, clientVars, backlog, down>>

(* "Time out for 100ms for now to prevent user sending instructions until  *)
(* the handshake is cleared"                                               *)
Pause ==
    /\ server = "pause"
    /\ PauseSuffices => \A c \in Clients : client[c] = "await" => down[c] = <<>>
    /\ server' = "done"
    /\ result' = Returned
    /\ down' = Logged
    /\ UNCHANGED <<port, acceptVars, tableVars, clientVars, backlog>>

(* The program sends an instruction (one for each process).                *)
SendFirst ==
    /\ server = "done"
    /\ \E n \in table :
        /\ connection[n] # NOBODY
        /\ \A i \in DOMAIN down[connection[n]] : down[connection[n]][i] # "instr"
        /\ down' = SentTo(connection[n], "instr")
    /\ UNCHANGED <<serverVars, clientVars, backlog>>

(* The process of the server ends, or dies.                                *)
ServerGone ==
    /\ server \notin {"port", "gone"}
    /\ server' = "gone"
    /\ UNCHANGED <<port, result, acceptVars, tableVars, clientVars, backlog, down>>

-----------------------------------------------------------------------------
(* wimp_start_reciever_thread; without a thread there is no reciever.      *)
StartReciever(c) ==
    /\ client[c] = "start"
    /\ client' = [client EXCEPT ![c] = "connect"] \/ client' = [client EXCEPT ![c] = "failed"]
    /\ UNCHANGED <<serverVars, num_tries, hello, read, backlog, down>>

Connect(c) ==
    /\ client[c] = "connect" /\ num_tries[c] < Tries
    /\ Listening
    /\ backlog' = Append(backlog, c)
    /\ client' = [client EXCEPT ![c] = "hello"]
    /\ UNCHANGED <<serverVars, num_tries, hello, read, down>>

(* Nobody listens: sleep and try again, up to Tries times.                 *)
ConnectRefused(c) ==
    /\ client[c] = "connect" /\ ~Listening
    /\ num_tries' = [num_tries EXCEPT ![c] = @ + 1]
    /\ client' = IF num_tries[c] + 1 < Tries THEN client ELSE [client EXCEPT ![c] = "failed"]
    /\ UNCHANGED <<serverVars, hello, read, backlog, down>>

(* wimp_create_handshake and the send; anything from a foreign program.    *)
SendHandshake(c) ==
    /\ client[c] = "hello"
    /\ \E what \in IF c \in Foreign THEN {"handshake", "other", "closed"} ELSE {"handshake"} :
        hello' = [hello EXCEPT ![c] = what]
    /\ client' = [client EXCEPT ![c] = "await"]
    /\ UNCHANGED <<serverVars, num_tries, read, backlog, down>>

(* A program that is no reciever tries again once it was turned down.      *)
ConnectAgain(c) ==
    /\ c \in Foreign \cap unclosed
    /\ client[c] = "await"
    /\ client' = [client EXCEPT ![c] = "connect"]
    /\ hello' = [hello EXCEPT ![c] = "none"]
    /\ unclosed' = unclosed \ {c}
    /\ UNCHANGED <<port, server, result, failure_reason, accepted_count, round, con, tableVars,
                   num_tries, read, backlog, down>>

(* One receive of up to 512 bytes: the reply and what came with it.  Of    *)
(* the first message only the header is looked at.                         *)
ReadReply(c) ==
    /\ client[c] = "await"
    /\ down[c] # <<>>
    /\ \E n \in 1..Len(down[c]) :
        /\ read' = read \cup {down[c][i] : i \in 2..n}
        /\ down' = [down EXCEPT ![c] = SubSeq(@, n + 1, Len(@))]
    /\ client' = [client EXCEPT ![c] = IF Head(down[c]) = "reply" THEN "running" ELSE "failed"]
    /\ UNCHANGED <<serverVars, num_tries, hello, backlog>>

(* The connection is gone.  The message about it reads err, which nothing  *)
(* has set unless an attempt to connect failed.                            *)
NoReply(c) ==
    /\ client[c] = "await"
    /\ server = "gone" /\ down[c] = <<>>
    /\ \/ client' = [client EXCEPT ![c] = "failed"]
       \/ num_tries[c] = 0 /\ client' = [client EXCEPT ![c] = "crashed"]
    /\ UNCHANGED <<serverVars, num_tries, hello, read, backlog, down>>

ServerStep ==
    \/ AssignPort \/ CreateServer \/ Listen
    \/ AcceptTimeout \/ Accept
    \/ RefuseNoHandshake \/ RefuseStranger \/ RefuseNotInTable \/ AcceptProcess
    \/ LoopEnds \/ Pause
ClientStep(c) ==
    \/ StartReciever(c) \/ Connect(c) \/ ConnectRefused(c)
    \/ SendHandshake(c) \/ ReadReply(c) \/ NoReply(c)

HandshakeNext ==
    \/ ServerStep
    \/ \E c \in Clients : ClientStep(c)
    \/ \E c \in Foreign : ConnectAgain(c)
    \/ OtherProgramBinds \/ SendFirst \/ ServerGone

HandshakeSpec == HandshakeInit /\ [][HandshakeNext]_handshakeVars

-----------------------------------------------------------------------------
(* "found every process!": all that were expected are connected, each by   *)
(* its own reciever; and the other way round, "only allows the connections *)
(* specified": a reciever that runs is one the server has in its table.    *)
FoundEveryProcess ==
    server = "done" /\ result = "SUCCESS" =>
        \A n \in Expected :
            /\ n \in table /\ connection[n] # NOBODY
            /\ NameOf[connection[n]] = n
OnlyExpectedRun ==
    \A c \in Clients :
        client[c] = "running" =>
            /\ NameOf[c] \in Expected \cap table
            /\ connection[NameOf[c]] = c
BothSidesAgree == FoundEveryProcess /\ OnlyExpectedRun

(* If the pause is long enough, no instruction of the program is read, and *)
(* lost, as part of a handshake.                                           *)
NoInstructionLost == PauseSuffices => "instr" \notin read

(* A call of wimp_server_process_accept returns.                           *)
AcceptEnds == server = "listen" ~> server \in {"done", "gone"}

(* A reciever runs, gives up or dies of the read of err, unless its        *)
(* connection was turned down, or is one too many: those are never closed  *)
(* and wait with the server.                                               *)
RecieverDecides ==
    \A c \in Clients \ Foreign :
        client[c] = "connect" ~>
            \/ client[c] \in {"running", "failed", "crashed"}
            \/ server = "done" /\ (c \in unclosed \/ \E i \in DOMAIN backlog : backlog[i] = c)

(* The server is busy with programs that are no recievers: one says        *)
(* nothing and is waited for, or they come again and again with names that *)
(* cost no round.  The code sets no bound to either, although it says      *)
(* "Ensures won't block for too long" (wimp_server.c 121).                 *)
HeldUpByStrangers == []<>(server = "hello" /\ con \in Foreign)

(* Neither side of the handshake is held up by the other, nor by strangers *)
(* that hang up or give up, but for what RecieverDecides names.            *)
HandshakeEnds == HeldUpByStrangers \/ (AcceptEnds /\ RecieverDecides)
=============================================================================
