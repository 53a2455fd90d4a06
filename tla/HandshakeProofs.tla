---------------------------- MODULE HandshakeProofs ----------------------------
(***************************************************************************)
(* The handshake, for any clients, any finite set of expected names and    *)
(* any process table: the invariants of Handshake.                         *)
(***************************************************************************)
EXTENDS Handshake, FiniteSetTheorems, TLAPS

(* The server has entered the client in its process table.                 *)
Connected(c) == NameOf[c] \in Expected /\ connection[NameOf[c]] = c

(* A client is in one place only: waiting to be accepted, at hand, or in   *)
(* the table.                                                              *)
LineInv ==
    /\ \A i \in DOMAIN backlog :
        /\ client[backlog[i]] \notin {"start", "connect"}
        /\ backlog[i] # con
        /\ ~Connected(backlog[i])
    /\ \A i, j \in DOMAIN backlog : backlog[i] = backlog[j] => i = j
    /\ con # NOBODY => client[con] \notin {"start", "connect"} /\ ~Connected(con)
    /\ server = "hello" => con # NOBODY /\ round < pcount

(* Or its connection was turned down, and it has not tried again yet.      *)
UnclosedInv ==
    \A c \in unclosed :
        /\ client[c] \notin {"start", "connect"}
        /\ c # con /\ ~Connected(c)
        /\ \A i \in DOMAIN backlog : backlog[i] # c

(* The table is in step with the counter, and with what was returned.      *)
TableInv ==
    /\ \A n \in Expected : connection[n] # NOBODY => n \in table /\ NameOf[connection[n]] = n
    /\ parent # NOBODY => connection[parent] # NOBODY
    /\ accepted_count = Cardinality({n \in Expected : connection[n] # NOBODY})
    /\ server \in {"port", "create", "listen"} => \A n \in Expected : connection[n] = NOBODY
    /\ server = "done" /\ result = "SUCCESS" => accepted_count = pcount

(* Where a client may be, given what it has sent and where the server has  *)
(* it.                                                                     *)
ClientInv ==
    \A c \in Clients :
        /\ client[c] \in {"start", "connect", "hello", "await"} => num_tries[c] < Tries
        /\ hello[c] # "none" => client[c] \notin {"start", "connect", "hello"}
        /\ Connected(c) => client[c] \notin {"start", "connect", "hello"}
        /\ client[c] = "running" => Connected(c)
        /\ Connected(c) /\ client[c] = "await" => down[c] # <<>>

(* Only connected clients are sent anything, and the reply comes first.    *)
DownInv ==
    \A c \in Clients :
        /\ down[c] # <<>> => Connected(c)
        /\ \A i \in 2..Len(down[c]) : down[c][i] # "reply"

(* After a pause that is long enough no connected client awaits its reply. *)
PauseInv ==
    PauseSuffices =>
        /\ "instr" \notin read
        /\ \A c \in Clients : client[c] = "await" =>
            /\ \A i \in 1..Len(down[c]) : down[c][i] # "instr"
            /\ server = "done" => ~Connected(c)

HandshakeInv ==
    /\ HandshakeTypeOK /\ LineInv /\ UnclosedInv
    /\ TableInv /\ ClientInv /\ DownInv /\ PauseInv

LEMMA ExpectedFinite ==
    /\ pcount \in Nat
    /\ Cardinality({n \in Expected : connection[n] # NOBODY}) \in Nat
    /\ Cardinality({n \in Expected : connection[n] # NOBODY}) <= pcount
<1> DEFINE Active == {n \in Expected : connection[n] # NOBODY}
<1>1. Active \subseteq Expected /\ IsFiniteSet(Expected)
  BY HandshakeAssumption
<1> QED
  BY <1>1, FS_Subset, FS_CardinalityType DEF pcount

(* What a client is sent is put behind what it has not read yet.           *)
LEMMA SentToIs ==
    ASSUME HandshakeTypeOK, NEW c \in Clients, NEW message \in {"reply", "log", "instr"}
    PROVE  /\ SentTo(c, message) \in [Clients -> Seq({"reply", "log", "instr"})]
           /\ \A d \in Clients : d # c => SentTo(c, message)[d] = down[d]
           /\ client[c] = "running" => SentTo(c, message)[c] = down[c]
           /\ client[c] # "running" => SentTo(c, message)[c] = Append(down[c], message)
<1>1. /\ down \in [Clients -> Seq({"reply", "log", "instr"})]
      /\ Append(down[c], message) \in Seq({"reply", "log", "instr"})
  BY DEF HandshakeTypeOK
<1> QED
  BY <1>1 DEF SentTo

(* A log line goes to a connected client, behind what it has not read yet, *)
(* or nowhere.                                                             *)
LEMMA LoggedIs ==
    ASSUME HandshakeInv
    PROVE  /\ Logged \in [Clients -> Seq({"reply", "log", "instr"})]
           /\ \A d \in Clients :
                \/ Logged[d] = down[d]
                \/ Connected(d) /\ Logged[d] = Append(down[d], "log")
<1>1. HandshakeTypeOK
  BY DEF HandshakeInv
<1>2. CASE parent = NOBODY
  BY <1>1, <1>2 DEF Logged, HandshakeTypeOK
<1>3. CASE parent # NOBODY
  <2>1. parent \in Expected /\ connection[parent] \in Clients
    BY <1>1, <1>3, HandshakeAssumption DEF HandshakeInv, HandshakeTypeOK, TableInv
  <2>2. Connected(connection[parent])
    BY <2>1, HandshakeAssumption DEF HandshakeInv, TableInv, Connected
  <2>3. Logged = down \/ Logged = SentTo(connection[parent], "log")
    BY <1>3 DEF Logged
  <2> HIDE DEF Logged
  <2>4. CASE Logged = down
    BY <1>1, <2>4 DEF HandshakeTypeOK
  <2>5. CASE Logged = SentTo(connection[parent], "log")
    BY <1>1, <2>1, <2>2, <2>5, SentToIs
  <2> QED
    BY <2>3, <2>4, <2>5
<1> QED
  BY <1>2, <1>3

LEMMA HandshakeInitInv == HandshakeInit => HandshakeInv
<1> SUFFICES ASSUME HandshakeInit PROVE HandshakeInv
  OBVIOUS
<1> USE DEF HandshakeInit
<1>1. HandshakeTypeOK
  BY ExpectedFinite, HandshakeAssumption DEF HandshakeTypeOK, Results
<1>2. LineInv /\ UnclosedInv
  BY DEF LineInv, UnclosedInv
<1>3. TableInv
  <2>1. {n \in Expected : connection[n] # NOBODY} = {}
    OBVIOUS
  <2> QED
    BY <2>1, FS_EmptySet DEF TableInv
<1>4. \A c \in Clients : ~Connected(c)
  BY HandshakeAssumption DEF Connected
<1>5. ClientInv
  BY <1>4, HandshakeAssumption DEF ClientInv
<1>6. DownInv /\ PauseInv
  BY <1>4 DEF DownInv, PauseInv
<1> QED
  BY <1>1, <1>2, <1>3, <1>5, <1>6 DEF HandshakeInv

-----------------------------------------------------------------------------
(* A step of the server that makes no new connection keeps what relates    *)
(* clients and table, whatever it logs, if it does not leave a stage that  *)
(* something depends on unduly.                                            *)
LEMMA ServerMoves ==
    ASSUME HandshakeInv,
           UNCHANGED <<accepted_count, tableVars, clientVars, backlog>>,
           con' = con \/ con' = NOBODY,
           \A c \in unclosed' : c \in unclosed \/ (c = con /\ con \in Clients /\ con' = NOBODY),
           down' = down \/ down' = Logged,
           server' = "hello" => server = "hello" /\ con' = con /\ round' = round,
           server' \in {"port", "create", "listen"} => server \in {"port", "create", "listen"},
           server' = "done" /\ result' = "SUCCESS" => accepted_count = pcount,
           PauseSuffices /\ server' = "done" =>
                \A c \in Clients : client[c] = "await" => ~Connected(c)
    PROVE  LineInv' /\ UnclosedInv' /\ TableInv' /\ ClientInv' /\ DownInv' /\ PauseInv'
<1> USE DEF HandshakeInv
<1>1. UNCHANGED <<client, num_tries, hello, read, table, connection, parent>>
  BY DEF tableVars, clientVars
<1>2. \A c \in Clients : Connected(c)' <=> Connected(c)
  BY <1>1 DEF Connected
<1>3. \A i \in DOMAIN backlog : backlog[i] \in Clients
  BY DEF HandshakeTypeOK
<1>4. LineInv'
  BY <1>1, <1>2, <1>3, HandshakeAssumption DEF LineInv, Connected, pcount
<1>5. TableInv'
  BY <1>1 DEF TableInv, pcount
<1>6. \A d \in Clients :
        \/ down'[d] = down[d]
        \/ Connected(d) /\ down'[d] = Append(down[d], "log")
  BY LoggedIs
<1>7. \A d \in Clients : down[d] \in Seq({"reply", "log", "instr"})
  BY DEF HandshakeTypeOK
<1>8. \A d \in Clients : down'[d] = <<>> => down[d] = <<>>
  BY <1>6, <1>7
<1>9. ClientInv'
  BY <1>1, <1>2, <1>8 DEF ClientInv
<1>10. DownInv'
  BY <1>1, <1>2, <1>6, <1>7 DEF DownInv
<1>11. PauseInv'
  BY <1>1, <1>2, <1>6, <1>7 DEF PauseInv
<1>12. UnclosedInv'
  <2>1. \A c \in unclosed' : c # NOBODY /\ c \in Clients
    BY HandshakeAssumption DEF HandshakeTypeOK
  <2> QED
    BY <1>1, <1>2, <2>1 DEF UnclosedInv, LineInv
<1> QED
  BY <1>4, <1>5, <1>9, <1>10, <1>11, <1>12

(* Up to the loop: nobody is connected yet.                                *)
LEMMA StartInv ==
    ASSUME HandshakeInv, AssignPort \/ OtherProgramBinds \/ CreateServer \/ Listen
    PROVE  HandshakeInv'
<1> USE DEF acceptVars, tableVars, clientVars
<1>1. HandshakeTypeOK
  BY DEF HandshakeInv
<1>2. /\ UNCHANGED <<acceptVars, tableVars, clientVars, backlog, down>>
      /\ server \in {"port", "create", "listen"}
      /\ server' \in {"create", "listen", "accept", "done"}
      /\ server' = "done" => result' # "SUCCESS"
      /\ port' \in {"none", "unused", "taken"}
      /\ result' \in Results
  <2>1. CASE AssignPort
    BY <1>1, <2>1 DEF AssignPort, HandshakeTypeOK
  <2>2. CASE OtherProgramBinds
    BY <1>1, <2>2 DEF OtherProgramBinds, HandshakeTypeOK
  <2>3. CASE CreateServer
    <3>1. CASE port = "unused"
      BY <1>1, <2>3, <3>1 DEF CreateServer, HandshakeTypeOK, Results
    <3>2. CASE port = "taken"
      BY <1>1, <2>3, <3>2 DEF CreateServer, HandshakeTypeOK, Results
    <3>3. CASE port = "none"
      BY <1>1, <2>3, <3>3 DEF CreateServer, HandshakeTypeOK, Results
    <3> QED
      BY <1>1, <3>1, <3>2, <3>3 DEF HandshakeTypeOK
  <2>4. CASE Listen
    BY <1>1, <2>4 DEF Listen, HandshakeTypeOK, Results
  <2> QED
    BY <2>1, <2>2, <2>3, <2>4
<1>3. HandshakeTypeOK'
  BY <1>1, <1>2 DEF HandshakeTypeOK, pcount
<1>4. \A c \in Clients : ~Connected(c)
  BY <1>2, HandshakeAssumption DEF HandshakeInv, TableInv, Connected
<1>5. LineInv' /\ UnclosedInv' /\ TableInv' /\ ClientInv' /\ DownInv' /\ PauseInv'
  BY <1>2, <1>4, ServerMoves
<1> QED
  BY <1>3, <1>5 DEF HandshakeInv

(* The accept times out, the connection at hand is turned down, or the     *)
(* loop ends.                                                              *)
LEMMA RoundInv ==
    ASSUME HandshakeInv,
           AcceptTimeout \/ RefuseNoHandshake \/ RefuseStranger \/ RefuseNotInTable \/ LoopEnds
    PROVE  HandshakeInv'
<1> USE DEF acceptVars, tableVars, clientVars
<1>1. HandshakeTypeOK /\ pcount \in Nat
  BY ExpectedFinite DEF HandshakeInv
<1>2. /\ UNCHANGED <<port, result, accepted_count, tableVars, clientVars, backlog>>
      /\ con' = con \/ con' = NOBODY
      /\ down' = down \/ down' = Logged
      /\ server' \in {"accept", "pause"}
      /\ round' = round \/ (round < pcount /\ round' = round + 1)
      /\ failure_reason' \in {failure_reason, "UNEXPECTED_PROCESS"}
      /\ \/ unclosed' = unclosed
         \/ con # NOBODY /\ con' = NOBODY /\ unclosed' = unclosed \cup {con}
  <2>1. CASE AcceptTimeout
    BY <2>1 DEF AcceptTimeout
  <2>2. CASE RefuseNoHandshake
    BY <2>2 DEF RefuseNoHandshake, TurnDown, HandshakeInv, LineInv
  <2>3. CASE RefuseStranger
    BY <2>3 DEF RefuseStranger, TurnDown, HandshakeInv, LineInv
  <2>4. CASE RefuseNotInTable
    BY <2>4 DEF RefuseNotInTable, TurnDown, HandshakeInv, LineInv
  <2>5. CASE LoopEnds
    BY <2>5 DEF LoopEnds
  <2> QED
    BY <2>1, <2>2, <2>3, <2>4, <2>5
<1>3. down' \in [Clients -> Seq({"reply", "log", "instr"})]
  BY <1>1, <1>2, LoggedIs DEF HandshakeTypeOK
<1>4. round' \in 0..pcount /\ accepted_count <= round'
  BY <1>1, <1>2 DEF HandshakeTypeOK
<1>5. HandshakeTypeOK'
  BY <1>1, <1>2, <1>3, <1>4 DEF HandshakeTypeOK, pcount
<1>6. \A c \in unclosed' : c \in unclosed \/ (c = con /\ con \in Clients /\ con' = NOBODY)
  BY <1>1, <1>2 DEF HandshakeTypeOK
<1>7. LineInv' /\ UnclosedInv' /\ TableInv' /\ ClientInv' /\ DownInv' /\ PauseInv'
  BY <1>2, <1>6, ServerMoves
<1> QED
  BY <1>5, <1>7 DEF HandshakeInv

LEMMA AcceptInv ==
    ASSUME HandshakeInv, Accept
    PROVE  HandshakeInv'
<1> USE DEF tableVars, clientVars, HandshakeInv
<1>1. /\ server = "accept" /\ server' = "hello" /\ round < pcount
      /\ backlog # <<>> /\ con' = Head(backlog) /\ backlog' = Tail(backlog)
      /\ UNCHANGED <<port, result, failure_reason, accepted_count, round, unclosed, table,
                     connection, parent, client, num_tries, hello, read, down>>
  BY DEF Accept
<1>2. \A c \in Clients : Connected(c)' <=> Connected(c)
  BY <1>1 DEF Connected
<1>3. backlog \in Seq(Clients)
  BY DEF HandshakeTypeOK
<1>4. /\ con' = backlog[1] /\ 1 \in DOMAIN backlog /\ con' \in Clients
      /\ backlog' \in Seq(Clients)
      /\ \A i \in DOMAIN backlog' :
            i + 1 \in DOMAIN backlog /\ i + 1 # 1 /\ backlog'[i] = backlog[i + 1]
  BY <1>1, <1>3
<1>5. HandshakeTypeOK'
  BY <1>1, <1>4 DEF HandshakeTypeOK, pcount
<1>6. LineInv'
  <2> USE DEF LineInv
  <2>1. ASSUME NEW i \in DOMAIN backlog'
        PROVE  /\ client'[backlog'[i]] \notin {"start", "connect"}
               /\ backlog'[i] # con' /\ ~Connected(backlog[i])'
    <3>1. PICK k \in DOMAIN backlog : k # 1 /\ backlog'[i] = backlog[k]
      BY <1>4
    <3>2. client[backlog[k]] \notin {"start", "connect"} /\ ~Connected(backlog[k])
      OBVIOUS
    <3>3. backlog[k] # backlog[1]
      BY <1>4, <3>1
    <3> QED
      BY <1>1, <1>4, <3>1, <3>2, <3>3 DEF Connected
  <2>2. ASSUME NEW i \in DOMAIN backlog', NEW j \in DOMAIN backlog', backlog'[i] = backlog'[j]
        PROVE  i = j
    <3>1. /\ i \in Nat /\ i + 1 \in DOMAIN backlog /\ backlog'[i] = backlog[i + 1]
          /\ j \in Nat /\ j + 1 \in DOMAIN backlog /\ backlog'[j] = backlog[j + 1]
      BY <1>4
    <3>2. i + 1 = j + 1
      BY <2>2, <3>1
    <3> QED
      BY <3>1, <3>2
  <2>3. client'[con'] \notin {"start", "connect"} /\ ~Connected(con)'
    BY <1>1, <1>4 DEF LineInv, Connected
  <2>4. con' # NOBODY /\ round' < pcount
    BY <1>1, <1>4, HandshakeAssumption
  <2> QED
    BY <2>1, <2>2, <2>3, <2>4 DEF LineInv, pcount
<1>7. TableInv'
  BY <1>1 DEF TableInv, pcount
<1>8. ClientInv' /\ DownInv'
  BY <1>1, <1>2 DEF ClientInv, DownInv
<1>9. PauseInv'
  BY <1>1, <1>2 DEF PauseInv
<1>10. UnclosedInv'
  BY <1>1, <1>2, <1>4 DEF UnclosedInv, HandshakeTypeOK
<1> QED
  BY <1>5, <1>6, <1>7, <1>8, <1>9, <1>10

LEMMA PauseEndsInv ==
    ASSUME HandshakeInv, Pause
    PROVE  HandshakeInv'
<1> USE DEF acceptVars, tableVars, clientVars
<1>1. HandshakeTypeOK /\ pcount \in Nat
  BY ExpectedFinite DEF HandshakeInv
<1>2. /\ server' = "done" /\ result' = Returned /\ down' = Logged
      /\ PauseSuffices => \A c \in Clients : client[c] = "await" => down[c] = <<>>
      /\ UNCHANGED <<port, acceptVars, tableVars, clientVars, backlog>>
  BY DEF Pause
<1>3. result' \in Results /\ (result' = "SUCCESS" => accepted_count = pcount)
  BY <1>1, <1>2 DEF Returned, Results, HandshakeTypeOK
<1>4. HandshakeTypeOK'
  BY <1>1, <1>2, <1>3, LoggedIs DEF HandshakeTypeOK, pcount
<1>5. PauseSuffices => \A c \in Clients : client[c] = "await" => ~Connected(c)
  BY <1>2 DEF HandshakeInv, ClientInv
<1>6. LineInv' /\ UnclosedInv' /\ TableInv' /\ ClientInv' /\ DownInv' /\ PauseInv'
  BY <1>2, <1>3, <1>5, ServerMoves
<1> QED
  BY <1>4, <1>6 DEF HandshakeInv

LEMMA ServerGoneInv ==
    ASSUME HandshakeInv, ServerGone
    PROVE  HandshakeInv'
<1> USE DEF acceptVars, tableVars, clientVars
<1>1. /\ server' = "gone"
      /\ UNCHANGED <<port, result, acceptVars, tableVars, clientVars, backlog, down>>
  BY DEF ServerGone
<1>2. HandshakeTypeOK'
  BY <1>1 DEF HandshakeInv, HandshakeTypeOK, pcount
<1>3. LineInv' /\ UnclosedInv' /\ TableInv' /\ ClientInv' /\ DownInv' /\ PauseInv'
  BY <1>1, ServerMoves
<1> QED
  BY <1>2, <1>3 DEF HandshakeInv

LEMMA AcceptProcessInv ==
    ASSUME HandshakeInv, AcceptProcess
    PROVE  HandshakeInv'
<1> USE DEF clientVars
<1> DEFINE name == NameOf[con]
           Active == {n \in Expected : connection[n] # NOBODY}
<1>1. /\ server = "hello" /\ hello[con] = "handshake"
      /\ name \in Expected /\ name \in table
      /\ connection' = [connection EXCEPT ![name] = con]
      /\ parent' = IF name = ParentName /\ parent = NOBODY THEN ParentName ELSE parent
      /\ down' = [Logged EXCEPT ![con] = Append(@, "reply")]
      /\ accepted_count' = accepted_count + 1 /\ round' = round + 1
      /\ con' = NOBODY /\ server' = "accept"
      /\ UNCHANGED <<port, result, failure_reason, unclosed, table, client, num_tries, hello,
                     read, backlog>>
  BY DEF AcceptProcess
<1>2. /\ HandshakeTypeOK /\ LineInv /\ UnclosedInv /\ TableInv /\ ClientInv /\ DownInv /\ PauseInv
      /\ pcount \in Nat
  BY ExpectedFinite DEF HandshakeInv
<1>3. con \in Clients /\ ~Connected(con) /\ round < pcount
  BY <1>1, <1>2 DEF LineInv, HandshakeTypeOK
<1>4. connection[name] = NOBODY
  BY <1>1, <1>2, <1>3, HandshakeAssumption, ZenonT(60) DEF TableInv, HandshakeTypeOK, Connected
<1>5. /\ connection' \in [Expected -> Clients \cup {NOBODY}]
      /\ connection'[name] = con
      /\ \A n \in Expected : n # name => connection'[n] = connection[n]
  BY <1>1, <1>2, <1>3 DEF HandshakeTypeOK
<1>6. \A d \in Clients : Connected(d)' <=> Connected(d) \/ d = con
  BY <1>1, <1>3, <1>5, HandshakeAssumption DEF Connected
<1>7. /\ down' \in [Clients -> Seq({"reply", "log", "instr"})]
      /\ down'[con] = <<"reply">>
      /\ \A d \in Clients : d # con =>
            \/ down'[d] = down[d]
            \/ Connected(d) /\ down'[d] = Append(down[d], "log")
  <2>1. down[con] = <<>>
    BY <1>2, <1>3 DEF DownInv
  <2>2. Logged[con] = <<>>
    BY <1>3, <2>1, LoggedIs
  <2>3. Append(<<>>, "reply") = <<"reply">> /\ <<"reply">> \in Seq({"reply", "log", "instr"})
    OBVIOUS
  <2> QED
    BY <1>1, <1>3, <2>2, <2>3, LoggedIs
<1> HIDE DEF name
<1>8. HandshakeTypeOK'
  <2>1. accepted_count' \in 0..pcount /\ round' \in 0..pcount /\ accepted_count' <= round'
    BY <1>1, <1>2, <1>3 DEF HandshakeTypeOK
  <2>2. parent' \in table \cup {NOBODY}
    BY <1>1, <1>2 DEF HandshakeTypeOK
  <2> QED
    BY <1>1, <1>2, <1>5, <1>7, <2>1, <2>2 DEF HandshakeTypeOK, pcount
<1>9. \A i \in DOMAIN backlog : backlog[i] \in Clients
  BY <1>2 DEF HandshakeTypeOK
<1>10. LineInv'
  <2>1. ASSUME NEW i \in DOMAIN backlog
        PROVE  /\ client'[backlog[i]] \notin {"start", "connect"}
               /\ backlog[i] # NOBODY /\ ~Connected(backlog[i])'
    BY <1>1, <1>2, <1>6, <1>9, HandshakeAssumption DEF LineInv
  <2> QED
    BY <1>1, <1>2, <2>1 DEF LineInv, Connected
<1>11. TableInv'
  <2>1. \A n \in Expected : connection'[n] # NOBODY => n \in table' /\ NameOf[connection'[n]] = n
    BY <1>1, <1>2, <1>5 DEF TableInv, name
  <2>2. parent' # NOBODY => connection'[parent'] # NOBODY
    <3>1. con # NOBODY
      BY <1>3, HandshakeAssumption
    <3>2. parent \in table \cup {NOBODY} /\ table \subseteq Expected
      BY <1>2, HandshakeAssumption DEF HandshakeTypeOK
    <3> QED
      BY <1>1, <1>2, <1>5, <3>1, <3>2 DEF TableInv
  <2>3. accepted_count' = Cardinality({n \in Expected : connection'[n] # NOBODY})
    <3>1. {n \in Expected : connection'[n] # NOBODY} = Active \cup {name} /\ name \notin Active
      BY <1>1, <1>3, <1>4, <1>5, HandshakeAssumption
    <3>2. IsFiniteSet(Active)
      BY HandshakeAssumption, FS_Subset
    <3>3. accepted_count = Cardinality(Active)
      BY <1>2 DEF TableInv
    <3> HIDE DEF Active
    <3>4. Cardinality(Active \cup {name}) = Cardinality(Active) + 1
      BY <3>1, <3>2, FS_AddElement
    <3> QED
      BY <1>1, <3>1, <3>3, <3>4
  <2> QED
    BY <1>1, <2>1, <2>2, <2>3 DEF TableInv
<1>12. ClientInv'
  <2>1. client[con] \notin {"start", "connect", "hello"}
    BY <1>1, <1>2, <1>3 DEF ClientInv
  <2>2. ASSUME NEW d \in Clients, down'[d] = <<>> PROVE down[d] = <<>> /\ d # con
    <3>1. d # con
      BY <1>7, <2>2
    <3>2. down'[d] = down[d] \/ down'[d] = Append(down[d], "log")
      BY <1>7, <3>1
    <3>3. down[d] \in Seq({"reply", "log", "instr"})
      BY <1>2 DEF HandshakeTypeOK
    <3> QED
      BY <2>2, <3>1, <3>2, <3>3
  <2> QED
    BY <1>1, <1>2, <1>6, <2>1, <2>2 DEF ClientInv
<1>13. DownInv'
  <2> SUFFICES ASSUME NEW d \in Clients
               PROVE  /\ down'[d] # <<>> => Connected(d)'
                      /\ \A i \in 2..Len(down'[d]) : down'[d][i] # "reply"
    BY DEF DownInv
  <2>1. CASE d = con
    BY <1>6, <1>7, <2>1
  <2>2. CASE d # con
    <3>1. down[d] \in Seq({"reply", "log", "instr"})
      BY <1>2 DEF HandshakeTypeOK
    <3>2. CASE down'[d] = down[d]
      BY <1>2, <1>6, <2>2, <3>2 DEF DownInv
    <3>3. CASE Connected(d) /\ down'[d] = Append(down[d], "log")
      BY <1>2, <1>6, <2>2, <3>1, <3>3 DEF DownInv
    <3> QED
      BY <1>7, <2>2, <3>2, <3>3
  <2> QED
    BY <2>1, <2>2
<1>14. PauseInv'
  <2> SUFFICES ASSUME PauseSuffices, NEW d \in Clients, client[d] = "await"
               PROVE  \A i \in 1..Len(down'[d]) : down'[d][i] # "instr"
    BY <1>1, <1>2 DEF PauseInv
  <2>1. CASE d = con
    BY <1>7, <2>1
  <2>2. CASE d # con
    <3>1. down[d] \in Seq({"reply", "log", "instr"})
      BY <1>2 DEF HandshakeTypeOK
    <3>2. \A i \in 1..Len(down[d]) : down[d][i] # "instr"
      BY <1>2 DEF PauseInv
    <3>3. CASE down'[d] = down[d]
      BY <3>2, <3>3
    <3>4. CASE down'[d] = Append(down[d], "log")
      BY <3>1, <3>2, <3>4
    <3> QED
      BY <1>7, <2>2, <3>3, <3>4
  <2> QED
    BY <2>1, <2>2
<1>15. UnclosedInv'
  BY <1>1, <1>2, <1>3, <1>6, HandshakeAssumption DEF UnclosedInv, HandshakeTypeOK
<1> QED
  BY <1>8, <1>10, <1>11, <1>12, <1>13, <1>14, <1>15 DEF HandshakeInv

(* An instruction is sent to a connected client only, once the pause is    *)
(* over.                                                                   *)
LEMMA SendFirstInv ==
    ASSUME HandshakeInv, SendFirst
    PROVE  HandshakeInv'
<1> USE DEF serverVars, acceptVars, tableVars, clientVars
<1>1. /\ server = "done"
      /\ UNCHANGED <<port, server, result, failure_reason, accepted_count, round, con, unclosed,
                     table, connection, parent, client, num_tries, hello, read, backlog>>
  BY DEF SendFirst
<1>2. /\ HandshakeTypeOK /\ LineInv /\ UnclosedInv /\ TableInv /\ ClientInv /\ DownInv /\ PauseInv
  BY DEF HandshakeInv
<1>3. PICK n \in table : connection[n] # NOBODY /\ down' = SentTo(connection[n], "instr")
  BY DEF SendFirst
<1> DEFINE c == connection[n]
<1>4. c \in Clients /\ Connected(c)
  BY <1>2, <1>3, HandshakeAssumption DEF HandshakeTypeOK, TableInv, Connected
<1>5. \A d \in Clients : Connected(d)' <=> Connected(d)
  BY <1>1 DEF Connected
<1> HIDE DEF c
<1>6. down' = SentTo(c, "instr")
  BY <1>3 DEF c
<1>7. /\ down' \in [Clients -> Seq({"reply", "log", "instr"})]
      /\ \A d \in Clients :
            \/ down'[d] = down[d]
            \/ d = c /\ down'[d] = Append(down[d], "instr")
  BY <1>2, <1>4, <1>6, SentToIs
<1>8. HandshakeTypeOK'
  BY <1>1, <1>2, <1>7 DEF HandshakeTypeOK, pcount
<1>9. LineInv' /\ UnclosedInv' /\ TableInv'
  BY <1>1, <1>2 DEF LineInv, UnclosedInv, TableInv, Connected, pcount
<1>10. \A d \in Clients : down[d] \in Seq({"reply", "log", "instr"})
  BY <1>2 DEF HandshakeTypeOK
<1>11. \A d \in Clients : down'[d] = <<>> => down[d] = <<>>
  BY <1>7, <1>10
<1>12. ClientInv'
  BY <1>1, <1>2, <1>5, <1>11 DEF ClientInv
<1>13. DownInv'
  BY <1>2, <1>4, <1>5, <1>7, <1>10 DEF DownInv
<1>14. PauseInv'
  BY <1>1, <1>2, <1>4, <1>5, <1>7, <1>10 DEF PauseInv
<1> QED
  BY <1>8, <1>9, <1>12, <1>13, <1>14 DEF HandshakeInv

-----------------------------------------------------------------------------
(* A client that is neither connected nor in line moves on.                *)
LEMMA StartRecieverInv ==
    ASSUME HandshakeInv, NEW c \in Clients, StartReciever(c)
    PROVE  HandshakeInv'
<1> USE DEF serverVars, acceptVars, tableVars
<1>1. /\ client[c] = "start"
      /\ client' \in [Clients -> {"start", "connect", "hello", "await",
                                  "running", "failed", "crashed"}]
      /\ client'[c] \in {"connect", "failed"}
      /\ \A d \in Clients : d # c => client'[d] = client[d]
      /\ UNCHANGED <<port, server, result, failure_reason, accepted_count, round, con, unclosed,
                     table, connection, parent, num_tries, hello, read, backlog, down>>
  BY DEF StartReciever, HandshakeInv, HandshakeTypeOK
<1>2. HandshakeTypeOK /\ LineInv /\ UnclosedInv /\ TableInv /\ ClientInv /\ DownInv /\ PauseInv
  BY DEF HandshakeInv
<1>3. \A d \in Clients : Connected(d)' <=> Connected(d)
  BY <1>1 DEF Connected
<1>4. HandshakeTypeOK'
  BY <1>1, <1>2 DEF HandshakeTypeOK, pcount
<1>5. LineInv'
  BY <1>1, <1>2 DEF LineInv, Connected, HandshakeTypeOK, pcount
<1>6. TableInv'
  BY <1>1, <1>2 DEF TableInv, pcount
<1>7. ~Connected(c) /\ hello[c] = "none" /\ num_tries[c] < Tries
  BY <1>1, <1>2 DEF ClientInv
<1>8. ClientInv' /\ DownInv' /\ PauseInv'
  BY <1>1, <1>2, <1>3, <1>7 DEF ClientInv, DownInv, PauseInv
<1>9. UnclosedInv'
  BY <1>1, <1>2, <1>3 DEF UnclosedInv, HandshakeTypeOK
<1> QED
  BY <1>4, <1>5, <1>6, <1>8, <1>9 DEF HandshakeInv

LEMMA ConnectInv ==
    ASSUME HandshakeInv, NEW c \in Clients, Connect(c)
    PROVE  HandshakeInv'
<1> USE DEF serverVars, acceptVars, tableVars
<1>1. /\ client[c] = "connect"
      /\ client' \in [Clients -> {"start", "connect", "hello", "await",
                                  "running", "failed", "crashed"}]
      /\ client'[c] = "hello"
      /\ \A d \in Clients : d # c => client'[d] = client[d]
      /\ backlog' = Append(backlog, c)
      /\ UNCHANGED <<port, server, result, failure_reason, accepted_count, round, con, unclosed,
                     table, connection, parent, num_tries, hello, read, down>>
  BY DEF Connect, HandshakeInv, HandshakeTypeOK
<1>2. HandshakeTypeOK /\ LineInv /\ UnclosedInv /\ TableInv /\ ClientInv /\ DownInv /\ PauseInv
  BY DEF HandshakeInv
<1>3. \A d \in Clients : Connected(d)' <=> Connected(d)
  BY <1>1 DEF Connected
<1>4. backlog \in Seq(Clients) /\ backlog' \in Seq(Clients)
  BY <1>1, <1>2 DEF HandshakeTypeOK
<1>5. HandshakeTypeOK'
  BY <1>1, <1>2, <1>4 DEF HandshakeTypeOK, pcount
<1>6. ~Connected(c) /\ hello[c] = "none"
  BY <1>1, <1>2 DEF ClientInv
<1>7. c # con /\ \A i \in DOMAIN backlog : backlog[i] # c
  BY <1>1, <1>2, HandshakeAssumption DEF LineInv
<1>8. LineInv'
  <2>1. \A i \in DOMAIN backlog' :
            \/ i \in DOMAIN backlog /\ backlog'[i] = backlog[i]
            \/ i = Len(backlog) + 1 /\ backlog'[i] = c
    BY <1>1, <1>4
  <2>2. ASSUME NEW i \in DOMAIN backlog'
        PROVE  /\ client'[backlog'[i]] \notin {"start", "connect"}
               /\ backlog'[i] # con /\ ~Connected(backlog[i])'
    <3>1. CASE i \in DOMAIN backlog /\ backlog'[i] = backlog[i]
      BY <1>1, <1>2, <1>3, <1>4, <1>7, <3>1 DEF LineInv, Connected
    <3>2. CASE backlog'[i] = c
      BY <1>1, <1>3, <1>6, <1>7, <3>2 DEF Connected
    <3> QED
      BY <2>1, <3>1, <3>2
  <2>3. \A i, j \in DOMAIN backlog' : backlog'[i] = backlog'[j] => i = j
    BY <1>2, <1>7, <2>1 DEF LineInv
  <2>4. /\ con # NOBODY => client'[con] \notin {"start", "connect"} /\ ~Connected(con)'
        /\ server = "hello" => con # NOBODY /\ round < pcount
    BY <1>1, <1>2, <1>7 DEF LineInv, Connected, HandshakeTypeOK
  <2> QED
    BY <1>1, <2>2, <2>3, <2>4 DEF LineInv, Connected, pcount
<1>9. TableInv'
  BY <1>1, <1>2 DEF TableInv, pcount
<1>10. ClientInv' /\ DownInv' /\ PauseInv'
  BY <1>1, <1>2, <1>3, <1>6 DEF ClientInv, DownInv, PauseInv
<1>11. UnclosedInv'
  <2>1. c \notin unclosed
    BY <1>1, <1>2 DEF UnclosedInv
  <2>2. \A i \in DOMAIN backlog' :
            backlog'[i] = c \/ (i \in DOMAIN backlog /\ backlog'[i] = backlog[i])
    BY <1>1, <1>4
  <2> QED
    BY <1>1, <1>2, <1>3, <2>1, <2>2 DEF UnclosedInv, HandshakeTypeOK
<1> QED
  BY <1>5, <1>8, <1>9, <1>10, <1>11 DEF HandshakeInv

LEMMA ConnectRefusedInv ==
    ASSUME HandshakeInv, NEW c \in Clients, ConnectRefused(c)
    PROVE  HandshakeInv'
<1> USE DEF serverVars, acceptVars, tableVars
<1>1. HandshakeTypeOK /\ LineInv /\ UnclosedInv /\ TableInv /\ ClientInv /\ DownInv /\ PauseInv
  BY DEF HandshakeInv
<1>2. /\ client[c] = "connect" /\ num_tries[c] \in Nat /\ num_tries[c] < Tries /\ Tries \in Nat
      /\ hello[c] = "none" /\ ~Connected(c)
  BY <1>1, HandshakeAssumption DEF ConnectRefused, ClientInv, HandshakeTypeOK
<1>3. /\ client' \in [Clients -> {"start", "connect", "hello", "await",
                                  "running", "failed", "crashed"}]
      /\ \/ client'[c] = "connect" /\ num_tries'[c] < Tries
         \/ client'[c] = "failed"
      /\ \A d \in Clients : d # c => client'[d] = client[d] /\ num_tries'[d] = num_tries[d]
      /\ num_tries' \in [Clients -> 0..Tries]
      /\ UNCHANGED <<port, server, result, failure_reason, accepted_count, round, con, unclosed,
                     table, connection, parent, hello, read, backlog, down>>
  <2>1. CASE num_tries[c] + 1 < Tries
    BY <1>1, <1>2, <2>1 DEF ConnectRefused, HandshakeTypeOK
  <2>2. CASE ~(num_tries[c] + 1 < Tries)
    BY <1>1, <1>2, <2>2 DEF ConnectRefused, HandshakeTypeOK
  <2> QED
    BY <2>1, <2>2
<1>4. \A d \in Clients : Connected(d)' <=> Connected(d)
  BY <1>3 DEF Connected
<1>5. HandshakeTypeOK'
  BY <1>1, <1>3 DEF HandshakeTypeOK, pcount
<1>6. LineInv'
  BY <1>1, <1>2, <1>3, SMTT(30) DEF LineInv, Connected, HandshakeTypeOK, pcount
<1>7. TableInv'
  BY <1>1, <1>3 DEF TableInv, pcount
<1>8. ClientInv' /\ DownInv' /\ PauseInv'
  BY <1>1, <1>2, <1>3, <1>4 DEF ClientInv, DownInv, PauseInv
<1>9. UnclosedInv'
  BY <1>1, <1>2, <1>3, <1>4 DEF UnclosedInv, HandshakeTypeOK
<1> QED
  BY <1>5, <1>6, <1>7, <1>8, <1>9 DEF HandshakeInv

LEMMA SendHandshakeInv ==
    ASSUME HandshakeInv, NEW c \in Clients, SendHandshake(c)
    PROVE  HandshakeInv'
<1> USE DEF serverVars, acceptVars, tableVars
<1>1. HandshakeTypeOK /\ LineInv /\ UnclosedInv /\ TableInv /\ ClientInv /\ DownInv /\ PauseInv
  BY DEF HandshakeInv
<1>2. /\ client[c] = "hello" /\ client'[c] = "await"
      /\ client' \in [Clients -> {"start", "connect", "hello", "await",
                                  "running", "failed", "crashed"}]
      /\ hello' \in [Clients -> {"none", "handshake", "other", "closed"}]
      /\ \A d \in Clients : d # c => client'[d] = client[d] /\ hello'[d] = hello[d]
      /\ UNCHANGED <<port, server, result, failure_reason, accepted_count, round, con, unclosed,
                     table, connection, parent, num_tries, read, backlog, down>>
  <2>1. PICK what \in {"handshake", "other", "closed"} : hello' = [hello EXCEPT ![c] = what]
    BY DEF SendHandshake
  <2> QED
    BY <1>1, <2>1 DEF SendHandshake, HandshakeTypeOK
<1>3. \A d \in Clients : Connected(d)' <=> Connected(d)
  BY <1>2 DEF Connected
<1>4. HandshakeTypeOK'
  BY <1>1, <1>2 DEF HandshakeTypeOK, pcount
<1>5. LineInv'
  BY <1>1, <1>2 DEF LineInv, Connected, HandshakeTypeOK, pcount
<1>6. TableInv'
  BY <1>1, <1>2 DEF TableInv, pcount
<1>7. ~Connected(c) /\ down[c] = <<>>
  BY <1>1, <1>2 DEF ClientInv, DownInv
<1>8. ClientInv' /\ DownInv' /\ PauseInv'
  <2>1. Len(down[c]) = 0
    BY <1>7
  <2> QED
    BY <1>1, <1>2, <1>3, <1>7, <2>1 DEF ClientInv, DownInv, PauseInv
<1>9. UnclosedInv'
  BY <1>1, <1>2, <1>3 DEF UnclosedInv, HandshakeTypeOK
<1> QED
  BY <1>4, <1>5, <1>6, <1>8, <1>9 DEF HandshakeInv

(* What is read behind the reply is no reply, and, if the pause is long    *)
(* enough, no instruction.                                                 *)
LEMMA ReadReplyInv ==
    ASSUME HandshakeInv, NEW c \in Clients, ReadReply(c)
    PROVE  HandshakeInv'
<1> USE DEF serverVars, acceptVars, tableVars
<1>1. HandshakeTypeOK /\ LineInv /\ UnclosedInv /\ TableInv /\ ClientInv /\ DownInv /\ PauseInv
  BY DEF HandshakeInv
<1>2. /\ client[c] = "await" /\ down[c] # <<>>
      /\ client' \in [Clients -> {"start", "connect", "hello", "await",
                                  "running", "failed", "crashed"}]
      /\ client'[c] \in {"running", "failed"}
      /\ \A d \in Clients : d # c => client'[d] = client[d]
      /\ UNCHANGED <<port, server, result, failure_reason, accepted_count, round, con, unclosed,
                     table, connection, parent, num_tries, hello, backlog>>
  BY <1>1 DEF ReadReply, HandshakeTypeOK
<1>3. PICK n \in 1..Len(down[c]) :
        /\ read' = read \cup {down[c][i] : i \in 2..n}
        /\ down' = [down EXCEPT ![c] = SubSeq(@, n + 1, Len(@))]
  BY DEF ReadReply
<1>4. down[c] \in Seq({"reply", "log", "instr"}) /\ Len(down[c]) \in Nat /\ n \in Nat
  BY <1>1 DEF HandshakeTypeOK
<1>5. /\ down'[c] = SubSeq(down[c], n + 1, Len(down[c]))
      /\ \A d \in Clients : d # c => down'[d] = down[d]
  BY <1>1, <1>3 DEF HandshakeTypeOK
<1>6. /\ down'[c] \in Seq({"reply", "log", "instr"})
      /\ Len(down'[c]) = Len(down[c]) - n
      /\ \A i \in 1..Len(down'[c]) : down'[c][i] = down[c][n + i]
  BY <1>4, <1>5, SMTT(30)
<1>7. down' \in [Clients -> Seq({"reply", "log", "instr"})]
  BY <1>1, <1>3, <1>5, <1>6 DEF HandshakeTypeOK
<1>8. /\ \A i \in 2..Len(down[c]) : down[c][i] \in {"log", "instr"}
      /\ PauseSuffices => \A i \in 2..Len(down[c]) : down[c][i] # "instr"
  <2>1. \A i \in 2..Len(down[c]) : down[c][i] \in {"reply", "log", "instr"} /\ i \in 1..Len(down[c])
    BY <1>4
  <2> QED
    BY <1>1, <1>2, <2>1 DEF DownInv, PauseInv
<1>9. \A i \in 2..n : i \in 2..Len(down[c])
  BY <1>4
<1>10. read' \subseteq {"log", "instr"} /\ (PauseSuffices => "instr" \notin read')
  BY <1>1, <1>3, <1>8, <1>9 DEF HandshakeTypeOK, PauseInv
<1>11. Connected(c) /\ \A d \in Clients : Connected(d)' <=> Connected(d)
  BY <1>1, <1>2 DEF DownInv, Connected
<1>12. HandshakeTypeOK'
  BY <1>1, <1>2, <1>7, <1>10 DEF HandshakeTypeOK, pcount
<1>13. LineInv'
  BY <1>1, <1>2 DEF LineInv, Connected, HandshakeTypeOK, pcount
<1>14. TableInv'
  BY <1>1, <1>2 DEF TableInv, pcount
<1>15. ClientInv'
  BY <1>1, <1>2, <1>5, <1>11 DEF ClientInv
<1>16. DownInv'
  <2>1. \A i \in 2..Len(down'[c]) : n + i \in 2..Len(down[c]) /\ i \in 1..Len(down'[c])
    BY <1>4, <1>6
  <2>2. \A i \in 2..Len(down'[c]) : down'[c][i] # "reply"
    BY <1>6, <1>8, <2>1
  <2> QED
    BY <1>1, <1>5, <1>11, <2>2 DEF DownInv
<1>17. PauseInv'
  BY <1>1, <1>2, <1>5, <1>10, <1>11 DEF PauseInv
<1>18. UnclosedInv'
  BY <1>1, <1>2, <1>11 DEF UnclosedInv, HandshakeTypeOK
<1> QED
  BY <1>12, <1>13, <1>14, <1>15, <1>16, <1>17, <1>18 DEF HandshakeInv

LEMMA NoReplyInv ==
    ASSUME HandshakeInv, NEW c \in Clients, NoReply(c)
    PROVE  HandshakeInv'
<1> USE DEF serverVars, acceptVars, tableVars
<1>1. HandshakeTypeOK /\ LineInv /\ UnclosedInv /\ TableInv /\ ClientInv /\ DownInv /\ PauseInv
  BY DEF HandshakeInv
<1>2. /\ client[c] = "await"
      /\ client' \in [Clients -> {"start", "connect", "hello", "await",
                                  "running", "failed", "crashed"}]
      /\ client'[c] \in {"failed", "crashed"}
      /\ \A d \in Clients : d # c => client'[d] = client[d]
      /\ UNCHANGED <<port, server, result, failure_reason, accepted_count, round, con, unclosed,
                     table, connection, parent, num_tries, hello, read, backlog, down>>
  BY <1>1 DEF NoReply, HandshakeTypeOK
<1>3. \A d \in Clients : Connected(d)' <=> Connected(d)
  BY <1>2 DEF Connected
<1>4. HandshakeTypeOK'
  BY <1>1, <1>2 DEF HandshakeTypeOK, pcount
<1>5. LineInv'
  BY <1>1, <1>2 DEF LineInv, Connected, HandshakeTypeOK, pcount
<1>6. TableInv'
  BY <1>1, <1>2 DEF TableInv, pcount
<1>7. ClientInv' /\ DownInv' /\ PauseInv'
  BY <1>1, <1>2, <1>3 DEF ClientInv, DownInv, PauseInv
<1>8. UnclosedInv'
  BY <1>1, <1>2, <1>3 DEF UnclosedInv, HandshakeTypeOK
<1> QED
  BY <1>4, <1>5, <1>6, <1>7, <1>8 DEF HandshakeInv

(* A program that tries again starts over, unconnected and in no line.     *)
LEMMA ConnectAgainInv ==
    ASSUME HandshakeInv, NEW c \in Foreign, ConnectAgain(c)
    PROVE  HandshakeInv'
<1> USE DEF tableVars
<1>1. /\ HandshakeTypeOK /\ LineInv /\ UnclosedInv /\ TableInv /\ ClientInv /\ DownInv /\ PauseInv
      /\ c \in Clients
  BY HandshakeAssumption DEF HandshakeInv
<1>2. /\ c \in unclosed /\ client[c] = "await" /\ client'[c] = "connect" /\ hello'[c] = "none"
      /\ client' \in [Clients -> {"start", "connect", "hello", "await",
                                  "running", "failed", "crashed"}]
      /\ hello' \in [Clients -> {"none", "handshake", "other", "closed"}]
      /\ \A d \in Clients : d # c => client'[d] = client[d] /\ hello'[d] = hello[d]
      /\ unclosed' = unclosed \ {c}
      /\ UNCHANGED <<port, server, result, failure_reason, accepted_count, round, con,
                     table, connection, parent, num_tries, read, backlog, down>>
  BY <1>1 DEF ConnectAgain, HandshakeTypeOK
<1>3. \A d \in Clients : Connected(d)' <=> Connected(d)
  BY <1>2 DEF Connected
<1>4. HandshakeTypeOK'
  BY <1>1, <1>2 DEF HandshakeTypeOK, pcount
<1>5. /\ c # con /\ ~Connected(c) /\ num_tries[c] < Tries
      /\ \A i \in DOMAIN backlog : backlog[i] # c
  BY <1>1, <1>2 DEF UnclosedInv, ClientInv
<1>6. LineInv'
  BY <1>1, <1>2, <1>5 DEF LineInv, Connected, HandshakeTypeOK, pcount
<1>7. UnclosedInv'
  BY <1>1, <1>2, <1>3 DEF UnclosedInv, HandshakeTypeOK
<1>8. TableInv'
  BY <1>1, <1>2 DEF TableInv, pcount
<1>9. ClientInv' /\ DownInv' /\ PauseInv'
  BY <1>1, <1>2, <1>3, <1>5 DEF ClientInv, DownInv, PauseInv
<1> QED
  BY <1>4, <1>6, <1>7, <1>8, <1>9 DEF HandshakeInv

-----------------------------------------------------------------------------
LEMMA HandshakeStepInv == HandshakeInv /\ [HandshakeNext]_handshakeVars => HandshakeInv'
<1> SUFFICES ASSUME HandshakeInv, [HandshakeNext]_handshakeVars PROVE HandshakeInv'
  OBVIOUS
<1>1. CASE ServerStep
  BY <1>1, StartInv, RoundInv, AcceptInv, AcceptProcessInv, PauseEndsInv DEF ServerStep
<1>2. CASE \E c \in Clients : ClientStep(c)
  BY <1>2, StartRecieverInv, ConnectInv, ConnectRefusedInv, SendHandshakeInv, ReadReplyInv,
     NoReplyInv DEF ClientStep
<1>3. CASE OtherProgramBinds \/ SendFirst \/ ServerGone
  BY <1>3, StartInv, SendFirstInv, ServerGoneInv
<1>4. CASE UNCHANGED handshakeVars
  BY <1>4 DEF handshakeVars, serverVars, acceptVars, tableVars, clientVars, HandshakeInv,
     HandshakeTypeOK, LineInv, UnclosedInv, TableInv, ClientInv, DownInv, PauseInv, Connected,
     pcount
<1>5. CASE \E c \in Foreign : ConnectAgain(c)
  BY <1>5, ConnectAgainInv
<1> QED
  BY <1>1, <1>2, <1>3, <1>4, <1>5 DEF HandshakeNext

(* In every behaviour of a server and its clients a client is in one place *)
(* only, and table, counter and result agree.                              *)
THEOREM HandshakeInvariant == HandshakeSpec => []HandshakeInv
<1> QED
  BY HandshakeInitInv, HandshakeStepInv, PTL DEF HandshakeSpec

(* Neither the rounds of wimp_server_process_accept nor its counter leave  *)
(* their range, and no client tries more often than it may.                *)
THEOREM HandshakeTypeCorrect == HandshakeSpec => []HandshakeTypeOK
<1>1. HandshakeInv => HandshakeTypeOK
  BY DEF HandshakeInv
<1> QED
  BY <1>1, HandshakeInvariant, PTL

(* A server that has "found every process!" is connected to every process  *)
(* it expected, each by its own reciever, and a reciever that runs is in   *)
(* its server's table: however many attempts time out or are turned down   *)
(* in between.                                                             *)
THEOREM SidesAgree == HandshakeSpec => []BothSidesAgree
<1>1. HandshakeInv => BothSidesAgree
  <2> SUFFICES ASSUME HandshakeInv PROVE BothSidesAgree
    OBVIOUS
  <2>1. FoundEveryProcess
    <3> SUFFICES ASSUME server = "done", result = "SUCCESS"
                 PROVE  \A n \in Expected :
                            /\ n \in table /\ connection[n] # NOBODY
                            /\ NameOf[connection[n]] = n
      BY DEF FoundEveryProcess
    <3> DEFINE Active == {n \in Expected : connection[n] # NOBODY}
    <3>1. Cardinality(Active) = Cardinality(Expected)
      BY DEF HandshakeInv, TableInv, pcount
    <3>2. Active \subseteq Expected
      OBVIOUS
    <3> HIDE DEF Active
    <3>3. Active = Expected
      BY <3>1, <3>2, HandshakeAssumption, FS_Subset
    <3> QED
      BY <3>3 DEF Active, HandshakeInv, TableInv
  <2>2. OnlyExpectedRun
    <3> SUFFICES ASSUME NEW c \in Clients, client[c] = "running"
                 PROVE  NameOf[c] \in Expected \cap table /\ connection[NameOf[c]] = c
      BY DEF OnlyExpectedRun
    <3>1. Connected(c)
      BY DEF HandshakeInv, ClientInv
    <3> QED
      BY <3>1, HandshakeAssumption DEF Connected, HandshakeInv, TableInv
  <2> QED
    BY <2>1, <2>2 DEF BothSidesAgree
<1> QED
  BY <1>1, HandshakeInvariant, PTL

(* A pause that lasts until the recievers have read their reply is enough: *)
(* no instruction is read, and thrown away, with the handshake.            *)
THEOREM PauseIsEnough == HandshakeSpec => []NoInstructionLost
<1>1. HandshakeInv => NoInstructionLost
  BY DEF HandshakeInv, PauseInv, NoInstructionLost
<1> QED
  BY <1>1, HandshakeInvariant, PTL
================================================================================
