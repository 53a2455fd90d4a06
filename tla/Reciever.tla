------------------------------ MODULE Reciever ------------------------------
(***************************************************************************)
(* One connection: the byte stream that a peer's send_instructions writes  *)
(* and the thread that puts the instructions together again and adds them  *)
(* to the incoming queue (wimp_reciever.c 186-367).                        *)
(*                                                                         *)
(* The stream is a sequence of cells.  TCP hands them over in order and    *)
(* cuts them up as it likes.  A header is HDR digits of base BASE, least   *)
(* significant first, and counts its own cells: 4 and 256 in the code.  A  *)
(* packet buffer holds BUF cells, 512 in the code.                         *)
(***************************************************************************)
EXTENDS Integers, Sequences, SequencesExt, Header

CONSTANTS
    HDR, BASE, BUF,
    Sizes,      \* total sizes of the instructions that are sent
    PING,       \* the header that stands alone, WIMP_RECIEVER_PING
    Events,     \* what may happen besides sending, see below
    MaxSent,    \* bound: instructions sent
    MaxPings    \* bound: pings sent

(* A ping and an instruction are told apart by their headers, and a header *)
(* has room for every size.                                                *)
ASSUME RecieverAssumption ==
    /\ HDR \in Nat \ {0} /\ BASE \in Nat \ {0, 1} /\ BUF \in Nat \ {0}
    /\ Sizes \subseteq Nat /\ \A size \in Sizes : size > HDR
    /\ PING \in Nat \ {0} /\ PING \notin Sizes
    /\ \A n \in Sizes \cup {PING} : HeaderHolds(n, BASE, HDR)
    /\ Events \subseteq {"exit", "close", "truncate", "reset", "inactive"}
    /\ MaxSent \in Nat /\ MaxPings \in Nat

VARIABLES
    wire,           \* cells sent and not yet received
    peer,           \* "open", or how the peer left: "closed", "died", "reset"
    sent,           \* history: the instructions the peer has sent whole
    pings,          \* how many pings the peer has sent
    active,         \* *args->active, cleared by wimp_server_free
    at_signal,      \* history: how many instructions were in the queue then
    loc,            \* where the thread is
    rec,            \* state.state, the state the loop will dispatch on
    recbuffer,      \* the last packet, padded with zeroes
    incoming_size,  \* what p_socket_receive returned for it
    rec_offset,     \* how much of it is used up
    instruction,    \* the cells read so far of a header or an instruction
    total,          \* state.instruction.instruction_bytes
    disconnect,     \* this instruction was our own exit
    delivered       \* history: the instructions added to the queue

peerVars == <<peer, sent, pings, active, at_signal>>
packetVars == <<wire, recbuffer, incoming_size>>
recVars == <<loc, rec, recbuffer, incoming_size, rec_offset, instruction, total, disconnect,
             delivered>>
vars == <<wire, peerVars, recVars>>

-----------------------------------------------------------------------------
(* A cell is a byte and where it comes from: which instruction (0: none)   *)
(* and which place in it.  Data bytes are 1, or 2 in an exit instruction.  *)
Cell(v, m, k) == [v |-> v, m |-> m, k |-> k]
ZERO == Cell(0, 0, 0)
HeaderValue(cells) == ValueOf([k \in 1..HDR |-> cells[k].v], BASE, HDR)

(* wimp_server_bundle_instr, as far as the stream is concerned.            *)
Frame(m, size, data) ==
    [k \in 1..size |-> Cell(IF k <= HDR THEN DigitsOf(size, BASE, HDR)[k] ELSE data, m, k)]
PingFrame == [k \in 1..HDR |-> Cell(DigitsOf(PING, BASE, HDR)[k], 0, k)]
IsExit(cells) == cells[HDR + 1].v = 2

Frames == {Frame(m, size, data) : m \in 1..MaxSent, size \in Sizes, data \in {1, 2}}
Cells == [v : 0..(BASE - 1) \cup {1, 2}, m : 0..MaxSent, k : Nat]

TypeOK ==
    /\ wire \in Seq(Cells)
    /\ peer \in {"open", "closed", "died", "reset"}
    /\ sent \in Seq(Frames) /\ Len(sent) <= MaxSent
    /\ pings \in 0..MaxPings
    /\ active \in BOOLEAN /\ disconnect \in BOOLEAN
    /\ at_signal \in Nat
    /\ loc \in {"top", "idle", "headers", "data", "fetch", "parse", "add", "stopped", "crashed"}
    /\ rec \in {"idle", "headers", "data"}
    /\ recbuffer \in [1..BUF -> Cells]
    /\ incoming_size \in -1..BUF
    /\ rec_offset \in Nat
    /\ instruction \in Seq(Cells)
    /\ total \in Nat /\ Len(instruction) <= HDR + total
    /\ delivered \in Seq(Seq(Cells))

Init ==
    /\ wire = <<>> /\ peer = "open" /\ sent = <<>> /\ pings = 0
    /\ active = TRUE /\ at_signal = 0
    /\ loc = "top" /\ rec = "idle"
    /\ recbuffer = [i \in 1..BUF |-> ZERO]
    /\ incoming_size = 0 /\ rec_offset = 0
    /\ instruction = <<>> /\ total = 0 /\ disconnect = FALSE
    /\ delivered = <<>>

-----------------------------------------------------------------------------
(* The peer and the server that owns the thread.                           *)
NextFrame(size, data) == Frame(Len(sent) + 1, size, data)

(* wimp_server_send_instructions, wimp_server_check_process_listening      *)
SendInstruction ==
    \E size \in Sizes, data \in {1} \cup (IF "exit" \in Events THEN {2} ELSE {}) :
        /\ peer = "open"
        /\ Len(sent) < MaxSent
        /\ sent' = Append(sent, NextFrame(size, data))
        /\ wire' = wire \o NextFrame(size, data)
        /\ UNCHANGED <<peer, pings, active, at_signal, recVars>>

SendPing ==
    /\ peer = "open"
    /\ pings < MaxPings
    /\ pings' = pings + 1
    /\ wire' = wire \o PingFrame
    /\ UNCHANGED <<peer, sent, active, at_signal, recVars>>

(* The peer's sockets are closed: between two instructions; in the middle  *)
(* of one, when its process dies between two of the sends that make it up; *)
(* or with a reset, which discards what was in flight.                     *)
PeerLeaves ==
    /\ peer = "open"
    /\ \/ "close" \in Events /\ peer' = "closed" /\ UNCHANGED wire
       \/ /\ "truncate" \in Events
          /\ Len(sent) < MaxSent
          /\ \E size \in Sizes : \E n \in 1..(size - 1) :
                wire' = wire \o SubSeq(NextFrame(size, 1), 1, n)
          /\ peer' = "died"
       \/ "reset" \in Events /\ peer' = "reset" /\ wire' = <<>>
    /\ UNCHANGED <<sent, pings, active, at_signal, recVars>>

(* wimp_server_free begins: server->active is cleared.                     *)
Deactivate ==
    /\ "inactive" \in Events
    /\ active
    /\ active' = FALSE
    /\ at_signal' = Len(delivered)
    /\ UNCHANGED <<wire, peer, sent, pings, recVars>>

-----------------------------------------------------------------------------
(* p_socket_receive blocks while there is nothing to return.  It returns   *)
(* any part of what has arrived, 0 when the peer has closed, -1 on error.  *)
Padded(cells) == [i \in 1..BUF |-> IF i <= Len(cells) THEN cells[i] ELSE ZERO]

(* wimp_reciever_next_packet; rec_offset is the caller's to set.           *)
NextPacket ==
    \/ \E n \in 1..BUF :
        /\ n <= Len(wire)
        /\ recbuffer' = Padded(SubSeq(wire, 1, n))
        /\ wire' = SubSeq(wire, n + 1, Len(wire))
        /\ incoming_size' = n
    \/ /\ wire = <<>> /\ peer # "open"
       /\ recbuffer' = Padded(<<>>)
       /\ incoming_size' = IF peer = "reset" THEN -1 ELSE 0
       /\ UNCHANGED wire

(* rec_offset is unsigned, so that -1 compares as the largest number.      *)
UsedUp(offset) == incoming_size # -1 /\ offset >= incoming_size

(* Slip: the loop ends on an exit instruction only.                        *)
LoopTopActiveUnread ==
    /\ loc = "top"
    /\ loc' = IF disconnect THEN "stopped" ELSE rec
    /\ UNCHANGED <<wire, peerVars, rec, recbuffer, incoming_size, rec_offset, instruction, total,
                   disconnect, delivered>>

(* The head of the loop: leave after our own exit or when the server is no *)
(* longer active, dispatch otherwise.                                      *)
LoopTop ==
    /\ loc = "top"
    /\ loc' = IF disconnect \/ ~active THEN "stopped" ELSE rec
    /\ UNCHANGED <<wire, peerVars, rec, recbuffer, incoming_size, rec_offset, instruction, total,
                   disconnect, delivered>>

Idle ==
    /\ loc = "idle"
    /\ NextPacket
    /\ rec_offset' = 0
    /\ IF incoming_size' > 0 THEN rec' = "headers" /\ loc' = "headers"
                             ELSE loc' = "top" /\ UNCHANGED rec
    /\ UNCHANGED <<peerVars, instruction, total, disconnect, delivered>>

(* Slips: a header of zero is a size; a ping ends the packet.              *)
HeaderReadZeroIsSize(cells) ==
    \/ /\ Len(cells) < HDR
       /\ instruction' = cells /\ total' = 0
       /\ UNCHANGED <<loc, rec>>
    \/ /\ Len(cells) = HDR /\ HeaderValue(cells) = PING
       /\ instruction' = <<>> /\ total' = 0
       /\ loc' = "top" /\ UNCHANGED rec
    \/ /\ Len(cells) = HDR /\ HeaderValue(cells) # PING
       /\ instruction' = cells /\ total' = HeaderValue(cells)
       /\ IF HeaderValue(cells) < HDR THEN loc' = "crashed" /\ UNCHANGED rec
                                     ELSE loc' = "data" /\ rec' = "data"
HeaderReadPingEndsPacket(cells) ==
    \/ /\ Len(cells) < HDR
       /\ instruction' = cells /\ total' = 0
       /\ UNCHANGED <<loc, rec>>
    \/ /\ Len(cells) = HDR /\ HeaderValue(cells) \in {0, PING}
       /\ instruction' = <<>> /\ total' = 0
       /\ loc' = "top" /\ rec' = "idle"
    \/ /\ Len(cells) = HDR /\ HeaderValue(cells) \notin {0, PING}
       /\ instruction' = cells /\ total' = HeaderValue(cells)
       /\ IF HeaderValue(cells) < HDR THEN loc' = "crashed" /\ UNCHANGED rec
                                     ELSE loc' = "data" /\ rec' = "data"

(* One round of the header loop and, after the last one, the test of the   *)
(* header: end of data, a ping, or the size of an instruction.  A size     *)
(* that does not cover the header itself overruns the buffer.              *)
HeaderRead(cells) ==
    \/ /\ Len(cells) < HDR
       /\ instruction' = cells /\ total' = 0
       /\ UNCHANGED <<loc, rec>>
    \/ /\ Len(cells) = HDR /\ HeaderValue(cells) \in {0, PING}
       /\ instruction' = <<>> /\ total' = 0
       /\ loc' = "top"
       /\ rec' = IF HeaderValue(cells) = 0 THEN "idle" ELSE rec
    \/ /\ Len(cells) = HDR /\ HeaderValue(cells) \notin {0, PING}
       /\ instruction' = cells /\ total' = HeaderValue(cells)
       /\ IF HeaderValue(cells) < HDR THEN loc' = "crashed" /\ UNCHANGED rec
                                     ELSE loc' = "data" /\ rec' = "data"

(* The memory behind recbuffer must not be read.                           *)
Overrun == loc' = "crashed" /\ UNCHANGED <<rec, instruction, total, rec_offset>>

HeaderByte ==
    /\ loc = "headers"
    /\ ~UsedUp(rec_offset)
    /\ IF rec_offset >= BUF THEN Overrun
       ELSE /\ HeaderRead(Append(instruction, recbuffer[rec_offset + 1]))
            /\ rec_offset' = rec_offset + 1
    /\ UNCHANGED <<peerVars, packetVars, disconnect, delivered>>

(* Slip: the byte taken from the new packet is not counted.                *)
HeaderByteReadTwice ==
    /\ loc = "headers"
    /\ UsedUp(rec_offset)
    /\ NextPacket
    /\ HeaderRead(Append(instruction, recbuffer'[1]))
    /\ rec_offset' = 0
    /\ UNCHANGED <<peerVars, disconnect, delivered>>

HeaderByteOfNextPacket ==
    /\ loc = "headers"
    /\ UsedUp(rec_offset)
    /\ NextPacket
    /\ HeaderRead(Append(instruction, recbuffer'[1]))
    /\ rec_offset' = 1
    /\ UNCHANGED <<peerVars, disconnect, delivered>>

(* Slip: the copy is not limited to what the packet has.                   *)
DataCopyUnlimited ==
    /\ loc = "data"
    /\ LET left == total - Len(instruction)
       IN  /\ instruction' = instruction \o [i \in 1..left |->
                   IF rec_offset + i <= BUF THEN recbuffer[rec_offset + i] ELSE ZERO]
           /\ rec_offset' = rec_offset + left
           /\ loc' = "parse"
    /\ UNCHANGED <<peerVars, packetVars, rec, total, disconnect, delivered>>

(* One round of the data loop: copy what the packet has, or what is left.  *)
(* After an error nothing limits the copy, and the zeroes of the buffer    *)
(* pass for data.  An offset beyond an empty packet, which a header filled *)
(* up with a zero leaves behind, makes the count a huge unsigned number.   *)
DataCopy ==
    /\ loc = "data"
    /\ LET left == total - Len(instruction)
           n == IF UsedUp(rec_offset + left - 1) THEN incoming_size - rec_offset ELSE left
       IN  IF n < 0 \/ rec_offset + n > BUF THEN Overrun
           ELSE /\ instruction' = instruction \o SubSeq(recbuffer, rec_offset + 1, rec_offset + n)
                /\ rec_offset' = rec_offset + n
                /\ loc' = IF n < left THEN "fetch" ELSE "parse"
                /\ UNCHANGED <<rec, total>>
    /\ UNCHANGED <<peerVars, packetVars, disconnect, delivered>>

DataFetch ==
    /\ loc = "fetch"
    /\ NextPacket
    /\ rec_offset' = 0
    /\ loc' = "data"
    /\ UNCHANGED <<peerVars, rec, instruction, total, disconnect, delivered>>

(* Slip: the exit instruction is passed on like any other.                 *)
ParseExitUnnoticed ==
    /\ loc = "parse"
    /\ loc' = "add"
    /\ UNCHANGED <<wire, peerVars, rec, recbuffer, incoming_size, rec_offset, instruction, total,
                   disconnect, delivered>>

(* wimp_instr_get_from_buffer takes a first byte of zero for a ping and    *)
(* returns no instruction to compare with "exit"; it looks for the names   *)
(* behind the header, there or not.                                        *)
Parse ==
    /\ loc = "parse"
    /\ IF instruction[1].v = 0 \/ Len(instruction) = HDR
       THEN loc' = "crashed" /\ UNCHANGED disconnect
       ELSE loc' = "add" /\ disconnect' = IsExit(instruction)
    /\ UNCHANGED <<wire, peerVars, rec, recbuffer, incoming_size, rec_offset, instruction, total,
                   delivered>>

(* Slip: the instruction being built is not reset.                         *)
AddInstructionNotReset ==
    /\ loc = "add"
    /\ delivered' = Append(delivered, instruction)
    /\ total' = 0
    /\ rec' = "headers"
    /\ loc' = "top"
    /\ UNCHANGED <<wire, peerVars, recbuffer, incoming_size, rec_offset, instruction, disconnect>>

(* Lock, add and unlock: one step here, see InstrQueue.                    *)
AddInstruction ==
    /\ loc = "add"
    /\ delivered' = Append(delivered, instruction)
    /\ instruction' = <<>>
    /\ total' = 0
    /\ rec' = "headers"
    /\ loc' = "top"
    /\ UNCHANGED <<wire, peerVars, recbuffer, incoming_size, rec_offset, disconnect>>

Peer == SendInstruction \/ SendPing \/ PeerLeaves
Server == Deactivate
Thread ==
    \/ LoopTop
    \/ Idle
    \/ HeaderByte
    \/ HeaderByteOfNextPacket
    \/ DataCopy
    \/ DataFetch
    \/ Parse
    \/ AddInstruction

Next == Peer \/ Server \/ Thread

Spec == Init /\ [][Next]_vars

(* The thread runs whenever it is not blocked in p_socket_receive.         *)
FairSpec == Spec /\ WF_vars(Thread)

-----------------------------------------------------------------------------
InFlight == SubSeq(sent, Len(delivered) + 1, Len(sent))
ExitRead == \E i \in DOMAIN delivered : IsExit(delivered[i])

(* The peer left between two instructions, if it left, and nothing that it *)
(* sent was discarded.                                                     *)
PeerFaultless == peer \in {"open", "closed"}

Connection ==
    INSTANCE FifoQueue WITH Msgs <- Frames, contents <- InFlight, handled <- delivered

(* However TCP cuts the stream up and wherever pings fall, the queue gets  *)
(* each instruction once, whole, unchanged and in order: the connection is *)
(* a FifoQueue as long as the peer does not die or reset it.               *)
DeliversInOrder ==
    /\ Connection!FifoInit
    /\ [][PeerFaultless' => Connection!FifoNext]_<<InFlight, delivered>>

(* Even then only the last instruction delivered may be damaged: all those *)
(* before it are the ones that were sent, in order.                        *)
DamagedAtEndOnly ==
    \A i \in 1..(Len(delivered) - 1) : i <= Len(sent) /\ delivered[i] = sent[i]

(* Cells without those of pings.                                           *)
Payload(cells) == FlattenSeq([i \in DOMAIN cells |-> IF cells[i].m = 0 THEN <<>> ELSE <<cells[i]>>])

(* Every cell is accounted for: behind the instructions delivered come the *)
(* one being put together, the rest of the packet and what is on the wire. *)
Pending == instruction \o SubSeq(recbuffer, rec_offset + 1, incoming_size) \o wire
StreamConserved == PeerFaultless => FlattenSeq(InFlight) = Payload(Pending)

(* A faultless peer never makes the thread touch memory it must not touch. *)
NeverCrashes == PeerFaultless => loc # "crashed"

(* The exit instruction of this process is the last one the thread reads.  *)
NothingAfterExit == [][delivered' # delivered => ~ExitRead]_vars

(* Once the server has cleared active, and goes on to free its queue, the  *)
(* thread adds at most the one instruction it is in the middle of, however *)
(* late that comes and however many are in the packet.                     *)
AtMostOneMore == ~active => Len(delivered) <= at_signal + 1

(* While the server is active, what was sent arrives, pings or not.        *)
EverythingArrives ==
    \A n \in 1..MaxSent :
        Len(sent) >= n ~> (Len(delivered) >= n \/ ExitRead \/ ~active \/ ~PeerFaultless)

(* "Need to sleep to allow the reciever time to pick up the signal"        *)
(* (wimp_server.c 448): a thread whose server is gone and whose peer has   *)
(* left picks it up, unless the peer died inside an instruction.  The data *)
(* loop then gets 0 bytes forever and does not look at active.             *)
CutOff == peer = "died" /\ loc \in {"data", "fetch"}
StopsWhenAbandoned ==
    (~active /\ peer # "open") ~> (loc \in {"stopped", "crashed"} \/ CutOff)
=============================================================================
