---------------------------- MODULE RecieverProofs ----------------------------
(***************************************************************************)
(* The reassembly of instructions, for any header, buffer and sizes: the   *)
(* invariants of Reciever and, however the stream is cut, the refinement   *)
(* of FifoQueue.                                                           *)
(***************************************************************************)
EXTENDS Reciever, SequenceTheorems, InductionLemmas, TLAPS

-----------------------------------------------------------------------------
(* The stream.  frames are the instructions it is made of, done says how   *)
(* many of them the stream has left behind.                                *)
Source(frames, m) == IF m = 0 THEN PingFrame ELSE frames[m]

(* Cell i of the stream stands in its frame: the cells around it are those *)
(* of the frame, as far as the stream goes.                                *)
InFrame(frames, done, P, i) ==
    LET c == P[i]
        F == Source(frames, c.m)
    IN  /\ c.m = 0 \/ c.m \in (done + 1)..Len(frames)
        /\ c.k \in 1..Len(F) /\ c.k <= i
        /\ \A k \in 1..Len(F) : i - c.k + k <= Len(P) => P[i - c.k + k] = F[k]

(* The frame of cell i is there to its end.                                *)
Complete(frames, P, i) == i - P[i].k + Len(Source(frames, P[i].m)) <= Len(P)

Before(c, d) == c.m < d.m \/ (c.m = d.m /\ c.k < d.k)

(* A cut off stream: frames and pings one after the other, the last one    *)
(* perhaps in part; the frames in order, and without a gap.                *)
Stream(frames, done, P) ==
    /\ \A i \in 1..Len(P) : InFrame(frames, done, P, i)
    /\ \A i, j \in 1..Len(P) : i < j /\ P[i].m # 0 /\ P[j].m # 0 => Before(P[i], P[j])
    /\ \A j \in 1..Len(P) : \A m \in (done + 1)..P[j].m : \E i \in 1..Len(P) : P[i].m = m

(* All of the frames up to the last one are in the stream, to their end.   *)
AllThere(frames, last, done, P) ==
    /\ \A m \in (done + 1)..last : \E i \in 1..Len(P) : P[i].m = m
    /\ \A i \in 1..Len(P) : P[i].m <= last => Complete(frames, P, i)

-----------------------------------------------------------------------------
FramesOf(m) == {Frame(m, size, data) : size \in Sizes, data \in {1, 2}}
Rest == SubSeq(recbuffer, rec_offset + 1, incoming_size)
AllZero(cells) == \A i \in 1..Len(cells) : cells[i] = ZERO
Exact == Len(delivered) <= Len(sent) /\ \A i \in 1..Len(delivered) : delivered[i] = sent[i]

(* The frames of the stream: the instructions sent and, when the peer has  *)
(* died, the one it was sending.                                           *)
Begun == {sent} \cup
    IF peer = "died" /\ Len(sent) < MaxSent
    THEN {Append(sent, F) : F \in FramesOf(Len(sent) + 1)}
    ELSE {}

(* Where the thread is, and what it has of the first frame of the stream.  *)
Reading(frames) ==
    /\ 0 <= rec_offset /\ (incoming_size >= 0 => rec_offset <= incoming_size)
    /\ incoming_size = -1 => peer = "reset" /\ wire = <<>> /\ rec_offset = 0 /\ AllZero(recbuffer)
    /\ loc \in {"idle", "top", "stopped"} => instruction = <<>> /\ total = 0
    /\ loc = "idle" => rec = "idle"
    /\ loc \in {"idle", "top", "stopped"} /\ rec = "idle" => incoming_size <= 0
    /\ loc \in {"top", "stopped"} => rec # "data"
    /\ loc = "headers" =>
        rec = "headers" /\ Len(instruction) < HDR /\ total = 0
    /\ rec = "headers" /\ loc # "crashed" => incoming_size >= 0
    /\ loc \in {"data", "fetch", "parse", "add"} =>
        /\ rec = "data"
        /\ HDR <= Len(instruction)
        /\ instruction[1].m # 0 /\ total = Len(frames[instruction[1].m])
    /\ loc \in {"data", "fetch"} => Len(instruction) < total
    /\ loc = "fetch" => rec_offset = incoming_size
    /\ loc \in {"fetch", "parse", "add"} => incoming_size >= 0
    /\ loc \in {"parse", "add"} => Len(instruction) = total
    /\ loc = "crashed" =>
        ~ PeerFaultless \/ \E size \in Sizes : size % BASE = 0

(* What is pending is the stream, as far as the peer has sent it.          *)
PartOf(frames, P) ==
    \A i \in 1..Len(P) : P[i].m = Len(frames) => ~Complete(frames, P, i)

Streaming(frames) ==
    /\ Stream(frames, Len(delivered), Pending)
    /\ peer # "reset" => AllThere(frames, Len(sent), Len(delivered), Pending)
    /\ peer = "reset" => wire = <<>>
    /\ peer = "died" => Len(frames) = Len(sent) + 1 /\ PartOf(frames, Pending)
    /\ Exact

(* The stream goes on.                                                     *)
Intact == \E frames \in Begun : Streaming(frames) /\ Reading(frames)

(* The stream has ended inside a header, or between two frames, or inside  *)
(* a frame after a reset: there are only zeroes to read.                   *)
Ended ==
    /\ wire = <<>> /\ peer # "open" /\ AllZero(recbuffer)
    /\ incoming_size = IF peer = "reset" THEN -1 ELSE 0
    /\ rec_offset \in Nat
    /\ \/ Exact
       \/ /\ peer = "reset"
          /\ AllZero(instruction) /\ loc \in {"idle", "top", "headers", "stopped", "crashed"}
          /\ DamagedAtEndOnly
    /\ loc \in {"idle", "top", "stopped"} => instruction = <<>> /\ total = 0 /\ rec # "data"
    /\ loc = "idle" => rec = "idle"
    /\ loc = "headers" => rec = "headers" /\ Len(instruction) < HDR /\ total = 0
    /\ loc \in {"data", "fetch", "parse", "add"} => rec = "data" /\ Len(instruction) <= total
    /\ peer # "reset" =>
        /\ loc \notin {"fetch", "parse", "add"}
        /\ rec # "idle" => rec_offset >= 1
        /\ loc = "data" => HDR <= total /\ Len(instruction) = HDR /\ rec_offset = 1
    /\ peer = "closed" =>
        Len(delivered) = Len(sent) /\ AllZero(instruction) /\ loc \notin {"data", "crashed"}

SentWell == \A m \in 1..Len(sent) : sent[m] \in FramesOf(m)

StreamInv ==
    /\ TypeOK
    /\ SentWell
    /\ Intact \/ Ended

-----------------------------------------------------------------------------
(* The header: a number of HDR digits, written and read back.              *)
Digit(n, k) == DigitsOf(n, BASE, HDR)[k]

LEMMA DigitIs ==
    ASSUME NEW n \in Nat, NEW k \in 1..HDR
    PROVE  Digit(n, k) \in 0..(BASE - 1) /\ (k = 1 => Digit(n, k) = n % BASE)
<1>1. BASE \in Nat \ {0} /\ HDR \in Nat
  BY RecieverAssumption
<1>2. DigitsOf(n, BASE, HDR) \in [1..HDR -> 0..(BASE - 1)]
  BY <1>1, DigitsAre
<1>3. Digit(n, k) = Shifts(n, BASE, HDR)[k - 1] % BASE
  BY <1>1, DigitsAre DEF Digit
<1>4. Shifts(n, BASE, HDR)[0] = n
  BY <1>1, ShiftsAre
<1> QED
  BY <1>2, <1>3, <1>4 DEF Digit

LEMMA HeaderValueIs ==
    ASSUME NEW cells, \A k \in 1..HDR : cells[k].v \in Nat
    PROVE  \E top \in [0..HDR -> Nat] :
                /\ top[0] = 0
                /\ \A k \in 1..HDR : top[k] = cells[HDR + 1 - k].v + BASE * top[k - 1]
                /\ HeaderValue(cells) = top[HDR]
<1> DEFINE digits == [k \in 1..HDR |-> cells[k].v]
<1>1. BASE \in Nat /\ HDR \in Nat
  BY RecieverAssumption
<1>2. \A k \in 1..HDR : digits[k] \in Nat /\ digits[k] = cells[k].v
  OBVIOUS
<1>3. HeaderValue(cells) = ValueOf(digits, BASE, HDR)
  BY DEF HeaderValue
<1> HIDE DEF digits
<1>4. PICK top \in [0..HDR -> Nat] : ReadUp(digits, BASE, HDR, top)
  BY <1>1, <1>2, ValueIs
<1>5. \A k \in 1..HDR : HDR + 1 - k \in 1..HDR
  BY <1>1
<1>6. /\ top[0] = 0
      /\ \A k \in 1..HDR : top[k] = cells[HDR + 1 - k].v + BASE * top[k - 1]
      /\ HeaderValue(cells) = top[HDR]
  BY <1>2, <1>3, <1>4, <1>5 DEF ReadUp
<1> QED
  BY <1>6

(* The size at the head of an instruction is read as it was written.       *)
LEMMA SizeReads ==
    ASSUME NEW n \in Nat, HeaderHolds(n, BASE, HDR),
           NEW cells, \A k \in 1..HDR : cells[k].v = Digit(n, k)
    PROVE  HeaderValue(cells) = n
<1> DEFINE digits == [k \in 1..HDR |-> cells[k].v]
<1>1. BASE \in Nat \ {0} /\ HDR \in Nat
  BY RecieverAssumption
<1>2. \A k \in 1..HDR : digits[k] = DigitsOf(n, BASE, HDR)[k]
  BY DEF Digit
<1>3. HeaderValue(cells) = ValueOf(digits, BASE, HDR)
  BY DEF HeaderValue
<1> HIDE DEF digits
<1> QED
  BY <1>1, <1>2, <1>3, HeaderReads

(* A header that has not been sent reads zero.                             *)
LEMMA HeaderZero ==
    ASSUME NEW cells, \A k \in 1..HDR : cells[k].v = 0
    PROVE  HeaderValue(cells) = 0
<1>1. HDR \in Nat /\ BASE \in Nat
  BY RecieverAssumption
<1>2. PICK top \in [0..HDR -> Nat] :
        /\ top[0] = 0
        /\ \A k \in 1..HDR : top[k] = cells[HDR + 1 - k].v + BASE * top[k - 1]
        /\ HeaderValue(cells) = top[HDR]
  <2>1. \A k \in 1..HDR : cells[k].v \in Nat
    OBVIOUS
  <2> QED
    BY <2>1, HeaderValueIs
<1> DEFINE S == {k \in 0..HDR : top[k] = 0}
<1>3. 0 \in S
  BY <1>1, <1>2
<1>4. ASSUME NEW k \in 0..(HDR - 1), k \in S PROVE k + 1 \in S
  <2>1. /\ k + 1 \in 1..HDR /\ k + 1 \in 0..HDR /\ (k + 1) - 1 = k
        /\ HDR + 1 - (k + 1) \in 1..HDR
    BY <1>1
  <2>2. top[k + 1] = 0 + BASE * 0
    BY <1>2, <1>4, <2>1
  <2> QED
    BY <1>1, <2>1, <2>2
<1> HIDE DEF S
<1>5. 0..HDR \subseteq S
  BY <1>1, <1>3, <1>4, Induction
<1>6. HDR \in S
  <2>1. HDR \in 0..HDR
    BY <1>1
  <2> QED
    BY <1>5, <2>1
<1>7. top[HDR] = 0
  BY <1>6 DEF S
<1> QED
  BY <1>2, <1>7

-----------------------------------------------------------------------------
(* The frames a stream is made of.                                         *)
IsFrame(F, m) ==
    /\ F \in Seq(Cells) /\ Len(F) >= HDR /\ Len(F) >= 1
    /\ \A k \in 1..Len(F) : F[k].m = m /\ F[k].k = k

Good(frames) ==
    /\ frames \in Seq(Seq(Cells)) /\ Len(frames) <= MaxSent
    /\ \A m \in 1..Len(frames) : frames[m] \in FramesOf(m)

LEMMA CellsAre ==
    /\ ZERO \in Cells
    /\ \A c \in Cells : c.m \in Nat /\ c.k \in Nat /\ c.v \in Nat
    /\ \A n \in Nat, k \in 1..HDR, m \in 0..MaxSent : Cell(Digit(n, k), m, k) \in Cells
    /\ \A data \in {1, 2}, k \in Nat, m \in 0..MaxSent : Cell(data, m, k) \in Cells
<1>1. BASE \in Nat /\ BASE > 1 /\ HDR \in Nat /\ MaxSent \in Nat
  BY RecieverAssumption
<1>2. ASSUME NEW n \in Nat, NEW k \in 1..HDR PROVE Digit(n, k) \in 0..(BASE - 1)
  BY DigitIs
<1> QED
  BY <1>1, <1>2 DEF ZERO, Cell, Cells

LEMMA FrameIs ==
    ASSUME NEW m \in 1..MaxSent, NEW F \in FramesOf(m)
    PROVE  /\ IsFrame(F, m) /\ Len(F) \in Sizes /\ Len(F) > HDR
           /\ \A k \in 1..HDR : F[k].v = Digit(Len(F), k)
<1>1. PICK size \in Sizes, data \in {1, 2} : F = Frame(m, size, data)
  BY DEF FramesOf
<1>2. HDR \in Nat \ {0} /\ size \in Nat /\ size > HDR
  BY RecieverAssumption
<1>3. F = [k \in 1..size |-> Cell(IF k <= HDR THEN Digit(size, k) ELSE data, m, k)]
  BY <1>1 DEF Frame, Digit
<1>4. \A k \in 1..size : Cell(IF k <= HDR THEN Digit(size, k) ELSE data, m, k) \in Cells
  BY <1>2, CellsAre
<1>5. F \in Seq(Cells) /\ Len(F) = size
  BY <1>2, <1>3, <1>4
<1>6. \A k \in 1..size : F[k].m = m /\ F[k].k = k
  BY <1>3 DEF Cell
<1>7. \A k \in 1..HDR : F[k].v = Digit(size, k)
  BY <1>2, <1>3 DEF Cell
<1> QED
  BY <1>2, <1>5, <1>6, <1>7 DEF IsFrame

LEMMA PingIs ==
    /\ IsFrame(PingFrame, 0) /\ Len(PingFrame) = HDR
    /\ \A k \in 1..HDR : PingFrame[k].v = Digit(PING, k)
<1>1. HDR \in Nat \ {0} /\ PING \in Nat /\ 0 \in 0..MaxSent
  BY RecieverAssumption
<1>2. \A k \in 1..HDR : Cell(Digit(PING, k), 0, k) \in Cells
  BY <1>1, CellsAre
<1>3. PingFrame \in Seq(Cells) /\ Len(PingFrame) = HDR
  BY <1>1, <1>2 DEF PingFrame, Digit
<1> QED
  BY <1>1, <1>3 DEF PingFrame, Cell, IsFrame, Digit

LEMMA SourceIs ==
    ASSUME NEW frames, Good(frames), NEW m \in 0..Len(frames)
    PROVE  IsFrame(Source(frames, m), m)
<1>1. CASE m = 0
  BY <1>1, PingIs DEF Source
<1>2. CASE m # 0
  <2>1. m \in 1..Len(frames) /\ m \in 1..MaxSent
    BY <1>2, RecieverAssumption DEF Good
  <2> QED
    BY <1>2, <2>1, FrameIs DEF Source, Good
<1> QED
  BY <1>1, <1>2

(* The head of a stream is the head of a ping or of the next frame.        *)
LEMMA StreamHead ==
    ASSUME NEW frames, Good(frames), NEW done \in Nat,
           NEW P \in Seq(Cells), Stream(frames, done, P), P # <<>>
    PROVE  /\ P[1].m = 0 \/ (P[1].m = done + 1 /\ done + 1 <= Len(frames))
           /\ P[1].m \in 0..Len(frames)
           /\ \A k \in 1..Len(Source(frames, P[1].m)) :
                k <= Len(P) => P[k] = Source(frames, P[1].m)[k]
<1> DEFINE F == Source(frames, P[1].m)
<1>1. 1 \in 1..Len(P) /\ P[1] \in Cells /\ P[1].m \in Nat /\ P[1].k \in Nat
  BY CellsAre
<1>2. InFrame(frames, done, P, 1)
  BY <1>1 DEF Stream
<1>3. /\ P[1].m = 0 \/ P[1].m \in (done + 1)..Len(frames)
      /\ P[1].k \in 1..Len(F) /\ P[1].k <= 1
      /\ \A k \in 1..Len(F) : 1 - P[1].k + k <= Len(P) => P[1 - P[1].k + k] = F[k]
  BY <1>2 DEF InFrame
<1> HIDE DEF F
<1>4. P[1].k = 1 /\ \A k \in 1..Len(F) : 1 - P[1].k + k = k
  BY <1>1, <1>3
<1>5. \A k \in 1..Len(F) : k <= Len(P) => P[k] = F[k]
  BY <1>3, <1>4
<1>6. ASSUME P[1].m # 0 PROVE P[1].m = done + 1
  <2>1. Len(frames) \in Nat /\ done + 1 \in (done + 1)..P[1].m
    BY <1>1, <1>3, <1>6 DEF Good
  <2>2. PICK i \in 1..Len(P) : P[i].m = done + 1
    BY <1>1, <2>1 DEF Stream
  <2>3. CASE i = 1
    BY <2>2, <2>3
  <2>4. CASE i # 1
    <3>1. Before(P[1], P[i])
      BY <1>1, <1>6, <2>2, <2>4 DEF Stream
    <3> QED
      BY <1>1, <1>3, <1>6, <2>2, <3>1 DEF Before
  <2> QED
    BY <2>3, <2>4
<1>7. P[1].m \in 0..Len(frames)
  BY <1>1, <1>3 DEF Good
<1> QED
  BY <1>3, <1>5, <1>6, <1>7 DEF F, Good

(* A stream may be cut off anywhere.                                       *)
LEMMA StreamPrefix ==
    ASSUME NEW frames, NEW done \in Nat,
           NEW P \in Seq(Cells), Stream(frames, done, P),
           NEW Q \in Seq(Cells), Len(Q) <= Len(P), \A i \in 1..Len(Q) : Q[i] = P[i]
    PROVE  Stream(frames, done, Q)
<1>1. \A i \in 1..Len(Q) : i \in 1..Len(P) /\ P[i] = Q[i]
  OBVIOUS
<1>2. ASSUME NEW i \in 1..Len(Q) PROVE InFrame(frames, done, Q, i)
  <2> DEFINE F == Source(frames, P[i].m)
  <2>1. InFrame(frames, done, P, i)
    BY <1>1 DEF Stream
  <2>2. P[i].k \in Nat /\ Len(Q) \in Nat
    BY <1>1, CellsAre
  <2>3. /\ P[i].m = 0 \/ P[i].m \in (done + 1)..Len(frames)
        /\ P[i].k \in 1..Len(F) /\ P[i].k <= i
        /\ \A k \in 1..Len(F) : i - P[i].k + k <= Len(P) => P[i - P[i].k + k] = F[k]
    BY <2>1 DEF InFrame
  <2> HIDE DEF F
  <2>4. ASSUME NEW k \in 1..Len(F), i - P[i].k + k <= Len(Q) PROVE Q[i - P[i].k + k] = F[k]
    <3>1. i - P[i].k + k \in 1..Len(Q) /\ i - P[i].k + k <= Len(P)
      BY <2>2, <2>3, <2>4
    <3> QED
      BY <1>1, <2>3, <3>1
  <2> QED
    BY <1>1, <2>3, <2>4 DEF InFrame, F
<1>3. \A i, j \in 1..Len(Q) : i < j /\ Q[i].m # 0 /\ Q[j].m # 0 => Before(Q[i], Q[j])
  BY <1>1 DEF Stream
<1>4. ASSUME NEW j \in 1..Len(Q), NEW m \in (done + 1)..Q[j].m
      PROVE  \E i \in 1..Len(Q) : Q[i].m = m
  <2>1. PICK i \in 1..Len(P) : P[i].m = m
    BY <1>1 DEF Stream
  <2>2. P[i].m \in Nat /\ P[j].m \in Nat /\ P[i].k \in Nat /\ P[j].k \in Nat /\ P[j] = Q[j]
    BY <1>1, CellsAre
  <2>3. m # 0 /\ P[j].m # 0 /\ m <= P[j].m
    BY <2>2
  <2>4. CASE m = P[j].m
    BY <2>2, <2>4
  <2>5. CASE m # P[j].m
    <3>1. ~Before(P[j], P[i])
      BY <2>1, <2>2, <2>3, <2>5 DEF Before
    <3>2. ~(j < i)
      BY <1>1, <2>1, <2>3, <3>1 DEF Stream
    <3>3. i \in 1..Len(Q)
      BY <3>2
    <3> QED
      BY <1>1, <2>1, <3>3
  <2> QED
    BY <2>4, <2>5
<1> QED
  BY <1>2, <1>3, <1>4 DEF Stream

(* A stream in which all is there may be continued by a frame, or by the   *)
(* beginning of one.                                                       *)
Appended(frames, done, more, m, F, n, Q) ==
    /\ Stream(more, done, Q)
    /\ AllThere(more, Len(frames), done, Q)
    /\ n = Len(F) => AllThere(more, Len(more), done, Q)
    /\ m # 0 /\ n < Len(F) => \A i \in 1..Len(Q) : Q[i].m = m => ~Complete(more, Q, i)

LEMMA StreamAppend ==
    ASSUME NEW frames, Good(frames), NEW done \in 0..Len(frames),
           NEW P \in Seq(Cells), Stream(frames, done, P),
           AllThere(frames, Len(frames), done, P),
           NEW more, Good(more), NEW m \in Nat, NEW F, F = Source(more, m),
           \/ m = 0 /\ more = frames
           \/ m = Len(frames) + 1 /\ more = Append(frames, F),
           NEW n \in 1..Len(F), m = 0 => n = Len(F),
           NEW Q, Q = P \o SubSeq(F, 1, n)
    PROVE  Appended(frames, done, more, m, F, n, Q)
<1>1. /\ Len(frames) \in Nat /\ Len(P) \in Nat /\ done \in Nat
      /\ Len(more) = IF m = 0 THEN Len(frames) ELSE Len(frames) + 1
      /\ m \in 0..Len(more)
      /\ \A j \in 0..Len(frames) : Source(more, j) = Source(frames, j)
  <2>1. frames \in Seq(Seq(Cells)) /\ more \in Seq(Seq(Cells)) /\ Len(frames) \in Nat
    BY DEF Good
  <2>2. CASE m = 0
    BY <2>1, <2>2
  <2>3. CASE m # 0
    <3>1. m = Len(frames) + 1 /\ more = Append(frames, F)
      BY <2>3
    <3>2. F \in Seq(Cells)
      <4>1. F = more[m] /\ m \in 1..Len(more)
        BY <2>1, <2>3, <3>1 DEF Source
      <4> QED
        BY <2>1, <4>1
    <3>3. Len(more) = Len(frames) + 1 /\ \A j \in 1..Len(frames) : more[j] = frames[j]
      BY <2>1, <3>1, <3>2
    <3> QED
      BY <2>1, <2>3, <3>1, <3>3 DEF Source
  <2> QED
    BY <2>2, <2>3
<1>2. IsFrame(F, m)
  BY <1>1, SourceIs
<1>3. /\ F \in Seq(Cells) /\ Len(F) \in Nat
      /\ \A k \in 1..Len(F) : F[k].m = m /\ F[k].k = k
  BY <1>2 DEF IsFrame
<1>4. /\ SubSeq(F, 1, n) \in Seq(Cells) /\ Len(SubSeq(F, 1, n)) = n
      /\ \A k \in 1..n : SubSeq(F, 1, n)[k] = F[k]
  BY <1>3
<1>5. /\ Q \in Seq(Cells) /\ Len(Q) = Len(P) + n
      /\ \A i \in 1..Len(P) : i \in 1..Len(Q) /\ Q[i] = P[i]
      /\ \A k \in 1..n : Q[Len(P) + k] = F[k] /\ Q[Len(P) + k].m = m /\ Q[Len(P) + k].k = k
  BY <1>3, <1>4
<1>6. \A i \in 1..Len(Q) :
        \/ i \in 1..Len(P)
        \/ i \notin 1..Len(P) /\ \E k \in 1..n : i = Len(P) + k
  <2> SUFFICES ASSUME NEW i \in 1..Len(Q), i \notin 1..Len(P)
               PROVE  \E k \in 1..n : i = Len(P) + k
    OBVIOUS
  <2>1. i - Len(P) \in 1..n /\ i = Len(P) + (i - Len(P))
    BY <1>1, <1>5
  <2> QED
    BY <2>1
<1>7. \A i \in 1..Len(P) :
        /\ P[i].m \in 0..Len(frames) /\ P[i].k \in Nat
        /\ InFrame(frames, done, P, i) /\ Complete(frames, P, i)
  <2> SUFFICES ASSUME NEW i \in 1..Len(P)
               PROVE  /\ P[i].m \in 0..Len(frames) /\ P[i].k \in Nat
                      /\ InFrame(frames, done, P, i) /\ Complete(frames, P, i)
    OBVIOUS
  <2>1. InFrame(frames, done, P, i) /\ P[i].m \in Nat /\ P[i].k \in Nat
    BY CellsAre DEF Stream
  <2>2. P[i].m \in 0..Len(frames)
    BY <1>1, <2>1 DEF InFrame
  <2> QED
    BY <2>1, <2>2 DEF AllThere
<1>8. ASSUME NEW i \in 1..Len(P)
      PROVE  InFrame(more, done, Q, i) /\ Complete(more, Q, i)
  <2> DEFINE G == Source(frames, P[i].m)
  <2>1. G = Source(more, P[i].m) /\ Q[i] = P[i]
    BY <1>1, <1>5, <1>7
  <2>2. /\ P[i].m = 0 \/ P[i].m \in (done + 1)..Len(frames)
        /\ P[i].k \in 1..Len(G) /\ P[i].k <= i /\ i - P[i].k + Len(G) <= Len(P)
        /\ \A k \in 1..Len(G) : i - P[i].k + k <= Len(P) => P[i - P[i].k + k] = G[k]
    BY <1>7 DEF InFrame, Complete
  <2>3. IsFrame(G, P[i].m)
    BY <1>7, SourceIs
  <2>4. Len(G) \in Nat /\ P[i].k \in Nat
    BY <1>7, <2>3 DEF IsFrame
  <2> HIDE DEF G
  <2>5. ASSUME NEW k \in 1..Len(G) PROVE Q[i - P[i].k + k] = G[k]
    <3>1. i - P[i].k + k \in 1..Len(P)
      BY <1>1, <2>2, <2>4, SMTT(30)
    <3> QED
      BY <1>5, <2>2, <3>1, SMTT(40)
  <2>6. P[i].m = 0 \/ P[i].m \in (done + 1)..Len(more)
    BY <1>1, <2>2, SMTT(40)
  <2>7. i - P[i].k + Len(G) <= Len(Q)
    BY <1>1, <1>5, <2>2, <2>4
  <2> QED
    BY <2>1, <2>2, <2>5, <2>6, <2>7 DEF InFrame, Complete
<1>9. ASSUME NEW k \in 1..n, NEW i \in 1..Len(Q), i = Len(P) + k
      PROVE  InFrame(more, done, Q, i) /\ (Complete(more, Q, i) <=> n = Len(F))
  <2>1. Q[i].m = m /\ Q[i].k = k
    BY <1>5, <1>9
  <2>2. m = 0 \/ m \in (done + 1)..Len(more)
    BY <1>1
  <2>3. k \in 1..Len(F) /\ k \in Nat /\ k <= i /\ i - k = Len(P)
    BY <1>1, <1>3, <1>9
  <2>4. ASSUME NEW j \in 1..Len(F), i - k + j <= Len(Q) PROVE Q[i - k + j] = F[j]
    <3>1. Len(P) + j <= Len(P) + n
      BY <1>5, <2>3, <2>4
    <3>2. j \in 1..n
      BY <1>1, <1>3, <3>1
    <3> QED
      BY <1>5, <2>3, <3>2
  <2>5. i - k + Len(F) <= Len(Q) <=> n = Len(F)
    BY <1>1, <1>3, <1>5, <2>3
  <2>6. InFrame(more, done, Q, i)
    BY <2>1, <2>2, <2>3, <2>4 DEF InFrame
  <2> QED
    BY <2>1, <2>5, <2>6 DEF Complete
<1>10. ASSUME NEW i \in 1..Len(Q), NEW j \in 1..Len(Q), i < j, Q[i].m # 0, Q[j].m # 0
       PROVE  Before(Q[i], Q[j])
  <2>1. CASE j \in 1..Len(P)
    <3>1. i \in 1..Len(P)
      BY <1>10, <2>1
    <3> QED
      BY <1>5, <1>10, <2>1, <3>1 DEF Stream
  <2>2. CASE j \notin 1..Len(P)
    <3>1. PICK k \in 1..n : j = Len(P) + k
      BY <1>6, <2>2
    <3>2. Q[j].m = m /\ Q[j].k = k
      BY <1>5, <3>1
    <3>3. CASE i \in 1..Len(P)
      <4>1. Q[i].m \in 0..Len(frames)
        BY <1>5, <1>7, <3>3
      <4> QED
        BY <1>1, <1>10, <2>2, <3>1, <3>2, <3>3, <4>1, SMTT(40) DEF Before
    <3>4. CASE i \notin 1..Len(P)
      <4>1. PICK l \in 1..n : i = Len(P) + l
        BY <1>6, <3>4
      <4>2. Q[i].m = m /\ Q[i].k = l /\ l < k
        BY <1>1, <1>5, <1>10, <3>1, <4>1, SMTT(40)
      <4> QED
        BY <3>2, <4>2 DEF Before
    <3> QED
      BY <3>3, <3>4
  <2> QED
    BY <2>1, <2>2
<1>11. \A j \in (done + 1)..Len(frames) : \E i \in 1..Len(Q) : Q[i].m = j
  BY <1>5 DEF AllThere
<1>12. m # 0 => \E i \in 1..Len(Q) : Q[i].m = m
  <2>1. 1 \in 1..n /\ Len(P) + 1 \in 1..Len(Q)
    BY <1>1, <1>5
  <2> QED
    BY <1>5, <2>1
<1>13. \A j \in (done + 1)..Len(more) : \E i \in 1..Len(Q) : Q[i].m = j
  <2> SUFFICES ASSUME NEW j \in (done + 1)..Len(more) PROVE \E i \in 1..Len(Q) : Q[i].m = j
    OBVIOUS
  <2>1. j \in (done + 1)..Len(frames) \/ (m # 0 /\ j = m)
    BY <1>1
  <2> QED
    BY <1>11, <1>12, <2>1
<1>14. \A i \in 1..Len(Q) : InFrame(more, done, Q, i) /\ Q[i].m <= Len(more)
  <2> SUFFICES ASSUME NEW i \in 1..Len(Q) PROVE InFrame(more, done, Q, i) /\ Q[i].m <= Len(more)
    OBVIOUS
  <2>1. InFrame(more, done, Q, i)
    BY <1>6, <1>8, <1>9
  <2>2. Q[i].m = 0 \/ Q[i].m \in (done + 1)..Len(more)
    BY <2>1 DEF InFrame
  <2>3. Len(more) \in Nat
    BY <1>1
  <2> QED
    BY <2>1, <2>2, <2>3
<1>15. Stream(more, done, Q)
  <2>1. \A j \in 1..Len(Q) : \A l \in (done + 1)..Q[j].m : \E i \in 1..Len(Q) : Q[i].m = l
    <3> SUFFICES ASSUME NEW j \in 1..Len(Q), NEW l \in (done + 1)..Q[j].m
                 PROVE  \E i \in 1..Len(Q) : Q[i].m = l
      BY Zenon
    <3>1. Q[j] \in Cells
      BY <1>5
    <3>2. Q[j].m \in Nat
      BY <3>1, CellsAre
    <3>3. Q[j].m <= Len(more) /\ Len(more) \in Nat /\ done \in Nat
      BY <1>1, <1>14
    <3> DEFINE top == Q[j].m
    <3>4. l \in (done + 1)..top /\ top \in Nat /\ top <= Len(more)
      BY <3>2, <3>3
    <3> HIDE DEF top
    <3>5. l \in (done + 1)..Len(more)
      BY <3>3, <3>4
    <3> QED
      BY <1>13, <3>5
  <2>2. \A i \in 1..Len(Q) : InFrame(more, done, Q, i)
    BY <1>14, Zenon
  <2> QED
    BY <1>10, <2>1, <2>2, ZenonT(40) DEF Stream
<1>16. AllThere(more, Len(frames), done, Q)
  <2> SUFFICES ASSUME NEW i \in 1..Len(Q), Q[i].m <= Len(frames) PROVE Complete(more, Q, i)
    BY <1>11 DEF AllThere
  <2>1. CASE i \in 1..Len(P)
    BY <1>8, <2>1
  <2>2. CASE i \notin 1..Len(P)
    <3>1. PICK k \in 1..n : i = Len(P) + k
      BY <1>6, <2>2
    <3>2. m = 0
      BY <1>1, <1>5, <3>1
    <3> QED
      BY <1>9, <3>1, <3>2
  <2> QED
    BY <2>1, <2>2
<1>17. ASSUME n = Len(F) PROVE AllThere(more, Len(more), done, Q)
  <2>1. \A i \in 1..Len(Q) : Complete(more, Q, i)
    BY <1>6, <1>8, <1>9, <1>17
  <2> QED
    BY <1>13, <2>1 DEF AllThere
<1>18. ASSUME m # 0, n < Len(F), NEW i \in 1..Len(Q), Q[i].m = m PROVE ~Complete(more, Q, i)
  <2>1. i \notin 1..Len(P)
    BY <1>1, <1>5, <1>7, <1>18
  <2>2. PICK k \in 1..n : i = Len(P) + k
    BY <1>6, <2>1
  <2>3. Complete(more, Q, i) <=> n = Len(F)
    BY <1>9, <2>2
  <2> QED
    BY <1>3, <1>18, <2>3
<1> QED
  BY <1>15, <1>16, <1>17, <1>18 DEF Appended

(* Distances do not change when a stream is moved.                         *)
LEMMA Moved ==
    ASSUME NEW i \in Int, NEW a \in Int, NEW k \in Int, NEW L \in Int, NEW q \in Int
    PROVE  /\ (i - a + k) + L = (i + L) - a + k
           /\ i - a + k <= q <=> (i + L) - a + k <= q + L
OBVIOUS

(* Its first frame, L cells of it, may be taken from a stream.             *)
Dropped(frames, done, P, L, then, Q) ==
    /\ Stream(frames, then, Q)
    /\ \A last \in Nat : AllThere(frames, last, done, P) => AllThere(frames, last, then, Q)
    /\ \A i \in 1..Len(Q) :
        /\ i + L \in 1..Len(P) /\ Q[i] = P[i + L]
        /\ Complete(frames, Q, i) <=> Complete(frames, P, i + L)

LEMMA StreamDrop ==
    ASSUME NEW frames, Good(frames), NEW done \in Nat,
           NEW P \in Seq(Cells), Stream(frames, done, P), P # <<>>,
           NEW L, L = Len(Source(frames, P[1].m)), L <= Len(P),
           NEW then, then = IF P[1].m = 0 THEN done ELSE done + 1,
           NEW Q, Q = SubSeq(P, L + 1, Len(P))
    PROVE  Dropped(frames, done, P, L, then, Q)
<1> DEFINE m == P[1].m
           F == Source(frames, m)
<1>1. /\ m = 0 \/ (m = done + 1 /\ done + 1 <= Len(frames))
      /\ m \in 0..Len(frames)
      /\ \A k \in 1..Len(F) : k <= Len(P) => P[k] = F[k]
  BY StreamHead
<1>2. IsFrame(F, m)
  BY <1>1, SourceIs
<1> HIDE DEF m
<1>3. L = Len(F) /\ L \in Nat /\ L >= 1 /\ Len(P) \in Nat
      /\ \A k \in 1..L : P[k].m = m /\ P[k].k = k
  <2>1. L = Len(F) /\ L \in Nat /\ L >= 1 /\ Len(P) \in Nat
        /\ \A k \in 1..L : F[k].m = m /\ F[k].k = k
    BY <1>2 DEF IsFrame, m
  <2> QED
    BY <1>1, <2>1
<1> HIDE DEF F
<1>4. /\ Q \in Seq(Cells) /\ Len(Q) = Len(P) - L
      /\ \A i \in 1..Len(Q) : i + L \in 1..Len(P) /\ Q[i] = P[i + L]
  BY <1>3
<1>5. \A i \in 1..Len(P) : i \in 1..L \/ (i - L \in 1..Len(Q) /\ P[i] = Q[i - L])
  BY <1>3, <1>4
<1>6. ASSUME NEW i \in 1..Len(Q), Q[i].m = m, m # 0 PROVE FALSE
  <2>1. L \in 1..Len(P) /\ i + L \in 1..Len(P) /\ L < i + L /\ P[L].m = m /\ P[L].k = L
    BY <1>3, <1>4
  <2>2. Before(P[L], P[i + L])
    BY <1>4, <1>6, <2>1 DEF Stream
  <2>4. P[i + L].m = m /\ m \in Nat
    <3>1. P[i + L] = Q[i]
      BY <1>4
    <3> QED
      BY <1>1, <1>6, <3>1
  <2>3. P[i + L].k \in 1..L
    <3>1. InFrame(frames, done, P, i + L)
      BY <2>1 DEF Stream
    <3>2. P[i + L].k \in 1..Len(Source(frames, P[i + L].m))
      BY <3>1, SMTT(30) DEF InFrame
    <3> QED
      BY <1>3, <2>4, <3>2 DEF F
  <2> QED
    BY <1>3, <2>1, <2>2, <2>3, <2>4 DEF Before
<1>7. ASSUME NEW i \in 1..Len(Q)
      PROVE  InFrame(frames, then, Q, i) /\ (Complete(frames, Q, i) <=> Complete(frames, P, i + L))
  <2> DEFINE c == P[i + L]
             G == Source(frames, c.m)
  <2>1. InFrame(frames, done, P, i + L) /\ Q[i] = c /\ c \in Cells
    BY <1>4 DEF Stream
  <2>2. /\ c.m = 0 \/ c.m \in (done + 1)..Len(frames)
        /\ c.k \in 1..Len(G) /\ c.k <= i + L
        /\ \A k \in 1..Len(G) : (i + L) - c.k + k <= Len(P) => P[(i + L) - c.k + k] = G[k]
    BY <2>1 DEF InFrame
  <2>3. c.m \in Nat /\ c.k \in Nat
    BY <2>1, CellsAre
  <2>4. c.m \in 0..Len(frames)
    BY <2>2, <2>3 DEF Good
  <2>5. IsFrame(G, c.m)
    BY <2>4, SourceIs
  <2>6. Len(G) \in Nat /\ \A k \in 1..Len(G) : G[k].m = c.m /\ G[k].k = k
    <3> HIDE DEF c, G
    <3> QED
      BY <2>5 DEF IsFrame
  <2>7. c.m = 0 \/ c.m \in (then + 1)..Len(frames)
    <3>1. CASE m = 0
      BY <2>2, <3>1 DEF m
    <3>2. CASE m # 0
      <4>1. c.m # m
        BY <1>6, <2>1, <3>2
      <4>2. then = done + 1 /\ m = done + 1
        BY <1>1, <3>2 DEF m
      <4> HIDE DEF c
      <4>3. c.m = 0 \/ (c.m >= done + 1 /\ c.m <= Len(frames))
        BY <2>2, <2>3
      <4> QED
        BY <2>3, <4>1, <4>2, <4>3 DEF Good
    <3> QED
      BY <3>1, <3>2
  <2>8. c.k <= i
    <3> SUFFICES ASSUME c.k > i PROVE FALSE
      BY <2>3
    <3> DEFINE s == L - ((i + L) - c.k)
    <3>1. s \in 1..Len(G) /\ (i + L) - c.k + s = L /\ L <= Len(P) /\ L \in 1..L
      <4>1. i \in Nat /\ i >= 1 /\ s = c.k - i
        BY <1>3, <2>3
      <4>2. c.k <= i + L /\ c.k <= Len(G) /\ c.k > i
        BY <2>2
      <4> HIDE DEF s, c, G
      <4>3. s \in 1..Len(G) /\ (i + L) - c.k + s = L
        BY <1>3, <2>3, <2>6, <4>1, <4>2, SMTT(40)
      <4> QED
        BY <1>3, <4>3
    <3>2. P[L] = G[s]
      <4>1. (i + L) - c.k + s <= Len(P)
        BY <3>1
      <4>2. P[(i + L) - c.k + s] = G[s]
        BY <2>2, <3>1, <4>1
      <4> QED
        BY <3>1, <4>2
    <3> HIDE DEF s
    <3>3. L = s /\ c.m = m
      <4>1. P[L].m = m /\ P[L].k = L
        BY <1>3, <3>1
      <4>2. G[s].m = c.m /\ G[s].k = s
        BY <2>6, <3>1
      <4> QED
        BY <3>2, <4>1, <4>2
    <3>4. c.k = i + L
      <4>1. L = L - ((i + L) - c.k)
        BY <3>3 DEF s
      <4> HIDE DEF c
      <4> QED
        BY <1>3, <2>3, <4>1, SMTT(40)
    <3>5. Len(G) = L
      BY <1>3, <3>3 DEF F
    <3> QED
      BY <1>3, <2>2, <3>4, <3>5
  <2>9. ASSUME NEW k \in 1..Len(G), i - c.k + k <= Len(Q) PROVE Q[i - c.k + k] = G[k]
    <3>1. /\ (i + L) - c.k + k <= Len(P) /\ i - c.k + k \in 1..Len(Q)
          /\ (i - c.k + k) + L = (i + L) - c.k + k
      <4>1. k \in Nat /\ k >= 1 /\ i \in Nat /\ Len(Q) \in Nat /\ Len(P) = Len(Q) + L
        BY <1>3, <1>4, <2>6
      <4>2. (i - c.k + k) + L = (i + L) - c.k + k /\ (i + L) - c.k + k <= Len(P)
        <5>1. \A a \in Nat : i - a + k <= Len(Q) <=> (i + L) - a + k <= Len(P)
          BY <1>3, <4>1, Moved
        <5>2. \A a \in Nat : (i - a + k) + L = (i + L) - a + k
          BY <1>3, <4>1
        <5> QED
          BY <2>3, <2>9, <5>1, <5>2
      <4>3. i - c.k \in Nat
        BY <2>3, <2>8, <4>1
      <4> HIDE DEF c, G
      <4>4. i - c.k + k \in 1..Len(Q)
        BY <2>9, <4>1, <4>3
      <4> QED
        BY <4>2, <4>4
    <3>2. Q[i - c.k + k] = P[(i - c.k + k) + L]
      BY <1>4, <3>1
    <3>3. P[(i + L) - c.k + k] = G[k]
      BY <2>2, <3>1
    <3> QED
      BY <3>1, <3>2, <3>3
  <2>10. i - c.k + Len(G) <= Len(Q) <=> (i + L) - c.k + Len(G) <= Len(P)
    <3>1. i \in Nat /\ Len(Q) \in Nat /\ Len(P) = Len(Q) + L
      BY <1>3, <1>4
    <3>2. \A a \in Nat, l \in Nat : i - a + l <= Len(Q) <=> (i + L) - a + l <= Len(P)
      BY <1>3, <3>1, Moved
    <3> QED
      BY <2>3, <2>6, <3>2
  <2> QED
    BY <2>1, <2>2, <2>7, <2>8, <2>9, <2>10, ZenonT(60) DEF InFrame, Complete
<1>8. \A i, j \in 1..Len(Q) : i < j /\ Q[i].m # 0 /\ Q[j].m # 0 => Before(Q[i], Q[j])
  <2> SUFFICES ASSUME NEW i \in 1..Len(Q), NEW j \in 1..Len(Q), i < j, Q[i].m # 0, Q[j].m # 0
               PROVE  Before(Q[i], Q[j])
    OBVIOUS
  <2>1. i + L \in 1..Len(P) /\ j + L \in 1..Len(P) /\ i + L < j + L
        /\ Q[i] = P[i + L] /\ Q[j] = P[j + L]
    BY <1>3, <1>4
  <2> QED
    BY <2>1 DEF Stream
(* What is not the frame that was taken is in the rest of the stream.      *)
<1>9. ASSUME NEW l \in Nat, l >= then + 1, \E i \in 1..Len(P) : P[i].m = l
      PROVE  \E i \in 1..Len(Q) : Q[i].m = l
  <2>1. PICK i \in 1..Len(P) : P[i].m = l
    BY <1>9
  <2>2. l # m
    BY <1>1, <1>9 DEF m
  <2> QED
    BY <1>3, <1>5, <2>1, <2>2
<1>10. \A l \in Nat : l >= then + 1 => l >= done + 1
  OBVIOUS
<1>11. Stream(frames, then, Q)
  <2> SUFFICES ASSUME NEW j \in 1..Len(Q), NEW l \in (then + 1)..Q[j].m
               PROVE  \E i \in 1..Len(Q) : Q[i].m = l
    BY <1>7, <1>8 DEF Stream
  <2>1. j + L \in 1..Len(P) /\ Q[j] = P[j + L] /\ Q[j].m \in Nat /\ then \in Nat
    BY <1>4, CellsAre
  <2>2. l \in Nat /\ l >= then + 1 /\ l \in (done + 1)..P[j + L].m
    BY <1>10, <2>1
  <2>3. \E i \in 1..Len(P) : P[i].m = l
    BY <2>1, <2>2 DEF Stream
  <2> QED
    BY <1>9, <2>2, <2>3
<1>12. ASSUME NEW last \in Nat, AllThere(frames, last, done, P)
       PROVE  AllThere(frames, last, then, Q)
  <2>1. ASSUME NEW l \in (then + 1)..last PROVE \E i \in 1..Len(Q) : Q[i].m = l
    <3>1. l \in Nat /\ l >= then + 1 /\ l \in (done + 1)..last
      BY <1>10
    <3>2. \E i \in 1..Len(P) : P[i].m = l
      BY <1>12, <3>1 DEF AllThere
    <3> QED
      BY <1>9, <3>1, <3>2
  <2>2. ASSUME NEW i \in 1..Len(Q), Q[i].m <= last PROVE Complete(frames, Q, i)
    BY <1>4, <1>7, <1>12, <2>2 DEF AllThere
  <2> QED
    BY <2>1, <2>2 DEF AllThere
<1> QED
  BY <1>4, <1>7, <1>11, <1>12 DEF Dropped

-----------------------------------------------------------------------------
(* What two sequences are together.                                        *)
LEMMA Joined ==
    ASSUME NEW s \in Seq(Cells), NEW t \in Seq(Cells)
    PROVE  /\ s \o t \in Seq(Cells) /\ Len(s \o t) \in Nat
           /\ Len(s \o t) = Len(s) + Len(t)
           /\ \A i \in 1..Len(s) : (s \o t)[i] = s[i]
           /\ \A i \in 1..Len(t) : (s \o t)[Len(s) + i] = t[i]
<1>1. Len(s) \in Nat /\ Len(t) \in Nat
  OBVIOUS
<1>2. /\ s \o t \in Seq(Cells) /\ Len(s \o t) = Len(s) + Len(t)
      /\ \A i \in 1..(Len(s) + Len(t)) : (s \o t)[i] = IF i <= Len(s) THEN s[i] ELSE t[i - Len(s)]
  BY ConcatProperties
<1> DEFINE joined == s \o t
<1> HIDE DEF joined
<1>3. \A i \in 1..(Len(s) + Len(t)) : joined[i] = IF i <= Len(s) THEN s[i] ELSE t[i - Len(s)]
  BY <1>2 DEF joined
<1>4. \A i \in 1..Len(s) : joined[i] = s[i]
  BY <1>1, <1>3
<1>5. ASSUME NEW i \in 1..Len(t) PROVE joined[Len(s) + i] = t[i]
  <2>1. /\ Len(s) + i \in 1..(Len(s) + Len(t)) /\ ~(Len(s) + i <= Len(s))
        /\ (Len(s) + i) - Len(s) = i
    BY <1>1
  <2> QED
    BY <1>3, <2>1
<1> QED
  BY <1>1, <1>2, <1>4, <1>5 DEF joined

(* What is pending: the cells kept, what a packet has left, the wire.      *)
Left(kept, packet, from, to, cells) == kept \o SubSeq(packet, from + 1, to) \o cells

LEMMA SliceIs ==
    ASSUME NEW packet \in [1..BUF -> Cells], NEW from \in Nat, NEW to \in Int, to <= BUF
    PROVE  /\ SubSeq(packet, from + 1, to) \in Seq(Cells)
           /\ Len(SubSeq(packet, from + 1, to)) = IF from <= to THEN to - from ELSE 0
           /\ \A i \in 1..Len(SubSeq(packet, from + 1, to)) :
                SubSeq(packet, from + 1, to)[i] = packet[from + i]
           /\ from >= to => SubSeq(packet, from + 1, to) = <<>>
<1> DEFINE slice == SubSeq(packet, from + 1, to)
<1>1. BUF \in Nat
  BY RecieverAssumption
<1>2. packet \in Seq(Cells) /\ Len(packet) = BUF
  BY <1>1
<1>3. slice = [i \in 1..(to - from) |-> packet[from + i]]
  BY <1>2
<1>4. CASE from < to
  <2>1. to - from \in Nat /\ \A i \in 1..(to - from) : packet[from + i] \in Cells
    BY <1>1, <1>4
  <2>2. slice \in Seq(Cells) /\ Len(slice) = to - from
    BY <1>3, <2>1
  <2> QED
    BY <1>3, <1>4, <2>1, <2>2
<1>5. CASE from >= to
  <2>1. slice = <<>>
    BY <1>3, <1>5
  <2> QED
    BY <1>5, <2>1
<1> QED
  BY <1>4, <1>5

(* P is made of what is kept, what there is in the packet, and the cells.  *)
MadeOf(P, kept, packet, from, to, cells) ==
    /\ P \in Seq(Cells)
    /\ Len(P) = Len(kept) + (IF from <= to THEN to - from ELSE 0) + Len(cells)
    /\ \A i \in 1..Len(kept) : P[i] = kept[i]
    /\ \A i \in 1..(to - from) : P[Len(kept) + i] = packet[from + i]
    /\ \A i \in 1..Len(cells) :
            P[Len(kept) + (IF from <= to THEN to - from ELSE 0) + i] = cells[i]
    /\ from >= to => P = kept \o cells

LEMMA LeftIs ==
    ASSUME NEW kept \in Seq(Cells), NEW packet \in [1..BUF -> Cells], NEW from \in Nat,
           NEW to \in Int, to <= BUF, NEW cells \in Seq(Cells)
    PROVE  MadeOf(Left(kept, packet, from, to, cells), kept, packet, from, to, cells)
<1> DEFINE slice == SubSeq(packet, from + 1, to)
           n == IF from <= to THEN to - from ELSE 0
<1>1. /\ slice \in Seq(Cells) /\ Len(slice) = n
      /\ \A i \in 1..n : slice[i] = packet[from + i]
      /\ from >= to => slice = <<>>
  BY SliceIs
<1>2. n \in Nat /\ \A i \in 1..(to - from) : i \in 1..n
  OBVIOUS
<1>3. Left(kept, packet, from, to, cells) = kept \o slice \o cells
  BY DEF Left
<1> HIDE DEF slice, n
<1>4. /\ kept \o slice \in Seq(Cells) /\ Len(kept \o slice) = Len(kept) + n
      /\ \A i \in 1..Len(kept) : (kept \o slice)[i] = kept[i]
      /\ \A i \in 1..n : (kept \o slice)[Len(kept) + i] = slice[i]
  BY <1>1, Joined
<1> DEFINE first == kept \o slice
<1> HIDE DEF first
<1>5. first \in Seq(Cells) /\ Len(first) \in Nat /\ Len(first) = Len(kept) + n /\ Len(kept) \in Nat
  BY <1>4 DEF first
<1>6. /\ first \o cells \in Seq(Cells) /\ Len(first \o cells) = Len(first) + Len(cells)
      /\ \A i \in 1..Len(first) : (first \o cells)[i] = first[i]
      /\ \A i \in 1..Len(cells) : (first \o cells)[Len(first) + i] = cells[i]
  BY <1>5, Joined
<1>7. \A i \in 1..Len(kept) : i \in 1..Len(first) /\ (first \o cells)[i] = kept[i]
  BY <1>2, <1>4, <1>5, <1>6 DEF first
<1>8. \A i \in 1..n : (first \o cells)[Len(kept) + i] = slice[i]
  <2> SUFFICES ASSUME NEW i \in 1..n PROVE (first \o cells)[Len(kept) + i] = slice[i]
    OBVIOUS
  <2>1. Len(kept) + i \in 1..Len(first)
    BY <1>2, <1>5
  <2> QED
    BY <1>4, <1>6, <2>1 DEF first
<1>9. from >= to => first \o cells = kept \o cells
  <2>1. kept \o <<>> = kept
    OBVIOUS
  <2> QED
    BY <1>1, <2>1 DEF first
<1>10. Left(kept, packet, from, to, cells) = first \o cells
  BY <1>3 DEF first
<1>11. \A i \in 1..Len(cells) : (first \o cells)[Len(kept) + n + i] = cells[i]
  BY <1>5, <1>6
<1>12. Len(first \o cells) = Len(kept) + n + Len(cells)
  BY <1>5, <1>6
<1>13. \A i \in 1..(to - from) : (first \o cells)[Len(kept) + i] = packet[from + i]
  BY <1>1, <1>2, <1>8
<1> QED
  BY <1>6, <1>7, <1>9, <1>10, <1>11, <1>12, <1>13 DEF n, MadeOf

(* Cells that go from the packet to those kept stay pending.               *)
Taken(kept, packet, from, to, cells, n) ==
    Left(kept \o SubSeq(packet, from + 1, from + n), packet, from + n, to, cells)
        = Left(kept, packet, from, to, cells)

LEMMA Take ==
    ASSUME NEW kept \in Seq(Cells), NEW packet \in [1..BUF -> Cells], NEW from \in Nat,
           NEW to \in 0..BUF, NEW cells \in Seq(Cells), NEW n \in Nat, from + n <= to
    PROVE  Taken(kept, packet, from, to, cells, n)
<1> DEFINE a == SubSeq(packet, from + 1, from + n)
           b == SubSeq(packet, (from + n) + 1, to)
           c == SubSeq(packet, from + 1, to)
<1>1. BUF \in Nat /\ from + n \in Nat /\ from + n <= BUF /\ to <= BUF /\ to \in Int
  BY RecieverAssumption
<1>2. /\ a \in Seq(Cells) /\ Len(a) = n /\ \A i \in 1..n : a[i] = packet[from + i]
  BY <1>1, SliceIs
<1>3. /\ b \in Seq(Cells) /\ Len(b) = to - (from + n)
      /\ \A i \in 1..(to - (from + n)) : b[i] = packet[(from + n) + i]
  BY <1>1, SliceIs
<1>4. /\ c \in Seq(Cells) /\ Len(c) = to - from
      /\ \A i \in 1..(to - from) : c[i] = packet[from + i]
  BY <1>1, SliceIs
<1> HIDE DEF a, b, c
<1>5. Len(a \o b) = Len(c) /\ a \o b \in Seq(Cells)
  BY <1>1, <1>2, <1>3, <1>4
<1>6. ASSUME NEW i \in 1..(to - from) PROVE (a \o b)[i] = c[i]
  <2>1. CASE i <= n
    <3>1. i \in 1..n
      BY <1>1, <2>1
    <3>2. (a \o b)[i] = a[i]
      BY <1>2, <1>3, <3>1
    <3> QED
      BY <1>2, <1>4, <3>1, <3>2
  <2>2. CASE i > n
    <3>1. i - n \in 1..(to - (from + n)) /\ (from + n) + (i - n) = from + i /\ i \in 1..Len(a \o b)
      BY <1>1, <1>4, <1>5, <2>2
    <3>2. (a \o b)[i] = b[i - n]
      BY <1>2, <1>3, <2>2, <3>1
    <3> QED
      BY <1>3, <1>4, <3>1, <3>2
  <2>3. i <= n \/ i > n
    BY <1>1
  <2> QED
    BY <2>1, <2>2, <2>3
<1>7. a \o b = c
  <2>1. Len(a \o b) = to - from
    BY <1>4, <1>5
  <2> QED
    BY <1>4, <1>5, <1>6, <2>1, SeqEqual
<1>8. (kept \o a) \o b = kept \o (a \o b)
  BY <1>2, <1>3
<1> QED
  BY <1>7, <1>8 DEF Taken, Left, a, b, c

LEMMA TakeOne ==
    ASSUME NEW kept \in Seq(Cells), NEW packet \in [1..BUF -> Cells], NEW from \in Nat,
           NEW to \in 0..BUF, NEW cells \in Seq(Cells), from < to
    PROVE  Left(Append(kept, packet[from + 1]), packet, from + 1, to, cells)
                = Left(kept, packet, from, to, cells)
<1>1. BUF \in Nat /\ from + 1 \in 1..BUF /\ from + 1 <= to
  BY RecieverAssumption
<1> DEFINE one == SubSeq(packet, from + 1, from + 1)
<1>2. one \in Seq(Cells) /\ Len(one) = 1 /\ one[1] = packet[from + 1]
  BY <1>1, SliceIs
<1> HIDE DEF one
<1>3. kept \o one = Append(kept, packet[from + 1])
  <2>1. packet[from + 1] \in Cells
    BY <1>1
  <2> DEFINE cell == packet[from + 1]
             longer == Append(kept, cell)
             joined == kept \o one
  <2> HIDE DEF cell
  <2>2. cell \in Cells /\ one[1] = cell
    BY <1>2, <2>1 DEF cell
  <2>3. /\ joined \in Seq(Cells) /\ Len(joined) = Len(kept) + 1
        /\ \A i \in 1..Len(kept) : joined[i] = kept[i]
        /\ joined[Len(kept) + 1] = one[1]
    <3>1. 1 \in 1..Len(one)
      BY <1>2
    <3>2. /\ joined \in Seq(Cells) /\ Len(joined) = Len(kept) + Len(one)
          /\ \A i \in 1..Len(kept) : joined[i] = kept[i]
          /\ \A i \in 1..Len(one) : joined[Len(kept) + i] = one[i]
      BY <1>2, Joined
    <3> QED
      BY <1>2, <3>1, <3>2
  <2>4. /\ longer \in Seq(Cells) /\ Len(longer) = Len(kept) + 1
        /\ \A i \in 1..Len(kept) : longer[i] = kept[i]
        /\ longer[Len(kept) + 1] = cell
    BY <2>2
  <2> HIDE DEF joined, longer
  <2>5. \A i \in 1..Len(joined) : i \in 1..Len(kept) \/ i = Len(kept) + 1
    BY <2>3
  <2>6. joined = longer
    BY <2>2, <2>3, <2>4, <2>5, SeqEqual
  <2> QED
    BY <2>6 DEF joined, longer, cell
<1>4. Left(kept \o one, packet, from + 1, to, cells) = Left(kept, packet, from, to, cells)
  BY <1>1, Take DEF Taken, one
<1> QED
  BY <1>3, <1>4

(* So do those that a packet takes from the wire.                          *)
LEMMA PaddedIs ==
    ASSUME NEW cells \in Seq(Cells), Len(cells) <= BUF
    PROVE  /\ Padded(cells) \in [1..BUF -> Cells]
           /\ \A i \in 1..Len(cells) : Padded(cells)[i] = cells[i]
           /\ cells = <<>> => AllZero(Padded(cells)) /\ Padded(cells)[1] = ZERO
<1>1. BUF \in Nat \ {0}
  BY RecieverAssumption
<1>2. Padded(cells) = [i \in 1..BUF |-> IF i <= Len(cells) THEN cells[i] ELSE ZERO]
  BY DEF Padded
<1>3. \A i \in 1..BUF : (IF i <= Len(cells) THEN cells[i] ELSE ZERO) \in Cells
  BY CellsAre
<1>4. Padded(cells) \in [1..BUF -> Cells]
  BY <1>2, <1>3
<1>5. Padded(cells) \in Seq(Cells) /\ Len(Padded(cells)) = BUF
  BY <1>1, <1>4
<1>6. \A i \in 1..Len(cells) : Padded(cells)[i] = cells[i]
  BY <1>1, <1>2
<1>7. ASSUME cells = <<>> PROVE \A i \in 1..BUF : Padded(cells)[i] = ZERO
  BY <1>1, <1>2, <1>7
<1> QED
  BY <1>1, <1>4, <1>5, <1>6, <1>7 DEF AllZero

LEMMA Refill ==
    ASSUME NEW kept \in Seq(Cells), NEW cells \in Seq(Cells),
           NEW n \in 1..BUF, n <= Len(cells)
    PROVE  /\ Padded(SubSeq(cells, 1, n)) \in [1..BUF -> Cells]
           /\ SubSeq(cells, n + 1, Len(cells)) \in Seq(Cells)
           /\ Left(kept, Padded(SubSeq(cells, 1, n)), 0, n, SubSeq(cells, n + 1, Len(cells)))
                = kept \o cells
<1> DEFINE head == SubSeq(cells, 1, n)
           tail == SubSeq(cells, n + 1, Len(cells))
           part == SubSeq(Padded(head), 0 + 1, n)
<1>1. BUF \in Nat /\ n \in Nat /\ n \in Int /\ n <= BUF /\ 0 \in Nat /\ Len(cells) \in Nat
  BY RecieverAssumption
<1>2. head \in Seq(Cells) /\ Len(head) = n /\ \A i \in 1..n : head[i] = cells[i]
  BY <1>1
<1>3. tail \in Seq(Cells) /\ Len(tail) = Len(cells) - n
      /\ \A i \in 1..(Len(cells) - n) : tail[i] = cells[n + i]
  BY <1>1
<1> HIDE DEF head, tail
<1>4. Padded(head) \in [1..BUF -> Cells] /\ \A i \in 1..n : Padded(head)[i] = head[i]
  BY <1>1, <1>2, PaddedIs
<1>5. part \in Seq(Cells) /\ Len(part) = n /\ \A i \in 1..n : part[i] = Padded(head)[0 + i]
  BY <1>1, <1>4, SliceIs
<1> HIDE DEF part
<1>6. Len(part \o tail) = Len(cells) /\ part \o tail \in Seq(Cells)
  BY <1>1, <1>3, <1>5
<1>7. ASSUME NEW i \in 1..Len(cells) PROVE (part \o tail)[i] = cells[i]
  <2>1. CASE i <= n
    <3>1. (part \o tail)[i] = part[i] /\ 0 + i = i /\ i \in 1..n
      BY <1>1, <1>3, <1>5, <2>1
    <3> QED
      BY <1>2, <1>4, <1>5, <3>1
  <2>2. CASE i > n
    <3>1. i - n \in 1..(Len(cells) - n) /\ n + (i - n) = i
      BY <1>1, <2>2
    <3>2. (part \o tail)[i] = tail[i - n]
      BY <1>1, <1>3, <1>5, <1>6, <2>2
    <3> QED
      BY <1>3, <3>1, <3>2
  <2>3. i <= n \/ i > n
    BY <1>1
  <2> QED
    BY <2>1, <2>2, <2>3
<1>8. part \o tail = cells
  BY <1>6, <1>7, SeqEqual
<1>9. (kept \o part) \o tail = kept \o (part \o tail)
  BY <1>3, <1>5
<1>10. Left(kept, Padded(head), 0, n, tail) = (kept \o part) \o tail
  BY DEF Left, part
<1> QED
  BY <1>3, <1>4, <1>8, <1>9, <1>10 DEF head, tail

-----------------------------------------------------------------------------
(* The instructions of a stream are those sent and, perhaps, one more.     *)
LEMMA BegunAre ==
    ASSUME TypeOK, SentWell, NEW frames \in Begun
    PROVE  /\ Good(frames) /\ Len(sent) \in Nat /\ Len(frames) \in Nat
           /\ Len(frames) \in {Len(sent), Len(sent) + 1}
           /\ peer # "died" => frames = sent
           /\ \A m \in 1..Len(sent) : frames[m] = sent[m]
<1>1. MaxSent \in Nat /\ sent \in Seq(Frames) /\ Len(sent) \in Nat /\ Len(sent) <= MaxSent
  BY RecieverAssumption DEF TypeOK
<1>2. \A m \in 1..MaxSent : \A F \in FramesOf(m) : F \in Seq(Cells)
  BY FrameIs DEF IsFrame
<1>3. sent \in Seq(Seq(Cells))
  <2>1. \A m \in 1..Len(sent) : m \in 1..MaxSent /\ sent[m] \in Seq(Cells)
    BY <1>1, <1>2 DEF SentWell
  <2>2. sent = [m \in 1..Len(sent) |-> sent[m]]
    BY <1>1
  <2> QED
    BY <1>1, <2>1, <2>2
<1>4. CASE frames = sent
  BY <1>1, <1>3, <1>4 DEF Good, SentWell
<1>5. CASE frames # sent
  <2>1. PICK F \in FramesOf(Len(sent) + 1) : frames = Append(sent, F)
        /\ peer = "died" /\ Len(sent) < MaxSent
    BY <1>5 DEF Begun
  <2>2. Len(sent) + 1 \in 1..MaxSent
    BY <1>1, <2>1
  <2>3. F \in Seq(Cells)
    BY <1>2, <2>2
  <2>4. /\ frames \in Seq(Seq(Cells)) /\ Len(frames) = Len(sent) + 1
        /\ \A m \in 1..Len(sent) : frames[m] = sent[m]
        /\ frames[Len(sent) + 1] = F
    BY <1>3, <2>1, <2>3
  <2>5. \A m \in 1..Len(frames) : frames[m] \in FramesOf(m)
    <3> SUFFICES ASSUME NEW m \in 1..Len(frames) PROVE frames[m] \in FramesOf(m)
      OBVIOUS
    <3>1. m \in 1..Len(sent) \/ m = Len(sent) + 1
      BY <1>1, <2>4
    <3> QED
      BY <2>4, <3>1 DEF SentWell
  <2>6. Len(frames) <= MaxSent /\ Len(frames) \in Nat
    BY <1>1, <2>2, <2>4
  <2>7. Good(frames)
    BY <2>4, <2>5, <2>6 DEF Good
  <2> QED
    BY <1>1, <2>1, <2>4, <2>6, <2>7
<1> QED
  BY <1>4, <1>5

(* The header of a stream tells a ping from an instruction.                *)
LEMMA HeaderIs ==
    ASSUME NEW frames, Good(frames), NEW done \in Nat,
           NEW P \in Seq(Cells), Stream(frames, done, P), Len(P) >= HDR,
           NEW cells, \A k \in 1..HDR : cells[k] = P[k]
    PROVE  \/ P[1].m = 0 /\ HeaderValue(cells) = PING
           \/ /\ P[1].m \in 1..Len(frames) /\ HeaderValue(cells) = Len(frames[P[1].m])
              /\ HeaderValue(cells) \in Sizes /\ HeaderValue(cells) > HDR
<1> DEFINE m == P[1].m
           F == Source(frames, m)
<1>1. HDR \in Nat \ {0} /\ Len(P) \in Nat /\ P # <<>> /\ MaxSent \in Nat
  <2>1. HDR \in Nat \ {0} /\ MaxSent \in Nat /\ Len(P) \in Nat
    BY RecieverAssumption
  <2>2. Len(P) # 0
    BY <2>1
  <2> QED
    BY <2>1, <2>2
<1>2. m \in 0..Len(frames) /\ \A k \in 1..Len(F) : k <= Len(P) => P[k] = F[k]
  <2>1. P # <<>>
    BY <1>1
  <2> QED
    BY <2>1, StreamHead
<1>3. IsFrame(F, m)
  BY <1>2, SourceIs
<1>4. F \in Seq(Cells) /\ Len(F) \in Nat /\ Len(F) >= HDR
  BY <1>3 DEF IsFrame
<1> HIDE DEF F
<1>5. \A k \in 1..HDR : k \in 1..Len(F) /\ k <= Len(P)
  BY <1>1, <1>4
<1>6. \A k \in 1..HDR : cells[k] = F[k]
  BY <1>2, <1>5
<1> HIDE DEF m
<1>7. CASE m = 0
  <2>1. F = PingFrame
    BY <1>7 DEF F, Source
  <2>2. \A k \in 1..HDR : cells[k].v = Digit(PING, k)
    BY <1>6, <2>1, PingIs
  <2>3. PING \in Nat /\ HeaderHolds(PING, BASE, HDR)
    BY RecieverAssumption
  <2>4. HeaderValue(cells) = PING
    BY <2>2, <2>3, SizeReads
  <2> QED
    BY <1>7, <2>4 DEF m
<1>8. CASE m # 0
  <2>1. m \in 1..Len(frames) /\ m \in 1..MaxSent
    BY <1>1, <1>2, <1>8 DEF Good
  <2>2. F = frames[m] /\ F \in FramesOf(m)
    BY <1>8, <2>1 DEF F, Source, Good
  <2>3. Len(F) \in Sizes /\ Len(F) > HDR /\ \A k \in 1..HDR : F[k].v = Digit(Len(F), k)
    BY <2>1, <2>2, FrameIs
  <2>4. \A k \in 1..HDR : cells[k].v = Digit(Len(F), k)
    BY <1>6, <2>3
  <2>5. Len(F) \in Nat /\ HeaderHolds(Len(F), BASE, HDR)
    BY <2>3, RecieverAssumption
  <2>6. HeaderValue(cells) = Len(F)
    BY <2>4, <2>5, SizeReads
  <2> QED
    BY <2>1, <2>2, <2>3, <2>6 DEF m
<1> QED
  BY <1>7, <1>8

(* The outcomes of a round of the header loop.                             *)
HeaderOutcome(cells) ==
    \/ /\ Len(cells) < HDR
       /\ instruction' = cells /\ total' = 0 /\ loc' = "headers" /\ rec' = "headers"
    \/ /\ Len(cells) = HDR
       /\ \/ HeaderValue(cells) = 0 /\ rec' = "idle"
          \/ HeaderValue(cells) = PING /\ rec' = "headers"
       /\ instruction' = <<>> /\ total' = 0 /\ loc' = "top"
    \/ /\ Len(cells) = HDR /\ HeaderValue(cells) \in Nat \ {0, PING}
       /\ instruction' = cells /\ total' = HeaderValue(cells)
       /\ \/ HeaderValue(cells) < HDR /\ loc' = "crashed" /\ rec' = "headers"
          \/ HeaderValue(cells) >= HDR /\ loc' = "data" /\ rec' = "data"

LEMMA HeaderReadIs ==
    ASSUME NEW cells \in Seq(Cells), Len(cells) <= HDR, HeaderRead(cells),
           loc = "headers", rec = "headers"
    PROVE  HeaderOutcome(cells)
<1> DEFINE value == HeaderValue(cells)
<1>1. HDR \in Nat /\ Len(cells) \in Nat /\ PING # 0
  BY RecieverAssumption
<1>2. ASSUME Len(cells) = HDR PROVE value \in Nat
  <2>1. \A k \in 1..HDR : cells[k] \in Cells
    BY <1>2
  <2>2. \A k \in 1..HDR : cells[k].v \in Nat
    BY <2>1, CellsAre
  <2>3. HDR \in 0..HDR
    BY <1>1
  <2> QED
    BY <2>2, <2>3, HeaderValueIs
<1>3. CASE /\ Len(cells) < HDR
           /\ instruction' = cells /\ total' = 0 /\ UNCHANGED <<loc, rec>>
  BY <1>3 DEF HeaderOutcome
<1>4. CASE /\ Len(cells) = HDR /\ value \in {0, PING}
           /\ instruction' = <<>> /\ total' = 0 /\ loc' = "top"
           /\ rec' = IF value = 0 THEN "idle" ELSE rec
  <2> HIDE DEF value
  <2>1. (value = 0 /\ rec' = "idle") \/ (value = PING /\ rec' = "headers")
    BY <1>1, <1>4
  <2> QED
    BY <1>4, <2>1 DEF HeaderOutcome, value
<1>5. CASE /\ Len(cells) = HDR /\ value \notin {0, PING}
           /\ instruction' = cells /\ total' = value
           /\ IF value < HDR THEN loc' = "crashed" /\ UNCHANGED rec
                             ELSE loc' = "data" /\ rec' = "data"
  <2> HIDE DEF value
  <2>1. value \in Nat \ {0, PING}
    BY <1>2, <1>5
  <2>2. CASE value < HDR
    BY <1>5, <2>1, <2>2 DEF HeaderOutcome, value
  <2>3. CASE ~(value < HDR)
    <3>1. value >= HDR
      BY <1>1, <2>1, <2>3
    <3> QED
      BY <1>5, <2>1, <2>3, <3>1 DEF HeaderOutcome, value
  <2> QED
    BY <2>2, <2>3
<1> QED
  BY <1>3, <1>4, <1>5 DEF HeaderRead

-----------------------------------------------------------------------------
(* Steps of the thread and the stream.                                     *)
LEMMA PendingIs ==
    ASSUME TypeOK
    PROVE  /\ Pending = Left(instruction, recbuffer, rec_offset, incoming_size, wire)
           /\ Pending \in Seq(Cells) /\ Len(Pending) \in Nat
           /\ Len(Pending) = Len(instruction)
                + (IF rec_offset <= incoming_size THEN incoming_size - rec_offset ELSE 0)
                + Len(wire)
           /\ \A i \in 1..Len(instruction) : Pending[i] = instruction[i]
           /\ \A i \in 1..(incoming_size - rec_offset) :
                Pending[Len(instruction) + i] = recbuffer[rec_offset + i]
           /\ rec_offset >= incoming_size => Pending = instruction \o wire
<1>1. /\ instruction \in Seq(Cells) /\ recbuffer \in [1..BUF -> Cells] /\ rec_offset \in Nat
      /\ incoming_size \in Int /\ incoming_size <= BUF /\ wire \in Seq(Cells)
  BY RecieverAssumption DEF TypeOK
<1>2. Pending = Left(instruction, recbuffer, rec_offset, incoming_size, wire)
  BY DEF Pending, Left
<1> HIDE DEF Pending
<1>3. MadeOf(Pending, instruction, recbuffer, rec_offset, incoming_size, wire)
  BY <1>1, <1>2, LeftIs
<1>4. Pending \in Seq(Cells)
  BY <1>3 DEF MadeOf
<1> QED
  BY <1>2, <1>3, <1>4 DEF MadeOf

(* A step that moves cells from the wire to the packet, or from the packet *)
(* to those kept, leaves the stream as it is.                              *)
LEMMA StillStreaming ==
    ASSUME NEW frames, Streaming(frames), UNCHANGED <<peer, sent, delivered>>,
           Pending' = Pending, peer = "reset" => wire' = <<>>
    PROVE  Streaming(frames)'
<1> DEFINE P == Pending
<1>1. P' = P
  OBVIOUS
<1> HIDE DEF P
<1>2. Streaming(frames) <=>
        /\ Stream(frames, Len(delivered), P)
        /\ peer # "reset" => AllThere(frames, Len(sent), Len(delivered), P)
        /\ peer = "reset" => wire = <<>>
        /\ peer = "died" => Len(frames) = Len(sent) + 1 /\ PartOf(frames, P)
        /\ Exact
  BY DEF Streaming, P
<1>3. Streaming(frames)' <=>
        /\ Stream(frames, Len(delivered'), P')
        /\ peer' # "reset" => AllThere(frames, Len(sent'), Len(delivered'), P')
        /\ peer' = "reset" => wire' = <<>>
        /\ peer' = "died" => Len(frames) = Len(sent') + 1 /\ PartOf(frames, P')
        /\ Exact'
  BY DEF Streaming, P
<1>4. Exact' = Exact
  BY DEF Exact
<1> QED
  BY <1>1, <1>2, <1>3, <1>4

(* A ping or an instruction that has been read whole leaves the stream.    *)
LEMMA Pulled ==
    ASSUME TypeOK, SentWell, NEW frames \in Begun, Streaming(frames), Pending # <<>>,
           NEW F, F = Source(frames, Pending[1].m), Len(F) <= Len(Pending),
           Pending' = SubSeq(Pending, Len(F) + 1, Len(Pending)),
           UNCHANGED <<peer, sent>>, peer = "reset" => wire' = <<>>,
           delivered' = IF Pending[1].m = 0 THEN delivered ELSE Append(delivered, F)
    PROVE  Streaming(frames)'
<1> DEFINE P == Pending
           Q == Pending'
           done == Len(delivered)
           then == IF P[1].m = 0 THEN done ELSE done + 1
           m == P[1].m
<1>1. Good(frames) /\ Len(sent) \in Nat /\ Len(frames) \in Nat
      /\ (peer # "died" => frames = sent) /\ \A i \in 1..Len(sent) : frames[i] = sent[i]
  BY BegunAre
<1>2. P \in Seq(Cells) /\ P # <<>> /\ Len(P) \in Nat
  BY PendingIs
<1>3. done \in Nat /\ delivered \in Seq(Seq(Cells))
  BY DEF TypeOK
<1>4. Streaming(frames) <=>
        /\ Stream(frames, done, P)
        /\ peer # "reset" => AllThere(frames, Len(sent), done, P)
        /\ peer = "reset" => wire = <<>>
        /\ peer = "died" => Len(frames) = Len(sent) + 1 /\ PartOf(frames, P)
        /\ Exact
  BY DEF Streaming
<1>5. Streaming(frames)' <=>
        /\ Stream(frames, Len(delivered'), Q)
        /\ peer' # "reset" => AllThere(frames, Len(sent'), Len(delivered'), Q)
        /\ peer' = "reset" => wire' = <<>>
        /\ peer' = "died" => Len(frames) = Len(sent') + 1 /\ PartOf(frames, Q)
        /\ Exact'
  BY DEF Streaming
<1>6. F = Source(frames, P[1].m) /\ Len(F) <= Len(P) /\ Q = SubSeq(P, Len(F) + 1, Len(P))
  OBVIOUS
<1>7. delivered' = IF m = 0 THEN delivered ELSE Append(delivered, F)
  OBVIOUS
<1> HIDE DEF P, Q, done
<1>8. /\ m = 0 \/ (m = done + 1 /\ done + 1 <= Len(frames))
      /\ m \in 0..Len(frames)
      /\ \A k \in 1..Len(F) : k <= Len(P) => P[k] = F[k]
  BY <1>1, <1>2, <1>3, <1>4, <1>6, StreamHead
<1>9. IsFrame(F, m)
  BY <1>1, <1>6, <1>8, SourceIs
<1>10. F \in Seq(Cells) /\ Len(F) \in Nat /\ Len(F) >= 1 /\ F[1].k = 1
  BY <1>9 DEF IsFrame
<1>11. P[1].k = 1
  <2>1. 1 \in 1..Len(F) /\ 1 <= Len(P)
    BY <1>2, <1>6, <1>10
  <2> QED
    BY <1>8, <1>10, <2>1
<1>12. /\ Stream(frames, then, Q)
       /\ \A last \in Nat : AllThere(frames, last, done, P) => AllThere(frames, last, then, Q)
       /\ \A i \in 1..Len(Q) :
            i + Len(F) \in 1..Len(P) /\ Q[i] = P[i + Len(F)]
            /\ (Complete(frames, Q, i) <=> Complete(frames, P, i + Len(F)))
  <2>1. Stream(frames, done, P)
    BY <1>4
  <2> DEFINE L == Len(F)
  <2>2. L = Len(Source(frames, P[1].m)) /\ L <= Len(P) /\ Q = SubSeq(P, L + 1, Len(P))
    BY <1>6
  <2>4. then = IF P[1].m = 0 THEN done ELSE done + 1
    OBVIOUS
  <2> HIDE DEF L, then, m
  <2>3. Dropped(frames, done, P, L, then, Q)
    <3>1. Good(frames) /\ done \in Nat /\ P \in Seq(Cells) /\ P # <<>>
      BY <1>1, <1>2, <1>3
    <3> QED
      BY <2>1, <2>2, <2>4, <3>1, StreamDrop
  <2> QED
    BY <2>3 DEF L, then, m, Dropped
<1>13. Len(delivered') = then
  <2>1. CASE m = 0
    BY <1>7, <2>1 DEF done
  <2>2. CASE m # 0
    <3>1. Len(Append(delivered, F)) = Len(delivered) + 1
      BY <1>3, <1>10
    <3> QED
      BY <1>7, <2>2, <3>1 DEF done
  <2> QED
    BY <2>1, <2>2
<1>14. ASSUME PartOf(frames, P) PROVE PartOf(frames, Q)
  BY <1>12, <1>14 DEF PartOf
<1>15. m # 0 => m \in 1..Len(sent)
  <2> SUFFICES ASSUME m # 0, m > Len(sent) PROVE FALSE
    BY <1>1, <1>8
  <2>1. peer = "died" /\ Len(frames) = Len(sent) + 1 /\ PartOf(frames, P) /\ m = Len(frames)
    BY <1>1, <1>4, <1>8
  <2>2. 1 \in 1..Len(P) /\ P[1].m = Len(frames)
    BY <1>2, <1>6, <1>10, <2>1
  <2>3. ~Complete(frames, P, 1)
    BY <2>1, <2>2 DEF PartOf
  <2>4. 1 - P[1].k + Len(F) = Len(F)
    BY <1>10, <1>11
  <2> QED
    BY <1>6, <2>3, <2>4 DEF Complete
<1>16. Exact'
  <2>1. Exact
    BY <1>4
  <2>2. CASE m = 0
    BY <1>7, <2>1, <2>2 DEF Exact
  <2>3. CASE m # 0
    <3>1. m = done + 1 /\ m \in 1..Len(sent) /\ F = sent[m]
      BY <1>1, <1>6, <1>8, <1>15, <2>3 DEF Source
    <3>2. /\ Len(delivered') = done + 1 /\ delivered'[done + 1] = F
          /\ \A i \in 1..done : delivered'[i] = delivered[i]
      BY <1>3, <1>7, <1>10, <2>3 DEF done
    <3>3. \A i \in 1..(done + 1) : i \in 1..done \/ i = done + 1
      BY <1>3
    <3>4. Len(delivered') <= Len(sent)
      BY <1>1, <3>1, <3>2
    <3>5. \A i \in 1..Len(delivered') : delivered'[i] = sent[i]
      BY <2>1, <3>1, <3>2, <3>3 DEF Exact, done
    <3> QED
      BY <3>4, <3>5 DEF Exact
  <2> QED
    BY <2>2, <2>3
<1> QED
  BY <1>1, <1>4, <1>5, <1>12, <1>13, <1>14, <1>16

(* What is kept may be let go of.                                          *)
LEMMA KeptGone ==
    ASSUME NEW kept \in Seq(Cells), NEW packet \in [1..BUF -> Cells], NEW from \in Nat,
           NEW to \in Int, to <= BUF, NEW cells \in Seq(Cells)
    PROVE  Left(<<>>, packet, from, to, cells)
                = SubSeq(Left(kept, packet, from, to, cells), Len(kept) + 1,
                         Len(Left(kept, packet, from, to, cells)))
<1> DEFINE slice == SubSeq(packet, from + 1, to)
           rest == slice \o cells
           P == Left(kept, packet, from, to, cells)
           Q == SubSeq(P, Len(kept) + 1, Len(P))
<1>1. slice \in Seq(Cells)
  BY SliceIs
<1> HIDE DEF slice
<1>2. rest \in Seq(Cells) /\ Len(rest) \in Nat
  BY <1>1
<1>3. Left(<<>>, packet, from, to, cells) = rest
  <2>1. <<>> \o slice = slice
    BY <1>1
  <2> QED
    BY <2>1 DEF Left, slice
<1>4. P = kept \o rest
  <2>1. (kept \o slice) \o cells = kept \o (slice \o cells)
    BY <1>1, ConcatAssociative
  <2> QED
    BY <2>1 DEF Left, slice
<1> HIDE DEF rest, P
<1>5. P \in Seq(Cells) /\ Len(P) = Len(kept) + Len(rest)
      /\ \A i \in 1..Len(rest) : P[Len(kept) + i] = rest[i]
  BY <1>2, <1>4, Joined
<1>6. Q \in Seq(Cells) /\ Len(Q) = Len(rest)
  BY <1>2, <1>5
<1>7. \A i \in 1..Len(rest) : Q[i] = P[Len(kept) + i]
  BY <1>2, <1>5
<1> HIDE DEF Q
<1>8. Q = rest
  BY <1>2, <1>5, <1>6, <1>7, SeqEqual
<1> QED
  BY <1>3, <1>8 DEF Q, P

(* What is sent comes last.                                                *)
LEMMA WireGrows ==
    ASSUME NEW kept \in Seq(Cells), NEW packet \in [1..BUF -> Cells], NEW from \in Nat,
           NEW to \in Int, to <= BUF, NEW cells \in Seq(Cells), NEW more \in Seq(Cells)
    PROVE  Left(kept, packet, from, to, cells \o more)
                = Left(kept, packet, from, to, cells) \o more
<1> DEFINE slice == SubSeq(packet, from + 1, to)
           first == kept \o slice
<1>1. slice \in Seq(Cells)
  BY SliceIs
<1> HIDE DEF slice
<1>2. first \in Seq(Cells)
  BY <1>1
<1>3. /\ Left(kept, packet, from, to, cells \o more) = first \o (cells \o more)
      /\ Left(kept, packet, from, to, cells) = first \o cells
  BY DEF Left, slice
<1> HIDE DEF first
<1>4. (first \o cells) \o more = first \o (cells \o more)
  BY <1>2, ConcatAssociative, SMTT(40)
<1> QED
  BY <1>3, <1>4

(* The instruction in hand is one of the stream.                           *)
LEMMA CurrentIs ==
    ASSUME TypeOK, SentWell, NEW frames \in Begun, Streaming(frames), Reading(frames),
           loc \in {"data", "fetch", "parse", "add"}
    PROVE  instruction[1].m \in 1..Len(frames)
<1>1. HDR \in Nat \ {0} /\ instruction \in Seq(Cells) /\ Len(delivered) \in Nat
      /\ Len(instruction) >= HDR /\ instruction[1].m # 0
  BY RecieverAssumption DEF TypeOK, Reading
<1>2. 1 \in 1..Len(instruction)
  BY <1>1
<1>3. Pending[1] = instruction[1] /\ 1 \in 1..Len(Pending)
  <2>1. /\ Len(instruction) <= Len(Pending) /\ Len(Pending) \in Nat
        /\ \A i \in 1..Len(instruction) : Pending[i] = instruction[i]
    BY <1>1, PendingIs, SMTT(40) DEF TypeOK
  <2> QED
    BY <1>1, <1>2, <2>1
<1>4. InFrame(frames, Len(delivered), Pending, 1)
  BY <1>3 DEF Streaming, Stream
<1>5. instruction[1].m \in (Len(delivered) + 1)..Len(frames)
  BY <1>1, <1>3, <1>4 DEF InFrame
<1>6. Len(frames) \in Nat
  BY BegunAre
<1> QED
  BY <1>1, <1>5, <1>6

(* The peer does something, the thread does not.                           *)
LEMMA ReadingMore ==
    ASSUME TypeOK, SentWell, NEW frames \in Begun, Streaming(frames), Reading(frames),
           peer = "open", UNCHANGED recVars,
           NEW more, \A m \in 1..Len(frames) : more[m] = frames[m]
    PROVE  Reading(more)'
<1>1. UNCHANGED <<loc, rec, recbuffer, incoming_size, rec_offset, instruction, total, disconnect,
                  delivered>>
  BY DEF recVars
<1>2. incoming_size # -1
  BY DEF Reading
<1>3. loc # "crashed" \/ \E size \in Sizes : size % BASE = 0
  BY DEF Reading, PeerFaultless
<1>4. loc \in {"data", "fetch", "parse", "add"} =>
        more[instruction[1].m] = frames[instruction[1].m]
  BY CurrentIs
<1> QED
  BY <1>1, <1>2, <1>3, <1>4 DEF Reading

-----------------------------------------------------------------------------
(* One lemma for each action.                                              *)
LEMMA DeactivateKeeps ==
    ASSUME StreamInv, Deactivate
    PROVE  StreamInv'
<1>1. UNCHANGED <<wire, peer, sent, pings, loc, rec, recbuffer, incoming_size, rec_offset,
                  instruction, total, disconnect, delivered>>
  BY DEF Deactivate, recVars
<1>2. TypeOK'
  <2>1. active' \in BOOLEAN /\ at_signal' \in Nat
    <3>1. Len(delivered) \in Nat
      BY DEF StreamInv, TypeOK
    <3> QED
      BY <3>1 DEF Deactivate
  <2> QED
    BY <1>1, <2>1 DEF StreamInv, TypeOK
<1>3. Pending' = Pending
  BY <1>1 DEF Pending
<1>4. ASSUME Intact PROVE Intact'
  <2>1. PICK frames \in Begun : Streaming(frames) /\ Reading(frames)
    BY <1>4 DEF Intact
  <2>2. Streaming(frames)'
    BY <1>1, <1>3, <2>1, StillStreaming DEF Streaming
  <2>3. Reading(frames)'
    BY <1>1, <2>1 DEF Reading, PeerFaultless, AllZero
  <2> QED
    BY <1>1, <2>1, <2>2, <2>3 DEF Intact, Begun
<1>5. ASSUME Ended PROVE Ended'
  BY <1>1, <1>5 DEF Ended, AllZero, Exact, DamagedAtEndOnly
<1> QED
  BY <1>1, <1>2, <1>4, <1>5 DEF StreamInv, SentWell

LEMMA LoopTopKeeps ==
    ASSUME StreamInv, LoopTop
    PROVE  StreamInv'
<1>1. UNCHANGED <<wire, peer, sent, pings, active, at_signal, rec, recbuffer, incoming_size,
                  rec_offset, instruction, total, disconnect, delivered>>
  BY DEF LoopTop, peerVars
<1>2. loc = "top" /\ loc' \in {"stopped", rec} /\ HDR \in Nat \ {0}
  BY RecieverAssumption DEF LoopTop
<1>3. TypeOK'
  BY <1>1, <1>2 DEF StreamInv, TypeOK
<1>4. Pending' = Pending
  BY <1>1 DEF Pending
<1>5. ASSUME Intact PROVE Intact'
  <2>1. PICK frames \in Begun : Streaming(frames) /\ Reading(frames)
    BY <1>5 DEF Intact
  <2>2. Streaming(frames)'
    BY <1>1, <1>4, <2>1, StillStreaming DEF Streaming
  <2>3. loc' \in {"stopped", "idle", "headers"}
    BY <1>2, <2>1 DEF Reading, StreamInv, TypeOK
  <2>4. Reading(frames)'
    BY <1>1, <1>2, <2>1, <2>3 DEF Reading, AllZero
  <2> QED
    BY <1>1, <2>1, <2>2, <2>4 DEF Intact, Begun
<1>6. ASSUME Ended PROVE Ended'
  <2>1. loc' \in {"stopped", "idle", "headers"}
    BY <1>2, <1>6 DEF Ended, StreamInv, TypeOK
  <2> QED
    BY <1>1, <1>2, <1>6, <2>1 DEF Ended, AllZero, Exact, DamagedAtEndOnly
<1> QED
  BY <1>1, <1>3, <1>5, <1>6 DEF StreamInv, SentWell

(* The instruction that is parsed and added is the next of the stream.     *)
LEMMA InstructionIs ==
    ASSUME TypeOK, SentWell, NEW frames \in Begun, Streaming(frames), Reading(frames),
           loc \in {"parse", "add"}
    PROVE  /\ Pending # <<>> /\ Pending[1].m # 0 /\ Len(instruction) <= Len(Pending)
           /\ instruction = Source(frames, Pending[1].m)
           /\ Len(instruction) \in Sizes /\ Len(instruction) > HDR
           /\ instruction[1].v = Len(instruction) % BASE
<1> DEFINE P == Pending
           m == P[1].m
           F == Source(frames, m)
           done == Len(delivered)
<1>1. Good(frames) /\ MaxSent \in Nat /\ Len(frames) \in Nat
  BY BegunAre, RecieverAssumption
<1>2. HDR \in Nat \ {0} /\ instruction \in Seq(Cells) /\ done \in Nat /\ Len(instruction) \in Nat
  BY RecieverAssumption DEF TypeOK
<1>3. /\ P \in Seq(Cells) /\ Len(P) \in Nat /\ Len(instruction) <= Len(P)
      /\ \A i \in 1..Len(instruction) : P[i] = instruction[i]
  BY PendingIs DEF TypeOK
<1>4. /\ HDR <= Len(instruction) /\ Len(instruction) = total
      /\ instruction[1].m # 0 /\ total = Len(frames[instruction[1].m])
  BY DEF Reading
<1>5. Stream(frames, done, P)
  BY DEF Streaming
<1> HIDE DEF P, done
<1>6. 1 \in 1..Len(instruction) /\ P # <<>> /\ m = instruction[1].m
  BY <1>2, <1>3, <1>4
<1>7. m \in 0..Len(frames) /\ \A k \in 1..Len(F) : k <= Len(P) => P[k] = F[k]
  BY <1>1, <1>2, <1>3, <1>5, <1>6, StreamHead
<1> HIDE DEF m
<1>8. m \in 1..Len(frames) /\ m \in 1..MaxSent /\ F = frames[m] /\ F \in FramesOf(m)
  BY <1>1, <1>4, <1>6, <1>7 DEF Good, Source
<1> HIDE DEF F
<1>9. /\ IsFrame(F, m) /\ Len(F) \in Sizes /\ Len(F) > HDR
      /\ \A k \in 1..HDR : F[k].v = Digit(Len(F), k)
  BY <1>8, FrameIs
<1>10. Len(F) = Len(instruction) /\ F \in Seq(Cells)
  BY <1>4, <1>6, <1>8, <1>9 DEF IsFrame
<1>11. \A k \in 1..Len(instruction) : instruction[k] = F[k]
  BY <1>2, <1>3, <1>7, <1>10
<1>12. instruction = F
  BY <1>2, <1>10, <1>11, SeqEqual
<1>13. instruction[1].v = Len(instruction) % BASE
  <2>1. 1 \in 1..HDR /\ 1 - 1 = 0
    BY <1>2
  <2>2. F[1].v = Digit(Len(F), 1)
    BY <1>9, <2>1
  <2>3. Len(F) \in Nat
    BY <1>10
  <2>4. Digit(Len(F), 1) = Len(F) % BASE
    BY <2>1, <2>3, DigitIs
  <2> QED
    BY <1>10, <1>12, <2>2, <2>4
<1> QED
  BY <1>3, <1>4, <1>6, <1>9, <1>10, <1>12, <1>13 DEF F, m, P

LEMMA ParseKeeps ==
    ASSUME StreamInv, Parse
    PROVE  StreamInv'
<1>1. UNCHANGED <<wire, peer, sent, pings, active, at_signal, rec, recbuffer, incoming_size,
                  rec_offset, instruction, total, delivered>>
  BY DEF Parse, peerVars
<1>2. loc = "parse" /\ loc' \in {"crashed", "add"}
      /\ (loc' = "crashed" => instruction[1].v = 0 \/ Len(instruction) = HDR)
  BY DEF Parse
<1>3. disconnect' \in BOOLEAN
  BY DEF Parse, IsExit, StreamInv, TypeOK
<1>4. TypeOK'
  BY <1>1, <1>2, <1>3 DEF StreamInv, TypeOK
<1>5. Pending' = Pending
  BY <1>1 DEF Pending
<1>6. ASSUME Intact PROVE Intact'
  <2>1. PICK frames \in Begun : Streaming(frames) /\ Reading(frames)
    BY <1>6 DEF Intact
  <2>2. Streaming(frames)'
    BY <1>1, <1>5, <2>1, StillStreaming DEF Streaming
  <2>3. /\ Len(instruction) \in Sizes /\ Len(instruction) > HDR
        /\ instruction[1].v = Len(instruction) % BASE
    BY <1>2, <2>1, InstructionIs DEF StreamInv
  <2>4. loc' = "crashed" => \E size \in Sizes : size % BASE = 0
    <3>1. HDR \in Nat /\ Len(instruction) \in Nat
      BY RecieverAssumption DEF StreamInv, TypeOK
    <3>2. Len(instruction) # HDR
      BY <2>3, <3>1
    <3> QED
      BY <1>2, <2>3, <3>2
  <2>5. Reading(frames)'
    BY <1>1, <1>2, <2>1, <2>4 DEF Reading, AllZero
  <2> QED
    BY <1>1, <2>1, <2>2, <2>5 DEF Intact, Begun
<1>7. ASSUME Ended PROVE Ended'
  BY <1>1, <1>2, <1>7 DEF Ended, AllZero, Exact, DamagedAtEndOnly
<1> QED
  BY <1>1, <1>4, <1>6, <1>7 DEF StreamInv, SentWell

LEMMA AddInstructionKeeps ==
    ASSUME StreamInv, AddInstruction
    PROVE  StreamInv'
<1>1. UNCHANGED <<wire, peer, sent, pings, active, at_signal, recbuffer, incoming_size,
                  rec_offset, disconnect>>
  BY DEF AddInstruction, peerVars
<1>2. /\ loc = "add" /\ loc' = "top" /\ rec' = "headers"
      /\ instruction' = <<>> /\ total' = 0
      /\ delivered' = Append(delivered, instruction)
  BY DEF AddInstruction
<1>3. /\ HDR \in Nat /\ delivered \in Seq(Seq(Cells)) /\ Len(delivered) \in Nat
      /\ instruction \in Seq(Cells)
  BY RecieverAssumption DEF StreamInv, TypeOK
<1>4. /\ delivered' \in Seq(Seq(Cells)) /\ Len(delivered') = Len(delivered) + 1
      /\ \A i \in 1..Len(delivered) : delivered'[i] = delivered[i]
  BY <1>2, <1>3
<1>5. TypeOK'
  <2>1. instruction' \in Seq(Cells) /\ Len(instruction') = 0 /\ total' \in Nat
        /\ Len(instruction') <= HDR + total'
    BY <1>2, <1>3
  <2> QED
    BY <1>1, <1>2, <1>4, <2>1 DEF StreamInv, TypeOK
<1>6. ASSUME Intact PROVE Intact'
  <2>1. PICK frames \in Begun : Streaming(frames) /\ Reading(frames)
    BY <1>6 DEF Intact
  <2>2. /\ Pending # <<>> /\ Pending[1].m # 0 /\ Len(instruction) <= Len(Pending)
        /\ instruction = Source(frames, Pending[1].m)
    BY <1>2, <2>1, InstructionIs DEF StreamInv
  <2>3. Pending' = SubSeq(Pending, Len(instruction) + 1, Len(Pending))
    <3>1. /\ instruction \in Seq(Cells) /\ recbuffer \in [1..BUF -> Cells] /\ rec_offset \in Nat
          /\ incoming_size \in Int /\ incoming_size <= BUF /\ wire \in Seq(Cells)
      BY RecieverAssumption DEF StreamInv, TypeOK
    <3>2. Pending = Left(instruction, recbuffer, rec_offset, incoming_size, wire)
      BY DEF Pending, Left
    <3>3. Pending' = Left(<<>>, recbuffer, rec_offset, incoming_size, wire)
      BY <1>1, <1>2 DEF Pending, Left
    <3> QED
      BY <3>1, <3>2, <3>3, KeptGone
  <2>4. delivered' = IF Pending[1].m = 0 THEN delivered ELSE Append(delivered, instruction)
    BY <1>2, <2>2
  <2>5. Streaming(frames)'
    <3>1. peer = "reset" => wire' = <<>>
      BY <1>1, <2>1 DEF Streaming
    <3> QED
      BY <1>1, <2>1, <2>2, <2>3, <2>4, <3>1, Pulled DEF StreamInv
  <2>6. Reading(frames)'
    BY <1>1, <1>2, <2>1 DEF Reading, AllZero
  <2> QED
    BY <1>1, <2>1, <2>5, <2>6 DEF Intact, Begun
<1>7. ASSUME Ended PROVE Ended'
  <2>1. peer = "reset" /\ Exact
    BY <1>2, <1>7 DEF Ended
  <2>2. DamagedAtEndOnly'
    <3> SUFFICES ASSUME NEW i \in 1..(Len(delivered') - 1)
                 PROVE  i <= Len(sent') /\ delivered'[i] = sent'[i]
      BY DEF DamagedAtEndOnly
    <3>1. Len(delivered') - 1 = Len(delivered)
      BY <1>3, <1>4
    <3>2. i \in 1..Len(delivered) /\ i \in Nat
      BY <1>3, <3>1
    <3> QED
      BY <1>1, <1>3, <1>4, <2>1, <3>1, <3>2 DEF Exact
  <2>3. AllZero(instruction')
    BY <1>2 DEF AllZero
  <2>4. wire' = <<>> /\ peer' # "open" /\ AllZero(recbuffer')
        /\ incoming_size' = -1 /\ rec_offset' \in Nat
    BY <1>1, <1>7, <2>1 DEF Ended, AllZero
  <2> QED
    BY <1>1, <1>2, <2>1, <2>2, <2>3, <2>4 DEF Ended
<1> QED
  BY <1>1, <1>5, <1>6, <1>7 DEF StreamInv, SentWell

(* While the peer is there, all that it has sent is in the stream.         *)
LEMMA OpenIs ==
    ASSUME StreamInv, peer = "open"
    PROVE  /\ sent \in Begun /\ Good(sent) /\ Len(sent) \in Nat
           /\ Streaming(sent) /\ Reading(sent)
           /\ Stream(sent, Len(delivered), Pending)
           /\ AllThere(sent, Len(sent), Len(delivered), Pending)
           /\ Exact /\ Len(delivered) \in 0..Len(sent)
<1>1. Intact
  BY DEF StreamInv, Ended
<1>2. PICK frames \in Begun : Streaming(frames) /\ Reading(frames)
  BY <1>1 DEF Intact
<1>3. frames = sent /\ Good(frames) /\ Len(sent) \in Nat
  BY BegunAre DEF StreamInv
<1>4. /\ Stream(frames, Len(delivered), Pending) /\ Exact
      /\ AllThere(frames, Len(sent), Len(delivered), Pending)
  BY <1>2 DEF Streaming
<1>5. Len(delivered) \in 0..Len(sent)
  BY <1>3, <1>4 DEF Exact, StreamInv, TypeOK
<1> QED
  BY <1>2, <1>3, <1>4, <1>5

Grown(F, size, n, more) ==
    /\ F \in Frames /\ F \in FramesOf(Len(sent) + 1) /\ F \in Seq(Cells) /\ Len(F) = size
    /\ wire' \in Seq(Cells)
    /\ Len(more) = Len(sent) + 1 /\ more[Len(sent) + 1] = F
    /\ \A m \in 1..Len(sent) : more[m] = sent[m]
    /\ Appended(sent, Len(delivered), more, Len(sent) + 1, F, n, Pending')
    /\ Reading(more)'

LEMMA FrameSent ==
    ASSUME StreamInv, peer = "open", Len(sent) < MaxSent,
           NEW size \in Sizes, NEW data \in {1, 2},
           NEW F, F = Frame(Len(sent) + 1, size, data), NEW n \in 1..size,
           wire' = wire \o SubSeq(F, 1, n), UNCHANGED recVars,
           NEW more, more = Append(sent, F)
    PROVE  Grown(F, size, n, more)
<1>1. /\ UNCHANGED <<loc, rec, recbuffer, incoming_size, rec_offset, instruction, total,
                     disconnect, delivered>>
  BY DEF recVars
<1>2. /\ sent \in Begun /\ Good(sent) /\ Len(sent) \in Nat
      /\ Streaming(sent) /\ Reading(sent)
      /\ Stream(sent, Len(delivered), Pending)
      /\ AllThere(sent, Len(sent), Len(delivered), Pending)
      /\ Exact /\ Len(delivered) \in 0..Len(sent)
  BY OpenIs
<1>3. Len(sent) + 1 \in 1..MaxSent
  BY <1>2, RecieverAssumption
<1>4. F \in Frames /\ F \in FramesOf(Len(sent) + 1)
  <2>1. F = Frame(Len(sent) + 1, size, data)
    OBVIOUS
  <2> QED
    <3>1. F \in FramesOf(Len(sent) + 1)
      BY <2>1 DEF FramesOf
    <3>2. \A m \in 1..MaxSent : Frame(m, size, data) \in Frames
      BY DEF Frames
    <3> QED
      BY <1>3, <2>1, <3>1, <3>2
<1>5. IsFrame(F, Len(sent) + 1)
  BY <1>3, <1>4, FrameIs
<1>6. F \in Seq(Cells)
  BY <1>5 DEF IsFrame
<1>7. Len(F) = size
  <2>1. size \in Nat
    BY RecieverAssumption
  <2> QED
    BY <1>6, <2>1 DEF Frame
<1>8. SubSeq(F, 1, n) \in Seq(Cells) /\ n \in 1..Len(F)
  <2>1. n \in Nat /\ size \in Nat
    BY RecieverAssumption
  <2> QED
    BY <1>6, <1>7, <2>1
<1>9. sent \in Seq(Seq(Cells)) /\ Len(sent) <= MaxSent
      /\ \A m \in 1..Len(sent) : sent[m] \in FramesOf(m)
  BY <1>2 DEF Good
<1>10. /\ more \in Seq(Seq(Cells)) /\ Len(more) = Len(sent) + 1 /\ more[Len(sent) + 1] = F
       /\ \A m \in 1..Len(sent) : more[m] = sent[m]
  BY <1>6, <1>9
<1>11. Good(more)
  <2>1. ASSUME NEW m \in 1..Len(more) PROVE more[m] \in FramesOf(m)
    <3>1. m \in 1..Len(sent) \/ m = Len(sent) + 1
      BY <1>2, <1>10
    <3> QED
      BY <1>4, <1>9, <1>10, <3>1
  <2>2. Len(more) <= MaxSent
    BY <1>3, <1>10
  <2> QED
    BY <1>10, <2>1, <2>2 DEF Good
<1>12. wire \in Seq(Cells) /\ wire' \in Seq(Cells)
  BY <1>8 DEF StreamInv, TypeOK
<1>13. Pending \in Seq(Cells) /\ Pending' = Pending \o SubSeq(F, 1, n)
  <2>1. /\ instruction \in Seq(Cells) /\ recbuffer \in [1..BUF -> Cells] /\ rec_offset \in Nat
        /\ incoming_size \in Int /\ incoming_size <= BUF
    BY RecieverAssumption DEF StreamInv, TypeOK
  <2>2. Pending = Left(instruction, recbuffer, rec_offset, incoming_size, wire)
    BY DEF Pending, Left
  <2>3. Pending' = Left(instruction, recbuffer, rec_offset, incoming_size, wire \o SubSeq(F, 1, n))
    BY <1>1 DEF Pending, Left
  <2>4. Left(instruction, recbuffer, rec_offset, incoming_size, wire \o SubSeq(F, 1, n))
            = Left(instruction, recbuffer, rec_offset, incoming_size, wire) \o SubSeq(F, 1, n)
    <3> DEFINE tail == SubSeq(F, 1, n)
    <3>1. tail \in Seq(Cells) /\ wire \in Seq(Cells)
      BY <1>8, <1>12
    <3> HIDE DEF tail
    <3>2. Left(instruction, recbuffer, rec_offset, incoming_size, wire \o tail)
            = Left(instruction, recbuffer, rec_offset, incoming_size, wire) \o tail
      BY <2>1, <3>1, WireGrows, ZenonT(60)
    <3> QED
      BY <3>2 DEF tail
  <2>5. Pending \in Seq(Cells)
    BY PendingIs DEF StreamInv
  <2>6. Pending' = Pending \o SubSeq(F, 1, n)
    <3> DEFINE first == Left(instruction, recbuffer, rec_offset, incoming_size, wire)
               longer == Left(instruction, recbuffer, rec_offset, incoming_size,
                              wire \o SubSeq(F, 1, n))
    <3>1. Pending = first /\ Pending' = longer /\ longer = first \o SubSeq(F, 1, n)
      BY <2>2, <2>3, <2>4
    <3> HIDE DEF first, longer, Pending
    <3> QED
      BY <3>1
  <2> QED
    BY <2>5, <2>6
<1>14. F = Source(more, Len(sent) + 1)
  BY <1>2, <1>10 DEF Source
<1>15. Appended(sent, Len(delivered), more, Len(sent) + 1, F, n, Pending')
  <2> DEFINE P == Pending
             Q == Pending'
             m == Len(sent) + 1
  <2>1. P \in Seq(Cells) /\ Q = P \o SubSeq(F, 1, n) /\ m \in Nat /\ m # 0
    BY <1>2, <1>13
  <2>2. F = Source(more, m) /\ m = Len(sent) + 1 /\ more = Append(sent, F)
    BY <1>14
  <2>3. Stream(sent, Len(delivered), P) /\ AllThere(sent, Len(sent), Len(delivered), P)
    BY <1>2
  <2> HIDE DEF P, Q, m
  <2>4. Appended(sent, Len(delivered), more, m, F, n, Q)
    BY <1>2, <1>8, <1>11, <2>1, <2>2, <2>3, StreamAppend
  <2> QED
    BY <2>4 DEF Q, m
<1>16. Reading(more)'
  BY <1>2, <1>10, ReadingMore DEF StreamInv
<1> QED
  BY <1>4, <1>6, <1>7, <1>10, <1>12, <1>15, <1>16 DEF Grown

LEMMA SendInstructionKeeps ==
    ASSUME StreamInv, SendInstruction
    PROVE  StreamInv'
<1>1. PICK size \in Sizes, data \in {1, 2} :
        /\ peer = "open" /\ Len(sent) < MaxSent
        /\ sent' = Append(sent, Frame(Len(sent) + 1, size, data))
        /\ wire' = wire \o Frame(Len(sent) + 1, size, data)
  BY DEF SendInstruction, NextFrame
<1>2. UNCHANGED <<peer, pings, active, at_signal, recVars>>
  BY DEF SendInstruction
<1>3. UNCHANGED <<loc, rec, recbuffer, incoming_size, rec_offset, instruction, total, disconnect,
                  delivered>>
  BY <1>2 DEF recVars
<1> DEFINE F == Frame(Len(sent) + 1, size, data)
<1>4. size \in Nat \ {0} /\ size \in 1..size
  BY RecieverAssumption
<1>5. F \in Seq(Cells) /\ Len(F) = size
  <2>1. Len(sent) + 1 \in 1..MaxSent
    BY <1>1, RecieverAssumption DEF StreamInv, TypeOK
  <2>2. F \in FramesOf(Len(sent) + 1)
    BY DEF FramesOf
  <2>3. F \in Seq(Cells)
    BY <2>1, <2>2, FrameIs DEF IsFrame
  <2> QED
    BY <1>4, <2>3 DEF Frame
<1>6. F = Frame(Len(sent) + 1, size, data) /\ sent' = Append(sent, F) /\ wire' = wire \o F
  BY <1>1
<1> HIDE DEF F
<1>7. SubSeq(F, 1, size) = F
  <2>1. SubSeq(F, 1, size) \in Seq(Cells) /\ Len(SubSeq(F, 1, size)) = size
        /\ \A i \in 1..size : SubSeq(F, 1, size)[i] = F[i]
    BY <1>4, <1>5
  <2> QED
    BY <1>5, <2>1, SeqEqual
<1>14. PICK more : more = sent'
  OBVIOUS
<1>8. /\ F \in Frames /\ F \in FramesOf(Len(sent) + 1)
      /\ wire' \in Seq(Cells)
      /\ Len(sent') = Len(sent) + 1 /\ sent'[Len(sent) + 1] = F
      /\ \A m \in 1..Len(sent) : sent'[m] = sent[m]
      /\ Appended(sent, Len(delivered), more, Len(sent) + 1, F, size, Pending')
      /\ Reading(more)'
  <2>1. more = Append(sent, F) /\ wire' = wire \o SubSeq(F, 1, size)
    BY <1>6, <1>7, <1>14
  <2>2. Grown(F, size, size, more)
    BY <1>1, <1>2, <1>4, <1>6, <2>1, FrameSent
  <2> QED
    BY <1>14, <2>2 DEF Grown
<1>9. Len(sent) \in Nat /\ Exact
  BY <1>1, OpenIs
<1>10. TypeOK'
  <2>1. sent' \in Seq(Frames) /\ Len(sent') <= MaxSent
    BY <1>1, <1>6, <1>8, <1>9, RecieverAssumption DEF StreamInv, TypeOK
  <2> QED
    BY <1>2, <1>3, <1>8, <2>1 DEF StreamInv, TypeOK
<1>11. SentWell'
  <2> SUFFICES ASSUME NEW m \in 1..Len(sent') PROVE sent'[m] \in FramesOf(m)
    BY DEF SentWell
  <2>1. m \in 1..Len(sent) \/ m = Len(sent) + 1
    BY <1>8, <1>9
  <2> QED
    BY <1>8, <2>1 DEF StreamInv, SentWell
<1>12. Streaming(more)'
  <2>1. /\ Stream(more, Len(delivered'), Pending')
        /\ AllThere(more, Len(sent'), Len(delivered'), Pending')
    BY <1>3, <1>5, <1>8, <1>14 DEF Appended
  <2>2. Exact'
    BY <1>3, <1>8, <1>9 DEF Exact, StreamInv, TypeOK
  <2> QED
    BY <1>1, <1>2, <2>1, <2>2 DEF Streaming
<1>13. more \in Begun'
  BY <1>14 DEF Begun
<1> QED
  BY <1>8, <1>10, <1>11, <1>12, <1>13 DEF StreamInv, Intact

LEMMA SendPingKeeps ==
    ASSUME StreamInv, SendPing
    PROVE  StreamInv'
<1>1. /\ peer = "open" /\ pings' \in 0..MaxPings /\ wire' = wire \o PingFrame
      /\ UNCHANGED <<peer, sent, active, at_signal, recVars>>
  <2>1. MaxPings \in Nat /\ pings \in 0..MaxPings
    BY RecieverAssumption DEF StreamInv, TypeOK
  <2> QED
    BY <2>1 DEF SendPing
<1>2. UNCHANGED <<loc, rec, recbuffer, incoming_size, rec_offset, instruction, total, disconnect,
                  delivered>>
  BY <1>1 DEF recVars
<1>3. /\ sent \in Begun /\ Good(sent) /\ Len(sent) \in Nat
      /\ Streaming(sent) /\ Reading(sent)
      /\ Stream(sent, Len(delivered), Pending)
      /\ AllThere(sent, Len(sent), Len(delivered), Pending)
      /\ Exact /\ Len(delivered) \in 0..Len(sent)
  BY <1>1, OpenIs
<1> DEFINE F == PingFrame
<1>4. F \in Seq(Cells) /\ Len(F) = HDR /\ HDR \in Nat \ {0}
  BY PingIs, RecieverAssumption DEF IsFrame
<1>5. F = Source(sent, 0)
  BY DEF Source
<1> HIDE DEF F
<1>6. SubSeq(F, 1, HDR) = F
  <2>1. SubSeq(F, 1, HDR) \in Seq(Cells) /\ Len(SubSeq(F, 1, HDR)) = HDR
        /\ \A i \in 1..HDR : SubSeq(F, 1, HDR)[i] = F[i]
    BY <1>4
  <2> QED
    BY <1>4, <2>1, SeqEqual
<1>7. TypeOK'
  <2>1. wire' \in Seq(Cells)
    BY <1>1, <1>4 DEF F, StreamInv, TypeOK
  <2> QED
    BY <1>1, <1>2, <2>1 DEF StreamInv, TypeOK
<1>8. Pending \in Seq(Cells) /\ Pending' = Pending \o F
  <2>1. /\ instruction \in Seq(Cells) /\ recbuffer \in [1..BUF -> Cells] /\ rec_offset \in Nat
        /\ incoming_size \in Int /\ incoming_size <= BUF /\ wire \in Seq(Cells)
    BY RecieverAssumption DEF StreamInv, TypeOK
  <2>2. Pending = Left(instruction, recbuffer, rec_offset, incoming_size, wire)
    BY DEF Pending, Left
  <2>3. Pending' = Left(instruction, recbuffer, rec_offset, incoming_size, wire \o F)
    BY <1>1, <1>2 DEF Pending, Left, F
  <2>4. Left(instruction, recbuffer, rec_offset, incoming_size, wire \o F)
            = Left(instruction, recbuffer, rec_offset, incoming_size, wire) \o F
    <3>1. F \in Seq(Cells) /\ wire \in Seq(Cells)
      BY <1>4, <2>1
    <3> QED
      BY <2>1, <3>1, WireGrows, ZenonT(60)
  <2>5. Pending' = Pending \o F
    <3> DEFINE first == Left(instruction, recbuffer, rec_offset, incoming_size, wire)
               longer == Left(instruction, recbuffer, rec_offset, incoming_size, wire \o F)
    <3>1. Pending = first /\ Pending' = longer /\ longer = first \o F
      BY <2>2, <2>3, <2>4
    <3> HIDE DEF first, longer, Pending
    <3> QED
      BY <3>1
  <2> QED
    BY <2>5, PendingIs DEF StreamInv
<1>9. Appended(sent, Len(delivered), sent, 0, F, HDR, Pending')
  <2> DEFINE P == Pending
             Q == Pending'
             m == 0
  <2>1. P \in Seq(Cells) /\ Q = P \o SubSeq(F, 1, HDR)
    BY <1>6, <1>8
  <2>4. m \in Nat /\ m = 0 /\ F = Source(sent, m) /\ HDR \in 1..Len(F) /\ HDR = Len(F)
    BY <1>4, <1>5
  <2>2. Stream(sent, Len(delivered), P) /\ AllThere(sent, Len(sent), Len(delivered), P)
    BY <1>3
  <2> HIDE DEF P, Q, m
  <2>3. Appended(sent, Len(delivered), sent, m, F, HDR, Q)
    BY <1>3, <2>1, <2>2, <2>4, StreamAppend
  <2> QED
    BY <2>3 DEF Q, m
<1>10. PICK frames : frames = sent
  OBVIOUS
<1>11. Reading(frames)'
  BY <1>1, <1>3, <1>10, ReadingMore DEF StreamInv
<1>12. Streaming(frames)'
  <2>1. /\ Stream(frames, Len(delivered'), Pending')
        /\ AllThere(frames, Len(sent'), Len(delivered'), Pending')
    BY <1>1, <1>2, <1>4, <1>9, <1>10 DEF Appended
  <2>2. Exact'
    BY <1>1, <1>2, <1>3 DEF Exact
  <2> QED
    BY <1>1, <2>1, <2>2 DEF Streaming
<1>13. frames \in Begun' /\ SentWell'
  BY <1>1, <1>10 DEF Begun, StreamInv, SentWell
<1> QED
  BY <1>7, <1>11, <1>12, <1>13 DEF StreamInv, Intact

LEMMA PeerLeavesKeeps ==
    ASSUME StreamInv, PeerLeaves
    PROVE  StreamInv'
<1>1. peer = "open" /\ UNCHANGED <<sent, pings, active, at_signal, recVars>>
  BY DEF PeerLeaves
<1>2. UNCHANGED <<loc, rec, recbuffer, incoming_size, rec_offset, instruction, total, disconnect,
                  delivered>>
  BY <1>1 DEF recVars
<1>3. /\ sent \in Begun /\ Good(sent) /\ Len(sent) \in Nat
      /\ Streaming(sent) /\ Reading(sent)
      /\ Stream(sent, Len(delivered), Pending)
      /\ AllThere(sent, Len(sent), Len(delivered), Pending)
      /\ Exact /\ Len(delivered) \in 0..Len(sent)
  BY <1>1, OpenIs
<1>4. PICK frames : frames = sent
  OBVIOUS
<1>5. SentWell' /\ frames \in Begun'
  BY <1>1, <1>4 DEF StreamInv, SentWell, Begun
<1>6. ASSUME wire' \in Seq(Cells), peer' \in {"closed", "died", "reset"} PROVE TypeOK'
  BY <1>1, <1>2, <1>6 DEF StreamInv, TypeOK
<1>7. Exact'
  BY <1>1, <1>2, <1>3 DEF Exact
<1>8. CASE peer' = "closed" /\ UNCHANGED wire
  <2>1. Pending' = Pending
    BY <1>2, <1>8 DEF Pending
  <2>2. Streaming(frames)'
    BY <1>1, <1>2, <1>3, <1>4, <1>7, <1>8, <2>1 DEF Streaming
  <2>3. Reading(frames)'
    BY <1>1, <1>3, <1>4, ReadingMore DEF StreamInv
  <2>4. TypeOK'
    BY <1>6, <1>8 DEF StreamInv, TypeOK
  <2> QED
    BY <1>5, <2>2, <2>3, <2>4 DEF StreamInv, Intact
<1>9. CASE peer' = "reset" /\ wire' = <<>>
  <2>1. TypeOK'
    <3>1. wire' \in Seq(Cells)
      BY <1>9
    <3> QED
      BY <1>6, <1>9, <3>1
  <2>2. Stream(frames, Len(delivered), Pending')
    <3> DEFINE P == Pending
               Q == Pending'
    <3>1. /\ instruction \in Seq(Cells) /\ recbuffer \in [1..BUF -> Cells] /\ rec_offset \in Nat
          /\ incoming_size \in Int /\ incoming_size <= BUF /\ wire \in Seq(Cells)
          /\ <<>> \in Seq(Cells)
      BY RecieverAssumption DEF StreamInv, TypeOK
    <3>2. P = Left(instruction, recbuffer, rec_offset, incoming_size, wire)
      BY DEF Pending, Left
    <3>3. Q = Left(instruction, recbuffer, rec_offset, incoming_size, <<>>)
      BY <1>2, <1>9 DEF Pending, Left
    <3>4. P \in Seq(Cells) /\ Stream(frames, Len(delivered), P) /\ Len(delivered) \in Nat
      BY <1>3, <1>4, PendingIs DEF StreamInv
    <3> HIDE DEF P, Q
    <3>5. Q \in Seq(Cells)
      BY <3>1, <3>3, LeftIs DEF MadeOf
    <3>6. <<>> \o wire = wire
      BY <3>1
    <3>7. P = Q \o wire
      <4> DEFINE none == <<>>
      <4>1. none \in Seq(Cells)
        BY <3>1
      <4>3. none \o wire = wire /\ Q = Left(instruction, recbuffer, rec_offset, incoming_size, none)
        BY <3>3, <3>6
      <4> HIDE DEF none
      <4>2. Left(instruction, recbuffer, rec_offset, incoming_size, none \o wire)
                = Left(instruction, recbuffer, rec_offset, incoming_size, none) \o wire
        <5>1. wire \in Seq(Cells) /\ recbuffer \in [1..BUF -> Cells] /\ rec_offset \in Nat
          BY <3>1
        <5>2. incoming_size \in Int /\ incoming_size <= BUF /\ instruction \in Seq(Cells)
          BY <3>1
        <5> QED
          BY <4>1, <5>1, <5>2, WireGrows, ZenonT(60)
      <4> QED
        BY <3>2, <4>2, <4>3
    <3>8. Len(Q) <= Len(P) /\ \A i \in 1..Len(Q) : Q[i] = P[i]
      BY <3>1, <3>5, <3>7, Joined
    <3>9. Stream(frames, Len(delivered), Q)
      BY <3>4, <3>5, <3>8, StreamPrefix
    <3> QED
      BY <3>9 DEF Q
  <2>3. Streaming(frames)'
    BY <1>1, <1>2, <1>7, <1>9, <2>2 DEF Streaming
  <2>4. Reading(frames)'
    BY <1>1, <1>3, <1>4, ReadingMore DEF StreamInv
  <2> QED
    BY <1>5, <2>1, <2>3, <2>4 DEF StreamInv, Intact
<1>10. ASSUME NEW size \in Sizes, NEW n \in 1..(size - 1),
              Len(sent) < MaxSent, peer' = "died",
              wire' = wire \o SubSeq(Frame(Len(sent) + 1, size, 1), 1, n)
       PROVE  StreamInv'
  <2> DEFINE F == Frame(Len(sent) + 1, size, 1)
  <2>1. PICK more : more = Append(sent, F)
    OBVIOUS
  <2>2. size \in Nat /\ n \in 1..size /\ n < size
    BY RecieverAssumption
  <2>3. F = Frame(Len(sent) + 1, size, 1) /\ wire' = wire \o SubSeq(F, 1, n)
    BY <1>10
  <2> HIDE DEF F
  <2>4. 1 \in {1, 2} /\ UNCHANGED recVars
    BY <1>1
  <2>5. Grown(F, size, n, more)
    BY <1>1, <1>10, <2>1, <2>2, <2>3, <2>4, FrameSent
  <2>6. TypeOK'
    BY <1>6, <1>10, <2>5 DEF Grown
  <2>7. more \in Begun'
    BY <1>1, <1>10, <2>1, <2>5 DEF Begun, Grown
  <2>8. /\ Stream(more, Len(delivered'), Pending')
        /\ AllThere(more, Len(sent'), Len(delivered'), Pending')
        /\ PartOf(more, Pending') /\ Len(more) = Len(sent') + 1
    <3>1. Len(sent) + 1 # 0 /\ n < Len(F)
      BY <1>3, <2>2, <2>5 DEF Grown
    <3> QED
      BY <1>1, <1>2, <2>5, <3>1 DEF Grown, Appended, PartOf
  <2>9. Streaming(more)'
    BY <1>7, <1>10, <2>8 DEF Streaming
  <2>10. Reading(more)'
    BY <2>5 DEF Grown
  <2> QED
    BY <1>5, <2>6, <2>7, <2>9, <2>10 DEF StreamInv, Intact
<1> QED
  BY <1>8, <1>9, <1>10 DEF PeerLeaves, NextFrame

(* A packet holds the beginning of the wire, or there is nothing to come.  *)
LEMMA PacketIs ==
    ASSUME TypeOK, NextPacket
    PROVE  /\ wire' \in Seq(Cells) /\ recbuffer' \in [1..BUF -> Cells]
           /\ incoming_size' \in -1..BUF
           /\ \/ /\ incoming_size' \in 1..BUF /\ wire # <<>>
                 /\ \A kept \in Seq(Cells) :
                        Left(kept, recbuffer', 0, incoming_size', wire') = kept \o wire
              \/ /\ wire = <<>> /\ wire' = <<>> /\ peer # "open"
                 /\ AllZero(recbuffer') /\ recbuffer'[1] = ZERO
                 /\ incoming_size' = IF peer = "reset" THEN -1 ELSE 0
<1>1. BUF \in Nat \ {0} /\ wire \in Seq(Cells) /\ Len(wire) \in Nat /\ 0 \in 0..BUF
  BY RecieverAssumption DEF TypeOK
<1>2. ASSUME NEW n \in 1..BUF, n <= Len(wire),
             recbuffer' = Padded(SubSeq(wire, 1, n)),
             wire' = SubSeq(wire, n + 1, Len(wire)), incoming_size' = n
      PROVE  /\ wire' \in Seq(Cells) /\ recbuffer' \in [1..BUF -> Cells]
             /\ incoming_size' \in -1..BUF /\ incoming_size' \in 1..BUF /\ wire # <<>>
             /\ \A kept \in Seq(Cells) :
                    Left(kept, recbuffer', 0, incoming_size', wire') = kept \o wire
  <2>1. incoming_size' \in -1..BUF /\ incoming_size' \in 1..BUF /\ wire # <<>>
    BY <1>1, <1>2
  <2>2. \A kept \in Seq(Cells) :
          /\ Padded(SubSeq(wire, 1, n)) \in [1..BUF -> Cells]
          /\ SubSeq(wire, n + 1, Len(wire)) \in Seq(Cells)
          /\ Left(kept, Padded(SubSeq(wire, 1, n)), 0, n, SubSeq(wire, n + 1, Len(wire)))
                = kept \o wire
    BY <1>1, <1>2, Refill
  <2>3. <<>> \in Seq(Cells)
    OBVIOUS
  <2>4. wire' \in Seq(Cells) /\ recbuffer' \in [1..BUF -> Cells]
    BY <1>2, <2>2, <2>3
  <2>5. \A kept \in Seq(Cells) : Left(kept, recbuffer', 0, incoming_size', wire') = kept \o wire
    BY <1>2, <2>2
  <2> QED
    BY <2>1, <2>4, <2>5
<1>3. CASE /\ wire = <<>> /\ peer # "open"
           /\ recbuffer' = Padded(<<>>)
           /\ incoming_size' = IF peer = "reset" THEN -1 ELSE 0
           /\ UNCHANGED wire
  <2>1. /\ Padded(<<>>) \in [1..BUF -> Cells]
        /\ AllZero(Padded(<<>>)) /\ Padded(<<>>)[1] = ZERO
    <3>1. <<>> \in Seq(Cells) /\ Len(<<>>) <= BUF
      BY <1>1
    <3> QED
      BY <3>1, PaddedIs
  <2> QED
    BY <1>1, <1>3, <2>1
<1> QED
  BY <1>2, <1>3 DEF NextPacket

LEMMA IdleKeeps ==
    ASSUME StreamInv, Idle
    PROVE  StreamInv'
<1>1. /\ loc = "idle" /\ NextPacket /\ rec_offset' = 0
      /\ UNCHANGED <<peer, sent, pings, active, at_signal, instruction, total, disconnect, delivered>>
      /\ incoming_size' > 0 => rec' = "headers" /\ loc' = "headers"
      /\ ~(incoming_size' > 0) => rec' = rec /\ loc' = "top"
  BY DEF Idle, peerVars
<1>2. /\ wire' \in Seq(Cells) /\ recbuffer' \in [1..BUF -> Cells]
      /\ incoming_size' \in -1..BUF
      /\ \/ /\ incoming_size' \in 1..BUF /\ wire # <<>>
            /\ \A kept \in Seq(Cells) :
                   Left(kept, recbuffer', 0, incoming_size', wire') = kept \o wire
         \/ /\ wire = <<>> /\ wire' = <<>> /\ peer # "open"
            /\ AllZero(recbuffer') /\ recbuffer'[1] = ZERO
            /\ incoming_size' = IF peer = "reset" THEN -1 ELSE 0
  BY <1>1, PacketIs DEF StreamInv
<1>3. HDR \in Nat \ {0} /\ BUF \in Nat /\ instruction \in Seq(Cells)
  BY RecieverAssumption DEF StreamInv, TypeOK
<1>4. TypeOK'
  BY <1>1, <1>2 DEF StreamInv, TypeOK
<1>5. /\ incoming_size' \in 1..BUF => rec' = "headers" /\ loc' = "headers"
      /\ incoming_size' \in {-1, 0} => rec' = rec /\ loc' = "top"
  BY <1>1, <1>3
<1>6. ASSUME Intact PROVE Intact'
  <2>1. PICK frames \in Begun : Streaming(frames) /\ Reading(frames)
    BY <1>6 DEF Intact
  <2>2. /\ instruction = <<>> /\ total = 0 /\ rec = "idle" /\ incoming_size <= 0
    BY <1>1, <2>1 DEF Reading
  <2>3. Pending = instruction \o wire
    <3>1. rec_offset >= incoming_size
      BY <1>3, <2>2 DEF StreamInv, TypeOK
    <3> QED
      BY <3>1, PendingIs DEF StreamInv
  <2>4. Pending' = Left(instruction, recbuffer', 0, incoming_size', wire')
    BY <1>1 DEF Pending, Left
  <2>5. CASE /\ incoming_size' \in 1..BUF /\ wire # <<>>
             /\ \A kept \in Seq(Cells) :
                    Left(kept, recbuffer', 0, incoming_size', wire') = kept \o wire
    <3>1. Pending' = Pending
      BY <1>3, <2>3, <2>4, <2>5
    <3>2. peer # "reset"
      BY <2>1, <2>5 DEF Streaming
    <3>3. Streaming(frames)'
      BY <1>1, <2>1, <3>1, <3>2, StillStreaming
    <3>4. incoming_size' >= 0 /\ incoming_size' # -1 /\ ~(incoming_size' <= 0)
      BY <1>3, <2>5
    <3>5. Reading(frames)'
      BY <1>1, <1>3, <1>5, <2>2, <2>5, <3>4 DEF Reading
    <3> QED
      BY <1>1, <2>1, <3>3, <3>5 DEF Intact, Begun
  <2>6. CASE /\ wire = <<>> /\ wire' = <<>> /\ peer # "open"
             /\ AllZero(recbuffer') /\ recbuffer'[1] = ZERO
             /\ incoming_size' = IF peer = "reset" THEN -1 ELSE 0
    <3>1. incoming_size' \in {-1, 0} /\ (incoming_size' = -1 => peer = "reset")
      BY <2>6
    <3>2. Pending' = Pending
      <4>1. Left(instruction, recbuffer', 0, incoming_size', wire') = instruction \o wire'
        <5>1. incoming_size' \in Int /\ incoming_size' <= BUF /\ 0 >= incoming_size' /\ 0 \in Nat
          BY <1>3, <3>1
        <5> QED
          BY <1>2, <1>3, <5>1, LeftIs, ZenonT(60) DEF MadeOf
      <4> QED
        BY <2>3, <2>4, <2>6, <4>1
    <3>3. Streaming(frames)'
      BY <1>1, <2>1, <2>6, <3>2, StillStreaming
    <3>4. incoming_size' <= 0
      BY <3>1
    <3>5. Reading(frames)'
      BY <1>1, <1>5, <2>2, <2>6, <3>1, <3>4 DEF Reading
    <3> QED
      BY <1>1, <2>1, <3>3, <3>5 DEF Intact, Begun
  <2> QED
    BY <1>2, <2>5, <2>6
<1>7. ASSUME Ended PROVE Ended'
  <2>1. /\ wire = <<>> /\ rec = "idle"
    BY <1>1, <1>7 DEF Ended
  <2>2. /\ wire' = <<>> /\ peer # "open" /\ AllZero(recbuffer')
        /\ incoming_size' = IF peer = "reset" THEN -1 ELSE 0
    BY <1>2, <2>1
  <2>3. rec' = rec /\ loc' = "top"
    BY <1>5, <2>2
  <2>4. Exact' = Exact /\ DamagedAtEndOnly' = DamagedAtEndOnly
        /\ AllZero(instruction') = AllZero(instruction)
    BY <1>1 DEF Exact, DamagedAtEndOnly, AllZero
  <2>5. rec_offset' \in Nat
    BY <1>1
  <2> QED
    BY <1>1, <1>7, <2>1, <2>2, <2>3, <2>4, <2>5 DEF Ended
<1> QED
  BY <1>1, <1>4, <1>6, <1>7 DEF StreamInv, SentWell

(* A round of the header loop while the stream goes on: cells are those    *)
(* read, the last one just now.                                            *)
LEMMA HeaderStep ==
    ASSUME TypeOK, SentWell, NEW frames \in Begun, Streaming(frames), Reading(frames),
           loc = "headers",
           NEW cells \in Seq(Cells), Len(cells) = Len(instruction) + 1, HeaderRead(cells),
           UNCHANGED <<peer, sent, delivered>>,
           peer = "reset" => wire' = <<>>,
           wire' \in Seq(Cells), recbuffer' \in [1..BUF -> Cells],
           incoming_size' \in 0..BUF, rec_offset' \in 0..incoming_size',
           Left(cells, recbuffer', rec_offset', incoming_size', wire') = Pending
    PROVE  /\ HeaderOutcome(cells) /\ Streaming(frames)' /\ Reading(frames)'
<1> DEFINE P == Pending
           m == P[1].m
           F == Source(frames, m)
           value == HeaderValue(cells)
           done == Len(delivered)
<1>1. HDR \in Nat \ {0} /\ BUF \in Nat /\ PING \in Nat /\ PING \notin Sizes /\ PING # 0
      /\ \A size \in Sizes : size \in Nat
  BY RecieverAssumption
<1>2. Len(instruction) < HDR /\ rec = "headers" /\ instruction \in Seq(Cells)
  BY DEF Reading, TypeOK
<1>3. Len(cells) <= HDR /\ Len(cells) \in Nat /\ Len(cells) >= 1
  BY <1>1, <1>2
<1>4. HeaderOutcome(cells)
  BY <1>2, <1>3, HeaderReadIs
<1>5. /\ Good(frames) /\ Len(frames) \in Nat /\ done \in Nat /\ Stream(frames, done, P)
      /\ P \in Seq(Cells)
  BY BegunAre, PendingIs, SMTT(40) DEF Streaming, TypeOK
<1>6. rec_offset' \in Nat /\ incoming_size' \in Int /\ incoming_size' <= BUF
      /\ incoming_size' >= 0 /\ incoming_size' # -1 /\ rec_offset' <= incoming_size'
      /\ 0 <= rec_offset'
  BY <1>1
<1>7. MadeOf(P, cells, recbuffer', rec_offset', incoming_size', wire')
  <2>1. MadeOf(Left(cells, recbuffer', rec_offset', incoming_size', wire'),
               cells, recbuffer', rec_offset', incoming_size', wire')
    BY <1>6, LeftIs
  <2> QED
    BY <2>1
<1>8. Pending' = Left(instruction', recbuffer', rec_offset', incoming_size', wire')
  BY DEF Pending, Left
<1> HIDE DEF P, done
<1>9. /\ Len(cells) <= Len(P) /\ \A i \in 1..Len(cells) : P[i] = cells[i]
  <2>1. Len(P) = Len(cells) + (incoming_size' - rec_offset') + Len(wire')
    BY <1>6, <1>7 DEF MadeOf
  <2> QED
    BY <1>3, <1>6, <1>7, <2>1 DEF MadeOf
<1>10. CASE Len(cells) < HDR
  <2>1. /\ instruction' = cells /\ total' = 0 /\ loc' = "headers" /\ rec' = "headers"
    BY <1>1, <1>3, <1>4, <1>10 DEF HeaderOutcome
  <2>2. Pending' = Pending
    BY <1>8, <2>1
  <2>3. Streaming(frames)'
    BY <2>2, StillStreaming
  <2>4. Reading(frames)'
    BY <1>6, <1>10, <2>1 DEF Reading
  <2> QED
    BY <1>4, <2>3, <2>4
<1>11. CASE Len(cells) = HDR
  <2>1. Len(P) >= HDR /\ \A k \in 1..HDR : cells[k] = P[k]
    BY <1>9, <1>11
  <2>2. \/ m = 0 /\ value = PING
        \/ /\ m \in 1..Len(frames) /\ value = Len(frames[m])
           /\ value \in Sizes /\ value > HDR
    BY <1>5, <2>1, HeaderIs
  <2>3. P[1] = cells[1] /\ P # <<>>
    BY <1>1, <1>3, <1>5, <1>9
  <2> HIDE DEF value, m
  <2>4. CASE m = 0 /\ value = PING
    <3>1. value # 0
      BY <1>1, <2>4
    <3>2. /\ instruction' = <<>> /\ total' = 0 /\ loc' = "top" /\ rec' = "headers"
      BY <1>1, <1>3, <1>4, <1>11, <2>4, <3>1 DEF HeaderOutcome, value
    <3>3. F = PingFrame /\ Len(F) = HDR
      BY <2>4, PingIs DEF Source
    <3>4. Pending' = SubSeq(P, Len(F) + 1, Len(P))
      <4>1. Pending' = Left(<<>>, recbuffer', rec_offset', incoming_size', wire')
        BY <1>8, <3>2
      <4>2. Left(<<>>, recbuffer', rec_offset', incoming_size', wire')
                = SubSeq(Left(cells, recbuffer', rec_offset', incoming_size', wire'),
                         Len(cells) + 1,
                         Len(Left(cells, recbuffer', rec_offset', incoming_size', wire')))
        BY <1>6, KeptGone
      <4>3. Left(cells, recbuffer', rec_offset', incoming_size', wire') = P
        BY DEF P
      <4> QED
        BY <1>11, <3>3, <4>1, <4>2, <4>3
    <3>5. Streaming(frames)'
      <4>1. Pending # <<>> /\ F = Source(frames, Pending[1].m) /\ Len(F) <= Len(Pending)
        BY <1>9, <1>11, <2>3, <3>3 DEF P, m
      <4>2. delivered' = IF Pending[1].m = 0 THEN delivered ELSE Append(delivered, F)
        BY <2>4 DEF P, m
      <4>3. Pending' = SubSeq(Pending, Len(F) + 1, Len(Pending))
        BY <3>4 DEF P
      <4> HIDE DEF F
      <4> QED
        BY <4>1, <4>2, <4>3, Pulled
    <3>6. Reading(frames)'
      BY <1>1, <1>6, <3>2 DEF Reading
    <3> QED
      BY <1>4, <3>5, <3>6
  <2>5. CASE /\ m \in 1..Len(frames) /\ value = Len(frames[m])
             /\ value \in Sizes /\ value > HDR
    <3>1. value \notin {0, PING} /\ ~(value < HDR) /\ value \in Nat
      BY <1>1, <2>5
    <3>2. /\ instruction' = cells /\ total' = value /\ loc' = "data" /\ rec' = "data"
      BY <1>1, <1>3, <1>4, <1>11, <3>1 DEF HeaderOutcome, value
    <3>3. Pending' = Pending
      BY <1>8, <3>2
    <3>4. Streaming(frames)'
      BY <3>3, StillStreaming
    <3>5. /\ instruction'[1].m # 0 /\ total' = Len(frames[instruction'[1].m])
          /\ HDR <= Len(instruction') /\ Len(instruction') < total'
      BY <1>1, <1>5, <1>11, <2>3, <2>5, <3>2, SMTT(40) DEF m
    <3>6. Reading(frames)'
      BY <1>6, <3>2, <3>5 DEF Reading
    <3> QED
      BY <1>4, <3>4, <3>6
  <2> QED
    BY <2>2, <2>4, <2>5
<1> QED
  BY <1>1, <1>3, <1>10, <1>11

(* A round of the header loop when there is nothing left to read: the      *)
(* header is filled up with a zero.                                        *)
LEMMA ZeroStep ==
    ASSUME TypeOK, loc = "headers", rec = "headers", Len(instruction) < HDR,
           NEW cells, cells = Append(instruction, ZERO), HeaderRead(cells),
           \/ Exact
           \/ peer = "reset" /\ AllZero(instruction) /\ DamagedAtEndOnly,
           peer = "closed" => Len(delivered) = Len(sent) /\ AllZero(instruction),
           UNCHANGED <<peer, sent, delivered>>,
           wire' = <<>>, peer # "open", AllZero(recbuffer'),
           incoming_size' = IF peer = "reset" THEN -1 ELSE 0,
           rec_offset' \in Nat, peer # "reset" => rec_offset' = 1
    PROVE  HeaderOutcome(cells) /\ Ended'
<1>1. HDR \in Nat \ {0} /\ instruction \in Seq(Cells) /\ Len(instruction) \in Nat
  BY RecieverAssumption DEF TypeOK
<1>2. cells \in Seq(Cells) /\ Len(cells) = Len(instruction) + 1 /\ Len(cells) <= HDR
      /\ Len(cells) \in Nat
  BY <1>1, CellsAre
<1>3. HeaderOutcome(cells)
  BY <1>2, HeaderReadIs
<1>4. ASSUME AllZero(instruction) PROVE AllZero(cells)
  <2>1. \A i \in 1..Len(instruction) : cells[i] = instruction[i]
    BY <1>1, CellsAre
  <2>2. cells[Len(instruction) + 1] = ZERO
    BY <1>1, CellsAre
  <2>3. \A i \in 1..Len(cells) : i \in 1..Len(instruction) \/ i = Len(instruction) + 1
    BY <1>1, <1>2
  <2> QED
    BY <1>4, <2>1, <2>2, <2>3 DEF AllZero
<1>5. ASSUME AllZero(instruction), Len(cells) = HDR PROVE HeaderValue(cells) = 0
  <2>1. \A k \in 1..HDR : cells[k].v = 0
    BY <1>4, <1>5 DEF AllZero, ZERO, Cell
  <2> QED
    BY <2>1, HeaderZero
<1>6. /\ Exact' = Exact /\ DamagedAtEndOnly' = DamagedAtEndOnly
      /\ Len(delivered') = Len(delivered) /\ Len(sent') = Len(sent)
  BY DEF Exact, DamagedAtEndOnly
<1>7. AllZero(<<>>)
  BY DEF AllZero
<1>8. CASE /\ Len(cells) < HDR
           /\ instruction' = cells /\ total' = 0 /\ loc' = "headers" /\ rec' = "headers"
  <2>1. AllZero(instruction) => AllZero(instruction')
    BY <1>4, <1>8
  <2> QED
    BY <1>3, <1>6, <1>8, <2>1 DEF Ended
<1>9. CASE /\ instruction' = <<>> /\ total' = 0 /\ loc' = "top" /\ rec' \in {"idle", "headers"}
  <2>1. AllZero(instruction')
    BY <1>7, <1>9
  <2> QED
    BY <1>3, <1>6, <1>9, <2>1 DEF Ended
<1>10. CASE /\ Len(cells) = HDR /\ HeaderValue(cells) \in Nat \ {0, PING}
            /\ instruction' = cells /\ total' = HeaderValue(cells)
            /\ \/ HeaderValue(cells) < HDR /\ loc' = "crashed" /\ rec' = "headers"
               \/ HeaderValue(cells) >= HDR /\ loc' = "data" /\ rec' = "data"
  <2>1. ~AllZero(instruction)
    BY <1>5, <1>10
  <2>2. Exact /\ peer # "closed"
    BY <2>1
  <2>3. rec_offset' >= 1 \/ peer = "reset"
    OBVIOUS
  <2> DEFINE value == HeaderValue(cells)
  <2>4. Len(instruction') = HDR /\ total' = value
    BY <1>10
  <2>5. \/ loc' = "crashed" /\ rec' = "headers"
        \/ value >= HDR /\ loc' = "data" /\ rec' = "data"
    BY <1>10
  <2>6. loc' = "data" => HDR <= total' /\ Len(instruction') <= total' /\ rec' = "data"
    <3>1. value \in Nat
      BY <1>10
    <3> HIDE DEF value
    <3> QED
      BY <1>1, <2>4, <2>5, <3>1
  <2>7. loc' \in {"crashed", "data"} /\ rec' \in {"headers", "data"}
    BY <2>5
  <2> HIDE DEF value
  <2> QED
    BY <1>3, <1>6, <2>2, <2>3, <2>4, <2>6, <2>7 DEF Ended
<1> QED
  BY <1>3, <1>8, <1>9, <1>10 DEF HeaderOutcome

(* What a round of the header loop leaves has its type.                    *)
LEMMA OutcomeTyped ==
    ASSUME TypeOK, NEW cells \in Seq(Cells), Len(cells) <= HDR, HeaderOutcome(cells)
    PROVE  /\ instruction' \in Seq(Cells) /\ total' \in Nat
           /\ Len(instruction') <= HDR + total'
           /\ loc' \in {"headers", "top", "crashed", "data"}
           /\ rec' \in {"idle", "headers", "data"}
<1>1. HDR \in Nat /\ <<>> \in Seq(Cells) /\ Len(<<>>) = 0 /\ Len(cells) \in Nat
  BY RecieverAssumption
<1>2. CASE instruction' = cells /\ total' \in Nat
  BY <1>1, <1>2 DEF HeaderOutcome
<1>3. CASE instruction' = <<>> /\ total' = 0
  BY <1>1, <1>3 DEF HeaderOutcome
<1> QED
  BY <1>1, <1>2, <1>3 DEF HeaderOutcome

LEMMA HeaderByteKeeps ==
    ASSUME StreamInv, HeaderByte
    PROVE  StreamInv'
<1> DEFINE cells == Append(instruction, recbuffer[rec_offset + 1])
<1>1. /\ loc = "headers" /\ ~UsedUp(rec_offset)
      /\ UNCHANGED <<peer, sent, pings, active, at_signal, wire, recbuffer, incoming_size,
                     disconnect, delivered>>
      /\ rec_offset >= BUF => Overrun
      /\ ~(rec_offset >= BUF) => HeaderRead(cells) /\ rec_offset' = rec_offset + 1
  BY DEF HeaderByte, peerVars, packetVars
<1>2. /\ HDR \in Nat \ {0} /\ BUF \in Nat /\ instruction \in Seq(Cells) /\ Len(instruction) \in Nat
      /\ rec_offset \in Nat /\ incoming_size \in -1..BUF /\ recbuffer \in [1..BUF -> Cells]
      /\ wire \in Seq(Cells)
  BY RecieverAssumption DEF StreamInv, TypeOK
<1>3. incoming_size = -1 \/ rec_offset < incoming_size
  BY <1>1, <1>2 DEF UsedUp
<1>4. rec = "headers" /\ Len(instruction) < HDR
  BY <1>1 DEF StreamInv, Intact, Ended, Reading
<1>5. ASSUME ~(rec_offset >= BUF)
      PROVE  /\ rec_offset + 1 \in 1..BUF /\ cells \in Seq(Cells)
             /\ Len(cells) = Len(instruction) + 1 /\ Len(cells) <= HDR
             /\ HeaderRead(cells) /\ rec_offset' = rec_offset + 1 /\ rec_offset' \in Nat
  <2>1. rec_offset + 1 \in 1..BUF
    BY <1>2, <1>5
  <2>2. recbuffer[rec_offset + 1] \in Cells
    BY <1>2, <2>1
  <2> QED
    BY <1>1, <1>2, <1>4, <1>5, <2>1, <2>2
<1>6. rec_offset >= BUF => loc' = "crashed" /\ UNCHANGED <<rec, instruction, total, rec_offset>>
  BY <1>1 DEF Overrun
<1> HIDE DEF cells
<1>7. TypeOK'
  <2>1. CASE rec_offset >= BUF
    BY <1>1, <1>6, <2>1 DEF StreamInv, TypeOK
  <2>2. CASE ~(rec_offset >= BUF)
    <3>1. HeaderOutcome(cells)
      BY <1>1, <1>4, <1>5, <2>2, HeaderReadIs
    <3>2. /\ instruction' \in Seq(Cells) /\ total' \in Nat
          /\ Len(instruction') <= HDR + total'
          /\ loc' \in {"headers", "top", "crashed", "data"}
          /\ rec' \in {"idle", "headers", "data"}
      BY <1>5, <2>2, <3>1, OutcomeTyped DEF StreamInv
    <3> QED
      BY <1>1, <1>5, <2>2, <3>2 DEF StreamInv, TypeOK
  <2> QED
    BY <2>1, <2>2
<1>8. ASSUME Intact PROVE Intact'
  <2>1. PICK frames \in Begun : Streaming(frames) /\ Reading(frames)
    BY <1>8 DEF Intact
  <2>2. incoming_size # -1
    BY <1>1, <1>2, <1>4, <2>1 DEF Reading
  <2>3. rec_offset < incoming_size /\ incoming_size \in 0..BUF /\ ~(rec_offset >= BUF)
    BY <1>2, <1>3, <2>2
  <2>4. Left(cells, recbuffer', rec_offset', incoming_size', wire') = Pending
    <3>1. Left(cells, recbuffer, rec_offset + 1, incoming_size, wire)
            = Left(instruction, recbuffer, rec_offset, incoming_size, wire)
      BY <1>2, <2>3, TakeOne DEF cells
    <3>2. Pending = Left(instruction, recbuffer, rec_offset, incoming_size, wire)
      BY DEF Pending, Left
    <3> QED
      BY <1>1, <1>5, <2>3, <3>1, <3>2
  <2>5. /\ peer = "reset" => wire' = <<>>
        /\ incoming_size' \in 0..BUF /\ rec_offset' \in 0..incoming_size'
    BY <1>1, <1>2, <1>5, <2>1, <2>3 DEF Streaming
  <2>6. Streaming(frames)' /\ Reading(frames)'
    BY <1>1, <1>2, <1>5, <2>1, <2>3, <2>4, <2>5, HeaderStep DEF StreamInv
  <2> QED
    BY <1>1, <2>1, <2>6 DEF Intact, Begun
<1>9. ASSUME Ended PROVE Ended'
  <2>1. /\ wire = <<>> /\ peer # "open" /\ AllZero(recbuffer)
        /\ incoming_size = IF peer = "reset" THEN -1 ELSE 0
        /\ \/ Exact
           \/ peer = "reset" /\ AllZero(instruction) /\ DamagedAtEndOnly
        /\ peer = "closed" => Len(delivered) = Len(sent) /\ AllZero(instruction)
    BY <1>9 DEF Ended
  <2>2. peer = "reset"
    BY <1>2, <1>3, <2>1
  <2>3. CASE rec_offset >= BUF
    <3>1. UNCHANGED <<peer, wire, sent, recbuffer, incoming_size, rec_offset, delivered,
                      instruction, total, rec>> /\ loc' = "crashed"
      BY <1>1, <1>6, <2>3
    <3>2. Exact' = Exact /\ DamagedAtEndOnly' = DamagedAtEndOnly
          /\ AllZero(instruction') = AllZero(instruction) /\ AllZero(recbuffer') = AllZero(recbuffer)
      BY <3>1 DEF Exact, DamagedAtEndOnly, AllZero
    <3> QED
      BY <1>9, <2>1, <2>2, <3>1, <3>2 DEF Ended
  <2>4. CASE ~(rec_offset >= BUF)
    <3>1. recbuffer[rec_offset + 1] = ZERO
      <4>1. Len(recbuffer) = BUF
        BY <1>2
      <4> QED
        BY <1>5, <2>1, <2>4, <4>1 DEF AllZero
    <3>2. cells = Append(instruction, ZERO)
      BY <3>1 DEF cells
    <3>3. /\ wire' = <<>> /\ AllZero(recbuffer')
          /\ incoming_size' = IF peer = "reset" THEN -1 ELSE 0
      BY <1>1, <2>1 DEF AllZero
    <3> QED
      BY <1>1, <1>4, <1>5, <2>1, <2>2, <2>4, <3>2, <3>3, ZeroStep DEF StreamInv
  <2> QED
    BY <2>3, <2>4
<1> QED
  BY <1>1, <1>7, <1>8, <1>9 DEF StreamInv, SentWell

(* When the peer has closed and nothing is left, all has been delivered.   *)
LEMMA NothingLeft ==
    ASSUME TypeOK, SentWell, Streaming(sent), sent \in Begun, peer # "reset",
           Len(Pending) < HDR
    PROVE  Pending = <<>> /\ Len(delivered) = Len(sent)
<1>1. /\ Good(sent) /\ Len(sent) \in Nat /\ Len(delivered) \in Nat
      /\ Pending \in Seq(Cells) /\ Len(Pending) \in Nat /\ HDR \in Nat
  BY BegunAre, PendingIs, RecieverAssumption, SMTT(40) DEF TypeOK
<1>2. /\ Stream(sent, Len(delivered), Pending)
      /\ AllThere(sent, Len(sent), Len(delivered), Pending)
      /\ Len(delivered) <= Len(sent)
  BY DEF Streaming, Exact
<1>3. ASSUME Pending # <<>> PROVE FALSE
  <2> DEFINE m == Pending[1].m
             a == Pending[1].k
             L == Len(Source(sent, m))
  <2>1. 1 \in 1..Len(Pending)
    BY <1>1, <1>3
  <2>2. m \in 0..Len(sent)
    BY <1>1, <1>2, <1>3, StreamHead
  <2>3. L >= HDR /\ L \in Nat
    BY <1>1, <2>2, SourceIs DEF IsFrame
  <2>4. a \in 1..L /\ a <= 1
    BY <1>2, <2>1 DEF Stream, InFrame
  <2>5. m <= Len(sent)
    BY <1>1, <2>2
  <2>6. Complete(sent, Pending, 1)
    BY <1>2, <2>1, <2>5 DEF AllThere
  <2>7. 1 - a + L <= Len(Pending)
    BY <2>6 DEF Complete
  <2> HIDE DEF a, L, m
  <2> QED
    BY <1>1, <2>3, <2>4, <2>7
<1>4. ASSUME Len(delivered) < Len(sent) PROVE FALSE
  <2>1. Len(sent) \in (Len(delivered) + 1)..Len(sent)
    BY <1>1, <1>4
  <2>2. PICK i \in 1..Len(Pending) : TRUE
    BY <1>2, <2>1 DEF AllThere
  <2> QED
    BY <1>3, <2>2
<1> QED
  BY <1>1, <1>2, <1>3, <1>4

LEMMA HeaderByteOfNextPacketKeeps ==
    ASSUME StreamInv, HeaderByteOfNextPacket
    PROVE  StreamInv'
<1> DEFINE cells == Append(instruction, recbuffer'[1])
<1>1. /\ loc = "headers" /\ UsedUp(rec_offset) /\ NextPacket /\ HeaderRead(cells)
      /\ rec_offset' = 1
      /\ UNCHANGED <<peer, sent, pings, active, at_signal, disconnect, delivered>>
  BY DEF HeaderByteOfNextPacket, peerVars
<1>2. /\ HDR \in Nat \ {0} /\ BUF \in Nat \ {0}
      /\ instruction \in Seq(Cells) /\ Len(instruction) \in Nat
      /\ rec_offset \in Nat /\ incoming_size \in -1..BUF /\ wire \in Seq(Cells)
  BY RecieverAssumption DEF StreamInv, TypeOK
<1>3. incoming_size # -1 /\ rec_offset >= incoming_size
  BY <1>1 DEF UsedUp
<1>4. rec = "headers" /\ Len(instruction) < HDR
  BY <1>1 DEF StreamInv, Intact, Ended, Reading
<1>5. /\ wire' \in Seq(Cells) /\ recbuffer' \in [1..BUF -> Cells]
      /\ incoming_size' \in -1..BUF
      /\ \/ /\ incoming_size' \in 1..BUF /\ wire # <<>>
            /\ \A kept \in Seq(Cells) :
                   Left(kept, recbuffer', 0, incoming_size', wire') = kept \o wire
         \/ /\ wire = <<>> /\ wire' = <<>> /\ peer # "open"
            /\ AllZero(recbuffer') /\ recbuffer'[1] = ZERO
            /\ incoming_size' = IF peer = "reset" THEN -1 ELSE 0
  BY <1>1, PacketIs DEF StreamInv
<1>6. /\ cells \in Seq(Cells) /\ Len(cells) = Len(instruction) + 1 /\ Len(cells) <= HDR
  <2>1. recbuffer'[1] \in Cells
    BY <1>2, <1>5
  <2> QED
    BY <1>2, <1>4, <2>1
<1> HIDE DEF cells
<1>7. TypeOK'
  <2>1. HeaderOutcome(cells)
    BY <1>1, <1>4, <1>6, HeaderReadIs
  <2>2. /\ instruction' \in Seq(Cells) /\ total' \in Nat
        /\ Len(instruction') <= HDR + total'
        /\ loc' \in {"headers", "top", "crashed", "data"}
        /\ rec' \in {"idle", "headers", "data"}
    BY <1>6, <2>1, OutcomeTyped DEF StreamInv
  <2> QED
    BY <1>1, <1>5, <2>2 DEF StreamInv, TypeOK
<1>8. ASSUME wire = <<>>, wire' = <<>>, peer # "open", AllZero(recbuffer'),
             recbuffer'[1] = ZERO, incoming_size' = IF peer = "reset" THEN -1 ELSE 0,
             Exact, peer = "closed" => Len(delivered) = Len(sent) /\ AllZero(instruction)
      PROVE  Ended'
  <2>1. cells = Append(instruction, ZERO)
    BY <1>8 DEF cells
  <2>2. rec_offset' \in Nat
    BY <1>1
  <2> QED
    BY <1>1, <1>4, <1>8, <2>1, <2>2, ZeroStep DEF StreamInv
<1>9. ASSUME Intact PROVE Intact' \/ Ended'
  <2>1. PICK frames \in Begun : Streaming(frames) /\ Reading(frames)
    BY <1>9 DEF Intact
  <2>2. Pending = instruction \o wire
    BY <1>3, PendingIs DEF StreamInv
  <2>3. CASE /\ incoming_size' \in 1..BUF /\ wire # <<>>
             /\ \A kept \in Seq(Cells) :
                    Left(kept, recbuffer', 0, incoming_size', wire') = kept \o wire
    <3>1. Left(instruction, recbuffer', 0, incoming_size', wire') = Pending
      BY <1>2, <2>2, <2>3
    <3>2. incoming_size' \in 0..BUF /\ 0 < incoming_size' /\ 0 \in Nat
      BY <1>2, <2>3
    <3>3. Left(Append(instruction, recbuffer'[0 + 1]), recbuffer', 0 + 1, incoming_size', wire')
            = Left(instruction, recbuffer', 0, incoming_size', wire')
      <4>1. \A packet \in [1..BUF -> Cells], to \in 0..BUF, cs \in Seq(Cells) :
              0 < to => Left(Append(instruction, packet[0 + 1]), packet, 0 + 1, to, cs)
                            = Left(instruction, packet, 0, to, cs)
        BY <1>2, <3>2, TakeOne
      <4> QED
        BY <1>5, <3>2, <4>1
    <3>4. 0 + 1 = 1
      OBVIOUS
    <3>5. Left(cells, recbuffer', rec_offset', incoming_size', wire') = Pending
      BY <1>1, <3>1, <3>3, <3>4 DEF cells
    <3>6. peer # "reset"
      BY <2>1, <2>3 DEF Streaming
    <3>7. rec_offset' \in 0..incoming_size'
      BY <1>1, <1>2, <2>3
    <3>8. Streaming(frames)' /\ Reading(frames)'
      BY <1>1, <1>5, <1>6, <2>1, <3>2, <3>5, <3>6, <3>7, HeaderStep DEF StreamInv
    <3> QED
      BY <1>1, <2>1, <3>8 DEF Intact, Begun
  <2>4. CASE /\ wire = <<>> /\ wire' = <<>> /\ peer # "open"
             /\ AllZero(recbuffer') /\ recbuffer'[1] = ZERO
             /\ incoming_size' = IF peer = "reset" THEN -1 ELSE 0
    <3>1. Pending = instruction
      BY <1>2, <2>2, <2>4
    <3>2. Exact
      BY <2>1 DEF Streaming
    <3>3. ASSUME peer = "closed" PROVE Len(delivered) = Len(sent) /\ AllZero(instruction)
      <4>1. frames = sent
        BY <2>1, <3>3, BegunAre DEF StreamInv
      <4>2. Pending = <<>> /\ Len(delivered) = Len(sent)
        BY <1>4, <2>1, <3>1, <3>3, <4>1, NothingLeft DEF StreamInv
      <4> QED
        BY <3>1, <4>2 DEF AllZero
    <3> QED
      BY <1>8, <2>4, <3>2, <3>3
  <2> QED
    BY <1>5, <2>3, <2>4
<1>10. ASSUME Ended PROVE Ended'
  <2>1. wire = <<>> /\ peer # "reset" /\ Exact
        /\ (peer = "closed" => Len(delivered) = Len(sent) /\ AllZero(instruction))
    BY <1>3, <1>10 DEF Ended
  <2> QED
    BY <1>5, <1>8, <2>1
<1> QED
  BY <1>1, <1>7, <1>9, <1>10 DEF StreamInv, SentWell

LEMMA DataFetchKeeps ==
    ASSUME StreamInv, DataFetch
    PROVE  StreamInv'
<1>1. /\ loc = "fetch" /\ NextPacket /\ rec_offset' = 0 /\ loc' = "data"
      /\ UNCHANGED <<peer, sent, pings, active, at_signal, rec, instruction, total, disconnect,
                     delivered>>
  BY DEF DataFetch, peerVars
<1>2. /\ wire' \in Seq(Cells) /\ recbuffer' \in [1..BUF -> Cells]
      /\ incoming_size' \in -1..BUF
      /\ \/ /\ incoming_size' \in 1..BUF /\ wire # <<>>
            /\ \A kept \in Seq(Cells) :
                   Left(kept, recbuffer', 0, incoming_size', wire') = kept \o wire
         \/ /\ wire = <<>> /\ wire' = <<>> /\ peer # "open"
            /\ AllZero(recbuffer') /\ recbuffer'[1] = ZERO
            /\ incoming_size' = IF peer = "reset" THEN -1 ELSE 0
  BY <1>1, PacketIs DEF StreamInv
<1>3. BUF \in Nat /\ instruction \in Seq(Cells) /\ rec_offset \in Nat /\ incoming_size \in -1..BUF
  BY RecieverAssumption DEF StreamInv, TypeOK
<1>4. TypeOK'
  BY <1>1, <1>2 DEF StreamInv, TypeOK
<1>5. ASSUME Intact PROVE Intact'
  <2>1. PICK frames \in Begun : Streaming(frames) /\ Reading(frames)
    BY <1>5 DEF Intact
  <2>2. /\ rec = "data" /\ HDR <= Len(instruction)
        /\ instruction[1].m # 0 /\ total = Len(frames[instruction[1].m])
        /\ Len(instruction) < total /\ rec_offset = incoming_size
    BY <1>1, <2>1 DEF Reading
  <2>3. Pending = instruction \o wire
    BY <1>3, <2>2, PendingIs DEF StreamInv
  <2>4. Pending' = Left(instruction, recbuffer', 0, incoming_size', wire')
    BY <1>1 DEF Pending, Left
  <2>5. CASE /\ incoming_size' \in 1..BUF /\ wire # <<>>
             /\ \A kept \in Seq(Cells) :
                    Left(kept, recbuffer', 0, incoming_size', wire') = kept \o wire
    <3>1. Pending' = Pending
      BY <1>3, <2>3, <2>4, <2>5
    <3>2. peer # "reset"
      BY <2>1, <2>5 DEF Streaming
    <3>3. Streaming(frames)'
      BY <1>1, <2>1, <3>1, <3>2, StillStreaming
    <3>4. incoming_size' >= 0 /\ incoming_size' # -1
      BY <1>3, <2>5
    <3>5. Reading(frames)'
      BY <1>1, <2>2, <3>4 DEF Reading
    <3> QED
      BY <1>1, <2>1, <3>3, <3>5 DEF Intact, Begun
  <2>6. CASE /\ wire = <<>> /\ wire' = <<>> /\ peer # "open"
             /\ AllZero(recbuffer') /\ recbuffer'[1] = ZERO
             /\ incoming_size' = IF peer = "reset" THEN -1 ELSE 0
    <3>1. incoming_size' \in {-1, 0} /\ (incoming_size' = -1 => peer = "reset")
      BY <2>6
    <3>2. Pending' = Pending
      <4>1. Left(instruction, recbuffer', 0, incoming_size', wire') = instruction \o wire'
        <5>1. incoming_size' \in Int /\ incoming_size' <= BUF /\ 0 >= incoming_size' /\ 0 \in Nat
          BY <1>3, <3>1
        <5>2. MadeOf(Left(instruction, recbuffer', 0, incoming_size', wire'),
                     instruction, recbuffer', 0, incoming_size', wire')
          BY <1>2, <1>3, <5>1, LeftIs
        <5> QED
          BY <5>1, <5>2 DEF MadeOf
      <4> QED
        BY <2>3, <2>4, <2>6, <4>1
    <3>3. Streaming(frames)'
      BY <1>1, <2>1, <2>6, <3>2, StillStreaming
    <3>4. incoming_size' = -1 \/ incoming_size' >= 0
      BY <3>1
    <3>5. Reading(frames)'
      BY <1>1, <2>2, <2>6, <3>1, <3>4 DEF Reading
    <3> QED
      BY <1>1, <2>1, <3>3, <3>5 DEF Intact, Begun
  <2> QED
    BY <1>2, <2>5, <2>6
<1>6. ASSUME Ended PROVE Ended'
  <2>1. wire = <<>> /\ peer = "reset" /\ rec = "data" /\ Len(instruction) <= total
    BY <1>1, <1>6 DEF Ended
  <2>2. /\ wire' = <<>> /\ peer # "open" /\ AllZero(recbuffer') /\ incoming_size' = -1
    BY <1>2, <2>1
  <2>3. Exact' = Exact
    BY <1>1 DEF Exact
  <2>4. rec_offset' \in Nat /\ Exact
    BY <1>1, <1>6 DEF Ended
  <2> QED
    BY <1>1, <2>1, <2>2, <2>3, <2>4 DEF Ended
<1> QED
  BY <1>1, <1>4, <1>5, <1>6 DEF StreamInv, SentWell

LEMMA DataCopyKeeps ==
    ASSUME StreamInv, DataCopy
    PROVE  StreamInv'
<1> DEFINE left == total - Len(instruction)
           n == IF UsedUp(rec_offset + left - 1) THEN incoming_size - rec_offset ELSE left
<1>1. /\ loc = "data"
      /\ UNCHANGED <<peer, sent, pings, active, at_signal, wire, recbuffer, incoming_size,
                     disconnect, delivered>>
      /\ IF n < 0 \/ rec_offset + n > BUF THEN Overrun
         ELSE /\ instruction' = instruction \o SubSeq(recbuffer, rec_offset + 1, rec_offset + n)
              /\ rec_offset' = rec_offset + n
              /\ loc' = IF n < left THEN "fetch" ELSE "parse"
              /\ UNCHANGED <<rec, total>>
  BY DEF DataCopy, peerVars, packetVars
<1>2. /\ HDR \in Nat \ {0} /\ BUF \in Nat \ {0}
      /\ instruction \in Seq(Cells) /\ Len(instruction) \in Nat /\ total \in Nat
      /\ rec_offset \in Nat /\ incoming_size \in -1..BUF /\ wire \in Seq(Cells)
      /\ recbuffer \in [1..BUF -> Cells]
  BY RecieverAssumption DEF StreamInv, TypeOK
<1>3. left \in Int /\ Len(instruction) + left = total
  BY <1>2
<1>4. /\ n \in Int /\ n <= left
      /\ incoming_size = -1 => n = left
      /\ incoming_size # -1 /\ rec_offset + left > incoming_size
            => n = incoming_size - rec_offset /\ n < left
      /\ incoming_size # -1 /\ rec_offset + left <= incoming_size => n = left
  <2> HIDE DEF left
  <2>1. CASE incoming_size # -1 /\ rec_offset + left > incoming_size
    <3>1. rec_offset + left - 1 >= incoming_size
      BY <1>2, <1>3, <2>1
    <3>2. n = incoming_size - rec_offset
      BY <2>1, <3>1 DEF UsedUp
    <3> HIDE DEF n
    <3> QED
      BY <1>2, <1>3, <2>1, <3>2
  <2>2. CASE ~(incoming_size # -1 /\ rec_offset + left > incoming_size)
    <3>1. ~UsedUp(rec_offset + left - 1)
      BY <1>2, <1>3, <2>2 DEF UsedUp
    <3>2. n = left
      BY <3>1
    <3> HIDE DEF n
    <3> QED
      BY <1>2, <1>3, <2>2, <3>2
  <2> QED
    BY <2>1, <2>2
<1>5. Len(instruction) <= total => left >= 0
  BY <1>2
<1> HIDE DEF left, n
<1>6. ASSUME n < 0 \/ rec_offset + n > BUF
      PROVE  /\ loc' = "crashed" /\ UNCHANGED <<rec, instruction, total, rec_offset>>
             /\ Pending' = Pending
  <2>1. loc' = "crashed" /\ UNCHANGED <<rec, instruction, total, rec_offset>>
    BY <1>1, <1>6 DEF Overrun
  <2> QED
    BY <1>1, <2>1 DEF Pending
<1>7. ASSUME ~(n < 0 \/ rec_offset + n > BUF)
      PROVE  /\ n \in Nat /\ rec_offset + n \in Nat /\ rec_offset + n <= BUF
             /\ instruction' = instruction \o SubSeq(recbuffer, rec_offset + 1, rec_offset + n)
             /\ instruction' \in Seq(Cells) /\ Len(instruction') = Len(instruction) + n
             /\ \A i \in 1..Len(instruction) : instruction'[i] = instruction[i]
             /\ rec_offset' = rec_offset + n
             /\ n < left => loc' = "fetch"
             /\ n = left => loc' = "parse"
             /\ loc' \in {"fetch", "parse"}
             /\ UNCHANGED <<rec, total>>
  <2> DEFINE slice == SubSeq(recbuffer, rec_offset + 1, rec_offset + n)
  <2>1. n \in Nat /\ rec_offset + n \in Nat /\ rec_offset + n <= BUF
    BY <1>2, <1>4, <1>7
  <2>2. slice \in Seq(Cells) /\ Len(slice) = n
    <3>1. rec_offset + n \in Int /\ rec_offset <= rec_offset + n
          /\ (rec_offset + n) - rec_offset = n
      BY <1>2, <2>1
    <3>2. slice \in Seq(Cells)
          /\ Len(slice) = IF rec_offset <= rec_offset + n THEN (rec_offset + n) - rec_offset ELSE 0
      BY <1>2, <2>1, <3>1, SliceIs
    <3> HIDE DEF slice
    <3> QED
      BY <3>1, <3>2
  <2>3. /\ instruction' = instruction \o slice /\ rec_offset' = rec_offset + n
        /\ loc' = IF n < left THEN "fetch" ELSE "parse"
        /\ UNCHANGED <<rec, total>>
    BY <1>1, <1>7
  <2> HIDE DEF slice
  <2>4. /\ instruction' \in Seq(Cells) /\ Len(instruction') = Len(instruction) + n
        /\ \A i \in 1..Len(instruction) : instruction'[i] = instruction[i]
    BY <1>2, <2>2, <2>3, Joined
  <2>5. (n < left => loc' = "fetch") /\ (n = left => loc' = "parse") /\ loc' \in {"fetch", "parse"}
    BY <1>3, <2>1, <2>3
  <2> QED
    BY <2>1, <2>3, <2>4, <2>5 DEF slice
<1>8. TypeOK'
  <2>1. CASE n < 0 \/ rec_offset + n > BUF
    BY <1>1, <1>6, <2>1 DEF StreamInv, TypeOK
  <2>2. CASE ~(n < 0 \/ rec_offset + n > BUF)
    <3>1. Len(instruction') <= HDR + total'
      BY <1>2, <1>3, <1>4, <1>7, <2>2, SMTT(40)
    <3> QED
      BY <1>1, <1>7, <2>2, <3>1 DEF StreamInv, TypeOK
  <2> QED
    BY <2>1, <2>2
<1>9. ASSUME peer = "reset", wire = <<>>, incoming_size = -1, AllZero(recbuffer), Exact,
             rec = "data"
      PROVE  Ended'
  <2>1. wire' = <<>> /\ peer' = "reset" /\ incoming_size' = -1 /\ AllZero(recbuffer') /\ Exact'
    BY <1>1, <1>9 DEF AllZero, Exact
  <2>2. CASE n < 0 \/ rec_offset + n > BUF
    BY <1>2, <1>6, <1>9, <2>1, <2>2 DEF Ended
  <2>3. CASE ~(n < 0 \/ rec_offset + n > BUF)
    <3>1. Len(instruction') <= total'
      BY <1>2, <1>3, <1>4, <1>7, <2>3
    <3> QED
      BY <1>7, <1>9, <2>1, <2>3, <3>1 DEF Ended
  <2> QED
    BY <2>2, <2>3
<1>10. ASSUME Intact PROVE Intact' \/ Ended'
  <2>1. PICK frames \in Begun : Streaming(frames) /\ Reading(frames)
    BY <1>10 DEF Intact
  <2>2. /\ rec = "data" /\ HDR <= Len(instruction)
        /\ instruction[1].m # 0 /\ total = Len(frames[instruction[1].m])
        /\ Len(instruction) < total
    BY <1>1, <2>1 DEF Reading
  <2>3. CASE incoming_size = -1
    BY <1>9, <2>1, <2>2, <2>3 DEF Reading, Streaming
  <2>4. CASE incoming_size # -1
    <3>1. incoming_size \in 0..BUF /\ rec_offset <= incoming_size
      BY <1>2, <2>1, <2>4 DEF Reading
    <3>2. left > 0
      BY <1>2, <1>3, <2>2
    <3>3. /\ ~(n < 0 \/ rec_offset + n > BUF) /\ rec_offset + n <= incoming_size
          /\ n < left => rec_offset + n = incoming_size
      BY <1>2, <1>3, <1>4, <3>1, <3>2
    <3>4. Pending' = Pending
      <4>1. Left(instruction \o SubSeq(recbuffer, rec_offset + 1, rec_offset + n), recbuffer,
                 rec_offset + n, incoming_size, wire)
                = Left(instruction, recbuffer, rec_offset, incoming_size, wire)
        <5>1. n \in Nat /\ rec_offset + n <= incoming_size
          BY <1>7, <3>3
        <5>2. Taken(instruction, recbuffer, rec_offset, incoming_size, wire, n)
          BY <1>2, <3>1, <5>1, Take
        <5> QED
          BY <5>2 DEF Taken
      <4>2. Pending = Left(instruction, recbuffer, rec_offset, incoming_size, wire)
        BY DEF Pending, Left
      <4>3. Pending' = Left(instruction', recbuffer', rec_offset', incoming_size', wire')
        BY DEF Pending, Left
      <4> QED
        BY <1>1, <1>7, <3>3, <4>1, <4>2, <4>3
    <3>5. Streaming(frames)'
      BY <1>1, <2>1, <3>4, StillStreaming DEF Streaming
    <3>6. /\ instruction'[1] = instruction[1] /\ HDR <= Len(instruction')
          /\ loc' = "fetch" => Len(instruction') < total' /\ rec_offset' = incoming_size'
          /\ loc' = "parse" => Len(instruction') = total'
          /\ loc' \in {"fetch", "parse"} /\ rec' = rec /\ total' = total
      <4>1. 1 \in 1..Len(instruction)
        BY <1>2, <2>2
      <4>2. instruction'[1] = instruction[1]
        BY <1>7, <3>3, <4>1
      <4>3. n < left \/ n = left
        BY <1>3, <1>4
      <4>4. HDR <= Len(instruction')
        BY <1>2, <1>7, <2>2, <3>3
      <4>5. CASE n < left
        <5>1. Len(instruction') < total'
          BY <1>2, <1>3, <1>7, <3>3, <4>5
        <5> QED
          BY <1>1, <1>7, <3>3, <4>2, <4>4, <4>5, <5>1
      <4>6. CASE n = left
        <5>1. loc' = "parse" /\ rec' = rec /\ total' = total
          BY <1>7, <3>3, <4>6
        <5>2. Len(instruction') = total'
          BY <1>2, <1>3, <1>7, <3>3, <4>6, <5>1
        <5> QED
          BY <4>2, <4>4, <5>1, <5>2
      <4> QED
        BY <4>3, <4>5, <4>6
    <3>7. 0 <= rec_offset' /\ rec_offset' <= incoming_size' /\ incoming_size' # -1
          /\ incoming_size' >= 0
      BY <1>1, <1>2, <1>7, <2>4, <3>1, <3>3
    <3>8. Reading(frames)'
      BY <2>2, <3>6, <3>7 DEF Reading
    <3> QED
      BY <1>1, <2>1, <3>5, <3>8 DEF Intact, Begun
  <2> QED
    BY <2>3, <2>4
<1>11. ASSUME Ended PROVE Ended'
  <2>1. wire = <<>> /\ peer # "open" /\ AllZero(recbuffer) /\ Exact /\ rec = "data"
        /\ incoming_size = IF peer = "reset" THEN -1 ELSE 0
    BY <1>1, <1>11 DEF Ended
  <2>2. CASE peer = "reset"
    BY <1>9, <2>1, <2>2
  <2>3. CASE peer # "reset"
    <3>1. HDR <= total /\ Len(instruction) = HDR /\ rec_offset = 1 /\ incoming_size = 0
          /\ peer # "closed"
      BY <1>1, <1>11, <2>3 DEF Ended
    <3>2. left >= 0
      BY <1>2, <1>5, <3>1
    <3>3. n < 0
      BY <1>2, <1>3, <1>4, <3>1, <3>2
    <3>4. Exact' /\ AllZero(recbuffer')
      BY <1>1, <2>1 DEF Exact, AllZero
    <3> QED
      BY <1>1, <1>6, <2>1, <2>3, <3>1, <3>3, <3>4 DEF Ended
  <2> QED
    BY <2>2, <2>3
<1> QED
  BY <1>1, <1>8, <1>10, <1>11 DEF StreamInv, SentWell

-----------------------------------------------------------------------------
LEMMA StreamInit == Init => StreamInv
<1> SUFFICES ASSUME Init PROVE StreamInv
  OBVIOUS
<1>1. /\ wire = <<>> /\ peer = "open" /\ sent = <<>> /\ pings = 0 /\ active = TRUE /\ at_signal = 0
      /\ loc = "top" /\ rec = "idle" /\ recbuffer = [i \in 1..BUF |-> ZERO]
      /\ incoming_size = 0 /\ rec_offset = 0 /\ instruction = <<>> /\ total = 0
      /\ disconnect = FALSE /\ delivered = <<>>
  BY DEF Init
<1>2. HDR \in Nat /\ BUF \in Nat /\ MaxSent \in Nat /\ MaxPings \in Nat
  BY RecieverAssumption
<1>3. recbuffer \in [1..BUF -> Cells]
  BY <1>1, CellsAre
<1>4. TypeOK
  <2>1. /\ wire \in Seq(Cells) /\ instruction \in Seq(Cells) /\ Len(instruction) = 0
        /\ delivered \in Seq(Seq(Cells))
    BY <1>1
  <2>2. sent \in Seq(Frames) /\ Len(sent) = 0
    BY <1>1
  <2>3. Len(sent) <= MaxSent /\ Len(instruction) <= HDR + total /\ pings \in 0..MaxPings
        /\ incoming_size \in -1..BUF /\ total \in Nat /\ rec_offset \in Nat /\ at_signal \in Nat
    BY <1>1, <1>2, <2>1, <2>2
  <2>4. active \in BOOLEAN /\ disconnect \in BOOLEAN
    BY <1>1
  <2> QED
    BY <1>1, <1>3, <2>1, <2>2, <2>3, <2>4 DEF TypeOK
<1>5. SentWell
  BY <1>1 DEF SentWell
<1>6. Pending = <<>>
  <2>1. rec_offset >= incoming_size /\ <<>> \o <<>> = <<>>
    BY <1>1
  <2> QED
    BY <1>1, <1>4, <2>1, PendingIs
<1>7. Streaming(sent)
  BY <1>1, <1>6 DEF Streaming, Stream, AllThere, Exact
<1>8. Reading(sent)
  BY <1>1 DEF Reading
<1>9. sent \in Begun
  BY DEF Begun
<1> QED
  BY <1>4, <1>5, <1>7, <1>8, <1>9 DEF StreamInv, Intact

LEMMA StutterKeeps ==
    ASSUME StreamInv, UNCHANGED vars
    PROVE  StreamInv'
<1>1. /\ UNCHANGED <<wire, peer, sent, pings, active, at_signal, loc, rec, recbuffer,
                     incoming_size, rec_offset, instruction, total, disconnect, delivered>>
      /\ UNCHANGED recVars
  BY DEF vars, peerVars, recVars
<1>2. Pending' = Pending
  BY <1>1 DEF Pending
<1>3. TypeOK' /\ SentWell'
  BY <1>1 DEF StreamInv, TypeOK, SentWell
<1>4. ASSUME Intact PROVE Intact'
  <2>1. PICK frames \in Begun : Streaming(frames) /\ Reading(frames)
    BY <1>4 DEF Intact
  <2>2. Streaming(frames)'
    BY <1>1, <1>2, <2>1, StillStreaming DEF Streaming
  <2>3. Reading(frames)'
    BY <1>1, <2>1 DEF Reading, PeerFaultless, AllZero
  <2> QED
    BY <1>1, <2>1, <2>2, <2>3 DEF Intact, Begun
<1>5. ASSUME Ended PROVE Ended'
  BY <1>1, <1>5 DEF Ended, AllZero, Exact, DamagedAtEndOnly
<1> QED
  BY <1>3, <1>4, <1>5 DEF StreamInv

(* The thread's place and what is pending always fit together: a reader    *)
(* in step with the stream, or one that has run out of it.                 *)
THEOREM StreamInvariant == Spec => []StreamInv
<1>1. StreamInv /\ [Next]_vars => StreamInv'
  BY SendInstructionKeeps, SendPingKeeps, PeerLeavesKeeps, DeactivateKeeps, LoopTopKeeps,
     IdleKeeps, HeaderByteKeeps, HeaderByteOfNextPacketKeeps, DataCopyKeeps, DataFetchKeeps,
     ParseKeeps, AddInstructionKeeps, StutterKeeps
  DEF Next, Peer, Server, Thread
<1> QED
  BY <1>1, StreamInit, PTL DEF Spec

(* The variables of a connection have their types: the fields of a         *)
(* wimp_reciever state, wimp_reciever.c 186-215.                           *)
THEOREM TypeCorrect == Spec => []TypeOK
<1>1. StreamInv => TypeOK
  BY DEF StreamInv
<1> QED
  BY <1>1, StreamInvariant, PTL

(* A peer that dies or resets the connection can damage no instruction but *)
(* the last one the thread adds, wherever in the stream that happens.      *)
THEOREM DamageIsLast == Spec => []DamagedAtEndOnly
<1>1. StreamInv => DamagedAtEndOnly
  <2> SUFFICES ASSUME StreamInv PROVE DamagedAtEndOnly
    OBVIOUS
  <2>1. Exact \/ DamagedAtEndOnly
    BY DEF StreamInv, Intact, Streaming, Ended
  <2>2. ASSUME Exact PROVE DamagedAtEndOnly
    <3>1. /\ Len(delivered) \in Nat /\ Len(sent) \in Nat /\ Len(delivered) <= Len(sent)
          /\ \A i \in 1..Len(delivered) : delivered[i] = sent[i]
      BY <2>2 DEF Exact, StreamInv, TypeOK
    <3>2. \A i \in 1..(Len(delivered) - 1) : i \in 1..Len(delivered) /\ i <= Len(sent)
      BY <3>1
    <3> QED
      BY <3>1, <3>2 DEF DamagedAtEndOnly
  <2> QED
    BY <2>1, <2>2
<1> QED
  BY <1>1, StreamInvariant, PTL

(* While the peer is there, or after it has left between two instructions, *)
(* the thread touches no memory that is not its own, if no total size is a *)
(* multiple of 256, the sizes wimp_instr_get_from_buffer misreads.         *)
THEOREM FaultlessPeerIsSafe ==
    ASSUME \A size \in Sizes : size % BASE # 0
    PROVE  Spec => []NeverCrashes
<1>1. StreamInv => NeverCrashes
  BY DEF StreamInv, Intact, Reading, Ended, NeverCrashes, PeerFaultless
<1> QED
  BY <1>1, StreamInvariant, PTL

(* The instructions on their way are a queue.                              *)
LEMMA InFlightIs ==
    ASSUME TypeOK, Len(delivered) <= Len(sent)
    PROVE  /\ InFlight \in Seq(Frames)
           /\ Len(InFlight) = Len(sent) - Len(delivered)
           /\ \A i \in 1..Len(InFlight) : InFlight[i] = sent[Len(delivered) + i]
<1>1. sent \in Seq(Frames) /\ Len(sent) \in Nat /\ Len(delivered) \in Nat
  BY DEF TypeOK
<1>2. Len(sent) \in Len(delivered)..Len(sent) /\ Len(delivered) + 1 >= 1
  BY <1>1
<1> QED
  BY <1>1, <1>2 DEF InFlight

(* What is added while the peer is faultless is what was sent next.        *)
LEMMA AddedIsNext ==
    ASSUME StreamInv, PeerFaultless, loc = "add"
    PROVE  /\ instruction = sent[Len(delivered) + 1]
           /\ Len(delivered) < Len(sent)
<1>1. peer \in {"open", "closed"}
  BY DEF PeerFaultless
<1>2. ~Ended
  BY <1>1 DEF Ended
<1>3. PICK frames \in Begun : Streaming(frames) /\ Reading(frames)
  BY <1>2 DEF StreamInv, Intact
<1>4. frames = sent /\ Good(frames) /\ Len(sent) \in Nat
  BY <1>1, <1>3, BegunAre DEF StreamInv
<1>5. /\ Pending # <<>> /\ Pending[1].m # 0 /\ instruction = Source(frames, Pending[1].m)
  BY <1>3, InstructionIs DEF StreamInv
<1>6. Len(delivered) \in Nat /\ Pending \in Seq(Cells)
  BY PendingIs DEF StreamInv, TypeOK
<1>7. Pending[1].m = Len(delivered) + 1 /\ Len(delivered) + 1 <= Len(frames)
  BY <1>3, <1>4, <1>5, <1>6, StreamHead DEF Streaming
<1>8. Len(delivered) < Len(sent)
  BY <1>4, <1>6, <1>7
<1> QED
  BY <1>4, <1>5, <1>7, <1>8 DEF Source

(* A connection delivers what was sent: once each, whole and in order, as  *)
(* long as the peer does not die or reset it: however TCP cuts the stream  *)
(* up, wherever the pings fall, and for every header and buffer size.      *)
THEOREM InOrder == Spec => DeliversInOrder
<1>1. Init => Connection!FifoInit
  <2>1. Init => sent = <<>> /\ delivered = <<>> /\ TypeOK
    BY StreamInit DEF Init, StreamInv
  <2>2. ASSUME sent = <<>>, delivered = <<>> PROVE InFlight = <<>>
    BY <2>2 DEF InFlight
  <2> QED
    BY <2>1, <2>2 DEF Connection!FifoInit
<1>2. StreamInv /\ [Next]_vars
        => [PeerFaultless' => Connection!FifoNext]_<<InFlight, delivered>>
  <2> SUFFICES ASSUME StreamInv, [Next]_vars, PeerFaultless'
               PROVE  Connection!FifoNext \/ UNCHANGED <<InFlight, delivered>>
    OBVIOUS
  <2>1. CASE SendInstruction
    <3>1. PICK size \in Sizes, data \in {1, 2} :
            /\ peer = "open" /\ Len(sent) < MaxSent
            /\ sent' = Append(sent, Frame(Len(sent) + 1, size, data))
            /\ delivered' = delivered
      BY <2>1 DEF SendInstruction, NextFrame, recVars
    <3> DEFINE F == Frame(Len(sent) + 1, size, data)
    <3>2. /\ Len(delivered) \in 0..Len(sent) /\ Len(sent) \in Nat /\ sent \in Seq(Frames)
          /\ Len(delivered) \in Nat /\ MaxSent \in Nat
      BY <3>1, OpenIs, RecieverAssumption DEF StreamInv, TypeOK
    <3>3. F \in Frames
      <4>1. Len(sent) + 1 \in 1..MaxSent
        BY <3>1, <3>2
      <4> QED
        BY <4>1 DEF Frames
    <3> HIDE DEF F
    <3>4. sent' = Append(sent, F)
      BY <3>1 DEF F
    <3>5. /\ Len(sent') = Len(sent) + 1 /\ sent' \in Seq(Frames)
          /\ \A i \in 1..Len(sent) : sent'[i] = sent[i]
          /\ sent'[Len(sent) + 1] = F
      BY <3>2, <3>3, <3>4
    <3>6. /\ InFlight \in Seq(Frames) /\ Len(InFlight) = Len(sent) - Len(delivered)
          /\ \A i \in 1..Len(InFlight) : InFlight[i] = sent[Len(delivered) + i]
      BY <3>2, InFlightIs DEF StreamInv
    <3>7. /\ InFlight' \in Seq(Frames) /\ Len(InFlight') = Len(sent) + 1 - Len(delivered)
          /\ \A i \in 1..Len(InFlight') : InFlight'[i] = sent'[Len(delivered) + i]
      <4>1. Len(delivered) + 1 >= 1 /\ Len(sent') \in Nat
        BY <3>2, <3>5
      <4> QED
        BY <3>1, <3>2, <3>5, <4>1 DEF InFlight
    <3>8. InFlight' = Append(InFlight, F)
      <4> DEFINE more == Append(InFlight, F)
      <4>1. /\ more \in Seq(Frames) /\ Len(more) = Len(InFlight) + 1
            /\ \A i \in 1..Len(InFlight) : more[i] = InFlight[i]
            /\ more[Len(InFlight) + 1] = F
        BY <3>3, <3>6
      <4> HIDE DEF more
      <4>2. Len(InFlight') = Len(more)
        BY <3>2, <3>6, <3>7, <4>1
      <4>3. ASSUME NEW i \in 1..Len(InFlight') PROVE InFlight'[i] = more[i]
        <5>1. CASE i = Len(InFlight) + 1
          <6>1. Len(delivered) + i = Len(sent) + 1
            BY <3>2, <3>6, <5>1
          <6> QED
            BY <3>5, <3>7, <4>1, <4>3, <5>1, <6>1
        <5>2. CASE i # Len(InFlight) + 1
          <6>1. i \in 1..Len(InFlight) /\ Len(delivered) + i \in 1..Len(sent)
            <7> DEFINE x == Len(delivered)
                       y == Len(sent)
                       z == Len(InFlight)
            <7>1. x \in Nat /\ y \in Nat /\ x <= y /\ z = y - x
              BY <3>2, <3>6
            <7>2. i \in 1..(y + 1 - x) /\ i # z + 1
              BY <3>7, <5>2
            <7> HIDE DEF x, y, z
            <7>3. i \in 1..z /\ x + i \in 1..y
              BY <7>1, <7>2
            <7> QED
              BY <7>3 DEF x, y, z
          <6>2. InFlight'[i] = sent[Len(delivered) + i]
            BY <3>5, <3>7, <6>1
          <6>3. more[i] = sent[Len(delivered) + i]
            BY <3>6, <4>1, <6>1
          <6> QED
            BY <6>2, <6>3
        <5> QED
          BY <5>1, <5>2
      <4>4. InFlight' = more
        BY <3>7, <4>1, <4>2, <4>3, SeqEqual
      <4> QED
        BY <4>4 DEF more
    <3> QED
      BY <3>1, <3>3, <3>8 DEF Connection!FifoNext, Connection!Put
  <2>2. CASE AddInstruction
    <3>1. /\ loc = "add" /\ sent' = sent /\ peer' = peer
          /\ delivered' = Append(delivered, instruction)
      BY <2>2 DEF AddInstruction, peerVars
    <3>2. PeerFaultless
      BY <3>1 DEF PeerFaultless
    <3>3. /\ instruction = sent[Len(delivered) + 1] /\ Len(delivered) < Len(sent)
      BY <3>1, <3>2, AddedIsNext
    <3>4. /\ Len(sent) \in Nat /\ sent \in Seq(Frames) /\ Len(delivered) \in Nat
          /\ delivered \in Seq(Seq(Cells)) /\ instruction \in Seq(Cells)
      BY DEF StreamInv, TypeOK
    <3>5. /\ InFlight \in Seq(Frames) /\ Len(InFlight) = Len(sent) - Len(delivered)
          /\ \A i \in 1..Len(InFlight) : InFlight[i] = sent[Len(delivered) + i]
      BY <3>3, <3>4, InFlightIs DEF StreamInv
    <3>6. InFlight # <<>> /\ Head(InFlight) = instruction
      <4>1. 1 \in 1..Len(InFlight)
        BY <3>3, <3>4, <3>5
      <4> QED
        BY <3>3, <3>5, <4>1
    <3>7. InFlight' = Tail(InFlight)
      <4>1. Len(delivered') = Len(delivered) + 1
        BY <3>1, <3>4
      <4>2. InFlight' = SubSeq(sent, Len(delivered) + 2, Len(sent))
        BY <3>1, <3>4, <4>1 DEF InFlight
      <4> DEFINE less == SubSeq(sent, Len(delivered) + 2, Len(sent))
                 rest == Tail(InFlight)
      <4>3. /\ less \in Seq(Frames) /\ Len(less) = Len(sent) - (Len(delivered) + 1)
            /\ \A i \in 1..Len(less) : less[i] = sent[Len(delivered) + 1 + i]
        <5>1. Len(delivered) + 2 >= 1 /\ Len(delivered) + 1 <= Len(sent)
          BY <3>3, <3>4
        <5> QED
          BY <3>4, <5>1
      <4>4. /\ rest \in Seq(Frames) /\ Len(rest) = Len(InFlight) - 1
            /\ \A i \in 1..Len(rest) : rest[i] = InFlight[i + 1]
        BY <3>5, <3>6
      <4> HIDE DEF less, rest
      <4>5. Len(less) = Len(rest)
        BY <3>4, <3>5, <4>3, <4>4
      <4>6. ASSUME NEW i \in 1..Len(less) PROVE less[i] = rest[i]
        <5>1. i + 1 \in 1..Len(InFlight) /\ i \in 1..Len(rest)
              /\ Len(delivered) + (i + 1) = Len(delivered) + 1 + i
          BY <3>4, <3>5, <4>3, <4>4
        <5> QED
          BY <3>5, <4>3, <4>4, <5>1
      <4>7. less = rest
        BY <4>3, <4>4, <4>5, <4>6, SeqEqual
      <4> QED
        BY <4>2, <4>7 DEF less, rest
    <3> QED
      BY <3>1, <3>6, <3>7 DEF Connection!FifoNext, Connection!Take
  <2>3. ASSUME UNCHANGED <<sent, delivered>> PROVE UNCHANGED <<InFlight, delivered>>
    BY <2>3 DEF InFlight
  <2>4. CASE SendPing \/ PeerLeaves \/ Deactivate
    BY <2>3, <2>4 DEF SendPing, PeerLeaves, Deactivate, recVars
  <2>5. CASE \/ LoopTop \/ Idle \/ HeaderByte \/ HeaderByteOfNextPacket
             \/ DataCopy \/ DataFetch \/ Parse
    BY <2>3, <2>5 DEF LoopTop, Idle, HeaderByte, HeaderByteOfNextPacket, DataCopy, DataFetch,
                      Parse, peerVars
  <2>6. CASE UNCHANGED vars
    BY <2>3, <2>6 DEF vars, peerVars, recVars
  <2> QED
    BY <2>1, <2>2, <2>4, <2>5, <2>6 DEF Next, Peer, Server, Thread
<1> QED
  BY <1>1, <1>2, StreamInvariant, PTL DEF Spec, DeliversInOrder

-----------------------------------------------------------------------------
(* The end of the thread.                                                  *)
ExitInv ==
    /\ disconnect => loc \in {"add", "top", "stopped"}
    /\ loc = "add" => disconnect = IsExit(instruction)
    /\ ExitRead => disconnect /\ loc \in {"top", "stopped"}

SignalInv ==
    ~active => \/ Len(delivered) = at_signal
               \/ Len(delivered) = at_signal + 1 /\ loc \in {"top", "stopped"}

LEMMA DeliveredGrows ==
    ASSUME TypeOK, AddInstruction
    PROVE  /\ Len(delivered) \in Nat /\ Len(delivered') = Len(delivered) + 1
           /\ ExitRead' => ExitRead \/ IsExit(instruction)
<1>1. delivered \in Seq(Seq(Cells)) /\ instruction \in Seq(Cells)
      /\ delivered' = Append(delivered, instruction)
  BY DEF TypeOK, AddInstruction
<1>2. /\ Len(delivered) \in Nat /\ Len(delivered') = Len(delivered) + 1
      /\ DOMAIN delivered = 1..Len(delivered) /\ DOMAIN delivered' = 1..(Len(delivered) + 1)
      /\ \A i \in 1..Len(delivered) : delivered'[i] = delivered[i]
      /\ delivered'[Len(delivered) + 1] = instruction
  BY <1>1
<1>3. ASSUME ExitRead' PROVE ExitRead \/ IsExit(instruction)
  <2>1. PICK i \in DOMAIN delivered' : IsExit(delivered'[i])
    BY <1>3 DEF ExitRead, IsExit
  <2>2. i \in 1..Len(delivered) \/ i = Len(delivered) + 1
    BY <1>2, <2>1
  <2> QED
    BY <1>2, <2>1, <2>2 DEF ExitRead
<1> QED
  BY <1>2, <1>3

LEMMA ExitKept ==
    ASSUME TypeOK, ExitInv, [Next]_vars
    PROVE  ExitInv' /\ (delivered' # delivered => ~ExitRead)
<1>1. ASSUME UNCHANGED <<loc, disconnect, delivered, instruction>>
      PROVE  ExitInv' /\ delivered' = delivered
  BY <1>1 DEF ExitInv, ExitRead, IsExit
<1>2. ASSUME loc \notin {"add", "top", "stopped"}, loc' # "add", disconnect' = disconnect,
             delivered' = delivered
      PROVE  ExitInv'
  BY <1>2 DEF ExitInv, ExitRead, IsExit
<1>3. CASE SendInstruction \/ SendPing \/ PeerLeaves \/ Deactivate \/ UNCHANGED vars
  BY <1>1, <1>3 DEF SendInstruction, SendPing, PeerLeaves, Deactivate, recVars, vars
<1>4. CASE LoopTop
  <2>1. TypeOK /\ loc = "top" /\ loc' = (IF disconnect \/ ~active THEN "stopped" ELSE rec)
        /\ UNCHANGED <<disconnect, delivered, instruction>>
    BY <1>4 DEF LoopTop
  <2>2. rec # "add"
    BY DEF TypeOK
  <2>3. ExitRead' = ExitRead
    BY <2>1 DEF ExitRead, IsExit
  <2> QED
    BY <2>1, <2>2, <2>3 DEF ExitInv
<1>5. CASE Idle
  BY <1>2, <1>5 DEF Idle
<1>6. CASE HeaderByte \/ HeaderByteOfNextPacket
  <2>1. loc = "headers" /\ UNCHANGED <<disconnect, delivered>>
    BY <1>6 DEF HeaderByte, HeaderByteOfNextPacket
  <2>2. loc' # "add"
    BY <1>6, <2>1 DEF HeaderByte, HeaderByteOfNextPacket, HeaderRead, Overrun
  <2> QED
    BY <1>2, <2>1, <2>2
<1>7. CASE DataCopy
  <2>1. loc = "data" /\ UNCHANGED <<disconnect, delivered>>
    BY <1>7 DEF DataCopy
  <2>2. loc' # "add"
    BY <1>7 DEF DataCopy, Overrun
  <2> QED
    BY <1>2, <2>1, <2>2
<1>8. CASE DataFetch
  BY <1>2, <1>8 DEF DataFetch
<1>9. CASE Parse
  <2>1. /\ loc = "parse" /\ UNCHANGED <<instruction, delivered>>
        /\ \/ loc' = "crashed" /\ disconnect' = disconnect
           \/ loc' = "add" /\ disconnect' = IsExit(instruction)
    BY <1>9 DEF Parse
  <2>2. ~ExitRead /\ ~disconnect
    BY <2>1 DEF ExitInv
  <2>3. ~ExitRead' /\ IsExit(instruction') = IsExit(instruction)
    BY <2>1, <2>2 DEF ExitRead, IsExit
  <2> QED
    BY <2>1, <2>2, <2>3 DEF ExitInv
<1>10. CASE AddInstruction
  <2>1. loc = "add" /\ loc' = "top" /\ disconnect' = disconnect
    BY <1>10 DEF AddInstruction
  <2>2. ~ExitRead /\ disconnect = IsExit(instruction)
    BY <2>1 DEF ExitInv
  <2>3. ExitRead' => IsExit(instruction)
    BY <1>10, <2>2, DeliveredGrows
  <2> QED
    BY <2>1, <2>2, <2>3 DEF ExitInv
<1>11. delivered' # delivered => ~ExitRead
  <2>1. CASE AddInstruction
    BY <2>1 DEF AddInstruction, ExitInv
  <2> QED
    BY <1>1, <1>3, <2>1, <1>4, <1>5, <1>6, <1>7, <1>8, <1>9
    DEF Next, Peer, Server, Thread, Idle, HeaderByte, HeaderByteOfNextPacket, DataCopy,
        DataFetch, LoopTop, Parse, SendInstruction, SendPing, PeerLeaves, Deactivate, recVars,
        vars
<1> QED
  BY <1>3, <1>4, <1>5, <1>6, <1>7, <1>8, <1>9, <1>10, <1>11 DEF Next, Peer, Server, Thread

(* Our own exit instruction is the last one the thread reads: it leaves    *)
(* its loop on it, whatever else the packet holds (wimp_reciever.c 344).   *)
THEOREM ExitIsLast == Spec => NothingAfterExit
<1>1. Init => ExitInv
  <2> SUFFICES ASSUME Init PROVE ExitInv
    OBVIOUS
  <2>1. loc = "top" /\ disconnect = FALSE /\ delivered = <<>>
    BY DEF Init
  <2>2. ~ExitRead
    BY <2>1 DEF ExitRead
  <2> QED
    BY <2>1, <2>2 DEF ExitInv
<1>2. TypeOK /\ ExitInv /\ [Next]_vars => ExitInv'
  BY ExitKept
<1>3. TypeOK /\ ExitInv /\ [Next]_vars => [delivered' # delivered => ~ExitRead]_vars
  BY ExitKept
<1> QED
  BY <1>1, <1>2, <1>3, TypeCorrect, PTL DEF Spec, NothingAfterExit

LEMMA SignalKept ==
    ASSUME TypeOK, SignalInv, [Next]_vars
    PROVE  SignalInv'
<1>1. ASSUME UNCHANGED <<active, at_signal, delivered>>, loc \notin {"top", "stopped"}
      PROVE  SignalInv'
  BY <1>1 DEF SignalInv
<1>2. ASSUME UNCHANGED <<active, at_signal, delivered, loc>>
      PROVE  SignalInv'
  BY <1>2 DEF SignalInv
<1>3. CASE SendInstruction \/ SendPing \/ PeerLeaves \/ UNCHANGED vars
  BY <1>2, <1>3 DEF SendInstruction, SendPing, PeerLeaves, recVars, vars, peerVars
<1>4. CASE Deactivate
  BY <1>4 DEF Deactivate, SignalInv, recVars
<1>5. CASE LoopTop
  BY <1>5 DEF LoopTop, SignalInv, peerVars
<1>6. CASE Idle \/ HeaderByte \/ HeaderByteOfNextPacket \/ DataCopy \/ DataFetch \/ Parse
  BY <1>1, <1>6 DEF Idle, HeaderByte, HeaderByteOfNextPacket, DataCopy, DataFetch, Parse, peerVars
<1>7. CASE AddInstruction
  <2>1. Len(delivered') = Len(delivered) + 1
    BY <1>7, DeliveredGrows
  <2>2. loc = "add" /\ loc' = "top" /\ UNCHANGED <<active, at_signal>>
    BY <1>7 DEF AddInstruction, peerVars
  <2> QED
    BY <2>1, <2>2 DEF SignalInv
<1> QED
  BY <1>3, <1>4, <1>5, <1>6, <1>7 DEF Next, Peer, Server, Thread

(* A thread whose server has cleared active adds the one instruction it is *)
(* in the middle of, and no other (wimp_server.c 446, wimp_reciever.c 245).*)
THEOREM OneMoreAtMost == Spec => []AtMostOneMore
<1>1. Init => SignalInv
  BY DEF Init, SignalInv
<1>2. TypeOK /\ SignalInv /\ [Next]_vars => SignalInv'
  BY SignalKept
<1>3. TypeOK /\ SignalInv => AtMostOneMore
  BY DEF TypeOK, SignalInv, AtMostOneMore
<1> QED
  BY <1>1, <1>2, <1>3, TypeCorrect, PTL DEF Spec

-----------------------------------------------------------------------------
(* The payload of a stream: its cells without those of pings.              *)
Kept(c) == IF c.m = 0 THEN <<>> ELSE <<c>>

LEMMA PayloadIs ==
    ASSUME NEW P \in Seq(Cells)
    PROVE  /\ Payload(P) = FlattenSeq([i \in 1..Len(P) |-> Kept(P[i])])
           /\ [i \in 1..Len(P) |-> Kept(P[i])] \in Seq(Seq(Cells))
           /\ Payload(P) \in Seq(Cells)
<1> DEFINE parts == [i \in 1..Len(P) |-> Kept(P[i])]
<1>1. DOMAIN P = 1..Len(P) /\ Len(P) \in Nat /\ \A i \in 1..Len(P) : P[i] \in Cells
  OBVIOUS
<1>2. Payload(P) = FlattenSeq(parts)
  BY <1>1 DEF Payload, Kept
<1>3. ASSUME NEW c \in Cells PROVE Kept(c) \in Seq(Cells)
  BY DEF Kept
<1>4. parts \in Seq(Seq(Cells))
  <2>1. \A i \in 1..Len(P) : Kept(P[i]) \in Seq(Cells)
    BY <1>1, <1>3
  <2> QED
    BY <1>1, <2>1
<1> HIDE DEF parts
<1>5. FlattenSeq(parts) \in Seq(Cells)
  BY <1>4, FlattenTyped
<1> QED
  BY <1>2, <1>4, <1>5 DEF parts

LEMMA PayloadConcat ==
    ASSUME NEW P \in Seq(Cells), NEW Q \in Seq(Cells)
    PROVE  Payload(P \o Q) = Payload(P) \o Payload(Q)
<1> DEFINE Parts(R) == [i \in 1..Len(R) |-> Kept(R[i])]
<1>1. /\ P \o Q \in Seq(Cells) /\ Len(P \o Q) = Len(P) + Len(Q)
      /\ Len(P) \in Nat /\ Len(Q) \in Nat
      /\ \A i \in 1..Len(P) : (P \o Q)[i] = P[i]
      /\ \A i \in 1..Len(Q) : (P \o Q)[Len(P) + i] = Q[i]
  OBVIOUS
<1>2. \A R \in Seq(Cells) : Parts(R) \in Seq(Seq(Cells)) /\ Payload(R) = FlattenSeq(Parts(R))
  BY PayloadIs
<1>3. \A R \in Seq(Cells) : Len(Parts(R)) = Len(R) /\ \A i \in 1..Len(R) : Parts(R)[i] = Kept(R[i])
  OBVIOUS
<1> HIDE DEF Parts
<1>4. Parts(P \o Q) = Parts(P) \o Parts(Q)
  <2> DEFINE s == Parts(P)
             t == Parts(Q)
             u == Parts(P \o Q)
  <2>1. s \in Seq(Seq(Cells)) /\ t \in Seq(Seq(Cells)) /\ u \in Seq(Seq(Cells))
    BY <1>1, <1>2
  <2>2. Len(s) = Len(P) /\ Len(t) = Len(Q) /\ Len(u) = Len(P) + Len(Q)
    BY <1>1, <1>3
  <2>3. \A i \in 1..Len(P) : u[i] = s[i]
    <3>1. \A i \in 1..Len(P) : i \in 1..(Len(P) + Len(Q))
      BY <1>1
    <3> QED
      BY <1>1, <1>3, <3>1
  <2>4. \A i \in 1..Len(Q) : u[Len(P) + i] = t[i]
    <3>1. \A i \in 1..Len(Q) : Len(P) + i \in 1..(Len(P) + Len(Q))
      BY <1>1
    <3> QED
      BY <1>1, <1>3, <3>1, ZenonT(40)
  <2> HIDE DEF s, t, u
  <2>5. /\ s \o t \in Seq(Seq(Cells)) /\ Len(s \o t) = Len(s) + Len(t)
        /\ \A i \in 1..(Len(s) + Len(t)) :
                (s \o t)[i] = IF i <= Len(s) THEN s[i] ELSE t[i - Len(s)]
    BY <2>1, ConcatProperties
  <2>6. \A i \in 1..Len(u) : u[i] = (s \o t)[i]
    <3> SUFFICES ASSUME NEW i \in 1..Len(u) PROVE u[i] = (s \o t)[i]
      OBVIOUS
    <3>0. /\ i \in 1..(Len(P) + Len(Q)) /\ i \in Nat /\ i >= 1
          /\ i <= Len(P) \/ i > Len(P)
      BY <1>1, <2>2
    <3>1. CASE i <= Len(P)
      <4>1. i \in 1..Len(P)
        BY <1>1, <3>0, <3>1
      <4>2. u[i] = s[i]
        BY <2>3, <4>1
      <4>3. (s \o t)[i] = s[i]
        BY <2>2, <2>5, <3>0, <3>1
      <4> QED
        BY <4>2, <4>3
    <3>2. CASE i > Len(P)
      <4>1. i - Len(P) \in 1..Len(Q) /\ Len(P) + (i - Len(P)) = i
        BY <1>1, <3>0, <3>2
      <4>2. u[i] = t[i - Len(P)]
        BY <2>4, <4>1
      <4>3. (s \o t)[i] = t[i - Len(P)]
        BY <1>1, <2>2, <2>5, <3>0, <3>2
      <4> QED
        BY <4>2, <4>3
    <3> QED
      BY <3>0, <3>1, <3>2
  <2>7. u = s \o t
    BY <2>1, <2>2, <2>5, <2>6, SeqEqual
  <2> QED
    BY <2>7 DEF s, t, u
<1>5. FlattenSeq(Parts(P) \o Parts(Q)) = FlattenSeq(Parts(P)) \o FlattenSeq(Parts(Q))
  BY <1>2, FlattenConcat
<1> QED
  BY <1>1, <1>2, <1>4, <1>5

(* A ping has none, an instruction is all payload.                         *)
LEMMA PayloadOfCells ==
    ASSUME NEW m \in Nat, NEW F \in Seq(Cells), \A k \in 1..Len(F) : F[k].m = m
    PROVE  Payload(F) = IF m = 0 THEN <<>> ELSE F
<1>1. F \in Seq(Cells) /\ Len(F) \in Nat /\ \A k \in 1..Len(F) : F[k].m = m /\ F[k] \in Cells
  OBVIOUS
<1> DEFINE parts == [i \in 1..Len(F) |-> Kept(F[i])]
           flat == [i \in 0..Len(F) |-> IF m = 0 THEN <<>> ELSE SubSeq(F, 1, i)]
<1>2. Payload(F) = FlattenSeq(parts) /\ parts \in Seq(Seq(Cells))
  BY <1>1, PayloadIs
<1>3. Len(parts) = Len(F) /\ \A i \in 1..Len(F) : parts[i] = IF m = 0 THEN <<>> ELSE <<F[i]>>
  BY <1>1 DEF Kept
<1>4. /\ 0 \in 0..Len(F) /\ Len(F) \in 0..Len(F)
      /\ \A i \in 0..Len(F) : flat[i] = IF m = 0 THEN <<>> ELSE SubSeq(F, 1, i)
  BY <1>1
<1>5. SubSeq(F, 1, 0) = <<>> /\ SubSeq(F, 1, Len(F)) = F
  BY <1>1
<1>6. <<>> \o <<>> = <<>>
  OBVIOUS
<1> HIDE DEF parts, flat
<1>7. ASSUME NEW i \in 1..Len(F) PROVE flat[i] = flat[i - 1] \o parts[i]
  <2>1. i \in 0..Len(F) /\ i - 1 \in 0..Len(F)
    BY <1>1
  <2>2. CASE m = 0
    BY <1>3, <1>4, <1>6, <2>1, <2>2
  <2>3. CASE m # 0
    <3>1. SubSeq(F, 1, i) = SubSeq(F, 1, i - 1) \o <<F[i]>>
      BY <1>1
    <3> QED
      BY <1>3, <1>4, <2>1, <2>3, <3>1
  <2> QED
    BY <2>2, <2>3
<1>8. flat[0] = <<>>
  BY <1>4, <1>5
<1>9. FlatPrefixes(parts, flat)
  BY <1>3, <1>7, <1>8 DEF FlatPrefixes
<1>10. Payload(F) = flat[Len(F)]
  BY <1>2, <1>3, <1>9, FlattenIs
<1> QED
  BY <1>4, <1>5, <1>10

(* A stream that has its frames to their end holds nothing else.           *)
LEMMA PayloadOfStream ==
    ASSUME NEW frames, Good(frames), NEW N \in Nat
    PROVE  \A P \in Seq(Cells), done \in 0..Len(frames) :
                /\ Len(P) <= N /\ Stream(frames, done, P)
                /\ AllThere(frames, Len(frames), done, P)
                => Payload(P) = FlattenSeq(SubSeq(frames, done + 1, Len(frames)))
<1> DEFINE M == Len(frames)
           Later(done) == SubSeq(frames, done + 1, M)
           Holds(n) == \A P \in Seq(Cells), done \in 0..M :
                /\ Len(P) <= n /\ Stream(frames, done, P) /\ AllThere(frames, M, done, P)
                => Payload(P) = FlattenSeq(Later(done))
           S == {n \in 0..N : Holds(n)}
<1>1. M \in Nat /\ frames \in Seq(Seq(Cells))
  BY DEF Good
<1>2. \A done \in 0..M : Later(done) \in Seq(Seq(Cells)) /\ FlattenSeq(Later(done)) \in Seq(Cells)
  <2>1. \A done \in 0..M : Later(done) \in Seq(Seq(Cells))
    BY <1>1
  <2> QED
    BY <2>1, FlattenTyped
<1>3. Later(M) = <<>>
  BY <1>1
<1>4. ASSUME NEW done \in 0..(M - 1)
      PROVE  Later(done) = <<frames[done + 1]>> \o Later(done + 1) /\ frames[done + 1] \in Seq(Cells)
  <2>1. done + 1 \in 1..M
    BY <1>1
  <2> QED
    BY <1>1, <2>1
<1> HIDE DEF M, Later
<1>5. 0 \in S
  <2> SUFFICES ASSUME NEW P \in Seq(Cells), NEW done \in 0..M, Len(P) <= 0,
                      AllThere(frames, M, done, P)
               PROVE  Payload(P) = FlattenSeq(Later(done))
    OBVIOUS
  <2>1. P = <<>> /\ Len(P) = 0 /\ 1..Len(P) = {}
    OBVIOUS
  <2>2. (done + 1)..M = {}
    BY <2>1 DEF AllThere
  <2>3. done = M
    <3>1. done \in Nat /\ ~(M \in (done + 1)..M)
      BY <2>2
    <3> QED
      BY <1>1, <3>1
  <2>4. [i \in 1..Len(P) |-> Kept(P[i])] = <<>>
    BY <2>1
  <2>5. Payload(P) = FlattenSeq(<<>>)
    BY <2>4, PayloadIs
  <2> QED
    BY <1>3, <2>3, <2>5
<1>6. ASSUME NEW n \in 0..(N - 1), n \in S PROVE n + 1 \in S
  <2>1. n + 1 \in 0..N /\ n \in Nat /\ Holds(n)
    BY <1>6
  <2> HIDE DEF S
  <2> SUFFICES ASSUME NEW P \in Seq(Cells), NEW done \in 0..M, Len(P) <= n + 1,
                      Stream(frames, done, P), AllThere(frames, M, done, P)
               PROVE  Payload(P) = FlattenSeq(Later(done))
    BY <2>1 DEF S
  <2>2. CASE Len(P) <= n
    BY <2>1, <2>2
  <2>3. CASE Len(P) > n
    <3> DEFINE m == P[1].m
               F == Source(frames, m)
               L == Len(F)
               then == IF m = 0 THEN done ELSE done + 1
               Q == SubSeq(P, L + 1, Len(P))
    <3>1. P # <<>> /\ 1 \in 1..Len(P) /\ Len(P) \in Nat /\ done \in Nat
      BY <2>1, <2>3
    <3>2. /\ m = 0 \/ (m = done + 1 /\ done + 1 <= M)
          /\ m \in 0..M
          /\ \A k \in 1..L : k <= Len(P) => P[k] = F[k]
      BY <3>1, StreamHead DEF M
    <3>3. IsFrame(F, m)
      BY <3>2, SourceIs DEF M
    <3>4. F \in Seq(Cells) /\ L \in Nat /\ L >= 1 /\ \A k \in 1..L : F[k].m = m
      <4> HIDE DEF m, F
      <4> QED
        BY <3>3 DEF IsFrame
    <3>5. L <= Len(P)
      <4>1. InFrame(frames, done, P, 1)
        BY <3>1 DEF Stream
      <4>2. P[1].k \in 1..L /\ P[1].k <= 1
        BY <4>1 DEF InFrame
      <4>3. Complete(frames, P, 1)
        <5>1. m <= M
          BY <1>1, <3>2
        <5> QED
          BY <3>1, <5>1 DEF AllThere
      <4>4. 1 - P[1].k + L <= Len(P)
        BY <4>3 DEF Complete
      <4>5. L \in Nat /\ Len(P) \in Nat
        BY <3>1, <3>4
      <4> HIDE DEF L
      <4>6. P[1].k = 1
        BY <4>2, <4>5
      <4> QED
        BY <4>4, <4>5, <4>6
    <3>6. Dropped(frames, done, P, L, then, Q)
      BY <3>1, <3>5, StreamDrop
    <3>7. Stream(frames, then, Q) /\ AllThere(frames, M, then, Q)
      BY <1>1, <3>6 DEF Dropped
    <3> HIDE DEF m, F
    <3>8. Q \in Seq(Cells) /\ Len(Q) = Len(P) - L /\ P = SubSeq(P, 1, L) \o Q
      BY <3>1, <3>4, <3>5
    <3>9. SubSeq(P, 1, L) = F
      <4>1. SubSeq(P, 1, L) \in Seq(Cells) /\ Len(SubSeq(P, 1, L)) = L
            /\ \A k \in 1..L : SubSeq(P, 1, L)[k] = P[k]
        BY <3>1, <3>4, <3>5
      <4>2. \A k \in 1..L : P[k] = F[k]
        BY <3>1, <3>2, <3>4, <3>5
      <4> QED
        BY <3>4, <4>1, <4>2, SeqEqual
    <3> HIDE DEF Q, L
    <3>10. then \in 0..M /\ Len(Q) <= n
      BY <1>1, <2>1, <3>1, <3>2, <3>4, <3>8
    <3>11. Payload(Q) = FlattenSeq(Later(then))
      BY <2>1, <3>7, <3>8, <3>10
    <3>12. Payload(P) = Payload(F) \o Payload(Q)
      BY <3>4, <3>8, <3>9, PayloadConcat
    <3>13. Payload(F) = IF m = 0 THEN <<>> ELSE F
      BY <3>2, <3>4, PayloadOfCells DEF L
    <3>14. CASE m = 0
      <4>1. then = done /\ FlattenSeq(Later(done)) \in Seq(Cells)
        BY <1>2, <3>14
      <4>2. <<>> \o FlattenSeq(Later(done)) = FlattenSeq(Later(done))
        BY <4>1
      <4> QED
        BY <3>11, <3>12, <3>13, <3>14, <4>1, <4>2
    <3>15. CASE m # 0
      <4>1. done \in 0..(M - 1) /\ then = done + 1 /\ m = done + 1 /\ done + 1 \in 0..M
        BY <1>1, <3>2, <3>15
      <4>2. F = frames[done + 1] /\ F \in Seq(Cells)
        BY <3>4, <3>15, <4>1 DEF F, Source
      <4>3. Later(done) = <<F>> \o Later(then)
        BY <1>4, <4>1, <4>2
      <4>4. <<F>> \in Seq(Seq(Cells)) /\ Later(then) \in Seq(Seq(Cells))
        BY <1>2, <4>1, <4>2
      <4>5. FlattenSeq(Later(done)) = FlattenSeq(<<F>>) \o FlattenSeq(Later(then))
        BY <4>3, <4>4, FlattenConcat
      <4>6. FlattenSeq(<<F>>) = F
        BY <4>2, FlattenOne
      <4> QED
        BY <3>11, <3>12, <3>13, <3>15, <4>5, <4>6
    <3> QED
      BY <3>14, <3>15
  <2> QED
    BY <2>1, <2>2, <2>3
<1> HIDE DEF S
<1>7. 0..N \subseteq S
  BY <1>5, <1>6, Induction
<1>8. N \in S
  BY <1>7
<1> QED
  BY <1>8 DEF S, M, Later

(* No cell of an instruction is lost, doubled or moved on its way from     *)
(* send_instructions through the packets to the queue, wherever the thread *)
(* is in them (wimp_reciever.c 236-362).                                   *)
THEOREM NothingLost == Spec => []StreamConserved
<1>1. StreamInv => StreamConserved
  <2> SUFFICES ASSUME StreamInv, PeerFaultless
               PROVE  FlattenSeq(InFlight) = Payload(Pending)
    BY DEF StreamConserved
  <2> DEFINE done == Len(delivered)
  <2>1. /\ TypeOK /\ SentWell /\ peer \in {"open", "closed"}
        /\ sent \in Seq(Frames) /\ Len(sent) \in Nat /\ done \in Nat
        /\ Pending \in Seq(Cells) /\ Len(Pending) \in Nat
    BY PendingIs DEF StreamInv, PeerFaultless, TypeOK
  <2>2. CASE Intact
    <3>1. PICK frames \in Begun : Streaming(frames)
      BY <2>2 DEF Intact
    <3>2. frames = sent /\ Good(frames)
      BY <2>1, <3>1, BegunAre
    <3>3. done \in 0..Len(frames)
      BY <2>1, <3>1, <3>2 DEF Streaming, Exact
    <3>4. Stream(frames, done, Pending) /\ AllThere(frames, Len(frames), done, Pending)
      BY <2>1, <3>1, <3>2 DEF Streaming
    <3>5. Payload(Pending) = FlattenSeq(SubSeq(frames, done + 1, Len(frames)))
      BY <2>1, <3>2, <3>3, <3>4, PayloadOfStream
    <3> QED
      BY <3>2, <3>5 DEF InFlight
  <2>3. CASE Ended
    <3>1. /\ wire = <<>> /\ incoming_size = 0 /\ rec_offset \in Nat
          /\ done = Len(sent) /\ AllZero(instruction) /\ instruction \in Seq(Cells)
      BY <2>1, <2>3 DEF Ended, TypeOK
    <3>2. InFlight = <<>>
      BY <2>1, <3>1 DEF InFlight
    <3>3. Pending = instruction
      <4>1. Pending = instruction \o wire
        BY <2>1, <3>1, PendingIs
      <4> QED
        BY <3>1, <4>1
    <3>4. \A k \in 1..Len(instruction) : instruction[k].m = 0
      BY <3>1 DEF AllZero, ZERO, Cell
    <3>5. Payload(Pending) = <<>>
      BY <3>1, <3>3, <3>4, PayloadOfCells
    <3> QED
      BY <3>2, <3>5, FlattenNone
  <2> QED
    BY <2>2, <2>3 DEF StreamInv
<1> QED
  BY <1>1, StreamInvariant, PTL
=============================================================================
