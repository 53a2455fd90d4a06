----------------------------- MODULE StartupProofs -----------------------------
(***************************************************************************)
(* What happens before a process does its work, for all inputs: wimp_init  *)
(* and wimp_shutdown for any finite number of processes (LibInit), the     *)
(* layout of instructions and packs (InstrCodec), the allocations of an    *)
(* entry and the command line of a process (Launch), and the log of a      *)
(* child (LogFormat).  Handshake has proofs of its own.                    *)
(***************************************************************************)
EXTENDS Startup, HandshakeProofs, InductionLemmas, FiniteSetTheorems, SequenceTheorems, TLAPS

-----------------------------------------------------------------------------
(* The processes between wimp_init and wimp_shutdown.                      *)
In == {p \in Processes : place[p] = "in"}

(* While nobody has left in haste a process on its way in has somebody who is in and waits for it, or is  *)
(* the first of all.                                                       *)
Awaited(p) ==
    \/ startedBy[p] # p /\ place[startedBy[p]] = "in"
    \/ p = First /\ \A q \in Processes : q # p => place[q] = "off"

(* The counter counts those who are in, though test and count are apart;   *)
(* the library is up only while somebody is about to count or test again   *)
(* and, unless somebody left in haste, from the test on.                   *)
LibInv ==
    /\ place \in [Processes -> {"off", "test", "count", "in", "left", "done"}]
    /\ startedBy \in [Processes -> Processes]
    /\ library \in BOOLEAN /\ hasty \in BOOLEAN
    /\ s_init_ref_counter = Cardinality(In)
    /\ ~hasty => /\ \A p \in Processes : place[p] \in {"test", "count"} => Awaited(p)
                 /\ \A p \in Processes : place[p] \in {"count", "in"} => library
    /\ library => \E p \in Processes : place[p] \in {"count", "in", "left"}

LEMMA InFinite == IsFiniteSet(In) /\ Cardinality(In) \in Nat /\ (Cardinality(In) = 0 <=> In = {})
<1>1. In \in SUBSET Processes
  BY DEF In
<1> QED
  BY <1>1, LibAssumption, FS_Subset, FS_CardinalityType, FS_EmptySet

LEMMA LibStartInv == LibStart => LibInv
<1> SUFFICES ASSUME LibStart PROVE LibInv
  OBVIOUS
<1>1. In = {}
  BY DEF LibStart, In
<1>2. s_init_ref_counter = Cardinality(In)
  BY <1>1, FS_EmptySet DEF LibStart
<1> QED
  BY <1>2, LibAssumption DEF LibStart, LibInv, Awaited

LEMMA StartLibraryProcessInv ==
    ASSUME LibInv, NEW p \in Processes, NEW child \in Processes, StartLibraryProcess(p, child)
    PROVE  LibInv'
<1>1. /\ place[p] = "in" /\ place[child] = "off" /\ child # p
      /\ place' = [place EXCEPT ![child] = "test"]
      /\ startedBy' = [startedBy EXCEPT ![child] = p]
      /\ UNCHANGED <<s_init_ref_counter, library, hasty>>
  BY DEF StartLibraryProcess, Move
<1>2. /\ place'[child] = "test" /\ startedBy'[child] = p
      /\ \A q \in Processes : q # child => place'[q] = place[q] /\ startedBy'[q] = startedBy[q]
  BY <1>1 DEF LibInv
<1>3. In' = In
  BY <1>1, <1>2 DEF In
<1>4. ASSUME ~hasty', NEW q \in Processes, place'[q] \in {"test", "count"}
      PROVE  Awaited(q)'
  <2>1. CASE q = child
    BY <1>1, <1>2, <2>1 DEF Awaited
  <2>2. CASE q # child
    <3>1. startedBy[q] # q /\ place[startedBy[q]] = "in"
      BY <1>1, <1>2, <1>4, <2>2 DEF LibInv, Awaited
    <3> QED
      BY <1>1, <1>2, <2>2, <3>1 DEF LibInv, Awaited
  <2> QED
    BY <2>1, <2>2
<1> QED
  BY <1>1, <1>2, <1>3, <1>4 DEF LibInv

LEMMA InitTestInv ==
    ASSUME LibInv, NEW p \in Processes, InitTest(p)
    PROVE  LibInv'
<1>1. /\ place[p] = "test"
      /\ place' = [place EXCEPT ![p] = "count"]
      /\ library' = (library \/ s_init_ref_counter = 0)
      /\ UNCHANGED <<s_init_ref_counter, startedBy, hasty>>
  BY DEF InitTest, Move
<1>2. /\ place'[p] = "count"
      /\ \A q \in Processes : q # p => place'[q] = place[q]
  BY <1>1 DEF LibInv
<1>3. In' = In
  BY <1>1, <1>2 DEF In
<1>4. ~hasty => library' = TRUE
  <2> SUFFICES ASSUME ~hasty PROVE library' = TRUE
    OBVIOUS
  <2>1. CASE s_init_ref_counter = 0
    BY <1>1, <2>1
  <2>2. CASE s_init_ref_counter # 0
    <3>1. PICK q \in Processes : place[q] = "in"
      BY <2>2, InFinite DEF LibInv, In
    <3> QED
      BY <1>1, <3>1 DEF LibInv
  <2> QED
    BY <2>1, <2>2
<1>5. ASSUME ~hasty', NEW q \in Processes, place'[q] \in {"test", "count"}
      PROVE  Awaited(q)'
  <2>1. place[q] \in {"test", "count"}
    BY <1>1, <1>2, <1>5
  <2>2. Awaited(q)
    BY <1>1, <1>5, <2>1 DEF LibInv
  <2>3. CASE startedBy[q] # q /\ place[startedBy[q]] = "in"
    BY <1>1, <1>2, <2>3 DEF LibInv, Awaited
  <2>4. CASE q = First /\ \A u \in Processes : u # q => place[u] = "off"
    BY <1>1, <1>2, <2>4 DEF Awaited
  <2> QED
    BY <2>2, <2>3, <2>4 DEF Awaited
<1> QED
  BY <1>1, <1>2, <1>3, <1>4, <1>5 DEF LibInv

LEMMA InitCountInv ==
    ASSUME LibInv, NEW p \in Processes, InitCount(p)
    PROVE  LibInv'
<1>1. /\ place[p] = "count"
      /\ place' = [place EXCEPT ![p] = "in"]
      /\ s_init_ref_counter' = s_init_ref_counter + 1
      /\ UNCHANGED <<library, startedBy, hasty>>
  BY DEF InitCount, Move
<1>2. /\ place'[p] = "in"
      /\ \A q \in Processes : q # p => place'[q] = place[q]
  BY <1>1 DEF LibInv
<1>3. In' = In \cup {p} /\ p \notin In
  BY <1>1, <1>2 DEF In
<1>4. s_init_ref_counter' = Cardinality(In')
  BY <1>1, <1>3, InFinite, FS_AddElement DEF LibInv
<1>5. ASSUME ~hasty', NEW q \in Processes, place'[q] \in {"test", "count"}
      PROVE  Awaited(q)'
  <2>1. q # p /\ Awaited(q)
    BY <1>1, <1>2, <1>5 DEF LibInv
  <2>2. startedBy[q] # q /\ place[startedBy[q]] = "in"
    BY <1>1, <2>1 DEF Awaited
  <2> QED
    BY <1>1, <1>2, <2>2 DEF LibInv, Awaited
<1> QED
  BY <1>1, <1>2, <1>4, <1>5 DEF LibInv

(* Whoever counts itself out without haste leaves nobody behind that it    *)
(* has started and that is still on its way in.                            *)
LEMMA ShutdownCountInv ==
    ASSUME LibInv, NEW p \in Processes, ShutdownCount(p)
    PROVE  LibInv'
<1>1. /\ place[p] = "in" /\ hasty' = (hasty \/ ~HasAccepted(p))
      /\ place' = [place EXCEPT ![p] = "left"]
      /\ s_init_ref_counter' = s_init_ref_counter - 1
      /\ UNCHANGED <<library, startedBy>>
  BY DEF ShutdownCount, Move
<1>2. /\ place'[p] = "left"
      /\ \A q \in Processes : q # p => place'[q] = place[q]
  BY <1>1 DEF LibInv
<1>3. In' = In \ {p} /\ p \in In
  BY <1>1, <1>2 DEF In
<1>4. s_init_ref_counter' = Cardinality(In')
  BY <1>1, <1>3, InFinite, FS_RemoveElement DEF LibInv
<1>5. ASSUME ~hasty', NEW q \in Processes, place'[q] \in {"test", "count"}
      PROVE  Awaited(q)'
  <2>1. q # p /\ Awaited(q) /\ place[q] \in {"test", "count"}
    BY <1>1, <1>2, <1>5 DEF LibInv
  <2>2. startedBy[q] # q /\ place[startedBy[q]] = "in"
    BY <1>1, <2>1 DEF Awaited
  <2>3. startedBy[q] # p
    BY <1>1, <1>5, <2>1 DEF HasAccepted
  <2> QED
    BY <1>1, <1>2, <2>2, <2>3 DEF LibInv, Awaited
<1> QED
  BY <1>1, <1>2, <1>4, <1>5 DEF LibInv

(* Where the counter is zero nobody is in, hence nobody on its way in.     *)
LEMMA ShutdownTestInv ==
    ASSUME LibInv, NEW p \in Processes, ShutdownTest(p)
    PROVE  LibInv'
<1>1. /\ place[p] = "left"
      /\ place' = [place EXCEPT ![p] = "done"]
      /\ library' = (library /\ s_init_ref_counter # 0)
      /\ UNCHANGED <<s_init_ref_counter, startedBy, hasty>>
  BY DEF ShutdownTest, Move
<1>2. /\ place'[p] = "done"
      /\ \A q \in Processes : q # p => place'[q] = place[q]
  BY <1>1 DEF LibInv
<1>3. In' = In
  BY <1>1, <1>2 DEF In
<1>4. ~hasty => \A q \in Processes : place'[q] \in {"test", "count"} =>
        startedBy[q] # q /\ startedBy[q] \in Processes /\ place[startedBy[q]] = "in"
  BY <1>1, <1>2 DEF LibInv, Awaited
<1>5. ~hasty => \A q \in Processes : place'[q] \in {"test", "count"} => Awaited(q)'
  BY <1>1, <1>2, <1>4 DEF Awaited
<1>6. ~hasty => \A q \in Processes : place'[q] \in {"count", "in"} => s_init_ref_counter # 0 /\ library
  BY <1>2, <1>4, InFinite DEF LibInv, In
<1>7. library' => \E q \in Processes : place'[q] \in {"count", "in", "left"}
  BY <1>1, <1>3, InFinite DEF LibInv, In
<1> QED
  BY <1>1, <1>3, <1>5, <1>6, <1>7 DEF LibInv

LEMMA LibStepInv == LibInv /\ [LibNext]_libVars => LibInv'
<1> SUFFICES ASSUME LibInv, [LibNext]_libVars PROVE LibInv'
  OBVIOUS
<1>1. CASE LibNext
  BY <1>1, StartLibraryProcessInv, InitTestInv, InitCountInv, ShutdownCountInv, ShutdownTestInv
  DEF LibNext
<1>2. CASE UNCHANGED libVars
  BY <1>2 DEF libVars, LibInv, In, Awaited
<1> QED
  BY <1>1, <1>2

LEMMA LibInvariant == LibSpec => []LibInv
  BY LibStartInv, LibStepInv, PTL DEF LibSpec

(* The counter is neither negative nor more than there are processes (the  *)
(* assertion in wimp_process.c 251).                                       *)
THEOREM LibTypeCorrect == LibSpec => []LibTypeOK
<1>1. LibInv => LibTypeOK
  <2>1. In \in SUBSET Processes
    BY DEF In
  <2>2. Cardinality(In) \in 0..Cardinality(Processes)
    BY <2>1, LibAssumption, FS_Subset, FS_CardinalityType
  <2> QED
    BY <2>2 DEF LibInv, LibTypeOK
<1> QED
  BY <1>1, LibInvariant, PTL

(* However the threads overtake each other between test and count, plibsys *)
(* is shut down by the last to leave, and it is up while anyone may use it *)
(* as long as everyone who shuts down has accepted those it started: the   *)
(* code does not make sure of that.                                        *)
THEOREM LibraryCorrect == LibSpec => []LibraryFollowsUse
<1>1. LibInv => LibraryFollowsUse
  BY DEF LibInv, LibraryFollowsUse, LibraryUpWhileInUse, LastOneShutsDown
<1> QED
  BY <1>1, LibInvariant, PTL

-----------------------------------------------------------------------------
(* The layout of instructions and packs.                                   *)

(* A part lies in a buffer behind an offset.                               *)
Lies(b, off, s) == off + Len(s) <= Len(b) /\ \A i \in 1..Len(s) : b[off + i] = s[i]

LEMMA LiesWhole ==
    ASSUME NEW b \in Seq(Nat)
    PROVE  Lies(b, 0, b)
BY DEF Lies

LEMMA LiesSplit ==
    ASSUME NEW b \in Seq(Nat), NEW s \in Seq(Nat), NEW t \in Seq(Nat), NEW off \in Nat,
           Lies(b, off, s \o t)
    PROVE  Lies(b, off, s) /\ Lies(b, off + Len(s), t)
<1>1. /\ Len(s \o t) = Len(s) + Len(t) /\ Len(s) \in Nat /\ Len(t) \in Nat /\ Len(b) \in Nat
      /\ \A i \in 1..Len(s) : (s \o t)[i] = s[i]
      /\ \A i \in 1..Len(t) : (s \o t)[Len(s) + i] = t[i]
  OBVIOUS
<1>2. ASSUME NEW i \in 1..Len(s) PROVE b[off + i] = s[i]
  <2>1. i \in 1..Len(s \o t)
    BY <1>1
  <2>2. b[off + i] = (s \o t)[i]
    BY <2>1, Zenon DEF Lies
  <2>3. (s \o t)[i] = s[i]
    BY <1>1, Zenon
  <2> QED
    BY <2>2, <2>3, Zenon
<1>3. ASSUME NEW i \in 1..Len(t) PROVE b[(off + Len(s)) + i] = t[i]
  <2>1. Len(s) + i \in 1..Len(s \o t) /\ off + (Len(s) + i) = (off + Len(s)) + i
    BY <1>1
  <2>2. b[off + (Len(s) + i)] = (s \o t)[Len(s) + i]
    BY <2>1 DEF Lies
  <2> QED
    BY <1>1, <2>1, <2>2
<1>4. off + Len(s) <= Len(b) /\ (off + Len(s)) + Len(t) <= Len(b)
  BY <1>1 DEF Lies
<1> QED
  BY <1>2, <1>3, <1>4 DEF Lies

LEMMA CellsAre ==
    ASSUME NEW b \in Seq(Nat), NEW s \in Seq(Nat), NEW at \in Nat, Lies(b, at, s)
    PROVE  Cells(b, at, Len(s)) = s
<1>1. Len(s) \in Nat /\ Len(b) \in Nat /\ at + Len(s) <= Len(b)
  BY DEF Lies
<1>2. \A i \in 1..Len(s) : at + i \in 1..Len(b) /\ (at + 1) + i - 1 = at + i
  BY <1>1
<1>3. Cells(b, at, Len(s)) = [i \in 1..Len(s) |-> b[at + i]]
  BY <1>1, <1>2 DEF Cells
<1>4. s = [i \in 1..Len(s) |-> s[i]]
  OBVIOUS
<1> QED
  BY <1>3, <1>4 DEF Lies

LEMMA SkipIs ==
    ASSUME NEW b \in Seq(Nat), NEW from \in Nat, NEW end \in Nat, from <= end, end < Len(b),
           b[end + 1] = 0, \A i \in from..(end - 1) : b[i + 1] # 0
    PROVE  SkipString(b, from) = end + 1
<1> DEFINE ends == {i \in from..(Len(b) - 1) : Cell(b, i) = 0}
           least == CHOOSE i \in ends : \A j \in ends : i <= j
<1>1. end \in ends /\ \A i \in ends : end <= i
  BY DEF Cell
<1>2. ends # {} /\ ends \subseteq Nat
  BY <1>1
<1>3. SkipString(b, from) = least + 1
  BY <1>2 DEF SkipString
<1> HIDE DEF ends
<1>4. least \in ends /\ \A j \in ends : least <= j
  BY <1>1
<1> HIDE DEF least
<1>5. least \in Nat /\ least <= end /\ end <= least
  BY <1>1, <1>2, <1>4
<1> QED
  BY <1>3, <1>5

(* Where a C string lies it is found, and so is what follows it.           *)
LEMMA StringLies ==
    ASSUME NEW b \in Seq(Nat), NEW s \in Seq(Nat), NEW at \in Nat, 0 \notin ToSet(s),
           Lies(b, at, CString(s))
    PROVE  /\ StringAt(b, at) = s /\ at + Len(s) < Len(b)
           /\ s # <<>> => SkipString(b, at + 1) = at + Len(s) + 1
<1>1. Lies(b, at, s) /\ Lies(b, at + Len(s), <<0>>)
  <2>1. <<0>> \in Seq(Nat) /\ Lies(b, at, s \o <<0>>)
    BY DEF CString
  <2> QED
    BY <2>1, LiesSplit
<1>2. Len(s) \in Nat /\ Len(b) \in Nat /\ at + Len(s) \in Nat
  OBVIOUS
<1>3. at + Len(s) < Len(b) /\ b[(at + Len(s)) + 1] = 0
  BY <1>1, <1>2 DEF Lies
<1>4. \A i \in 1..Len(s) : s[i] # 0
  BY DEF ToSet
<1>5. ASSUME NEW i \in at..(at + Len(s) - 1) PROVE b[i + 1] # 0
  <2>1. (i - at) + 1 \in 1..Len(s) /\ at + ((i - at) + 1) = i + 1
    BY <1>2
  <2>2. b[at + ((i - at) + 1)] = s[(i - at) + 1]
    BY <1>1, <2>1, Zenon DEF Lies
  <2> QED
    BY <1>4, <2>1, <2>2, Zenon
<1>6. SkipString(b, at) = at + Len(s) + 1
  BY <1>2, <1>3, <1>5, SkipIs
<1>7. SkipString(b, at) - at - 1 = Len(s)
  BY <1>2, <1>6
<1>8. StringAt(b, at) = s
  BY <1>1, <1>7, CellsAre DEF StringAt
<1>9. s # <<>> => SkipString(b, at + 1) = at + Len(s) + 1
  <2> SUFFICES ASSUME s # <<>> PROVE SkipString(b, at + 1) = at + Len(s) + 1
    OBVIOUS
  <2>1. at + 1 \in Nat /\ at + 1 <= at + Len(s)
    BY <1>2
  <2>2. \A i \in (at + 1)..(at + Len(s) - 1) : i \in at..(at + Len(s) - 1)
    BY <1>2
  <2> QED
    BY <1>2, <1>3, <1>5, <2>1, <2>2, SkipIs
<1> QED
  BY <1>3, <1>8, <1>9

LEMMA NumberIs ==
    ASSUME NEW n \in Nat
    PROVE  Number(n) \in Seq(Nat) /\ Len(Number(n)) = HDR
<1>1. HDR \in Nat /\ BASE \in Nat \ {0} /\ 0..(BASE - 1) \subseteq Nat
  BY CodecAssumption
<1>2. Number(n) \in [1..HDR -> 0..(BASE - 1)]
  BY <1>1, DigitsAre DEF Number
<1> QED
  BY <1>1, <1>2

(* A size is read back from where it lies.                                 *)
LEMMA NumberLies ==
    ASSUME NEW b \in Seq(Nat), NEW n \in Nat, NEW at \in Nat, HeaderHolds(n, BASE, HDR),
           Lies(b, at, Number(n))
    PROVE  Value(b, at) = n
<1>1. HDR \in Nat /\ BASE \in Nat \ {0}
  BY CodecAssumption
<1>2. Cells(b, at, HDR) = Number(n)
  BY NumberIs, CellsAre
<1> DEFINE digits == Cells(b, at, HDR)
<1>3. Value(b, at) = ValueOf(digits, BASE, HDR)
  BY DEF Value
<1>4. \A i \in 1..HDR : digits[i] = DigitsOf(n, BASE, HDR)[i]
  BY <1>2 DEF Number
<1> HIDE DEF digits
<1> QED
  BY <1>1, <1>3, <1>4, HeaderReads

LEMMA ConcatIs ==
    ASSUME NEW s \in Seq(Nat), NEW t \in Seq(Nat)
    PROVE  s \o t \in Seq(Nat) /\ Len(s \o t) = Len(s) + Len(t)
OBVIOUS

BodyAddsUp(d, s, i, n, a) ==
    Len(d \o s \o i \o n \o a) = Len(d) + Len(s) + Len(i) + Len(n) + Len(a)

LEMMA BodyLength ==
    ASSUME NEW d \in Seq(Nat), NEW s \in Seq(Nat), NEW i \in Seq(Nat),
           NEW n \in Seq(Nat), NEW a \in Seq(Nat)
    PROVE  BodyAddsUp(d, s, i, n, a)
<1> DEFINE ds == d \o s
           dsi == ds \o i
           dsin == dsi \o n
<1>1. ds \in Seq(Nat) /\ Len(ds) = Len(d) + Len(s)
  BY ConcatIs
<1>2. dsi \in Seq(Nat) /\ Len(dsi) = Len(ds) + Len(i)
  <2> HIDE DEF ds
  <2> QED
    BY <1>1, ConcatIs
<1>3. dsin \in Seq(Nat) /\ Len(dsin) = Len(dsi) + Len(n)
  <2> HIDE DEF dsi
  <2> QED
    BY <1>2, ConcatIs
<1>4. Len(dsin \o a) = Len(dsin) + Len(a)
  <2> HIDE DEF dsin
  <2> QED
    BY <1>3, ConcatIs
<1>5. Len(dsin \o a) = Len(d) + Len(s) + Len(i) + Len(n) + Len(a)
  <2> HIDE DEF ds, dsi, dsin
  <2> QED
    BY <1>1, <1>2, <1>3, <1>4
<1> QED
  BY <1>5 DEF BodyAddsUp

(* Each part of a bundle lies behind the ones before it.                   *)
Parts(h, d, s, i, n, a) == h \o (d \o s \o i \o n \o a)
PartsLieIn(b, h, d, s, i, n, a) ==
    /\ b \in Seq(Nat)
    /\ Len(b) = Len(h) + Len(d) + Len(s) + Len(i) + Len(n) + Len(a)
    /\ Lies(b, 0, h)
    /\ Lies(b, Len(h), d)
    /\ Lies(b, Len(h) + Len(d), s)
    /\ Lies(b, Len(h) + Len(d) + Len(s), i)
    /\ Lies(b, Len(h) + Len(d) + Len(s) + Len(i), n)
    /\ Lies(b, Len(h) + Len(d) + Len(s) + Len(i) + Len(n), a)

LEMMA PartsLie ==
    ASSUME NEW h \in Seq(Nat), NEW d \in Seq(Nat), NEW s \in Seq(Nat), NEW i \in Seq(Nat),
           NEW n \in Seq(Nat), NEW a \in Seq(Nat), NEW b, b = Parts(h, d, s, i, n, a)
    PROVE  PartsLieIn(b, h, d, s, i, n, a)
<1> DEFINE ds == d \o s
           dsi == ds \o i
           dsin == dsi \o n
           body == dsin \o a
<1>1. ds \in Seq(Nat) /\ Len(ds) = Len(d) + Len(s)
  BY ConcatIs
<1>2. dsi \in Seq(Nat) /\ Len(dsi) = Len(ds) + Len(i)
  <2> HIDE DEF ds
  <2> QED
    BY <1>1, ConcatIs
<1>3. dsin \in Seq(Nat) /\ Len(dsin) = Len(dsi) + Len(n)
  <2> HIDE DEF dsi
  <2> QED
    BY <1>2, ConcatIs
<1>4. body \in Seq(Nat) /\ Len(body) = Len(dsin) + Len(a)
  <2> HIDE DEF dsin
  <2> QED
    BY <1>3, ConcatIs
<1>5. b = h \o body
  BY DEF Parts
<1>6. b \in Seq(Nat) /\ Len(b) = Len(h) + Len(body)
  <2> HIDE DEF body
  <2> QED
    BY <1>4, <1>5, ConcatIs
<1>7. Len(h) \in Nat /\ Len(d) \in Nat /\ Len(s) \in Nat /\ Len(i) \in Nat /\ Len(n) \in Nat
      /\ Len(a) \in Nat
  OBVIOUS
<1>8. Lies(b, 0, h) /\ Lies(b, Len(h), body)
  <2> HIDE DEF body
  <2>1. Lies(b, 0, b) /\ 0 \in Nat /\ 0 + Len(h) = Len(h)
    BY <1>6, <1>7, LiesWhole
  <2>2. Lies(b, 0, h \o body)
    BY <1>5, <2>1, Zenon
  <2>3. Lies(b, 0, h) /\ Lies(b, 0 + Len(h), body)
    BY <1>4, <1>6, <2>1, <2>2, LiesSplit, Zenon
  <2> QED
    BY <2>1, <2>3
<1>9. Lies(b, Len(h), dsin) /\ Lies(b, Len(h) + Len(dsin), a)
  <2>1. Lies(b, Len(h), dsin \o a)
    BY <1>8
  <2> HIDE DEF dsin
  <2> QED
    BY <1>3, <1>6, <1>7, <2>1, LiesSplit
<1>10. Lies(b, Len(h), dsi) /\ Lies(b, Len(h) + Len(dsi), n)
  <2>1. Lies(b, Len(h), dsi \o n)
    BY <1>9
  <2> HIDE DEF dsi
  <2> QED
    BY <1>2, <1>6, <1>7, <2>1, LiesSplit
<1>11. Lies(b, Len(h), ds) /\ Lies(b, Len(h) + Len(ds), i)
  <2>1. Lies(b, Len(h), ds \o i)
    BY <1>10
  <2> HIDE DEF ds
  <2> QED
    BY <1>1, <1>6, <1>7, <2>1, LiesSplit
<1>12. Lies(b, Len(h), d) /\ Lies(b, Len(h) + Len(d), s)
  <2>1. Lies(b, Len(h), d \o s)
    BY <1>11
  <2> QED
    BY <1>6, <1>7, <2>1, LiesSplit
<1>13. /\ Len(b) = Len(h) + Len(d) + Len(s) + Len(i) + Len(n) + Len(a)
       /\ Len(h) + Len(ds) = Len(h) + Len(d) + Len(s)
       /\ Len(h) + Len(dsi) = Len(h) + Len(d) + Len(s) + Len(i)
       /\ Len(h) + Len(dsin) = Len(h) + Len(d) + Len(s) + Len(i) + Len(n)
  <2> HIDE DEF ds, dsi, dsin, body
  <2> QED
    BY <1>1, <1>2, <1>3, <1>4, <1>6, <1>7
<1> QED
  BY <1>6, <1>8, <1>9, <1>10, <1>11, <1>12, <1>13 DEF PartsLieIn

LEMMA CStringIs ==
    ASSUME NEW s \in Seq(Nat)
    PROVE  CString(s) \in Seq(Nat) /\ Len(CString(s)) = Len(s) + 1
BY DEF CString

(* What is bundled is found again.                                         *)
LEMMA BundleParses ==
    ASSUME message \in Messages
    PROVE  ParsesBack
<1> SUFFICES ASSUME message.what = "bundle",
                    <<>> \notin {message.dest, message.process, message.instr},
                    Cell(Bundle(message), 0) # 0
             PROVE  /\ StringAt(Bundle(message), GetFromBuffer(Bundle(message)).dest)
                            = message.dest
                    /\ StringAt(Bundle(message), GetFromBuffer(Bundle(message)).source)
                            = message.process
                    /\ StringAt(Bundle(message), GetFromBuffer(Bundle(message)).instr)
                            = message.instr
                    /\ GetFromBuffer(Bundle(message)).instr_bytes = Len(message.instr) + 1
                    /\ GetFromBuffer(Bundle(message)).arg_bytes = Len(message.args)
                    /\ GetFromBuffer(Bundle(message)).total_bytes = Len(Bundle(message))
                    /\ IF message.args = <<>> THEN GetFromBuffer(Bundle(message)).args = 0
                       ELSE Cells(Bundle(message), GetFromBuffer(Bundle(message)).args,
                                  GetFromBuffer(Bundle(message)).arg_bytes) = message.args
  BY DEF ParsesBack
<1> DEFINE D == message.dest
           S == message.process
           I == message.instr
           A == message.args
           h == Number(HDR + Len(CString(D) \o CString(S) \o CString(I) \o Number(Len(A)) \o A))
           b == Bundle(message)
           source == HDR + Len(D) + 1
           instr == source + Len(S) + 1
           arglen == instr + Len(I) + 1
<1>1. D \in Names /\ S \in Names /\ I \in Names /\ A \in Arguments
  BY DEF Messages
<1>2. /\ D \in Seq(Nat) /\ S \in Seq(Nat) /\ I \in Seq(Nat) /\ A \in Seq(Nat)
      /\ 0 \notin ToSet(D) /\ 0 \notin ToSet(S) /\ 0 \notin ToSet(I)
  <2> HIDE DEF D, S, I, A
  <2>1. Names \subseteq Seq(Nat) /\ Arguments \subseteq Seq(Nat)
        /\ \A n \in Names : 0 \notin ToSet(n)
    BY CodecAssumption
  <2> QED
    BY <1>1, <2>1, Zenon
<1>3. /\ HeaderHolds(Len(A), BASE, HDR)
      /\ HeaderHolds(2 * HDR + Len(D) + Len(S) + Len(I) + 3 + Len(A), BASE, HDR)
  BY <1>1, CodecAssumption
<1>4. D # <<>> /\ S # <<>> /\ I # <<>>
  OBVIOUS
<1>5. b = Parts(h, CString(D), CString(S), CString(I), Number(Len(A)), A)
  BY DEF Bundle, Parts
<1> HIDE DEF D, S, I, A, b
<1>6. /\ Len(D) \in Nat /\ Len(S) \in Nat /\ Len(I) \in Nat /\ Len(A) \in Nat
      /\ HDR \in Nat /\ HDR > 0
      /\ source \in Nat /\ instr \in Nat /\ arglen \in Nat
  <2>1. Len(D) \in Nat /\ Len(S) \in Nat /\ Len(I) \in Nat /\ Len(A) \in Nat
    BY <1>2
  <2>2. HDR \in Nat /\ HDR > 0
    BY CodecAssumption
  <2> QED
    BY <2>1, <2>2
<1>7. /\ CString(D) \in Seq(Nat) /\ Len(CString(D)) = Len(D) + 1
      /\ CString(S) \in Seq(Nat) /\ Len(CString(S)) = Len(S) + 1
      /\ CString(I) \in Seq(Nat) /\ Len(CString(I)) = Len(I) + 1
      /\ Number(Len(A)) \in Seq(Nat) /\ Len(Number(Len(A))) = HDR
  BY <1>2, <1>6, CStringIs, NumberIs
<1>8. /\ h = Number(2 * HDR + Len(D) + Len(S) + Len(I) + 3 + Len(A))
      /\ h \in Seq(Nat) /\ Len(h) = HDR
  <2> DEFINE bodyLength == Len(CString(D) \o CString(S) \o CString(I) \o Number(Len(A)) \o A)
  <2>1. bodyLength = (Len(D) + 1) + (Len(S) + 1) + (Len(I) + 1) + HDR + Len(A)
    <3>1. bodyLength = Len(CString(D)) + Len(CString(S)) + Len(CString(I)) + Len(Number(Len(A)))
                            + Len(A)
      <4>1. BodyAddsUp(CString(D), CString(S), CString(I), Number(Len(A)), A)
        BY <1>2, <1>7, BodyLength
      <4> QED
        BY <4>1 DEF BodyAddsUp
    <3> HIDE DEF bodyLength
    <3> QED
      BY <1>7, <3>1
  <2> HIDE DEF bodyLength
  <2>2. HDR + bodyLength = 2 * HDR + Len(D) + Len(S) + Len(I) + 3 + Len(A)
        /\ HDR + bodyLength \in Nat
    BY <1>6, <2>1
  <2>3. Number(HDR + bodyLength) \in Seq(Nat) /\ Len(Number(HDR + bodyLength)) = HDR
    BY <2>2, NumberIs
  <2> QED
    BY <2>2, <2>3 DEF bodyLength
<1> HIDE DEF h
<1>9. /\ b \in Seq(Nat)
      /\ Len(b) = HDR + (Len(D) + 1) + (Len(S) + 1) + (Len(I) + 1) + HDR + Len(A)
      /\ Lies(b, 0, h)
      /\ Lies(b, HDR, CString(D))
      /\ Lies(b, HDR + (Len(D) + 1), CString(S))
      /\ Lies(b, HDR + (Len(D) + 1) + (Len(S) + 1), CString(I))
      /\ Lies(b, HDR + (Len(D) + 1) + (Len(S) + 1) + (Len(I) + 1), Number(Len(A)))
      /\ Lies(b, HDR + (Len(D) + 1) + (Len(S) + 1) + (Len(I) + 1) + HDR, A)
  <2>1. /\ b \in Seq(Nat)
        /\ Len(b) = Len(h) + Len(CString(D)) + Len(CString(S)) + Len(CString(I))
                        + Len(Number(Len(A))) + Len(A)
        /\ Lies(b, 0, h)
        /\ Lies(b, Len(h), CString(D))
        /\ Lies(b, Len(h) + Len(CString(D)), CString(S))
        /\ Lies(b, Len(h) + Len(CString(D)) + Len(CString(S)), CString(I))
        /\ Lies(b, Len(h) + Len(CString(D)) + Len(CString(S)) + Len(CString(I)), Number(Len(A)))
        /\ Lies(b, Len(h) + Len(CString(D)) + Len(CString(S)) + Len(CString(I))
                        + Len(Number(Len(A))), A)
    <3> DEFINE d == CString(D)
               s == CString(S)
               i == CString(I)
               n == Number(Len(A))
    <3>1. d \in Seq(Nat) /\ s \in Seq(Nat) /\ i \in Seq(Nat) /\ n \in Seq(Nat)
          /\ h \in Seq(Nat) /\ A \in Seq(Nat) /\ b = Parts(h, d, s, i, n, A)
      BY <1>2, <1>5, <1>7, <1>8
    <3> HIDE DEF d, s, i, n
    <3>2. PartsLieIn(b, h, d, s, i, n, A)
      BY <3>1, PartsLie
    <3> QED
      BY <3>2 DEF d, s, i, n, PartsLieIn
  <2> QED
    BY <1>7, <1>8, <2>1
<1>10. /\ Lies(b, source, CString(S)) /\ Lies(b, instr, CString(I))
       /\ Lies(b, arglen, Number(Len(A))) /\ Lies(b, arglen + HDR, A)
  <2>1. /\ source = HDR + (Len(D) + 1)
        /\ instr = HDR + (Len(D) + 1) + (Len(S) + 1)
        /\ arglen = HDR + (Len(D) + 1) + (Len(S) + 1) + (Len(I) + 1)
        /\ arglen + HDR = HDR + (Len(D) + 1) + (Len(S) + 1) + (Len(I) + 1) + HDR
    BY <1>6
  <2> HIDE DEF source, instr, arglen
  <2> QED
    BY <1>9, <2>1
<1>11. StringAt(b, HDR) = D /\ SkipString(b, HDR + 1) = source
  BY <1>2, <1>4, <1>6, <1>9, StringLies
<1>12. StringAt(b, source) = S /\ SkipString(b, source + 1) = instr
  <2> HIDE DEF source
  <2> QED
    BY <1>2, <1>4, <1>6, <1>9, <1>10, StringLies
<1>13. StringAt(b, instr) = I /\ SkipString(b, instr + 1) = arglen
  <2> HIDE DEF instr, arglen
  <2>1. b \in Seq(Nat) /\ I \in Seq(Nat) /\ 0 \notin ToSet(I) /\ I # <<>> /\ instr \in Nat
    BY <1>2, <1>4, <1>6, <1>9, Zenon
  <2>2. Lies(b, instr, CString(I))
    BY <1>10, Zenon
  <2>3. StringAt(b, instr) = I /\ SkipString(b, instr + 1) = instr + Len(I) + 1
    BY <2>1, <2>2, StringLies, Zenon
  <2> QED
    BY <2>3 DEF arglen
<1>14. arglen - instr = Len(I) + 1 /\ arglen + HDR \in Nat /\ arglen + HDR # 0
  BY <1>6
<1> HIDE DEF source, instr, arglen
<1>15. Value(b, arglen) = Len(A)
  BY <1>3, <1>6, <1>9, <1>10, NumberLies
<1>16. Value(b, 0) = Len(b)
  <2>1. 2 * HDR + Len(D) + Len(S) + Len(I) + 3 + Len(A) = Len(b)
        /\ 2 * HDR + Len(D) + Len(S) + Len(I) + 3 + Len(A) \in Nat
    <3>1. Len(b) = HDR + (Len(D) + 1) + (Len(S) + 1) + (Len(I) + 1) + HDR + Len(A)
      BY <1>9
    <3> QED
      BY <1>6, <3>1
  <2> QED
    BY <1>3, <1>8, <1>9, <2>1, NumberLies
<1>17. GetFromBuffer(b) =
            [dest |-> HDR, source |-> source, instr |-> instr, instr_bytes |-> arglen - instr,
             args |-> IF Len(A) # 0 THEN arglen + HDR ELSE 0,
             arg_bytes |-> Len(A), total_bytes |-> Len(b)]
  <2>1. Cell(b, 0) # 0
    BY DEF b
  <2> QED
    BY <1>11, <1>12, <1>13, <1>15, <1>16, <2>1 DEF GetFromBuffer
<1>18. Cells(b, arglen + HDR, Len(A)) = A
  BY <1>2, <1>9, <1>10, <1>14, CellsAre
<1>19. A = <<>> <=> Len(A) = 0
  BY <1>2
<1>20. /\ StringAt(b, GetFromBuffer(b).dest) = D
       /\ StringAt(b, GetFromBuffer(b).source) = S
       /\ StringAt(b, GetFromBuffer(b).instr) = I
       /\ GetFromBuffer(b).instr_bytes = Len(I) + 1
       /\ GetFromBuffer(b).arg_bytes = Len(A)
       /\ GetFromBuffer(b).total_bytes = Len(b)
       /\ IF A = <<>> THEN GetFromBuffer(b).args = 0
          ELSE Cells(b, GetFromBuffer(b).args, GetFromBuffer(b).arg_bytes) = A
  BY <1>11, <1>12, <1>13, <1>14, <1>17, <1>18, <1>19
<1> QED
  BY <1>20 DEF b, D, S, I, A

LEMMA SplitAt ==
    ASSUME NEW X, NEW rooms \in Seq(X), NEW i \in 1..Len(rooms)
    PROVE  /\ SubSeq(rooms, 1, i - 1) \in Seq(X) /\ SubSeq(rooms, i + 1, Len(rooms)) \in Seq(X)
           /\ rooms = SubSeq(rooms, 1, i - 1)
                        \o (<<rooms[i]>> \o SubSeq(rooms, i + 1, Len(rooms)))
<1> DEFINE N == Len(rooms)
           front == SubSeq(rooms, 1, i - 1)
           back == SubSeq(rooms, i, N)
           both == front \o back
<1>1. N \in Nat /\ i \in 1..N /\ \A j \in 1..N : rooms[j] \in X
  OBVIOUS
<1>2. /\ front \in Seq(X) /\ Len(front) = i - 1
      /\ \A j \in 1..(i - 1) : front[j] = rooms[j]
  <2>1. 1 \in Int /\ i - 1 \in Int /\ \A j \in 1..(i - 1) : rooms[j] \in X
    BY <1>1
  <2>2. /\ front \in Seq(X) /\ Len(front) = IF 1 <= i - 1 THEN (i - 1) - 1 + 1 ELSE 0
        /\ \A j \in 1..((i - 1) - 1 + 1) : front[j] = rooms[1 + j - 1]
    BY <2>1, SubSeqProperties
  <2> HIDE DEF front
  <2> QED
    BY <1>1, <2>2
<1>3. /\ back \in Seq(X) /\ Len(back) = N - i + 1
      /\ \A j \in 1..(N - i + 1) : back[j] = rooms[i + j - 1]
  <2>1. i \in Int /\ N \in Int /\ \A j \in i..N : rooms[j] \in X
    BY <1>1
  <2>2. /\ back \in Seq(X) /\ Len(back) = IF i <= N THEN N - i + 1 ELSE 0
        /\ \A j \in 1..(N - i + 1) : back[j] = rooms[i + j - 1]
    BY <2>1, SubSeqProperties
  <2> HIDE DEF back
  <2> QED
    BY <1>1, <2>2
<1>4. back = <<rooms[i]>> \o SubSeq(rooms, i + 1, N)
  BY SubSeqRecursiveFirst
<1>5. SubSeq(rooms, i + 1, N) \in Seq(X)
  <2>1. i + 1 \in Int /\ N \in Int /\ \A j \in (i + 1)..N : rooms[j] \in X
    BY <1>1
  <2> QED
    BY <2>1, SubSeqProperties
<1> HIDE DEF front, back
<1>6. /\ both \in Seq(X) /\ Len(both) = Len(front) + Len(back)
      /\ \A j \in 1..(Len(front) + Len(back)) :
            both[j] = IF j <= Len(front) THEN front[j] ELSE back[j - Len(front)]
  BY <1>2, <1>3, ConcatProperties
<1> HIDE DEF both
<1>7. Len(both) = N
  BY <1>1, <1>2, <1>3, <1>6
<1>8. ASSUME NEW j \in 1..N PROVE both[j] = rooms[j]
  <2>1. both[j] = IF j <= i - 1 THEN front[j] ELSE back[j - (i - 1)]
    BY <1>1, <1>2, <1>3, <1>6
  <2>2. CASE j <= i - 1
    BY <1>1, <1>2, <2>1, <2>2
  <2>3. CASE j > i - 1
    <3>1. j - (i - 1) \in 1..(N - i + 1) /\ i + (j - (i - 1)) - 1 = j
      BY <1>1, <2>3
    <3> QED
      BY <1>1, <1>3, <2>1, <2>3, <3>1
  <2> QED
    BY <1>1, <2>2, <2>3
<1>9. both = rooms
  BY <1>6, <1>7, <1>8, SeqEqual
<1> QED
  BY <1>2, <1>4, <1>5, <1>9 DEF front, both

LEMMA ConcatShifts ==
    ASSUME NEW s \in Seq(Nat), NEW t \in Seq(Nat), NEW u \in Seq(Nat)
    PROVE  (s \o t) \o u = s \o (t \o u)
<1> DEFINE X == Nat
<1>1. s \in Seq(X) /\ t \in Seq(X) /\ u \in Seq(X)
  OBVIOUS
<1> HIDE DEF X
<1> QED
  BY <1>1, ConcatAssociative, SMTT(40)

(* Each string of a pack lies behind the rooms of the ones before it.      *)
LEMMA StringUnpacks ==
    ASSUME NEW strings \in Seq(Seq(Nat)), \A n \in ToSet(strings) : 0 \notin ToSet(n),
           NEW i \in DOMAIN strings
    PROVE  LET pack == PackStrings(strings)
           IN  /\ PackGetString(pack, i - 1) = strings[i]
               /\ pack.strings[i] + Len(strings[i]) < Len(pack.buffer)
<1> DEFINE N == Len(strings)
           rooms == [j \in DOMAIN strings |-> Room(strings[j])]
           front == SubSeq(rooms, 1, i - 1)
           rest == SubSeq(rooms, i + 1, N)
           at == Len(FlattenSeq(front))
           buffer == FlattenSeq(rooms)
           s == strings[i]
           behind == <<0>> \o FlattenSeq(rest)
           pack == PackStrings(strings)
<1>1. /\ N \in Nat /\ DOMAIN strings = 1..N /\ i \in 1..N
      /\ s \in Seq(Nat) /\ \A j \in 1..N : strings[j] \in Seq(Nat)
  OBVIOUS
<1>2. 0 \notin ToSet(s)
  <2>1. s \in ToSet(strings)
    BY DEF ToSet
  <2> QED
    BY <2>1
<1>3. pack.strings[i] = at /\ pack.buffer = buffer
  BY DEF PackStrings
<1>4. ASSUME NEW x \in Seq(Nat) PROVE Room(x) \in Seq(Nat) /\ Room(x) = CString(x) \o <<0>>
  <2> DEFINE z == <<0>>
  <2>1. z \in Seq(Nat) /\ <<0, 0>> = z \o z
    OBVIOUS
  <2>2. Room(x) = x \o (z \o z)
    BY <2>1, Zenon DEF Room
  <2>3. CString(x) \o z = (x \o z) \o z
    BY Zenon DEF CString
  <2> SUFFICES Room(x) \in Seq(Nat) /\ Room(x) = CString(x) \o z
    OBVIOUS
  <2> HIDE DEF z
  <2>4. z \o z \in Seq(Nat)
    BY <2>1, ConcatIs
  <2>5. x \o (z \o z) \in Seq(Nat)
    BY <2>4, ConcatIs
  <2>6. (x \o z) \o z = x \o (z \o z)
    BY <2>1, ConcatShifts
  <2> QED
    BY <2>1, <2>2, <2>3, <2>5, <2>6, Zenon
<1>r. rooms \in [1..N -> Seq(Nat)] /\ rooms[i] = Room(s)
  BY <1>1, <1>4
<1> HIDE DEF rooms
<1>s. rooms[i] = CString(s) \o <<0>>
  <2>1. Room(s) = CString(s) \o <<0>>
    BY <1>1, <1>4
  <2> QED
    BY <1>r, <2>1, Zenon
<1>5. rooms \in Seq(Seq(Nat)) /\ Len(rooms) = N
  <2>1. N \in Nat /\ rooms \in [1..N -> Seq(Nat)]
    BY <1>1, <1>r
  <2> HIDE DEF N
  <2> QED
    BY <2>1
<1>t. rooms[i] \in Seq(Nat)
  BY <1>1, <1>r
<1> HIDE DEF N, rooms
<1>6. front \in Seq(Seq(Nat)) /\ rest \in Seq(Seq(Nat)) /\ rooms = front \o (<<rooms[i]>> \o rest)
  BY <1>1, <1>5, SplitAt
<1>7. /\ FlattenSeq(front) \in Seq(Nat) /\ FlattenSeq(rest) \in Seq(Nat)
      /\ buffer \in Seq(Nat)
  BY <1>5, <1>6, FlattenTyped
<1> HIDE DEF front, rest
<1>8. buffer = FlattenSeq(front) \o (rooms[i] \o FlattenSeq(rest))
  <2> DEFINE one == <<rooms[i]>>
  <2>1. rooms[i] \in Seq(Nat)
    BY <1>t
  <2>2. one \in Seq(Seq(Nat)) /\ FlattenSeq(one) = rooms[i]
    BY <2>1, FlattenOne
  <2>3. rooms = front \o (one \o rest)
    BY <1>6
  <2> HIDE DEF one
  <2>4. FlattenSeq(one \o rest) = FlattenSeq(one) \o FlattenSeq(rest)
        /\ one \o rest \in Seq(Seq(Nat))
    BY <1>6, <2>2, FlattenConcat, ConcatProperties
  <2>5. FlattenSeq(front \o (one \o rest)) = FlattenSeq(front) \o FlattenSeq(one \o rest)
    BY <1>6, <2>4, FlattenConcat
  <2> QED
    BY <2>2, <2>3, <2>4, <2>5
<1> DEFINE F == FlattenSeq(front)
           R == FlattenSeq(rest)
<1>9. buffer = F \o (CString(s) \o behind) /\ behind \in Seq(Nat) /\ CString(s) \in Seq(Nat)
  <2>1. F \in Seq(Nat) /\ R \in Seq(Nat)
    BY <1>7
  <2>2. buffer = F \o ((CString(s) \o <<0>>) \o R)
    BY <1>s, <1>8, Zenon
  <2>3. CString(s) \in Seq(Nat) /\ <<0>> \in Seq(Nat)
    BY <1>1, CStringIs
  <2> DEFINE c == CString(s)
             z == <<0>>
  <2> HIDE DEF F, R, c, z
  <2>4. (c \o z) \o R = c \o (z \o R)
    BY <2>1, <2>3, ConcatShifts, Zenon DEF c, z
  <2>5. z \o R \in Seq(Nat)
    BY <2>1, <2>3, ConcatIs DEF z
  <2> QED
    BY <2>2, <2>3, <2>4, <2>5 DEF c, z, R
<1>10. at \in Nat /\ Lies(buffer, at, CString(s))
  <2>1. F \in Seq(Nat) /\ Len(F) = at /\ at \in Nat
    BY <1>7
  <2> DEFINE c == CString(s)
  <2> HIDE DEF F, at, c, behind, buffer
  <2>2. c \in Seq(Nat) /\ behind \in Seq(Nat) /\ buffer = F \o (c \o behind)
        /\ buffer \in Seq(Nat)
    BY <1>7, <1>9, Zenon DEF c
  <2>c. c \o behind \in Seq(Nat)
    BY <2>2, ConcatIs
  <2>3. Lies(buffer, 0, F \o (c \o behind)) /\ 0 \in Nat /\ 0 + Len(F) = at
    <3>1. Lies(buffer, 0, buffer)
      BY <2>2, LiesWhole
    <3>2. 0 + Len(F) = at
      BY <2>1
    <3> QED
      BY <2>2, <3>1, <3>2, Zenon
  <2>4. Lies(buffer, 0 + Len(F), c \o behind)
    BY <2>1, <2>2, <2>c, <2>3, LiesSplit
  <2>d. Lies(buffer, at, c \o behind)
    BY <2>3, <2>4, Zenon
  <2>5. Lies(buffer, at, c)
    BY <2>1, <2>2, <2>d, LiesSplit, Zenon
  <2> QED
    BY <2>1, <2>5 DEF c
<1>11. StringAt(buffer, at) = s /\ at + Len(s) < Len(buffer)
  BY <1>1, <1>2, <1>7, <1>10, StringLies
<1>12. PackGetString(pack, i - 1) = StringAt(buffer, at)
  <2>1. (i - 1) + 1 = i
    BY <1>1
  <2> HIDE DEF pack, at, buffer
  <2> QED
    BY <1>3, <2>1 DEF PackGetString
<1> QED
  BY <1>3, <1>11, <1>12

LEMMA PackUnpacks ==
    ASSUME message \in Messages \cup {AnyMessage}
    PROVE  PackGivesStringsBack
<1> SUFFICES ASSUME message.what = "pack", NEW i \in DOMAIN message.strings
             PROVE  LET pack == PackStrings(message.strings)
                    IN  /\ PackGetString(pack, i - 1) = message.strings[i]
                        /\ pack.strings[i] + Len(message.strings[i]) < Len(pack.buffer)
  BY DEF PackGivesStringsBack
<1>1. message.strings \in Packs
  BY DEF Messages, AnyMessage
<1>2. message.strings \in Seq(Seq(Nat)) /\ \A n \in ToSet(message.strings) : 0 \notin ToSet(n)
  <2>1. Packs \subseteq Seq(Seq(Nat)) /\ \A p \in Packs : \A n \in ToSet(p) : 0 \notin ToSet(n)
    BY CodecAssumption
  <2> QED
    BY <1>1, <2>1
<1> QED
  BY <1>2, StringUnpacks

-----------------------------------------------------------------------------
(* The allocations behind an entry.                                        *)

(* Copies are freed from the last one back to the first, and each has a    *)
(* number of its own.                                                      *)
FreesInTurn(first) == FreeCopies(first - 1) \o <<Argv, Entry>>

LEMMA AllFreed ==
    ASSUME NEW first \in Nat \ {0}
    PROVE  IsInjective(FreesInTurn(first)) /\ ToSet(FreesInTurn(first)) = 1..(first + 1)
<1> DEFINE m == first - 1
           copies == FreeCopies(m)
           rest == <<Argv, Entry>>
           freed == FreesInTurn(first)
<1>m. m \in Nat /\ first = m + 1 /\ first \in Nat
  OBVIOUS
<1>3. freed = copies \o rest
  BY DEF FreesInTurn
<1> HIDE DEF m, freed
<1>1. /\ copies \in Seq(Nat) /\ Len(copies) = m
      /\ \A i \in 1..m : copies[i] = first + 2 - i
  <2>1. copies = [i \in 1..m |-> (m + 1 - i) + 2]
    BY DEF FreeCopies, Arg
  <2>2. \A i \in 1..m : (m + 1 - i) + 2 \in Nat /\ (m + 1 - i) + 2 = first + 2 - i
    BY <1>m
  <2> HIDE DEF copies
  <2>3. copies \in [1..m -> Nat]
    BY <2>1, <2>2
  <2>4. copies \in Seq(Nat) /\ Len(copies) = m
    BY <1>m, <2>3
  <2> QED
    BY <2>1, <2>2, <2>4
<1>2. rest \in Seq(Nat) /\ Len(rest) = 2 /\ rest[1] = 2 /\ rest[2] = 1
  BY DEF Argv, Entry
<1> HIDE DEF copies, rest
<1>4. /\ freed \in Seq(Nat) /\ Len(freed) = first + 1
      /\ \A i \in 1..(first + 1) :
            freed[i] = IF i <= m THEN copies[i] ELSE rest[i - m]
  <2>1. /\ copies \o rest \in Seq(Nat) /\ Len(copies \o rest) = Len(copies) + Len(rest)
        /\ \A i \in 1..(Len(copies) + Len(rest)) : (copies \o rest)[i] =
                IF i <= Len(copies) THEN copies[i] ELSE rest[i - Len(copies)]
    BY <1>1, <1>2, ConcatProperties
  <2>2. Len(copies) + Len(rest) = first + 1
    BY <1>m, <1>1, <1>2
  <2> QED
    BY <1>m, <1>1, <1>3, <2>1, <2>2
<1>5. ASSUME NEW i \in 1..(first + 1) PROVE freed[i] = first + 2 - i
  <2>1. CASE i <= m
    BY <1>m, <1>1, <1>4, <2>1
  <2>2. CASE i = first
    <3>1. i - m = 1 /\ ~(i <= m) /\ first + 2 - i = 2
      BY <1>m, <2>2
    <3> QED
      BY <1>2, <1>4, <3>1
  <2>3. CASE i = first + 1
    <3>1. i - m = 2 /\ ~(i <= m) /\ first + 2 - i = 1
      BY <1>m, <2>3
    <3> QED
      BY <1>2, <1>4, <3>1
  <2> QED
    BY <1>m, <2>1, <2>2, <2>3
<1>6. DOMAIN freed = 1..(first + 1)
  BY <1>m, <1>4
<1>7. IsInjective(freed)
  BY <1>m, <1>5, <1>6 DEF IsInjective
<1>8. ASSUME NEW x \in 1..(first + 1) PROVE x \in ToSet(freed)
  <2>1. first + 2 - x \in 1..(first + 1) /\ first + 2 - (first + 2 - x) = x
    BY <1>m
  <2>2. freed[first + 2 - x] = x
    BY <1>5, <2>1
  <2> QED
    BY <1>6, <2>1, <2>2 DEF ToSet
<1>9. ASSUME NEW i \in 1..(first + 1) PROVE freed[i] \in 1..(first + 1)
  BY <1>m, <1>5
<1> QED
  <2>1. ToSet(freed) = 1..(first + 1)
    BY <1>6, <1>8, <1>9 DEF ToSet
  <2> QED
    BY <1>7, <2>1 DEF freed

(* wimp_free_entry: the copies in their order, then the entry.             *)
LEMMA FreeEntryIs ==
    ASSUME NEW A, NEW args \in Seq(A)
    PROVE  IsInjective(FreeEntry(args)) /\ ToSet(FreeEntry(args)) = (1..(Len(args) + 2)) \ {Argv}
<1> DEFINE n == Len(args)
           copies == [i \in DOMAIN args |-> Arg(i)]
           rest == <<Entry>>
           freed == FreeEntry(args)
<1>1. n \in Nat /\ DOMAIN args = 1..n
  OBVIOUS
<1>2. copies \in Seq(Nat) /\ Len(copies) = n /\ \A i \in 1..n : copies[i] = i + 2
  <2>1. copies = [i \in 1..n |-> i + 2]
    BY <1>1 DEF Arg
  <2> HIDE DEF n, copies
  <2>2. copies \in [1..n -> Nat]
    BY <1>1, <2>1
  <2>3. copies \in Seq(Nat) /\ Len(copies) = n
    BY <1>1, <2>2
  <2> QED
    BY <2>1, <2>3
<1>3. rest \in Seq(Nat) /\ Len(rest) = 1 /\ rest[1] = 1
  BY DEF Entry
<1>4. freed = copies \o rest
  BY DEF FreeEntry
<1> SUFFICES IsInjective(freed) /\ ToSet(freed) = (1..(n + 2)) \ {2}
  BY DEF Argv
<1> HIDE DEF n, copies, rest, freed
<1>5. /\ freed \in Seq(Nat) /\ Len(freed) = n + 1
      /\ \A i \in 1..(n + 1) : freed[i] = IF i <= n THEN i + 2 ELSE 1
  <2>1. /\ copies \o rest \in Seq(Nat) /\ Len(copies \o rest) = Len(copies) + Len(rest)
        /\ \A i \in 1..(Len(copies) + Len(rest)) : (copies \o rest)[i] =
                IF i <= Len(copies) THEN copies[i] ELSE rest[i - Len(copies)]
    BY <1>2, <1>3, ConcatProperties
  <2>2. freed \in Seq(Nat) /\ Len(freed) = n + 1
    BY <1>1, <1>2, <1>3, <1>4, <2>1
  <2>3. ASSUME NEW i \in 1..(n + 1) PROVE freed[i] = IF i <= n THEN i + 2 ELSE 1
    <3>1. freed[i] = IF i <= n THEN copies[i] ELSE rest[i - n]
      BY <1>1, <1>2, <1>3, <1>4, <2>1
    <3>2. ~(i <= n) => i - n = 1
      BY <1>1
    <3> QED
      BY <1>1, <1>2, <1>3, <3>1, <3>2
  <2> QED
    BY <2>2, <2>3
<1>6. DOMAIN freed = 1..(n + 1)
  BY <1>1, <1>5
<1>7. IsInjective(freed)
  BY <1>1, <1>5, <1>6 DEF IsInjective
<1>8. ASSUME NEW x \in (1..(n + 2)) \ {2} PROVE x \in ToSet(freed)
  <2>1. CASE x = 1
    <3>1. n + 1 \in 1..(n + 1) /\ freed[n + 1] = x
      BY <1>1, <1>5, <2>1
    <3> QED
      BY <1>6, <3>1 DEF ToSet
  <2>2. CASE x # 1
    <3>1. x - 2 \in 1..(n + 1) /\ freed[x - 2] = x
      BY <1>1, <1>5, <2>2
    <3> QED
      BY <1>6, <3>1 DEF ToSet
  <2> QED
    BY <2>1, <2>2
<1>9. ASSUME NEW i \in 1..(n + 1) PROVE freed[i] \in (1..(n + 2)) \ {2}
  BY <1>1, <1>5
<1> QED
  BY <1>6, <1>7, <1>8, <1>9 DEF ToSet

LEMMA MaxArgsNat == MaxArgs \in Nat
BY LaunchAssumption, Zenon

(* What GetEntry does in its four cases.                                   *)
LEMMA EntryIs ==
    ASSUME NEW n \in 0..MaxArgs, NEW args \in [1..n -> Args \cup {NULL}],
           NEW failing \in 1..MaxAllocs
    PROVE  LET e == GetEntry(args, failing)
           IN  \/ /\ e.result = NULL
                  /\ \/ e.allocated = {} /\ e.freed = <<>>
                     \/ e.allocated = {Entry} /\ e.freed = <<Entry>>
                     \/ \E first \in Nat \ {0} :
                            e.allocated = 1..(first + 1) /\ e.freed = FreesInTurn(first)
               \/ /\ e.result = args \o <<NULL>> /\ e.allocated = 1..(Len(args) + 2)
                  /\ NULL \notin ToSet(args)
<1> DEFINE bad == {i \in DOMAIN args : args[i] = NULL \/ failing = Arg(i)}
           first == CHOOSE i \in bad : \A j \in bad : i <= j
           e == GetEntry(args, failing)
<1>1. n \in Nat /\ DOMAIN args = 1..n /\ failing \in Nat /\ failing > 0 /\ Entry = 1 /\ Argv = 2
  BY MaxArgsNat DEF MaxAllocs, Entry, Argv
<1>2. CASE failing = Entry
  <2>1. e.result = NULL /\ e.allocated = 1..0 /\ e.freed = <<>>
    BY <1>1, <1>2 DEF GetEntry
  <2> QED
    BY <2>1
<1>3. CASE failing = Argv
  <2>1. e.result = NULL /\ e.allocated = 1..1 /\ e.freed = <<Entry>>
    BY <1>1, <1>3 DEF GetEntry
  <2> QED
    BY <1>1, <2>1
<1>4. CASE failing # Entry /\ failing # Argv /\ bad # {}
  <2>1. failing > Argv
    BY <1>1, <1>4
  <2>2. /\ e.result = NULL /\ e.allocated = 1..(first + 1)
        /\ e.freed = FreeCopies(first - 1) \o <<Argv, Entry>>
    BY <1>1, <1>4, <2>1 DEF GetEntry
  <2>3. bad \subseteq Nat /\ bad \subseteq Nat \ {0}
    BY <1>1
  <2> HIDE DEF bad
  <2>4. \E i \in bad : \A j \in bad : i <= j
    BY <1>4, <2>3, LeastElement
  <2>5. first \in Nat \ {0}
    BY <2>3, <2>4
  <2> HIDE DEF first
  <2> QED
    BY <2>2, <2>5 DEF FreesInTurn
<1>5. CASE failing # Entry /\ failing # Argv /\ bad = {}
  <2>1. e.result = args \o <<NULL>> /\ e.allocated = 1..(Len(args) + 2)
    BY <1>1, <1>5 DEF GetEntry
  <2>2. NULL \notin ToSet(args)
    BY <1>5 DEF ToSet
  <2> QED
    BY <2>1, <2>2
<1> QED
  BY <1>2, <1>3, <1>4, <1>5

LEMMA EntryIsFreedOnce ==
    ASSUME launch \in Launches \cup {AnyLaunch}
    PROVE  EntryFreedOnce
<1> DEFINE args == launch.args
           e == GetEntry(args, launch.failing)
           freed == IF e.result = NULL THEN e.freed ELSE FreeEntry(args)
<1> SUFFICES ASSUME launch.what = "entry"
             PROVE  /\ IsInjective(freed) /\ ToSet(freed) \subseteq e.allocated
                    /\ e.allocated \ ToSet(freed) \subseteq IF e.result = NULL THEN {} ELSE {Argv}
                    /\ e.result # NULL =>
                           e.result = Append(args, NULL) /\ NULL \notin ToSet(args)
  BY DEF EntryFreedOnce
<1>1. PICK n \in 0..MaxArgs : args \in [1..n -> Args \cup {NULL}]
  BY DEF Launches, AnyLaunch
<1>2. launch.failing \in 1..MaxAllocs
  BY DEF Launches, AnyLaunch
<1>3. n \in Nat /\ args \in Seq(Args \cup {NULL}) /\ Len(args) = n
  BY <1>1, MaxArgsNat
<1>4. \/ /\ e.result = NULL
         /\ \/ e.allocated = {} /\ e.freed = <<>>
            \/ e.allocated = {Entry} /\ e.freed = <<Entry>>
            \/ \E first \in Nat \ {0} :
                   e.allocated = 1..(first + 1) /\ e.freed = FreesInTurn(first)
      \/ /\ e.result = args \o <<NULL>> /\ e.allocated = 1..(Len(args) + 2)
         /\ NULL \notin ToSet(args)
  BY <1>1, <1>2, EntryIs
<1>5. args \o <<NULL>> # NULL /\ args \o <<NULL>> = Append(args, NULL)
  <2> DEFINE A == Args \cup {NULL}
             longer == Append(args, NULL)
  <2>a. args \o <<NULL>> = longer
    BY <1>3
  <2>b. NULL \in A /\ args \in Seq(A)
    BY <1>3
  <2> HIDE DEF A
  <2>c. longer \in Seq(A) /\ Len(longer) = n + 1
    BY <1>3, <2>b
  <2> HIDE DEF longer
  <2>1. longer \in [1..(n + 1) -> Args \cup {NULL}] /\ args \o <<NULL>> = longer
    BY <2>a, <2>c DEF A
  <2>2. n + 1 \in 1..(MaxArgs + 1)
    BY MaxArgsNat
  <2>3. longer # NULL
    <3>1. \A m \in 1..(MaxArgs + 1) : \A x \in [1..m -> Args \cup {NULL}] : x # NULL
      BY LaunchAssumption, Zenon
    <3> QED
      BY <2>1, <2>2, <3>1, Zenon
  <2> QED
    BY <2>a, <2>3 DEF longer
<1> HIDE DEF e, args
<1>6. CASE e.result = NULL /\ e.allocated = {} /\ e.freed = <<>>
  BY <1>6 DEF IsInjective, ToSet
<1>7. CASE e.result = NULL /\ e.allocated = {Entry} /\ e.freed = <<Entry>>
  BY <1>7 DEF IsInjective, ToSet
<1>8. ASSUME NEW first \in Nat \ {0}, e.result = NULL, e.allocated = 1..(first + 1),
             e.freed = FreesInTurn(first)
      PROVE  IsInjective(freed) /\ ToSet(freed) = e.allocated
  BY <1>8, AllFreed
<1>9. CASE e.result = args \o <<NULL>> /\ e.allocated = 1..(Len(args) + 2)
           /\ NULL \notin ToSet(args)
  <2>1. freed = FreeEntry(args)
    BY <1>5, <1>9
  <2> QED
    BY <1>3, <1>5, <1>9, <2>1, FreeEntryIs
<1> QED
  BY <1>4, <1>6, <1>7, <1>8, <1>9

-----------------------------------------------------------------------------
(* The words of a command line.                                            *)

LEMMA RisesThroughout ==
    ASSUME NEW m \in Nat, NEW at \in [1..m -> Nat], \A i \in 1..(m - 1) : at[i] < at[i + 1]
    PROVE  \A i, j \in 1..m : i < j => at[i] < at[j]
<1> DEFINE S == {n \in 0..m : \A i, j \in 1..m : j <= n /\ i < j => at[i] < at[j]}
<1>1. 0 \in S
  OBVIOUS
<1>2. ASSUME NEW n \in 0..(m - 1), n \in S PROVE n + 1 \in S
  <2> SUFFICES ASSUME NEW i \in 1..m, NEW j \in 1..m, j <= n + 1, i < j
               PROVE  at[i] < at[j]
    OBVIOUS
  <2>1. CASE j <= n
    BY <1>2, <2>1
  <2>2. CASE j = n + 1
    <3>1. n \in 1..(m - 1) /\ n \in 1..m /\ n + 1 \in 1..m /\ at[n] < at[n + 1]
      BY <2>2
    <3>2. i = n \/ at[i] < at[n]
      BY <1>2, <2>2, <3>1
    <3>3. at[i] \in Nat /\ at[n] \in Nat /\ at[n + 1] \in Nat
      BY <3>1
    <3> QED
      BY <2>2, <3>1, <3>2, <3>3
  <2> QED
    BY <2>1, <2>2
<1> HIDE DEF S
<1>3. m \in S
  <2>1. 0..m \subseteq S
    BY <1>1, <1>2, Induction
  <2> QED
    BY <2>1
<1> QED
  BY <1>3 DEF S

LEMMA CountRising ==
    ASSUME NEW m \in Nat, NEW at \in [1..m -> Nat],
           \A i, j \in 1..m : i < j => at[i] < at[j]
    PROVE  Cardinality({at[j] : j \in 1..m}) = m
<1> DEFINE T == {at[j] : j \in 1..m}
<1>1. at \in [1..m -> T] /\ \A t \in T : \E j \in 1..m : at[j] = t
  OBVIOUS
<1>2. ASSUME NEW i \in 1..m, NEW j \in 1..m, at[i] = at[j] PROVE i = j
  <2>1. at[i] \in Nat /\ at[j] \in Nat /\ ~(i < j) /\ ~(j < i)
    BY <1>2
  <2> QED
    BY <2>1
<1> HIDE DEF T
<1>3. at \in Bijection(1..m, T)
  BY <1>1, <1>2 DEF Bijection, Injection, Surjection, IsInjective
<1>4. ExistsBijection(1..m, T)
  BY <1>3 DEF ExistsBijection
<1>5. Cardinality(T) = m
  BY <1>4, FS_CountingElements
<1> QED
  BY <1>5 DEF T

(* Where a piece begins in what is put together from the pieces.           *)
Offset(pieces, k) == Len(FlattenSeq(SubSeq(pieces, 1, k - 1)))

LEMMA PiecesLie ==
    ASSUME NEW X, NEW pieces \in Seq(Seq(X))
    PROVE  /\ \A k \in 1..(Len(pieces) + 1) : Offset(pieces, k) \in Nat
           /\ Offset(pieces, 1) = 0
           /\ Len(FlattenSeq(pieces)) = Offset(pieces, Len(pieces) + 1)
           /\ \A k \in 1..Len(pieces) :
                /\ Offset(pieces, k + 1) = Offset(pieces, k) + Len(pieces[k])
                /\ \A i \in 1..Len(pieces[k]) :
                        FlattenSeq(pieces)[Offset(pieces, k) + i] = pieces[k][i]
<1> DEFINE N == Len(pieces)
<1>1. N \in Nat /\ \A k \in 1..N : pieces[k] \in Seq(X)
  OBVIOUS
<1>2. ASSUME NEW k \in 1..(N + 1)
      PROVE  /\ SubSeq(pieces, 1, k - 1) \in Seq(Seq(X)) /\ Offset(pieces, k) \in Nat
             /\ FlattenSeq(SubSeq(pieces, 1, k - 1)) \in Seq(X)
  <2> DEFINE Q == Seq(X)
  <2>1. 1 \in Int /\ k - 1 \in Int /\ \A j \in 1..(k - 1) : pieces[j] \in Q
    BY <1>1
  <2> HIDE DEF Q
  <2>2. SubSeq(pieces, 1, k - 1) \in Seq(Q)
    BY <2>1, SubSeqProperties
  <2>3. FlattenSeq(SubSeq(pieces, 1, k - 1)) \in Seq(X)
    BY <2>2, FlattenTyped DEF Q
  <2> QED
    BY <2>2, <2>3 DEF Offset, Q
<1>3. Offset(pieces, 1) = 0
  <2>1. SubSeq(pieces, 1, 1 - 1) = <<>>
    <3>1. 1 \in Int /\ 0 \in Int /\ 0 < 1 /\ 1 - 1 = 0
      OBVIOUS
    <3>2. SubSeq(pieces, 1, 0) = <<>>
      BY <3>1, SubSeqEmpty
    <3> QED
      BY <3>1, <3>2, Zenon
  <2>2. Len(FlattenSeq(<<>>)) = 0
    BY FlattenNone
  <2> QED
    BY <2>1, <2>2, Zenon DEF Offset
<1>4. SubSeq(pieces, 1, (N + 1) - 1) = pieces
  BY <1>1, SubSeqFull
<1>5. Len(FlattenSeq(pieces)) = Offset(pieces, N + 1)
  BY <1>4 DEF Offset
<1>6. ASSUME NEW k \in 1..N
      PROVE  /\ Offset(pieces, k + 1) = Offset(pieces, k) + Len(pieces[k])
             /\ \A i \in 1..Len(pieces[k]) :
                    FlattenSeq(pieces)[Offset(pieces, k) + i] = pieces[k][i]
  <2> DEFINE front == SubSeq(pieces, 1, k - 1)
             rest == SubSeq(pieces, k + 1, N)
             one == <<pieces[k]>>
             F == FlattenSeq(front)
             P == pieces[k]
             R == FlattenSeq(rest)
  <2>1. /\ front \in Seq(Seq(X)) /\ rest \in Seq(Seq(X)) /\ pieces = front \o (one \o rest)
        /\ P \in Seq(X)
    <3> DEFINE Q == Seq(X)
    <3>1. pieces \in Seq(Q)
      OBVIOUS
    <3> HIDE DEF Q
    <3>2. front \in Seq(Q) /\ rest \in Seq(Q) /\ pieces = front \o (one \o rest)
      BY <3>1, SplitAt
    <3>3. P \in Seq(X)
      BY <1>1, Zenon
    <3> HIDE DEF front, rest, one, P
    <3> QED
      BY <3>2, <3>3 DEF Q
  <2> HIDE DEF P
  <2>2. one \in Seq(Seq(X)) /\ FlattenSeq(one) = P
    <3> DEFINE Q == Seq(X)
    <3>1. P \in Q /\ one = <<P>>
      BY <2>1 DEF P
    <3>2. FlattenSeq(<<P>>) = P
      BY <2>1, FlattenOne
    <3> HIDE DEF Q
    <3>3. one \in Seq(Q)
      BY <3>1
    <3> HIDE DEF one
    <3> QED
      BY <3>1, <3>2, <3>3, Zenon DEF Q
  <2>3. SubSeq(pieces, 1, (k + 1) - 1) = front \o one
    <3> DEFINE Q == Seq(X)
    <3>1. pieces \in Seq(Q) /\ 1 \in 1..Len(pieces) /\ k \in 1..Len(pieces) /\ (k + 1) - 1 = k
      BY <1>1
    <3> HIDE DEF Q
    <3>2. SubSeq(pieces, 1, k) = SubSeq(pieces, 1, k - 1) \o <<pieces[k]>>
      BY <3>1, SubSeqRecursiveSecond
    <3> QED
      BY <3>1, <3>2
  <2> HIDE DEF front, rest, one
  <2>4. F \in Seq(X) /\ R \in Seq(X)
    BY <2>1, FlattenTyped
  <2>5. one \o rest \in Seq(Seq(X)) /\ FlattenSeq(one \o rest) = P \o R
    <3> DEFINE Q == Seq(X)
    <3>1. one \in Seq(Q) /\ rest \in Seq(Q)
      BY <2>1, <2>2
    <3> HIDE DEF Q
    <3>2. one \o rest \in Seq(Q)
      BY <3>1, ConcatProperties
    <3>3. FlattenSeq(one \o rest) = FlattenSeq(one) \o FlattenSeq(rest)
      BY <2>1, <2>2, FlattenConcat
    <3> QED
      BY <2>2, <3>2, <3>3 DEF Q
  <2>6. FlattenSeq(pieces) = F \o (P \o R)
    <3>1. FlattenSeq(front \o (one \o rest)) = F \o FlattenSeq(one \o rest)
      BY <2>1, <2>5, FlattenConcat
    <3> QED
      BY <2>1, <2>5, <3>1, Zenon
  <2>7. Offset(pieces, k + 1) = Len(F \o P)
    <3>1. FlattenSeq(front \o one) = F \o P
      BY <2>1, <2>2, FlattenConcat
    <3> QED
      BY <2>3, <3>1 DEF Offset
  <2>8. Offset(pieces, k) = Len(F)
    BY DEF Offset, front
  <2> HIDE DEF F, P, R
  <2>9. P \in Seq(X)
    BY <2>1
  <2>10. Len(F \o P) = Len(F) + Len(P)
    BY <2>4, <2>9, ConcatProperties
  <2>11. P \o R \in Seq(X) /\ Len(P \o R) = Len(P) + Len(R)
         /\ \A i \in 1..(Len(P) + Len(R)) :
                (P \o R)[i] = IF i <= Len(P) THEN P[i] ELSE R[i - Len(P)]
    BY <2>4, <2>9, ConcatProperties
  <2>12. Len(P) \in Nat /\ Len(R) \in Nat /\ Len(F) \in Nat
    BY <2>4, <2>9
  <2> DEFINE PR == P \o R
             all == F \o PR
  <2> HIDE DEF PR
  <2>13. \A i \in 1..(Len(F) + Len(PR)) :
            all[i] = IF i <= Len(F) THEN F[i] ELSE PR[i - Len(F)]
    BY <2>4, <2>11, ConcatProperties DEF PR
  <2> HIDE DEF all
  <2>14. ASSUME NEW i \in 1..Len(P) PROVE all[Len(F) + i] = P[i]
    <3>1. /\ Len(F) + i \in 1..(Len(F) + Len(PR)) /\ ~(Len(F) + i <= Len(F))
          /\ (Len(F) + i) - Len(F) = i /\ i \in 1..(Len(P) + Len(R)) /\ i <= Len(P)
      BY <2>11, <2>12 DEF PR
    <3>2. all[Len(F) + i] = PR[i]
      BY <2>13, <3>1
    <3>3. PR[i] = P[i]
      BY <2>11, <3>1 DEF PR
    <3> QED
      BY <3>2, <3>3
  <2> QED
    BY <2>6, <2>7, <2>8, <2>10, <2>14 DEF all, PR, P
<1> QED
  BY <1>2, <1>3, <1>5, <1>6

(* Words, each with a blank behind it that the last one need not have.     *)
Spaced(w, pieces) ==
    /\ Len(pieces) = Len(w)
    /\ \A k \in 1..Len(w) :
         /\ Len(w[k]) \in Nat \ {0}
         /\ \A i \in 1..Len(w[k]) : w[k][i] # " " /\ pieces[k][i] = w[k][i]
         /\ Len(pieces[k]) = Len(w[k]) + 1 \/ (Len(pieces[k]) = Len(w[k]) /\ k = Len(w))
         /\ Len(pieces[k]) = Len(w[k]) + 1 => pieces[k][Len(w[k]) + 1] = " "

(* Where they are in a line, at[k] being the place before a word.          *)
WordsAt(line, w, at) ==
    /\ at \in [1..Len(w) -> Nat]
    /\ \A j, k \in 1..Len(w) : j < k => at[j] < at[k]
    /\ \A k \in 1..Len(w) :
         /\ Len(w[k]) \in Nat \ {0}
         /\ Blank(line, at[k]) /\ Blank(line, at[k] + Len(w[k]) + 1)
         /\ \A i \in 1..Len(w[k]) :
                at[k] + i \in DOMAIN line /\ line[at[k] + i] = w[k][i] /\ w[k][i] # " "
    /\ \A p \in DOMAIN line :
         Blank(line, p) \/ \E k \in 1..Len(w) : \E i \in 1..Len(w[k]) : p = at[k] + i

(* Where the pieces of a line are, off[k] being the place before a piece.  *)
PiecesAt(line, pieces, off) ==
    /\ Len(pieces) \in Nat /\ Len(line) \in Nat /\ DOMAIN line = 1..Len(line)
    /\ off \in [1..(Len(pieces) + 1) -> Nat]
    /\ off[1] = 0 /\ Len(line) = off[Len(pieces) + 1]
    /\ \A k \in 1..Len(pieces) :
         /\ off[k + 1] = off[k] + Len(pieces[k])
         /\ \A i \in 1..Len(pieces[k]) : line[off[k] + i] = pieces[k][i]

LEMMA PiecesAreAt ==
    ASSUME NEW X, NEW pieces \in Seq(Seq(X))
    PROVE  PiecesAt(FlattenSeq(pieces), pieces,
                    [k \in 1..(Len(pieces) + 1) |-> Offset(pieces, k)])
<1> DEFINE N == Len(pieces)
           line == FlattenSeq(pieces)
           off == [k \in 1..(N + 1) |-> Offset(pieces, k)]
<1>1. N \in Nat
  OBVIOUS
<1>2. Len(line) \in Nat /\ DOMAIN line = 1..Len(line)
  <2>1. line \in Seq(X)
    BY FlattenTyped
  <2> HIDE DEF line
  <2> QED
    BY <2>1
<1>3. /\ \A k \in 1..(N + 1) : Offset(pieces, k) \in Nat
      /\ Offset(pieces, 1) = 0
      /\ Len(line) = Offset(pieces, N + 1)
      /\ \A k \in 1..N :
           /\ Offset(pieces, k + 1) = Offset(pieces, k) + Len(pieces[k])
           /\ \A i \in 1..Len(pieces[k]) : line[Offset(pieces, k) + i] = pieces[k][i]
  BY PiecesLie
<1>4. \A k \in 1..N : k \in 1..(N + 1) /\ k + 1 \in 1..(N + 1)
  BY <1>1
<1>5. 1 \in 1..(N + 1) /\ N + 1 \in 1..(N + 1)
  BY <1>1
<1> HIDE DEF N, line
<1>6. off \in [1..(N + 1) -> Nat] /\ \A k \in 1..(N + 1) : off[k] = Offset(pieces, k)
  BY <1>3, Zenon
<1> HIDE DEF off
<1>7. off[1] = 0 /\ Len(line) = off[N + 1]
  BY <1>3, <1>5, <1>6, Zenon
<1>8. ASSUME NEW k \in 1..N
      PROVE  /\ off[k + 1] = off[k] + Len(pieces[k])
             /\ \A i \in 1..Len(pieces[k]) : line[off[k] + i] = pieces[k][i]
  BY <1>3, <1>4, <1>6, Zenon
<1>9. PiecesAt(line, pieces, off)
  BY <1>1, <1>2, <1>6, <1>7, <1>8, Zenon DEF PiecesAt, N
<1> QED
  BY <1>9, Zenon DEF line, off, N

LEMMA SpacedLie ==
    ASSUME NEW w, Len(w) \in Nat, NEW pieces, NEW line, NEW off,
           Spaced(w, pieces), PiecesAt(line, pieces, off)
    PROVE  WordsAt(line, w, [k \in 1..Len(w) |-> off[k]])
<1> DEFINE m == Len(w)
           at == [k \in 1..m |-> off[k]]
<1>1. m \in Nat /\ Len(pieces) = m
  BY Zenon DEF Spaced
<1>3. \A k \in 1..m :
         /\ \A i \in 1..Len(w[k]) : w[k][i] # " " /\ pieces[k][i] = w[k][i]
         /\ Len(pieces[k]) = Len(w[k]) + 1 => pieces[k][Len(w[k]) + 1] = " "
  BY Zenon DEF Spaced
<1>4. \A k \in 1..m :
         /\ Len(w[k]) \in Nat \ {0}
         /\ Len(pieces[k]) = Len(w[k]) + 1 \/ (Len(pieces[k]) = Len(w[k]) /\ k = m)
  BY Zenon DEF Spaced
<1>2. \A k \in 1..m : Len(pieces[k]) \in Nat \ {0}
  BY <1>1, <1>4
<1> HIDE DEF m
<1>5. /\ DOMAIN line = 1..Len(line) /\ Len(line) \in Nat
      /\ off \in [1..(m + 1) -> Nat] /\ off[1] = 0 /\ Len(line) = off[m + 1]
      /\ \A k \in 1..m :
           /\ off[k + 1] = off[k] + Len(pieces[k])
           /\ \A i \in 1..Len(pieces[k]) : line[off[k] + i] = pieces[k][i]
  BY <1>1, Zenon DEF PiecesAt
<1>6. \A k \in 1..m : at[k] = off[k] /\ off[k] \in Nat
  BY <1>1, <1>5
<1>7. at \in [1..m -> Nat]
  BY <1>1, <1>5
<1> HIDE DEF at
<1>8. \A k \in 1..m : off[k] < off[k + 1]
  BY <1>2, <1>5, <1>6
<1>9. \A j, k \in 1..(m + 1) : j < k => off[j] < off[k]
  <2>1. m + 1 \in Nat /\ (m + 1) - 1 = m
    BY <1>1
  <2> QED
    BY <1>5, <1>6, <1>8, <2>1, RisesThroughout
<1>10. \A k \in 1..m : off[k + 1] <= Len(line)
  <2> SUFFICES ASSUME NEW k \in 1..m PROVE off[k + 1] <= off[m + 1]
    BY <1>5, <1>6
  <2>1. k + 1 \in 1..(m + 1) /\ m + 1 \in 1..(m + 1) /\ (k + 1 < m + 1 \/ k + 1 = m + 1)
    BY <1>1
  <2>2. off[k + 1] \in Nat /\ off[m + 1] \in Nat
    BY <1>5, <1>6, <2>1
  <2> QED
    BY <1>9, <2>1, <2>2
<1>11. ASSUME NEW k \in 1..m
       PROVE  /\ Blank(line, off[k])
              /\ \A i \in 1..Len(w[k]) :
                    off[k] + i \in DOMAIN line /\ line[off[k] + i] = w[k][i]
              /\ Blank(line, off[k] + Len(w[k]) + 1)
  <2>1. off[k] \in Nat /\ off[k + 1] \in Nat /\ off[k + 1] = off[k] + Len(pieces[k])
        /\ off[k + 1] <= Len(line) /\ Len(w[k]) \in Nat
    BY <1>1, <1>2, <1>4, <1>5, <1>6, <1>10
  <2>2. Blank(line, off[k])
    <3>1. CASE k = 1
      <4>1. off[k] = 0 /\ off[k] \notin 1..Len(line)
        BY <1>5, <3>1
      <4> QED
        BY <1>5, <4>1, Zenon DEF Blank
    <3>2. CASE k # 1
      <4> DEFINE h == k - 1
      <4>1. h \in 1..m /\ h # m /\ h + 1 = k
        BY <1>1, <3>2
      <4> HIDE DEF h
      <4>a. Len(pieces[h]) = Len(w[h]) + 1 /\ Len(pieces[h]) \in 1..Len(pieces[h])
        BY <1>2, <1>4, <4>1
      <4>2. pieces[h][Len(pieces[h])] = " "
        BY <1>3, <4>1, <4>a, Zenon
      <4>3. off[k] = off[h] + Len(pieces[h])
        BY <1>5, <1>6, <4>1
      <4>4. line[off[k]] = " "
        BY <1>5, <4>1, <4>a, <4>2, <4>3, Zenon
      <4> QED
        BY <4>4 DEF Blank
    <3> QED
      BY <3>1, <3>2
  <2>3. ASSUME NEW i \in 1..Len(w[k])
        PROVE  off[k] + i \in DOMAIN line /\ line[off[k] + i] = w[k][i]
    <3>1. i \in 1..Len(pieces[k])
      BY <1>4, <2>1
    <3>2. off[k] + i \in 1..Len(line)
      BY <1>5, <2>1, <3>1
    <3>3. line[off[k] + i] = w[k][i]
      BY <1>3, <1>5, <3>1, Zenon
    <3> QED
      BY <1>5, <3>2, <3>3, Zenon
  <2>4. Blank(line, off[k] + Len(w[k]) + 1)
    <3>1. CASE Len(pieces[k]) = Len(w[k]) + 1
      <4>1. Len(w[k]) + 1 \in 1..Len(pieces[k]) /\ off[k] + (Len(w[k]) + 1) = off[k] + Len(w[k]) + 1
        BY <2>1, <3>1
      <4>2. line[off[k] + (Len(w[k]) + 1)] = " "
        BY <1>3, <1>5, <3>1, <4>1, Zenon
      <4> QED
        BY <4>1, <4>2 DEF Blank
    <3>2. CASE Len(pieces[k]) = Len(w[k]) /\ k = m
      <4>1. off[k] + Len(w[k]) + 1 = Len(line) + 1
        BY <1>5, <1>6, <2>1, <3>2
      <4>2. off[k] + Len(w[k]) + 1 \notin DOMAIN line
        BY <1>5, <4>1
      <4> QED
        BY <4>2 DEF Blank
    <3> QED
      BY <1>4, <3>1, <3>2
  <2> QED
    BY <2>2, <2>3, <2>4
<1>12. ASSUME NEW p \in DOMAIN line
       PROVE  Blank(line, p) \/ \E k \in 1..m : \E i \in 1..Len(w[k]) : p = off[k] + i
  <2> DEFINE reached == {k \in 1..m : p <= off[k + 1]}
  <2>1. p \in 1..Len(line) /\ p \in Nat /\ 0 < p
    BY <1>5
  <2>2. m # 0
    BY <1>1, <1>5, <1>6, <2>1
  <2>3. m \in reached /\ reached \subseteq Nat
    BY <1>1, <1>5, <1>6, <2>1, <2>2
  <2>4. PICK k \in reached : \A j \in reached : k <= j
    <3> HIDE DEF reached
    <3> QED
      BY <2>3, LeastElement
  <2>5. k \in 1..m /\ p <= off[k + 1] /\ off[k] \in Nat /\ off[k + 1] = off[k] + Len(pieces[k])
    BY <1>1, <1>5, <1>6, <2>4
  <2>6. off[k] < p
    <3>1. CASE k = 1
      <4>1. off[k] = 0
        BY <1>5, <3>1, Zenon
      <4> QED
        BY <2>1, <4>1, Zenon
    <3>2. CASE k # 1
      <4>a. k \in 1..m
        BY <2>5
      <4> HIDE DEF reached
      <4>1. k - 1 \in 1..m /\ (k - 1) + 1 = k /\ ~(k <= k - 1)
        BY <1>1, <3>2, <4>a
      <4>2. k - 1 \notin reached
        BY <2>4, <4>1, Zenon
      <4>3. ~(p <= off[k])
        BY <4>1, <4>2, Zenon DEF reached
      <4> QED
        BY <2>1, <2>5, <4>3
    <3> QED
      BY <3>1, <3>2
  <2> DEFINE i == p - off[k]
  <2>7. Len(w[k]) \in Nat /\ Len(pieces[k]) \in Nat
    BY <1>2, <1>4, <2>5
  <2>8. i \in 1..Len(pieces[k]) /\ p = off[k] + i
    BY <2>1, <2>5, <2>6, <2>7
  <2> HIDE DEF i
  <2>9. CASE i <= Len(w[k])
    <3>1. i \in 1..Len(w[k])
      BY <2>7, <2>8, <2>9
    <3> QED
      BY <2>5, <2>8, <3>1
  <2>10. CASE i > Len(w[k])
    <3>1. i = Len(w[k]) + 1 /\ Len(pieces[k]) = Len(w[k]) + 1
      BY <1>4, <2>5, <2>7, <2>8, <2>10
    <3>2. line[p] = " "
      BY <1>3, <1>5, <2>5, <2>8, <3>1, Zenon
    <3> QED
      BY <3>2 DEF Blank
  <2> QED
    BY <2>7, <2>8, <2>9, <2>10
<1>13. \A j, k \in 1..m : j < k => at[j] < at[k]
  <2> SUFFICES ASSUME NEW j \in 1..m, NEW k \in 1..m, j < k PROVE at[j] < at[k]
    OBVIOUS
  <2>1. j \in 1..(m + 1) /\ k \in 1..(m + 1)
    BY <1>1
  <2> QED
    BY <1>5, <1>6, <1>9, <2>1
<1>14. \A k \in 1..m : at[k] = off[k]
  BY <1>5, <1>6
<1>15. \A k \in 1..m :
         /\ Len(w[k]) \in Nat \ {0}
         /\ Blank(line, at[k]) /\ Blank(line, at[k] + Len(w[k]) + 1)
         /\ \A i \in 1..Len(w[k]) :
                at[k] + i \in DOMAIN line /\ line[at[k] + i] = w[k][i] /\ w[k][i] # " "
  BY <1>3, <1>4, <1>11, <1>14, ZenonT(60)
<1>16. \A p \in DOMAIN line :
          Blank(line, p) \/ \E k \in 1..m : \E i \in 1..Len(w[k]) : p = at[k] + i
  BY <1>12, <1>14
<1>17. WordsAt(line, w, at)
  BY <1>7, <1>13, <1>15, <1>16, Zenon DEF WordsAt, m
<1> QED
  BY <1>17 DEF at, m

LEMMA WordsAreFound ==
    ASSUME NEW X, NEW line \in Seq(X), NEW w \in Seq(Seq(X)), NEW at, WordsAt(line, w, at)
    PROVE  Words(line) = w
<1> DEFINE m == Len(w)
           L == Len(line)
           start == [k \in 1..m |-> at[k] + 1]
           stop(k) == at[k] + Len(w[k])
           S == Starts(line)
           before(i) == {h \in S : h < i}
           from(n) == CHOOSE i \in S : Cardinality(before(i)) = n - 1
           to(i) == CHOOSE j \in DOMAIN line : IsWord(line, i, j)
<1>1. m \in Nat /\ L \in Nat /\ DOMAIN line = 1..L /\ \A p \in 1..L : line[p] \in X
  OBVIOUS
<1>2. w = [k \in 1..m |-> w[k]] /\ \A k \in 1..m : w[k] \in Seq(X)
  OBVIOUS
<1>3. /\ at \in [1..m -> Nat]
      /\ \A j, k \in 1..m : j < k => at[j] < at[k]
      /\ \A k \in 1..m : Len(w[k]) \in Nat \ {0}
  BY Zenon DEF WordsAt
<1>4. \A k \in 1..m :
         /\ Blank(line, at[k]) /\ Blank(line, at[k] + Len(w[k]) + 1)
         /\ \A i \in 1..Len(w[k]) :
                at[k] + i \in DOMAIN line /\ line[at[k] + i] = w[k][i] /\ w[k][i] # " "
  BY Zenon DEF WordsAt
<1>5. \A p \in DOMAIN line :
          Blank(line, p) \/ \E k \in 1..m : \E i \in 1..Len(w[k]) : p = at[k] + i
  BY Zenon DEF WordsAt
<1> HIDE DEF m, L
<1>6. \A k \in 1..m : \A i \in 1..Len(w[k]) :
          at[k] + i \in 1..L /\ line[at[k] + i] = w[k][i] /\ ~Blank(line, at[k] + i)
  <2> SUFFICES ASSUME NEW k \in 1..m, NEW i \in 1..Len(w[k])
               PROVE  /\ at[k] + i \in 1..L /\ line[at[k] + i] = w[k][i]
                      /\ ~Blank(line, at[k] + i)
    OBVIOUS
  <2>1. at[k] + i \in DOMAIN line /\ line[at[k] + i] = w[k][i] /\ w[k][i] # " "
    BY <1>4, Zenon
  <2>2. line[at[k] + i] # " "
    BY <2>1, Zenon
  <2>3. ~Blank(line, at[k] + i)
    BY <2>1, <2>2, Zenon DEF Blank
  <2> QED
    BY <1>1, <2>1, <2>3, Zenon
<1>7. /\ start \in [1..m -> Nat] /\ \A k \in 1..m : start[k] = at[k] + 1
      /\ \A j, k \in 1..m : j < k <=> start[j] < start[k]
  BY <1>3, SMTT(40)
<1>8. S = {start[k] : k \in 1..m}
  <2>1. ASSUME NEW k \in 1..m PROVE start[k] \in S
    <3>1. 1 \in 1..Len(w[k]) /\ start[k] = at[k] + 1 /\ start[k] - 1 = at[k]
      BY <1>3
    <3>2. start[k] \in DOMAIN line /\ ~Blank(line, start[k]) /\ Blank(line, start[k] - 1)
      BY <1>1, <1>4, <1>6, <3>1, Zenon
    <3> QED
      BY <3>2, Zenon DEF Starts
  <2>2. ASSUME NEW p \in S PROVE \E k \in 1..m : p = start[k]
    <3>1. p \in DOMAIN line /\ ~Blank(line, p) /\ Blank(line, p - 1)
      BY <2>2, Zenon DEF Starts
    <3>2. PICK k \in 1..m : \E i \in 1..Len(w[k]) : p = at[k] + i
      BY <1>5, <3>1, Zenon
    <3>3. PICK i \in 1..Len(w[k]) : p = at[k] + i
      BY <3>2
    <3>4. ASSUME i # 1 PROVE FALSE
      <4>1. Len(w[k]) \in Nat /\ at[k] \in Nat
        BY <1>3
      <4> DEFINE n == Len(w[k])
                 a == at[k]
      <4> HIDE DEF n, a
      <4>2. n \in Nat /\ a \in Nat /\ i \in 1..n /\ p = a + i
        BY <3>3, <4>1 DEF n, a
      <4>3. i - 1 \in 1..n /\ p - 1 = a + (i - 1)
        BY <3>4, <4>2
      <4> QED
        BY <1>6, <3>1, <4>3, Zenon DEF n, a
    <3> QED
      BY <1>7, <3>2, <3>3, <3>4
  <2> HIDE DEF start, S
  <2> QED
    BY <2>1, <2>2
<1> HIDE DEF S, start
<1>9. Cardinality(S) = m
  BY <1>1, <1>7, <1>8, CountRising
<1>10. ASSUME NEW k \in 1..m PROVE start[k] \in S /\ Cardinality(before(start[k])) = k - 1
  <2> DEFINE firsts == [j \in 1..(k - 1) |-> start[j]]
  <2>1. k - 1 \in Nat /\ \A j \in 1..(k - 1) : j \in 1..m
    BY <1>1
  <2>2. firsts \in [1..(k - 1) -> Nat] /\ \A i, j \in 1..(k - 1) : i < j => firsts[i] < firsts[j]
    BY <1>7, <2>1
  <2>3. before(start[k]) = {firsts[j] : j \in 1..(k - 1)}
    <3>1. ASSUME NEW j \in 1..(k - 1) PROVE firsts[j] \in before(start[k])
      <4>1. j \in 1..m /\ j < k /\ firsts[j] = start[j]
        BY <2>1
      <4> QED
        BY <1>7, <1>8, <4>1
    <3>2. ASSUME NEW h \in before(start[k]) PROVE \E j \in 1..(k - 1) : h = firsts[j]
      <4>1. PICK j \in 1..m : h = start[j] /\ start[j] < start[k]
        BY <1>8
      <4>2. j < k
        BY <1>7, <4>1
      <4>3. j \in 1..(k - 1)
        BY <1>1, <4>2
      <4> QED
        BY <4>1, <4>3
    <3> HIDE DEF firsts
    <3> QED
      BY <3>1, <3>2
  <2> HIDE DEF firsts
  <2>4. Cardinality({firsts[j] : j \in 1..(k - 1)}) = k - 1
    BY <2>1, <2>2, CountRising
  <2> QED
    BY <1>8, <2>3, <2>4
<1> HIDE DEF before
<1>11. ASSUME NEW n \in 1..m PROVE from(n) = start[n]
  <2>1. from(n) \in S /\ Cardinality(before(from(n))) = n - 1
    BY <1>10, Zenon
  <2>2. PICK k \in 1..m : from(n) = start[k]
    BY <1>8, <2>1
  <2>3. k - 1 = n - 1
    BY <1>10, <2>1, <2>2, Zenon
  <2>4. k = n
    BY <1>1, <2>3
  <2> QED
    BY <2>2, <2>4
<1>12. ASSUME NEW k \in 1..m PROVE to(start[k]) = stop(k)
  <2>a. start[k] = at[k] + 1 /\ at[k] \in Nat /\ Len(w[k]) \in Nat \ {0}
    BY <1>3, <1>7
  <2>1. start[k] = at[k] + 1 /\ at[k] \in Nat /\ Len(w[k]) \in Nat \ {0} /\ stop(k) \in Nat
    BY <2>a
  <2>2. Blank(line, start[k] - 1)
    <3>1. start[k] - 1 = at[k]
      BY <2>1
    <3> QED
      BY <1>4, <3>1, Zenon
  <2>3. \A i \in start[k]..stop(k) : ~Blank(line, i)
    <3> SUFFICES ASSUME NEW i \in start[k]..stop(k) PROVE ~Blank(line, i)
      OBVIOUS
    <3> DEFINE x == at[k]
               l == Len(w[k])
    <3>1. x \in Nat /\ l \in Nat /\ start[k] = x + 1 /\ stop(k) = x + l
      BY <2>1, Zenon
    <3> HIDE DEF x, l, start, stop
    <3>2. i - x \in 1..l /\ i = x + (i - x)
      BY <3>1
    <3> QED
      BY <1>6, <3>2, Zenon DEF x, l
  <2>4. stop(k) \in DOMAIN line /\ start[k] <= stop(k)
    <3>1. Len(w[k]) \in 1..Len(w[k]) /\ start[k] <= stop(k)
      BY <2>1
    <3> QED
      BY <1>1, <1>6, <3>1, Zenon
  <2>5. Blank(line, stop(k) + 1)
    BY <1>4
  <2>6. IsWord(line, start[k], stop(k))
    BY <2>2, <2>3, <2>4, <2>5, Zenon DEF IsWord
  <2>7. ASSUME NEW j \in DOMAIN line, IsWord(line, start[k], j) PROVE j = stop(k)
    <3>1. /\ start[k] <= j /\ Blank(line, j + 1)
          /\ \A i \in start[k]..j : ~Blank(line, i)
      BY <2>7, Zenon DEF IsWord
    <3>2. j \in Nat
      BY <1>1
    <3> HIDE DEF stop
    <3>3. CASE j < stop(k)
      <4>1. j + 1 \in start[k]..stop(k)
        BY <2>1, <3>1, <3>2, <3>3
      <4> QED
        BY <2>3, <3>1, <4>1, Zenon
    <3>4. CASE stop(k) < j
      <4>1. stop(k) + 1 \in start[k]..j
        BY <2>1, <2>4, <3>1, <3>2, <3>4
      <4> QED
        BY <2>5, <3>1, <4>1, Zenon
    <3> QED
      BY <2>1, <3>2, <3>3, <3>4
  <2> QED
    BY <2>4, <2>6, <2>7, Zenon
<1>13. ASSUME NEW k \in 1..m PROVE SubSeq(line, start[k], stop(k)) = w[k]
  <2> DEFINE a == start[k]
             b == stop(k)
             part == SubSeq(line, a, b)
             word == w[k]
  <2>1. a = at[k] + 1 /\ at[k] \in Nat /\ Len(word) \in Nat \ {0} /\ b = at[k] + Len(word)
    BY <1>3, <1>7
  <2>2. word \in Seq(X)
    BY <1>2
  <2>3. \A i \in a..b : line[i] \in X
    <3> SUFFICES ASSUME NEW i \in a..b PROVE line[i] \in X
      OBVIOUS
    <3> DEFINE x == at[k]
               l == Len(word)
    <3>1. x \in Nat /\ l \in Nat /\ a = x + 1 /\ b = x + l
      BY <2>1, Zenon
    <3> HIDE DEF x, l, a, b
    <3>2. i - x \in 1..l /\ i = x + (i - x)
      BY <3>1
    <3>3. i \in 1..L
      BY <1>6, <3>2, Zenon DEF x, l
    <3> QED
      BY <1>1, <3>3, Zenon
  <2>4. a \in Int /\ b \in Int /\ a <= b /\ b - a + 1 = Len(word)
    <3> DEFINE x == at[k]
               l == Len(word)
    <3>1. x \in Nat /\ l \in Nat \ {0} /\ a = x + 1 /\ b = x + l
      BY <2>1, Zenon
    <3> HIDE DEF x, l, a, b
    <3>2. a \in Int /\ b \in Int /\ a <= b /\ b - a + 1 = l
      BY <3>1
    <3> QED
      BY <3>2, Zenon DEF l
  <2>5. /\ part \in Seq(X) /\ Len(part) = IF a <= b THEN b - a + 1 ELSE 0
        /\ \A i \in 1..(b - a + 1) : part[i] = line[a + i - 1]
    <3> HIDE DEF a, b, word
    <3>1. part \in Seq(X)
      BY <2>3, <2>4, SubSeqProperties, SMTT(60)
    <3>2. Len(part) = IF a <= b THEN b - a + 1 ELSE 0
      BY <2>3, <2>4, SubSeqProperties, SMTT(60)
    <3>3. \A i \in 1..(b - a + 1) : part[i] = line[a + i - 1]
      BY <2>3, <2>4, SubSeqProperties, SMTT(60)
    <3> QED
      BY <3>1, <3>2, <3>3, Zenon
  <2> HIDE DEF part, word
  <2>6. ASSUME NEW i \in 1..Len(word) PROVE part[i] = word[i]
    <3>a. i \in 1..(b - a + 1)
      BY <2>4
    <3>b. i \in Nat
      BY <2>1
    <3>1. i \in 1..(b - a + 1) /\ a + i - 1 = at[k] + i
      BY <2>1, <3>a, <3>b
    <3>2. line[at[k] + i] = word[i]
      BY <1>6, Zenon DEF word
    <3> HIDE DEF a, b
    <3> QED
      BY <2>5, <3>1, <3>2, Zenon
  <2>7. Len(part) = Len(word)
    BY <2>4, <2>5
  <2>8. part = word
    BY <2>2, <2>5, <2>6, <2>7, SeqEqual
  <2> QED
    BY <2>8 DEF part, word
<1>14. ASSUME NEW n \in 1..m PROVE SubSeq(line, from(n), to(from(n))) = w[n]
  <2>1. from(n) = start[n]
    BY <1>11
  <2>2. to(start[n]) = stop(n)
    BY <1>12
  <2> HIDE DEF from, to, stop
  <2>3. SubSeq(line, start[n], stop(n)) = w[n]
    BY <1>13
  <2> QED
    BY <2>1, <2>2, <2>3, Zenon
<1>15. Words(line) = [n \in 1..Cardinality(S) |-> SubSeq(line, from(n), to(from(n)))]
  BY Zenon DEF Words, S, before
<1> HIDE DEF from, to
<1>16. Words(line) = [n \in 1..m |-> w[n]]
  BY <1>9, <1>14, <1>15
<1> QED
  BY <1>2, <1>16

(* An element put behind a sequence, or before it.                         *)
PutBehind(s, c, both) ==
    /\ Len(both) = Len(s) + 1 /\ both[Len(s) + 1] = c
    /\ \A i \in 1..Len(s) : both[i] = s[i]
PutBefore(e, s, both) ==
    /\ Len(both) = Len(s) + 1 /\ both[1] = e
    /\ \A k \in 2..(Len(s) + 1) : both[k] = s[k - 1]
    /\ Head(both) = e /\ Tail(both) = s

LEMMA OneBehind ==
    ASSUME NEW X, NEW s \in Seq(X), NEW c \in X
    PROVE  s \o <<c>> \in Seq(X) /\ PutBehind(s, c, s \o <<c>>)
<1> DEFINE one == <<c>>
           both == s \o one
<1>1. one \in Seq(X) /\ Len(one) = 1 /\ one[1] = c /\ Len(s) \in Nat
  OBVIOUS
<1> HIDE DEF one
<1>2. /\ both \in Seq(X) /\ Len(both) = Len(s) + Len(one)
      /\ \A i \in 1..(Len(s) + Len(one)) :
            both[i] = IF i <= Len(s) THEN s[i] ELSE one[i - Len(s)]
  BY <1>1, ConcatProperties
<1> HIDE DEF both
<1>3. Len(both) = Len(s) + 1 /\ both[Len(s) + 1] = c /\ \A i \in 1..Len(s) : both[i] = s[i]
  BY <1>1, <1>2
<1> QED
  BY <1>2, <1>3, Zenon DEF both, one, PutBehind

LEMMA OneBefore ==
    ASSUME NEW Q, NEW e \in Q, NEW s \in Seq(Q)
    PROVE  <<e>> \o s \in Seq(Q) /\ PutBefore(e, s, <<e>> \o s)
<1> DEFINE one == <<e>>
           both == one \o s
<1>1. one \in Seq(Q) /\ Len(one) = 1 /\ one[1] = e /\ Len(s) \in Nat
  OBVIOUS
<1> HIDE DEF one
<1>2. /\ both \in Seq(Q) /\ Len(both) = Len(one) + Len(s)
      /\ \A i \in 1..(Len(one) + Len(s)) :
            both[i] = IF i <= Len(one) THEN one[i] ELSE s[i - Len(one)]
  BY <1>1, ConcatProperties
<1> HIDE DEF both
<1>3. /\ Len(both) = Len(s) + 1 /\ both[1] = e
      /\ \A i \in 1..Len(s) : both[i + 1] = s[i]
      /\ \A k \in 2..(Len(s) + 1) : both[k] = s[k - 1]
  BY <1>1, <1>2
<1>4. both # <<>> /\ Head(both) = e
  BY <1>1, <1>2, <1>3
<1>5. /\ Tail(both) \in Seq(Q) /\ Len(Tail(both)) = Len(both) - 1
      /\ \A i \in 1..Len(Tail(both)) : Tail(both)[i] = both[i + 1]
  BY <1>2, <1>4, HeadTailProperties
<1>6. Tail(both) = s
  <2> DEFINE u == Tail(both)
  <2> HIDE DEF u
  <2>1. u \in Seq(Q) /\ Len(u) = Len(s) /\ \A i \in 1..Len(u) : u[i] = both[i + 1]
    BY <1>1, <1>3, <1>5 DEF u
  <2>2. \A i \in 1..Len(u) : u[i] = s[i]
    BY <1>3, <2>1
  <2>3. u = s
    BY <2>1, <2>2, SeqEqual
  <2> QED
    BY <2>3 DEF u
<1> QED
  BY <1>2, <1>3, <1>4, <1>6, Zenon DEF both, one, PutBefore

(* A command line falls apart into the executable and its arguments.       *)
Space == " "
Row(X) == Seq(X)
NoBlankIn(s) == Len(s) \in Nat \ {0} /\ \A i \in 1..Len(s) : s[i] # Space
SpacedArg(args, i) == args[i] \o IF i < Len(args) THEN <<Space>> ELSE <<>>

PieceIs(word, piece, last) ==
    /\ Len(word) \in Nat \ {0}
    /\ \A i \in 1..Len(word) : word[i] # Space /\ piece[i] = word[i]
    /\ Len(piece) = Len(word) + 1 \/ (Len(piece) = Len(word) /\ last)
    /\ Len(piece) = Len(word) + 1 => piece[Len(word) + 1] = Space

LEMMA SpacedArgIs ==
    ASSUME NEW X, Space \in X, NEW args, NEW i, args[i] \in Seq(X), NoBlankIn(args[i]),
           i < Len(args) \/ (i = Len(args) /\ ~(i < Len(args)))
    PROVE  SpacedArg(args, i) \in Seq(X) /\ PieceIs(args[i], SpacedArg(args, i), i = Len(args))
<1> DEFINE s == args[i]
           longer == s \o <<Space>>
<1>1. s \in Seq(X) /\ Len(s) \in Nat
  BY DEF NoBlankIn
<1>a. NoBlankIn(s)
  OBVIOUS
<1> HIDE DEF s
<1>2. CASE i < Len(args)
  <2>1. SpacedArg(args, i) = longer
    BY <1>2, Zenon DEF SpacedArg, s
  <2>2. longer \in Seq(X) /\ PutBehind(s, Space, longer)
    BY <1>1, OneBehind
  <2> HIDE DEF longer
  <2>3. PieceIs(s, longer, i = Len(args))
    BY <1>a, <2>2, Zenon DEF PieceIs, NoBlankIn, PutBehind
  <2> QED
    BY <2>1, <2>2, <2>3, Zenon DEF s
<1>3. CASE i = Len(args) /\ ~(i < Len(args))
  <2>1. SpacedArg(args, i) = s \o <<>>
    BY <1>3, Zenon DEF SpacedArg, s
  <2>2. SpacedArg(args, i) = s
    BY <1>1, <2>1, ConcatEmptySeq, Zenon
  <2> DEFINE l == Len(s)
  <2>a. l \in Nat
    BY <1>1
  <2> HIDE DEF l
  <2>3. l # l + 1
    BY <2>a
  <2>4. PieceIs(s, s, i = Len(args))
    BY <1>a, <1>3, <2>3, Zenon DEF PieceIs, NoBlankIn, l
  <2> QED
    BY <1>1, <2>2, <2>4, Zenon DEF s
<1> QED
  BY <1>2, <1>3

(* What is known of the arguments of a command.                            *)
Given(X, args) ==
    /\ args \in Seq(Row(X)) /\ Len(args) \in Nat /\ DOMAIN args = 1..Len(args)
    /\ \A i \in 1..Len(args) : args[i] \in Seq(X) /\ NoBlankIn(args[i])

LEMMA CommandWords ==
    ASSUME NEW X, Space \in X, NEW first \in Row(X), NoBlankIn(first),
           NEW args, Given(X, args)
    PROVE  Words((first \o <<Space>>) \o Joined(args)) = <<first>> \o args
<1> DEFINE n == Len(args)
           head == first \o <<Space>>
           tail == [i \in 1..n |-> SpacedArg(args, i)]
           w == <<first>> \o args
           pieces == <<head>> \o tail
           line == head \o Joined(args)
<1>1. /\ args \in Seq(Row(X)) /\ n \in Nat /\ DOMAIN args = 1..n
      /\ \A i \in 1..n : args[i] \in Seq(X) /\ NoBlankIn(args[i])
  BY Zenon DEF Given
<1>2. head \in Row(X) /\ PutBehind(first, Space, head)
  BY OneBehind DEF Row
<1>n. n \in Nat
  BY Zenon DEF Given
<1> HIDE DEF n, head
<1>3. ASSUME NEW i \in 1..n
      PROVE  SpacedArg(args, i) \in Seq(X) /\ PieceIs(args[i], SpacedArg(args, i), i = n)
  <2>1. i < n \/ (i = n /\ ~(i < n))
    BY <1>n
  <2>2. args[i] \in Seq(X) /\ NoBlankIn(args[i])
    BY <1>1, Zenon
  <2> QED
    BY <2>1, <2>2, SpacedArgIs DEF n
<1>4. Joined(args) = FlattenSeq(tail)
  BY <1>1, Zenon DEF Joined, SpacedArg, Space, n
<1>5. tail \in Seq(Row(X)) /\ Len(tail) = n /\ \A i \in 1..n : tail[i] = SpacedArg(args, i)
  <2>1. \A i \in 1..n : SpacedArg(args, i) \in Row(X)
    BY <1>3, Zenon DEF Row
  <2> QED
    BY <1>1, <2>1
<1> HIDE DEF tail
<1>6. /\ w \in Seq(Row(X)) /\ Len(w) = n + 1 /\ w[1] = first
      /\ \A k \in 2..(n + 1) : w[k] = args[k - 1]
  <2>1. w \in Seq(Row(X)) /\ PutBefore(first, args, w)
    BY <1>1, OneBefore
  <2> HIDE DEF w
  <2> QED
    BY <2>1, Zenon DEF n, PutBefore
<1>7. /\ pieces \in Seq(Row(X)) /\ Len(pieces) = n + 1 /\ pieces[1] = head
      /\ \A k \in 2..(n + 1) : pieces[k] = tail[k - 1]
  <2>1. pieces \in Seq(Row(X)) /\ PutBefore(head, tail, pieces)
    BY <1>2, <1>5, OneBefore
  <2> HIDE DEF pieces
  <2> QED
    BY <1>5, <2>1, Zenon DEF PutBefore
<1>8. FlattenSeq(pieces) = line
  <2>1. <<head>> \in Seq(Row(X))
    BY <1>2
  <2>2. FlattenSeq(<<head>>) = head
    BY <1>2, FlattenOne, Zenon DEF Row
  <2>3. <<head>> \in Seq(Seq(X)) /\ tail \in Seq(Seq(X))
    BY <1>5, <2>1, Zenon DEF Row
  <2>4. FlattenSeq(<<head>> \o tail) = FlattenSeq(<<head>>) \o FlattenSeq(tail)
    BY <2>3, FlattenConcat, Zenon
  <2> QED
    BY <1>4, <2>2, <2>4, Zenon
<1> HIDE DEF w, pieces
<1>9. Spaced(w, pieces)
  <2>1. ASSUME NEW k \in 1..(n + 1) PROVE PieceIs(w[k], pieces[k], k = n + 1)
    <3>1. CASE k = 1
      <4>1. w[k] = first /\ pieces[k] = head
        BY <1>6, <1>7, <3>1, Zenon
      <4>2. PieceIs(first, head, k = n + 1)
        BY <1>2, Zenon DEF NoBlankIn, PieceIs, PutBehind
      <4> QED
        BY <4>1, <4>2, Zenon
    <3>2. CASE k # 1
      <4> DEFINE h == k - 1
      <4>1. h \in 1..n /\ k \in 2..(n + 1) /\ (h = n <=> k = n + 1)
        BY <1>1, <3>2
      <4>2. w[k] = args[h] /\ pieces[k] = SpacedArg(args, h)
        BY <1>5, <1>6, <1>7, <4>1, Zenon
      <4> HIDE DEF h
      <4>3. PieceIs(args[h], SpacedArg(args, h), h = n)
        BY <1>3, <4>1, Zenon
      <4> QED
        BY <4>1, <4>2, <4>3, Zenon DEF PieceIs
    <3> QED
      BY <3>1, <3>2
  <2> QED
    BY <1>6, <1>7, <2>1, Zenon DEF Spaced, PieceIs, Space
<1> DEFINE off == [k \in 1..(Len(pieces) + 1) |-> Offset(pieces, k)]
<1>10. PiecesAt(line, pieces, off)
  <2>1. pieces \in Seq(Seq(X))
    BY <1>7, Zenon DEF Row
  <2>2. PiecesAt(FlattenSeq(pieces), pieces, off)
    BY <2>1, PiecesAreAt, Zenon
  <2> QED
    BY <1>8, <2>2, Zenon
<1> DEFINE at == [k \in 1..Len(w) |-> off[k]]
<1>11. WordsAt(line, w, at)
  <2>1. Len(w) \in Nat
    BY <1>1, <1>6
  <2> HIDE DEF off, line
  <2> QED
    BY <1>9, <1>10, <2>1, SpacedLie, Zenon
<1>12. line \in Seq(X)
  <2>1. pieces \in Seq(Seq(X))
    BY <1>7, Zenon DEF Row
  <2>2. FlattenSeq(pieces) \in Seq(X)
    BY <2>1, FlattenTyped, Zenon
  <2> QED
    BY <1>8, <2>2, Zenon
<1>13. Words(line) = w
  <2> HIDE DEF line, at
  <2>1. w \in Seq(Seq(X))
    BY <1>6, Zenon DEF Row
  <2> QED
    BY <1>11, <1>12, <2>1, WordsAreFound, Zenon
<1> QED
  BY <1>13, Zenon DEF line, head, w

Executable == "x"
Chars == STRING \cup {Space, Executable}

LEMMA CharsAre == Space \in Chars /\ Executable \in Chars /\ Executable # Space
<1>1. Executable # Space
  BY Zenon DEF Executable, Space
<1> QED
  BY <1>1, Zenon DEF Chars

LEMMA StringsAre ==
    ASSUME NEW s \in Seq(STRING)
    PROVE  s \in Row(Chars)
<1> DEFINE A == STRING
           B == Chars
<1>1. s \in Seq(A) /\ A \subseteq B
  BY DEF Chars
<1> HIDE DEF A, B
<1>2. s \in Seq(B)
  BY <1>1
<1> QED
  BY <1>2, Zenon DEF Row, B

LEMMA PathsAre ==
    \A path \in Paths : path \in Row(Chars) /\ \A i \in 1..Len(path) : path[i] # Space
<1> SUFFICES ASSUME NEW path \in Paths
             PROVE  path \in Row(Chars) /\ \A i \in 1..Len(path) : path[i] # Space
  BY Zenon
<1>1. path \in Row(Chars)
  <2>1. path \in Seq(STRING)
    BY LaunchAssumption, Zenon
  <2> QED
    BY <2>1, StringsAre, Zenon
<1>2. " " \notin ToSet(path)
  BY LaunchAssumption, Zenon
<1>3. DOMAIN path = 1..Len(path)
  BY <1>1, LenProperties, Zenon DEF Row
<1>4. \A i \in 1..Len(path) : path[i] # Space
  BY <1>2, <1>3, Zenon DEF ToSet, Space
<1> QED
  BY <1>1, <1>4, Zenon

LEMMA ArgsAre == \A a \in Args : a \in Row(Chars)
<1> SUFFICES ASSUME NEW a \in Args PROVE a \in Row(Chars)
  BY Zenon
<1>1. a \in Seq(STRING)
  BY LaunchAssumption, Zenon
<1> QED
  BY <1>1, StringsAre, Zenon

(* What is asked of the arguments of a command.                            *)
CleanArgs(args) == \A a \in ToSet(args) : a # <<>> /\ " " \notin ToSet(a)

LEMMA ListsAre ==
    ASSUME NEW args \in Lists, CleanArgs(args)
    PROVE  Given(Chars, args)
<1>1. PICK n \in 0..MaxArgs : args \in [1..n -> Args]
  BY Zenon DEF Lists
<1>2. n \in Nat
  BY MaxArgsNat
<1>3. \A i \in 1..n : args[i] \in Row(Chars)
  BY <1>1, ArgsAre, Zenon
<1>4. args \in Seq(Row(Chars)) /\ Len(args) = n /\ DOMAIN args = 1..n
  <2> DEFINE Q == Row(Chars)
  <2>1. args = [i \in 1..n |-> args[i]]
    BY <1>1, Zenon
  <2>2. \A i \in 1..n : args[i] \in Q
    BY <1>3
  <2> HIDE DEF Q
  <2>3. args \in [1..n -> Q]
    BY <2>1, <2>2, Zenon
  <2>4. args \in Seq(Q) /\ Len(args) = n /\ DOMAIN args = 1..n
    BY <1>2, <2>3
  <2> QED
    BY <2>4 DEF Q
<1>5. ASSUME NEW i \in 1..n PROVE args[i] \in Seq(Chars) /\ NoBlankIn(args[i])
  <2> DEFINE a == args[i]
  <2>1. a \in ToSet(args)
    BY <1>4, Zenon DEF ToSet
  <2>2. a \in Seq(Chars)
    BY <1>3, Zenon DEF Row
  <2>3. a # <<>> /\ " " \notin ToSet(a)
    BY <2>1, Zenon DEF CleanArgs
  <2> HIDE DEF a
  <2>4. DOMAIN a = 1..Len(a) /\ Len(a) \in Nat \ {0}
    BY <2>2, <2>3, LenProperties, EmptySeq, Zenon
  <2>5. \A j \in 1..Len(a) : a[j] # Space
    BY <2>3, <2>4, Zenon DEF ToSet, Space
  <2> QED
    BY <2>2, <2>4, <2>5, Zenon DEF a, NoBlankIn
<1> QED
  BY <1>2, <1>4, <1>5, Zenon DEF Given

LEMMA DirectoryIs ==
    ASSUME NEW X, NEW path \in Row(X), Directory(path) # NULL
    PROVE  \E l \in 2..Len(path) :
               /\ Directory(path) = SubSeq(path, 1, l)
               /\ \A j \in (l + 1)..Len(path) : path[j] # "/"
<1> DEFINE n == Len(path)
           slashes == {i \in 2..n : path[i] = "/"}
           last == CHOOSE i \in slashes : \A j \in slashes : j <= i
           mirror == {n - i : i \in slashes}
<1>1. n \in Nat
  BY LenProperties DEF Row
<1>2. slashes # {}
  BY Zenon DEF Directory
<1>3. Directory(path) = SubSeq(path, 1, last)
  BY Zenon DEF Directory
<1>4. \A i \in slashes : i \in 2..n
  OBVIOUS
<1>5. \A j \in 2..n : j \notin slashes => path[j] # "/"
  OBVIOUS
<1> HIDE DEF n, slashes
<1>6. mirror \subseteq Nat /\ mirror # {} /\ \A i \in slashes : n - i \in mirror
  BY <1>1, <1>2, <1>4
<1>7. PICK least \in mirror : \A y \in mirror : least <= y
  <2> HIDE DEF mirror
  <2> QED
    BY <1>6, LeastElement
<1>8. PICK i \in slashes : least = n - i
  BY <1>7
<1>9. \A j \in slashes : j <= i
  <2> SUFFICES ASSUME NEW j \in slashes PROVE j <= i
    OBVIOUS
  <2>1. n - j \in mirror /\ j \in 2..n /\ i \in 2..n
    BY <1>4, <1>6
  <2>2. n - i <= n - j
    BY <1>7, <1>8, <2>1, Zenon
  <2> QED
    BY <1>1, <2>1, <2>2
<1> HIDE DEF mirror
<1>10. last \in slashes /\ \A j \in slashes : j <= last
  BY <1>8, <1>9, Zenon
<1> HIDE DEF last
<1>11. last \in 2..n
  BY <1>4, <1>10
<1>12. ASSUME NEW j \in (last + 1)..n PROVE path[j] # "/"
  <2>1. j \in 2..n /\ ~(j <= last)
    BY <1>1, <1>11
  <2> QED
    BY <1>5, <1>10, <2>1, Zenon
<1> QED
  BY <1>3, <1>11, <1>12, Zenon DEF n

LEMMA LastRemoved ==
    ASSUME NEW X, NEW s \in Seq(X), NEW c \in X
    PROVE  SubSeq(s \o <<c>>, 1, Len(s \o <<c>>) - 1) = s
<1> DEFINE both == s \o <<c>>
           l == Len(s)
           part == SubSeq(both, 1, l)
<1>1. both \in Seq(X) /\ PutBehind(s, c, both)
  BY OneBehind
<1>2. l \in Nat /\ DOMAIN s = 1..l
  BY LenProperties
<1> HIDE DEF both
<1>3. Len(both) = l + 1 /\ \A i \in 1..l : both[i] = s[i]
  BY <1>1, Zenon DEF PutBehind
<1>4. 1 \in Int /\ l \in Int /\ \A i \in 1..l : both[i] \in X
  <2>1. \A i \in 1..l : s[i] \in X
    OBVIOUS
  <2> QED
    BY <1>2, <1>3, <2>1
<1> HIDE DEF l
<1>5. /\ part \in Seq(X) /\ Len(part) = IF 1 <= l THEN l - 1 + 1 ELSE 0
      /\ \A i \in 1..(l - 1 + 1) : part[i] = both[1 + i - 1]
  BY <1>4, SubSeqProperties
<1> HIDE DEF part
<1>6. Len(part) = l /\ \A i \in 1..l : part[i] = s[i]
  BY <1>2, <1>3, <1>5
<1>7. part = s
  BY <1>5, <1>6, SeqEqual DEF l
<1>8. Len(both) - 1 = l
  BY <1>2, <1>3
<1> QED
  BY <1>7, <1>8, Zenon DEF part, both

(* What is left of a sequence cut behind place l.                          *)
CutIs(path, l, dir, rest) ==
    /\ Len(dir) = l /\ \A i \in 1..l : i \in 1..Len(path) /\ dir[i] = path[i]
    /\ path = dir \o rest
    /\ DOMAIN rest = 1..Len(rest)
    /\ \A i \in 1..Len(rest) : \E j \in (l + 1)..Len(path) : rest[i] = path[j]

LEMMA CutAt ==
    ASSUME NEW X, NEW path \in Row(X), NEW l \in 2..Len(path)
    PROVE  /\ SubSeq(path, 1, l) \in Seq(X)
           /\ CutIs(path, l, SubSeq(path, 1, l), SubSeq(path, l + 1, Len(path)))
<1> DEFINE n == Len(path)
           dir == SubSeq(path, 1, l)
           rest == SubSeq(path, l + 1, n)
<1>1. n \in Nat /\ \A i \in 1..n : path[i] \in X
  BY DEF Row
<1>2. l \in Nat /\ 2 <= l /\ l <= n
  BY <1>1
<1> HIDE DEF n
<1>3. /\ dir \in Seq(X) /\ Len(dir) = IF 1 <= l THEN l - 1 + 1 ELSE 0
      /\ \A i \in 1..(l - 1 + 1) : dir[i] = path[1 + i - 1]
  <2>1. 1 \in Int /\ l \in Int /\ \A i \in 1..l : path[i] \in X
    BY <1>1, <1>2
  <2> QED
    BY <2>1, SubSeqProperties
<1>4. /\ rest \in Seq(X) /\ Len(rest) = IF l + 1 <= n THEN n - (l + 1) + 1 ELSE 0
      /\ \A i \in 1..(n - (l + 1) + 1) : rest[i] = path[(l + 1) + i - 1]
  <2>1. l + 1 \in Int /\ n \in Int /\ \A i \in (l + 1)..n : path[i] \in X
    BY <1>1, <1>2
  <2> QED
    BY <2>1, SubSeqProperties
<1>5. path = dir \o rest
  <2>1. path \in Seq(X) /\ 1 \in 1..(n + 1) /\ l \in (1 - 1)..n /\ n \in l..n
    BY <1>1, <1>2 DEF Row
  <2>2. dir \o rest = SubSeq(path, 1, n)
    BY <2>1, ConcatAdjacentSubSeq DEF n
  <2>3. SubSeq(path, 1, n) = path
    BY <2>1, SubSeqFull DEF n
  <2> QED
    BY <2>2, <2>3, Zenon
<1> HIDE DEF dir, rest
<1>6. Len(dir) = l /\ \A i \in 1..l : i \in 1..n /\ dir[i] = path[i]
  BY <1>1, <1>2, <1>3
<1>7. DOMAIN rest = 1..Len(rest) /\ Len(rest) \in Nat
  BY <1>4, LenProperties
<1>8. ASSUME NEW i \in 1..Len(rest) PROVE \E j \in (l + 1)..n : rest[i] = path[j]
  <2>1. Len(rest) = n - l
    BY <1>1, <1>2, <1>4
  <2>2. i \in 1..(n - (l + 1) + 1) /\ (l + 1) + i - 1 \in (l + 1)..n
    BY <1>1, <1>2, <2>1
  <2> QED
    BY <1>4, <2>2, Zenon
<1> QED
  BY <1>3, <1>5, <1>6, <1>7, <1>8, Zenon DEF CutIs, n, dir, rest

(* The command line of an executable beside the running one.               *)
SplitsAs(line, args, path, rest) ==
    /\ Tail(Words(line)) = args
    /\ path = SubSeq(Head(Words(line)), 1, Len(Head(Words(line))) - 1) \o rest

LEMMA BesideIs ==
    ASSUME NEW X, Space \in X, NEW x \in X, x # Space, NEW path \in Row(X),
           \A i \in 1..Len(path) : path[i] # Space,
           NEW l \in 2..Len(path), NEW dir, dir = SubSeq(path, 1, l),
           NEW args, Given(X, args)
    PROVE  SplitsAs(((dir \o <<x>>) \o <<Space>>) \o Joined(args), args,
                    path, SubSeq(path, l + 1, Len(path)))
<1> DEFINE first == dir \o <<x>>
           line == (first \o <<Space>>) \o Joined(args)
           rest == SubSeq(path, l + 1, Len(path))
<1>1. dir \in Seq(X) /\ CutIs(path, l, dir, rest)
  BY CutAt
<1>2. first \in Row(X) /\ PutBehind(dir, x, first)
  BY <1>1, OneBehind DEF Row
<1>3. SubSeq(first, 1, Len(first) - 1) = dir
  BY <1>1, LastRemoved
<1>4. l \in Nat /\ l + 1 \in Nat \ {0}
  OBVIOUS
<1> HIDE DEF first, rest
<1>5. NoBlankIn(first)
  <2>1. Len(first) = l + 1 /\ first[l + 1] = x /\ \A i \in 1..l : first[i] # Space
    BY <1>1, <1>2, Zenon DEF CutIs, PutBehind
  <2>2. \A i \in 1..(l + 1) : i \in 1..l \/ i = l + 1
    BY <1>4
  <2> QED
    BY <1>4, <2>1, <2>2, Zenon DEF NoBlankIn
<1>6. Words(line) = <<first>> \o args
  BY <1>2, <1>5, CommandWords
<1>7. Head(<<first>> \o args) = first /\ Tail(<<first>> \o args) = args
  <2>1. args \in Seq(Row(X))
    BY Zenon DEF Given
  <2>2. PutBefore(first, args, <<first>> \o args)
    BY <1>2, <2>1, OneBefore
  <2> QED
    BY <2>2, Zenon DEF PutBefore
<1>8. path = dir \o rest
  BY <1>1, Zenon DEF CutIs
<1>9. Tail(Words(line)) = args /\ path = SubSeq(Head(Words(line)), 1, Len(Head(Words(line))) - 1) \o rest
  BY <1>3, <1>6, <1>7, <1>8, Zenon
<1> QED
  BY <1>9, Zenon DEF first, rest, line, SplitsAs

LEMMA CommandSplits ==
    ASSUME launch \in Launches \cup {AnyLaunch}
    PROVE  CommandLineSplits
<1> DEFINE path == launch.path
           args == launch.args
           dir == Directory(path)
           words == Words(CommandLine(dir, <<"x">>, args))
           files == {SubSeq(path, i, Len(path)) : i \in 2..(Len(path) + 1)}
<1> SUFFICES ASSUME launch.what = "command", dir # NULL, CleanArgs(args)
             PROVE  /\ Tail(words) = args
                    /\ \E file \in files :
                          /\ "/" \notin ToSet(file)
                          /\ path = SubSeq(Head(words), 1, Len(Head(words)) - 1) \o file
  BY Zenon DEF CommandLineSplits, CleanArgs
<1>1. launch \in Launches
  <2> SUFFICES ASSUME launch = AnyLaunch PROVE FALSE
    OBVIOUS
  <2>1. path = <<"/">>
    BY DEF AnyLaunch
  <2> DEFINE slash == "/"
  <2> HIDE DEF slash
  <2>2. Len(<<slash>>) = 1
    OBVIOUS
  <2>3. Len(path) = 1
    BY <2>1, <2>2, Zenon DEF slash
  <2>4. 2..1 = {}
    OBVIOUS
  <2>5. dir = NULL
    BY <2>3, <2>4, Zenon DEF Directory
  <2> QED
    BY <2>5
<1>2. path \in Paths /\ args \in Lists
  BY <1>1 DEF Launches
<1>3. path \in Row(Chars) /\ \A i \in 1..Len(path) : path[i] # Space
  BY <1>2, PathsAre, Zenon
<1>4. PICK l \in 2..Len(path) :
          dir = SubSeq(path, 1, l) /\ \A j \in (l + 1)..Len(path) : path[j] # "/"
  BY <1>3, DirectoryIs, Zenon
<1>5. Given(Chars, args)
  BY <1>2, ListsAre, Zenon
<1> HIDE DEF path, args, dir
<1> DEFINE rest == SubSeq(path, l + 1, Len(path))
           line == ((dir \o <<Executable>>) \o <<Space>>) \o Joined(args)
<1>6. CommandLine(dir, <<"x">>, args) = line
  BY Zenon DEF CommandLine, Space, Executable
<1>7. SplitsAs(line, args, path, rest)
  <2>1. dir = SubSeq(path, 1, l)
    BY <1>4
  <2> QED
    BY <1>3, <1>5, <2>1, BesideIs, CharsAre
<1>8. CutIs(path, l, SubSeq(path, 1, l), rest)
  BY <1>3, CutAt, Zenon
<1>9. "/" \notin ToSet(rest)
  BY <1>4, <1>8, Zenon DEF CutIs, ToSet
<1>10. rest \in files
  <2>1. Len(path) \in Nat
    BY <1>3, LenProperties, Zenon DEF Row
  <2>2. l + 1 \in 2..(Len(path) + 1)
    BY <2>1
  <2> QED
    BY <2>2, Zenon
<1> HIDE DEF rest, files, line
<1>11. words = Words(line)
  BY <1>6, Zenon
<1> HIDE DEF words
<1> QED
  BY <1>7, <1>9, <1>10, <1>11, Zenon DEF SplitsAs

-----------------------------------------------------------------------------
(* The log of a child: the widths of numbers.                              *)
Bases == {8, 10, 16}

LEMMA PowersAre ==
    ASSUME NEW base \in Bases, NEW h \in Nat
    PROVE  /\ Powers(base, h) \in [0..h -> Nat]
           /\ Powers(base, h)[0] = 1
           /\ \A k \in 1..h : Powers(base, h)[k] = base * Powers(base, h)[k - 1]
<1> DEFINE Is(f) == f = [k \in 0..h |-> IF k = 0 THEN 1 ELSE base * f[k - 1]]
           power == CHOOSE f : Is(f)
<1>1. \E f : Is(f)
  <2> DEFINE more == [x \in Nat |-> base * x]
             step == [k \in 1..h |-> more]
  <2>1. more \in [Nat -> Nat]
    BY DEF Bases
  <2>2. step \in [1..h -> [Nat -> Nat]]
    BY <2>1
  <2>3. \A k \in 1..h : \A x \in Nat : step[k][x] = base * x
    OBVIOUS
  <2> HIDE DEF more, step
  <2>4. PICK f \in [0..h -> Nat] : f[0] = 1 /\ \A k \in 1..h : f[k] = step[k][f[k - 1]]
    <3>1. Recurs(h, Nat, 1, step)
      BY <2>2, Recursion
    <3> QED
      BY <3>1 DEF Recurs
  <2>5. ASSUME NEW k \in 1..h PROVE f[k] = base * f[k - 1]
    <3>1. k - 1 \in 0..h
      OBVIOUS
    <3>2. f[k - 1] \in Nat
      BY <3>1
    <3> QED
      BY <2>3, <2>4, <3>2
  <2>6. \A k \in 0..h : f[k] = IF k = 0 THEN 1 ELSE base * f[k - 1]
    BY <2>4, <2>5
  <2>7. Is(f)
    BY <2>6
  <2> QED
    BY <2>7
<1>2. Is(power)
  BY <1>1
<1>3. Powers(base, h) = power
  BY DEF Powers
<1> HIDE DEF power
<1>4. /\ power = [k \in 0..h |-> power[k]]
      /\ power[0] = 1 /\ \A k \in 1..h : power[k] = base * power[k - 1]
  BY <1>2
<1> HIDE DEF Is
<1>5. \A k \in 0..h : power[k] \in Nat
  <2> DEFINE S == {k \in 0..h : power[k] \in Nat}
  <2>1. 0 \in S
    BY <1>4
  <2>2. ASSUME NEW k \in 0..(h - 1), k \in S PROVE k + 1 \in S
    <3>1. k + 1 \in 1..h /\ k + 1 \in 0..h /\ (k + 1) - 1 = k
      OBVIOUS
    <3>2. power[k + 1] = base * power[k]
      BY <1>4, <3>1
    <3> QED
      BY <2>2, <3>1, <3>2 DEF Bases
  <2> HIDE DEF S
  <2>3. 0..h \subseteq S
    BY <2>1, <2>2, Induction
  <2> QED
    BY <2>3 DEF S
<1> QED
  BY <1>3, <1>4, <1>5

LEMMA DivGe ==
    ASSUME NEW x \in Int, NEW y \in Int, NEW base \in Bases
    PROVE  x >= base * y <=> x \div base >= y
<1>1. CASE base = 8
  BY <1>1
<1>2. CASE base = 10
  BY <1>2
<1>3. CASE base = 16
  BY <1>3
<1> QED
  BY <1>1, <1>2, <1>3 DEF Bases

(* What is left of a number without k digits reaches m when the number     *)
(* reaches m times the power.                                              *)
LEMMA Reaches ==
    ASSUME NEW n \in Int, NEW m \in Int, NEW base \in Bases,
           NEW h \in Nat, NEW width \in Nat, h <= width, NEW k \in 0..h
    PROVE  n >= m * Powers(base, h)[k] <=> Shifts(n, base, width)[k] >= m
<1> DEFINE P == Powers(base, h)
           left == Shifts(n, base, width)
           S == {i \in 0..k : n >= m * P[k] <=> left[i] >= m * P[k - i]}
<1>1. /\ P \in [0..h -> Nat] /\ P[0] = 1 /\ \A i \in 1..h : P[i] = base * P[i - 1]
  BY PowersAre
<1>2. /\ left \in [0..width -> Int] /\ left[0] = n
      /\ \A i \in 1..width : left[i] = left[i - 1] \div base
  <2>1. base \in Nat \ {0}
    BY DEF Bases
  <2> QED
    BY <2>1, ShiftsAreInts
<1> HIDE DEF P, left
<1>3. 0 \in S
  BY <1>2
<1>4. ASSUME NEW i \in 0..(k - 1), i \in S PROVE i + 1 \in S
  <2>1. /\ i + 1 \in 0..k /\ i \in 0..width /\ i + 1 \in 1..width /\ (i + 1) - 1 = i
        /\ k - i \in 1..h /\ (k - i) - 1 = k - (i + 1) /\ k - (i + 1) \in 0..h
    OBVIOUS
  <2>2. left[i + 1] = left[i] \div base /\ left[i] \in Int
    BY <1>2, <2>1
  <2> DEFINE y == P[k - (i + 1)]
  <2>3. P[k - i] = base * y /\ y \in Nat
    BY <1>1, <2>1
  <2> HIDE DEF y
  <2>4. m * (base * y) = base * (m * y) /\ m * y \in Int
    BY <2>3 DEF Bases
  <2>5. left[i] >= base * (m * y) <=> left[i] \div base >= m * y
    BY <2>2, <2>4, DivGe
  <2>6. left[i] >= m * P[k - i] <=> left[i + 1] >= m * y
    BY <2>2, <2>3, <2>4, <2>5, Zenon
  <2>7. n >= m * P[k] <=> left[i] >= m * P[k - i]
    BY <1>4
  <2> QED
    BY <2>1, <2>6, <2>7, Zenon DEF y
<1> HIDE DEF S
<1>5. 0..k \subseteq S
  BY <1>3, <1>4, Induction
<1>6. n >= m * P[k] <=> left[k] >= m * P[k - k]
  <2>1. k \in 0..k
    OBVIOUS
  <2> QED
    BY <1>5, <2>1 DEF S
<1>7. m * P[k - k] = m
  <2>1. k - k = 0 /\ m * 1 = m
    OBVIOUS
  <2> QED
    BY <1>1, <2>1
<1> QED
  BY <1>6, <1>7 DEF P, left

(* The digit in front of a number, and those before it.                    *)
DigitAt(n, base, width, i) ==
    IF base = 8 /\ i = 11 THEN DigitsOf(n, base, width)[i] % 4 ELSE DigitsOf(n, base, width)[i]

LEMMA DigitsLast ==
    ASSUME NEW n, NEW base, NEW width \in Nat, NEW z \in 1..width,
           \A i \in 1..width : DigitAt(n, base, width, i) \in Nat,
           \A i \in (z + 1)..width : DigitAt(n, base, width, i) = 0,
           z = 1 \/ DigitAt(n, base, width, z) # 0
    PROVE  Digits(n, base, width) \in Seq(Nat \ {0}) /\ Len(Digits(n, base, width)) = z
<1> DEFINE digit == [i \in 1..width |-> DigitAt(n, base, width, i)]
           top == {i \in 1..width : \A j \in (i + 1)..width : digit[j] = 0}
           last == CHOOSE i \in top : \A j \in top : i <= j
           text == [i \in 1..last |-> DigitChar(digit[last + 1 - i])]
<1>1. Digits(n, base, width) = text
  BY Zenon DEF Digits, DigitAt
<1>2. /\ \A i \in 1..width : digit[i] \in Nat
      /\ \A i \in (z + 1)..width : i \in 1..width /\ digit[i] = 0
      /\ z = 1 \/ digit[z] # 0
  OBVIOUS
<1> HIDE DEF digit
<1>3. z \in top
  BY <1>2
<1>4. \A j \in top : z <= j
  <2> SUFFICES ASSUME NEW j \in 1..width, j < z PROVE ~(\A i \in (j + 1)..width : digit[i] = 0)
    OBVIOUS
  <2>1. z \in (j + 1)..width /\ z # 1
    OBVIOUS
  <2> QED
    BY <1>2, <2>1
<1>5. \A j \in top : j \in Nat
  OBVIOUS
<1> HIDE DEF top
<1>6. last = z
  <2>1. last \in top /\ \A j \in top : last <= j
    BY <1>3, <1>4, Zenon
  <2> HIDE DEF last
  <2> QED
    BY <1>3, <1>4, <1>5, <2>1
<1> HIDE DEF last
<1>7. \A i \in 1..z : DigitChar(digit[z + 1 - i]) \in Nat \ {0}
  <2> SUFFICES ASSUME NEW i \in 1..z PROVE DigitChar(digit[z + 1 - i]) \in Nat \ {0}
    OBVIOUS
  <2>1. z + 1 - i \in 1..width
    OBVIOUS
  <2>2. digit[z + 1 - i] \in Nat
    BY <1>2, <2>1
  <2> QED
    BY <2>2 DEF DigitChar
<1>8. text \in Seq(Nat \ {0}) /\ Len(text) = z
  BY <1>6, <1>7
<1> QED
  BY <1>1, <1>8

LEMMA DigitsFrom ==
    ASSUME NEW n \in Int, NEW base \in Bases, NEW width \in Nat
    PROVE  /\ \A i \in 1..width : DigitsOf(n, base, width)[i] = Shifts(n, base, width)[i - 1] % base
           /\ \A i \in 1..width : DigitAt(n, base, width, i) \in Nat
<1>1. /\ base \in Nat \ {0} /\ Shifts(n, base, width) \in [0..width -> Int]
  <2>1. base \in Nat \ {0}
    BY DEF Bases
  <2> QED
    BY <2>1, ShiftsAreInts
<1>2. ASSUME NEW i \in 1..width
      PROVE  /\ DigitsOf(n, base, width)[i] = Shifts(n, base, width)[i - 1] % base
             /\ DigitAt(n, base, width, i) \in Nat
  <2> DEFINE x == Shifts(n, base, width)[i - 1]
             d == DigitsOf(n, base, width)[i]
  <2>1. x \in Int
    <3>1. i - 1 \in 0..width
      OBVIOUS
    <3> QED
      BY <1>1, <3>1
  <2>2. d = x % base
    BY Zenon DEF DigitsOf
  <2> HIDE DEF x, d
  <2>3. d \in Nat /\ d % 4 \in Nat
    <3>1. d \in 0..(base - 1)
      BY <1>1, <2>1, <2>2, DivInt
    <3> QED
      BY <1>1, <3>1
  <2> QED
    BY <2>2, <2>3, Zenon DEF x, d, DigitAt
<1> QED
  BY <1>2

(* What is counted from the powers is the number of digits, if the highest *)
(* digit holds what is left.                                               *)
LEMMA CountIs ==
    ASSUME NEW n \in Nat, NEW base \in Bases, NEW h \in Nat,
           base = 8 => h = 10,
           Shifts(n, base, h + 1)[h] < IF base = 8 /\ h = 10 THEN 4 ELSE base
    PROVE  /\ Digits(n, base, h + 1) \in Seq(Nat \ {0})
           /\ Len(Digits(n, base, h + 1)) = CountFrom(n, base, h)
<1> DEFINE w == h + 1
           left == Shifts(n, base, w)
           T == {k \in 1..w : k = w \/ left[k] = 0}
           K == {k \in 1..h : n >= Powers(base, h)[k]}
<1>0. base \in Nat \ {0}
  BY DEF Bases
<1>1. /\ left \in [0..w -> Nat] /\ left[0] = n
      /\ \A i \in 1..w : left[i] = left[i - 1] \div base
  <2>1. w \in Nat
    OBVIOUS
  <2> HIDE DEF w
  <2> QED
    BY <1>0, <2>1, ShiftsAre, ZenonT(60)
<1>2. \A k \in 0..h : n >= Powers(base, h)[k] <=> left[k] >= 1
  <2> SUFFICES ASSUME NEW k \in 0..h PROVE n >= Powers(base, h)[k] <=> left[k] >= 1
    OBVIOUS
  <2>1. n \in Int /\ 1 \in Int /\ w \in Nat /\ h <= w
    OBVIOUS
  <2> HIDE DEF w
  <2>2. n >= 1 * Powers(base, h)[k] <=> left[k] >= 1
    BY <2>1, Reaches, Zenon
  <2>3. Powers(base, h)[k] \in Nat
    BY PowersAre
  <2>4. 1 * Powers(base, h)[k] = Powers(base, h)[k]
    BY <2>3
  <2> QED
    BY <2>2, <2>4, Zenon
<1>3. left[h] < IF base = 8 /\ h = 10 THEN 4 ELSE base
  OBVIOUS
<1>4. /\ \A i \in 1..w : DigitsOf(n, base, w)[i] = left[i - 1] % base
      /\ \A i \in 1..w : DigitAt(n, base, w, i) \in Nat
  <2>1. w \in Nat /\ n \in Int
    OBVIOUS
  <2> HIDE DEF w
  <2> QED
    BY <2>1, DigitsFrom
<1> HIDE DEF left
<1>5. PICK z \in T : \A y \in T : z <= y
  <2>1. w \in T /\ T \subseteq Nat
    OBVIOUS
  <2> HIDE DEF T
  <2> QED
    BY <2>1, LeastElement
<1>6. z \in 1..w /\ (z = w \/ left[z] = 0)
  OBVIOUS
<1>7. \A k \in 0..h : left[k] \in Nat
  BY <1>1
<1>8. ASSUME NEW k \in 1..(z - 1) PROVE k \in 1..h /\ left[k] >= 1
  <2>1. k \in 1..w /\ ~(z <= k) /\ k # w /\ k \in 1..h /\ k \in 0..h
    BY <1>6
  <2>2. k \notin T
    BY <1>5, <2>1, Zenon
  <2>3. left[k] # 0 /\ left[k] \in Nat
    BY <1>7, <2>1, <2>2
  <2> QED
    BY <2>1, <2>3
<1> HIDE DEF T
<1>9. \A k \in z..w : k = w \/ left[k] = 0
  <2> DEFINE S == {i \in 0..(w - z) : z + i = w \/ left[z + i] = 0}
  <2>1. 0 \in S
    BY <1>6
  <2>2. ASSUME NEW i \in 0..((w - z) - 1), i \in S PROVE i + 1 \in S
    <3>1. z + i \in 0..w /\ z + (i + 1) \in 1..w /\ (z + (i + 1)) - 1 = z + i
          /\ z + i # w /\ i + 1 \in 0..(w - z)
      BY <1>6
    <3>2. left[z + i] = 0
      BY <2>2, <3>1
    <3>3. left[z + (i + 1)] = 0 \div base
      BY <1>1, <3>1, <3>2, Zenon
    <3>4. 0 \div base = 0
      BY <1>0
    <3> QED
      BY <3>1, <3>3, <3>4
  <2> HIDE DEF S
  <2>3. w - z \in Nat
    BY <1>6
  <2>4. 0..(w - z) \subseteq S
    BY <2>1, <2>2, <2>3, Induction
  <2> SUFFICES ASSUME NEW k \in z..w PROVE k = w \/ left[k] = 0
    OBVIOUS
  <2>5. k - z \in 0..(w - z) /\ z + (k - z) = k
    BY <1>6
  <2>6. k - z \in S
    BY <2>4, <2>5
  <2> QED
    BY <2>5, <2>6 DEF S
<1>10. K = 1..(z - 1)
  <2>1. ASSUME NEW k \in 1..(z - 1) PROVE k \in K
    <3>1. k \in 1..h /\ left[k] >= 1 /\ k \in 0..h
      BY <1>8
    <3> QED
      BY <1>2, <3>1
  <2>2. ASSUME NEW k \in K PROVE k \in 1..(z - 1)
    <3>1. k \in 1..h /\ left[k] >= 1 /\ k \in 0..h /\ k \in Int /\ k # w
      BY <1>2
    <3>2. left[k] # 0
      BY <1>7, <3>1
    <3>3. k \notin z..w
      BY <1>9, <3>1, <3>2
    <3> QED
      BY <1>6, <3>1, <3>3
  <2> HIDE DEF K
  <2> QED
    BY <2>1, <2>2
<1>11. Cardinality(K) = z - 1
  <2>1. z - 1 \in Nat /\ 1 \in Int /\ z - 1 \in Int /\ ~(1 > z - 1 /\ z - 1 # 0)
    BY <1>6
  <2>2. Cardinality(1..(z - 1)) = IF 1 > z - 1 THEN 0 ELSE (z - 1) - 1 + 1
    BY <2>1, FS_Interval
  <2>3. Cardinality(1..(z - 1)) = z - 1
    BY <2>1, <2>2
  <2> QED
    BY <1>10, <2>3, Zenon
<1>12. CountFrom(n, base, h) = z
  <2>1. CountFrom(n, base, h) = 1 + Cardinality(K)
    BY Zenon DEF CountFrom
  <2> HIDE DEF K
  <2> QED
    BY <1>6, <1>11, <2>1
<1>13. ASSUME NEW i \in (z + 1)..w PROVE DigitAt(n, base, w, i) = 0
  <2>1. i \in 1..w /\ i - 1 \in z..w /\ i - 1 # w
    BY <1>6
  <2>2. left[i - 1] = 0
    BY <1>9, <2>1
  <2>3. 0 % base = 0 /\ 0 % 4 = 0
    BY <1>0
  <2>4. DigitsOf(n, base, w)[i] = 0
    BY <1>4, <2>1, <2>2, <2>3
  <2> QED
    BY <2>3, <2>4, Zenon DEF DigitAt
<1>14. z = 1 \/ DigitAt(n, base, w, z) # 0
  <2> SUFFICES ASSUME z # 1 PROVE DigitAt(n, base, w, z) # 0
    OBVIOUS
  <2> DEFINE x == left[z - 1]
  <2>1. z - 1 \in 1..(z - 1) /\ z - 1 \in 0..h
    BY <1>6
  <2>2. x \in Nat /\ x >= 1
    BY <1>7, <1>8, <2>1
  <2>3. DigitsOf(n, base, w)[z] = x % base
    BY <1>4, <1>6
  <2>4. left[z] = x \div base
    BY <1>1, <1>6
  <2> HIDE DEF x
  <2>5. CASE z # w
    <3>1. x \div base = 0
      BY <1>6, <2>4, <2>5
    <3>2. x % base # 0
      BY <1>0, <2>2, <3>1, DivMod
    <3>3. x % base \in 0..(base - 1) /\ (x % base) + base * 0 = x
      BY <1>0, <2>2, <3>1, DivMod
    <3>4. base = 8 /\ z = 11 => (x % base) % 4 # 0
      BY <1>6, <2>5
    <3> QED
      BY <2>3, <3>2, <3>4, Zenon DEF DigitAt
  <2>6. CASE z = w
    <3>1. z - 1 = h /\ (z = 11 <=> h = 10)
      BY <2>6
    <3>2. x < IF base = 8 /\ h = 10 THEN 4 ELSE base
      BY <1>3, <3>1 DEF x
    <3>3. CASE base = 8 /\ h = 10
      <4>1. (x % base) % 4 # 0
        BY <2>2, <3>2, <3>3
      <4> QED
        BY <2>3, <3>1, <3>3, <4>1, Zenon DEF DigitAt
    <3>4. CASE ~(base = 8 /\ h = 10)
      <4>1. x < base
        BY <3>2, <3>4
      <4>2. x % base # 0
        BY <1>0, <2>2, <4>1
      <4> QED
        BY <2>3, <3>1, <3>4, <4>2, Zenon DEF DigitAt
    <3> QED
      BY <3>3, <3>4
  <2> QED
    BY <2>5, <2>6
<1>15. w \in Nat
  OBVIOUS
<1> HIDE DEF w
<1>16. Digits(n, base, w) \in Seq(Nat \ {0}) /\ Len(Digits(n, base, w)) = z
  BY <1>4, <1>6, <1>13, <1>14, <1>15, DigitsLast
<1> QED
  BY <1>12, <1>16 DEF w

(* What is left of an int below its highest digit.                         *)
LEMMA HighPowers ==
    /\ 2 * Powers(8, 10)[10] = INT_MAX + 1
    /\ 10 * Powers(10, 9)[9] > INT_MAX
    /\ 8 * Powers(16, 7)[7] = INT_MAX + 1
<1>1. 2 * Powers(8, 10)[10] = INT_MAX + 1
  <2> DEFINE P == Powers(8, 10)
  <2>1. P[0] = 1 /\ \A k \in 1..10 : P[k] = 8 * P[k - 1]
    <3>1. 8 \in Bases /\ 10 \in Nat
      BY DEF Bases
    <3> QED
      BY <3>1, PowersAre
  <2> HIDE DEF P
  <2>2. /\ P[1] = 8 * P[0] /\ P[2] = 8 * P[1] /\ P[3] = 8 * P[2] /\ P[4] = 8 * P[3]
        /\ P[5] = 8 * P[4] /\ P[6] = 8 * P[5] /\ P[7] = 8 * P[6] /\ P[8] = 8 * P[7]
        /\ P[9] = 8 * P[8] /\ P[10] = 8 * P[9]
    BY <2>1, SMT
  <2>3. P[10] = 1073741824
    BY <2>1, <2>2, SMT
  <2> QED
    BY <2>3, SMT DEF INT_MAX, P
<1>2. 10 * Powers(10, 9)[9] > INT_MAX
  <2> DEFINE P == Powers(10, 9)
  <2>1. P[0] = 1 /\ \A k \in 1..9 : P[k] = 10 * P[k - 1]
    <3>1. 10 \in Bases /\ 9 \in Nat
      BY DEF Bases
    <3> QED
      BY <3>1, PowersAre
  <2> HIDE DEF P
  <2>2. /\ P[1] = 10 * P[0] /\ P[2] = 10 * P[1] /\ P[3] = 10 * P[2] /\ P[4] = 10 * P[3]
        /\ P[5] = 10 * P[4] /\ P[6] = 10 * P[5] /\ P[7] = 10 * P[6] /\ P[8] = 10 * P[7]
        /\ P[9] = 10 * P[8]
    BY <2>1, SMT
  <2>3. P[9] = 1000000000
    BY <2>1, <2>2, SMT
  <2> QED
    BY <2>3, SMT DEF INT_MAX, P
<1>3. 8 * Powers(16, 7)[7] = INT_MAX + 1
  <2> DEFINE P == Powers(16, 7)
  <2>1. P[0] = 1 /\ \A k \in 1..7 : P[k] = 16 * P[k - 1]
    <3>1. 16 \in Bases /\ 7 \in Nat
      BY DEF Bases
    <3> QED
      BY <3>1, PowersAre
  <2> HIDE DEF P
  <2>2. /\ P[1] = 16 * P[0] /\ P[2] = 16 * P[1] /\ P[3] = 16 * P[2] /\ P[4] = 16 * P[3]
        /\ P[5] = 16 * P[4] /\ P[6] = 16 * P[5] /\ P[7] = 16 * P[6]
    BY <2>1, SMT
  <2>3. P[7] = 268435456
    BY <2>1, <2>2, SMT
  <2> QED
    BY <2>3, SMT DEF INT_MAX, P
<1> QED
  BY <1>1, <1>2, <1>3, Zenon

LEMMA TopDigits ==
    ASSUME NEW n \in Int, -INT_MAX <= n, n <= INT_MAX
    PROVE  /\ n >= 0 => Shifts(n, 10, 10)[9] < 10
           /\ Shifts(n, 8, 11)[10] \in (IF n >= 0 THEN 0..1 ELSE {-2, -1})
           /\ Shifts(n, 16, 8)[7] \in (IF n >= 0 THEN 0..7 ELSE {-8, -7, -6, -5, -4, -3, -2, -1})
<1>0. INT_MAX \in Nat
  BY SMT DEF INT_MAX
<1>1. n >= 0 => Shifts(n, 10, 10)[9] < 10
  <2> DEFINE x == Shifts(n, 10, 10)[9]
             p == Powers(10, 9)[9]
  <2>1. /\ 10 \in Bases /\ 10 \in Nat \ {0} /\ 9 \in Nat /\ 10 \in Nat /\ 9 <= 10 /\ 9 \in 0..9
        /\ 9 \in 0..10
    BY DEF Bases
  <2>2. x \in Int /\ p \in Nat
    <3>1. Shifts(n, 10, 10) \in [0..10 -> Int]
      BY <2>1, ShiftsAreInts
    <3>2. Powers(10, 9) \in [0..9 -> Nat]
      BY <2>1, PowersAre
    <3> QED
      BY <2>1, <3>1, <3>2
  <2>3. n >= 10 * p <=> x >= 10
    <3>1. 10 \in Int
      OBVIOUS
    <3> QED
      BY <2>1, <3>1, Reaches
  <2> HIDE DEF x, p
  <2>4. 10 * p > INT_MAX
    BY HighPowers DEF p
  <2>5. x < 10
    BY <1>0, <2>2, <2>3, <2>4
  <2> QED
    BY <2>2, <2>5 DEF x
<1>2. Shifts(n, 8, 11)[10] \in (IF n >= 0 THEN 0..1 ELSE {-2, -1})
  <2> DEFINE x == Shifts(n, 8, 11)[10]
             p == Powers(8, 10)[10]
  <2>1. /\ 8 \in Bases /\ 8 \in Nat \ {0} /\ 10 \in Nat /\ 11 \in Nat /\ 10 <= 11 /\ 10 \in 0..10
        /\ 10 \in 0..11
    BY DEF Bases
  <2>2. x \in Int /\ p \in Nat
    <3>1. Shifts(n, 8, 11) \in [0..11 -> Int]
      BY <2>1, ShiftsAreInts
    <3>2. Powers(8, 10) \in [0..10 -> Nat]
      BY <2>1, PowersAre
    <3> QED
      BY <2>1, <3>1, <3>2
  <2>3. /\ n >= 0 * p <=> x >= 0
        /\ n >= 2 * p <=> x >= 2
        /\ n >= (-2) * p <=> x >= -2
    <3>1. 0 \in Int /\ 2 \in Int /\ -2 \in Int
      OBVIOUS
    <3> QED
      BY <2>1, <3>1, Reaches
  <2> HIDE DEF x, p
  <2>4. 2 * p = INT_MAX + 1
    BY HighPowers DEF p
  <2>5. x < 2 /\ x >= -2 /\ (n >= 0 <=> x >= 0)
    BY <1>0, <2>2, <2>3, <2>4
  <2> QED
    BY <2>2, <2>5 DEF x
<1>3. Shifts(n, 16, 8)[7] \in (IF n >= 0 THEN 0..7 ELSE {-8, -7, -6, -5, -4, -3, -2, -1})
  <2> DEFINE x == Shifts(n, 16, 8)[7]
             p == Powers(16, 7)[7]
  <2>1. /\ 16 \in Bases /\ 16 \in Nat \ {0} /\ 7 \in Nat /\ 8 \in Nat /\ 7 <= 8 /\ 7 \in 0..7
        /\ 7 \in 0..8
    BY DEF Bases
  <2>2. x \in Int /\ p \in Nat
    <3>1. Shifts(n, 16, 8) \in [0..8 -> Int]
      BY <2>1, ShiftsAreInts
    <3>2. Powers(16, 7) \in [0..7 -> Nat]
      BY <2>1, PowersAre
    <3> QED
      BY <2>1, <3>1, <3>2
  <2>3. /\ n >= 0 * p <=> x >= 0
        /\ n >= 8 * p <=> x >= 8
        /\ n >= (-8) * p <=> x >= -8
    <3>1. 0 \in Int /\ 8 \in Int /\ -8 \in Int
      OBVIOUS
    <3> QED
      BY <2>1, <3>1, Reaches
  <2> HIDE DEF x, p
  <2>4. 8 * p = INT_MAX + 1
    BY HighPowers DEF p
  <2>5. x < 8 /\ x >= -8 /\ (n >= 0 <=> x >= 0)
    BY <1>0, <2>2, <2>3, <2>4
  <2> QED
    BY <2>2, <2>5 DEF x
<1> QED
  BY <1>1, <1>2, <1>3, Zenon

(* A negative number fills all digits.                                     *)
LEMMA DigitsFull ==
    ASSUME NEW n \in Int, NEW base \in Bases, NEW width \in Nat \ {0},
           DigitAt(n, base, width, width) # 0
    PROVE  Digits(n, base, width) \in Seq(Nat \ {0}) /\ Len(Digits(n, base, width)) = width
<1>1. /\ width \in Nat /\ width \in 1..width
      /\ \A i \in (width + 1)..width : DigitAt(n, base, width, i) = 0
  OBVIOUS
<1>2. \A i \in 1..width : DigitAt(n, base, width, i) \in Nat
  BY <1>1, DigitsFrom
<1> QED
  BY <1>1, <1>2, DigitsLast

NumberIs32(n) == n \in Int /\ -INT_MAX <= n /\ n <= INT_MAX
Prints(text, width) == text \in Seq(Nat \ {0}) /\ Len(text) = width

LEMMA DecPrints ==
    ASSUME NEW n, NumberIs32(n), n >= 0
    PROVE  Prints(Digits(n, 10, 10), CountFrom(n, 10, 9))
<1>1. n \in Nat /\ 10 \in Bases /\ 9 \in Nat /\ 9 + 1 = 10 /\ 10 # 8
  BY DEF NumberIs32, Bases
<1>2. Shifts(n, 10, 10)[9] < 10
  BY TopDigits DEF NumberIs32
<1>3. Shifts(n, 10, 9 + 1)[9] < IF 10 = 8 /\ 9 = 10 THEN 4 ELSE 10
  BY <1>1, <1>2, Zenon
<1>4. /\ Digits(n, 10, 9 + 1) \in Seq(Nat \ {0})
      /\ Len(Digits(n, 10, 9 + 1)) = CountFrom(n, 10, 9)
  BY <1>1, <1>3, CountIs, Zenon
<1> QED
  BY <1>1, <1>4, Zenon DEF Prints

LEMMA OctPrints ==
    ASSUME NEW n, NumberIs32(n)
    PROVE  Prints(Digits(n, 8, 11), GetCharWidthOct(n))
<1> DEFINE x == Shifts(n, 8, 11)[10]
<1>1. n \in Int /\ 8 \in Bases /\ 10 \in Nat /\ 10 + 1 = 11 /\ 11 \in Nat \ {0} /\ 11 \in 1..11
  BY DEF NumberIs32, Bases
<1>2. x \in (IF n >= 0 THEN 0..1 ELSE {-2, -1})
  BY TopDigits DEF NumberIs32
<1> HIDE DEF x
<1>3. CASE n >= 0
  <2>1. x < 4 /\ n \in Nat
    BY <1>1, <1>2, <1>3
  <2>2. Shifts(n, 8, 10 + 1)[10] < IF 8 = 8 /\ 10 = 10 THEN 4 ELSE 8
    BY <1>1, <2>1, Zenon DEF x
  <2>3. /\ Digits(n, 8, 10 + 1) \in Seq(Nat \ {0})
        /\ Len(Digits(n, 8, 10 + 1)) = CountFrom(n, 8, 10)
    BY <1>1, <2>1, <2>2, CountIs, Zenon
  <2>4. GetCharWidthOct(n) = CountFrom(n, 8, 10)
    BY <1>1, <1>3 DEF GetCharWidthOct
  <2> QED
    BY <1>1, <2>3, <2>4, Zenon DEF Prints
<1>4. CASE ~(n >= 0)
  <2>1. (x % 8) % 4 # 0
    BY <1>2, <1>4
  <2>2. DigitsOf(n, 8, 11)[11] = x % 8
    <3>1. DigitsOf(n, 8, 11)[11] = Shifts(n, 8, 11)[11 - 1] % 8
      BY <1>1, DigitsFrom
    <3>2. 11 - 1 = 10
      OBVIOUS
    <3> QED
      BY <3>1, <3>2, Zenon DEF x
  <2>3. DigitAt(n, 8, 11, 11) # 0
    BY <2>1, <2>2, Zenon DEF DigitAt
  <2>4. Digits(n, 8, 11) \in Seq(Nat \ {0}) /\ Len(Digits(n, 8, 11)) = 11
    BY <1>1, <2>3, DigitsFull, Zenon
  <2>5. GetCharWidthOct(n) = 11
    BY <1>1, <1>4 DEF GetCharWidthOct
  <2> QED
    BY <2>4, <2>5, Zenon DEF Prints
<1> QED
  BY <1>3, <1>4

LEMMA HexPrints ==
    ASSUME NEW n, NumberIs32(n)
    PROVE  Prints(Digits(n, 16, 8), GetCharWidthHex(n))
<1> DEFINE x == Shifts(n, 16, 8)[7]
<1>1. /\ n \in Int /\ 16 \in Bases /\ 7 \in Nat /\ 7 + 1 = 8 /\ 8 \in Nat \ {0} /\ 8 \in 1..8
      /\ 16 # 8
  BY DEF NumberIs32, Bases
<1>2. x \in (IF n >= 0 THEN 0..7 ELSE {-8, -7, -6, -5, -4, -3, -2, -1})
  BY TopDigits DEF NumberIs32
<1> HIDE DEF x
<1>3. CASE n >= 0
  <2>1. x < 16 /\ n \in Nat
    BY <1>1, <1>2, <1>3
  <2>2. Shifts(n, 16, 7 + 1)[7] < IF 16 = 8 /\ 7 = 10 THEN 4 ELSE 16
    BY <1>1, <2>1, Zenon DEF x
  <2>3. /\ Digits(n, 16, 7 + 1) \in Seq(Nat \ {0})
        /\ Len(Digits(n, 16, 7 + 1)) = CountFrom(n, 16, 7)
    BY <1>1, <2>1, <2>2, CountIs, Zenon
  <2>4. GetCharWidthHex(n) = CountFrom(n, 16, 7)
    BY <1>1, <1>3 DEF GetCharWidthHex
  <2> QED
    BY <1>1, <2>3, <2>4, Zenon DEF Prints
<1>4. CASE ~(n >= 0)
  <2>1. x % 16 # 0
    BY <1>2, <1>4
  <2>2. DigitsOf(n, 16, 8)[8] = x % 16
    <3>1. DigitsOf(n, 16, 8)[8] = Shifts(n, 16, 8)[8 - 1] % 16
      BY <1>1, DigitsFrom
    <3>2. 8 - 1 = 7
      OBVIOUS
    <3> QED
      BY <3>1, <3>2, Zenon DEF x
  <2>3. DigitAt(n, 16, 8, 8) # 0
    BY <1>1, <2>1, <2>2, Zenon DEF DigitAt
  <2>4. Digits(n, 16, 8) \in Seq(Nat \ {0}) /\ Len(Digits(n, 16, 8)) = 8
    BY <1>1, <2>3, DigitsFull, Zenon
  <2>5. GetCharWidthHex(n) = 8
    BY <1>1, <1>4 DEF GetCharWidthHex
  <2> QED
    BY <2>4, <2>5, Zenon DEF Prints
<1> QED
  BY <1>3, <1>4

(* What sprintf prints is as long as format_string takes it to be.         *)
LEMMA SprintfIs ==
    ASSUME NEW d,
           \/ d \in Directives
           \/ d.kind = "plain" /\ d.text \in Seq(Nat \ {0})
    PROVE  Prints(Sprintf(d), Width(d))
<1>1. CASE d.kind \in {"d", "u"} /\ NumberIs32(d.value)
  <2> DEFINE n == d.value
  <2>1. NumberIs32(n) /\ n \in Int
    BY <1>1 DEF NumberIs32
  <2>2. /\ Sprintf(d) = IF n >= 0 THEN Digits(n, 10, 10) ELSE <<Minus>> \o Digits(-n, 10, 10)
        /\ Width(d) = GetCharWidthDec(n)
    BY <1>1 DEF Sprintf, Width
  <2> HIDE DEF n
  <2>3. CASE n >= 0
    <3>1. GetCharWidthDec(n) = CountFrom(n, 10, 9)
      BY <2>1, <2>3 DEF GetCharWidthDec
    <3> QED
      BY <2>1, <2>2, <2>3, <3>1, DecPrints, Zenon
  <2>4. CASE ~(n >= 0)
    <3> DEFINE m == -n
               text == Digits(m, 10, 10)
    <3>1. NumberIs32(m) /\ m >= 0
      <4>1. INT_MAX \in Nat
        BY SMT DEF INT_MAX
      <4> QED
        BY <2>1, <2>4, <4>1 DEF NumberIs32
    <3>2. GetCharWidthDec(n) = 1 + CountFrom(m, 10, 9)
      BY <2>1, <2>4 DEF GetCharWidthDec
    <3> HIDE DEF m
    <3>3. text \in Seq(Nat \ {0}) /\ Len(text) = CountFrom(m, 10, 9)
      BY <3>1, DecPrints DEF Prints
    <3> HIDE DEF text
    <3>4. Prints(<<Minus>> \o text, 1 + CountFrom(m, 10, 9))
      BY <3>3 DEF Minus, Prints
    <3>5. Sprintf(d) = <<Minus>> \o text
      BY <2>2, <2>4, Zenon DEF m, text
    <3> QED
      BY <2>2, <3>2, <3>4, <3>5, Zenon
  <2> QED
    BY <2>3, <2>4
<1>2. CASE d.kind = "o" /\ NumberIs32(d.value)
  <2>1. Sprintf(d) = Digits(d.value, 8, 11) /\ Width(d) = GetCharWidthOct(d.value)
    BY <1>2 DEF Sprintf, Width
  <2> QED
    BY <1>2, <2>1, OctPrints, Zenon
<1>3. CASE d.kind = "x" /\ NumberIs32(d.value)
  <2>1. Sprintf(d) = Digits(d.value, 16, 8) /\ Width(d) = GetCharWidthHex(d.value)
    BY <1>3 DEF Sprintf, Width
  <2> QED
    BY <1>3, <2>1, HexPrints, Zenon
<1>4. CASE d.kind \in {"c", "s", "plain", "f"} /\ d.text \in Seq(Nat \ {0})
  <2>1. Sprintf(d) = d.text /\ Width(d) = Len(d.text)
    BY <1>4 DEF Sprintf, Width
  <2> QED
    BY <1>4, <2>1, Zenon DEF Prints
<1>5. \A n \in Ints : NumberIs32(n)
  BY LogAssumption, Zenon DEF NumberIs32
<1>6. \A t \in Texts : t \in Seq(Nat \ {0})
  BY LogAssumption, Zenon
<1>7. CASE d \in Directives
  <2>1. CASE d \in [kind : {"d", "o", "x"}, value : Ints]
    BY <1>1, <1>2, <1>3, <1>5, <2>1
  <2>2. CASE d \in [kind : {"u"}, value : Ints \cap Nat]
    BY <1>1, <1>5, <2>2
  <2>3. CASE d \in [kind : Copied \cup {"f"}, text : Texts]
    BY <1>4, <1>6, <2>3 DEF Copied
  <2> QED
    BY <1>7, <2>1, <2>2, <2>3 DEF Directives
<1> QED
  BY <1>4, <1>7

-----------------------------------------------------------------------------
(* The log of a child: the buffer.                                         *)
Letters == Nat \ {0}
Printed(format, n) == FlattenSeq([i \in 1..n |-> Sprintf(format[i])])
Printable(format, N) == \A i \in 1..N : Prints(Sprintf(format[i]), Width(format[i]))

LEMMA PrintedIs ==
    ASSUME NEW format, NEW N \in Nat, Printable(format, N)
    PROVE  /\ Printed(format, 0) = <<>>
           /\ \A n \in 0..N : Printed(format, n) \in Seq(Letters)
           /\ \A n \in 1..N : Printed(format, n) = Printed(format, n - 1) \o Sprintf(format[n])
<1> DEFINE text(i) == Sprintf(format[i])
           texts(n) == [i \in 1..n |-> text(i)]
<1>1. \A i \in 1..N : text(i) \in Seq(Letters)
  BY DEF Printable, Prints, Letters
<1> HIDE DEF text
<1>2. \A n \in 0..N : texts(n) \in Seq(Seq(Letters))
  BY <1>1
<1>3. ASSUME NEW n \in 1..N PROVE Printed(format, n) = Printed(format, n - 1) \o text(n)
  <2> DEFINE less == texts(n - 1)
             one == <<text(n)>>
  <2>1. n \in 0..N /\ n - 1 \in 0..N /\ text(n) \in Seq(Letters)
    BY <1>1
  <2>2. less \in Seq(Seq(Letters)) /\ one \in Seq(Seq(Letters))
    BY <1>2, <2>1
  <2>3. texts(n) = less \o one
    OBVIOUS
  <2>4. Printed(format, n) = FlattenSeq(texts(n)) /\ Printed(format, n - 1) = FlattenSeq(less)
    BY Zenon DEF Printed, text
  <2> HIDE DEF texts, less
  <2>5. FlattenSeq(less \o one) = FlattenSeq(less) \o FlattenSeq(one)
    BY <2>2, FlattenConcat
  <2>6. FlattenSeq(one) = text(n)
    BY <2>1, FlattenOne
  <2> QED
    BY <2>3, <2>4, <2>5, <2>6, Zenon
<1>4. Printed(format, 0) = <<>>
  <2>1. texts(0) = <<>>
    OBVIOUS
  <2>2. Printed(format, 0) = FlattenSeq(texts(0))
    BY Zenon DEF Printed, text
  <2> QED
    BY <2>1, <2>2, FlattenNone, Zenon
<1>5. \A n \in 0..N : Printed(format, n) \in Seq(Letters)
  <2> SUFFICES ASSUME NEW n \in 0..N PROVE Printed(format, n) \in Seq(Letters)
    OBVIOUS
  <2>1. Printed(format, n) = FlattenSeq(texts(n))
    BY Zenon DEF Printed, text
  <2>2. texts(n) \in Seq(Seq(Letters))
    BY <1>2
  <2> HIDE DEF texts
  <2> QED
    BY <2>1, <2>2, FlattenTyped
<1> QED
  BY <1>3, <1>4, <1>5, Zenon DEF text

(* A buffer that holds a text, and nothing behind it.                      *)
Holds(str, text, room) ==
    str \in [1..room -> Nat] /\ \A i \in 1..room : str[i] = IF i <= Len(text) THEN text[i] ELSE 0

(* What is copied behind a text: nothing, or its terminator.               *)
Endings == {<<>>, <<0>>}

LEMMA EndingIsShort ==
    ASSUME NEW t \in Seq(Letters), NEW z \in Endings
    PROVE  Len(t \o z) \in Nat /\ Len(t \o z) <= Len(t) + 1
<1>1. t \in Seq(Nat)
  BY DEF Letters
<1>2. CASE z = <<>>
  BY <1>1, <1>2
<1>3. CASE z = <<0>>
  BY <1>1, <1>3
<1> QED
  BY <1>2, <1>3 DEF Endings

LEMMA WriteHolds ==
    ASSUME NEW room \in Nat, NEW p \in Seq(Letters), NEW t \in Seq(Letters), NEW z \in Endings,
           NEW str, Holds(str, p, room)
    PROVE  Holds(Write(str, Len(p), t \o z), p \o t, room)
<1> DEFINE new == t \o z
           both == p \o t
           a == Len(p)
           b == Len(t)
           c == Len(z)
<1>1. a \in Nat /\ b \in Nat /\ c \in 0..1 /\ (c = 1 => z[1] = 0)
  BY DEF Endings
<1>2. Len(new) = b + c /\ DOMAIN new = 1..(b + c) /\ new \in Seq(Nat)
      /\ \A i \in 1..(b + c) : new[i] = IF i <= b THEN t[i] ELSE 0
  <2>1. t \in Seq(Nat)
    BY DEF Letters
  <2>2. CASE z = <<>>
    <3>1. new = t /\ c = 0
      BY <2>1, <2>2
    <3> QED
      BY <1>1, <2>1, <3>1
  <2>3. CASE z = <<0>>
    <3>1. z \in Seq(Nat) /\ c = 1 /\ z[1] = 0
      BY <2>3
    <3> HIDE DEF c, b
    <3>2. /\ new \in Seq(Nat) /\ Len(new) = Len(t) + Len(z)
          /\ \A i \in 1..(Len(t) + Len(z)) : new[i] = IF i <= Len(t) THEN t[i] ELSE z[i - Len(t)]
      BY <2>1, <3>1, ConcatProperties
    <3> HIDE DEF new
    <3>3. /\ new \in Seq(Nat) /\ Len(new) = b + c
          /\ \A i \in 1..(b + c) : new[i] = IF i <= b THEN t[i] ELSE z[i - b]
      BY <3>2, Zenon DEF b, c
    <3>4. \A i \in 1..(b + c) : ~(i <= b) => i - b = 1
      BY <1>1, <3>1
    <3> QED
      BY <1>1, <3>1, <3>3, <3>4
  <2> QED
    BY <2>2, <2>3 DEF Endings
<1>3. Len(both) = a + b /\ \A i \in 1..(a + b) : both[i] = IF i <= a THEN p[i] ELSE t[i - a]
  OBVIOUS
<1>4. DOMAIN str = 1..room /\ \A i \in 1..room : str[i] = IF i <= a THEN p[i] ELSE 0
  BY DEF Holds
<1>5. (\A i \in 1..a : p[i] \in Nat) /\ (\A i \in 1..b : t[i] \in Nat)
  BY DEF Letters
<1> HIDE DEF new, both, a, b, c
<1> DEFINE w(i) == IF i - a \in DOMAIN new THEN new[i - a] ELSE str[i]
<1>6. ASSUME NEW i \in 1..room
      PROVE  w(i) = (IF i <= a + b THEN both[i] ELSE 0) /\ w(i) \in Nat
  <2>1. CASE i <= a
    <3>1. i - a \notin 1..(b + c) /\ i \in 1..(a + b) /\ i \in 1..a
      BY <1>1, <2>1
    <3>2. w(i) = str[i]
      BY <1>2, <3>1
    <3>3. str[i] = p[i] /\ both[i] = p[i] /\ p[i] \in Nat
      BY <1>3, <1>4, <1>5, <2>1, <3>1
    <3> HIDE DEF w
    <3> QED
      BY <1>1, <2>1, <3>2, <3>3
  <2>2. CASE i > a /\ i <= a + b
    <3>1. i - a \in 1..(b + c) /\ i - a <= b /\ i \in 1..(a + b) /\ ~(i <= a) /\ i - a \in 1..b
      BY <1>1, <2>2
    <3> QED
      BY <1>1, <1>2, <1>3, <1>4, <1>5, <2>2, <3>1
  <2>3. CASE i > a + b
    <3>1. ~(i <= a) /\ ~(i - a <= b) /\ ~(i <= a + b)
      BY <1>1, <2>3
    <3> QED
      BY <1>1, <1>2, <1>4, <3>1
  <2> QED
    BY <1>1, <2>1, <2>2, <2>3
<1>7. Write(str, a, new) = [i \in 1..room |-> w(i)]
  BY <1>4, Zenon DEF Write
<1> HIDE DEF w
<1>8. Holds([i \in 1..room |-> w(i)], both, room)
  BY <1>3, <1>6 DEF Holds
<1> QED
  BY <1>7, <1>8, Zenon DEF new, both, a

(* The states of format_string after each directive.                       *)
Formats(at, str, format, N, room) ==
    /\ at[0] = [str |-> str, offset |-> 0, overrun |-> FALSE]
    /\ \A n \in 1..N : at[n] = Formatted(at[n - 1], format[n], room)

LEMMA FormatStates ==
    ASSUME NEW format, Len(format) \in Nat, Printable(format, Len(format)), NEW room \in Nat,
           NEW str \in [1..room -> Nat]
    PROVE  \E at : /\ Formats(at, str, format, Len(format), room)
                   /\ FormatString(str, format, room) = at[Len(format)]
<1> DEFINE N == Len(format)
           V == [str : [1..room -> Nat], offset : Nat, overrun : BOOLEAN]
           first == [str |-> str, offset |-> 0, overrun |-> FALSE]
           step == [n \in 1..N |-> [v \in V |-> Formatted(v, format[n], room)]]
           Is(f) == f = [n \in 0..N |-> IF n = 0 THEN first
                                        ELSE Formatted(f[n - 1], format[n], room)]
           at == CHOOSE f : Is(f)
<1>1. ASSUME NEW n \in 1..N, NEW v \in V PROVE Formatted(v, format[n], room) \in V
  <2> DEFINE t == Sprintf(format[n])
             z == IF format[n].kind \in Copied THEN <<>> ELSE <<0>>
             new == t \o z
             next == [str |-> Write(v.str, v.offset, new), offset |-> v.offset + Width(format[n]),
                      overrun |-> v.overrun \/ v.offset + Len(new) > room]
  <2>1. t \in Seq(Nat) /\ Width(format[n]) \in Nat
    BY DEF Printable, Prints
  <2> HIDE DEF t
  <2>2. new \in Seq(Nat)
    BY <2>1
  <2>3. v.str \in [1..room -> Nat] /\ v.offset \in Nat /\ DOMAIN v.str = 1..room
    OBVIOUS
  <2>4. Formatted(v, format[n], room) = IF v.offset >= room - 1 THEN v ELSE next
    BY Zenon DEF Formatted, t
  <2> HIDE DEF new
  <2>5. \A i \in DOMAIN new : new[i] \in Nat
    BY <2>2
  <2>6. Write(v.str, v.offset, new) \in [1..room -> Nat]
    BY <2>3, <2>5 DEF Write
  <2>7. next \in V
    BY <2>1, <2>3, <2>6
  <2> QED
    BY <2>4, <2>7, Zenon
<1>2. first \in V
  OBVIOUS
<1> HIDE DEF V
<1>3. step \in [1..N -> [V -> V]]
  BY <1>1
<1>4. \A n \in 1..N : \A v \in V : step[n][v] = Formatted(v, format[n], room)
  OBVIOUS
<1> HIDE DEF step, first
<1>5. PICK f \in [0..N -> V] : f[0] = first /\ \A k \in 1..N : f[k] = step[k][f[k - 1]]
  <2>1. Recurs(N, V, first, step)
    BY <1>2, <1>3, Recursion
  <2> QED
    BY <2>1 DEF Recurs
<1>6. ASSUME NEW k \in 1..N PROVE f[k] = Formatted(f[k - 1], format[k], room)
  <2>1. k - 1 \in 0..N
    OBVIOUS
  <2>2. f[k - 1] \in V
    BY <2>1
  <2> QED
    BY <1>4, <1>5, <2>2, Zenon
<1>7. Is(f)
  <2>1. \A n \in 0..N : f[n] = IF n = 0 THEN first ELSE Formatted(f[n - 1], format[n], room)
    BY <1>5, <1>6
  <2> QED
    BY <2>1
<1>8. Is(at)
  BY <1>7, Zenon
<1>9. FormatString(str, format, room) = at[N]
  BY DEF FormatString, first
<1>11. N \in Nat
  OBVIOUS
<1> HIDE DEF at, N
<1>10. at[0] = first /\ \A n \in 1..N : at[n] = Formatted(at[n - 1], format[n], room)
  <2>1. \A n \in 0..N : at[n] = IF n = 0 THEN first ELSE Formatted(at[n - 1], format[n], room)
    <3>1. at = [n \in 0..N |-> IF n = 0 THEN first ELSE Formatted(at[n - 1], format[n], room)]
      BY <1>8, Zenon
    <3> DEFINE next(n) == IF n = 0 THEN first ELSE Formatted(at[n - 1], format[n], room)
    <3>2. at = [n \in 0..N |-> next(n)]
      BY <3>1, Zenon
    <3> HIDE DEF next
    <3>3. \A n \in 0..N : at[n] = next(n)
      BY <3>2, Zenon
    <3> QED
      BY <3>3, Zenon DEF next
  <2>2. 0 \in 0..N /\ \A n \in 1..N : n \in 0..N /\ n # 0
    BY <1>11
  <2> QED
    BY <2>1, <2>2, Zenon
<1> QED
  BY <1>9, <1>10, Zenon DEF Formats, first, N

(* The buffer ends up with what the directives print that found room, and  *)
(* nothing behind it; and where that is shorter than the buffer nothing    *)
(* has been written beyond it, terminators included.                       *)
LEMMA BufferIs ==
    ASSUME NEW format, Len(format) \in Nat, DOMAIN format = 1..Len(format),
           Printable(format, Len(format)), NEW room \in Nat,
           NEW fits, fits = {n \in DOMAIN format : Len(Printed(format, n - 1)) < room - 1}
    PROVE  /\ Cardinality(fits) \in 0..Len(format)
           /\ Holds(FormatString([i \in 1..room |-> 0], format, room).str,
                    Printed(format, Cardinality(fits)), room)
           /\ Len(Printed(format, Cardinality(fits))) < room
                => ~FormatString([i \in 1..room |-> 0], format, room).overrun
<1> DEFINE N == Len(format)
           zeroed == [i \in 1..room |-> 0]
           ln(n) == Len(Printed(format, n))
           T == {n \in 0..N : n = N \/ ln(n) >= room - 1}
<1>1. PICK at : Formats(at, zeroed, format, N, room) /\ FormatString(zeroed, format, room) = at[N]
  <2>1. zeroed \in [1..room -> Nat]
    OBVIOUS
  <2> HIDE DEF zeroed
  <2> QED
    BY <2>1, FormatStates
<1>2. Holds(zeroed, <<>>, room)
  BY DEF Holds
<1>3. N \in Nat /\ DOMAIN format = 1..N /\ Printable(format, N)
  OBVIOUS
<1> HIDE DEF zeroed, N
<1>4. /\ Printed(format, 0) = <<>>
      /\ \A n \in 0..N : Printed(format, n) \in Seq(Letters)
      /\ \A n \in 1..N : Printed(format, n) = Printed(format, n - 1) \o Sprintf(format[n])
  BY <1>3, PrintedIs
<1>5. /\ at[0] = [str |-> zeroed, offset |-> 0, overrun |-> FALSE]
      /\ \A n \in 1..N : at[n] = Formatted(at[n - 1], format[n], room)
  BY <1>1 DEF Formats
<1>6. \A n \in 0..N : ln(n) \in Nat
  BY <1>4
<1>7. \A n \in 1..N : /\ Sprintf(format[n]) \in Seq(Letters)
                      /\ Len(Sprintf(format[n])) = Width(format[n])
                      /\ Width(format[n]) \in Nat
  BY <1>3 DEF Printable, Prints, Letters
<1>8. ASSUME NEW n \in 1..N PROVE ln(n) = ln(n - 1) + Width(format[n])
  <2>1. Printed(format, n - 1) \in Seq(Letters)
    BY <1>3, <1>4
  <2>2. Len(Printed(format, n - 1) \o Sprintf(format[n])) = ln(n - 1) + Len(Sprintf(format[n]))
    BY <1>7, <2>1
  <2> QED
    BY <1>4, <1>7, <2>2, Zenon
<1> HIDE DEF ln
<1>9. PICK M \in T : \A n \in T : M <= n
  <2>1. N \in T /\ T \subseteq Nat
    BY <1>3
  <2> HIDE DEF T
  <2> QED
    BY <2>1, LeastElement
<1>10. M \in 0..N /\ (M = N \/ ln(M) >= room - 1)
  OBVIOUS
<1>11. ASSUME NEW n \in 0..(M - 1) PROVE n \in 0..N /\ ln(n) < room - 1
  <2>1. n \in 0..N /\ ~(M <= n) /\ n # N
    BY <1>3, <1>10
  <2>2. n \notin T
    BY <1>9, <2>1, Zenon
  <2> QED
    BY <1>6, <2>1, <2>2
<1> HIDE DEF T
<1> DEFINE S == {n \in 0..M : /\ at[n].offset = ln(n) /\ Holds(at[n].str, Printed(format, n), room)
                              /\ at[n].overrun => ln(n) >= room}
<1>12. 0 \in S
  <2>1. ln(0) = 0
    BY <1>4 DEF ln
  <2>2. at[0].offset = 0 /\ at[0].str = zeroed /\ ~at[0].overrun
    BY <1>5
  <2>3. Holds(at[0].str, Printed(format, 0), room)
    BY <1>2, <1>4, <2>2, Zenon
  <2> QED
    BY <1>10, <2>1, <2>2, <2>3
<1>13. ASSUME NEW n \in 0..(M - 1), n \in S PROVE n + 1 \in S
  <2> DEFINE p == Printed(format, n)
             t == Sprintf(format[n + 1])
             z == IF format[n + 1].kind \in Copied THEN <<>> ELSE <<0>>
  <2>1. n + 1 \in 1..N /\ n + 1 \in 0..M /\ n \in 0..N /\ (n + 1) - 1 = n
    BY <1>3, <1>10
  <2>2. at[n].offset = ln(n) /\ Holds(at[n].str, p, room) /\ (at[n].overrun => ln(n) >= room)
    BY <1>13
  <2>3. at[n + 1] = Formatted(at[n], format[n + 1], room)
    BY <1>5, <2>1
  <2>4. ~(at[n].offset >= room - 1)
    BY <1>6, <1>11, <2>1, <2>2
  <2>5. at[n + 1] = [str |-> Write(at[n].str, ln(n), t \o z),
                     offset |-> ln(n) + Width(format[n + 1]),
                     overrun |-> at[n].overrun \/ ln(n) + Len(t \o z) > room]
    BY <2>2, <2>3, <2>4, Zenon DEF Formatted
  <2>6. z \in Endings
    BY DEF Endings
  <2>7. p \in Seq(Letters) /\ t \in Seq(Letters)
    BY <1>4, <1>7, <2>1
  <2> HIDE DEF p, t, z
  <2>8. Holds(Write(at[n].str, Len(p), t \o z), p \o t, room)
    BY <2>2, <2>6, <2>7, WriteHolds
  <2>9. Printed(format, n + 1) = p \o t
    BY <1>4, <2>1, Zenon DEF p, t
  <2>10. ln(n + 1) = ln(n) + Width(format[n + 1])
    BY <1>8, <2>1
  <2>11. /\ at[n + 1].offset = ln(n) + Width(format[n + 1])
         /\ at[n + 1].str = Write(at[n].str, ln(n), t \o z)
         /\ at[n + 1].overrun = (at[n].overrun \/ ln(n) + Len(t \o z) > room)
    BY <2>5
  <2>12. Len(p) = ln(n)
    BY Zenon DEF p, ln
  <2>13. Holds(at[n + 1].str, Printed(format, n + 1), room)
    BY <2>8, <2>9, <2>11, <2>12, Zenon
  <2>14. at[n + 1].offset = ln(n + 1)
    BY <2>10, <2>11, Zenon
  <2>15. Len(t \o z) \in Nat /\ Len(t \o z) <= Width(format[n + 1]) + 1
    <3>1. Len(t) = Width(format[n + 1]) /\ Width(format[n + 1]) \in Nat
      BY <1>7, <2>1 DEF t
    <3>2. Len(t \o z) \in Nat /\ Len(t \o z) <= Len(t) + 1
      BY <2>6, <2>7, EndingIsShort
    <3> QED
      BY <3>1, <3>2
  <2>16. at[n + 1].overrun => ln(n + 1) >= room
    <3>1. ln(n) \in Nat /\ ln(n) < room - 1 /\ Width(format[n + 1]) \in Nat
      BY <1>6, <1>7, <1>11, <2>1
    <3>2. ~at[n].overrun
      BY <2>2, <3>1
    <3>3. at[n + 1].overrun => ln(n) + Len(t \o z) > room
      BY <2>11, <3>2, Zenon
    <3> HIDE DEF p
    <3> QED
      BY <2>10, <2>15, <3>1, <3>3
  <2> QED
    BY <2>1, <2>13, <2>14, <2>16
<1> HIDE DEF S
<1>14. 0..M \subseteq S
  <2>1. M \in Nat
    BY <1>10
  <2> QED
    BY <1>12, <1>13, <2>1, Induction
<1>15. at[M].offset = ln(M) /\ Holds(at[M].str, Printed(format, M), room)
       /\ (at[M].overrun => ln(M) >= room)
  <2>1. M \in 0..M
    BY <1>10
  <2> QED
    BY <1>14, <2>1 DEF S
<1> DEFINE R == {i \in 0..(N - M) : at[M + i] = at[M] /\ (M + i = N \/ ln(M + i) >= room - 1)}
<1>16. 0 \in R
  BY <1>3, <1>10
<1>17. ASSUME NEW i \in 0..((N - M) - 1), i \in R PROVE i + 1 \in R
  <2> DEFINE n == M + (i + 1)
  <2>1. /\ n \in 1..N /\ n - 1 = M + i /\ M + i # N /\ i + 1 \in 0..(N - M) /\ n \in 0..N
        /\ M + i \in 0..N
    BY <1>3, <1>10
  <2>2. at[M + i] = at[M] /\ ln(M + i) >= room - 1
    BY <1>17, <2>1
  <2> HIDE DEF n
  <2>3. at[n] = Formatted(at[M], format[n], room) /\ ln(n) = ln(M + i) + Width(format[n])
    BY <1>5, <1>8, <2>1, <2>2
  <2>4. ln(n) >= room - 1
    <3>1. /\ ln(n) = ln(M + i) + Width(format[n]) /\ ln(M + i) >= room - 1
          /\ Width(format[n]) \in Nat /\ ln(M + i) \in Nat
      BY <1>6, <1>7, <2>1, <2>2, <2>3, Zenon
    <3> QED
      BY <3>1
  <2>5. at[M].offset >= room - 1
    <3>1. CASE ln(M) >= room - 1
      BY <1>15, <3>1
    <3>2. CASE M = N
      BY <1>3, <1>10, <2>1, <3>2
    <3> QED
      BY <1>10, <3>1, <3>2
  <2>6. at[n] = at[M]
    BY <2>3, <2>5, Zenon DEF Formatted
  <2> QED
    BY <2>1, <2>4, <2>6 DEF n
<1> HIDE DEF R
<1>18. N - M \in Nat
  BY <1>3, <1>10
<1>19. 0..(N - M) \subseteq R
  BY <1>16, <1>17, <1>18, Induction
<1>20. \A n \in M..N : at[n] = at[M] /\ (n = N \/ ln(n) >= room - 1)
  <2> SUFFICES ASSUME NEW n \in M..N PROVE at[n] = at[M] /\ (n = N \/ ln(n) >= room - 1)
    OBVIOUS
  <2>1. n - M \in 0..(N - M) /\ M + (n - M) = n
    BY <1>3, <1>10
  <2>2. n - M \in R
    BY <1>19, <2>1
  <2> QED
    BY <2>1, <2>2 DEF R
<1>21. fits = 1..M
  <2>1. fits = {n \in 1..N : ln(n - 1) < room - 1}
    BY <1>3, Zenon DEF ln
  <2>2. ASSUME NEW n \in 1..M PROVE n \in 1..N /\ ln(n - 1) < room - 1
    <3>1. n \in 1..N /\ n - 1 \in 0..(M - 1)
      BY <1>3, <1>10
    <3> QED
      BY <1>11, <3>1
  <2>3. ASSUME NEW n \in 1..N, ln(n - 1) < room - 1 PROVE n \in 1..M
    <3>1. n - 1 \in 0..N /\ n - 1 # N /\ n \in Int /\ n >= 1
      BY <1>3
    <3>2. ~(ln(n - 1) >= room - 1)
      BY <1>6, <2>3, <3>1
    <3>3. n - 1 \notin M..N
      BY <1>20, <3>1, <3>2, Zenon
    <3> QED
      BY <1>3, <1>10, <3>1, <3>3
  <2> QED
    BY <2>1, <2>2, <2>3
<1>22. Cardinality(fits) = M
  <2>1. M \in Int /\ 1 \in Int /\ ~(1 > M /\ M # 0)
    BY <1>10
  <2>2. Cardinality(1..M) = IF 1 > M THEN 0 ELSE M - 1 + 1
    BY <2>1, FS_Interval
  <2>3. Cardinality(1..M) = M
    BY <2>1, <2>2
  <2> QED
    BY <1>21, <2>3, Zenon
<1>23. at[N] = at[M]
  <2>1. N \in M..N
    BY <1>3, <1>10
  <2> QED
    BY <1>20, <2>1
<1>24. Holds(FormatString(zeroed, format, room).str, Printed(format, M), room)
  BY <1>1, <1>15, <1>23, Zenon
<1>25. Len(Printed(format, M)) < room => ~FormatString(zeroed, format, room).overrun
  <2>1. ln(M) \in Nat /\ ln(M) = Len(Printed(format, M))
    BY <1>6, <1>10 DEF ln
  <2>2. ln(M) < room => ~at[M].overrun
    BY <1>15, <2>1
  <2> QED
    BY <1>1, <1>23, <2>1, <2>2, Zenon
<1> QED
  BY <1>10, <1>22, <1>24, <1>25, Zenon DEF zeroed, N

LEMMA StrlenIs ==
    ASSUME NEW room \in Nat, NEW text \in Seq(Letters), Len(text) < room,
           NEW str, Holds(str, text, room)
    PROVE  Strlen(str) = Len(text)
<1> DEFINE a == Len(text)
           Ends(i) == str[i] = 0 /\ \A j \in 1..(i - 1) : str[j] # 0
           e == CHOOSE i \in DOMAIN str : Ends(i)
<1>1. a \in Nat /\ a < room /\ \A i \in 1..a : text[i] # 0
  BY DEF Letters
<1>2. DOMAIN str = 1..room /\ \A i \in 1..room : str[i] = IF i <= a THEN text[i] ELSE 0
  BY DEF Holds
<1> HIDE DEF a
<1>3. a + 1 \in 1..room /\ str[a + 1] = 0
  BY <1>1, <1>2
<1>4. \A j \in 1..a : str[j] # 0
  BY <1>1, <1>2
<1>5. Ends(a + 1)
  <2>1. (a + 1) - 1 = a
    BY <1>1
  <2> QED
    BY <1>3, <1>4, <2>1
<1>6. ASSUME NEW i \in 1..room, Ends(i) PROVE i = a + 1
  <2>1. i \notin 1..a
    BY <1>4, <1>6
  <2>2. a + 1 \notin 1..(i - 1)
    BY <1>3, <1>6
  <2> QED
    BY <1>1, <2>1, <2>2
<1> HIDE DEF Ends
<1>7. e = a + 1
  <2>1. \E i \in DOMAIN str : Ends(i)
    BY <1>2, <1>3, <1>5
  <2>2. e \in DOMAIN str /\ Ends(e)
    BY <2>1, Zenon
  <2> HIDE DEF e
  <2> QED
    BY <1>2, <1>6, <2>2
<1>8. Strlen(str) = e - 1
  BY Zenon DEF Strlen, Ends
<1> HIDE DEF e
<1> QED
  BY <1>1, <1>7, <1>8 DEF a

(* The instruction is cut behind the first terminator.                     *)
LEMMA CutBehind ==
    ASSUME NEW room \in Nat, NEW tag \in Seq(Nat), NEW text \in Seq(Letters), Len(text) < room,
           NEW str, Holds(str, text, room)
    PROVE  SubSeq(tag \o str, 1, Len(tag) + Len(text) + 1) = tag \o text \o <<0>>
<1> DEFINE a == Len(tag)
           b == Len(text)
           line == tag \o str
           end == <<0>>
           front == tag \o text
           whole == front \o end
           cut == SubSeq(line, 1, a + b + 1)
<1>1. a \in Nat /\ b \in Nat /\ b < room
  OBVIOUS
<1>2. str \in Seq(Nat) /\ Len(str) = room /\ \A i \in 1..room : str[i] = IF i <= b THEN text[i] ELSE 0
  BY DEF Holds
<1>3. end \in Seq(Nat) /\ Len(end) = 1 /\ end[1] = 0 /\ text \in Seq(Nat)
  BY DEF Letters
<1> HIDE DEF end
<1>4. /\ line \in Seq(Nat) /\ Len(line) = Len(tag) + Len(str)
      /\ \A i \in 1..(Len(tag) + Len(str)) : line[i] = IF i <= Len(tag) THEN tag[i] ELSE str[i - Len(tag)]
  BY <1>2, ConcatProperties
<1>5. /\ front \in Seq(Nat) /\ Len(front) = Len(tag) + Len(text)
      /\ \A i \in 1..(Len(tag) + Len(text)) :
            front[i] = IF i <= Len(tag) THEN tag[i] ELSE text[i - Len(tag)]
  BY <1>3, ConcatProperties
<1> HIDE DEF line, front
<1>6. /\ whole \in Seq(Nat) /\ Len(whole) = Len(front) + Len(end)
      /\ \A i \in 1..(Len(front) + Len(end)) :
            whole[i] = IF i <= Len(front) THEN front[i] ELSE end[i - Len(front)]
  <2>1. front \in Seq(Nat) /\ end \in Seq(Nat)
    BY <1>3, <1>5
  <2> QED
    BY <2>1, ConcatProperties
<1> HIDE DEF whole
<1>7. /\ Len(line) = a + room /\ Len(front) = a + b /\ Len(whole) = a + b + 1
      /\ \A i \in 1..(a + room) : line[i] = IF i <= a THEN tag[i] ELSE str[i - a]
      /\ \A i \in 1..(a + b) : front[i] = IF i <= a THEN tag[i] ELSE text[i - a]
      /\ \A i \in 1..(a + b + 1) : whole[i] = IF i <= a + b THEN front[i] ELSE end[i - (a + b)]
  BY <1>2, <1>3, <1>4, <1>5, <1>6
<1> HIDE DEF a, b
<1>8. cut \in Seq(Nat) /\ Len(cut) = a + b + 1 /\ \A i \in 1..(a + b + 1) : cut[i] = line[i]
  <2>1. a + b + 1 \in 1..Len(line)
    BY <1>1, <1>7
  <2> DEFINE e == a + b + 1
             part == SubSeq(line, 1, e)
  <2>2. e \in Nat /\ 1 \in 1..(Len(line) + 1) /\ e \in (1 - 1)..Len(line) /\ 1 <= e
    BY <1>1, <1>7
  <2>3. cut = part /\ e = a + b + 1
    OBVIOUS
  <2> HIDE DEF e
  <2>4. /\ part \in Seq(Nat)
        /\ Len(part) = IF 1 <= e THEN e - 1 + 1 ELSE 0
        /\ \A i \in 1..(e - 1 + 1) : part[i] = line[1 + i - 1]
    BY <1>4, <2>2, SubSeqProperties, SMTT(30)
  <2> HIDE DEF part, cut
  <2>5. /\ part \in Seq(Nat) /\ Len(part) = e /\ \A i \in 1..e : part[i] = line[i]
    <3>1. e - 1 + 1 = e /\ 1 <= e /\ \A i \in 1..e : 1 + i - 1 = i
      BY <2>2
    <3> QED
      BY <2>4, <3>1, Zenon
  <2> QED
    BY <2>3, <2>5, Zenon
<1> HIDE DEF cut
<1>9. ASSUME NEW i \in 1..(a + b + 1) PROVE cut[i] = whole[i]
  <2>1. i \in 1..(a + room)
    BY <1>1
  <2>2. CASE i <= a
    <3>1. i \in 1..(a + b) /\ i <= a + b
      BY <1>1, <2>2
    <3> QED
      BY <1>7, <1>8, <2>1, <2>2, <3>1
  <2>3. CASE i > a /\ i <= a + b
    <3>1. i \in 1..(a + b) /\ ~(i <= a) /\ i - a \in 1..room /\ i - a <= b
      BY <1>1, <2>3
    <3> QED
      BY <1>2, <1>7, <1>8, <2>1, <2>3, <3>1
  <2>4. CASE i > a + b
    <3>1. i - (a + b) = 1 /\ ~(i <= a + b) /\ ~(i <= a) /\ i - a \in 1..room /\ ~(i - a <= b)
      BY <1>1, <2>4
    <3>2. whole[i] = 0
      BY <1>3, <1>7, <3>1
    <3>3. cut[i] = str[i - a] /\ str[i - a] = 0
      BY <1>2, <1>7, <1>8, <2>1, <3>1
    <3> QED
      BY <3>2, <3>3
  <2> QED
    BY <1>1, <2>2, <2>3, <2>4
<1>10. cut = whole
  BY <1>6, <1>7, <1>8, <1>9, SeqEqual
<1> QED
  BY <1>10, Zenon DEF cut, whole, front, line, end, a, b

(* The formats of the calls, coloured or not.                              *)
LEMMA ColouredIs ==
    ASSUME NEW call \in {"log", "fail"}, NEW format \in Seq(Directives)
    PROVE  /\ Len(Coloured(call, format)) \in Nat
           /\ DOMAIN Coloured(call, format) = 1..Len(Coloured(call, format))
           /\ Printable(Coloured(call, format), Len(Coloured(call, format)))
<1> DEFINE red == [kind |-> "plain", text |-> <<27, 31>>]
           white == [kind |-> "plain", text |-> <<27, 40>>]
           Items == Directives \cup {red, white}
           coloured == Coloured(call, format)
<1>1. red.kind = "plain" /\ red.text \in Seq(Nat \ {0})
  OBVIOUS
<1>2. white.kind = "plain" /\ white.text \in Seq(Nat \ {0})
  OBVIOUS
<1>3. Coloured(call, format) = IF call = "log" THEN format ELSE <<red>> \o format \o <<white>>
  BY Zenon DEF Coloured, Plain
<1> HIDE DEF red, white, coloured
<1>4. \A d \in Items : Prints(Sprintf(d), Width(d))
  <2>1. Prints(Sprintf(red), Width(red)) /\ Prints(Sprintf(white), Width(white))
    BY <1>1, <1>2, SprintfIs
  <2>2. \A d \in Directives : Prints(Sprintf(d), Width(d))
    BY SprintfIs
  <2> QED
    BY <2>1, <2>2
<1>5. format \in Seq(Items) /\ red \in Items /\ white \in Items
  OBVIOUS
<1> HIDE DEF Items
<1>6. coloured \in Seq(Items)
  <2>1. <<red>> \in Seq(Items) /\ <<white>> \in Seq(Items)
    BY <1>5
  <2>2. <<red>> \o format \in Seq(Items)
    BY <1>5, <2>1
  <2>3. <<red>> \o format \o <<white>> \in Seq(Items)
    BY <2>1, <2>2
  <2> QED
    BY <1>3, <1>5, <2>3 DEF coloured
<1>7. Len(coloured) \in Nat /\ DOMAIN coloured = 1..Len(coloured)
      /\ \A i \in 1..Len(coloured) : coloured[i] \in Items
  BY <1>6
<1>8. Printable(coloured, Len(coloured))
  BY <1>4, <1>7, Zenon DEF Printable
<1> QED
  BY <1>7, <1>8, Zenon DEF coloured

LEMMA LogIsWhole ==
    ASSUME logged \in Logs \cup {AnyLog}
    PROVE  LogArrives
<1>1. logged.call \in {"log", "fail"} /\ logged.name = <<98>> /\ logged.format \in Seq(Directives)
  <2>1. CASE logged = AnyLog
    BY <2>1 DEF AnyLog
  <2>2. CASE logged \in Logs
    <3>1. /\ logged.call \in {"log", "fail"} /\ logged.name = <<98>>
          /\ logged.format \in UNION {[1..n -> Directives] : n \in 1..MaxDirectives}
      BY <2>2 DEF Logs
    <3>2. PICK n \in 1..MaxDirectives : logged.format \in [1..n -> Directives]
      BY <3>1
    <3>3. n \in Nat
      BY LogAssumption
    <3>4. logged.format \in Seq(Directives)
      BY <3>2, <3>3
    <3> QED
      BY <3>1, <3>4
  <2> QED
    BY <2>1, <2>2
<1> DEFINE tag == LogTag(logged)
           format == Coloured(logged.call, logged.format)
           room == LogBytes - Len(tag)
           fits == {n \in DOMAIN format : Len(Printed(format, n - 1)) < room - 1}
           all == Printed(format, Cardinality(fits))
           zeroed == [i \in 1..room |-> 0]
           buffer == FormatString(zeroed, format, room)
           str == buffer.str
<1>2. tag \in Seq(Nat) /\ Len(tag) = 4
  BY <1>1 DEF LogTag
<1>3. room \in Nat
  BY <1>2, LogAssumption
<1>4. LogBuffer(logged) = buffer /\ LogInstruction(logged) = SubSeq(tag \o str, 1, Len(tag) + Strlen(str) + 1)
  BY Zenon DEF LogInstruction, LogBuffer
<1> SUFFICES ASSUME Len(all) < room
             PROVE  ~buffer.overrun /\ LogInstruction(logged) = tag \o all \o <<0>>
  BY <1>4, Zenon DEF LogArrives, Printed
<1>6. /\ Len(format) \in Nat /\ DOMAIN format = 1..Len(format) /\ Printable(format, Len(format))
  BY <1>1, ColouredIs
<1> HIDE DEF format, tag, room
<1>8. /\ Cardinality(fits) \in 0..Len(format) /\ Holds(str, all, room)
      /\ Len(all) < room => ~buffer.overrun
  BY <1>3, <1>6, BufferIs
<1>9. all \in Seq(Letters)
  BY <1>6, <1>8, PrintedIs
<1> HIDE DEF all, str, buffer, zeroed, fits
<1>10. Strlen(str) = Len(all)
  BY <1>3, <1>8, <1>9, StrlenIs
<1>11. SubSeq(tag \o str, 1, Len(tag) + Len(all) + 1) = tag \o all \o <<0>>
  BY <1>2, <1>3, <1>8, <1>9, CutBehind
<1> QED
  BY <1>4, <1>8, <1>10, <1>11, Zenon

-----------------------------------------------------------------------------
(* The parts put together: each keeps its invariant in the steps of the    *)
(* others, and the inputs of the pure functions stay what they were.       *)
StartupInv ==
    /\ HandshakeInv /\ LibInv
    /\ message \in Messages \cup {AnyMessage}
    /\ launch \in Launches \cup {AnyLaunch}
    /\ logged \in Logs \cup {AnyLog}

LEMMA StartupInitInv == Init => StartupInv
BY HandshakeInitInv, LibStartInv DEF Init, StartupInv

LEMMA StartupStepInv == StartupInv /\ [Next]_vars => StartupInv'
<1> SUFFICES ASSUME StartupInv, [Next]_vars PROVE StartupInv'
  OBVIOUS
<1>1. [HandshakeNext]_handshakeVars /\ [LibNext]_libVars /\ UNCHANGED <<message, launch, logged>>
  BY DEF Next, HandshakePart, vars
<1>2. HandshakeInv'
  BY <1>1, HandshakeStepInv DEF StartupInv
<1>3. LibInv'
  BY <1>1, LibStepInv DEF StartupInv
<1> QED
  BY <1>1, <1>2, <1>3 DEF StartupInv

LEMMA StartupInvariant == Spec => []StartupInv
BY StartupInitInv, StartupStepInv, PTL DEF Spec

(* Server, clients and threads of the library keep their types, whichever  *)
(* of them moves.                                                          *)
THEOREM StartupTypeCorrect == Spec => []StartupTypeOK
<1>1. StartupInv => StartupTypeOK
  <2>1. LibInv => LibTypeOK
    <3>1. In \in SUBSET Processes
      BY DEF In
    <3>2. Cardinality(In) \in 0..Cardinality(Processes)
      BY <3>1, LibAssumption, FS_Subset, FS_CardinalityType
    <3> QED
      BY <3>2 DEF LibInv, LibTypeOK
  <2> QED
    BY <2>1 DEF StartupInv, HandshakeInv, StartupTypeOK
<1> QED
  BY <1>1, StartupInvariant, PTL

(* Whatever names, arguments and strings are bundled or packed, and        *)
(* however wide a header is that holds their sizes, wimp_instr_get_from_   *)
(* buffer finds every part of an instruction whose size has a lowest byte  *)
(* other than 0 and whose names are not empty, and                         *)
(* wimp_instr_pack_get_string every string of a pack.                      *)
THEOREM CodecCorrect == Spec => []UnpackedAsPacked
<1>1. StartupInv => UnpackedAsPacked
  <2> SUFFICES ASSUME StartupInv PROVE UnpackedAsPacked
    OBVIOUS
  <2>1. message \in Messages \cup {AnyMessage}
    BY DEF StartupInv
  <2>2. CASE message \in Messages
    BY <2>1, <2>2, BundleParses, PackUnpacks DEF UnpackedAsPacked
  <2>3. CASE message = AnyMessage
    <3>1. ParsesBack
      BY <2>3 DEF AnyMessage, ParsesBack
    <3> QED
      BY <2>1, <3>1, PackUnpacks DEF UnpackedAsPacked
  <2> QED
    BY <2>1, <2>2, <2>3
<1> QED
  BY <1>1, StartupInvariant, PTL

(* Whichever allocation of wimp_get_entry fails, and whichever argument is *)
(* NULL, what was allocated is freed once; of a complete entry             *)
(* wimp_free_entry frees the entry and every copy once, while nothing is   *)
(* said of the array, which the code forgets; and the line that            *)
(* wimp_start_executable_process hands to popen falls apart into the       *)
(* executable beside the running one and the arguments as they were given, *)
(* when none is empty or holds a blank.                                    *)
THEOREM ArgumentsCorrect == Spec => []ArgumentsArrive
<1>1. StartupInv => ArgumentsArrive
  BY EntryIsFreedOnce, CommandSplits DEF StartupInv, ArgumentsArrive
<1> QED
  BY <1>1, StartupInvariant, PTL

(* For any int and any text, and any buffer that is longer than what the   *)
(* directives print up to the one that finds it full: nothing is written   *)
(* beyond the buffer, and the instruction to the parent holds the name,    *)
(* what printf would have printed and a terminator.  The widths that       *)
(* format_string counts by itself are those of the numbers that sprintf    *)
(* has written.  Nothing is said of longer texts, which the code writes    *)
(* beyond the buffer.                                                      *)
THEOREM LogCorrect == Spec => []LogArrives
<1>1. StartupInv => LogArrives
  BY LogIsWhole DEF StartupInv
<1> QED
  BY <1>1, StartupInvariant, PTL
=============================================================================
