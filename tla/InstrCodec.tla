------------------------------ MODULE InstrCodec ------------------------------
(***************************************************************************)
(* The layout of an instruction: how a server bundles it (wimp_server.c    *)
(* 271-315), how its parts are found again (wimp_instruction.c 164-239),   *)
(* and the pack of strings that may be its arguments (276-329).            *)
(*                                                                         *)
(* A cell stands for a byte, 0 for '\0'.  Offsets count from 0, as in the  *)
(* code.  A number takes HDR cells in base BASE, lowest first.             *)
(***************************************************************************)
EXTENDS Integers, Sequences, SequencesExt, Header

CONSTANTS
    HDR,            \* sizeof(int32_t), 4
    BASE,           \* 256
    Names,          \* C strings: no 0 in them
    Arguments,      \* sequences of cells
    Packs           \* sequences of at most 8 C strings, to be packed

(* An instruction is no larger than an int32_t can say.                    *)
ASSUME CodecAssumption ==
    /\ HDR \in Nat \ {0} /\ BASE \in Nat \ {0, 1}
    /\ Names \subseteq Seq(Nat) /\ Arguments \subseteq Seq(Nat) /\ Packs \subseteq Seq(Seq(Nat))
    /\ \A n \in Names : 0 \notin ToSet(n)
    /\ \A p \in Packs : Len(p) <= 8 /\ \A n \in ToSet(p) : 0 \notin ToSet(n)
    /\ \A d, s, i \in Names, a \in Arguments :
            \A n \in {Len(a), 2 * HDR + Len(d) + Len(s) + Len(i) + 3 + Len(a)} :
                HeaderHolds(n, BASE, HDR)

VARIABLE message    \* what is bundled, or packed

Messages ==
    [what : {"bundle"}, process : Names, dest : Names, instr : Names, args : Arguments]
        \cup [what : {"pack"}, strings : Packs]

-----------------------------------------------------------------------------
Cell(b, at) == b[at + 1]
Cells(b, at, n) == SubSeq(b, at + 1, at + n)

Number(n) == DigitsOf(n, BASE, HDR)
Value(b, at) == ValueOf(Cells(b, at, HDR), BASE, HDR)

CString(s) == s \o <<0>>

(* wimp_server_bundle_instr.                                               *)
Bundle(m) ==
    LET body == CString(m.dest) \o CString(m.process) \o CString(m.instr)
                    \o Number(Len(m.args)) \o m.args
    IN  Number(HDR + Len(body)) \o body

(* Behind the string that is being looked through from an offset on.       *)
SkipString(b, from) ==
    LET ends == {i \in from..(Len(b) - 1) : Cell(b, i) = 0}
    IN  IF ends = {} THEN IF from < Len(b) THEN Len(b) ELSE from
        ELSE (CHOOSE i \in ends : \A j \in ends : i <= j) + 1

(* What a char pointer shows.                                              *)
StringAt(b, at) == Cells(b, at, SkipString(b, at) - at - 1)

NoMeta == [dest |-> 0, source |-> 0, instr |-> 0, instr_bytes |-> 0, args |-> 0,
           arg_bytes |-> 0, total_bytes |-> 0]

(* wimp_instr_get_from_buffer: a first byte of 0 is a ping; each search    *)
(* begins one cell into the string, which must not be empty for that.      *)
GetFromBuffer(b) ==
    LET source == SkipString(b, HDR + 1)
        instr  == SkipString(b, source + 1)
        arglen == SkipString(b, instr + 1)
    IN  IF Cell(b, 0) = 0 THEN NoMeta
        ELSE [dest |-> HDR, source |-> source, instr |-> instr, instr_bytes |-> arglen - instr,
              args |-> IF Value(b, arglen) # 0 THEN arglen + HDR ELSE 0,
              arg_bytes |-> Value(b, arglen), total_bytes |-> Value(b, 0)]

(* wimp_instr_pack_strings: each string has room for two terminators.      *)
(* Slip: it has room for its letters only.                                 *)
RoomForLetters(s) == s
Room(s) == s \o <<0, 0>>
PackStrings(strings) ==
    LET rooms == [i \in DOMAIN strings |-> Room(strings[i])]
    IN  [strings |-> [i \in DOMAIN strings |-> Len(FlattenSeq(SubSeq(rooms, 1, i - 1)))],
         buffer |-> FlattenSeq(rooms)]

PackGetString(pack, index) == StringAt(pack.buffer, pack.strings[index + 1])

-----------------------------------------------------------------------------
(* What is bundled is found again, in every part, unless the size has a    *)
(* lowest byte of 0 (see Reciever) or a name is empty.                     *)
ParsesBack ==
    message.what = "bundle" /\ <<>> \notin {message.dest, message.process, message.instr} =>
    LET b == Bundle(message)
        meta == GetFromBuffer(b)
    IN  Cell(b, 0) # 0 =>
        /\ StringAt(b, meta.dest) = message.dest
        /\ StringAt(b, meta.source) = message.process
        /\ StringAt(b, meta.instr) = message.instr
        /\ meta.instr_bytes = Len(message.instr) + 1
        /\ meta.arg_bytes = Len(message.args) /\ meta.total_bytes = Len(b)
        /\ IF message.args = <<>> THEN meta.args = 0
           ELSE Cells(b, meta.args, meta.arg_bytes) = message.args

(* The strings of a pack come out as they went in, empty ones too, and lie *)
(* inside the pack.                                                        *)
PackGivesStringsBack ==
    message.what = "pack" =>
    LET pack == PackStrings(message.strings)
    IN  \A i \in DOMAIN message.strings :
            /\ PackGetString(pack, i - 1) = message.strings[i]
            /\ pack.strings[i] + Len(message.strings[i]) < Len(pack.buffer)

(* Whatever a process puts into an instruction, its receiver takes out.    *)
UnpackedAsPacked == ParsesBack /\ PackGivesStringsBack
=============================================================================
