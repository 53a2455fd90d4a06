------------------------------ MODULE LogFormat ------------------------------
(***************************************************************************)
(* The log of a child (wimp_log.c): format_string writes what printf would *)
(* write into a buffer, but works out by itself how many characters each   *)
(* number has taken (15-197), and the result becomes the arguments of a    *)
(* log instruction to the parent (208-288).                                *)
(*                                                                         *)
(* A format is a sequence of directives; characters are numbers, 0 is the  *)
(* terminator.  Texts that sprintf measures with strlen, and characters,   *)
(* are given as they come out.  %d of INT_MIN, the negation of which       *)
(* overflows, %u from 2^31 on and %f with a precision are left out.        *)
(***************************************************************************)
EXTENDS Integers, Sequences, SequencesExt, Header

CONSTANTS
    Ints,       \* the int arguments
    Texts,      \* what other directives and characters come to
    LogBytes,   \* MAXIMUM_LOG_BYTES
    MaxDirectives

Copied == {"c", "s", "plain"}           \* copied without a terminator
Directives ==
    [kind : {"d", "o", "x"}, value : Ints] \cup [kind : {"u"}, value : Ints \cap Nat]
        \cup [kind : Copied \cup {"f"}, text : Texts]

(* A text has no terminator in it.                                         *)
INT_MAX == 2147483647
ASSUME LogAssumption ==
    /\ \A n \in Ints : n \in Int /\ -INT_MAX <= n /\ n <= INT_MAX
    /\ Texts \subseteq Seq(Nat \ {0})
    /\ LogBytes \in Nat /\ LogBytes > 4       \* the tag has room
    /\ MaxDirectives \in Nat

VARIABLE logged     \* the call: which function, the process name and the format
Logs == [call : {"log", "fail"}, name : {<<98>>},
         format : UNION {[1..n -> Directives] : n \in 1..MaxDirectives}]

-----------------------------------------------------------------------------
(* What sprintf prints (external): the digits of an int in 32 bits.        *)
DigitChar(d) == d + 1
Digits(n, base, width) ==
    LET digit == [i \in 1..width |-> IF base = 8 /\ i = 11 THEN DigitsOf(n, base, width)[i] % 4
                                     ELSE DigitsOf(n, base, width)[i]]
        top == {i \in 1..width : \A j \in (i + 1)..width : digit[j] = 0}
        last == CHOOSE i \in top : \A j \in top : i <= j
    IN  [i \in 1..last |-> DigitChar(digit[last + 1 - i])]
Minus == 20
Sprintf(d) ==
    CASE d.kind \in {"d", "u"} -> IF d.value >= 0 THEN Digits(d.value, 10, 10)
                                 ELSE <<Minus>> \o Digits(-d.value, 10, 10)
      [] d.kind = "o" -> Digits(d.value, 8, 11)
      [] d.kind = "x" -> Digits(d.value, 16, 8)
      [] OTHER -> d.text

(* get_char_width_dec, _oct, _hex.                                         *)
Powers(base, highest) ==
    LET power[k \in 0..highest] == IF k = 0 THEN 1 ELSE base * power[k - 1] IN power
CountFrom(n, base, highest) ==
    1 + Cardinality({k \in 1..highest : n >= Powers(base, highest)[k]})
GetCharWidthDec(n) ==
    IF n < 0 THEN 1 + CountFrom(-n, 10, 9) ELSE CountFrom(n, 10, 9)
(* Slip: the highest power is forgotten.                                   *)
GetCharWidthOctShort(n) == IF n < 0 THEN 11 ELSE CountFrom(n, 8, 9)
GetCharWidthOct(n) == IF n < 0 THEN 11 ELSE CountFrom(n, 8, 10)
GetCharWidthHex(n) == IF n < 0 THEN 8 ELSE CountFrom(n, 16, 7)

Width(d) ==
    CASE d.kind \in {"d", "u"} -> GetCharWidthDec(d.value)
      [] d.kind = "o" -> GetCharWidthOct(d.value)
      [] d.kind = "x" -> GetCharWidthHex(d.value)
      [] OTHER -> Len(d.text)

(* sprintf and memcpy do not know where the buffer ends.  What goes beyond *)
(* it lands in somebody else's memory; overrun says that this has happened.*)
Write(str, offset, text) ==
    [i \in DOMAIN str |-> IF i - offset \in DOMAIN text THEN text[i - offset] ELSE str[i]]

Strlen(str) == (CHOOSE i \in DOMAIN str :
                    str[i] = 0 /\ \A j \in 1..(i - 1) : str[j] # 0) - 1

(* format_string: stops with the directive that finds the buffer full, and *)
(* looks no further than at where that directive begins.                   *)
Formatted(at, d, buffsize) ==
    LET new == Sprintf(d) \o IF d.kind \in Copied THEN <<>> ELSE <<0>>
    IN  IF at.offset >= buffsize - 1 THEN at
        ELSE [str |-> Write(at.str, at.offset, new),
              offset |-> at.offset + Width(d),
              overrun |-> at.overrun \/ at.offset + Len(new) > buffsize]
FormatString(str, format, buffsize) ==
    LET at[n \in 0..Len(format)] ==
            IF n = 0 THEN [str |-> str, offset |-> 0, overrun |-> FALSE]
            ELSE Formatted(at[n - 1], format[n], buffsize)
    IN  at[Len(format)]

(* wimp_log_fail, _success and _important put a colour around the format,  *)
(* and wimp_log nothing.                                                   *)
Plain(text) == <<[kind |-> "plain", text |-> text]>>
Coloured(call, format) ==
    IF call = "log" THEN format ELSE Plain(<<27, 31>>) \o format \o Plain(<<27, 40>>)

(* wimp_log_internal in a child: the arguments of the instruction.  The    *)
(* buffer is zeroed after each use.                                        *)
LogTag(log) == <<91>> \o log.name \o <<93, 32>>
LogBuffer(log) ==
    LET room == LogBytes - Len(LogTag(log))
    IN  FormatString([i \in 1..room |-> 0], Coloured(log.call, log.format), room)
LogInstruction(log) ==
    LET str == LogBuffer(log).str
    IN  SubSeq(LogTag(log) \o str, 1, Len(LogTag(log)) + Strlen(str) + 1)

-----------------------------------------------------------------------------
(* "Basically do the work of the printf modifiers here" (wimp_log.c 259):  *)
(* if what the directives print that find the buffer not yet full is       *)
(* shorter than the buffer, nothing is written beyond it, and the parent   *)
(* gets the name, exactly that text, no number cut short or followed by a  *)
(* gap, and a terminator; directives that find it full are left out.       *)
LogArrives ==
    LET format == Coloured(logged.call, logged.format)
        room == LogBytes - Len(LogTag(logged))
        Printed(n) == FlattenSeq([i \in 1..n |-> Sprintf(format[i])])
        fits == {n \in DOMAIN format : Len(Printed(n - 1)) < room - 1}
        all == Printed(Cardinality(fits))
    IN  Len(all) < room =>
            /\ ~LogBuffer(logged).overrun
            /\ LogInstruction(logged) = LogTag(logged) \o all \o <<0>>

(* "Ensure don't overrun" (wimp_log.c 91): whatever is logged stays in the *)
(* buffer.  In the code it does not: only the place where a directive      *)
(* begins is looked at, and not how long it is.                            *)
LogStaysInBuffer == ~LogBuffer(logged).overrun
=============================================================================
