-------------------------------- MODULE Launch --------------------------------
(***************************************************************************)
(* Pure functions behind the start of a process (wimp_process.c): the      *)
(* arguments for its main function (254-324), and the directory and the    *)
(* command line of an executable (138-216).                                *)
(***************************************************************************)
EXTENDS Integers, Sequences, SequencesExt

CONSTANTS
    Args,       \* arguments: sequences of characters
    NULL,       \* an argument that is no string
    MaxArgs,
    Paths       \* paths of the running executable, without blanks

VARIABLE launch     \* the input of one of the functions
MaxAllocs == MaxArgs + 3

(* A pointer to arguments is not NULL.                                     *)
ASSUME LaunchAssumption ==
    /\ MaxArgs \in Nat
    /\ Args \subseteq Seq(STRING) /\ Paths \subseteq Seq(STRING)
    /\ \A path \in Paths : " " \notin ToSet(path)
    /\ NULL \notin Args
    /\ \A n \in 1..(MaxArgs + 1) : \A args \in [1..n -> Args \cup {NULL}] : args # NULL

Lists == UNION {[1..n -> Args] : n \in 0..MaxArgs}
Launches ==
    [what : {"entry"}, args : UNION {[1..n -> Args \cup {NULL}] : n \in 0..MaxArgs},
     failing : 1..MaxAllocs]
        \cup [what : {"command"}, path : Paths, args : Lists]

-----------------------------------------------------------------------------
(* wimp_get_entry.  Its allocations are numbered: the entry, the array of  *)
(* arguments, then each argument; the one numbered failing fails.          *)
Entry == 1
Argv == 2
Arg(i) == i + 2

(* Slip: the copies made before are freed but for the first.               *)
FreeCopiesButFirst(n) == [i \in 1..(n - 1) |-> Arg(n + 1 - i)]
FreeCopies(n) == [i \in 1..n |-> Arg(n + 1 - i)]

GetEntry(args, failing) ==
    LET bad == {i \in DOMAIN args : args[i] = NULL \/ failing = Arg(i)}
        first == CHOOSE i \in bad : \A j \in bad : i <= j
        Fail(made, freed) == [result |-> NULL, allocated |-> 1..made, freed |-> freed]
    IN  CASE failing = Entry -> Fail(0, <<>>)
          [] failing = Argv  -> Fail(1, <<Entry>>)
          [] failing > Argv /\ bad # {} ->
                Fail(first + 1, FreeCopies(first - 1) \o <<Argv, Entry>>)
          [] OTHER -> [result |-> args \o <<NULL>>,
                       allocated |-> 1..(Len(args) + 2), freed |-> <<>>]

(* wimp_free_entry: the arguments and the entry.  The array is left.       *)
FreeEntry(args) == [i \in DOMAIN args |-> Arg(i)] \o <<Entry>>

-----------------------------------------------------------------------------
(* wimp_get_running_executable_directory: the slash at index 0 does not    *)
(* count.                                                                  *)
Directory(path) ==
    LET slashes == {i \in 2..Len(path) : path[i] = "/"}
    IN  IF slashes = {} THEN NULL
        ELSE SubSeq(path, 1, CHOOSE i \in slashes : \A j \in slashes : j <= i)

(* wimp_start_executable_process on unix, up to popen; Windows keeps path  *)
(* and arguments apart.                                                    *)
Joined(args) ==
    FlattenSeq([i \in DOMAIN args |->
                   args[i] \o IF i < Len(args) THEN <<" ">> ELSE <<>>])
CommandLine(dir, executable, args) == dir \o executable \o <<" ">> \o Joined(args)

(* The words of a command line: popen's shell (external).                  *)
Blank(line, i) == i \notin DOMAIN line \/ line[i] = " "
Starts(line) == {i \in DOMAIN line : ~Blank(line, i) /\ Blank(line, i - 1)}
IsWord(line, i, j) ==
    /\ i <= j /\ Blank(line, i - 1) /\ Blank(line, j + 1)
    /\ \A k \in i..j : ~Blank(line, k)
Words(line) ==
    [n \in 1..Cardinality(Starts(line)) |->
        LET i == CHOOSE i \in Starts(line) :
                     Cardinality({h \in Starts(line) : h < i}) = n - 1
            j == CHOOSE j \in DOMAIN line : IsWord(line, i, j)
        IN  SubSeq(line, i, j)]

-----------------------------------------------------------------------------
(* Whichever allocation fails or argument is missing, what was allocated   *)
(* is freed, once, and nothing else is.  Otherwise the entry has all its   *)
(* arguments, and wimp_free_entry frees nothing that is not the entry's,   *)
(* nothing twice, and the entry and every copy: at most the array stays    *)
(* (which in the code it does, see the README).                            *)
EntryFreedOnce ==
    launch.what = "entry" =>
        LET e == GetEntry(launch.args, launch.failing)
            freed == IF e.result = NULL THEN e.freed ELSE FreeEntry(launch.args)
        IN  /\ IsInjective(freed)
            /\ ToSet(freed) \subseteq e.allocated
            /\ e.allocated \ ToSet(freed) \subseteq IF e.result = NULL THEN {} ELSE {Argv}
            /\ e.result # NULL =>
                   e.result = Append(launch.args, NULL) /\ NULL \notin ToSet(launch.args)

(* Arguments without blanks, none of them empty, reach the executable      *)
(* beside the running one as they were given.                              *)
CommandLineSplits ==
    launch.what = "command" /\ Directory(launch.path) # NULL =>
        LET words == Words(CommandLine(Directory(launch.path), <<"x">>, launch.args))
        IN  (\A a \in ToSet(launch.args) : a # <<>> /\ " " \notin ToSet(a)) =>
                /\ Tail(words) = launch.args
                /\ \E file \in {SubSeq(launch.path, i, Len(launch.path)) :
                                    i \in 2..(Len(launch.path) + 1)} :
                        "/" \notin ToSet(file)
                            /\ launch.path = SubSeq(Head(words), 1, Len(Head(words)) - 1) \o file

(* The arguments arrive, in a thread or in an executable; nothing is freed *)
(* twice on the way, and no copy of an argument is forgotten.              *)
ArgumentsArrive == EntryFreedOnce /\ CommandLineSplits
=============================================================================
