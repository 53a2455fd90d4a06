------------------------------- MODULE LibInit -------------------------------
(***************************************************************************)
(* wimp_init and wimp_shutdown (wimp_process.c 232-252): the threads of a  *)
(* program that is made of library processes count themselves in and out,  *)
(* the first one starts plibsys and the last one shuts it down.  Testing   *)
(* the counter and changing it are separate steps.                         *)
(*                                                                         *)
(* The first process starts others with wimp_start_library_process, and    *)
(* any process that is in may start more.  Nothing in wimp_shutdown waits  *)
(* for those: examples/hello-wimp.c accepts them first where all goes      *)
(* well, and shuts down at once where an error comes before that.  hasty   *)
(* remembers that some process has done the latter.                        *)
(***************************************************************************)
EXTENDS Integers, FiniteSets

CONSTANTS
    Processes,      \* the threads
    First           \* the one the program begins with

ASSUME LibAssumption == First \in Processes /\ IsFiniteSet(Processes)

VARIABLES
    s_init_ref_counter,
    library,        \* plibsys is up
    place,          \* where a thread is
    startedBy,      \* which thread started it
    hasty           \* one has left while somebody it started was on its way in

libVars == <<s_init_ref_counter, library, place, startedBy, hasty>>

LibTypeOK ==
    /\ s_init_ref_counter \in 0..Cardinality(Processes)     \* the assertion in line 251
    /\ library \in BOOLEAN
    /\ place \in [Processes -> {"off", "test", "count", "in", "left", "done"}]
    /\ startedBy \in [Processes -> Processes]
    /\ hasty \in BOOLEAN

LibStart ==
    /\ s_init_ref_counter = 0 /\ library = FALSE
    /\ place = [p \in Processes |-> IF p = First THEN "test" ELSE "off"]
    /\ startedBy = [p \in Processes |-> p] /\ hasty = FALSE

Move(p, from, to) == place[p] = from /\ place' = [place EXCEPT ![p] = to]

(* wimp_start_library_process; a thread that cannot be created stays off.  *)
StartLibraryProcess(p, child) ==
    /\ place[p] = "in"
    /\ Move(child, "off", "test")
    /\ startedBy' = [startedBy EXCEPT ![child] = p]
    /\ UNCHANGED <<s_init_ref_counter, library, hasty>>

(* wimp_init: test, and p_libsys_init; then count.                         *)
InitTest(p) ==
    /\ Move(p, "test", "count")
    /\ library' = (library \/ s_init_ref_counter = 0)
    /\ UNCHANGED <<s_init_ref_counter, startedBy, hasty>>

InitCount(p) ==
    /\ Move(p, "count", "in")
    /\ s_init_ref_counter' = s_init_ref_counter + 1
    /\ UNCHANGED <<library, startedBy, hasty>>

(* Everyone that p has started is through with wimp_init, as it is for     *)
(* certain once p has accepted its reciever.                               *)
HasAccepted(p) ==
    \A child \in Processes \ {p} :
        startedBy[child] = p => place[child] \notin {"test", "count"}

(* wimp_shutdown: count, the result of which is ignored; then test, and    *)
(* p_libsys_shutdown, which several threads may reach.                     *)
ShutdownCount(p) ==
    /\ Move(p, "in", "left")
    /\ s_init_ref_counter' = s_init_ref_counter - 1
    /\ hasty' = (hasty \/ ~HasAccepted(p))
    /\ UNCHANGED <<library, startedBy>>

(* Slip: the test is for the value before the count.                       *)
ShutdownTestBefore(p) ==
    /\ Move(p, "left", "done")
    /\ library' = (library /\ s_init_ref_counter # 1)
    /\ UNCHANGED <<s_init_ref_counter, startedBy, hasty>>

ShutdownTest(p) ==
    /\ Move(p, "left", "done")
    /\ library' = (library /\ s_init_ref_counter # 0)
    /\ UNCHANGED <<s_init_ref_counter, startedBy, hasty>>

LibNext ==
    \E p \in Processes :
        \/ \E child \in Processes : StartLibraryProcess(p, child)
        \/ InitTest(p) \/ InitCount(p)
        \/ ShutdownCount(p) \/ ShutdownTest(p)

LibSpec == LibStart /\ [][LibNext]_libVars

(* The library is up for everyone who has called wimp_init and not yet     *)
(* wimp_shutdown (wimp_process.h 48-58).  In the code a shutdown can       *)
(* overtake an init: the one who is on its way in finds a counter that is  *)
(* not zero, and the last one who is in shuts the library down before the  *)
(* other has counted.                                                      *)
LibraryUpWhileInUse == \A p \in Processes : place[p] = "in" => library

(* Once all processes that began have left, the library is down.           *)
LastOneShutsDown ==
    (\A p \in Processes : place[p] \in {"off", "done"}) => ~library

(* However the threads overtake each other between test and count: the     *)
(* library is up while in use unless somebody has left in haste, and is    *)
(* always shut down at the end.                                            *)
LibraryFollowsUse == (hasty \/ LibraryUpWhileInUse) /\ LastOneShutsDown
=============================================================================
