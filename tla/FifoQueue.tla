------------------------------ MODULE FifoQueue ------------------------------
(***************************************************************************)
(* What an instruction queue promises its users, whatever the threads do:  *)
(* the instructions come out once each and in the order they were put in.  *)
(***************************************************************************)
EXTENDS Sequences

CONSTANT Msgs       \* the instructions

VARIABLES
    contents,       \* the instructions in the queue, oldest first
    handled         \* the instructions popped so far, oldest first

fifoVars == <<contents, handled>>

FifoInit == contents = <<>> /\ handled = <<>>

Put(m) ==
    /\ contents' = Append(contents, m)
    /\ UNCHANGED handled

Take ==
    /\ contents # <<>>
    /\ contents' = Tail(contents)
    /\ handled' = Append(handled, Head(contents))

FifoNext == Take \/ \E m \in Msgs : Put(m)

FifoSpec == FifoInit /\ [][FifoNext]_fifoVars
=============================================================================
