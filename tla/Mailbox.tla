------------------------------- MODULE Mailbox -------------------------------
(***************************************************************************)
(* What wimp_server_wait_response promises of the incoming queue: it takes *)
(* out the first instruction that ends the wait, wherever it stands, and   *)
(* the others keep their order (wimp_server.h 146-158).                    *)
(***************************************************************************)
EXTENDS Naturals, Sequences, SequencesExt

CONSTANTS Msgs, Awaited     \* all instructions, and those that end a wait

VARIABLES contents, taken

MailboxInit == contents = <<>> /\ taken = <<>>

Put ==
    /\ \E m \in Msgs : contents' = Append(contents, m)
    /\ UNCHANGED taken

TakeFirstAwaited ==
    \E i \in DOMAIN contents :
        /\ contents[i] \in Awaited
        /\ \A j \in 1..(i - 1) : contents[j] \notin Awaited
        /\ taken' = Append(taken, contents[i])
        /\ contents' = RemoveAt(contents, i)

MailboxSpec == MailboxInit /\ [][Put \/ TakeFirstAwaited]_<<contents, taken>>
=============================================================================
