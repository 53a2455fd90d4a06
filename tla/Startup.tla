------------------------------- MODULE Startup -------------------------------
(* What happens before a process does its work, in five parts that do not  *)
(* touch each other: subject says which one a behaviour is about.          *)
(*                                                                         *)
(* handshake: a server that expects processes, its clients, and programs   *)
(* that are no process of it.  library: threads that start each other.     *)
(* codec, log, launch: the pure functions, one initial state for each      *)
(* input.                                                                  *)
EXTENDS Handshake, LibInit, InstrCodec, LogFormat, Launch

VARIABLE subject

AnyMessage == [what |-> "pack", strings |-> <<>>]
AnyLaunch == [what |-> "command", path |-> <<"/">>, args |-> <<>>]
AnyLog == [call |-> "log", name |-> <<98>>, format |-> <<>>]

Init ==
    /\ HandshakeInit /\ LibStart
    /\ \/ /\ subject \in {"handshake", "library"}
          /\ message = AnyMessage /\ logged = AnyLog /\ launch = AnyLaunch
       \/ /\ subject = "codec" /\ message \in Messages
          /\ logged = AnyLog /\ launch = AnyLaunch
       \/ /\ subject = "log" /\ logged \in Logs
          /\ message = AnyMessage /\ launch = AnyLaunch
       \/ /\ subject = "launch" /\ launch \in Launches
          /\ message = AnyMessage /\ logged = AnyLog

vars == <<handshakeVars, libVars, message, logged, launch, subject>>
HandshakePart(A) ==
    subject = "handshake" /\ A /\ UNCHANGED <<libVars, message, logged, launch, subject>>

Next ==
    \/ HandshakePart(HandshakeNext)
    \/ subject = "library" /\ LibNext
           /\ UNCHANGED <<handshakeVars, message, logged, launch, subject>>

(* The server's thread and each reciever run when they can; what other     *)
(* programs do is up to them.                                              *)
Spec ==
    /\ Init /\ [][Next]_vars
    /\ WF_vars(HandshakePart(ServerStep))
    /\ \A c \in Clients \ Foreign : WF_vars(HandshakePart(ClientStep(c)))

(* The types of the two parts that have steps.                             *)
StartupTypeOK == HandshakeTypeOK /\ LibTypeOK
=============================================================================
