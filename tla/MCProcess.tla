------------------------------ MODULE MCProcess ------------------------------
(* A process as it starts, and as it waits for a response later on: two    *)
(* scenes that share no state.                                             *)
EXTENDS MCStartup, MCWaitResponse

VARIABLE scene      \* which of the two a behaviour is about

mcVars == <<vars, waitResponseVars, scene>>
StartupScene(A) == scene = "startup" /\ A /\ UNCHANGED <<waitResponseVars, scene>>
WaitScene(A) == scene = "waiting" /\ A /\ UNCHANGED <<vars, scene>>

(* While a behaviour waits, startup stays in one of its initial states.    *)
MCInit ==
    /\ Init /\ WaitInit
    /\ scene \in {"startup", "waiting"}
    /\ scene = "waiting" => subject = "library" /\ table = Expected

MCNext == StartupScene(Next) \/ WaitScene(WaitNext)

(* Startup's Spec and FairWaitSpec, each in its scene.                     *)
MCSpec ==
    /\ MCInit /\ [][MCNext]_mcVars
    /\ WF_mcVars(StartupScene(HandshakePart(ServerStep)))
    /\ \A c \in Clients \ Foreign :
        WF_mcVars(StartupScene(HandshakePart(ClientStep(c))))
    /\ WF_mcVars(WaitScene(~Undefined /\ MainStep))
    /\ \A t \in Recievers : WF_mcVars(WaitScene(~Undefined /\ RecieverStep(t)))
=============================================================================
