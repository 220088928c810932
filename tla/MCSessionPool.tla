---------------------------- MODULE MCSessionPool ----------------------------
(***************************************************************************)
(* SessionPool for TLC: the sessions alone, with every ID, connection and  *)
(* ping; or one session on which a command runs.                           *)
(***************************************************************************)
EXTENDS SessionPool

CONSTANT execClient, execId   \* the connection, and its ID, that commands run on

Scenes ==
  \/ \A e \in Execs : caller[e] = "idle"
  \/ /\ \A c \in Clients \ {execClient} : dial[c] = "idle"
     /\ id[execClient] = execId
     /\ \A p \in Pings : ping[p] = NoPing
=============================================================================
