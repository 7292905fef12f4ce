------------------------ MODULE MCConnectorServices ------------------------
(****************************************************************************)
(* The hub's sockets and calls (HubConnections, under its own names) and    *)
(* the instances of ConnectorServices: one behaviour is about one of them,  *)
(* `part`, while the others rest as they began.                             *)
(****************************************************************************)
EXTENDS MCHubConnections, ConnectorServices

VARIABLE part

(* One connector that dials in three times, and another beside it.          *)
DialledBy == [c \in {"s1", "s2", "s3", "s4"} |-> IF c = "s3" THEN "w2" ELSE "w1"]

Enrolled == [w1 |-> "p1", w2 |-> "p2"]

----------------------------------------------------------------------------
hubVars == vars
allVars == <<part, hubVars, presenceVars, ptyVars>>

(* A connector has tmux or has not.                                         *)
ServicesInit ==
  /\ part \in {"connections", "presence", "ptys"}
  /\ Init
  /\ Sockets!Init
  /\ Ptys!Init
  /\ part = "ptys" \/ pty_tmux

(* The step of one service; the others rest.                                *)
ConnectionsStep == part = "connections" /\ Next /\ UNCHANGED <<part, presenceVars, ptyVars>>
SocketsStep == part = "presence" /\ Sockets!Next /\ UNCHANGED <<part, hubVars, ptyVars>>
PtysStep == part = "ptys" /\ Ptys!Next /\ UNCHANGED <<part, hubVars, presenceVars>>

ServicesNext == ConnectionsStep \/ SocketsStep \/ PtysStep

(* The fairness of HubConnections and of ConnectorStreams, each in the      *)
(* behaviours about it.                                                     *)
Fairness ==
  /\ \A r \in Requests : WF_hubVars(part = "connections" /\ Proceed(r))
  /\ \A c \in Conns : WF_hubVars(part = "connections" /\ Serve(c))
  /\ \A c \in Conns : WF_hubVars(part = "connections" /\ sock[c] = "closed" /\ ReadFails(c))
  /\ WF_ptyVars(part = "ptys" /\ Ptys!Pump)

ServicesSpec == ServicesInit /\ [][ServicesNext]_allVars /\ Fairness

=============================================================================
