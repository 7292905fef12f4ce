------------------------- MODULE ConnectorServices -------------------------
(****************************************************************************)
(* Two services around the sockets of connectors that meet neither in a     *)
(* table nor in a call: the presence a gateway keeps, and the terminals of  *)
(* a connector.  Each is an instance of its module with variables and       *)
(* constants of its own, as in HubServices.  What theorems assume of the    *)
(* constants is stated here, and evaluated on the instance                  *)
(* MCConnectorServices.                                                     *)
(****************************************************************************)
EXTENDS Naturals

CONSTANTS
  Absent,              \* no socket, no project, no session
  \* presence
  PresenceConnectors, PresenceConns, PresenceConnectorOf, PresenceProjectOf, Outdated,
  \* terminals
  PtyNames, MaxSockets, MaxChannels

VARIABLES
  presence_online, presence_sock, presence_handler,
  pty_tmux, pty_sock, pty_linked, pty_opened, pty_terms, pty_stream, pty_sessions

presenceVars == <<presence_online, presence_sock, presence_handler>>
ptyVars == <<pty_tmux, pty_sock, pty_linked, pty_opened, pty_terms, pty_stream, pty_sessions>>

----------------------------------------------------------------------------
(* The services.  A constant that is not renamed has the name its module    *)
(* gives it.                                                                *)

Sockets == INSTANCE GatewaySockets WITH
  Connectors <- PresenceConnectors, Conns <- PresenceConns,
  None <- Absent, ConnectorOf <- PresenceConnectorOf, ProjectOf <- PresenceProjectOf,
  online <- presence_online, sock <- presence_sock, handler <- presence_handler

Ptys == INSTANCE ConnectorStreams WITH
  Names <- PtyNames, None <- Absent,
  tmux <- pty_tmux, sock <- pty_sock, linked <- pty_linked, opened <- pty_opened,
  terms <- pty_terms, stream <- pty_stream, sessions <- pty_sessions

----------------------------------------------------------------------------
(* What the theorems assume.                                                *)

ASSUME PresenceAssumption == Sockets!Dialled
ASSUME PtyAssumption == Ptys!Bounds

----------------------------------------------------------------------------
(* The properties are those of the services; each module says what they     *)
(* mean and which code they are about.                                      *)

(* What a worker is picked by is of one socket somebody reads (ws.go).      *)
SelectionMatchesSocket == Sockets!SelectionMatchesSocket

(* A terminal's input goes to the process opened for it (agent/terminal.go).*)
InputReachesItsTerminal == Ptys!InputReachesItsTerminal

(* A session leaves the list once its PTY is closed (agent/sessions.go).    *)
DetachedSessionsGo == Ptys!DetachedSessionsGo

============================================================================
