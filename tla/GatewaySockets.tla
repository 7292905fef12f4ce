-------------------------- MODULE GatewaySockets --------------------------
(***************************************************************************)
(* The gateway's presence map (internal/gateway/ws.go): which socket it    *)
(* reaches a connector by.  Each socket has a goroutine that attaches it,  *)
(* reads it and, when reading fails, marks the connector offline.  A step  *)
(* is what happens under the gateway's mutex or one read of a socket.      *)
(*                                                                         *)
(* A connector whose network fails dials in again while the gateway has    *)
(* not noticed yet: nothing closes the socket it replaces, and the gateway *)
(* sets no read deadline on it.                                            *)
(***************************************************************************)
CONSTANTS Connectors,   \* the enrolled connectors
          Conns,        \* the sockets they dial in with
          ConnectorOf,  \* the connector whose token each socket presents
          ProjectOf,    \* the project each connector is enrolled into
          Outdated,     \* the sockets whose hello tells of an older version
          None

VARIABLES online,   \* Gateway.online; its zero value is NotListed
          sock,     \* how each socket fares
          handler   \* where handleAgentWS stands

vars == <<online, sock, handler>>

Presence == [listed : BOOLEAN, project : {ProjectOf[k] : k \in Connectors} \cup {None},
             conn : Conns \cup {None}, stats : BOOLEAN, draining : BOOLEAN]

NotListed == [listed |-> FALSE, project |-> None, conn |-> None,
              stats |-> FALSE, draining |-> FALSE]

TypeOK == /\ online \in [Connectors -> Presence]
          /\ sock \in [Conns -> {"unused", "up", "broken"}]
          /\ handler \in [Conns -> {"unused", "hello", "serving", "leaving", "gone"}]

\* A socket is dialled by one connector, and None is not a socket.
Dialled == ConnectorOf \in [Conns -> Connectors] /\ None \notin Conns

Init == /\ online = [k \in Connectors |-> NotListed]
        /\ sock = [c \in Conns |-> "unused"]
        /\ handler = [c \in Conns |-> "unused"]

-----------------------------------------------------------------------------
(* Slips: a wrong edit of a definition below, to confirm that the property *)
(* notices.  No action uses it.                                            *)

\* A comparison the wrong way round: a socket takes out any but itself.
WithoutOthers(c) ==
    [online EXCEPT ![ConnectorOf[c]] = IF @.conn # c THEN NotListed ELSE @]

-----------------------------------------------------------------------------

\* The token is known, the socket is upgraded and hello is read.  The connector
\* dials only when it believes it has no connection.
Accept(c) == /\ handler[c] = "unused"
             /\ \A d \in Conns : ConnectorOf[d] = ConnectorOf[c] => sock[d] # "up"
             /\ sock' = [sock EXCEPT ![c] = "up"]
             /\ handler' = [handler EXCEPT ![c] = "hello"]
             /\ UNCHANGED online

\* What attachConn lists: over the entry that is there, whose stats stay.
Attached(c, p) == [p EXCEPT !.listed = TRUE, !.project = ProjectOf[ConnectorOf[c]],
                            !.conn = c, !.draining = c \in Outdated]

Attach(c) ==
    LET k == ConnectorOf[c]
    IN  /\ handler[c] = "hello"
        /\ online' = [online EXCEPT ![k] = Attached(c, online[k])]
        /\ handler' = [handler EXCEPT ![c] = "serving"]
        /\ UNCHANGED sock

\* setStats: a read-modify-write of the map's entry, listed or not.
Stats(c) ==
    /\ handler[c] = "serving" /\ sock[c] = "up"
    /\ online' = [online EXCEPT ![ConnectorOf[c]].listed = TRUE,
                                ![ConnectorOf[c]].stats = TRUE]
    /\ UNCHANGED <<sock, handler>>

\* The connector or the network goes away.
Break(c) == /\ sock[c] = "up"
            /\ sock' = [sock EXCEPT ![c] = "broken"]
            /\ UNCHANGED <<online, handler>>

\* The welcome cannot be written, or ReadMessage fails.
ReadFails(c) == /\ handler[c] = "serving" /\ sock[c] = "broken"
                /\ handler' = [handler EXCEPT ![c] = "leaving"]
                /\ UNCHANGED <<online, sock>>

\* delete(g.online, id): nobody looks at the socket listed.  (The calls and
\* terminals of that socket are then failed.)
Without(c) == [online EXCEPT ![ConnectorOf[c]] = NotListed]

MarkOffline(c) == /\ handler[c] = "leaving"
                  /\ online' = Without(c)
                  /\ handler' = [handler EXCEPT ![c] = "gone"]
                  /\ UNCHANGED sock

Next == \E c \in Conns : \/ Accept(c) \/ Attach(c) \/ Stats(c) \/ Break(c)
                         \/ ReadFails(c) \/ MarkOffline(c)

Spec == Init /\ [][Next]_vars

-----------------------------------------------------------------------------
(* Properties.                                                             *)

\* However sockets of one connector overlap, the one the gateway would send work
\* to is one somebody reads, and what worker selection reads beside it is of the
\* same connection: its project, and whether its own hello (not an earlier
\* socket's) was outdated.  An entry that stats re-created selects nobody.
SelectionMatchesSocket ==
    \A k \in Connectors : LET p == online[k] IN
        IF p.conn = None THEN p.project = None
        ELSE /\ ConnectorOf[p.conn] = k
             /\ handler[p.conn] \in {"serving", "leaving"}
             /\ p.project = ProjectOf[k]
             /\ p.draining <=> p.conn \in Outdated

-----------------------------------------------------------------------------
(* What gateway/store.go says of presence, and the gateway does not keep.  *)

\* "presence is a live connector socket": a connector is listed only with a
\* socket that is served, and it is listed once the sockets it dialled in with
\* before are gone and it is talking on the one that is left.
PresenceIsALiveSocket ==
    /\ \A k \in Connectors : online[k].listed =>
           \E c \in Conns : online[k].conn = c /\ handler[c] \in {"serving", "leaving"}
    /\ \A c \in Conns : /\ handler[c] = "serving" /\ sock[c] = "up"
                        /\ \A d \in Conns \ {c} : ConnectorOf[d] = ConnectorOf[c]
                                                => handler[d] \in {"unused", "gone"}
                        => online[ConnectorOf[c]].conn = c

=============================================================================
