-------------------------- MODULE HubConnections --------------------------
(***************************************************************************)
(* The hub's side of the connector sockets (internal/hub/conns.go, ws.go): *)
(* the registry of connected agents, the goroutine that serves each socket *)
(* from hello to teardown, the request/reply calls that share a socket and *)
(* the browser terminals bridged onto it.                                  *)
(*                                                                         *)
(* A step is what happens under one mutex (the registry's, or that of one  *)
(* connection) or one operation on a socket; goroutines interleave between *)
(* them.  A connector whose network fails dials in again while the hub has *)
(* not noticed yet, so several connections of one connector coexist.       *)
(***************************************************************************)
EXTENDS Integers, FiniteSets

CONSTANTS Connectors,   \* the enrolled connectors
          Conns,        \* the sockets they dial in with
          ConnectorOf,  \* the connector whose token each socket presents
          Requests,     \* goroutines with a call to make
          Terminals,    \* browser terminals
          None,         \* no connection
          MaxId         \* bound of the message ids of one connection

ASSUME Tokens == ConnectorOf \in [Conns -> Connectors]
ASSUME NotAConn == None \notin Conns
ASSUME Ids == MaxId \in Nat
ASSUME FewRequests == IsFiniteSet(Requests)

VARIABLES registry,     \* registry.agents
          sock,         \* how each socket fares
          handler,      \* where serveAgent stands
          displaced,    \* the connection add() replaced and has yet to close
          nextId,       \* agentConn.nextId
          pending,      \* agentConn.pending: the calls waiting for a result
          failing,      \* the calls serveAgent's teardown has yet to fail
          asked,        \* the ids the connector may still answer, by the
                        \* socket they were asked on
          channels,     \* agentConn.channels: the terminals on the socket
          req,          \* the calls
          term          \* the terminals

connVars == <<registry, sock, handler, displaced>>
callVars == <<nextId, pending, failing, asked, req>>
termVars == <<channels, term>>
vars == <<registry, sock, handler, displaced, nextId, pending, failing, asked,
          channels, req, term>>

NoAnswer == 0           \* the reply channel is empty
Closed   == -1          \* it has been closed by the teardown
Stray    == -2          \* the result of a call of an earlier socket
Answers  == {Stray, Closed, NoAnswer} \cup 1..MaxId   \* a result carries its id

\* swapped: in the registry, the old connection not closed yet; closing: marked
\* closed, its calls not failed yet; closed: still in the registry, perhaps.
Stages == {"unused", "swapped", "serving", "closing", "closed", "gone"}

\* agentConn.closed.
TornDown(c) == handler[c] \in {"closing", "closed", "gone"}

Call == [pc : {"idle", "held", "listed", "waiting"}, conn : Conns \cup {None},
         id : 0..MaxId, answer : Answers]
Terminal == [pc : {"idle", "held", "bridged"}, conn : Conns \cup {None},
             exit : BOOLEAN]

TypeOK == /\ registry \in [Connectors -> Conns \cup {None}]
          /\ sock \in [Conns -> {"unused", "up", "broken", "closed"}]
          /\ handler \in [Conns -> Stages]
          /\ displaced \in [Conns -> Conns \cup {None}]
          /\ nextId \in [Conns -> 0..MaxId]
          /\ pending \in [Conns -> SUBSET Requests]
          /\ failing \in [Conns -> SUBSET Requests]
          /\ asked \in [Conns -> SUBSET (1..MaxId)]
          /\ channels \in [Conns -> SUBSET Terminals]
          /\ req \in [Requests -> Call]
          /\ term \in [Terminals -> Terminal]

NoCall == [pc |-> "idle", conn |-> None, id |-> 0, answer |-> NoAnswer]
NoTerm == [pc |-> "idle", conn |-> None, exit |-> FALSE]

Init == /\ registry = [k \in Connectors |-> None]
        /\ sock = [c \in Conns |-> "unused"]
        /\ handler = [c \in Conns |-> "unused"]
        /\ displaced = [c \in Conns |-> None]
        /\ nextId = [c \in Conns |-> 0]
        /\ pending = [c \in Conns |-> {}]
        /\ failing = [c \in Conns |-> {}]
        /\ asked = [c \in Conns |-> {}]
        /\ channels = [c \in Conns |-> {}]
        /\ req = [r \in Requests |-> NoCall]
        /\ term = [t \in Terminals |-> NoTerm]

-----------------------------------------------------------------------------
(* Slips: what a wrong edit of the handlers below could make of them.  No  *)
(* action uses them; each stands in for its original to confirm that the   *)
(* properties at the end of the module notice.                             *)

\* remove() by connector id, whoever is registered.
RemoveAny(c) == /\ handler[c] = "closed"
                /\ registry' = [registry EXCEPT ![ConnectorOf[c]] = None]
                /\ handler' = [handler EXCEPT ![c] = "gone"]
                /\ UNCHANGED <<sock, displaced, callVars, termVars>>

\* request() does not look at closed.
ListUnchecked(r) ==
    LET c == req[r].conn
    IN  /\ req[r].pc = "held"
        /\ nextId' = [nextId EXCEPT ![c] = @ + 1]
        /\ pending' = [pending EXCEPT ![c] = @ \cup {r}]
        /\ req' = [req EXCEPT ![r].pc = "listed", ![r].id = nextId[c] + 1]
        /\ UNCHANGED <<connVars, failing, asked, termVars>>

\* The next id is the number of calls in flight, plus one.
IdInFlight(c) == Cardinality(pending[c]) + 1

\* A call gives up only when the socket is torn down.
TimeoutTornDown(r) == req[r].pc = "waiting" /\ TornDown(req[r].conn)

\* add() leaves it to the old connection to notice.
CloseDisplacedLater(c) ==
    /\ handler[c] = "swapped"
    /\ displaced' = [displaced EXCEPT ![c] = None]
    /\ handler' = [handler EXCEPT ![c] = "serving"]
    /\ UNCHANGED <<registry, sock, callVars, termVars>>

-----------------------------------------------------------------------------
(* The goroutine that serves a socket.                                     *)

\* handleAgentWS to registry.add: hello, welcome, and the swap under the
\* registry's lock.  The connector dials only when it believes it has no
\* connection, which says nothing of what the hub believes.
Accept(c) ==
    LET k == ConnectorOf[c]
    IN  /\ handler[c] = "unused"
        /\ \A d \in Conns : ConnectorOf[d] = k => sock[d] # "up"
        /\ sock' = [sock EXCEPT ![c] = "up"]
        /\ displaced' = [displaced EXCEPT ![c] = registry[k]]
        /\ registry' = [registry EXCEPT ![k] = c]
        /\ handler' = [handler EXCEPT ![c] = "swapped"]
        /\ UNCHANGED <<callVars, termVars>>

\* The rest of add: close the replaced socket.  (The events add and remove
\* publish to browsers are left out.)
CloseDisplaced(c) ==
    /\ handler[c] = "swapped"
    /\ sock' = [d \in Conns |-> IF d = displaced[c] THEN "closed" ELSE sock[d]]
    /\ displaced' = [displaced EXCEPT ![c] = None]
    /\ handler' = [handler EXCEPT ![c] = "serving"]
    /\ UNCHANGED <<registry, callVars, termVars>>

\* The connector or the network goes away; the hub has not read the end yet,
\* and its writes may still be taken.
Break(c) == /\ sock[c] = "up"
            /\ sock' = [sock EXCEPT ![c] = "broken"]
            /\ UNCHANGED <<registry, handler, displaced, callVars, termVars>>

\* ReadMessage fails: under the connection's lock it is marked closed and its
\* calls and channels are taken over.  Each channel's terminal is told: its
\* onControl only queues the exit, so that it does so after the lock is released
\* is the same to the terminal.
ReadFails(c) ==
    /\ handler[c] = "serving"
    /\ sock[c] \in {"broken", "closed"}
    /\ handler' = [handler EXCEPT ![c] = "closing"]
    /\ failing' = [failing EXCEPT ![c] = pending[c]]
    /\ pending' = [pending EXCEPT ![c] = {}]
    /\ term' = [t \in Terminals |-> IF t \in channels[c]
                                    THEN [term[t] EXCEPT !.exit = TRUE] ELSE term[t]]
    /\ channels' = [channels EXCEPT ![c] = {}]
    /\ UNCHANGED <<registry, sock, displaced, nextId, asked, req>>

\* Their reply channels are closed; a result already there stays there, and a
\* call that has returned meanwhile no longer looks.
FailCalls(c) ==
    /\ handler[c] = "closing"
    /\ req' = [r \in Requests |-> IF /\ r \in failing[c] /\ req[r].conn = c
                                     /\ req[r].answer = NoAnswer
                                     /\ req[r].pc \in {"listed", "waiting"}
                                  THEN [req[r] EXCEPT !.answer = Closed] ELSE req[r]]
    /\ failing' = [failing EXCEPT ![c] = {}]
    /\ handler' = [handler EXCEPT ![c] = "closed"]
    /\ UNCHANGED <<registry, sock, displaced, nextId, pending, asked, termVars>>

\* registry.remove: only the registered connection is taken out.
Remove(c) ==
    /\ handler[c] = "closed"
    /\ registry' = [registry EXCEPT ![ConnectorOf[c]] = IF @ = c THEN None ELSE @]
    /\ handler' = [handler EXCEPT ![c] = "gone"]
    /\ UNCHANGED <<sock, displaced, callVars, termVars>>

-----------------------------------------------------------------------------
(* agentConn.request.                                                      *)

\* Bound: there is an id left for every call that holds connection c.
IdsLeft(c) ==
    nextId[c] + Cardinality({r \in Requests : req[r].pc = "held" /\ req[r].conn = c})
        < MaxId

\* registry.get; a connector that is not there is an error at once.
Fetch(r, k) ==
    /\ req[r].pc = "idle"
    /\ registry[k] # None /\ IdsLeft(registry[k])
    /\ req' = [req EXCEPT ![r] = [NoCall EXCEPT !.pc = "held", !.conn = registry[k]]]
    /\ UNCHANGED <<connVars, nextId, pending, failing, asked, termVars>>

\* nextId.Add(1).
FreshId(c) == nextId[c] + 1

\* Mint an id and, under the connection's lock, list the call unless the
\* connection has been closed.
List(r) ==
    LET c == req[r].conn
    IN  /\ req[r].pc = "held"
        /\ nextId' = [nextId EXCEPT ![c] = @ + 1]
        /\ IF TornDown(c)
           THEN req' = [req EXCEPT ![r] = NoCall] /\ UNCHANGED pending
           ELSE /\ pending' = [pending EXCEPT ![c] = @ \cup {r}]
                /\ req' = [req EXCEPT ![r].pc = "listed", ![r].id = FreshId(c)]
        /\ UNCHANGED <<connVars, failing, asked, termVars>>

\* The write: a broken socket may take it all the same.
Send(r) ==
    LET c == req[r].conn
    IN  /\ req[r].pc = "listed"
        /\ sock[c] # "closed"
        /\ req' = [req EXCEPT ![r].pc = "waiting"]
        /\ asked' = IF sock[c] = "up" THEN [asked EXCEPT ![c] = @ \cup {req[r].id}]
                                      ELSE asked
        /\ UNCHANGED <<connVars, nextId, pending, failing, termVars>>

\* The deferred delete, and the return to the caller.
Return(r) == /\ req' = [req EXCEPT ![r] = NoCall]
             /\ pending' = [pending EXCEPT ![req[r].conn] = @ \ {r}]
             /\ UNCHANGED <<connVars, nextId, failing, asked, termVars>>

SendFails(r) == /\ req[r].pc = "listed"
                /\ sock[req[r].conn] # "up"
                /\ Return(r)

\* The reply channel has a result or is closed.
Receive(r) == /\ req[r].pc = "waiting"
              /\ req[r].answer # NoAnswer
              /\ Return(r)

\* The context ends.
Expired(r) == req[r].pc = "waiting"
Timeout(r) == Expired(r) /\ Return(r)

\* handleAgentMsg: the read loop hands a result to the call listed under its
\* id; a call that has returned is no longer listed.  The connector answers on
\* the socket it has (Agent.send), which need not be the one, d, that asked.
Deliver(c, d, i) ==
    /\ handler[c] = "serving" /\ sock[c] = "up"
    /\ ConnectorOf[d] = ConnectorOf[c] /\ i \in asked[d]
    /\ asked' = [asked EXCEPT ![d] = @ \ {i}]
    /\ req' = [r \in Requests |->
                 IF r \in pending[c] /\ req[r].id = i /\ req[r].answer = NoAnswer
                 THEN [req[r] EXCEPT !.answer = IF d = c THEN i ELSE Stray]
                 ELSE req[r]]
    /\ UNCHANGED <<connVars, nextId, pending, failing, termVars>>

-----------------------------------------------------------------------------
(* handleTermWS.                                                           *)

\* registry.get, and then the browser's upgrade, which takes a round trip.
TermFetch(t, k) ==
    /\ term[t].pc = "idle"
    /\ registry[k] # None
    /\ term' = [term EXCEPT ![t] = [NoTerm EXCEPT !.pc = "held", !.conn = registry[k]]]
    /\ UNCHANGED <<connVars, callVars, channels>>

\* The deferred closeChannel, and the end of the bridge.
TermLeave(t) == /\ term' = [term EXCEPT ![t] = NoTerm]
                /\ channels' = [channels EXCEPT ![term[t].conn] = @ \ {t}]
                /\ UNCHANGED <<connVars, callVars>>

\* openChannel, which does not ask whether the connection has been closed, and
\* the term-open message; from now on the terminal waits for its exit.
TermOpen(t) ==
    /\ term[t].pc = "held"
    /\ sock[term[t].conn] # "closed"
    /\ term' = [term EXCEPT ![t].pc = "bridged"]
    /\ channels' = [channels EXCEPT ![term[t].conn] = @ \cup {t}]
    /\ UNCHANGED <<connVars, callVars>>

\* The message cannot be written: the browser is told so.
TermOpenFails(t) == /\ term[t].pc = "held"
                    /\ sock[term[t].conn] # "up"
                    /\ TermLeave(t)

\* The connector's session ends: its term-exit reaches the channel.
SessionExits(t) ==
    LET c == term[t].conn
    IN  /\ term[t].pc = "bridged" /\ t \in channels[c]
        /\ handler[c] = "serving" /\ sock[c] = "up"
        /\ term' = [term EXCEPT ![t].exit = TRUE]
        /\ UNCHANGED <<connVars, callVars, channels>>

TermExits(t)  == term[t].pc = "bridged" /\ term[t].exit /\ TermLeave(t)
BrowserGone(t) == term[t].pc # "idle" /\ TermLeave(t)

-----------------------------------------------------------------------------

Serve(c)   == CloseDisplaced(c) \/ FailCalls(c) \/ Remove(c)
Proceed(r) == List(r) \/ Send(r) \/ SendFails(r) \/ Receive(r) \/ Timeout(r)

Next == \/ \E c \in Conns : \/ Accept(c) \/ Break(c) \/ ReadFails(c) \/ Serve(c)
                            \/ \E d \in Conns, i \in 1..MaxId : Deliver(c, d, i)
        \/ \E r \in Requests : Proceed(r) \/ \E k \in Connectors : Fetch(r, k)
        \/ \E t \in Terminals : \/ \E k \in Connectors : TermFetch(t, k)
                                \/ TermOpen(t) \/ TermOpenFails(t)
                                \/ SessionExits(t) \/ TermExits(t) \/ BrowserGone(t)

Spec == Init /\ [][Next]_vars

\* Goroutines that can run do, a call's timer fires, and reading from a socket
\* this process has closed fails.  Nobody else's socket need ever be found out.
FairSpec == /\ Spec
            /\ \A r \in Requests : WF_vars(Proceed(r))
            /\ \A c \in Conns : WF_vars(Serve(c))
            /\ \A c \in Conns : WF_vars(sock[c] = "closed" /\ ReadFails(c))

-----------------------------------------------------------------------------
(* Properties.                                                             *)

\* However reconnects and teardowns interleave, a connection that still serves
\* is the one registry.get returns, or has been closed (or is about to be) by
\* the one that replaced it; and no torn-down connection stays registered.  A
\* late remove of the old connection never evicts the new one.
RegistryHoldsTheServing ==
    \A c \in Conns :
        /\ handler[c] \in {"swapped", "serving"} =>
              \/ registry[ConnectorOf[c]] = c
              \/ sock[c] = "closed"
              \/ \E d \in Conns : displaced[d] = c
        /\ registry[ConnectorOf[c]] = c => handler[c] # "gone"

\* No call is forgotten between request's look at closed and the teardown's
\* take-over: one that still waits is listed on a connection somebody reads, or
\* is about to be failed.
CallsAreNotStranded ==
    \A r \in Requests :
        LET c == req[r].conn
        IN  req[r].pc \in {"listed", "waiting"} /\ req[r].answer = NoAnswer =>
              \/ r \in pending[c] /\ handler[c] \in {"swapped", "serving"}
              \/ r \in failing[c] /\ handler[c] = "closing"

\* Of the calls of one socket a caller is handed the result of its own, never
\* another caller's, nor that of an earlier one which timed out: no id goes out
\* again on a socket while the connector may still answer it.  (The result of a
\* call of an earlier socket may be Stray: ids begin anew on every socket.)
ResultsMatchCalls ==
    \A r \in Requests :
        /\ req[r].pc = "listed" => req[r].id \notin asked[req[r].conn]
        /\ req[r].answer > NoAnswer =>
            /\ req[r].answer = req[r].id
            /\ \A s \in Requests \ {r} :
                  req[s].conn = req[r].conn /\ req[s].pc \in {"listed", "waiting"}
                  => req[s].id # req[r].id

\* Every call returns, also when the connector has fallen silent on a socket
\* that never reports an error.
EveryCallReturns == \A r \in Requests : req[r].pc # "idle" ~> req[r].pc = "idle"

\* A replaced connection is torn down to the end: it does not linger with calls
\* and terminals on it.
ReplacedConnectionsGo ==
    \A c \in Conns : (\E d \in Conns : displaced[d] = c) ~> handler[c] = "gone"

-----------------------------------------------------------------------------
(* What hub/ws.go says, and the hub does not do.                           *)

\* A browser terminal "receives raw binary output and a final JSON
\* {type: exit}": one whose connection has been torn down has been told.
TerminalsHearTheEnd ==
    \A t \in Terminals : term[t].pc = "bridged" /\ handler[term[t].conn] = "gone"
                         => term[t].exit

=============================================================================
