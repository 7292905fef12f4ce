------------------------- MODULE ConnectorStreams -------------------------
(***************************************************************************)
(* The terminals of a connector (internal/agent: agent.go, terminal.go,    *)
(* sessions.go): the table that says which PTY a channel of the socket     *)
(* belongs to, the goroutine that pumps each PTY, and, on a machine        *)
(* without tmux, the sessions that live as long as their process.          *)
(*                                                                         *)
(* One goroutine dials, reads the socket and handles the terminal messages *)
(* in their order; when the socket is lost it tears down and dials again.  *)
(* Pumps and session requests are goroutines of their own and outlive the  *)
(* socket.  The other side numbers the channels of every socket from 1, so *)
(* a stream is a socket and a channel.                                     *)
(***************************************************************************)
EXTENDS Naturals

CONSTANTS Names,        \* names of sessions
          MaxSockets,   \* bound of the sockets dialled
          MaxChannels,  \* bound of the channels opened on one socket
          None          \* no such session

VARIABLES tmux,         \* is tmux on this machine? (it is looked for each time)
          sock,         \* how many sockets have been dialled; the last is it
          linked,       \* Agent.conn is set
          opened,       \* the channels opened on this socket
          terms,        \* Agent.terms: by channel, the socket of its stream
          stream,       \* how each termStream and its pump fare
          sessions      \* ephByName: the stream attached, Detached or None

vars == <<tmux, sock, linked, opened, terms, stream, sessions>>

Sockets  == 1..MaxSockets
Channels == 1..MaxChannels
Streams  == Sockets \X Channels
NoSocket == 0
Detached == <<NoSocket, 0>>

Bounds == MaxSockets \in Nat /\ MaxChannels \in Nat

\* starting: the session is reserved, the PTY is not there yet; closed: the PTY
\* is closed, the pump has not noticed; ending: the pump has left its loop;
\* reaped: the process is waited for and the channel is out of the table.
Stages == {"none", "starting", "open", "closed", "ending", "reaped", "gone"}

TypeOK == /\ tmux \in BOOLEAN /\ linked \in BOOLEAN
          /\ sock \in 0..MaxSockets /\ opened \in 0..MaxChannels
          /\ terms \in [Channels -> Sockets \cup {NoSocket}]
          /\ stream \in [Streams -> [stage : Stages, session : Names \cup {None}]]
          /\ sessions \in [Names -> Streams \cup {Detached, None}]

NoTerms == [c \in Channels |-> NoSocket]

Init == /\ tmux \in BOOLEAN
        /\ sock = 0 /\ linked = FALSE /\ opened = 0
        /\ terms = NoTerms
        /\ stream = [s \in Streams |-> [stage |-> "none", session |-> None]]
        /\ sessions = [n \in Names |-> None]

\* termStream.close, once; the pump has yet to notice.
Closing(S) == [s \in Streams |-> IF s \in S /\ stream[s].stage = "open"
                                 THEN [stream[s] EXCEPT !.stage = "closed"]
                                 ELSE stream[s]]

-----------------------------------------------------------------------------
(* Slips: wrong edits of definitions below, to confirm that the properties *)
(* notice.  No action uses them.                                           *)

\* teardown closes the streams and leaves them in the table.
teardownKeeps ==
    /\ linked
    /\ \A s \in Streams : stream[s].stage # "starting"
    /\ linked' = FALSE
    /\ stream' = Closing({s \in Streams : terms[s[2]] = s[1]})
    /\ UNCHANGED <<tmux, sock, opened, terms, sessions>>

\* A pump that cannot send returns, and cleans nothing up.
PumpReturns(s) ==
    /\ \/ stream[s].stage = "closed"
       \/ stream[s].stage = "open" /\ ~linked
    /\ stream' = [stream EXCEPT ![s].stage = "gone"]
    /\ UNCHANGED <<tmux, sock, linked, opened, terms, sessions>>

-----------------------------------------------------------------------------
(* The goroutine of the socket.                                            *)

\* It is in the middle of attachEphemeral: it reads no message meanwhile.
Busy == \E s \in Streams : stream[s].stage = "starting"

\* runOnce up to the read loop.
Dial == /\ ~linked /\ sock < MaxSockets
        /\ linked' = TRUE /\ sock' = sock + 1 /\ opened' = 0
        /\ UNCHANGED <<tmux, terms, stream, sessions>>

\* ReadMessage fails: both tables are replaced and what was in them is closed.
teardown ==
    /\ linked /\ ~Busy
    /\ linked' = FALSE
    /\ stream' = Closing({s \in Streams : terms[s[2]] = s[1]})
    /\ terms' = NoTerms
    /\ UNCHANGED <<tmux, sock, opened, sessions>>

\* term.open on the next channel.  With tmux a PTY is attached to the tmux
\* session; without it the ephemeral session is created if it is not there, and
\* reserved, or the open is refused because the session is attached already.
termOpen(n) ==
    LET c == opened + 1
        s == <<sock, c>>
    IN  /\ linked /\ ~Busy /\ opened < MaxChannels
        /\ opened' = c
        /\ \/ /\ tmux /\ terms[c] = NoSocket
              /\ terms' = [terms EXCEPT ![c] = sock]
              /\ stream' = [stream EXCEPT ![s] = [stage |-> "open", session |-> None]]
              /\ UNCHANGED sessions
           \/ /\ ~tmux /\ sessions[n] \in {None, Detached}
              /\ sessions' = [sessions EXCEPT ![n] = s]
              /\ stream' = [stream EXCEPT ![s] = [stage |-> "starting", session |-> n]]
              /\ UNCHANGED terms
           \/ UNCHANGED <<terms, stream, sessions>>
        /\ UNCHANGED <<tmux, sock, linked>>

\* The rest of attachEphemeral, whatever has become of the session meanwhile:
\* the PTY is listed under its channel ...
Started(s) == /\ stream[s].stage = "starting"
              /\ stream' = [stream EXCEPT ![s].stage = "open"]
              /\ terms' = [terms EXCEPT ![s[2]] = s[1]]
              /\ UNCHANGED <<tmux, sock, linked, opened, sessions>>

\* ... or it could not be started, and the session is free again.
StartFails(s) ==
    /\ stream[s].stage = "starting"
    /\ stream' = [stream EXCEPT ![s].stage = "gone"]
    /\ sessions' = [n \in Names |-> IF sessions[n] = s THEN Detached ELSE sessions[n]]
    /\ UNCHANGED <<tmux, sock, linked, opened, terms>>

\* term.close.
termClose(c) == /\ linked /\ ~Busy /\ terms[c] # NoSocket
                /\ stream' = Closing({<<terms[c], c>>})
                /\ terms' = [terms EXCEPT ![c] = NoSocket]
                /\ UNCHANGED <<tmux, sock, linked, opened, sessions>>

-----------------------------------------------------------------------------
(* Session requests, of this socket or of an earlier one.                  *)

createEphemeral(n) == /\ ~tmux /\ sock > 0 /\ sessions[n] = None
                      /\ sessions' = [sessions EXCEPT ![n] = Detached]
                      /\ UNCHANGED <<tmux, sock, linked, opened, terms, stream>>

\* The session is forgotten, and its PTY closed if it has one by now.
killEphemeral(n) == /\ sessions[n] # None
                    /\ stream' = Closing({sessions[n]})
                    /\ sessions' = [sessions EXCEPT ![n] = None]
                    /\ UNCHANGED <<tmux, sock, linked, opened, terms>>

-----------------------------------------------------------------------------
(* pumpTerm.                                                               *)

\* The process exits and closes its side of the PTY, or its output cannot be
\* written to the socket.
ProcessExits(s) == /\ stream[s].stage = "open"
                   /\ stream' = [stream EXCEPT ![s].stage = "ending"]
                   /\ UNCHANGED <<tmux, sock, linked, opened, terms, sessions>>

\* Reading the closed PTY fails, or there is output and no socket to send it on.
PumpEnds(s) == /\ \/ stream[s].stage = "closed"
                  \/ stream[s].stage = "open" /\ ~linked
               /\ stream' = [stream EXCEPT ![s].stage = "ending"]
               /\ UNCHANGED <<tmux, sock, linked, opened, terms, sessions>>

\* KillWait and close; then the channel is taken out of the table, whoever has
\* it there by now: a pump this late leaves a process of the next socket that
\* no message reaches.
Reap(s) == /\ stream[s].stage = "ending"
           /\ stream' = [stream EXCEPT ![s].stage = "reaped"]
           /\ terms' = [terms EXCEPT ![s[2]] = NoSocket]
           /\ UNCHANGED <<tmux, sock, linked, opened, sessions>>

\* term.exit, on the socket there is, and the end of the session, unless another
\* has its name by now.
Exit(s) == /\ stream[s].stage = "reaped"
           /\ stream' = [stream EXCEPT ![s].stage = "gone"]
           /\ sessions' = [n \in Names |-> IF sessions[n] = s THEN None ELSE sessions[n]]
           /\ UNCHANGED <<tmux, sock, linked, opened, terms>>

Next == \/ Dial \/ teardown
        \/ \E n \in Names : termOpen(n) \/ createEphemeral(n) \/ killEphemeral(n)
        \/ \E c \in Channels : termClose(c)
        \/ \E s \in Streams : \/ Started(s) \/ StartFails(s) \/ ProcessExits(s)
                              \/ PumpEnds(s) \/ Reap(s) \/ Exit(s)

Spec == Init /\ [][Next]_vars

\* Pumps that can go on do: each has three steps to make, so that to be fair to
\* all of them together is to be fair to each.
Pump == \E s \in Streams : PumpEnds(s) \/ Reap(s) \/ Exit(s)
FairSpec == Spec /\ WF_vars(Pump)

-----------------------------------------------------------------------------
(* Properties.                                                             *)

\* What is typed into a browser's terminal reaches the process opened for it,
\* never the one that had the channel's number on an earlier socket, however
\* late the pumps of that socket end (handleBinary, termResize, termClose).
InputReachesItsTerminal ==
    \A c \in Channels : terms[c] # NoSocket =>
        /\ linked /\ terms[c] = sock /\ c <= opened
        /\ stream[<<sock, c>>].stage \notin {"none", "starting", "gone"}

\* A session whose PTY is closed holds its name.
Held(n) == \E s \in Streams : /\ sessions[n] = s
                              /\ stream[s].stage \notin {"starting", "open"}

\* "ephemeral fallback (no tmux): sessions exist only while attached": once its
\* PTY is closed (its channel, its socket or its process is gone) a session
\* leaves the list, so that its name can be used again.
DetachedSessionsGo == \A n \in Names : Held(n) ~> ~Held(n)

=============================================================================
