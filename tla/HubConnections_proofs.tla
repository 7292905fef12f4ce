----------------------- MODULE HubConnections_proofs ------------------------
(***************************************************************************)
(* For any number of connectors, sockets, calls and terminals: the         *)
(* registry holds the connections that serve, no call is stranded by a     *)
(* teardown, and a result reaches the call it answers.                     *)
(***************************************************************************)
EXTENDS HubConnections, FiniteSetTheorems, TLAPS

-----------------------------------------------------------------------------
(* The inductive invariant.                                                *)

Holding(c)  == {r \in Requests : req[r].pc = "held" /\ req[r].conn = c}
InFlight(r) == req[r].pc \in {"listed", "waiting"}

\* The bound on ids leaves one for every call that has yet to mint its own.
IdsSuffice == \A c \in Conns : nextId[c] + Cardinality(Holding(c)) <= MaxId

\* A call under way is on a connection that was accepted, under an id minted
\* there; a connection lists only its own calls.
CallsKnown ==
    /\ \A r \in Requests :
          /\ req[r].pc # "idle" =>
                req[r].conn \in Conns /\ handler[req[r].conn] # "unused"
          /\ InFlight(r) => req[r].id \in 1..nextId[req[r].conn]
          /\ req[r].answer # NoAnswer => InFlight(r)
    /\ \A c \in Conns : \A r \in pending[c] : req[r].conn = c /\ InFlight(r)

\* What is registered was accepted for its connector, and a connection not yet
\* accepted has none to close.
RegistryKnown ==
    /\ \A k \in Connectors : registry[k] # None =>
          ConnectorOf[registry[k]] = k /\ handler[registry[k]] # "unused"
    /\ \A c \in Conns : handler[c] = "unused" => displaced[c] = None

\* An id that may still be answered was minted, and nobody else has it.
IdsAreFresh ==
    /\ \A c \in Conns : asked[c] \subseteq 1..nextId[c]
    /\ \A r, s \in Requests :
          r # s /\ InFlight(r) /\ InFlight(s) /\ req[r].conn = req[s].conn
          => req[r].id # req[s].id
    /\ \A r \in Requests : req[r].pc = "listed" => req[r].id \notin asked[req[r].conn]
    /\ \A r \in Requests : req[r].answer > NoAnswer => req[r].answer = req[r].id

Registry == RegistryKnown /\ RegistryHoldsTheServing
Calls    == CallsKnown /\ IdsSuffice /\ IdsAreFresh /\ CallsAreNotStranded

IInv == TypeOK /\ Registry /\ Calls

-----------------------------------------------------------------------------
LEMMA Initially == Init => IInv
<1> SUFFICES ASSUME Init PROVE IInv
  OBVIOUS
<1>1. TypeOK
  BY Ids DEF Init, TypeOK, Stages, Call, Terminal, NoCall, NoTerm, Answers, NoAnswer
<1>2. Registry
  BY NotAConn, Tokens DEF Init, Registry, RegistryKnown, RegistryHoldsTheServing
<1>3. \A c \in Conns : Holding(c) = {}
  BY DEF Init, NoCall, Holding
<1>4. IdsSuffice
  <2>1. \A c \in Conns : nextId[c] = 0 /\ Cardinality(Holding(c)) = 0
    BY <1>3, FS_EmptySet DEF Init
  <2> QED
    BY <2>1, Ids DEF IdsSuffice
<1>5. CallsKnown /\ CallsAreNotStranded
  BY DEF Init, CallsKnown, CallsAreNotStranded, InFlight, NoCall
<1>6. IdsAreFresh
  BY DEF Init, IdsAreFresh, InFlight, NoCall, NoAnswer
<1> QED
  BY <1>1, <1>2, <1>4, <1>5, <1>6 DEF IInv, Calls

-----------------------------------------------------------------------------
(* Ids.                                                                    *)

LEMMA HoldingIsFinite ==
    ASSUME NEW c PROVE IsFiniteSet(Holding(c)) /\ Cardinality(Holding(c)) \in Nat
<1>1. Holding(c) \in SUBSET Requests
  BY DEF Holding
<1> QED
  BY <1>1, FewRequests, FS_Subset, FS_CardinalityType

\* The calls that hold a connection are the same, or one fewer.
LEMMA HoldingShrinks ==
    ASSUME IdsSuffice, NEW c \in Conns, Holding(c)' \subseteq Holding(c),
           nextId[c] \in Nat, nextId'[c] = nextId[c]
    PROVE  nextId'[c] + Cardinality(Holding(c)') <= MaxId
<1>1. Holding(c)' \in SUBSET Holding(c)
  OBVIOUS
<1>2. Cardinality(Holding(c)') <= Cardinality(Holding(c)) /\ IsFiniteSet(Holding(c)')
  BY <1>1, HoldingIsFinite, FS_Subset
<1>3. Cardinality(Holding(c)') \in Nat /\ Cardinality(Holding(c)) \in Nat
  BY <1>2, HoldingIsFinite, FS_CardinalityType
<1> QED
  BY <1>2, <1>3, Ids DEF IdsSuffice

-----------------------------------------------------------------------------
(* Frames: what a step that leaves something alone keeps.                  *)

LEMMA RegistryStays ==
    ASSUME Registry, UNCHANGED connVars PROVE Registry'
BY DEF Registry, RegistryKnown, RegistryHoldsTheServing, connVars

\* A connection once accepted stays so, and calls are left alone.
LEMMA CallsStay ==
    ASSUME TypeOK, CallsKnown, IdsSuffice, IdsAreFresh, UNCHANGED <<nextId, asked, req>>,
           \A c \in Conns : handler[c] # "unused" => handler'[c] # "unused",
           \A c \in Conns : pending'[c] \subseteq pending[c]
    PROVE  CallsKnown' /\ IdsSuffice' /\ IdsAreFresh'
<1>1. CallsKnown'
  BY DEF CallsKnown, InFlight
<1>2. IdsSuffice'
  BY DEF IdsSuffice, Holding
<1>3. IdsAreFresh'
  BY DEF IdsAreFresh, InFlight
<1> QED
  BY <1>1, <1>2, <1>3

\* No call is stranded by a step that leaves calls alone and takes no connection
\* from serving or from closing.
LEMMA NoneStranded ==
    ASSUME CallsAreNotStranded, UNCHANGED <<pending, failing, req>>,
           \A c \in Conns : handler[c] \in {"swapped", "serving"} =>
                            handler'[c] \in {"swapped", "serving"},
           \A c \in Conns : handler[c] = "closing" => handler'[c] = "closing",
           CallsKnown
    PROVE  CallsAreNotStranded'
BY DEF CallsAreNotStranded, CallsKnown

-----------------------------------------------------------------------------
(* The goroutine that serves a socket.                                     *)

LEMMA AcceptKeeps == ASSUME IInv, NEW c \in Conns, Accept(c) PROVE IInv'
<1> DEFINE k == ConnectorOf[c]
<1>0. k \in Connectors
  BY Tokens
<1>1. TypeOK'
  BY <1>0 DEF IInv, TypeOK, Accept, callVars, termVars, Stages
<1>2. RegistryKnown'
  BY <1>0, NotAConn DEF IInv, TypeOK, Registry, RegistryKnown, Accept
<1>3. RegistryHoldsTheServing'
  <2> SUFFICES ASSUME NEW d \in Conns
               PROVE /\ handler'[d] \in {"swapped", "serving"} =>
                          \/ registry'[ConnectorOf[d]] = d \/ sock'[d] = "closed"
                          \/ \E e \in Conns : displaced'[e] = d
                     /\ registry'[ConnectorOf[d]] = d => handler'[d] # "gone"
    BY DEF RegistryHoldsTheServing
  <2>1. CASE d = c
    BY <2>1, <1>0 DEF IInv, TypeOK, Accept
  <2>2. CASE d # c
    <3>1. handler'[d] = handler[d] /\ sock'[d] = sock[d]
      BY <2>2 DEF IInv, TypeOK, Accept
    <3>2. registry'[ConnectorOf[d]] = d => registry[ConnectorOf[d]] = d
      BY <2>2, <1>0, Tokens DEF IInv, TypeOK, Accept
    <3>3. registry[ConnectorOf[d]] = d =>
            registry'[ConnectorOf[d]] = d \/ displaced'[c] = d
      BY <2>2, <1>0, Tokens DEF IInv, TypeOK, Accept
    <3>4. \A e \in Conns : displaced[e] = d => displaced'[e] = d
      BY NotAConn DEF IInv, TypeOK, Registry, RegistryKnown, Accept
    <3> QED
      BY <3>1, <3>2, <3>3, <3>4 DEF IInv, Registry, RegistryHoldsTheServing
  <2> QED
    BY <2>1, <2>2
<1>4. CallsKnown' /\ IdsSuffice' /\ IdsAreFresh'
  BY CallsStay DEF IInv, TypeOK, Calls, Accept, callVars
<1>5. CallsAreNotStranded'
  BY NoneStranded DEF IInv, TypeOK, Calls, Accept, callVars
<1> QED
  BY <1>1, <1>2, <1>3, <1>4, <1>5 DEF IInv, Registry, Calls

LEMMA CloseDisplacedKeeps == ASSUME IInv, NEW c \in Conns, CloseDisplaced(c) PROVE IInv'
<1>1. TypeOK'
  BY DEF IInv, TypeOK, CloseDisplaced, callVars, termVars, Stages
<1>2. RegistryKnown'
  BY DEF IInv, TypeOK, Registry, RegistryKnown, CloseDisplaced
<1>3. RegistryHoldsTheServing'
  <2> SUFFICES ASSUME NEW d \in Conns
               PROVE /\ handler'[d] \in {"swapped", "serving"} =>
                          \/ registry'[ConnectorOf[d]] = d \/ sock'[d] = "closed"
                          \/ \E e \in Conns : displaced'[e] = d
                     /\ registry'[ConnectorOf[d]] = d => handler'[d] # "gone"
    BY DEF RegistryHoldsTheServing
  <2>1. handler'[d] \in {"swapped", "serving"} => handler[d] \in {"swapped", "serving"}
    BY DEF IInv, TypeOK, CloseDisplaced
  <2>2. sock[d] = "closed" => sock'[d] = "closed"
    BY DEF CloseDisplaced
  <2>3. ASSUME NEW e \in Conns, displaced[e] = d
        PROVE sock'[d] = "closed" \/ displaced'[e] = d
    BY <2>3 DEF IInv, TypeOK, CloseDisplaced
  <2>4. handler'[d] = "gone" => handler[d] = "gone"
    BY DEF IInv, TypeOK, CloseDisplaced
  <2>5. registry' = registry
    BY DEF CloseDisplaced
  <2> QED
    BY <2>1, <2>2, <2>3, <2>4, <2>5 DEF IInv, Registry, RegistryHoldsTheServing
<1>4. CallsKnown' /\ IdsSuffice' /\ IdsAreFresh'
  BY CallsStay DEF IInv, TypeOK, Calls, CloseDisplaced, callVars
<1>5. CallsAreNotStranded'
  BY NoneStranded DEF IInv, TypeOK, Calls, CloseDisplaced, callVars
<1> QED
  BY <1>1, <1>2, <1>3, <1>4, <1>5 DEF IInv, Registry, Calls

LEMMA BreakKeeps == ASSUME IInv, NEW c \in Conns, Break(c) PROVE IInv'
<1>1. TypeOK'
  BY DEF IInv, TypeOK, Break, callVars, termVars
<1>2. Registry'
  BY DEF IInv, TypeOK, Registry, RegistryKnown, RegistryHoldsTheServing, Break
<1>3. CallsKnown' /\ IdsSuffice' /\ IdsAreFresh'
  BY CallsStay DEF IInv, TypeOK, Calls, Break, callVars
<1>4. CallsAreNotStranded'
  BY NoneStranded DEF IInv, TypeOK, Calls, Break, callVars
<1> QED
  BY <1>1, <1>2, <1>3, <1>4 DEF IInv, Calls

\* The calls listed become those to fail, so they stay accounted for.
LEMMA ReadFailsKeeps == ASSUME IInv, NEW c \in Conns, ReadFails(c) PROVE IInv'
<1>1. TypeOK'
  BY DEF IInv, TypeOK, ReadFails, Stages, Terminal
<1>2. Registry'
  BY DEF IInv, TypeOK, Registry, RegistryKnown, RegistryHoldsTheServing, ReadFails
<1>3. CallsKnown' /\ IdsSuffice' /\ IdsAreFresh'
  BY CallsStay DEF IInv, TypeOK, Calls, ReadFails
<1>4. CallsAreNotStranded'
  BY DEF IInv, TypeOK, Calls, CallsKnown, CallsAreNotStranded, ReadFails
<1> QED
  BY <1>1, <1>2, <1>3, <1>4 DEF IInv, Calls

LEMMA FailCallsKeeps == ASSUME IInv, NEW c \in Conns, FailCalls(c) PROVE IInv'
<1>1. \A r \in Requests :
         /\ req'[r].pc = req[r].pc /\ req'[r].conn = req[r].conn /\ req'[r].id = req[r].id
         /\ \/ req'[r].answer = req[r].answer
            \/ (req'[r].answer = Closed /\ InFlight(r) /\ req[r].answer = NoAnswer)
         /\ req'[r] \in Call
  <2> SUFFICES ASSUME NEW r \in Requests
               PROVE  /\ req'[r].pc = req[r].pc /\ req'[r].conn = req[r].conn
                      /\ req'[r].id = req[r].id
                      /\ \/ req'[r].answer = req[r].answer
                         \/ (req'[r].answer = Closed /\ InFlight(r) /\ req[r].answer = NoAnswer)
                      /\ req'[r] \in Call
    OBVIOUS
  <2>1. req[r] \in Call
    BY DEF IInv, TypeOK
  <2>2. \/ req'[r] = req[r]
        \/ (req'[r] = [req[r] EXCEPT !.answer = Closed] /\ InFlight(r) /\ req[r].answer = NoAnswer)
    BY DEF FailCalls, InFlight
  <2> QED
    BY <2>1, <2>2 DEF Call, Answers
<1>2. TypeOK'
  BY <1>1 DEF IInv, TypeOK, FailCalls, Stages, termVars
<1>3. Registry'
  BY DEF IInv, TypeOK, Registry, RegistryKnown, RegistryHoldsTheServing, FailCalls
<1>4. CallsKnown'
  BY <1>1 DEF IInv, TypeOK, Calls, CallsKnown, InFlight, FailCalls
<1>5. IdsSuffice'
  <2>1. \A d \in Conns : Holding(d)' = Holding(d)
    BY <1>1 DEF Holding
  <2> QED
    BY <2>1 DEF IInv, Calls, IdsSuffice, FailCalls
<1>6. IdsAreFresh'
  BY <1>1 DEF IInv, TypeOK, Calls, IdsAreFresh, InFlight, FailCalls, Closed, NoAnswer
<1>7. CallsAreNotStranded'
  <2> SUFFICES ASSUME NEW r \in Requests, req'[r].pc \in {"listed", "waiting"},
                      req'[r].answer = NoAnswer
               PROVE  LET d == req'[r].conn IN
                      \/ r \in pending'[d] /\ handler'[d] \in {"swapped", "serving"}
                      \/ r \in failing'[d] /\ handler'[d] = "closing"
    BY DEF CallsAreNotStranded
  <2>1. InFlight(r) /\ req[r].answer = NoAnswer /\ req[r].conn \in Conns
    BY <1>1 DEF InFlight, Closed, NoAnswer, IInv, Calls, CallsKnown
  <2>2. CASE req[r].conn = c /\ r \in failing[c]
    BY <2>1, <2>2 DEF FailCalls, InFlight, Closed, NoAnswer, IInv, TypeOK, Call
  <2>3. CASE ~(req[r].conn = c /\ r \in failing[c])
    BY <1>1, <2>1, <2>3 DEF FailCalls, InFlight, IInv, TypeOK, Calls, CallsAreNotStranded
  <2> QED
    BY <2>2, <2>3
<1> QED
  BY <1>2, <1>3, <1>4, <1>5, <1>6, <1>7 DEF IInv, Calls

\* Only the connection itself is taken out, and it is closed by then.
LEMMA RemoveKeeps == ASSUME IInv, NEW c \in Conns, Remove(c) PROVE IInv'
<1>0. ConnectorOf[c] \in Connectors
  BY Tokens
<1>1. TypeOK'
  BY <1>0 DEF IInv, TypeOK, Remove, callVars, termVars, Stages
<1>2. RegistryKnown'
  BY <1>0 DEF IInv, TypeOK, Registry, RegistryKnown, Remove
<1>3. RegistryHoldsTheServing'
  <2>1. \A d \in Conns : d # c => (registry'[ConnectorOf[d]] = d
                                    <=> registry[ConnectorOf[d]] = d)
    BY <1>0, Tokens, NotAConn DEF IInv, TypeOK, Remove
  <2>2. registry'[ConnectorOf[c]] # c
    BY <1>0, NotAConn DEF IInv, TypeOK, Remove
  <2>3. /\ handler'[c] = "gone" /\ UNCHANGED <<sock, displaced>>
        /\ \A d \in Conns : d # c => handler'[d] = handler[d]
    BY DEF IInv, TypeOK, Remove
  <2> QED
    BY <2>1, <2>2, <2>3 DEF IInv, Registry, RegistryHoldsTheServing
<1>4. CallsKnown' /\ IdsSuffice' /\ IdsAreFresh'
  BY CallsStay DEF IInv, TypeOK, Calls, Remove, callVars
<1>5. CallsAreNotStranded'
  BY NoneStranded DEF IInv, TypeOK, Calls, Remove, callVars
<1> QED
  BY <1>1, <1>2, <1>3, <1>4, <1>5 DEF IInv, Registry, Calls

-----------------------------------------------------------------------------
(* Calls.                                                                  *)

\* A step that moves one call: what has to be shown of the record it gets, for
\* the calls to stay known, their ids fresh, and none of them stranded.
OneMoves(r, q) == /\ q \in Call /\ req' = [req EXCEPT ![r] = q]
                  /\ UNCHANGED <<registry, sock, handler, displaced, failing>>

Flies(q) == q.pc \in {"listed", "waiting"}

LEMMA MoveKnown ==
    ASSUME IInv, NEW r \in Requests, NEW q, OneMoves(r, q),
           q.pc # "idle" => q.conn \in Conns /\ handler[q.conn] # "unused",
           Flies(q) => q.id \in 1..nextId'[q.conn],
           q.answer # NoAnswer => Flies(q),
           \A c \in Conns : nextId[c] \in Nat /\ nextId'[c] \in Nat /\ nextId[c] <= nextId'[c],
           \A c \in Conns : pending'[c] \subseteq pending[c] \cup {r},
           \A c \in Conns : r \in pending'[c] => q.conn = c /\ Flies(q)
    PROVE  CallsKnown'
<1>1. req'[r] = q /\ \A s \in Requests : s # r => req'[s] = req[s]
  BY DEF IInv, TypeOK, OneMoves
<1>2. \A s \in Requests : s # r => (InFlight(s)' <=> InFlight(s))
  BY <1>1 DEF InFlight
<1>3. InFlight(r)' <=> Flies(q)
  BY <1>1 DEF InFlight, Flies
<1>4. ASSUME NEW s \in Requests
      PROVE  /\ req'[s].pc # "idle" =>
                   req'[s].conn \in Conns /\ handler'[req'[s].conn] # "unused"
             /\ InFlight(s)' => req'[s].id \in 1..nextId'[req'[s].conn]
             /\ req'[s].answer # NoAnswer => InFlight(s)'
  <2>1. CASE s = r
    BY <2>1, <1>1, <1>3 DEF OneMoves
  <2>2. CASE s # r
    <3>1. InFlight(s) => req[s].conn \in Conns /\ req[s].id \in 1..nextId[req[s].conn]
      BY DEF IInv, Calls, CallsKnown, InFlight
    <3>2. InFlight(s)' => req'[s].id \in 1..nextId'[req'[s].conn]
      BY <2>2, <1>1, <1>2, <3>1
    <3> QED
      BY <2>2, <1>1, <1>2, <3>2 DEF OneMoves, IInv, Calls, CallsKnown
  <2> QED
    BY <2>1, <2>2
<1>5. ASSUME NEW c \in Conns, NEW s \in pending'[c], s \in Requests
      PROVE  req'[s].conn = c /\ InFlight(s)'
  BY <1>1, <1>2, <1>3, <1>5 DEF IInv, Calls, CallsKnown
<1>6. \A c \in Conns : pending'[c] \subseteq Requests
  BY DEF IInv, TypeOK
<1> QED
  BY <1>4, <1>5, <1>6 DEF CallsKnown

LEMMA MoveFresh ==
    ASSUME IInv, NEW r \in Requests, NEW q, OneMoves(r, q),
           \A c \in Conns : asked'[c] \subseteq 1..nextId'[c],
           \A s \in Requests : s # r /\ InFlight(s) /\ Flies(q) /\ req[s].conn = q.conn
                               => req[s].id # q.id,
           q.pc = "listed" => q.id \notin asked'[q.conn],
           \A s \in Requests : s # r /\ req[s].pc = "listed" /\ req[s].conn \in Conns
                               => req[s].id \notin asked'[req[s].conn],
           q.answer > NoAnswer => q.answer = q.id
    PROVE  IdsAreFresh'
<1>1. req'[r] = q /\ \A s \in Requests : s # r => req'[s] = req[s]
  BY DEF IInv, TypeOK, OneMoves
<1>2. \A s \in Requests : s # r => (InFlight(s)' <=> InFlight(s))
  BY <1>1 DEF InFlight
<1>3. InFlight(r)' <=> Flies(q)
  BY <1>1 DEF InFlight, Flies
<1>4. ASSUME NEW s \in Requests, NEW t \in Requests, s # t, InFlight(s)', InFlight(t)',
             req'[s].conn = req'[t].conn
      PROVE  req'[s].id # req'[t].id
  BY <1>1, <1>2, <1>3, <1>4 DEF IInv, Calls, IdsAreFresh
<1>5. ASSUME NEW s \in Requests, req'[s].pc = "listed"
      PROVE  req'[s].id \notin asked'[req'[s].conn]
  <2>1. s # r => req[s].conn \in Conns
    BY <1>1, <1>5 DEF IInv, Calls, CallsKnown
  <2> QED
    BY <1>1, <1>5, <2>1
<1>6. ASSUME NEW s \in Requests, req'[s].answer > NoAnswer
      PROVE  req'[s].answer = req'[s].id
  BY <1>1, <1>6 DEF IInv, Calls, IdsAreFresh
<1> QED
  BY <1>4, <1>5, <1>6 DEF IdsAreFresh

LEMMA MoveStrandsNone ==
    ASSUME IInv, NEW r \in Requests, NEW q, OneMoves(r, q),
           Flies(q) /\ q.answer = NoAnswer =>
              \/ r \in pending'[q.conn] /\ handler[q.conn] \in {"swapped", "serving"}
              \/ r \in failing[q.conn] /\ handler[q.conn] = "closing",
           \A c \in Conns : pending[c] \subseteq pending'[c] \cup {r}
    PROVE  CallsAreNotStranded'
<1>1. req'[r] = q /\ \A s \in Requests : s # r => req'[s] = req[s]
  BY DEF IInv, TypeOK, OneMoves
<1>2. ASSUME NEW s \in Requests, s # r, InFlight(s), req[s].answer = NoAnswer
      PROVE  \/ s \in pending'[req[s].conn] /\ handler[req[s].conn] \in {"swapped", "serving"}
             \/ s \in failing[req[s].conn] /\ handler[req[s].conn] = "closing"
  <2>1. req[s].conn \in Conns
    BY <1>2 DEF IInv, Calls, CallsKnown, InFlight
  <2> QED
    BY <1>2, <2>1 DEF IInv, Calls, CallsAreNotStranded, InFlight
<1> QED
  BY <1>1, <1>2 DEF CallsAreNotStranded, OneMoves, InFlight, Flies

\* A call that holds no connection after the step takes none from the bound.
LEMMA MoveSuffices ==
    ASSUME IInv, NEW r \in Requests, NEW q, OneMoves(r, q), q.pc # "held", nextId' = nextId
    PROVE  IdsSuffice'
<1> SUFFICES ASSUME NEW c \in Conns PROVE nextId'[c] + Cardinality(Holding(c)') <= MaxId
  BY DEF IdsSuffice
<1>1. req'[r] = q /\ \A s \in Requests : s # r => req'[s] = req[s]
  BY DEF IInv, TypeOK, OneMoves
<1>2. Holding(c)' \subseteq Holding(c)
  BY <1>1 DEF Holding
<1>3. nextId[c] \in Nat
  BY Ids DEF IInv, TypeOK
<1> QED
  BY <1>2, <1>3, HoldingShrinks DEF IInv, Calls

-----------------------------------------------------------------------------
LEMMA FetchKeeps ==
    ASSUME IInv, NEW r \in Requests, NEW k \in Connectors, Fetch(r, k) PROVE IInv'
<1> DEFINE c == registry[k]
           q == [NoCall EXCEPT !.pc = "held", !.conn = c]
<1>1. c \in Conns /\ req' = [req EXCEPT ![r] = q] /\ req[r].pc = "idle"
  BY DEF IInv, TypeOK, Fetch
<1>2. handler[c] # "unused"
  BY <1>1 DEF Fetch, IInv, Registry, RegistryKnown
<1>3. nextId[c] + Cardinality(Holding(c)) < MaxId
  BY DEF Fetch, IdsLeft, Holding
<1> HIDE DEF c
<1>4. NoCall \in Call /\ NoCall.answer = NoAnswer
  BY Ids DEF NoCall, Call, Answers
<1>5. q \in Call /\ q.pc = "held" /\ q.conn = c /\ q.answer = NoAnswer /\ ~Flies(q)
  BY <1>1, <1>4 DEF Call, Flies
<1> HIDE DEF q
<1>6. OneMoves(r, q) /\ UNCHANGED <<registry, sock, handler, displaced, nextId, pending, failing, asked, channels, term>>
  BY <1>1, <1>5 DEF OneMoves, Fetch, connVars, termVars
<1>7. TypeOK'
  BY <1>1, <1>5, <1>6 DEF IInv, TypeOK
<1>8. \A d \in Conns : /\ nextId[d] \in Nat /\ asked[d] \subseteq 1..nextId[d]
                       /\ r \notin pending[d]
  BY <1>1, Ids DEF IInv, TypeOK, Calls, IdsAreFresh, CallsKnown, InFlight
<1>9. CallsKnown'
  BY <1>1, <1>2, <1>5, <1>6, <1>8, MoveKnown
<1>10. IdsSuffice'
  <2> SUFFICES ASSUME NEW d \in Conns
               PROVE  nextId'[d] + Cardinality(Holding(d)') <= MaxId
    BY DEF IdsSuffice
  <2>1. req'[r] = q /\ \A s \in Requests : s # r => req'[s] = req[s]
    BY <1>1 DEF IInv, TypeOK
  <2>2. CASE d = c
    <3>1. Holding(d)' = Holding(d) \cup {r} /\ r \notin Holding(d)
      BY <1>1, <1>5, <2>1, <2>2 DEF Holding
    <3>2. Cardinality(Holding(d)') = Cardinality(Holding(d)) + 1
      BY <3>1, HoldingIsFinite, FS_AddElement
    <3> QED
      BY <1>3, <1>6, <1>8, <2>2, <3>2, HoldingIsFinite, Ids
  <2>3. CASE d # c
    <3>1. Holding(d)' \subseteq Holding(d)
      BY <1>5, <2>1, <2>3 DEF Holding
    <3> QED
      BY <1>6, <1>8, <3>1, HoldingShrinks DEF IInv, Calls
  <2> QED
    BY <2>2, <2>3
<1>11. IdsAreFresh'
  BY <1>5, <1>6, <1>8, MoveFresh DEF IInv, Calls, IdsAreFresh, NoAnswer
<1>12. CallsAreNotStranded'
  BY <1>5, <1>6, MoveStrandsNone
<1>13. Registry'
  BY <1>6, RegistryStays DEF IInv, connVars
<1> QED
  BY <1>7, <1>9, <1>10, <1>11, <1>12, <1>13 DEF IInv, Calls

\* The call that leaves its connection, by a return or because List refuses it.
LEMMA LeaveKeeps ==
    ASSUME IInv, NEW r \in Requests, req[r].pc # "idle", Return(r)
    PROVE  IInv'
<1> DEFINE c == req[r].conn
<1>1. c \in Conns
  BY DEF IInv, Calls, CallsKnown
<1>2. NoCall \in Call /\ NoCall.pc = "idle" /\ NoCall.answer = NoAnswer /\ ~Flies(NoCall)
  BY Ids DEF NoCall, Call, Answers, Flies
<1>3. /\ OneMoves(r, NoCall) /\ pending' = [pending EXCEPT ![c] = @ \ {r}]
      /\ UNCHANGED <<registry, sock, handler, displaced, nextId, failing, asked, channels, term>>
  BY <1>2 DEF OneMoves, Return, connVars, termVars
<1>4. TypeOK'
  BY <1>1, <1>2, <1>3 DEF IInv, TypeOK, OneMoves
<1>5. \A d \in Conns : /\ pending'[d] \subseteq pending[d] /\ r \notin pending'[d]
                       /\ pending[d] \subseteq pending'[d] \cup {r}
  BY <1>1, <1>3 DEF IInv, TypeOK, Calls, CallsKnown
<1> HIDE DEF c
<1>6. \A d \in Conns : nextId[d] \in Nat /\ asked[d] \subseteq 1..nextId[d]
  BY Ids DEF IInv, TypeOK, Calls, IdsAreFresh
<1>7. CallsKnown'
  BY <1>2, <1>3, <1>5, <1>6, MoveKnown
<1>8. IdsSuffice'
  BY <1>2, <1>3, MoveSuffices
<1>9. IdsAreFresh'
  BY <1>2, <1>3, <1>6, MoveFresh DEF IInv, Calls, IdsAreFresh, NoAnswer
<1>10. CallsAreNotStranded'
  BY <1>2, <1>3, <1>5, MoveStrandsNone
<1>11. Registry'
  BY <1>3, RegistryStays DEF IInv, connVars
<1> QED
  BY <1>4, <1>7, <1>8, <1>9, <1>10, <1>11 DEF IInv, Calls

LEMMA ListKeeps ==
    ASSUME IInv, NEW r \in Requests, List(r) PROVE IInv'
<1> DEFINE c == req[r].conn
           i == nextId[c] + 1
           q == IF TornDown(c) THEN NoCall ELSE [req[r] EXCEPT !.pc = "listed", !.id = i]
<1>1. /\ c \in Conns /\ req[r].pc = "held" /\ handler[c] # "unused"
      /\ req[r] \in Call /\ req[r].answer = NoAnswer
  BY DEF List, IInv, TypeOK, Calls, CallsKnown, InFlight
<1>2. \A d \in Conns : /\ nextId[d] \in Nat /\ asked[d] \subseteq 1..nextId[d]
                       /\ r \notin pending[d]
  BY <1>1, Ids DEF IInv, TypeOK, Calls, IdsAreFresh, CallsKnown, InFlight
<1>3. nextId' = [nextId EXCEPT ![c] = i]
  BY DEF List
<1>4. /\ \A d \in Conns : nextId'[d] = IF d = c THEN i ELSE nextId[d]
      /\ i \in Nat /\ nextId[c] < i /\ i \in 1..i
      /\ \A d \in Conns : nextId'[d] \in Nat /\ nextId[d] <= nextId'[d]
  BY <1>1, <1>2, <1>3 DEF IInv, TypeOK
<1>5. Holding(c) \ {r} \subseteq Holding(c) /\ r \in Holding(c) /\ IsFiniteSet(Holding(c))
  BY <1>1, HoldingIsFinite DEF Holding
<1>6. Cardinality(Holding(c) \ {r}) = Cardinality(Holding(c)) - 1
  BY <1>5, FS_RemoveElement
<1>7. Cardinality(Holding(c) \ {r}) \in Nat
  BY <1>5, FS_RemoveElement, FS_CardinalityType
<1>8. i + Cardinality(Holding(c) \ {r}) <= MaxId
  BY <1>1, <1>2, <1>6, <1>7, HoldingIsFinite, Ids DEF IInv, Calls, IdsSuffice
<1>9. i \in 1..MaxId
  BY <1>1, <1>2, <1>4, <1>7, <1>8, Ids
<1>10. /\ TornDown(c) => q = NoCall
       /\ ~TornDown(c) => q = [req[r] EXCEPT !.pc = "listed", !.id = i]
  OBVIOUS
<1>11. /\ req' = [req EXCEPT ![r] = q]
       /\ pending' = IF TornDown(c) THEN pending ELSE [pending EXCEPT ![c] = @ \cup {r}]
       /\ UNCHANGED <<registry, sock, handler, displaced, failing, asked, channels, term>>
  BY DEF List, FreshId, connVars, termVars
<1> HIDE DEF c, i, q
<1>12. NoCall \in Call /\ NoCall.pc = "idle" /\ NoCall.answer = NoAnswer
  BY Ids DEF NoCall, Call, Answers
<1>13. /\ q \in Call /\ q.answer = NoAnswer
       /\ TornDown(c) => q.pc = "idle"
       /\ ~TornDown(c) => q.pc = "listed" /\ q.id = i /\ q.conn = c
  <2>1. CASE TornDown(c)
    BY <1>10, <1>12, <2>1
  <2>2. CASE ~TornDown(c)
    <3>1. i \in 0..MaxId /\ q = [req[r] EXCEPT !.pc = "listed", !.id = i]
      BY <1>9, <1>10, <2>2, Ids
    <3> QED
      BY <1>1, <2>2, <3>1 DEF Call, c
  <2> QED
    BY <2>1, <2>2
<1>14. OneMoves(r, q) /\ q.pc # "held" /\ (Flies(q) <=> ~TornDown(c))
  BY <1>11, <1>13 DEF OneMoves, Flies
<1>15. \A d \in Conns : pending'[d] = IF d = c /\ ~TornDown(c) THEN pending[d] \cup {r}
                                      ELSE pending[d]
  BY <1>1, <1>11 DEF IInv, TypeOK
<1>16. TypeOK'
  BY <1>1, <1>3, <1>9, <1>11, <1>13, Ids DEF IInv, TypeOK
<1>17. CallsKnown'
  <2>1. Flies(q) => q.id \in 1..nextId'[q.conn]
    BY <1>1, <1>4, <1>13, <1>14
  <2>2. \A d \in Conns : r \in pending'[d] => q.conn = d /\ Flies(q)
    BY <1>2, <1>13, <1>14, <1>15
  <2> QED
    BY <1>1, <1>2, <1>4, <1>13, <1>14, <1>15, <2>1, <2>2, MoveKnown
<1>18. IdsSuffice'
  <2> SUFFICES ASSUME NEW d \in Conns
               PROVE  nextId'[d] + Cardinality(Holding(d)') <= MaxId
    BY DEF IdsSuffice
  <2>1. req'[r] = q /\ \A s \in Requests : s # r => req'[s] = req[s]
    BY <1>11 DEF IInv, TypeOK
  <2>2. CASE d = c
    <3>1. Holding(d)' = Holding(c) \ {r}
      BY <1>14, <2>1, <2>2 DEF Holding
    <3> QED
      BY <1>4, <1>8, <2>2, <3>1
  <2>3. CASE d # c
    <3>1. Holding(d)' \subseteq Holding(d)
      BY <1>14, <2>1, <2>3 DEF Holding
    <3> QED
      BY <1>2, <1>4, <2>3, <3>1, HoldingShrinks DEF IInv, Calls
  <2> QED
    BY <2>2, <2>3
<1>19. IdsAreFresh'
  <2>1. \A d \in Conns : asked'[d] \subseteq 1..nextId'[d]
    <3>1. UNCHANGED asked
      BY <1>11
    <3> QED
      BY <1>2, <1>4, <3>1
  <2>2. \A s \in Requests : InFlight(s) /\ req[s].conn = c => req[s].id \in 1..nextId[c]
    BY DEF IInv, Calls, CallsKnown
  <2>3. \A s \in Requests : InFlight(s) /\ req[s].conn = c => req[s].id # i
    BY <1>1, <1>2, <2>2 DEF i
  <2>4. i \notin asked'[c]
    BY <1>1, <1>2, <1>11 DEF i
  <2>5. \A s \in Requests : req[s].pc = "listed" => req[s].id \notin asked'[req[s].conn]
    BY <1>11 DEF IInv, Calls, IdsAreFresh
  <2>6. ~(q.answer > NoAnswer)
    BY <1>13 DEF NoAnswer
  <2> QED
    BY <1>13, <1>14, <2>1, <2>3, <2>4, <2>5, <2>6, MoveFresh
<1>20. CallsAreNotStranded'
  <2>1. ~TornDown(c) => handler[c] \in {"swapped", "serving"}
    BY <1>1 DEF IInv, TypeOK, Stages, TornDown
  <2> QED
    BY <1>1, <1>13, <1>14, <1>15, <2>1, MoveStrandsNone
<1>21. Registry'
  BY <1>11, RegistryStays DEF IInv, connVars
<1> QED
  BY <1>16, <1>17, <1>18, <1>19, <1>20, <1>21 DEF IInv, Calls

LEMMA SendKeeps ==
    ASSUME IInv, NEW r \in Requests, Send(r) PROVE IInv'
<1> DEFINE c == req[r].conn
           q == [req[r] EXCEPT !.pc = "waiting"]
<1>1. /\ c \in Conns /\ req[r].pc = "listed" /\ handler[c] # "unused" /\ req[r] \in Call
      /\ req[r].id \in 1..nextId[c]
  BY DEF Send, IInv, TypeOK, Calls, CallsKnown, InFlight
<1>2. \A d \in Conns : nextId[d] \in 0..MaxId /\ asked[d] \subseteq 1..nextId[d]
  BY <1>1 DEF IInv, TypeOK, Calls, IdsAreFresh
<1>3. /\ req' = [req EXCEPT ![r] = q]
      /\ asked' = IF sock[c] = "up" THEN [asked EXCEPT ![c] = @ \cup {req[r].id}] ELSE asked
      /\ UNCHANGED <<registry, sock, handler, displaced, nextId, pending, failing, channels, term>>
  BY DEF Send, connVars, termVars
<1> HIDE DEF c
<1>4. /\ q \in Call /\ q.answer = req[r].answer /\ q.pc = "waiting" /\ q.id = req[r].id
      /\ q.conn = c
  BY <1>1 DEF Call, c
<1> HIDE DEF q
<1>5. OneMoves(r, q) /\ q.pc # "held" /\ Flies(q) /\ InFlight(r)
  BY <1>1, <1>3, <1>4 DEF OneMoves, Flies, InFlight
<1>6. \A d \in Conns : /\ d # c => asked'[d] = asked[d]
                       /\ asked'[c] \subseteq asked[c] \cup {req[r].id}
  BY <1>1, <1>3 DEF IInv, TypeOK
<1>7. TypeOK'
  BY <1>1, <1>2, <1>3, <1>4, Ids DEF IInv, TypeOK
<1>8. CallsKnown'
  <2>1. \A d \in Conns : nextId'[d] = nextId[d] /\ nextId[d] \in Nat /\ pending'[d] = pending[d]
    BY <1>2, <1>3, Ids
  <2>2. \A d \in Conns : r \in pending'[d] => q.conn = d
    BY <1>4, <2>1 DEF IInv, Calls, CallsKnown, c
  <2> QED
    BY <1>1, <1>4, <1>5, <2>1, <2>2, MoveKnown
<1>9. IdsSuffice'
  BY <1>3, <1>5, MoveSuffices
<1>10. IdsAreFresh'
  <2>1. \A d \in Conns : asked'[d] \subseteq 1..nextId'[d]
    BY <1>1, <1>2, <1>3, <1>6
  <2>2. \A s \in Requests : s # r /\ InFlight(s) /\ req[s].conn = c => req[s].id # req[r].id
    BY <1>5 DEF IInv, Calls, IdsAreFresh, c
  <2>3. \A s \in Requests : s # r /\ req[s].pc = "listed" /\ req[s].conn \in Conns
                            => req[s].id \notin asked'[req[s].conn]
    <3> SUFFICES ASSUME NEW s \in Requests, s # r, req[s].pc = "listed", req[s].conn \in Conns
                 PROVE  req[s].id \notin asked'[req[s].conn]
      OBVIOUS
    <3>1. InFlight(s) /\ req[s].id \notin asked[req[s].conn]
      BY DEF IInv, Calls, IdsAreFresh, InFlight
    <3>2. CASE req[s].conn = c
      BY <1>6, <2>2, <3>1, <3>2
    <3>3. CASE req[s].conn # c
      BY <1>6, <3>1, <3>3
    <3> QED
      BY <3>2, <3>3
  <2>4. q.answer > NoAnswer => q.answer = q.id
    BY <1>4 DEF IInv, Calls, IdsAreFresh
  <2> QED
    BY <1>4, <1>5, <2>1, <2>2, <2>3, <2>4, MoveFresh
<1>11. CallsAreNotStranded'
  <2>1. req[r].answer = NoAnswer =>
           \/ r \in pending[c] /\ handler[c] \in {"swapped", "serving"}
           \/ r \in failing[c] /\ handler[c] = "closing"
    BY <1>1 DEF IInv, Calls, CallsAreNotStranded, c
  <2> QED
    BY <1>3, <1>4, <1>5, <2>1, MoveStrandsNone
<1>12. Registry'
  BY <1>3, RegistryStays DEF IInv, connVars
<1> QED
  BY <1>7, <1>8, <1>9, <1>10, <1>11, <1>12 DEF IInv, Calls

\* A result is Stray unless it comes on the socket that asked; a call listed
\* under the id it answers has been sent.
LEMMA DeliverKeeps ==
    ASSUME IInv, NEW c \in Conns, NEW d \in Conns, NEW i \in 1..MaxId, Deliver(c, d, i)
    PROVE  IInv'
<1>1. ASSUME NEW r \in Requests
      PROVE  /\ req'[r].pc = req[r].pc /\ req'[r].conn = req[r].conn /\ req'[r].id = req[r].id
             /\ \/ req'[r].answer = req[r].answer
                \/ /\ req'[r].answer = Stray \/ req'[r].answer = req[r].id
                   /\ InFlight(r) /\ req[r].answer = NoAnswer
             /\ req'[r] \in Call
  <2>1. req[r] \in Call /\ (r \in pending[c] => InFlight(r))
    BY DEF IInv, TypeOK, Calls, CallsKnown
  <2>2. \/ req'[r] = req[r]
        \/ /\ req'[r] = [req[r] EXCEPT !.answer = IF d = c THEN i ELSE Stray]
           /\ r \in pending[c] /\ req[r].id = i /\ req[r].answer = NoAnswer
    BY DEF Deliver
  <2>3. (IF d = c THEN i ELSE Stray) \in Answers
    BY DEF Answers
  <2> QED
    BY <2>1, <2>2, <2>3 DEF Call
<1>2. /\ \A e \in Conns : asked'[e] \subseteq asked[e]
      /\ UNCHANGED <<registry, sock, handler, displaced, nextId, pending, failing, channels, term>>
  BY DEF Deliver, IInv, TypeOK, connVars, termVars
<1>3. TypeOK'
  BY <1>1, <1>2 DEF IInv, TypeOK, Deliver
<1>4. \A r \in Requests : InFlight(r)' <=> InFlight(r)
  BY <1>1 DEF InFlight
<1>5. CallsKnown'
  BY <1>1, <1>2, <1>4 DEF IInv, TypeOK, Calls, CallsKnown
<1>6. IdsSuffice'
  <2>1. \A e \in Conns : Holding(e)' = Holding(e)
    BY <1>1 DEF Holding
  <2> QED
    BY <1>2, <2>1 DEF IInv, Calls, IdsSuffice
<1>7. IdsAreFresh'
  <2>1. \A e \in Conns : asked'[e] \subseteq 1..nextId'[e]
    BY <1>2 DEF IInv, Calls, IdsAreFresh
  <2>2. \A r, s \in Requests :
           r # s /\ InFlight(r)' /\ InFlight(s)' /\ req'[r].conn = req'[s].conn
           => req'[r].id # req'[s].id
    BY <1>1, <1>4 DEF IInv, Calls, IdsAreFresh
  <2>3. ASSUME NEW r \in Requests, req'[r].pc = "listed"
        PROVE  req'[r].id \notin asked'[req'[r].conn]
    <3>1. req[r].conn \in Conns
      BY <1>1, <2>3 DEF IInv, Calls, CallsKnown
    <3> QED
      BY <1>1, <1>2, <2>3, <3>1 DEF IInv, Calls, IdsAreFresh
  <2>4. \A r \in Requests : req'[r].answer > NoAnswer => req'[r].answer = req'[r].id
    BY <1>1 DEF IInv, Calls, IdsAreFresh, Stray, NoAnswer
  <2> QED
    BY <2>1, <2>2, <2>3, <2>4 DEF IdsAreFresh
<1>8. CallsAreNotStranded'
  <2> SUFFICES ASSUME NEW r \in Requests, req'[r].pc \in {"listed", "waiting"},
                      req'[r].answer = NoAnswer
               PROVE  LET e == req'[r].conn IN
                      \/ r \in pending'[e] /\ handler'[e] \in {"swapped", "serving"}
                      \/ r \in failing'[e] /\ handler'[e] = "closing"
    BY DEF CallsAreNotStranded
  <2>1. InFlight(r) /\ req[r].answer = NoAnswer
    <3>1. InFlight(r)
      BY <1>4 DEF InFlight
    <3>2. InFlight(r) => req[r].id # NoAnswer
      BY Ids DEF IInv, TypeOK, Calls, CallsKnown, NoAnswer
    <3> QED
      BY <1>1, <3>1, <3>2 DEF Stray, NoAnswer
  <2> QED
    BY <1>1, <1>2, <2>1 DEF IInv, Calls, CallsAreNotStranded, InFlight
<1>9. Registry'
  BY <1>2, RegistryStays DEF IInv, connVars
<1> QED
  BY <1>3, <1>5, <1>6, <1>7, <1>8, <1>9 DEF IInv, Calls

-----------------------------------------------------------------------------
(* Terminals touch nothing of the connections and of the calls.            *)

Bridging(t) == \/ \E k \in Connectors : TermFetch(t, k)
               \/ TermOpen(t) \/ TermOpenFails(t)
               \/ SessionExits(t) \/ TermExits(t) \/ BrowserGone(t)

LEMMA TerminalKeeps ==
    ASSUME IInv, NEW t \in Terminals, Bridging(t) PROVE IInv'
<1>1. UNCHANGED <<registry, sock, handler, displaced, nextId, pending, failing, asked, req>>
  BY DEF Bridging, TermFetch, TermLeave, TermOpen, TermOpenFails, SessionExits, TermExits,
         BrowserGone, connVars, callVars
<1>2. NoTerm \in Terminal
  BY DEF NoTerm, Terminal
<1>3. term' \in [Terminals -> Terminal] /\ channels' \in [Conns -> SUBSET Terminals]
  <2>1. CASE \E k \in Connectors : TermFetch(t, k)
    <3>1. PICK k \in Connectors : TermFetch(t, k)
      BY <2>1
    <3>2. registry[k] \in Conns
      BY <3>1 DEF TermFetch, IInv, TypeOK
    <3>3. [NoTerm EXCEPT !.pc = "held", !.conn = registry[k]] \in Terminal
      BY <1>2, <3>2 DEF Terminal
    <3> QED
      BY <3>1, <3>3 DEF TermFetch, IInv, TypeOK
  <2>2. CASE TermOpen(t)
    BY <2>2 DEF IInv, TypeOK, TermOpen, Terminal
  <2>3. CASE TermLeave(t)
    BY <1>2, <2>3 DEF IInv, TypeOK, TermLeave
  <2>4. CASE SessionExits(t)
    BY <2>4 DEF IInv, TypeOK, SessionExits, Terminal
  <2> QED
    BY <2>1, <2>2, <2>3, <2>4 DEF Bridging, TermOpenFails, TermExits, BrowserGone
<1>4. TypeOK'
  BY <1>1, <1>3 DEF IInv, TypeOK
<1>5. Registry'
  BY <1>1, RegistryStays DEF IInv, connVars
<1>6. CallsKnown' /\ IdsSuffice' /\ IdsAreFresh'
  BY <1>1, CallsStay DEF IInv, Calls
<1>7. CallsAreNotStranded'
  BY <1>1, NoneStranded DEF IInv, Calls
<1> QED
  BY <1>4, <1>5, <1>6, <1>7 DEF IInv, Calls

-----------------------------------------------------------------------------
LEMMA StepKeeps == IInv /\ [Next]_vars => IInv'
<1> SUFFICES ASSUME IInv, [Next]_vars PROVE IInv'
  OBVIOUS
<1>1. ASSUME NEW c \in Conns, \/ Accept(c) \/ Break(c) \/ ReadFails(c) \/ Serve(c)
                              \/ \E d \in Conns, i \in 1..MaxId : Deliver(c, d, i)
      PROVE  IInv'
  BY <1>1, AcceptKeeps, BreakKeeps, ReadFailsKeeps, CloseDisplacedKeeps, FailCallsKeeps,
     RemoveKeeps, DeliverKeeps DEF Serve
<1>2. ASSUME NEW r \in Requests, Proceed(r) \/ \E k \in Connectors : Fetch(r, k)
      PROVE  IInv'
  <2>1. CASE SendFails(r) \/ Receive(r) \/ Timeout(r)
    BY <2>1, LeaveKeeps DEF SendFails, Receive, Timeout, Expired
  <2> QED
    BY <1>2, <2>1, ListKeeps, SendKeeps, FetchKeeps DEF Proceed
<1>3. ASSUME NEW t \in Terminals, Bridging(t) PROVE IInv'
  BY <1>3, TerminalKeeps
<1>4. CASE UNCHANGED vars
  <2>1. TypeOK'
    BY <1>4 DEF vars, IInv, TypeOK
  <2>2. Registry'
    BY <1>4, RegistryStays DEF vars, IInv, connVars
  <2>3. CallsKnown' /\ IdsSuffice' /\ IdsAreFresh'
    BY <1>4, CallsStay DEF vars, IInv, Calls
  <2>4. CallsAreNotStranded'
    BY <1>4, NoneStranded DEF vars, IInv, Calls
  <2> QED
    BY <2>1, <2>2, <2>3, <2>4 DEF IInv, Calls
<1> QED
  BY <1>1, <1>2, <1>3, <1>4 DEF Next, Bridging

LEMMA Invariant == Spec => []IInv
BY Initially, StepKeeps, PTL DEF Spec

-----------------------------------------------------------------------------
\* The state of the sockets, the calls and the terminals keeps its types; in
\* particular the ids minted stay within the bound (conns.go).
THEOREM ConnectionsTyped == Spec => []TypeOK
<1>1. IInv => TypeOK
  BY DEF IInv
<1> QED
  BY <1>1, Invariant, PTL

\* A connection that serves is registered, or closed, or about to be closed by
\* the one that replaced it; none that is gone is registered (registry.add and
\* registry.remove).
THEOREM RegistryHolds == Spec => []RegistryHoldsTheServing
<1>1. IInv => RegistryHoldsTheServing
  BY DEF IInv, Registry
<1> QED
  BY <1>1, Invariant, PTL

\* A call that waits is listed on a connection somebody reads, or will be failed
\* (agentConn.request against serveAgent's teardown).
THEOREM NoCallIsStranded == Spec => []CallsAreNotStranded
<1>1. IInv => CallsAreNotStranded
  BY DEF IInv, Calls
<1> QED
  BY <1>1, Invariant, PTL

\* A caller is handed the result of its own call, but for strays of an earlier
\* socket (agentConn.request, handleAgentMsg).
THEOREM ResultsMatch == Spec => []ResultsMatchCalls
<1>1. IInv => ResultsMatchCalls
  BY DEF IInv, Calls, CallsKnown, IdsAreFresh, ResultsMatchCalls, InFlight, NoAnswer
<1> QED
  BY <1>1, Invariant, PTL

=============================================================================
