-------------------------- MODULE OAuthFlow_proofs --------------------------
(***************************************************************************)
(* What overlapping authorisations may not do to one another, proved for   *)
(* any number of MCP servers, endpoints, flows, pasted codes, logouts and  *)
(* shutdowns.                                                              *)
(*                                                                         *)
(* The inductive invariant has seven parts: the types; that what is kept   *)
(* for a server is of its own flows (OwnInv); who awaits what (AwaitInv);  *)
(* what is reserved (ReserveInv); that only overlapping starts mix up      *)
(* their states (CrossInv); where the callback server is (ServerInv); and  *)
(* that what a logout took is gone (RevokedInv).                           *)
(***************************************************************************)
EXTENDS OAuthFlow, TLAPS

FlowOrNull == Flows \cup {Null}

Entry == [state : FlowOrNull, verifier : FlowOrNull \cup {Connection},
          client : Endpoints \cup {Null}, tokens : FlowOrNull]

Maps == [reserved : SUBSET Flows,
         pending : [Flows -> FlowOrNull],
         answer : [Flows -> FlowOrNull \cup {Rejected}],
         store : [Servers -> Entry],
         held : [Servers -> FlowOrNull]]

Server == [at : Endpoints, server : Sockets \cup {Null}, closing : BOOLEAN,
           binding : FlowOrNull, candidate : Sockets \cup {Null},
           left : SUBSET Sockets, adrift : BOOLEAN]

Call == [at : Starting \cup {"awaiting", "exchanging", "over"}, server : Servers,
         kind : {"authenticate", "start", Null}, redirect : Endpoints \cup {Null},
         state : FlowOrNull, waits : FlowOrNull, retried : BOOLEAN]

Exchange == [by : FlowOrNull, server : Servers, transport : Flows, code : Flows,
             state : FlowOrNull, verifier : FlowOrNull \cup {Connection}]

TypeInv ==
  /\ maps \in Maps
  /\ server \in Server
  /\ flow \in [Flows -> {NoFlow} \cup Call]
  /\ exchanges \subseteq Exchange
  /\ stopping \in BOOLEAN
  /\ revoked \subseteq Flows

-----------------------------------------------------------------------------
(***************************************************************************)
(* The states, codes and tokens kept for a server are of its own flows.    *)
(***************************************************************************)
Out(s) == {f \in Of(s) : HandedOut(f)}

StoreInv ==
  \A s \in Servers :
    /\ maps.store[s].state \in Of(s) \cup {Null}
    /\ maps.store[s].verifier \in Of(s) \cup {Null, Connection}
    /\ maps.store[s].tokens \in Of(s) \cup {Null}
    /\ maps.held[s] \in Out(s) \cup {Null}

CallInv ==
  \A f \in Started :
    /\ flow[f].at \in Starting => flow[f].state = Null /\ flow[f].kind # Null
    /\ flow[f].state \in Of(flow[f].server) \cup {Null}
    /\ flow[f].waits \in Of(flow[f].server) \cup {Null}
    /\ flow[f].at \in {"awaiting", "exchanging"} =>
         flow[f].kind = "authenticate" /\ flow[f].waits # Null

ExchangeInv ==
  \A e \in exchanges :
    /\ e.code \in Out(e.server)
    /\ e.transport \in Out(e.server)
    /\ e.by \in {f \in Of(e.server) : flow[f].at = "exchanging"} \cup {Null}
    /\ e.state \in Of(e.server) \cup {Null}
    /\ \A d \in exchanges : e.by # Null /\ d.by = e.by => d = e

\* At most one call of authenticate is in flight for a server.
OneAuthentication ==
  \A f, g \in Started :
    flow[f].server = flow[g].server /\ flow[f].kind = "authenticate"
      /\ flow[g].kind = "authenticate" => f = g

OwnInv == StoreInv /\ CallInv /\ ExchangeInv /\ OneAuthentication

-----------------------------------------------------------------------------
(***************************************************************************)
(* A promise is pending or answered, and then its call awaits it.          *)
(***************************************************************************)
PendingInv ==
  \A x \in Flows : maps.pending[x] # Null =>
    LET f == maps.pending[x] IN
      f \in Started /\ flow[f].at = "awaiting" /\ flow[f].waits = x /\ maps.answer[f] = Null

AnswerInv ==
  \A f \in Flows : maps.answer[f] # Null =>
    /\ f \in Started /\ flow[f].at = "awaiting"
    /\ maps.answer[f] \in Flows =>
         maps.answer[f] \in Out(flow[f].server) /\ flow[maps.answer[f]].state = flow[f].waits

AwaitInv == PendingInv /\ AnswerInv /\ CallbacksAreAnswered

\* What is reserved is reserved by flows that are beyond the callback server.
Reserving == Sdk \cup {"awaiting", "exchanging", "over"}

ReserveInv ==
  /\ \A x \in maps.reserved : x \in Started /\ flow[x].at \in Reserving
  /\ ReservationsAreReleased

-----------------------------------------------------------------------------
(***************************************************************************)
(* Only starts that overlap mix up their states.                           *)
(***************************************************************************)
Crossing(f, g) == f # g /\ flow[f].server = flow[g].server

\* Overlapping starts are known to be.
StartsCross ==
  \A f, g \in Started :
    Crossing(f, g) /\ flow[f].at \in Starting /\ flow[g].at \in Starting => f \in crossed

\* The state that is stored while a flow is being started is its own.
StoredCross ==
  \A f \in Started : flow[f].at \in Sdk =>
    LET x == maps.store[flow[f].server].state IN
      x \in Flows /\ x # f => x \in crossed /\ f \in crossed

\* So is the state it handed out and the one whose callback it awaits.
AwaitedCross ==
  \A f \in Started : \A x \in {flow[f].state, flow[f].waits} :
    x \in Flows /\ x # f => x \in crossed /\ f \in crossed

\* The transport that is held is that of the flow whose state is stored.
HeldCross ==
  \A s \in Servers :
    LET x == maps.store[s].state IN
      x \in Out(s) /\ x \notin crossed /\ maps.held[s] # Null => maps.held[s] = x

CrossInv ==
  StartsCross /\ StoredCross /\ AwaitedCross /\ HeldCross /\ CodesMeetTheirFlow

-----------------------------------------------------------------------------
(***************************************************************************)
(* The callback server.                                                    *)
(***************************************************************************)
Regular == Started \ (orphans \cup crossed)

BindingInv ==
  /\ \A f \in Started : flow[f].at \in {"listening", "closing"} <=> server.binding = f
  /\ server.binding # Null => server.binding \in Started
  /\ stopping => Started \subseteq orphans
  /\ server.closing => stopping \/ \E f \in Started : flow[f].at = "closing"

\* The port of the module is the server's, or that of the server being installed.
PortInv ==
  /\ server.server # Null /\ ~server.adrift /\ (\A f \in Started : flow[f].at # "closing") =>
       server.server = Socket(server.at)
  /\ \A f \in Started : flow[f].at = "closing" /\ server.server # Null =>
       LET s == flow[f].server IN
         /\ server.candidate = [host |-> Wanted(s).host, port |-> server.at.port]
         /\ Strict(s) => server.at.port = Wanted(s).port

\* While a flow waits, the server is where its redirect URI leads and is not moved.
KeptInv ==
  \A f \in Regular : f \in maps.reserved \cup Waiting(maps) =>
    /\ flow[f].redirect \in Endpoints
    /\ server.binding = Null /\ ~server.closing
    /\ server.server = Socket(flow[f].redirect)
    /\ server.at.path = flow[f].redirect.path

\* The state of a flow that is being started is reserved as long as it is stored.
StoredIsReserved ==
  \A f \in Regular : flow[f].at \in Sdk /\ maps.store[flow[f].server].state = f =>
    f \in maps.reserved

ServerInv == BindingInv /\ PortInv /\ KeptInv /\ StoredIsReserved

-----------------------------------------------------------------------------
(***************************************************************************)
(* What a logout took is gone.                                             *)
(***************************************************************************)
TakenInv ==
  /\ \A f \in revoked : f \in Started /\ HandedOut(f)
  /\ \A s \in Servers : maps.store[s].verifier \notin revoked
  /\ LogoutIsFinal

SentInv == \A e \in exchanges : e.verifier = e.code => e.code \notin revoked

RevokedInv == TakenInv /\ SentInv

IInv == TypeInv /\ OwnInv /\ AwaitInv /\ ReserveInv /\ CrossInv /\ ServerInv /\ RevokedInv

-----------------------------------------------------------------------------
(***************************************************************************)
(* The operations on the maps.                                             *)
(***************************************************************************)
LEMMA FlowsFacts == /\ Flows \subseteq Nat /\ Null \notin Flows
                    /\ 0 \notin Flows /\ Null # 0 /\ Rejected = 0 /\ Connection = 0
                    /\ Null # "authenticate" /\ Null # "start"
BY FlowsAssumption DEF Flows, Rejected, Connection

\* From m to n nothing is added: entries lose fields, states are released, and
\* whoever waits is rejected.  A transport is kept as long as its state is
\* reserved, and a state that is released is no longer stored, but for those in X.
Loses(m, n) ==
  /\ n.reserved \subseteq m.reserved
  /\ \A s \in Servers :
       /\ n.held[s] \in {m.held[s], Null}
       /\ n.store[s].state \in {m.store[s].state, Null}
       /\ n.store[s].verifier \in {m.store[s].verifier, Null}
       /\ n.store[s].tokens \in {m.store[s].tokens, Null}
       /\ m.held[s] \in n.reserved => n.held[s] = m.held[s]

Rejects(m, n) ==
  /\ \A x \in Flows : \/ n.pending[x] = m.pending[x]
                      \/ /\ n.pending[x] = Null /\ m.pending[x] # Null
                         /\ n.answer[m.pending[x]] = Rejected
  /\ \A f \in Flows : \/ n.answer[f] = m.answer[f]
                      \/ /\ n.answer[f] = Rejected
                         /\ \E x \in Flows : m.pending[x] = f /\ n.pending[x] = Null

Unstores(m, n, X) ==
  \A s \in Servers : \A f \in Of(s) :
    f \in m.reserved \ n.reserved /\ n.store[s].state = f => f \in X

Shrinks(m, n, X) == n \in Maps /\ Loses(m, n) /\ Rejects(m, n) /\ Unstores(m, n, X)

LEMMA ShrinksTwice ==
  ASSUME NEW m \in Maps, NEW n, NEW k, NEW X, NEW Y,
         Shrinks(m, n, X), Shrinks(n, k, Y)
  PROVE  Shrinks(m, k, X \cup Y)
<1>1. n \in Maps /\ k \in Maps /\ Null \notin Flows
  BY FlowsFacts DEF Shrinks
<1>2. Loses(m, k)
  BY DEF Shrinks, Loses
<1>3. ASSUME NEW x \in Flows, k.pending[x] # m.pending[x]
      PROVE  k.pending[x] = Null /\ m.pending[x] # Null /\ k.answer[m.pending[x]] = Rejected
  <2>1. m.pending[x] \in Flows \cup {Null}
    BY DEF Maps, FlowOrNull
  <2>2. CASE n.pending[x] = m.pending[x]
    BY <1>3, <2>2 DEF Shrinks, Rejects
  <2>3. CASE n.pending[x] # m.pending[x]
    <3>1. n.pending[x] = Null /\ m.pending[x] # Null /\ n.answer[m.pending[x]] = Rejected
      BY <2>3 DEF Shrinks, Rejects
    <3>2. k.pending[x] = Null
      BY <3>1 DEF Shrinks, Rejects
    <3>3. k.answer[m.pending[x]] = Rejected
      BY <2>1, <3>1 DEF Shrinks, Rejects
    <3> QED BY <3>1, <3>2, <3>3
  <2> QED BY <2>2, <2>3
<1>4. ASSUME NEW f \in Flows, k.answer[f] # m.answer[f]
      PROVE  k.answer[f] = Rejected /\ \E x \in Flows : m.pending[x] = f /\ k.pending[x] = Null
  <2>1. CASE k.answer[f] # n.answer[f]
    <3>1. k.answer[f] = Rejected /\ \E x \in Flows : n.pending[x] = f /\ k.pending[x] = Null
      BY <2>1 DEF Shrinks, Rejects
    <3>2. PICK x \in Flows : n.pending[x] = f /\ k.pending[x] = Null
      BY <3>1
    <3>3. m.pending[x] = f
      BY <1>1, <3>2 DEF Shrinks, Rejects
    <3> QED BY <3>1, <3>2, <3>3
  <2>2. CASE k.answer[f] = n.answer[f]
    <3>1. n.answer[f] = Rejected /\ \E x \in Flows : m.pending[x] = f /\ n.pending[x] = Null
      BY <1>4, <2>2 DEF Shrinks, Rejects
    <3>2. PICK x \in Flows : m.pending[x] = f /\ n.pending[x] = Null
      BY <3>1
    <3>3. k.pending[x] = Null
      BY <3>2 DEF Shrinks, Rejects
    <3> QED BY <2>2, <3>1, <3>2, <3>3
  <2> QED BY <2>1, <2>2
<1>5. Rejects(m, k)
  BY <1>3, <1>4 DEF Rejects
<1>6. Unstores(m, k, X \cup Y)
  <2> SUFFICES ASSUME NEW s \in Servers, NEW f \in Of(s), f \in m.reserved, f \notin k.reserved,
                      k.store[s].state = f
               PROVE  f \in X \cup Y
    BY DEF Unstores
  <2>1. f # Null
    BY <1>1 DEF Of, Started
  <2>2. CASE f \in n.reserved
    BY <2>2 DEF Shrinks, Unstores
  <2>3. CASE f \notin n.reserved
    <3>1. n.store[s].state = f
      BY <2>1 DEF Shrinks, Loses
    <3> QED BY <2>3, <3>1 DEF Shrinks, Unstores
  <2> QED BY <2>2, <2>3
<1> QED BY <1>1, <1>2, <1>5, <1>6 DEF Shrinks

LEMMA ReleaseShrinks ==
  ASSUME NEW m \in Maps, NEW x
  PROVE  Shrinks(m, ReleaseCallbackServer(m, x), {x})
BY DEF Shrinks, Loses, Rejects, Unstores, ReleaseCallbackServer, Maps

\* An operation that changes but one entry of the store.
LEMMA StoreWritten ==
  ASSUME NEW m \in Maps, NEW s \in Servers, NEW e \in Entry
  PROVE  LET n == [m EXCEPT !.store[s] = e] IN
           /\ n \in Maps
           /\ n.reserved = m.reserved /\ n.pending = m.pending
           /\ n.answer = m.answer /\ n.held = m.held
           /\ n.store[s] = e
           /\ \A t \in Servers : t # s => n.store[t] = m.store[t]
BY DEF Maps

LEMMA EntryLosesShrinks ==
  ASSUME NEW m \in Maps, NEW s \in Servers, NEW e \in Entry,
         e.state \in {m.store[s].state, Null},
         e.verifier \in {m.store[s].verifier, Null},
         e.tokens \in {m.store[s].tokens, Null}
  PROVE  Shrinks(m, [m EXCEPT !.store[s] = e], {})
<1> DEFINE n == [m EXCEPT !.store[s] = e]
<1>1. /\ n \in Maps
      /\ n.reserved = m.reserved /\ n.pending = m.pending
      /\ n.answer = m.answer /\ n.held = m.held
      /\ n.store[s] = e
      /\ \A t \in Servers : t # s => n.store[t] = m.store[t]
  BY StoreWritten
<1>2. SUFFICES Shrinks(m, n, {})
  OBVIOUS
<1> HIDE DEF n
<1>3. Loses(m, n)
  BY <1>1 DEF Loses
<1>4. Rejects(m, n) /\ Unstores(m, n, {})
  BY <1>1 DEF Rejects, Unstores
<1> QED BY <1>1, <1>3, <1>4 DEF Shrinks

LEMMA ClearStateShrinks ==
  ASSUME NEW m \in Maps, NEW s \in Servers
  PROVE  Shrinks(m, ClearOAuthState(m, s), {})
<1> DEFINE e == [m.store[s] EXCEPT !.state = Null]
<1>1. m.store[s] \in Entry
  BY DEF Maps
<1>2. /\ e \in Entry /\ e.state = Null
      /\ e.verifier = m.store[s].verifier /\ e.tokens = m.store[s].tokens
  BY <1>1 DEF Entry, FlowOrNull
<1>3. ClearOAuthState(m, s) = [m EXCEPT !.store[s] = e]
  BY <1>1 DEF ClearOAuthState
<1> HIDE DEF e
<1> QED BY <1>2, <1>3, EntryLosesShrinks

LEMMA NoEntryIsEntry == NoEntry \in Entry
BY DEF NoEntry, Entry, FlowOrNull

LEMMA DropShrinks ==
  ASSUME NEW m \in Maps, NEW s \in Servers, NEW redirect
  PROVE  Shrinks(m, DropStaleClient(m, s, redirect), {})
<1>1. Shrinks(m, m, {})
  BY DEF Shrinks, Loses, Rejects, Unstores
<1>2. Shrinks(m, [m EXCEPT !.store[s] = NoEntry], {})
  BY NoEntryIsEntry, EntryLosesShrinks DEF NoEntry
<1> QED BY <1>1, <1>2 DEF DropStaleClient

LEMMA InvalidateShrinks ==
  ASSUME NEW m \in Maps, NEW s \in Servers, NEW what \in {"none", "tokens", "all"}
  PROVE  Shrinks(m, Invalidate(m, s, what), {})
<1>1. Shrinks(m, m, {})
  BY DEF Shrinks, Loses, Rejects, Unstores
<1>2. Shrinks(m, [m EXCEPT !.store[s] = NoEntry], {})
  BY NoEntryIsEntry, EntryLosesShrinks DEF NoEntry
<1>3. Shrinks(m, [m EXCEPT !.store[s].tokens = Null], {})
  <2> DEFINE e == [m.store[s] EXCEPT !.tokens = Null]
  <2>1. m.store[s] \in Entry
    BY DEF Maps
  <2>2. /\ e \in Entry /\ e.tokens = Null
        /\ e.verifier = m.store[s].verifier /\ e.state = m.store[s].state
    BY <2>1 DEF Entry, FlowOrNull
  <2>3. [m EXCEPT !.store[s].tokens = Null] = [m EXCEPT !.store[s] = e]
    OBVIOUS
  <2> HIDE DEF e
  <2> QED BY <2>2, <2>3, EntryLosesShrinks
<1> QED BY <1>1, <1>2, <1>3 DEF Invalidate

LEMMA AnswerShrinks ==
  ASSUME NEW m \in Maps, NEW x \in Flows
  PROVE  Shrinks(m, Answer(m, x, Rejected), {})
<1> DEFINE n == Answer(m, x, Rejected)
<1>1. CASE m.pending[x] = Null
  BY <1>1 DEF Answer, Shrinks, Loses, Rejects, Unstores
<1>2. CASE m.pending[x] # Null
  <2>1. m.pending[x] \in Flows
    BY <1>2 DEF Maps, FlowOrNull
  <2>2. /\ n.reserved = m.reserved /\ n.store = m.store /\ n.held = m.held
        /\ n.pending = [m.pending EXCEPT ![x] = Null]
        /\ n.answer = [m.answer EXCEPT ![m.pending[x]] = Rejected]
    BY <1>2 DEF Answer, Maps
  <2>3. n \in Maps
    BY <1>2, <2>1 DEF Answer, Maps, FlowOrNull
  <2> HIDE DEF n
  <2>4. Rejects(m, n)
    BY <1>2, <2>1, <2>2 DEF Rejects, Maps
  <2>5. Loses(m, n) /\ Unstores(m, n, {})
    BY <2>2 DEF Loses, Unstores
  <2>6. Shrinks(m, n, {})
    BY <2>3, <2>4, <2>5 DEF Shrinks
  <2> QED BY <2>6 DEF n
<1> QED BY <1>1, <1>2

LEMMA CancelShrinks ==
  ASSUME NEW m \in Maps, NEW x \in Flows
  PROVE  Shrinks(m, CancelPendingCallback(m, x), {x})
<1> DEFINE n == ReleaseCallbackServer(m, x)
<1>1. Shrinks(m, n, {x})
  BY ReleaseShrinks
<1>2. n \in Maps
  BY <1>1 DEF Shrinks
<1> HIDE DEF n
<1>3. Shrinks(n, Answer(n, x, Rejected), {})
  BY <1>2, AnswerShrinks
<1>4. Shrinks(m, Answer(n, x, Rejected), {x} \cup {})
  BY <1>1, <1>3, ShrinksTwice
<1> QED BY <1>4 DEF CancelPendingCallback, n

\* What clearPendingAuth clears is the server's own.
LEMMA ClearPendingShrinks ==
  ASSUME NEW m \in Maps, NEW s \in Servers, NEW x \in Of(s) \cup {Null},
         m.held[s] \in Of(s) \cup {Null}
  PROVE  /\ Shrinks(m, ClearPendingAuth(m, s, x), {})
         /\ m.held[s] \in {Null, x} => x \notin ClearPendingAuth(m, s, x).reserved
         /\ x = Null => ClearPendingAuth(m, s, x).held[s] = Null
         /\ ClearPendingAuth(m, s, x).pending = m.pending
         /\ ClearPendingAuth(m, s, x).answer = m.answer
<1> DEFINE mine == IF m.held[s] # Null THEN m.held[s] ELSE x
           released == [ReleaseCallbackServer(m, mine) EXCEPT !.held[s] = Null]
           n == ClearPendingAuth(m, s, x)
<1>0. Null \notin Flows
  BY FlowsFacts
<1>1. CASE mine = Null \/ (x # Null /\ mine # x)
  <2>1. n = m
    BY <1>1 DEF ClearPendingAuth
  <2>2. Shrinks(m, m, {})
    BY DEF Shrinks, Loses, Rejects, Unstores
  <2>3. m.held[s] \in {Null, x} => x \notin m.reserved
    BY <1>0, <1>1 DEF Maps
  <2> QED BY <1>1, <2>1, <2>2, <2>3
<1>2. CASE ~(mine = Null \/ (x # Null /\ mine # x))
  <2>1. mine \in Of(s)
    BY <1>2
  <2>2. /\ released \in Maps
        /\ released.reserved = m.reserved \ {mine} /\ released.held = [m.held EXCEPT ![s] = Null]
        /\ released.store = m.store /\ released.pending = m.pending
        /\ released.answer = m.answer
    BY DEF ReleaseCallbackServer, Maps, FlowOrNull
  <2>3. n = IF m.store[s].state = mine THEN ClearOAuthState(released, s) ELSE released
    BY <1>2 DEF ClearPendingAuth
  <2>4. Shrinks(m, released, {mine})
    <3> HIDE DEF released
    <3>1. Loses(m, released)
      BY <2>2, <1>2 DEF Loses, Maps
    <3>2. Rejects(m, released) /\ Unstores(m, released, {mine})
      BY <2>2 DEF Rejects, Unstores
    <3> QED BY <2>2, <3>1, <3>2 DEF Shrinks
  <2>5. Shrinks(released, n, {})
    <3>1. Shrinks(released, released, {})
      BY <2>2 DEF Shrinks, Loses, Rejects, Unstores
    <3>2. Shrinks(released, ClearOAuthState(released, s), {})
      BY <2>2, ClearStateShrinks
    <3> QED BY <2>3, <3>1, <3>2
  <2>6. /\ n.held = released.held /\ n.reserved = released.reserved
        /\ n.pending = m.pending /\ n.answer = m.answer
        /\ m.store[s].state = mine => n.store[s].state = Null
    <3> HIDE DEF released
    <3>1. LET k == ClearOAuthState(released, s) IN
            /\ k.held = released.held /\ k.reserved = released.reserved
            /\ k.pending = m.pending /\ k.answer = m.answer
            /\ k.store[s].state = Null
      BY <2>2 DEF ClearOAuthState, Maps, Entry
    <3>2. CASE m.store[s].state = mine
      BY <3>1, <3>2, <2>3
    <3>3. CASE m.store[s].state # mine
      BY <3>3, <2>2, <2>3
    <3> QED BY <3>2, <3>3
  <2>7. Shrinks(m, n, {mine} \cup {})
    <3> HIDE DEF n, released, mine
    <3> QED BY <2>2, <2>4, <2>5, ShrinksTwice
  <2>8. Unstores(m, n, {})
    <3> SUFFICES ASSUME NEW t \in Servers, NEW f \in Of(t), f \in m.reserved \ n.reserved,
                        n.store[t].state = f
                 PROVE  FALSE
      BY DEF Unstores
    <3> HIDE DEF n, released, mine
    <3>1. f = mine
      BY <2>2, <2>6
    <3>2. t = s
      BY <2>1, <3>1 DEF Of
    <3>3. m.store[s].state = f
      BY <1>0, <2>7, <3>2 DEF Shrinks, Loses, Of, Started
    <3> QED BY <1>0, <2>6, <3>1, <3>2, <3>3 DEF Of, Started
  <2>9. Shrinks(m, n, {})
    <3> HIDE DEF n, released, mine
    <3> QED BY <2>7, <2>8 DEF Shrinks
  <2>10. (m.held[s] \in {Null, x} => x \notin n.reserved) /\ (x = Null => n.held[s] = Null)
    <3>1. m.held[s] \in {Null, x} => x = mine \/ x = Null
      OBVIOUS
    <3>2. Null \notin m.reserved /\ s \in DOMAIN m.held
      BY <1>0 DEF Maps
    <3> HIDE DEF n, released, mine
    <3> QED BY <2>2, <2>6, <3>1, <3>2
  <2> QED BY <2>6, <2>9, <2>10
<1> QED BY <1>1, <1>2

LEMMA RemoveShrinks ==
  ASSUME NEW m \in Maps, NEW s \in Servers,
         m.held[s] \in Of(s) \cup {Null}, m.store[s].state \in Of(s) \cup {Null}
  PROVE  /\ Shrinks(m, RemoveAuth(m, s), {})
         /\ RemoveAuth(m, s).store[s] = NoEntry
<1> DEFINE x == m.store[s].state
           cancelled == IF x = Null THEN m ELSE CancelPendingCallback(m, x)
           k == Cancelled(m, s)
           n == RemoveAuth(m, s)
<1>0. Null \notin Flows
  BY FlowsFacts
<1>1. Shrinks(m, cancelled, {x})
  <2>1. CASE x = Null
    BY <2>1 DEF Shrinks, Loses, Rejects, Unstores
  <2>2. CASE x # Null
    <3>1. x \in Flows
      BY <2>2 DEF Of, Started
    <3> QED BY <2>2, <3>1, CancelShrinks
  <2> QED BY <2>1, <2>2
<1>2. Shrinks(cancelled, k, {})
  <2>1. cancelled \in Maps /\ cancelled.held[s] \in Of(s) \cup {Null}
    BY <1>1 DEF Shrinks, Loses
  <2> HIDE DEF cancelled
  <2>2. Shrinks(cancelled, ClearPendingAuth(cancelled, s, x), {})
    BY <2>1, ClearPendingShrinks
  <2> QED BY <2>2 DEF Cancelled, cancelled
<1>3. k \in Maps
  BY <1>2 DEF Shrinks
<1>4. Shrinks(k, n, {}) /\ n.store[s] = NoEntry
  <2> HIDE DEF k
  <2>1. Shrinks(k, [k EXCEPT !.store[s] = NoEntry], {})
    BY <1>3, NoEntryIsEntry, EntryLosesShrinks DEF NoEntry
  <2>2. [k EXCEPT !.store[s] = NoEntry].store[s] = NoEntry
    BY <1>3 DEF Maps
  <2> QED BY <2>1, <2>2 DEF RemoveAuth, k
<1>5. Shrinks(m, n, {x})
  <2>0. cancelled \in Maps
    BY <1>1 DEF Shrinks
  <2> HIDE DEF cancelled, k, n, x
  <2>1. Shrinks(m, k, {x} \cup {})
    BY <2>0, <1>1, <1>2, ShrinksTwice
  <2>2. Shrinks(m, n, ({x} \cup {}) \cup {})
    BY <1>3, <1>4, <2>1, ShrinksTwice
  <2> QED BY <2>2
<1>6. Unstores(m, n, {})
  <2> SUFFICES ASSUME NEW t \in Servers, NEW f \in Of(t), f \in m.reserved \ n.reserved,
                      n.store[t].state = f
               PROVE  FALSE
    BY DEF Unstores
  <2>1. f = x /\ f # Null
    BY <1>0, <1>5 DEF Shrinks, Unstores, Of, Started
  <2>2. t = s
    BY <2>1 DEF Of
  <2> QED BY <1>4, <2>1, <2>2 DEF NoEntry
<1> QED BY <1>4, <1>5, <1>6 DEF Shrinks

LEMMA ClearAllShrinks ==
  ASSUME NEW m \in Maps, \A s \in Servers : m.held[s] \in Of(s) \cup {Null}
  PROVE  Shrinks(m, ClearAllPending(m), {})
<1> DEFINE n == ClearAllPending(m)
<1>0. Null \notin Flows
  BY FlowsFacts
<1>1. /\ n.reserved = m.reserved \ {m.held[s] : s \in Servers}
      /\ n.pending = m.pending /\ n.answer = m.answer
      /\ n.held = [s \in Servers |-> Null]
      /\ n.store = [s \in Servers |-> IF m.store[s].state = m.held[s]
                                      THEN [m.store[s] EXCEPT !.state = Null] ELSE m.store[s]]
  BY DEF ClearAllPending, Maps
<1>2. n \in Maps
  <2> DEFINE emptied == [s \in Servers |-> IF m.store[s].state = m.held[s]
                                           THEN [m.store[s] EXCEPT !.state = Null] ELSE m.store[s]]
             unheld == [s \in Servers |-> Null]
             left == m.reserved \ {m.held[s] : s \in Servers}
  <2>1. n = [m EXCEPT !.reserved = left, !.store = emptied, !.held = unheld]
    BY DEF ClearAllPending
  <2>2. ASSUME NEW s \in Servers PROVE emptied[s] \in Entry
    <3>1. m.store[s] \in Entry
      BY DEF Maps
    <3> QED BY <3>1 DEF Entry, FlowOrNull
  <2>3. emptied \in [Servers -> Entry]
    BY <2>2
  <2>4. left \in SUBSET Flows /\ unheld \in [Servers -> FlowOrNull]
    BY DEF Maps, FlowOrNull
  <2> HIDE DEF n, emptied, unheld, left
  <2> QED BY <2>1, <2>3, <2>4 DEF Maps
<1> HIDE DEF n
<1>3. Loses(m, n)
  <2> SUFFICES ASSUME NEW s \in Servers
               PROVE  /\ n.held[s] \in {m.held[s], Null}
                      /\ n.store[s].state \in {m.store[s].state, Null}
                      /\ n.store[s].verifier \in {m.store[s].verifier, Null}
                      /\ n.store[s].tokens \in {m.store[s].tokens, Null}
                      /\ m.held[s] \in n.reserved => n.held[s] = m.held[s]
    BY <1>1 DEF Loses
  <2>1. m.store[s] \in Entry
    BY DEF Maps
  <2> QED BY <1>1, <2>1 DEF Entry
<1>4. Rejects(m, n)
  BY <1>1 DEF Rejects
<1>5. Unstores(m, n, {})
  <2> SUFFICES ASSUME NEW t \in Servers, NEW f \in Of(t), f \in m.reserved \ n.reserved,
                      n.store[t].state = f
               PROVE  FALSE
    BY DEF Unstores
  <2>1. PICK u \in Servers : m.held[u] = f
    BY <1>1
  <2>2. f # Null /\ u = t
    BY <1>0, <2>1 DEF Of, Started
  <2>3. m.store[t] \in Entry
    BY DEF Maps
  <2>4. m.store[t].state = f
    BY <1>1, <2>2, <2>3 DEF Entry
  <2> QED BY <1>1, <2>1, <2>2, <2>3, <2>4 DEF Entry
<1> QED BY <1>2, <1>3, <1>4, <1>5 DEF Shrinks, n

LEMMA RejectAllShrinks ==
  ASSUME NEW m \in Maps
  PROVE  /\ Shrinks(m, RejectAll(m), Flows)
         /\ RejectAll(m).reserved = {} /\ Waiting(RejectAll(m)) = {}
<1> DEFINE n == RejectAll(m)
<1>1. /\ n.reserved = {} /\ n.pending = [x \in Flows |-> Null]
      /\ n.answer = [f \in Flows |-> IF \E x \in Flows : m.pending[x] = f
                                     THEN Rejected ELSE m.answer[f]]
      /\ n.store = m.store /\ n.held = m.held
  BY DEF RejectAll, Maps
<1>2. n \in Maps
  BY DEF RejectAll, Maps, FlowOrNull
<1> HIDE DEF n
<1>3. Loses(m, n)
  BY <1>1 DEF Loses
<1>4. Rejects(m, n)
  <2>1. ASSUME NEW x \in Flows, m.pending[x] # Null
        PROVE  n.answer[m.pending[x]] = Rejected
    <3>1. m.pending[x] \in Flows
      BY <2>1 DEF Maps, FlowOrNull
    <3> QED BY <1>1, <3>1
  <2> QED BY <1>1, <2>1 DEF Rejects
<1>5. Unstores(m, n, Flows) /\ Waiting(n) = {}
  BY <1>1 DEF Unstores, Of, Started, Waiting
<1> QED BY <1>1, <1>2, <1>3, <1>4, <1>5 DEF Shrinks, n

-----------------------------------------------------------------------------
(***************************************************************************)
(* Steps that add nothing to the maps and hand out no URL.                 *)
(***************************************************************************)
\* m is what maps is once the promises of F are taken up and a verifier or
\* tokens are saved of a flow that no logout took.
Agrees(m, F) ==
  /\ m \in Maps
  /\ m.reserved = maps.reserved /\ m.pending = maps.pending /\ m.held = maps.held
  /\ \A f \in Flows : m.answer[f] = IF f \in F THEN Null ELSE maps.answer[f]
  /\ \A s \in Servers :
       /\ m.store[s].state = maps.store[s].state
       /\ \/ m.store[s].verifier \in {maps.store[s].verifier, Connection}
          \/ m.store[s].verifier \in Of(s) \ revoked
       /\ \/ m.store[s].tokens = maps.store[s].tokens
          \/ m.store[s].tokens \in Of(s) \ revoked

\* Calls of F are over, or exchange a code; others go on to be started.
Evolves(F) ==
  /\ Started' = Started
  /\ \A f \in Started :
       /\ flow'[f].server = flow[f].server /\ flow'[f].redirect = flow[f].redirect
       /\ flow'[f].state = flow[f].state
       /\ \/ f \in F /\ flow'[f].at = "over" /\ flow'[f].kind = Null /\ flow'[f].waits = Null
          \/ /\ flow'[f].kind = flow[f].kind /\ flow'[f].waits = flow[f].waits
             /\ \/ f \in F /\ flow[f].at = "awaiting" /\ flow'[f].at = "exchanging"
                \/ f \notin F /\ flow'[f].at = flow[f].at
                \/ f \notin F /\ {flow[f].at, flow'[f].at} \subseteq Sdk
                \/ f \notin F /\ {flow[f].at, flow'[f].at} \subseteq Starting \ Sdk

LEMMA EvolvesFacts ==
  ASSUME NEW F, Evolves(F)
  PROVE  /\ \A s : Of(s)' = Of(s) /\ Out(s)' = Out(s)
         /\ \A f \in Started : /\ HandedOut(f)' <=> HandedOut(f)
                               /\ flow'[f].at \in Starting => flow[f].at \in Starting
                               /\ flow'[f].at \in Sdk => flow[f].at \in Sdk
                               /\ flow'[f].kind \in {flow[f].kind, Null}
                               /\ flow'[f].waits \in {flow[f].waits, Null}
<1>1. \A f \in Started : /\ HandedOut(f)' <=> HandedOut(f)
                         /\ flow'[f].at \in Starting => flow[f].at \in Starting
                         /\ flow'[f].at \in Sdk => flow[f].at \in Sdk
                         /\ flow'[f].kind \in {flow[f].kind, Null}
                         /\ flow'[f].waits \in {flow[f].waits, Null}
  BY DEF Evolves, HandedOut, Started, Starting, Sdk
<1>2. ASSUME NEW s PROVE Of(s)' = Of(s)
  BY DEF Evolves, Of
<1>3. ASSUME NEW s PROVE Out(s)' = Out(s)
  BY <1>1, <1>2 DEF Out, Of
<1> QED BY <1>1, <1>2, <1>3

LEMMA QuietOwn ==
  ASSUME StoreInv, CallInv, OneAuthentication, NEW m, NEW F, Agrees(m, F), Loses(m, maps'), Evolves(F)
  PROVE  StoreInv' /\ CallInv' /\ OneAuthentication'
<1>0. Null \notin Flows
  BY FlowsFacts
<1>1. StoreInv'
  <2> SUFFICES ASSUME NEW s \in Servers
               PROVE  /\ maps'.store[s].state \in Of(s) \cup {Null}
                      /\ maps'.store[s].verifier \in Of(s) \cup {Null, Connection}
                      /\ maps'.store[s].tokens \in Of(s) \cup {Null}
                      /\ maps'.held[s] \in Out(s) \cup {Null}
    BY EvolvesFacts DEF StoreInv
  <2> QED BY DEF StoreInv, Agrees, Loses
<1>2. CallInv'
  <2>1. ASSUME NEW f \in Started
        PROVE  /\ flow'[f].at \in Starting => flow'[f].state = Null /\ flow'[f].kind # Null
               /\ flow'[f].state \in Of(flow[f].server)' \cup {Null}
               /\ flow'[f].waits \in Of(flow[f].server)' \cup {Null}
               /\ flow'[f].at \in {"awaiting", "exchanging"} =>
                    flow'[f].kind = "authenticate" /\ flow'[f].waits # Null
    <3>1. Of(flow[f].server)' = Of(flow[f].server)
      BY DEF Evolves, Of
    <3>2. /\ flow[f].at \in Starting => flow[f].state = Null /\ flow[f].kind # Null
          /\ flow[f].state \in Of(flow[f].server) \cup {Null}
          /\ flow[f].waits \in Of(flow[f].server) \cup {Null}
          /\ flow[f].at \in {"awaiting", "exchanging"} =>
               flow[f].kind = "authenticate" /\ flow[f].waits # Null
      BY DEF CallInv
    <3>3. flow'[f].waits \in {flow[f].waits, Null} /\ flow'[f].state = flow[f].state
      BY EvolvesFacts DEF Evolves
    <3>4. flow'[f].at \in Starting => flow[f].at \in Starting /\ flow'[f].kind = flow[f].kind
      BY DEF Evolves, Starting, Sdk
    <3>5. flow'[f].at \in {"awaiting", "exchanging"} =>
            /\ flow[f].at \in {"awaiting", "exchanging"}
            /\ flow'[f].kind = flow[f].kind /\ flow'[f].waits = flow[f].waits
      BY DEF Evolves, Starting, Sdk
    <3> QED BY <3>1, <3>2, <3>3, <3>4, <3>5
  <2>2. Started' = Started
    BY DEF Evolves
  <2> QED BY <2>1, <2>2 DEF CallInv
<1>3. OneAuthentication'
  <2>1. \A f \in Started : flow'[f].kind = "authenticate" =>
          flow[f].kind = "authenticate" /\ flow'[f].server = flow[f].server
    BY EvolvesFacts, FlowsFacts DEF Evolves
  <2>2. Started' = Started
    BY DEF Evolves
  <2> QED BY <2>1, <2>2 DEF OneAuthentication
<1> QED BY <1>1, <1>2, <1>3

LEMMA QuietAwait ==
  ASSUME CallInv, AwaitInv, NEW m, NEW F, Agrees(m, F), Rejects(m, maps'), Evolves(F),
         \A f \in F : flow[f].at = "awaiting" => maps.answer[f] # Null
  PROVE  AwaitInv'
<1>0. Null \notin Flows /\ Rejected \notin Flows /\ Rejected # Null
  BY FlowsFacts
<1>1. \A x \in Flows : maps.pending[x] # Null => maps.pending[x] \in Flows \ F
  BY DEF AwaitInv, PendingInv, Started
<1>2. ASSUME NEW f \in Flows
      PROVE  \/ maps'.answer[f] = m.answer[f]
             \/ maps'.answer[f] = Rejected /\ f \notin F /\ f \in Started /\ flow[f].at = "awaiting"
  <2>1. CASE maps'.answer[f] # m.answer[f]
    <3>1. PICK x \in Flows : m.pending[x] = f
      BY <2>1 DEF Rejects
    <3>2. maps.pending[x] = f /\ f # Null
      BY <1>0, <3>1 DEF Agrees
    <3>3. f \notin F /\ f \in Started /\ flow[f].at = "awaiting"
      BY <1>1, <3>2 DEF AwaitInv, PendingInv
    <3> QED BY <2>1, <3>3 DEF Rejects
  <2> QED BY <2>1
<1>3. PendingInv'
  <2> SUFFICES ASSUME NEW x \in Flows, maps'.pending[x] # Null, NEW f, f = maps'.pending[x]
               PROVE  /\ f \in Started /\ flow'[f].at = "awaiting" /\ flow'[f].waits = x
                      /\ maps'.answer[f] = Null
    BY DEF PendingInv, Evolves
  <2>1. f = maps.pending[x]
    BY DEF Rejects, Agrees
  <2>2. f \in Started /\ flow[f].at = "awaiting" /\ flow[f].waits = x /\ maps.answer[f] = Null
    BY <2>1 DEF AwaitInv, PendingInv
  <2>3. flow'[f].at = "awaiting" /\ flow'[f].waits = x
    BY <1>1, <2>1, <2>2 DEF Evolves, Sdk, Starting
  <2>4. m.answer[f] = Null /\ f \in Flows
    BY <2>2 DEF Agrees, Started
  <2>5. ASSUME maps'.answer[f] # m.answer[f] PROVE FALSE
    <3>1. PICK y \in Flows : m.pending[y] = f /\ maps'.pending[y] = Null
      BY <2>4, <2>5 DEF Rejects
    <3>2. flow[f].waits = y
      BY <3>1, <2>1 DEF Agrees, AwaitInv, PendingInv
    <3> QED BY <2>2, <3>1, <3>2
  <2> QED BY <2>2, <2>3, <2>4, <2>5
<1>4. AnswerInv'
  <2> SUFFICES ASSUME NEW f \in Flows, maps'.answer[f] # Null
               PROVE  /\ f \in Started /\ flow'[f].at = "awaiting"
                      /\ maps'.answer[f] \in Flows =>
                           /\ maps'.answer[f] \in Out(flow'[f].server)
                           /\ flow'[maps'.answer[f]].state = flow'[f].waits
    BY EvolvesFacts DEF AnswerInv, Evolves
  <2>1. f \notin F /\ f \in Started /\ flow[f].at = "awaiting"
    BY <1>2 DEF Agrees, AwaitInv, AnswerInv
  <2>2. flow'[f].at = "awaiting" /\ flow'[f].waits = flow[f].waits /\ flow'[f].server = flow[f].server
    BY <2>1 DEF Evolves, Sdk, Starting
  <2>3. CASE maps'.answer[f] = Rejected
    BY <1>0, <2>1, <2>2, <2>3
  <2>4. CASE maps'.answer[f] # Rejected
    <3>1. maps'.answer[f] = maps.answer[f]
      BY <1>2, <2>1, <2>4 DEF Agrees
    <3>2. ASSUME maps.answer[f] \in Flows
          PROVE  /\ maps.answer[f] \in Out(flow[f].server)
                 /\ flow[maps.answer[f]].state = flow[f].waits
      BY <3>2, <1>0 DEF AwaitInv, AnswerInv
    <3>3. \A g \in Out(flow[f].server) : flow'[g].state = flow[g].state
      BY DEF Out, Of, Evolves
    <3> QED BY <2>1, <2>2, <3>1, <3>2, <3>3
  <2> QED BY <2>3, <2>4
<1>5. CallbacksAreAnswered'
  <2> SUFFICES ASSUME NEW f \in Started, flow'[f].at = "awaiting", maps'.answer[f] = Null
               PROVE  maps'.pending[flow'[f].waits] = f
    BY DEF CallbacksAreAnswered, Evolves
  <2>1. f \notin F /\ flow[f].at = "awaiting" /\ flow'[f].waits = flow[f].waits /\ f \in Flows
    BY DEF Evolves, Sdk, Starting, Started
  <2>2. m.answer[f] = Null /\ maps.answer[f] = Null
    BY <1>0, <1>2, <2>1 DEF Agrees
  <2>3. maps.pending[flow[f].waits] = f
    BY <2>1, <2>2 DEF AwaitInv, CallbacksAreAnswered
  <2>4. flow[f].waits \in Flows
    BY <2>1 DEF CallInv, Of, Started
  <2> QED BY <1>0, <2>1, <2>3, <2>4 DEF Rejects, Agrees
<1> QED BY <1>3, <1>4, <1>5 DEF AwaitInv

LEMMA StartedCalls ==
  ASSUME TypeInv
  PROVE  \A f \in Started : flow[f] \in Call /\ flow[f].server \in Servers /\ f \in Of(flow[f].server)
BY DEF TypeInv, Started, Call, NoFlow, Of

LEMMA QuietReserve ==
  ASSUME TypeInv, OwnInv, ReserveInv, NEW m, NEW F, Agrees(m, F), Loses(m, maps'), Evolves(F),
         forgotten \subseteq forgotten',
         \A f \in F : flow[f].at \in Starting /\ f \in maps'.reserved =>
           maps'.held[flow[f].server] = f \/ f \in forgotten'
  PROVE  ReserveInv'
<1> SUFFICES ASSUME NEW x \in maps'.reserved
             PROVE  /\ x \in Started /\ flow'[x].at \in Reserving
                    /\ \/ flow'[x].at \in Starting \/ maps'.held[flow'[x].server] = x
                       \/ x \in forgotten'
  BY DEF ReserveInv, ReservationsAreReleased, Evolves
<1>1. x \in maps.reserved
  BY DEF Loses, Agrees
<1>2. x \in Started /\ flow[x].at \in Reserving
  BY <1>1 DEF ReserveInv
<1>3. /\ flow'[x].at \in Reserving /\ flow'[x].server = flow[x].server
      /\ x \in F \/ (flow'[x].at \in Starting <=> flow[x].at \in Starting)
  BY <1>2 DEF Evolves, Reserving, Starting, Sdk
<1>4. maps.held[flow[x].server] = x => maps'.held[flow[x].server] = x
  BY <1>2, StartedCalls DEF Loses, Agrees
<1>5. flow[x].at \in Starting \/ maps.held[flow[x].server] = x \/ x \in forgotten
  BY <1>1 DEF ReserveInv, ReservationsAreReleased
<1> QED BY <1>2, <1>3, <1>4, <1>5

LEMMA QuietCross ==
  ASSUME TypeInv, StartsCross, StoredCross, AwaitedCross, HeldCross,
         NEW m, NEW F, Agrees(m, F), Loses(m, maps'), Evolves(F), crossed' = crossed
  PROVE  StartsCross' /\ StoredCross' /\ AwaitedCross' /\ HeldCross'
<1>0. Null \notin Flows
  BY FlowsFacts
<1>1. Started' = Started
  BY DEF Evolves
<1>2. StartsCross'
  BY <1>1, EvolvesFacts DEF StartsCross, Crossing, Evolves
<1>4. AwaitedCross'
  <2> SUFFICES ASSUME NEW f \in Started, NEW x \in {flow'[f].state, flow'[f].waits}, x \in Flows, x # f
               PROVE  x \in crossed /\ f \in crossed
    BY <1>1 DEF AwaitedCross
  <2>1. x \in {flow[f].state, flow[f].waits}
    BY <1>0, EvolvesFacts DEF Evolves
  <2> QED BY <2>1 DEF AwaitedCross
<1>5. HeldCross'
  <2> SUFFICES ASSUME NEW s \in Servers, NEW x, x = maps'.store[s].state,
                      x \in Out(s), x \notin crossed, maps'.held[s] # Null
               PROVE  maps'.held[s] = x
    BY EvolvesFacts DEF HeldCross
  <2>1. x # Null
    BY <1>0 DEF Out, Of, Started
  <2>2. maps.store[s].state = x /\ maps'.held[s] = maps.held[s]
    BY <2>1 DEF Loses, Agrees
  <2> QED BY <2>2 DEF HeldCross
<1>3. StoredCross'
  <2> SUFFICES ASSUME NEW f \in Started, flow'[f].at \in Sdk,
                      NEW x \in Flows, x = maps'.store[flow'[f].server].state, x # f
               PROVE  x \in crossed /\ f \in crossed
    BY <1>1 DEF StoredCross
  <2>1. flow[f].at \in Sdk /\ flow'[f].server = flow[f].server
    BY EvolvesFacts DEF Evolves
  <2>2. x = maps.store[flow[f].server].state
    BY <1>0, <2>1, StartedCalls DEF Loses, Agrees
  <2> QED BY <2>1, <2>2 DEF StoredCross
<1> QED BY <1>2, <1>3, <1>4, <1>5

LEMMA QuietExchanges ==
  ASSUME ExchangeInv, CodesMeetTheirFlow, SentInv, NEW F, Evolves(F),
         crossed' = crossed, \A e \in exchanges' : e.verifier = e.code => e.code \notin revoked' \ revoked,
         exchanges' \subseteq exchanges, \A e \in exchanges' : e.by \notin F
  PROVE  ExchangeInv' /\ CodesMeetTheirFlow' /\ SentInv'
<1>1. ExchangeInv'
  <2> SUFFICES ASSUME NEW e \in exchanges'
               PROVE  /\ e.code \in Out(e.server)
                      /\ e.transport \in Out(e.server)
                      /\ e.by \in {f \in Of(e.server) : flow'[f].at = "exchanging"} \cup {Null}
                      /\ e.state \in Of(e.server) \cup {Null}
                      /\ \A d \in exchanges' : e.by # Null /\ d.by = e.by => d = e
    BY EvolvesFacts DEF ExchangeInv
  <2>1. e.by \in Of(e.server) /\ flow[e.by].at = "exchanging" => flow'[e.by].at = "exchanging"
    BY DEF Evolves, Of, Starting, Sdk
  <2> QED BY <2>1 DEF ExchangeInv
<1>2. CodesMeetTheirFlow'
  BY DEF CodesMeetTheirFlow
<1>3. SentInv'
  BY DEF SentInv
<1> QED BY <1>1, <1>2, <1>3

LEMMA QuietTaken ==
  ASSUME TakenInv, NEW m, NEW F, Agrees(m, F), Loses(m, maps'), Evolves(F), revoked' = revoked
  PROVE  TakenInv'
<1>0. Null \notin Flows /\ Connection \notin Flows
  BY FlowsFacts
<1>1. revoked \subseteq Flows
  BY DEF TakenInv, Started
<1>2. \A f \in revoked : f \in Started' /\ HandedOut(f)'
  BY EvolvesFacts DEF TakenInv, Evolves
<1>3. ASSUME NEW s \in Servers
      PROVE  maps'.store[s].verifier \notin revoked /\ maps'.store[s].tokens \notin revoked
  <2>1. m.store[s].verifier \notin revoked /\ m.store[s].tokens \notin revoked
    BY <1>0, <1>1 DEF Agrees, TakenInv, LogoutIsFinal
  <2> QED BY <1>0, <1>1, <2>1 DEF Loses
<1> QED BY <1>2, <1>3 DEF TakenInv, LogoutIsFinal

Binding == {"listening", "closing"}

LEMMA QuietServer ==
  ASSUME TypeInv, ServerInv, NEW m, NEW F, NEW X, Agrees(m, F), Loses(m, maps'), Unstores(m, maps', X),
         Evolves(F), Waiting(maps)' \subseteq Waiting(maps),
         \A f \in Started : {flow[f].at, flow'[f].at} \cap Binding # {} => flow'[f].at = flow[f].at,
         UNCHANGED <<server, stopping, orphans, crossed>>,
         \A f \in X : f \in Regular => flow'[f].at \notin Sdk
  PROVE  ServerInv'
<1>1. Started' = Started /\ Regular' = Regular
  BY DEF Evolves, Regular
<1>0. \A f \in Started : /\ flow'[f].at = "listening" <=> flow[f].at = "listening"
                         /\ flow'[f].at = "closing" <=> flow[f].at = "closing"
                         /\ flow'[f].server = flow[f].server
  BY DEF Binding, Evolves
<1>2. BindingInv'
  BY <1>0, <1>1 DEF ServerInv, BindingInv
<1>3. PortInv'
  BY <1>0, <1>1 DEF ServerInv, PortInv
<1>4. KeptInv'
  <2> SUFFICES ASSUME NEW f \in Regular, f \in maps'.reserved \cup Waiting(maps)'
               PROVE  /\ flow[f].redirect \in Endpoints
                      /\ server.binding = Null /\ ~server.closing
                      /\ server.server = Socket(flow[f].redirect)
                      /\ server.at.path = flow[f].redirect.path
    BY <1>1 DEF KeptInv, Evolves, Regular
  <2>1. f \in maps.reserved \cup Waiting(maps)
    BY DEF Loses, Agrees
  <2> QED BY <2>1 DEF ServerInv, KeptInv
<1>5. StoredIsReserved'
  <2> SUFFICES ASSUME NEW f \in Regular, flow'[f].at \in Sdk, maps'.store[flow'[f].server].state = f
               PROVE  f \in maps'.reserved
    BY <1>1 DEF StoredIsReserved
  <2>1. f \in Started /\ f # Null
    BY FlowsFacts DEF Regular, Started
  <2>2. /\ flow[f].at \in Sdk /\ flow'[f].server = flow[f].server
        /\ flow[f].server \in Servers /\ f \in Of(flow[f].server)
    BY <2>1, StartedCalls, EvolvesFacts DEF Evolves
  <2>3. m.store[flow[f].server].state = f
    BY <2>1, <2>2 DEF Loses
  <2>4. f \in m.reserved
    BY <2>2, <2>3 DEF ServerInv, StoredIsReserved, Agrees
  <2>5. f \notin X
    OBVIOUS
  <2> QED BY <2>2, <2>4, <2>5 DEF Unstores
<1> QED BY <1>2, <1>3, <1>4, <1>5 DEF ServerInv

\* All but the server, the exchanges and what a logout took.
LEMMA QuietMost ==
  ASSUME IInv, NEW m, NEW F, NEW X, Agrees(m, F), Shrinks(m, maps', X), Evolves(F),
         crossed' = crossed, forgotten \subseteq forgotten',
         \A f \in F : flow[f].at = "awaiting" => maps.answer[f] # Null,
         \A f \in F : flow[f].at \in Starting /\ f \in maps'.reserved =>
           maps'.held[flow[f].server] = f \/ f \in forgotten'
  PROVE  /\ maps' \in Maps
         /\ StoreInv' /\ CallInv' /\ OneAuthentication' /\ AwaitInv' /\ ReserveInv'
         /\ StartsCross' /\ StoredCross' /\ AwaitedCross' /\ HeldCross'
<1> USE DEF Shrinks
<1>1. StoreInv' /\ CallInv' /\ OneAuthentication'
  BY QuietOwn DEF IInv, OwnInv
<1>2. AwaitInv'
  BY QuietAwait DEF IInv, OwnInv
<1>3. ReserveInv'
  BY QuietReserve DEF IInv
<1>4. StartsCross' /\ StoredCross' /\ AwaitedCross' /\ HeldCross'
  BY QuietCross DEF IInv, CrossInv
<1> QED BY <1>1, <1>2, <1>3, <1>4

LEMMA QuietKeeps ==
  ASSUME IInv, NEW m, NEW F, NEW X, Agrees(m, F), Shrinks(m, maps', X), Evolves(F),
         flow' \in [Flows -> {NoFlow} \cup Call],
         \A f \in F : flow[f].at = "awaiting" => maps.answer[f] # Null,
         \A f \in F : flow[f].at \in Starting /\ f \in maps'.reserved =>
           maps'.held[flow[f].server] = f \/ f \in forgotten',
         \A f \in Started : {flow[f].at, flow'[f].at} \cap Binding # {} => flow'[f].at = flow[f].at,
         \A f \in X : f \in Regular => flow'[f].at \notin Sdk,
         exchanges' \subseteq exchanges, \A e \in exchanges' : e.by \notin F,
         UNCHANGED <<server, stopping, orphans, crossed, revoked>>,
         forgotten \subseteq forgotten'
  PROVE  IInv'
<1>1. /\ maps' \in Maps
      /\ StoreInv' /\ CallInv' /\ OneAuthentication' /\ AwaitInv' /\ ReserveInv'
      /\ StartsCross' /\ StoredCross' /\ AwaitedCross' /\ HeldCross'
  BY QuietMost
<1>2. ExchangeInv' /\ CodesMeetTheirFlow' /\ SentInv'
  BY QuietExchanges DEF IInv, OwnInv, CrossInv, RevokedInv
<1>3. TakenInv'
  BY QuietTaken DEF IInv, RevokedInv, Shrinks
<1>4. Waiting(maps)' \subseteq Waiting(maps)
  BY DEF Waiting, Shrinks, Rejects, Agrees
<1>5. ServerInv'
  BY <1>4, QuietServer DEF IInv, Shrinks
<1>6. TypeInv'
  BY <1>1 DEF IInv, TypeInv
<1> QED BY <1>1, <1>2, <1>3, <1>5, <1>6 DEF IInv, OwnInv, CrossInv, RevokedInv

LEMMA SameEvolves ==
  ASSUME flow' = flow
  PROVE  Evolves({})
BY DEF Evolves, Started

LEMMA OverEvolves ==
  ASSUME TypeInv, NEW F \in SUBSET Started,
         flow' = [g \in Flows |-> IF g \in F THEN Over(flow[g]) ELSE flow[g]]
  PROVE  /\ Evolves(F) /\ flow' \in [Flows -> {NoFlow} \cup Call]
         /\ \A g \in F : flow'[g].at = "over"
         /\ \A g \in Flows \ F : flow'[g] = flow[g]
<1>1. \A g \in F : g \in Flows /\ flow[g] \in Call
  BY StartedCalls DEF Started
<1>2. ASSUME NEW g \in F
      PROVE  /\ flow'[g] = Over(flow[g]) /\ flow'[g] \in Call
             /\ flow'[g].server = flow[g].server /\ flow'[g].redirect = flow[g].redirect
             /\ flow'[g].state = flow[g].state
             /\ flow'[g].at = "over" /\ flow'[g].kind = Null /\ flow'[g].waits = Null
  BY <1>1 DEF Over, Call, FlowOrNull
<1>3. \A g \in Flows \ F : flow'[g] = flow[g]
  OBVIOUS
<1>4. flow' \in [Flows -> {NoFlow} \cup Call]
  BY <1>2, <1>3 DEF TypeInv
<1>5. Started' = Started
  BY <1>2, <1>3 DEF Started
<1>6. Evolves(F)
  BY <1>2, <1>3, <1>5 DEF Evolves, Started
<1> QED BY <1>2, <1>3, <1>4, <1>6

LEMMA SettlesEvolves ==
  ASSUME TypeInv, NEW f \in Started, Settles(f)
  PROVE  /\ Evolves({f}) /\ flow' \in [Flows -> {NoFlow} \cup Call]
         /\ flow'[f].at = "over" /\ \A g \in Flows \ {f} : flow'[g] = flow[g]
<1>1. flow' = [g \in Flows |-> IF g \in {f} THEN Over(flow[g]) ELSE flow[g]]
  BY DEF Settles, TypeInv, Started
<1> QED BY <1>1, OverEvolves

\* A call that is being started goes on.
LEMMA GoesEvolves ==
  ASSUME TypeInv, NEW f \in Started, NEW at, NEW r \in BOOLEAN,
         flow' = [flow EXCEPT ![f] = [flow[f] EXCEPT !.at = at, !.retried = r]],
         {flow[f].at, at} \subseteq Sdk \/ {flow[f].at, at} \subseteq Starting \ Sdk
  PROVE  /\ Evolves({}) /\ flow' \in [Flows -> {NoFlow} \cup Call]
         /\ flow'[f].at = at /\ \A g \in Flows \ {f} : flow'[g] = flow[g]
<1>1. f \in Flows /\ flow[f] \in Call
  BY StartedCalls DEF Started
<1>2. /\ flow'[f] \in Call /\ flow'[f].at = at
      /\ flow'[f].server = flow[f].server /\ flow'[f].redirect = flow[f].redirect
      /\ flow'[f].state = flow[f].state /\ flow'[f].kind = flow[f].kind
      /\ flow'[f].waits = flow[f].waits
  BY <1>1 DEF Call, TypeInv, Sdk, Starting
<1>3. \A g \in Flows \ {f} : flow'[g] = flow[g]
  BY DEF TypeInv
<1>4. flow' \in [Flows -> {NoFlow} \cup Call]
  BY <1>2, <1>3 DEF TypeInv
<1>5. Started' = Started
  BY <1>2, <1>3 DEF Started, Sdk, Starting
<1>6. Evolves({})
  BY <1>2, <1>3, <1>5 DEF Evolves, Started
<1> QED BY <1>2, <1>3, <1>4, <1>6

LEMMA MapsAgree ==
  ASSUME TypeInv, TakenInv, StoreInv
  PROVE  Agrees(maps, {})
BY FlowsFacts DEF Agrees, TypeInv, TakenInv, LogoutIsFinal, StoreInv

LEMMA ShrinksNot ==
  ASSUME NEW m \in Maps
  PROVE  Shrinks(m, m, {})
BY DEF Shrinks, Loses, Rejects, Unstores

-----------------------------------------------------------------------------
(***************************************************************************)
(* The steps of this kind: those of the timers, the browser and a          *)
(* connection, ...                                                         *)
(***************************************************************************)
LEMMA SameFlows ==
  ASSUME IInv, NEW m, Agrees(m, {}), NEW X, Shrinks(m, maps', X),
         \A f \in X : f \in Regular => flow[f].at \notin Sdk,
         UNCHANGED <<server, flow, exchanges, stopping, ghosts>>
  PROVE  IInv'
<1>1. Evolves({})
  BY SameEvolves
<1>2. QED BY <1>1, QuietKeeps DEF ghosts, IInv, TypeInv

\* A provider's redirect URI is an endpoint.
LEMMA SnapshotsTyped ==
  ASSUME IInv, NEW s \in Servers
  PROVE  Snapshots(s) \subseteq Endpoints
<1> DEFINE earlier == {flow[f].redirect : f \in {g \in Started : flow[g].redirect # Null}}
           kept == {Configured, server.at} \cup earlier
<1>1. Asked \subseteq Endpoints /\ Configured \in Asked /\ server.at \in Endpoints
  BY EndpointsAssumption DEF IInv, TypeInv, Server, Asked
<1>2. earlier \subseteq Endpoints
  <2> SUFFICES ASSUME NEW g \in Started, flow[g].redirect # Null
               PROVE  flow[g].redirect \in Endpoints
    OBVIOUS
  <2>1. flow[g] \in Call
    BY DEF IInv, TypeInv, Started, NoFlow
  <2> QED BY <2>1 DEF Call
<1>3. \A e \in kept : [e EXCEPT !.host = Configured.host] \in Endpoints
  <2>1. kept \subseteq Endpoints
    BY <1>1, <1>2
  <2> HIDE DEF kept
  <2> QED BY <1>1, <2>1 DEF Endpoints
<1>4. CASE s \in DOMAIN Endpoint
  BY <1>1, <1>4 DEF Snapshots, Asked
<1>5. CASE s \notin DOMAIN Endpoint
  <2>1. Snapshots(s) = {[e EXCEPT !.host = Configured.host] : e \in kept}
    BY <1>5 DEF Snapshots
  <2> HIDE DEF kept
  <2> QED BY <1>3, <2>1
<1> QED BY <1>4, <1>5

LEMMA ConnectionAsksKeeps ==
  ASSUME IInv, NEW s \in Servers, ConnectionAsks(s)
  PROVE  IInv'
<1> DEFINE e == maps.store[s]
<1>10. PICK client \in IF s \in Preregistered \/ e.client # Null THEN {e.client} ELSE Snapshots(s) :
         maps' = [maps EXCEPT !.store[s] =
           [e EXCEPT !.client = client,
                     !.verifier = IF e.state = Null THEN @ ELSE Connection]]
  BY DEF ConnectionAsks
<1> DEFINE d == [e EXCEPT !.client = client,
                          !.verifier = IF e.state = Null THEN @ ELSE Connection]
<1>1. maps \in Maps /\ e \in Entry /\ Agrees(maps, {})
  BY MapsAgree DEF IInv, OwnInv, RevokedInv, TypeInv, Maps
<1>2. client \in Endpoints \cup {Null}
  <2>1. CASE s \in Preregistered \/ e.client # Null
    BY <1>1, <1>10, <2>1 DEF Entry
  <2>2. CASE ~(s \in Preregistered \/ e.client # Null)
    BY <1>10, <2>2, SnapshotsTyped
  <2> QED BY <2>1, <2>2
<1>3. /\ d \in Entry /\ d.state = e.state /\ d.tokens = e.tokens
      /\ d.verifier \in {e.verifier, Connection}
  BY <1>1, <1>2 DEF Entry, FlowOrNull
<1>4. maps' = [maps EXCEPT !.store[s] = d]
  BY <1>10
<1> HIDE DEF d
<1>5. /\ maps' \in Maps
      /\ maps'.reserved = maps.reserved /\ maps'.pending = maps.pending
      /\ maps'.answer = maps.answer /\ maps'.held = maps.held
      /\ maps'.store[s] = d
      /\ \A t \in Servers : t # s => maps'.store[t] = maps.store[t]
  BY <1>1, <1>3, <1>4, StoreWritten
<1>6. Agrees(maps', {})
  BY <1>1, <1>3, <1>5 DEF Agrees
<1>7. Shrinks(maps', maps', {})
  BY <1>5, ShrinksNot
<1> QED BY <1>6, <1>7, SameFlows DEF ConnectionAsks, others

LEMMA CleanupTimerKeeps ==
  ASSUME IInv, NEW s \in Servers, CleanupTimer(s)
  PROVE  IInv'
<1>1. maps \in Maps /\ Agrees(maps, {})
  BY MapsAgree DEF IInv, OwnInv, RevokedInv, TypeInv
<1>2. maps.held[s] \in Of(s) \cup {Null}
  BY DEF IInv, OwnInv, StoreInv, Out
<1>3. Shrinks(maps, maps', {})
  BY <1>1, <1>2, ClearPendingShrinks DEF CleanupTimer
<1> QED BY <1>1, <1>3, SameFlows DEF CleanupTimer, others

LEMMA CallbackTimeoutKeeps ==
  ASSUME IInv, NEW x \in Flows, CallbackTimeout(x)
  PROVE  IInv'
<1>1. maps \in Maps /\ Agrees(maps, {})
  BY MapsAgree DEF IInv, OwnInv, RevokedInv, TypeInv
<1>3. Shrinks(maps, maps', {})
  BY <1>1, AnswerShrinks DEF CallbackTimeout
<1> QED BY <1>1, <1>3, SameFlows DEF CallbackTimeout, others

LEMMA BrowserDenies ==
  ASSUME IInv, NEW f \in Flows, BrowserReturns(f, FALSE)
  PROVE  IInv'
<1> DEFINE x == flow[f].state
<1>1. maps \in Maps /\ Agrees(maps, {})
  BY MapsAgree DEF IInv, OwnInv, RevokedInv, TypeInv
<1>2. f \in Started /\ x \in Of(flow[f].server) /\ x # Null
  BY DEF BrowserReturns, HandedOut, Started, IInv, OwnInv, CallInv
<1>3. x \in Started /\ x \in Flows
  BY <1>2 DEF Of, Started
<1>4. x \in Regular => flow[x].at \notin Sdk
  <2>1. CASE x = f
    BY <2>1, <1>2 DEF IInv, OwnInv, CallInv, Sdk, Starting
  <2>2. CASE x # f
    BY <2>2, <1>2, <1>3 DEF IInv, CrossInv, AwaitedCross, Regular
  <2> QED BY <2>1, <2>2
<1>5. Shrinks(maps, maps', {x})
  BY <1>1, <1>3, CancelShrinks DEF BrowserReturns
<1> QED BY <1>1, <1>4, <1>5, SameFlows DEF BrowserReturns, others

\* A code is brought to the call that waits for it.
LEMMA BrowserGrants ==
  ASSUME IInv, NEW f \in Flows, BrowserReturns(f, TRUE)
  PROVE  IInv'
<1> DEFINE x == flow[f].state
           g == maps.pending[x]
<1>0. Null \notin Flows
  BY FlowsFacts
<1>1. maps \in Maps /\ Agrees(maps, {}) /\ Shrinks(maps, maps, {})
  BY MapsAgree, ShrinksNot DEF IInv, OwnInv, RevokedInv, TypeInv
<1>2. f \in Started /\ HandedOut(f) /\ x \in Of(flow[f].server) /\ x # Null
  BY DEF BrowserReturns, HandedOut, Started, IInv, OwnInv, CallInv
<1>3. x \in Flows /\ x \in Started /\ flow[x].server = flow[f].server
  BY <1>2 DEF Of, Started
<1>4. CASE g = Null
  <2>1. maps' = maps
    BY <1>4 DEF BrowserReturns, Answer
  <2> QED BY <1>1, <2>1, SameFlows DEF BrowserReturns, others
<1>5. CASE g # Null
  <2>1. g \in Started /\ flow[g].at = "awaiting" /\ flow[g].waits = x /\ maps.answer[g] = Null
    BY <1>3, <1>5 DEF IInv, AwaitInv, PendingInv
  <2>2. /\ maps'.reserved = maps.reserved /\ maps'.store = maps.store /\ maps'.held = maps.held
        /\ maps'.pending = [maps.pending EXCEPT ![x] = Null]
        /\ maps'.answer = [maps.answer EXCEPT ![g] = f]
    BY <1>1, <1>5 DEF BrowserReturns, Answer, Maps
  <2>3. maps' \in Maps
    BY <1>1, <1>5, <2>1 DEF BrowserReturns, Answer, Maps, FlowOrNull, Started
  <2>4. flow[g].server = flow[f].server
    <3>1. x \in Of(flow[g].server)
      BY <2>1, <1>2 DEF IInv, OwnInv, CallInv
    <3> QED BY <3>1, <1>3 DEF Of
  <2>5. /\ g \in Flows
        /\ \A y \in Flows : y # x => maps'.pending[y] = maps.pending[y]
        /\ maps'.pending[x] = Null /\ maps'.answer[g] = f
        /\ \A h \in Flows : h # g => maps'.answer[h] = maps.answer[h]
    BY <1>1, <1>3, <2>1, <2>2 DEF Maps, Started
  <2>6. f \in Out(flow[g].server)
    BY <1>2, <2>4 DEF Out, Of
  <2>7. flow' = flow
    BY DEF BrowserReturns
  <2>8. AwaitInv'
    <3>1. PendingInv'
      <4> SUFFICES ASSUME NEW y \in Flows, maps'.pending[y] # Null, NEW h, h = maps'.pending[y]
                   PROVE  h \in Started /\ flow[h].at = "awaiting" /\ flow[h].waits = y /\ maps'.answer[h] = Null
        BY <2>7 DEF PendingInv, Started
      <4>1. y # x /\ h = maps.pending[y]
        BY <2>5
      <4>2. h \in Started /\ flow[h].at = "awaiting" /\ flow[h].waits = y /\ maps.answer[h] = Null
        BY <4>1 DEF IInv, AwaitInv, PendingInv
      <4> QED BY <2>1, <2>5, <4>1, <4>2 DEF Started
    <3>2. AnswerInv'
      BY <1>0, <2>1, <2>5, <2>6, <2>7 DEF IInv, AwaitInv, AnswerInv, Out, Of, Started, HandedOut
    <3>3. CallbacksAreAnswered'
      <4> SUFFICES ASSUME NEW h \in Started, flow[h].at = "awaiting", maps'.answer[h] = Null
                   PROVE  maps'.pending[flow[h].waits] = h
        BY <2>7 DEF CallbacksAreAnswered, Started
      <4>1. h # g /\ h \in Flows /\ maps.answer[h] = Null
        BY <1>0, <2>5 DEF Started
      <4>2. maps.pending[flow[h].waits] = h
        BY <4>1 DEF IInv, AwaitInv, CallbacksAreAnswered
      <4>3. flow[h].waits \in Flows
        BY DEF IInv, OwnInv, CallInv, Of, Started
      <4> QED BY <2>5, <4>1, <4>2, <4>3
    <3> QED BY <3>1, <3>2, <3>3 DEF AwaitInv
  <2>9. Evolves({})
    BY <2>7, SameEvolves
  <2>10. Loses(maps, maps') /\ Unstores(maps, maps', {})
    BY <2>2 DEF Loses, Unstores
  <2>11. Waiting(maps)' \subseteq Waiting(maps)
    BY <2>5 DEF Waiting
  <2>12. UNCHANGED <<server, flow, exchanges, stopping, ghosts>>
    BY DEF BrowserReturns, others
  <2>13. StoreInv' /\ CallInv' /\ OneAuthentication'
    BY <1>1, <2>9, <2>10, QuietOwn DEF IInv, OwnInv
  <2>14. ReserveInv'
    BY <1>1, <2>9, <2>10, <2>12, QuietReserve DEF IInv, ghosts
  <2>15. StartsCross' /\ StoredCross' /\ AwaitedCross' /\ HeldCross'
    BY <1>1, <2>9, <2>10, <2>12, QuietCross DEF IInv, CrossInv, ghosts
  <2>16. ExchangeInv' /\ CodesMeetTheirFlow' /\ SentInv'
    BY <2>9, <2>12, QuietExchanges DEF IInv, OwnInv, CrossInv, RevokedInv, ghosts
  <2>17. TakenInv'
    BY <1>1, <2>9, <2>10, <2>12, QuietTaken DEF IInv, RevokedInv, ghosts
  <2>18. ServerInv'
    BY <1>1, <2>9, <2>10, <2>11, <2>12, QuietServer DEF IInv, ghosts
  <2>19. TypeInv'
    BY <2>3, <2>12 DEF IInv, TypeInv, ghosts
  <2> QED BY <2>8, <2>13, <2>14, <2>15, <2>16, <2>17, <2>18, <2>19 DEF IInv, OwnInv, CrossInv, RevokedInv
<1> QED BY <1>4, <1>5

-----------------------------------------------------------------------------
(***************************************************************************)
(* ... the SDK's, and those that end a call.                               *)
(***************************************************************************)
LEMMA StartThrowsKeeps ==
  ASSUME IInv, NEW f \in Started, flow[f].at \in Sdk, NEW m, Agrees(m, {}), StartThrows(f, m)
  PROVE  IInv'
<1> DEFINE s == flow[f].server
<1>1. s \in Servers /\ f \in Of(s) /\ f \in Flows
  BY StartedCalls DEF IInv, Started
<1>2. m \in Maps /\ m.held[s] \in Of(s) \cup {Null}
  BY <1>1 DEF Agrees, IInv, OwnInv, StoreInv, Out
<1>3. Agrees(m, {f})
  <2>1. maps.answer[f] = Null
    BY <1>1 DEF IInv, AwaitInv, AnswerInv, Sdk
  <2> QED BY <2>1 DEF Agrees
<1>4. /\ Shrinks(m, maps', {})
      /\ m.held[s] \in {Null, f} => f \notin maps'.reserved
  BY <1>1, <1>2, ClearPendingShrinks DEF StartThrows
<1>5. f \in maps'.reserved => f \in forgotten'
  BY <1>4 DEF StartThrows
<1>6. /\ Evolves({f}) /\ flow' \in [Flows -> {NoFlow} \cup Call]
      /\ flow'[f].at = "over" /\ \A g \in Flows \ {f} : flow'[g] = flow[g]
  BY SettlesEvolves DEF StartThrows, IInv
<1>7. \A e \in exchanges : e.by # f
  BY <1>1, FlowsFacts DEF IInv, OwnInv, ExchangeInv, Sdk
<1>8. UNCHANGED <<server, exchanges, stopping, orphans, crossed, revoked>> /\ forgotten \subseteq forgotten'
  BY DEF StartThrows, others
<1>9. \A g \in Started : {flow[g].at, flow'[g].at} \cap Binding # {} => flow'[g].at = flow[g].at
  BY <1>6 DEF Binding, Sdk, Started
<1>10. \A g \in {f} : flow[g].at = "awaiting" => maps.answer[g] # Null
  BY DEF Sdk
<1> QED BY <1>3, <1>4, <1>5, <1>6, <1>7, <1>8, <1>9, <1>10, QuietKeeps

\* A call goes on within the SDK.
LEMMA SdkGoesOn ==
  ASSUME IInv, NEW f \in Started, flow[f].at \in Sdk, NEW m, Agrees(m, {}), Shrinks(m, maps', {}),
         NEW at \in Sdk, NEW r \in BOOLEAN,
         flow' = [flow EXCEPT ![f] = [flow[f] EXCEPT !.at = at, !.retried = r]],
         UNCHANGED <<server, exchanges, others, ghosts>>
  PROVE  IInv'
<1>1. /\ Evolves({}) /\ flow' \in [Flows -> {NoFlow} \cup Call]
      /\ flow'[f].at = at /\ \A g \in Flows \ {f} : flow'[g] = flow[g]
  <2>1. TypeInv /\ {flow[f].at, at} \subseteq Sdk
    BY DEF IInv
  <2> QED BY <2>1, GoesEvolves
<1>2. \A g \in Started : {flow[g].at, flow'[g].at} \cap Binding # {} => flow'[g].at = flow[g].at
  BY <1>1 DEF Binding, Sdk, Started
<1>3. \A e \in exchanges : e.by \notin {}
  OBVIOUS
<1> QED BY <1>1, <1>2, <1>3, QuietKeeps DEF others, ghosts

LEMMA SdkRefreshesKeeps ==
  ASSUME IInv, NEW f \in Flows, SdkRefreshes(f)
  PROVE  IInv'
<1> DEFINE s == flow[f].server
           e == [maps.store[s] EXCEPT !.tokens = f]
           saved == [maps EXCEPT !.store[s].tokens = f]
           released == ReleaseCallbackServer(saved, f)
<1>1. f \in Started /\ flow[f].at \in Sdk
  BY DEF SdkRefreshes, Started, Sdk
<1>2. s \in Servers /\ f \in Of(s)
  BY <1>1, StartedCalls DEF IInv
<1>3. maps \in Maps /\ maps.store[s] \in Entry /\ Agrees(maps, {})
  BY <1>2, MapsAgree DEF IInv, OwnInv, RevokedInv, TypeInv, Maps
<1>4. f \notin revoked
  BY <1>1 DEF IInv, OwnInv, CallInv, RevokedInv, TakenInv, HandedOut, Starting, Sdk
<1>5. maps.answer[f] = Null
  BY <1>1 DEF IInv, AwaitInv, AnswerInv, Sdk
<1>6. /\ e \in Entry /\ e.state = maps.store[s].state /\ e.tokens = f
      /\ e.verifier = maps.store[s].verifier
  BY <1>3 DEF Entry, FlowOrNull
<1>7. saved = [maps EXCEPT !.store[s] = e]
  OBVIOUS
<1> HIDE DEF e, saved
<1>8. /\ saved \in Maps
      /\ saved.reserved = maps.reserved /\ saved.pending = maps.pending
      /\ saved.answer = maps.answer /\ saved.held = maps.held
      /\ saved.store[s] = e
      /\ \A t \in Servers : t # s => saved.store[t] = maps.store[t]
  BY <1>2, <1>3, <1>6, <1>7, StoreWritten
<1>9. Agrees(saved, {f})
  BY <1>2, <1>3, <1>4, <1>5, <1>6, <1>8 DEF Agrees
<1>10. Shrinks(saved, released, {f})
  BY <1>8, ReleaseShrinks
<1>11. Shrinks(released, maps', {})
  BY <1>2, <1>10, ClearStateShrinks DEF SdkRefreshes, Shrinks, saved
<1>12. Shrinks(saved, maps', {f} \cup {})
  <2>1. released \in Maps
    BY <1>10 DEF Shrinks
  <2> HIDE DEF released
  <2> QED BY <1>8, <1>10, <1>11, <2>1, ShrinksTwice
<1>13. /\ Evolves({f}) /\ flow' \in [Flows -> {NoFlow} \cup Call]
       /\ flow'[f].at = "over" /\ \A g \in Flows \ {f} : flow'[g] = flow[g]
  BY <1>1, SettlesEvolves DEF SdkRefreshes, IInv
<1>14. f \notin maps'.reserved
  <2>1. f \notin released.reserved
    BY <1>8 DEF ReleaseCallbackServer, Maps
  <2> HIDE DEF released
  <2> QED BY <2>1, <1>11 DEF Shrinks, Loses
<1>15. \A d \in exchanges : d.by # f
  BY <1>1, FlowsFacts DEF IInv, OwnInv, ExchangeInv, Sdk
<1>16. \A g \in Started : {flow[g].at, flow'[g].at} \cap Binding # {} => flow'[g].at = flow[g].at
  BY <1>1, <1>13 DEF Binding, Sdk, Started
<1>17. \A g \in {f} : flow[g].at = "awaiting" => maps.answer[g] # Null
  BY <1>1 DEF Sdk
<1>18. UNCHANGED <<server, exchanges, stopping, orphans, crossed, revoked, forgotten>>
  BY DEF SdkRefreshes, others, ghosts
<1>19. \A g \in {f} \cup {} : g \in Regular => flow'[g].at \notin Sdk
  BY <1>13 DEF Sdk
<1> QED BY <1>9, <1>12, <1>13, <1>14, <1>15, <1>16, <1>17, <1>18, <1>19, QuietKeeps

\* authenticate throws: f no longer waits.
LEMMA AuthenticateThrowsKeeps ==
  ASSUME IInv, NEW f \in Started, flow[f].at \in {"awaiting", "exchanging"},
         flow[f].at = "awaiting" => maps.answer[f] # Null,
         NEW k, NEW m, Agrees(k, {f}), Shrinks(k, m, {}), AuthenticateThrows(f, m),
         exchanges' \subseteq exchanges, \A e \in exchanges' : e.by # f,
         UNCHANGED <<server, others, ghosts>>
  PROVE  IInv'
<1> DEFINE s == flow[f].server
           x == flow[f].waits
           n == CancelPendingCallback(m, x)
<1>1. s \in Servers /\ f \in Of(s) /\ f \in Flows
  BY StartedCalls DEF IInv, Started
<1>2. x \in Of(s) /\ x \in Flows
  BY DEF IInv, OwnInv, CallInv, Of, Started
<1>3. k \in Maps /\ m \in Maps /\ m.held[s] \in Of(s) \cup {Null}
  BY <1>1 DEF Agrees, Shrinks, Loses, IInv, OwnInv, StoreInv, Out
<1>4. Shrinks(m, n, {x})
  BY <1>2, <1>3, CancelShrinks
<1>5. n \in Maps /\ n.held[s] \in Of(s) \cup {Null}
  BY <1>1, <1>3, <1>4 DEF Shrinks, Loses
<1>6. Shrinks(n, maps', {})
  BY <1>1, <1>2, <1>5, ClearPendingShrinks DEF AuthenticateThrows
<1>7. Shrinks(k, maps', ({} \cup {x}) \cup {})
  <2> HIDE DEF n
  <2>1. Shrinks(k, n, {} \cup {x})
    BY <1>3, <1>4, <1>5, ShrinksTwice
  <2> QED BY <2>1, <1>3, <1>5, <1>6, ShrinksTwice
<1>8. /\ Evolves({f}) /\ flow' \in [Flows -> {NoFlow} \cup Call]
      /\ flow'[f].at = "over" /\ \A g \in Flows \ {f} : flow'[g] = flow[g]
  BY SettlesEvolves DEF AuthenticateThrows, IInv
<1>9. \A g \in ({} \cup {x}) \cup {} : g \in Regular => flow'[g].at \notin Sdk
  <2>1. CASE x = f
    BY <2>1, <1>8 DEF Sdk
  <2>2. CASE x # f
    BY <2>2, <1>2 DEF IInv, CrossInv, AwaitedCross, Regular
  <2> QED BY <2>1, <2>2
<1>10. \A g \in Started : {flow[g].at, flow'[g].at} \cap Binding # {} => flow'[g].at = flow[g].at
  BY <1>8 DEF Binding, Started
<1>11. flow[f].at \notin Starting
  BY DEF Starting
<1> QED BY <1>7, <1>8, <1>9, <1>10, <1>11, QuietKeeps DEF others, ghosts

LEMMA TakenAgrees ==
  ASSUME IInv, NEW f \in Started
  PROVE  /\ Agrees(Taken(f), {f}) /\ Taken(f).store = maps.store /\ Taken(f).held = maps.held
         /\ Shrinks(Taken(f), Taken(f), {})
<1>1. maps \in Maps /\ f \in Flows /\ Agrees(maps, {})
  BY MapsAgree DEF IInv, OwnInv, RevokedInv, TypeInv, Started
<1>2. /\ Taken(f) \in Maps
      /\ Taken(f).reserved = maps.reserved /\ Taken(f).pending = maps.pending
      /\ Taken(f).answer = [maps.answer EXCEPT ![f] = Null]
      /\ Taken(f).store = maps.store /\ Taken(f).held = maps.held
  BY <1>1 DEF Taken, Maps, FlowOrNull
<1>3. \A g \in Flows : Taken(f).answer[g] = IF g \in {f} THEN Null ELSE maps.answer[g]
  BY <1>1, <1>2 DEF Maps
<1> QED BY <1>1, <1>2, <1>3, ShrinksNot DEF Agrees

LEMMA CallbackRejectedKeeps ==
  ASSUME IInv, NEW f \in Flows, CallbackRejected(f)
  PROVE  IInv'
<1>1. f \in Started /\ flow[f].at = "awaiting" /\ maps.answer[f] # Null
  BY FlowsFacts DEF CallbackRejected, Started
<1>2. \A e \in exchanges : e.by # f
  BY <1>1, FlowsFacts DEF IInv, OwnInv, ExchangeInv
<1> QED BY <1>1, <1>2, TakenAgrees, AuthenticateThrowsKeeps DEF CallbackRejected

\* A call that is given its callback exchanges the code for the flow it awaited.
LEMMA CallbackArrivesKeeps ==
  ASSUME IInv, NEW f \in Flows, CallbackArrives(f)
  PROVE  IInv'
<1> DEFINE s == flow[f].server
           cleared == ClearOAuthState(Taken(f), s)
           c == maps.answer[f]
           e == [by |-> f, server |-> s, transport |-> cleared.held[s],
                 code |-> c, state |-> cleared.store[s].state, verifier |-> Null]
<1>0. Null \notin Flows
  BY FlowsFacts
<1>1. f \in Started /\ flow[f].at = "awaiting" /\ c # Null /\ c \in Flows
  BY <1>0 DEF CallbackArrives, Started
<1>2. s \in Servers /\ f \in Of(s)
  BY <1>1, StartedCalls DEF IInv
<1>3. \A d \in exchanges : d.by # f
  BY <1>1, FlowsFacts DEF IInv, OwnInv, ExchangeInv
<1>4. /\ Agrees(Taken(f), {f}) /\ Taken(f).store = maps.store /\ Taken(f).held = maps.held
      /\ Taken(f) \in Maps
  BY <1>1, TakenAgrees DEF Agrees
<1>5. Shrinks(Taken(f), cleared, {})
  BY <1>2, <1>4, ClearStateShrinks
<1>6. CASE ~MayComplete(f)
  <2>1. AuthenticateThrows(f, cleared) /\ exchanges' = exchanges /\ UNCHANGED <<server, others, ghosts>>
    BY <1>6 DEF CallbackArrives
  <2> HIDE DEF cleared
  <2> QED BY <1>1, <1>3, <1>4, <1>5, <2>1, AuthenticateThrowsKeeps
<1>7. CASE MayComplete(f)
  <2>1. /\ maps' = cleared /\ maps.store[s].state = flow[f].waits /\ maps.held[s] # Null
        /\ exchanges' = exchanges \cup {e}
        /\ flow' = [flow EXCEPT ![f].at = "exchanging"]
        /\ UNCHANGED <<server, others, ghosts>>
    BY <1>7 DEF CallbackArrives, CompleteAuth, Goes, MayComplete
  <2>2. cleared.held = maps.held /\ cleared.store[s].state = Null
    BY <1>2, <1>4 DEF ClearOAuthState, Maps, Entry
  <2>3. Evolves({f}) /\ flow' \in [Flows -> {NoFlow} \cup Call]
        /\ flow'[f].at = "exchanging" /\ \A g \in Flows \ {f} : flow'[g] = flow[g]
    <3>1. flow[f] \in Call
      BY <1>1, StartedCalls DEF IInv
    <3>2. /\ flow'[f] = [flow[f] EXCEPT !.at = "exchanging"]
          /\ flow' \in [Flows -> {NoFlow} \cup Call]
          /\ \A g \in Flows \ {f} : flow'[g] = flow[g]
      BY <2>1, <3>1 DEF IInv, TypeInv, Call
    <3>3. Started' = Started
      BY <1>1, <3>1, <3>2 DEF Started, Call
    <3> QED BY <1>1, <3>1, <3>2, <3>3 DEF Evolves, Call, Started
  <2> HIDE DEF cleared
  <2>4. Shrinks(Taken(f), maps', {})
    BY <1>5, <2>1
  <2>5. \A g \in {f} : /\ flow[g].at = "awaiting" /\ maps.answer[g] # Null
                       /\ flow[g].at \notin Starting
    BY <1>1 DEF Starting
  <2>6. /\ maps' \in Maps
        /\ StoreInv' /\ CallInv' /\ OneAuthentication' /\ AwaitInv' /\ ReserveInv'
        /\ StartsCross' /\ StoredCross' /\ AwaitedCross' /\ HeldCross'
    BY <1>4, <2>1, <2>3, <2>4, <2>5, QuietMost DEF ghosts
  <2>7. TakenInv'
    BY <1>4, <2>1, <2>3, <2>4, QuietTaken DEF IInv, RevokedInv, Shrinks, ghosts
  <2>8. ServerInv'
    <3>1. Waiting(maps)' \subseteq Waiting(maps)
      BY <1>4, <2>4 DEF Waiting, Shrinks, Rejects, Agrees
    <3>2. \A g \in Started : {flow[g].at, flow'[g].at} \cap Binding # {} => flow'[g].at = flow[g].at
      BY <1>1, <2>3 DEF Binding, Started
    <3> QED BY <1>4, <2>1, <2>3, <2>4, <3>1, <3>2, QuietServer DEF IInv, Shrinks, ghosts, others
  <2>9. /\ c \in Out(s) /\ maps.held[s] \in Out(s)
        /\ flow[c].state = flow[f].waits
    BY <1>1, <1>2, <2>1 DEF IInv, AwaitInv, AnswerInv, OwnInv, StoreInv
  <2>10. ExchangeInv'
    <3> SUFFICES ASSUME NEW d \in exchanges'
                 PROVE  /\ d.code \in Out(d.server)
                        /\ d.transport \in Out(d.server)
                        /\ d.by \in {g \in Of(d.server) : flow'[g].at = "exchanging"} \cup {Null}
                        /\ d.state \in Of(d.server) \cup {Null}
                        /\ \A b \in exchanges' : d.by # Null /\ b.by = d.by => b = d
      BY <2>3, EvolvesFacts DEF ExchangeInv
    <3>1. CASE d = e
      BY <1>2, <1>3, <2>1, <2>2, <2>3, <2>9, <3>1
    <3>2. CASE d \in exchanges
      <4>1. /\ d.code \in Out(d.server) /\ d.transport \in Out(d.server)
            /\ d.by \in {g \in Of(d.server) : flow[g].at = "exchanging"} \cup {Null}
            /\ d.state \in Of(d.server) \cup {Null}
            /\ \A b \in exchanges : d.by # Null /\ b.by = d.by => b = d
        BY <3>2 DEF IInv, OwnInv, ExchangeInv
      <4>2. d.by # f
        BY <1>3, <3>2
      <4>3. d.by # Null => flow'[d.by].at = "exchanging"
        BY <2>3, <4>1, <4>2 DEF Of, Started
      <4> QED BY <2>1, <4>1, <4>2, <4>3
    <3> QED BY <2>1, <3>1, <3>2
  <2>11. CodesMeetTheirFlow'
    <3>1. ASSUME c \notin crossed
          PROVE  maps.held[s] = c
      <4>1. flow[f].waits \in Flows
        BY <1>1 DEF IInv, OwnInv, CallInv, Of, Started
      <4>2. c \in Started
        BY <2>9 DEF Out, Of
      <4>3. flow[f].waits = c
        BY <2>9, <3>1, <4>1, <4>2 DEF IInv, CrossInv, AwaitedCross
      <4> QED BY <1>2, <2>1, <2>9, <3>1, <4>3 DEF IInv, CrossInv, HeldCross
    <3> QED BY <2>1, <2>2, <3>1 DEF IInv, CrossInv, CodesMeetTheirFlow, ghosts
  <2>12. SentInv'
    BY <1>0, <1>1, <2>1 DEF IInv, RevokedInv, SentInv, ghosts
  <2>13. e \in Exchange
    BY <1>1, <1>2, <2>2, <2>9 DEF Exchange, FlowOrNull, Out, Of, Started
  <2>14. TypeInv'
    BY <2>1, <2>3, <2>6, <2>13 DEF IInv, TypeInv, others, ghosts
  <2> QED BY <2>6, <2>7, <2>8, <2>10, <2>11, <2>12, <2>14 DEF IInv, OwnInv, CrossInv, RevokedInv
<1> QED BY <1>6, <1>7

-----------------------------------------------------------------------------
(***************************************************************************)
(* Pasted codes and exchanges.                                             *)
(***************************************************************************)
\* Steps of the exchanges alone.
LEMMA OnlyExchanges ==
  ASSUME IInv, UNCHANGED <<maps, server, flow, stopping, ghosts>>,
         ExchangeInv', CodesMeetTheirFlow', SentInv', exchanges' \subseteq Exchange
  PROVE  IInv'
<1> USE DEF ghosts
<1>1. maps \in Maps /\ Agrees(maps, {}) /\ Shrinks(maps, maps', {}) /\ Evolves({})
  BY MapsAgree, ShrinksNot, SameEvolves DEF IInv, OwnInv, RevokedInv, TypeInv
<1>2. /\ StoreInv' /\ CallInv' /\ OneAuthentication' /\ AwaitInv' /\ ReserveInv'
      /\ StartsCross' /\ StoredCross' /\ AwaitedCross' /\ HeldCross'
  BY <1>1, QuietMost
<1>3. TakenInv'
  BY <1>1, QuietTaken DEF IInv, RevokedInv, Shrinks
<1>4. ServerInv'
  <2>1. Waiting(maps)' \subseteq Waiting(maps)
    BY DEF Waiting
  <2> QED BY <1>1, <2>1, QuietServer DEF IInv, Shrinks
<1>5. TypeInv'
  BY DEF IInv, TypeInv
<1> QED BY <1>2, <1>3, <1>4, <1>5 DEF IInv, OwnInv, CrossInv, RevokedInv

LEMMA CompleteAuthFromInputKeeps ==
  ASSUME IInv, NEW f \in Flows, NEW codeOnly \in BOOLEAN, CompleteAuthFromInput(f, codeOnly)
  PROVE  IInv'
<1> DEFINE s == flow[f].server
           e == [by |-> Null, server |-> s, transport |-> maps.held[s],
                 code |-> f, state |-> maps.store[s].state, verifier |-> Null]
<1>0. Null \notin Flows
  BY FlowsFacts
<1>1. /\ f \in Started /\ HandedOut(f) /\ maps.held[s] # Null
      /\ exchanges' = exchanges \cup {e}
      /\ UNCHANGED <<maps, server, flow, stopping, ghosts>>
  BY DEF CompleteAuthFromInput, HandedOut, Started, CompleteAuth
<1>2. s \in Servers /\ f \in Out(s)
  BY <1>1, StartedCalls DEF IInv, Out
<1>3. maps.held[s] \in Out(s) /\ maps.store[s].state \in Of(s) \cup {Null}
  BY <1>1, <1>2 DEF IInv, OwnInv, StoreInv
<1>4. ExchangeInv'
  <2> SUFFICES ASSUME NEW d \in exchanges'
               PROVE  /\ d.code \in Out(d.server)
                      /\ d.transport \in Out(d.server)
                      /\ d.by \in {g \in Of(d.server) : flow[g].at = "exchanging"} \cup {Null}
                      /\ d.state \in Of(d.server) \cup {Null}
                      /\ \A b \in exchanges' : d.by # Null /\ b.by = d.by => b = d
    BY <1>1 DEF ExchangeInv, Out, Of, Started, HandedOut
  <2>1. CASE d = e
    BY <1>2, <1>3, <2>1
  <2>2. CASE d \in exchanges
    BY <1>1, <2>2 DEF IInv, OwnInv, ExchangeInv
  <2> QED BY <1>1, <2>1, <2>2
<1>5. CodesMeetTheirFlow' /\ SentInv'
  BY <1>0, <1>1 DEF IInv, CrossInv, RevokedInv, CodesMeetTheirFlow, SentInv, ghosts
<1>6. exchanges' \subseteq Exchange
  BY <1>1, <1>2, <1>3 DEF IInv, TypeInv, Exchange, FlowOrNull, Out, Of, Started
<1> QED BY <1>1, <1>4, <1>5, <1>6, OnlyExchanges

LEMMA ReadVerifierKeeps ==
  ASSUME IInv, NEW e \in exchanges, ReadVerifier(e)
  PROVE  IInv'
<1> DEFINE v == maps.store[e.server].verifier
           d == [e EXCEPT !.verifier = v]
<1>1. e \in Exchange /\ maps \in Maps
  BY DEF IInv, TypeInv
<1>2. v \in FlowOrNull \cup {Connection} /\ v \notin revoked
  BY <1>1 DEF Exchange, Maps, Entry, IInv, RevokedInv, TakenInv
<1>3. /\ d \in Exchange /\ d.verifier = v /\ d.by = e.by /\ d.server = e.server
      /\ d.transport = e.transport /\ d.code = e.code /\ d.state = e.state
  BY <1>1, <1>2 DEF Exchange
<1>4. exchanges' = (exchanges \ {e}) \cup {d}
  BY DEF ReadVerifier, Replaces
<1>5. UNCHANGED <<maps, server, flow, stopping, ghosts>>
  BY DEF ReadVerifier, others
<1> HIDE DEF d, v
<1>6. \A b \in exchanges' : \E a \in exchanges :
        /\ b.by = a.by /\ b.server = a.server /\ b.transport = a.transport
        /\ b.code = a.code /\ b.state = a.state
        /\ b = IF a = e THEN d ELSE a
  BY <1>3, <1>4
<1>7. ExchangeInv'
  <2> SUFFICES ASSUME NEW b \in exchanges'
               PROVE  /\ b.code \in Out(b.server)
                      /\ b.transport \in Out(b.server)
                      /\ b.by \in {g \in Of(b.server) : flow[g].at = "exchanging"} \cup {Null}
                      /\ b.state \in Of(b.server) \cup {Null}
                      /\ \A c \in exchanges' : b.by # Null /\ c.by = b.by => c = b
    BY <1>5 DEF ExchangeInv, Out, Of, Started, HandedOut
  <2>1. PICK a \in exchanges : /\ b.by = a.by /\ b.server = a.server /\ b.transport = a.transport
                               /\ b.code = a.code /\ b.state = a.state
                               /\ b = IF a = e THEN d ELSE a
    BY <1>6
  <2>2. \A c \in exchanges' : b.by # Null /\ c.by = b.by => c = b
    BY <1>6, <2>1 DEF IInv, OwnInv, ExchangeInv
  <2> QED BY <2>1, <2>2 DEF IInv, OwnInv, ExchangeInv
<1>8. CodesMeetTheirFlow'
  BY <1>5, <1>6 DEF IInv, CrossInv, CodesMeetTheirFlow, ghosts
<1>9. SentInv'
  BY <1>2, <1>3, <1>4, <1>5 DEF IInv, RevokedInv, SentInv, ghosts
<1>10. exchanges' \subseteq Exchange
  BY <1>3, <1>4 DEF IInv, TypeInv
<1> QED BY <1>5, <1>7, <1>8, <1>9, <1>10, OnlyExchanges

\* A call that exchanged a code, or nobody, is what an exchange is by.
LEMMA ByIsExchanging ==
  ASSUME IInv, NEW e \in exchanges
  PROVE  /\ e.server \in Servers /\ e.code \in Of(e.server)
         /\ maps.held[e.server] \in Of(e.server) \cup {Null}
         /\ e.state \in Of(e.server) \cup {Null}
         /\ e.by # Null => /\ e.by \in Started /\ flow[e.by].at = "exchanging"
                           /\ maps.answer[e.by] = Null
                           /\ \A d \in exchanges \ {e} : d.by # e.by
<1>1. e.server \in Servers
  BY DEF IInv, TypeInv, Exchange
<1>2. e.by # Null => e.by \in Started /\ flow[e.by].at = "exchanging" /\ e.by \in Flows
  BY DEF IInv, OwnInv, ExchangeInv, Of, Started
<1>3. e.by # Null => maps.answer[e.by] = Null
  BY <1>2 DEF IInv, AwaitInv, AnswerInv
<1>4. \A d \in exchanges \ {e} : e.by # Null => d.by # e.by
  BY DEF IInv, OwnInv, ExchangeInv
<1> QED BY <1>1, <1>2, <1>3, <1>4 DEF IInv, OwnInv, ExchangeInv, StoreInv, Out

LEMMA ExchangeSucceedsKeeps ==
  ASSUME IInv, NEW e \in exchanges, ExchangeSucceeds(e)
  PROVE  IInv'
<1> DEFINE s == e.server
           d == [maps.store[s] EXCEPT !.tokens = e.code]
           saved == [maps EXCEPT !.store[s].tokens = e.code]
           F == IF e.by = Null THEN {} ELSE {e.by}
<1>1. maps \in Maps /\ Agrees(maps, {})
  BY MapsAgree DEF IInv, OwnInv, RevokedInv, TypeInv
<1>2. s \in Servers /\ e.code \in Of(s) /\ e.code \in Flows /\ maps.store[s] \in Entry
  BY <1>1, ByIsExchanging DEF Of, Started, Maps
<1>3. e.code \notin revoked
  BY DEF ExchangeSucceeds, IInv, RevokedInv, SentInv
<1>4. /\ d \in Entry /\ d.state = maps.store[s].state /\ d.tokens = e.code
      /\ d.verifier = maps.store[s].verifier
  BY <1>2 DEF Entry, FlowOrNull
<1>5. saved = [maps EXCEPT !.store[s] = d] /\ maps' = ClearPendingAuth(saved, s, e.state)
  BY DEF ExchangeSucceeds
<1> HIDE DEF d, saved
<1>6. /\ saved \in Maps
      /\ saved.reserved = maps.reserved /\ saved.pending = maps.pending
      /\ saved.answer = maps.answer /\ saved.held = maps.held
      /\ saved.store[s] = d
      /\ \A t \in Servers : t # s => saved.store[t] = maps.store[t]
  BY <1>1, <1>2, <1>4, <1>5, StoreWritten
<1>7. Agrees(saved, F)
  <2>1. \A f \in Flows : saved.answer[f] = IF f \in F THEN Null ELSE maps.answer[f]
    BY <1>6, ByIsExchanging
  <2> QED BY <1>1, <1>2, <1>3, <1>4, <1>6, <2>1 DEF Agrees
<1>8. Shrinks(saved, maps', {})
  BY <1>2, <1>5, <1>6, ByIsExchanging, ClearPendingShrinks
<1>9. /\ Evolves(F) /\ flow' \in [Flows -> {NoFlow} \cup Call]
      /\ \A g \in Started : {flow[g].at, flow'[g].at} \cap Binding # {} => flow'[g].at = flow[g].at
  <2>1. CASE e.by = Null
    BY <2>1, SameEvolves DEF ExchangeSucceeds, IInv, TypeInv
  <2>2. CASE e.by # Null
    <3>1. Settles(e.by) /\ e.by \in Started /\ flow[e.by].at = "exchanging" /\ F = {e.by}
      BY <2>2, ByIsExchanging DEF ExchangeSucceeds
    <3>2. /\ Evolves(F) /\ flow' \in [Flows -> {NoFlow} \cup Call]
          /\ flow'[e.by].at = "over" /\ \A g \in Flows \ {e.by} : flow'[g] = flow[g]
      BY <3>1, SettlesEvolves DEF IInv
    <3> QED BY <3>1, <3>2 DEF Binding, Started
  <2> QED BY <2>1, <2>2
<1>10. \A f \in F : flow[f].at # "awaiting" /\ flow[f].at \notin Starting
  BY ByIsExchanging DEF Starting
<1>11. exchanges' = exchanges \ {e} /\ \A b \in exchanges' : b.by \notin F
  BY ByIsExchanging DEF ExchangeSucceeds
<1>12. UNCHANGED <<server, others, ghosts>>
  BY DEF ExchangeSucceeds
<1> QED BY <1>7, <1>8, <1>9, <1>10, <1>11, <1>12, QuietKeeps DEF others, ghosts

LEMMA ExchangeFailsKeeps ==
  ASSUME IInv, NEW e \in exchanges, NEW what \in {"none", "tokens", "all"}, ExchangeFails(e, what)
  PROVE  IInv'
<1> DEFINE s == e.server
           invalid == Invalidate(maps, s, what)
           cleared == ClearPendingAuth(invalid, s, e.state)
<1>1. maps \in Maps /\ Agrees(maps, {}) /\ s \in Servers
  BY MapsAgree, ByIsExchanging DEF IInv, OwnInv, RevokedInv, TypeInv
<1>2. Shrinks(maps, invalid, {})
  BY <1>1, InvalidateShrinks
<1>3. invalid \in Maps /\ invalid.held[s] \in Of(s) \cup {Null}
  BY <1>1, <1>2, ByIsExchanging DEF Shrinks, Loses
<1>4. Shrinks(invalid, cleared, {})
  <2> HIDE DEF invalid
  <2> QED BY <1>1, <1>3, ByIsExchanging, ClearPendingShrinks
<1>5. Shrinks(maps, cleared, {})
  <2> HIDE DEF invalid, cleared
  <2> QED BY <1>1, <1>2, <1>3, <1>4, ShrinksTwice
<1>6. exchanges' = exchanges \ {e} /\ UNCHANGED <<server, others, ghosts>>
  BY DEF ExchangeFails
<1>7. CASE e.by = Null
  <2>1. maps' = cleared /\ flow' = flow
    BY <1>7 DEF ExchangeFails
  <2> HIDE DEF cleared
  <2>2. Evolves({}) /\ flow' \in [Flows -> {NoFlow} \cup Call]
    BY <2>1, SameEvolves DEF IInv, TypeInv
  <2> QED BY <1>1, <1>5, <1>6, <2>1, <2>2, QuietKeeps DEF others, ghosts
<1>8. CASE e.by # Null
  <2>1. AuthenticateThrows(e.by, cleared)
    BY <1>8 DEF ExchangeFails
  <2>2. Agrees(maps, {e.by})
    BY <1>1, <1>8, ByIsExchanging DEF Agrees
  <2>3. \A d \in exchanges' : d.by # e.by
    BY <1>6, <1>8, ByIsExchanging
  <2> HIDE DEF cleared
  <2> QED BY <1>5, <1>6, <1>8, <2>1, <2>2, <2>3, ByIsExchanging, AuthenticateThrowsKeeps
<1> QED BY <1>7, <1>8

-----------------------------------------------------------------------------
(***************************************************************************)
(* Logouts and shutdowns.                                                  *)
(***************************************************************************)
\* What is stored for another server is not that server's.
LEMMA LogoutKeeps ==
  ASSUME IInv, NEW s \in Servers, Logout(s)
  PROVE  IInv'
<1>0. Null \notin Flows /\ Connection \notin Flows
  BY FlowsFacts
<1>1. maps \in Maps /\ Agrees(maps, {})
  BY MapsAgree DEF IInv, OwnInv, RevokedInv, TypeInv
<1>2. Shrinks(maps, maps', {}) /\ maps'.store[s] = NoEntry
  BY <1>1, RemoveShrinks DEF Logout, IInv, OwnInv, StoreInv, Out
<1>3. /\ revoked' = revoked \cup (Out(s) \ Sent)
      /\ UNCHANGED <<server, flow, exchanges, stopping, orphans, crossed, forgotten>>
  BY DEF Logout, Out
<1>4. Evolves({})
  BY <1>3, SameEvolves
<1>5. /\ maps' \in Maps
      /\ StoreInv' /\ CallInv' /\ OneAuthentication' /\ AwaitInv' /\ ReserveInv'
      /\ StartsCross' /\ StoredCross' /\ AwaitedCross' /\ HeldCross'
  BY <1>1, <1>2, <1>3, <1>4, QuietMost
<1>6. \A e \in exchanges : e.verifier = e.code => e.code \in Sent
  <2> SUFFICES ASSUME NEW e \in exchanges, e.verifier = e.code
               PROVE  e.code \in Sent
    OBVIOUS
  <2>1. e.code \in Flows
    BY ByIsExchanging DEF Of, Started
  <2> QED BY <1>0, <2>1 DEF Sent
<1>7. ExchangeInv' /\ CodesMeetTheirFlow' /\ SentInv'
  BY <1>3, <1>4, <1>6, QuietExchanges DEF IInv, OwnInv, CrossInv, RevokedInv
<1>8. TakenInv'
  <2>1. \A f \in revoked' : f \in Started /\ HandedOut(f)
    BY <1>3 DEF IInv, RevokedInv, TakenInv, Out, Of
  <2>2. ASSUME NEW t \in Servers
        PROVE  maps'.store[t].verifier \notin revoked' /\ maps'.store[t].tokens \notin revoked'
    <3>0. Null \notin revoked'
      BY <1>0, <2>1 DEF Started
    <3>1. CASE t = s
      BY <1>2, <3>0, <3>1 DEF NoEntry
    <3>2. CASE t # s
      <4>1. /\ maps.store[t].verifier \notin Out(s) /\ maps.store[t].verifier \notin revoked
            /\ maps.store[t].tokens \notin Out(s) /\ maps.store[t].tokens \notin revoked
        BY <1>0, <3>2 DEF IInv, OwnInv, StoreInv, RevokedInv, TakenInv, LogoutIsFinal, Out, Of, Started
      <4> QED BY <1>2, <1>3, <3>0, <4>1 DEF Shrinks, Loses
    <3> QED BY <3>1, <3>2
  <2> QED BY <1>3, <2>1, <2>2 DEF TakenInv, LogoutIsFinal, HandedOut, Started
<1>9. ServerInv'
  <2>1. Waiting(maps)' \subseteq Waiting(maps)
    BY <1>2 DEF Waiting, Shrinks, Rejects
  <2> QED BY <1>1, <1>2, <1>3, <1>4, <2>1, QuietServer DEF IInv, Shrinks
<1>10. TypeInv'
  <2>1. revoked' \subseteq Flows
    BY <1>3 DEF IInv, TypeInv, Out, Of, Started
  <2> QED BY <1>3, <1>5, <2>1 DEF IInv, TypeInv
<1> QED BY <1>5, <1>7, <1>8, <1>9, <1>10 DEF IInv, OwnInv, CrossInv, RevokedInv

LEMMA StopTyped ==
  ASSUME TypeInv
  PROVE  /\ Stop(server) \in Server /\ Stop(server).server = Null /\ ~Stop(server).closing
         /\ Stop(server).binding = server.binding
<1>1. Configured \in Endpoints
  BY EndpointsAssumption DEF Asked
<1> QED BY <1>1 DEF TypeInv, Server, Stop

\* After a shutdown came no flow is regular.
LEMMA Overtaken ==
  ASSUME IInv, NEW m, NEW X, Agrees(m, {}), Shrinks(m, maps', X),
         UNCHANGED <<flow, exchanges, crossed, forgotten, revoked>>,
         Started \subseteq orphans', stopping' \in BOOLEAN, server' \in Server,
         server'.binding = server.binding, server'.closing => stopping',
         \/ server'.server = Null
         \/ /\ server'.server = server.server /\ server'.at = server.at
            /\ server'.candidate = server.candidate /\ server'.adrift = server.adrift
  PROVE  IInv'
<1>1. Evolves({}) /\ Started' = Started
  BY SameEvolves DEF Evolves
<1>2. /\ maps' \in Maps
      /\ StoreInv' /\ CallInv' /\ OneAuthentication' /\ AwaitInv' /\ ReserveInv'
      /\ StartsCross' /\ StoredCross' /\ AwaitedCross' /\ HeldCross'
  BY <1>1, QuietMost
<1>3. ExchangeInv' /\ CodesMeetTheirFlow' /\ SentInv'
  BY <1>1, QuietExchanges DEF IInv, OwnInv, CrossInv, RevokedInv
<1>4. TakenInv'
  BY <1>1, QuietTaken DEF IInv, RevokedInv, Shrinks
<1>5. Regular' = {}
  BY <1>1 DEF Regular
<1>6. BindingInv'
  BY <1>1 DEF IInv, ServerInv, BindingInv
<1>7. PortInv'
  BY <1>1 DEF IInv, ServerInv, PortInv
<1>8. KeptInv' /\ StoredIsReserved'
  BY <1>5 DEF KeptInv, StoredIsReserved
<1>9. TypeInv'
  BY <1>2 DEF IInv, TypeInv
<1> QED BY <1>2, <1>3, <1>4, <1>6, <1>7, <1>8, <1>9 DEF IInv, OwnInv, CrossInv, RevokedInv, ServerInv

LEMMA ShutdownKeeps ==
  ASSUME IInv, ShutdownOAuth \/ ShutdownEnds
  PROVE  IInv'
<1>1. maps \in Maps /\ Agrees(maps, {}) /\ \A s \in Servers : maps.held[s] \in Of(s) \cup {Null}
  BY MapsAgree DEF IInv, OwnInv, RevokedInv, TypeInv, StoreInv, Out
<1>2. TypeInv /\ stopping \in BOOLEAN /\ server \in Server
  BY DEF IInv, TypeInv
<1>3. Shrinks(maps, ClearAllPending(maps), {}) /\ ClearAllPending(maps) \in Maps
  BY <1>1, ClearAllShrinks DEF Shrinks
<1>4. CASE ShutdownOAuth /\ server.server = Null
  <2> DEFINE n == ClearAllPending(maps)
  <2>1. maps' = RejectAll(n) /\ server' = Stop(server)
    BY <1>4 DEF ShutdownOAuth, CallbackServerStops
  <2>2. Shrinks(maps, maps', {} \cup Flows)
    <3> HIDE DEF n
    <3>1. n \in Maps /\ Shrinks(maps, n, {})
      BY <1>3 DEF n
    <3> QED BY <1>1, <2>1, <3>1, RejectAllShrinks, ShrinksTwice
  <2>3. /\ UNCHANGED <<flow, exchanges, crossed, forgotten, revoked, stopping>>
        /\ Started \subseteq orphans'
    BY <1>4 DEF ShutdownOAuth
  <2> QED BY <1>1, <1>2, <2>1, <2>2, <2>3, StopTyped, Overtaken
<1>5. CASE ShutdownOAuth /\ server.server # Null
  <2>1. /\ maps' = ClearAllPending(maps) /\ server' = [server EXCEPT !.closing = TRUE]
        /\ stopping' = TRUE
        /\ UNCHANGED <<flow, exchanges, crossed, forgotten, revoked>>
        /\ Started \subseteq orphans'
    BY <1>5 DEF ShutdownOAuth
  <2>2. /\ server' \in Server /\ server'.binding = server.binding
        /\ server'.server = server.server /\ server'.at = server.at
        /\ server'.candidate = server.candidate /\ server'.adrift = server.adrift
    BY <1>2, <2>1 DEF Server
  <2>3. Shrinks(maps, maps', {})
    BY <1>3, <2>1
  <2>4. stopping' \in BOOLEAN /\ (server'.closing => stopping')
    BY <2>1
  <2> QED BY <1>1, <2>1, <2>2, <2>3, <2>4, Overtaken
<1>6. CASE ShutdownEnds
  <2>1. /\ maps' = RejectAll(maps) /\ server' = Stop(server) /\ stopping' = FALSE
        /\ UNCHANGED <<flow, exchanges, orphans, crossed, forgotten, revoked>> /\ stopping
    BY <1>6 DEF ShutdownEnds, CallbackServerStops, ghosts
  <2>2. Started \subseteq orphans'
    BY <2>1 DEF IInv, ServerInv, BindingInv
  <2>3. Shrinks(maps, maps', Flows)
    BY <1>1, <2>1, RejectAllShrinks
  <2> QED BY <1>1, <1>2, <2>1, <2>2, <2>3, StopTyped, Overtaken
<1> QED BY <1>4, <1>5, <1>6

-----------------------------------------------------------------------------
(***************************************************************************)
(* A flow hands out its URL.                                               *)
(***************************************************************************)
\* y is the state in the URL, x what is left of it to wait for.
LEMMA UrlIsKnownKeeps ==
  ASSUME IInv, NEW f \in Started, flow[f].at \in Sdk, NEW m, Agrees(m, {}),
         NEW s \in Servers, s = flow[f].server, maps.store[s].state # Null, UrlIsKnown(f, m)
  PROVE  IInv'
<1> DEFINE cleared == ClearPendingAuth(m, s, Null)
           kept == SetPendingTransport(m, s, f)
           y == m.store[s].state
           x == kept.store[s].state
           waits == flow[f].kind = "authenticate" /\ x # Null
<1>0. Null \notin Flows /\ Null # "authenticate"
  BY FlowsFacts
<1>1. s \in Servers /\ f \in Of(s) /\ f \in Flows /\ flow[f] \in Call
  BY StartedCalls DEF IInv, Started
<1>2. m \in Maps /\ m.held[s] \in Of(s) \cup {Null}
  BY <1>1 DEF Agrees, IInv, OwnInv, StoreInv, Out
<1>3. /\ Shrinks(m, cleared, {}) /\ cleared \in Maps /\ cleared.held[s] = Null
      /\ cleared.pending = maps.pending /\ cleared.answer = maps.answer
  <2>1. /\ Shrinks(m, cleared, {}) /\ cleared.held[s] = Null
        /\ cleared.pending = m.pending /\ cleared.answer = m.answer
    BY <1>1, <1>2, ClearPendingShrinks
  <2>2. m.pending = maps.pending /\ m.answer = maps.answer
    BY DEF Agrees, IInv, TypeInv, Maps
  <2> QED BY <2>1, <2>2 DEF Shrinks
<1>4. /\ kept.reserved = cleared.reserved /\ kept.pending = maps.pending
      /\ kept.answer = maps.answer /\ kept.store = cleared.store
      /\ kept.held = [cleared.held EXCEPT ![s] = f] /\ kept \in Maps
  <2>1. kept = [cleared EXCEPT !.held = [cleared.held EXCEPT ![s] = f]]
    BY DEF SetPendingTransport
  <2> HIDE DEF cleared, kept
  <2> QED BY <1>1, <1>3, <2>1 DEF Maps, FlowOrNull
<1>5. y = maps.store[s].state /\ y \in Of(s) /\ y \in Flows /\ y # Null
  BY <1>1 DEF Agrees, IInv, OwnInv, StoreInv, Of, Started
<1>6. x \in {y, Null}
  <2> HIDE DEF kept, cleared
  <2> QED BY <1>1, <1>3, <1>4 DEF Shrinks, Loses
<1>7. y # f => y \in crossed /\ f \in crossed
  BY <1>5 DEF IInv, CrossInv, StoredCross
<1>8. /\ server' = server /\ exchanges' = exchanges /\ stopping' = stopping
      /\ orphans' = orphans /\ crossed' = crossed /\ forgotten' = forgotten /\ revoked' = revoked
  BY DEF UrlIsKnown, others, ghosts
<1>9. /\ maps' \in Maps
      /\ maps'.held = [cleared.held EXCEPT ![s] = f] /\ maps'.store = cleared.store
      /\ maps'.answer = maps.answer
      /\ waits => /\ maps'.reserved = cleared.reserved \ {x}
                  /\ maps'.pending = [maps.pending EXCEPT ![x] = f]
      /\ ~waits => maps'.reserved = cleared.reserved /\ maps'.pending = maps.pending
  <2>1. CASE waits
    <3>1. maps' = WaitForCallback(kept, x, f)
      BY <2>1 DEF UrlIsKnown
    <3> HIDE DEF kept, cleared
    <3> QED BY <1>1, <1>4, <2>1, <3>1 DEF WaitForCallback, Maps, FlowOrNull
  <2>2. CASE ~waits
    <3>1. maps' = kept
      BY <2>2 DEF UrlIsKnown
    <3> HIDE DEF kept
    <3> QED BY <1>4, <2>2, <3>1
  <2> QED BY <2>1, <2>2
<1>10. /\ flow'[f] \in Call /\ flow'[f].server = s /\ flow'[f].redirect = flow[f].redirect
       /\ flow'[f].state = y
       /\ waits => flow'[f].at = "awaiting" /\ flow'[f].waits = x /\ flow'[f].kind = "authenticate"
       /\ ~waits => flow'[f].at = "over" /\ flow'[f].waits = Null /\ flow'[f].kind = Null
       /\ \A g \in Flows \ {f} : flow'[g] = flow[g]
       /\ flow' \in [Flows -> {NoFlow} \cup Call]
  <2> DEFINE known == [flow EXCEPT ![f].state = y]
  <2>1. /\ known[f] = [flow[f] EXCEPT !.state = y] /\ known[f] \in Call
        /\ known \in [Flows -> {NoFlow} \cup Call]
        /\ \A g \in Flows \ {f} : known[g] = flow[g]
    <3>1. [flow[f] EXCEPT !.state = y] \in Call
      BY <1>1, <1>5 DEF Call, FlowOrNull
    <3> QED BY <1>1, <3>1 DEF IInv, TypeInv
  <2>2. known[f].server = s /\ known[f].redirect = flow[f].redirect
        /\ known[f].state = y /\ known[f].kind = flow[f].kind
    BY <1>1, <2>1 DEF Call
  <2>3. CASE waits
    <3>1. flow' = [known EXCEPT ![f].at = "awaiting", ![f].waits = x]
      BY <2>3 DEF UrlIsKnown
    <3>2. x \in Flows
      BY <1>5, <1>6, <2>3
    <3> HIDE DEF known, kept, cleared
    <3> QED BY <1>1, <2>1, <2>2, <2>3, <3>1, <3>2 DEF Call, FlowOrNull
  <2>4. CASE ~waits
    <3>1. flow' = [known EXCEPT ![f] = Over(@)]
      BY <2>4 DEF UrlIsKnown
    <3> HIDE DEF known, kept, cleared
    <3> QED BY <1>1, <2>1, <2>2, <2>4, <3>1 DEF Call, FlowOrNull, Over
  <2> QED BY <2>3, <2>4
<1>11. Started' = Started
  BY <1>1, <1>10 DEF Started, Call
<1>12. /\ \A t : Of(t)' = Of(t)
       /\ \A t : Out(t) \subseteq Out(t)' /\ Out(t)' \subseteq Out(t) \cup {f}
       /\ \A t \in Servers \ {s} : Out(t)' = Out(t)
       /\ f \in Out(s)'
       /\ \A g \in Started \ {f} : HandedOut(g)' <=> HandedOut(g)
  <2>1. \A g \in Started : flow'[g].server = flow[g].server
    BY <1>10, <1>11 DEF Started
  <2>2. ASSUME NEW t PROVE Of(t)' = Of(t)
    BY <1>11, <2>1 DEF Of
  <2>3. \A g \in Started \ {f} : HandedOut(g)' <=> HandedOut(g)
    BY <1>10 DEF Started, HandedOut
  <2>4. HandedOut(f)'
    BY <1>5, <1>10 DEF HandedOut, Call, Starting, Sdk
  <2>5. \A t : Out(t)' = {g \in Of(t) : HandedOut(g)'}
    BY <2>2 DEF Out
  <2>6. \A t \in Servers \ {s} : f \notin Of(t)
    BY DEF Of
  <2> HIDE DEF waits, x, y, kept, cleared
  <2>7. \A t : Of(t) \subseteq Started
    BY DEF Of
  <2>8. ~HandedOut(f)
    BY DEF IInv, OwnInv, CallInv, HandedOut, Starting, Sdk
  <2>9. ASSUME NEW t
        PROVE  Out(t) \subseteq Out(t)' /\ Out(t)' \subseteq Out(t) \cup {f}
    <3>1. Out(t)' = {g \in Of(t) : HandedOut(g)'} /\ Out(t) = {g \in Of(t) : HandedOut(g)}
      BY <2>5 DEF Out
    <3> QED BY <2>3, <2>7, <2>8, <3>1
  <2>10. ASSUME NEW t \in Servers \ {s}
         PROVE  Out(t)' = Out(t)
    <3>1. Out(t)' \subseteq Of(t)
      BY <2>5
    <3> QED BY <2>6, <2>9, <3>1
  <2>11. f \in Out(s)'
    BY <1>1, <2>4, <2>5
  <2> QED BY <2>2, <2>3, <2>9, <2>10, <2>11
<1>13. \A g \in Started \ {f} : flow'[g] = flow[g]
  BY <1>10 DEF Started
<1>14. \A t \in Servers : /\ maps'.store[t].state \in {maps.store[t].state, Null}
                          /\ t # s => maps'.held[t] \in {maps.held[t], Null}
                          /\ maps'.held[s] = f /\ maps'.store[s].state = x
  <2>1. \A t \in Servers : /\ cleared.store[t].state \in {maps.store[t].state, Null}
                           /\ cleared.held[t] \in {maps.held[t], Null}
    BY <1>3 DEF Agrees, Shrinks, Loses
  <2>2. cleared.held \in [Servers -> FlowOrNull]
    BY <1>3 DEF Maps
  <2> HIDE DEF kept, cleared
  <2> QED BY <1>1, <1>4, <1>9, <2>1, <2>2
<1>15. maps'.reserved \subseteq maps.reserved
  BY <1>3, <1>9 DEF Agrees, Shrinks, Loses
<1> HIDE DEF kept
<1>20. StoreInv'
  <2> SUFFICES ASSUME NEW t \in Servers
               PROVE  /\ maps'.store[t].state \in Of(t) \cup {Null}
                      /\ maps'.store[t].verifier \in Of(t) \cup {Null, Connection}
                      /\ maps'.store[t].tokens \in Of(t) \cup {Null}
                      /\ maps'.held[t] \in Out(t)' \cup {Null}
    BY <1>12 DEF StoreInv
  <2>1. /\ maps.store[t].state \in Of(t) \cup {Null}
        /\ m.store[t].verifier \in Of(t) \cup {Null, Connection}
        /\ m.store[t].tokens \in Of(t) \cup {Null}
        /\ maps.held[t] \in Out(t) \cup {Null}
    BY DEF IInv, OwnInv, StoreInv, Agrees
  <2>2. /\ cleared.store[t].verifier \in {m.store[t].verifier, Null}
        /\ cleared.store[t].tokens \in {m.store[t].tokens, Null}
    BY <1>3 DEF Shrinks, Loses
  <2>3. maps'.held[t] \in Out(t)' \cup {Null}
    BY <1>12, <1>14, <2>1
  <2> HIDE DEF cleared, x, y, waits
  <2> QED BY <1>9, <1>14, <2>1, <2>2, <2>3
<1>21. CallInv'
  <2>1. ASSUME NEW g \in Started
        PROVE  /\ flow'[g].at \in Starting => flow'[g].state = Null /\ flow'[g].kind # Null
               /\ flow'[g].state \in Of(flow[g].server)' \cup {Null}
               /\ flow'[g].waits \in Of(flow[g].server)' \cup {Null}
               /\ flow'[g].at \in {"awaiting", "exchanging"} =>
                    flow'[g].kind = "authenticate" /\ flow'[g].waits # Null
    <3>1. Of(flow[g].server)' = Of(flow[g].server)
      BY <1>10, <1>11, <1>13 DEF Of
    <3>2. CASE g = f
      <4>1. flow'[f].at \notin Starting
        BY <1>10 DEF Starting
      <4> QED BY <1>5, <1>6, <1>10, <3>1, <3>2, <4>1
    <3>3. CASE g # f
      BY <1>13, <3>1, <3>3 DEF IInv, OwnInv, CallInv
    <3> QED BY <3>2, <3>3
  <2> QED BY <1>11, <2>1 DEF CallInv
<1>22. OneAuthentication'
  <2>1. \A g \in Started : flow'[g].kind = "authenticate" =>
          flow[g].kind = "authenticate" /\ flow'[g].server = flow[g].server
    BY <1>0, <1>10, <1>13
  <2> QED BY <1>11, <2>1 DEF IInv, OwnInv, OneAuthentication
<1>23. ExchangeInv'
  <2>1. \A e \in exchanges : e.by # f
    BY <1>0, <1>1 DEF IInv, OwnInv, ExchangeInv, Sdk
  <2> SUFFICES ASSUME NEW e \in exchanges
               PROVE  /\ e.code \in Out(e.server)'
                      /\ e.transport \in Out(e.server)'
                      /\ e.by \in {g \in Of(e.server) : flow'[g].at = "exchanging"} \cup {Null}
                      /\ e.state \in Of(e.server) \cup {Null}
                      /\ \A d \in exchanges : e.by # Null /\ d.by = e.by => d = e
    BY <1>8, <1>12 DEF ExchangeInv
  <2> QED BY <1>12, <1>13, <2>1 DEF IInv, OwnInv, ExchangeInv, Of
<1>24. CodesMeetTheirFlow' /\ SentInv'
  BY <1>8 DEF IInv, CrossInv, RevokedInv, CodesMeetTheirFlow, SentInv
<1>25. /\ maps.answer[f] = Null
       /\ \A z \in Flows : maps.pending[z] # Null => maps.pending[z] # f
       /\ waits => maps.pending[x] = Null
  <2>1. maps.answer[f] = Null /\ \A z \in Flows : maps.pending[z] # Null => maps.pending[z] # f
    BY <1>1 DEF IInv, AwaitInv, AnswerInv, PendingInv, Sdk
  <2>2. ASSUME waits, maps.pending[x] # Null PROVE FALSE
    <3>1. x \in Flows /\ x \in Of(s)
      BY <1>5, <1>6, <2>2
    <3>2. PICK g \in Started : g = maps.pending[x] /\ flow[g].at = "awaiting" /\ flow[g].waits = x
      BY <2>2, <3>1 DEF IInv, AwaitInv, PendingInv
    <3>3. flow[g].server = s
      <4>1. x \in Of(flow[g].server)
        BY <3>1, <1>0, <3>2 DEF IInv, OwnInv, CallInv
      <4> QED BY <3>1, <4>1 DEF Of
    <3>4. flow[g].kind = "authenticate" /\ flow[f].kind = "authenticate"
      BY <2>2, <3>2 DEF IInv, OwnInv, CallInv
    <3>5. g = f
      BY <3>3, <3>4 DEF IInv, OwnInv, OneAuthentication
    <3> QED BY <3>2, <3>5 DEF Sdk
  <2> QED BY <2>1, <2>2
<1>26. \A z \in Flows : maps'.pending[z] = IF waits /\ z = x THEN f ELSE maps.pending[z]
  <2>1. maps.pending \in [Flows -> FlowOrNull]
    BY DEF IInv, TypeInv, Maps
  <2> HIDE DEF waits, x, cleared
  <2> QED BY <1>9, <2>1
<1>27. AwaitInv'
  <2>1. PendingInv'
    <3> SUFFICES ASSUME NEW z \in Flows, maps'.pending[z] # Null, NEW g, g = maps'.pending[z]
                 PROVE  g \in Started /\ flow'[g].at = "awaiting" /\ flow'[g].waits = z /\ maps'.answer[g] = Null
      BY <1>11 DEF PendingInv
    <3>1. CASE waits /\ z = x
      BY <1>9, <1>10, <1>25, <1>26, <3>1
    <3>2. CASE ~(waits /\ z = x)
      <4>1. g = maps.pending[z] /\ g # f
        BY <1>25, <1>26, <3>2
      <4>2. g \in Started /\ flow[g].at = "awaiting" /\ flow[g].waits = z /\ maps.answer[g] = Null
        BY <4>1 DEF IInv, AwaitInv, PendingInv
      <4> QED BY <1>9, <1>13, <4>1, <4>2
    <3> QED BY <3>1, <3>2
  <2>2. AnswerInv'
    <3> SUFFICES ASSUME NEW g \in Flows, maps.answer[g] # Null
                 PROVE  /\ g \in Started /\ flow'[g].at = "awaiting"
                        /\ maps.answer[g] \in Flows =>
                             /\ maps.answer[g] \in Out(flow[g].server)'
                             /\ flow'[maps.answer[g]].state = flow'[g].waits
      BY <1>9, <1>10, <1>11, <1>13 DEF AnswerInv, Out, Of
    <3>1. g # f /\ g \in Started /\ flow[g].at = "awaiting" /\ flow'[g] = flow[g]
      BY <1>13, <1>25 DEF IInv, AwaitInv, AnswerInv
    <3>2. ASSUME maps.answer[g] \in Flows
          PROVE  /\ maps.answer[g] \in Out(flow[g].server)'
                 /\ flow'[maps.answer[g]].state = flow'[g].waits
      <4>1. /\ maps.answer[g] \in Out(flow[g].server)
            /\ flow[maps.answer[g]].state = flow[g].waits
        BY <3>2 DEF IInv, AwaitInv, AnswerInv
      <4>2. maps.answer[g] # f /\ maps.answer[g] \in Started
        BY <4>1 DEF Out, Of, HandedOut, IInv, OwnInv, CallInv, Sdk, Starting
      <4>3. flow'[maps.answer[g]] = flow[maps.answer[g]]
        BY <1>13, <4>2
      <4> QED BY <1>11, <3>1, <4>1, <4>3 DEF Out, Of, HandedOut
    <3> QED BY <3>1, <3>2
  <2>3. CallbacksAreAnswered'
    <3> SUFFICES ASSUME NEW g \in Started, flow'[g].at = "awaiting", maps.answer[g] = Null
                 PROVE  maps'.pending[flow'[g].waits] = g
      BY <1>9, <1>11 DEF CallbacksAreAnswered
    <3>1. CASE g = f
      BY <1>5, <1>6, <1>10, <1>26, <3>1
    <3>2. CASE g # f
      <4>1. flow'[g] = flow[g] /\ maps.pending[flow[g].waits] = g
        BY <1>13, <3>2 DEF IInv, AwaitInv, CallbacksAreAnswered
      <4>2. flow[g].waits \in Flows
        BY <4>1 DEF IInv, OwnInv, CallInv, Of, Started
      <4> QED BY <1>0, <1>25, <1>26, <4>1, <4>2 DEF Started
    <3> QED BY <3>1, <3>2
  <2> QED BY <2>1, <2>2, <2>3 DEF AwaitInv
<1>28. ReserveInv'
  <2> SUFFICES ASSUME NEW z \in maps'.reserved
               PROVE  /\ z \in Started /\ flow'[z].at \in Reserving
                      /\ \/ flow'[z].at \in Starting \/ maps'.held[flow'[z].server] = z
                         \/ z \in forgotten
    BY <1>8, <1>11 DEF ReserveInv, ReservationsAreReleased
  <2>1. z \in maps.reserved /\ z \in cleared.reserved
    BY <1>9, <1>15
  <2>2. z \in Started /\ flow[z].at \in Reserving
    BY <2>1 DEF IInv, ReserveInv
  <2>3. CASE z = f
    BY <1>10, <1>14, <2>2, <2>3, <1>1 DEF Reserving
  <2>4. CASE z # f
    <3>1. flow'[z] = flow[z] /\ flow[z].server \in Servers /\ z # Null
      BY <1>0, <1>13, <2>2, <2>4, StartedCalls DEF IInv, Started
    <3>2. flow[z].at \in Starting \/ maps.held[flow[z].server] = z \/ z \in forgotten
      BY <2>1 DEF IInv, ReserveInv, ReservationsAreReleased
    <3>3. maps.held[flow[z].server] = z => cleared.held[flow[z].server] = z
      BY <1>3, <2>1, <3>1 DEF Shrinks, Loses, Agrees
    <3>4. cleared.held[flow[z].server] = z => flow[z].server # s
      BY <1>3, <3>1
    <3>5. flow[z].server # s => maps'.held[flow[z].server] = cleared.held[flow[z].server]
      <4>1. cleared.held \in [Servers -> FlowOrNull]
        BY <1>3 DEF Maps
      <4> HIDE DEF cleared
      <4> QED BY <1>9, <3>1, <4>1
    <3> QED BY <2>2, <3>1, <3>2, <3>3, <3>4, <3>5
  <2> QED BY <2>3, <2>4
<1>29. StartsCross' /\ StoredCross' /\ AwaitedCross' /\ HeldCross'
  <2>0. flow'[f].at \notin Starting /\ flow'[f].at \notin Sdk
    BY <1>10 DEF Starting, Sdk
  <2>1. StartsCross'
    BY <1>8, <1>11, <1>13, <2>0 DEF IInv, CrossInv, StartsCross, Crossing
  <2>2. StoredCross'
    <3> SUFFICES ASSUME NEW g \in Started, flow'[g].at \in Sdk,
                        NEW z \in Flows, z = maps'.store[flow'[g].server].state, z # g
                 PROVE  z \in crossed /\ g \in crossed
      BY <1>8, <1>11 DEF StoredCross
    <3>1. g # f /\ flow'[g] = flow[g] /\ flow[g].server \in Servers
      BY <1>13, <2>0, StartedCalls DEF IInv
    <3>2. z = maps.store[flow[g].server].state
      BY <1>0, <1>14, <3>1
    <3> QED BY <3>1, <3>2 DEF IInv, CrossInv, StoredCross
  <2>3. AwaitedCross'
    <3> SUFFICES ASSUME NEW g \in Started, NEW z \in {flow'[g].state, flow'[g].waits}, z \in Flows, z # g
                 PROVE  z \in crossed /\ g \in crossed
      BY <1>8, <1>11 DEF AwaitedCross
    <3>1. CASE g = f
      BY <1>0, <1>6, <1>7, <1>10, <3>1
    <3>2. CASE g # f
      BY <1>13, <3>2 DEF IInv, CrossInv, AwaitedCross
    <3> QED BY <3>1, <3>2
  <2>4. HeldCross'
    <3> SUFFICES ASSUME NEW t \in Servers, NEW z, z = maps'.store[t].state,
                        z \in Out(t)', z \notin crossed, maps'.held[t] # Null
                 PROVE  maps'.held[t] = z
      BY <1>8 DEF HeldCross
    <3>1. z \in Flows
      BY <1>12 DEF Out, Of, Started
    <3>2. CASE t = s
      BY <1>0, <1>6, <1>7, <1>14, <3>1, <3>2
    <3>3. CASE t # s
      <4>1. z = maps.store[t].state /\ maps'.held[t] = maps.held[t] /\ z \in Out(t)
        BY <1>0, <1>12, <1>14, <3>1, <3>3
      <4> QED BY <4>1 DEF IInv, CrossInv, HeldCross
    <3> QED BY <3>2, <3>3
  <2> QED BY <2>1, <2>2, <2>3, <2>4
<1>30. TakenInv'
  <2>1. \A g \in revoked : g \in Started /\ HandedOut(g)'
    BY <1>11, <1>12 DEF IInv, RevokedInv, TakenInv, HandedOut, IInv, OwnInv, CallInv, Sdk, Starting
  <2>2. ASSUME NEW t \in Servers
        PROVE  cleared.store[t].verifier \notin revoked /\ cleared.store[t].tokens \notin revoked
    <3>1. m.store[t].verifier \notin revoked /\ m.store[t].tokens \notin revoked
      BY <1>0, FlowsFacts DEF Agrees, IInv, TypeInv, RevokedInv, TakenInv, LogoutIsFinal
    <3>2. Null \notin revoked
      BY <1>0 DEF IInv, TypeInv
    <3> QED BY <1>3, <3>1, <3>2 DEF Shrinks, Loses
  <2> QED BY <1>8, <1>9, <1>11, <2>1, <2>2 DEF TakenInv, LogoutIsFinal
<1>31. ServerInv'
  <2>0. Regular' = Regular
    BY <1>8, <1>11 DEF Regular
  <2>1. BindingInv' /\ PortInv'
    <3>1. \A g \in Started : /\ flow'[g].at = "listening" <=> flow[g].at = "listening"
                             /\ flow'[g].at = "closing" <=> flow[g].at = "closing"
                             /\ flow'[g].server = flow[g].server
      BY <1>10, <1>13 DEF Sdk
    <3>2. BindingInv'
      BY <1>8, <1>11, <3>1 DEF IInv, ServerInv, BindingInv
    <3>3. PortInv'
      BY <1>8, <1>11, <3>1 DEF IInv, ServerInv, PortInv
    <3> QED BY <3>2, <3>3
  <2>2. KeptInv'
    <3> SUFFICES ASSUME NEW g \in Regular, g \in maps'.reserved \cup Waiting(maps)'
                 PROVE  /\ flow[g].redirect \in Endpoints
                        /\ server.binding = Null /\ ~server.closing
                        /\ server.server = Socket(flow[g].redirect)
                        /\ server.at.path = flow[g].redirect.path
      BY <1>8, <1>10, <1>13, <2>0 DEF KeptInv, Regular
    <3>1. g \in maps.reserved \cup Waiting(maps)
      <4>1. CASE g \in maps'.reserved
        BY <1>15, <4>1
      <4>2. CASE g \in Waiting(maps)' /\ ~(waits /\ g = x)
        BY <1>26, <4>2 DEF Waiting
      <4>3. CASE waits /\ g = x
        <5>1. x = y /\ x \notin crossed
          BY <1>6, <4>3 DEF Regular
        <5>2. x = f /\ maps.store[s].state = f
          BY <1>5, <1>7, <5>1
        <5> QED BY <4>3, <5>2 DEF IInv, ServerInv, StoredIsReserved
      <4> QED BY <4>1, <4>2, <4>3
    <3> QED BY <3>1 DEF IInv, ServerInv, KeptInv
  <2>3. StoredIsReserved'
    <3> SUFFICES ASSUME NEW g \in Regular, flow'[g].at \in Sdk, maps'.store[flow'[g].server].state = g
                 PROVE  g \in maps'.reserved
      BY <2>0 DEF StoredIsReserved
    <3>1. g # f /\ g \in Started /\ g \in Flows /\ g \notin crossed
      BY <1>10 DEF Regular, Sdk, Started
    <3>2. flow'[g] = flow[g] /\ flow[g].server \in Servers /\ g \in Of(flow[g].server)
      BY <1>13, <3>1, StartedCalls DEF IInv
    <3>3. maps.store[flow[g].server].state = g
      BY <1>0, <1>14, <3>1, <3>2
    <3>4. g \in maps.reserved
      BY <3>2, <3>3 DEF IInv, ServerInv, StoredIsReserved
    <3>5. g \in cleared.reserved
      BY <1>3, <1>9, <3>2, <3>4 DEF Shrinks, Unstores, Agrees
    <3>6. g # x
      BY <1>6, <1>7, <3>1, <1>0
    <3> QED BY <1>9, <3>5, <3>6
  <2> QED BY <2>1, <2>2, <2>3 DEF ServerInv
<1>32. TypeInv'
  BY <1>8, <1>9, <1>10 DEF IInv, TypeInv
<1> QED BY <1>20, <1>21, <1>22, <1>23, <1>24, <1>27, <1>28, <1>29, <1>30, <1>31, <1>32
        DEF IInv, OwnInv, CrossInv, RevokedInv

LEMMA RedirectKeeps ==
  ASSUME IInv, NEW f \in Started, flow[f].at \in Sdk, NEW m, Agrees(m, {}), Redirect(f, m)
  PROVE  IInv'
<1>1. PICK s \in Servers : s = flow[f].server /\ f \in Of(s)
  BY StartedCalls DEF IInv
<1>2. CASE m.store[s].state = Null
  BY <1>1, <1>2, StartThrowsKeeps DEF Redirect
<1>3. CASE m.store[s].state # Null
  <2> DEFINE e == [m.store[s] EXCEPT !.verifier = f]
             n == [m EXCEPT !.store[s] = e]
  <2>1. m \in Maps /\ m.store[s] \in Entry /\ f \in Flows
    BY <1>1 DEF Agrees, Maps, Started
  <2>2. e \in Entry /\ e.state = m.store[s].state /\ e.tokens = m.store[s].tokens /\ e.verifier = f
    BY <2>1 DEF Entry, FlowOrNull
  <2>3. UrlIsKnown(f, n)
    BY <1>1, <1>3 DEF Redirect
  <2>4. f \notin revoked
    BY DEF IInv, OwnInv, CallInv, RevokedInv, TakenInv, HandedOut, Starting, Sdk
  <2>5. Agrees(n, {})
    <3> HIDE DEF e
    <3>1. /\ n \in Maps
          /\ n.reserved = m.reserved /\ n.pending = m.pending
          /\ n.answer = m.answer /\ n.held = m.held
          /\ n.store[s] = e
          /\ \A t \in Servers : t # s => n.store[t] = m.store[t]
      BY <2>1, <2>2, StoreWritten
    <3> HIDE DEF n
    <3> QED BY <1>1, <2>2, <2>4, <3>1 DEF Agrees
  <2>6. maps.store[s].state # Null
    BY <1>3 DEF Agrees
  <2> HIDE DEF n
  <2> QED BY <1>1, <2>3, <2>5, <2>6, UrlIsKnownKeeps
<1> QED BY <1>2, <1>3

LEMMA WithClientKeeps ==
  ASSUME IInv, NEW f \in Started, flow[f].at \in Sdk, NEW m, Agrees(m, {}), WithClient(f, m)
  PROVE  IInv'
<1>1. CASE m.store[flow[f].server].tokens = Null
  BY <1>1, RedirectKeeps DEF WithClient
<1>2. CASE m.store[flow[f].server].tokens # Null
  <2>1. flow[f] \in Call
    BY StartedCalls DEF IInv
  <2>2. flow' = [flow EXCEPT ![f] = [flow[f] EXCEPT !.at = "refreshing", !.retried = flow[f].retried]]
    BY <1>2, <2>1 DEF WithClient, Goes, Call
  <2>3. "refreshing" \in Sdk /\ flow[f].retried \in BOOLEAN
    BY <2>1 DEF Sdk, Call
  <2>4. Shrinks(m, maps', {})
    BY <1>2, ShrinksNot DEF WithClient, Agrees
  <2> QED BY <1>2, <2>2, <2>3, <2>4, SdkGoesOn DEF WithClient
<1> QED BY <1>1, <1>2

LEMMA SdkKeeps ==
  ASSUME IInv, NEW f \in Flows,
         SdkDiscovers(f) \/ SdkRegisters(f) \/ SdkRefreshes(f) \/ SdkRefreshFails(f) \/ SdkFails(f)
  PROVE  IInv'
<1>1. f \in Started /\ flow[f].at \in Sdk
  BY DEF SdkDiscovers, SdkRegisters, SdkRefreshes, SdkRefreshFails, SdkFails, Started, Sdk
<1>2. PICK s \in Servers : s = flow[f].server /\ f \in Of(s) /\ flow[f] \in Call
  BY <1>1, StartedCalls DEF IInv
<1>3. maps \in Maps /\ maps.store[s] \in Entry /\ Agrees(maps, {}) /\ Shrinks(maps, maps, {})
  BY MapsAgree, ShrinksNot DEF IInv, OwnInv, RevokedInv, TypeInv, Maps
<1>4. CASE SdkDiscovers(f)
  <2>1. CASE s \in Preregistered \/ maps.store[s].client # Null
    BY <1>1, <1>2, <1>3, <1>4, <2>1, WithClientKeeps DEF SdkDiscovers
  <2>2. CASE ~(s \in Preregistered \/ maps.store[s].client # Null)
    <3>1. flow' = [flow EXCEPT ![f] = [flow[f] EXCEPT !.at = "registering", !.retried = flow[f].retried]]
      BY <1>2, <1>4, <2>2 DEF SdkDiscovers, Goes, Call
    <3>2. "registering" \in Sdk /\ flow[f].retried \in BOOLEAN
      BY <1>2 DEF Sdk, Call
    <3>3. maps' = maps /\ UNCHANGED <<server, exchanges, others, ghosts>>
      BY <1>2, <1>4, <2>2 DEF SdkDiscovers
    <3> QED BY <1>1, <1>3, <3>1, <3>2, <3>3, SdkGoesOn
  <2> QED BY <2>1, <2>2
<1>5. CASE SdkRegisters(f)
  <2> DEFINE e == [maps.store[s] EXCEPT !.client = flow[f].redirect]
             n == [maps EXCEPT !.store[s] = e]
  <2>1. /\ e \in Entry /\ e.state = maps.store[s].state /\ e.tokens = maps.store[s].tokens
        /\ e.verifier = maps.store[s].verifier
    BY <1>2, <1>3 DEF Entry, Call
  <2>2. WithClient(f, n)
    BY <1>2, <1>5 DEF SdkRegisters
  <2>3. Agrees(n, {})
    <3> HIDE DEF e
    <3>1. /\ n \in Maps
          /\ n.reserved = maps.reserved /\ n.pending = maps.pending
          /\ n.answer = maps.answer /\ n.held = maps.held
          /\ n.store[s] = e
          /\ \A t \in Servers : t # s => n.store[t] = maps.store[t]
      BY <1>3, <2>1, StoreWritten
    <3> HIDE DEF n
    <3> QED BY <1>3, <2>1, <3>1 DEF Agrees
  <2> HIDE DEF n
  <2> QED BY <1>1, <2>2, <2>3, WithClientKeeps
<1>6. CASE SdkRefreshes(f)
  BY <1>6, SdkRefreshesKeeps
<1>7. CASE SdkRefreshFails(f)
  <2>1. CASE Redirect(f, maps)
    BY <1>1, <1>3, <2>1, RedirectKeeps
  <2>2. ASSUME NEW what \in {"tokens", "all"},
               flow' = [flow EXCEPT ![f].at = "discovering", ![f].retried = TRUE],
               maps' = Invalidate(maps, flow[f].server, what),
               UNCHANGED <<server, exchanges, others, ghosts>>
        PROVE  IInv'
    <3>1. flow' = [flow EXCEPT ![f] = [flow[f] EXCEPT !.at = "discovering", !.retried = TRUE]]
      BY <1>2, <2>2 DEF IInv, TypeInv
    <3>2. "discovering" \in Sdk
      BY DEF Sdk
    <3>3. Shrinks(maps, maps', {})
      BY <1>2, <1>3, <2>2, InvalidateShrinks
    <3> QED BY <1>1, <1>3, <2>2, <3>1, <3>2, <3>3, SdkGoesOn
  <2> QED BY <1>7, <2>1, <2>2 DEF SdkRefreshFails
<1>8. CASE SdkFails(f)
  BY <1>1, <1>3, <1>8, StartThrowsKeeps DEF SdkFails
<1> QED BY <1>4, <1>5, <1>6, <1>7, <1>8

-----------------------------------------------------------------------------
(***************************************************************************)
(* A flow is started.                                                      *)
(***************************************************************************)
LEMMA NewFlowKeeps ==
  ASSUME IInv, NEW s \in Servers, NEW kind \in {"authenticate", "start"}, NewFlow(s, kind)
  PROVE  IInv'
<1>0. Null \notin Flows /\ Null # "authenticate" /\ Null # "start"
  BY FlowsFacts
<1> DEFINE call == [at |-> "ensure", server |-> s, kind |-> kind,
                    redirect |-> Null, state |-> Null, waits |-> Null, retried |-> FALSE]
           now == {g \in Of(s) : flow[g].at \in Starting}
<1>1. PICK f \in Flows \ Started :
        /\ flow' = [flow EXCEPT ![f] = call]
        /\ crossed' = crossed \cup now \cup (IF now = {} THEN {} ELSE {f})
        /\ orphans' = IF stopping THEN orphans \cup {f} ELSE orphans
  BY DEF NewFlow
<1>2. /\ maps' = maps /\ server' = server /\ exchanges' = exchanges /\ stopping' = stopping
      /\ forgotten' = forgotten /\ revoked' = revoked
  BY DEF NewFlow, others
<1>3. /\ flow' \in [Flows -> {NoFlow} \cup Call] /\ flow'[f] = call
      /\ \A g \in Flows \ {f} : flow'[g] = flow[g]
  <2>1. call \in Call
    BY DEF Call, FlowOrNull, Starting
  <2> HIDE DEF call
  <2> QED BY <1>1, <2>1 DEF IInv, TypeInv
<1>4. Started' = Started \cup {f} /\ \A g \in Started : g # f /\ flow'[g] = flow[g]
  BY <1>3 DEF Started
<1>5. /\ \A t : Of(t) \subseteq Of(t)'
      /\ \A t : t # s => Of(t)' = Of(t)
      /\ Of(s)' = Of(s) \cup {f}
      /\ \A t : Out(t)' = Out(t)
  <2>1. ~HandedOut(f)'
    BY <1>3 DEF HandedOut
  <2>2. \A g \in Started : HandedOut(g)' <=> HandedOut(g)
    BY <1>4 DEF HandedOut
  <2>3. \A t : Of(t)' = {g \in Started \cup {f} : flow'[g].server = t}
    BY <1>4 DEF Of
  <2>4. \A t : Of(t)' = IF t = s THEN Of(t) \cup {f} ELSE Of(t)
    BY <1>3, <1>4, <2>3 DEF Of
  <2>5. \A t : Out(t)' = {g \in Of(t)' : HandedOut(g)'}
    BY DEF Out
  <2>6. ASSUME NEW t PROVE Out(t)' = Out(t)
    <3>1. \A g \in Of(t) : HandedOut(g)' <=> HandedOut(g)
      BY <2>2 DEF Of
    <3>2. Out(t)' = {g \in Of(t) : HandedOut(g)'}
      BY <2>1, <2>4, <2>5
    <3> QED BY <3>1, <3>2 DEF Out
  <2> QED BY <2>4, <2>6
<1>6. crossed \subseteq crossed' /\ orphans \subseteq orphans'
  BY <1>1
<1>10. StoreInv'
  BY <1>2, <1>5 DEF IInv, OwnInv, StoreInv
<1>11. CallInv'
  <2>1. ASSUME NEW g \in Started'
        PROVE  /\ flow'[g].at \in Starting => flow'[g].state = Null /\ flow'[g].kind # Null
               /\ flow'[g].state \in Of(flow[g].server)' \cup {Null}
               /\ flow'[g].waits \in Of(flow[g].server)' \cup {Null}
               /\ flow'[g].at \in {"awaiting", "exchanging"} =>
                    flow'[g].kind = "authenticate" /\ flow'[g].waits # Null
    <3>1. CASE g = f
      BY <1>0, <1>3, <3>1
    <3>2. CASE g # f
      <4>1. g \in Started /\ flow'[g] = flow[g]
        BY <1>4, <3>2
      <4>2. Of(flow[g].server) \subseteq Of(flow[g].server)'
        BY <1>4, <4>1 DEF Of
      <4> QED BY <4>1, <4>2 DEF IInv, OwnInv, CallInv
    <3> QED BY <3>1, <3>2
  <2> QED BY <2>1 DEF CallInv
<1>12. OneAuthentication'
  <2> SUFFICES ASSUME NEW g \in Started', NEW h \in Started', flow'[g].server = flow'[h].server,
                      flow'[g].kind = "authenticate", flow'[h].kind = "authenticate", g # h
               PROVE  FALSE
    BY DEF OneAuthentication
  <2>1. CASE g # f /\ h # f
    BY <1>4, <2>1 DEF IInv, OwnInv, OneAuthentication
  <2>2. ASSUME NEW b \in Started, flow[b].server = s, flow[b].kind = "authenticate", kind = "authenticate"
        PROVE  FALSE
    BY <2>2 DEF NewFlow, Authenticating, Of
  <2> QED BY <1>3, <1>4, <2>1, <2>2
<1>13. ExchangeInv'
  <2> SUFFICES ASSUME NEW e \in exchanges
               PROVE  /\ e.code \in Out(e.server)
                      /\ e.transport \in Out(e.server)
                      /\ e.by \in {g \in Of(e.server)' : flow'[g].at = "exchanging"} \cup {Null}
                      /\ e.state \in Of(e.server)' \cup {Null}
                      /\ \A d \in exchanges : e.by # Null /\ d.by = e.by => d = e
    BY <1>2, <1>5 DEF ExchangeInv
  <2> QED BY <1>4, <1>5 DEF IInv, OwnInv, ExchangeInv, Of
<1>14. AwaitInv'
  <2>1. PendingInv'
    BY <1>2, <1>4 DEF IInv, AwaitInv, PendingInv
  <2>2. AnswerInv'
    <3> SUFFICES ASSUME NEW g \in Flows, maps.answer[g] # Null
                 PROVE  /\ g \in Started' /\ flow'[g].at = "awaiting"
                        /\ maps.answer[g] \in Flows =>
                             /\ maps.answer[g] \in Out(flow[g].server)'
                             /\ flow'[maps.answer[g]].state = flow'[g].waits
      BY <1>2 DEF AnswerInv
    <3>1. g \in Started /\ flow[g].at = "awaiting" /\ flow'[g] = flow[g]
      BY <1>4 DEF IInv, AwaitInv, AnswerInv
    <3>2. ASSUME maps.answer[g] \in Flows
          PROVE  /\ maps.answer[g] \in Out(flow[g].server)'
                 /\ flow'[maps.answer[g]].state = flow'[g].waits
      <4>1. maps.answer[g] \in Out(flow[g].server) /\ flow[maps.answer[g]].state = flow[g].waits
        BY <3>2 DEF IInv, AwaitInv, AnswerInv
      <4>2. maps.answer[g] \in Started
        BY <4>1 DEF Out, Of
      <4>3. flow'[maps.answer[g]] = flow[maps.answer[g]]
        BY <1>4, <4>2
      <4> QED BY <1>4, <3>1, <4>1, <4>2, <4>3 DEF Out, Of, HandedOut
    <3> QED BY <1>4, <3>1, <3>2
  <2>3. CallbacksAreAnswered'
    BY <1>2, <1>3, <1>4 DEF IInv, AwaitInv, CallbacksAreAnswered
  <2> QED BY <2>1, <2>2, <2>3 DEF AwaitInv
<1>15. ReserveInv'
  BY <1>2, <1>4 DEF IInv, ReserveInv, ReservationsAreReleased
<1>16. StartsCross'
  <2> SUFFICES ASSUME NEW g \in Started', NEW h \in Started', g # h, flow'[g].server = flow'[h].server,
                      flow'[g].at \in Starting, flow'[h].at \in Starting
               PROVE  g \in crossed'
    BY DEF StartsCross, Crossing
  <2>1. CASE g = f
    <3>1. h \in now
      BY <1>3, <1>4, <2>1 DEF Of
    <3> QED BY <1>1, <2>1, <3>1
  <2>2. CASE h = f
    <3>1. g \in now
      BY <1>3, <1>4, <2>2 DEF Of
    <3> QED BY <1>1, <3>1
  <2>3. CASE g # f /\ h # f
    BY <1>4, <1>6, <2>3 DEF IInv, CrossInv, StartsCross, Crossing
  <2> QED BY <2>1, <2>2, <2>3
<1>17. StoredCross' /\ AwaitedCross' /\ HeldCross' /\ CodesMeetTheirFlow'
  <2>1. flow'[f].at \notin Sdk /\ flow'[f].state = Null /\ flow'[f].waits = Null
    BY <1>3 DEF Sdk
  <2>2. StoredCross'
    BY <1>2, <1>4, <1>6, <2>1 DEF IInv, CrossInv, StoredCross
  <2>3. AwaitedCross'
    BY <1>0, <1>4, <1>6, <2>1 DEF IInv, CrossInv, AwaitedCross
  <2>4. HeldCross' /\ CodesMeetTheirFlow'
    BY <1>2, <1>5, <1>6 DEF IInv, CrossInv, HeldCross, CodesMeetTheirFlow
  <2> QED BY <2>2, <2>3, <2>4
<1>18. RevokedInv'
  BY <1>2, <1>4 DEF IInv, RevokedInv, TakenInv, SentInv, LogoutIsFinal, HandedOut
<1>19. ServerInv'
  <2>1. Regular' \subseteq Regular \cup {f}
    BY <1>4, <1>6 DEF Regular
  <2>2. BindingInv'
    <3>1. \A g \in Started' : flow'[g].at \in {"listening", "closing"} <=> server.binding = g
      BY <1>0, <1>3, <1>4 DEF IInv, ServerInv, BindingInv
    <3>2. stopping => Started' \subseteq orphans'
      BY <1>1, <1>4 DEF IInv, ServerInv, BindingInv
    <3>3. server.closing => stopping \/ \E g \in Started' : flow'[g].at = "closing"
      BY <1>4 DEF IInv, ServerInv, BindingInv
    <3> QED BY <1>2, <1>4, <3>1, <3>2, <3>3 DEF IInv, ServerInv, BindingInv
  <2>3. PortInv'
    BY <1>2, <1>3, <1>4 DEF IInv, ServerInv, PortInv
  <2>4. KeptInv'
    <3>1. f \notin maps.reserved
      BY <1>1 DEF IInv, ReserveInv
    <3>2. f \notin Waiting(maps)
      BY <1>0, <1>1 DEF Waiting, IInv, AwaitInv, PendingInv, OwnInv, CallInv, Of
    <3> QED BY <1>2, <1>4, <2>1, <3>1, <3>2 DEF IInv, ServerInv, KeptInv, Regular, Waiting
  <2>5. StoredIsReserved'
    <3>1. flow'[f].at \notin Sdk
      BY <1>3 DEF Sdk
    <3> QED BY <1>2, <1>4, <2>1, <3>1 DEF IInv, ServerInv, StoredIsReserved, Regular
  <2> QED BY <2>2, <2>3, <2>4, <2>5 DEF ServerInv
<1>20. TypeInv'
  BY <1>2, <1>3 DEF IInv, TypeInv
<1> QED BY <1>10, <1>11, <1>12, <1>13, <1>14, <1>15, <1>16, <1>17, <1>18, <1>19, <1>20
        DEF IInv, OwnInv, CrossInv

-----------------------------------------------------------------------------
(***************************************************************************)
(* The callback server is looked for, and found.                           *)
(***************************************************************************)
\* The server that c tells of is where the flows of s need it.
Serves(c, s) ==
  /\ c.server = Socket(c.at)
  /\ c.at.host = Wanted(s).host /\ c.at.path = Wanted(s).path
  /\ Strict(s) => c.at.port = Wanted(s).port

LEMMA EndpointsTyped ==
  ASSUME NEW s \in Servers
  PROVE  /\ Wanted(s) \in Endpoints /\ Wanted(s).host \in Hosts /\ Wanted(s).port \in Ports
         /\ \A e \in Endpoints : Socket(e) \in Sockets /\ Socket(e) # Null
<1>1. Wanted(s) \in Asked
  BY DEF Wanted, Asked
<1>2. Wanted(s) \in Endpoints /\ Wanted(s).host \in Hosts /\ Wanted(s).port \in Ports
  BY <1>1, EndpointsAssumption DEF Hosts, Ports
<1>3. \A e \in Endpoints : Socket(e) \in Sockets
  BY DEF Socket, Endpoints, Sockets
<1> QED BY <1>2, <1>3, EndpointsAssumption

LEMMA RedirectServed ==
  ASSUME NEW s \in Servers, NEW c \in Server
  PROVE  /\ RedirectOf(c, s) \in Endpoints
         /\ Serves(c, s) => /\ c.server = Socket(RedirectOf(c, s))
                            /\ c.at.path = RedirectOf(c, s).path
<1>1. c.at \in Endpoints /\ Configured \in Endpoints /\ Wanted(s) \in Endpoints
  BY EndpointsTyped, EndpointsAssumption DEF Server, Asked
<1>2. CASE s \in DOMAIN Endpoint
  BY <1>1, <1>2 DEF RedirectOf, Wanted, Strict, Serves, Socket
<1>3. CASE s \notin DOMAIN Endpoint
  BY <1>1, <1>3 DEF RedirectOf, Wanted, Serves, Socket, Endpoints
<1> QED BY <1>2, <1>3

\* Whoever waits for its callback is met where it was promised.
LEMMA KeptMeans ==
  ASSUME IInv, NEW f \in Regular, f \in maps.reserved \cup Waiting(maps)
  PROVE  server.binding = Null /\ server.server # Null /\ Busy(maps)
<1>1. /\ flow[f].redirect \in Endpoints /\ server.binding = Null
      /\ server.server = Socket(flow[f].redirect)
  BY DEF IInv, ServerInv, KeptInv
<1>2. server.server # Null
  BY <1>1, EndpointsAssumption DEF Socket, Endpoints, Sockets
<1> QED BY <1>1, <1>2 DEF Busy

\* One flow binds: nothing else changes.
LEMMA BindsKeeps ==
  ASSUME IInv, NEW f \in Started, flow[f].at \in {"ensure", "listening"},
         NEW at \in Binding, Goes(f, at),
         UNCHANGED <<maps, exchanges, others, ghosts>>,
         server' \in Server, server'.binding = f,
         \A g \in Started : flow[g].at \in Binding => g = f,
         ~\E g \in Regular : g \in maps.reserved \cup Waiting(maps),
         PortInv', server'.closing => stopping \/ at = "closing"
  PROVE  IInv'
<1>1. flow[f] \in Call /\ f \in Flows
  BY StartedCalls DEF IInv, Started
<1>2. /\ Evolves({}) /\ flow' \in [Flows -> {NoFlow} \cup Call]
      /\ flow'[f].at = at /\ \A g \in Flows \ {f} : flow'[g] = flow[g]
  <2>1. flow' = [flow EXCEPT ![f] = [flow[f] EXCEPT !.at = at, !.retried = flow[f].retried]]
    BY <1>1 DEF Goes, Call
  <2>2. {flow[f].at, at} \subseteq Starting \ Sdk
    BY DEF Starting, Sdk, Binding
  <2>3. flow[f].retried \in BOOLEAN
    BY <1>1 DEF Call
  <2> QED BY <2>1, <2>2, <2>3, GoesEvolves DEF IInv
<1>3. maps \in Maps /\ Agrees(maps, {}) /\ Shrinks(maps, maps', {})
  BY MapsAgree, ShrinksNot DEF IInv, OwnInv, RevokedInv, TypeInv
<1>4. /\ maps' \in Maps
      /\ StoreInv' /\ CallInv' /\ OneAuthentication' /\ AwaitInv' /\ ReserveInv'
      /\ StartsCross' /\ StoredCross' /\ AwaitedCross' /\ HeldCross'
  BY <1>2, <1>3, QuietMost DEF ghosts
<1>5. ExchangeInv' /\ CodesMeetTheirFlow' /\ SentInv'
  BY <1>2, QuietExchanges DEF IInv, OwnInv, CrossInv, RevokedInv, ghosts
<1>6. TakenInv'
  BY <1>2, <1>3, QuietTaken DEF IInv, RevokedInv, Shrinks, ghosts
<1>7. Started' = Started /\ Regular' = Regular
  BY <1>2 DEF Evolves, Regular, ghosts
<1>8. BindingInv'
  <2>1. \A g \in Started : flow'[g].at \in {"listening", "closing"} <=> f = g
    BY <1>1, <1>2 DEF Binding, Started
  <2>2. server'.closing => stopping \/ \E g \in Started : flow'[g].at = "closing"
    BY <1>2
  <2>3. stopping' = stopping /\ orphans' = orphans
    BY DEF others, ghosts
  <2>4. stopping => Started \subseteq orphans
    BY DEF IInv, ServerInv, BindingInv
  <2> QED BY <1>7, <2>1, <2>2, <2>3, <2>4 DEF BindingInv
<1>9. KeptInv'
  BY <1>7 DEF KeptInv, Waiting
<1>10. StoredIsReserved'
  BY <1>2, <1>7, EvolvesFacts DEF IInv, ServerInv, StoredIsReserved, Evolves, Regular
<1>11. TypeInv'
  BY <1>2, <1>4 DEF IInv, TypeInv, others, ghosts
<1> QED BY <1>4, <1>5, <1>6, <1>8, <1>9, <1>10, <1>11 DEF IInv, OwnInv, CrossInv, ServerInv, RevokedInv

\* Whoever awaits the promise of the flow that binds fails with it.
LEMMA FailKeeps ==
  ASSUME IInv, NEW failing \in SUBSET Started, Fail(failing),
         \A f \in failing : flow[f].at \in {"ensure", "listening"},
         \A f \in Started : flow[f].at \in Binding => f \in failing /\ flow[f].at = "listening"
  PROVE  IInv'
<1> DEFINE hit == {s \in Servers : \E g \in failing : flow[g].server = s}
           emptied == [s \in Servers |-> IF s \in hit
                                         THEN [maps.store[s] EXCEPT !.state = Null] ELSE maps.store[s]]
<1>1. maps \in Maps /\ Agrees(maps, {}) /\ server \in Server
  BY MapsAgree DEF IInv, OwnInv, RevokedInv, TypeInv
<1>2. maps' = [maps EXCEPT !.store = emptied]
  BY DEF Fail
<1>3. \A s \in Servers : /\ emptied[s] \in Entry
                         /\ emptied[s].state \in {maps.store[s].state, Null}
                         /\ emptied[s].verifier = maps.store[s].verifier
                         /\ emptied[s].tokens = maps.store[s].tokens
  <2> SUFFICES ASSUME NEW s \in Servers
               PROVE  /\ emptied[s] \in Entry
                      /\ emptied[s].state \in {maps.store[s].state, Null}
                      /\ emptied[s].verifier = maps.store[s].verifier
                      /\ emptied[s].tokens = maps.store[s].tokens
    OBVIOUS
  <2>1. maps.store[s] \in Entry
    BY <1>1 DEF Maps
  <2> QED BY <2>1 DEF Entry, FlowOrNull
<1>4. emptied \in [Servers -> Entry]
  BY <1>3
<1> HIDE DEF emptied
<1>5. /\ maps' \in Maps /\ maps'.store = emptied /\ maps'.reserved = maps.reserved
      /\ maps'.pending = maps.pending /\ maps'.answer = maps.answer /\ maps'.held = maps.held
  BY <1>1, <1>2, <1>4 DEF Maps
<1>6. Shrinks(maps, maps', {})
  <2>1. Loses(maps, maps')
    BY <1>3, <1>5 DEF Loses
  <2>2. Rejects(maps, maps') /\ Unstores(maps, maps', {})
    BY <1>5 DEF Rejects, Unstores
  <2> QED BY <1>5, <2>1, <2>2 DEF Shrinks
<1>7. /\ Evolves(failing) /\ flow' \in [Flows -> {NoFlow} \cup Call]
      /\ \A g \in failing : flow'[g].at = "over"
      /\ \A g \in Flows \ failing : flow'[g] = flow[g]
  BY OverEvolves DEF Fail, IInv
<1>8. /\ server' = [server EXCEPT !.binding = Null]
      /\ UNCHANGED <<exchanges, others, ghosts>>
  BY DEF Fail
<1>9. \A f \in failing : /\ f \notin maps.reserved /\ maps.answer[f] = Null
                         /\ flow[f].at # "awaiting" /\ \A e \in exchanges : e.by # f
  <2> SUFFICES ASSUME NEW f \in failing
               PROVE  /\ f \notin maps.reserved /\ maps.answer[f] = Null
                      /\ flow[f].at # "awaiting" /\ \A e \in exchanges : e.by # f
    OBVIOUS
  <2>1. f \notin maps.reserved
    BY DEF IInv, ReserveInv, Reserving, Sdk
  <2>2. maps.answer[f] = Null
    BY DEF IInv, AwaitInv, AnswerInv, Started
  <2>3. \A e \in exchanges : e.by # f
    BY FlowsFacts DEF IInv, OwnInv, ExchangeInv, Started
  <2> QED BY <2>1, <2>2, <2>3
<1>10. Agrees(maps, failing)
  BY <1>1, <1>9 DEF Agrees
<1>11. /\ StoreInv' /\ CallInv' /\ OneAuthentication' /\ AwaitInv' /\ ReserveInv'
       /\ StartsCross' /\ StoredCross' /\ AwaitedCross' /\ HeldCross'
  BY <1>5, <1>6, <1>7, <1>8, <1>9, <1>10, QuietMost DEF ghosts
<1>12. ExchangeInv' /\ CodesMeetTheirFlow' /\ SentInv'
  BY <1>7, <1>8, <1>9, QuietExchanges DEF IInv, OwnInv, CrossInv, RevokedInv, ghosts
<1>13. TakenInv'
  BY <1>6, <1>7, <1>8, <1>10, QuietTaken DEF IInv, RevokedInv, Shrinks, ghosts
<1>14. Started' = Started /\ Regular' = Regular /\ stopping' = stopping /\ orphans' = orphans
  BY <1>7, <1>8 DEF Evolves, Regular, ghosts, others
<1>15. \A f \in Started : flow'[f].at \notin Binding /\ flow[f].at # "closing"
  BY <1>7 DEF Binding, Started
<1>16. /\ server'.binding = Null /\ server'.at = server.at /\ server'.server = server.server
       /\ server'.closing = server.closing /\ server'.adrift = server.adrift /\ server' \in Server
  BY <1>1, <1>8 DEF Server, FlowOrNull
<1>17. BindingInv'
  BY FlowsFacts, <1>14, <1>15, <1>16 DEF BindingInv, IInv, ServerInv, Binding, Started
<1>18. PortInv'
  BY <1>14, <1>15, <1>16 DEF PortInv, IInv, ServerInv, Binding
<1>19. KeptInv'
  BY <1>5, <1>7, <1>14, <1>16 DEF KeptInv, IInv, ServerInv, Waiting, Evolves, Regular
<1>20. StoredIsReserved'
  <2> SUFFICES ASSUME NEW f \in Regular, flow'[f].at \in Sdk, maps'.store[flow'[f].server].state = f
               PROVE  f \in maps'.reserved
    BY <1>14 DEF StoredIsReserved
  <2>1. f \in Started /\ f # Null
    BY FlowsFacts DEF Regular, Started
  <2>2. flow[f].at \in Sdk /\ flow'[f].server = flow[f].server /\ flow[f].server \in Servers
    BY <1>7, <2>1, EvolvesFacts, StartedCalls DEF Evolves, IInv
  <2>3. maps.store[flow[f].server].state = f
    BY <1>3, <1>5, <2>1, <2>2
  <2> QED BY <1>5, <2>2, <2>3 DEF IInv, ServerInv, StoredIsReserved
<1>21. TypeInv'
  BY <1>5, <1>7, <1>8, <1>16 DEF IInv, TypeInv, others, ghosts
<1> QED BY <1>11, <1>12, <1>13, <1>17, <1>18, <1>19, <1>20, <1>21
        DEF IInv, OwnInv, CrossInv, ServerInv, RevokedInv

LEMMA FailuresKeep ==
  ASSUME IInv, NEW f \in Flows, EnsureRefuses(f) \/ ListenFails(f)
  PROVE  IInv'
<1>1. \A g \in Started : flow[g].at \in Binding <=> server.binding = g
  BY DEF IInv, ServerInv, BindingInv, Binding
<1>2. Ensuring \subseteq Started /\ \A g \in Ensuring : flow[g].at = "ensure"
  BY DEF Ensuring
<1>3. CASE EnsureRefuses(f)
  <2>1. \A g \in Started : flow[g].at \notin Binding
    BY <1>1, <1>3, FlowsFacts DEF EnsureRefuses, Started
  <2> QED BY <1>2, <1>3, <2>1, FailKeeps DEF EnsureRefuses
<1>4. CASE ListenFails(f)
  <2>1. f \in Started /\ flow[f].at = "listening" /\ server.binding = f
    BY <1>1, <1>4 DEF ListenFails, Started, Binding
  <2>2. \A g \in Started : flow[g].at \in Binding => g = f
    BY <1>1, <2>1
  <2> QED BY <1>2, <1>4, <2>1, <2>2, FailKeeps DEF ListenFails
<1> QED BY <1>3, <1>4

\* The server is there, and the flow's state is stored and reserved.
LEMMA PrepareKeeps ==
  ASSUME IInv, NEW f \in Started, flow[f].at \in Starting \ Sdk, NEW s \in Servers, s = flow[f].server,
         NEW c \in Server, Prepare(f, c),
         \A g \in Started : flow[g].at \in Binding => g = f,
         c.binding = Null, c.closing => stopping, ~c.adrift => Serves(c, s),
         (\E g \in Regular : g \in maps.reserved \cup Waiting(maps)) =>
           c.server = server.server /\ c.at.path = server.at.path /\ c.closing = server.closing
  PROVE  IInv'
<1> DEFINE r == RedirectOf(c, s)
           reserved == [maps EXCEPT !.reserved = @ \cup {f}]
           n == DropStaleClient(reserved, s, r)
<1>0. Null \notin Flows
  BY FlowsFacts
<1>1. /\ f \in Of(s) /\ f \in Flows /\ flow[f] \in Call /\ maps \in Maps
      /\ flow[f].state = Null /\ flow[f].kind # Null
  BY StartedCalls DEF IInv, TypeInv, OwnInv, CallInv, Started
<1>2. r \in Endpoints
  BY RedirectServed
<1>3. /\ flow' = [flow EXCEPT ![f].at = "discovering", ![f].redirect = r]
      /\ maps' = UpdateOAuthState(n, s, f)
      /\ server' = c /\ orphans' = IF c.adrift THEN orphans \cup {f} ELSE orphans
      /\ exchanges' = exchanges /\ stopping' = stopping
      /\ crossed' = crossed /\ forgotten' = forgotten /\ revoked' = revoked
  BY DEF Prepare, others
<1>4. /\ flow'[f] \in Call /\ flow'[f].at = "discovering" /\ flow'[f].redirect = r
      /\ flow'[f].server = s /\ flow'[f].kind = flow[f].kind
      /\ flow'[f].state = Null /\ flow'[f].waits = flow[f].waits
      /\ flow' \in [Flows -> {NoFlow} \cup Call]
      /\ \A g \in Flows \ {f} : flow'[g] = flow[g]
  <2>1. flow' = [flow EXCEPT ![f] = [flow[f] EXCEPT !.at = "discovering", !.redirect = r]]
    BY <1>1, <1>3 DEF IInv, TypeInv
  <2>2. [flow[f] EXCEPT !.at = "discovering", !.redirect = r] \in Call
    BY <1>1, <1>2 DEF Call, Starting, Sdk
  <2> HIDE DEF r
  <2> QED BY <1>1, <2>1, <2>2 DEF IInv, TypeInv, Call
<1>5. /\ maps' \in Maps /\ maps'.reserved = maps.reserved \cup {f}
      /\ maps'.pending = maps.pending /\ maps'.answer = maps.answer /\ maps'.held = maps.held
      /\ maps'.store[s].state = f
      /\ maps'.store[s].verifier \in {maps.store[s].verifier, Null}
      /\ maps'.store[s].tokens \in {maps.store[s].tokens, Null}
      /\ \A t \in Servers : t # s => maps'.store[t] = maps.store[t]
  <2>1. /\ reserved \in Maps /\ reserved.reserved = maps.reserved \cup {f}
        /\ reserved.pending = maps.pending /\ reserved.answer = maps.answer
        /\ reserved.held = maps.held /\ reserved.store = maps.store
    BY <1>1 DEF Maps
  <2> HIDE DEF reserved, r
  <2>2. /\ n \in Maps /\ n.reserved = reserved.reserved
        /\ n.pending = maps.pending /\ n.answer = maps.answer /\ n.held = maps.held
        /\ n.store[s].verifier \in {maps.store[s].verifier, Null}
        /\ n.store[s].tokens \in {maps.store[s].tokens, Null}
        /\ \A t \in Servers : t # s => n.store[t] = maps.store[t]
    <3>1. CASE n = reserved
      BY <2>1, <3>1
    <3>2. CASE n = [reserved EXCEPT !.store[s] = NoEntry]
      <4>1. /\ n \in Maps
            /\ n.reserved = reserved.reserved /\ n.pending = reserved.pending
            /\ n.answer = reserved.answer /\ n.held = reserved.held
            /\ n.store[s] = NoEntry
            /\ \A t \in Servers : t # s => n.store[t] = reserved.store[t]
        BY <2>1, <3>2, StoreWritten, NoEntryIsEntry
      <4> HIDE DEF n
      <4> QED BY <2>1, <4>1 DEF NoEntry
    <3> QED BY <3>1, <3>2 DEF DropStaleClient
  <2> HIDE DEF n
  <2> DEFINE e == [n.store[s] EXCEPT !.state = f]
  <2>3. n.store[s] \in Entry
    BY <2>2 DEF Maps
  <2>4. /\ e \in Entry /\ e.state = f /\ e.verifier = n.store[s].verifier
        /\ e.tokens = n.store[s].tokens
    BY <1>1, <2>3 DEF Entry, FlowOrNull
  <2>5. maps' = [n EXCEPT !.store[s] = e]
    BY <1>3 DEF UpdateOAuthState
  <2> HIDE DEF e
  <2>6. /\ maps' \in Maps
        /\ maps'.reserved = n.reserved /\ maps'.pending = n.pending
        /\ maps'.answer = n.answer /\ maps'.held = n.held
        /\ maps'.store[s] = e
        /\ \A t \in Servers : t # s => maps'.store[t] = n.store[t]
    BY <2>2, <2>4, <2>5, StoreWritten
  <2> QED BY <2>1, <2>2, <2>4, <2>6
<1> HIDE DEF n, reserved
<1>6. Started' = Started
  BY <1>1, <1>4 DEF Started
<1>7. \A g \in Started \ {f} : flow'[g] = flow[g]
  BY <1>4 DEF Started
<1>8. \A t : Of(t)' = Of(t) /\ Out(t)' = Out(t)
  <2>1. ASSUME NEW t PROVE Of(t)' = Of(t)
    BY <1>4, <1>6, <1>7 DEF Of
  <2>2. \A g \in Started : HandedOut(g)' <=> HandedOut(g)
    BY <1>1, <1>4, <1>7 DEF HandedOut
  <2>3. ASSUME NEW t PROVE Out(t)' = Out(t)
    <3>1. Out(t)' = {g \in Of(t) : HandedOut(g)'}
      BY <2>1 DEF Out
    <3> QED BY <2>2, <3>1 DEF Out, Of
  <2> QED BY <2>1, <2>3
<1>9. \A g \in Started \ {f} : flow[g].server # s => maps'.store[flow[g].server] = maps.store[flow[g].server]
  BY <1>5, StartedCalls DEF IInv
<1>10. StoreInv'
  <2> SUFFICES ASSUME NEW t \in Servers
               PROVE  /\ maps'.store[t].state \in Of(t) \cup {Null}
                      /\ maps'.store[t].verifier \in Of(t) \cup {Null, Connection}
                      /\ maps'.store[t].tokens \in Of(t) \cup {Null}
                      /\ maps'.held[t] \in Out(t) \cup {Null}
    BY <1>8 DEF StoreInv
  <2>1. CASE t = s
    BY <1>1, <1>5, <2>1 DEF IInv, OwnInv, StoreInv
  <2>2. CASE t # s
    BY <1>5, <2>2 DEF IInv, OwnInv, StoreInv
  <2> QED BY <2>1, <2>2
<1>11. CallInv'
  <2>1. ASSUME NEW g \in Started
        PROVE  /\ flow'[g].at \in Starting => flow'[g].state = Null /\ flow'[g].kind # Null
               /\ flow'[g].state \in Of(flow[g].server)' \cup {Null}
               /\ flow'[g].waits \in Of(flow[g].server)' \cup {Null}
               /\ flow'[g].at \in {"awaiting", "exchanging"} =>
                    flow'[g].kind = "authenticate" /\ flow'[g].waits # Null
    <3>1. Of(flow[g].server)' = Of(flow[g].server)
      BY <1>4, <1>6, <1>7 DEF Of
    <3>2. CASE g = f
      BY <1>1, <1>4, <3>1, <3>2 DEF IInv, OwnInv, CallInv
    <3>3. CASE g # f
      BY <1>7, <3>1, <3>3 DEF IInv, OwnInv, CallInv
    <3> QED BY <3>2, <3>3
  <2> QED BY <1>6, <2>1 DEF CallInv
<1>12. OneAuthentication'
  <2>1. \A g \in Started : flow'[g].kind = flow[g].kind /\ flow'[g].server = flow[g].server
    BY <1>4, <1>7
  <2> QED BY <1>6, <2>1 DEF IInv, OwnInv, OneAuthentication
<1>13. ExchangeInv'
  <2>1. \A e \in exchanges : e.by # f
    BY <1>0, <1>1 DEF IInv, OwnInv, ExchangeInv, Starting, Sdk
  <2> SUFFICES ASSUME NEW e \in exchanges
               PROVE  /\ e.code \in Out(e.server)
                      /\ e.transport \in Out(e.server)
                      /\ e.by \in {g \in Of(e.server) : flow'[g].at = "exchanging"} \cup {Null}
                      /\ e.state \in Of(e.server) \cup {Null}
                      /\ \A d \in exchanges : e.by # Null /\ d.by = e.by => d = e
    BY <1>3, <1>8 DEF ExchangeInv
  <2> QED BY <1>7, <2>1 DEF IInv, OwnInv, ExchangeInv, Of
<1>14. AwaitInv'
  <2>0. maps.answer[f] = Null /\ \A z \in Flows : maps.pending[z] # Null => maps.pending[z] # f
    BY <1>1 DEF IInv, AwaitInv, AnswerInv, PendingInv, Starting, Sdk
  <2>1. PendingInv'
    <3> SUFFICES ASSUME NEW z \in Flows, maps.pending[z] # Null, NEW g, g = maps.pending[z]
                 PROVE  g \in Started /\ flow'[g].at = "awaiting" /\ flow'[g].waits = z /\ maps.answer[g] = Null
      BY <1>5, <1>6 DEF PendingInv
    <3> QED BY <1>7, <2>0 DEF IInv, AwaitInv, PendingInv
  <2>2. AnswerInv'
    <3> SUFFICES ASSUME NEW g \in Flows, maps.answer[g] # Null
                 PROVE  /\ g \in Started /\ flow'[g].at = "awaiting"
                        /\ maps.answer[g] \in Flows =>
                             /\ maps.answer[g] \in Out(flow[g].server)'
                             /\ flow'[maps.answer[g]].state = flow'[g].waits
      BY <1>4, <1>5, <1>6, <1>7 DEF AnswerInv, Out, Of
    <3>1. g # f /\ g \in Started /\ flow[g].at = "awaiting" /\ flow'[g] = flow[g]
      BY <1>7, <2>0 DEF IInv, AwaitInv, AnswerInv
    <3>2. ASSUME maps.answer[g] \in Flows
          PROVE  /\ maps.answer[g] \in Out(flow[g].server)'
                 /\ flow'[maps.answer[g]].state = flow'[g].waits
      <4>1. /\ maps.answer[g] \in Out(flow[g].server)
            /\ flow[maps.answer[g]].state = flow[g].waits
        BY <3>2 DEF IInv, AwaitInv, AnswerInv
      <4>2. maps.answer[g] # f /\ maps.answer[g] \in Started
        BY <1>1, <4>1 DEF Out, Of, HandedOut
      <4>3. flow'[maps.answer[g]] = flow[maps.answer[g]]
        BY <1>7, <4>2
      <4> QED BY <1>6, <3>1, <4>1, <4>3 DEF Out, Of, HandedOut
    <3> QED BY <3>1, <3>2
  <2>3. CallbacksAreAnswered'
    BY <1>4, <1>5, <1>6, <1>7 DEF IInv, AwaitInv, CallbacksAreAnswered
  <2> QED BY <2>1, <2>2, <2>3 DEF AwaitInv
<1>15. ReserveInv'
  <2> SUFFICES ASSUME NEW z \in maps'.reserved
               PROVE  /\ z \in Started /\ flow'[z].at \in Reserving
                      /\ \/ flow'[z].at \in Starting \/ maps'.held[flow'[z].server] = z
                         \/ z \in forgotten
    BY <1>3, <1>6 DEF ReserveInv, ReservationsAreReleased
  <2>1. CASE z = f
    BY <1>4, <2>1 DEF Reserving, Sdk, Starting
  <2>2. CASE z # f
    BY <1>5, <1>7, <2>2 DEF IInv, ReserveInv, ReservationsAreReleased
  <2> QED BY <2>1, <2>2
<1>16. StartsCross' /\ StoredCross' /\ AwaitedCross' /\ HeldCross' /\ CodesMeetTheirFlow'
  <2>1. StartsCross'
    <3>1. \A g \in Started : /\ flow'[g].at \in Starting => flow[g].at \in Starting
                             /\ flow'[g].server = flow[g].server
      BY <1>4, <1>7
    <3> QED BY <1>3, <1>6, <3>1 DEF IInv, CrossInv, StartsCross, Crossing
  <2>2. StoredCross'
    <3> SUFFICES ASSUME NEW g \in Started, flow'[g].at \in Sdk,
                        NEW z \in Flows, z = maps'.store[flow'[g].server].state, z # g
                 PROVE  z \in crossed /\ g \in crossed
      BY <1>3, <1>6 DEF StoredCross
    <3>1. g # f
      BY <1>4, <1>5
    <3>2. flow'[g] = flow[g] /\ flow[g].at \in Starting
      BY <1>7, <3>1 DEF Sdk, Starting
    <3>3. CASE flow[g].server = s
      <4>1. z = f
        BY <1>5, <3>2, <3>3
      <4> QED BY <3>1, <3>2, <3>3, <4>1 DEF IInv, CrossInv, StartsCross, Crossing
    <3>4. CASE flow[g].server # s
      BY <1>9, <3>1, <3>2, <3>4 DEF IInv, CrossInv, StoredCross
    <3> QED BY <3>3, <3>4
  <2>3. AwaitedCross'
    <3>1. \A g \in Started : flow'[g].state = flow[g].state /\ flow'[g].waits = flow[g].waits
      BY <1>1, <1>4, <1>7
    <3> QED BY <1>3, <1>6, <3>1 DEF IInv, CrossInv, AwaitedCross
  <2>4. HeldCross'
    <3> SUFFICES ASSUME NEW t \in Servers, NEW z, z = maps'.store[t].state,
                        z \in Out(t), z \notin crossed, maps.held[t] # Null
                 PROVE  maps.held[t] = z
      BY <1>3, <1>5, <1>8 DEF HeldCross
    <3>1. t # s
      BY <1>1, <1>5 DEF Out, HandedOut
    <3> QED BY <1>5, <3>1 DEF IInv, CrossInv, HeldCross
  <2>5. CodesMeetTheirFlow'
    BY <1>3 DEF IInv, CrossInv, CodesMeetTheirFlow
  <2> QED BY <2>1, <2>2, <2>3, <2>4, <2>5
<1>17. RevokedInv'
  <2>1. \A g \in revoked : g \in Started /\ HandedOut(g)'
    BY <1>1, <1>6, <1>7 DEF IInv, RevokedInv, TakenInv, HandedOut
  <2>2. ASSUME NEW t \in Servers
        PROVE  maps'.store[t].verifier \notin revoked /\ maps'.store[t].tokens \notin revoked
    <3>1. Null \notin revoked
      BY <1>0 DEF IInv, TypeInv
    <3>2. maps.store[t].verifier \notin revoked /\ maps.store[t].tokens \notin revoked
      BY DEF IInv, RevokedInv, TakenInv, LogoutIsFinal
    <3> QED BY <1>5, <3>1, <3>2
  <2> QED BY <1>3, <1>6, <2>1, <2>2 DEF IInv, RevokedInv, TakenInv, SentInv, LogoutIsFinal
<1>18. Regular' \subseteq Regular /\ (f \in Regular' => ~c.adrift /\ f \in Regular)
  BY <1>3, <1>6 DEF Regular
<1>19. BindingInv'
  <2>1. \A g \in Started : flow'[g].at \notin {"listening", "closing"}
    BY <1>4, <1>7 DEF Binding
  <2>2. stopping => Started \subseteq orphans'
    BY <1>3 DEF IInv, ServerInv, BindingInv
  <2> QED BY <1>0, <1>3, <1>6, <2>1, <2>2 DEF BindingInv, Started
<1>20. PortInv'
  <2>1. \A g \in Started : flow'[g].at # "closing"
    BY <1>4, <1>7 DEF Binding
  <2> QED BY <1>3, <1>6, <2>1 DEF PortInv, Serves
<1>21. KeptInv'
  <2> SUFFICES ASSUME NEW g \in Regular', g \in maps'.reserved \cup Waiting(maps)'
               PROVE  /\ flow'[g].redirect \in Endpoints
                      /\ c.binding = Null /\ ~c.closing
                      /\ c.server = Socket(flow'[g].redirect)
                      /\ c.at.path = flow'[g].redirect.path
    BY <1>3 DEF KeptInv
  <2>1. CASE g = f
    <3>1. ~c.adrift /\ ~c.closing
      BY <1>18, <2>1 DEF IInv, ServerInv, BindingInv, Regular
    <3> QED BY <1>4, <2>1, <3>1, RedirectServed
  <2>2. CASE g # f
    <3>1. g \in Regular /\ flow'[g] = flow[g] /\ g \in maps.reserved \cup Waiting(maps)
      BY <1>5, <1>7, <1>18, <2>2 DEF Regular, Waiting
    <3> QED BY <3>1 DEF IInv, ServerInv, KeptInv
  <2> QED BY <2>1, <2>2
<1>22. StoredIsReserved'
  <2> SUFFICES ASSUME NEW g \in Regular, flow'[g].at \in Sdk, maps'.store[flow'[g].server].state = g
               PROVE  g \in maps'.reserved
    BY <1>18 DEF StoredIsReserved
  <2>1. CASE g = f
    BY <1>5, <2>1
  <2>2. CASE g # f
    <3>1. flow'[g] = flow[g] /\ g \in Started
      BY <1>7, <2>2 DEF Regular
    <3>2. flow[g].server # s
      BY <1>5, <2>2, <3>1
    <3> QED BY <1>5, <1>9, <2>2, <3>1, <3>2 DEF IInv, ServerInv, StoredIsReserved
  <2> QED BY <2>1, <2>2
<1>23. TypeInv'
  BY <1>3, <1>4, <1>5 DEF IInv, TypeInv
<1> QED BY <1>10, <1>11, <1>12, <1>13, <1>14, <1>15, <1>16, <1>17, <1>19, <1>20, <1>21, <1>22, <1>23
        DEF IInv, OwnInv, CrossInv, ServerInv

LEMMA EnsureKeeps ==
  ASSUME IInv, NEW f \in Flows, EnsureCallbackServer(f)
  PROVE  IInv'
<1>1. f \in Started /\ flow[f].at = "ensure" /\ server.binding = Null
  BY DEF EnsureCallbackServer, Started
<1>2. PICK s \in Servers : s = flow[f].server
  BY <1>1, StartedCalls DEF IInv
<1>3. server \in Server /\ server.at \in Endpoints /\ f \in FlowOrNull
  BY DEF IInv, TypeInv, Server, FlowOrNull
<1>4. \A g \in Started : flow[g].at \notin Binding
  BY <1>1, FlowsFacts DEF IInv, ServerInv, BindingInv, Binding, Started
<1>5. (\E g \in Regular : g \in maps.reserved \cup Waiting(maps)) =>
        /\ ~NeedsRebind(server, s) /\ ~NeedsPathSwitch(server, s) /\ server.server # Null
  BY <1>2, KeptMeans DEF EnsureCallbackServer, Refuses
<1>6. CASE MustListen(server, s)
  <2>1. /\ server' = [server EXCEPT !.binding = f] /\ Goes(f, "listening")
        /\ UNCHANGED <<maps, exchanges, others, ghosts>>
    BY <1>2, <1>6 DEF EnsureCallbackServer
  <2>2. /\ server' \in Server /\ server'.binding = f /\ server'.closing = server.closing
        /\ server'.server = server.server /\ server'.at = server.at /\ server'.adrift = server.adrift
    BY <1>3, <2>1 DEF Server
  <2>3. ~\E g \in Regular : g \in maps.reserved \cup Waiting(maps)
    BY <1>5, <1>6 DEF MustListen
  <2>4. PortInv'
    <3>1. \A g \in Flows \ {f} : flow'[g] = flow[g]
      BY <2>1 DEF Goes, IInv, TypeInv
    <3>2. flow'[f].at = "listening" /\ Started' = Started
      <4>1. flow[f] \in Call
        BY <1>1, StartedCalls DEF IInv
      <4>2. flow'[f].at = "listening"
        BY <2>1, <4>1 DEF Goes, IInv, TypeInv, Call
      <4> QED BY <1>1, <3>1, <4>2 DEF Started
    <3>3. \A g \in Started : flow'[g].at # "closing" /\ flow[g].at # "closing"
      BY <1>4, <3>1, <3>2 DEF Binding, Started
    <3> QED BY <2>2, <3>2, <3>3 DEF PortInv, IInv, ServerInv
  <2>5. server'.closing => stopping
    BY <1>4, <2>2 DEF IInv, ServerInv, BindingInv, Binding
  <2>6. "listening" \in Binding /\ flow[f].at \in {"ensure", "listening"}
    BY <1>1 DEF Binding
  <2> QED BY <1>1, <1>4, <2>1, <2>2, <2>3, <2>4, <2>5, <2>6, BindsKeeps
<1>7. CASE ~MustListen(server, s)
  <2> DEFINE c == SwitchPath(server, s)
  <2>1. Prepare(f, c)
    BY <1>2, <1>7 DEF EnsureCallbackServer
  <2>2. /\ c \in Server /\ c.binding = Null /\ c.closing = server.closing /\ c.adrift = server.adrift
        /\ c.server = server.server /\ c.at.host = server.at.host /\ c.at.port = server.at.port
        /\ c.at.path = Wanted(s).path
    <3>1. Wanted(s) \in Endpoints
      BY EndpointsTyped
    <3>2. /\ [server.at EXCEPT !.path = Wanted(s).path] \in Endpoints
          /\ c = [server EXCEPT !.at = [server.at EXCEPT !.path = Wanted(s).path]]
      BY <1>3, <3>1 DEF Endpoints, SwitchPath
    <3> QED BY <1>1, <1>3, <3>2 DEF Server, Endpoints
  <2>3. c.closing => stopping
    BY <1>4, <2>2 DEF IInv, ServerInv, BindingInv, Binding
  <2>4. ~c.adrift => Serves(c, s)
    <3>1. ~c.adrift => server.server = Socket(server.at)
      BY <1>4, <1>7, <2>2 DEF IInv, ServerInv, PortInv, Binding, MustListen
    <3>2. /\ server.at.host = Wanted(s).host
          /\ Strict(s) => server.at.port = Wanted(s).port
      BY <1>7 DEF MustListen, NeedsRebind
    <3> HIDE DEF c
    <3> QED BY <2>2, <3>1, <3>2 DEF Serves, Socket
  <2>5. (\E g \in Regular : g \in maps.reserved \cup Waiting(maps)) =>
           c.server = server.server /\ c.at.path = server.at.path /\ c.closing = server.closing
    BY <1>5, <2>2 DEF NeedsPathSwitch
  <2>6. flow[f].at \in Starting \ Sdk
    BY <1>1 DEF Starting, Sdk
  <2> HIDE DEF c
  <2> QED BY <1>1, <1>2, <1>4, <2>1, <2>2, <2>3, <2>4, <2>5, <2>6, PrepareKeeps
<1> QED BY <1>6, <1>7

LEMMA ListenSucceedsKeeps ==
  ASSUME IInv, NEW f \in Flows, ListenSucceeds(f)
  PROVE  IInv'
<1>1. f \in Started /\ flow[f].at = "listening" /\ server.binding = f
  BY DEF ListenSucceeds, Started, IInv, ServerInv, BindingInv
<1>2. PICK s \in Servers : s = flow[f].server
  BY <1>1, StartedCalls DEF IInv
<1>3. server \in Server /\ server.at \in Endpoints
  BY DEF IInv, TypeInv, Server
<1>4. \A g \in Started : flow[g].at \in Binding => g = f
  BY <1>1 DEF IInv, ServerInv, BindingInv, Binding
<1>5. ~\E g \in Regular : g \in maps.reserved \cup Waiting(maps)
  BY <1>1, KeptMeans, FlowsFacts
<1> DEFINE Listens(port) == Listening(server, s, port)
<1>6. PICK port \in Free(server, s) :
        IF server.server = Null THEN Prepare(f, Install(Listens(port), s))
        ELSE /\ server' = Listens(port) /\ Goes(f, "closing")
             /\ UNCHANGED <<maps, exchanges, others, ghosts>>
  BY <1>2 DEF ListenSucceeds
<1> DEFINE c == Listens(port)
<1>7. /\ Wanted(s).host \in Hosts /\ Wanted(s).path \in {e.path : e \in Asked}
      /\ port \in Ports /\ (Strict(s) => port = Wanted(s).port)
  BY <1>6, EndpointsTyped DEF Free, Ports, Endpoints
<1>8. /\ c \in Server /\ c.binding = f /\ c.candidate = [host |-> Wanted(s).host, port |-> port]
      /\ c.server = server.server /\ c.at.port = port /\ c.at \in Endpoints
      /\ c.adrift = server.adrift /\ (c.closing <=> server.server # Null)
      /\ c.left = server.left
  <2>1. /\ [server.at EXCEPT !.port = port] \in Endpoints
        /\ [server.at EXCEPT !.port = port].port = port
        /\ [host |-> Wanted(s).host, port |-> port] \in Sockets
    BY <1>3, <1>7 DEF Endpoints, Sockets
  <2>2. c = [server EXCEPT !.candidate = [host |-> Wanted(s).host, port |-> port],
                           !.at = [server.at EXCEPT !.port = port], !.closing = server.server # Null]
    BY <1>3 DEF Listening, Server
  <2> HIDE DEF c
  <2> QED BY <1>1, <1>3, <2>1, <2>2 DEF Server
<1> HIDE DEF c
<1>9. CASE server.server = Null
  <2> DEFINE d == Install(c, s)
  <2>1. Prepare(f, d)
    BY <1>6, <1>9 DEF c
  <2>2. /\ d \in Server /\ d.binding = Null /\ ~d.closing /\ ~d.adrift
        /\ d.server = [host |-> Wanted(s).host, port |-> port]
        /\ d.at.host = Wanted(s).host /\ d.at.port = port /\ d.at.path = Wanted(s).path
    <3>1. LET e == [c.at EXCEPT !.host = Wanted(s).host, !.path = Wanted(s).path] IN
            e \in Endpoints /\ e.host = Wanted(s).host /\ e.path = Wanted(s).path /\ e.port = port
      BY <1>7, <1>8 DEF Endpoints
    <3> HIDE DEF d
    <3>2. d = [c EXCEPT !.server = c.candidate, !.candidate = Null, !.binding = Null,
                        !.closing = FALSE, !.adrift = FALSE,
                        !.at = [c.at EXCEPT !.host = Wanted(s).host, !.path = Wanted(s).path]]
      BY <1>8 DEF Install, Server, d
    <3> QED BY <1>8, <3>1, <3>2 DEF Server, FlowOrNull
  <2>3. Serves(d, s)
    BY <1>7, <2>2 DEF Serves, Socket
  <2>4. flow[f].at \in Starting \ Sdk
    BY <1>1 DEF Starting, Sdk
  <2> HIDE DEF d
  <2> QED BY <1>1, <1>2, <1>4, <1>5, <2>1, <2>2, <2>3, <2>4, PrepareKeeps
<1>10. CASE server.server # Null
  <2>1. /\ server' = c /\ Goes(f, "closing")
        /\ UNCHANGED <<maps, exchanges, others, ghosts>>
    BY <1>6, <1>10 DEF c
  <2>2. PortInv'
    <3>1. \A g \in Flows \ {f} : flow'[g] = flow[g]
      BY <2>1 DEF Goes, IInv, TypeInv
    <3>2. flow'[f].at = "closing" /\ flow'[f].server = s /\ Started' = Started
      <4>1. flow[f] \in Call
        BY <1>1, StartedCalls DEF IInv
      <4>2. flow'[f].at = "closing" /\ flow'[f].server = s
        BY <1>2, <2>1, <4>1 DEF Goes, IInv, TypeInv, Call
      <4> QED BY <1>1, <3>1, <4>2 DEF Started
    <3>3. \A g \in Started : flow'[g].at = "closing" => g = f
      BY <1>4, <3>1 DEF Binding, Started
    <3> QED BY <1>1, <1>7, <1>8, <2>1, <3>2, <3>3 DEF PortInv
  <2>3. "closing" \in Binding /\ flow[f].at \in {"ensure", "listening"}
    BY <1>1 DEF Binding
  <2> QED BY <1>1, <1>4, <1>5, <1>8, <2>1, <2>2, <2>3, BindsKeeps
<1> QED BY <1>9, <1>10

LEMMA OldServerClosesKeeps ==
  ASSUME IInv, NEW f \in Flows, OldServerCloses(f)
  PROVE  IInv'
<1>1. f \in Started /\ flow[f].at = "closing" /\ server.binding = f
  BY DEF OldServerCloses, Started, IInv, ServerInv, BindingInv
<1>2. PICK s \in Servers : s = flow[f].server
  BY <1>1, StartedCalls DEF IInv
<1>3. server \in Server /\ server.at \in Endpoints
  BY DEF IInv, TypeInv, Server
<1>4. \A g \in Started : flow[g].at \in Binding => g = f
  BY <1>1 DEF IInv, ServerInv, BindingInv, Binding
<1>5. ~\E g \in Regular : g \in maps.reserved \cup Waiting(maps)
  BY <1>1, KeptMeans, FlowsFacts
<1> DEFINE e == [server.at EXCEPT !.host = Wanted(s).host, !.path = Wanted(s).path]
           c == [Install(server, s) EXCEPT !.adrift = server.server = Null]
<1>6. Prepare(f, c)
  BY <1>2 DEF OldServerCloses
<1>7. e \in Endpoints /\ e.host = Wanted(s).host /\ e.path = Wanted(s).path /\ e.port = server.at.port
  BY <1>3, EndpointsTyped DEF Endpoints
<1>8. /\ c \in Server /\ c.binding = Null /\ ~c.closing /\ (c.adrift <=> server.server = Null)
      /\ c.server = server.candidate /\ c.at = e
  <2>1. c = [server EXCEPT !.server = server.candidate, !.candidate = Null, !.binding = Null,
                           !.closing = FALSE, !.adrift = (server.server = Null), !.at = e]
    BY <1>3 DEF Install, Server
  <2> HIDE DEF c, e
  <2> QED BY <1>3, <1>7, <2>1 DEF Server, FlowOrNull
<1>9. ~c.adrift => Serves(c, s)
  <2>1. server.server # Null =>
          /\ server.candidate = [host |-> Wanted(s).host, port |-> server.at.port]
          /\ Strict(s) => server.at.port = Wanted(s).port
    BY <1>1, <1>2 DEF IInv, ServerInv, PortInv
  <2> HIDE DEF c, e
  <2> QED BY <1>7, <1>8, <2>1 DEF Serves, Socket
<1>10. flow[f].at \in Starting \ Sdk
  BY <1>1 DEF Starting, Sdk
<1> HIDE DEF c
<1> QED BY <1>1, <1>2, <1>4, <1>5, <1>6, <1>8, <1>9, <1>10, PrepareKeeps

-----------------------------------------------------------------------------
(***************************************************************************)
(* The theorems.                                                           *)
(***************************************************************************)
LEMMA InitHolds == Init => IInv
<1> SUFFICES ASSUME Init PROVE IInv
  OBVIOUS
<1>1. Configured \in Endpoints /\ NoEntry \in Entry
  BY EndpointsAssumption, NoEntryIsEntry DEF Asked
<1>2. Started = {}
  BY DEF Init, Started, NoFlow
<1>3. TypeInv
  BY <1>1 DEF Init, TypeInv, FreshMaps, Maps, NoServer, Server, FlowOrNull
<1>4. OwnInv
  BY <1>2 DEF Init, OwnInv, StoreInv, CallInv, ExchangeInv, OneAuthentication, FreshMaps, NoEntry
<1>5. AwaitInv
  BY <1>2 DEF Init, AwaitInv, PendingInv, AnswerInv, CallbacksAreAnswered, FreshMaps
<1>6. ReserveInv
  BY DEF Init, ReserveInv, ReservationsAreReleased, FreshMaps
<1>7. CrossInv
  <2>1. \A s : Out(s) = {}
    BY <1>2 DEF Out, Of
  <2> QED BY <1>2, <2>1 DEF Init, CrossInv, StartsCross, StoredCross, AwaitedCross, HeldCross,
                             CodesMeetTheirFlow
<1>8. ServerInv
  BY <1>2 DEF Init, ServerInv, BindingInv, PortInv, KeptInv, StoredIsReserved, Regular, NoServer
<1>9. RevokedInv
  BY DEF Init, RevokedInv, TakenInv, SentInv, LogoutIsFinal
<1> QED BY <1>3, <1>4, <1>5, <1>6, <1>7, <1>8, <1>9 DEF IInv

LEMMA StepKeeps ==
  ASSUME IInv, [Next]_vars
  PROVE  IInv'
<1>1. CASE UNCHANGED vars
  <2>1. UNCHANGED <<maps, server, flow, exchanges, stopping, ghosts>>
    BY <1>1 DEF vars, ghosts
  <2>2. Agrees(maps, {}) /\ Shrinks(maps, maps', {})
    BY <2>1, MapsAgree, ShrinksNot DEF IInv, OwnInv, RevokedInv, TypeInv
  <2> QED BY <2>1, <2>2, SameFlows
<1>2. ASSUME NEW s \in Servers, NEW kind \in {"authenticate", "start"}, NewFlow(s, kind)
      PROVE  IInv'
  BY <1>2, NewFlowKeeps
<1>3. ASSUME NEW s \in Servers, ConnectionAsks(s) \/ CleanupTimer(s) \/ Logout(s)
      PROVE  IInv'
  BY <1>3, ConnectionAsksKeeps, CleanupTimerKeeps, LogoutKeeps
<1>4. ASSUME NEW f \in Flows, StartStep(f)
      PROVE  IInv'
  BY <1>4, EnsureKeeps, FailuresKeep, ListenSucceedsKeeps, OldServerClosesKeeps, SdkKeeps DEF StartStep
<1>5. ASSUME NEW f \in Flows, AwaitStep(f) \/ CallbackTimeout(f)
      PROVE  IInv'
  BY <1>5, CallbackArrivesKeeps, CallbackRejectedKeeps, CallbackTimeoutKeeps DEF AwaitStep
<1>6. ASSUME NEW f \in Flows, NEW granted \in BOOLEAN, BrowserReturns(f, granted)
      PROVE  IInv'
  <2>1. CASE granted = TRUE
    BY <1>6, <2>1, BrowserGrants
  <2>2. CASE granted = FALSE
    BY <1>6, <2>2, BrowserDenies
  <2> QED BY <2>1, <2>2
<1>7. ASSUME NEW f \in Flows, NEW codeOnly \in BOOLEAN, CompleteAuthFromInput(f, codeOnly)
      PROVE  IInv'
  BY <1>7, CompleteAuthFromInputKeeps
<1>8. ASSUME NEW e \in exchanges, ExchangeStep(e)
      PROVE  IInv'
  BY <1>8, ReadVerifierKeeps, ExchangeSucceedsKeeps, ExchangeFailsKeeps DEF ExchangeStep
<1>9. CASE ShutdownOAuth \/ ShutdownEnds
  BY <1>9, ShutdownKeeps
<1> QED BY <1>1, <1>2, <1>3, <1>4, <1>5, <1>6, <1>7, <1>8, <1>9 DEF Next

\* The inductive invariant holds whatever flows, users, timers, logouts and
\* shutdowns do, in whatever order.
THEOREM Inductive == Spec => []IInv
<1>1. Init => IInv
  BY InitHolds
<1>2. IInv /\ [Next]_vars => IInv'
  BY StepKeeps
<1> QED BY <1>1, <1>2, PTL DEF Spec

-----------------------------------------------------------------------------
(***************************************************************************)
(* The properties.                                                         *)
(***************************************************************************)
LEMMA KeptWhereItLeads ==
  ASSUME IInv
  PROVE  EndpointIsKept
<1> SUFFICES ASSUME NEW f \in Started \ (orphans \cup crossed), HandedOut(f),
                    flow[f].state \in maps.reserved \cup Waiting(maps)
             PROVE  Reaches(server, flow[f].redirect)
  BY DEF EndpointIsKept
<1>1. f \in Regular
  BY DEF Regular
<1>2. flow[f].state \in Flows
  BY DEF IInv, OwnInv, CallInv, HandedOut, Of, Started
<1>3. flow[f].state = f
  BY <1>2 DEF IInv, CrossInv, AwaitedCross
<1> QED BY <1>1, <1>3 DEF IInv, ServerInv, KeptInv, Reaches

\* No flow, however many there are and whatever endpoints they need, takes the
\* callback endpoint from an authorisation whose callback may still come
\* (ensureCallbackServerLocked), unless a shutdown overtook it or it was started
\* while another start of its server was under way.
THEOREM EndpointsAreKept == Spec => []EndpointIsKept
<1>1. IInv => EndpointIsKept
  BY KeptWhereItLeads
<1> QED BY <1>1, Inductive, PTL

\* Every way out of startAuth, completeAuth and the clean-up timer gives the
\* reservation of the callback server back, unless the flow failed while the
\* transport of another one was held.
THEOREM NothingStaysReserved == Spec => []ReservationsAreReleased
<1>1. IInv => ReservationsAreReleased
  BY DEF IInv, ReserveInv
<1> QED BY <1>1, Inductive, PTL

\* A code that a browser brought is exchanged through the transport of its own
\* flow (authenticate, completeAuth), for any number of flows that replace one
\* another, unless their starts overlap.
THEOREM CodesStayWithTheirFlow == Spec => []CodesMeetTheirFlow
<1>1. IInv => CodesMeetTheirFlow
  BY DEF IInv, CrossInv
<1> QED BY <1>1, Inductive, PTL

\* No step after a logout (removeAuth) stores tokens of an authorisation whose
\* URL was out before it, unless their request had been sent.
THEOREM LogoutsAreFinal == Spec => []LogoutIsFinal
<1>1. IInv => LogoutIsFinal
  BY DEF IInv, RevokedInv, TakenInv
<1> QED BY <1>1, Inductive, PTL

\* A call of authenticate that awaits its callback has an answer or an entry
\* whose timer will give it one (waitForCallback and all that deletes entries).
THEOREM NoCallbackIsForgotten == Spec => []CallbacksAreAnswered
<1>1. IInv => CallbacksAreAnswered
  BY DEF IInv, AwaitInv
<1> QED BY <1>1, Inductive, PTL

=============================================================================
