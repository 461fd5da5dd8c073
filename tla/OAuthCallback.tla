---------------------------- MODULE OAuthCallback ----------------------------
(***************************************************************************)
(* What the OAuth flows of pi-mcp-adapter share: the callback server       *)
(* (mcp-callback-server.ts), the authorisations that wait for it, the      *)
(* stored entry of each MCP server (mcp-auth.ts), and the transport that   *)
(* is kept for a flow to be completed with (mcp-auth-flow.ts).             *)
(*                                                                         *)
(* Operators lead from a record to the next.  Of the maps m, m.reserved    *)
(* and m.pending are those of the callback server (pending: the flow that  *)
(* awaits the callback of a state), m.answer what became of the promise a  *)
(* flow awaits, m.store the entries on disk, and m.held the flow whose     *)
(* transport, state and clean-up timer are kept for a server.  A flow also *)
(* stands for the random state it made.                                    *)
(***************************************************************************)
EXTENDS Naturals, FiniteSets

CONSTANTS
  Servers,        \* MCP servers that are reached over HTTP
  Preregistered,  \* those whose client id is configured
  Endpoint,       \* the callback of those whose redirect URI is configured
  Configured,     \* the endpoint that is used unless another is asked for
  OsPorts,        \* ports the operating system assigns
  MaxFlows,       \* how often an authorisation is started
  Null

ASSUME ServersAssumption == Preregistered \cup DOMAIN Endpoint \subseteq Servers

ASSUME FlowsAssumption == MaxFlows \in Nat /\ Null \notin Nat \cup {"authenticate", "start"}

Flows == 1..MaxFlows

\* Endpoints are records of a host, a port and a path; a server listens on a
\* socket, a host and a port.
Asked == {Configured} \cup {Endpoint[s] : s \in DOMAIN Endpoint}
Hosts == {e.host : e \in Asked}
Ports == {e.port : e \in Asked} \cup OsPorts
Endpoints == [host : Hosts, port : Ports, path : {e.path : e \in Asked}]
Sockets == [host : Hosts, port : Ports]

ASSUME EndpointsAssumption == Asked \subseteq Endpoints /\ Null \notin Sockets

\* No flow, but what stands where flows do.
Rejected == 0
Connection == 0

\* An entry on disk: the state and the PKCE verifier of a flow (or of a
\* connection), the redirect URI its client was registered with, and the flow
\* that got the tokens.
NoEntry == [state |-> Null, verifier |-> Null, client |-> Null, tokens |-> Null]

FreshMaps ==
  [reserved |-> {},
   pending |-> [x \in Flows |-> Null],
   answer |-> [f \in Flows |-> Null],
   store |-> [s \in Servers |-> NoEntry],
   held |-> [s \in Servers |-> Null]]

-----------------------------------------------------------------------------
(***************************************************************************)
(* The stored entries.                                                     *)
(***************************************************************************)
ClearOAuthState(m, s) == [m EXCEPT !.store[s].state = Null]

UpdateOAuthState(m, s, f) == [m EXCEPT !.store[s].state = f]

Invalidate(m, s, what) ==
  CASE what = "none"   -> m
    [] what = "tokens" -> [m EXCEPT !.store[s].tokens = Null]
    [] what = "all"    -> [m EXCEPT !.store[s] = NoEntry]

\* What startAuth drops in order to register again: a client without tokens, or
\* one that was registered for another redirect URI.
DropStaleClient(m, s, redirect) ==
  LET e == m.store[s] IN
  IF e.client = Null \/ s \in Preregistered \/ (e.tokens # Null /\ e.client = redirect)
  THEN m ELSE [m EXCEPT !.store[s] = NoEntry]

-----------------------------------------------------------------------------
(***************************************************************************)
(* Who waits for a callback.                                               *)
(***************************************************************************)
ReleaseCallbackServer(m, x) == [m EXCEPT !.reserved = @ \ {x}]

WaitForCallback(m, x, f) == [m EXCEPT !.reserved = @ \ {x}, !.pending[x] = f]

Answer(m, x, answer) ==
  IF m.pending[x] = Null THEN m
  ELSE [m EXCEPT !.pending[x] = Null, !.answer[m.pending[x]] = answer]

\* Mutant: the entry is deleted, its promise is never rejected.
CancelSilently(m, x) == [ReleaseCallbackServer(m, x) EXCEPT !.pending[x] = Null]

CancelPendingCallback(m, x) == Answer(ReleaseCallbackServer(m, x), x, Rejected)

Waiting(m) == {x \in Flows : m.pending[x] # Null}
Busy(m) == m.reserved # {} \/ Waiting(m) # {}

\* Mutant: what is cleared is only what setPendingTransport kept.
ClearWithoutRelease(m, s, x) ==
  IF m.held[s] = Null \/ (x # Null /\ m.held[s] # x) THEN m
  ELSE [m EXCEPT !.held[s] = Null,
                 !.store[s].state = IF @ = m.held[s] THEN Null ELSE @]

\* Nothing is cleared if the transport of another flow is held.
ClearPendingAuth(m, s, x) ==
  LET mine == IF m.held[s] # Null THEN m.held[s] ELSE x
      released == [ReleaseCallbackServer(m, mine) EXCEPT !.held[s] = Null]
  IN  IF mine = Null \/ (x # Null /\ mine # x) THEN m
      ELSE IF m.store[s].state = mine THEN ClearOAuthState(released, s) ELSE released

SetPendingTransport(m, s, f) == [ClearPendingAuth(m, s, Null) EXCEPT !.held[s] = f]

Cancelled(m, s) ==
  LET x == m.store[s].state
      cancelled == IF x = Null THEN m ELSE CancelPendingCallback(m, x)
  IN  ClearPendingAuth(cancelled, s, x)

\* Mutant: what is on disk for a flow to be completed with stays there.
RemoveTokens(m, s) == [Cancelled(m, s) EXCEPT !.store[s].tokens = Null, !.store[s].state = Null]

\* A logout.
RemoveAuth(m, s) == [Cancelled(m, s) EXCEPT !.store[s] = NoEntry]

\* shutdownOAuth up to the close of the server, and the end of stopCallbackServer.
ClearAllPending(m) ==
  [m EXCEPT
     !.reserved = @ \ {m.held[s] : s \in Servers},
     !.store = [s \in Servers |-> IF m.store[s].state = m.held[s]
                                  THEN [m.store[s] EXCEPT !.state = Null] ELSE m.store[s]],
     !.held = [s \in Servers |-> Null]]

RejectAll(m) ==
  [m EXCEPT
     !.reserved = {},
     !.pending = [x \in Flows |-> Null],
     !.answer = [f \in Flows |-> IF \E x \in Flows : m.pending[x] = f
                                 THEN Rejected ELSE m.answer[f]]]

-----------------------------------------------------------------------------
(***************************************************************************)
(* The endpoint.  c.at is what the variables of the modules say (redirect  *)
(* URIs are built from it), c.server the socket of the server, c.candidate *)
(* that of the one which flow c.binding binds, and c.left the sockets of   *)
(* servers that run although nobody refers to them any more.  c.adrift is  *)
(* a ghost: a stop came while the server was being installed, so that c.at *)
(* has another port than it.                                               *)
(***************************************************************************)
NoServer == [at |-> Configured, server |-> Null, closing |-> FALSE,
             binding |-> Null, candidate |-> Null, left |-> {}, adrift |-> FALSE]

Socket(e) == [host |-> e.host, port |-> e.port]

\* The endpoint that the flows of a server need.  If neither a redirect URI nor
\* a client is configured any port will do.
Strict(s) == s \in DOMAIN Endpoint \cup Preregistered
Wanted(s) == IF s \in DOMAIN Endpoint THEN Endpoint[s] ELSE Configured

NeedsRebind(c, s) ==
  /\ c.server # Null
  /\ \/ c.at.host # Wanted(s).host
     \/ Strict(s) /\ c.at.port # Wanted(s).port
NeedsPathSwitch(c, s) == c.server # Null /\ c.at.path # Wanted(s).path
MustListen(c, s) == c.server = Null \/ NeedsRebind(c, s)

\* Mutant: flows whose URL is not yet awaited are not considered.
RefusesAwaited(c, m, s) == Waiting(m) # {} /\ (NeedsRebind(c, s) \/ NeedsPathSwitch(c, s))

\* A switch would take the endpoint from an authorisation under way.
Refuses(c, m, s) == Busy(m) /\ (NeedsRebind(c, s) \/ NeedsPathSwitch(c, s))

SwitchPath(c, s) == [c EXCEPT !.at.path = Wanted(s).path]

\* Where a new server may listen: another program's ports are not known.
Free(c, s) ==
  {port \in IF Strict(s) THEN {Wanted(s).port} ELSE OsPorts :
     [host |-> Wanted(s).host, port |-> port] \notin c.left \cup {c.server}}

\* The new server listens and its port is known before the old one is closed.
Listening(c, s, port) ==
  [c EXCEPT !.candidate = [host |-> Wanted(s).host, port |-> port],
            !.at.port = port, !.closing = c.server # Null]

Install(c, s) ==
  [c EXCEPT !.server = c.candidate, !.candidate = Null, !.binding = Null, !.closing = FALSE,
            !.adrift = FALSE,
            !.at.host = Wanted(s).host, !.at.path = Wanted(s).path]

\* stopCallbackServer once the server it closes is closed: if another was
\* installed meanwhile, that one is forgotten instead.
Stop(c) ==
  [c EXCEPT !.server = Null, !.closing = FALSE, !.at = Configured, !.adrift = FALSE,
            !.left = @ \cup (IF c.server = Null \/ c.closing THEN {} ELSE {c.server})]

\* The redirect URI of a flow is fixed when its provider is made.
RedirectOf(c, s) ==
  IF s \in DOMAIN Endpoint THEN Endpoint[s] ELSE [c.at EXCEPT !.host = Configured.host]

\* A browser that is sent to a redirect URI reaches handleRequest.
Reaches(c, redirect) ==
  /\ \/ ~c.closing /\ c.server = Socket(redirect)
     \/ Socket(redirect) \in c.left
  /\ c.at.path = redirect.path
=============================================================================
