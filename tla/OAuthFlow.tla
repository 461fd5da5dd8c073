------------------------------ MODULE OAuthFlow ------------------------------
(***************************************************************************)
(* The OAuth flows of pi-mcp-adapter: authenticate and startAuth, the      *)
(* callback a browser brings back, codes that the user pastes, logouts,    *)
(* clean-up timers and the shutdown at the end of a session                *)
(* (mcp-auth-flow.ts over mcp-callback-server.ts).                         *)
(*                                                                         *)
(* One thread runs everything.  An action is a callback up to its next     *)
(* await of the network, a socket, a timer or the browser; awaits of       *)
(* functions that wait for nothing are not interrupted.                    *)
(***************************************************************************)
EXTENDS OAuthCallback

CONSTANTS
  MaxPasted,        \* how often the user pastes a code
  MaxInterruptions  \* how often the user logs out or a session ends

VARIABLES
  maps,       \* what OAuthCallback calls m
  server,     \* what OAuthCallback calls c
  flow,       \* the calls of startAuth and authenticate
  exchanges,  \* codes that are being exchanged for tokens
  stopping,   \* shutdownOAuth closes the callback server
  interruptions, pasted,  \* counted for the bounds
  orphans,    \* ghost: flows that a shutdown came after, or came to the server of
  crossed,    \* ghost: flows that were started while another of the server was
  forgotten,  \* ghost: flows that failed while another's transport was held
  revoked     \* ghost: flows that a logout came after

vars == <<maps, server, flow, exchanges, stopping, interruptions, pasted,
          orphans, crossed, forgotten, revoked>>

ghosts == <<orphans, crossed, forgotten, revoked>>
others == <<stopping, interruptions, pasted>>

\* at: where the call is.  state: the state in the URL the flow handed out.
\* waits: the state whose callback it awaits.
NoFlow == [at |-> "unused"]

Starting == {"ensure", "listening", "closing", "discovering", "registering", "refreshing"}
Sdk == {"discovering", "registering", "refreshing"}
Started == {f \in Flows : flow[f].at # "unused"}
Ensuring == {f \in Started : flow[f].at = "ensure"}
HandedOut(f) == flow[f].at # "unused" /\ flow[f].state # Null
Of(s) == {f \in Started : flow[f].server = s}

\* pendingAuthentications has an entry for the server.
Authenticating(s) == \E f \in Of(s) : flow[f].kind = "authenticate"

Init ==
  /\ maps = FreshMaps /\ server = NoServer
  /\ flow = [f \in Flows |-> NoFlow]
  /\ exchanges = {} /\ stopping = FALSE
  /\ interruptions = 0 /\ pasted = 0
  /\ orphans = {} /\ crossed = {} /\ forgotten = {} /\ revoked = {}

\* A call goes on, or settles: what matters then is the URL it handed out.
Over(call) == [call EXCEPT !.at = "over", !.kind = Null, !.waits = Null, !.retried = FALSE]

Goes(f, at) == flow' = [flow EXCEPT ![f].at = at]

Settles(f) == flow' = [flow EXCEPT ![f] = Over(@)]

-----------------------------------------------------------------------------
(***************************************************************************)
(* startAuth.                                                              *)
(***************************************************************************)
\* kind "authenticate" waits for the browser, "start" gives the URL to the user.
\* An authenticate while one is in flight shares its promise.
NewFlow(s, kind) ==
  /\ server.binding # Null \/ Ensuring = {}
  /\ kind = "start" \/ ~Authenticating(s)
  /\ \E f \in Flows \ Started :
       /\ \A g \in Flows \ Started : f <= g
       /\ flow' = [flow EXCEPT ![f] = [at |-> "ensure", server |-> s, kind |-> kind,
                      redirect |-> Null, state |-> Null, waits |-> Null, retried |-> FALSE]]
       /\ crossed' = LET now == {g \in Of(s) : flow[g].at \in Starting}
                     IN  crossed \cup now \cup (IF now = {} THEN {} ELSE {f})
       /\ orphans' = IF stopping THEN orphans \cup {f} ELSE orphans
  /\ UNCHANGED <<maps, server, exchanges, others, forgotten, revoked>>

\* The callback server is there: the redirect URI is fixed, what the entry
\* holds of an earlier client is dropped, and the SDK takes over.
Prepare(f, c) ==
  LET s == flow[f].server
      reserved == [maps EXCEPT !.reserved = @ \cup {f}]
  IN  /\ flow' = [flow EXCEPT ![f].at = "discovering", ![f].redirect = RedirectOf(c, s)]
      /\ maps' = UpdateOAuthState(DropStaleClient(reserved, s, RedirectOf(c, s)), s, f)
      /\ server' = c
      /\ orphans' = IF c.adrift THEN orphans \cup {f} ELSE orphans
      /\ UNCHANGED <<exchanges, others, crossed, forgotten, revoked>>

\* One flow at a time looks for a callback server: the others await its promise.
EnsureCallbackServer(f) ==
  LET s == flow[f].server IN
  /\ flow[f].at = "ensure" /\ server.binding = Null
  /\ ~Refuses(server, maps, s)
  /\ IF MustListen(server, s)
     THEN /\ server' = [server EXCEPT !.binding = f]
          /\ Goes(f, "listening")
          /\ UNCHANGED <<maps, exchanges, others, ghosts>>
     ELSE Prepare(f, SwitchPath(server, s))

\* Flows fail before they have stored a state of their own.
Fail(failing) ==
  /\ flow' = [g \in Flows |-> IF g \in failing THEN Over(flow[g]) ELSE flow[g]]
  /\ maps' = [maps EXCEPT !.store = [s \in Servers |->
                IF \E g \in failing : flow[g].server = s
                THEN [maps.store[s] EXCEPT !.state = Null] ELSE maps.store[s]]]
  /\ server' = [server EXCEPT !.binding = Null]
  /\ UNCHANGED <<exchanges, others, ghosts>>

\* Whoever awaits the promise of a flow fails with it.
EnsureRefuses(f) ==
  /\ flow[f].at = "ensure" /\ server.binding = Null
  /\ Refuses(server, maps, flow[f].server)
  /\ Fail(Ensuring)

ListenFails(f) == flow[f].at = "listening" /\ Fail(Ensuring \cup {f})

ListenSucceeds(f) ==
  LET s == flow[f].server IN
  /\ flow[f].at = "listening"
  /\ \E port \in Free(server, s) :
       LET c == Listening(server, s, port) IN
       IF server.server = Null THEN Prepare(f, Install(c, s))
       ELSE /\ server' = c /\ Goes(f, "closing")
            /\ UNCHANGED <<maps, exchanges, others, ghosts>>

OldServerCloses(f) ==
  /\ flow[f].at = "closing"
  /\ Prepare(f, [Install(server, flow[f].server) EXCEPT !.adrift = server.server = Null])

-----------------------------------------------------------------------------
(***************************************************************************)
(* The SDK's auth, which calls the provider back.                          *)
(***************************************************************************)
\* startAuth throws: what it did is cleared, unless another flow's transport is
\* held for the server.
StartThrows(f, m) ==
  LET s == flow[f].server IN
  /\ maps' = ClearPendingAuth(m, s, f)
  /\ forgotten' = IF m.held[s] \in {Null, f} THEN forgotten ELSE forgotten \cup {f}
  /\ Settles(f)
  /\ UNCHANGED <<server, exchanges, others, orphans, crossed, revoked>>

\* The URL is known and the transport kept.  authenticate then awaits the
\* callback of the state that is stored by now.
UrlIsKnown(f, m) ==
  LET s == flow[f].server
      kept == SetPendingTransport(m, s, f)
      x == kept.store[s].state
      known == [flow EXCEPT ![f].state = m.store[s].state]
  IN  /\ IF flow[f].kind = "authenticate" /\ x # Null
         THEN /\ maps' = WaitForCallback(kept, x, f)
              /\ flow' = [known EXCEPT ![f].at = "awaiting", ![f].waits = x]
         ELSE /\ maps' = kept
              /\ flow' = [known EXCEPT ![f] = Over(@)]
      /\ UNCHANGED <<server, exchanges, others, ghosts>>

\* state() and redirectToAuthorization throw if no flow has stored its state.
Redirect(f, m) ==
  IF m.store[flow[f].server].state = Null THEN StartThrows(f, m)
  ELSE UrlIsKnown(f, [m EXCEPT !.store[flow[f].server].verifier = f])

WithClient(f, m) ==
  IF m.store[flow[f].server].tokens = Null THEN Redirect(f, m)
  ELSE /\ maps' = m
       /\ Goes(f, "refreshing")
       /\ UNCHANGED <<server, exchanges, others, ghosts>>

SdkDiscovers(f) ==
  LET s == flow[f].server IN
  /\ flow[f].at = "discovering"
  /\ IF s \in Preregistered \/ maps.store[s].client # Null THEN WithClient(f, maps)
     ELSE /\ Goes(f, "registering")
          /\ UNCHANGED <<maps, server, exchanges, others, ghosts>>

SdkRegisters(f) ==
  /\ flow[f].at = "registering"
  /\ WithClient(f, [maps EXCEPT !.store[flow[f].server].client = flow[f].redirect])

\* The refresh token is still good: no browser is needed.
SdkRefreshes(f) ==
  LET s == flow[f].server
      saved == [maps EXCEPT !.store[s].tokens = f]
  IN  /\ flow[f].at = "refreshing"
      /\ maps' = ClearOAuthState(ReleaseCallbackServer(saved, f), s)
      /\ Settles(f)
      /\ UNCHANGED <<server, exchanges, others, ghosts>>

\* It is not: the credentials are invalidated and everything is tried again, or
\* the refresh is given up for the browser.
SdkRefreshFails(f) ==
  /\ flow[f].at = "refreshing"
  /\ \/ Redirect(f, maps)
     \/ \E what \in {"tokens", "all"} :
          /\ ~flow[f].retried
          /\ flow' = [flow EXCEPT ![f].at = "discovering", ![f].retried = TRUE]
          /\ maps' = Invalidate(maps, flow[f].server, what)
          /\ UNCHANGED <<server, exchanges, others, ghosts>>

SdkFails(f) == flow[f].at \in Sdk /\ StartThrows(f, maps)

\* The redirect URIs a connection's provider may have.  It reads the endpoint of
\* the modules when it is made, which may be another by now: the first one, or
\* that of a flow.
Snapshots(s) ==
  LET earlier == {flow[f].redirect : f \in {g \in Started : flow[g].redirect # Null}}
  IN  IF s \in DOMAIN Endpoint THEN {Endpoint[s]}
      ELSE {[e EXCEPT !.host = Configured.host] : e \in {Configured, server.at} \cup earlier}

\* A connection to the server asks for authorisation with a provider of its own:
\* it may register a client, and overwrites the verifier of a flow under way.
\* What it registers before any flow of the server is left out: without tokens
\* the first startAuth drops it (DropStaleClient).
ConnectionAsks(s) ==
  LET e == maps.store[s] IN
  /\ Of(s) # {}
  /\ \E client \in IF s \in Preregistered \/ e.client # Null THEN {e.client} ELSE Snapshots(s) :
       maps' = [maps EXCEPT !.store[s] =
         [e EXCEPT !.client = client,
                   !.verifier = IF e.state = Null THEN @ ELSE Connection]]
  /\ UNCHANGED <<server, flow, exchanges, others, ghosts>>

-----------------------------------------------------------------------------
(***************************************************************************)
(* The browser, the user and the timers.                                   *)
(***************************************************************************)
\* handleRequest: the browser comes back from the URL that flow f handed out.
BrowserReturns(f, granted) ==
  LET x == flow[f].state IN
  /\ HandedOut(f) /\ Reaches(server, flow[f].redirect)
  /\ maps' = IF granted THEN Answer(maps, x, f) ELSE CancelPendingCallback(maps, x)
  /\ UNCHANGED <<server, flow, exchanges, others, ghosts>>

CallbackTimeout(x) ==
  /\ maps.pending[x] # Null
  /\ maps' = Answer(maps, x, Rejected)
  /\ UNCHANGED <<server, flow, exchanges, others, ghosts>>

\* The timer of setPendingTransport.
CleanupTimer(s) ==
  /\ maps.held[s] # Null
  /\ maps' = ClearPendingAuth(maps, s, maps.held[s])
  /\ UNCHANGED <<server, flow, exchanges, others, ghosts>>

\* completeAuth up to its await: the code that flow g's URL led to is exchanged
\* through the transport that is held.
CompleteAuth(m, s, g, by) ==
  /\ m.held[s] # Null
  /\ exchanges' = exchanges \cup {[by |-> by, server |-> s, transport |-> m.held[s],
                                   code |-> g, state |-> m.store[s].state, verifier |-> Null]}

\* The catch of authenticate.
AuthenticateThrows(f, m) ==
  /\ maps' = ClearPendingAuth(CancelPendingCallback(m, flow[f].waits), flow[f].server, flow[f].waits)
  /\ Settles(f)

\* The promise that waitForCallback gave out is settled and taken up.
Taken(f) == [maps EXCEPT !.answer[f] = Null]

\* Mutant: the state is not validated.
MayCompleteAny(f) == maps.held[flow[f].server] # Null

\* The stored state is still the one that was awaited, and a transport is held.
MayComplete(f) ==
  LET s == flow[f].server IN maps.store[s].state = flow[f].waits /\ maps.held[s] # Null

CallbackArrives(f) ==
  LET s == flow[f].server
      cleared == ClearOAuthState(Taken(f), s)
  IN  /\ flow[f].at = "awaiting" /\ maps.answer[f] \in Flows
      /\ IF MayComplete(f)
         THEN /\ maps' = cleared
              /\ CompleteAuth(cleared, s, maps.answer[f], f)
              /\ Goes(f, "exchanging")
         ELSE AuthenticateThrows(f, cleared) /\ UNCHANGED exchanges
      /\ UNCHANGED <<server, others, ghosts>>

CallbackRejected(f) ==
  /\ flow[f].at = "awaiting" /\ maps.answer[f] = Rejected
  /\ AuthenticateThrows(f, Taken(f))
  /\ UNCHANGED <<server, exchanges, others, ghosts>>

\* The user pastes the URL flow f's browser came back with, or its code alone.
CompleteAuthFromInput(f, codeOnly) ==
  LET s == flow[f].server
      x == maps.store[s].state
  IN  /\ HandedOut(f) /\ pasted < MaxPasted /\ pasted' = pasted + 1
      /\ codeOnly \/ x = Null \/ flow[f].state = x
      /\ CompleteAuth(maps, s, f, Null)
      /\ UNCHANGED <<maps, server, flow, stopping, interruptions, ghosts>>

-----------------------------------------------------------------------------
(***************************************************************************)
(* finishAuth: the SDK exchanges the code.                                 *)
(***************************************************************************)
Replaces(e, d) == exchanges' = (exchanges \ {e}) \cup {d}

\* The verifier is read when the token endpoint is known.
ReadVerifier(e) ==
  LET entry == maps.store[e.server] IN
  /\ e.verifier = Null
  /\ entry.verifier # Null /\ (e.server \in Preregistered \/ entry.client # Null)
  /\ Replaces(e, [e EXCEPT !.verifier = entry.verifier])
  /\ UNCHANGED <<maps, server, flow, others, ghosts>>

\* The authorisation server takes a code for the verifier and the redirect URI
\* it was asked for with.
ExchangeSucceeds(e) ==
  LET saved == [maps EXCEPT !.store[e.server].tokens = e.code] IN
  /\ e.verifier = e.code /\ flow[e.transport].redirect = flow[e.code].redirect
  /\ exchanges' = exchanges \ {e}
  /\ maps' = ClearPendingAuth(saved, e.server, e.state)
  /\ IF e.by = Null THEN UNCHANGED flow ELSE Settles(e.by)
  /\ UNCHANGED <<server, others, ghosts>>

ExchangeFails(e, what) ==
  LET cleared == ClearPendingAuth(Invalidate(maps, e.server, what), e.server, e.state) IN
  /\ exchanges' = exchanges \ {e}
  /\ IF e.by = Null THEN maps' = cleared /\ UNCHANGED flow
     ELSE AuthenticateThrows(e.by, cleared)
  /\ UNCHANGED <<server, others, ghosts>>

-----------------------------------------------------------------------------
(***************************************************************************)
(* Logouts and shutdowns.                                                  *)
(***************************************************************************)
\* What is already with the token endpoint cannot be called back.
Sent == {e.code : e \in {d \in exchanges : d.verifier # Null}}

Logout(s) ==
  /\ interruptions < MaxInterruptions
  /\ interruptions' = interruptions + 1
  /\ maps' = RemoveAuth(maps, s)
  /\ revoked' = revoked \cup ({f \in Of(s) : HandedOut(f)} \ Sent)
  /\ UNCHANGED <<server, flow, exchanges, stopping, pasted, orphans, crossed, forgotten>>

CallbackServerStops(m) == maps' = RejectAll(m) /\ server' = Stop(server)

ShutdownOAuth ==
  /\ interruptions < MaxInterruptions /\ ~stopping
  /\ interruptions' = interruptions + 1
  /\ orphans' = orphans \cup Started
  /\ IF server.server = Null
     THEN CallbackServerStops(ClearAllPending(maps)) /\ UNCHANGED stopping
     ELSE /\ maps' = ClearAllPending(maps)
          /\ server' = [server EXCEPT !.closing = TRUE]
          /\ stopping' = TRUE
  /\ UNCHANGED <<flow, exchanges, pasted, crossed, forgotten, revoked>>

ShutdownEnds ==
  /\ stopping /\ stopping' = FALSE
  /\ CallbackServerStops(maps)
  /\ UNCHANGED <<flow, exchanges, interruptions, pasted, ghosts>>

-----------------------------------------------------------------------------
StartStep(f) ==
  \/ EnsureCallbackServer(f) \/ EnsureRefuses(f)
  \/ ListenSucceeds(f) \/ OldServerCloses(f) \/ ListenFails(f)
  \/ SdkDiscovers(f) \/ SdkRegisters(f) \/ SdkRefreshes(f) \/ SdkRefreshFails(f) \/ SdkFails(f)

AwaitStep(f) == CallbackArrives(f) \/ CallbackRejected(f)

ExchangeStep(e) ==
  ReadVerifier(e) \/ ExchangeSucceeds(e) \/ \E what \in {"none", "tokens", "all"} : ExchangeFails(e, what)

Next ==
  \/ \E s \in Servers : \/ \E kind \in {"authenticate", "start"} : NewFlow(s, kind)
                        \/ ConnectionAsks(s) \/ CleanupTimer(s) \/ Logout(s)
  \/ \E f \in Flows : \/ StartStep(f) \/ AwaitStep(f) \/ CallbackTimeout(f)
                      \/ \E granted \in BOOLEAN : BrowserReturns(f, granted)
                      \/ \E codeOnly \in BOOLEAN : CompleteAuthFromInput(f, codeOnly)
  \/ \E e \in exchanges : ExchangeStep(e)
  \/ ShutdownOAuth \/ ShutdownEnds

Spec == Init /\ [][Next]_vars

-----------------------------------------------------------------------------
(***************************************************************************)
(* Properties.                                                             *)
(***************************************************************************)
\* While the callback of a flow may still come, the callback server is where the
\* flow's redirect URI says, whatever endpoints the other flows need: it refuses
\* "to switch ports when authorizations are still pending" (CHANGELOG.md:146;
\* ensureCallbackServerLocked).  Left out are flows that a shutdown overtook, and
\* overlapping starts.
EndpointIsKept ==
  \A f \in Started \ (orphans \cup crossed) :
    HandedOut(f) /\ flow[f].state \in maps.reserved \cup Waiting(maps) =>
      Reaches(server, flow[f].redirect)

\* A state is reserved only for a flow that is being started or whose transport
\* is held, so that no endpoint is blocked for ever by a flow that is over
\* (clearPendingAuth on every way out of startAuth, completeAuth and the timer).
\* Left out are flows that failed while another's transport was held.
ReservationsAreReleased ==
  \A x \in maps.reserved :
    flow[x].at \in Starting \/ maps.held[flow[x].server] = x \/ x \in forgotten

\* A code the browser brings is exchanged through the transport of the flow it
\* was granted to: what is stored and held in between may be another's
\* (authenticate and completeAuth).  Overlapping starts are left out.
CodesMeetTheirFlow ==
  \A e \in exchanges : e.by # Null /\ e.code \notin crossed => e.transport = e.code

\* After a logout no authorisation whose URL was out before gets tokens, unless
\* its request for them was under way: removeAuth takes all that is needed to
\* complete it, between any two steps of the callback and the exchange.
LogoutIsFinal == \A s \in Servers : maps.store[s].tokens \notin revoked

\* A call of authenticate that awaits a callback is answered, or its entry with
\* the timer is still there to answer it: no cancellation, stop or second call
\* of waitForCallback makes it wait for ever.
CallbacksAreAnswered ==
  \A f \in Started :
    flow[f].at = "awaiting" => maps.answer[f] # Null \/ maps.pending[flow[f].waits] = f
=============================================================================
