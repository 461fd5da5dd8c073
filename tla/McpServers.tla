----------------------------- MODULE McpServers -----------------------------
(***************************************************************************)
(* The MCP servers of pi-mcp-adapter: who connects to them, uses them and  *)
(* closes them.  Every session of the host gets a state of its own, with   *)
(* a server manager (server-manager.ts) and a health check (lifecycle.ts); *)
(* index.ts makes and shuts down these states as sessions start and end,   *)
(* and tool calls and commands use the one that is current.                *)
(*                                                                         *)
(* One thread runs everything, but connecting, closing, calling and        *)
(* initialising are awaited, and anything may happen meanwhile: an action  *)
(* is a callback up to its next await.  Sessions are numbered by           *)
(* lifecycleGeneration.                                                    *)
(***************************************************************************)
EXTENDS Integers, FiniteSets

CONSTANTS
  Servers,
  KeepAlive,    \* the servers of lifecycle keep-alive
  Eager,        \* connected at the start, never idle
  Calls,        \* the tool calls and commands that may be in progress
  MaxSessions,  \* how often sessions start or end
  MaxConns      \* the connections of one manager that are open or closing

ASSUME ModesAssumption == KeepAlive \subseteq Servers /\ Eager \subseteq Servers

ASSUME CallsAssumption == IsFiniteSet(Calls)

ASSUME BoundsAssumption == MaxSessions \in Nat \ {0} /\ MaxConns \in Nat \ {0}

VARIABLES
  gen,      \* lifecycleGeneration
  state,    \* the session whose state is current, 0 for null
  init,     \* the session whose initPromise is pending, 0 for null
  phase,    \* how far each session got
  mgr,      \* the manager and the health check of each session
  call,     \* the calls in progress
  lost      \* sessions whose state was replaced without being shut down

vars == <<gen, state, init, phase, mgr, call, lost>>

Sessions == 1..MaxSessions
Conns == 1..MaxConns
NoConn == 0
Phases == {"none", "starting", "init", "direct", "ready", "over"}

\* "connected" is what the manager believes: nothing listens to a server that
\* ends on its own, so that its end changes no state here.  "closing": it has
\* left the map, and its client is awaited.
\* heir: calls on a connection before it were in progress when it was stored.
New(s, status) == [server |-> s, status |-> status, inFlight |-> 0, heir |-> FALSE]
Gone == New(CHOOSE s \in Servers : TRUE, "gone")

\* The manager of a session and what initializeMcp does with it.
\* map: connections.  promise: connectPromises.  startup: the servers that
\* initializeMcp has yet to connect.  health: the interval runs.  rest: what a
\* check that awaits something has yet to look at.
Fresh ==
  [conn |-> [c \in Conns |-> Gone],
   map |-> [s \in Servers |-> NoConn], promise |-> [s \in Servers |-> NoConn],
   startup |-> {}, health |-> FALSE, rest |-> {}, shut |-> FALSE]

NoCall == [at |-> "idle"]

CallType ==
  [at : {"init", "initDirect", "begin", "connecting", "auth", "using", "reopen"},
   gen : Sessions, server : Servers, conn : Conns \cup {NoConn}] \cup {NoCall}

Init ==
  /\ gen = 0 /\ state = 0 /\ init = 0
  /\ phase = [g \in Sessions |-> "none"]
  /\ mgr = [g \in Sessions |-> Fresh]
  /\ call = [q \in Calls |-> NoCall]
  /\ lost = {}

-----------------------------------------------------------------------------
(***************************************************************************)
(* The server manager: operators from a manager to a manager.              *)
(***************************************************************************)
IsConnected(m, s) == m.map[s] # NoConn /\ m.conn[m.map[s]].status = "connected"
NeedsAuth(m, s) == m.map[s] # NoConn /\ m.conn[m.map[s]].status = "needs-auth"

InUse(g, c) == \E q \in Calls : call[q].at # "idle" /\ call[q].gen = g /\ call[q].conn = c

\* A connection of session g that is gone and that no call remembers.
Free(g) ==
  {c \in Conns : mgr[g].conn[c].status = "gone" /\ ~InUse(g, c)}

\* connect up to its await: an attempt in progress is shared, a connection that
\* is there is reused.
Connect(g, s) ==
  IF mgr[g].promise[s] # NoConn \/ IsConnected(mgr[g], s) THEN mgr[g]
  ELSE LET c == CHOOSE x \in Free(g) : TRUE IN
       [mgr[g] EXCEPT !.promise[s] = c, !.conn[c] = New(s, "opening")]

\* The bound on connections.
Room(g, s) == mgr[g].promise[s] # NoConn \/ IsConnected(mgr[g], s) \/ Free(g) # {}

Closed(x) == IF x.status = "connected" THEN New(x.server, "closing") ELSE Gone

\* close up to its await: the connection leaves the map before it is closed.
Close(m, s) ==
  IF m.map[s] = NoConn THEN m
  ELSE [m EXCEPT !.conn[m.map[s]] = Closed(@), !.map[s] = NoConn]

\* gracefulShutdown, and closeAll: what is being connected is not in the map.
Shutdown(m) ==
  [m EXCEPT !.health = FALSE, !.shut = TRUE,
            !.conn = [c \in Conns |-> IF \E s \in Servers : m.map[s] = c
                                      THEN Closed(m.conn[c]) ELSE m.conn[c]],
            !.map = [s \in Servers |-> NoConn]]

Becomes(g, m) == mgr' = [mgr EXCEPT ![g] = m]

\* Who is still calling through an earlier connection.
Using(g, s) == {q \in Calls : call[q].at = "using" /\ call[q].gen = g /\ call[q].server = s}

\* A connection is stored in the map.  The one it replaces asked for
\* authorisation: its transport is closed, and nobody finds it any more.
Stored(m, c, status) ==
  [m EXCEPT !.map[m.conn[c].server] = c,
            !.conn = [d \in Conns |->
              IF d = c THEN [m.conn[c] EXCEPT !.status = status]
              ELSE IF d = m.map[m.conn[c].server] THEN Gone
              ELSE m.conn[d]]]

\* The rest of connect and createConnection.
ConnectEnds(g, c) ==
  /\ mgr[g].conn[c].status = "opening"
  /\ LET s == mgr[g].conn[c].server
         m == [mgr[g] EXCEPT !.promise[s] = NoConn, !.conn[c].heir = (Using(g, s) # {})]
     IN \/ Becomes(g, Stored(m, c, "connected"))
        \/ Becomes(g, Stored(m, c, "needs-auth"))
        \/ Becomes(g, [m EXCEPT !.conn[c] = Gone])
  /\ UNCHANGED <<gen, state, init, phase, call, lost>>

\* Mutant: the map is cleared, by name, when the connection is closed.
CloseEndsByName(g, c) ==
  /\ mgr[g].conn[c].status = "closing"
  /\ Becomes(g, [mgr[g] EXCEPT !.conn[c] = Gone, !.map[mgr[g].conn[c].server] = NoConn])
  /\ UNCHANGED <<gen, state, init, phase, call, lost>>

\* The rest of close.
CloseEnds(g, c) ==
  /\ mgr[g].conn[c].status = "closing"
  /\ Becomes(g, [mgr[g] EXCEPT !.conn[c] = Gone])
  /\ UNCHANGED <<gen, state, init, phase, call, lost>>

-----------------------------------------------------------------------------
(***************************************************************************)
(* Sessions (index.ts, initializeMcp).                                     *)
(***************************************************************************)
\* shutdownState of the current state, if there is one.
LeaveSession(next) ==
  /\ gen < MaxSessions /\ gen' = gen + 1
  /\ state' = 0 /\ init' = 0
  /\ phase' = [phase EXCEPT ![gen + 1] = next]
  /\ mgr' = IF state = 0 THEN mgr ELSE [mgr EXCEPT ![state] = Shutdown(@)]
  /\ UNCHANGED <<call, lost>>

SessionStart == LeaveSession("starting")
SessionShutdown == LeaveSession("over")

\* The old state is shut down; unless another session began meanwhile the new
\* one is initialised (initializeOAuth does nothing).  Without a metadata cache
\* all servers are connected.
StartGoesOn(g) ==
  /\ phase[g] = "starting"
  /\ \/ /\ g # gen
        /\ phase' = [phase EXCEPT ![g] = "over"] /\ UNCHANGED <<init, mgr>>
     \/ /\ g = gen
        /\ phase' = [phase EXCEPT ![g] = "init"] /\ init' = g
        /\ \E startup \in {KeepAlive \cup Eager, Servers} :
             Becomes(g, [mgr[g] EXCEPT !.startup = startup])
  /\ UNCHANGED <<gen, state, call, lost>>

\* initializeMcp connects servers in two waves.
Initialising(g) == phase[g] \in {"init", "direct"}

\* Ten servers are connected at a time.
StartupConnects(g, s) ==
  /\ Initialising(g) /\ s \in mgr[g].startup /\ Room(g, s)
  /\ Becomes(g, [Connect(g, s) EXCEPT !.startup = @ \ {s}])
  /\ UNCHANGED <<gen, state, init, phase, call, lost>>

\* All of a wave are connected, or failed.
WaveIsOver(g) ==
  mgr[g].startup = {} /\ \A s \in Servers : mgr[g].promise[s] = NoConn

\* The second wave: what is not connected, and has direct tools of which the
\* metadata cache knows nothing.
DirectWaveBegins(g) ==
  /\ phase[g] = "init" /\ WaveIsOver(g)
  /\ phase' = [phase EXCEPT ![g] = "direct"]
  /\ \E missing \in SUBSET {s \in Servers : ~IsConnected(mgr[g], s)} :
       missing # {} /\ Becomes(g, [mgr[g] EXCEPT !.startup = missing])
  /\ UNCHANGED <<gen, state, init, call, lost>>

\* The calls that await the promise, and those among them that store what they
\* get as the current state: the proxy tool and the commands.
Awaiting(g) == {q \in Calls : call[q].at \in {"init", "initDirect"} /\ call[q].gen = g}
Storing(g) == {q \in Awaiting(g) : call[q].at = "init"}

\* Mutant: whoever is initialised becomes the state.
StaleNever(g) == FALSE

\* Another session has begun, or this one is over.
Stale(g) == g # gen \/ init # g

\* The promise is resolved: its first callback installs the state or shuts it
\* down, then those who await it go on.
InitEnds(g) ==
  /\ Initialising(g) /\ WaveIsOver(g)
  /\ phase' = [phase EXCEPT ![g] = "ready"]
  /\ LET m == [mgr[g] EXCEPT !.health = TRUE] IN
     Becomes(g, IF Stale(g) THEN Shutdown(m) ELSE m)
  /\ init' = IF Stale(g) THEN init ELSE 0
  /\ state' = IF Stale(g) /\ Storing(g) = {} THEN state ELSE g
  /\ lost' = IF Stale(g) /\ Storing(g) # {} /\ state # 0 THEN lost \cup {state} ELSE lost
  /\ call' = [q \in Calls |-> IF q \in Awaiting(g) THEN [call[q] EXCEPT !.at = "begin"]
                              ELSE call[q]]
  /\ UNCHANGED gen

\* The configuration cannot be read; or the metadata of a server of the first
\* wave cannot be saved, and the connections are left to a manager nobody knows.
InitFails(g) ==
  /\ phase[g] = "init"
  /\ \/ mgr[g] = [Fresh EXCEPT !.startup = mgr[g].startup]
     \/ WaveIsOver(g) /\ \E s \in Servers : IsConnected(mgr[g], s)
  /\ phase' = [phase EXCEPT ![g] = "over"]
  /\ init' = IF init = g THEN 0 ELSE init
  /\ call' = [q \in Calls |-> IF q \in Awaiting(g) THEN NoCall ELSE call[q]]
  /\ UNCHANGED <<gen, state, mgr, lost>>

-----------------------------------------------------------------------------
(***************************************************************************)
(* The health check (lifecycle.ts).  A check looks at one server after     *)
(* another and awaits what it does; the interval does not wait for it, and *)
(* a check that awaits outlives the interval.                              *)
(***************************************************************************)
Looks(g, s, m, awaits) ==
  /\ mgr[g].health \/ s \in mgr[g].rest
  /\ Becomes(g, [m EXCEPT !.rest = (@ \ {s}) \cup IF awaits THEN Servers \ {s} ELSE {}])
  /\ UNCHANGED <<gen, state, init, phase, call, lost>>

\* A keep-alive server that is not connected is connected again.
CheckKeepAlive(g, s) ==
  /\ s \in KeepAlive /\ ~IsConnected(mgr[g], s) /\ Room(g, s)
  /\ Looks(g, s, Connect(g, s), TRUE)

\* isIdle: no request in flight, and not used for a while.
CheckIdle(g, s) ==
  /\ s \notin KeepAlive \cup Eager
  /\ IsConnected(mgr[g], s) /\ mgr[g].conn[mgr[g].map[s]].inFlight = 0
  /\ Looks(g, s, Close(mgr[g], s), TRUE)

CheckNothing(g, s) ==
  /\ s \in mgr[g].rest /\ Looks(g, s, mgr[g], FALSE)

-----------------------------------------------------------------------------
(***************************************************************************)
(* Calls and commands (direct-tools.ts, proxy-modes.ts, commands.ts).      *)
(***************************************************************************)
At(q, place, g, s, c) ==
  call' = [call EXCEPT ![q] = [at |-> place, gen |-> g, server |-> s, conn |-> c]]

Rest == UNCHANGED <<gen, state, init, phase, lost>>

\* The connection that is there is used, and counted by the server's name.
Uses(q, g, s) ==
  /\ IsConnected(mgr[g], s)
  /\ Becomes(g, [mgr[g] EXCEPT !.conn[mgr[g].map[s]].inFlight = @ + 1])
  /\ At(q, "using", g, s, mgr[g].map[s])

Fails(q) == call' = [call EXCEPT ![q] = NoCall] /\ UNCHANGED mgr

\* lazyConnect; it fails at once for 60 s after a failure.
LazyConnect(q, g, s) ==
  \/ Uses(q, g, s)
  \/ /\ ~IsConnected(mgr[g], s)
     /\ \/ Fails(q)
        \/ NeedsAuth(mgr[g], s) /\ At(q, "auth", g, s, NoConn) /\ UNCHANGED mgr
        \/ /\ ~NeedsAuth(mgr[g], s) /\ Room(g, s)
           /\ Becomes(g, Connect(g, s))
           /\ At(q, "connecting", g, s, Connect(g, s).promise[s])

\* A call finds the state, or awaits its initialisation.
CallBegins(q, s) ==
  /\ call[q].at = "idle"
  /\ \/ state # 0 /\ LazyConnect(q, state, s)
     \/ /\ state = 0 /\ init # 0
        /\ \E place \in {"init", "initDirect"} : At(q, place, init, s, NoConn)
        /\ UNCHANGED mgr
  /\ Rest

CallGoesOn(q) ==
  /\ call[q].at = "begin" /\ LazyConnect(q, call[q].gen, call[q].server)
  /\ Rest

\* The connection the promise gave is closed in the same turn of the event loop,
\* before the proxy tool goes on: it does not look, and as the map has no other
\* yet the request is counted nowhere.
UsesClosing(q, g, s, c) ==
  /\ mgr[g].conn[c].status = "closing" /\ mgr[g].map[s] = NoConn
  /\ At(q, "using", g, s, c) /\ UNCHANGED mgr

\* The promise it awaits is settled.  A reconnect command ends here.
CallConnected(q) ==
  /\ call[q].at = "connecting"
  /\ mgr[call[q].gen].conn[call[q].conn].status # "opening"
  /\ \/ Uses(q, call[q].gen, call[q].server)
     \/ UsesClosing(q, call[q].gen, call[q].server, call[q].conn)
     \/ Fails(q)
  /\ Rest

\* The server asks for authorisation, and the call awaits it (auto-auth).
CallNeedsAuth(q) ==
  /\ call[q].at = "connecting"
  /\ mgr[call[q].gen].conn[call[q].conn].status = "needs-auth"
  /\ At(q, "auth", call[q].gen, call[q].server, NoConn) /\ UNCHANGED mgr
  /\ Rest

\* Close, await, connect: whatever connection there is by then is closed.
Reopens(q, g, s) ==
  /\ Becomes(g, Close(mgr[g], s)) /\ At(q, "reopen", g, s, NoConn)
  /\ Rest

CallAuthorised(q) == call[q].at = "auth" /\ Reopens(q, call[q].gen, call[q].server)

\* The reconnect command.
CallReopens(q, s) == call[q].at = "idle" /\ state # 0 /\ Reopens(q, state, s)

CallReconnects(q) ==
  /\ call[q].at = "reopen"
  /\ LET g == call[q].gen
         s == call[q].server
     IN /\ Room(g, s)
        /\ Becomes(g, Connect(g, s))
        /\ IF IsConnected(mgr[g], s) THEN call' = [call EXCEPT ![q] = NoCall]
           ELSE At(q, "connecting", g, s, Connect(g, s).promise[s])
  /\ Rest

\* A call that waits is cancelled (withAbort) or not authorised; what it awaits
\* goes on.
CallAborts(q) ==
  /\ call[q].at \in {"initDirect", "connecting", "auth", "reopen"} /\ Fails(q)
  /\ Rest

\* Mutant: a call that was cancelled is not counted off.
CallEndsUncounted(q) ==
  /\ call[q].at = "using" /\ call' = [call EXCEPT ![q] = NoCall]
  /\ UNCHANGED mgr
  /\ Rest

\* The request is answered, fails or is cancelled; it is counted off the
\* connection its server has now.
CallEnds(q) ==
  /\ call[q].at = "using" /\ call' = [call EXCEPT ![q] = NoCall]
  /\ LET g == call[q].gen
         c == mgr[g].map[call[q].server]
     IN IF c # NoConn /\ mgr[g].conn[c].inFlight > 0
        THEN Becomes(g, [mgr[g] EXCEPT !.conn[c].inFlight = @ - 1])
        ELSE UNCHANGED mgr
  /\ Rest

\* /mcp logout, and the end of an authorisation given by hand.
Logout(s) ==
  /\ state # 0 /\ mgr[state].map[s] # NoConn
  /\ Becomes(state, Close(mgr[state], s))
  /\ UNCHANGED call /\ Rest

-----------------------------------------------------------------------------
Health(g, s) == CheckKeepAlive(g, s) \/ CheckIdle(g, s) \/ CheckNothing(g, s)

Next ==
  \/ SessionStart \/ SessionShutdown
  \/ \E g \in Sessions :
       \/ StartGoesOn(g) \/ DirectWaveBegins(g) \/ InitEnds(g) \/ InitFails(g)
       \/ \E s \in Servers : StartupConnects(g, s) \/ Health(g, s)
       \/ \E c \in Conns : ConnectEnds(g, c) \/ CloseEnds(g, c)
  \/ \E q \in Calls :
       \/ CallGoesOn(q) \/ CallConnected(q) \/ CallNeedsAuth(q) \/ CallAuthorised(q)
       \/ CallReconnects(q) \/ CallAborts(q) \/ CallEnds(q)
       \/ \E s \in Servers : CallBegins(q, s) \/ CallReopens(q, s)
  \/ \E s \in Servers : Logout(s)

Spec == Init /\ [][Next]_vars

-----------------------------------------------------------------------------
(***************************************************************************)
(* Properties.                                                             *)
(***************************************************************************)
Live(x) == x.status \in {"opening", "connected"}

\* However calls, commands, checks and shutdowns overlap, a manager has at most
\* one connection to a server, and finds it by name: concurrent close and
\* connect leave no connection that nobody can close.
OneConnectionPerServer ==
  \A g \in Sessions : \A c \in Conns : LET x == mgr[g].conn[c] IN
    Live(x) =>
      /\ \A d \in Conns \ {c} :
           ~(Live(mgr[g].conn[d]) /\ mgr[g].conn[d].server = x.server)
      /\ x.status = "connected" => mgr[g].map[x.server] = c
      /\ x.status = "opening" => mgr[g].promise[x.server] = c

\* The state of a session that was initialised is the current one, or was shut
\* down, whichever sessions started and ended while it was initialised; unless
\* a call put an older state in its place.  An initialisation that failed leaves
\* no state, and nobody shuts down what it had connected.
SessionsAreShutDown ==
  \A g \in Sessions : phase[g] = "ready" => state = g \/ mgr[g].shut \/ g \in lost

\* The requests on a connection are those counted: only one with none of them
\* is idle.  A connection that replaced one still in use is miscounted.
RequestsAreCounted ==
  \A g \in Sessions : \A c \in Conns : LET x == mgr[g].conn[c] IN
    x.status = "connected" /\ ~x.heir =>
      x.inFlight = Cardinality({q \in Using(g, x.server) : call[q].conn = c})
=============================================================================
