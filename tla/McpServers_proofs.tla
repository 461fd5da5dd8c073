-------------------------- MODULE McpServers_proofs --------------------------
(***************************************************************************)
(* A manager finds its one connection to a server by name, it counts the   *)
(* requests on it, and a session that was initialised is current, shut     *)
(* down or lost: proved for any servers, calls, sessions and connections.  *)
(***************************************************************************)
EXTENDS McpServers, TLAPS, FiniteSetTheorems

(***************************************************************************)
(* The types the arguments need: how many requests are in flight is left   *)
(* open, and so is the server a connection had that is gone.               *)
(***************************************************************************)
ConnShape ==
  [server : Servers \cup {Gone.server},
   status : {"opening", "connected", "needs-auth", "closing", "gone"},
   inFlight : Int, heir : BOOLEAN]

Refs == [Servers -> Conns \cup {NoConn}]

MgrShape ==
  [conn : [Conns -> ConnShape], map : Refs, promise : Refs,
   startup : SUBSET Servers, health : BOOLEAN, rest : SUBSET Servers,
   shut : BOOLEAN]

\* The map leads to connections that are there, the promises to those that are
\* being made, and back; a server that is being connected is not connected.
MgrInv(m) ==
  /\ m \in MgrShape
  /\ \A s \in Servers : m.map[s] # NoConn =>
       /\ m.conn[m.map[s]].server = s
       /\ m.conn[m.map[s]].status \in {"connected", "needs-auth"}
  /\ \A s \in Servers : m.promise[s] # NoConn =>
       /\ m.conn[m.promise[s]].server = s
       /\ m.conn[m.promise[s]].status = "opening"
       /\ ~IsConnected(m, s)
  /\ \A c \in Conns :
       /\ m.conn[c].status = "connected" =>
            m.conn[c].server \in Servers /\ m.map[m.conn[c].server] = c
       /\ m.conn[c].status = "opening" =>
            m.conn[c].server \in Servers /\ m.promise[m.conn[c].server] = c

\* What an operation makes of a manager: a shutdown is not undone.
Grows(m, n) == MgrInv(n) /\ (m.shut => n.shut)

LEMMA ConnFacts ==
  /\ NoConn \notin Conns
  /\ Gone \in ConnShape /\ Gone.status = "gone"
  /\ \A s \in Servers, st \in {"opening", "connected", "needs-auth", "closing",
                               "gone"} :
       /\ New(s, st) \in ConnShape
       /\ New(s, st).server = s /\ New(s, st).status = st
BY DEF NoConn, Conns, Gone, New, ConnShape

LEMMA FreshManager == MgrInv(Fresh) /\ ~Fresh.shut
BY ConnFacts DEF Fresh, MgrInv, MgrShape, Refs

\* The fields no connection depends on.
LEMMA OtherFields ==
  ASSUME NEW m, MgrInv(m), NEW S \in SUBSET Servers, NEW b \in BOOLEAN
  PROVE  /\ Grows(m, m)
         /\ Grows(m, [m EXCEPT !.startup = S])
         /\ Grows(m, [m EXCEPT !.rest = S])
         /\ Grows(m, [m EXCEPT !.health = b])
<1>1. ASSUME NEW n \in MgrShape, n.conn = m.conn, n.map = m.map,
             n.promise = m.promise, n.shut = m.shut
      PROVE  Grows(m, n)
  BY <1>1 DEF MgrInv, Grows, IsConnected
<1>2. /\ m \in MgrShape
      /\ \A n \in {[m EXCEPT !.startup = S], [m EXCEPT !.rest = S],
                   [m EXCEPT !.health = b]} :
           /\ n \in MgrShape /\ n.conn = m.conn /\ n.map = m.map
           /\ n.promise = m.promise /\ n.shut = m.shut
  BY DEF MgrInv, MgrShape
<1> QED BY <1>1, <1>2

\* A count of requests changes.
LEMMA CountField ==
  ASSUME NEW m, MgrInv(m), NEW c \in Conns, NEW n \in Int
  PROVE  Grows(m, [m EXCEPT !.conn[c].inFlight = n])
<1> DEFINE x == [m.conn[c] EXCEPT !.inFlight = n]
           cc == [m.conn EXCEPT ![c] = x]
           p == [m EXCEPT !.conn = cc]
<1>1. m \in MgrShape /\ m.conn \in [Conns -> ConnShape] /\ m.conn[c] \in ConnShape
  BY DEF MgrInv, MgrShape
<1>2. x \in ConnShape /\ x.status = m.conn[c].status /\ x.server = m.conn[c].server
  BY <1>1 DEF ConnShape
<1> HIDE DEF x
<1>3. /\ cc \in [Conns -> ConnShape]
      /\ \A d \in Conns : /\ cc[d].status = m.conn[d].status
                          /\ cc[d].server = m.conn[d].server
  BY <1>1, <1>2
<1>4. [m EXCEPT !.conn[c].inFlight = n] = p
  BY <1>1 DEF MgrShape, ConnShape, x
<1> HIDE DEF cc
<1>5. /\ p \in MgrShape /\ p.conn = cc /\ p.map = m.map /\ p.promise = m.promise
      /\ p.shut = m.shut
  BY <1>1, <1>3 DEF MgrShape
<1> HIDE DEF p
<1>6. MgrInv(p)
  BY <1>3, <1>5 DEF MgrInv, IsConnected, MgrShape, Refs
<1> QED BY <1>4, <1>5, <1>6 DEF Grows

\* A new attempt is on a connection nothing led to.
LEMMA ConnectGrows ==
  ASSUME NEW g \in Sessions, MgrInv(mgr[g]), NEW s \in Servers, Room(g, s)
  PROVE  Grows(mgr[g], Connect(g, s))
<1> DEFINE m == mgr[g]
<1>1. CASE m.promise[s] # NoConn \/ IsConnected(m, s)
  BY <1>1, OtherFields DEF Connect
<1>2. CASE ~(m.promise[s] # NoConn \/ IsConnected(m, s))
  <2>1. Free(g) # {}
    BY <1>2 DEF Room
  <2> DEFINE c == CHOOSE x \in Free(g) : TRUE
             n == [m EXCEPT !.promise[s] = c, !.conn[c] = New(s, "opening")]
  <2>2. c \in Conns /\ m.conn[c].status = "gone"
    BY <2>1 DEF Free
  <2>3. Connect(g, s) = n
    BY <1>2 DEF Connect
  <2> HIDE DEF c
  <2> DEFINE x == New(s, "opening")
  <2>4. x \in ConnShape /\ x.server = s /\ x.status = "opening"
    BY ConnFacts
  <2> HIDE DEF x
  <2> DEFINE cc == [m.conn EXCEPT ![c] = x]
             pp == [m.promise EXCEPT ![s] = c]
  <2>21. m \in MgrShape /\ m.conn \in [Conns -> ConnShape] /\ m.promise \in Refs
    BY DEF MgrInv, MgrShape
  <2>22. /\ cc \in [Conns -> ConnShape]
        /\ \A d \in Conns : cc[d] = IF d = c THEN x ELSE m.conn[d]
    BY <2>2, <2>4, <2>21
  <2>23. /\ pp \in Refs
        /\ \A t \in Servers : pp[t] = IF t = s THEN c ELSE m.promise[t]
    BY <2>2, <2>21 DEF Refs
  <2>24. n = [m EXCEPT !.promise = pp, !.conn = cc]
    BY <2>21 DEF MgrShape, x
  <2> HIDE DEF cc, pp, n, m
  <2>25. /\ n \in MgrShape /\ n.map = m.map /\ n.shut = m.shut
        /\ n.conn = cc /\ n.promise = pp
    BY <2>21, <2>22, <2>23, <2>24 DEF MgrShape
  <2>5. /\ n \in MgrShape /\ n.map = m.map /\ n.shut = m.shut
        /\ \A d \in Conns : n.conn[d] = IF d = c THEN x ELSE m.conn[d]
        /\ \A t \in Servers : n.promise[t] = IF t = s THEN c ELSE m.promise[t]
    BY <2>22, <2>23, <2>25
  <2>6. MgrInv(m)
    BY DEF m
  <2>7. \A t \in Servers : m.map[t] # c /\ m.promise[t] # c
    BY <2>2, <2>6, ConnFacts DEF MgrInv
  <2>8. \A t \in Servers : IsConnected(n, t) <=> IsConnected(m, t)
    BY <2>5, <2>6, <2>7 DEF IsConnected, MgrInv, MgrShape, Refs
  <2>9. \A t \in Servers : n.map[t] # NoConn =>
          /\ n.conn[n.map[t]].server = t
          /\ n.conn[n.map[t]].status \in {"connected", "needs-auth"}
    BY <2>5, <2>6, <2>7 DEF MgrInv, MgrShape, Refs
  <2>10. \A t \in Servers : n.promise[t] # NoConn =>
          /\ n.conn[n.promise[t]].server = t
          /\ n.conn[n.promise[t]].status = "opening"
          /\ ~IsConnected(n, t)
    BY <1>2, <2>2, <2>4, <2>5, <2>6, <2>7, <2>8 DEF MgrInv, MgrShape, Refs, m
  <2>11. ASSUME NEW d \in Conns
         PROVE  /\ n.conn[d].status = "connected" =>
                     n.conn[d].server \in Servers /\ n.map[n.conn[d].server] = d
                /\ n.conn[d].status = "opening" =>
                     n.conn[d].server \in Servers /\ n.promise[n.conn[d].server] = d
    <3>1. CASE d = c
      BY <3>1, <2>2, <2>4, <2>5
    <3>2. CASE d # c
      <4>1. n.conn[d] = m.conn[d]
        BY <3>2, <2>5
      <4>2. m.promise[s] = NoConn /\ c # NoConn
        BY <1>2, <2>2, ConnFacts DEF m
      <4>3. /\ m.conn[d].status = "connected" =>
                 m.conn[d].server \in Servers /\ m.map[m.conn[d].server] = d
            /\ m.conn[d].status = "opening" =>
                 m.conn[d].server \in Servers /\ m.promise[m.conn[d].server] = d
        BY <2>6 DEF MgrInv
      <4> QED BY <4>1, <4>2, <4>3, <2>5, ConnFacts
    <3> QED BY <3>1, <3>2
  <2>12. MgrInv(n)
    BY <2>5, <2>9, <2>10, <2>11 DEF MgrInv
  <2> QED BY <2>3, <2>5, <2>12 DEF Grows, m
<1> QED BY <1>1, <1>2

\* Connections are closed, and the map leads to them no more.
LEMMA FewerGrows ==
  ASSUME NEW m, MgrInv(m), NEW n \in MgrShape, m.shut => n.shut,
         n.promise = m.promise,
         \A c \in Conns :
           \/ n.conn[c] = m.conn[c]
           \/ m.conn[c].status # "opening" /\ n.conn[c].status \in {"closing", "gone"},
         \A s \in Servers :
           \/ n.map[s] = m.map[s]
              /\ (m.map[s] # NoConn => n.conn[m.map[s]] = m.conn[m.map[s]])
           \/ n.map[s] = NoConn
              /\ (m.map[s] # NoConn => n.conn[m.map[s]].status \in {"closing", "gone"})
  PROVE  Grows(m, n)
<1>1. ASSUME NEW s \in Servers, n.map[s] # NoConn
      PROVE  n.map[s] = m.map[s] /\ n.conn[n.map[s]] = m.conn[m.map[s]]
  BY <1>1
<1>2. ASSUME NEW s \in Servers, n.promise[s] # NoConn
      PROVE  /\ n.conn[n.promise[s]] = m.conn[m.promise[s]]
             /\ ~IsConnected(n, s)
  <2>1. /\ m.promise[s] \in Conns /\ m.conn[m.promise[s]].status = "opening"
        /\ ~IsConnected(m, s)
    BY <1>2 DEF MgrInv, MgrShape, Refs
  <2> QED BY <1>1, <1>2, <2>1 DEF IsConnected
<1>3. ASSUME NEW c \in Conns
      PROVE  /\ n.conn[c].status = "connected" =>
                  n.conn[c].server \in Servers /\ n.map[n.conn[c].server] = c
             /\ n.conn[c].status = "opening" =>
                  n.conn[c].server \in Servers /\ n.promise[n.conn[c].server] = c
  <2>1. CASE n.conn[c] = m.conn[c]
    <3>1. /\ m.conn[c].status = "connected" =>
               m.conn[c].server \in Servers /\ m.map[m.conn[c].server] = c
          /\ m.conn[c].status = "opening" =>
               m.conn[c].server \in Servers /\ m.promise[m.conn[c].server] = c
      BY DEF MgrInv
    <3> QED BY <2>1, <3>1, ConnFacts
  <2>2. CASE n.conn[c].status \in {"closing", "gone"}
    BY <2>2
  <2> QED BY <2>1, <2>2
<1> QED BY <1>1, <1>2, <1>3 DEF MgrInv, Grows

LEMMA ClosedFacts ==
  ASSUME NEW x \in ConnShape, x.server \in Servers
  PROVE  Closed(x) \in ConnShape /\ Closed(x).status \in {"closing", "gone"}
BY ConnFacts DEF Closed

LEMMA CloseGrows ==
  ASSUME NEW m, MgrInv(m), NEW s \in Servers
  PROVE  Grows(m, Close(m, s))
<1>1. CASE m.map[s] = NoConn
  BY <1>1, OtherFields DEF Close
<1>2. CASE m.map[s] # NoConn
  <2> DEFINE c == m.map[s]
             x == Closed(m.conn[c])
             cc == [m.conn EXCEPT ![c] = x]
             mm == [m.map EXCEPT ![s] = NoConn]
             n == [m EXCEPT !.conn = cc, !.map = mm]
  <2>1. /\ m \in MgrShape /\ m.conn \in [Conns -> ConnShape] /\ m.map \in Refs
        /\ c \in Conns /\ m.conn[c] \in ConnShape /\ m.conn[c].server = s
        /\ m.conn[c].status # "opening"
    BY <1>2 DEF MgrInv, MgrShape, Refs
  <2>2. x \in ConnShape /\ x.status \in {"closing", "gone"}
    BY <2>1, ClosedFacts
  <2>3. Close(m, s) = n
    BY <1>2, <2>1 DEF Close, MgrShape
  <2> HIDE DEF x
  <2>4. /\ cc \in [Conns -> ConnShape]
        /\ \A d \in Conns : cc[d] = IF d = c THEN x ELSE m.conn[d]
    BY <2>1, <2>2
  <2>5. mm \in Refs /\ \A t \in Servers : mm[t] = IF t = s THEN NoConn ELSE m.map[t]
    BY <2>1 DEF Refs
  <2> HIDE DEF cc, mm
  <2>6. /\ n \in MgrShape /\ n.conn = cc /\ n.map = mm
        /\ n.promise = m.promise /\ n.shut = m.shut
    BY <2>1, <2>4, <2>5 DEF MgrShape
  <2> HIDE DEF n
  <2>7. \A t \in Servers : t # s /\ m.map[t] # NoConn =>
          m.map[t] \in Conns /\ m.map[t] # c
    BY <2>1 DEF MgrInv, Refs
  <2>8. /\ \A d \in Conns :
             \/ n.conn[d] = m.conn[d]
             \/ m.conn[d].status # "opening" /\ n.conn[d].status \in {"closing", "gone"}
        /\ \A t \in Servers :
             \/ n.map[t] = m.map[t]
                /\ (m.map[t] # NoConn => n.conn[m.map[t]] = m.conn[m.map[t]])
             \/ n.map[t] = NoConn
                /\ (m.map[t] # NoConn => n.conn[m.map[t]].status \in {"closing", "gone"})
    BY <2>1, <2>2, <2>4, <2>5, <2>6, <2>7
  <2> QED BY <2>3, <2>6, <2>8, FewerGrows
<1> QED BY <1>1, <1>2

LEMMA ShutdownGrows ==
  ASSUME NEW m, MgrInv(m)
  PROVE  Grows(m, Shutdown(m)) /\ Shutdown(m).shut
<1> DEFINE cc == [c \in Conns |-> IF \E s \in Servers : m.map[s] = c
                                 THEN Closed(m.conn[c]) ELSE m.conn[c]]
           mm == [s \in Servers |-> NoConn]
           n == [m EXCEPT !.health = FALSE, !.shut = TRUE, !.conn = cc, !.map = mm]
<1>1. /\ m \in MgrShape /\ m.conn \in [Conns -> ConnShape] /\ m.map \in Refs
  BY DEF MgrInv, MgrShape
<1>2. ASSUME NEW s \in Servers, m.map[s] # NoConn
      PROVE  /\ m.map[s] \in Conns /\ m.conn[m.map[s]].status # "opening"
             /\ m.conn[m.map[s]].server = s
  BY <1>2 DEF MgrInv, MgrShape, Refs
<1>3. ASSUME NEW c \in Conns
      PROVE  /\ cc[c] \in ConnShape
             /\ \/ cc[c] = m.conn[c] /\ \A s \in Servers : m.map[s] # c
                \/ m.conn[c].status # "opening" /\ cc[c].status \in {"closing", "gone"}
  <2>1. CASE \E s \in Servers : m.map[s] = c
    <3>1. PICK s \in Servers : m.map[s] = c
      BY <2>1
    <3>2. cc[c] = Closed(m.conn[c])
      BY <2>1
    <3>3. m.conn[c].server \in Servers /\ m.conn[c].status # "opening"
      BY <1>2, <3>1, ConnFacts
    <3> QED BY <1>1, <3>2, <3>3, ClosedFacts
  <2>2. CASE ~\E s \in Servers : m.map[s] = c
    BY <1>1, <2>2
  <2> QED BY <2>1, <2>2
<1>4. cc \in [Conns -> ConnShape]
  BY <1>3
<1>5. mm \in Refs /\ \A s \in Servers : mm[s] = NoConn
  BY DEF Refs
<1>6. Shutdown(m) = n
  BY DEF Shutdown
<1> HIDE DEF cc, mm
<1>7. /\ n \in MgrShape /\ n.conn = cc /\ n.map = mm
      /\ n.promise = m.promise /\ n.shut
  BY <1>1, <1>4, <1>5 DEF MgrShape
<1> HIDE DEF n
<1>8. /\ \A d \in Conns :
           \/ n.conn[d] = m.conn[d]
           \/ m.conn[d].status # "opening" /\ n.conn[d].status \in {"closing", "gone"}
      /\ \A t \in Servers :
           \/ n.map[t] = m.map[t]
              /\ (m.map[t] # NoConn => n.conn[m.map[t]] = m.conn[m.map[t]])
           \/ n.map[t] = NoConn
              /\ (m.map[t] # NoConn => n.conn[m.map[t]].status \in {"closing", "gone"})
  BY <1>2, <1>3, <1>5, <1>7
<1>9. Grows(m, n)
  BY <1>7, <1>8, FewerGrows
<1> QED BY <1>6, <1>7, <1>9

LEMMA CloseEndsGrows ==
  ASSUME NEW m, MgrInv(m), NEW c \in Conns, m.conn[c].status = "closing"
  PROVE  Grows(m, [m EXCEPT !.conn[c] = Gone])
<1> DEFINE cc == [m.conn EXCEPT ![c] = Gone]
           n == [m EXCEPT !.conn = cc]
<1>1. m \in MgrShape /\ m.conn \in [Conns -> ConnShape] /\ m.map \in Refs
  BY DEF MgrInv, MgrShape
<1>2. /\ cc \in [Conns -> ConnShape]
      /\ \A d \in Conns : cc[d] = IF d = c THEN Gone ELSE m.conn[d]
  BY <1>1, ConnFacts
<1>3. [m EXCEPT !.conn[c] = Gone] = n
  BY <1>1 DEF MgrShape
<1> HIDE DEF cc
<1>4. /\ n \in MgrShape /\ n.conn = cc /\ n.map = m.map
      /\ n.promise = m.promise /\ n.shut = m.shut
  BY <1>1, <1>2 DEF MgrShape
<1> HIDE DEF n
<1>5. \A t \in Servers : m.map[t] # NoConn => m.map[t] \in Conns /\ m.map[t] # c
  BY <1>1 DEF MgrInv, Refs
<1>6. /\ \A d \in Conns :
           \/ n.conn[d] = m.conn[d]
           \/ m.conn[d].status # "opening" /\ n.conn[d].status \in {"closing", "gone"}
      /\ \A t \in Servers : n.map[t] = m.map[t]
           /\ (m.map[t] # NoConn => n.conn[m.map[t]] = m.conn[m.map[t]])
  BY <1>2, <1>4, <1>5, ConnFacts
<1> QED BY <1>3, <1>4, <1>6, FewerGrows

-----------------------------------------------------------------------------
(***************************************************************************)
(* The end of a connect: the promise is settled, then the connection is    *)
(* stored or gone.                                                         *)
(***************************************************************************)
\* A manager m whose attempt c at server s is no longer promised.
Settled(m, n, c, s) ==
  /\ n \in MgrShape /\ n.map = m.map /\ n.shut = m.shut
  /\ \A d \in Conns : d # c => n.conn[d] = m.conn[d]
  /\ n.conn[c].server = s
  /\ \A t \in Servers : n.promise[t] = IF t = s THEN NoConn ELSE m.promise[t]

LEMMA PromiseSettles ==
  ASSUME NEW m, MgrInv(m), NEW c \in Conns, NEW s \in Servers,
         m.conn[c].server = s, NEW b \in BOOLEAN
  PROVE  Settled(m, [m EXCEPT !.promise[s] = NoConn, !.conn[c].heir = b], c, s)
<1> DEFINE x == [m.conn[c] EXCEPT !.heir = b]
           cc == [m.conn EXCEPT ![c] = x]
           pp == [m.promise EXCEPT ![s] = NoConn]
           n == [m EXCEPT !.promise = pp, !.conn = cc]
<1>1. /\ m \in MgrShape /\ m.conn \in [Conns -> ConnShape]
      /\ m.conn[c] \in ConnShape /\ m.promise \in Refs
  BY DEF MgrInv, MgrShape
<1>2. x \in ConnShape /\ x.server = s
  BY <1>1 DEF ConnShape
<1>3. [m EXCEPT !.promise[s] = NoConn, !.conn[c].heir = b] = n
  BY <1>1 DEF MgrShape, ConnShape
<1> HIDE DEF x
<1>4. /\ cc \in [Conns -> ConnShape] /\ cc[c].server = s
      /\ \A d \in Conns : d # c => cc[d] = m.conn[d]
  BY <1>1, <1>2
<1>5. pp \in Refs /\ \A t \in Servers : pp[t] = IF t = s THEN NoConn ELSE m.promise[t]
  BY <1>1 DEF Refs
<1> HIDE DEF cc, pp
<1>6. /\ n \in MgrShape /\ n.conn = cc /\ n.promise = pp
      /\ n.map = m.map /\ n.shut = m.shut
  BY <1>1, <1>4, <1>5 DEF MgrShape
<1> HIDE DEF n
<1> QED BY <1>3, <1>4, <1>5, <1>6 DEF Settled

\* What an attempt in progress says of its server.
LEMMA OpeningFacts ==
  ASSUME NEW m, MgrInv(m), NEW c \in Conns, m.conn[c].status = "opening"
  PROVE  LET s == m.conn[c].server IN
         /\ s \in Servers /\ m.promise[s] = c /\ ~IsConnected(m, s)
         /\ \A t \in Servers : m.map[t] # c
         /\ \A t \in Servers : t # s => m.promise[t] # c
<1>1. c # NoConn
  BY ConnFacts
<1>2. m.conn[c].server \in Servers /\ m.promise[m.conn[c].server] = c
  BY DEF MgrInv
<1>3. ~IsConnected(m, m.conn[c].server)
  BY <1>1, <1>2 DEF MgrInv
<1>4. \A t \in Servers : m.map[t] # c
  BY <1>1 DEF MgrInv
<1>5. \A t \in Servers : m.promise[t] = c => t = m.conn[c].server
  BY <1>1 DEF MgrInv
<1> QED BY <1>2, <1>3, <1>4, <1>5

LEMMA FailedGrows ==
  ASSUME NEW m, MgrInv(m), NEW c \in Conns, m.conn[c].status = "opening",
         NEW p, Settled(m, p, c, m.conn[c].server)
  PROVE  Grows(m, [p EXCEPT !.conn[c] = Gone])
<1> DEFINE cc == [p.conn EXCEPT ![c] = Gone]
           n == [p EXCEPT !.conn = cc]
<1>1. p \in MgrShape /\ p.conn \in [Conns -> ConnShape]
  BY DEF Settled, MgrShape
<1>2. /\ cc \in [Conns -> ConnShape] /\ cc[c] = Gone
      /\ \A d \in Conns : d # c => cc[d] = m.conn[d]
  BY <1>1, ConnFacts DEF Settled
<1>3. [p EXCEPT !.conn[c] = Gone] = n
  BY <1>1 DEF MgrShape
<1> HIDE DEF cc
<1>4. /\ n \in MgrShape /\ n.conn = cc /\ n.map = p.map
      /\ n.promise = p.promise /\ n.shut = p.shut
  BY <1>1, <1>2 DEF MgrShape
<1> HIDE DEF n
<1> DEFINE s == m.conn[c].server
<1>5. /\ s \in Servers /\ m.promise[s] = c /\ \A t \in Servers : m.map[t] # c
      /\ \A t \in Servers : t # s => m.promise[t] # c
  BY OpeningFacts
<1>6. /\ n.map = m.map /\ n.shut = m.shut /\ n.conn[c] = Gone
      /\ \A d \in Conns : d # c => n.conn[d] = m.conn[d]
      /\ \A t \in Servers : n.promise[t] = IF t = s THEN NoConn ELSE m.promise[t]
  BY <1>2, <1>4 DEF Settled
<1> HIDE DEF s
<1>7. ASSUME NEW t \in Servers
      PROVE  /\ m.map[t] # NoConn => m.map[t] \in Conns
             /\ m.promise[t] # NoConn => m.promise[t] \in Conns
  BY DEF MgrInv, MgrShape, Refs
<1>8. ASSUME NEW t \in Servers
      PROVE  /\ n.map[t] # NoConn => n.conn[n.map[t]].server = t
                  /\ n.conn[n.map[t]].status \in {"connected", "needs-auth"}
             /\ n.promise[t] # NoConn => n.conn[n.promise[t]].server = t
                  /\ n.conn[n.promise[t]].status = "opening" /\ ~IsConnected(n, t)
  <2>1. n.map[t] = m.map[t] /\ (m.map[t] # NoConn => n.conn[m.map[t]] = m.conn[m.map[t]])
    <3>1. m.map[t] # c /\ (m.map[t] # NoConn => m.map[t] \in Conns)
      BY <1>5, <1>7
    <3> QED BY <3>1, <1>6
  <2>2. m.map[t] # NoConn => /\ m.conn[m.map[t]].server = t
                             /\ m.conn[m.map[t]].status \in {"connected", "needs-auth"}
    BY DEF MgrInv
  <2>3. IsConnected(n, t) => IsConnected(m, t)
    BY <2>1 DEF IsConnected
  <2>4. CASE n.promise[t] = NoConn
    BY <2>1, <2>2, <2>4
  <2>5. CASE n.promise[t] # NoConn
    <3>1. m.promise[t] \in Conns /\ m.promise[t] # c /\ n.promise[t] = m.promise[t]
      BY <2>5, <1>5, <1>6, <1>7
    <3>2. n.conn[n.promise[t]] = m.conn[m.promise[t]]
      BY <3>1, <1>6
    <3>3. /\ m.conn[m.promise[t]].server = t /\ m.conn[m.promise[t]].status = "opening"
          /\ ~IsConnected(m, t)
      BY <3>1, ConnFacts DEF MgrInv
    <3> QED BY <2>1, <2>2, <2>3, <3>2, <3>3
  <2> QED BY <2>4, <2>5
<1>9. ASSUME NEW d \in Conns
      PROVE  /\ n.conn[d].status = "connected" =>
                  n.conn[d].server \in Servers /\ n.map[n.conn[d].server] = d
             /\ n.conn[d].status = "opening" =>
                  n.conn[d].server \in Servers /\ n.promise[n.conn[d].server] = d
  <2>1. CASE d = c
    BY <2>1, <1>6, ConnFacts
  <2>2. CASE d # c
    BY <2>2, <1>5, <1>6 DEF MgrInv
  <2> QED BY <2>1, <2>2
<1>10. MgrInv(n)
  BY <1>4, <1>8, <1>9 DEF MgrInv
<1> QED BY <1>3, <1>6, <1>10 DEF Grows

LEMMA StoredGrows ==
  ASSUME NEW m, MgrInv(m), NEW c \in Conns, m.conn[c].status = "opening",
         NEW p, Settled(m, p, c, m.conn[c].server),
         NEW status \in {"connected", "needs-auth"}
  PROVE  Grows(m, Stored(p, c, status))
<1> DEFINE s == m.conn[c].server
           x == [p.conn[c] EXCEPT !.status = status]
           old == p.map[s]
           cc == [d \in Conns |-> IF d = c THEN x
                                 ELSE IF d = old THEN Gone ELSE p.conn[d]]
           mm == [p.map EXCEPT ![s] = c]
           n == [p EXCEPT !.map = mm, !.conn = cc]
<1>1. /\ p \in MgrShape /\ p.conn \in [Conns -> ConnShape] /\ p.map \in Refs
      /\ p.conn[c] \in ConnShape /\ p.conn[c].server = s
  BY DEF Settled, MgrShape
<1>2. Stored(p, c, status) = n
  BY <1>1 DEF Stored, MgrShape
<1>3. x \in ConnShape /\ x.server = s /\ x.status = status
  BY <1>1 DEF ConnShape
<1>4. /\ s \in Servers /\ m.promise[s] = c /\ ~IsConnected(m, s)
      /\ \A t \in Servers : m.map[t] # c
      /\ \A t \in Servers : t # s => m.promise[t] # c
  BY OpeningFacts
<1>5. old = m.map[s]
  BY DEF Settled
<1> HIDE DEF x, old, s
<1>6. /\ cc \in [Conns -> ConnShape]
      /\ \A d \in Conns :
           cc[d] = IF d = c THEN x ELSE IF d = old THEN Gone ELSE m.conn[d]
  BY <1>1, <1>3, ConnFacts DEF Settled
<1>7. mm \in Refs /\ \A t \in Servers : mm[t] = IF t = s THEN c ELSE m.map[t]
  BY <1>1, <1>4 DEF Refs, Settled
<1> HIDE DEF cc, mm
<1>8. /\ n \in MgrShape /\ n.conn = cc /\ n.map = mm
      /\ n.promise = p.promise /\ n.shut = p.shut
  BY <1>1, <1>6, <1>7 DEF MgrShape
<1> HIDE DEF n
<1>9. /\ n.shut = m.shut
      /\ \A t \in Servers : n.promise[t] = IF t = s THEN NoConn ELSE m.promise[t]
  BY <1>8 DEF Settled, s
<1>10. ASSUME NEW t \in Servers
       PROVE  /\ m.map[t] # NoConn => m.map[t] \in Conns /\ m.conn[m.map[t]].server = t
                   /\ m.conn[m.map[t]].status \in {"connected", "needs-auth"}
              /\ m.promise[t] # NoConn => m.promise[t] \in Conns
                   /\ m.conn[m.promise[t]].server = t
                   /\ m.conn[m.promise[t]].status = "opening" /\ ~IsConnected(m, t)
  BY DEF MgrInv, MgrShape, Refs
<1>11. ASSUME NEW t \in Servers, t # s
       PROVE  /\ n.map[t] = m.map[t] /\ n.promise[t] = m.promise[t]
              /\ n.map[t] # NoConn => n.conn[n.map[t]] = m.conn[m.map[t]]
              /\ n.promise[t] # NoConn => n.conn[n.promise[t]] = m.conn[m.promise[t]]
  <2>1. n.map[t] = m.map[t] /\ n.promise[t] = m.promise[t]
    BY <1>7, <1>8, <1>9, <1>11
  <2>2. m.map[t] # NoConn => m.map[t] # c /\ m.map[t] # old
    BY <1>4, <1>5, <1>10, <1>11
  <2>3. m.promise[t] # NoConn => m.promise[t] # c /\ m.promise[t] # old
    BY <1>4, <1>5, <1>10, <1>11
  <2> QED BY <1>6, <1>8, <1>10, <2>1, <2>2, <2>3
<1>12. /\ n.map[s] = c /\ n.promise[s] = NoConn /\ n.conn[c] = x
  BY <1>4, <1>6, <1>7, <1>8, <1>9
<1>13. ASSUME NEW t \in Servers
       PROVE  /\ n.map[t] # NoConn => n.conn[n.map[t]].server = t
                   /\ n.conn[n.map[t]].status \in {"connected", "needs-auth"}
              /\ n.promise[t] # NoConn => n.conn[n.promise[t]].server = t
                   /\ n.conn[n.promise[t]].status = "opening" /\ ~IsConnected(n, t)
  <2>1. CASE t = s
    BY <2>1, <1>3, <1>12
  <2>2. CASE t # s
    BY <2>2, <1>10, <1>11 DEF IsConnected
  <2> QED BY <2>1, <2>2
<1>14. ASSUME NEW d \in Conns
       PROVE  /\ n.conn[d].status = "connected" =>
                   n.conn[d].server \in Servers /\ n.map[n.conn[d].server] = d
              /\ n.conn[d].status = "opening" =>
                   n.conn[d].server \in Servers /\ n.promise[n.conn[d].server] = d
  <2>1. CASE d = c
    BY <2>1, <1>3, <1>4, <1>12
  <2>2. CASE d # c /\ d = old
    BY <2>2, <1>6, <1>8, ConnFacts
  <2>3. CASE d # c /\ d # old
    <3>1. n.conn[d] = m.conn[d]
      BY <2>3, <1>6, <1>8
    <3>2. /\ m.conn[d].status = "connected" =>
               m.conn[d].server \in Servers /\ m.map[m.conn[d].server] = d
          /\ m.conn[d].status = "opening" =>
               m.conn[d].server \in Servers /\ m.promise[m.conn[d].server] = d
      BY DEF MgrInv
    <3>3. m.conn[d].status \in {"connected", "opening"} => m.conn[d].server # s
      BY <2>3, <3>2, <1>4, <1>5
    <3> QED BY <3>1, <3>2, <3>3, <1>11
  <2> QED BY <2>1, <2>2, <2>3
<1>15. MgrInv(n)
  BY <1>8, <1>13, <1>14 DEF MgrInv
<1> QED BY <1>2, <1>9, <1>15 DEF Grows

-----------------------------------------------------------------------------
(***************************************************************************)
(* Sessions.  While a session starts or is initialised there is no state,  *)
(* or one that was shut down.                                              *)
(***************************************************************************)
Replaceable == state # 0 => mgr[state].shut

SessionInv ==
  /\ gen \in 0..MaxSessions /\ state \in 0..MaxSessions /\ init \in 0..MaxSessions
  /\ phase \in [Sessions -> Phases]
  /\ call \in [Calls -> CallType]
  /\ mgr \in [Sessions -> MgrShape]
  /\ \A g \in Sessions : MgrInv(mgr[g])
  /\ init # 0 => Replaceable
  /\ gen # 0 /\ phase[gen] = "starting" => Replaceable
  /\ SessionsAreShutDown

LEMMA SessionFacts ==
  /\ 0 \notin Sessions
  /\ \A n \in 0..MaxSessions : n # 0 => n \in Sessions
  /\ \A g \in Sessions : g \in 0..MaxSessions
BY BoundsAssumption DEF Sessions

LEMMA InitSessions == Init => SessionInv
BY FreshManager, SessionFacts, BoundsAssumption
   DEF Init, SessionInv, SessionsAreShutDown, Replaceable, Phases, CallType, NoCall, MgrInv

\* The manager of one session grows, whoever calls it.
LEMMA ManagerStep ==
  ASSUME SessionInv, NEW g \in Sessions, NEW m, Grows(mgr[g], m), Becomes(g, m),
         UNCHANGED <<gen, state, init, phase, lost>>, call' \in [Calls -> CallType]
  PROVE  SessionInv'
<1>1. /\ mgr' \in [Sessions -> MgrShape]
      /\ \A h \in Sessions : mgr'[h] = IF h = g THEN m ELSE mgr[h]
  BY DEF SessionInv, Becomes, Grows, MgrInv
<1>2. \A h \in Sessions : MgrInv(mgr'[h]) /\ (mgr[h].shut => mgr'[h].shut)
  BY <1>1 DEF SessionInv, Grows
<1>3. Replaceable => Replaceable'
  BY <1>2, SessionFacts DEF Replaceable, SessionInv
<1>4. SessionsAreShutDown'
  BY <1>2 DEF SessionsAreShutDown, SessionInv
<1>5. \A h \in Sessions : MgrInv(mgr[h])'
  BY <1>2 DEF MgrInv, IsConnected
<1> QED BY <1>1, <1>3, <1>4, <1>5 DEF SessionInv

\* A call moves, and no manager.
LEMMA CallStep ==
  ASSUME SessionInv, UNCHANGED <<gen, state, init, phase, mgr, lost>>,
         call' \in [Calls -> CallType]
  PROVE  SessionInv'
BY DEF SessionInv, SessionsAreShutDown, Replaceable, MgrInv, IsConnected

LEMMA GrowsOn ==
  ASSUME NEW m, NEW n, NEW o, Grows(m, n), Grows(n, o)
  PROVE  Grows(m, o)
BY DEF Grows

LEMMA NextKeepsSessions == SessionInv /\ [Next]_vars => SessionInv'
<1> SUFFICES ASSUME SessionInv, [Next]_vars PROVE SessionInv'
  OBVIOUS
<1> DEFINE Same == UNCHANGED <<gen, state, init, phase, call, lost>>
<1>1. \A g \in Sessions : MgrInv(mgr[g]) /\ mgr[g] \in MgrShape
  BY DEF SessionInv
<1>2. call \in [Calls -> CallType]
  BY DEF SessionInv
<1>3. ASSUME NEW next \in {"starting", "over"}, LeaveSession(next)
      PROVE  SessionInv'
  <2>1. /\ gen + 1 \in Sessions /\ gen' = gen + 1 /\ state' = 0 /\ init' = 0
        /\ phase' = [phase EXCEPT ![gen + 1] = next] /\ call' = call /\ lost' = lost
    BY <1>3, BoundsAssumption DEF LeaveSession, SessionInv, Sessions
  <2>2. /\ mgr' \in [Sessions -> MgrShape]
        /\ \A h \in Sessions : Grows(mgr[h], mgr'[h])
        /\ \A h \in Sessions : h = state => mgr'[h].shut
    <3>1. CASE state = 0
      BY <1>1, <1>3, <3>1, SessionFacts, OtherFields DEF LeaveSession, SessionInv
    <3>2. CASE state # 0
      <4>1. state \in Sessions
        BY <3>2, SessionFacts DEF SessionInv
      <4>2. mgr' = [mgr EXCEPT ![state] = Shutdown(mgr[state])]
        BY <1>3, <3>2 DEF LeaveSession
      <4>3. /\ Grows(mgr[state], Shutdown(mgr[state])) /\ Shutdown(mgr[state]).shut
            /\ Shutdown(mgr[state]) \in MgrShape
        BY <1>1, <4>1, ShutdownGrows DEF Grows, MgrInv
      <4>4. \A h \in Sessions : Grows(mgr[h], mgr[h])
        BY <1>1, OtherFields
      <4>5. mgr \in [Sessions -> MgrShape]
        BY DEF SessionInv
      <4>6. \A h \in Sessions :
              mgr'[h] = IF h = state THEN Shutdown(mgr[state]) ELSE mgr[h]
        BY <4>2, <4>5
      <4>7. mgr' \in [Sessions -> MgrShape]
        BY <4>1, <4>2, <4>3, <4>5
      <4> QED BY <4>3, <4>4, <4>6, <4>7
    <3> QED BY <3>1, <3>2
  <2>3. \A h \in Sessions : MgrInv(mgr[h])'
    <3>1. ASSUME NEW h \in Sessions PROVE MgrInv(mgr'[h])
      <4>1. Grows(mgr[h], mgr'[h])
        BY <2>2
      <4> QED BY <4>1 DEF Grows
    <3> QED BY <3>1 DEF MgrInv, IsConnected
  <2>4. /\ phase' \in [Sessions -> Phases]
        /\ \A h \in Sessions : phase'[h] = "ready" => phase[h] = "ready"
    BY <2>1 DEF SessionInv, Phases
  <2>5. SessionsAreShutDown'
    <3> SUFFICES ASSUME NEW h \in Sessions, phase'[h] = "ready"
                 PROVE  mgr'[h].shut \/ h \in lost'
      BY DEF SessionsAreShutDown
    <3>1. state = h \/ mgr[h].shut \/ h \in lost
      BY <2>4 DEF SessionInv, SessionsAreShutDown
    <3>2. (mgr[h].shut => mgr'[h].shut) /\ (h = state => mgr'[h].shut)
      <4>1. Grows(mgr[h], mgr'[h]) /\ (h = state => mgr'[h].shut)
        BY <2>2
      <4> QED BY <4>1 DEF Grows
    <3> QED BY <2>1, <3>1, <3>2
  <2>6. gen' \in 0..MaxSessions /\ 0 \in 0..MaxSessions
    BY <2>1, SessionFacts, BoundsAssumption
  <2>7. Replaceable'
    BY <2>1 DEF Replaceable
  <2> QED BY <1>2, <2>1, <2>2, <2>3, <2>4, <2>5, <2>6, <2>7 DEF SessionInv
<1>4. ASSUME NEW g \in Sessions, StartGoesOn(g)
      PROVE  SessionInv'
  <2>1. /\ phase[g] = "starting" /\ UNCHANGED <<gen, state, call, lost>>
        /\ init' = init \/ (init' = g /\ g = gen)
        /\ phase' \in [Sessions -> Phases]
        /\ \A h \in Sessions : phase'[h] \in {"starting", "ready"} => phase'[h] = phase[h]
    <3>1. phase \in [Sessions -> Phases]
      BY DEF SessionInv
    <3>2. \E p \in {"over", "init"} : phase' = [phase EXCEPT ![g] = p]
      BY <1>4 DEF StartGoesOn
    <3>3. /\ phase' \in [Sessions -> Phases]
          /\ \A h \in Sessions :
               phase'[h] \in {"starting", "ready"} => phase'[h] = phase[h]
      BY <3>1, <3>2 DEF Phases
    <3> QED BY <1>4, <3>3 DEF StartGoesOn
  <2>2. /\ mgr' \in [Sessions -> MgrShape]
        /\ \A h \in Sessions : Grows(mgr[h], mgr'[h])
    <3>1. CASE mgr' = mgr
      BY <1>1, <3>1, OtherFields DEF SessionInv
    <3>2. CASE \E startup \in {KeepAlive \cup Eager, Servers} :
                 Becomes(g, [mgr[g] EXCEPT !.startup = startup])
      <4>1. PICK startup \in SUBSET Servers :
              Becomes(g, [mgr[g] EXCEPT !.startup = startup])
        BY <3>2, ModesAssumption
      <4>2. Grows(mgr[g], [mgr[g] EXCEPT !.startup = startup])
        BY <1>1, OtherFields
      <4>3. \A h \in Sessions : Grows(mgr[h], mgr[h])
        BY <1>1, OtherFields
      <4> DEFINE m == [mgr[g] EXCEPT !.startup = startup]
      <4>4. m \in MgrShape
        BY <4>2 DEF Grows, MgrInv
      <4> HIDE DEF m
      <4>5. mgr' = [mgr EXCEPT ![g] = m] /\ mgr \in [Sessions -> MgrShape]
        BY <4>1 DEF Becomes, SessionInv, m
      <4>6. Grows(mgr[g], m)
        BY <4>2 DEF m
      <4> QED BY <4>3, <4>4, <4>5, <4>6
    <3> QED BY <1>4, <3>1, <3>2 DEF StartGoesOn
  <2>3. \A h \in Sessions : MgrInv(mgr[h])'
    <3>1. ASSUME NEW h \in Sessions PROVE MgrInv(mgr'[h])
      <4>1. Grows(mgr[h], mgr'[h])
        BY <2>2
      <4> QED BY <4>1 DEF Grows
    <3> QED BY <3>1 DEF MgrInv, IsConnected
  <2>4. Replaceable => Replaceable'
    BY <2>1, <2>2, SessionFacts DEF Replaceable, SessionInv, Grows
  <2>5. SessionsAreShutDown'
    BY <2>1, <2>2 DEF SessionsAreShutDown, SessionInv, Grows
  <2>6. init' \in 0..MaxSessions
    BY <2>1, SessionFacts DEF SessionInv
  <2>7. init' # 0 => Replaceable'
    BY <2>1, <2>4, SessionFacts DEF SessionInv
  <2>8. gen' # 0 /\ phase'[gen'] = "starting" => Replaceable'
    BY <2>1, <2>4, SessionFacts DEF SessionInv
  <2> QED BY <1>2, <2>1, <2>2, <2>3, <2>5, <2>6, <2>7, <2>8 DEF SessionInv
<1>5. ASSUME NEW g \in Sessions, InitEnds(g)
      PROVE  SessionInv'
  <2> DEFINE m == IF Stale(g) THEN Shutdown([mgr[g] EXCEPT !.health = TRUE])
                  ELSE [mgr[g] EXCEPT !.health = TRUE]
  <2>1. Grows(mgr[g], m) /\ (Stale(g) => m.shut)
    BY <1>1, OtherFields, ShutdownGrows, GrowsOn DEF Grows
  <2>2. /\ Becomes(g, m) /\ gen' = gen
        /\ phase' = [phase EXCEPT ![g] = "ready"]
        /\ init' = IF Stale(g) THEN init ELSE 0
        /\ state' = IF Stale(g) /\ Storing(g) = {} THEN state ELSE g
        /\ lost' = IF Stale(g) /\ Storing(g) # {} /\ state # 0
                   THEN lost \cup {state} ELSE lost
    BY <1>5 DEF InitEnds
  <2>3. call' \in [Calls -> CallType]
    <3>1. call' = [q \in Calls |-> IF q \in Awaiting(g) THEN [call[q] EXCEPT !.at = "begin"]
                                   ELSE call[q]]
      BY <1>5 DEF InitEnds
    <3>2. ASSUME NEW q \in Awaiting(g)
          PROVE  [call[q] EXCEPT !.at = "begin"] \in CallType
      BY <1>2, <3>2 DEF Awaiting, CallType, NoCall
    <3> QED BY <1>2, <3>1, <3>2
  <2> HIDE DEF m
  <2>4. /\ mgr' \in [Sessions -> MgrShape]
        /\ \A h \in Sessions : mgr'[h] = IF h = g THEN m ELSE mgr[h]
    BY <2>1, <2>2 DEF SessionInv, Becomes, Grows, MgrInv
  <2>5. /\ \A h \in Sessions : MgrInv(mgr'[h]) /\ (mgr[h].shut => mgr'[h].shut)
        /\ Stale(g) => mgr'[g].shut
    BY <1>1, <2>1, <2>4 DEF Grows
  <2>6. \A h \in Sessions : MgrInv(mgr[h])'
    BY <2>5 DEF MgrInv, IsConnected
  <2>7. /\ phase' \in [Sessions -> Phases]
        /\ \A h \in Sessions : phase'[h] = IF h = g THEN "ready" ELSE phase[h]
    BY <2>2 DEF SessionInv, Phases
  <2>8. Stale(g) /\ Replaceable => Replaceable'
    BY <2>2, <2>5, SessionFacts DEF Replaceable, SessionInv
  <2>9. /\ init' \in 0..MaxSessions /\ state' \in 0..MaxSessions
        /\ ~Stale(g) => g = gen /\ init = g
    <3>1. /\ init \in 0..MaxSessions /\ state \in 0..MaxSessions
          /\ g \in 0..MaxSessions /\ 0 \in 0..MaxSessions
      BY SessionFacts, BoundsAssumption DEF SessionInv
    <3>2. ~Stale(g) => g = gen /\ init = g
      BY DEF Stale
    <3> QED BY <2>2, <3>1, <3>2
  <2>10. init' # 0 => Replaceable'
    BY <2>2, <2>8 DEF SessionInv
  <2>11. gen' # 0 /\ phase'[gen'] = "starting" => Replaceable'
    <3>1. CASE Stale(g)
      BY <2>2, <2>7, <2>8, <3>1, SessionFacts DEF SessionInv
    <3>2. CASE ~Stale(g)
      BY <2>2, <2>7, <2>9, <3>2
    <3> QED BY <3>1, <3>2
  <2>12. SessionsAreShutDown'
    <3> SUFFICES ASSUME NEW h \in Sessions, phase'[h] = "ready"
                 PROVE  state' = h \/ mgr'[h].shut \/ h \in lost'
      BY DEF SessionsAreShutDown
    <3>1. CASE h = g
      BY <3>1, <2>2, <2>5
    <3>2. CASE h # g
      <4>1. state = h \/ mgr[h].shut \/ h \in lost
        BY <3>2, <2>7 DEF SessionInv, SessionsAreShutDown
      <4>2. CASE state = h /\ Stale(g)
        BY <4>2, <2>2, SessionFacts
      <4>3. CASE state = h /\ ~Stale(g)
        BY <4>3, <2>5, <2>9, SessionFacts DEF SessionInv, Replaceable
      <4>4. CASE mgr[h].shut \/ h \in lost
        BY <4>4, <2>2, <2>5
      <4> QED BY <4>1, <4>2, <4>3, <4>4
    <3> QED BY <3>1, <3>2
  <2> QED BY <2>2, <2>3, <2>4, <2>6, <2>7, <2>9, <2>10, <2>11, <2>12 DEF SessionInv
<1>6. ASSUME NEW g \in Sessions, InitFails(g)
      PROVE  SessionInv'
  <2>1. /\ phase[g] = "init" /\ UNCHANGED <<gen, state, mgr, lost>>
        /\ phase' = [phase EXCEPT ![g] = "over"]
        /\ init' \in {init, 0}
        /\ call' = [q \in Calls |-> IF q \in Awaiting(g) THEN NoCall ELSE call[q]]
    BY <1>6 DEF InitFails
  <2>2. call' \in [Calls -> CallType]
    BY <1>2, <2>1 DEF CallType
  <2>3. /\ phase' \in [Sessions -> Phases]
        /\ \A h \in Sessions : phase'[h] \in {"starting", "ready"} => phase'[h] = phase[h]
    BY <2>1 DEF SessionInv, Phases
  <2>4. SessionsAreShutDown' /\ (Replaceable => Replaceable')
    BY <2>1, <2>3 DEF SessionsAreShutDown, SessionInv, Replaceable
  <2>5. \A h \in Sessions : MgrInv(mgr[h])'
    BY <1>1, <2>1 DEF MgrInv, IsConnected
  <2>6. init' \in 0..MaxSessions
    BY <2>1, BoundsAssumption DEF SessionInv
  <2>7. gen' # 0 /\ phase'[gen'] = "starting" => Replaceable'
    BY <2>1, <2>3, <2>4, SessionFacts DEF SessionInv
  <2>8. init' # 0 => Replaceable'
    BY <2>1, <2>4 DEF SessionInv
  <2> QED BY <2>1, <2>2, <2>3, <2>4, <2>5, <2>6, <2>7, <2>8 DEF SessionInv
<1> DEFINE Kept == UNCHANGED <<gen, state, init, phase, lost>>
<1>7. ASSUME NEW g \in Sessions, NEW m, Grows(mgr[g], m), Becomes(g, m), Same
      PROVE  SessionInv'
  BY <1>2, <1>7, ManagerStep
<1>8. ASSUME NEW g \in Sessions, NEW s \in Servers, StartupConnects(g, s)
      PROVE  SessionInv'
  <2> DEFINE m == Connect(g, s)
             n == [m EXCEPT !.startup = m.startup \ {s}]
  <2>1. Grows(mgr[g], m)
    BY <1>1, <1>8, ConnectGrows DEF StartupConnects
  <2>2. MgrInv(m) /\ m.startup \ {s} \in SUBSET Servers
    BY <2>1 DEF Grows, MgrInv, MgrShape
  <2>3. Becomes(g, n) /\ Same
    BY <1>8 DEF StartupConnects
  <2> HIDE DEF m
  <2>4. Grows(m, n)
    BY <2>2, OtherFields
  <2> HIDE DEF n
  <2> QED BY <1>7, <2>1, <2>3, <2>4, GrowsOn
<1>9. ASSUME NEW g \in Sessions, NEW c \in Conns, ConnectEnds(g, c)
      PROVE  SessionInv'
  <2> DEFINE s == mgr[g].conn[c].server
             b == Using(g, s) # {}
             m == [mgr[g] EXCEPT !.promise[s] = NoConn, !.conn[c].heir = b]
  <2>1. mgr[g].conn[c].status = "opening" /\ Same
    BY <1>9 DEF ConnectEnds
  <2>2. s \in Servers /\ MgrInv(mgr[g])
    BY <1>1, <2>1, OpeningFacts
  <2>3. b \in BOOLEAN
    OBVIOUS
  <2>4. \/ Becomes(g, Stored(m, c, "connected")) \/ Becomes(g, Stored(m, c, "needs-auth"))
        \/ Becomes(g, [m EXCEPT !.conn[c] = Gone])
    BY <1>9 DEF ConnectEnds
  <2> HIDE DEF b
  <2>5. Settled(mgr[g], m, c, s)
    BY <2>2, <2>3, PromiseSettles
  <2> HIDE DEF m
  <2>6. /\ \A status \in {"connected", "needs-auth"} : Grows(mgr[g], Stored(m, c, status))
        /\ Grows(mgr[g], [m EXCEPT !.conn[c] = Gone])
    BY <2>1, <2>2, <2>5, StoredGrows, FailedGrows
  <2> QED BY <1>7, <2>1, <2>4, <2>6
<1>10. ASSUME NEW g \in Sessions, NEW c \in Conns, CloseEnds(g, c)
       PROVE  SessionInv'
  BY <1>1, <1>7, <1>10, CloseEndsGrows DEF CloseEnds
<1>11. ASSUME NEW g \in Sessions, NEW s \in Servers, NEW m, Grows(mgr[g], m),
              NEW awaits \in BOOLEAN, Looks(g, s, m, awaits)
       PROVE  SessionInv'
  <2> DEFINE r == (m.rest \ {s}) \cup IF awaits THEN Servers \ {s} ELSE {}
             n == [m EXCEPT !.rest = r]
  <2>1. MgrInv(m) /\ r \in SUBSET Servers
    BY <1>11 DEF Grows, MgrInv, MgrShape
  <2>2. Becomes(g, n) /\ Same
    BY <1>11 DEF Looks
  <2> HIDE DEF r
  <2>3. Grows(m, n)
    BY <2>1, OtherFields
  <2> HIDE DEF n
  <2> QED BY <1>7, <1>11, <2>2, <2>3, GrowsOn
<1>12. ASSUME NEW g \in Sessions, NEW s \in Servers, Health(g, s)
       PROVE  SessionInv'
  <2>1. CASE CheckKeepAlive(g, s)
    BY <1>1, <1>11, <2>1, ConnectGrows DEF CheckKeepAlive
  <2>2. CASE CheckIdle(g, s)
    BY <1>1, <1>11, <2>2, CloseGrows DEF CheckIdle
  <2>3. CASE CheckNothing(g, s)
    BY <1>1, <1>11, <2>3, OtherFields DEF CheckNothing
  <2> QED BY <1>12, <2>1, <2>2, <2>3 DEF Health
<1>13. ASSUME NEW q \in Calls, NEW g \in Sessions, NEW s \in Servers,
              NEW c \in Conns \cup {NoConn},
              NEW place \in {"init", "initDirect", "begin", "connecting", "auth", "using",
                             "reopen"}, At(q, place, g, s, c)
       PROVE  call' \in [Calls -> CallType]
  <2> DEFINE x == [at |-> place, gen |-> g, server |-> s, conn |-> c]
  <2>1. x \in CallType
    BY DEF CallType
  <2>2. call' = [call EXCEPT ![q] = x]
    BY <1>13 DEF At
  <2> HIDE DEF x
  <2> QED BY <1>2, <2>1, <2>2
<1>14. ASSUME NEW q \in Calls, call' = [call EXCEPT ![q] = NoCall]
       PROVE  call' \in [Calls -> CallType]
  BY <1>2, <1>14 DEF CallType
<1>15. ASSUME NEW q \in Calls, Fails(q), Kept
       PROVE  SessionInv'
  BY <1>14, <1>15, CallStep DEF Fails
<1>16. ASSUME NEW q \in Calls, NEW g \in Sessions, NEW s \in Servers, Uses(q, g, s), Kept
       PROVE  SessionInv'
  <2> DEFINE c == mgr[g].map[s]
             n == mgr[g].conn[c].inFlight + 1
             m == [mgr[g] EXCEPT !.conn[c].inFlight = n]
  <2>1. c \in Conns /\ n \in Int
    BY <1>1, <1>16 DEF Uses, IsConnected, MgrShape, Refs, ConnShape
  <2>2. Becomes(g, m) /\ At(q, "using", g, s, c)
    BY <1>16 DEF Uses
  <2>3. call' \in [Calls -> CallType]
    BY <1>13, <2>1, <2>2
  <2> HIDE DEF c, n
  <2>4. Grows(mgr[g], m)
    BY <1>1, <2>1, CountField
  <2> HIDE DEF m
  <2> QED BY <1>16, <2>2, <2>3, <2>4, ManagerStep
<1>17. ASSUME NEW q \in Calls, NEW g \in Sessions, NEW s \in Servers, Room(g, s)
       PROVE  /\ Grows(mgr[g], Connect(g, s))
              /\ Connect(g, s).promise[s] \in Conns \cup {NoConn}
  BY <1>1, <1>17, ConnectGrows DEF Grows, MgrInv, MgrShape, Refs
<1>18. ASSUME NEW q \in Calls, NEW g \in Sessions, NEW s \in Servers,
              LazyConnect(q, g, s), Kept
       PROVE  SessionInv'
  <2>1. CASE Uses(q, g, s)
    BY <1>16, <1>18, <2>1
  <2>2. CASE Fails(q)
    BY <1>15, <1>18, <2>2
  <2>3. CASE At(q, "auth", g, s, NoConn) /\ UNCHANGED mgr
    BY <1>13, <1>18, <2>3, CallStep
  <2>4. CASE /\ Room(g, s) /\ Becomes(g, Connect(g, s))
             /\ At(q, "connecting", g, s, Connect(g, s).promise[s])
    <3>1. call' \in [Calls -> CallType]
      BY <1>13, <1>17, <2>4
    <3> QED BY <1>17, <1>18, <2>4, <3>1, ManagerStep
  <2> QED BY <1>18, <2>1, <2>2, <2>3, <2>4 DEF LazyConnect
<1>19. ASSUME NEW q \in Calls, call[q].at # "idle"
       PROVE  call[q].gen \in Sessions /\ call[q].server \in Servers
  BY <1>2, <1>19 DEF CallType, NoCall
<1>20. ASSUME NEW q \in Calls, NEW s \in Servers, CallBegins(q, s)
       PROVE  SessionInv'
  <2>1. Kept
    BY <1>20 DEF CallBegins, Rest
  <2>2. CASE state # 0 /\ LazyConnect(q, state, s)
    BY <1>18, <2>1, <2>2, SessionFacts DEF SessionInv
  <2>3. CASE /\ init # 0 /\ UNCHANGED mgr
             /\ \E place \in {"init", "initDirect"} : At(q, place, init, s, NoConn)
    <3>1. init \in Sessions
      BY <2>3, SessionFacts DEF SessionInv
    <3>2. call' \in [Calls -> CallType]
      BY <1>13, <2>3, <3>1
    <3> QED BY <2>1, <2>3, <3>2, CallStep
  <2> QED BY <1>20, <2>2, <2>3 DEF CallBegins
<1>21. ASSUME NEW q \in Calls, CallGoesOn(q)
       PROVE  SessionInv'
  BY <1>18, <1>19, <1>21 DEF CallGoesOn, Rest
<1>22. ASSUME NEW q \in Calls, CallConnected(q)
       PROVE  SessionInv'
  <2>1. CASE UsesClosing(q, call[q].gen, call[q].server, call[q].conn)
    <3>1. call[q].conn \in Conns \cup {NoConn}
      BY <1>2, <1>22 DEF CallConnected, CallType, NoCall
    <3> QED BY <1>13, <1>19, <1>22, <2>1, <3>1, CallStep
            DEF CallConnected, UsesClosing, Rest
  <2> QED BY <1>15, <1>16, <1>19, <1>22, <2>1 DEF CallConnected, Rest
<1>23. ASSUME NEW q \in Calls, CallNeedsAuth(q)
       PROVE  SessionInv'
  BY <1>13, <1>19, <1>23, CallStep DEF CallNeedsAuth, Rest
<1>24. ASSUME NEW q \in Calls, NEW g \in Sessions, NEW s \in Servers, Reopens(q, g, s)
       PROVE  SessionInv'
  <2>1. Grows(mgr[g], Close(mgr[g], s)) /\ call' \in [Calls -> CallType]
    BY <1>1, <1>13, <1>24, CloseGrows DEF Reopens
  <2> QED BY <1>24, <2>1, ManagerStep DEF Reopens, Rest
<1>25. ASSUME NEW q \in Calls, CallReconnects(q)
       PROVE  SessionInv'
  <2> DEFINE g == call[q].gen
             s == call[q].server
  <2>1. g \in Sessions /\ s \in Servers
    BY <1>19, <1>25 DEF CallReconnects
  <2>2. /\ Room(g, s) /\ Becomes(g, Connect(g, s)) /\ Kept
        /\ \/ call' = [call EXCEPT ![q] = NoCall]
           \/ At(q, "connecting", g, s, Connect(g, s).promise[s])
    BY <1>25 DEF CallReconnects, Rest
  <2> HIDE DEF g, s
  <2>3. call' \in [Calls -> CallType]
    BY <1>13, <1>14, <1>17, <2>1, <2>2
  <2> QED BY <1>17, <2>1, <2>2, <2>3, ManagerStep
<1>26. ASSUME NEW q \in Calls, CallAborts(q)
       PROVE  SessionInv'
  BY <1>15, <1>26 DEF CallAborts, Rest
<1>27. ASSUME NEW q \in Calls, CallEnds(q)
       PROVE  SessionInv'
  <2> DEFINE g == call[q].gen
             c == mgr[g].map[call[q].server]
             n == mgr[g].conn[c].inFlight - 1
             m == [mgr[g] EXCEPT !.conn[c].inFlight = n]
  <2>1. /\ g \in Sessions /\ call[q].server \in Servers /\ Kept
        /\ call' \in [Calls -> CallType]
    BY <1>14, <1>19, <1>27 DEF CallEnds, Rest
  <2>2. CASE UNCHANGED mgr
    BY <2>1, <2>2, CallStep
  <2>3. CASE c # NoConn /\ Becomes(g, m)
    <3>1. c \in Conns /\ n \in Int /\ MgrInv(mgr[g])
      <4>1. mgr[g] \in MgrShape /\ MgrInv(mgr[g])
        BY <1>1, <2>1
      <4>2. c \in Conns
        BY <2>1, <2>3, <4>1 DEF MgrShape, Refs
      <4> HIDE DEF c, g
      <4>3. mgr[g].conn[c] \in ConnShape
        BY <4>1, <4>2 DEF MgrShape
      <4>4. n \in Int
        BY <4>3 DEF ConnShape
      <4> QED BY <4>1, <4>2, <4>4
    <3> HIDE DEF n, c, g
    <3>2. Grows(mgr[g], m)
      BY <3>1, CountField
    <3> QED BY <2>1, <2>3, <3>2, ManagerStep
  <2> QED BY <1>27, <2>2, <2>3 DEF CallEnds
<1>28. ASSUME NEW s \in Servers, Logout(s)
       PROVE  SessionInv'
  <2>1. state \in Sessions
    BY <1>28, SessionFacts DEF Logout, SessionInv
  <2> QED BY <1>1, <1>7, <1>28, <2>1, CloseGrows DEF Logout, Rest
<1>29. CASE UNCHANGED vars
  BY <1>29, CallStep, <1>2 DEF vars
<1>30. ASSUME NEW q \in Calls, CallAuthorised(q) \/ \E s \in Servers : CallReopens(q, s)
       PROVE  SessionInv'
  <2>1. CASE CallAuthorised(q)
    BY <1>19, <1>24, <2>1 DEF CallAuthorised
  <2>2. CASE \E s \in Servers : CallReopens(q, s)
    BY <1>24, <2>2, SessionFacts DEF CallReopens, SessionInv
  <2> QED BY <1>30, <2>1, <2>2
<1>31. ASSUME NEW g \in Sessions, DirectWaveBegins(g)
       PROVE  SessionInv'
  <2>1. /\ UNCHANGED <<gen, state, init, call, lost>>
        /\ phase' = [phase EXCEPT ![g] = "direct"]
    BY <1>31 DEF DirectWaveBegins
  <2>2. /\ phase' \in [Sessions -> Phases]
        /\ \A h \in Sessions : phase'[h] \in {"starting", "ready"} => phase'[h] = phase[h]
    BY <2>1 DEF SessionInv, Phases
  <2>3. PICK S \in SUBSET Servers : Becomes(g, [mgr[g] EXCEPT !.startup = S])
    BY <1>31 DEF DirectWaveBegins
  <2> DEFINE m == [mgr[g] EXCEPT !.startup = S]
  <2>4. Grows(mgr[g], m)
    BY <1>1, OtherFields
  <2> HIDE DEF m
  <2>5. /\ mgr' \in [Sessions -> MgrShape]
        /\ \A h \in Sessions : mgr'[h] = IF h = g THEN m ELSE mgr[h]
    BY <2>3, <2>4 DEF m, SessionInv, Becomes, Grows, MgrInv
  <2>6. \A h \in Sessions : MgrInv(mgr'[h]) /\ (mgr[h].shut => mgr'[h].shut)
    BY <1>1, <2>4, <2>5 DEF Grows
  <2>7. \A h \in Sessions : MgrInv(mgr[h])'
    BY <2>6 DEF MgrInv, IsConnected
  <2>8. Replaceable => Replaceable'
    BY <2>1, <2>6, SessionFacts DEF Replaceable, SessionInv
  <2>9. SessionsAreShutDown'
    BY <2>1, <2>2, <2>6 DEF SessionsAreShutDown, SessionInv
  <2>10. gen' # 0 /\ phase'[gen'] = "starting" => Replaceable'
    BY <2>1, <2>2, <2>8, SessionFacts DEF SessionInv
  <2> QED BY <1>2, <2>1, <2>2, <2>5, <2>7, <2>8, <2>9, <2>10 DEF SessionInv
<1> QED
  BY <1>3, <1>4, <1>5, <1>6, <1>8, <1>9, <1>10, <1>12, <1>20, <1>21, <1>22, <1>23, <1>25,
     <1>26, <1>27, <1>28, <1>29, <1>30, <1>31
     DEF Next, SessionStart, SessionShutdown

-----------------------------------------------------------------------------
LEMMA SessionsHold == Spec => []SessionInv
<1>1. Init => SessionInv
  BY InitSessions
<1>2. SessionInv /\ [Next]_vars => SessionInv'
  BY NextKeepsSessions
<1> QED BY <1>1, <1>2, PTL DEF Spec

\* Whichever sessions start and end while another is being initialised, the
\* state of a session that was initialised is current, shut down, or was
\* replaced by a command that awaited an older one (index.ts).
THEOREM NoStateIsForgotten == Spec => []SessionsAreShutDown
<1>1. SessionInv => SessionsAreShutDown
  BY DEF SessionInv
<1> QED BY <1>1, SessionsHold, PTL

\* However connecting, closing and calling overlap, no manager has two live
\* connections to a server, or one that it cannot find (server-manager.ts).
THEOREM ManagersFindTheirConnections == Spec => []OneConnectionPerServer
<1>1. SessionInv => OneConnectionPerServer
  <2> SUFFICES ASSUME SessionInv, NEW g \in Sessions, NEW c \in Conns,
                      Live(mgr[g].conn[c])
               PROVE  LET x == mgr[g].conn[c] IN
                      /\ \A d \in Conns \ {c} :
                           ~(Live(mgr[g].conn[d]) /\ mgr[g].conn[d].server = x.server)
                      /\ x.status = "connected" => mgr[g].map[x.server] = c
                      /\ x.status = "opening" => mgr[g].promise[x.server] = c
    BY DEF OneConnectionPerServer
  <2>1. MgrInv(mgr[g])
    BY DEF SessionInv
  <2>2. ASSUME NEW d \in Conns, Live(mgr[g].conn[d])
        PROVE  LET s == mgr[g].conn[d].server IN
               /\ s \in Servers
               /\ mgr[g].conn[d].status = "connected" =>
                    mgr[g].map[s] = d /\ IsConnected(mgr[g], s)
               /\ mgr[g].conn[d].status = "opening" =>
                    mgr[g].promise[s] = d /\ ~IsConnected(mgr[g], s)
    BY <2>1, <2>2, ConnFacts DEF MgrInv, Live, IsConnected
  <2> QED BY <2>2 DEF Live
<1> QED BY <1>1, SessionsHold, PTL

-----------------------------------------------------------------------------
(***************************************************************************)
(* The requests in flight.  A connection that is connected, and was not    *)
(* stored while its server was in use, counts all who use the server.      *)
(***************************************************************************)
CountedAt(g, c, x) ==
  /\ x.status = "opening" => x.inFlight = 0
  /\ x.status = "connected" /\ ~x.heir =>
       /\ \A q \in Using(g, x.server) : call[q].conn = c
       /\ x.inFlight = Cardinality(Using(g, x.server))

CountedInv == \A g \in Sessions, c \in Conns : CountedAt(g, c, mgr[g].conn[c])

\* A connection is left alone, given up or begun.
Quiet(m, n) ==
  \A c \in Conns : \/ n.conn[c] = m.conn[c]
                   \/ n.conn[c].status \notin {"opening", "connected"}
                   \/ n.conn[c].status = "opening" /\ n.conn[c].inFlight = 0

\* Who uses a connection goes on, and nobody else begins to.
UsersStay ==
  \A q \in Calls : call[q].at = "using" \/ call'[q].at = "using" => call'[q] = call[q]

LEMMA QuietOperations ==
  ASSUME NEW g \in Sessions, MgrInv(mgr[g])
  PROVE  /\ Quiet(mgr[g], mgr[g])
         /\ \A s \in Servers : Quiet(mgr[g], Connect(g, s)) /\ Quiet(mgr[g], Close(mgr[g], s))
         /\ Quiet(mgr[g], Shutdown(mgr[g]))
         /\ \A b : Quiet(mgr[g], Shutdown([mgr[g] EXCEPT !.health = b]))
         /\ \A c \in Conns : Quiet(mgr[g], [mgr[g] EXCEPT !.conn[c] = Gone])
<1> DEFINE m == mgr[g]
<1>1. /\ m \in MgrShape /\ m.conn \in [Conns -> ConnShape]
      /\ m = [conn |-> m.conn, map |-> m.map, promise |-> m.promise, startup |-> m.startup,
              health |-> m.health, rest |-> m.rest, shut |-> m.shut]
  BY DEF MgrInv, MgrShape
<1> HIDE DEF m
<1>2. ASSUME NEW n, NEW k, NEW x, n.conn = [m.conn EXCEPT ![k] = x],
             x.status \in {"opening", "connected"} => x.status = "opening" /\ x.inFlight = 0
      PROVE  Quiet(m, n)
  BY <1>1, <1>2 DEF Quiet
<1>3. Quiet(m, m)
  BY DEF Quiet
<1>4. ASSUME NEW s \in Servers PROVE Quiet(m, Connect(g, s))
  <2>1. CASE m.promise[s] # NoConn \/ IsConnected(m, s)
    BY <2>1, <1>3 DEF Connect, m
  <2>2. CASE ~(m.promise[s] # NoConn \/ IsConnected(m, s))
    <3> DEFINE c == CHOOSE x \in Free(g) : TRUE
               x == New(s, "opening")
    <3>1. Connect(g, s) = [m EXCEPT !.promise[s] = c, !.conn[c] = x]
      BY <2>2 DEF Connect, m
    <3>2. x.status = "opening" /\ x.inFlight = 0 BY DEF New
    <3> HIDE DEF c, x
    <3>3. Connect(g, s).conn = [m.conn EXCEPT ![c] = x] BY <3>1, <1>1
    <3> QED BY <3>2, <3>3, <1>2
  <2> QED BY <2>1, <2>2
<1>c. \A x : Closed(x).status \notin {"opening", "connected"}
  BY ConnFacts DEF Closed, New
<1>5. ASSUME NEW s \in Servers PROVE Quiet(m, Close(m, s))
  <2>1. CASE m.map[s] = NoConn BY <2>1, <1>3 DEF Close
  <2>2. CASE m.map[s] # NoConn
    <3> DEFINE x == Closed(m.conn[m.map[s]])
    <3>1. Close(m, s) = [m EXCEPT !.conn[m.map[s]] = x, !.map[s] = NoConn]
      BY <2>2 DEF Close
    <3>2. x.status \notin {"opening", "connected"} BY <1>c
    <3> HIDE DEF x
    <3>3. Close(m, s).conn = [m.conn EXCEPT ![m.map[s]] = x] BY <3>1, <1>1
    <3> QED BY <3>2, <3>3, <1>2
  <2> QED BY <2>1, <2>2
<1>6. Quiet(m, Shutdown(m))
  <2>1. \A c \in Conns : Shutdown(m).conn[c] \in {Closed(m.conn[c]), m.conn[c]}
    BY <1>1 DEF Shutdown
  <2> QED BY <2>1, <1>c DEF Quiet
<1>8. ASSUME NEW b PROVE Quiet(m, Shutdown([m EXCEPT !.health = b]))
  <2> DEFINE n == [m EXCEPT !.health = b]
  <2>1. \A c \in Conns : Shutdown(n).conn[c] \in {Closed(m.conn[c]), m.conn[c]}
    BY <1>1 DEF Shutdown, MgrShape
  <2> HIDE DEF n
  <2>2. Quiet(m, Shutdown(n)) BY <2>1, <1>c DEF Quiet
  <2> QED BY <2>2 DEF n
<1>7. ASSUME NEW c \in Conns PROVE Quiet(m, [m EXCEPT !.conn[c] = Gone])
  <2> DEFINE n == [m EXCEPT !.conn[c] = Gone]
  <2>1. n.conn = [m.conn EXCEPT ![c] = Gone] BY <1>1
  <2> HIDE DEF n
  <2>2. Gone.status = "gone" BY ConnFacts
  <2>3. Quiet(m, n) BY <2>1, <2>2, <1>2
  <2> QED BY <2>3 DEF n
<1> QED BY <1>1, <1>3, <1>4, <1>5, <1>6, <1>7, <1>8 DEF m

LEMMA QuietOtherFields ==
  ASSUME NEW m, NEW n, MgrInv(n), Quiet(m, n), NEW S, NEW b
  PROVE  /\ Quiet(m, [n EXCEPT !.startup = S]) /\ Quiet(m, [n EXCEPT !.rest = S])
         /\ Quiet(m, [n EXCEPT !.health = b])
<1>1. n \in MgrShape BY DEF MgrInv
<1>2. /\ [n EXCEPT !.startup = S].conn = n.conn /\ [n EXCEPT !.rest = S].conn = n.conn
      /\ [n EXCEPT !.health = b].conn = n.conn
  BY <1>1 DEF MgrShape
<1> QED BY <1>2 DEF Quiet

\* Nobody begins or ends using a connection.
LEMMA QuietKeepsCounts ==
  ASSUME CountedInv, \A g \in Sessions : Quiet(mgr[g], mgr'[g]), UsersStay
  PROVE  CountedInv'
<1>1. ASSUME NEW g, NEW s PROVE Using(g, s)' = Using(g, s)
  BY DEF Using, UsersStay
<1>2. \A q \in Calls : call[q].at = "using" => call'[q] = call[q]
  BY DEF UsersStay
<1>3. ASSUME NEW g \in Sessions, NEW c \in Conns
      PROVE  CountedAt(g, c, mgr[g].conn[c])'
  <2> DEFINE x == mgr[g].conn[c]
             y == mgr'[g].conn[c]
  <2>1. CountedAt(g, c, x) BY DEF CountedInv
  <2>2. CASE y = x
    <3> HIDE DEF x, y
    <3>1. \A q \in Using(g, x.server) : call'[q] = call[q]
      BY <1>2 DEF Using
    <3>2. /\ y.status = "opening" => y.inFlight = 0
          /\ y.status = "connected" /\ ~y.heir =>
               /\ \A q \in Using(g, y.server) : call'[q].conn = c
               /\ y.inFlight = Cardinality(Using(g, y.server))
      BY <2>1, <2>2, <3>1 DEF CountedAt
    <3> QED BY <1>1, <3>2 DEF CountedAt, y
  <2>3. CASE y # x
    <3>1. y.status = "connected" \/ y.status = "opening" => y.status = "opening" /\ y.inFlight = 0
      BY <2>3 DEF Quiet
    <3> QED BY <3>1 DEF CountedAt
  <2> QED BY <2>2, <2>3
<1> QED BY <1>3 DEF CountedInv

LEMMA UsingFacts ==
  ASSUME SessionInv, NEW g, NEW s
  PROVE  /\ IsFiniteSet(Using(g, s)) /\ Cardinality(Using(g, s)) \in Nat
         /\ \A q \in Calls : Cardinality(Using(g, s) \ {q}) =
              IF q \in Using(g, s) THEN Cardinality(Using(g, s)) - 1 ELSE Cardinality(Using(g, s))
         /\ \A q \in Calls : Cardinality(Using(g, s) \cup {q}) =
              IF q \in Using(g, s) THEN Cardinality(Using(g, s)) ELSE Cardinality(Using(g, s)) + 1
         /\ (\E q : q \in Using(g, s)) => Cardinality(Using(g, s)) > 0
<1>1. IsFiniteSet(Using(g, s))
  <2>1. Using(g, s) \in SUBSET Calls BY DEF Using
  <2> QED BY <2>1, CallsAssumption, FS_Subset
<1>2. Cardinality(Using(g, s)) \in Nat
  BY <1>1, FS_CardinalityType
<1>3. Cardinality(Using(g, s)) = 0 => Using(g, s) = {}
  BY <1>1, FS_EmptySet
<1> QED BY <1>1, <1>2, <1>3, FS_AddElement, FS_RemoveElement

\* A connection is found, and counts one who uses it more.
LEMMA UsesKeepsCounts ==
  ASSUME SessionInv, CountedInv, NEW q \in Calls, NEW g \in Sessions, NEW s \in Servers,
         Uses(q, g, s), call[q].at # "using"
  PROVE  CountedInv'
<1> DEFINE m == mgr[g]
           c == m.map[s]
           new == [at |-> "using", gen |-> g, server |-> s, conn |-> c]
<1>1. MgrInv(m) /\ m \in MgrShape /\ m.conn \in [Conns -> ConnShape] /\ m.map \in Refs
      /\ mgr \in [Sessions -> MgrShape] /\ call \in [Calls -> CallType]
  BY DEF SessionInv, MgrShape
<1>2. IsConnected(m, s) /\ mgr' = [mgr EXCEPT ![g] = [m EXCEPT !.conn[c].inFlight = @ + 1]]
      /\ call' = [call EXCEPT ![q] = new]
  BY DEF Uses, Becomes, At
<1> HIDE DEF m
<1>3. c \in Conns /\ m.conn[c].status = "connected" /\ m.conn[c].server = s
  BY <1>1, <1>2 DEF IsConnected, MgrInv, Refs
<1>4. m.conn[c] \in ConnShape /\ m.conn[c].inFlight \in Int
  BY <1>1, <1>3 DEF ConnShape
<1>5. /\ \A h \in Sessions : h # g => mgr'[h] = mgr[h]
      /\ \A d \in Conns : d # c => mgr'[g].conn[d] = m.conn[d]
      /\ mgr'[g].conn[c] = [m.conn[c] EXCEPT !.inFlight = @ + 1]
  <2>1. mgr'[g] = [m EXCEPT !.conn[c].inFlight = @ + 1] /\ \A h \in Sessions : h # g => mgr'[h] = mgr[h]
    BY <1>1, <1>2
  <2>2. mgr'[g].conn = [m.conn EXCEPT ![c].inFlight = @ + 1]
    BY <2>1, <1>1 DEF MgrShape
  <2> HIDE DEF c
  <2> QED BY <2>1, <2>2, <1>1, <1>3
<1> DEFINE x == mgr'[g].conn[c]
<1>6. /\ x.status = "connected" /\ x.server = s /\ x.heir = m.conn[c].heir
      /\ x.inFlight = m.conn[c].inFlight + 1
  BY <1>3, <1>4, <1>5 DEF ConnShape
<1>7. /\ Using(g, s)' = Using(g, s) \cup {q} /\ q \notin Using(g, s)
      /\ \A h, t : h # g \/ t # s => Using(h, t)' = Using(h, t)
      /\ \A p \in Calls : p # q => call'[p] = call[p]
      /\ call'[q].conn = c
  <2>1. call'[q] = new /\ \A p \in Calls : p # q => call'[p] = call[p]
    BY <1>1, <1>2
  <2>2. new.at = "using" /\ new.gen = g /\ new.server = s /\ new.conn = c
    OBVIOUS
  <2> HIDE DEF new
  <2>3. ASSUME NEW h, NEW t
        PROVE  /\ h # g \/ t # s => Using(h, t)' = Using(h, t)
               /\ Using(g, s)' = Using(g, s) \cup {q} /\ q \notin Using(g, s)
    BY <2>1, <2>2 DEF Using
  <2> QED BY <2>1, <2>2, <2>3
<1> HIDE DEF c, new, x
<1>8. ASSUME NEW h \in Sessions, NEW d \in Conns
      PROVE  CountedAt(h, d, mgr[h].conn[d])'
  <2>0. CountedAt(h, d, mgr[h].conn[d]) BY DEF CountedInv
  <2>1. CASE h = g /\ d = c
    <3>1. CountedAt(g, c, m.conn[c]) BY <1>3 DEF CountedInv, m
    <3>2. ASSUME ~x.heir
          PROVE  /\ \A p \in Using(g, s) \cup {q} : call'[p].conn = c
                 /\ x.inFlight = Cardinality(Using(g, s) \cup {q})
      <4>1. /\ \A p \in Using(g, s) : call[p].conn = c
            /\ m.conn[c].inFlight = Cardinality(Using(g, s))
        BY <3>1, <3>2, <1>3, <1>6 DEF CountedAt
      <4>2. Cardinality(Using(g, s) \cup {q}) = Cardinality(Using(g, s)) + 1
        BY <1>7, UsingFacts
      <4>3. \A p \in Using(g, s) \cup {q} : call'[p].conn = c
        BY <4>1, <1>7 DEF Using
      <4> QED BY <4>1, <4>2, <4>3, <1>6
    <3>3. Using(h, s)' = Using(g, s) \cup {q} BY <2>1, <1>7
    <3> QED BY <2>1, <3>2, <3>3, <1>6 DEF CountedAt, x
  <2>2. CASE ~(h = g /\ d = c)
    <3> DEFINE y == mgr[h].conn[d]
    <3>1. mgr'[h].conn[d] = y BY <2>2, <1>5 DEF m
    <3>2. y.status = "connected" => h # g \/ y.server # s
      BY <2>2, <1>1 DEF MgrInv, c, m
    <3> HIDE DEF y
    <3>3. y.status = "connected" => \A p \in Using(h, y.server) : p # q /\ call'[p] = call[p]
      <4>1. q \notin Using(h, y.server) BY DEF Using
      <4> QED BY <4>1, <1>7 DEF Using
    <3>4. CountedAt(h, d, y) BY <2>0 DEF y
    <3>5. /\ y.status = "opening" => y.inFlight = 0
          /\ y.status = "connected" /\ ~y.heir =>
               /\ \A p \in Using(h, y.server) : call'[p].conn = d
               /\ y.inFlight = Cardinality(Using(h, y.server))
      BY <3>3, <3>4 DEF CountedAt
    <3>6. y.status = "connected" => \A t : t = y.server => Using(h, t)' = Using(h, t)
      BY <3>2, <1>7
    <3> QED BY <3>1, <3>5, <3>6 DEF CountedAt, y
  <2> QED BY <2>1, <2>2
<1> QED BY <1>8 DEF CountedInv

\* One call moves; a connection to a server it did not use and does not use.
LEMMA SameCounts ==
  ASSUME CountedInv, NEW h \in Sessions, NEW d \in Conns, NEW q \in Calls,
         mgr'[h].conn[d] = mgr[h].conn[d], \A p \in Calls : p # q => call'[p] = call[p],
         mgr[h].conn[d].status = "connected" =>
           \A t : t = mgr[h].conn[d].server => q \notin Using(h, t) /\ q \notin Using(h, t)'
  PROVE  CountedAt(h, d, mgr[h].conn[d])'
<1> DEFINE y == mgr[h].conn[d]
<1>1. mgr'[h].conn[d] = y
  OBVIOUS
<1>2. y.status = "connected" => \A t : t = y.server => Using(h, t)' = Using(h, t)
  BY DEF Using
<1>3. y.status = "connected" => \A p \in Using(h, y.server) : call'[p] = call[p]
  BY DEF Using
<1>4. CountedAt(h, d, y)
  BY DEF CountedInv
<1> HIDE DEF y
<1>5. /\ y.status = "opening" => y.inFlight = 0
      /\ y.status = "connected" /\ ~y.heir =>
           /\ \A p \in Using(h, y.server) : call'[p].conn = d
           /\ y.inFlight = Cardinality(Using(h, y.server))
  BY <1>3, <1>4 DEF CountedAt
<1> QED BY <1>1, <1>2, <1>5 DEF CountedAt, y

\* A call is counted off the connection its server has, if it counts any.
LEMMA EndKeepsCounts ==
  ASSUME SessionInv, CountedInv, NEW q \in Calls, CallEnds(q),
         NEW g, g = call[q].gen, NEW s, s = call[q].server
  PROVE  CountedInv'
<1> DEFINE m == mgr[g]
           c == m.map[s]
<1>1. call \in [Calls -> CallType] /\ mgr \in [Sessions -> MgrShape]
      /\ call[q].at = "using" /\ call' = [call EXCEPT ![q] = NoCall]
  BY DEF SessionInv, CallEnds
<1>2. g \in Sessions /\ s \in Servers
  BY <1>1 DEF CallType, NoCall
<1>3. MgrInv(m) /\ m \in MgrShape /\ m.conn \in [Conns -> ConnShape] /\ m.map \in Refs
  BY <1>2 DEF SessionInv, MgrShape
<1>4. IF c # NoConn /\ m.conn[c].inFlight > 0
      THEN mgr' = [mgr EXCEPT ![g] = [m EXCEPT !.conn[c].inFlight = @ - 1]]
      ELSE mgr' = mgr
  BY DEF CallEnds, Becomes
<1>5. /\ q \in Using(g, s)
      /\ \A h, t : q \in Using(h, t) => h = g /\ t = s
      /\ \A h, t : q \notin Using(h, t)'
      /\ \A p \in Calls : p # q => call'[p] = call[p]
      /\ Using(g, s)' = Using(g, s) \ {q}
  <2>1. call'[q] = NoCall /\ NoCall.at = "idle" /\ \A p \in Calls : p # q => call'[p] = call[p]
    BY <1>1 DEF NoCall
  <2>2. ASSUME NEW h, NEW t
        PROVE  /\ q \notin Using(h, t)'
               /\ Using(g, s)' = Using(g, s) \ {q}
    BY <2>1 DEF Using
  <2> QED BY <1>1, <2>1, <2>2 DEF Using
<1>6. ASSUME NEW h \in Sessions, NEW d \in Conns
      PROVE  /\ h # g => mgr'[h].conn[d] = mgr[h].conn[d]
             /\ h = g /\ d # c => mgr'[h].conn[d] = mgr[h].conn[d]
             /\ h = g /\ d = c => mgr'[h].conn[d] =
                  IF m.conn[c].inFlight > 0 THEN [m.conn[c] EXCEPT !.inFlight = @ - 1] ELSE m.conn[c]
  <2>0. NoConn \notin Conns BY ConnFacts
  <2>1. CASE c # NoConn /\ m.conn[c].inFlight > 0
    <3>1. mgr'[g] = [m EXCEPT !.conn[c].inFlight = @ - 1]
          /\ \A k \in Sessions : k # g => mgr'[k] = mgr[k]
      BY <2>1, <1>1, <1>2, <1>4
    <3>2. mgr'[g].conn = [m.conn EXCEPT ![c].inFlight = @ - 1]
      BY <3>1, <1>3 DEF MgrShape
    <3> HIDE DEF c, m
    <3>3. /\ d # c => mgr'[g].conn[d] = m.conn[d]
          /\ d = c => mgr'[g].conn[d] = [m.conn[c] EXCEPT !.inFlight = @ - 1]
      BY <3>2, <1>3
    <3> QED BY <2>1, <3>1, <3>3 DEF m
  <2>2. CASE ~(c # NoConn /\ m.conn[c].inFlight > 0)
    BY <2>0, <2>2, <1>4
  <2> QED BY <2>1, <2>2
<1> HIDE DEF c, m
<1>7. ASSUME NEW h \in Sessions, NEW d \in Conns
      PROVE  CountedAt(h, d, mgr[h].conn[d])'
  <2>1. CASE h = g /\ d = c
    <3> DEFINE x == m.conn[c]
               y == mgr'[h].conn[d]
    <3>1. y = IF x.inFlight > 0 THEN [x EXCEPT !.inFlight = @ - 1] ELSE x
      BY <2>1, <1>6
    <3>2. x \in ConnShape /\ x.inFlight \in Int /\ (x.status \in {"connected", "needs-auth"} /\ x.server = s)
      <4>1. x \in ConnShape BY <2>1, <1>3
      <4>2. c # NoConn BY <2>1, ConnFacts
      <4>3. x.server = s /\ x.status \in {"connected", "needs-auth"}
        BY <4>2, <1>2, <1>3 DEF MgrInv, c
      <4> QED BY <4>1, <4>3 DEF ConnShape
    <3>3. CountedAt(g, c, x) BY <2>1, <1>2 DEF CountedInv, m
    <3> HIDE DEF x, y
    <3>4. y.status = x.status /\ y.server = s /\ y.heir = x.heir
          /\ y.inFlight = IF x.inFlight > 0 THEN x.inFlight - 1 ELSE x.inFlight
      BY <3>1, <3>2 DEF ConnShape
    <3>5. ASSUME y.status = "connected", ~y.heir
          PROVE  /\ \A p \in Using(g, s) \ {q} : call'[p].conn = c
                 /\ y.inFlight = Cardinality(Using(g, s) \ {q})
      <4>1. /\ \A p \in Using(g, s) : call[p].conn = c
            /\ x.inFlight = Cardinality(Using(g, s))
        BY <3>2, <3>3, <3>4, <3>5 DEF CountedAt
      <4>2. Cardinality(Using(g, s) \ {q}) = Cardinality(Using(g, s)) - 1
            /\ Cardinality(Using(g, s)) > 0
        BY <1>5, UsingFacts
      <4>3. \A p \in Using(g, s) \ {q} : call'[p].conn = c
        BY <4>1, <1>5 DEF Using
      <4> QED BY <4>1, <4>2, <4>3, <3>4
    <3>6. Using(h, s)' = Using(g, s) \ {q} BY <2>1, <1>5
    <3>7. y.status # "opening" BY <3>2, <3>4
    <3> QED BY <2>1, <3>4, <3>5, <3>6, <3>7 DEF CountedAt, y
  <2>2. CASE ~(h = g /\ d = c)
    <3>1. mgr'[h].conn[d] = mgr[h].conn[d] BY <2>2, <1>6
    <3>2. mgr[h].conn[d].status = "connected" => h # g \/ mgr[h].conn[d].server # s
      <4>1. \A t \in Servers : m.conn[d].status = "connected" /\ m.conn[d].server = t => m.map[t] = d
        BY <1>3 DEF MgrInv
      <4>2. m.conn[d].status = "connected" => d = c \/ m.conn[d].server # s
        BY <1>2, <4>1 DEF c
      <4> QED BY <2>2, <4>2 DEF m
    <3>3. mgr[h].conn[d].status = "connected" =>
            \A t : t = mgr[h].conn[d].server => q \notin Using(h, t) /\ q \notin Using(h, t)'
      BY <3>2, <1>5
    <3> QED BY <3>1, <3>3, <1>5, SameCounts
  <2> QED BY <2>1, <2>2
<1> QED BY <1>7 DEF CountedInv

\* A connection is stored: it counts nobody, and is an heir if somebody is there.
LEMMA StoreKeepsCounts ==
  ASSUME SessionInv, CountedInv, NEW g \in Sessions, NEW c \in Conns, ConnectEnds(g, c),
         NEW s, s = mgr[g].conn[c].server
  PROVE  CountedInv'
<1> DEFINE o == mgr[g]
           b == (Using(g, s) # {})
           m == [o EXCEPT !.promise[s] = NoConn, !.conn[c].heir = b]
<1>1. /\ o.conn[c].status = "opening" /\ o.conn[c].server = s /\ call' = call /\ mgr \in [Sessions -> MgrShape]
      /\ o \in MgrShape /\ o.conn \in [Conns -> ConnShape] /\ o.conn[c] \in ConnShape
      /\ \/ Becomes(g, Stored(m, c, "connected")) \/ Becomes(g, Stored(m, c, "needs-auth"))
         \/ Becomes(g, [m EXCEPT !.conn[c] = Gone])
  BY DEF ConnectEnds, SessionInv, MgrShape
<1>2. o.conn[c].inFlight = 0
  BY <1>1 DEF CountedInv, CountedAt
<1>3. m \in MgrShape
  <2>1. s \in Servers /\ MgrInv(o) BY <1>1, OpeningFacts DEF SessionInv
  <2>2. b \in BOOLEAN OBVIOUS
  <2> HIDE DEF b, o
  <2>3. Settled(o, m, c, s) BY <1>1, <2>1, <2>2, PromiseSettles
  <2> QED BY <2>3 DEF Settled
<1> HIDE DEF o, b
<1>4. m.conn = [o.conn EXCEPT ![c].heir = b]
  BY <1>1 DEF MgrShape
<1> HIDE DEF m
<1>5. /\ m.conn[c] = [o.conn[c] EXCEPT !.heir = b]
      /\ \A d \in Conns : d # c => m.conn[d] = o.conn[d]
  BY <1>1, <1>4
<1>6. \A status \in {"connected", "needs-auth"} :
        LET x == [m.conn[c] EXCEPT !.status = status] IN
        x.server = s /\ x.heir = b /\ x.inFlight = 0 /\ x.status = status
  BY <1>1, <1>2, <1>5 DEF ConnShape
<1>g. Gone.status = "gone"
  BY ConnFacts
<1>7. ASSUME NEW status \in {"connected", "needs-auth"}, Becomes(g, Stored(m, c, status)),
             NEW d \in Conns
      PROVE  mgr'[g].conn[d] = IF d = c THEN [m.conn[c] EXCEPT !.status = status]
                               ELSE IF d = m.map[m.conn[c].server] THEN Gone ELSE o.conn[d]
  <2>1. mgr'[g] = Stored(m, c, status) BY <1>1, <1>7 DEF Becomes
  <2>2. mgr'[g].conn[d] = IF d = c THEN [m.conn[c] EXCEPT !.status = status]
                          ELSE IF d = m.map[m.conn[c].server] THEN Gone ELSE m.conn[d]
    BY <1>3, <2>1 DEF Stored, MgrShape
  <2> QED BY <2>2, <1>5
<1>8. ASSUME Becomes(g, [m EXCEPT !.conn[c] = Gone]), NEW d \in Conns
      PROVE  mgr'[g].conn[d] = IF d = c THEN Gone ELSE o.conn[d]
  <2>1. mgr'[g] = [m EXCEPT !.conn[c] = Gone] BY <1>1, <1>8 DEF Becomes
  <2>2. mgr'[g].conn = [m.conn EXCEPT ![c] = Gone] /\ m.conn \in [Conns -> ConnShape]
    BY <1>3, <2>1 DEF MgrShape
  <2> QED BY <2>2, <1>5
<1>9. ASSUME NEW d \in Conns
      PROVE  LET y == mgr'[g].conn[d] IN
             \/ y = o.conn[d]
             \/ y.status \notin {"opening", "connected"}
             \/ d = c /\ y.status = "connected" /\ y.server = s /\ y.heir = b /\ y.inFlight = 0
  <2>1. CASE Becomes(g, Stored(m, c, "connected"))
    BY <2>1, <1>6, <1>7, <1>g
  <2>2. CASE Becomes(g, Stored(m, c, "needs-auth"))
    BY <2>2, <1>6, <1>7, <1>g
  <2>3. CASE Becomes(g, [m EXCEPT !.conn[c] = Gone])
    BY <2>3, <1>8, <1>g
  <2> QED BY <2>1, <2>2, <2>3, <1>1
<1>10. \A h \in Sessions : h # g => mgr'[h] = mgr[h]
  BY <1>1 DEF Becomes
<1>11. \A h, t : Using(h, t)' = Using(h, t)
  BY <1>1 DEF Using
<1>12. ASSUME NEW h \in Sessions, NEW d \in Conns
       PROVE  CountedAt(h, d, mgr[h].conn[d])'
  <2> DEFINE y == mgr'[h].conn[d]
  <2>1. CASE y = mgr[h].conn[d]
    <3>1. CountedAt(h, d, mgr[h].conn[d]) BY DEF CountedInv
    <3> QED BY <2>1, <3>1, <1>1, <1>11 DEF CountedAt
  <2>2. CASE y.status \notin {"opening", "connected"}
    BY <2>2 DEF CountedAt
  <2>3. CASE h = g /\ y.status = "connected" /\ y.server = s /\ y.heir = b /\ y.inFlight = 0
    <3>1. ~b => Using(g, s) = {} BY DEF b
    <3>2. Cardinality({}) = 0 BY FS_EmptySet
    <3>3. Using(h, s)' = Using(g, s) BY <2>3, <1>11
    <3> HIDE DEF y
    <3>4. /\ y.status # "opening"
          /\ ~y.heir => /\ \A p \in Using(g, s) : call'[p].conn = d
                        /\ y.inFlight = Cardinality(Using(g, s))
      BY <2>3, <3>1, <3>2
    <3> QED BY <2>3, <3>3, <3>4 DEF CountedAt, y
  <2> QED BY <2>1, <2>2, <2>3, <1>9, <1>10 DEF o
<1> QED BY <1>12 DEF CountedInv

LEMMA QuietStep ==
  ASSUME SessionInv, CountedInv, UsersStay,
         \/ mgr' = mgr
         \/ \E g \in Sessions : \E m : Becomes(g, m) /\ Quiet(mgr[g], m)
  PROVE  CountedInv'
<1>1. \A g \in Sessions : Quiet(mgr[g], mgr[g])
  BY DEF Quiet
<1>2. CASE mgr' = mgr
  BY <1>1, <1>2, QuietKeepsCounts
<1>3. CASE \E g \in Sessions : \E m : Becomes(g, m) /\ Quiet(mgr[g], m)
  <2>1. PICK g \in Sessions : \E m : Becomes(g, m) /\ Quiet(mgr[g], m)
    BY <1>3
  <2>2. PICK m : Becomes(g, m) /\ Quiet(mgr[g], m)
    BY <2>1
  <2>3. \A h \in Sessions : mgr'[h] = IF h = g THEN m ELSE mgr[h]
    BY <2>2 DEF Becomes, SessionInv
  <2>4. \A h \in Sessions : Quiet(mgr[h], mgr'[h])
    BY <1>1, <2>2, <2>3
  <2> QED BY <2>4, QuietKeepsCounts
<1> QED BY <1>2, <1>3

\* A call moves, and does not use a connection before or after.
LEMMA OthersStay ==
  ASSUME SessionInv, NEW q \in Calls, call[q].at # "using",
         NEW x, x.at # "using", call' = [call EXCEPT ![q] = x]
  PROVE  UsersStay
<1>1. \A p \in Calls : call'[p] = IF p = q THEN x ELSE call[p]
  BY DEF SessionInv
<1> QED BY <1>1 DEF UsersStay

LEMMA FailsQuietly ==
  ASSUME SessionInv, CountedInv, NEW q \in Calls, call[q].at # "using", Fails(q)
  PROVE  CountedInv'
BY OthersStay, QuietStep DEF Fails, NoCall

LEMMA MovesQuietly ==
  ASSUME SessionInv, CountedInv, NEW q \in Calls, call[q].at # "using",
         NEW place, place # "using", NEW g, NEW s, NEW c, At(q, place, g, s, c),
         \/ mgr' = mgr
         \/ \E h \in Sessions : \E m : Becomes(h, m) /\ Quiet(mgr[h], m)
  PROVE  CountedInv'
<1> DEFINE x == [at |-> place, gen |-> g, server |-> s, conn |-> c]
<1>1. x.at # "using" /\ call' = [call EXCEPT ![q] = x]
  BY DEF At
<1> HIDE DEF x
<1> QED BY <1>1, OthersStay, QuietStep

\* Who begins to use a connection that is being closed is counted nowhere, and
\* no connection of its server counts.
LEMMA UsesClosingKeepsCounts ==
  ASSUME SessionInv, CountedInv, NEW q \in Calls, call[q].at # "using",
         NEW g \in Sessions, NEW s \in Servers, NEW c, UsesClosing(q, g, s, c)
  PROVE  CountedInv'
<1> DEFINE new == [at |-> "using", gen |-> g, server |-> s, conn |-> c]
<1>1. /\ new.at = "using" /\ new.gen = g /\ new.server = s
      /\ mgr' = mgr /\ mgr[g].map[s] = NoConn
      /\ \A p \in Calls : call'[p] = IF p = q THEN new ELSE call[p]
  BY DEF UsesClosing, At, SessionInv
<1> HIDE DEF new
<1>2. ASSUME NEW h \in Sessions, NEW t, h # g \/ t # s
      PROVE  /\ Using(h, t)' = Using(h, t)
             /\ \A p \in Using(h, t) : call'[p] = call[p]
  BY <1>1, <1>2 DEF Using
<1>3. ASSUME NEW h \in Sessions, NEW d \in Conns
      PROVE  CountedAt(h, d, mgr[h].conn[d])'
  <2> DEFINE x == mgr[h].conn[d]
  <2>1. CountedAt(h, d, x) /\ x' = x /\ MgrInv(mgr[h])
    BY <1>1 DEF CountedInv, SessionInv
  <2>2. x.status = "connected" => h # g \/ x.server # s
    BY <1>1, <2>1, ConnFacts DEF MgrInv
  <2>3. CASE x.status # "connected"
    BY <2>1, <2>3 DEF CountedAt
  <2>4. CASE x.status = "connected"
    <3>1. /\ Using(h, x.server)' = Using(h, x.server)
          /\ \A p \in Using(h, x.server) : call'[p] = call[p]
      BY <1>1, <1>2, <2>2, <2>4
    <3> QED BY <2>1, <3>1 DEF CountedAt
  <2> QED BY <2>3, <2>4
<1> QED BY <1>3 DEF CountedInv

LEMMA LazyConnectKeepsCounts ==
  ASSUME SessionInv, CountedInv, NEW q \in Calls, call[q].at # "using",
         NEW g \in Sessions, NEW s \in Servers, LazyConnect(q, g, s)
  PROVE  CountedInv'
<1>1. CASE Uses(q, g, s)
  BY <1>1, UsesKeepsCounts
<1>2. CASE Fails(q)
  BY <1>2, FailsQuietly
<1>3. CASE At(q, "auth", g, s, NoConn) /\ UNCHANGED mgr
  BY <1>3, MovesQuietly
<1>4. CASE Becomes(g, Connect(g, s)) /\ At(q, "connecting", g, s, Connect(g, s).promise[s])
  <2>1. Quiet(mgr[g], Connect(g, s))
    BY QuietOperations DEF SessionInv
  <2> QED BY <1>4, <2>1, MovesQuietly
<1> QED BY <1>1, <1>2, <1>3, <1>4 DEF LazyConnect

LEMMA LooksQuietly ==
  ASSUME SessionInv, CountedInv, NEW g \in Sessions, NEW s \in Servers,
         NEW m, Grows(mgr[g], m), Quiet(mgr[g], m), NEW awaits, Looks(g, s, m, awaits)
  PROVE  CountedInv'
<1> DEFINE n == [m EXCEPT !.rest = (@ \ {s}) \cup IF awaits THEN Servers \ {s} ELSE {}]
<1>1. Becomes(g, n) /\ call' = call
  BY DEF Looks
<1>2. Quiet(mgr[g], n)
  BY QuietOtherFields DEF Grows
<1>3. UsersStay
  BY <1>1 DEF UsersStay
<1> HIDE DEF n
<1> QED BY <1>1, <1>2, <1>3, QuietStep

LEMMA NextKeepsCounts == SessionInv /\ CountedInv /\ [Next]_vars => CountedInv'
<1> SUFFICES ASSUME SessionInv, CountedInv, [Next]_vars PROVE CountedInv'
  OBVIOUS
<1>1. /\ \A g \in Sessions : MgrInv(mgr[g]) /\ mgr[g] \in MgrShape
      /\ \A g \in Sessions : Quiet(mgr[g], mgr[g]) /\ Grows(mgr[g], mgr[g])
      /\ call \in [Calls -> CallType]
  BY OtherFields DEF SessionInv, Quiet
<1>2. call' = call => UsersStay
  BY DEF UsersStay
<1>3. ASSUME NEW next, LeaveSession(next)
      PROVE  CountedInv'
  <2>1. CASE state = 0
    BY <1>2, <1>3, <2>1, QuietStep DEF LeaveSession
  <2>2. CASE state # 0
    <3>1. state \in Sessions
      BY <2>2, SessionFacts DEF SessionInv
    <3>2. Quiet(mgr[state], Shutdown(mgr[state]))
      BY <1>1, <3>1, QuietOperations
    <3>3. Becomes(state, Shutdown(mgr[state])) /\ call' = call
      BY <1>3, <2>2 DEF LeaveSession, Becomes
    <3> QED BY <1>2, <3>1, <3>2, <3>3, QuietStep
  <2> QED BY <2>1, <2>2
<1>4. ASSUME NEW g \in Sessions, StartGoesOn(g)
      PROVE  CountedInv'
  <2>1. CASE mgr' = mgr
    BY <1>2, <1>4, <2>1, QuietStep DEF StartGoesOn
  <2>2. ASSUME NEW S, Becomes(g, [mgr[g] EXCEPT !.startup = S])
        PROVE  CountedInv'
    <3>1. Quiet(mgr[g], [mgr[g] EXCEPT !.startup = S])
      BY <1>1, QuietOtherFields
    <3> QED BY <1>2, <1>4, <2>2, <3>1, QuietStep DEF StartGoesOn
  <2> QED BY <1>4, <2>1, <2>2 DEF StartGoesOn
<1>5. ASSUME NEW g \in Sessions, InitEnds(g)
      PROVE  CountedInv'
  <2> DEFINE h == [mgr[g] EXCEPT !.health = TRUE]
             m == IF Stale(g) THEN Shutdown(h) ELSE h
  <2>1. Quiet(mgr[g], m)
    BY <1>1, QuietOperations, QuietOtherFields
  <2>2. Becomes(g, m)
    BY <1>5 DEF InitEnds
  <2>3. UsersStay
    <3>1. \A q \in Calls : call'[q] = IF q \in Awaiting(g) THEN [call[q] EXCEPT !.at = "begin"]
                                      ELSE call[q]
      BY <1>5 DEF InitEnds
    <3>2. ASSUME NEW q \in Awaiting(g)
          PROVE  q \in Calls /\ call[q].at # "using" /\ [call[q] EXCEPT !.at = "begin"].at # "using"
      <4>1. q \in Calls /\ call[q].at \in {"init", "initDirect"} BY DEF Awaiting
      <4> QED BY <1>1, <4>1 DEF CallType, NoCall
    <3> QED BY <3>1, <3>2 DEF UsersStay
  <2> HIDE DEF m
  <2> QED BY <2>1, <2>2, <2>3, QuietStep
<1>6. ASSUME NEW g \in Sessions, InitFails(g)
      PROVE  CountedInv'
  <2>1. \A q \in Calls : call'[q] = IF q \in Awaiting(g) THEN NoCall ELSE call[q]
    BY <1>6 DEF InitFails
  <2>2. UsersStay
    BY <2>1 DEF UsersStay, Awaiting, NoCall
  <2> QED BY <1>6, <2>2, QuietStep DEF InitFails
<1>7. ASSUME NEW g \in Sessions, NEW s \in Servers, StartupConnects(g, s)
      PROVE  CountedInv'
  <2> DEFINE S == Connect(g, s).startup \ {s}
             m == [Connect(g, s) EXCEPT !.startup = S]
  <2>1. Quiet(mgr[g], Connect(g, s)) /\ MgrInv(Connect(g, s))
    BY <1>1, <1>7, QuietOperations, ConnectGrows DEF StartupConnects, Grows
  <2>2. Quiet(mgr[g], m)
    BY <2>1, QuietOtherFields
  <2>3. Becomes(g, m) /\ call' = call
    BY <1>7 DEF StartupConnects
  <2> HIDE DEF m
  <2> QED BY <1>2, <2>2, <2>3, QuietStep
<1>8. ASSUME NEW g \in Sessions, NEW s \in Servers, Health(g, s)
      PROVE  CountedInv'
  <2>1. CASE CheckKeepAlive(g, s)
    BY <1>1, <2>1, QuietOperations, ConnectGrows, LooksQuietly DEF CheckKeepAlive
  <2>2. CASE CheckIdle(g, s)
    BY <1>1, <2>2, QuietOperations, CloseGrows, LooksQuietly DEF CheckIdle
  <2>3. CASE CheckNothing(g, s)
    BY <1>1, <2>3, LooksQuietly DEF CheckNothing
  <2> QED BY <1>8, <2>1, <2>2, <2>3 DEF Health
<1>9. ASSUME NEW g \in Sessions, NEW c \in Conns, CloseEnds(g, c)
      PROVE  CountedInv'
  <2>1. Quiet(mgr[g], [mgr[g] EXCEPT !.conn[c] = Gone])
    BY <1>1, QuietOperations
  <2> QED BY <1>2, <1>9, <2>1, QuietStep DEF CloseEnds
<1>10. \A q \in Calls : call[q] # NoCall =>
         call[q].gen \in Sessions /\ call[q].server \in Servers
  BY <1>1 DEF CallType
<1>11. NoCall.at = "idle"
  BY DEF NoCall
<1>12. ASSUME NEW q \in Calls, NEW s \in Servers, CallBegins(q, s)
       PROVE  CountedInv'
  <2>1. CASE state # 0 /\ LazyConnect(q, state, s)
    <3>1. state \in Sessions BY <2>1, SessionFacts DEF SessionInv
    <3> QED BY <1>12, <2>1, <3>1, LazyConnectKeepsCounts DEF CallBegins
  <2>2. ASSUME NEW place \in {"init", "initDirect"}, At(q, place, init, s, NoConn), mgr' = mgr
        PROVE  CountedInv'
    BY <1>12, <2>2, MovesQuietly DEF CallBegins
  <2> QED BY <1>12, <2>1, <2>2 DEF CallBegins
<1>13. ASSUME NEW q \in Calls, CallGoesOn(q)
       PROVE  CountedInv'
  BY <1>10, <1>11, <1>13, LazyConnectKeepsCounts DEF CallGoesOn
<1>14. ASSUME NEW q \in Calls, CallConnected(q)
       PROVE  CountedInv'
  BY <1>10, <1>11, <1>14, UsesKeepsCounts, UsesClosingKeepsCounts, FailsQuietly
     DEF CallConnected
<1>15. ASSUME NEW q \in Calls, CallNeedsAuth(q)
       PROVE  CountedInv'
  BY <1>15, MovesQuietly DEF CallNeedsAuth
<1>16. ASSUME NEW q \in Calls, NEW g \in Sessions, NEW s \in Servers, call[q].at # "using",
              Reopens(q, g, s)
       PROVE  CountedInv'
  <2>1. Quiet(mgr[g], Close(mgr[g], s))
    BY <1>1, QuietOperations
  <2> QED BY <1>16, <2>1, MovesQuietly DEF Reopens
<1>17. ASSUME NEW q \in Calls, CallAuthorised(q) \/ \E s \in Servers : CallReopens(q, s)
       PROVE  CountedInv'
  <2>1. CASE CallAuthorised(q)
    BY <1>10, <1>11, <1>16, <2>1 DEF CallAuthorised
  <2>2. CASE \E s \in Servers : CallReopens(q, s)
    BY <1>16, <2>2, SessionFacts DEF CallReopens, SessionInv
  <2> QED BY <1>17, <2>1, <2>2
<1>18. ASSUME NEW q \in Calls, CallReconnects(q)
       PROVE  CountedInv'
  <2> DEFINE g == call[q].gen
             s == call[q].server
             m == Connect(g, s)
  <2>1. g \in Sessions /\ s \in Servers /\ call[q].at = "reopen"
    BY <1>10, <1>11, <1>18 DEF CallReconnects
  <2>2. Quiet(mgr[g], m)
    BY <1>1, <2>1, QuietOperations
  <2>3. Becomes(g, m) /\ (call' = [call EXCEPT ![q] = NoCall]
                          \/ \E c : At(q, "connecting", g, s, c))
    BY <1>18 DEF CallReconnects
  <2>4. UsersStay
    <3>1. CASE call' = [call EXCEPT ![q] = NoCall]
      BY <1>11, <2>1, <3>1, OthersStay
    <3>2. ASSUME NEW c, At(q, "connecting", g, s, c) PROVE UsersStay
      <4> DEFINE x == [at |-> "connecting", gen |-> g, server |-> s, conn |-> c]
      <4>1. x.at # "using" /\ call' = [call EXCEPT ![q] = x] BY <3>2 DEF At
      <4> HIDE DEF x
      <4> QED BY <2>1, <4>1, OthersStay
    <3> QED BY <2>3, <3>1, <3>2
  <2> HIDE DEF g, m
  <2> QED BY <2>1, <2>2, <2>3, <2>4, QuietStep
<1>19. ASSUME NEW q \in Calls, CallAborts(q)
       PROVE  CountedInv'
  BY <1>19, FailsQuietly DEF CallAborts
<1>20. ASSUME NEW s \in Servers, Logout(s)
       PROVE  CountedInv'
  <2>1. state \in Sessions
    BY <1>20, SessionFacts DEF Logout, SessionInv
  <2>2. Quiet(mgr[state], Close(mgr[state], s))
    BY <1>1, <2>1, QuietOperations
  <2> QED BY <1>2, <1>20, <2>1, <2>2, QuietStep DEF Logout
<1>21. CASE UNCHANGED vars
  BY <1>2, <1>21, QuietStep DEF vars
<1>22. ASSUME NEW g \in Sessions, DirectWaveBegins(g)
       PROVE  CountedInv'
  <2>1. PICK S \in SUBSET Servers : Becomes(g, [mgr[g] EXCEPT !.startup = S])
    BY <1>22 DEF DirectWaveBegins
  <2>2. Quiet(mgr[g], [mgr[g] EXCEPT !.startup = S])
    BY <1>1, QuietOtherFields
  <2> QED BY <1>2, <1>22, <2>1, <2>2, QuietStep DEF DirectWaveBegins
<1> QED
  BY <1>3, <1>4, <1>5, <1>6, <1>7, <1>8, <1>9, <1>12, <1>13, <1>14, <1>15, <1>17, <1>18, <1>19,
     <1>20, <1>21, <1>22, EndKeepsCounts, StoreKeepsCounts
     DEF Next, SessionStart, SessionShutdown

\* However connecting, closing and calling overlap, the requests that are
\* counted on a connection are those in progress on it, unless it was stored
\* while an earlier one was still in use (server-manager.ts): isIdle never
\* closes such a connection under a request.
THEOREM RequestsMatchTheirCount == Spec => []RequestsAreCounted
<1>1. Init => CountedInv
  BY ConnFacts DEF Init, CountedInv, CountedAt, Fresh
<1>2. CountedInv => RequestsAreCounted
  <2> SUFFICES ASSUME CountedInv, NEW g \in Sessions, NEW c \in Conns,
                      mgr[g].conn[c].status = "connected", ~mgr[g].conn[c].heir
               PROVE  LET s == mgr[g].conn[c].server IN
                      mgr[g].conn[c].inFlight = Cardinality({q \in Using(g, s) : call[q].conn = c})
    BY DEF RequestsAreCounted
  <2> DEFINE x == mgr[g].conn[c]
  <2>1. /\ \A q \in Using(g, x.server) : call[q].conn = c
        /\ x.inFlight = Cardinality(Using(g, x.server))
    BY DEF CountedInv, CountedAt
  <2>2. {q \in Using(g, x.server) : call[q].conn = c} = Using(g, x.server)
    BY <2>1
  <2> QED BY <2>1, <2>2
<1>3. Spec => []CountedInv
  BY <1>1, NextKeepsCounts, SessionsHold, PTL DEF Spec
<1> QED BY <1>2, <1>3, PTL
=============================================================================
