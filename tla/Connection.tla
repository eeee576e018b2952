------------------------------ MODULE Connection ------------------------------
(***************************************************************************)
(* The browser's connection to the broadcaster: createConnection() of      *)
(* frontend/js/net.js, used as frontend/js/main.js uses it.  Every call    *)
(* and every event handler runs to completion on the page's event loop, so *)
(* each is one action; sockets and timers live outside and report through  *)
(* events, which may still arrive after the socket was given up.           *)
(*                                                                         *)
(* A socket is free, connecting, open, refused or lost (its close event is *)
(* queued), or closing (the page called close()).  What is behind an       *)
(* endpoint is external: `up' are the endpoints that answer.  The bound is *)
(* the number of Sockets; one is used again when its close event has been  *)
(* handled.                                                                *)
(***************************************************************************)
EXTENDS Integers, Sequences

CONSTANTS
  Endpoints,      \* host and port
  BadEndpoints,   \* those for which new WebSocket(url) throws
  Sockets,        \* WebSocket objects
  MaxErrors,      \* bound: parseErrorCount saturates
  None            \* null

ASSUME ConnectionAssumption ==
  /\ BadEndpoints \subseteq Endpoints
  /\ None \notin Endpoints /\ None \notin Sockets /\ None \notin Int
  /\ MaxErrors \in Nat

VARIABLES
  endpoint,      \* _host, _port
  socket,        \* socket
  timer,         \* reconnectTimer: None or its delay
  backoffIndex,  \* backoffIndex, saturating where the delay does
  stopped,       \* stopped
  parseErrors,   \* parseErrorCount
  status,        \* the last status passed to onStatus
  shown,         \* the endpoint whose state was last passed to onState
  sock,          \* the state of each WebSocket
  to,            \* the endpoint it was opened for
  up,            \* the endpoints that answer
  lastDelay      \* history: the last delay since the user acted or a socket opened

jsVars == <<endpoint, socket, timer, backoffIndex, stopped, parseErrors, status, shown>>
connectionVars == <<jsVars, sock, to, up, lastDelay>>

ConnectionInit ==
  /\ endpoint \in Endpoints
  /\ socket = None
  /\ timer = None
  /\ backoffIndex = 0
  /\ stopped = TRUE
  /\ parseErrors = 0
  /\ status = "none"
  /\ shown = None
  /\ sock = [s \in Sockets |-> "free"]
  /\ to = [s \in Sockets |-> endpoint]
  /\ up = Endpoints \ BadEndpoints
  /\ lastDelay = 0

-------------------------------------------------------------------------------
(* Operations shared by the handlers.                                      *)

BACKOFF_DELAYS_MS == <<1000, 2000, 4000, 8000, 10000>>

\* Wrong: the index starts again at the end of the table; the delay goes on
\* doubling.
DelayOf_wraps(i) == BACKOFF_DELAYS_MS[(i % 5) + 1]
DelayOf_uncapped(i) == 1000 * 2 ^ i

DelayOf(i) == BACKOFF_DELAYS_MS[IF i > 4 THEN 5 ELSE i + 1]

\* scheduleReconnect() with backoffIndex i.
ScheduleReconnect(i) ==
  /\ timer' = DelayOf(i)
  /\ backoffIndex' = IF i > 4 THEN i ELSE i + 1
  /\ lastDelay' = DelayOf(i)

\* openSocket() for endpoint e, with backoffIndex i, the sockets being in the
\* states st and no timer running.
OpenSocket(e, i, st, last) ==
  /\ status' = "connecting"
  /\ IF e \in BadEndpoints
     THEN /\ ScheduleReconnect(i)
          /\ sock' = st /\ socket' = None
          /\ UNCHANGED to
     ELSE /\ \E s \in Sockets :
               /\ st[s] = "free"
               /\ sock' = [st EXCEPT ![s] = "connecting"]
               /\ to' = [to EXCEPT ![s] = e]
               /\ socket' = s
          /\ timer' = None /\ backoffIndex' = i /\ lastDelay' = last

\* Wrong: the socket is forgotten but not closed.
Abandoned_leak == sock

\* The states of the sockets after the current one, if any, was close()d.
Abandoned == [s \in Sockets |-> IF s = socket THEN "closing" ELSE sock[s]]

-------------------------------------------------------------------------------
(* Calls of main.js.                                                       *)

\* connect(), at the end of boot() or after a close().
Connect ==
  /\ stopped
  /\ stopped' = FALSE
  /\ OpenSocket(endpoint, 0, sock, 0)
  /\ UNCHANGED <<endpoint, parseErrors, shown, up>>

\* Wrong: the timer keeps running.
Close_keepTimer ==
  /\ ~stopped
  /\ stopped' = TRUE
  /\ socket' = None
  /\ sock' = Abandoned
  /\ UNCHANGED <<timer, endpoint, backoffIndex, parseErrors, status, shown, to, up, lastDelay>>

Close ==
  /\ ~stopped
  /\ stopped' = TRUE
  /\ timer' = None
  /\ socket' = None
  /\ sock' = Abandoned
  /\ UNCHANGED <<endpoint, backoffIndex, parseErrors, status, shown, to, up, lastDelay>>

\* setEndpoint(), when the user changes the endpoint or asks to reconnect; it
\* connects after a close() too.
SetEndpoint(e) ==
  /\ stopped' = FALSE
  /\ endpoint' = e
  /\ OpenSocket(e, 0, Abandoned, 0)
  /\ UNCHANGED <<parseErrors, shown, up>>

-------------------------------------------------------------------------------
(* Event handlers.                                                         *)

\* The reconnect timer fires.
TimerFires ==
  /\ timer # None
  /\ IF stopped
     THEN timer' = None /\ UNCHANGED <<socket, backoffIndex, status, sock, to, lastDelay>>
     ELSE OpenSocket(endpoint, backoffIndex, sock, lastDelay)
  /\ UNCHANGED <<endpoint, stopped, parseErrors, shown, up>>

\* Wrong: a socket that was given up is believed.
Current_any(s) == TRUE

\* The test every handler begins with.
Current(s) == socket = s

OnOpen(s) ==
  /\ sock[s] = "connecting" \/ sock[s] = "closing"
  /\ sock[s] = "connecting" => to[s] \in up
  /\ sock' = IF sock[s] = "connecting" THEN [sock EXCEPT ![s] = "open"] ELSE sock
  /\ IF Current(s)
     THEN backoffIndex' = 0 /\ status' = "open" /\ lastDelay' = 0
     ELSE UNCHANGED <<backoffIndex, status, lastDelay>>
  /\ UNCHANGED <<endpoint, socket, timer, stopped, parseErrors, shown, to, up>>

\* A hello changes nothing, a frame that does not parse is counted.
OnMessage(s, kind) ==
  /\ sock[s] = "open" \/ sock[s] = "closing"
  /\ shown' = IF Current(s) /\ kind = "state" THEN to[s] ELSE shown
  /\ parseErrors' = IF Current(s) /\ kind = "bad" /\ parseErrors < MaxErrors
                    THEN parseErrors + 1 ELSE parseErrors
  /\ UNCHANGED <<endpoint, socket, timer, backoffIndex, stopped, status, sock, to, up, lastDelay>>

\* Wrong: no reconnection is scheduled once data has been shown.
OnClose_giveUp(s) ==
  /\ sock[s] \in {"refused", "lost", "closing"}
  /\ sock' = [sock EXCEPT ![s] = "free"]
  /\ IF Current(s)
     THEN /\ socket' = None /\ status' = "closed"
          /\ IF stopped \/ shown # None THEN UNCHANGED <<timer, backoffIndex, lastDelay>>
                                        ELSE ScheduleReconnect(backoffIndex)
     ELSE UNCHANGED <<socket, status, timer, backoffIndex, lastDelay>>
  /\ UNCHANGED <<endpoint, stopped, parseErrors, shown, to, up>>

OnClose(s) ==
  /\ sock[s] \in {"refused", "lost", "closing"}
  /\ sock' = [sock EXCEPT ![s] = "free"]
  /\ IF Current(s)
     THEN /\ socket' = None /\ status' = "closed"
          /\ IF stopped THEN UNCHANGED <<timer, backoffIndex, lastDelay>>
                        ELSE ScheduleReconnect(backoffIndex)
     ELSE UNCHANGED <<socket, status, timer, backoffIndex, lastDelay>>
  /\ UNCHANGED <<endpoint, stopped, parseErrors, shown, to, up>>

-------------------------------------------------------------------------------
(* The network.                                                            *)

\* A connection attempt or an open connection fails; its close event is queued.
Drop(s) ==
  /\ sock[s] \in {"connecting", "open"}
  /\ to[s] \notin up
  /\ sock' = [sock EXCEPT ![s] = IF @ = "open" THEN "lost" ELSE "refused"]
  /\ UNCHANGED <<jsVars, to, up, lastDelay>>

\* A server comes up or goes down.
Change(e) ==
  /\ e \notin BadEndpoints
  /\ up' = IF e \in up THEN up \ {e} ELSE up \cup {e}
  /\ UNCHANGED <<jsVars, sock, to, lastDelay>>

-------------------------------------------------------------------------------
UserActs == Connect \/ Close \/ \E e \in Endpoints : SetEndpoint(e)

Kinds == {"hello", "state", "bad"}

ConnectionNext ==
  \/ UserActs
  \/ \E e \in Endpoints : Change(e)
  \/ TimerFires
  \/ \E s \in Sockets : OnOpen(s) \/ OnClose(s) \/ Drop(s)
  \/ \E s \in Sockets, kind \in Kinds : OnMessage(s, kind)

ConnectionSpec == ConnectionInit /\ [][ConnectionNext]_connectionVars

\* The event loop fires due timers and delivers the events of every socket; an
\* attempt is answered or fails.
ConnectionFairSpec ==
  /\ ConnectionSpec
  /\ WF_connectionVars(TimerFires)
  /\ \A s \in Sockets : WF_connectionVars(OnOpen(s)) /\ WF_connectionVars(OnClose(s)) /\ WF_connectionVars(Drop(s))

-------------------------------------------------------------------------------
(* Properties.                                                             *)

ConnectionTypeOK ==
  /\ endpoint \in Endpoints
  /\ socket \in Sockets \cup {None}
  /\ timer \in {1000, 2000, 4000, 8000, 10000} \cup {None}
  /\ backoffIndex \in 0 .. 5
  /\ stopped \in BOOLEAN
  /\ parseErrors \in 0 .. MaxErrors
  /\ status \in {"none", "connecting", "open", "closed"}
  /\ shown \in Endpoints \cup {None}
  /\ sock \in [Sockets -> {"free", "connecting", "open", "refused", "lost", "closing"}]
  /\ to \in [Sockets -> Endpoints]
  /\ up \subseteq Endpoints \ BadEndpoints
  /\ lastDelay \in {0, 1000, 2000, 4000, 8000, 10000}

\* A connection that is not closed waits for exactly one thing, the events of
\* its socket or its timer, so it neither gets stuck nor races itself; a closed
\* one waits for nothing.
OneThingPending ==
  IF stopped THEN socket = None /\ timer = None
             ELSE (socket = None) # (timer = None)

\* No socket is leaked: all but the current one are closed or being closed, and
\* the current one goes to the current endpoint, however reconnections, late
\* events and changes of the endpoint interleave (net.js:301-320).
OneLiveSocket ==
  /\ \A s \in Sockets : sock[s] \in {"connecting", "open", "refused", "lost"} <=> s = socket
  /\ socket # None => to[socket] = endpoint

\* The status shown to the user is "open" exactly while the current socket has
\* opened and its close event has not been handled.
StatusTruthful ==
  ~stopped =>
    (status = "open" <=> socket # None /\ sock[socket] \in {"open", "lost"})

\* State is only ever shown from the endpoint that is set at that time: frames
\* of a server the user has left are dropped.
ShownIsCurrent == [][shown' # shown => shown' = endpoint]_shown

\* docs/PROTOCOL_WS.md:99, "1 s doubling to 10 s max", counted from the last
\* success or action of the user.
BackoffDoubles ==
  [][timer' # timer /\ timer' # None =>
       \/ timer' = 1000 /\ (lastDelay = 0 \/ UserActs)
       \/ timer' = (IF lastDelay > 5000 THEN 10000 ELSE 2 * lastDelay)]_timer

\* A connection the user leaves alone, with a server that stays up, is open in
\* the end, whatever happened before.
LeftAlone(e) ==
  /\ <>[][~UserActs]_connectionVars
  /\ <>[](~stopped /\ endpoint = e /\ e \in up)

Reconnects == \A e \in Endpoints : LeftAlone(e) => <>[](status = "open")

===============================================================================
