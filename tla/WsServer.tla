------------------------------- MODULE WsServer -------------------------------
(***************************************************************************)
(* The WebSocket broadcaster (src/ws_server.cpp), on the one thread that   *)
(* runs the io_context.  A handler is one action.  An asynchronous         *)
(* operation is started by a handler, completes in the transport with a    *)
(* result, and only later has its completion handler run; between the two  *)
(* any other handler may run, and a result that is already queued is not   *)
(* changed by closing the socket.                                          *)
(*                                                                         *)
(* A frame is its number: state frame k is the one broadcast with          *)
(* broadcastSeq k, Hello is the hello message of a connection.             *)
(***************************************************************************)
EXTENDS Integers, Sequences, FiniteSets

CONSTANTS
  Clients,    \* connections; each is accepted at most once
  MaxQueued,  \* kMaxQueuedFrames
  MaxTicks    \* bound on broadcasts

ASSUME WsAssumption ==
  /\ MaxQueued \in Nat /\ MaxQueued >= 2
  /\ MaxTicks \in Nat

VARIABLES
  running,       \* ioc.run() has not been stopped
  sessions,      \* sessions_
  broadcastSeq,  \* broadcast_seq_
  phase,         \* of each connection: "none", "handshake", "open", "failed"
  closed,        \* Session::closed_
  outbox,        \* Session::outbox_
  writing,       \* Session::writing_
  warned,        \* Session::overflow_warned_
  inflight,      \* buffers passed to async_write and not yet handled
  writeOp,       \* "none", "pending", or the result waiting for onWrite
  readOp,        \* the same for async_read
  gone,          \* the peers that have left
  handed,        \* history: frames written to the transport
  joined         \* history: broadcastSeq when the session was registered

serverVars == <<running, sessions, broadcastSeq>>
queueVars == <<outbox, writing, warned>>
writeVars == <<inflight, writeOp>>
vars == <<serverVars, phase, closed, queueVars, writeVars, readOp, gone, handed, joined>>

Hello == 0

Init ==
  /\ running = TRUE
  /\ sessions = {}
  /\ broadcastSeq = 0
  /\ phase = [c \in Clients |-> "none"]
  /\ closed = [c \in Clients |-> FALSE]
  /\ outbox = [c \in Clients |-> << >>]
  /\ writing = [c \in Clients |-> FALSE]
  /\ warned = [c \in Clients |-> FALSE]
  /\ inflight = [c \in Clients |-> << >>]
  /\ writeOp = [c \in Clients |-> "none"]
  /\ readOp = [c \in Clients |-> "none"]
  /\ gone = {}
  /\ handed = [c \in Clients |-> << >>]
  /\ joined = [c \in Clients |-> 0]

-------------------------------------------------------------------------------
(* Session operations.                                                     *)

\* Wrong: the front is shed even while it is being written; one frame too many
\* is kept; the newest frame is shed instead of the oldest.
Limit_front(q, protect) ==
  IF Len(q) <= MaxQueued THEN q ELSE SubSeq(q, Len(q) - MaxQueued + 1, Len(q))
Limit_late(q, protect) ==
  IF Len(q) <= MaxQueued + 1 THEN q
  ELSE SubSeq(q, 1, 1) \o SubSeq(q, Len(q) - MaxQueued + 1, Len(q))
Limit_newest(q, protect) == IF Len(q) <= MaxQueued THEN q ELSE SubSeq(q, 1, MaxQueued)

\* enforceQueueLimit(): frames are erased behind the first `protect' ones until
\* MaxQueued are left.
Limit(q, protect) ==
  IF Len(q) <= MaxQueued THEN q
  ELSE SubSeq(q, 1, protect) \o SubSeq(q, Len(q) - MaxQueued + protect + 1, Len(q))

\* The front frame is protected while it is being written.
Protected(c) == IF writing[c] THEN 1 ELSE 0

\* One more frame makes the queue shed, which is warned of once per burst.
Overflows(c) == Len(outbox[c]) >= MaxQueued

\* send(frame) on every session of S: queue it, shed, and start a write on the
\* sessions that are not writing.
Enqueue(S, frame) ==
  LET T == {c \in S : ~closed[c]}
      idle == {c \in T : ~writing[c]}
  IN  /\ outbox' = [c \in Clients |->
                      IF c \in T THEN Limit(Append(outbox[c], frame), Protected(c)) ELSE outbox[c]]
      /\ warned' = [c \in Clients |-> warned[c] \/ (c \in T /\ Overflows(c))]
      /\ writing' = [c \in Clients |-> writing[c] \/ c \in idle]
      /\ inflight' = [c \in Clients |->
                        IF c \in idle THEN Append(inflight[c], Head(outbox'[c])) ELSE inflight[c]]
      /\ writeOp' = [c \in Clients |-> IF c \in idle THEN "pending" ELSE writeOp[c]]

\* Wrong: the session stays registered.
Fail_keep(c) ==
  /\ closed' = [closed EXCEPT ![c] = TRUE]
  /\ UNCHANGED sessions

\* fail(): close and unregister, once.
Fail(c) ==
  IF closed[c] THEN UNCHANGED <<closed, sessions>>
  ELSE /\ closed' = [closed EXCEPT ![c] = TRUE]
       /\ sessions' = sessions \ {c}

-------------------------------------------------------------------------------
(* Handlers of the io_context thread.                                      *)

\* doAccept(): the session is created and its handshake started.
Accept(c) ==
  /\ running /\ phase[c] = "none"
  /\ phase' = [phase EXCEPT ![c] = "handshake"]
  /\ UNCHANGED <<serverVars, closed, queueVars, writeVars, readOp, gone, handed, joined>>

\* onAccept(ec): a session whose handshake failed is dropped unregistered.
HandshakeFails(c) ==
  /\ running /\ phase[c] = "handshake"
  /\ phase' = [phase EXCEPT ![c] = "failed"]
  /\ UNCHANGED <<serverVars, closed, queueVars, writeVars, readOp, gone, handed, joined>>

\* onAccept(ok): register, send hello, start reading.
OnAccept(c) ==
  /\ running /\ phase[c] = "handshake"
  /\ phase' = [phase EXCEPT ![c] = "open"]
  /\ sessions' = sessions \cup {c}
  /\ Enqueue({c}, Hello)
  /\ readOp' = [readOp EXCEPT ![c] = "pending"]
  /\ joined' = [joined EXCEPT ![c] = broadcastSeq]
  /\ UNCHANGED <<running, broadcastSeq, closed, gone, handed>>

\* Wrong: the read loop goes on after an error.
OnRead_rearm(c) ==
  /\ running /\ readOp[c] \in {"ok", "err"}
  /\ IF readOp[c] = "err" THEN Fail(c) ELSE UNCHANGED <<closed, sessions>>
  /\ readOp' = [readOp EXCEPT ![c] = "pending"]
  /\ UNCHANGED <<running, broadcastSeq, phase, queueVars, writeVars, gone, handed, joined>>

\* onRead(): discard what the client sent and read on, or fail.
OnRead(c) ==
  /\ running /\ readOp[c] \in {"ok", "err"}
  /\ IF readOp[c] = "err"
     THEN Fail(c) /\ readOp' = [readOp EXCEPT ![c] = "none"]
     ELSE readOp' = [readOp EXCEPT ![c] = "pending"] /\ UNCHANGED <<closed, sessions>>
  /\ UNCHANGED <<running, broadcastSeq, phase, queueVars, writeVars, gone, handed, joined>>

\* Wrong: the chain of writes ends with each frame.
WritesOn_never(c) == FALSE

\* After a write that succeeded the next frame of the queue is written.
WritesOn(c) == writeOp[c] = "ok" /\ Len(outbox[c]) > 1

\* Wrong: every write that succeeds ends the burst.
BurstGoesOn_never(c) == FALSE

\* overflow_warned_ after a write that succeeded: a burst ends with an empty queue.
BurstGoesOn(c) == warned[c] /\ Len(outbox[c]) > 1

\* onWrite(): pop the frame that was written and write the next, or fail.
OnWrite(c) ==
  /\ running /\ writeOp[c] \in {"ok", "err"}
  /\ IF writeOp[c] = "err"
     THEN Fail(c) /\ UNCHANGED <<outbox, warned>>
     ELSE /\ outbox' = [outbox EXCEPT ![c] = Tail(@)]
          /\ warned' = [warned EXCEPT ![c] = BurstGoesOn(c)]
          /\ UNCHANGED <<closed, sessions>>
  /\ writing' = [writing EXCEPT ![c] = WritesOn(c)]
  /\ inflight' = [inflight EXCEPT ![c] =
                    Tail(@) \o (IF WritesOn(c) THEN <<outbox[c][2]>> ELSE << >>)]
  /\ writeOp' = [writeOp EXCEPT ![c] = IF WritesOn(c) THEN "pending" ELSE "none"]
  /\ UNCHANGED <<running, broadcastSeq, phase, readOp, gone, handed, joined>>

\* Wrong: the counter is incremented after the frame is numbered.
BroadcastTick_late ==
  /\ running /\ broadcastSeq < MaxTicks
  /\ broadcastSeq' = broadcastSeq + 1
  /\ Enqueue(sessions, broadcastSeq)
  /\ UNCHANGED <<running, sessions, phase, closed, readOp, gone, handed, joined>>

\* broadcastTick(): one frame for every session.
BroadcastTick ==
  /\ running /\ broadcastSeq < MaxTicks
  /\ broadcastSeq' = broadcastSeq + 1
  /\ Enqueue(sessions, broadcastSeq')
  /\ UNCHANGED <<running, sessions, phase, closed, readOp, gone, handed, joined>>

\* The signal handler of main.cpp: stop() closes every session, and then
\* ioc.stop() lets no handler run again.
Shutdown ==
  /\ running
  /\ running' = FALSE
  /\ closed' = [c \in Clients |-> closed[c] \/ c \in sessions]
  /\ sessions' = {}
  /\ UNCHANGED <<broadcastSeq, phase, queueVars, writeVars, readOp, gone, handed, joined>>

-------------------------------------------------------------------------------
(* The transport and the peers.                                            *)

\* A connected peer leaves: its FIN or RST reaches the server.
PeerLeaves(c) ==
  /\ phase[c] \in {"handshake", "open"} /\ c \notin gone
  /\ gone' = gone \cup {c}
  /\ UNCHANGED <<serverVars, phase, closed, queueVars, writeVars, readOp, handed, joined>>

\* A read completes: with a frame of the client, or because the peer left or
\* the socket was closed.
ReadCompletes(c, result) ==
  /\ readOp[c] = "pending"
  /\ IF result = "ok" THEN c \notin gone /\ ~closed[c] ELSE c \in gone \/ closed[c]
  /\ readOp' = [readOp EXCEPT ![c] = result]
  /\ UNCHANGED <<serverVars, phase, closed, queueVars, writeVars, gone, handed, joined>>

\* The frame in flight is accepted by the transport.
WriteSucceeds(c) ==
  /\ writeOp[c] = "pending" /\ ~closed[c]
  /\ writeOp' = [writeOp EXCEPT ![c] = "ok"]
  /\ handed' = [handed EXCEPT ![c] = Append(@, Head(inflight[c]))]
  /\ UNCHANGED <<serverVars, phase, closed, queueVars, inflight, readOp, gone, joined>>

WriteFails(c) ==
  /\ writeOp[c] = "pending" /\ (c \in gone \/ closed[c])
  /\ writeOp' = [writeOp EXCEPT ![c] = "err"]
  /\ UNCHANGED <<serverVars, phase, closed, queueVars, inflight, readOp, gone, handed, joined>>

Handlers(c) ==
  \/ Accept(c)
  \/ HandshakeFails(c)
  \/ OnAccept(c)
  \/ OnRead(c)
  \/ OnWrite(c)

Transport(c) ==
  \/ PeerLeaves(c)
  \/ \E result \in {"ok", "err"} : ReadCompletes(c, result)
  \/ WriteSucceeds(c)
  \/ WriteFails(c)

Next ==
  \/ \E c \in Clients : Handlers(c) \/ Transport(c)
  \/ BroadcastTick
  \/ Shutdown

Spec == Init /\ [][Next]_vars

\* run() calls every completion handler that is queued; a transport whose peer
\* is there takes every frame in the end, one whose peer left reports it.
FairSpec ==
  /\ Spec
  /\ \A c \in Clients :
       /\ WF_vars(OnRead(c))
       /\ WF_vars(OnWrite(c))
       /\ WF_vars(ReadCompletes(c, "err"))
       /\ WF_vars(WriteSucceeds(c) \/ WriteFails(c))

-------------------------------------------------------------------------------
(* Properties.                                                             *)

Increasing(s) == \A i, j \in 1 .. Len(s) : i < j => s[i] < s[j]
AtMost(s, n) == \A i \in 1 .. Len(s) : s[i] <= n

TypeOK ==
  /\ running \in BOOLEAN
  /\ sessions \subseteq Clients
  /\ broadcastSeq \in Nat
  /\ phase \in [Clients -> {"none", "handshake", "open", "failed"}]
  /\ closed \in [Clients -> BOOLEAN]
  /\ outbox \in [Clients -> Seq(Nat)] /\ \A c \in Clients : Len(outbox[c]) <= MaxQueued
  /\ writing \in [Clients -> BOOLEAN]
  /\ warned \in [Clients -> BOOLEAN]
  /\ inflight \in [Clients -> Seq(Nat)] /\ \A c \in Clients : Len(inflight[c]) <= 1
  /\ writeOp \in [Clients -> {"none", "pending", "ok", "err"}]
  /\ readOp \in [Clients -> {"none", "pending", "ok", "err"}]
  /\ gone \subseteq Clients
  /\ handed \in [Clients -> Seq(Nat)]
  /\ joined \in [Clients -> Nat]

\* At most one async_write is outstanding per session, and until its handler
\* runs the buffer it was given is the front of the outbox, closed or not: what
\* is shed meanwhile never frees it (ws_server.cpp:109-114).
InFlightPreserved ==
  \A c \in Clients :
    /\ writing[c] => outbox[c] # << >>
    /\ inflight[c] = IF writing[c] THEN <<Head(outbox[c])>> ELSE << >>

\* sessions_ holds exactly the sessions that are open, however reads and writes
\* fail, and each of them has a read outstanding to notice that the peer left
\* (ws_server.cpp:79-86, 123-132).
RegistryExact ==
  /\ running => sessions = {c \in Clients : phase[c] = "open" /\ ~closed[c]}
  /\ \A c \in sessions : readOp[c] # "none"

\* A client is handed hello first, once, and then state frames in increasing
\* order (docs/PROTOCOL_WS.md section 1).
HandedInOrder ==
  \A c \in Clients :
    /\ handed[c] # << >> => handed[c][1] = Hello
    /\ Increasing(handed[c])

\* However slow the client, behind the frame being written its queue holds
\* consecutive frames up to the newest broadcast, and a session whose queue is
\* empty was handed the newest; it never holds more than kMaxQueuedFrames
\* (ws_server.cpp:110-116 sheds the oldest).
QueueIsNewest ==
  \A c \in sessions :
    LET q == outbox[c]
        newest == IF broadcastSeq = joined[c] THEN Hello ELSE broadcastSeq
    IN  /\ Len(q) <= MaxQueued
        /\ q # << >> => q[Len(q)] = newest
        /\ q = << >> => handed[c][Len(handed[c])] = newest
        /\ \A i \in 3 .. Len(q) : q[i] = q[i - 1] + 1

\* A frame is never missing from what a session has been sent and will be sent
\* unless the overflow warning of the current burst covers it
\* (ws_server.cpp:102-103, 117-120).
LossIsWarned ==
  \A c \in sessions :
    LET waiting == IF writeOp[c] = "ok" THEN Tail(outbox[c]) ELSE outbox[c]
        line == IF handed[c] = << >> THEN waiting
                ELSE <<handed[c][Len(handed[c])]>> \o waiting
        after(k) == IF k = Hello THEN joined[c] + 1 ELSE k + 1
    IN  \A i \in 2 .. Len(line) : line[i] # after(line[i - 1]) => warned[c]

\* A closed session's operations all complete, so that it is freed.
ClosedIsFreed ==
  \A c \in Clients : closed[c] ~> ~running \/ (readOp[c] = "none" /\ inflight[c] = << >>)

\* Every client's view implements FrameFeed: frames in order, skipped at most,
\* and the newest handed over in the end while the client stays.
seenBy(c) ==
  IF handed[c] = << >> \/ handed[c][Len(handed[c])] = Hello THEN joined[c]
  ELSE handed[c][Len(handed[c])]

Feed == INSTANCE FrameFeed
        WITH latest <- broadcastSeq, seen <- [c \in Clients |-> seenBy(c)], on <- sessions

FeedsSafe == Feed!SafeSpec
FeedsLive == Feed!Spec

-------------------------------------------------------------------------------
(* The strengthening these properties rest on, one session at a time.      *)

\* Sessions are registered while they are open; nothing is started on a
\* connection before its handshake is done.
Owned(c) ==
  /\ c \in sessions => phase[c] = "open" /\ ~closed[c] /\ readOp[c] # "none"
  /\ phase[c] = "open" /\ ~closed[c] => c \in sessions
  /\ phase[c] # "open" => /\ outbox[c] = << >> /\ handed[c] = << >> /\ ~closed[c]
                          /\ writeOp[c] = "none" /\ readOp[c] = "none"

\* The write in flight is of the front; an open session with frames is writing.
Writes(c) ==
  /\ writing[c] <=> writeOp[c] # "none"
  /\ writing[c] => outbox[c] # << >>
  /\ inflight[c] = IF writing[c] THEN <<Head(outbox[c])>> ELSE << >>
  /\ c \in sessions /\ outbox[c] # << >> => writing[c]

\* What was handed over and what is queued form one increasing line that starts
\* with hello; the front is in both between its transfer and onWrite().
Ordered(c) ==
  LET q == outbox[c]
      h == handed[c]
  IN  /\ joined[c] <= broadcastSeq
      /\ AtMost(q, broadcastSeq) /\ AtMost(h, broadcastSeq)
      /\ Increasing(q) /\ Increasing(h)
      /\ IF h = << >> THEN q # << >> => q[1] = Hello ELSE h[1] = Hello
      /\ writeOp[c] = "ok" => h # << >> /\ h[Len(h)] = q[1]
      /\ (writeOp[c] # "ok" /\ h # << >> /\ q # << >>) => h[Len(h)] < q[1]
      /\ h = << >> /\ q = << >> => phase[c] # "open"

SessionInv == \A c \in Clients : Owned(c) /\ Writes(c) /\ Ordered(c)

\* The frame a session is sent next to frame k when nothing is shed.
After(c, k) == IF k = Hello THEN joined[c] + 1 ELSE k + 1
NewestFor(c) == IF broadcastSeq = joined[c] THEN Hello ELSE broadcastSeq

\* The queue ends with the newest frame and is consecutive behind its front;
\* without a warning it is consecutive throughout and continues what was handed
\* over.
Backlog(c) ==
  LET q == outbox[c]
      h == handed[c]
  IN  /\ q # << >> => q[Len(q)] = NewestFor(c)
      /\ q = << >> => h[Len(h)] = NewestFor(c)
      /\ \A i \in 3 .. Len(q) : q[i] = q[i - 1] + 1
      /\ ~warned[c] =>
           /\ \A i \in 2 .. Len(q) : q[i] = After(c, q[i - 1])
           /\ h # << >> /\ q # << >> /\ writeOp[c] # "ok" => q[1] = After(c, h[Len(h)])

\* A session is sent no state frame that is older than itself.
Later(c) == \A i \in 1 .. Len(outbox[c]) : outbox[c][i] = Hello \/ outbox[c][i] > joined[c]

BacklogInv == \A c \in Clients : Later(c) /\ (c \in sessions => Backlog(c))

===============================================================================
