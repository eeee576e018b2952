------------------------------- MODULE Backend -------------------------------
(***************************************************************************)
(* What the three input modes of olv_backend share: the StateStore, the    *)
(* io_context thread that takes one snapshot per broadcast tick            *)
(* (src/ws_server.cpp), the clock both threads read before they lock the   *)
(* store, and the frame of the input thread.  Olv1Backend, Olv2Backend and *)
(* DisBackend add what the input thread does with a datagram.              *)
(***************************************************************************)
EXTENDS StateStore

CONSTANTS
  Period,   \* the broadcast period, 1000 / broadcast_hz
  MaxNow    \* bound: the clock stands still at this horizon

ASSUME BackendAssumption ==
  /\ Period \in Nat \ {0}
  /\ MaxNow \in Nat \ {0}

VARIABLES
  now,        \* steady_clock
  timerAt,    \* expiry of WsServer::timer_
  tickPc,     \* io_context thread: "wait" or "snap"
  tickMono,   \* the clock value broadcastTick() passes to snapshot()
  published,  \* the last Snapshot broadcast, an empty one before the first
  pc,         \* input thread
  rx,         \* the datagram the input thread is handling
  stamp,      \* the clock value the input thread passes to apply()
  touched,    \* history: id |-> stamp of its last accepted update, or None
  acceptLog   \* history: the stamp of every accepted datagram

clockVars == <<now, timerAt>>
tickVars == <<tickPc, tickMono, published>>
inputVars == <<pc, rx, stamp>>
historyVars == <<touched, acceptLog>>
backendVars == <<storeVars, clockVars, tickVars, inputVars, historyVars>>

BackendInit ==
  /\ StoreInit
  /\ now = 0
  /\ timerAt = IF Period > MaxNow THEN MaxNow ELSE Period
  /\ tickPc = "wait"
  /\ tickMono = 0
  /\ published = SnapshotAt(0)
  /\ pc = "receive"
  /\ rx = None
  /\ stamp = 0
  /\ touched = [id \in Ids |-> None]
  /\ acceptLog = << >>

-------------------------------------------------------------------------------
Advance ==
  /\ now < MaxNow
  /\ now' = now + 1
  /\ UNCHANGED <<storeVars, timerAt, tickVars, inputVars, historyVars>>

\* broadcastTick() is entered and evaluates steady_clock::now().
BeginTick ==
  /\ tickPc = "wait"
  /\ now >= timerAt
  /\ tickPc' = "snap"
  /\ tickMono' = now
  /\ UNCHANGED <<storeVars, clockVars, published, inputVars, historyVars>>

\* Wrong: the timer is not armed again.
TakeSnapshot_noRearm ==
  /\ tickPc = "snap"
  /\ published' = SnapshotAt(tickMono)
  /\ Snapshot(tickMono)
  /\ tickPc' = "idle"
  /\ UNCHANGED <<clockVars, tickMono, inputVars, historyVars>>

\* snapshot() under the lock, the broadcast, and armTimer().
TakeSnapshot ==
  /\ tickPc = "snap"
  /\ published' = SnapshotAt(tickMono)
  /\ Snapshot(tickMono)
  /\ tickPc' = "wait"
  /\ timerAt' = IF now + Period > MaxNow THEN MaxNow ELSE now + Period
  /\ UNCHANGED <<now, tickMono, inputVars, historyVars>>

ServerNext == Advance \/ BeginTick \/ TakeSnapshot

-------------------------------------------------------------------------------
(* Pieces of the input thread.                                             *)

\* async_receive_from completed with d: handleDatagram() counts it first.
BeginDatagram(d) ==
  /\ pc = "receive"
  /\ rx' = d
  /\ CountReceived
  /\ pc' = "decode"
  /\ UNCHANGED <<stamp, clockVars, tickVars, historyVars>>

\* The drop path: the datagram is counted and forgotten.
DropDatagram(kind) ==
  /\ CountDropped(kind)
  /\ pc' = "receive"
  /\ rx' = None
  /\ UNCHANGED <<stamp, clockVars, tickVars, historyVars>>

\* The arguments of apply(): the clock is read before the lock is taken.
ReadClock ==
  /\ stamp' = now
  /\ pc' = "apply"
  /\ UNCHANGED <<rx, storeVars, clockVars, tickVars, historyVars>>

\* History of an accepted datagram with these rows.
RecordAccept(rows) ==
  /\ touched' = [id \in Ids |-> IF id \in DOMAIN rows THEN stamp ELSE touched[id]]
  /\ acceptLog' = Append(acceptLog, stamp)

-------------------------------------------------------------------------------
(* Properties of every mode.                                               *)

Broadcast == published' # published

\* A broadcast shows exactly the objects whose last accepted update is at most
\* Expiry older than the tick: pruning (state_store.cpp:91-98) never keeps an
\* expired object, never loses a refreshed one, whatever the order in which
\* the two threads read the clock and take the lock.
SnapshotFresh ==
  [][Broadcast => DOMAIN published'.objects =
       {id \in Ids : touched[id] # None /\ tickMono - touched[id] <= Expiry}]_published

\* The broadcast rate counts exactly the datagrams accepted in the trailing
\* window, although accept_times_ is only ever popped from its front
\* (state_store.cpp:100-103).
RateExact ==
  [][Broadcast => published'.rate =
       Cardinality({i \in DOMAIN acceptLog : tickMono - acceptLog[i] <= RateWindow})]_published

-------------------------------------------------------------------------------
(* The strengthenings the first two properties rest on.                    *)

\* An id missing from the store was last touched too long before the last
\* tick, and ticks only get later; an id in the store bears its last touch.
FreshInv ==
  /\ now \in Nat /\ tickMono \in 0 .. now /\ stamp \in 0 .. now
  /\ touched \in [Ids -> Nat \cup {None}]
  /\ \A id \in DOMAIN objects :
       id \in Ids /\ objects[id].at \in Nat /\ touched[id] = objects[id].at
  /\ \A id \in Ids \ DOMAIN objects :
       touched[id] = None \/ tickMono - touched[id] > Expiry

\* accept_times_ is the log of accepts less a prefix that is out of the window,
\* and the log is in clock order because one thread reads the clock for it.
RateInv ==
  /\ acceptLog \in Seq(Nat)
  /\ acceptTimes \in Seq(Nat)
  /\ \A i, j \in 1 .. Len(acceptLog) : i <= j => acceptLog[i] <= acceptLog[j]
  /\ \A i \in 1 .. Len(acceptLog) : acceptLog[i] <= stamp
  /\ \E k \in 0 .. Len(acceptLog) :
       /\ Len(acceptTimes) = Len(acceptLog) - k
       /\ \A i \in 1 .. Len(acceptTimes) : acceptTimes[i] = acceptLog[i + k]
       /\ \A i \in 1 .. k : tickMono - acceptLog[i] > RateWindow

===============================================================================
