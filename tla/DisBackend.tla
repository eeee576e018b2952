------------------------------ MODULE DisBackend ------------------------------
(***************************************************************************)
(* olv_backend in DIS mode: a sender of Entity State PDUs, a network that  *)
(* loses, duplicates, delays and corrupts them, the input thread of        *)
(* src/dis_input_source.cpp and the broadcast tick of Backend.             *)
(*                                                                         *)
(* PDU n is the n-th sent; location and velocity in it are named by n.     *)
(* Its timestamp is the time of the hour: the sender's clock wraps, and a  *)
(* restarted sender starts it at zero again.                               *)
(***************************************************************************)
EXTENDS Backend

CONSTANTS
  Entities,     \* 48-bit EntityIDs
  Sat,          \* the configured satellite_entity_id
  Fold(_),      \* foldEntityId(): Entities -> Ids, not injective
  TsHalf,       \* 2^30: half of the 31-bit timestamp range
  Frame(_),     \* the entities present at a time of the run, in sending order
  Lag,          \* how many newer PDUs may overtake one in the network
  Faults,       \* combinations of defects a datagram may have
  MaxSent,      \* bound on PDUs sent
  MaxReceived   \* bound on datagrams received

Defects == {"short", "version", "exercise", "type", "body"}

ASSUME DisAssumption ==
  /\ Sat \in Entities
  /\ None \notin Entities
  /\ \A e \in Entities : Fold(e) \in Ids
  /\ TsHalf \in Nat \ {0}
  /\ Half > 1
  /\ \A t \in 0 .. MaxSent : Frame(t) \in Seq(Entities) /\ Frame(t) # << >>
  /\ Lag \in Nat
  /\ Faults \subseteq SUBSET Defects
  /\ MaxSent \in Nat
  /\ MaxReceived \in Nat

VARIABLES
  time,        \* the sender's clock, in ticks of its run
  run,         \* runs of the sender so far
  wire,        \* the PDUs sent: [e, run, time]
  lastTs,      \* last_ts_: None where the map has no entry
  seq,         \* seq_
  sat,         \* sat_: [seq, val], val = 0 while it is zeroed
  objectFold,  \* object_fold_: None where the map has no entry
  taken        \* history: of each entity the last PDU accepted, 0 for none

senderVars == <<time, run, wire>>
dataVars == <<lastTs, seq, sat, objectFold>>
vars == <<backendVars, senderVars, dataVars, taken>>

TsMod == 2 * TsHalf

TsOf(n) == wire[n].time % TsMod

Init ==
  /\ BackendInit
  /\ time = 0 /\ run = 0 /\ wire = << >>
  /\ lastTs = [e \in Entities |-> None]
  /\ seq = 0
  /\ sat = [seq |-> 0, val |-> 0]
  /\ objectFold = [id \in Ids |-> None]
  /\ taken = [e \in Entities |-> 0]

-------------------------------------------------------------------------------
(* The sender.                                                             *)

\* buildDisPdus(): one PDU per entity, all with the frame's timestamp.
SendFrame ==
  /\ Len(wire) + Len(Frame(time)) <= MaxSent
  /\ wire' = wire \o [i \in 1 .. Len(Frame(time)) |->
                       [e |-> Frame(time)[i], run |-> run, time |-> time]]
  /\ time' = time + 1
  /\ UNCHANGED <<run, backendVars, dataVars, taken>>

\* The sender is started again.
Restart ==
  /\ time # 0
  /\ time' = 0
  /\ run' = run + 1
  /\ UNCHANGED <<wire, backendVars, dataVars, taken>>

-------------------------------------------------------------------------------
(* The input thread.                                                       *)

\* A datagram arrives with the defects f; countReceived().
Receive(n, f) ==
  /\ stats.received < MaxReceived
  /\ n > Len(wire) - Lag
  /\ BeginDatagram([n |-> n, defects |-> f])
  /\ UNCHANGED <<senderVars, dataVars, taken>>

\* The checks in the order of the code: the header, the filters, the body.
HeaderBad(f) == "short" \in f \/ "version" \in f
Unwanted(f) == ~HeaderBad(f) /\ ("exercise" \in f \/ "type" \in f)
BodyBad(f) == ~HeaderBad(f) /\ ~Unwanted(f) /\ "body" \in f

DropMalformed ==
  /\ pc = "decode" /\ (HeaderBad(rx.defects) \/ BodyBad(rx.defects))
  /\ DropDatagram("malformed")
  /\ UNCHANGED <<senderVars, dataVars, taken>>

\* Another exercise or another kind of PDU: received, and nothing else.
Ignore ==
  /\ pc = "decode" /\ Unwanted(rx.defects)
  /\ pc' = "receive"
  /\ rx' = None
  /\ UNCHANGED <<storeVars, stamp, clockVars, tickVars, historyVars,
                 senderVars, dataVars, taken>>

\* Wrong: no exception for the wraparound; a wraparound after a quarter hour.
IsStale_noWrap(e, ts) == lastTs[e] # None /\ ts # 0 /\ ts < lastTs[e]
IsStale_quarter(e, ts) ==
  lastTs[e] # None /\ ts # 0 /\ ts < lastTs[e] /\ lastTs[e] - ts < TsHalf \div 2

\* isStale(): known entity, nonzero timestamp, behind by less than half an hour.
IsStale(e, ts) ==
  lastTs[e] # None /\ ts # 0 /\ ts < lastTs[e] /\ lastTs[e] - ts < TsHalf

Intact == pc = "decode" /\ rx.defects = {}

DropStale ==
  /\ Intact /\ IsStale(wire[rx.n].e, TsOf(rx.n))
  /\ DropDatagram("stale")
  /\ UNCHANGED <<senderVars, dataVars, taken>>

\* Wrong: the owner of a folded id is the first entity that claimed it.
Owner_first(e) == IF objectFold[Fold(e)] = None THEN e ELSE objectFold[Fold(e)]

\* The entity object_fold_ names for the folded id of e from now on.
Owner(e) == e

\* Wrong: the number stays at its greatest value instead of wrapping around.
NextSeq_saturates(e) == IF seq = SeqMod - 1 THEN seq ELSE seq + 1

NextSeq(e) == (seq + 1) % SeqMod

\* An accepted PDU: its timestamp is recorded, it gets a sequence number, and it
\* updates the satellite held or claims its folded id.  The clock arguments of
\* apply() are evaluated.
Decoded ==
  /\ Intact /\ ~IsStale(wire[rx.n].e, TsOf(rx.n))
  /\ ReadClock
  /\ LET e == wire[rx.n].e
     IN  /\ lastTs' = [lastTs EXCEPT ![e] = TsOf(rx.n)]
         /\ seq' = NextSeq(e)
         /\ taken' = [taken EXCEPT ![e] = rx.n]
         /\ IF e = Sat
            THEN /\ sat' = [seq |-> NextSeq(e), val |-> rx.n]
                 /\ UNCHANGED objectFold
            ELSE /\ objectFold' = [objectFold EXCEPT ![Fold(e)] = Owner(e)]
                 /\ UNCHANGED sat
  /\ UNCHANGED senderVars

\* Wrong: only the PDUs of the satellite carry it.
PacketOf_noCarry(n) ==
  [seq  |-> seq,
   sat  |-> IF wire[n].e = Sat THEN sat.val ELSE 0,
   rows |-> [id \in {Fold(e) : e \in {wire[n].e} \ {Sat}} |-> n]]

\* The packet built: the satellite held is carried into every one, and the
\* PDU of an object is its only row.
PacketOf(n) ==
  [seq  |-> seq,
   sat  |-> sat.val,
   rows |-> [id \in {Fold(e) : e \in {wire[n].e} \ {Sat}} |-> n]]

\* StateStore::apply().
ApplyPdu ==
  /\ pc = "apply"
  /\ Apply(PacketOf(rx.n), stamp, stamp)
  /\ IF StaleSeq(seq) THEN UNCHANGED historyVars ELSE RecordAccept(PacketOf(rx.n).rows)
  /\ pc' = "receive"
  /\ rx' = None
  /\ UNCHANGED <<stamp, clockVars, tickVars, senderVars, dataVars, taken>>

Handle == DropMalformed \/ Ignore \/ DropStale \/ Decoded \/ ApplyPdu

\* The io_context thread, and time.
Tick == (BeginTick \/ TakeSnapshot) /\ UNCHANGED <<senderVars, dataVars, taken>>
TimePasses == Advance /\ UNCHANGED <<senderVars, dataVars, taken>>

Next ==
  \/ SendFrame
  \/ Restart
  \/ \E n \in 1 .. Len(wire), f \in Faults : Receive(n, f)
  \/ Handle
  \/ Tick
  \/ TimePasses

Spec == Init /\ [][Next]_vars

-------------------------------------------------------------------------------
(* Properties.                                                             *)

\* The store's own sequence check never drops a PDU (docs/PROTOCOL_DIS.md:136-138):
\* each number given is the next, also from the greatest back to 0.
NeverStaleInStore == pc = "apply" => ~StaleSeq(seq)

\* A PDU is dropped as stale only when a newer one of its entity overtook it,
\* the sender was restarted, or the entity had been silent for over half an
\* hour; one with a zero timestamp never is.
StaleJustified ==
  [][stats'.stale # stats.stale =>
       LET n == rx.n
           last == taken[wire[n].e]
       IN  /\ TsOf(n) # 0
           /\ \/ n < last
              \/ wire[n].run # wire[last].run
              \/ wire[n].time - wire[last].time > TsHalf]_stats

\* A PDU older than the last one accepted for its entity is accepted only with
\* a zero timestamp, from the same frame, from another hour or run of the
\* sender, or half an hour late: within the hour an entity never jumps back
\* (dis_input_source.cpp:135-157).
OrderWithinHour ==
  [][\A e \in Entities :
       LET n == taken'[e]
           last == taken[e]
       IN  n < last =>
             \/ TsOf(n) = 0
             \/ wire[n].run # wire[last].run
             \/ wire[n].time = wire[last].time
             \/ wire[n].time \div TsMod # wire[last].time \div TsMod
             \/ wire[last].time - wire[n].time >= TsHalf]_taken

\* Every accepted PDU republishes the satellite, and it is always the last one
\* accepted from the satellite entity, zeroed before the first
\* (dis_input_source.cpp:269-279).
SatelliteCarried ==
  pc # "apply" /\ satellite # None => satellite.val = taken[Sat]

\* object_fold_ names the entity whose PDU the row of a folded id shows, also
\* when several entities fold to that id (dis_input_source.cpp:240-251).
FoldNamesOwner ==
  \A id \in DOMAIN objects : pc # "apply" => wire[objects[id].val].e = objectFold[id]

-------------------------------------------------------------------------------
(* The strengthening these properties rest on.                             *)

Pdu == [e : Entities, run : Nat, time : Nat]

TypeOK ==
  /\ stats \in [received : Nat, accepted : Nat, malformed : Nat, stale : Nat]
  /\ haveSeq \in BOOLEAN /\ lastSeq \in WireSeq
  /\ satellite = None \/ satellite \in [seq : WireSeq, val : Nat]
  /\ satelliteT = None /\ pendingTrail = << >>
  /\ lastData = None \/ lastData \in Nat
  /\ DOMAIN objects \subseteq Ids
  /\ \A id \in DOMAIN objects : objects[id] \in [val : 1 .. Len(wire), at : Nat]
  /\ acceptTimes \in Seq(Nat) /\ acceptLog \in Seq(Nat)
  /\ now \in Nat /\ timerAt \in Nat /\ tickMono \in Nat /\ stamp \in Nat
  /\ tickPc \in {"wait", "snap"}
  /\ pc \in {"receive", "decode", "apply"}
  /\ IF pc = "receive" THEN rx = None
     ELSE rx \in [n : 1 .. Len(wire), defects : SUBSET Defects]
  /\ touched \in [Ids -> Nat \cup {None}]
  /\ wire \in Seq(Pdu) /\ Len(wire) <= MaxSent
  /\ run \in Nat /\ time \in 0 .. Len(wire)
  /\ lastTs \in [Entities -> Nat \cup {None}]
  /\ seq \in WireSeq
  /\ sat \in [seq : WireSeq, val : Nat]
  /\ objectFold \in [Ids -> Entities \cup {None}]
  /\ taken \in [Entities -> 0 .. Len(wire)]

\* PDUs are sent by ascending run and time, all of them before the sender's clock.
Before(i, r, t) == wire[i].run < r \/ (wire[i].run = r /\ wire[i].time <= t)

WireOrdered ==
  /\ \A i, j \in 1 .. Len(wire) : i <= j => Before(i, wire[j].run, wire[j].time)
  /\ \A i \in 1 .. Len(wire) : Before(i, run, time)

\* last_ts_ holds the timestamp of the last PDU accepted from each entity.
Known ==
  \A e \in Entities :
    IF taken[e] = 0 THEN lastTs[e] = None
                    ELSE wire[taken[e]].e = e /\ lastTs[e] = TsOf(taken[e])

\* The number given to a packet is the next one after the store's last.
Numbered == seq = IF pc = "apply" THEN (lastSeq + 1) % SeqMod ELSE lastSeq

Carried ==
  /\ sat.val = taken[Sat]
  /\ pc # "apply" /\ satellite # None => satellite.val = sat.val

\* A claim made for the PDU in hand is not yet in the store.
Claims(id) == pc = "apply" /\ wire[rx.n].e # Sat /\ id = Fold(wire[rx.n].e)

Claimed ==
  \A id \in Ids :
    /\ id \in DOMAIN objects /\ ~Claims(id) => wire[objects[id].val].e = objectFold[id]
    /\ Claims(id) => objectFold[id] = wire[rx.n].e

DataInv == WireOrdered /\ Known /\ Numbered /\ Carried /\ Claimed

===============================================================================
