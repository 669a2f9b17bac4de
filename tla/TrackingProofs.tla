--------------------------- MODULE TrackingProofs ---------------------------
(***************************************************************************)
(* Theorems about Tracking with HybridBus as the other side of its fetch,  *)
(* for any number of buses, fixes, overlapping requests, batches and       *)
(* faults.                                                                 *)
(*                                                                         *)
(* The inductive invariant TrackInv has a part for each question: which    *)
(* rows a bus has made (MadeOK), why a mark may stand (MarkMeansKept),     *)
(* what became of the mark of an observation that was once handed to the   *)
(* database (HandedOK), and that it is not handed over twice (OnceOK).     *)
(***************************************************************************)
EXTENDS Tracking, FiniteSetTheorems, TLAPS

-----------------------------------------------------------------------------
(* HybridBus                                                               *)

Maps(T) == UNION {[D -> T] : D \in SUBSET Buses}

LEMMA MapsOf ==
    ASSUME NEW T, NEW f \in Maps(T)
    PROVE  DOMAIN f \subseteq Buses /\ \A v \in DOMAIN f : v \in Buses /\ f[v] \in T
    BY DEF Maps

LEMMA IntoMaps ==
    ASSUME NEW T, NEW D \in SUBSET Buses, NEW f \in [D -> T]
    PROVE  f \in Maps(T)
    BY DEF Maps

\* A bus is shown or hidden only with a fix.
BusOK == /\ bus \in [Buses -> BusState]
         /\ snapshot \in Maps(Observation)
         /\ \A v \in Buses : bus[v].source # "waiting" => bus[v].fix # 0

LEMMA BusFields ==
    ASSUME NEW x \in BusState
    PROVE  x.fix \in 0..MaxFixes /\ x.traced \in BOOLEAN /\ x.source \in Sources
    BY DEF BusState

\* The bound leaves room for one more fix.
LEMMA RoomForFix ==
    ASSUME bus \in [Buses -> BusState], NEW v \in Buses, Cardinality(Fixes) < MaxFixes
    PROVE  bus[v].fix + 1 \in 1..MaxFixes
<1> DEFINE own == {v} \X (1..MaxFixes)
<1>1. MaxFixes \in Nat /\ IsFiniteSet(Buses)
    BY BusAssumption
<1>2. IsFiniteSet(1..MaxFixes) /\ Cardinality(1..MaxFixes) = MaxFixes
    BY <1>1, FS_Interval
<1>3. IsFiniteSet({v}) /\ Cardinality({v}) = 1
    BY FS_Singleton
<1>4. Cardinality(own) = Cardinality({v}) * Cardinality(1..MaxFixes)
    BY <1>2, <1>3, FS_Product, Zenon
<1>5. IsFiniteSet(Buses \X (1..MaxFixes))
    BY <1>1, <1>2, FS_Product
<1>6. Fixes \in SUBSET (Buses \X (1..MaxFixes))
    BY DEF Fixes
<1>7. IsFiniteSet(Fixes) /\ Cardinality(Fixes) \in Nat
    BY <1>5, <1>6, FS_Subset, FS_CardinalityType
<1>8. bus[v].fix \in 0..MaxFixes
    BY BusFields
<1>9. CASE bus[v].fix = MaxFixes
    <2>1. ASSUME NEW e \in own PROVE e \in Fixes
        <3>1. PICK n \in 1..MaxFixes : e = <<v, n>>
            BY <2>1
        <3>2. n <= bus[v].fix
            BY <1>1, <1>9
        <3> QED
            BY <3>1, <3>2 DEF Fixes
    <2>2. own \in SUBSET Fixes
        BY <2>1
    <2>3. Cardinality(own) <= Cardinality(Fixes)
        BY <1>7, <2>2, FS_Subset
    <2> QED
        BY <1>1, <1>2, <1>3, <1>4, <1>7, <2>3
<1> QED
    BY <1>1, <1>8, <1>9

LEMMA BusStart == BusInit => BusOK
<1> SUFFICES ASSUME BusInit PROVE BusOK
    OBVIOUS
<1>1. 0 \in 0..MaxFixes
    BY BusAssumption
<1>2. \A v \in Buses : bus[v] \in BusState /\ bus[v].source = "waiting"
    BY <1>1 DEF BusInit, Waiting, BusState, Sources
<1>3. bus \in [Buses -> BusState]
    BY <1>2 DEF BusInit, Waiting
<1>4. snapshot \in [{} -> Observation]
    BY DEF BusInit, Empty
<1> QED
    BY <1>2, <1>3, <1>4, IntoMaps DEF BusOK

LEMMA BusKeeps == BusOK /\ BusNext => BusOK'
<1> SUFFICES ASSUME BusOK, BusNext PROVE BusOK'
    OBVIOUS
<1> USE DEF BusOK
<1>1. ASSUME NEW v \in Buses, AcceptPayload(v) PROVE BusOK'
    <2>1. PICK near \in BOOLEAN :
            bus' = [bus EXCEPT ![v] =
                [fix |-> @.fix + 1, traced |-> near,
                 source |-> IF @.source \in {"interpolated", "reconciling"}
                            THEN "reconciling" ELSE "live"]]
        BY <1>1 DEF AcceptPayload
    <2>2. bus[v].fix + 1 \in 1..MaxFixes
        BY <1>1, RoomForFix DEF AcceptPayload
    <2> DEFINE x == [fix |-> bus[v].fix + 1, traced |-> near,
                     source |-> IF bus[v].source \in {"interpolated", "reconciling"}
                                THEN "reconciling" ELSE "live"]
    <2>3. x \in BusState /\ x.fix # 0
        BY <2>2 DEF BusState, Sources
    <2>4. bus' = [bus EXCEPT ![v] = x]
        BY <2>1
    <2> HIDE DEF x
    <2>5. snapshot' = snapshot
        BY <1>1 DEF AcceptPayload
    <2> QED
        BY <2>3, <2>4, <2>5
<1>2. CASE Emit
    <2>1. PICK due \in SUBSET Buses :
             LET moved(v) == NextSource(bus[v], v \in due)
                 shown    == {v \in Buses : moved(v) \notin {"waiting", "hidden"}}
             IN /\ bus' = [v \in Buses |-> [bus[v] EXCEPT !.source = moved(v)]]
                /\ snapshot' = [v \in shown |->
                      [at    |-> bus[v].fix,
                       exact |-> ShownExactly(bus[v], v \in due),
                       label |-> Label(moved(v))]]
        BY <1>2 DEF Emit
    <2> DEFINE moved(v) == NextSource(bus[v], v \in due)
               shown == {v \in Buses : moved(v) \notin {"waiting", "hidden"}}
    <2>2. ASSUME NEW v \in Buses
          PROVE  /\ moved(v) \in Sources /\ (moved(v) # "waiting" => bus[v].source # "waiting")
                 /\ Label(moved(v)) \in Labels
        BY BusFields DEF NextSource, Sources, Label, Labels
    <2>3. ASSUME NEW v \in Buses PROVE ShownExactly(bus[v], v \in due) \in BOOLEAN
        BY DEF ShownExactly
    <2> HIDE DEF moved
    <2>4. bus' = [v \in Buses |-> [bus[v] EXCEPT !.source = moved(v)]]
        BY <2>1 DEF moved
    <2>5. ASSUME NEW v \in Buses
          PROVE  /\ bus'[v] \in BusState
                 /\ bus'[v].source # "waiting" => bus'[v].fix # 0
        <3>1. bus[v] \in BusState
            OBVIOUS
        <3>2. bus'[v] = [bus[v] EXCEPT !.source = moved(v)]
            BY <2>4
        <3> QED
            BY <2>2, <3>1, <3>2 DEF BusState
    <2>6. snapshot' = [v \in shown |-> [at    |-> bus[v].fix,
                                        exact |-> ShownExactly(bus[v], v \in due),
                                        label |-> Label(moved(v))]]
        BY <2>1 DEF moved
    <2>7. ASSUME NEW v \in shown
          PROVE  [at |-> bus[v].fix, exact |-> ShownExactly(bus[v], v \in due),
                  label |-> Label(moved(v))] \in Observation
        <3>1. bus[v].source # "waiting"
            BY <2>2, <2>7
        <3>2. bus[v].fix \in 0..MaxFixes /\ bus[v].fix # 0
            BY <3>1, BusFields
        <3>3. bus[v].fix \in 1..MaxFixes
            BY <3>2, BusAssumption
        <3> QED
            BY <2>2, <2>3, <3>3 DEF Observation
    <2>8. snapshot' \in [shown -> Observation]
        BY <2>6, <2>7
    <2>9. snapshot' \in Maps(Observation)
        BY <2>8, IntoMaps
    <2>10. bus' \in [Buses -> BusState]
        BY <2>4, <2>5
    <2> QED
        BY <2>5, <2>9, <2>10
<1> QED
    BY <1>1, <1>2 DEF BusNext

-----------------------------------------------------------------------------
(* The inductive invariant                                                 *)

Request == [pc : {"idle", "upsert"},
            obs : Maps(Observation), id : Maps(Ids \cup {Unknown, Absent})]

Batch == [pending : SUBSET Position, left : SUBSET Position, rejected : BOOLEAN]

\* TypeOK, with what it leaves open of requests, batches and buses.
Types ==
    /\ BusOK
    /\ vehicle \subseteq Row
    /\ made \in [Buses -> Nat]
    /\ IsABag(position) /\ DOMAIN position \subseteq Position
    /\ lastPersisted \in [Buses -> 0..MaxFixes]
    /\ req \in [Requests -> Request]
    /\ \A r \in Requests : DOMAIN req[r].id = DOMAIN req[r].obs
    /\ stray \subseteq Buses
    /\ batch \in [1..MaxBatches -> Batch]
    /\ \A s \in 1..MaxBatches : batch[s].left \subseteq batch[s].pending
    /\ life \in {"up", "stopped"} /\ faults \in 0..MaxFaults
    /\ excused \subseteq Buses \X (1..MaxFixes)

\* A row stands in the way of the next one of its bus, until it is deleted.
HasRow(v) == \E o \in vehicle : o.code = v
MadeOK == \A v \in Buses : /\ made[v] <= faults + 1
                           /\ ~HasRow(v) => made[v] <= faults

\* The observation of bus v at time n is being stored by insertion row of batch s.
Going(s, row, v, n) == row \in batch[s].left /\ row.bus = v /\ row.at = n

InFlight(v, n) == \E s \in 1..MaxBatches : \E row \in Position : Going(s, row, v, n)

\* The mark of an observation that is stored, or going to be, was taken away with
\* a cause, or stands, or a newer one does or did.
HandedOK ==
    \A v \in Buses, n \in 1..MaxFixes : Stored(v, n) \/ InFlight(v, n) =>
        \E m \in n..MaxFixes : lastPersisted[v] = m \/ <<v, m>> \in excused

\* An observation that is stored, or being stored, elsewhere is excused.
OnceOK ==
    \A v \in Buses, n \in 1..MaxFixes :
        \A s \in 1..MaxBatches, row \in Position : Going(s, row, v, n) =>
            /\ Stored(v, n) => <<v, n>> \in excused
            /\ \A t \in 1..MaxBatches, other \in Position :
                  Going(t, other, v, n) /\ <<t, other>> # <<s, row>> => <<v, n>> \in excused

TrackInv == /\ Types /\ MadeOK /\ MarkMeansKept /\ HandedOK /\ OnceOK
            /\ DuplicateHasCause

-----------------------------------------------------------------------------
(* Types                                                                   *)

NodeIds == Ids \cup {Unknown, Absent}

LEMMA RequestFields ==
    ASSUME NEW x \in Request
    PROVE  /\ x.pc \in {"idle", "upsert"}
           /\ DOMAIN x.obs \subseteq Buses
           /\ \A v \in DOMAIN x.obs : v \in Buses /\ x.obs[v] \in Observation
           /\ \A v \in DOMAIN x.id : v \in Buses /\ x.id[v] \in NodeIds
<1>1. x.pc \in {"idle", "upsert"} /\ x.obs \in Maps(Observation) /\ x.id \in Maps(NodeIds)
    BY DEF Request, NodeIds
<1> QED
    BY <1>1, MapsOf

LEMMA BatchFields ==
    ASSUME NEW x \in Batch
    PROVE  x.pending \subseteq Position /\ x.left \subseteq Position /\ x.rejected \in BOOLEAN
    BY DEF Batch

LEMMA ObservationFields ==
    ASSUME NEW o \in Observation
    PROVE  o.at \in 1..MaxFixes /\ o.exact \in BOOLEAN /\ o.label \in Labels
    BY DEF Observation

LEMMA PositionFields ==
    ASSUME NEW p \in Position
    PROVE  p.bus \in Buses /\ p.vid \in Ids /\ p.at \in 1..MaxFixes
    BY DEF Position

LEMMA RowFields ==
    ASSUME NEW o \in Row
    PROVE  /\ o.id \in Ids /\ o.code \in Buses \cup {Own}
           /\ o.src \in {"BIMS", "CUSTOM"} /\ o.ext \in Buses \cup {None}
    BY DEF Row

LEMMA IdleRequest == Idle \in Request /\ DOMAIN Idle.id = DOMAIN Idle.obs
<1>1. Empty \in [{} -> Observation] /\ Empty \in [{} -> NodeIds]
    BY DEF Empty
<1>2. Empty \in Maps(Observation) /\ Empty \in Maps(NodeIds)
    BY <1>1, IntoMaps
<1> QED
    BY <1>2 DEF Idle, Request, NodeIds

LEMMA NoBatchType == NoBatch \in Batch /\ NoBatch.left \subseteq NoBatch.pending
    BY DEF NoBatch, Batch

LEMMA MarkType == 0 \in 0..MaxFixes
    BY BusAssumption

\* What the properties of the stored observations are about.
record == <<position, lastPersisted, batch, excused>>

LEMMA TrackingStart == Init => TrackInv
<1> SUFFICES ASSUME Init PROVE TrackInv
    OBVIOUS
<1>1. BusOK
    BY BusStart DEF Init
<1>2. IsABag(position) /\ BagToSet(position) = {} /\ DOMAIN position = {}
    BY DEF Init, EmptyBag, SetToBag, IsABag, BagToSet
<1>3. req \in [Requests -> Request] /\ \A r \in Requests : DOMAIN req[r].id = DOMAIN req[r].obs
    BY IdleRequest DEF Init
<1>4. /\ batch \in [1..MaxBatches -> Batch]
      /\ \A s \in 1..MaxBatches : batch[s].left \subseteq batch[s].pending
    BY NoBatchType DEF Init
<1>5. lastPersisted \in [Buses -> 0..MaxFixes]
    BY MarkType DEF Init
<1>6. faults \in 0..MaxFaults /\ life \in {"up", "stopped"}
    BY TrackingAssumption DEF Init
<1>7. vehicle \subseteq Row /\ made \in [Buses -> Nat] /\ stray \subseteq Buses
      /\ excused \subseteq Buses \X (1..MaxFixes)
    BY DEF Init
<1>8. Types
    BY <1>1, <1>2, <1>3, <1>4, <1>5, <1>6, <1>7 DEF Types
<1>9. MadeOK /\ MarkMeansKept
    BY DEF Init, MadeOK, MarkMeansKept
<1>10. \A v, n : ~Stored(v, n)
    BY <1>2 DEF Stored
<1>11. \A s \in 1..MaxBatches : \A row, v, n : ~Going(s, row, v, n)
    BY DEF Going, Init, NoBatch
<1>12. HandedOK /\ OnceOK
    BY <1>10, <1>11 DEF HandedOK, OnceOK, InFlight
<1>13. DuplicateHasCause
    BY <1>2 DEF DuplicateHasCause, Twice
<1> QED
    BY <1>8, <1>9, <1>12, <1>13 DEF TrackInv

-----------------------------------------------------------------------------
(* The vehicle table                                                       *)

\* A row that may be made next, with the code of its bus.
Fits(row, v) == row \in Row /\ row.id[1] = v /\ row.code = v

LEMMA NextRow ==
    ASSUME Types, MadeOK, NEW v \in Buses, NEW ext \in Buses \cup {None},
           NEW src \in {"BIMS", "CUSTOM"},
           NEW row, row = [id |-> NewId(v), code |-> v, src |-> src, ext |-> ext],
           ~Conflicts(row, vehicle)
    PROVE  Fits(row, v) /\ ~HasRow(v)
<1>1. row.code = v /\ row.id = <<v, made[v]>>
    BY DEF NewId
<1>2. ~HasRow(v)
    BY <1>1 DEF Conflicts, HasRow
<1>3. made[v] \in Nat /\ made[v] <= faults /\ faults \in 0..MaxFaults
    BY <1>2 DEF Types, MadeOK
<1>4. made[v] \in 0..(MaxFaults + 1)
    BY <1>3, TrackingAssumption
<1>5. row.id \in Ids
    BY <1>1, <1>4 DEF Ids
<1>6. row \in Row
    BY <1>5 DEF Row, NewId
<1> QED
    BY <1>1, <1>2, <1>6 DEF Fits

LEMMA InsertKeeps ==
    ASSUME Types, MadeOK, NEW v \in Buses, NEW row, Fits(row, v), ~HasRow(v), Insert(row),
           faults' \in Nat, faults' >= faults
    PROVE  vehicle' \subseteq Row /\ made' \in [Buses -> Nat] /\ MadeOK'
<1>1. /\ vehicle' = vehicle \cup {row} /\ made' = [made EXCEPT ![v] = @ + 1]
      /\ row \in Row /\ row.code = v
    BY DEF Insert, Fits
<1>2. made \in [Buses -> Nat] /\ vehicle \subseteq Row /\ faults \in Nat
    BY DEF Types
<1>3. ASSUME NEW w \in Buses
      PROVE  /\ made'[w] <= faults' + 1
             /\ ~(\E o \in vehicle' : o.code = w) => made'[w] <= faults'
    <2>1. made[w] \in Nat /\ made[w] <= faults + 1 /\ (~HasRow(w) => made[w] <= faults)
        BY <1>2 DEF MadeOK
    <2>2. CASE w = v
        <3>1. made'[w] = made[w] + 1 /\ made[w] <= faults
            BY <1>1, <1>2, <2>1, <2>2
        <3>2. \E o \in vehicle' : o.code = w
            BY <1>1, <2>2
        <3>3. made'[w] <= faults' + 1
            BY <1>2, <2>1, <3>1
        <3> QED
            BY <3>2, <3>3
    <2>3. CASE w # v
        <3>1. made'[w] = made[w]
            BY <1>1, <1>2, <2>3
        <3>2. ~(\E o \in vehicle' : o.code = w) => ~HasRow(w)
            BY <1>1 DEF HasRow
        <3> QED
            BY <1>2, <2>1, <3>1, <3>2
    <2> QED
        BY <2>2, <2>3
<1>4. MadeOK'
    BY <1>3 DEF MadeOK, HasRow
<1> QED
    BY <1>1, <1>2, <1>4

\* Only an edit takes a row away, and counts for it.
LEMMA RowsKept ==
    ASSUME Types, MadeOK, made' = made, faults' \in Nat, faults' >= faults,
           \/ \A o \in vehicle : \E p \in vehicle' : p.code = o.code
           \/ faults' = faults + 1
    PROVE  MadeOK'
<1>1. made \in [Buses -> Nat] /\ faults \in Nat
    BY DEF Types
<1>2. ASSUME NEW w \in Buses
      PROVE  /\ made'[w] <= faults' + 1
             /\ ~(\E o \in vehicle' : o.code = w) => made'[w] <= faults'
    <2>1. made[w] \in Nat /\ made[w] <= faults + 1 /\ (~HasRow(w) => made[w] <= faults)
        BY <1>1 DEF MadeOK
    <2>2. CASE faults' = faults + 1
        BY <1>1, <2>1, <2>2
    <2>3. CASE \A o \in vehicle : \E p \in vehicle' : p.code = o.code
        <3>1. ~(\E o \in vehicle' : o.code = w) => ~HasRow(w)
            BY <2>3 DEF HasRow
        <3> QED
            BY <1>1, <2>1, <3>1
    <2> QED
        BY <2>2, <2>3
<1> QED
    BY <1>2 DEF MadeOK, HasRow

-----------------------------------------------------------------------------
(* Steps that store nothing and mark nothing                               *)

LEMMA RecordKept ==
    ASSUME TrackInv, UNCHANGED record
    PROVE  MarkMeansKept' /\ HandedOK' /\ OnceOK' /\ DuplicateHasCause'
<1>1. position' = position /\ lastPersisted' = lastPersisted /\ batch' = batch /\ excused' = excused
    BY DEF record
<1>2. MarkMeansKept'
    BY <1>1 DEF TrackInv, MarkMeansKept, Stored
<1>3. HandedOK'
    BY <1>1 DEF TrackInv, HandedOK, Stored, InFlight, Going
<1>4. OnceOK'
    BY <1>1 DEF TrackInv, OnceOK, Stored, Going
<1>5. DuplicateHasCause'
    BY <1>1 DEF TrackInv, DuplicateHasCause, Twice
<1> QED
    BY <1>2, <1>3, <1>4, <1>5

LEMMA TypesOf ==
    ASSUME Types
    PROVE  /\ BusOK /\ vehicle \subseteq Row /\ made \in [Buses -> Nat]
           /\ IsABag(position) /\ DOMAIN position \subseteq Position
           /\ lastPersisted \in [Buses -> 0..MaxFixes]
           /\ req \in [Requests -> Request]
           /\ \A r \in Requests : DOMAIN req[r].id = DOMAIN req[r].obs
           /\ stray \subseteq Buses
           /\ batch \in [1..MaxBatches -> Batch]
           /\ \A s \in 1..MaxBatches : batch[s].left \subseteq batch[s].pending
           /\ life \in {"up", "stopped"} /\ faults \in 0..MaxFaults
           /\ excused \subseteq Buses \X (1..MaxFixes)
    BY DEF Types

LEMMA BusVarsKept == BusOK /\ UNCHANGED busVars => BusOK'
    BY DEF BusOK, busVars

\* A step of the handlers or the administrators that leaves the record alone.
LEMMA QuietKeeps ==
    ASSUME TrackInv, UNCHANGED record, UNCHANGED busVars,
           vehicle' \subseteq Row, made' \in [Buses -> Nat], MadeOK',
           req' \in [Requests -> Request],
           \A r \in Requests : DOMAIN req'[r].id = DOMAIN req'[r].obs,
           stray' \subseteq Buses, life' \in {"up", "stopped"}, faults' \in 0..MaxFaults
    PROVE  TrackInv'
<1>1. Types
    BY DEF TrackInv
<1>2. position' = position /\ lastPersisted' = lastPersisted /\ batch' = batch /\ excused' = excused
    BY DEF record
<1>3. BusOK'
    BY <1>1, BusVarsKept DEF Types
<1>4. Types'
    BY <1>1, <1>2, <1>3 DEF Types
<1> QED
    BY <1>4, RecordKept DEF TrackInv

LEMMA RequestTo ==
    ASSUME Types, NEW r \in Requests, NEW x \in Request, DOMAIN x.id = DOMAIN x.obs,
           req' = [req EXCEPT ![r] = x]
    PROVE  /\ req' \in [Requests -> Request]
           /\ \A q \in Requests : DOMAIN req'[q].id = DOMAIN req'[q].obs
    BY TypesOf

LEMMA FaultType ==
    ASSUME Types
    PROVE  /\ faults \in Nat
           /\ Fault => faults' = faults + 1 /\ faults' \in 0..MaxFaults
    BY TrackingAssumption DEF Types, Fault

LEMMA BusStepKeeps == TrackInv /\ BusNext /\ UNCHANGED nodeVars => TrackInv'
<1> SUFFICES ASSUME TrackInv, BusNext, UNCHANGED nodeVars PROVE TrackInv'
    OBVIOUS
<1>1. Types /\ MadeOK
    BY DEF TrackInv
<1>2. BusOK'
    BY <1>1, BusKeeps DEF Types
<1>3. Types'
    BY <1>1, <1>2 DEF Types, nodeVars
<1>4. MadeOK'
    BY <1>1 DEF MadeOK, HasRow, nodeVars
<1> QED
    BY <1>3, <1>4, RecordKept DEF TrackInv, record, nodeVars

LEMMA FetchKeeps ==
    ASSUME TrackInv, NEW r \in Requests, Fetch(r)
    PROVE  TrackInv'
<1> DEFINE ids == [v \in DOMAIN snapshot |-> Unknown]
           x == [pc |-> "upsert", obs |-> snapshot, id |-> ids]
<1>1. Types /\ MadeOK
    BY DEF TrackInv
<1>2. snapshot \in Maps(Observation)
    BY <1>1 DEF Types, BusOK
<1>3. DOMAIN snapshot \in SUBSET Buses
    BY <1>2, MapsOf
<1>4. ids \in [DOMAIN snapshot -> NodeIds]
    BY DEF NodeIds
<1>5. ids \in Maps(NodeIds)
    BY <1>3, <1>4, IntoMaps
<1>6. x \in Request /\ DOMAIN x.id = DOMAIN x.obs
    BY <1>2, <1>5 DEF Request, NodeIds
<1> HIDE DEF ids
<1>7. /\ req' = [req EXCEPT ![r] = x]
      /\ UNCHANGED <<busVars, vehicle, made, position, lastPersisted, stray,
                     batch, life, faults, excused>>
    BY DEF Fetch, ids
<1> HIDE DEF x
<1>8. /\ req' \in [Requests -> Request]
      /\ \A q \in Requests : DOMAIN req'[q].id = DOMAIN req'[q].obs
    BY <1>1, <1>6, <1>7, RequestTo
<1>9. MadeOK'
    BY <1>1, <1>7 DEF MadeOK, HasRow
<1> QED
    BY <1>1, <1>7, <1>8, <1>9, QuietKeeps, TypesOf DEF record

\* One id of a request is learned.
LEMMA IdLearned ==
    ASSUME Types, NEW r \in Requests, NEW v \in DOMAIN req[r].id, NEW i \in NodeIds,
           req' = [req EXCEPT ![r].id[v] = i]
    PROVE  /\ req' \in [Requests -> Request]
           /\ \A q \in Requests : DOMAIN req'[q].id = DOMAIN req'[q].obs
<1> DEFINE ids == [req[r].id EXCEPT ![v] = i]
           x == [req[r] EXCEPT !.id = ids]
<1>1. req \in [Requests -> Request] /\ DOMAIN req[r].id = DOMAIN req[r].obs
    BY TypesOf
<1>2. req[r].id \in Maps(NodeIds)
    BY <1>1 DEF Request, NodeIds
<1>3. PICK D \in SUBSET Buses : req[r].id \in [D -> NodeIds]
    BY <1>2 DEF Maps
<1>4. ids \in [D -> NodeIds] /\ DOMAIN ids = DOMAIN req[r].id
    BY <1>3
<1>5. ids \in Maps(NodeIds)
    BY <1>4, IntoMaps
<1>6. req' = [req EXCEPT ![r] = x]
    BY <1>1
<1> HIDE DEF ids
<1>7. x \in Request /\ x.id = ids /\ x.obs = req[r].obs
    BY <1>1, <1>5 DEF Request, NodeIds
<1> HIDE DEF x
<1> QED
    BY <1>1, <1>4, <1>6, <1>7, RequestTo

LEMMA FindKeeps ==
    ASSUME TrackInv, NEW r \in Requests, NEW v \in Buses, FindVehicle(r, v)
    PROVE  TrackInv'
<1> DEFINE i == IF Named(v) = {} THEN Absent ELSE (CHOOSE o \in Named(v) : TRUE).id
<1>1. Types /\ MadeOK
    BY DEF TrackInv
<1>2. i \in NodeIds
    <2>1. CASE Named(v) = {}
        BY <2>1 DEF NodeIds
    <2>2. CASE Named(v) # {}
        <3>1. (CHOOSE o \in Named(v) : TRUE) \in Named(v)
            BY <2>2
        <3>2. (CHOOSE o \in Named(v) : TRUE) \in Row
            BY <1>1, <3>1, TypesOf DEF Named
        <3>3. (CHOOSE o \in Named(v) : TRUE).id \in Ids
            BY <3>2, RowFields
        <3> QED
            BY <2>2, <3>3 DEF NodeIds
    <2> QED
        BY <2>1, <2>2
<1>3. /\ v \in DOMAIN req[r].id /\ req' = [req EXCEPT ![r].id[v] = i]
      /\ UNCHANGED <<busVars, vehicle, made, position, lastPersisted, stray,
                     batch, life, faults, excused>>
    BY DEF FindVehicle
<1> HIDE DEF i
<1>4. /\ req' \in [Requests -> Request]
      /\ \A q \in Requests : DOMAIN req'[q].id = DOMAIN req'[q].obs
    BY <1>1, <1>2, <1>3, IdLearned
<1>5. MadeOK'
    BY <1>1, <1>3 DEF MadeOK, HasRow
<1> QED
    BY <1>1, <1>3, <1>4, <1>5, QuietKeeps, TypesOf DEF record

LEMMA CreateKeeps ==
    ASSUME TrackInv, NEW r \in Requests, NEW v \in Buses, CreateVehicle(r, v)
    PROVE  TrackInv'
<1>1. Types /\ MadeOK
    BY DEF TrackInv
<1>2. Fits(BimsRow(v), v) /\ ~HasRow(v)
    BY <1>1, NextRow DEF CreateVehicle, BimsRow
<1>3. NewId(v) \in NodeIds
    BY <1>2, RowFields DEF Fits, BimsRow, NodeIds
<1>4. /\ v \in DOMAIN req[r].id /\ req' = [req EXCEPT ![r].id[v] = NewId(v)]
      /\ Insert(BimsRow(v))
      /\ UNCHANGED <<busVars, position, lastPersisted, stray, batch, life, faults, excused>>
    BY DEF CreateVehicle
<1>5. /\ req' \in [Requests -> Request]
      /\ \A q \in Requests : DOMAIN req'[q].id = DOMAIN req'[q].obs
    BY <1>1, <1>3, <1>4, IdLearned
<1>6. faults' \in Nat /\ faults' >= faults
    BY <1>1, <1>4, FaultType
<1>7. vehicle' \subseteq Row /\ made' \in [Buses -> Nat] /\ MadeOK'
    BY <1>1, <1>2, <1>4, <1>6, InsertKeeps
<1> QED
    BY <1>1, <1>4, <1>5, <1>7, QuietKeeps, TypesOf DEF record

LEMMA RejectedKeeps ==
    ASSUME TrackInv, NEW r \in Requests, NEW v \in Buses, UpsertRejected(r, v)
    PROVE  TrackInv'
<1>1. Types /\ MadeOK
    BY DEF TrackInv
<1>2. /\ req' = [req EXCEPT ![r] = Idle]
      /\ UNCHANGED <<busVars, vehicle, made, position, lastPersisted, batch, life, excused>>
      /\ UNCHANGED faults \/ Fault
      /\ stray' \subseteq stray \cup DOMAIN req[r].id
    BY DEF UpsertRejected
<1>3. /\ req' \in [Requests -> Request]
      /\ \A q \in Requests : DOMAIN req'[q].id = DOMAIN req'[q].obs
    BY <1>1, <1>2, IdleRequest, RequestTo
<1>4. DOMAIN req[r].id \subseteq Buses
    BY <1>1, TypesOf, RequestFields
<1>5. stray' \subseteq Buses
    BY <1>1, <1>2, <1>4, TypesOf
<1>6. faults' \in 0..MaxFaults /\ faults' \in Nat /\ faults' >= faults
    BY <1>1, <1>2, FaultType, TypesOf
<1>7. MadeOK'
    BY <1>1, <1>2, <1>6, RowsKept
<1> QED
    BY <1>1, <1>2, <1>3, <1>5, <1>6, <1>7, QuietKeeps, TypesOf DEF record

LEMMA StrayKeeps ==
    ASSUME TrackInv, NEW v \in Buses, StrayUpsert(v)
    PROVE  TrackInv'
<1>1. Types /\ MadeOK
    BY DEF TrackInv
<1>2. /\ stray' \subseteq stray
      /\ UNCHANGED <<busVars, position, lastPersisted, req, batch, life, faults, excused>>
    BY DEF StrayUpsert
<1>3. faults' \in Nat /\ faults' >= faults
    BY <1>1, <1>2, FaultType
<1>4. vehicle' \subseteq Row /\ made' \in [Buses -> Nat] /\ MadeOK'
    <2>1. CASE Conflicts(BimsRow(v), vehicle)
        <3>1. vehicle' = vehicle /\ made' = made
            BY <2>1 DEF StrayUpsert
        <3> QED
            BY <1>1, <1>3, <3>1, RowsKept, TypesOf
    <2>2. CASE ~Conflicts(BimsRow(v), vehicle)
        <3>1. Insert(BimsRow(v))
            BY <2>2 DEF StrayUpsert
        <3>2. Fits(BimsRow(v), v) /\ ~HasRow(v)
            BY <1>1, <2>2, NextRow DEF BimsRow
        <3> QED
            BY <1>1, <1>3, <3>1, <3>2, InsertKeeps
    <2> QED
        BY <2>1, <2>2
<1> QED
    BY <1>1, <1>2, <1>4, QuietKeeps, TypesOf DEF record

LEMMA EditKeeps == TrackInv /\ EditNext => TrackInv'
<1> SUFFICES ASSUME TrackInv, EditNext PROVE TrackInv'
    OBVIOUS
<1>1. Types /\ MadeOK
    BY DEF TrackInv
<1>2. ASSUME UNCHANGED notEdited, Fault,
             vehicle' \subseteq Row, made' \in [Buses -> Nat], MadeOK'
      PROVE  TrackInv'
    BY <1>1, <1>2, FaultType, QuietKeeps, TypesOf DEF record, notEdited
<1>3. ASSUME NEW v \in Typed,
             PostVehicle([id |-> NewId(v), code |-> v, src |-> "CUSTOM", ext |-> None])
      PROVE  TrackInv'
    <2> DEFINE row == [id |-> NewId(v), code |-> v, src |-> "CUSTOM", ext |-> None]
    <2>1. UNCHANGED notEdited /\ Fault /\ ~Conflicts(row, vehicle) /\ Insert(row)
        BY <1>3 DEF PostVehicle, Edit
    <2>2. v \in Buses
        BY TrackingAssumption
    <2>3. Fits(row, v) /\ ~HasRow(v)
        BY <1>1, <2>1, <2>2, NextRow
    <2> HIDE DEF row
    <2>4. faults' \in Nat /\ faults' >= faults
        BY <1>1, <2>1, FaultType
    <2> QED
        BY <1>1, <1>2, <2>1, <2>2, <2>3, <2>4, InsertKeeps
<1>4. ASSUME NEW old \in vehicle, NEW src \in {"BIMS", "CUSTOM"},
             PatchVehicle(old, [old EXCEPT !.src = src])
      PROVE  TrackInv'
    <2> DEFINE row == [old EXCEPT !.src = src]
    <2>1. /\ UNCHANGED notEdited /\ Fault /\ made' = made
          /\ vehicle' = (vehicle \ {old}) \cup {row}
        BY <1>4 DEF PatchVehicle, Edit
    <2>2. old \in Row
        BY <1>1, TypesOf
    <2>3. row \in Row /\ row.code = old.code
        BY <2>2 DEF Row
    <2> HIDE DEF row
    <2>4. vehicle' \subseteq Row
        BY <1>1, <2>1, <2>3, TypesOf
    <2>5. faults' \in Nat /\ faults' >= faults /\ faults' = faults + 1
        BY <1>1, <2>1, FaultType
    <2>6. MadeOK'
        BY <1>1, <2>1, <2>5, RowsKept
    <2> QED
        BY <1>1, <1>2, <2>1, <2>4, <2>6, TypesOf
<1>5. ASSUME NEW old \in vehicle, DeleteVehicle(old)
      PROVE  TrackInv'
    <2>1. UNCHANGED notEdited /\ Fault /\ made' = made /\ vehicle' \subseteq vehicle
        BY <1>5 DEF DeleteVehicle, Edit
    <2>2. faults' \in Nat /\ faults' >= faults /\ faults' = faults + 1
        BY <1>1, <2>1, FaultType
    <2>3. MadeOK'
        BY <1>1, <2>1, <2>2, RowsKept
    <2> QED
        BY <1>1, <1>2, <2>1, <2>3, TypesOf
<1> QED
    BY <1>3, <1>4, <1>5 DEF EditNext

LEMMA StartKeeps == TrackInv /\ Start => TrackInv'
<1> SUFFICES ASSUME TrackInv, Start PROVE TrackInv'
    OBVIOUS
<1>1. Types /\ MadeOK
    BY DEF TrackInv
<1>2. /\ Fault /\ life' = "up"
      /\ UNCHANGED <<busVars, vehicle, made, position, lastPersisted, req, stray, batch, excused>>
    BY DEF Start
<1>3. faults' \in 0..MaxFaults /\ faults' \in Nat /\ faults' >= faults
    BY <1>1, <1>2, FaultType, TypesOf
<1>4. MadeOK'
    BY <1>1, <1>2, <1>3, RowsKept
<1> QED
    BY <1>1, <1>2, <1>3, <1>4, QuietKeeps, TypesOf DEF record

-----------------------------------------------------------------------------
(* Steps that store or mark                                                *)

LEMMA BookTypes ==
    ASSUME Types, MadeOK, UNCHANGED <<busVars, vehicle, made>>,
           faults' \in 0..MaxFaults, faults' >= faults, life' \in {"up", "stopped"},
           req' \in [Requests -> Request],
           \A r \in Requests : DOMAIN req'[r].id = DOMAIN req'[r].obs,
           stray' \subseteq Buses,
           batch' \in [1..MaxBatches -> Batch],
           \A s \in 1..MaxBatches : batch'[s].left \subseteq batch'[s].pending,
           lastPersisted' \in [Buses -> 0..MaxFixes],
           excused' \subseteq Buses \X (1..MaxFixes),
           IsABag(position'), DOMAIN position' \subseteq Position
    PROVE  Types' /\ MadeOK'
<1>1. BusOK'
    BY BusVarsKept, TypesOf
<1>2. Types'
    BY <1>1, TypesOf DEF Types
<1>3. faults' \in Nat
    BY TrackingAssumption
<1>4. MadeOK'
    BY <1>3, RowsKept
<1> QED
    BY <1>2, <1>4

\* An insertion of a batch ends.
LEMMA Settling ==
    ASSUME Types, NEW s \in 1..MaxBatches, NEW row \in batch[s].left, NEW rej \in BOOLEAN,
           batch' = Settle(s, row, rej)
    PROVE  /\ batch' \in [1..MaxBatches -> Batch]
           /\ \A t \in 1..MaxBatches : batch'[t].left \subseteq batch'[t].pending
           /\ \A t \in 1..MaxBatches : \A x :
                 x \in batch'[t].left <=> x \in batch[t].left /\ <<t, x>> # <<s, row>>
           /\ \A t \in 1..MaxBatches : t # s => batch'[t] = batch[t]
           /\ batch'[s].left # {} => batch'[s].rejected = rej
<1>1. /\ batch \in [1..MaxBatches -> Batch]
      /\ \A t \in 1..MaxBatches : batch[t].left \subseteq batch[t].pending
    BY TypesOf
<1>2. CASE batch[s].left = {row}
    <2>1. batch' = [batch EXCEPT ![s] = NoBatch] /\ NoBatch.left = {}
        BY <1>2 DEF Settle, NoBatch
    <2>2. batch'[s] = NoBatch /\ \A t \in 1..MaxBatches : t # s => batch'[t] = batch[t]
        BY <1>1, <2>1
    <2>3. \A x : x \in batch[s].left <=> x = row
        BY <1>2
    <2>4. batch' \in [1..MaxBatches -> Batch]
        BY <1>1, <2>1, NoBatchType
    <2>5. \A t \in 1..MaxBatches : batch'[t].left \subseteq batch'[t].pending
        BY <1>1, <2>2, NoBatchType
    <2> QED
        BY <2>1, <2>2, <2>3, <2>4, <2>5
<1>3. CASE batch[s].left # {row}
    <2> DEFINE y == [batch[s] EXCEPT !.left = @ \ {row}, !.rejected = rej]
    <2>1. batch' = [batch EXCEPT ![s] = y]
        BY <1>1, <1>3 DEF Settle
    <2>2. batch[s] \in Batch
        BY <1>1
    <2>3. /\ y \in Batch /\ y.left = batch[s].left \ {row} /\ y.rejected = rej
          /\ y.pending = batch[s].pending
        BY <2>2 DEF Batch
    <2> HIDE DEF y
    <2>4. batch'[s] = y /\ \A t \in 1..MaxBatches : t # s => batch'[t] = batch[t]
        BY <1>1, <2>1
    <2>5. batch' \in [1..MaxBatches -> Batch]
        BY <1>1, <2>1, <2>3
    <2>6. \A t \in 1..MaxBatches : batch'[t].left \subseteq batch'[t].pending
        BY <1>1, <2>3, <2>4
    <2> QED
        BY <2>3, <2>4, <2>5, <2>6
<1> QED
    BY <1>2, <1>3

LEMMA StoreRow ==
    ASSUME IsABag(position), DOMAIN position \subseteq Position, NEW row \in Position,
           position' = position (+) SetToBag({row})
    PROVE  /\ IsABag(position') /\ DOMAIN position' \subseteq Position
           /\ BagToSet(position') = BagToSet(position) \cup {row}
           /\ \A p \in BagToSet(position) : p # row => position'[p] = position[p]
           /\ row \notin BagToSet(position) => position'[row] = 1
    BY DEF (+), SetToBag, IsABag, BagToSet

LEMMA DoneKeeps ==
    ASSUME TrackInv, NEW s \in 1..MaxBatches, NEW row \in batch[s].left, InsertDone(s, row)
    PROVE  TrackInv'
<1>1. Types /\ MadeOK /\ MarkMeansKept /\ HandedOK /\ OnceOK /\ DuplicateHasCause
    BY DEF TrackInv
<1>2. /\ position' = position (+) SetToBag({row})
      /\ batch' = Settle(s, row, batch[s].rejected)
      /\ UNCHANGED <<busVars, vehicle, made, lastPersisted, req, stray, life, faults, excused>>
    BY DEF InsertDone
<1>3. row \in Position /\ batch[s].rejected \in BOOLEAN
    BY <1>1, TypesOf, BatchFields
<1>4. /\ batch' \in [1..MaxBatches -> Batch]
      /\ \A t \in 1..MaxBatches : batch'[t].left \subseteq batch'[t].pending
      /\ \A t \in 1..MaxBatches : \A x :
            x \in batch'[t].left <=> x \in batch[t].left /\ <<t, x>> # <<s, row>>
      /\ \A t \in 1..MaxBatches : t # s => batch'[t] = batch[t]
      /\ batch'[s].left # {} => batch'[s].rejected = batch[s].rejected
    BY <1>1, <1>2, <1>3, Settling
<1>5. /\ IsABag(position') /\ DOMAIN position' \subseteq Position
      /\ BagToSet(position') = BagToSet(position) \cup {row}
      /\ \A p \in BagToSet(position) : p # row => position'[p] = position[p]
      /\ row \notin BagToSet(position) => position'[row] = 1
    BY <1>1, <1>2, <1>3, StoreRow, TypesOf
<1>6. faults' \in 0..MaxFaults /\ faults' >= faults
    BY <1>1, <1>2, FaultType, TypesOf
<1>7. Types' /\ MadeOK'
    BY <1>1, <1>2, <1>4, <1>5, <1>6, BookTypes, TypesOf
<1>8. \A v, n : Stored(v, n)' <=> Stored(v, n) \/ (row.bus = v /\ row.at = n)
    BY <1>5 DEF Stored
<1>9. \A t \in 1..MaxBatches : \A x, v, n :
          Going(t, x, v, n)' <=> Going(t, x, v, n) /\ <<t, x>> # <<s, row>>
    BY <1>4 DEF Going
<1>10. MarkMeansKept'
    <2> SUFFICES ASSUME NEW v \in Buses, lastPersisted[v] # 0
                 PROVE  \/ Stored(v, lastPersisted[v])'
                        \/ \E t \in 1..MaxBatches :
                              /\ ~batch'[t].rejected
                              /\ \E p \in batch'[t].left : p.bus = v /\ p.at = lastPersisted[v]
        BY <1>2 DEF MarkMeansKept, Stored
    <2>1. CASE Stored(v, lastPersisted[v])
        BY <1>2, <1>5, <2>1 DEF Stored
    <2>2. ASSUME NEW t \in 1..MaxBatches, ~batch[t].rejected,
                 NEW p \in batch[t].left, p.bus = v, p.at = lastPersisted[v]
          PROVE  \/ Stored(v, lastPersisted[v])'
                 \/ \E u \in 1..MaxBatches :
                       /\ ~batch'[u].rejected
                       /\ \E q \in batch'[u].left : q.bus = v /\ q.at = lastPersisted[v]
        <3>1. CASE <<t, p>> = <<s, row>>
            BY <1>2, <1>5, <2>2, <3>1 DEF Stored
        <3>2. CASE <<t, p>> # <<s, row>>
            <4>1. p \in batch'[t].left
                BY <1>4, <2>2, <3>2
            <4>2. ~batch'[t].rejected
                BY <1>4, <2>2, <4>1
            <4> QED
                BY <2>2, <4>1, <4>2
        <3> QED
            BY <3>1, <3>2
    <2> QED
        BY <1>1, <2>1, <2>2 DEF MarkMeansKept
<1>11. HandedOK'
    <2>1. \A v, n : InFlight(v, n)' => InFlight(v, n)
        BY <1>9 DEF InFlight
    <2>2. \A v, n : row.bus = v /\ row.at = n => InFlight(v, n)
        BY <1>3 DEF InFlight, Going
    <2>3. \A v, n : Stored(v, n)' \/ InFlight(v, n)' => Stored(v, n) \/ InFlight(v, n)
        BY <1>8, <2>1, <2>2
    <2> QED
        BY <1>1, <1>2, <2>3 DEF HandedOK
<1>12. OnceOK'
    <2>1. \A v, n : row.bus = v /\ row.at = n => Going(s, row, v, n)
        BY DEF Going
    <2> SUFFICES ASSUME NEW v \in Buses, NEW n \in 1..MaxFixes,
                        NEW t \in 1..MaxBatches, NEW x \in Position, Going(t, x, v, n)'
                 PROVE  /\ Stored(v, n)' => <<v, n>> \in excused'
                        /\ \A u \in 1..MaxBatches, other \in Position :
                              Going(u, other, v, n)' /\ <<u, other>> # <<t, x>>
                                  => <<v, n>> \in excused'
        BY DEF OnceOK
    <2>2. Going(t, x, v, n) /\ <<t, x>> # <<s, row>>
        BY <1>9
    <2>3. Stored(v, n) => <<v, n>> \in excused
        BY <1>1, <2>2 DEF OnceOK
    <2>4. Going(s, row, v, n) => <<v, n>> \in excused
        BY <1>1, <1>3, <2>2 DEF OnceOK
    <2>5. \A u \in 1..MaxBatches, other \in Position :
              Going(u, other, v, n) /\ <<u, other>> # <<t, x>> => <<v, n>> \in excused
        BY <1>1, <2>2 DEF OnceOK
    <2> QED
        BY <1>2, <1>8, <1>9, <2>1, <2>3, <2>4, <2>5
<1>13. DuplicateHasCause'
    <2> SUFFICES ASSUME NEW v \in Buses, NEW n \in 1..MaxFixes, Twice(v, n)'
                 PROVE  <<v, n>> \in excused
        BY <1>2 DEF DuplicateHasCause
    <2>1. PICK p \in BagToSet(position'), q \in BagToSet(position') :
              /\ p.bus = v /\ p.at = n /\ q.bus = v /\ q.at = n
              /\ p # q \/ position'[p] > 1
        BY DEF Twice
    <2>2. CASE row.bus = v /\ row.at = n
        <3>1. Stored(v, n)
            <4>1. CASE p \in BagToSet(position) \/ q \in BagToSet(position)
                BY <2>1, <4>1 DEF Stored
            <4>2. CASE p \notin BagToSet(position) /\ q \notin BagToSet(position)
                BY <1>5, <2>1, <4>2
            <4> QED
                BY <4>1, <4>2
        <3>2. Going(s, row, v, n)
            BY <2>2 DEF Going
        <3> QED
            BY <1>1, <1>3, <3>1, <3>2 DEF OnceOK
    <2>3. CASE ~(row.bus = v /\ row.at = n)
        <3>1. p # row /\ q # row
            BY <2>1, <2>3
        <3>2. p \in BagToSet(position) /\ q \in BagToSet(position)
            BY <1>5, <2>1, <3>1
        <3>3. p # q \/ position[p] > 1
            BY <1>5, <2>1, <3>1, <3>2
        <3>4. Twice(v, n)
            BY <2>1, <3>2, <3>3 DEF Twice
        <3> QED
            BY <1>1, <3>4 DEF DuplicateHasCause
    <2> QED
        BY <2>2, <2>3
<1> QED
    BY <1>7, <1>10, <1>11, <1>12, <1>13 DEF TrackInv

LEMMA FailedKeeps ==
    ASSUME TrackInv, NEW s \in 1..MaxBatches, NEW row \in batch[s].left, InsertFailed(s, row)
    PROVE  TrackInv'
<1> DEFINE unmarked == Unmarked(s, row)
<1>1. Types /\ MadeOK /\ MarkMeansKept /\ HandedOK /\ OnceOK /\ DuplicateHasCause
    BY DEF TrackInv
<1>2. unmarked = IF batch[s].rejected THEN {} ELSE {p.bus : p \in batch[s].pending}
    BY DEF Unmarked
<1> HIDE DEF unmarked
<1>3. /\ batch' = Settle(s, row, TRUE)
      /\ lastPersisted' = [v \in Buses |-> IF v \in unmarked THEN 0 ELSE lastPersisted[v]]
      /\ excused' = excused \cup {<<v, lastPersisted[v]>> :
                            v \in {w \in unmarked : lastPersisted[w] # 0}}
      /\ UNCHANGED <<busVars, vehicle, made, position, req, stray, life>>
      /\ UNCHANGED faults \/ Fault
    BY DEF InsertFailed, unmarked
<1>4. /\ batch' \in [1..MaxBatches -> Batch]
      /\ \A t \in 1..MaxBatches : batch'[t].left \subseteq batch'[t].pending
      /\ \A t \in 1..MaxBatches : \A x :
            x \in batch'[t].left <=> x \in batch[t].left /\ <<t, x>> # <<s, row>>
      /\ \A t \in 1..MaxBatches : t # s => batch'[t] = batch[t]
    BY <1>1, <1>3, Settling
<1>5. /\ unmarked \subseteq Buses
      /\ lastPersisted \in [Buses -> 0..MaxFixes]
    BY <1>1, <1>2, TypesOf, BatchFields, PositionFields
<1>6. lastPersisted' \in [Buses -> 0..MaxFixes]
    BY <1>3, <1>5, MarkType
<1>7. ASSUME NEW v \in unmarked, lastPersisted[v] # 0
      PROVE  lastPersisted[v] \in 1..MaxFixes /\ <<v, lastPersisted[v]>> \in excused'
    <2>1. lastPersisted[v] \in 0..MaxFixes
        BY <1>5
    <2>2. lastPersisted[v] \in 1..MaxFixes
        BY <1>7, <2>1, BusAssumption
    <2> QED
        BY <1>3, <1>7, <2>2
<1>8. excused' \subseteq Buses \X (1..MaxFixes)
    BY <1>1, <1>3, <1>5, <1>7, TypesOf
<1>9. faults' \in 0..MaxFaults /\ faults' >= faults
    BY <1>1, <1>3, FaultType, TypesOf
<1>10. Types' /\ MadeOK'
    BY <1>1, <1>3, <1>4, <1>6, <1>8, <1>9, BookTypes, TypesOf
<1>11. \A v, n : Stored(v, n)' <=> Stored(v, n)
    BY <1>3 DEF Stored
<1>12. \A t \in 1..MaxBatches : \A x, v, n : Going(t, x, v, n)' => Going(t, x, v, n)
    BY <1>4 DEF Going
<1>13. MarkMeansKept'
    <2> SUFFICES ASSUME NEW v \in Buses, lastPersisted'[v] # 0
                 PROVE  \/ Stored(v, lastPersisted[v])
                        \/ \E t \in 1..MaxBatches :
                              /\ ~batch'[t].rejected
                              /\ \E p \in batch'[t].left : p.bus = v /\ p.at = lastPersisted[v]
        BY <1>3 DEF MarkMeansKept, Stored
    <2>1. v \notin unmarked /\ lastPersisted[v] # 0
        BY <1>3
    <2>2. ASSUME NEW t \in 1..MaxBatches, ~batch[t].rejected,
                 NEW p \in batch[t].left, p.bus = v
          PROVE  t # s
        <3>1. batch[t].left \subseteq batch[t].pending
            BY <1>1, TypesOf
        <3> QED
            BY <1>2, <2>1, <2>2, <3>1
    <2>3. \A t \in 1..MaxBatches : t # s => batch'[t] = batch[t]
        BY <1>4
    <2> QED
        BY <1>1, <2>1, <2>2, <2>3 DEF MarkMeansKept
<1>14. HandedOK'
    <2>1. \A v, n : Stored(v, n)' \/ InFlight(v, n)' => Stored(v, n) \/ InFlight(v, n)
        BY <1>11, <1>12 DEF InFlight
    <2>2. ASSUME NEW v \in Buses, NEW n \in 1..MaxFixes, Stored(v, n) \/ InFlight(v, n)
          PROVE  \E m \in n..MaxFixes : lastPersisted'[v] = m \/ <<v, m>> \in excused'
        <3>1. PICK m \in n..MaxFixes : lastPersisted[v] = m \/ <<v, m>> \in excused
            BY <1>1, <2>2 DEF HandedOK
        <3>2. m # 0
            BY <3>1, BusAssumption
        <3>3. CASE lastPersisted[v] = m /\ v \in unmarked
            BY <1>7, <3>2, <3>3
        <3>4. CASE lastPersisted[v] = m /\ v \notin unmarked
            BY <1>3, <3>4
        <3>5. CASE <<v, m>> \in excused
            BY <1>3, <3>5
        <3> QED
            BY <3>1, <3>3, <3>4, <3>5
    <2> QED
        BY <2>1, <2>2 DEF HandedOK
<1>15. OnceOK'
    <2>1. excused \subseteq excused'
        BY <1>3
    <2> SUFFICES ASSUME NEW v \in Buses, NEW n \in 1..MaxFixes,
                        NEW t \in 1..MaxBatches, NEW x \in Position, Going(t, x, v, n)'
                 PROVE  /\ Stored(v, n)' => <<v, n>> \in excused'
                        /\ \A u \in 1..MaxBatches, other \in Position :
                              Going(u, other, v, n)' /\ <<u, other>> # <<t, x>>
                                  => <<v, n>> \in excused'
        BY DEF OnceOK
    <2> QED
        BY <1>1, <1>11, <1>12, <2>1 DEF OnceOK
<1>16. DuplicateHasCause'
    BY <1>1, <1>3 DEF DuplicateHasCause, Twice
<1> QED
    BY <1>10, <1>13, <1>14, <1>15, <1>16 DEF TrackInv

\* Stop and CrashRestart.
LEMMA LostKeeps ==
    ASSUME TrackInv, ProcessLost, UNCHANGED busVars, life' \in {"up", "stopped"},
           UNCHANGED faults \/ Fault
    PROVE  TrackInv'
<1>1. Types /\ MadeOK /\ MarkMeansKept /\ HandedOK /\ OnceOK /\ DuplicateHasCause
    BY DEF TrackInv
<1>2. /\ req' = [r \in Requests |-> Idle] /\ stray' = {}
      /\ batch' = [s \in 1..MaxBatches |-> NoBatch]
      /\ lastPersisted' = [v \in Buses |-> 0]
      /\ excused' = excused \cup {<<v, lastPersisted[v]>> :
                            v \in {w \in Buses : lastPersisted[w] # 0}}
      /\ UNCHANGED <<vehicle, made, position>>
    BY DEF ProcessLost
<1>3. ASSUME NEW v \in Buses, lastPersisted[v] # 0
      PROVE  lastPersisted[v] \in 1..MaxFixes /\ <<v, lastPersisted[v]>> \in excused'
    <2>1. lastPersisted[v] \in 0..MaxFixes
        BY <1>1, TypesOf
    <2>2. lastPersisted[v] \in 1..MaxFixes
        BY <1>3, <2>1, BusAssumption
    <2> QED
        BY <1>2, <1>3, <2>2
<1>4. excused' \subseteq Buses \X (1..MaxFixes)
    BY <1>1, <1>2, <1>3, TypesOf
<1>5. faults' \in 0..MaxFaults /\ faults' >= faults
    BY <1>1, FaultType, TypesOf
<1>6. /\ req' \in [Requests -> Request]
      /\ \A r \in Requests : DOMAIN req'[r].id = DOMAIN req'[r].obs
    BY <1>2, IdleRequest
<1>7. /\ batch' \in [1..MaxBatches -> Batch]
      /\ \A s \in 1..MaxBatches : batch'[s].left \subseteq batch'[s].pending
    BY <1>2, NoBatchType
<1>8. lastPersisted' \in [Buses -> 0..MaxFixes]
    BY <1>2, MarkType
<1>9. Types' /\ MadeOK'
    BY <1>1, <1>2, <1>4, <1>5, <1>6, <1>7, <1>8, BookTypes, TypesOf
<1>10. \A s \in 1..MaxBatches : \A x, v, n : ~Going(s, x, v, n)'
    BY <1>2 DEF Going, NoBatch
<1>11. MarkMeansKept'
    BY <1>2 DEF MarkMeansKept
<1>12. HandedOK'
    <2>1. \A v, n : Stored(v, n)' \/ InFlight(v, n)' => Stored(v, n)
        BY <1>2, <1>10 DEF Stored, InFlight
    <2>2. ASSUME NEW v \in Buses, NEW n \in 1..MaxFixes, Stored(v, n)
          PROVE  \E m \in n..MaxFixes : <<v, m>> \in excused'
        <3>1. PICK m \in n..MaxFixes : lastPersisted[v] = m \/ <<v, m>> \in excused
            BY <1>1, <2>2 DEF HandedOK
        <3>2. m # 0
            BY <3>1, BusAssumption
        <3> QED
            BY <1>2, <1>3, <3>1, <3>2
    <2> QED
        BY <2>1, <2>2 DEF HandedOK
<1>13. OnceOK'
    BY <1>10 DEF OnceOK
<1>14. DuplicateHasCause'
    BY <1>1, <1>2 DEF DuplicateHasCause, Twice
<1> QED
    BY <1>9, <1>11, <1>12, <1>13, <1>14 DEF TrackInv

\* The marks and causes a response leaves: where the filter keeps an observation
\* behind a later one, both have a cause to be stored again.
LEMMA Marking ==
    ASSUME Types, NEW r \in Requests, Respond(r)
    PROVE  LET obs == req[r].obs
               keep == Fresh(obs)
           IN  /\ keep \subseteq Buses
               /\ \A v \in keep : /\ obs[v] \in Observation /\ lastPersisted[v] # obs[v].at
                                  /\ req[r].id[v] \in Ids
               /\ lastPersisted' = [v \in Buses |->
                                       IF v \in keep THEN obs[v].at ELSE lastPersisted[v]]
               /\ excused \subseteq excused' /\ excused' \subseteq Buses \X (1..MaxFixes)
               /\ \A v \in keep : \A m \in (obs[v].at + 1)..MaxFixes :
                     lastPersisted[v] = m \/ Stored(v, m) \/ <<v, m>> \in excused
                         => <<v, obs[v].at>> \in excused'
               /\ \A v \in keep : \A m \in (obs[v].at + 1)..MaxFixes :
                     lastPersisted[v] = m => <<v, m>> \in excused'
<1> DEFINE obs == req[r].obs
           keep == Fresh(obs)
           late == {v \in keep : \E n \in (obs[v].at + 1)..MaxFixes :
                       lastPersisted[v] = n \/ Stored(v, n) \/ <<v, n>> \in excused}
<1>1. /\ \A v \in DOMAIN req[r].id : req[r].id[v] \notin {Unknown, Absent}
      /\ lastPersisted' = [v \in Buses |-> IF v \in keep THEN obs[v].at ELSE lastPersisted[v]]
      /\ excused' = excused \cup {<<v, obs[v].at>> : v \in late}
            \cup {<<v, lastPersisted[v]>> : v \in {w \in late : lastPersisted[w] # 0}}
    BY DEF Respond, Ready
<1>2. req[r] \in Request /\ DOMAIN req[r].id = DOMAIN obs
    BY TypesOf
<1>3. ASSUME NEW v \in keep
      PROVE  /\ v \in Buses /\ obs[v] \in Observation /\ lastPersisted[v] # obs[v].at
             /\ req[r].id[v] \in Ids
    <2>1. v \in DOMAIN obs /\ lastPersisted[v] # obs[v].at
        BY <1>3 DEF Fresh
    <2>2. v \in Buses /\ obs[v] \in Observation /\ req[r].id[v] \in NodeIds
        BY <1>2, <2>1, RequestFields
    <2> QED
        BY <1>1, <1>2, <2>1, <2>2 DEF NodeIds
<1>4. excused \subseteq Buses \X (1..MaxFixes) /\ lastPersisted \in [Buses -> 0..MaxFixes]
    BY TypesOf
<1>5. late \subseteq keep
    OBVIOUS
<1>6. ASSUME NEW v \in late
      PROVE  /\ <<v, obs[v].at>> \in Buses \X (1..MaxFixes)
             /\ lastPersisted[v] # 0 => <<v, lastPersisted[v]>> \in Buses \X (1..MaxFixes)
    <2>1. v \in Buses /\ obs[v].at \in 1..MaxFixes
        BY <1>3, <1>5, ObservationFields
    <2>2. lastPersisted[v] \in 0..MaxFixes
        BY <1>4, <2>1
    <2>3. lastPersisted[v] # 0 => lastPersisted[v] \in 1..MaxFixes
        BY <2>2, BusAssumption
    <2> QED
        BY <2>1, <2>3
<1>7. ASSUME NEW v \in keep, NEW m \in (obs[v].at + 1)..MaxFixes,
             lastPersisted[v] = m \/ Stored(v, m) \/ <<v, m>> \in excused
      PROVE  v \in late
    BY <1>7
<1> HIDE DEF late
<1>8. \A v \in keep : \A m \in (obs[v].at + 1)..MaxFixes :
          lastPersisted[v] = m \/ Stored(v, m) \/ <<v, m>> \in excused
              => <<v, obs[v].at>> \in excused'
    BY <1>1, <1>7
<1>9. ASSUME NEW v \in keep, NEW m \in (obs[v].at + 1)..MaxFixes, lastPersisted[v] = m
      PROVE  <<v, m>> \in excused'
    <2>1. obs[v].at \in 1..MaxFixes
        BY <1>3, ObservationFields
    <2>2. lastPersisted[v] # 0
        BY <1>9, <2>1, BusAssumption
    <2> QED
        BY <1>1, <1>7, <1>9, <2>2
<1>10. excused' \subseteq Buses \X (1..MaxFixes)
    BY <1>1, <1>4, <1>6
<1>11. excused \subseteq excused'
    BY <1>1
<1> HIDE DEF keep, obs
<1>12. /\ keep \subseteq Buses
       /\ \A v \in keep : /\ obs[v] \in Observation /\ lastPersisted[v] # obs[v].at
                          /\ req[r].id[v] \in Ids
    BY <1>3
<1> QED
    BY <1>1, <1>8, <1>9, <1>10, <1>11, <1>12 DEF keep, obs

LEMMA RespondKeeps ==
    ASSUME TrackInv, NEW r \in Requests, Respond(r)
    PROVE  TrackInv'
<1> DEFINE obs == req[r].obs
           keep == Fresh(obs)
           new(v) == [bus |-> v, vid |-> req[r].id[v], at |-> obs[v].at,
                      exact |-> obs[v].exact, label |-> obs[v].label]
           rows == {new(v) : v \in keep}
           b == [pending |-> rows, left |-> rows, rejected |-> FALSE]
<1>1. Types /\ MadeOK /\ MarkMeansKept /\ HandedOK /\ OnceOK /\ DuplicateHasCause
    BY DEF TrackInv
<1>2. /\ keep \subseteq Buses
      /\ \A v \in keep : /\ obs[v] \in Observation /\ lastPersisted[v] # obs[v].at
                         /\ req[r].id[v] \in Ids
      /\ lastPersisted' = [v \in Buses |-> IF v \in keep THEN obs[v].at ELSE lastPersisted[v]]
      /\ excused \subseteq excused' /\ excused' \subseteq Buses \X (1..MaxFixes)
      /\ \A v \in keep : \A m \in (obs[v].at + 1)..MaxFixes :
            lastPersisted[v] = m \/ Stored(v, m) \/ <<v, m>> \in excused
                => <<v, obs[v].at>> \in excused'
      /\ \A v \in keep : \A m \in (obs[v].at + 1)..MaxFixes :
            lastPersisted[v] = m => <<v, m>> \in excused'
    BY <1>1, Marking
<1>3. /\ \/ keep = {} /\ batch' = batch
         \/ \E s \in 1..MaxBatches : batch[s] = NoBatch /\ batch' = [batch EXCEPT ![s] = b]
      /\ req' = [req EXCEPT ![r] = Idle]
      /\ UNCHANGED <<busVars, vehicle, made, position, stray, life, faults>>
    BY DEF Respond
<1>4. ASSUME NEW v \in keep
      PROVE  /\ obs[v].at \in 1..MaxFixes
             /\ new(v) \in Position /\ new(v).bus = v /\ new(v).at = obs[v].at
    <2>1. v \in Buses /\ obs[v].at \in 1..MaxFixes /\ obs[v].exact \in BOOLEAN
          /\ obs[v].label \in Labels /\ req[r].id[v] \in Ids
        BY <1>2, ObservationFields
    <2> QED
        BY <2>1 DEF Position
<1> HIDE DEF new
<1>5. /\ rows \subseteq Position
      /\ \A x \in rows : x.bus \in keep /\ x.at = obs[x.bus].at /\ x = new(x.bus)
      /\ \A v \in keep : new(v) \in rows /\ new(v).bus = v /\ new(v).at = obs[v].at
    BY <1>4
<1> HIDE DEF rows, keep, obs
<1>6. b \in Batch /\ b.left = rows /\ b.pending = rows /\ b.rejected = FALSE
    BY <1>5 DEF Batch
<1>7. NoBatch.left = {}
    BY DEF NoBatch
<1> HIDE DEF b
\* What is in flight now was, or is a row of this response.
<1>8. PICK s :
          /\ batch' \in [1..MaxBatches -> Batch]
          /\ \A t \in 1..MaxBatches : batch'[t].left \subseteq batch'[t].pending
          /\ keep # {} => s \in 1..MaxBatches /\ batch'[s] = b
          /\ \A t \in 1..MaxBatches : batch[t].left # {} => batch'[t] = batch[t]
          /\ \A t \in 1..MaxBatches : \A x :
                x \in batch'[t].left <=> x \in batch[t].left \/ (t = s /\ x \in rows)
    <2>1. CASE keep = {} /\ batch' = batch
        <3>1. rows = {}
            BY <1>5, <2>1
        <3> QED
            BY <1>1, <2>1, <3>1, TypesOf
    <2>2. ASSUME NEW s \in 1..MaxBatches, batch[s] = NoBatch, batch' = [batch EXCEPT ![s] = b]
          PROVE  /\ batch' \in [1..MaxBatches -> Batch]
                 /\ \A t \in 1..MaxBatches : batch'[t].left \subseteq batch'[t].pending
                 /\ batch'[s] = b
                 /\ \A t \in 1..MaxBatches : batch[t].left # {} => batch'[t] = batch[t]
                 /\ \A t \in 1..MaxBatches : \A x :
                       x \in batch'[t].left <=> x \in batch[t].left \/ (t = s /\ x \in rows)
        <3>1. batch'[s] = b /\ \A t \in 1..MaxBatches : t # s => batch'[t] = batch[t]
            BY <1>1, <2>2, TypesOf
        <3>2. batch' \in [1..MaxBatches -> Batch]
            BY <1>1, <1>6, <2>2, TypesOf
        <3> QED
            BY <1>1, <1>6, <1>7, <2>2, <3>1, <3>2, TypesOf
    <2> QED
        BY <1>3, <2>1, <2>2
<1>9. /\ req' \in [Requests -> Request]
      /\ \A q \in Requests : DOMAIN req'[q].id = DOMAIN req'[q].obs
    BY <1>1, <1>3, IdleRequest, RequestTo
<1>10. lastPersisted \in [Buses -> 0..MaxFixes]
    BY <1>1, TypesOf
<1>11. lastPersisted' \in [Buses -> 0..MaxFixes]
    <2>1. \A v \in keep : obs[v].at \in 0..MaxFixes
        BY <1>4
    <2> QED
        BY <1>2, <1>10, <2>1
<1>12. faults' \in 0..MaxFaults /\ faults' >= faults
    BY <1>1, <1>3, FaultType, TypesOf
<1>13. Types' /\ MadeOK'
    BY <1>1, <1>2, <1>3, <1>8, <1>9, <1>11, <1>12, BookTypes, TypesOf
<1>14. \A v, n : Stored(v, n)' <=> Stored(v, n)
    BY <1>3 DEF Stored
<1>15. \A t \in 1..MaxBatches : \A x, v, n :
          Going(t, x, v, n)' => \/ Going(t, x, v, n)
                                \/ t = s /\ x \in rows /\ v \in keep /\ n = obs[v].at
    BY <1>5, <1>8 DEF Going
<1>16. MarkMeansKept'
    <2> SUFFICES ASSUME NEW v \in Buses, lastPersisted'[v] # 0
                 PROVE  \/ Stored(v, lastPersisted'[v])
                        \/ \E t \in 1..MaxBatches :
                              /\ ~batch'[t].rejected
                              /\ \E p \in batch'[t].left : p.bus = v /\ p.at = lastPersisted'[v]
        BY <1>3 DEF MarkMeansKept, Stored
    <2>1. CASE v \in keep
        <3>1. lastPersisted'[v] = obs[v].at
            BY <1>2, <2>1
        <3>2. s \in 1..MaxBatches /\ ~batch'[s].rejected
            BY <1>6, <1>8, <2>1
        <3>3. new(v) \in batch'[s].left
            BY <1>5, <1>8, <2>1, <3>2
        <3> QED
            BY <1>5, <2>1, <3>1, <3>2, <3>3
    <2>2. CASE v \notin keep
        <3>1. lastPersisted'[v] = lastPersisted[v]
            BY <1>2, <2>2
        <3>2. \A t \in 1..MaxBatches : batch[t].left # {} => batch'[t] = batch[t]
            BY <1>8
        <3> QED
            BY <1>1, <3>1, <3>2 DEF MarkMeansKept
    <2> QED
        BY <2>1, <2>2
\* An observation the filter keeps and that was handed over before is excused.
<1>17. ASSUME NEW v \in keep, Stored(v, obs[v].at) \/ InFlight(v, obs[v].at)
       PROVE  <<v, obs[v].at>> \in excused'
    <2>1. obs[v].at \in 1..MaxFixes /\ v \in Buses
        BY <1>2, <1>4
    <2>2. PICK m \in obs[v].at..MaxFixes : lastPersisted[v] = m \/ <<v, m>> \in excused
        BY <1>1, <1>17, <2>1 DEF HandedOK
    <2>3. CASE m = obs[v].at
        BY <1>2, <2>2, <2>3
    <2>4. CASE m # obs[v].at
        <3>1. m \in (obs[v].at + 1)..MaxFixes
            BY <2>1, <2>2, <2>4
        <3> QED
            BY <1>2, <2>2, <3>1
    <2> QED
        BY <2>3, <2>4
<1>18. HandedOK'
    <2>1. \A v, n : InFlight(v, n)' => InFlight(v, n) \/ (v \in keep /\ n = obs[v].at)
        BY <1>15 DEF InFlight
    <2>2. ASSUME NEW v \in Buses, NEW n \in 1..MaxFixes,
                 Stored(v, n) \/ InFlight(v, n) \/ (v \in keep /\ n = obs[v].at)
          PROVE  \E m \in n..MaxFixes : lastPersisted'[v] = m \/ <<v, m>> \in excused'
        <3>1. CASE v \in keep /\ n <= obs[v].at
            <4>1. lastPersisted'[v] = obs[v].at /\ obs[v].at \in n..MaxFixes
                BY <1>2, <1>4, <3>1
            <4> QED
                BY <4>1
        <3>2. CASE ~(v \in keep /\ n <= obs[v].at)
            <4>1. Stored(v, n) \/ InFlight(v, n)
                BY <2>2, <3>2
            <4>2. PICK m \in n..MaxFixes : lastPersisted[v] = m \/ <<v, m>> \in excused
                BY <1>1, <4>1 DEF HandedOK
            <4>3. CASE <<v, m>> \in excused
                BY <1>2, <4>3
            <4>4. CASE v \notin keep /\ lastPersisted[v] = m
                BY <1>2, <4>4
            <4>5. CASE v \in keep /\ lastPersisted[v] = m
                <5>1. obs[v].at \in 1..MaxFixes
                    BY <1>4, <4>5
                <5>2. m \in (obs[v].at + 1)..MaxFixes
                    BY <3>2, <4>5, <5>1
                <5> QED
                    BY <1>2, <4>5, <5>2
            <4> QED
                BY <4>2, <4>3, <4>4, <4>5
        <3> QED
            BY <3>1, <3>2
    <2> QED
        BY <1>14, <2>1, <2>2 DEF HandedOK
<1>19. OnceOK'
    <2> SUFFICES ASSUME NEW v \in Buses, NEW n \in 1..MaxFixes,
                        NEW t \in 1..MaxBatches, NEW x \in Position, Going(t, x, v, n)'
                 PROVE  /\ Stored(v, n)' => <<v, n>> \in excused'
                        /\ \A u \in 1..MaxBatches, other \in Position :
                              Going(u, other, v, n)' /\ <<u, other>> # <<t, x>>
                                  => <<v, n>> \in excused'
        BY DEF OnceOK
    <2>1. ASSUME Stored(v, n) PROVE <<v, n>> \in excused'
        <3>1. CASE Going(t, x, v, n)
            BY <1>1, <1>2, <2>1, <3>1 DEF OnceOK
        <3>2. CASE ~Going(t, x, v, n)
            BY <1>15, <1>17, <2>1, <3>2
        <3> QED
            BY <3>1, <3>2
    <2>2. ASSUME NEW u \in 1..MaxBatches, NEW other \in Position,
                 Going(u, other, v, n)', <<u, other>> # <<t, x>>
          PROVE  <<v, n>> \in excused'
        <3>1. CASE Going(t, x, v, n) /\ Going(u, other, v, n)
            BY <1>1, <1>2, <2>2, <3>1 DEF OnceOK
        <3>2. CASE ~Going(t, x, v, n) /\ ~Going(u, other, v, n)
            <4>1. t = s /\ u = s /\ x \in rows /\ other \in rows
                BY <1>15, <2>2, <3>2
            <4>2. x.bus = v /\ other.bus = v
                BY <2>2 DEF Going
            <4>3. x = other
                BY <1>5, <4>1, <4>2
            <4> QED
                BY <2>2, <4>1, <4>3
        <3>3. CASE Going(t, x, v, n) /\ ~Going(u, other, v, n)
            <4>1. InFlight(v, n)
                BY <3>3 DEF InFlight
            <4> QED
                BY <1>15, <1>17, <2>2, <3>3, <4>1
        <3>4. CASE ~Going(t, x, v, n) /\ Going(u, other, v, n)
            <4>1. InFlight(v, n)
                BY <3>4 DEF InFlight
            <4> QED
                BY <1>15, <1>17, <3>4, <4>1
        <3> QED
            BY <3>1, <3>2, <3>3, <3>4
    <2> QED
        BY <1>14, <2>1, <2>2
<1>20. DuplicateHasCause'
    BY <1>1, <1>2, <1>3 DEF DuplicateHasCause, Twice
<1> QED
    BY <1>13, <1>16, <1>18, <1>19, <1>20 DEF TrackInv

-----------------------------------------------------------------------------
(* Theorems                                                                *)

LEMMA TrackingStep == TrackInv /\ [Next]_vars => TrackInv'
<1> SUFFICES ASSUME TrackInv, [Next]_vars PROVE TrackInv'
    OBVIOUS
<1>1. CASE BusNext /\ UNCHANGED nodeVars
    BY <1>1, BusStepKeeps
<1>2. ASSUME NEW r \in Requests, Handle(r) PROVE TrackInv'
    BY <1>2, FetchKeeps, RespondKeeps, FindKeeps, CreateKeeps, RejectedKeeps DEF Handle
<1>3. ASSUME NEW v \in Buses, StrayUpsert(v) PROVE TrackInv'
    BY <1>3, StrayKeeps
<1>4. ASSUME NEW s \in 1..MaxBatches, Settled(s) PROVE TrackInv'
    BY <1>4, DoneKeeps, FailedKeeps DEF Settled
<1>5. CASE EditNext
    BY <1>5, EditKeeps
<1>6. CASE Stop
    BY <1>6, LostKeeps DEF Stop
<1>7. CASE Start
    BY <1>7, StartKeeps
<1>8. CASE CrashRestart
    <2>1. life' \in {"up", "stopped"}
        BY <1>8 DEF CrashRestart
    <2> QED
        BY <1>8, <2>1, LostKeeps DEF CrashRestart
<1>9. CASE UNCHANGED vars
    <2>1. Types /\ MadeOK
        BY DEF TrackInv
    <2>2. MadeOK'
        BY <1>9, <2>1 DEF MadeOK, HasRow, vars, nodeVars
    <2> QED
        BY <1>9, <2>1, <2>2, QuietKeeps, TypesOf DEF vars, nodeVars, record
<1> QED
    BY <1>1, <1>2, <1>3, <1>4, <1>5, <1>6, <1>7, <1>8, <1>9 DEF Next

\* The inductive invariant holds of everything the Node service and the bus
\* positions do together.
THEOREM TrackingInvariance == Spec => []TrackInv
BY TrackingStart, TrackingStep, PTL DEF Spec

\* Every variable keeps its type: a bus never makes more rows than the edits and
\* restarts explain, and no bound is overrun.
THEOREM TrackingTypeCorrect == Spec => []TypeOK
<1>1. TrackInv => TypeOK
    <2> SUFFICES ASSUME TrackInv PROVE TypeOK
        OBVIOUS
    <2>1. Types /\ MadeOK
        BY DEF TrackInv
    <2>2. BusTypeOK
        BY <2>1, MapsOf DEF Types, BusOK, BusTypeOK
    <2>3. ASSUME NEW v \in Buses PROVE made[v] \in 0..(MaxFaults + 2)
        BY <2>1, TrackingAssumption DEF Types, MadeOK
    <2>4. made \in [Buses -> 0..(MaxFaults + 2)]
        BY <2>1, <2>3, TypesOf
    <2>5. ASSUME NEW r \in Requests
          PROVE  /\ req[r].pc \in {"idle", "upsert"}
                 /\ \A v \in DOMAIN req[r].obs : req[r].obs[v] \in Observation
                 /\ DOMAIN req[r].id = DOMAIN req[r].obs
                 /\ \A v \in DOMAIN req[r].id : req[r].id[v] \in Ids \cup {Unknown, Absent}
        BY <2>1, TypesOf, RequestFields DEF NodeIds
    <2>6. ASSUME NEW s \in 1..MaxBatches
          PROVE  batch[s].pending \subseteq Position /\ batch[s].left \subseteq batch[s].pending
        BY <2>1, TypesOf, BatchFields
    <2> QED
        BY <2>1, <2>2, <2>4, <2>5, <2>6, TypesOf DEF TypeOK
<1> QED
    BY <1>1, TrackingInvariance, PTL

\* The filter of persistAuthoritativeObservations() passes over an observation only
\* while it is stored, or being stored in a batch that takes the mark back on failure.
THEOREM MarkNeverForgets == Spec => []MarkMeansKept
<1>1. TrackInv => MarkMeansKept
    BY DEF TrackInv
<1> QED
    BY <1>1, TrackingInvariance, PTL

\* An observation is stored twice only after a failed insertion, the end of the process
\* or an overtaken older snapshot took its mark away, whatever requests overlap.
THEOREM StoredTwiceHasCause == Spec => []DuplicateHasCause
<1>1. TrackInv => DuplicateHasCause
    BY DEF TrackInv
<1> QED
    BY <1>1, TrackingInvariance, PTL

=============================================================================
