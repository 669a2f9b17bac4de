------------------------------ MODULE Tracking ------------------------------
(***************************************************************************)
(* The control backend (node/src) as a reader of the bus positions:        *)
(* GET /tracking/vehicles fetches a snapshot from routing-tracking, finds  *)
(* or creates a vehicle row for every bus in it, starts the insertion of   *)
(* the observations that were not stored yet, and answers without waiting  *)
(* for them.  Requests of several dashboards overlap, administrators edit  *)
(* the vehicles meanwhile, and the process may be stopped or restarted     *)
(* with insertions in flight.                                              *)
(*                                                                         *)
(* The tables survive a restart; lastPersisted, the requests and the       *)
(* batches are the process's.  HybridBus is the other side of the fetch.   *)
(***************************************************************************)
EXTENDS HybridBus, Bags

CONSTANTS
    Requests,     \* bound: handlers of GET /tracking/vehicles at one time
    MaxBatches,   \* bound: batches of insertions in flight
    MaxFaults,    \* bound: restarts, failures and edits, all together
    Typed         \* bound: the buses whose ids administrators type in

ASSUME TrackingAssumption == MaxBatches \in Nat /\ MaxFaults \in Nat /\ Typed \subseteq Buses

VARIABLES
    vehicle,      \* table vehicle, as far as its two unique keys
    made,         \* how many rows were made for each bus: its id sequence
    position,     \* table vehicle_position, a bag of rows
    lastPersisted,\* the Map of tracking.persistence.ts, 0 for no entry
    req,          \* getVehicles() calls
    stray,        \* upserts that go on after their request was answered
    batch,        \* Promise.all of insertions, by slot
    life,         \* of the server process
    faults,       \* how many of the faults have happened
    excused       \* history: <<bus, time>> with a known cause to be stored again

nodeVars == <<vehicle, made, position, lastPersisted, req, stray, batch,
              life, faults, excused>>
vars == <<busVars, nodeVars>>

----------------------------------------------------------------------------

None == "none"               \* NULL in externalId
Own  == "own"                \* a vehicleCode that no bus would be given

\* Ids are only compared: an id names the bus it was made for and how many were
\* made for it before.
Ids == Buses \X (0..(MaxFaults + 1))

\* code = v stands for "BIMS-" followed by v's external id.
Row == [id : Ids, code : Buses \cup {Own}, src : {"BIMS", "CUSTOM"},
        ext : Buses \cup {None}]

\* A row of vehicle_position, with the bus it tells of.
Position == [bus : Buses, vid : Ids, at : 1..MaxFixes,
             exact : BOOLEAN, label : Labels]

\* Before its lookup a bus's vehicle is Unknown, after one that found no row
\* it is Absent; from then on it is the row's id.
Unknown == <<>>
Absent  == <<"absent">>

Idle == [pc |-> "idle", obs |-> Empty, id |-> Empty]
NoBatch == [pending |-> {}, left |-> {}, rejected |-> FALSE]

TypeOK ==
    /\ BusTypeOK
    /\ vehicle \subseteq Row
    /\ made \in [Buses -> 0..(MaxFaults + 2)]
    /\ IsABag(position) /\ DOMAIN position \subseteq Position
    /\ lastPersisted \in [Buses -> 0..MaxFixes]
    /\ \A r \in Requests :
          /\ req[r].pc \in {"idle", "upsert"}
          /\ \A v \in DOMAIN req[r].obs : req[r].obs[v] \in Observation
          /\ DOMAIN req[r].id = DOMAIN req[r].obs
          /\ \A v \in DOMAIN req[r].id : req[r].id[v] \in Ids \cup {Unknown, Absent}
    /\ stray \subseteq Buses
    /\ \A s \in 1..MaxBatches : /\ batch[s].pending \subseteq Position
                                /\ batch[s].left \subseteq batch[s].pending
    /\ life \in {"up", "stopped"} /\ faults \in 0..MaxFaults
    /\ excused \subseteq Buses \X (1..MaxFixes)

Init ==
    /\ BusInit
    /\ vehicle = {} /\ made = [v \in Buses |-> 0] /\ position = EmptyBag
    /\ lastPersisted = [v \in Buses |-> 0]
    /\ req = [r \in Requests |-> Idle]
    /\ stray = {}
    /\ batch = [s \in 1..MaxBatches |-> NoBatch]
    /\ life = "up" /\ faults = 0
    /\ excused = {}

----------------------------------------------------------------------------
(* The vehicle table and its unique keys: (code) and (src, ext).           *)

Conflicts(row, rows) ==
    \E o \in rows : \/ o.code = row.code
                    \/ o.src = row.src /\ o.ext = row.ext /\ o.ext # None

\* vehicleSource_externalId, the key of the upsert.
Named(v) == {o \in vehicle : o.src = "BIMS" /\ o.ext = v}

Fault == faults < MaxFaults /\ faults' = faults + 1

NewId(v) == <<v, made[v]>>

BimsRow(v) == [id |-> NewId(v), code |-> v, src |-> "BIMS", ext |-> v]

Insert(row) == /\ vehicle' = vehicle \cup {row}
               /\ made' = [made EXCEPT ![row.id[1]] = @ + 1]

----------------------------------------------------------------------------
(* GET /tracking/vehicles                                                  *)

\* A dashboard polls and routing-tracking answers with its snapshot of that
\* moment.  (If it does not in 4 s, or not with 200, the answer is 503 and
\* nothing is left of the request.)
Fetch(r) ==
    /\ req[r].pc = "idle" /\ life = "up"
    /\ req' = [req EXCEPT ![r] = [pc |-> "upsert", obs |-> snapshot,
                 id |-> [v \in DOMAIN snapshot |-> Unknown]]]
    /\ UNCHANGED <<busVars, vehicle, made, position, lastPersisted, stray,
                   batch, life, faults, excused>>

\* The upserts of a request run side by side.  Each selects relations, so it
\* is a SELECT and then an INSERT or an UPDATE (of vehicleStatus), not one
\* statement.
FindVehicle(r, v) ==
    /\ req[r].pc = "upsert" /\ v \in DOMAIN req[r].id
    /\ req[r].id[v] = Unknown
    /\ req' = [req EXCEPT ![r].id[v] =
                 IF Named(v) = {} THEN Absent
                 ELSE (CHOOSE o \in Named(v) : TRUE).id]
    /\ UNCHANGED <<busVars, vehicle, made, position, lastPersisted, stray,
                   batch, life, faults, excused>>

CreateVehicle(r, v) ==
    /\ req[r].pc = "upsert" /\ v \in DOMAIN req[r].id
    /\ req[r].id[v] = Absent
    /\ ~Conflicts(BimsRow(v), vehicle)
    /\ Insert(BimsRow(v))
    /\ req' = [req EXCEPT ![r].id[v] = NewId(v)]
    /\ UNCHANGED <<busVars, position, lastPersisted, stray, batch, life,
                   faults, excused>>

\* Promise.all rejects with the first failed upsert (a unique key: 409; the
\* row deleted since, or the database: 404, 500) and the request is answered.
\* What was started for the other buses goes on (it matters for those that
\* still have no row).
UpsertRejected(r, v) ==
    /\ req[r].pc = "upsert" /\ v \in DOMAIN req[r].id
    /\ \/ req[r].id[v] = Absent /\ Conflicts(BimsRow(v), vehicle) /\ UNCHANGED faults
       \/ req[r].id[v] \in {Unknown, Absent} /\ Fault
    /\ stray' = stray \cup {w \in DOMAIN req[r].id \ {v} :
                    req[r].id[w] \in {Unknown, Absent} /\ Named(w) = {}}
    /\ req' = [req EXCEPT ![r] = Idle]
    /\ UNCHANGED <<busVars, vehicle, made, position, lastPersisted,
                   batch, life, excused>>

StrayUpsert(v) ==
    /\ v \in stray
    /\ stray' = stray \ {v}
    /\ IF Conflicts(BimsRow(v), vehicle) THEN UNCHANGED <<vehicle, made>>
       ELSE Insert(BimsRow(v))
    /\ UNCHANGED <<busVars, position, lastPersisted, req, batch, life,
                   faults, excused>>

----------------------------------------------------------------------------
(* persistAuthoritativeObservations                                        *)

Stored(v, n) == \E p \in BagToSet(position) : p.bus = v /\ p.at = n

\* Promise.all of the upserts.
EarlyReady(r) == req[r].pc = "upsert"    \* mutant: not awaited
Ready(r) == /\ req[r].pc = "upsert"
            /\ \A v \in DOMAIN req[r].id : req[r].id[v] \notin {Unknown, Absent}

\* What the filter keeps of a snapshot.
UnmarkedFresh(obs) == DOMAIN obs                                    \* mutant
FirstFresh(obs) == {v \in DOMAIN obs : lastPersisted[v] = 0}        \* mutant
Fresh(obs) == {v \in DOMAIN obs : lastPersisted[v] # obs[v].at}

\* All upserts are done.  The filter marks what it keeps and the insertions
\* start; the request is answered.  An observation older than the mark (of an
\* overlapping request) replaces it: both may then be stored again.
Respond(r) ==
    LET obs  == req[r].obs
        keep == Fresh(obs)
        late == {v \in keep : \E n \in (obs[v].at + 1)..MaxFixes :
                    lastPersisted[v] = n \/ Stored(v, n) \/ <<v, n>> \in excused}
        rows == {[bus |-> v, vid |-> req[r].id[v], at |-> obs[v].at,
                  exact |-> obs[v].exact, label |-> obs[v].label] : v \in keep}
    IN  /\ Ready(r)
        /\ lastPersisted' = [v \in Buses |->
                                IF v \in keep THEN obs[v].at ELSE lastPersisted[v]]
        /\ \/ keep = {} /\ UNCHANGED batch
           \/ /\ keep # {}
              /\ \E s \in 1..MaxBatches :
                  /\ batch[s] = NoBatch
                  /\ \A t \in 1..(s - 1) : batch[t] # NoBatch
                  /\ batch' = [batch EXCEPT ![s] =
                         [pending |-> rows, left |-> rows, rejected |-> FALSE]]
        /\ excused' = excused \cup {<<v, obs[v].at>> : v \in late}
              \cup {<<v, lastPersisted[v]>> : v \in {w \in late : lastPersisted[w] # 0}}
        /\ req' = [req EXCEPT ![r] = Idle]
        /\ UNCHANGED <<busVars, vehicle, made, position, stray, life,
                       faults>>

\* The slot is free again when the last insertion has ended.
Settle(s, row, rejected) ==
    IF batch[s].left = {row} THEN [batch EXCEPT ![s] = NoBatch]
    ELSE [batch EXCEPT ![s].left = @ \ {row}, ![s].rejected = rejected]

HasVehicle(row) == \E o \in vehicle : o.id = row.vid

InsertDone(s, row) ==
    /\ row \in batch[s].left
    /\ HasVehicle(row)                       \* the foreign key
    /\ position' = position (+) SetToBag({row})
    /\ batch' = Settle(s, row, batch[s].rejected)
    /\ UNCHANGED <<busVars, vehicle, made, lastPersisted, req, stray, life,
                   faults, excused>>

\* The first failed insertion of a batch rejects its Promise.all: the marks of
\* all its observations are deleted, whichever insertion they come from now.
OwnUnmarked(s, row) == IF batch[s].rejected THEN {} ELSE {row.bus}  \* mutant
Unmarked(s, row) ==
    IF batch[s].rejected THEN {} ELSE {p.bus : p \in batch[s].pending}

InsertFailed(s, row) ==
    LET unmarked == Unmarked(s, row)
    IN  /\ row \in batch[s].left
        /\ \/ ~HasVehicle(row) /\ UNCHANGED faults
           \/ HasVehicle(row) /\ Fault
        /\ lastPersisted' = [v \in Buses |->
                                IF v \in unmarked THEN 0 ELSE lastPersisted[v]]
        /\ excused' = excused \cup {<<v, lastPersisted[v]>> :
                                v \in {w \in unmarked : lastPersisted[w] # 0}}
        /\ batch' = Settle(s, row, TRUE)
        /\ UNCHANGED <<busVars, vehicle, made, position, req, stray, life>>

----------------------------------------------------------------------------
(* POST, PATCH and DELETE /vehicles, of an administrator.  Refused edits   *)
(* (409 for a key, 404 for a missing row, 500 for the foreign key) change  *)
(* nothing.                                                                *)

Edit == life = "up" /\ Fault

notEdited == <<busVars, position, lastPersisted, req, stray, batch, life, excused>>

PostVehicle(row) ==
    /\ Edit
    /\ ~Conflicts(row, vehicle)
    /\ Insert(row)
    /\ UNCHANGED notEdited

\* The body's schema is the partial create schema, which fills in the default
\* vehicleSource: every PATCH writes the source, CUSTOM if it names none.
PatchVehicle(old, row) ==
    /\ Edit
    /\ row.id = old.id /\ row # old
    /\ ~Conflicts(row, vehicle \ {old})
    /\ vehicle' = (vehicle \ {old}) \cup {row}
    /\ UNCHANGED <<notEdited, made>>

\* ON DELETE RESTRICT of vehicle_position.
DeleteVehicle(row) ==
    /\ Edit
    /\ \A p \in BagToSet(position) : p.vid # row.id
    /\ vehicle' = vehicle \ {row}
    /\ UNCHANGED <<notEdited, made>>

----------------------------------------------------------------------------
(* server.ts                                                               *)

\* What ends with the process.
ProcessLost ==
    /\ req' = [r \in Requests |-> Idle]
    /\ stray' = {}
    /\ batch' = [s \in 1..MaxBatches |-> NoBatch]
    /\ lastPersisted' = [v \in Buses |-> 0]
    /\ excused' = excused \cup {<<v, lastPersisted[v]>> :
                            v \in {w \in Buses : lastPersisted[w] # 0}}
    /\ UNCHANGED <<vehicle, made, position>>

\* After SIGTERM or SIGINT server.close() waits until no request is left (a
\* connection that carries one stays open and may bring another, so until then
\* nothing differs), and prisma.$disconnect() ends the connection pool:
\* insertions in flight are not waited for.
Stop ==
    /\ life = "up"
    /\ \A r \in Requests : req[r].pc = "idle"
    /\ life' = "stopped"
    /\ ProcessLost
    /\ UNCHANGED <<busVars, faults>>

Start ==
    /\ life = "stopped"
    /\ Fault
    /\ life' = "up"
    /\ UNCHANGED <<busVars, vehicle, made, position, lastPersisted, req,
                   stray, batch, excused>>

\* The process is killed and started again.
CrashRestart ==
    /\ life = "up"
    /\ Fault
    /\ ProcessLost
    /\ UNCHANGED <<busVars, life>>

----------------------------------------------------------------------------

Handle(r) ==
    \/ Fetch(r) \/ Respond(r)
    \/ \E v \in Buses : FindVehicle(r, v) \/ CreateVehicle(r, v) \/ UpsertRejected(r, v)

Settled(s) == \E row \in batch[s].left : InsertDone(s, row) \/ InsertFailed(s, row)

\* An administrator enters a vehicle under a bus's default code, changes the
\* source of a bus's vehicle, or deletes it.
EditNext ==
    \/ \E v \in Typed :
         PostVehicle([id |-> NewId(v), code |-> v, src |-> "CUSTOM", ext |-> None])
    \/ \E old \in {o \in vehicle : o.ext \in Typed \/ o.code \in Typed} :
         \/ \E src \in {"BIMS", "CUSTOM"} : PatchVehicle(old, [old EXCEPT !.src = src])
         \/ DeleteVehicle(old)

Next ==
    \/ BusNext /\ UNCHANGED nodeVars
    \/ \E r \in Requests : Handle(r)
    \/ \E v \in Buses : StrayUpsert(v)
    \/ \E s \in 1..MaxBatches : Settled(s)
    \/ EditNext
    \/ Stop \/ Start \/ CrashRestart

\* Dashboards poll every 3 s and some of the polls are answered by
\* routing-tracking; the database answers what is asked of it.  Nothing is
\* assumed of the order among requests or among insertions.
Fairness == /\ WF_vars(\E r \in Requests : Handle(r))
            /\ WF_vars(\E s \in 1..MaxBatches : Settled(s))

Spec == Init /\ [][Next]_vars /\ Fairness

----------------------------------------------------------------------------
(* Properties                                                              *)

Twice(v, n) ==
    \E p, q \in {o \in BagToSet(position) : o.bus = v /\ o.at = n} :
        p # q \/ position[p] > 1

\* A mark keeps an observation from being stored again, so it may stand only
\* while the observation is stored or is being stored in a batch that will
\* still take the mark back.
MarkMeansKept ==
    \A v \in Buses :
        lastPersisted[v] # 0 =>
            \/ Stored(v, lastPersisted[v])
            \/ \E s \in 1..MaxBatches :
                  /\ ~batch[s].rejected
                  /\ \E p \in batch[s].left : p.bus = v /\ p.at = lastPersisted[v]

\* However requests overlap, no observation is stored twice unless a failed
\* insertion, the end of the process or an overtaken older snapshot has taken
\* its mark away.
DuplicateHasCause ==
    \A v \in Buses, n \in 1..MaxFixes : Twice(v, n) => <<v, n>> \in excused

\* A row that holds the default code of a shown bus without being its row: the
\* upsert of that bus fails, and every request with it.
Blocked == \E v \in DOMAIN snapshot :
              Conflicts(BimsRow(v), vehicle) /\ Named(v) = {}

\* Every bus that stays in the snapshot gets its newest observation stored,
\* whatever failed before, unless the identity of a shown bus is blocked or
\* the server has stopped.
EventuallyRecorded ==
    \A v \in Buses :
        []<>(\/ v \notin DOMAIN snapshot
             \/ Stored(v, snapshot[v].at)
             \/ Blocked
             \/ life = "stopped")

\* docs/integration/plan/ITS_INTEGRATION_OVERVIEW_PLAN.md:319: "Persist
\* authoritative source observations/history [...] Keep high-frequency render
\* interpolation transient": the location of a row that is stored as live is
\* the one observed at the time it is stored with.
RecordedWhereObserved ==
    \A p \in BagToSet(position) : p.label = "BIMS_LIVE" => p.exact

=============================================================================
