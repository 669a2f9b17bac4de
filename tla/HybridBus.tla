----------------------------- MODULE HybridBus -----------------------------
(***************************************************************************)
(* The bus positions of services/routing-tracking (hybrid_bus.py) and      *)
(* their normalized form (telemetry.py), as the Node service fetches them. *)
(*                                                                         *)
(* One collector thread polls the live feed and publishes a snapshot about *)
(* every second.  While live fixes fail to come a bus is moved along a     *)
(* recorded trace ("interpolated"); after the next fix it glides from      *)
(* there to the reported place ("reconciling").  A location is abstracted  *)
(* to whether it is the one the newest fix reported or one computed here;  *)
(* the time of a fix is its number.                                        *)
(***************************************************************************)
EXTENDS Integers, FiniteSets

CONSTANTS
    Buses,        \* the selected vehicle of each configured line
    Recorded,     \* the buses whose line has a recorded trace
    MaxFixes      \* bound: changed live fixes of all buses together

ASSUME BusAssumption ==
    IsFiniteSet(Buses) /\ Recorded \subseteq Buses /\ MaxFixes \in Nat

VARIABLES
    bus,          \* HybridBusService.states
    snapshot      \* HybridBusService._snapshot as BimsLiveSource maps it

busVars == <<bus, snapshot>>

Sources == {"waiting", "live", "interpolated", "reconciling", "hidden"}

\* fix numbers live_observed_at_utc.  traced: a trace runs near enough to the
\* fix (max_alignment_m).  A glide is on (reconcile_started_mono) exactly while
\* the source is "reconciling", a replay (fallback_*) while "interpolated".
BusState == [fix : 0..MaxFixes, traced : BOOLEAN, source : Sources]

Labels == {"BIMS_LIVE", "BIMS_REPLAY"}

\* TelemetryObservation: the time of the fix, whether the location is the one
\* that fix reported, and telemetry_source.
Observation == [at : 1..MaxFixes, exact : BOOLEAN, label : Labels]

Empty == [v \in {} |-> 0]    \* a snapshot with no vehicles

BusTypeOK ==
    /\ bus \in [Buses -> BusState]
    /\ DOMAIN snapshot \subseteq Buses
    /\ \A v \in DOMAIN snapshot : snapshot[v] \in Observation

Waiting == [v \in Buses |-> [fix |-> 0, traced |-> FALSE, source |-> "waiting"]]

BusInit == bus = Waiting /\ snapshot = Empty

----------------------------------------------------------------------------

\* The changed fixes so far, for MaxFixes to bound.
Fixes == {e \in Buses \X (1..MaxFixes) : e[2] <= bus[e[1]].fix}

\* A payload with a changed signature of the selected vehicle.  A bus that was
\* shown at a computed place glides to the reported one, any other jumps.
\* (An absent vehicle or an unchanged signature only sets the warning.)
AcceptPayload(v) ==
    /\ Cardinality(Fixes) < MaxFixes
    /\ \E near \in IF v \in Recorded THEN BOOLEAN ELSE {FALSE} :
        bus' = [bus EXCEPT ![v] =
            [fix |-> @.fix + 1, traced |-> near,
             source |-> IF @.source \in {"interpolated", "reconciling"}
                        THEN "reconciling" ELSE "live"]]
    /\ UNCHANGED snapshot

\* _position_state: what the bus is shown as next.  passed: the time this
\* waits for has passed, reconcile_s for a glide, stale_after_s for a live bus.
NextSource(b, passed) ==
    CASE b.source = "reconciling" -> IF passed THEN "live" ELSE "reconciling"
      [] b.source = "live" /\ passed -> IF b.traced THEN "interpolated" ELSE "hidden"
      [] OTHER -> b.source

\* A glide ends at the fix projected on the trace when one is near enough;
\* a live bus is put where the fix reported it.
ShownExactly(b, passed) ==
    /\ NextSource(b, passed) = "live"
    /\ b.source = "reconciling" => ~b.traced

Label(source) ==
    IF source \in {"live", "reconciling"} THEN "BIMS_LIVE" ELSE "BIMS_REPLAY"

\* _emit moves every bus and publishes those that are shown, each with the
\* time of its newest fix.
Emit ==
    \E due \in SUBSET {v \in Buses : bus[v].source \in {"live", "reconciling"}} :
        LET moved(v) == NextSource(bus[v], v \in due)
            shown    == {v \in Buses : moved(v) \notin {"waiting", "hidden"}}
        IN /\ bus' = [v \in Buses |-> [bus[v] EXCEPT !.source = moved(v)]]
           /\ snapshot' = [v \in shown |->
                 [at    |-> bus[v].fix,
                  exact |-> ShownExactly(bus[v], v \in due),
                  label |-> Label(moved(v))]]

BusNext == \/ \E v \in Buses : AcceptPayload(v)
           \/ Emit

=============================================================================
