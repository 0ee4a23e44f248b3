------------------------------- MODULE Travel -------------------------------
(***************************************************************************)
(* Where one soul goes: expeditions (server/expeditions.py), carries by    *)
(* its tamer (server/affection.py), moves (WorldTick._adjudicate_move_to), *)
(* and the plots whose owners may close them (server/plots.py), in the     *)
(* order of WorldTick.step: the pump, the trigger sweep, the expeditions,  *)
(* biology, and the physics that actually moves the soul.                  *)
(*                                                                         *)
(* The plots lie in a row and a position is the plot it is in.  Clocks     *)
(* (dwell, cooldown, EXPEDITION_MAX_S) are flags that time sets.           *)
(***************************************************************************)
EXTENDS Integers, Sequences

CONSTANTS
    LastPlot,   \* plots are 0..LastPlot
    Start,      \* plot the soul is in at first
    Foreign,    \* plots of others, who may close them
    NoPlot,
    DestMin     \* DEST_MIN_DIST

Plots == 0..LastPlot

ASSUME TravelConstants ==
    /\ LastPlot \in Nat /\ DestMin \in Nat \ {0}
    /\ Start \in Plots /\ Foreign \subseteq Plots /\ NoPlot \notin Plots

VARIABLES
    at,       \* plot of the true position (overlay)
    table,    \* plot of souls.position, written behind
    goal,     \* plot of move_target; NoPlot: the soul stands
    home,     \* soul_home_plots
    own,      \* plots claimed by the soul
    closed,   \* plots with access_policy 'closed'
    exp,      \* the active expedition: [phase, home, way, idx, dwell]
    late,     \* EXPEDITION_MAX_S have passed since started_at
    cooling,  \* EXPEDITION_COOLDOWN_S have not passed since ended_at
    carry,    \* origin plot of the carry session, or NoPlot
    escaped,  \* ESCAPE_REGRAB_COOLDOWN_S have not passed since an escape
    fallen,   \* state 'collapsed'
    funded,   \* not dormant
    stage     \* where the step is: "pump", "swept" or "body"

body == <<fallen, funded>>
land == <<home, own, closed>>
trip == <<exp, late, cooling>>
hand == <<carry, escaped>>
travelVars == <<at, table, goal, land, trip, hand, body, stage>>

Phases == {"none", "departing", "abroad", "returning"}
Active == exp.phase # "none"
Frozen == carry # NoPlot \/ fallen \/ ~funded

(* can_enter_plot                                                          *)
Enterable(p) == p \notin closed \/ p \in own

Toward(p, q) == IF q > p THEN p + 1 ELSE IF q < p THEN p - 1 ELSE p
Span(p, q) == IF q > p THEN q - p ELSE p - q
Between(p, q) == IF q > p THEN p..q ELSE q..p

(* route_plots without its first plot, which is what the waypoints are.    *)
RouteOpen(p, q) == \A r \in Between(p, q) \ {p} : Enterable(r)
Way(p, q) == [i \in 1..Span(p, q) |-> IF q > p THEN p + i ELSE p - i]

(* No row of expeditions is active: what ended ones hold is not read again *)
(* but for ended_at.                                                       *)
NoTrip == [phase |-> "none", home |-> Start, way |-> << >>, idx |-> 1, dwell |-> "no"]

TravelInit ==
    /\ at = Start /\ table = Start /\ goal = NoPlot
    /\ home = NoPlot /\ own = {} /\ closed = {}
    /\ exp = NoTrip
    /\ late = FALSE /\ cooling = FALSE
    /\ carry = NoPlot /\ escaped = FALSE
    /\ fallen = FALSE /\ funded = TRUE
    /\ stage = "pump"

-----------------------------------------------------------------------------
(* The pump.                                                               *)
Pump == stage = "pump"

(* _adjudicate_move_to: the destination must be enterable; the target is   *)
(* then cut to the reachable radius.                                       *)
MoveTo(p) ==
    /\ Pump
    /\ ~fallen /\ funded /\ carry = NoPlot
    /\ Enterable(p)
    /\ \E g \in Between(at, p) : goal' = g
    /\ UNCHANGED <<at, table, land, trip, hand, body, stage>>

(* rest and wait                                                           *)
Stand ==
    /\ Pump
    /\ goal # NoPlot
    /\ goal' = NoPlot
    /\ UNCHANGED <<at, table, land, trip, hand, body, stage>>

Touchable == ~fallen /\ funded

(* _check_custody drops the session of a soul that may not be touched.     *)
TouchRefused ==
    /\ Pump
    /\ ~Touchable
    /\ carry # NoPlot
    /\ carry' = NoPlot
    /\ UNCHANGED <<at, table, goal, land, trip, escaped, body, stage>>

(* _write_position                                                         *)
PutDown == goal' = NoPlot /\ table' = at

Grab ==
    /\ Pump
    /\ Touchable /\ carry = NoPlot /\ ~escaped
    /\ carry' = at
    /\ PutDown
    /\ UNCHANGED <<at, land, trip, escaped, body, stage>>

(* The transaction of a grab is rolled back and the intent rejected; the   *)
(* session and the overlay remain.                                         *)
GrabRolledBack ==
    /\ Pump
    /\ Touchable /\ carry = NoPlot /\ ~escaped
    /\ carry' = at
    /\ goal' = NoPlot
    /\ UNCHANGED <<at, table, land, trip, escaped, body, stage>>

(* Mutant: the border of the plot is not checked.                          *)
DragAnywhere ==
    /\ Pump
    /\ Touchable /\ carry # NoPlot
    /\ at' \in {p \in Plots : Span(at, p) <= 1}
    /\ goal' = NoPlot /\ table' = at'
    /\ UNCHANGED <<land, trip, hand, body, stage>>

(* A drag stays on the plot of the grab.                                   *)
Drag ==
    /\ Pump
    /\ Touchable /\ carry # NoPlot
    /\ at' = carry
    /\ goal' = NoPlot /\ table' = at'
    /\ UNCHANGED <<land, trip, hand, body, stage>>

Escape ==
    /\ Pump
    /\ Touchable /\ carry # NoPlot
    /\ carry' = NoPlot /\ escaped' = TRUE
    /\ PutDown
    /\ UNCHANGED <<at, land, trip, body, stage>>

Release ==
    /\ Pump
    /\ Touchable /\ carry # NoPlot
    /\ carry' = NoPlot
    /\ UNCHANGED <<at, table, goal, land, trip, escaped, body, stage>>

(* _apply_claim makes the plot the soul's home; plot_set_policy.           *)
Claim(p) ==
    /\ Pump
    /\ p \notin own \cup Foreign
    /\ own' = own \cup {p}
    /\ home' = p
    /\ UNCHANGED <<at, table, goal, closed, trip, hand, body, stage>>

SetPolicy(p) ==
    /\ Pump
    /\ p \in own \cup Foreign
    /\ closed' = IF p \in closed THEN closed \ {p} ELSE closed \cup {p}
    /\ UNCHANGED <<at, table, goal, home, own, trip, hand, body, stage>>

Funding ==
    /\ Pump
    /\ funded' = ~funded
    /\ UNCHANGED <<at, table, goal, land, trip, hand, fallen, stage>>

-----------------------------------------------------------------------------
(* maybe_trigger: eligibility and the home check read the table, not the   *)
(* overlay.                                                                *)
HomeNow == IF home = NoPlot THEN table ELSE home

(* start_expedition                                                        *)
Begun(d) ==
    /\ home' = HomeNow
    /\ exp' = [phase |-> "departing", home |-> HomeNow, way |-> Way(HomeNow, d),
               idx |-> 1, dwell |-> "no"]

Trigger(d) ==
    /\ Pump
    /\ ~fallen /\ funded /\ carry = NoPlot
    /\ ~Active /\ ~cooling
    /\ table = HomeNow
    /\ Span(HomeNow, d) >= DestMin
    /\ RouteOpen(HomeNow, d)
    /\ Begun(d)
    /\ stage' = "swept"
    /\ UNCHANGED <<at, table, goal, own, closed, late, cooling, hand, body>>

-----------------------------------------------------------------------------
(* advance_tick                                                            *)
Advancing == stage \in {"pump", "swept"}

AdvanceDone(moved) ==
    /\ stage' = "body"
    /\ UNCHANGED <<at, table, land, hand, body>>
    /\ moved \/ UNCHANGED goal

Steer(p) == goal' = IF p = at THEN NoPlot ELSE p

(* Done or cancelled.                                                      *)
Ended ==
    /\ exp' = NoTrip
    /\ cooling' = TRUE /\ late' = FALSE
    /\ goal' = NoPlot

Walking == Advancing /\ Active /\ ~Frozen

NotWalking ==
    /\ Advancing
    /\ ~Active \/ Frozen
    /\ UNCHANGED trip
    /\ AdvanceDone(FALSE)

(* Mutant: a trip past its time is sent home again and again.              *)
TimeoutKeepsReturning ==
    /\ Walking /\ late
    /\ \/ /\ exp.phase = "returning" \/ RouteOpen(at, exp.home)
          /\ exp' = [exp EXCEPT !.phase = "returning", !.way = Way(at, exp.home),
                                !.idx = 1]
          /\ UNCHANGED <<goal, late, cooling>>
       \/ /\ exp.phase # "returning" /\ ~RouteOpen(at, exp.home)
          /\ Ended
    /\ AdvanceDone(TRUE)

(* Past its time a trip is sent home, or cancelled when it is on its way   *)
(* home already or no way exists.  started_at stays, so the trip that is   *)
(* sent home is cancelled by the next tick.                                *)
Timeout ==
    /\ Walking /\ late
    /\ \/ /\ exp.phase # "returning" /\ RouteOpen(at, exp.home)
          /\ exp' = [exp EXCEPT !.phase = "returning", !.way = Way(at, exp.home),
                                !.idx = 1]
          /\ UNCHANGED <<goal, late, cooling>>
       \/ /\ exp.phase = "returning" \/ ~RouteOpen(at, exp.home)
          /\ Ended
    /\ AdvanceDone(TRUE)

(* Mutant: a departing soul is steered before the plot is looked at.       *)
DepartBlindly ==
    /\ Walking /\ ~late /\ exp.phase = "departing"
    /\ Steer(exp.way[1])
    /\ exp' = [exp EXCEPT !.phase = IF at = exp.way[1] THEN "abroad" ELSE @]
    /\ UNCHANGED <<late, cooling>>
    /\ AdvanceDone(TRUE)

(* _advance_one, departing: the phase flips in the tick after the one that *)
(* crossed the border.                                                     *)
Depart ==
    /\ Walking /\ ~late /\ exp.phase = "departing"
    /\ IF at # exp.home
       THEN exp' = [exp EXCEPT !.phase = "abroad"] /\ UNCHANGED goal
       ELSE UNCHANGED exp /\ Steer(exp.way[1])
    /\ UNCHANGED <<late, cooling>>
    /\ AdvanceDone(TRUE)

OnTheWay == exp.idx <= Len(exp.way)

(* _advance_one on a leg of the way, out or home.                          *)
Leg ==
    /\ Walking /\ ~late /\ exp.phase \in {"abroad", "returning"}
    /\ exp.phase = "returning" => at # exp.home
    /\ OnTheWay
    /\ IF at # exp.way[exp.idx]
       THEN UNCHANGED exp /\ Steer(exp.way[exp.idx])
       ELSE LET arrived == exp.phase = "abroad" /\ exp.idx = Len(exp.way) IN
            /\ exp' = [exp EXCEPT !.idx = @ + 1,
                                  !.dwell = IF arrived THEN "on" ELSE @]
            /\ IF arrived THEN goal' = NoPlot ELSE UNCHANGED goal
    /\ UNCHANGED <<late, cooling>>
    /\ AdvanceDone(TRUE)

(* Dwelling: stand, or seek a resource node on an enterable plot nearby.   *)
Forage ==
    /\ Walking /\ ~late /\ exp.phase = "abroad"
    /\ ~OnTheWay /\ exp.dwell = "on"
    /\ \/ goal' = NoPlot
       \/ \E p \in Plots : Span(at, p) <= 1 /\ Enterable(p) /\ Steer(p)
    /\ UNCHANGED trip
    /\ AdvanceDone(TRUE)

TurnHome ==
    /\ Walking /\ ~late /\ exp.phase = "abroad"
    /\ ~OnTheWay /\ exp.dwell = "over"
    /\ IF RouteOpen(at, exp.home)
       THEN /\ exp' = [exp EXCEPT !.phase = "returning", !.way = Way(at, exp.home),
                                  !.idx = 1]
            /\ UNCHANGED <<goal, cooling, late>>
       ELSE Ended
    /\ AdvanceDone(TRUE)

(* Home again, or beyond the last waypoint: the soul stops.                *)
Homecoming ==
    /\ Walking /\ ~late /\ exp.phase = "returning"
    /\ at = exp.home \/ ~OnTheWay
    /\ IF at = exp.home THEN Ended
       ELSE goal' = NoPlot /\ UNCHANGED trip
    /\ AdvanceDone(TRUE)

(* An exception in _advance_one cancels the trip.                          *)
AdvanceFails ==
    /\ Walking /\ ~late
    /\ Ended
    /\ AdvanceDone(TRUE)

Advance ==
    \/ NotWalking \/ Timeout \/ Depart \/ Leg \/ Forage \/ TurnHome \/ Homecoming
    \/ AdvanceFails

(* The transaction of the tick's expeditions fails: it is rolled back, the *)
(* exception logged, and nobody is advanced or steered in this tick.       *)
AdvanceLost ==
    /\ Advancing
    /\ Active
    /\ UNCHANGED trip
    /\ AdvanceDone(FALSE)

-----------------------------------------------------------------------------
(* Biology: starvation clears the motion; a fed and rested soul stands up. *)
Collapse ==
    /\ stage = "body"
    /\ ~fallen /\ funded
    /\ fallen' = TRUE
    /\ goal' = NoPlot
    /\ UNCHANGED <<at, table, land, trip, hand, funded, stage>>

Recover ==
    /\ stage = "body"
    /\ fallen
    /\ fallen' = FALSE
    /\ UNCHANGED <<at, table, goal, land, trip, hand, funded, stage>>

(* The physics of the step.  One tick may stay inside the plot or cross    *)
(* its border; a step into a plot closed to the soul is taken back, and so *)
(* is one inside such a plot.                                              *)
Moves == funded /\ carry = NoPlot /\ goal # NoPlot

StandsStill ==
    /\ stage = "body" /\ ~Moves
    /\ UNCHANGED <<at, goal>>

Stride ==
    /\ stage = "body" /\ Moves
    /\ at # goal
    /\ Enterable(at)
    /\ UNCHANGED <<at, goal>>

Cross ==
    /\ stage = "body" /\ Moves
    /\ Enterable(Toward(at, goal))
    /\ at' = Toward(at, goal)
    /\ goal' = IF at' = goal THEN NoPlot ELSE goal

Blocked ==
    /\ stage = "body" /\ Moves
    /\ ~Enterable(at) \/ ~Enterable(Toward(at, goal))
    /\ goal' = NoPlot
    /\ UNCHANGED at

Physics ==
    /\ StandsStill \/ Stride \/ Cross \/ Blocked
    /\ stage' = "pump"
    /\ UNCHANGED <<table, land, trip, hand, body>>

Flush ==
    /\ Pump
    /\ table # at
    /\ table' = at
    /\ UNCHANGED <<at, goal, land, trip, hand, body, stage>>

-----------------------------------------------------------------------------
(* Time, and the restart of the sim: sessions and re-grab cooldowns are in *)
(* memory only.                                                            *)
TimesOut ==
    /\ Active /\ ~late
    /\ late' = TRUE
    /\ UNCHANGED <<at, table, goal, land, exp, cooling, hand, body, stage>>

DwellEnds ==
    /\ exp.dwell = "on"
    /\ exp' = [exp EXCEPT !.dwell = "over"]
    /\ UNCHANGED <<at, table, goal, land, late, cooling, hand, body, stage>>

CooldownsEnd ==
    /\ cooling \/ escaped
    /\ cooling' = FALSE /\ escaped' = FALSE
    /\ UNCHANGED <<at, table, goal, land, exp, late, carry, body, stage>>

Restart ==
    /\ carry' = NoPlot /\ escaped' = FALSE
    /\ at' \in {at, table}
    /\ goal' \in {goal, NoPlot}
    /\ table' = at'
    /\ stage' = "pump"
    /\ UNCHANGED <<land, trip, body>>

TravelNext ==
    \/ \E p \in Plots : MoveTo(p) \/ Claim(p) \/ SetPolicy(p) \/ Trigger(p)
    \/ Stand \/ TouchRefused \/ Grab \/ GrabRolledBack \/ Drag \/ Escape \/ Release
    \/ Funding
    \/ Advance \/ AdvanceLost
    \/ Collapse \/ Recover \/ Physics \/ Flush
    \/ TimesOut \/ DwellEnds \/ CooldownsEnd \/ Restart

(* The loop ticks, not every tick loses its expeditions, and time passes.  *)
TravelFairness ==
    /\ SF_travelVars(Advance)
    /\ WF_travelVars(Physics)
    /\ WF_travelVars(TimesOut)

TravelSpec == TravelInit /\ [][TravelNext]_travelVars /\ TravelFairness

-----------------------------------------------------------------------------
TravelTypeOK ==
    /\ {at, table} \subseteq Plots
    /\ {goal, home, carry} \subseteq Plots \cup {NoPlot}
    /\ own \subseteq Plots /\ closed \subseteq own \cup Foreign
    /\ exp.phase \in Phases /\ exp.home \in Plots
    /\ exp.way \in Seq(Plots) /\ exp.idx \in 1..Len(exp.way) + 1
    /\ exp.dwell \in {"no", "on", "over"}
    /\ {late, cooling, escaped, fallen, funded} \subseteq BOOLEAN
    /\ stage \in {"pump", "swept", "body"}

(* A carried soul stays on the plot it was grabbed on, whatever moves,     *)
(* expeditions, collapses and rolled-back grabs happen meanwhile           *)
(* (affection.py: carry can never cross a plot border).                    *)
CarriedStaysPut == carry # NoPlot => at = carry

(* Once the expeditions of a tick have been advanced, a soul that is not   *)
(* frozen is off its home plot only in a phase whose position the viewport *)
(* hides (abroad_summaries), also when it was triggered from a stale       *)
(* souls.position, ordered away, or restarted on the way.  (A tick that    *)
(* loses its expeditions leaves it in the open for another one.)           *)
AbroadIsHidden ==
    [][Advance /\ ~Frozen /\ exp'.phase = "departing"
       => at' = exp'.home]_travelVars

(* A trip does not go on for ever, even when every plot on its way is      *)
(* closed while it is under way, unless the soul is frozen.                *)
TripsEnd == []<>(~Active \/ Frozen)
=============================================================================
