----------------------------- MODULE SoulProofs -----------------------------
(***************************************************************************)
(* Proofs about a soul: its travels (Travel), its body (Body) and its brain *)
(* (Brains), for any souls and any values of the constants.                *)
(*                                                                         *)
(* Travels: the state is well typed, a carried soul stays on the plot it was *)
(* grabbed on, and a soul that is abroad is in a phase that the viewport   *)
(* hides.  Body: the needs stay in their ranges, a gift of food is given   *)
(* once and a recovery happens once, and spans of decay compose.  Brains: one *)
(* brain thinks for a soul at a time, and the thinks are paced.            *)
(***************************************************************************)
EXTENDS Travel, Body, Brains, SumTheorems

-----------------------------------------------------------------------------
(***************************************************************************)
(* The travels.                                                            *)
(***************************************************************************)
(* A row of expeditions.  The leg under way is one of the way's, or the    *)
(* one after the last; a soul that departs has a first leg to take.        *)
Trips == [phase : Phases, home : Plots, way : Seq(Plots), idx : Nat \ {0},
          dwell : {"no", "on", "over"}]

TripOK ==
    /\ exp \in Trips
    /\ exp.idx <= Len(exp.way) + 1
    /\ exp.phase = "departing" => exp.way # << >>

PlacesOK ==
    /\ at \in Plots /\ table \in Plots
    /\ goal \in Plots \cup {NoPlot}
    /\ home \in Plots \cup {NoPlot}
    /\ carry \in Plots \cup {NoPlot}

LandOK == own \subseteq Plots /\ closed \subseteq own \cup Foreign

FlagsOK ==
    /\ late \in BOOLEAN /\ cooling \in BOOLEAN /\ escaped \in BOOLEAN
    /\ fallen \in BOOLEAN /\ funded \in BOOLEAN
    /\ stage \in {"pump", "swept", "body"}

TravelInv == TripOK /\ PlacesOK /\ LandOK /\ FlagsOK

-----------------------------------------------------------------------------
(* What the geometry of the row of plots promises.                         *)
LEMMA TowardIsPlot ==
    ASSUME NEW p \in Plots, NEW q \in Plots
    PROVE  Toward(p, q) \in Plots
BY TravelConstants DEF Plots, Toward

(* The plots a walker passes are plots. *)
LEMMA BetweenIsPlots ==
    ASSUME NEW p \in Plots, NEW q \in Plots
    PROVE  Between(p, q) \subseteq Plots
BY TravelConstants DEF Plots, Between

(* A way is a way: it stays on the plots, is as long as the distance, and  *)
(* ends where it leads.                                                    *)
LEMMA WayLeads ==
    ASSUME NEW p \in Plots, NEW q \in Plots
    PROVE  /\ Way(p, q) \in Seq(Plots)
           /\ Len(Way(p, q)) = Span(p, q)
           /\ Span(p, q) \in Nat
           /\ p # q => Way(p, q)[Span(p, q)] = q
<1>1. Span(p, q) \in Nat
  BY TravelConstants DEF Plots, Span
<1>2. \A i \in 1..Span(p, q) : (IF q > p THEN p + i ELSE p - i) \in Plots
  BY TravelConstants DEF Plots, Span
<1>3. Way(p, q) \in [1..Span(p, q) -> Plots]
  BY <1>2 DEF Way
<1>4. Way(p, q) \in Seq(Plots) /\ Len(Way(p, q)) = Span(p, q)
  BY <1>1, <1>3
<1>5. ASSUME p # q PROVE Way(p, q)[Span(p, q)] = q
  BY <1>5, TravelConstants DEF Plots, Span, Way
<1>6. QED
  BY <1>1, <1>4, <1>5

(* A trip that starts from p for q is well formed, whatever its phase.     *)
LEMMA TripFrom ==
    ASSUME NEW p \in Plots, NEW q \in Plots
    PROVE  Way(p, q) \in Seq(Plots) /\ 1 <= Len(Way(p, q)) + 1
BY WayLeads

-----------------------------------------------------------------------------
(* A row whose columns are replaced by values of their kind is a row.      *)
LEMMA TripTurned ==
    ASSUME NEW r \in Trips, NEW p \in Phases, NEW w \in Seq(Plots)
    PROVE  [r EXCEPT !.phase = p, !.way = w, !.idx = 1] \in Trips
<1> DEFINE W == Seq(Plots)
           N == Nat \ {0}
           D == {"no", "on", "over"}
<1>1. 1 \in N
  OBVIOUS
<1>2. Trips = [phase : Phases, home : Plots, way : W, idx : N, dwell : D]
  BY DEF Trips
<1>3. w \in W
  OBVIOUS
<1> HIDE DEF W, N, D
<1>4. QED
  BY <1>1, <1>2, <1>3

(* A trip moved to its next stop is still a trip. *)
LEMMA TripAdvanced ==
    ASSUME NEW r \in Trips, NEW d \in {"no", "on", "over"}
    PROVE  [r EXCEPT !.idx = @ + 1, !.dwell = d] \in Trips
<1> DEFINE W == Seq(Plots)
           N == Nat \ {0}
           D == {"no", "on", "over"}
<1>1. r.idx + 1 \in N
  BY DEF Trips
<1>2. Trips = [phase : Phases, home : Plots, way : W, idx : N, dwell : D]
  BY DEF Trips
<1>3. d \in D
  OBVIOUS
<1> HIDE DEF W, N, D
<1>4. QED
  BY <1>1, <1>2, <1>3

-----------------------------------------------------------------------------
(* The walker starts in the invariant. *)
LEMMA TravelStarts == TravelInit => TravelInv
<1> SUFFICES ASSUME TravelInit PROVE TravelInv
  OBVIOUS
<1>1. TripOK
  BY TravelConstants DEF TravelInit, NoTrip, TripOK, Trips, Phases
<1>2. QED
  BY <1>1, TravelConstants DEF TravelInit, TravelInv, PlacesOK, LandOK, FlagsOK

(* Everything the pump does but a trigger leaves the trip as it is.        *)
LEMMA PumpKeeps ==
    ASSUME TravelInv,
           \/ \E p \in Plots : MoveTo(p) \/ Claim(p) \/ SetPolicy(p)
           \/ Stand \/ TouchRefused \/ Grab \/ GrabRolledBack \/ Drag \/ Escape
           \/ Release \/ Funding \/ Flush
    PROVE  TravelInv'
<1> USE DEF TravelInv, land, trip, hand, body
<1>1. UNCHANGED <<trip, stage, fallen>>
  BY DEF MoveTo, Claim, SetPolicy, Stand, TouchRefused, Grab, GrabRolledBack, Drag,
         PutDown, Escape, Release, Funding, Flush
<1>2. TripOK'
  BY <1>1 DEF TripOK
<1>3. PlacesOK'
  <2>1. ASSUME NEW p \in Plots, MoveTo(p) PROVE goal' \in Plots
    BY <2>1, BetweenIsPlots DEF MoveTo, PlacesOK
  <2>2. ASSUME NEW p \in Plots, MoveTo(p) PROVE PlacesOK'
    BY <2>1, <2>2 DEF MoveTo, PlacesOK
  <2>3. ASSUME NEW p \in Plots, Claim(p) \/ SetPolicy(p) PROVE PlacesOK'
    BY <2>3 DEF Claim, SetPolicy, PlacesOK
  <2>4. CASE Grab \/ GrabRolledBack \/ Drag \/ Escape
    BY <2>4 DEF Grab, GrabRolledBack, Drag, Escape, PutDown, PlacesOK
  <2>5. CASE Stand \/ TouchRefused \/ Release \/ Funding \/ Flush
    BY <2>5 DEF Stand, TouchRefused, Release, Funding, Flush, PlacesOK
  <2>6. QED
    BY <2>2, <2>3, <2>4, <2>5
<1>4. LandOK'
  <2>1. ASSUME NEW p \in Plots, Claim(p) PROVE LandOK'
    BY <2>1 DEF Claim, LandOK
  <2>2. ASSUME NEW p \in Plots, SetPolicy(p) PROVE LandOK'
    BY <2>2 DEF SetPolicy, LandOK
  <2>3. CASE UNCHANGED <<own, closed>>
    BY <2>3 DEF LandOK
  <2>4. QED
    BY <2>1, <2>2, <2>3
       DEF MoveTo, Stand, TouchRefused, Grab, GrabRolledBack, Drag, Escape, Release,
           Funding, Flush
<1>5. FlagsOK'
  <2>1. (late' \in BOOLEAN) /\ (cooling' \in BOOLEAN)
    BY <1>1 DEF FlagsOK
  <2>2. escaped' \in BOOLEAN
    BY DEF FlagsOK, MoveTo, Claim, SetPolicy, Stand, TouchRefused, Grab, GrabRolledBack,
           Drag, Escape, Release, Funding, Flush
  <2>3. funded' \in BOOLEAN
    BY DEF FlagsOK, MoveTo, Claim, SetPolicy, Stand, TouchRefused, Grab, GrabRolledBack,
           Drag, Escape, Release, Funding, Flush
  <2>4. QED
    BY <1>1, <2>1, <2>2, <2>3 DEF FlagsOK
<1>6. QED
  BY <1>2, <1>3, <1>4, <1>5

(* The home a trip is for is a plot: the soul's own, or where the table    *)
(* says it stands.                                                         *)
LEMMA TriggerKeeps ==
    ASSUME TravelInv, NEW d \in Plots, Trigger(d)
    PROVE  TravelInv'
<1>1. HomeNow \in Plots
  BY DEF HomeNow, TravelInv, PlacesOK
<1>2. /\ Way(HomeNow, d) \in Seq(Plots) /\ 1 <= Len(Way(HomeNow, d)) + 1
      /\ Way(HomeNow, d) # << >>
  <2>1. Span(HomeNow, d) >= DestMin
    BY DEF Trigger
  <2>2. Way(HomeNow, d) \in Seq(Plots) /\ Len(Way(HomeNow, d)) = Span(HomeNow, d)
        /\ Span(HomeNow, d) \in Nat
    BY <1>1, WayLeads
  <2>3. QED
    BY <2>1, <2>2, TravelConstants
<1> DEFINE row == [phase |-> "departing", home |-> HomeNow, way |-> Way(HomeNow, d),
                   idx |-> 1, dwell |-> "no"]
<1>3. TripOK'
  <2>1. exp' = row
    BY DEF Trigger, Begun
  <2>2. row \in Trips /\ row.idx <= Len(row.way) + 1 /\ row.way # << >>
    BY <1>1, <1>2 DEF Trips, Phases
  <2>3. QED
    BY <2>1, <2>2 DEF TripOK
<1>4. QED
  BY <1>1, <1>3 DEF Trigger, Begun, TravelInv, PlacesOK, LandOK, FlagsOK, hand, body

(* What ends a trip ends it whole.                                         *)
LEMMA EndedTrip ==
    ASSUME Ended
    PROVE  TripOK' /\ exp'.phase = "none" /\ goal' = NoPlot
           /\ late' = FALSE /\ cooling' = TRUE
BY TravelConstants DEF Ended, NoTrip, TripOK, Trips, Phases

(* The advance of the trips keeps the trip well formed: a leg that is      *)
(* entered is one of the way's or the one after the last.                  *)
LEMMA AdvanceTrip ==
    ASSUME TravelInv, Advance
    PROVE  TripOK' /\ goal' \in Plots \cup {NoPlot} /\ late' \in BOOLEAN /\ cooling' \in BOOLEAN
<1> DEFINE Goal == TripOK' /\ goal' \in Plots \cup {NoPlot}
                     /\ late' \in BOOLEAN /\ cooling' \in BOOLEAN
<1>0. /\ exp \in Trips /\ exp.idx <= Len(exp.way) + 1
      /\ exp.phase = "departing" => exp.way # << >>
      /\ goal \in Plots \cup {NoPlot} /\ at \in Plots
      /\ late \in BOOLEAN /\ cooling \in BOOLEAN
  BY DEF TravelInv, TripOK, PlacesOK, FlagsOK
<1>1. exp.home \in Plots /\ exp.way \in Seq(Plots)
  BY <1>0 DEF Trips
<1>2. Way(at, exp.home) \in Seq(Plots) /\ 1 <= Len(Way(at, exp.home)) + 1
  BY <1>0, <1>1, TripFrom
<1>3. ASSUME Ended PROVE Goal
  BY <1>3, EndedTrip
<1> DEFINE back == [exp EXCEPT !.phase = "returning", !.way = Way(at, exp.home),
                               !.idx = 1]
<1>4. ASSUME exp' = back PROVE TripOK'
  <2>1. back.phase = "returning" /\ back.idx = 1 /\ back.way = Way(at, exp.home)
    BY <1>0 DEF Trips
  <2>2. back \in Trips
    BY <1>0, <1>2, TripTurned DEF Phases
  <2>3. QED
    BY <1>2, <1>4, <2>1, <2>2 DEF TripOK
<1>5. ASSUME UNCHANGED exp PROVE TripOK'
  BY <1>0, <1>5 DEF TripOK
<1>6. CASE NotWalking
  BY <1>0, <1>5, <1>6 DEF NotWalking, AdvanceDone, trip
<1>7. CASE Timeout
  BY <1>0, <1>3, <1>4, <1>7 DEF Timeout
<1>8. CASE Depart
  <2>1. exp.idx \in Nat /\ 1 <= exp.idx
    BY <1>0 DEF Trips
  <2>2. ASSUME at # exp.home PROVE Goal
    BY <1>0, <1>8, <2>2 DEF Depart, TripOK, Trips, Phases
  <2>3. ASSUME at = exp.home PROVE TripOK' /\ late' \in BOOLEAN /\ cooling' \in BOOLEAN
    BY <1>0, <1>5, <1>8, <2>3 DEF Depart
  <2>4. ASSUME at = exp.home PROVE goal' = exp.way[1] \/ goal' = NoPlot
    BY <1>8, <2>4 DEF Depart, Steer
  <2>5. exp.way[1] \in Plots
    BY <1>0, <1>1, <1>8 DEF Depart
  <2>6. QED
    BY <2>2, <2>3, <2>4, <2>5
<1>9. CASE Leg
  <2>1. exp.way[exp.idx] \in Plots /\ exp.idx \in Nat /\ exp.idx <= Len(exp.way)
    BY <1>0, <1>1, <1>9 DEF Leg, OnTheWay, Trips
  <2>2. ASSUME at # exp.way[exp.idx] PROVE Goal
    BY <1>0, <1>5, <1>9, <2>1, <2>2 DEF Leg, Steer
  <2>3. ASSUME at = exp.way[exp.idx] PROVE TripOK'
    <3> DEFINE next(d) == [exp EXCEPT !.idx = @ + 1, !.dwell = d]
    <3>1. \E d \in {"on", exp.dwell} : exp' = next(d)
      BY <1>9, <2>3 DEF Leg
    <3>2. PICK d \in {"on", exp.dwell} : exp' = next(d)
      BY <3>1
    <3>3. /\ next(d).idx = exp.idx + 1 /\ next(d).way = exp.way
          /\ next(d).phase = exp.phase
      BY <1>0, <2>1 DEF Trips
    <3>4. next(d) \in Trips
      BY <1>0, <3>2, TripAdvanced DEF Trips
    <3>5. exp.phase # "departing" /\ Len(exp.way) \in Nat
      BY <1>1, <1>9 DEF Leg
    <3>6. QED
      BY <2>1, <3>2, <3>3, <3>4, <3>5 DEF TripOK
  <2>4. ASSUME at = exp.way[exp.idx] PROVE goal' \in {goal, NoPlot}
    BY <1>9, <2>4 DEF Leg
  <2>5. UNCHANGED <<late, cooling>>
    BY <1>9 DEF Leg
  <2>6. QED
    BY <1>0, <2>2, <2>3, <2>4, <2>5
<1>10. CASE Forage
  BY <1>0, <1>5, <1>10 DEF Forage, trip, Steer
<1>11. CASE TurnHome
  BY <1>0, <1>3, <1>4, <1>11 DEF TurnHome
<1>12. CASE Homecoming
  BY <1>0, <1>3, <1>5, <1>12 DEF Homecoming, trip
<1>13. CASE AdvanceFails
  BY <1>3, <1>13 DEF AdvanceFails
<1>14. QED
  BY <1>6, <1>7, <1>8, <1>9, <1>10, <1>11, <1>12, <1>13 DEF Advance

(* A step of the director along the trip keeps the invariant. *)
LEMMA AdvanceKeeps ==
    ASSUME TravelInv, Advance
    PROVE  TravelInv'
<1>1. /\ UNCHANGED <<at, table, home, own, closed, carry, escaped, fallen, funded>>
      /\ stage' = "body"
  BY DEF Advance, NotWalking, Timeout, Depart, Leg, Forage, TurnHome, Homecoming,
         AdvanceFails, AdvanceDone, land, hand, body
<1>2. QED
  BY <1>1, AdvanceTrip DEF TravelInv, PlacesOK, LandOK, FlagsOK

(* A tick that loses its expeditions keeps it. *)
LEMMA AdvanceLostKeeps ==
    ASSUME TravelInv, AdvanceLost
    PROVE  TravelInv'
<1>1. /\ UNCHANGED <<at, table, goal, home, own, closed, exp, late, cooling, carry, escaped,
                     fallen, funded>>
      /\ stage' = "body"
  BY DEF AdvanceLost, AdvanceDone, trip, land, hand, body
<1>2. QED
  BY <1>1 DEF TravelInv, TripOK, PlacesOK, LandOK, FlagsOK

(* What happens to the body meanwhile keeps the invariant. *)
LEMMA BodyKeeps ==
    ASSUME TravelInv, Collapse \/ Recover \/ Physics
    PROVE  TravelInv'
<1>1. UNCHANGED <<table, home, own, closed, exp, late, cooling, carry, escaped, funded>>
  BY DEF Collapse, Recover, Physics, land, trip, hand, body
<1>2. TripOK'
  BY <1>1 DEF TravelInv, TripOK
<1>3. at' \in Plots /\ goal' \in Plots \cup {NoPlot}
  <2>1. CASE Collapse \/ Recover
    BY <2>1 DEF Collapse, Recover, TravelInv, PlacesOK
  <2>2. CASE Physics /\ ~Cross
    BY <2>2 DEF Physics, StandsStill, Stride, Blocked, TravelInv, PlacesOK
  <2>3. CASE Cross
    <3>1. at \in Plots /\ goal \in Plots
      BY <2>3 DEF Cross, Moves, TravelInv, PlacesOK
    <3>2. Toward(at, goal) \in Plots
      BY <3>1, TowardIsPlot
    <3>3. QED
      BY <2>3, <3>1, <3>2 DEF Cross
  <2>4. QED
    BY <2>1, <2>2, <2>3
<1>4. fallen' \in BOOLEAN /\ stage' \in {"pump", "swept", "body"}
  BY DEF Collapse, Recover, Physics, body, TravelInv, FlagsOK
<1>5. QED
  BY <1>1, <1>2, <1>3, <1>4 DEF TravelInv, PlacesOK, LandOK, FlagsOK

(* A timeout, the end of a dwell or of a cooldown, and a restart keep the
   invariant. *)
LEMMA TimeKeeps ==
    ASSUME TravelInv, TimesOut \/ DwellEnds \/ CooldownsEnd \/ Restart
    PROVE  TravelInv'
<1>1. TripOK'
  <2>1. CASE DwellEnds
    <3>1. exp' = [phase |-> exp.phase, home |-> exp.home, way |-> exp.way,
                  idx |-> exp.idx, dwell |-> "over"]
      BY <2>1 DEF DwellEnds, TravelInv, TripOK, Trips
    <3>2. exp' \in Trips
      BY <3>1 DEF TravelInv, TripOK, Trips
    <3>3. QED
      BY <3>1, <3>2 DEF TravelInv, TripOK
  <2>2. CASE UNCHANGED exp
    BY <2>2 DEF TravelInv, TripOK
  <2>3. QED
    BY <2>1, <2>2 DEF TimesOut, CooldownsEnd, Restart, trip
<1>2. PlacesOK' /\ LandOK' /\ FlagsOK'
  BY DEF TimesOut, DwellEnds, CooldownsEnd, Restart, land, trip, hand, body,
         TravelInv, PlacesOK, LandOK, FlagsOK
<1>3. QED
  BY <1>1, <1>2 DEF TravelInv

(* Every step keeps the invariant. *)
LEMMA TravelStep ==
    ASSUME TravelInv, [TravelNext]_travelVars
    PROVE  TravelInv'
<1>1. ASSUME UNCHANGED travelVars PROVE TravelInv'
  BY <1>1 DEF travelVars, land, trip, hand, body, TravelInv, TripOK, PlacesOK, LandOK,
              FlagsOK
<1>2. QED
  BY <1>1, PumpKeeps, TriggerKeeps, AdvanceKeeps, AdvanceLostKeeps,
     BodyKeeps, TimeKeeps DEF TravelNext

(* Every reachable state of a trip satisfies the invariant. *)
LEMMA TravelInvariant == TravelSpec => []TravelInv
BY TravelStarts, TravelStep, PTL DEF TravelSpec

(* Every trip is well formed: its legs are plots, the leg under way is one *)
(* of them or the one after the last, and what is stored of the soul's     *)
(* place, home and land are plots (expeditions.py:248).                    *)
THEOREM TravelIsTyped == TravelSpec => []TravelTypeOK
<1>1. TravelInv => TravelTypeOK
  BY DEF TravelInv, TripOK, Trips, PlacesOK, LandOK, FlagsOK, TravelTypeOK
<1>2. QED
  BY <1>1, TravelInvariant, PTL

-----------------------------------------------------------------------------
(* A step either leaves a soul where it is, or the soul is not carried, or *)
(* it is put on the plot it was grabbed on.                                *)
LEMMA CarryStep ==
    ASSUME CarriedStaysPut, [TravelNext]_travelVars
    PROVE  CarriedStaysPut'
<1>1. CASE UNCHANGED <<at, carry>>
  BY <1>1 DEF CarriedStaysPut
<1>2. CASE carry' = NoPlot
  BY <1>2 DEF CarriedStaysPut
<1>3. CASE at' = carry'
  BY <1>3 DEF CarriedStaysPut
<1>4. ASSUME NEW p \in Plots, MoveTo(p) \/ Claim(p) \/ SetPolicy(p) \/ Trigger(p)
      PROVE  UNCHANGED <<at, carry>>
  BY <1>4 DEF MoveTo, Claim, SetPolicy, Trigger, hand
<1>5. ASSUME \/ Stand \/ Funding \/ Collapse \/ Recover \/ Flush \/ TimesOut
             \/ DwellEnds \/ CooldownsEnd \/ UNCHANGED travelVars
      PROVE  UNCHANGED <<at, carry>>
  BY <1>5 DEF Stand, Funding, Collapse, Recover, Flush, TimesOut, DwellEnds, CooldownsEnd,
              travelVars, hand
<1>6. ASSUME Advance \/ AdvanceLost PROVE UNCHANGED <<at, carry>>
  BY <1>6 DEF Advance, AdvanceLost, NotWalking, Timeout, Depart, Leg, Forage, TurnHome, Homecoming,
              AdvanceFails, AdvanceDone, hand
<1>7. ASSUME TouchRefused \/ Escape \/ Release \/ Restart PROVE carry' = NoPlot
  BY <1>7 DEF TouchRefused, Escape, Release, Restart
<1>8. ASSUME Grab \/ GrabRolledBack \/ Drag PROVE at' = carry'
  BY <1>8 DEF Grab, GrabRolledBack, Drag, hand
<1>9. ASSUME Physics PROVE UNCHANGED <<at, carry>> \/ carry' = NoPlot
  BY <1>9 DEF Physics, StandsStill, Stride, Blocked, Cross, Moves, hand
<1>10. QED
  BY <1>1, <1>2, <1>3, <1>4, <1>5, <1>6, <1>7, <1>8, <1>9 DEF TravelNext

(* A carried soul stays on the plot it was grabbed on, whatever moves,     *)
(* expeditions, collapses, rolled-back grabs and restarts happen meanwhile *)
(* (affection.py:31).                                                      *)
THEOREM CarriedSoulsStay == TravelSpec => []CarriedStaysPut
<1>1. TravelInit => CarriedStaysPut
  BY DEF TravelInit, CarriedStaysPut
<1>2. QED
  BY <1>1, CarryStep, PTL DEF TravelSpec

-----------------------------------------------------------------------------
(* A trip that departs and is not abroad by the end of its advance has the *)
(* soul still at home: this is the one branch of _advance_one that leaves  *)
(* the phase alone.                                                        *)
LEMMA DepartingIsHome ==
    ASSUME TravelInv, Advance, ~Frozen, exp'.phase = "departing"
    PROVE  at' = exp'.home
<1>1. exp \in Trips
  BY DEF TravelInv, TripOK
<1>2. ~Ended
  BY EndedTrip
<1>3. ~NotWalking
  BY DEF NotWalking, Active, trip
<1>4. ~Timeout /\ ~TurnHome
  BY <1>1, <1>2 DEF Timeout, TurnHome, Trips
<1>5. ~Leg /\ ~Forage /\ ~Homecoming /\ ~AdvanceFails
  BY <1>1, <1>2 DEF Leg, Forage, Homecoming, AdvanceFails, Trips, trip
<1>6. Depart
  BY <1>3, <1>4, <1>5 DEF Advance
<1>7. at = exp.home /\ UNCHANGED exp /\ UNCHANGED at
  BY <1>1, <1>6 DEF Depart, AdvanceDone, Trips
<1>8. QED
  BY <1>7

(* Once the expeditions of a tick have been advanced, a soul that is not   *)
(* frozen is away from home only in a phase whose position the viewport    *)
(* hides (expeditions.py:493-503).                                         *)
THEOREM AbroadStaysHidden == TravelSpec => AbroadIsHidden
<1>1. TravelInv /\ [TravelNext]_travelVars
        => [Advance /\ ~Frozen /\ exp'.phase = "departing"
            => at' = exp'.home]_travelVars
  BY DepartingIsHome
<1>2. QED
  BY <1>1, TravelInvariant, PTL DEF TravelSpec, AbroadIsHidden

-----------------------------------------------------------------------------
(***************************************************************************)
(* The body.                                                               *)
(***************************************************************************)
Tallies == [spans : Nat, gathers : Nat, funds : Nat, saves : Nat, faults : Nat,
            crashes : Nat, risen : [Souls -> Nat], gifts : [Souls -> Nat]]

(* A gift that is under way goes from a soul to a soul. *)
FeedsOK == \A k \in Feeds : feed[k].status = "pending" =>
               feed[k].from \in Souls /\ feed[k].to \in Souls

BodyInv == BodyTypeOK /\ FeedsOK /\ tally \in Tallies /\ OneGiftOneRecovery

-----------------------------------------------------------------------------
(* The two pickers pick one of their arguments. *)
LEMMA Picks ==
    ASSUME NEW a \in Int, NEW b \in Int
    PROVE  /\ Lower(a, b) \in {a, b} /\ Lower(a, b) <= a /\ Lower(a, b) <= b
           /\ Higher(a, b) \in {a, b} /\ a <= Higher(a, b) /\ b <= Higher(a, b)
BY DEF Lower, Higher

(* Every rate is a number, and a soul that is not dormant loses something. *)
LEMMA RateIsNat ==
    ASSUME NEW b \in SoulRecord
    PROVE  SatRate(b) \in Nat /\ (~Dormant(b) => SatRate(b) > 0)
<1>1. ASSUME NEW a \in Nat PROVE a \div 4 \in Nat
  OBVIOUS
<1>2. QED
  BY <1>1, BodyConstantsNat DEF SatRate

(* The starved part of a stretch, in units. *)
LEMMA StarvedIsNat ==
    ASSUME NEW b \in SoulRecord, ~Dormant(b), NEW n \in Nat
    PROVE  StarvedUnits(b, n) \in Nat /\ n * Chip \in Nat /\ n * SatRate(b) \in Nat
<1>1. SatRate(b) \in Nat \ {0} /\ Chip \in Nat /\ Starving \in Nat /\ b.sat \in Nat
  BY RateIsNat, BodyConstantsNat DEF SoulRecord
<1>2. n * Chip \in Nat /\ n * SatRate(b) \in Nat /\ (b.sat - Starving) * Chip \in Int
  BY <1>1
<1>3. ((b.sat - Starving) * Chip) \div SatRate(b) \in Int
  BY <1>1, <1>2
<1>4. QED
  BY <1>2, <1>3, Picks DEF StarvedUnits

(* A body that falls is still one. *)
LEMMA FallenIsBody ==
    ASSUME NEW b \in SoulRecord, NEW n \in Nat, ~Dormant(b), b.hp <= StarvedUnits(b, n)
    PROVE  Fallen(b, n) \in SoulRecord
<1> DEFINE starved == StarvedUnits(b, n)
           lying == IF starved > 0 /\ b.hp > 0 THEN starved - b.hp ELSE n * Chip
           sat == Higher(0, b.sat - n * SatRate(b))
           rest == Lower(RestNeeded, lying)
<1>1. b.sat \in 0..SatFull /\ b.hp \in 0..HpFull
  BY DEF SoulRecord
<1>2. starved \in Nat /\ n * Chip \in Nat /\ n * SatRate(b) \in Nat
  BY StarvedIsNat
<1>3. sat \in 0..SatFull
  <2> DEFINE r == n * SatRate(b)
  <2>1. r \in Nat
    BY <1>2
  <2> HIDE DEF r
  <2>2. Higher(0, b.sat - r) \in 0..SatFull
    BY <1>1, <2>1, BodyConstantsNat DEF Higher
  <2>3. QED
    BY <2>2 DEF r
<1>4. lying \in Nat
  BY <1>1, <1>2
<1>5. rest \in NotResting..RestNeeded
  <2> HIDE DEF lying
  <2>1. QED
    BY <1>4, BodyConstantsNat DEF Lower, NotResting
<1>6. Fallen(b, n) = [b EXCEPT !.sat = sat, !.hp = 0, !.fallen = TRUE, !.moving = FALSE,
                               !.rest = rest]
  BY DEF Fallen
<1> HIDE DEF sat, rest
<1>7. 0 \in 0..HpFull
  BY BodyConstantsNat
<1>8. QED
  BY <1>3, <1>5, <1>6, <1>7 DEF SoulRecord

(* A body that does not fall is still one. *)
LEMMA WeakenedIsBody ==
    ASSUME NEW b \in SoulRecord, NEW n \in Nat,
           b.fallen \/ Dormant(b) \/ b.hp > StarvedUnits(b, n)
    PROVE  Weakened(b, n) \in SoulRecord
<1> DEFINE sat == Higher(0, b.sat - n * SatRate(b))
           hp == IF Dormant(b) THEN Higher(1, b.hp)
                 ELSE IF b.fallen THEN b.hp ELSE b.hp - StarvedUnits(b, n)
           rest == RestAfter(b, n)
<1>1. b.sat \in 0..SatFull /\ b.hp \in 0..HpFull /\ b.rest \in NotResting..RestNeeded
  BY DEF SoulRecord
<1>2. n * Chip \in Nat /\ n * SatRate(b) \in Nat
  BY RateIsNat, BodyConstantsNat
<1>3. sat \in 0..SatFull
  <2> DEFINE r == n * SatRate(b)
  <2>1. r \in Nat
    BY <1>2
  <2> HIDE DEF r
  <2>2. Higher(0, b.sat - r) \in 0..SatFull
    BY <1>1, <2>1, BodyConstantsNat DEF Higher
  <2>3. QED
    BY <2>2 DEF r
<1>4. hp \in 0..HpFull
  <2>1. CASE Dormant(b)
    BY <1>1, <2>1, BodyConstantsNat DEF Higher
  <2>2. CASE ~Dormant(b) /\ b.fallen
    BY <1>1, <2>2
  <2>3. CASE ~Dormant(b) /\ ~b.fallen
    <3> DEFINE st == StarvedUnits(b, n)
    <3>1. st \in Nat /\ b.hp > st
      BY <2>3, StarvedIsNat
    <3>2. hp = b.hp - st
      BY <2>3
    <3> HIDE DEF st, hp
    <3>3. QED
      BY <1>1, <3>1, <3>2, BodyConstantsNat
  <2>4. QED
    BY <2>1, <2>2, <2>3
<1>5. rest \in NotResting..RestNeeded
  <2> DEFINE r == n * Chip
  <2>1. r \in Nat
    BY <1>2
  <2>2. rest = IF ~Resting(b) THEN NotResting
               ELSE Lower(RestNeeded, (IF b.rest = NotResting THEN 0 ELSE b.rest) + r)
    BY DEF RestAfter
  <2> HIDE DEF r, rest
  <2>3. QED
    BY <1>1, <2>1, <2>2, BodyConstantsNat DEF Lower, NotResting
<1>6. Weakened(b, n) = [b EXCEPT !.sat = sat, !.hp = hp, !.rest = rest]
  BY DEF Weakened
<1> HIDE DEF sat, hp, rest
<1>7. QED
  BY <1>3, <1>4, <1>5, <1>6 DEF SoulRecord

(* What decay does to the two flags, over any stretch: a soul stands up    *)
(* only if it was fed, and then it is not fed any more; otherwise the flag *)
(* stays as it is.                                                         *)
LEMMA DecayFlags ==
    ASSUME NEW b \in SoulRecord, NEW n \in Nat
    PROVE  /\ Decay(b, n) \in SoulRecord
           /\ Decay(b, n).essence = b.essence
           /\ b.fallen /\ ~Decay(b, n).fallen => b.fed /\ ~Decay(b, n).fed
           /\ ~(b.fallen /\ ~Decay(b, n).fallen) => Decay(b, n).fed = b.fed
<1> DEFINE w == Weakened(b, n)
<1>1. CASE ~b.fallen /\ ~Dormant(b) /\ b.hp <= StarvedUnits(b, n)
  <2>1. Decay(b, n) = Fallen(b, n)
    BY <1>1 DEF Decay
  <2>2. Fallen(b, n).essence = b.essence /\ Fallen(b, n).fed = b.fed
    BY DEF Fallen, SoulRecord
  <2>3. QED
    BY <1>1, <2>1, <2>2, FallenIsBody
<1>2. CASE ~(~b.fallen /\ ~Dormant(b) /\ b.hp <= StarvedUnits(b, n))
  <2>1. b.fallen \/ Dormant(b) \/ b.hp > StarvedUnits(b, n)
    <3>1. ~Dormant(b) => StarvedUnits(b, n) \in Nat /\ b.hp \in Nat
      BY StarvedIsNat DEF SoulRecord
    <3>2. QED
      BY <1>2, <3>1
  <2>2. w \in SoulRecord
    BY <2>1, WeakenedIsBody
  <2>3. w.essence = b.essence /\ w.fed = b.fed /\ w.fallen = b.fallen
    BY DEF Weakened, SoulRecord
  <2>4. CASE Stands(w)
    <3>1. Decay(b, n) = [w EXCEPT !.fallen = FALSE, !.fed = FALSE, !.rest = NotResting]
      BY <1>2, <2>4 DEF Decay
    <3>2. NotResting \in NotResting..RestNeeded
      BY BodyConstantsNat DEF NotResting
    <3> HIDE DEF w
    <3>3. Decay(b, n) \in SoulRecord
      BY <2>2, <3>1, <3>2 DEF SoulRecord
    <3>4. QED
      BY <2>2, <2>3, <2>4, <3>1, <3>3 DEF Stands, SoulRecord
  <2>5. CASE ~Stands(w)
    BY <1>2, <2>2, <2>3, <2>5 DEF Decay
  <2>6. QED
    BY <2>4, <2>5
<1>3. QED
  BY <1>1, <1>2

-----------------------------------------------------------------------------
(* Bodies start healthy, unfed and awake. *)
LEMMA BodyStarts == BodyInit => BodyInv
<1> SUFFICES ASSUME BodyInit PROVE BodyInv
  OBVIOUS
<1> USE BodyConstantsNat DEF BodyInit
<1>1. soul \in [Souls -> SoulRecord]
  BY DEF SoulRecord, NotResting
<1>2. BodyTypeOK
  BY <1>1 DEF BodyTypeOK, FeedStatus
<1>3. FeedsOK
  BY DEF FeedsOK
<1>4. tally \in Tallies
  BY DEF Tallies
<1>5. OneGiftOneRecovery
  BY DEF OneGiftOneRecovery
<1>6. QED
  BY <1>2, <1>3, <1>4, <1>5 DEF BodyInv

(* One column of a body takes a new value of its kind. *)
LEMMA BodyColumns ==
    ASSUME NEW b \in SoulRecord
    PROVE  /\ \A x \in BOOLEAN : [b EXCEPT !.moving = x] \in SoulRecord
           /\ \A x, y \in BOOLEAN : [b EXCEPT !.moving = x, !.idle = y] \in SoulRecord
           /\ \A x \in Nat : [b EXCEPT !.food = x] \in SoulRecord
           /\ \A x \in Nat : [b EXCEPT !.essence = x] \in SoulRecord
           /\ \A x \in Nat : \A f \in BOOLEAN :
                 [b EXCEPT !.fed = f, !.essence = x] \in SoulRecord
           /\ \A x \in Nat : \A y \in 0..SatFull :
                 [b EXCEPT !.food = x, !.sat = y] \in SoulRecord
BY DEF SoulRecord

(* One column of the history takes a new value of its kind. *)
LEMMA TallyColumns ==
    ASSUME NEW t \in Tallies
    PROVE  /\ \A x \in Nat : \A r \in [Souls -> Nat] :
                 [t EXCEPT !.spans = x, !.risen = r] \in Tallies
           /\ \A x \in Nat : [t EXCEPT !.saves = x] \in Tallies
<1> DEFINE C == [Souls -> Nat]
<1>1. Tallies = [spans : Nat, gathers : Nat, funds : Nat, saves : Nat, faults : Nat,
                 crashes : Nat, risen : C, gifts : C]
  BY DEF Tallies
<1> HIDE DEF C
<1>2. \A x \in Nat : \A r \in C : [t EXCEPT !.spans = x, !.risen = r] \in Tallies
  BY <1>1
<1>3. \A x \in Nat : [t EXCEPT !.saves = x] \in Tallies
  BY <1>1
<1>4. QED
  BY <1>2, <1>3 DEF C

(* The parts of the invariant that only feeds and escrows can disturb. *)
LEMMA FeedsKept ==
    ASSUME BodyInv,
           NEW k \in Feeds, NEW status \in FeedStatus \ {"pending"},
           feed' = [feed EXCEPT ![k].status = status]
    PROVE  FeedsOK' /\ feed' \in [Feeds -> [status : FeedStatus, from : Souls \cup {Nobody},
                                           to : Souls \cup {Nobody}]]
BY DEF BodyInv, BodyTypeOK, FeedsOK

(* A stretch of decay, live or in one piece, keeps gifts and recoveries    *)
(* even: whoever stands up had a gift, and has used it.                    *)
LEMMA DecayKeepsGifts ==
    ASSUME BodyInv, NEW n \in Nat, tally'.saves = tally.saves, tally'.gifts = tally.gifts,
           tally'.risen = Risen(n),
           \A s \in Souls : /\ soul'[s].fed = Decay(soul[s], n).fed
                             /\ soul'[s].fallen = Decay(soul[s], n).fallen
    PROVE  OneGiftOneRecovery' /\ Risen(n) \in [Souls -> Nat]
<1>1. soul \in [Souls -> SoulRecord] /\ tally \in Tallies /\ OneGiftOneRecovery
  BY DEF BodyInv, BodyTypeOK
<1>2. Risen(n) \in [Souls -> Nat]
  BY <1>1 DEF Risen, Tallies
<1>3. ASSUME NEW s \in Souls, tally.saves = 0
      PROVE  /\ tally'.gifts[s] = tally'.risen[s] + (IF soul'[s].fed THEN 1 ELSE 0)
             /\ soul'[s].fed => soul'[s].fallen
  <2> DEFINE b == soul[s]
             d == Decay(b, n)
  <2>1. b \in SoulRecord /\ b.fallen \in BOOLEAN /\ b.fed \in BOOLEAN
    BY <1>1 DEF SoulRecord
  <2>2. /\ b.fallen /\ ~d.fallen => b.fed /\ ~d.fed
        /\ ~(b.fallen /\ ~d.fallen) => d.fed = b.fed
    BY <2>1, DecayFlags
  <2>3. /\ tally.gifts[s] = tally.risen[s] + (IF b.fed THEN 1 ELSE 0)
        /\ b.fed => b.fallen
    BY <1>1, <1>3 DEF OneGiftOneRecovery
  <2>4. tally'.risen[s] = IF b.fallen /\ ~d.fallen THEN tally.risen[s] + 1 ELSE tally.risen[s]
    BY DEF Risen
  <2>5. tally.risen[s] \in Nat /\ tally'.gifts[s] = tally.gifts[s]
    BY <1>1 DEF Tallies
  <2>6. soul'[s].fed = d.fed /\ soul'[s].fallen = d.fallen
    OBVIOUS
  <2> HIDE DEF b, d
  <2>7. QED
    BY <2>1, <2>2, <2>3, <2>4, <2>5, <2>6
<1>4. QED
  BY <1>2, <1>3 DEF OneGiftOneRecovery

(* What changes neither flag nor gift keeps the balance of the two. *)
LEMMA GiftsUntouched ==
    ASSUME BodyInv, tally'.saves = tally.saves, tally'.gifts = tally.gifts,
           tally'.risen = tally.risen,
           \A s \in Souls : soul'[s].fed = soul[s].fed /\ soul'[s].fallen = soul[s].fallen
    PROVE  OneGiftOneRecovery'
BY DEF BodyInv, OneGiftOneRecovery

-----------------------------------------------------------------------------
(* The tick, the catch-up of a boot and everything that happens to bodies  *)
(* besides feeding.                                                        *)
LEMMA LivingKept ==
    ASSUME BodyInv,
           \/ BiologyTick \/ RespawnSweep \/ Crash
           \/ \E s \in Busy :
                SetOff(s) \/ Rest(s) \/ Gather(s) \/ Eat(s) \/ Spend(s) \/ Fund(s)
                \/ Save(s)
           \/ \E n \in {0, Gap} : Boot(n)
    PROVE  BodyInv'
<1>1. /\ soul \in [Souls -> SoulRecord] /\ tally \in Tallies /\ OneGiftOneRecovery
      /\ BodyTypeOK /\ FeedsOK
  BY DEF BodyInv, BodyTypeOK
<1>2. /\ Busy \subseteq Souls /\ IsFiniteSet(Feeds) /\ Gap \in Nat /\ Capacity \in Nat
      /\ MaxSaves \in Nat
  BY BodyConstantsNat
<1>3. CASE BiologyTick
  <2>1. /\ soul' = [s \in Souls |-> Decay(soul[s], 1)]
        /\ tally' = [tally EXCEPT !.spans = @ + 1, !.risen = Risen(1)]
        /\ UNCHANGED <<feed, escrow, node, up>>
    BY <1>3 DEF BiologyTick, Live
  <2>2. soul' \in [Souls -> SoulRecord]
    BY <1>1, <2>1, DecayFlags
  <2>3. tally'.saves = tally.saves /\ tally'.gifts = tally.gifts /\ tally'.risen = Risen(1)
    BY <1>1, <2>1 DEF Tallies
  <2>4. OneGiftOneRecovery' /\ Risen(1) \in [Souls -> Nat]
    BY <2>1, <2>3, DecayKeepsGifts
  <2>5. tally' \in Tallies
    <3>1. tally.spans + 1 \in Nat
      BY <1>1 DEF Tallies
    <3>2. tally' = [tally EXCEPT !.spans = tally.spans + 1, !.risen = Risen(1)]
      BY <2>1
    <3>3. QED
      BY <1>1, <2>4, <3>1, <3>2, TallyColumns
  <2>6. QED
    BY <1>1, <2>1, <2>2, <2>4, <2>5 DEF BodyInv, BodyTypeOK, FeedsOK
<1>4. CASE RespawnSweep \/ Crash
  <2>1. UNCHANGED <<soul, feed, escrow>> /\ node' \in 0..Capacity /\ up' \in BOOLEAN
    <3>1. Capacity \in 0..Capacity /\ node \in 0..Capacity /\ up \in BOOLEAN
      BY <1>1, <1>2 DEF BodyTypeOK
    <3>2. node' \in {node, Capacity} /\ up' \in {up, FALSE}
      BY <1>4 DEF RespawnSweep, Crash
    <3>3. QED
      BY <1>4, <3>1, <3>2 DEF RespawnSweep, Crash
  <2>2. /\ tally' \in Tallies /\ tally'.saves = tally.saves
        /\ tally'.gifts = tally.gifts /\ tally'.risen = tally.risen
    BY <1>1, <1>4 DEF RespawnSweep, Crash, Tallies
  <2>3. OneGiftOneRecovery'
    BY <2>1, <2>2, GiftsUntouched
  <2>4. QED
    BY <1>1, <2>1, <2>2, <2>3 DEF BodyInv, BodyTypeOK, FeedsOK
<1>5. ASSUME NEW s \in Souls,
             SetOff(s) \/ Rest(s) \/ Gather(s) \/ Eat(s) \/ Spend(s) \/ Fund(s)
      PROVE  BodyInv'
  <2> DEFINE b == soul[s]
  <2>1. b \in SoulRecord /\ b.food \in Nat /\ b.essence \in Nat /\ b.sat \in 0..SatFull
    BY <1>1 DEF SoulRecord
  <2>2. \E c \in SoulRecord : /\ c.fed = b.fed /\ c.fallen = b.fallen
                              /\ soul' = [soul EXCEPT ![s] = c]
    <3>1. CASE SetOff(s)
      <4>1. soul' = [soul EXCEPT ![s] = [b EXCEPT !.moving = TRUE]]
        BY <3>1 DEF SetOff
      <4>2. [b EXCEPT !.moving = TRUE] \in SoulRecord
        BY <2>1, BodyColumns
      <4>3. QED
        BY <2>1, <4>1, <4>2 DEF SoulRecord
    <3>2. CASE Rest(s)
      <4>1. soul' = [soul EXCEPT ![s] = [b EXCEPT !.moving = FALSE, !.idle = TRUE]]
        BY <3>2 DEF Rest
      <4>2. [b EXCEPT !.moving = FALSE, !.idle = TRUE] \in SoulRecord
        BY <2>1, BodyColumns
      <4>3. QED
        BY <2>1, <4>1, <4>2 DEF SoulRecord
    <3>3. CASE Gather(s)
      <4>1. soul' = [soul EXCEPT ![s] = [b EXCEPT !.food = b.food + 1]]
        BY <3>3 DEF Gather
      <4>2. [b EXCEPT !.food = b.food + 1] \in SoulRecord
        <5>1. b.food + 1 \in Nat
          BY <2>1
        <5>2. QED
          BY <2>1, <5>1, BodyColumns
      <4>3. QED
        BY <2>1, <4>1, <4>2 DEF SoulRecord
    <3>4. CASE Eat(s)
      <4> DEFINE sat == Lower(SatFull, b.sat + EatGain)
      <4>1. soul' = [soul EXCEPT ![s] = [b EXCEPT !.food = b.food - 1, !.sat = sat]]
        BY <3>4 DEF Eat
      <4>2. sat \in 0..SatFull /\ b.food - 1 \in Nat
        BY <2>1, <3>4, BodyConstantsNat DEF Eat, Lower
      <4> HIDE DEF sat
      <4>3. [b EXCEPT !.food = b.food - 1, !.sat = sat] \in SoulRecord
        BY <2>1, <4>2, BodyColumns
      <4>4. QED
        BY <2>1, <4>1, <4>3 DEF SoulRecord
    <3>5. CASE Spend(s)
      <4>1. soul' = [soul EXCEPT ![s] = [b EXCEPT !.essence = b.essence - 1]]
        BY <3>5 DEF Spend
      <4>2. b.essence - 1 \in Nat
        BY <2>1, <3>5 DEF Spend
      <4>3. [b EXCEPT !.essence = b.essence - 1] \in SoulRecord
        BY <2>1, <4>2, BodyColumns
      <4>4. QED
        BY <2>1, <4>1, <4>3 DEF SoulRecord
    <3>6. CASE Fund(s)
      <4>1. soul' = [soul EXCEPT ![s] = [b EXCEPT !.essence = b.essence + 1]]
        BY <3>6 DEF Fund
      <4>2. [b EXCEPT !.essence = b.essence + 1] \in SoulRecord
        <5>1. b.essence + 1 \in Nat
          BY <2>1
        <5>2. QED
          BY <2>1, <5>1, BodyColumns
      <4>3. QED
        BY <2>1, <4>1, <4>2 DEF SoulRecord
    <3>7. QED
      BY <1>5, <3>1, <3>2, <3>3, <3>4, <3>5, <3>6
  <2>3. soul' \in [Souls -> SoulRecord]
    BY <1>1, <2>2
  <2>4. \A r \in Souls : soul'[r].fed = soul[r].fed /\ soul'[r].fallen = soul[r].fallen
    BY <1>1, <2>2
  <2>5. /\ tally' \in Tallies /\ tally'.saves = tally.saves
        /\ tally'.gifts = tally.gifts /\ tally'.risen = tally.risen
    BY <1>1, <1>5 DEF SetOff, Rest, Gather, Eat, Spend, Fund, Tallies
  <2>6. node' \in 0..Capacity
    BY <1>1, <1>2, <1>5 DEF SetOff, Rest, Gather, Eat, Spend, Fund, BodyTypeOK
  <2>7. UNCHANGED <<feed, escrow, up>>
    BY <1>5 DEF SetOff, Rest, Gather, Eat, Spend, Fund
  <2>8. OneGiftOneRecovery'
    BY <2>4, <2>5, GiftsUntouched
  <2>9. QED
    BY <1>1, <2>3, <2>5, <2>6, <2>7, <2>8 DEF BodyInv, BodyTypeOK, FeedsOK
<1>6. ASSUME NEW s \in Souls, Save(s) PROVE BodyInv'
  <2>1. PICK client \in Saved :
          soul' = [soul EXCEPT ![s] =
                    [@ EXCEPT !.sat = client.sat, !.hp = client.hp,
                              !.idle = client.idle, !.food = client.food,
                              !.fallen = FALSE, !.fed = FALSE, !.rest = NotResting,
                              !.moving = FALSE]]
    BY <1>6 DEF Save
  <2>2. /\ client.sat \in 0..SatFull /\ client.hp \in 0..HpFull
        /\ client.idle \in BOOLEAN /\ client.food \in Nat
    BY <2>1, BodyConstantsNat
  <2>3. NotResting \in NotResting..RestNeeded
    BY BodyConstantsNat DEF NotResting
  <2>4. [soul[s] EXCEPT !.sat = client.sat, !.hp = client.hp,
                        !.idle = client.idle, !.food = client.food,
                        !.fallen = FALSE, !.fed = FALSE, !.rest = NotResting,
                        !.moving = FALSE] \in SoulRecord
    BY <1>1, <2>2, <2>3 DEF SoulRecord
  <2>5. soul' \in [Souls -> SoulRecord]
    BY <1>1, <2>1, <2>4
  <2>6. tally' \in Tallies /\ tally'.saves # 0
    <3>1. tally.saves + 1 \in Nat /\ tally.saves + 1 # 0
      BY <1>1 DEF Tallies
    <3>2. tally' = [tally EXCEPT !.saves = tally.saves + 1]
      BY <1>6 DEF Save
    <3>3. tally' \in Tallies
      BY <1>1, <3>1, <3>2, TallyColumns
    <3>4. tally'.saves = tally.saves + 1
      BY <1>1, <3>2 DEF Tallies
    <3>5. QED
      BY <3>1, <3>3, <3>4
  <2>7. QED
    BY <1>1, <1>6, <2>5, <2>6 DEF Save, BodyInv, BodyTypeOK, FeedsOK, OneGiftOneRecovery
<1>7. ASSUME NEW n \in {0, Gap}, Boot(n) PROVE BodyInv'
  <2> DEFINE lost == {k \in Feeds : escrow[k] = "held" /\ feed[k].status = "rejected"}
             back(s) == Cardinality({k \in lost : feed[k].from = s})
  <2>1. n \in Nat
    BY <1>2
  <2>2. \A s \in Souls : back(s) \in Nat
    <3>1. \A s \in Souls : IsFiniteSet({k \in lost : feed[k].from = s})
      BY <1>2, FS_Subset
    <3>2. QED
      BY <3>1, FS_CardinalityType
  <2>3. soul' = [s \in Souls |-> [Decay(soul[s], n) EXCEPT !.essence = @ + back(s)]]
    BY <1>7 DEF Boot
  <2> HIDE DEF back
  <2>4. ASSUME NEW s \in Souls
        PROVE  soul'[s] \in SoulRecord /\ soul'[s].fed = Decay(soul[s], n).fed
               /\ soul'[s].fallen = Decay(soul[s], n).fallen
    <3> DEFINE d == Decay(soul[s], n)
    <3>1. d \in SoulRecord
      BY <1>1, <2>1, DecayFlags
    <3>2. soul'[s] = [d EXCEPT !.essence = @ + back(s)]
      BY <2>3
    <3> HIDE DEF d
    <3>3. d.essence + back(s) \in Nat
      BY <2>2, <3>1 DEF SoulRecord
    <3>4. soul'[s] \in SoulRecord /\ soul'[s].fed = d.fed /\ soul'[s].fallen = d.fallen
      BY <3>1, <3>2, <3>3 DEF SoulRecord
    <3>5. QED
      BY <3>4 DEF d
  <2>5. soul' \in [Souls -> SoulRecord]
    BY <2>3, <2>4
  <2>6. tally' = [tally EXCEPT !.spans = @ + n, !.risen = Risen(n)]
    BY <1>7 DEF Boot
  <2>7. tally'.saves = tally.saves /\ tally'.gifts = tally.gifts /\ tally'.risen = Risen(n)
    BY <1>1, <2>6 DEF Tallies
  <2>8. OneGiftOneRecovery' /\ Risen(n) \in [Souls -> Nat]
    BY <2>1, <2>4, <2>7, DecayKeepsGifts
  <2>9. tally' \in Tallies
    <3>1. tally.spans + n \in Nat
      BY <1>1, <2>1 DEF Tallies
    <3>2. tally' = [tally EXCEPT !.spans = tally.spans + n, !.risen = Risen(n)]
      BY <2>6
    <3>3. QED
      BY <1>1, <2>8, <3>1, <3>2, TallyColumns
  <2>10. escrow' \in [Feeds -> {"none", "held", "released", "applied"}]
    BY <1>1, <1>7 DEF Boot, BodyTypeOK
  <2>11. UNCHANGED <<feed, node>> /\ up' = TRUE
    BY <1>7 DEF Boot
  <2>12. QED
    BY <1>1, <2>5, <2>8, <2>9, <2>10, <2>11 DEF BodyInv, BodyTypeOK, FeedsOK
<1>8. QED
  BY <1>2, <1>3, <1>4, <1>5, <1>6, <1>7

-----------------------------------------------------------------------------
(* Feeding: the only way a soul is marked as fed is one gift, to a fallen  *)
(* soul that has not got one.                                              *)
LEMMA FeedingKept ==
    ASSUME BodyInv, NEW k \in Feeds,
           \/ Feed(k) \/ RejectFeed(k) \/ FeedFails(k) \/ FeedThenReject(k)
           \/ \E f, r \in Souls : EnqueueFeed(k, f, r)
    PROVE  BodyInv'
<1>1. /\ soul \in [Souls -> SoulRecord] /\ tally \in Tallies /\ OneGiftOneRecovery
      /\ BodyTypeOK /\ FeedsOK
  BY DEF BodyInv, BodyTypeOK
<1>2. ASSUME NEW outcome \in {"adjudicated", "rejected"}, NEW faults \in {0, 1},
             Give(k, outcome, faults)
      PROVE  BodyInv'
  <2> DEFINE r == feed[k].to
             b == soul[r]
  <2>1. r \in Souls
    BY <1>1, <1>2 DEF Give, Pending, FeedsOK
  <2>2. b \in SoulRecord /\ b.fallen /\ ~b.fed /\ b.essence + 1 \in Nat
    BY <1>1, <1>2, <2>1 DEF Give, MayBeFed, SoulRecord
  <2>3. soul' = [soul EXCEPT ![r] = [b EXCEPT !.fed = TRUE, !.essence = b.essence + 1]]
    BY <1>2 DEF Give
  <2>4. [b EXCEPT !.fed = TRUE, !.essence = b.essence + 1] \in SoulRecord
    BY <2>2, BodyColumns
  <2>5. soul' \in [Souls -> SoulRecord] /\ soul'[r].fed = TRUE /\ soul'[r].fallen = b.fallen
        /\ \A s \in Souls \ {r} : soul'[s] = soul[s]
    <3> HIDE DEF b, r
    <3>1. QED
      BY <1>1, <2>1, <2>2, <2>3, <2>4 DEF SoulRecord
  <2>6. /\ tally' = [tally EXCEPT !.gifts[r] = @ + 1, !.faults = @ + faults]
    BY <1>2 DEF Give
  <2>7. /\ tally'.saves = tally.saves /\ tally'.risen = tally.risen
        /\ tally'.gifts = [tally.gifts EXCEPT ![r] = @ + 1]
    BY <1>1, <2>6 DEF Tallies
  <2>8. tally' \in Tallies
    <3>1. tally.gifts \in [Souls -> Nat] /\ tally.faults + faults \in Nat
      BY <1>1 DEF Tallies
    <3>2. [tally.gifts EXCEPT ![r] = @ + 1] \in [Souls -> Nat]
      BY <2>1, <3>1
    <3>3. tally' = [tally EXCEPT !.gifts = [tally.gifts EXCEPT ![r] = @ + 1],
                                 !.faults = tally.faults + faults]
      BY <1>1, <2>6 DEF Tallies
    <3>4. QED
      BY <1>1, <3>1, <3>2, <3>3 DEF Tallies
  <2>9. OneGiftOneRecovery'
    <3> HIDE DEF r, b
    <3>1. tally.gifts \in [Souls -> Nat] /\ tally.risen \in [Souls -> Nat]
      BY <1>1 DEF Tallies
    <3>2. tally.saves = 0 => tally.gifts[r] = tally.risen[r] + (IF b.fed THEN 1 ELSE 0)
      BY <1>1, <2>1 DEF OneGiftOneRecovery, b
    <3>3. tally.saves = 0 => tally'.gifts[r] = tally'.risen[r] + 1
      BY <2>1, <2>2, <2>7, <3>1, <3>2
    <3>4. ASSUME NEW s \in Souls \ {r}, tally.saves = 0
          PROVE  /\ tally'.gifts[s] = tally'.risen[s] + (IF soul'[s].fed THEN 1 ELSE 0)
                 /\ soul'[s].fed => soul'[s].fallen
      BY <1>1, <2>5, <2>7, <3>1, <3>4 DEF OneGiftOneRecovery
    <3>5. QED
      BY <2>2, <2>5, <2>7, <3>3, <3>4 DEF OneGiftOneRecovery
  <2>10. feed' = [feed EXCEPT ![k].status = outcome]
    BY <1>2 DEF Give
  <2>11. outcome \in FeedStatus \ {"pending"}
    BY DEF FeedStatus
  <2>12. FeedsOK' /\ feed' \in [Feeds -> [status : FeedStatus, from : Souls \cup {Nobody},
                                          to : Souls \cup {Nobody}]]
    BY <2>10, <2>11, FeedsKept
  <2>13. UNCHANGED <<node, up>> /\ escrow' = [escrow EXCEPT ![k] = "applied"]
    BY <1>2 DEF Give
  <2>14. QED
    BY <1>1, <2>5, <2>8, <2>9, <2>12, <2>13 DEF BodyInv, BodyTypeOK
<1>3. CASE RejectFeed(k)
  <2> DEFINE f == feed[k].from
             b == soul[f]
  <2>1. f \in Souls
    BY <1>1, <1>3 DEF RejectFeed, Pending, FeedsOK
  <2>2. b \in SoulRecord /\ b.essence + 1 \in Nat
    BY <1>1, <2>1 DEF SoulRecord
  <2>3. soul' = [soul EXCEPT ![f] = [b EXCEPT !.essence = b.essence + 1]]
    BY <1>3 DEF RejectFeed, Refund
  <2>4. [b EXCEPT !.essence = b.essence + 1] \in SoulRecord
    BY <2>2, BodyColumns
  <2>5. soul' \in [Souls -> SoulRecord]
        /\ \A s \in Souls : soul'[s].fed = soul[s].fed /\ soul'[s].fallen = soul[s].fallen
    BY <1>1, <2>1, <2>2, <2>3, <2>4 DEF SoulRecord
  <2>6. OneGiftOneRecovery'
    BY <1>3, <2>5, GiftsUntouched DEF RejectFeed
  <2>7. feed' = [feed EXCEPT ![k].status = "rejected"]
    BY <1>3 DEF RejectFeed
  <2>8. FeedsOK' /\ feed' \in [Feeds -> [status : FeedStatus, from : Souls \cup {Nobody},
                                         to : Souls \cup {Nobody}]]
    BY <2>7, FeedsKept DEF FeedStatus
  <2>9. UNCHANGED <<node, up, tally>> /\ escrow' = [escrow EXCEPT ![k] = "released"]
    BY <1>3 DEF RejectFeed, Refund
  <2>10. QED
    BY <1>1, <2>5, <2>6, <2>8, <2>9 DEF BodyInv, BodyTypeOK
<1>4. CASE FeedFails(k)
  <2>1. feed' = [feed EXCEPT ![k].status = "rejected"]
    BY <1>4 DEF FeedFails
  <2>2. FeedsOK' /\ feed' \in [Feeds -> [status : FeedStatus, from : Souls \cup {Nobody},
                                         to : Souls \cup {Nobody}]]
    BY <2>1, FeedsKept DEF FeedStatus
  <2>3. UNCHANGED <<soul, escrow, node, up>> /\ tally' = [tally EXCEPT !.faults = @ + 1]
    BY <1>4 DEF FeedFails
  <2>4. /\ tally' \in Tallies /\ tally'.saves = tally.saves
        /\ tally'.gifts = tally.gifts /\ tally'.risen = tally.risen
    BY <1>1, <2>3 DEF Tallies
  <2>5. OneGiftOneRecovery'
    BY <2>3, <2>4, GiftsUntouched
  <2>6. QED
    BY <1>1, <2>2, <2>3, <2>4, <2>5 DEF BodyInv, BodyTypeOK
<1>5. ASSUME NEW f \in Souls, NEW r \in Souls, EnqueueFeed(k, f, r) PROVE BodyInv'
  <2> DEFINE b == soul[f]
  <2>1. b \in SoulRecord /\ b.essence - 1 \in Nat
    <3>1. b \in SoulRecord /\ b.essence # 0
      BY <1>1, <1>5 DEF EnqueueFeed, Awake, Dormant
    <3>2. b.essence \in Nat
      BY <3>1 DEF SoulRecord
    <3>3. QED
      BY <3>1, <3>2
  <2>2. soul' = [soul EXCEPT ![f] = [b EXCEPT !.essence = b.essence - 1]]
    BY <1>5 DEF EnqueueFeed
  <2>3. [b EXCEPT !.essence = b.essence - 1] \in SoulRecord
    BY <2>1, BodyColumns
  <2>4. soul' \in [Souls -> SoulRecord]
        /\ \A s \in Souls : soul'[s].fed = soul[s].fed /\ soul'[s].fallen = soul[s].fallen
    BY <1>1, <2>1, <2>2, <2>3 DEF SoulRecord
  <2>5. OneGiftOneRecovery'
    BY <1>5, <2>4, GiftsUntouched DEF EnqueueFeed
  <2>6. feed' = [feed EXCEPT ![k] = [status |-> "pending", from |-> f, to |-> r]]
    BY <1>5 DEF EnqueueFeed
  <2>7. FeedsOK' /\ feed' \in [Feeds -> [status : FeedStatus, from : Souls \cup {Nobody},
                                         to : Souls \cup {Nobody}]]
    BY <1>1, <2>6 DEF BodyTypeOK, FeedsOK, FeedStatus
  <2>8. UNCHANGED <<node, up, tally>> /\ escrow' = [escrow EXCEPT ![k] = "held"]
    BY <1>5 DEF EnqueueFeed
  <2>9. QED
    BY <1>1, <2>4, <2>5, <2>7, <2>8 DEF BodyInv, BodyTypeOK
<1>6. QED
  BY <1>2, <1>3, <1>4, <1>5 DEF Feed, FeedThenReject

(* Division rounds down, so that whole multiples pass through it.          *)
LEMMA DivBounds ==
    ASSUME NEW a \in Int, NEW r \in Nat \ {0}
    PROVE  a \div r \in Int /\ (a \div r) * r <= a /\ a < ((a \div r) + 1) * r
OBVIOUS

(* Whole multiples leave a quotient. *)
LEMMA DivShift ==
    ASSUME NEW a \in Int, NEW r \in Nat \ {0}, NEW k \in Int
    PROVE  (a - k * r) \div r = (a \div r) - k
OBVIOUS

(* The same numbers as below, without the bodies: a stock x above a line is*)
(* eaten at rate r for n spans of c units each, and then for one more.     *)
LEMMA StockDives ==
    ASSUME NEW x \in Int, NEW r \in Nat \ {0}, NEW c \in Nat \ {0}, NEW n \in Nat
    PROVE  /\ x < n * r => (x * c) \div r < n * c
           /\ n * c > (x * c) \div r => x < n * r
           /\ ((x - n * r) * c) \div r = ((x * c) \div r) - n * c
           /\ x >= n * r => (x * c) \div r >= n * c
<1> DEFINE y == x * c
           k == n * c
           d == y \div r
<1>1. y \in Int /\ k \in Nat /\ n * r \in Nat
  OBVIOUS
<1>2. d \in Int /\ d * r <= y /\ y < (d + 1) * r
  <2> HIDE DEF y
  <2>1. QED
    BY <1>1, DivBounds
<1>3. (n * r) * c = k * r
  OBVIOUS
<1>4. (x - n * r) * c = y - k * r
  BY <1>3
<1>5. (y - k * r) \div r = d - k
  <2>1. k \in Int
    BY <1>1
  <2> HIDE DEF y, k
  <2>2. QED
    BY <1>1, <2>1, DivShift
<1>6. ASSUME x < n * r PROVE d < k
  <2>1. y < (n * r) * c
    BY <1>1, <1>6
  <2>2. d * r < k * r
    <3> HIDE DEF y, k, d
    <3>1. QED
      BY <1>1, <1>2, <1>3, <2>1
  <2> HIDE DEF y, k, d
  <2>3. QED
    BY <1>1, <1>2, <2>2
<1>7. ASSUME x >= n * r PROVE d >= k
  <2>1. y >= (n * r) * c
    BY <1>1, <1>7
  <2>2. (d + 1) * r > k * r
    <3> HIDE DEF y, k, d
    <3>1. QED
      BY <1>1, <1>2, <1>3, <2>1
  <2> HIDE DEF y, k, d
  <2>3. QED
    BY <1>1, <1>2, <2>2
<1>8. k > d => x < n * r
  <2> HIDE DEF y, k, d
  <2>1. QED
    BY <1>1, <1>2, <1>7
<1>9. QED
  BY <1>4, <1>5, <1>6, <1>7, <1>8

(* Starvation adds up: the units of n + 1 spans are those of the first n   *)
(* and those of a span that starts from what is left; and once it has      *)
(* begun it does not stop.                                                 *)
LEMMA StarvedAddsUp ==
    ASSUME NEW b \in SoulRecord, NEW e \in SoulRecord, NEW n \in Nat,
           ~Dormant(b), SatRate(e) = SatRate(b),
           e.sat = Higher(0, b.sat - n * SatRate(b))
    PROVE  /\ StarvedUnits(b, n + 1) = StarvedUnits(b, n) + StarvedUnits(e, 1)
           /\ StarvedUnits(b, n) > 0 => StarvedUnits(e, 1) = Chip
<1> DEFINE r == SatRate(b)
           x == b.sat - Starving
           nc == n * Chip
           nr == n * r
           d == (x * Chip) \div r
<1>1. r \in Nat \ {0} /\ Chip \in Nat \ {0} /\ Starving \in Nat /\ b.sat \in Nat
  BY RateIsNat, BodyConstantsNat DEF SoulRecord
<1>2. nc \in Nat /\ nr \in Nat /\ x \in Int /\ (n + 1) * Chip = nc + Chip
  BY <1>1
<1>3. d \in Int
  <2>1. x * Chip \in Int
    BY <1>1, <1>2
  <2> HIDE DEF x, r
  <2>2. QED
    BY <1>1, <2>1, DivBounds
<1>4. StarvedUnits(b, n) = IF b.sat < Starving THEN nc ELSE Higher(0, nc - d)
  BY DEF StarvedUnits
<1>5. StarvedUnits(b, n + 1)
        = IF b.sat < Starving THEN nc + Chip ELSE Higher(0, nc + Chip - d)
  <2> DEFINE m == (n + 1) * Chip
  <2>1. StarvedUnits(b, n + 1) = IF b.sat < Starving THEN m ELSE Higher(0, m - d)
    BY DEF StarvedUnits
  <2>2. m = nc + Chip
    BY <1>2
  <2> HIDE DEF nc, d, m
  <2>3. m \in Int /\ nc + Chip \in Int /\ d \in Int
    BY <1>1, <1>2, <1>3, <2>2
  <2>4. m - d = nc + Chip - d
    BY <1>1, <1>2, <2>2, <2>3
  <2>5. QED
    BY <1>1, <1>2, <2>1, <2>3, <2>4
<1>6. StarvedUnits(e, 1)
        = IF e.sat < Starving THEN Chip
          ELSE Higher(0, Chip - ((e.sat - Starving) * Chip) \div r)
  BY <1>1 DEF StarvedUnits
<1>7. /\ x < nr => d < nc
      /\ nc > d => x < nr
      /\ ((x - nr) * Chip) \div r = d - nc
      /\ x >= nr => d >= nc
  <2> HIDE DEF r, x
  <2>1. QED
    BY <1>1, <1>2, StockDives
<1>8. e.sat = Higher(0, b.sat - nr)
  OBVIOUS
<1>9. CASE b.sat < Starving
  <2>1. e.sat < Starving
    <3> HIDE DEF nr
    <3>1. QED
      BY <1>1, <1>2, <1>8, <1>9 DEF Higher
  <2> HIDE DEF nc, d, r
  <2>2. QED
    BY <1>1, <1>2, <1>4, <1>5, <1>6, <1>9, <2>1
<1>10. CASE b.sat >= Starving /\ b.sat - nr >= 0 /\ b.sat - nr >= Starving
  <2>1. e.sat - Starving = x - nr /\ e.sat >= Starving
    <3> HIDE DEF nr
    <3>1. QED
      BY <1>1, <1>2, <1>8, <1>10 DEF Higher
  <2>2. ((e.sat - Starving) * Chip) \div r = d - nc /\ d >= nc
    <3>1. x >= nr
      <4> HIDE DEF nr
      <4>1. QED
        BY <1>1, <1>2, <1>10
    <3>2. QED
      BY <1>7, <2>1, <3>1
  <2> HIDE DEF nc, d, r, x, nr
  <2>3. e.sat \in Int
    BY DEF SoulRecord
  <2>4. QED
    BY <1>1, <1>2, <1>3, <1>4, <1>5, <1>6, <1>10, <2>1, <2>2, <2>3 DEF Higher
<1>11. CASE b.sat >= Starving /\ ~(b.sat - nr >= 0 /\ b.sat - nr >= Starving)
  <2>1. x < nr
    <3> HIDE DEF nr
    <3>1. QED
      BY <1>1, <1>2, <1>11
  <2>2. StarvedUnits(e, 1) = Chip
    <3>1. CASE e.sat < Starving
      BY <1>6, <3>1
    <3>2. CASE e.sat >= Starving
      <4>1. e.sat = 0 /\ Starving = 0
        <5> HIDE DEF nr
        <5>1. QED
          BY <1>1, <1>2, <1>8, <1>11, <3>2 DEF Higher
      <4>2. (e.sat - Starving) * Chip = 0
        BY <1>1, <4>1
      <4>3. 0 \div r = 0
        <5> HIDE DEF r
        <5>1. QED
          BY <1>1
      <4> HIDE DEF r
      <4>4. QED
        BY <1>1, <1>6, <4>1, <4>2, <4>3 DEF Higher
    <3>3. QED
      BY <1>1, <3>1, <3>2 DEF SoulRecord
  <2>3. d < nc
    BY <1>7, <2>1
  <2> HIDE DEF nc, d, r, x, nr
  <2>4. QED
    BY <1>1, <1>2, <1>3, <1>4, <1>5, <1>11, <2>2, <2>3 DEF Higher
<1>12. QED
  <2> HIDE DEF nr
  <2>1. QED
    BY <1>1, <1>2, <1>9, <1>10, <1>11

-----------------------------------------------------------------------------
Starves(b, n) == ~b.fallen /\ ~Dormant(b) /\ b.hp <= StarvedUnits(b, n)

(* The rest clock of a soul that falls. *)
Lying(b, n) ==
    IF StarvedUnits(b, n) > 0 /\ b.hp > 0 THEN StarvedUnits(b, n) - b.hp ELSE n * Chip

(* An unfed soul decays field by field. *)
LEMMA DecayFields ==
    ASSUME NEW b \in SoulRecord, ~b.fed, NEW n \in Nat
    PROVE  /\ Decay(b, n).sat = Higher(0, b.sat - n * SatRate(b))
           /\ Decay(b, n).hp = IF Starves(b, n) THEN 0 ELSE IF Dormant(b) THEN Higher(1, b.hp)
                               ELSE IF b.fallen THEN b.hp ELSE b.hp - StarvedUnits(b, n)
           /\ Decay(b, n).fallen = (b.fallen \/ Starves(b, n))
           /\ Decay(b, n).fed = FALSE
           /\ Decay(b, n).rest = IF Starves(b, n) THEN Lower(RestNeeded, Lying(b, n))
                                 ELSE RestAfter(b, n)
           /\ Decay(b, n).idle = b.idle
           /\ Decay(b, n).moving = (b.moving /\ ~Starves(b, n))
           /\ Decay(b, n).essence = b.essence
           /\ Decay(b, n).food = b.food
<1>1. /\ b.fallen \in BOOLEAN /\ b.moving \in BOOLEAN /\ b.fed = FALSE
  BY DEF SoulRecord
<1>2. CASE Starves(b, n)
  <2>1. Decay(b, n) = Fallen(b, n)
    BY <1>2 DEF Decay, Starves
  <2>2. QED
    BY <1>1, <1>2, <2>1 DEF Fallen, Lying, SoulRecord
<1>3. CASE ~Starves(b, n)
  <2>1. Weakened(b, n).fed = FALSE
    BY <1>1 DEF Weakened, SoulRecord
  <2>2. Decay(b, n) = Weakened(b, n)
    BY <1>3, <2>1 DEF Decay, Starves, Stands
  <2>3. QED
    BY <1>1, <1>3, <2>2 DEF Weakened, SoulRecord
<1>4. QED
  BY <1>2, <1>3

(* Bodies with the same columns are the same. *)
LEMMA SameBody ==
    ASSUME NEW b \in SoulRecord, NEW e \in SoulRecord,
           b.sat = e.sat, b.hp = e.hp, b.fallen = e.fallen, b.fed = e.fed, b.rest = e.rest,
           b.idle = e.idle, b.moving = e.moving, b.essence = e.essence, b.food = e.food
    PROVE  b = e
BY DEF SoulRecord

(* A longer stretch starves no less. *)
LEMMA StarvedGrows ==
    ASSUME NEW b \in SoulRecord, ~Dormant(b), NEW n \in Nat
    PROVE  StarvedUnits(b, n) <= StarvedUnits(b, n + 1)
<1> DEFINE d == ((b.sat - Starving) * Chip) \div SatRate(b)
           k == n * Chip
           m == (n + 1) * Chip
<1>1. SatRate(b) \in Nat \ {0} /\ Chip \in Nat \ {0} /\ Starving \in Nat /\ b.sat \in Nat
  BY RateIsNat, BodyConstantsNat DEF SoulRecord
<1>2. k \in Nat /\ m \in Nat /\ k <= m /\ (b.sat - Starving) * Chip \in Int
  BY <1>1
<1>3. d \in Int
  BY <1>1, <1>2, DivBounds
<1>4. /\ StarvedUnits(b, n) = IF b.sat < Starving THEN k ELSE Higher(0, k - d)
      /\ StarvedUnits(b, n + 1) = IF b.sat < Starving THEN m ELSE Higher(0, m - d)
  BY DEF StarvedUnits
<1> HIDE DEF d, k, m
<1>5. QED
  BY <1>1, <1>2, <1>3, <1>4 DEF Higher

(* What has lain long enough has lain long enough a span later. *)
LEMMA LyingOn ==
    ASSUME NEW z \in Nat, NEW y, y = Lower(RestNeeded, z)
    PROVE  /\ y \in Nat /\ y # NotResting
           /\ Lower(RestNeeded, y + Chip) = Lower(RestNeeded, z + Chip)
<1>1. Chip \in Nat /\ RestNeeded \in Nat /\ NotResting = -1
  BY BodyConstantsNat DEF NotResting
<1>2. CASE RestNeeded < z
  <2>1. y = RestNeeded
    BY <1>1, <1>2 DEF Lower
  <2> QED
    BY <1>1, <1>2, <2>1 DEF Lower
<1>3. CASE z <= RestNeeded
  <2>1. y = z
    BY <1>1, <1>3 DEF Lower
  <2> QED
    BY <1>1, <2>1
<1> QED
  BY <1>1, <1>2, <1>3

(* One more span after n is the same as n + 1 at once, for a soul that is  *)
(* not fed and does not fall on the move.                                  *)
LEMMA DecayOneMore ==
    ASSUME NEW b \in SoulRecord, ~b.fed, NEW n \in Nat,
           b.moving => ~Decay(b, n + 1).fallen
    PROVE  /\ Decay(Decay(b, n), 1) = Decay(b, n + 1)
           /\ b.moving => ~Decay(b, n).fallen
<1> DEFINE e == Decay(b, n)
           l == Decay(b, n + 1)
           r == SatRate(b)
<1>1. e \in SoulRecord /\ l \in SoulRecord /\ Decay(e, 1) \in SoulRecord /\ ~e.fed
  BY DecayFlags, DecayFields
<1>2. /\ b.sat \in Nat /\ b.hp \in Nat /\ b.fallen \in BOOLEAN /\ b.moving \in BOOLEAN
      /\ b.idle \in BOOLEAN /\ b.rest \in Int /\ NotResting <= b.rest /\ r \in Nat
      /\ Chip \in Nat \ {0} /\ RestNeeded \in Nat /\ NotResting = -1
  BY RateIsNat, BodyConstantsNat DEF SoulRecord, NotResting
<1>3. /\ e.sat = Higher(0, b.sat - n * r)
      /\ e.fallen = (b.fallen \/ Starves(b, n))
      /\ e.idle = b.idle /\ e.moving = (b.moving /\ ~Starves(b, n))
      /\ e.essence = b.essence /\ e.food = b.food
      /\ e.hp = IF Starves(b, n) THEN 0 ELSE IF Dormant(b) THEN Higher(1, b.hp)
                ELSE IF b.fallen THEN b.hp ELSE b.hp - StarvedUnits(b, n)
      /\ e.rest = IF Starves(b, n) THEN Lower(RestNeeded, Lying(b, n)) ELSE RestAfter(b, n)
  BY DecayFields
<1>4. /\ l.sat = Higher(0, b.sat - (n + 1) * r)
      /\ l.fallen = (b.fallen \/ Starves(b, n + 1)) /\ l.fed = FALSE
      /\ l.idle = b.idle /\ l.moving = (b.moving /\ ~Starves(b, n + 1))
      /\ l.essence = b.essence /\ l.food = b.food
      /\ l.hp = IF Starves(b, n + 1) THEN 0 ELSE IF Dormant(b) THEN Higher(1, b.hp)
                ELSE IF b.fallen THEN b.hp ELSE b.hp - StarvedUnits(b, n + 1)
      /\ l.rest = IF Starves(b, n + 1) THEN Lower(RestNeeded, Lying(b, n + 1))
                  ELSE RestAfter(b, n + 1)
  <2>1. n + 1 \in Nat
    OBVIOUS
  <2>2. QED
    BY <2>1, DecayFields
<1>5. /\ Decay(e, 1).sat = Higher(0, e.sat - 1 * SatRate(e))
      /\ Decay(e, 1).fallen = (e.fallen \/ Starves(e, 1)) /\ Decay(e, 1).fed = FALSE
      /\ Decay(e, 1).idle = e.idle /\ Decay(e, 1).moving = (e.moving /\ ~Starves(e, 1))
      /\ Decay(e, 1).essence = e.essence /\ Decay(e, 1).food = e.food
      /\ Decay(e, 1).hp = IF Starves(e, 1) THEN 0 ELSE IF Dormant(e) THEN Higher(1, e.hp)
                          ELSE IF e.fallen THEN e.hp ELSE e.hp - StarvedUnits(e, 1)
      /\ Decay(e, 1).rest = IF Starves(e, 1) THEN Lower(RestNeeded, Lying(e, 1))
                            ELSE RestAfter(e, 1)
  <2> HIDE DEF e
  <2>1. 1 \in Nat
    OBVIOUS
  <2>2. QED
    BY <1>1, <2>1, DecayFields, ZenonT(60)
<1>6. Dormant(e) <=> Dormant(b)
  BY <1>3 DEF Dormant
<1>7. Starves(b, n) => Starves(b, n + 1)
  <2>1. ~Dormant(b) => /\ StarvedUnits(b, n) \in Nat /\ StarvedUnits(b, n + 1) \in Nat
                       /\ StarvedUnits(b, n) <= StarvedUnits(b, n + 1)
    BY StarvedIsNat, StarvedGrows
  <2>2. QED
    BY <1>2, <2>1 DEF Starves
<1>8. b.moving => ~e.fallen
  BY <1>3, <1>4, <1>7
<1>9. SatRate(e) = r
  <2>1. e.moving /\ ~e.fallen <=> b.moving /\ ~b.fallen
    BY <1>2, <1>3, <1>8
  <2> HIDE DEF e
  <2>2. QED
    BY <1>6, <2>1 DEF SatRate
<1>10. Decay(e, 1).sat = l.sat
  <2> DEFINE p == n * r
             q == (n + 1) * r
  <2>1. p \in Nat /\ q = p + r
    BY <1>2
  <2>2. Decay(e, 1).sat = Higher(0, e.sat - r) /\ e.sat = Higher(0, b.sat - p)
        /\ l.sat = Higher(0, b.sat - q)
    <3>1. 1 * SatRate(e) = r
      BY <1>2, <1>9
    <3>2. QED
      BY <1>3, <1>4, <1>5, <3>1
  <2> HIDE DEF e, l, r, p, q
  <2>3. QED
    BY <1>2, <2>1, <2>2 DEF Higher
<1>11. CASE b.fallen \/ Dormant(b)
  <2>1. ~Starves(b, n) /\ ~Starves(b, n + 1) /\ ~Starves(e, 1)
    <3> HIDE DEF e
    <3>1. QED
      BY <1>3, <1>6, <1>11 DEF Starves
  <2>2. Decay(e, 1).hp = l.hp
    <3> HIDE DEF e, l
    <3>1. Higher(1, Higher(1, b.hp)) = Higher(1, b.hp)
      BY <1>2 DEF Higher
    <3>2. QED
      BY <1>3, <1>4, <1>5, <1>6, <1>11, <2>1, <3>1
  <2>3. Decay(e, 1).rest = l.rest
    <3> DEFINE p == n * Chip
               q == (n + 1) * Chip
    <3>1. p \in Nat /\ q = p + Chip /\ 1 * Chip = Chip
      BY <1>2
    <3>2. e.rest = RestAfter(b, n) /\ l.rest = RestAfter(b, n + 1)
          /\ Decay(e, 1).rest = RestAfter(e, 1) /\ (Resting(e) <=> Resting(b))
      BY <1>2, <1>3, <1>4, <1>5, <2>1 DEF Resting
    <3> HIDE DEF e, l
    <3>3. /\ RestAfter(b, n) = IF ~Resting(b) THEN NotResting
               ELSE Lower(RestNeeded, (IF b.rest = NotResting THEN 0 ELSE b.rest) + p)
          /\ RestAfter(b, n + 1) = IF ~Resting(b) THEN NotResting
               ELSE Lower(RestNeeded, (IF b.rest = NotResting THEN 0 ELSE b.rest) + q)
          /\ RestAfter(e, 1) = IF ~Resting(b) THEN NotResting
               ELSE Lower(RestNeeded, (IF e.rest = NotResting THEN 0 ELSE e.rest) + Chip)
      BY <3>1, <3>2 DEF RestAfter
    <3> HIDE DEF p, q
    <3>4. CASE ~Resting(b)
      BY <3>2, <3>3, <3>4
    <3>5. CASE Resting(b)
      <4> DEFINE x == IF b.rest = NotResting THEN 0 ELSE b.rest
                 z == x + p
      <4>1. x \in Nat
        BY <1>2
      <4> HIDE DEF x
      <4>2. z \in Nat /\ x + q = z + Chip
        BY <1>2, <3>1, <4>1
      <4>3. e.rest = Lower(RestNeeded, z) /\ l.rest = Lower(RestNeeded, x + q)
        BY <3>2, <3>3, <3>5 DEF x
      <4> HIDE DEF z
      <4>4. e.rest # NotResting
            /\ Lower(RestNeeded, e.rest + Chip) = Lower(RestNeeded, z + Chip)
        BY <4>2, <4>3, LyingOn
      <4>5. Decay(e, 1).rest = Lower(RestNeeded, e.rest + Chip)
        BY <3>2, <3>3, <3>5, <4>4
      <4> QED
        BY <4>2, <4>3, <4>4, <4>5
    <3> QED
      BY <3>4, <3>5
  <2>4. /\ Decay(e, 1).fallen = l.fallen /\ Decay(e, 1).moving = l.moving
    BY <1>2, <1>3, <1>4, <1>5, <2>1
  <2> HIDE DEF e, l
  <2>5. Decay(e, 1) = l
    BY <1>1, <1>3, <1>4, <1>5, <1>10, <2>2, <2>3, <2>4, SameBody, ZenonT(60)
  <2>6. QED
    BY <1>8, <2>5 DEF e, l
<1>12. CASE ~b.fallen /\ ~Dormant(b)
  <2> DEFINE u == StarvedUnits(b, n)
             v == StarvedUnits(b, n + 1)
             w == StarvedUnits(e, 1)
             p == n * Chip
             q == (n + 1) * Chip
  <2>1. /\ v = u + w /\ (u > 0 => w = Chip)
    <3> HIDE DEF e
    <3>1. QED
      BY <1>1, <1>3, <1>9, <1>12, StarvedAddsUp
  <2>2. u \in Nat /\ v \in Nat
    BY <1>12, StarvedIsNat
  <2>3. w \in Nat
    <3> HIDE DEF e
    <3>1. QED
      BY <1>1, <1>6, <1>12, StarvedIsNat
  <2>4. /\ p \in Nat /\ q = p + Chip /\ 1 * Chip = Chip
    BY <1>2
  <2>5. /\ Starves(b, n) <=> b.hp <= u
        /\ Starves(b, n + 1) <=> b.hp <= v
        /\ Starves(e, 1) <=> ~e.fallen /\ e.hp <= w
    <3> HIDE DEF e
    <3>1. QED
      BY <1>6, <1>12 DEF Starves
  <2>6. /\ e.fallen = Starves(b, n)
        /\ e.hp = IF Starves(b, n) THEN 0 ELSE b.hp - u
    <3>1. b.fallen = FALSE
      BY <1>2, <1>12
    <3> HIDE DEF e, u
    <3>2. e.fallen = Starves(b, n)
      BY <1>3, <3>1 DEF Starves
    <3>3. QED
      BY <1>3, <1>12, <3>2 DEF u
  <2>7. (e.fallen \/ Starves(e, 1)) <=> Starves(b, n + 1)
    <3> HIDE DEF e, u, v, w
    <3>1. QED
      BY <1>2, <2>1, <2>2, <2>3, <2>5, <2>6
  <2>8. Decay(e, 1).hp = l.hp
    <3>1. Decay(e, 1).hp = IF Starves(e, 1) THEN 0 ELSE IF e.fallen THEN e.hp ELSE e.hp - w
      BY <1>5, <1>6, <1>12
    <3>2. l.hp = IF Starves(b, n + 1) THEN 0 ELSE b.hp - v
      BY <1>4, <1>12
    <3> HIDE DEF e, l, u, v, w
    <3>3. QED
      BY <1>2, <2>1, <2>2, <2>3, <2>5, <2>6, <2>7, <3>1, <3>2
  <2>9. /\ Lying(b, n) = IF u > 0 /\ b.hp > 0 THEN u - b.hp ELSE p
        /\ Lying(b, n + 1) = IF v > 0 /\ b.hp > 0 THEN v - b.hp ELSE q
        /\ Lying(e, 1) = IF w > 0 /\ e.hp > 0 THEN w - e.hp ELSE Chip
    BY <2>4 DEF Lying
  <2>10. (Resting(b) <=> b.idle) /\ (Resting(e) <=> e.fallen \/ b.idle)
    BY <1>3, <1>12 DEF Resting
  <2>11. Decay(e, 1).rest = l.rest
    <3>1. CASE Starves(b, n)
      <4>1. /\ ~Starves(e, 1) /\ Starves(b, n + 1) /\ Resting(e)
            /\ Decay(e, 1).rest = RestAfter(e, 1)
            /\ e.rest = Lower(RestNeeded, Lying(b, n))
            /\ l.rest = Lower(RestNeeded, Lying(b, n + 1))
        BY <1>3, <1>4, <1>5, <1>7, <2>5, <2>6, <2>10, <3>1
      <4>2. /\ Lying(b, n) \in Nat /\ Lying(b, n + 1) = Lying(b, n) + Chip
        <5> HIDE DEF e, l, u, v, w, p, q
        <5>1. QED
          BY <1>2, <2>1, <2>2, <2>3, <2>4, <2>5, <2>9, <3>1
      <4>3. RestAfter(e, 1)
              = Lower(RestNeeded, (IF e.rest = NotResting THEN 0 ELSE e.rest) + Chip)
        BY <2>4, <4>1 DEF RestAfter
      <4> HIDE DEF e, l, u, v, w, p, q
      <4>4. e.rest # NotResting
            /\ Lower(RestNeeded, e.rest + Chip) = Lower(RestNeeded, Lying(b, n) + Chip)
        BY <4>1, <4>2, LyingOn
      <4> QED
        BY <4>1, <4>2, <4>3, <4>4
    <3>2. CASE ~Starves(b, n) /\ Starves(b, n + 1)
      <4>1. /\ Starves(e, 1) /\ Decay(e, 1).rest = Lower(RestNeeded, Lying(e, 1))
            /\ l.rest = Lower(RestNeeded, Lying(b, n + 1))
        BY <1>4, <1>5, <2>6, <2>7, <3>2
      <4>2. Lying(e, 1) = Lying(b, n + 1)
        <5> HIDE DEF e, l, u, v, w, p, q
        <5>1. QED
          BY <1>2, <2>1, <2>2, <2>3, <2>4, <2>5, <2>6, <2>9, <3>2, <4>1
      <4>3. QED
        BY <4>1, <4>2
    <3>3. CASE ~Starves(b, n + 1)
      <4>1. /\ ~Starves(b, n) /\ ~Starves(e, 1) /\ ~e.fallen
            /\ e.rest = RestAfter(b, n) /\ l.rest = RestAfter(b, n + 1)
            /\ Decay(e, 1).rest = RestAfter(e, 1)
        BY <1>3, <1>4, <1>5, <1>7, <2>6, <2>7, <3>3
      <4>2. /\ RestAfter(b, n) = IF ~b.idle THEN NotResting
               ELSE Lower(RestNeeded, (IF b.rest = NotResting THEN 0 ELSE b.rest) + p)
            /\ RestAfter(b, n + 1) = IF ~b.idle THEN NotResting
               ELSE Lower(RestNeeded, (IF b.rest = NotResting THEN 0 ELSE b.rest) + q)
            /\ RestAfter(e, 1) = IF ~b.idle THEN NotResting
               ELSE Lower(RestNeeded, (IF e.rest = NotResting THEN 0 ELSE e.rest) + Chip)
        BY <2>4, <2>10, <4>1 DEF RestAfter
      <4> HIDE DEF e, l, u, v, w, p, q
      <4>3. CASE ~b.idle
        BY <4>1, <4>2, <4>3
      <4>4. CASE b.idle
        <5> DEFINE x == IF b.rest = NotResting THEN 0 ELSE b.rest
                   z == x + p
        <5>1. x \in Nat
          BY <1>2
        <5> HIDE DEF x
        <5>2. z \in Nat /\ x + q = z + Chip
          BY <1>2, <2>4, <5>1
        <5>3. e.rest = Lower(RestNeeded, z) /\ l.rest = Lower(RestNeeded, x + q)
          BY <4>1, <4>2, <4>4 DEF x
        <5> HIDE DEF z
        <5>4. e.rest # NotResting
              /\ Lower(RestNeeded, e.rest + Chip) = Lower(RestNeeded, z + Chip)
          BY <5>2, <5>3, LyingOn
        <5>5. Decay(e, 1).rest = Lower(RestNeeded, e.rest + Chip)
          BY <4>1, <4>2, <4>4, <5>4
        <5> QED
          BY <5>2, <5>3, <5>4, <5>5
      <4> QED
        BY <4>3, <4>4
    <3>4. QED
      BY <3>1, <3>2, <3>3
  <2>12. Decay(e, 1).fallen = l.fallen /\ Decay(e, 1).moving = l.moving
    BY <1>2, <1>3, <1>4, <1>5, <1>8, <1>12, <2>7
  <2> HIDE DEF e, l
  <2>13. Decay(e, 1) = l
    BY <1>1, <1>3, <1>4, <1>5, <1>10, <2>8, <2>11, <2>12, SameBody, ZenonT(60)
  <2>14. QED
    BY <1>8, <2>13 DEF e, l
<1>13. QED
  BY <1>11, <1>12

-----------------------------------------------------------------------------
(* A soul that does not lie after n spans did not lie after fewer.         *)
LEMMA StandsBefore ==
    ASSUME NEW b \in SoulRecord, ~b.fed, NEW n \in Nat, b.moving => ~Decay(b, n).fallen
    PROVE  \A i \in 0..n : b.moving => ~Decay(b, i).fallen
<1> DEFINE Bad == {j \in 0..n : ~(b.moving => ~Decay(b, n - j).fallen)}
<1>1. SUFFICES ASSUME Bad # {} PROVE FALSE
  <2>1. \A i \in 0..n : n - i \in 0..n /\ n - (n - i) = i
    OBVIOUS
  <2>2. QED
    BY <1>1, <2>1
<1>2. PICK j \in Bad : \A m \in Bad : j <= m
  <2>1. Bad \subseteq Nat
    OBVIOUS
  <2> HIDE DEF Bad
  <2>2. QED
    BY <1>1, <2>1, Least
<1>3. j # 0
  BY <1>2
<1>4. j - 1 \in 0..n /\ j - 1 \notin Bad /\ n - j \in Nat /\ n - (j - 1) = (n - j) + 1
  BY <1>2, <1>3
<1>5. b.moving => ~Decay(b, (n - j) + 1).fallen
  BY <1>4
<1>6. b.moving => ~Decay(b, n - j).fallen
  BY <1>4, <1>5, DecayOneMore
<1>7. QED
  BY <1>2, <1>6

Living(f, b, n) == f = [i \in 0..n |-> IF i = 0 THEN b ELSE Decay(f[i - 1], 1)]

(* The table of the closed form is one that lives tick by tick.            *)
LEMMA ClosedFormLives ==
    ASSUME NEW b \in SoulRecord, ~b.fed, NEW n \in Nat, b.moving => ~Decay(b, n).fallen
    PROVE  Living([i \in 0..n |-> IF i = 0 THEN b ELSE Decay(b, i)], b, n)
<1> DEFINE D == [i \in 0..n |-> IF i = 0 THEN b ELSE Decay(b, i)]
<1>1. ASSUME NEW i \in 0..n, i # 0 PROVE D[i] = Decay(D[i - 1], 1)
  <2>1. i - 1 \in 0..n /\ i - 1 \in Nat /\ (i - 1) + 1 = i
    BY <1>1
  <2>2. D[i] = Decay(b, i)
    BY <1>1
  <2>3. CASE i - 1 = 0
    BY <2>1, <2>2, <2>3
  <2>4. CASE i - 1 # 0
    <3>1. D[i - 1] = Decay(b, i - 1)
      BY <2>1, <2>4
    <3>2. b.moving => ~Decay(b, (i - 1) + 1).fallen
      BY <2>1, StandsBefore
    <3>3. Decay(Decay(b, i - 1), 1) = Decay(b, (i - 1) + 1)
      BY <2>1, <3>2, DecayOneMore
    <3>4. QED
      BY <2>1, <2>2, <3>1, <3>3
  <2>5. QED
    BY <2>3, <2>4
<1>2. D[0] = b
  OBVIOUS
<1>3. D = [i \in 0..n |-> IF i = 0 THEN b ELSE Decay(D[i - 1], 1)]
  <2> DEFINE R == [i \in 0..n |-> IF i = 0 THEN b ELSE Decay(D[i - 1], 1)]
  <2>1. \A i \in 0..n : D[i] = R[i]
    <3> HIDE DEF D
    <3>1. QED
      BY <1>1, <1>2
  <2>2. D = [i \in 0..n |-> D[i]] /\ R = [i \in 0..n |-> R[i]]
    OBVIOUS
  <2> HIDE DEF D, R
  <2>3. D = R
    BY <2>1, <2>2
  <2>4. QED
    BY <2>3 DEF R
<1> HIDE DEF D
<1>4. QED
  BY <1>3 DEF Living, D

(* What such a table holds, tick by tick.                                  *)
LEMMA LivingAt ==
    ASSUME NEW b, NEW n \in Nat, NEW f, Living(f, b, n)
    PROVE  \A j \in 0..n : f[j] = IF j = 0 THEN b ELSE Decay(f[j - 1], 1)
BY DEF Living

(* Two tables that live tick by tick from the same body are the same.      *)
LEMMA LivingUnique ==
    ASSUME NEW b, NEW n \in Nat, NEW f, NEW g, Living(f, b, n), Living(g, b, n)
    PROVE  \A i \in 0..n : f[i] = g[i]
<1> DEFINE Bad == {i \in 0..n : f[i] # g[i]}
<1>1. SUFFICES ASSUME Bad # {} PROVE FALSE
  OBVIOUS
<1>2. PICK i \in Bad : \A m \in Bad : i <= m
  <2>1. Bad \subseteq Nat
    OBVIOUS
  <2> HIDE DEF Bad
  <2>2. QED
    BY <1>1, <2>1, Least
<1>3. f[i] = IF i = 0 THEN b ELSE Decay(f[i - 1], 1)
  <2> HIDE DEF Bad
  <2>1. i \in 0..n
    BY DEF Bad
  <2>2. QED
    BY <2>1, LivingAt
<1>4. g[i] = IF i = 0 THEN b ELSE Decay(g[i - 1], 1)
  <2>1. i \in 0..n
    OBVIOUS
  <2> HIDE DEF Bad
  <2>2. QED
    BY <2>1, LivingAt
<1>5. i # 0 /\ i \in 0..n /\ f[i] # g[i]
  BY <1>2, <1>3, <1>4
<1>6. i - 1 \in 0..n /\ i - 1 \notin Bad
  BY <1>2, <1>5
<1>7. f[i - 1] = g[i - 1]
  BY <1>6
<1>8. QED
  BY <1>3, <1>4, <1>5, <1>7

(* Downtime in one closed step is downtime lived through tick by tick.     *)
LEMMA LivedIsDecay ==
    ASSUME NEW b \in SoulRecord, ~b.fed, NEW n \in Nat \ {0},
           b.moving => ~Decay(b, n).fallen
    PROVE  Lived(b, n) = Decay(b, n)
<1> DEFINE D == [i \in 0..n |-> IF i = 0 THEN b ELSE Decay(b, i)]
<1>1. Living(D, b, n)
  BY ClosedFormLives
<1>2. Lived(b, n) = (CHOOSE f : Living(f, b, n))[n]
  BY DEF Lived, Living
<1>3. D[n] = Decay(b, n)
  OBVIOUS
<1> HIDE DEF D
<1>4. PICK k : Living(k, b, n) /\ k = CHOOSE f : Living(f, b, n)
  BY <1>1, Zenon
<1>5. k[n] = D[n]
  BY <1>1, <1>4, LivingUnique
<1>6. QED
  BY <1>2, <1>3, <1>4, <1>5

-----------------------------------------------------------------------------
(* The invariant is inductive. *)
LEMMA BodyKept == BodyInv /\ [BodyNext]_bodyVars => BodyInv'
<1> SUFFICES ASSUME BodyInv, [BodyNext]_bodyVars PROVE BodyInv'
  OBVIOUS
<1>1. CASE UNCHANGED bodyVars
  BY <1>1 DEF bodyVars, BodyInv, BodyTypeOK, FeedsOK, OneGiftOneRecovery
<1>2. QED
  BY <1>1, LivingKept, FeedingKept DEF BodyNext

(* Every reachable state of the bodies satisfies the invariant. *)
LEMMA BodyHolds == BodySpec => []BodyInv
<1>1. BodyInv /\ [BodyNext]_bodyVars => BodyInv'
  BY BodyKept
<1>2. QED
  BY <1>1, BodyStarts, PTL DEF BodySpec

(* Needs, flags, clocks and wallets of the souls are well typed: satiety   *)
(* and hit points never leave their range, however long the catch-up.      *)
THEOREM BodyIsTyped == BodySpec => []BodyTypeOK
<1>1. BodyInv => BodyTypeOK
  BY DEF BodyInv
<1>2. QED
  BY <1>1, BodyHolds, PTL

(* Without a client's save, every gift of food has had exactly one         *)
(* recovery or still marks its fallen recipient as fed.                    *)
THEOREM GiftsAndRecoveries == BodySpec => []OneGiftOneRecovery
<1>1. BodyInv => OneGiftOneRecovery
  BY DEF BodyInv
<1>2. QED
  BY <1>1, BodyHolds, PTL

(* biology.py's promise that live and catch-up rates match: one closed step*)
(* over a downtime of any length gives the body the live ticks would have  *)
(* given, for every soul that cannot stand up meanwhile and does not       *)
(* collapse on the move.                                                   *)
THEOREM DecayAlwaysComposes == BodySpec => []DecayComposes
<1>1. BodyInv => DecayComposes
  <2> SUFFICES ASSUME BodyInv, NEW s \in Souls, NEW n \in 1..Gap, ~soul[s].fed,
                      soul[s].moving => ~Decay(soul[s], n).fallen
               PROVE  Lived(soul[s], n) = Decay(soul[s], n)
    BY DEF DecayComposes
  <2>1. soul[s] \in SoulRecord /\ n \in Nat \ {0}
    BY DEF BodyInv, BodyTypeOK
  <2>2. QED
    BY <2>1, LivedIsDecay
<1>2. QED
  BY <1>1, BodyHolds, PTL

-----------------------------------------------------------------------------
(***************************************************************************)
(* The brain.                                                              *)
(***************************************************************************)
Jobs == [kinds : SUBSET Kinds, ready : BOOLEAN, stale : BOOLEAN]

(* The soul whose think is under way is one of the due ones. *)
PoolOK ==
    /\ tick \in [at : {"pump", "pool", "thinking", "sweep"}, todo : SUBSET Souls,
                 soul : Souls \cup {NoSoul}, arrived : SUBSET Souls]
    /\ tick.at = "thinking" => tick.soul \in tick.todo

QueueOK ==
    /\ job \in [Souls -> Jobs]
    /\ worker \in [at : {"idle", "holding", "thinking"},
                   soul : Souls \cup {NoSoul}, job : Jobs]
    /\ worker.at # "idle" => worker.soul \in Souls

SchedOK ==
    /\ sched \in [Souls -> [next : {"none", "later", "soon", "due"}, gap : BOOLEAN]]
    /\ past \in [recent : SUBSET Souls, pruned : SUBSET Souls,
                 owed : [Souls -> SUBSET Kinds], notes : Nat]

BodiesOK ==
    /\ bodies \in [Souls -> [state : {"awake", "dormant", "collapsed"},
                           path : {"still", "queued", "moving"}, leg : BOOLEAN]]
    /\ episode \in [Souls -> [legs : 0..(MaxLegs - 1), tracked : BOOLEAN]]

BreakerOK ==
    breaker \in [state : {"closed", "open", "half_open"}, failures : 0..Failures,
                 probe : BOOLEAN, cooled : BOOLEAN]

(* A recent think keeps its gap, unless the schedule was pruned since; the *)
(* gap keeps the soul from being due; who is about to think is not recent. *)
Paced ==
    /\ \A s \in past.recent \ past.pruned : sched[s].gap
    /\ \A s \in Souls : sched[s].gap => sched[s].next \in {"later", "soon"}
    /\ \A s \in tick.todo : s \in past.recent => s \in past.pruned

BrainsInv ==
    PoolOK /\ QueueOK /\ SchedOK /\ BodiesOK /\ BreakerOK /\ OneBrain /\ Paced

-----------------------------------------------------------------------------
(* The steps that do not touch the tick thread's own state. *)
OffTick ==
    \/ Shed \/ Refused \/ PutBack \/ Admit \/ Think \/ BreakerCools
    \/ \E s \in Souls : Take(s) \/ World(s) \/ Timers(s)

(* The brain starts in the invariant. *)
LEMMA BrainsStart == BrainsInit => BrainsInv
<1> SUFFICES ASSUME BrainsInit PROVE BrainsInv
  OBVIOUS
<1> USE BrainsConstants DEF BrainsInit
<1>1. PoolOK
  BY DEF PoolOK
<1>2. QueueOK
  BY DEF QueueOK, Jobs, NoJob
<1>3. SchedOK
  BY DEF SchedOK
<1>4. BodiesOK
  BY DEF BodiesOK
<1>5. BreakerOK
  BY DEF BreakerOK
<1>6. OneBrain
  BY DEF OneBrain, PoolThinks, WorkerThinks
<1>7. Paced
  BY DEF Paced
<1>8. QED
  BY <1>1, <1>2, <1>3, <1>4, <1>5, <1>6, <1>7 DEF BrainsInv

(* Neither the worker nor the world nor a timer touches the tick. *)
LEMMA OffTickKeepsTick == OffTick => UNCHANGED tick
BY DEF OffTick, Shed, Refused, PutBack, Admit, Think, GivesUp, Raises, JudgeFails,
       NoGoal, OtherGoal, WanderSuppressed, EpisodeComplete, EmitLeg, BreakerCools, Take,
       World, Event, Flag, Falls, Rises, Restless, Stroll, Timers, ComesDue, GapEnds,
       JobReady, JobStale

(* The pool's bookkeeping: whom it still has to think about, and for whom  *)
(* it thinks.                                                              *)
LEMMA PoolKept == BrainsInv /\ [BrainsNext]_brainVars => PoolOK'
<1> SUFFICES ASSUME BrainsInv, [BrainsNext]_brainVars PROVE PoolOK'
  OBVIOUS
<1> USE DEF BrainsInv, PoolOK
<1>1. CASE PumpIntents
  BY <1>1 DEF PumpIntents
<1>2. CASE RunAgentPool
  <2>1. \A sch : \A T \in Atmost(Due(sch)) : T \subseteq Souls
    BY DEF Atmost, Due, Candidates
  <2>2. CASE tick' = [tick EXCEPT !.at = "sweep"]
    BY <1>2, <2>2 DEF RunAgentPool
  <2>3. ASSUME NEW T \in SUBSET Souls, NEW where \in {"sweep", "pool"},
               tick' = [tick EXCEPT !.at = where, !.todo = T]
        PROVE  PoolOK'
    BY <2>3
  <2>4. QED
    BY <1>2, <2>1, <2>2, <2>3, ZenonT(60) DEF RunAgentPool
<1>3. CASE PoolThink \/ PoolFails
  <2>1. PoolEnds
    <3>1. CASE PoolThink
      <4>1. PICK kinds \in {{}, {"event"}} : Thinks(tick.soul, kinds)
        BY <3>1 DEF PoolThink
      <4> QED
        BY <4>1 DEF Thinks
    <3>2. CASE PoolFails
      BY <3>2 DEF PoolFails
    <3> QED
      BY <1>3, <3>1, <3>2
  <2> QED
    BY <2>1 DEF PoolEnds, Left
<1>4. CASE TickEnds
  BY <1>4 DEF TickEnds
<1>5. ASSUME NEW s \in Souls, PoolBusy(s) PROVE PoolOK'
  BY <1>5 DEF PoolBusy, Left
<1>6. ASSUME NEW s \in Souls, PoolBegin(s) PROVE PoolOK'
  BY <1>6 DEF PoolBegin
<1>7. ASSUME NEW s \in Souls, Arrived(s) PROVE PoolOK'
  BY <1>7 DEF Arrived
<1>8. CASE OffTick
  BY <1>8, OffTickKeepsTick
<1>9. CASE UNCHANGED brainVars
  BY <1>9 DEF brainVars
<1>10. QED
  BY <1>1, <1>2, <1>3, <1>4, <1>5, <1>6, <1>7, <1>8, <1>9
  DEF BrainsNext, TickStep, WorkerStep, OffTick

-----------------------------------------------------------------------------
(* What note and requeue put into the queue are jobs.                      *)
LEMMA NotedAreJobs ==
    ASSUME NEW j \in Jobs, NEW kinds \in SUBSET Kinds
    PROVE  Noted(j, kinds) \subseteq Jobs
<1>1. ASSUME NEW r \in BOOLEAN
      PROVE  [kinds |-> j.kinds \cup kinds, ready |-> r, stale |-> FALSE] \in Jobs
  <2>1. j.kinds \cup kinds \in SUBSET Kinds
    BY DEF Jobs
  <2>2. QED
    BY <2>1 DEF Jobs
<1>2. QED
  BY <1>1 DEF Noted

(* A job that is put back is a job, and keeps its kinds.                   *)
LEMMA RequeuedIsJob ==
    ASSUME NEW old \in Jobs, NEW current \in Jobs
    PROVE  Requeued(old, current) \in Jobs
BY DEF Requeued, Jobs

(* The queue where a soul's entry is replaced by a job. *)
LEMMA QueuedWith ==
    ASSUME job \in [Souls -> Jobs], NEW s \in Souls, NEW j \in Jobs
    PROVE  [job EXCEPT ![s] = j] \in [Souls -> Jobs]
OBVIOUS

(* A worker that rests, holds a job or thinks about it. *)
LEMMA WorkerShapes ==
    ASSUME NEW where \in {"idle", "holding", "thinking"}, NEW s \in Souls \cup {NoSoul},
           NEW j \in Jobs, worker' = [at |-> where, soul |-> s, job |-> j],
           where # "idle" => s \in Souls, job' \in [Souls -> Jobs]
    PROVE  QueueOK'
BY DEF QueueOK

(* A job, its age and its owner stay well formed. *)
LEMMA QueueKept == BrainsInv /\ [BrainsNext]_brainVars => QueueOK'
<1> SUFFICES ASSUME BrainsInv, [BrainsNext]_brainVars PROVE QueueOK'
  OBVIOUS
<1>1. QueueOK /\ SchedOK /\ PoolOK
  BY DEF BrainsInv
<1>2. NoJob \in Jobs
  BY DEF NoJob, Jobs
<1>3. ASSUME UNCHANGED worker, job' \in [Souls -> Jobs] PROVE QueueOK'
  BY <1>1, <1>3 DEF QueueOK
<1>4. ASSUME WorkerRests, job' \in [Souls -> Jobs] PROVE QueueOK'
  BY <1>2, <1>4, WorkerShapes DEF WorkerRests
<1>5. ASSUME NEW s \in Souls, NEW kinds \in SUBSET Kinds,
             NEW j \in Noted(job[s], kinds), job' = [job EXCEPT ![s] = j]
      PROVE  job' \in [Souls -> Jobs]
  <2>1. job[s] \in Jobs /\ job \in [Souls -> Jobs]
    BY <1>1 DEF QueueOK
  <2>2. j \in Jobs
    BY <2>1, NotedAreJobs
  <2>3. QED
    BY <1>5, <2>1, <2>2
<1>6. ASSUME NEW s \in Souls, NEW kinds \in SUBSET Kinds, Notes(s, kinds)
      PROVE  job' \in [Souls -> Jobs]
  BY <1>5, <1>6 DEF Notes
<1>7. ASSUME NEW s \in Souls, Take(s) PROVE QueueOK'
  <2>1. job' \in [Souls -> Jobs] /\ job[s] \in Jobs
    BY <1>1, <1>2, <1>7 DEF Take, QueueOK
  <2>2. QED
    BY <1>7, <2>1, WorkerShapes DEF Take
<1>8. CASE Shed \/ Refused \/ Think
  <2>1. WorkerRests /\ UNCHANGED job
    BY <1>8 DEF Shed, Refused, Think, GivesUp, Raises, JudgeFails, NoGoal, OtherGoal,
       WanderSuppressed, EpisodeComplete, EmitLeg, Finished
  <2>2. QED
    BY <1>1, <1>4, <2>1 DEF QueueOK
<1>9. CASE PutBack
  <2>1. worker.soul \in Souls /\ worker.job \in Jobs /\ job \in [Souls -> Jobs]
    BY <1>1, <1>9 DEF PutBack, QueueOK
  <2>2. Requeued(worker.job, job[worker.soul]) \in Jobs
    BY <2>1, RequeuedIsJob
  <2>3. job' = [job EXCEPT ![worker.soul] = Requeued(worker.job, job[worker.soul])]
    BY <1>9 DEF PutBack
  <2>4. QED
    BY <1>4, <1>9, <2>1, <2>2, <2>3, QueuedWith DEF PutBack
<1>10. CASE Admit
  BY <1>1, <1>10 DEF Admit, QueueOK
<1>11. ASSUME NEW s \in Souls, Event(s) PROVE QueueOK'
  BY <1>3, <1>6, <1>11 DEF Event, Kinds
<1>12. CASE PoolThink
  <2>1. tick.soul \in Souls
    BY <1>1, <1>12 DEF PoolThink, Thinks, PoolEnds, PoolOK
  <2>2. PICK kinds \in {{}, {"event"}} : Thinks(tick.soul, kinds)
    BY <1>12 DEF PoolThink
  <2>3. kinds \in SUBSET Kinds
    BY <2>2 DEF Kinds
  <2>4. job' \in [Souls -> Jobs]
    <3>1. CASE UNCHANGED job
      BY <1>1, <3>1 DEF QueueOK
    <3>2. CASE \E j \in Noted(job[tick.soul], kinds) : job' = [job EXCEPT ![tick.soul] = j]
      BY <1>5, <2>1, <2>3, <3>2
    <3>3. QED
      BY <2>2, <3>1, <3>2 DEF Thinks
  <2>5. QED
    BY <1>3, <2>2, <2>4 DEF Thinks
<1>13. ASSUME NEW s \in Souls, Arrived(s) PROVE QueueOK'
  <2>1. ({"event"} \cup (IF LegComplete(s) THEN {"continue"} ELSE {})) \in SUBSET Kinds
    BY DEF Kinds
  <2>2. job' \in [Souls -> Jobs]
    BY <1>1, <1>6, <1>13, <2>1 DEF Arrived, QueueOK
  <2>3. QED
    BY <1>3, <1>13, <2>2 DEF Arrived
<1>14. ASSUME NEW s \in Souls, Restless(s) PROVE QueueOK'
  <2>1. \E j \in Noted(job[s], {"restless"}) : job' = [job EXCEPT ![s] = j]
    BY <1>14 DEF Restless
  <2>2. {"restless"} \in SUBSET Kinds
    BY DEF Kinds
  <2>3. QED
    BY <1>3, <1>5, <1>14, <2>1, <2>2 DEF Restless
<1>15. ASSUME NEW s \in Souls, JobReady(s) \/ JobStale(s) PROVE QueueOK'
  <2>1. job \in [Souls -> Jobs] /\ job[s] \in Jobs
    BY <1>1 DEF QueueOK
  <2>2. [job[s] EXCEPT !.ready = TRUE] \in Jobs /\ [job[s] EXCEPT !.stale = TRUE] \in Jobs
    BY <2>1 DEF Jobs
  <2>3. job' \in [Souls -> Jobs]
    BY <1>15, <2>1, <2>2 DEF JobReady, JobStale
  <2>4. QED
    BY <1>3, <1>15, <2>3 DEF JobReady, JobStale
<1>16. ASSUME UNCHANGED <<worker, job>> PROVE QueueOK'
  BY <1>1, <1>16 DEF QueueOK
<1>17. CASE PumpIntents \/ RunAgentPool \/ PoolFails \/ TickEnds \/ BreakerCools
  BY <1>16, <1>17 DEF PumpIntents, RunAgentPool, PoolFails, TickEnds, BreakerCools
<1>18. ASSUME NEW s \in Souls,
              \/ PoolBusy(s) \/ PoolBegin(s) \/ Flag(s) \/ Falls(s) \/ Rises(s)
              \/ Stroll(s) \/ ComesDue(s) \/ GapEnds(s)
       PROVE  QueueOK'
  BY <1>16, <1>18 DEF PoolBusy, PoolBegin, Flag, Falls, Rises, Stroll, ComesDue, GapEnds
<1>19. CASE UNCHANGED brainVars
  BY <1>16, <1>19 DEF brainVars
<1>20. QED
  BY <1>7, <1>8, <1>9, <1>10, <1>11, <1>12, <1>13, <1>14, <1>15, <1>17, <1>18, <1>19
  DEF BrainsNext, TickStep, WorkerStep, World, Timers

-----------------------------------------------------------------------------
(* The pool thinks about a soul from the moment it takes the brain until   *)
(* it gives it back; so does the worker.                                   *)
LEMMA OneBrainKept == BrainsInv /\ [BrainsNext]_brainVars => OneBrain'
<1> SUFFICES ASSUME BrainsInv, [BrainsNext]_brainVars PROVE OneBrain'
  OBVIOUS
<1>1. OneBrain /\ PoolOK /\ QueueOK
  BY DEF BrainsInv
<1> USE DEF OneBrain, PoolThinks, WorkerThinks
<1>2. ASSUME UNCHANGED <<busy, worker>>, tick'.at # "thinking", tick.at # "thinking"
      PROVE  OneBrain'
  BY <1>1, <1>2
<1>3. ASSUME UNCHANGED <<busy, tick>>, worker'.at # "thinking", worker.at # "thinking"
      PROVE  OneBrain'
  BY <1>1, <1>3
<1>4. ASSUME UNCHANGED <<busy, tick, worker>> PROVE OneBrain'
  BY <1>1, <1>4
<1>5. CASE PumpIntents \/ RunAgentPool \/ TickEnds
  BY <1>1, <1>2, <1>5 DEF PumpIntents, RunAgentPool, TickEnds, PoolOK
<1>6. CASE PoolThink \/ PoolFails
  <2>1. PoolEnds /\ UNCHANGED worker
    BY <1>6 DEF PoolThink, PoolFails, Thinks
  <2>2. PoolThinks' = {} /\ busy' = busy \ PoolThinks /\ WorkerThinks' = WorkerThinks
    BY <1>1, <2>1 DEF PoolEnds, Left, PoolOK
  <2>3. QED
    BY <1>1, <2>2
<1>7. ASSUME NEW s \in Souls, PoolBusy(s) PROVE OneBrain'
  BY <1>1, <1>2, <1>7 DEF PoolBusy, Left, PoolOK
<1>8. ASSUME NEW s \in Souls, PoolBegin(s) PROVE OneBrain'
  BY <1>1, <1>8 DEF PoolBegin, PoolOK
<1>9. ASSUME NEW s \in Souls, Arrived(s) PROVE OneBrain'
  BY <1>1, <1>2, <1>9 DEF Arrived, PoolOK
<1>10. CASE (\E s \in Souls : Take(s)) \/ Shed \/ Refused \/ PutBack
  BY <1>1, <1>3, <1>10 DEF Take, Shed, Refused, PutBack, WorkerRests
<1>11. CASE Admit
  BY <1>1, <1>11 DEF Admit, FreeOfPool, QueueOK
<1>12. CASE Think
  <2>1. Finished /\ UNCHANGED tick
    BY <1>12 DEF Think, GivesUp, Raises, JudgeFails, NoGoal, OtherGoal,
       WanderSuppressed, EpisodeComplete, EmitLeg
  <2>2. WorkerThinks' = {} /\ busy' = busy \ WorkerThinks /\ PoolThinks' = PoolThinks
    BY <2>1 DEF Finished, WorkerRests
  <2>3. QED
    BY <1>1, <2>2
<1>13. CASE BreakerCools \/ (\E s \in Souls : World(s) \/ Timers(s)) \/ UNCHANGED brainVars
  BY <1>4, <1>13 DEF BreakerCools, World, Event, Flag, Falls, Rises, Restless, Stroll,
     Timers, ComesDue, GapEnds, JobReady, JobStale, brainVars
<1>14. QED
  BY <1>5, <1>6, <1>7, <1>8, <1>9, <1>10, <1>11, <1>12, <1>13
  DEF BrainsNext, TickStep, WorkerStep

-----------------------------------------------------------------------------
Nexts == {"none", "later", "soon", "due"}
Entries == [next : Nexts, gap : BOOLEAN]

(* What the pool makes of the schedules is a schedule: at boot everyone who*)
(* can think is due later, otherwise the rest may be forgotten.            *)
LEMMA ScheduledShapes ==
    ASSUME sched \in [Souls -> Entries], NEW changed \in BOOLEAN,
           NEW sch \in Scheduled(changed)
    PROVE  /\ sch \in [Souls -> Entries]
           /\ \A s \in Souls :
                \/ sch[s] = sched[s]
                \/ sch[s].gap = sched[s].gap /\ sch[s].next \in {"later", "soon"}
                \/ /\ sch[s] = [next |-> "none", gap |-> FALSE]
                   /\ changed /\ ~NeedsBoot /\ s \notin Candidates
<1>1. CASE NeedsBoot
  <2>1. PICK n \in [Souls -> {"later", "soon"}] :
          sch = [s \in Souls |-> IF s \in Candidates THEN [sched[s] EXCEPT !.next = n[s]]
                                 ELSE sched[s]]
    BY <1>1 DEF Scheduled
  <2>2. ASSUME NEW s \in Souls
        PROVE  /\ sch[s] \in Entries
               /\ \/ sch[s] = sched[s]
                  \/ sch[s].gap = sched[s].gap /\ sch[s].next \in {"later", "soon"}
    <3>1. sched[s] \in Entries /\ n[s] \in {"later", "soon"}
      OBVIOUS
    <3>2. QED
      BY <2>1, <3>1 DEF Entries, Nexts
  <2>3. sch \in [Souls -> Entries]
    BY <2>1, <2>2
  <2>4. QED
    BY <2>2, <2>3
<1>2. CASE ~NeedsBoot
  <2>1. (sch = Prune(sched, Candidates) /\ changed) \/ sch = sched
    BY <1>2 DEF Scheduled
  <2>2. CASE sch = sched
    BY <2>2
  <2>3. CASE sch = Prune(sched, Candidates) /\ changed
    <3>1. [next |-> "none", gap |-> FALSE] \in Entries
      BY DEF Entries, Nexts
    <3>2. sch \in [Souls -> Entries]
      BY <2>3, <3>1 DEF Prune
    <3>3. QED
      BY <1>2, <2>3, <3>2 DEF Prune
  <2>4. QED
    BY <2>1, <2>2, <2>3
<1>3. QED
  BY <1>1, <1>2

(* Calling a think forward or resetting it leaves the gap alone and never  *)
(* makes the soul due.                                                     *)
LEMMA PulledShapes ==
    ASSUME NEW sch \in [Souls -> Entries], NEW s \in Souls
    PROVE  /\ PullForward(sch, s) \in [Souls -> Entries]
           /\ Reset(sch, s) \in [Souls -> Entries]
           /\ \A r \in Souls :
                /\ PullForward(sch, s)[r].gap = sch[r].gap
                /\ Reset(sch, s)[r].gap = sch[r].gap
                /\ \/ PullForward(sch, s)[r] = sch[r]
                   \/ sch[r].next = "later" /\ PullForward(sch, s)[r].next = "soon"
                /\ Reset(sch, s)[r] = sch[r] \/ Reset(sch, s)[r].next = "soon"
<1>1. sch[s] \in Entries
  OBVIOUS
<1>2. Sooner(sch[s].next) \in Nexts /\ "soon" \in Nexts
  BY <1>1 DEF Entries, Sooner, Nexts
<1>3. [sch[s] EXCEPT !.next = Sooner(@)] \in Entries /\ [sch[s] EXCEPT !.next = "soon"] \in Entries
  BY <1>1, <1>2 DEF Entries
<1>4. PullForward(sch, s) \in [Souls -> Entries] /\ Reset(sch, s) \in [Souls -> Entries]
  BY <1>3 DEF PullForward, Reset
<1>5. \A r \in Souls : sch[r] \in Entries
  OBVIOUS
<1>6. QED
  BY <1>4, <1>5 DEF PullForward, Reset, Sooner, Entries

Histories == [recent : SUBSET Souls, pruned : SUBSET Souls,
              owed : [Souls -> SUBSET Kinds], notes : Nat]

(* One more event in the history. *)
LEMMA OwedMore ==
    ASSUME NEW h \in Histories, NEW s \in Souls, NEW kinds \in SUBSET Kinds
    PROVE  [h EXCEPT !.owed[s] = @ \cup kinds, !.notes = @ + 1] \in Histories
<1> DEFINE O == [Souls -> SUBSET Kinds]
           owed == [h.owed EXCEPT ![s] = @ \cup kinds]
           N == h.notes + 1
<1>1. h.owed[s] \cup kinds \in SUBSET Kinds /\ h.owed \in O
  BY DEF Histories
<1>2. owed \in O
  BY <1>1
<1>3. N \in Nat
  BY DEF Histories
<1>4. Histories = [recent : SUBSET Souls, pruned : SUBSET Souls, owed : O, notes : Nat]
  BY DEF Histories
<1>5. [h EXCEPT !.owed[s] = @ \cup kinds, !.notes = @ + 1]
        = [h EXCEPT !.owed = owed, !.notes = N]
  BY <1>4
<1> HIDE DEF O, owed, N
<1>6. QED
  BY <1>2, <1>3, <1>4, <1>5

(* Schedules and the history keep their shape. *)
LEMMA SchedKept == BrainsInv /\ [BrainsNext]_brainVars => SchedOK'
<1> SUFFICES ASSUME BrainsInv, [BrainsNext]_brainVars PROVE SchedOK'
  OBVIOUS
<1>1. SchedOK /\ PoolOK /\ QueueOK
  BY DEF BrainsInv
<1>2. SchedOK' <=> sched' \in [Souls -> Entries] /\ past' \in Histories
  BY DEF SchedOK, Entries, Nexts, Histories
<1>3. sched \in [Souls -> Entries] /\ past \in Histories
  BY <1>1 DEF SchedOK, Entries, Nexts, Histories
<1> HIDE DEF SchedOK
<1>4. ASSUME NEW s \in Souls, NEW kinds \in SUBSET Kinds, Notes(s, kinds)
      PROVE  past' \in Histories
  <2>1. past' = [past EXCEPT !.owed[s] = @ \cup kinds, !.notes = @ + 1]
    BY <1>4 DEF Notes
  <2>2. QED
    BY <1>3, <2>1, OwedMore
<1>5. ASSUME Reported, worker.soul \in Souls PROVE past' \in Histories
  BY <1>3, <1>5 DEF Reported, Histories
<1>6. CASE Shed \/ Refused \/ Think
  <2>1. Reported /\ UNCHANGED sched /\ worker.at # "idle"
    BY <1>6 DEF Shed, Refused, Think, GivesUp, Raises, JudgeFails, NoGoal, OtherGoal,
       WanderSuppressed, EpisodeComplete, EmitLeg, Finished
  <2>2. QED
    BY <1>1, <1>2, <1>3, <1>5, <2>1 DEF QueueOK
<1>7. ASSUME NEW s \in Souls, ComesDue(s) PROVE SchedOK'
  <2>1. [sched[s] EXCEPT !.next = "due"] \in Entries
    BY <1>3 DEF Entries, Nexts
  <2>2. QED
    BY <1>2, <1>3, <1>7, <2>1 DEF ComesDue
<1>8. ASSUME NEW s \in Souls, GapEnds(s) PROVE SchedOK'
  <2>1. [sched[s] EXCEPT !.gap = FALSE] \in Entries
    BY <1>3 DEF Entries, Nexts
  <2>2. past' \in Histories
    BY <1>3, <1>8 DEF GapEnds, Histories
  <2>3. QED
    BY <1>2, <1>3, <1>8, <2>1, <2>2 DEF GapEnds
<1>9. ASSUME NEW s \in Souls, Event(s) PROVE SchedOK'
  <2>1. past' \in Histories
    BY <1>4, <1>9 DEF Event, Kinds
  <2>2. sched' \in [Souls -> Entries]
    BY <1>3, <1>9, PulledShapes DEF Event
  <2>3. QED
    BY <1>2, <2>1, <2>2
<1>10. ASSUME NEW s \in Souls, Flag(s) \/ Rises(s) PROVE SchedOK'
  <2>1. sched' \in [Souls -> Entries]
    BY <1>3, <1>10, PulledShapes DEF Flag, Rises
  <2>2. QED
    BY <1>2, <1>3, <1>10, <2>1 DEF Flag, Rises
<1>11. CASE RunAgentPool
  <2>1. CASE UNCHANGED <<sched, past>>
    BY <1>2, <1>3, <2>1
  <2>2. ASSUME NEW changed \in BOOLEAN, NEW sch \in Scheduled(changed), sched' = sch,
               past' = [past EXCEPT !.pruned =
                            IF changed /\ ~NeedsBoot
                            THEN @ \cup (past.recent \ Candidates) ELSE @]
        PROVE  SchedOK'
    <3>1. past' \in Histories
      BY <1>3, <2>2 DEF Histories
    <3>2. QED
      BY <1>2, <1>3, <2>2, <3>1, ScheduledShapes
  <2>3. QED
    BY <1>11, <2>1, <2>2 DEF RunAgentPool
<1>12. CASE PoolThink
  <2>1. tick.soul \in Souls
    BY <1>1, <1>12 DEF PoolThink, Thinks, PoolEnds, PoolOK
  <2>2. PICK kinds \in {{}, {"event"}} : Thinks(tick.soul, kinds)
    BY <1>12 DEF PoolThink
  <2>3. kinds \in SUBSET Kinds
    BY <2>2 DEF Kinds
  <2>4. past' \in Histories
    <3>1. CASE past' = [past EXCEPT !.recent = @ \cup {tick.soul}]
      BY <1>3, <2>1, <3>1 DEF Histories
    <3>2. CASE past' = [past EXCEPT !.recent = @ \cup {tick.soul}, !.notes = @ + 1,
                                    !.owed[tick.soul] = @ \cup kinds]
      <4>1. [past EXCEPT !.owed[tick.soul] = @ \cup kinds, !.notes = @ + 1] \in Histories
        BY <1>3, <2>1, <2>3, OwedMore
      <4>2. past.recent \cup {tick.soul} \in SUBSET Souls
        BY <1>3, <2>1 DEF Histories
      <4>3. QED
        BY <1>3, <3>2, <4>1, <4>2 DEF Histories
    <3>3. QED
      BY <2>2, <3>1, <3>2 DEF Thinks
  <2>5. [next |-> "later", gap |-> TRUE] \in Entries
    BY DEF Entries, Nexts
  <2>6. QED
    BY <1>2, <1>3, <2>2, <2>4, <2>5 DEF Thinks, ScheduleNext
<1>13. ASSUME NEW s \in Souls, Arrived(s) PROVE SchedOK'
  <2>1. ({"event"} \cup (IF LegComplete(s) THEN {"continue"} ELSE {})) \in SUBSET Kinds
    BY DEF Kinds
  <2>2. past' \in Histories
    BY <1>3, <1>4, <1>13, <2>1 DEF Arrived
  <2>3. QED
    BY <1>2, <1>3, <1>13, <2>2 DEF Arrived
<1>14. ASSUME NEW s \in Souls, Restless(s) PROVE SchedOK'
  <2>1. past' \in Histories
    BY <1>3, <1>14 DEF Restless, Histories, Kinds
  <2>2. QED
    BY <1>2, <1>3, <1>14, <2>1 DEF Restless
<1>15. ASSUME UNCHANGED <<sched, past>> PROVE SchedOK'
  BY <1>2, <1>3, <1>15
<1>16. CASE PumpIntents \/ PoolFails \/ TickEnds \/ BreakerCools \/ PutBack \/ Admit
  BY <1>15, <1>16 DEF PumpIntents, PoolFails, TickEnds, BreakerCools, PutBack, Admit
<1>17. ASSUME NEW s \in Souls,
              \/ PoolBusy(s) \/ PoolBegin(s) \/ Take(s) \/ Falls(s) \/ Stroll(s)
              \/ JobReady(s) \/ JobStale(s)
       PROVE  SchedOK'
  BY <1>15, <1>17 DEF PoolBusy, PoolBegin, Take, Falls, Stroll, JobReady, JobStale
<1>18. CASE UNCHANGED brainVars
  BY <1>15, <1>18 DEF brainVars
<1>19. QED
  BY <1>6, <1>7, <1>8, <1>9, <1>10, <1>11, <1>12, <1>13, <1>14, <1>16, <1>17, <1>18
  DEF BrainsNext, TickStep, WorkerStep, World, Timers

-----------------------------------------------------------------------------
(* Whom the pool is done with leaves the list of the due. *)
LEMMA LeftShrinks == ASSUME PoolOK, NEW s PROVE Left(s).todo \subseteq tick.todo
<1>1. Left(s).todo = tick.todo \ {s}
  BY DEF Left, PoolOK
<1>2. QED
  BY <1>1

(* The gap between two thinks outlives everything but the timer that ends  *)
(* it and the schedule being dropped.                                      *)
LEMMA PacedKept == BrainsInv /\ [BrainsNext]_brainVars => Paced'
<1> SUFFICES ASSUME BrainsInv, [BrainsNext]_brainVars PROVE Paced'
  OBVIOUS
<1>1. Paced /\ PoolOK /\ past \in Histories /\ sched \in [Souls -> Entries]
  BY DEF BrainsInv, SchedOK, Histories, Entries, Nexts
<1>2. ASSUME UNCHANGED sched, past'.recent = past.recent, past'.pruned = past.pruned,
             tick'.todo \subseteq tick.todo
      PROVE  Paced'
  BY <1>1, <1>2 DEF Paced
<1>3. ASSUME \A s \in Souls : sched'[s].gap = sched[s].gap,
             \A s \in Souls : sched'[s] = sched[s] \/ sched'[s].next \in {"later", "soon"},
             past'.recent = past.recent, past'.pruned = past.pruned, UNCHANGED tick
      PROVE  Paced'
  BY <1>1, <1>3 DEF Paced, Histories
<1>4. ASSUME NEW s \in Souls, NEW kinds, Notes(s, kinds)
      PROVE  past'.recent = past.recent /\ past'.pruned = past.pruned
  BY <1>1, <1>4 DEF Notes, Histories
<1>5. CASE Shed \/ Refused \/ Think
  <2>1. Reported /\ UNCHANGED <<sched, tick>>
    BY <1>5 DEF Shed, Refused, Think, GivesUp, Raises, JudgeFails, NoGoal, OtherGoal,
       WanderSuppressed, EpisodeComplete, EmitLeg, Finished
  <2>2. QED
    BY <1>1, <1>2, <2>1 DEF Reported, Histories
<1>6. ASSUME NEW s \in Souls, ComesDue(s) PROVE Paced'
  BY <1>1, <1>6 DEF ComesDue, Paced, Entries, Nexts
<1>7. ASSUME NEW s \in Souls, GapEnds(s) PROVE Paced'
  <2>1. /\ past'.recent = past.recent \ {s} /\ past'.pruned = past.pruned \ {s}
        /\ UNCHANGED tick
        /\ \A r \in Souls \ {s} : sched'[r] = sched[r]
        /\ ~sched'[s].gap
    BY <1>1, <1>7 DEF GapEnds, Histories, Entries, Nexts
  <2>2. QED
    BY <1>1, <2>1 DEF Paced, Histories
<1>8. ASSUME NEW s \in Souls, Event(s) PROVE Paced'
  BY <1>1, <1>3, <1>4, <1>8, PulledShapes DEF Event
<1>9. ASSUME NEW s \in Souls, Flag(s) \/ Rises(s) PROVE Paced'
  BY <1>1, <1>3, <1>9, PulledShapes DEF Flag, Rises
<1>10. CASE RunAgentPool
  <2>1. CASE UNCHANGED <<sched, past>> /\ tick' = [tick EXCEPT !.at = "sweep"]
    BY <1>1, <1>2, <2>1 DEF PoolOK
  <2>2. ASSUME NEW changed \in BOOLEAN, NEW sch \in Scheduled(changed), sched' = sch,
               past' = [past EXCEPT !.pruned =
                            IF changed /\ ~NeedsBoot
                            THEN @ \cup (past.recent \ Candidates) ELSE @],
               NEW T \in Atmost(Due(sch)), tick'.todo = T
        PROVE  Paced'
    <3>1. /\ past'.recent = past.recent /\ past.pruned \subseteq past'.pruned
          /\ changed /\ ~NeedsBoot => past.recent \ Candidates \subseteq past'.pruned
      BY <1>1, <2>2 DEF Histories
    <3>2. \A s \in Souls :
            \/ sch[s] = sched[s]
            \/ sch[s].gap = sched[s].gap /\ sch[s].next \in {"later", "soon"}
            \/ /\ sch[s] = [next |-> "none", gap |-> FALSE]
               /\ changed /\ ~NeedsBoot /\ s \notin Candidates
      BY <1>1, <2>2, ScheduledShapes
    <3>3. \A s \in past'.recent \ past'.pruned : sched'[s].gap
      BY <1>1, <2>2, <3>1, <3>2 DEF Paced, Histories
    <3>4. \A s \in Souls : sched'[s].gap => sched'[s].next \in {"later", "soon"}
      BY <1>1, <2>2, <3>2 DEF Paced
    <3>5. \A s \in T : s \in Souls /\ sched'[s].next \in {"due", "none"}
      BY <2>2 DEF Atmost, Due, Candidates
    <3>6. QED
      BY <2>2, <3>3, <3>4, <3>5 DEF Paced
  <2>3. QED
    <3>1. ASSUME NEW T, tick' = [tick EXCEPT !.at = IF T = {} THEN "sweep" ELSE "pool",
                                             !.todo = T]
          PROVE  tick'.todo = T
      BY <1>1, <3>1 DEF PoolOK
    <3>2. QED
      BY <1>10, <2>1, <2>2, <3>1 DEF RunAgentPool
<1>11. CASE PoolThink
  <2>1. tick.soul \in Souls
    BY <1>1, <1>11 DEF PoolThink, Thinks, PoolEnds, PoolOK
  <2>2. PICK kinds \in {{}, {"event"}} : Thinks(tick.soul, kinds)
    BY <1>11 DEF PoolThink
  <2>3. /\ past'.recent = past.recent \cup {tick.soul} /\ past'.pruned = past.pruned
        /\ tick'.todo = tick.todo \ {tick.soul}
        /\ sched' = [sched EXCEPT ![tick.soul] = [next |-> "later", gap |-> TRUE]]
    BY <1>1, <2>2 DEF Thinks, PoolEnds, Left, ScheduleNext, PoolOK, Histories
  <2>4. QED
    BY <1>1, <2>1, <2>3 DEF Paced, Histories
<1>12. ASSUME NEW s \in Souls, Arrived(s) PROVE Paced'
  <2>1. past'.recent = past.recent /\ past'.pruned = past.pruned
    BY <1>4, <1>12 DEF Arrived
  <2>2. QED
    BY <1>1, <1>2, <1>12, <2>1 DEF Arrived, PoolOK
<1>13. ASSUME NEW s \in Souls, Restless(s) PROVE Paced'
  BY <1>1, <1>2, <1>13 DEF Restless, Histories
<1>14. CASE PumpIntents \/ PoolFails \/ TickEnds
  <2>1. UNCHANGED <<sched, past>>
    BY <1>14 DEF PumpIntents, PoolFails, TickEnds
  <2>2. tick'.todo \subseteq tick.todo
    <3>1. CASE PumpIntents
      BY <1>1, <3>1 DEF PumpIntents, PoolOK
    <3>2. CASE PoolFails \/ TickEnds
      BY <1>1, <3>2, LeftShrinks DEF PoolFails, PoolEnds, TickEnds, PoolOK
    <3>3. QED
      BY <1>14, <3>1, <3>2
  <2>3. QED
    BY <1>2, <2>1, <2>2
<1>15. ASSUME NEW s \in Souls, PoolBusy(s) \/ PoolBegin(s) PROVE Paced'
  <2>1. UNCHANGED <<sched, past>>
    BY <1>15 DEF PoolBusy, PoolBegin
  <2>2. tick'.todo \subseteq tick.todo
    BY <1>1, <1>15, LeftShrinks DEF PoolBusy, PoolBegin, PoolOK
  <2>3. QED
    BY <1>2, <2>1, <2>2
<1>16. CASE BreakerCools \/ PutBack \/ Admit
  BY <1>2, <1>16 DEF BreakerCools, PutBack, Admit
<1>17. ASSUME NEW s \in Souls,
              Take(s) \/ Falls(s) \/ Stroll(s) \/ JobReady(s) \/ JobStale(s)
       PROVE  Paced'
  BY <1>2, <1>17 DEF Take, Falls, Stroll, JobReady, JobStale
<1>18. CASE UNCHANGED brainVars
  BY <1>2, <1>18 DEF brainVars
<1>19. QED
  BY <1>5, <1>6, <1>7, <1>8, <1>9, <1>10, <1>11, <1>12, <1>13, <1>14, <1>15, <1>16,
     <1>17, <1>18
  DEF BrainsNext, TickStep, WorkerStep, World, Timers

-----------------------------------------------------------------------------
Bodies == [state : {"awake", "dormant", "collapsed"},
           path : {"still", "queued", "moving"}, leg : BOOLEAN]
Episodes == [legs : 0..(MaxLegs - 1), tracked : BOOLEAN]

(* An intent to move changes the path and whose leg it is. *)
LEMMA EnqueuedIsBody ==
    ASSUME bodies \in [Souls -> Bodies], NEW s \in Souls, NEW by
    PROVE  Enqueued(s, by) \in [Souls -> Bodies]
<1>1. bodies[s] \in Bodies /\ (by = "jev") \in BOOLEAN
  OBVIOUS
<1>2. [bodies[s] EXCEPT !.path = "queued", !.leg = by = "jev"] \in Bodies
  BY <1>1 DEF Bodies
<1>3. [bodies EXCEPT ![s] = [bodies[s] EXCEPT !.path = "queued", !.leg = by = "jev"]] \in [Souls -> Bodies]
  BY <1>2
<1>4. Enqueued(s, by) \in {bodies, [bodies EXCEPT ![s] =
            [bodies[s] EXCEPT !.path = "queued", !.leg = by = "jev"]]}
  BY DEF Enqueued
<1>5. QED
  BY <1>3, <1>4

(* Bodies, movement episodes and their legs keep their shape. *)
LEMMA BodiesKept == BrainsInv /\ [BrainsNext]_brainVars => BodiesOK'
<1> SUFFICES ASSUME BrainsInv, [BrainsNext]_brainVars PROVE BodiesOK'
  OBVIOUS
<1>1. bodies \in [Souls -> Bodies] /\ episode \in [Souls -> Episodes] /\ PoolOK /\ QueueOK
  BY DEF BrainsInv, BodiesOK, Bodies, Episodes
<1>2. BodiesOK' <=> bodies' \in [Souls -> Bodies] /\ episode' \in [Souls -> Episodes]
  BY DEF BodiesOK, Bodies, Episodes
<1>3. 0 \in 0..(MaxLegs - 1)
  BY BrainsConstants
<1>4. ASSUME NEW s \in Souls
      PROVE  [episode EXCEPT ![s].legs = 0] \in [Souls -> Episodes]
  <2>1. [episode[s] EXCEPT !.legs = 0] \in Episodes
    BY <1>1, <1>3 DEF Episodes
  <2>2. QED
    BY <1>1, <2>1
<1>5. CASE PumpIntents
  <2>1. PICK refused \in SUBSET {s \in Souls : bodies[s].path = "queued"},
             landed \in SUBSET {s \in Souls : bodies[s].path = "moving"} :
          bodies' = [s \in Souls |->
                IF s \in refused \cup landed THEN [bodies[s] EXCEPT !.path = "still"]
                ELSE IF bodies[s].path = "queued" THEN [bodies[s] EXCEPT !.path = "moving"]
                ELSE bodies[s]]
    BY <1>5 DEF PumpIntents
  <2>2. \A s \in Souls : /\ [bodies[s] EXCEPT !.path = "still"] \in Bodies
                          /\ [bodies[s] EXCEPT !.path = "moving"] \in Bodies
    BY <1>1 DEF Bodies
  <2>3. bodies' \in [Souls -> Bodies]
    BY <1>1, <2>1, <2>2
  <2>4. QED
    BY <1>1, <1>2, <1>5, <2>3 DEF PumpIntents
<1>6. ASSUME NEW s \in Souls, Falls(s) PROVE BodiesOK'
  <2>1. PICK state \in {"dormant", "collapsed"} :
          bodies' = [bodies EXCEPT ![s] = [@ EXCEPT !.state = state, !.path = "still"]]
    BY <1>6 DEF Falls
  <2>2. [bodies[s] EXCEPT !.state = state, !.path = "still"] \in Bodies
    BY <1>1 DEF Bodies
  <2>3. bodies' \in [Souls -> Bodies]
    BY <1>1, <2>1, <2>2
  <2>4. QED
    BY <1>1, <1>2, <1>6, <2>3 DEF Falls
<1>7. ASSUME NEW s \in Souls, Rises(s) PROVE BodiesOK'
  <2>1. [bodies[s] EXCEPT !.state = "awake"] \in Bodies
    BY <1>1 DEF Bodies
  <2>2. bodies' \in [Souls -> Bodies]
    BY <1>1, <1>7, <2>1 DEF Rises
  <2>3. QED
    BY <1>1, <1>2, <1>7, <2>2 DEF Rises
<1>8. ASSUME NEW s \in Souls, Stroll(s) PROVE BodiesOK'
  BY <1>1, <1>2, <1>8, EnqueuedIsBody DEF Stroll
<1>9. CASE PoolThink
  <2>1. tick.soul \in Souls
    BY <1>1, <1>9 DEF PoolThink, Thinks, PoolEnds, PoolOK
  <2>2. bodies' \in {bodies, Enqueued(tick.soul, "pool")} /\ UNCHANGED episode
    BY <1>9 DEF PoolThink, Thinks
  <2>3. QED
    BY <1>1, <1>2, <2>1, <2>2, EnqueuedIsBody
<1>10. CASE Think
  <2> DEFINE s == worker.soul
  <2>1. s \in Souls
    BY <1>1, <1>10 DEF Think, GivesUp, Raises, JudgeFails, NoGoal, OtherGoal,
       WanderSuppressed, EpisodeComplete, EmitLeg, Finished, Explores, QueueOK
  <2>2. CASE Raises \/ JudgeFails \/ NoGoal \/ EpisodeComplete
    BY <1>1, <1>2, <2>2 DEF Raises, JudgeFails, NoGoal, EpisodeComplete
  <2>3. CASE GivesUp \/ WanderSuppressed
    BY <1>1, <1>2, <1>4, <2>1, <2>3 DEF GivesUp, WanderSuppressed
  <2>4. CASE OtherGoal
    BY <1>1, <1>2, <1>4, <2>1, <2>4, EnqueuedIsBody DEF OtherGoal
  <2>5. CASE EmitLeg
    <3>1. PICK legs \in LegsAfter(s) :
            episode' = [episode EXCEPT ![s] = [legs |-> legs,
                                               tracked |-> bodies[s].state = "awake"]]
      BY <2>5 DEF EmitLeg
    <3>2. legs \in 0..(MaxLegs - 1) /\ (bodies[s].state = "awake") \in BOOLEAN
      BY <3>1 DEF LegsAfter
    <3>3. [legs |-> legs, tracked |-> bodies[s].state = "awake"] \in Episodes
      BY <3>2 DEF Episodes
    <3>4. episode' \in [Souls -> Episodes]
      BY <1>1, <3>1, <3>3
    <3>5. bodies' \in [Souls -> Bodies]
      BY <1>1, <2>1, <2>5, EnqueuedIsBody DEF EmitLeg
    <3>6. QED
      BY <1>2, <3>4, <3>5
  <2>6. QED
    BY <1>10, <2>2, <2>3, <2>4, <2>5 DEF Think
<1>11. ASSUME NEW s \in Souls, Arrived(s) PROVE BodiesOK'
  <2>1. episode' = [episode EXCEPT ![s].tracked = @ /\ ~LegComplete(s)] /\ UNCHANGED bodies
    BY <1>11 DEF Arrived
  <2>2. episode[s] \in Episodes /\ (episode[s].tracked /\ ~LegComplete(s)) \in BOOLEAN
    BY <1>1
  <2>3. [episode[s] EXCEPT !.tracked = @ /\ ~LegComplete(s)] \in Episodes
    BY <2>2 DEF Episodes
  <2>4. episode' \in [Souls -> Episodes]
    BY <1>1, <2>1, <2>3
  <2>5. QED
    BY <1>1, <1>2, <2>1, <2>4
<1>12. ASSUME UNCHANGED <<bodies, episode>> PROVE BodiesOK'
  BY <1>1, <1>2, <1>12
<1>13. CASE RunAgentPool \/ PoolFails \/ TickEnds \/ Shed \/ Refused \/ PutBack \/ Admit
            \/ BreakerCools
  BY <1>12, <1>13 DEF RunAgentPool, PoolFails, TickEnds, Shed, Refused, PutBack, Admit,
     BreakerCools
<1>14. ASSUME NEW s \in Souls,
              \/ PoolBusy(s) \/ PoolBegin(s) \/ Take(s) \/ Event(s) \/ Flag(s)
              \/ Restless(s) \/ Timers(s)
       PROVE  BodiesOK'
  BY <1>12, <1>14 DEF PoolBusy, PoolBegin, Take, Event, Flag, Restless, Timers, ComesDue,
     GapEnds, JobReady, JobStale
<1>15. CASE UNCHANGED brainVars
  BY <1>12, <1>15 DEF brainVars
<1>16. QED
  BY <1>5, <1>6, <1>7, <1>8, <1>9, <1>10, <1>11, <1>13, <1>14, <1>15
  DEF BrainsNext, TickStep, WorkerStep, World

(* The breaker counts no more failures than open it. *)
LEMMA BreakerKept == BrainsInv /\ [BrainsNext]_brainVars => BreakerOK'
<1> SUFFICES ASSUME BrainsInv, [BrainsNext]_brainVars PROVE BreakerOK'
  OBVIOUS
<1> USE BrainsConstants
<1>1. BreakerOK
  BY DEF BrainsInv
<1>2. ASSUME breaker' \in {Probing, OnSuccess, OnFailure, [breaker EXCEPT !.cooled = TRUE], breaker}
      PROVE  BreakerOK'
  <2>1. CASE breaker' = Probing
    BY <1>1, <2>1 DEF BreakerOK, Probing
  <2>2. CASE breaker' = OnSuccess
    BY <1>1, <2>2 DEF BreakerOK, OnSuccess
  <2>3. CASE breaker' = OnFailure
    <3>1. breaker.failures + 1 < Failures => breaker.failures + 1 \in 0..Failures
      BY <1>1 DEF BreakerOK
    <3>2. Failures \in 0..Failures
      OBVIOUS
    <3>3. CASE breaker' = [breaker EXCEPT !.failures = @ + 1] /\ breaker.failures + 1 < Failures
      BY <1>1, <3>1, <3>3 DEF BreakerOK
    <3>4. CASE breaker' = [state |-> "open", failures |-> Failures, probe |-> FALSE,
                           cooled |-> FALSE]
      BY <3>2, <3>4 DEF BreakerOK
    <3>5. QED
      BY <1>1, <2>3, <3>3, <3>4 DEF OnFailure, BreakerOK
  <2>4. CASE breaker' = [breaker EXCEPT !.cooled = TRUE]
    BY <1>1, <2>4 DEF BreakerOK
  <2>5. QED
    BY <1>1, <1>2, <2>1, <2>2, <2>3, <2>4 DEF BreakerOK
<1>3. CASE TickStep \/ UNCHANGED brainVars
  BY <1>2, <1>3 DEF TickStep, PumpIntents, RunAgentPool, PoolThink, Thinks, PoolFails, TickEnds,
     PoolBusy, PoolBegin, Arrived, brainVars
<1>4. CASE WorkerStep \/ BreakerCools
  BY <1>2, <1>4 DEF WorkerStep, Take, Shed, Refused, PutBack, Admit, Think, GivesUp, Raises,
     JudgeFails, NoGoal, OtherGoal, WanderSuppressed, EpisodeComplete, EmitLeg, Judged,
     BreakerCools
<1>5. ASSUME NEW s \in Souls, World(s) \/ Timers(s) PROVE BreakerOK'
  BY <1>2, <1>5 DEF World, Event, Flag, Falls, Rises, Restless, Stroll, Timers, ComesDue,
     GapEnds, JobReady, JobStale
<1>6. QED
  BY <1>3, <1>4, <1>5 DEF BrainsNext

-----------------------------------------------------------------------------
(* The invariant is inductive. *)
LEMMA BrainsKept == BrainsInv /\ [BrainsNext]_brainVars => BrainsInv'
BY PoolKept, QueueKept, SchedKept, BodiesKept, BreakerKept, OneBrainKept, PacedKept
DEF BrainsInv

(* Every reachable state of the two thinkers satisfies the invariant. *)
LEMMA BrainsHold == BrainsSpec => []BrainsInv
<1>1. BrainsInv /\ [BrainsNext]_brainVars => BrainsInv'
  BY BrainsKept
<1>2. QED
  BY <1>1, BrainsStart, PTL DEF BrainsSpec

(* The state of the agent pool and of the worker is well typed, whatever   *)
(* the number of souls, failures and legs.                                 *)
THEOREM BrainsTyped == BrainsSpec => []BrainsTypeOK
<1>1. ASSUME BrainsInv PROVE BrainsTypeOK
  <2>1. /\ tick.at \in {"pump", "pool", "thinking", "sweep"} /\ tick.todo \subseteq Souls
        /\ tick.arrived \subseteq Souls /\ tick.soul \in Souls \cup {NoSoul}
    BY <1>1 DEF BrainsInv, PoolOK
  <2>2. worker.at \in {"idle", "holding", "thinking"} /\ worker.soul \in Souls \cup {NoSoul}
    BY <1>1 DEF BrainsInv, QueueOK
  <2>3. \A s \in Souls : job[s].kinds \subseteq Kinds
    BY <1>1 DEF BrainsInv, QueueOK, Jobs
  <2>4. busy \subseteq Souls
    BY <1>1, <2>1 DEF BrainsInv, OneBrain, PoolThinks, WorkerThinks, PoolOK, QueueOK
  <2>5. QED
    BY <1>1, <2>1, <2>2, <2>3, <2>4
    DEF BrainsInv, BrainsTypeOK, SchedOK, BodiesOK, BreakerOK
<1>2. QED
  BY <1>1, BrainsHold, PTL

(* brain_busy.py: the pool and the worker never think about the same soul  *)
(* at a time, and a brain is free again after every way out of a think.    *)
THEOREM OneBrainHolds == BrainsSpec => []OneBrain
<1>1. BrainsInv => OneBrain
  BY DEF BrainsInv
<1>2. QED
  BY <1>1, BrainsHold, PTL

(* scheduler.py:7: whatever wakes, flags or fails, no soul begins a think  *)
(* within the minimum gap after its last, unless its schedule was dropped. *)
THEOREM ThinksArePaced == BrainsSpec => PacedThinks
<1> DEFINE Pace == \A s \in Souls :
             tick.at # "thinking" /\ tick'.at = "thinking" /\ tick'.soul = s
             => s \notin past.recent \/ s \in past.pruned
<1>1. BrainsInv /\ [BrainsNext]_brainVars => [Pace]_brainVars
  <2> SUFFICES ASSUME BrainsInv, BrainsNext, tick.at # "thinking", tick'.at = "thinking",
                      NEW s \in Souls, tick'.soul = s
               PROVE  s \notin past.recent \/ s \in past.pruned
    OBVIOUS
  <2>1. PoolOK /\ Paced
    BY DEF BrainsInv
  <2>2. ~OffTick
    BY OffTickKeepsTick
  <2>3. ~PumpIntents /\ ~RunAgentPool /\ ~TickEnds
    BY <2>1 DEF PumpIntents, RunAgentPool, TickEnds, PoolOK
  <2>4. ~PoolThink /\ ~PoolFails
    BY DEF PoolThink, Thinks, PoolFails, PoolEnds
  <2>5. \A r \in Souls : ~PoolBusy(r) /\ ~Arrived(r)
    BY <2>1 DEF PoolBusy, Left, Arrived, PoolOK
  <2>6. PICK r \in Souls : PoolBegin(r)
    BY <2>2, <2>3, <2>4, <2>5 DEF BrainsNext, TickStep, WorkerStep, OffTick
  <2>7. r = s /\ s \in tick.todo
    BY <2>1, <2>6 DEF PoolBegin, PoolOK
  <2>8. QED
    BY <2>1, <2>7 DEF Paced
<1>2. QED
  BY <1>1, BrainsHold, PTL DEF BrainsSpec, PacedThinks

=============================================================================
