----------------------------- MODULE MapRouting -----------------------------
(***************************************************************************)
(* The memory guide's route through the places it was shown.  A semantic   *)
(* map is built from recorded tours of teleoperation: each passage from    *)
(* one anchored location to the next is a directed edge                    *)
(* (_demonstrated_routes).  _route_mapped_inspections orders the places to *)
(* be inspected, nearest first, and puts the demonstrated edges between    *)
(* them; plan_topological_route finds the cheapest ones with a priority    *)
(* queue.                                                                  *)
(*                                                                         *)
(* A location is a number in the alphabetical order of the names, a time a *)
(* whole number of seconds, and an entry of the plan is what its waypoint  *)
(* asks for: to follow an edge, or to make one of the inspections.         *)
(***************************************************************************)
EXTENDS Integers, Sequences, FiniteSets

CONSTANTS
    NumLocations,
    NumInspections,
    Captures,       \* sets of recorded tours: sequences of tours
    Targets,        \* the inspections' locations: functions
    NoLocation      \* an inspection without a place on the map

Location   == 1..NumLocations
Inspection == 1..NumInspections
Anchor     == [location : Location, time : Nat]

ASSUME RoutingAssumption ==
    /\ NumLocations \in Nat /\ NumInspections \in Nat \ {0}
    /\ NoLocation \notin Location
    /\ Captures \subseteq Seq(Seq(Anchor))
    /\ Targets \subseteq [Inspection -> Location \cup {NoLocation}]

Edge  == [session : Nat, from : Location, to : Location, demo : Nat, weight : Nat]
Route == Seq(Edge)

VARIABLES
    edges, start, target,       \* the map's routes, current_location, the steps
    pc,
    current, remaining, fallback, \* _route_mapped_inspections' outer loop
    untried, item, candidates,  \* and its inner one
    queue, best, serial,        \* plan_topological_route
    head, outgoing,             \* the entry being expanded, and edges to go
    plan

inputVars  == <<edges, start, target>>
searchVars == <<queue, best, serial, head, outgoing>>
loopVars   == <<current, remaining, fallback, untried, item, candidates>>
vars == <<inputVars, pc, loopVars, searchVars, plan>>

Entry     == [cost : Nat, serial : Nat, at : Location, route : Route]
Candidate == [cost : Nat, item : Inspection, route : Route]
Follow    == [role : {"route"}, edge : Edge]
Inspect   == [role : {"inspection", "fallback"}, item : Inspection]

\* The inspections whose place is on the map.
Mapped == {i \in Inspection : target[i] # NoLocation}

\* Every variable has its type; a plan has one candidate per inspection.
TypeOK ==
    /\ edges \subseteq Edge /\ start \in Location
    /\ target \in [Inspection -> Location \cup {NoLocation}]
    /\ pc \in {"choose", "search", "done", "failed"}
    /\ current \in Location
    /\ remaining \subseteq Mapped /\ untried \subseteq remaining
    /\ fallback \subseteq Inspection
    /\ item \in Inspection
    /\ candidates \subseteq Candidate
    /\ \A c, d \in candidates : c.item = d.item => c = d
    /\ queue \subseteq Entry
    /\ DOMAIN best \subseteq Location /\ \A n \in DOMAIN best : best[n] \in Nat
    /\ serial \in Nat
    /\ head \in Entry /\ outgoing \subseteq edges
    /\ plan \in Seq(Follow \cup Inspect)

-----------------------------------------------------------------------------
(* The map.                                                                *)

\* The passages of a tour: neighbouring anchors at different locations.
Passages(tour) ==
    {i \in 1..(Len(tour) - 1) : tour[i].location # tour[i+1].location}

Duration(tour, i) == tour[i+1].time - tour[i].time

\* A passage that was recorded without a time counts as one of a second.
Weight(duration) == IF duration > 1 THEN duration ELSE 1

SamePassage(tour, i, j) ==
    /\ tour[i].location = tour[j].location
    /\ tour[i+1].location = tour[j+1].location

Passage(session, tour, i) ==
    [ session |-> session,
      from    |-> tour[i].location,
      to      |-> tour[i+1].location,
      demo    |-> Cardinality({j \in Passages(tour) :
                                  j <= i /\ SamePassage(tour, i, j)}),
      weight  |-> Weight(Duration(tour, i)) ]

\* Each tour is a session of its own.
DemonstratedRoutes(capture) ==
    UNION {{Passage(s, capture[s], i) : i \in Passages(capture[s])} :
              s \in DOMAIN capture}

Recorded(capture) ==
    UNION {{capture[s][i].location : i \in DOMAIN capture[s]} :
              s \in DOMAIN capture}

\* The identifiers of the outgoing edges are in this order.
Before(e, f) ==
    \/ e.session < f.session
    \/ e.session = f.session /\ e.to < f.to
    \/ e.session = f.session /\ e.to = f.to /\ e.demo < f.demo

IsFirst(e, E) == e \in E /\ \A f \in E : f = e \/ Before(e, f)

-----------------------------------------------------------------------------

\* _map_waypoints: one step for each search location, however many views of it
\* were recorded; a phrase that no location answers to has a step without one.
StepsOnMap(capture) ==
    {t \in Targets : \A i \in Inspection :
        t[i] \in Recorded(capture) \cup {NoLocation}}

Root == [cost |-> 0, serial |-> 0, at |-> current, route |-> <<>>]

Init ==
    /\ \E capture \in Captures :
          /\ edges = DemonstratedRoutes(capture)
          /\ start \in Recorded(capture)
          /\ target \in StepsOnMap(capture)
    /\ pc = "choose" /\ current = start
    /\ remaining = Mapped /\ untried = remaining
    /\ fallback = Inspection \ Mapped
    /\ item = 1 /\ candidates = {}
    /\ queue = {} /\ best = [n \in {} |-> 0] /\ serial = 0
    /\ head = Root /\ outgoing = {}
    /\ plan = <<>>

-----------------------------------------------------------------------------
(* plan_topological_route                                                  *)

\* For each remaining inspection, in their order.
BeginSearch ==
    /\ pc = "choose"
    /\ \E i \in untried :
          /\ \A j \in untried : i <= j
          /\ item' = i /\ untried' = untried \ {i}
    /\ queue' = {Root} /\ best' = [n \in {current} |-> 0] /\ serial' = 0
    /\ head' = Root /\ outgoing' = {}
    /\ pc' = "search"
    /\ UNCHANGED <<inputVars, current, remaining, fallback, candidates, plan>>

Precedes(d, e) == d.cost < e.cost \/ (d.cost = e.cost /\ d.serial <= e.serial)

\* heappop, once the edges of the last entry are done with.
Pops(e) ==
    /\ pc = "search" /\ outgoing = {}
    /\ \A d \in queue : Precedes(e, d)
    /\ queue' = queue \ {e}

\* The edges that leave n; adjacency has them in the order of their names.
Adjacency(n) == {edge \in edges : edge.from = n}

\* A cheaper way to the same location was found meanwhile.
Stale(e) == e.cost > best[e.at]

SkipStale ==
    /\ \E e \in queue : Pops(e) /\ Stale(e)
    /\ UNCHANGED <<inputVars, pc, loopVars, best, serial, head, outgoing,
                   plan>>

Reach ==
    /\ \E e \in queue :
          /\ Pops(e) /\ ~Stale(e)
          /\ e.at = target[item]
          /\ candidates' = candidates \cup
                 {[cost |-> e.cost, item |-> item, route |-> e.route]}
    /\ pc' = "choose"
    /\ UNCHANGED <<inputVars, current, remaining, fallback, untried, item,
                   best, serial, head, outgoing, plan>>

Expand ==
    /\ \E e \in queue :
          /\ Pops(e) /\ ~Stale(e)
          /\ e.at # target[item]
          /\ head' = e /\ outgoing' = Adjacency(e.at)
    /\ UNCHANGED <<inputVars, pc, loopVars, best, serial, plan>>

\* Mutant of Improves: the first way to a location is kept.
FirstWay(n, cost) == n \notin DOMAIN best

Improves(n, cost) == n \notin DOMAIN best \/ cost < best[n]

Relax ==
    /\ pc = "search"
    /\ \E edge \in outgoing :
          LET cost == head.cost + edge.weight
          IN  /\ IsFirst(edge, outgoing)
              /\ outgoing' = outgoing \ {edge}
              /\ IF Improves(edge.to, cost)
                 THEN /\ best' = [n \in DOMAIN best \cup {edge.to} |->
                                     IF n = edge.to THEN cost ELSE best[n]]
                      /\ serial' = serial + 1
                      /\ queue' = queue \cup
                             {[cost |-> cost, serial |-> serial', at |-> edge.to,
                               route |-> Append(head.route, edge)]}
                 ELSE UNCHANGED <<best, serial, queue>>
    /\ UNCHANGED <<inputVars, pc, loopVars, head, plan>>

\* "no route from ... to ...": no candidate.
NoRoute ==
    /\ pc = "search" /\ outgoing = {} /\ queue = {}
    /\ pc' = "choose"
    /\ UNCHANGED <<inputVars, loopVars, searchVars, plan>>

-----------------------------------------------------------------------------
(* _route_mapped_inspections                                               *)

\* Mutant of ContinueFrom: every leg is planned from the start.
ContinueFromStart(i) == start

Without(i) == remaining \ {i}

ContinueFrom(i) == target[i]

IsNearest(c) ==
    \A d \in candidates :
        c.cost < d.cost \/ (c.cost = d.cost /\ c.item <= d.item)

Legs(route) == [k \in DOMAIN route |-> [role |-> "route", edge |-> route[k]]]

SelectNearest ==
    /\ pc = "choose" /\ untried = {}
    /\ \E c \in candidates :
          /\ IsNearest(c)
          /\ plan' = plan \o Legs(c.route)
                          \o <<[role |-> "inspection", item |-> c.item]>>
          /\ remaining' = Without(c.item)
          /\ current' = ContinueFrom(c.item)
    /\ untried' = remaining' /\ candidates' = {}
    /\ UNCHANGED <<inputVars, pc, fallback, item, searchVars>>

\* "no demonstrated forward route ... capture the missing direction"
DeadEnd ==
    /\ pc = "choose" /\ untried = {} /\ candidates = {} /\ remaining # {}
    /\ pc' = "failed"
    /\ UNCHANGED <<inputVars, loopVars, searchVars, plan>>

\* The inspections without a place follow, in their order.
AppendFallback ==
    /\ pc = "choose" /\ remaining = {}
    /\ \E i \in fallback :
          /\ \A j \in fallback : i <= j
          /\ plan' = Append(plan, [role |-> "fallback", item |-> i])
          /\ fallback' = fallback \ {i}
    /\ UNCHANGED <<inputVars, pc, current, remaining, untried, item, candidates,
                   searchVars>>

Return ==
    /\ pc = "choose" /\ remaining = {} /\ fallback = {}
    /\ pc' = "done"
    /\ UNCHANGED <<inputVars, loopVars, searchVars, plan>>

Finished == pc \in {"done", "failed"} /\ UNCHANGED vars

Next == \/ BeginSearch \/ SkipStale \/ Reach \/ Expand \/ Relax \/ NoRoute
        \/ SelectNearest \/ DeadEnd \/ AppendFallback \/ Return
        \/ Finished

Spec == Init /\ [][Next]_vars

-----------------------------------------------------------------------------
(* Properties.                                                             *)

\* Where the robot is after the first k waypoints of the plan.
Standing(k) ==
    IF k = 0 THEN start
    ELSE IF plan[k].role = "route" THEN plan[k].edge.to
    ELSE target[plan[k].item]

\* The robot is never asked for a passage that nobody demonstrated, nor for
\* one that does not begin where it is, and it inspects a place only when it
\* has got there.
PlanIsDemonstrated ==
    \A k \in DOMAIN plan :
        /\ plan[k].role = "route" => /\ plan[k].edge \in edges
                                     /\ plan[k].edge.from = Standing(k-1)
        /\ plan[k].role = "inspection" => target[plan[k].item] = Standing(k-1)

\* A finished plan makes every inspection once, those without a place last.
EachInspectedOnce ==
    pc = "done" =>
        /\ \A i \in Inspection :
               Cardinality({k \in DOMAIN plan :
                   plan[k].role # "route" /\ plan[k].item = i}) = 1
        /\ \A j, k \in DOMAIN plan :
               plan[j].role = "fallback" /\ j < k => plan[k].role = "fallback"

\* What a route costs, and the routes from a to b that visit no location
\* twice: the reference definition of the cheapest way.
Cost(route) ==
    LET sum[k \in 0..Len(route)] ==
            IF k = 0 THEN 0 ELSE sum[k-1] + route[k].weight
    IN  sum[Len(route)]

Leads(route, a, b) ==
    /\ route[1].from = a /\ route[Len(route)].to = b
    /\ \A k \in 1..(Len(route) - 1) : route[k].to = route[k+1].from

Ways(a, b) ==
    IF a = b THEN {<<>>}
    ELSE {route \in UNION {[1..n -> edges] : n \in 1..(NumLocations - 1)} :
             Leads(route, a, b)}

\* A candidate is a way to its inspection, none is cheaper, and an inspection
\* has no candidate only if there is no way to it.
CandidatesAreShortest ==
    /\ \A c \in candidates :
           /\ c.cost = Cost(c.route)
           /\ \A way \in Ways(current, target[c.item]) : c.cost <= Cost(way)
    /\ pc = "choose" =>
           \A i \in remaining \ untried :
               Ways(current, target[i]) # {} => \E c \in candidates : c.item = i
=============================================================================
