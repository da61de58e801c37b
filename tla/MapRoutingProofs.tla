-------------------------- MODULE MapRoutingProofs --------------------------
(***************************************************************************)
(* The memory guide's plan follows demonstrated edges and makes every      *)
(* inspection once, for every map that recorded tours can leave, every     *)
(* number of inspections and every place they lie at.                      *)
(***************************************************************************)
EXTENDS MapRouting, FiniteSetTheorems, SequenceTheorems, WellFoundedInduction, TLAPS

\* A route from a to b along the edges E.
Walks(E, route, a, b) ==
    /\ \A k \in 1..Len(route) :
           /\ route[k] \in E
           /\ route[k].from = IF k = 1 THEN a ELSE route[k-1].to
    /\ b = IF Len(route) = 0 THEN a ELSE route[Len(route)].to

\* What is in the heap are ways from where the leg begins, and what comes out
\* of it are ways to the inspections.
WalkInv ==
    /\ pc = "search" =>
           /\ \A e \in queue : Walks(edges, e.route, current, e.at)
           /\ Walks(edges, head.route, current, head.at)
           /\ \A e \in outgoing : e.from = head.at
    /\ \A c \in candidates : Walks(edges, c.route, current, target[c.item])

\* A candidate belongs to an inspection that was tried and is still to do.
TriedInv ==
    /\ \A c \in candidates : c.item \in remaining \ untried
    /\ pc = "search" =>
           /\ item \in remaining \ untried
           /\ \A c \in candidates : c.item # item

\* While there are mapped inspections left, the plan ends where the next leg
\* begins.
PlanInv ==
    /\ remaining # {} => Standing(Len(plan)) = current
    /\ PlanIsDemonstrated

\* The k-th waypoint is the inspection i.
Visits(k, i) == plan[k].role # "route" /\ plan[k].item = i

\* What is in the plan is not to do, and the other way round.
VisitInv ==
    /\ \A i \in Inspection :
           (\E k \in DOMAIN plan : Visits(k, i)) <=> i \notin remaining \cup fallback
    /\ \A i \in Inspection : \A j, k \in DOMAIN plan :
           Visits(j, i) /\ Visits(k, i) => j = k
    /\ fallback \cap remaining = {}

\* Fallbacks are last, and come when nothing else is left.
FallbackInv ==
    /\ \A k \in DOMAIN plan : plan[k].role = "fallback" => remaining = {}
    /\ \A j, k \in DOMAIN plan :
           plan[j].role = "fallback" /\ j < k => plan[k].role = "fallback"
    /\ pc = "done" => remaining = {} /\ fallback = {}

IInv == TypeOK /\ WalkInv /\ TriedInv /\ PlanInv /\ VisitInv /\ FallbackInv

-----------------------------------------------------------------------------

\* The passages of a tour are edges.
LEMMA PassageType ==
  ASSUME NEW tour \in Seq(Anchor), NEW s \in Nat, NEW i \in Passages(tour)
  PROVE  Passage(s, tour, i) \in Edge
  <1>1. Len(tour) \in Nat
    OBVIOUS
  <1>2. i \in 1..(Len(tour) - 1) /\ i \in DOMAIN tour /\ i + 1 \in DOMAIN tour
    BY <1>1 DEF Passages
  <1>3. tour[i] \in Anchor /\ tour[i+1] \in Anchor
    BY <1>2
  <1>4. Weight(Duration(tour, i)) \in Nat
    BY <1>3 DEF Weight, Duration, Anchor
  <1>5. Cardinality({j \in Passages(tour) : j <= i /\ SamePassage(tour, i, j)}) \in Nat
    <2> DEFINE S == {j \in Passages(tour) : j <= i /\ SamePassage(tour, i, j)}
    <2>1. IsFiniteSet(1..(Len(tour) - 1))
      BY <1>1, FS_Interval
    <2>2. S \subseteq 1..(Len(tour) - 1)
      BY DEF Passages
    <2>3. IsFiniteSet(S)
      BY <2>1, <2>2, FS_Subset
    <2> QED BY <2>3, FS_CardinalityType
  <1> QED BY <1>3, <1>4, <1>5 DEF Passage, Edge, Anchor

\* A map built from tours has typed edges and locations.
LEMMA MapType ==
  ASSUME NEW capture \in Captures
  PROVE  DemonstratedRoutes(capture) \subseteq Edge /\ Recorded(capture) \subseteq Location
  <1>1. capture \in Seq(Seq(Anchor))
    BY RoutingAssumption
  <1>2. \A s \in DOMAIN capture : s \in Nat /\ capture[s] \in Seq(Anchor)
    BY <1>1
  <1>3. DemonstratedRoutes(capture) \subseteq Edge
    BY <1>2, PassageType DEF DemonstratedRoutes
  <1>4. \A s \in DOMAIN capture : \A i \in DOMAIN capture[s] : capture[s][i] \in Anchor
    BY <1>2
  <1> QED BY <1>3, <1>4 DEF Recorded, Anchor

\* A route is prolonged by an edge that begins at its end.
LEMMA AppendWalks ==
  ASSUME NEW E, NEW route \in Route, NEW a, NEW b, NEW e \in Edge,
         Walks(E, route, a, b), e \in E, e.from = b
  PROVE  Walks(E, Append(route, e), a, e.to)
  <1> DEFINE r == Append(route, e)
  <1>1. Len(route) \in Nat /\ Len(r) = Len(route) + 1 /\ r[Len(r)] = e
    BY DEF Route
  <1>2. \A k \in 1..Len(route) : r[k] = route[k]
    BY DEF Route
  <1>3. ASSUME NEW k \in 1..Len(r)
        PROVE  r[k] \in E /\ r[k].from = IF k = 1 THEN a ELSE r[k-1].to
    <2>1. CASE k \in 1..Len(route)
      <3>1. k = 1 \/ k - 1 \in 1..Len(route) BY <2>1, <1>1
      <3> QED BY <2>1, <3>1, <1>2 DEF Walks
    <2>2. CASE k = Len(r)
      <3>1. k = 1 \/ k - 1 \in 1..Len(route) BY <2>2, <1>1
      <3>2. b = IF Len(route) = 0 THEN a ELSE route[Len(route)].to
        BY DEF Walks
      <3> QED BY <2>2, <3>1, <3>2, <1>1, <1>2
    <2> QED BY <2>1, <2>2, <1>1
  <1> HIDE DEF r
  <1>4. Walks(E, r, a, e.to)
    BY <1>1, <1>3 DEF Walks
  <1> QED BY <1>4 DEF r

\* The robot is where the leg begins before it has gone anywhere.
LEMMA RootWalks == \A E, a : Walks(E, <<>>, a, a)
  BY DEF Walks

-----------------------------------------------------------------------------

\* The invariant holds before the first leg is planned.
LEMMA InitIInv == Init => IInv
  <1> SUFFICES ASSUME Init PROVE IInv
    OBVIOUS
  <1> PICK capture \in Captures :
        /\ edges = DemonstratedRoutes(capture)
        /\ start \in Recorded(capture)
        /\ target \in {t \in Targets : \A i \in Inspection :
                          t[i] \in Recorded(capture) \cup {NoLocation}}
    BY DEF Init, StepsOnMap
  <1>1. edges \subseteq Edge /\ start \in Location
    BY MapType
  <1>2. target \in [Inspection -> Location \cup {NoLocation}]
    BY RoutingAssumption
  <1>3. 1 \in Inspection
    BY RoutingAssumption DEF Inspection
  <1>4. Root \in Entry
    BY <1>1 DEF Root, Entry, Route, Init
  <1>5. TypeOK
    BY <1>1, <1>2, <1>3, <1>4 DEF TypeOK, Init, Mapped
  <1>6. plan = <<>> /\ DOMAIN plan = {} /\ Len(plan) = 0
    BY DEF Init
  <1>7. WalkInv /\ TriedInv
    BY DEF WalkInv, TriedInv, Init
  <1>8. PlanInv
    BY <1>6 DEF PlanInv, PlanIsDemonstrated, Standing, Init
  <1>9. VisitInv
    BY <1>6 DEF VisitInv, Visits, Init, Mapped
  <1>10. FallbackInv
    BY <1>6 DEF FallbackInv, Init
  <1> QED BY <1>5, <1>7, <1>8, <1>9, <1>10 DEF IInv

\* An inspection with a candidate has its place on the map.
LEMMA CandidateType ==
  ASSUME TypeOK, TriedInv, NEW c \in candidates
  PROVE  /\ c.item \in remaining /\ c.item \in Inspection
         /\ target[c.item] \in Location /\ c.route \in Route
  BY DEF TypeOK, TriedInv, Candidate, Mapped

\* Every step keeps the types.
LEMMA TypeStep ==
  ASSUME TypeOK, TriedInv, [Next]_vars
  PROVE  TypeOK'
  <1> USE DEF inputVars, searchVars, loopVars
  <1>1. CASE BeginSearch
    <2>1. Root \in Entry
      BY DEF Root, Entry, Route, TypeOK
    <2>2. best' = [n \in {current} |-> 0] /\ 0 \in Nat
      BY <1>1 DEF BeginSearch
    <2>3. /\ item' \in Inspection /\ untried' \subseteq untried
          /\ queue' = {Root} /\ head' = Root /\ outgoing' = {} /\ serial' = 0
      BY <1>1 DEF BeginSearch, TypeOK, Mapped
    <2> QED BY <1>1, <2>1, <2>2, <2>3 DEF BeginSearch, TypeOK, Mapped
  <1>2. CASE SkipStale
    BY <1>2 DEF SkipStale, Pops, TypeOK, Mapped
  <1>3. CASE Reach
    <2>1. PICK e \in queue :
            candidates' = candidates \cup
              {[cost |-> e.cost, item |-> item, route |-> e.route]}
      BY <1>3 DEF Reach
    <2> DEFINE new == [cost |-> e.cost, item |-> item, route |-> e.route]
    <2>2. new \in Candidate
      BY <2>1 DEF TypeOK, Entry, Candidate
    <2>3. \A c \in candidates : c.item # item
      BY <1>3 DEF TriedInv, Reach, Pops
    <2>4. \A c, d \in candidates' : c.item = d.item => c = d
      BY <2>1, <2>3 DEF TypeOK
    <2>5. candidates' \subseteq Candidate /\ queue' \subseteq queue
      BY <1>3, <2>1, <2>2 DEF TypeOK, Reach, Pops
    <2> QED BY <1>3, <2>4, <2>5 DEF Reach, TypeOK, Mapped
  <1>4. CASE Expand
    BY <1>4 DEF Expand, Adjacency, Pops, TypeOK, Mapped
  <1>5. CASE Relax
    <2>1. PICK edge \in outgoing :
            /\ outgoing' = outgoing \ {edge}
            /\ IF Improves(edge.to, head.cost + edge.weight)
               THEN /\ best' = [n \in DOMAIN best \cup {edge.to} |->
                                   IF n = edge.to THEN head.cost + edge.weight
                                   ELSE best[n]]
                    /\ serial' = serial + 1
                    /\ queue' = queue \cup
                           {[cost |-> head.cost + edge.weight, serial |-> serial',
                             at |-> edge.to, route |-> Append(head.route, edge)]}
               ELSE UNCHANGED <<best, serial, queue>>
      BY <1>5 DEF Relax
    <2>2. edge \in Edge /\ head \in Entry /\ serial \in Nat
      BY DEF TypeOK
    <2>3. edge.to \in Location /\ head.cost + edge.weight \in Nat
      BY <2>2 DEF Edge, Entry
    <2>4. Append(head.route, edge) \in Route
      BY <2>2 DEF Entry, Route
    <2> DEFINE cost == head.cost + edge.weight
               new == [cost |-> cost, serial |-> serial + 1,
                       at |-> edge.to, route |-> Append(head.route, edge)]
    <2>5. serial' \in Nat /\ queue' \subseteq Entry
      <3>1. new \in Entry
        BY <2>2, <2>3, <2>4 DEF Entry
      <3> HIDE DEF new
      <3>2. CASE Improves(edge.to, cost)
        <4>1. serial' = serial + 1 /\ queue' = queue \cup {new}
          BY <2>1, <3>2 DEF new
        <4> QED BY <4>1, <3>1, <2>2 DEF TypeOK
      <3>3. CASE ~Improves(edge.to, cost)
        BY <2>1, <3>3 DEF TypeOK
      <3> QED BY <3>2, <3>3
    <2> HIDE DEF new
    <2>6. DOMAIN best' \subseteq Location /\ \A n \in DOMAIN best' : best'[n] \in Nat
      BY <2>1, <2>3 DEF TypeOK
    <2> QED BY <1>5, <2>1, <2>5, <2>6 DEF Relax, TypeOK, Mapped
  <1>6. CASE NoRoute
    BY <1>6 DEF NoRoute, TypeOK, Mapped
  <1>7. CASE SelectNearest
    <2>1. PICK c \in candidates :
            /\ plan' = plan \o Legs(c.route)
                            \o <<[role |-> "inspection", item |-> c.item]>>
            /\ remaining' = remaining \ {c.item} /\ current' = target[c.item]
      BY <1>7 DEF SelectNearest, Without, ContinueFrom
    <2>2. Legs(c.route) \in Seq(Follow \cup Inspect)
      BY CandidateType DEF Legs, Route, Follow
    <2>3. [role |-> "inspection", item |-> c.item] \in Follow \cup Inspect
      BY CandidateType DEF Inspect
    <2> HIDE DEF Legs
    <2>4. plan' \in Seq(Follow \cup Inspect)
      BY <2>1, <2>2, <2>3 DEF TypeOK
    <2>5. current' \in Location
      BY <2>1, CandidateType
    <2> QED BY <1>7, <2>1, <2>4, <2>5 DEF SelectNearest, TypeOK, Mapped
  <1>8. CASE DeadEnd
    BY <1>8 DEF DeadEnd, TypeOK, Mapped
  <1>9. CASE AppendFallback
    <2>1. PICK i \in fallback :
            /\ plan' = Append(plan, [role |-> "fallback", item |-> i])
            /\ fallback' = fallback \ {i}
      BY <1>9 DEF AppendFallback
    <2>2. plan' \in Seq(Follow \cup Inspect)
      BY <2>1 DEF TypeOK, Inspect
    <2> QED BY <1>9, <2>1, <2>2 DEF AppendFallback, TypeOK, Mapped
  <1>10. CASE Return
    BY <1>10 DEF Return, TypeOK, Mapped
  <1>11. CASE Finished \/ UNCHANGED vars
    BY <1>11 DEF Finished, vars, TypeOK, Mapped
  <1> QED BY <1>1, <1>2, <1>3, <1>4, <1>5, <1>6, <1>7, <1>8, <1>9, <1>10, <1>11
          DEF Next

\* Routes in the heap stay ways along the map.
LEMMA WalkStep ==
  ASSUME TypeOK, WalkInv, TriedInv, [Next]_vars
  PROVE  WalkInv'
  <1> USE DEF inputVars, searchVars, loopVars
  <1>1. CASE BeginSearch
    <2>1. /\ queue' = {Root} /\ head' = Root /\ outgoing' = {}
          /\ UNCHANGED <<edges, target, current, candidates>>
      BY <1>1 DEF BeginSearch
    <2>2. Root.route = <<>> /\ Root.at = current
      BY DEF Root
    <2> QED BY <2>1, <2>2, RootWalks DEF WalkInv
  <1>2. CASE SkipStale
    BY <1>2 DEF SkipStale, Pops, WalkInv
  <1>3. CASE Reach
    <2>1. PICK e \in queue :
            /\ e.at = target[item]
            /\ candidates' = candidates \cup
                 {[cost |-> e.cost, item |-> item, route |-> e.route]}
      BY <1>3 DEF Reach
    <2>2. Walks(edges, e.route, current, target[item])
      BY <1>3, <2>1 DEF WalkInv, Reach, Pops
    <2>3. /\ pc' = "choose"
          /\ UNCHANGED <<edges, target, current>>
      BY <1>3 DEF Reach
    <2> QED BY <2>1, <2>2, <2>3 DEF WalkInv
  <1>4. CASE Expand
    <2>1. PICK e \in queue :
            head' = e /\ outgoing' = {edge \in edges : edge.from = e.at}
      BY <1>4 DEF Expand, Adjacency
    <2>2. pc = "search" /\ queue' \subseteq queue
      BY <1>4 DEF Expand, Pops
    <2>3. UNCHANGED <<edges, target, current, candidates, pc>>
      BY <1>4 DEF Expand
    <2> QED BY <2>1, <2>2, <2>3 DEF WalkInv
  <1>5. CASE Relax
    <2>1. PICK edge \in outgoing :
            /\ outgoing' = outgoing \ {edge}
            /\ \/ \E cost, n : queue' = queue \cup
                     {[cost |-> cost, serial |-> n,
                       at |-> edge.to, route |-> Append(head.route, edge)]}
               \/ queue' = queue
      BY <1>5 DEF Relax
    <2>2. pc = "search" /\ UNCHANGED <<edges, target, current, candidates, pc, head>>
      BY <1>5 DEF Relax
    <2>3. edge \in Edge /\ edge \in edges /\ head.route \in Route
      BY DEF TypeOK, Entry
    <2>4. edge.from = head.at /\ Walks(edges, head.route, current, head.at)
      BY <2>2 DEF WalkInv
    <2>5. Walks(edges, Append(head.route, edge), current, edge.to)
      BY <2>3, <2>4, AppendWalks
    <2>6. ASSUME NEW e \in queue' PROVE Walks(edges, e.route, current, e.at)
      <3>1. CASE e \in queue
        BY <2>2, <3>1 DEF WalkInv
      <3>2. CASE e \notin queue
        <4>1. e.at = edge.to /\ e.route = Append(head.route, edge)
          BY <2>1, <3>2
        <4> QED BY <4>1, <2>5
      <3> QED BY <3>1, <3>2
    <2>7. \A e \in outgoing' : e.from = head'.at
      BY <2>1, <2>2 DEF WalkInv
    <2>8. Walks(edges', head'.route, current', head'.at)
      BY <2>2 DEF WalkInv
    <2>9. \A c \in candidates' : Walks(edges', c.route, current', target'[c.item])
      BY <2>2 DEF WalkInv
    <2>10. \A e \in queue' : Walks(edges', e.route, current', e.at)
      BY <2>2, <2>6
    <2> QED BY <2>7, <2>8, <2>9, <2>10 DEF WalkInv
  <1>6. CASE NoRoute
    BY <1>6 DEF NoRoute, WalkInv
  <1>7. CASE SelectNearest
    BY <1>7 DEF SelectNearest, WalkInv
  <1>8. CASE DeadEnd
    BY <1>8 DEF DeadEnd, WalkInv
  <1>9. CASE AppendFallback
    BY <1>9 DEF AppendFallback, WalkInv
  <1>10. CASE Return
    BY <1>10 DEF Return, WalkInv
  <1>11. CASE Finished \/ UNCHANGED vars
    BY <1>11 DEF Finished, vars, WalkInv
  <1> QED BY <1>1, <1>2, <1>3, <1>4, <1>5, <1>6, <1>7, <1>8, <1>9, <1>10, <1>11
          DEF Next

\* No inspection gets a candidate twice.
LEMMA TriedStep ==
  ASSUME TypeOK, TriedInv, [Next]_vars
  PROVE  TriedInv'
  <1> USE DEF inputVars, searchVars, loopVars
  <1>1. CASE BeginSearch
    BY <1>1 DEF BeginSearch, TriedInv, TypeOK
  <1>2. CASE SkipStale
    BY <1>2 DEF SkipStale, Pops, TriedInv
  <1>3. CASE Reach
    BY <1>3 DEF Reach, Pops, TriedInv
  <1>4. CASE Expand
    BY <1>4 DEF Expand, Pops, TriedInv
  <1>5. CASE Relax
    BY <1>5 DEF Relax, TriedInv
  <1>6. CASE NoRoute
    BY <1>6 DEF NoRoute, TriedInv
  <1>7. CASE SelectNearest
    BY <1>7 DEF SelectNearest, TriedInv
  <1>8. CASE DeadEnd
    BY <1>8 DEF DeadEnd, TriedInv
  <1>9. CASE AppendFallback
    BY <1>9 DEF AppendFallback, TriedInv
  <1>10. CASE Return
    BY <1>10 DEF Return, TriedInv
  <1>11. CASE Finished \/ UNCHANGED vars
    BY <1>11 DEF Finished, vars, TriedInv
  <1> QED BY <1>1, <1>2, <1>3, <1>4, <1>5, <1>6, <1>7, <1>8, <1>9, <1>10, <1>11
          DEF Next

\* A step that leaves the plan alone.
Keeps == UNCHANGED <<edges, start, target, current, remaining, fallback, plan>>

\* What the steps of a search, and the two ends, leave alone.
LEMMA OtherStep ==
  ASSUME [Next]_vars
  PROVE  Keeps \/ SelectNearest \/ AppendFallback
  BY DEF Next, vars, inputVars, searchVars, loopVars, Keeps, BeginSearch, SkipStale,
         Reach, Expand, Relax, NoRoute, DeadEnd, Return, Finished

\* Two sequences and an element in a row.
LEMMA ThreeInARow ==
  ASSUME NEW S, NEW p \in Seq(S), NEW q \in Seq(S), NEW x \in S,
         NEW n \in Nat, n = Len(p), NEW m \in Nat, m = Len(q),
         NEW r, r = p \o q \o <<x>>
  PROVE  /\ DOMAIN r = 1..(n + m + 1) /\ Len(r) = n + m + 1
         /\ \A k \in 1..n : r[k] = p[k]
         /\ \A k \in 1..m : r[n + k] = q[k]
         /\ r[n + m + 1] = x
  <1>1. PICK pq : pq = p \o q
    OBVIOUS
  <1>2. pq \in Seq(S) /\ Len(pq) = n + m
    BY <1>1, ConcatProperties
  <1>3. ASSUME NEW k \in 1..n PROVE pq[k] = p[k]
    BY <1>1, ConcatProperties
  <1>4. ASSUME NEW k \in 1..m PROVE pq[n + k] = q[k]
    <2>1. n + k \in 1..(Len(p) + Len(q)) /\ ~(n + k <= Len(p)) /\ (n + k) - Len(p) = k
      OBVIOUS
    <2> QED BY <1>1, <2>1, ConcatProperties
  <1>5. <<x>> \in Seq(S) /\ Len(<<x>>) = 1 /\ <<x>>[1] = x
    OBVIOUS
  <1>6. PICK y \in Seq(S) : y = <<x>>
    BY <1>5
  <1>7. r \in Seq(S) /\ Len(r) = n + m + 1
    BY <1>1, <1>2, <1>5, <1>6, ConcatProperties
  <1>8. ASSUME NEW k \in 1..(n + m) PROVE r[k] = pq[k]
    BY <1>1, <1>2, <1>5, <1>6, ConcatProperties
  <1>9. r[n + m + 1] = x
    BY <1>1, <1>2, <1>5, <1>6, ConcatProperties
  <1>10. ASSUME NEW k \in 1..m PROVE r[n + k] = q[k]
    <2>1. n + k \in 1..(n + m)
      OBVIOUS
    <2> QED BY <2>1, <1>4, <1>8
  <1>11. \A k \in 1..n : r[k] = p[k]
    BY <1>3, <1>8
  <1> QED BY <1>7, <1>9, <1>10, <1>11

\* The waypoints along a route.
LEMMA LegsType ==
  ASSUME NEW route \in Route
  PROVE  /\ Legs(route) \in Seq(Follow \cup Inspect) /\ Len(Legs(route)) = Len(route)
         /\ \A k \in 1..Len(route) : /\ Legs(route)[k].role = "route"
                                     /\ Legs(route)[k].edge = route[k]
  <1>1. PICK m \in Nat : m = Len(route)
    BY DEF Route
  <1>2. DOMAIN route = 1..m /\ \A k \in 1..m : route[k] \in Edge
    BY <1>1 DEF Route
  <1>3. Legs(route) = [k \in 1..m |-> [role |-> "route", edge |-> route[k]]]
    BY <1>2 DEF Legs
  <1>4. \A k \in 1..m : [role |-> "route", edge |-> route[k]] \in Follow \cup Inspect
    BY <1>2 DEF Follow
  <1>5. PICK S : S = Follow \cup Inspect
    OBVIOUS
  <1>6. Legs(route) \in [1..m -> S]
    BY <1>3, <1>4, <1>5
  <1>7. Legs(route) \in Seq(S) /\ Len(Legs(route)) = m
    BY ONLY <1>6, m \in Nat
  <1> QED BY <1>1, <1>3, <1>5, <1>7

\* The plan with the leg of a candidate, and with a fallback.
WithLeg(c) ==
    plan \o Legs(c.route) \o <<[role |-> "inspection", item |-> c.item]>>
WithFallback(i) == Append(plan, [role |-> "fallback", item |-> i])

\* The plan of n waypoints, longer by the leg of a candidate with m edges.
LegAdded(longer, c, n, m) ==
    /\ DOMAIN plan = 1..n /\ DOMAIN longer = 1..(n + m + 1) /\ Len(longer) = n + m + 1
    /\ \A k \in 1..n : longer[k] = plan[k]
    /\ \A k \in 1..m : longer[n + k].role = "route" /\ longer[n + k].edge = c.route[k]
    /\ longer[n + m + 1].role = "inspection" /\ longer[n + m + 1].item = c.item

\* How the plan grows when a leg is added.
LEMMA AddLeg ==
  ASSUME TypeOK, TriedInv, NEW c \in candidates,
         NEW longer, longer = WithLeg(c),
         NEW n \in Nat, n = Len(plan), NEW m \in Nat, m = Len(c.route)
  PROVE  LegAdded(longer, c, n, m)
  <1> DEFINE legs == Legs(c.route)
             last == [role |-> "inspection", item |-> c.item]
  <1>1. plan \in Seq(Follow \cup Inspect) /\ c.route \in Route
    BY CandidateType DEF TypeOK
  <1>2. n \in Nat /\ m \in Nat /\ DOMAIN plan = 1..n
    BY <1>1 DEF Route
  <1>6. last \in Follow \cup Inspect
    BY CandidateType DEF Inspect
  <1>7. longer = plan \o legs \o <<last>>
    BY DEF WithLeg
  <1>8. /\ legs \in Seq(Follow \cup Inspect) /\ Len(legs) = m
        /\ \A k \in 1..m : legs[k].role = "route" /\ legs[k].edge = c.route[k]
    BY <1>1, LegsType
  <1> HIDE DEF legs, last
  <1>10. /\ DOMAIN longer = 1..(n + m + 1) /\ Len(longer) = n + m + 1
         /\ \A k \in 1..n : longer[k] = plan[k]
         /\ \A k \in 1..m : longer[n + k] = legs[k]
         /\ longer[n + m + 1] = last
    <2>1. PICK S : S = Follow \cup Inspect
      OBVIOUS
    <2>2. plan \in Seq(S) /\ legs \in Seq(S) /\ last \in S
      BY <1>1, <1>6, <1>8, <2>1
    <2>3. PICK p, q, x, r : p = plan /\ q = legs /\ x = last /\ r = longer
      OBVIOUS
    <2>4. /\ p \in Seq(S) /\ q \in Seq(S) /\ x \in S
          /\ n = Len(p) /\ m = Len(q) /\ r = p \o q \o <<x>>
      BY <1>7, <1>8, <2>2, <2>3
    <2>5. /\ DOMAIN r = 1..(n + m + 1) /\ Len(r) = n + m + 1
          /\ \A k \in 1..n : r[k] = p[k]
          /\ \A k \in 1..m : r[n + k] = q[k]
          /\ r[n + m + 1] = x
      BY ONLY <1>2, <2>4, ThreeInARow
    <2> QED BY <2>3, <2>5
  <1>11. last.role = "inspection" /\ last.item = c.item
    BY DEF last
  <1> QED BY <1>2, <1>8, <1>10, <1>11 DEF LegAdded

\* How it grows by a fallback.
LEMMA AddFallback ==
  ASSUME TypeOK, NEW i \in Inspection, NEW n \in Nat, n = Len(plan),
         NEW longer, longer = WithFallback(i)
  PROVE  /\ DOMAIN plan = 1..n /\ DOMAIN longer = 1..(n + 1)
         /\ Len(longer) = n + 1
         /\ \A k \in 1..n : longer[k] = plan[k]
         /\ longer[n + 1].role = "fallback" /\ longer[n + 1].item = i
  <1>1. plan \in Seq(Follow \cup Inspect)
    BY DEF TypeOK
  <1>2. [role |-> "fallback", item |-> i] \in Follow \cup Inspect
    BY DEF Inspect
  <1> QED BY <1>1, <1>2, AppendProperties DEF WithFallback

-----------------------------------------------------------------------------

\* A leg leads from the end of the plan to its inspection.
LEMMA PlanStep ==
  ASSUME TypeOK, WalkInv, TriedInv, PlanInv, FallbackInv, [Next]_vars
  PROVE  PlanInv'
  <1> USE DEF inputVars, searchVars, loopVars
  <1>1. CASE Keeps
    BY <1>1 DEF Keeps, PlanInv, PlanIsDemonstrated, Standing
  <1>2. CASE SelectNearest
    <2>1. PICK c \in candidates :
            /\ plan' = WithLeg(c)
            /\ current' = target[c.item]
      BY <1>2 DEF SelectNearest, ContinueFrom, WithLeg
    <2>2. UNCHANGED <<edges, start, target>>
      BY <1>2 DEF SelectNearest
    <2>3. PICK n \in Nat, m \in Nat : n = Len(plan) /\ m = Len(c.route)
      BY CandidateType DEF TypeOK, Route
    <2>4. /\ DOMAIN plan = 1..n /\ DOMAIN plan' = 1..(n + m + 1) /\ Len(plan') = n + m + 1
          /\ \A k \in 1..n : plan'[k] = plan[k]
          /\ \A k \in 1..m : plan'[n + k].role = "route" /\ plan'[n + k].edge = c.route[k]
          /\ plan'[n + m + 1].role = "inspection" /\ plan'[n + m + 1].item = c.item
      <3>1. LegAdded(plan', c, n, m)
        BY <2>1, <2>3, AddLeg
      <3> QED BY <3>1 DEF LegAdded
    <2>5. Walks(edges, c.route, current, target[c.item])
      BY DEF WalkInv
    <2>6. Standing(n) = current
      BY <2>3, CandidateType DEF PlanInv
    <2>7. ASSUME NEW k \in 0..n PROVE Standing(k)' = Standing(k)
      <3>1. k = 0 \/ k \in 1..n
        BY <2>4
      <3> QED BY <3>1, <2>2, <2>4 DEF Standing
    <2>8. ASSUME NEW k \in 1..m PROVE Standing(n + k)' = c.route[k].to
      <3>1. n + k # 0
        BY <2>4
      <3> QED BY <3>1, <2>4 DEF Standing
    <2>9. Standing(n + m)' = target[c.item]
      <3>1. CASE m = 0
        <4>1. n \in 0..n /\ n + m = n
          BY <2>4, <3>1
        <4>2. current = target[c.item]
          BY <2>3, <2>5, <3>1 DEF Walks
        <4> QED BY <4>1, <4>2, <2>6, <2>7
      <3>2. CASE m # 0
        <4>1. m \in 1..m
          BY <2>4, <3>2
        <4>2. c.route[m].to = target[c.item]
          BY <2>3, <2>5, <3>2 DEF Walks
        <4> QED BY <4>1, <4>2, <2>8
      <3> QED BY <3>1, <3>2
    <2>10. Standing(n + m + 1)' = current'
      <3>1. n + m + 1 # 0
        BY <2>4
      <3> QED BY <3>1, <2>1, <2>2, <2>4 DEF Standing
    <2> DEFINE Good(k) ==
          /\ plan'[k].role = "route" => /\ plan'[k].edge \in edges'
                                        /\ plan'[k].edge.from = Standing(k-1)'
          /\ plan'[k].role = "inspection" => target'[plan'[k].item] = Standing(k-1)'
    <2>11. ASSUME NEW k \in 1..n PROVE Good(k)
      <3>1. k - 1 \in 0..n
        BY <2>4
      <3>2. Standing(k-1)' = Standing(k-1)
        BY <3>1, <2>7
      <3>3. /\ plan[k].role = "route" => /\ plan[k].edge \in edges
                                         /\ plan[k].edge.from = Standing(k-1)
            /\ plan[k].role = "inspection" => target[plan[k].item] = Standing(k-1)
        BY <2>4 DEF PlanInv, PlanIsDemonstrated
      <3> QED BY <3>2, <3>3, <2>2, <2>4
    <2>12. ASSUME NEW k \in 1..m PROVE Good(n + k)
      <3>1. c.route[k] \in edges /\ c.route[k].from = IF k = 1 THEN current ELSE c.route[k-1].to
        BY <2>3, <2>5 DEF Walks
      <3>2. plan'[n + k].role = "route" /\ plan'[n + k].edge = c.route[k]
        BY <2>4
      <3>3. Standing((n + k) - 1)' = c.route[k].from
        <4>1. CASE k = 1
          <5>1. (n + k) - 1 = n /\ n \in 0..n
            BY <4>1, <2>4
          <5> QED BY <4>1, <5>1, <3>1, <2>6, <2>7
        <4>2. CASE k # 1
          <5>1. (n + k) - 1 = n + (k - 1) /\ k - 1 \in 1..m
            BY <4>2, <2>4
          <5> QED BY <4>2, <5>1, <3>1, <2>8
        <4> QED BY <4>1, <4>2
      <3> QED BY <3>1, <3>2, <3>3, <2>2
    <2>13. Good(n + m + 1)
      <3>1. (n + m + 1) - 1 = n + m
        BY <2>4
      <3> QED BY <3>1, <2>2, <2>4, <2>9
    <2>14. ASSUME NEW k \in 1..(n + m + 1) PROVE Good(k)
      <3>1. CASE k \in 1..n
        BY <3>1, <2>11
      <3>2. CASE k \in (n + 1)..(n + m)
        <4>1. k - n \in 1..m /\ n + (k - n) = k
          BY <3>2, <2>4
        <4> QED BY <4>1, <2>12
      <3>3. CASE k = n + m + 1
        BY <3>3, <2>13
      <3> QED BY <3>1, <3>2, <3>3, <2>4
    <2>15. PlanIsDemonstrated'
      BY <2>4, <2>14 DEF PlanIsDemonstrated
    <2> QED BY <2>3, <2>4, <2>10, <2>15 DEF PlanInv
  <1>3. CASE AppendFallback
    <2>1. PICK i \in fallback : plan' = WithFallback(i)
      BY <1>3 DEF AppendFallback, WithFallback
    <2>2. UNCHANGED <<edges, start, target, remaining>> /\ remaining = {}
      BY <1>3 DEF AppendFallback
    <2>3. PICK n \in Nat : n = Len(plan)
      BY DEF TypeOK
    <2>4. /\ DOMAIN plan = 1..n /\ DOMAIN plan' = 1..(n + 1)
          /\ \A k \in 1..n : plan'[k] = plan[k]
          /\ plan'[n + 1].role = "fallback" /\ plan'[n + 1].item = i
      <3>1. i \in Inspection
        BY DEF TypeOK
      <3> QED BY <3>1, <2>1, <2>3, AddFallback
    <2>5. ASSUME NEW k \in 0..n PROVE Standing(k)' = Standing(k)
      <3>1. k = 0 \/ k \in 1..n
        BY <2>4
      <3> QED BY <3>1, <2>2, <2>4 DEF Standing
    <2>6. ASSUME NEW k \in 1..(n + 1)
          PROVE  /\ plan'[k].role = "route" => /\ plan'[k].edge \in edges'
                                               /\ plan'[k].edge.from = Standing(k-1)'
                 /\ plan'[k].role = "inspection" => target'[plan'[k].item] = Standing(k-1)'
      <3>1. CASE k \in 1..n
        <4>1. k - 1 \in 0..n
          BY <3>1, <2>4
        <4> QED BY <3>1, <4>1, <2>2, <2>4, <2>5 DEF PlanInv, PlanIsDemonstrated
      <3>2. CASE k = n + 1
        BY <3>2, <2>4
      <3> QED BY <3>1, <3>2, <2>4
    <2> QED BY <2>2, <2>4, <2>6 DEF PlanInv, PlanIsDemonstrated
  <1> QED BY <1>1, <1>2, <1>3, OtherStep

\* What a step that chooses a candidate does to the plan.
LEMMA Selected ==
  ASSUME TypeOK, TriedInv, SelectNearest
  PROVE  \E c \in candidates, n \in Nat, m \in Nat :
            /\ LegAdded(plan', c, n, m)
            /\ c.item \in remaining /\ c.item \in Inspection
            /\ remaining' = remaining \ {c.item} /\ fallback' = fallback
  <1>1. PICK c \in candidates :
          plan' = WithLeg(c) /\ remaining' = remaining \ {c.item}
    BY DEF SelectNearest, Without, WithLeg
  <1>2. PICK n \in Nat, m \in Nat : n = Len(plan) /\ m = Len(c.route)
    BY CandidateType DEF TypeOK, Route
  <1>3. LegAdded(plan', c, n, m)
    BY <1>1, <1>2, AddLeg
  <1> QED BY <1>1, <1>3, CandidateType DEF SelectNearest

\* What a step that appends a fallback does to it.
LEMMA FellBack ==
  ASSUME TypeOK, AppendFallback
  PROVE  \E i \in fallback, n \in Nat :
            /\ DOMAIN plan = 1..n /\ DOMAIN plan' = 1..(n + 1)
            /\ \A k \in 1..n : plan'[k] = plan[k]
            /\ plan'[n + 1].role = "fallback" /\ plan'[n + 1].item = i
            /\ i \in Inspection /\ remaining = {} /\ remaining' = remaining
            /\ fallback' = fallback \ {i}
  <1>1. PICK i \in fallback : plan' = WithFallback(i) /\ fallback' = fallback \ {i}
    BY DEF AppendFallback, WithFallback
  <1>2. PICK n \in Nat : n = Len(plan)
    BY DEF TypeOK
  <1>3. i \in Inspection
    BY DEF TypeOK
  <1>4. /\ DOMAIN plan = 1..n /\ DOMAIN plan' = 1..(n + 1)
        /\ \A k \in 1..n : plan'[k] = plan[k]
        /\ plan'[n + 1].role = "fallback" /\ plan'[n + 1].item = i
    BY <1>1, <1>2, <1>3, AddFallback
  <1> QED BY <1>1, <1>3, <1>4 DEF AppendFallback

\* An inspection enters the plan when it leaves the list of those to do.
LEMMA VisitStep ==
  ASSUME TypeOK, TriedInv, VisitInv, [Next]_vars
  PROVE  VisitInv'
  <1>1. CASE Keeps
    BY <1>1 DEF Keeps, VisitInv, Visits
  <1>2. CASE SelectNearest
    <2>1. PICK c \in candidates, n \in Nat, m \in Nat :
            /\ LegAdded(plan', c, n, m)
            /\ c.item \in remaining /\ c.item \in Inspection
            /\ remaining' = remaining \ {c.item} /\ fallback' = fallback
      BY <1>2, Selected
    <2> DEFINE last == n + m + 1
    <2>2. /\ DOMAIN plan = 1..n /\ DOMAIN plan' = 1..last
          /\ \A k \in 1..n : plan'[k] = plan[k]
          /\ \A k \in 1..m : plan'[n + k].role = "route"
          /\ plan'[last].role = "inspection" /\ plan'[last].item = c.item
      BY <2>1 DEF LegAdded
    <2>3. last \in 1..last /\ last \notin 1..n /\ 1..n \subseteq 1..last
      OBVIOUS
    <2>4. ASSUME NEW k \in 1..last PROVE k \in 1..n \/ plan'[k].role = "route" \/ k = last
      <3>1. CASE k \in (n + 1)..(n + m)
        <4>1. k - n \in 1..m /\ n + (k - n) = k
          BY <3>1
        <4> QED BY <4>1, <2>2
      <3> QED BY <3>1
    <2> HIDE DEF last
    <2>5. ASSUME NEW k \in 1..last, NEW i \in Inspection
          PROVE  Visits(k, i)' <=> \/ k \in 1..n /\ Visits(k, i)
                                   \/ k = last /\ i = c.item
      BY <2>2, <2>3, <2>4 DEF Visits
    <2>6. \A k \in 1..n : ~Visits(k, c.item)
      BY <2>1, <2>2 DEF VisitInv
    <2>7. ASSUME NEW i \in Inspection
          PROVE  (\E k \in DOMAIN plan' : Visits(k, i)') <=> i \notin remaining' \cup fallback'
      <3>1. (\E k \in 1..n : Visits(k, i)) <=> i \notin remaining \cup fallback
        BY <2>2 DEF VisitInv
      <3>2. (\E k \in 1..last : Visits(k, i)') <=> (\E k \in 1..n : Visits(k, i)) \/ i = c.item
        BY <2>3, <2>5
      <3>3. i \notin remaining' \cup fallback' <=> i \notin remaining \cup fallback \/ i = c.item
        BY <2>1 DEF VisitInv
      <3> QED BY <3>1, <3>2, <3>3, <2>2
    <2>8. ASSUME NEW i \in Inspection, NEW j \in DOMAIN plan', NEW k \in DOMAIN plan',
                 Visits(j, i)', Visits(k, i)'
          PROVE  j = k
      <3>1. \/ j \in 1..n /\ Visits(j, i)
            \/ j = last /\ i = c.item
        BY <2>2, <2>5, <2>8
      <3>2. \/ k \in 1..n /\ Visits(k, i)
            \/ k = last /\ i = c.item
        BY <2>2, <2>5, <2>8
      <3> QED BY <3>1, <3>2, <2>2, <2>6 DEF VisitInv
    <2>9. fallback' \cap remaining' = {}
      BY <2>1 DEF VisitInv
    <2> QED BY <2>7, <2>8, <2>9 DEF VisitInv
  <1>3. CASE AppendFallback
    <2>1. PICK f \in fallback, n \in Nat :
            /\ DOMAIN plan = 1..n /\ DOMAIN plan' = 1..(n + 1)
            /\ \A k \in 1..n : plan'[k] = plan[k]
            /\ plan'[n + 1].role = "fallback" /\ plan'[n + 1].item = f
            /\ f \in Inspection /\ remaining = {} /\ remaining' = remaining
            /\ fallback' = fallback \ {f}
      BY <1>3, FellBack
    <2> DEFINE last == n + 1
    <2>2. last \in 1..last /\ last \notin 1..n /\ 1..n \subseteq 1..last
          /\ \A k \in 1..last : k \in 1..n \/ k = last
      OBVIOUS
    <2>3. DOMAIN plan' = 1..last /\ plan'[last].role = "fallback" /\ plan'[last].item = f
      BY <2>1
    <2> HIDE DEF last
    <2>4. ASSUME NEW k \in 1..last, NEW i \in Inspection
          PROVE  Visits(k, i)' <=> \/ k \in 1..n /\ Visits(k, i)
                                   \/ k = last /\ i = f
      BY <2>1, <2>2, <2>3 DEF Visits
    <2>5. \A k \in 1..n : ~Visits(k, f)
      BY <2>1 DEF VisitInv
    <2>6. ASSUME NEW i \in Inspection
          PROVE  (\E k \in DOMAIN plan' : Visits(k, i)') <=> i \notin remaining' \cup fallback'
      <3>1. (\E k \in 1..n : Visits(k, i)) <=> i \notin remaining \cup fallback
        BY <2>1 DEF VisitInv
      <3>2. (\E k \in 1..last : Visits(k, i)') <=> (\E k \in 1..n : Visits(k, i)) \/ i = f
        BY <2>2, <2>4
      <3>3. i \notin remaining' \cup fallback' <=> i \notin remaining \cup fallback \/ i = f
        BY <2>1
      <3> QED BY <3>1, <3>2, <3>3, <2>3
    <2>7. ASSUME NEW i \in Inspection, NEW j \in DOMAIN plan', NEW k \in DOMAIN plan',
                 Visits(j, i)', Visits(k, i)'
          PROVE  j = k
      <3>1. \/ j \in 1..n /\ Visits(j, i)
            \/ j = last /\ i = f
        BY <2>3, <2>4, <2>7
      <3>2. \/ k \in 1..n /\ Visits(k, i)
            \/ k = last /\ i = f
        BY <2>3, <2>4, <2>7
      <3> QED BY <3>1, <3>2, <2>1, <2>5 DEF VisitInv
    <2>8. fallback' \cap remaining' = {}
      BY <2>1 DEF VisitInv
    <2> QED BY <2>6, <2>7, <2>8 DEF VisitInv
  <1> QED BY <1>1, <1>2, <1>3, OtherStep

\* The planner returns when nothing is left to do.
LEMMA ReturnStep ==
  ASSUME FallbackInv, [Next]_vars
  PROVE  pc' = "done" => remaining' = {} /\ fallback' = {}
  BY DEF FallbackInv, Next, vars, inputVars, searchVars, loopVars, BeginSearch, SkipStale,
         Reach, Expand, Relax, NoRoute, SelectNearest, DeadEnd, AppendFallback, Return,
         Finished, Pops

\* Fallbacks stay last.
LEMMA FallbackStep ==
  ASSUME TypeOK, TriedInv, FallbackInv, [Next]_vars
  PROVE  FallbackInv'
  <1> SUFFICES /\ \A k \in DOMAIN plan' : plan'[k].role = "fallback" => remaining' = {}
               /\ \A j, k \in DOMAIN plan' :
                     plan'[j].role = "fallback" /\ j < k => plan'[k].role = "fallback"
    BY ReturnStep DEF FallbackInv
  <1>1. CASE Keeps
    BY <1>1 DEF Keeps, FallbackInv
  <1>2. CASE SelectNearest
    <2>1. PICK c \in candidates, n \in Nat, m \in Nat :
            LegAdded(plan', c, n, m) /\ c.item \in remaining
      BY <1>2, Selected
    <2>2. /\ DOMAIN plan = 1..n /\ DOMAIN plan' = 1..(n + m + 1)
          /\ \A k \in 1..n : plan'[k] = plan[k]
          /\ \A k \in 1..m : plan'[n + k].role = "route"
          /\ plan'[n + m + 1].role = "inspection"
      BY <2>1 DEF LegAdded
    <2>3. ASSUME NEW k \in 1..(n + m + 1) PROVE plan'[k].role # "fallback"
      <3>1. CASE k \in 1..n
        BY <3>1, <2>1, <2>2 DEF FallbackInv
      <3>2. CASE k \in (n + 1)..(n + m)
        <4>1. k - n \in 1..m /\ n + (k - n) = k
          BY <3>2
        <4>2. plan'[k].role = "route"
          BY <4>1, <2>2
        <4> QED BY <4>2
      <3>3. CASE k = n + m + 1
        BY <3>3, <2>2
      <3> QED BY <3>1, <3>2, <3>3
    <2> QED BY <2>2, <2>3
  <1>3. CASE AppendFallback
    <2>1. PICK i \in fallback, n \in Nat :
            /\ DOMAIN plan = 1..n /\ DOMAIN plan' = 1..(n + 1)
            /\ \A k \in 1..n : plan'[k] = plan[k]
            /\ plan'[n + 1].role = "fallback"
            /\ remaining = {} /\ remaining' = remaining
      BY <1>3, FellBack
    <2>2. ASSUME NEW j \in 1..(n + 1), NEW k \in 1..(n + 1),
                 plan'[j].role = "fallback", j < k
          PROVE  plan'[k].role = "fallback"
      <3>1. j \in 1..n /\ (k \in 1..n \/ k = n + 1)
        BY <2>2
      <3>2. plan[j].role = "fallback"
        BY <3>1, <2>1, <2>2
      <3> QED BY <3>1, <3>2, <2>1, <2>2 DEF FallbackInv
    <2> QED BY <2>1, <2>2
  <1> QED BY <1>1, <1>2, <1>3, OtherStep

-----------------------------------------------------------------------------
(* The search is Dijkstra's.  What is said of routes of every length is    *)
(* shown at the least place where it would fail: no induction theorem of   *)
(* the library can be cited, but that such a place exists can.             *)

\* Every set of numbers up to n has a least one.
LEMMA LeastNumber ==
  ASSUME NEW n \in Nat, NEW S, S \subseteq 0..n, S # {}
  PROVE  \E k \in S : \A j \in S : k <= j
  <1> DEFINE Below(k) == 0..(k - 1)
             T == {Below(k) : k \in S}
  <1>1. IsWellFoundedOn(StrictSubsetOrdering(0..n), FiniteSubsetsOf(0..n))
    BY FS_StrictSubsetOrderingWellFounded
  <1>2. \A k \in S : k \in Nat /\ k <= n /\ Below(k) \subseteq 0..n /\ IsFiniteSet(Below(k))
    BY FS_Interval
  <1>3. T \subseteq FiniteSubsetsOf(0..n) /\ T # {}
    BY <1>2 DEF FiniteSubsetsOf
  <1>4. PICK x \in T : \A y \in T : <<y, x>> \notin StrictSubsetOrdering(0..n)
    BY <1>1, <1>3, WFMin
  <1>5. PICK k \in S : x = Below(k)
    BY <1>4
  <1> SUFFICES ASSUME NEW j \in S, j < k PROVE FALSE
    BY <1>2
  <1>6. Below(j) \subseteq Below(k) /\ Below(j) # Below(k)
    <2>1. j \in Below(k) /\ j \notin Below(j)
      BY <1>2
    <2> QED BY <1>2, <2>1
  <1>7. <<Below(j), Below(k)>> \in StrictSubsetOrdering(0..n)
    BY <1>2, <1>6 DEF StrictSubsetOrdering
  <1> QED BY <1>4, <1>5, <1>7

\* f holds what the first edges of a route cost, up to the n-th.
TotalsUpTo(n, route, f) ==
    f = [k \in 0..n |-> IF k = 0 THEN 0 ELSE f[k-1] + route[k].weight]

LEMMA TotalsExist ==
  ASSUME NEW route \in Route, NEW n \in 0..Len(route)
  PROVE  \E f : TotalsUpTo(n, route, f)
  <1> DEFINE T == {k \in 0..Len(route) : ~\E f : TotalsUpTo(k, route, f)}
  <1>1. Len(route) \in Nat
    BY DEF Route
  <1> SUFFICES ASSUME T # {} PROVE FALSE
    OBVIOUS
  <1>2. PICK k \in T : \A j \in T : k <= j
    BY <1>1, LeastNumber
  <1>3. k # 0
    <2>1. TotalsUpTo(0, route, [j \in 0..0 |-> 0])
      BY DEF TotalsUpTo
    <2> QED BY <1>2, <2>1
  <1>4. k - 1 \in 0..Len(route) /\ k - 1 \notin T /\ k \in Nat
    BY <1>1, <1>2, <1>3
  <1>5. PICK g : TotalsUpTo(k - 1, route, g)
    BY <1>4
  <1> DEFINE h == [j \in 0..k |-> IF j = k THEN g[k-1] + route[k].weight ELSE g[j]]
  <1>6. ASSUME NEW j \in 0..k
        PROVE  h[j] = IF j = 0 THEN 0 ELSE h[j-1] + route[j].weight
    <2>1. CASE j = k
      BY <1>3, <1>4, <2>1
    <2>2. CASE j # k
      <3>1. j \in 0..(k - 1) /\ h[j] = g[j]
        BY <1>4, <2>2
      <3>2. g[j] = IF j = 0 THEN 0 ELSE g[j-1] + route[j].weight
        BY <1>5, <3>1 DEF TotalsUpTo
      <3>3. j # 0 => h[j-1] = g[j-1]
        BY <1>4, <2>2
      <3> QED BY <3>1, <3>2, <3>3
    <2> QED BY <2>1, <2>2
  <1>7. h = [j \in 0..k |-> h[j]]
    OBVIOUS
  <1> HIDE DEF h
  <1>8. TotalsUpTo(k, route, h)
    BY <1>6, <1>7 DEF TotalsUpTo
  <1> QED BY <1>2, <1>8

\* What a route costs is the last of its totals.
LEMMA CostIsTotal ==
  ASSUME NEW route \in Route
  PROVE  \E f : /\ Cost(route) = f[Len(route)]
                /\ f[0] = 0
                /\ \A k \in 1..Len(route) : f[k] = f[k-1] + route[k].weight
                /\ \A k \in 0..Len(route) : f[k] \in Nat
  <1> DEFINE f == CHOOSE f : TotalsUpTo(Len(route), route, f)
  <1>1. Len(route) \in Nat /\ Len(route) \in 0..Len(route)
        /\ \A k \in 1..Len(route) : route[k].weight \in Nat
    <2>1. Len(route) \in Nat /\ \A k \in 1..Len(route) : route[k] \in Edge
      BY DEF Route
    <2> QED BY <2>1 DEF Edge
  <1>2. TotalsUpTo(Len(route), route, f)
    BY <1>1, TotalsExist
  <1>3. Cost(route) = f[Len(route)]
    BY DEF Cost, TotalsUpTo
  <1> HIDE DEF f
  <1>4. f[0] = 0 /\ \A k \in 1..Len(route) : f[k] = f[k-1] + route[k].weight
    <2>1. 0 \in 0..Len(route) /\ \A k \in 1..Len(route) : k \in 0..Len(route) /\ k # 0
      BY <1>1
    <2> QED BY <1>2, <2>1 DEF TotalsUpTo
  <1>5. \A k \in 0..Len(route) : f[k] \in Nat
    <2> DEFINE T == {k \in 0..Len(route) : f[k] \notin Nat}
    <2> SUFFICES ASSUME T # {} PROVE FALSE
      OBVIOUS
    <2>1. PICK k \in T : \A j \in T : k <= j
      BY <1>1, LeastNumber
    <2>2. k # 0 /\ k - 1 \in 0..Len(route) /\ k - 1 \notin T
      BY <1>1, <1>4, <2>1
    <2>3. k \in 1..Len(route) /\ f[k-1] \in Nat
      BY <1>1, <2>1, <2>2
    <2> QED BY <1>1, <1>4, <2>1, <2>3
  <1> QED BY <1>3, <1>4, <1>5

LEMMA EmptyCost == Cost(<<>>) = 0
  <1>1. <<>> \in Route /\ Len(<<>>) = 0
    BY DEF Route
  <1> QED BY <1>1, CostIsTotal

LEMMA AppendCost ==
  ASSUME NEW route \in Route, NEW edge \in Edge
  PROVE  Cost(Append(route, edge)) = Cost(route) + edge.weight
  <1> DEFINE longer == Append(route, edge)
             n == Len(route)
  <1>1. longer \in Route /\ n \in Nat /\ Len(longer) = n + 1 /\ longer[n + 1] = edge
        /\ \A k \in 1..n : longer[k] = route[k]
    BY DEF Route
  <1> HIDE DEF longer
  <1>2. PICK f : /\ Cost(route) = f[n] /\ f[0] = 0
                 /\ \A k \in 1..n : f[k] = f[k-1] + route[k].weight
    BY CostIsTotal
  <1>3. PICK g : /\ Cost(longer) = g[n + 1] /\ g[0] = 0
                 /\ \A k \in 1..(n + 1) : g[k] = g[k-1] + longer[k].weight
    BY <1>1, CostIsTotal
  <1>4. f[n] = g[n]
    <2> DEFINE T == {k \in 0..n : f[k] # g[k]}
    <2> SUFFICES ASSUME T # {} PROVE FALSE
      BY <1>1
    <2>1. PICK k \in T : \A j \in T : k <= j
      BY <1>1, LeastNumber
    <2>2. k # 0 /\ k - 1 \in 0..n /\ k - 1 \notin T
      BY <1>1, <1>2, <1>3, <2>1
    <2>3. k \in 1..n /\ k \in 1..(n + 1) /\ f[k-1] = g[k-1]
      BY <1>1, <2>1, <2>2
    <2> QED BY <1>1, <1>2, <1>3, <2>1, <2>3
  <1>5. n + 1 \in 1..(n + 1) /\ (n + 1) - 1 = n
    BY <1>1
  <1>6. Cost(longer) = Cost(route) + edge.weight
    BY <1>1, <1>2, <1>3, <1>4, <1>5
  <1> QED BY <1>6 DEF longer

-----------------------------------------------------------------------------
\* An entry of the queue says what the best known way to n costs.
Open(n) == \E e \in queue : e.at = n /\ e.cost = best[n]

\* The edges from n were looked at with what n costs now.
Relaxed(n) ==
    \A edge \in Adjacency(n) \ outgoing :
        edge.to \in DOMAIN best /\ best[edge.to] <= best[n] + edge.weight

\* The cost that goes with a route is that of the route.
CostInv ==
    /\ pc = "search" => head.cost = Cost(head.route) /\ \A e \in queue : e.cost = Cost(e.route)
    /\ \A c \in candidates : c.cost = Cost(c.route)

\* A location that was reached is still in the queue, or its edges have been
\* followed, and then it is not where the search ends.
SettledInv ==
    pc = "search" =>
        /\ current \in DOMAIN best /\ best[current] = 0
        /\ \A e \in queue : e.at \in DOMAIN best /\ best[e.at] <= e.cost
        /\ outgoing # {} => head.at \in DOMAIN best /\ best[head.at] = head.cost
        /\ \A n \in DOMAIN best : Open(n) \/ (n # target[item] /\ Relaxed(n))

\* The inspections that have been searched for to the end.
Tried == IF pc = "search" THEN (remaining \ untried) \ {item} ELSE remaining \ untried

\* No way is cheaper than a candidate; without one there is no way.
ShortestInv ==
    /\ \A c \in candidates : \A way \in Ways(current, target[c.item]) : c.cost <= Cost(way)
    /\ pc \in {"choose", "search"} =>
          \A i \in Tried : Ways(current, target[i]) # {} => \E c \in candidates : c.item = i

SearchInv == CostInv /\ SettledInv /\ ShortestInv

\* When a route has been followed to its end, its cost is not below the cost
\* of the way that was found, or of all that is still in the queue.
LEMMA WaysAreBounded ==
  ASSUME TypeOK, SettledInv, pc = "search", outgoing = {}, target[item] \in Location,
         NEW bound \in Nat, \A e \in queue : bound <= e.cost,
         NEW way \in Ways(current, target[item])
  PROVE  /\ Cost(way) \in Nat
         /\ \/ bound <= Cost(way)
            \/ target[item] \in DOMAIN best /\ best[target[item]] <= Cost(way)
  <1> DEFINE n == Len(way)
             at(k) == IF k = 0 THEN current ELSE way[k].to
  <1>1. /\ way \in Route /\ n \in Nat /\ at(n) = target[item]
        /\ \A k \in 1..n : way[k] \in edges /\ way[k].from = at(k - 1)
    <2>1. CASE current = target[item]
      <3>1. way = <<>> /\ n = 0
        BY <2>1 DEF Ways
      <3> QED BY <2>1, <3>1 DEF Route
    <2>2. CASE current # target[item]
      <3>1. PICK m \in 1..(NumLocations - 1) :
              way \in [1..m -> edges] /\ Leads(way, current, target[item])
        BY <2>2 DEF Ways
      <3>2. m \in Nat /\ m >= 1 /\ way \in Seq(edges) /\ Len(way) = m
        BY <3>1, RoutingAssumption
      <3>3. way \in Route /\ \A k \in 1..m : way[k] \in edges
        BY <3>1, <3>2 DEF TypeOK, Route
      <3>4. /\ way[1].from = current /\ way[m].to = target[item]
            /\ \A k \in 1..(m - 1) : way[k].to = way[k+1].from
        BY <3>1, <3>2 DEF Leads
      <3>5. ASSUME NEW k \in 1..m PROVE way[k].from = at(k - 1)
        <4>1. CASE k = 1
          BY <3>4, <4>1
        <4>2. CASE k # 1
          <5>1. k - 1 \in 1..(m - 1) /\ (k - 1) + 1 = k /\ k - 1 # 0
            BY <3>2, <4>2
          <5>2. way[k - 1].to = way[k].from
            BY <3>4, <5>1
          <5> QED BY <5>1, <5>2
        <4> QED BY <4>1, <4>2
      <3> QED BY <3>2, <3>3, <3>4, <3>5
    <2> QED BY <2>1, <2>2
  <1>2. PICK f : /\ Cost(way) = f[n] /\ f[0] = 0
                 /\ \A k \in 1..n : f[k] = f[k-1] + way[k].weight
                 /\ \A k \in 0..n : f[k] \in Nat
    BY <1>1, CostIsTotal
  <1> DEFINE Bounded(k) == \/ bound <= f[k]
                           \/ at(k) \in DOMAIN best /\ best[at(k)] <= f[k]
             T == {k \in 0..n : ~Bounded(k)}
  <1>3. T = {}
    <2> SUFFICES ASSUME T # {} PROVE FALSE
      OBVIOUS
    <2>1. PICK k \in T : \A j \in T : k <= j
      BY <1>1, LeastNumber
    <2>2. k # 0
      <3>1. at(0) = current /\ current \in DOMAIN best /\ best[current] <= f[0]
        BY <1>2 DEF SettledInv
      <3> QED BY <2>1, <3>1
    <2>3. k \in 1..n /\ k - 1 \in 0..n /\ k - 1 \notin T
      BY <1>1, <2>1, <2>2
    <2>4. Bounded(k - 1)
      BY <2>3
    <2>5. way[k] \in edges /\ way[k] \in Edge /\ way[k].from = at(k - 1) /\ at(k) = way[k].to
      BY <1>1, <2>2, <2>3 DEF TypeOK
    <2>6. f[k] = f[k-1] + way[k].weight /\ f[k-1] \in Nat /\ way[k].weight \in Nat
      BY <1>2, <2>3, <2>5 DEF Edge
    <2> HIDE DEF at
    <2>7. CASE bound <= f[k-1]
      <3>1. Bounded(k)
        BY <2>6, <2>7
      <3> QED BY <2>1, <3>1
    <2>8. CASE at(k-1) \in DOMAIN best /\ best[at(k-1)] <= f[k-1]
      <3>1. best[at(k-1)] \in Nat
        BY <2>8 DEF TypeOK
      <3>2. CASE Open(at(k-1))
        <4>1. bound <= best[at(k-1)]
          BY <3>2 DEF Open
        <4>2. Bounded(k)
          BY <2>6, <2>8, <3>1, <4>1
        <4> QED BY <2>1, <4>2
      <3>3. CASE Relaxed(at(k-1))
        <4>1. way[k] \in Adjacency(at(k-1)) \ outgoing
          BY <2>5 DEF Adjacency
        <4>2. at(k) \in DOMAIN best /\ best[at(k)] <= best[at(k-1)] + way[k].weight
          BY <2>5, <3>3, <4>1 DEF Relaxed
        <4>3. best[at(k)] \in Nat
          BY <4>2 DEF TypeOK
        <4>4. Bounded(k)
          BY <2>6, <2>8, <3>1, <4>2, <4>3
        <4> QED BY <2>1, <4>4
      <3> QED BY <2>8, <3>2, <3>3 DEF SettledInv
    <2> QED BY <2>4, <2>7, <2>8
  <1>4. n \in 0..n /\ Bounded(n)
    BY <1>1, <1>3
  <1> QED BY <1>1, <1>2, <1>4

-----------------------------------------------------------------------------

\* Routes in the heap, and candidates, carry their cost.
LEMMA CostStep ==
  ASSUME TypeOK, CostInv, [Next]_vars
  PROVE  CostInv'
  <1> USE DEF inputVars, searchVars, loopVars
  <1>1. CASE BeginSearch
    <2>1. queue' = {Root} /\ head' = Root /\ candidates' = candidates
      BY <1>1 DEF BeginSearch
    <2>2. Root.cost = Cost(Root.route)
      BY EmptyCost DEF Root
    <2> QED BY <2>1, <2>2 DEF CostInv
  <1>2. CASE SkipStale
    BY <1>2 DEF SkipStale, Pops, CostInv
  <1>3. CASE Reach
    <2>1. PICK e \in queue :
            candidates' = candidates \cup
              {[cost |-> e.cost, item |-> item, route |-> e.route]}
      BY <1>3 DEF Reach
    <2>2. e.cost = Cost(e.route) /\ pc' = "choose"
      BY <1>3 DEF CostInv, Reach, Pops
    <2> QED BY <2>1, <2>2 DEF CostInv
  <1>4. CASE Expand
    BY <1>4 DEF Expand, Pops, CostInv
  <1>5. CASE Relax
    <2>1. PICK edge \in outgoing :
            queue' \in {queue, queue \cup
               {[cost |-> head.cost + edge.weight, serial |-> serial',
                 at |-> edge.to, route |-> Append(head.route, edge)]}}
      BY <1>5 DEF Relax
    <2>2. edge \in Edge /\ head.route \in Route
      BY DEF TypeOK, Entry
    <2>3. Cost(Append(head.route, edge)) = Cost(head.route) + edge.weight
      BY <2>2, AppendCost
    <2>4. /\ pc = "search" /\ pc' = pc /\ head' = head /\ candidates' = candidates
          /\ head.cost = Cost(head.route)
      BY <1>5 DEF Relax, CostInv
    <2>5. ASSUME NEW e \in queue' PROVE e.cost = Cost(e.route)
      <3> DEFINE new == [cost |-> head.cost + edge.weight, serial |-> serial',
                         at |-> edge.to, route |-> Append(head.route, edge)]
      <3>1. new.cost = head.cost + edge.weight /\ new.route = Append(head.route, edge)
        OBVIOUS
      <3>2. e \in queue \/ e = new
        BY <2>1, <2>5
      <3> HIDE DEF new
      <3>3. new.cost = Cost(new.route)
        BY <2>3, <2>4, <3>1
      <3> QED BY <2>4, <3>2, <3>3 DEF CostInv
    <2> QED BY <2>4, <2>5 DEF CostInv
  <1>6. CASE NoRoute
    BY <1>6 DEF NoRoute, CostInv
  <1>7. CASE SelectNearest
    BY <1>7 DEF SelectNearest, CostInv
  <1>8. CASE DeadEnd
    BY <1>8 DEF DeadEnd, CostInv
  <1>9. CASE AppendFallback
    BY <1>9 DEF AppendFallback, CostInv
  <1>10. CASE Return
    BY <1>10 DEF Return, CostInv
  <1>11. CASE Finished \/ UNCHANGED vars
    BY <1>11 DEF Finished, vars, CostInv
  <1> QED BY <1>1, <1>2, <1>3, <1>4, <1>5, <1>6, <1>7, <1>8, <1>9, <1>10, <1>11
          DEF Next

\* A location leaves the queue only when its edges are followed.
LEMMA SettledStep ==
  ASSUME TypeOK, WalkInv, SettledInv, [Next]_vars
  PROVE  SettledInv'
  <1> USE DEF inputVars, searchVars, loopVars
  <1>1. CASE BeginSearch
    <2>1. /\ queue' = {Root} /\ outgoing' = {} /\ current' = current
          /\ best' = [n \in {current} |-> 0]
      BY <1>1 DEF BeginSearch
    <2>2. Root.at = current /\ Root.cost = 0
      BY DEF Root
    <2>3. Open(current)'
      BY <2>1, <2>2 DEF Open
    <2> QED BY <2>1, <2>2, <2>3 DEF SettledInv
  <1>2. CASE SkipStale
    <2>1. PICK e \in queue : Pops(e) /\ Stale(e)
      BY <1>2 DEF SkipStale
    <2>2. /\ pc = "search" /\ queue' = queue \ {e}
          /\ UNCHANGED <<current, best, outgoing, head, target, item, edges>>
      BY <1>2, <2>1 DEF SkipStale, Pops
    <2>3. \A n \in DOMAIN best : Open(n) => Open(n)'
      <3> TAKE n \in DOMAIN best
      <3> HAVE Open(n)
      <3>1. PICK d \in queue : d.at = n /\ d.cost = best[n]
        BY DEF Open
      <3>2. d # e
        BY <2>1, <3>1 DEF Stale, TypeOK
      <3> QED BY <2>2, <3>1, <3>2 DEF Open
    <2>4. \A n \in DOMAIN best : Relaxed(n) => Relaxed(n)'
      BY <2>2 DEF Relaxed, Adjacency
    <2> QED BY <2>2, <2>3, <2>4 DEF SettledInv
  <1>3. CASE Expand
    <2>1. PICK e \in queue : /\ Pops(e) /\ ~Stale(e) /\ e.at # target[item]
                             /\ head' = e /\ outgoing' = Adjacency(e.at)
      BY <1>3 DEF Expand
    <2>2. /\ pc = "search" /\ queue' = queue \ {e} /\ outgoing = {}
          /\ UNCHANGED <<current, best, target, item, edges>>
      BY <1>3, <2>1 DEF Expand, Pops
    <2>3. e.at \in DOMAIN best /\ best[e.at] = e.cost
      <3>1. e.at \in DOMAIN best /\ best[e.at] <= e.cost /\ e.cost \in Nat /\ best[e.at] \in Nat
        BY <2>2 DEF SettledInv, TypeOK, Entry
      <3> QED BY <2>1, <3>1 DEF Stale
    <2>4. Relaxed(e.at)'
      BY <2>1, <2>2 DEF Relaxed, Adjacency
    <2>5. \A n \in DOMAIN best : n # e.at /\ Open(n) => Open(n)'
      BY <2>2 DEF Open
    <2>6. \A n \in DOMAIN best : Relaxed(n) => Relaxed(n)'
      BY <2>2 DEF Relaxed, Adjacency
    <2> QED BY <2>1, <2>2, <2>3, <2>4, <2>5, <2>6 DEF SettledInv
  <1>4. CASE Relax
    <2>1. PICK edge \in outgoing :
            /\ outgoing' = outgoing \ {edge}
            /\ IF Improves(edge.to, head.cost + edge.weight)
               THEN /\ best' = [n \in DOMAIN best \cup {edge.to} |->
                                   IF n = edge.to THEN head.cost + edge.weight
                                   ELSE best[n]]
                    /\ serial' = serial + 1
                    /\ queue' = queue \cup
                           {[cost |-> head.cost + edge.weight, serial |-> serial',
                             at |-> edge.to, route |-> Append(head.route, edge)]}
               ELSE UNCHANGED <<best, serial, queue>>
      BY <1>4 DEF Relax
    <2> DEFINE cost == head.cost + edge.weight
    <2>2. /\ pc = "search" /\ edge \in edges /\ edge \in Edge /\ edge.from = head.at
          /\ head.at \in DOMAIN best /\ best[head.at] = head.cost
          /\ UNCHANGED <<pc, current, head, target, item, edges>>
      BY <1>4 DEF Relax, WalkInv, SettledInv, TypeOK
    <2>3. /\ head.cost \in Nat /\ edge.weight \in Nat /\ cost \in Nat /\ cost >= head.cost
          /\ \A n \in DOMAIN best : best[n] \in Nat
      BY <2>2 DEF TypeOK, Entry, Edge
    <2>4. \A n \in DOMAIN best : Relaxed(n) /\ n # head.at =>
             \A f \in Adjacency(n) \ outgoing' : f \in Adjacency(n) \ outgoing
      BY <2>1, <2>2 DEF Adjacency
    <2>5. CASE Improves(edge.to, cost)
      <3>1. /\ best' = [n \in DOMAIN best \cup {edge.to} |->
                           IF n = edge.to THEN cost ELSE best[n]]
            /\ queue' = queue \cup {[cost |-> cost, serial |-> serial', at |-> edge.to,
                                     route |-> Append(head.route, edge)]}
        BY <2>1, <2>5
      <3>2. /\ DOMAIN best' = DOMAIN best \cup {edge.to} /\ best'[edge.to] = cost
            /\ \A n \in DOMAIN best : n # edge.to => best'[n] = best[n]
            /\ \A n \in DOMAIN best : best'[n] <= best[n]
        BY <2>3, <2>5, <3>1 DEF Improves
      <3>3. edge.to # head.at /\ edge.to # current
        BY <2>2, <2>3, <2>5 DEF Improves, SettledInv
      <3> DEFINE new == [cost |-> cost, serial |-> serial', at |-> edge.to,
                         route |-> Append(head.route, edge)]
      <3>11. new.cost = cost /\ new.at = edge.to /\ queue' = queue \cup {new}
        BY <3>1
      <3> HIDE DEF new
      <3>4. Open(edge.to)'
        BY <3>2, <3>11 DEF Open
      <3>5. ASSUME NEW n \in DOMAIN best, n # edge.to
            PROVE  Open(n) => Open(n)'
        BY <3>1, <3>2, <3>5 DEF Open
      <3>6. ASSUME NEW n \in DOMAIN best, n # edge.to, Relaxed(n)
            PROVE  Relaxed(n)'
        <4>1. ASSUME NEW f \in Adjacency(n) \ outgoing'
              PROVE  f.to \in DOMAIN best' /\ best'[f.to] <= best'[n] + f.weight
          <5>1. f \in Edge /\ f.weight \in Nat /\ best'[n] = best[n]
            BY <3>2, <3>6, <4>1 DEF Adjacency, TypeOK, Edge
          <5>2. CASE f = edge
            BY <2>2, <2>3, <3>2, <4>1, <5>1, <5>2 DEF Adjacency
          <5>3. CASE f # edge
            <6>1. f.to \in DOMAIN best /\ best[f.to] <= best[n] + f.weight
              BY <2>1, <3>6, <4>1, <5>3 DEF Relaxed
            <6>2. best'[f.to] \in Nat /\ best[f.to] \in Nat /\ best'[f.to] <= best[f.to]
              BY <2>3, <3>2, <6>1
            <6> QED BY <2>3, <3>2, <5>1, <6>1, <6>2
          <5> QED BY <5>2, <5>3
        <4> QED BY <2>2, <4>1 DEF Relaxed, Adjacency
      <3>7. \A e \in queue' : e.at \in DOMAIN best' /\ best'[e.at] <= e.cost
        <4>1. ASSUME NEW e \in queue PROVE e.at \in DOMAIN best' /\ best'[e.at] <= e.cost
          <5>1. e.at \in DOMAIN best /\ best[e.at] <= e.cost /\ e.cost \in Nat
            BY <2>2 DEF SettledInv, TypeOK, Entry
          <5>2. best'[e.at] \in Nat /\ best'[e.at] <= best[e.at] /\ best[e.at] \in Nat
            BY <2>3, <3>2, <5>1
          <5> QED BY <3>2, <5>1, <5>2
        <4>2. new.at \in DOMAIN best' /\ best'[new.at] <= new.cost
          BY <2>3, <3>2, <3>11
        <4> QED BY <3>11, <4>1, <4>2
      <3>8. current' \in DOMAIN best' /\ best'[current'] = 0
        BY <2>2, <3>2, <3>3 DEF SettledInv
      <3>9. head'.at \in DOMAIN best' /\ best'[head'.at] = head'.cost
        BY <2>2, <3>2, <3>3
      <3>10. \A n \in DOMAIN best' : Open(n)' \/ (n # target'[item'] /\ Relaxed(n)')
        BY <2>2, <3>2, <3>4, <3>5, <3>6 DEF SettledInv
      <3> QED BY <3>7, <3>8, <3>9, <3>10 DEF SettledInv
    <2>6. CASE ~Improves(edge.to, cost)
      <3>1. UNCHANGED <<best, queue>> /\ edge.to \in DOMAIN best /\ best[edge.to] <= cost
        BY <2>1, <2>3, <2>6 DEF Improves
      <3>2. ASSUME NEW n \in DOMAIN best, Relaxed(n)
            PROVE  Relaxed(n)'
        <4>1. ASSUME NEW f \in Adjacency(n) \ outgoing'
              PROVE  f.to \in DOMAIN best /\ best[f.to] <= best[n] + f.weight
          <5>1. CASE f = edge
            BY <2>2, <3>1, <4>1, <5>1 DEF Adjacency
          <5>2. CASE f # edge
            BY <2>1, <3>2, <4>1, <5>2 DEF Relaxed
          <5> QED BY <5>1, <5>2
        <4> QED BY <2>2, <3>1, <4>1 DEF Relaxed, Adjacency
      <3>3. \A n \in DOMAIN best : Open(n) => Open(n)'
        BY <3>1 DEF Open
      <3> QED BY <2>2, <3>1, <3>2, <3>3 DEF SettledInv
    <2> QED BY <2>5, <2>6
  <1>5. CASE Reach \/ NoRoute
    BY <1>5 DEF Reach, NoRoute, SettledInv
  <1>6. CASE SelectNearest \/ DeadEnd \/ AppendFallback \/ Return
    BY <1>6 DEF SelectNearest, DeadEnd, AppendFallback, Return, SettledInv
  <1>7. CASE Finished \/ UNCHANGED vars
    BY <1>7 DEF Finished, vars, SettledInv, Open, Relaxed, Adjacency
  <1> QED BY <1>1, <1>2, <1>3, <1>4, <1>5, <1>6, <1>7 DEF Next

-----------------------------------------------------------------------------

\* No candidate of a finished search is beaten, and a search that found none
\* was for a place with no way to it.
LEMMA ShortestStep ==
  ASSUME TypeOK, TriedInv, SettledInv, ShortestInv, [Next]_vars
  PROVE  ShortestInv'
  <1> USE DEF inputVars, searchVars, loopVars
  <1> DEFINE Best(c) == \A way \in Ways(current, target[c.item]) : c.cost <= Cost(way)
             Found(i) == Ways(current, target[i]) # {} => \E c \in candidates : c.item = i
  <1>0. pc = "search" => item \in remaining /\ item \in Inspection /\ target[item] \in Location
    <2> SUFFICES ASSUME pc = "search"
                 PROVE  item \in remaining /\ item \in Inspection /\ target[item] \in Location
      OBVIOUS
    <2>1. item \in remaining /\ item \in Mapped
      BY DEF TypeOK, TriedInv
    <2> QED BY <2>1 DEF TypeOK, Mapped
  <1>1. CASE BeginSearch
    <2>1. PICK i \in untried : item' = i /\ untried' = untried \ {i}
      BY <1>1 DEF BeginSearch
    <2>2. /\ pc = "choose" /\ pc' = "search"
          /\ UNCHANGED <<edges, current, target, candidates, remaining>>
      BY <1>1 DEF BeginSearch
    <2>3. Tried' = Tried
      BY <2>1, <2>2 DEF Tried
    <2> QED BY <2>2, <2>3 DEF ShortestInv, Ways
  <1>2. CASE SkipStale \/ Expand \/ Relax
    <2>1. UNCHANGED <<pc, edges, current, target, candidates, remaining, untried, item>>
      BY <1>2 DEF SkipStale, Expand, Relax
    <2>2. Tried' = Tried
      BY <2>1 DEF Tried
    <2> QED BY <2>1, <2>2 DEF ShortestInv, Ways
  <1>3. CASE Reach
    <2>1. PICK e \in queue :
            /\ Pops(e) /\ ~Stale(e) /\ e.at = target[item]
            /\ candidates' = candidates \cup
                 {[cost |-> e.cost, item |-> item, route |-> e.route]}
      BY <1>3 DEF Reach
    <2>2. /\ pc = "search" /\ outgoing = {} /\ pc' = "choose"
          /\ UNCHANGED <<edges, current, target, remaining, untried, item>>
      BY <1>3, <2>1 DEF Reach, Pops
    <2> DEFINE new == [cost |-> e.cost, item |-> item, route |-> e.route]
    <2>3. new.cost = e.cost /\ new.item = item /\ candidates' = candidates \cup {new}
      BY <2>1
    <2> HIDE DEF new
    <2>4. e.cost \in Nat /\ \A d \in queue : e.cost <= d.cost
      BY <2>1 DEF TypeOK, Entry, Pops, Precedes
    <2>5. target[item] \in DOMAIN best => e.cost <= best[target[item]]
      BY <2>1, <2>4 DEF Stale, TypeOK
    <2>6. ASSUME NEW way \in Ways(current, target[item]) PROVE e.cost <= Cost(way)
      <3>1. /\ Cost(way) \in Nat
            /\ \/ e.cost <= Cost(way)
               \/ target[item] \in DOMAIN best /\ best[target[item]] <= Cost(way)
        BY <1>0, <2>2, <2>4, <2>6, WaysAreBounded
      <3>2. target[item] \in DOMAIN best => best[target[item]] \in Nat
        BY DEF TypeOK
      <3> QED BY <2>4, <2>5, <3>1, <3>2
    <2>7. \A c \in candidates' : Best(c)'
      <3>1. \A c \in candidates : Best(c)
        BY DEF ShortestInv
      <3>2. ASSUME NEW c \in candidates' PROVE Best(c)
        <4>1. CASE c \in candidates
          BY <3>1, <4>1
        <4>2. CASE c = new
          BY <2>3, <2>6, <4>2
        <4> QED BY <2>3, <4>1, <4>2
      <3>3. \A c \in candidates' : Best(c)' <=> Best(c)
        BY <2>2 DEF Ways
      <3> QED BY <3>2, <3>3
    <2>8. Tried' = Tried \cup {item}
      BY <1>0, <2>2 DEF Tried, TriedInv
    <2>9. \A i \in Tried' : Found(i)'
      <3>1. \A i \in Tried : Found(i)
        BY <2>2 DEF ShortestInv
      <3>2. \A i : Ways(current, target[i])' = Ways(current, target[i])
        BY <2>2 DEF Ways
      <3> QED BY <2>3, <2>8, <3>1, <3>2
    <2> QED BY <2>7, <2>9 DEF ShortestInv
  <1>4. CASE NoRoute
    <2>1. /\ pc = "search" /\ outgoing = {} /\ queue = {} /\ pc' = "choose"
          /\ UNCHANGED <<edges, current, target, candidates, remaining, untried, item>>
      BY <1>4 DEF NoRoute
    <2>2. target[item] \notin DOMAIN best
      BY <2>1 DEF SettledInv, Open
    <2>3. ASSUME NEW way \in Ways(current, target[item]) PROVE FALSE
      <3>1. Cost(way) \in Nat
        BY <1>0, <2>1, <2>3, WaysAreBounded
      <3>2. Cost(way) + 1 \in Nat /\ ~(Cost(way) + 1 <= Cost(way))
        BY <3>1
      <3> QED BY <1>0, <2>1, <2>2, <2>3, <3>2, WaysAreBounded
    <2>4. Tried' = Tried \cup {item}
      BY <1>0, <2>1 DEF Tried, TriedInv
    <2>5. /\ \A c \in candidates : Best(c)
          /\ \A i \in Tried \cup {item} : Found(i)
      BY <2>1, <2>3 DEF ShortestInv
    <2> QED BY <2>1, <2>4, <2>5 DEF ShortestInv, Ways
  <1>5. CASE SelectNearest
    <2>1. untried' = remaining' /\ candidates' = {} /\ pc' = "choose"
      BY <1>5 DEF SelectNearest
    <2>2. Tried' = {}
      BY <2>1 DEF Tried
    <2> QED BY <2>1, <2>2 DEF ShortestInv
  <1>6. CASE DeadEnd \/ Return
    <2>1. /\ UNCHANGED <<edges, current, target, candidates>>
          /\ pc' \notin {"choose", "search"}
      BY <1>6 DEF DeadEnd, Return
    <2> QED BY <2>1 DEF ShortestInv, Ways
  <1>7. CASE AppendFallback \/ Finished \/ UNCHANGED vars
    <2>1. UNCHANGED <<pc, edges, current, target, candidates, remaining, untried, item>>
      BY <1>7 DEF AppendFallback, Finished, vars
    <2>2. Tried' = Tried
      BY <2>1 DEF Tried
    <2> QED BY <2>1, <2>2 DEF ShortestInv, Ways
  <1> QED BY <1>1, <1>2, <1>3, <1>4, <1>5, <1>6, <1>7 DEF Next

LEMMA InitSearch == Init => SearchInv
  <1> SUFFICES ASSUME Init PROVE SearchInv
    OBVIOUS
  <1>1. /\ pc = "choose" /\ candidates = {} /\ untried = remaining
    BY DEF Init
  <1>2. Tried = {}
    BY <1>1 DEF Tried
  <1> QED BY <1>1, <1>2 DEF SearchInv, CostInv, SettledInv, ShortestInv

-----------------------------------------------------------------------------

\* The inductive invariant holds in every state.
THEOREM RoutingInvariance == Spec => []IInv
  <1>1. IInv /\ [Next]_vars => IInv'
    BY TypeStep, WalkStep, TriedStep, PlanStep, VisitStep, FallbackStep DEF IInv
  <1> QED BY InitIInv, <1>1, PTL DEF Spec

\* The planner's variables keep their types.
THEOREM RoutingTypeCorrect == Spec => []TypeOK
  <1>1. IInv => TypeOK
    BY DEF IInv
  <1> QED BY <1>1, RoutingInvariance, PTL

\* The plan uses demonstrated passages only, each from where the robot is,
\* and inspects a place where the robot has got to it.
THEOREM PlanFollowsDemonstrations == Spec => []PlanIsDemonstrated
  <1>1. IInv => PlanIsDemonstrated
    BY DEF IInv, PlanInv
  <1> QED BY <1>1, RoutingInvariance, PTL

\* A finished plan makes every inspection once, those without a place last.
THEOREM InspectedOnce == Spec => []EachInspectedOnce
  <1>1. IInv => EachInspectedOnce
    <2> SUFFICES ASSUME IInv, pc = "done" PROVE EachInspectedOnce
      BY DEF EachInspectedOnce
    <2>1. remaining = {} /\ fallback = {}
      BY DEF IInv, FallbackInv
    <2>2. ASSUME NEW i \in Inspection
          PROVE  Cardinality({k \in DOMAIN plan : plan[k].role # "route" /\ plan[k].item = i}) = 1
      <3>1. PICK k \in DOMAIN plan : Visits(k, i)
        BY <2>1 DEF IInv, VisitInv
      <3>2. \A j \in DOMAIN plan : Visits(j, i) => j = k
        BY <3>1 DEF IInv, VisitInv
      <3>3. {j \in DOMAIN plan : plan[j].role # "route" /\ plan[j].item = i} = {k}
        BY <3>1, <3>2 DEF Visits
      <3> QED BY <3>3, FS_Singleton
    <2>3. \A j, k \in DOMAIN plan :
             plan[j].role = "fallback" /\ j < k => plan[k].role = "fallback"
      BY DEF IInv, FallbackInv
    <2> QED BY <2>2, <2>3 DEF EachInspectedOnce
  <1> QED BY <1>1, RoutingInvariance, PTL
\* plan_topological_route returns a way that no other is cheaper than, and
\* raises only when there is none: the nearest inspection is the nearest.
THEOREM CandidatesShortest == Spec => []CandidatesAreShortest
  <1>1. Init => IInv /\ SearchInv
    BY InitIInv, InitSearch
  <1>2. IInv /\ SearchInv /\ [Next]_vars => (IInv /\ SearchInv)'
    BY TypeStep, WalkStep, TriedStep, PlanStep, VisitStep, FallbackStep,
       CostStep, SettledStep, ShortestStep DEF IInv, SearchInv
  <1>3. SearchInv => CandidatesAreShortest
    BY DEF SearchInv, CostInv, ShortestInv, Tried, CandidatesAreShortest
  <1> QED BY <1>1, <1>2, <1>3, PTL DEF Spec
=============================================================================
