---------------------------- MODULE SearchMission ----------------------------
(***************************************************************************)
(* From a resident's request to a mission that starts: the launcher        *)
(* (run_unitree_memory_guide.sh) runs memory_guide.py's `plan`, which      *)
(* reads the inventory (ItemMemory) and the landmark map (LandmarkScan)    *)
(* and writes two files, and then becomes the mission                      *)
(* (run_unitree_navila.py), which reads the two files back.  The files are *)
(* the same for every launcher; a mission can also be started on what an   *)
(* earlier launcher left (README: latest_waypoints.txt).                   *)
(*                                                                         *)
(* Files are small: the content arrives whole when they are closed, and in *)
(* between they are empty (Torn).  External: the query router.             *)
(***************************************************************************)
EXTENDS ItemMemory, LandmarkScan

CONSTANTS
    Launchers,
    MaxWaypoints,  \* --max-landmark-waypoints
    CatalogStops,  \* the number of search locations of the catalog
    NoPlan

VARIABLES
    stage,         \* where each launcher is
    seer,          \* --landmark-seer was given
    known,         \* the inventory in the memory of a plan command
    plan,          \* the plan that the command has made
    planFile,      \* latest_plan.json
    waypointFile,  \* latest_waypoints.txt
    lines,         \* the waypoints the mission has read
    targets,       \* the plan whose landmarks it looks for
    disturbed      \* history: another launcher wrote between the first write
                   \* of this one and its last read

searchVars == <<stage, seer, known, plan, planFile, waypointFile, lines, targets, disturbed>>
vars == <<memoryVars, scanVars, searchVars>>

\* A landmark step names the picture that shows the landmark, {} for none.
Step == [name : Names, picture : SUBSET (Nat \X Nat)]
Plans == [by : Launchers, count : Nat, steps : SUBSET Step]
WaypointLists == [by : Launchers, count : Nat]

ASSUME SearchAssumption ==
    /\ MaxWaypoints \in Nat \ {0} /\ CatalogStops \in Nat \ {0}
    /\ IsFiniteSet(Items)
    /\ {Absent, Torn, NoPlan} \cap (Plans \cup WaypointLists) = {}

SearchType ==
    /\ stage \in [Launchers -> {"idle", "reading", "planning", "writing", "half", "ending",
                                "load", "check", "running", "failed", "refused", "shown"}]
    /\ seer \in [Launchers -> BOOLEAN]
    /\ known \in [Launchers -> Inventories]
    /\ plan \in [Launchers -> Plans \cup {NoPlan}]
    /\ planFile \in Plans \cup {Absent, Torn}
    /\ waypointFile \in WaypointLists \cup {Absent, Torn}
    /\ lines \in [Launchers -> WaypointLists \cup {NoPlan}]
    /\ targets \in [Launchers -> Plans \cup {NoPlan}]
    /\ disturbed \in [Launchers -> BOOLEAN]

TypeOK == MemoryType /\ ScanType /\ SearchType

SearchInit ==
    /\ stage = [l \in Launchers |-> "idle"]
    /\ seer = [l \in Launchers |-> FALSE]
    /\ known = [l \in Launchers |-> Empty]
    /\ plan = [l \in Launchers |-> NoPlan]
    /\ planFile = Absent /\ waypointFile = Absent
    /\ lines = [l \in Launchers |-> NoPlan]
    /\ targets = [l \in Launchers |-> NoPlan]
    /\ disturbed = [l \in Launchers |-> FALSE]

Goes(l, to) == stage' = [stage EXCEPT ![l] = to]

\* The launcher insists on a landmark map before it plans.
Launch(l) ==
    /\ stage[l] = "idle"
    /\ Goes(l, IF landmarkMap = NoMap THEN "refused" ELSE "reading")
    /\ UNCHANGED <<seer, known, plan, planFile, waypointFile, lines, targets, disturbed>>

\* run_unitree_navila.py starts, with the landmark seer or without.
Starts(l) == Goes(l, "load") /\ seer' \in {seer, [seer EXCEPT ![l] = TRUE]}

\* A mission on the files at hand, without planning.
StartAgain(l) ==
    /\ stage[l] = "idle" /\ Starts(l)
    /\ UNCHANGED <<known, plan, planFile, waypointFile, lines, targets, disturbed>>

ReadInventory(l) ==
    /\ stage[l] = "reading"
    /\ IF inventory = Torn
       THEN Goes(l, "failed") /\ UNCHANGED known
       ELSE Goes(l, "planning") /\ known' = [known EXCEPT ![l] = Contents(inventory)]
    /\ UNCHANGED <<seer, plan, planFile, waypointFile, lines, targets, disturbed>>

\* Where a write by another launcher is noticed.
Exposed == {"writing", "half", "ending", "load", "check"}

Disturb(l) ==
    disturbed' = [k \in Launchers |->
                    disturbed[k] \/ (k # l /\ stage[k] \in Exposed)]

-----------------------------------------------------------------------------
(* plan_query.                                                             *)

\* The picture of the view in which a landmark was seen.
PictureOf(view) == IF view \in landmarkMap.views THEN {<<landmarkMap.scan, view>>} ELSE {}

Steps(chosen) == {[name |-> l.name, picture |-> PictureOf(l.view)] : l \in chosen}

\* _landmark_waypoints: some of the landmarks, as many as allowed.  The model
\* ranks them, or the score of the words does.
Selections ==
    {chosen \in SUBSET landmarkMap.landmarks :
        chosen # {} /\ Cardinality(chosen) <= MaxWaypoints}

Planned(l, count, steps) == [by |-> l, count |-> count, steps |-> steps]

\* _patrol_waypoints: a stop at each place where the item may be.
CatalogPlan(l) == Planned(l, CatalogStops, {})

\* A place of the catalog, a patrol, or the checklist: a stop for everything
\* that is not in the inventory.
GeneralPlans(l) ==
    {Planned(l, 1, {}), CatalogPlan(l),
     Planned(l, Cardinality({i \in Items : known[l][i] = Unknown}), {})}

\* An item: the place where it was seen, if it is remembered and the memory
\* fresh and certain enough; else the landmarks of the map, else the places
\* of the catalog.
ItemPlans(l, i) ==
    (IF known[l][i] = Unknown THEN {} ELSE {Planned(l, 1, {})})
    \cup (IF landmarkMap.landmarks = {}
          THEN {CatalogPlan(l)}
          ELSE {Planned(l, Cardinality(s), Steps(s)) : s \in Selections})

\* The command reads the map and plans, and write_plan opens the plan file; a
\* query that is not understood, a router that does not answer or a plan
\* without waypoints ends it before.
PlanQuery(l) ==
    /\ stage[l] = "planning"
    /\ \/ /\ \E p \in GeneralPlans(l) \cup UNION {ItemPlans(l, i) : i \in Items} :
                p.count > 0 /\ plan' = [plan EXCEPT ![l] = p]
          /\ planFile' = Torn
          /\ Goes(l, "writing") /\ Disturb(l)
       \/ Goes(l, "failed") /\ UNCHANGED <<plan, planFile, disturbed>>
    /\ known' = [known EXCEPT ![l] = Empty]
    /\ UNCHANGED <<seer, waypointFile, lines, targets>>

-----------------------------------------------------------------------------
(* write_plan: first the plan, then the waypoints, each in place.          *)

WritePlan(l) ==
    /\ stage[l] = "writing"
    /\ planFile' = plan[l] /\ Goes(l, "half") /\ Disturb(l)
    /\ UNCHANGED <<seer, known, plan, waypointFile, lines, targets>>

OpenWaypoints(l) ==
    /\ stage[l] = "half"
    /\ waypointFile' = Torn /\ Goes(l, "ending") /\ Disturb(l)
    /\ UNCHANGED <<seer, known, plan, planFile, lines, targets>>

\* Mutant of Content: the file is opened to be appended to.
ContentAppended(l) ==
    [by |-> l, count |-> plan[l].count + (IF Torn = waypointFile THEN 1 ELSE 0)]

\* What replaces the waypoint file.
Content(l) == [by |-> l, count |-> plan[l].count]

\* The command exits 0; --plan-only, or exec run_unitree_navila.sh.
WriteWaypoints(l) ==
    /\ stage[l] = "ending"
    /\ waypointFile' = Content(l) /\ Disturb(l)
    /\ \/ Goes(l, "shown") /\ UNCHANGED seer
       \/ Starts(l)
    /\ UNCHANGED <<known, plan, planFile, lines, targets>>

\* Killed while it plans or writes, or the disk is full: the files stay as
\* they are, and set -e ends the launcher before the mission.
Abandon(l) ==
    /\ stage[l] \in {"reading", "planning", "writing", "half", "ending"}
    /\ Goes(l, "failed")
    /\ known' = [known EXCEPT ![l] = Empty] /\ plan' = [plan EXCEPT ![l] = NoPlan]
    /\ disturbed' = [disturbed EXCEPT ![l] = FALSE]
    /\ UNCHANGED <<seer, planFile, waypointFile, lines, targets>>

-----------------------------------------------------------------------------
(* The mission's own reading: _load_instructions, _load_landmark_plan and  *)
(* _load_reference_image.                                                  *)

LoadInstructions(l) ==
    /\ stage[l] = "load"
    /\ IF waypointFile \in {Absent, Torn}
       THEN Goes(l, "refused") /\ UNCHANGED lines
       ELSE /\ lines' = [lines EXCEPT ![l] = waypointFile]
            /\ Goes(l, IF seer[l] THEN "check" ELSE "running")
    /\ UNCHANGED <<seer, known, plan, planFile, waypointFile, targets, disturbed>>

\* One step per waypoint, each with a picture that is there.
Acceptable(p, waypoints) ==
    /\ p.steps # {} /\ Cardinality(p.steps) = waypoints.count
    /\ \A s \in p.steps : s.picture # {} /\ s.picture \subseteq images

LoadLandmarkPlan(l) ==
    /\ stage[l] = "check"
    /\ IF planFile \notin {Absent, Torn} /\ Acceptable(planFile, lines[l])
       THEN targets' = [targets EXCEPT ![l] = planFile] /\ Goes(l, "running")
       ELSE Goes(l, "refused") /\ UNCHANGED targets
    /\ UNCHANGED <<seer, known, plan, planFile, waypointFile, lines, disturbed>>

LauncherStep(l) ==
    \/ Launch(l) \/ StartAgain(l) \/ ReadInventory(l) \/ PlanQuery(l)
    \/ WritePlan(l) \/ OpenWaypoints(l) \/ WriteWaypoints(l)
    \/ Abandon(l) \/ LoadInstructions(l) \/ LoadLandmarkPlan(l)

Init == MemoryInit /\ ScanInit /\ SearchInit

Next ==
    \/ MemoryNext /\ UNCHANGED <<scanVars, searchVars>>
    \/ ScanNext /\ UNCHANGED <<memoryVars, searchVars>>
    \/ (\E l \in Launchers : LauncherStep(l)) /\ UNCHANGED <<memoryVars, scanVars>>

Spec == Init /\ [][Next]_vars

-----------------------------------------------------------------------------
(* A mission whose launcher was the only one to write since it began to    *)
(* runs on that launcher's plan, waypoints and landmarks alike: nothing a  *)
(* killed launcher or an earlier query left behind gets into it            *)
(* (write_plan, set -e and the reading order of the mission).              *)
UndisturbedRunsItsOwn ==
    \A l \in Launchers :
        (stage[l] = "running" /\ plan[l] # NoPlan /\ ~disturbed[l]) =>
            /\ lines[l] = [by |-> l, count |-> plan[l].count]
            /\ seer[l] => targets[l] = plan[l]

(* A plan made from the landmarks of a scan is never turned down by the    *)
(* mission it was made for: every step has the picture that                *)
(* _load_reference_image asks for, whatever the vision model answered, and *)
(* there are as many steps as waypoints.                                   *)
ScannedPlanIsAccepted ==
    \A l \in Launchers :
        (plan[l] # NoPlan /\ plan[l].steps # {} /\ ~disturbed[l]) => stage[l] # "refused"
=============================================================================
