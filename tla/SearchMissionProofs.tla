------------------------ MODULE SearchMissionProofs ------------------------
(***************************************************************************)
(* What the run `search` checks of two launchers, two remember commands    *)
(* and one scan, for any number of each, and for every catalog, answer of  *)
(* the vision model and number of views.  The inventory's theorems are     *)
(* carried over to the composition; the scan and the launchers have an     *)
(* invariant of their own.                                                 *)
(***************************************************************************)
EXTENDS SearchMission, FiniteSetTheorems, TLAPS

-----------------------------------------------------------------------------
(* The inventory.  What a reader meets is not inductive: what becomes the  *)
(* inventory was drafted when the command read the file, and others may    *)
(* have replaced it since.  DraftInv is OnlyOverlapForgets for a draft, up *)
(* to the point it was read at.                                            *)

Drafting(c) == command[c] \in {"loaded", "writing", "written"}

\* A command that replaced the file has ended, so it never reads again.
SavedInv == \A k \in 1..Len(saved) : command[saved[k]] = "done"

\* What is about to replace the file is the command's draft.
TemporaryInv == \A c \in Remembers : command[c] = "written" => temporary[c] = draft[c]

\* The k-th observation was overtaken by a command that did not know of it.
Overlapped(k) == \E j \in (k + 1)..Len(saved) : readAt[saved[j]] < k

\* An inventory knows the k-th observation, or one of its item made since, up
\* to the n-th.
Knows(inv, k, n) ==
    \E j \in k..n : /\ ItemOf[saved[j]] = ItemOf[saved[k]]
                    /\ inv[ItemOf[saved[k]]] = saved[j]

\* A draft holds the command's own observation, and what it has read holds
\* what an inventory has to.
DraftInv ==
    \A c \in Remembers : Drafting(c) =>
        /\ draft[c][ItemOf[c]] = c
        /\ readAt[c] <= Len(saved)
        /\ \A k \in 1..readAt[c] :
              \/ Overlapped(k)
              \/ ItemOf[saved[k]] = ItemOf[c]
              \/ Knows(draft[c], k, readAt[c])

MemoryIInv ==
    /\ MemoryType
    /\ InventoryReadable /\ OnlyOverlapForgets
    /\ SavedInv /\ TemporaryInv /\ DraftInv

-----------------------------------------------------------------------------

\* What load_inventory returns is an inventory.
LEMMA ContentsType ==
  ASSUME MemoryType, InventoryReadable
  PROVE  Contents(inventory) \in Inventories
  BY DEF MemoryType, InventoryReadable, Contents, Files, Inventories, Empty

\* No draft can be mistaken for a file that is torn or missing.
LEMMA DraftIsWhole ==
  ASSUME MemoryType, NEW c \in Remembers
  PROVE  draft[c] # Torn /\ draft[c] # Absent /\ Contents(draft[c]) = draft[c]
  BY MemoryAssumption DEF MemoryType, Inventories, Contents

\* The invariant holds before the first command.
LEMMA InitMemoryIInv == MemoryInit => MemoryIInv
  <1> SUFFICES ASSUME MemoryInit PROVE MemoryIInv
    OBVIOUS
  <1>1. MemoryType
    BY DEF MemoryInit, MemoryType, Files, Inventories, Empty
  <1>2. InventoryReadable
    BY MemoryAssumption DEF MemoryInit, InventoryReadable
  <1>3. OnlyOverlapForgets /\ SavedInv
    BY DEF MemoryInit, OnlyOverlapForgets, SavedInv
  <1>4. TemporaryInv /\ DraftInv
    BY DEF MemoryInit, TemporaryInv, DraftInv, Drafting
  <1> QED BY <1>1, <1>2, <1>3, <1>4 DEF MemoryIInv

\* Types are kept by every step.
LEMMA TypeStep == MemoryIInv /\ [MemoryNext]_memoryVars => MemoryType'
  <1> SUFFICES ASSUME MemoryIInv, [MemoryNext]_memoryVars PROVE MemoryType'
    OBVIOUS
  <1> MemoryType
    BY DEF MemoryIInv
  <1>1. ASSUME NEW c \in Remembers, LoadInventory(c) PROVE MemoryType'
    <2>1. Contents(inventory) \in Inventories
      BY ContentsType DEF MemoryIInv
    <2>2. Remembered(inventory, c) \in Inventories
      BY <2>1, MemoryAssumption DEF Remembered, Inventories
    <2>3. /\ draft' \in [Remembers -> Inventories] /\ readAt' \in [Remembers -> Nat]
          /\ UNCHANGED <<inventory, temporary, saved>>
      BY <1>1, <2>2 DEF LoadInventory, MemoryType
    <2>4. command' \in [Remembers -> {"idle", "loaded", "writing", "written", "done", "failed"}]
      BY <1>1 DEF LoadInventory, MemoryType
    <2> QED BY <2>3, <2>4 DEF MemoryType
  <1>2. ASSUME NEW c \in Remembers, OpenTemporary(c) PROVE MemoryType'
    BY <1>2 DEF OpenTemporary, MemoryType, Files, TemporaryOf
  <1>3. ASSUME NEW c \in Remembers, WriteTemporary(c) PROVE MemoryType'
    BY <1>3 DEF WriteTemporary, MemoryType, Files, TemporaryOf
  <1>4. ASSUME NEW c \in Remembers, ReplaceInventory(c) PROVE MemoryType'
    <2>1. Empty \in Inventories
      BY DEF Empty, Inventories
    <2> QED BY <1>4, <2>1 DEF ReplaceInventory, MemoryType, Files, TemporaryOf
  <1>5. ASSUME NEW c \in Remembers, Dies(c) PROVE MemoryType'
    <2>1. Empty \in Inventories
      BY DEF Empty, Inventories
    <2> QED BY <1>5, <2>1 DEF Dies, MemoryType
  <1>6. CASE UNCHANGED memoryVars
    BY <1>6 DEF memoryVars, MemoryType
  <1> QED BY <1>1, <1>2, <1>3, <1>4, <1>5, <1>6 DEF MemoryNext

\* A command that starts reads all that was saved, and adds its own.
LEMMA LoadStep ==
  ASSUME MemoryIInv, NEW c \in Remembers, LoadInventory(c)
  PROVE  InventoryReadable' /\ OnlyOverlapForgets' /\ SavedInv' /\ TemporaryInv' /\ DraftInv'
  <1>0. MemoryType
    BY DEF MemoryIInv
  <1>1. /\ UNCHANGED <<inventory, temporary, saved>> /\ command[c] = "idle"
        /\ \A d \in Remembers \ {c} : command'[d] = command[d] /\ draft'[d] = draft[d]
                                       /\ readAt'[d] = readAt[d]
        /\ command'[c] \in {"loaded", "failed"}
    BY <1>0 DEF MemoryType, LoadInventory
  <1>2. SavedInv'
    <2> SUFFICES ASSUME NEW k \in 1..Len(saved) PROVE command'[saved[k]] = "done"
      BY <1>1 DEF SavedInv
    <2> QED BY <1>0, <1>1 DEF MemoryIInv, SavedInv, MemoryType
  <1>3. \A k \in 1..Len(saved) : readAt'[saved[k]] = readAt[saved[k]]
    BY <1>0, <1>1 DEF MemoryIInv, SavedInv, MemoryType
  <1>4. InventoryReadable'
    BY <1>1 DEF MemoryIInv, InventoryReadable
  <1>5. \A k \in Nat : Overlapped(k) => Overlapped(k)'
    BY <1>0, <1>1, <1>3 DEF Overlapped, MemoryType
  <1>6. OnlyOverlapForgets'
    <2>1. \A k \in 1..Len(saved) : \A j \in (k + 1)..Len(saved) :
              readAt'[saved[j]] = readAt[saved[j]]
      BY <1>0, <1>3 DEF MemoryType
    <2>2. OnlyOverlapForgets
      BY DEF MemoryIInv
    <2> QED BY <2>1, <2>2, <1>1 DEF OnlyOverlapForgets
  <1>7. TemporaryInv'
    <2> SUFFICES ASSUME NEW d \in Remembers, command'[d] = "written"
                 PROVE  temporary'[d] = draft'[d]
      BY DEF TemporaryInv
    <2>1. d # c /\ command[d] = "written" /\ draft'[d] = draft[d]
      BY <1>1
    <2>2. temporary[d] = draft[d]
      BY <2>1 DEF MemoryIInv, TemporaryInv
    <2> QED BY <2>1, <2>2, <1>1
  <1>8. DraftInv'
    <2> SUFFICES ASSUME NEW d \in Remembers, Drafting(d)'
                 PROVE /\ draft'[d][ItemOf[d]] = d
                       /\ readAt'[d] <= Len(saved)
                       /\ \A k \in 1..readAt'[d] : \/ Overlapped(k)'
                                                   \/ ItemOf[saved[k]] = ItemOf[d]
                                                   \/ Knows(draft[d], k, readAt[d])'
      BY <1>1 DEF DraftInv, Knows
    <2>1. CASE d # c
      <3>1. Drafting(d) /\ draft'[d] = draft[d] /\ readAt'[d] = readAt[d]
        BY <1>1, <2>1 DEF Drafting
      <3> QED BY <3>1, <1>0, <1>1, <1>5 DEF MemoryIInv, DraftInv, Knows, MemoryType
    <2>2. CASE d = c
      <3>1. /\ draft'[c] = Remembered(inventory, c) /\ readAt'[c] = Len(saved)
        BY <1>0, <2>2 DEF Drafting, MemoryType, LoadInventory
      <3>2. Contents(inventory) \in Inventories
        BY ContentsType DEF MemoryIInv
      <3>3. draft'[c][ItemOf[c]] = c
            /\ \A i \in Items : i # ItemOf[c] => draft'[c][i] = Contents(inventory)[i]
        BY <3>1, <3>2, MemoryAssumption DEF Remembered, Inventories
      <3>4. ASSUME NEW k \in 1..Len(saved), ItemOf[saved[k]] # ItemOf[c], ~Overlapped(k)
            PROVE  Knows(draft[c], k, readAt[c])'
        <4>1. Knows(Contents(inventory), k, Len(saved))
          BY <3>4 DEF MemoryIInv, OnlyOverlapForgets, Knows, Overlapped
        <4>2. ItemOf[saved[k]] \in Items
          BY <1>0, MemoryAssumption DEF MemoryType
        <4> QED BY <4>1, <4>2, <3>1, <3>3, <3>4, <1>1 DEF Knows
      <3>5. \A k \in 1..Len(saved) : Overlapped(k) => Overlapped(k)'
        BY <1>0, <1>5 DEF MemoryType
      <3> QED BY <3>1, <3>3, <3>4, <3>5, <2>2, <1>0 DEF MemoryType
    <2> QED BY <2>1, <2>2
  <1> QED BY <1>2, <1>4, <1>6, <1>7, <1>8

\* Writing the temporary file, or dying, changes no inventory and no draft of
\* a command that goes on.
LEMMA WriteStep ==
  ASSUME MemoryIInv, NEW c \in Remembers, OpenTemporary(c) \/ WriteTemporary(c) \/ Dies(c)
  PROVE  InventoryReadable' /\ OnlyOverlapForgets' /\ SavedInv' /\ TemporaryInv' /\ DraftInv'
  <1>0. MemoryType
    BY DEF MemoryIInv
  <1>1. /\ UNCHANGED <<inventory, saved, readAt>>
        /\ command[c] \in {"loaded", "writing", "written"}
        /\ command'[c] \in {"writing", "written", "failed"}
        /\ \A d \in Remembers \ {c} : command'[d] = command[d] /\ draft'[d] = draft[d]
                                       /\ temporary'[d] = temporary[d]
        /\ command'[c] # "failed" => draft'[c] = draft[c]
        /\ command'[c] = "written" => temporary'[c] = draft[c]
    BY <1>0 DEF OpenTemporary, WriteTemporary, Dies, MemoryType, TemporaryOf
  <1>2. InventoryReadable' /\ OnlyOverlapForgets'
    BY <1>1 DEF MemoryIInv, InventoryReadable, OnlyOverlapForgets
  <1>3. SavedInv'
    BY <1>0, <1>1 DEF MemoryIInv, SavedInv, MemoryType
  <1>4. TemporaryInv'
    BY <1>1 DEF MemoryIInv, TemporaryInv
  <1>5. DraftInv'
    <2>1. \A d \in Remembers : Drafting(d)' => Drafting(d) /\ draft'[d] = draft[d]
      BY <1>1 DEF Drafting
    <2> QED BY <2>1, <1>1 DEF MemoryIInv, DraftInv, Overlapped, Knows
  <1> QED BY <1>2, <1>3, <1>4, <1>5

\* The draft becomes the inventory: it knows what the command had read, and
\* what it had not read is overlapped by this very command.
LEMMA ReplaceStep ==
  ASSUME MemoryIInv, NEW c \in Remembers, ReplaceInventory(c)
  PROVE  InventoryReadable' /\ OnlyOverlapForgets' /\ SavedInv' /\ TemporaryInv' /\ DraftInv'
  <1> USE DEF ReplaceInventory
  <1> DEFINE n == Len(saved)
  <1>0. MemoryType /\ n \in Nat
    BY DEF MemoryIInv, MemoryType
  <1>1. /\ command[c] = "written" /\ UNCHANGED readAt
        /\ inventory' = draft[c] /\ saved' = Append(saved, c)
        /\ command' = [command EXCEPT ![c] = "done"]
        /\ \A d \in Remembers \ {c} : draft'[d] = draft[d] /\ temporary'[d] = temporary[d]
    BY <1>0 DEF MemoryIInv, TemporaryInv, TemporaryOf, MemoryType
  <1>2. /\ Len(saved') = n + 1 /\ saved'[n + 1] = c
        /\ \A k \in 1..n : saved'[k] = saved[k]
    BY <1>0, <1>1 DEF MemoryType
  <1>3. /\ draft[c][ItemOf[c]] = c /\ readAt[c] \in Nat /\ readAt[c] <= n
        /\ \A k \in 1..readAt[c] : \/ Overlapped(k)
                                   \/ ItemOf[saved[k]] = ItemOf[c]
                                   \/ Knows(draft[c], k, readAt[c])
    BY <1>0, <1>1 DEF MemoryIInv, DraftInv, Drafting, MemoryType
  <1>4. InventoryReadable'
    BY <1>0, <1>1, DraftIsWhole DEF InventoryReadable
  <1>5. \A k \in Nat : Overlapped(k) => Overlapped(k)'
    <2> SUFFICES ASSUME NEW k \in Nat, NEW j \in (k + 1)..n, readAt[saved[j]] < k
                 PROVE  Overlapped(k)'
      BY DEF Overlapped
    <2>1. j \in 1..n /\ j \in (k + 1)..Len(saved')
      BY <1>0, <1>2
    <2> QED BY <2>1, <1>1, <1>2 DEF Overlapped
  <1>6. OnlyOverlapForgets'
    <2> SUFFICES ASSUME NEW k \in 1..(n + 1), ~Overlapped(k)'
                 PROVE  \E j \in k..(n + 1) : /\ ItemOf[saved'[j]] = ItemOf[saved'[k]]
                                              /\ draft[c][ItemOf[saved'[k]]] = saved'[j]
      <3>1. Contents(inventory') = draft[c]
        BY <1>0, <1>1, DraftIsWhole
      <3> QED BY <3>1, <1>0, <1>2 DEF OnlyOverlapForgets, Overlapped
    <2>1. CASE k = n + 1
      BY <2>1, <1>0, <1>2, <1>3
    <2>2. CASE k \in 1..n /\ k > readAt[c]
      <3>1. n + 1 \in (k + 1)..Len(saved') /\ readAt'[saved'[n + 1]] < k
        BY <2>2, <1>0, <1>1, <1>2, <1>3
      <3> QED BY <3>1 DEF Overlapped
    <2>3. CASE k \in 1..n /\ k <= readAt[c]
      <3>1. k \in 1..readAt[c] /\ saved'[k] = saved[k] /\ ~Overlapped(k)
        BY <2>3, <1>0, <1>2, <1>3, <1>5
      <3>2. CASE ItemOf[saved[k]] = ItemOf[c]
        BY <3>1, <3>2, <1>0, <1>2, <1>3
      <3>3. CASE Knows(draft[c], k, readAt[c])
        <4>1. PICK j \in k..readAt[c] : /\ ItemOf[saved[j]] = ItemOf[saved[k]]
                                        /\ draft[c][ItemOf[saved[k]]] = saved[j]
          BY <3>3 DEF Knows
        <4>2. j \in k..(n + 1) /\ saved'[j] = saved[j]
          BY <4>1, <1>0, <1>2, <1>3
        <4> QED BY <4>1, <4>2, <3>1
      <3> QED BY <3>1, <3>2, <3>3, <1>3
    <2> QED BY <2>1, <2>2, <2>3, <1>0, <1>3
  <1>7. SavedInv'
    BY <1>0, <1>1, <1>2 DEF MemoryIInv, SavedInv, MemoryType
  <1>8. TemporaryInv'
    BY <1>0, <1>1 DEF MemoryIInv, TemporaryInv, MemoryType
  <1>9. DraftInv'
    <2>1. ASSUME NEW d \in Remembers, Drafting(d)'
          PROVE  d # c /\ Drafting(d) /\ draft'[d] = draft[d]
      BY <2>1, <1>0, <1>1 DEF Drafting, MemoryType
    <2>2. ASSUME NEW d \in Remembers, Drafting(d), readAt[d] \in Nat, readAt[d] <= n,
                 NEW k \in 1..readAt[d], Knows(draft[d], k, readAt[d])
          PROVE  \E j \in k..readAt[d] : /\ ItemOf[saved'[j]] = ItemOf[saved'[k]]
                                         /\ draft[d][ItemOf[saved'[k]]] = saved'[j]
      <3>1. \A j \in k..readAt[d] : saved'[j] = saved[j]
        BY <2>2, <1>0, <1>2
      <3> QED BY <2>2, <3>1 DEF Knows
    <2>3. ASSUME NEW d \in Remembers, Drafting(d)'
          PROVE  /\ draft'[d][ItemOf[d]] = d
                 /\ readAt'[d] <= Len(saved')
                 /\ \A k \in 1..readAt'[d] :
                       \/ Overlapped(k)'
                       \/ ItemOf[saved'[k]] = ItemOf[d]
                       \/ \E j \in k..readAt'[d] :
                             /\ ItemOf[saved'[j]] = ItemOf[saved'[k]]
                             /\ draft'[d][ItemOf[saved'[k]]] = saved'[j]
      <3>1. d # c /\ Drafting(d) /\ draft'[d] = draft[d] /\ readAt'[d] = readAt[d]
        BY <2>1, <2>3, <1>1
      <3>2. /\ draft[d][ItemOf[d]] = d /\ readAt[d] \in Nat /\ readAt[d] <= n
            /\ \A k \in 1..readAt[d] : \/ Overlapped(k)
                                       \/ ItemOf[saved[k]] = ItemOf[d]
                                       \/ Knows(draft[d], k, readAt[d])
        BY <3>1, <1>0 DEF MemoryIInv, DraftInv, MemoryType
      <3>3. \A k \in 1..readAt[d] : k \in Nat /\ saved'[k] = saved[k]
        BY <3>2, <1>0, <1>2
      <3>4. readAt'[d] <= Len(saved')
        BY <3>1, <3>2, <1>0, <1>2
      <3>5. ASSUME NEW k \in 1..readAt[d]
            PROVE  \/ Overlapped(k)'
                   \/ ItemOf[saved'[k]] = ItemOf[d]
                   \/ \E j \in k..readAt[d] :
                         /\ ItemOf[saved'[j]] = ItemOf[saved'[k]]
                         /\ draft[d][ItemOf[saved'[k]]] = saved'[j]
        <4>1. CASE Overlapped(k)
          BY <4>1, <3>2, <3>5, <1>5
        <4>2. CASE ItemOf[saved[k]] = ItemOf[d]
          BY <4>2, <3>3, <3>5
        <4>3. CASE Knows(draft[d], k, readAt[d])
          BY <4>3, <3>1, <3>2, <3>5, <2>2
        <4> QED BY <4>1, <4>2, <4>3, <3>2, <3>5
      <3> QED BY <3>1, <3>2, <3>4, <3>5
    <2> QED BY <2>3 DEF DraftInv, Knows
  <1> QED BY <1>4, <1>6, <1>7, <1>8, <1>9

\* The inductive invariant of the inventory holds in every reachable state.
THEOREM MemoryInvariance == MemorySpec => []MemoryIInv
  <1>1. ASSUME MemoryIInv, [MemoryNext]_memoryVars PROVE MemoryIInv'
    <2>1. MemoryType'
      BY <1>1, TypeStep
    <2>2. ASSUME NEW c \in Remembers,
                 \/ LoadInventory(c) \/ OpenTemporary(c) \/ WriteTemporary(c)
                 \/ ReplaceInventory(c) \/ Dies(c)
          PROVE  MemoryIInv'
      BY <1>1, <2>1, <2>2, LoadStep, WriteStep, ReplaceStep DEF MemoryIInv
    <2>3. CASE UNCHANGED memoryVars
      BY <1>1, <2>1, <2>3
      DEF MemoryIInv, memoryVars, InventoryReadable, OnlyOverlapForgets, SavedInv,
          TemporaryInv, DraftInv, Drafting, Overlapped, Knows
    <2> QED BY <1>1, <2>2, <2>3 DEF MemoryNext
  <1> QED BY InitMemoryIInv, <1>1, PTL DEF MemorySpec

\* However many commands are killed, and wherever, the inventory can be read.
THEOREM MemoryIsReadable == MemorySpec => []InventoryReadable
  BY MemoryInvariance, PTL DEF MemoryIInv

\* However many commands overlap, a saved observation is only forgotten by one
\* that had read the file before it was saved (save_inventory).
THEOREM ForgottenByOverlap == MemorySpec => []OnlyOverlapForgets
  BY MemoryInvariance, PTL DEF MemoryIInv

-----------------------------------------------------------------------------
(* The scan.                                                               *)

\* A robot that turns is about to be stopped, or two StopMoves failed, or the
\* scan was terminated.
TurnInv ==
    motion = "turning" =>
        \/ at = "terminated" \/ failedStops >= 2
        \/ controller /\ at = "brake"
        \/ controller /\ at = "cleanup" /\ failedStops >= 1

\* The views taken so far have their pictures.
PictureInv == \A v \in 0..captured - 1 : <<scan, v>> \in images

\* How many views a scan has taken where it is.
CapturedInv ==
    /\ at \in {"idle", "setup", "ended", "terminated"} => captured = 0
    /\ at \in {"view", "brake", "capture"} => captured < ViewCount
    /\ at \in {"describe", "publish"} => captured = ViewCount
    /\ at # "idle" => scan >= 1

\* Landmarks of one name are one, and each names a view of its scan.
Sound(landmarks) ==
    /\ IsFiniteSet(landmarks)
    /\ \A l \in landmarks : l.view \in 0..ViewCount - 1
    /\ \A c, d \in landmarks : c.name = d.name => c = d

MapInv ==
    /\ Sound(found)
    /\ landmarkMap # NoMap =>
          /\ landmarkMap.views = 0..ViewCount - 1
          /\ \A v \in 0..ViewCount - 1 : <<landmarkMap.scan, v>> \in images
          /\ Sound(landmarkMap.landmarks)

ScanInv == ScanType /\ TurnInv /\ PictureInv /\ CapturedInv /\ MapInv

-----------------------------------------------------------------------------
(* The launchers.                                                          *)

\* Before it has planned a launcher has no plan, and it plans on a map; what it
\* writes is its plan.
Before(l) ==
    /\ stage[l] \in {"writing", "half", "ending"} => plan[l] # NoPlan
    /\ stage[l] \in {"idle", "reading", "planning"} => plan[l] = NoPlan
    /\ stage[l] \in {"reading", "planning"} => landmarkMap # NoMap

\* A plan with landmarks is one that the mission takes.
PlanSound(l) ==
    (plan[l] # NoPlan /\ plan[l].steps # {}) => Acceptable(plan[l], Content(l))

\* As long as nobody else writes, the files hold what the launcher put there,
\* and the mission runs on it.
FilesHold(l) ==
    (plan[l] # NoPlan /\ ~disturbed[l]) =>
        /\ stage[l] \in {"half", "ending", "load", "check"} => planFile = plan[l]
        /\ stage[l] = "load" => waypointFile = Content(l)
        /\ stage[l] \in {"check", "running"} => lines[l] = Content(l)
        /\ stage[l] = "running" /\ seer[l] => targets[l] = plan[l]
        /\ plan[l].steps # {} => stage[l] # "refused"

LauncherInv(l) == Before(l) /\ PlanSound(l) /\ FilesHold(l)

SearchInv == ScanInv /\ SearchType /\ \A l \in Launchers : LauncherInv(l)

-----------------------------------------------------------------------------
(* The scan's invariant.                                                   *)

\* It holds before the first scan.
LEMMA ScanStarts == ScanInit => ScanInv
  <1> SUFFICES ASSUME ScanInit PROVE ScanInv
    OBVIOUS
  <1>1. ScanType
    <2>1. scan \in 0..MaxScans /\ captured \in 0..ViewCount /\ failedStops \in Nat
      BY ScanAssumption DEF ScanInit
    <2>2. /\ found \subseteq Landmarks /\ landmarkMap \in Maps \cup {NoMap}
          /\ images \subseteq ((1..MaxScans) \X (0..ViewCount - 1))
      BY DEF ScanInit
    <2>3. armed \in BOOLEAN /\ controller \in BOOLEAN /\ error \in BOOLEAN
      BY DEF ScanInit
    <2> QED BY <2>1, <2>2, <2>3 DEF ScanInit, ScanType
  <1>4. TurnInv /\ CapturedInv
    BY DEF ScanInit, TurnInv, CapturedInv
  <1>2. PictureInv
    BY DEF ScanInit, PictureInv
  <1>3. MapInv
    BY FS_EmptySet DEF ScanInit, MapInv, Sound
  <1> QED BY <1>1, <1>2, <1>3, <1>4 DEF ScanInv

\* What is not a step of Capture, Describe or Publish leaves pictures, map and
\* landmarks alone, or ends the scan.
LEMMA ScanMoves ==
  ASSUME ScanInv,
         StartScan \/ Connect \/ Turn \/ Brake \/ CleanUp \/ TerminateScan
  PROVE  ScanInv'
  <1>0. /\ ScanType /\ TurnInv /\ PictureInv /\ CapturedInv /\ MapInv
        /\ ViewCount \in Nat /\ ViewCount >= 2 /\ MaxScans \in Nat
    BY ScanAssumption DEF ScanInv
  <1>1. ScanType'
    <2>1. scan' \in 0..MaxScans
      <3>1. scan' = scan \/ (scan' = scan + 1 /\ scan < MaxScans)
        BY DEF StartScan, Connect, Turn, Brake, CleanUp, TerminateScan
      <3> QED BY <1>0, <3>1 DEF ScanType
    <2>2. captured' \in 0..ViewCount /\ failedStops' \in Nat
      <3>1. captured' \in {captured, 0} /\ failedStops' \in {failedStops, failedStops + 1}
        BY DEF StartScan, Connect, Turn, Brake, CleanUp, TerminateScan, Forgets
      <3> QED BY <1>0, <3>1 DEF ScanType
    <2>3. at' \in {"idle", "setup", "view", "brake", "capture", "describe",
                   "publish", "cleanup", "ended", "terminated"}
      BY <1>0 DEF ScanType, StartScan, Connect, Turn, Brake, CleanUp, TerminateScan, Abort
    <2>4. armed' \in BOOLEAN /\ controller' \in BOOLEAN /\ error' \in BOOLEAN
      BY <1>0 DEF ScanType, StartScan, Connect, Turn, Brake, CleanUp, TerminateScan,
                  Abort, Forgets
    <2>5. motion' \in {"still", "turning"} /\ found' \subseteq Landmarks
      BY <1>0 DEF ScanType, StartScan, Connect, Turn, Brake, CleanUp, TerminateScan,
                  Forgets
    <2>6. UNCHANGED <<images, landmarkMap>>
      BY DEF StartScan, Connect, Turn, Brake, CleanUp, TerminateScan
    <2> QED BY <1>0, <2>1, <2>2, <2>3, <2>4, <2>5, <2>6 DEF ScanType
  <1>2. TurnInv'
    <2>1. CASE StartScan \/ Connect
      BY <1>0, <2>1 DEF ScanType, TurnInv, StartScan, Connect, Abort
    <2>2. CASE Turn \/ Brake
      BY <1>0, <2>2 DEF ScanType, TurnInv, Turn, Brake, TurnDue, Abort
    <2>3. CASE CleanUp \/ TerminateScan
      BY <1>0, <2>3 DEF ScanType, TurnInv, CleanUp, TerminateScan, Forgets
    <2> QED BY <2>1, <2>2, <2>3
  <1>3. CapturedInv'
    <2>1. CASE StartScan
      BY <1>0, <2>1 DEF ScanType, CapturedInv, StartScan
    <2>4. CASE Connect
      <3>1. /\ at = "setup" /\ at' \in {"view", "cleanup"}
            /\ UNCHANGED <<scan, captured>>
        BY <2>4 DEF Connect, Abort
      <3> QED BY <1>0, <3>1 DEF CapturedInv
    <2>2. CASE Turn \/ Brake
      BY <1>0, <2>2 DEF ScanType, CapturedInv, Turn, Brake, Abort
    <2>3. CASE CleanUp \/ TerminateScan
      BY <1>0, <2>3 DEF ScanType, CapturedInv, CleanUp, TerminateScan, Forgets
    <2> QED BY <2>1, <2>2, <2>3, <2>4
  <1>4. UNCHANGED <<images, landmarkMap>> /\ (found' = found \/ found' = {})
    BY DEF StartScan, Connect, Turn, Brake, CleanUp, TerminateScan, Forgets
  <1>5. MapInv'
    BY <1>0, <1>4, FS_EmptySet DEF MapInv, Sound
  <1>6. captured' = 0 \/ (captured' = captured /\ scan' = scan)
    BY <1>0 DEF CapturedInv, StartScan, Connect, Turn, Brake, CleanUp, TerminateScan,
                Forgets
  <1>7. PictureInv'
    BY <1>0, <1>4, <1>6 DEF PictureInv
  <1> QED BY <1>1, <1>2, <1>3, <1>5, <1>7 DEF ScanInv

\* A picture is added to those there are.
LEMMA ScanCaptures == ASSUME ScanInv, Capture PROVE ScanInv'
  <1>0. /\ ScanType /\ TurnInv /\ PictureInv /\ CapturedInv /\ MapInv
        /\ ViewCount \in Nat /\ ViewCount >= 2 /\ MaxScans \in Nat
    BY ScanAssumption DEF ScanInv
  <1>1. /\ captured \in 0..(ViewCount - 1) /\ scan \in 1..MaxScans
        /\ captured' = captured \/ captured' = captured + 1
        /\ images \subseteq images' /\ images' \subseteq images \cup {<<scan, captured>>}
        /\ captured' # captured => <<scan, captured>> \in images'
        /\ UNCHANGED <<scan, armed, controller, motion, found, landmarkMap, failedStops>>
    BY <1>0 DEF ScanType, CapturedInv, Capture
  <1>2. ScanType'
    <2>1. images' \subseteq ((1..MaxScans) \X (0..ViewCount - 1))
      BY <1>0, <1>1 DEF ScanType
    <2>2. captured' \in 0..ViewCount
      BY <1>0, <1>1
    <2> QED BY <1>0, <1>1, <2>1, <2>2 DEF ScanType, Capture, Abort
  <1>3. TurnInv'
    BY <1>0, <1>1 DEF ScanType, TurnInv, Capture, Abort, TurnDue
  <1>4. CapturedInv'
    BY <1>0, <1>1 DEF ScanType, CapturedInv, Capture, Abort
  <1>5. MapInv'
    BY <1>0, <1>1 DEF MapInv, Sound
  <1>6. PictureInv'
    BY <1>0, <1>1 DEF PictureInv
  <1> QED BY <1>2, <1>3, <1>4, <1>5, <1>6 DEF ScanInv

\* Whatever the model answers, what is kept of it is sound.
LEMMA ScanDescribes == ASSUME ScanInv, Describe PROVE ScanInv'
  <1>0. /\ ScanType /\ TurnInv /\ PictureInv /\ CapturedInv /\ MapInv
        /\ ViewCount \in Nat /\ ViewCount >= 2 /\ MaxScans \in Nat
    BY ScanAssumption DEF ScanInv
  <1>1. UNCHANGED <<scan, armed, controller, motion, captured, landmarkMap, images, failedStops>>
    BY DEF Describe
  <1>2. found' \subseteq Landmarks /\ Sound(found')
    <2>1. CASE UNCHANGED found
      BY <1>0, <2>1 DEF ScanType, MapInv
    <2>2. ASSUME NEW answer \in Answers \cup {{}}, Normalised(Valid(answer), found')
          PROVE  found' \subseteq Landmarks /\ Sound(found')
      <3>1. IsFiniteSet(answer) /\ answer \subseteq Landmarks
        BY ScanAssumption, FS_EmptySet
      <3>2. found' \subseteq Valid(answer)
        BY <2>2 DEF Normalised
      <3>3. found' \in SUBSET answer /\ \A l \in found' : l.view \in 0..ViewCount - 1
        BY <3>2 DEF Valid
      <3>4. IsFiniteSet(found')
        BY <3>1, <3>3, FS_Subset
      <3>5. \A c, d \in found' : c.name = d.name => c = d
        BY <2>2 DEF Normalised
      <3> QED BY <3>1, <3>3, <3>4, <3>5 DEF Sound
    <2> QED BY <2>1, <2>2 DEF Describe
  <1>3. ScanType'
    BY <1>0, <1>1, <1>2 DEF ScanType, Describe, Abort
  <1>4. TurnInv' /\ CapturedInv'
    BY <1>0, <1>1 DEF ScanType, TurnInv, CapturedInv, Describe, Abort
  <1>5. MapInv' /\ PictureInv'
    BY <1>0, <1>1, <1>2 DEF MapInv, PictureInv, Sound
  <1> QED BY <1>3, <1>4, <1>5 DEF ScanInv

\* The new map has the views that were taken, and their pictures.
LEMMA ScanPublishes == ASSUME ScanInv, Publish PROVE ScanInv'
  <1>0. /\ ScanType /\ TurnInv /\ PictureInv /\ CapturedInv /\ MapInv
        /\ ViewCount \in Nat /\ ViewCount >= 2 /\ MaxScans \in Nat
    BY ScanAssumption DEF ScanInv
  <1>1. /\ UNCHANGED <<scan, armed, controller, motion, captured, found, images, failedStops>>
        /\ captured = ViewCount
        /\ \/ landmarkMap' = [scan |-> scan, views |-> 0..captured - 1, landmarks |-> found]
           \/ landmarkMap' = landmarkMap
    BY <1>0 DEF Publish, CapturedInv
  <1>2. [scan |-> scan, views |-> 0..captured - 1, landmarks |-> found] \in Maps
    BY <1>0 DEF ScanType, Maps
  <1>3. ScanType'
    BY <1>0, <1>1, <1>2 DEF ScanType, Publish, Abort
  <1>4. TurnInv' /\ CapturedInv'
    BY <1>0, <1>1 DEF ScanType, TurnInv, CapturedInv, Publish, Abort
  <1>5. PictureInv'
    BY <1>0, <1>1 DEF PictureInv
  <1>6. MapInv'
    BY <1>0, <1>1 DEF MapInv, PictureInv, Sound
  <1> QED BY <1>3, <1>4, <1>5, <1>6 DEF ScanInv

\* Every step of a scan keeps its invariant, the pictures and the map's being.
LEMMA ScanStep ==
  ASSUME ScanInv, ScanNext
  PROVE  /\ ScanInv' /\ images \subseteq images'
         /\ landmarkMap # NoMap => landmarkMap' # NoMap
  <1>1. ScanInv'
    BY ScanMoves, ScanCaptures, ScanDescribes, ScanPublishes DEF ScanNext
  <1>2. images \subseteq images'
    BY DEF ScanNext, StartScan, Connect, Turn, Brake, Capture, Describe, Publish,
           CleanUp, TerminateScan
  <1>3. landmarkMap # NoMap => landmarkMap' # NoMap
    <2>1. CASE Publish
      <3>1. [scan |-> scan, views |-> 0..captured - 1, landmarks |-> found] \in Maps
        BY ScanAssumption DEF ScanInv, ScanType, Maps
      <3> QED BY <2>1, <3>1, ScanAssumption DEF Publish
    <2>2. CASE ~Publish
      BY <2>2 DEF ScanNext, StartScan, Connect, Turn, Brake, Capture, Describe,
                  CleanUp, TerminateScan
    <2> QED BY <2>1, <2>2
  <1> QED BY <1>1, <1>2, <1>3

-----------------------------------------------------------------------------
(* The plans.                                                              *)

\* The steps made of chosen landmarks are as many, and each has its picture.
LEMMA StepsAreSound ==
  ASSUME ScanInv, landmarkMap # NoMap, NEW chosen \in Selections
  PROVE  /\ Steps(chosen) \subseteq Step
         /\ IsFiniteSet(chosen) /\ Cardinality(Steps(chosen)) = Cardinality(chosen)
         /\ \A s \in Steps(chosen) : s.picture # {} /\ s.picture \subseteq images
  <1>1. /\ landmarkMap \in Maps /\ chosen \subseteq landmarkMap.landmarks
        /\ Sound(landmarkMap.landmarks)
        /\ landmarkMap.views = 0..ViewCount - 1
        /\ \A v \in 0..ViewCount - 1 : <<landmarkMap.scan, v>> \in images
    BY DEF ScanInv, ScanType, MapInv, Selections
  <1>2. IsFiniteSet(chosen)
    BY <1>1, FS_Subset DEF Sound
  <1>3. \A l \in chosen : /\ PictureOf(l.view) = {<<landmarkMap.scan, l.view>>}
                          /\ <<landmarkMap.scan, l.view>> \in images
    BY <1>1 DEF Sound, PictureOf
  <1>4. \A l \in chosen : l.name \in Names /\ l.view \in Nat /\ landmarkMap.scan \in Nat
    BY <1>1, ScanAssumption DEF Maps, Landmarks, Sound
  <1>5. \A l \in chosen : PictureOf(l.view) \in SUBSET (Nat \X Nat)
    <2> SUFFICES ASSUME NEW l \in chosen PROVE {<<landmarkMap.scan, l.view>>} \in SUBSET (Nat \X Nat)
      BY <1>3
    <2>1. <<landmarkMap.scan, l.view>> \in Nat \X Nat
      BY <1>4
    <2> QED BY <2>1
  <1>6. Steps(chosen) \subseteq Step
    BY <1>4, <1>5 DEF Steps, Step
  <1>7. \A s \in Steps(chosen) : s.picture # {} /\ s.picture \subseteq images
    <2> SUFFICES ASSUME NEW l \in chosen
                 PROVE  PictureOf(l.view) # {} /\ PictureOf(l.view) \subseteq images
      BY DEF Steps
    <2>1. <<landmarkMap.scan, l.view>> \in images
      BY <1>3
    <2> QED BY <2>1, <1>3
  <1> DEFINE f == [l \in chosen |-> [name |-> l.name, picture |-> PictureOf(l.view)]]
  <1>8. \A c, d \in chosen : f[c] = f[d] => c = d
    <2> SUFFICES ASSUME NEW c \in chosen, NEW d \in chosen, f[c] = f[d] PROVE c = d
      OBVIOUS
    <2>1. f[c].name = c.name /\ f[d].name = d.name
      OBVIOUS
    <2> QED BY <2>1, <1>1 DEF Sound
  <1>9. f \in Bijection(chosen, Steps(chosen))
    BY <1>8 DEF Steps, Bijection, Injection, Surjection, IsInjective
  <1>10. Cardinality(Steps(chosen)) = Cardinality(chosen)
    BY <1>2, <1>9, FS_Bijection DEF ExistsBijection
  <1> QED BY <1>2, <1>6, <1>7, <1>10

\* Whatever is asked for, the plan has its type, and its landmarks are sound.
LEMMA PlansAreSound ==
  ASSUME ScanInv, SearchType, landmarkMap # NoMap, NEW l \in Launchers,
         NEW p \in GeneralPlans(l) \cup UNION {ItemPlans(l, i) : i \in Items}
  PROVE  /\ p \in Plans
         /\ p.steps # {} => Acceptable(p, [by |-> l, count |-> p.count])
  <1>1. ASSUME NEW n \in Nat, p = Planned(l, n, {})
        PROVE  p \in Plans /\ p.steps = {}
    BY <1>1 DEF Planned, Plans
  <1>2. Cardinality({i \in Items : known[l][i] = Unknown}) \in Nat
    BY SearchAssumption, FS_Subset, FS_CardinalityType
  <1>3. CASE p \in GeneralPlans(l)
    BY <1>1, <1>2, <1>3, SearchAssumption DEF GeneralPlans, CatalogPlan
  <1>4. ASSUME NEW chosen \in Selections, p = Planned(l, Cardinality(chosen), Steps(chosen))
        PROVE  p \in Plans /\ Acceptable(p, [by |-> l, count |-> p.count])
    <2>1. /\ Steps(chosen) \subseteq Step
          /\ IsFiniteSet(chosen) /\ Cardinality(Steps(chosen)) = Cardinality(chosen)
          /\ \A s \in Steps(chosen) : s.picture # {} /\ s.picture \subseteq images
      BY StepsAreSound
    <2>2. Cardinality(chosen) \in Nat
      BY <2>1, FS_CardinalityType
    <2>3. p.by = l /\ p.count = Cardinality(chosen) /\ p.steps = Steps(chosen) /\ p \in Plans
      BY <1>4, <2>1, <2>2 DEF Planned, Plans
    <2>4. Steps(chosen) # {}
      BY DEF Selections, Steps
    <2> QED BY <2>1, <2>3, <2>4 DEF Acceptable
  <1>5. ASSUME NEW i \in Items, p \in ItemPlans(l, i)
        PROVE  /\ p \in Plans
               /\ p.steps # {} => Acceptable(p, [by |-> l, count |-> p.count])
    <2>1. \/ p = Planned(l, 1, {}) \/ p = CatalogPlan(l)
          \/ \E chosen \in Selections : p = Planned(l, Cardinality(chosen), Steps(chosen))
      BY <1>5 DEF ItemPlans
    <2> QED BY <2>1, <1>1, <1>4, SearchAssumption DEF CatalogPlan
  <1> QED BY <1>3, <1>5

\* What the files hold is never taken for a torn or a missing file.
LEMMA FilesAreWhole ==
  ASSUME SearchType, NEW l \in Launchers, plan[l] # NoPlan
  PROVE  /\ plan[l] \in Plans /\ plan[l] \notin {Absent, Torn}
         /\ Content(l) \in WaypointLists /\ Content(l) \notin {Absent, Torn}
  BY SearchAssumption DEF SearchType, Plans, WaypointLists, Content

-----------------------------------------------------------------------------
(* The launchers' invariant.                                               *)

\* It holds before the first of them starts.
LEMMA SearchStarts == ScanInit /\ SearchInit => SearchInv
  <1> SUFFICES ASSUME ScanInit, SearchInit PROVE SearchInv
    OBVIOUS
  <1>1. SearchType
    BY DEF SearchInit, SearchType, Inventories, Empty
  <1>2. \A l \in Launchers : LauncherInv(l)
    BY DEF SearchInit, LauncherInv, Before, PlanSound, FilesHold
  <1> QED BY <1>1, <1>2, ScanStarts DEF SearchInv

\* A step of one launcher leaves those of the others as they were, and tells
\* them when it writes.
LEMMA OthersUnharmed ==
  ASSUME SearchInv, NEW l \in Launchers, NEW k \in Launchers \ {l}, LauncherStep(l),
         UNCHANGED scanVars
  PROVE  LauncherInv(k)'
  <1>0. SearchType /\ LauncherInv(k)
    BY DEF SearchInv
  <1>1. /\ stage'[k] = stage[k] /\ seer'[k] = seer[k] /\ plan'[k] = plan[k]
        /\ lines'[k] = lines[k] /\ targets'[k] = targets[k]
    BY <1>0 DEF SearchType, LauncherStep, Launch, StartAgain, ReadInventory, PlanQuery,
                WritePlan, OpenWaypoints, WriteWaypoints, Abandon, LoadInstructions,
                LoadLandmarkPlan, Goes, Starts
  <1>2. disturbed[k] => disturbed'[k]
    BY <1>0 DEF SearchType, LauncherStep, Launch, StartAgain, ReadInventory, PlanQuery,
                WritePlan, OpenWaypoints, WriteWaypoints, Abandon, LoadInstructions,
                LoadLandmarkPlan, Disturb
  <1>3. \/ UNCHANGED <<planFile, waypointFile>>
        \/ stage[k] \in Exposed => disturbed'[k]
    BY <1>0 DEF SearchType, LauncherStep, Launch, StartAgain, ReadInventory, PlanQuery,
                WritePlan, OpenWaypoints, WriteWaypoints, Abandon, LoadInstructions,
                LoadLandmarkPlan, Disturb
  <1>4. Before(k)' /\ PlanSound(k)'
    BY <1>0, <1>1 DEF LauncherInv, Before, PlanSound, Acceptable, Content, scanVars
  <1>5. FilesHold(k)'
    <2> SUFFICES ASSUME plan'[k] # NoPlan, ~disturbed'[k]
                 PROVE  /\ stage'[k] \in {"half", "ending", "load", "check"} => planFile' = plan'[k]
                        /\ stage'[k] = "load" => waypointFile' = Content(k)'
                        /\ stage'[k] \in {"check", "running"} => lines'[k] = Content(k)'
                        /\ stage'[k] = "running" /\ seer'[k] => targets'[k] = plan'[k]
                        /\ plan'[k].steps # {} => stage'[k] # "refused"
      BY DEF FilesHold
    <2>1. Content(k)' = Content(k)
      BY <1>1 DEF Content
    <2> QED BY <2>1, <1>0, <1>1, <1>2, <1>3 DEF LauncherInv, FilesHold, Exposed
  <1> QED BY <1>4, <1>5 DEF LauncherInv

\* A step keeps its own launcher's invariant.
LEMMA OwnStep ==
  ASSUME SearchInv, NEW l \in Launchers, LauncherStep(l), UNCHANGED scanVars
  PROVE  LauncherInv(l)'
  <1>0. /\ ScanInv /\ SearchType /\ Before(l) /\ PlanSound(l) /\ FilesHold(l)
        /\ UNCHANGED <<images, landmarkMap>>
    BY DEF SearchInv, LauncherInv, scanVars
  <1>1. CASE Launch(l) \/ StartAgain(l) \/ ReadInventory(l)
    <2>1. /\ plan'[l] = NoPlan
          /\ stage'[l] \in {"reading", "planning"} => landmarkMap # NoMap
          /\ stage'[l] \notin {"writing", "half", "ending"}
      BY <1>0, <1>1 DEF SearchType, Before, Launch, StartAgain, ReadInventory, Goes, Starts
    <2> QED BY <2>1, <1>0 DEF LauncherInv, Before, PlanSound, FilesHold
  <1>2. CASE PlanQuery(l)
    <2>1. landmarkMap # NoMap /\ plan[l] = NoPlan
      BY <1>0, <1>2 DEF Before, PlanQuery
    <2>2. ASSUME NEW p \in GeneralPlans(l) \cup UNION {ItemPlans(l, i) : i \in Items},
                 plan' = [plan EXCEPT ![l] = p], Goes(l, "writing")
          PROVE  LauncherInv(l)'
      <3>1. /\ p.steps # {} => Acceptable(p, [by |-> l, count |-> p.count])
            /\ p # NoPlan
        BY <2>1, <1>0, PlansAreSound, SearchAssumption
      <3>2. plan'[l] = p /\ stage'[l] = "writing"
        BY <2>2, <1>0 DEF SearchType, Goes
      <3>3. PlanSound(l)'
        BY <3>1, <3>2, <1>0 DEF PlanSound, Acceptable, Content
      <3> QED BY <3>1, <3>2, <3>3 DEF LauncherInv, Before, FilesHold
    <2>3. CASE Goes(l, "failed") /\ UNCHANGED plan
      <3>1. plan'[l] = NoPlan /\ stage'[l] = "failed"
        BY <2>1, <2>3, <1>0 DEF SearchType, Goes
      <3> QED BY <3>1 DEF LauncherInv, Before, PlanSound, FilesHold
    <2> QED BY <1>2, <2>2, <2>3 DEF PlanQuery
  <1>3. CASE Abandon(l)
    <2>1. plan'[l] = NoPlan /\ stage'[l] = "failed"
      BY <1>0, <1>3 DEF SearchType, Abandon, Goes
    <2> QED BY <2>1 DEF LauncherInv, Before, PlanSound, FilesHold
  <1>4. CASE WritePlan(l) \/ OpenWaypoints(l) \/ WriteWaypoints(l) \/ LoadInstructions(l)
             \/ LoadLandmarkPlan(l)
    <2>1. plan' = plan /\ disturbed'[l] = disturbed[l]
      BY <1>0, <1>4 DEF SearchType, WritePlan, OpenWaypoints, WriteWaypoints,
                        LoadInstructions, LoadLandmarkPlan, Disturb
    <2>2. stage'[l] \in {"half", "ending", "shown", "load", "refused", "check", "running"}
      BY <1>0, <1>4 DEF SearchType, WritePlan, OpenWaypoints, WriteWaypoints,
                        LoadInstructions, LoadLandmarkPlan, Goes, Starts
    <2>5. stage[l] \in {"writing", "half", "ending"} \/ stage'[l] \notin {"half", "ending"}
      BY <1>0, <1>4 DEF SearchType, WritePlan, OpenWaypoints, WriteWaypoints,
                        LoadInstructions, LoadLandmarkPlan, Goes, Starts
    <2>3. Before(l)' /\ PlanSound(l)'
      BY <1>0, <2>1, <2>2, <2>5 DEF Before, PlanSound, Acceptable, Content
    <2>4. FilesHold(l)'
      <3> SUFFICES ASSUME plan[l] # NoPlan, ~disturbed[l]
                   PROVE  /\ stage'[l] \in {"half", "ending", "load", "check"} => planFile' = plan[l]
                          /\ stage'[l] = "load" => waypointFile' = Content(l)
                          /\ stage'[l] \in {"check", "running"} => lines'[l] = Content(l)
                          /\ stage'[l] = "running" /\ seer'[l] => targets'[l] = plan[l]
                          /\ plan[l].steps # {} => stage'[l] # "refused"
        BY <2>1 DEF FilesHold, Content
      <3>1. /\ plan[l] \in Plans /\ plan[l] \notin {Absent, Torn}
            /\ Content(l) \notin {Absent, Torn}
        BY <1>0, FilesAreWhole
      <3>2. CASE WritePlan(l)
        BY <3>2, <1>0 DEF SearchType, WritePlan, Goes
      <3>3. CASE OpenWaypoints(l)
        BY <3>3, <1>0 DEF SearchType, OpenWaypoints, Goes, FilesHold
      <3>4. CASE WriteWaypoints(l)
        BY <3>4, <1>0 DEF SearchType, WriteWaypoints, Goes, Starts, FilesHold
      <3>5. CASE LoadInstructions(l)
        <4>1. waypointFile = Content(l) /\ planFile = plan[l]
          BY <3>5, <1>0 DEF LoadInstructions, FilesHold
        <4>2. /\ lines'[l] = Content(l) /\ UNCHANGED <<planFile, seer>>
              /\ stage'[l] = IF seer[l] THEN "check" ELSE "running"
          BY <4>1, <3>1, <3>5, <1>0 DEF SearchType, LoadInstructions, Goes
        <4> QED BY <4>1, <4>2
      <3>6. CASE LoadLandmarkPlan(l)
        <4>1. planFile = plan[l] /\ lines[l] = Content(l)
          BY <3>6, <1>0 DEF LoadLandmarkPlan, FilesHold
        <4>2. \/ /\ stage'[l] = "running" /\ targets'[l] = plan[l]
              \/ /\ stage'[l] = "refused" /\ ~Acceptable(plan[l], Content(l))
          BY <4>1, <3>1, <3>6, <1>0 DEF SearchType, LoadLandmarkPlan, Goes
        <4>3. lines'[l] = Content(l)
          BY <4>1, <3>6 DEF LoadLandmarkPlan
        <4> QED BY <4>2, <4>3, <1>0 DEF PlanSound
      <3> QED BY <1>4, <3>2, <3>3, <3>4, <3>5, <3>6
    <2> QED BY <2>3, <2>4 DEF LauncherInv
  <1> QED BY <1>1, <1>2, <1>3, <1>4 DEF LauncherStep

\* Types are kept by a launcher's step.
LEMMA SearchTypeStep ==
  ASSUME SearchInv, MemoryType, NEW l \in Launchers, LauncherStep(l)
  PROVE  SearchType'
  <1>0. SearchType /\ ScanInv /\ Before(l)
    BY DEF SearchInv, LauncherInv
  <1>1. /\ stage' \in [Launchers -> {"idle", "reading", "planning", "writing", "half", "ending",
                                     "load", "check", "running", "failed", "refused", "shown"}]
    BY <1>0 DEF SearchType, LauncherStep, Launch, StartAgain, ReadInventory, PlanQuery,
                WritePlan, OpenWaypoints, WriteWaypoints, Abandon, LoadInstructions,
                LoadLandmarkPlan, Goes, Starts
  <1>2. seer' \in [Launchers -> BOOLEAN]
    BY <1>0 DEF SearchType, LauncherStep, Launch, StartAgain, ReadInventory, PlanQuery,
                WritePlan, OpenWaypoints, WriteWaypoints, Abandon, LoadInstructions,
                LoadLandmarkPlan, Starts
  <1>3. known' \in [Launchers -> Inventories]
    <2>1. Empty \in Inventories
      BY DEF Empty, Inventories
    <2>2. inventory # Torn => Contents(inventory) \in Inventories
      BY ContentsType DEF InventoryReadable
    <2> QED BY <2>1, <2>2, <1>0
        DEF SearchType, LauncherStep, Launch, StartAgain, ReadInventory, PlanQuery,
            WritePlan, OpenWaypoints, WriteWaypoints, Abandon, LoadInstructions,
            LoadLandmarkPlan
  <1>4. plan' \in [Launchers -> Plans \cup {NoPlan}]
    <2>1. CASE PlanQuery(l)
      <3>1. landmarkMap # NoMap
        BY <2>1, <1>0 DEF PlanQuery, Before
      <3>2. \A p \in GeneralPlans(l) \cup UNION {ItemPlans(l, i) : i \in Items} : p \in Plans
        BY <3>1, <1>0, PlansAreSound
      <3> QED BY <2>1, <3>2, <1>0 DEF SearchType, PlanQuery
    <2>2. CASE ~PlanQuery(l)
      BY <2>2, <1>0
      DEF SearchType, LauncherStep, Launch, StartAgain, ReadInventory,
          WritePlan, OpenWaypoints, WriteWaypoints, Abandon, LoadInstructions,
          LoadLandmarkPlan
    <2> QED BY <2>1, <2>2
  <1>5. planFile' \in Plans \cup {Absent, Torn}
    <2>1. WritePlan(l) => plan[l] \in Plans
      BY <1>0 DEF SearchType, Before, WritePlan
    <2> QED BY <2>1, <1>0
        DEF SearchType, LauncherStep, Launch, StartAgain, ReadInventory, PlanQuery,
            WritePlan, OpenWaypoints, WriteWaypoints, Abandon, LoadInstructions,
            LoadLandmarkPlan
  <1>6. waypointFile' \in WaypointLists \cup {Absent, Torn}
    <2>1. WriteWaypoints(l) => Content(l) \in WaypointLists
      BY <1>0, FilesAreWhole DEF Before, WriteWaypoints
    <2> QED BY <2>1, <1>0
        DEF SearchType, LauncherStep, Launch, StartAgain, ReadInventory, PlanQuery,
            WritePlan, OpenWaypoints, WriteWaypoints, Abandon, LoadInstructions,
            LoadLandmarkPlan
  <1>7. /\ lines' \in [Launchers -> WaypointLists \cup {NoPlan}]
        /\ targets' \in [Launchers -> Plans \cup {NoPlan}]
    BY <1>0 DEF SearchType, LauncherStep, Launch, StartAgain, ReadInventory, PlanQuery,
                WritePlan, OpenWaypoints, WriteWaypoints, Abandon, LoadInstructions,
                LoadLandmarkPlan
  <1>8. disturbed' \in [Launchers -> BOOLEAN]
    BY <1>0 DEF SearchType, LauncherStep, Launch, StartAgain, ReadInventory, PlanQuery,
                WritePlan, OpenWaypoints, WriteWaypoints, Abandon, LoadInstructions,
                LoadLandmarkPlan, Disturb
  <1> QED BY <1>1, <1>2, <1>3, <1>4, <1>5, <1>6, <1>7, <1>8 DEF SearchType

-----------------------------------------------------------------------------
(* The composition.                                                        *)

\* The inventory of the composition is the inventory of ItemMemory: neither
\* scans nor launchers write it.
THEOREM MemoryInComposition == Spec => MemorySpec
  <1>1. Init => MemoryInit
    BY DEF Init
  <1>2. [Next]_vars => [MemoryNext]_memoryVars
    BY DEF Next, vars
  <1> QED BY <1>1, <1>2, PTL DEF Spec, MemorySpec

\* The invariant of scan and launchers holds in every reachable state.
THEOREM SearchInvariance == Spec => [](MemoryType /\ SearchInv)
  <1>1. Init => SearchInv
    BY SearchStarts DEF Init
  <1>2. MemoryType /\ SearchInv /\ [Next]_vars => SearchInv'
    <2> SUFFICES ASSUME MemoryType, SearchInv, [Next]_vars PROVE SearchInv'
      OBVIOUS
    <2>0. ScanInv /\ SearchType /\ \A l \in Launchers : LauncherInv(l)
      BY DEF SearchInv
    <2>1. CASE UNCHANGED <<scanVars, searchVars>>
      <3>1. ScanInv'
        BY <2>0, <2>1 DEF ScanInv, ScanType, TurnInv, PictureInv, CapturedInv, MapInv, Sound,
                          scanVars
      <3>2. SearchType'
        BY <2>0, <2>1 DEF SearchType, searchVars
      <3>3. \A l \in Launchers : LauncherInv(l)'
        BY <2>0, <2>1 DEF LauncherInv, Before, PlanSound, FilesHold, Acceptable, Content,
                          scanVars, searchVars
      <3> QED BY <3>1, <3>2, <3>3 DEF SearchInv
    <2>2. CASE ScanNext /\ UNCHANGED <<memoryVars, searchVars>>
      <3>1. /\ ScanInv' /\ images \subseteq images'
            /\ landmarkMap # NoMap => landmarkMap' # NoMap
        BY <2>0, <2>2, ScanStep
      <3>2. SearchType'
        BY <2>0, <2>2 DEF SearchType, searchVars
      <3>3. ASSUME NEW l \in Launchers PROVE LauncherInv(l)'
        <4>1. LauncherInv(l) /\ UNCHANGED searchVars
          BY <2>0, <2>2
        <4>2. PlanSound(l)'
          BY <4>1, <3>1 DEF LauncherInv, PlanSound, Acceptable, Content, searchVars
        <4>3. Before(l)' /\ FilesHold(l)'
          BY <4>1, <3>1 DEF LauncherInv, Before, FilesHold, Content, searchVars
        <4> QED BY <4>2, <4>3 DEF LauncherInv
      <3> QED BY <3>1, <3>2, <3>3 DEF SearchInv
    <2>3. ASSUME NEW l \in Launchers, LauncherStep(l), UNCHANGED <<memoryVars, scanVars>>
          PROVE  SearchInv'
      <3>1. ScanInv'
        BY <2>0, <2>3 DEF ScanInv, ScanType, TurnInv, PictureInv, CapturedInv, MapInv, Sound,
                          scanVars
      <3>2. SearchType'
        BY <2>3, SearchTypeStep
      <3>3. \A k \in Launchers : LauncherInv(k)'
        BY <2>3, OwnStep, OthersUnharmed
      <3> QED BY <3>1, <3>2, <3>3 DEF SearchInv
    <2>4. CASE MemoryNext /\ UNCHANGED <<scanVars, searchVars>>
      BY <2>1, <2>4
    <2> QED BY <2>1, <2>2, <2>3, <2>4 DEF Next, vars
  <1>3. Spec => []MemoryType
    BY MemoryInComposition, MemoryInvariance, PTL DEF MemoryIInv
  <1> QED BY <1>1, <1>2, <1>3, PTL DEF Spec

\* Every variable keeps its type.
THEOREM TypeCorrectness == Spec => []TypeOK
  <1>1. MemoryType /\ SearchInv => TypeOK
    BY DEF TypeOK, SearchInv, ScanInv
  <1> QED BY <1>1, SearchInvariance, PTL

\* With any number of remember commands, scans and launchers at once, the
\* inventory can be read.
THEOREM ReadableInComposition == Spec => []InventoryReadable
  BY MemoryInComposition, MemoryIsReadable, PTL

\* ... and only an overlap of remember commands makes it forget.
THEOREM OnlyOverlapInComposition == Spec => []OnlyOverlapForgets
  BY MemoryInComposition, ForgottenByOverlap, PTL

\* A scan of any number of views that ends, and is not terminated, leaves the
\* robot still unless two StopMoves failed.
THEOREM ScansEndStill == Spec => []ScanEndsStill
  <1>1. SearchInv => ScanEndsStill
    BY DEF SearchInv, ScanInv, ScanType, TurnInv, ScanEndsStill
  <1> QED BY <1>1, SearchInvariance, PTL

\* For any number of launchers: a mission whose launcher was the only one to
\* write runs on that launcher's plan and waypoints.
THEOREM MissionsRunTheirOwn == Spec => []UndisturbedRunsItsOwn
  <1>1. SearchInv => UndisturbedRunsItsOwn
    BY DEF SearchInv, LauncherInv, FilesHold, UndisturbedRunsItsOwn, Content
  <1> QED BY <1>1, SearchInvariance, PTL

\* For every answer of the vision model and every selection of landmarks: the
\* mission takes the plan that was made for it.
THEOREM ScannedPlansAreAccepted == Spec => []ScannedPlanIsAccepted
  <1>1. SearchInv => ScannedPlanIsAccepted
    BY DEF SearchInv, LauncherInv, FilesHold, ScannedPlanIsAccepted
  <1> QED BY <1>1, SearchInvariance, PTL
=============================================================================
