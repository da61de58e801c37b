----------------------------- MODULE ItemMemory -----------------------------
(***************************************************************************)
(* memory_guide.py: the inventory of remembered items, a file that every   *)
(* `remember` command reads when it starts and replaces as a whole when it *)
(* ends.  Commands are processes of their own: they overlap, and each may  *)
(* be killed, or fail to write, at any point.                              *)
(*                                                                         *)
(* An observation (location, confidence, time) is named by the command     *)
(* that made it, so the inventory is a function from items to commands.    *)
(***************************************************************************)
EXTENDS Naturals, Sequences

CONSTANTS
    Items,
    Remembers,     \* the remember commands of a behaviour
    ItemOf,        \* the item each of them is about
    Unknown,       \* no observation of an item
    Absent,        \* no such file
    Torn           \* a file that is opened for writing and not complete

ASSUME MemoryAssumption ==
    /\ ItemOf \in [Remembers -> Items]
    /\ Unknown \notin Remembers
    /\ Absent \notin [Items -> Remembers \cup {Unknown}]
    /\ Torn \notin [Items -> Remembers \cup {Unknown}]
    /\ Absent # Torn

Inventories == [Items -> Remembers \cup {Unknown}]
Files == Inventories \cup {Absent, Torn}

VARIABLES
    inventory,     \* the inventory file
    temporary,     \* the temporary file of each command
    command,       \* how far each command is
    draft,         \* the inventory a command holds in memory
    saved,         \* history: the commands that replaced the file, in order
    readAt         \* history: how many of them a command has seen

memoryVars == <<inventory, temporary, command, draft, saved, readAt>>

MemoryType ==
    /\ inventory \in Files
    /\ temporary \in [Remembers -> Files]
    /\ command \in [Remembers -> {"idle", "loaded", "writing", "written", "done", "failed"}]
    /\ draft \in [Remembers -> Inventories]
    /\ saved \in Seq(Remembers)
    /\ readAt \in [Remembers -> Nat]

Empty == [i \in Items |-> Unknown]

MemoryInit ==
    /\ inventory = Absent
    /\ temporary = [c \in Remembers |-> Absent]
    /\ command = [c \in Remembers |-> "idle"]
    /\ draft = [c \in Remembers |-> Empty]
    /\ saved = <<>>
    /\ readAt = [c \in Remembers |-> 0]

\* load_inventory: no file is an empty inventory.
Contents(file) == IF file = Absent THEN Empty ELSE file

\* Mutant of Remembered: the command starts from nothing.
RememberedAlone(file, c) == [Empty EXCEPT ![ItemOf[c]] = c]

\* remember_item: what was read, with this one observation put in.
Remembered(file, c) == [Contents(file) EXCEPT ![ItemOf[c]] = c]

\* The command starts: a torn file cannot be parsed (exit 2), nor may the
\* location be empty or the confidence out of range (exit 2).
LoadInventory(c) ==
    /\ command[c] = "idle"
    /\ \/ /\ inventory # Torn
          /\ draft' = [draft EXCEPT ![c] = Remembered(inventory, c)]
          /\ readAt' = [readAt EXCEPT ![c] = Len(saved)]
          /\ command' = [command EXCEPT ![c] = "loaded"]
       \/ /\ command' = [command EXCEPT ![c] = "failed"]
          /\ UNCHANGED <<draft, readAt>>
    /\ UNCHANGED <<inventory, temporary, saved>>

\* Mutant of TemporaryOf: one temporary name for everybody.
TemporaryShared(c) == CHOOSE d \in Remembers : TRUE

\* The name holds the process number: no two live commands share it.
TemporaryOf(c) == c

\* write_text opens (and empties) the file, then writes and closes it.
OpenTemporary(c) ==
    /\ command[c] = "loaded"
    /\ temporary' = [temporary EXCEPT ![TemporaryOf(c)] = Torn]
    /\ command' = [command EXCEPT ![c] = "writing"]
    /\ UNCHANGED <<inventory, draft, saved, readAt>>

WriteTemporary(c) ==
    /\ command[c] = "writing"
    /\ temporary' = [temporary EXCEPT ![TemporaryOf(c)] = draft[c]]
    /\ command' = [command EXCEPT ![c] = "written"]
    /\ UNCHANGED <<inventory, draft, saved, readAt>>

\* temporary.replace(path), atomic; then the command prints and exits 0.
ReplaceInventory(c) ==
    /\ command[c] = "written"
    /\ temporary[TemporaryOf(c)] # Absent
    /\ inventory' = temporary[TemporaryOf(c)]
    /\ temporary' = [temporary EXCEPT ![TemporaryOf(c)] = Absent]
    /\ saved' = Append(saved, c)
    /\ command' = [command EXCEPT ![c] = "done"]
    /\ draft' = [draft EXCEPT ![c] = Empty]
    /\ UNCHANGED readAt

\* Killed, or stopped by an error of the file system: whatever is on disk
\* stays there.  (Before it has written it leaves as little as one that was
\* refused when it started.)
Dies(c) ==
    /\ command[c] \in {"writing", "written"}
    /\ command' = [command EXCEPT ![c] = "failed"]
    /\ draft' = [draft EXCEPT ![c] = Empty]
    /\ UNCHANGED <<inventory, temporary, saved, readAt>>

MemoryNext ==
    \E c \in Remembers :
        \/ LoadInventory(c) \/ OpenTemporary(c) \/ WriteTemporary(c)
        \/ ReplaceInventory(c) \/ Dies(c)

MemorySpec == MemoryInit /\ [][MemoryNext]_memoryVars

-----------------------------------------------------------------------------
(* Every observation whose command succeeded is still there, or a later    *)
(* one of the same item is, unless a command that replaced the file after  *)
(* it had read the file before it: only overlap makes the guide forget,    *)
(* never a crash, a failed write or the order of the commands              *)
(* (save_inventory and its read-modify-write in main).                     *)
OnlyOverlapForgets ==
    \A k \in 1..Len(saved) :
        \/ \E j \in k..Len(saved) :
              /\ ItemOf[saved[j]] = ItemOf[saved[k]]
              /\ Contents(inventory)[ItemOf[saved[k]]] = saved[j]
        \/ \E j \in (k + 1)..Len(saved) : readAt[saved[j]] < k

(* Whatever is killed or overlaps, the inventory file can be read: an      *)
(* interrupted write does not erase memory (save_inventory's promise).     *)
InventoryReadable == inventory # Torn
=============================================================================
