----------------------------- MODULE UpdateDisk -----------------------------
(***************************************************************************)
(* What an update moves about: the source trees under /data and the two    *)
(* AGNOS slots.  Every write shows in `fs' at once; `platter' is what the  *)
(* last sync made durable.  A power loss leaves the trees, and apart from  *)
(* them the slots, as they are in fs or as they are on the platter; the    *)
(* contents of a tree that was never synced are then damaged.              *)
(***************************************************************************)
EXTENDS Integers, FiniteSets

CONSTANTS
  Versions,     \* the commits
  Branches,
  BranchOf,     \* the branch of a commit
  AgnosOf       \* the AGNOS_VERSION of a commit's launch_env.sh

OSes == {AgnosOf[v] : v \in Versions}

ASSUME VersionsAssumption ==
  /\ BranchOf \in [Versions -> Branches]
  /\ \A b \in Branches : \E v \in Versions : BranchOf[v] = b
  /\ "none" \notin Versions
  /\ \A v \in Versions : AgnosOf[v] \notin {"junk", "clear"}

VARIABLES
  fs,         \* the disk as the processes see it
  platter,    \* the disk as of the last sync
  active,     \* the slot the boot loader starts
  booted      \* the slot that is running

diskVars == <<fs, platter, active, booted>>

(* A tree: its commit, whether all of it is there, whether its contents    *)
(* are durable, its .overlay_consistent and its .overlay_init (which is    *)
(* "newest" while nothing in .git is newer).                               *)
Tree ==
  [ver : Versions \union {"none"}, whole : BOOLEAN, synced : BOOLEAN,
   consistent : BOOLEAN, init : {"none", "newest", "older"}]

NoTree == [ver |-> "none", whole |-> FALSE, synced |-> TRUE, consistent |-> FALSE, init |-> "none"]
Exists(t) == t.ver # "none"

(* A slot: the partition that is always read in full (full_check), the     *)
(* one that is not, and the hash behind that one which stands for it.      *)
Slot == [boot : OSes \union {"junk"}, system : OSes \union {"junk"}, hash : OSes \union {"clear"}]
Slots == {"a", "b"}
Other(s) == IF s = "a" THEN "b" ELSE "a"

Disk == [dir : Tree, fin : Tree, old : Tree, slot : [Slots -> Slot]]

DiskTypeOK ==
  /\ fs \in Disk
  /\ platter \in Disk
  /\ active \in Slots
  /\ booted \in Slots

Durable(t) == [t EXCEPT !.synced = TRUE]
Synced(d) == [d EXCEPT !.dir = Durable(@), !.fin = Durable(@), !.old = Durable(@)]

Write(d) == fs' = d /\ UNCHANGED platter
sync(d) == fs' = Synced(d) /\ platter' = Synced(d)

Torn(t) == [t EXCEPT !.whole = @ /\ t.synced, !.synced = TRUE]
Leftover(trees, slots) ==
  [dir |-> Torn(trees.dir), fin |-> Torn(trees.fin), old |-> Torn(trees.old), slot |-> slots.slot]
(* What a power loss may leave.                                            *)
Leftovers == {Leftover(trees, slots) : trees \in {fs, platter}, slots \in {fs, platter}}

(* Mutant: the flag is touched while the copy may still be in memory.      *)
set_consistent_flag_NoSync(consistent) ==
  Write([fs EXCEPT !.fin.consistent = consistent /\ Exists(fs.fin)])

(* Everything before the flag is durable before it changes, and the change *)
(* is durable before anything after it.                                    *)
set_consistent_flag(consistent) ==
  sync([fs EXCEPT !.fin.consistent = consistent /\ Exists(fs.fin)])

update_init(v) ==
  /\ active = "a" /\ booted = "a"
  /\ fs = [dir |-> [NoTree EXCEPT !.ver = v, !.whole = TRUE], fin |-> NoTree, old |-> NoTree,
           slot |-> [s \in Slots |-> [boot |-> AgnosOf[v], system |-> AgnosOf[v], hash |-> "clear"]]]
  /\ platter = fs
-----------------------------------------------------------------------------
(* agnos.py                                                                *)

OS == fs.slot[booted].system              \* /VERSION
get_target_slot_number == Other(booted)
Target == fs.slot[get_target_slot_number]

verify_agnos_update(w) == Target.boot = w /\ Target.hash = w

SetTarget(d, s) == [d EXCEPT !.slot[get_target_slot_number] = s]

(* flash_agnos_update of one partition of each kind, as a stage it has     *)
(* reached.  A partition is half written before it is whole; the data is   *)
(* synced before the hash that vouches for it is written, which is not.    *)
FlashStages == {"boot", "booting", "system", "erased", "imaging", "imaged", "flashed"}

clear_partition_hash == sync(SetTarget(fs, [Target EXCEPT !.hash = "clear"]))

flash_partition(stage, w, next) ==
  \/ /\ stage = "boot" /\ Target.boot = w            \* already flashed
     /\ next = "system" /\ UNCHANGED <<fs, platter>>
  \/ /\ stage = "boot" /\ Target.boot # w
     /\ next = "booting" /\ Write(SetTarget(fs, [Target EXCEPT !.boot = "junk"]))
  \/ /\ stage = "booting"
     /\ next = "system" /\ sync(SetTarget(fs, [Target EXCEPT !.boot = w]))
  \/ /\ stage = "system" /\ Target.hash = w
     /\ next = "flashed" /\ UNCHANGED <<fs, platter>>
  \/ /\ stage = "system" /\ Target.hash # w
     /\ next = "erased" /\ clear_partition_hash
  \/ /\ stage = "erased"
     /\ next = "imaging" /\ Write(SetTarget(fs, [Target EXCEPT !.system = "junk"]))
  \/ /\ stage = "imaging"
     /\ next = "imaged" /\ sync(SetTarget(fs, [Target EXCEPT !.system = w]))
  \/ /\ stage = "imaged"
     /\ next = "flashed" /\ Write(SetTarget(fs, [Target EXCEPT !.hash = w]))

(* A download that breaks off is started again from the partition's        *)
(* verification, up to ten times.                                          *)
Retried(stage) == IF stage \in {"boot", "booting"} THEN "boot" ELSE "system"
=============================================================================
