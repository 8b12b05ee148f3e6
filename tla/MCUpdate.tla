------------------------------ MODULE MCUpdate ------------------------------
(***************************************************************************)
(* Properties of a software update, for TLC.                               *)
(***************************************************************************)
EXTENDS Update

MCVersions == {"v1", "v2", "v3"}
MCBranches == {"main", "dev"}
MCBranchOf == [v \in MCVersions |-> IF v = "v3" THEN "dev" ELSE "main"]
MCAgnosOf == [v \in MCVersions |-> IF v = "v2" THEN "os2" ELSE "os1"]

(* An update that is marked can be installed: its tree is whole and        *)
(* durable, and if it wants another AGNOS than the one that runs, the      *)
(* target slot holds all of it and will verify ("prevent an openpilot      *)
(* getting swapped in with a mismatched or partially downloaded agnos").   *)
(* So it is on the disk as the processes see it and in whatever a power    *)
(* loss at this moment leaves.                                             *)
Installable(d) ==
  d.fin.consistent =>
    /\ d.fin.whole /\ d.fin.synced
    /\ AgnosOf[d.fin.ver] \in
         {d.slot[s].system : s \in {booted}} \union
         {d.slot[s].system : s \in {t \in {Other(booted)} :
            /\ d.slot[t].boot = d.slot[t].system
            /\ d.slot[t].hash = d.slot[t].system}}

StagedIsInstallable == \A d \in {fs, platter} \union Leftovers : Installable(d)

(* What runs is a whole tree on the AGNOS it wants, and no power loss      *)
(* costs the device its software: when the launcher finds no tree, it is   *)
(* because the power went between its two moves, and both trees are whole  *)
(* in the staging area.                                                    *)
RunsWhole ==
  /\ machine = "up" => fs.dir.whole /\ AgnosOf[fs.dir.ver] = OS
  /\ fs.slot[active].boot = fs.slot[active].system /\ fs.slot[active].system # "junk"
  /\ \A d \in Leftovers : d.dir.whole \/ (d.old.whole /\ d.fin.whole)

(* A reboot on an offer installs it: the flag, the canary and the absence  *)
(* of a backup are what the launcher asks for, and UpdateAvailable is      *)
(* written from the flag alone.                                            *)
PromiseKept == machine = "up" /\ promised # "none" => fs.dir.ver = promised

(* A request that comes while a pass is under way is not slept over,       *)
(* though the end of the pass erases it: the loop clears the event only    *)
(* before a pass.                                                          *)
NoLostRequest == up_pc = "sleep" /\ asked => ready_event

(* The head of the target branch is, again and again, installed or staged  *)
(* for the next reboot, unless updates are paused for good or the power    *)
(* went between the two moves of a swap.                                   *)
Current ==
  \/ fs.dir.ver = heads[target_branch]
  \/ fs.fin.consistent /\ fs.fin.ver = heads[target_branch]
Stranded == machine = "launch" /\ ~Exists(fs.dir)
UpdateArrives == []<>DisableUpdates \/ []<>Stranded \/ []<>(Exists(fs.dir) /\ Current)
=============================================================================
