------------------------------ MODULE Manager ------------------------------
(***************************************************************************)
(* The manager: system/manager/manager.py and process.py.  Every pass      *)
(* reads the latest deviceState, walks the process table in order to       *)
(* stop, restart or start each entry, reports, and looks for a shutdown    *)
(* request.  A pass is not atomic: a process can die between any two       *)
(* entries, and stop() can hold the whole walk for JoinTicks.              *)
(***************************************************************************)
EXTENDS Integers, Sequences, FiniteSets

CONSTANTS
  Table,        \* managed_processes, in the order of the dict
  Restarted,    \* the processes with restart_if_crash
  JoinTicks     \* join_process(proc, 5): how long stop() waits before SIGKILL

Names == {Table[i] : i \in 1..Len(Table)}

ASSUME TableAssumption ==
  /\ Table \in Seq(STRING) /\ Len(Table) > 0
  /\ \A i, j \in 1..Len(Table) : Table[i] = Table[j] => i = j
  /\ Restarted \subseteq Names
  /\ JoinTicks \in Nat \ {0}

VARIABLES
  procs,        \* per process: proc (no child, a live one, an exited one) and shutting_down
  mgr_pc,       \* where the manager is in its pass
  at,           \* the entry of the table the walk is at
  joining,      \* 1 more than the ticks stop() will still wait (0: not waiting)
  started,      \* manager_thread's started: what the last deviceState read said
  running,      \* ensure_running's list for this pass
  IsOnroad,     \* the parameter pandad and others read
  report,       \* managerState: the processes with shouldBeRunning and not running
  DoShutdown    \* the request hardwared writes

mgrVars == <<procs, mgr_pc, at, joining, started, running, IsOnroad, report, DoShutdown>>

MgrTypeOK ==
  /\ procs \in [Names -> [proc : {"none", "alive", "dead"}, shutting_down : BOOLEAN]]
  /\ mgr_pc \in {"poll", "stop", "start", "report", "signal", "reap", "exited"}
  /\ at \in 1..Len(Table) /\ joining \in 0..JoinTicks + 1
  /\ {started, IsOnroad, DoShutdown} \subseteq BOOLEAN
  /\ running \subseteq Names /\ report \subseteq Names

(* manager_thread before its loop: everything is offroad, then a walk.     *)
MgrInit ==
  /\ procs = [p \in Names |-> [proc |-> "none", shutting_down |-> FALSE]]
  /\ mgr_pc = "stop" /\ at = 1 /\ joining = 0
  /\ started = FALSE /\ running = {} /\ IsOnroad = FALSE /\ report = {}
  /\ DoShutdown = FALSE

Entry == Table[at]
Alive(p) == procs[p].proc = "alive"

(* The walk goes on to the next entry, or to the next part of the pass.    *)
Advance(next) ==
  IF at < Len(Table) THEN at' = at + 1 /\ UNCHANGED mgr_pc
                     ELSE at' = 1 /\ mgr_pc' = next

Gone(p) == procs' = [procs EXCEPT ![p] = [proc |-> "none", shutting_down |-> FALSE]]
Spawned(p) == procs' = [procs EXCEPT ![p] = [proc |-> "alive", shutting_down |-> FALSE]]

(* A mutant of stop: a second call that does not block returns, and the    *)
(* process that ignores SIGINT is never killed.                            *)
stop_NeverJoins(p, block, done) ==
  \/ procs[p].proc = "none" /\ done /\ UNCHANGED <<procs, joining>>
  \/ procs[p].proc = "dead" /\ Gone(p) /\ joining' = 0 /\ done
  \/ /\ Alive(p) /\ procs' = [procs EXCEPT ![p].shutting_down = TRUE]
     /\ done /\ UNCHANGED joining

(* ManagerProcess.stop with the call's block, done when the child is       *)
(* collected or, if it does not block, when it is signalled.  A second     *)
(* call joins whatever block says: only the first signal can return early. *)
stop(p, block, done) ==
  \/ /\ procs[p].proc = "none"
     /\ done /\ UNCHANGED <<procs, joining>>
  \/ /\ procs[p].proc = "dead"
     /\ Gone(p) /\ joining' = 0 /\ done
  \/ /\ Alive(p) /\ ~procs[p].shutting_down
     /\ procs' = [procs EXCEPT ![p].shutting_down = TRUE]
     /\ IF block THEN joining' = JoinTicks + 1 /\ UNCHANGED <<mgr_pc, at>>
                 ELSE done /\ UNCHANGED joining
  \/ /\ Alive(p) /\ procs[p].shutting_down /\ joining = 0
     /\ joining' = JoinTicks + 1 /\ UNCHANGED <<procs, mgr_pc, at>>

(* The SIGKILL after a join that timed out; the join after it returns.     *)
Sigkill ==
  /\ joining = 1 /\ Alive(Entry)
  /\ procs' = [procs EXCEPT ![Entry].proc = "dead"]
  /\ UNCHANGED <<mgr_pc, at, joining, started, running, IsOnroad, report, DoShutdown>>

(* A mutant of start: a process that was only signalled is left alone too. *)
start_LeavesDying(p) ==
  \/ /\ procs[p].proc # "none" /\ at < Len(Table)
     /\ at' = at + 1 /\ UNCHANGED <<procs, mgr_pc, joining>>
  \/ /\ procs[p].proc # "none" /\ at = Len(Table)
     /\ at' = 1 /\ mgr_pc' = "report" /\ UNCHANGED <<procs, joining>>
  \/ procs[p].proc = "none" /\ Spawned(p) /\ UNCHANGED <<mgr_pc, at, joining>>

(* start: a process that was only signalled is collected first, and one    *)
(* that has a child is left alone, a dead child too.                       *)
start(p) ==
  \/ /\ procs[p].shutting_down
     /\ stop(p, TRUE, UNCHANGED <<mgr_pc, at>>)
  \/ /\ ~procs[p].shutting_down /\ procs[p].proc = "none"
     /\ Spawned(p) /\ UNCHANGED <<mgr_pc, at, joining>>

(* manager_thread: the latest deviceState, and IsOnroad at the edge.       *)
manager_thread(seen) ==
  /\ mgr_pc = "poll"
  /\ started' = seen
  /\ IsOnroad' = seen
  /\ running' = {} /\ mgr_pc' = "stop"
  /\ UNCHANGED <<procs, at, joining, report, DoShutdown>>

(* ensure_running, first loop: one entry, with what its should_run said.   *)
ensure_running(should_run) ==
  /\ mgr_pc = "stop" /\ joining = 0
  /\ \/ /\ should_run
        /\ running' = running \union {Entry}
        /\ IF Entry \in Restarted /\ procs[Entry].proc = "dead"
             THEN Spawned(Entry) ELSE UNCHANGED procs
        /\ Advance("start") /\ UNCHANGED joining
     \/ /\ ~should_run
        /\ stop(Entry, FALSE, Advance("start"))
        /\ UNCHANGED running
  /\ UNCHANGED <<started, IsOnroad, report, DoShutdown>>

(* The rest of a stop() that is held in join_process during that loop.     *)
Joined ==
  /\ mgr_pc = "stop" /\ joining > 0
  /\ stop(Entry, FALSE, Advance("start"))
  /\ UNCHANGED <<started, running, IsOnroad, report, DoShutdown>>

(* ensure_running, second loop: start() of every process in running, of    *)
(* which those with nothing to do are passed over.                         *)
Unstarted == {i \in at..Len(Table) : /\ Table[i] \in running
                                     /\ procs[Table[i]].proc = "none" \/ procs[Table[i]].shutting_down}

StartEntry ==
  /\ mgr_pc = "start"
  /\ IF at \in Unstarted THEN start(Entry)
     ELSE /\ IF Unstarted = {} THEN at' = 1 /\ mgr_pc' = "report"
              ELSE at' = (CHOOSE i \in Unstarted : \A j \in Unstarted : i <= j) /\ UNCHANGED mgr_pc
          /\ UNCHANGED <<procs, joining>>
  /\ UNCHANGED <<started, running, IsOnroad, report, DoShutdown>>

(* get_process_state_msg of every entry, then the shutdown requests.       *)
get_process_state_msg ==
  {p \in Names : procs[p].proc = "dead" /\ ~procs[p].shutting_down}

SendState ==
  /\ mgr_pc = "report"
  /\ report' = get_process_state_msg
  /\ mgr_pc' = IF DoShutdown THEN "signal" ELSE "poll"
  /\ UNCHANGED <<procs, at, joining, started, running, IsOnroad, DoShutdown>>

(* manager_cleanup: signal everything, then collect everything.            *)
manager_cleanup ==
  /\ \/ mgr_pc = "signal" /\ stop(Entry, FALSE, Advance("reap"))
     \/ mgr_pc = "reap" /\ stop(Entry, TRUE, Advance("exited"))
  /\ UNCHANGED <<started, running, IsOnroad, report, DoShutdown>>

(* The processes themselves: one that was asked to exit may do so, and any *)
(* may die.                                                                *)
Exits(p) ==
  /\ Alive(p) /\ procs[p].shutting_down
  /\ procs' = [procs EXCEPT ![p].proc = "dead"]
  /\ UNCHANGED <<mgr_pc, at, joining, started, running, IsOnroad, report, DoShutdown>>

Dies(p) ==
  /\ Alive(p) /\ ~procs[p].shutting_down
  /\ procs' = [procs EXCEPT ![p].proc = "dead"]
  /\ UNCHANGED <<mgr_pc, at, joining, started, running, IsOnroad, report, DoShutdown>>
=============================================================================
