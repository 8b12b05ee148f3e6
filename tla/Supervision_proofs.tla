------------------------- MODULE Supervision_proofs -------------------------
(***************************************************************************)
(* Proofs about the manager and hardwared, for every process table, every  *)
(* set of temperatures and every length of a join, a cycle and a hold, and *)
(* every number of events and crashes.                                     *)
(***************************************************************************)
EXTENDS MCSupervision, TLAPS, WellFoundedInduction

-----------------------------------------------------------------------------
Records == [proc : {"none", "alive", "dead"}, shutting_down : BOOLEAN]
Cleanup == {"signal", "reap", "exited"}

(* start() has nothing left to do for process p.                           *)
Settled(p) == procs[p].proc # "none" /\ ~procs[p].shutting_down

(* The walk over the table: stop() waits only for a process it has         *)
(* signalled, and the second loop leaves every entry it passes settled.    *)
WalkInv ==
  /\ procs \in [Names -> Records]
  /\ mgr_pc \in {"poll", "stop", "start", "report"} \union Cleanup
  /\ at \in 1..Len(Table) /\ joining \in Nat /\ running \subseteq Names
  /\ mgr_pc \in {"poll", "report"} => joining = 0
  /\ mgr_pc \in {"stop", "start"} /\ joining > 0 =>
       procs[Entry].proc # "none" /\ procs[Entry].shutting_down
  /\ mgr_pc = "start" /\ joining > 0 => Entry \in running
  /\ mgr_pc = "start" => \A i \in 1..at - 1 : Table[i] \in running => Settled(Table[i])
  /\ mgr_pc = "report" => \A p \in running : Settled(p)

(* A process missing from the pass is in the report that ends it.          *)
DeathInv ==
  /\ missing \subseteq {p \in Names : ~Alive(p)}
  /\ DeathIsReported

(* hardwared is never asked to exit while the manager runs, so the one     *)
(* that has seen the danger band is the one that cools down: nothing       *)
(* starts another that would not know.                                     *)
HotInv ==
  /\ thermal_status \in 0..3 /\ temps \in Readings
  /\ hot => thermal_status >= 2 /\ ~started_ts
  /\ mgr_pc \notin Cleanup => ~procs["hardwared"].shutting_down
  /\ mgr_pc \notin Cleanup /\ procs["hardwared"].proc = "none" => ~hot
  /\ mgr_pc = "stop" /\ joining > 0 => Entry # "hardwared"
-----------------------------------------------------------------------------
(* Every constant a proof uses.                                            *)
LEMMA TableFacts ==
  /\ Len(Table) \in Nat /\ Len(Table) > 0 /\ JoinTicks \in Nat
  /\ \A i \in 1..Len(Table) : Table[i] \in Names
  /\ \A i, j \in 1..Len(Table) : Table[i] = Table[j] => i = j
  /\ \A p \in Names : \E i \in 1..Len(Table) : p = Table[i]
  /\ "hardwared" \in Names /\ "hardwared" \notin Restarted
BY TableAssumption, SupervisionAssumption DEF Names

(* A set of naturals that is not empty has a least element.                *)
LEMMA LeastNatural == ASSUME NEW S, S \subseteq Nat, S # {} PROVE \E n \in S : \A m \in S : n <= m
<1>1. PICK n \in S : \A m \in S : ~(<<m, n>> \in OpToRel(<, Nat))
  BY NatLessThanWellFounded, WFMin
<1>2. ASSUME NEW m \in S, m < n PROVE <<m, n>> \in OpToRel(<, Nat)
  BY <1>2 DEF OpToRel
<1>3. ASSUME NEW m \in S PROVE n <= m
  <2>1. ~(m < n)
    BY <1>1, <1>2, Zenon
  <2>2. m \in Nat /\ n \in Nat
    OBVIOUS
  <2>3. QED
    BY <2>1, <2>2
<1>4. QED
  BY <1>3

(* The walk begins with nothing started.                                   *)
LEMMA WalkInit == MCInit => WalkInv /\ DeathInv /\ HotInv
<1> SUFFICES ASSUME MCInit PROVE WalkInv /\ DeathInv /\ HotInv
  OBVIOUS
<1>1. WalkInv
  BY TableFacts DEF MCInit, Init, MgrInit, WalkInv, Records, Cleanup
<1>2. DeathInv
  BY DEF MCInit, Init, MgrInit, DeathInv, DeathIsReported
<1>3. HotInv
  BY TableFacts DEF MCInit, Init, MgrInit, HwInit, HotInv, Cleanup
<1>4. QED
  BY <1>1, <1>2, <1>3

(* stop() of the entry the first loop is at, before, while or after it is  *)
(* held in a join.                                                         *)
LEMMA StopKeeps ==
  ASSUME WalkInv, mgr_pc = "stop", stop(Entry, FALSE, Advance("start")), UNCHANGED running
  PROVE  /\ WalkInv'
         /\ mgr_pc' \in {"stop", "start"}
         /\ \A p \in Names \ {Entry} : procs'[p] = procs[p]
         /\ procs'[Entry].proc = "alive" => Alive(Entry)
         /\ mgr_pc' = "stop" /\ joining' > 0 => at' = at
<1>1. Entry \in Names /\ procs[Entry] \in Records /\ at \in 1..Len(Table) /\ Len(Table) \in Nat
  BY TableFacts DEF WalkInv, Entry
<1>2. CASE /\ Alive(Entry) /\ procs[Entry].shutting_down /\ joining = 0
           /\ joining' = JoinTicks + 1 /\ UNCHANGED <<procs, mgr_pc, at>>
  BY <1>1, <1>2, TableFacts DEF WalkInv, Entry, Alive, Settled
<1>3. ASSUME Advance("start"), joining' = 0, procs' \in [Names -> Records],
             \A p \in Names \ {Entry} : procs'[p] = procs[p],
             procs'[Entry].proc = "alive" => Alive(Entry)
      PROVE  /\ WalkInv'
             /\ mgr_pc' \in {"stop", "start"}
             /\ \A p \in Names \ {Entry} : procs'[p] = procs[p]
             /\ procs'[Entry].proc = "alive" => Alive(Entry)
             /\ mgr_pc' = "stop" /\ joining' > 0 => at' = at
  BY <1>1, <1>3 DEF WalkInv, Advance
<1>4. CASE procs[Entry].proc = "none" /\ Advance("start") /\ UNCHANGED <<procs, joining>>
  BY <1>1, <1>3, <1>4 DEF WalkInv
<1>5. CASE procs[Entry].proc = "dead" /\ Gone(Entry) /\ joining' = 0 /\ Advance("start")
  <2>1. procs' \in [Names -> Records] /\ procs'[Entry].proc = "none"
    BY <1>1, <1>5 DEF WalkInv, Gone, Records
  <2>2. \A p \in Names \ {Entry} : procs'[p] = procs[p]
    BY <1>5 DEF Gone, WalkInv
  <2>3. QED
    BY <1>3, <1>5, <2>1, <2>2
<1>6. CASE /\ Alive(Entry) /\ ~procs[Entry].shutting_down
           /\ procs' = [procs EXCEPT ![Entry].shutting_down = TRUE]
           /\ Advance("start") /\ UNCHANGED joining
  <2>1. procs' \in [Names -> Records]
    BY <1>1, <1>6 DEF WalkInv, Records
  <2>2. \A p \in Names \ {Entry} : procs'[p] = procs[p]
    BY <1>6 DEF WalkInv
  <2>3. joining' = 0
    BY <1>6 DEF WalkInv
  <2>4. QED
    BY <1>3, <1>6, <2>1, <2>2, <2>3
<1>7. QED
  BY <1>2, <1>4, <1>5, <1>6 DEF stop

(* What a step does to hardwared: it is not asked to exit, and a new one   *)
(* is started only where there was none.                                   *)
HardwaredKept ==
  /\ Began("hardwared") => procs["hardwared"].proc = "none" /\ mgr_pc \notin Cleanup
  /\ mgr_pc' \notin Cleanup =>
       /\ mgr_pc \notin Cleanup
       /\ ~procs'["hardwared"].shutting_down
       /\ procs'["hardwared"].proc = "none" => procs["hardwared"].proc = "none"
       /\ mgr_pc' = "stop" /\ joining' > 0 => Entry' # "hardwared"

(* An entry that should run.                                               *)
LEMMA RunsKeeps ==
  ASSUME WalkInv, HotInv, mgr_pc = "stop", joining = 0, running' = running \union {Entry},
         IF Entry \in Restarted /\ procs[Entry].proc = "dead" THEN Spawned(Entry) ELSE UNCHANGED procs,
         Advance("start"), UNCHANGED joining
  PROVE  WalkInv' /\ HardwaredKept /\ mgr_pc' # "poll"
<1>1. Entry \in Names /\ at \in 1..Len(Table) /\ Len(Table) \in Nat
  BY TableFacts DEF WalkInv, Entry
<1>2. procs' \in [Names -> Records] /\ procs'["hardwared"] = procs["hardwared"]
  <2>1. [proc |-> "alive", shutting_down |-> FALSE] \in Records
    BY DEF Records
  <2>2. QED
    BY <1>1, <2>1, TableFacts DEF WalkInv, Spawned
<1>3. WalkInv' /\ mgr_pc' \in {"stop", "start"}
  BY <1>1, <1>2 DEF WalkInv, Advance
<1>4. QED
  BY <1>2, <1>3 DEF HardwaredKept, HotInv, Began, Alive, Cleanup

(* The first loop over the table.                                          *)
LEMMA FirstLoopKeeps ==
  ASSUME WalkInv, HotInv, ShouldRun \/ Joined
  PROVE  WalkInv' /\ HardwaredKept /\ mgr_pc' # "poll"
<1>1. CASE mgr_pc = "stop" /\ Entry # "hardwared" /\ stop(Entry, FALSE, Advance("start")) /\ UNCHANGED running
  <2>1. /\ WalkInv'
        /\ mgr_pc' \in {"stop", "start"}
        /\ \A p \in Names \ {Entry} : procs'[p] = procs[p]
        /\ mgr_pc' = "stop" /\ joining' > 0 => at' = at
    BY <1>1, StopKeeps
  <2>2. procs'["hardwared"] = procs["hardwared"]
    BY <1>1, <2>1, TableFacts
  <2>3. mgr_pc' = "stop" /\ joining' > 0 => Entry' # "hardwared"
    BY <1>1, <2>1 DEF Entry
  <2>4. QED
    BY <1>1, <2>1, <2>2, <2>3 DEF HardwaredKept, HotInv, Began, Alive, Cleanup
<1>2. CASE Joined
  BY <1>1, <1>2 DEF Joined, HotInv
<1>3. CASE ShouldRun
  <2>1. \/ /\ mgr_pc = "stop" /\ joining = 0 /\ running' = running \union {Entry}
           /\ IF Entry \in Restarted /\ procs[Entry].proc = "dead" THEN Spawned(Entry) ELSE UNCHANGED procs
           /\ Advance("start") /\ UNCHANGED joining
        \/ mgr_pc = "stop" /\ Entry # "hardwared" /\ stop(Entry, FALSE, Advance("start")) /\ UNCHANGED running
    BY <1>3 DEF ShouldRun, logging, ensure_running
  <2>2. QED
    BY <2>1, <1>1, RunsKeeps
<1>4. QED
  BY <1>2, <1>3

(* The second loop: start() collects what was signalled and starts what is *)
(* not there.                                                              *)
LEMMA StartEntryKeeps ==
  ASSUME WalkInv, HotInv, StartEntry
  PROVE  WalkInv' /\ HardwaredKept /\ mgr_pc' # "poll"
<1>1. /\ Entry \in Names /\ procs[Entry] \in Records /\ at \in 1..Len(Table) /\ Len(Table) \in Nat
      /\ mgr_pc = "start" /\ UNCHANGED running
  BY TableFacts DEF WalkInv, Entry, StartEntry
<1>2. CASE at \notin Unstarted
  <2>1. joining = 0 /\ UNCHANGED <<procs, joining>>
    BY <1>1, <1>2 DEF WalkInv, StartEntry, Unstarted, Entry
  <2>2. CASE Unstarted = {}
    <3>1. \A i \in 1..Len(Table) : Table[i] \in running => Settled(Table[i])
      BY <1>1, <2>2 DEF WalkInv, Unstarted, Settled
    <3>2. \A p \in running : Settled(p)
      BY <3>1, TableFacts DEF WalkInv
    <3>3. mgr_pc' = "report" /\ at' = 1
      BY <1>2, <2>2 DEF StartEntry
    <3>4. QED
      BY <1>1, <2>1, <3>2, <3>3 DEF WalkInv, Settled, HardwaredKept, HotInv, Began, Alive, Cleanup
  <2>3. CASE Unstarted # {}
    <3>1. at' \in Unstarted /\ (\A j \in Unstarted : at' <= j) /\ UNCHANGED mgr_pc
      <4>1. Unstarted \subseteq Nat
        BY <1>1 DEF Unstarted
      <4>2. \E i \in Unstarted : \A j \in Unstarted : i <= j
        BY <2>3, <4>1, LeastNatural
      <4>3. /\ at' = CHOOSE i \in Unstarted : \A j \in Unstarted : i <= j
            /\ UNCHANGED mgr_pc
        BY <1>2, <2>3 DEF StartEntry
      <4>4. QED
        BY <4>2, <4>3
    <3>2. PICK k \in 1..Len(Table) : at' = k
      BY <1>1, <3>1 DEF Unstarted
    <3>3. \A i \in 1..k - 1 : Table[i] \in running => Settled(Table[i])
      <4> SUFFICES ASSUME NEW i \in 1..k - 1, Table[i] \in running PROVE Settled(Table[i])
        OBVIOUS
      <4>1. i \in Int /\ 1 <= i /\ i < k /\ i <= Len(Table) /\ ~(k <= i)
        BY <1>1
      <4>2. i \notin Unstarted
        BY <3>1, <3>2, <4>1, Zenon
      <4>3. CASE i < at
        BY <1>1, <4>1, <4>3 DEF WalkInv
      <4>4. CASE i >= at
        BY <1>1, <4>1, <4>2, <4>4 DEF Unstarted, Settled
      <4>5. QED
        BY <1>1, <4>1, <4>3, <4>4
    <3>4. \A i \in 1..k - 1 : Table[i] \in running' => Settled(Table[i])'
      BY <1>1, <2>1, <3>3 DEF Settled
    <3>5. WalkInv'
      BY <1>1, <2>1, <3>1, <3>2, <3>4 DEF WalkInv, Settled
    <3>6. QED
      BY <1>1, <2>1, <3>1, <3>5 DEF HardwaredKept, HotInv, Began, Alive, Cleanup
  <2>4. QED
    BY <2>2, <2>3
<1>3. CASE at \in Unstarted
  <2>1. start(Entry) /\ Entry \in running
    BY <1>1, <1>3 DEF StartEntry, Unstarted, Entry
  <2>2. ASSUME UNCHANGED <<mgr_pc, at>>, joining' \in Nat, procs' \in [Names -> Records],
               \A p \in Names \ {Entry} : procs'[p] = procs[p],
               joining' > 0 => procs'[Entry].proc # "none" /\ procs'[Entry].shutting_down,
               Entry = "hardwared" => procs["hardwared"].proc = "none" /\ ~procs'["hardwared"].shutting_down
        PROVE  WalkInv' /\ HardwaredKept /\ mgr_pc' # "poll"
    <3>1. \A i \in 1..at - 1 : procs'[Table[i]] = procs[Table[i]]
      BY <1>1, <2>2, TableFacts DEF Entry
    <3>2. WalkInv'
      BY <1>1, <2>1, <2>2, <3>1 DEF WalkInv, Entry, Settled
    <3>3. HardwaredKept
      BY <1>1, <2>2, TableFacts DEF HardwaredKept, HotInv, Began, Alive, Cleanup
    <3>4. QED
      BY <1>1, <2>2, <3>2, <3>3
  <2>3. CASE ~procs[Entry].shutting_down /\ procs[Entry].proc = "none"
             /\ Spawned(Entry) /\ UNCHANGED <<mgr_pc, at, joining>>
    <3>1. procs' \in [Names -> Records] /\ ~procs'[Entry].shutting_down
      BY <1>1, <2>3 DEF WalkInv, Spawned, Records
    <3>2. \A p \in Names \ {Entry} : procs'[p] = procs[p]
      BY <2>3 DEF Spawned, WalkInv
    <3>3. QED
      BY <1>1, <2>2, <2>3, <3>1, <3>2 DEF WalkInv
  <2>4. CASE procs[Entry].shutting_down /\ stop(Entry, TRUE, UNCHANGED <<mgr_pc, at>>)
    <3>1. Entry # "hardwared"
      BY <1>1, <2>4 DEF HotInv, Cleanup
    <3>2. CASE procs[Entry].proc = "none"
      BY <1>1, <2>2, <2>4, <3>1, <3>2 DEF stop, Alive, WalkInv
    <3>3. CASE procs[Entry].proc = "dead"
      <4>1. Gone(Entry) /\ joining' = 0 /\ UNCHANGED <<mgr_pc, at>>
        BY <2>4, <3>3 DEF stop, Alive
      <4>2. procs' \in [Names -> Records]
        BY <1>1, <4>1 DEF WalkInv, Gone, Records
      <4>3. \A p \in Names \ {Entry} : procs'[p] = procs[p]
        BY <4>1 DEF Gone, WalkInv
      <4>4. QED
        BY <2>2, <3>1, <4>1, <4>2, <4>3
    <3>4. CASE Alive(Entry)
      <4>1. joining' = JoinTicks + 1 /\ UNCHANGED <<procs, mgr_pc, at>>
        BY <2>4, <3>4 DEF stop, Alive
      <4>2. QED
        BY <1>1, <2>2, <2>4, <3>1, <3>4, <4>1, TableFacts DEF WalkInv, Alive
    <3>5. QED
      BY <1>1, <3>2, <3>3, <3>4 DEF Records, Alive
  <2>5. QED
    BY <2>1, <2>3, <2>4 DEF start
<1>4. QED
  BY <1>2, <1>3

(* A child ends or is killed: its record says so and nothing else moves.   *)
LEMMA DeathKeeps ==
  ASSUME WalkInv, HotInv, NEW p \in Names, Alive(p),
         procs' = [procs EXCEPT ![p].proc = "dead"],
         UNCHANGED <<mgr_pc, at, joining, running>>
  PROVE  WalkInv' /\ HardwaredKept
<1>1. /\ procs' \in [Names -> Records]
      /\ \A q \in Names : /\ procs'[q].shutting_down = procs[q].shutting_down
                          /\ procs'[q].proc = IF q = p THEN "dead" ELSE procs[q].proc
  BY DEF WalkInv, Records
<1>2. Entry \in Names /\ \A i \in 1..at - 1 : Table[i] \in Names
  BY TableFacts DEF WalkInv, Entry
<1>3. WalkInv'
  BY <1>1, <1>2 DEF WalkInv, Settled, Alive, Entry
<1>4. QED
  BY <1>1, <1>3, TableFacts DEF HardwaredKept, HotInv, Began, Alive, Entry

(* The cleanup starts nothing.                                             *)
LEMMA CleanupKeeps ==
  ASSUME WalkInv, manager_cleanup
  PROVE  WalkInv' /\ HardwaredKept /\ mgr_pc' # "poll"
<1>1. /\ Entry \in Names /\ procs[Entry] \in Records /\ at \in 1..Len(Table) /\ Len(Table) \in Nat
      /\ mgr_pc \in {"signal", "reap"} /\ UNCHANGED running
  BY TableFacts DEF WalkInv, Entry, manager_cleanup
<1>2. /\ mgr_pc' \in Cleanup /\ at' \in 1..Len(Table) /\ joining' \in Nat
      /\ \/ UNCHANGED procs \/ Gone(Entry)
         \/ procs' = [procs EXCEPT ![Entry].shutting_down = TRUE]
  BY <1>1, TableFacts DEF manager_cleanup, stop, Advance, Cleanup, WalkInv
<1>3. /\ procs' \in [Names -> Records]
      /\ \A q \in Names : procs'[q].proc \in {"none", procs[q].proc}
  <2>1. [proc |-> "none", shutting_down |-> FALSE] \in Records
    BY DEF Records
  <2>2. CASE UNCHANGED procs
    BY <2>2 DEF WalkInv
  <2>3. CASE Gone(Entry)
    BY <1>1, <2>1, <2>3 DEF WalkInv, Gone
  <2>4. CASE procs' = [procs EXCEPT ![Entry].shutting_down = TRUE]
    BY <1>1, <2>4 DEF WalkInv, Records
  <2>5. QED
    BY <1>2, <2>2, <2>3, <2>4
<1>4. WalkInv'
  BY <1>1, <1>2, <1>3 DEF WalkInv, Cleanup
<1>5. HardwaredKept
  BY <1>2, <1>3, TableFacts DEF HardwaredKept, Began, Alive
<1>6. QED
  BY <1>2, <1>4, <1>5 DEF Cleanup

(* The report of the pass: whoever should run and is not alive has died    *)
(* unasked.                                                                *)
LEMMA SendStateKeeps ==
  ASSUME WalkInv, HotInv, DeathInv, SendState
  PROVE  /\ WalkInv' /\ HardwaredKept /\ UNCHANGED procs
         /\ missing \intersect running' \subseteq report'
<1>1. missing \intersect running \subseteq get_process_state_msg
  <2> SUFFICES ASSUME NEW p \in missing \intersect running PROVE p \in get_process_state_msg
    OBVIOUS
  <2>1. p \in Names /\ ~Alive(p) /\ procs[p] \in Records
    BY DEF DeathInv, WalkInv
  <2>2. Settled(p)
    BY DEF WalkInv, SendState
  <2>3. QED
    BY <2>1, <2>2 DEF Settled, Alive, Records, get_process_state_msg
<1>2. WalkInv' /\ mgr_pc' \in {"signal", "poll"} /\ UNCHANGED <<procs, running>>
  BY DEF WalkInv, SendState, Cleanup
<1>3. QED
  BY <1>1, <1>2 DEF SendState, HardwaredKept, HotInv, Began, Alive, Cleanup

(* Hardwared's memory follows hardwared.                                   *)
LEMMA HotFollows ==
  ASSUME HotInv, HardwaredKept, UNCHANGED <<temps, hot>>, ChildrenFollow
  PROVE  HotInv'
<1>1. CASE Began("hardwared")
  <2>1. ~hot
    BY <1>1 DEF HotInv, HardwaredKept
  <2>2. thermal_status' = 1
    BY <1>1 DEF ChildrenFollow, HwFresh
  <2>3. QED
    BY <2>1, <2>2 DEF HotInv, HardwaredKept, Cleanup
<1>2. CASE ~Began("hardwared")
  <2>1. UNCHANGED <<thermal_status, started_ts>>
    BY <1>2 DEF ChildrenFollow, hwVars
  <2>2. QED
    BY <2>1 DEF HotInv, HardwaredKept, Cleanup
<1>3. QED
  BY <1>1, <1>2

(* Every step of the manager and of a process that ends.                   *)
LEMMA ManagerKeeps ==
  ASSUME WalkInv, HotInv, DeathInv,
         ManagerStep \/ \E p \in Names : ProcessEnds(p) \/ Crash(p),
         missing' = {p \in missing : procs'[p].proc # "alive"}, UNCHANGED hot
  PROVE  WalkInv' /\ HotInv' /\ DeathInv'
<1>1. UNCHANGED temps /\ ChildrenFollow
  BY DEF ManagerStep, ProcessEnds, Crash, Others, carVars
<1>2. missing' \subseteq {p \in Names : procs'[p].proc # "alive"}
  BY DEF DeathInv
<1>3. ASSUME WalkInv', HardwaredKept, mgr_pc' = "poll" => missing' \intersect running' \subseteq report'
      PROVE  WalkInv' /\ HotInv' /\ DeathInv'
  BY <1>1, <1>2, <1>3, HotFollows DEF DeathInv, DeathIsReported, Alive
<1>4. CASE ShouldRun \/ Joined \/ StartEntry \/ manager_cleanup
  BY <1>3, <1>4, FirstLoopKeeps, StartEntryKeeps, CleanupKeeps
<1>5. CASE SendState
  <2>1. missing' \subseteq missing
    OBVIOUS
  <2>2. QED
    BY <1>3, <1>5, <2>1, SendStateKeeps
<1>6. CASE Sigkill
  <2>1. Entry \in Names
    BY TableFacts DEF Entry, WalkInv
  <2>2. WalkInv' /\ HardwaredKept
    BY <1>6, <2>1, DeathKeeps DEF Sigkill
  <2>3. mgr_pc' # "poll"
    BY <1>6 DEF Sigkill, WalkInv
  <2>4. QED
    BY <1>3, <2>2, <2>3
<1>7. CASE \E p \in Names : ProcessEnds(p) \/ Crash(p)
  <2>1. PICK p \in Names : ProcessEnds(p) \/ Crash(p)
    BY <1>7
  <2>2. /\ Alive(p) /\ procs' = [procs EXCEPT ![p].proc = "dead"]
        /\ UNCHANGED <<mgr_pc, at, joining, running, report>>
    BY <2>1 DEF ProcessEnds, Crash, Exits, Dies
  <2>3. WalkInv' /\ HardwaredKept
    BY <2>2, DeathKeeps
  <2>4. mgr_pc' = "poll" => missing' \intersect running' \subseteq report'
    BY <2>2 DEF DeathInv, DeathIsReported
  <2>5. QED
    BY <1>3, <2>3, <2>4
<1>8. QED
  BY <1>4, <1>5, <1>6, <1>7 DEF ManagerStep

(* A new pass begins: the list is empty and nobody is being waited for.    *)
LEMMA PollKeeps ==
  ASSUME WalkInv, HotInv, MCPoll
  PROVE  WalkInv' /\ HotInv' /\ DeathInv'
<1>1. /\ mgr_pc = "poll" /\ mgr_pc' = "stop" /\ running' = {} /\ joining = 0
      /\ UNCHANGED <<procs, at, joining, temps, hot, thermal_status, started_ts>>
  BY DEF MCPoll, Poll, manager_thread, hwVars, Others, carVars, WalkInv
<1>2. missing' = {p \in Names : ~Alive(p)}
  BY DEF MCPoll
<1>3. WalkInv'
  BY <1>1 DEF WalkInv
<1>4. HotInv'
  BY <1>1 DEF HotInv, Cleanup
<1>5. DeathInv'
  BY <1>1, <1>2 DEF DeathInv, DeathIsReported, Alive
<1>6. QED
  BY <1>3, <1>4, <1>5

(* What card, the car and the clock do says nothing new about processes or *)
(* temperatures; the clock only shortens a join.                           *)
LEMMA OthersKeep ==
  ASSUME WalkInv, HotInv, DeathInv,
         \/ /\ CardStep \/ CardTurn \/ World
            /\ missing' = {p \in missing : procs'[p].proc # "alive"} /\ UNCHANGED hot
         \/ MCTick
  PROVE  WalkInv' /\ HotInv' /\ DeathInv'
<1>1. /\ UNCHANGED <<procs, mgr_pc, at, running, report, thermal_status, started_ts, hot>>
      /\ joining' \in Nat /\ joining' <= joining /\ temps' \in Readings
      /\ missing' \subseteq missing
  <2>1. CASE CardStep \/ CardTurn
    <3>1. UNCHANGED <<mgrVars, hwVars, carVars>>
      BY <2>1 DEF CardStep, CardTurn, Quiet
    <3>2. missing' \subseteq missing /\ UNCHANGED hot
      BY DEF MCTick
    <3>3. QED
      BY <3>1, <3>2 DEF mgrVars, hwVars, carVars, WalkInv, HotInv
  <2>2. CASE World
    <3>1. temps' \in Readings
      BY <2>2 DEF World, carVars, HotInv
    <3>2. UNCHANGED <<mgrVars, hwVars>>
      BY <2>2 DEF World
    <3>3. missing' \subseteq missing /\ UNCHANGED hot
      BY DEF MCTick
    <3>4. QED
      BY <3>1, <3>2, <3>3 DEF mgrVars, hwVars, WalkInv
  <2>3. CASE MCTick
    BY <2>3 DEF MCTick, Tick, carVars, WalkInv, HotInv
  <2>4. QED
    BY <2>1, <2>2, <2>3
<1>2. WalkInv'
  BY <1>1 DEF WalkInv, Entry, Settled
<1>3. HotInv'
  BY <1>1 DEF HotInv, Entry, WalkInv
<1>4. DeathInv'
  BY <1>1 DEF DeathInv, DeathIsReported, Alive
<1>5. QED
  BY <1>2, <1>3, <1>4

(* An iteration of hardwared: out of the danger band it can only step down *)
(* to red, from which a drive does not begin, until a reading below 88.    *)
LEMMA HardwareKeeps ==
  ASSUME WalkInv, HotInv, DeathInv, MCHardware
  PROVE  WalkInv' /\ HotInv' /\ DeathInv'
<1>1. UNCHANGED <<procs, mgr_pc, at, joining, running, report, temps, missing>>
  BY DEF MCHardware, HardwareStep, carVars
<1>2. /\ thermal_status' = NextBand(temps)
      /\ started_ts' => thermal_status' < 3 /\ (started_ts \/ thermal_status' < 2)
      /\ hot' => thermal_status' = 3 \/ (hot /\ temps[1] >= 88)
      /\ temps[1] \in Int
  BY HwAssumption DEF MCHardware, HardwareStep, hardware_thread, should_start, HotInv
<1>3. NextBand(temps) \in 0..3
  BY <1>2 DEF NextBand, HotInv
<1>4. thermal_status >= 2 /\ temps[1] >= 88 => NextBand(temps) >= 2
  BY <1>2 DEF NextBand, HotInv, MinTemp, MaxTemp
<1>5. hot' => thermal_status' >= 2 /\ ~started_ts'
  BY <1>2, <1>3, <1>4 DEF HotInv
<1>6. procs["hardwared"].proc # "none"
  BY DEF MCHardware, HardwareStep, Alive
<1>7. WalkInv' /\ DeathInv'
  <2>1. WalkInv'
    BY <1>1 DEF WalkInv, Entry, Settled
  <2>2. DeathInv'
    BY <1>1 DEF DeathInv, DeathIsReported, Alive
  <2>3. QED
    BY <2>1, <2>2
<1>8. HotInv'
  BY <1>1, <1>2, <1>3, <1>5, <1>6 DEF HotInv, Entry
<1>9. QED
  BY <1>7, <1>8

(* Every step keeps the invariants.                                        *)
LEMMA SupervisionNext ==
  WalkInv /\ HotInv /\ DeathInv /\ [MCNext]_mcVars => WalkInv' /\ HotInv' /\ DeathInv'
<1> SUFFICES ASSUME WalkInv, HotInv, DeathInv, [MCNext]_mcVars PROVE WalkInv' /\ HotInv' /\ DeathInv'
  OBVIOUS
<1>1. CASE MCPoll
  BY <1>1, PollKeeps
<1>2. CASE MCOther
  BY <1>2, ManagerKeeps, OthersKeep DEF MCOther
<1>3. CASE MCHardware
  BY <1>3, HardwareKeeps
<1>4. CASE MCTick
  BY <1>4, OthersKeep
<1>5. CASE UNCHANGED mcVars
  BY <1>5 DEF mcVars, vars, mgrVars, hwVars, carVars, histVars, WalkInv, HotInv, DeathInv, DeathIsReported,
              Entry, Settled, Alive
<1>6. QED
  BY <1>1, <1>2, <1>3, <1>4, <1>5 DEF MCNext

(* So they hold always.                                                    *)
LEMMA SupervisionAlways == MCSpec => [](WalkInv /\ HotInv /\ DeathInv)
BY WalkInit, SupervisionNext, PTL DEF MCSpec

(* After the danger band no drive begins before a reading below 88,        *)
(* whatever crashes: no other hardwared is started that would not know     *)
(* (hardware_thread, process.py).                                          *)
THEOREM DriveAfterCooling == MCSpec => []CoolsDownFirst
<1>1. HotInv => CoolsDownFirst
  BY DEF HotInv, CoolsDownFirst
<1>2. QED
  BY <1>1, SupervisionAlways, PTL

(* A process that should run and was not alive during a whole pass is in   *)
(* the list the pass reports (ensure_running, get_process_state_msg).      *)
THEOREM NoSilentDeath == MCSpec => []DeathIsReported
<1>1. DeathInv => DeathIsReported
  BY DEF DeathInv
<1>2. QED
  BY <1>1, SupervisionAlways, PTL
=============================================================================
