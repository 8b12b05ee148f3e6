--------------------------- MODULE Network_proofs ---------------------------
(***************************************************************************)
(* Proofs about the network arbiter, for every set of networks, order of   *)
(* them, costs and waits: a working link is left for something better, and *)
(* the driver's pick for one of his own networks.  The last part is about  *)
(* what the uploader spends on the links the arbiter calls metered.        *)
(***************************************************************************)
EXTENDS MCNetwork, MeteredBudget, TLAPS, WellFoundedInduction

(* Numbered by naturals, the members of a set have a least one.            *)
LEMMA LeastOf ==
  ASSUME NEW S, S # {}, NEW f \in [S -> Nat]
  PROVE  \E s \in S : \A t \in S : f[s] <= f[t]
<1> DEFINE V == {f[s] : s \in S}
<1>1. V \subseteq Nat /\ V # {}
  OBVIOUS
<1> HIDE DEF V
<1>2. PICK k \in V : \A j \in V : ~(<<j, k>> \in OpToRel(<, Nat))
  BY <1>1, NatLessThanWellFounded, WFMin
<1>3. ASSUME NEW j \in V PROVE k <= j
  <2>1. j \in Nat /\ k \in Nat
    BY <1>1
  <2>2. j < k => <<j, k>> \in OpToRel(<, Nat)
    BY <2>1 DEF OpToRel
  <2>3. ~(j < k)
    BY <1>2, <2>2, Zenon
  <2> QED BY <2>1, <2>3
<1>4. PICK s \in S : f[s] = k
  BY DEF V
<1>5. \A t \in S : f[t] \in V
  BY DEF V
<1> QED
  BY <1>3, <1>4, <1>5

(* Every network has a class, a place in the driver's list and a name.     *)
LEMMA RankFacts ==
  ASSUME NEW n \in Nets, NEW metered, NEW unmetered
  PROVE  cost_class(n, metered, unmetered) \in Nat /\ member_rank(n) \in Nat /\ Order[n] \in Nat
<1>1. Len(Members) \in Nat /\ Order \in [Nets -> Nat]
  BY ArbiterAssumption
<1>2. member_rank(n) \in Nat
  <2>1. CASE n \in Configured
    <3>1. \E i \in 1..Len(Members) : Members[i] = n
      BY <2>1 DEF Configured
    <3>2. member_rank(n) \in 1..Len(Members)
      BY <2>1, <3>1 DEF member_rank
    <3> QED BY <1>1, <3>2
  <2>2. CASE n \notin Configured
    BY <1>1, <2>2 DEF member_rank
  <2> QED BY <2>1, <2>2
<1> QED
  BY <1>1, <1>2 DEF cost_class

(* Whatever is on offer, one network ranks before all the others: class,   *)
(* place and name break every tie.                                         *)
LEMMA OneRanksFirst ==
  ASSUME NEW C \in SUBSET Nets, C # {}, NEW metered, NEW unmetered
  PROVE  \E n \in C : \A m \in C : Ranks(n, m, metered, unmetered)
<1> DEFINE class == [n \in C |-> cost_class(n, metered, unmetered)]
<1>1. class \in [C -> Nat]
  BY RankFacts
<1>2. PICK c \in C : \A m \in C : class[c] <= class[m]
  BY <1>1, LeastOf
<1> DEFINE D == {n \in C : class[n] = class[c]}
           rank == [n \in D |-> member_rank(n)]
<1>3. D # {} /\ D \subseteq C /\ rank \in [D -> Nat]
  BY RankFacts
<1> HIDE DEF D
<1>4. PICK d \in D : \A m \in D : rank[d] <= rank[m]
  BY <1>3, LeastOf
<1> DEFINE E == {n \in D : rank[n] = rank[d]}
           name == [n \in E |-> Order[n]]
<1>5. E # {} /\ E \subseteq D /\ name \in [E -> Nat]
  BY <1>3, RankFacts
<1> HIDE DEF E
<1>6. PICK e \in E : \A m \in E : name[e] <= name[m]
  BY <1>5, LeastOf
<1>7. ASSUME NEW m \in C PROVE Ranks(e, m, metered, unmetered)
  <2>1. e \in D /\ e \in C /\ d \in C
    BY <1>3, <1>5
  <2>2. /\ class[e] = class[c] /\ rank[e] = rank[d]
        /\ class[e] = cost_class(e, metered, unmetered) /\ rank[e] = member_rank(e)
        /\ class[m] = cost_class(m, metered, unmetered)
    BY <1>5, <2>1 DEF D, E
  <2>3. class[c] <= class[m] /\ class[c] \in Nat /\ class[m] \in Nat
    BY <1>1, <1>2
  <2>4. CASE class[c] < class[m]
    BY <2>2, <2>4 DEF Ranks
  <2>5. CASE class[m] = class[c]
    <3>1. m \in D
      BY <2>5 DEF D
    <3>2. rank[d] <= rank[m] /\ rank[m] = member_rank(m) /\ rank[m] \in Nat /\ rank[d] \in Nat
      BY <1>3, <1>4, <3>1
    <3>3. CASE rank[d] < rank[m]
      BY <2>2, <2>5, <3>2, <3>3 DEF Ranks
    <3>4. CASE rank[m] = rank[d]
      <4>1. m \in E
        BY <3>1, <3>4 DEF E
      <4>2. Order[e] <= Order[m]
        BY <1>6, <4>1
      <4> QED BY <2>2, <2>5, <3>2, <3>4, <4>2 DEF Ranks
    <3> QED BY <3>2, <3>3, <3>4
  <2> QED BY <2>3, <2>4, <2>5
<1> QED
  BY <1>5, <1>3, <1>7

(* choose_wifi on a link: a network in the scan or the link itself, never  *)
(* one in its backoff but for the link, and nothing on offer before it.    *)
LEMMA ChoiceFacts ==
  ASSUME NEW scan, NEW active \in Nets, NEW metered, NEW unmetered, NEW blocked, NEW choice,
         choice = choose_wifi(scan, Nets, metered, unmetered, active, blocked)
  PROVE  /\ choice \in Nets /\ choice \in scan \cup {active} /\ choice \notin blocked \ {active}
         /\ \A m \in Candidates(scan, Nets, active, blocked) : Ranks(choice, m, metered, unmetered)
         /\ Ranks(choice, active, metered, unmetered)
<1> DEFINE C == Candidates(scan, Nets, active, blocked)
<1>1. C \in SUBSET Nets /\ active \in C
  BY DEF Candidates
<1>2. \A n \in C : n \in scan \cup {active} /\ n \notin blocked \ {active}
  BY DEF Candidates
<1>3. choice = CHOOSE n \in C : \A m \in C : Ranks(n, m, metered, unmetered)
  BY <1>1 DEF choose_wifi
<1> HIDE DEF C
<1>4. \E n \in C : \A m \in C : Ranks(n, m, metered, unmetered)
  BY <1>1, OneRanksFirst
<1>5. choice \in C /\ \A m \in C : Ranks(choice, m, metered, unmetered)
  BY <1>3, <1>4, Zenon
<1> QED
  BY <1>1, <1>2, <1>5 DEF C

-----------------------------------------------------------------------------
(* What a pass reads of the active connection.                             *)
LEMMA CostsRead ==
  ASSUME NEW fault, NEW omitted, NEW l, NEW p, NEW r, r = Reads(fault, omitted, l, p), tethering, ladder,
         NEW n, n \in (r.scan \cap r.saved) \cup ({r.ssid} \cap Nets)
  PROVE  /\ n \in r.dear <=> n \in r.costs /\ Cost[n] = "yes"
         /\ n \in r.free <=> n \in r.costs /\ Cost[n] = "no"
BY DEF Reads

(* Everything in r.free was listed by a scan or is the link itself.        *)
LEMMA FreeIsFree ==
  ASSUME NEW fault, NEW omitted, NEW l, NEW p, NEW r, r = Reads(fault, omitted, l, p), NEW n \in r.free
  PROVE  Cost[n] = "no"
BY DEF Reads

(* The verdict on an active network that is not known to be unusable: it   *)
(* is not blamed, and it keeps its place unless the last that was known of *)
(* it was bad.                                                             *)
IsVerdict(v, readable, ssid, usable, pending, known) ==
  /\ readable = TRUE /\ ssid \in Nets /\ usable \in {"yes", "unread"}
  /\ v = judge_link(readable, ssid, usable, pending, known)

LEMMA VerdictFacts ==
  ASSUME NEW readable, NEW ssid, NEW usable, NEW pending, NEW known, NEW v,
         IsVerdict(v, readable, ssid, usable, pending, known)
  PROVE  /\ v.sticky = ssid \/ (usable = "unread" /\ known = "no")
         /\ v.blame = ssid => v.ok
<1> USE DEF IsVerdict
<1>1. ssid # NoNet
  BY ArbiterAssumption
<1>2. CASE pending.ssid = NoNet
  <2>1. CASE usable = "yes"
    <3>1. v = Verdict(ssid, ssid, TRUE, NoPending)
      BY <1>1, <1>2, <2>1 DEF judge_link
    <3>2. v.sticky = ssid /\ v.ok = TRUE
      BY <3>1 DEF Verdict
    <3> QED BY <3>2, Zenon
  <2>2. CASE usable = "unread"
    <3>1. v = Verdict(IF known = "no" THEN NoNet ELSE ssid, NoNet, FALSE, NoPending)
      BY <1>1, <1>2, <2>2 DEF judge_link
    <3>2. v.sticky = (IF known = "no" THEN NoNet ELSE ssid) /\ v.blame = NoNet
      BY <3>1 DEF Verdict
    <3> QED BY <1>1, <2>2, <3>2
  <2> QED BY <2>1, <2>2
<1>3. CASE pending.ssid # NoNet /\ pending.ssid # ssid
  <2>1. \E q : v = Verdict(ssid, NoNet, FALSE, q)
    BY <1>1, <1>3 DEF judge_link
  <2>2. v.sticky = ssid /\ v.blame = NoNet
    BY <2>1 DEF Verdict
  <2> QED BY <1>1, <2>2
<1>4. CASE pending.ssid = ssid
  <2>1. CASE usable = "yes"
    <3>1. v = Verdict(ssid, ssid, TRUE, NoPending)
      BY <1>1, <1>4, <2>1 DEF judge_link
    <3>2. v.sticky = ssid /\ v.ok = TRUE
      BY <3>1 DEF Verdict
    <3> QED BY <3>2, Zenon
  <2>2. CASE usable = "unread"
    <3>1. v = Verdict(ssid, NoNet, FALSE, pending)
      BY <1>1, <1>4, <2>2 DEF judge_link
    <3>2. v.sticky = ssid /\ v.blame = NoNet
      BY <3>1 DEF Verdict
    <3> QED BY <1>1, <3>2
  <2> QED BY <2>1, <2>2
<1> QED
  BY <1>1, <1>2, <1>3, <1>4

(* A pass, by the names of what it reads and decides.                      *)
Pass(fault, omitted, readable, picked, judged, l, p, r, v, led, seen, come) ==
  /\ readable = (fault # "active") /\ l = read_active(readable)
  /\ picked = (fault # "pick") /\ p = read_pick(picked)
  /\ r = Reads(fault, omitted, l, p)
  /\ judged = ~Defers(l)
  /\ v = judge_link(judged, r.ssid, r.usable, pending_for_new_link(r.ssid, l.pending, l.prev),
                    IF r.ssid = NoNet THEN "unread" ELSE l.usable[r.ssid])
  /\ seen = [p EXCEPT !.missing = update_home_arrival(@, r.scanned, r.raw, gps)]
  /\ come = Arrivals(r.raw, r.saved, r.free, _blocked(led), p.key.ssid, seen.missing)
  /\ Concludes(fault, l, p, r, v, led, seen, come)

LEMMA PassParts ==
  ASSUME NEW fault, NEW omitted, look(fault, omitted)
  PROVE  \E readable, picked, judged \in BOOLEAN : \E l, p, r, v, led, seen, come :
           Pass(fault, omitted, readable, picked, judged, l, p, r, v, led, seen, come)
<1> DEFINE Come(l, p, r, v, led, seen) ==
             \E come \in {Arrivals(r.raw, r.saved, r.free, _blocked(led), p.key.ssid, seen.missing)} :
               Concludes(fault, l, p, r, v, led, seen, come)
           Seen(l, p, r, v, led) ==
             \E seen \in {[p EXCEPT !.missing = update_home_arrival(@, r.scanned, r.raw, gps)]} :
               Come(l, p, r, v, led, seen)
           Led(l, p, r, v) ==
             \E led \in {_forget_on_reappearance(Blamed(v, l.join), r.scanned, r.raw)} :
               Seen(l, p, r, v, led)
<1>1. PICK l \in {read_active(fault # "active")}, p \in {read_pick(fault # "pick")} :
        \E r \in {Reads(fault, omitted, l, p)} : \E v \in {Judged(l, r)} : Led(l, p, r, v)
  BY Zenon DEF look
<1>2. PICK r \in {Reads(fault, omitted, l, p)} : \E v \in {Judged(l, r)} : Led(l, p, r, v)
  BY <1>1, Zenon
<1> HIDE DEF Led
<1>3. PICK v \in {Judged(l, r)} : Led(l, p, r, v)
  BY <1>2, Zenon
<1> HIDE DEF Seen
<1>4. PICK led : Seen(l, p, r, v, led)
  BY <1>3, Zenon DEF Led
<1> HIDE DEF Come
<1>5. PICK seen \in {[p EXCEPT !.missing = update_home_arrival(@, r.scanned, r.raw, gps)]} :
        Come(l, p, r, v, led, seen)
  BY <1>4, Zenon DEF Seen
<1>6. PICK come \in {Arrivals(r.raw, r.saved, r.free, _blocked(led), p.key.ssid, seen.missing)} :
        Concludes(fault, l, p, r, v, led, seen, come)
  BY <1>5, Zenon DEF Come
<1>7. /\ l = read_active(fault # "active") /\ p = read_pick(fault # "pick")
      /\ r = Reads(fault, omitted, l, p) /\ v = Judged(l, r)
      /\ seen = [p EXCEPT !.missing = update_home_arrival(@, r.scanned, r.raw, gps)]
      /\ come = Arrivals(r.raw, r.saved, r.free, _blocked(led), p.key.ssid, seen.missing)
  BY <1>1, <1>2, <1>3, <1>5, <1>6, Zenon
<1>8. PICK readable \in BOOLEAN, picked \in BOOLEAN, judged \in BOOLEAN :
        readable = (fault # "active") /\ picked = (fault # "pick") /\ judged = ~Defers(l)
  BY Zenon
<1>9. l = read_active(readable) /\ p = read_pick(picked)
  BY <1>7, <1>8, Zenon
<1>10. v = judge_link(judged, r.ssid, r.usable, pending_for_new_link(r.ssid, l.pending, l.prev),
                      IF r.ssid = NoNet THEN "unread" ELSE l.usable[r.ssid])
  BY <1>7, <1>8, Zenon DEF Judged
<1>11. Pass(fault, omitted, readable, picked, judged, l, p, r, v, led, seen, come)
  BY <1>6, <1>7, <1>8, <1>9, <1>10, Zenon DEF Pass
<1>12. \E m, q, s, w, lg, sn, cm :
         Pass(fault, omitted, readable, picked, judged, m, q, s, w, lg, sn, cm)
  BY <1>11, Zenon
<1> QED
  BY <1>8, <1>12, Zenon

-----------------------------------------------------------------------------
(* The world, and what the daemon keeps of the active connection.          *)
WorldInv ==
  /\ events \in Nat /\ faults \in 0..MaxFaults
  /\ range \subseteq Nets /\ works \subseteq Nets
  /\ gps = "away" => range \cap Stationary = {}

LinkInv ==
  /\ DOMAIN link = {"pending", "join", "prev", "seen", "requested", "unread", "usable"}
  /\ link.unread \in Int /\ link.unread >= -1

(* read_active: a readable connection is noted, and an unreadable one      *)
(* counted, for at most HoldTicks.                                         *)
LEMMA ReadActive ==
  ASSUME LinkInv, NEW readable \in BOOLEAN, NEW l, l = read_active(readable)
  PROVE  /\ DOMAIN l = DOMAIN link /\ l.usable = link.usable
         /\ l.unread \in Int /\ l.unread >= -1
         /\ readable => l.unread = -1
         /\ ~readable => l.unread >= 0
<1>1. CASE readable
  <2>1. l = [link EXCEPT !.pending = AgedPending, !.unread = -1, !.seen = radio, !.requested = NoNet]
    BY <1>1 DEF read_active
  <2>2. l.unread = -1
    BY <2>1 DEF LinkInv
  <2>3. DOMAIN l = DOMAIN link /\ l.usable = link.usable
    BY <2>1 DEF LinkInv
  <2>4. l.unread \in Int /\ l.unread >= -1
    BY <2>2
  <2> QED BY <1>1, <2>2, <2>3, <2>4, Zenon
<1>2. CASE ~readable
  <2>1. l = [link EXCEPT !.pending = AgedPending, !.unread = Capped(@ + 1, HoldTicks)]
    BY <1>2 DEF read_active
  <2>2. l.unread = Capped(link.unread + 1, HoldTicks)
    BY <2>1 DEF LinkInv
  <2>3. HoldTicks \in Nat \ {0}
    BY LoopAssumption
  <2>4. l.unread \in Int /\ l.unread >= 0
    BY <2>2, <2>3 DEF LinkInv, Capped
  <2> QED BY <1>2, <2>1, <2>4 DEF LinkInv
<1> QED
  BY <1>1, <1>2

(* What a pass keeps of the link.                                          *)
LinkAfter(l, r) ==
  /\ DOMAIN link' = DOMAIN l
  /\ link'.unread = l.unread /\ link'.seen = l.seen /\ link'.requested = l.requested
  /\ r.usable = "unread" => link'.usable = l.usable

LEMMA KeepsLink ==
  ASSUME NEW fault, NEW l, NEW p, NEW r, NEW v, NEW led, NEW seen, NEW come,
         Concludes(fault, l, p, r, v, led, seen, come),
         DOMAIN l = {"pending", "join", "prev", "seen", "requested", "unread", "usable"}
  PROVE  LinkAfter(l, r)
<1>1. PICK join, usable :
        /\ r.usable = "unread" => usable = l.usable
        /\ link' = [l EXCEPT !.pending = v.pending, !.prev = r.ssid, !.join = join, !.usable = usable]
  <2>1. link' = [l EXCEPT !.pending = v.pending, !.prev = r.ssid,
                    !.join = IF v.blame = l.join.ssid THEN NoJoin ELSE @,
                    !.usable = IF r.usable = "unread" THEN @
                               ELSE [@ EXCEPT ![r.ssid] = r.usable]]
    BY Zenon DEF Concludes
  <2> QED BY <2>1
<1>2. /\ DOMAIN link' = DOMAIN l
      /\ link'.unread = l.unread /\ link'.seen = l.seen /\ link'.requested = l.requested
      /\ link'.usable = usable
  BY <1>1
<1> QED
  BY <1>1, <1>2, Zenon DEF LinkAfter

LEMMA WorldInit == Init => WorldInv
BY NetworkAssumption DEF Init, WorldInv

LEMMA WorldNext == WorldInv /\ [Next]_vars => WorldInv'
<1> SUFFICES ASSUME WorldInv, [Next]_vars PROVE WorldInv'
  OBVIOUS
<1>1. MaxFaults \in Nat /\ MaxEvents \in Nat
  BY NetworkAssumption
<1>2. CASE Look
  <2>1. PICK fault, omitted : look(fault, omitted) /\ UNCHANGED events
    BY <1>2, Zenon DEF Look
  <2>2. UNCHANGED <<range, works, gps, events>>
    BY <2>1, Zenon DEF look
  <2>3. faults' = faults \/ (faults < MaxFaults /\ faults' = faults + 1)
    BY <1>2, Zenon DEF Look
  <2>4. faults' \in 0..MaxFaults
    BY <1>1, <2>3 DEF WorldInv
  <2> QED BY <2>2, <2>4 DEF WorldInv
<1>3. CASE Joins \/ Refused \/ NotAwake \/ ApUp \/ ApDown
  <2>1. UNCHANGED <<range, works, gps, events>>
    BY <1>3, Zenon DEF Joins, Refused, NotAwake, ApUp, ApDown, _apply
  <2>2. faults' = faults \/ (faults < MaxFaults /\ faults' = faults + 1)
    BY <1>3, Zenon DEF Joins, Refused, NotAwake, ApUp, ApDown
  <2>3. faults' \in 0..MaxFaults
    BY <1>1, <2>2 DEF WorldInv
  <2> QED BY <2>1, <2>3 DEF WorldInv
<1>4. ASSUME Happens, UNCHANGED <<range, gps>>, works' \subseteq Nets PROVE WorldInv'
  BY <1>4 DEF Happens, WorldInv
<1>5. CASE ComesAndGoes
  BY <1>5 DEF ComesAndGoes, Happens, WorldInv
<1>6. CASE Drives
  BY <1>6 DEF Drives, Happens, WorldInv
<1>7. CASE BreaksOrRecovers
  BY <1>7 DEF BreaksOrRecovers, Happens, WorldInv
<1>8. CASE Picks \/ Autoconnects \/ Toggles
  BY <1>4, <1>8 DEF Picks, Autoconnects, Toggles, WorldInv
<1>9. CASE Restarts
  BY <1>9 DEF Restarts, WorldInv
<1>10. CASE UNCHANGED vars
  BY <1>10 DEF vars, WorldInv
<1> QED
  BY <1>2, <1>3, <1>5, <1>6, <1>7, <1>8, <1>9, <1>10 DEF Next

LEMMA LinkInit == ArbiterInit => LinkInv
BY DEF ArbiterInit, LinkInv, Link0

LEMMA LinkNext == LinkInv /\ [Next]_vars => LinkInv'
<1> SUFFICES ASSUME LinkInv, [Next]_vars PROVE LinkInv'
  OBVIOUS
<1>1. CASE Look
  <2>1. PICK fault, omitted : look(fault, omitted)
    BY <1>1, Zenon DEF Look
  <2>2. PICK readable, picked, judged \in BOOLEAN : \E l, p, r, v, led, seen, come :
          Pass(fault, omitted, readable, picked, judged, l, p, r, v, led, seen, come)
    BY <2>1, PassParts, Zenon
  <2>3. PICK l, p, r, v, led, seen, come :
          Pass(fault, omitted, readable, picked, judged, l, p, r, v, led, seen, come)
    BY <2>2, Zenon
  <2>4. l = read_active(readable) /\ Concludes(fault, l, p, r, v, led, seen, come)
    BY <2>3, Zenon DEF Pass
  <2>5. DOMAIN l = {"pending", "join", "prev", "seen", "requested", "unread", "usable"}
    BY <2>4, ReadActive, Zenon DEF LinkInv
  <2>6. l.unread \in Int /\ l.unread >= -1
    BY <2>4, ReadActive, Zenon
  <2>7. DOMAIN link' = DOMAIN l /\ link'.unread = l.unread
    BY <2>4, <2>5, KeepsLink, Zenon DEF LinkAfter
  <2> QED BY <2>5, <2>6, <2>7, Zenon DEF LinkInv
<1>2. ASSUME NEW outcome, NEW wait, NEW class, _apply(outcome, wait, class) PROVE LinkInv'
  <2>1. \/ link' = [link EXCEPT !.pending = [ssid |-> todo.ssid, age |-> 0],
                               !.requested = todo.ssid, !.prev = todo.ssid,
                               !.join = [ssid |-> todo.ssid, class |-> class],
                               !.usable[todo.ssid] = "unread"]
        \/ link' = [link EXCEPT !.requested = IF todo.action = "up_hotspot" THEN Hotspot ELSE NoNet]
    BY <1>2, Zenon DEF _apply
  <2>2. DOMAIN link' = DOMAIN link /\ link'.unread = link.unread
    BY <2>1 DEF LinkInv
  <2> QED BY <2>2 DEF LinkInv
<1>3. CASE Joins \/ Refused \/ NotAwake \/ ApUp \/ ApDown
  BY <1>2, <1>3, Zenon DEF Joins, Refused, NotAwake, ApUp, ApDown
<1>4. CASE ComesAndGoes \/ Drives \/ BreaksOrRecovers \/ Picks \/ Autoconnects \/ Toggles
  <2>1. link' = link
    BY <1>4, Zenon DEF ComesAndGoes, Drives, BreaksOrRecovers, Picks, Autoconnects, Toggles, Happens
  <2> QED BY <2>1 DEF LinkInv
<1>5. CASE Restarts
  BY <1>5 DEF Restarts, start, Link0, LinkInv
<1>6. CASE UNCHANGED vars
  BY <1>6 DEF vars, arbiter_vars, LinkInv
<1> QED
  BY <1>1, <1>3, <1>4, <1>5, <1>6, Zenon DEF Next

-----------------------------------------------------------------------------
(* A step that leaves a working link is a pass of the daemon.              *)
LEMMA LeavesIsLook ==
  ASSUME [MCNext]_mc_vars, Leaves
  PROVE  Look /\ todo = noop /\ Raises(todo')
<1>1. todo = noop /\ Raises(todo')
  BY Zenon DEF Leaves, Polled
<1>2. todo.action = "noop" /\ ~Raises(todo)
  BY <1>1 DEF Raises, noop, Does
<1>3. todo' # todo /\ todo' # noop
  BY <1>1, <1>2, Zenon
<1>4. Next
  <2>1. ~UNCHANGED mc_vars
    BY <1>3 DEF mc_vars, vars, arbiter_vars
  <2> QED BY <2>1, Zenon DEF MCNext
<1>5. ~(Joins \/ Refused \/ NotAwake \/ ApUp \/ ApDown)
  BY <1>1, <1>2, Zenon DEF Joins, Refused, NotAwake, ApUp, ApDown, _apply
<1>6. ~(ComesAndGoes \/ Drives \/ BreaksOrRecovers \/ Picks \/ Autoconnects \/ Toggles)
  BY <1>3, Zenon DEF ComesAndGoes, Drives, BreaksOrRecovers, Picks, Autoconnects, Toggles, Happens
<1>7. ~Restarts
  BY <1>3, Zenon DEF Restarts, start
<1> QED
  BY <1>1, <1>4, <1>5, <1>6, <1>7, Zenon DEF Next

(* What raises the radio from a working link passed every hold.            *)
LEMMA HeldFacts ==
  ASSUME NEW d, NEW l, NEW p, NEW ssid, NEW metered, NEW sticky, NEW t,
         t = held(d, l, p, ssid, metered, sticky), Raises(t)
  PROVE  t = d /\ ~CostHold(ssid, metered, sticky) /\ ~PinHold(p) /\ ~Defers(l)
<1>1. ~Raises(noop)
  BY DEF Raises, noop, Does
<1> QED
  BY <1>1, Zenon DEF held

(* A raise with both switches on, from an active network that keeps its    *)
(* place: another network on offer that ranks before it.                   *)
IsRaise(d, on, active, scan, metered, unmetered, blocked) ==
  /\ on = TRUE /\ active \in Nets /\ Raises(d)
  /\ d = decide(on, on, active, active, scan, Nets, metered, unmetered, blocked)

LEMMA RaiseFacts ==
  ASSUME NEW on, NEW scan, NEW active, NEW metered, NEW unmetered, NEW blocked, NEW d,
         IsRaise(d, on, active, scan, metered, unmetered, blocked)
  PROVE  /\ d.ssid \in Nets \ {active} /\ d.ssid \in scan
         /\ Ranks(d.ssid, active, metered, unmetered)
<1> USE DEF IsRaise
<1>1. PICK choice : choice = choose_wifi(scan, Nets, metered, unmetered, active, blocked)
  BY Zenon
<1>2. /\ choice \in Nets /\ choice \in scan \cup {active}
      /\ Ranks(choice, active, metered, unmetered)
  BY <1>1, ChoiceFacts
<1>3. choice # NoNet
  BY <1>2, ArbiterAssumption
<1>4. d = IF active = choice THEN noop ELSE Does("up", choice)
  BY <1>1, <1>3 DEF decide
<1>5. ~Raises(noop)
  BY DEF Raises, noop, Does
<1>6. active # choice /\ d = Does("up", choice)
  BY <1>4, <1>5, Zenon
<1>7. d.ssid = choice
  BY <1>6 DEF Does
<1> QED
  BY <1>2, <1>6, <1>7

(* A pass that could not read the active connection.                       *)
LEMMA StaysUnread ==
  ASSUME LinkInv, NEW readable \in BOOLEAN, ~readable, NEW l, l = read_active(readable), ~Defers(l),
         NEW fault, NEW p, NEW r, NEW v, NEW led, NEW seen, NEW come,
         Concludes(fault, l, p, r, v, led, seen, come)
  PROVE  link'.unread >= HoldTicks \/ (link'.unread >= 0 /\ ~HoldingOn(link'))
<1>1. DOMAIN l = DOMAIN link /\ l.unread \in Int /\ l.unread >= 0
  BY ReadActive
<1>2. /\ link'.unread = l.unread /\ link'.seen = l.seen /\ link'.requested = l.requested
  <2>1. DOMAIN l = {"pending", "join", "prev", "seen", "requested", "unread", "usable"}
    BY <1>1 DEF LinkInv
  <2>2. LinkAfter(l, r)
    BY <2>1, KeepsLink, Zenon
  <2> QED BY <2>2, Zenon DEF LinkAfter
<1>3. HoldingOn(link') <=> HoldingOn(l)
  BY <1>2 DEF HoldingOn
<1>4. HoldTicks \in Nat
  BY LoopAssumption
<1>5. ~HoldingOn(l) \/ ~(l.unread < HoldTicks)
  BY Zenon DEF Defers
<1> QED
  BY <1>1, <1>2, <1>3, <1>4, <1>5

(* A pass that read a working link, and judged it from what it read.       *)
WasRead(fault, omitted, l, p, r) == r = Reads(fault, omitted, l, p)

LEMMA ReadsALink ==
  ASSUME radio \in Nets, radio \in works, lease = 0,
         NEW fault, fault # "active", NEW omitted, NEW l, NEW p, NEW r,
         WasRead(fault, omitted, l, p, r)
  PROVE  /\ r.active = radio /\ r.ssid = radio /\ (fault # "saved" => r.saved = Nets)
         /\ r.usable \in {"yes", "unread"} /\ r.raw \subseteq range
         /\ r.scan = r.raw \cup ({radio} \cap Configured)
<1> USE DEF WasRead
<1>1. /\ r.active = IF fault # "active" THEN radio ELSE NoNet
      /\ r.ssid = IF r.active \in Nets THEN r.active ELSE NoNet
      /\ r.raw = IF r.scanned THEN range \ omitted ELSE {}
      /\ r.scan = r.raw \cup ({r.ssid} \cap Configured)
      /\ r.saved = IF fault = "saved" THEN {} ELSE Nets
  BY DEF Reads
<1>2. r.active = radio /\ r.ssid = radio /\ (fault # "saved" => r.saved = Nets)
  <2>1. r.active = radio
    BY <1>1, Zenon
  <2>2. r.ssid = radio
    BY <1>1, <2>1, Zenon
  <2>3. fault # "saved" => r.saved = Nets
    BY <1>1, Zenon
  <2> QED BY <2>1, <2>2, <2>3, Zenon
<1>3. r.raw \subseteq range /\ r.scan = r.raw \cup ({radio} \cap Configured)
  BY <1>1, <1>2
<1>4. radio # NoNet
  BY ArbiterAssumption
<1>5. r.usable = _client_link_usable(radio, fault # "usable")
  <2>1. r.usable = _client_link_usable(r.ssid, fault # "usable")
    BY Zenon DEF Reads
  <2> QED BY <1>2, <2>1, Zenon
<1>6. r.usable \in {"yes", "unread"}
  <2>1. r.usable = IF radio = NoNet \/ ~(fault # "usable") THEN "unread"
                   ELSE IF radio \in works /\ lease = 0 THEN "yes" ELSE "no"
    BY <1>5, Zenon DEF _client_link_usable
  <2> QED BY <1>4, <2>1
<1> QED
  BY <1>2, <1>3, <1>6, Zenon

(* The ranking by the costs a pass has read is the one of the costs known. *)
LEMMA RanksKnown ==
  ASSUME tethering, ladder, NEW fault, NEW omitted, NEW l, NEW p, NEW r, WasRead(fault, omitted, l, p, r),
         r.saved = Nets, r.ssid \in Nets,
         NEW n \in Nets, n \in r.scan, Ranks(n, r.ssid, r.dear, r.free)
  PROVE  Ranks(n, r.ssid, Dear \cap r.costs, Free \cap r.costs)
<1> USE DEF WasRead
<1>1. /\ n \in r.dear <=> n \in Dear \cap r.costs
      /\ n \in r.free <=> n \in Free \cap r.costs
  BY CostsRead DEF Dear, Free
<1>2. /\ r.ssid \in r.dear <=> r.ssid \in Dear \cap r.costs
      /\ r.ssid \in r.free <=> r.ssid \in Free \cap r.costs
  BY CostsRead DEF Dear, Free
<1>3. /\ cost_class(n, r.dear, r.free) = cost_class(n, Dear \cap r.costs, Free \cap r.costs)
      /\ cost_class(r.ssid, r.dear, r.free) = cost_class(r.ssid, Dear \cap r.costs, Free \cap r.costs)
  BY <1>1, <1>2 DEF cost_class
<1> QED
  BY <1>3, Zenon DEF Ranks

(* A connection that was read is not held on to.                           *)
LEMMA NothingToHold ==
  ASSUME NEW l, l.unread = -1
  PROVE  ~Defers(l)
BY DEF Defers, HoldingOn

(* What a pass that raises the radio from a working link went by: the link *)
(* was read, every hold was passed, and the link kept its place unless the *)
(* last that was known of it was bad.                                      *)
LeftFor(l, r, v, led) ==
  /\ radio \in Nets /\ tethering = TRUE /\ ladder = TRUE
  /\ l.unread = -1 /\ l.usable = link.usable /\ DOMAIN l = DOMAIN link
  /\ r.active = radio /\ r.ssid = radio /\ r.raw \subseteq range
  /\ r.scan = r.raw \cup ({radio} \cap Configured)
  /\ v.sticky = radio \/ (r.usable = "unread" /\ l.usable[radio] = "no")
  /\ v.blame = radio => v.ok
  /\ todo' = decide(tethering, ladder, r.active, v.sticky, r.scan, r.saved, r.dear, r.free,
                    _blocked(led))
  /\ ~PinHold(pin')

LEMMA LeavesByReading ==
  ASSUME WorldInv, LinkInv, OnWorkingLink, Raises(todo'),
         NEW fault, fault # "active", NEW omitted,
         NEW readable \in BOOLEAN, NEW picked \in BOOLEAN, NEW judged \in BOOLEAN,
         NEW l, NEW p, NEW r, NEW v, NEW led, NEW seen, NEW come,
         Pass(fault, omitted, readable, picked, judged, l, p, r, v, led, seen, come)
  PROVE  LeftFor(l, r, v, led)
<1>1. radio \in Nets /\ radio \in works /\ lease = 0 /\ tethering /\ ladder
  BY DEF OnWorkingLink, WorldInv
<1>2. tethering = TRUE /\ ladder = TRUE
  BY <1>1 DEF OnWorkingLink
<1>3. r = Reads(fault, omitted, l, p) /\ readable /\ l = read_active(readable)
  BY Zenon DEF Pass
<1>4. l.unread = -1 /\ l.usable = link.usable /\ DOMAIN l = DOMAIN link
  BY <1>3, ReadActive, Zenon
<1>5. /\ r.active = radio /\ r.ssid = radio /\ r.raw \subseteq range
      /\ r.scan = r.raw \cup ({radio} \cap Configured)
      /\ r.usable \in {"yes", "unread"}
  <2>1. WasRead(fault, omitted, l, p, r)
    BY <1>3, Zenon DEF WasRead
  <2> QED BY <1>1, <2>1, ReadsALink, Zenon
<1>6. ~Defers(l)
  BY <1>4, NothingToHold, Zenon
<1>7. judged = TRUE
  BY <1>6, Zenon DEF Pass
<1>8. radio # NoNet
  BY <1>1, ArbiterAssumption
<1>9. PICK pending : pending = pending_for_new_link(r.ssid, l.pending, l.prev)
  BY Zenon
<1>10. v = judge_link(judged, radio, r.usable, pending, l.usable[radio])
  BY <1>5, <1>8, <1>9, Zenon DEF Pass
<1>11. /\ v.sticky = radio \/ (r.usable = "unread" /\ l.usable[radio] = "no")
       /\ v.blame = radio => v.ok
  <2>1. PICK usable, known : usable = r.usable /\ known = l.usable[radio]
    BY Zenon
  <2>2. v = judge_link(judged, radio, usable, pending, known) /\ usable \in {"yes", "unread"}
    BY <1>5, <1>10, <2>1, Zenon
  <2>3. /\ v.sticky = radio \/ (usable = "unread" /\ known = "no")
        /\ v.blame = radio => v.ok
    <3>1. IsVerdict(v, judged, radio, usable, pending, known)
      BY <1>1, <1>7, <2>2, Zenon DEF IsVerdict
    <3> QED BY <3>1, VerdictFacts, Zenon
  <2> QED BY <2>1, <2>3, Zenon
<1>12. /\ todo' = decide(tethering, ladder, r.active, v.sticky, r.scan, r.saved, r.dear, r.free,
                         _blocked(led))
       /\ ~PinHold(pin')
  <2>1. PICK d : d = decide(tethering, ladder, r.active, v.sticky, r.scan, r.saved, r.dear, r.free,
                            _blocked(led))
    BY Zenon
  <2>2. todo' = held(d, l, pin', r.ssid, r.metered, v.sticky)
    <3>1. Concludes(fault, l, p, r, v, led, seen, come)
      BY Zenon DEF Pass
    <3>2. todo' = held(decide(tethering, ladder, r.active, v.sticky, r.scan, r.saved, r.dear, r.free,
                              _blocked(led)), l, pin', r.ssid, r.metered, v.sticky)
      BY <3>1, Zenon DEF Concludes
    <3> QED BY <2>1, <3>2, Zenon
  <2>3. todo' = d /\ ~PinHold(pin')
    BY <2>2, HeldFacts
  <2> QED BY <2>1, <2>3, Zenon
<1> QED
  BY <1>1, <1>2, <1>4, <1>5, <1>11, <1>12, Zenon DEF LeftFor

(* WorkingLinkStays, of a single step.                                     *)
LEMMA StaysStep ==
  ASSUME "saved" \notin Faults, WorldInv, LinkInv, [MCNext]_mc_vars, Leaves
  PROVE  \/ /\ todo'.ssid \in range \ {radio}
            /\ Ranks(todo'.ssid, radio, Dear \cap costed', Free \cap costed')
         \/ link'.unread >= HoldTicks
         \/ link'.unread >= 0 /\ ~HoldingOn(link')
         \/ link'.unread < 0 /\ link'.usable[radio] = "no"
<1>1. Look /\ Raises(todo') /\ OnWorkingLink
  BY LeavesIsLook, Zenon DEF Leaves
<1>2. PICK fault \in {"none"} \cup Faults : \E omitted : look(fault, omitted)
  BY <1>1, Zenon DEF Look
<1>3. PICK omitted : look(fault, omitted)
  BY <1>2, Zenon
<1>4. fault # "saved"
  BY <1>2
<1>5. PICK readable, picked, judged \in BOOLEAN : \E l, p, r, v, led, seen, come :
        Pass(fault, omitted, readable, picked, judged, l, p, r, v, led, seen, come)
  BY <1>3, PassParts, Zenon
<1>6. PICK l, p, r, v, led, seen, come :
        Pass(fault, omitted, readable, picked, judged, l, p, r, v, led, seen, come)
  BY <1>5, Zenon
<1>7. /\ readable <=> fault # "active"
      /\ l = read_active(readable) /\ r = Reads(fault, omitted, l, p)
      /\ Concludes(fault, l, p, r, v, led, seen, come)
  BY <1>6, Zenon DEF Pass
<1>8. CASE fault = "active"
  <2>1. ~Defers(l)
    <3>1. todo' = held(decide(tethering, ladder, r.active, v.sticky, r.scan, r.saved, r.dear, r.free,
                              _blocked(led)), l, pin', r.ssid, r.metered, v.sticky)
      BY <1>7, Zenon DEF Concludes
    <3>2. PICK d : todo' = held(d, l, pin', r.ssid, r.metered, v.sticky)
      BY <3>1, Zenon
    <3> QED BY <1>1, <3>2, HeldFacts
  <2> QED BY <1>7, <1>8, <2>1, StaysUnread, Zenon
<1>9. CASE fault # "active"
  <2>1. /\ radio \in Nets /\ tethering = TRUE /\ ladder = TRUE
        /\ l.unread = -1 /\ l.usable = link.usable /\ DOMAIN l = DOMAIN link
        /\ r.active = radio /\ r.ssid = radio /\ r.saved = Nets /\ r.raw \subseteq range
        /\ r.scan = r.raw \cup ({radio} \cap Configured)
        /\ v.sticky = radio \/ (r.usable = "unread" /\ l.usable[radio] = "no")
        /\ todo' = decide(tethering, ladder, r.active, v.sticky, r.scan, r.saved, r.dear, r.free,
                          _blocked(led))
    <3>1. LeftFor(l, r, v, led)
      BY <1>1, <1>6, <1>9, LeavesByReading, Zenon
    <3>2. r.saved = IF fault = "saved" THEN {} ELSE Nets
      BY <1>7 DEF Reads
    <3> QED BY <1>4, <3>1, <3>2, Zenon DEF LeftFor
  <2>2. CASE v.sticky = radio
    <3>1. PICK blocked : blocked = _blocked(led)
      BY Zenon
    <3>2. PICK d : d = todo'
      BY Zenon
    <3>3. IsRaise(d, tethering, radio, r.scan, r.dear, r.free, blocked)
      BY <1>1, <2>1, <2>2, <3>1, <3>2, Zenon DEF IsRaise
    <3>4. /\ d.ssid \in Nets \ {radio} /\ d.ssid \in r.scan
          /\ Ranks(d.ssid, radio, r.dear, r.free)
      BY <3>3, RaiseFacts, Zenon
    <3>5. d.ssid \in range \ {radio}
      BY <2>1, <3>4
    <3>6. Ranks(d.ssid, radio, Dear \cap r.costs, Free \cap r.costs)
      <4>1. WasRead(fault, omitted, l, p, r)
        BY <1>7, Zenon DEF WasRead
      <4>2. r.ssid = radio /\ r.ssid \in Nets /\ r.saved = Nets /\ tethering /\ ladder
        BY <2>1, Zenon
      <4>3. d.ssid \in Nets /\ d.ssid \in r.scan /\ Ranks(d.ssid, r.ssid, r.dear, r.free)
        BY <3>4, <4>2
      <4>4. Ranks(d.ssid, r.ssid, Dear \cap r.costs, Free \cap r.costs)
        BY <4>1, <4>2, <4>3, RanksKnown, Zenon
      <4> QED BY <4>2, <4>4, Zenon
    <3>7. costed' = r.costs
      BY <1>7, Zenon DEF Concludes
    <3> QED BY <3>2, <3>5, <3>6, <3>7, Zenon
  <2>3. CASE r.usable = "unread" /\ l.usable[radio] = "no"
    <3>1. link'.unread = l.unread /\ link'.usable = l.usable
      <4>1. DOMAIN l = {"pending", "join", "prev", "seen", "requested", "unread", "usable"}
        BY <2>1, Zenon DEF LinkInv
      <4>2. Concludes(fault, l, p, r, v, led, seen, come) /\ r.usable = "unread"
        BY <1>7, <2>3, Zenon
      <4>3. LinkAfter(l, r)
        BY <4>1, <4>2, KeepsLink, Zenon
      <4> QED BY <4>2, <4>3, Zenon DEF LinkAfter
    <3>2. link'.unread < 0
      BY <2>1, <3>1
    <3> QED BY <2>3, <3>1, <3>2, Zenon
  <2> QED BY <2>1, <2>2, <2>3, Zenon
<1> QED
  BY <1>8, <1>9, Zenon

(* WorkingLinkStays (network_arbiterd.py, main; network_arbiter.py,        *)
(* judge_link and choose_wifi): as long as the list of saved profiles can  *)
(* be read, a working link is left only for a network in range that ranks  *)
(* before it, or for what is known of the link.                            *)
THEOREM LinkStays ==
  ASSUME "saved" \notin Faults
  PROVE  MCSpec => WorkingLinkStays
<1>1. MCInit => WorldInv /\ LinkInv
  BY WorldInit, LinkInit, Zenon DEF MCInit, Init
<1>2. WorldInv /\ LinkInv /\ [MCNext]_mc_vars => (WorldInv /\ LinkInv)'
  <2>1. [MCNext]_mc_vars => [Next]_vars
    BY DEF MCNext, mc_vars
  <2> QED BY <2>1, WorldNext, LinkNext, Zenon
<1>3. WorldInv /\ LinkInv /\ [MCNext]_mc_vars
        => [Leaves => \/ /\ todo'.ssid \in range \ {radio}
                         /\ Ranks(todo'.ssid, radio, Dear \cap costed', Free \cap costed')
                      \/ link'.unread >= HoldTicks
                      \/ link'.unread >= 0 /\ ~HoldingOn(link')
                      \/ link'.unread < 0 /\ link'.usable[radio] = "no"]_mc_vars
  BY StaysStep, Zenon
<1> QED
  BY <1>1, <1>2, <1>3, PTL DEF MCSpec, WorkingLinkStays

-----------------------------------------------------------------------------
(* The driver's pick, as it is tracked: whatever was away that long without*)
(* having been away since the pick was missed by one read after another.   *)
PinFields(q) ==
  /\ DOMAIN q = {"key", "age", "seen", "ended", "missing"}
  /\ q.ended \in BOOLEAN /\ q.missing \in [Nets -> Nat]

PinInv ==
  /\ PinFields(pin)
  /\ pin.key.ts \in Nat /\ pin.key.ts <= events /\ pick.ts \in Nat /\ pick.ts <= events

EvidenceInv ==
  InForce(pin) /\ pin.key = pick => \A n \in Nets \ gone : pin.missing[n] <= faults

LEMMA Pin0Fields ==
  /\ PinFields(Pin0) /\ Pin0.key = NoPick
  /\ \A k : /\ PinFields([Pin0 EXCEPT !.key = k]) /\ [Pin0 EXCEPT !.key = k].key = k
            /\ [Pin0 EXCEPT !.key = k].missing = [n \in Nets |-> 0]
BY DEF Pin0, PinFields

(* read_pick keeps the evidence of a pick it still finds, and a new pick   *)
(* starts with none.                                                       *)
LEMMA ReadPick ==
  ASSUME PinInv, NEW picked \in BOOLEAN, NEW p, p = read_pick(picked)
  PROVE  /\ PinFields(p) /\ p.key \in {pin.key, pick}
         /\ InForce(p) => \/ p.key = pin.key /\ InForce(pin) /\ p.missing = pin.missing
                          \/ p.missing = [n \in Nets |-> 0]
         /\ InForce(pin) /\ pin.key = pick => InForce(p) /\ p.key = pick /\ p.missing = pin.missing
<1>1. PICK a, older : older = [pin EXCEPT !.age = a] /\
        p = IF ~picked \/ pick = pin.key THEN older
            ELSE IF pick = NoPick THEN [older EXCEPT !.ended = TRUE]
            ELSE [Pin0 EXCEPT !.key = pick]
  BY Zenon DEF read_pick
<1>2. PinFields(older) /\ older.key = pin.key /\ older.missing = pin.missing /\ older.ended = pin.ended
  BY <1>1 DEF PinInv, PinFields
<1>3. InForce(older) <=> InForce(pin)
  BY <1>2, Zenon DEF InForce
<1>4. CASE ~picked \/ pick = pin.key
  <2>1. p = older
    BY <1>1, <1>4, Zenon
  <2> QED BY <1>2, <1>3, <2>1, Zenon
<1>5. CASE picked /\ pick # pin.key /\ pick = NoPick
  <2>1. p = [older EXCEPT !.ended = TRUE]
    BY <1>1, <1>5, Zenon
  <2>2. PinFields(p) /\ p.key = older.key /\ p.ended = TRUE
    BY <1>2, <2>1 DEF PinFields
  <2>3. ~InForce(p)
    BY <2>2, Zenon DEF InForce
  <2> QED BY <1>2, <1>5, <2>2, <2>3, Zenon
<1>6. CASE picked /\ pick # pin.key /\ pick # NoPick
  <2>1. p = [Pin0 EXCEPT !.key = pick]
    BY <1>1, <1>6, Zenon
  <2>2. PinFields(p) /\ p.key = pick /\ p.missing = [n \in Nets |-> 0]
    BY <2>1, Pin0Fields
  <2> QED BY <1>6, <2>2, Zenon
<1> QED
  BY <1>4, <1>5, <1>6, Zenon

(* judge_pin ends a pin whose network is the active one only for blame or  *)
(* for an arrival.                                                         *)
LEMMA JudgePin ==
  ASSUME NEW q, PinFields(q), InForce(q), NEW readable \in BOOLEAN, NEW ssid, NEW blamed \in BOOLEAN,
         NEW yields \in BOOLEAN, NEW s, s = judge_pin(q, readable, ssid, blamed, yields)
  PROVE  /\ PinFields(s) /\ s.key = q.key /\ s.missing = q.missing
         /\ ~InForce(s) => readable /\ (ssid = q.key.ssid => blamed \/ yields)
<1>1. CASE ~readable
  <2>1. s = q
    BY <1>1, Zenon DEF judge_pin
  <2> QED BY <2>1, Zenon
<1>2. CASE readable /\ (blamed \/ yields)
  <2>1. s = [q EXCEPT !.ended = TRUE]
    BY <1>2, Zenon DEF judge_pin
  <2>2. PinFields(s) /\ s.key = q.key /\ s.missing = q.missing /\ s.ended = TRUE
    BY <2>1 DEF PinFields
  <2> QED BY <1>2, <2>2, Zenon DEF InForce
<1>3. CASE readable /\ ~(blamed \/ yields) /\ ssid = q.key.ssid
  <2>1. s = [q EXCEPT !.seen = TRUE]
    BY <1>3, Zenon DEF judge_pin
  <2>2. PinFields(s) /\ s.key = q.key /\ s.missing = q.missing /\ s.ended = q.ended
    BY <2>1 DEF PinFields
  <2> QED BY <2>2, Zenon DEF InForce
<1>4. CASE readable /\ ~(blamed \/ yields) /\ ssid # q.key.ssid
  <2>1. PICK b \in BOOLEAN : b = (q.seen \/ q.age >= PinTicks)
    BY Zenon
  <2>2. s = [q EXCEPT !.ended = b]
    BY <1>4, <2>1, Zenon DEF judge_pin
  <2>3. PinFields(s) /\ s.key = q.key /\ s.missing = q.missing
    BY <2>2 DEF PinFields
  <2> QED BY <1>4, <2>3, Zenon DEF InForce
<1> QED
  BY <1>1, <1>2, <1>3, <1>4, Zenon

(* What one more pass does to the evidence: a network is missed by at most *)
(* one scan, one that omitted it, unless a learned location tells it is    *)
(* away; and one that is in the scan was away before or counts as here.    *)
Missed(missing, scanned, scan, g, after) ==
  /\ after \in [Nets -> Nat]
  /\ \A n \in Nets : \/ after[n] <= missing[n]
                     \/ scanned /\ n \notin scan /\ after[n] <= missing[n] + 1
                     \/ n \in Stationary /\ g = "away"
  /\ \A n \in Nets : n \in Configured /\ scanned /\ n \in scan /\ after[n] = AbsentScans
                     => missing[n] = AbsentScans

LEMMA ArrivalFacts ==
  ASSUME NEW missing \in [Nets -> Nat], NEW scanned, NEW scan, NEW g, NEW after,
         after = update_home_arrival(missing, scanned, scan, g)
  PROVE  Missed(missing, scanned, scan, g, after)
<1>1. AbsentScans \in Nat \ {0}
  BY ArbiterAssumption
<1>2. \A n \in Nets : after[n] =
        IF n \notin Configured \/ missing[n] = AbsentScans THEN missing[n]
        ELSE IF scanned /\ n \in scan THEN 0
        ELSE IF n \in Stationary /\ g = "away" THEN AbsentScans
        ELSE IF scanned /\ ~(n \in Stationary /\ g = "home") THEN missing[n] + 1 ELSE missing[n]
  BY DEF update_home_arrival
<1>3. after \in [Nets -> Nat]
  BY <1>1, <1>2 DEF update_home_arrival
<1>4. ASSUME NEW n \in Nets
      PROVE  \/ after[n] <= missing[n]
             \/ scanned /\ n \notin scan /\ after[n] <= missing[n] + 1
             \/ n \in Stationary /\ g = "away"
  <2>1. missing[n] \in Nat /\ missing[n] <= missing[n] /\ 0 <= missing[n]
        /\ missing[n] + 1 <= missing[n] + 1
    OBVIOUS
  <2> QED BY <1>2, <2>1, Zenon
<1>5. ASSUME NEW n \in Nets, n \in Configured /\ scanned /\ n \in scan /\ after[n] = AbsentScans
      PROVE  missing[n] = AbsentScans
  BY <1>1, <1>2, <1>5
<1> QED
  BY <1>3, <1>4, <1>5, Zenon DEF Missed

(* What a pass keeps of the pin.                                           *)
PinAfter(readable, p, r, v, come) ==
  /\ PinFields(pin') /\ pin'.key = p.key
  /\ InForce(pin') => InForce(p)
  /\ InForce(p) => pin'.missing = update_home_arrival(p.missing, r.scanned, r.raw, gps)
  /\ InForce(p) /\ ~InForce(pin') =>
       readable /\ (r.ssid = p.key.ssid => (v.blame = p.key.ssid /\ ~v.ok) \/ come # {})

LEMMA KeepsPin ==
  ASSUME NEW fault, NEW omitted, NEW readable \in BOOLEAN, NEW picked \in BOOLEAN, NEW judged \in BOOLEAN,
         NEW l, NEW p, NEW r, NEW v, NEW led, NEW seen, NEW come,
         Pass(fault, omitted, readable, picked, judged, l, p, r, v, led, seen, come), PinFields(p)
  PROVE  PinAfter(readable, p, r, v, come)
<1>1. /\ readable = (fault # "active") /\ Concludes(fault, l, p, r, v, led, seen, come)
      /\ seen = [p EXCEPT !.missing = update_home_arrival(@, r.scanned, r.raw, gps)]
  BY Zenon DEF Pass
<1>2. PICK blamed \in BOOLEAN, yields \in BOOLEAN :
        /\ blamed <=> v.blame = p.key.ssid /\ ~v.ok
        /\ yields => come # {}
        /\ pin' = IF ~InForce(p) THEN p ELSE judge_pin(seen, readable, r.ssid, blamed, yields)
  <2>1. PICK cost : pin' = IF ~InForce(p) THEN p
                           ELSE judge_pin(seen, fault # "active", r.ssid, v.blame = p.key.ssid /\ ~v.ok,
                                  home_to_yield_to(come) \/ unmetered_to_yield_to(come, cost))
    BY <1>1, Zenon DEF Concludes
  <2>2. PICK blamed \in BOOLEAN : blamed = (v.blame = p.key.ssid /\ ~v.ok)
    BY Zenon
  <2>3. PICK yields \in BOOLEAN : yields = (home_to_yield_to(come) \/ unmetered_to_yield_to(come, cost))
    BY Zenon
  <2>4. yields => come # {}
    BY <2>3 DEF home_to_yield_to, unmetered_to_yield_to
  <2>5. pin' = IF ~InForce(p) THEN p ELSE judge_pin(seen, readable, r.ssid, blamed, yields)
    BY <1>1, <2>1, <2>2, <2>3, Zenon
  <2> QED BY <2>2, <2>4, <2>5, Zenon
<1>3. PICK q : q = pin'
  BY Zenon
<1>4. CASE ~InForce(p)
  BY <1>2, <1>4, Zenon DEF PinAfter
<1>5. CASE InForce(p)
  <2>1. PICK after : after = update_home_arrival(p.missing, r.scanned, r.raw, gps)
    BY Zenon
  <2>2. seen = [p EXCEPT !.missing = after]
    BY <1>1, <2>1, Zenon
  <2>3. after \in [Nets -> Nat]
    <3>1. p.missing \in [Nets -> Nat]
      BY Zenon DEF PinFields
    <3>2. PICK missing \in [Nets -> Nat] : missing = p.missing
      BY <3>1, Zenon
    <3>3. Missed(missing, r.scanned, r.raw, gps, after)
      BY <2>1, <3>2, ArrivalFacts, Zenon
    <3> QED BY <3>3, Zenon DEF Missed
  <2>4. PinFields(seen) /\ seen.key = p.key /\ seen.missing = after /\ seen.ended = p.ended
    BY <2>2, <2>3 DEF PinFields
  <2>5. InForce(seen)
    BY <1>5, <2>4, Zenon DEF InForce
  <2>6. q = judge_pin(seen, readable, r.ssid, blamed, yields)
    BY <1>2, <1>3, <1>5, Zenon
  <2>7. /\ PinFields(q) /\ q.key = seen.key /\ q.missing = seen.missing
        /\ ~InForce(q) => readable /\ (r.ssid = seen.key.ssid => blamed \/ yields)
    BY <2>4, <2>5, <2>6, JudgePin
  <2> QED BY <1>2, <1>3, <1>5, <2>1, <2>4, <2>7, Zenon DEF PinAfter
<1> QED
  BY <1>4, <1>5, Zenon

PickInv == WorldInv /\ LinkInv /\ PinInv /\ EvidenceInv

LEMMA PinInit == Init => PinInv /\ EvidenceInv
<1> SUFFICES ASSUME Init PROVE PinInv /\ EvidenceInv
  OBVIOUS
<1>1. pin = Pin0 /\ pick = NoPick /\ events = 0
  BY Zenon DEF Init, ArbiterInit
<1>2. PinFields(pin) /\ pin.key = NoPick
  BY <1>1, Pin0Fields, Zenon
<1>3. ~InForce(pin)
  BY <1>2, Zenon DEF InForce
<1>4. NoPick.ts = 0
  BY DEF NoPick
<1>5. PinInv
  BY <1>1, <1>2, <1>4 DEF PinInv
<1> QED
  BY <1>3, <1>5, Zenon DEF EvidenceInv

(* A step that leaves the pin alone.                                       *)
LEMMA PinKept ==
  ASSUME WorldInv, PinInv, EvidenceInv, MCNext, pin' = pin,
         faults' \in Nat, events' \in Nat, faults <= faults', events <= events',
         pick' = pick \/ (pick'.ts = events' /\ events < events')
  PROVE  PinInv' /\ EvidenceInv'
<1>1. PinFields(pin')
  BY DEF PinInv
<1>2. /\ pin'.key.ts \in Nat /\ pin'.key.ts <= events'
      /\ pick'.ts \in Nat /\ pick'.ts <= events'
      /\ pick' = pick \/ pin'.key # pick'
  BY DEF PinInv, WorldInv
<1>3. ASSUME InForce(pin'), pin'.key = pick', NEW n \in Nets \ gone' PROVE pin'.missing[n] <= faults'
  <2>1. pick' = pick /\ InForce(pin) /\ pin.key = pick
    BY <1>2, <1>3, Zenon
  <2>2. gone \subseteq gone'
    <3>1. ~(pick' = NoPick \/ (pin'.key = pick' /\ pin'.ended))
      BY <1>3, Zenon DEF InForce
    <3>2. gone' = gone \cup (Nets \ range')
      BY <2>1, <3>1, Zenon DEF MCNext
    <3> QED BY <3>2
  <2>3. pin.missing[n] <= faults
    BY <1>3, <2>1, <2>2 DEF EvidenceInv
  <2>4. pin.missing[n] \in Nat /\ faults \in Nat
    <3>1. faults \in Nat
      BY NetworkAssumption DEF WorldInv
    <3> QED BY <1>3, <3>1 DEF PinInv, PinFields
  <2> QED BY <2>3, <2>4
<1> QED
  BY <1>1, <1>2, <1>3, Zenon DEF PinInv, EvidenceInv

(* A pass of the daemon.                                                   *)
LEMMA PinLook ==
  ASSUME WorldInv, PinInv, EvidenceInv, MCNext, Look
  PROVE  PinInv' /\ EvidenceInv'
<1>1. PICK fault, omitted :
        /\ look(fault, omitted) /\ UNCHANGED events /\ omitted \subseteq range
        /\ \/ omitted = {} /\ faults' \in {faults, faults + 1}
           \/ faults' = faults + 1
  <2>1. PICK fault \in {"none"} \cup Faults, omitted \in {{}} \cup {{n} : n \in range} :
          /\ \/ fault = "none" /\ omitted = {} /\ UNCHANGED faults
             \/ /\ faults < MaxFaults /\ faults' = faults + 1
                /\ \/ fault # "none" /\ omitted = {} /\ Tells(fault)
                   \/ fault = "none" /\ omitted # {} /\ tethering
          /\ look(fault, omitted) /\ UNCHANGED events
    BY Zenon DEF Look
  <2>2. omitted \subseteq range
    BY <2>1
  <2>3. \/ omitted = {} /\ faults' \in {faults, faults + 1}
        \/ faults' = faults + 1
    BY <2>1, Zenon
  <2> QED BY <2>1, <2>2, <2>3, Zenon
<1>2. PICK readable, picked, judged \in BOOLEAN : \E l, p, r, v, led, seen, come :
        Pass(fault, omitted, readable, picked, judged, l, p, r, v, led, seen, come)
  BY <1>1, PassParts, Zenon
<1>3. PICK l, p, r, v, led, seen, come :
        Pass(fault, omitted, readable, picked, judged, l, p, r, v, led, seen, come)
  BY <1>2, Zenon
<1>4. p = read_pick(picked) /\ r = Reads(fault, omitted, l, p)
  BY <1>3, Zenon DEF Pass
<1>5. /\ PinFields(p) /\ p.key \in {pin.key, pick}
      /\ InForce(p) => \/ p.key = pin.key /\ InForce(pin) /\ p.missing = pin.missing
                       \/ p.missing = [n \in Nets |-> 0]
  BY <1>4, ReadPick, Zenon
<1>6. /\ PinFields(pin') /\ pin'.key = p.key
      /\ InForce(pin') => InForce(p)
      /\ InForce(p) => pin'.missing = update_home_arrival(p.missing, r.scanned, r.raw, gps)
  <2>1. PinAfter(readable, p, r, v, come)
    BY <1>3, <1>5, KeepsPin, Zenon
  <2> QED BY <2>1, Zenon DEF PinAfter
<1>7. UNCHANGED <<pick, range, gps, events>>
  BY <1>1, Zenon DEF look
<1>8. PinInv'
  BY <1>5, <1>6, <1>7, Zenon DEF PinInv
<1>9. ASSUME InForce(pin'), pin'.key = pick', NEW n \in Nets \ gone' PROVE pin'.missing[n] <= faults'
  <2>1. n \in range /\ (n \notin gone \/ pick' # pick)
    <3>1. ~(pick' = NoPick \/ (pin'.key = pick' /\ pin'.ended))
      BY <1>9, Zenon DEF InForce
    <3>2. gone' = gone \cup (Nets \ range')
      BY <1>7, <3>1, Zenon DEF MCNext
    <3> QED BY <1>7, <1>9, <3>2
  <2>2. PICK before \in [Nets -> Nat] : before = p.missing
    BY <1>5, Zenon DEF PinFields
  <2>3. PICK after : after = pin'.missing
    BY Zenon
  <2>4. faults \in Nat /\ before[n] \in Nat
    BY NetworkAssumption DEF WorldInv
  <2>5. before[n] <= faults
    <3>1. CASE p.key = pin.key /\ InForce(pin) /\ p.missing = pin.missing
      <4>1. pin.key = pick
        BY <1>6, <1>7, <1>9, <3>1, Zenon
      <4> QED BY <1>7, <2>1, <2>2, <3>1, <4>1 DEF EvidenceInv
    <3>2. CASE p.missing = [m \in Nets |-> 0]
      BY <2>2, <2>4, <3>2
    <3> QED BY <1>5, <1>6, <1>9, <3>1, <3>2, Zenon
  <2>6. after = update_home_arrival(before, r.scanned, r.raw, gps)
    BY <1>6, <1>9, <2>2, <2>3, Zenon
  <2>7. \/ after[n] <= before[n]
        \/ r.scanned /\ n \notin r.raw /\ after[n] <= before[n] + 1
        \/ n \in Stationary /\ gps = "away"
    <3>1. Missed(before, r.scanned, r.raw, gps, after)
      BY <2>6, ArrivalFacts, Zenon
    <3> QED BY <1>9, <3>1, Zenon DEF Missed
  <2>8. ~(n \in Stationary /\ gps = "away")
    BY <2>1 DEF WorldInv
  <2>9. r.scanned /\ n \notin r.raw => n \in omitted
    <3>1. r.raw = IF r.scanned THEN range \ omitted ELSE {}
      BY <1>4 DEF Reads
    <3>2. r.scanned => r.raw = range \ omitted
      BY <3>1, Zenon
    <3> QED BY <2>1, <3>2
  <2>10. after \in [Nets -> Nat]
    <3>1. Missed(before, r.scanned, r.raw, gps, after)
      BY <2>6, ArrivalFacts, Zenon
    <3> QED BY <3>1, Zenon DEF Missed
  <2>11. after[n] \in Nat /\ faults' \in {faults, faults + 1}
    BY <1>1, <2>10
  <2>12. CASE after[n] <= before[n]
    BY <2>3, <2>4, <2>5, <2>11, <2>12
  <2>13. CASE n \in omitted /\ after[n] <= before[n] + 1
    <3>1. faults' = faults + 1
      BY <1>1, <2>13
    <3> QED BY <2>3, <2>4, <2>5, <2>11, <2>13, <3>1
  <2> QED BY <2>7, <2>8, <2>9, <2>12, <2>13, Zenon
<1> QED
  BY <1>8, <1>9, Zenon DEF EvidenceInv

LEMMA PinNext == PickInv /\ [MCNext]_mc_vars => PickInv'
<1> SUFFICES ASSUME WorldInv, LinkInv, PinInv, EvidenceInv, [MCNext]_mc_vars PROVE PickInv'
  BY Zenon DEF PickInv
<1>1. WorldInv' /\ LinkInv'
  <2>1. [Next]_vars
    BY DEF MCNext, mc_vars
  <2> QED BY <2>1, WorldNext, LinkNext, Zenon
<1>2. CASE UNCHANGED mc_vars
  <2>1. UNCHANGED <<pin, pick, gone, faults, events>>
    BY <1>2, Zenon DEF mc_vars, vars, arbiter_vars
  <2>2. PinInv' /\ EvidenceInv'
    BY <2>1, Zenon DEF PinInv, EvidenceInv, InForce
  <2> QED BY <1>1, <2>2, Zenon DEF PickInv
<1>3. CASE MCNext
  <2>1. Next
    BY <1>3, Zenon DEF MCNext
  <2>2. faults \in Nat /\ events \in Nat
    BY NetworkAssumption DEF WorldInv
  <2>3. CASE Look
    BY <1>1, <1>3, <2>3, PinLook, Zenon DEF PickInv
  <2>4. CASE Joins \/ Refused \/ NotAwake \/ ApUp \/ ApDown
    <3>1. UNCHANGED <<pin, pick, events>>
      BY <2>4, Zenon DEF Joins, Refused, NotAwake, ApUp, ApDown, _apply
    <3>2. faults' \in {faults, faults + 1}
      BY <2>4, Zenon DEF Joins, Refused, NotAwake, ApUp, ApDown
    <3>3. faults' \in Nat /\ faults <= faults' /\ events' \in Nat /\ events <= events'
      BY <2>2, <3>1, <3>2
    <3> QED BY <1>1, <1>3, <3>1, <3>3, PinKept, Zenon DEF PickInv
  <2>5. CASE ComesAndGoes \/ Drives \/ BreaksOrRecovers \/ Picks \/ Autoconnects \/ Toggles
    <3>1. pin' = pin /\ faults' = faults /\ events' = events + 1
      BY <2>5, Zenon DEF ComesAndGoes, Drives, BreaksOrRecovers, Picks, Autoconnects, Toggles, Happens
    <3>2. pick' = pick \/ \E n : pick' = [ssid |-> n, ts |-> events']
      BY <2>5, Zenon DEF ComesAndGoes, Drives, BreaksOrRecovers, Picks, Autoconnects, Toggles
    <3>3. pick' = pick \/ pick'.ts = events'
      BY <3>2
    <3>4. faults' \in Nat /\ faults <= faults' /\ events' \in Nat /\ events <= events' /\ events < events'
      BY <2>2, <3>1
    <3>5. pick' = pick \/ (pick'.ts = events' /\ events < events')
      BY <3>3, <3>4
    <3> QED BY <1>1, <1>3, <3>1, <3>4, <3>5, PinKept, Zenon DEF PickInv
  <2>6. CASE Restarts
    <3>1. pin' = Pin0 /\ pick' \in {pick, NoPick} /\ events' = events + 1
      BY <2>6, Zenon DEF Restarts, start
    <3>2. PinFields(pin') /\ pin'.key = NoPick /\ ~InForce(pin')
      BY <3>1, Pin0Fields, Zenon DEF InForce
    <3>3. NoPick.ts = 0
      BY DEF NoPick
    <3>4. PinInv'
      BY <2>2, <3>1, <3>2, <3>3 DEF PinInv
    <3> QED BY <1>1, <3>2, <3>4, Zenon DEF PickInv, EvidenceInv
  <2> QED BY <2>1, <2>3, <2>4, <2>5, <2>6, Zenon DEF Next
<1> QED
  BY <1>2, <1>3, Zenon

(* PickRespected, of a single step.                                        *)
LEMMA PickStep ==
  ASSUME MaxFaults < AbsentScans, PickInv, [MCNext]_mc_vars, Leaves,
         InForce(pin), pin.key = pick, pin.seen, radio = pick.ssid
  PROVE  gone \cap range \cap Configured \cap Free # {}
<1>1. Look /\ Raises(todo') /\ OnWorkingLink
  BY LeavesIsLook, Zenon DEF Leaves
<1>2. WorldInv /\ LinkInv /\ PinInv /\ EvidenceInv
  BY Zenon DEF PickInv
<1>3. PICK fault \in {"none"} \cup Faults : \E omitted : look(fault, omitted)
  BY <1>1, Zenon DEF Look
<1>4. PICK omitted : look(fault, omitted)
  BY <1>3, Zenon
<1>5. PICK readable, picked, judged \in BOOLEAN : \E l, p, r, v, led, seen, come :
        Pass(fault, omitted, readable, picked, judged, l, p, r, v, led, seen, come)
  BY <1>4, PassParts, Zenon
<1>6. PICK l, p, r, v, led, seen, come :
        Pass(fault, omitted, readable, picked, judged, l, p, r, v, led, seen, come)
  BY <1>5, Zenon
<1>7. /\ p = read_pick(picked) /\ r = Reads(fault, omitted, l, p) /\ readable = (fault # "active")
      /\ come = Arrivals(r.raw, r.saved, r.free, _blocked(led), p.key.ssid, seen.missing)
      /\ seen = [p EXCEPT !.missing = update_home_arrival(@, r.scanned, r.raw, gps)]
      /\ Concludes(fault, l, p, r, v, led, seen, come)
  BY <1>6, Zenon DEF Pass
<1>8. PinFields(p) /\ InForce(p) /\ p.key = pick /\ p.missing = pin.missing
  BY <1>2, <1>7, ReadPick, Zenon
<1>9. PinAfter(readable, p, r, v, come)
  BY <1>6, <1>8, KeepsPin, Zenon
<1>10. ~InForce(pin')
  <2>1. todo' = held(decide(tethering, ladder, r.active, v.sticky, r.scan, r.saved, r.dear, r.free,
                            _blocked(led)), l, pin', r.ssid, r.metered, v.sticky)
    BY <1>7, Zenon DEF Concludes
  <2>2. PICK d : todo' = held(d, l, pin', r.ssid, r.metered, v.sticky)
    BY <2>1, Zenon
  <2>3. ~PinHold(pin')
    BY <1>1, <2>2, HeldFacts
  <2> QED BY <1>1, <2>3, Zenon DEF PinHold, OnWorkingLink
<1>11. fault # "active"
  BY <1>7, <1>8, <1>9, <1>10, Zenon DEF PinAfter
<1>12. LeftFor(l, r, v, led)
  BY <1>1, <1>2, <1>6, <1>11, LeavesByReading, Zenon
<1>13. come # {}
  <2>1. r.ssid = radio /\ r.ssid = p.key.ssid /\ (v.blame = radio => v.ok)
    BY <1>8, <1>12, Zenon DEF LeftFor
  <2> QED BY <1>8, <1>9, <1>10, <2>1, Zenon DEF PinAfter
<1>14. PICK n \in come : TRUE
  BY <1>13
<1>15. n \in Configured /\ n \in r.raw /\ n \in r.free /\ seen.missing[n] = AbsentScans
  BY <1>7 DEF Arrivals
<1>16. n \in range /\ n \in Nets /\ n \in Free
  <2>1. r.raw \subseteq range
    BY <1>12, Zenon DEF LeftFor
  <2>2. Cost[n] = "no"
    BY <1>7, <1>15, FreeIsFree
  <2> QED BY <1>2, <1>15, <2>1, <2>2 DEF WorldInv, Free
<1>17. pin.missing[n] = AbsentScans
  <2>1. PICK before \in [Nets -> Nat] : before = p.missing
    BY <1>8, Zenon DEF PinFields
  <2>2. PICK after : after = update_home_arrival(before, r.scanned, r.raw, gps)
    BY Zenon
  <2>3. seen = [p EXCEPT !.missing = after]
    BY <1>7, <2>1, <2>2, Zenon
  <2>4. seen.missing = after
    BY <1>8, <2>3 DEF PinFields
  <2>5. r.scanned
    <3>1. r.raw = IF r.scanned THEN range \ omitted ELSE {}
      BY <1>7 DEF Reads
    <3>2. r.raw # {}
      BY <1>15
    <3> QED BY <3>1, <3>2, Zenon
  <2>6. n \in Configured /\ r.scanned /\ n \in r.raw /\ after[n] = AbsentScans => before[n] = AbsentScans
    <3>1. Missed(before, r.scanned, r.raw, gps, after)
      BY <2>2, ArrivalFacts, Zenon
    <3> QED BY <1>16, <3>1, Zenon DEF Missed
  <2> QED BY <1>8, <1>15, <1>16, <2>1, <2>4, <2>5, <2>6
<1>18. n \in gone
  <2>1. faults \in Nat /\ faults <= MaxFaults /\ MaxFaults \in Nat /\ AbsentScans \in Nat
    BY <1>2, NetworkAssumption, ArbiterAssumption DEF WorldInv
  <2>2. ~(AbsentScans <= faults)
    BY <2>1
  <2> QED BY <1>2, <1>16, <1>17, <2>2, Zenon DEF EvidenceInv
<1> QED
  BY <1>15, <1>16, <1>18

(* PickRespected (network_arbiterd.py, main; network_arbiter.py, judge_pin *)
(* and update_home_arrival): with fewer incomplete scans than it takes to  *)
(* count a network as away, the driver's pick, once joined and working, is *)
(* left only for one of his free networks that has really been away.       *)
THEOREM PicksAreRespected ==
  ASSUME MaxFaults < AbsentScans
  PROVE  MCSpec => PickRespected
<1>1. MCInit => PickInv
  BY WorldInit, LinkInit, PinInit, Zenon DEF MCInit, Init, PickInv
<1>2. PickInv /\ [MCNext]_mc_vars
        => [Leaves /\ InForce(pin) /\ pin.key = pick /\ pin.seen /\ radio = pick.ssid
              => gone \cap range \cap Configured \cap Free # {}]_mc_vars
  BY PickStep, Zenon
<1> QED
  BY <1>1, <1>2, PinNext, PTL DEF MCSpec, PickRespected

-----------------------------------------------------------------------------
(***************************************************************************)
(* The metered budget, for every cap, size, number of days and uploads.    *)
(***************************************************************************)
InFlight == pc \in {"reserve", "send", "refund"}

(* The counter belongs to no day to come, and no later day than its own    *)
(* has had anything.                                                       *)
CounterIsLatest ==
  /\ date <= day
  /\ counter = "absent" => \A d \in Days : accepted[d] = 0
  /\ \A d \in Days : d > date => accepted[d] = 0
  /\ \A d \in Days : d > day => late[d] = 0

(* What step_metered holds in its locals still covers what was accepted,   *)
(* and the file in hand fits on top of it.                                 *)
LocalsHold ==
  InFlight =>
    /\ today <= day
    /\ size \in Sizes
    /\ accepted[today] <= used
    /\ used + size <= Cap
    /\ \A d \in Days : d > today => accepted[d] = 0 /\ late[d] = 0

(* While a file is being sent the counter is its reservation.              *)
Reserved ==
  pc = "send" =>
    /\ counter # "absent"
    /\ date = today
    /\ counter = "ok" => bytes = used + size

(* The day on which the counter was found damaged stays exhausted.         *)
ShutStays ==
  /\ shut_day <= day
  /\ InFlight => today # shut_day
  /\ shut_day = day =>
       counter = "corrupt" \/ (counter = "ok" /\ date = day /\ bytes = Cap)
  /\ shut_day = day => ~InFlight

BudgetInv ==
  /\ TypeOK /\ CapHolds /\ Accounted /\ LateIsOneFile
  /\ CounterIsLatest /\ LocalsHold /\ Reserved /\ ShutStays

(* Every constant a proof uses.                                            *)
LEMMA ConstantFacts ==
  /\ Cap \in Nat /\ LastDay \in Nat /\ MaxSends \in Nat
  /\ \A s \in Sizes : s \in Nat /\ s > 0
  /\ \A d \in Days : d \in Int /\ d >= 0
  /\ 0 \in Days /\ NoDay = -1
BY CapAssumption, SizesAssumption, LastDayAssumption, MaxSendsAssumption DEF
     Days, NoDay

(* The invariant holds when the uploader first starts.                     *)
LEMMA BudgetInit == MeterInit => BudgetInv
BY ConstantFacts
   DEF MeterInit, BudgetInv, TypeOK, CapHolds, Accounted, LateIsOneFile,
       CounterIsLatest, LocalsHold, Reserved, ShutStays, InFlight, Days

(* Reading a damaged counter closes the day.                               *)
LEMMA ReadCorruptKeeps == ASSUME BudgetInv, ReadCorrupt PROVE BudgetInv'
<1>1. TypeOK'
    BY ConstantFacts DEF BudgetInv, TypeOK, LocalsHold, InFlight, ReadCorrupt,
       MayStart, metered_write, Written, disk, locals
<1>2. CapHolds' /\ Accounted'
  BY ConstantFacts DEF BudgetInv, TypeOK, CapHolds, Accounted, LateIsOneFile,
              CounterIsLatest, LocalsHold, Reserved, ShutStays, InFlight,
            ReadCorrupt, MayStart, metered_write, Written, disk, locals
<1>3. LateIsOneFile'
  BY ConstantFacts DEF BudgetInv, TypeOK, CapHolds, Accounted, LateIsOneFile,
              CounterIsLatest, LocalsHold, Reserved, ShutStays, InFlight,
            ReadCorrupt, MayStart, metered_write, Written, disk, locals
<1>4. CounterIsLatest'
  BY ConstantFacts DEF BudgetInv, TypeOK, CapHolds, Accounted, LateIsOneFile,
              CounterIsLatest, LocalsHold, Reserved, ShutStays, InFlight,
            ReadCorrupt, MayStart, metered_write, Written, disk, locals
<1>5. LocalsHold' /\ Reserved'
  BY ConstantFacts DEF BudgetInv, TypeOK, CapHolds, Accounted, LateIsOneFile,
              CounterIsLatest, LocalsHold, Reserved, ShutStays, InFlight,
            ReadCorrupt, MayStart, metered_write, Written, disk, locals
<1>6. ShutStays'
  BY ConstantFacts DEF BudgetInv, TypeOK, CapHolds, Accounted, LateIsOneFile,
              CounterIsLatest, LocalsHold, Reserved, ShutStays, InFlight,
            ReadCorrupt, MayStart, metered_write, Written, disk, locals
<1> QED BY <1>1, <1>2, <1>3, <1>4, <1>5, <1>6 DEF BudgetInv

(* A reservation covers the file that will be sent.                        *)
LEMMA ReserveKeeps == ASSUME BudgetInv, Reserve PROVE BudgetInv'
<1>1. TypeOK'
    BY ConstantFacts DEF BudgetInv, TypeOK, LocalsHold, InFlight, Reserve,
       Written, disk, locals, histories
<1>2. CapHolds' /\ Accounted'
  BY ConstantFacts DEF BudgetInv, TypeOK, CapHolds, Accounted, LateIsOneFile,
              CounterIsLatest, LocalsHold, Reserved, ShutStays, InFlight,
            Reserve, Written, disk, locals, histories
<1>3. LateIsOneFile'
  BY ConstantFacts DEF BudgetInv, TypeOK, CapHolds, Accounted, LateIsOneFile,
              CounterIsLatest, LocalsHold, Reserved, ShutStays, InFlight,
            Reserve, Written, disk, locals, histories
<1>4. CounterIsLatest'
  BY ConstantFacts DEF BudgetInv, TypeOK, CapHolds, Accounted, LateIsOneFile,
              CounterIsLatest, LocalsHold, Reserved, ShutStays, InFlight,
            Reserve, Written, disk, locals, histories
<1>5. LocalsHold' /\ Reserved'
  BY ConstantFacts DEF BudgetInv, TypeOK, CapHolds, Accounted, LateIsOneFile,
              CounterIsLatest, LocalsHold, Reserved, ShutStays, InFlight,
            Reserve, Written, disk, locals, histories
<1>6. ShutStays'
  BY ConstantFacts DEF BudgetInv, TypeOK, CapHolds, Accounted, LateIsOneFile,
              CounterIsLatest, LocalsHold, Reserved, ShutStays, InFlight,
            Reserve, Written, disk, locals, histories
<1> QED BY <1>1, <1>2, <1>3, <1>4, <1>5, <1>6 DEF BudgetInv

(* An accepted file was covered by its reservation.                        *)
LEMMA SendAcceptedKeeps == ASSUME BudgetInv, SendAccepted PROVE BudgetInv'
<1>1. TypeOK'
    BY ConstantFacts DEF BudgetInv, TypeOK, LocalsHold, InFlight, SendAccepted,
       disk, locals
<1>2. CapHolds' /\ Accounted'
  BY ConstantFacts DEF BudgetInv, TypeOK, CapHolds, Accounted, LateIsOneFile,
              CounterIsLatest, LocalsHold, Reserved, ShutStays, InFlight,
            SendAccepted, disk, locals
<1>3. LateIsOneFile'
  BY ConstantFacts DEF BudgetInv, TypeOK, CapHolds, Accounted, LateIsOneFile,
              CounterIsLatest, LocalsHold, Reserved, ShutStays, InFlight,
            SendAccepted, disk, locals
<1>4. CounterIsLatest'
  BY ConstantFacts DEF BudgetInv, TypeOK, CapHolds, Accounted, LateIsOneFile,
              CounterIsLatest, LocalsHold, Reserved, ShutStays, InFlight,
            SendAccepted, disk, locals
<1>5. LocalsHold' /\ Reserved'
  BY ConstantFacts DEF BudgetInv, TypeOK, CapHolds, Accounted, LateIsOneFile,
              CounterIsLatest, LocalsHold, Reserved, ShutStays, InFlight,
            SendAccepted, disk, locals
<1>6. ShutStays'
  BY ConstantFacts DEF BudgetInv, TypeOK, CapHolds, Accounted, LateIsOneFile,
              CounterIsLatest, LocalsHold, Reserved, ShutStays, InFlight,
            SendAccepted, disk, locals
<1> QED BY <1>1, <1>2, <1>3, <1>4, <1>5, <1>6 DEF BudgetInv

(* A failed upload delivers nothing.                                       *)
LEMMA SendFailedKeeps == ASSUME BudgetInv, SendFailed PROVE BudgetInv'
<1>1. TypeOK'
    BY ConstantFacts DEF BudgetInv, TypeOK, LocalsHold, InFlight, SendFailed,
       disk, locals
<1>2. CapHolds' /\ Accounted'
  BY ConstantFacts DEF BudgetInv, TypeOK, CapHolds, Accounted, LateIsOneFile,
              CounterIsLatest, LocalsHold, Reserved, ShutStays, InFlight,
            SendFailed, disk, locals
<1>3. LateIsOneFile'
  BY ConstantFacts DEF BudgetInv, TypeOK, CapHolds, Accounted, LateIsOneFile,
              CounterIsLatest, LocalsHold, Reserved, ShutStays, InFlight,
            SendFailed, disk, locals
<1>4. CounterIsLatest'
  BY ConstantFacts DEF BudgetInv, TypeOK, CapHolds, Accounted, LateIsOneFile,
              CounterIsLatest, LocalsHold, Reserved, ShutStays, InFlight,
            SendFailed, disk, locals
<1>5. LocalsHold' /\ Reserved'
  BY ConstantFacts DEF BudgetInv, TypeOK, CapHolds, Accounted, LateIsOneFile,
              CounterIsLatest, LocalsHold, Reserved, ShutStays, InFlight,
            SendFailed, disk, locals
<1>6. ShutStays'
  BY ConstantFacts DEF BudgetInv, TypeOK, CapHolds, Accounted, LateIsOneFile,
              CounterIsLatest, LocalsHold, Reserved, ShutStays, InFlight,
            SendFailed, disk, locals
<1> QED BY <1>1, <1>2, <1>3, <1>4, <1>5, <1>6 DEF BudgetInv

(* A refund gives back only what was not accepted.                         *)
LEMMA RefundKeeps == ASSUME BudgetInv, Refund PROVE BudgetInv'
<1>1. TypeOK'
    BY ConstantFacts DEF BudgetInv, TypeOK, LocalsHold, InFlight, Refund,
       metered_write, Written, disk, locals, histories
<1>2. CapHolds' /\ Accounted'
  BY ConstantFacts DEF BudgetInv, TypeOK, CapHolds, Accounted, LateIsOneFile,
              CounterIsLatest, LocalsHold, Reserved, ShutStays, InFlight,
            Refund, metered_write, Written, disk, locals, histories
<1>3. LateIsOneFile'
  BY ConstantFacts DEF BudgetInv, TypeOK, CapHolds, Accounted, LateIsOneFile,
              CounterIsLatest, LocalsHold, Reserved, ShutStays, InFlight,
            Refund, metered_write, Written, disk, locals, histories
<1>4. CounterIsLatest'
  BY ConstantFacts DEF BudgetInv, TypeOK, CapHolds, Accounted, LateIsOneFile,
              CounterIsLatest, LocalsHold, Reserved, ShutStays, InFlight,
            Refund, metered_write, Written, disk, locals, histories
<1>5. LocalsHold' /\ Reserved'
  BY ConstantFacts DEF BudgetInv, TypeOK, CapHolds, Accounted, LateIsOneFile,
              CounterIsLatest, LocalsHold, Reserved, ShutStays, InFlight,
            Refund, metered_write, Written, disk, locals, histories
<1>6. ShutStays'
  BY ConstantFacts DEF BudgetInv, TypeOK, CapHolds, Accounted, LateIsOneFile,
              CounterIsLatest, LocalsHold, Reserved, ShutStays, InFlight,
            Refund, metered_write, Written, disk, locals, histories
<1> QED BY <1>1, <1>2, <1>3, <1>4, <1>5, <1>6 DEF BudgetInv

(* A file that fits may be reserved.                                       *)
LEMMA BeginKeeps == ASSUME NEW s \in Sizes, BudgetInv, Begin(s) PROVE BudgetInv'
<1>1. TypeOK'
    BY ConstantFacts DEF BudgetInv, TypeOK, LocalsHold, InFlight, Begin,
       MayStart, Fits, metered_used, disk, locals, histories
<1>2. CapHolds' /\ Accounted'
  BY ConstantFacts DEF BudgetInv, TypeOK, CapHolds, Accounted, LateIsOneFile,
              CounterIsLatest, LocalsHold, Reserved, ShutStays, InFlight, Begin,
            MayStart, Fits, metered_used, disk, locals, histories
<1>3. LateIsOneFile'
  BY ConstantFacts DEF BudgetInv, TypeOK, CapHolds, Accounted, LateIsOneFile,
              CounterIsLatest, LocalsHold, Reserved, ShutStays, InFlight, Begin,
            MayStart, Fits, metered_used, disk, locals, histories
<1>4. CounterIsLatest'
  BY ConstantFacts DEF BudgetInv, TypeOK, CapHolds, Accounted, LateIsOneFile,
              CounterIsLatest, LocalsHold, Reserved, ShutStays, InFlight, Begin,
            MayStart, Fits, metered_used, disk, locals, histories
<1>5. LocalsHold' /\ Reserved'
  BY ConstantFacts DEF BudgetInv, TypeOK, CapHolds, Accounted, LateIsOneFile,
              CounterIsLatest, LocalsHold, Reserved, ShutStays, InFlight, Begin,
            MayStart, Fits, metered_used, disk, locals, histories
<1>6. ShutStays'
  BY ConstantFacts DEF BudgetInv, TypeOK, CapHolds, Accounted, LateIsOneFile,
              CounterIsLatest, LocalsHold, Reserved, ShutStays, InFlight, Begin,
            MayStart, Fits, metered_used, disk, locals, histories
<1> QED BY <1>1, <1>2, <1>3, <1>4, <1>5, <1>6 DEF BudgetInv

(* A full budget changes memory only.                                      *)
LEMMA BudgetReachedKeeps ==
  ASSUME NEW s \in Sizes, BudgetInv, BudgetReached(s) PROVE BudgetInv'
<1>1. TypeOK'
    BY ConstantFacts DEF BudgetInv, TypeOK, LocalsHold, InFlight, BudgetReached,
       MayStart, disk, locals, histories
<1>2. CapHolds' /\ Accounted'
  BY ConstantFacts DEF BudgetInv, TypeOK, CapHolds, Accounted, LateIsOneFile,
              CounterIsLatest, LocalsHold, Reserved, ShutStays, InFlight,
            BudgetReached, MayStart, disk, locals, histories
<1>3. LateIsOneFile'
  BY ConstantFacts DEF BudgetInv, TypeOK, CapHolds, Accounted, LateIsOneFile,
              CounterIsLatest, LocalsHold, Reserved, ShutStays, InFlight,
            BudgetReached, MayStart, disk, locals, histories
<1>4. CounterIsLatest'
  BY ConstantFacts DEF BudgetInv, TypeOK, CapHolds, Accounted, LateIsOneFile,
              CounterIsLatest, LocalsHold, Reserved, ShutStays, InFlight,
            BudgetReached, MayStart, disk, locals, histories
<1>5. LocalsHold' /\ Reserved'
  BY ConstantFacts DEF BudgetInv, TypeOK, CapHolds, Accounted, LateIsOneFile,
              CounterIsLatest, LocalsHold, Reserved, ShutStays, InFlight,
            BudgetReached, MayStart, disk, locals, histories
<1>6. ShutStays'
  BY ConstantFacts DEF BudgetInv, TypeOK, CapHolds, Accounted, LateIsOneFile,
              CounterIsLatest, LocalsHold, Reserved, ShutStays, InFlight,
            BudgetReached, MayStart, disk, locals, histories
<1> QED BY <1>1, <1>2, <1>3, <1>4, <1>5, <1>6 DEF BudgetInv

(* A new day starts with nothing accepted.                                 *)
LEMMA DayPassesKeeps == ASSUME BudgetInv, DayPasses PROVE BudgetInv'
<1>1. TypeOK'
    BY ConstantFacts DEF BudgetInv, TypeOK, LocalsHold, InFlight, DayPasses,
       disk, locals, histories, Days
<1>2. CapHolds' /\ Accounted'
  BY ConstantFacts DEF BudgetInv, TypeOK, CapHolds, Accounted, LateIsOneFile,
              CounterIsLatest, LocalsHold, Reserved, ShutStays, InFlight,
            DayPasses, disk, locals, histories
<1>3. LateIsOneFile'
  BY ConstantFacts DEF BudgetInv, TypeOK, CapHolds, Accounted, LateIsOneFile,
              CounterIsLatest, LocalsHold, Reserved, ShutStays, InFlight,
            DayPasses, disk, locals, histories
<1>4. CounterIsLatest'
  BY ConstantFacts DEF BudgetInv, TypeOK, CapHolds, Accounted, LateIsOneFile,
              CounterIsLatest, LocalsHold, Reserved, ShutStays, InFlight,
            DayPasses, disk, locals, histories
<1>5. LocalsHold' /\ Reserved'
  BY ConstantFacts DEF BudgetInv, TypeOK, CapHolds, Accounted, LateIsOneFile,
              CounterIsLatest, LocalsHold, Reserved, ShutStays, InFlight,
            DayPasses, disk, locals, histories
<1>6. ShutStays'
  BY ConstantFacts DEF BudgetInv, TypeOK, CapHolds, Accounted, LateIsOneFile,
              CounterIsLatest, LocalsHold, Reserved, ShutStays, InFlight,
            DayPasses, disk, locals, histories
<1> QED BY <1>1, <1>2, <1>3, <1>4, <1>5, <1>6 DEF BudgetInv

(* Setting the clock changes nothing else.                                 *)
LEMMA ClockSetKeeps == ASSUME BudgetInv, ClockSet PROVE BudgetInv'
<1>1. TypeOK'
    BY ConstantFacts DEF BudgetInv, TypeOK, LocalsHold, InFlight, ClockSet,
       disk, locals, histories
<1>2. CapHolds' /\ Accounted'
  BY ConstantFacts DEF BudgetInv, TypeOK, CapHolds, Accounted, LateIsOneFile,
              CounterIsLatest, LocalsHold, Reserved, ShutStays, InFlight,
            ClockSet, disk, locals, histories
<1>3. LateIsOneFile'
  BY ConstantFacts DEF BudgetInv, TypeOK, CapHolds, Accounted, LateIsOneFile,
              CounterIsLatest, LocalsHold, Reserved, ShutStays, InFlight,
            ClockSet, disk, locals, histories
<1>4. CounterIsLatest'
  BY ConstantFacts DEF BudgetInv, TypeOK, CapHolds, Accounted, LateIsOneFile,
              CounterIsLatest, LocalsHold, Reserved, ShutStays, InFlight,
            ClockSet, disk, locals, histories
<1>5. LocalsHold' /\ Reserved'
  BY ConstantFacts DEF BudgetInv, TypeOK, CapHolds, Accounted, LateIsOneFile,
              CounterIsLatest, LocalsHold, Reserved, ShutStays, InFlight,
            ClockSet, disk, locals, histories
<1>6. ShutStays'
  BY ConstantFacts DEF BudgetInv, TypeOK, CapHolds, Accounted, LateIsOneFile,
              CounterIsLatest, LocalsHold, Reserved, ShutStays, InFlight,
            ClockSet, disk, locals, histories
<1> QED BY <1>1, <1>2, <1>3, <1>4, <1>5, <1>6 DEF BudgetInv

(* Damage hides the counter, and nothing else.                             *)
LEMMA DamageKeeps == ASSUME BudgetInv, Damage PROVE BudgetInv'
<1>1. TypeOK'
    BY ConstantFacts DEF BudgetInv, TypeOK, LocalsHold, InFlight, Damage,
       locals, histories
<1>2. CapHolds' /\ Accounted'
  BY ConstantFacts DEF BudgetInv, TypeOK, CapHolds, Accounted, LateIsOneFile,
              CounterIsLatest, LocalsHold, Reserved, ShutStays, InFlight,
            Damage, locals, histories
<1>3. LateIsOneFile'
  BY ConstantFacts DEF BudgetInv, TypeOK, CapHolds, Accounted, LateIsOneFile,
              CounterIsLatest, LocalsHold, Reserved, ShutStays, InFlight,
            Damage, locals, histories
<1>4. CounterIsLatest'
  BY ConstantFacts DEF BudgetInv, TypeOK, CapHolds, Accounted, LateIsOneFile,
              CounterIsLatest, LocalsHold, Reserved, ShutStays, InFlight,
            Damage, locals, histories
<1>5. LocalsHold' /\ Reserved'
  BY ConstantFacts DEF BudgetInv, TypeOK, CapHolds, Accounted, LateIsOneFile,
              CounterIsLatest, LocalsHold, Reserved, ShutStays, InFlight,
            Damage, locals, histories
<1>6. ShutStays'
  BY ConstantFacts DEF BudgetInv, TypeOK, CapHolds, Accounted, LateIsOneFile,
              CounterIsLatest, LocalsHold, Reserved, ShutStays, InFlight,
            Damage, locals, histories
<1> QED BY <1>1, <1>2, <1>3, <1>4, <1>5, <1>6 DEF BudgetInv

(* A power loss forgets the upload in hand.                                *)
LEMMA RebootKeeps == ASSUME BudgetInv, Reboot PROVE BudgetInv'
<1>1. TypeOK'
    BY ConstantFacts DEF BudgetInv, TypeOK, LocalsHold, InFlight, Reboot, disk,
       histories
<1>2. CapHolds' /\ Accounted'
  BY ConstantFacts DEF BudgetInv, TypeOK, CapHolds, Accounted, LateIsOneFile,
              CounterIsLatest, LocalsHold, Reserved, ShutStays, InFlight,
            Reboot, disk, histories
<1>3. LateIsOneFile'
  BY ConstantFacts DEF BudgetInv, TypeOK, CapHolds, Accounted, LateIsOneFile,
              CounterIsLatest, LocalsHold, Reserved, ShutStays, InFlight,
            Reboot, disk, histories
<1>4. CounterIsLatest'
  BY ConstantFacts DEF BudgetInv, TypeOK, CapHolds, Accounted, LateIsOneFile,
              CounterIsLatest, LocalsHold, Reserved, ShutStays, InFlight,
            Reboot, disk, histories
<1>5. LocalsHold' /\ Reserved'
  BY ConstantFacts DEF BudgetInv, TypeOK, CapHolds, Accounted, LateIsOneFile,
              CounterIsLatest, LocalsHold, Reserved, ShutStays, InFlight,
            Reboot, disk, histories
<1>6. ShutStays'
  BY ConstantFacts DEF BudgetInv, TypeOK, CapHolds, Accounted, LateIsOneFile,
              CounterIsLatest, LocalsHold, Reserved, ShutStays, InFlight,
            Reboot, disk, histories
<1> QED BY <1>1, <1>2, <1>3, <1>4, <1>5, <1>6 DEF BudgetInv

(* Every step keeps the invariant.                                         *)
LEMMA BudgetNext == BudgetInv /\ [MeterNext]_meter_vars => BudgetInv'
<1> SUFFICES ASSUME BudgetInv, [MeterNext]_meter_vars PROVE BudgetInv'
  OBVIOUS
<1>1. CASE ReadCorrupt BY <1>1, ReadCorruptKeeps
<1>2. CASE Reserve BY <1>2, ReserveKeeps
<1>3. CASE SendAccepted BY <1>3, SendAcceptedKeeps
<1>4. CASE SendFailed BY <1>4, SendFailedKeeps
<1>5. CASE Refund BY <1>5, RefundKeeps
<1>6. CASE \E s \in Sizes : Begin(s) \/ BudgetReached(s)
  BY <1>6, BeginKeeps, BudgetReachedKeeps
<1>7. CASE DayPasses BY <1>7, DayPassesKeeps
<1>8. CASE ClockSet BY <1>8, ClockSetKeeps
<1>9. CASE Damage BY <1>9, DamageKeeps
<1>10. CASE Reboot BY <1>10, RebootKeeps
<1>11. CASE UNCHANGED meter_vars
  BY <1>11 DEF meter_vars, BudgetInv, TypeOK, CapHolds, Accounted, LateIsOneFile,
       CounterIsLatest, LocalsHold, Reserved, ShutStays, InFlight
<1> QED
  BY <1>1, <1>2, <1>3, <1>4, <1>5, <1>6, <1>7, <1>8, <1>9, <1>10, <1>11 DEF MeterNext

(* The invariant holds always.                                             *)
LEMMA BudgetAlways == MeterSpec => []BudgetInv
BY BudgetInit, BudgetNext, PTL DEF MeterSpec

(* What is accepted on the budget of one day never passes the cap: no      *)
(* reboot, failed write, damaged counter or midnight between the           *)
(* reservation and the answer of step_metered lets more through.           *)
THEOREM CapAlwaysHolds == MeterSpec => []CapHolds
<1>1. BudgetInv => CapHolds BY DEF BudgetInv
<1> QED BY <1>1, BudgetAlways, PTL

(* The counter on disk never shows less than was accepted that day.        *)
THEOREM AlwaysAccounted == MeterSpec => []Accounted
<1>1. BudgetInv => Accounted BY DEF BudgetInv
<1> QED BY <1>1, BudgetAlways, PTL

(* At most one file of an earlier day's budget is accepted on a day.       *)
THEOREM LateIsAlwaysOneFile == MeterSpec => []LateIsOneFile
<1>1. BudgetInv => LateIsOneFile BY DEF BudgetInv
<1> QED BY <1>1, BudgetAlways, PTL

(* Once _metered_used has found the counter damaged, nothing more is       *)
(* accepted on that day's budget.                                          *)
THEOREM AlwaysFailsClosed == MeterSpec => FailsClosed
<1>1. BudgetInv /\ [MeterNext]_meter_vars
        => [accepted' # accepted => today # shut_day]_meter_vars
  <2> SUFFICES ASSUME BudgetInv, MeterNext, accepted' # accepted
               PROVE  today # shut_day
    BY DEF meter_vars
  <2>1. SendAccepted
    BY DEF MeterNext, ReadCorrupt, Reserve, SendFailed, Refund, Begin, BudgetReached,
           DayPasses, ClockSet, Damage, Reboot, histories
  <2> QED BY <2>1 DEF BudgetInv, ShutStays, InFlight, SendAccepted
<1> QED BY <1>1, BudgetAlways, PTL DEF MeterSpec, FailsClosed
=============================================================================
