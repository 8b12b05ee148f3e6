------------------------------- MODULE Arbiter -------------------------------
(***************************************************************************)
(* The decisions of the network arbiter (system/networkd/network_arbiter.py*)
(* and the ledger helpers of network_arbiterd.py): what the active link's  *)
(* state means, which saved network is cheapest, whether the driver's pick *)
(* still holds, and the one radio action of a tick.  A network is known by *)
(* one name here (the code folds case), and times are polls of 20 s.       *)
(***************************************************************************)
EXTENDS Integers, Sequences, FiniteSets

CONSTANTS Nets,         \* the saved client networks
          Members,      \* TetheringPriorityNetworks, in the driver's order
          Mobile,       \* its entries that travel with the car
          Cost,         \* connection.metered of each: "no", "unknown", "yes"
          Order,        \* the order of the names, for ties
          NoNet,        \* nothing: no network, no connection
          Hotspot,      \* our own access point, with LTE behind it
          GraceTicks,   \* DHCP_GRACE_S
          PinTicks,     \* PIN_JOIN_WINDOW_S
          AbsentScans,  \* PIN_HOME_ABSENT_SCANS
          UpgradeTicks  \* UPGRADE_SCAN_S

Configured == {Members[i] : i \in 1..Len(Members)}
Stationary == Configured \ Mobile

ASSUME ArbiterAssumption ==
  /\ Members \in Seq(Nets) /\ Mobile \subseteq Configured
  /\ Cost \in [Nets -> {"no", "unknown", "yes"}]
  /\ Order \in [Nets -> Nat] /\ \A m, n \in Nets : Order[m] = Order[n] => m = n
  /\ NoNet \notin Nets /\ Hotspot \notin Nets \cup {NoNet}
  /\ {GraceTicks, PinTicks, AbsentScans, UpgradeTicks} \subseteq Nat \ {0}

NoPending == [ssid |-> NoNet, age |-> 0]

(***************************************************************************)
(* A link that appears without being raised gets the grace of one we raise.*)
(***************************************************************************)
pending_for_new_link(ssid, pending, prev) ==
  IF ssid # NoNet /\ pending.ssid = NoNet /\ ssid # prev
  THEN [ssid |-> ssid, age |-> 0] ELSE pending

Verdict(sticky, blame, ok, pending) ==
  [sticky |-> sticky, blame |-> blame, ok |-> ok, pending |-> pending]

judge_link_NeverTook(readable, ssid, usable, pending, last_known) ==
  IF ~readable /\ pending.ssid # NoNet
  THEN Verdict(pending.ssid, NoNet, FALSE, pending)
  ELSE IF ssid = NoNet \/ usable = "unread"
  THEN Verdict(ssid, NoNet, FALSE, IF ssid = NoNet THEN NoPending ELSE pending)
  ELSE IF usable = "yes" THEN Verdict(ssid, ssid, TRUE, NoPending)
  ELSE IF pending.ssid # NoNet /\ pending.age < GraceTicks
  THEN Verdict(ssid, NoNet, FALSE, pending)
  ELSE Verdict(NoNet, ssid, FALSE, NoPending)

(***************************************************************************)
(* What the link's state means.  usable is "yes", "no" or "unread", and an *)
(* active connection that could not be read says nothing of the bring-up   *)
(* that is awaiting judgement.                                             *)
(***************************************************************************)
judge_link(readable, ssid, usable, pending, last_known) ==
  IF pending.ssid # NoNet
  THEN CASE ~readable -> Verdict(pending.ssid, NoNet, FALSE, pending)
         [] readable /\ ssid = NoNet ->
              Verdict(NoNet, pending.ssid, FALSE, NoPending)
         [] readable /\ ssid \notin {NoNet, pending.ssid} ->
              Verdict(ssid, NoNet, FALSE,
                      IF usable = "yes" THEN NoPending
                      ELSE [ssid |-> ssid, age |-> 0])
         [] readable /\ ssid = pending.ssid ->
              CASE usable = "yes" -> Verdict(ssid, ssid, TRUE, NoPending)
                [] usable = "unread" \/ (usable = "no" /\ pending.age < GraceTicks) ->
                     Verdict(ssid, NoNet, FALSE, pending)
                [] OTHER -> Verdict(NoNet, ssid, FALSE, NoPending)
  ELSE CASE ssid = NoNet -> Verdict(NoNet, NoNet, FALSE, NoPending)
         [] ssid # NoNet /\ usable = "yes" -> Verdict(ssid, ssid, TRUE, NoPending)
         [] ssid # NoNet /\ usable = "no" -> Verdict(NoNet, ssid, FALSE, NoPending)
         [] ssid # NoNet /\ usable = "unread" ->
              Verdict(IF last_known = "no" THEN NoNet ELSE ssid,
                      NoNet, FALSE, NoPending)

-----------------------------------------------------------------------------
(***************************************************************************)
(* The ranking: cost class, then place in the driver's list, then name.    *)
(***************************************************************************)
cost_class(n, metered, unmetered) ==
  IF n \in metered THEN 2 ELSE IF n \in unmetered THEN 0 ELSE 1

member_rank(n) ==
  IF n \in Configured THEN CHOOSE i \in 1..Len(Members) : Members[i] = n
  ELSE Len(Members) + 1

Ranks(m, n, metered, unmetered) ==
  LET cm == cost_class(m, metered, unmetered)
      cn == cost_class(n, metered, unmetered)
  IN \/ cm < cn
     \/ cm = cn /\ member_rank(m) < member_rank(n)
     \/ cm = cn /\ member_rank(m) = member_rank(n) /\ Order[m] <= Order[n]

Candidates(scan, saved, active, blocked) ==
  {n \in saved : n \in scan \cup {active} /\ n \notin blocked \ {active}}

choose_wifi(scan, saved, metered, unmetered, active, blocked) ==
  LET C == Candidates(scan, saved, active, blocked)
  IN IF C = {} THEN NoNet
     ELSE CHOOSE n \in C : \A m \in C : Ranks(n, m, metered, unmetered)

(***************************************************************************)
(* With the ladder switched off: the first configured network in range.    *)
(***************************************************************************)
select_available(scan, saved) ==
  LET C == Configured \cap scan \cap saved
  IN IF C = {} THEN NoNet
     ELSE CHOOSE n \in C : \A m \in C : member_rank(n) <= member_rank(m)

Does(action, ssid) == [action |-> action, ssid |-> ssid]
noop == Does("noop", NoNet)
Raises(d) == d.action \in {"up", "up_hotspot"}

(***************************************************************************)
(* The one action of a tick.  With tethering off only the hotspot is ever  *)
(* touched; otherwise the chosen network, and the hotspot when there is    *)
(* none.  Nothing already active is raised again.                          *)
(***************************************************************************)
decide(tethering, ladder, active, sticky, scan, saved, metered, unmetered, blocked) ==
  LET first  == select_available(scan, saved)
      choice == IF ladder
                THEN choose_wifi(scan, saved, metered, unmetered, sticky, blocked)
                ELSE IF first \in blocked \ {sticky} THEN NoNet ELSE first
      want   == IF choice = NoNet THEN Does("up_hotspot", NoNet)
                ELSE Does("up", choice)
  IN IF ~tethering
     THEN IF active = Hotspot THEN Does("down_hotspot", NoNet) ELSE noop
     ELSE IF active = (IF choice = NoNet THEN Hotspot ELSE choice) THEN noop
          ELSE want

-----------------------------------------------------------------------------
(***************************************************************************)
(* The driver's pick.  missing[n] counts the scans in a row without n since*)
(* the pick was seen; once n has been away it stays at AbsentScans.        *)
(***************************************************************************)
update_home_arrival_AnyMiss(missing, scanned, scan, gps) ==
  [n \in Nets |->
     IF n \in Configured /\ scanned /\ n \notin scan THEN AbsentScans
     ELSE missing[n]]

update_home_arrival(missing, scanned, scan, gps) ==
  [n \in Nets |->
     LET near == n \in Stationary /\ gps = "home"
         far  == n \in Stationary /\ gps = "away"
     IN IF n \notin Configured \/ missing[n] = AbsentScans THEN missing[n]
        ELSE IF scanned /\ n \in scan THEN 0
        ELSE IF far THEN AbsentScans
        ELSE IF scanned /\ ~near THEN missing[n] + 1 ELSE missing[n]]

(***************************************************************************)
(* The networks whose arrival ends a pin: one of the driver's, explicitly  *)
(* free, back after an absence and not in a backoff.  A stationary one     *)
(* always does, a mobile one when the pinned network is known to cost more.*)
(***************************************************************************)
Arrivals(scan, saved, unmetered, blocked, pinned, missing) ==
  {n \in (Configured \cap scan \cap saved \cap unmetered) \ (blocked \cup {pinned}) :
     missing[n] = AbsentScans}

home_to_yield_to(arrivals) == arrivals \cap Stationary # {}

unmetered_to_yield_to(arrivals, pinned_metered) ==
  arrivals # {} /\ pinned_metered \notin {"unread", "no"}

judge_pin(pin, readable, ssid, blamed, yields) ==
  IF ~readable THEN pin
  ELSE IF blamed \/ yields THEN [pin EXCEPT !.ended = TRUE]
  ELSE IF ssid = pin.key.ssid THEN [pin EXCEPT !.seen = TRUE]
  ELSE [pin EXCEPT !.ended = pin.seen \/ pin.age >= PinTicks]

upgrade_scan_due_OffWifi(on, on_client, unmetered, joining, settling, since) ==
  on /\ ~on_client /\ ~unmetered /\ ~joining /\ ~settling /\ since >= UpgradeTicks

(***************************************************************************)
(* A scan for something cheaper, on a client link that is not free.        *)
(***************************************************************************)
upgrade_scan_due(on, on_client, unmetered, joining, settling, since) ==
  on /\ on_client /\ ~unmetered /\ ~joining /\ ~settling /\ since >= UpgradeTicks

on_priority_network(ssid, active_metered) ==
  ssid \in Configured /\ active_metered # "yes"
=============================================================================
