--------------------------- MODULE NetworkArbiterd ---------------------------
(***************************************************************************)
(* The loop of the network arbiter (system/networkd/network_arbiterd.py).  *)
(* Its state is the local variables of main, lost when the daemon dies.  A *)
(* pass is two steps: look reads everything through nmcli and chooses, and *)
(* apply runs the one nmcli command chosen; the radio may change between   *)
(* the two.  Any read may fail: fault names the one that does in this pass.*)
(***************************************************************************)
EXTENDS Arbiter

CONSTANTS HoldTicks,    \* ACTIVE_UNREADABLE_HOLD_S
          Backoff       \* FAIL_BACKOFF_S, a sequence of ticks

ASSUME LoopAssumption ==
  HoldTicks \in Nat \ {0} /\ Backoff \in Seq(Nat \ {0}) /\ Backoff # <<>>

VARIABLES ledger,       \* assoc_fail: failures in a row and the backoff left
          absent,       \* absent_scans: scans without it, -1 if not tracked
          retried,      \* transient_used: the one free retry is spent
          link,         \* what is known of the active connection
          pin,          \* the driver's pick, as tracked
          costed,       \* _metered_cache: the networks whose cost was read
          since_scan,   \* polls since the last upgrade scan
          todo          \* the action chosen and not yet run

\* What the daemon reads and acts on.
VARIABLES radio,        \* the active wifi connection: NoNet, Hotspot or a network
          lease,        \* polls until its DHCP answers
          range,        \* the networks in range
          works,        \* the networks that give an address and a way out
          gps,          \* "home" (the learned location), "away" or "none"
          pick,         \* WifiManualPick
          tethering,    \* TetheringEnabled
          ladder,       \* ~DisableNetworkCostLadder
          on_priority   \* OnPriorityNetwork, read by the uploader

arbiter_vars == <<ledger, absent, retried, link, pin, costed, since_scan, todo>>

NoPick == [ssid |-> NoNet, ts |-> 0]
NoJoin == [ssid |-> NoNet, class |-> ""]
ABSENT_SCANS_FOR_FRESH_START == 2

Capped(n, max) == IF n < max THEN n ELSE max

(***************************************************************************)
(* main, before its loop.                                                  *)
(***************************************************************************)
Ledger0 == [n \in Nets |-> [fails |-> 0, left |-> 0]]
Absent0 == [n \in Nets |-> -1]
Link0 == [pending |-> NoPending, join |-> NoJoin, prev |-> NoNet,
          seen |-> NoNet, requested |-> NoNet, unread |-> -1,
          usable |-> [n \in Nets |-> "unread"]]
Pin0 == [key |-> NoPick, age |-> 0, seen |-> FALSE, ended |-> FALSE,
         missing |-> [n \in Nets |-> 0]]

ArbiterInit ==
  /\ ledger = Ledger0 /\ absent = Absent0 /\ retried = {} /\ link = Link0
  /\ pin = Pin0 /\ costed = {} /\ since_scan = UpgradeTicks /\ todo = noop

start ==
  /\ ledger' = Ledger0 /\ absent' = Absent0 /\ retried' = {} /\ link' = Link0
  /\ pin' = Pin0 /\ costed' = {} /\ since_scan' = UpgradeTicks /\ todo' = noop

-----------------------------------------------------------------------------
(***************************************************************************)
(* One poll later: every age and every backoff moves by one.               *)
(***************************************************************************)
AgedLedger == [n \in Nets |->
  [ledger[n] EXCEPT !.left = IF @ > 0 THEN @ - 1 ELSE 0]]
AgedPending == [link.pending EXCEPT
  !.age = IF link.pending.ssid = NoNet THEN 0 ELSE Capped(@ + 1, GraceTicks)]

(***************************************************************************)
(* _active_wifi_read and what main keeps of it: a failed read starts or    *)
(* lengthens a run of them and changes nothing else.                       *)
(***************************************************************************)
read_active(readable) ==
  IF readable
  THEN [link EXCEPT !.pending = AgedPending, !.unread = -1, !.seen = radio,
                    !.requested = NoNet]
  ELSE [link EXCEPT !.pending = AgedPending, !.unread = Capped(@ + 1, HoldTicks)]

(***************************************************************************)
(* WifiManualPick.  A new pick starts a new pin, with its own evidence; a  *)
(* pick that is gone ends it; a failed read changes nothing.               *)
(***************************************************************************)
read_pick(readable) ==
  LET older == [pin EXCEPT !.age = IF pin.key = NoPick \/ pin.ended THEN 0
                                   ELSE Capped(@ + 1, PinTicks)]
  IN IF ~readable \/ pick = pin.key THEN older
     ELSE IF pick = NoPick THEN [older EXCEPT !.ended = TRUE]
     ELSE [Pin0 EXCEPT !.key = pick]

InForce(p) == p.key # NoPick /\ ~p.ended

(***************************************************************************)
(* _note_attempt: a success clears the network's record, a failure starts  *)
(* the next longer backoff.                                                *)
(***************************************************************************)
_note_attempt(led, n, ok) ==
  [led EXCEPT ![n] =
     IF ok THEN [fails |-> 0, left |-> 0]
     ELSE [fails |-> Capped(@.fails + 1, Len(Backoff)),
           left  |-> Backoff[Capped(@.fails + 1, Len(Backoff))]]]

_blocked(led) == {n \in Nets : led[n].left > 0}

(***************************************************************************)
(* The blame of this tick: the first transient failure to join a mobile    *)
(* entry is forgiven, everything else goes to the ledger.                  *)
(***************************************************************************)
Forgiven(v, join) ==
  /\ v.blame # NoNet /\ ~v.ok /\ v.blame \in Mobile \ retried
  /\ join = [ssid |-> v.blame, class |-> "transient"]

Blamed(v, join) ==
  IF v.blame = NoNet \/ Forgiven(v, join) THEN AgedLedger
  ELSE _note_attempt(AgedLedger, v.blame, v.ok)

Retries(v, join) ==
  IF Forgiven(v, join) THEN retried \cup {v.blame}
  ELSE IF v.ok THEN retried \ {v.blame} ELSE retried

(***************************************************************************)
(* _forget_on_reappearance: a network missing from two scans in a row and  *)
(* back starts afresh.  A scan that did not run says nothing.              *)
(***************************************************************************)
Back(scan) == {n \in scan : absent[n] = ABSENT_SCANS_FOR_FRESH_START}

_forget_on_reappearance(led, scanned, scan) ==
  [n \in Nets |-> IF scanned /\ n \in Back(scan)
                  THEN [fails |-> 0, left |-> 0] ELSE led[n]]

Absences(led, scanned, scan) ==
  [n \in Nets |->
     IF ~scanned \/ (absent[n] < 0 /\ led[n].fails = 0) THEN absent[n]
     ELSE IF n \in scan THEN 0
     ELSE IF absent[n] < 0 THEN 1
     ELSE Capped(absent[n] + 1, ABSENT_SCANS_FOR_FRESH_START)]

(***************************************************************************)
(* What is scanned: everything in range, less what this scan omits.  Off   *)
(* client wifi the geo-gate is open; on it, near a learned location or when*)
(* an upgrade scan is due.                                                 *)
(***************************************************************************)
near_any_home == gps # "away" \/ Stationary = {}

Settling(l, ssid) == l.pending.ssid # NoNet \/ (ssid # NoNet /\ ssid # l.prev)

UpgradeDue(l, p, ssid, metered) ==
  upgrade_scan_due(tethering /\ ladder, ssid # NoNet, metered = "no",
                   InForce(p) /\ ssid # p.key.ssid, Settling(l, ssid), since_scan)

Scans(due, ssid) ==
  tethering /\ (Configured # {} \/ ladder) /\ (ssid = NoNet \/ near_any_home \/ due)

(***************************************************************************)
(* _client_link_usable: an address and a connection behind it.             *)
(***************************************************************************)
_client_link_usable(ssid, readable) ==
  IF ssid = NoNet \/ ~readable THEN "unread"
  ELSE IF ssid \in works /\ lease = 0 THEN "yes" ELSE "no"

(***************************************************************************)
(* The three holds on a radio action: the active link is usable and its    *)
(* cost was never read; the driver's pick is in force; the active          *)
(* connection cannot be read, for at most HoldTicks, and there is something*)
(* to hold on to.                                                          *)
(***************************************************************************)
HoldingOn(l) == l.unread >= 0 /\ {l.seen, l.requested} # {NoNet}
Defers(l) == HoldingOn(l) /\ l.unread < HoldTicks

CostHold(ssid, metered, sticky) ==
  tethering /\ ladder /\ ssid # NoNet /\ metered = "unread" /\ sticky = ssid
PinHold(p) == InForce(p) /\ tethering /\ ladder

held_NoUnread(d, l, p, ssid, metered, sticky) ==
  IF Raises(d) /\ (CostHold(ssid, metered, sticky) \/ PinHold(p)) THEN noop ELSE d

held(d, l, p, ssid, metered, sticky) ==
  IF Raises(d) /\ (CostHold(ssid, metered, sticky) \/ PinHold(p) \/ Defers(l))
  THEN noop ELSE d

(***************************************************************************)
(* What a pass has read when it comes to judge: the active network, its    *)
(* cost and whether it works, the scan if one ran, and the costs known of  *)
(* the networks it lists.  fault is the read that fails; omitted are       *)
(* networks in range that this scan does not list.                         *)
(***************************************************************************)
Reads(fault, omitted, l, p) ==
  LET active   == IF fault # "active" THEN radio ELSE NoNet
      ssid     == IF active \in Nets THEN active ELSE NoNet
      read     == IF fault = "cost" THEN {} ELSE {ssid} \cap Nets
      metered  == IF ssid \in costed \cup read THEN Cost[ssid] ELSE "unread"
      due      == UpgradeDue(l, p, ssid, metered)
      scanned  == Scans(due, ssid) /\ fault # "scan"
      raw      == IF scanned THEN range \ omitted ELSE {}
      scan     == raw \cup ({ssid} \cap Configured)
      saved    == IF fault = "saved" THEN {} ELSE Nets
      costs    == costed \cup read \cup
                    IF fault = "cost" \/ ~(tethering /\ ladder) THEN {}
                    ELSE scan \cap saved
      listed   == (scan \cap saved) \cup ({ssid} \cap Nets)
      ranked   == IF tethering /\ ladder THEN listed \cap costs ELSE {}
  IN [active |-> active, ssid |-> ssid, metered |-> metered, due |-> due,
      scanned |-> scanned, raw |-> raw, scan |-> scan, saved |-> saved, costs |-> costs,
      dear |-> {n \in ranked : Cost[n] = "yes"}, free |-> {n \in ranked : Cost[n] = "no"},
      usable |-> _client_link_usable(ssid, fault # "usable")]

(* The verdict on the link that was read.                                  *)
Judged(l, r) ==
  judge_link(~Defers(l), r.ssid, r.usable,
             pending_for_new_link(r.ssid, l.pending, l.prev),
             IF r.ssid = NoNet THEN "unread" ELSE l.usable[r.ssid])

(***************************************************************************)
(* What the pass keeps and chooses: led is the ledger, seen the evidence   *)
(* for the pin and come the arrivals that may end it.                      *)
(***************************************************************************)
Concludes(fault, l, p, r, v, led, seen, come) ==
  LET pinned == IF p.key.ssid \in r.costs THEN Cost[p.key.ssid] ELSE "unread"
      d      == decide(tethering, ladder, r.active, v.sticky, r.scan, r.saved,
                       r.dear, r.free, _blocked(led))
  IN /\ ledger' = led
     /\ absent' = Absences(led, r.scanned, r.raw)
     /\ retried' = Retries(v, l.join)
     /\ link' = [l EXCEPT !.pending = v.pending, !.prev = r.ssid,
                    !.join = IF v.blame = l.join.ssid THEN NoJoin ELSE @,
                    !.usable = IF r.usable = "unread" THEN @
                               ELSE [@ EXCEPT ![r.ssid] = r.usable]]
     /\ pin' = IF ~InForce(p) THEN p
               ELSE judge_pin(seen, fault # "active", r.ssid,
                      v.blame = p.key.ssid /\ ~v.ok,
                      \/ home_to_yield_to(come)
                      \/ unmetered_to_yield_to(come, pinned))
     /\ costed' = r.costs
     /\ since_scan' = IF r.due THEN 1 ELSE Capped(since_scan + 1, UpgradeTicks)
     /\ on_priority' = on_priority_network(r.ssid, r.metered)
     /\ todo' = held(d, l, pin', r.ssid, r.metered, v.sticky)

(***************************************************************************)
(* A pass of main up to _apply.                                            *)
(***************************************************************************)
look(fault, omitted) ==
  /\ todo = noop
  /\ \E l \in {read_active(fault # "active")}, p \in {read_pick(fault # "pick")} :
     \E r \in {Reads(fault, omitted, l, p)} :
     \E v \in {Judged(l, r)} :
     \E led \in {_forget_on_reappearance(Blamed(v, l.join), r.scanned, r.raw)} :
     \E seen \in {[p EXCEPT !.missing = update_home_arrival(@, r.scanned, r.raw, gps)]} :
     \E come \in {Arrivals(r.raw, r.saved, r.free, _blocked(led), p.key.ssid, seen.missing)} :
       Concludes(fault, l, p, r, v, led, seen, come)
  /\ lease' = IF lease > 0 THEN lease - 1 ELSE 0
  /\ UNCHANGED <<radio, range, works, gps, pick, tethering, ladder>>

(***************************************************************************)
(* _apply, and what main remembers of it.  A client is raised by taking the*)
(* radio from whatever has it, so a join that fails leaves nothing active; *)
(* outcome is the connection nmcli leaves active and class how it failed.  *)
(***************************************************************************)
_apply(outcome, wait, class) ==
  /\ todo # noop
  /\ radio' = outcome /\ lease' = wait
  /\ link' = IF todo.action = "up"
             THEN [link EXCEPT !.pending = [ssid |-> todo.ssid, age |-> 0],
                               !.requested = todo.ssid, !.prev = todo.ssid,
                               !.join = [ssid |-> todo.ssid, class |-> class],
                               !.usable[todo.ssid] = "unread"]
             ELSE [link EXCEPT !.requested = IF todo.action = "up_hotspot"
                                             THEN Hotspot ELSE NoNet]
  /\ todo' = noop
  /\ UNCHANGED <<ledger, absent, retried, pin, costed, since_scan, range, works,
                 gps, pick, tethering, ladder, on_priority>>
=============================================================================
