------------------------------ MODULE MCNetwork ------------------------------
(***************************************************************************)
(* The network arbiter on small instances, and what it must and must not do*)
(* with the radio.                                                         *)
(***************************************************************************)
EXTENDS Network, TLC

MCNets == {"home", "phone", "dish"}
MCMembers == <<"home", "phone">>
MCMobile == {"phone"}
MCCost == [n \in MCNets |-> IF n = "dish" THEN "unknown" ELSE "no"]
MCOrder == [n \in MCNets |-> IF n = "dish" THEN 1 ELSE IF n = "home" THEN 2 ELSE 3]
MCNoNet == "none"
MCHotspot == "Hotspot"
MCBackoff == <<2, 4>>

VARIABLES dark,         \* polls in a row with tethering on and no way out
          calm,         \* polls in a row in which nothing happened or failed
          gone          \* networks away at some time since the pick

mc_vars == <<vars, dark, calm, gone>>

Online == radio = Hotspot \/ (radio \in works /\ lease = 0)

(***************************************************************************)
(* The loop starts with nothing active, at home or on the road, among      *)
(* networks that work.                                                     *)
(***************************************************************************)
MCInit ==
  /\ Init /\ radio = NoNet /\ works = Nets
  /\ gps # "none" /\ range = IF gps = "home" THEN Nets ELSE Nets \ Stationary
  /\ dark = 0 /\ calm = 0 /\ gone = {}

(***************************************************************************)
(* A pin that is not joined, then every network tried once for each step of*)
(* the backoff, and a poll for each failed read.                           *)
(***************************************************************************)
Limit == PinTicks + Len(Backoff) * Cardinality(Nets) * GraceTicks + MaxFaults

(***************************************************************************)
(* The longest backoff, a pick that is not joined, the wait for an upgrade *)
(* scan and a bring-up.                                                    *)
(***************************************************************************)
CalmLimit == Backoff[Len(Backoff)] + PinTicks + UpgradeTicks + GraceTicks

Polled == todo = noop /\ events' = events     \* the step was a Look

MCNext ==
  /\ Next
  /\ dark' = IF Online' \/ ~tethering' \/ events' # events THEN 0
             ELSE IF Polled THEN Capped(dark + 1, Limit + 1) ELSE dark
  /\ calm' = IF <<events, faults>>' # <<events, faults>> THEN 0
             ELSE IF Polled THEN Capped(calm + 1, CalmLimit) ELSE calm
  /\ gone' = IF pick' = NoPick \/ (pin'.key = pick' /\ pin'.ended) THEN {}
             ELSE IF pick' # pick THEN Nets \ range' ELSE gone \cup (Nets \ range')

MCSpec == MCInit /\ [][MCNext]_mc_vars

-----------------------------------------------------------------------------
Free == {n \in Nets : Cost[n] = "no"}
Dear == {n \in Nets : Cost[n] = "yes"}

OnWorkingLink == tethering /\ ladder /\ radio \in works /\ lease = 0
Leaves == Polled /\ OnWorkingLink /\ Raises(todo')

(***************************************************************************)
(* The device is never without a way out for long, whatever the networks in*)
(* range do: the hotspot is given up for a network that may fail, so every *)
(* failure must be seen, recorded and backed off from, a failed read or a  *)
(* driver's pick that never joins included (judge_link, _note_attempt,     *)
(* judge_pin).                                                             *)
(***************************************************************************)
OfflineIsBounded == dark <= Limit

(***************************************************************************)
(* A working link is left only for a network in range that ranks before it,*)
(* by the costs the daemon has read.                                       *)
(* A failed read never does it, unless the active connection has not been  *)
(* readable for the whole hold, was not known when the reads began to fail,*)
(* or was unusable when it was last seen (the holds of main, judge_link's  *)
(* third value).                                                           *)
(***************************************************************************)
WorkingLinkStays ==
  [][Leaves => \/ /\ todo'.ssid \in range \ {radio}
                  /\ Ranks(todo'.ssid, radio, Dear \cap costed', Free \cap costed')
               \/ link'.unread >= HoldTicks
               \/ link'.unread >= 0 /\ ~HoldingOn(link')
               \/ link'.unread < 0 /\ link'.usable[radio] = "no"]_mc_vars

(***************************************************************************)
(* What network_arbiterd.py asks of its reads: an error is not a negative  *)
(* result, and one failed nmcli call does not hand a working link's radio  *)
(* to the hotspot.  The list of saved profiles is the one read for which   *)
(* the code does not keep to it: _saved_connections answers [] for an      *)
(* error, and no network is then a candidate.                              *)
(***************************************************************************)
ErrorIsNotAbsence == [][Leaves /\ faults' # faults => todo'.ssid # NoNet]_mc_vars

(***************************************************************************)
(* The driver's pick, once joined and working, is left only for one of his *)
(* own free networks that was away at some time since he made the pick     *)
(* (judge_pin, update_home_arrival).                                       *)
(***************************************************************************)
PickRespected ==
  [][Leaves /\ InForce(pin) /\ pin.key = pick /\ pin.seen /\ radio = pick.ssid
       => gone \cap range \cap Configured \cap Free # {}]_mc_vars

(***************************************************************************)
(* Once the world has been quiet for CalmLimit polls and every network in  *)
(* range works, the device is on the cheapest kind of network there is, and*)
(* on its own hotspot when there is none: no backoff, suppressed scan or   *)
(* unread cost keeps it elsewhere.  A pick in force is the exception.      *)
(***************************************************************************)
OnCheapest ==
  IF range = {} THEN radio = Hotspot
  ELSE radio \in range /\ \A n \in range :
         cost_class(radio, Dear, Free) <= cost_class(n, Dear, Free)

CheapestWins ==
  calm >= CalmLimit /\ todo = noop /\ tethering /\ ladder /\ range \subseteq works
    /\ ~InForce(pin) => OnCheapest
=============================================================================
