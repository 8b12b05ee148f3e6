----------------------------- MODULE MCMadsPanda ----------------------------
(***************************************************************************)
(* openpilot and the panda together, with how long they have disagreed.    *)
(***************************************************************************)
EXTENDS MadsPanda

VARIABLES
  blocked_for,  \* history: ticks openpilot has steered alone while the panda blocks it
  unasked_for   \* history: ticks the panda has permitted what MADS no longer wants

pairVars == <<mpVars, blocked_for, unasked_for>>

PandaPermits == controls_allowed \/ controls_allowed_lateral
Unasked == controls_allowed_lateral /\ ~controls_allowed /\ ~mads_enabled

BlockedMax == MismatchLimit + PollTicks + MaxMissed + 1
UnaskedMax == 3 * SecondTicks + PollTicks + MaxMissed + 1
Count(b, n, max) == IF ~b THEN 0 ELSE IF n < max THEN n + 1 ELSE max

PairInit == MpInit /\ blocked_for = 0 /\ unasked_for = 0

PairNext ==
  /\ MpNext
  /\ blocked_for' = Count((lateral_only /\ ~PandaPermits)', blocked_for, BlockedMax + 1)
  /\ unasked_for' = Count(Unasked', unasked_for, UnaskedMax + 1)

PairSpec == PairInit /\ [][PairNext]_pairVars

-----------------------------------------------------------------------------
(* The design's whole point (mads_pnw.py, "keeps openpilot asking for      *)
(* lateral in exactly the frames the panda still permits it"): with every  *)
(* CAN frame delivered and a panda that drops nothing by itself, openpilot  *)
(* never steers alone in a tick in which the panda blocks steering.         *)
NeverSteersBlocked == lateral_only /\ missed = 0 /\ ~faulted => PandaPermits

(* When the panda does revoke by itself, the disagreement is bounded: the   *)
(* poll sees it and madsControlsMismatchLateral ends it (selfdrived.py      *)
(* data_sample).                                                            *)
BlockedIsBounded == blocked_for <= BlockedMax

(* When openpilot stops asking, the panda takes lateral back: the heartbeat *)
(* reaches it with the next poll and its watchdog needs at most three of    *)
(* its seconds (pandad.cc, engaged_mads).                                   *)
UnaskedIsBounded == unasked_for <= UnaskedMax
=============================================================================
