--------------------------- MODULE LateralAuthority -------------------------
(***************************************************************************)
(* What the lateral authority promises, without how it decides: who may    *)
(* steer.  Steering alone can only be inherited from openpilot's own       *)
(* engagement, directly or after a wait of at most Patience frames; once   *)
(* nobody steers only an engagement brings the steering back.              *)
(***************************************************************************)
EXTENDS Integers

CONSTANT Patience

VARIABLES
  authority,    \* "op", "lateral", "waiting" or "none"
  patience      \* frames left to wait

laVars == <<authority, patience>>

Init == authority = "none" /\ patience = 0

Become(a, n) == authority' = a /\ patience' = n

Engage == authority # "op" /\ Become("op", 0)

Inherit == authority = "op" /\ Become("lateral", 0)

Wait == authority = "op" /\ Become("waiting", Patience)

KeepWaiting == authority = "waiting" /\ patience > 1 /\ Become("waiting", patience - 1)

TakeOver == authority = "waiting" /\ Become("lateral", 0)

GiveUp == authority # "none" /\ Become("none", 0)

Next == Engage \/ Inherit \/ Wait \/ KeepWaiting \/ TakeOver \/ GiveUp

Safety == Init /\ [][Next]_laVars
=============================================================================
