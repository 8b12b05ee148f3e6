-------------------------- MODULE MadsResume_proofs --------------------------
(***************************************************************************)
(* Proofs about the auto-resume brain, for every debounce, window and wait *)
(* that ResumeAssumption admits, every sequence of pedals, cruise states   *)
(* and gates, and a drive of any length.                                   *)
(***************************************************************************)
EXTENDS MCMadsResume, TLAPS, FiniteSetTheorems

-----------------------------------------------------------------------------
Words == {"arm", "fire", "refuse", "offerEnd", "ignored", "suppress", "verify"}

(* A brain: its fields, and the types of those the proofs reason about.    *)
Brain(b) ==
  /\ DOMAIN b = {"set", "armed", "armed_set", "used_gas", "done", "terminal", "arm",
                 "released", "offer", "verify", "lat_prev", "pedal_prev", "gas_prev",
                 "cc_prev", "last_brake", "pedal_off", "fired", "suppressed",
                 "lat_braked", "gas_spent", "gas_fast", "gas_wait", "out", "rec"}
  /\ b.armed \in BOOLEAN /\ b.used_gas \in BOOLEAN /\ b.done \in BOOLEAN
  /\ b.terminal \in BOOLEAN /\ b.released \in Int /\ b.lat_prev \in BOOLEAN
  /\ b.pedal_prev \in BOOLEAN /\ b.gas_prev \in BOOLEAN /\ b.cc_prev \in BOOLEAN
  /\ b.last_brake \in Int /\ b.pedal_off \in Int /\ b.fired \in Int
  /\ b.suppressed \in BOOLEAN /\ b.gas_spent \in BOOLEAN /\ b.gas_fast \in BOOLEAN
  /\ b.gas_wait \in Int /\ b.rec \in Seq(Words)

Inputs ==
  [brake : BOOLEAN, regen : BOOLEAN, gas : BOOLEAN, lat : BOOLEAN, cc : BOOLEAN,
   available : BOOLEAN, blocked : BOOLEAN, slow : BOOLEAN,
   gate : {"clear", "res", "all"}, onpower : BOOLEAN, stale : BOOLEAN]

(* What the brain remembers of the last tick is what the driver did in it, *)
(* and its clocks read what the driver's history reads one tick later.     *)
MemoryInv ==
  /\ Brain(brain)
  /\ pedal \in [brake : BOOLEAN, gas : BOOLEAN, lat : BOOLEAN, cc : BOOLEAN]
  /\ hist.off \in Int /\ hist.up \in Nat /\ hist.open \in Int
  /\ hist.rejected \in BOOLEAN /\ hist.acted \in BOOLEAN /\ hist.early \in BOOLEAN
  /\ hist.balanced \in BOOLEAN /\ hist.sets \in {"none", "one", "more"}
  /\ brain.cc_prev = pedal.cc /\ brain.pedal_prev = pedal.brake
  /\ brain.gas_prev = pedal.gas /\ (pedal.lat => brain.lat_prev)
  /\ hist.braked = Later(brain.last_brake, Double)
  /\ hist.offered = Later(brain.fired, Reject)
  /\ pedal.brake => hist.off = 0
  /\ ~pedal.brake => brain.pedal_off >= 0 /\ hist.off = Later(brain.pedal_off, Debounce)

(* An episode is gone without a trace, and has its terminal record only    *)
(* once its attempt is over.                                               *)
Tidy(b) ==
  /\ ~b.armed => b.released = -1 /\ ~b.done /\ ~b.terminal
  /\ b.armed /\ ~b.done => ~b.terminal
  /\ b.gas_wait >= ReleaseMin

EpisodeInv ==
  /\ Tidy(brain)
  /\ brain.released >= 0 => hist.up > brain.released \/ hist.up > ReleaseMin
  /\ brain.armed /\ (~brain.done \/ pedal.gas) => hist.acted

(* A rejection is remembered as the opt-out, and leaves no episode.        *)
RejectInv == hist.rejected => brain.suppressed /\ ~brain.armed /\ brain.out = "none"

(* The press that named a speed is spent, and its episode is over.         *)
SpentInv == hist.sets = "one" => brain.gas_spent /\ (brain.armed => brain.done)

(* The open arm of the history is the open episode of the brain.           *)
OpenInv == hist.balanced /\ hist.open = IF brain.armed /\ ~brain.terminal THEN 1 ELSE 0

ResumeInv == /\ MemoryInv /\ EpisodeInv /\ RejectInv /\ SpentInv /\ OpenInv
             /\ OfferIsEarned /\ FirstPressOnly
-----------------------------------------------------------------------------
(* The records of a tick: the places up to k that hold one of a set of     *)
(* words, the arms they leave open, and whether an offer is among them.    *)
At(s, words, k) == {j \in DOMAIN s : s[j] \in words /\ j <= k}
Net(s, k) == Cardinality(At(s, {"arm"}, k)) - Cardinality(At(s, {"fire", "refuse"}, k))
Count(s) == Net(s, Len(s))
Steady(open, s) == \A k \in DOMAIN s : open + Net(s, k) \in {0, 1}
Fired(s) == \E k \in DOMAIN s : s[k] = "fire"

(* The places of a set of words are finitely many.                         *)
LEMMA AtFacts ==
  ASSUME NEW s \in Seq(Words), NEW words, NEW k
  PROVE  IsFiniteSet(At(s, words, k)) /\ Cardinality(At(s, words, k)) \in Nat
<1>1. At(s, words, k) \subseteq 1..Len(s)
  BY DEF At
<1>2. IsFiniteSet(1..Len(s))
  BY FS_Interval
<1> QED BY <1>1, <1>2, FS_Subset, FS_CardinalityType

(* One more record adds its own place and leaves the others.               *)
LEMMA AtAppend ==
  ASSUME NEW s \in Seq(Words), NEW w \in Words, NEW words
  PROVE  LET t == Append(s, w)
         IN /\ \A k \in 1..Len(s) : At(t, words, k) = At(s, words, k)
            /\ Cardinality(At(t, words, Len(t))) =
                 Cardinality(At(s, words, Len(s))) + IF w \in words THEN 1 ELSE 0
<1> DEFINE t == Append(s, w)
<1>1. /\ t \in Seq(Words) /\ Len(t) = Len(s) + 1 /\ Len(s) \in Nat
      /\ t[Len(t)] = w /\ \A j \in 1..Len(s) : t[j] = s[j]
      /\ DOMAIN t = 1..Len(t) /\ DOMAIN s = 1..Len(s)
  OBVIOUS
<1>2. \A k \in 1..Len(s) : At(t, words, k) = At(s, words, k)
  BY <1>1 DEF At
<1> DEFINE A == At(s, words, Len(s))
<1>3. IsFiniteSet(A) /\ Len(t) \notin A
  <2>1. Len(t) \notin A
    BY <1>1 DEF At
  <2> QED BY <2>1, AtFacts
<1>4. At(t, words, Len(t)) = IF w \in words THEN A \union {Len(t)} ELSE A
  BY <1>1 DEF At
<1> HIDE DEF A, t
<1>5. Cardinality(At(t, words, Len(t))) = Cardinality(A) + IF w \in words THEN 1 ELSE 0
  <2>1. Cardinality(A) \in Nat
    BY <1>3, FS_CardinalityType
  <2>2. Cardinality(A \union {Len(t)}) = Cardinality(A) + 1
    BY <1>3, FS_AddElement
  <2> QED BY <1>4, <2>1, <2>2
<1> QED BY <1>2, <1>5 DEF A, t

(* What appending a record does to the balance of a tick.                  *)
LEMMA AppendFacts ==
  ASSUME NEW s \in Seq(Words), NEW w \in Words, NEW o \in Int
  PROVE  /\ Append(s, w) \in Seq(Words)
         /\ Fired(Append(s, w)) <=> Fired(s) \/ w = "fire"
         /\ Count(s) \in Int
         /\ Count(Append(s, w)) = Count(s) + IF w = "arm" THEN 1
                                             ELSE IF w \in {"fire", "refuse"} THEN -1 ELSE 0
         /\ Steady(o, s) /\ o + Count(Append(s, w)) \in {0, 1} => Steady(o, Append(s, w))
<1> DEFINE t == Append(s, w)
<1>1. /\ t \in Seq(Words) /\ Len(t) = Len(s) + 1 /\ Len(s) \in Nat
      /\ t[Len(t)] = w /\ \A j \in 1..Len(s) : t[j] = s[j]
      /\ DOMAIN t = 1..Len(t) /\ DOMAIN s = 1..Len(s)
  OBVIOUS
<1>2. Fired(t) <=> Fired(s) \/ w = "fire"
  BY <1>1 DEF Fired
<1>3. \A k \in 1..Len(s) : Net(t, k) = Net(s, k)
  BY AtAppend DEF Net
<1>4. Count(s) \in Int
  BY AtFacts DEF Count, Net
<1>5. Count(t) = Count(s) + IF w = "arm" THEN 1
                            ELSE IF w \in {"fire", "refuse"} THEN -1 ELSE 0
  <2>1. /\ Cardinality(At(t, {"arm"}, Len(t))) =
             Cardinality(At(s, {"arm"}, Len(s))) + IF w \in {"arm"} THEN 1 ELSE 0
        /\ Cardinality(At(t, {"fire", "refuse"}, Len(t))) =
             Cardinality(At(s, {"fire", "refuse"}, Len(s)))
               + IF w \in {"fire", "refuse"} THEN 1 ELSE 0
    BY AtAppend
  <2>2. /\ Cardinality(At(s, {"arm"}, Len(s))) \in Nat
        /\ Cardinality(At(s, {"fire", "refuse"}, Len(s))) \in Nat
    BY AtFacts
  <2> HIDE DEF t
  <2> QED BY <2>1, <2>2 DEF Count, Net
<1>6. ASSUME Steady(o, s), o + Count(t) \in {0, 1} PROVE Steady(o, t)
  <2> SUFFICES ASSUME NEW k \in DOMAIN t PROVE o + Net(t, k) \in {0, 1}
    BY DEF Steady
  <2>1. CASE k \in 1..Len(s)
    <3>1. Net(t, k) = Net(s, k)
      BY <1>3, <2>1
    <3>2. o + Net(s, k) \in {0, 1}
      BY <1>6, <1>1, <2>1 DEF Steady
    <3> HIDE DEF t
    <3> QED BY <3>1, <3>2
  <2>2. CASE k = Len(t)
    BY <1>6, <2>2 DEF Count
  <2> QED BY <1>1, <2>1, <2>2
<1> QED BY <1>1, <1>2, <1>4, <1>5, <1>6

(* The tick begins without a record.                                       *)
LEMMA NoRecords == <<>> \in Seq(Words) /\ ~Fired(<<>>) /\ Count(<<>>) = 0 /\ \A o : Steady(o, <<>>)
<1>1. At(<<>>, {"arm"}, 0) = {} /\ At(<<>>, {"fire", "refuse"}, 0) = {}
  BY DEF At
<1>2. Net(<<>>, 0) = 0
  BY <1>1, FS_EmptySet DEF Net
<1> QED BY <1>2 DEF Count, Fired, Steady
-----------------------------------------------------------------------------
(* A brain in the middle of a tick, of an episode that was open or not     *)
(* before it: no offer is made yet and the records agree with the episode. *)
Logged(o, b) ==
  /\ Brain(b)
  /\ Steady(o, b.rec)
  /\ o + Count(b.rec) = IF b.armed /\ ~b.terminal THEN 1 ELSE 0

Quiet(o, b) == Logged(o, b) /\ b.out = "none" /\ ~Fired(b.rec)

SameMemory(c, b) ==
  /\ c.lat_prev = b.lat_prev /\ c.pedal_prev = b.pedal_prev /\ c.gas_prev = b.gas_prev
  /\ c.cc_prev = b.cc_prev /\ c.last_brake = b.last_brake /\ c.pedal_off = b.pedal_off
  /\ c.suppressed = b.suppressed

SameGas(c, b) == c.gas_spent = b.gas_spent /\ c.gas_fast = b.gas_fast

SameEpisode(c, b) ==
  /\ c.armed = b.armed /\ c.done = b.done /\ c.terminal = b.terminal
  /\ c.released = b.released /\ c.offer = b.offer /\ c.verify = b.verify
  /\ c.used_gas = b.used_gas /\ c.gas_wait = b.gas_wait /\ c.arm = b.arm

Constants == /\ Debounce \in Nat /\ Double \in Nat /\ Reject \in Nat /\ ReleaseMin \in Nat
             /\ GasWait \in Nat /\ ReleaseMax \in Nat /\ OfferMax \in Nat
             /\ Debounce > 0 /\ ReleaseMin > 0 /\ ReleaseMin <= GasWait

(* The constants of the proofs.                                            *)
LEMMA ConstantsFacts == Constants
BY ResumeAssumption DEF Constants

(* A record that is neither an arm nor an end changes nothing else.        *)
LEMMA NoteFacts ==
  ASSUME NEW o \in Int, NEW b, Quiet(o, b), NEW w \in Words \ {"arm", "fire", "refuse"}
  PROVE  LET c == Note(b, w)
         IN /\ Quiet(o, c) /\ SameMemory(c, b) /\ SameGas(c, b) /\ SameEpisode(c, b)
            /\ c.fired = b.fired
<1> Brain(b) /\ b.rec \in Seq(Words)
  BY DEF Quiet, Logged, Brain
<1>1. /\ Append(b.rec, w) \in Seq(Words) /\ ~Fired(Append(b.rec, w))
      /\ Count(Append(b.rec, w)) = Count(b.rec)
      /\ Steady(o, Append(b.rec, w))
  <2>1. o + Count(b.rec) \in {0, 1} /\ Steady(o, b.rec) /\ ~Fired(b.rec)
    BY DEF Quiet, Logged
  <2>2. Count(Append(b.rec, w)) = Count(b.rec)
    BY AppendFacts
  <2> QED BY <2>1, <2>2, AppendFacts
<1> QED BY <1>1 DEF Note, Quiet, Logged, Brain, SameMemory, SameGas, SameEpisode

(* Nor does one that is made on a condition.                               *)
LEMMA NoteIfFacts ==
  ASSUME NEW o \in Int, NEW b, Quiet(o, b), NEW w \in Words \ {"arm", "fire", "refuse"},
         NEW cond
  PROVE  LET c == NoteIf(cond, b, w)
         IN /\ Quiet(o, c) /\ SameMemory(c, b) /\ SameGas(c, b) /\ SameEpisode(c, b)
            /\ c.fired = b.fired
<1>1. CASE cond
  BY <1>1, NoteFacts DEF NoteIf
<1>2. CASE ~cond
  BY <1>2 DEF NoteIf, SameMemory, SameGas, SameEpisode
<1> QED BY <1>1, <1>2

(* The end of an offer in flight is such a record.                         *)
LEMMA EndOfferFacts ==
  ASSUME NEW o \in Int, NEW b, Quiet(o, b)
  PROVE  LET c == EndOffer(b)
         IN /\ Quiet(o, c) /\ SameMemory(c, b) /\ SameGas(c, b) /\ SameEpisode(c, b)
            /\ c.fired = b.fired
<1>1. "offerEnd" \in Words \ {"arm", "fire", "refuse"}
  BY DEF Words
<1> QED BY <1>1, NoteIfFacts DEF EndOffer

(* An open episode is ended by one refuse record, unless it is ended.      *)
LEMMA TerminateFacts ==
  ASSUME NEW o \in Int, NEW b, Quiet(o, b), b.armed
  PROVE  LET c == _terminate(b)
         IN /\ Quiet(o, c) /\ SameMemory(c, b) /\ SameGas(c, b) /\ c.fired = b.fired
            /\ c.terminal /\ c.armed /\ c.done = b.done /\ c.released = b.released
            /\ c.gas_wait = b.gas_wait /\ c.used_gas = b.used_gas
<1> Brain(b) /\ b.rec \in Seq(Words)
  BY DEF Quiet, Logged, Brain
<1>1. CASE b.terminal
  BY <1>1 DEF _terminate, SameMemory, SameGas
<1>2. CASE ~b.terminal
  <2>1. o + Count(b.rec) = 1 /\ Steady(o, b.rec) /\ ~Fired(b.rec)
    BY <1>2 DEF Quiet, Logged
  <2>2. /\ Append(b.rec, "refuse") \in Seq(Words) /\ ~Fired(Append(b.rec, "refuse"))
        /\ o + Count(Append(b.rec, "refuse")) = 0
        /\ Steady(o, Append(b.rec, "refuse"))
    <3>1. "refuse" \in Words
      BY DEF Words
    <3>2. Count(Append(b.rec, "refuse")) = Count(b.rec) - 1 /\ Count(b.rec) \in Int
      BY <3>1, AppendFacts
    <3>3. o + Count(Append(b.rec, "refuse")) = 0
      BY <2>1, <3>2
    <3> QED BY <2>1, <3>1, <3>3, AppendFacts
  <2> QED BY <1>2, <2>2 DEF _terminate, Note, Quiet, Logged, Brain, SameMemory, SameGas
<1> QED BY <1>1, <1>2 DEF Quiet, Logged, Brain

(* _disarm leaves nothing of an episode that has its terminal record.      *)
LEMMA DisarmFacts ==
  ASSUME NEW o \in Int, NEW b, Quiet(o, b), b.terminal
  PROVE  LET c == _disarm(b)
         IN /\ Quiet(o, c) /\ Tidy(c) /\ ~c.armed
            /\ SameMemory(c, b) /\ SameGas(c, b) /\ c.fired = b.fired
<1> DEFINE c == _disarm(b)
<1>1. Brain(b) /\ GasWait \in Int /\ GasWait >= ReleaseMin
  BY ConstantsFacts DEF Quiet, Logged, Constants
<1>2. /\ Brain(c) /\ c.rec = b.rec /\ c.out = b.out /\ ~c.armed /\ ~c.done /\ ~c.terminal
      /\ c.released = -1 /\ c.gas_wait = GasWait
  BY <1>1 DEF _disarm, Brain
<1>3. SameMemory(c, b) /\ SameGas(c, b) /\ c.fired = b.fired
  BY <1>1 DEF _disarm, Brain, SameMemory, SameGas
<1> HIDE DEF c
<1>4. Quiet(o, c) /\ Tidy(c)
  BY <1>1, <1>2 DEF Quiet, Logged, Tidy
<1> QED BY <1>2, <1>3, <1>4 DEF c

(* Arming opens one episode, over the end of the one it takes over from.   *)
LEMMA ArmFacts ==
  ASSUME NEW o \in Int, NEW b, Quiet(o, b), Tidy(b), NEW i \in Inputs
  PROVE  LET c == arm(b, i)
         IN /\ Quiet(o, c) /\ Tidy(c) /\ c.armed /\ ~c.done /\ ~c.terminal /\ c.released = -1
            /\ SameMemory(c, b) /\ SameGas(c, b) /\ c.fired = b.fired
<1> DEFINE a == IF b.armed THEN _disarm(_terminate(b)) ELSE b
           d == [a EXCEPT !.armed = TRUE, !.arm = 0, !.armed_set = a.set /\ ~i.stale]
<1>1. /\ Quiet(o, a) /\ Tidy(a) /\ ~a.armed
      /\ SameMemory(a, b) /\ SameGas(a, b) /\ a.fired = b.fired
  <2>1. CASE b.armed
    BY <2>1, TerminateFacts, DisarmFacts DEF SameMemory, SameGas
  <2>2. CASE ~b.armed
    BY <2>2 DEF SameMemory, SameGas
  <2> QED BY <2>1, <2>2
<1>2. arm(b, i) = Note(d, "arm")
  BY DEF arm
<1> HIDE DEF a
<1>3. Brain(a) /\ a.rec \in Seq(Words)
  BY <1>1 DEF Quiet, Logged, Brain
<1>4. /\ Append(a.rec, "arm") \in Seq(Words) /\ ~Fired(Append(a.rec, "arm"))
      /\ o + Count(Append(a.rec, "arm")) = 1
      /\ Steady(o, Append(a.rec, "arm"))
  <2>1. "arm" \in Words
    BY DEF Words
  <2>2. o + Count(a.rec) = 0 /\ Steady(o, a.rec) /\ ~Fired(a.rec)
    BY <1>1 DEF Quiet, Logged
  <2>3. Count(Append(a.rec, "arm")) = Count(a.rec) + 1 /\ Count(a.rec) \in Int
    BY <1>3, <2>1, AppendFacts
  <2>4. o + Count(Append(a.rec, "arm")) = 1
    BY <2>2, <2>3
  <2> QED BY <1>3, <2>1, <2>2, <2>4, AppendFacts
<1>5. i.stale \in BOOLEAN
  BY DEF Inputs
<1> DEFINE c == Note(d, "arm")
<1>6. /\ Brain(c) /\ c.rec = Append(a.rec, "arm") /\ c.out = a.out /\ c.armed
      /\ c.done = a.done /\ c.terminal = a.terminal /\ c.released = a.released
      /\ c.gas_wait = a.gas_wait
  BY <1>3, <1>4, <1>5 DEF Note, Brain
<1>7. SameMemory(c, a) /\ SameGas(c, a) /\ c.fired = a.fired
  BY <1>3 DEF Note, Brain, SameMemory, SameGas
<1> HIDE DEF c
<1>8. Quiet(o, c) /\ Tidy(c) /\ ~c.done /\ ~c.terminal /\ c.released = -1
  BY <1>1, <1>4, <1>6 DEF Quiet, Logged, Tidy
<1> QED BY <1>1, <1>2, <1>6, <1>7, <1>8 DEF c, SameMemory, SameGas
-----------------------------------------------------------------------------
(* A brake press arms an episode, at once over when nothing can be offered *)
(* for it, and lets the next press of the accelerator name a speed again.  *)
LEMMA ArmBrakeFacts ==
  ASSUME NEW o \in Int, NEW b, Quiet(o, b), Tidy(b), NEW i \in Inputs
  PROVE  LET c == arm_brake(b, i)
         IN /\ Quiet(o, c) /\ Tidy(c) /\ c.armed /\ c.released = -1
            /\ SameMemory(c, b) /\ c.fired = b.fired
<1> DEFINE r == arm(b, i)
           a == [r EXCEPT !.gas_spent = FALSE, !.gas_fast = FALSE]
           l == [a EXCEPT !.lat_braked = TRUE]
           Good(c) == /\ Quiet(o, c) /\ Tidy(c) /\ c.armed /\ c.released = -1
                      /\ SameMemory(c, b) /\ c.fired = b.fired
<1>1. Good(r) /\ ~r.done /\ ~r.terminal
  BY ArmFacts
<1> HIDE DEF r
<1>2. Good(a) /\ ~a.done /\ ~a.terminal
  BY <1>1 DEF Quiet, Logged, Brain, Tidy, SameMemory
<1> HIDE DEF a
<1>3. Good(l) /\ ~l.done /\ ~l.terminal
  BY <1>2 DEF Quiet, Logged, Brain, Tidy, SameMemory
<1> HIDE DEF l
<1>4. ASSUME NEW m, Good(m), ~m.done, ~m.terminal
      PROVE  Good(_terminate([m EXCEPT !.done = TRUE]))
  <2> DEFINE e == [m EXCEPT !.done = TRUE]
  <2>1. /\ Quiet(o, e) /\ e.armed /\ e.done /\ e.released = -1 /\ e.gas_wait = m.gas_wait
        /\ SameMemory(e, b) /\ e.fired = b.fired
    BY <1>4 DEF Quiet, Logged, Brain, Tidy, SameMemory
  <2> HIDE DEF e
  <2>2. Good(_terminate(e))
    <3> DEFINE c == _terminate(e)
    <3>1. /\ Quiet(o, c) /\ SameMemory(c, e) /\ c.fired = e.fired
          /\ c.armed /\ c.done = e.done /\ c.released = e.released
          /\ c.gas_wait = e.gas_wait
      BY <2>1, TerminateFacts
    <3> HIDE DEF c
    <3>2. Good(c)
      BY <3>1, <2>1, <1>4 DEF Tidy, SameMemory
    <3> QED BY <3>2 DEF c
  <2> QED BY <2>2 DEF e
<1>5. arm_brake(b, i) = IF ~(i.brake \/ i.regen) THEN _terminate([a EXCEPT !.done = TRUE])
                        ELSE IF ~a.armed_set /\ ~i.available
                             THEN _terminate([l EXCEPT !.done = TRUE]) ELSE l
  BY DEF arm_brake, a, l, r
<1>6. Good(arm_brake(b, i))
  <2>1. Good(_terminate([a EXCEPT !.done = TRUE])) /\ Good(_terminate([l EXCEPT !.done = TRUE]))
    BY <1>2, <1>3, <1>4
  <2> HIDE DEF Good
  <2> QED BY <1>3, <1>5, <2>1, Zenon
<1> QED BY <1>6

(* The first press of the accelerator arms an episode of its own.          *)
LEMMA ArmGasFacts ==
  ASSUME NEW o \in Int, NEW b, Quiet(o, b), Tidy(b), NEW i \in Inputs
  PROVE  LET c == arm_gas(b, i)
         IN /\ Quiet(o, c) /\ Tidy(c) /\ c.armed /\ c.released = -1
            /\ SameMemory(c, b) /\ c.fired = b.fired /\ c.gas_spent = b.gas_spent
<1> DEFINE r == arm(b, i)
<1>1. /\ Quiet(o, r) /\ Tidy(r) /\ r.armed /\ r.released = -1
      /\ SameMemory(r, b) /\ SameGas(r, b) /\ r.fired = b.fired
  BY ArmFacts
<1>2. PICK fast \in BOOLEAN : fast = (r.gas_fast \/ ~i.slow)
  OBVIOUS
<1>3. arm_gas(b, i) = [r EXCEPT !.used_gas = TRUE, !.gas_fast = fast]
  BY <1>2 DEF arm_gas
<1> HIDE DEF r
<1> DEFINE c == [r EXCEPT !.used_gas = TRUE, !.gas_fast = fast]
<1>4. Brain(r)
  BY <1>1 DEF Quiet, Logged
<1>5. Brain(c)
  BY <1>4 DEF Brain
<1>6. SameMemory(c, r) /\ c.fired = r.fired /\ c.gas_spent = r.gas_spent /\ c.gas_wait = r.gas_wait
  BY <1>4 DEF Brain, SameMemory
<1>7. /\ c.armed = r.armed /\ c.done = r.done /\ c.terminal = r.terminal
      /\ c.released = r.released /\ c.rec = r.rec /\ c.out = r.out
  BY <1>4 DEF Brain
<1> HIDE DEF c
<1>8. Quiet(o, c) /\ Tidy(c)
  BY <1>1, <1>5, <1>6, <1>7 DEF Quiet, Logged, Tidy
<1> QED BY <1>1, <1>3, <1>6, <1>7, <1>8 DEF SameMemory, SameGas, c

(* The accelerator in an open episode: the attempt is still to come.       *)
LEMMA PressFacts ==
  ASSUME NEW o \in Int, NEW b, Quiet(o, b), Tidy(b), b.armed, NEW i \in Inputs
  PROVE  LET c == press(b, i)
         IN /\ Quiet(o, c) /\ Tidy(c) /\ c.armed /\ ~c.done /\ c.released = -1
            /\ SameMemory(c, b) /\ c.fired = b.fired /\ c.gas_spent = b.gas_spent
<1>0. PICK fast \in BOOLEAN : fast = (b.gas_fast \/ ~i.slow)
  OBVIOUS
<1> DEFINE Good(c) == /\ Quiet(o, c) /\ c.armed /\ c.released = -1 /\ c.gas_wait = b.gas_wait
                      /\ SameMemory(c, b) /\ c.fired = b.fired /\ c.gas_spent = b.gas_spent
           g == [b EXCEPT !.gas_fast = fast, !.used_gas = TRUE,
                          !.released = -1, !.arm = 0]
           f == EndOffer(g)
           h == [f EXCEPT !.offer = -1]
           t == _terminate(h)
           u == [t EXCEPT !.done = FALSE, !.terminal = FALSE]
<1>1. press(b, i) = IF ~b.done /\ b.offer < 0 THEN g ELSE Note(u, "arm")
  BY <1>0 DEF press
<1>2. Good(g) /\ g.done = b.done /\ g.terminal = b.terminal
  <2>1. Brain(b)
    BY DEF Quiet, Logged
  <2>2. g.released = -1
    BY <2>1 DEF Brain
  <2>3. Brain(g)
    <3>1. DOMAIN g = DOMAIN b /\ g.gas_fast = fast /\ g.used_gas = TRUE
      BY <2>1 DEF Brain
    <3>2. /\ g.armed = b.armed /\ g.done = b.done /\ g.terminal = b.terminal
          /\ g.lat_prev = b.lat_prev /\ g.pedal_prev = b.pedal_prev
          /\ g.gas_prev = b.gas_prev /\ g.cc_prev = b.cc_prev
          /\ g.last_brake = b.last_brake /\ g.pedal_off = b.pedal_off
          /\ g.fired = b.fired /\ g.suppressed = b.suppressed
          /\ g.gas_spent = b.gas_spent /\ g.gas_wait = b.gas_wait /\ g.rec = b.rec
      BY <2>1 DEF Brain
    <3> HIDE DEF g
    <3>3. g.released \in Int
      BY <2>2
    <3>4. g.gas_fast \in BOOLEAN /\ g.used_gas \in BOOLEAN
      BY <3>1
    <3> QED BY <2>1, <3>1, <3>2, <3>3, <3>4, Zenon DEF Brain
  <2>4. /\ SameMemory(g, b) /\ g.fired = b.fired /\ g.gas_spent = b.gas_spent
        /\ g.gas_wait = b.gas_wait
    BY <2>1 DEF Brain, SameMemory
  <2>5. /\ g.armed = b.armed /\ g.done = b.done /\ g.terminal = b.terminal
        /\ g.rec = b.rec /\ g.out = b.out
    BY <2>1 DEF Brain
  <2> HIDE DEF g
  <2> QED BY <2>2, <2>3, <2>4, <2>5 DEF Quiet, Logged
<1> HIDE DEF g
<1>3. Good(f)
  BY <1>2, EndOfferFacts DEF SameMemory, SameGas, SameEpisode
<1> HIDE DEF f
<1>4. Good(h)
  BY <1>3 DEF Quiet, Logged, Brain, SameMemory
<1> HIDE DEF h
<1>5. Good(t) /\ t.terminal
  BY <1>4, TerminateFacts DEF SameMemory, SameGas
<1> HIDE DEF t
<1>6. /\ Brain(t) /\ Steady(o, t.rec) /\ o + Count(t.rec) = 0 /\ ~Fired(t.rec)
  BY <1>5 DEF Quiet, Logged
<1>7. /\ Append(t.rec, "arm") \in Seq(Words) /\ ~Fired(Append(t.rec, "arm"))
      /\ o + Count(Append(t.rec, "arm")) = 1
      /\ Steady(o, Append(t.rec, "arm"))
  <2>1. "arm" \in Words /\ t.rec \in Seq(Words)
    BY <1>6 DEF Words, Brain
  <2>2. Count(Append(t.rec, "arm")) = Count(t.rec) + 1 /\ Count(t.rec) \in Int
    BY <2>1, AppendFacts
  <2>3. o + Count(Append(t.rec, "arm")) = 1
    BY <1>6, <2>2
  <2> QED BY <1>6, <2>1, <2>3, AppendFacts
<1>8. Good(Note(u, "arm")) /\ ~Note(u, "arm").done /\ ~Note(u, "arm").terminal
  <2> DEFINE r == Append(t.rec, "arm")
             c == [t EXCEPT !.done = FALSE, !.terminal = FALSE, !.rec = r]
  <2>1. Note(u, "arm") = c
    BY <1>6 DEF Note, Brain
  <2>2. r \in Seq(Words) /\ ~Fired(r) /\ o + Count(r) = 1 /\ Steady(o, r)
    BY <1>7
  <2> HIDE DEF r
  <2>3. Brain(c)
    BY <1>6, <2>2 DEF Brain
  <2>4. /\ c.done = FALSE /\ c.terminal = FALSE /\ c.rec = r /\ c.armed = t.armed /\ c.out = t.out
        /\ c.released = t.released /\ c.gas_wait = t.gas_wait /\ c.fired = t.fired
        /\ c.gas_spent = t.gas_spent
    BY <1>6 DEF Brain
  <2>5. SameMemory(c, t)
    BY <1>6 DEF Brain, SameMemory
  <2> HIDE DEF c
  <2>6. SameMemory(c, b)
    BY <1>5, <2>5 DEF SameMemory
  <2>7. Quiet(o, c)
    BY <1>5, <2>2, <2>3, <2>4 DEF Quiet, Logged
  <2>8. Good(c) /\ ~c.done /\ ~c.terminal
    BY <1>5, <2>4, <2>6, <2>7
  <2> QED BY <2>1, <2>8
<1>9. CASE ~b.done /\ b.offer < 0
  BY <1>1, <1>2, <1>9 DEF Tidy
<1>10. CASE ~(~b.done /\ b.offer < 0)
  <2> DEFINE c == Note(u, "arm")
  <2>1. Good(c) /\ ~c.done /\ ~c.terminal
    BY <1>8
  <2> HIDE DEF c, u
  <2>2. press(b, i) = c
    BY <1>1, <1>10 DEF c
  <2> QED BY <2>1, <2>2 DEF Tidy
<1> QED BY <1>9, <1>10

(* Every way an episode is ended in a tick: by its one terminal record.    *)
LEMMA EndFacts ==
  ASSUME NEW o \in Int, NEW b, Quiet(o, b), b.armed
  PROVE  \A c \in {_disarm(_terminate(b)), _disarm(_terminate(EndOffer(b))), later_press(b)} :
            /\ Quiet(o, c) /\ Tidy(c) /\ ~c.armed
            /\ SameMemory(c, b) /\ c.fired = b.fired /\ c.gas_spent = b.gas_spent
<1> DEFINE Good(c) == /\ Quiet(o, c) /\ Tidy(c) /\ ~c.armed
                      /\ SameMemory(c, b) /\ c.fired = b.fired /\ c.gas_spent = b.gas_spent
           e == EndOffer(b)
<1>1. /\ Quiet(o, e) /\ SameMemory(e, b) /\ SameGas(e, b) /\ SameEpisode(e, b)
      /\ e.fired = b.fired /\ e.armed
  BY EndOfferFacts DEF SameEpisode
<1> HIDE DEF e
<1>2. Good(_disarm(_terminate(b)))
  BY TerminateFacts, DisarmFacts DEF SameMemory, SameGas
<1>3. Good(_disarm(_terminate(e)))
  BY <1>1, TerminateFacts, DisarmFacts DEF SameMemory, SameGas
<1>4. ASSUME b.terminal PROVE Good(_disarm(Note(e, "ignored")))
  <2>1. "ignored" \in Words \ {"arm", "fire", "refuse"}
    BY DEF Words
  <2>2. e.terminal
    BY <1>1, <1>4 DEF SameEpisode
  <2> QED BY <1>1, <2>1, <2>2, NoteFacts, DisarmFacts DEF SameMemory, SameGas, SameEpisode
<1>5. Good(later_press(b))
  BY <1>3, <1>4 DEF later_press, e
<1> QED BY <1>2, <1>3, <1>5 DEF e
-----------------------------------------------------------------------------
(* What the tick makes of the episode: c the brain after it, b before it.  *)
(* An offer is made only in the window of an attempt that was not made     *)
(* yet, after the wait of both pedals, and it is the attempt.              *)
Outcome(o, c, b, i) ==
  /\ Logged(o, c) /\ Tidy(c) /\ SameMemory(c, b)
  /\ c.fired = IF Fired(c.rec) THEN 0 ELSE b.fired
  /\ c.armed => b.armed
  /\ ~b.armed => c.out = "none"
  /\ Fired(c.rec) => /\ b.armed /\ ~b.done /\ b.released >= ReleaseMin /\ Up(i)
                     /\ c.done /\ (c.out = "set" /\ c.gas_fast => c.gas_spent)
  /\ c.released >= 0 => Up(i) /\ (c.released = 0 \/ c.released = b.released)
  /\ b.done /\ c.armed => c.done \/ (i.gas /\ ~b.gas_spent)
  /\ b.gas_spent => c.gas_spent

(* One attempt: the window has been open for the wait of its mode.         *)
LEMMA FireFacts ==
  ASSUME NEW o \in Int, NEW b, Quiet(o, b), Tidy(b), b.armed, ~b.done, NEW i \in Inputs
  PROVE  LET c == fire(b, i)
         IN /\ Logged(o, c) /\ Tidy(c) /\ SameMemory(c, b) /\ SameGas(c, b)
            /\ c.fired = 0 /\ Fired(c.rec) /\ c.armed /\ c.done
            /\ c.released = b.released /\ (c.out = "set" => b.used_gas)
<1> DEFINE v == NoteIf(b.verify >= 0, b, "verify")
           c == fire(b, i)
<1>1. /\ Quiet(o, v) /\ SameMemory(v, b) /\ SameGas(v, b) /\ SameEpisode(v, b)
  <2>1. "verify" \in Words \ {"arm", "fire", "refuse"}
    BY DEF Words
  <2> QED BY <2>1, NoteIfFacts
<1>2. c = Note([v EXCEPT !.done = TRUE, !.offer = 0, !.fired = 0, !.verify = 0,
                         !.terminal = TRUE,
                         !.out = IF b.used_gas THEN "set" ELSE "res"], "fire")
  BY DEF fire
<1> HIDE DEF v, c
<1>3. Brain(v) /\ v.rec \in Seq(Words) /\ o + Count(v.rec) = 1 /\ Steady(o, v.rec)
  BY <1>1 DEF Quiet, Logged, SameEpisode, Tidy, Brain
<1>4. /\ Append(v.rec, "fire") \in Seq(Words) /\ Fired(Append(v.rec, "fire"))
      /\ o + Count(Append(v.rec, "fire")) = 0
      /\ Steady(o, Append(v.rec, "fire"))
  <2>1. "fire" \in Words
    BY DEF Words
  <2>2. Count(Append(v.rec, "fire")) = Count(v.rec) - 1 /\ Count(v.rec) \in Int
    BY <1>3, <2>1, AppendFacts
  <2>3. o + Count(Append(v.rec, "fire")) = 0
    BY <1>3, <2>2
  <2> QED BY <1>3, <2>1, <2>3, AppendFacts
<1>5. Brain(c) /\ c.rec = Append(v.rec, "fire") /\ c.done /\ c.fired = 0 /\ c.terminal
  BY <1>2, <1>3, <1>4 DEF Note, Brain
<1>6. SameMemory(c, v) /\ SameGas(c, v) /\ c.armed = v.armed
  BY <1>2, <1>3 DEF Note, Brain, SameMemory, SameGas
<1>7. c.released = v.released /\ c.gas_wait = v.gas_wait /\ (c.out = "set" => b.used_gas)
  BY <1>2, <1>3 DEF Note, Brain
<1>8. Logged(o, c) /\ Tidy(c)
  BY <1>1, <1>4, <1>5, <1>6, <1>7 DEF Logged, Tidy, SameEpisode
<1> QED BY <1>1, <1>4, <1>5, <1>6, <1>7, <1>8 DEF SameMemory, SameGas, SameEpisode, c
(* Both pedals are up and the release clock runs.                          *)
LEMMA WindowFacts ==
  ASSUME NEW o \in Int, NEW b, Quiet(o, b), Tidy(b), b.armed, NEW i \in Inputs, Up(i),
         b.released >= 0
  PROVE  Outcome(o, window(spend(b), i), b, i)
<1> DEFINE spent == b.gas_spent \/ (b.used_gas /\ b.released >= b.gas_wait /\ b.gas_fast)
           s == spend(b)
           c == window(s, i)
<1>1. Brain(b)
  BY DEF Quiet, Logged
<1>2. /\ Brain(s) /\ SameMemory(s, b) /\ SameEpisode(s, b) /\ s.fired = b.fired
      /\ s.rec = b.rec /\ s.out = b.out /\ s.gas_fast = b.gas_fast
      /\ b.gas_spent => s.gas_spent
      /\ b.used_gas /\ b.released >= b.gas_wait /\ b.gas_fast => s.gas_spent
  <2>1. PICK q \in BOOLEAN : q = spent
    OBVIOUS
  <2>2. s = [b EXCEPT !.gas_spent = q]
    BY <2>1 DEF spend
  <2>3. b.gas_spent => q
    BY <2>1
  <2>4. b.used_gas /\ b.released >= b.gas_wait /\ b.gas_fast => q
    BY <2>1
  <2> HIDE DEF spent, s
  <2>5. Brain(s) /\ s.gas_spent = q /\ s.gas_fast = b.gas_fast
    BY <1>1, <2>2 DEF Brain
  <2>6. SameMemory(s, b) /\ SameEpisode(s, b) /\ s.fired = b.fired
    BY <1>1, <2>2 DEF Brain, SameMemory, SameEpisode
  <2>7. s.rec = b.rec /\ s.out = b.out
    BY <1>1, <2>2 DEF Brain
  <2> QED BY <2>3, <2>4, <2>5, <2>6, <2>7
<1> HIDE DEF s
<1>3. Quiet(o, s) /\ Tidy(s) /\ s.armed /\ s.released = b.released
  BY <1>2 DEF Quiet, Logged, Tidy, SameEpisode
<1>4. CASE s.offer >= 0 /\ _gates(s, i) /\ s.offer <= OfferMax
  <2>1. c = [s EXCEPT !.out = IF s.used_gas THEN "set" ELSE "res"]
    BY <1>4 DEF window
  <2> HIDE DEF c
  <2>2. Brain(c) /\ c.rec = s.rec /\ c.fired = s.fired /\ c.gas_spent = s.gas_spent
    BY <1>2, <2>1 DEF Brain
  <2>3. SameMemory(c, s)
    BY <1>2, <2>1 DEF Brain, SameMemory
  <2>4. /\ c.armed = s.armed /\ c.done = s.done /\ c.terminal = s.terminal
        /\ c.released = s.released /\ c.gas_wait = s.gas_wait
    BY <1>2, <2>1 DEF Brain
  <2>5. Outcome(o, c, b, i)
    BY <1>2, <1>3, <2>2, <2>3, <2>4
       DEF Outcome, Quiet, Logged, Tidy, SameMemory, SameEpisode
  <2> QED BY <2>5 DEF c, s
<1>5. CASE s.offer >= 0 /\ ~(_gates(s, i) /\ s.offer <= OfferMax)
  <2> DEFINE e == EndOffer(s)
  <2>1. c = [e EXCEPT !.offer = -1]
    BY <1>5 DEF window
  <2>2. Quiet(o, e) /\ SameMemory(e, s) /\ SameGas(e, s) /\ SameEpisode(e, s) /\ e.fired = s.fired
    BY <1>3, EndOfferFacts
  <2> HIDE DEF c, e
  <2>3. Brain(e)
    BY <2>2 DEF Quiet, Logged
  <2>4. /\ Brain(c) /\ c.rec = e.rec /\ c.fired = e.fired /\ c.gas_spent = e.gas_spent
        /\ c.out = e.out
    BY <2>1, <2>3 DEF Brain
  <2>5. SameMemory(c, e)
    BY <2>1, <2>3 DEF Brain, SameMemory
  <2>6. /\ c.armed = e.armed /\ c.done = e.done /\ c.terminal = e.terminal
        /\ c.released = e.released /\ c.gas_wait = e.gas_wait
    BY <2>1, <2>3 DEF Brain
  <2>7. Outcome(o, c, b, i)
    BY <1>2, <1>3, <2>2, <2>4, <2>5, <2>6
       DEF Outcome, Quiet, Logged, Tidy, SameMemory, SameEpisode, SameGas
  <2> QED BY <2>7 DEF c, s
<1>6. CASE ~(s.offer >= 0) /\ (s.done \/ s.released < Wait(s))
  <2>1. c = s
    BY <1>6 DEF window
  <2>2. Outcome(o, s, b, i)
    BY <1>2, <1>3 DEF Outcome, Quiet, Logged, SameEpisode
  <2> QED BY <2>1, <2>2 DEF s
<1>7. CASE ~(s.offer >= 0) /\ ~(s.done \/ s.released < Wait(s)) /\ s.released > ReleaseMax
  <2> DEFINE t == _terminate(s)
  <2>1. c = [t EXCEPT !.done = TRUE]
    BY <1>7 DEF window
  <2>2. /\ Quiet(o, t) /\ SameMemory(t, s) /\ SameGas(t, s) /\ t.fired = s.fired
        /\ t.terminal /\ t.armed /\ t.released = s.released /\ t.gas_wait = s.gas_wait
    BY <1>3, TerminateFacts
  <2> HIDE DEF c, t
  <2>3. Brain(t)
    BY <2>2 DEF Quiet, Logged
  <2>4. /\ Brain(c) /\ c.rec = t.rec /\ c.fired = t.fired /\ c.gas_spent = t.gas_spent
        /\ c.out = t.out
    BY <2>1, <2>3 DEF Brain
  <2>5. SameMemory(c, t)
    BY <2>1, <2>3 DEF Brain, SameMemory
  <2>6. /\ c.armed = t.armed /\ c.done /\ c.terminal = t.terminal
        /\ c.released = t.released /\ c.gas_wait = t.gas_wait
    BY <2>1, <2>3 DEF Brain
  <2>7. Outcome(o, c, b, i)
    BY <1>2, <1>3, <2>2, <2>4, <2>5, <2>6
       DEF Outcome, Quiet, Logged, Tidy, SameMemory, SameEpisode, SameGas
  <2> QED BY <2>7 DEF c, s
<1>8. CASE /\ ~(s.offer >= 0) /\ ~(s.done \/ s.released < Wait(s)) /\ ~(s.released > ReleaseMax)
           /\ ~_gates(s, i)
  <2>1. c = s
    BY <1>8 DEF window
  <2>2. Outcome(o, s, b, i)
    BY <1>2, <1>3 DEF Outcome, Quiet, Logged, SameEpisode
  <2> QED BY <2>1, <2>2 DEF s
<1>9. CASE /\ ~(s.offer >= 0) /\ ~(s.done \/ s.released < Wait(s)) /\ ~(s.released > ReleaseMax)
           /\ _gates(s, i)
  <2>1. c = fire(s, i)
    BY <1>9 DEF window
  <2>2. ~s.done /\ Wait(s) \in Int /\ s.released >= Wait(s) /\ Wait(s) >= ReleaseMin
    BY <1>2, <1>3, <1>9, ConstantsFacts DEF Wait, Tidy, Brain, Constants
  <2>3. s.used_gas => s.released >= s.gas_wait
    BY <2>2 DEF Wait
  <2>4. /\ Logged(o, c) /\ Tidy(c) /\ SameMemory(c, s) /\ SameGas(c, s)
        /\ c.fired = 0 /\ Fired(c.rec) /\ c.armed /\ c.done
        /\ c.released = s.released /\ (c.out = "set" => s.used_gas)
    BY <1>3, <2>1, <2>2, FireFacts
  <2> HIDE DEF c
  <2>5. c.out = "set" /\ c.gas_fast => c.gas_spent
    BY <1>2, <1>3, <2>3, <2>4 DEF SameGas, SameEpisode
  <2>6. b.released >= ReleaseMin
    BY <1>2, <1>3, <2>2, ConstantsFacts DEF Constants, Brain
  <2>7. Outcome(o, c, b, i)
    BY <1>2, <1>3, <2>2, <2>4, <2>5, <2>6 DEF Outcome, SameMemory, SameEpisode, SameGas
  <2> QED BY <2>7 DEF c, s
<1> QED BY <1>4, <1>5, <1>6, <1>7, <1>8, <1>9
(* The pedals of an open episode: pressed, just lifted, or both up.        *)
LEMMA PedalsFacts ==
  ASSUME NEW o \in Int, NEW b, Quiet(o, b), Tidy(b), b.armed, NEW i \in Inputs
  PROVE  Outcome(o, pedals(b, i), b, i)
<1> DEFINE c == pedals(b, i)
<1>1. CASE i.brake \/ i.regen \/ i.gas
  <2> DEFINE e == EndOffer(b)
  <2>1. c = [e EXCEPT !.released = -1, !.offer = -1]
    BY <1>1 DEF pedals
  <2>2. Quiet(o, e) /\ SameMemory(e, b) /\ SameGas(e, b) /\ SameEpisode(e, b) /\ e.fired = b.fired
    BY EndOfferFacts
  <2> HIDE DEF c, e
  <2>3. Brain(e)
    BY <2>2 DEF Quiet, Logged
  <2>4. /\ Brain(c) /\ c.rec = e.rec /\ c.fired = e.fired /\ c.gas_spent = e.gas_spent
        /\ c.out = e.out /\ c.released = -1
    BY <2>1, <2>3 DEF Brain
  <2>5. SameMemory(c, e)
    BY <2>1, <2>3 DEF Brain, SameMemory
  <2>6. /\ c.armed = e.armed /\ c.done = e.done /\ c.terminal = e.terminal
        /\ c.gas_wait = e.gas_wait
    BY <2>1, <2>3 DEF Brain
  <2>7. Outcome(o, c, b, i)
    BY <2>2, <2>4, <2>5, <2>6
       DEF Outcome, Quiet, Logged, Tidy, SameMemory, SameEpisode, SameGas
  <2> QED BY <2>7 DEF c
<1>2. CASE Up(i) /\ b.released < 0
  <2>1. PICK w \in {ReleaseMin, GasWait} : w = IF i.onpower THEN ReleaseMin ELSE GasWait
    OBVIOUS
  <2>2. w \in Int /\ w >= ReleaseMin
    BY ConstantsFacts DEF Constants
  <2>3. c = [b EXCEPT !.released = 0, !.gas_wait = w]
    BY <1>2, <2>1 DEF pedals, lift, Up
  <2> HIDE DEF c
  <2>4. Brain(b)
    BY DEF Quiet, Logged
  <2>5. /\ Brain(c) /\ c.rec = b.rec /\ c.fired = b.fired /\ c.gas_spent = b.gas_spent
        /\ c.out = b.out /\ c.released = 0 /\ c.gas_wait = w
    <3>1. w \in Int /\ 0 \in Int
      BY <2>2
    <3>2. Brain(c)
      BY <2>3, <2>4, <3>1 DEF Brain
    <3> QED BY <2>3, <2>4, <3>2 DEF Brain
  <2>6. SameMemory(c, b)
    BY <2>3, <2>4 DEF Brain, SameMemory
  <2>7. c.armed = b.armed /\ c.done = b.done /\ c.terminal = b.terminal
    BY <2>3, <2>4 DEF Brain
  <2>8. Outcome(o, c, b, i)
    BY <1>2, <2>2, <2>5, <2>6, <2>7 DEF Outcome, Quiet, Logged, Tidy
  <2> QED BY <2>8 DEF c
<1>3. CASE Up(i) /\ ~(b.released < 0)
  <2>1. b.released >= 0
    BY <1>3 DEF Quiet, Logged, Brain
  <2>2. c = window(spend(b), i)
    BY <1>3 DEF pedals, Up
  <2> QED BY <1>3, <2>1, <2>2, WindowFacts
<1> QED BY <1>1, <1>2, <1>3 DEF Up

(* An outcome that leaves the episode closed without an offer.             *)
LEMMA ClosedOutcome ==
  ASSUME NEW o \in Int, NEW b, Quiet(o, b), NEW i \in Inputs, NEW c, Quiet(o, c), Tidy(c),
         ~c.armed, SameMemory(c, b), c.fired = b.fired, c.gas_spent = b.gas_spent
  PROVE  Outcome(o, c, b, i)
BY DEF Outcome, Quiet, Tidy

(* The tick of the episode.                                                *)
LEMMA EpisodeFacts ==
  ASSUME NEW o \in Int, NEW b, Quiet(o, b), Tidy(b), NEW i \in Inputs
  PROVE  Outcome(o, episode(b, i), b, i)
<1> DEFINE p == IF i.gas THEN press(b, i) ELSE b
<1>1. CASE ~b.armed
  <2>1. episode(b, i) = b
    BY <1>1 DEF episode
  <2> QED BY <1>1, <2>1, ClosedOutcome DEF SameMemory
<1>2. CASE b.armed /\ (~i.lat \/ (i.gas /\ b.gas_spent))
  <2>1. episode(b, i) \in {_disarm(_terminate(b)), later_press(b)}
    BY <1>2 DEF episode
  <2> QED BY <1>2, <2>1, EndFacts, ClosedOutcome
<1>3. CASE b.armed /\ i.lat /\ ~(i.gas /\ b.gas_spent)
  <2>1. /\ Quiet(o, p) /\ Tidy(p) /\ p.armed /\ SameMemory(p, b) /\ p.fired = b.fired
        /\ p.gas_spent = b.gas_spent
        /\ i.gas \/ p = b
    <3>1. CASE i.gas
      BY <1>3, <3>1, PressFacts
    <3>2. CASE ~i.gas
      BY <1>3, <3>2 DEF SameMemory
    <3> QED BY <3>1, <3>2
  <2>2. CASE Aborts(p, i)
    <3>1. episode(b, i) = _disarm(_terminate(EndOffer(p)))
      BY <1>3, <2>2 DEF episode
    <3> DEFINE c == _disarm(_terminate(EndOffer(p)))
    <3> HIDE DEF p
    <3>2. /\ Quiet(o, c) /\ Tidy(c) /\ ~c.armed
          /\ SameMemory(c, p) /\ c.fired = p.fired /\ c.gas_spent = p.gas_spent
      BY <2>1, EndFacts
    <3> HIDE DEF c
    <3>3. SameMemory(c, b) /\ c.fired = b.fired /\ c.gas_spent = b.gas_spent
      BY <2>1, <3>2 DEF SameMemory
    <3>4. Outcome(o, c, b, i)
      BY <3>2, <3>3, ClosedOutcome
    <3> QED BY <3>1, <3>4 DEF c
  <2>3. CASE ~Aborts(p, i)
    <3>1. episode(b, i) = pedals(p, i)
      BY <1>3, <2>3 DEF episode
    <3> DEFINE c == pedals(p, i)
    <3> HIDE DEF p
    <3>2. Outcome(o, c, p, i)
      BY <2>1, PedalsFacts
    <3> HIDE DEF c
    <3>3. Outcome(o, c, b, i)
      <4>1. CASE p = b
        BY <3>2, <4>1
      <4>2. CASE i.gas
        <5>1. ~Up(i)
          BY <4>2 DEF Up
        <5> QED BY <1>3, <2>1, <3>2, <4>2, <5>1 DEF Outcome, SameMemory
      <4> QED BY <2>1, <4>1, <4>2
    <3> QED BY <3>1, <3>3 DEF c
  <2> QED BY <2>2, <2>3
<1> QED BY <1>1, <1>2, <1>3
-----------------------------------------------------------------------------
(* Cruise comes on, and the press that overrules the resume, as the        *)
(* driver's history has them.                                              *)
On(i) == i.cc /\ ~pedal.cc
Refuses(i) == Pressed(i) /\ ((hist.braked \in 0..Double /\ ~On(i)) \/ hist.offered \in 0..Reject)

(* A clock stays None, or stops past its limit.                            *)
LEMMA LaterFacts == ASSUME NEW age \in Int, NEW max \in Nat
                    PROVE  /\ Later(age, max) \in Int
                           /\ age >= 0 <=> Later(age, max) >= 0
                           /\ age = -1 => Later(age, max) = -1
BY DEF Later

(* The tick moves the clocks and forgets the offer and the records of the  *)
(* last one.                                                               *)
LEMMA TickFacts ==
  ASSUME MemoryInv, EpisodeInv, OpenInv
  PROVE  LET c == Tick(brain)
         IN /\ Quiet(hist.open, c) /\ Tidy(c)
            /\ c.armed = brain.armed /\ c.done = brain.done /\ c.gas_spent = brain.gas_spent
            /\ c.released = Later(brain.released, ReleaseMax)
            /\ c.last_brake = Later(brain.last_brake, Double)
            /\ c.pedal_off = Later(brain.pedal_off, Debounce)
            /\ c.fired = Later(brain.fired, Reject)
            /\ c.lat_prev = brain.lat_prev /\ c.pedal_prev = brain.pedal_prev
            /\ c.gas_prev = brain.gas_prev /\ c.cc_prev = brain.cc_prev
            /\ c.suppressed = brain.suppressed
<1> DEFINE c == Tick(brain)
<1>1. Brain(brain) /\ Tidy(brain)
  BY DEF MemoryInv, EpisodeInv
<1>2. /\ c.armed = brain.armed /\ c.done = brain.done /\ c.gas_spent = brain.gas_spent
      /\ c.terminal = brain.terminal /\ c.gas_wait = brain.gas_wait
      /\ c.used_gas = brain.used_gas /\ c.gas_fast = brain.gas_fast
      /\ c.suppressed = brain.suppressed
  BY <1>1 DEF Tick, Brain
<1>3. /\ c.lat_prev = brain.lat_prev /\ c.pedal_prev = brain.pedal_prev
      /\ c.gas_prev = brain.gas_prev /\ c.cc_prev = brain.cc_prev
  BY <1>1 DEF Tick, Brain
<1>4. /\ c.released = Later(brain.released, ReleaseMax)
      /\ c.last_brake = Later(brain.last_brake, Double)
      /\ c.pedal_off = Later(brain.pedal_off, Debounce)
      /\ c.fired = Later(brain.fired, Reject)
  BY <1>1 DEF Tick, Brain
<1>5. c.rec = <<>> /\ c.out = "none" /\ DOMAIN c = DOMAIN brain
  BY <1>1 DEF Tick, Brain
<1> HIDE DEF c
<1>6. Brain(c)
  <2>1. /\ c.released \in Int /\ c.last_brake \in Int /\ c.pedal_off \in Int /\ c.fired \in Int
    BY <1>1, <1>4, LaterFacts, ConstantsFacts DEF Brain, Constants
  <2> QED BY <1>1, <1>2, <1>3, <1>5, <2>1, NoRecords, Zenon DEF Brain
<1>7. hist.open \in Int /\ hist.open = IF brain.armed /\ ~brain.terminal THEN 1 ELSE 0
  BY DEF MemoryInv, OpenInv
<1>8. Quiet(hist.open, c)
  BY <1>2, <1>5, <1>6, <1>7, NoRecords DEF Quiet, Logged
<1>9. Tidy(c)
  <2>1. ~brain.armed => c.released = -1
    BY <1>1, <1>4, LaterFacts, ConstantsFacts DEF Tidy, Brain, Constants
  <2> QED BY <1>1, <1>2, <2>1 DEF Tidy
<1> QED BY <1>2, <1>3, <1>4, <1>8, <1>9 DEF c

(* The capture of the set speed, the opt-out lifted when cruise comes on,  *)
(* and the outcome of the last press.                                      *)
LEMMA CaptureFacts ==
  ASSUME NEW o \in Int, NEW b, Quiet(o, b), Tidy(b), NEW i \in Inputs
  PROVE  LET c == verify(capture(b, i), i)
             rising == i.cc /\ ~b.cc_prev
         IN /\ Quiet(o, c) /\ Tidy(c)
            /\ c.armed = b.armed /\ c.done = b.done /\ c.gas_spent = b.gas_spent
            /\ c.released = b.released /\ c.pedal_off = b.pedal_off /\ c.fired = b.fired
            /\ c.lat_prev = b.lat_prev /\ c.pedal_prev = b.pedal_prev
            /\ c.gas_prev = b.gas_prev /\ c.cc_prev = i.cc
            /\ c.last_brake = IF rising THEN -1 ELSE b.last_brake
            /\ (c.suppressed <=> b.suppressed /\ ~rising)
<1> DEFINE rising == i.cc /\ ~b.cc_prev
           Good(c) == /\ Quiet(o, c) /\ Tidy(c)
                      /\ c.armed = b.armed /\ c.done = b.done /\ c.gas_spent = b.gas_spent
                      /\ c.released = b.released /\ c.pedal_off = b.pedal_off /\ c.fired = b.fired
                      /\ c.lat_prev = b.lat_prev /\ c.pedal_prev = b.pedal_prev
                      /\ c.gas_prev = b.gas_prev /\ c.cc_prev = i.cc
                      /\ c.last_brake = IF rising THEN -1 ELSE b.last_brake
                      /\ (c.suppressed <=> b.suppressed /\ ~rising)
           d == capture(b, i)
<1>1. Brain(b)
  BY DEF Quiet, Logged
<1>2. Good(d)
  <2>1. PICK q \in BOOLEAN : q = (b.suppressed /\ ~rising)
    OBVIOUS
  <2>2. PICK l \in Int : l = IF rising THEN -1 ELSE b.last_brake
    BY <1>1 DEF Brain
  <2>3. d = [b EXCEPT !.cc_prev = i.cc, !.suppressed = q, !.last_brake = l,
                      !.set = i.cc \/ (b.set /\ i.available)]
    BY <2>1, <2>2 DEF capture
  <2> HIDE DEF d, rising
  <2>4. /\ d.armed = b.armed /\ d.done = b.done /\ d.gas_spent = b.gas_spent
        /\ d.terminal = b.terminal /\ d.gas_wait = b.gas_wait /\ d.used_gas = b.used_gas
        /\ d.gas_fast = b.gas_fast /\ d.released = b.released
    BY <1>1, <2>3 DEF Brain
  <2>5. /\ d.lat_prev = b.lat_prev /\ d.pedal_prev = b.pedal_prev /\ d.gas_prev = b.gas_prev
        /\ d.pedal_off = b.pedal_off /\ d.fired = b.fired /\ d.rec = b.rec /\ d.out = b.out
    BY <1>1, <2>3 DEF Brain
  <2>6. d.cc_prev = i.cc /\ d.suppressed = q /\ d.last_brake = l /\ DOMAIN d = DOMAIN b
    BY <1>1, <2>3 DEF Brain
  <2>7. Brain(d)
    <3>1. d.cc_prev \in BOOLEAN /\ d.suppressed \in BOOLEAN /\ d.last_brake \in Int
      BY <2>6 DEF Inputs
    <3> QED BY <1>1, <2>4, <2>5, <2>6, <3>1, Zenon DEF Brain
  <2>8. Quiet(o, d) /\ Tidy(d)
    BY <2>4, <2>5, <2>7 DEF Quiet, Logged, Tidy
  <2> QED BY <2>1, <2>2, <2>4, <2>5, <2>6, <2>8
<1> HIDE DEF d, rising
<1>3. CASE ~Verified(d, i)
  <2>1. verify(d, i) = d
    BY <1>3 DEF verify
  <2> QED BY <1>2, <2>1 DEF d, rising
<1>4. CASE Verified(d, i)
  <2> DEFINE e == [d EXCEPT !.verify = -1]
             c == Note(e, "verify")
  <2>1. Brain(d)
    BY <1>2 DEF Quiet, Logged
  <2>2. SameMemory(e, d) /\ SameGas(e, d) /\ e.fired = d.fired
    BY <2>1 DEF Brain, SameMemory, SameGas
  <2>3. /\ Brain(e) /\ e.armed = d.armed /\ e.done = d.done /\ e.terminal = d.terminal
        /\ e.released = d.released /\ e.gas_wait = d.gas_wait /\ e.rec = d.rec /\ e.out = d.out
    BY <2>1 DEF Brain
  <2> HIDE DEF e
  <2>4. Quiet(o, e)
    BY <1>2, <2>3 DEF Quiet, Logged
  <2>5. "verify" \in Words \ {"arm", "fire", "refuse"}
    BY DEF Words
  <2>6. /\ Quiet(o, c) /\ SameMemory(c, e) /\ SameGas(c, e) /\ SameEpisode(c, e)
        /\ c.fired = e.fired
    BY <2>4, <2>5, NoteFacts
  <2>7. verify(d, i) = c
    BY <1>4 DEF verify, e
  <2> HIDE DEF c
  <2>8. Tidy(c)
    BY <1>2, <2>3, <2>6 DEF Tidy, SameEpisode
  <2>9. Good(c)
    BY <1>2, <2>2, <2>3, <2>6, <2>8 DEF SameMemory, SameGas, SameEpisode
  <2> QED BY <2>7, <2>9 DEF d, rising
<1> QED BY <1>3, <1>4
(* The pedals of this tick are what the next one finds.                    *)
LEMMA RememberFacts ==
  ASSUME NEW o \in Int, NEW b, Quiet(o, b), Tidy(b), NEW i \in Inputs
  PROVE  LET c == remember(b, i)
         IN /\ Quiet(o, c) /\ Tidy(c)
            /\ c.armed = b.armed /\ c.done = b.done /\ c.gas_spent = b.gas_spent
            /\ c.released = b.released /\ c.fired = b.fired /\ c.cc_prev = b.cc_prev
            /\ c.lat_prev = i.lat /\ c.pedal_prev = i.brake /\ c.gas_prev = i.gas
            /\ c.last_brake = b.last_brake /\ c.suppressed = b.suppressed
            /\ c.pedal_off = IF b.pedal_prev /\ ~i.brake THEN 0 ELSE b.pedal_off
<1> DEFINE d == remember(b, i)
<1>1. Brain(b)
  BY DEF Quiet, Logged
<1>2. PICK l \in Int : l = IF b.pedal_prev /\ ~i.brake THEN 0 ELSE b.pedal_off
  BY <1>1 DEF Brain
<1>3. d = [b EXCEPT !.lat_prev = i.lat, !.gas_prev = i.gas, !.pedal_prev = i.brake,
                    !.pedal_off = l, !.lat_braked = b.lat_braked /\ i.lat]
  BY <1>2 DEF remember
<1> HIDE DEF d
<1>4. /\ d.armed = b.armed /\ d.done = b.done /\ d.gas_spent = b.gas_spent
      /\ d.terminal = b.terminal /\ d.gas_wait = b.gas_wait /\ d.used_gas = b.used_gas
      /\ d.gas_fast = b.gas_fast /\ d.released = b.released
  BY <1>1, <1>3 DEF Brain
<1>5. /\ d.cc_prev = b.cc_prev /\ d.last_brake = b.last_brake /\ d.suppressed = b.suppressed
      /\ d.fired = b.fired /\ d.rec = b.rec /\ d.out = b.out
  BY <1>1, <1>3 DEF Brain
<1>6. /\ d.lat_prev = i.lat /\ d.gas_prev = i.gas /\ d.pedal_prev = i.brake
      /\ d.pedal_off = l /\ DOMAIN d = DOMAIN b
  BY <1>1, <1>3 DEF Brain
<1>7. Brain(d)
  <2>1. /\ d.lat_prev \in BOOLEAN /\ d.gas_prev \in BOOLEAN /\ d.pedal_prev \in BOOLEAN
        /\ d.pedal_off \in Int
    BY <1>6 DEF Inputs
  <2> QED BY <1>1, <1>4, <1>5, <1>6, <2>1, Zenon DEF Brain
<1>8. Quiet(o, d) /\ Tidy(d)
  BY <1>4, <1>5, <1>7 DEF Quiet, Logged, Tidy
<1> QED BY <1>2, <1>4, <1>5, <1>6, <1>8 DEF d

(* The opt-out: an overruling press leaves no episode.                     *)
LEMMA OptoutFacts ==
  ASSUME NEW o \in Int, NEW b, Quiet(o, b), Tidy(b), NEW rises \in BOOLEAN
  PROVE  LET c == optout(b, rises)
             rejects == rises /\ Rejects(b)
         IN /\ Quiet(o, c) /\ Tidy(c)
            /\ c.gas_spent = b.gas_spent /\ c.fired = b.fired /\ c.cc_prev = b.cc_prev
            /\ c.lat_prev = b.lat_prev /\ c.pedal_prev = b.pedal_prev
            /\ c.gas_prev = b.gas_prev /\ c.pedal_off = b.pedal_off
            /\ c.last_brake = IF rises THEN 0 ELSE b.last_brake
            /\ (c.suppressed <=> b.suppressed \/ rejects)
            /\ rejects => ~c.armed
            /\ c.armed => b.armed /\ c.done = b.done /\ c.released = b.released
<1> DEFINE rejects == rises /\ Rejects(b)
           e == [b EXCEPT !.suppressed = TRUE]
           s == Note(e, "suppress")
           r == IF ~Rejects(b) THEN b
                ELSE IF b.armed THEN _disarm(_terminate(EndOffer(s))) ELSE s
           Good(c) == /\ Quiet(o, c) /\ Tidy(c)
                      /\ c.gas_spent = b.gas_spent /\ c.fired = b.fired /\ c.cc_prev = b.cc_prev
                      /\ c.lat_prev = b.lat_prev /\ c.pedal_prev = b.pedal_prev
                      /\ c.gas_prev = b.gas_prev /\ c.pedal_off = b.pedal_off
                      /\ (c.suppressed <=> b.suppressed \/ rejects)
                      /\ rejects => ~c.armed
                      /\ c.armed => b.armed /\ c.done = b.done /\ c.released = b.released
<1>1. Brain(b)
  BY DEF Quiet, Logged
<1>2. CASE ~rises
  <2>1. optout(b, rises) = b
    BY <1>2 DEF optout
  <2> QED BY <1>2, <2>1
<1>3. CASE rises
  <2>1. optout(b, rises) = [r EXCEPT !.last_brake = 0]
    BY <1>3 DEF optout
  <2>2. /\ Quiet(o, s) /\ s.suppressed /\ s.gas_spent = b.gas_spent /\ s.fired = b.fired
        /\ s.cc_prev = b.cc_prev /\ s.lat_prev = b.lat_prev /\ s.pedal_prev = b.pedal_prev
        /\ s.gas_prev = b.gas_prev /\ s.pedal_off = b.pedal_off /\ s.armed = b.armed
        /\ Tidy(s)
    <3>1. /\ Brain(e) /\ e.rec = b.rec /\ e.out = b.out /\ e.armed = b.armed /\ e.done = b.done
          /\ e.terminal = b.terminal /\ e.released = b.released /\ e.gas_wait = b.gas_wait
      BY <1>1 DEF Brain
    <3>2. /\ e.gas_spent = b.gas_spent /\ e.fired = b.fired /\ e.cc_prev = b.cc_prev
          /\ e.lat_prev = b.lat_prev /\ e.pedal_prev = b.pedal_prev
          /\ e.gas_prev = b.gas_prev /\ e.pedal_off = b.pedal_off /\ e.suppressed
      BY <1>1 DEF Brain
    <3> HIDE DEF e
    <3>3. Quiet(o, e)
      BY <3>1 DEF Quiet, Logged
    <3>4. "suppress" \in Words \ {"arm", "fire", "refuse"}
      BY DEF Words
    <3>5. /\ Quiet(o, s) /\ SameMemory(s, e) /\ SameGas(s, e) /\ SameEpisode(s, e)
          /\ s.fired = e.fired
      BY <3>3, <3>4, NoteFacts
    <3> HIDE DEF s
    <3> QED BY <3>1, <3>2, <3>5 DEF SameMemory, SameGas, SameEpisode, Tidy
  <2> HIDE DEF s
  <2>3. Good(r)
    <3>1. CASE ~Rejects(b)
      BY <1>3, <3>1
    <3>2. CASE Rejects(b) /\ ~b.armed
      BY <1>3, <2>2, <3>2
    <3>3. CASE Rejects(b) /\ b.armed
      <4> DEFINE x == EndOffer(s)
                 t == _terminate(x)
                 c == _disarm(t)
      <4>1. r = c
        BY <3>3
      <4>2. Quiet(o, x) /\ SameMemory(x, s) /\ SameGas(x, s) /\ SameEpisode(x, s) /\ x.fired = s.fired
        BY <2>2, EndOfferFacts
      <4> HIDE DEF x
      <4>3. Quiet(o, t) /\ SameMemory(t, x) /\ SameGas(t, x) /\ t.fired = x.fired /\ t.terminal
        BY <4>2, <2>2, <3>3, TerminateFacts DEF SameEpisode
      <4> HIDE DEF t
      <4>4. Quiet(o, c) /\ Tidy(c) /\ ~c.armed /\ SameMemory(c, t) /\ SameGas(c, t) /\ c.fired = t.fired
        BY <4>3, DisarmFacts
      <4> HIDE DEF c
      <4>5. Good(c)
        BY <1>3, <2>2, <3>3, <4>2, <4>3, <4>4 DEF SameMemory, SameGas
      <4> HIDE DEF r, Good
      <4> QED BY <4>1, <4>5
    <3> QED BY <3>1, <3>2, <3>3
  <2> HIDE DEF r
  <2> DEFINE c == [r EXCEPT !.last_brake = 0]
  <2>4. Brain(r)
    BY <2>3 DEF Quiet, Logged
  <2>5. /\ Brain(c) /\ c.rec = r.rec /\ c.out = r.out /\ c.armed = r.armed /\ c.done = r.done
        /\ c.terminal = r.terminal /\ c.released = r.released /\ c.gas_wait = r.gas_wait
    BY <2>4 DEF Brain
  <2>6. /\ c.gas_spent = r.gas_spent /\ c.fired = r.fired /\ c.cc_prev = r.cc_prev
        /\ c.lat_prev = r.lat_prev /\ c.pedal_prev = r.pedal_prev
        /\ c.gas_prev = r.gas_prev /\ c.pedal_off = r.pedal_off
        /\ c.suppressed = r.suppressed /\ c.last_brake = 0
    BY <2>4 DEF Brain
  <2> HIDE DEF c
  <2>7. Quiet(o, c) /\ Tidy(c)
    BY <2>3, <2>5 DEF Quiet, Logged, Tidy
  <2>8. Good(c) /\ c.last_brake = IF rises THEN 0 ELSE b.last_brake
    <3>1. Good(c)
      BY <2>3, <2>5, <2>6, <2>7
    <3> QED BY <3>1, <2>6, <1>3
  <2> QED BY <2>1, <2>8 DEF c
<1> QED BY <1>2, <1>3
-----------------------------------------------------------------------------
(* The first half of a tick, up to the opt-out.                            *)
Front(n, i) ==
  /\ Quiet(hist.open, n) /\ Tidy(n) /\ n.gas_spent = brain.gas_spent
  /\ n.cc_prev = i.cc /\ n.lat_prev = i.lat /\ n.pedal_prev = i.brake /\ n.gas_prev = i.gas
  /\ n.last_brake = IF Pressed(i) THEN 0 ELSE IF On(i) THEN -1 ELSE Later(brain.last_brake, Double)
  /\ n.fired = Later(brain.fired, Reject)
  /\ ~i.brake => n.pedal_off = IF pedal.brake THEN 0 ELSE Later(brain.pedal_off, Debounce)
  /\ n.suppressed <=> Refuses(i) \/ (brain.suppressed /\ ~On(i))
  /\ Refuses(i) => ~n.armed
  /\ n.armed => /\ brain.armed /\ n.done = brain.done
                /\ n.released = Later(brain.released, ReleaseMax)

(* The whole tick.                                                         *)
Final(c, i) ==
  /\ Logged(hist.open, c) /\ Tidy(c)
  /\ c.cc_prev = i.cc /\ c.lat_prev = i.lat /\ c.pedal_prev = i.brake /\ c.gas_prev = i.gas
  /\ c.last_brake = IF Pressed(i) THEN 0 ELSE IF On(i) THEN -1 ELSE Later(brain.last_brake, Double)
  /\ c.fired = IF Fired(c.rec) THEN 0 ELSE Later(brain.fired, Reject)
  /\ ~i.brake => c.pedal_off = IF pedal.brake THEN 0 ELSE Later(brain.pedal_off, Debounce)
  /\ c.suppressed <=> Refuses(i) \/ (brain.suppressed /\ ~On(i))
  /\ c.suppressed /\ (Refuses(i) \/ ~brain.armed) => ~c.armed /\ c.out = "none"
  /\ Fired(c.rec) => /\ brain.armed /\ ~brain.done /\ Up(i)
                     /\ Later(brain.released, ReleaseMax) >= ReleaseMin
                     /\ c.done /\ (c.out = "set" /\ c.gas_fast => c.gas_spent)
  /\ c.released >= 0 => /\ Up(i)
                        /\ c.released = 0 \/ c.released = Later(brain.released, ReleaseMax)
  /\ c.armed => brain.armed \/ Acts(i)
  /\ brain.done /\ c.armed => c.done \/ i.gas \/ Acts(i)
  /\ brain.gas_spent /\ ~Brakes(i) =>
       c.gas_spent /\ (c.armed => brain.armed /\ (brain.done => c.done))

(* A press of the pedal and its debounce are what the history says.        *)
LEMMA PedalRisesFacts ==
  ASSUME MemoryInv, NEW i \in Inputs, NEW s, s.pedal_prev = brain.pedal_prev,
         s.pedal_off = Later(brain.pedal_off, Debounce)
  PROVE  PedalRises(s, i) <=> Pressed(i)
<1>1. s.pedal_prev = pedal.brake
  BY DEF MemoryInv
<1>2. CASE pedal.brake
  BY <1>1, <1>2 DEF PedalRises, Pressed
<1>3. CASE ~pedal.brake
  <2>1. hist.off = s.pedal_off /\ s.pedal_off \in Int /\ s.pedal_off >= 0
    <3>1. brain.pedal_off \in Int /\ brain.pedal_off >= 0 /\ hist.off = s.pedal_off
      BY <1>3 DEF MemoryInv, Brain
    <3> QED BY <3>1, ConstantsFacts DEF Constants, Later
  <2>2. ~(s.pedal_off \in 0..(Debounce - 1)) <=> hist.off >= Debounce
    BY <2>1, ConstantsFacts DEF Constants
  <2> QED BY <1>1, <2>2, Zenon DEF PedalRises, Pressed
<1> QED BY <1>2, <1>3 DEF MemoryInv

(* The opt-out sees the presses and the offers of the history.             *)
LEMMA RejectsFacts ==
  ASSUME MemoryInv, NEW i \in Inputs, NEW b,
         b.last_brake = IF On(i) THEN -1 ELSE Later(brain.last_brake, Double),
         b.fired = Later(brain.fired, Reject)
  PROVE  Pressed(i) /\ Rejects(b) <=> Refuses(i)
<1>1. hist.braked = Later(brain.last_brake, Double) /\ hist.offered = b.fired
  BY DEF MemoryInv
<1>2. b.last_brake \in 0..Double <=> hist.braked \in 0..Double /\ ~On(i)
  BY <1>1, ConstantsFacts DEF Constants
<1> QED BY <1>1, <1>2, Zenon DEF Rejects, Refuses

(* The first half of update.                                               *)
LEMMA FrontFacts ==
  ASSUME MemoryInv, EpisodeInv, OpenInv, NEW i \in Inputs
  PROVE  LET s == verify(capture(Tick(brain), i), i)
             o == optout(remember(s, i), PedalRises(s, i))
         IN /\ Front(o, i)
            /\ PedalRises(s, i) <=> Pressed(i)
            /\ LatRises(s, i) => Brakes(i)
            /\ GasRises(s, i) => Acts(i)
<1> DEFINE k == Tick(brain)
           s == verify(capture(k, i), i)
           m == remember(s, i)
           o == optout(m, PedalRises(s, i))
<1>0. hist.open \in Int /\ brain.cc_prev = pedal.cc
  BY DEF MemoryInv
<1>1. /\ Quiet(hist.open, k) /\ Tidy(k)
      /\ k.armed = brain.armed /\ k.done = brain.done /\ k.gas_spent = brain.gas_spent
      /\ k.released = Later(brain.released, ReleaseMax)
      /\ k.last_brake = Later(brain.last_brake, Double)
      /\ k.pedal_off = Later(brain.pedal_off, Debounce)
      /\ k.fired = Later(brain.fired, Reject)
      /\ k.lat_prev = brain.lat_prev /\ k.pedal_prev = brain.pedal_prev
      /\ k.gas_prev = brain.gas_prev /\ k.cc_prev = brain.cc_prev
      /\ k.suppressed = brain.suppressed
  BY TickFacts
<1> HIDE DEF k
<1>2. /\ Quiet(hist.open, s) /\ Tidy(s)
      /\ s.armed = brain.armed /\ s.done = brain.done /\ s.gas_spent = brain.gas_spent
      /\ s.released = Later(brain.released, ReleaseMax)
      /\ s.last_brake = IF On(i) THEN -1 ELSE Later(brain.last_brake, Double)
      /\ s.pedal_off = Later(brain.pedal_off, Debounce)
      /\ s.fired = Later(brain.fired, Reject)
      /\ s.lat_prev = brain.lat_prev /\ s.pedal_prev = brain.pedal_prev
      /\ s.gas_prev = brain.gas_prev /\ s.cc_prev = i.cc
      /\ (s.suppressed <=> brain.suppressed /\ ~On(i))
  <2>1. On(i) <=> i.cc /\ ~k.cc_prev
    BY <1>0, <1>1 DEF On
  <2> DEFINE rising == i.cc /\ ~k.cc_prev
  <2>2. /\ Quiet(hist.open, s) /\ Tidy(s)
        /\ s.armed = k.armed /\ s.done = k.done /\ s.gas_spent = k.gas_spent
        /\ s.released = k.released /\ s.pedal_off = k.pedal_off /\ s.fired = k.fired
        /\ s.lat_prev = k.lat_prev /\ s.pedal_prev = k.pedal_prev
        /\ s.gas_prev = k.gas_prev /\ s.cc_prev = i.cc
        /\ s.last_brake = IF rising THEN -1 ELSE k.last_brake
        /\ (s.suppressed <=> k.suppressed /\ ~rising)
    BY <1>0, <1>1, CaptureFacts
  <2> HIDE DEF s
  <2> QED BY <1>1, <2>1, <2>2
<1> HIDE DEF s
<1>3. /\ Quiet(hist.open, m) /\ Tidy(m)
      /\ m.armed = s.armed /\ m.done = s.done /\ m.gas_spent = s.gas_spent
      /\ m.released = s.released /\ m.fired = s.fired /\ m.cc_prev = s.cc_prev
      /\ m.lat_prev = i.lat /\ m.pedal_prev = i.brake /\ m.gas_prev = i.gas
      /\ m.last_brake = s.last_brake /\ m.suppressed = s.suppressed
      /\ m.pedal_off = IF s.pedal_prev /\ ~i.brake THEN 0 ELSE s.pedal_off
  BY <1>0, <1>2, RememberFacts
<1> HIDE DEF m
<1>4. PedalRises(s, i) <=> Pressed(i)
  BY <1>2, PedalRisesFacts
<1>5. Pressed(i) /\ Rejects(m) <=> Refuses(i)
  BY <1>2, <1>3, RejectsFacts
<1>6. PICK rises \in BOOLEAN : rises = PedalRises(s, i)
  BY DEF PedalRises
<1>7. o = optout(m, rises)
  BY <1>6
<1>8. rises <=> Pressed(i)
  BY <1>4, <1>6
<1> HIDE DEF o
<1>9. /\ Quiet(hist.open, o) /\ Tidy(o)
      /\ o.gas_spent = m.gas_spent /\ o.fired = m.fired /\ o.cc_prev = m.cc_prev
      /\ o.lat_prev = m.lat_prev /\ o.pedal_prev = m.pedal_prev
      /\ o.gas_prev = m.gas_prev /\ o.pedal_off = m.pedal_off
      /\ o.last_brake = IF rises THEN 0 ELSE m.last_brake
      /\ (o.suppressed <=> m.suppressed \/ (rises /\ Rejects(m)))
      /\ (rises /\ Rejects(m) => ~o.armed)
      /\ (o.armed => m.armed /\ o.done = m.done /\ o.released = m.released)
  BY <1>0, <1>3, <1>7, OptoutFacts
<1>10. o.suppressed <=> Refuses(i) \/ (brain.suppressed /\ ~On(i))
  BY <1>2, <1>3, <1>5, <1>8, <1>9
<1>11. o.last_brake = IF Pressed(i) THEN 0 ELSE IF On(i) THEN -1 ELSE Later(brain.last_brake, Double)
  BY <1>2, <1>3, <1>8, <1>9
<1>12. ~i.brake => o.pedal_off = IF pedal.brake THEN 0 ELSE Later(brain.pedal_off, Debounce)
  BY <1>2, <1>3, <1>9 DEF MemoryInv
<1>13. Front(o, i)
  BY <1>2, <1>3, <1>5, <1>8, <1>9, <1>10, <1>11, <1>12 DEF Front
<1>14. (LatRises(s, i) => Brakes(i)) /\ (GasRises(s, i) => Acts(i))
  BY <1>2 DEF LatRises, GasRises, Brakes, Acts, MemoryInv
<1> QED BY <1>4, <1>13, <1>14 DEF o, m, s, k
(* update.                                                                 *)
LEMMA UpdateFacts ==
  ASSUME MemoryInv, EpisodeInv, OpenInv, NEW i \in Inputs, update(i)
  PROVE  Final(brain', i)
<1> DEFINE s         == verify(capture(Tick(brain), i), i)
           rises     == PedalRises(s, i)
           gas_rises == GasRises(s, i)
           lat_rises == LatRises(s, i)
           o         == optout(remember(s, i), rises)
           idle      == i.lat /\ ~o.armed
           deaf      == \/ rises /\ i.lat /\ o.suppressed
                        \/ gas_rises /\ idle /\ o.suppressed
                        \/ gas_rises /\ idle /\ o.gas_spent
           n         == NoteIf(deaf, o, "ignored")
<1>1. /\ Front(o, i) /\ (rises <=> Pressed(i)) /\ (lat_rises => Brakes(i))
      /\ (gas_rises => Acts(i))
  BY FrontFacts
<1>2. brain' = IF Starts(o, i, lat_rises, rises) THEN arm_brake(o, i)
               ELSE IF GasStarts(o, gas_rises) THEN arm_gas(n, i) ELSE episode(n, i)
  BY DEF update
<1>3. hist.open \in Int
  BY DEF MemoryInv
<1> HIDE DEF o, s, rises, lat_rises, gas_rises
<1>4. /\ Quiet(hist.open, o) /\ Tidy(o)
  BY <1>1 DEF Front
<1>5. /\ Quiet(hist.open, n) /\ Tidy(n) /\ SameMemory(n, o) /\ SameGas(n, o) /\ SameEpisode(n, o)
      /\ n.fired = o.fired
  <2>1. "ignored" \in Words \ {"arm", "fire", "refuse"}
    BY DEF Words
  <2> HIDE DEF deaf
  <2>2. /\ Quiet(hist.open, n) /\ SameMemory(n, o) /\ SameGas(n, o) /\ SameEpisode(n, o)
        /\ n.fired = o.fired
    BY <1>3, <1>4, <2>1, NoteIfFacts
  <2> HIDE DEF n
  <2> QED BY <1>4, <2>2 DEF Tidy, SameEpisode
<1> HIDE DEF n
<1>6. Front(n, i)
  BY <1>1, <1>5 DEF Front, SameMemory, SameGas, SameEpisode
<1>7. CASE Starts(o, i, lat_rises, rises)
  <2>1. brain' = arm_brake(o, i)
    BY <1>2, <1>7
  <2>2. Brakes(i) /\ Acts(i) /\ ~o.suppressed
    BY <1>1, <1>7 DEF Starts, Brakes, Acts
  <2> DEFINE c == arm_brake(o, i)
  <2>3. /\ Quiet(hist.open, c) /\ Tidy(c) /\ c.armed /\ c.released = -1
        /\ SameMemory(c, o) /\ c.fired = o.fired
    BY <1>3, <1>4, ArmBrakeFacts
  <2> HIDE DEF c
  <2>4. Final(c, i)
    BY <1>1, <2>2, <2>3 DEF Final, Front, Quiet, SameMemory
  <2> QED BY <2>1, <2>4 DEF c
<1>8. CASE ~Starts(o, i, lat_rises, rises) /\ GasStarts(o, gas_rises)
  <2>1. brain' = arm_gas(n, i)
    BY <1>2, <1>8
  <2>2. Acts(i) /\ ~n.suppressed /\ ~brain.gas_spent
    BY <1>1, <1>5, <1>8 DEF GasStarts, Front, SameMemory
  <2> DEFINE c == arm_gas(n, i)
  <2>3. /\ Quiet(hist.open, c) /\ Tidy(c) /\ c.armed /\ c.released = -1
        /\ SameMemory(c, n) /\ c.fired = n.fired
    BY <1>3, <1>5, ArmGasFacts
  <2> HIDE DEF c
  <2>4. Final(c, i)
    BY <1>6, <2>2, <2>3 DEF Final, Front, Quiet, SameMemory
  <2> QED BY <2>1, <2>4 DEF c
<1>9. CASE ~Starts(o, i, lat_rises, rises) /\ ~GasStarts(o, gas_rises)
  <2>1. brain' = episode(n, i)
    BY <1>2, <1>9
  <2> DEFINE c == episode(n, i)
  <2>2. Outcome(hist.open, c, n, i)
    BY <1>3, <1>5, EpisodeFacts
  <2> HIDE DEF c
  <2>3. /\ Logged(hist.open, c) /\ Tidy(c)
        /\ c.cc_prev = i.cc /\ c.lat_prev = i.lat /\ c.pedal_prev = i.brake
        /\ c.gas_prev = i.gas
        /\ c.last_brake = IF Pressed(i) THEN 0 ELSE IF On(i) THEN -1
                          ELSE Later(brain.last_brake, Double)
        /\ c.fired = IF Fired(c.rec) THEN 0 ELSE Later(brain.fired, Reject)
        /\ ~i.brake => c.pedal_off = IF pedal.brake THEN 0 ELSE Later(brain.pedal_off, Debounce)
        /\ c.suppressed <=> Refuses(i) \/ (brain.suppressed /\ ~On(i))
    BY <1>6, <2>2 DEF Outcome, Front, SameMemory
  <2>4. (Refuses(i) \/ ~brain.armed) => ~c.armed /\ c.out = "none"
    BY <1>6, <2>2 DEF Outcome, Front
  <2>5. Fired(c.rec) => /\ brain.armed /\ ~brain.done /\ Up(i)
                        /\ Later(brain.released, ReleaseMax) >= ReleaseMin
                        /\ c.done /\ (c.out = "set" /\ c.gas_fast => c.gas_spent)
    BY <1>6, <2>2 DEF Outcome, Front
  <2>6. c.released >= 0 => /\ Up(i)
                           /\ c.released = 0 \/ c.released = Later(brain.released, ReleaseMax)
    <3>1. c.released >= 0 => c.armed
      BY <2>3 DEF Tidy
    <3> QED BY <1>6, <2>2, <3>1 DEF Outcome, Front
  <2>7. c.armed => n.armed /\ brain.armed /\ n.done = brain.done
    BY <1>6, <2>2 DEF Outcome, Front
  <2>8. brain.done /\ c.armed => c.done \/ i.gas
    BY <2>2, <2>7 DEF Outcome
  <2>9. brain.gas_spent => c.gas_spent /\ (c.armed => brain.armed /\ (brain.done => c.done))
    BY <1>6, <2>2, <2>7 DEF Outcome, Front
  <2>10. Final(c, i)
    BY <2>3, <2>4, <2>5, <2>6, <2>7, <2>8, <2>9, Zenon DEF Final
  <2> QED BY <2>1, <2>10 DEF c
<1> QED BY <1>7, <1>8, <1>9

-----------------------------------------------------------------------------
(* The records of the tick, as the history counts them.                    *)
LEMMA OpenAtFacts == /\ \A k : OpenAt(k) = hist.open + Net(brain'.rec, k)
                     /\ Fires <=> Fired(brain'.rec)
<1>1. \A k : /\ {j \in Arms : j <= k} = At(brain'.rec, {"arm"}, k)
             /\ {j \in Ends : j <= k} = At(brain'.rec, {"fire", "refuse"}, k)
  BY DEF Arms, Ends, Phases, At
<1>2. Fires <=> Fired(brain'.rec)
  BY DEF Fires, Fired, Phases
<1> QED BY <1>1, <1>2 DEF OpenAt, Net
(* The inputs of a tick.                                                   *)
LEMMA InputFacts ==
  ASSUME NEW f \in Feet, NEW i \in Around(f)
  PROVE  i \in Inputs
<1> DEFINE judged == brain.armed /\ f.lat /\ Up(f)
           Gates == IF judged /\ brain.released >= 0 THEN {"clear", "res", "all"} ELSE {"clear"}
           S == [brake : {f.brake}, regen : {f.regen}, gas : {f.gas}, lat : {f.lat},
                 cc : {f.cc}, available : {f.available}, blocked : BOOLEAN, slow : BOOLEAN,
                 gate : {"clear", "res", "all"}, onpower : BOOLEAN, stale : BOOLEAN]
<1>1. Gates \subseteq {"clear", "res", "all"}
  OBVIOUS
<1>2. \A cond : If(cond) \subseteq BOOLEAN
  BY DEF If
<1>3. i \in S
  <2> HIDE DEF judged, Gates
  <2> QED BY <1>1, <1>2 DEF Around, judged, Gates
<1> QED BY <1>3 DEF Feet, Inputs

(* What the history records of the tick.                                   *)
LEMMA RecordedFacts ==
  ASSUME NEW i, Recorded(i)
  PROVE  /\ hist'.off = IF i.brake THEN 0 ELSE Later(hist.off, Debounce)
         /\ hist'.up = IF Up(i) THEN Later(hist.up, ReleaseMin) ELSE 0
         /\ hist'.braked = IF Pressed(i) THEN 1 ELSE IF On(i) THEN -1 ELSE Later(hist.braked, Double)
         /\ hist'.offered = IF Fired(brain'.rec) THEN 1 ELSE Later(hist.offered, Reject)
         /\ hist'.rejected <=> Refuses(i) \/ (hist.rejected /\ ~On(i))
         /\ hist'.acted <=> Acts(i) \/ (hist.acted /\ ~Fired(brain'.rec))
         /\ hist'.early <=> Fired(brain'.rec) /\ (~hist.acted \/ hist.up < ReleaseMin)
         /\ hist'.sets = IF Brakes(i) THEN "none"
                         ELSE IF Fired(brain'.rec) /\ brain'.out = "set" /\ brain'.gas_fast
                              THEN IF hist.sets = "none" THEN "one" ELSE "more"
                         ELSE hist.sets
         /\ hist'.open = hist.open + Count(brain'.rec)
         /\ hist'.balanced <=> Steady(hist.open, brain'.rec)
         /\ hist'.rejected \in BOOLEAN /\ hist'.acted \in BOOLEAN /\ hist'.early \in BOOLEAN
         /\ hist'.balanced \in BOOLEAN
<1>1. \A k : OpenAt(k) = hist.open + Net(brain'.rec, k)
  BY OpenAtFacts
<1>2. Fires <=> Fired(brain'.rec)
  BY OpenAtFacts
<1>3. /\ hist'.off = IF i.brake THEN 0 ELSE Later(hist.off, Debounce)
      /\ hist'.up = IF Up(i) THEN Later(hist.up, ReleaseMin) ELSE 0
      /\ hist'.braked = IF Pressed(i) THEN 1 ELSE IF On(i) THEN -1 ELSE Later(hist.braked, Double)
      /\ hist'.offered = IF Fires THEN 1 ELSE Later(hist.offered, Reject)
  BY DEF Recorded, On
<1>4. hist'.rejected = (Refuses(i) \/ (hist.rejected /\ ~On(i)))
  BY DEF Recorded, On, Refuses
<1>5. /\ hist'.acted = (Acts(i) \/ (hist.acted /\ ~Fires))
      /\ hist'.early = (Fires /\ (~hist.acted \/ hist.up < ReleaseMin))
  BY DEF Recorded
<1>6. hist'.sets = IF Brakes(i) THEN "none"
                   ELSE IF Fires /\ brain'.out = "set" /\ brain'.gas_fast
                        THEN IF hist.sets = "none" THEN "one" ELSE "more"
                   ELSE hist.sets
  BY DEF Recorded
<1>7. hist'.open = OpenAt(Len(brain'.rec))
  BY DEF Recorded
<1>8. hist'.balanced = (\A k \in DOMAIN brain'.rec : OpenAt(k) \in {0, 1})
  BY DEF Recorded
<1>9. hist'.balanced <=> Steady(hist.open, brain'.rec)
  BY <1>1, <1>8 DEF Steady
<1>10. hist'.open = hist.open + Count(brain'.rec)
  BY <1>1, <1>7 DEF Count
<1>11. /\ hist'.rejected \in BOOLEAN /\ hist'.acted \in BOOLEAN /\ hist'.early \in BOOLEAN
       /\ hist'.balanced \in BOOLEAN
  BY <1>4, <1>5, <1>8
<1> QED BY <1>2, <1>3, <1>4, <1>5, <1>6, <1>9, <1>10, <1>11

(* The tick keeps the memory and the clocks true.                          *)
LEMMA MemoryStep ==
  ASSUME MemoryInv, NEW i \in Inputs, Final(brain', i), Recorded(i),
         pedal' = [brake |-> i.brake, gas |-> i.gas, lat |-> i.lat, cc |-> i.cc]
  PROVE  MemoryInv'
<1>1. Brain(brain') /\ Brain(brain)
  BY DEF Final, Logged, MemoryInv
<1>2. /\ pedal' \in [brake : BOOLEAN, gas : BOOLEAN, lat : BOOLEAN, cc : BOOLEAN]
      /\ pedal'.brake = i.brake /\ pedal'.gas = i.gas /\ pedal'.lat = i.lat /\ pedal'.cc = i.cc
  BY DEF Inputs
<1>3. /\ brain'.cc_prev = pedal'.cc /\ brain'.pedal_prev = pedal'.brake
      /\ brain'.gas_prev = pedal'.gas /\ (pedal'.lat => brain'.lat_prev)
  BY <1>2 DEF Final
<1>4. /\ hist'.rejected \in BOOLEAN /\ hist'.acted \in BOOLEAN /\ hist'.early \in BOOLEAN
      /\ hist'.balanced \in BOOLEAN
  BY RecordedFacts
<1>5. hist'.open \in Int
  <2>1. hist'.open = hist.open + Count(brain'.rec)
    BY RecordedFacts
  <2>2. hist.open + Count(brain'.rec) \in {0, 1}
    BY DEF Final, Logged
  <2> QED BY <2>1, <2>2
<1>6. hist'.braked = Later(brain'.last_brake, Double)
  <2>1. hist'.braked = IF Pressed(i) THEN 1 ELSE IF On(i) THEN -1 ELSE Later(hist.braked, Double)
    BY RecordedFacts
  <2>2. brain'.last_brake = IF Pressed(i) THEN 0 ELSE IF On(i) THEN -1
                            ELSE Later(brain.last_brake, Double)
    BY DEF Final
  <2>3. Later(0, Double) = 1 /\ Later(-1, Double) = -1
    BY ConstantsFacts DEF Constants, Later
  <2> QED BY <2>1, <2>2, <2>3 DEF MemoryInv
<1>7. hist'.offered = Later(brain'.fired, Reject)
  <2>1. hist'.offered = IF Fired(brain'.rec) THEN 1 ELSE Later(hist.offered, Reject)
    BY RecordedFacts
  <2>2. brain'.fired = IF Fired(brain'.rec) THEN 0 ELSE Later(brain.fired, Reject)
    BY DEF Final
  <2>3. Later(0, Reject) = 1
    BY ConstantsFacts DEF Constants, Later
  <2> QED BY <2>1, <2>2, <2>3 DEF MemoryInv
<1>8. hist'.off = IF i.brake THEN 0 ELSE Later(hist.off, Debounce)
  BY RecordedFacts
<1>9. hist'.off \in Int /\ (pedal'.brake => hist'.off = 0)
  <2>1. hist.off \in Int
    BY DEF MemoryInv
  <2> QED BY <1>2, <1>8, <2>1, ConstantsFacts DEF Constants, Later
<1>10. ASSUME ~i.brake
       PROVE  brain'.pedal_off >= 0 /\ hist'.off = Later(brain'.pedal_off, Debounce)
  <2>1. brain'.pedal_off = IF pedal.brake THEN 0 ELSE Later(brain.pedal_off, Debounce)
    BY <1>10 DEF Final
  <2>2. CASE pedal.brake
    BY <1>8, <1>10, <2>1, <2>2 DEF MemoryInv
  <2>3. CASE ~pedal.brake
    <3>1. /\ brain.pedal_off \in Int /\ brain.pedal_off >= 0
          /\ hist.off = Later(brain.pedal_off, Debounce)
      BY <1>1, <2>3 DEF MemoryInv, Brain
    <3>2. Later(brain.pedal_off, Debounce) >= 0
      BY <3>1, ConstantsFacts DEF Constants, Later
    <3> QED BY <1>8, <1>10, <2>1, <2>3, <3>1, <3>2
  <2> QED BY <2>2, <2>3
<1>11. hist'.up \in Nat
  <2>1. hist'.up = IF Up(i) THEN Later(hist.up, ReleaseMin) ELSE 0
    BY RecordedFacts
  <2>2. hist.up \in Nat
    BY DEF MemoryInv
  <2> QED BY <2>1, <2>2, ConstantsFacts DEF Constants, Later
<1>12. hist'.sets \in {"none", "one", "more"}
  <2>1. hist'.sets = IF Brakes(i) THEN "none"
                     ELSE IF Fired(brain'.rec) /\ brain'.out = "set" /\ brain'.gas_fast
                          THEN IF hist.sets = "none" THEN "one" ELSE "more"
                     ELSE hist.sets
    BY RecordedFacts
  <2> QED BY <2>1 DEF MemoryInv
<1>13. ~pedal'.brake => /\ brain'.pedal_off >= 0
                        /\ hist'.off = Later(brain'.pedal_off, Debounce)
  BY <1>2, <1>10
<1> QED BY <1>1, <1>2, <1>3, <1>4, <1>5, <1>6, <1>7, <1>9, <1>11, <1>12, <1>13 DEF MemoryInv

(* The tick keeps the rest of the invariant.                               *)
LEMMA EpisodeStep ==
  ASSUME ResumeInv, NEW i \in Inputs, Final(brain', i), Recorded(i), pedal'.gas = i.gas
  PROVE  /\ EpisodeInv' /\ RejectInv' /\ SpentInv' /\ OpenInv'
         /\ OfferIsEarned' /\ FirstPressOnly'
<1> USE DEF ResumeInv
<1>1. Brain(brain') /\ Tidy(brain') /\ Brain(brain) /\ Tidy(brain)
  BY DEF Final, Logged, MemoryInv, EpisodeInv
<1>2. hist.up \in Nat /\ hist'.up = IF Up(i) THEN Later(hist.up, ReleaseMin) ELSE 0
  BY RecordedFacts DEF MemoryInv
<1>3. ASSUME brain'.released >= 0 PROVE hist'.up > brain'.released \/ hist'.up > ReleaseMin
  <2>1. Up(i) /\ (brain'.released = 0 \/ brain'.released = Later(brain.released, ReleaseMax))
    BY <1>3 DEF Final
  <2>2. hist'.up = Later(hist.up, ReleaseMin)
    BY <1>2, <2>1
  <2>3. CASE brain'.released = 0
    BY <1>2, <2>2, <2>3, ConstantsFacts DEF Constants, Later
  <2>4. CASE brain'.released = Later(brain.released, ReleaseMax)
    <3>1. brain.released \in Int /\ brain.released >= 0
      BY <1>1, <1>3, <2>4, LaterFacts, ConstantsFacts DEF Brain, Constants
    <3>2. hist.up > brain.released \/ hist.up > ReleaseMin
      BY <3>1 DEF EpisodeInv
    <3> QED BY <1>2, <2>2, <2>4, <3>1, <3>2, ConstantsFacts DEF Constants, Later
  <2> QED BY <2>1, <2>3, <2>4
<1>4. ASSUME brain'.armed, ~brain'.done \/ i.gas PROVE hist'.acted
  <2>1. CASE Acts(i)
    BY <2>1, RecordedFacts
  <2>2. CASE ~Acts(i)
    <3>1. brain.armed /\ (brain.done => brain'.done \/ i.gas)
      BY <1>4, <2>2 DEF Final
    <3>2. i.gas => pedal.gas
      BY <2>2 DEF Acts, MemoryInv, Inputs
    <3>3. hist.acted
      BY <1>4, <3>1, <3>2 DEF EpisodeInv
    <3>4. ~Fired(brain'.rec)
      BY <1>4 DEF Final, Up
    <3> QED BY <3>3, <3>4, RecordedFacts
  <2> QED BY <2>1, <2>2
<1>5. EpisodeInv'
  BY <1>1, <1>3, <1>4 DEF EpisodeInv
<1>6. RejectInv'
  <2>1. hist'.rejected <=> Refuses(i) \/ (hist.rejected /\ ~On(i))
    BY RecordedFacts
  <2> QED BY <2>1 DEF RejectInv, Final
<1>7. /\ hist'.sets # "more"
      /\ hist'.sets = "one" => brain'.gas_spent /\ (brain'.armed => brain'.done)
  <2>1. hist'.sets = IF Brakes(i) THEN "none"
                     ELSE IF Fired(brain'.rec) /\ brain'.out = "set" /\ brain'.gas_fast
                          THEN IF hist.sets = "none" THEN "one" ELSE "more"
                     ELSE hist.sets
    BY RecordedFacts
  <2>2. CASE Brakes(i)
    BY <2>1, <2>2
  <2>3. CASE ~Brakes(i) /\ Fired(brain'.rec) /\ brain'.out = "set" /\ brain'.gas_fast
    <3>1. brain.armed /\ ~brain.done /\ brain'.done /\ brain'.gas_spent
      BY <2>3 DEF Final
    <3>2. hist.sets # "one" /\ hist.sets # "more"
      BY <3>1 DEF SpentInv, FirstPressOnly
    <3>3. hist.sets = "none"
      BY <3>2 DEF MemoryInv
    <3> QED BY <2>1, <2>3, <3>1, <3>3
  <2>4. CASE ~Brakes(i) /\ ~(Fired(brain'.rec) /\ brain'.out = "set" /\ brain'.gas_fast)
    <3>1. hist'.sets = hist.sets
      BY <2>1, <2>4
    <3> QED BY <2>4, <3>1 DEF SpentInv, FirstPressOnly, Final
  <2> QED BY <2>2, <2>3, <2>4
<1>8. OpenInv'
  <2>1. hist'.open = hist.open + Count(brain'.rec) /\ (hist'.balanced <=> Steady(hist.open, brain'.rec))
    BY RecordedFacts
  <2> QED BY <2>1 DEF OpenInv, Final, Logged
<1>9. OfferIsEarned'
  <2>1. hist'.early <=> Fired(brain'.rec) /\ (~hist.acted \/ hist.up < ReleaseMin)
    BY RecordedFacts
  <2>2. ASSUME Fired(brain'.rec) PROVE hist.acted /\ ~(hist.up < ReleaseMin)
    <3>1. brain.armed /\ ~brain.done /\ Later(brain.released, ReleaseMax) >= ReleaseMin
      BY <2>2 DEF Final
    <3>2. hist.acted
      BY <3>1 DEF EpisodeInv
    <3>3. brain.released \in Int /\ brain.released >= 0
      BY <1>1, <3>1, ConstantsFacts DEF Brain, Constants, Later
    <3>4. hist.up > brain.released \/ hist.up > ReleaseMin
      BY <3>3 DEF EpisodeInv
    <3> QED BY <1>2, <3>1, <3>2, <3>3, <3>4, ConstantsFacts DEF Constants, Later
  <2> QED BY <2>1, <2>2 DEF OfferIsEarned
<1> QED BY <1>5, <1>6, <1>7, <1>8, <1>9 DEF SpentInv, FirstPressOnly
-----------------------------------------------------------------------------
(* A fresh brain has no episode, and no history.                           *)
LEMMA ResumeInvInit == Init => ResumeInv
<1> SUFFICES ASSUME Init PROVE ResumeInv
  OBVIOUS
<1> USE DEF Init, ResumeInit, Fresh
<1>1. Brain(brain)
  BY NoRecords, ConstantsFacts DEF Brain, Constants
<1>2. Tidy(brain)
  BY ConstantsFacts DEF Tidy, Constants
<1>3. MemoryInv
  <2>1. Later(-1, Double) = -1 /\ Later(-1, Reject) = -1
    BY DEF Later
  <2> QED BY <1>1, <2>1 DEF MemoryInv
<1> QED BY <1>2, <1>3 DEF ResumeInv, EpisodeInv, RejectInv, SpentInv, OpenInv, OfferIsEarned,
                         FirstPressOnly

(* ResumeInv is inductive.                                                 *)
LEMMA ResumeInvNext == ResumeInv /\ [Next]_vars => ResumeInv'
<1> SUFFICES ASSUME ResumeInv, [Next]_vars PROVE ResumeInv'
  OBVIOUS
<1>1. CASE Next
  <2>1. PICK f \in Feet : Possible(f) /\ \E i \in Around(f) : _mads_resume_step(i)
    BY <1>1 DEF Next
  <2>2. PICK i \in Around(f) : _mads_resume_step(i)
    BY <2>1
  <2>3. i \in Inputs
    BY InputFacts
  <2>4. /\ update(i) /\ Recorded(i)
        /\ pedal' = [brake |-> i.brake, gas |-> i.gas, lat |-> i.lat, cc |-> i.cc]
    BY <2>2 DEF _mads_resume_step
  <2>5. Final(brain', i)
    BY <2>3, <2>4, UpdateFacts DEF ResumeInv
  <2>6. MemoryInv'
    BY <2>3, <2>4, <2>5, MemoryStep DEF ResumeInv
  <2>7. pedal'.gas = i.gas
    BY <2>4
  <2>8. /\ EpisodeInv' /\ RejectInv' /\ SpentInv' /\ OpenInv'
        /\ OfferIsEarned' /\ FirstPressOnly'
    BY <2>3, <2>4, <2>5, <2>7, EpisodeStep
  <2> QED BY <2>6, <2>8 DEF ResumeInv
<1>2. CASE UNCHANGED vars
  <2>1. brain' = brain /\ pedal' = pedal /\ hist' = hist
    BY <1>2 DEF vars
  <2>2. MemoryInv'
    BY <2>1, Zenon DEF ResumeInv, MemoryInv
  <2>3. EpisodeInv' /\ RejectInv' /\ SpentInv' /\ OpenInv'
    BY <2>1, Zenon DEF ResumeInv, EpisodeInv, RejectInv, SpentInv, OpenInv
  <2>4. OfferIsEarned' /\ FirstPressOnly'
    BY <2>1 DEF ResumeInv, OfferIsEarned, FirstPressOnly
  <2> QED BY <2>2, <2>3, <2>4 DEF ResumeInv
<1> QED BY <1>1, <1>2

(* The invariant the theorems rest on holds in every state of a drive.     *)
LEMMA ResumeInvHolds == Spec => []ResumeInv
BY ResumeInvInit, ResumeInvNext, PTL DEF Spec

(* A driver who has overruled the resume, by braking twice in quick        *)
(* succession or right after an offer, is offered nothing until cruise     *)
(* comes on again (the opt-out of MadsResumeBrain.update): RejectionSticks.*)
THEOREM RejectionHolds == Spec => []RejectionSticks
<1>1. ResumeInv => RejectionSticks
  BY DEF ResumeInv, RejectInv, RejectionSticks
<1> QED BY <1>1, ResumeInvHolds, PTL

(* Every arm record of the brain has its one fire or refuse record, in     *)
(* whatever order the pedals, the gates and cruise come:                   *)
(* OneTerminalRecord.                                                      *)
THEOREM ArmsEndOnce == Spec => []OneTerminalRecord
<1>1. ResumeInv => OneTerminalRecord
  BY DEF ResumeInv, OpenInv, OneTerminalRecord
<1> QED BY <1>1, ResumeInvHolds, PTL

(* No offer to tap RESUME or SET comes without a press or a braking into   *)
(* steering alone since the last one, or before both pedals have been up   *)
(* for the settling time: OfferIsEarned.                                   *)
THEOREM OffersAreEarned == Spec => []OfferIsEarned
<1>1. ResumeInv => OfferIsEarned
  BY DEF ResumeInv
<1> QED BY <1>1, ResumeInvHolds, PTL

(* Between two brakings at most one press of the accelerator at speed is   *)
(* answered by an offer to tap SET: FirstPressOnly.                        *)
THEOREM OnePressIsAnswered == Spec => []FirstPressOnly
<1>1. ResumeInv => FirstPressOnly
  BY DEF ResumeInv
<1> QED BY <1>1, ResumeInvHolds, PTL
=============================================================================
