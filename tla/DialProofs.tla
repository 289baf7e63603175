----------------------------- MODULE DialProofs -----------------------------
(***************************************************************************)
(* Proofs about module Dial: its invariant and its back-off, for every set *)
(* of configurations and every width of the integers.                      *)
(***************************************************************************)
EXTENDS Dial, TLAPS

\* What wraps is an int32.
LEMMA WrapType == ASSUME NEW x \in Int PROVE Wrap(x) \in Int32
<1>1. Int32Max \in Nat /\ 2 * Int32Max + 2 \in Nat \ {0}
  BY DialAssumption
<1>2. x + Int32Max + 1 \in Int
  BY <1>1
<1>3. (x + Int32Max + 1) % (2 * Int32Max + 2) \in 0..(2 * Int32Max + 1)
  BY <1>1, <1>2
<1> QED BY <1>1, <1>3 DEF Wrap, Int32

\* A natural that fits is kept.
LEMMA WrapSame == ASSUME NEW x \in Int32 PROVE Wrap(x) = x
<1>1. Int32Max \in Nat /\ x \in Int /\ x + Int32Max + 1 \in 0..(2 * Int32Max + 1)
  BY DialAssumption DEF Int32
<1>2. (x + Int32Max + 1) % (2 * Int32Max + 2) = x + Int32Max + 1
  BY <1>1
<1> QED BY <1>1, <1>2 DEF Wrap

\* What the assumption says of the configuration of a behaviour.
LEMMA OptTypes ==
    ASSUME opt \in Configs
    PROVE  /\ opt.max \in Nat /\ opt.time \in Nat /\ opt.maxDelay \in Nat
           /\ opt.max <= Int32Max /\ opt.time <= Int32Max /\ opt.maxDelay <= Int32Max
           /\ Int32Max \in Nat \ {0}
BY DialAssumption

\* A product grows with its second factor.
LEMMA ProductGrows ==
    ASSUME NEW t \in Nat, NEW m \in Nat, NEW n \in Nat, m <= n
    PROVE  t * m \in Nat /\ t * m <= t * n
<1>1. PICK k \in Nat : n = m + k
  BY n - m \in Nat
<1>2. t * n = t * m + t * k /\ t * m \in Nat /\ t * k \in Nat
  BY <1>1
<1> QED BY <1>2

\* The delay is an int32.
LEMMA DelayType ==
    ASSUME opt \in Configs, tryCount \in Int32
    PROVE  Delay \in Int32
<1>1. Wrap(tryCount + 1) \in Int32
  BY WrapType DEF Int32
<1>2. opt.time * Wrap(tryCount + 1) \in Int
  BY <1>1, OptTypes DEF Int32
<1>3. Wrap(opt.time * Wrap(tryCount + 1)) \in Int32
  BY <1>2, WrapType
<1> QED BY <1>3, OptTypes DEF Delay, Int32

\* While nothing overflows the delay is the product, or the cap.
LEMMA DelayFits ==
    ASSUME opt \in Configs, NoOverflow, tryCount \in Nat, dials = tryCount + 1
    PROVE  Delay = DelayIs(tryCount + 1)
<1>1. tryCount + 1 \in Int32 /\ tryCount + 1 \in Nat
  BY OptTypes DEF Int32, NoOverflow
<1>2. Wrap(tryCount + 1) = tryCount + 1
  BY <1>1, WrapSame
<1>3. opt.time * (tryCount + 1) \in Nat /\ opt.time * (tryCount + 1) <= Int32Max
  BY <1>1, OptTypes DEF NoOverflow
<1>4. opt.time * (tryCount + 1) \in Int32
  BY <1>3, OptTypes DEF Int32
<1>5. Wrap(opt.time * (tryCount + 1)) = opt.time * (tryCount + 1)
  BY <1>4, WrapSame
<1> QED BY <1>2, <1>5 DEF Delay, DelayIs

\* One more attempt does not make the uncapped or the capped delay shorter.
LEMMA DelayIsGrows ==
    ASSUME opt \in Configs, NEW n \in Nat
    PROVE  DelayIs(n) <= DelayIs(n + 1)
<1>1. opt.time * n \in Nat /\ opt.time * (n + 1) \in Nat /\ opt.time * n <= opt.time * (n + 1)
  BY OptTypes, ProductGrows
<1> QED BY <1>1, OptTypes DEF DelayIs

\* The first delay is the shortest.
LEMMA DelayIsLeast ==
    ASSUME opt \in Configs, NEW n \in Nat
    PROVE  DelayIs(n + 1) \in Nat /\ DelayIs(1) <= DelayIs(n + 1)
<1>1. /\ opt.time * 1 \in Nat /\ opt.time * (n + 1) \in Nat
      /\ opt.time * 1 <= opt.time * (n + 1)
  BY OptTypes, ProductGrows
<1> QED BY <1>1, OptTypes DEF DelayIs

\* The invariant holds at first ...
LEMMA InitInv == Init => IInv
<1> SUFFICES ASSUME Init PROVE IInv
  OBVIOUS
<1>1. opt.max \in Nat /\ opt.maxDelay \in Nat /\ Int32Max \in Nat \ {0} /\ opt.time * 0 = 0
  BY OptTypes DEF Init
<1>2. 0 \in Int32 /\ 0 \in 0..Int32Max /\ 0 \in 0..opt.max
  BY <1>1 DEF Int32
<1>3. TypeOK
  BY <1>2 DEF Init, TypeOK, Steps
<1>4. GivesUpAtLimit /\ Counted /\ Limited
  BY <1>1, <1>2 DEF Init, GivesUpAtLimit, Counted, Limited
<1>5. DelayGrown
  BY <1>1 DEF Init, DelayGrown, DelayIs
<1> QED BY <1>3, <1>4, <1>5 DEF IInv

\* ... and every step keeps it.
LEMMA NextInv == IInv /\ [Next]_vars => IInv'
<1> SUFFICES ASSUME IInv, [Next]_vars PROVE IInv'
  OBVIOUS
<1>0. opt \in Configs /\ tryCount \in Int32 /\ dials \in 0..Int32Max /\ TypeOK
  BY DEF IInv, TypeOK
<1> USE DEF IInv, TypeOK, GivesUpAtLimit, Counted, Limited, DelayGrown, Steps
<1>1. CASE Check
  <2>1. opt' = opt /\ dials' = dials /\ tryCount' = tryCount /\ delay' = delay
    BY <1>1 DEF Check
  <2>2. DelayGrown'
    BY <1>1, <2>1 DEF Check, NoOverflow, DelayIs
  <2> QED BY <1>0, <1>1, <2>1, <2>2, OptTypes DEF Check, GivesUp, Int32
<1>2. CASE Dialled
  <2>1. /\ opt' = opt /\ tryCount' = tryCount /\ delay' = delay
        /\ dials' = (IF dials < Int32Max THEN dials + 1 ELSE dials)
    BY <1>2 DEF Dialled
  <2>2. NoOverflow' => NoOverflow
    BY <1>0, <2>1, OptTypes, ProductGrows DEF NoOverflow
  <2>3. DelayGrown'
    BY <1>2, <2>1, <2>2 DEF Dialled, DelayIs
  <2> QED BY <1>0, <1>2, <2>1, <2>3, OptTypes DEF Dialled, Int32
<1>3. CASE Backoff
  <2>1. Delay \in Int32
    BY <1>0, DelayType
  <2>2. NoOverflow /\ tryCount \in Nat /\ dials = tryCount + 1 => Delay = DelayIs(tryCount + 1)
    BY <1>0, DelayFits
  <2>3. NoOverflow => tryCount \in Nat /\ dials = tryCount + 1
    BY <1>0, <1>3, OptTypes DEF Backoff, NoOverflow, Int32
  <2>4. DelayGrown'
    BY <1>3, <2>2, <2>3 DEF Backoff, NoOverflow, DelayIs
  <2> QED BY <1>0, <1>3, <2>1, <2>4 DEF Backoff
<1>4. CASE TimerFires
  BY <1>4 DEF TimerFires, NoOverflow, DelayIs
<1>5. CASE Cancelled
  BY <1>5 DEF Cancelled
<1>6. CASE Again
  <2>1. Wrap(tryCount + 1) \in Int32
    BY <1>0, WrapType DEF Int32
  <2>2. opt.max > 0 \/ dials < Int32Max => tryCount \in Nat /\ Wrap(tryCount + 1) = tryCount + 1
    BY <1>0, <1>6, OptTypes, WrapSame DEF Again, Int32
  <2>3. DelayGrown'
    BY <1>0, <1>6, <2>2 DEF Again, NoOverflow, DelayIs
  <2>4. TypeOK' /\ GivesUpAtLimit'
    BY <1>0, <1>6, <2>1 DEF Again
  <2>5. Counted' /\ Limited'
    BY <1>0, <1>6, <2>2, OptTypes DEF Again, Int32
  <2> QED BY <2>3, <2>4, <2>5
<1>7. CASE Cancel
  BY <1>7 DEF Cancel, NoOverflow, DelayIs
<1>8. CASE UNCHANGED vars
  BY <1>8 DEF vars, NoOverflow, DelayIs
<1> QED BY <1>1, <1>2, <1>3, <1>4, <1>5, <1>6, <1>7, <1>8 DEF Next

\* The invariant of tryConnect, for all configurations and integers of any width.
THEOREM Invariant == Spec => []IInv
  BY InitInv, NextInv, PTL DEF Spec

\* tryConnect gives up after exactly ClientReconnectMax dials.
THEOREM LimitExact == Spec => []GivesUpAtLimit
  BY Invariant, PTL DEF IInv

\* Until a product leaves int32, with and without a limit of attempts, no wait is
\* shorter than the one before it or than the first.
THEOREM BackoffIsMonotone == Spec => BackoffGrows
<1>1. ASSUME IInv, [Next]_vars
      PROVE  [NoOverflow /\ at = "backoff" /\ at' = "wait"
                => delay' >= delay /\ delay' >= DelayIs(1)]_vars
  <2>1. opt \in Configs /\ tryCount \in Int32 /\ delay \in Int32 /\ dials \in Nat
    BY <1>1 DEF IInv, TypeOK
  <2>2. SUFFICES ASSUME Next, NoOverflow, at = "backoff", at' = "wait"
                 PROVE  delay' >= delay /\ delay' >= DelayIs(1)
    BY <1>1
  <2>3. tryCount \in Nat /\ dials = tryCount + 1
    BY <1>1, <2>1, <2>2, OptTypes DEF IInv, Counted, NoOverflow, Int32
  <2>4. delay = DelayIs(tryCount)
    BY <1>1, <2>2 DEF IInv, DelayGrown
  <2>5. Backoff
    BY <2>2 DEF Next, Check, Dialled, TimerFires, Cancelled, Again, Cancel
  <2>6. delay' = DelayIs(tryCount + 1)
    BY <2>1, <2>2, <2>3, <2>5, DelayFits DEF Backoff
  <2> QED BY <2>1, <2>3, <2>4, <2>6, DelayIsGrows, DelayIsLeast
<1> QED BY <1>1, Invariant, PTL DEF Spec, BackoffGrows
=============================================================================
