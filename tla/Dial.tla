-------------------------------- MODULE Dial --------------------------------
(***************************************************************************)
(* Sockets.tryConnect (sockets.go): dial, wait, dial again, until a        *)
(* connection is made, the limit of attempts is reached or the context is  *)
(* cancelled.  Connect and the redial of a client's socket run it; to      *)
(* module Socket it is the one step TryConnect.                            *)
(*                                                                         *)
(* tryCount and the delay are int32 in the code, so products wrap.         *)
(***************************************************************************)
EXTENDS Integers

CONSTANTS
    Int32Max,   \* the largest int32, smaller in a model
    Configs     \* the configurations a behaviour may have

ASSUME DialAssumption ==
    /\ Int32Max \in Nat \ {0}
    \* max, time, maxDelay: Options.ClientReconnectMax, ClientReconnectTime and
    \* ClientReconnectMaxDelay
    /\ Configs \subseteq [max : 0..Int32Max, time : 0..Int32Max, maxDelay : 0..Int32Max]

VARIABLES
    opt,        \* Sockets.Options
    tryCount,   \* argument of tryConnect
    at,         \* the next step of tryConnect, or its result
    delay,      \* the last delay, before the conversion to a Duration
    fired,      \* timer.C has a value
    cancelled,  \* ctx is done
    dials       \* history: calls of DialTimeout, counted up to Int32Max

vars == <<opt, tryCount, at, delay, fired, cancelled, dials>>

Int32 == (-Int32Max - 1)..Int32Max
\* What an int32 keeps of an integer.
Wrap(x) == ((x + Int32Max + 1) % (2 * Int32Max + 2)) - Int32Max - 1

Init ==
    /\ opt \in Configs
    /\ tryCount = 0 /\ at = "check"
    /\ delay = 0 /\ fired = FALSE
    /\ cancelled = FALSE /\ dials = 0

\* Mutant of GivesUp: one attempt too many.
GivesUpLate == opt.max > 0 /\ tryCount > opt.max

\* The retry limit; 0 means none.
GivesUp == opt.max > 0 /\ tryCount >= opt.max

Check ==
    /\ at = "check"
    /\ at' = IF GivesUp THEN "failed" ELSE "dial"
    /\ UNCHANGED <<opt, tryCount, delay, fired, cancelled, dials>>

\* DialTimeout; its timeout is one second whatever the context says.
Dialled ==
    /\ at = "dial"
    /\ at' \in {"connected", "backoff"}
    /\ dials' = IF dials < Int32Max THEN dials + 1 ELSE dials
    /\ UNCHANGED <<opt, tryCount, delay, fired, cancelled>>

\* Mutant of Delay: a delay above the cap starts from the base again.
DelayRestart ==
    LET d == Wrap(opt.time * Wrap(tryCount + 1)) IN
    IF opt.maxDelay > 0 /\ d > opt.maxDelay THEN opt.time ELSE d

Delay ==
    LET d == Wrap(opt.time * Wrap(tryCount + 1)) IN
    IF opt.maxDelay > 0 /\ d > opt.maxDelay THEN opt.maxDelay ELSE d

\* A timer whose delay is not positive fires at once.
Backoff ==
    /\ at = "backoff"
    /\ delay' = Delay
    /\ fired' = (Delay <= 0)
    /\ at' = "wait"
    /\ UNCHANGED <<opt, tryCount, cancelled, dials>>

TimerFires ==
    /\ at = "wait" /\ ~fired
    /\ fired' = TRUE
    /\ UNCHANGED <<opt, tryCount, at, delay, cancelled, dials>>

\* Mutant of Cancelled: both branches of the select dial again.
CancelledRetries ==
    /\ at = "wait" /\ cancelled
    /\ at' = "check" /\ fired' = FALSE
    /\ UNCHANGED <<opt, tryCount, delay, cancelled, dials>>

Cancelled ==
    /\ at = "wait" /\ cancelled
    /\ at' = "cancelled"
    /\ UNCHANGED <<opt, tryCount, delay, fired, cancelled, dials>>

\* Mutant of Again: the count is handed on as it is.
AgainSame ==
    /\ at = "wait" /\ fired
    /\ fired' = FALSE
    /\ at' = "check"
    /\ UNCHANGED <<opt, tryCount, delay, cancelled, dials>>

\* The recursive call; the deferred Stop of the timer has no effect any more.
Again ==
    /\ at = "wait" /\ fired
    /\ tryCount' = Wrap(tryCount + 1)
    /\ fired' = FALSE
    /\ at' = "check"
    /\ UNCHANGED <<opt, delay, cancelled, dials>>

\* scc stops.
Cancel ==
    /\ ~cancelled
    /\ cancelled' = TRUE
    /\ UNCHANGED <<opt, tryCount, at, delay, fired, dials>>

Next == Check \/ Dialled \/ Backoff \/ TimerFires \/ Cancelled \/ Again \/ Cancel

Spec == Init /\ [][Next]_vars

\* The goroutine runs, timers fire, and a select with two ready branches picks one at
\* random, so that a cancelled context is seen in the end.  Nobody need cancel.
Fairness ==
    /\ WF_vars(Check) /\ WF_vars(Dialled) /\ WF_vars(Backoff)
    /\ WF_vars(TimerFires) /\ WF_vars(Again)
    /\ SF_vars(Cancelled)

FairSpec == Spec /\ Fairness

-----------------------------------------------------------------------------
(* Properties.                                                             *)

Steps == {"check", "dial", "backoff", "wait", "connected", "failed", "cancelled"}
Ended == at \in {"connected", "failed", "cancelled"}

\* The variables have their types; the counter and the delay are int32.
TypeOK ==
    /\ opt \in Configs
    /\ tryCount \in Int32 /\ delay \in Int32
    /\ at \in Steps
    /\ fired \in BOOLEAN /\ cancelled \in BOOLEAN
    /\ dials \in 0..Int32Max

\* tryConnect gives up after exactly ClientReconnectMax dials, never earlier and never
\* with a limit of 0: the counter that starts at 0 is compared before the dial.
GivesUpAtLimit == at = "failed" => opt.max > 0 /\ dials = opt.max

\* No product has left int32 so far, and the counter has not either.
NoOverflow == opt.time * dials <= Int32Max /\ dials < Int32Max

\* How dials, counter and limit go together, and the delay while nothing overflows.
Counted ==
    opt.max > 0 \/ dials < Int32Max =>
        /\ at \in {"check", "dial"} => dials = tryCount
        /\ at \in {"backoff", "wait"} => dials = tryCount + 1 /\ tryCount >= 0
Limited ==
    opt.max > 0 =>
        /\ at = "check" => tryCount <= opt.max
        /\ at \in {"dial", "backoff", "wait"} => tryCount < opt.max
DelayIs(n) == IF opt.maxDelay > 0 /\ opt.time * n > opt.maxDelay THEN opt.maxDelay ELSE opt.time * n
DelayGrown ==
    NoOverflow /\ at \in {"check", "dial", "backoff", "wait"} =>
        delay = DelayIs(IF at = "wait" THEN tryCount + 1 ELSE tryCount)
IInv == TypeOK /\ GivesUpAtLimit /\ Counted /\ Limited /\ DelayGrown

\* Until a product leaves int32, with and without a limit of attempts, a server that is
\* down is never asked faster than before: a wait is as long as the one before it, and
\* as long as the first.  (Afterwards it is not: AlwaysWaits.)
BackoffGrows ==
    [][NoOverflow /\ at = "backoff" /\ at' = "wait"
         => delay' >= delay /\ delay' >= DelayIs(1)]_vars

\* With a limit, and after a cancellation even without one, tryConnect returns.
Returns == opt.max > 0 ~> Ended
CancelEnds == cancelled ~> Ended

-----------------------------------------------------------------------------
(* What comments and README say of the back-off and the code does not do.  *)

\* Retrying for ever (ClientReconnectMax = 0, README) keeps the back-off: between two
\* dials is the time ClientReconnectTime, or the maximum if that is smaller.
AlwaysWaits == at = "wait" => delay >= DelayIs(1)

\* The waits grow exponentially (comment of tryConnect, README).
Exponential == [][at = "backoff" /\ at' = "wait" /\ tryCount > 1 /\ NoOverflow =>
                    delay' = 2 * delay \/ delay' = opt.maxDelay]_vars
=============================================================================
