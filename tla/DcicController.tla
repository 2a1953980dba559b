--------------------------- MODULE DcicController ---------------------------
(***************************************************************************)
(* The Soft DCIC controller, pkg/dcic/controller.go: an EWMA of a noise    *)
(* score trips a fault; a fault shrinks the best-effort CPU quota by one   *)
(* step, enough quiet epochs give one step back, and at most one quota     *)
(* change is made per dwell.                                               *)
(*                                                                         *)
(* Noise scores are integers on a scale of the configuration's choosing    *)
(* (the code uses float64); the average keeps the code's weights and       *)
(* rounds down, so it stays between the old average and the sample and     *)
(* moves strictly towards a sample below it.  Time is counted in control   *)
(* intervals: `sinceAction' is now - lastAction, saturated at MinDwell,    *)
(* and starts saturated because lastAction is the zero time.  `slack'      *)
(* saturates at SlackEpochs, the only value it is compared with.           *)
(***************************************************************************)
EXTENDS Integers

CONSTANTS
    HardDrop,       \* Config.HardDrop: noise score that trips
    Noise,          \* the scores a sample may have
    AlphaNum,       \* Config.Alpha = AlphaNum / AlphaDen
    AlphaDen,
    MinDwell,       \* Config.MinDwell, in intervals
    MaxGap,         \* bound: intervals between two ticks the loop receives
    SlackEpochs,    \* Config.SlackEpochs
    BEQuotaPct,     \* Config.BEQuotaPct, the initial quota
    BEQuotaFloor, BEQuotaCeil, StepPct

\* The domain NewController's defaulting leaves (every field positive), with
\* the initial quota between floor and ceiling as in DefaultConfig.
ASSUME ConfigAssumption ==
    /\ HardDrop \in Nat \ {0}
    /\ Noise \subseteq Nat
    /\ AlphaNum \in Nat \ {0} /\ AlphaDen \in Nat /\ AlphaNum <= AlphaDen
    /\ MinDwell \in Nat \ {0} /\ MaxGap \in Nat \ {0}
    /\ SlackEpochs \in Nat \ {0}
    /\ BEQuotaFloor \in Nat \ {0} /\ BEQuotaCeil \in Nat /\ StepPct \in Nat \ {0}
    /\ BEQuotaPct \in BEQuotaFloor..BEQuotaCeil

VARIABLES
    mode,           \* cfg.Mode
    ready, ewma,    \* ewma.init, ewma.value
    slack,          \* quiet epochs counted towards a reclaim
    beQuota,        \* the controller's idea of the quota
    sinceAction,    \* now - lastAction
    interval,       \* now - the previous epoch's now
    noise, fault,   \* snap.NoiseRaw, snap.Fault
    dec,            \* the Decision returned by the last Observe
    samples         \* parity of c.samples: every Observe is a step

ctrlVars == <<mode, ready, ewma, slack, beQuota, sinceAction, interval, noise, fault, dec, samples>>

Modes == {"observe", "advise", "enforce"}
Actions == {"none", "shrink_be", "reclaim_be"}

AtMost(a, b) == IF a <= b THEN a ELSE b
AtLeast(a, b) == IF a >= b THEN a ELSE b

\* NewController
NewController(m) ==
    [mode |-> m, ready |-> FALSE, ewma |-> 0, slack |-> 0, beQuota |-> BEQuotaPct,
     sinceAction |-> MinDwell, interval |-> 0, noise |-> 0, fault |-> FALSE,
     dec |-> [action |-> "none", as |-> m, quota |-> BEQuotaPct], samples |-> 0]

CtrlIs(c) ==
    /\ mode = c.mode /\ ready = c.ready /\ ewma = c.ewma /\ slack = c.slack
    /\ beQuota = c.beQuota /\ sinceAction = c.sinceAction /\ interval = c.interval
    /\ noise = c.noise /\ fault = c.fault /\ dec = c.dec
    /\ samples = c.samples

CtrlBecomes(c) ==
    /\ mode' = c.mode /\ ready' = c.ready /\ ewma' = c.ewma /\ slack' = c.slack
    /\ beQuota' = c.beQuota /\ sinceAction' = c.sinceAction /\ interval' = c.interval
    /\ noise' = c.noise /\ fault' = c.fault /\ dec' = c.dec
    /\ samples' = c.samples

Init == \E m \in Modes : CtrlIs(NewController(m))

-----------------------------------------------------------------------------
\* ewma.Update
Update(x) ==
    IF ready THEN (AlphaNum * x + (AlphaDen - AlphaNum) * ewma) \div AlphaDen ELSE x

Trips(x) == Update(x) >= HardDrop \/ x >= HardDrop

\* The fold of the sample, common to every branch of Observe.
Fold(x, gap) ==
    /\ samples' = 1 - samples
    /\ interval' = gap
    /\ ready' = TRUE
    /\ ewma' = Update(x)
    /\ noise' = x
    /\ fault' = Trips(x)
    /\ UNCHANGED mode

Elapsed(gap) == AtMost(sinceAction + gap, MinDwell)

\* Mutant: the dwell is not waited out.
DwellOffByOne(gap) == Elapsed(gap) >= MinDwell - 1

DwellOK(gap) == Elapsed(gap) >= MinDwell

Shrunk == AtLeast(beQuota - StepPct, BEQuotaFloor)

Reclaimed == AtMost(beQuota + StepPct, BEQuotaCeil)

Actuates == mode \in {"enforce", "advise"}

\* The Decision: the mode is the prefix of its name ("", advise_, observe_would_),
\* and in observe mode it carries the current quota.
Decide(act, next) ==
    dec' = [action |-> act, as |-> mode, quota |-> IF mode = "observe" THEN beQuota ELSE next]

NoDecision == dec' = [action |-> "none", as |-> mode, quota |-> beQuota]

\* Mutant: a shrink keeps the slack counted before it.
ShrinkKeepsSlack(x, gap) ==
    /\ Trips(x) /\ DwellOK(gap) /\ Shrunk < beQuota
    /\ Fold(x, gap)
    /\ UNCHANGED slack
    /\ beQuota' = IF Actuates THEN Shrunk ELSE beQuota
    /\ sinceAction' = IF Actuates THEN 0 ELSE Elapsed(gap)
    /\ Decide("shrink_be", Shrunk)

\* case fault && dwellOK, with room above the floor
ShrinkBE(x, gap) ==
    /\ Trips(x) /\ DwellOK(gap) /\ Shrunk < beQuota
    /\ Fold(x, gap)
    /\ slack' = 0
    /\ beQuota' = IF Actuates THEN Shrunk ELSE beQuota
    /\ sinceAction' = IF Actuates THEN 0 ELSE Elapsed(gap)
    /\ Decide("shrink_be", Shrunk)

\* a fault inside the dwell (default branch) or at the floor: slack is kept
HoldOnFault(x, gap) ==
    /\ Trips(x)
    /\ DwellOK(gap) => Shrunk >= beQuota
    /\ Fold(x, gap)
    /\ sinceAction' = Elapsed(gap)
    /\ NoDecision
    /\ UNCHANGED <<slack, beQuota>>

\* case !fault with enough slack
ReclaimBE(x, gap) ==
    /\ ~Trips(x)
    /\ slack + 1 >= SlackEpochs /\ DwellOK(gap) /\ beQuota < BEQuotaCeil
    /\ Fold(x, gap)
    /\ beQuota' = IF Actuates THEN Reclaimed ELSE beQuota
    /\ slack' = IF Actuates THEN 0 ELSE SlackEpochs
    /\ sinceAction' = IF Actuates THEN 0 ELSE Elapsed(gap)
    /\ Decide("reclaim_be", Reclaimed)

\* case !fault, not yet
CountQuiet(x, gap) ==
    /\ ~Trips(x)
    /\ ~(slack + 1 >= SlackEpochs /\ DwellOK(gap) /\ beQuota < BEQuotaCeil)
    /\ Fold(x, gap)
    /\ slack' = AtMost(slack + 1, SlackEpochs)
    /\ sinceAction' = Elapsed(gap)
    /\ NoDecision
    /\ UNCHANGED beQuota

Observe(x, gap) ==
    \/ ShrinkBE(x, gap)
    \/ HoldOnFault(x, gap)
    \/ ReclaimBE(x, gap)
    \/ CountQuiet(x, gap)

SetMode(m) ==
    /\ mode' = m
    /\ UNCHANGED <<ready, ewma, slack, beQuota, sinceAction, interval, noise, fault, dec, samples>>

Next ==
    \/ \E x \in Noise, gap \in 1..MaxGap : Observe(x, gap)
    \/ \E m \in Modes : SetMode(m)

Spec == Init /\ [][Next]_ctrlVars

\* The control loop's ticker keeps delivering epochs.
Epoch == \E x \in Noise, gap \in 1..MaxGap : Observe(x, gap)

FairSpec == Spec /\ WF_ctrlVars(Epoch)

-----------------------------------------------------------------------------
(* Properties *)

\* Types of the controller's fields: Observe keeps the quota within its floor and
\* ceiling although the step does not divide the band, and so every decision's.
TypeOK ==
    /\ mode \in Modes
    /\ ready \in BOOLEAN
    /\ ewma \in Nat
    /\ slack \in 0..SlackEpochs
    /\ beQuota \in BEQuotaFloor..BEQuotaCeil
    /\ sinceAction \in 0..MinDwell
    /\ interval \in 0..MaxGap
    /\ noise \in Nat
    /\ fault \in BOOLEAN
    /\ dec \in [action : Actions, as : Modes, quota : BEQuotaFloor..BEQuotaCeil]
    /\ samples \in {0, 1}

\* Quiet epochs counted towards a reclaim are epochs after the last quota
\* change: within the dwell that follows a shrink or a reclaim, slack never
\* exceeds the time since that change, so slack earned before a shrink is never
\* spent after it (controller.go: c.slack = 0 in both actuating branches).
SlackSinceChange == slack <= sinceAction \/ sinceAction = MinDwell

\* Whatever the noise and however late the ticks, the quota obeys the governor:
\* floor, ceiling, one step per change, one change per MinDwell ("Soft DCIC with
\* hysteresis (one action per dwell)"), also across SetMode.
Governor == INSTANCE QuotaGovernor
              WITH quota <- beQuota, rest <- sinceAction, gap <- interval, Floor <- BEQuotaFloor,
                   Ceil <- BEQuotaCeil, Dwell <- MinDwell
ObeysGovernor == Governor!GovSpec

=============================================================================
