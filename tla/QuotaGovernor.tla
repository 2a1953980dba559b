--------------------------- MODULE QuotaGovernor ---------------------------
(***************************************************************************)
(* What a density controller promises to the best-effort (BE) workload,    *)
(* whatever its signals: the quota stays between the floor and the ceiling *)
(* and moves by at most one step, and two moves are at least one dwell     *)
(* apart.  Time is counted in control intervals; `rest' is the time since  *)
(* the last move, which is of no interest beyond Dwell.                    *)
(***************************************************************************)
EXTENDS Integers

CONSTANTS Floor, Ceil, StepPct, Dwell, MaxGap

VARIABLES
    quota,
    rest,   \* time since the last move
    gap     \* length of the last interval

govVars == <<quota, rest, gap>>

Rested(g) == IF rest + g >= Dwell THEN Dwell ELSE rest + g

GovInit ==
    /\ quota \in Floor..Ceil
    /\ rest = Dwell
    /\ gap = 0

\* An interval in which the quota is left alone.
Keep ==
    /\ gap' \in 1..MaxGap
    /\ rest' = Rested(gap')
    /\ UNCHANGED quota

\* A move: allowed only when the previous one is a full dwell ago.
Move ==
    /\ gap' \in 1..MaxGap
    /\ Rested(gap') = Dwell
    /\ quota' \in (quota - StepPct)..(quota + StepPct)
    /\ quota' \in Floor..Ceil
    /\ rest' = 0

GovSpec == GovInit /\ [][Keep \/ Move]_govVars

=============================================================================
