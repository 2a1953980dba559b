----------------------------- MODULE MuEstimator -----------------------------
(***************************************************************************)
(* The forecaster's estimate of the service rate (mu_estimator.go) from    *)
(* the XDP program's counter of passed packets (ReadXDPStats), which reads *)
(* as 0 when the statistics map cannot be opened or looked up and starts   *)
(* again when the program is loaded anew.                                  *)
(*                                                                         *)
(* A tick carries the time it was sent at.  Run may take it later, from    *)
(* the ticker's channel of one, and the counter is read later still, after *)
(* the scrapes.  The unit of time is Run's interval.                       *)
(***************************************************************************)
EXTENDS Integers

CONSTANTS MuFloor,     \* the configured rate
          MaxRate,     \* packets that pass in a unit of time, at most
          MaxClock, PassMod,   \* bound on time; 2^64 in the source
          MinGap, MinSamples,  \* 0.05 seconds and 3 in the source
          Unit                 \* rates are in fractions 1/Unit of a packet, floats in the source

ASSUME MuAssumption == /\ MuFloor \in Nat /\ MaxRate \in Nat /\ MinGap \in Nat /\ MinSamples \in Nat
                       /\ PassMod \in Nat \ {0} /\ Unit \in Nat

VARIABLES clock, pass,   \* time and the counter
          due,           \* the tick in the ticker's channel, or -1
          now, read,     \* the tick that Run handles and the counter read for it, or -1
          lastPass, lastAt, muEst, sampleCount,   \* the estimator; lastAt = -1 is the zero time
          lag,           \* history: the longest time from a tick to its reading
          disturbed      \* history: a reading failed or the counter started again

estimator == <<lastPass, lastAt, muEst, sampleCount>>
muVars == <<clock, pass, due, now, read, estimator, lag, disturbed>>

MuInit == /\ clock = 0 /\ pass = 0 /\ due = -1 /\ now = -1 /\ read = -1
          /\ lastPass = 0 /\ lastAt = -1 /\ muEst = Unit * MuFloor /\ sampleCount = 0
          /\ lag = 0 /\ disturbed = FALSE

\* Packets pass for a unit of time, and the ticker sends its tick unless one is waiting.
PacketsPass(n) == /\ clock < MaxClock
                  /\ clock' = clock + 1 /\ pass' = (pass + n) % PassMod
                  /\ due' = IF due = -1 THEN clock' ELSE due
                  /\ UNCHANGED <<now, read, estimator, lag, disturbed>>

CounterRestarts == /\ pass # 0 /\ pass' = 0 /\ disturbed' = TRUE
                   /\ UNCHANGED <<clock, due, now, read, estimator, lag>>

TakeTick == /\ now = -1 /\ due # -1 /\ now' = due /\ due' = -1
            /\ UNCHANGED <<clock, pass, read, estimator, lag, disturbed>>

\* ReadXDPStats, once the network signal has been scraped.
ReadStats == /\ now # -1 /\ read = -1
             /\ \/ read' = pass /\ UNCHANGED disturbed
                \/ read' = 0 /\ disturbed' = TRUE
             /\ lag' = IF clock - now > lag THEN clock - now ELSE lag
             /\ UNCHANGED <<clock, pass, due, now, estimator>>

\* The rate enters the average from the third sample on.
Sampled(delta, dt) ==
  /\ sampleCount' = sampleCount + 1
  /\ muEst' = IF sampleCount' >= MinSamples THEN (7 * muEst + 3 * ((Unit * delta) \div dt)) \div 10 ELSE muEst

\* Mutant: a sample that is not used leaves the count where it was.
ObserveKeepsCount(high) ==
  LET delta == (read - lastPass) % PassMod
      dt == now - lastAt
      used == lastAt # -1 /\ ~high /\ delta # 0
  IN  IF lastAt # -1 /\ dt < MinGap THEN UNCHANGED estimator
      ELSE /\ lastAt' = now
           /\ lastPass' = IF used \/ lastAt = -1 THEN read ELSE lastPass
           /\ IF used THEN Sampled(delta, dt) ELSE UNCHANGED <<muEst, sampleCount>>

\* The difference is unsigned.  A call too soon after the last changes nothing.
Observe(high) ==
  LET delta == (read - lastPass) % PassMod
      dt == now - lastAt
      used == lastAt # -1 /\ ~high /\ delta # 0
  IN  IF lastAt # -1 /\ dt < MinGap THEN UNCHANGED estimator
      ELSE /\ lastAt' = now /\ lastPass' = read
           /\ IF used THEN Sampled(delta, dt) ELSE UNCHANGED <<muEst, sampleCount>>

\* The overload is known when the traffic has been scraped too.
MuTick(high) == /\ read # -1 /\ Observe(high)
                /\ now' = -1 /\ read' = -1
                /\ UNCHANGED <<clock, pass, due, lag, disturbed>>

MuNext == \/ \E n \in 0..MaxRate : PacketsPass(n)
          \/ CounterRestarts \/ TakeTick \/ ReadStats
          \/ \E high \in BOOLEAN : MuTick(high)

MuSpec == MuInit /\ [][MuNext]_muVars
-----------------------------------------------------------------------------
\* Counters and times are numbers of their range.
MuTypeOK == /\ pass \in 0..PassMod - 1 /\ lastPass \in 0..PassMod - 1 /\ read \in -1..PassMod - 1
            /\ lastAt \in -1..clock /\ now \in -1..clock /\ due \in -1..clock
            /\ muEst \in Nat /\ sampleCount \in Nat

\* The service rate is estimated above both the configured rate and what really passed per
\* interval only as far as ticks were read late, by no more than one interval's packets for
\* each interval that the latest of them waited; also when the counter wraps, and after
\* samples that were skipped under overload or came too soon.  Excepted is what follows a
\* reading that failed or a counter that started again.
MuIsMeasured == disturbed \/ muEst <= Unit * MuFloor \/ muEst <= Unit * (MaxRate * (1 + lag))
=============================================================================
