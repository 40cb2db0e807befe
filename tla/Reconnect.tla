----------------------------- MODULE Reconnect -----------------------------
(***************************************************************************)
(* The reconnect loop that every chat frontend runs in: RunWithBackoff     *)
(* with nextBackoff.  An attempt is an action of the bot's own module that *)
(* ends in AttemptFails or AttemptReturns.  Delays are whole milliseconds, *)
(* the unit in which nextBackoff has its lower bound.                      *)
(***************************************************************************)
EXTENDS Integers

CONSTANTS
  Frontends,      \* all that run in such a loop
  InitialDelay, MaxDelay, Factor, JitterPercent   \* Options, with the defaults filled in

ASSUME ReconnectAssumption ==
  /\ InitialDelay \in Nat \ {0}
  /\ MaxDelay \in Nat /\ InitialDelay <= MaxDelay
  /\ Factor \in Nat \ {0, 1}
  /\ JitterPercent \in 1..99

VARIABLES
  cancelled,   \* the context of App.Run is done
  loop,        \* RunWithBackoff of each frontend: "off" when it is not configured
  delay,       \* its delay, 0 before the first failure
  inRow,       \* ghost: failures in a row without a long run between them, 2 for more
  ready        \* the readyCh of each frontend is closed

loopVars == <<cancelled, loop, delay, inRow, ready>>

-----------------------------------------------------------------------------
(* nextBackoff                                                             *)

Smaller(a, b) == IF a < b THEN a ELSE b
Larger(a, b)  == IF a < b THEN b ELSE a

GrownDelay(prev) == IF prev = 0 THEN InitialDelay ELSE Smaller(prev * Factor, MaxDelay)

\* The fraction is cut off; the factor is drawn from a half-open interval.
Jittered(d) ==
  {Smaller(Larger(k, 1), MaxDelay) :
     k \in ((d * (100 - JitterPercent)) \div 100)..((d * (100 + JitterPercent) - 1) \div 100)}

NextBackoff(prev) == Jittered(GrownDelay(prev))

-----------------------------------------------------------------------------
(* RunWithBackoff                                                          *)

\* The delay is never reset (a mutation).
DelayKept(f, long) == delay[f]

\* An attempt that ran for MaxDelay or longer was a connection that dropped.
DelayBefore(f, long) == IF long THEN 0 ELSE delay[f]

\* The first error is the last (a mutation).
AttemptFailsForGood(f) ==
  /\ loop[f] = "trying"
  /\ loop' = [loop EXCEPT ![f] = "returned"]
  /\ UNCHANGED <<cancelled, delay, inRow, ready>>

\* The attempt of f ends with an error.
AttemptFails(f) ==
  /\ loop[f] = "trying"
  /\ IF cancelled
       THEN loop' = [loop EXCEPT ![f] = "returned"] /\ UNCHANGED <<delay, inRow>>
       ELSE \E long \in BOOLEAN :
              /\ \E d \in NextBackoff(DelayBefore(f, long)) : delay' = [delay EXCEPT ![f] = d]
              /\ inRow' = [inRow EXCEPT ![f] = IF long \/ @ = 0 THEN 1 ELSE 2]
              /\ loop' = [loop EXCEPT ![f] = "waiting"]
  /\ UNCHANGED <<cancelled, ready>>

\* It ends without one, which the bots do only when the context is done.
AttemptReturns(f) ==
  /\ loop[f] = "trying"
  /\ loop' = [loop EXCEPT ![f] = "returned"]
  /\ UNCHANGED <<cancelled, delay, inRow, ready>>

\* The wait is over or cut short, and the head of the loop looks at the context.
WaitOver(f) ==
  /\ loop[f] = "waiting"
  /\ loop' = [loop EXCEPT ![f] = IF cancelled THEN "returned" ELSE "trying"]
  /\ UNCHANGED <<cancelled, delay, inRow, ready>>

\* markReady, which closes the channel the first time.
MarkReady(f) ==
  /\ ready' = [ready EXCEPT ![f] = TRUE]
  /\ UNCHANGED <<cancelled, loop, delay, inRow>>

-----------------------------------------------------------------------------
\* The shortest first wait, 800 ms with the defaults; and a growth that, with
\* the jitter taken off, still adds a millisecond to it (with the defaults 60%).
LeastDelay == Larger((InitialDelay * (100 - JitterPercent)) \div 100, 1)

GrowthOutweighsJitter == LeastDelay * (Factor * (100 - JitterPercent) - 100) >= 100

(* A frontend that failed for the first time, or dropped after a long run, *)
(* waits about the initial delay; otherwise every wait is longer than the  *)
(* one before, or near the cap; and no wait is longer than the cap.  The   *)
(* jitter, which goes into the next delay, never undoes that, since        *)
(* doubling outweighs it (nextBackoff, RunWithBackoff).                    *)
BackoffSane ==
  [][\A f \in Frontends : loop[f] = "trying" /\ loop'[f] = "waiting" =>
       /\ delay'[f] \in 1..MaxDelay
       /\ inRow'[f] = 1 => 100 * delay'[f] <= (100 + JitterPercent) * InitialDelay
       /\ inRow'[f] = 2 =>
            delay'[f] > delay[f] \/ 100 * (delay'[f] + 1) > (100 - JitterPercent) * MaxDelay]_loopVars
=============================================================================
