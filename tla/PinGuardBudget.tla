---------------------------- MODULE PinGuardBudget ----------------------------
(***************************************************************************)
(* PinGuard with history variables, for what its policy promises over a    *)
(* whole run: how many wrong PINs can be tried in a given time, and how    *)
(* often a lockout is reported.                                            *)
(***************************************************************************)
EXTENDS PinGuard

CONSTANT
  Debt  \* Debt[n]: how far n wrong PINs in a row run ahead of one per MAX_LOCKOUT

(* The n-th wrong PIN of a streak waits lockout_for(n - 1) rather than     *)
(* MAX_LOCKOUT, and FORGET_AFTER is at least what a whole streak gains:    *)
(* guard.rs:61-66, "waiting it out gains an attacker nothing".             *)
ASSUME DebtAssumption ==
  /\ Debt \in [0..U32_MAX -> Int]
  /\ Debt[0] = 0
  /\ \A n \in 1..U32_MAX : Debt[n] = Debt[n - 1] + MAX_LOCKOUT - lockout_for(n - 1)
  /\ \A n \in 0..U32_MAX : Debt[n] <= FORGET_AFTER
  /\ lockout_for(U32_MAX) = MAX_LOCKOUT

VARIABLES
  guesses,  \* wrong PINs evaluated since a client was last accepted
  since,    \* when that was
  refusals, \* connections turned away since the last wrong PIN ...
  lines     \* ... and those of them that were reported

history == <<guesses, since, refusals, lines>>
allvars == <<vars, history>>

BInit == Init /\ guesses = 0 /\ since = 0 /\ refusals = 0 /\ lines = 0

BRefuse ==
  /\ Refuse
  /\ refusals' = Smaller(refusals + 1, 2)
  /\ lines' = IF guard.refusal_reported THEN lines ELSE lines + 1
  /\ UNCHANGED <<guesses, since>>

BWrongPin ==
  /\ WrongPin
  /\ guesses' = guesses + 1
  /\ refusals' = 0
  /\ lines' = 0
  /\ UNCHANGED since

BAccepted ==
  /\ Accepted
  /\ guesses' = 0
  /\ since' = now
  /\ refusals' = 0
  /\ lines' = 0

BOther == (Tick \/ Admit \/ NothingTested) /\ UNCHANGED history

BNext == BRefuse \/ BWrongPin \/ BAccepted \/ BOther

BSpec == BInit /\ [][BNext]_allvars

-----------------------------------------------------------------------------

(* What carries the bound below: up to the newest wrong PIN, the lead over *)
(* one per MAX_LOCKOUT is at most the debt of the streak it belongs to.    *)
BudgetInv ==
  /\ guesses \in Nat
  /\ since \in Nat
  /\ since <= now
  /\ IF guard.last_failure = None
     THEN guesses = 0 /\ guard.failures = 0
     ELSE /\ since <= guard.last_failure
          /\ guesses * MAX_LOCKOUT <= guard.last_failure - since + Debt[guard.failures]

(* What carries OneLinePerLockout: during a lockout the guard's flag says  *)
(* whether a connection has been turned away since it began.               *)
ReportInv ==
  /\ refusals \in 0..2
  /\ lines = IF refusals = 0 THEN 0 ELSE 1
  /\ locked(guard, now) => (guard.refusal_reported = (refusals # 0))

(* However wrong PINs are timed - hammering, waiting out each lockout, or  *)
(* waiting until the count is forgotten and starting over - they never run *)
(* further ahead of one per MAX_LOCKOUT than one streak's debt.            *)
WaitingGainsNothing == guesses * MAX_LOCKOUT <= (now - since) + FORGET_AFTER

(* A lockout is reported on its first refused connection and never again,  *)
(* and a later lockout is reported afresh (Refusal::first).                *)
OneLinePerLockout == lines = (IF refusals = 0 THEN 0 ELSE 1)
=============================================================================
