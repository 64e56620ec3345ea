---------------------------- MODULE AdmissionProofs ---------------------------
(***************************************************************************)
(* Theorems about what decides who is let in: the wrong-PIN guard, for     *)
(* every policy that satisfies the assumptions of PinGuard and             *)
(* PinGuardBudget, and the paired-device list and its file, for every set  *)
(* of devices and any number of power cuts, failed writes and removals,    *)
(* as long as the two threads never save at once (Overlap = FALSE).        *)
(***************************************************************************)
EXTENDS PinGuardBudget, PairingStore, FiniteSetTheorems, TLAPS

(* A lockout is a natural number no longer than the longest one.           *)
LEMMA LockoutType ==
  ASSUME NEW n \in Nat
  PROVE  lockout_for(n) \in Nat /\ lockout_for(n) <= MAX_LOCKOUT
<1> DEFINE k == Smaller(n - (FREE_FAILURES + 1), MAX_SHIFT)
<1>1. CASE n <= FREE_FAILURES
  BY <1>1, PolicyAssumption DEF lockout_for
<1>2. CASE n > FREE_FAILURES
  <2>1. k \in 0..MAX_SHIFT
    BY <1>2, PolicyAssumption DEF Smaller
  <2>2. 2^k \in Nat
    BY <2>1, ShiftAssumption
  <2> HIDE DEF k
  <2>3. \A f \in Nat : f * 2^k \in Nat
    BY <2>2
  <2>4. FIRST_LOCKOUT * 2^k \in Nat
    BY <2>3, PolicyAssumption
  <2>5. Smaller(FIRST_LOCKOUT * 2^k, MAX_LOCKOUT) \in Nat
        /\ Smaller(FIRST_LOCKOUT * 2^k, MAX_LOCKOUT) <= MAX_LOCKOUT
    BY <2>4, PolicyAssumption DEF Smaller
  <2>6. lockout_for(n) = Smaller(FIRST_LOCKOUT * 2^k, MAX_LOCKOUT)
    BY <1>2, PolicyAssumption DEF lockout_for, k
  <2> QED BY <2>5, <2>6
<1> QED BY <1>1, <1>2, PolicyAssumption

(* One more wrong PIN leaves a well-formed guard that remembers when, and  *)
(* is locked for that count's lockout from then on.                        *)
LEMMA RecordFailure ==
  ASSUME NEW g \in Guards, NEW t \in Time
  PROVE  /\ record_failure(g, t) \in Guards
         /\ record_failure(g, t).last_failure = t
         /\ record_failure(g, t).failures = counted(g, t)
         /\ counted(g, t) \in 0..U32_MAX
         /\ \/ /\ lockout_for(counted(g, t)) = 0
               /\ record_failure(g, t).locked_until = g.locked_until
            \/ /\ record_failure(g, t).locked_until # None
               /\ record_failure(g, t).locked_until >= t + lockout_for(counted(g, t))
               /\ g.locked_until # None => record_failure(g, t).locked_until >= g.locked_until
               /\ record_failure(g, t).refusal_reported = FALSE
<1> DEFINE lock == lockout_for(counted(g, t))
           noted == [g EXCEPT !.failures = counted(g, t), !.last_failure = t]
<1>1. counted(g, t) \in 0..U32_MAX
  BY PolicyAssumption DEF counted, Smaller, Guards
<1>2. lock \in Nat
  BY <1>1, LockoutType, PolicyAssumption
<1>3. t \in Nat
  BY PolicyAssumption DEF Time
<1> HIDE DEF lock
<1>4. /\ noted \in Guards
      /\ noted.last_failure = t
      /\ noted.failures = counted(g, t)
      /\ noted.locked_until = g.locked_until
  BY <1>1 DEF Guards
<1>5. CASE lock = 0
  BY <1>5, <1>4, <1>1 DEF record_failure, lock
<1>6. CASE lock # 0
  <2> DEFINE u == relocked(g, t, lock)
  <2>1. /\ u \in Nat
        /\ u >= t + lock
        /\ g.locked_until # None => u >= g.locked_until
    BY <1>2, <1>3, PolicyAssumption DEF relocked, Larger, Guards
  <2> HIDE DEF u
  <2>2. u # None
    BY <2>1, PolicyAssumption
  <2>3. record_failure(g, t) = [noted EXCEPT !.locked_until = u, !.refusal_reported = FALSE]
    BY <1>6 DEF record_failure, lock, u
  <2> HIDE DEF noted
  <2>4. /\ record_failure(g, t) \in Guards
        /\ record_failure(g, t).last_failure = t
        /\ record_failure(g, t).failures = counted(g, t)
        /\ record_failure(g, t).locked_until = u
        /\ record_failure(g, t).refusal_reported = FALSE
    BY <2>1, <2>3, <1>4 DEF Guards
  <2> QED BY <2>4, <2>1, <2>2, <1>1 DEF lock
<1> QED BY <1>5, <1>6

(* The cleared guard is well formed.                                       *)
LEMMA DefaultGuard == PinGuard_default \in Guards
<1>1. 0 \in 0..U32_MAX
  BY PolicyAssumption
<1>2. None \in Time \cup {None} /\ None \in Nat \cup {None} /\ FALSE \in BOOLEAN
  OBVIOUS
<1> QED BY <1>1, <1>2 DEF PinGuard_default, Guards

-----------------------------------------------------------------------------
(* The guard, the clock and the loop's place keep their types.             *)
THEOREM TypeCorrect == Spec => []TypeOK
<1>1. Init => TypeOK
  <2>1. 0 \in Time
    BY PolicyAssumption DEF Time
  <2> QED BY <2>1, DefaultGuard DEF Init, TypeOK
<1>2. TypeOK /\ [Next]_vars => TypeOK'
  <2> SUFFICES ASSUME TypeOK, [Next]_vars PROVE TypeOK'
    OBVIOUS
  <2>1. CASE Tick
    BY <2>1, PolicyAssumption DEF TypeOK, Tick, Time
  <2>2. CASE Refuse
    BY <2>2 DEF TypeOK, Refuse, Guards
  <2>3. CASE Admit
    BY <2>3 DEF TypeOK, Admit
  <2>4. CASE WrongPin
    BY <2>4, RecordFailure DEF TypeOK, WrongPin
  <2>5. CASE Accepted
    BY <2>5, DefaultGuard DEF TypeOK, Accepted, record_success
  <2>6. CASE NothingTested
    BY <2>6 DEF TypeOK, NothingTested
  <2>7. CASE UNCHANGED vars
    BY <2>7 DEF TypeOK, vars
  <2> QED BY <2>1, <2>2, <2>3, <2>4, <2>5, <2>6, <2>7 DEF Next
<1> QED BY <1>1, <1>2, PTL DEF Spec

(* The inductive invariant behind the safety theorems: an admitted         *)
(* connection found the lock open, and the lock outlasts the newest wrong  *)
(* PIN by that count's lockout.                                            *)
LEMMA LockInvariant == Spec => [](TypeOK /\ LockInv)
<1>1. Init => LockInv
  BY DEF Init, LockInv, PinGuard_default
<1>2. TypeOK /\ LockInv /\ [Next]_vars => LockInv'
  <2> SUFFICES ASSUME TypeOK, LockInv, [Next]_vars PROVE LockInv'
    OBVIOUS
  <2>0. now \in Nat
    BY PolicyAssumption DEF TypeOK, Time
  <2>1. CASE Tick
    <3>1. guard' = guard /\ testing' = testing /\ now' = now + 1
      BY <2>1 DEF Tick
    <3>2. guard.last_failure # None => guard.last_failure <= now + 1
      <4>1. guard.last_failure # None => guard.last_failure \in Nat
        BY PolicyAssumption DEF TypeOK, Guards, Time
      <4> QED BY <4>1, <2>0 DEF LockInv
    <3>3. ~locked(guard, now) => ~locked(guard, now + 1)
      <4>1. guard.locked_until # None => guard.locked_until \in Nat
        BY DEF TypeOK, Guards
      <4> QED BY <4>1, <2>0 DEF locked, locked_for
    <3> QED BY <3>1, <3>2, <3>3 DEF LockInv
  <2>2. CASE Refuse
    <3>1. /\ guard'.failures = guard.failures
          /\ guard'.last_failure = guard.last_failure
          /\ guard'.locked_until = guard.locked_until
          /\ now' = now /\ testing' = testing /\ ~testing
      BY <2>2 DEF Refuse, TypeOK, Guards
    <3> QED BY <3>1 DEF LockInv
  <2>3. CASE Admit
    BY <2>3 DEF Admit, LockInv
  <2>4. CASE WrongPin
    <3>1. guard' = record_failure(guard, now) /\ now' = now /\ testing' = FALSE
      BY <2>4 DEF WrongPin
    <3>2. guard \in Guards /\ now \in Time
      BY DEF TypeOK
    <3>3. /\ guard'.last_failure = now
          /\ guard'.failures = counted(guard, now)
          /\ \/ lockout_for(counted(guard, now)) = 0
             \/ /\ guard'.locked_until # None
                /\ guard'.locked_until >= now + lockout_for(counted(guard, now))
      BY <3>1, <3>2, RecordFailure
    <3> QED BY <3>1, <3>3, <2>0 DEF LockInv
  <2>5. CASE Accepted
    BY <2>5 DEF Accepted, record_success, LockInv, PinGuard_default
  <2>6. CASE NothingTested
    BY <2>6 DEF NothingTested, LockInv
  <2>7. CASE UNCHANGED vars
    BY <2>7 DEF vars, LockInv
  <2> QED BY <2>1, <2>2, <2>3, <2>4, <2>5, <2>6, <2>7 DEF Next
<1> QED BY <1>1, <1>2, TypeCorrect, PTL DEF Spec

(* No PIN is evaluated while a lockout is in force, however long ago the   *)
(* connection that carries it was admitted (serve_loop refuses first).     *)
THEOREM NeverTestedWhileLocked == Spec => NoPinTestedWhileLocked
<1>1. LockInv => [testing /\ ~testing' => ~locked(guard, now)]_vars
  BY DEF LockInv
<1> QED BY <1>1, LockInvariant, PTL DEF NoPinTestedWhileLocked

(* No step shortens or lifts a lockout that is in force: a wrong PIN only  *)
(* extends it, and no client is accepted during it (record_failure).       *)
THEOREM LockoutKept == Spec => LockoutHolds
<1>1. TypeOK /\ LockInv /\ [Next]_vars
        => [locked(guard, now) => guard'.locked_until # None
                                    /\ guard'.locked_until >= guard.locked_until]_vars
  <2> SUFFICES ASSUME TypeOK, LockInv, Next, locked(guard, now)
               PROVE  guard'.locked_until # None /\ guard'.locked_until >= guard.locked_until
    OBVIOUS
  <2>1. guard.locked_until # None /\ guard.locked_until \in Nat /\ ~testing
    BY DEF TypeOK, Guards, locked, locked_for, LockInv
  <2>2. guard'.locked_until = guard.locked_until
    BY <2>1 DEF Next, Tick, Refuse, Admit, WrongPin, Accepted, NothingTested, TypeOK, Guards
  <2> QED BY <2>1, <2>2
<1> QED BY <1>1, LockInvariant, PTL DEF LockoutHolds, Spec

(* Both of them: no guess gets past a lockout.                             *)
THEOREM LockKept == Spec => LockHolds
BY NeverTestedWhileLocked, LockoutKept DEF LockHolds

(* A wrong PIN is never tested sooner after the last one than that one's   *)
(* lockout: lockout_for is the schedule a guesser really keeps to.         *)
THEOREM GuessesSpaced == Spec => GuessSpacing
<1>1. TypeOK /\ LockInv
        => [testing /\ ~testing' /\ guard.last_failure # None
              => now - guard.last_failure >= lockout_for(guard.failures)]_vars
  <2> SUFFICES ASSUME TypeOK, LockInv, testing, guard.last_failure # None
               PROVE  now - guard.last_failure >= lockout_for(guard.failures)
    OBVIOUS
  <2>1. now \in Nat /\ guard.last_failure \in Nat /\ guard.failures \in Nat
    BY PolicyAssumption DEF TypeOK, Guards, Time
  <2>2. lockout_for(guard.failures) \in Nat
    BY <2>1, LockoutType
  <2>3. guard.locked_until # None => guard.locked_until \in Nat /\ guard.locked_until <= now
    <3>1. guard.locked_until # None => guard.locked_until \in Nat
      BY DEF TypeOK, Guards
    <3> QED BY <3>1, <2>1 DEF LockInv, locked, locked_for
  <2> QED BY <2>1, <2>2, <2>3 DEF LockInv
<1> QED BY <1>1, LockInvariant, PTL DEF GuessSpacing
-----------------------------------------------------------------------------
(* Every step with its history is a step of the guard.                     *)
LEMMA HistoryOnly == BSpec => Spec
<1>1. BInit => Init
  BY DEF BInit
<1>2. [BNext]_allvars => [Next]_vars
  BY DEF BNext, BRefuse, BWrongPin, BAccepted, BOther, Next, allvars
<1> QED BY <1>1, <1>2, PTL DEF BSpec, Spec

(* One more wrong PIN at the end of a streak's wait stays within the debt  *)
(* of the longer streak, whether it was forgotten, is counted or saturates.*)
LEMMA DebtStep ==
  ASSUME TypeOK, LockInv, BudgetInv, testing
  PROVE  (guesses + 1) * MAX_LOCKOUT <= now - since + Debt[counted(guard, now)]
<1> DEFINE n == guard.failures
           last == guard.last_failure
           spent == guesses * MAX_LOCKOUT
<1>1. /\ n \in 0..U32_MAX /\ now \in Nat /\ since \in Nat /\ guesses \in Nat
      /\ last # None => last \in Nat
  BY PolicyAssumption DEF TypeOK, Guards, Time, BudgetInv
<1>2. (guesses + 1) * MAX_LOCKOUT = spent + MAX_LOCKOUT /\ spent \in Nat
  <2>1. \A a, b \in Nat : (a + 1) * b = a * b + b /\ a * b \in Nat
    OBVIOUS
  <2> QED BY <2>1, <1>1, PolicyAssumption
<1>3. /\ \A m \in 0..U32_MAX : Debt[m] \in Int /\ Debt[m] <= FORGET_AFTER
      /\ Debt[0] = 0
      /\ \A m \in 1..U32_MAX : Debt[m] = Debt[m - 1] + MAX_LOCKOUT - lockout_for(m - 1)
      /\ lockout_for(U32_MAX) = MAX_LOCKOUT
  BY DebtAssumption
<1>4. U32_MAX \in Nat /\ 1 \in 1..U32_MAX /\ MAX_LOCKOUT \in Nat /\ FORGET_AFTER \in Nat
  BY PolicyAssumption
<1>5. lockout_for(0) = 0
  BY PolicyAssumption DEF lockout_for
<1>6. Debt[1] = MAX_LOCKOUT
  <2>1. Debt[1] = Debt[1 - 1] + MAX_LOCKOUT - lockout_for(1 - 1)
    BY <1>3, <1>4
  <2> QED BY <2>1, <1>3, <1>4, <1>5
<1>7. last # None => now - last >= lockout_for(n) /\ last <= now /\ lockout_for(n) \in Nat
  <2>1. lockout_for(n) \in Nat
    BY <1>1, <1>4, LockoutType
  <2>2. guard.locked_until # None => guard.locked_until \in Nat /\ guard.locked_until <= now
    <3>1. guard.locked_until # None => guard.locked_until \in Nat
      BY DEF TypeOK, Guards
    <3> QED BY <3>1, <1>1 DEF LockInv, locked, locked_for
  <2> QED BY <2>1, <2>2, <1>1 DEF LockInv
<1>8. CASE last = None
  <2>1. counted(guard, now) = 1 /\ spent = 0 /\ since <= now
    <3>1. n = 0 /\ guesses = 0 /\ since <= now
      BY <1>8 DEF BudgetInv
    <3>2. counted(guard, now) = 1
      BY <3>1, <1>8, <1>4 DEF counted, forgotten, Smaller
    <3> QED BY <3>1, <3>2, <1>4
  <2> QED BY <2>1, <1>1, <1>2, <1>4, <1>6
<1>9. CASE last # None /\ forgotten(guard, now)
  <2>1. now - last >= FORGET_AFTER
    BY <1>9 DEF forgotten
  <2>2. counted(guard, now) = 1
    BY <1>9, <1>4 DEF counted, Smaller
  <2>3. spent <= last - since + Debt[n] /\ Debt[n] \in Int /\ Debt[n] <= FORGET_AFTER
    BY <1>9, <1>1, <1>3 DEF BudgetInv
  <2> QED BY <2>1, <2>2, <2>3, <1>1, <1>2, <1>4, <1>6, <1>9
<1>10. CASE last # None /\ ~forgotten(guard, now)
  <2>1. spent <= last - since + Debt[n] /\ Debt[n] \in Int
    BY <1>10, <1>1, <1>3 DEF BudgetInv
  <2>2. CASE n = U32_MAX
    <3>1. counted(guard, now) = U32_MAX
      BY <2>2, <1>10, <1>4 DEF counted, Smaller
    <3>2. now - last >= MAX_LOCKOUT
      BY <2>2, <1>3, <1>7, <1>10
    <3> QED BY <3>1, <3>2, <2>1, <2>2, <1>1, <1>2, <1>4, <1>10
  <2>3. CASE n < U32_MAX
    <3>1. counted(guard, now) = n + 1
      BY <2>3, <1>1, <1>10, <1>4 DEF counted, Smaller
    <3>2. Debt[n + 1] = Debt[n] + MAX_LOCKOUT - lockout_for(n)
      <4>1. n + 1 \in 1..U32_MAX /\ (n + 1) - 1 = n
        BY <2>3, <1>1, <1>4
      <4> QED BY <4>1, <1>3
    <3> QED BY <3>1, <3>2, <2>1, <1>1, <1>2, <1>4, <1>7, <1>10
  <2> QED BY <2>2, <2>3, <1>1, <1>4
<1> QED BY <1>8, <1>9, <1>10

(* The debt invariant holds of every run.                                  *)
LEMMA BudgetInvariant == BSpec => [](TypeOK /\ LockInv /\ BudgetInv)
<1>1. BInit => BudgetInv
  BY PolicyAssumption DEF BInit, Init, BudgetInv, PinGuard_default
<1>2. TypeOK /\ LockInv /\ BudgetInv /\ [BNext]_allvars => BudgetInv'
  <2> SUFFICES ASSUME TypeOK, LockInv, BudgetInv, [BNext]_allvars PROVE BudgetInv'
    OBVIOUS
  <2>0. now \in Nat
    BY PolicyAssumption DEF TypeOK, Time
  <2>1. CASE BRefuse
    <3>1. /\ guard'.failures = guard.failures
          /\ guard'.last_failure = guard.last_failure
          /\ now' = now /\ UNCHANGED <<guesses, since>>
      BY <2>1 DEF BRefuse, Refuse, TypeOK, Guards
    <3> QED BY <3>1 DEF BudgetInv
  <2>2. CASE BWrongPin
    <3>1. /\ guard' = record_failure(guard, now) /\ now' = now /\ testing
          /\ guesses' = guesses + 1 /\ since' = since
      BY <2>2 DEF BWrongPin, WrongPin
    <3>2. guard \in Guards /\ now \in Time
      BY DEF TypeOK
    <3>3. guard'.last_failure = now /\ guard'.failures = counted(guard, now)
      BY <3>1, <3>2, RecordFailure
    <3>4. guesses' * MAX_LOCKOUT <= now - since + Debt[counted(guard, now)]
      BY <3>1, DebtStep
    <3>5. now # None
      BY <2>0, PolicyAssumption
    <3> QED BY <3>1, <3>3, <3>4, <3>5, <2>0 DEF BudgetInv
  <2>3. CASE BAccepted
    BY <2>3, <2>0 DEF BAccepted, Accepted, record_success, BudgetInv, PinGuard_default
  <2>4. CASE BOther
    <3>1. guard' = guard /\ UNCHANGED <<guesses, since>> /\ (now' = now \/ now' = now + 1)
      BY <2>4 DEF BOther, Tick, Admit, NothingTested, history
    <3> QED BY <3>1, <2>0 DEF BudgetInv
  <2>5. CASE UNCHANGED allvars
    BY <2>5 DEF allvars, vars, history, BudgetInv
  <2> QED BY <2>1, <2>2, <2>3, <2>4, <2>5 DEF BNext
<1> QED BY <1>1, <1>2, LockInvariant, HistoryOnly, PTL DEF BSpec

(* guard.rs's claim for FORGET_AFTER, of any policy whose streaks gain no  *)
(* more than it: no timing of wrong PINs outruns one per MAX_LOCKOUT by    *)
(* more than FORGET_AFTER's worth.                                         *)
THEOREM WaitingNeverGains == BSpec => []WaitingGainsNothing
<1>1. TypeOK /\ LockInv /\ BudgetInv => WaitingGainsNothing
  <2> SUFFICES ASSUME TypeOK, LockInv, BudgetInv PROVE WaitingGainsNothing
    OBVIOUS
  <2> DEFINE spent == guesses * MAX_LOCKOUT
  <2>1. /\ now \in Nat /\ since \in Nat /\ since <= now /\ guesses \in Nat
        /\ guard.failures \in 0..U32_MAX /\ FORGET_AFTER \in Nat
    BY PolicyAssumption DEF TypeOK, Guards, Time, BudgetInv
  <2>2. CASE guard.last_failure = None
    <3>1. spent = 0
      BY <2>2, PolicyAssumption DEF BudgetInv
    <3> QED BY <3>1, <2>1 DEF WaitingGainsNothing
  <2>3. CASE guard.last_failure # None
    <3>1. guard.last_failure \in Nat /\ guard.last_failure <= now
      BY <2>3, PolicyAssumption DEF TypeOK, Guards, Time, LockInv
    <3>2. Debt[guard.failures] \in Int /\ Debt[guard.failures] <= FORGET_AFTER
      BY <2>1, DebtAssumption
    <3>3. spent \in Nat
      BY <2>1, PolicyAssumption
    <3>4. spent <= guard.last_failure - since + Debt[guard.failures]
      BY <2>3 DEF BudgetInv
    <3> HIDE DEF spent
    <3>5. spent <= (now - since) + FORGET_AFTER
      BY <3>1, <3>2, <3>3, <3>4, <2>1
    <3> QED BY <3>5 DEF WaitingGainsNothing, spent
  <2> QED BY <2>2, <2>3
<1> QED BY <1>1, BudgetInvariant, PTL

(* A lockout is reported on its first refusal and only then, over every    *)
(* run: the flag record_failure clears is the one refuse sets.             *)
THEOREM ReportedOnce == BSpec => []OneLinePerLockout
<1>1. BInit => ReportInv
  <2> SUFFICES ASSUME BInit PROVE ReportInv
    OBVIOUS
  <2>1. ~locked(guard, now)
    BY DEF BInit, Init, PinGuard_default, locked, locked_for
  <2> QED BY <2>1 DEF BInit, ReportInv
<1>2. TypeOK /\ LockInv /\ ReportInv /\ [BNext]_allvars => ReportInv'
  <2> SUFFICES ASSUME TypeOK, LockInv, ReportInv, [BNext]_allvars PROVE ReportInv'
    OBVIOUS
  <2>0. now \in Nat
    BY PolicyAssumption DEF TypeOK, Time
  <2>1. CASE BRefuse
    <3>1. guard'.refusal_reported = TRUE
      BY <2>1 DEF BRefuse, Refuse, TypeOK, Guards
    <3>0. refusals \in 0..2 /\ lines = IF refusals = 0 THEN 0 ELSE 1
      BY DEF ReportInv
    <3>2. refusals' = Smaller(refusals + 1, 2) /\ locked(guard, now)
          /\ lines' = IF guard.refusal_reported THEN lines ELSE lines + 1
      BY <2>1 DEF BRefuse, Refuse
    <3>3. refusals' \in 1..2
      BY <3>2 DEF Smaller, ReportInv
    <3>4. lines' = 1
      <4>1. CASE guard.refusal_reported
        <5>1. refusals # 0
          BY <4>1, <3>2, Zenon DEF ReportInv
        <5>2. lines' = lines
          BY <4>1, <3>2
        <5> QED BY <5>1, <5>2, <3>0
      <4>2. CASE ~guard.refusal_reported
        <5>1. refusals = 0
          BY <4>2, <3>2, Zenon DEF ReportInv
        <5>2. lines' = lines + 1
          BY <4>2, <3>2
        <5> QED BY <5>1, <5>2, <3>0
      <4> QED BY <4>1, <4>2
    <3>5. refusals' \in 0..2 /\ refusals' # 0
      BY <3>3
    <3>6. guard'.refusal_reported = (refusals' # 0)
      BY <3>1, <3>5, Zenon
    <3>7. (lines = IF refusals = 0 THEN 0 ELSE 1)'
      BY <3>4, <3>5
    <3> QED BY <3>5, <3>6, <3>7, Zenon DEF ReportInv
  <2>2. CASE BWrongPin
    <3>1. /\ guard' = record_failure(guard, now) /\ now' = now
          /\ refusals' = 0 /\ lines' = 0 /\ ~locked(guard, now)
      BY <2>2 DEF BWrongPin, WrongPin, LockInv
    <3>2. guard \in Guards /\ now \in Time
      BY DEF TypeOK
    <3>3. \/ guard'.locked_until = guard.locked_until
          \/ guard'.refusal_reported = FALSE
      BY <3>1, <3>2, RecordFailure
    <3>4. CASE guard'.locked_until = guard.locked_until
      <4>1. ~locked(guard, now)'
        BY <3>1, <3>4 DEF locked, locked_for
      <4> QED BY <4>1, <3>1 DEF ReportInv
    <3>5. CASE guard'.refusal_reported = FALSE
      <4>1. (guard.refusal_reported = (refusals # 0))'
        BY <3>1, <3>5, Zenon
      <4> QED BY <4>1, <3>1 DEF ReportInv
    <3> QED BY <3>3, <3>4, <3>5
  <2>3. CASE BAccepted
    BY <2>3 DEF BAccepted, Accepted, record_success, ReportInv, PinGuard_default, locked, locked_for
  <2>4. CASE BOther
    <3>1. guard' = guard /\ UNCHANGED <<refusals, lines>> /\ (now' = now \/ now' = now + 1)
      BY <2>4 DEF BOther, Tick, Admit, NothingTested, history
    <3>2. guard.locked_until # None => guard.locked_until \in Nat
      BY DEF TypeOK, Guards
    <3>3. locked(guard, now)' => locked(guard, now)
      BY <3>1, <3>2, <2>0 DEF locked, locked_for
    <3>4. locked(guard, now)' => (guard.refusal_reported = (refusals # 0))'
      BY <3>1, <3>3, Zenon DEF ReportInv
    <3>5. (refusals \in 0..2 /\ lines = IF refusals = 0 THEN 0 ELSE 1)'
      BY <3>1 DEF ReportInv
    <3> QED BY <3>4, <3>5, Zenon DEF ReportInv
  <2>5. CASE UNCHANGED allvars
    BY <2>5 DEF allvars, vars, history, ReportInv, locked, locked_for
  <2> QED BY <2>1, <2>2, <2>3, <2>4, <2>5 DEF BNext
<1>3. ReportInv => OneLinePerLockout
  BY DEF ReportInv, OneLinePerLockout
<1> QED BY <1>1, <1>2, <1>3, LockInvariant, HistoryOnly, PTL DEF BSpec

-----------------------------------------------------------------------------
(* The paired-device list.                                                 *)

(* A function into a smaller set takes some value twice.                   *)
LEMMA Pigeons ==
  ASSUME NEW S, NEW T, NEW f, IsFiniteSet(S), IsFiniteSet(T), Cardinality(T) < Cardinality(S), f \in [S -> T]
  PROVE  \E i, j \in S : i # j /\ f[i] = f[j]
  BY FS_PigeonHole

(* Lists of devices, and the texts they are saved as.                      *)
LEMMA ListMember ==
  ASSUME NEW s \in Seq(Peers), \A i, j \in DOMAIN s : s[i].peer = s[j].peer => i = j
  PROVE  s \in Lists
<1> DEFINE n == Len(s)
           f == [i \in 1 .. n |-> s[i].peer]
<1>1. n \in Nat /\ DOMAIN s = 1 .. n /\ s \in [1 .. n -> Peers]
  OBVIOUS
<1>2. \A x \in Peers : x.peer \in Devices
  BY DEF Peers, PeerLine
<1>3. IsFiniteSet(Devices) /\ Cardinality(Devices) \in Nat
  BY StoreAssumption, FS_CardinalityType
<1>4. IsFiniteSet(1 .. n) /\ Cardinality(1 .. n) = n
  BY <1>1, FS_Interval
<1>5. f \in [1 .. n -> Devices]
  BY <1>1, <1>2
<1>6. n <= Cardinality(Devices)
  <2> SUFFICES ASSUME ~(n <= Cardinality(Devices)) PROVE FALSE
    OBVIOUS
  <2>1. Cardinality(Devices) < Cardinality(1 .. n)
    BY <1>1, <1>3, <1>4
  <2>2. \A i \in 1 .. n : f[i] = s[i].peer
    OBVIOUS
  <2> DEFINE S == 1 .. n
  <2>3. IsFiniteSet(S) /\ f \in [S -> Devices] /\ Cardinality(Devices) < Cardinality(S)
    BY <1>4, <1>5, <2>1
  <2> HIDE DEF f, S
  <2>4. \E i, j \in S : i # j /\ f[i] = f[j]
    BY <1>3, <2>3, Pigeons
  <2> QED BY <1>1, <2>2, <2>4 DEF S
<1> HIDE DEF n
<1>7. n \in 0 .. Cardinality(Devices)
  BY <1>1, <1>3, <1>6
<1> QED BY <1>1, <1>7 DEF Lists

LEMMA ListFacts ==
  ASSUME NEW s \in Lists
  PROVE  /\ s \in Seq(Peers) /\ DOMAIN s = 1 .. Len(s) /\ Len(s) \in Nat
         /\ \A i \in DOMAIN s : s[i] \in Peers /\ s[i].peer \in Devices
         /\ \A i, j \in DOMAIN s : s[i].peer = s[j].peer => i = j
<1>1. PICK n \in 0 .. Cardinality(Devices) : s \in [1 .. n -> Peers]
  BY DEF Lists
<1>2. n \in Nat
  BY <1>1, StoreAssumption, FS_CardinalityType
<1>3. s \in Seq(Peers) /\ Len(s) = n
  BY <1>1, <1>2
<1>4. \A x \in Peers : x.peer \in Devices
  BY DEF Peers, PeerLine
<1> QED BY <1>1, <1>2, <1>3, <1>4 DEF Lists

LEMMA NoDevices == <<>> \in Lists /\ Keys(<<>>) = {}
<1>1. <<>> \in Seq(Peers) /\ DOMAIN <<>> = {}
  OBVIOUS
<1> QED BY <1>1, ListMember DEF Keys

LEMMA PeerLines ==
  ASSUME NEW d \in Devices, NEW named \in BOOLEAN
  PROVE  PeerLine(d, named) \in Peers /\ PeerLine(d, named).peer = d
<1>1. PeerLine(d, named).peer = d
  BY DEF PeerLine
<1> QED BY <1>1 DEF Peers

LEMMA PairedList ==
  ASSUME NEW s \in Lists, NEW d \in Devices
  PROVE  /\ Append(Without(s, d), PeerLine(d, FALSE)) \in Lists
         /\ Keys(Append(Without(s, d), PeerLine(d, FALSE))) \subseteq Keys(s) \cup {d}
<1> DEFINE w == Without(s, d)
           x == PeerLine(d, FALSE)
<1>1. x \in Peers /\ x.peer = d
  BY PeerLines
<1>2. /\ w \in Seq(Peers)
      /\ \A i \in DOMAIN w : w[i].peer # d /\ w[i].peer \in Keys(s)
      /\ \A i, j \in DOMAIN w : w[i].peer = w[j].peer => i = j
  <2>1. CASE d \notin Keys(s)
    <3>1. w = s
      BY <2>1 DEF Without
    <3> HIDE DEF w
    <3> QED BY <2>1, <3>1, ListFacts DEF Keys
  <2>2. CASE d \in Keys(s)
    <3> DEFINE k == CHOOSE i \in DOMAIN s : s[i].peer = d
    <3>1. k \in DOMAIN s /\ s[k].peer = d
      BY <2>2 DEF Keys
    <3> DEFINE a == SubSeq(s, 1, k - 1)
               b == SubSeq(s, k + 1, Len(s))
    <3>2. w = a \o b
      BY <2>2 DEF Without
    <3> HIDE DEF k, w
    <3>3. /\ s \in Seq(Peers) /\ DOMAIN s = 1 .. Len(s) /\ Len(s) \in Nat /\ k \in 1 .. Len(s)
          /\ \A i \in 1 .. Len(s) : s[i] \in Peers
          /\ \A i, j \in 1 .. Len(s) : s[i].peer = s[j].peer => i = j
      BY <3>1, ListFacts
    <3>4. a \in Seq(Peers) /\ Len(a) = k - 1 /\ \A i \in 1 .. k - 1 : a[i] = s[i]
      BY <3>3
    <3>5. b \in Seq(Peers) /\ Len(b) = Len(s) - k /\ \A i \in 1 .. Len(s) - k : b[i] = s[k + i]
      <4> DEFINE m == k + 1
                 l == Len(s)
      <4>1. m \in Nat /\ l \in Nat /\ m <= l + 1 /\ 1 <= m /\ l - m + 1 = l - k
        BY <3>3
      <4>2. \A i \in m .. l : s[i] \in Peers
        BY <3>3
      <4> HIDE DEF m, l
      <4>3. SubSeq(s, m, l) \in Seq(Peers) /\ Len(SubSeq(s, m, l)) = l - m + 1
            /\ \A i \in 1 .. l - m + 1 : SubSeq(s, m, l)[i] = s[i + m - 1]
        BY <3>3, <4>1, <4>2
      <4>4. \A i \in 1 .. l - k : i + m - 1 \in m .. l /\ i + m - 1 = k + i
        BY <3>3, <4>1 DEF m
      <4>5. \A i \in 1 .. l - k : SubSeq(s, m, l)[i] = s[k + i]
        BY <4>1, <4>3, <4>4
      <4> QED BY <4>1, <4>3, <4>5 DEF m, l
    <3> HIDE DEF a, b
    <3>6. /\ w \in Seq(Peers) /\ Len(w) = Len(s) - 1 /\ DOMAIN w = 1 .. Len(s) - 1
          /\ \A i \in 1 .. Len(s) - 1 : w[i] = IF i < k THEN s[i] ELSE s[i + 1]
      <4>1. w \in Seq(Peers) /\ Len(w) = Len(a) + Len(b) /\ DOMAIN w = 1 .. Len(w)
        <5>1. a \o b \in Seq(Peers)
          BY <3>4, <3>5
        <5>2. Len(a \o b) = Len(a) + Len(b)
          BY <3>4, <3>5
        <5> QED BY <3>2, <5>1, <5>2
      <4>2. \A i \in 1 .. Len(a) + Len(b) : w[i] = IF i <= Len(a) THEN a[i] ELSE b[i - Len(a)]
        BY <3>2, <3>4, <3>5
      <4>3. Len(a) + Len(b) = Len(s) - 1
        BY <3>3, <3>4, <3>5
      <4>4. ASSUME NEW i \in 1 .. Len(s) - 1
            PROVE  w[i] = IF i < k THEN s[i] ELSE s[i + 1]
        <5>1. CASE i < k
          BY <3>3, <3>4, <4>2, <4>3, <5>1
        <5>2. CASE ~(i < k)
          <6>1. i - (k - 1) \in 1 .. Len(s) - k /\ ~(i <= k - 1) /\ k + (i - (k - 1)) = i + 1
            BY <3>3, <5>2
          <6> QED BY <3>4, <3>5, <4>2, <4>3, <5>2, <6>1, SMTT(30)
        <5> QED BY <5>1, <5>2
      <4> QED BY <4>1, <4>3, <4>4
    <3>7. \A i \in DOMAIN w : \E j \in 1 .. Len(s) :
            w[i] = s[j] /\ j = (IF i < k THEN i ELSE i + 1) /\ j # k
      BY <3>3, <3>6
    <3>8. \A i \in DOMAIN w : w[i].peer # d /\ w[i].peer \in Keys(s)
      BY <3>1, <3>3, <3>7 DEF Keys
    <3>9. \A i, j \in DOMAIN w : w[i].peer = w[j].peer => i = j
      <4> TAKE i, j \in DOMAIN w
      <4> HAVE w[i].peer = w[j].peer
      <4>1. (IF i < k THEN i ELSE i + 1) = (IF j < k THEN j ELSE j + 1)
        BY <3>3, <3>7
      <4> QED BY <3>3, <3>6, <4>1
    <3> QED BY <3>6, <3>8, <3>9
  <2> QED BY <2>1, <2>2
<1> HIDE DEF w, x
<1> DEFINE r == Append(w, x)
<1>3. /\ r \in Seq(Peers) /\ DOMAIN r = 1 .. Len(w) + 1 /\ r[Len(w) + 1] = x
      /\ \A i \in 1 .. Len(w) : r[i] = w[i] /\ i \in DOMAIN w
      /\ Len(w) \in Nat
  BY <1>1, <1>2
<1> HIDE DEF r
<1>4. \A i \in DOMAIN r : (i \in DOMAIN w /\ r[i] = w[i]) \/ (i = Len(w) + 1 /\ r[i] = x)
  <2> DEFINE n == Len(w)
  <2>1. n \in Nat /\ DOMAIN r = 1 .. n + 1 /\ \A i \in 1 .. n : r[i] = w[i] /\ i \in DOMAIN w
    BY <1>3
  <2>2. r[n + 1] = x
    BY <1>3
  <2> HIDE DEF n
  <2>3. \A i \in 1 .. n + 1 : i \in 1 .. n \/ i = n + 1
    BY <2>1
  <2> QED BY <2>1, <2>2, <2>3 DEF n
<1>5. r \in Lists
  <2>1. \A i, j \in DOMAIN r : r[i].peer = r[j].peer => i = j
    BY <1>1, <1>2, <1>4
  <2> QED BY <1>3, <2>1, ListMember
<1>6. Keys(r) \subseteq Keys(s) \cup {d}
  BY <1>1, <1>2, <1>4 DEF Keys
<1> QED BY <1>5, <1>6 DEF r, w, x

LEMMA RenamedList ==
  ASSUME NEW s \in Lists, NEW d \in Devices
  PROVE  Renamed(s, d) \in Lists /\ Keys(Renamed(s, d)) = Keys(s)
<1> DEFINE r == Renamed(s, d)
<1>1. s \in Seq(Peers) /\ DOMAIN s = 1 .. Len(s) /\ Len(s) \in Nat /\ \A i \in DOMAIN s : s[i] \in Peers
  BY ListFacts
<1>2. PeerLine(d, TRUE) \in Peers /\ PeerLine(d, TRUE).peer = d
  BY PeerLines
<1>3. DOMAIN r = DOMAIN s /\ \A i \in DOMAIN s : r[i] \in Peers /\ r[i].peer = s[i].peer
  BY <1>1, <1>2 DEF Renamed
<1>4. r \in Seq(Peers)
  <2>1. r \in [1 .. Len(s) -> Peers]
    BY <1>1, <1>2 DEF Renamed
  <2> QED BY <1>1, <2>1
<1> HIDE DEF r
<1>5. r \in Lists
  BY <1>3, <1>4, ListFacts, ListMember
<1>6. Keys(r) = Keys(s)
  BY <1>3 DEF Keys
<1> QED BY <1>5, <1>6 DEF r

LEMMA LineKinds ==
  /\ \A x \in Peers : x \in Lines /\ x # Torn /\ x # Rejected
  /\ \A i \in 1 .. MaxIds : IdentityLine(i) \in Lines /\ IdentityLine(i) # Torn /\ IdentityLine(i) # Rejected
                            /\ IdentityLine(i).identity = i
  /\ Torn \in Lines /\ Rejected \in Lines
<1>1. \A i : DOMAIN IdentityLine(i) = {"identity"} /\ IdentityLine(i).identity = i
  BY DEF IdentityLine
<1>2. \A x \in Peers : DOMAIN x = {"peer", "named"}
  BY DEF Peers, PeerLine
<1>3. DOMAIN Torn = {"torn"} /\ DOMAIN Rejected = {"rejected"}
  BY DEF Torn, Rejected
<1> QED BY <1>1, <1>2, <1>3 DEF Lines

LEMMA TextFacts ==
  ASSUME NEW i \in 1 .. MaxIds, NEW s \in Lists
  PROVE  /\ TextOf(i, s) \in Texts /\ TextOf(i, s) \in Seq(Lines) /\ TextOf(i, s) # <<>>
         /\ TextOf(i, s)[1].identity = i /\ Tail(TextOf(i, s)) = s
         /\ Parses(TextOf(i, s)) /\ TextOf(i, s) # Corrupt
<1> DEFINE t == TextOf(i, s)
<1>1. s \in Seq(Peers) /\ Len(s) \in Nat /\ DOMAIN s = 1 .. Len(s)
  BY ListFacts
<1>2. s \in Seq(Lines)
  BY <1>1, LineKinds
<1>3. /\ t \in Seq(Lines) /\ Len(t) = Len(s) + 1 /\ t[1] = IdentityLine(i)
      /\ \A j \in 2 .. Len(s) + 1 : t[j] = s[j - 1]
  BY <1>1, <1>2, LineKinds DEF TextOf
<1>4. Tail(t) = s
  BY <1>1, <1>2, <1>3
<1>5. t \in Texts
  BY DEF Texts
<1> HIDE DEF t
<1>6. t # <<>> /\ DOMAIN t = 1 .. Len(t)
  BY <1>1, <1>3
<1>7. ASSUME NEW j \in DOMAIN t PROVE t[j] \notin {Torn, Rejected}
  <2>1. CASE j = 1
    BY <1>3, <2>1, LineKinds
  <2>2. CASE j # 1
    <3>1. j \in 2 .. Len(s) + 1 /\ j - 1 \in DOMAIN s
      BY <1>1, <1>3, <1>6, <2>2
    <3> QED BY <1>1, <1>3, <3>1, LineKinds
  <2> QED BY <2>1, <2>2
<1>8. Parses(t)
  BY <1>6, <1>7 DEF Parses
<1>9. t # Corrupt
  BY <1>3, LineKinds DEF Corrupt
<1> QED BY <1>3, <1>4, <1>5, <1>6, <1>8, <1>9, LineKinds DEF t

LEMMA TextsAre ==
  ASSUME NEW t \in Texts
  PROVE  /\ t \in Seq(Lines) /\ t # <<>> /\ Parses(t) /\ t # Corrupt
         /\ t[1].identity \in 1 .. MaxIds /\ Tail(t) \in Lists
         /\ t = TextOf(t[1].identity, Tail(t))
<1>1. PICK i \in 1 .. MaxIds, s \in Lists : t = TextOf(i, s)
  BY DEF Texts
<1> QED BY <1>1, TextFacts

LEMMA CorruptFacts == Corrupt \in Seq(Lines) /\ Corrupt # <<>> /\ ~Parses(Corrupt)
<1>1. Corrupt \in Seq(Lines) /\ Corrupt # <<>> /\ 1 \in DOMAIN Corrupt /\ Corrupt[1] = Rejected
  BY LineKinds DEF Corrupt
<1> QED BY <1>1 DEF Parses

(***************************************************************************)
(* The inductive invariant.  Readers' promises rest on what each save in   *)
(* progress has done so far, on whose identity each thread holds, and on   *)
(* which lists may yet be written back.                                    *)
(***************************************************************************)
Loops ==
  [at : Places, dev : Devices \cup {NoFile}, then : {"idle", "pairing", "known", "naming"},
   backed : BOOLEAN, id : Nat, peers : Lists]
Saves ==
  [step : {"none", "open", "write", "sync", "rename", "done", "failed"},
   text : Texts \cup {<<>>}, fd : Inodes \cup {NoFile}]

StoreShape ==
  /\ dir \in [path : Inodes \cup {NoFile}, tmp : Inodes \cup {NoFile}]
  /\ dir.path = dir.tmp => dir.path = NoFile
  /\ data \in [Inodes -> Seq(Lines)]
  /\ synced \subseteq Inodes
  /\ save \in [Procs -> Saves]
  /\ loop \in Loops
  /\ panel \in {"idle", "creating", "forgetting"}
  /\ minted \in Nat /\ faults \in 0 .. MaxFaults
  /\ removed \in BOOLEAN
  /\ fate \in [Devices -> {"no", "firm", "raced", "undone"}]

(* The device a connection is of.                                          *)
LoopPlace ==
  /\ loop.at \notin {"down", "creating", "idle"} => loop.dev \in Devices
  /\ loop.at = "reloading" => loop.then \in {"pairing", "known", "naming"}
  /\ loop.at = "creating" => loop.backed
  /\ loop.backed => loop.id \in 1 .. minted
  /\ Writing("loop") => loop.at \in {"creating", "reloading", "remembering", "renaming"}
  /\ Writing("panel") => panel # "idle"

(* One save at a time, and what it has done so far.                        *)
SaveProgress ==
  /\ \A p, q \in Procs : Writing(p) /\ Writing(q) => p = q
  /\ \A p \in Procs :
       /\ Writing(p) => save[p].text \in Texts /\ save[p].text[1].identity \in 1 .. minted
       /\ IF save[p].step \in {"write", "sync", "rename"}
          THEN dir.tmp # NoFile /\ save[p].fd = dir.tmp
          ELSE save[p].fd = NoFile
       /\ save[p].step = "write" => data[dir.tmp] = <<>>
       /\ save[p].step \in {"sync", "rename"} => data[dir.tmp] = save[p].text
       /\ save[p].step = "rename" => dir.tmp \in synced

(* The file is whole and durable; only the remembering of a device saves   *)
(* over one that does not parse.                                           *)
FileWhole ==
  /\ ~Missing => dir.path \in synced /\ Content \in Files
  /\ Readable => DiskIdentity \in 1 .. minted
  /\ Content = Corrupt => /\ ~Writing("panel") /\ (Writing("loop") => loop.at = "remembering")
                          /\ loop.backed => ~InRename

(* An identity is minted for want of a file, once for each way to lose it. *)
MintedFew ==
  /\ minted <= 1 + faults
  /\ Missing /\ (\A p \in Procs : ~Writing(p)) => minted <= faults

(* The loop's store belongs to the file, or to the one it is creating.     *)
Belongs == loop.backed /\ ~(loop.at = "creating" /\ save["loop"].step = "failed")
OneIdentity ==
  /\ loop.backed /\ Writing("loop") => save["loop"].text[1].identity = loop.id
  /\ ~removed =>
       /\ Belongs => IF Missing THEN loop.at = "creating" /\ Writing("loop")
                                ELSE Readable => loop.id = DiskIdentity
       /\ \A p \in Procs : Writing(p) /\ Readable => save[p].text[1].identity = DiskIdentity

(* A device firmly forgotten is in no list that may yet be written or      *)
(* admitted from.                                                          *)
FirmlyOff ==
  /\ \A d \in Devices : fate[d] = "firm" =>
       /\ ~Listed(d)
       /\ \A p \in Procs : Writing(p) => d \notin Keys(Tail(save[p].text))
       /\ loop.backed /\ InHand(d) => d \notin Keys(loop.peers)
  /\ Writing("panel") => Tail(save["panel"].text) = <<>>
  /\ Writing("loop") /\ loop.at = "creating" => Tail(save["loop"].text) = <<>>

StoreInv == StoreShape /\ LoopPlace /\ SaveProgress /\ FileWhole /\ MintedFew /\ OneIdentity /\ FirmlyOff

(* What a power cut may bring back: whole files of the same identity.      *)
EarlierWhole ==
  /\ earlier \subseteq Files \cup {NoFile}
  /\ \A t \in earlier : t \in Texts => t[1].identity \in 1 .. minted
  /\ ~removed /\ Missing => earlier = {}
  /\ ~removed /\ Readable => \A t \in earlier : t \in Texts => t[1].identity = DiskIdentity
  /\ Content = Corrupt => earlier = {}

(* Faults are counted up to the bound.                                     *)
Tallied == faults' \in 0 .. MaxFaults /\ faults <= faults'

-----------------------------------------------------------------------------
(* What the invariant says of the file.                                    *)
LEMMA Bounds == MaxIds \in Nat /\ MaxFaults \in Nat /\ MaxIds >= 1 + MaxFaults
  BY StoreAssumption DEF MaxIds

LEMMA Grows ==
  ASSUME NEW a \in Nat, NEW b \in Nat, NEW c \in Nat, a <= 1 + b, b <= c
  PROVE  a <= 1 + c /\ (a <= b => a <= c)
  OBVIOUS

LEMMA FileFacts ==
  ASSUME StoreInv
  PROVE  /\ Readable <=> ~Missing /\ Content # Corrupt
         /\ Readable => /\ Content \in Texts /\ Content = data[dir.path] /\ dir.path \in Inodes
                        /\ DiskPeers = Tail(Content) /\ DiskPeers \in Lists
                        /\ DiskIdentity = Content[1].identity
         /\ ~Readable => DiskPeers = <<>>
         /\ \A i \in 1 .. minted : i \in 1 .. MaxIds
         /\ Missing /\ (\A p \in Procs : ~Writing(p)) => minted + 1 \in 1 .. MaxIds
<1> USE DEF StoreInv
<1>1. ~Missing => Content = data[dir.path] /\ dir.path \in Inodes /\ Content \in Texts \cup {Corrupt}
  BY DEF StoreShape, FileWhole, Missing, Content, Files
<1>2. Readable <=> ~Missing /\ Content # Corrupt
  BY <1>1, TextsAre, CorruptFacts DEF Readable
<1>3. Readable => DiskPeers = Tail(Content) /\ DiskPeers \in Lists /\ DiskIdentity = Content[1].identity
  BY <1>1, <1>2, TextsAre DEF DiskPeers, DiskIdentity
<1>4. ~Readable => DiskPeers = <<>>
  BY DEF DiskPeers
<1>5. minted \in Nat /\ faults \in Nat /\ faults <= MaxFaults /\ minted <= 1 + faults
  BY Bounds DEF StoreShape, MintedFew
<1>6. \A i \in 1 .. minted : i \in 1 .. MaxIds
  BY <1>5, Bounds
<1>7. Missing /\ (\A p \in Procs : ~Writing(p)) => minted + 1 \in 1 .. MaxIds
  BY <1>5, Bounds DEF MintedFew
<1> QED BY <1>1, <1>2, <1>3, <1>4, <1>6, <1>7

LEMMA SameTally == ASSUME StoreInv, UNCHANGED faults PROVE Tallied
  BY Bounds DEF StoreInv, StoreShape, Tallied

LEMMA FaultTally == ASSUME StoreInv, Fault PROVE Tallied
  BY Bounds DEF StoreInv, StoreShape, Tallied, Fault

LEMMA FileSame ==
  ASSUME UNCHANGED <<dir, data>>
  PROVE  /\ Missing' = Missing /\ Content' = Content /\ Readable' = Readable
         /\ DiskPeers' = DiskPeers /\ DiskIdentity' = DiskIdentity
         /\ \A d : Listed(d)' <=> Listed(d)
<1>1. Missing' = Missing /\ Content' = Content
  BY DEF Missing, Content
<1>2. Readable' = Readable
  BY <1>1 DEF Readable, Parses
<1>3. DiskPeers' = DiskPeers /\ DiskIdentity' = DiskIdentity
  BY <1>1, <1>2 DEF DiskPeers, DiskIdentity
<1> QED BY <1>1, <1>2, <1>3 DEF Listed, Keys

(* Beginning and ending a save.                                            *)
LEMMA Begun ==
  ASSUME save \in [Procs -> Saves], NEW p \in Procs, NEW t \in Texts, BeginSave(p, t)
  PROVE  /\ save' \in [Procs -> Saves]
         /\ save'[p] = [step |-> "open", text |-> t, fd |-> NoFile] /\ Writing(p)'
         /\ \A q \in Procs : q # p => save'[q] = save[q] /\ (Writing(q)' <=> Writing(q))
<1>1. [step |-> "open", text |-> t, fd |-> NoFile] \in Saves
  BY DEF Saves
<1>2. /\ save' \in [Procs -> Saves] /\ save'[p] = [step |-> "open", text |-> t, fd |-> NoFile]
      /\ \A q \in Procs : q # p => save'[q] = save[q]
  BY <1>1 DEF BeginSave
<1> QED BY <1>2 DEF Writing

LEMMA EndedSave ==
  ASSUME save \in [Procs -> Saves], NEW p \in Procs, NEW how \in {"none", "done", "failed"}, EndSave(p, how)
  PROVE  /\ save' \in [Procs -> Saves] /\ save'[p].step = how /\ save'[p].fd = NoFile /\ ~Writing(p)'
         /\ \A q \in Procs : q # p => save'[q] = save[q] /\ (Writing(q)' <=> Writing(q))
<1> DEFINE n == [NotSaving EXCEPT !.step = how]
<1>1. n \in Saves /\ n.step = how /\ n.fd = NoFile
  BY DEF Saves, NotSaving
<1>2. save' = [save EXCEPT ![p] = n]
  BY DEF EndSave
<1> HIDE DEF n
<1>3. /\ save' \in [Procs -> Saves] /\ save'[p] = n
      /\ \A q \in Procs : q # p => save'[q] = save[q]
  BY <1>1, <1>2
<1> QED BY <1>1, <1>3 DEF Writing

(* No save begins and none under way is touched.                           *)
Quiet == /\ save' \in [Procs -> Saves]
         /\ \A p \in Procs : (Writing(p)' <=> Writing(p)) /\ (Writing(p) => save'[p] = save[p])
                              /\ (~Writing(p) => save'[p].fd = NoFile)

LEMMA SeenQuiet ==
  ASSUME StoreInv, NEW p \in Procs, Seen(p)
  PROVE  Quiet /\ ~Writing(p) /\ save'[p].step = "none"
<1>1. save \in [Procs -> Saves]
  BY DEF StoreInv, StoreShape
<1>2. ~Writing(p) /\ EndSave(p, "none")
  BY DEF Seen, Returned, Writing
<1>3. \A q \in Procs : Writing(q) \/ save[q].fd = NoFile
  BY DEF StoreInv, SaveProgress, Writing
<1>4. /\ save' \in [Procs -> Saves] /\ save'[p].step = "none" /\ save'[p].fd = NoFile /\ ~Writing(p)'
      /\ \A q \in Procs : q # p => save'[q] = save[q] /\ (Writing(q)' <=> Writing(q))
  BY <1>1, <1>2, EndedSave
<1> QED BY <1>2, <1>3, <1>4 DEF Quiet

LEMMA SameQuiet == ASSUME StoreInv, UNCHANGED save PROVE Quiet
  BY DEF StoreInv, StoreShape, SaveProgress, Quiet, Writing

LEMMA QuietStep ==
  ASSUME StoreInv, UNCHANGED <<dir, data, synced, minted, removed>>, Tallied, Quiet,
         loop' \in Loops, fate' \in [Devices -> {"no", "firm", "raced", "undone"}],
         panel' \in {"idle", "creating", "forgetting"},
         Writing("panel") => panel' # "idle",
         loop'.at \notin {"down", "creating", "idle"} => loop'.dev \in Devices,
         loop'.at = "reloading" => loop'.then \in {"pairing", "known", "naming"},
         loop'.at = "creating" => loop'.backed,
         Writing("loop") => loop'.at \in {"creating", "reloading", "remembering", "renaming"},
         Writing("loop") => loop'.at = loop.at,
         loop'.backed => loop'.id \in 1 .. minted,
         loop'.backed /\ Content = Corrupt => ~InRename'
  PROVE  StoreShape' /\ LoopPlace' /\ SaveProgress' /\ FileWhole' /\ MintedFew'
<1> USE DEF StoreInv
<1>1. UNCHANGED <<dir, data, synced, minted, removed>>
  OBVIOUS
<1>2. StoreShape'
  BY <1>1 DEF StoreShape, Quiet, Tallied
<1>3. \A p \in Procs : (Writing(p)' <=> Writing(p)) /\ (Writing(p) => save'[p] = save[p])
                       /\ (~Writing(p) => save'[p].fd = NoFile)
  BY DEF Quiet
<1>4. LoopPlace'
  BY <1>1, <1>3 DEF LoopPlace, Procs
<1>5. \A p \in Procs : (save[p].step \in {"write", "sync", "rename"} <=> save'[p].step \in {"write", "sync", "rename"})
                       /\ (save'[p].step \in {"write", "sync", "rename"} => save'[p] = save[p])
  BY <1>3 DEF Writing
<1>6. SaveProgress'
  <2>1. \A p, q \in Procs : Writing(p)' /\ Writing(q)' => p = q
    BY <1>3 DEF SaveProgress
  <2>2. ASSUME NEW p \in Procs
        PROVE  /\ Writing(p)' => save'[p].text \in Texts /\ save'[p].text[1].identity \in 1 .. minted'
               /\ IF save'[p].step \in {"write", "sync", "rename"}
                  THEN dir'.tmp # NoFile /\ save'[p].fd = dir'.tmp
                  ELSE save'[p].fd = NoFile
               /\ save'[p].step = "write" => data'[dir'.tmp] = <<>>
               /\ save'[p].step \in {"sync", "rename"} => data'[dir'.tmp] = save'[p].text
               /\ save'[p].step = "rename" => dir'.tmp \in synced'
    <3>1. CASE Writing(p)
      BY <1>1, <1>3, <3>1 DEF SaveProgress
    <3>2. CASE ~Writing(p)
      <4>1. save'[p].step \notin {"open", "write", "sync", "rename"} /\ save'[p].fd = NoFile
        BY <1>3, <3>2 DEF Writing
      <4> QED BY <1>3, <3>2, <4>1
    <3> QED BY <3>1, <3>2
  <2> QED BY <2>1, <2>2 DEF SaveProgress
<1>7. Missing' = Missing /\ Content' = Content /\ Readable' = Readable /\ DiskIdentity' = DiskIdentity
  BY <1>1, FileSame
<1>8. FileWhole'
  <2>1. (Writing("loop")' <=> Writing("loop")) /\ (Writing("panel")' <=> Writing("panel"))
    BY <1>3 DEF Procs
  <2> QED BY <1>1, <1>7, <2>1 DEF FileWhole
<1>9. MintedFew'
  <2>1. minted \in Nat /\ faults \in Nat /\ faults' \in Nat /\ faults <= faults'
    BY Bounds DEF StoreShape, Tallied
  <2>2. minted <= 1 + faults
    BY DEF MintedFew
  <2>3. minted <= 1 + faults' /\ (minted <= faults => minted <= faults')
    BY <2>1, <2>2, Grows
  <2>4. Missing' /\ (\A p \in Procs : ~Writing(p)') => minted <= faults'
    BY <1>3, <1>7, <2>3 DEF MintedFew
  <2> QED BY <1>1, <2>3, <2>4 DEF MintedFew
<1> QED BY <1>2, <1>4, <1>6, <1>8, <1>9

(* A save begins, when nobody is in one.                                   *)
LEMMA BeginStep ==
  ASSUME StoreInv, UNCHANGED <<dir, data, synced, removed>>, Tallied, \A q \in Procs : ~Writing(q),
         NEW p \in Procs, NEW t \in Texts, BeginSave(p, t),
         Content = Corrupt => p = "loop" /\ loop'.at = "remembering",
         minted' = minted \/ (minted' = minted + 1 /\ Missing), t[1].identity \in 1 .. minted',
         loop' \in Loops, fate' \in [Devices -> {"no", "firm", "raced", "undone"}],
         panel' \in {"idle", "creating", "forgetting"},
         p = "panel" => panel' # "idle",
         loop'.at \notin {"down", "creating", "idle"} => loop'.dev \in Devices,
         loop'.at = "reloading" => loop'.then \in {"pairing", "known", "naming"},
         loop'.at = "creating" => loop'.backed,
         p = "loop" => loop'.at \in {"creating", "reloading", "remembering", "renaming"},
         loop'.backed => loop'.id \in 1 .. minted'
  PROVE  StoreShape' /\ LoopPlace' /\ SaveProgress' /\ FileWhole' /\ MintedFew'
<1> USE DEF StoreInv
<1>1. UNCHANGED <<dir, data, synced, removed>>
  OBVIOUS
<1>2. /\ save' \in [Procs -> Saves]
      /\ save'[p].step = "open" /\ save'[p].text = t /\ save'[p].fd = NoFile /\ Writing(p)'
      /\ \A q \in Procs : q # p => save'[q] = save[q] /\ ~Writing(q)'
  <2>1. save \in [Procs -> Saves]
    BY DEF StoreShape
  <2>2. /\ save' \in [Procs -> Saves]
        /\ save'[p] = [step |-> "open", text |-> t, fd |-> NoFile] /\ Writing(p)'
        /\ \A q \in Procs : q # p => save'[q] = save[q] /\ (Writing(q)' <=> Writing(q))
    BY <2>1, Begun
  <2> QED BY <2>2
<1>3. minted \in Nat /\ minted' \in Nat /\ minted <= minted' /\ (minted' # minted => Missing /\ minted' = minted + 1)
  BY DEF StoreShape
<1>4. StoreShape'
  BY <1>1, <1>2, <1>3 DEF StoreShape, Tallied
<1>5. LoopPlace'
  <2>1. "loop" \in Procs /\ "panel" \in Procs
    BY DEF Procs
  <2>2. Writing("loop")' => p = "loop"
    BY <1>2, <2>1
  <2>3. Writing("panel")' => p = "panel"
    BY <1>2, <2>1
  <2> QED BY <2>2, <2>3 DEF LoopPlace
<1>6. SaveProgress'
  <2>1. \A q, r \in Procs : Writing(q)' /\ Writing(r)' => q = r
    BY <1>2
  <2>2. \A q \in Procs : q # p => save'[q].step \notin {"open", "write", "sync", "rename"}
    BY <1>2 DEF Writing
  <2>3. ASSUME NEW q \in Procs
        PROVE  /\ Writing(q)' => save'[q].text \in Texts /\ save'[q].text[1].identity \in 1 .. minted'
               /\ save'[q].step \notin {"write", "sync", "rename"} /\ save'[q].fd = NoFile
    <3>1. CASE q = p
      BY <1>2, <3>1
    <3>2. CASE q # p
      <4>1. save[q].fd = NoFile
        BY DEF SaveProgress, Writing
      <4> QED BY <1>2, <2>2, <3>2, <4>1
    <3> QED BY <3>1, <3>2
  <2> QED BY <2>1, <2>3 DEF SaveProgress
<1>7. Missing' = Missing /\ Content' = Content /\ Readable' = Readable /\ DiskIdentity' = DiskIdentity
  BY <1>1, FileSame
<1>8. FileWhole'
  <2>1. Readable => DiskIdentity \in 1 .. minted'
    BY <1>3 DEF FileWhole
  <2>2. ASSUME Content = Corrupt
        PROVE  /\ ~Writing("panel")' /\ (Writing("loop")' => loop'.at = "remembering")
               /\ loop'.backed => ~InRename'
    <3>1. p = "loop" /\ loop'.at = "remembering" /\ "panel" \in Procs /\ "panel" # "loop"
      BY <2>2 DEF Procs
    <3> QED BY <1>2, <3>1 DEF InRename
  <2> QED BY <1>1, <1>7, <2>1, <2>2 DEF FileWhole
<1>9. MintedFew'
  <2>1. faults \in Nat /\ faults' \in Nat /\ faults <= faults'
    BY Bounds DEF StoreShape, Tallied
  <2>2. minted <= 1 + faults /\ (Missing => minted <= faults)
    BY DEF MintedFew
  <2>3. minted' <= 1 + faults'
    BY <1>3, <2>1, <2>2
  <2>4. ~(\A r \in Procs : ~Writing(r)')
    BY <1>2
  <2> QED BY <2>3, <2>4 DEF MintedFew
<1> QED BY <1>4, <1>5, <1>6, <1>8, <1>9

-----------------------------------------------------------------------------
(* The steps of a save.                                                    *)
(* While one save goes on, the other thread's is none.                     *)
LEMMA OneWriter ==
  ASSUME StoreInv, NEW p \in Procs, Writing(p)
  PROVE  /\ \A q \in Procs : q # p => ~Writing(q)
         /\ save \in [Procs -> Saves] /\ save[p].text \in Texts
  BY DEF StoreInv, SaveProgress, FileWhole, StoreShape

(* What a step of a save keeps: everything about the loop and the panel.   *)
LEMMA SaveMoves ==
  ASSUME StoreInv, NEW p \in Procs, Writing(p), Writing(p)', save'[p].text = save[p].text,
         save' \in [Procs -> Saves], \A q \in Procs : q # p => save'[q] = save[q],
         dir'.path = dir.path, dir' \in [path : Inodes \cup {NoFile}, tmp : Inodes \cup {NoFile}],
         data' \in [Inodes -> Seq(Lines)], \A i \in Inodes : i = dir.path => data'[i] = data[i],
         UNCHANGED <<loop, panel, minted, past>>
  PROVE  /\ \A q \in Procs : Writing(q)' <=> q = p
         /\ LoopPlace' /\ MintedFew' /\ OneIdentity' /\ FirmlyOff'
         /\ Missing' = Missing /\ Content' = Content /\ Readable' = Readable /\ DiskIdentity' = DiskIdentity
<1> USE DEF StoreInv
<1>1. UNCHANGED <<fate, removed, faults>>
  BY DEF past
<1>2. \A q \in Procs : q # p => ~Writing(q) /\ ~Writing(q)' /\ save'[q] = save[q]
  <2>1. \A q \in Procs : q # p => ~Writing(q)
    BY OneWriter
  <2> QED BY <2>1 DEF Writing
<1>3. Missing' = Missing /\ Content' = Content
  BY DEF Missing, Content, StoreShape
<1>4. Readable' = Readable
  BY <1>3 DEF Readable, Parses
<1>5. DiskPeers' = DiskPeers /\ DiskIdentity' = DiskIdentity
  BY <1>3, <1>4 DEF DiskPeers, DiskIdentity
<1>6. \A d \in Devices : (Listed(d)' <=> Listed(d)) /\ (InHand(d)' <=> InHand(d))
  BY <1>5 DEF Listed, Keys, InHand
<1>7. \A q \in Procs : Writing(q)' <=> q = p
  BY <1>2
<1>8. "loop" \in Procs /\ "panel" \in Procs
  BY DEF Procs
<1>9. LoopPlace'
  BY <1>2, <1>8 DEF LoopPlace
<1>10. MintedFew'
  BY <1>1, <1>2, <1>3 DEF MintedFew
<1>11. save["loop"].step = "failed" <=> save'["loop"].step = "failed"
  BY <1>2, <1>8 DEF Writing
<1>12. Belongs' <=> Belongs
  BY <1>11 DEF Belongs
<1>13. \A q \in Procs : Writing(q)' => Writing(q) /\ save'[q].text = save[q].text
  BY <1>2
<1>a. \A q \in Procs : Writing(q) => Writing(q)'
  BY <1>2
<1>b. loop'.backed /\ Writing("loop")' => save'["loop"].text[1].identity = loop'.id
  BY <1>8, <1>13 DEF OneIdentity
<1>14. OneIdentity'
  <2> SUFFICES ASSUME ~removed PROVE OneIdentity'
    BY <1>1, <1>b DEF OneIdentity
  <2>1. Belongs' => IF Missing' THEN loop'.at = "creating" /\ Writing("loop")'
                               ELSE Readable' => loop'.id = DiskIdentity'
    BY <1>3, <1>4, <1>5, <1>8, <1>12, <1>13, <1>a DEF OneIdentity
  <2>2. \A q \in Procs : Writing(q)' /\ Readable' => save'[q].text[1].identity = DiskIdentity'
    BY <1>4, <1>5, <1>13 DEF OneIdentity
  <2> QED BY <1>b, <2>1, <2>2 DEF OneIdentity
<1>15. FirmlyOff'
  <2>1. ASSUME NEW d \in Devices, fate'[d] = "firm"
        PROVE /\ ~Listed(d)'
              /\ \A q \in Procs : Writing(q)' => d \notin Keys(Tail(save'[q].text))
              /\ loop'.backed /\ InHand(d)' => d \notin Keys(loop'.peers)
    BY <1>1, <1>6, <1>13, <2>1 DEF FirmlyOff
  <2>2. /\ Writing("panel")' => Tail(save'["panel"].text) = <<>>
        /\ Writing("loop")' /\ loop'.at = "creating" => Tail(save'["loop"].text) = <<>>
    BY <1>8, <1>13 DEF FirmlyOff
  <2> QED BY <2>1, <2>2 DEF FirmlyOff, Keys
<1> QED BY <1>3, <1>4, <1>5, <1>7, <1>9, <1>10, <1>14, <1>15

(* The file that open(tmp) opens is not the one readers read.              *)
Opened == IF dir.tmp = NoFile THEN FreeInode ELSE dir.tmp

LEMMA TmpIsOther ==
  ASSUME StoreInv, NEW p \in Procs, save[p].step = "open" PROVE Opened \in Inodes /\ Opened # dir.path
<1>1. StoreShape /\ SaveProgress
  BY DEF StoreInv
<1>2. \A q \in Procs : q # p => ~Writing(q)
  BY OneWriter DEF Writing
<1>3. CASE dir.tmp # NoFile
  BY <1>1, <1>3 DEF StoreShape, Opened
<1>4. CASE dir.tmp = NoFile
  <2>1. \A q \in Procs : save[q].fd = NoFile
    BY <1>1, <1>2 DEF SaveProgress, Writing
  <2>2. save["loop"].fd = NoFile /\ save["panel"].fd = NoFile
    BY <2>1 DEF Procs
  <2>3. \E j \in Inodes : j \notin {dir.path, dir.tmp, save["loop"].fd, save["panel"].fd}
    BY <1>4, <2>2, StoreAssumption
  <2> QED BY <1>4, <2>3 DEF FreeInode, Opened
<1> QED BY <1>3, <1>4

LEMMA OpenKeeps == ASSUME StoreInv, NEW p \in Procs, SaveOpen(p) PROVE StoreInv'
<1> DEFINE i == IF dir.tmp = NoFile THEN FreeInode ELSE dir.tmp
<1>1. /\ save[p].step = "open" /\ dir' = [dir EXCEPT !.tmp = i] /\ data' = [data EXCEPT ![i] = <<>>]
      /\ synced' = synced \ {i} /\ save' = [save EXCEPT ![p].step = "write", ![p].fd = i]
      /\ UNCHANGED <<loop, panel, minted, past>>
  BY DEF SaveOpen
<1>2. Writing(p)
  BY <1>1 DEF Writing
<1>3. /\ \A q \in Procs : q # p => ~Writing(q)
      /\ save \in [Procs -> Saves] /\ save[p].text \in Texts
  BY <1>2, OneWriter
<1>4. StoreShape /\ SaveProgress /\ FileWhole
  BY DEF StoreInv
<1>5. i \in Inodes /\ i # dir.path
  BY <1>1, TmpIsOther DEF Opened
<1> HIDE DEF i
<1>6. dir.path \in Inodes \cup {NoFile} /\ i # NoFile
  BY <1>4, <1>5, StoreAssumption DEF StoreShape
<1>7. /\ dir' \in [path : Inodes \cup {NoFile}, tmp : Inodes \cup {NoFile}]
      /\ dir'.path = dir.path /\ dir'.tmp = i
  BY <1>1, <1>4, <1>5 DEF StoreShape
<1>8. data' \in [Inodes -> Seq(Lines)] /\ data'[i] = <<>> /\ \A j \in Inodes : j # i => data'[j] = data[j]
  <2>1. <<>> \in Seq(Lines)
    OBVIOUS
  <2> QED BY <1>1, <1>4, <1>5, <2>1 DEF StoreShape
<1>9. /\ save' \in [Procs -> Saves] /\ save'[p].step = "write" /\ save'[p].fd = i /\ save'[p].text = save[p].text
      /\ \A q \in Procs : q # p => save'[q] = save[q]
  <2>1. save[p] \in Saves
    BY <1>3
  <2>2. [save[p] EXCEPT !.step = "write", !.fd = i] \in Saves
    BY <1>5, <2>1 DEF Saves
  <2>3. save' = [save EXCEPT ![p] = [save[p] EXCEPT !.step = "write", !.fd = i]]
    BY <1>1, <1>3
  <2> QED BY <1>3, <2>1, <2>2, <2>3 DEF Saves
<1>10. Writing(p)'
  BY <1>9 DEF Writing
<1>11. /\ \A q \in Procs : Writing(q)' <=> q = p
       /\ LoopPlace' /\ MintedFew' /\ OneIdentity' /\ FirmlyOff'
       /\ Missing' = Missing /\ Content' = Content /\ Readable' = Readable /\ DiskIdentity' = DiskIdentity
  BY <1>1, <1>2, <1>5, <1>7, <1>8, <1>9, <1>10, SaveMoves
<1>12. StoreShape'
  BY <1>1, <1>4, <1>5, <1>6, <1>7, <1>8, <1>9 DEF StoreShape, past
<1>13. SaveProgress'
  <2>1. \A q \in Procs : q # p => save'[q].step \notin {"open", "write", "sync", "rename"} /\ save'[q].fd = NoFile
    BY <1>3, <1>4, <1>9 DEF SaveProgress, Writing
  <2>2. save'[p].text \in Texts /\ save'[p].text[1].identity \in 1 .. minted'
    BY <1>1, <1>2, <1>3, <1>4, <1>9 DEF SaveProgress
  <2>3. ASSUME NEW q \in Procs
        PROVE  /\ Writing(q)' => save'[q].text \in Texts /\ save'[q].text[1].identity \in 1 .. minted'
               /\ IF save'[q].step \in {"write", "sync", "rename"}
                  THEN dir'.tmp # NoFile /\ save'[q].fd = dir'.tmp
                  ELSE save'[q].fd = NoFile
               /\ save'[q].step = "write" => data'[dir'.tmp] = <<>>
               /\ save'[q].step \notin {"sync", "rename"}
    BY <1>6, <1>7, <1>8, <1>9, <1>11, <2>1, <2>2
  <2> QED BY <1>11, <2>3 DEF SaveProgress
<1>14. FileWhole'
  <2>1. (Writing("loop")' <=> Writing("loop")) /\ (Writing("panel")' <=> Writing("panel"))
    BY <1>2, <1>3, <1>11 DEF Procs
  <2> QED BY <1>1, <1>4, <1>5, <1>7, <1>11, <2>1 DEF FileWhole, Missing, InRename
<1> QED BY <1>11, <1>12, <1>13, <1>14 DEF StoreInv

(* A step of a save on its temporary file, up to the rename.               *)
LEMMA TmpKeeps ==
  ASSUME StoreInv, NEW p \in Procs, save[p].step \in {"write", "sync"}, NEW s \in {"sync", "rename"},
         save' = [save EXCEPT ![p].step = s],
         data' \in [Inodes -> Seq(Lines)], \A i \in Inodes : i # dir.tmp => data'[i] = data[i],
         data'[dir.tmp] = save[p].text,
         synced' \in SUBSET Inodes, synced \ {dir.tmp} \subseteq synced', s = "rename" => dir.tmp \in synced',
         UNCHANGED <<dir, loop, panel, minted, past>>
  PROVE  StoreInv'
<1>1. Writing(p)
  BY DEF Writing
<1>2. /\ \A q \in Procs : q # p => ~Writing(q)
      /\ save \in [Procs -> Saves] /\ save[p].text \in Texts
  BY <1>1, OneWriter
<1>3. StoreShape /\ SaveProgress /\ FileWhole
  BY DEF StoreInv
<1>4. dir.tmp # NoFile /\ save[p].fd = dir.tmp /\ dir.tmp \in Inodes /\ dir.tmp # dir.path
  BY <1>3 DEF SaveProgress, StoreShape
<1>5. /\ save' \in [Procs -> Saves] /\ save'[p].step = s /\ save'[p].fd = dir.tmp /\ save'[p].text = save[p].text
      /\ \A q \in Procs : q # p => save'[q] = save[q]
  <2>1. save[p] \in Saves
    BY <1>2
  <2>2. [save[p] EXCEPT !.step = s] \in Saves
    BY <2>1 DEF Saves
  <2>3. save' = [save EXCEPT ![p] = [save[p] EXCEPT !.step = s]]
    BY <1>2
  <2> QED BY <1>2, <1>4, <2>1, <2>2, <2>3 DEF Saves
<1>6. Writing(p)'
  BY <1>5 DEF Writing
<1>7. /\ \A q \in Procs : Writing(q)' <=> q = p
      /\ LoopPlace' /\ MintedFew' /\ OneIdentity' /\ FirmlyOff'
      /\ Missing' = Missing /\ Content' = Content /\ Readable' = Readable /\ DiskIdentity' = DiskIdentity
  <2>1. dir'.path = dir.path /\ dir' \in [path : Inodes \cup {NoFile}, tmp : Inodes \cup {NoFile}]
    BY <1>3 DEF StoreShape
  <2>2. \A i \in Inodes : i = dir.path => data'[i] = data[i]
    BY <1>4
  <2> QED BY <1>1, <1>5, <1>6, <2>1, <2>2, SaveMoves
<1>8. StoreShape'
  BY <1>3, <1>5 DEF StoreShape, past
<1>9. SaveProgress'
  <2>1. \A q \in Procs : q # p => save'[q].step \notin {"open", "write", "sync", "rename"} /\ save'[q].fd = NoFile
    BY <1>2, <1>3, <1>5 DEF SaveProgress, Writing
  <2>2. save'[p].text \in Texts /\ save'[p].text[1].identity \in 1 .. minted'
    BY <1>1, <1>2, <1>3, <1>5 DEF SaveProgress
  <2>3. ASSUME NEW q \in Procs
        PROVE  /\ Writing(q)' => save'[q].text \in Texts /\ save'[q].text[1].identity \in 1 .. minted'
               /\ IF save'[q].step \in {"write", "sync", "rename"}
                  THEN dir'.tmp # NoFile /\ save'[q].fd = dir'.tmp
                  ELSE save'[q].fd = NoFile
               /\ save'[q].step # "write"
               /\ save'[q].step \in {"sync", "rename"} => data'[dir'.tmp] = save'[q].text
               /\ save'[q].step = "rename" => dir'.tmp \in synced'
    BY <1>4, <1>5, <1>7, <2>1, <2>2
  <2> QED BY <1>7, <2>3 DEF SaveProgress
<1>10. FileWhole'
  <2>1. (Writing("loop")' <=> Writing("loop")) /\ (Writing("panel")' <=> Writing("panel"))
    BY <1>1, <1>2, <1>7 DEF Procs
  <2> QED BY <1>3, <1>4, <1>7, <2>1 DEF FileWhole, Missing, InRename
<1> QED BY <1>7, <1>8, <1>9, <1>10 DEF StoreInv

LEMMA WriteKeeps == ASSUME StoreInv, NEW p \in Procs, SaveWrite(p) PROVE StoreInv'
<1>1. /\ save[p].step = "write" /\ data' = [data EXCEPT ![save[p].fd] = WrittenOver(save[p].text, @)]
      /\ synced' = synced \ {save[p].fd} /\ save' = [save EXCEPT ![p].step = "sync"]
      /\ UNCHANGED <<dir, loop, panel, minted, past>>
  BY DEF SaveWrite
<1>2. StoreShape /\ SaveProgress
  BY DEF StoreInv
<1>3. /\ dir.tmp # NoFile /\ save[p].fd = dir.tmp /\ dir.tmp \in Inodes /\ data[dir.tmp] = <<>>
      /\ save[p].text \in Texts
  BY <1>1, <1>2 DEF SaveProgress, StoreShape, Writing
<1>4. save[p].text \in Seq(Lines) /\ WrittenOver(save[p].text, <<>>) = save[p].text
  <2>1. save[p].text \in Seq(Lines)
    BY <1>3, TextsAre
  <2>2. SubSeq(<<>>, Len(save[p].text) + 1, Len(<<>>)) = <<>>
    BY <2>1
  <2> DEFINE t == save[p].text
  <2>3. t \in Seq(Lines)
    BY <2>1
  <2> HIDE DEF t
  <2>4. t \o <<>> = t
    BY <2>3
  <2>5. WrittenOver(t, <<>>) = t \o SubSeq(<<>>, Len(t) + 1, Len(<<>>))
    BY DEF WrittenOver
  <2> QED BY <2>1, <2>2, <2>4, <2>5 DEF t
<1>5. data' = [data EXCEPT ![dir.tmp] = save[p].text]
  BY <1>1, <1>3, <1>4
<1>6. data' \in [Inodes -> Seq(Lines)] /\ data'[dir.tmp] = save[p].text /\ \A i \in Inodes : i # dir.tmp => data'[i] = data[i]
  BY <1>2, <1>3, <1>4, <1>5 DEF StoreShape
<1>7. synced' \in SUBSET Inodes /\ synced \ {dir.tmp} \subseteq synced'
  BY <1>1, <1>2, <1>3 DEF StoreShape
<1> QED BY <1>1, <1>6, <1>7, TmpKeeps

LEMMA SyncKeeps == ASSUME StoreInv, NEW p \in Procs, SaveSync(p) PROVE StoreInv'
<1>1. /\ save[p].step = "sync" /\ synced' = synced \cup {save[p].fd} /\ save' = [save EXCEPT ![p].step = "rename"]
      /\ UNCHANGED <<dir, data, loop, panel, minted, past>>
  BY DEF SaveSync
<1>2. StoreShape /\ SaveProgress
  BY DEF StoreInv
<1>3. dir.tmp # NoFile /\ save[p].fd = dir.tmp /\ dir.tmp \in Inodes /\ data[dir.tmp] = save[p].text
  BY <1>1, <1>2 DEF SaveProgress, StoreShape
<1>4. /\ synced' \in SUBSET Inodes /\ synced \ {dir.tmp} \subseteq synced' /\ dir.tmp \in synced'
      /\ data' \in [Inodes -> Seq(Lines)] /\ data'[dir.tmp] = save[p].text
  BY <1>1, <1>2, <1>3 DEF StoreShape
<1> QED BY <1>1, <1>4, TmpKeeps

(* A failed write: what was published stays, and the file is no nearer.    *)
LEMMA FailKeeps == ASSUME StoreInv, NEW p \in Procs, SaveFails(p) PROVE StoreInv'
<1>1. PICK n \in {0, Len(save[p].text) - 1} :
        data' = [data EXCEPT ![save[p].fd] = WrittenOver(SubSeq(save[p].text, 1, n), @)]
  BY DEF SaveFails
<1>2. /\ save[p].step = "write" /\ faults < MaxFaults /\ faults' = faults + 1
      /\ synced' = synced \ {save[p].fd} /\ EndSave(p, "failed")
      /\ UNCHANGED <<dir, loop, panel, minted, fate, removed>>
  BY DEF SaveFails, Fault
<1>3. StoreShape /\ LoopPlace /\ SaveProgress /\ FileWhole /\ MintedFew /\ OneIdentity /\ FirmlyOff
  BY DEF StoreInv
<1>4. Writing(p)
  BY <1>2 DEF Writing
<1>5. /\ \A q \in Procs : q # p => ~Writing(q)
      /\ save \in [Procs -> Saves] /\ save[p].text \in Texts
  BY <1>4, OneWriter
<1>6. dir.tmp # NoFile /\ save[p].fd = dir.tmp /\ dir.tmp \in Inodes /\ dir.tmp # dir.path /\ data[dir.tmp] = <<>>
  BY <1>2, <1>3 DEF SaveProgress, StoreShape
<1>7. WrittenOver(SubSeq(save[p].text, 1, n), <<>>) \in Seq(Lines)
  <2> DEFINE t == save[p].text
             u == SubSeq(t, 1, n)
  <2>1. t \in Seq(Lines) /\ t # <<>>
    BY <1>5, TextsAre
  <2> HIDE DEF t
  <2>2. n \in Nat /\ n <= Len(t)
    BY <2>1 DEF t
  <2>3. u \in Seq(Lines)
    BY <2>1, <2>2
  <2> HIDE DEF u
  <2>4. SubSeq(<<>>, Len(u) + 1, Len(<<>>)) = <<>>
    BY <2>3
  <2>5. u \o <<>> = u
    BY <2>3
  <2>6. WrittenOver(u, <<>>) = u \o SubSeq(<<>>, Len(u) + 1, Len(<<>>))
    BY DEF WrittenOver
  <2> QED BY <2>3, <2>4, <2>5, <2>6 DEF t, u
<1>8. data' \in [Inodes -> Seq(Lines)] /\ \A i \in Inodes : i # dir.tmp => data'[i] = data[i]
  BY <1>1, <1>3, <1>6, <1>7 DEF StoreShape
<1>9. /\ save' \in [Procs -> Saves] /\ save'[p].step = "failed" /\ save'[p].fd = NoFile /\ ~Writing(p)'
      /\ \A q \in Procs : q # p => save'[q] = save[q] /\ (Writing(q)' <=> Writing(q))
  BY <1>2, <1>5, EndedSave
<1>10. \A q \in Procs : ~Writing(q)' /\ save'[q].fd = NoFile
  BY <1>3, <1>5, <1>9 DEF SaveProgress, Writing
<1>11. faults' \in 0 .. MaxFaults
  BY <1>2, <1>3, Bounds DEF StoreShape
<1>12. StoreShape'
  BY <1>2, <1>3, <1>8, <1>9, <1>11 DEF StoreShape
<1>13. Missing' = Missing /\ Content' = Content
  BY <1>2, <1>3, <1>6, <1>8 DEF Missing, Content, StoreShape
<1>14. Readable' = Readable
  BY <1>13 DEF Readable, Parses
<1>15. DiskPeers' = DiskPeers /\ DiskIdentity' = DiskIdentity
  BY <1>13, <1>14 DEF DiskPeers, DiskIdentity
<1>16. \A d \in Devices : (Listed(d)' <=> Listed(d)) /\ (InHand(d)' <=> InHand(d))
  BY <1>2, <1>15 DEF Listed, Keys, InHand
<1>17. "loop" \in Procs /\ "panel" \in Procs
  BY DEF Procs
<1>18. LoopPlace'
  BY <1>2, <1>3, <1>10, <1>17 DEF LoopPlace
<1>19. SaveProgress'
  BY <1>10 DEF SaveProgress, Writing
<1>20. FileWhole'
  BY <1>2, <1>3, <1>6, <1>10, <1>13, <1>14, <1>15, <1>17 DEF FileWhole, Missing, InRename
<1>21. MintedFew'
  BY <1>2, <1>3, Bounds DEF MintedFew, StoreShape
<1>22. OneIdentity'
  <2>1. Belongs' => Belongs /\ ~(loop.at = "creating" /\ p = "loop")
    <3>1. CASE p = "loop"
      BY <1>2, <1>4, <1>9, <3>1 DEF Belongs, Writing
    <3>2. CASE p # "loop"
      BY <1>2, <1>9, <1>17, <3>2 DEF Belongs
    <3> QED BY <3>1, <3>2
  <2>2. ~removed /\ Belongs' => ~Missing /\ (Readable => loop.id = DiskIdentity)
    BY <1>3, <1>5, <1>17, <2>1 DEF OneIdentity
  <2> QED BY <1>2, <1>10, <1>13, <1>14, <1>15, <1>17, <2>2 DEF OneIdentity
<1>23. FirmlyOff'
  <2>1. ASSUME NEW d \in Devices, fate'[d] = "firm"
        PROVE  ~Listed(d)' /\ (loop'.backed /\ InHand(d)' => d \notin Keys(loop'.peers))
    BY <1>2, <1>3, <1>16, <2>1 DEF FirmlyOff
  <2> QED BY <1>10, <1>17, <2>1 DEF FirmlyOff, Keys
<1> QED BY <1>12, <1>18, <1>19, <1>20, <1>21, <1>22, <1>23 DEF StoreInv

(* The rename: the text becomes the file.                                  *)
LEMMA RenameFacts ==
  ASSUME StoreInv, NEW p \in Procs, SaveRename(p)
  PROVE  /\ Writing(p) /\ \A q \in Procs : ~Writing(q)' /\ save'[q].fd = NoFile
         /\ save[p].text \in Texts /\ save' \in [Procs -> Saves] /\ save'[p].step = "done"
         /\ \A q \in Procs : q # p => save'[q] = save[q]
         /\ dir' = [path |-> dir.tmp, tmp |-> NoFile] /\ dir.tmp \in Inodes
         /\ data' \in [Inodes -> Seq(Lines)]
         /\ ~Missing' /\ Content' = save[p].text /\ Readable'
         /\ DiskPeers' = Tail(save[p].text) /\ DiskIdentity' = save[p].text[1].identity
         /\ synced' \in SUBSET Inodes /\ dir.tmp \in synced'
<1>1. save[p].step = "rename"
  BY DEF SaveRename
<1>2. StoreShape /\ SaveProgress
  BY DEF StoreInv
<1>3. Writing(p)
  BY <1>1 DEF Writing
<1>4. /\ \A q \in Procs : q # p => ~Writing(q)
      /\ save \in [Procs -> Saves] /\ save[p].text \in Texts
  BY <1>3, OneWriter
<1>5. /\ dir.tmp # NoFile /\ dir.tmp \in Inodes /\ dir.tmp # dir.path
      /\ data[dir.tmp] = save[p].text /\ dir.tmp \in synced
  BY <1>1, <1>2 DEF SaveProgress, StoreShape
<1>6. /\ EndSave(p, "done") /\ dir' = [path |-> dir.tmp, tmp |-> NoFile]
      /\ data' = IF Missing THEN data ELSE [data EXCEPT ![dir.path] = <<>>]
      /\ synced' = synced \ {dir.path}
  BY <1>5 DEF SaveRename
<1>7. /\ save' \in [Procs -> Saves] /\ save'[p].step = "done" /\ save'[p].fd = NoFile /\ ~Writing(p)'
      /\ \A q \in Procs : q # p => save'[q] = save[q] /\ (Writing(q)' <=> Writing(q))
  BY <1>4, <1>6, EndedSave
<1>8. \A q \in Procs : ~Writing(q)' /\ save'[q].fd = NoFile
  BY <1>2, <1>4, <1>7 DEF SaveProgress, Writing
<1>9. data' \in [Inodes -> Seq(Lines)] /\ data'[dir.tmp] = data[dir.tmp]
  <2>1. <<>> \in Seq(Lines)
    OBVIOUS
  <2>2. CASE Missing
    BY <1>2, <1>6, <2>2 DEF StoreShape
  <2>3. CASE ~Missing
    <3>1. data' = [data EXCEPT ![dir.path] = <<>>]
      BY <1>6, <2>3
    <3> QED BY <1>2, <1>5, <2>1, <3>1 DEF StoreShape
  <2> QED BY <2>2, <2>3
<1>10. ~Missing' /\ Content' = save[p].text
  BY <1>5, <1>6, <1>9 DEF Missing, Content
<1>11. Readable'
  BY <1>4, <1>10, TextsAre DEF Readable, Parses
<1>12. DiskPeers' = Tail(save[p].text) /\ DiskIdentity' = save[p].text[1].identity
  BY <1>10, <1>11 DEF DiskPeers, DiskIdentity
<1>13. synced' \in SUBSET Inodes /\ dir.tmp \in synced'
  BY <1>2, <1>5, <1>6 DEF StoreShape
<1> QED BY <1>3, <1>4, <1>5, <1>6, <1>7, <1>8, <1>9, <1>10, <1>11, <1>12, <1>13

LEMMA RenameKeeps == ASSUME StoreInv, NEW p \in Procs, SaveRename(p) PROVE StoreInv'
<1>1. /\ Writing(p) /\ \A q \in Procs : ~Writing(q)' /\ save'[q].fd = NoFile
      /\ save[p].text \in Texts /\ save' \in [Procs -> Saves] /\ save'[p].step = "done"
      /\ \A q \in Procs : q # p => save'[q] = save[q]
      /\ dir' = [path |-> dir.tmp, tmp |-> NoFile] /\ dir.tmp \in Inodes
      /\ data' \in [Inodes -> Seq(Lines)]
      /\ ~Missing' /\ Content' = save[p].text /\ Readable'
      /\ DiskPeers' = Tail(save[p].text) /\ DiskIdentity' = save[p].text[1].identity
      /\ synced' \in SUBSET Inodes /\ dir.tmp \in synced'
  BY RenameFacts
<1>2. StoreShape /\ LoopPlace /\ SaveProgress /\ FileWhole /\ MintedFew /\ OneIdentity /\ FirmlyOff
  BY DEF StoreInv
<1>3. \A q \in Procs : q # p => ~Writing(q)
  BY <1>1, OneWriter
<1>4. /\ UNCHANGED <<loop, panel, minted, removed, faults>>
      /\ fate' = IF p = "panel" /\ panel = "forgetting" /\ dir.tmp # NoFile THEN Forgotten ELSE fate
  BY DEF SaveRename
<1>5. Forgotten \in [Devices -> {"no", "firm", "raced", "undone"}]
  BY DEF Forgotten
<1>6. StoreShape'
  <2>1. /\ dir' \in [path : Inodes \cup {NoFile}, tmp : Inodes \cup {NoFile}]
        /\ dir'.path = dir'.tmp => dir'.path = NoFile
    BY <1>1, StoreAssumption
  <2> QED BY <1>1, <1>2, <1>4, <1>5, <2>1 DEF StoreShape
<1>7. LoopPlace'
  BY <1>1, <1>2, <1>4 DEF LoopPlace, Procs
<1>8. SaveProgress'
  BY <1>1 DEF SaveProgress, Writing
<1>9. FileWhole'
  <2>1. save[p].text # Corrupt /\ save[p].text \in Files
    BY <1>1, TextsAre DEF Files
  <2>2. DiskIdentity' \in 1 .. minted'
    BY <1>1, <1>2, <1>4 DEF SaveProgress
  <2>3. dir'.path \in synced'
    BY <1>1
  <2> QED BY <1>1, <2>1, <2>2, <2>3 DEF FileWhole
<1>10. MintedFew'
  BY <1>1, <1>2, <1>4 DEF MintedFew
<1>11. "loop" \in Procs /\ "panel" \in Procs
  BY DEF Procs
<1>12. OneIdentity'
  <2> SUFFICES ASSUME ~removed, Belongs' PROVE loop.id = save[p].text[1].identity
    BY <1>1, <1>4, <1>11 DEF OneIdentity
  <2>1. Belongs
    <3>1. save'["loop"].step # "failed" \/ loop.at # "creating"
      BY <1>4 DEF Belongs
    <3>2. loop.backed
      BY <1>4 DEF Belongs
    <3>3. save["loop"].step # "failed" \/ loop.at # "creating"
      BY <1>1, <1>11, <3>1 DEF Writing
    <3> QED BY <3>2, <3>3 DEF Belongs
  <2>2. CASE p = "loop"
    <3>1. loop.backed
      BY <2>1 DEF Belongs
    <3> QED BY <1>1, <1>2, <2>2, <3>1 DEF OneIdentity
  <2>3. CASE p = "panel"
    <3>1. ~Writing("loop") /\ Content # Corrupt
      BY <1>1, <1>2, <1>3, <1>11, <2>3 DEF FileWhole
    <3>2. ~Missing
      BY <1>2, <2>1, <3>1 DEF OneIdentity
    <3>3. Readable
      BY <3>1, <3>2, FileFacts
    <3> QED BY <1>1, <1>2, <2>1, <3>2, <3>3 DEF OneIdentity
  <2> QED BY <2>2, <2>3 DEF Procs
<1>13. FirmlyOff'
  <2>1. ASSUME NEW d \in Devices, fate'[d] = "firm"
        PROVE  ~Listed(d)' /\ (loop.backed /\ InHand(d) => d \notin Keys(loop.peers))
    <3>1. CASE p = "panel" /\ panel = "forgetting"
      <4>1. ~InHand(d)
        BY <1>1, <1>4, <2>1, <3>1, StoreAssumption DEF Forgotten
      <4>2. Tail(save[p].text) = <<>>
        BY <1>1, <1>2, <3>1 DEF FirmlyOff
      <4>3. DiskPeers' = <<>>
        BY <1>1, <4>2
      <4> QED BY <4>1, <4>3, NoDevices DEF Listed, Keys
    <3>2. CASE ~(p = "panel" /\ panel = "forgetting")
      <4>1. fate[d] = "firm"
        BY <1>4, <2>1, <3>2
      <4>2. d \notin Keys(Tail(save[p].text))
        BY <1>1, <1>2, <4>1 DEF FirmlyOff
      <4> QED BY <1>1, <1>2, <4>1, <4>2 DEF FirmlyOff, Listed, Keys
    <3> QED BY <3>1, <3>2
  <2>2. \A d \in Devices : InHand(d)' <=> InHand(d)
    BY <1>4 DEF InHand
  <2> QED BY <1>1, <1>4, <1>11, <2>1, <2>2 DEF FirmlyOff, Keys
<1> QED BY <1>6, <1>7, <1>8, <1>9, <1>10, <1>12, <1>13 DEF StoreInv

-----------------------------------------------------------------------------
(* The identity and the forgotten devices, in a step that begins no save.  *)
LEMMA QuietKeeps ==
  ASSUME StoreInv, UNCHANGED <<dir, data, removed>>, Quiet,
         \A d \in Devices : fate'[d] = "firm" => fate[d] = "firm",
         Writing("loop") => loop'.at = loop.at /\ loop'.id = loop.id /\ loop'.backed = loop.backed,
         loop'.at = "creating" => loop' = loop /\ (save'["loop"].step = save["loop"].step),
         loop'.at # "creating" /\ loop'.backed =>
           \/ Readable /\ loop'.id = DiskIdentity
           \/ /\ loop.backed /\ loop'.id = loop.id
              /\ loop.at # "creating" \/ save["loop"].step = "done",
         \A d \in Devices : loop'.backed /\ fate'[d] = "firm" /\ InHand(d)' => d \notin Keys(loop'.peers)
  PROVE  OneIdentity' /\ FirmlyOff'
<1>1. UNCHANGED <<dir, data>>
  OBVIOUS
<1>2. Missing' = Missing /\ Readable' = Readable /\ DiskIdentity' = DiskIdentity /\ \A d : Listed(d)' <=> Listed(d)
  BY <1>1, FileSame
<1>3. \A p \in Procs : (Writing(p)' <=> Writing(p)) /\ (Writing(p) => save'[p] = save[p])
  BY DEF Quiet
<1>4. OneIdentity /\ FirmlyOff
  BY DEF StoreInv
<1>5. "loop" \in Procs /\ "panel" \in Procs
  BY DEF Procs
<1>6. OneIdentity'
  <2>a. loop'.backed /\ Writing("loop")' => save'["loop"].text[1].identity = loop'.id
    BY <1>3, <1>4, <1>5 DEF OneIdentity
  <2> SUFFICES ASSUME ~removed PROVE OneIdentity'
    BY <2>a DEF OneIdentity
  <2>1. \A p \in Procs : Writing(p)' /\ Readable' => save'[p].text[1].identity = DiskIdentity'
    BY <1>2, <1>3, <1>4 DEF OneIdentity
  <2>2. ASSUME Belongs'
        PROVE  IF Missing' THEN loop'.at = "creating" /\ Writing("loop")'
                           ELSE Readable' => loop'.id = DiskIdentity'
    <3>1. CASE loop'.at = "creating"
      <4>1. Belongs
        BY <2>2, <3>1 DEF Belongs
      <4> QED BY <1>2, <1>3, <1>4, <1>5, <3>1, <4>1 DEF OneIdentity
    <3>2. CASE loop'.at # "creating"
      <4>1. loop'.backed
        BY <2>2 DEF Belongs
      <4>2. CASE Readable /\ loop'.id = DiskIdentity
        BY <1>2, <4>2 DEF Readable
      <4>3. CASE /\ loop.backed /\ loop'.id = loop.id
                 /\ loop.at # "creating" \/ save["loop"].step = "done"
        <5>1. Belongs
          BY <4>3 DEF Belongs
        <5>2. ~Missing
          <6> SUFFICES ASSUME Missing PROVE FALSE
            OBVIOUS
          <6>1. loop.at = "creating" /\ Writing("loop")
            BY <1>4, <5>1 DEF OneIdentity
          <6> QED BY <4>3, <6>1 DEF Writing
        <5> QED BY <1>2, <1>4, <4>3, <5>1, <5>2 DEF OneIdentity
      <4> QED BY <3>2, <4>1, <4>2, <4>3
    <3> QED BY <3>1, <3>2
  <2> QED BY <2>a, <2>1, <2>2 DEF OneIdentity
<1>7. FirmlyOff'
  <2>1. ASSUME NEW d \in Devices, fate'[d] = "firm"
        PROVE  /\ ~Listed(d)'
               /\ \A p \in Procs : Writing(p)' => d \notin Keys(Tail(save'[p].text))
               /\ loop'.backed /\ InHand(d)' => d \notin Keys(loop'.peers)
    BY <1>2, <1>3, <1>4, <2>1 DEF FirmlyOff
  <2>2. /\ Writing("panel")' => Tail(save'["panel"].text) = <<>>
        /\ Writing("loop")' /\ loop'.at = "creating" => Tail(save'["loop"].text) = <<>>
    BY <1>3, <1>4, <1>5 DEF FirmlyOff
  <2> QED BY <2>1, <2>2 DEF FirmlyOff, Keys
<1> QED BY <1>6, <1>7

(* ... and in one that does.                                               *)
LEMMA BeginKeeps ==
  ASSUME StoreInv, UNCHANGED <<dir, data, removed>>, \A q \in Procs : ~Writing(q),
         NEW p \in Procs, NEW t \in Texts, BeginSave(p, t),
         \A d \in Devices : fate'[d] = "firm" => fate[d] = "firm",
         removed \/ ~Readable \/ t[1].identity = DiskIdentity,
         p = "loop" /\ loop'.backed => t[1].identity = loop'.id,
         p = "panel" => loop' = loop /\ Tail(t) = <<>>,
         p = "loop" /\ loop'.at = "creating" => Tail(t) = <<>> /\ Missing,
         p = "loop" /\ loop'.at # "creating" => removed \/ (~Missing /\ (Readable => loop'.id = DiskIdentity)),
         p = "loop" => \A d \in Devices : fate'[d] = "firm" => d \notin Keys(Tail(t)),
         p = "loop" => \A d \in Devices : loop'.backed /\ fate'[d] = "firm" /\ InHand(d)' => d \notin Keys(loop'.peers)
  PROVE  OneIdentity' /\ FirmlyOff'
<1>1. UNCHANGED <<dir, data>>
  OBVIOUS
<1>2. Missing' = Missing /\ Readable' = Readable /\ DiskIdentity' = DiskIdentity /\ \A d : Listed(d)' <=> Listed(d)
  BY <1>1, FileSame
<1>3. /\ save' \in [Procs -> Saves]
      /\ save'[p].step = "open" /\ save'[p].text = t /\ Writing(p)'
      /\ \A q \in Procs : q # p => save'[q] = save[q] /\ ~Writing(q)'
  <2>1. save \in [Procs -> Saves]
    BY DEF StoreInv, StoreShape
  <2>2. /\ save' \in [Procs -> Saves]
        /\ save'[p] = [step |-> "open", text |-> t, fd |-> NoFile] /\ Writing(p)'
        /\ \A q \in Procs : q # p => save'[q] = save[q] /\ (Writing(q)' <=> Writing(q))
    BY <2>1, Begun
  <2> QED BY <2>2
<1>4. OneIdentity /\ FirmlyOff
  BY DEF StoreInv
<1>5. "loop" \in Procs /\ "panel" \in Procs /\ (p = "loop" \/ p = "panel")
  BY DEF Procs
<1>6. OneIdentity'
  <2>a. loop'.backed /\ Writing("loop")' => save'["loop"].text[1].identity = loop'.id
    BY <1>3, <1>5
  <2> SUFFICES ASSUME ~removed PROVE OneIdentity'
    BY <2>a DEF OneIdentity
  <2>1. \A q \in Procs : Writing(q)' /\ Readable' => save'[q].text[1].identity = DiskIdentity'
    BY <1>2, <1>3
  <2>2. ASSUME Belongs'
        PROVE  IF Missing' THEN loop'.at = "creating" /\ Writing("loop")'
                           ELSE Readable' => loop'.id = DiskIdentity'
    <3>0. loop'.backed
      BY <2>2 DEF Belongs
    <3>1. CASE p = "loop"
      <4>1. CASE loop'.at = "creating"
        BY <1>2, <1>3, <3>0, <3>1, <4>1
      <4>2. CASE loop'.at # "creating"
        BY <1>2, <3>1, <4>2
      <4> QED BY <4>1, <4>2
    <3>2. CASE p = "panel"
      <4>1. Belongs
        BY <1>3, <1>5, <2>2, <3>2 DEF Belongs
      <4> QED BY <1>2, <1>4, <1>5, <3>2, <4>1 DEF OneIdentity
    <3> QED BY <1>5, <3>1, <3>2
  <2> QED BY <2>a, <2>1, <2>2 DEF OneIdentity
<1>7. FirmlyOff'
  <2>1. ASSUME NEW d \in Devices, fate'[d] = "firm"
        PROVE  /\ ~Listed(d)'
               /\ d \notin Keys(Tail(t))
               /\ loop'.backed /\ InHand(d)' => d \notin Keys(loop'.peers)
    <3>1. fate[d] = "firm"
      BY <2>1
    <3>2. CASE p = "loop"
      BY <1>2, <1>4, <2>1, <3>1, <3>2 DEF FirmlyOff
    <3>3. CASE p = "panel"
      <4>1. InHand(d)' <=> InHand(d)
        BY <3>3 DEF InHand
      <4>2. d \notin Keys(Tail(t))
        BY <3>3, NoDevices
      <4> QED BY <1>2, <1>4, <3>1, <3>3, <4>1, <4>2 DEF FirmlyOff
    <3> QED BY <1>5, <3>2, <3>3
  <2>2. ASSUME NEW d \in Devices, fate'[d] = "firm"
        PROVE  \A q \in Procs : Writing(q)' => d \notin Keys(Tail(save'[q].text))
    BY <1>3, <2>1, <2>2
  <2>3. /\ Writing("panel")' => Tail(save'["panel"].text) = <<>>
        /\ Writing("loop")' /\ loop'.at = "creating" => Tail(save'["loop"].text) = <<>>
    BY <1>3, <1>5
  <2> QED BY <2>1, <2>2, <2>3 DEF FirmlyOff, Keys
<1> QED BY <1>6, <1>7

-----------------------------------------------------------------------------
(* The accept loop.                                                        *)
LEMMA Free == ASSUME Overlap = FALSE, MayStart PROVE \A p \in Procs : ~Writing(p)
  BY DEF MayStart

LEMMA LoopFacts ==
  ASSUME StoreInv
  PROVE  /\ loop \in Loops /\ loop.peers \in Lists /\ fate \in [Devices -> {"no", "firm", "raced", "undone"}]
         /\ panel \in {"idle", "creating", "forgetting"} /\ minted \in Nat
         /\ loop.backed => loop.id \in 1 .. minted
         /\ loop.backed /\ Content = Corrupt => ~InRename
         /\ Writing("loop") => loop.at \in {"creating", "reloading", "remembering", "renaming"}
         /\ Writing("panel") => panel # "idle"
         /\ loop.at \notin {"down", "creating", "idle"} => loop.dev \in Devices
         /\ loop.at = "reloading" => loop.then \in {"pairing", "known", "naming"}
         /\ loop.at = "creating" => loop.backed
         /\ "loop" \in Procs /\ "panel" \in Procs
  BY DEF StoreInv, StoreShape, LoopPlace, FileWhole, Loops, Procs

(* The loop moves on with what it had.                                     *)
LEMMA LoopMoves ==
  ASSUME StoreInv, UNCHANGED <<fs, panel, minted, removed>>, Tallied, Quiet, ~Writing("loop"),
         \A d \in Devices : fate'[d] = "firm" => fate[d] = "firm",
         loop' \in Loops, fate' \in [Devices -> {"no", "firm", "raced", "undone"}],
         loop'.at \notin {"creating", "reloading"},
         loop'.at \notin {"down", "idle"} => loop'.dev \in Devices,
         loop'.backed => \/ Readable /\ loop'.id = DiskIdentity
                         \/ /\ loop.backed /\ loop'.id = loop.id
                            /\ loop.at # "creating" \/ save["loop"].step = "done",
         \A d \in Devices : loop'.backed /\ fate'[d] = "firm" /\ InHand(d)' => d \notin Keys(loop'.peers),
         loop'.backed /\ Content = Corrupt => loop'.at # "naming" /\ loop'.at # "renaming"
  PROVE  StoreInv'
<1>0. UNCHANGED <<dir, data, synced>> /\ (loop'.backed /\ Content = Corrupt => ~InRename')
  BY DEF fs, InRename
<1>1. loop'.backed => loop'.id \in 1 .. minted
  BY LoopFacts, FileFacts DEF StoreInv, FileWhole
<1>2. StoreShape' /\ LoopPlace' /\ SaveProgress' /\ FileWhole' /\ MintedFew'
  BY <1>0, <1>1, LoopFacts, QuietStep
<1>3. OneIdentity' /\ FirmlyOff'
  BY <1>0, QuietKeeps
<1> QED BY <1>2, <1>3 DEF StoreInv

LEMMA StartsKeep == ASSUME Overlap = FALSE, StoreInv, LoopStarts PROVE StoreInv'
<1>0. PICK ok \in BOOLEAN : Reading(ok) /\ OpenStore(ok /\ Missing, ok)
  BY DEF LoopStarts
<1>1. loop.at = "down" /\ UNCHANGED <<fs, panel, fate, removed>> /\ \A p \in Procs : ~Writing(p)
  BY Free DEF LoopStarts
<1> DEFINE new == ok /\ Missing
<1>2. loop' = [loop EXCEPT !.at = IF new THEN "creating" ELSE "idle", !.backed = new \/ (ok /\ Readable),
                          !.id = IF new THEN minted + 1 ELSE IF ok THEN DiskIdentity ELSE 0,
                          !.peers = IF ok THEN DiskPeers ELSE <<>>]
  BY <1>0 DEF OpenStore
<1>3. loop \in Loops /\ minted \in Nat
  BY LoopFacts
<1>a. Tallied
  BY <1>0, SameTally, FaultTally DEF Reading
<1>b. UNCHANGED <<dir, data, synced>>
  BY <1>1 DEF fs
<1>4. CASE new
  <2> DEFINE t == TextOf(minted + 1, <<>>)
  <2>1. minted' = minted + 1 /\ BeginSave("loop", t)
    BY <1>0, <1>4 DEF OpenStore
  <2>2. minted + 1 \in 1 .. MaxIds
    BY <1>1, <1>4, FileFacts
  <2>3. t \in Texts /\ t[1].identity = minted + 1 /\ Tail(t) = <<>>
    BY <2>2, NoDevices, TextFacts
  <2> HIDE DEF t
  <2>4. DiskPeers = <<>>
    BY <1>4, FileFacts
  <2>5. loop' \in Loops /\ loop'.at = "creating" /\ loop'.backed = TRUE /\ loop'.id = minted + 1 /\ loop'.peers = <<>>
    <3>1. minted + 1 \in Nat /\ "creating" \in Places
      BY <1>3 DEF Places
    <3> QED BY <1>2, <1>3, <1>4, <2>4, <3>1, NoDevices DEF Loops
  <2>6. Content # Corrupt
    BY <1>4, NoText DEF Content, Files
  <2>7. minted + 1 \in 1 .. minted'
    BY <1>3, <2>1
  <2>9. StoreShape' /\ LoopPlace' /\ SaveProgress' /\ FileWhole' /\ MintedFew'
    BY <1>1, <1>a, <1>b, <1>4, <2>1, <2>3, <2>5, <2>6, <2>7, LoopFacts, BeginStep
  <2>10. OneIdentity' /\ FirmlyOff'
    BY <1>1, <1>b, <1>4, <2>1, <2>3, <2>5, LoopFacts, NoDevices, FileFacts, BeginKeeps
  <2> QED BY <2>9, <2>10 DEF StoreInv
<1>5. CASE ~new
  <2>1. UNCHANGED <<minted, save>>
    BY <1>0, <1>5 DEF OpenStore
  <2>2. /\ loop' \in Loops /\ loop'.at = "idle" /\ loop'.backed = (ok /\ Readable)
        /\ ok => loop'.id = DiskIdentity
    <3>1. "idle" \in Places /\ (ok /\ Readable) \in BOOLEAN
      BY DEF Places, Readable, Missing, Parses
    <3>2. DiskPeers \in Lists /\ <<>> \in Lists
      BY FileFacts, NoDevices
    <3>3. DiskIdentity \in Nat
      <4>1. CASE Readable
        BY <1>3, <4>1 DEF StoreInv, FileWhole
      <4>2. CASE ~Readable
        BY <4>2 DEF DiskIdentity
      <4> QED BY <4>1, <4>2
    <3> DEFINE id == IF ok THEN DiskIdentity ELSE 0
               peers == IF ok THEN DiskPeers ELSE <<>>
    <3>4. id \in Nat /\ peers \in Lists
      BY <3>2, <3>3
    <3>5. loop' = [loop EXCEPT !.at = "idle", !.backed = (ok /\ Readable), !.id = id, !.peers = peers]
      BY <1>2, <1>5
    <3>6. ok => id = DiskIdentity
      OBVIOUS
    <3> HIDE DEF id, peers
    <3> QED BY <1>3, <3>1, <3>4, <3>5, <3>6 DEF Loops
  <2>3. Quiet /\ ~Writing("loop")
    BY <1>1, <2>1, LoopFacts, SameQuiet
  <2>4. \A d \in Devices : ~InHand(d)'
    BY <2>2 DEF InHand
  <2> QED BY <1>1, <1>a, <2>1, <2>2, <2>3, <2>4, LoopFacts, LoopMoves
<1> QED BY <1>4, <1>5

LEMMA CreatedKeeps == ASSUME StoreInv, LoopCreated PROVE StoreInv'
<1>1. /\ loop.at = "creating" /\ Seen("loop") /\ UNCHANGED <<fs, panel, minted, past>>
      /\ loop' = [loop EXCEPT !.at = "idle", !.backed = (save["loop"].step = "done")]
  BY DEF LoopCreated
<1>2. Quiet /\ ~Writing("loop")
  BY <1>1, LoopFacts, SeenQuiet
<1>3. /\ loop' \in Loops /\ loop'.at = "idle" /\ loop'.backed = (save["loop"].step = "done") /\ loop'.id = loop.id
  BY <1>1, LoopFacts DEF Loops, Places
<1>4. \A d \in Devices : ~InHand(d)'
  BY <1>3 DEF InHand
<1>5. UNCHANGED <<fate, removed, faults>>
  BY <1>1 DEF past
<1>6. loop.backed
  BY <1>1, LoopFacts
<1> QED BY <1>1, <1>2, <1>3, <1>4, <1>5, <1>6, LoopFacts, SameTally, LoopMoves

(* reload, as both its callers use it: to the place the connection goes on *)
(* from, with the file's list, by way of writing the file back, or with    *)
(* the list in hand when the file cannot be read.                          *)
LEMMA ReloadKeeps ==
  ASSUME Overlap = FALSE, StoreInv, loop.at \in {"idle", "greeting"}, NEW d \in Devices,
         NEW at \in {"pairing", "known", "naming"}, NEW or \in {"pairing", "known", "session"}, NEW ok \in BOOLEAN,
         Reading(ok), Reload(d, at, or, ok), UNCHANGED <<fs, panel, minted, removed>>,
         fate' = IF Unread(ok) /\ or # "session" THEN StillInHand ELSE fate
  PROVE  StoreInv'
<1>1. Tallied /\ UNCHANGED <<dir, data, synced>>
  BY SameTally, FaultTally DEF Reading, fs
<1>2. loop \in Loops /\ loop.peers \in Lists /\ minted \in Nat /\ (loop.backed => loop.id \in 1 .. minted)
  BY LoopFacts
<1>3. /\ at \in Places /\ "reloading" \in Places /\ at \notin {"down", "creating", "idle", "reloading"}
      /\ or \in Places /\ or \notin {"down", "creating", "idle", "reloading", "naming", "renaming"}
  BY DEF Places
<1>a. /\ fate' \in [Devices -> {"no", "firm", "raced", "undone"}]
      /\ \A e \in Devices : fate'[e] = "firm" => fate[e] = "firm"
  <2>1. fate \in [Devices -> {"no", "firm", "raced", "undone"}]
    BY LoopFacts
  <2>2. /\ StillInHand \in [Devices -> {"no", "firm", "raced", "undone"}]
        /\ \A e \in Devices : StillInHand[e] = "firm" => fate[e] = "firm"
    BY <2>1 DEF StillInHand
  <2> QED BY <2>1, <2>2
<1>4. CASE loop.backed /\ ok /\ Missing
  <2> DEFINE t == TextOf(loop.id, <<>>)
  <2>1. /\ loop' = [loop EXCEPT !.at = "reloading", !.dev = d, !.then = at, !.peers = <<>>]
        /\ BeginSave("loop", t) /\ \A p \in Procs : ~Writing(p)
    BY <1>4, Free DEF Reload
  <2>2. t \in Texts /\ t[1].identity = loop.id /\ Tail(t) = <<>>
    BY <1>2, <1>4, FileFacts, NoDevices, TextFacts, ZenonT(30)
  <2> HIDE DEF t
  <2>3. /\ loop' \in Loops /\ loop'.at = "reloading" /\ loop'.dev = d /\ loop'.then = at /\ loop'.peers = <<>>
        /\ loop'.id = loop.id /\ loop'.backed = loop.backed
    BY <1>2, <1>3, <2>1, NoDevices DEF Loops
  <2>4. removed
    <3> SUFFICES ASSUME ~removed PROVE FALSE
      BY DEF StoreInv, StoreShape
    <3>1. Belongs
      BY <1>4 DEF Belongs
    <3> QED BY <1>4, <3>1 DEF StoreInv, OneIdentity
  <2>a. Content # Corrupt
    BY <1>4, NoText DEF Content, Files
  <2>5. StoreShape' /\ LoopPlace' /\ SaveProgress' /\ FileWhole' /\ MintedFew'
    BY <1>1, <1>2, <1>3, <1>a, <1>4, <2>1, <2>2, <2>3, <2>a, LoopFacts, BeginStep
  <2>6. OneIdentity' /\ FirmlyOff'
    BY <1>1, <1>a, <2>1, <2>2, <2>3, <2>4, LoopFacts, NoDevices, BeginKeeps
  <2> QED BY <2>5, <2>6 DEF StoreInv
<1>5. CASE ~(loop.backed /\ ok /\ Missing)
  <2>1. /\ UNCHANGED save
        /\ loop' = IF loop.backed /\ ~Unread(ok)
                   THEN [loop EXCEPT !.at = at, !.dev = d, !.id = DiskIdentity, !.peers = DiskPeers]
                   ELSE [loop EXCEPT !.at = IF Unread(ok) THEN or ELSE at, !.dev = d]
    BY <1>5 DEF Reload
  <2>2. Quiet /\ ~Writing("loop")
    BY <2>1, LoopFacts, SameQuiet
  <2>3. CASE loop.backed /\ ~Unread(ok)
    <3>1. Readable /\ Content # Corrupt
      BY <1>5, <2>3, FileFacts DEF Unread
    <3>2. DiskPeers \in Lists /\ DiskIdentity \in Nat
      BY <1>2, <3>1, FileFacts DEF StoreInv, FileWhole
    <3>3. /\ loop' \in Loops /\ loop'.at = at /\ loop'.dev = d /\ loop'.backed = loop.backed
          /\ loop'.id = DiskIdentity /\ loop'.peers = DiskPeers
      BY <1>2, <1>3, <2>1, <2>3, <3>2 DEF Loops
    <3>4. ASSUME NEW e \in Devices, fate'[e] = "firm"
          PROVE  e \notin Keys(loop'.peers)
      BY <1>a, <3>3, <3>4 DEF StoreInv, FirmlyOff, Listed
    <3> QED BY <1>1, <1>3, <1>a, <2>2, <3>1, <3>3, <3>4, LoopFacts, LoopMoves
  <2>4. CASE Unread(ok)
    <3>1. /\ loop' \in Loops /\ loop'.at = or /\ loop'.dev = d /\ loop'.backed = loop.backed
          /\ loop'.id = loop.id /\ loop'.peers = loop.peers
      BY <1>2, <1>3, <2>1, <2>4 DEF Loops
    <3>2. loop.backed
      BY <2>4 DEF Unread
    <3>3. ASSUME NEW e \in Devices, fate'[e] = "firm", InHand(e)'
          PROVE  e \notin Keys(loop.peers)
      <4>1. or # "session"
        BY <3>1, <3>3 DEF InHand
      <4>2. fate' = StillInHand
        BY <2>4, <4>1
      <4> QED BY <3>3, <4>2 DEF StillInHand
    <3> QED BY <1>1, <1>3, <1>a, <2>2, <3>1, <3>2, <3>3, LoopFacts, LoopMoves
  <2>5. CASE ~loop.backed
    <3>1. loop' \in Loops /\ loop'.at = at /\ loop'.dev = d /\ ~loop'.backed
      BY <1>2, <1>3, <2>1, <2>5 DEF Loops, Unread
    <3> QED BY <1>1, <1>3, <1>a, <2>2, <3>1, LoopFacts, LoopMoves
  <2> QED BY <2>3, <2>4, <2>5
<1> QED BY <1>4, <1>5

LEMMA ConnectsKeep ==
  ASSUME Overlap = FALSE, StoreInv, NEW d \in Devices, NEW mode \in {"pairing", "known"}, Connects(d, mode)
  PROVE  StoreInv'
<1>1. mode \in {"pairing", "known", "naming"} /\ mode \in {"pairing", "known", "session"} /\ mode # "session"
  OBVIOUS
<1>2. PICK ok \in BOOLEAN : /\ Reading(ok) /\ Reload(d, mode, mode, ok)
                            /\ fate' = IF Unread(ok) THEN StillInHand ELSE fate
  BY DEF Connects
<1>3. loop.at = "idle" /\ UNCHANGED <<fs, panel, minted, removed>>
  BY DEF Connects
<1> QED BY <1>1, <1>2, <1>3, ReloadKeeps

LEMMA HelloKeeps == ASSUME Overlap = FALSE, StoreInv, HelloRead PROVE StoreInv'
<1>1. loop.at = "greeting" /\ UNCHANGED <<fs, panel, minted, fate, removed>>
  BY DEF HelloRead
<1>2. loop.dev \in Devices
  BY <1>1, LoopFacts
<1>3. PICK ok \in BOOLEAN : Reading(ok) /\ Reload(loop.dev, "naming", "session", ok)
  BY DEF HelloRead
<1> QED BY <1>1, <1>2, <1>3, ReloadKeeps

LEMMA ReloadedKeeps == ASSUME StoreInv, Reloaded PROVE StoreInv'
<1>1. /\ loop.at = "reloading" /\ Seen("loop") /\ UNCHANGED <<fs, panel, minted, past>>
      /\ loop' = [loop EXCEPT !.at = loop.then, !.then = "idle"]
  BY DEF Reloaded
<1>2. Quiet /\ ~Writing("loop")
  BY <1>1, LoopFacts, SeenQuiet
<1>3. loop \in Loops /\ loop.then \in {"pairing", "known", "naming"} /\ loop.dev \in Devices
  BY <1>1, LoopFacts
<1>4. /\ loop' \in Loops /\ loop'.at = loop.then /\ loop'.dev = loop.dev /\ loop'.backed = loop.backed
      /\ loop'.id = loop.id /\ loop'.peers = loop.peers
  BY <1>1, <1>3 DEF Loops, Places
<1>5. ASSUME NEW e \in Devices, loop'.backed, fate[e] = "firm"
      PROVE  e \notin Keys(loop'.peers)
  <2>1. InHand(e)
    BY <1>1 DEF InHand
  <2> QED BY <1>4, <1>5, <2>1 DEF StoreInv, FirmlyOff
<1>6. UNCHANGED <<fate, removed, faults>>
  BY <1>1 DEF past
<1>7. loop'.backed /\ Content = Corrupt => loop'.at # "naming" /\ loop'.at # "renaming"
  BY <1>1, <1>3, <1>4, LoopFacts DEF InRename
<1> QED BY <1>1, <1>2, <1>3, <1>4, <1>5, <1>6, <1>7, LoopFacts, SameTally, LoopMoves

LEMMA HangsUpKeeps == ASSUME StoreInv, HangsUp PROVE StoreInv'
<1>1. /\ loop.at \in {"pairing", "known", "greeting", "session"} /\ UNCHANGED <<fs, save, panel, minted, past>>
      /\ loop' = [loop EXCEPT !.at = "idle", !.dev = NoFile]
  BY DEF HangsUp
<1>2. Quiet /\ ~Writing("loop")
  BY <1>1, LoopFacts, SameQuiet
<1>3. loop' \in Loops /\ loop'.at = "idle" /\ loop'.backed = loop.backed /\ loop'.id = loop.id
  BY <1>1, LoopFacts DEF Loops, Places
<1>4. \A d \in Devices : ~InHand(d)'
  BY <1>3 DEF InHand
<1>5. UNCHANGED <<fate, removed, faults>>
  BY <1>1 DEF past
<1> QED BY <1>1, <1>2, <1>3, <1>4, <1>5, LoopFacts, SameTally, LoopMoves

LEMMA KeyKeeps == ASSUME StoreInv, KeyChecked PROVE StoreInv'
<1>1. /\ loop.at = "known" /\ UNCHANGED <<fs, save, panel, minted, past>>
      /\ loop' = IF loop.dev \in Keys(loop.peers) THEN [loop EXCEPT !.at = "greeting"]
                 ELSE [loop EXCEPT !.at = "idle", !.dev = NoFile]
  BY DEF KeyChecked
<1>2. Quiet /\ ~Writing("loop")
  BY <1>1, LoopFacts, SameQuiet
<1>3. /\ loop' \in Loops /\ loop'.backed = loop.backed /\ loop'.id = loop.id
      /\ loop'.at = "idle" \/ (loop'.at = "greeting" /\ loop'.dev = loop.dev)
  BY <1>1, LoopFacts DEF Loops, Places
<1>4. \A d \in Devices : ~InHand(d)'
  BY <1>3 DEF InHand
<1>5. UNCHANGED <<fate, removed, faults>>
  BY <1>1 DEF past
<1> QED BY <1>1, <1>2, <1>3, <1>4, <1>5, LoopFacts, SameTally, LoopMoves

(* remember and relabel, saved.                                            *)
LEMMA SavedKeeps == ASSUME StoreInv, Remembered \/ RelabelSaved PROVE StoreInv'
<1>1. /\ loop.at \in {"remembering", "renaming"} /\ Seen("loop") /\ UNCHANGED <<fs, panel, minted, past>>
      /\ \E at \in {"greeting", "session"} : loop' = [loop EXCEPT !.at = at]
  BY DEF Remembered, RelabelSaved
<1>2. Quiet /\ ~Writing("loop")
  BY <1>1, LoopFacts, SeenQuiet
<1>3. /\ loop' \in Loops /\ loop'.at \in {"greeting", "session"} /\ loop'.dev = loop.dev
      /\ loop'.backed = loop.backed /\ loop'.id = loop.id
  BY <1>1, LoopFacts DEF Loops, Places
<1>4. \A d \in Devices : ~InHand(d)'
  BY <1>3 DEF InHand
<1>5. UNCHANGED <<fate, removed, faults>>
  BY <1>1 DEF past
<1> QED BY <1>1, <1>2, <1>3, <1>4, <1>5, LoopFacts, SameTally, LoopMoves

(* The loop saves a list of its own, over the file it has.                 *)
LEMMA ListSaved ==
  ASSUME Overlap = FALSE, StoreInv, loop.at \in {"pairing", "naming"}, loop.backed, MayStart,
         NEW s \in Lists, NEW at \in {"remembering", "renaming"},
         loop' = [loop EXCEPT !.at = at, !.peers = s], BeginSave("loop", TextOf(loop.id, s)),
         UNCHANGED <<fs, panel, minted, removed, faults>>,
         fate' \in [Devices -> {"no", "firm", "raced", "undone"}], \A d \in Devices : fate'[d] = "firm" => fate[d] = "firm",
         \A d \in Devices : fate'[d] = "firm" /\ d \notin Keys(loop.peers) => d \notin Keys(s),
         Content = Corrupt => at = "remembering"
  PROVE  StoreInv'
<1> DEFINE t == TextOf(loop.id, s)
<1>1. loop \in Loops /\ loop.id \in 1 .. minted /\ loop.dev \in Devices /\ minted \in Nat
  BY LoopFacts
<1>2. t \in Texts /\ t[1].identity = loop.id /\ Tail(t) = s
  BY <1>1, FileFacts, TextFacts
<1>3. BeginSave("loop", t)
  OBVIOUS
<1> HIDE DEF t
<1>4. /\ loop' \in Loops /\ loop'.at = at /\ loop'.dev = loop.dev /\ loop'.backed = loop.backed
      /\ loop'.id = loop.id /\ loop'.peers = s
  BY <1>1 DEF Loops, Places
<1>5. \A p \in Procs : ~Writing(p)
  BY Free
<1>6. removed \/ (~Missing /\ (Readable => loop.id = DiskIdentity))
  <2> SUFFICES ASSUME ~removed PROVE ~Missing /\ (Readable => loop.id = DiskIdentity)
    BY DEF StoreInv, StoreShape
  <2>1. Belongs
    BY DEF Belongs
  <2> QED BY <2>1 DEF StoreInv, OneIdentity
<1>7. \A d \in Devices : fate'[d] = "firm" => d \notin Keys(s)
  <2> TAKE d \in Devices
  <2> HAVE fate'[d] = "firm"
  <2>1. InHand(d)
    BY DEF InHand
  <2>2. d \notin Keys(loop.peers)
    BY <2>1 DEF StoreInv, FirmlyOff
  <2> QED BY <2>2
<1>a. Tallied /\ UNCHANGED <<dir, data, synced>>
  BY SameTally DEF fs
<1>8. StoreShape' /\ LoopPlace' /\ SaveProgress' /\ FileWhole' /\ MintedFew'
  BY <1>1, <1>2, <1>3, <1>4, <1>5, <1>a, LoopFacts, BeginStep
<1>9. OneIdentity' /\ FirmlyOff'
  BY <1>2, <1>3, <1>4, <1>5, <1>6, <1>7, <1>a, LoopFacts, BeginKeeps
<1> QED BY <1>8, <1>9 DEF StoreInv

LEMMA PinKeeps == ASSUME Overlap = FALSE, StoreInv, PinProven PROVE StoreInv'
<1> DEFINE s == Append(Without(loop.peers, loop.dev), PeerLine(loop.dev, FALSE))
<1>1. /\ loop.at = "pairing" /\ fate' = [fate EXCEPT ![loop.dev] = "no"] /\ UNCHANGED <<fs, panel, minted, removed, faults>>
      /\ loop' = [loop EXCEPT !.at = IF loop.backed THEN "remembering" ELSE "greeting", !.peers = s]
      /\ IF loop.backed THEN MayStart /\ BeginSave("loop", TextOf(loop.id, s)) ELSE UNCHANGED save
  BY DEF PinProven
<1>2. loop \in Loops /\ loop.dev \in Devices /\ loop.peers \in Lists /\ fate \in [Devices -> {"no", "firm", "raced", "undone"}]
  BY <1>1, LoopFacts
<1>3. s \in Lists /\ Keys(s) \subseteq Keys(loop.peers) \cup {loop.dev}
  BY <1>2, PairedList
<1> HIDE DEF s
<1>4. /\ fate' \in [Devices -> {"no", "firm", "raced", "undone"}]
      /\ \A d \in Devices : fate'[d] = "firm" => fate[d] = "firm" /\ d # loop.dev
  BY <1>1, <1>2
<1>5. CASE loop.backed
  <2>1. loop' = [loop EXCEPT !.at = "remembering", !.peers = s] /\ MayStart /\ BeginSave("loop", TextOf(loop.id, s))
    BY <1>1, <1>5
  <2>2. \A d \in Devices : fate'[d] = "firm" /\ d \notin Keys(loop.peers) => d \notin Keys(s)
    BY <1>3, <1>4
  <2> QED BY <1>1, <1>3, <1>4, <1>5, <2>1, <2>2, ListSaved
<1>6. CASE ~loop.backed
  <2>1. loop' = [loop EXCEPT !.at = "greeting", !.peers = s] /\ UNCHANGED save
    BY <1>1, <1>6
  <2>2. loop' \in Loops /\ loop'.at = "greeting" /\ loop'.dev = loop.dev /\ ~loop'.backed
    BY <1>2, <1>3, <1>6, <2>1 DEF Loops, Places
  <2>3. Quiet /\ ~Writing("loop")
    BY <1>1, <2>1, LoopFacts, SameQuiet
  <2> QED BY <1>1, <1>2, <1>4, <2>2, <2>3, LoopFacts, SameTally, LoopMoves
<1> QED BY <1>5, <1>6

LEMMA RelabelKeeps == ASSUME Overlap = FALSE, StoreInv, Relabel PROVE StoreInv'
<1> DEFINE s == Renamed(loop.peers, loop.dev)
<1>1. loop.at = "naming" /\ UNCHANGED <<fs, panel, minted, fate, removed, faults>>
  BY DEF Relabel, past
<1>2. loop \in Loops /\ loop.dev \in Devices /\ loop.peers \in Lists /\ fate \in [Devices -> {"no", "firm", "raced", "undone"}]
  BY <1>1, LoopFacts
<1>3. s \in Lists /\ Keys(s) = Keys(loop.peers)
  BY <1>2, RenamedList
<1>4. CASE loop.backed /\ s # loop.peers
  <2>1. MayStart /\ loop' = [loop EXCEPT !.at = "renaming", !.peers = s] /\ BeginSave("loop", TextOf(loop.id, s))
    BY <1>4 DEF Relabel
  <2> HIDE DEF s
  <2>2. Content # Corrupt
    BY <1>1, <1>4, LoopFacts DEF InRename
  <2> QED BY <1>1, <1>2, <1>3, <1>4, <2>1, <2>2, ListSaved
<1>5. CASE ~(loop.backed /\ s # loop.peers)
  <2>1. UNCHANGED save /\ loop' = [loop EXCEPT !.at = "session", !.peers = s]
    BY <1>5 DEF Relabel
  <2> HIDE DEF s
  <2>2. /\ loop' \in Loops /\ loop'.at = "session" /\ loop'.dev = loop.dev
        /\ loop'.backed = loop.backed /\ loop'.id = loop.id
    BY <1>2, <1>3, <2>1 DEF Loops, Places
  <2>3. Quiet /\ ~Writing("loop")
    BY <1>1, <2>1, LoopFacts, SameQuiet
  <2>4. \A d \in Devices : ~InHand(d)'
    BY <2>2 DEF InHand
  <2> QED BY <1>1, <1>2, <2>2, <2>3, <2>4, LoopFacts, SameTally, LoopMoves
<1> QED BY <1>4, <1>5

-----------------------------------------------------------------------------
(* The panel, and the world.                                               *)
LEMMA RefreshesKeep == ASSUME Overlap = FALSE, StoreInv, PanelRefreshes PROVE StoreInv'
<1> DEFINE t == TextOf(minted + 1, <<>>)
<1>1. /\ panel = "idle" /\ Missing /\ MayStart /\ minted' = minted + 1 /\ BeginSave("panel", t)
      /\ panel' = "creating" /\ UNCHANGED <<fs, loop, fate, removed, faults>>
  BY DEF PanelRefreshes, past
<1>2. \A p \in Procs : ~Writing(p)
  BY <1>1, Free
<1>3. minted + 1 \in 1 .. MaxIds
  BY <1>1, <1>2, FileFacts
<1>4. t \in Texts /\ t[1].identity = minted + 1 /\ Tail(t) = <<>>
  BY <1>3, NoDevices, TextFacts
<1> HIDE DEF t
<1>5. Content # Corrupt
  BY <1>1, NoText DEF Content, Files
<1>6. minted + 1 \in 1 .. minted' /\ (loop.backed => loop.id \in 1 .. minted')
  BY <1>1, LoopFacts
<1>a. Tallied /\ UNCHANGED <<dir, data, synced>>
  BY <1>1, SameTally DEF fs
<1>b. ~Readable
  BY <1>1 DEF Readable
<1>7. StoreShape' /\ LoopPlace' /\ SaveProgress' /\ FileWhole' /\ MintedFew'
  BY <1>1, <1>2, <1>4, <1>5, <1>6, <1>a, LoopFacts, BeginStep
<1>8. OneIdentity' /\ FirmlyOff'
  BY <1>1, <1>2, <1>4, <1>a, <1>b, LoopFacts, BeginKeeps
<1> QED BY <1>7, <1>8 DEF StoreInv

LEMMA ForgetKeeps == ASSUME Overlap = FALSE, StoreInv, ForgetAll PROVE StoreInv'
<1> DEFINE t == TextOf(DiskIdentity, <<>>)
<1>1. /\ panel = "idle" /\ Readable /\ MayStart /\ BeginSave("panel", t)
      /\ panel' = "forgetting" /\ UNCHANGED <<fs, loop, minted, fate, removed, faults>>
  BY DEF ForgetAll, past
<1>2. \A p \in Procs : ~Writing(p)
  BY <1>1, Free
<1>3. DiskIdentity \in 1 .. minted /\ Content # Corrupt
  BY <1>1, FileFacts DEF StoreInv, FileWhole
<1>4. t \in Texts /\ t[1].identity = DiskIdentity /\ Tail(t) = <<>>
  BY <1>3, FileFacts, NoDevices, TextFacts
<1> HIDE DEF t
<1>a. Tallied /\ UNCHANGED <<dir, data, synced>>
  BY <1>1, SameTally DEF fs
<1>5. StoreShape' /\ LoopPlace' /\ SaveProgress' /\ FileWhole' /\ MintedFew'
  BY <1>1, <1>2, <1>3, <1>4, <1>a, LoopFacts, BeginStep
<1>6. OneIdentity' /\ FirmlyOff'
  BY <1>1, <1>2, <1>4, <1>a, LoopFacts, BeginKeeps
<1> QED BY <1>5, <1>6 DEF StoreInv

LEMMA PanelSees == ASSUME StoreInv, PanelCreated \/ Forgot PROVE StoreInv'
<1>1. panel' = "idle" /\ Seen("panel") /\ UNCHANGED <<fs, loop, minted, fate, removed, faults>>
  BY DEF PanelCreated, Forgot, past
<1>2. Quiet /\ ~Writing("panel")
  BY <1>1, LoopFacts, SeenQuiet
<1>a. /\ Tallied /\ UNCHANGED <<dir, data, synced>>
      /\ loop'.backed /\ Content = Corrupt => ~InRename'
  BY <1>1, SameTally, LoopFacts DEF fs, InRename
<1>3. StoreShape' /\ LoopPlace' /\ SaveProgress' /\ FileWhole' /\ MintedFew'
  BY <1>1, <1>2, <1>a, LoopFacts, QuietStep
<1>4. save'["loop"].step = save["loop"].step
  <2>1. save \in [Procs -> Saves] /\ EndSave("panel", "none")
    BY <1>1 DEF StoreInv, StoreShape, Seen
  <2> QED BY <2>1 DEF EndSave, Procs
<1>5. \A d \in Devices : InHand(d)' <=> InHand(d)
  BY <1>1 DEF InHand
<1>6. \A d \in Devices : loop'.backed /\ fate'[d] = "firm" /\ InHand(d)' => d \notin Keys(loop'.peers)
  BY <1>1, <1>5 DEF StoreInv, FirmlyOff
<1>7. loop'.at # "creating" /\ loop'.backed =>
           \/ Readable /\ loop'.id = DiskIdentity
           \/ /\ loop.backed /\ loop'.id = loop.id
              /\ loop.at # "creating" \/ save["loop"].step = "done"
  BY <1>1
<1>8. OneIdentity' /\ FirmlyOff'
  BY <1>1, <1>2, <1>a, <1>4, <1>6, <1>7, QuietKeeps
<1> QED BY <1>3, <1>8 DEF StoreInv

(* The file and all it may come back as are whole texts.                   *)
LEMMA FilesAre ==
  ASSUME NEW t \in Files
  PROVE  t \in Seq(Lines) /\ (Parses(t) <=> t \in Texts) /\ (t \in Texts <=> t # Corrupt) /\ t # NoFile
<1>1. CASE t \in Texts
  BY <1>1, TextsAre, NoText
<1>2. CASE t = Corrupt
  BY <1>2, TextsAre, CorruptFacts, NoText
<1> QED BY <1>1, <1>2 DEF Files

LEMMA DiskIs ==
  ASSUME StoreInv
  PROVE  /\ OnDisk = {Content} /\ Content \in Files \cup {NoFile}
         /\ Missing <=> Content = NoFile
<1>1. CASE Missing
  BY <1>1 DEF OnDisk, Content
<1>2. CASE ~Missing
  <2>1. dir.path \in synced /\ Content \in Files /\ Content = data[dir.path]
    BY <1>2 DEF StoreInv, FileWhole, Content
  <2>2. OnDisk = {Content} /\ Content # NoFile
    BY <1>2, <2>1, FilesAre DEF OnDisk, Remains
  <2> QED BY <1>2, <2>1, <2>2
<1> QED BY <1>1, <1>2

(* What a power cut leaves.                                                *)
LEMMA CutFacts ==
  ASSUME StoreInv, EarlierWhole, PowerCut
  PROVE  /\ dir' \in [path : Inodes \cup {NoFile}, tmp : Inodes \cup {NoFile}]
         /\ dir'.path = dir'.tmp => dir'.path = NoFile
         /\ data' \in [Inodes -> Seq(Lines)]
         /\ Content' \in {Content} \cup earlier /\ Content' \in Files \cup {NoFile}
         /\ Missing' <=> Content' = NoFile
         /\ Readable' <=> Content' \in Texts
         /\ Readable' => DiskPeers' = Tail(Content') /\ DiskIdentity' = Content'[1].identity
<1> DEFINE i == IF Missing THEN FreeInode ELSE dir.path
<1>1. PICK kept \in OnDisk \cup earlier :
        /\ dir' = [dir EXCEPT !.path = IF kept = NoFile THEN NoFile ELSE i]
        /\ data' = [j \in Inodes |-> IF kept # NoFile /\ j = i THEN kept ELSE <<>>]
  BY DEF PowerCut
<1>2. StoreShape /\ SaveProgress
  BY DEF StoreInv
<1>3. kept \in {Content} \cup earlier /\ kept \in Files \cup {NoFile}
  BY <1>1, DiskIs DEF EarlierWhole
<1>4. i \in Inodes /\ i # dir.tmp
  <2>1. CASE ~Missing
    BY <1>2, <2>1 DEF StoreShape, Missing
  <2>2. CASE Missing
    <3>1. \A p \in Procs : save[p].fd \in {NoFile, dir.tmp}
      BY <1>2 DEF SaveProgress
    <3>2. /\ save["loop"].fd \in {NoFile, dir.tmp} /\ save["panel"].fd \in {NoFile, dir.tmp}
          /\ dir.path = NoFile /\ dir.tmp \in Inodes \cup {NoFile}
      BY <1>2, <2>2, <3>1 DEF StoreShape, Procs, Missing
    <3>3. \E j \in Inodes : j # NoFile /\ j # dir.tmp
      BY <3>2, StoreAssumption
    <3>4. \E j \in Inodes : j \notin {dir.path, dir.tmp, save["loop"].fd, save["panel"].fd}
      BY <3>2, <3>3
    <3>5. FreeInode \in Inodes /\ FreeInode \notin {dir.path, dir.tmp, save["loop"].fd, save["panel"].fd}
      BY <3>4 DEF FreeInode
    <3> QED BY <2>2, <3>5
  <2> QED BY <2>1, <2>2
<1> HIDE DEF i
<1>5. /\ dir'.path = (IF kept = NoFile THEN NoFile ELSE i) /\ dir'.tmp = dir.tmp
      /\ dir' \in [path : Inodes \cup {NoFile}, tmp : Inodes \cup {NoFile}]
  BY <1>1, <1>2, <1>4 DEF StoreShape
<1>6. data' \in [Inodes -> Seq(Lines)]
  <2>1. <<>> \in Seq(Lines)
    OBVIOUS
  <2>2. kept # NoFile => kept \in Seq(Lines)
    BY <1>3, FilesAre
  <2> QED BY <1>1, <2>1, <2>2
<1>7. Content' = kept /\ (Missing' <=> kept = NoFile)
  <2>1. i # NoFile
    BY <1>4, StoreAssumption
  <2> QED BY <1>1, <1>4, <1>5, <2>1 DEF Missing, Content
<1>8. Readable' <=> Content' \in Texts
  BY <1>3, <1>7, FilesAre, NoText DEF Readable, Parses, Files
<1>9. Readable' => DiskPeers' = Tail(Content') /\ DiskIdentity' = Content'[1].identity
  BY DEF DiskPeers, DiskIdentity
<1> QED BY <1>3, <1>4, <1>5, <1>6, <1>7, <1>8, <1>9, StoreAssumption

LEMMA CutKeeps == ASSUME StoreInv, EarlierWhole, PowerCut PROVE StoreInv'
<1>1. /\ faults < MaxFaults /\ faults' = faults + 1 /\ synced' = {dir'.path} \ {NoFile}
      /\ save' = [p \in Procs |-> NotSaving] /\ loop' = Down /\ panel' = "idle"
      /\ UNCHANGED <<minted, removed>>
      /\ fate' = [d \in Devices |-> IF fate[d] # "no" /\ d \in Keys(DiskPeers') THEN "undone" ELSE fate[d]]
  BY DEF PowerCut, Fault
<1>2. StoreShape /\ FileWhole /\ MintedFew
  BY DEF StoreInv
<1>3. \A p \in Procs : save'[p] = NotSaving /\ ~Writing(p)'
  BY <1>1 DEF Writing, NotSaving
<1>4. faults' \in 0 .. MaxFaults /\ minted \in Nat /\ minted <= faults' /\ minted <= 1 + faults'
  BY <1>1, <1>2, Bounds DEF StoreShape, MintedFew
<1>5. /\ Down \in Loops /\ Down.at = "down" /\ Down.backed = FALSE
  BY NoDevices DEF Down, Loops, Places
<1>6. StoreShape'
  <2>1. NotSaving \in Saves
    BY DEF NotSaving, Saves
  <2>2. save' \in [Procs -> Saves]
    BY <1>1, <2>1
  <2>3. synced' \subseteq Inodes
    BY <1>1, CutFacts
  <2>4. fate' \in [Devices -> {"no", "firm", "raced", "undone"}]
    BY <1>1, <1>2 DEF StoreShape
  <2> QED BY <1>1, <1>2, <1>4, <1>5, <2>2, <2>3, <2>4, CutFacts DEF StoreShape
<1>7. LoopPlace'
  BY <1>1, <1>3, <1>5 DEF LoopPlace, Procs
<1>8. SaveProgress'
  BY <1>3 DEF SaveProgress, NotSaving
<1>9. FileWhole'
  <2>1. ~Missing' => dir'.path \in synced' /\ Content' \in Files
    BY <1>1, CutFacts DEF Missing
  <2>2. ASSUME Readable' PROVE DiskIdentity' \in 1 .. minted'
    <3>1. Content' \in Texts /\ DiskIdentity' = Content'[1].identity
      BY <2>2, CutFacts
    <3>2. Content' \in earlier => Content'[1].identity \in 1 .. minted
      BY <3>1 DEF EarlierWhole
    <3>3. Content' = Content => Content'[1].identity \in 1 .. minted
      BY <1>2, <3>1, FileFacts, DiskIs, FilesAre, NoText DEF FileWhole, Files
    <3> QED BY <1>1, <3>1, <3>2, <3>3, CutFacts
  <2> QED BY <1>1, <1>3, <1>5, <2>1, <2>2 DEF FileWhole, Procs
<1>10. MintedFew'
  BY <1>1, <1>4 DEF MintedFew
<1>11. OneIdentity'
  BY <1>1, <1>3, <1>5 DEF OneIdentity, Belongs, Procs
<1>12. FirmlyOff'
  <2>1. \A d \in Devices : fate'[d] = "firm" => ~Listed(d)'
    BY <1>1 DEF Listed, Keys
  <2> QED BY <1>1, <1>3, <1>5, <2>1 DEF FirmlyOff, Procs
<1> QED BY <1>6, <1>7, <1>8, <1>9, <1>10, <1>11, <1>12 DEF StoreInv

(* What an edit by hand leaves.                                            *)
LEMMA DamageSeen == ASSUME StoreInv, Damage PROVE ~Missing' /\ Content' = Corrupt /\ ~Readable'
<1>1. dir.path \in Inodes /\ data' = [data EXCEPT ![dir.path] = Corrupt] /\ UNCHANGED dir /\ ~Missing /\ data \in [Inodes -> Seq(Lines)]
  BY DEF StoreInv, StoreShape, Damage, Missing
<1>2. ~Missing' /\ Content' = Corrupt
  BY <1>1 DEF Missing, Content
<1> QED BY <1>2, CorruptFacts DEF Readable, Parses

LEMMA DamageKeeps == ASSUME StoreInv, Damage PROVE StoreInv'
<1>1. /\ faults < MaxFaults /\ faults' = faults + 1 /\ ~Missing /\ ~InRename
      /\ \A p \in Procs : ~Writing(p)
      /\ data' = [data EXCEPT ![dir.path] = Corrupt]
      /\ UNCHANGED <<dir, synced, save, loop, panel, minted, fate, removed>>
  BY DEF Damage, Fault
<1>2. StoreShape /\ LoopPlace /\ SaveProgress /\ FileWhole /\ MintedFew /\ FirmlyOff
  BY DEF StoreInv
<1>3. \A p \in Procs : ~Writing(p)'
  BY <1>1 DEF Writing
<1>4. ~Missing' /\ Content' = Corrupt /\ ~Readable' /\ DiskPeers' = <<>>
  BY DamageSeen DEF DiskPeers
<1>5. faults' \in 0 .. MaxFaults /\ minted \in Nat /\ minted <= 1 + faults'
  BY <1>1, <1>2, Bounds DEF StoreShape, MintedFew
<1>6. StoreShape'
  <2>1. data' \in [Inodes -> Seq(Lines)]
    BY <1>1, <1>2, CorruptFacts DEF StoreShape
  <2> QED BY <1>1, <1>2, <1>5, <2>1 DEF StoreShape
<1>7. LoopPlace'
  BY <1>1, <1>2, <1>3 DEF LoopPlace, Procs
<1>8. SaveProgress'
  <2>1. \A p \in Procs : save[p].step \notin {"open", "write", "sync", "rename"} /\ save[p].fd = NoFile
    BY <1>1, <1>2 DEF SaveProgress, Writing
  <2> QED BY <1>1, <1>3, <2>1 DEF SaveProgress
<1>9. FileWhole'
  BY <1>1, <1>2, <1>3, <1>4 DEF FileWhole, Missing, Files, InRename, Procs
<1>10. MintedFew'
  BY <1>1, <1>4, <1>5 DEF MintedFew
<1>11. OneIdentity'
  BY <1>3, <1>4 DEF OneIdentity, Procs
<1>12. FirmlyOff'
  <2>1. \A d \in Devices : ~Listed(d)'
    BY <1>4, NoDevices DEF Listed, Keys
  <2>2. \A d \in Devices : InHand(d)' <=> InHand(d)
    BY <1>1 DEF InHand
  <2> QED BY <1>1, <1>2, <1>3, <2>1, <2>2 DEF FirmlyOff, Procs, Keys
<1> QED BY <1>6, <1>7, <1>8, <1>9, <1>10, <1>11, <1>12 DEF StoreInv

(* The folder's past is no part of it.                                     *)
LEMMA StoreSame ==
  ASSUME StoreInv, UNCHANGED <<dir, data, synced, save, loop, panel, minted, fate, removed, faults>>
  PROVE  StoreInv'
<1>1. UNCHANGED <<dir, data, synced, save, loop, panel, minted, fate, removed, faults>>
  OBVIOUS
<1>2. /\ Missing' = Missing /\ Content' = Content /\ Readable' = Readable
      /\ DiskPeers' = DiskPeers /\ DiskIdentity' = DiskIdentity /\ \A d : Listed(d)' <=> Listed(d)
  BY <1>1, FileSame
<1>3. \A p : Writing(p)' <=> Writing(p)
  BY <1>1 DEF Writing
<1>4. (InRename' <=> InRename) /\ \A d : InHand(d)' <=> InHand(d)
  BY <1>1 DEF InHand, InRename
<1>5. StoreShape' /\ LoopPlace' /\ SaveProgress'
  BY <1>1, <1>3 DEF StoreInv, StoreShape, LoopPlace, SaveProgress
<1>6. FileWhole'
  BY <1>1, <1>2, <1>3, <1>4 DEF StoreInv, FileWhole
<1>a. MintedFew'
  BY <1>1, <1>2, <1>3 DEF StoreInv, MintedFew
<1>7. OneIdentity'
  BY <1>1, <1>2, <1>3 DEF StoreInv, OneIdentity, Belongs
<1>8. FirmlyOff'
  BY <1>1, <1>2, <1>3, <1>4 DEF StoreInv, FirmlyOff, Keys
<1> QED BY <1>5, <1>6, <1>a, <1>7, <1>8 DEF StoreInv

LEMMA SyncedKeeps == ASSUME StoreInv, FolderSynced PROVE StoreInv'
  BY StoreSame DEF FolderSynced, past

LEMMA DeleteKeeps == ASSUME StoreInv, Delete PROVE StoreInv'
<1>1. /\ faults < MaxFaults /\ faults' = faults + 1 /\ ~Missing /\ removed' = TRUE
      /\ dir' = [dir EXCEPT !.path = NoFile] /\ data' = [data EXCEPT ![dir.path] = <<>>]
      /\ synced' = synced \ {dir.path} /\ fate' = Forgotten /\ UNCHANGED <<save, loop, panel, minted>>
  BY DEF Delete, Fault
<1>2. StoreShape /\ LoopPlace /\ SaveProgress /\ FileWhole /\ MintedFew /\ FirmlyOff
  BY DEF StoreInv
<1>3. dir.path \in Inodes /\ dir.tmp # dir.path /\ dir'.path = NoFile /\ dir'.tmp = dir.tmp
  BY <1>1, <1>2 DEF StoreShape, Missing
<1>4. data' \in [Inodes -> Seq(Lines)] /\ \A i \in Inodes : i # dir.path => data'[i] = data[i]
  <2>1. <<>> \in Seq(Lines)
    OBVIOUS
  <2> QED BY <1>1, <1>2, <2>1 DEF StoreShape
<1>5. Missing' /\ Content' = NoFile /\ ~Readable'
  BY <1>3 DEF Missing, Content, Readable
<1>6. DiskPeers' = <<>>
  BY <1>5 DEF DiskPeers
<1>7. faults' \in 0 .. MaxFaults
  BY <1>1, <1>2, Bounds DEF StoreShape
<1>8. \A p \in Procs : Writing(p)' <=> Writing(p)
  BY <1>1 DEF Writing
<1>9. StoreShape'
  <2>1. /\ dir' \in [path : Inodes \cup {NoFile}, tmp : Inodes \cup {NoFile}]
        /\ dir'.path = dir'.tmp => dir'.path = NoFile
    BY <1>1, <1>2 DEF StoreShape
  <2>2. Forgotten \in [Devices -> {"no", "firm", "raced", "undone"}]
    BY DEF Forgotten
  <2> QED BY <1>1, <1>2, <1>4, <1>7, <2>1, <2>2 DEF StoreShape
<1>10. LoopPlace'
  BY <1>1, <1>2, <1>8 DEF LoopPlace, Procs
<1>11. SaveProgress'
  <2>1. \A p \in Procs : save[p].step \in {"write", "sync", "rename"} => dir.tmp \in Inodes
    BY <1>2 DEF SaveProgress, StoreShape
  <2>2. ASSUME NEW p \in Procs
        PROVE  /\ Writing(p)' => save'[p].text \in Texts /\ save'[p].text[1].identity \in 1 .. minted'
               /\ IF save'[p].step \in {"write", "sync", "rename"}
                  THEN dir'.tmp # NoFile /\ save'[p].fd = dir'.tmp
                  ELSE save'[p].fd = NoFile
               /\ save'[p].step = "write" => data'[dir'.tmp] = <<>>
               /\ save'[p].step \in {"sync", "rename"} => data'[dir'.tmp] = save'[p].text
               /\ save'[p].step = "rename" => dir'.tmp \in synced'
    BY <1>1, <1>2, <1>3, <1>4, <1>8, <2>1 DEF SaveProgress
  <2> QED BY <1>2, <1>8, <2>2 DEF SaveProgress
<1>12. FileWhole'
  BY <1>5, NoText DEF FileWhole, Files
<1>13. MintedFew'
  <2>1. minted \in Nat /\ faults \in Nat /\ minted <= 1 + faults
    BY <1>2, Bounds DEF MintedFew, StoreShape
  <2>2. minted <= faults' /\ minted <= 1 + faults'
    BY <1>1, <2>1
  <2> QED BY <1>1, <2>2 DEF MintedFew
<1>14. OneIdentity'
  BY <1>1, <1>8 DEF OneIdentity, StoreInv, Procs
<1>15. FirmlyOff'
  <2>1. \A d \in Devices : ~Listed(d)'
    BY <1>6, NoDevices DEF Listed, Keys
  <2>2. ASSUME NEW d \in Devices, fate'[d] = "firm"
        PROVE  /\ ~InHand(d)'
               /\ \A p \in Procs : Writing(p) => d \notin Keys(Tail(save[p].text))
    <3>1. ~InHand(d)
      BY <1>1, <2>2 DEF Forgotten
    <3>2. ~InHand(d)'
      BY <1>1, <3>1 DEF InHand
    <3>3. Writing("loop") => loop.at = "creating"
      BY <1>2, <3>1 DEF LoopPlace, InHand
    <3>4. ASSUME NEW p \in Procs, Writing(p) PROVE Tail(save[p].text) = <<>>
      BY <1>2, <3>3, <3>4 DEF FirmlyOff, Procs
    <3> QED BY <3>2, <3>4, NoDevices
  <2>3. /\ Writing("panel")' => Tail(save'["panel"].text) = <<>>
        /\ Writing("loop")' /\ loop'.at = "creating" => Tail(save'["loop"].text) = <<>>
    BY <1>1, <1>2, <1>8 DEF FirmlyOff, Procs
  <2> QED BY <1>1, <1>8, <2>1, <2>2, <2>3 DEF FirmlyOff, Keys
<1> QED BY <1>9, <1>10, <1>11, <1>12, <1>13, <1>14, <1>15 DEF StoreInv

LEMMA StoreStarts == StoreInit => StoreInv
<1> SUFFICES ASSUME StoreInit PROVE StoreInv
  OBVIOUS
<1>1. PICK text \in {TextOf(1, <<>>), Corrupt} : data = [i \in Inodes |-> IF i = dir.path THEN text ELSE <<>>]
  BY DEF StoreInit
<1>0. dir \in [path : {NoFile, CHOOSE i \in Inodes : TRUE}, tmp : {NoFile}]
  BY DEF StoreInit
<1>2. /\ synced = {dir.path} \ {NoFile} /\ save = [p \in Procs |-> NotSaving] /\ loop = Down /\ panel = "idle"
      /\ minted = (IF Missing THEN 0 ELSE 1) /\ fate = [d \in Devices |-> "no"] /\ removed = FALSE /\ faults = 0
  BY DEF StoreInit
<1>3. dir.tmp = NoFile /\ dir.path \in Inodes \cup {NoFile} /\ NoFile \notin Inodes
  BY <1>0, StoreAssumption
<1>4. 1 \in 1 .. MaxIds
  BY Bounds
<1>5. /\ TextOf(1, <<>>) \in Texts /\ TextOf(1, <<>>)[1].identity = 1
      /\ Tail(TextOf(1, <<>>)) = <<>> /\ Parses(TextOf(1, <<>>)) /\ TextOf(1, <<>>) # Corrupt
      /\ text \in Seq(Lines)
  BY <1>4, NoDevices, TextFacts, CorruptFacts
<1>6. data \in [Inodes -> Seq(Lines)]
  <2>1. <<>> \in Seq(Lines)
    OBVIOUS
  <2> QED BY <1>1, <1>5, <2>1
<1>7. \A p \in Procs : save[p] = NotSaving /\ ~Writing(p)
  BY <1>2 DEF Writing, NotSaving
<1>8. /\ Down \in Loops /\ Down.at = "down" /\ Down.backed = FALSE
  BY NoDevices DEF Down, Loops, Places
<1>9. ~Missing => Content = text /\ dir.path \in Inodes
  BY <1>1, <1>3 DEF Missing, Content
<1>10. StoreShape
  <2>1. NotSaving \in Saves
    BY DEF NotSaving, Saves
  <2>2. save \in [Procs -> Saves]
    BY <1>2, <2>1
  <2>3. dir \in [path : Inodes \cup {NoFile}, tmp : Inodes \cup {NoFile}]
    <3> DEFINE first == CHOOSE i \in Inodes : TRUE
    <3>1. first \in Inodes
      BY StoreAssumption
    <3>2. dir \in [path : {NoFile, first}, tmp : {NoFile}]
      BY <1>0
    <3> HIDE DEF first
    <3>3. PICK x \in {NoFile, first} : dir = [path |-> x, tmp |-> NoFile]
      BY <3>2
    <3>4. x \in Inodes \cup {NoFile}
      BY <3>1
    <3> QED BY <3>3, <3>4
  <2>4. synced \subseteq Inodes /\ (dir.path = dir.tmp => dir.path = NoFile)
    BY <1>2, <1>3
  <2>a. minted \in Nat
    BY <1>2
  <2>b. 0 \in 0 .. MaxFaults
    BY Bounds
  <2>5. /\ panel \in {"idle", "creating", "forgetting"} /\ minted \in Nat /\ faults \in 0 .. MaxFaults
        /\ removed \in BOOLEAN
    BY <1>2, <2>a, <2>b
  <2>6. fate \in [Devices -> {"no", "firm", "raced", "undone"}] /\ loop \in Loops
    BY <1>2, <1>8
  <2> QED BY <1>6, <2>2, <2>3, <2>4, <2>5, <2>6 DEF StoreShape
<1>11. LoopPlace
  BY <1>2, <1>7, <1>8 DEF LoopPlace, Procs
<1>12. SaveProgress
  BY <1>7 DEF SaveProgress, NotSaving
<1>13. FileWhole
  <2>1. ~Missing => dir.path \in synced /\ Content \in Files
    BY <1>2, <1>5, <1>9 DEF Missing, Files
  <2>2. Readable => DiskIdentity = 1 /\ ~Missing
    BY <1>5, <1>9, CorruptFacts DEF Readable, DiskIdentity
  <2>3. Readable => DiskIdentity \in 1 .. minted
    BY <1>2, <2>2
  <2>4. ~Writing("panel") /\ ~Writing("loop") /\ ~loop.backed
    BY <1>2, <1>7, <1>8 DEF Procs
  <2> QED BY <2>1, <2>3, <2>4 DEF FileWhole
<1>14. MintedFew
  BY <1>2 DEF MintedFew
<1>15. OneIdentity
  BY <1>2, <1>7, <1>8 DEF OneIdentity, Belongs
<1>16. FirmlyOff
  BY <1>2, <1>7 DEF FirmlyOff, Procs
<1> QED BY <1>10, <1>11, <1>12, <1>13, <1>14, <1>15, <1>16 DEF StoreInv

LEMMA StoreStep == ASSUME Overlap = FALSE, StoreInv, EarlierWhole, StoreNext PROVE StoreInv'
<1>1. CASE \E p \in Procs : Saving(p)
  BY <1>1, OpenKeeps, WriteKeeps, FailKeeps, SyncKeeps, RenameKeeps DEF Saving
<1>2. CASE Loop
  <2>1. CASE LoopStarts \/ LoopCreated \/ Reloaded \/ HangsUp
    BY <2>1, StartsKeep, CreatedKeeps, ReloadedKeeps, HangsUpKeeps
  <2>2. CASE \E d \in Devices, mode \in {"pairing", "known"} : Connects(d, mode)
    BY <2>2, ConnectsKeep
  <2>3. CASE PinProven \/ Remembered \/ KeyChecked \/ HelloRead \/ Relabel \/ RelabelSaved
    BY <2>3, PinKeeps, SavedKeeps, KeyKeeps, HelloKeeps, RelabelKeeps
  <2> QED BY <1>2, <2>1, <2>2, <2>3 DEF Loop
<1>3. CASE Panel
  BY <1>3, RefreshesKeep, PanelSees, ForgetKeeps DEF Panel
<1>4. CASE World
  BY <1>4, SyncedKeeps, CutKeeps, DeleteKeeps, DamageKeeps DEF World
<1> QED BY <1>1, <1>2, <1>3, <1>4 DEF StoreNext

-----------------------------------------------------------------------------
(* What one step does to the file and to the saves under way.              *)

(* A step of the loop or the panel leaves the file alone: it starts a      *)
(* save, takes note of one that ended, or does neither.                    *)
Starts(p) == (\A q \in Procs : ~Writing(q)) /\ \E t : BeginSave(p, t)

LEMMA LoopSaves ==
  ASSUME Overlap = FALSE, Loop
  PROVE  UNCHANGED fs /\ (Starts("loop") \/ Seen("loop") \/ UNCHANGED save)
<1>1. CASE LoopStarts
  BY <1>1, Free DEF LoopStarts, OpenStore, Starts
<1>2. CASE LoopCreated \/ Reloaded \/ Remembered \/ RelabelSaved
  BY <1>2 DEF LoopCreated, Reloaded, Remembered, RelabelSaved
<1>3. CASE HangsUp \/ KeyChecked
  BY <1>3 DEF HangsUp, KeyChecked
<1>4. ASSUME NEW d, NEW then, NEW or, NEW ok, Reload(d, then, or, ok) PROVE Starts("loop") \/ UNCHANGED save
  BY <1>4, Free DEF Reload, Starts
<1>5. CASE \E d \in Devices, mode \in {"pairing", "known"} : Connects(d, mode)
  BY <1>4, <1>5 DEF Connects
<1>6. CASE HelloRead
  BY <1>4, <1>6 DEF HelloRead
<1>7. CASE PinProven
  BY <1>7, Free DEF PinProven, Starts
<1>8. CASE Relabel
  BY <1>8, Free DEF Relabel, Starts
<1> QED BY <1>1, <1>2, <1>3, <1>5, <1>6, <1>7, <1>8 DEF Loop

LEMMA PanelSaves ==
  ASSUME Overlap = FALSE, Panel
  PROVE  UNCHANGED <<fs, loop>> /\ (Starts("panel") \/ Seen("panel"))
<1>1. CASE PanelRefreshes \/ ForgetAll
  BY <1>1, Free DEF PanelRefreshes, ForgetAll, Starts
<1>2. CASE PanelCreated \/ Forgot
  BY <1>2 DEF PanelCreated, Forgot
<1> QED BY <1>1, <1>2 DEF Panel

(* Up to the rename, a save touches nothing but the temporary file.        *)
LEMMA SaveHides ==
  ASSUME StoreInv, NEW p \in Procs, SaveOpen(p) \/ SaveWrite(p) \/ SaveFails(p) \/ SaveSync(p)
  PROVE  Missing' = Missing /\ Content' = Content /\ UNCHANGED <<loop, earlier, minted, removed>>
<1>0. SUFFICES Missing' = Missing /\ Content' = Content
  BY DEF SaveOpen, SaveWrite, SaveFails, SaveSync, past
<1>1. StoreShape /\ SaveProgress
  BY DEF StoreInv
<1>2. dir.tmp # NoFile => dir.tmp \in Inodes /\ dir.tmp # dir.path
  BY <1>1 DEF StoreShape
<1>3. CASE SaveOpen(p)
  <2> DEFINE i == IF dir.tmp = NoFile THEN FreeInode ELSE dir.tmp
  <2>1. dir' = [dir EXCEPT !.tmp = i] /\ data' = [data EXCEPT ![i] = <<>>]
    BY <1>3 DEF SaveOpen
  <2>2. i # dir.path
    BY <1>3, TmpIsOther DEF Opened, SaveOpen
  <2> HIDE DEF i
  <2>3. dir'.path = dir.path /\ (dir.path \in Inodes => data'[dir.path] = data[dir.path])
    BY <1>1, <2>1, <2>2 DEF StoreShape
  <2> QED BY <1>1, <2>1, <2>3 DEF StoreShape, Missing, Content
<1>4. CASE SaveWrite(p) \/ SaveFails(p)
  <2>1. save[p].fd = dir.tmp /\ dir.tmp # NoFile
    BY <1>1, <1>4 DEF SaveProgress, SaveWrite, SaveFails
  <2>2. PICK new : data' = [data EXCEPT ![dir.tmp] = new]
    <3>1. CASE SaveWrite(p)
      BY <2>1, <3>1 DEF SaveWrite
    <3>2. CASE SaveFails(p)
      BY <2>1, <3>2 DEF SaveFails
    <3> QED BY <1>4, <3>1, <3>2
  <2>3. UNCHANGED dir
    BY <1>4 DEF SaveWrite, SaveFails
  <2>4. dir.path \in Inodes => data'[dir.path] = data[dir.path]
    BY <1>1, <1>2, <2>1, <2>2 DEF StoreShape
  <2> QED BY <1>1, <2>3, <2>4 DEF StoreShape, Missing, Content
<1>5. CASE SaveSync(p)
  BY <1>5, FileSame DEF SaveSync
<1> QED BY <1>3, <1>4, <1>5

(* Readers see another text only by a rename, a power cut, an edit or a    *)
(* removal.                                                                *)
LEMMA ReadersSee ==
  ASSUME Overlap = FALSE, StoreInv, [StoreNext]_store
  PROVE  \/ (\E p \in Procs : SaveRename(p)) \/ PowerCut \/ Delete \/ Damage
         \/ /\ Missing' = Missing /\ Content' = Content
            /\ earlier' \in {earlier, {}} /\ UNCHANGED removed /\ minted' \in {minted, minted + 1}
<1>1. CASE \E p \in Procs : Saving(p)
  BY <1>1, SaveHides DEF Saving
<1>2. CASE Loop
  <2>1. UNCHANGED <<dir, data, earlier>>
    BY <1>2, LoopSaves DEF fs
  <2>2. UNCHANGED removed /\ minted' \in {minted, minted + 1}
    BY <1>2 DEF Loop, LoopStarts, OpenStore, LoopCreated, Reloaded, HangsUp, Connects, PinProven,
                Remembered, KeyChecked, HelloRead, Relabel, RelabelSaved, past
  <2> QED BY <2>1, <2>2, FileSame
<1>3. CASE Panel
  <2>1. UNCHANGED <<dir, data, earlier>>
    BY <1>3, PanelSaves DEF fs
  <2>2. UNCHANGED removed /\ minted' \in {minted, minted + 1}
    BY <1>3 DEF Panel, PanelRefreshes, PanelCreated, ForgetAll, Forgot, past
  <2> QED BY <2>1, <2>2, FileSame
<1>4. CASE FolderSynced \/ UNCHANGED store
  <2>1. UNCHANGED <<dir, data, minted, removed>> /\ earlier' \in {earlier, {}}
    BY <1>4 DEF FolderSynced, store, past
  <2> QED BY <2>1, FileSame
<1> QED BY <1>1, <1>2, <1>3, <1>4 DEF StoreNext, World

(* A rename puts what was there behind it.                                 *)
LEMMA RenamePast ==
  ASSUME StoreInv, NEW p \in Procs, SaveRename(p)
  PROVE  earlier' = earlier \cup {Content} /\ UNCHANGED <<minted, removed>>
<1>1. dir.tmp # NoFile
  BY DEF SaveRename, StoreInv, SaveProgress
<1> QED BY <1>1, DiskIs DEF SaveRename, Replaced

LEMMA EarlierStep ==
  ASSUME Overlap = FALSE, StoreInv, StoreInv', EarlierWhole, [StoreNext]_store PROVE EarlierWhole'
<1>1. Content \in Files \cup {NoFile} /\ minted \in Nat /\ (Missing <=> Content = NoFile)
  BY DiskIs, LoopFacts
<1>2. CASE \E p \in Procs : SaveRename(p)
  <2>1. PICK p \in Procs : SaveRename(p)
    BY <1>2
  <2>2. /\ earlier' = earlier \cup {Content} /\ UNCHANGED <<minted, removed>>
        /\ Content' = save[p].text /\ ~Missing' /\ Readable' /\ DiskIdentity' = save[p].text[1].identity
        /\ Writing(p) /\ save[p].text \in Texts
    BY <2>1, RenamePast, RenameFacts
  <2>3. Content' # Corrupt
    BY <2>2, TextsAre
  <2>4. Content \in Texts => Readable /\ DiskIdentity = Content[1].identity
    BY <1>1, TextsAre, FileFacts, NoText DEF Files
  <2>5. Content \in Texts => Content[1].identity \in 1 .. minted
    BY <2>4 DEF StoreInv, FileWhole
  <2>6. ASSUME ~removed', NEW t \in earlier', t \in Texts PROVE t[1].identity = DiskIdentity'
    <3>1. CASE t = Content
      BY <2>2, <2>4, <2>6, <3>1 DEF StoreInv, OneIdentity
    <3>2. CASE t # Content
      <4>1. t \in earlier /\ ~Missing /\ Content # Corrupt
        BY <2>2, <2>6, <3>2 DEF EarlierWhole
      <4>2. Readable
        BY <4>1, FileFacts
      <4>3. t[1].identity = DiskIdentity
        BY <2>2, <2>6, <4>1, <4>2 DEF EarlierWhole
      <4> QED BY <2>2, <2>6, <4>2, <4>3 DEF StoreInv, OneIdentity
    <3> QED BY <3>1, <3>2
  <2> QED BY <1>1, <2>2, <2>3, <2>5, <2>6 DEF EarlierWhole
<1>3. CASE Delete
  <2>1. earlier' = earlier \cup {Content} /\ removed' = TRUE /\ minted' = minted
    BY <1>3, DiskIs DEF Delete, Replaced
  <2>2. Content' = NoFile /\ Content' # Corrupt /\ ~Missing
    BY <1>3, NoText DEF StoreInv, StoreShape, Delete, Missing, Content, Files
  <2>3. Content \in Texts => Content[1].identity \in 1 .. minted
    BY <1>1, TextsAre, FileFacts, NoText DEF StoreInv, FileWhole, Files
  <2> QED BY <1>1, <2>1, <2>2, <2>3 DEF EarlierWhole
<1>4. CASE PowerCut \/ Damage
  BY <1>4 DEF PowerCut, Damage, EarlierWhole
<1>5. CASE /\ Missing' = Missing /\ Content' = Content
           /\ earlier' \in {earlier, {}} /\ UNCHANGED removed /\ minted' \in {minted, minted + 1}
  <2>1. Readable' = Readable /\ DiskIdentity' = DiskIdentity
    BY <1>5 DEF Readable, DiskIdentity, Parses
  <2>2. \A n \in 1 .. minted : n \in 1 .. minted'
    BY <1>1, <1>5
  <2> QED BY <1>5, <2>1, <2>2 DEF EarlierWhole
<1> QED BY <1>2, <1>3, <1>4, <1>5, ReadersSee

LEMMA StoreInvariant == ASSUME Overlap = FALSE PROVE StoreSpec => [](StoreInv /\ EarlierWhole)
<1>1. StoreInit => StoreInv /\ EarlierWhole
  BY StoreStarts DEF StoreInit, EarlierWhole
<1>2. ASSUME StoreInv, EarlierWhole, [StoreNext]_store PROVE StoreInv' /\ EarlierWhole'
  <2>1. StoreInv'
    BY <1>2, StoreStep, StoreSame DEF store
  <2> QED BY <1>2, <2>1, EarlierStep
<1> QED BY <1>1, <1>2, PTL DEF StoreSpec

(* The store's variables keep their types; identities never run out.       *)
THEOREM StoreTyped == ASSUME Overlap = FALSE PROVE StoreSpec => []StoreTypes
<1>1. ASSUME StoreInv, EarlierWhole PROVE StoreTypes
  <2>1. StoreShape /\ MintedFew
    BY <1>1 DEF StoreInv
  <2>2. minted \in 0 .. MaxIds
    BY <2>1, Bounds DEF StoreShape, MintedFew
  <2>3. loop.at \in Places /\ loop.peers \in Lists
    BY <2>1 DEF StoreShape, Loops
  <2>4. ASSUME NEW p \in Procs
        PROVE  /\ save[p].step \in {"none", "open", "write", "sync", "rename", "done", "failed"}
               /\ save[p].text \in Texts \cup {<<>>}
               /\ save[p].fd \in Inodes \cup {NoFile}
    BY <2>1 DEF StoreShape, Saves
  <2>5. \A t \in earlier : t = NoFile \/ t \in Seq(Lines)
    BY <1>1, FilesAre DEF EarlierWhole
  <2> QED BY <2>1, <2>2, <2>3, <2>4, <2>5 DEF StoreShape, StoreTypes
<1> QED BY <1>1, StoreInvariant, PTL

(* Until somebody removes or damages the file by hand, its identity is for *)
(* good, power cuts that undo a rename included, once the folder that      *)
(* first named it is on the disk; and a file that does not parse is        *)
(* replaced only by the remembering of a device with a store opened before *)
(* (PairingStore::open, save): the two threads never save at once, and the *)
(* loop's store, and all that may come back, is of the file's identity.    *)
THEOREM FileIsKept == ASSUME Overlap = FALSE PROVE StoreSpec => FileKept
<1>1. ASSUME StoreInv, EarlierWhole, [StoreNext]_store, Readable, NoFile \notin earlier, ~removed'
      PROVE  DiskIdentity' = DiskIdentity \/ Content' = Corrupt
  <2>1. CASE \E p \in Procs : SaveRename(p)
    <3>1. PICK p \in Procs : SaveRename(p)
      BY <2>1
    <3>2. Writing(p) /\ DiskIdentity' = save[p].text[1].identity
      BY <1>1, <3>1, RenameFacts
    <3>3. ~removed /\ ~Missing
      BY <1>1, <3>1 DEF SaveRename, Readable
    <3> QED BY <1>1, <3>2, <3>3 DEF StoreInv, OneIdentity
  <2>2. CASE PowerCut
    <3>1. Content' \in {Content} \cup earlier /\ ~removed
      BY <1>1, <2>2, CutFacts DEF PowerCut
    <3>2. Content \in Texts /\ DiskIdentity = Content[1].identity
      BY <1>1, FileFacts
    <3>3. Content' # NoFile /\ Content' \in Files \cup {NoFile}
      BY <1>1, <2>2, <3>1, <3>2, CutFacts, NoText DEF Files
    <3>4. ASSUME Content' # Corrupt PROVE DiskIdentity' = DiskIdentity
      <4>1. Content' \in Texts
        BY <3>3, <3>4 DEF Files
      <4>2. DiskIdentity' = Content'[1].identity
        BY <1>1, <2>2, <4>1, CutFacts
      <4>3. Content'[1].identity = DiskIdentity
        BY <1>1, <3>1, <3>2, <4>1 DEF EarlierWhole
      <4> QED BY <4>2, <4>3
    <3> QED BY <3>4
  <2>3. CASE Delete
    BY <1>1, <2>3 DEF Delete
  <2>4. CASE Damage
    BY <1>1, <2>4, DamageSeen
  <2>5. CASE Missing' = Missing /\ Content' = Content
    BY <2>5 DEF DiskIdentity, Readable, Parses
  <2> QED BY <1>1, <2>1, <2>2, <2>3, <2>4, <2>5, ReadersSee
<1>2. ASSUME StoreInv, EarlierWhole, [StoreNext]_store, Content = Corrupt, ~Missing'
      PROVE  Content' = Corrupt \/ loop.at = "remembering"
  <2>1. CASE \E p \in Procs : SaveRename(p)
    <3>1. PICK p \in Procs : SaveRename(p)
      BY <2>1
    <3>2. Writing(p)
      BY <1>2, <3>1, RenameFacts
    <3> QED BY <1>2, <3>2 DEF StoreInv, FileWhole, Procs
  <2>2. CASE PowerCut
    <3>1. earlier = {}
      BY <1>2 DEF EarlierWhole
    <3> QED BY <1>2, <2>2, <3>1, CutFacts
  <2>3. CASE Delete
    <3>1. StoreShape
      BY <1>2 DEF StoreInv
    <3>2. Missing'
      BY <2>3, <3>1 DEF Delete, Missing, StoreShape
    <3> QED BY <1>2, <3>2
  <2>4. CASE Damage
    BY <1>2, <2>4, DamageSeen
  <2>5. CASE Missing' = Missing /\ Content' = Content
    BY <1>2, <2>5
  <2> QED BY <1>2, <2>1, <2>2, <2>3, <2>4, <2>5, ReadersSee
<1>3. StoreSpec => IdentityKept
  BY <1>1, StoreInvariant, PTL DEF StoreSpec, IdentityKept
<1>4. StoreSpec => CorruptKept
  BY <1>2, StoreInvariant, PTL DEF StoreSpec, CorruptKept
<1> QED BY <1>3, <1>4 DEF FileKept

(* A device forgotten while the loop had no list in hand is listed again,  *)
(* or let in by a loop that has its file, only after proving the PIN -     *)
(* unless the loop has gone on with an old list after a read that failed,  *)
(* or a power cut has brought back the folder from before.                 *)
THEOREM ForgottenStays == ASSUME Overlap = FALSE PROVE StoreSpec => ForgetHolds
<1>1. StoreInv => ForgottenStayOff
  BY DEF StoreInv, FirmlyOff, ForgottenStayOff
<1>2. ASSUME StoreInv, [StoreNext]_store, LetInUnproven, loop.backed
      PROVE  fate[loop.dev] # "firm"
  <2>1. loop.at = "known" /\ loop'.at = "greeting" /\ loop' # loop
    BY <1>2 DEF LetInUnproven
  <2>2. CASE KeyChecked
    <3>1. loop.dev \in Keys(loop.peers)
      BY <2>1, <2>2, LoopFacts, <1>2 DEF KeyChecked, Loops
    <3>2. loop.dev \in Devices /\ InHand(loop.dev)
      BY <1>2, <2>1, LoopFacts DEF InHand
    <3> QED BY <1>2, <3>1, <3>2 DEF StoreInv, FirmlyOff
  <2>3. CASE \E p \in Procs : Saving(p)
    BY <2>1, <2>3 DEF Saving, SaveOpen, SaveWrite, SaveFails, SaveSync, SaveRename
  <2>4. CASE Panel \/ UNCHANGED store \/ Delete \/ Damage \/ FolderSynced
    BY <2>1, <2>4 DEF Panel, PanelRefreshes, PanelCreated, ForgetAll, Forgot, store, Delete, Damage, FolderSynced
  <2>5. CASE PowerCut
    BY <2>1, <2>5 DEF PowerCut, Down
  <2>6. CASE HangsUp
    BY <1>2, <2>1, <2>6, LoopFacts DEF HangsUp, Loops
  <2>7. CASE Loop /\ ~KeyChecked /\ ~HangsUp
    BY <2>1, <2>7 DEF Loop, LoopStarts, LoopCreated, Reloaded, Connects, PinProven, Remembered,
                      HelloRead, Relabel, RelabelSaved
  <2> QED BY <1>2, <2>2, <2>3, <2>4, <2>5, <2>6, <2>7 DEF StoreNext, World
<1>3. StoreSpec => []ForgottenStayOff
  BY <1>1, StoreInvariant, PTL
<1>4. StoreSpec => ForgottenNeedPin
  BY <1>2, StoreInvariant, PTL DEF StoreSpec, ForgottenNeedPin
<1> QED BY <1>3, <1>4 DEF ForgetHolds

-----------------------------------------------------------------------------
(* write_private's promise, step by step.                                  *)
Pending == [p \in Procs |-> IF Writing(p) THEN save[p].text ELSE <<>>]

LEMMA PendingIs ==
  ASSUME StoreInv
  PROVE  \A p \in Procs : /\ Pending[p] = IF Writing(p) THEN save[p].text ELSE <<>>
                          /\ Writing(p) => Pending[p] \in Texts /\ Pending[p] # <<>>
<1>1. \A p \in Procs : Writing(p) => save[p].text \in Texts
  BY DEF StoreInv, SaveProgress
<1>2. \A t \in Texts : t # <<>>
  BY TextsAre
<1> QED BY <1>1, <1>2 DEF Pending

(* Pending is as it was but for p's.                                       *)
LEMMA PendingBut ==
  ASSUME NEW p \in Procs, \A q \in Procs : q # p => save'[q] = save[q]
  PROVE  Pending' = [Pending EXCEPT ![p] = IF Writing(p)' THEN save'[p].text ELSE <<>>]
<1>1. \A q \in Procs : q # p => (Writing(q)' <=> Writing(q))
  BY DEF Writing
<1>2. \A q \in Procs : q # p => (IF Writing(q)' THEN save'[q].text ELSE <<>>)
                                 = (IF Writing(q) THEN save[q].text ELSE <<>>)
  BY <1>1
<1> QED BY <1>2 DEF Pending

LEMMA BeginRefines ==
  ASSUME StoreInv, StoreInv', NEW p \in Procs, Starts(p), Content' = Content, UNCHANGED earlier PROVE Atomic!Next
<1>1. PICK t : BeginSave(p, t)
  BY DEF Starts
<1>2. save \in [Procs -> Saves] /\ ~Writing(p)
  BY DEF StoreInv, StoreShape, Starts
<1>3. /\ save'[p] = [step |-> "open", text |-> t, fd |-> NoFile]
      /\ \A q \in Procs : q # p => save'[q] = save[q]
  BY <1>1, <1>2 DEF BeginSave
<1>4. Writing(p)'
  BY <1>3 DEF Writing
<1>5. save'[p].text \in Texts
  BY <1>4 DEF StoreInv, SaveProgress
<1>6. Pending' = [Pending EXCEPT ![p] = save'[p].text] /\ Pending[p] = <<>>
  BY <1>2, <1>3, <1>4, PendingBut, PendingIs
<1>7. Atomic!Begin(p)
  BY <1>5, <1>6 DEF Atomic!Begin, Pending, Files
<1> QED BY <1>7 DEF Atomic!Next

LEMMA FailRefines == ASSUME StoreInv, NEW p \in Procs, SaveFails(p) PROVE Atomic!Next
<1>1. save \in [Procs -> Saves] /\ EndSave(p, "failed")
  BY DEF StoreInv, StoreShape, SaveFails
<1>2. ~Writing(p)' /\ \A q \in Procs : q # p => save'[q] = save[q]
  BY <1>1, EndedSave
<1>3. Pending' = [Pending EXCEPT ![p] = <<>>]
  BY <1>2, PendingBut
<1>4. Atomic!Abandon(p)
  BY <1>3, SaveHides DEF Atomic!Abandon, Pending
<1> QED BY <1>4 DEF Atomic!Next

LEMMA RenameRefines == ASSUME StoreInv, NEW p \in Procs, SaveRename(p) PROVE Atomic!Next
<1>1. /\ Writing(p) /\ ~Writing(p)' /\ Content' = save[p].text
      /\ \A q \in Procs : q # p => save'[q] = save[q]
  BY RenameFacts
<1>2. Pending' = [Pending EXCEPT ![p] = <<>>]
  BY <1>1, PendingBut
<1>3. Pending[p] = save[p].text /\ Pending[p] # <<>>
  BY <1>1, PendingIs
<1>4. Atomic!Publish(p)
  BY <1>1, <1>2, <1>3, RenamePast DEF Atomic!Publish, Pending
<1> QED BY <1>4 DEF Atomic!Next

LEMMA CutRefines == ASSUME StoreInv, EarlierWhole, PowerCut PROVE Atomic!Next
<1>1. \A p \in Procs : ~Writing(p)'
  BY DEF PowerCut, Writing, NotSaving
<1>2. Pending' = [p \in Procs |-> <<>>]
  BY <1>1 DEF Pending
<1>3. Content' \in earlier \cup {Content} /\ earlier' = {}
  BY CutFacts DEF PowerCut
<1>4. Atomic!Crash
  BY <1>2, <1>3 DEF Atomic!Crash, Pending
<1> QED BY <1>4 DEF Atomic!Next

(* The same saves are under way, of the same texts.                        *)
LEMMA PendingSame ==
  ASSUME \A p \in Procs : (Writing(p)' <=> Writing(p)) /\ (Writing(p) => save'[p].text = save[p].text)
  PROVE  Pending' = Pending
  BY DEF Pending

LEMMA DeleteRefines == ASSUME StoreInv, Delete PROVE Atomic!Next
<1>1. Content' = NoFile
  BY DEF StoreInv, StoreShape, Delete, Missing, Content
<1>2. Pending' = Pending
  BY PendingSame DEF Delete, Writing
<1>3. earlier' = earlier \cup {Content}
  BY DiskIs DEF Delete, Replaced
<1>4. Atomic!Delete
  BY <1>1, <1>2, <1>3 DEF Atomic!Delete, Pending
<1> QED BY <1>4 DEF Atomic!Next

LEMMA DamageRefines == ASSUME StoreInv, Damage PROVE Atomic!Next
<1>1. Content' \in Files /\ earlier' = {}
  BY DamageSeen DEF Damage, Files
<1>2. Pending' = Pending
  BY PendingSame DEF Damage, Writing
<1>3. Atomic!Edit
  BY <1>1, <1>2 DEF Atomic!Edit, Pending
<1> QED BY <1>3 DEF Atomic!Next

LEMMA SyncedRefines == ASSUME StoreInv, FolderSynced PROVE Atomic!Next
<1>1. Content' = Content /\ earlier' = {}
  BY FileSame DEF FolderSynced
<1>2. Pending' = Pending
  BY PendingSame DEF FolderSynced, Writing
<1>3. Atomic!Settle
  BY <1>1, <1>2 DEF Atomic!Settle, Pending
<1> QED BY <1>3 DEF Atomic!Next

LEMMA StepRefines ==
  ASSUME Overlap = FALSE, StoreInv, EarlierWhole, StoreInv', [StoreNext]_store
  PROVE  Atomic!Next \/ (Content' = Content /\ earlier' = earlier /\ Pending' = Pending)
<1>1. ASSUME NEW p \in Procs, Saving(p)
      PROVE  Atomic!Next \/ (Content' = Content /\ earlier' = earlier /\ Pending' = Pending)
  <2>1. CASE SaveFails(p) \/ SaveRename(p)
    BY <2>1, FailRefines, RenameRefines
  <2>2. CASE SaveOpen(p) \/ SaveWrite(p) \/ SaveSync(p)
    <3>1. save \in [Procs -> Saves]
      BY DEF StoreInv, StoreShape
    <3>2. /\ save[p].step \in {"open", "write", "sync"} /\ save'[p].step \in {"write", "sync", "rename"}
          /\ save'[p].text = save[p].text
          /\ \A q \in Procs : q # p => save'[q] = save[q]
      <4>1. CASE SaveOpen(p)
        BY <3>1, <4>1 DEF SaveOpen, Saves
      <4>2. CASE SaveWrite(p)
        BY <3>1, <4>2 DEF SaveWrite, Saves
      <4>3. CASE SaveSync(p)
        BY <3>1, <4>3 DEF SaveSync, Saves
      <4> QED BY <2>2, <4>1, <4>2, <4>3
    <3>3. \A q \in Procs : (Writing(q)' <=> Writing(q)) /\ (Writing(q) => save'[q].text = save[q].text)
      BY <3>2 DEF Writing
    <3> QED BY <2>2, <3>3, PendingSame, SaveHides
  <2> QED BY <1>1, <2>1, <2>2 DEF Saving
<1>2. ASSUME NEW p \in Procs, Seen(p) \/ UNCHANGED save PROVE Pending' = Pending
  <2>1. Quiet
    BY <1>2, SeenQuiet, SameQuiet
  <2> QED BY <2>1, PendingSame DEF Quiet
<1>3. CASE Loop
  <2>1. Content' = Content /\ earlier' = earlier
    BY <1>3, LoopSaves, FileSame DEF fs
  <2>2. "loop" \in Procs
    BY DEF Procs
  <2> QED BY <1>2, <1>3, <2>1, <2>2, LoopSaves, BeginRefines
<1>4. CASE Panel
  <2>1. Content' = Content /\ earlier' = earlier
    BY <1>4, PanelSaves, FileSame DEF fs
  <2>2. "panel" \in Procs
    BY DEF Procs
  <2> QED BY <1>2, <1>4, <2>1, <2>2, PanelSaves, BeginRefines
<1>5. CASE UNCHANGED store
  <2>1. UNCHANGED <<dir, data, earlier, save>>
    BY <1>5 DEF store
  <2>2. Pending' = Pending
    BY <2>1, PendingSame DEF Writing
  <2> QED BY <2>1, <2>2, FileSame
<1> QED BY <1>1, <1>3, <1>4, <1>5, CutRefines, DeleteRefines, DamageRefines, SyncedRefines DEF StoreNext, World

(* Whatever power cuts and failed writes come between the four system      *)
(* calls of a save, readers see whole texts, each replaced at one moment.  *)
THEOREM SaveIsAtomic == ASSUME Overlap = FALSE PROVE StoreSpec => AtomicReplace
<1>1. ASSUME StoreInit PROVE Atomic!Init
  <2>1. StoreInv
    BY <1>1, StoreStarts
  <2>2. Content \in Files \cup {NoFile} /\ earlier = {}
    BY <1>1, <2>1, DiskIs DEF StoreInit
  <2>3. \A p \in Procs : ~Writing(p)
    BY <1>1 DEF StoreInit, Writing, NotSaving
  <2>4. Pending = [p \in Procs |-> <<>>]
    BY <2>3 DEF Pending
  <2> QED BY <2>2, <2>4 DEF Atomic!Init, Pending
<1>2. ASSUME StoreInv, EarlierWhole, StoreInv', [StoreNext]_store PROVE [Atomic!Next]_(Atomic!vars)
  BY <1>2, StepRefines DEF Atomic!vars, Pending
<1> QED BY <1>1, <1>2, StoreInvariant, PTL DEF StoreSpec, AtomicReplace, Atomic!Spec
=============================================================================
