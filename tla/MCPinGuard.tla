------------------------------ MODULE MCPinGuard ------------------------------
EXTENDS PinGuardBudget

(* The debt of a streak under this instance's schedule.                    *)
MCDebt ==
  LET d[n \in 0..U32_MAX] == IF n = 0 THEN 0 ELSE d[n - 1] + MAX_LOCKOUT - lockout_for(n - 1)
  IN d

(* The same schedule with the numbers guard.rs really has: the doubling    *)
(* reaches the cap at the 13th wrong PIN, the twelve lockouts before it    *)
(* last 511 s in all, and no streak gains more than FORGET_AFTER.          *)
Code == INSTANCE PinGuard WITH FREE_FAILURES <- 3, FIRST_LOCKOUT <- 1, MAX_LOCKOUT <- 300,
                               FORGET_AFTER <- 3600, MAX_SHIFT <- 16, U32_MAX <- 40

CodeDebt[n \in 0..40] == IF n = 0 THEN 0 ELSE CodeDebt[n - 1] + 300 - Code!lockout_for(n - 1)

ASSUME CodeSchedule ==
  /\ [n \in 1..14 |-> Code!lockout_for(n)] = <<0, 0, 0, 1, 2, 4, 8, 16, 32, 64, 128, 256, 300, 300>>
  /\ CodeDebt[13] = 13 * 300 - 511
  /\ \A n \in 0..40 : CodeDebt[n] <= 3600
=============================================================================
