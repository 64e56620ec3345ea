------------------------------- MODULE PinGuard -------------------------------
(***************************************************************************)
(* The wrong-PIN guard of a host (crates/transport/src/guard.rs) together  *)
(* with the discipline its only caller, the accept loop, follows: ask      *)
(* `refuse` as a connection arrives, evaluate at most one PIN on an        *)
(* admitted connection, then report it with `record_failure` or            *)
(* `record_success`.  The loop is single-threaded, so a second connection  *)
(* never arrives while one is being tested, but time passes meanwhile.     *)
(*                                                                         *)
(* Time is counted in whole units of FIRST_LOCKOUT's unit (seconds in the  *)
(* code).  The policy's numbers are constants: the code's are 3 free       *)
(* failures, 1 s doubling to 300 s, forgotten after 3600 s.                *)
(***************************************************************************)
EXTENDS Integers

CONSTANTS
  FREE_FAILURES,  \* wrong PINs in a row that cost nothing
  FIRST_LOCKOUT,  \* the first lockout
  MAX_LOCKOUT,    \* the longest one
  FORGET_AFTER,   \* a quiet spell that forgets the count
  MAX_SHIFT,      \* exponent at which the doubling saturates (16 in the code)
  U32_MAX,        \* where the failure counter saturates
  MaxTime,        \* bound of the model: the clock stops here
  None            \* Option::None

ASSUME PolicyAssumption ==
  /\ FREE_FAILURES \in Nat
  /\ FIRST_LOCKOUT \in Nat \ {0}
  /\ MAX_LOCKOUT \in Nat
  /\ FIRST_LOCKOUT <= MAX_LOCKOUT
  /\ FORGET_AFTER \in Nat
  /\ MAX_LOCKOUT <= FORGET_AFTER
  /\ MAX_SHIFT \in Nat
  /\ U32_MAX \in Nat
  /\ FREE_FAILURES < U32_MAX
  /\ MaxTime \in Nat
  /\ None \notin Int

(* What `1u32 << over.min(16)` can be: a positive number.  True of powers  *)
(* of two; written down because the provers know nothing of ^.             *)
ASSUME ShiftAssumption == \A k \in 0..MAX_SHIFT : 2^k \in Nat \ {0}

VARIABLES
  guard,    \* the PinGuard on the accept loop's stack
  now,      \* Instant::now()
  testing   \* the loop is handshaking an admitted connection

vars == <<guard, now, testing>>

Time == 0..MaxTime
Guards == [failures         : 0..U32_MAX,
           last_failure     : Time \cup {None},
           locked_until     : Nat \cup {None},
           refusal_reported : BOOLEAN]

-----------------------------------------------------------------------------
(* The policy, as functions of a guard and a clock reading.                *)

Smaller(a, b) == IF a <= b THEN a ELSE b
Larger(a, b)  == IF a >= b THEN a ELSE b

PinGuard_default ==
  [failures |-> 0, last_failure |-> None, locked_until |-> None, refusal_reported |-> FALSE]

lockout_for(failures) ==
  IF failures <= FREE_FAILURES THEN 0
  ELSE Smaller(FIRST_LOCKOUT * 2^Smaller(failures - (FREE_FAILURES + 1), MAX_SHIFT), MAX_LOCKOUT)

(* Time left of the lockout, 0 when there is none (the code's None).       *)
locked_for(g, t) ==
  IF g.locked_until # None /\ g.locked_until > t THEN g.locked_until - t ELSE 0

locked(g, t) == locked_for(g, t) > 0

forgotten(g, t) == g.last_failure # None /\ t - g.last_failure >= FORGET_AFTER

(* Mutant: the counter wraps on instead of saturating.                     *)
counted_Unsaturated(g, t) == (IF forgotten(g, t) THEN 0 ELSE g.failures) + 1

(* The count after one more wrong PIN.                                     *)
counted(g, t) == Smaller((IF forgotten(g, t) THEN 0 ELSE g.failures) + 1, U32_MAX)

(* Mutant: only the first lockout of a streak is ever in force.            *)
relocked_FirstOnly(g, t, lock) == IF g.locked_until = None THEN t + lock ELSE g.locked_until

relocked(g, t, lock) ==
  IF g.locked_until = None THEN t + lock ELSE Larger(g.locked_until, t + lock)

(* Mutant: a quiet spell as short as one capped lockout forgets the count. *)
record_failure_ForgetsEarly(g, t) ==
  LET early == g.last_failure # None /\ t - g.last_failure >= MAX_LOCKOUT
      n     == Smaller((IF early THEN 0 ELSE g.failures) + 1, U32_MAX)
      lock  == lockout_for(n)
      noted == [g EXCEPT !.failures = n, !.last_failure = t]
  IN IF lock = 0 THEN noted
     ELSE [noted EXCEPT !.locked_until = relocked(g, t, lock), !.refusal_reported = FALSE]

(* Mutant: a lockout re-opens the log line only the first time round.      *)
record_failure_KeepsReported(g, t) ==
  LET lock  == lockout_for(counted(g, t))
      noted == [g EXCEPT !.failures = counted(g, t), !.last_failure = t]
  IN IF lock = 0 THEN noted ELSE [noted EXCEPT !.locked_until = relocked(g, t, lock)]

record_failure(g, t) ==
  LET lock  == lockout_for(counted(g, t))
      noted == [g EXCEPT !.failures = counted(g, t), !.last_failure = t]
  IN IF lock = 0 THEN noted
     ELSE [noted EXCEPT !.locked_until = relocked(g, t, lock), !.refusal_reported = FALSE]

record_success(g) == PinGuard_default

-----------------------------------------------------------------------------
(* The accept loop's use of it.                                            *)

Init == guard = PinGuard_default /\ now = 0 /\ testing = FALSE

Tick == now < MaxTime /\ now' = now + 1 /\ UNCHANGED <<guard, testing>>

(* A connection arrives during a lockout: turned away unread.              *)
Refuse ==
  /\ ~testing
  /\ locked(guard, now)
  /\ guard' = [guard EXCEPT !.refusal_reported = TRUE]
  /\ UNCHANGED <<now, testing>>

(* Mutant: admitted whatever the lock says.                                *)
Admit_Always == ~testing /\ testing' = TRUE /\ UNCHANGED <<guard, now>>

Admit ==
  /\ ~testing
  /\ ~locked(guard, now)
  /\ testing' = TRUE
  /\ UNCHANGED <<guard, now>>

(* A wrong PIN was evaluated: is_pin_rejection, or a hello's wrong pin.    *)
WrongPin ==
  /\ testing
  /\ guard' = record_failure(guard, now)
  /\ testing' = FALSE
  /\ UNCHANGED now

(* A hello was accepted.                                                   *)
Accepted ==
  /\ testing
  /\ guard' = record_success(guard)
  /\ testing' = FALSE
  /\ UNCHANGED now

(* The peer hung up, timed out or spoke nonsense: nothing was tested.      *)
NothingTested ==
  /\ testing
  /\ testing' = FALSE
  /\ UNCHANGED <<guard, now>>

Next == Tick \/ Refuse \/ Admit \/ WrongPin \/ Accepted \/ NothingTested

Spec == Init /\ [][Next]_vars

-----------------------------------------------------------------------------
(* Properties                                                              *)

TypeOK ==
  /\ guard \in Guards
  /\ now \in Time
  /\ testing \in BOOLEAN

(* What carries the three below: an admitted connection found the lock open,   *)
(* and the lock outlasts the newest wrong PIN by that count's lockout.         *)
LockInv ==
  /\ testing => ~locked(guard, now)
  /\ guard.last_failure # None =>
       /\ guard.last_failure <= now
       /\ \/ lockout_for(guard.failures) = 0
          \/ /\ guard.locked_until # None
             /\ guard.locked_until >= guard.last_failure + lockout_for(guard.failures)

(* The lockout is real: it was not in force when a PIN was evaluated, however  *)
(* long ago the connection was admitted (serve_loop asks `refuse` before the   *)
(* handshake, whose reads may take many seconds, and records after it).        *)
NoPinTestedWhileLocked == [][testing /\ ~testing' => ~locked(guard, now)]_vars

(* A lockout in force is never cut short or lifted, by any later wrong PIN,    *)
(* accepted client or refusal (guard.rs: "Never shorten a lockout already in   *)
(* force").                                                                    *)
LockoutHolds ==
  [][locked(guard, now) => guard'.locked_until # None /\ guard'.locked_until >= guard.locked_until]_vars

(* Nobody gets past a lockout: no PIN is tested while it is in force, and      *)
(* nothing that happens meanwhile ends it early.                               *)
LockHolds == NoPinTestedWhileLocked /\ LockoutHolds

(* Two wrong PINs of one streak are at least the earlier one's lockout apart:  *)
(* the schedule of lockout_for is what a guesser really waits.                 *)
GuessSpacing ==
  [][testing /\ ~testing' /\ guard.last_failure # None
       => now - guard.last_failure >= lockout_for(guard.failures)]_vars
=============================================================================
