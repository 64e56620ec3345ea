---------------------------- MODULE ConnectionProofs ----------------------------
(***************************************************************************)
(* Theorems of a connection and of the core that holds it.                 *)
(*                                                                         *)
(* CoreSession, for any number of attempts, threads, messages and inputs,  *)
(* any refusals a host may give and any kinds of errors: types,            *)
(* RightReason and SessionKept.                                            *)
(*                                                                         *)
(* RecordLayer, for any number and length of frames, any room in a record  *)
(* and any threads: types, EndsAreTrue, and each direction a Pipe.         *)
(***************************************************************************)
EXTENDS CoreSession, RecordLayer, WellFoundedInduction, TLAPS

(* The steps an attempt can fail at: it has asked for nothing yet.          *)
Trying == {"dial_known", "known", "dial_pair", "pair", "hello"}

(* An attempt alone: it has a thread as long as it is under way, no handle *)
(* before the end, and the reason it was given is that of its error.       *)
Candid(a) ==
  /\ job[a].step \in {"none", "done"} <=> job[a].worker = None
  /\ job[a].step \in Trying \cup {"asking"} => sess[a].handle = "none"
  /\ job[a].step = "asking" => /\ job[a].error # None
                               /\ problem[job[a].worker] = connect_problem(job[a].error)
  /\ job[a].step = "holding" => sess[a].handle \in {"none", "live"}
  /\ job[a].step = "holding" /\ sess[a].handle = "none" =>
       job[a].error # None /\ job[a].reason = connect_problem(job[a].error)
  /\ job[a].error # None => (connect_problem(job[a].error) = "WrongCode" => job[a].pin)
  /\ a > attempt => job[a].step = "none" /\ sess[a].handle = "none"

(* A session alone: no deadline is left on it, and while its handle lives  *)
(* only the host has ended its stream.                                     *)
Quiet(x) ==
  /\ x.deadline = FALSE
  /\ x.handle = "live" => x.sock \in {"open", "eof"}
  /\ x.handle = "live" /\ x.reader = "ended" => x.sock = "eof"
  /\ x.wire + x.events <= MaxEvents

(* Two attempts never share a thread, or one would read the other's reason.*)
Apart == \A a, b \in Attempts : a # b /\ job[a].worker # None => job[a].worker # job[b].worker

(* The screen, and what it is about.                                       *)
Screen ==
  /\ onscreen # None => /\ onscreen \in Attempts /\ onscreen = attempt
                        /\ sess[onscreen].handle = "live"
                        /\ job[onscreen].step \in {"none", "done"}
  /\ phase = "connecting" => onscreen = None
  /\ phase = "failed" =>
       /\ attempt \in Attempts /\ job[attempt].step = "done" /\ job[attempt].error # None
       /\ shown = connect_problem(job[attempt].error)
  /\ \A a \in Attempts : sess[a].handle = "live" => a = onscreen \/ job[a].step = "holding"

Inv ==
  /\ TypeOK /\ Apart /\ Screen
  /\ \A a \in Attempts : Candid(a) /\ Quiet(sess[a])

LEMMA InvInit == Init => Inv
  <1> SUFFICES ASSUME Init PROVE Inv
    OBVIOUS
  <1>1. None \in Reasons
    BY DEF Reasons
  <1>2. NoJob \in Job /\ NoSession \in Session
    BY <1>1, CoreAssumption DEF NoJob, Job, Steps, NoSession, Session
  <1>3. TypeOK
    BY <1>1, <1>2, CoreAssumption DEF Init, TypeOK
  <1>4. Apart /\ Screen
    BY DEF Init, Apart, Screen, NoJob, NoSession
  <1>5. \A a \in Attempts : Candid(a) /\ Quiet(sess[a])
    BY CoreAssumption DEF Init, Candid, Quiet, NoJob, NoSession, Trying
  <1> QED BY <1>3, <1>4, <1>5 DEF Inv

-----------------------------------------------------------------------------
(* Sessions.                                                               *)

(* What a session's threads, its pump and its host do keeps its handle.     *)
LEMMA RunStep ==
  ASSUME Inv, NEW a \in Attempts, NEW x \in Session, x.handle = sess[a].handle, Quiet(x),
         sess' = [sess EXCEPT ![a] = x],
         UNCHANGED <<attempt, phase, onscreen, shown, paired, job, problem>>
  PROVE  Inv'
  <1>1. sess \in [Attempts -> Session] /\ sess' \in [Attempts -> Session]
    BY DEF Inv, TypeOK
  <1>2. \A b \in Attempts : sess'[b].handle = sess[b].handle /\ Quiet(sess'[b])
    BY <1>1 DEF Inv
  <1>3. Apart' /\ TypeOK'
    BY <1>1 DEF Inv, Apart, TypeOK
  <1>4. Screen'
    BY <1>2 DEF Inv, Screen
  <1>5. \A b \in Attempts : Candid(b)'
    BY <1>2 DEF Inv, Candid
  <1>6. \A b \in Attempts : Quiet(sess[b])'
    BY <1>2 DEF Quiet
  <1> QED BY <1>3, <1>4, <1>5, <1>6 DEF Inv

(* The counts a step may write.                                            *)
LEMMA Counts ==
  ASSUME NEW x \in Session, NEW n \in 0 .. MaxEvents, NEW m \in 0 .. MaxEvents, NEW i \in 0 .. MaxInputs
  PROVE  /\ [x EXCEPT !.wire = n, !.reader = "ended"] \in Session
         /\ [x EXCEPT !.reader = "ended", !.wire = n] \in Session
         /\ [x EXCEPT !.wire = n, !.events = m] \in Session
         /\ [x EXCEPT !.events = m, !.pump = "looping"] \in Session
         /\ [x EXCEPT !.inputs = i] \in Session
         /\ [x EXCEPT !.inputs = i, !.writer = "ended"] \in Session
  BY DEF Session

LEMMA RunningStep == ASSUME Inv, NEW a \in Attempts, Running(a) PROVE Inv'
  <1>t. sess[a] \in Session /\ Quiet(sess[a]) /\ MaxEvents \in Nat /\ MaxInputs \in Nat
    BY CoreAssumption DEF Inv, TypeOK
  <1>c. /\ 0 \in 0 .. MaxEvents /\ 0 \in 0 .. MaxInputs
        /\ sess[a].wire \in 0 .. MaxEvents /\ sess[a].events \in 0 .. MaxEvents /\ sess[a].inputs \in 0 .. MaxInputs
        /\ sess[a].wire > 0 => sess[a].wire - 1 \in 0 .. MaxEvents /\ sess[a].events + 1 \in 0 .. MaxEvents
        /\ sess[a].events > 0 => sess[a].events - 1 \in 0 .. MaxEvents
        /\ sess[a].inputs > 0 => sess[a].inputs - 1 \in 0 .. MaxInputs
    <2>1. sess[a].wire \in 0 .. MaxEvents /\ sess[a].events \in 0 .. MaxEvents /\ sess[a].inputs \in 0 .. MaxInputs
      BY <1>t DEF Session
    <2>2. sess[a].wire + sess[a].events <= MaxEvents
      BY <1>t DEF Quiet
    <2> QED BY <1>t, <2>1, <2>2
  <1>1. CASE HostSends(a)
    <2> DEFINE x == [sess[a] EXCEPT !.wire = @ + 1]
    <2>1. x \in Session /\ Quiet(x) /\ x.handle = sess[a].handle
      BY <1>1, <1>t DEF HostSends, Session, Quiet
    <2> QED BY <1>1, <2>1, RunStep DEF HostSends, Alone
  <1>2. CASE HostGoes(a)
    <2> DEFINE x == [sess[a] EXCEPT !.sock = "eof"]
    <2>1. x \in Session /\ Quiet(x) /\ x.handle = sess[a].handle
      BY <1>2, <1>t DEF HostGoes, Session, Quiet
    <2> QED BY <1>2, <2>1, RunStep DEF HostGoes, Alone
  <1>3. CASE ReaderReads(a)
    <2> DEFINE x == [sess[a] EXCEPT !.wire = 0, !.reader = "ended"]
               y == [sess[a] EXCEPT !.wire = @ - 1, !.events = @ + 1]
               z == [sess[a] EXCEPT !.reader = "ended", !.wire = 0]
               w == [sess[a] EXCEPT !.reader = "ended"]
    <2>1. sess[a].handle = "freed" => x \in Session /\ Quiet(x) /\ x.handle = sess[a].handle
      <3>1. sess[a].handle = "freed" => x \in Session
        BY <1>t, <1>c, Counts, Zenon
      <3>2. sess[a].handle = "freed" => Quiet(x) /\ x.handle = sess[a].handle
        BY <1>t DEF Session, Quiet
      <3> QED BY <3>1, <3>2, Zenon
    <2>2. sess[a].wire > 0 => y \in Session /\ Quiet(y) /\ y.handle = sess[a].handle
      <3>1. sess[a].wire > 0 => y \in Session
        BY <1>t, <1>c, Counts, Zenon
      <3>2. sess[a].wire > 0 => Quiet(y) /\ y.handle = sess[a].handle
        BY <1>t DEF Session, Quiet
      <3> QED BY <3>1, <3>2, Zenon
    <2>3. sess[a].sock \in {"shut", "eof"} => z \in Session /\ Quiet(z) /\ z.handle = sess[a].handle
      <3>1. sess[a].sock \in {"shut", "eof"} => z \in Session
        BY <1>t, <1>c, Counts, Zenon
      <3>2. sess[a].sock \in {"shut", "eof"} => Quiet(z) /\ z.handle = sess[a].handle
        BY <1>t DEF Session, Quiet
      <3> QED BY <3>1, <3>2, Zenon
    <2>4. ~sess[a].deadline
      BY <1>t DEF Quiet
    <2>5. CASE sess[a].wire > 0 /\ sess[a].handle = "freed" /\ Alone(a, x)
      BY <2>5, <2>1, RunStep DEF Alone
    <2>6. CASE sess[a].wire > 0 /\ Alone(a, y)
      BY <2>6, <2>2, RunStep DEF Alone
    <2>7. CASE sess[a].sock \in {"shut", "eof"} /\ Alone(a, z)
      BY <2>7, <2>3, RunStep DEF Alone
    <2> QED BY <1>3, <2>4, <2>5, <2>6, <2>7 DEF ReaderReads
  <1>4. CASE write_input(a)
    <2> DEFINE x == [sess[a] EXCEPT !.inputs = @ - 1]
               y == [sess[a] EXCEPT !.inputs = 0, !.writer = "ended"]
               z == [sess[a] EXCEPT !.writer = "ended"]
    <2>1. sess[a].inputs > 0 => x \in Session /\ Quiet(x) /\ x.handle = sess[a].handle
      <3>1. sess[a].inputs > 0 => x \in Session
        BY <1>t, <1>c, Counts, Zenon
      <3>2. sess[a].inputs > 0 => Quiet(x) /\ x.handle = sess[a].handle
        BY <1>t DEF Session, Quiet
      <3> QED BY <3>1, <3>2, Zenon
    <2>2. y \in Session /\ Quiet(y) /\ y.handle = sess[a].handle
      <3>1. y \in Session
        BY <1>t, <1>c, Counts, Zenon
      <3>2. Quiet(y) /\ y.handle = sess[a].handle
        BY <1>t DEF Session, Quiet
      <3> QED BY <3>1, <3>2, Zenon
    <2>3. z \in Session /\ Quiet(z) /\ z.handle = sess[a].handle
      BY <1>t DEF Session, Quiet
    <2>4. CASE sess[a].inputs > 0 /\ Alone(a, x)
      BY <2>4, <2>1, RunStep DEF Alone
    <2>5. CASE Alone(a, y)
      BY <2>5, <2>2, RunStep DEF Alone
    <2>6. CASE Alone(a, z)
      BY <2>6, <2>3, RunStep DEF Alone
    <2> QED BY <1>4, <2>4, <2>5, <2>6 DEF write_input
  <1>5. CASE next_event(a)
    <2> DEFINE x == [sess[a] EXCEPT !.pump = "waiting"]
               y == [sess[a] EXCEPT !.events = @ - 1, !.pump = "looping"]
               z == [sess[a] EXCEPT !.pump = "ended"]
    <2>1. x \in Session /\ Quiet(x) /\ x.handle = sess[a].handle
      BY <1>t DEF Session, Quiet
    <2>2. sess[a].events > 0 => y \in Session /\ Quiet(y) /\ y.handle = sess[a].handle
      <3>1. sess[a].events > 0 => y \in Session
        BY <1>t, <1>c, Counts, Zenon
      <3>2. sess[a].events > 0 => Quiet(y) /\ y.handle = sess[a].handle
        BY <1>t DEF Session, Quiet
      <3> QED BY <3>1, <3>2, Zenon
    <2>3. z \in Session /\ Quiet(z) /\ z.handle = sess[a].handle
      BY <1>t DEF Session, Quiet
    <2>4. CASE Alone(a, x)
      BY <2>4, <2>1, RunStep DEF Alone
    <2>5. CASE sess[a].events > 0 /\ Alone(a, y)
      BY <2>5, <2>2, RunStep DEF Alone
    <2>6. CASE Alone(a, z)
      BY <2>6, <2>3, RunStep DEF Alone
    <2> QED BY <1>5, <2>4, <2>5, <2>6 DEF next_event
  <1> QED BY <1>1, <1>2, <1>3, <1>4, <1>5 DEF Running

-----------------------------------------------------------------------------
(* An attempt on its thread.                                               *)

LEMMA Typed ==
  ASSUME Inv, NEW a \in Attempts
  PROVE  /\ job \in [Attempts -> Job] /\ job[a] \in Job /\ sess \in [Attempts -> Session] /\ sess[a] \in Session
         /\ attempt \in Nat /\ a \in Nat
         /\ job[a].step \in Trying \cup {"asking", "holding"} => job[a].worker \in Workers
  <1>1. job \in [Attempts -> Job] /\ job[a] \in Job /\ sess \in [Attempts -> Session] /\ sess[a] \in Session
    BY DEF Inv, TypeOK
  <1>2. attempt \in Nat /\ a \in Nat
    BY CoreAssumption DEF Inv, TypeOK, Attempts
  <1>3. job[a].step \in Trying \cup {"asking", "holding"} => job[a].worker # None
    BY DEF Inv, Candid, Trying
  <1>4. job[a].worker \in Workers \cup {None}
    BY <1>1 DEF Job
  <1> QED BY <1>1, <1>2, <1>3, <1>4

(* An attempt that goes on: it keeps its thread and its code.               *)
LEMMA MoveStep ==
  ASSUME Inv, NEW a \in Attempts, job[a].step \in Trying,
         NEW j \in Job, j.step \in Trying, j.worker = job[a].worker, j.error = job[a].error, j.pin = job[a].pin,
         job' = [job EXCEPT ![a] = j], paired' \in BOOLEAN,
         UNCHANGED <<attempt, phase, onscreen, shown, problem, sess>>
  PROVE  Inv'
  <1>t. job \in [Attempts -> Job] /\ job' \in [Attempts -> Job]
    BY Typed
  <1>1. \A b \in Attempts : b # a => job'[b] = job[b]
    BY <1>t
  <1>2. job'[a] = j
    BY <1>t
  <1>3. TypeOK'
    BY <1>t DEF Inv, TypeOK
  <1>4. Apart'
    BY <1>1, <1>2 DEF Inv, Apart
  <1>5. Screen'
    BY <1>1, <1>2 DEF Inv, Screen, Trying
  <1>6. \A b \in Attempts : Candid(b)'
    <2>1. Candid(a)'
      BY <1>2 DEF Inv, Candid, Trying
    <2>2. ASSUME NEW b \in Attempts, b # a PROVE Candid(b)'
      BY <1>1, <2>2 DEF Inv, Candid
    <2> QED BY <2>1, <2>2
  <1>7. \A b \in Attempts : Quiet(sess[b])'
    BY DEF Inv, Quiet
  <1> QED BY <1>3, <1>4, <1>5, <1>6, <1>7 DEF Inv

(* An attempt that fails leaves its reason in the cell of its own thread.  *)
LEMMA ErrStep ==
  ASSUME Inv, NEW a \in Attempts, job[a].step \in Trying,
         NEW e \in Errors, connect_problem(e) = "WrongCode" => job[a].pin, Errs(a, e),
         UNCHANGED <<attempt, phase, onscreen, shown, paired, sess>>
  PROVE  Inv'
  <1> DEFINE w == job[a].worker
             j == [job[a] EXCEPT !.step = "asking", !.error = e]
  <1>t. job \in [Attempts -> Job] /\ job[a] \in Job /\ w \in Workers
    BY Typed
  <1>e. e # None /\ connect_problem(e) \in Reasons
    BY NoneAssumption DEF Reasons
  <1>j. /\ j \in Job /\ j.step = "asking" /\ j.error = e /\ j.worker = w /\ j.pin = job[a].pin
    BY <1>t DEF Job, Steps
  <1>1. job' = [job EXCEPT ![a] = j] /\ problem' = [problem EXCEPT ![w] = connect_problem(e)]
    BY <1>t DEF Errs, set_last_problem
  <1>2. problem' \in [Workers -> Reasons] /\ problem'[w] = connect_problem(e)
        /\ \A v \in Workers : v # w => problem'[v] = problem[v]
    BY <1>1, <1>t, <1>e DEF Inv, TypeOK
  <1> HIDE DEF w, j
  <1>3. job'[a] = j /\ job' \in [Attempts -> Job] /\ \A b \in Attempts : b # a => job'[b] = job[b]
    BY <1>1, <1>t, <1>j
  <1>4. TypeOK'
    BY <1>2, <1>3 DEF Inv, TypeOK
  <1>5. Apart'
    BY <1>3, <1>j DEF Inv, Apart, w
  <1>6. Screen'
    BY <1>3, <1>j DEF Inv, Screen, Trying
  <1>7. \A b \in Attempts : Candid(b)'
    <2>1. Candid(a)'
      <3>1. w # None
        BY <1>t, CoreAssumption
      <3>2. sess[a].handle = "none" /\ ~(a > attempt)
        BY DEF Inv, Candid, Trying
      <3> QED BY <1>e, <1>j, <1>2, <1>3, <3>1, <3>2 DEF Candid, Trying
    <2>2. ASSUME NEW b \in Attempts, b # a PROVE Candid(b)'
      <3>1. job[b].step = "asking" => job[b].worker \in Workers /\ job[b].worker # w
        <4>1. job[b].step = "asking" => job[b].worker \in Workers
          BY Typed
        <4> QED BY <1>t, <2>2, <4>1, CoreAssumption DEF Inv, Apart, w
      <3> QED BY <1>2, <1>3, <2>2, <3>1 DEF Inv, Candid
    <2> QED BY <2>1, <2>2
  <1>8. \A b \in Attempts : Quiet(sess[b])'
    BY DEF Inv, Quiet
  <1> QED BY <1>4, <1>5, <1>6, <1>7, <1>8 DEF Inv

(* What a person may be told of each error.                                *)
LEMMA Told ==
  /\ \A e \in Gives : e \in Errors /\ connect_problem(e) # "WrongCode"
  /\ \A which \in Kinds, bad \in BOOLEAN :
       DialFailed(which, bad) \in Errors /\ connect_problem(DialFailed(which, bad)) # "WrongCode"
  /\ \A which \in Kinds \cup {"TimedOut"} : Io(which) \in Errors /\ connect_problem(Io(which)) # "WrongCode"
  /\ Fails("WrongCode") \in Errors
  /\ Fails("NotPaired") \in Errors /\ connect_problem(Fails("NotPaired")) # "WrongCode"
  <1>1. \A which \in Kinds \cup {"TimedOut"} : Io(which) \in Errors /\ connect_problem(Io(which)) # "WrongCode"
    BY DEF Io, Errors, connect_problem
  <1>2. \A which \in Kinds, bad \in BOOLEAN :
          DialFailed(which, bad) \in Errors /\ connect_problem(DialFailed(which, bad)) # "WrongCode"
    BY DEF DialFailed, Errors, connect_problem
  <1>3. \A f \in Failure \ {"WrongCode"} : Fails(f) \in Errors /\ connect_problem(Fails(f)) # "WrongCode"
    BY DEF Fails, Errors, connect_problem, Failure
  <1>4. Fails("WrongCode") \in Errors
    BY DEF Fails, Errors, Failure
  <1>5. Refusals \subseteq Failure \ {"WrongCode"} /\ "NotPaired" \in Failure \ {"WrongCode"}
    BY RefusalAssumption DEF Failure
  <1> QED BY <1>1, <1>2, <1>3, <1>4, <1>5 DEF Gives

LEMMA FailStep ==
  ASSUME Inv, NEW a \in Attempts, job[a].step \in Trying,
         \/ \E e \in Gives : Errs(a, e)
         \/ \E which \in Kinds, bad \in BOOLEAN : Errs(a, DialFailed(which, bad))
         \/ \E which \in Kinds \cup {"TimedOut"} : Errs(a, Io(which))
         \/ Errs(a, Fails(IF job[a].pin THEN "WrongCode" ELSE "NotPaired")),
         UNCHANGED <<attempt, phase, onscreen, shown, paired, sess>>
  PROVE  Inv'
  <1>1. ASSUME NEW e \in Gives, Errs(a, e) PROVE Inv'
    BY <1>1, Told, ErrStep
  <1>2. ASSUME NEW which \in Kinds, NEW bad \in BOOLEAN, Errs(a, DialFailed(which, bad)) PROVE Inv'
    BY <1>2, Told, ErrStep
  <1>3. ASSUME NEW which \in Kinds \cup {"TimedOut"}, Errs(a, Io(which)) PROVE Inv'
    BY <1>3, Told, ErrStep
  <1>4. ASSUME Errs(a, Fails(IF job[a].pin THEN "WrongCode" ELSE "NotPaired")) PROVE Inv'
    <2>1. CASE job[a].pin
      BY <1>4, <2>1, Told, ErrStep
    <2>2. CASE ~job[a].pin
      BY <1>4, <2>2, Told, ErrStep
    <2> QED BY <2>1, <2>2
  <1> QED BY <1>1, <1>2, <1>3, <1>4

(* The hello is written: a handle, and nothing left in the cell.            *)
LEMMA OpenStep ==
  ASSUME Inv, NEW a \in Attempts, job[a].step = "hello",
         sess' = [sess EXCEPT ![a] = [NoSession EXCEPT !.sock = "open", !.handle = "live",
                                        !.reader = "reading", !.writer = "parked"]],
         Moves(a, "holding"), set_last_problem(a, None),
         UNCHANGED <<attempt, phase, onscreen, shown, paired>>
  PROVE  Inv'
  <1> DEFINE w == job[a].worker
             j == [job[a] EXCEPT !.step = "holding"]
             x == [NoSession EXCEPT !.sock = "open", !.handle = "live", !.reader = "reading", !.writer = "parked"]
  <1>t. /\ job \in [Attempts -> Job] /\ job[a] \in Job /\ w \in Workers
        /\ sess \in [Attempts -> Session] /\ attempt \in Nat /\ a \in Nat
    BY Typed DEF Trying
  <1>j. /\ j \in Job /\ j.step = "holding" /\ j.error = job[a].error /\ j.worker = w /\ j.pin = job[a].pin
    BY <1>t DEF Job, Steps
  <1>x. x \in Session /\ x.handle = "live" /\ Quiet(x)
    <2>1. 0 \in 0 .. MaxEvents /\ 0 \in 0 .. MaxInputs /\ 0 + 0 <= MaxEvents
      BY CoreAssumption
    <2>2. x \in Session /\ x.handle = "live"
      BY <2>1 DEF NoSession, Session
    <2>3. Quiet(x)
      BY <2>1 DEF NoSession, Quiet
    <2> QED BY <2>2, <2>3
  <1>1. job' = [job EXCEPT ![a] = j] /\ problem' = [problem EXCEPT ![w] = None] /\ sess' = [sess EXCEPT ![a] = x]
    BY <1>t DEF Moves, set_last_problem
  <1>2. problem' \in [Workers -> Reasons] /\ \A v \in Workers : v # w => problem'[v] = problem[v]
    BY <1>1, <1>t DEF Inv, TypeOK, Reasons
  <1> HIDE DEF w, j, x
  <1>3. /\ job'[a] = j /\ job' \in [Attempts -> Job] /\ \A b \in Attempts : b # a => job'[b] = job[b]
        /\ sess'[a] = x /\ sess' \in [Attempts -> Session] /\ \A b \in Attempts : b # a => sess'[b] = sess[b]
    BY <1>1, <1>t, <1>j, <1>x
  <1>4. TypeOK'
    BY <1>2, <1>3 DEF Inv, TypeOK
  <1>5. Apart'
    BY <1>3, <1>j DEF Inv, Apart, w
  <1>6. Screen'
    BY <1>3, <1>j, <1>x DEF Inv, Screen
  <1>7. \A b \in Attempts : Candid(b)'
    <2>1. Candid(a)'
      <3>1. w # None
        BY <1>t, CoreAssumption
      <3>2. ~(a > attempt)
        BY DEF Inv, Candid
      <3>3. j.error # None => (connect_problem(j.error) = "WrongCode" => j.pin)
        BY <1>j DEF Inv, Candid
      <3> QED BY <1>j, <1>x, <1>3, <3>1, <3>2, <3>3 DEF Candid, Trying
    <2>2. ASSUME NEW b \in Attempts, b # a PROVE Candid(b)'
      <3>1. job[b].step = "asking" => job[b].worker \in Workers /\ job[b].worker # w
        <4>1. job[b].step = "asking" => job[b].worker \in Workers
          BY Typed
        <4> QED BY <1>t, <2>2, <4>1, CoreAssumption DEF Inv, Apart, w
      <3> QED BY <1>2, <1>3, <2>2, <3>1 DEF Inv, Candid
    <2> QED BY <2>1, <2>2
  <1>8. \A b \in Attempts : Quiet(sess[b])'
    <2>1. \A b \in Attempts : Quiet(sess'[b])
      BY <1>3, <1>x DEF Inv
    <2> QED BY <2>1 DEF Quiet
  <1> QED BY <1>4, <1>5, <1>6, <1>7, <1>8 DEF Inv

(* The thread reads the reason of its own attempt.                         *)
LEMMA AskStep == ASSUME Inv, NEW a \in Attempts, last_connect_problem(a) PROVE Inv'
  <1> DEFINE w == job[a].worker
             j == [job[a] EXCEPT !.step = "holding", !.reason = problem[w]]
  <1>t. job \in [Attempts -> Job] /\ job[a] \in Job /\ w \in Workers /\ problem[w] \in Reasons
    <2>1. job \in [Attempts -> Job] /\ job[a] \in Job /\ w \in Workers
      BY Typed DEF last_connect_problem, AtStep
    <2> QED BY <2>1 DEF Inv, TypeOK
  <1>j. /\ j \in Job /\ j.step = "holding" /\ j.error = job[a].error /\ j.worker = w /\ j.pin = job[a].pin
        /\ j.reason = problem[w]
    BY <1>t DEF Job, Steps
  <1>1. job' = [job EXCEPT ![a] = j] /\ UNCHANGED <<attempt, phase, onscreen, shown, paired, problem, sess>>
    BY <1>t DEF last_connect_problem
  <1>2. /\ job[a].step = "asking" /\ w # None /\ job[a].error # None /\ problem[w] = connect_problem(job[a].error)
        /\ sess[a].handle = "none" /\ ~(a > attempt)
        /\ connect_problem(job[a].error) = "WrongCode" => job[a].pin
    BY DEF last_connect_problem, AtStep, Inv, Candid
  <1> HIDE DEF w, j
  <1>3. /\ job'[a] = j /\ job' \in [Attempts -> Job] /\ \A b \in Attempts : b # a => job'[b] = job[b]
    BY <1>1, <1>t, <1>j
  <1>4. TypeOK'
    BY <1>1, <1>3 DEF Inv, TypeOK
  <1>5. Apart'
    BY <1>3, <1>j DEF Inv, Apart, w
  <1>6. Screen'
    BY <1>1, <1>2, <1>3, <1>j DEF Inv, Screen
  <1>7. \A b \in Attempts : Candid(b)'
    <2>1. Candid(a)'
      BY <1>1, <1>2, <1>3, <1>j DEF Candid, Trying
    <2>2. ASSUME NEW b \in Attempts, b # a PROVE Candid(b)'
      BY <1>1, <1>3, <2>2 DEF Inv, Candid
    <2> QED BY <2>1, <2>2
  <1>8. \A b \in Attempts : Quiet(sess[b])'
    BY <1>1 DEF Inv, Quiet
  <1> QED BY <1>4, <1>5, <1>6, <1>7, <1>8 DEF Inv

LEMMA AttemptStep ==
  ASSUME Inv, NEW a \in Attempts,
         dial(a) \/ connect_known(a) \/ connect_pair(a) \/ HandshakeTimeout(a) \/ connect_inner(a)
  PROVE  Inv'
  <1>t. job[a] \in Job /\ job \in [Attempts -> Job] /\ paired \in BOOLEAN
    BY Typed DEF Inv, TypeOK
  <1>1. CASE dial(a)
    <2> DEFINE j == [job[a] EXCEPT !.step = IF @ = "dial_known" THEN "known" ELSE "pair", !.deadline = TRUE]
    <2>1. /\ j \in Job /\ j.step \in Trying /\ j.worker = job[a].worker /\ j.error = job[a].error
          /\ j.pin = job[a].pin
      BY <1>t DEF Job, Steps, Trying
    <2>2. job[a].step \in Trying /\ UNCHANGED <<attempt, phase, onscreen, shown, paired, sess>>
      BY <1>1 DEF dial, Trying
    <2>3. CASE job' = [job EXCEPT ![a] = j] /\ UNCHANGED problem
      BY <1>t, <2>1, <2>2, <2>3, MoveStep
    <2>4. CASE \E which \in Kinds, bad \in BOOLEAN : Errs(a, DialFailed(which, bad))
      BY <2>2, <2>4, FailStep
    <2> QED BY <1>1, <1>t, <2>3, <2>4 DEF dial
  <1>m. ASSUME NEW x \in Trying, Moves(a, x), job[a].step \in Trying, paired' \in BOOLEAN,
               UNCHANGED <<attempt, phase, onscreen, shown, problem, sess>>
        PROVE  Inv'
    <2> DEFINE j == [job[a] EXCEPT !.step = x]
    <2>1. /\ j \in Job /\ j.step \in Trying /\ j.worker = job[a].worker /\ j.error = job[a].error
          /\ j.pin = job[a].pin
      BY <1>t DEF Job, Steps, Trying
    <2>2. job' = [job EXCEPT ![a] = j]
      BY <1>m, <1>t DEF Moves
    <2> QED BY <1>m, <2>1, <2>2, MoveStep
  <1>2. CASE connect_known(a)
    <2>1. job[a].step \in Trying /\ "hello" \in Trying /\ "dial_pair" \in Trying
      BY <1>2 DEF connect_known, AtStep, Trying
    <2> QED BY <1>2, <1>t, <1>m, <2>1, FailStep DEF connect_known
  <1>3. CASE connect_pair(a)
    <2>1. job[a].step \in Trying /\ "hello" \in Trying
      BY <1>3 DEF connect_pair, AtStep, Trying
    <2>2. CASE Moves(a, "hello") /\ paired' = (paired \/ job[a].pin) /\ UNCHANGED problem
      <3>1. paired' \in BOOLEAN
        BY <2>2
      <3> QED BY <1>3, <1>m, <2>1, <2>2, <3>1 DEF connect_pair
    <2> QED BY <1>3, <2>1, <2>2, FailStep DEF connect_pair
  <1>4. CASE HandshakeTimeout(a)
    <2>1. job[a].step \in Trying
      BY <1>4 DEF HandshakeTimeout, Trying
    <2> QED BY <1>4, <2>1, FailStep DEF HandshakeTimeout
  <1>5. CASE connect_inner(a)
    <2>1. job[a].step \in Trying /\ job[a].step = "hello"
      BY <1>5 DEF connect_inner, AtStep, Trying
    <2>2. CASE \E which \in Kinds \ {"TimedOut"} : Errs(a, Io(which)) /\ UNCHANGED sess
      BY <1>5, <2>1, <2>2, FailStep DEF connect_inner
    <2> QED BY <1>5, <2>1, <2>2, OpenStep DEF connect_inner
  <1> QED BY <1>1, <1>2, <1>3, <1>4, <1>5

-----------------------------------------------------------------------------
(* The screen.                                                             *)

LEMMA FreedQuiet ==
  ASSUME NEW x \in Session, Quiet(x)
  PROVE  Freed(x) \in Session /\ Freed(x).handle = "freed" /\ Quiet(Freed(x))
  <1>0. 0 \in 0 .. MaxEvents
    BY CoreAssumption
  <1>1. Freed(x) \in Session /\ Freed(x).handle = "freed"
    BY <1>0 DEF Freed, Session
  <1>2. Freed(x).deadline = FALSE /\ Freed(x).wire = x.wire /\ Freed(x).events = 0
    BY DEF Freed, Session, Quiet
  <1>3. x.wire + 0 <= MaxEvents
    BY CoreAssumption DEF Session
  <1> QED BY <1>1, <1>2, <1>3 DEF Quiet

(* An attempt ends: it is shown, or what it opened is closed.               *)
LEMMA DeliverStep == ASSUME Inv, NEW a \in Attempts, Deliver(a) PROVE Inv'
  <1> DEFINE j == IF a = attempt THEN [job[a] EXCEPT !.step = "done", !.worker = None] ELSE NoJob
  <1>t. /\ job \in [Attempts -> Job] /\ job[a] \in Job /\ sess \in [Attempts -> Session] /\ sess[a] \in Session
        /\ attempt \in Nat /\ a \in Nat /\ Quiet(sess[a])
    BY Typed DEF Inv
  <1>n. NoJob \in Job
    BY DEF NoJob, Job, Steps, Reasons
  <1>j. /\ j \in Job /\ j.step \in {"none", "done"} /\ j.worker = None
        /\ a = attempt => j.step = "done" /\ j.error = job[a].error /\ j.pin = job[a].pin
        /\ a # attempt => j = NoJob
    BY <1>t, <1>n DEF Job, Steps, NoJob
  <1>1. job' = [job EXCEPT ![a] = j] /\ UNCHANGED <<attempt, paired, problem>>
    BY <1>t DEF Deliver
  <1>2. /\ job[a].step = "holding" /\ sess[a].handle \in {"none", "live"} /\ ~(a > attempt)
        /\ sess[a].handle = "none" => job[a].error # None /\ job[a].reason = connect_problem(job[a].error)
        /\ job[a].error # None => (connect_problem(job[a].error) = "WrongCode" => job[a].pin)
    BY DEF Deliver, AtStep, Inv, Candid
  <1> HIDE DEF j
  <1>3. /\ job'[a] = j /\ job' \in [Attempts -> Job] /\ \A b \in Attempts : b # a => job'[b] = job[b]
    BY <1>1, <1>t, <1>j
  <1>a. Apart'
    BY <1>3, <1>j DEF Inv, Apart
  <1>c. \A b \in Attempts : sess'[b] = sess[b] => Quiet(sess[b])'
    BY DEF Inv, Quiet
  <1>4. CASE a # attempt
    <2>1. /\ UNCHANGED <<phase, onscreen, shown>>
          /\ sess' = [sess EXCEPT ![a] = IF sess[a].handle = "live" THEN Freed(sess[a]) ELSE sess[a]]
      BY <1>4, <1>t DEF Deliver
    <2>2. /\ sess'[a] \in Session /\ sess'[a].handle # "live" /\ Quiet(sess'[a])
          /\ sess' \in [Attempts -> Session] /\ \A b \in Attempts : b # a => sess'[b] = sess[b]
      BY <1>t, <1>2, <2>1, FreedQuiet
    <2>3. TypeOK'
      BY <1>1, <1>3, <2>1, <2>2 DEF Inv, TypeOK
    <2>4. Screen'
      BY <1>1, <1>2, <1>3, <1>4, <1>j, <2>1, <2>2 DEF Inv, Screen
    <2>5. \A b \in Attempts : Candid(b)'
      <3>1. Candid(a)'
        BY <1>1, <1>2, <1>3, <1>4, <1>j DEF Candid, NoJob, Trying
      <3>2. ASSUME NEW b \in Attempts, b # a PROVE Candid(b)'
        BY <1>1, <1>3, <2>2, <3>2 DEF Inv, Candid
      <3> QED BY <3>1, <3>2
    <2>6. \A b \in Attempts : Quiet(sess[b])'
      <3>1. Quiet(sess[a])'
        BY <2>2 DEF Quiet
      <3> QED BY <1>c, <2>2, <3>1
    <2> QED BY <1>a, <2>3, <2>4, <2>5, <2>6 DEF Inv
  <1>5. CASE a = attempt
    <2>1. /\ onscreen' = IF sess[a].handle = "live" THEN a ELSE None
          /\ shown' = job[a].reason
          /\ phase' = IF sess[a].handle = "live" THEN "connected" ELSE "failed"
          /\ sess' = sess
      BY <1>5 DEF Deliver
    <2>2. onscreen = None
      BY <1>2, <1>5 DEF Inv, Screen
    <2>3. TypeOK'
      BY <1>1, <1>3, <1>t, <2>1 DEF Inv, TypeOK, Job
    <2>4. Screen'
      <3>1. \A b \in Attempts : sess[b].handle = "live" => job[b].step = "holding"
        BY <2>2, NoneAssumption DEF Inv, Screen
      <3>2. CASE sess[a].handle = "live"
        <4>1. onscreen' = a /\ phase' = "connected" /\ job'[a].step = "done"
          BY <1>3, <1>5, <1>j, <2>1, <3>2
        <4>2. \A b \in Attempts : b # a /\ sess'[b].handle = "live" => job'[b].step = "holding"
          BY <1>3, <2>1, <3>1
        <4> QED BY <1>1, <1>5, <2>1, <3>2, <4>1, <4>2 DEF Screen
      <3>3. CASE sess[a].handle = "none"
        <4>1. onscreen' = None /\ phase' = "failed" /\ shown' = job[a].reason
          BY <2>1, <3>3
        <4> QED BY <1>1, <1>2, <1>3, <1>5, <1>j, <2>1, <2>2, <3>3, <4>1 DEF Inv, Screen
      <3> QED BY <1>2, <3>2, <3>3
    <2>5. \A b \in Attempts : Candid(b)'
      <3>1. Candid(a)'
        BY <1>1, <1>2, <1>3, <1>5, <1>j DEF Candid, Trying
      <3>2. ASSUME NEW b \in Attempts, b # a PROVE Candid(b)'
        BY <1>1, <1>3, <2>1, <3>2 DEF Inv, Candid
      <3> QED BY <3>1, <3>2
    <2>6. \A b \in Attempts : Quiet(sess[b])'
      BY <1>c, <2>1
    <2> QED BY <1>a, <2>3, <2>4, <2>5, <2>6 DEF Inv
  <1> QED BY <1>4, <1>5

LEMMA CloseStep == ASSUME Inv, NEW a \in Attempts, close(a) PROVE Inv'
  <1>t. sess \in [Attempts -> Session] /\ sess[a] \in Session /\ Quiet(sess[a])
    BY Typed DEF Inv
  <1>1. onscreen = a /\ onscreen' = None /\ UNCHANGED <<attempt, phase, shown, paired, job, problem>>
    BY DEF close
  <1>2. sess'[a] = Freed(sess[a]) /\ \A b \in Attempts : b # a => sess'[b] = sess[b]
    BY <1>t DEF close
  <1>3. sess' \in [Attempts -> Session] /\ sess'[a].handle = "freed" /\ Quiet(sess'[a])
    BY <1>t, <1>2, FreedQuiet DEF close
  <1>4. TypeOK'
    BY <1>1, <1>3 DEF Inv, TypeOK
  <1>5. Apart'
    BY <1>1 DEF Inv, Apart
  <1>6. a = attempt /\ job[a].step \in {"none", "done"}
    BY <1>1, NoneAssumption DEF Inv, Screen
  <1>7. Screen'
    BY <1>1, <1>2, <1>3 DEF Inv, Screen
  <1>8. \A b \in Attempts : Candid(b)'
    <2>1. Candid(a)'
      <3>1. ~(a > attempt)
        BY <1>6, Typed
      <3> QED BY <1>1, <1>6, <3>1 DEF Inv, Candid, Trying
    <2>2. ASSUME NEW b \in Attempts, b # a PROVE Candid(b)'
      BY <1>1, <1>2, <2>2 DEF Inv, Candid
    <2> QED BY <2>1, <2>2
  <1>9. \A b \in Attempts : Quiet(sess[b])'
    <2>1. \A b \in Attempts : Quiet(sess'[b])
      BY <1>2, <1>3 DEF Inv
    <2> QED BY <2>1 DEF Quiet
  <1> QED BY <1>4, <1>5, <1>7, <1>8, <1>9 DEF Inv

LEMMA UsingStep == ASSUME Inv, NEW a \in Attempts, Using(a) PROVE Inv'
  <1>t. sess[a] \in Session /\ Quiet(sess[a])
    BY Typed DEF Inv
  <1>1. CASE startPump(a)
    <2> DEFINE x == [sess[a] EXCEPT !.pump = "looping"]
    <2>1. x \in Session /\ Quiet(x) /\ x.handle = sess[a].handle
      BY <1>t DEF Session, Quiet
    <2> QED BY <1>1, <2>1, RunStep DEF startPump
  <1>2. CASE send(a)
    <2> DEFINE x == [sess[a] EXCEPT !.inputs = @ + 1]
    <2>1. sess[a].inputs \in 0 .. MaxInputs /\ sess[a].inputs < MaxInputs
      BY <1>2, <1>t DEF send, Session
    <2>2. sess[a].inputs + 1 \in 0 .. MaxInputs /\ 0 \in 0 .. MaxEvents
      BY <2>1, CoreAssumption
    <2>3. x \in Session
      BY <1>t, <2>2, Counts
    <2>4. Quiet(x) /\ x.handle = sess[a].handle
      BY <1>t DEF Session, Quiet
    <2> QED BY <1>2, <2>3, <2>4, RunStep DEF send
  <1> QED BY <1>1, <1>2, CloseStep DEF Using

(* What is forgotten was done and had no thread.                            *)
LEMMA TidyKeeps ==
  ASSUME Inv
  PROVE  /\ Tidy \in [Attempts -> Job]
         /\ \A a \in Attempts : \/ Tidy[a] = job[a] /\ job[a].step # "done"
                                \/ Tidy[a] = NoJob /\ job[a].step = "done"
  <1>1. NoJob \in Job
    BY DEF NoJob, Job, Steps, Reasons
  <1>2. job \in [Attempts -> Job]
    BY DEF Inv, TypeOK
  <1> QED BY <1>1, <1>2 DEF Tidy

LEMMA RestStep == ASSUME Inv, Rest PROVE Inv'
  <1>1. phase' = "idle" /\ job' = Tidy /\ shown' = None /\ UNCHANGED <<attempt, onscreen, paired, problem, sess>>
    BY DEF Rest
  <1>2. TypeOK'
    BY <1>1, TidyKeeps DEF Inv, TypeOK, Reasons
  <1>3. Apart'
    BY <1>1, TidyKeeps DEF Inv, Apart, NoJob
  <1>4. Screen'
    BY <1>1, TidyKeeps DEF Inv, Screen, NoJob
  <1>5. \A a \in Attempts : Candid(a)'
    <2> TAKE a \in Attempts
    <2>1. CASE Tidy[a] = job[a]
      BY <1>1, <2>1 DEF Inv, Candid
    <2>2. CASE Tidy[a] = NoJob /\ job[a].step = "done"
      <3>1. ~(a > attempt)
        BY <2>2 DEF Inv, Candid
      <3> QED BY <1>1, <2>2, <3>1 DEF Candid, NoJob, Trying
    <2> QED BY <2>1, <2>2, TidyKeeps
  <1>6. \A a \in Attempts : Quiet(sess[a])'
    BY <1>1 DEF Inv, Quiet
  <1> QED BY <1>2, <1>3, <1>4, <1>5, <1>6 DEF Inv

LEMMA CancelStep == ASSUME Inv, Cancel PROVE Inv'
  <1>1. /\ phase = "connecting" /\ phase' = "idle" /\ attempt' = attempt + 1
        /\ UNCHANGED <<onscreen, shown, paired, job, problem, sess>>
    BY DEF Cancel
  <1>2. attempt \in 0 .. MaxAttempts /\ attempt < MaxAttempts /\ MaxAttempts \in Nat
    BY CoreAssumption DEF Cancel, Inv, TypeOK
  <1>3. attempt' \in 0 .. MaxAttempts /\ \A a \in Attempts : a > attempt' => a > attempt
    BY <1>1, <1>2 DEF Attempts
  <1>4. TypeOK'
    BY <1>1, <1>3 DEF Inv, TypeOK
  <1>5. Apart' /\ Screen'
    BY <1>1 DEF Inv, Apart, Screen
  <1>6. \A a \in Attempts : Candid(a)' /\ Quiet(sess[a])'
    BY <1>1, <1>3 DEF Inv, Candid, Quiet
  <1> QED BY <1>4, <1>5, <1>6 DEF Inv

(* A new attempt gets a thread no other has.                               *)
LEMMA ConnectStep == ASSUME Inv, doConnect PROVE Inv'
  <1> DEFINE w == IdleThread
  <1>2. attempt \in 0 .. MaxAttempts /\ attempt < MaxAttempts /\ MaxAttempts \in Nat
    BY CoreAssumption DEF doConnect, Inv, TypeOK
  <1>n. PICK n \in Attempts : n = attempt + 1
    BY <1>2 DEF Attempts
  <1>1. /\ onscreen = None /\ attempt' = n /\ phase' = "connecting" /\ shown' = None
        /\ UNCHANGED <<onscreen, paired, problem, sess>>
    BY <1>n DEF doConnect
  <1>3. n \in Attempts /\ n \in 0 .. MaxAttempts /\ n > attempt /\ ~(n > n) /\ \A a \in Attempts : a > n => a > attempt
    BY <1>2, <1>n DEF Attempts
  <1>4. w \in Workers /\ w \notin Busy /\ w # None
    BY CoreAssumption DEF doConnect, IdleThread
  <1>5. PICK j \in Job : /\ job' = [Tidy EXCEPT ![n] = j]
                         /\ j.step \in {"dial_known", "dial_pair"} /\ j.worker = w /\ j.error = None
    <2>1. PICK pin \in BOOLEAN :
            job' = [Tidy EXCEPT ![n] =
                      [NoJob EXCEPT !.step = IF paired THEN "dial_known" ELSE "dial_pair", !.worker = w, !.pin = pin]]
      BY <1>n DEF doConnect
    <2> DEFINE j == [NoJob EXCEPT !.step = IF paired THEN "dial_known" ELSE "dial_pair", !.worker = w, !.pin = pin]
    <2>2. j \in Job /\ j.step \in {"dial_known", "dial_pair"} /\ j.worker = w /\ j.error = None
      BY <1>4 DEF NoJob, Job, Steps, Reasons
    <2>3. job' = [Tidy EXCEPT ![n] = j]
      BY <2>1
    <2> HIDE DEF j
    <2> QED BY <2>2, <2>3
  <1>6. \A a \in Attempts : job[a].worker # w
    BY <1>4 DEF Busy
  <1> HIDE DEF w
  <1>7. /\ job'[n] = j /\ job' \in [Attempts -> Job]
        /\ \A a \in Attempts : a # n => job'[a] = Tidy[a]
    BY <1>3, <1>5, TidyKeeps
  <1>8. TypeOK'
    BY <1>1, <1>3, <1>7 DEF Inv, TypeOK, Reasons
  <1>9. Apart'
    <2>1. \A a \in Attempts : Tidy[a].worker # w /\ (Tidy[a].worker = job[a].worker \/ Tidy[a].worker = None)
      BY <1>4, <1>6, TidyKeeps DEF NoJob
    <2> QED BY <1>5, <1>7, <2>1 DEF Inv, Apart
  <1>10. Screen'
    <2>1. job[n].step = "none" /\ sess[n].handle = "none"
      BY <1>3 DEF Inv, Candid
    <2>2. \A a \in Attempts : sess[a].handle = "live" => job'[a].step = "holding"
      <3>1. \A a \in Attempts : sess[a].handle = "live" => job[a].step = "holding" /\ a # n
        BY <1>1, <2>1, NoneAssumption DEF Inv, Screen
      <3> QED BY <1>7, <3>1, TidyKeeps
    <2> QED BY <1>1, <2>2 DEF Screen
  <1>11. \A a \in Attempts : Candid(a)'
    <2>1. Candid(n)'
      <3>1. sess[n].handle = "none"
        BY <1>3 DEF Inv, Candid
      <3> QED BY <1>1, <1>3, <1>4, <1>5, <1>7, <3>1 DEF Candid, Trying
    <2>2. ASSUME NEW a \in Attempts, a # n PROVE Candid(a)'
      <3>1. CASE job'[a] = job[a]
        BY <1>1, <1>3, <3>1 DEF Inv, Candid
      <3>2. CASE job'[a] = NoJob /\ job[a].step = "done"
        <4>1. ~(a > attempt)
          BY <3>2 DEF Inv, Candid
        <4> QED BY <1>1, <1>3, <3>2, <4>1 DEF Candid, NoJob, Trying
      <3> QED BY <1>7, <2>2, <3>1, <3>2, TidyKeeps
    <2> QED BY <2>1, <2>2
  <1>12. \A a \in Attempts : Quiet(sess[a])'
    BY <1>1 DEF Inv, Quiet
  <1> QED BY <1>8, <1>9, <1>10, <1>11, <1>12 DEF Inv

-----------------------------------------------------------------------------
LEMMA InvStep == Inv /\ [Next]_vars => Inv'
  <1> SUFFICES ASSUME Inv, [Next]_vars PROVE Inv'
    OBVIOUS
  <1>1. CASE doConnect \/ Cancel \/ Rest
    BY <1>1, ConnectStep, CancelStep, RestStep
  <1>2. ASSUME NEW a \in Attempts, Attempting(a) PROVE Inv'
    BY <1>2, AttemptStep, AskStep, DeliverStep DEF Attempting
  <1>3. ASSUME NEW a \in Attempts, Using(a) \/ Running(a) PROVE Inv'
    BY <1>3, UsingStep, RunningStep
  <1>4. CASE UNCHANGED vars
    BY <1>4 DEF vars, Inv, TypeOK, Apart, Screen, Candid, Quiet
  <1> QED BY <1>1, <1>2, <1>3, <1>4 DEF Next

LEMMA InvAlways == Spec => []Inv
  BY InvInit, InvStep, PTL DEF Spec

(* Every variable keeps its type, and every queue its bound.                   *)
THEOREM CoreTypes == Spec => []TypeOK
  <1>1. Inv => TypeOK
    BY DEF Inv
  <1> QED BY <1>1, InvAlways, PTL

(* What the screen says went wrong is what went wrong with the attempt it  *)
(* is about, and nobody who typed no code is told the code is wrong.        *)
THEOREM ReasonRight == Spec => []RightReason
  <1>1. Inv => RightReason
    BY DEF Inv, Screen, Candid, RightReason
  <1> QED BY <1>1, InvAlways, PTL

(* An open session is on screen or on its way there, and until it is closed*)
(* only its host can end its stream.                                       *)
THEOREM SessionLasts == Spec => []SessionKept
  <1>1. Inv => SessionKept
    BY DEF Inv, Screen, Quiet, SessionKept, HandleOwned, QuietSurvives, AtStep
  <1> QED BY <1>1, InvAlways, PTL

-----------------------------------------------------------------------------
(* What a direction carries, as one stream of units: on the way down the   *)
(* verdict, and then frame after frame.                                    *)
Size == Body + 1
Pos(f) == f * Size
Stream(pre, u) == IF u <= Len(pre) THEN pre[u]
                  ELSE [frame |-> (u - Len(pre) - 1) \div Size + 1, at |-> (u - Len(pre) - 1) % Size]
Seg(pre, i, j) == [u \in 1 .. j - i |-> Stream(pre, i + u)]

(* Records cut it at c[0], c[1] and on; pieces, two to a record, follow    *)
(* one another from the p-th on.                                           *)
Cuts(c, n) == c \in [0 .. n -> Nat] /\ c[0] = 0 /\ \A i, j \in 0 .. n : i < j => c[i] < c[j]
PieceAt(pre, c, p) == [as |-> "record", n |-> (p - 1) \div 2,
                       has |-> Seg(pre, c[(p - 1) \div 2], c[(p - 1) \div 2 + 1])]
Follow(pre, c, p, q) == \A i \in 1 .. Len(q) : q[i] = PieceAt(pre, c, p + i)

Known == mode = "pair" \/ agreed
Pre(d) == IF d = "up" THEN <<>> ELSE verdict(Known)
Begun(d) == IF d = "up" THEN host = "up" ELSE sealed["down"] > 0
Deaf(d) == d = "down" /\ stage = "Over"
Taken(d) == 2 * opened[d] + Len(partial[d]) + Len(wire[d])

(* The writer's end: whole frames, one of which may be under way.          *)
Written(d, c) ==
  LET o == out[d][1]
      base == Len(Pre(d)) + Pos(done[d])
  IN  /\ doing[d][1] \in {"idle", "dead"} => o = <<>>
      /\ doing[d][1] = "body" => o # <<>>
      /\ doing[d][1] = "idle" => c[sealed[d]] = base
      /\ doing[d][1] = "length" => c[sealed[d]] = base + 1
      /\ doing[d][1] = "body" => c[sealed[d]] = base + Size
      /\ doing[d][1] = "dead" => c[sealed[d]] <= base + Size
      /\ Len(sent[d]) = IF doing[d][1] = "idle" THEN done[d] ELSE done[d] + 1
      /\ Len(o) <= 2 * sealed[d] /\ Follow(Pre(d), c, 2 * sealed[d] - Len(o), o)

(* The carrier: what was written, one piece after the other, to the last   *)
(* that was written while it worked.                                       *)
Carried(d, c) ==
  LET base == Len(Pre(d)) + Pos(done[d]) IN
  /\ Taken(d) <= 2 * sealed[d]
  /\ Follow(Pre(d), c, 2 * opened[d], partial[d]) /\ Len(partial[d]) <= 1
  /\ Follow(Pre(d), c, 2 * opened[d] + Len(partial[d]), wire[d])
  /\ ~Ended(d) => Taken(d) + Len(out[d][1]) = 2 * sealed[d]
  /\ ~cut => base <= c[Taken(d) \div 2] /\ c[Taken(d) \div 2] < base + Size

(* The reader's end: what has been opened, as frames and a rest.           *)
Read(d, c) ==
  LET from == Len(Pre(d)) + Pos(Len(got[d]))
      upto == IF opened[d] = 0 THEN Len(Pre(d)) ELSE c[opened[d]]
  IN  /\ from <= upto /\ buf[d] \o plain[d] = Seg(Pre(d), from, upto) /\ Len(buf[d]) <= Body

InOrder(frames) == \A i \in 1 .. Len(frames) : frames[i] = body(i)

Flow(d) ==
  /\ Begun(d) /\ ~Deaf(d) => \E c : Cuts(c, sealed[d]) /\ Written(d, c) /\ Carried(d, c) /\ Read(d, c)
  /\ ~Begun(d) => /\ sealed[d] = 0 /\ opened[d] = 0 /\ partial[d] = <<>> /\ plain[d] = <<>> /\ buf[d] = <<>>
                  /\ doing[d][1] = "idle" /\ out[d][1] = <<>> /\ sent[d] = <<>> /\ done[d] = 0
  /\ ~Begun(d) \/ Deaf(d) => got[d] = <<>>

(* One thread writes; one that does not write has nothing to write.        *)
OneWriter(d) == \A t \in Threads : /\ t # 1 => doing[d][t] = "idle"
                                   /\ doing[d][t] \in {"idle", "dead"} => out[d][t] = <<>>

FlowOf(d) == Flow(d) /\ InOrder(sent[d]) /\ InOrder(got[d]) /\ Len(sent[d]) <= MaxFrames /\ OneWriter(d)
Flows == \A d \in Directions : FlowOf(d)

(* An end that was read stays what it was.                                 *)
FateOf(d) ==
  /\ fate[d] # "forged"
  /\ fate[d] # "reads" => Begun(d) /\ (d = "down" => stage = "Done")
  /\ fate[d] = "clean" => /\ plain[d] = <<>> /\ wire[d] = <<>> /\ Ended(d)
                          /\ partial[d] = <<>> \/ (tab /\ d = "down")
Fates == \A d \in Directions : FateOf(d)

(* Who may be where in the handshake, and what is under way meanwhile.     *)
First == {"AwaitPake", "AwaitKnownReply"}
Hearing == First \cup {"AwaitPairReply"}
Downward == Len(hsbuf) + Len(wire["down"])
Upward == Len(wire["up"])

Turns ==
  /\ stage \in First => stage = IF mode = "pair" THEN "AwaitPake" ELSE "AwaitKnownReply"
  /\ stage = "AwaitPairReply" => mode = "pair"
  /\ stage \notin Hearing => hsbuf = <<>>
  /\ Len(hsbuf) <= 1 /\ (stage \in First => (heard <=> hsbuf # <<>>))
  /\ host # "up" => Upward <= 2
  /\ stage \in Hearing => Downward <= 2 /\ (Upward = 0 \/ Downward = 0)
  /\ host \in {"opening", "proof", "key"} => sealed["down"] = 0
  /\ sealed["down"] > 0 => host = IF Known THEN "up" ELSE "gone"
  /\ host = "up" => sealed["down"] > 0 /\ stage \notin Hearing
  /\ stage \in Hearing => sealed["down"] = 0
  /\ stage = "AwaitVerdict" /\ sealed["down"] = 0 => wire["down"] = <<>>
  /\ stage = "Done" => host = "up" /\ opened["down"] > 0
  /\ stage # "Done" => sealed["up"] = 0 /\ opened["down"] = 0 /\ doing["up"][1] = "idle"
  /\ host # "up" => doing["down"][1] = "idle"
  /\ "up" \in shut => stage \in {"Over", "Done"}
  /\ "down" \in shut => host \in {"up", "gone"}

(* What the host says of itself is so.                                     *)
Refuses(x) == x.as \in {"locked", "newer"}
Says(x) == (x.as = "locked" => kind = "locked") /\ (x.as = "newer" => kind = "newer")
Refused == /\ \A i \in 1 .. Len(hsbuf) : Refuses(hsbuf[i])
           /\ \A i \in 1 .. Len(wire["down"]) : Refuses(wire["down"][i])
Said == /\ \A i \in 1 .. Len(hsbuf) : Says(hsbuf[i])
        /\ \A i \in 1 .. Len(wire["down"]) : Says(wire["down"][i])

Answered ==
  /\ stage \in First /\ host = "opening" => Downward = 0 /\ (cut \/ Upward = 2)
  /\ stage \in First /\ host \in {"proof", "key"} =>
       Upward = 0 /\ (cut \/ Downward = 2) /\ (host = IF mode = "pair" THEN "proof" ELSE "key")
  /\ stage \in First /\ host = "gone" => cut \/ (Downward = 2 /\ Refused) \/ (Downward = 0 /\ kind = "older")
  /\ stage = "AwaitPairReply" => host \in {"proof", "key", "gone"}
  /\ stage = "AwaitPairReply" /\ host = "proof" => Downward = 0 /\ (cut \/ Upward = 2)
  /\ stage = "AwaitPairReply" /\ host = "key" => Upward = 0 /\ (cut \/ Downward = 2)
  /\ stage = "AwaitPairReply" /\ host = "gone" => cut \/ (~agreed /\ Downward = 0)
  /\ stage = "AwaitVerdict" => host \in {"key", "up", "gone"}
  /\ stage = "AwaitVerdict" /\ host = "key" => cut \/ Upward = 2
  /\ stage = "AwaitVerdict" /\ host = "gone" => cut \/ sealed["down"] = 1
  /\ host = "key" /\ Upward = 2 => stage \in {"AwaitVerdict", "Over"} /\ wire["down"] = <<>>

(* What the client makes of it is so, too.                                 *)
Reported ==
  /\ stage \in Hearing => Said
  /\ stage # "Over" => failure = "none"
  /\ ReasonFits /\ (failure = "other" => cut)

RecordInv == RecordTypes /\ Flows /\ Fates /\ Turns /\ Answered /\ Reported

LEMMA NatMin ==
  ASSUME NEW T, T \subseteq Nat, T # {}
  PROVE  \E x \in T : \A y \in T : x <= y
<1> DEFINE R == OpToRel(<, Nat)
<1>1. IsWellFoundedOn(R, Nat)
  BY NatLessThanWellFounded
<1>2. R = {ss \in Nat \X Nat : ss[1] < ss[2]}
  BY DEF OpToRel
<1> HIDE DEF R
<1>3. \E x \in T : \A y \in T : ~(<<y, x>> \in R)
  BY <1>1, WFMin
<1>4. \A x, y \in Nat : y < x => <<y, x>> \in R
  <2> TAKE x, y \in Nat
  <2> HAVE y < x
  <2> DEFINE ss == <<y, x>>
  <2>1. ss \in Nat \X Nat /\ ss[1] = y /\ ss[2] = x
    OBVIOUS
  <2> HIDE DEF ss
  <2>2. ss[1] < ss[2]
    BY <2>1
  <2>3. ss \in R
    BY <1>2, <2>1, <2>2
  <2> QED BY <2>3 DEF ss
<1>5. PICK x \in T : \A y \in T : ~(<<y, x>> \in R)
  BY <1>3
<1>6. \A y \in T : ~(y < x)
  BY <1>4, <1>5
<1>7. \A y \in T : x <= y
  BY <1>6
<1> QED BY <1>7

LEMMA Induct ==
  ASSUME NEW T, 0 \in T, \A n \in Nat : n \in T => n + 1 \in T
  PROVE  Nat \subseteq T
<1> SUFFICES ASSUME ~(Nat \subseteq T) PROVE FALSE
  OBVIOUS
<1> DEFINE U == {n \in Nat : n \notin T}
<1>1. U \subseteq Nat /\ U # {}
  OBVIOUS
<1>2. PICK x \in U : \A y \in U : x <= y
  BY <1>1, NatMin
<1>3. x # 0 /\ x \in Nat
  BY <1>2
<1>4. x - 1 \in Nat /\ ~(x <= x - 1) /\ x - 1 + 1 = x
  BY <1>3
<1> QED BY <1>2, <1>4

(* A part of a part, and two parts one after the other.                    *)
LEMMA JoinParts ==
  ASSUME NEW S, NEW all \in Seq(S), NEW i \in 0 .. Len(all), NEW j \in i .. Len(all)
  PROVE  SubSeq(all, 1, i) \o SubSeq(all, i + 1, j) = SubSeq(all, 1, j)
<1> DEFINE a == SubSeq(all, 1, i)
           b == SubSeq(all, i + 1, j)
           c == SubSeq(all, 1, j)
<1>1. i \in Nat /\ j \in Nat /\ i <= j /\ j <= Len(all) /\ Len(all) \in Nat
  OBVIOUS
<1>2. a \in Seq(S) /\ Len(a) = i /\ \A k \in 1 .. i : a[k] = all[k]
  BY <1>1
<1>3. b \in Seq(S) /\ Len(b) = j - i /\ \A k \in 1 .. j - i : b[k] = all[i + k]
  BY <1>1
<1>4. c \in Seq(S) /\ Len(c) = j /\ \A k \in 1 .. j : c[k] = all[k]
  BY <1>1
<1> HIDE DEF a, b, c
<1>5. a \o b \in Seq(S) /\ Len(a \o b) = j /\ \A k \in 1 .. j : (a \o b)[k] = IF k <= i THEN a[k] ELSE b[k - i]
  BY <1>1, <1>2, <1>3
<1>6. \A k \in 1 .. j : (a \o b)[k] = c[k]
  <2> TAKE k \in 1 .. j
  <2>1. CASE k <= i
    BY <1>1, <1>2, <1>4, <1>5, <2>1
  <2>2. CASE ~(k <= i)
    <3>1. k - i \in 1 .. j - i /\ i + (k - i) = k
      BY <1>1, <2>2
    <3> QED BY <1>1, <1>3, <1>4, <1>5, <2>2, <3>1
  <2> QED BY <2>1, <2>2
<1> QED BY <1>4, <1>5, <1>6 DEF a, b, c

(* Pieces cut one after the other from a sequence, put together again: the *)
(* records of a stretch of the stream, opened.                              *)
Part(s, a, b) == SubSeq(s, a, b)

Slices(all, m, e, seqs) ==
  /\ e \in [0 .. m -> 0 .. Len(all)] /\ e[0] = 0 /\ \A i \in 1 .. m : e[i - 1] <= e[i]
  /\ Len(seqs) = m /\ (m = 0 => seqs = <<>>)
  /\ \A i \in 1 .. m : seqs[i] = Part(all, e[i - 1] + 1, e[i])

LEMMA Flattened ==
  ASSUME NEW S, NEW all \in Seq(S), NEW m \in Nat, NEW e, NEW seqs, Slices(all, m, e, seqs)
  PROVE  FlattenSeq(seqs) = Part(all, 1, e[m])
<1>a. e \in [0 .. m -> 0 .. Len(all)] /\ e[0] = 0 /\ \A i \in 1 .. m : e[i - 1] <= e[i]
  BY DEF Slices
<1>b. Len(seqs) = m /\ (m = 0 => seqs = <<>>) /\ \A i \in 1 .. m : seqs[i] = Part(all, e[i - 1] + 1, e[i])
  BY DEF Slices
<1> USE <1>a, <1>b
<1>1. CASE m = 0
  <2>1. FlattenSeq(seqs) = <<>>
    BY <1>1 DEF FlattenSeq
  <2>2. SubSeq(all, 1, 0) = <<>>
    OBVIOUS
  <2> QED BY <1>1, <2>1, <2>2 DEF Part
<1>2. CASE m # 0
  <2> DEFINE flatten[i \in 1 .. m] == IF i = 1 THEN seqs[i] ELSE flatten[i - 1] \o seqs[i]
             g == [i \in 1 .. m |-> SubSeq(all, 1, e[i])]
             R(f) == f = [i \in 1 .. m |-> IF i = 1 THEN seqs[i] ELSE f[i - 1] \o seqs[i]]
  <2>1. FlattenSeq(seqs) = flatten[m]
    BY <1>2 DEF FlattenSeq
  <2>2. flatten = CHOOSE f : R(f)
    OBVIOUS
  <2>3. \A i \in 1 .. m : g[i] = SubSeq(all, 1, e[i])
    OBVIOUS
  <2> HIDE DEF g
  <2>4. \A i \in 1 .. m : i # 1 => g[i - 1] \o seqs[i] = g[i]
    <3> TAKE i \in 1 .. m
    <3> HAVE i # 1
    <3>1. i - 1 \in 1 .. m /\ i - 1 \in 0 .. m /\ i \in 0 .. m
      OBVIOUS
    <3>2. e[i - 1] \in 0 .. Len(all) /\ e[i] \in 0 .. Len(all) /\ e[i - 1] <= e[i]
      BY <3>1
    <3>3. e[i] \in e[i - 1] .. Len(all)
      BY <3>2
    <3>4. SubSeq(all, 1, e[i - 1]) \o SubSeq(all, e[i - 1] + 1, e[i]) = SubSeq(all, 1, e[i])
      BY <3>2, <3>3, JoinParts
    <3> QED BY <2>3, <3>1, <3>4 DEF Part
  <2>5. g[1] = seqs[1]
    <3>1. 1 \in 1 .. m /\ 1 - 1 = 0
      BY <1>2
    <3>2. seqs[1] = SubSeq(all, e[1 - 1] + 1, e[1])
      BY <3>1 DEF Part
    <3>3. e[1 - 1] + 1 = 1
      OBVIOUS
    <3> QED BY <2>3, <3>1, <3>2, <3>3
  <2>6. R(g)
    <3>1. \A i \in 1 .. m : g[i] = IF i = 1 THEN seqs[i] ELSE g[i - 1] \o seqs[i]
      BY <2>4, <2>5
    <3>2. g = [i \in 1 .. m |-> g[i]]
      BY DEF g
    <3> QED BY <3>1, <3>2
  <2> HIDE DEF flatten
  <2>7. R(flatten)
    <3> HIDE DEF R
    <3> QED BY <2>2, <2>6
  <2>8. \A i \in 1 .. m : flatten[i] = IF i = 1 THEN seqs[i] ELSE flatten[i - 1] \o seqs[i]
    BY <2>7
  <2> HIDE DEF R
  <2> DEFINE T == {i \in Nat : i + 1 \in 1 .. m => flatten[i + 1] = g[i + 1]}
  <2>9. 0 \in T
    <3>1. 1 \in 1 .. m
      BY <1>2
    <3> QED BY <2>5, <2>8, <3>1
  <2>10. \A n \in Nat : n \in T => n + 1 \in T
    <3> TAKE n \in Nat
    <3> HAVE n \in T
    <3>1. ASSUME (n + 1) + 1 \in 1 .. m PROVE flatten[(n + 1) + 1] = g[(n + 1) + 1]
      <4>1. n + 1 \in 1 .. m /\ (n + 1) + 1 # 1 /\ ((n + 1) + 1) - 1 = n + 1
        BY <3>1
      <4>2. flatten[n + 1] = g[n + 1]
        BY <4>1
      <4>3. flatten[(n + 1) + 1] = flatten[n + 1] \o seqs[(n + 1) + 1]
        BY <2>8, <3>1, <4>1
      <4>4. g[n + 1] \o seqs[(n + 1) + 1] = g[(n + 1) + 1]
        BY <2>4, <3>1, <4>1
      <4> QED BY <4>2, <4>3, <4>4
    <3> QED BY <3>1
  <2>11. Nat \subseteq T
    <3> HIDE DEF T
    <3> QED BY <2>9, <2>10, Induct
  <2>12. m - 1 \in Nat /\ m \in 1 .. m /\ (m - 1) + 1 = m
    BY <1>2
  <2>13. flatten[m] = g[m]
    BY <2>11, <2>12
  <2> QED BY <2>1, <2>3, <2>12, <2>13 DEF Part
<1> QED BY <1>1, <1>2

(* Places in the stream: frames of one length one after the other.         *)
LEMMA Times ==
  ASSUME NEW s \in Nat \ {0}, NEW g \in Nat, NEW h \in Nat
  PROVE  /\ g * s \in Nat /\ 0 * s = 0 /\ (g + 1) * s = g * s + s /\ (g + h) * s = g * s + h * s
         /\ g < h => g * s + s <= h * s
         /\ g <= h => g * s <= h * s
<1>1. g * s \in Nat /\ 0 * s = 0 /\ (g + 1) * s = g * s + s /\ (g + h) * s = g * s + h * s
  OBVIOUS
<1>2. ASSUME g < h PROVE g * s + s <= h * s
  <2> DEFINE k == h - (g + 1)
  <2>1. k \in Nat /\ h = (g + 1) + k
    BY <1>2
  <2>2. h * s = (g + 1) * s + k * s /\ k * s \in Nat
    BY <2>1
  <2> QED BY <1>1, <2>2
<1>3. g <= h => g * s <= h * s
  BY <1>1, <1>2
<1> QED BY <1>1, <1>2, <1>3

LEMMA OnePlace ==
  ASSUME NEW s \in Nat \ {0}, NEW g \in Nat, NEW h \in Nat, NEW a \in 0 .. s - 1, NEW b \in 0 .. s - 1,
         g * s + a = h * s + b
  PROVE  g = h /\ a = b
<1>1. g * s \in Nat /\ h * s \in Nat /\ (g < h => g * s + s <= h * s) /\ (h < g => h * s + s <= g * s)
  BY Times
<1> DEFINE x == g * s
           y == h * s
<1> HIDE DEF x, y
<1>2. x \in Nat /\ y \in Nat /\ (g < h => x + s <= y) /\ (h < g => y + s <= x) /\ x + a = y + b
  BY <1>1 DEF x, y
<1>3. g = h
  BY <1>2
<1> QED BY <1>2, <1>3 DEF x, y

(* Division, for a divisor that is not a numeral.                          *)
LEMMA Division ==
  ASSUME NEW s \in Nat \ {0}, NEW u \in Nat
  PROVE  u \div s \in Nat /\ u % s \in 0 .. s - 1 /\ u = (u \div s) * s + (u % s)
  OBVIOUS

-----------------------------------------------------------------------------
(* The stream and its stretches.                                           *)
LEMMA Sizes == Size \in Nat \ {0} /\ Size >= 2 /\ Size = Body + 1 /\ Body \in Nat \ {0}
  BY RecordAssumption DEF Size

LEMMA PosFacts ==
  ASSUME NEW g \in Nat, NEW h \in Nat
  PROVE  /\ Pos(g) \in Nat /\ Pos(0) = 0 /\ Pos(g + 1) = Pos(g) + Size /\ Pos(g + h) = Pos(g) + Pos(h)
         /\ g < h => Pos(g) + Size <= Pos(h)
         /\ g <= h => Pos(g) <= Pos(h)
         /\ Pos(g) <= Pos(h) => g <= h
<1>1. Size \in Nat \ {0}
  BY Sizes
<1>2. /\ Pos(g) \in Nat /\ Pos(0) = 0 /\ Pos(g + 1) = Pos(g) + Size /\ Pos(g + h) = Pos(g) + Pos(h)
      /\ g < h => Pos(g) + Size <= Pos(h)
      /\ g <= h => Pos(g) <= Pos(h)
  BY <1>1, Times DEF Pos
<1>3. h < g => Pos(h) + Size <= Pos(g)
  BY <1>1, Times DEF Pos
<1>4. Pos(h) \in Nat
  BY <1>1, Times DEF Pos
<1> QED BY <1>1, <1>2, <1>3, <1>4

LEMMA PosNext == ASSUME NEW f \in Nat PROVE f + 1 \in Nat /\ Pos(f) \in Nat /\ Pos(f + 1) = Pos(f) + Size
  BY PosFacts

LEMMA StreamUnits == ASSUME NEW pre \in Seq(Units), NEW u \in Nat, u >= 1 PROVE Stream(pre, u) \in Units
<1>1. CASE u <= Len(pre)
  BY <1>1 DEF Stream
<1>2. CASE ~(u <= Len(pre))
  <2>1. u - Len(pre) - 1 \in Nat
    BY <1>2
  <2>2. (u - Len(pre) - 1) \div Size \in Nat /\ (u - Len(pre) - 1) % Size \in 0 .. Size - 1 /\ Size \in Nat
    BY <2>1, Sizes, Division
  <2>3. (u - Len(pre) - 1) \div Size + 1 \in Nat /\ (u - Len(pre) - 1) % Size \in Nat
    BY <2>2
  <2>4. Stream(pre, u) = [frame |-> (u - Len(pre) - 1) \div Size + 1, at |-> (u - Len(pre) - 1) % Size]
    BY <1>2 DEF Stream
  <2> QED BY <2>3, <2>4 DEF Units
<1> QED BY <1>1, <1>2

LEMMA SegFacts ==
  ASSUME NEW pre \in Seq(Units), NEW i \in Nat, NEW j \in Nat, i <= j
  PROVE  /\ Seg(pre, i, j) \in Seq(Units) /\ Len(Seg(pre, i, j)) = j - i
         /\ \A u \in 1 .. j - i : Seg(pre, i, j)[u] = Stream(pre, i + u)
         /\ Seg(pre, i, j) = <<>> <=> i = j
<1>1. \A u \in 1 .. j - i : Stream(pre, i + u) \in Units
  BY StreamUnits
<1>2. Seg(pre, i, j) = [u \in 1 .. j - i |-> Stream(pre, i + u)] /\ j - i \in Nat
  BY DEF Seg
<1> DEFINE s == Seg(pre, i, j)
           T(u) == Stream(pre, i + u)
<1>3. s = [u \in 1 .. j - i |-> T(u)] /\ \A u \in 1 .. j - i : T(u) \in Units
  BY <1>1, <1>2
<1> HIDE DEF s, T
<1>4. s \in Seq(Units) /\ Len(s) = j - i /\ (\A u \in 1 .. j - i : s[u] = T(u)) /\ (s = <<>> <=> i = j)
  BY <1>2, <1>3
<1> QED BY <1>4 DEF s, T

LEMMA Segs ==
  ASSUME NEW pre \in Seq(Units)
  PROVE  \A i, j \in Nat : i <= j =>
           /\ Seg(pre, i, j) \in Seq(Units) /\ Len(Seg(pre, i, j)) = j - i
           /\ \A u \in 1 .. j - i : Seg(pre, i, j)[u] = Stream(pre, i + u)
  BY SegFacts

LEMMA Same ==
  ASSUME NEW S, NEW p \in Seq(S), NEW q \in Seq(S), Len(p) = Len(q), \A u \in 1 .. Len(q) : p[u] = q[u]
  PROVE  p = q
  OBVIOUS

LEMMA Joined ==
  ASSUME NEW S, NEW u \in Seq(S), NEW v \in Seq(S)
  PROVE  /\ u \o v \in Seq(S) /\ Len(u \o v) = Len(u) + Len(v)
         /\ \A i \in 1 .. Len(u) + Len(v) : (u \o v)[i] = IF i <= Len(u) THEN u[i] ELSE v[i - Len(u)]
  OBVIOUS

LEMMA Parts ==
  ASSUME NEW S, NEW s \in Seq(S), NEW a \in Nat, NEW b \in Nat, 1 <= a, a <= b + 1, b <= Len(s)
  PROVE  /\ SubSeq(s, a, b) \in Seq(S) /\ Len(SubSeq(s, a, b)) = b + 1 - a
         /\ \A u \in 1 .. b + 1 - a : SubSeq(s, a, b)[u] = s[a + u - 1]
  OBVIOUS

LEMMA SegPart ==
  ASSUME NEW pre \in Seq(Units), NEW i \in Nat, NEW j \in Nat, i <= j,
         NEW a \in Nat, NEW b \in Nat, 1 <= a, a <= b + 1, b <= j - i
  PROVE  Part(Seg(pre, i, j), a, b) = Seg(pre, i + a - 1, i + b)
<1> DEFINE s == Seg(pre, i, j)
           k == i + a - 1
           r == Seg(pre, k, i + b)
           T(u) == Stream(pre, u)
<1>1. k \in Nat /\ k <= i + b /\ i + b \in Nat /\ (i + b) - k = b + 1 - a /\ b + 1 - a \in Nat
  OBVIOUS
<1>2. s \in Seq(Units) /\ Len(s) = j - i /\ \A u \in 1 .. j - i : s[u] = T(i + u)
  BY SegFacts
<1> HIDE DEF k
<1>3. r \in Seq(Units) /\ Len(r) = b + 1 - a /\ \A u \in 1 .. b + 1 - a : r[u] = T(k + u)
  <2> DEFINE m == i + b
  <2>1. m \in Nat /\ k \in Nat /\ k <= m /\ m - k = b + 1 - a
    BY <1>1
  <2> HIDE DEF m
  <2>2. /\ Seg(pre, k, m) \in Seq(Units) /\ Len(Seg(pre, k, m)) = m - k
        /\ \A u \in 1 .. m - k : Seg(pre, k, m)[u] = Stream(pre, k + u)
    BY <2>1, Segs
  <2> QED BY <2>1, <2>2 DEF m
<1> HIDE DEF s, r, T
<1>4. SubSeq(s, a, b) \in Seq(Units) /\ Len(SubSeq(s, a, b)) = b + 1 - a
      /\ \A u \in 1 .. b + 1 - a : SubSeq(s, a, b)[u] = s[a + u - 1]
  <2>1. s \in Seq(Units) /\ b <= Len(s)
    BY <1>2
  <2> QED BY <2>1, Parts
<1>5. \A u \in 1 .. b + 1 - a : SubSeq(s, a, b)[u] = r[u]
  <2> TAKE u \in 1 .. b + 1 - a
  <2>1. a + u - 1 \in 1 .. j - i /\ i + (a + u - 1) = k + u
    BY DEF k
  <2> QED BY <1>2, <1>3, <1>4, <2>1
<1>6. SubSeq(s, a, b) = r
  <2> DEFINE q == SubSeq(s, a, b)
  <2>1. q \in Seq(Units) /\ Len(q) = Len(r)
    BY <1>3, <1>4
  <2>2. \A u \in 1 .. Len(r) : q[u] = r[u]
    BY <1>3, <1>5
  <2>3. r \in Seq(Units)
    BY <1>3
  <2> HIDE DEF q
  <2>4. q = r
    BY <2>1, <2>2, <2>3, Same
  <2> QED BY <2>4 DEF q
<1> QED BY <1>6 DEF s, r, k, Part

LEMMA SegJoin ==
  ASSUME NEW pre \in Seq(Units), NEW i \in Nat, NEW j \in Nat, NEW k \in Nat, i <= j, j <= k
  PROVE  Seg(pre, i, j) \o Seg(pre, j, k) = Seg(pre, i, k)
<1> DEFINE a == Seg(pre, i, j)
           b == Seg(pre, j, k)
           c == Seg(pre, i, k)
           T(u) == Stream(pre, u)
<1>1. a \in Seq(Units) /\ Len(a) = j - i /\ \A u \in 1 .. j - i : a[u] = T(i + u)
  BY SegFacts, ZenonT(30)
<1>2. b \in Seq(Units) /\ Len(b) = k - j /\ \A u \in 1 .. k - j : b[u] = T(j + u)
  BY SegFacts, ZenonT(30)
<1>3. c \in Seq(Units) /\ Len(c) = k - i /\ \A u \in 1 .. k - i : c[u] = T(i + u)
  <2>1. i <= k
    OBVIOUS
  <2> QED BY <2>1, SegFacts, ZenonT(30)
<1> HIDE DEF a, b, c, T
<1>4. a \o b \in Seq(Units) /\ Len(a \o b) = k - i
      /\ \A u \in 1 .. k - i : (a \o b)[u] = IF u <= j - i THEN a[u] ELSE b[u - (j - i)]
  <2> DEFINE x == j - i
             y == k - j
  <2>1. a \in Seq(Units) /\ b \in Seq(Units) /\ Len(a) = x /\ Len(b) = y /\ x + y = k - i
    BY <1>1, <1>2
  <2> HIDE DEF x, y
  <2>2. /\ a \o b \in Seq(Units) /\ Len(a \o b) = x + y
        /\ \A u \in 1 .. x + y : (a \o b)[u] = IF u <= x THEN a[u] ELSE b[u - x]
    BY <2>1, Joined
  <2> QED BY <2>1, <2>2 DEF x
<1>5. \A u \in 1 .. k - i : (a \o b)[u] = c[u]
  <2> TAKE u \in 1 .. k - i
  <2>1. CASE u <= j - i
    BY <1>1, <1>3, <1>4, <2>1
  <2>2. CASE ~(u <= j - i)
    <3>1. u - (j - i) \in 1 .. k - j /\ j + (u - (j - i)) = i + u
      BY <2>2
    <3> QED BY <1>2, <1>3, <1>4, <2>2, <3>1
  <2> QED BY <2>1, <2>2
<1>6. a \o b = c
  <2>1. Len(a \o b) = Len(c) /\ \A u \in 1 .. Len(c) : (a \o b)[u] = c[u]
    BY <1>3, <1>4, <1>5
  <2> QED BY <1>3, <1>4, <2>1, Same
<1> QED BY <1>6 DEF a, b, c

LEMMA StreamAt ==
  ASSUME NEW pre \in Seq(Units), NEW f \in Nat, NEW a \in 0 .. Body
  PROVE  Stream(pre, Len(pre) + Pos(f) + 1 + a) = [frame |-> f + 1, at |-> a]
<1> DEFINE n == Len(pre)
           x == Pos(f) + a
           u == n + Pos(f) + 1 + a
<1>0. Pos(f) \in Nat /\ Size \in Nat \ {0} /\ Size = Body + 1 /\ Body \in Nat
  BY PosFacts, Sizes
<1>1. n \in Nat /\ Pos(f) \in Nat /\ x \in Nat /\ Size \in Nat \ {0} /\ a \in 0 .. Size - 1 /\ a \in Nat
  BY <1>0
<1>2. u - n - 1 = x /\ ~(u <= n)
  BY <1>1
<1>3. x \div Size \in Nat /\ x % Size \in 0 .. Size - 1 /\ x = (x \div Size) * Size + (x % Size)
  BY <1>1, Division
<1>4. x = f * Size + a
  BY DEF Pos
<1> HIDE DEF x
<1>5. x \div Size = f /\ x % Size = a
  <2> DEFINE g == x \div Size
             b == x % Size
  <2>1. g \in Nat /\ b \in 0 .. Size - 1 /\ g * Size + b = f * Size + a
    BY <1>3, <1>4
  <2> HIDE DEF g, b
  <2>2. g = f /\ b = a
    BY <1>1, <2>1, OnePlace
  <2> QED BY <2>2 DEF g, b
<1>6. Stream(pre, u) = [frame |-> (u - n - 1) \div Size + 1, at |-> (u - n - 1) % Size]
  BY <1>2 DEF Stream
<1> QED BY <1>2, <1>5, <1>6

LEMMA FrameSegs ==
  ASSUME NEW pre \in Seq(Units), NEW f \in Nat
  PROVE  /\ length(f + 1) = Seg(pre, Len(pre) + Pos(f), Len(pre) + Pos(f) + 1)
         /\ body(f + 1) = Seg(pre, Len(pre) + Pos(f) + 1, Len(pre) + Pos(f) + Size)
<1> DEFINE i == Len(pre) + Pos(f)
           T(u) == Stream(pre, u)
<1>a. Pos(f) \in Nat
  BY PosFacts
<1>0. Pos(f) \in Nat /\ Len(pre) \in Nat
  BY <1>a
<1>1. i \in Nat /\ Size = Body + 1 /\ Body \in Nat \ {0}
  BY <1>0, Sizes
<1>2. \A a \in 0 .. Body : T(i + 1 + a) = [frame |-> f + 1, at |-> a]
  BY StreamAt
<1> HIDE DEF T
<1>3. \A a \in 0 .. Body : T((i + 1) + a) = [frame |-> f + 1, at |-> a]
  BY <1>2
<1> HIDE DEF i
<1>4. T(i + 1) = [frame |-> f + 1, at |-> 0]
  <2>1. 0 \in 0 .. Body /\ (i + 1) + 0 = i + 1
    BY <1>1
  <2> QED BY <1>3, <2>1
<1>5. length(f + 1) = Seg(pre, i, i + 1)
  <2>1. Seg(pre, i, i + 1) = [u \in 1 .. 1 |-> T(i + u)]
    BY <1>1 DEF Seg, T
  <2>2. [u \in 1 .. 1 |-> T(i + u)] = <<T(i + 1)>>
    OBVIOUS
  <2> QED BY <1>4, <2>1, <2>2 DEF length
<1>6. body(f + 1) = Seg(pre, i + 1, i + Size)
  <2>1. Seg(pre, i + 1, i + Size) = [u \in 1 .. Body |-> T((i + 1) + u)]
    BY <1>1 DEF Seg, T
  <2>2. \A u \in 1 .. Body : T((i + 1) + u) = [frame |-> f + 1, at |-> u]
    BY <1>1, <1>3
  <2>3. [u \in 1 .. Body |-> T((i + 1) + u)] = [u \in 1 .. Body |-> [frame |-> f + 1, at |-> u]]
    BY <2>2
  <2> QED BY <2>1, <2>3 DEF body
<1> QED BY <1>5, <1>6 DEF i

-----------------------------------------------------------------------------
(* Pieces that follow one another.                                         *)
LEMMA FollowSplit ==
  ASSUME NEW pre, NEW c, NEW p \in Nat, NEW q \in Seq(Pieces), Follow(pre, c, p, q), NEW k \in 0 .. Len(q)
  PROVE  /\ Take(q, k) \in Seq(Pieces) /\ Len(Take(q, k)) = k /\ Follow(pre, c, p, Take(q, k))
         /\ After(q, k) \in Seq(Pieces) /\ Len(After(q, k)) = Len(q) - k /\ Follow(pre, c, p + k, After(q, k))
<1> DEFINE P(i) == PieceAt(pre, c, i)
           a == Take(q, k)
           b == After(q, k)
<1>1. \A i \in 1 .. Len(q) : q[i] = P(p + i)
  BY DEF Follow
<1>2. a \in Seq(Pieces) /\ Len(a) = k /\ \A i \in 1 .. k : a[i] = q[i]
  BY DEF Take
<1>3. b \in Seq(Pieces) /\ Len(b) = Len(q) - k /\ \A i \in 1 .. Len(q) - k : b[i] = q[k + i]
  BY DEF After
<1> HIDE DEF P, a, b
<1>4. \A i \in 1 .. Len(a) : a[i] = P(p + i)
  BY <1>1, <1>2
<1>5. \A i \in 1 .. Len(b) : b[i] = P((p + k) + i)
  <2> TAKE i \in 1 .. Len(b)
  <2>1. k + i \in 1 .. Len(q) /\ (p + k) + i = p + (k + i) /\ i \in 1 .. Len(q) - k
    BY <1>3
  <2> QED BY <1>1, <1>3, <2>1
<1> QED BY <1>2, <1>3, <1>4, <1>5 DEF Follow, P, a, b

LEMMA FollowJoin ==
  ASSUME NEW pre, NEW c, NEW p \in Nat, NEW q \in Seq(Pieces), NEW r \in Seq(Pieces),
         Follow(pre, c, p, q), Follow(pre, c, p + Len(q), r)
  PROVE  q \o r \in Seq(Pieces) /\ Len(q \o r) = Len(q) + Len(r) /\ Follow(pre, c, p, q \o r)
<1> DEFINE P(i) == PieceAt(pre, c, i)
           b == q \o r
<1>1. (\A i \in 1 .. Len(q) : q[i] = P(p + i)) /\ (\A i \in 1 .. Len(r) : r[i] = P((p + Len(q)) + i))
  BY DEF Follow
<1>2. b \in Seq(Pieces) /\ Len(b) = Len(q) + Len(r)
      /\ \A i \in 1 .. Len(b) : b[i] = IF i <= Len(q) THEN q[i] ELSE r[i - Len(q)]
  OBVIOUS
<1> HIDE DEF P, b
<1>3. \A i \in 1 .. Len(b) : b[i] = P(p + i)
  <2> TAKE i \in 1 .. Len(b)
  <2>1. CASE i <= Len(q)
    BY <1>1, <1>2, <2>1
  <2>2. CASE ~(i <= Len(q))
    <3>1. i - Len(q) \in 1 .. Len(r) /\ (p + Len(q)) + (i - Len(q)) = p + i
      BY <1>2, <2>2
    <3> QED BY <1>1, <1>2, <2>2, <3>1
  <2> QED BY <2>1, <2>2
<1> QED BY <1>2, <1>3 DEF Follow, P, b

(* Cuts made later do not matter to the pieces there are.                  *)
LEMMA FollowLater ==
  ASSUME NEW pre, NEW c, NEW e, NEW m \in Nat, \A i \in 0 .. m : e[i] = c[i],
         NEW p \in Nat, NEW q \in Seq(Pieces), p + Len(q) <= 2 * m, Follow(pre, c, p, q)
  PROVE  Follow(pre, e, p, q)
<1>1. ASSUME NEW i \in 1 .. Len(q) PROVE PieceAt(pre, e, p + i) = PieceAt(pre, c, p + i)
  <2> DEFINE r == (p + i - 1) \div 2
  <2>1. r \in 0 .. m /\ r + 1 \in 0 .. m
    OBVIOUS
  <2>2. e[r] = c[r] /\ e[r + 1] = c[r + 1]
    BY <2>1
  <2> QED BY <2>2 DEF PieceAt
<1> QED BY <1>1 DEF Follow

LEMMA Rising ==
  ASSUME NEW n \in Nat, NEW c, Cuts(c, n), NEW i \in 0 .. n, NEW j \in i .. n
  PROVE  c[i] \in Nat /\ c[j] \in Nat /\ c[i] <= c[j] /\ c[0] = 0 /\ (i < j => c[i] < c[j])
<1>1. j \in 0 .. n /\ (i < j \/ i = j)
  OBVIOUS
<1>2. c[i] \in Nat /\ c[j] \in Nat /\ c[0] = 0 /\ (i < j => c[i] < c[j])
  BY <1>1 DEF Cuts
<1> QED BY <1>1, <1>2

(* What rises from each place to the next rises over any distance.         *)
LEMMA Monotone ==
  ASSUME NEW m \in Nat, NEW k \in [0 .. m -> Nat], \A i \in 0 .. m : i < m => k[i] < k[i + 1]
  PROVE  \A i, j \in 0 .. m : i < j => k[i] < k[j]
<1> DEFINE T == {x \in Nat : \A i \in 0 .. m : i + 1 + x <= m => k[i] < k[i + 1 + x]}
<1>1. 0 \in T
  OBVIOUS
<1>2. \A x \in Nat : x \in T => x + 1 \in T
  <2> TAKE x \in Nat
  <2> HAVE x \in T
  <2>1. ASSUME NEW i \in 0 .. m, i + 1 + (x + 1) <= m PROVE k[i] < k[i + 1 + (x + 1)]
    <3>1. i + 1 + x \in 0 .. m /\ i + 1 + x < m /\ i + 1 + (x + 1) \in 0 .. m /\ (i + 1 + x) + 1 = i + 1 + (x + 1)
      BY <2>1
    <3>2. k[i] < k[i + 1 + x]
      BY <2>1, <3>1
    <3>3. k[i + 1 + x] < k[i + 1 + (x + 1)]
      BY <3>1
    <3>4. k[i] \in Nat /\ k[i + 1 + x] \in Nat /\ k[i + 1 + (x + 1)] \in Nat
      BY <3>1
    <3> QED BY <3>2, <3>3, <3>4
  <2> QED BY <2>1
<1>3. Nat \subseteq T
  <2> HIDE DEF T
  <2> QED BY <1>1, <1>2, Induct
<1> TAKE i, j \in 0 .. m
<1> HAVE i < j
<1>4. j - i - 1 \in Nat /\ i + 1 + (j - i - 1) = j
  OBVIOUS
<1>5. j - i - 1 \in T
  BY <1>3, <1>4
<1> QED BY <1>4, <1>5

(* seal cuts what it is given where the next records begin.                *)
Extends(pre, n, c, e, s) ==
  /\ s.n \in Nat /\ n < s.n
  /\ s.bytes \in Seq(Pieces) /\ Len(s.bytes) = 2 * (s.n - n)
  /\ \E k : /\ Cuts(k, s.n) /\ k[s.n] = e /\ \A i \in 0 .. n : k[i] = c[i]
            /\ Follow(pre, k, 2 * n, s.bytes)

LEMMA Sealing ==
  ASSUME NEW pre \in Seq(Units), NEW n \in Nat, NEW c, Cuts(c, n), NEW e \in Nat, c[n] < e,
         NEW s, s = seal(n, Seg(pre, c[n], e))
  PROVE  Extends(pre, n, c, e, s)
<1> DEFINE M == MaxPlain
           b == c[n]
           L == e - b
           units == Seg(pre, b, e)
           chunks == (L + (M - 1)) \div M
           k == [i \in 0 .. n + chunks |-> IF i <= n THEN c[i] ELSE b + Least((i - n) * M, L)]
           piece(p) == [as |-> "record", n |-> n + (p \div 2),
                        has |-> SubSeq(units, (p \div 2) * M + 1, Least(((p \div 2) + 1) * M, L))]
           bytes == [p \in 1 .. 2 * chunks |-> piece(p - 1)]
<1>1. M \in Nat \ {0} /\ b \in Nat /\ L \in Nat \ {0} /\ b + L = e /\ e \in Nat /\ b <= e
  BY Rising, RecordAssumption
<1>2. units \in Seq(Units) /\ Len(units) = L
  BY <1>1, Segs
<1>3. seal(n, units) = [bytes |-> bytes, n |-> n + chunks]
  BY <1>2 DEF seal
<1>4. chunks \in Nat \ {0} /\ L <= chunks * M /\ chunks * M - M < L
  <2> DEFINE r == (L + (M - 1)) % M
  <2>1. chunks \in Nat /\ r \in 0 .. M - 1 /\ L + (M - 1) = chunks * M + r
    <3> DEFINE u == L + (M - 1)
    <3>1. u \in Nat
      BY <1>1
    <3> HIDE DEF u, M
    <3>2. u \div M \in Nat /\ u % M \in 0 .. M - 1 /\ u = (u \div M) * M + (u % M)
      BY <1>1, <3>1, Division
    <3> QED BY <3>2 DEF u, M
  <2> HIDE DEF chunks, r, L, M
  <2> DEFINE x == chunks * M
  <2>2. chunks = 0 => x = 0
    BY <1>1
  <2> HIDE DEF x
  <2>3. L <= x /\ x - M < L /\ x \in Int
    BY <1>1, <2>1 DEF x
  <2>4. chunks # 0
    BY <1>1, <2>2, <2>3
  <2> QED BY <2>1, <2>3, <2>4 DEF x
<1> HIDE DEF chunks
<1>5. \A i \in 0 .. chunks : i * M \in Nat /\ (i + 1) * M = i * M + M /\ (i < chunks => i * M < L)
  <2> TAKE i \in 0 .. chunks
  <2> HIDE DEF M, L
  <2>1. i * M \in Nat /\ (i + 1) * M = i * M + M /\ chunks * M \in Nat /\ (i < chunks => i * M + M <= chunks * M)
    BY <1>1, <1>4, Times
  <2> QED BY <1>1, <1>4, <2>1
<1>6. \A i \in 0 .. n : k[i] = c[i]
  BY <1>4
<1>7. \A i \in 0 .. chunks : k[n + i] = b + Least(i * M, L)
  <2> TAKE i \in 0 .. chunks
  <2>1. CASE i = 0
    <3>0. n + i \in 0 .. n + chunks /\ n + i <= n /\ n + i = n
      BY <1>4, <2>1
    <3>1. k[n + i] = b
      BY <3>0
    <3>2. Least(0 * M, L) = 0
      BY <1>1 DEF Least
    <3> QED BY <1>1, <2>1, <3>1, <3>2
  <2>2. CASE i # 0
    <3>1. n + i \in 0 .. n + chunks /\ ~(n + i <= n) /\ (n + i) - n = i
      BY <1>4, <2>2
    <3> QED BY <3>1
  <2> QED BY <2>1, <2>2
<1> HIDE DEF b, L, M, k
<1>8. \A i \in 0 .. chunks : /\ k[n + i] \in Nat /\ b <= k[n + i] /\ k[n + i] <= e
                             /\ i < chunks => k[n + i] = b + i * M /\ k[n + i] < k[n + (i + 1)]
  <2> TAKE i \in 0 .. chunks
  <2> DEFINE x == i * M
             y == (i + 1) * M
  <2>1. x \in Nat /\ y = x + M /\ (i < chunks => x < L) /\ k[n + i] = b + Least(x, L)
    BY <1>5, <1>7
  <2>2. i < chunks => k[n + (i + 1)] = b + Least(y, L)
    <3>1. i < chunks => i + 1 \in 0 .. chunks
      BY <1>4
    <3> QED BY <1>7, <3>1
  <2> HIDE DEF x, y
  <2>3. k[n + i] \in Nat /\ b <= k[n + i] /\ k[n + i] <= e
    BY <1>1, <2>1 DEF Least
  <2>4. i < chunks => k[n + i] = b + x /\ k[n + i] < k[n + (i + 1)]
    BY <1>1, <2>1, <2>2 DEF Least
  <2> QED BY <2>3, <2>4 DEF x
<1>9. k[n + chunks] = e
  BY <1>1, <1>4, <1>7 DEF Least
<1>10. Cuts(k, n + chunks)
  <2>1. k \in [0 .. n + chunks -> Nat]
    <3>1. ASSUME NEW i \in 0 .. n + chunks PROVE k[i] \in Nat
      <4>1. CASE i <= n
        BY <1>6, <4>1, Rising DEF Cuts
      <4>2. CASE ~(i <= n)
        <5>1. i - n \in 0 .. chunks /\ n + (i - n) = i
          BY <1>4, <4>2
        <5> QED BY <1>8, <5>1
      <4> QED BY <4>1, <4>2
    <3>2. k = [i \in 0 .. n + chunks |-> k[i]]
      BY DEF k
    <3> QED BY <3>1, <3>2
  <2>2. k[0] = 0
    BY <1>6 DEF Cuts
  <2>3. \A i \in 0 .. n + chunks : i < n + chunks => k[i] < k[i + 1]
    <3> TAKE i \in 0 .. n + chunks
    <3> HAVE i < n + chunks
    <3>1. CASE i < n
      <4>1. i \in 0 .. n /\ i + 1 \in 0 .. n /\ i < i + 1
        BY <3>1
      <4>2. c[i] < c[i + 1]
        BY <4>1 DEF Cuts
      <4> QED BY <1>6, <4>1, <4>2
    <3>2. CASE ~(i < n)
      <4>1. i - n \in 0 .. chunks /\ i - n < chunks /\ n + (i - n) = i /\ n + ((i - n) + 1) = i + 1
        BY <1>4, <3>2
      <4> QED BY <1>8, <4>1
    <3> QED BY <3>1, <3>2
  <2>4. \A i, j \in 0 .. n + chunks : i < j => k[i] < k[j]
    <3>1. n + chunks \in Nat
      BY <1>4
    <3> QED BY <2>1, <2>3, <3>1, Monotone
  <2> QED BY <2>1, <2>2, <2>4 DEF Cuts
<1>11. \A p \in 1 .. 2 * chunks : piece(p - 1) = PieceAt(pre, k, 2 * n + p) /\ piece(p - 1) \in Pieces
  <2> TAKE p \in 1 .. 2 * chunks
  <2> DEFINE h == (p - 1) \div 2
             x == h * M
             y == Least((h + 1) * M, L)
             g == Seg(pre, k[n + h], k[n + (h + 1)])
  <2>1. h \in 0 .. chunks /\ h < chunks /\ h + 1 \in 0 .. chunks /\ (2 * n + p - 1) \div 2 = n + h
    BY <1>4
  <2> HIDE DEF h
  <2>2. x \in Nat /\ k[n + h] = b + x /\ k[n + (h + 1)] = b + y /\ x < L /\ k[n + h] < k[n + (h + 1)]
    BY <1>5, <1>7, <1>8, <2>1
  <2>3. y \in Nat /\ y <= L
    BY <1>1, <1>5, <2>1 DEF Least
  <2> HIDE DEF x, y
  <2>4. SubSeq(units, x + 1, y) = g
    <3>1. b \in Nat /\ e \in Nat /\ b <= e /\ x + 1 \in Nat /\ y \in Nat /\ 1 <= x + 1 /\ x + 1 <= y + 1 /\ y <= e - b
      BY <1>1, <2>2, <2>3
    <3> DEFINE a == x + 1
    <3>0. a \in Nat /\ b \in Nat /\ e \in Nat /\ b <= e /\ y \in Nat /\ 1 <= a /\ a <= y + 1 /\ y <= e - b
      BY <3>1
    <3> HIDE DEF a
    <3>2. Part(Seg(pre, b, e), a, y) = Seg(pre, b + a - 1, b + y)
      BY <3>0, SegPart
    <3>3. b + a - 1 = k[n + h]
      BY <1>1, <2>2 DEF a
    <3> QED BY <2>2, <3>2, <3>3 DEF a, Part
  <2>5. g \in Seq(Units)
    <3>1. k[n + h] \in Nat /\ k[n + (h + 1)] \in Nat /\ k[n + h] <= k[n + (h + 1)]
      BY <1>8, <2>1, <2>2
    <3> QED BY <3>1, Segs
  <2> HIDE DEF g
  <2>6. piece(p - 1) = [as |-> "record", n |-> n + h, has |-> g]
    BY <2>4 DEF h, x, y
  <2>7. n + h \in Nat /\ "record" \in Words /\ (n + h) + 1 = n + (h + 1)
    BY <2>1 DEF Words
  <2>8. piece(p - 1) \in Pieces
    BY <2>5, <2>6, <2>7 DEF Pieces
  <2>9. PieceAt(pre, k, 2 * n + p) = [as |-> "record", n |-> n + h, has |-> Seg(pre, k[n + h], k[(n + h) + 1])]
    BY <2>1 DEF PieceAt
  <2> QED BY <2>6, <2>7, <2>8, <2>9 DEF g
<1> HIDE DEF piece
<1>12. bytes \in Seq(Pieces) /\ Len(bytes) = 2 * chunks /\ \A p \in 1 .. 2 * chunks : bytes[p] = piece(p - 1)
  <2>1. 2 * chunks \in Nat
    BY <1>4
  <2> QED BY <1>11, <2>1
<1> HIDE DEF bytes
<1>13. Follow(pre, k, 2 * n, bytes)
  BY <1>11, <1>12 DEF Follow
<1>14. n + chunks \in Nat /\ n < n + chunks /\ (n + chunks) - n = chunks
  BY <1>4
<1>15. s.n = n + chunks /\ s.bytes = bytes
  BY <1>3 DEF b
<1> QED BY <1>6, <1>9, <1>10, <1>12, <1>13, <1>14, <1>15 DEF Extends

(* feed opens what follows: the units of the stream up to the next cut.    *)
Opens(pre, n, c, op, bytes, f) ==
  /\ f.ok /\ f.n \in op .. n /\ Len(bytes) = 2 * (f.n - op) + Len(f.partial) /\ Len(f.partial) <= 1
  /\ f.partial \in Seq(Pieces) /\ Follow(pre, c, 2 * f.n, f.partial)
  /\ f.plain = Seg(pre, c[op], c[f.n])

LEMMA Feeding ==
  ASSUME NEW pre \in Seq(Units), NEW n \in Nat, NEW c, Cuts(c, n), NEW op \in Nat,
         NEW bytes \in Seq(Pieces), 2 * op + Len(bytes) <= 2 * n, Follow(pre, c, 2 * op, bytes)
  PROVE  Opens(pre, n, c, op, bytes, feed(op, bytes))
<1> DEFINE w == Len(bytes) \div 2
           f == feed(op, bytes)
           rest == After(bytes, 2 * w)
           parts == [i \in 1 .. w |-> bytes[2 * i].has]
           d == [i \in 0 .. w |-> c[op + i]]
           span == Seg(pre, c[op], c[op + w])
           ends == [i \in 0 .. w |-> c[op + i] - c[op]]
<1>1. w \in Nat /\ 2 * w <= Len(bytes) /\ Len(bytes) - 2 * w <= 1 /\ Len(bytes) \in Nat /\ op + w <= n
      /\ 2 * w \in 0 .. Len(bytes) /\ op + w \in op .. n
  OBVIOUS
<1>2. \A i \in 1 .. w : bytes[2 * i] = [as |-> "record", n |-> op + i - 1, has |-> Seg(pre, c[op + (i - 1)], c[op + i])]
  <2> TAKE i \in 1 .. w
  <2>1. 2 * i \in 1 .. Len(bytes) /\ (2 * op + 2 * i - 1) \div 2 = op + (i - 1) /\ op + (i - 1) + 1 = op + i
        /\ op + (i - 1) = op + i - 1
    BY <1>1
  <2>2. bytes[2 * i] = PieceAt(pre, c, 2 * op + 2 * i)
    BY <2>1 DEF Follow
  <2> DEFINE h == (2 * op + 2 * i - 1) \div 2
  <2>3. PieceAt(pre, c, 2 * op + 2 * i) = [as |-> "record", n |-> h, has |-> Seg(pre, c[h], c[h + 1])]
    BY DEF PieceAt
  <2>4. h = op + (i - 1) /\ h + 1 = op + i /\ h = op + i - 1
    BY <2>1
  <2> HIDE DEF h
  <2> QED BY <2>2, <2>3, <2>4
<1>5. f.ok
  <2>1. ASSUME NEW i \in 1 .. w PROVE bytes[2 * i].as = "record" /\ bytes[2 * i].n = op + i - 1
    <3>1. bytes[2 * i] = [as |-> "record", n |-> op + i - 1, has |-> Seg(pre, c[op + (i - 1)], c[op + i])]
      BY <1>2
    <3> QED BY <3>1
  <2>2. f.ok = (\A i \in 1 .. w : bytes[2 * i].as = "record" /\ bytes[2 * i].n = op + i - 1)
    BY DEF feed
  <2> QED BY <2>1, <2>2, Zenon
<1>3. f.plain = FlattenSeq(parts) /\ f.partial = rest /\ f.n = op + w
  BY DEF feed
<1>4. rest \in Seq(Pieces) /\ Len(rest) = Len(bytes) - 2 * w /\ Follow(pre, c, 2 * op + 2 * w, rest)
  <2> DEFINE k == 2 * w
  <2>1. k \in 0 .. Len(bytes) /\ 2 * op \in Nat
    BY <1>1
  <2> HIDE DEF k
  <2>2. After(bytes, k) \in Seq(Pieces) /\ Len(After(bytes, k)) = Len(bytes) - k /\ Follow(pre, c, 2 * op + k, After(bytes, k))
    BY <2>1, FollowSplit
  <2> QED BY <2>2 DEF k
<1> HIDE DEF w, f, rest
<1>6. 2 * op + 2 * w = 2 * f.n /\ f.n \in op .. n /\ Len(bytes) = 2 * (f.n - op) + Len(f.partial) /\ Len(f.partial) <= 1
  <2>1. f.n = op + w /\ Len(f.partial) = Len(bytes) - 2 * w
    BY <1>3, <1>4
  <2> QED BY <1>1, <2>1
<1>7. /\ c[op] \in Nat /\ c[op + w] \in Nat /\ c[op] <= c[op + w]
      /\ \A i \in 0 .. w : /\ c[op + i] \in Nat /\ c[op] <= c[op + i] /\ c[op + i] <= c[op + w]
                           /\ i > 0 => c[op + (i - 1)] \in Nat /\ c[op] <= c[op + (i - 1)] /\ c[op + (i - 1)] <= c[op + i]
  <2>1. ASSUME NEW i \in 0 .. w
        PROVE  c[op] \in Nat /\ c[op + i] \in Nat /\ c[op + w] \in Nat /\ c[op] <= c[op + i] /\ c[op + i] <= c[op + w]
    <3>1. op \in 0 .. n /\ op + i \in op .. n /\ op + i \in 0 .. n /\ op + w \in (op + i) .. n
      BY <1>1
    <3>2. c[op] \in Nat /\ c[op + i] \in Nat /\ c[op] <= c[op + i]
      BY <3>1, Rising
    <3>3. c[op + w] \in Nat /\ c[op + i] <= c[op + w]
      BY <3>1, Rising
    <3> QED BY <3>2, <3>3
  <2>2. ASSUME NEW i \in 0 .. w, i > 0
        PROVE  c[op + (i - 1)] \in Nat /\ c[op] <= c[op + (i - 1)] /\ c[op + (i - 1)] <= c[op + i]
    <3>0. i - 1 \in 0 .. w
      BY <1>1, <2>2
    <3>1. op + (i - 1) \in 0 .. n /\ op + i \in (op + (i - 1)) .. n
      BY <1>1, <2>2
    <3>2. c[op + (i - 1)] <= c[op + i]
      BY <3>1, Rising
    <3> QED BY <2>1, <3>0, <3>2
  <2>3. 0 \in 0 .. w
    BY <1>1
  <2>4. c[op] \in Nat /\ c[op + w] \in Nat /\ c[op] <= c[op + w]
    BY <2>1, <2>3
  <2> QED BY <2>1, <2>2, <2>4
<1>8. span \in Seq(Units) /\ Len(span) = c[op + w] - c[op]
  BY <1>7, Segs
<1>9. ends \in [0 .. w -> 0 .. Len(span)] /\ ends[0] = 0 /\ ends[w] = Len(span)
      /\ \A i \in 1 .. w : /\ ends[i] = c[op + i] - c[op] /\ ends[i - 1] = c[op + (i - 1)] - c[op]
                           /\ ends[i - 1] <= ends[i]
  <2> HIDE DEF span
  <2>1. \A i \in 0 .. w : ends[i] = c[op + i] - c[op] /\ ends[i] \in 0 .. Len(span)
    BY <1>7, <1>8, SMTT(30)
  <2>2. ends \in [0 .. w -> 0 .. Len(span)]
    BY <2>1
  <2>3. 0 \in 0 .. w /\ w \in 0 .. w /\ op + 0 = op
    BY <1>1
  <2>4. ends[0] = c[op] - c[op] /\ ends[w] = c[op + w] - c[op]
    BY <2>1, <2>3
  <2>5. \A i \in 1 .. w : i \in 0 .. w /\ i > 0 /\ i - 1 \in 0 .. w
    BY <1>1
  <2> HIDE DEF ends
  <2>6. \A i \in 1 .. w : /\ ends[i] = c[op + i] - c[op] /\ ends[i - 1] = c[op + (i - 1)] - c[op]
                          /\ ends[i - 1] <= ends[i]
    <3> TAKE i \in 1 .. w
    <3>1. i \in 0 .. w /\ i - 1 \in 0 .. w /\ op + (i - 1) = op + i - 1
      BY <1>1, <2>5
    <3>2. ends[i] = c[op + i] - c[op] /\ ends[i - 1] = c[op + (i - 1)] - c[op]
      BY <2>1, <3>1
    <3>3. c[op] \in Nat /\ c[op + i] \in Nat /\ c[op + (i - 1)] \in Nat /\ c[op + (i - 1)] <= c[op + i]
      BY <1>7, <2>5, <3>1
    <3> QED BY <3>2, <3>3, SMTT(30)
  <2> QED BY <1>7, <1>8, <2>2, <2>4, <2>6
<1> HIDE DEF ends
<1>10. \A i \in 1 .. w : parts[i] = Part(span, ends[i - 1] + 1, ends[i])
  <2> TAKE i \in 1 .. w
  <2> DEFINE b == c[op]
             z == c[op + w]
             x == ends[i - 1] + 1
             y == ends[i]
  <2>1. i \in 0 .. w /\ i > 0
    BY <1>1
  <2>2. /\ b \in Nat /\ z \in Nat /\ b <= z /\ x \in Nat /\ y \in Nat /\ 1 <= x /\ x <= y + 1 /\ y <= z - b
        /\ b + x - 1 = c[op + (i - 1)] /\ b + y = c[op + i]
    <3> DEFINE u == c[op + (i - 1)]
               v == c[op + i]
    <3>1. b \in Nat /\ z \in Nat /\ u \in Nat /\ v \in Nat /\ b <= u /\ u <= v /\ v <= z /\ b <= z
      BY <1>7, <2>1
    <3>2. x = (u - b) + 1 /\ y = v - b
      BY <1>9
    <3> HIDE DEF b, z, x, y, u, v
    <3>3. /\ b \in Nat /\ z \in Nat /\ b <= z /\ x \in Nat /\ y \in Nat /\ 1 <= x /\ x <= y + 1 /\ y <= z - b
          /\ b + x - 1 = u /\ b + y = v
      BY <3>1, <3>2
    <3> QED BY <3>3 DEF u, v
  <2> HIDE DEF b, z, x, y
  <2>3. Part(Seg(pre, b, z), x, y) = Seg(pre, b + x - 1, b + y)
    BY <2>2, SegPart
  <2>4. parts[i] = Seg(pre, c[op + (i - 1)], c[op + i])
    <3>1. parts[i] = bytes[2 * i].has
      OBVIOUS
    <3>2. bytes[2 * i] = [as |-> "record", n |-> op + i - 1, has |-> Seg(pre, c[op + (i - 1)], c[op + i])]
      BY <1>2
    <3> HIDE DEF parts
    <3> QED BY <3>1, <3>2
  <2>5. Part(Seg(pre, b, z), x, y) = parts[i]
    BY <2>2, <2>3, <2>4
  <2> HIDE DEF parts
  <2> QED BY <2>5 DEF b, z, x, y
<1>11. Len(parts) = w /\ (w = 0 => parts = <<>>)
  BY <1>1
<1> HIDE DEF parts, span
<1>12. FlattenSeq(parts) = Part(span, 1, ends[w])
  <2>1. Slices(span, w, ends, parts)
    BY <1>9, <1>10, <1>11 DEF Slices
  <2>2. w \in Nat /\ span \in Seq(Units)
    BY <1>1, <1>8
  <2> QED BY <2>1, <2>2, Flattened
<1>13. Part(span, 1, ends[w]) = span
  <2>1. ends[w] = Len(span)
    BY <1>9
  <2>2. SubSeq(span, 1, Len(span)) = span
    BY <1>8
  <2> QED BY <2>1, <2>2 DEF Part
<1>14. f.plain = Seg(pre, c[op], c[f.n])
  BY <1>3, <1>12, <1>13 DEF span
<1> QED BY <1>3, <1>4, <1>5, <1>6, <1>14 DEF f, Opens

(* next_frames finds the frames that are whole where they begin.           *)
Unframes(pre, g, j, r) ==
  LET w == Len(r.bodies)
  IN  /\ w \in Nat /\ Len(pre) + Pos(g + w) <= j
      /\ r.rest = Seg(pre, Len(pre) + Pos(g + w), j) /\ Len(r.rest) <= Body
      /\ r.bodies = [k \in 1 .. w |-> body(g + k)]

LEMMA Framing ==
  ASSUME NEW pre \in Seq(Units), NEW g \in Nat, NEW j \in Nat, Len(pre) + Pos(g) <= j
  PROVE  Unframes(pre, g, j, next_frames(Seg(pre, Len(pre) + Pos(g), j)))
<1> DEFINE i == Len(pre) + Pos(g)
           s == Seg(pre, i, j)
           L == j - i
           w == L \div Size
           r == next_frames(s)
<1>a. Pos(g) \in Nat
  BY PosFacts
<1>b. Len(pre) \in Nat
  OBVIOUS
<1>1. i \in Nat /\ L \in Nat /\ i + L = j /\ i <= j /\ Size \in Nat \ {0} /\ Size = Body + 1 /\ Body \in Nat \ {0}
  BY <1>a, <1>b, Sizes
<1>2. s \in Seq(Units) /\ Len(s) = L
  <2> HIDE DEF i
  <2> QED BY <1>1, Segs
<1>3. w \in Nat /\ w * Size \in Nat /\ w * Size <= L /\ L - w * Size <= Body
  <2> HIDE DEF i, L
  <2> DEFINE x == w * Size
             y == L % Size
  <2>1. w \in Nat /\ y \in 0 .. Size - 1 /\ L = x + y
    BY <1>1, Division
  <2> HIDE DEF w
  <2>2. x \in Nat
    BY <1>1, <2>1, Times
  <2> HIDE DEF x, y
  <2>3. x <= L /\ L - x <= Body
    BY <1>1, <2>1, <2>2
  <2> QED BY <2>1, <2>2, <2>3 DEF x
<1>4. r.bodies = [k \in 1 .. w |-> SubSeq(s, (k - 1) * Size + 2, k * Size)] /\ r.rest = After(s, w * Size)
  BY <1>2 DEF next_frames, Size
<1>5. Pos(g + w) = Pos(g) + w * Size
  <2> HIDE DEF w
  <2>1. Pos(g + w) = Pos(g) + Pos(w)
    BY <1>3, PosFacts
  <2> QED BY <2>1 DEF Pos
<1> DEFINE z == w * Size
<1>z. z \in Nat /\ z <= L /\ Pos(g + w) = Pos(g) + z
  BY <1>3, <1>5
<1> HIDE DEF s, L, w, r, z
<1>6. \A k \in 1 .. w : SubSeq(s, (k - 1) * Size + 2, k * Size) = body(g + k)
  <2> TAKE k \in 1 .. w
  <2> DEFINE x == (k - 1) * Size
             a == x + 2
             b == k * Size
  <2>1. k - 1 \in Nat /\ k \in Nat /\ k - 1 + 1 = k /\ k <= w
    BY <1>3
  <2>2. x \in Nat /\ b = x + Size
    BY <1>1, <2>1, Times
  <2>3. b <= w * Size
    BY <1>1, <1>3, <2>1, Times
  <2> HIDE DEF x, b
  <2>4. a \in Nat /\ b \in Nat /\ 1 <= a /\ a <= b + 1 /\ b <= j - i
    BY <1>1, <1>z, <2>2, <2>3 DEF L, z
  <2> HIDE DEF a, i
  <2>5. Part(Seg(pre, i, j), a, b) = Seg(pre, i + a - 1, i + b)
    BY <1>1, <2>4, SegPart
  <2>6. Pos(g + (k - 1)) = Pos(g) + x
    <3>1. Pos(g + (k - 1)) = Pos(g) + Pos(k - 1)
      BY <2>1, PosFacts
    <3> QED BY <3>1 DEF Pos, x
  <2>7. i + a - 1 = Len(pre) + Pos(g + (k - 1)) + 1 /\ i + b = Len(pre) + Pos(g + (k - 1)) + Size
    BY <1>a, <1>b, <1>1, <2>2, <2>6, SMTT(30) DEF i, a
  <2>8. body((g + (k - 1)) + 1) = Seg(pre, Len(pre) + Pos(g + (k - 1)) + 1, Len(pre) + Pos(g + (k - 1)) + Size)
    <3>1. g + (k - 1) \in Nat
      BY <2>1
    <3> QED BY <3>1, FrameSegs
  <2>9. (g + (k - 1)) + 1 = g + k
    BY <2>1
  <2>10. Part(Seg(pre, i, j), a, b) = body(g + k)
    BY <2>5, <2>7, <2>8, <2>9
  <2> QED BY <2>10 DEF Part, s, a, b, x, i
<1>7. r.bodies = [k \in 1 .. w |-> body(g + k)] /\ Len(r.bodies) = w
  BY <1>3, <1>4, <1>6
<1>8. r.rest = Seg(pre, Len(pre) + Pos(g + w), j)
  <2> DEFINE a == z + 1
             b == Len(s)
  <2>1. a \in Nat /\ b \in Nat /\ 1 <= a /\ a <= b + 1 /\ b <= j - i /\ b = j - i
    BY <1>1, <1>2, <1>z DEF L
  <2>2. r.rest = Part(s, a, b)
    BY <1>4 DEF After, Part, z
  <2> HIDE DEF a, b, i
  <2>3. Part(Seg(pre, i, j), a, b) = Seg(pre, i + a - 1, i + b)
    BY <1>1, <2>1, SegPart
  <2>4. i + a - 1 = Len(pre) + Pos(g + w) /\ i + b = j
    <3> DEFINE p == Pos(g)
               q == Pos(g + w)
               l == Len(pre)
    <3>1. i = l + p /\ a = z + 1 /\ q = p + z /\ p \in Nat /\ l \in Nat
      BY <1>a, <1>b, <1>z DEF i, a
    <3> HIDE DEF p, q, l
    <3>2. i + a - 1 = l + q /\ i + b = j
      BY <1>1, <1>z, <2>1, <3>1
    <3> QED BY <3>2 DEF l, q
  <2> QED BY <2>2, <2>3, <2>4 DEF s
<1>9. Len(pre) + Pos(g + w) <= j /\ Len(r.rest) <= Body
  <2>1. i + z <= j /\ Len(pre) + Pos(g + w) = i + z
    <3> DEFINE p == Pos(g)
               q == Pos(g + w)
               l == Len(pre)
    <3>1. i = l + p /\ q = p + z /\ p \in Nat /\ l \in Nat
      BY <1>a, <1>b, <1>z
    <3> HIDE DEF p, q, l, i
    <3>2. i + z <= j /\ l + q = i + z
      BY <1>1, <1>z, <3>1
    <3> QED BY <3>2 DEF l, q
  <2>2. r.rest \in Seq(Units) /\ Len(r.rest) = j - (Len(pre) + Pos(g + w))
    <3> DEFINE x == Len(pre) + Pos(g + w)
    <3>1. x \in Nat /\ x <= j
      BY <1>1, <1>z, <2>1
    <3> HIDE DEF x
    <3>2. Seg(pre, x, j) \in Seq(Units) /\ Len(Seg(pre, x, j)) = j - x
      BY <3>1, Segs
    <3> QED BY <1>8, <3>2 DEF x
  <2>3. L - z <= Body
    BY <1>3 DEF z
  <2> QED BY <1>1, <1>z, <2>1, <2>2, <2>3 DEF L
<1> QED BY <1>3, <1>7, <1>8, <1>9 DEF r, s, i, Unframes

-----------------------------------------------------------------------------
(* One direction, with its cuts given.                                     *)
FlowAt(d, c) == Cuts(c, sealed[d]) /\ Written(d, c) /\ Carried(d, c) /\ Read(d, c)

(* What a step does not touch.                                             *)
Onward == shut \subseteq shut' /\ (cut => cut') /\ UNCHANGED <<mode, agreed>>
WriterKept(d) == /\ sealed'[d] = sealed[d] /\ out'[d][1] = out[d][1] /\ doing'[d][1] = doing[d][1]
                 /\ sent'[d] = sent[d] /\ done'[d] = done[d]
ReaderKept(d) == /\ opened'[d] = opened[d] /\ partial'[d] = partial[d] /\ plain'[d] = plain[d]
                 /\ buf'[d] = buf[d] /\ got'[d] = got[d]

LEMMA DirectionTypes ==
  ASSUME RecordTypes, NEW d \in Directions
  PROVE  /\ sealed[d] \in Nat /\ done[d] \in Nat /\ opened[d] \in Nat
         /\ out[d][1] \in Seq(Pieces) /\ wire[d] \in Seq(Pieces) /\ partial[d] \in Seq(Pieces)
         /\ plain[d] \in Seq(Units) /\ buf[d] \in Seq(Units)
         /\ sent[d] \in Seq(Frames) /\ got[d] \in Seq(Frames)
         /\ doing[d][1] \in {"idle", "length", "body", "dead"}
  BY RecordAssumption DEF RecordTypes, HandshakeTypes, TunnelTypes

LEMMA Preludes ==
  /\ \A d \in Directions : Pre(d) \in Seq(Units) /\ Len(Pre(d)) = IF d = "up" THEN 0 ELSE 1
  /\ \A ok \in BOOLEAN : verdict(ok) \in Seq(Units) /\ Len(verdict(ok)) = 1
<1>1. \A ok : verdict(ok) \in Seq(Units) /\ Len(verdict(ok)) = 1
  <2> TAKE ok
  <2> DEFINE u == [frame |-> 0, at |-> IF ok THEN 0 ELSE 1]
  <2>1. u \in Units
    BY DEF Units
  <2> HIDE DEF u
  <2>2. <<u>> \in Seq(Units) /\ Len(<<u>>) = 1
    BY <2>1
  <2> QED BY <2>2 DEF verdict, u
<1>2. ASSUME NEW d \in Directions PROVE Pre(d) \in Seq(Units) /\ Len(Pre(d)) = IF d = "up" THEN 0 ELSE 1
  <2>1. CASE d = "up"
    <3>1. <<>> \in Seq(Units) /\ Len(<<>>) = 0
      OBVIOUS
    <3> QED BY <2>1, <3>1 DEF Pre
  <2>2. CASE d # "up"
    BY <1>1, <2>2 DEF Pre
  <2> QED BY <2>1, <2>2
<1> QED BY <1>1, <1>2

(* The numbers of a direction.                                             *)
LEMMA FlowNumbers ==
  ASSUME RecordTypes, NEW d \in Directions, NEW c, FlowAt(d, c)
  PROVE  /\ Len(Pre(d)) \in Nat /\ Pos(done[d]) \in Nat /\ Size \in Nat /\ Size >= 2
         /\ Len(out[d][1]) \in Nat /\ Len(wire[d]) \in Nat /\ Len(partial[d]) \in Nat
         /\ Taken(d) = 2 * opened[d] + Len(partial[d]) + Len(wire[d])
         /\ Taken(d) \in Nat /\ Taken(d) <= 2 * sealed[d]
         /\ Taken(d) \div 2 \in opened[d] .. sealed[d] /\ opened[d] \in 0 .. sealed[d]
         /\ c[Taken(d) \div 2] \in Nat /\ c[sealed[d]] \in Nat /\ c[opened[d]] \in Nat
         /\ c[opened[d]] <= c[Taken(d) \div 2] /\ c[Taken(d) \div 2] <= c[sealed[d]] /\ c[0] = 0
<1>1. sealed[d] \in Nat /\ opened[d] \in Nat /\ done[d] \in Nat
  BY DirectionTypes
<1>2. Len(out[d][1]) \in Nat /\ Len(wire[d]) \in Nat /\ Len(partial[d]) \in Nat
  BY DirectionTypes
<1>3. Taken(d) = 2 * opened[d] + Len(partial[d]) + Len(wire[d]) /\ Taken(d) <= 2 * sealed[d]
  BY DEF Taken, FlowAt, Carried
<1>4. Len(Pre(d)) \in Nat
  BY Preludes
<1>5. Pos(done[d]) \in Nat /\ Size \in Nat /\ Size >= 2
  BY <1>1, PosFacts, Sizes
<1>6. Taken(d) \in Nat /\ Taken(d) \div 2 \in opened[d] .. sealed[d] /\ opened[d] \in 0 .. sealed[d]
  <2> DEFINE t == Taken(d)
             n == sealed[d]
             o == opened[d]
             w == Len(wire[d])
             p == Len(partial[d])
  <2>1. n \in Nat /\ o \in Nat /\ w \in Nat /\ p \in Nat /\ t = 2 * o + p + w /\ t <= 2 * n
    BY <1>1, <1>2, <1>3
  <2> HIDE DEF t, n, o, w, p
  <2>2. t \in Nat /\ t \div 2 \in o .. n /\ o \in 0 .. n
    BY <2>1
  <2> QED BY <2>2 DEF t, n, o
<1>7. Cuts(c, sealed[d])
  BY DEF FlowAt
<1> DEFINE m == Taken(d) \div 2
           n == sealed[d]
           o == opened[d]
<1>8. n \in Nat /\ o \in 0 .. n /\ m \in o .. n /\ m \in 0 .. n /\ n \in m .. n
  BY <1>1, <1>6
<1> HIDE DEF m, n, o
<1>9. Cuts(c, n)
  BY <1>7 DEF n
<1>10. c[o] \in Nat /\ c[m] \in Nat /\ c[o] <= c[m] /\ c[0] = 0
  BY <1>8, <1>9, Rising
<1>11. c[n] \in Nat /\ c[m] <= c[n]
  BY <1>8, <1>9, Rising
<1> QED BY <1>2, <1>3, <1>4, <1>5, <1>6, <1>10, <1>11 DEF m, n, o

(* No more frames than were begun fit in front of a cut.                   *)
LEMMA FramesBegun ==
  ASSUME RecordTypes, NEW d \in Directions, NEW c, FlowAt(d, c), NEW g \in Nat, NEW i \in 0 .. sealed[d],
         Len(Pre(d)) + Pos(g) <= c[i]
  PROVE  g <= Len(sent[d])
<1> DEFINE n == sealed[d]
           l == Len(Pre(d))
           f == done[d]
           p == Pos(f)
           q == Pos(g)
<1>1. l \in Nat /\ p \in Nat /\ q \in Nat /\ n \in Nat /\ f \in Nat /\ Size \in Nat /\ c[n] \in Nat
  <2>1. done[d] \in Nat /\ sealed[d] \in Nat
    BY DirectionTypes
  <2> QED BY <2>1, FlowNumbers, PosFacts
<1>2. c[i] \in Nat /\ c[i] <= c[n]
  <2>1. i \in 0 .. n /\ n \in i .. n /\ n \in Nat
    BY <1>1
  <2> HIDE DEF n
  <2>2. Cuts(c, n)
    BY DEF FlowAt, n
  <2> QED BY <2>1, <2>2, Rising
<1>3. doing[d][1] \in {"idle", "length", "body", "dead"}
  BY DirectionTypes
<1>4. /\ doing[d][1] = "idle" => c[n] = l + p /\ Len(sent[d]) = f
      /\ doing[d][1] # "idle" => c[n] <= l + p + Size /\ Len(sent[d]) = f + 1
  <2>1. /\ doing[d][1] = "idle" => c[n] = l + p
        /\ doing[d][1] = "length" => c[n] = l + p + 1
        /\ doing[d][1] = "body" => c[n] = l + p + Size
        /\ doing[d][1] = "dead" => c[n] <= l + p + Size
        /\ Len(sent[d]) = IF doing[d][1] = "idle" THEN f ELSE f + 1
    BY DEF FlowAt, Written
  <2>2. Size >= 2
    BY Sizes
  <2> HIDE DEF n, l, f, p, q
  <2> QED BY <1>1, <1>3, <2>1, <2>2
<1>5. (q <= p => g <= f) /\ (q <= p + Size => g <= f + 1)
  <2>1. q <= p => g <= f
    BY <1>1, PosFacts
  <2>2. f + 1 \in Nat /\ Pos(f + 1) = p + Size
    BY <1>1, PosNext
  <2>3. q <= Pos(f + 1) => g <= f + 1
    <3> DEFINE h == f + 1
    <3>1. h \in Nat
      BY <2>2
    <3> HIDE DEF h
    <3>2. Pos(g) <= Pos(h) => g <= h
      BY <3>1, PosFacts
    <3> QED BY <3>2 DEF h
  <2> QED BY <2>1, <2>2, <2>3
<1>6. l + q <= c[i]
  OBVIOUS
<1> HIDE DEF n, l, f, p, q
<1>7. CASE doing[d][1] = "idle"
  <2>1. q <= p
    BY <1>1, <1>2, <1>4, <1>6, <1>7
  <2> QED BY <1>4, <1>5, <1>7, <2>1
<1>8. CASE doing[d][1] # "idle"
  <2>1. q <= p + Size
    BY <1>1, <1>2, <1>4, <1>6, <1>8
  <2> QED BY <1>4, <1>5, <1>8, <2>1
<1> QED BY <1>7, <1>8

-----------------------------------------------------------------------------
(* What the steps of one direction do to it.                               *)
LEMMA EndedStays == ASSUME Onward, NEW d PROVE Ended(d) => Ended(d)'
  BY DEF Onward, Ended, Other

LEMMA WrittenStays ==
  ASSUME NEW d \in Directions, NEW c, Written(d, c), Onward, WriterKept(d)
  PROVE  Written(d, c)'
<1>1. Pre(d)' = Pre(d)
  BY DEF Pre, Onward, Known
<1> DEFINE P == Pre(d)
           Q == Pre(d)'
<1>2. P = Q
  BY <1>1
<1> HIDE DEF P, Q
<1> QED BY <1>2 DEF Written, WriterKept, P, Q

LEMMA CarriedStays ==
  ASSUME NEW d \in Directions, NEW c, Carried(d, c), Onward, WriterKept(d),
         wire'[d] = wire[d], opened'[d] = opened[d], partial'[d] = partial[d]
  PROVE  Carried(d, c)'
<1>1. Pre(d)' = Pre(d)
  BY DEF Pre, Onward, Known
<1>2. Taken(d)' = Taken(d)
  BY DEF Taken
<1>3. (~Ended(d)' => ~Ended(d)) /\ (~cut' => ~cut)
  BY EndedStays DEF Onward
<1> DEFINE P == Pre(d)
           Q == Pre(d)'
           t == Taken(d)
           u == Taken(d)'
<1>4. P = Q /\ t = u
  BY <1>1, <1>2
<1> HIDE DEF P, Q, t, u
<1> QED BY <1>3, <1>4 DEF Carried, WriterKept, P, Q, t, u

LEMMA ReadStays ==
  ASSUME NEW d \in Directions, NEW c, Read(d, c), Onward, ReaderKept(d)
  PROVE  Read(d, c)'
<1>1. Pre(d)' = Pre(d)
  BY DEF Pre, Onward, Known
<1> DEFINE P == Pre(d)
           Q == Pre(d)'
<1>2. P = Q
  BY <1>1
<1> HIDE DEF P, Q
<1> QED BY <1>2 DEF Read, ReaderKept, P, Q

LEMMA FlowStays ==
  ASSUME NEW d \in Directions, NEW c, FlowAt(d, c), Onward, WriterKept(d), ReaderKept(d), wire'[d] = wire[d]
  PROVE  FlowAt(d, c)'
<1>1. Written(d, c)' /\ Read(d, c)'
  BY WrittenStays, ReadStays DEF FlowAt
<1>2. Carried(d, c)'
  BY CarriedStays DEF FlowAt, ReaderKept
<1>3. Cuts(c, sealed[d])'
  BY DEF FlowAt, WriterKept
<1> QED BY <1>1, <1>2, <1>3 DEF FlowAt

(* A frame's length or its body is sealed.                                 *)
(* The next write of the frame under way, sealed: a stretch from where the *)
(* last record ends to e.                                                  *)
SealedTo(d, c, what, e) ==
  /\ Onward /\ ReaderKept(d) /\ wire'[d] = wire[d] /\ done'[d] = done[d]
  /\ Len(sent'[d]) = done[d] + 1 /\ out[d][1] = <<>> /\ what \in {"length", "body"} /\ doing'[d][1] = what
  /\ e \in Nat /\ e = Len(Pre(d)) + Pos(done[d]) + (IF what = "length" THEN 1 ELSE Size)
  /\ c[sealed[d]] < e
  /\ sealed'[d] = seal(sealed[d], Seg(Pre(d), c[sealed[d]], e)).n
  /\ out'[d][1] = seal(sealed[d], Seg(Pre(d), c[sealed[d]], e)).bytes

LEMMA SealAt ==
  ASSUME RecordTypes, NEW d \in Directions, NEW c, NEW what, NEW e, SealedTo(d, c, what, e), FlowAt(d, c)
  PROVE  \E k : FlowAt(d, k)'
<1>a. Onward /\ ReaderKept(d) /\ wire'[d] = wire[d] /\ done'[d] = done[d]
  BY DEF SealedTo
<1>b. Len(sent'[d]) = done[d] + 1 /\ out[d][1] = <<>> /\ what \in {"length", "body"} /\ doing'[d][1] = what
  BY DEF SealedTo
<1>c. /\ e \in Nat /\ e = Len(Pre(d)) + Pos(done[d]) + (IF what = "length" THEN 1 ELSE Size)
      /\ c[sealed[d]] < e
  BY DEF SealedTo
<1>d. /\ sealed'[d] = seal(sealed[d], Seg(Pre(d), c[sealed[d]], e)).n
      /\ out'[d][1] = seal(sealed[d], Seg(Pre(d), c[sealed[d]], e)).bytes
  BY DEF SealedTo
<1> USE <1>a, <1>b, <1>c, <1>d
<1> DEFINE n == sealed[d]
           P == Pre(d)
           s == seal(n, Seg(P, c[n], e))
           m == s.n
           o == s.bytes
<1>1. Cuts(c, n) /\ n \in Nat /\ P \in Seq(Units)
  BY DirectionTypes, Preludes DEF FlowAt
<1>2. c[n] < e
  OBVIOUS
<1> HIDE DEF n, P, s
<1>s. s = seal(n, Seg(P, c[n], e))
  BY DEF s
<1>0. Extends(P, n, c, e, s)
  BY <1>1, <1>2, <1>s, Sealing
<1>3. /\ s.n \in Nat /\ n < s.n /\ s.bytes \in Seq(Pieces) /\ Len(s.bytes) = 2 * (s.n - n)
      /\ \E k : /\ Cuts(k, s.n) /\ k[s.n] = e /\ \A i \in 0 .. n : k[i] = c[i]
                /\ Follow(P, k, 2 * n, s.bytes)
  BY <1>0 DEF Extends
<1>4. sealed'[d] = m /\ out'[d][1] = o
  BY DEF n, P, s
<1> HIDE DEF m, o
<1>5. m \in Nat /\ n < m /\ o \in Seq(Pieces) /\ Len(o) = 2 * (m - n)
  BY <1>3 DEF m, o
<1>6. PICK k : /\ Cuts(k, m) /\ k[m] = e /\ \A i \in 0 .. n : k[i] = c[i]
               /\ Follow(P, k, 2 * n, o)
  BY <1>3 DEF m, o
<1>7. Cuts(k, sealed[d])'
  BY <1>4, <1>6
<1>8. Pre(d)' = P
  BY DEF Pre, Onward, Known, P
<1>9. Len(o) # 0 /\ o # <<>> /\ 2 * m - Len(o) = 2 * n /\ Len(o) <= 2 * m
  BY <1>1, <1>5
<1>10. Written(d, k)'
  <2> DEFINE base == Len(P) + Pos(done[d])
  <2>1. Len(Pre(d)') + Pos(done'[d]) = base
    BY <1>8
  <2>2. e = base + (IF what = "length" THEN 1 ELSE Size)
    BY DEF P
  <2> HIDE DEF base
  <2>3. Len(sent'[d]) = done'[d] + 1
    OBVIOUS
  <2>4. Follow(Pre(d)', k, 2 * m - Len(o), o)
    BY <1>6, <1>8, <1>9
  <2> QED BY <1>4, <1>6, <1>9, <2>1, <2>2, <2>3, <2>4 DEF Written
<1>11. Carried(d, k)'
  <2> DEFINE t == Taken(d)
             q == partial[d]
             w == wire[d]
             p == opened[d]
             h == t \div 2
  <2>1. /\ t <= 2 * n /\ Follow(P, c, 2 * p, q) /\ Len(q) <= 1 /\ Follow(P, c, 2 * p + Len(q), w)
        /\ ~Ended(d) => t + Len(out[d][1]) = 2 * n
        /\ ~cut => Len(P) + Pos(done[d]) <= c[h] /\ c[h] < Len(P) + Pos(done[d]) + Size
    BY DEF FlowAt, Carried, P, n
  <2>2. t \in Nat /\ t = 2 * p + Len(q) + Len(w) /\ p \in Nat /\ q \in Seq(Pieces) /\ w \in Seq(Pieces)
    BY DirectionTypes, FlowNumbers
  <2>3. Taken(d)' = t
    BY DEF Taken, ReaderKept
  <2>4. Len(out[d][1]) = 0
    OBVIOUS
  <2>5. partial'[d] = q /\ wire'[d] = w /\ opened'[d] = p
    BY DEF ReaderKept
  <2> HIDE DEF t, q, w, p
  <2>6. h \in 0 .. n
    BY <1>1, <2>1, <2>2
  <2>7. k[h] = c[h]
    BY <1>6, <2>6
  <2>8. Follow(P, k, 2 * p, q) /\ Follow(P, k, 2 * p + Len(q), w)
    <3>1. 2 * p \in Nat /\ 2 * p + Len(q) \in Nat /\ 2 * p + Len(q) <= 2 * n /\ (2 * p + Len(q)) + Len(w) <= 2 * n
      BY <1>1, <2>1, <2>2
    <3>2. Follow(P, k, 2 * p, q)
      BY <1>1, <1>6, <2>1, <2>2, <3>1, FollowLater
    <3> DEFINE x == 2 * p + Len(q)
    <3>3. x \in Nat /\ x + Len(w) <= 2 * n /\ Follow(P, c, x, w)
      BY <2>1, <3>1
    <3> HIDE DEF x
    <3>4. Follow(P, k, x, w)
      BY <1>1, <1>6, <2>2, <3>3, FollowLater
    <3> QED BY <3>2, <3>4 DEF x
  <2>9. Ended(d) => Ended(d)'
    BY EndedStays
  <2>10. ~Ended(d)' => t + Len(o) = 2 * m
    <3> SUFFICES ASSUME ~Ended(d)' PROVE t + Len(o) = 2 * m
      OBVIOUS
    <3>1. t + Len(out[d][1]) = 2 * n
      BY <2>1, <2>9
    <3>2. t = 2 * n
      BY <2>2, <2>4, <3>1
    <3> QED BY <1>1, <1>5, <3>2
  <2>11. t <= 2 * m
    BY <1>1, <1>5, <2>1, <2>2
  <2>12. ~cut' => ~cut
    BY DEF Onward
  <2>13. ~cut' => Len(P) + Pos(done'[d]) <= k[h] /\ k[h] < Len(P) + Pos(done'[d]) + Size
    BY <2>1, <2>7, <2>12
  <2> QED BY <1>4, <1>8, <2>1, <2>3, <2>5, <2>8, <2>10, <2>11, <2>13 DEF Carried
<1>12. Read(d, k)'
  <2> DEFINE p == opened[d]
             g == got[d]
  <2>1. p \in 0 .. n
    BY FlowNumbers DEF n
  <2>2. LET from == Len(P) + Pos(Len(g))
            upto == IF p = 0 THEN Len(P) ELSE c[p]
        IN  /\ from <= upto /\ buf[d] \o plain[d] = Seg(P, from, upto) /\ Len(buf[d]) <= Body
    BY DEF FlowAt, Read, P
  <2>3. opened'[d] = p /\ got'[d] = g /\ buf'[d] = buf[d] /\ plain'[d] = plain[d]
    BY DEF ReaderKept
  <2> HIDE DEF p, g
  <2>4. k[p] = c[p]
    BY <1>6, <2>1
  <2> QED BY <1>8, <2>2, <2>3, <2>4 DEF Read
<1>13. FlowAt(d, k)'
  BY <1>7, <1>10, <1>11, <1>12 DEF FlowAt
<1> QED BY <1>13

(* What was sealed is written, or not.                                     *)
LEMMA WriteAt ==
  ASSUME RecordTypes, NEW d \in Directions, NEW c, FlowAt(d, c), Onward, ReaderKept(d), ~Ended(d),
         out[d][1] # <<>>, wire'[d] = wire[d] \o out[d][1], out'[d][1] = <<>>,
         sealed'[d] = sealed[d], sent'[d] = sent[d],
         done'[d] = IF doing[d][1] = "body" THEN done[d] + 1 ELSE done[d],
         doing'[d][1] = IF doing[d][1] = "body" THEN "idle" ELSE doing[d][1]
  PROVE  FlowAt(d, c)' /\ wire'[d] \in Seq(Pieces)
<1> DEFINE P == Pre(d)
           n == sealed[d]
           o == out[d][1]
           w == wire[d]
           q == partial[d]
           p == opened[d]
           f == done[d]
           at == doing[d][1]
           l == Len(P)
           t == Taken(d)
<1>1. n \in Nat /\ o \in Seq(Pieces) /\ w \in Seq(Pieces) /\ q \in Seq(Pieces) /\ p \in Nat /\ f \in Nat
      /\ at \in {"idle", "length", "body", "dead"}
  BY DirectionTypes
<1>2. /\ at \in {"idle", "dead"} => o = <<>>
      /\ at = "length" => c[n] = l + Pos(f) + 1
      /\ at = "body" => c[n] = l + Pos(f) + Size
      /\ Len(sent[d]) = IF at = "idle" THEN f ELSE f + 1
      /\ Len(o) <= 2 * n /\ Follow(P, c, 2 * n - Len(o), o)
  BY DEF FlowAt, Written
<1>3. /\ Follow(P, c, 2 * p, q) /\ Len(q) <= 1 /\ Follow(P, c, 2 * p + Len(q), w)
      /\ t + Len(o) = 2 * n
  BY DEF FlowAt, Carried
<1>4. l \in Nat /\ Pos(f) \in Nat /\ Size \in Nat /\ Size >= 2 /\ Pos(f + 1) = Pos(f) + Size
      /\ t = 2 * p + Len(q) + Len(w) /\ t \in Nat
  BY <1>1, FlowNumbers, PosNext
<1>5. Pre(d)' = P
  BY DEF Pre, Onward, Known
<1>6. Read(d, c)'
  BY ReadStays DEF FlowAt
<1>7. Cuts(c, sealed[d])'
  BY DEF FlowAt
<1>8. /\ wire'[d] = w \o o /\ out'[d][1] = <<>> /\ sealed'[d] = n /\ opened'[d] = p /\ partial'[d] = q
      /\ done'[d] = (IF at = "body" THEN f + 1 ELSE f) /\ doing'[d][1] = (IF at = "body" THEN "idle" ELSE at)
      /\ o # <<>> /\ sent'[d] = sent[d]
  BY DEF ReaderKept
<1>9. Taken(d)' = 2 * p + Len(q) + Len(w \o o)
  BY <1>8 DEF Taken
<1> HIDE DEF P, n, o, w, q, p, f, at, l, t
<1>10. w \o o \in Seq(Pieces) /\ Len(w \o o) = Len(w) + Len(o) /\ Follow(P, c, 2 * p + Len(q), w \o o)
  <2> DEFINE x == 2 * p + Len(q)
  <2>1. x \in Nat /\ 2 * n - Len(o) = x + Len(w) /\ Follow(P, c, x, w)
    BY <1>1, <1>3, <1>4
  <2> HIDE DEF x
  <2>2. Follow(P, c, x + Len(w), o)
    BY <1>2, <2>1
  <2>3. w \o o \in Seq(Pieces) /\ Len(w \o o) = Len(w) + Len(o) /\ Follow(P, c, x, w \o o)
    BY <1>1, <2>1, <2>2, FollowJoin
  <2> QED BY <2>3 DEF x
<1>11. Taken(d)' = 2 * n /\ (2 * n) \div 2 = n
  BY <1>1, <1>3, <1>4, <1>9, <1>10
<1>12. at \in {"length", "body"}
  BY <1>1, <1>2, <1>8
<1>13. Len(<<>>) = 0 /\ \A x : Follow(P, c, x, <<>>)
  BY DEF Follow
<1>14. Written(d, c)'
  <2>0. out'[d][1] = <<>> /\ sealed'[d] = n /\ n \in Nat
    BY <1>1, <1>8
  <2>1. CASE at = "length"
    <3>1. /\ doing'[d][1] = "length" /\ done'[d] = f /\ Len(sent'[d]) = f + 1
          /\ c[n] = Len(Pre(d)') + Pos(f) + 1
      BY <1>2, <1>5, <1>8, <2>1 DEF l
    <3>2. Len(out'[d][1]) <= 2 * sealed'[d] /\ Follow(Pre(d)', c, 2 * sealed'[d] - Len(out'[d][1]), out'[d][1])
      BY <1>5, <1>13, <2>0
    <3> QED BY <2>0, <3>1, <3>2 DEF Written
  <2>2. CASE at = "body"
    <3>1. /\ doing'[d][1] = "idle" /\ done'[d] = f + 1 /\ Len(sent'[d]) = f + 1
          /\ c[n] = Len(Pre(d)') + Pos(f + 1)
      <4>1. c[n] = l + Pos(f + 1)
        BY <1>2, <1>4, <2>2
      <4> QED BY <1>2, <1>5, <1>8, <2>2, <4>1 DEF l
    <3>2. Len(out'[d][1]) <= 2 * sealed'[d] /\ Follow(Pre(d)', c, 2 * sealed'[d] - Len(out'[d][1]), out'[d][1])
      BY <1>5, <1>13, <2>0
    <3> QED BY <2>0, <3>1, <3>2 DEF Written
  <2> QED BY <1>12, <2>1, <2>2
<1>15. Carried(d, c)'
  <2>1. Len(Pre(d)') + Pos(done'[d]) <= c[n] /\ c[n] < Len(Pre(d)') + Pos(done'[d]) + Size
    <3>1. Len(Pre(d)') = l
      BY <1>5 DEF l
    <3>2. CASE at = "length"
      BY <1>2, <1>4, <1>8, <3>1, <3>2, SMTT(30)
    <3>3. CASE at = "body"
      <4>1. c[n] = l + Pos(f + 1) /\ done'[d] = f + 1 /\ Pos(f + 1) \in Nat
        BY <1>2, <1>4, <1>8, <3>3
      <4> QED BY <1>4, <3>1, <4>1
    <3> QED BY <1>12, <3>2, <3>3
  <2>2. Taken(d)' + Len(out'[d][1]) = 2 * n
    BY <1>1, <1>8, <1>11, <1>13
  <2> QED BY <1>1, <1>3, <1>5, <1>8, <1>10, <1>11, <2>1, <2>2 DEF Carried
<1> QED BY <1>6, <1>7, <1>8, <1>10, <1>14, <1>15 DEF FlowAt

LEMMA FailAt ==
  ASSUME RecordTypes, NEW d \in Directions, NEW c, FlowAt(d, c), Onward, ReaderKept(d), Ended(d),
         out[d][1] # <<>>, wire'[d] = wire[d], out'[d][1] = <<>>, doing'[d][1] = "dead",
         sealed'[d] = sealed[d], sent'[d] = sent[d], done'[d] = done[d]
  PROVE  FlowAt(d, c)'
<1> DEFINE n == sealed[d]
           f == done[d]
           l == Len(Pre(d))
<1>1. n \in Nat /\ f \in Nat /\ doing[d][1] \in {"idle", "length", "body", "dead"}
      /\ l \in Nat /\ Pos(f) \in Nat /\ Size \in Nat /\ Size >= 2
  BY DirectionTypes, FlowNumbers
<1>2. /\ doing[d][1] \in {"length", "body"}
      /\ doing[d][1] = "length" => c[n] = l + Pos(f) + 1
      /\ doing[d][1] = "body" => c[n] = l + Pos(f) + Size
      /\ Len(sent[d]) = f + 1
  BY <1>1 DEF FlowAt, Written
<1>3. Pre(d)' = Pre(d)
  BY DEF Pre, Onward, Known
<1>4. Len(Pre(d)') = l
  BY <1>3
<1>5. Written(d, c)'
  <2>1. c[n] <= Len(Pre(d)') + Pos(f) + Size
    <3> HIDE DEF n, f, l
    <3> QED BY <1>1, <1>2, <1>4
  <2>2. Len(<<>>) = 0 /\ \A x : Follow(Pre(d)', c, x, <<>>)
    BY DEF Follow
  <2>3. Len(sent'[d]) = f + 1 /\ sealed'[d] = n /\ done'[d] = f
    BY <1>2
  <2> HIDE DEF n, f
  <2> QED BY <1>1, <2>1, <2>2, <2>3 DEF Written
<1>6. Read(d, c)'
  BY ReadStays DEF FlowAt
<1>7. Carried(d, c)'
  <2>1. Taken(d)' = Taken(d)
    BY DEF Taken, ReaderKept
  <2>2. Ended(d)' /\ (~cut' => ~cut)
    BY EndedStays DEF Onward
  <2> DEFINE P == Pre(d)
             Q == Pre(d)'
             t == Taken(d)
             u == Taken(d)'
  <2>3. P = Q /\ t = u
    BY <1>3, <2>1
  <2> HIDE DEF P, Q, t, u
  <2> QED BY <2>2, <2>3 DEF Carried, FlowAt, ReaderKept, P, Q, t, u
<1>8. Cuts(c, sealed[d])'
  BY DEF FlowAt
<1> QED BY <1>5, <1>6, <1>7, <1>8 DEF FlowAt

LEMMA TakeJoined ==
  ASSUME NEW S, NEW u \in Seq(S), NEW v \in Seq(S), NEW k \in 0 .. Len(v)
  PROVE  u \o Take(v, k) = Take(u \o v, Len(u) + k)
<1> DEFINE y == Len(u) + k
           z == Len(u) + Len(v)
           all == u \o v
<1>1. all \in Seq(S) /\ Len(all) = z
  BY Joined
<1>2. y \in Nat /\ z \in Nat /\ 0 <= y /\ y <= z /\ Len(u) \in Nat /\ Len(v) \in Nat /\ k \in Nat
  OBVIOUS
<1>3. Take(v, k) \in Seq(S) /\ Len(Take(v, k)) = k /\ \A i \in 1 .. k : Take(v, k)[i] = v[i]
  BY DEF Take
<1> DEFINE a == u \o Take(v, k)
           b == Part(all, 1, y)
           t == Take(v, k)
<1> HIDE DEF t
<1>4. a \in Seq(S) /\ Len(a) = y /\ \A i \in 1 .. y : a[i] = IF i <= Len(u) THEN u[i] ELSE v[i - Len(u)]
  <2>1. a \in Seq(S) /\ Len(a) = y /\ \A i \in 1 .. y : a[i] = IF i <= Len(u) THEN u[i] ELSE t[i - Len(u)]
    <3>1. t \in Seq(S) /\ Len(t) = k
      BY <1>3 DEF t
    <3>2. /\ u \o t \in Seq(S) /\ Len(u \o t) = Len(u) + Len(t)
          /\ \A i \in 1 .. Len(u) + Len(t) : (u \o t)[i] = IF i <= Len(u) THEN u[i] ELSE t[i - Len(u)]
      BY <3>1, Joined
    <3>3. a = u \o t
      BY DEF t
    <3> QED BY <3>1, <3>2, <3>3
  <2> HIDE DEF a, y
  <2>2. \A i \in 1 .. y : ~(i <= Len(u)) => t[i - Len(u)] = v[i - Len(u)]
    <3> TAKE i \in 1 .. y
    <3> HAVE ~(i <= Len(u))
    <3>1. i - Len(u) \in 1 .. k
      BY <1>2 DEF y
    <3> QED BY <1>3, <3>1 DEF t
  <2> QED BY <2>1, <2>2
<1>5. \A i \in 1 .. z : all[i] = IF i <= Len(u) THEN u[i] ELSE v[i - Len(u)]
  BY Joined
<1> HIDE DEF a, all, y, z
<1>6. b \in Seq(S) /\ Len(b) = y /\ \A i \in 1 .. y : b[i] = all[i]
  BY <1>1, <1>2 DEF Part
<1> HIDE DEF b
<1>7. \A i \in 1 .. Len(b) : a[i] = b[i]
  <2> TAKE i \in 1 .. Len(b)
  <2>1. i \in 1 .. y /\ i \in 1 .. z
    BY <1>2, <1>6
  <2> QED BY <1>4, <1>5, <1>6, <2>1
<1>8. Len(a) = Len(b)
  BY <1>4, <1>6
<1>9. a = b
  BY <1>4, <1>6, <1>7, <1>8, Same
<1> QED BY <1>9 DEF a, b, Part, Take, all, y

(* A reader that takes k of the units v into a buffer that holds u.        *)
Receives(P, g, upto, v, k, r) ==
  LET w == Len(r.bodies)
      x == Len(P) + Pos(g + w)
  IN  /\ w \in Nat /\ x <= upto /\ r.rest \in Seq(Units) /\ Len(r.rest) <= Body
      /\ r.rest \o After(v, k) = Seg(P, x, upto)
      /\ r.bodies = [j \in 1 .. w |-> body(g + j)]

LEMMA Receiving ==
  ASSUME NEW P \in Seq(Units), NEW g \in Nat, NEW upto \in Nat, Len(P) + Pos(g) <= upto,
         NEW u \in Seq(Units), NEW v \in Seq(Units), u \o v = Seg(P, Len(P) + Pos(g), upto),
         NEW k \in 0 .. Len(v), NEW r, r = next_frames(u \o Take(v, k))
  PROVE  Receives(P, g, upto, v, k, r)
<1> DEFINE x == Len(P) + Pos(g)
           y == Len(u) + k
           z == Len(u) + Len(v)
           all == u \o v
           rest == After(v, k)
<1>1. Len(P) \in Nat /\ Pos(g) \in Nat /\ x \in Nat /\ x <= upto
  <2>1. Pos(g) \in Nat
    BY PosFacts
  <2> QED BY <2>1
<1>2. all \in Seq(Units) /\ Len(all) = z /\ z = upto - x
  <2>1. all = Seg(P, x, upto)
    OBVIOUS
  <2>2. all \in Seq(Units) /\ Len(all) = z
    BY Joined
  <2> HIDE DEF x, all
  <2>3. Len(Seg(P, x, upto)) = upto - x
    BY <1>1, Segs
  <2> QED BY <2>1, <2>2, <2>3
<1>3. all = Seg(P, x, upto)
  OBVIOUS
<1>4. y \in Nat /\ z \in Nat /\ 0 <= y /\ y <= z /\ Len(u) \in Nat /\ Len(v) \in Nat /\ k \in Nat
  OBVIOUS
<1>5. u \o Take(v, k) = Part(all, 1, y)
  BY TakeJoined DEF Part, Take
<1>6. rest \in Seq(Units) /\ rest = Part(all, y + 1, z)
  <2>1. rest \in Seq(Units) /\ Len(rest) = Len(v) - k /\ \A i \in 1 .. Len(v) - k : rest[i] = v[k + i]
    <3> DEFINE from == k + 1
               to == Len(v)
    <3>1. from \in Nat /\ to \in Nat /\ 1 <= from /\ from <= to + 1 /\ to <= Len(v) /\ to + 1 - from = Len(v) - k
      BY <1>4
    <3> HIDE DEF from, to
    <3> DEFINE q == SubSeq(v, from, to)
    <3>2. q \in Seq(Units) /\ Len(q) = to + 1 - from /\ \A i \in 1 .. to + 1 - from : q[i] = v[from + i - 1]
      BY <3>1, Parts
    <3>3. rest = q
      BY DEF After, from, to
    <3> HIDE DEF q, rest
    <3>4. \A i \in 1 .. Len(v) - k : from + i - 1 = k + i
      BY <1>4 DEF from
    <3> QED BY <3>1, <3>2, <3>3, <3>4
  <2>3. \A i \in 1 .. z : all[i] = IF i <= Len(u) THEN u[i] ELSE v[i - Len(u)]
    BY Joined
  <2> DEFINE b == Part(all, y + 1, z)
  <2> HIDE DEF rest, all
  <2>4. b \in Seq(Units) /\ Len(b) = z - y /\ \A i \in 1 .. z - y : b[i] = all[y + i]
    BY <1>2, <1>4, SMTT(30) DEF Part
  <2>5. z - y = Len(v) - k
    BY <1>4
  <2> HIDE DEF b
  <2>6. \A i \in 1 .. Len(b) : rest[i] = b[i]
    <3> TAKE i \in 1 .. Len(b)
    <3>1. i \in 1 .. Len(v) - k /\ i \in 1 .. z - y
      BY <2>4, <2>5
    <3>2. y + i \in 1 .. z /\ ~(y + i <= Len(u)) /\ (y + i) - Len(u) = k + i
      BY <1>4, <3>1
    <3> QED BY <2>1, <2>3, <2>4, <3>1, <3>2
  <2>7. Len(rest) = Len(b)
    BY <2>1, <2>4, <2>5
  <2>8. rest = b
    BY <2>1, <2>4, <2>6, <2>7, Same
  <2> QED BY <2>1, <2>8 DEF b
<1> HIDE DEF all, x, y, z, rest
<1>7. Part(all, 1, y) = Seg(P, x, x + y) /\ Part(all, y + 1, z) = Seg(P, x + y, upto)
  <2>1. Part(Seg(P, x, upto), 1, y) = Seg(P, x + 1 - 1, x + y)
    <3>1. x \in Nat /\ upto \in Nat /\ x <= upto /\ 1 \in Nat /\ y \in Nat /\ 1 <= 1 /\ 1 <= y + 1 /\ y <= upto - x
      BY <1>1, <1>2, <1>4
    <3> QED BY <3>1, SegPart
  <2>2. Part(Seg(P, x, upto), y + 1, z) = Seg(P, x + (y + 1) - 1, x + z)
    <3> DEFINE y1 == y + 1
    <3>1. x \in Nat /\ upto \in Nat /\ x <= upto /\ y1 \in Nat /\ z \in Nat /\ 1 <= y1 /\ y1 <= z + 1 /\ z <= upto - x
      BY <1>1, <1>2, <1>4
    <3> HIDE DEF y1
    <3>2. Part(Seg(P, x, upto), y1, z) = Seg(P, x + y1 - 1, x + z)
      BY <3>1, SegPart
    <3> QED BY <3>2 DEF y1
  <2>3. x + 1 - 1 = x /\ x + (y + 1) - 1 = x + y /\ x + z = upto
    BY <1>1, <1>2, <1>4
  <2> QED BY <1>3, <2>1, <2>2, <2>3
<1>8. r = next_frames(Seg(P, x, x + y)) /\ rest = Seg(P, x + y, upto)
  BY <1>5, <1>6, <1>7 DEF all, y
<1> DEFINE j == x + y
<1>9. j \in Nat /\ Len(P) + Pos(g) <= j /\ j <= upto
  BY <1>1, <1>2, <1>4, SMTT(30) DEF x
<1>10. r = next_frames(Seg(P, Len(P) + Pos(g), j))
  BY <1>8 DEF x
<1> HIDE DEF j
<1>11. Unframes(P, g, j, r)
  BY <1>9, <1>10, Framing
<1> DEFINE w == Len(r.bodies)
           a == Len(P) + Pos(g + w)
<1>12. /\ w \in Nat /\ a <= j /\ r.rest = Seg(P, a, j) /\ Len(r.rest) <= Body
       /\ r.bodies = [i \in 1 .. w |-> body(g + i)]
  BY <1>11 DEF Unframes
<1>13. a \in Nat
  <2> HIDE DEF w
  <2>1. g + w \in Nat
    BY <1>12
  <2>2. Pos(g + w) \in Nat
    BY <2>1, PosFacts
  <2> QED BY <1>1, <2>2
<1>14. rest = Seg(P, j, upto)
  BY <1>8 DEF j
<1> HIDE DEF a, w
<1>15. r.rest \o rest = Seg(P, a, upto) /\ a <= upto
  <2>1. a <= upto
    BY <1>9, <1>12, <1>13
  <2>0. a \in Nat /\ j \in Nat /\ a <= j /\ j <= upto
    BY <1>9, <1>12, <1>13
  <2>2. Seg(P, a, j) \o Seg(P, j, upto) = Seg(P, a, upto)
    BY <2>0, SegJoin, ZenonT(40)
  <2> QED BY <1>12, <1>14, <2>1, <2>2
<1>16. r.rest \in Seq(Units)
  BY <1>9, <1>12, <1>13, Segs
<1> QED BY <1>12, <1>15, <1>16 DEF Receives, rest, a, w

LEMMA Numbered == ASSUME NEW S, NEW w \in Nat, NEW b \in [1 .. w -> S] PROVE b \in Seq(S) /\ Len(b) = w
  OBVIOUS

(* The frames that come are the next ones.                                 *)
Bodies(g, w) == [j \in 1 .. w |-> body(g + j)]
NextOnes(q, w, s) == s \in Seq(Frames) /\ InOrder(s) /\ Len(s) = Len(q) + w

LEMMA NextFrames ==
  ASSUME NEW q \in Seq(Frames), InOrder(q), NEW w \in Nat, Len(q) + w <= MaxFrames,
         NEW b, b = Bodies(Len(q), w)
  PROVE  NextOnes(q, w, q \o b)
<1>0. MaxFrames \in Nat /\ Len(q) \in Nat
  BY RecordAssumption
<1> DEFINE B(i) == body(i)
<1>1. \A j \in 1 .. w : B(Len(q) + j) \in Frames
  BY <1>0, SMTT(30) DEF Frames
<1>2. \A i \in 1 .. Len(q) : q[i] = B(i)
  BY DEF InOrder
<1>3. b = [j \in 1 .. w |-> B(Len(q) + j)]
  BY DEF Bodies
<1> HIDE DEF B
<1>4. b \in Seq(Frames) /\ Len(b) = w /\ \A j \in 1 .. w : b[j] = B(Len(q) + j)
  <2> DEFINE T(j) == B(Len(q) + j)
  <2>1. b = [j \in 1 .. w |-> T(j)] /\ \A j \in 1 .. w : T(j) \in Frames
    BY <1>1, <1>3
  <2> HIDE DEF T
  <2>2. b \in [1 .. w -> Frames] /\ \A j \in 1 .. w : b[j] = T(j)
    BY <2>1, Zenon
  <2>3. b \in Seq(Frames) /\ Len(b) = w
    BY <2>2, Numbered
  <2> QED BY <2>2, <2>3 DEF T
<1>5. q \o b \in Seq(Frames) /\ Len(q \o b) = Len(q) + w
      /\ \A i \in 1 .. Len(q) + w : (q \o b)[i] = IF i <= Len(q) THEN q[i] ELSE b[i - Len(q)]
  BY <1>4
<1>6. \A i \in 1 .. Len(q \o b) : (q \o b)[i] = B(i)
  <2> TAKE i \in 1 .. Len(q \o b)
  <2>1. CASE i <= Len(q)
    BY <1>2, <1>5, <2>1
  <2>2. CASE ~(i <= Len(q))
    <3>1. i - Len(q) \in 1 .. w /\ Len(q) + (i - Len(q)) = i
      BY <1>0, <1>5, <2>2
    <3> QED BY <1>4, <1>5, <2>2, <3>1
  <2> QED BY <2>1, <2>2
<1> QED BY <1>5, <1>6 DEF InOrder, B, NextOnes

LEMMA RoomLeft ==
  ASSUME RecordTypes, NEW d \in Directions, NEW c, FlowAt(d, c), Len(sent[d]) <= MaxFrames,
         NEW i \in 0 .. sealed[d], NEW h \in Nat,
         Len(Pre(d)) + Pos(h) <= IF i = 0 THEN Len(Pre(d)) ELSE c[i]
  PROVE  h <= MaxFrames
<1>1. Len(Pre(d)) \in Nat /\ Pos(h) \in Nat /\ Pos(0) = 0 /\ MaxFrames \in Nat /\ 0 \in Nat
  BY FlowNumbers, PosFacts, RecordAssumption
<1>2. CASE i = 0
  <2>1. Pos(h) <= Pos(0)
    BY <1>1, <1>2
  <2>2. h <= 0
    BY <1>1, <2>1, PosFacts
  <2> QED BY <1>1, <2>2
<1>3. CASE i # 0
  <2>1. h <= Len(sent[d])
    BY <1>3, FramesBegun
  <2>2. Len(sent[d]) \in Nat
    BY DirectionTypes
  <2> QED BY <1>1, <2>1, <2>2
<1> QED BY <1>2, <1>3

(* What has been opened is taken, and put into frames.                     *)
Upto(d, c) == IF opened[d] = 0 THEN Len(Pre(d)) ELSE c[opened[d]]

LEMMA UptoType ==
  ASSUME RecordTypes, NEW d \in Directions, NEW c, FlowAt(d, c)
  PROVE  Upto(d, c) \in Nat
  BY FlowNumbers DEF Upto

LEMMA TakeAt ==
  ASSUME RecordTypes, NEW d \in Directions, NEW c, FlowAt(d, c), Onward, WriterKept(d), wire'[d] = wire[d],
         Len(sent[d]) <= MaxFrames, InOrder(got[d]),
         opened'[d] = opened[d], partial'[d] = partial[d],
         NEW k \in 0 .. Len(plain[d]), NEW r, r = next_frames(buf[d] \o Take(plain[d], k)),
         plain'[d] = After(plain[d], k), buf'[d] = r.rest, got'[d] = got[d] \o r.bodies
  PROVE  /\ FlowAt(d, c)' /\ InOrder(got'[d])
         /\ got'[d] \in Seq(Frames) /\ buf'[d] \in Seq(Units) /\ plain'[d] \in Seq(Units)
<1> DEFINE P == Pre(d)
           g == Len(got[d])
           upto == Upto(d, c)
           u == buf[d]
           v == plain[d]
<1>1. P \in Seq(Units) /\ g \in Nat /\ upto \in Nat /\ u \in Seq(Units) /\ v \in Seq(Units)
      /\ got[d] \in Seq(Frames)
  BY DirectionTypes, Preludes, UptoType
<1>2. Len(P) + Pos(g) <= upto /\ u \o v = Seg(P, Len(P) + Pos(g), upto)
  BY DEF FlowAt, Read, Upto
<1>3. k \in 0 .. Len(v) /\ r = next_frames(u \o Take(v, k))
  OBVIOUS
<1>4. After(v, k) \in Seq(Units)
  BY <1>1 DEF After
<1>5. buf'[d] = r.rest /\ plain'[d] = After(v, k) /\ Pre(d)' = P /\ Upto(d, c)' = upto
  BY DEF Pre, Onward, Known, Upto
<1>6. upto = IF opened[d] = 0 THEN Len(P) ELSE c[opened[d]]
  BY DEF Upto
<1> HIDE DEF P, upto, u, v
<1>7. Receives(P, g, upto, v, k, r)
  BY <1>1, <1>2, <1>3, Receiving
<1> DEFINE w == Len(r.bodies)
<1>8. /\ w \in Nat /\ Len(P) + Pos(g + w) <= upto /\ r.rest \in Seq(Units) /\ Len(r.rest) <= Body
      /\ r.rest \o After(v, k) = Seg(P, Len(P) + Pos(g + w), upto)
      /\ r.bodies = [j \in 1 .. w |-> body(g + j)]
  BY <1>7 DEF Receives
<1> HIDE DEF w
<1>9. g + w <= MaxFrames
  <2> DEFINE h == g + w
             i == opened[d]
  <2>1. h \in Nat /\ i \in 0 .. sealed[d]
    BY <1>1, <1>8, FlowNumbers, SMTT(30)
  <2>2. Len(Pre(d)) + Pos(h) <= IF i = 0 THEN Len(Pre(d)) ELSE c[i]
    BY <1>6, <1>8 DEF P
  <2> HIDE DEF h, i
  <2>3. h <= MaxFrames
    BY <2>1, <2>2, RoomLeft
  <2> QED BY <2>3 DEF h
<1>10. got'[d] \in Seq(Frames) /\ InOrder(got'[d]) /\ Len(got'[d]) = g + w
  <2> DEFINE q == got[d]
             b == r.bodies
  <2>1. q \in Seq(Frames) /\ InOrder(q) /\ Len(q) + w <= MaxFrames /\ w \in Nat /\ b = Bodies(Len(q), w)
    BY <1>1, <1>8, <1>9 DEF Bodies
  <2>2. got'[d] = q \o b /\ g = Len(q)
    OBVIOUS
  <2> HIDE DEF q, b, g
  <2>3. NextOnes(q, w, q \o b)
    BY <2>1, NextFrames
  <2> QED BY <2>2, <2>3 DEF NextOnes
<1>11. Read(d, c)'
  <2>1. Len(Pre(d)') + Pos(Len(got'[d])) = Len(P) + Pos(g + w)
    BY <1>5, <1>10
  <2>2. (IF opened'[d] = 0 THEN Len(Pre(d)') ELSE c[opened'[d]]) = upto
    BY <1>5, <1>6
  <2>3. buf'[d] \o plain'[d] = Seg(Pre(d)', Len(P) + Pos(g + w), upto)
    BY <1>5, <1>8
  <2>4. Len(buf'[d]) <= Body
    BY <1>5, <1>8
  <2> DEFINE from == Len(P) + Pos(g + w)
  <2>5. from <= upto
    BY <1>8
  <2> HIDE DEF from
  <2> QED BY <2>1, <2>2, <2>3, <2>4, <2>5 DEF Read, from
<1>12. Written(d, c)' /\ Carried(d, c)' /\ Cuts(c, sealed[d])'
  <2>1. Written(d, c)'
    BY WrittenStays DEF FlowAt
  <2>2. Carried(d, c)'
    BY CarriedStays DEF FlowAt
  <2>3. Cuts(c, sealed[d])'
    BY DEF FlowAt, WriterKept
  <2> QED BY <2>1, <2>2, <2>3
<1>13. buf'[d] \in Seq(Units) /\ plain'[d] \in Seq(Units)
  BY <1>4, <1>5, <1>8
<1> QED BY <1>10, <1>11, <1>12, <1>13 DEF FlowAt

(* What arrives is fed.                                                    *)
LEMMA FeedAt ==
  ASSUME RecordTypes, NEW d \in Directions, NEW c, FlowAt(d, c), NEW k \in 1 .. Len(wire[d]),
         NEW f, f = feed(opened[d], partial[d] \o Take(wire[d], k))
  PROVE  /\ f.ok /\ f.n \in opened[d] .. sealed[d] /\ f.partial \in Seq(Pieces) /\ Len(f.partial) <= 1
         /\ Follow(Pre(d), c, 2 * f.n, f.partial) /\ f.plain = Seg(Pre(d), c[opened[d]], c[f.n])
         /\ 2 * f.n + Len(f.partial) = 2 * opened[d] + Len(partial[d]) + k
         /\ After(wire[d], k) \in Seq(Pieces) /\ Len(After(wire[d], k)) = Len(wire[d]) - k
         /\ Follow(Pre(d), c, 2 * f.n + Len(f.partial), After(wire[d], k))
<1> DEFINE P == Pre(d)
           n == sealed[d]
           op == opened[d]
           q == partial[d]
           w == wire[d]
           bytes == q \o Take(w, k)
<1>1. P \in Seq(Units) /\ n \in Nat /\ op \in Nat /\ q \in Seq(Pieces) /\ w \in Seq(Pieces) /\ Cuts(c, n)
  BY DirectionTypes, Preludes DEF FlowAt
<1>2. Follow(P, c, 2 * op, q) /\ Follow(P, c, 2 * op + Len(q), w)
  BY DEF FlowAt, Carried
<1>3. 2 * op + Len(q) + Len(w) <= 2 * n
  BY DEF FlowAt, Carried, Taken
<1>4. k \in 1 .. Len(w) /\ f = feed(op, q \o Take(w, k))
  OBVIOUS
<1> HIDE DEF P, n, op, q, w
<1> DEFINE x == 2 * op + Len(q)
<1>5. x \in Nat /\ k \in 0 .. Len(w) /\ Follow(P, c, x, w)
  BY <1>1, <1>2, <1>4
<1> HIDE DEF x
<1>6. /\ Take(w, k) \in Seq(Pieces) /\ Len(Take(w, k)) = k /\ Follow(P, c, x, Take(w, k))
      /\ After(w, k) \in Seq(Pieces) /\ Len(After(w, k)) = Len(w) - k /\ Follow(P, c, x + k, After(w, k))
  BY <1>1, <1>5, FollowSplit
<1> DEFINE t == Take(w, k)
           y == 2 * op
<1>7. y \in Nat /\ Follow(P, c, y, q) /\ t \in Seq(Pieces) /\ Follow(P, c, y + Len(q), t) /\ Len(t) = k
  BY <1>1, <1>2, <1>6 DEF x
<1> HIDE DEF t, y
<1>8. q \o t \in Seq(Pieces) /\ Len(q \o t) = Len(q) + Len(t) /\ Follow(P, c, y, q \o t)
  BY <1>1, <1>7, FollowJoin
<1> HIDE DEF bytes
<1>9. bytes \in Seq(Pieces) /\ Len(bytes) = Len(q) + k /\ Follow(P, c, 2 * op, bytes)
  BY <1>7, <1>8 DEF bytes, t, y
<1>10. 2 * op + Len(bytes) <= 2 * n
  BY <1>1, <1>3, <1>4, <1>9
<1>11. f = feed(op, bytes)
  BY <1>4 DEF bytes
<1>12. Opens(P, n, c, op, bytes, f)
  BY <1>1, <1>9, <1>10, <1>11, Feeding
<1>13. /\ f.ok /\ f.n \in op .. n /\ Len(bytes) = 2 * (f.n - op) + Len(f.partial) /\ Len(f.partial) <= 1
       /\ f.partial \in Seq(Pieces) /\ Follow(P, c, 2 * f.n, f.partial)
       /\ f.plain = Seg(P, c[op], c[f.n])
  BY <1>12 DEF Opens
<1>14. 2 * f.n + Len(f.partial) = 2 * op + Len(q) + k /\ 2 * f.n + Len(f.partial) = x + k
  <2> DEFINE a == f.n
             b == Len(f.partial)
             e == Len(bytes)
             m == Len(q)
  <2>0. m \in Nat /\ b \in Nat /\ k \in Nat
    BY <1>1, <1>4, <1>13, SMTT(30)
  <2>a. x = 2 * op + m
    BY DEF x
  <2>b. a \in op .. n /\ e = 2 * (a - op) + b /\ e = m + k
    BY <1>9, <1>13
  <2>1. a \in op .. n /\ e = 2 * (a - op) + b /\ e = m + k /\ m \in Nat /\ op \in Nat /\ n \in Nat /\ b \in Nat
        /\ k \in Nat /\ x = 2 * op + m
    BY <1>1, <2>0, <2>a, <2>b
  <2> HIDE DEF a, b, e, m
  <2>2. 2 * a + b = 2 * op + m + k /\ 2 * a + b = x + k
    BY <2>1
  <2> QED BY <2>2 DEF a, b, m
<1> QED BY <1>6, <1>13, <1>14 DEF P, n, op, q, w

LEMMA FromZero == ASSUME NEW a \in Nat, NEW n \in Nat, NEW i \in a .. n PROVE i \in 0 .. n
  OBVIOUS

(* The verdict, or what a reader of the tunnel is given.                   *)
LEMMA ReadAt ==
  ASSUME RecordTypes, NEW d \in Directions, NEW c, FlowAt(d, c), Onward, WriterKept(d),
         Len(sent[d]) <= MaxFrames, InOrder(got[d]), plain[d] = <<>>,
         NEW k \in 1 .. Len(wire[d]), NEW f, f = feed(opened[d], partial[d] \o Take(wire[d], k)),
         wire'[d] = After(wire[d], k), opened'[d] = f.n, partial'[d] = f.partial,
         NEW units, Upto(d, c)' \in Nat, Upto(d, c) <= Upto(d, c)', units = Seg(Pre(d), Upto(d, c), Upto(d, c)'),
         \/ plain'[d] = units /\ buf'[d] = buf[d] /\ got'[d] = got[d]
         \/ LET r == next_frames(buf[d] \o units)
            IN  plain'[d] = plain[d] /\ buf'[d] = r.rest /\ got'[d] = got[d] \o r.bodies
  PROVE  /\ FlowAt(d, c)' /\ InOrder(got'[d]) /\ wire'[d] \in Seq(Pieces) /\ partial'[d] \in Seq(Pieces)
         /\ opened'[d] \in Nat
         /\ got'[d] \in Seq(Frames) /\ buf'[d] \in Seq(Units) /\ plain'[d] \in Seq(Units)
<1> DEFINE P == Pre(d)
           g == Len(got[d])
           U == Upto(d, c)
           V == Upto(d, c)'
           u == buf[d]
           from == Len(P) + Pos(g)
           op == opened[d]
           q == partial[d]
           w == wire[d]
<1>1. P \in Seq(Units) /\ g \in Nat /\ U \in Nat /\ u \in Seq(Units) /\ got[d] \in Seq(Frames)
  <2>1. u \in Seq(Units) /\ got[d] \in Seq(Frames)
    BY DirectionTypes
  <2>2. g \in Nat
    BY <2>1
  <2>3. P \in Seq(Units)
    BY Preludes
  <2>4. U \in Nat
    BY UptoType
  <2> QED BY <2>1, <2>2, <2>3, <2>4
<1>2. from <= U /\ u \o plain[d] = Seg(P, from, U) /\ Len(u) <= Body
  BY DEF FlowAt, Read, Upto
<1>3. from \in Nat /\ Len(P) \in Nat
  <2>1. Pos(g) \in Nat
    BY <1>1, PosFacts
  <2>2. Len(P) \in Nat
    BY <1>1
  <2> QED BY <2>1, <2>2
<1>4. u = Seg(P, from, U)
  BY <1>1, <1>2
<1>5. Pre(d)' = P
  BY DEF Pre, Onward, Known
<1>6. /\ f.ok /\ f.n \in op .. sealed[d] /\ f.partial \in Seq(Pieces) /\ Len(f.partial) <= 1
      /\ Follow(P, c, 2 * f.n, f.partial)
      /\ 2 * f.n + Len(f.partial) = 2 * op + Len(q) + k
      /\ After(w, k) \in Seq(Pieces) /\ Len(After(w, k)) = Len(w) - k
      /\ Follow(P, c, 2 * f.n + Len(f.partial), After(w, k))
  BY FeedAt
<1>7. Written(d, c)' /\ Cuts(c, sealed[d])'
  <2>1. Written(d, c)'
    BY WrittenStays DEF FlowAt
  <2>2. Cuts(c, sealed[d])'
    BY DEF FlowAt, WriterKept
  <2> QED BY <2>1, <2>2
<1>8. op \in Nat /\ sealed[d] \in Nat /\ q \in Seq(Pieces) /\ w \in Seq(Pieces)
  BY DirectionTypes
<1>9. opened'[d] = f.n /\ partial'[d] = f.partial /\ wire'[d] = After(w, k) /\ k \in 1 .. Len(w)
  OBVIOUS
<1>10. Carried(d, c)'
  <2>1. Taken(d)' = 2 * f.n + Len(f.partial) + Len(After(w, k))
    BY <1>9 DEF Taken
  <2>2. Taken(d) = 2 * op + Len(q) + Len(w)
    BY DEF Taken
  <2>3. Taken(d)' = Taken(d)
    <3> DEFINE a == f.n
               b == Len(f.partial)
               m == Len(q)
               l == Len(w)
               z == Len(After(w, k))
               n == sealed[d]
    <3>0. a \in op .. n /\ op \in Nat /\ n \in Nat
      BY <1>6, <1>8
    <3>a. b \in Nat /\ m \in Nat /\ l \in Nat /\ k \in Nat
      <4>1. f.partial \in Seq(Pieces)
        BY <1>6
      <4>2. b \in Nat
        BY <4>1
      <4>3. m \in Nat /\ l \in Nat
        BY <1>8
      <4> QED BY <4>2, <4>3
    <3>b. z = l - k /\ 2 * a + b = 2 * op + m + k
      BY <1>6
    <3>2. Taken(d)' = 2 * a + b + z /\ Taken(d) = 2 * op + m + l
      BY <2>1, <2>2
    <3> HIDE DEF a, b, m, l, z, n, op
    <3>3. 2 * a + b + z = 2 * op + m + l
      BY <3>0, <3>a, <3>b
    <3> QED BY <3>2, <3>3
  <2>4. (~Ended(d)' => ~Ended(d)) /\ (~cut' => ~cut)
    BY EndedStays DEF Onward
  <2> DEFINE Q == Pre(d)'
             t == Taken(d)
             v == Taken(d)'
  <2>5. P = Q /\ t = v
    BY <1>5, <2>3
  <2>6. /\ t <= 2 * sealed[d]
        /\ ~Ended(d) => t + Len(out[d][1]) = 2 * sealed[d]
        /\ ~cut => Len(P) + Pos(done[d]) <= c[t \div 2] /\ c[t \div 2] < Len(P) + Pos(done[d]) + Size
    <3>1. Carried(d, c)
      BY DEF FlowAt
    <3> QED BY <3>1 DEF Carried
  <2> HIDE DEF P, Q, t, v, op, q, w
  <2> QED BY <1>6, <1>9, <2>4, <2>5, <2>6 DEF Carried, WriterKept, Q, v
<1>11. V = IF f.n = 0 THEN Len(P) ELSE c[f.n]
  BY <1>5, <1>9 DEF Upto
<1>12. V \in Nat /\ U <= V /\ units = Seg(P, U, V)
  OBVIOUS
<1> HIDE DEF P, g, U, V, from
<1>13. units \in Seq(Units) /\ u \o units = Seg(P, from, V) /\ from <= V
  <2>0. P \in Seq(Units) /\ from \in Nat /\ U \in Nat /\ V \in Nat /\ from <= U /\ U <= V
    BY <1>1, <1>2, <1>3, <1>12
  <2>1. Seg(P, from, U) \o Seg(P, U, V) = Seg(P, from, V)
    BY <2>0, SegJoin, ZenonT(40)
  <2>2. units \in Seq(Units)
    BY <1>1, <1>12, Segs
  <2>3. from <= V
    BY <1>1, <1>2, <1>3, <1>12
  <2> QED BY <1>4, <1>12, <2>1, <2>2, <2>3
<1>w. /\ Read(d, c)' => FlowAt(d, c)'
      /\ wire'[d] \in Seq(Pieces) /\ partial'[d] \in Seq(Pieces) /\ opened'[d] \in Nat
  <2>1. Read(d, c)' => FlowAt(d, c)'
    BY <1>7, <1>10 DEF FlowAt
  <2>2. wire'[d] \in Seq(Pieces) /\ partial'[d] \in Seq(Pieces)
    BY <1>6, <1>9
  <2>3. opened'[d] \in Nat
    <3> DEFINE a == f.n
               n == sealed[d]
    <3>1. a \in op .. n /\ op \in Nat /\ n \in Nat
      BY <1>6, <1>8
    <3> HIDE DEF a, n, op
    <3>2. a \in Nat
      BY <3>1
    <3> QED BY <1>9, <3>2 DEF a
  <2> QED BY <2>1, <2>2, <2>3
<1>14. CASE plain'[d] = units /\ buf'[d] = buf[d] /\ got'[d] = got[d]
  <2>1. Read(d, c)'
    <3>1. Len(Pre(d)') + Pos(Len(got'[d])) = from
      BY <1>5, <1>14 DEF from, g
    <3>2. (IF opened'[d] = 0 THEN Len(Pre(d)') ELSE c[opened'[d]]) = V
      BY <1>5, <1>9, <1>11
    <3>3. buf'[d] \o plain'[d] = Seg(Pre(d)', from, V) /\ Len(buf'[d]) <= Body
      BY <1>2, <1>5, <1>13, <1>14
    <3> QED BY <1>13, <3>1, <3>2, <3>3 DEF Read
  <2>2. buf'[d] \in Seq(Units) /\ plain'[d] \in Seq(Units) /\ got'[d] \in Seq(Frames)
    BY <1>1, <1>13, <1>14
  <2>3. InOrder(got'[d])
    BY <1>14
  <2> QED BY <1>w, <2>1, <2>2, <2>3
<1>15. ASSUME NEW r, r = next_frames(buf[d] \o units),
              plain'[d] = plain[d], buf'[d] = r.rest, got'[d] = got[d] \o r.bodies
       PROVE  /\ Read(d, c)' /\ InOrder(got'[d])
              /\ got'[d] \in Seq(Frames) /\ buf'[d] \in Seq(Units) /\ plain'[d] \in Seq(Units)
  <2> DEFINE m == Len(units)
             b == Len(r.bodies)
             v == units
  <2>1. m \in 0 .. Len(v) /\ Take(v, m) = v /\ After(v, m) = <<>>
    BY <1>13 DEF Take, After
  <2>2. r = next_frames(u \o Take(v, m))
    BY <1>15, <2>1
  <2>3. V \in Nat /\ Len(P) + Pos(g) <= V /\ u \o v = Seg(P, Len(P) + Pos(g), V)
    BY <1>12, <1>13 DEF from
  <2> HIDE DEF m, b
  <2>4. Receives(P, g, V, v, m, r)
    BY <1>1, <1>13, <2>1, <2>2, <2>3, Receiving
  <2>5. /\ b \in Nat /\ Len(P) + Pos(g + b) <= V /\ r.rest \in Seq(Units) /\ Len(r.rest) <= Body
        /\ r.rest \o After(v, m) = Seg(P, Len(P) + Pos(g + b), V)
        /\ r.bodies = [j \in 1 .. b |-> body(g + j)]
    BY <2>4 DEF Receives, b
  <2>6. g + b <= MaxFrames
    <3> DEFINE h == g + b
               i == f.n
    <3>0. h \in Nat
      BY <1>1, <2>5
    <3>1. i \in 0 .. sealed[d]
      <4> DEFINE n == sealed[d]
      <4>1. i \in op .. n /\ op \in Nat /\ n \in Nat
        BY <1>6, <1>8
      <4> HIDE DEF i, n, op
      <4>2. i \in 0 .. n
        BY <4>1, FromZero, Zenon
      <4> QED BY <4>2 DEF n
    <3>2. Len(Pre(d)) + Pos(h) <= IF i = 0 THEN Len(Pre(d)) ELSE c[i]
      BY <1>11, <2>5 DEF P
    <3> HIDE DEF h, i
    <3>3. h <= MaxFrames
      BY <3>0, <3>1, <3>2, RoomLeft
    <3> QED BY <3>3 DEF h
  <2>7. got'[d] \in Seq(Frames) /\ InOrder(got'[d]) /\ Len(got'[d]) = g + b
    <3> DEFINE z == got[d]
               x == r.bodies
    <3>1. z \in Seq(Frames) /\ InOrder(z) /\ Len(z) + b <= MaxFrames /\ b \in Nat /\ x = Bodies(Len(z), b)
      BY <1>1, <2>5, <2>6 DEF Bodies, g
    <3>2. got'[d] = z \o x /\ g = Len(z)
      BY <1>15 DEF g
    <3> HIDE DEF z, x
    <3>3. NextOnes(z, b, z \o x)
      BY <3>1, NextFrames
    <3> QED BY <3>2, <3>3 DEF NextOnes
  <2>8. buf'[d] \in Seq(Units) /\ plain'[d] = <<>> /\ plain'[d] \in Seq(Units)
    BY <1>15, <2>5
  <2> DEFINE x == Len(P) + Pos(g + b)
  <2>9. buf'[d] \o plain'[d] = Seg(P, x, V)
    BY <1>15, <2>1, <2>5, <2>8
  <2>10. x <= V /\ Len(buf'[d]) <= Body
    BY <1>15, <2>5
  <2>11. Len(Pre(d)') + Pos(Len(got'[d])) = x
    BY <1>5, <2>7
  <2>12. (IF opened'[d] = 0 THEN Len(Pre(d)') ELSE c[opened'[d]]) = V
    BY <1>5, <1>9, <1>11
  <2> HIDE DEF x
  <2>13. Read(d, c)'
    BY <1>5, <2>9, <2>10, <2>11, <2>12 DEF Read
  <2> QED BY <2>7, <2>8, <2>13
<1>16. CASE LET r == next_frames(buf[d] \o units)
            IN  plain'[d] = plain[d] /\ buf'[d] = r.rest /\ got'[d] = got[d] \o r.bodies
  <2>1. /\ Read(d, c)' /\ InOrder(got'[d])
        /\ got'[d] \in Seq(Frames) /\ buf'[d] \in Seq(Units) /\ plain'[d] \in Seq(Units)
    BY <1>15, <1>16
  <2> QED BY <1>w, <2>1
<1> QED BY <1>14, <1>16

(* What is under way is cut short, or joined by part of a write.           *)
LEMMA LostAt ==
  ASSUME RecordTypes, NEW d \in Directions, NEW c, FlowAt(d, c), Onward, WriterKept(d), ReaderKept(d),
         ~Ended(d), Ended(d)', NEW k \in 0 .. Len(wire[d] \o out[d][1]), wire'[d] = Take(wire[d] \o out[d][1], k),
         cut' \/ k = Len(wire[d]) \/ (Len(wire[d]) <= k /\ k < Len(wire[d] \o out[d][1]))
  PROVE  FlowAt(d, c)' /\ wire'[d] \in Seq(Pieces)
<1> DEFINE P == Pre(d)
           n == sealed[d]
           o == out[d][1]
           w == wire[d]
           q == partial[d]
           p == opened[d]
           f == done[d]
           at == doing[d][1]
           l == Len(P)
           t == Taken(d)
           b == l + Pos(f)
<1>1. n \in Nat /\ o \in Seq(Pieces) /\ w \in Seq(Pieces) /\ q \in Seq(Pieces) /\ p \in Nat /\ f \in Nat
      /\ at \in {"idle", "length", "body", "dead"}
  BY DirectionTypes
<1>2. /\ at \in {"idle", "dead"} => o = <<>>
      /\ at = "length" => c[n] = b + 1
      /\ at = "body" => c[n] = b + Size
      /\ Len(o) <= 2 * n /\ Follow(P, c, 2 * n - Len(o), o)
  BY DEF FlowAt, Written
<1>3. /\ Follow(P, c, 2 * p, q) /\ Len(q) <= 1 /\ Follow(P, c, 2 * p + Len(q), w)
      /\ t + Len(o) = 2 * n
      /\ ~cut => b <= c[t \div 2] /\ c[t \div 2] < b + Size
  BY DEF FlowAt, Carried
<1>4. l \in Nat /\ Pos(f) \in Nat /\ Size \in Nat /\ Size >= 2
      /\ t = 2 * p + Len(q) + Len(w) /\ t \in Nat
  BY FlowNumbers
<1>5. Pre(d)' = P
  BY DEF Pre, Onward, Known
<1>6. Read(d, c)'
  BY ReadStays DEF FlowAt
<1>7. Written(d, c)'
  BY WrittenStays DEF FlowAt
<1>8. Cuts(c, n) /\ Cuts(c, sealed[d])'
  BY DEF FlowAt, WriterKept
<1>9. /\ wire'[d] = Take(w \o o, k) /\ sealed'[d] = n /\ opened'[d] = p /\ partial'[d] = q
      /\ done'[d] = f /\ out'[d][1] = o
  BY DEF ReaderKept, WriterKept
<1>10. Taken(d)' = 2 * p + Len(q) + Len(wire'[d])
  BY <1>9 DEF Taken
<1>11. k \in 0 .. Len(w \o o) /\ (cut' \/ k = Len(w) \/ (Len(w) <= k /\ k < Len(w \o o))) /\ ~cut
  BY DEF Ended
<1> HIDE DEF P, n, o, w, q, p, f, at, l, t, b
<1> DEFINE x == 2 * p + Len(q)
           all == w \o o
<1>12. all \in Seq(Pieces) /\ Len(all) = Len(w) + Len(o) /\ Follow(P, c, x, all) /\ x \in Nat
  <2>1. x \in Nat /\ 2 * n - Len(o) = x + Len(w) /\ Follow(P, c, x, w)
    BY <1>1, <1>3, <1>4
  <2> HIDE DEF x
  <2>2. Follow(P, c, x + Len(w), o)
    BY <1>2, <2>1
  <2> QED BY <1>1, <2>1, <2>2, FollowJoin
<1> HIDE DEF x, all
<1>13. Take(all, k) \in Seq(Pieces) /\ Len(Take(all, k)) = k /\ Follow(P, c, x, Take(all, k))
  <2>1. k \in 0 .. Len(all)
    BY <1>11 DEF all
  <2> QED BY <1>12, <2>1, FollowSplit
<1>14. wire'[d] = Take(all, k)
  BY <1>9 DEF all
<1> DEFINE u == Taken(d)'
           lo == Len(o)
           lw == Len(w)
           la == Len(all)
<1>15. u = x + k /\ t = x + lw /\ lo \in Nat /\ lw \in Nat /\ la = lw + lo /\ k \in 0 .. la /\ t + lo = 2 * n
       /\ (cut' \/ k = lw \/ (lw <= k /\ k < la))
  <2>1. u = x + k
    BY <1>10, <1>13, <1>14 DEF x
  <2>2. t = x + lw
    BY <1>4 DEF x
  <2>3. k \in 0 .. la /\ (cut' \/ k = lw \/ (lw <= k /\ k < la))
    BY <1>11 DEF all
  <2>4. lo \in Nat /\ lw \in Nat
    BY <1>1
  <2> QED BY <1>3, <1>12, <2>1, <2>2, <2>3, <2>4
<1>16. lo = 0 => o = <<>>
  BY <1>1
<1> HIDE DEF u, lo, lw, la
<1>17. ~cut' => b <= c[u \div 2] /\ c[u \div 2] < b + Size
  <2> SUFFICES ASSUME ~cut' PROVE b <= c[u \div 2] /\ c[u \div 2] < b + Size
    OBVIOUS
  <2>0. b \in Nat /\ x \in Nat /\ n \in Nat
    BY <1>1, <1>4, <1>12 DEF b
  <2>1. CASE u = t
    BY <1>3, <1>11, <2>1
  <2>2. CASE u # t
    <3>1. t < u /\ u < 2 * n /\ lo # 0
      BY <1>15, <2>0, <2>2
    <3>2. at \in {"length", "body"}
      <4>1. lo # 0 => o # <<>>
        BY DEF lo
      <4> QED BY <1>1, <1>2, <3>1, <4>1
    <3>3. c[n] <= b + Size
      BY <1>2, <1>4, <2>0, <3>2
    <3> DEFINE i == t \div 2
               j == u \div 2
    <3>a. t \in Nat /\ u \in Nat
      BY <1>4, <1>15, <2>0
    <3>4. i \in 0 .. n /\ j \in i .. n /\ j < n /\ j \in 0 .. n /\ n \in j .. n
      BY <3>a, <2>0, <3>1
    <3>5. b <= c[i]
      BY <1>3, <1>11
    <3> HIDE DEF i, j
    <3>6. c[i] \in Nat /\ c[j] \in Nat /\ c[i] <= c[j]
      BY <1>8, <2>0, <3>4, Rising
    <3>7. c[n] \in Nat /\ c[j] < c[n]
      BY <1>8, <2>0, <3>4, Rising
    <3>8. b <= c[j] /\ c[j] < b + Size
      BY <1>4, <2>0, <3>3, <3>5, <3>6, <3>7
    <3> QED BY <3>8 DEF j
  <2> QED BY <2>1, <2>2
<1>18. Carried(d, c)'
  <2>1. u <= 2 * n
    BY <1>1, <1>12, <1>15
  <2>2. Follow(Pre(d)', c, 2 * opened'[d], partial'[d]) /\ Len(partial'[d]) <= 1
    BY <1>3, <1>5, <1>9
  <2>3. Follow(Pre(d)', c, 2 * opened'[d] + Len(partial'[d]), wire'[d])
    BY <1>5, <1>9, <1>13, <1>14 DEF x
  <2>4. Len(Pre(d)') + Pos(done'[d]) = b
    BY <1>5, <1>9 DEF b, l
  <2> QED BY <1>9, <1>17, <2>1, <2>2, <2>3, <2>4 DEF Carried, u
<1>19. wire'[d] \in Seq(Pieces)
  BY <1>13, <1>14
<1> QED BY <1>6, <1>7, <1>8, <1>18, <1>19 DEF FlowAt

(* A direction begins.                                                     *)
LEMMA StartAt ==
  ASSUME NEW d \in Directions, NEW c, NEW n \in Nat, Cuts(c, n), c[n] = Len(Pre(d)'), n = 0 => Len(Pre(d)') = 0,
         sealed'[d] = n, opened'[d] = 0, partial'[d] = <<>>, plain'[d] = <<>>, buf'[d] = <<>>, got'[d] = <<>>,
         doing'[d][1] = "idle", out'[d][1] = <<>>, sent'[d] = <<>>, done'[d] = 0,
         Len(wire'[d]) = 2 * n, Follow(Pre(d)', c, 0, wire'[d]), Pre(d)' \in Seq(Units)
  PROVE  FlowAt(d, c)'
<1> DEFINE P == Pre(d)'
           l == Len(P)
<1>1. l \in Nat /\ Pos(0) = 0 /\ Size \in Nat /\ Size >= 2 /\ Body \in Nat
  <2>1. 0 \in Nat
    OBVIOUS
  <2>2. Pos(0) = 0
    BY <2>1, PosFacts
  <2> QED BY <2>2, Sizes
<1>2. Len(<<>>) = 0 /\ \A x : Follow(P, c, x, <<>>)
  BY DEF Follow
<1>3. Taken(d)' = 2 * n
  BY <1>2 DEF Taken
<1>4. c[n] = l /\ Follow(P, c, 0, wire'[d])
  OBVIOUS
<1> HIDE DEF P
<1>5. Pre(d)' = P
  BY DEF P
<1>6. l + Pos(0) = l
  BY <1>1
<1>7. Written(d, c)'
  BY <1>1, <1>2, <1>4, <1>5, <1>6 DEF Written
<1>8. (2 * n) \div 2 = n
  OBVIOUS
<1>9. Carried(d, c)'
  <2>1. Follow(P, c, 2 * opened'[d], partial'[d]) /\ Len(partial'[d]) = 0 /\ 2 * opened'[d] + Len(partial'[d]) = 0
    BY <1>2
  <2>2. l + Pos(done'[d]) = l
    BY <1>6
  <2>3. l <= c[n] /\ c[n] < l + Size
    BY <1>1, <1>4
  <2>4. 2 * n <= 2 * sealed'[d] /\ 2 * n + Len(out'[d][1]) = 2 * sealed'[d]
    BY <1>2
  <2> QED BY <1>3, <1>4, <1>5, <1>8, <2>1, <2>2, <2>3, <2>4 DEF Carried
<1>10. Read(d, c)'
  <2>1. <<>> \o <<>> = Seg(P, l, l)
    <3>1. Seg(P, l, l) = <<>>
      BY <1>1, <1>5, SegFacts
    <3> QED BY <3>1
  <2>2. buf'[d] \o plain'[d] = Seg(P, l, l) /\ Len(buf'[d]) <= Body
    BY <1>1, <1>2, <2>1
  <2>3. l + Pos(Len(got'[d])) = l
    BY <1>2, <1>6
  <2>4. (IF opened'[d] = 0 THEN l ELSE c[opened'[d]]) = l
    OBVIOUS
  <2> QED BY <1>1, <1>5, <2>2, <2>3, <2>4 DEF Read
<1>11. Cuts(c, sealed[d])'
  OBVIOUS
<1> QED BY <1>7, <1>9, <1>10, <1>11 DEF FlowAt

(* What a lone writer seals is well-formed, whoever listens.               *)
LEMMA SealTypes ==
  ASSUME NEW n \in Nat, NEW units \in Seq(Units)
  PROVE  seal(n, units).n \in Nat /\ n <= seal(n, units).n /\ seal(n, units).bytes \in Seq(Pieces)
<1> DEFINE M == MaxPlain
           l == Len(units)
           chunks == (l + (M - 1)) \div M
           chunk(i) == SubSeq(units, i * M + 1, Least((i + 1) * M, l))
           piece(p) == [as |-> "record", n |-> n + (p \div 2), has |-> chunk(p \div 2)]
<1>1. M \in Nat \ {0} /\ l \in Nat
  BY RecordAssumption
<1>2. chunks \in Nat
  <2> HIDE DEF M, l
  <2> QED BY <1>1
<1>3. seal(n, units) = [bytes |-> [p \in 1 .. 2 * chunks |-> piece(p - 1)], n |-> n + chunks]
  BY DEF seal
<1>4. \A i \in Nat : chunk(i) \in Seq(Units)
  <2> TAKE i \in Nat
  <2> DEFINE a == i * M + 1
             b == Least((i + 1) * M, l)
  <2>1. i * M \in Nat /\ (i + 1) * M \in Nat
    <3>1. i + 1 \in Nat
      OBVIOUS
    <3> HIDE DEF M
    <3>2. i * M \in Nat
      BY <1>1, Times
    <3>3. (i + 1) * M = i * M + M
      BY <1>1, Times
    <3> QED BY <1>1, <3>2, <3>3
  <2>2. a \in Nat /\ 1 <= a
    BY <2>1
  <2>3. b \in Nat /\ b <= l
    <3> DEFINE z == (i + 1) * M
    <3>1. z \in Nat
      BY <2>1
    <3> HIDE DEF z, l
    <3>2. Least(z, l) \in Nat /\ Least(z, l) <= l
      BY <1>1, <3>1 DEF Least
    <3> QED BY <3>2 DEF z
  <2> HIDE DEF a, b
  <2>4. SubSeq(units, a, b) \in Seq(Units)
    BY <2>2, <2>3
  <2> QED BY <2>4 DEF a, b
<1> HIDE DEF chunk, chunks
<1>5. \A p \in 1 .. 2 * chunks : piece(p - 1) \in Pieces
  <2> TAKE p \in 1 .. 2 * chunks
  <2> DEFINE h == (p - 1) \div 2
  <2>1. h \in Nat
    BY <1>2
  <2> HIDE DEF h
  <2>2. chunk(h) \in Seq(Units) /\ n + h \in Nat
    BY <1>4, <2>1
  <2>3. [as |-> "record", n |-> n + h, has |-> chunk(h)] \in Pieces
    BY <2>2 DEF Pieces, Words
  <2> QED BY <2>3 DEF h
<1>6. 2 * chunks \in Nat
  BY <1>2
<1> DEFINE m == 2 * chunks
           G(p) == piece(p - 1)
           o == [p \in 1 .. m |-> G(p)]
<1>7. m \in Nat /\ \A p \in 1 .. m : G(p) \in Pieces
  BY <1>5, <1>6
<1> HIDE DEF m, G
<1>8. o \in [1 .. m -> Pieces]
  BY <1>7, Zenon
<1>9. o \in Seq(Pieces)
  <2> HIDE DEF o
  <2> QED BY <1>7, <1>8, Numbered
<1>10. seal(n, units).n = n + chunks /\ seal(n, units).bytes = o
  BY <1>3 DEF m, G
<1> QED BY <1>2, <1>9, <1>10

-----------------------------------------------------------------------------
(* What a step does not touch stays as it is.                              *)
Untouched(d) == /\ sealed'[d] = sealed[d] /\ out'[d] = out[d] /\ doing'[d] = doing[d]
                /\ sent'[d] = sent[d] /\ done'[d] = done[d] /\ ReaderKept(d)

LEMMA UntouchedKept == ASSUME NEW d, Untouched(d) PROVE WriterKept(d) /\ ReaderKept(d)
  BY DEF Untouched, WriterKept

LEMMA HandshakeTyped == ASSUME HandshakeTypes, UNCHANGED <<hs, client, host, cut>> PROVE HandshakeTypes'
<1>1. /\ mode' = mode /\ tab' = tab /\ kind' = kind /\ agreed' = agreed
      /\ stage' = stage /\ heard' = heard /\ hsbuf' = hsbuf /\ failure' = failure /\ host' = host /\ cut' = cut
  BY DEF hs, client
<1>2. tab' \in BOOLEAN /\ agreed' \in BOOLEAN /\ heard' \in BOOLEAN /\ cut' \in BOOLEAN
  <2>1. tab \in BOOLEAN /\ agreed \in BOOLEAN /\ heard \in BOOLEAN /\ cut \in BOOLEAN
    BY DEF HandshakeTypes
  <2> QED BY <1>1, <2>1, Zenon
<1>3. /\ mode' = mode /\ kind' = kind /\ stage' = stage /\ hsbuf' = hsbuf /\ failure' = failure /\ host' = host
  BY <1>1
<1> QED BY <1>2, <1>3 DEF HandshakeTypes

LEMMA OneWriterStays ==
  ASSUME NEW d, OneWriter(d), out'[d] = out[d], doing'[d] = doing[d] PROVE OneWriter(d)'
  BY DEF OneWriter

LEMMA FlowOfStays ==
  ASSUME RecordTypes, NEW d \in Directions, FlowOf(d), Onward, Untouched(d),
         Begun(d) /\ ~Deaf(d) => wire'[d] = wire[d], Begun(d)' <=> Begun(d), Deaf(d)' <=> Deaf(d)
  PROVE  FlowOf(d)'
<1>1. WriterKept(d) /\ ReaderKept(d)
  BY UntouchedKept
<1>2. Begun(d)' /\ ~Deaf(d)' => \E c : FlowAt(d, c)'
  <2> SUFFICES ASSUME Begun(d)', ~Deaf(d)' PROVE \E c : FlowAt(d, c)'
    OBVIOUS
  <2>1. Begun(d) /\ ~Deaf(d)
    OBVIOUS
  <2>2. PICK c : FlowAt(d, c)
    BY <2>1 DEF FlowOf, Flow, FlowAt
  <2>3. FlowAt(d, c)'
    BY <1>1, <2>1, <2>2, FlowStays
  <2> QED BY <2>3
<1>3. ~Begun(d)' => /\ sealed'[d] = 0 /\ opened'[d] = 0 /\ partial'[d] = <<>> /\ plain'[d] = <<>> /\ buf'[d] = <<>>
                    /\ doing'[d][1] = "idle" /\ out'[d][1] = <<>> /\ sent'[d] = <<>> /\ done'[d] = 0
  BY <1>1 DEF FlowOf, Flow, WriterKept, ReaderKept
<1>4. ~Begun(d)' \/ Deaf(d)' => got'[d] = <<>>
  BY <1>1 DEF FlowOf, Flow, ReaderKept
<1>5. Flow(d)'
  BY <1>2, <1>3, <1>4 DEF Flow, FlowAt
<1>6. InOrder(sent'[d]) /\ InOrder(got'[d]) /\ Len(sent'[d]) <= MaxFrames
  BY <1>1 DEF FlowOf, WriterKept, ReaderKept
<1>7. OneWriter(d)'
  BY OneWriterStays DEF FlowOf, Untouched
<1> QED BY <1>5, <1>6, <1>7 DEF FlowOf

LEMMA FateOfStays ==
  ASSUME RecordTypes, NEW d \in Directions, FateOf(d), fate'[d] = fate[d], tab' = tab, Onward,
         fate[d] # "reads" /\ Begun(d) => Begun(d)', stage = "Done" => stage' = "Done",
         fate[d] = "clean" => plain'[d] = plain[d] /\ wire'[d] = wire[d] /\ partial'[d] = partial[d]
  PROVE  FateOf(d)'
<1>1. Ended(d) => Ended(d)'
  BY EndedStays
<1> QED BY <1>1 DEF FateOf

(* The tunnel's steps do not touch what the handshake is about.            *)
Beyond ==
  /\ UNCHANGED <<hs, client, host, cut>>
  /\ host # "up" => /\ wire' = wire /\ shut' = shut
                    /\ \A e \in Directions : sealed'[e] = sealed[e] /\ opened'[e] = opened[e] /\ doing'[e][1] = doing[e][1]
  /\ stage # "Done" => /\ sealed'["up"] = sealed["up"] /\ opened'["down"] = opened["down"]
                       /\ doing'["up"][1] = doing["up"][1] /\ ("up" \in shut' => "up" \in shut)
  /\ sealed["down"] <= sealed'["down"] /\ opened["down"] <= opened'["down"]

LEMMA HandshakeStays ==
  ASSUME RecordTypes, RecordTypes', Turns, Answered, Reported, Beyond
  PROVE  Turns' /\ Answered' /\ Reported'
<1>1. "up" \in Directions /\ "down" \in Directions
  BY DEF Directions
<1>2. /\ mode' = mode /\ tab' = tab /\ kind' = kind /\ agreed' = agreed
      /\ stage' = stage /\ heard' = heard /\ hsbuf' = hsbuf /\ failure' = failure /\ host' = host /\ cut' = cut
  BY DEF Beyond, hs, client
<1>3. (ReasonFits /\ (failure = "other" => cut) /\ (stage # "Over" => failure = "none"))
      => (ReasonFits /\ (failure = "other" => cut) /\ (stage # "Over" => failure = "none"))'
  BY <1>2 DEF ReasonFits
<1>4. CASE host # "up"
  <2>1. /\ wire' = wire /\ shut' = shut /\ sealed'["up"] = sealed["up"] /\ sealed'["down"] = sealed["down"]
        /\ opened'["up"] = opened["up"] /\ opened'["down"] = opened["down"]
        /\ doing'["up"][1] = doing["up"][1] /\ doing'["down"][1] = doing["down"][1]
    BY <1>1, <1>4 DEF Beyond
  <2>2. Upward' = Upward /\ Downward' = Downward /\ (Known' <=> Known)
    BY <1>2, <2>1 DEF Upward, Downward, Known
  <2>3. Turns'
    BY <1>2, <2>1, <2>2 DEF Turns, Hearing, First
  <2>4. (Refused' <=> Refused) /\ (Said' <=> Said)
    BY <1>2, <2>1 DEF Refused, Refuses, Said, Says
  <2>5. Answered'
    BY <1>2, <2>1, <2>2, <2>4 DEF Answered, First
  <2>6. Reported'
    BY <1>2, <1>3, <2>4 DEF Reported, Hearing, First
  <2> QED BY <2>3, <2>5, <2>6
<1>5. CASE host = "up"
  <2>1. sealed["down"] \in Nat /\ sealed'["down"] \in Nat /\ opened["down"] \in Nat /\ opened'["down"] \in Nat
    BY <1>1 DEF RecordTypes, HandshakeTypes, TunnelTypes
  <2>2. stage \notin Hearing /\ sealed["down"] > 0 /\ sealed'["down"] > 0
    BY <1>5, <2>1 DEF Turns, Beyond
  <2>3. stage \in {"AwaitVerdict", "Over", "Done"} /\ stage \notin First
    BY <2>2 DEF RecordTypes, HandshakeTypes, TunnelTypes, Hearing, First
  <2>4. Known' <=> Known
    BY <1>2 DEF Known
  <2>5. Turns'
    <3>1. hsbuf' = <<>> /\ Len(hsbuf') <= 1
      BY <1>2, <2>2 DEF Turns
    <3>2. stage' = "Done" => host' = "up" /\ opened'["down"] > 0
      BY <1>2, <2>1 DEF Turns, Beyond
    <3>3. stage' # "Done" => sealed'["up"] = 0 /\ opened'["down"] = 0 /\ doing'["up"][1] = "idle"
      BY <1>2 DEF Turns, Beyond
    <3>4. "up" \in shut' => stage' \in {"Over", "Done"}
      BY <1>2 DEF Turns, Beyond
    <3>5. sealed'["down"] > 0 => host' = IF Known' THEN "up" ELSE "gone"
      BY <1>2, <2>2, <2>4 DEF Turns
    <3>6. stage' \notin Hearing /\ stage' \notin First /\ host' = "up" /\ sealed'["down"] > 0 /\ stage' # "AwaitPairReply"
      BY <1>2, <1>5, <2>2, <2>3
    <3> HIDE DEF Hearing, First
    <3>7. sealed'["down"] # 0
      BY <2>1, <2>2
    <3> QED BY <3>1, <3>2, <3>3, <3>4, <3>5, <3>6, <3>7 DEF Turns
  <2>6. Answered'
    BY <1>2, <1>5, <2>3 DEF Answered
  <2>7. Reported'
    BY <1>2, <1>3, <2>2 DEF Reported
  <2> QED BY <2>5, <2>6, <2>7
<1> QED BY <1>4, <1>5

LEMMA Directed == Directions = {"up", "down"} /\ "up" \in Directions /\ "down" \in Directions
  BY DEF Directions

LEMMA Writing ==
  ASSUME RecordInv, NEW d \in Directions, doing[d][1] # "idle" \/ out[d][1] # <<>>
  PROVE  /\ doing[d][1] # "idle" /\ (out[d][1] # <<>> => doing[d][1] \in {"length", "body"})
         /\ Begun(d) /\ host = "up" /\ (d = "up" => stage = "Done")
<1>1. FlowOf(d) /\ 1 \in Threads /\ Turns /\ RecordTypes
  BY RecordAssumption DEF RecordInv, Flows
<1>2. doing[d][1] \in {"idle", "length", "body", "dead"}
  BY <1>1, DirectionTypes
<1>3. doing[d][1] \in {"idle", "dead"} => out[d][1] = <<>>
  BY <1>1 DEF FlowOf, OneWriter
<1>4. doing[d][1] # "idle"
  BY <1>3
<1>5. Begun(d)
  BY <1>1, <1>4 DEF FlowOf, Flow
<1>6. CASE d = "up"
  BY <1>1, <1>2, <1>3, <1>4, <1>5, <1>6 DEF Turns
<1>7. CASE d = "down"
  BY <1>1, <1>2, <1>3, <1>4, <1>5, <1>7 DEF Turns
<1> QED BY <1>6, <1>7, Directed

LEMMA TunnelKeeps ==
  ASSUME RecordInv, RecordTypes', Beyond, \A e \in Directions : FlowOf(e)' /\ FateOf(e)'
  PROVE  RecordInv'
<1>1. Turns' /\ Answered' /\ Reported'
  BY HandshakeStays DEF RecordInv
<1> QED BY <1>1 DEF RecordInv, Flows, Fates

LEMMA Opening == ASSUME RecordInv, host = "up" PROVE \A d \in Directions : Begun(d) /\ (sealed["down"] > 0)
  BY DEF RecordInv, Turns, Begun

LEMMA FrameUnits == ASSUME NEW f \in Nat PROVE length(f) \in Seq(Units) /\ body(f) \in Seq(Units)
<1>1. Body \in Nat
  BY Sizes
<1>2. length(f) \in Seq(Units)
  <2> DEFINE u == [frame |-> f, at |-> 0]
  <2>1. u \in Units
    BY DEF Units
  <2> HIDE DEF u
  <2>2. <<u>> \in Seq(Units)
    BY <2>1
  <2> QED BY <2>2 DEF length, u
<1>3. body(f) \in Seq(Units)
  <2> DEFINE G(i) == [frame |-> f, at |-> i]
             b == [i \in 1 .. Body |-> G(i)]
  <2>1. \A i \in 1 .. Body : G(i) \in Units
    BY DEF Units
  <2> HIDE DEF G
  <2>2. b \in [1 .. Body -> Units]
    BY <2>1, Zenon
  <2> HIDE DEF b
  <2>3. b \in Seq(Units)
    BY <1>1, <2>2, Numbered
  <2> QED BY <2>3 DEF body, b, G
<1> QED BY <1>2, <1>3

(* A length or a body is sealed: the two writes of write_framed.           *)
LEMMA SealsKeeps ==
  ASSUME RecordInv, NEW d \in Directions, NEW what \in {"length", "body"}, NEW f \in Nat,
         NEW units, units = (IF what = "length" THEN length(f) ELSE body(f)), Seals(d, 1, units, what),
         host = "up", d = "up" => stage = "Done",
         doing[d][1] = (IF what = "length" THEN "idle" ELSE "length"), out[d][1] = <<>>,
         UNCHANGED <<hs, client, host, wire, carrier, done, readers>>,
         sent' \in [Directions -> Seq(Frames)], f = Len(sent'[d]), f <= MaxFrames, InOrder(sent'[d]),
         f = (IF what = "length" THEN Len(sent[d]) + 1 ELSE Len(sent[d])),
         \A e \in Directions : e # d => sent'[e] = sent[e]
  PROVE  RecordInv'
<1> DEFINE n == sealed[d]
           s == seal(n, units)
<1>1. RecordTypes /\ 1 \in Threads /\ \A e \in Directions : FlowOf(e) /\ FateOf(e)
  BY RecordAssumption DEF RecordInv, Flows, Fates
<1>2. n \in Nat /\ units \in Seq(Units)
  BY <1>1, DirectionTypes, FrameUnits
<1> HIDE DEF s
<1>3. s.n \in Nat /\ n <= s.n /\ s.bytes \in Seq(Pieces)
  BY <1>2, SealTypes DEF s
<1>4. /\ sealed' = [sealed EXCEPT ![d] = s.n] /\ out' = [out EXCEPT ![d][1] = s.bytes]
      /\ doing' = [doing EXCEPT ![d][1] = what]
  BY DEF Seals, s
<1>5. sealed \in [Directions -> Nat] /\ out \in [Directions -> [Threads -> Seq(Pieces)]]
      /\ doing \in [Directions -> [Threads -> {"idle", "length", "body", "dead"}]]
  BY <1>1 DEF RecordTypes, HandshakeTypes, TunnelTypes
<1>6. /\ sealed'[d] = s.n /\ out'[d][1] = s.bytes /\ doing'[d][1] = what
      /\ \A e \in Directions : e # d => sealed'[e] = sealed[e] /\ out'[e] = out[e] /\ doing'[e] = doing[e]
      /\ \A t \in Threads : t # 1 => out'[d][t] = out[d][t] /\ doing'[d][t] = doing[d][t]
  BY <1>1, <1>4, <1>5
<1>7. /\ mode' = mode /\ tab' = tab /\ kind' = kind /\ agreed' = agreed
      /\ stage' = stage /\ heard' = heard /\ hsbuf' = hsbuf /\ failure' = failure /\ host' = host
      /\ wire' = wire /\ shut' = shut /\ cut' = cut /\ done' = done
      /\ opened' = opened /\ partial' = partial /\ plain' = plain /\ buf' = buf /\ got' = got /\ fate' = fate
  BY DEF hs, client, carrier, readers
<1>8. RecordTypes'
  <2>1. sealed' \in [Directions -> Nat]
    BY <1>3, <1>4, <1>5
  <2>2. out' \in [Directions -> [Threads -> Seq(Pieces)]]
    BY <1>1, <1>3, <1>4, <1>5
  <2>3. doing' \in [Directions -> [Threads -> {"idle", "length", "body", "dead"}]]
    BY <1>1, <1>4, <1>5
  <2>4. HandshakeTypes'
    <3>1. UNCHANGED <<hs, client, host, cut>>
      BY <1>7 DEF hs, client
    <3>2. HandshakeTypes
      BY <1>1 DEF RecordTypes
    <3> QED BY <3>1, <3>2, HandshakeTyped
  <2>5. TunnelTypes /\ sent' \in [Directions -> Seq(Frames)]
    BY <1>1 DEF RecordTypes
  <2>6. TunnelTypes'
    BY <1>7, <2>1, <2>2, <2>3, <2>5 DEF TunnelTypes
  <2> QED BY <2>4, <2>6 DEF RecordTypes
<1>9. Onward /\ \A e \in Directions : ReaderKept(e)
  BY <1>7 DEF Onward, ReaderKept
<1>10. (\A e \in Directions : Begun(e)) /\ sealed["down"] > 0
  BY Opening, Directed
<1>11. sealed["down"] <= sealed'["down"] /\ sealed["down"] \in Nat /\ sealed'["down"] \in Nat
  <2>1. sealed["down"] \in Nat
    BY <1>5, Directed
  <2>2. CASE d = "down"
    BY <1>3, <1>6, <2>1, <2>2
  <2>3. CASE d # "down"
    BY <1>6, <2>1, <2>3, Directed
  <2> QED BY <2>1, <2>2, <2>3
<1>12. \A e \in Directions : Begun(e)'
  BY <1>7, <1>10, <1>11 DEF Begun
<1>13. \A e \in Directions : Deaf(e)' <=> Deaf(e)
  BY <1>7 DEF Deaf
<1>14. ASSUME NEW e \in Directions, e # d PROVE FlowOf(e)'
  <2>1. Untouched(e)
    BY <1>6, <1>7, <1>9, <1>14 DEF Untouched
  <2> QED BY <1>1, <1>7, <1>9, <1>10, <1>12, <1>13, <2>1, FlowOfStays
<1>15. FlowOf(d)'
  <2>1. Begun(d)' /\ ~Deaf(d)' => \E k : FlowAt(d, k)'
    <3> SUFFICES ASSUME ~Deaf(d) PROVE \E k : FlowAt(d, k)'
      BY <1>13
    <3>1. PICK c : FlowAt(d, c)
      BY <1>1, <1>10 DEF FlowOf, Flow, FlowAt
    <3> DEFINE P == Pre(d)
               h == done[d]
               b == Len(P) + Pos(h)
               e == b + (IF what = "length" THEN 1 ELSE Size)
    <3>2. h \in Nat /\ P \in Seq(Units) /\ Len(P) \in Nat /\ Pos(h) \in Nat /\ Size \in Nat /\ Size >= 2
      BY <1>1, <3>1, DirectionTypes, Preludes, FlowNumbers
    <3>3. /\ doing[d][1] = "idle" => c[n] = b
          /\ doing[d][1] = "length" => c[n] = b + 1
          /\ Len(sent[d]) = IF doing[d][1] = "idle" THEN h ELSE h + 1
      BY <3>1 DEF FlowAt, Written
    <3>4. f = h + 1 /\ c[n] = b + (IF what = "length" THEN 0 ELSE 1)
      <4> HIDE DEF P, h, b, n
      <4>1. CASE what = "length"
        <5>1. f = h + 1
          BY <3>2, <3>3, <4>1
        <5>2. c[n] = b /\ b \in Nat
          BY <3>2, <3>3, <4>1 DEF b
        <5> QED BY <4>1, <5>1, <5>2
      <4>2. CASE what = "body"
        BY <3>2, <3>3, <4>2
      <4> QED BY <4>1, <4>2
    <3>5. b \in Nat /\ e \in Nat /\ c[n] < e
      <4>1. b \in Nat
        BY <3>2
      <4> HIDE DEF b
      <4> QED BY <3>2, <3>4, <4>1
    <3>6. units = Seg(P, c[n], e)
      <4>1. /\ length(h + 1) = Seg(P, Len(P) + Pos(h), Len(P) + Pos(h) + 1)
            /\ body(h + 1) = Seg(P, Len(P) + Pos(h) + 1, Len(P) + Pos(h) + Size)
        <5> HIDE DEF P, h
        <5> QED BY <3>2, FrameSegs
      <4>2. length(h + 1) = Seg(P, b, b + 1) /\ body(h + 1) = Seg(P, b + 1, b + Size)
        BY <4>1
      <4> HIDE DEF P, h, b, n
      <4>3. b + 0 = b
        BY <3>5
      <4> QED BY <3>4, <4>2, <4>3 DEF e
    <3>7. sealed'[d] = seal(n, Seg(P, c[n], e)).n /\ out'[d][1] = seal(n, Seg(P, c[n], e)).bytes
      BY <1>6, <3>6 DEF s
    <3>8. done'[d] = done[d] /\ wire'[d] = wire[d] /\ Len(sent'[d]) = done[d] + 1 /\ doing'[d][1] = what
      BY <1>6, <1>7, <3>4
    <3>9. e = Len(Pre(d)) + Pos(done[d]) + (IF what = "length" THEN 1 ELSE Size)
      OBVIOUS
    <3>10. e \in Nat /\ c[sealed[d]] < e
      BY <3>5
    <3>11. sealed'[d] = seal(sealed[d], Seg(Pre(d), c[sealed[d]], e)).n
      BY <3>7
    <3>12. out'[d][1] = seal(sealed[d], Seg(Pre(d), c[sealed[d]], e)).bytes
      BY <3>7
    <3> HIDE DEF e, P, h, b, n
    <3>13. RecordTypes
      BY <1>1
    <3>14. Onward /\ ReaderKept(d)
      BY <1>9
    <3>15. SealedTo(d, c, what, e)
      BY <3>8, <3>9, <3>10, <3>11, <3>12, <3>14 DEF SealedTo
    <3> QED BY <3>1, <3>13, <3>15, SealAt
  <2>2. Begun(d)' /\ got'[d] = got[d] /\ (Deaf(d)' => got[d] = <<>>)
    BY <1>1, <1>7, <1>12, <1>13 DEF FlowOf, Flow
  <2>3. Flow(d)'
    BY <2>1, <2>2 DEF Flow, FlowAt
  <2>4. OneWriter(d)'
    <3>1. OneWriter(d)
      BY <1>1 DEF FlowOf
    <3> QED BY <1>6, <3>1 DEF OneWriter
  <2>5. InOrder(got'[d])
    BY <1>1, <1>7 DEF FlowOf
  <2> QED BY <2>3, <2>4, <2>5 DEF FlowOf
<1>16. \A e \in Directions : FlowOf(e)'
  BY <1>14, <1>15
<1>17. ASSUME NEW e \in Directions PROVE FateOf(e)'
  BY <1>1, <1>7, <1>9, <1>12, FateOfStays
<1>18. Beyond
  <2>1. UNCHANGED <<hs, client, host, cut>>
    BY <1>7 DEF hs, client
  <2>2. stage # "Done" => /\ sealed'["up"] = sealed["up"] /\ opened'["down"] = opened["down"]
                          /\ doing'["up"][1] = doing["up"][1] /\ ("up" \in shut' => "up" \in shut)
    BY <1>6, <1>7, Directed
  <2>3. opened["down"] <= opened'["down"]
    <3>1. opened["down"] \in Nat
      BY <1>1, Directed DEF RecordTypes, HandshakeTypes, TunnelTypes
    <3> QED BY <1>7, <3>1
  <2> QED BY <1>11, <2>1, <2>2, <2>3 DEF Beyond
<1> QED BY <1>8, <1>16, <1>17, <1>18, TunnelKeeps

LEMMA BeginFrameKeeps ==
  ASSUME RecordInv, NEW d \in Directions, NEW t \in WritersOf(d), BeginFrame(d, t) PROVE RecordInv'
<1>1. t = 1 /\ 1 \in Threads /\ RecordTypes /\ FlowOf(d)
  BY RecordAssumption DEF WritersOf, RecordInv, Flows
<1>2. host = "up" /\ (d = "up" => stage = "Done")
  BY DEF BeginFrame, Live, RecordInv, Turns
<1>3. doing[d][1] = "idle" /\ out[d][1] = <<>>
  BY <1>1 DEF BeginFrame, FlowOf, OneWriter
<1> DEFINE q == sent[d]
           f == Len(q) + 1
<1>4. q \in Seq(Frames) /\ f \in Nat /\ f <= MaxFrames /\ f \in 1 .. MaxFrames /\ InOrder(q)
  <2>1. sent \in [Directions -> Seq(Frames)] /\ MaxFrames \in Nat
    BY <1>1, RecordAssumption DEF RecordTypes, HandshakeTypes, TunnelTypes
  <2>2. Len(sent["up"]) \in Nat /\ Len(sent["down"]) \in Nat /\ q \in Seq(Frames)
    BY <2>1, Directed
  <2>3. Len(q) + 1 <= MaxFrames
    <3>1. Len(sent["up"]) + Len(sent["down"]) < MaxFrames
      BY DEF BeginFrame
    <3> QED BY <2>1, <2>2, <3>1, Directed
  <2>4. InOrder(q)
    BY <1>1 DEF FlowOf
  <2> QED BY <2>1, <2>2, <2>3, <2>4
<1>5. Seals(d, 1, length(f), "length") /\ sent' = [sent EXCEPT ![d] = Append(@, body(f))]
      /\ UNCHANGED <<hs, client, host, wire, carrier, done, readers>>
  BY <1>1 DEF BeginFrame
<1>6. sent' \in [Directions -> Seq(Frames)] /\ sent'[d] = Append(q, body(f))
      /\ \A e \in Directions : e # d => sent'[e] = sent[e]
  <2>1. sent \in [Directions -> Seq(Frames)]
    BY <1>1 DEF RecordTypes, HandshakeTypes, TunnelTypes
  <2> DEFINE b == body(f)
  <2>2. b \in Frames
    BY <1>4 DEF Frames
  <2> HIDE DEF b, f
  <2>3. sent' = [sent EXCEPT ![d] = Append(@, b)]
    BY <1>5 DEF b
  <2>4. sent' \in [Directions -> Seq(Frames)] /\ sent'[d] = Append(q, b)
        /\ \A e \in Directions : e # d => sent'[e] = sent[e]
    BY <2>1, <2>2, <2>3
  <2> QED BY <2>4 DEF b
<1>7. Len(sent'[d]) = f /\ InOrder(sent'[d])
  <2> DEFINE B(i) == body(i)
  <2>1. \A i \in 1 .. Len(q) : q[i] = B(i)
    BY <1>4 DEF InOrder
  <2>2. sent'[d] = Append(q, B(f))
    BY <1>6
  <2> HIDE DEF B
  <2>3. Len(sent'[d]) = f /\ \A i \in 1 .. f : sent'[d][i] = B(i)
    BY <1>4, <2>1, <2>2
  <2>4. \A i \in 1 .. Len(sent'[d]) : sent'[d][i] = B(i)
    BY <2>3
  <2> QED BY <2>3, <2>4 DEF InOrder, B
<1> HIDE DEF f
<1>8. f = Len(sent[d]) + 1
  BY DEF f
<1> DEFINE what == "length"
           units == length(f)
<1>9. /\ what \in {"length", "body"} /\ units = (IF what = "length" THEN length(f) ELSE body(f)) /\ Seals(d, 1, units, what)
      /\ doing[d][1] = (IF what = "length" THEN "idle" ELSE "length")
      /\ f = (IF what = "length" THEN Len(sent[d]) + 1 ELSE Len(sent[d]))
  BY <1>3, <1>5, <1>8
<1> HIDE DEF what, units
<1> QED BY <1>2, <1>3, <1>4, <1>5, <1>6, <1>7, <1>9, SealsKeeps

LEMMA SealBodyKeeps ==
  ASSUME RecordInv, NEW d \in Directions, NEW t \in WritersOf(d), SealBody(d, t) PROVE RecordInv'
<1>1. t = 1 /\ RecordTypes /\ FlowOf(d)
  BY DEF WritersOf, RecordInv, Flows
<1>2. doing[d][1] = "length" /\ out[d][1] = <<>>
  BY <1>1 DEF SealBody
<1>3. host = "up" /\ (d = "up" => stage = "Done")
  BY <1>2, Writing
<1> DEFINE f == Len(sent[d])
<1>4. Seals(d, 1, body(f), "body") /\ sent' = sent
      /\ UNCHANGED <<hs, client, host, wire, carrier, done, readers>>
  BY <1>1 DEF SealBody
<1>5. sent' \in [Directions -> Seq(Frames)] /\ f = Len(sent'[d]) /\ f <= MaxFrames /\ InOrder(sent'[d]) /\ f \in Nat
      /\ \A e \in Directions : e # d => sent'[e] = sent[e]
  <2>1. f \in Nat
    BY <1>1, DirectionTypes
  <2> QED BY <1>1, <1>4, <2>1 DEF RecordTypes, HandshakeTypes, TunnelTypes, FlowOf
<1> HIDE DEF f
<1>6. f = Len(sent[d])
  BY DEF f
<1> DEFINE what == "body"
           units == body(f)
<1>9. /\ what \in {"length", "body"} /\ units = (IF what = "length" THEN length(f) ELSE body(f)) /\ Seals(d, 1, units, what)
      /\ doing[d][1] = (IF what = "length" THEN "idle" ELSE "length")
      /\ f = (IF what = "length" THEN Len(sent[d]) + 1 ELSE Len(sent[d]))
  BY <1>2, <1>4, <1>6
<1> HIDE DEF what, units
<1> QED BY <1>2, <1>3, <1>4, <1>5, <1>9, SealsKeeps

(* A step of the tunnel touches one direction.                             *)
LEMMA DirectionKeeps ==
  ASSUME RecordInv, RecordTypes', NEW d \in Directions, host = "up",
         UNCHANGED <<hs, client, host, cut>>, shut \subseteq shut', stage # "Done" => ("up" \in shut' => "up" \in shut),
         \A e \in Directions : e # d => Untouched(e) /\ wire'[e] = wire[e] /\ fate'[e] = fate[e],
         sealed'[d] = sealed[d], opened[d] <= opened'[d], d = "down" /\ stage # "Done" => opened'[d] = opened[d],
         d = "up" /\ stage # "Done" => doing'[d][1] = doing[d][1],
         ~Deaf(d) => \A c : FlowAt(d, c) => FlowAt(d, c)', Deaf(d) => got'[d] = got[d],
         InOrder(sent'[d]), InOrder(got'[d]), Len(sent'[d]) <= MaxFrames, OneWriter(d)', FateOf(d)'
  PROVE  RecordInv'
<1>1. RecordTypes /\ \A e \in Directions : FlowOf(e) /\ FateOf(e)
  BY DEF RecordInv, Flows, Fates
<1>2. /\ mode' = mode /\ tab' = tab /\ kind' = kind /\ agreed' = agreed
      /\ stage' = stage /\ host' = host /\ cut' = cut
  BY DEF hs, client
<1>3. Onward
  BY <1>2 DEF Onward
<1>4. (\A e \in Directions : Begun(e)) /\ sealed["down"] > 0
  BY Opening, Directed
<1>5. sealed'["down"] = sealed["down"] /\ sealed'["up"] = sealed["up"]
  BY Directed DEF Untouched
<1>6. \A e \in Directions : Begun(e)'
  BY <1>2, <1>4, <1>5 DEF Begun
<1>7. \A e \in Directions : Deaf(e)' <=> Deaf(e)
  BY <1>2 DEF Deaf
<1>8. ASSUME NEW e \in Directions, e # d PROVE FlowOf(e)' /\ FateOf(e)'
  <2>1. Untouched(e) /\ ReaderKept(e)
    BY <1>8 DEF Untouched
  <2>2. FlowOf(e)'
    BY <1>1, <1>3, <1>4, <1>6, <1>7, <1>8, <2>1, FlowOfStays
  <2>3. FateOf(e)'
    BY <1>1, <1>2, <1>3, <1>6, <1>8, <2>1, FateOfStays DEF ReaderKept
  <2> QED BY <2>2, <2>3
<1>9. FlowOf(d)'
  <2>1. ~Deaf(d) => \E c : FlowAt(d, c)'
    <3> SUFFICES ASSUME ~Deaf(d) PROVE \E c : FlowAt(d, c)'
      OBVIOUS
    <3>1. PICK c : FlowAt(d, c)
      BY <1>1, <1>4 DEF FlowOf, Flow, FlowAt
    <3>2. FlowAt(d, c)'
      BY <3>1
    <3> QED BY <3>2
  <2>2. Begun(d)' /\ (Deaf(d)' => got'[d] = <<>>)
    BY <1>1, <1>6, <1>7 DEF FlowOf, Flow
  <2>3. Flow(d)'
    BY <1>7, <2>1, <2>2 DEF Flow, FlowAt
  <2> QED BY <2>3 DEF FlowOf
<1>10. Beyond
  <2>1. stage # "Done" => /\ sealed'["up"] = sealed["up"] /\ opened'["down"] = opened["down"]
                          /\ doing'["up"][1] = doing["up"][1]
    BY <1>5, Directed DEF Untouched, ReaderKept
  <2>2. opened["down"] <= opened'["down"]
    <3>1. opened["down"] \in Nat
      BY <1>1, Directed, DirectionTypes
    <3>2. CASE d = "down"
      BY <3>2
    <3>3. CASE d # "down"
      BY <3>1, <3>3, Directed DEF Untouched, ReaderKept
    <3> QED BY <3>2, <3>3
  <2>3. sealed["down"] <= sealed'["down"]
    <3>1. sealed["down"] \in Nat
      BY <1>1, Directed, DirectionTypes
    <3> QED BY <1>5, <3>1
  <2> QED BY <2>1, <2>2, <2>3 DEF Beyond
<1> QED BY <1>8, <1>9, <1>10, TunnelKeeps

LEMMA WriteKeeps ==
  ASSUME RecordInv, NEW d \in Directions, NEW t \in WritersOf(d), Write(d, t) PROVE RecordInv'
<1>1. t = 1 /\ 1 \in Threads /\ RecordTypes /\ FlowOf(d) /\ FateOf(d)
  BY RecordAssumption DEF WritersOf, RecordInv, Flows, Fates
<1> DEFINE o == out[d][1]
           at == doing[d][1]
<1>2. /\ o # <<>> /\ ~Ended(d) /\ wire' = [wire EXCEPT ![d] = @ \o o] /\ out' = [out EXCEPT ![d][1] = <<>>]
      /\ done' = [done EXCEPT ![d] = IF at = "body" THEN @ + 1 ELSE @]
      /\ doing' = [doing EXCEPT ![d][1] = IF @ = "body" THEN "idle" ELSE @]
      /\ UNCHANGED <<hs, client, host, carrier, sealed, sent, readers>>
  BY <1>1 DEF Write, Push
<1>3. host = "up" /\ (d = "up" => stage = "Done") /\ at \in {"length", "body"}
  BY <1>2, Writing
<1>4. /\ UNCHANGED <<hs, client, host, cut>> /\ shut' = shut /\ cut' = cut /\ sealed' = sealed /\ sent' = sent
      /\ mode' = mode /\ agreed' = agreed /\ tab' = tab /\ stage' = stage /\ host' = host
      /\ opened' = opened /\ partial' = partial /\ plain' = plain /\ buf' = buf /\ got' = got /\ fate' = fate
  BY <1>2 DEF hs, client, carrier, readers
<1>5. TunnelTypes /\ HandshakeTypes
  BY <1>1 DEF RecordTypes
<1>6. /\ wire'[d] = wire[d] \o o /\ out'[d][1] = <<>> /\ done'[d] = (IF at = "body" THEN done[d] + 1 ELSE done[d])
      /\ doing'[d][1] = (IF at = "body" THEN "idle" ELSE at)
      /\ \A e \in Directions : e # d => wire'[e] = wire[e] /\ out'[e] = out[e] /\ done'[e] = done[e] /\ doing'[e] = doing[e]
      /\ \A s \in Threads : s # 1 => out'[d][s] = out[d][s] /\ doing'[d][s] = doing[d][s]
  BY <1>1, <1>2, <1>5 DEF TunnelTypes
<1>7. RecordTypes'
  <2>1. HandshakeTypes'
    BY <1>4, <1>5, HandshakeTyped
  <2>2. wire' \in [Directions -> Seq(Pieces)]
    <3>1. o \in Seq(Pieces) /\ wire[d] \in Seq(Pieces)
      BY <1>1, DirectionTypes
    <3> DEFINE w == wire[d] \o o
    <3>2. w \in Seq(Pieces)
      BY <3>1
    <3>3. wire' = [wire EXCEPT ![d] = w]
      BY <1>2
    <3> HIDE DEF w
    <3> QED BY <1>5, <3>2, <3>3 DEF TunnelTypes
  <2>3. out' \in [Directions -> [Threads -> Seq(Pieces)]]
    <3>1. <<>> \in Seq(Pieces)
      OBVIOUS
    <3> QED BY <1>1, <1>2, <1>5, <3>1 DEF TunnelTypes
  <2>4. done' \in [Directions -> Nat]
    <3> DEFINE z == IF at = "body" THEN done[d] + 1 ELSE done[d]
    <3>1. z \in Nat
      BY <1>1, DirectionTypes
    <3>2. done' = [done EXCEPT ![d] = z]
      BY <1>2
    <3> HIDE DEF z
    <3> QED BY <1>5, <3>1, <3>2 DEF TunnelTypes
  <2>5. doing' \in [Directions -> [Threads -> {"idle", "length", "body", "dead"}]]
    BY <1>1, <1>2, <1>5 DEF TunnelTypes
  <2>6. TunnelTypes'
    BY <1>4, <1>5, <2>2, <2>3, <2>4, <2>5 DEF TunnelTypes
  <2> QED BY <2>1, <2>6 DEF RecordTypes
<1>8. Onward /\ \A e \in Directions : ReaderKept(e)
  BY <1>4 DEF Onward, ReaderKept
<1>9. ASSUME NEW c, FlowAt(d, c) PROVE FlowAt(d, c)'
  <2>1. /\ ~Ended(d) /\ out[d][1] # <<>> /\ wire'[d] = wire[d] \o out[d][1] /\ out'[d][1] = <<>>
        /\ sealed'[d] = sealed[d] /\ sent'[d] = sent[d] /\ ReaderKept(d) /\ Onward
        /\ done'[d] = (IF doing[d][1] = "body" THEN done[d] + 1 ELSE done[d])
        /\ doing'[d][1] = (IF doing[d][1] = "body" THEN "idle" ELSE doing[d][1])
    BY <1>2, <1>4, <1>6, <1>8
  <2> QED BY <1>1, <1>9, <2>1, WriteAt
<1>10. OneWriter(d)'
  <2>1. OneWriter(d)
    BY <1>1 DEF FlowOf
  <2> QED BY <1>6, <2>1 DEF OneWriter
<1>11. FateOf(d)'
  <2>1. fate[d] # "clean"
    BY <1>1, <1>2 DEF FateOf
  <2>2. fate[d] # "reads" /\ Begun(d) => Begun(d)'
    BY <1>4 DEF Begun
  <2> QED BY <1>1, <1>4, <1>8, <2>1, <2>2, FateOfStays
<1>12. \A e \in Directions : e # d => Untouched(e) /\ wire'[e] = wire[e] /\ fate'[e] = fate[e]
  BY <1>4, <1>6, <1>8 DEF Untouched
<1>13. InOrder(sent'[d]) /\ InOrder(got'[d]) /\ Len(sent'[d]) <= MaxFrames /\ got'[d] = got[d]
  BY <1>1, <1>4 DEF FlowOf
<1>14. opened[d] <= opened'[d] /\ opened'[d] = opened[d]
  <2>1. opened[d] \in Nat
    BY <1>1, DirectionTypes
  <2> QED BY <1>4, <2>1
<1> QED BY <1>3, <1>4, <1>7, <1>9, <1>10, <1>11, <1>12, <1>13, <1>14, DirectionKeeps

LEMMA WriteFailsKeeps ==
  ASSUME RecordInv, NEW d \in Directions, NEW t \in WritersOf(d), WriteFails(d, t) PROVE RecordInv'
<1>1. t = 1 /\ 1 \in Threads /\ RecordTypes /\ FlowOf(d) /\ FateOf(d)
  BY RecordAssumption DEF WritersOf, RecordInv, Flows, Fates
<1>2. /\ out[d][1] # <<>> /\ Ended(d) /\ out' = [out EXCEPT ![d][1] = <<>>] /\ doing' = [doing EXCEPT ![d][1] = "dead"]
      /\ UNCHANGED <<hs, client, host, wire, carrier, sealed, sent, done, readers>>
  BY <1>1 DEF WriteFails
<1>3. host = "up" /\ (d = "up" => stage = "Done")
  BY <1>2, Writing
<1>4. /\ UNCHANGED <<hs, client, host, cut>> /\ shut' = shut /\ cut' = cut /\ sealed' = sealed /\ sent' = sent
      /\ mode' = mode /\ agreed' = agreed /\ tab' = tab /\ stage' = stage /\ host' = host /\ wire' = wire /\ done' = done
      /\ opened' = opened /\ partial' = partial /\ plain' = plain /\ buf' = buf /\ got' = got /\ fate' = fate
  BY <1>2 DEF hs, client, carrier, readers
<1>5. TunnelTypes /\ HandshakeTypes
  BY <1>1 DEF RecordTypes
<1>6. /\ out'[d][1] = <<>> /\ doing'[d][1] = "dead"
      /\ \A e \in Directions : e # d => out'[e] = out[e] /\ doing'[e] = doing[e]
      /\ \A s \in Threads : s # 1 => out'[d][s] = out[d][s] /\ doing'[d][s] = doing[d][s]
  BY <1>1, <1>2, <1>5 DEF TunnelTypes
<1>7. RecordTypes'
  <2>1. HandshakeTypes'
    BY <1>4, <1>5, HandshakeTyped
  <2>2. out' \in [Directions -> [Threads -> Seq(Pieces)]]
    <3>1. <<>> \in Seq(Pieces)
      OBVIOUS
    <3> QED BY <1>1, <1>2, <1>5, <3>1 DEF TunnelTypes
  <2>3. doing' \in [Directions -> [Threads -> {"idle", "length", "body", "dead"}]]
    BY <1>1, <1>2, <1>5 DEF TunnelTypes
  <2>4. TunnelTypes'
    BY <1>4, <1>5, <2>2, <2>3 DEF TunnelTypes
  <2> QED BY <2>1, <2>4 DEF RecordTypes
<1>8. Onward /\ \A e \in Directions : ReaderKept(e)
  BY <1>4 DEF Onward, ReaderKept
<1>9. ASSUME NEW c, FlowAt(d, c) PROVE FlowAt(d, c)'
  <2>1. /\ Ended(d) /\ out[d][1] # <<>> /\ wire'[d] = wire[d] /\ out'[d][1] = <<>> /\ doing'[d][1] = "dead"
        /\ sealed'[d] = sealed[d] /\ sent'[d] = sent[d] /\ done'[d] = done[d] /\ ReaderKept(d) /\ Onward
    BY <1>2, <1>4, <1>6, <1>8
  <2> QED BY <1>1, <1>9, <2>1, FailAt
<1>10. OneWriter(d)'
  <2>1. OneWriter(d)
    BY <1>1 DEF FlowOf
  <2> QED BY <1>6, <2>1 DEF OneWriter
<1>11. FateOf(d)'
  <2>1. fate[d] # "reads" /\ Begun(d) => Begun(d)'
    BY <1>4 DEF Begun
  <2> QED BY <1>1, <1>4, <1>8, <2>1, FateOfStays
<1>12. \A e \in Directions : e # d => Untouched(e) /\ wire'[e] = wire[e] /\ fate'[e] = fate[e]
  BY <1>4, <1>6, <1>8 DEF Untouched
<1>13. InOrder(sent'[d]) /\ InOrder(got'[d]) /\ Len(sent'[d]) <= MaxFrames /\ got'[d] = got[d]
  BY <1>1, <1>4 DEF FlowOf
<1>14. opened[d] <= opened'[d] /\ opened'[d] = opened[d]
  <2>1. opened[d] \in Nat
    BY <1>1, DirectionTypes
  <2> QED BY <1>4, <2>1
<1> QED BY <1>3, <1>4, <1>7, <1>9, <1>10, <1>11, <1>12, <1>13, <1>14, DirectionKeeps

(* Readers.                                                                *)
LEMMA ReadingIs ==
  ASSUME RecordInv, NEW d \in Directions, Reading(d)
  PROVE  host = "up" /\ ~Deaf(d) /\ Begun(d) /\ fate[d] = "reads" /\ (d = "down" => stage = "Done" /\ opened[d] > 0)
<1>1. host = "up" /\ (d = "down" => stage = "Done" /\ opened[d] > 0)
  <2>1. CASE d = "up"
    BY <2>1 DEF Reading
  <2>2. CASE d = "down"
    BY <2>2 DEF Reading, RecordInv, Turns
  <2> QED BY <2>1, <2>2, Directed
<1>2. Begun(d) /\ ~Deaf(d)
  BY <1>1, Opening DEF Deaf
<1> QED BY <1>1, <1>2 DEF Reading

LEMMA Received1 ==
  ASSUME RecordTypes, NEW d \in Directions, NEW units, Received(d, units), NEW r, r = next_frames(buf[d] \o units)
  PROVE  /\ buf' = [buf EXCEPT ![d] = r.rest] /\ got' = [got EXCEPT ![d] = @ \o r.bodies]
         /\ buf'[d] = r.rest /\ got'[d] = got[d] \o r.bodies
         /\ \A e \in Directions : e # d => buf'[e] = buf[e] /\ got'[e] = got[e]
<1>1. buf' = [buf EXCEPT ![d] = r.rest] /\ got' = [got EXCEPT ![d] = @ \o r.bodies]
  BY DEF Received
<1>2. buf \in [Directions -> Seq(Units)] /\ got \in [Directions -> Seq(Frames)]
  BY DEF RecordTypes, TunnelTypes
<1> QED BY <1>1, <1>2

(* What a reader changes, and no more.                                     *)
LEMMA ReaderKeeps ==
  ASSUME RecordInv, NEW d \in Directions, Reading(d), UNCHANGED <<hs, client, host, carrier, writers>>,
         wire' \in [Directions -> Seq(Pieces)], opened' \in [Directions -> Nat], partial' \in [Directions -> Seq(Pieces)],
         plain' \in [Directions -> Seq(Units)], buf' \in [Directions -> Seq(Units)], got' \in [Directions -> Seq(Frames)],
         fate' \in [Directions -> {"reads", "clean", "truncated", "broken", "forged"}],
         \A e \in Directions : e # d => /\ wire'[e] = wire[e] /\ fate'[e] = fate[e] /\ ReaderKept(e),
         opened[d] <= opened'[d], InOrder(got'[d]), FateOf(d)',
         \A c : FlowAt(d, c) => FlowAt(d, c)'
  PROVE  RecordInv'
<1>1. RecordTypes /\ FlowOf(d)
  BY DEF RecordInv, Flows
<1>2. host = "up" /\ ~Deaf(d) /\ (d = "down" => stage = "Done")
  BY ReadingIs
<1>3. /\ UNCHANGED <<hs, client, host, cut>> /\ shut' = shut /\ sealed' = sealed /\ sent' = sent
      /\ out' = out /\ doing' = doing /\ done' = done
  BY DEF hs, client, carrier, writers
<1>4. RecordTypes'
  <2>1. HandshakeTypes /\ TunnelTypes
    BY <1>1 DEF RecordTypes
  <2>2. HandshakeTypes'
    BY <1>3, <2>1, HandshakeTyped
  <2>3. TunnelTypes'
    BY <1>3, <2>1 DEF TunnelTypes
  <2> QED BY <2>2, <2>3 DEF RecordTypes
<1>5. \A e \in Directions : e # d => Untouched(e) /\ wire'[e] = wire[e] /\ fate'[e] = fate[e]
  BY <1>3 DEF Untouched
<1>6. OneWriter(d)'
  BY <1>1, <1>3, OneWriterStays DEF FlowOf
<1>7. InOrder(sent'[d]) /\ Len(sent'[d]) <= MaxFrames
  BY <1>1, <1>3 DEF FlowOf
<1>8. shut \subseteq shut' /\ (stage # "Done" => ("up" \in shut' => "up" \in shut)) /\ sealed'[d] = sealed[d]
      /\ doing'[d][1] = doing[d][1]
  BY <1>3
<1> QED BY <1>2, <1>3, <1>4, <1>5, <1>6, <1>7, <1>8, DirectionKeeps

LEMMA TakePlainKeeps == ASSUME RecordInv, NEW d \in Directions, TakePlain(d) PROVE RecordInv'
<1>1. RecordTypes /\ TunnelTypes /\ FlowOf(d) /\ FateOf(d) /\ Reading(d)
  BY DEF RecordInv, Flows, Fates, RecordTypes, TakePlain
<1>2. host = "up" /\ ~Deaf(d) /\ Begun(d) /\ fate[d] = "reads" /\ (d = "down" => stage = "Done" /\ opened[d] > 0)
  BY <1>1, ReadingIs
<1>3. PICK k \in 1 .. Len(plain[d]) : Received(d, Take(plain[d], k)) /\ plain' = [plain EXCEPT ![d] = After(@, k)]
  BY DEF TakePlain
<1>4. UNCHANGED <<hs, client, host, wire, carrier, writers, opened, partial, fate>>
  BY DEF TakePlain
<1> DEFINE r == next_frames(buf[d] \o Take(plain[d], k))
<1>5. /\ buf' = [buf EXCEPT ![d] = r.rest] /\ got' = [got EXCEPT ![d] = @ \o r.bodies]
      /\ buf'[d] = r.rest /\ got'[d] = got[d] \o r.bodies
      /\ \A e \in Directions : e # d => buf'[e] = buf[e] /\ got'[e] = got[e]
  BY <1>1, <1>3, Received1
<1>6. plain'[d] = After(plain[d], k) /\ \A e \in Directions : e # d => plain'[e] = plain[e]
  BY <1>1, <1>3 DEF TunnelTypes
<1>7. Onward /\ WriterKept(d) /\ wire' = wire /\ opened' = opened /\ partial' = partial /\ fate' = fate
      /\ tab' = tab /\ stage' = stage /\ host' = host /\ sealed' = sealed
  BY <1>4 DEF Onward, hs, client, carrier, writers, WriterKept
<1>8. Len(sent[d]) <= MaxFrames /\ InOrder(got[d])
  BY <1>1 DEF FlowOf
<1> HIDE DEF r
<1>9. ASSUME NEW c, FlowAt(d, c)
      PROVE  /\ FlowAt(d, c)' /\ InOrder(got'[d])
             /\ got'[d] \in Seq(Frames) /\ buf'[d] \in Seq(Units) /\ plain'[d] \in Seq(Units)
  <2>1. k \in 0 .. Len(plain[d])
    BY <1>1, DirectionTypes
  <2>2. r = next_frames(buf[d] \o Take(plain[d], k))
    BY DEF r
  <2>3. wire'[d] = wire[d] /\ opened'[d] = opened[d] /\ partial'[d] = partial[d]
    BY <1>7
  <2>4. RecordTypes /\ Onward /\ WriterKept(d) /\ Len(sent[d]) <= MaxFrames /\ InOrder(got[d])
    BY <1>1, <1>7, <1>8
  <2>5. plain'[d] = After(plain[d], k) /\ buf'[d] = r.rest /\ got'[d] = got[d] \o r.bodies
    BY <1>5, <1>6
  <2> QED BY <1>9, <2>1, <2>2, <2>3, <2>4, <2>5, TakeAt
<1>10. PICK c : FlowAt(d, c)
  BY <1>1, <1>2 DEF FlowOf, Flow, FlowAt
<1>11. got'[d] \in Seq(Frames) /\ buf'[d] \in Seq(Units) /\ plain'[d] \in Seq(Units) /\ InOrder(got'[d])
  BY <1>9, <1>10
<1>12. /\ plain' \in [Directions -> Seq(Units)] /\ buf' \in [Directions -> Seq(Units)] /\ got' \in [Directions -> Seq(Frames)]
  <2>1. plain' = [plain EXCEPT ![d] = plain'[d]] /\ buf' = [buf EXCEPT ![d] = buf'[d]] /\ got' = [got EXCEPT ![d] = got'[d]]
    BY <1>3, <1>5, <1>6
  <2> QED BY <1>1, <1>11, <2>1 DEF TunnelTypes
<1>13. wire' \in [Directions -> Seq(Pieces)] /\ opened' \in [Directions -> Nat] /\ partial' \in [Directions -> Seq(Pieces)]
       /\ fate' \in [Directions -> {"reads", "clean", "truncated", "broken", "forged"}]
  BY <1>1, <1>7 DEF TunnelTypes
<1>14. FateOf(d)'
  <2>1. Begun(d) => Begun(d)'
    BY <1>7 DEF Begun
  <2> QED BY <1>1, <1>2, <1>7, <2>1, FateOfStays
<1>15. \A e \in Directions : e # d => /\ wire'[e] = wire[e] /\ fate'[e] = fate[e] /\ ReaderKept(e)
  BY <1>5, <1>6, <1>7 DEF ReaderKept
<1>16. opened[d] <= opened'[d]
  <2>1. opened[d] \in Nat
    BY <1>1, DirectionTypes
  <2> QED BY <1>7, <2>1
<1>17. UNCHANGED <<hs, client, host, carrier, writers>>
  BY <1>4
<1> QED BY <1>1, <1>9, <1>11, <1>12, <1>13, <1>14, <1>15, <1>16, <1>17, ReaderKeeps

LEMMA EndReadKeeps == ASSUME RecordInv, NEW d \in Directions, ReadEnd(d) \/ ReadBroken(d) PROVE RecordInv'
<1>1. RecordTypes /\ TunnelTypes /\ FlowOf(d) /\ FateOf(d) /\ Reading(d)
  BY DEF RecordInv, Flows, Fates, RecordTypes, ReadEnd, ReadBroken
<1>2. Begun(d) /\ (d = "down" => stage = "Done")
  BY <1>1, ReadingIs
<1>3. UNCHANGED <<hs, client, host, wire, carrier, writers, opened, partial, plain, buf, got>>
  BY DEF ReadEnd, ReadBroken
<1>4. PICK x \in {"clean", "truncated", "broken"} :
        /\ fate' = [fate EXCEPT ![d] = x]
        /\ x = "clean" => plain[d] = <<>> /\ wire[d] = <<>> /\ Ended(d) /\ (partial[d] = <<>> \/ (tab /\ d = "down"))
  <2>1. CASE ReadEnd(d)
    <3>1. CASE partial[d] # <<>> /\ ~(tab /\ d = "down")
      BY <2>1, <3>1 DEF ReadEnd
    <3>2. CASE ~(partial[d] # <<>> /\ ~(tab /\ d = "down"))
      BY <2>1, <3>2 DEF ReadEnd
    <3> QED BY <3>1, <3>2
  <2>2. CASE ReadBroken(d)
    BY <2>2 DEF ReadBroken
  <2> QED BY <2>1, <2>2
<1>5. fate'[d] = x /\ (\A e \in Directions : e # d => fate'[e] = fate[e])
      /\ fate' \in [Directions -> {"reads", "clean", "truncated", "broken", "forged"}]
  BY <1>1, <1>4 DEF TunnelTypes
<1>6. Onward /\ (\A e \in Directions : WriterKept(e) /\ ReaderKept(e)) /\ wire' = wire /\ opened' = opened /\ partial' = partial
      /\ plain' = plain /\ buf' = buf /\ got' = got /\ tab' = tab /\ stage' = stage /\ host' = host /\ sealed' = sealed
  BY <1>3 DEF Onward, hs, client, carrier, writers, WriterKept, ReaderKept
<1>7. FateOf(d)'
  <2>1. Begun(d)' /\ (d = "down" => stage' = "Done")
    BY <1>2, <1>6 DEF Begun
  <2>2. Ended(d) => Ended(d)'
    BY <1>6, EndedStays
  <2> QED BY <1>4, <1>5, <1>6, <2>1, <2>2 DEF FateOf
<1>8. \A c : FlowAt(d, c) => FlowAt(d, c)'
  BY <1>1, <1>6, FlowStays
<1>9. wire' \in [Directions -> Seq(Pieces)] /\ opened' \in [Directions -> Nat] /\ partial' \in [Directions -> Seq(Pieces)]
      /\ plain' \in [Directions -> Seq(Units)] /\ buf' \in [Directions -> Seq(Units)] /\ got' \in [Directions -> Seq(Frames)]
  BY <1>1, <1>6 DEF TunnelTypes
<1>10. opened[d] <= opened'[d] /\ InOrder(got'[d])
  <2>1. opened[d] \in Nat
    BY <1>1, DirectionTypes
  <2> QED BY <1>1, <1>6, <2>1 DEF FlowOf
<1>11. \A e \in Directions : e # d => /\ wire'[e] = wire[e] /\ fate'[e] = fate[e] /\ ReaderKept(e)
  BY <1>5, <1>6
<1>12. UNCHANGED <<hs, client, host, carrier, writers>>
  BY <1>3
<1> QED BY <1>1, <1>5, <1>7, <1>8, <1>9, <1>10, <1>11, <1>12, ReaderKeeps

LEMMA ReadChunkKeeps == ASSUME RecordInv, NEW d \in Directions, ReadChunk(d) PROVE RecordInv'
<1>1. RecordTypes /\ TunnelTypes /\ FlowOf(d) /\ FateOf(d) /\ Reading(d) /\ plain[d] = <<>>
  BY DEF RecordInv, Flows, Fates, RecordTypes, ReadChunk
<1>2. host = "up" /\ ~Deaf(d) /\ Begun(d) /\ fate[d] = "reads" /\ (d = "down" => stage = "Done" /\ opened[d] > 0)
  BY <1>1, ReadingIs
<1>3. UNCHANGED <<hs, client, host, carrier, writers>>
  BY DEF ReadChunk
<1> DEFINE F(k) == feed(opened[d], partial[d] \o Take(wire[d], k))
<1>4. PICK k \in 1 .. Len(wire[d]) :
        /\ wire' = [wire EXCEPT ![d] = After(@, k)]
        /\ IF F(k).ok THEN Opened(d, F(k), F(k).plain) /\ UNCHANGED fate
                      ELSE /\ fate' = [fate EXCEPT ![d] = "forged"]
                           /\ UNCHANGED <<opened, partial, plain, buf, got>>
  BY DEF ReadChunk
<1> DEFINE f == F(k)
<1>5. PICK c0 : FlowAt(d, c0)
  BY <1>1, <1>2 DEF FlowOf, Flow, FlowAt
<1>6. f = feed(opened[d], partial[d] \o Take(wire[d], k))
  OBVIOUS
<1> HIDE DEF F, f
<1>7. f.ok /\ f.n \in Nat /\ opened[d] <= f.n
  <2>1. f.ok /\ f.n \in opened[d] .. sealed[d]
    BY <1>1, <1>5, <1>6, FeedAt
  <2> DEFINE a == f.n
             b == opened[d]
             e == sealed[d]
  <2>2. a \in b .. e /\ b \in Nat /\ e \in Nat
    BY <1>1, <2>1, DirectionTypes
  <2> HIDE DEF a, b, e
  <2>3. a \in Nat /\ b <= a
    BY <2>2
  <2> QED BY <2>1, <2>3 DEF a, b
<1>8. Opened(d, f, f.plain) /\ fate' = fate
  BY <1>4, <1>7 DEF f
<1>9. wire'[d] = After(wire[d], k) /\ (\A e \in Directions : e # d => wire'[e] = wire[e])
      /\ opened'[d] = f.n /\ partial'[d] = f.partial
      /\ opened' = [opened EXCEPT ![d] = f.n] /\ partial' = [partial EXCEPT ![d] = f.partial]
      /\ wire' = [wire EXCEPT ![d] = After(@, k)]
      /\ \A e \in Directions : e # d => opened'[e] = opened[e] /\ partial'[e] = partial[e]
  BY <1>1, <1>4, <1>8 DEF TunnelTypes, Opened
<1> DEFINE r == next_frames(buf[d] \o f.plain)
<1> HIDE DEF r
<1>10. \/ /\ plain' = [plain EXCEPT ![d] = f.plain] /\ plain'[d] = f.plain /\ buf' = buf /\ got' = got
          /\ \A e \in Directions : e # d => plain'[e] = plain[e]
       \/ /\ plain' = plain /\ buf' = [buf EXCEPT ![d] = r.rest] /\ got' = [got EXCEPT ![d] = @ \o r.bodies]
          /\ buf'[d] = r.rest /\ got'[d] = got[d] \o r.bodies
          /\ \A e \in Directions : e # d => buf'[e] = buf[e] /\ got'[e] = got[e]
  <2>1. CASE d = "down" /\ tab
    <3>1. Received(d, f.plain) /\ plain' = plain
      BY <1>8, <2>1 DEF Opened
    <3> DEFINE units == f.plain
    <3>2. Received(d, units) /\ r = next_frames(buf[d] \o units) /\ RecordTypes
      BY <1>1, <3>1 DEF r
    <3> HIDE DEF units
    <3>3. /\ buf' = [buf EXCEPT ![d] = r.rest] /\ got' = [got EXCEPT ![d] = @ \o r.bodies]
          /\ buf'[d] = r.rest /\ got'[d] = got[d] \o r.bodies
          /\ \A e \in Directions : e # d => buf'[e] = buf[e] /\ got'[e] = got[e]
      <4>1. buf' = [buf EXCEPT ![d] = r.rest] /\ got' = [got EXCEPT ![d] = @ \o r.bodies]
        BY <3>2 DEF Received
      <4> QED BY <1>1, <4>1 DEF TunnelTypes
    <3> QED BY <3>1, <3>3
  <2>2. CASE ~(d = "down" /\ tab)
    <3>1. plain' = [plain EXCEPT ![d] = f.plain] /\ buf' = buf /\ got' = got
      BY <1>8, <2>2 DEF Opened
    <3> QED BY <1>1, <3>1 DEF TunnelTypes
  <2> QED BY <2>1, <2>2
<1>11. Onward /\ WriterKept(d) /\ tab' = tab /\ stage' = stage /\ host' = host /\ sealed' = sealed
  BY <1>3 DEF Onward, hs, client, carrier, writers, WriterKept
<1>12. Len(sent[d]) <= MaxFrames /\ InOrder(got[d])
  BY <1>1 DEF FlowOf
<1>13. ASSUME NEW c, FlowAt(d, c)
       PROVE  /\ FlowAt(d, c)' /\ InOrder(got'[d]) /\ wire'[d] \in Seq(Pieces) /\ partial'[d] \in Seq(Pieces)
              /\ got'[d] \in Seq(Frames) /\ buf'[d] \in Seq(Units) /\ plain'[d] \in Seq(Units)
  <2> DEFINE U == Upto(d, c)
             V == Upto(d, c)'
             a == f.n
             b == opened[d]
  <2>1. f.plain = Seg(Pre(d), c[b], c[a]) /\ a \in b .. sealed[d]
    BY <1>1, <1>6, <1>13, FeedAt
  <2>2. b \in Nat /\ sealed[d] \in Nat /\ a \in Nat /\ b <= a /\ Cuts(c, sealed[d])
    BY <1>1, <1>7, <1>13, DirectionTypes DEF FlowAt
  <2>3. Pre(d)' = Pre(d)
    BY <1>11 DEF Pre, Onward, Known
  <2>4. U = (IF b = 0 THEN Len(Pre(d)) ELSE c[b]) /\ V = IF a = 0 THEN Len(Pre(d)) ELSE c[a]
    BY <1>9, <2>3 DEF Upto
  <2>5. b = 0 => Len(Pre(d)) = 0
    <3>1. CASE d = "up"
      BY <3>1, Preludes
    <3>2. CASE d # "up"
      BY <1>2, <2>2, <3>2, Directed
    <3> QED BY <3>1, <3>2
  <2> DEFINE n == sealed[d]
  <2> HIDE DEF U, V, a, b, n
  <2>6. c[0] = 0 /\ c[a] \in Nat /\ c[b] \in Nat /\ c[b] <= c[a]
    <3>1. n \in Nat /\ b \in 0 .. n /\ a \in b .. n /\ Cuts(c, n)
      BY <2>1, <2>2 DEF n
    <3> QED BY <3>1, Rising
  <2>7. U = c[b] /\ V = c[a]
    <3>1. U = c[b]
      BY <2>4, <2>5, <2>6
    <3>2. a = 0 => b = 0
      BY <2>2
    <3>3. V = c[a]
      BY <2>4, <2>5, <2>6, <3>2
    <3> QED BY <3>1, <3>3
  <2>8. Upto(d, c)' \in Nat /\ Upto(d, c) <= Upto(d, c)' /\ f.plain = Seg(Pre(d), Upto(d, c), Upto(d, c)')
    <3>1. V \in Nat /\ U <= V /\ f.plain = Seg(Pre(d), U, V)
      BY <2>1, <2>6, <2>7
    <3> QED BY <3>1 DEF U, V
  <2> DEFINE units == f.plain
  <2>9. \/ plain'[d] = units /\ buf'[d] = buf[d] /\ got'[d] = got[d]
        \/ LET q == next_frames(buf[d] \o units)
           IN  plain'[d] = plain[d] /\ buf'[d] = q.rest /\ got'[d] = got[d] \o q.bodies
    BY <1>10 DEF r
  <2>10. units = Seg(Pre(d), Upto(d, c), Upto(d, c)')
    BY <2>8
  <2> HIDE DEF units
  <2>11. RecordTypes /\ Onward /\ WriterKept(d) /\ Len(sent[d]) <= MaxFrames /\ InOrder(got[d]) /\ plain[d] = <<>>
    BY <1>1, <1>11, <1>12
  <2>12. wire'[d] = After(wire[d], k) /\ opened'[d] = f.n /\ partial'[d] = f.partial
    BY <1>9
  <2>13. Upto(d, c)' \in Nat /\ Upto(d, c) <= Upto(d, c)'
    BY <2>8
  <2> QED BY <1>6, <1>13, <2>9, <2>10, <2>11, <2>12, <2>13, ReadAt
<1>14. /\ InOrder(got'[d]) /\ wire'[d] \in Seq(Pieces) /\ partial'[d] \in Seq(Pieces)
       /\ got'[d] \in Seq(Frames) /\ buf'[d] \in Seq(Units) /\ plain'[d] \in Seq(Units)
  BY <1>5, <1>13
<1>15. /\ wire' \in [Directions -> Seq(Pieces)] /\ opened' \in [Directions -> Nat] /\ partial' \in [Directions -> Seq(Pieces)]
  <2>1. wire' = [wire EXCEPT ![d] = wire'[d]] /\ opened' = [opened EXCEPT ![d] = f.n] /\ partial' = [partial EXCEPT ![d] = partial'[d]]
    BY <1>9
  <2> QED BY <1>1, <1>7, <1>14, <2>1 DEF TunnelTypes
<1>16. /\ plain' \in [Directions -> Seq(Units)] /\ buf' \in [Directions -> Seq(Units)] /\ got' \in [Directions -> Seq(Frames)]
  <2>1. plain \in [Directions -> Seq(Units)] /\ buf \in [Directions -> Seq(Units)] /\ got \in [Directions -> Seq(Frames)]
    BY <1>1 DEF TunnelTypes
  <2>2. CASE plain' = [plain EXCEPT ![d] = f.plain] /\ plain'[d] = f.plain /\ buf' = buf /\ got' = got
    <3>1. plain' = [plain EXCEPT ![d] = plain'[d]]
      BY <2>2
    <3> QED BY <1>14, <2>1, <2>2, <3>1
  <2>3. CASE /\ plain' = plain /\ buf' = [buf EXCEPT ![d] = r.rest] /\ got' = [got EXCEPT ![d] = @ \o r.bodies]
             /\ buf'[d] = r.rest /\ got'[d] = got[d] \o r.bodies
    <3>1. buf' = [buf EXCEPT ![d] = buf'[d]] /\ got' = [got EXCEPT ![d] = got'[d]]
      BY <2>3
    <3> QED BY <1>14, <2>1, <2>3, <3>1
  <2> QED BY <1>10, <2>2, <2>3
<1>17. fate' \in [Directions -> {"reads", "clean", "truncated", "broken", "forged"}]
  BY <1>1, <1>8 DEF TunnelTypes
<1>18. FateOf(d)'
  <2>1. Begun(d) => Begun(d)'
    BY <1>11 DEF Begun
  <2> QED BY <1>1, <1>2, <1>8, <1>11, <2>1, FateOfStays
<1>19. \A e \in Directions : e # d => /\ wire'[e] = wire[e] /\ fate'[e] = fate[e] /\ ReaderKept(e)
  BY <1>8, <1>9, <1>10 DEF ReaderKept
<1>20. opened[d] <= opened'[d]
  BY <1>7, <1>9
<1> QED BY <1>1, <1>3, <1>13, <1>14, <1>15, <1>16, <1>17, <1>18, <1>19, <1>20, ReaderKeeps

(* The end of the connection.                                              *)
LEMMA TakeFirst ==
  ASSUME NEW S, NEW u \in Seq(S), NEW v \in Seq(S), NEW k \in 0 .. Len(u)
  PROVE  Take(u, k) = Take(u \o v, k)
<1> DEFINE a == Take(u, k)
           all == u \o v
           b == Take(all, k)
<1>1. all \in Seq(S) /\ Len(all) = Len(u) + Len(v)
      /\ \A i \in 1 .. Len(u) + Len(v) : all[i] = IF i <= Len(u) THEN u[i] ELSE v[i - Len(u)]
  BY Joined
<1>2. a \in Seq(S) /\ Len(a) = k /\ \A i \in 1 .. k : a[i] = u[i]
  BY DEF Take
<1> HIDE DEF all
<1>3. b \in Seq(S) /\ Len(b) = k /\ \A i \in 1 .. k : b[i] = all[i]
  BY <1>1 DEF Take
<1>4. \A i \in 1 .. Len(b) : a[i] = b[i]
  <2> TAKE i \in 1 .. Len(b)
  <2>1. i \in 1 .. k /\ i \in 1 .. Len(u) + Len(v) /\ i <= Len(u)
    BY <1>3
  <2> QED BY <1>1, <1>2, <1>3, <2>1
<1> HIDE DEF a, b
<1>5. a = b
  BY <1>2, <1>3, <1>4, Same
<1> QED BY <1>5 DEF a, b, all

LEMMA Two ==
  ASSUME NEW S, NEW a \in S, NEW b \in S, NEW r, r = [up |-> a, down |-> b]
  PROVE  r \in [Directions -> S] /\ r["up"] = a /\ r["down"] = b
<1>1. r["up"] = a /\ r["down"] = b
  OBVIOUS
<1>2. r = [d \in Directions |-> IF d = "up" THEN a ELSE b]
  BY DEF Directions
<1>3. r \in [Directions -> S]
  BY <1>2 DEF Directions
<1> QED BY <1>1, <1>3

LEMMA Silent == ASSUME NEW d, OneWriter(d), NEW t \in Threads, t # 1 PROVE out[d][t] = <<>>
<1>1. doing[d][t] = "idle"
  BY DEF OneWriter
<1> QED BY <1>1 DEF OneWriter

LEMMA NotEnded == shut = {} /\ ~cut => \A e : ~Ended(e)
  BY DEF Ended

LEMMA TakeTyped ==
  ASSUME NEW u \in Seq(Pieces), NEW v \in Seq(Pieces), NEW k \in 0 .. Len(u \o v) PROVE Take(u \o v, k) \in Seq(Pieces)
<1> DEFINE all == u \o v
<1>1. all \in Seq(Pieces)
  BY Joined
<1> HIDE DEF all
<1>2. k \in 0 .. Len(all) => Take(all, k) \in Seq(Pieces)
  BY <1>1 DEF Take
<1> QED BY <1>2 DEF all

LEMMA CloseKeeps == ASSUME RecordInv, NEW d \in Directions, Close(d) PROVE RecordInv'
<1>1. RecordTypes /\ TunnelTypes /\ HandshakeTypes /\ FlowOf(d) /\ FateOf(d) /\ 1 \in Threads
  BY RecordAssumption DEF RecordInv, Flows, Fates, RecordTypes
<1>2. host = "up" /\ (d = "up" => stage = "Done") /\ ~cut /\ \A e : ~Ended(e)
  BY NotEnded DEF Close, Live, RecordInv, Turns
<1>3. shut' = shut \cup {d} /\ UNCHANGED <<hs, client, host, cut, writers, readers>>
  BY DEF Close
<1> DEFINE u == wire[d]
           v == out[d][1]
<1>4. u \in Seq(Pieces) /\ v \in Seq(Pieces)
  BY <1>1, DirectionTypes
<1>5. PICK k \in 0 .. Len(u \o v) : /\ k = Len(u) \/ (Len(u) <= k /\ k < Len(u \o v))
                                    /\ wire' = [wire EXCEPT ![d] = Take(u \o v, k)]
  <2>0. PICK t \in Threads : \E j \in {0} \cup 1 .. (Len(Unwritten(d, t)) - 1) : Push(d, Take(Unwritten(d, t), j))
    BY DEF Close
  <2>1. PICK j \in {0} \cup 1 .. (Len(Unwritten(d, t)) - 1) : Push(d, Take(Unwritten(d, t), j))
    BY <2>0
  <2>2. Unwritten(d, t) = out[d][t]
    BY <1>2 DEF Unwritten
  <2>3. Len(u \o v) = Len(u) + Len(v)
    BY <1>4, Joined
  <2> HIDE DEF u, v
  <2> DEFINE o == out[d][t]
  <2>4. /\ j = 0 \/ (j \in Nat /\ j < Len(o))
        /\ wire' = [wire EXCEPT ![d] = @ \o Take(o, j)]
    <3>1. o \in Seq(Pieces)
      BY <1>1 DEF TunnelTypes
    <3>2. j \in {0} \cup 1 .. (Len(o) - 1)
      BY <2>1, <2>2
    <3> HIDE DEF o
    <3>3. j = 0 \/ (j \in Nat /\ j < Len(o))
      BY <3>1, <3>2
    <3>4. wire' = [wire EXCEPT ![d] = @ \o Take(o, j)]
      BY <2>1, <2>2 DEF Push, o
    <3> QED BY <3>3, <3>4
  <2>5. CASE t = 1
    <3>1. o = v /\ j \in 0 .. Len(v)
      BY <1>4, <2>4, <2>5 DEF v
    <3> DEFINE k == Len(u) + j
    <3>2. k \in 0 .. Len(u \o v) /\ (k = Len(u) \/ (Len(u) <= k /\ k < Len(u \o v)))
      BY <1>4, <2>3, <2>4, <3>1
    <3>3. u \o Take(v, j) = Take(u \o v, k)
      BY <1>4, <3>1, TakeJoined
    <3> HIDE DEF k, o
    <3>4. wire' = [wire EXCEPT ![d] = Take(u \o v, k)]
      <4>1. wire' = [wire EXCEPT ![d] = wire[d] \o Take(o, j)]
        BY <2>4
      <4> QED BY <3>1, <3>3, <4>1 DEF u
    <3> QED BY <3>2, <3>4
  <2>6. CASE t # 1
    <3>0. OneWriter(d)
      BY <1>1 DEF FlowOf
    <3>1. o = <<>>
      BY <2>6, <3>0, Silent
    <3>2. j = 0
      BY <2>4, <3>1
    <3> DEFINE k == Len(u)
    <3>3. k \in 0 .. Len(u \o v) /\ k \in 0 .. Len(u)
      BY <1>4, <2>3
    <3>4. Take(u, k) = Take(u \o v, k)
      <4> HIDE DEF k
      <4> QED BY <1>4, <3>3, TakeFirst
    <3>5. u \o Take(<<>>, 0) = u /\ Take(u, k) = u
      BY <1>4 DEF Take
    <3>6. wire' = [wire EXCEPT ![d] = Take(u \o v, k)]
      <4>1. wire' = [wire EXCEPT ![d] = wire[d] \o Take(<<>>, 0)]
        BY <2>4, <3>1, <3>2
      <4> HIDE DEF k
      <4> QED BY <3>4, <3>5, <4>1 DEF u
    <3> QED BY <3>3, <3>6
  <2> QED BY <2>5, <2>6
<1> DEFINE w == Take(u \o v, k)
<1>6. w \in Seq(Pieces)
  BY <1>4, TakeTyped
<1> HIDE DEF u, v, w
<1>7. wire'[d] = w /\ (\A e \in Directions : e # d => wire'[e] = wire[e]) /\ wire' \in [Directions -> Seq(Pieces)]
  <2>1. wire' = [wire EXCEPT ![d] = w]
    BY <1>5 DEF w
  <2> QED BY <1>1, <1>6, <2>1 DEF TunnelTypes
<1>8. /\ UNCHANGED <<hs, client, host, cut>> /\ cut' = cut /\ sealed' = sealed /\ sent' = sent
      /\ out' = out /\ doing' = doing /\ done' = done
      /\ mode' = mode /\ agreed' = agreed /\ tab' = tab /\ stage' = stage /\ host' = host
      /\ opened' = opened /\ partial' = partial /\ plain' = plain /\ buf' = buf /\ got' = got /\ fate' = fate
  BY <1>3 DEF hs, client, writers, readers
<1>9. RecordTypes'
  <2>1. HandshakeTypes'
    BY <1>1, <1>8, HandshakeTyped
  <2>2. shut' \subseteq Directions
    BY <1>1, <1>3 DEF TunnelTypes
  <2>3. TunnelTypes'
    BY <1>1, <1>7, <1>8, <2>2 DEF TunnelTypes
  <2> QED BY <2>1, <2>3 DEF RecordTypes
<1>10. Onward /\ \A e \in Directions : Untouched(e) /\ WriterKept(e) /\ ReaderKept(e)
  BY <1>3, <1>8 DEF Onward, Untouched, WriterKept, ReaderKept
<1>11. Ended(d)'
  BY <1>3 DEF Ended
<1>12. ASSUME NEW c, FlowAt(d, c) PROVE FlowAt(d, c)'
  <2>1. wire'[d] = Take(wire[d] \o out[d][1], k) /\ k \in 0 .. Len(wire[d] \o out[d][1])
        /\ (cut' \/ k = Len(wire[d]) \/ (Len(wire[d]) <= k /\ k < Len(wire[d] \o out[d][1])))
    BY <1>5, <1>7 DEF u, v, w
  <2> QED BY <1>1, <1>2, <1>10, <1>11, <1>12, <2>1, LostAt
<1>13. FateOf(d)'
  <2>1. fate[d] # "clean"
    BY <1>1, <1>2 DEF FateOf
  <2>2. fate[d] # "reads" /\ Begun(d) => Begun(d)'
    BY <1>8 DEF Begun
  <2> QED BY <1>1, <1>8, <1>10, <2>1, <2>2, FateOfStays
<1>14. InOrder(sent'[d]) /\ InOrder(got'[d]) /\ Len(sent'[d]) <= MaxFrames /\ got'[d] = got[d] /\ OneWriter(d)'
  BY <1>1, <1>8, OneWriterStays DEF FlowOf
<1>15. opened[d] <= opened'[d] /\ opened'[d] = opened[d]
  <2>1. opened[d] \in Nat
    BY <1>1, DirectionTypes
  <2> QED BY <1>8, <2>1
<1>16. shut \subseteq shut' /\ (stage # "Done" => ("up" \in shut' => "up" \in shut))
  BY <1>2, <1>3
<1>17. \A e \in Directions : e # d => Untouched(e) /\ wire'[e] = wire[e] /\ fate'[e] = fate[e]
  BY <1>7, <1>8, <1>10
<1>18. sealed'[d] = sealed[d] /\ doing'[d][1] = doing[d][1]
  BY <1>8
<1> QED BY <1>2, <1>8, <1>9, <1>12, <1>13, <1>14, <1>15, <1>16, <1>17, <1>18, DirectionKeeps

(* What is under way may only grow shorter.                                *)
Shorter(d) == \E k \in 0 .. Len(wire[d]) : wire'[d] = Take(wire[d], k)

LEMMA CutAnswered ==
  ASSUME RecordTypes, Turns, Answered, Reported, UNCHANGED <<hs, client, host, shut, writers, readers>>, cut' = TRUE,
         host # "up" => Shorter("up") /\ Shorter("down")
  PROVE  Turns' /\ Answered' /\ Reported'
<1>1. /\ mode' = mode /\ tab' = tab /\ kind' = kind /\ agreed' = agreed
      /\ stage' = stage /\ heard' = heard /\ hsbuf' = hsbuf /\ failure' = failure /\ host' = host
      /\ shut' = shut /\ sealed' = sealed /\ opened' = opened /\ doing' = doing
  BY DEF hs, client, writers, readers
<1>2. wire \in [Directions -> Seq(Pieces)] /\ hsbuf \in Seq(Pieces) /\ stage \in
        {"AwaitPake", "AwaitPairReply", "AwaitKnownReply", "AwaitVerdict", "Over", "Done"}
  BY DEF RecordTypes, TunnelTypes, HandshakeTypes
<1>3. wire["up"] \in Seq(Pieces) /\ wire["down"] \in Seq(Pieces) /\ Len(hsbuf) \in Nat
  BY <1>2, Directed
<1>4. ASSUME NEW d \in Directions, Shorter(d)
      PROVE  /\ wire'[d] \in Seq(Pieces) /\ Len(wire'[d]) <= Len(wire[d])
             /\ \A i \in 1 .. Len(wire'[d]) : i \in 1 .. Len(wire[d]) /\ wire'[d][i] = wire[d][i]
  <2>1. PICK k \in 0 .. Len(wire[d]) : wire'[d] = Take(wire[d], k)
    BY <1>4 DEF Shorter
  <2> DEFINE w == wire[d]
  <2>2. w \in Seq(Pieces)
    BY <1>2
  <2> HIDE DEF w
  <2>3. wire'[d] = SubSeq(w, 1, k) /\ k \in 0 .. Len(w)
    BY <2>1 DEF w, Take
  <2>4. wire'[d] \in Seq(Pieces) /\ Len(wire'[d]) = k /\ \A i \in 1 .. k : i \in 1 .. Len(w) /\ wire'[d][i] = w[i]
    BY <2>2, <2>3
  <2>5. k <= Len(w)
    BY <2>2, <2>3
  <2> QED BY <2>4, <2>5 DEF w
<1>5. (Known' <=> Known) /\ (stage \in Hearing => host # "up")
  BY <1>1 DEF Known, Turns
<1>6. host # "up" => /\ Upward \in Nat /\ Upward' \in Nat /\ Upward' <= Upward
                     /\ Downward \in Nat /\ Downward' \in Nat /\ Downward' <= Downward
                     /\ Len(wire["down"]) \in Nat /\ (wire["down"] = <<>> => wire'["down"] = <<>>)
  <2> SUFFICES ASSUME host # "up"
               PROVE  /\ Upward \in Nat /\ Upward' \in Nat /\ Upward' <= Upward
                      /\ Downward \in Nat /\ Downward' \in Nat /\ Downward' <= Downward
                      /\ Len(wire["down"]) \in Nat /\ (wire["down"] = <<>> => wire'["down"] = <<>>)
    OBVIOUS
  <2>1. wire'["up"] \in Seq(Pieces) /\ Len(wire'["up"]) <= Len(wire["up"])
    BY <1>4, Directed
  <2>2. wire'["down"] \in Seq(Pieces) /\ Len(wire'["down"]) <= Len(wire["down"])
    BY <1>4, Directed
  <2> DEFINE a == wire["up"]
             b == wire["down"]
             x == wire'["up"]
             y == wire'["down"]
  <2> HIDE DEF a, b, x, y
  <2>3. Len(a) \in Nat /\ Len(b) \in Nat /\ Len(x) \in Nat /\ Len(y) \in Nat /\ Len(x) <= Len(a) /\ Len(y) <= Len(b)
    BY <1>3, <2>1, <2>2 DEF a, b, x, y
  <2>4. b = <<>> => y = <<>>
    <3>1. y \in Seq(Pieces)
      BY <2>2 DEF y
    <3> QED BY <2>3, <3>1
  <2>5. Upward = Len(a) /\ Upward' = Len(x) /\ Downward = Len(hsbuf) + Len(b) /\ Downward' = Len(hsbuf) + Len(y)
    BY <1>1 DEF Upward, Downward, a, b, x, y
  <2> QED BY <1>3, <2>3, <2>4, <2>5 DEF b, y
<1>7. host # "up" /\ Said => Said'
  <2> SUFFICES ASSUME host # "up", Said PROVE Said'
    OBVIOUS
  <2>1. \A i \in 1 .. Len(wire'["down"]) : i \in 1 .. Len(wire["down"]) /\ wire'["down"][i] = wire["down"][i]
    BY <1>4, Directed
  <2> QED BY <1>1, <2>1 DEF Said, Says
<1> HIDE DEF Upward, Downward, Known
<1>8. Turns'
  <2>1. stage \in Hearing => Downward' <= 2 /\ (Upward' = 0 \/ Downward' = 0)
    BY <1>5, <1>6 DEF Turns
  <2>2. host # "up" => Upward' <= 2
    BY <1>6 DEF Turns
  <2>3. stage = "AwaitVerdict" /\ sealed["down"] = 0 => wire'["down"] = <<>>
    BY <1>6 DEF Turns
  <2>4. sealed["down"] > 0 => host = IF Known' THEN "up" ELSE "gone"
    BY <1>5 DEF Turns
  <2> HIDE DEF Hearing, First
  <2> QED BY <1>1, <2>1, <2>2, <2>3, <2>4 DEF Turns
<1>9. Answered'
  <2>1. stage \in First /\ host = "opening" => Downward' = 0
    BY <1>6 DEF Answered
  <2>2. stage \in First /\ host \in {"proof", "key"} => Upward' = 0 /\ (host = IF mode = "pair" THEN "proof" ELSE "key")
    BY <1>6 DEF Answered
  <2>3. stage = "AwaitPairReply" => host \in {"proof", "key", "gone"}
    BY DEF Answered
  <2>4. stage = "AwaitPairReply" /\ host = "proof" => Downward' = 0
    BY <1>6 DEF Answered
  <2>5. stage = "AwaitPairReply" /\ host = "key" => Upward' = 0
    BY <1>6 DEF Answered
  <2>6. stage = "AwaitVerdict" => host \in {"key", "up", "gone"}
    BY DEF Answered
  <2>7. host = "key" /\ Upward' = 2 => stage \in {"AwaitVerdict", "Over"} /\ wire'["down"] = <<>>
    <3>1. host = "key" /\ Upward' = 2 => Upward = 2
      BY <1>6 DEF Turns
    <3> QED BY <1>6, <3>1 DEF Answered
  <2> HIDE DEF Hearing, First
  <2> QED BY <1>1, <2>1, <2>2, <2>3, <2>4, <2>5, <2>6, <2>7 DEF Answered
<1>10. Reported'
  <2>1. stage \in Hearing => Said'
    BY <1>5, <1>7 DEF Reported
  <2>2. stage' # "Over" => failure' = "none"
    BY <1>1 DEF Reported
  <2>3. ReasonFits'
    BY <1>1 DEF Reported, ReasonFits
  <2> HIDE DEF Hearing, First
  <2> QED BY <1>1, <2>1, <2>2, <2>3 DEF Reported
<1> QED BY <1>8, <1>9, <1>10

LEMMA CutKeeps == ASSUME RecordInv, Cut PROVE RecordInv'
<1>1. RecordTypes /\ TunnelTypes /\ HandshakeTypes /\ 1 \in Threads /\ Turns /\ Answered /\ Reported
      /\ \A d \in Directions : FlowOf(d) /\ FateOf(d)
  BY RecordAssumption DEF RecordInv, Flows, Fates, RecordTypes
<1>2. \A e : ~Ended(e)
  BY NotEnded DEF Cut
<1>3. cut' = TRUE /\ UNCHANGED <<hs, client, host, shut, writers, readers>>
  BY DEF Cut
<1> DEFINE Under(d, t) == wire[d] \o Unwritten(d, t)
<1>4. PICK t \in Threads : \E u \in 0 .. Len(Under("up", t)), v \in 0 .. Len(Under("down", t)) :
        wire' = [up |-> Take(Under("up", t), u), down |-> Take(Under("down", t), v)]
  BY DEF Cut
<1>5. PICK u \in 0 .. Len(Under("up", t)), v \in 0 .. Len(Under("down", t)) :
        wire' = [up |-> Take(Under("up", t), u), down |-> Take(Under("down", t), v)]
  BY <1>4
<1> DEFINE a == Take(Under("up", t), u)
           b == Take(Under("down", t), v)
           X(d) == IF d = "up" THEN u ELSE v
<1>6. ASSUME NEW d \in Directions
      PROVE  /\ Under(d, t) = wire[d] \o out[d][t] /\ Under(d, t) \in Seq(Pieces)
             /\ X(d) \in 0 .. Len(Under(d, t)) /\ Take(Under(d, t), X(d)) \in Seq(Pieces)
  <2>1. Under(d, t) = wire[d] \o out[d][t]
    BY <1>2 DEF Unwritten
  <2>2. wire[d] \in Seq(Pieces) /\ out[d][t] \in Seq(Pieces)
    BY <1>1 DEF TunnelTypes
  <2>3. X(d) \in 0 .. Len(Under(d, t))
    BY Directed
  <2> DEFINE w == wire[d]
             o == out[d][t]
             k == X(d)
  <2>4. Under(d, t) = w \o o /\ w \in Seq(Pieces) /\ o \in Seq(Pieces) /\ k \in 0 .. Len(w \o o)
    BY <2>1, <2>2, <2>3
  <2> HIDE DEF Under, X, w, o, k
  <2>5. w \o o \in Seq(Pieces) /\ Take(w \o o, k) \in Seq(Pieces)
    BY <2>4, Joined, TakeTyped
  <2> QED BY <2>1, <2>3, <2>4, <2>5 DEF k
<1>7. wire' = [up |-> a, down |-> b] /\ a = Take(Under("up", t), X("up")) /\ b = Take(Under("down", t), X("down"))
  BY <1>5
<1> HIDE DEF Under, X, a, b
<1>8. wire' \in [Directions -> Seq(Pieces)] /\ wire'["up"] = a /\ wire'["down"] = b
  <2>1. a \in Seq(Pieces) /\ b \in Seq(Pieces)
    BY <1>6, <1>7, Directed
  <2> QED BY <1>7, <2>1, Two
<1>9. ASSUME NEW d \in Directions
      PROVE  /\ \E k \in 0 .. Len(wire[d] \o out[d][1]) : wire'[d] = Take(wire[d] \o out[d][1], k)
             /\ host # "up" => Shorter(d)
  <2> DEFINE w == wire[d]
             o == out[d][1]
             s == out[d][t]
             x == X(d)
  <2>1. w \in Seq(Pieces) /\ o \in Seq(Pieces) /\ s \in Seq(Pieces)
    BY <1>1 DEF TunnelTypes
  <2>2. wire'[d] = Take(w \o s, x) /\ x \in 0 .. Len(w \o s)
    BY <1>6, <1>7, <1>8, Directed
  <2>0. OneWriter(d)
    BY <1>1 DEF FlowOf
  <2>3. t # 1 => s = <<>>
    BY <2>0, Silent
  <2>4. host # "up" => o = <<>>
    BY Writing
  <2>5. t = 1 => s = o
    OBVIOUS
  <2> HIDE DEF w, o, s, x
  <2>6. s = <<>> => x \in 0 .. Len(w) /\ wire'[d] = Take(w, x)
    <3> SUFFICES ASSUME s = <<>> PROVE x \in 0 .. Len(w) /\ wire'[d] = Take(w, x)
      OBVIOUS
    <3>1. w \o <<>> = w
      BY <2>1
    <3> QED BY <2>2, <3>1
  <2>7. s = <<>> => \E k \in 0 .. Len(w \o o) : wire'[d] = Take(w \o o, k)
    <3> SUFFICES ASSUME s = <<>> PROVE x \in 0 .. Len(w \o o) /\ wire'[d] = Take(w \o o, x)
      OBVIOUS
    <3>1. x \in 0 .. Len(w) /\ wire'[d] = Take(w, x)
      BY <2>6
    <3>2. Take(w, x) = Take(w \o o, x)
      BY <2>1, <3>1, TakeFirst
    <3>3. Len(w \o o) = Len(w) + Len(o)
      BY <2>1, Joined
    <3>4. x \in 0 .. Len(w \o o)
      BY <2>1, <3>1, <3>3
    <3> QED BY <3>1, <3>2, <3>4
  <2>8. \E k \in 0 .. Len(w \o o) : wire'[d] = Take(w \o o, k)
    <3>1. CASE t = 1
      BY <2>2, <2>5, <3>1
    <3>2. CASE t # 1
      BY <2>3, <2>7, <3>2
    <3> QED BY <3>1, <3>2
  <2>9. host # "up" => s = <<>>
    BY <2>3, <2>4, <2>5
  <2>10. host # "up" => Shorter(d)
    BY <2>6, <2>9 DEF Shorter, w
  <2> QED BY <2>8, <2>10 DEF w, o
<1>10. /\ sealed' = sealed /\ sent' = sent
       /\ out' = out /\ doing' = doing /\ done' = done /\ shut' = shut
       /\ mode' = mode /\ agreed' = agreed /\ tab' = tab /\ stage' = stage /\ host' = host
       /\ opened' = opened /\ partial' = partial /\ plain' = plain /\ buf' = buf /\ got' = got /\ fate' = fate
  BY <1>3 DEF hs, client, writers, readers
<1>11. RecordTypes'
  <2>1. HandshakeTypes'
    <3>1. /\ mode' = mode /\ tab' = tab /\ kind' = kind /\ agreed' = agreed
          /\ stage' = stage /\ heard' = heard /\ hsbuf' = hsbuf /\ failure' = failure /\ host' = host
      BY <1>3 DEF hs, client
    <3>2. tab' \in BOOLEAN /\ agreed' \in BOOLEAN /\ heard' \in BOOLEAN /\ cut' \in BOOLEAN
      <4>1. tab \in BOOLEAN /\ agreed \in BOOLEAN /\ heard \in BOOLEAN
        BY <1>1 DEF HandshakeTypes
      <4> QED BY <1>3, <3>1, <4>1, Zenon
    <3>3. /\ mode' = mode /\ kind' = kind /\ stage' = stage /\ hsbuf' = hsbuf /\ failure' = failure /\ host' = host
      BY <3>1
    <3> QED BY <1>1, <3>2, <3>3 DEF HandshakeTypes
  <2>2. TunnelTypes'
    BY <1>1, <1>8, <1>10 DEF TunnelTypes
  <2> QED BY <2>1, <2>2 DEF RecordTypes
<1>12. Onward /\ \A e \in Directions : Untouched(e) /\ WriterKept(e) /\ ReaderKept(e)
  BY <1>3, <1>10 DEF Onward, Untouched, WriterKept, ReaderKept
<1>13. ASSUME NEW d \in Directions PROVE FlowOf(d)' /\ FateOf(d)'
  <2>1. (Begun(d)' <=> Begun(d)) /\ (Deaf(d)' <=> Deaf(d))
    BY <1>10 DEF Begun, Deaf
  <2>2. Begun(d) /\ ~Deaf(d) => \E c : FlowAt(d, c)'
    <3> SUFFICES ASSUME Begun(d), ~Deaf(d) PROVE \E c : FlowAt(d, c)'
      OBVIOUS
    <3>1. PICK c : FlowAt(d, c)
      BY <1>1 DEF FlowOf, Flow, FlowAt
    <3>2. PICK k \in 0 .. Len(wire[d] \o out[d][1]) : wire'[d] = Take(wire[d] \o out[d][1], k)
      BY <1>9
    <3>3. Ended(d)' /\ cut'
      BY <1>3 DEF Ended
    <3>4. FlowAt(d, c)'
      BY <1>1, <1>2, <1>12, <3>1, <3>2, <3>3, LostAt
    <3> QED BY <3>4
  <2>3. Flow(d)'
    BY <1>1, <1>10, <2>1, <2>2 DEF FlowOf, Flow, FlowAt
  <2>4. FlowOf(d)'
    BY <1>1, <1>10, <2>3, OneWriterStays DEF FlowOf
  <2>5. fate[d] # "clean"
    BY <1>1, <1>2 DEF FateOf
  <2>6. FateOf(d)'
    BY <1>1, <1>10, <1>12, <2>1, <2>5, FateOfStays
  <2> QED BY <2>4, <2>6
<1>14. Turns' /\ Answered' /\ Reported'
  BY <1>1, <1>3, <1>9, CutAnswered, Directed
<1> QED BY <1>11, <1>13, <1>14 DEF RecordInv, Flows, Fates

-----------------------------------------------------------------------------
(* The handshake's steps.                                                  *)
LEMMA GotNothing ==
  ASSUME RecordInv, stage # "Done"
  PROVE  got["down"] = <<>> /\ (stage # "Over" => plain["down"] = <<>> /\ buf["down"] = <<>>)
<1>1. RecordTypes /\ FlowOf("down") /\ opened["down"] = 0
  BY Directed DEF RecordInv, Flows, Turns
<1>2. CASE ~Begun("down")
  BY <1>1, <1>2 DEF FlowOf, Flow
<1>3. CASE Deaf("down")
  BY <1>1, <1>3 DEF FlowOf, Flow, Deaf
<1>4. CASE Begun("down") /\ ~Deaf("down")
  <2> DEFINE d == "down"
  <2>1. PICK c : FlowAt(d, c)
    BY <1>1, <1>4 DEF FlowOf, Flow, FlowAt
  <2>2. d \in Directions /\ opened[d] = 0
    BY <1>1, Directed
  <2> HIDE DEF d
  <2> DEFINE l == Len(Pre(d))
             g == got[d]
             p == Pos(Len(g))
  <2>3. l + p <= l /\ buf[d] \o plain[d] = Seg(Pre(d), l + p, l)
    BY <2>1, <2>2 DEF FlowAt, Read
  <2>4. g \in Seq(Frames) /\ buf[d] \in Seq(Units) /\ plain[d] \in Seq(Units) /\ Pre(d) \in Seq(Units)
    BY <1>1, <2>2, DirectionTypes, Preludes
  <2>5. l \in Nat /\ Len(g) \in Nat
    BY <2>4
  <2>6. p \in Nat /\ Pos(0) = 0 /\ (Pos(Len(g)) <= Pos(0) => Len(g) <= 0)
    <3>1. 0 \in Nat
      OBVIOUS
    <3> QED BY <2>5, <3>1, PosFacts
  <2>7. p = 0 /\ Len(g) = 0
    <3> HIDE DEF l, g
    <3>1. p = 0
      BY <2>3, <2>5, <2>6
    <3> QED BY <2>5, <2>6, <3>1
  <2>8. g = <<>>
    <3> HIDE DEF g
    <3> QED BY <2>4, <2>7
  <2>9. l + p = l
    <3> HIDE DEF l, p
    <3> QED BY <2>5, <2>7
  <2>10. Seg(Pre(d), l, l) = <<>>
    <3> HIDE DEF l
    <3> QED BY <2>4, <2>5, SegFacts
  <2>11. buf[d] \o plain[d] = <<>>
    BY <2>3, <2>9, <2>10
  <2>12. plain[d] = <<>> /\ buf[d] = <<>>
    <3> DEFINE x == buf[d]
               y == plain[d]
    <3>1. x \in Seq(Units) /\ y \in Seq(Units) /\ x \o y = <<>>
      BY <2>4, <2>11
    <3> HIDE DEF x, y
    <3>2. Len(x \o y) = Len(x) + Len(y) /\ Len(x) \in Nat /\ Len(y) \in Nat
      BY <3>1
    <3>3. Len(x) = 0 /\ Len(y) = 0
      BY <3>1, <3>2
    <3>4. x = <<>> /\ y = <<>>
      BY <3>1, <3>3
    <3> QED BY <3>4 DEF x, y
  <2> QED BY <2>8, <2>12 DEF d
<1> QED BY <1>2, <1>3, <1>4

(* A step of the handshake that leaves both tunnels alone.                 *)
LEMMA HandshakeKeeps ==
  ASSUME RecordInv, RecordTypes', UNCHANGED <<hs, writers, readers>>, shut \subseteq shut', cut' = cut,
         Turns', Answered', Reported', host' = "up" <=> host = "up",
         stage = "Done" => stage' = "Done", stage = "Over" => stage' = "Over",
         host = "up" => wire'["up"] = wire["up"],
         Begun("down") /\ stage # "Over" => wire'["down"] = wire["down"]
  PROVE  RecordInv'
<1>1. RecordTypes /\ \A e \in Directions : FlowOf(e) /\ FateOf(e)
  BY DEF RecordInv, Flows, Fates
<1>2. /\ mode' = mode /\ agreed' = agreed /\ tab' = tab /\ sealed' = sealed /\ out' = out /\ doing' = doing /\ sent' = sent
      /\ done' = done /\ opened' = opened /\ partial' = partial /\ plain' = plain /\ buf' = buf /\ got' = got /\ fate' = fate
  BY DEF hs, writers, readers
<1>3. Onward /\ \A e \in Directions : Untouched(e) /\ WriterKept(e) /\ ReaderKept(e)
  BY <1>2 DEF Onward, Untouched, WriterKept, ReaderKept
<1>4. \A e \in Directions : Begun(e)' <=> Begun(e)
  BY <1>2 DEF Begun
<1>5. ASSUME NEW e \in Directions PROVE FlowOf(e)'
  <2>1. CASE Deaf(e)' <=> Deaf(e)
    <3>1. Begun(e) /\ ~Deaf(e) => wire'[e] = wire[e]
      <4>1. CASE e = "up"
        BY <4>1 DEF Begun
      <4>2. CASE e = "down"
        BY <4>2 DEF Deaf
      <4> QED BY <4>1, <4>2, Directed
    <3> QED BY <1>1, <1>3, <1>4, <2>1, <3>1, FlowOfStays
  <2>2. CASE ~(Deaf(e)' <=> Deaf(e))
    <3>1. e = "down" /\ Deaf(e)' /\ stage # "Done"
      BY <2>2 DEF Deaf
    <3>2. got'[e] = <<>>
      BY <1>2, <3>1, GotNothing
    <3>3. ~Begun(e)' => /\ sealed'[e] = 0 /\ opened'[e] = 0 /\ partial'[e] = <<>> /\ plain'[e] = <<>> /\ buf'[e] = <<>>
                        /\ doing'[e][1] = "idle" /\ out'[e][1] = <<>> /\ sent'[e] = <<>> /\ done'[e] = 0
      BY <1>1, <1>2, <1>4 DEF FlowOf, Flow
    <3>4. Flow(e)'
      BY <3>1, <3>2, <3>3 DEF Flow
    <3> QED BY <1>1, <1>2, <3>4, OneWriterStays DEF FlowOf
  <2> QED BY <2>1, <2>2
<1>6. ASSUME NEW e \in Directions PROVE FateOf(e)'
  <2>1. fate[e] = "clean" => wire'[e] = wire[e]
    <3>1. CASE e = "up"
      BY <1>1, <3>1 DEF FateOf, Begun
    <3>2. CASE e = "down"
      BY <1>1, <3>2 DEF FateOf
    <3> QED BY <3>1, <3>2, Directed
  <2> QED BY <1>1, <1>2, <1>3, <1>4, <2>1, FateOfStays
<1> QED BY <1>5, <1>6 DEF RecordInv, Flows, Fates

LEMMA HelloFacts ==
  ASSUME NEW says \in Words
  PROVE  /\ Hello(says) \in Seq(Pieces) /\ Len(Hello(says)) = 2 /\ Hello(says) # <<>>
         /\ \A i \in 1 .. 2 : Hello(says)[i].as = says
<1> DEFINE x == [as |-> says, n |-> 0, has |-> <<>>]
           h == [half \in 1 .. 2 |-> x]
<1>1. x \in Pieces /\ x.as = says
  <2>1. <<>> \in Seq(Units)
    OBVIOUS
  <2> QED BY <2>1 DEF Pieces
<1> HIDE DEF x
<1>2. h \in [1 .. 2 -> Pieces] /\ \A i \in 1 .. 2 : h[i] = x
  BY <1>1, Zenon
<1> HIDE DEF h
<1>3. 2 \in Nat
  OBVIOUS
<1>4. h \in Seq(Pieces) /\ Len(h) = 2
  BY <1>2, <1>3, Numbered
<1>5. h # <<>>
  BY <1>4
<1>6. \A i \in 1 .. 2 : h[i].as = says
  BY <1>1, <1>2
<1>7. h = Hello(says)
  BY DEF h, x, Hello
<1> QED BY <1>4, <1>5, <1>6, <1>7

(* The host takes a message, and answers.                                  *)
LEMMA Answers ==
  ASSUME RecordTypes, Turns, host \in {"opening", "proof", "key"}, NEW next, NEW answer \in Seq(Pieces),
         HostAnswers(next, answer)
  PROVE  /\ wire' \in [Directions -> Seq(Pieces)] /\ wire'["up"] = <<>> /\ wire'["down"] = wire["down"] \o answer
         /\ Upward = 2 /\ Upward' = 0 /\ Downward \in Nat /\ Downward' = Downward + Len(answer)
         /\ host' = (IF answer = <<>> THEN "gone" ELSE next)
         /\ UNCHANGED <<hs, client, carrier, readers>>
<1>1. /\ Len(wire["up"]) >= 2 /\ wire' = [up |-> After(wire["up"], 2), down |-> wire["down"] \o answer]
      /\ host' = (IF answer = <<>> THEN "gone" ELSE next) /\ UNCHANGED <<hs, client, carrier, readers>>
  BY DEF HostAnswers
<1> DEFINE u == wire["up"]
           v == wire["down"]
           b == v \o answer
<1>2. u \in Seq(Pieces) /\ v \in Seq(Pieces) /\ hsbuf \in Seq(Pieces)
  BY Directed DEF RecordTypes, TunnelTypes, HandshakeTypes
<1>3. Len(u) <= 2 /\ Len(u) >= 2
  BY <1>1 DEF Turns, Upward
<1> HIDE DEF u, v
<1>4. After(u, 2) = <<>> /\ Len(u) = 2
  <2>1. Len(u) \in Nat
    BY <1>2
  <2>2. \A n \in Nat : n <= 2 /\ n >= 2 => n = 2
    OBVIOUS
  <2>3. Len(u) = 2
    BY <1>3, <2>1, <2>2
  <2> QED BY <1>2, <2>3 DEF After
<1>5. b \in Seq(Pieces) /\ Len(b) = Len(v) + Len(answer)
  BY <1>2, Joined
<1> HIDE DEF b
<1>6. wire' = [up |-> <<>>, down |-> b]
  BY <1>1, <1>4 DEF u, v, b
<1>7. <<>> \in Seq(Pieces) /\ Len(<<>>) = 0
  OBVIOUS
<1>8. wire' \in [Directions -> Seq(Pieces)] /\ wire'["up"] = <<>> /\ wire'["down"] = b
  BY <1>5, <1>6, <1>7, Two
<1>9. hsbuf' = hsbuf
  BY <1>1 DEF client
<1>10. Downward' = Len(hsbuf) + (Len(v) + Len(answer)) /\ Downward = Len(hsbuf) + Len(v)
  BY <1>5, <1>8, <1>9 DEF Downward, v
<1>11. Downward \in Nat /\ Downward' = Downward + Len(answer)
  BY <1>2, <1>10
<1>12. Upward = 2 /\ Upward' = 0
  BY <1>4, <1>7, <1>8 DEF Upward, u
<1> QED BY <1>1, <1>8, <1>11, <1>12 DEF v, b

LEMMA AnswerTypes ==
  ASSUME RecordTypes, wire' \in [Directions -> Seq(Pieces)], host' \in {"opening", "proof", "key", "up", "gone"},
         UNCHANGED <<hs, client, carrier, writers, readers>>
  PROVE  RecordTypes'
<1>1. /\ mode' = mode /\ tab' = tab /\ kind' = kind /\ agreed' = agreed
      /\ stage' = stage /\ heard' = heard /\ hsbuf' = hsbuf /\ failure' = failure /\ cut' = cut
      /\ shut' = shut /\ sealed' = sealed /\ sent' = sent /\ out' = out /\ doing' = doing /\ done' = done
      /\ opened' = opened /\ partial' = partial /\ plain' = plain /\ buf' = buf /\ got' = got /\ fate' = fate
  BY DEF hs, client, carrier, writers, readers
<1>2. HandshakeTypes /\ TunnelTypes
  BY DEF RecordTypes
<1>3. tab' \in BOOLEAN /\ agreed' \in BOOLEAN /\ heard' \in BOOLEAN /\ cut' \in BOOLEAN
  <2>1. tab \in BOOLEAN /\ agreed \in BOOLEAN /\ heard \in BOOLEAN /\ cut \in BOOLEAN
    BY <1>2 DEF HandshakeTypes
  <2> QED BY <1>1, <2>1, Zenon
<1>4. mode' = mode /\ kind' = kind /\ stage' = stage /\ hsbuf' = hsbuf /\ failure' = failure
  BY <1>1
<1>5. HandshakeTypes'
  BY <1>2, <1>3, <1>4 DEF HandshakeTypes
<1>6. TunnelTypes'
  BY <1>1, <1>2 DEF TunnelTypes
<1> QED BY <1>5, <1>6 DEF RecordTypes

LEMMA HostOpeningKeeps == ASSUME RecordInv, HostOpening PROVE RecordInv'
<1>1. RecordTypes /\ Turns /\ Answered /\ Reported /\ host = "opening" /\ UNCHANGED writers
  BY DEF RecordInv, HostOpening
<1>2. Words = {"opening", "proof", "go", "reply", "locked", "newer", "record"}
  BY DEF Words
<1>3. PICK next \in {"gone", "proof", "key"}, answer \in Seq(Pieces) :
        /\ HostAnswers(next, answer)
        /\ \/ answer = <<>> /\ kind = "older"
           \/ answer = Hello("locked") /\ kind = "locked" /\ next = "gone"
           \/ answer = Hello("newer") /\ kind = "newer" /\ next = "gone"
           \/ answer = Hello("go") /\ next = (IF mode = "pair" THEN "proof" ELSE "key")
  <2>1. <<>> \in Seq(Pieces) /\ Hello("locked") \in Seq(Pieces) /\ Hello("newer") \in Seq(Pieces) /\ Hello("go") \in Seq(Pieces)
    BY <1>2, HelloFacts
  <2>2. CASE kind = "older"
    BY <2>1, <2>2 DEF HostOpening
  <2>3. CASE kind = "locked"
    BY <2>1, <2>3 DEF HostOpening
  <2>4. CASE kind = "newer"
    BY <2>1, <2>4 DEF HostOpening
  <2>5. CASE kind \notin {"older", "locked", "newer"}
    <3> DEFINE x == IF mode = "pair" THEN "proof" ELSE "key"
    <3>1. HostAnswers(x, Hello("go")) /\ x \in {"gone", "proof", "key"}
      BY <2>5 DEF HostOpening
    <3> QED BY <2>1, <3>1
  <2> QED BY <2>2, <2>3, <2>4, <2>5
<1>4. /\ wire' \in [Directions -> Seq(Pieces)] /\ wire'["up"] = <<>> /\ wire'["down"] = wire["down"] \o answer
      /\ Upward = 2 /\ Upward' = 0 /\ Downward \in Nat /\ Downward' = Downward + Len(answer)
      /\ host' = (IF answer = <<>> THEN "gone" ELSE next)
      /\ UNCHANGED <<hs, client, carrier, readers>>
  <2>1. host \in {"opening", "proof", "key"}
    BY <1>1
  <2> QED BY <1>1, <1>3, <2>1, Answers
<1>5. /\ mode' = mode /\ tab' = tab /\ kind' = kind /\ agreed' = agreed
      /\ stage' = stage /\ heard' = heard /\ hsbuf' = hsbuf /\ failure' = failure /\ cut' = cut /\ shut' = shut
      /\ sealed' = sealed /\ doing' = doing /\ opened' = opened
  BY <1>1, <1>4 DEF hs, client, carrier, writers, readers
<1>6. host' \in {"gone", "proof", "key"}
  BY <1>3, <1>4
<1>7. stage \in First \cup {"Over"} /\ sealed["down"] = 0 /\ "down" \notin shut
  BY <1>1 DEF Turns, Answered, RecordTypes, HandshakeTypes, First
<1>8. /\ answer = <<>> => Len(answer) = 0 /\ kind = "older" /\ host' = "gone"
      /\ answer # <<>> => Len(answer) = 2
      /\ host' \in {"proof", "key"} => answer # <<>> /\ host' = (IF mode = "pair" THEN "proof" ELSE "key")
      /\ host' = "gone" /\ answer # <<>> => \A i \in 1 .. 2 : Refuses(answer[i])
      /\ \A i \in 1 .. Len(answer) : Says(answer[i])
  <2>1. \A s \in {"locked", "newer", "go"} : Hello(s) # <<>> /\ Len(Hello(s)) = 2 /\ \A i \in 1 .. 2 : Hello(s)[i].as = s
    BY <1>2, HelloFacts
  <2>2. CASE answer = <<>> /\ kind = "older"
    BY <1>4, <2>2
  <2>3. CASE \E s \in {"locked", "newer"} : answer = Hello(s) /\ kind = s /\ next = "gone"
    BY <1>4, <2>1, <2>3 DEF Refuses, Says
  <2>4. CASE answer = Hello("go") /\ next = (IF mode = "pair" THEN "proof" ELSE "key")
    BY <1>4, <2>1, <2>4 DEF Refuses, Says
  <2> QED BY <1>3, <2>2, <2>3, <2>4
<1>9. stage \in First => /\ Downward = 0 /\ hsbuf = <<>> /\ wire'["down"] = answer /\ Downward' = Len(answer)
  <2> SUFFICES ASSUME stage \in First PROVE Downward = 0 /\ hsbuf = <<>> /\ wire'["down"] = answer /\ Downward' = Len(answer)
    OBVIOUS
  <2>1. Downward = 0
    BY <1>1 DEF Answered
  <2> DEFINE w == wire["down"]
  <2>2. w \in Seq(Pieces) /\ hsbuf \in Seq(Pieces) /\ Len(hsbuf) + Len(w) = 0
    BY <1>1, <2>1, Directed DEF RecordTypes, TunnelTypes, HandshakeTypes, Downward
  <2> HIDE DEF w
  <2>3. Len(w) = 0 /\ Len(hsbuf) = 0
    BY <2>2
  <2>4. w = <<>> /\ hsbuf = <<>>
    BY <2>2, <2>3
  <2>5. <<>> \o answer = answer /\ 0 + Len(answer) = Len(answer)
    BY <1>3
  <2> QED BY <1>4, <2>1, <2>4, <2>5 DEF w
<1>10. (stage \in First => Said') /\ (stage \in First /\ host' = "gone" /\ answer # <<>> => Refused')
  <2>1. stage \in First => hsbuf' = <<>> /\ wire'["down"] = answer
    BY <1>5, <1>9
  <2>2. stage \in First => Said'
    BY <1>5, <1>8, <2>1 DEF Said, Says
  <2>3. stage \in First /\ host' = "gone" /\ answer # <<>> => Refused'
    BY <1>8, <2>1 DEF Refused, Refuses
  <2> QED BY <2>2, <2>3
<1>11. Len(answer) \in {0, 2}
  BY <1>8
<1> HIDE DEF Upward, Downward
<1>12. Turns'
  <2>1. stage \in Hearing => Downward' <= 2 /\ (Upward' = 0 \/ Downward' = 0)
    <3>1. CASE Len(answer) = 0
      BY <1>4, <1>7, <1>9, <3>1 DEF Hearing, First
    <3>2. CASE Len(answer) = 2
      BY <1>4, <1>7, <1>9, <3>2 DEF Hearing, First
    <3> QED BY <1>11, <3>1, <3>2
  <2>2. (Known' <=> Known) /\ hsbuf' = hsbuf
    BY <1>5 DEF Known
  <2>3. stage \notin {"AwaitPairReply", "AwaitVerdict", "Done"}
    BY <1>7 DEF First
  <2> QED BY <1>1, <1>4, <1>5, <1>6, <1>7, <2>1, <2>2, <2>3 DEF Turns
<1>13. Answered'
  <2>1. stage' \notin {"AwaitPairReply", "AwaitVerdict"} /\ stage' = stage /\ host' # "opening" /\ Upward' = 0
    BY <1>4, <1>5, <1>6, <1>7 DEF First
  <2>2. stage \in First /\ host' \in {"proof", "key"} => Downward' = 2 /\ host' = (IF mode' = "pair" THEN "proof" ELSE "key")
    BY <1>5, <1>8, <1>9
  <2>3. stage \in First /\ host' = "gone" => (Downward' = 2 /\ Refused') \/ (Downward' = 0 /\ kind' = "older")
    BY <1>5, <1>8, <1>9, <1>10
  <2> HIDE DEF First
  <2> QED BY <2>1, <2>2, <2>3 DEF Answered
<1>14. Reported'
  <2>1. stage' \in Hearing => Said'
    BY <1>5, <1>7, <1>10 DEF Hearing, First
  <2> QED BY <1>1, <1>5, <2>1 DEF Reported, ReasonFits
<1>15. RecordTypes'
  BY <1>1, <1>4, <1>6, AnswerTypes
<1>16. ~Begun("down") /\ host # "up" /\ host' # "up"
  BY <1>1, <1>6, <1>7 DEF Begun
<1>17. UNCHANGED <<hs, writers, readers>>
  BY <1>1, <1>4
<1> QED BY <1>5, <1>12, <1>13, <1>14, <1>15, <1>16, <1>17, HandshakeKeeps

LEMMA HostProofKeeps == ASSUME RecordInv, HostProof PROVE RecordInv'
<1>1. RecordTypes /\ Turns /\ Answered /\ Reported /\ host = "proof" /\ UNCHANGED writers
  BY DEF RecordInv, HostProof
<1> DEFINE answer == IF agreed THEN Hello("reply") ELSE <<>>
<1>2. HostAnswers("key", answer)
  BY DEF HostProof
<1>3. /\ answer \in Seq(Pieces) /\ Len(answer) \in {0, 2}
      /\ (agreed => answer # <<>> /\ Len(answer) = 2) /\ (~agreed => answer = <<>> /\ Len(answer) = 0)
      /\ \A i \in 1 .. Len(answer) : Says(answer[i])
  <2>1. "reply" \in Words /\ <<>> \in Seq(Pieces) /\ Len(<<>>) = 0
    BY DEF Words
  <2>2. Hello("reply") \in Seq(Pieces) /\ Len(Hello("reply")) = 2 /\ Hello("reply") # <<>>
        /\ \A i \in 1 .. 2 : Hello("reply")[i].as = "reply"
    BY <2>1, HelloFacts
  <2>3. CASE agreed
    <3>1. answer = Hello("reply")
      BY <2>3
    <3> HIDE DEF answer
    <3> QED BY <2>2, <2>3, <3>1 DEF Says
  <2>4. CASE ~agreed
    <3>1. answer = <<>>
      BY <2>4
    <3> HIDE DEF answer
    <3> QED BY <2>1, <2>4, <3>1
  <2> QED BY <2>3, <2>4
<1> HIDE DEF answer
<1>4. /\ wire' \in [Directions -> Seq(Pieces)] /\ wire'["up"] = <<>> /\ wire'["down"] = wire["down"] \o answer
      /\ Upward = 2 /\ Upward' = 0 /\ Downward \in Nat /\ Downward' = Downward + Len(answer)
      /\ host' = (IF answer = <<>> THEN "gone" ELSE "key")
      /\ UNCHANGED <<hs, client, carrier, readers>>
  <2>1. host \in {"opening", "proof", "key"} /\ answer \in Seq(Pieces)
    BY <1>1, <1>3
  <2> QED BY <1>1, <1>2, <2>1, Answers
<1>5. /\ mode' = mode /\ tab' = tab /\ kind' = kind /\ agreed' = agreed
      /\ stage' = stage /\ heard' = heard /\ hsbuf' = hsbuf /\ failure' = failure /\ cut' = cut /\ shut' = shut
      /\ sealed' = sealed /\ doing' = doing /\ opened' = opened
  BY <1>1, <1>4 DEF hs, client, carrier, writers, readers
<1>6. host' \in {"gone", "key"} /\ (host' = "key" <=> agreed)
  BY <1>3, <1>4
<1> HIDE DEF Upward, Downward
<1>7. stage \in {"AwaitPairReply", "Over"} /\ sealed["down"] = 0 /\ "down" \notin shut
  BY <1>1, <1>4 DEF Turns, Answered, RecordTypes, HandshakeTypes, First
<1>9. stage = "AwaitPairReply" => /\ Downward = 0 /\ hsbuf = <<>> /\ wire'["down"] = answer /\ Downward' = Len(answer)
  <2> SUFFICES ASSUME stage = "AwaitPairReply"
               PROVE Downward = 0 /\ hsbuf = <<>> /\ wire'["down"] = answer /\ Downward' = Len(answer)
    OBVIOUS
  <2>1. Downward = 0
    BY <1>1 DEF Answered
  <2> DEFINE w == wire["down"]
  <2>2. w \in Seq(Pieces) /\ hsbuf \in Seq(Pieces) /\ Len(hsbuf) + Len(w) = 0
    BY <1>1, <2>1, Directed DEF RecordTypes, TunnelTypes, HandshakeTypes, Downward
  <2> HIDE DEF w
  <2>3. Len(w) = 0 /\ Len(hsbuf) = 0
    BY <2>2
  <2>4. w = <<>> /\ hsbuf = <<>>
    BY <2>2, <2>3
  <2>5. <<>> \o answer = answer /\ 0 + Len(answer) = Len(answer)
    BY <1>3
  <2> QED BY <1>4, <2>1, <2>4, <2>5 DEF w
<1>10. stage = "AwaitPairReply" => Said'
  <2>1. stage = "AwaitPairReply" => hsbuf' = <<>> /\ wire'["down"] = answer
    BY <1>5, <1>9
  <2> QED BY <1>3, <1>5, <2>1 DEF Said, Says
<1>12. Turns'
  <2>1. stage \in Hearing => Downward' <= 2 /\ (Upward' = 0 \/ Downward' = 0)
    <3>1. CASE Len(answer) = 0
      BY <1>4, <1>7, <1>9, <3>1 DEF Hearing, First
    <3>2. CASE Len(answer) = 2
      BY <1>4, <1>7, <1>9, <3>2 DEF Hearing, First
    <3> QED BY <1>3, <3>1, <3>2
  <2>2. (Known' <=> Known) /\ hsbuf' = hsbuf
    BY <1>5 DEF Known
  <2>3. stage \notin First \cup {"AwaitVerdict", "Done"}
    BY <1>7 DEF First
  <2> QED BY <1>1, <1>4, <1>5, <1>6, <1>7, <2>1, <2>2, <2>3 DEF Turns
<1>13. Answered'
  <2>1. stage' \notin First \cup {"AwaitVerdict"} /\ stage' = stage /\ Upward' = 0
    BY <1>4, <1>5, <1>6, <1>7 DEF First
  <2>2. stage = "AwaitPairReply" /\ host' = "key" => Downward' = 2
    BY <1>3, <1>6, <1>9
  <2>3. stage = "AwaitPairReply" /\ host' = "gone" => ~agreed' /\ Downward' = 0
    BY <1>3, <1>5, <1>6, <1>9
  <2> HIDE DEF First
  <2> QED BY <1>6, <2>1, <2>2, <2>3 DEF Answered
<1>14. Reported'
  <2>1. stage' \in Hearing => Said'
    BY <1>5, <1>7, <1>10 DEF Hearing, First
  <2> QED BY <1>1, <1>5, <2>1 DEF Reported, ReasonFits
<1>15. RecordTypes'
  BY <1>1, <1>4, <1>6, AnswerTypes
<1>16. ~Begun("down") /\ host # "up" /\ host' # "up"
  BY <1>1, <1>6, <1>7 DEF Begun
<1>17. UNCHANGED <<hs, writers, readers>>
  BY <1>1, <1>4
<1> QED BY <1>5, <1>12, <1>13, <1>14, <1>15, <1>16, <1>17, HandshakeKeeps

LEMMA HostGivesUpKeeps == ASSUME RecordInv, HostGivesUp PROVE RecordInv'
<1>1. RecordTypes /\ Turns /\ Answered /\ Reported /\ host \in {"opening", "proof", "key"} /\ Len(wire["up"]) < 2
      /\ (cut \/ "up" \in shut) /\ host' = "gone" /\ UNCHANGED <<hs, client, wire, carrier, writers, readers>>
  BY DEF RecordInv, HostGivesUp
<1>2. /\ mode' = mode /\ tab' = tab /\ kind' = kind /\ agreed' = agreed
      /\ stage' = stage /\ heard' = heard /\ hsbuf' = hsbuf /\ failure' = failure /\ cut' = cut /\ shut' = shut
      /\ sealed' = sealed /\ doing' = doing /\ opened' = opened /\ wire' = wire
  BY <1>1 DEF hs, client, carrier, writers, readers
<1>3. wire' \in [Directions -> Seq(Pieces)]
  BY <1>1, <1>2 DEF RecordTypes, TunnelTypes
<1>4. RecordTypes'
  BY <1>1, <1>3, AnswerTypes
<1>5. (Known' <=> Known) /\ (Said' <=> Said) /\ Upward' = Upward /\ Downward' = Downward
  BY <1>2 DEF Known, Said, Says, Upward, Downward
<1>6. cut \/ stage \in {"Over", "Done"}
  BY <1>1 DEF Turns
<1>7. stage # "Done" /\ sealed["down"] = 0
  BY <1>1 DEF Turns
<1> HIDE DEF Upward, Downward
<1>8. Turns'
  BY <1>1, <1>2, <1>5, <1>7 DEF Turns
<1>9. Answered'
  <2>1. stage = "Over" \/ cut'
    BY <1>2, <1>6, <1>7
  <2>2. stage \notin {"Over"} => cut'
    BY <2>1
  <2> QED BY <1>1, <1>2, <2>1 DEF Answered, First
<1>10. Reported'
  BY <1>1, <1>2, <1>5 DEF Reported, ReasonFits
<1>11. host # "up" /\ host' # "up"
  BY <1>1
<1> QED BY <1>1, <1>2, <1>4, <1>8, <1>9, <1>10, <1>11, HandshakeKeeps

LEMMA HostGoneKeeps == ASSUME RecordInv, HostGone PROVE RecordInv'
<1>1. RecordTypes /\ Turns /\ Answered /\ Reported /\ host = "gone" /\ shut' = shut \cup {"down"}
      /\ UNCHANGED <<hs, client, host, wire, cut, writers, readers>>
  BY DEF RecordInv, HostGone
<1>2. /\ mode' = mode /\ tab' = tab /\ kind' = kind /\ agreed' = agreed /\ host' = host
      /\ stage' = stage /\ heard' = heard /\ hsbuf' = hsbuf /\ failure' = failure /\ cut' = cut
      /\ sealed' = sealed /\ doing' = doing /\ opened' = opened /\ wire' = wire
  BY <1>1 DEF hs, client, writers, readers
<1>4. RecordTypes'
  <2>1. HandshakeTypes'
    BY <1>1, HandshakeTyped DEF RecordTypes
  <2>2. shut' \subseteq Directions
    BY <1>1, Directed DEF RecordTypes, TunnelTypes
  <2>3. TunnelTypes'
    BY <1>1, <1>2, <2>2 DEF RecordTypes, TunnelTypes, writers, readers
  <2> QED BY <2>1, <2>3 DEF RecordTypes
<1>5. (Known' <=> Known) /\ (Said' <=> Said) /\ (Refused' <=> Refused) /\ Upward' = Upward /\ Downward' = Downward
  BY <1>2 DEF Known, Said, Says, Refused, Refuses, Upward, Downward
<1> HIDE DEF Upward, Downward
<1>8. Turns'
  BY <1>1, <1>2, <1>5 DEF Turns
<1>9. Answered'
  BY <1>1, <1>2, <1>5 DEF Answered
<1>10. Reported'
  BY <1>1, <1>2, <1>5 DEF Reported, ReasonFits
<1>11. host # "up" /\ host' # "up" /\ shut \subseteq shut'
  BY <1>1
<1> QED BY <1>1, <1>2, <1>4, <1>8, <1>9, <1>10, <1>11, HandshakeKeeps

(* The tunnel's first record is the verdict.                               *)
LEMMA VerdictRecord ==
  ASSUME NEW ok \in BOOLEAN, NEW c, c[0] = 0, c[1] = 1
  PROVE  /\ Record(0, verdict(ok)) \in Seq(Pieces) /\ Len(Record(0, verdict(ok))) = 2 /\ Record(0, verdict(ok)) # <<>>
         /\ Follow(verdict(ok), c, 0, Record(0, verdict(ok)))
<1> DEFINE v == verdict(ok)
           x == [as |-> "record", n |-> 0, has |-> v]
           r == [half \in 1 .. 2 |-> x]
<1>1. v \in Seq(Units) /\ Len(v) = 1
  BY Preludes
<1>2. r = Record(0, v)
  BY DEF Record
<1> HIDE DEF v
<1>3. x \in Pieces
  BY <1>1 DEF Pieces, Words
<1>4. \A i \in 1 .. 2 : PieceAt(v, c, 0 + i) = x
  <2>1. Seg(v, c[0], c[1]) = v
    <3> DEFINE s == Seg(v, 0, 1)
    <3>1. 0 \in Nat /\ 1 \in Nat /\ 0 <= 1
      OBVIOUS
    <3>2. s \in Seq(Units) /\ Len(s) = 1 - 0 /\ \A u \in 1 .. 1 - 0 : s[u] = Stream(v, 0 + u)
      BY <1>1, <3>1, SegFacts, ZenonT(30)
    <3>3. Stream(v, 0 + 1) = v[1]
      BY <1>1 DEF Stream
    <3> HIDE DEF s
    <3>4. Len(s) = 1 /\ s[1] = v[1]
      BY <3>2, <3>3
    <3>5. s = v
      BY <1>1, <3>2, <3>4
    <3> QED BY <3>5 DEF s
  <2>2. \A i \in 1 .. 2 : (0 + i - 1) \div 2 = 0
    OBVIOUS
  <2>3. ASSUME NEW i \in 1 .. 2 PROVE PieceAt(v, c, 0 + i) = x
    <3>1. (0 + i - 1) \div 2 = 0 /\ 0 + 1 = 1
      BY <2>2
    <3> QED BY <2>1, <3>1 DEF PieceAt
  <2> QED BY <2>3
<1> HIDE DEF x
<1>5. r \in [1 .. 2 -> Pieces] /\ \A i \in 1 .. 2 : r[i] = x
  BY <1>3, Zenon
<1> HIDE DEF r
<1>6. 2 \in Nat
  OBVIOUS
<1>7. r \in Seq(Pieces) /\ Len(r) = 2
  BY <1>5, <1>6, Numbered
<1>8. r # <<>>
  BY <1>7
<1>9. Follow(v, c, 0, r)
  BY <1>4, <1>5, <1>7 DEF Follow
<1> QED BY <1>2, <1>7, <1>8, <1>9 DEF v

LEMMA HostVerdictKeeps == ASSUME RecordInv, HostVerdict PROVE RecordInv'
<1>1. RecordTypes /\ Turns /\ Answered /\ Reported /\ host = "key" /\ HandshakeTypes /\ TunnelTypes
      /\ \A e \in Directions : FlowOf(e) /\ FateOf(e)
  BY DEF RecordInv, HostVerdict, RecordTypes, Flows, Fates
<1> DEFINE answer == Record(0, verdict(Known))
           c == [i \in 0 .. 1 |-> i]
<1>2. HostAnswers(IF Known THEN "up" ELSE "gone", answer) /\ sealed' = [sealed EXCEPT !["down"] = 1]
      /\ UNCHANGED <<out, doing, sent, done>>
  BY DEF HostVerdict, Known
<1>3. Known \in BOOLEAN /\ c[0] = 0 /\ c[1] = 1
  BY <1>1 DEF Known, HandshakeTypes
<1>4. answer \in Seq(Pieces) /\ Len(answer) = 2 /\ answer # <<>> /\ Follow(verdict(Known), c, 0, answer)
  <2> HIDE DEF c
  <2> QED BY <1>3, VerdictRecord
<1> HIDE DEF answer
<1>5. /\ wire' \in [Directions -> Seq(Pieces)] /\ wire'["up"] = <<>> /\ wire'["down"] = wire["down"] \o answer
      /\ Upward = 2 /\ Upward' = 0 /\ Downward \in Nat /\ Downward' = Downward + Len(answer)
      /\ host' = (IF answer = <<>> THEN "gone" ELSE IF Known THEN "up" ELSE "gone")
      /\ UNCHANGED <<hs, client, carrier, readers>>
  <2> DEFINE nx == IF Known THEN "up" ELSE "gone"
  <2>1. host \in {"opening", "proof", "key"} /\ HostAnswers(nx, answer)
    BY <1>1, <1>2
  <2> HIDE DEF nx
  <2>2. /\ wire' \in [Directions -> Seq(Pieces)] /\ wire'["up"] = <<>> /\ wire'["down"] = wire["down"] \o answer
        /\ Upward = 2 /\ Upward' = 0 /\ Downward \in Nat /\ Downward' = Downward + Len(answer)
        /\ host' = (IF answer = <<>> THEN "gone" ELSE nx)
        /\ UNCHANGED <<hs, client, carrier, readers>>
    BY <1>1, <1>4, <2>1, Answers
  <2> QED BY <2>2 DEF nx
<1>6. /\ mode' = mode /\ tab' = tab /\ kind' = kind /\ agreed' = agreed
      /\ stage' = stage /\ heard' = heard /\ hsbuf' = hsbuf /\ failure' = failure /\ cut' = cut /\ shut' = shut
      /\ out' = out /\ doing' = doing /\ sent' = sent /\ done' = done
      /\ opened' = opened /\ partial' = partial /\ plain' = plain /\ buf' = buf /\ got' = got /\ fate' = fate
  BY <1>2, <1>5 DEF hs, client, carrier, writers, readers
<1> HIDE DEF Upward, Downward
<1>7. stage \in {"AwaitVerdict", "Over"} /\ wire["down"] = <<>> /\ sealed["down"] = 0 /\ sealed["up"] = 0 /\ opened["down"] = 0
      /\ doing["up"][1] = "idle" /\ doing["down"][1] = "idle" /\ "down" \notin shut
  BY <1>1, <1>5 DEF Turns, Answered
<1>8. wire'["down"] = answer /\ host' = (IF Known THEN "up" ELSE "gone") /\ (Known' <=> Known)
  <2>1. <<>> \o answer = answer
    BY <1>4
  <2> QED BY <1>4, <1>5, <1>6, <1>7, <2>1 DEF Known
<1>9. sealed' \in [Directions -> Nat] /\ sealed'["down"] = 1 /\ sealed'["up"] = 0
  <2>1. sealed \in [Directions -> Nat]
    BY <1>1 DEF TunnelTypes
  <2> QED BY <1>2, <1>7, <2>1, Directed
<1>10. RecordTypes'
  <2>1. tab' \in BOOLEAN /\ agreed' \in BOOLEAN /\ heard' \in BOOLEAN /\ cut' \in BOOLEAN
    <3>1. tab \in BOOLEAN /\ agreed \in BOOLEAN /\ heard \in BOOLEAN /\ cut \in BOOLEAN
      BY <1>1 DEF HandshakeTypes
    <3> QED BY <1>6, <3>1, Zenon
  <2>2. mode' = mode /\ kind' = kind /\ stage' = stage /\ hsbuf' = hsbuf /\ failure' = failure /\ host' \in {"up", "gone"}
    BY <1>6, <1>8
  <2>3. HandshakeTypes'
    BY <1>1, <2>1, <2>2 DEF HandshakeTypes
  <2>4. TunnelTypes'
    BY <1>1, <1>5, <1>6, <1>9 DEF TunnelTypes
  <2> QED BY <2>3, <2>4 DEF RecordTypes
<1>11. ~Begun("down") /\ ~Begun("up")
  BY <1>1, <1>7 DEF Begun
<1>12. \A e \in Directions :
         /\ opened[e] = 0 /\ partial[e] = <<>> /\ plain[e] = <<>> /\ buf[e] = <<>> /\ got[e] = <<>>
         /\ doing[e][1] = "idle" /\ out[e][1] = <<>> /\ sent[e] = <<>> /\ done[e] = 0 /\ sealed[e] = 0
  BY <1>1, <1>11, Directed DEF FlowOf, Flow
<1>13. Flow("down")'
  <2> DEFINE d == "down"
  <2>1. CASE stage = "Over"
    <3>1. got'[d] = <<>> /\ Deaf(d)' /\ Begun(d)'
      BY <1>6, <1>9, <1>12, <2>1, Directed DEF Deaf, Begun
    <3> QED BY <3>1 DEF Flow
  <2>2. CASE stage = "AwaitVerdict"
    <3>1. Pre(d)' = verdict(Known)
      BY <1>8 DEF Pre
    <3>2. Len(verdict(Known)) = 1 /\ verdict(Known) \in Seq(Units)
      BY <1>3, Preludes
    <3>3. /\ sealed'[d] = 1 /\ opened'[d] = 0 /\ partial'[d] = <<>> /\ plain'[d] = <<>> /\ buf'[d] = <<>> /\ got'[d] = <<>>
          /\ doing'[d][1] = "idle" /\ out'[d][1] = <<>> /\ sent'[d] = <<>> /\ done'[d] = 0
      BY <1>6, <1>9, <1>12, Directed
    <3>4. Cuts(c, 1) /\ 1 \in Nat
      BY DEF Cuts
    <3>5. c[1] = Len(Pre(d)') /\ (1 = 0 => Len(Pre(d)') = 0) /\ Len(wire'[d]) = 2 * 1
      BY <1>3, <1>4, <1>8, <3>1, <3>2
    <3>6. Follow(Pre(d)', c, 0, wire'[d]) /\ Pre(d)' \in Seq(Units)
      BY <1>4, <1>8, <3>1, <3>2
    <3>7. d \in Directions
      BY Directed
    <3> HIDE DEF c, d
    <3>8. FlowAt(d, c)'
      BY <3>3, <3>4, <3>5, <3>6, <3>7, StartAt
    <3>9. \E b : FlowAt(d, b)'
      BY <3>8
    <3>10. got'[d] = <<>> /\ Begun(d)'
      BY <1>9, <3>3 DEF Begun, d
    <3> QED BY <3>9, <3>10 DEF Flow, FlowAt, d
  <2> QED BY <1>7, <2>1, <2>2
<1>14. Flow("up")'
  <2> DEFINE d == "up"
  <2>1. /\ sealed'[d] = 0 /\ opened'[d] = 0 /\ partial'[d] = <<>> /\ plain'[d] = <<>> /\ buf'[d] = <<>> /\ got'[d] = <<>>
        /\ doing'[d][1] = "idle" /\ out'[d][1] = <<>> /\ sent'[d] = <<>> /\ done'[d] = 0
    BY <1>6, <1>9, <1>12, Directed
  <2>2. CASE ~Known
    <3>1. ~Begun(d)'
      BY <1>8, <2>2 DEF Begun
    <3> QED BY <2>1, <3>1 DEF Flow
  <2>3. CASE Known
    <3> DEFINE z == [i \in 0 .. 0 |-> 0]
    <3>1. Pre(d)' = <<>> /\ <<>> \in Seq(Units) /\ Len(<<>>) = 0
      BY DEF Pre
    <3>2. Cuts(z, 0) /\ 0 \in Nat /\ z[0] = 0
      BY DEF Cuts
    <3>3. z[0] = Len(Pre(d)') /\ (0 = 0 => Len(Pre(d)') = 0) /\ Len(wire'[d]) = 2 * 0
      BY <1>5, <3>1, <3>2
    <3> HIDE DEF z
    <3>4. Follow(Pre(d)', z, 0, wire'[d]) /\ Pre(d)' \in Seq(Units)
      <4>1. Len(wire'[d]) = 0 /\ 1 .. 0 = {}
        BY <1>5
      <4>2. Follow(Pre(d)', z, 0, wire'[d])
        BY <4>1 DEF Follow
      <4> QED BY <3>1, <4>2
    <3>5. d \in Directions
      BY Directed
    <3> HIDE DEF d
    <3>6. FlowAt(d, z)'
      BY <2>1, <3>2, <3>3, <3>4, <3>5, StartAt
    <3>7. \E b : FlowAt(d, b)'
      BY <3>6
    <3>8. got'[d] = <<>> /\ Begun(d)'
      BY <1>8, <2>1, <2>3 DEF Begun, d
    <3> QED BY <3>7, <3>8 DEF Flow, FlowAt, d
  <2> QED BY <2>2, <2>3
<1>15. ASSUME NEW e \in Directions PROVE FlowOf(e)' /\ FateOf(e)'
  <2>1. Flow(e)'
    BY <1>13, <1>14, Directed
  <2>2. OneWriter(e)'
    BY <1>1, <1>6, OneWriterStays DEF FlowOf
  <2>3. FlowOf(e)'
    BY <1>1, <1>6, <2>1, <2>2 DEF FlowOf, InOrder
  <2>4. fate[e] = "reads"
    BY <1>1, <1>11, Directed DEF FateOf
  <2>5. FateOf(e)'
    BY <1>6, <2>4 DEF FateOf
  <2> QED BY <2>3, <2>5
<1>16. Turns'
  BY <1>1, <1>5, <1>6, <1>7, <1>8, <1>9 DEF Turns, Hearing, First
<1>17. Answered'
  <2>1. stage' \in {"AwaitVerdict", "Over"} /\ host' \in {"up", "gone"} /\ sealed'["down"] = 1
    BY <1>6, <1>7, <1>8, <1>9
  <2> QED BY <2>1 DEF Answered, First
<1>18. Reported'
  <2>1. stage' \notin Hearing
    BY <1>6, <1>7 DEF Hearing, First
  <2> QED BY <1>1, <1>6, <2>1 DEF Reported, ReasonFits
<1> QED BY <1>10, <1>15, <1>16, <1>17, <1>18 DEF RecordInv, Flows, Fates

(* What a read of the handshake makes of the pieces that came.             *)
Gathers(h, w, k, all, rest) ==
  /\ all \in Seq(Pieces) /\ Len(all) = Len(h) + k /\ rest \in Seq(Pieces) /\ Len(rest) = Len(w) - k
  /\ (\A i \in 1 .. Len(all) : Says(all[i])) /\ (\A i \in 1 .. Len(rest) : Says(rest[i]))
  /\ ((\A i \in 1 .. Len(h) : Refuses(h[i])) /\ (\A i \in 1 .. Len(w) : Refuses(w[i]))
        => (\A i \in 1 .. Len(all) : Refuses(all[i])) /\ (\A i \in 1 .. Len(rest) : Refuses(rest[i])))
  /\ Len(all) < 2 => Len(all) = 1 /\ all # <<>>
  /\ Len(all) >= 2 => Len(all) = 2 /\ Len(h) + Len(w) = 2 /\ rest = <<>> /\ After(all, 2) = <<>>

LEMMA Gathered ==
  ASSUME NEW h \in Seq(Pieces), NEW w \in Seq(Pieces), NEW k \in 1 .. Len(w), Len(h) <= 1, Len(h) + Len(w) <= 2,
         \A i \in 1 .. Len(h) : Says(h[i]), \A i \in 1 .. Len(w) : Says(w[i]),
         NEW all, all = h \o Take(w, k), NEW rest, rest = After(w, k)
  PROVE  Gathers(h, w, k, all, rest)
<1> DEFINE t == Take(w, k)
<1>1. t \in Seq(Pieces) /\ Len(t) = k /\ \A i \in 1 .. k : t[i] = w[i]
  BY DEF Take
<1>2. rest \in Seq(Pieces) /\ Len(rest) = Len(w) - k /\ \A i \in 1 .. Len(w) - k : rest[i] = w[k + i]
  BY DEF After
<1> HIDE DEF t
<1>3. all \in Seq(Pieces) /\ Len(all) = Len(h) + k
      /\ \A i \in 1 .. Len(h) + k : all[i] = IF i <= Len(h) THEN h[i] ELSE t[i - Len(h)]
  <2>1. all = h \o t
    BY DEF t
  <2> QED BY <1>1, <2>1, Joined
<1>4. Len(h) \in Nat /\ Len(w) \in Nat /\ k \in Nat /\ k >= 1 /\ k <= Len(w)
  OBVIOUS
<1>5. \A i \in 1 .. Len(all) : (\E j \in 1 .. Len(h) : all[i] = h[j]) \/ (\E j \in 1 .. Len(w) : all[i] = w[j])
  <2> SUFFICES ASSUME NEW i \in 1 .. Len(all)
               PROVE (\E j \in 1 .. Len(h) : all[i] = h[j]) \/ (\E j \in 1 .. Len(w) : all[i] = w[j])
    OBVIOUS
  <2>1. CASE i <= Len(h)
    BY <1>3, <1>4, <2>1
  <2>2. CASE ~(i <= Len(h))
    <3>1. i - Len(h) \in 1 .. k /\ i - Len(h) \in 1 .. Len(w)
      BY <1>3, <1>4, <2>2
    <3>2. all[i] = w[i - Len(h)]
      BY <1>1, <1>3, <2>2, <3>1
    <3> QED BY <3>1, <3>2
  <2> QED BY <2>1, <2>2
<1>6. \A i \in 1 .. Len(rest) : \E j \in 1 .. Len(w) : rest[i] = w[j]
  <2> SUFFICES ASSUME NEW i \in 1 .. Len(rest) PROVE \E j \in 1 .. Len(w) : rest[i] = w[j]
    OBVIOUS
  <2>1. k + i \in 1 .. Len(w) /\ rest[i] = w[k + i]
    BY <1>2, <1>4
  <2> QED BY <2>1
<1>7. (\A i \in 1 .. Len(all) : Says(all[i])) /\ (\A i \in 1 .. Len(rest) : Says(rest[i]))
  <2>1. \A i \in 1 .. Len(all) : Says(all[i])
    BY <1>5
  <2>2. \A i \in 1 .. Len(rest) : Says(rest[i])
    BY <1>6
  <2> QED BY <2>1, <2>2
<1>8. (\A i \in 1 .. Len(h) : Refuses(h[i])) /\ (\A i \in 1 .. Len(w) : Refuses(w[i]))
               => (\A i \in 1 .. Len(all) : Refuses(all[i])) /\ (\A i \in 1 .. Len(rest) : Refuses(rest[i]))
  <2> SUFFICES ASSUME \A i \in 1 .. Len(h) : Refuses(h[i]), \A i \in 1 .. Len(w) : Refuses(w[i])
               PROVE (\A i \in 1 .. Len(all) : Refuses(all[i])) /\ (\A i \in 1 .. Len(rest) : Refuses(rest[i]))
    OBVIOUS
  <2>1. \A i \in 1 .. Len(all) : Refuses(all[i])
    BY <1>5
  <2>2. \A i \in 1 .. Len(rest) : Refuses(rest[i])
    BY <1>6
  <2> QED BY <2>1, <2>2
<1>9. Len(all) < 2 => Len(all) = 1 /\ all # <<>>
  <2>1. Len(all) < 2 => Len(all) = 1
    BY <1>3, <1>4
  <2>2. Len(<<>>) = 0
    OBVIOUS
  <2> QED BY <2>1, <2>2
<1>10. ASSUME Len(all) >= 2 PROVE Len(all) = 2 /\ Len(h) + Len(w) = 2 /\ rest = <<>> /\ After(all, 2) = <<>>
  <2>1. Len(all) = 2 /\ Len(h) + Len(w) = 2 /\ Len(rest) = 0
    <3>1. Len(h) + k >= 2 /\ k <= Len(w) /\ Len(h) + Len(w) <= 2
      BY <1>3, <1>4, <1>10
    <3>2. Len(h) + k = 2 /\ Len(h) + Len(w) = 2 /\ Len(w) - k = 0
      BY <1>4, <3>1
    <3> QED BY <1>2, <1>3, <3>2
  <2>2. rest = <<>>
    BY <1>2, <2>1
  <2>3. After(all, 2) = <<>>
    BY <1>3, <2>1 DEF After
  <2> QED BY <2>1, <2>2, <2>3
<1> QED BY <1>2, <1>3, <1>7, <1>8, <1>9, <1>10 DEF Gathers

LEMMA FeedHandshakeKeeps == ASSUME RecordInv, FeedHandshake PROVE RecordInv'
<1>1. RecordTypes /\ HandshakeTypes /\ TunnelTypes /\ Turns /\ Answered /\ Reported /\ stage \in Hearing
      /\ UNCHANGED <<hs, host, cut, writers, readers>> /\ heard' = TRUE
  BY DEF RecordInv, RecordTypes, FeedHandshake, Hearing, First
<1> DEFINE w == wire["down"]
           u == wire["up"]
           all(k) == hsbuf \o Take(w, k)
           whole(k) == Len(all(k)) >= 2
           why(k) == IF ~whole(k) THEN "none"
                     ELSE IF Refusal(all(k)[1].as) # "none" THEN Refusal(all(k)[1].as)
                     ELSE IF stage = "AwaitKnownReply" /\ kind = "stranger" THEN "unknown-host" ELSE "none"
<1>2. PICK k \in 1 .. Len(w) :
         /\ wire' = [down |-> After(w, k), up |-> u \o IF whole(k) /\ why(k) = "none" THEN Hello("proof") ELSE <<>>]
         /\ IF ~whole(k) THEN Waits(all(k))
            ELSE IF why(k) # "none" THEN FailsWith(why(k))
            ELSE Replies(IF stage = "AwaitPake" THEN "AwaitPairReply" ELSE "AwaitVerdict", all(k))
  BY DEF FeedHandshake
<1> DEFINE a == all(k)
           b == After(w, k)
           y == why(k)
           x == u \o IF whole(k) /\ y = "none" THEN Hello("proof") ELSE <<>>
<1>3. /\ mode' = mode /\ tab' = tab /\ kind' = kind /\ agreed' = agreed /\ host' = host /\ cut' = cut
      /\ sealed' = sealed /\ out' = out /\ doing' = doing /\ sent' = sent /\ done' = done
      /\ opened' = opened /\ partial' = partial /\ plain' = plain /\ buf' = buf /\ got' = got /\ fate' = fate
  BY <1>1 DEF hs, writers, readers
<1>4. w \in Seq(Pieces) /\ u \in Seq(Pieces) /\ hsbuf \in Seq(Pieces)
  BY <1>1, Directed DEF TunnelTypes, HandshakeTypes
<1>5. Len(hsbuf) <= 1 /\ Len(hsbuf) + Len(w) <= 2 /\ Len(u) = 0 /\ sealed["down"] = 0 /\ host # "up" /\ Downward # 0
      /\ stage \notin {"AwaitVerdict", "Over", "Done"} /\ u = <<>> /\ Upward = 0 /\ Downward \in Nat
  <2>1. Len(hsbuf) + Len(w) # 0 /\ Len(hsbuf) + Len(w) \in Nat
    BY <1>4
  <2>2. Len(hsbuf) + Len(w) # 0 => Len(u) = 0
    BY <1>1 DEF Turns, Upward, Downward
  <2>3. u = <<>> /\ Len(u) = 0
    BY <1>4, <2>1, <2>2
  <2>4. Downward # 0 /\ Upward = 0 /\ Downward \in Nat
    BY <2>1, <2>3 DEF Downward, Upward
  <2>5. Len(hsbuf) <= 1 /\ Len(hsbuf) + Len(w) <= 2 /\ sealed["down"] = 0 /\ host # "up"
      /\ stage \notin {"AwaitVerdict", "Over", "Done"}
    BY <1>1 DEF Turns, Downward, Hearing, First
  <2> QED BY <2>3, <2>4, <2>5
<1>6. (\A i \in 1 .. Len(hsbuf) : Says(hsbuf[i])) /\ (\A i \in 1 .. Len(w) : Says(w[i]))
  BY <1>1 DEF Reported, Said
<1>7. wire' = [up |-> x, down |-> b] /\ a = hsbuf \o Take(w, k) /\ b = After(w, k)
  BY <1>2
<1>8. y = IF ~(Len(a) >= 2) THEN "none" ELSE IF Refusal(a[1].as) # "none" THEN Refusal(a[1].as)
          ELSE IF stage = "AwaitKnownReply" /\ kind = "stranger" THEN "unknown-host" ELSE "none"
  OBVIOUS
<1>9. /\ ~(Len(a) >= 2) => Waits(a)
      /\ Len(a) >= 2 /\ y # "none" => FailsWith(y)
      /\ Len(a) >= 2 /\ y = "none" => Replies(IF stage = "AwaitPake" THEN "AwaitPairReply" ELSE "AwaitVerdict", a)
  BY <1>2
<1>10. x = IF Len(a) >= 2 /\ y = "none" THEN Hello("proof") ELSE <<>>
  <2>1. \A z \in Seq(Pieces) : <<>> \o z = z
    OBVIOUS
  <2>2. Hello("proof") \in Seq(Pieces) /\ <<>> \in Seq(Pieces)
    <3>1. "proof" \in Words
      BY DEF Words
    <3> QED BY <3>1, HelloFacts
  <2>3. x = <<>> \o IF Len(a) >= 2 /\ y = "none" THEN Hello("proof") ELSE <<>>
    BY <1>5
  <2>4. CASE Len(a) >= 2 /\ y = "none"
    <3>1. x = <<>> \o Hello("proof")
      BY <2>3, <2>4
    <3> HIDE DEF x, a, y
    <3>2. x = Hello("proof")
      BY <2>1, <2>2, <3>1
    <3> QED BY <2>4, <3>2
  <2>5. CASE ~(Len(a) >= 2 /\ y = "none")
    <3>1. x = <<>> \o <<>>
      BY <2>3, <2>5
    <3> HIDE DEF x, a, y
    <3>2. x = <<>>
      BY <2>1, <2>2, <3>1
    <3> QED BY <2>5, <3>2
  <2> QED BY <2>4, <2>5
<1> HIDE DEF a, b, x, y, w, u, all, whole, why
<1>11. /\ a \in Seq(Pieces) /\ Len(a) = Len(hsbuf) + k /\ b \in Seq(Pieces) /\ Len(b) = Len(w) - k
       /\ (\A i \in 1 .. Len(a) : Says(a[i])) /\ (\A i \in 1 .. Len(b) : Says(b[i]))
       /\ ((\A i \in 1 .. Len(hsbuf) : Refuses(hsbuf[i])) /\ (\A i \in 1 .. Len(w) : Refuses(w[i]))
             => (\A i \in 1 .. Len(a) : Refuses(a[i])) /\ (\A i \in 1 .. Len(b) : Refuses(b[i])))
       /\ (Len(a) < 2 => Len(a) = 1 /\ a # <<>>)
       /\ (Len(a) >= 2 => Len(a) = 2 /\ Len(hsbuf) + Len(w) = 2 /\ b = <<>> /\ After(a, 2) = <<>>)
  <2>1. Len(hsbuf) <= 1 /\ Len(hsbuf) + Len(w) <= 2
    BY <1>5
  <2>2. Gathers(hsbuf, w, k, a, b)
    BY <1>4, <1>6, <1>7, <2>1, Gathered
  <2> QED BY <2>2 DEF Gathers
<1>12. x \in Seq(Pieces) /\ Len(x) = IF Len(a) >= 2 /\ y = "none" THEN 2 ELSE 0
  <2>1. "proof" \in Words /\ <<>> \in Seq(Pieces) /\ Len(<<>>) = 0
    BY DEF Words
  <2>2. Hello("proof") \in Seq(Pieces) /\ Len(Hello("proof")) = 2
    BY <2>1, HelloFacts
  <2>3. CASE Len(a) >= 2 /\ y = "none"
    BY <1>10, <2>2, <2>3
  <2>4. CASE ~(Len(a) >= 2 /\ y = "none")
    BY <1>10, <2>1, <2>4
  <2> QED BY <2>3, <2>4
<1>13. wire' \in [Directions -> Seq(Pieces)] /\ wire'["up"] = x /\ wire'["down"] = b
  BY <1>7, <1>11, <1>12, Two
<1>14. /\ y = "host-locked" => kind = "locked"
       /\ y = "unsupported" => kind = "newer"
       /\ y = "unknown-host" => mode = "known" /\ kind = "stranger"
       /\ y \in {"none", "host-locked", "unsupported", "unknown-host"}
       /\ Len(a) >= 2 /\ y = "none" => ~Refuses(a[1])
  <2>1. stage = "AwaitKnownReply" => mode = "known"
    BY <1>1 DEF Turns, First, HandshakeTypes
  <2>2. Len(a) >= 2 => Says(a[1])
    BY <1>11
  <2> QED BY <1>8, <2>1, <2>2 DEF Says, Refuses, Refusal
<1> HIDE DEF Upward, Downward
<1>15. Upward' = Len(x) /\ Downward' = Len(hsbuf') + Len(b) /\ Downward = Len(hsbuf) + Len(w)
  BY <1>13 DEF Upward, Downward, w
<1>16. (Known' <=> Known) /\ host' = host /\ sealed'["down"] = 0 /\ cut' = cut
  BY <1>3, <1>5 DEF Known
<1>17. stage' \in {"AwaitPake", "AwaitPairReply", "AwaitKnownReply", "AwaitVerdict", "Over"} /\ hsbuf' \in Seq(Pieces)
       /\ failure' \in {"none", "host-locked", "unsupported", "unknown-host"} /\ shut' \subseteq Directions
       /\ shut \subseteq shut' /\ ("down" \in shut' => "down" \in shut)
  <2>1. stage \in {"AwaitPake", "AwaitPairReply", "AwaitKnownReply"} /\ failure = "none" /\ shut \subseteq Directions
    BY <1>1, <1>5 DEF Hearing, First, Reported, TunnelTypes
  <2>2. CASE ~(Len(a) >= 2)
    BY <1>9, <1>11, <2>1, <2>2 DEF Waits
  <2>3. CASE Len(a) >= 2 /\ y # "none"
    <3>1. stage' = "Over" /\ failure' = y /\ shut' = shut \cup {"up"} /\ hsbuf' = <<>>
      BY <1>9, <2>3 DEF FailsWith
    <3>2. <<>> \in Seq(Pieces)
      OBVIOUS
    <3> QED BY <1>14, <2>1, <3>1, <3>2, Directed
  <2>4. CASE Len(a) >= 2 /\ y = "none"
    <3>1. <<>> \in Seq(Pieces)
      OBVIOUS
    <3> QED BY <1>9, <1>11, <2>1, <2>4, <3>1 DEF Replies
  <2> QED BY <2>2, <2>3, <2>4
<1>18. RecordTypes'
  <2>1. tab' \in BOOLEAN /\ agreed' \in BOOLEAN /\ cut' \in BOOLEAN
    <3>1. tab \in BOOLEAN /\ agreed \in BOOLEAN /\ cut \in BOOLEAN
      BY <1>1 DEF HandshakeTypes
    <3> QED BY <1>3, <3>1, Zenon
  <2>2. heard' \in BOOLEAN /\ mode' = mode /\ kind' = kind /\ host' = host
    BY <1>1, <1>3
  <2>3. HandshakeTypes'
    BY <1>1, <1>17, <2>1, <2>2 DEF HandshakeTypes
  <2>4. TunnelTypes'
    BY <1>1, <1>3, <1>13, <1>17 DEF TunnelTypes
  <2> QED BY <2>3, <2>4 DEF RecordTypes
<1>19. Turns' /\ Answered' /\ Reported'
  <2>1. CASE ~(Len(a) >= 2)
    <3>1. stage' = stage /\ failure' = failure /\ shut' = shut /\ hsbuf' = a /\ Len(a) = 1 /\ a # <<>> /\ y = "none" /\ Len(x) = 0
      BY <1>8, <1>9, <1>11, <1>12, <2>1 DEF Waits
    <3>2. Upward' = 0 /\ Downward' = Downward
      BY <1>4, <1>11, <1>15, <3>1
    <3>3. Said' /\ (Refused => Refused')
      <4>1. /\ \A i \in 1 .. Len(a) : (a[i].as = "locked" => kind = "locked") /\ (a[i].as = "newer" => kind = "newer")
            /\ \A i \in 1 .. Len(b) : (b[i].as = "locked" => kind = "locked") /\ (b[i].as = "newer" => kind = "newer")
        BY <1>11 DEF Says
      <4>2. hsbuf' = a /\ wire'["down"] = b /\ kind' = kind
        BY <1>3, <1>13, <3>1
      <4>4. Said'
        BY <4>1, <4>2 DEF Said, Says
      <4>3. Refused => Refused'
        BY <1>11, <1>13, <3>1 DEF Refused, w, Refuses
      <4> QED BY <4>3, <4>4
    <3>4. Turns'
      BY <1>1, <1>3, <1>5, <1>16, <3>1, <3>2 DEF Turns
    <3>5. Answered'
      BY <1>1, <1>3, <1>5, <3>1, <3>2, <3>3 DEF Answered
    <3>6. Reported'
      BY <1>1, <1>3, <3>1, <3>3 DEF Reported, ReasonFits
    <3> QED BY <3>4, <3>5, <3>6
  <2>2. CASE Len(a) >= 2 /\ y # "none"
    <3>1. stage' = "Over" /\ failure' = y /\ shut' = shut \cup {"up"} /\ hsbuf' = <<>> /\ Len(x) = 0 /\ Len(hsbuf') = 0
      BY <1>9, <1>12, <2>2 DEF FailsWith
    <3>2. Upward' = 0
      BY <1>15, <3>1
    <3>3. Turns'
      BY <1>1, <1>3, <1>5, <1>16, <3>1, <3>2 DEF Turns, Hearing, First
    <3>4. Answered'
      BY <3>1, <3>2 DEF Answered, First
    <3>5. Reported'
      BY <1>1, <1>3, <1>14, <3>1 DEF Reported, ReasonFits, Hearing, First
    <3> QED BY <3>3, <3>4, <3>5
  <2>3. CASE Len(a) >= 2 /\ y = "none"
    <3>1. /\ stage' = (IF stage = "AwaitPake" THEN "AwaitPairReply" ELSE "AwaitVerdict")
          /\ hsbuf' = <<>> /\ failure' = failure /\ shut' = shut /\ Len(x) = 2 /\ Len(hsbuf') = 0 /\ b = <<>> /\ Len(b) = 0
          /\ Downward = 2
      BY <1>9, <1>11, <1>12, <1>15, <2>3 DEF Replies
    <3>2. Upward' = 2 /\ Downward' = 0 /\ wire'["down"] = <<>>
      BY <1>13, <1>15, <3>1
    <3>3. ~Refused
      <4>1. ~Refuses(a[1]) /\ 1 \in 1 .. Len(a)
        BY <1>11, <1>14, <2>3
      <4> QED BY <1>11, <4>1 DEF Refused, w
    <3>4. stage = "AwaitPake" => mode = "pair" /\ (host = "proof" \/ (host = "gone" /\ cut))
      BY <1>1, <1>5, <3>1, <3>3 DEF Turns, Answered, First, HandshakeTypes
    <3>5. stage = "AwaitKnownReply" => host = "key" \/ (host = "gone" /\ cut)
      BY <1>1, <1>5, <3>1, <3>3 DEF Turns, Answered, First, HandshakeTypes
    <3>6. stage = "AwaitPairReply" => host = "key" \/ (host = "gone" /\ cut)
      BY <1>1, <1>5, <3>1 DEF Answered, First
    <3>7. stage \in {"AwaitPake", "AwaitKnownReply", "AwaitPairReply"}
      BY <1>1 DEF Hearing, First
    <3>8. \/ stage' = "AwaitPairReply" /\ mode = "pair" /\ (host = "proof" \/ (host = "gone" /\ cut))
          \/ stage' = "AwaitVerdict" /\ (host = "key" \/ (host = "gone" /\ cut))
      BY <3>1, <3>4, <3>5, <3>6, <3>7
    <3>9. stage' \in {"AwaitPairReply", "AwaitVerdict"}
      BY <3>8
    <3>10. "up" \notin shut
      BY <1>1, <1>5 DEF Turns
    <3>11. Turns'
      BY <1>1, <1>3, <1>5, <1>16, <3>1, <3>2, <3>8, <3>10 DEF Turns, First, Hearing
    <3>12. Answered'
      BY <1>3, <3>2, <3>8 DEF Answered, First
    <3>13. Said'
      BY <1>13, <3>1 DEF Said
    <3>14. Reported'
      BY <1>1, <1>3, <1>5, <3>1, <3>13 DEF Reported, ReasonFits
    <3> QED BY <3>11, <3>12, <3>14
  <2> QED BY <2>1, <2>2, <2>3
<1>20. ~Begun("down") /\ host # "up" /\ host' # "up" /\ stage # "Done" /\ stage # "Over"
  BY <1>3, <1>5 DEF Begun
<1> QED BY <1>1, <1>3, <1>17, <1>18, <1>19, <1>20, HandshakeKeeps

LEMMA ClosedKeeps == ASSUME RecordInv, Closed PROVE RecordInv'
<1>0. PICK why : FailsWith(why) /\ (why = closed \/ (why = "other" /\ cut))
  BY DEF Closed
<1>1. RecordTypes /\ HandshakeTypes /\ TunnelTypes /\ Turns /\ Answered /\ Reported /\ stage \notin {"Over", "Done"}
      /\ wire["down"] = <<>> /\ ("down" \in shut \/ cut) /\ FailsWith(why) /\ FlowOf("down")
      /\ UNCHANGED <<hs, heard, host, wire, cut, writers, readers>>
  BY <1>0, Directed DEF RecordInv, RecordTypes, Closed, Flows
<1>2. /\ mode' = mode /\ tab' = tab /\ kind' = kind /\ agreed' = agreed /\ host' = host /\ cut' = cut /\ wire' = wire
      /\ sealed' = sealed /\ out' = out /\ doing' = doing /\ sent' = sent /\ done' = done /\ heard' = heard
      /\ opened' = opened /\ partial' = partial /\ plain' = plain /\ buf' = buf /\ got' = got /\ fate' = fate
      /\ stage' = "Over" /\ failure' = why /\ shut' = shut \cup {"up"} /\ hsbuf' = <<>>
  BY <1>1 DEF hs, writers, readers, FailsWith
<1>3. stage \in First \cup {"AwaitPairReply", "AwaitVerdict"}
  BY <1>1 DEF HandshakeTypes, First
<1>4. stage # "Done" /\ (cut \/ host \in {"up", "gone"})
  BY <1>1 DEF Turns
<1>5. stage \in First /\ ~heard => kind = "older" \/ cut
  <2> SUFFICES ASSUME stage \in First, ~heard, ~cut PROVE kind = "older"
    OBVIOUS
  <2>1. Len(hsbuf) = 0 /\ Len(wire["down"]) = 0
    BY <1>1 DEF Turns
  <2>2. Downward = 0
    BY <2>1 DEF Downward
  <2> HIDE DEF Downward
  <2>3. host = "gone"
    BY <1>1, <1>4 DEF Turns, Hearing
  <2> QED BY <1>1, <2>2, <2>3 DEF Answered
<1>6. stage = "AwaitPairReply" => ~agreed \/ cut
  BY <1>1, <1>4 DEF Turns, Answered, Hearing
<1>7. stage \in First /\ heard => cut
  <2> SUFFICES ASSUME stage \in First, heard, ~cut PROVE FALSE
    OBVIOUS
  <2>1. Len(hsbuf) = 1 /\ Len(wire["down"]) = 0
    <3>1. hsbuf # <<>> /\ Len(hsbuf) <= 1 /\ hsbuf \in Seq(Pieces)
      BY <1>1 DEF Turns, HandshakeTypes
    <3>2. \A q \in Seq(Pieces) : Len(q) \in Nat /\ (Len(q) = 0 => q = <<>>)
      OBVIOUS
    <3>3. Len(<<>>) = 0
      OBVIOUS
    <3>4. Len(hsbuf) \in Nat /\ Len(hsbuf) # 0
      BY <3>1, <3>2
    <3>5. Len(hsbuf) = 1
      BY <3>1, <3>4
    <3> QED BY <1>1, <3>3, <3>5
  <2>2. Downward = 1
    BY <2>1 DEF Downward
  <2> HIDE DEF Downward
  <2>3. host = "gone"
    BY <1>1, <1>4 DEF Turns, Hearing
  <2> QED BY <1>1, <2>2, <2>3 DEF Answered
<1>8. stage = "AwaitVerdict" => cut
  <2> SUFFICES ASSUME stage = "AwaitVerdict", ~cut PROVE FALSE
    OBVIOUS
  <2> DEFINE d == "down"
  <2>1. sealed[d] > 0 /\ opened[d] = 0
    BY <1>1, <1>4 DEF Turns, Answered
  <2>2. Begun(d) /\ ~Deaf(d)
    BY <2>1 DEF Begun, Deaf
  <2>3. PICK c : FlowAt(d, c)
    BY <1>1, <2>2 DEF FlowOf, Flow, FlowAt
  <2>4. d \in Directions /\ wire[d] = <<>>
    BY <1>1, Directed
  <2> HIDE DEF d
  <2> DEFINE t == Taken(d)
             q == Len(partial[d])
             l == Len(Pre(d))
             p == Pos(done[d])
  <2>5. t = 2 * opened[d] + q + Len(wire[d]) /\ c[0] = 0 /\ l \in Nat /\ p \in Nat /\ q \in Nat
    BY <1>1, <2>3, <2>4, FlowNumbers
  <2>6. q <= 1 /\ l + p <= c[t \div 2]
    BY <2>3 DEF FlowAt, Carried
  <2>7. l = 1
    BY <2>4, Preludes DEF d
  <2>8. Len(wire[d]) = 0
    BY <2>4
  <2> HIDE DEF t, q, l, p
  <2>9. t = q
    BY <2>1, <2>5, <2>8 DEF d
  <2>10. t \div 2 = 0
    BY <2>5, <2>6, <2>9
  <2> QED BY <2>5, <2>6, <2>7, <2>10
<1>9. /\ why = "older-host" => kind = "older" \/ cut
      /\ why = "wrong-code" => ~agreed \/ cut
      /\ why = "other" => cut
      /\ why \in {"older-host", "wrong-code", "other"}
  <2>0. CASE why = "other" /\ cut
    BY <2>0
  <2> SUFFICES ASSUME why = closed
               PROVE  /\ why = "older-host" => kind = "older" \/ cut
                      /\ why = "wrong-code" => ~agreed \/ cut
                      /\ why = "other" => cut
                      /\ why \in {"older-host", "wrong-code", "other"}
    BY <1>0, <2>0
  <2>1. CASE stage \in First /\ ~heard
    <3>1. why = "older-host"
      BY <2>1 DEF First, closed
    <3> QED BY <1>5, <2>1, <3>1
  <2>2. CASE stage = "AwaitPairReply"
    <3>1. why = "wrong-code"
      BY <2>2 DEF closed
    <3> QED BY <1>6, <2>2, <3>1
  <2>3. CASE stage \in First /\ heard
    <3>1. why = "other"
      BY <2>3 DEF First, closed
    <3> QED BY <1>7, <2>3, <3>1
  <2>4. CASE stage = "AwaitVerdict"
    <3>1. why = "other"
      BY <2>4 DEF closed
    <3> QED BY <1>8, <2>4, <3>1
  <2> QED BY <1>3, <2>1, <2>2, <2>3, <2>4
<1>10. RecordTypes'
  <2>1. tab' \in BOOLEAN /\ agreed' \in BOOLEAN /\ cut' \in BOOLEAN /\ heard' \in BOOLEAN
    <3>1. tab \in BOOLEAN /\ agreed \in BOOLEAN /\ cut \in BOOLEAN /\ heard \in BOOLEAN
      BY <1>1 DEF HandshakeTypes
    <3> QED BY <1>2, <3>1, Zenon
  <2>2. mode' = mode /\ kind' = kind /\ host' = host /\ hsbuf' \in Seq(Pieces)
    BY <1>2
  <2>3. HandshakeTypes'
    BY <1>1, <1>2, <1>9, <2>1, <2>2 DEF HandshakeTypes
  <2>4. shut' \subseteq Directions
    BY <1>1, <1>2, Directed DEF TunnelTypes
  <2>5. TunnelTypes'
    BY <1>1, <1>2, <2>4 DEF TunnelTypes
  <2> QED BY <2>3, <2>5 DEF RecordTypes
<1>11. (Known' <=> Known) /\ Upward' = Upward
  BY <1>2 DEF Known, Upward
<1> HIDE DEF Upward
<1>12. Turns'
  BY <1>1, <1>2, <1>4, <1>11 DEF Turns, Hearing, First
<1>13. Answered'
  BY <1>1, <1>2, <1>11 DEF Answered, First
<1>14. Reported'
  BY <1>1, <1>2, <1>9 DEF Reported, ReasonFits, Hearing, First
<1>15. UNCHANGED <<hs, writers, readers>> /\ shut \subseteq shut' /\ (host' = "up" <=> host = "up") /\ stage \notin {"Over", "Done"}
  BY <1>1, <1>2
<1> QED BY <1>2, <1>10, <1>12, <1>13, <1>14, <1>15, HandshakeKeeps

(* What the client learns with the first record.                           *)
LEMMA VerdictKeeps ==
  ASSUME RecordInv, RecordTypes', stage = "AwaitVerdict", sealed["down"] > 0,
         UNCHANGED <<hs, host, cut, writers, fate>>, shut \subseteq shut', "down" \in shut' => "down" \in shut,
         wire'["up"] = wire["up"], ReaderKept("up"), FlowOf("down")', hsbuf' = <<>>,
         \/ stage' = "AwaitVerdict" /\ opened'["down"] = 0 /\ failure' = failure /\ shut' = shut
         \/ stage' = "Done" /\ opened'["down"] > 0 /\ Known /\ failure' = failure /\ shut' = shut
         \/ stage' = "Over" /\ opened'["down"] = 0 /\ ~Known /\ failure' = "not-paired"
  PROVE  RecordInv'
<1>1. RecordTypes /\ HandshakeTypes /\ Turns /\ Answered /\ Reported /\ FlowOf("up") /\ FateOf("up") /\ FateOf("down")
  BY Directed DEF RecordInv, RecordTypes, Flows, Fates
<1>2. /\ mode' = mode /\ tab' = tab /\ kind' = kind /\ agreed' = agreed /\ host' = host /\ cut' = cut
      /\ sealed' = sealed /\ out' = out /\ doing' = doing /\ sent' = sent /\ done' = done /\ fate' = fate
  BY DEF hs, writers
<1>3. host = (IF Known THEN "up" ELSE "gone") /\ (Known' <=> Known) /\ Upward' = Upward
  BY <1>1, <1>2 DEF Turns, Known, Upward
<1>4. FlowOf("up")'
  <2> DEFINE d == "up"
  <2>1. RecordTypes /\ d \in Directions /\ FlowOf(d) /\ Onward /\ Untouched(d)
    BY <1>1, <1>2, Directed DEF Onward, Untouched
  <2>2. Begun(d) /\ ~Deaf(d) => wire'[d] = wire[d]
    OBVIOUS
  <2>3. (Begun(d)' <=> Begun(d)) /\ (Deaf(d)' <=> Deaf(d))
    BY <1>2 DEF Begun, Deaf
  <2> HIDE DEF d
  <2>4. FlowOf(d)'
    BY <2>1, <2>2, <2>3, FlowOfStays
  <2> QED BY <2>4 DEF d
<1>5. FateOf("up")'
  <2> DEFINE d == "up"
  <2>1. RecordTypes /\ d \in Directions /\ FateOf(d) /\ fate'[d] = fate[d] /\ tab' = tab /\ Onward
    BY <1>1, <1>2, Directed DEF Onward
  <2>2. (fate[d] # "reads" /\ Begun(d) => Begun(d)') /\ (stage = "Done" => stage' = "Done")
    BY <1>2 DEF Begun
  <2>3. fate[d] = "clean" => plain'[d] = plain[d] /\ wire'[d] = wire[d] /\ partial'[d] = partial[d]
    BY DEF ReaderKept
  <2> HIDE DEF d
  <2>4. FateOf(d)'
    BY <2>1, <2>2, <2>3, FateOfStays
  <2> QED BY <2>4 DEF d
<1>6. FateOf("down")'
  BY <1>1, <1>2 DEF FateOf
<1> HIDE DEF Upward
<1>7. Turns'
  BY <1>1, <1>2, <1>3 DEF Turns, Hearing, First
<1>8. Answered'
  BY <1>1, <1>2, <1>3 DEF Answered, First
<1>9. Reported'
  <2>1. ~Known => mode = "known" /\ ~agreed
    BY <1>1 DEF Known, HandshakeTypes
  <2>2. failure = "none" /\ stage' \notin Hearing
    BY <1>1 DEF Reported, Hearing, First
  <2> QED BY <1>1, <1>2, <2>1, <2>2 DEF Reported, ReasonFits
<1> QED BY <1>4, <1>5, <1>6, <1>7, <1>8, <1>9, Directed DEF RecordInv, Flows, Fates

(* What Opened changes, in either kind of reader.                          *)
OpensAs(d, f, units) ==
  /\ opened'[d] = f.n /\ partial'[d] = f.partial
  /\ opened' = [opened EXCEPT ![d] = f.n] /\ partial' = [partial EXCEPT ![d] = f.partial]
  /\ \/ plain'[d] = units /\ buf'[d] = buf[d] /\ got'[d] = got[d]
     \/ LET q == next_frames(buf[d] \o units)
        IN  plain'[d] = plain[d] /\ buf'[d] = q.rest /\ got'[d] = got[d] \o q.bodies
  /\ plain' = [plain EXCEPT ![d] = plain'[d]] /\ buf' = [buf EXCEPT ![d] = buf'[d]] /\ got' = [got EXCEPT ![d] = got'[d]]
  /\ \A e \in Directions : e # d => ReaderKept(e)

LEMMA OpenedAs ==
  ASSUME TunnelTypes, NEW d \in Directions, NEW f, NEW units, Opened(d, f, units)
  PROVE  OpensAs(d, f, units)
<1> DEFINE r == next_frames(buf[d] \o units)
<1>1. /\ opened' = [opened EXCEPT ![d] = f.n] /\ partial' = [partial EXCEPT ![d] = f.partial]
      /\ opened'[d] = f.n /\ partial'[d] = f.partial
      /\ \A e \in Directions : e # d => opened'[e] = opened[e] /\ partial'[e] = partial[e]
  BY DEF Opened, TunnelTypes
<1>2. CASE d = "down" /\ tab
  <2>1. plain' = plain /\ Received(d, units)
    BY <1>2 DEF Opened
  <2>2. buf' = [buf EXCEPT ![d] = r.rest] /\ got' = [got EXCEPT ![d] = @ \o r.bodies]
    BY <2>1 DEF Received
  <2> HIDE DEF r
  <2>3. /\ buf'[d] = r.rest /\ got'[d] = got[d] \o r.bodies /\ plain'[d] = plain[d]
        /\ buf' = [buf EXCEPT ![d] = buf'[d]] /\ got' = [got EXCEPT ![d] = got'[d]] /\ plain' = [plain EXCEPT ![d] = plain'[d]]
        /\ \A e \in Directions : e # d => buf'[e] = buf[e] /\ got'[e] = got[e] /\ plain'[e] = plain[e]
    BY <2>1, <2>2 DEF TunnelTypes
  <2>4. LET q == next_frames(buf[d] \o units)
        IN  plain'[d] = plain[d] /\ buf'[d] = q.rest /\ got'[d] = got[d] \o q.bodies
    BY <2>3 DEF r
  <2> QED BY <1>1, <2>3, <2>4 DEF OpensAs, ReaderKept
<1>3. CASE ~(d = "down" /\ tab)
  <2>1. plain' = [plain EXCEPT ![d] = units] /\ buf' = buf /\ got' = got
    BY <1>3 DEF Opened
  <2>2. /\ plain'[d] = units /\ buf'[d] = buf[d] /\ got'[d] = got[d]
        /\ buf' = [buf EXCEPT ![d] = buf'[d]] /\ got' = [got EXCEPT ![d] = got'[d]] /\ plain' = [plain EXCEPT ![d] = plain'[d]]
        /\ \A e \in Directions : e # d => buf'[e] = buf[e] /\ got'[e] = got[e] /\ plain'[e] = plain[e]
    BY <2>1 DEF TunnelTypes
  <2> QED BY <1>1, <2>2 DEF OpensAs, ReaderKept
<1> QED BY <1>2, <1>3

SegIs(pre, i, j, s) == /\ s \in Seq(Units) /\ Len(s) = j - i
                       /\ \A u \in 1 .. j - i : s[u] = Stream(pre, i + u)

BeginsWell(c, n, s) ==
  /\ (s = <<>> <=> n = 0) /\ c[n] \in Nat
  /\ n # 0 => /\ 1 <= c[n] /\ Tail(s) = Seg(Pre("down"), 1, c[n])
              /\ (<<s[1]>> = verdict(TRUE) <=> Known)

(* The first record, opened, begins with the verdict.                      *)
LEMMA FirstUnits ==
  ASSUME RecordTypes, NEW c, FlowAt("down", c), opened["down"] = 0, NEW n \in 0 .. sealed["down"],
         NEW s, s = Seg(Pre("down"), c[0], c[n])
  PROVE  BeginsWell(c, n, s)
<1> DEFINE d == "down"
           m == sealed[d]
           P == Pre(d)
<1>1. d \in Directions /\ Cuts(c, m) /\ m \in Nat /\ P \in Seq(Units) /\ Len(P) = 1
  BY Directed, DirectionTypes, Preludes DEF FlowAt
<1>2. n \in 0 .. m /\ s = Seg(P, c[0], c[n])
  OBVIOUS
<1>3. P = verdict(Known)
  BY DEF Pre
<1> HIDE DEF m, P
<1>10. \A x, y \in Nat : x <= y => SegIs(P, x, y, Seg(P, x, y))
  BY <1>1, Segs DEF SegIs
<1>4. c[0] = 0 /\ c[n] \in Nat /\ (0 < n => 0 < c[n])
  <2>1. 0 \in 0 .. m /\ n \in 0 .. m
    BY <1>1, <1>2
  <2> QED BY <1>1, <1>2, <2>1, Rising
<1>5. s = Seg(P, 0, c[n]) /\ 0 \in Nat /\ 0 <= c[n]
  BY <1>2, <1>4
<1> DEFINE j == c[n]
<1> HIDE DEF j
<1>6. s \in Seq(Units) /\ Len(s) = j - 0 /\ (\A u \in 1 .. j - 0 : s[u] = Stream(P, 0 + u)) /\ (s = <<>> <=> 0 = j)
  <2>1. j \in Nat /\ 0 \in Nat /\ 0 <= j /\ s = Seg(P, 0, j)
    BY <1>4, <1>5 DEF j
  <2>2. SegIs(P, 0, j, Seg(P, 0, j))
    BY <1>10, <2>1
  <2>3. SegIs(P, 0, j, s)
    BY <2>1, <2>2
  <2>4. s \in Seq(Units) /\ Len(s) = j - 0 /\ \A u \in 1 .. j - 0 : s[u] = Stream(P, 0 + u)
    BY <2>3 DEF SegIs
  <2>5. s = <<>> <=> 0 = j
    BY <2>1, <2>4
  <2> QED BY <2>4, <2>5
<1>7. n \in Nat /\ (n # 0 => 1 <= j) /\ j \in Nat /\ (n = 0 => j = 0)
  <2>1. n \in Nat
    BY <1>1, <1>2
  <2> QED BY <1>4, <2>1 DEF j
<1>8. s = <<>> <=> n = 0
  BY <1>6, <1>7
<1>9. ASSUME n # 0 PROVE Tail(s) = Seg(P, 1, j) /\ (<<s[1]>> = verdict(TRUE) <=> Known)
  <2>1. 1 <= j /\ j \in Nat /\ 1 \in Nat
    BY <1>7, <1>9
  <2> DEFINE t == Seg(P, 1, j)
             a == Tail(s)
  <2>2. t \in Seq(Units) /\ Len(t) = j - 1 /\ \A u \in 1 .. j - 1 : t[u] = Stream(P, 1 + u)
    <3>1. SegIs(P, 1, j, Seg(P, 1, j))
      BY <1>10, <2>1
    <3> QED BY <3>1 DEF SegIs
  <2>3. s # <<>>
    BY <1>8, <1>9
  <2>4. a \in Seq(Units) /\ Len(a) = j - 1 /\ \A u \in 1 .. j - 1 : a[u] = s[u + 1]
    BY <1>6, <2>1, <2>3
  <2>5. \A u \in 1 .. j - 1 : s[u + 1] = Stream(P, 1 + u)
    <3> SUFFICES ASSUME NEW u \in 1 .. j - 1 PROVE s[u + 1] = Stream(P, 1 + u)
      OBVIOUS
    <3>1. u + 1 \in 1 .. j - 0 /\ 0 + (u + 1) = 1 + u
      BY <2>1
    <3> QED BY <1>6, <3>1
  <2> HIDE DEF a, t
  <2>6. a = t
    <3>1. \A u \in 1 .. j - 1 : a[u] = t[u]
      BY <2>2, <2>4, <2>5
    <3>2. Len(a) = Len(t) /\ \A u \in 1 .. Len(a) : a[u] = t[u]
      BY <2>2, <2>4, <3>1
    <3> QED BY <2>2, <2>4, <3>2, Same
  <2>7. s[1] = P[1]
    <3>1. 1 \in 1 .. j - 0 /\ 0 + 1 = 1 /\ 1 <= Len(P)
      BY <1>1, <2>1
    <3>2. s[1] = Stream(P, 1)
      BY <1>6, <3>1
    <3> QED BY <3>1, <3>2 DEF Stream
  <2>8. <<s[1]>> = verdict(TRUE) <=> Known
    BY <1>3, <2>7 DEF verdict
  <2> QED BY <2>6, <2>8 DEF a, t
<1> QED BY <1>4, <1>7, <1>8, <1>9 DEF j, P, BeginsWell

(* A read that opens something opens the next units of the stream.         *)
LEMMA VerdictRead ==
  ASSUME RecordInv, stage = "AwaitVerdict", sealed["down"] > 0, NEW c, FlowAt("down", c),
         NEW k \in 1 .. Len(wire["down"]), NEW f, f = feed(opened["down"], partial["down"] \o Take(wire["down"], k)),
         wire'["down"] = After(wire["down"], k), NEW units, OpensAs("down", f, units),
         UNCHANGED <<hs, host, cut, writers, fate>>, shut \subseteq shut', stage' # "Over",
         \/ f.n = 0 /\ units = <<>>
         \/ f.n # 0 /\ units = Seg(Pre("down"), 1, c[f.n]) /\ 1 <= c[f.n]
  PROVE  /\ FlowOf("down")' /\ wire'["down"] \in Seq(Pieces) /\ partial'["down"] \in Seq(Pieces) /\ opened'["down"] \in Nat
         /\ got'["down"] \in Seq(Frames) /\ buf'["down"] \in Seq(Units) /\ plain'["down"] \in Seq(Units)
<1> DEFINE d == "down"
<1>1. RecordTypes /\ d \in Directions /\ FlowOf(d) /\ opened[d] = 0 /\ plain[d] = <<>> /\ sealed[d] > 0
  <2>1. opened["down"] = 0
    BY DEF RecordInv, Turns
  <2> QED BY <2>1, GotNothing, Directed DEF RecordInv, Flows
<1>2. /\ mode' = mode /\ agreed' = agreed /\ cut' = cut
      /\ sealed' = sealed /\ out' = out /\ doing' = doing /\ sent' = sent /\ done' = done
  BY DEF hs, writers
<1>3. Onward /\ WriterKept(d)
  BY <1>2 DEF Onward, WriterKept
<1>4. Len(sent[d]) <= MaxFrames /\ InOrder(got[d]) /\ InOrder(sent[d]) /\ OneWriter(d)
  BY <1>1 DEF FlowOf
<1>5. wire'[d] = After(wire[d], k) /\ opened'[d] = f.n /\ partial'[d] = f.partial /\ Len(Pre(d)) = 1
  BY <1>1, Preludes DEF OpensAs
<1>6. \/ plain'[d] = units /\ buf'[d] = buf[d] /\ got'[d] = got[d]
      \/ LET q == next_frames(buf[d] \o units)
         IN  plain'[d] = plain[d] /\ buf'[d] = q.rest /\ got'[d] = got[d] \o q.bodies
  BY DEF OpensAs
<1>7. FlowAt(d, c) /\ k \in 1 .. Len(wire[d]) /\ f = feed(opened[d], partial[d] \o Take(wire[d], k))
  OBVIOUS
<1>8. \/ f.n = 0 /\ units = <<>>
      \/ f.n # 0 /\ units = Seg(Pre(d), 1, c[f.n]) /\ 1 <= c[f.n]
  OBVIOUS
<1>9. Begun(d)' /\ ~Deaf(d)'
  BY <1>1, <1>2 DEF Begun, Deaf
<1> HIDE DEF d
<1> DEFINE a == f.n
           U == Upto(d, c)
           V == Upto(d, c)'
<1>10. U = 1 /\ V = IF a = 0 THEN 1 ELSE c[a]
  <2>1. Pre(d)' = Pre(d)
    BY <1>3 DEF Pre, Onward, Known
  <2> QED BY <1>1, <1>5, <2>1 DEF Upto
<1>11. a \in opened[d] .. sealed[d]
  BY <1>1, <1>7, FeedAt
<1>12. Cuts(c, sealed[d]) /\ sealed[d] \in Nat /\ Pre(d) \in Seq(Units)
  BY <1>1, <1>7, DirectionTypes, Preludes DEF FlowAt
<1> DEFINE n == sealed[d]
           P == Pre(d)
<1>13. n \in Nat /\ Cuts(c, n) /\ a \in 0 .. n /\ P \in Seq(Units)
  BY <1>1, <1>11, <1>12
<1>14. \/ a = 0 /\ units = <<>>
       \/ a # 0 /\ units = Seg(P, 1, c[a]) /\ 1 <= c[a]
  BY <1>8
<1> HIDE DEF a, U, V, n, P
<1>15. c[a] \in Nat
  <2>1. a \in 0 .. n /\ n \in a .. n
    BY <1>13
  <2> QED BY <1>13, <2>1, Rising
<1>16. V \in Nat /\ U <= V /\ units = Seg(P, U, V)
  <2>1. CASE a = 0
    <3>1. V = 1 /\ U = 1 /\ units = <<>>
      BY <1>10, <1>14, <2>1
    <3>2. Seg(P, 1, 1) = <<>>
      BY <1>13, SegFacts
    <3> QED BY <3>1, <3>2
  <2>2. CASE a # 0
    BY <1>10, <1>14, <1>15, <2>2
  <2> QED BY <2>1, <2>2
<1>17. Upto(d, c)' \in Nat /\ Upto(d, c) <= Upto(d, c)' /\ units = Seg(Pre(d), Upto(d, c), Upto(d, c)')
  BY <1>16 DEF U, V, P
<1>18. /\ FlowAt(d, c)' /\ InOrder(got'[d]) /\ wire'[d] \in Seq(Pieces) /\ partial'[d] \in Seq(Pieces)
       /\ opened'[d] \in Nat
       /\ got'[d] \in Seq(Frames) /\ buf'[d] \in Seq(Units) /\ plain'[d] \in Seq(Units)
  <2>1. wire'[d] = After(wire[d], k) /\ opened'[d] = f.n /\ partial'[d] = f.partial
    BY <1>5
  <2>2. RecordTypes /\ plain[d] = <<>> /\ d \in Directions /\ Len(sent[d]) <= MaxFrames /\ InOrder(got[d])
    BY <1>1, <1>4
  <2>3. Upto(d, c)' \in Nat /\ Upto(d, c) <= Upto(d, c)'
    BY <1>17
  <2>4. units = Seg(Pre(d), Upto(d, c), Upto(d, c)')
    BY <1>17
  <2>5. FlowAt(d, c)
    BY <1>7
  <2>6. k \in 1 .. Len(wire[d])
    BY <1>7
  <2>7. f = feed(opened[d], partial[d] \o Take(wire[d], k))
    BY <1>7
  <2> QED BY <1>3, <1>6, <2>1, <2>2, <2>3, <2>4, <2>5, <2>6, <2>7, ReadAt
<1>19. \E e : FlowAt(d, e)'
  BY <1>18
<1>20. Flow(d)'
  BY <1>9, <1>19 DEF Flow, FlowAt
<1>21. OneWriter(d)'
  BY <1>2, <1>4, OneWriterStays
<1>22. InOrder(sent'[d]) /\ Len(sent'[d]) <= MaxFrames
  BY <1>2, <1>4
<1>23. FlowOf(d)'
  BY <1>18, <1>20, <1>21, <1>22 DEF FlowOf, InOrder
<1> QED BY <1>18, <1>23 DEF d

LEMMA FeedVerdictKeeps == ASSUME RecordInv, FeedVerdict PROVE RecordInv'
<1> DEFINE d == "down"
           F(k) == feed(opened[d], partial[d] \o Take(wire[d], k))
<1>1. RecordTypes /\ HandshakeTypes /\ TunnelTypes /\ Turns /\ Answered /\ Reported /\ stage = "AwaitVerdict" /\ heard' = TRUE
      /\ UNCHANGED <<hs, host, cut, writers>> /\ FlowOf(d) /\ d \in Directions
  BY Directed DEF RecordInv, RecordTypes, FeedVerdict, Flows
<1>2. PICK k \in 1 .. Len(wire[d]) :
         /\ wire' = [wire EXCEPT ![d] = After(@, k)]
         /\ CASE ~F(k).ok -> FailsWith("other") /\ UNCHANGED readers
              [] F(k).ok /\ F(k).plain = <<>> ->
                   Opened(d, F(k), <<>>) /\ UNCHANGED <<stage, hsbuf, failure, shut, fate>>
              [] F(k).ok /\ F(k).plain # <<>> /\ <<F(k).plain[1]>> = verdict(TRUE) ->
                   /\ stage' = "Done" /\ Opened(d, F(k), Tail(F(k).plain))
                   /\ UNCHANGED <<hsbuf, failure, shut, fate>>
              [] OTHER -> FailsWith("not-paired") /\ UNCHANGED readers
  BY DEF FeedVerdict
<1> DEFINE f == F(k)
<1>3. f = feed(opened[d], partial[d] \o Take(wire[d], k))
  OBVIOUS
<1>4. wire[d] # <<>> /\ wire[d] \in Seq(Pieces)
  <2>1. wire[d] \in Seq(Pieces)
    BY <1>1, DirectionTypes
  <2>2. 1 \in 1 .. Len(wire[d])
    BY <2>1
  <2>3. Len(<<>>) = 0
    OBVIOUS
  <2> QED BY <2>1, <2>2, <2>3
<1>5. sealed[d] > 0 /\ opened[d] = 0 /\ hsbuf = <<>>
  <2>1. sealed[d] \in Nat
    BY <1>1, DirectionTypes
  <2>2. sealed[d] # 0
    BY <1>1, <1>4 DEF Turns
  <2>3. opened[d] = 0 /\ hsbuf = <<>>
    BY <1>1 DEF Turns, Hearing, First
  <2> QED BY <2>1, <2>2, <2>3
<1>6. got[d] = <<>> /\ plain[d] = <<>> /\ buf[d] = <<>>
  BY <1>1, GotNothing
<1>7. PICK c : FlowAt(d, c)
  <2>1. Begun(d) /\ ~Deaf(d)
    BY <1>1, <1>5 DEF Begun, Deaf
  <2> QED BY <1>1, <2>1 DEF FlowOf, Flow, FlowAt
<1>8. /\ mode' = mode /\ tab' = tab /\ kind' = kind /\ agreed' = agreed /\ host' = host /\ cut' = cut
      /\ sealed' = sealed /\ out' = out /\ doing' = doing /\ sent' = sent /\ done' = done
  BY <1>1 DEF hs, writers
<1> DEFINE Stays == Opened(d, f, <<>>) /\ UNCHANGED <<stage, hsbuf, failure, shut, fate>>
           Tells == stage' = "Done" /\ Opened(d, f, Tail(f.plain)) /\ UNCHANGED <<hsbuf, failure, shut, fate>>
           Denies == FailsWith("not-paired") /\ UNCHANGED readers
<1>9. f.ok => \/ f.plain = <<>> /\ Stays
              \/ f.plain # <<>> /\ <<f.plain[1]>> = verdict(TRUE) /\ Tells
              \/ f.plain # <<>> /\ <<f.plain[1]>> # verdict(TRUE) /\ Denies
  BY <1>2
<1> HIDE DEF F, f
<1>10. /\ f.ok /\ f.n \in opened[d] .. sealed[d] /\ f.partial \in Seq(Pieces)
       /\ f.plain = Seg(Pre(d), c[opened[d]], c[f.n])
       /\ After(wire[d], k) \in Seq(Pieces)
  BY <1>1, <1>3, <1>7, FeedAt
<1> DEFINE n == f.n
           s == f.plain
<1>11. n \in 0 .. sealed[d] /\ s = Seg(Pre(d), c[0], c[n])
  BY <1>5, <1>10
<1> HIDE DEF n, s
<1>12. /\ (s = <<>> <=> n = 0) /\ c[n] \in Nat
       /\ n # 0 => /\ 1 <= c[n] /\ Tail(s) = Seg(Pre(d), 1, c[n])
                   /\ (<<s[1]>> = verdict(TRUE) <=> Known)
  <2>1. RecordTypes /\ FlowAt("down", c) /\ opened["down"] = 0 /\ n \in 0 .. sealed["down"]
    BY <1>1, <1>5, <1>7, <1>11
  <2>2. s = Seg(Pre("down"), c[0], c[n])
    BY <1>11
  <2>3. BeginsWell(c, n, s)
    BY <2>1, <2>2, FirstUnits
  <2> QED BY <2>3 DEF BeginsWell
<1>13. wire' = [wire EXCEPT ![d] = wire'[d]] /\ wire'[d] = After(wire[d], k) /\ wire'["up"] = wire["up"]
  BY <1>1, <1>2, Directed DEF TunnelTypes
<1>14. wire' \in [Directions -> Seq(Pieces)]
  BY <1>1, <1>10, <1>13 DEF TunnelTypes
<1>15. n \in Nat /\ (n # 0 => n > 0)
  <2>1. sealed[d] \in Nat
    BY <1>1, DirectionTypes
  <2> QED BY <1>11, <2>1
<1>16. shut \subseteq Directions /\ failure = "none" /\ <<>> \in Seq(Pieces)
  BY <1>1 DEF TunnelTypes, Reported
<1>17. ASSUME stage' \in {"AwaitVerdict", "Done", "Over"}, hsbuf' = <<>>, failure' \in {"none", "not-paired"},
              shut' \subseteq Directions, TunnelTypes'
       PROVE  RecordTypes'
  <2>1. tab' \in BOOLEAN /\ agreed' \in BOOLEAN /\ cut' \in BOOLEAN
    <3>1. tab \in BOOLEAN /\ agreed \in BOOLEAN /\ cut \in BOOLEAN
      BY <1>1 DEF HandshakeTypes
    <3> QED BY <1>8, <3>1, Zenon
  <2>2. mode' = mode /\ kind' = kind /\ host' = host /\ heard' \in BOOLEAN /\ hsbuf' \in Seq(Pieces)
    BY <1>1, <1>8, <1>16, <1>17
  <2>3. HandshakeTypes'
    BY <1>1, <1>17, <2>1, <2>2 DEF HandshakeTypes
  <2> QED BY <1>17, <2>3 DEF RecordTypes
<1>18. ASSUME NEW units, Opened(d, f, units), stage' \in {"AwaitVerdict", "Done"},
              UNCHANGED <<hsbuf, failure, shut, fate>>,
              \/ n = 0 /\ units = <<>>
              \/ n # 0 /\ units = Seg(Pre(d), 1, c[n])
       PROVE  FlowOf(d)' /\ RecordTypes' /\ ReaderKept("up") /\ opened'[d] = n
  <2>1. OpensAs(d, f, units)
    BY <1>1, <1>18, OpenedAs
  <2>2. UNCHANGED <<hs, host, cut, writers, fate>> /\ shut \subseteq shut' /\ stage' # "Over"
    BY <1>1, <1>18
  <2>3. \/ f.n = 0 /\ units = <<>>
        \/ f.n # 0 /\ units = Seg(Pre(d), 1, c[f.n]) /\ 1 <= c[f.n]
    BY <1>12, <1>18 DEF n
  <2>4. /\ FlowOf(d)' /\ wire'[d] \in Seq(Pieces) /\ partial'[d] \in Seq(Pieces) /\ opened'[d] \in Nat
        /\ got'[d] \in Seq(Frames) /\ buf'[d] \in Seq(Units) /\ plain'[d] \in Seq(Units)
    BY <1>1, <1>3, <1>5, <1>7, <1>13, <2>1, <2>2, <2>3, VerdictRead
  <2>5. /\ opened' = [opened EXCEPT ![d] = opened'[d]] /\ partial' = [partial EXCEPT ![d] = partial'[d]]
        /\ plain' = [plain EXCEPT ![d] = plain'[d]] /\ buf' = [buf EXCEPT ![d] = buf'[d]] /\ got' = [got EXCEPT ![d] = got'[d]]
        /\ opened'[d] = n
    BY <2>1 DEF OpensAs, n
  <2>6. /\ opened' \in [Directions -> Nat] /\ partial' \in [Directions -> Seq(Pieces)]
        /\ plain' \in [Directions -> Seq(Units)] /\ buf' \in [Directions -> Seq(Units)] /\ got' \in [Directions -> Seq(Frames)]
    BY <1>1, <2>4, <2>5 DEF TunnelTypes
  <2>7. TunnelTypes'
    BY <1>1, <1>8, <1>14, <1>18, <2>6 DEF TunnelTypes
  <2>8. RecordTypes'
    BY <1>5, <1>16, <1>17, <1>18, <2>7
  <2>9. ReaderKept("up")
    BY <2>1, Directed DEF OpensAs
  <2> QED BY <2>4, <2>5, <2>8, <2>9
<1>19. CASE s = <<>> /\ Stays
  <2>1. Opened(d, f, <<>>) /\ stage' = stage /\ hsbuf' = hsbuf /\ failure' = failure /\ shut' = shut /\ fate' = fate
    BY <1>19
  <2>2. FlowOf(d)' /\ RecordTypes' /\ ReaderKept("up") /\ opened'[d] = 0
    BY <1>1, <1>12, <1>18, <1>19, <2>1
  <2> QED BY <1>1, <1>5, <1>13, <2>1, <2>2, VerdictKeeps
<1>20. CASE s # <<>> /\ <<s[1]>> = verdict(TRUE) /\ Tells
  <2>1. Opened(d, f, Tail(s)) /\ stage' = "Done" /\ hsbuf' = hsbuf /\ failure' = failure /\ shut' = shut /\ fate' = fate
    BY <1>20 DEF s
  <2>2. n # 0 /\ Tail(s) = Seg(Pre(d), 1, c[n]) /\ Known
    BY <1>12, <1>20
  <2>3. FlowOf(d)' /\ RecordTypes' /\ ReaderKept("up") /\ opened'[d] = n
    BY <1>18, <2>1, <2>2
  <2>4. opened'[d] > 0
    BY <1>15, <2>2, <2>3
  <2> QED BY <1>1, <1>5, <1>13, <2>1, <2>2, <2>3, <2>4, VerdictKeeps
<1>21. CASE s # <<>> /\ <<s[1]>> # verdict(TRUE) /\ Denies
  <2>1. stage' = "Over" /\ failure' = "not-paired" /\ shut' = shut \cup {"up"} /\ hsbuf' = <<>>
        /\ opened' = opened /\ partial' = partial /\ plain' = plain /\ buf' = buf /\ got' = got /\ fate' = fate
    BY <1>21 DEF FailsWith, readers
  <2>2. ~Known
    BY <1>12, <1>21
  <2>3. shut' \subseteq Directions
    BY <1>16, <2>1, Directed
  <2>4. TunnelTypes'
    BY <1>1, <1>8, <1>14, <2>1, <2>3 DEF TunnelTypes
  <2>5. RecordTypes'
    BY <1>17, <2>1, <2>3, <2>4
  <2>6. Flow(d)'
    <3>1. got'[d] = <<>> /\ Deaf(d)' /\ Begun(d)'
      BY <1>5, <1>6, <1>8, <2>1 DEF Deaf, Begun
    <3> QED BY <3>1 DEF Flow
  <2>7. FlowOf(d)'
    <3>1. OneWriter(d)'
      BY <1>1, <1>8, OneWriterStays DEF FlowOf
    <3> QED BY <1>1, <1>8, <2>1, <2>6, <3>1 DEF FlowOf, InOrder
  <2>8. ReaderKept("up") /\ opened'[d] = 0 /\ shut \subseteq shut' /\ ("down" \in shut' => "down" \in shut)
    BY <1>5, <2>1 DEF ReaderKept
  <2>9. UNCHANGED <<hs, host, cut, writers, fate>>
    BY <1>1, <2>1
  <2> QED BY <1>1, <1>5, <1>13, <2>1, <2>2, <2>5, <2>7, <2>8, <2>9, VerdictKeeps
<1> QED BY <1>9, <1>10, <1>19, <1>20, <1>21 DEF s

-----------------------------------------------------------------------------
LEMMA RecordInitially == RecordInit => RecordInv
<1> SUFFICES ASSUME RecordInit PROVE RecordInv
  OBVIOUS
<1>1. Hello("opening") \in Seq(Pieces) /\ Len(Hello("opening")) = 2 /\ <<>> \in Seq(Pieces) /\ Len(<<>>) = 0
      /\ 0 \in Nat /\ <<>> \in Seq(Units) /\ <<>> \in Seq(Frames) /\ 1 \in Threads /\ MaxFrames \in Nat
  <2>1. "opening" \in Words
    BY DEF Words
  <2> QED BY <2>1, HelloFacts, RecordAssumption
<1>2. /\ mode \in {"pair", "known"} /\ tab \in BOOLEAN
      /\ kind \in {"current", "locked", "older", "newer", "stranger"} /\ agreed \in BOOLEAN
      /\ stage = (IF mode = "pair" THEN "AwaitPake" ELSE "AwaitKnownReply")
      /\ heard = FALSE /\ hsbuf = <<>> /\ failure = "none"
      /\ host = "opening" /\ shut = {} /\ cut = FALSE
  BY DEF RecordInit
<1>3. /\ wire = [d \in Directions |-> IF d = "up" THEN Hello("opening") ELSE <<>>]
      /\ sealed = [d \in Directions |-> 0] /\ opened = [d \in Directions |-> 0]
      /\ out = [d \in Directions |-> [t \in Threads |-> <<>>]]
      /\ doing = [d \in Directions |-> [t \in Threads |-> "idle"]]
      /\ sent = [d \in Directions |-> <<>>] /\ done = [d \in Directions |-> 0]
      /\ partial = [d \in Directions |-> <<>>] /\ plain = [d \in Directions |-> <<>>]
      /\ buf = [d \in Directions |-> <<>>] /\ got = [d \in Directions |-> <<>>]
      /\ fate = [d \in Directions |-> "reads"]
  BY DEF RecordInit
<1>4. HandshakeTypes
  BY <1>1, <1>2 DEF HandshakeTypes
<1>5. TunnelTypes
  BY <1>1, <1>2, <1>3 DEF TunnelTypes
<1>6. wire["up"] = Hello("opening") /\ wire["down"] = <<>> /\ sealed["up"] = 0 /\ sealed["down"] = 0 /\ opened["down"] = 0
      /\ doing["up"][1] = "idle" /\ doing["down"][1] = "idle"
  BY <1>1, <1>3, Directed
<1>7. Upward = 2 /\ Downward = 0
  BY <1>1, <1>2, <1>6 DEF Upward, Downward
<1> HIDE DEF Upward, Downward
<1>8. ASSUME NEW d \in Directions PROVE FlowOf(d) /\ FateOf(d)
  <2>1. ~Begun(d)
    BY <1>2, <1>6, Directed DEF Begun
  <2>2. /\ sealed[d] = 0 /\ opened[d] = 0 /\ partial[d] = <<>> /\ plain[d] = <<>> /\ buf[d] = <<>>
        /\ doing[d][1] = "idle" /\ out[d][1] = <<>> /\ sent[d] = <<>> /\ done[d] = 0 /\ got[d] = <<>> /\ fate[d] = "reads"
    BY <1>1, <1>3
  <2>3. Flow(d)
    BY <2>1, <2>2 DEF Flow
  <2>4. OneWriter(d)
    BY <1>3 DEF OneWriter
  <2>5. InOrder(sent[d]) /\ InOrder(got[d]) /\ Len(sent[d]) <= MaxFrames
    <3>1. Len(sent[d]) = 0 /\ Len(got[d]) = 0
      BY <1>1, <2>2
    <3>2. InOrder(sent[d]) /\ InOrder(got[d])
      BY <3>1 DEF InOrder
    <3> QED BY <1>1, <3>1, <3>2
  <2>6. FateOf(d)
    BY <2>2 DEF FateOf
  <2> QED BY <2>3, <2>4, <2>5, <2>6 DEF FlowOf
<1>9. stage \in First /\ stage \in Hearing
  BY <1>2 DEF First, Hearing
<1>10. Turns
  BY <1>1, <1>2, <1>6, <1>7, <1>9 DEF Turns
<1>11. Answered
  BY <1>2, <1>7, <1>9 DEF Answered, First
<1>12. Reported
  <2>1. Said
    BY <1>1, <1>2, <1>6 DEF Said
  <2> QED BY <1>2, <1>9, <2>1 DEF Reported, ReasonFits, First
<1> QED BY <1>4, <1>5, <1>8, <1>10, <1>11, <1>12 DEF RecordInv, RecordTypes, Flows, Fates

LEMMA StandsStill == ASSUME RecordInv, UNCHANGED connection PROVE RecordInv'
<1>1. RecordTypes /\ HandshakeTypes /\ TunnelTypes /\ Turns /\ Answered /\ Reported
  BY DEF RecordInv, RecordTypes
<1>2. UNCHANGED <<hs, client, host, wire, carrier, writers, readers>>
  BY DEF connection
<1>3. wire' \in [Directions -> Seq(Pieces)] /\ host' \in {"opening", "proof", "key", "up", "gone"}
  BY <1>1, <1>2 DEF TunnelTypes, HandshakeTypes
<1>4. RecordTypes'
  BY <1>1, <1>2, <1>3, AnswerTypes
<1>5. /\ mode' = mode /\ tab' = tab /\ kind' = kind /\ agreed' = agreed
      /\ stage' = stage /\ heard' = heard /\ hsbuf' = hsbuf /\ failure' = failure /\ host' = host /\ wire' = wire
      /\ shut' = shut /\ cut' = cut /\ sealed' = sealed /\ opened' = opened /\ doing' = doing
  BY <1>2 DEF hs, client, carrier, writers, readers
<1>6. /\ (Known' <=> Known) /\ Upward' = Upward /\ Downward' = Downward /\ (Said' <=> Said) /\ (Refused' <=> Refused)
  BY <1>5 DEF Known, Upward, Downward, Said, Says, Refused, Refuses
<1> HIDE DEF Upward, Downward
<1>7. Turns'
  BY <1>1, <1>5, <1>6 DEF Turns
<1>8. Answered'
  BY <1>1, <1>5, <1>6 DEF Answered
<1>9. Reported'
  BY <1>1, <1>5, <1>6 DEF Reported, ReasonFits
<1>10. UNCHANGED <<hs, writers, readers>> /\ shut \subseteq shut' /\ cut' = cut
  BY <1>2, <1>5
<1> QED BY <1>4, <1>5, <1>7, <1>8, <1>9, <1>10, HandshakeKeeps

LEMMA RecordStep == RecordInv /\ [RecordNext]_connection => RecordInv'
<1> SUFFICES ASSUME RecordInv, [RecordNext]_connection PROVE RecordInv'
  OBVIOUS
<1>1. CASE HostOpening \/ HostProof \/ HostVerdict \/ HostGivesUp \/ HostGone
  BY <1>1, HostOpeningKeeps, HostProofKeeps, HostVerdictKeeps, HostGivesUpKeeps, HostGoneKeeps
<1>2. CASE FeedHandshake \/ FeedVerdict \/ Closed
  BY <1>2, FeedHandshakeKeeps, FeedVerdictKeeps, ClosedKeeps
<1>3. ASSUME NEW d \in Directions, NEW t \in WritersOf(d),
             BeginFrame(d, t) \/ SealBody(d, t) \/ Write(d, t) \/ WriteFails(d, t)
      PROVE  RecordInv'
  BY <1>3, BeginFrameKeeps, SealBodyKeeps, WriteKeeps, WriteFailsKeeps
<1>4. ASSUME NEW d \in Directions, TakePlain(d) \/ ReadChunk(d) \/ ReadEnd(d) \/ ReadBroken(d) \/ Close(d)
      PROVE  RecordInv'
  BY <1>4, TakePlainKeeps, ReadChunkKeeps, EndReadKeeps, CloseKeeps
<1>5. CASE Cut
  BY <1>5, CutKeeps
<1>6. CASE UNCHANGED connection
  BY <1>6, StandsStill
<1> QED BY <1>1, <1>2, <1>3, <1>4, <1>5, <1>6 DEF RecordNext

LEMMA RecordAlways == RecordSpec => []RecordInv
  BY RecordInitially, RecordStep, PTL DEF RecordSpec

(* Every variable of a connection keeps its type.                          *)
THEOREM RecordsTyped == RecordSpec => []RecordTypes
<1>1. RecordInv => RecordTypes
  BY DEF RecordInv
<1> QED BY <1>1, RecordAlways, PTL

(* A clean end: what was opened reaches to the last frame that was written *)
(* to the end and into no other, and what was received does as well.       *)
LEMMA CleanIsWhole ==
  ASSUME RecordInv, NEW d \in Directions, fate[d] = "clean", ~cut
  PROVE  Len(got[d]) = done[d] /\ (d = "up" \/ ~tab => partial[d] = <<>>)
<1>1. RecordTypes /\ FlowOf(d) /\ FateOf(d)
  BY DEF RecordInv, Flows, Fates
<1>2. Begun(d) /\ ~Deaf(d) /\ plain[d] = <<>> /\ wire[d] = <<>> /\ (partial[d] = <<>> \/ (tab /\ d = "down"))
  BY <1>1 DEF FateOf, Deaf
<1>3. PICK c : FlowAt(d, c)
  BY <1>1, <1>2 DEF FlowOf, Flow, FlowAt
<1> DEFINE l == Len(Pre(d))
           f == done[d]
           g == Len(got[d])
           p == Pos(f)
           q == Pos(g)
           n == opened[d]
           t == Taken(d)
           r == Len(partial[d])
           b == Len(buf[d])
           x == c[n]
<1>4. /\ l \in Nat /\ p \in Nat /\ Size \in Nat /\ t = 2 * n + r + Len(wire[d]) /\ x \in Nat /\ c[0] = 0
  BY <1>1, <1>3, FlowNumbers
<1>5. f \in Nat /\ n \in Nat /\ r \in Nat /\ b \in Nat /\ g \in Nat
  <2>1. done[d] \in Nat /\ opened[d] \in Nat /\ partial[d] \in Seq(Pieces) /\ buf[d] \in Seq(Units) /\ got[d] \in Seq(Frames)
    BY <1>1, DirectionTypes
  <2> QED BY <2>1
<1>6. r <= 1 /\ l + p <= c[t \div 2] /\ c[t \div 2] < l + p + Size
  BY <1>3 DEF FlowAt, Carried
<1> DEFINE upto == IF n = 0 THEN l ELSE x
<1>7. l + q <= upto /\ buf[d] \o plain[d] = Seg(Pre(d), l + q, upto) /\ b <= Body
  BY <1>3 DEF FlowAt, Read
<1>8. q \in Nat /\ Size = Body + 1 /\ Body \in Nat /\ Len(wire[d]) = 0
  BY <1>2, <1>5, PosFacts, Sizes
<1>9. Pre(d) \in Seq(Units) /\ buf[d] \in Seq(Units)
  BY <1>1, DirectionTypes, Preludes
<1>10. n = 0 => x = 0
  BY <1>4
<1> HIDE DEF l, f, g, p, q, n, t, r, x, upto
<1>11. t \div 2 = n
  BY <1>4, <1>5, <1>6, <1>8
<1>12. l + p <= x /\ x < l + p + Size
  BY <1>6, <1>11 DEF x
<1>13. upto = x
  BY <1>4, <1>10, <1>12 DEF upto
<1>14. b = x - (l + q)
  <2>1. l + q \in Nat /\ l + q <= x
    BY <1>4, <1>7, <1>8, <1>13
  <2> DEFINE z == l + q
             s == Seg(Pre(d), z, x)
  <2>2. buf[d] \o <<>> = s
    BY <1>2, <1>7, <1>13
  <2>3. buf[d] \o <<>> = buf[d]
    BY <1>9
  <2> HIDE DEF z
  <2>4. Len(s) = x - z
    BY <1>4, <1>9, <2>1, SegFacts DEF z
  <2> QED BY <2>2, <2>3, <2>4 DEF z
<1> HIDE DEF b
<1>15. l + q <= x /\ x < l + q + Size
  BY <1>4, <1>5, <1>7, <1>8, <1>13, <1>14
<1>16. (f < g => p + Size <= q) /\ (g < f => q + Size <= p)
  BY <1>5, PosFacts DEF p, q
<1>17. g = f
  BY <1>4, <1>5, <1>8, <1>12, <1>15, <1>16
<1> QED BY <1>2, <1>17 DEF g, f

(* Whatever a reader or a user is told of an end is true: no record that   *)
(* nobody touched is taken for a forged one, a clean end of the peer's     *)
(* making is a whole one, and the reason of a failure is the host's.       *)
THEOREM EndsStayTrue == RecordSpec => []EndsAreTrue
<1>1. RecordInv => EndsAreTrue
  <2> SUFFICES ASSUME RecordInv PROVE EndsAreTrue
    OBVIOUS
  <2>1. NoFalseAlarm
    BY DEF RecordInv, Fates, FateOf, Reported, NoFalseAlarm
  <2>2. CleanEndIsWhole
    BY CleanIsWhole DEF CleanEndIsWhole
  <2>3. ReasonFits
    BY DEF RecordInv, Reported
  <2> QED BY <2>1, <2>2, <2>3 DEF EndsAreTrue
<1> QED BY <1>1, RecordAlways, PTL

-----------------------------------------------------------------------------
(* What a step does to the frames of a direction.                          *)
LEMMA NoMoreThanSent ==
  ASSUME RecordInv, NEW d \in Directions
  PROVE  Len(got[d]) \in Nat /\ Len(sent[d]) \in Nat /\ Len(got[d]) <= Len(sent[d])
<1>1. RecordTypes /\ FlowOf(d)
  BY DEF RecordInv, Flows
<1> DEFINE g == Len(got[d])
           s == Len(sent[d])
<1>2. g \in Nat /\ s \in Nat
  <2>1. got[d] \in Seq(Frames) /\ sent[d] \in Seq(Frames)
    BY <1>1, DirectionTypes
  <2> QED BY <2>1
<1>3. CASE Begun(d) /\ ~Deaf(d)
  <2>1. PICK c : FlowAt(d, c)
    BY <1>1, <1>3 DEF FlowOf, Flow, FlowAt
  <2> DEFINE l == Len(Pre(d))
             n == opened[d]
  <2>2. l + Pos(g) <= IF n = 0 THEN l ELSE c[n]
    BY <2>1 DEF FlowAt, Read
  <2>3. n \in 0 .. sealed[d] /\ l \in Nat
    BY <1>1, <2>1, FlowNumbers
  <2>4. CASE n = 0
    <3>1. 0 \in Nat
      OBVIOUS
    <3>2. Pos(g) \in Nat /\ Pos(0) = 0 /\ (Pos(g) <= Pos(0) => g <= 0)
      BY <1>2, <3>1, PosFacts
    <3> HIDE DEF l, n, g, s
    <3>3. g <= 0
      BY <2>2, <2>3, <2>4, <3>2
    <3>4. g <= s
      BY <1>2, <3>3
    <3> QED BY <1>2, <3>4 DEF g, s
  <2>5. CASE n # 0
    <3>1. l + Pos(g) <= c[n]
      BY <2>2, <2>5
    <3>2. g <= s
      <4> HIDE DEF g
      <4> QED BY <1>1, <1>2, <2>1, <2>3, <3>1, FramesBegun
    <3> QED BY <1>2, <3>2
  <2> QED BY <2>4, <2>5
<1>4. CASE ~(Begun(d) /\ ~Deaf(d))
  <2>1. got[d] = <<>>
    BY <1>1, <1>4 DEF FlowOf, Flow
  <2> QED BY <1>2, <2>1
<1> QED BY <1>3, <1>4

LEMMA NeverMore == RecordInv => \A e \in Directions : Len(got[e]) <= Len(sent[e])
  BY NoMoreThanSent

LEMMA BodiesOf == ASSUME NEW x \in Seq(Units) PROVE \E S : next_frames(x).bodies \in Seq(S)
<1> DEFINE w == Len(x) \div Size
           B(i) == SubSeq(x, (i - 1) * Size + 2, i * Size)
           b == [i \in 1 .. w |-> B(i)]
           T == {B(i) : i \in 1 .. w}
<1>1. w \in Nat
  <2>1. Len(x) \in Nat /\ Size \in Nat \ {0}
    BY Sizes
  <2> DEFINE z == Len(x)
  <2> HIDE DEF z
  <2> QED BY <2>1 DEF z
<1>2. next_frames(x).bodies = b
  BY DEF next_frames, Size
<1>3. b \in [1 .. w -> T]
  <2> HIDE DEF w, B
  <2> QED OBVIOUS
<1> HIDE DEF w, b, T
<1>4. b \in Seq(T)
  BY <1>1, <1>3, Numbered
<1> QED BY <1>2, <1>4

Grows(d) == Len(got[d]) <= Len(got'[d])

LEMMA ReceivedGrows ==
  ASSUME RecordInv, NEW d \in Directions, NEW units \in Seq(Units), Received(d, units)
  PROVE  \A e \in Directions : Grows(e)
<1>1. RecordTypes /\ TunnelTypes
  BY DEF RecordInv, RecordTypes
<1>2. buf[d] \in Seq(Units) /\ got[d] \in Seq(Frames)
  BY <1>1, DirectionTypes
<1> DEFINE x == buf[d] \o units
           b == next_frames(x).bodies
<1>3. x \in Seq(Units)
  BY <1>2, Joined
<1>4. got' = [got EXCEPT ![d] = @ \o b]
  BY DEF Received
<1> HIDE DEF x
<1>5. PICK S : b \in Seq(S)
  BY <1>3, BodiesOf
<1> HIDE DEF b
<1>6. got'[d] = got[d] \o b /\ \A e \in Directions : e # d => got'[e] = got[e]
  BY <1>1, <1>4 DEF TunnelTypes
<1>7. Len(got[d] \o b) = Len(got[d]) + Len(b) /\ Len(b) \in Nat /\ Len(got[d]) \in Nat
  BY <1>2, <1>5
<1>8. Grows(d)
  BY <1>6, <1>7 DEF Grows
<1>9. ASSUME NEW e \in Directions, e # d PROVE Grows(e)
  <2>1. got'[e] = got[e] /\ Len(got[e]) \in Nat
    BY <1>6, <1>9, NoMoreThanSent
  <2> QED BY <2>1 DEF Grows
<1> QED BY <1>8, <1>9

LEMMA GotKept == ASSUME RecordInv, UNCHANGED got PROVE \A e \in Directions : Grows(e)
<1> SUFFICES ASSUME NEW e \in Directions PROVE Grows(e)
  OBVIOUS
<1>1. Len(got[e]) \in Nat
  BY NoMoreThanSent
<1> QED BY <1>1 DEF Grows

LEMMA OpenedGrows ==
  ASSUME RecordInv, NEW d \in Directions, NEW f, NEW units \in Seq(Units), Opened(d, f, units)
  PROVE  \A e \in Directions : Grows(e)
<1>1. CASE d = "down" /\ tab
  <2>1. Received(d, units)
    BY <1>1 DEF Opened
  <2> QED BY <2>1, ReceivedGrows
<1>2. CASE ~(d = "down" /\ tab)
  <2>1. UNCHANGED got
    BY <1>2 DEF Opened
  <2> QED BY <2>1, GotKept
<1> QED BY <1>1, <1>2

(* A frame begins, or frames arrive, or neither.                           *)
Begins(d) == \E m \in Frames : sent'[d] = Append(sent[d], m) /\ got'[d] = got[d]
Arrives(d) == sent'[d] = sent[d] /\ Grows(d)

LEMMA OpenedElsewhere == ASSUME TunnelTypes, NEW f, NEW u, Opened("down", f, u) PROVE got'["up"] = got["up"]
<1>1. got \in [Directions -> Seq(Frames)] /\ "up" \in Directions
  BY Directed DEF TunnelTypes
<1>2. got' = got \/ \E s : got' = [got EXCEPT !["down"] = s]
  BY DEF Opened, Received
<1> QED BY <1>1, <1>2

LEMMA FrameSteps ==
  ASSUME RecordInv, [RecordNext]_connection, NEW d \in Directions
  PROVE  Begins(d) \/ Arrives(d)
<1>1. RecordTypes /\ TunnelTypes
  BY DEF RecordInv, RecordTypes
<1>2. CASE \E e \in Directions : \E t \in WritersOf(e) : BeginFrame(e, t)
  <2>1. PICK e \in Directions : \E t \in WritersOf(e) : BeginFrame(e, t)
    BY <1>2
  <2>2. PICK t \in WritersOf(e) : BeginFrame(e, t)
    BY <2>1
  <2> DEFINE n == Len(sent[e]) + 1
             m == body(n)
  <2>3. sent' = [sent EXCEPT ![e] = Append(@, m)] /\ UNCHANGED readers /\ Len(sent["up"]) + Len(sent["down"]) < MaxFrames
    BY <2>2 DEF BeginFrame
  <2>4. got' = got
    BY <2>3 DEF readers
  <2>5. CASE e = d
    <3>1. sent'[d] = Append(sent[d], m)
      BY <1>1, <2>3, <2>5 DEF TunnelTypes
    <3>2. n \in 1 .. MaxFrames
      <4>1. Len(sent["up"]) \in Nat /\ Len(sent["down"]) \in Nat /\ MaxFrames \in Nat
        BY NoMoreThanSent, Directed, RecordAssumption
      <4> DEFINE x == Len(sent["up"])
                 y == Len(sent["down"])
      <4>2. x \in Nat /\ y \in Nat /\ x + y < MaxFrames /\ MaxFrames \in Nat
        BY <2>3, <4>1
      <4>3. n = x + 1 \/ n = y + 1
        BY Directed
      <4> HIDE DEF n, x, y
      <4> QED BY <4>2, <4>3
    <3> HIDE DEF n
    <3>3. m \in Frames
      BY <3>2 DEF Frames
    <3> QED BY <2>4, <3>1, <3>3 DEF Begins
  <2>6. CASE e # d
    <3>1. sent'[d] = sent[d]
      BY <1>1, <2>3, <2>6 DEF TunnelTypes
    <3> QED BY <2>4, <3>1, GotKept DEF Arrives
  <2> QED BY <2>5, <2>6
<1>3. CASE \E e \in Directions : TakePlain(e)
  <2>1. PICK e \in Directions : TakePlain(e)
    BY <1>3
  <2>2. PICK k \in 1 .. Len(plain[e]) : Received(e, Take(plain[e], k))
    BY <2>1 DEF TakePlain
  <2>3. plain[e] \in Seq(Units)
    BY <1>1, DirectionTypes
  <2>4. Take(plain[e], k) \in Seq(Units)
    BY <2>3 DEF Take
  <2>5. Grows(d)
    BY <2>2, <2>4, ReceivedGrows
  <2>6. sent' = sent
    BY <2>1 DEF TakePlain, writers
  <2> QED BY <2>5, <2>6 DEF Arrives
<1>4. CASE \E e \in Directions : ReadChunk(e)
  <2>1. PICK e \in Directions : ReadChunk(e)
    BY <1>4
  <2>2. sent' = sent
    BY <2>1 DEF ReadChunk, writers
  <2>3. PICK k \in 1 .. Len(wire[e]) :
          LET f == feed(opened[e], partial[e] \o Take(wire[e], k))
          IN  IF f.ok THEN Opened(e, f, f.plain) ELSE UNCHANGED got
    BY <2>1 DEF ReadChunk
  <2> DEFINE f == feed(opened[e], partial[e] \o Take(wire[e], k))
  <2>4. CASE ~f.ok
    <3>1. UNCHANGED got
      BY <2>3, <2>4
    <3> QED BY <2>2, <3>1, GotKept DEF Arrives
  <2>5. CASE f.ok
    <3>1. Opened(e, f, f.plain)
      BY <2>3, <2>5
    <3>2. f.plain \in Seq(Units)
      <4>1. FlowOf(e) /\ Reading(e)
        BY <2>1 DEF RecordInv, Flows, ReadChunk
      <4>2. Begun(e) /\ ~Deaf(e)
        BY <4>1, ReadingIs
      <4>3. PICK c : FlowAt(e, c)
        BY <4>1, <4>2 DEF FlowOf, Flow, FlowAt
      <4> DEFINE i == c[opened[e]]
                 j == c[f.n]
                 P == Pre(e)
      <4>4. f.n \in opened[e] .. sealed[e] /\ f.plain = Seg(P, i, j)
        BY <1>1, <4>3, FeedAt
      <4>5. opened[e] \in 0 .. sealed[e] /\ sealed[e] \in Nat /\ P \in Seq(Units) /\ Cuts(c, sealed[e])
        BY <1>1, <4>3, FlowNumbers, DirectionTypes, Preludes DEF FlowAt
      <4> HIDE DEF f
      <4>6. i \in Nat /\ j \in Nat /\ i <= j
        BY <4>4, <4>5, Rising
      <4> HIDE DEF i, j, P
      <4>7. Seg(P, i, j) \in Seq(Units)
        BY <4>5, <4>6, SegFacts
      <4> QED BY <4>4, <4>7
    <3> HIDE DEF f
    <3>3. Grows(d)
      BY <3>1, <3>2, OpenedGrows
    <3> QED BY <2>2, <3>3 DEF Arrives
  <2> QED BY <2>4, <2>5
<1>5. CASE FeedVerdict
  <2>1. sent' = sent /\ stage = "AwaitVerdict"
    BY <1>5 DEF FeedVerdict, writers
  <2>2. got["down"] = <<>>
    BY <2>1, GotNothing
  <2>3. RecordInv'
    BY <1>5, FeedVerdictKeeps
  <2>4. got'["up"] = got["up"]
    <3> DEFINE F(k) == feed(opened["down"], partial["down"] \o Take(wire["down"], k))
    <3>1. PICK k \in 1 .. Len(wire["down"]) :
            UNCHANGED readers \/ Opened("down", F(k), <<>>) \/ Opened("down", F(k), Tail(F(k).plain))
      BY <1>5 DEF FeedVerdict
    <3> DEFINE f == F(k)
    <3> HIDE DEF f
    <3>2. CASE UNCHANGED readers
      BY <3>2 DEF readers
    <3>3. CASE Opened("down", f, <<>>)
      BY <1>1, <3>3, OpenedElsewhere
    <3>4. CASE Opened("down", f, Tail(f.plain))
      BY <1>1, <3>4, OpenedElsewhere
    <3> QED BY <3>1, <3>2, <3>3, <3>4 DEF f
  <2>5. Len(got'["down"]) \in Nat
    <3>1. got' \in [Directions -> Seq(Frames)]
      BY <2>3 DEF RecordInv, RecordTypes, TunnelTypes
    <3> QED BY <3>1, Directed
  <2>6. Grows("down")
    <3>1. Len(<<>>) = 0
      OBVIOUS
    <3> QED BY <2>2, <2>5, <3>1 DEF Grows
  <2>7. Grows("up")
    <3>1. Len(got["up"]) \in Nat
      BY NoMoreThanSent, Directed
    <3> QED BY <2>4, <3>1 DEF Grows
  <2> QED BY <2>1, <2>6, <2>7, Directed DEF Arrives
<1>6. CASE sent' = sent /\ got' = got
  BY <1>6, GotKept DEF Arrives
<1>7. HostOpening \/ HostProof \/ HostVerdict \/ HostGivesUp \/ HostGone \/ FeedHandshake \/ Closed \/ Cut => sent' = sent /\ got' = got
  BY DEF HostOpening, HostProof, HostVerdict, HostGivesUp, HostGone, FeedHandshake, Closed, Cut, HostAnswers, writers, readers
<1>8. ASSUME NEW e \in Directions, NEW t \in WritersOf(e), SealBody(e, t) \/ Write(e, t) \/ WriteFails(e, t)
      PROVE  sent' = sent /\ got' = got
  BY <1>8 DEF SealBody, Write, WriteFails, readers
<1>9. ASSUME NEW e \in Directions, ReadEnd(e) \/ ReadBroken(e) \/ Close(e)
      PROVE  sent' = sent /\ got' = got
  BY <1>9 DEF ReadEnd, ReadBroken, Close, writers, readers
<1>10. UNCHANGED connection => sent' = sent /\ got' = got
  BY DEF connection, writers, readers
<1> QED BY <1>2, <1>3, <1>4, <1>5, <1>6, <1>7, <1>8, <1>9, <1>10 DEF RecordNext

(* Frames in order, some of which have arrived, are a pipe's.              *)
LEMMA PipeSteps ==
  ASSUME NEW s \in Seq(Frames), NEW g \in Seq(Frames), NEW h \in Seq(Frames), InOrder(s), InOrder(g), InOrder(h),
         Len(g) <= Len(h), Len(h) <= Len(s)
  PROVE  h = g \/ \E k \in (Len(g) + 1) .. Len(s) : h = SubSeq(s, 1, k)
<1> DEFINE k == Len(h)
<1>1. k \in Nat /\ Len(g) \in Nat /\ Len(s) \in Nat
  OBVIOUS
<1>2. CASE k = Len(g)
  <2>1. \A i \in 1 .. Len(g) : h[i] = g[i]
    BY <1>2 DEF InOrder
  <2> QED BY <1>2, <2>1, Same
<1>3. CASE k # Len(g)
  <2>1. k \in (Len(g) + 1) .. Len(s)
    BY <1>1, <1>3
  <2> DEFINE r == SubSeq(s, 1, k)
  <2>2. r \in Seq(Frames) /\ Len(r) = k /\ \A i \in 1 .. k : r[i] = s[i]
    BY <1>1
  <2>3. \A i \in 1 .. k : h[i] = s[i]
    <3> SUFFICES ASSUME NEW i \in 1 .. k PROVE h[i] = s[i]
      OBVIOUS
    <3>1. i \in 1 .. Len(s)
      BY <1>1
    <3> QED BY <3>1 DEF InOrder
  <2> HIDE DEF r
  <2>4. Len(h) = Len(r) /\ \A i \in 1 .. Len(r) : h[i] = r[i]
    BY <2>2, <2>3
  <2>5. h = r
    BY <2>2, <2>4, Same
  <2> QED BY <2>1, <2>5 DEF r
<1> QED BY <1>2, <1>3

LEMMA Piping ==
  ASSUME RecordInv, [RecordNext]_connection, NEW d \in Directions
  PROVE  \/ Begins(d)
         \/ sent'[d] = sent[d] /\ got'[d] = got[d]
         \/ sent'[d] = sent[d] /\ \E k \in (Len(got[d]) + 1) .. Len(sent[d]) : got'[d] = SubSeq(sent[d], 1, k)
<1>1. Begins(d) \/ Arrives(d)
  BY FrameSteps
<1>2. RecordInv'
  BY RecordStep
<1>3. CASE Arrives(d)
  <2>1. sent[d] \in Seq(Frames) /\ got[d] \in Seq(Frames) /\ InOrder(sent[d]) /\ InOrder(got[d])
    BY DirectionTypes DEF RecordInv, Flows, FlowOf
  <2> DEFINE h == got'[d]
  <2>2. h \in Seq(Frames) /\ InOrder(h)
    <3>1. got' \in [Directions -> Seq(Frames)]
      BY <1>2 DEF RecordInv, RecordTypes, TunnelTypes
    <3>2. FlowOf(d)'
      BY <1>2 DEF RecordInv, Flows
    <3> QED BY <3>1, <3>2 DEF FlowOf, InOrder
  <2>3. Len(got[d]) <= Len(h) /\ Len(h) <= Len(sent[d]) /\ sent'[d] = sent[d]
    <3>1. (\A e \in Directions : Len(got[e]) <= Len(sent[e]))'
      BY <1>2, NeverMore, PTL
    <3> QED BY <1>3, <3>1 DEF Arrives, Grows
  <2> HIDE DEF h
  <2>4. h = got[d] \/ \E k \in (Len(got[d]) + 1) .. Len(sent[d]) : h = SubSeq(sent[d], 1, k)
    BY <2>1, <2>2, <2>3, PipeSteps
  <2> QED BY <2>3, <2>4 DEF h
<1> QED BY <1>1, <1>3

LEMMA UpStep == RecordInv /\ [RecordNext]_connection => [UpPipe!Next]_(UpPipe!vars)
<1> SUFFICES ASSUME RecordInv, [RecordNext]_connection PROVE [UpPipe!Next]_(UpPipe!vars)
  OBVIOUS
<1>1. \/ Begins("up")
      \/ sent'["up"] = sent["up"] /\ got'["up"] = got["up"]
      \/ sent'["up"] = sent["up"] /\ \E k \in (Len(got["up"]) + 1) .. Len(sent["up"]) : got'["up"] = SubSeq(sent["up"], 1, k)
  BY Piping, Directed
<1> QED BY <1>1 DEF Begins, UpPipe!Next, UpPipe!Send, UpPipe!Receive, UpPipe!vars

LEMMA DownStep == RecordInv /\ [RecordNext]_connection => [DownPipe!Next]_(DownPipe!vars)
<1> SUFFICES ASSUME RecordInv, [RecordNext]_connection PROVE [DownPipe!Next]_(DownPipe!vars)
  OBVIOUS
<1>1. \/ Begins("down")
      \/ sent'["down"] = sent["down"] /\ got'["down"] = got["down"]
      \/ sent'["down"] = sent["down"] /\ \E k \in (Len(got["down"]) + 1) .. Len(sent["down"]) : got'["down"] = SubSeq(sent["down"], 1, k)
  BY Piping, Directed
<1> QED BY <1>1 DEF Begins, DownPipe!Next, DownPipe!Send, DownPipe!Receive, DownPipe!vars

(* Each direction is a pipe of frames, however the bytes were cut up and   *)
(* whatever came along with the verdict: frames arrive in order, none is   *)
(* lost in between, and what has arrived stays.                            *)
THEOREM BothStayPipes == RecordSpec => BothPipes
<1>1. RecordInit => UpPipe!Init /\ DownPipe!Init
  BY Directed DEF RecordInit, UpPipe!Init, DownPipe!Init
<1>2. RecordSpec => UpPipe!Spec
  BY <1>1, UpStep, RecordAlways, PTL DEF RecordSpec, UpPipe!Spec
<1>3. RecordSpec => DownPipe!Spec
  BY <1>1, DownStep, RecordAlways, PTL DEF RecordSpec, DownPipe!Spec
<1> QED BY <1>2, <1>3 DEF BothPipes
=============================================================================
