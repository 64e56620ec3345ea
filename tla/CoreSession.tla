------------------------------ MODULE CoreSession -------------------------------
(***************************************************************************)
(* The phone and tablet client: the session of the shared core             *)
(* (core/src/lib.rs), the two bindings that hand it to the apps            *)
(* (mobile-ffi/src/lib.rs, android-jni/src/lib.rs), and the apps' own      *)
(* screen, which may give an attempt up and begin another while the first  *)
(* is still at work on a thread of its own.                                *)
(*                                                                         *)
(* An attempt a is carried by a thread of a small pool through a dial or   *)
(* two, a handshake and a hello, to a handle or an error; the reason of a  *)
(* failure is left in a cell of the thread and read back from it.  A       *)
(* session has a reader and a writer thread of its own, which nobody joins,*)
(* and a pump in the app that blocks for its next event.                   *)
(***************************************************************************)
EXTENDS Integers, Sequences

CONSTANTS
  MaxAttempts,  \* attempts and cancellations by the person
  Workers,      \* the threads attempts run on
  MaxEvents,    \* messages of a host on their way to the app
  MaxInputs,    \* inputs in an app's queue
  Refusals,     \* the verdicts of a host that wants nothing of this client, of Failure
  Kinds,        \* the kinds of plain errors: "TimedOut" of a read or a dial, "Eof", "Else"
  None          \* no thread, no reason, no session

ASSUME CoreAssumption ==
  /\ MaxAttempts \in Nat \ {0} /\ MaxEvents \in Nat /\ MaxInputs \in Nat
  /\ None \notin Workers

VARIABLES
  attempt,   \* the apps' count, bumped by an attempt and by giving one up
  phase,     \* ConnectPhase: "idle", "connecting", "connected", "failed"
  onscreen,  \* the attempt whose session is on screen, or None
  shown,     \* the reason on screen
  paired,    \* whether the pairing file lists any host (PairingStore has the file)
  job,       \* where each attempt is
  problem,   \* LAST_PROBLEM, of each thread
  sess       \* the session of each attempt

vars == <<attempt, phase, onscreen, shown, paired, job, problem, sess>>

Attempts == 1 .. MaxAttempts

(* Failure of the transport, as the host or the handshake reports it.       *)
Failure == {"WrongCode", "HostLocked", "NotPaired", "UnknownHost", "OlderHost", "Unsupported"}

ASSUME RefusalAssumption ==
  Refusals \subseteq {"HostLocked", "OlderHost", "Unsupported"} /\ Kinds \subseteq {"TimedOut", "Eof", "Else"}

(* An error of connect: a failure of the handshake, one of the dial        *)
(* (DialFailed, which keeps the kind of what it wraps), or a plain one.    *)
Errors == [wrap : {"failure"}, what : Failure]
            \cup [wrap : {"dial"}, what : Kinds, bad_address : BOOLEAN]
            \cup [wrap : {"none"}, what : Kinds \cup {"TimedOut"}]

ASSUME NoneAssumption == None \notin Errors \cup Attempts

Fails(f) == [wrap |-> "failure", what |-> f]
Io(kind) == [wrap |-> "none", what |-> kind]
DialFailed(kind, bad) == [wrap |-> "dial", what |-> kind, bad_address |-> bad]

(* The reason a person is told; a wrapped dial error is asked before its   *)
(* kind, or a dial that timed out would read as a host that did not answer.*)
connect_problem(e) ==
  CASE e.wrap = "failure" -> IF e.what = "NotPaired" THEN "NeedsCode" ELSE e.what
    [] e.wrap = "dial" -> IF e.bad_address THEN "BadAddress" ELSE "Unreachable"
    [] OTHER -> CASE e.what = "TimedOut" -> "NoAnswer" [] e.what = "Eof" -> "Dropped" [] OTHER -> "Other"

Reasons == {connect_problem(e) : e \in Errors} \cup {None}

Steps == {"none", "dial_known", "known", "dial_pair", "pair", "hello", "asking", "holding", "done"}
Job == [step : Steps, worker : Workers \cup {None}, pin : BOOLEAN, deadline : BOOLEAN,
        error : Errors \cup {None}, reason : Reasons]
NoJob == [step |-> "none", worker |-> None, pin |-> FALSE, deadline |-> FALSE, error |-> None,
          reason |-> None]

(* sock: "none", "open", "eof" (the host is gone), "shut" by the client.    *)
Session == [sock : {"none", "open", "eof", "shut"}, deadline : BOOLEAN,
            handle : {"none", "live", "freed"},
            reader : {"none", "reading", "ended"}, writer : {"none", "parked", "ended"},
            wire : 0 .. MaxEvents, events : 0 .. MaxEvents, inputs : 0 .. MaxInputs,
            pump : {"none", "looping", "waiting", "ended"}]
NoSession == [sock |-> "none", deadline |-> FALSE, handle |-> "none", reader |-> "none",
              writer |-> "none", wire |-> 0, events |-> 0, inputs |-> 0,
              pump |-> "none"]

TypeOK ==
  /\ attempt \in 0 .. MaxAttempts
  /\ phase \in {"idle", "connecting", "connected", "failed"}
  /\ onscreen \in Attempts \cup {None} /\ shown \in Reasons
  /\ paired \in BOOLEAN
  /\ job \in [Attempts -> Job]
  /\ problem \in [Workers -> Reasons]
  /\ sess \in [Attempts -> Session]

Init ==
  /\ attempt = 0 /\ phase = "idle" /\ onscreen = None /\ shown = None
  /\ paired \in BOOLEAN
  /\ job = [a \in Attempts |-> NoJob]
  /\ problem = [w \in Workers |-> None]
  /\ sess = [a \in Attempts |-> NoSession]

Busy == {job[a].worker : a \in Attempts} \ {None}
AtStep(a, s) == job[a].step = s
Moves(a, s) == job' = [job EXCEPT ![a].step = s]

-----------------------------------------------------------------------------
(* An attempt, on its thread.                                              *)

(* What is over and no longer shown is not kept.                            *)
Tidy == [a \in Attempts |-> IF job[a].step = "done" THEN NoJob ELSE job[a]]

(* The pool runs an attempt on a thread that is idle, one it has used      *)
(* before where it can.                                                    *)
IdleThread == CHOOSE w \in Workers : w \notin Busy

(* doConnect: the screen offers it when no session is on it and no attempt *)
(* is running.  pin says whether a code was typed.  With any host listed,  *)
(* open_tunnel first dials to reconnect.                                   *)
doConnect ==
  /\ attempt < MaxAttempts /\ onscreen = None /\ phase # "connecting"
  /\ attempt' = attempt + 1 /\ phase' = "connecting" /\ shown' = None
  /\ Workers \ Busy # {}
  /\ \E pin \in BOOLEAN :
       job' = [Tidy EXCEPT ![attempt + 1] =
                 [NoJob EXCEPT !.step = IF paired THEN "dial_known" ELSE "dial_pair",
                               !.worker = IdleThread, !.pin = pin]]
  /\ UNCHANGED <<onscreen, paired, problem, sess>>

(* Mutant: one cell for every thread.                                      *)
set_last_problem_Shared(a, reason) == problem' = [w \in Workers |-> reason]

(* extender_session_connect and nativeConnect: the result leaves its       *)
(* reason in the cell of this thread, a success clears it.                 *)
set_last_problem(a, reason) == problem' = [problem EXCEPT ![job[a].worker] = reason]

(* connect returns an error: 0 or null to the app, which asks why next.    *)
Errs(a, e) ==
  /\ job' = [job EXCEPT ![a].step = "asking", ![a].error = e]
  /\ set_last_problem(a, connect_problem(e))

(* Mutant: the handshake has no deadline.                                  *)
dial_NoDeadline(a) ==
  /\ job[a].step \in {"dial_known", "dial_pair"}
  /\ \/ job' = [job EXCEPT ![a].step = IF @ = "dial_known" THEN "known" ELSE "pair"] /\ UNCHANGED problem
     \/ \E kind \in Kinds, bad \in BOOLEAN : Errs(a, DialFailed(kind, bad))
  /\ UNCHANGED <<attempt, phase, onscreen, shown, paired, sess>>

(* dial: the deadlines of the handshake are set as soon as it is open.      *)
dial(a) ==
  /\ job[a].step \in {"dial_known", "dial_pair"}
  /\ \/ /\ job' = [job EXCEPT ![a].step = IF @ = "dial_known" THEN "known" ELSE "pair",
                              ![a].deadline = TRUE]
        /\ UNCHANGED problem
     \/ \E kind \in Kinds, bad \in BOOLEAN : Errs(a, DialFailed(kind, bad))
  /\ UNCHANGED <<attempt, phase, onscreen, shown, paired, sess>>

Gives == {Fails(f) : f \in Refusals} \cup {Io(kind) : kind \in Kinds \ {"TimedOut"}}

(* The host answers a reconnection: in, or it does not know this device,   *)
(* or proves another key, which sends the client on to pair, or a refusal. *)
connect_known(a) ==
  /\ AtStep(a, "known")
  /\ \/ Moves(a, "hello") /\ UNCHANGED problem
     \/ Moves(a, "dial_pair") /\ UNCHANGED problem
     \/ \E e \in Gives : Errs(a, e)
  /\ UNCHANGED <<attempt, phase, onscreen, shown, paired, sess>>

(* The host answers a pairing.  A wrong code that nobody typed is a host   *)
(* that wants one; a code that was typed and right is remembered.          *)
connect_pair(a) ==
  /\ AtStep(a, "pair")
  /\ \/ Moves(a, "hello") /\ paired' = (paired \/ job[a].pin) /\ UNCHANGED problem
     \/ (\E e \in Gives : Errs(a, e)) /\ UNCHANGED paired
     \/ Errs(a, Fails(IF job[a].pin THEN "WrongCode" ELSE "NotPaired")) /\ UNCHANGED paired
  /\ UNCHANGED <<attempt, phase, onscreen, shown, sess>>

(* Nothing answers: only a deadline gets a blocked read back.               *)
HandshakeTimeout(a) ==
  /\ job[a].step \in {"known", "pair", "hello"} /\ job[a].deadline
  /\ Errs(a, Io("TimedOut"))
  /\ UNCHANGED <<attempt, phase, onscreen, shown, paired, sess>>

(* Mutant: the deadlines of the handshake are left on the live session.    *)
connect_inner_Impatient(a) ==
  /\ AtStep(a, "hello")
  /\ sess' = [sess EXCEPT ![a] = [NoSession EXCEPT !.sock = "open", !.handle = "live", !.deadline = TRUE,
                                    !.reader = "reading", !.writer = "parked"]]
  /\ Moves(a, "holding")
  /\ set_last_problem(a, None)
  /\ UNCHANGED <<attempt, phase, onscreen, shown, paired>>

(* The rest of connect_inner: the hello is written on this thread, the     *)
(* deadlines are cleared, and the two threads begin.                       *)
connect_inner(a) ==
  /\ AtStep(a, "hello")
  /\ \/ /\ sess' = [sess EXCEPT ![a] = [NoSession EXCEPT !.sock = "open", !.handle = "live",
                                          !.reader = "reading", !.writer = "parked"]]
        /\ Moves(a, "holding")
        /\ set_last_problem(a, None)
     \/ (\E kind \in Kinds \ {"TimedOut"} : Errs(a, Io(kind))) /\ UNCHANGED sess
  /\ UNCHANGED <<attempt, phase, onscreen, shown, paired>>

(* extender_last_connect_problem, called by ExtenderSession.connect on the *)
(* thread that connected.                                                  *)
last_connect_problem(a) ==
  /\ AtStep(a, "asking")
  /\ job' = [job EXCEPT ![a].step = "holding", ![a].reason = problem[job[a].worker]]
  /\ UNCHANGED <<attempt, phase, onscreen, shown, paired, problem, sess>>

-----------------------------------------------------------------------------
(* The screen.                                                             *)

(* Mutant: the socket is only let go of, and the reader still has it.      *)
Freed_Unshut(s) == [s EXCEPT !.handle = "freed", !.events = 0, !.pump = IF @ = "waiting" THEN @ ELSE "ended"]

(* Drop of a Session, through extender_session_free or nativeFree: the     *)
(* socket is shut both ways, the events' receiver and the inputs' sender   *)
(* go with the handle, and no thread is joined.                            *)
Freed(s) == [s EXCEPT !.handle = "freed", !.sock = "shut", !.events = 0,
                      !.pump = IF @ = "waiting" THEN @ ELSE "ended"]

(* Mutant: an attempt given up is forgotten with what it opened.           *)
Deliver_Forgets(a) ==
  /\ AtStep(a, "holding")
  /\ job' = [job EXCEPT ![a] = IF a = attempt THEN [@ EXCEPT !.step = "done", !.worker = None] ELSE NoJob]
  /\ IF a # attempt
     THEN UNCHANGED <<phase, onscreen, shown>>
     ELSE /\ onscreen' = IF sess[a].handle = "live" THEN a ELSE None
          /\ shown' = job[a].reason
          /\ phase' = IF sess[a].handle = "live" THEN "connected" ELSE "failed"
  /\ UNCHANGED <<attempt, paired, problem, sess>>

(* runOnUi, when the thread has held "Connecting" long enough: an attempt  *)
(* that is no longer the latest closes what it opened.                     *)
Deliver(a) ==
  /\ AtStep(a, "holding")
  /\ job' = [job EXCEPT ![a] = IF a = attempt THEN [@ EXCEPT !.step = "done", !.worker = None] ELSE NoJob]
  /\ IF a # attempt
     THEN /\ sess' = [sess EXCEPT ![a] = IF @.handle = "live" THEN Freed(@) ELSE @]
          /\ UNCHANGED <<phase, onscreen, shown>>
     ELSE /\ onscreen' = IF sess[a].handle = "live" THEN a ELSE None
          /\ shown' = job[a].reason
          /\ phase' = IF sess[a].handle = "live" THEN "connected" ELSE "failed"
          /\ UNCHANGED sess
  /\ UNCHANGED <<attempt, paired, problem>>

(* Cancel on the "Connecting" screen: the attempt runs on, unwatched.       *)
Cancel ==
  /\ phase = "connecting" /\ attempt < MaxAttempts
  /\ attempt' = attempt + 1 /\ phase' = "idle"
  /\ UNCHANGED <<onscreen, shown, paired, job, problem, sess>>

(* "Home" after a failure, and the moment "Connected" is held for.          *)
Rest ==
  /\ phase \in {"failed", "connected"} /\ phase' = "idle" /\ job' = Tidy /\ shown' = None
  /\ UNCHANGED <<attempt, onscreen, paired, problem, sess>>

(* startPump, as the mode's own view appears.                               *)
startPump(a) ==
  /\ onscreen = a /\ sess[a].pump = "none"
  /\ sess' = [sess EXCEPT ![a].pump = "looping"]
  /\ UNCHANGED <<attempt, phase, onscreen, shown, paired, job, problem>>

(* disconnect, or the choice of another mode: close, which clears pumping  *)
(* and frees the handle at once (iOS), or after half a second in which     *)
(* nothing makes the pump return (Android).                                *)
close(a) ==
  /\ onscreen = a
  /\ onscreen' = None
  /\ sess' = [sess EXCEPT ![a] = Freed(@)]
  /\ UNCHANGED <<attempt, phase, shown, paired, job, problem>>

(* An input of the app: queued for the writer, while there is one.          *)
send(a) ==
  /\ onscreen = a /\ sess[a].writer = "parked" /\ sess[a].inputs < MaxInputs
  /\ sess' = [sess EXCEPT ![a].inputs = @ + 1]
  /\ UNCHANGED <<attempt, phase, onscreen, shown, paired, job, problem>>

-----------------------------------------------------------------------------
(* A session's threads, and its host.                                      *)

Alone(a, s) ==
  /\ sess' = [sess EXCEPT ![a] = s]
  /\ UNCHANGED <<attempt, phase, onscreen, shown, paired, job, problem>>

(* The host sends a message, or goes.                                       *)
HostSends(a) ==
  /\ sess[a].sock = "open" /\ sess[a].wire + sess[a].events < MaxEvents
  /\ Alone(a, [sess[a] EXCEPT !.wire = @ + 1])
HostGoes(a) == sess[a].sock = "open" /\ Alone(a, [sess[a] EXCEPT !.sock = "eof"])

(* The reader: a message to the channel, which is refused once the         *)
(* receiver is gone; an error or the end of the stream ends it.  What was  *)
(* in flight when the client shut its socket may still be read, or not.    *)
ReaderReads(a) ==
  /\ sess[a].reader = "reading"
  /\ \/ /\ sess[a].wire > 0
        /\ Alone(a, IF sess[a].handle = "freed"
                    THEN [sess[a] EXCEPT !.wire = 0, !.reader = "ended"]
                    ELSE [sess[a] EXCEPT !.wire = @ - 1, !.events = @ + 1])
     \/ /\ sess[a].sock = "shut" \/ (sess[a].sock = "eof" /\ sess[a].wire = 0)
        /\ Alone(a, [sess[a] EXCEPT !.reader = "ended", !.wire = 0])
     \/ /\ sess[a].deadline /\ sess[a].wire = 0    \* a read that may time out
        /\ Alone(a, [sess[a] EXCEPT !.reader = "ended"])

(* write_input: one input to the socket, or the end: nothing queued and    *)
(* the sender gone, or a write that fails.                                 *)
write_input(a) ==
  /\ sess[a].writer = "parked"
  /\ \/ /\ sess[a].inputs > 0 /\ sess[a].sock # "shut"
        /\ Alone(a, [sess[a] EXCEPT !.inputs = @ - 1])
     \/ /\ sess[a].inputs > 0 /\ sess[a].sock # "open"
        /\ Alone(a, [sess[a] EXCEPT !.inputs = 0, !.writer = "ended"])
     \/ /\ sess[a].inputs = 0 /\ sess[a].handle = "freed"
        /\ Alone(a, [sess[a] EXCEPT !.writer = "ended"])

(* extender_session_next_event, called by the pump while it is not told to *)
(* stop.  It borrows the handle until it returns; a handle freed under it  *)
(* is undefined: it may return or may not.                                 *)
next_event(a) ==
  \/ /\ sess[a].pump = "looping"
     /\ Alone(a, [sess[a] EXCEPT !.pump = "waiting"])
  \/ /\ sess[a].pump = "waiting" /\ sess[a].handle = "live"
     /\ \/ sess[a].events > 0 /\ Alone(a, [sess[a] EXCEPT !.events = @ - 1, !.pump = "looping"])
        \/ /\ sess[a].events = 0 /\ sess[a].reader = "ended"
           /\ Alone(a, [sess[a] EXCEPT !.pump = "ended"])
  \/ /\ sess[a].pump = "waiting" /\ sess[a].handle = "freed"
     /\ Alone(a, [sess[a] EXCEPT !.pump = "ended"])

Attempting(a) ==
  \/ dial(a) \/ connect_known(a) \/ connect_pair(a) \/ HandshakeTimeout(a) \/ connect_inner(a)
  \/ last_connect_problem(a) \/ Deliver(a)
Using(a) == startPump(a) \/ close(a) \/ send(a)
Running(a) == HostSends(a) \/ HostGoes(a) \/ ReaderReads(a) \/ write_input(a) \/ next_event(a)

Next ==
  \/ doConnect \/ Cancel \/ Rest
  \/ \E a \in Attempts : Attempting(a) \/ Using(a) \/ Running(a)

Spec == Init /\ [][Next]_vars

(* Threads run and clocks go on; the host owes nothing, nor the person.     *)
Fairness ==
  \A a \in Attempts :
    /\ WF_vars(dial(a)) /\ WF_vars(HandshakeTimeout(a)) /\ WF_vars(connect_inner(a))
    /\ WF_vars(last_connect_problem(a)) /\ WF_vars(Deliver(a))
    /\ WF_vars(ReaderReads(a)) /\ WF_vars(write_input(a))
FairSpec == Spec /\ Fairness

-----------------------------------------------------------------------------
(* Correctness.                                                            *)

(* What the screen says went wrong is what went wrong with the attempt it  *)
(* is about, although attempts overlap and threads are used again; and a   *)
(* person who typed no code is never told that the code is wrong           *)
(* (LAST_PROBLEM, open_tunnel, the apps' doConnect).                       *)
RightReason ==
  phase = "failed" =>
    /\ job[attempt].error # None /\ shown = connect_problem(job[attempt].error)
    /\ shown = "WrongCode" => job[attempt].pin

(* A session that is open is the one on screen, or is on its way to it: an *)
(* attempt given up never leaves a connection nobody can close, nor takes  *)
(* the screen from a later one.                                            *)
HandleOwned ==
  /\ \A a \in Attempts : sess[a].handle = "live" => a = onscreen \/ AtStep(a, "holding")
  /\ onscreen # None => sess[onscreen].handle = "live" /\ onscreen = attempt

(* Only the host's going or the person's closing ends the stream: not the  *)
(* deadlines of the handshake, however quiet the host is.                  *)
QuietSurvives ==
  \A a \in Attempts : sess[a].handle = "live" /\ sess[a].reader = "ended" => sess[a].sock = "eof"

(* A session lasts, and is owned, until somebody ends it.                  *)
SessionKept == HandleOwned /\ QuietSurvives

(* An attempt is over in the end whatever the host does or does not answer:*)
(* nobody is left on "Connecting" for good (HANDSHAKE_TIMEOUT).            *)
AttemptEnds == (phase = "connecting") ~> (phase # "connecting")

(* The threads of a session that was closed both end, though nobody joins  *)
(* them, and its host is let go (Drop for Session, write_input).           *)
ThreadsEnd ==
  \A a \in Attempts :
    (sess[a].handle = "freed") ~> (sess[a].reader = "ended" /\ sess[a].writer = "ended")

(* Nothing is left running behind the screen.                              *)
NothingLingers == AttemptEnds /\ ThreadsEnd

(* The contract of next_event and of free (mobile-ffi/src/lib.rs): the     *)
(* handle a call is given stays valid until the call returns.              *)
FreedUnused == \A a \in Attempts : sess[a].pump = "waiting" => sess[a].handle = "live"
=============================================================================
