------------------------------- MODULE HostPanels -------------------------------
(***************************************************************************)
(* Two panels of the desktop hosts that work behind their windows.  The    *)
(* account (host-ui/src/account.rs) keeps a session in memory, its access  *)
(* token beside it, and both in a file; a thread refreshes the session     *)
(* once at start, others ask for a code and for what it is worth, and the  *)
(* user signs out meanwhile.  The viewer (host-ui/src/viewer.rs) runs the  *)
(* desktop client on another computer's address and waits on a thread for  *)
(* its end, with what the client wrote of its troubles.                    *)
(***************************************************************************)
EXTENDS Integers, Sequences, TLC

CONSTANTS
  MaxSessions,  \* sessions the service gives out
  Addresses,    \* what a user may type: records [host, port], port 0 for none
  BasePort      \* crate::BASE_PORT

SignedOut == 0
Silent == ""    \* a client that reported nothing, a panel with nothing to say

VARIABLES
  session, token, file,  \* the session, by its number; what load_session would read
  unsaved,     \* the last save did not leave in the file what it was to
  issued,      \* sessions given out so far
  refresh,     \* the refresh thread: [at, next]
  show, stage_code, busy, message,  \* UserAccount
  worker,      \* the thread of send_code or verify: [at, next]
  rx,          \* what workers handed back
  raced,       \* the user signed out while a session was being fetched
  address, pin,  \* ViewerPanel
  phase,       \* [open, addr, note]
  child,       \* the client: [at, addr, said], said as its stderr tells it
  waiter       \* the thread that waits on it: [at, problem]

account == <<session, token, file, unsaved, issued, refresh, show, stage_code, busy, message, worker, rx, raced>>
viewing == <<address, pin, phase, child, waiter>>
panels == <<account, viewing>>

Thread(at, next) == [at |-> at, next |-> next]
NoThread == Thread("none", SignedOut)
NoAddress == [host |-> "", port |-> 0]
NoChild == [at |-> "none", addr |-> NoAddress, said |-> Silent]

\* load_session: a session of an earlier run, or none; its refresh is begun.
PanelsInit ==
  /\ file \in {SignedOut, 1} /\ session = file /\ token = file /\ issued = file
  /\ unsaved = FALSE
  /\ refresh = Thread("spawned", SignedOut)
  /\ show = FALSE /\ stage_code = FALSE /\ busy = FALSE /\ message = Silent
  /\ worker = NoThread /\ rx = <<>> /\ raced = FALSE
  /\ address = NoAddress /\ pin = FALSE
  /\ phase = [open |-> FALSE, addr |-> NoAddress, note |-> Silent]
  /\ child = NoChild /\ waiter = [at |-> "none", problem |-> Silent]

-----------------------------------------------------------------------------
(* The account                                                             *)

dialog == <<show, stage_code, busy, message>>

\* Errors are ignored.  A session is written over the old one in place: the
\* write may not begin, or stop where load_session no longer reads anything
\* (SignedOut); the file of one who signs out may stay.
save_session(n) ==
  /\ file' \in {n, file, SignedOut}
  /\ unsaved' = (file' # n)

\* The refresh thread takes a copy of the session, and asks; what it gets is
\* saved, then put in the token, then in the session.
RefreshReads ==
  /\ refresh.at = "spawned"
  /\ refresh' = IF session = SignedOut THEN NoThread ELSE Thread("asked", SignedOut)
  /\ UNCHANGED <<session, token, file, unsaved, issued>>
RefreshAnswered ==
  /\ refresh.at = "asked"
  /\ \/ /\ issued < MaxSessions /\ issued' = issued + 1
        /\ save_session(issued') /\ refresh' = Thread("saved", issued')
     \/ refresh' = NoThread /\ UNCHANGED <<issued, file, unsaved>>
  /\ UNCHANGED <<session, token>>
RefreshTokens ==
  /\ refresh.at = "saved"
  /\ token' = refresh.next /\ refresh' = [refresh EXCEPT !.at = "tokened"]
  /\ UNCHANGED <<session, file, unsaved, issued>>
RefreshEnds ==
  /\ refresh.at = "tokened"
  /\ session' = refresh.next /\ refresh' = NoThread
  /\ UNCHANGED <<token, file, unsaved, issued>>

Refresh ==
  /\ RefreshReads \/ RefreshAnswered \/ RefreshTokens \/ RefreshEnds
  /\ UNCHANGED <<dialog, worker, rx, raced>>

\* What a worker handed back.
Hears(m) ==
  \/ /\ m.kind = "code_sent" /\ stage_code' = TRUE /\ message' = "code_sent"
     /\ UNCHANGED <<session, token, show>>
  \/ /\ m.kind = "signed_in" /\ token' = m.session /\ session' = m.session
     /\ stage_code' = FALSE /\ message' = Silent /\ show' = FALSE
  \/ /\ m.kind = "failed" /\ message' = "failed"
     /\ UNCHANGED <<session, token, show, stage_code>>

\* Mutant: the button stays off after a failure.
drain_StaysBusy ==
  /\ rx # <<>> /\ rx' = Tail(rx) /\ Hears(Head(rx))
  /\ busy' = (Head(rx).kind = "failed")
  /\ UNCHANGED <<file, unsaved, issued, refresh, worker, raced>>

\* The window's next frame hears the workers, shown or not.
drain ==
  /\ rx # <<>> /\ rx' = Tail(rx) /\ Hears(Head(rx))
  /\ busy' = FALSE
  /\ UNCHANGED <<file, unsaved, issued, refresh, worker, raced>>

\* The button asks for a code at the first stage, and tries it at the second.
\* An address without an @ is asked for again.
send_code ==
  /\ ~stage_code
  /\ \/ busy' = TRUE /\ message' = Silent /\ worker' = Thread("otp", SignedOut)
     \/ message' = "no_email" /\ UNCHANGED <<busy, worker>>
verify ==
  /\ stage_code
  /\ busy' = TRUE /\ message' = Silent /\ worker' = Thread("verify", SignedOut)

Asks ==
  /\ show /\ session = SignedOut /\ ~busy
  /\ send_code \/ verify
  /\ UNCHANGED <<session, token, file, unsaved, issued, refresh, show, stage_code, rx, raced>>

different_email ==
  /\ show /\ session = SignedOut /\ stage_code
  /\ stage_code' = FALSE /\ message' = Silent
  /\ UNCHANGED <<session, token, file, unsaved, issued, refresh, show, busy, worker, rx, raced>>

\* The worker's call returns; a session is saved before it is handed over.
HandsBack(kind, n) == rx' = Append(rx, [kind |-> kind, session |-> n]) /\ worker' = NoThread
Worker ==
  /\ \/ /\ worker.at = "otp"
        /\ HandsBack("code_sent", SignedOut) \/ HandsBack("failed", SignedOut)
        /\ UNCHANGED <<file, unsaved, issued>>
     \/ /\ worker.at = "verify" /\ issued < MaxSessions
        /\ issued' = issued + 1 /\ save_session(issued') /\ worker' = Thread("saved", issued')
        /\ UNCHANGED rx
     \/ worker.at = "verify" /\ HandsBack("failed", SignedOut) /\ UNCHANGED <<file, unsaved, issued>>
     \/ worker.at = "saved" /\ HandsBack("signed_in", worker.next) /\ UNCHANGED <<file, unsaved, issued>>
  /\ UNCHANGED <<session, token, refresh, dialog, raced>>

\* The user's code was taken, and the session is on its way to the window.
Accepted == worker.at = "saved" \/ \E k \in DOMAIN rx : rx[k].kind = "signed_in"

\* A session is on its way to the three places that keep it.
Underway ==
  \/ refresh.at \in {"asked", "saved", "tokened"}
  \/ worker.at = "verify"
  \/ Accepted

\* Mutant: the file is left.
sign_out_LeavesFile ==
  /\ show /\ session # SignedOut
  /\ session' = SignedOut /\ token' = SignedOut
  /\ stage_code' = FALSE /\ message' = Silent /\ show' = FALSE
  /\ raced' = Underway
  /\ UNCHANGED <<file, unsaved, issued, refresh, busy, worker, rx>>

sign_out ==
  /\ show /\ session # SignedOut
  /\ session' = SignedOut /\ token' = SignedOut /\ save_session(SignedOut)
  /\ stage_code' = FALSE /\ message' = Silent /\ show' = FALSE
  /\ raced' = Underway
  /\ UNCHANGED <<issued, refresh, busy, worker, rx>>

\* The menu row opens the window, its corner closes it.
Shows ==
  /\ show' = ~show
  /\ UNCHANGED <<session, token, file, unsaved, issued, refresh, stage_code, busy, message, worker, rx, raced>>

\* The host is quit, or killed at any point, and started again.
Restarts ==
  /\ session' = file /\ token' = file /\ refresh' = Thread("spawned", SignedOut)
  /\ show' = FALSE /\ stage_code' = FALSE /\ busy' = FALSE /\ message' = Silent
  /\ worker' = NoThread /\ rx' = <<>> /\ raced' = FALSE
  /\ unsaved' = FALSE /\ UNCHANGED <<file, issued>>

AccountNext ==
  /\ Refresh \/ drain \/ Asks \/ different_email \/ Worker \/ sign_out \/ Shows \/ Restarts
  /\ UNCHANGED viewing

-----------------------------------------------------------------------------
(* The viewer                                                              *)

\* A computer found nearby is chosen: the code typed for another is cleared.
choose ==
  /\ \E a \in Addresses : a.port # 0 /\ address' = a
  /\ pin' = FALSE /\ UNCHANGED <<phase, child, waiter>>
Types ==
  /\ address' \in Addresses /\ pin' \in BOOLEAN /\ UNCHANGED <<phase, child, waiter>>

normalise_addr(a) == IF a.port = 0 THEN [a EXCEPT !.port = BasePort] ELSE a

\* The button, while nothing is open: no client beside the host, one that does
\* not start, or one that runs on the address typed.
launch ==
  /\ ~phase.open /\ address # NoAddress /\ UNCHANGED address
  /\ \/ \E why \in {"not_installed", "no_start"} :
          phase' = [open |-> FALSE, addr |-> NoAddress, note |-> why] /\ UNCHANGED <<pin, child, waiter>>
     \/ /\ pin' = FALSE
        /\ phase' = [open |-> TRUE, addr |-> normalise_addr(address), note |-> Silent]
        /\ child' = [at |-> "running", addr |-> normalise_addr(address), said |-> Silent]
        /\ waiter' = [at |-> "reading", problem |-> Silent]

\* The client reports an error, and goes on with its window; the hint for a
\* missing code follows the error.  It ends when its window is closed.
Client ==
  /\ child.at = "running"
  /\ \/ child.said = Silent /\ \E e \in {"error", "needs_code"} : child' = [child EXCEPT !.said = e]
     \/ child' = [child EXCEPT !.at = "exited"]
  /\ UNCHANGED <<address, pin, phase, waiter>>

\* The waiter hears what the client says, then its end.
Waits ==
  /\ \/ /\ waiter.at = "reading" /\ waiter.problem # child.said
        /\ waiter' = [waiter EXCEPT !.problem = child.said] /\ UNCHANGED <<phase, child>>
     \/ /\ waiter.at = "reading" /\ waiter.problem = child.said /\ child.at = "exited"
        /\ waiter' = [at |-> "none", problem |-> Silent] /\ child' = NoChild
        /\ phase' = [open |-> FALSE, addr |-> NoAddress, note |-> waiter.problem]
  /\ UNCHANGED <<address, pin>>

ViewerNext == (choose \/ Types \/ launch \/ Client \/ Waits) /\ UNCHANGED account

PanelsNext == AccountNext \/ ViewerNext

-----------------------------------------------------------------------------
\* At rest the token ("kept beside the session", account.rs:146) is the session's,
\* and the file too unless the last save failed; and whoever signed out stays so,
\* through new starts and kills between any two steps, until a code is accepted.
\* Not so if the user signed out while a session was being fetched (raced): what
\* is fetched then signs in again.
AccountKept ==
  /\ [](Underway \/ raced \/ (token = session /\ (unsaved \/ file = session)))
  /\ [][(session = SignedOut /\ session' # SignedOut) => (Accepted \/ raced \/ unsaved)]_panels

\* The panel shows a connection exactly while there is a client, and names the
\* computer that client was sent to.
ViewerTrue == (phase.open <=> child.at # "none") /\ (phase.open => phase.addr = child.addr)

\* The button comes back whatever the service answers; a viewer that has ended
\* leaves the panel ready for another, with the reason it gave; and the panel
\* never names another computer than the one its client was sent to.
PanelsSettle ==
  /\ busy ~> ~busy
  /\ \A e \in {Silent, "error", "needs_code"} :
       (child.at = "exited" /\ child.said = e) ~> (~phase.open /\ phase.note = e)
  /\ []ViewerTrue
=============================================================================
