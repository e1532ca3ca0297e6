----------------------------- MODULE Dashboard ------------------------------
(***************************************************************************)
(* The web dashboard's login (bridge/dashboard/) beside the commands that  *)
(* share its state: the password, which the wizard, the commands of        *)
(* bridge/admin/ and the dashboard itself may set, and the pause.  HTTP    *)
(* handlers run concurrently, and each awaits the body of its request      *)
(* after it has looked at the lock or at the session.                      *)
(*                                                                         *)
(* Failed logins are counted per address and the addresses share nothing:  *)
(* one address is modelled.  Time is relative: what is left of a lock, the *)
(* age of a failure.                                                       *)
(***************************************************************************)
EXTENDS Naturals, FiniteSets, FiniteSetsExt

CONSTANTS
  Client,       \* browsers, each with at most one request under way
  Password, NoPassword,
  MAX_FAILS,
  LOCK_SECONDS, \* in ticks of the clock
  MaxRestarts   \* bound: ends of the process

ASSUME ClientAssumption == IsFiniteSet(Client)
ASSUME PasswordAssumption == NoPassword \notin Password
ASSUME LockAssumption == MAX_FAILS \in Nat \ {0} /\ LOCK_SECONDS \in Nat \ {0}
ASSUME MaxRestartsAssumption == MaxRestarts \in Nat

VARIABLES
  proc,       \* what is running
  installed,  \* the wizard has finished
  record,     \* dash_auth in the store: the password in force
  flag,       \* meta "paused"
  paused,     \* bridge.paused
  fails,      \* AuthEngine._fails: the count, and what is left of the lock
  sessions,   \* AuthEngine._sessions: the clients with a valid cookie
  request,    \* what each client's request awaits the body for
  restarts,
  shown,      \* history: the password an operator was shown and nobody has set since
  told,       \* history: the last answer about the pause: is it on?
  recent      \* history: wrong passwords compared, by age, since a right one

memVars == <<paused, fails, sessions, request>>
histVars == <<shown, told, recent>>
dashVars == <<installed, record, flag, memVars, restarts, histVars>>

Ages == 0..(LOCK_SECONDS - 1)

DashTypeOK ==
  /\ proc \in {"down", "installer", "full"}
  /\ installed \in BOOLEAN /\ paused \in BOOLEAN /\ told \in BOOLEAN
  /\ record \in Password \cup {NoPassword}
  /\ shown \in Password \cup {NoPassword}
  /\ flag \in {"", "0", "1"}
  /\ fails \in [count : 0..MAX_FAILS, left : 0..LOCK_SECONDS]
  /\ sessions \subseteq Client
  /\ request \in [Client -> {"none", "login", "passwd"}]
  /\ restarts \in 0..MaxRestarts
  /\ recent \in [Ages -> Nat]

NoFails == [count |-> 0, left |-> 0]
Nothing == [a \in Ages |-> 0]

\* What a process starts with.
FreshMemory ==
  /\ fails' = NoFails
  /\ sessions' = {}
  /\ request' = [c \in Client |-> "none"]
  /\ recent' = Nothing

DashInit ==
  /\ proc = "down" /\ installed = FALSE /\ restarts = 0
  /\ record = NoPassword /\ shown = NoPassword
  /\ flag = "" /\ paused = FALSE /\ told = FALSE
  /\ fails = NoFails /\ sessions = {}
  /\ request = [c \in Client |-> "none"]
  /\ recent = Nothing

Up == proc # "down"
Idle(c) == Up /\ request[c] = "none"
Become(c, what) == request' = [request EXCEPT ![c] = what]

-----------------------------------------------------------------------------
(* AuthEngine *)

Locked == fails.count >= MAX_FAILS /\ fails.left > 0

\* Locks when the limit is met, not when it is passed.
RegisterFailOnce ==
  IF fails.count + 1 = MAX_FAILS
    THEN [count |-> MAX_FAILS, left |-> LOCK_SECONDS]
    ELSE [fails EXCEPT !.count = IF @ < MAX_FAILS THEN @ + 1 ELSE @]
\* Lets the count run past the limit.
RegisterFailUncapped ==
  [count |-> fails.count + 1,
   left |-> IF fails.count + 1 >= MAX_FAILS THEN LOCK_SECONDS ELSE fails.left]
\* register_fail
RegisterFail ==
  IF fails.count + 1 >= MAX_FAILS
    THEN [count |-> MAX_FAILS, left |-> LOCK_SECONDS]
    ELSE [fails EXCEPT !.count = @ + 1]

\* Makes a password whether there is one or not, and shows it only the first time.
EnsureAlwaysMakes(p) ==
  /\ record' = p
  /\ shown' = IF record = NoPassword THEN p ELSE shown
\* ensure_credentials, for a caller that shows the password it makes.
EnsureShown(p) ==
  IF record = NoPassword
    THEN record' = p /\ shown' = p
    ELSE UNCHANGED <<record, shown>>

\* ensure_credentials, for a caller that does not.
EnsureHidden(p) ==
  /\ record' = IF record = NoPassword THEN p ELSE record
  /\ UNCHANGED shown

\* set_credentials, with a password somebody has chosen.
SetPassword(p) == record' = p /\ shown' = NoPassword

-----------------------------------------------------------------------------
(* dashboard/api.py: login *)

LoginArrives(c) ==
  /\ Idle(c)
  /\ ~Locked
  /\ Become(c, "login")
  /\ UNCHANGED <<proc, installed, record, flag, paused, fails, sessions, restarts,
                 histVars>>

\* Counts the attempt it turns away.
LoginRefusedCounts(c) ==
  /\ Idle(c)
  /\ Locked
  /\ fails' = RegisterFail
  /\ UNCHANGED <<proc, installed, record, flag, paused, sessions, request, restarts,
                 histVars>>
\* 429: an attempt while the address is locked is not counted.
LoginRefused(c) ==
  /\ Idle(c)
  /\ Locked
  /\ UNCHANGED <<proc, dashVars>>

\* verify fails: the lock is not asked again.
LoginWrong(c) ==
  /\ request[c] = "login"
  /\ Become(c, "none")
  /\ fails' = RegisterFail
  /\ recent' = [recent EXCEPT ![0] = @ + 1]
  /\ UNCHANGED <<proc, installed, record, flag, paused, sessions, restarts, shown,
                 told>>

LoginRight(c) ==
  /\ request[c] = "login"
  /\ record # NoPassword
  /\ Become(c, "none")
  /\ fails' = NoFails
  /\ sessions' = sessions \cup {c}
  /\ recent' = Nothing
  /\ UNCHANGED <<proc, installed, record, flag, paused, restarts, shown, told>>

\* The body cannot be read (error_mw answers 500), or the client goes away.
RequestBreaks(c) ==
  /\ request[c] # "none"
  /\ Become(c, "none")
  /\ UNCHANGED <<proc, installed, record, flag, paused, fails, sessions, restarts,
                 histVars>>

\* logout, and is_valid of an expired session.
SessionEnds(c) ==
  /\ c \in sessions
  /\ sessions' = sessions \ {c}
  /\ UNCHANGED <<proc, installed, record, flag, paused, fails, request, restarts,
                 histVars>>

\* change_pw: security_mw looks at the session before the body is read.
PasswdArrives(c) ==
  /\ Idle(c)
  /\ c \in sessions
  /\ Become(c, "passwd")
  /\ UNCHANGED <<proc, installed, record, flag, paused, fails, sessions, restarts,
                 histVars>>

PasswdEnds(c, p) ==
  /\ request[c] = "passwd"
  /\ Become(c, "none")
  /\ SetPassword(p)
  /\ UNCHANGED <<proc, installed, flag, paused, fails, sessions, restarts, told,
                 recent>>

-----------------------------------------------------------------------------
(* The commands of the administrator, and the wizard *)

\* /dashboard
DashboardCommand(p) ==
  /\ proc = "full"
  /\ EnsureShown(p)
  /\ UNCHANGED <<proc, installed, flag, memVars, restarts, told, recent>>

\* The wizard's button for the dashboard.
DashInfo(p) ==
  /\ Up
  /\ EnsureShown(p)
  /\ UNCHANGED <<proc, installed, flag, memVars, restarts, told, recent>>

\* /passwd
PasswdCommand(p) ==
  /\ proc = "full"
  /\ SetPassword(p)
  /\ UNCHANGED <<proc, installed, flag, memVars, restarts, told, recent>>

\* /dashuser: change_user makes a password when there is none and shows it to nobody.
DashUserCommand(p) ==
  /\ proc = "full"
  /\ EnsureHidden(p)
  /\ UNCHANGED <<proc, installed, flag, memVars, restarts, told, recent>>

SetPaused(b) ==
  /\ paused' = b /\ told' = b
  /\ flag' = IF b THEN "1" ELSE "0"

\* /pause and /resume
PauseCommand(b) ==
  /\ proc = "full"
  /\ SetPaused(b)
  /\ UNCHANGED <<proc, installed, record, fails, sessions, request, restarts, shown,
                 recent>>

\* ControlEngine: without a bridge the answer is 409.
PauseRequest(c, b) ==
  /\ Idle(c) /\ c \in sessions
  /\ proc = "full"
  /\ SetPaused(b)
  /\ UNCHANGED <<proc, installed, record, fails, sessions, request, restarts, shown,
                 recent>>

-----------------------------------------------------------------------------
(* The process and the clock *)

Tick ==
  /\ fails' = [fails EXCEPT !.left = IF @ = 0 THEN 0 ELSE @ - 1]
  /\ recent' = [a \in Ages |-> IF a = 0 THEN 0 ELSE recent[a - 1]]
  /\ UNCHANGED <<proc, installed, record, flag, paused, sessions, request, restarts,
                 shown, told>>

Stop(done) ==
  /\ Up
  /\ restarts < MaxRestarts
  /\ restarts' = restarts + 1
  /\ proc' = "down"
  /\ installed' = (installed \/ (done /\ proc = "installer"))
  /\ paused' = FALSE
  /\ FreshMemory
  /\ UNCHANGED <<record, flag, shown, told>>

\* Starts with the bridge running.
BootForgetsPause ==
  /\ proc = "down"
  /\ proc' = IF installed THEN "full" ELSE "installer"
  /\ UNCHANGED <<installed, record, flag, memVars, restarts, histVars>>
\* bridge_and_admin reads the flag; the installer has no bridge.
Boot ==
  /\ proc = "down"
  /\ proc' = IF installed THEN "full" ELSE "installer"
  /\ paused' = (installed /\ flag = "1")
  /\ UNCHANGED <<installed, record, flag, fails, sessions, request, restarts, histVars>>

-----------------------------------------------------------------------------
Command ==
  \/ \E p \in Password :
       DashboardCommand(p) \/ DashInfo(p) \/ PasswdCommand(p) \/ DashUserCommand(p)
  \/ \E b \in BOOLEAN : PauseCommand(b)

Http(c) ==
  \/ LoginArrives(c) \/ LoginRefused(c) \/ LoginWrong(c) \/ LoginRight(c)
  \/ RequestBreaks(c) \/ SessionEnds(c)
  \/ PasswdArrives(c)
  \/ \E p \in Password : PasswdEnds(c, p)
  \/ \E b \in BOOLEAN : PauseRequest(c, b)

DashNext ==
  \/ Command
  \/ \E c \in Client : Http(c)
  \/ Tick
  \/ \E done \in BOOLEAN : Stop(done)
  \/ Boot

-----------------------------------------------------------------------------
(* Properties *)

\* What an operator was last told about the pause is what the bridge does, through
\* restarts, crashes and changes from either surface (README.md:279).
PauseKept == proc = "full" => (paused <=> told)

\* In any stretch of LOCK_SECONDS without a right password, at most MAX_FAILS wrong
\* ones are compared, and those of the requests that had been let in when the last
\* of them closed the lock (README.md:302, five failures and sixty seconds).
BoundedGuesses ==
  MapThenSumSet(LAMBDA a : recent[a], Ages) <= MAX_FAILS - 1 + Cardinality(Client)

\* A lock ends, even for a client that keeps asking while it lasts.
LockEnds == Locked ~> ~Locked

\* The password an operator was shown opens the dashboard until somebody chooses
\* another, whatever else is done to the account.
ShownPasswordWorks == shown # NoPassword => record = shown
=============================================================================
