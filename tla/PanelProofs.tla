---------------------------- MODULE PanelProofs -----------------------------
(***************************************************************************)
(* Proofs about the dashboard and the operations, for any number of        *)
(* browsers, surfaces, pairs, faults and restarts, any passwords and any   *)
(* limits of the lock: what an operator was told about the pause is what   *)
(* the bridge does, a password an operator was shown works, every test post *)
(* on the platform is accounted for, and the id of a removed pair does not *)
(* come back.                                                              *)
(***************************************************************************)
EXTENDS MCParts, FiniteSetTheorems, WellFoundedInduction, TLAPS

-----------------------------------------------------------------------------
(* The dashboard                                                           *)

\* The safety part of Dashboard.
DashSpec == DashInit /\ [][DashNext]_<<proc, dashVars>>

-----------------------------------------------------------------------------
(* The inductive invariant *)

\* The store remembers what was told, also while nothing runs and in the installer.
Flagged == flag = "1" <=> told

DashInv == DashTypeOK /\ Flagged /\ PauseKept /\ ShownPasswordWorks

LEMMA DashInvInit == DashInit => DashInv
<1> SUFFICES ASSUME DashInit PROVE DashInv
  OBVIOUS
<1>1. /\ fails \in [count : 0..MAX_FAILS, left : 0..LOCK_SECONDS]
      /\ recent \in [Ages -> Nat]
      /\ restarts \in 0..MaxRestarts
  <2>1. fails = NoFails /\ recent = Nothing /\ restarts = 0
    BY DEF DashInit
  <2>2. NoFails \in [count : 0..MAX_FAILS, left : 0..LOCK_SECONDS]
    BY LockAssumption DEF NoFails
  <2>3. Nothing \in [Ages -> Nat]
    BY DEF Nothing
  <2>4. 0 \in 0..MaxRestarts
    BY MaxRestartsAssumption
  <2> QED
    BY <2>1, <2>2, <2>3, <2>4
<1>2. DashTypeOK
  <2>1. request \in [Client -> {"none", "login", "passwd"}]
    BY DEF DashInit
  <2>2. /\ proc \in {"down", "installer", "full"} /\ flag \in {"", "0", "1"}
        /\ installed \in BOOLEAN /\ paused \in BOOLEAN /\ told \in BOOLEAN
        /\ sessions \subseteq Client
        /\ record \in Password \cup {NoPassword} /\ shown \in Password \cup {NoPassword}
    BY DEF DashInit
  <2> QED
    BY <1>1, <2>1, <2>2 DEF DashTypeOK
<1>3. Flagged /\ PauseKept /\ ShownPasswordWorks
  BY DEF DashInit, Flagged, PauseKept, ShownPasswordWorks
<1> QED
  BY <1>2, <1>3 DEF DashInv

\* A failure counts up to the limit and no further.
LEMMA RegisterFailType ==
  ASSUME DashTypeOK
  PROVE  RegisterFail \in [count : 0..MAX_FAILS, left : 0..LOCK_SECONDS]
<1>1. /\ fails.count \in 0..MAX_FAILS /\ fails.left \in 0..LOCK_SECONDS
      /\ fails = [count |-> fails.count, left |-> fails.left]
  BY DEF DashTypeOK
<1>2. CASE fails.count + 1 >= MAX_FAILS
  BY <1>2, LockAssumption DEF RegisterFail
<1>3. CASE ~(fails.count + 1 >= MAX_FAILS)
  <2>1. fails.count + 1 \in 0..MAX_FAILS
    BY <1>1, <1>3, LockAssumption
  <2>2. RegisterFail = [fails EXCEPT !.count = fails.count + 1]
    BY <1>3 DEF RegisterFail
  <2> QED
    BY <1>1, <2>1, <2>2
<1> QED
  BY <1>2, <1>3

LEMMA NoFailsType == NoFails \in [count : 0..MAX_FAILS, left : 0..LOCK_SECONDS]
BY LockAssumption DEF NoFails

\* A step that leaves the pause and the account alone.
LEMMA LoginStep ==
  ASSUME DashInv,
         UNCHANGED <<proc, installed, record, flag, paused, restarts, shown, told>>,
         fails' \in [count : 0..MAX_FAILS, left : 0..LOCK_SECONDS],
         sessions' \subseteq Client,
         request' \in [Client -> {"none", "login", "passwd"}],
         recent' \in [Ages -> Nat]
  PROVE  DashInv'
<1>1. DashTypeOK'
  BY DEF DashInv, DashTypeOK
<1>2. Flagged' /\ PauseKept' /\ ShownPasswordWorks'
  BY DEF DashInv, Flagged, PauseKept, ShownPasswordWorks
<1> QED
  BY <1>1, <1>2 DEF DashInv

\* A step that only changes the account.
LEMMA AccountStep ==
  ASSUME DashInv,
         record' \in Password \cup {NoPassword}, shown' \in Password \cup {NoPassword},
         ShownPasswordWorks',
         UNCHANGED <<proc, installed, flag, paused, fails, sessions, restarts, told,
                     recent>>,
         request' \in [Client -> {"none", "login", "passwd"}]
  PROVE  DashInv'
<1>1. DashTypeOK'
  BY DEF DashInv, DashTypeOK
<1>2. Flagged' /\ PauseKept'
  BY DEF DashInv, Flagged, PauseKept
<1> QED
  BY <1>1, <1>2 DEF DashInv

\* A step that only changes the pause.
LEMMA PauseStep ==
  ASSUME DashInv, NEW b \in BOOLEAN, SetPaused(b),
         UNCHANGED <<proc, installed, record, fails, sessions, request, restarts, shown,
                     recent>>
  PROVE  DashInv'
<1>1. paused' = b /\ told' = b /\ flag' = IF b THEN "1" ELSE "0"
  BY DEF SetPaused
<1>2. DashTypeOK'
  BY <1>1 DEF DashInv, DashTypeOK
<1>3. Flagged' /\ PauseKept' /\ ShownPasswordWorks'
  BY <1>1 DEF DashInv, Flagged, PauseKept, ShownPasswordWorks
<1> QED
  BY <1>2, <1>3 DEF DashInv

-----------------------------------------------------------------------------
(* Requests *)

LEMMA BecomeType ==
  ASSUME DashInv, NEW c \in Client, NEW what \in {"none", "login", "passwd"},
         Become(c, what)
  PROVE  request' \in [Client -> {"none", "login", "passwd"}]
BY DEF DashInv, DashTypeOK, Become

LEMMA HttpKeeps ==
  ASSUME DashInv, NEW c \in Client, Http(c)
  PROVE  DashInv'
<1>t. /\ fails \in [count : 0..MAX_FAILS, left : 0..LOCK_SECONDS]
      /\ sessions \subseteq Client
      /\ request \in [Client -> {"none", "login", "passwd"}]
      /\ recent \in [Ages -> Nat]
      /\ record \in Password \cup {NoPassword}
  BY DEF DashInv, DashTypeOK
<1>1. CASE LoginArrives(c)
  BY <1>1, <1>t, BecomeType, LoginStep DEF LoginArrives, histVars
<1>2. CASE LoginRefused(c)
  BY <1>2, <1>t, LoginStep DEF LoginRefused, dashVars, memVars, histVars
<1>3. CASE LoginWrong(c)
  <2>1. fails' \in [count : 0..MAX_FAILS, left : 0..LOCK_SECONDS]
    BY <1>3, RegisterFailType DEF LoginWrong, DashInv
  <2>2. recent' \in [Ages -> Nat]
    <3>1. 0 \in Ages
      BY LockAssumption DEF Ages
    <3>2. recent' = [recent EXCEPT ![0] = recent[0] + 1] /\ recent[0] + 1 \in Nat
      BY <1>3, <1>t, <3>1 DEF LoginWrong
    <3> QED
      BY <1>t, <3>2
  <2> QED
    BY <1>3, <1>t, <2>1, <2>2, BecomeType, LoginStep DEF LoginWrong
<1>4. CASE LoginRight(c)
  <2>1. recent' \in [Ages -> Nat]
    BY <1>4 DEF LoginRight, Nothing
  <2> QED
    BY <1>4, <1>t, <2>1, NoFailsType, BecomeType, LoginStep DEF LoginRight
<1>5. CASE RequestBreaks(c)
  BY <1>5, <1>t, BecomeType, LoginStep DEF RequestBreaks, histVars
<1>6. CASE SessionEnds(c)
  BY <1>6, <1>t, LoginStep DEF SessionEnds, histVars
<1>7. CASE PasswdArrives(c)
  BY <1>7, <1>t, BecomeType, LoginStep DEF PasswdArrives, histVars
<1>8. ASSUME NEW p \in Password, PasswdEnds(c, p) PROVE DashInv'
  <2>1. record' = p /\ shown' = NoPassword
    BY <1>8 DEF PasswdEnds, SetPassword
  <2>2. ShownPasswordWorks'
    BY <2>1 DEF ShownPasswordWorks
  <2> QED
    BY <1>8, <2>1, <2>2, BecomeType, AccountStep DEF PasswdEnds
<1>9. ASSUME NEW b \in BOOLEAN, PauseRequest(c, b) PROVE DashInv'
  BY <1>9, PauseStep DEF PauseRequest
<1> QED
  BY <1>1, <1>2, <1>3, <1>4, <1>5, <1>6, <1>7, <1>8, <1>9 DEF Http

-----------------------------------------------------------------------------
(* Commands *)

\* Whoever asks for the password is shown the one in force, or none.
LEMMA EnsureShownKeeps ==
  ASSUME DashInv, NEW p \in Password, EnsureShown(p) \/ EnsureHidden(p) \/ SetPassword(p),
         UNCHANGED <<proc, installed, flag, memVars, restarts, told, recent>>
  PROVE  DashInv'
<1>t. /\ record \in Password \cup {NoPassword} /\ shown \in Password \cup {NoPassword}
      /\ request \in [Client -> {"none", "login", "passwd"}]
      /\ ShownPasswordWorks
  BY DEF DashInv, DashTypeOK
<1>1. /\ record' \in Password \cup {NoPassword} /\ shown' \in Password \cup {NoPassword}
      /\ ShownPasswordWorks'
  BY <1>t DEF EnsureShown, EnsureHidden, SetPassword, ShownPasswordWorks
<1> QED
  BY <1>t, <1>1, AccountStep DEF memVars

LEMMA CommandKeeps ==
  ASSUME DashInv, Command
  PROVE  DashInv'
<1>1. ASSUME NEW p \in Password,
             DashboardCommand(p) \/ DashInfo(p) \/ PasswdCommand(p) \/ DashUserCommand(p)
      PROVE  DashInv'
  BY <1>1, EnsureShownKeeps DEF DashboardCommand, DashInfo, PasswdCommand, DashUserCommand
<1>2. ASSUME NEW b \in BOOLEAN, PauseCommand(b) PROVE DashInv'
  BY <1>2, PauseStep DEF PauseCommand
<1> QED
  BY <1>1, <1>2 DEF Command

-----------------------------------------------------------------------------
(* The process and the clock *)

LEMMA TickKeeps ==
  ASSUME DashInv, Tick
  PROVE  DashInv'
<1>t. /\ fails \in [count : 0..MAX_FAILS, left : 0..LOCK_SECONDS]
      /\ recent \in [Ages -> Nat]
      /\ sessions \subseteq Client
      /\ request \in [Client -> {"none", "login", "passwd"}]
  BY DEF DashInv, DashTypeOK
<1>1. fails' \in [count : 0..MAX_FAILS, left : 0..LOCK_SECONDS]
  <2>1. fails.left = 0 \/ fails.left - 1 \in 0..LOCK_SECONDS
    BY <1>t, LockAssumption
  <2>2. fails' = [fails EXCEPT !.left = IF fails.left = 0 THEN 0 ELSE fails.left - 1]
    BY DEF Tick
  <2>3. 0 \in 0..LOCK_SECONDS
    BY LockAssumption
  <2> QED
    BY <1>t, <2>1, <2>2, <2>3
<1>2. recent' \in [Ages -> Nat]
  <2>1. \A a \in Ages : a # 0 => a - 1 \in Ages
    BY LockAssumption DEF Ages
  <2>2. recent' = [a \in Ages |-> IF a = 0 THEN 0 ELSE recent[a - 1]]
    BY DEF Tick
  <2> QED
    BY <1>t, <2>1, <2>2
<1> QED
  BY <1>t, <1>1, <1>2, LoginStep DEF Tick

LEMMA StopKeeps ==
  ASSUME DashInv, NEW done \in BOOLEAN, Stop(done)
  PROVE  DashInv'
<1>1. /\ proc' = "down" /\ paused' = FALSE
      /\ restarts < MaxRestarts /\ restarts' = restarts + 1
      /\ installed' = (installed \/ (done /\ proc = "installer"))
      /\ fails' = NoFails /\ sessions' = {}
      /\ request' = [c \in Client |-> "none"] /\ recent' = Nothing
      /\ UNCHANGED <<record, flag, shown, told>>
  BY DEF Stop, FreshMemory
<1>2. restarts' \in 0..MaxRestarts
  <2>1. restarts \in 0..MaxRestarts
    BY DEF DashInv, DashTypeOK
  <2>2. restarts < MaxRestarts /\ restarts' = restarts + 1
    BY <1>1
  <2> QED
    BY <2>1, <2>2, MaxRestartsAssumption
<1>3. recent' \in [Ages -> Nat] /\ request' \in [Client -> {"none", "login", "passwd"}]
  BY <1>1 DEF Nothing
<1>4. installed' \in BOOLEAN
  BY <1>1 DEF DashInv, DashTypeOK
<1>5. DashTypeOK'
  BY <1>1, <1>2, <1>3, <1>4, NoFailsType DEF DashInv, DashTypeOK
<1>6. Flagged' /\ PauseKept' /\ ShownPasswordWorks'
  BY <1>1 DEF DashInv, Flagged, PauseKept, ShownPasswordWorks
<1> QED
  BY <1>5, <1>6 DEF DashInv

\* The bridge begins with the pause the store remembers.
LEMMA BootKeeps ==
  ASSUME DashInv, Boot
  PROVE  DashInv'
<1>1. /\ proc' = IF installed THEN "full" ELSE "installer"
      /\ paused' = (installed /\ flag = "1")
      /\ UNCHANGED <<installed, record, flag, fails, sessions, request, restarts, histVars>>
  BY DEF Boot
<1>2. proc' \in {"installer", "full"} /\ paused' \in BOOLEAN
  BY <1>1
<1>3. DashTypeOK'
  BY <1>1, <1>2 DEF DashInv, DashTypeOK, histVars
<1>4. Flagged' /\ ShownPasswordWorks'
  BY <1>1 DEF DashInv, Flagged, ShownPasswordWorks, histVars
<1>5. PauseKept'
  BY <1>1 DEF DashInv, Flagged, PauseKept, histVars
<1> QED
  BY <1>3, <1>4, <1>5 DEF DashInv

LEMMA DashStep ==
  ASSUME DashInv, [DashNext]_<<proc, dashVars>>
  PROVE  DashInv'
<1>1. CASE UNCHANGED <<proc, dashVars>>
  <2>1. DashTypeOK'
    BY <1>1 DEF DashInv, DashTypeOK, dashVars, memVars, histVars
  <2>2. Flagged' /\ PauseKept' /\ ShownPasswordWorks'
    BY <1>1 DEF DashInv, Flagged, PauseKept, ShownPasswordWorks, dashVars, memVars, histVars
  <2> QED
    BY <2>1, <2>2 DEF DashInv
<1> QED
  BY <1>1, CommandKeeps, HttpKeeps, TickKeeps, StopKeeps, BootKeeps DEF DashNext

-----------------------------------------------------------------------------
(* Theorems *)

\* The types of the dashboard's state, and how it relates to the store.
THEOREM DashboardInvariant == DashSpec => []DashInv
<1>1. DashInit => DashInv
  BY DashInvInit
<1>2. DashInv /\ [DashNext]_<<proc, dashVars>> => DashInv'
  BY DashStep
<1> QED
  BY <1>1, <1>2, PTL DEF DashSpec

\* A bridge that runs is paused exactly if the last answer about the pause said so,
\* through restarts and from whichever surface it was changed.
THEOREM PauseIsKept == DashSpec => []PauseKept
<1>1. DashInv => PauseKept
  BY DEF DashInv
<1> QED
  BY <1>1, DashboardInvariant, PTL

\* ensure_credentials never replaces a password an operator was shown.
THEOREM ShownPasswordsWork == DashSpec => []ShownPasswordWorks
<1>1. DashInv => ShownPasswordWorks
  BY DEF DashInv
<1> QED
  BY <1>1, DashboardInvariant, PTL

-----------------------------------------------------------------------------
(* Counting guesses *)

Counts == [Ages -> Nat]

\* One element for each of the guesses r counts at the ages in S.
Tally(r, S) == { g \in S \X Nat : g[2] < r[g[1]] }

LEMMA AgesFinite == IsFiniteSet(Ages) /\ 0 \in Ages
BY LockAssumption, FS_Interval DEF Ages

\* The guesses of one age are as many as the count says.
LEMMA TallyOfOne ==
  ASSUME NEW r \in Counts, NEW a \in Ages
  PROVE  IsFiniteSet(Tally(r, {a})) /\ Cardinality(Tally(r, {a})) = r[a]
<1>1. r[a] \in Nat
  BY DEF Counts
<1>2. IsFiniteSet(1..r[a]) /\ Cardinality(1..r[a]) = r[a]
  BY <1>1, FS_Interval
<1> DEFINE f == [i \in 1..r[a] |-> <<a, i - 1>>]
<1>3. f \in Bijection(1..r[a], Tally(r, {a}))
  <2>1. \A i \in 1..r[a] : f[i] \in Tally(r, {a})
    BY <1>1 DEF Tally
  <2>2. \A i, j \in 1..r[a] : f[i] = f[j] => i = j
    BY <1>1
  <2>3. \A g \in Tally(r, {a}) : \E i \in 1..r[a] : f[i] = g
    <3>1. SUFFICES ASSUME NEW g \in Tally(r, {a}) PROVE \E i \in 1..r[a] : f[i] = g
      OBVIOUS
    <3>2. PICK k \in Nat : g = <<a, k>> /\ k < r[a]
      BY DEF Tally
    <3>3. k + 1 \in 1..r[a] /\ (k + 1) - 1 = k
      BY <1>1, <3>2
    <3> QED
      BY <3>2, <3>3
  <2> QED
    BY <2>1, <2>2, <2>3 DEF Bijection, Injection, Surjection, IsInjective
<1> HIDE DEF f
<1>4. ExistsBijection(1..r[a], Tally(r, {a}))
  BY <1>3 DEF ExistsBijection
<1> QED
  BY <1>2, <1>4, FS_Bijection

\* The guesses of two different groups of ages add up.
LEMMA TallyAdds ==
  ASSUME NEW r \in Counts, NEW S \in SUBSET Ages, NEW a \in S,
         IsFiniteSet(Tally(r, S \ {a}))
  PROVE  /\ IsFiniteSet(Tally(r, S))
         /\ Cardinality(Tally(r, S)) = r[a] + Cardinality(Tally(r, S \ {a}))
<1>1. a \in Ages /\ r[a] \in Nat
  BY DEF Counts
<1>2. Tally(r, S) = Tally(r, {a}) \cup Tally(r, S \ {a})
  BY DEF Tally
<1>3. Tally(r, {a}) \cap Tally(r, S \ {a}) = {}
  BY DEF Tally
<1>4. IsFiniteSet(Tally(r, {a})) /\ Cardinality(Tally(r, {a})) = r[a]
  BY <1>1, TallyOfOne
<1>5. /\ IsFiniteSet(Tally(r, S))
      /\ Cardinality(Tally(r, S)) = r[a] + Cardinality(Tally(r, S \ {a})) - Cardinality({})
  <2> DEFINE T == Tally(r, {a})  U == Tally(r, S \ {a})
  <2> HIDE DEF T, U
  <2>1. IsFiniteSet(T) /\ Cardinality(T) = r[a] /\ IsFiniteSet(U) /\ T \cap U = {}
    BY <1>3, <1>4 DEF T, U
  <2>2. IsFiniteSet(T \cup U) /\ Cardinality(T \cup U) = r[a] + Cardinality(U) - Cardinality({})
    BY <2>1, FS_Union
  <2> QED
    BY <1>2, <2>2 DEF T, U
<1>6. Cardinality(Tally(r, S \ {a})) \in Nat /\ Cardinality({}) = 0
  BY FS_CardinalityType, FS_EmptySet
<1> QED
  BY <1>1, <1>5, <1>6

\* Ages without which a claim about ages fails leave one that fails first.
LEMMA SmallestAges ==
  ASSUME NEW Bad \in SUBSET (SUBSET Ages), Bad # {}
  PROVE  \E S \in Bad : \A a \in S : S \ {a} \notin Bad
<1>1. IsWellFoundedOn(StrictSubsetOrdering(Ages), SUBSET Ages)
  BY AgesFinite, FS_StrictSubsetOrderingWellFounded, FS_FiniteSubsetsOfFinite
<1>2. PICK S \in Bad : \A T \in Bad : <<T, S>> \notin StrictSubsetOrdering(Ages)
  BY <1>1, WFMin
<1>3. ASSUME NEW a \in S PROVE <<S \ {a}, S>> \in StrictSubsetOrdering(Ages)
  BY DEF StrictSubsetOrdering
<1> QED
  BY <1>2, <1>3

LEMMA TallyFinite ==
  ASSUME NEW r \in Counts, NEW S \in SUBSET Ages
  PROVE  IsFiniteSet(Tally(r, S)) /\ Cardinality(Tally(r, S)) \in Nat
<1> DEFINE Bad == { T \in SUBSET Ages : ~IsFiniteSet(Tally(r, T)) }
<1>1. Bad = {}
  <2>1. SUFFICES ASSUME Bad # {} PROVE FALSE
    OBVIOUS
  <2>2. PICK T \in Bad : \A a \in T : T \ {a} \notin Bad
    BY <2>1, SmallestAges
  <2>3. CASE T = {}
    <3>1. Tally(r, T) = {}
      BY <2>3 DEF Tally
    <3> QED
      BY <3>1, FS_EmptySet
  <2>4. ASSUME NEW a \in T PROVE FALSE
    <3>1. IsFiniteSet(Tally(r, T \ {a}))
      BY <2>2, <2>4
    <3> QED
      BY <3>1, TallyAdds
  <2> QED
    BY <2>3, <2>4
<1> QED
  BY <1>1, FS_CardinalityType

SumOf(r) == MapThenSumSet(LAMBDA a : r[a], Ages)

\* What a sum over ages is by the definition of the fold.
SumOver(r, g) ==
  g = [S \in SUBSET Ages |->
         IF S = {} THEN 0
         ELSE r[CHOOSE a \in S : TRUE] + g[S \ {CHOOSE a \in S : TRUE}]]

\* The sum of the counts is the number of the guesses.
LEMMA SumIsTally ==
  ASSUME NEW r \in Counts
  PROVE  SumOf(r) = Cardinality(Tally(r, Ages))
<1> DEFINE G == [S \in SUBSET Ages |-> Cardinality(Tally(r, S))]
           g == CHOOSE h : SumOver(r, h)
<1>1. SumOf(r) = g[Ages]
  BY Zenon DEF SumOf, MapThenSumSet, MapThenFoldSet, SumOver
<1>2. \A S \in SUBSET Ages :
        S # {} => /\ (CHOOSE a \in S : TRUE) \in S
                  /\ G[S] = r[CHOOSE a \in S : TRUE] + G[S \ {CHOOSE a \in S : TRUE}]
  <2>1. SUFFICES ASSUME NEW S \in SUBSET Ages, S # {}
                 PROVE  /\ (CHOOSE a \in S : TRUE) \in S
                        /\ G[S] = r[CHOOSE a \in S : TRUE] + G[S \ {CHOOSE a \in S : TRUE}]
    OBVIOUS
  <2>2. PICK a \in S : a = CHOOSE b \in S : TRUE
    BY <2>1
  <2>3. S \ {a} \in SUBSET Ages
    OBVIOUS
  <2>4. Cardinality(Tally(r, S)) = r[a] + Cardinality(Tally(r, S \ {a}))
    BY <2>3, TallyFinite, TallyAdds
  <2> QED
    BY <2>2, <2>3, <2>4
<1>3. G[{}] = 0
  <2>1. Tally(r, {}) = {}
    BY DEF Tally
  <2> QED
    BY <2>1, FS_EmptySet
<1> HIDE DEF G
<1>4. SumOver(r, G)
  <2>1. G = [S \in SUBSET Ages |-> G[S]]
    BY DEF G
  <2> QED
    BY <1>2, <1>3, <2>1 DEF SumOver
<1>5. SumOver(r, g)
  BY <1>4
<1> HIDE DEF g
<1> DEFINE Bad == { S \in SUBSET Ages : g[S] # G[S] }
<1>6. Bad = {}
  <2>1. SUFFICES ASSUME Bad # {} PROVE FALSE
    OBVIOUS
  <2>2. PICK S \in Bad : \A a \in S : S \ {a} \notin Bad
    BY <2>1, SmallestAges
  <2>3. S # {}
    BY <1>3, <1>5 DEF SumOver
  <2>4. PICK a \in S : a = CHOOSE b \in S : TRUE
    BY <2>3
  <2>5. g[S] = r[a] + g[S \ {a}]
    BY <1>5, <2>3, <2>4 DEF SumOver
  <2>6. g[S \ {a}] = G[S \ {a}]
    BY <2>2
  <2>7. G[S] = r[a] + G[S \ {a}]
    BY <1>2, <2>3, <2>4
  <2> QED
    BY <2>5, <2>6, <2>7
<1> QED
  BY <1>1, <1>6 DEF G

-----------------------------------------------------------------------------
(* How the tally changes *)

LEMMA NoGuesses ==
  ASSUME NEW r \in Counts, \A a \in Ages : r[a] = 0
  PROVE  Cardinality(Tally(r, Ages)) = 0
<1>1. Tally(r, Ages) = {}
  BY DEF Tally
<1> QED
  BY <1>1, FS_EmptySet

\* A wrong password is one guess more.
LEMMA OneGuessMore ==
  ASSUME NEW r \in Counts, NEW t \in Counts, t = [r EXCEPT ![0] = r[0] + 1]
  PROVE  Cardinality(Tally(t, Ages)) = Cardinality(Tally(r, Ages)) + 1
<1>1. r[0] \in Nat
  BY AgesFinite DEF Counts
<1>2. t[0] = r[0] + 1 /\ \A a \in Ages : a # 0 => t[a] = r[a]
  BY AgesFinite DEF Counts
<1>3. Tally(t, Ages) = Tally(r, Ages) \cup {<<0, r[0]>>}
  <2>1. ASSUME NEW g \in Tally(t, Ages) PROVE g \in Tally(r, Ages) \cup {<<0, r[0]>>}
    <3>1. PICK a \in Ages, k \in Nat : g = <<a, k>> /\ k < t[a]
      BY <2>1 DEF Tally
    <3>2. CASE a = 0
      <4>1. k < r[0] \/ k = r[0]
        BY <1>1, <1>2, <3>1, <3>2
      <4> QED
        BY <3>1, <3>2, <4>1 DEF Tally
    <3>3. CASE a # 0
      BY <1>2, <3>1, <3>3 DEF Tally
    <3> QED
      BY <3>2, <3>3
  <2>2. ASSUME NEW g \in Tally(r, Ages) PROVE g \in Tally(t, Ages)
    <3>1. PICK a \in Ages, k \in Nat : g = <<a, k>> /\ k < r[a]
      BY <2>2 DEF Tally
    <3>2. k < t[a]
      BY <1>1, <1>2, <3>1
    <3> QED
      BY <3>1, <3>2 DEF Tally
  <2>3. <<0, r[0]>> \in Tally(t, Ages)
    BY <1>1, <1>2, AgesFinite DEF Tally
  <2> QED
    BY <2>1, <2>2, <2>3
<1>4. <<0, r[0]>> \notin Tally(r, Ages)
  BY <1>1 DEF Tally
<1> QED
  BY <1>3, <1>4, TallyFinite, FS_AddElement

\* As time goes on, guesses only grow too old to count.
LEMMA GuessesAge ==
  ASSUME NEW r \in Counts, NEW t \in Counts,
         t = [a \in Ages |-> IF a = 0 THEN 0 ELSE r[a - 1]]
  PROVE  Cardinality(Tally(t, Ages)) <= Cardinality(Tally(r, Ages))
<1> DEFINE f == [g \in Tally(t, Ages) |-> <<g[1] - 1, g[2]>>]
<1>1. ASSUME NEW g \in Tally(t, Ages)
      PROVE  /\ g[1] \in Nat /\ g = <<g[1], g[2]>>
             /\ <<g[1] - 1, g[2]>> \in Tally(r, Ages)
  <2>1. PICK a \in Ages, k \in Nat : g = <<a, k>> /\ k < t[a]
    BY <1>1 DEF Tally
  <2>2. a # 0
    BY <2>1
  <2>3. a \in Nat /\ a - 1 \in Ages
    BY <2>2, LockAssumption DEF Ages
  <2>4. k < r[a - 1]
    BY <2>1, <2>2
  <2> QED
    BY <2>1, <2>3, <2>4 DEF Tally
<1>2. f \in Injection(Tally(t, Ages), Tally(r, Ages))
  <2>1. f \in [Tally(t, Ages) -> Tally(r, Ages)]
    BY <1>1
  <2>2. ASSUME NEW g \in Tally(t, Ages), NEW h \in Tally(t, Ages), f[g] = f[h]
        PROVE  g = h
    <3>1. g[1] - 1 = h[1] - 1 /\ g[2] = h[2]
      BY <2>2
    <3>2. g[1] \in Nat /\ h[1] \in Nat /\ g = <<g[1], g[2]>> /\ h = <<h[1], h[2]>>
      BY <1>1
    <3>3. g[1] = h[1]
      BY <3>1, <3>2
    <3> QED
      BY <3>1, <3>2, <3>3
  <2> QED
    BY <2>1, <2>2 DEF Injection, IsInjective
<1> HIDE DEF f
<1> QED
  BY <1>2, TallyFinite, FS_Injection

-----------------------------------------------------------------------------
(* The lock *)

Guesses == Cardinality(Tally(recent, Ages))
LoggingIn == { c \in Client : request[c] = "login" }

\* Below the limit every guess is counted.  At the limit no request is let in before
\* the last guess is too old to count: those that had been let in by then are all
\* that is still to come.
LockHolds ==
  /\ fails.count < MAX_FAILS => Guesses <= fails.count
  /\ fails.count = MAX_FAILS =>
       /\ Guesses + Cardinality(LoggingIn) <= MAX_FAILS - 1 + Cardinality(Client)
       /\ \A a \in Ages : a < LOCK_SECONDS - fails.left => recent[a] = 0

LEMMA LoggingInFinite ==
  /\ IsFiniteSet(LoggingIn) /\ Cardinality(LoggingIn) \in Nat
  /\ Cardinality(LoggingIn) <= Cardinality(Client) /\ Cardinality(Client) \in Nat
<1>1. LoggingIn \in SUBSET Client
  BY DEF LoggingIn
<1> QED
  BY <1>1, ClientAssumption, FS_Subset, FS_CardinalityType

LEMMA LockFacts ==
  ASSUME DashInv
  PROVE  /\ recent \in Counts /\ Guesses \in Nat
         /\ fails \in [count : 0..MAX_FAILS, left : 0..LOCK_SECONDS]
         /\ fails.count \in Nat /\ fails.left \in Nat
         /\ fails.count < MAX_FAILS \/ fails.count = MAX_FAILS
         /\ fails.left <= LOCK_SECONDS
         /\ MAX_FAILS \in Nat \ {0} /\ LOCK_SECONDS \in Nat \ {0}
<1>1. recent \in Counts /\ fails \in [count : 0..MAX_FAILS, left : 0..LOCK_SECONDS]
  BY DEF DashInv, DashTypeOK, Counts
<1>2. Guesses \in Nat
  BY <1>1, TallyFinite DEF Guesses
<1>3. fails.count \in 0..MAX_FAILS /\ fails.left \in 0..LOCK_SECONDS
  BY <1>1
<1> QED
  BY <1>1, <1>2, <1>3, LockAssumption

\* What a request becomes leaves the others as they are.
LEMMA LoginsChange ==
  ASSUME DashInv, NEW c \in Client, NEW what \in {"none", "login", "passwd"},
         Become(c, what)
  PROVE  /\ what = "login" => LoggingIn' = LoggingIn \cup {c}
         /\ what # "login" => LoggingIn' = LoggingIn \ {c}
<1>1. /\ request \in [Client -> {"none", "login", "passwd"}]
      /\ request' = [request EXCEPT ![c] = what]
  BY DEF DashInv, DashTypeOK, Become
<1>2. request'[c] = what /\ \A d \in Client : d # c => request'[d] = request[d]
  BY <1>1
<1>3. LoggingIn' = { d \in Client : request'[d] = "login" }
  BY DEF LoggingIn
<1> QED
  BY <1>2, <1>3 DEF LoggingIn

\* A step after which nobody new may guess and nothing else has changed.
LEMMA FewerLoggingIn ==
  ASSUME DashInv, LockHolds, UNCHANGED <<fails, recent>>, LoggingIn' \subseteq LoggingIn
  PROVE  LockHolds'
<1>1. Cardinality(LoggingIn') <= Cardinality(LoggingIn) /\ Cardinality(LoggingIn') \in Nat
  <2>1. LoggingIn' \in SUBSET LoggingIn
    OBVIOUS
  <2> QED
    BY <2>1, LoggingInFinite, FS_Subset, FS_CardinalityType
<1>2. Guesses' = Guesses
  BY DEF Guesses
<1>3. fails.count = MAX_FAILS =>
        Guesses' + Cardinality(LoggingIn') <= MAX_FAILS - 1 + Cardinality(Client)
  BY <1>1, <1>2, LockFacts, LoggingInFinite DEF LockHolds
<1> QED
  BY <1>2, <1>3 DEF LockHolds

\* A request is let in only below the limit, or when no guess counts any more.
LEMMA ArrivalIsLate ==
  ASSUME DashInv, LockHolds, NEW c \in Client, LoginArrives(c)
  PROVE  LockHolds'
<1>1. ~Locked /\ UNCHANGED <<fails, recent>>
  BY DEF LoginArrives, histVars
<1>2. Guesses' = Guesses /\ Cardinality(LoggingIn') <= Cardinality(Client)
  <2>1. LoggingIn' \in SUBSET Client
    BY DEF LoggingIn
  <2> QED
    BY <1>1, <2>1, ClientAssumption, FS_Subset DEF Guesses
<1>3. fails.count = MAX_FAILS => Guesses = 0
  <2>1. SUFFICES ASSUME fails.count = MAX_FAILS PROVE Guesses = 0
    OBVIOUS
  <2>2. fails.left = 0
    BY <1>1, <2>1, LockFacts DEF Locked
  <2>3. \A a \in Ages : a < LOCK_SECONDS
    BY LockFacts DEF Ages
  <2>4. \A a \in Ages : recent[a] = 0
    BY <2>1, <2>2, <2>3, LockFacts DEF LockHolds
  <2> QED
    BY <2>4, LockFacts, NoGuesses DEF Guesses
<1>4. Cardinality(LoggingIn') \in Nat
  <2>1. LoggingIn' \in SUBSET Client
    BY DEF LoggingIn
  <2> QED
    BY <2>1, ClientAssumption, FS_Subset, FS_CardinalityType
<1>5. fails.count = MAX_FAILS =>
        Guesses' + Cardinality(LoggingIn') <= MAX_FAILS - 1 + Cardinality(Client)
  BY <1>2, <1>3, <1>4, LockFacts, LoggingInFinite
<1> QED
  BY <1>1, <1>2, <1>5 DEF LockHolds

\* A guess that is compared was let in before, and the one that meets the limit locks.
LEMMA GuessCounts ==
  ASSUME DashInv, LockHolds, NEW c \in Client, LoginWrong(c)
  PROVE  LockHolds'
<1>1. /\ request[c] = "login" /\ Become(c, "none") /\ fails' = RegisterFail
      /\ recent' = [recent EXCEPT ![0] = recent[0] + 1]
  BY DEF LoginWrong
<1>2. recent' \in Counts
  <2>1. recent[0] + 1 \in Nat
    BY LockFacts, AgesFinite DEF Counts
  <2> QED
    BY <1>1, <2>1, LockFacts DEF Counts
<1>3. Guesses' = Guesses + 1
  BY <1>1, <1>2, LockFacts, OneGuessMore DEF Guesses
<1>4. c \in LoggingIn /\ LoggingIn' = LoggingIn \ {c}
  BY <1>1, LoginsChange DEF LoggingIn
<1>5. Cardinality(LoggingIn') = Cardinality(LoggingIn) - 1
  BY <1>4, LoggingInFinite, FS_RemoveElement
<1>6. CASE fails.count + 1 < MAX_FAILS
  <2>1. fails'.count = fails.count + 1
    BY <1>1, <1>6, LockFacts DEF RegisterFail
  <2>2. Guesses <= fails.count
    BY <1>6, LockFacts DEF LockHolds
  <2> QED
    BY <1>3, <1>6, <2>1, <2>2, LockFacts DEF LockHolds
<1>7. CASE fails.count + 1 >= MAX_FAILS
  <2>1. fails'.count = MAX_FAILS /\ fails'.left = LOCK_SECONDS
    BY <1>1, <1>7 DEF RegisterFail
  <2>2. Guesses + Cardinality(LoggingIn) <= MAX_FAILS - 1 + Cardinality(Client)
    <3>1. CASE fails.count < MAX_FAILS
      <4>1. Guesses <= MAX_FAILS - 1
        BY <1>7, <3>1, LockFacts DEF LockHolds
      <4> QED
        BY <4>1, LockFacts, LoggingInFinite
    <3>2. CASE fails.count = MAX_FAILS
      BY <3>2 DEF LockHolds
    <3> QED
      BY <3>1, <3>2, LockFacts
  <2>3. Guesses' + Cardinality(LoggingIn') <= MAX_FAILS - 1 + Cardinality(Client)
    BY <1>3, <1>5, <2>2, LockFacts, LoggingInFinite
  <2>4. \A a \in Ages : ~(a < LOCK_SECONDS - fails'.left)
    BY <2>1, LockFacts DEF Ages
  <2> QED
    BY <2>1, <2>3, <2>4, LockFacts DEF LockHolds
<1> QED
  BY <1>6, <1>7, LockFacts

\* After a right password, and in a new process, nothing is counted.
LEMMA NothingCounted ==
  ASSUME fails' = NoFails, recent' = Nothing
  PROVE  LockHolds'
<1>1. recent' \in Counts /\ \A a \in Ages : recent'[a] = 0
  BY DEF Nothing, Counts
<1>2. Guesses' = 0
  BY <1>1, NoGuesses DEF Guesses
<1> QED
  BY <1>2, LockAssumption DEF LockHolds, NoFails

LEMMA LockRunsDown ==
  ASSUME DashInv, LockHolds, Tick
  PROVE  LockHolds'
<1>1. /\ fails' = [fails EXCEPT !.left = IF fails.left = 0 THEN 0 ELSE fails.left - 1]
      /\ recent' = [a \in Ages |-> IF a = 0 THEN 0 ELSE recent[a - 1]]
      /\ request' = request
  BY DEF Tick
<1>2. recent' \in Counts
  BY TickKeeps DEF DashInv, DashTypeOK, Counts
<1>3. Guesses' <= Guesses /\ Guesses' \in Nat
  BY <1>1, <1>2, LockFacts, GuessesAge, TallyFinite DEF Guesses
<1>4. /\ fails'.count = fails.count
      /\ fails'.left = IF fails.left = 0 THEN 0 ELSE fails.left - 1
      /\ LoggingIn' = LoggingIn
  BY <1>1, LockFacts DEF LoggingIn
<1>5. ASSUME fails.count = MAX_FAILS, NEW a \in Ages, a < LOCK_SECONDS - fails'.left
      PROVE  recent'[a] = 0
  <2>1. CASE a = 0
    BY <1>1, <2>1
  <2>2. CASE a # 0
    <3>1. a - 1 \in Ages
      BY <2>2, LockFacts DEF Ages
    <3>2. a - 1 < LOCK_SECONDS - fails.left
      BY <1>4, <1>5, LockFacts DEF Ages
    <3>3. recent[a - 1] = 0
      BY <1>5, <3>1, <3>2 DEF LockHolds
    <3> QED
      BY <1>1, <2>2, <3>3
  <2> QED
    BY <2>1, <2>2
<1>6. fails.count = MAX_FAILS =>
        Guesses' + Cardinality(LoggingIn') <= MAX_FAILS - 1 + Cardinality(Client)
  BY <1>3, <1>4, LockFacts, LoggingInFinite DEF LockHolds
<1>7. fails.count < MAX_FAILS => Guesses' <= fails.count
  BY <1>3, LockFacts DEF LockHolds
<1> QED
  BY <1>4, <1>5, <1>6, <1>7 DEF LockHolds

LEMMA LockStep ==
  ASSUME DashInv, LockHolds, [DashNext]_<<proc, dashVars>>
  PROVE  LockHolds'
<1>1. ASSUME UNCHANGED <<fails, request, recent>> PROVE LockHolds'
  BY <1>1, FewerLoggingIn DEF LoggingIn
<1>2. ASSUME NEW c \in Client, Http(c) PROVE LockHolds'
  <2>1. CASE LoginRight(c)
    BY <2>1, NothingCounted DEF LoginRight
  <2>2. ASSUME NEW what \in {"none", "passwd"}, Become(c, what), UNCHANGED <<fails, recent>>
        PROVE  LockHolds'
    <3>1. LoggingIn' = LoggingIn \ {c}
      BY <2>2, LoginsChange
    <3> QED
      BY <2>2, <3>1, FewerLoggingIn
  <2>3. CASE RequestBreaks(c) \/ PasswdArrives(c)
    BY <2>2, <2>3 DEF RequestBreaks, PasswdArrives, histVars
  <2>4. ASSUME NEW p \in Password, PasswdEnds(c, p) PROVE LockHolds'
    BY <2>2, <2>4 DEF PasswdEnds
  <2>5. CASE LoginRefused(c) \/ SessionEnds(c)
    BY <1>1, <2>5 DEF LoginRefused, SessionEnds, dashVars, memVars, histVars
  <2>6. ASSUME NEW b \in BOOLEAN, PauseRequest(c, b) PROVE LockHolds'
    BY <1>1, <2>6 DEF PauseRequest
  <2> QED
    BY <1>2, <2>1, <2>3, <2>4, <2>5, <2>6, ArrivalIsLate, GuessCounts DEF Http
<1>3. ASSUME Command PROVE LockHolds'
  <2>1. UNCHANGED <<fails, request, recent>>
    BY <1>3 DEF Command, DashboardCommand, DashInfo, PasswdCommand, DashUserCommand,
                PauseCommand, memVars
  <2> QED
    BY <1>1, <2>1
<1>4. ASSUME NEW done \in BOOLEAN, Stop(done) PROVE LockHolds'
  BY <1>4, NothingCounted DEF Stop, FreshMemory
<1>5. CASE Boot
  BY <1>1, <1>5 DEF Boot, histVars
<1>6. CASE UNCHANGED <<proc, dashVars>>
  BY <1>1, <1>6 DEF dashVars, memVars, histVars
<1> QED
  BY <1>2, <1>3, <1>4, <1>5, <1>6, LockRunsDown DEF DashNext

\* In any stretch of LOCK_SECONDS without a right password at most MAX_FAILS wrong ones
\* are compared, and those of the requests let in when the last of them closed the
\* lock: the lock is asked before the body of a request is awaited.
THEOREM GuessesAreBounded == DashSpec => []BoundedGuesses
<1>1. DashInit => LockHolds
  <2>1. SUFFICES ASSUME DashInit PROVE LockHolds
    OBVIOUS
  <2>2. recent = Nothing /\ fails = NoFails
    BY <2>1 DEF DashInit
  <2>3. recent \in Counts /\ \A a \in Ages : recent[a] = 0
    BY <2>2 DEF Nothing, Counts
  <2>4. Guesses = 0
    BY <2>3, NoGuesses DEF Guesses
  <2> QED
    BY <2>2, <2>4, LockAssumption DEF LockHolds, NoFails
<1>2. DashInv /\ LockHolds /\ [DashNext]_<<proc, dashVars>> => LockHolds'
  BY LockStep
<1>3. DashInv /\ LockHolds => BoundedGuesses
  <2>1. SUFFICES ASSUME DashInv, LockHolds PROVE BoundedGuesses
    OBVIOUS
  <2>2. SumOf(recent) = Guesses
    BY <2>1, LockFacts, SumIsTally DEF Guesses
  <2>3. Guesses <= MAX_FAILS - 1 + Cardinality(Client)
    BY <2>1, LockFacts, LoggingInFinite DEF LockHolds
  <2>4. BoundedGuesses <=> SumOf(recent) <= MAX_FAILS - 1 + Cardinality(Client)
    BY DEF BoundedGuesses, SumOf
  <2> QED
    BY <2>2, <2>3, <2>4
<1> QED
  BY <1>1, <1>2, <1>3, DashboardInvariant, PTL DEF DashSpec

-----------------------------------------------------------------------------
(* The operations                                                          *)

\* The safety part of Operations.
OpsSpec == OpsInit /\ [][OpsNext]_<<running, opsVars>>

-----------------------------------------------------------------------------
(* The inductive invariant *)

Operation == [kind : {"none", "add", "access", "report", "promote", "admin"},
              todo : SUBSET PairId,
              at : {"next", "send", "delete"}]

\* The pairs that are and that were have ids the counter has given.
Numbered ==
  /\ lastPair \in 0..MaxPairs
  /\ pairs \subseteq 1..lastPair /\ gone \subseteq 1..lastPair

\* Each surface that has yet to delete its test post has one there.
Accounted ==
  /\ tests \in Nat /\ lost \in Nat
  /\ Cardinality(Probing) <= tests
  /\ TestPostsAccounted

OpsInv ==
  /\ op \in [Surface -> Operation]
  /\ Numbered /\ IdsStayRetired /\ Accounted

LEMMA ProbingFinite == IsFiniteSet(Probing) /\ Cardinality(Probing) \in Nat
<1>1. Probing \subseteq Surface
  BY DEF Probing
<1>2. IsFiniteSet(Probing)
  BY <1>1, SurfaceAssumption, FS_Subset
<1> QED
  BY <1>2, FS_CardinalityType

LEMMA OpsInvInit == OpsInit => OpsInv
<1> SUFFICES ASSUME OpsInit PROVE OpsInv
  OBVIOUS
<1>1. op \in [Surface -> Operation]
  BY DEF OpsInit, NoOp, Operation
<1>2. Probing = {}
  BY DEF OpsInit, Probing, NoOp
<1>3. Accounted
  BY <1>2, FS_EmptySet DEF OpsInit, Accounted, TestPostsAccounted
<1>4. Numbered /\ IdsStayRetired
  BY MaxPairsAssumption DEF OpsInit, Numbered, IdsStayRetired
<1> QED
  BY <1>1, <1>3, <1>4 DEF OpsInv

-----------------------------------------------------------------------------
(* What a surface's step does to the operations and to those that probe *)

LEMMA OperationStep ==
  ASSUME OpsInv, NEW s \in Surface, NEW o \in Operation, Goes(s, o)
  PROVE  /\ op' \in [Surface -> Operation]
         /\ op[s].at # "delete" /\ o.at # "delete" => Probing' = Probing
         /\ op[s].at # "delete" /\ o.at = "delete" =>
              s \notin Probing /\ Probing' = Probing \cup {s}
         /\ op[s].at = "delete" /\ o.at # "delete" =>
              s \in Probing /\ Probing' = Probing \ {s}
<1>1. op' = [op EXCEPT ![s] = o] /\ op \in [Surface -> Operation]
  BY DEF Goes, OpsInv
<1>2. op' \in [Surface -> Operation]
  BY <1>1
<1>3. op'[s] = o /\ \A t \in Surface : t # s => op'[t] = op[t]
  BY <1>1
<1>4. Probing' = { t \in Surface : op'[t].at = "delete" }
  BY DEF Probing
<1> QED
  BY <1>2, <1>3, <1>4 DEF Probing

\* A step that probes nothing and touches no pair.
LEMMA OtherStep ==
  ASSUME OpsInv, NEW s \in Surface, NEW o \in Operation, Goes(s, o),
         op[s].at # "delete", o.at # "delete",
         UNCHANGED <<pairs, lastPair, tests, lost, gone>>
  PROVE  OpsInv'
<1>1. op' \in [Surface -> Operation] /\ Probing' = Probing
  BY OperationStep
<1>2. Accounted'
  BY <1>1 DEF OpsInv, Accounted, TestPostsAccounted
<1> QED
  BY <1>1, <1>2 DEF OpsInv, Numbered, IdsStayRetired

LEMMA NoOpType == NoOp \in Operation /\ NoOp.at = "next"
BY DEF NoOp, Operation

\* After a pair the operation is done, or goes on with the next.
LEMMA FinishedGoes ==
  ASSUME OpsInv, NEW s \in Surface, Finished(s)
  PROVE  \E o \in Operation : Goes(s, o) /\ o.at # "delete"
<1> DEFINE rest == op[s].todo \ {Min(op[s].todo)}
<1>1. op[s] \in Operation
  BY DEF OpsInv
<1>2. rest \subseteq PairId
  BY <1>1 DEF Operation
<1> HIDE DEF rest
<1>3. CASE rest = {} /\ op[s].kind # "report"
  BY <1>3, NoOpType DEF Finished, rest
<1>4. CASE rest # {} /\ op[s].kind = "access"
  <2> DEFINE o == [op[s] EXCEPT !.todo = rest, !.at = "send"]
  <2>1. o \in Operation /\ o.at # "delete"
    BY <1>1, <1>2 DEF Operation
  <2>2. Goes(s, o)
    BY <1>4 DEF Finished, rest
  <2> QED
    BY <2>1, <2>2
<1>5. CASE rest # {} /\ op[s].kind \notin {"access", "report"}
  <2> DEFINE o == [op[s] EXCEPT !.todo = rest, !.at = "next"]
  <2>1. o \in Operation /\ o.at # "delete"
    BY <1>1, <1>2 DEF Operation
  <2>2. Goes(s, o)
    BY <1>5 DEF Finished, rest
  <2> QED
    BY <2>1, <2>2
<1>6. CASE op[s].kind = "report"
  <2> DEFINE o == [op[s] EXCEPT !.kind = "access", !.at = "send"]
  <2>1. o \in Operation /\ o.at # "delete"
    BY <1>1 DEF Operation
  <2>2. Goes(s, o)
    BY <1>6 DEF Finished
  <2> QED
    BY <2>1, <2>2
<1> QED
  BY <1>3, <1>4, <1>5, <1>6

-----------------------------------------------------------------------------
(* Pairs *)

\* A new pair has an id that no pair, past or present, has had.
LEMMA InsertPairKeeps ==
  ASSUME OpsInv, InsertPair, gone' = gone
  PROVE  Numbered' /\ IdsStayRetired' /\ NextId \in PairId
<1>1. /\ lastPair' = lastPair + 1 /\ pairs' = pairs \cup {lastPair + 1}
      /\ lastPair + 1 <= MaxPairs
  BY DEF InsertPair, NextId
<1>2. lastPair \in Nat /\ pairs \subseteq 1..lastPair /\ gone \subseteq 1..lastPair
  BY MaxPairsAssumption DEF OpsInv, Numbered
<1>3. 1..(lastPair + 1) = (1..lastPair) \cup {lastPair + 1} /\ lastPair + 1 \notin 1..lastPair
  BY <1>2
<1>4. lastPair + 1 \notin gone
  BY <1>2, <1>3
<1>5. lastPair + 1 \in 0..MaxPairs /\ lastPair + 1 \in 1..MaxPairs
  BY <1>1, <1>2, MaxPairsAssumption
<1>6. Numbered'
  BY <1>1, <1>2, <1>3, <1>5 DEF Numbered
<1>7. IdsStayRetired'
  BY <1>1, <1>4 DEF OpsInv, IdsStayRetired
<1> QED
  BY <1>5, <1>6, <1>7 DEF NextId, PairId

LEMMA AddAnswersKeeps ==
  ASSUME OpsInv, NEW s \in Surface, AddAnswers(s)
  PROVE  OpsInv'
<1>1. /\ op[s].at = "next" /\ InsertPair /\ Goes(s, NoOp)
      /\ UNCHANGED <<tests, lost, gone>>
  BY DEF AddAnswers, Busy
<1>2. op' \in [Surface -> Operation] /\ Probing' = Probing
  BY <1>1, OperationStep, NoOpType
<1>3. Accounted'
  BY <1>1, <1>2 DEF OpsInv, Accounted, TestPostsAccounted
<1> QED
  BY <1>1, <1>2, <1>3, InsertPairKeeps DEF OpsInv

LEMMA AccessReportKeeps ==
  ASSUME OpsInv, NEW s \in Surface, AccessReport(s)
  PROVE  OpsInv'
<1>1. /\ op[s] = NoOp /\ InsertPair
      /\ UNCHANGED <<tests, lost, gone>>
  BY DEF AccessReport, Free
<1>2. PICK o \in Operation : Goes(s, o) /\ o.at # "delete"
  <2>1. ASSUME NEW kind \in {"report", "access"}
        PROVE  [kind |-> kind, todo |-> {NextId}, at |-> "send"] \in Operation
    BY <1>1, InsertPairKeeps DEF Operation
  <2> QED
    BY <2>1, NoOpType DEF AccessReport, Access
<1>3. op' \in [Surface -> Operation] /\ Probing' = Probing
  BY <1>1, <1>2, OperationStep, NoOpType
<1>4. Accounted'
  BY <1>1, <1>3 DEF OpsInv, Accounted, TestPostsAccounted
<1> QED
  BY <1>1, <1>3, <1>4, InsertPairKeeps DEF OpsInv

LEMMA RemoveKeeps ==
  ASSUME OpsInv, NEW p \in PairId, RemovePair(p)
  PROVE  OpsInv'
<1>1. /\ p \in pairs /\ pairs' = pairs \ {p} /\ gone' = gone \cup {p}
      /\ UNCHANGED <<lastPair, op, tests, lost>>
  BY DEF RemovePair
<1>2. Numbered' /\ IdsStayRetired'
  BY <1>1 DEF OpsInv, Numbered, IdsStayRetired
<1>3. Probing' = Probing
  BY <1>1 DEF Probing
<1> QED
  BY <1>1, <1>2, <1>3 DEF OpsInv, Accounted, TestPostsAccounted

-----------------------------------------------------------------------------
(* Test posts *)

LEMMA ProbeSentKeeps ==
  ASSUME OpsInv, NEW s \in Surface, ProbeSent(s)
  PROVE  OpsInv'
<1> DEFINE o == [op[s] EXCEPT !.at = "delete"]
<1>1. /\ op[s].at = "send" /\ tests' = tests + 1 /\ Goes(s, o)
      /\ UNCHANGED <<pairs, lastPair, lost, gone>>
  BY DEF ProbeSent
<1>2. o \in Operation /\ o.at = "delete"
  BY DEF OpsInv, Operation
<1> HIDE DEF o
<1>3. op' \in [Surface -> Operation] /\ s \notin Probing /\ Probing' = Probing \cup {s}
  BY <1>1, <1>2, OperationStep
<1>4. Cardinality(Probing') = Cardinality(Probing) + 1
  BY <1>3, ProbingFinite, FS_AddElement
<1>5. Accounted'
  BY <1>1, <1>4, ProbingFinite DEF OpsInv, Accounted, TestPostsAccounted
<1> QED
  BY <1>1, <1>3, <1>5 DEF OpsInv, Numbered, IdsStayRetired

LEMMA ProbeRefusedKeeps ==
  ASSUME OpsInv, NEW s \in Surface, ProbeRefused(s)
  PROVE  OpsInv'
<1>1. /\ op[s].at = "send" /\ Finished(s)
      /\ \/ UNCHANGED <<tests, lost>>
         \/ tests' = tests + 1 /\ lost' = lost + 1
      /\ UNCHANGED <<pairs, lastPair, gone>>
  BY DEF ProbeRefused
<1>2. PICK o \in Operation : Goes(s, o) /\ o.at # "delete"
  BY <1>1, FinishedGoes
<1>3. op' \in [Surface -> Operation] /\ Probing' = Probing
  BY <1>1, <1>2, OperationStep
<1>4. Accounted'
  BY <1>1, <1>3, ProbingFinite DEF OpsInv, Accounted, TestPostsAccounted
<1> QED
  BY <1>1, <1>3, <1>4 DEF OpsInv, Numbered, IdsStayRetired

\* The test post is gone, or it stays and is counted as lost.
LEMMA ProbeEndsKeeps ==
  ASSUME OpsInv, NEW s \in Surface, ProbeDeleted(s) \/ ProbeDeletionFails(s)
  PROVE  OpsInv'
<1>1. /\ op[s].at = "delete" /\ Finished(s)
      /\ \/ tests' = tests - 1 /\ lost' = lost
         \/ tests' = tests /\ lost' = lost + 1
      /\ UNCHANGED <<pairs, lastPair, gone>>
  BY DEF ProbeDeleted, ProbeDeletionFails
<1>2. PICK o \in Operation : Goes(s, o) /\ o.at # "delete"
  BY <1>1, FinishedGoes
<1>3. op' \in [Surface -> Operation] /\ s \in Probing /\ Probing' = Probing \ {s}
  BY <1>1, <1>2, OperationStep
<1>4. Cardinality(Probing') = Cardinality(Probing) - 1
  BY <1>3, ProbingFinite, FS_RemoveElement
<1>5. Cardinality(Probing') \in Nat
  BY <1>3, ProbingFinite, FS_RemoveElement, FS_CardinalityType
<1>6. Accounted'
  BY <1>1, <1>4, <1>5, ProbingFinite DEF OpsInv, Accounted, TestPostsAccounted
<1> QED
  BY <1>1, <1>3, <1>6 DEF OpsInv, Numbered, IdsStayRetired

-----------------------------------------------------------------------------
(* The other steps of a surface *)

\* An operation takes the pairs there are.
LEMMA PairsTaken ==
  ASSUME OpsInv, NEW kind \in {"access", "promote", "admin"}, NEW when \in {"next", "send"}
  PROVE  [kind |-> kind, todo |-> pairs, at |-> when] \in Operation
<1>1. pairs \subseteq PairId
  BY MaxPairsAssumption DEF OpsInv, Numbered, PairId
<1> QED
  BY <1>1 DEF Operation

LEMMA StartsKeeps ==
  ASSUME OpsInv, NEW s \in Surface,
         \/ AddCommand(s) \/ AddRequest(s) \/ AccessCommand(s) \/ AccessRequest(s)
         \/ PromoteCommand(s) \/ PromoteRequest(s) \/ PromoteButton(s)
  PROVE  OpsInv'
<1>1. op[s].at # "delete" /\ UNCHANGED <<pairs, lastPair, tests, lost, gone>>
  BY NoOpType DEF AddCommand, AddRequest, AccessCommand, AccessRequest, PromoteCommand,
                  PromoteRequest, PromoteButton, Promote, Free
<1>2. CASE AddCommand(s) \/ AddRequest(s)
  <2>1. Goes(s, [NoOp EXCEPT !.kind = "add"])
    BY <1>2 DEF AddCommand, AddRequest
  <2>2. [NoOp EXCEPT !.kind = "add"] \in Operation /\ [NoOp EXCEPT !.kind = "add"].at = "next"
    BY DEF NoOp, Operation
  <2> QED
    BY <1>1, <2>1, <2>2, OtherStep
<1>3. CASE AccessCommand(s) \/ AccessRequest(s)
  <2>1. Goes(s, [kind |-> "access", todo |-> pairs, at |-> "send"])
    BY <1>3 DEF AccessCommand, AccessRequest, Access
  <2> QED
    BY <1>1, <2>1, PairsTaken, OtherStep
<1>4. CASE PromoteCommand(s)
  <2>1. Goes(s, [kind |-> "admin", todo |-> pairs, at |-> "next"])
    BY <1>4 DEF PromoteCommand
  <2> QED
    BY <1>1, <2>1, PairsTaken, OtherStep
<1>5. CASE PromoteRequest(s) \/ PromoteButton(s)
  <2>1. Goes(s, [kind |-> "promote", todo |-> pairs, at |-> "next"])
    BY <1>5 DEF PromoteRequest, PromoteButton, Promote
  <2> QED
    BY <1>1, <2>1, PairsTaken, OtherStep
<1> QED
  BY <1>2, <1>3, <1>4, <1>5

LEMMA PromotionKeeps ==
  ASSUME OpsInv, NEW s \in Surface,
         AddFails(s) \/ AdminMade(s) \/ Promoted(s) \/ PromotionFails(s)
  PROVE  OpsInv'
<1>1. op[s].at = "next" /\ UNCHANGED <<pairs, lastPair, tests, lost, gone>>
  BY DEF AddFails, AdminMade, Promoted, PromotionFails, Busy
<1>2. CASE AddFails(s)
  BY <1>1, <1>2, NoOpType, OtherStep DEF AddFails
<1>3. CASE AdminMade(s) \/ PromotionFails(s)
  <2>1. PICK o \in Operation : Goes(s, o) /\ o.at # "delete"
    BY <1>3, FinishedGoes DEF AdminMade, PromotionFails
  <2> QED
    BY <1>1, <2>1, OtherStep
<1>4. CASE Promoted(s)
  <2> DEFINE o == [op[s] EXCEPT !.at = "send"]
  <2>1. Goes(s, o)
    BY <1>4 DEF Promoted
  <2>2. o \in Operation /\ o.at = "send"
    BY DEF OpsInv, Operation
  <2> HIDE DEF o
  <2> QED
    BY <1>1, <2>1, <2>2, OtherStep
<1> QED
  BY <1>2, <1>3, <1>4

-----------------------------------------------------------------------------
(* The process *)

\* The test posts that are there when the process ends stay, and are lost.
LEMMA EndKeeps ==
  ASSUME OpsInv, End
  PROVE  OpsInv'
<1>1. /\ lost' = lost + Cardinality(Probing)
      /\ op' = [s \in Surface |-> NoOp]
      /\ UNCHANGED <<pairs, lastPair, tests, gone>>
  BY DEF End
<1>2. op' \in [Surface -> Operation] /\ \A s \in Surface : op'[s].at # "delete"
  BY <1>1, NoOpType
<1>3. Probing' = {} /\ Cardinality(Probing') = 0
  BY <1>2, FS_EmptySet DEF Probing
<1>4. Accounted'
  BY <1>1, <1>3, ProbingFinite DEF OpsInv, Accounted, TestPostsAccounted
<1> QED
  BY <1>1, <1>2, <1>4 DEF OpsInv, Numbered, IdsStayRetired

LEMMA StillKeeps ==
  ASSUME OpsInv, UNCHANGED opsVars
  PROVE  OpsInv'
<1>1. Probing' = Probing
  BY DEF Probing, opsVars
<1> QED
  BY <1>1 DEF OpsInv, Numbered, IdsStayRetired, Accounted, TestPostsAccounted, opsVars

LEMMA OpsStep ==
  ASSUME OpsInv, [OpsNext]_<<running, opsVars>>
  PROVE  OpsInv'
<1>1. ASSUME NEW s \in Surface, Step(s) PROVE OpsInv'
  BY <1>1, AddAnswersKeeps, AccessReportKeeps, ProbeSentKeeps, ProbeRefusedKeeps,
     ProbeEndsKeeps, StartsKeeps, PromotionKeeps DEF Step
<1>2. CASE Start
  BY <1>2, StillKeeps DEF Start
<1>3. CASE UNCHANGED <<running, opsVars>>
  BY <1>3, StillKeeps
<1> QED
  BY <1>1, <1>2, <1>3, RemoveKeeps, EndKeeps DEF OpsNext

-----------------------------------------------------------------------------
(* Theorems *)

\* The operations, the ids of the pairs and the test posts keep in step.
THEOREM OperationsInvariant == OpsSpec => []OpsInv
<1>1. OpsInit => OpsInv
  BY OpsInvInit
<1>2. OpsInv /\ [OpsNext]_<<running, opsVars>> => OpsInv'
  BY OpsStep
<1> QED
  BY <1>1, <1>2, PTL DEF OpsSpec

\* Whichever surfaces test their access side by side, a test post outlives its test only
\* when a call failed or the process ended.
THEOREM TestPostsAreAccounted == OpsSpec => []TestPostsAccounted
<1>1. OpsInv => TestPostsAccounted
  BY DEF OpsInv, Accounted
<1> QED
  BY <1>1, OperationsInvariant, PTL

\* AUTOINCREMENT never gives the id of a removed pair to a new one.
THEOREM IdsAreRetired == OpsSpec => []IdsStayRetired
<1>1. OpsInv => IdsStayRetired
  BY DEF OpsInv
<1> QED
  BY <1>1, OperationsInvariant, PTL

-----------------------------------------------------------------------------
(* The types of both, running in one process                               *)

\* Each fault loses at most one test post for each surface.
LostBounded == lost \in Nat /\ faults \in 0..MaxFaults
               /\ lost <= faults * Cardinality(Surface)

LEMMA SurfacesCounted ==
  /\ Cardinality(Surface) \in Nat
  /\ Cardinality(Probing) <= Cardinality(Surface)
  /\ \A s \in Surface : Cardinality(Surface) >= 1
<1>1. Probing \in SUBSET Surface
  BY DEF Probing
<1>2. Cardinality(Surface) \in Nat /\ Cardinality(Probing) <= Cardinality(Surface)
  BY <1>1, SurfaceAssumption, FS_Subset, FS_CardinalityType
<1>3. Surface # {} => Cardinality(Surface) # 0
  BY SurfaceAssumption, FS_EmptySet
<1> QED
  BY <1>2, <1>3

\* One fault more pays for what it loses.
LEMMA FaultPays ==
  ASSUME LostBounded, NEW n \in Nat, n <= Cardinality(Surface), Fault, lost' = lost + n
  PROVE  LostBounded'
<1> DEFINE K == Cardinality(Surface)
<1>1. K \in Nat
  BY SurfacesCounted
<1>2. faults \in Nat /\ faults' = faults + 1 /\ faults' \in 0..MaxFaults
  BY MaxFaultsAssumption DEF Fault, LostBounded
<1>3. lost \in Nat /\ lost <= faults * K
  BY DEF LostBounded
<1> HIDE DEF K
<1>4. (faults + 1) * K = faults * K + K
  BY <1>1, <1>2
<1>5. faults * K \in Nat
  BY <1>1, <1>2
<1>6. lost + n <= (faults + 1) * K
  BY <1>1, <1>3, <1>4, <1>5 DEF K
<1> QED
  BY <1>2, <1>3, <1>6 DEF LostBounded, K

LEMMA LostStep ==
  ASSUME OpsInv, LostBounded, [OpsNext]_<<running, opsVars>>
  PROVE  LostBounded'
<1>1. ASSUME UNCHANGED <<faults, lost>> PROVE LostBounded'
  BY <1>1 DEF LostBounded
<1>2. ASSUME Fault, lost' = lost PROVE LostBounded'
  BY <1>2, SurfacesCounted, FaultPays DEF LostBounded
<1>3. ASSUME Fault, lost' = lost + 1, NEW s \in Surface PROVE LostBounded'
  BY <1>3, SurfacesCounted, FaultPays
<1>4. ASSUME NEW s \in Surface, Step(s) PROVE LostBounded'
  <2>1. CASE ProbeRefused(s)
    BY <1>2, <1>3, <2>1 DEF ProbeRefused
  <2>2. CASE ProbeDeletionFails(s)
    BY <1>3, <2>2 DEF ProbeDeletionFails
  <2>3. CASE PromotionFails(s)
    BY <1>2, <2>3 DEF PromotionFails
  <2>4. CASE ~ProbeRefused(s) /\ ~ProbeDeletionFails(s) /\ ~PromotionFails(s)
    <3>1. UNCHANGED <<faults, lost>>
      BY <1>4, <2>4 DEF Step, AddCommand, AddRequest, AddAnswers, AddFails, AccessCommand,
         AccessRequest, AccessReport, ProbeSent, ProbeDeleted, PromoteCommand, AdminMade,
         PromoteRequest, PromoteButton, Promote, Promoted
    <3> QED
      BY <1>1, <3>1
  <2> QED
    BY <2>1, <2>2, <2>3, <2>4
<1>5. ASSUME NEW p \in PairId, RemovePair(p) PROVE LostBounded'
  BY <1>1, <1>5 DEF RemovePair
<1>6. CASE Start
  BY <1>1, <1>6 DEF Start, opsVars
<1>7. CASE End
  BY <1>7, FaultPays, SurfacesCounted, ProbingFinite DEF End
<1>8. CASE UNCHANGED <<running, opsVars>>
  BY <1>1, <1>8 DEF opsVars
<1> QED
  BY <1>4, <1>5, <1>6, <1>7, <1>8 DEF OpsNext

ProcessKinds == running \in {"down", "installer", "full"}

\* Every operation of the operator keeps the types of pairs, operations and counts; in
\* particular what is lost is bounded by the faults and the surfaces.
THEOREM OperationsTyped == OpsSpec => []OpsTypeOK
<1>1. OpsInit => LostBounded /\ ProcessKinds
  <2>1. SUFFICES ASSUME OpsInit PROVE LostBounded /\ ProcessKinds
    OBVIOUS
  <2>2. lost = 0 /\ faults = 0 /\ running = "down"
    BY <2>1 DEF OpsInit
  <2>3. 0 <= 0 * Cardinality(Surface)
    BY SurfacesCounted
  <2> QED
    BY <2>2, <2>3, MaxFaultsAssumption DEF LostBounded, ProcessKinds
<1>2. OpsInv /\ LostBounded /\ [OpsNext]_<<running, opsVars>> => LostBounded'
  BY LostStep
<1>3. ProcessKinds /\ [OpsNext]_<<running, opsVars>> => ProcessKinds'
  <2>1. SUFFICES ASSUME ProcessKinds, [OpsNext]_<<running, opsVars>> PROVE ProcessKinds'
    OBVIOUS
  <2>2. \/ UNCHANGED running
        \/ running' \in {"down", "installer", "full"}
    BY <2>1 DEF OpsNext, Step, AddCommand, AddRequest, AddAnswers, AddFails, AccessCommand,
       AccessRequest, AccessReport, ProbeSent, ProbeRefused, ProbeDeleted,
       ProbeDeletionFails, PromoteCommand, AdminMade, PromoteRequest, PromoteButton,
       Promote, Promoted, PromotionFails, RemovePair, Start, End
  <2> QED
    BY <2>1, <2>2 DEF ProcessKinds
<1>4. OpsInv /\ LostBounded /\ ProcessKinds => OpsTypeOK
  <2>1. SUFFICES ASSUME OpsInv, LostBounded, ProcessKinds PROVE OpsTypeOK
    OBVIOUS
  <2>2. pairs \subseteq PairId /\ gone \subseteq PairId
    BY <2>1, MaxPairsAssumption DEF OpsInv, Numbered, PairId
  <2>3. lost \in 0..(MaxFaults * Cardinality(Surface))
    <3> DEFINE K == Cardinality(Surface)
    <3>1. K \in Nat /\ faults \in Nat /\ faults <= MaxFaults /\ MaxFaults \in Nat
      BY <2>1, SurfacesCounted, MaxFaultsAssumption DEF LostBounded
    <3>2. lost \in Nat /\ lost <= faults * K
      BY <2>1 DEF LostBounded
    <3> HIDE DEF K
    <3>3. PICK d \in Nat : MaxFaults = faults + d
      <4>1. MaxFaults - faults \in Nat /\ MaxFaults = faults + (MaxFaults - faults)
        BY <3>1
      <4> QED
        BY <4>1
    <3>4. MaxFaults * K = faults * K + d * K
      BY <3>1, <3>3
    <3>5. faults * K \in Nat /\ d * K \in Nat
      BY <3>1, <3>3
    <3>6. lost <= MaxFaults * K /\ MaxFaults * K \in Nat
      BY <3>2, <3>4, <3>5
    <3> QED
      BY <3>2, <3>6 DEF K
  <2> QED
    BY <2>1, <2>2, <2>3
    DEF OpsInv, Numbered, Accounted, LostBounded, ProcessKinds, Operation, OpsTypeOK
<1> QED
  BY <1>1, <1>2, <1>3, <1>4, OperationsInvariant, PTL DEF OpsSpec

\* Whichever part a behaviour runs, it is one of that part's behaviours, and the others
\* rest: what is proved of the dashboard and of the operations holds of the whole.
THEOREM PartsRunAlone == Spec => DashSpec /\ OpsSpec
<1>1. Init => DashInit /\ OpsInit
  BY DEF Init
<1>2. [Next]_vars => [DashNext]_<<proc, dashVars>> /\ [OpsNext]_<<running, opsVars>>
  <2> SUFFICES ASSUME [Next]_vars
               PROVE  [DashNext]_<<proc, dashVars>> /\ [OpsNext]_<<running, opsVars>>
    OBVIOUS
  <2>1. CASE UNCHANGED vars
    BY <2>1 DEF vars, panelVars
  <2>2. CASE PanelNext
    BY <2>2 DEF PanelNext
  <2>3. CASE UNCHANGED panelVars
    BY <2>3 DEF panelVars
  <2> QED
    BY <2>1, <2>2, <2>3 DEF Next
<1> QED
  BY <1>1, <1>2, PTL DEF Spec, DashSpec, OpsSpec

\* Every variable of the panels keeps its type.
THEOREM PanelTypes == Spec => []PanelTypeOK
<1>1. DashInv => DashTypeOK
  BY DEF DashInv
<1>2. DashTypeOK /\ OpsTypeOK => PanelTypeOK
  BY DEF PanelTypeOK
<1> QED
  BY <1>1, <1>2, PartsRunAlone, DashboardInvariant, OperationsTyped, PTL
=============================================================================
