----------------------------- MODULE Operations -----------------------------
(***************************************************************************)
(* The operations on the pairs of channels an operator starts, from the    *)
(* commands of bridge/admin/, from bridge/dashboard/engines/ and from the  *)
(* wizard: registering and removing pairs, testing the access of every     *)
(* account, and making the Bale bot an administrator.  Every surface runs  *)
(* its operation beside the others.  An operation takes the list of pairs  *)
(* once and then awaits the platforms pair by pair.                        *)
(*                                                                         *)
(* The access of a Bale account is tested by a real post, which            *)
(* BaleBotGateway.probe_access deletes again (bridge/bale/gateway.py).     *)
(***************************************************************************)
EXTENDS Naturals, FiniteSets, FiniteSetsExt

CONSTANTS
  Surface,   \* where operations come from, each with one at a time
  MaxPairs,  \* bound: pairs ever registered
  MaxFaults  \* bound: failed calls, lost answers and ends of the process

ASSUME SurfaceAssumption == IsFiniteSet(Surface)
ASSUME MaxPairsAssumption == MaxPairs \in Nat
ASSUME MaxFaultsAssumption == MaxFaults \in Nat

VARIABLES
  running,   \* the kind of process that is up
  pairs,     \* table pairs: the ids
  lastPair,  \* its AUTOINCREMENT counter
  op,        \* each surface's operation
  tests,     \* test posts that are on the platform
  faults,
  lost,      \* history: faults that may have left a test post behind
  gone       \* history: the pairs that were removed

opsVars == <<pairs, lastPair, op, tests, faults, lost, gone>>

PairId == 1..MaxPairs
NoOp == [kind |-> "none", todo |-> {}, at |-> "next"]

OpsTypeOK ==
  /\ running \in {"down", "installer", "full"}
  /\ pairs \subseteq PairId /\ gone \subseteq PairId
  /\ lastPair \in 0..MaxPairs
  /\ op \in [Surface -> [kind : {"none", "add", "access", "report", "promote", "admin"},
                         todo : SUBSET PairId,
                         at : {"next", "send", "delete"}]]
  /\ tests \in Nat /\ lost \in 0..(MaxFaults * Cardinality(Surface))
  /\ faults \in 0..MaxFaults

OpsInit ==
  /\ running = "down"
  /\ pairs = {} /\ lastPair = 0 /\ gone = {}
  /\ op = [s \in Surface |-> NoOp]
  /\ tests = 0 /\ faults = 0 /\ lost = 0

Free(s) == running # "down" /\ op[s] = NoOp
Busy(s, kind, at) == op[s].kind = kind /\ op[s].at = at
Goes(s, o) == op' = [op EXCEPT ![s] = o]

\* The surfaces whose test post is on the platform.
Probing == { s \in Surface : op[s].at = "delete" }

Fault == faults < MaxFaults /\ faults' = faults + 1

-----------------------------------------------------------------------------
(* Pairs *)

\* The id SQLite gives without AUTOINCREMENT.
NextIdOfTable == IF pairs = {} THEN 1 ELSE Max(pairs) + 1
\* INTEGER PRIMARY KEY AUTOINCREMENT
NextId == lastPair + 1

\* PairsEngine.add of the store
InsertPair ==
  /\ NextId <= MaxPairs
  /\ pairs' = pairs \cup {NextId}
  /\ lastPair' = NextId

\* /add awaits both channels before it registers the pair.
AddCommand(s) ==
  /\ Free(s) /\ running = "full"
  /\ Goes(s, [NoOp EXCEPT !.kind = "add"])
  /\ UNCHANGED <<running, pairs, lastPair, tests, faults, lost, gone>>

\* The dashboard does the same; without the engines of the bridge it answers 409.
AddRequest(s) == AddCommand(s)

AddAnswers(s) ==
  /\ Busy(s, "add", "next")
  /\ InsertPair
  /\ Goes(s, NoOp)
  /\ UNCHANGED <<running, tests, faults, lost, gone>>

\* A channel is not found, or the session is gone.
AddFails(s) ==
  /\ Busy(s, "add", "next")
  /\ Goes(s, NoOp)
  /\ UNCHANGED <<running, pairs, lastPair, tests, faults, lost, gone>>

\* /remove, and DELETE of the dashboard.
RemovePair(p) ==
  /\ running # "down"
  /\ p \in pairs
  /\ pairs' = pairs \ {p}
  /\ gone' = gone \cup {p}
  /\ UNCHANGED <<running, lastPair, op, tests, faults, lost>>

-----------------------------------------------------------------------------
(* Access: a test post per pair *)

Access(s, which) == Goes(s, [kind |-> "access", todo |-> which, at |-> "send"])

\* /access, and the dashboard's button, which has no clients in the installer.
AccessCommand(s) ==
  /\ Free(s) /\ running = "full"
  /\ pairs # {}
  /\ Access(s, pairs)
  /\ UNCHANGED <<running, pairs, lastPair, tests, faults, lost, gone>>

AccessRequest(s) == AccessCommand(s)

\* The wizard's report on a pair it has just registered: a test post of every Bale
\* account that is set up, both of them, one or none.
AccessReport(s) ==
  /\ Free(s)
  /\ InsertPair
  /\ \/ Goes(s, [kind |-> "report", todo |-> {NextId}, at |-> "send"])
     \/ Access(s, {NextId})
     \/ Goes(s, NoOp)
  /\ UNCHANGED <<running, tests, faults, lost, gone>>

\* probe_access: the test post
ProbeSent(s) ==
  /\ op[s].at = "send"
  /\ tests' = tests + 1
  /\ Goes(s, [op[s] EXCEPT !.at = "delete"])
  /\ UNCHANGED <<running, pairs, lastPair, faults, lost, gone>>

\* The next pair of the list; after the selfbot's test in a report, the bot's.
Finished(s) ==
  LET rest == op[s].todo \ {Min(op[s].todo)}
      kind == op[s].kind
  IN  Goes(s, IF kind = "report" THEN [op[s] EXCEPT !.kind = "access", !.at = "send"]
              ELSE IF rest = {} THEN NoOp
              ELSE [op[s] EXCEPT !.todo = rest,
                                 !.at = IF kind = "access" THEN "send" ELSE "next"])

\* The send fails, or its answer is lost and the post is there all the same.
ProbeRefused(s) ==
  /\ op[s].at = "send"
  /\ Fault
  /\ \/ UNCHANGED <<tests, lost>>
     \/ tests' = tests + 1 /\ lost' = lost + 1
  /\ Finished(s)
  /\ UNCHANGED <<running, pairs, lastPair, gone>>

\* Leaves the test post there once the account has proved that it can write.
ProbeKept(s) ==
  /\ op[s].at = "delete"
  /\ UNCHANGED tests
  /\ Finished(s)
  /\ UNCHANGED <<running, pairs, lastPair, faults, lost, gone>>
ProbeDeleted(s) ==
  /\ op[s].at = "delete"
  /\ tests' = tests - 1
  /\ Finished(s)
  /\ UNCHANGED <<running, pairs, lastPair, faults, lost, gone>>

\* A failure to delete the test post is not reported.
ProbeDeletionFails(s) ==
  /\ op[s].at = "delete"
  /\ Fault
  /\ lost' = lost + 1
  /\ Finished(s)
  /\ UNCHANGED <<running, pairs, lastPair, tests, gone>>

-----------------------------------------------------------------------------
(* Promotion of the Bale bot *)

\* /promote, which tests nothing afterwards.
PromoteCommand(s) ==
  /\ Free(s) /\ running = "full"
  /\ pairs # {}
  /\ Goes(s, [kind |-> "admin", todo |-> pairs, at |-> "next"])
  /\ UNCHANGED <<running, pairs, lastPair, tests, faults, lost, gone>>

\* add_admin, whose failure is a line of the report.
AdminMade(s) ==
  /\ Busy(s, "admin", "next")
  /\ Finished(s)
  /\ UNCHANGED <<running, pairs, lastPair, tests, faults, lost, gone>>

Promote(s) ==
  /\ Free(s)
  /\ pairs # {}
  /\ Goes(s, [kind |-> "promote", todo |-> pairs, at |-> "next"])
  /\ UNCHANGED <<running, pairs, lastPair, tests, faults, lost, gone>>

\* The dashboard's button, and the wizard's, which works in the installer too.
PromoteRequest(s) == running = "full" /\ Promote(s)
PromoteButton(s) == Promote(s)

\* add_admin, and then the test of the bot, unless it has failed.
Promoted(s) ==
  /\ Busy(s, "promote", "next")
  /\ Goes(s, [op[s] EXCEPT !.at = "send"])
  /\ UNCHANGED <<running, pairs, lastPair, tests, faults, lost, gone>>

PromotionFails(s) ==
  /\ Busy(s, "promote", "next")
  /\ Fault
  /\ Finished(s)
  /\ UNCHANGED <<running, pairs, lastPair, tests, lost, gone>>

-----------------------------------------------------------------------------
(* The process *)

Start ==
  /\ running = "down"
  /\ running' \in {"installer", "full"}
  /\ UNCHANGED opsVars

End ==
  /\ running # "down"
  /\ Fault
  /\ running' = "down"
  /\ lost' = lost + Cardinality(Probing)
  /\ op' = [s \in Surface |-> NoOp]
  /\ UNCHANGED <<pairs, lastPair, tests, gone>>

-----------------------------------------------------------------------------
Step(s) ==
  \/ AddCommand(s) \/ AddRequest(s) \/ AddAnswers(s) \/ AddFails(s)
  \/ AccessCommand(s) \/ AccessRequest(s) \/ AccessReport(s)
  \/ ProbeSent(s) \/ ProbeRefused(s) \/ ProbeDeleted(s) \/ ProbeDeletionFails(s)
  \/ PromoteCommand(s) \/ AdminMade(s) \/ PromoteRequest(s) \/ PromoteButton(s)
  \/ Promoted(s) \/ PromotionFails(s)

OpsNext ==
  \/ \E s \in Surface : Step(s)
  \/ \E p \in PairId : RemovePair(p)
  \/ Start \/ End

-----------------------------------------------------------------------------
(* Properties *)

\* The test posts on the platform are those being tested right now and those of a
\* call that failed or a process that ended in between: an operator's test leaves
\* nothing in the channels by itself.
TestPostsAccounted == tests <= lost + Cardinality(Probing)

\* The id of a removed pair never comes back: the mappings a send adds after the
\* removal belong to no pair, and not to a pair that is registered later.
IdsStayRetired == pairs \cap gone = {}
=============================================================================
