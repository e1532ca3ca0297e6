------------------------------ MODULE UpdateFeed ------------------------------
(* What a listener promises of a stream of updates: whatever fails between    *)
(* the platform and the program, and however often the program restarts, once *)
(* the first update has been handled every later one is begun exactly once    *)
(* and in order.  Before that the position may move: the backlog of a first   *)
(* start is thrown away on purpose.                                           *)
EXTENDS Naturals

CONSTANT MaxUpdates  \* bound: updates the platform ever publishes

VARIABLES
  published,  \* the id of the newest update, ids counting from 1
  pos,        \* the next update to handle
  fresh       \* no update has been handled yet

vars == <<published, pos, fresh>>

Init ==
  /\ published \in 0..MaxUpdates
  /\ pos \in 1..(published + 1)
  /\ fresh = TRUE

Publish ==
  /\ published < MaxUpdates
  /\ published' = published + 1
  /\ UNCHANGED <<pos, fresh>>

Handle ==
  /\ pos <= published
  /\ pos' = pos + 1
  /\ fresh' = FALSE
  /\ UNCHANGED published

\* Only a listener that has handled nothing may start elsewhere.
Skip ==
  /\ fresh
  /\ pos' \in 1..(published + 1)
  /\ UNCHANGED <<published, fresh>>

Next == Publish \/ Handle \/ Skip

Spec == Init /\ [][Next]_vars /\ WF_vars(Handle)
=============================================================================
