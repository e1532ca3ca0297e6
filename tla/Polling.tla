------------------------------- MODULE Polling --------------------------------
(***************************************************************************)
(* ListenEngine (bridge/botapi/events.py): the endless long poll of        *)
(* getUpdates, with the offset that bridge/tgbot/ and bridge/bale/routing  *)
(* keep in the store, over failed calls, crashes and restarts.  The        *)
(* Telegram control bot, Bale in bot mode and the Bale bot beside a        *)
(* selfbot each run this loop with an offset of their own: one is          *)
(* modelled.  The retries inside one getUpdates are the business of        *)
(* BotCall; here the call answers or it fails.                             *)
(***************************************************************************)
EXTENDS Naturals

CONSTANTS
  MaxUpdates,   \* bound: updates the platform ever publishes
  LIMIT,        \* updates in one answer
  MaxPollFaults \* bound: failed polls and ends of the process

ASSUME PollAssumption ==
  MaxUpdates \in Nat /\ LIMIT \in Nat \ {0} /\ MaxPollFaults \in Nat

VARIABLES
  published,  \* the platform: the newest update
  kept,       \* the platform: the oldest update not yet confirmed
  saved,      \* the store: the offset to go on from, 0 when there is none
  phase,      \* where the listener is
  offset,     \* its local variable
  batch,      \* the updates of the last answer that are still to be handled
  pollFaults

pollVars == <<published, kept, saved, phase, offset, batch, pollFaults>>

PollTypeOK ==
  /\ published \in 0..MaxUpdates
  /\ kept \in 1..(MaxUpdates + 1)
  /\ saved \in 0..(MaxUpdates + 1) /\ offset \in 0..(MaxUpdates + 1)
  /\ phase \in {"down", "first", "poll", "handle"}
  /\ batch \subseteq 1..MaxUpdates
  /\ pollFaults \in 0..MaxPollFaults

PollInit ==
  /\ published \in 0..MaxUpdates /\ kept = 1
  /\ saved = 0
  /\ phase = "down" /\ offset = 0 /\ batch = {}
  /\ pollFaults = 0

Later(a, b) == IF a > b THEN a ELSE b

PollFault == pollFaults < MaxPollFaults /\ pollFaults' = pollFaults + 1

\* Somebody writes to the bot.
Publish ==
  /\ published < MaxUpdates
  /\ published' = published + 1
  /\ UNCHANGED <<kept, saved, phase, offset, batch, pollFaults>>

\* The process starts: build_tasks, TgBotSession.listen.
Listen ==
  /\ phase = "down"
  /\ phase' = IF saved = 0 THEN "first" ELSE "poll"
  /\ offset' = saved
  /\ UNCHANGED <<published, kept, saved, batch, pollFaults>>

\* Nothing saved: offset -1 asks for the newest update and drops the others.
Newest == IF kept <= published THEN published ELSE kept

SkipBacklog ==
  /\ phase = "first"
  /\ phase' = "poll"
  /\ kept' = Newest
  /\ offset' = IF kept <= published THEN Newest + 1 ELSE 0
  /\ UNCHANGED <<published, saved, batch, pollFaults>>

\* getUpdates: an offset confirms everything before it.  With nothing new the
\* long poll ends empty.
Poll ==
  LET from == Later(offset, kept)
  IN  /\ phase = "poll"
      /\ kept' = from
      /\ batch' = {u \in from..published : u < from + LIMIT}
      /\ phase' = "handle"
      /\ UNCHANGED <<published, saved, offset, pollFaults>>

First(u) == \A other \in batch : u <= other

\* Keeps the id of the update itself as the offset.
HandlerKeepsId ==
  \E u \in batch :
    /\ phase = "handle"
    /\ First(u)
    /\ offset' = Later(offset, u)
    /\ saved' = offset'
    /\ batch' = batch \ {u}
    /\ UNCHANGED <<published, kept, phase, pollFaults>>
\* The handler saves the offset before it first awaits, and only then acts;
\* what it raises is logged.
Handler ==
  \E u \in batch :
    /\ phase = "handle"
    /\ First(u)
    /\ offset' = Later(offset, u + 1)
    /\ saved' = offset'
    /\ batch' = batch \ {u}
    /\ UNCHANGED <<published, kept, phase, pollFaults>>

\* The handler of the last update of the answer has returned.
BatchDone ==
  /\ phase = "handle"
  /\ batch = {}
  /\ phase' = "poll"
  /\ UNCHANGED <<published, kept, saved, offset, batch, pollFaults>>

\* The call fails, before or after the platform has confirmed; after a pause
\* the loop asks again.
PollFails ==
  /\ phase = "poll"
  /\ PollFault
  /\ kept' \in {kept, Later(offset, kept)}
  /\ UNCHANGED <<published, saved, phase, offset, batch>>

Down ==
  /\ phase' = "down"
  /\ batch' = {} /\ offset' = 0
  /\ PollFault
  /\ UNCHANGED <<published, saved>>

\* The first poll, or an answer that is not JSON, is caught nowhere: the tasks
\* of the bridge end together.
PollRaises ==
  /\ phase \in {"first", "poll"}
  /\ kept' \in {kept, IF phase = "first" THEN Newest ELSE Later(offset, kept)}
  /\ Down

\* The process ends at any other point.
PollCrash ==
  /\ phase # "down"
  /\ Down
  /\ UNCHANGED kept

Listener == Listen \/ SkipBacklog \/ Poll \/ Handler \/ BatchDone

PollNext == Publish \/ Listener \/ PollFails \/ PollRaises \/ PollCrash

\* The next update to handle, as the platform and the listener agree on it.
Position ==
  IF phase \in {"poll", "handle"} /\ offset # 0 THEN offset
  ELSE IF phase \in {"first", "down"} /\ saved # 0 THEN saved
  ELSE kept

Fresh == saved = 0

Feed == INSTANCE UpdateFeed WITH pos <- Position, fresh <- Fresh

\* The loop is a listener in the sense of UpdateFeed: after the first update
\* none is begun twice, skipped or out of order, whatever fails between the
\* platform and the store, and each is begun in the end.
PollImplementsFeed == Feed!Spec
=============================================================================
