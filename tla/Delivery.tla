------------------------------ MODULE Delivery ------------------------------
(***************************************************************************)
(* QueueEngine closed by two platforms and opaque handlers: users post     *)
(* (single messages and album items), edit and delete; every event is      *)
(* produced once, in order.  `log` and `dropped` are history variables:    *)
(* what the workers handed to their handlers, and the new messages a pause *)
(* or a restart threw away.  All messages here are users' messages, so the *)
(* ledger and the ignore sets stay empty; Bridge exercises them.           *)
(***************************************************************************)
EXTENDS QueueEngine

CONSTANT
  MaxTurns  \* bound: edits, deletions, pause changes and restarts, together

VARIABLES
  posts,    \* per chat: the group of each message posted so far
  gone,     \* messages their author deleted
  turns,    \* edits, deletions, pause changes and restarts so far
  log,      \* per side: the jobs handed to the handlers, in order
  dropped   \* new messages a pause or a restart lost

envVars == <<posts, gone, turns>>
vars == <<queueVars, envVars, log, dropped>>

Posted == { m \in Msg : m.id <= Len(posts[m.chat]) }
GroupOf(m) == posts[m.chat][m.id]
ItemOf(m, t) == [msg |-> m, txt |-> t, grp |-> GroupOf(m)]

Turn == turns < MaxTurns /\ turns' = turns + 1

MsgsOf(j) == IF j.kind = "delete" THEN j.ids
                                  ELSE { j.items[i].msg : i \in DOMAIN j.items }

-----------------------------------------------------------------------------
(* The users *)

Post(c, g, t) ==
  LET m == [chat |-> c, id |-> Len(posts[c]) + 1]
  IN  /\ Len(posts[c]) < MaxId
      /\ posts' = [posts EXCEPT ![c] = Append(@, g)]
      /\ Emit(SideOf(c), [kind |-> "new",
                          items |-> <<[msg |-> m, txt |-> t, grp |-> g]>>])
      /\ UNCHANGED <<q, job, pending, tasks, paused, sent, ignore,
                     gone, turns, log, dropped>>

Edit(m, t) ==
  /\ m \in Posted \ gone
  /\ Turn
  /\ Emit(SideOf(m.chat), [kind |-> "edit", items |-> <<ItemOf(m, t)>>])
  /\ UNCHANGED <<q, job, pending, tasks, paused, sent, ignore,
                 posts, gone, log, dropped>>

\* One deletion event can name several messages of a chat; the Bale Bot API
\* reports none.
Delete(c, ids) ==
  /\ ids # {} /\ ids \subseteq Posted \ gone
  /\ \A m \in ids : m.chat = c
  /\ SideOf(c) = "bale" => BaleMode = "user"
  /\ Turn
  /\ gone' = gone \cup ids
  /\ Emit(SideOf(c), [kind |-> "delete", ids |-> ids])
  /\ UNCHANGED <<q, job, pending, tasks, paused, sent, ignore,
                 posts, log, dropped>>

-----------------------------------------------------------------------------
(* The bridge *)

Intake(s) ==
  /\ OnNew(s) \/ OnEdit(s) \/ OnDelete(s)
  /\ UNCHANGED <<envVars, log, dropped>>

FlushAlbum(k) == Flush(k) /\ UNCHANGED <<envVars, log, dropped>>

Handle(s) ==
  /\ Take(s)
  /\ log' = [log EXCEPT ![s] = Append(@, Head(q[s]))]
  /\ UNCHANGED <<sent, ignore, envVars, dropped>>

Skip(s) ==
  /\ Drop(s)
  /\ dropped' = IF Head(q[s]).kind = "new" THEN dropped \cup MsgsOf(Head(q[s]))
                                           ELSE dropped
  /\ UNCHANGED <<envVars, log>>

Finish(s) == Done(s) /\ UNCHANGED <<sent, ignore, envVars, log, dropped>>

Pause(b) ==
  /\ SetPaused(b)
  /\ Turn
  /\ UNCHANGED <<posts, gone, log, dropped>>

\* New messages held by the queues and the streams.
NewIn(seq) ==
  UNION { IF seq[i].kind = "new" THEN MsgsOf(seq[i]) ELSE {} : i \in DOMAIN seq }
Buffered == UNION { { pending[k][i].msg : i \in DOMAIN pending[k] } : k \in Key }

Crash ==
  /\ Restart
  /\ Turn
  /\ dropped' = dropped \cup Buffered
                \cup (UNION { NewIn(q[s]) : s \in Side })
                \cup (UNION { NewIn(stream[s]) \ NewIn(stream'[s]) : s \in Side })
  /\ UNCHANGED <<posts, gone, log>>

Init ==
  /\ QueueInit
  /\ posts = [c \in Chat |-> <<>>]
  /\ gone = {}
  /\ turns = 0
  /\ log = [s \in Side |-> <<>>]
  /\ dropped = {}

Next ==
  \/ \E c \in Chat, g \in Group \cup {NoGroup}, t \in Text : Post(c, g, t)
  \/ \E m \in Msg, t \in Text : Edit(m, t)
  \/ \E c \in Chat, ids \in SUBSET Msg : Delete(c, ids)
  \/ \E s \in Side : Intake(s)
  \/ \E k \in Key : FlushAlbum(k)
  \/ \E s \in Side : Handle(s)
  \/ \E s \in Side : Skip(s)
  \/ \E s \in Side : Finish(s)
  \/ \E b \in BOOLEAN : Pause(b)
  \/ Crash

Spec == Init /\ [][Next]_vars

\* The event loop runs every ready callback: entry points, flush timers and
\* workers are never starved, and handlers return.  Users owe us nothing.
Fairness ==
  /\ \A s \in Side : /\ WF_vars(Intake(s))
                     /\ WF_vars(Handle(s) \/ Skip(s))
                     /\ WF_vars(Finish(s))
  /\ \A k \in Key : WF_vars(FlushAlbum(k))

FairSpec == Spec /\ Fairness

-----------------------------------------------------------------------------
(* Properties *)

\* The number of times m occurs as a new message in a sequence of jobs.
TimesNew(m, seq) ==
  Cardinality({ x \in (DOMAIN seq) \X (1..MaxId) :
                  /\ seq[x[1]].kind = "new"
                  /\ x[2] \in DOMAIN seq[x[1]].items
                  /\ seq[x[1]].items[x[2]].msg = m })
TimesBuffered(m) ==
  Cardinality({ x \in Key \X (1..MaxId) :
                  x[2] \in DOMAIN pending[x[1]] /\ pending[x[1]][x[2]].msg = m })

\* A posted message is in exactly one place: still in its platform's stream,
\* in an album buffer, in a queued job, in a job a handler got, or dropped by
\* a pause or a restart.  Nothing is queued twice, nothing vanishes (feed,
\* flush, the entry points and the worker loop together).
AccountedOnce ==
  \A m \in Posted :
    LET s == SideOf(m.chat)
    IN  TimesNew(m, stream[s]) + TimesBuffered(m) + TimesNew(m, q[s])
        + TimesNew(m, log[s]) + (IF m \in dropped THEN 1 ELSE 0) = 1

Stage(kind) == CASE kind = "new" -> 0 [] kind = "edit" -> 1 [] kind = "delete" -> 2

\* Handlers see what happened to one message in the order it happened, for the
\* messages that satisfy P.
LifeInOrder(P(_)) ==
  \A s \in Side : \A i, j \in DOMAIN log[s] :
    \A m \in MsgsOf(log[s][i]) \cap MsgsOf(log[s][j]) :
      (i < j /\ P(m)) => Stage(log[s][i].kind) <= Stage(log[s][j].kind)

\* Messages outside albums are handled in the order of the channel, and each
\* one's edits and deletion after it ("two FIFO queues keep ordering
\* deterministic").
SinglesInOrder ==
  /\ LifeInOrder(LAMBDA m : GroupOf(m) = NoGroup)
  /\ \A s \in Side : \A i, j \in DOMAIN log[s] :
       (i < j /\ log[s][i].kind = "new" /\ log[s][j].kind = "new") =>
         \A m \in MsgsOf(log[s][i]), n \in MsgsOf(log[s][j]) :
           (m.chat = n.chat /\ GroupOf(m) = NoGroup /\ GroupOf(n) = NoGroup)
             => m.id < n.id

\* The same for every message, album items included (docs/architecture.md:36).
\* The album buffer breaks it: an edit or a deletion of a buffered item is
\* queued at once, in front of the job that will mirror the item.
EveryLifeInOrder == LifeInOrder(LAMBDA m : TRUE)

\* A job of several new messages is one album of one chat, in message order.
AlbumJobsSorted ==
  \A s \in Side : \A i \in DOMAIN log[s] :
    log[s][i].kind = "new" =>
      \A a, b \in DOMAIN log[s][i].items :
        a < b => LET x == log[s][i].items[a]
                     y == log[s][i].items[b]
                 IN  /\ x.msg.chat = y.msg.chat /\ x.msg.id < y.msg.id
                     /\ x.grp = y.grp /\ x.grp # NoGroup

\* Every posted message reaches a handler, unless a pause or a restart dropped
\* it: no buffer is left without a timer, no worker stops.
EveryPostHandled ==
  \A m \in Msg : (m \in Posted) ~> (TimesNew(m, log[SideOf(m.chat)]) > 0 \/ m \in dropped)
=============================================================================
