---------------------------- MODULE QueueEngine ----------------------------
(***************************************************************************)
(* The intake of the bridge: bridge/transfer/queueing.py (two FIFO queues, *)
(* one worker each, the pause flag and the entry points of the platform    *)
(* events), bridge/transfer/albums.py (the album buffers and their flush   *)
(* timers) and the part of bridge/transfer/loopguard.py the entry points   *)
(* ask ("did we cause this event ourselves?").                             *)
(*                                                                         *)
(* Everything runs on one asyncio event loop, so the code between two      *)
(* awaits is one atomic step.  `put` on an unbounded asyncio.Queue never   *)
(* suspends: each entry point is one action.                               *)
(*                                                                         *)
(* The module gives the actions; Delivery closes it with two platforms     *)
(* that produce events and with opaque handlers, Bridge with the real      *)
(* mirror, edit and delete engines.                                        *)
(***************************************************************************)
EXTENDS Naturals, Sequences, FiniteSets, Functions

CONSTANTS
  TgChat,    \* Telegram channels
  BaleChat,  \* Bale channels
  MaxId,     \* bound: number of messages a channel ever holds
  Text,      \* message contents
  Group,     \* album identifiers: grouped_id, media_group_id
  NoGroup,   \* the message is not part of an album
  BaleMode   \* "bot": Bot API polling; "user": aiobale selfbot

ASSUME ChatsAssumption == TgChat \cap BaleChat = {}
ASSUME MaxIdAssumption == MaxId \in Nat \ {0}
ASSUME GroupAssumption == NoGroup \notin Group
ASSUME ModeAssumption == BaleMode \in {"bot", "user"}

Side == {"tg", "bale"}
Chat == TgChat \cup BaleChat

\* (platform, chat, message id): a chat belongs to one platform.
Msg == [chat : Chat, id : 1..MaxId]
SideOf(chat) == IF chat \in TgChat THEN "tg" ELSE "bale"

\* What a message event carries: the message as it was when it was reported.
Item == [msg : Msg, txt : Text, grp : Group \cup {NoGroup}]

\* A job of a queue.  A platform event has the same shape, with one item.  The
\* order in which a deletion names its messages is arbitrary: they are a set.
ContentJob == [kind : {"new", "edit"}, items : Seq(Item) \ {<<>>}]
DeleteJob == [kind : {"delete"}, ids : SUBSET Msg]
Job == ContentJob \cup DeleteJob
NoJob == [kind |-> "none"]

\* The key of an album buffer: (chat_key, grouped_id).
Key == Chat \X Group

VARIABLES
  stream,   \* per side: events the platform has produced and nobody handled yet
  q,        \* per side: q_tg, q_bale
  job,      \* per side: the job its worker is handling, or NoJob
  pending,  \* album buffers
  tasks,    \* keys with a live flush task
  paused,   \* QueueEngine.paused
  sent,     \* the sent ledger: messages the bridge created (persistent)
  ignore    \* ignore_tg and ignore_bale: deletions the bridge asked for

queueVars == <<stream, q, job, pending, tasks, paused, sent, ignore>>

QueueTypeOK ==
  /\ stream \in [Side -> Seq(Job)]
  /\ q \in [Side -> Seq(Job)]
  /\ job \in [Side -> Job \cup {NoJob}]
  /\ pending \in [Key -> Seq(Item)]
  /\ tasks \in SUBSET Key
  /\ paused \in BOOLEAN
  /\ sent \in SUBSET Msg
  /\ ignore \in SUBSET Msg

QueueInit ==
  /\ stream = [s \in Side |-> <<>>]
  /\ q = [s \in Side |-> <<>>]
  /\ job = [s \in Side |-> NoJob]
  /\ pending = [k \in Key |-> <<>>]
  /\ tasks = {}
  /\ paused = FALSE
  /\ sent = {}
  /\ ignore = {}

-----------------------------------------------------------------------------
(* Albums *)

\* Sorts the wrong way.
SortedDown(s) ==
  { [i \in DOMAIN s |-> s[p[i]]] :
      p \in { p \in [DOMAIN s -> DOMAIN s] :
                /\ IsInjective(p)
                /\ \A i, j \in DOMAIN s :
                     i < j => s[p[i]].msg.id >= s[p[j]].msg.id } }
\* All orderings of s by message id (one, as ids are unique in a chat).
SortedById(s) ==
  { [i \in DOMAIN s |-> s[p[i]]] :
      p \in { p \in [DOMAIN s -> DOMAIN s] :
                /\ IsInjective(p)
                /\ \A i, j \in DOMAIN s :
                     i < j => s[p[i]].msg.id <= s[p[j]].msg.id } }

\* A stack in place of a queue.
PutFirst(s, j) == q' = [q EXCEPT ![s] = <<j>> \o @]
Put(s, j) == q' = [q EXCEPT ![s] = Append(@, j)]

\* Starts the flush task with the second item.
FeedLateTimer(k, it) ==
  /\ pending' = [pending EXCEPT ![k] = Append(@, it)]
  /\ tasks' = IF Len(pending'[k]) = 2 THEN tasks \cup {k} ELSE tasks
\* The first item of a buffer starts its flush task, the others only join.
Feed(k, it) ==
  /\ pending' = [pending EXCEPT ![k] = Append(@, it)]
  /\ tasks' = IF Len(pending'[k]) = 1 THEN tasks \cup {k} ELSE tasks

\* Queues the list it has just cleared.
FlushCleared(k) ==
  /\ k \in tasks
  /\ pending' = [pending EXCEPT ![k] = <<>>]
  /\ tasks' = tasks \ {k}
  /\ Put(SideOf(k[1]), [kind |-> "new", items |-> pending'[k]])
  /\ UNCHANGED <<stream, job, paused, sent, ignore>>
\* Reads the buffer instead of popping it.
FlushKeepsBuffer(k) ==
  /\ k \in tasks
  /\ tasks' = tasks \ {k}
  /\ \E msgs \in SortedById(pending[k]) :
       Put(SideOf(k[1]), [kind |-> "new", items |-> msgs])
  /\ UNCHANGED <<pending, stream, job, paused, sent, ignore>>
\* The delay of a flush task has passed.
Flush(k) ==
  /\ k \in tasks
  /\ pending' = [pending EXCEPT ![k] = <<>>]
  /\ tasks' = tasks \ {k}
  /\ IF pending[k] = <<>>
       THEN UNCHANGED q
       ELSE \E msgs \in SortedById(pending[k]) :
              Put(SideOf(k[1]), [kind |-> "new", items |-> msgs])
  /\ UNCHANGED <<stream, job, paused, sent, ignore>>

-----------------------------------------------------------------------------
(* Entry points *)

Arrives(s, kind) == stream[s] # <<>> /\ Head(stream[s]).kind = kind
Pop(s) == stream' = [stream EXCEPT ![s] = Tail(@)]

\* on_tg_new, queue_bale_msg.
OnNew(s) ==
  /\ Arrives(s, "new")
  /\ Pop(s)
  /\ LET it == Head(stream[s]).items[1]
     IN  \/ /\ it.msg \in sent
            /\ sent' = sent \ {it.msg}
            /\ UNCHANGED <<q, pending, tasks>>
         \/ /\ it.msg \notin sent
            /\ it.grp # NoGroup
            /\ Feed(<<it.msg.chat, it.grp>>, it)
            /\ UNCHANGED <<q, sent>>
         \/ /\ it.msg \notin sent
            /\ it.grp = NoGroup
            /\ Put(s, Head(stream[s]))
            /\ UNCHANGED <<pending, tasks, sent>>
  /\ UNCHANGED <<job, paused, ignore>>

\* on_tg_edit asks (and consumes) the ledger, queue_bale_edit does not.
OnEdit(s) ==
  /\ Arrives(s, "edit")
  /\ Pop(s)
  /\ LET m == Head(stream[s]).items[1].msg
     IN  IF s = "tg" /\ m \in sent
           THEN /\ sent' = sent \ {m}
                /\ UNCHANGED q
           ELSE /\ Put(s, Head(stream[s]))
                /\ UNCHANGED sent
  /\ UNCHANGED <<job, pending, tasks, paused, ignore>>

\* on_tg_delete, on_bale_delete: what the bridge deleted itself is dropped.
OnDelete(s) ==
  /\ Arrives(s, "delete")
  /\ Pop(s)
  /\ LET deleted == Head(stream[s]).ids
         ids == deleted \ ignore
     IN  /\ ignore' = ignore \ deleted
         /\ IF ids = {}
              THEN UNCHANGED q
              ELSE Put(s, [kind |-> "delete", ids |-> ids])
  /\ UNCHANGED <<job, pending, tasks, paused, sent>>

-----------------------------------------------------------------------------
(* Workers, pause, restart *)

\* The worker of s gets a job: it hands it to the handler, or drops it.
Dequeue(s) ==
  /\ job[s] = NoJob
  /\ q[s] # <<>>
  /\ q' = [q EXCEPT ![s] = Tail(@)]

Take(s) ==
  /\ Dequeue(s)
  /\ ~paused
  /\ job' = [job EXCEPT ![s] = Head(q[s])]
  /\ UNCHANGED <<stream, pending, tasks, paused>>

Drop(s) ==
  /\ Dequeue(s)
  /\ paused
  /\ UNCHANGED <<stream, job, pending, tasks, paused, sent, ignore>>

\* The handler returns, or raises: the worker logs and goes on.
Done(s) ==
  /\ job[s] # NoJob
  /\ job' = [job EXCEPT ![s] = NoJob]
  /\ UNCHANGED <<stream, q, pending, tasks, paused>>

SetPaused(b) ==
  /\ paused # b
  /\ paused' = b
  /\ UNCHANGED <<stream, q, job, pending, tasks, sent, ignore>>

\* The process dies and starts again.  Queues, buffers, timers and the ignore
\* sets are memory; the ledger and the pause flag are in SQLite.  Telegram does
\* not replay what the session missed (no catch_up), nor does the Bale
\* selfbot; the Bale bot polls again from its saved offset.
Restart ==
  /\ stream' = [s \in Side |-> IF s = "bale" /\ BaleMode = "bot"
                                 THEN stream[s] ELSE <<>>]
  /\ q' = [s \in Side |-> <<>>]
  /\ job' = [s \in Side |-> NoJob]
  /\ pending' = [k \in Key |-> <<>>]
  /\ tasks' = {}
  /\ ignore' = {}
  /\ UNCHANGED <<paused, sent>>

\* The platform reports something.
Emit(s, e) == stream' = [stream EXCEPT ![s] = Append(@, e)]

-----------------------------------------------------------------------------
(* A buffered album always has the timer that will flush it, and a timer    *)
(* always has something to flush (albums.py: feed, flush).                  *)
TimerIffPending == \A k \in Key : k \in tasks <=> pending[k] # <<>>
=============================================================================
