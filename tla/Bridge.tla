------------------------------- MODULE Bridge -------------------------------
(***************************************************************************)
(* The synchronisation engines of bridge/transfer/ on top of QueueEngine:  *)
(* mirroring (mirror_t2b.py, mirror_b2t.py), edits (sync_edit.py) and      *)
(* deletions (sync_delete.py), between two platforms with their users, the *)
(* operator who changes pairs, and a process that may die.                 *)
(*                                                                         *)
(* The handler of side s serves the queue of s and calls the other         *)
(* platform.  Each await on a platform call is a program counter of the    *)
(* handler: the step that follows is the platform executing the call, and, *)
(* where code runs after the call returns, the return is a step of its     *)
(* own, so that the echo of the call may be handled in between.            *)
(***************************************************************************)
EXTENDS QueueEngine, DbStore

CONSTANTS
  PairId,      \* numbers of the channel pairs
  TgOf,        \* PairId -> Telegram channel
  BaleOf,      \* PairId -> Bale channel
  InitModes,   \* the assignments of modes to pairs a run may start with
  Admin,       \* the modes the operator sets; "removed" removes the pair
  NoMsg,       \* the source of a post no bridge made
  Chunks,      \* Text -> number of messages it takes on the other platform
  EarlyEcho,   \* the echo of a send may arrive before the call returns
  Echoes,      \* <<side, kind>>: events the bridge's own calls cause there
  Faulty,      \* <<side, call>>: calls to a platform that may fail
  UserEdits,   \* <<side, what>>: what users edit, "source" or "copy"
  UserDeletes, \* <<side, what>>: what users delete
  Repeats,     \* users may post a text that is already on a channel
  MaxPosts,    \* bound: posts of users
  MaxTurns,    \* bound: edits and deletions of users, changes of pairs
  MaxCrashes   \* bound: restarts of the process

Mode == {"tg2bale", "bale2tg", "both"}

ASSUME PairAssumption ==
  /\ PairId \subseteq Nat
  /\ TgOf \in [PairId -> TgChat]
  /\ BaleOf \in [PairId -> BaleChat]
  /\ InitModes \subseteq [PairId -> Mode]
ASSUME MsgAssumption == NoMsg \notin Msg
ASSUME ChunksAssumption == Chunks \in [Text -> Nat \ {0}]
ASSUME EnvAssumption ==
  /\ EarlyEcho \in BOOLEAN /\ Repeats \in BOOLEAN
  /\ Admin \subseteq Mode \cup {"removed"}
  /\ Echoes \subseteq Side \X {"new", "edit", "delete"}
  /\ Faulty \subseteq Side \X {"send", "edit", "delete"}
  /\ UserEdits \subseteq Side \X {"source", "copy"}
  /\ UserDeletes \subseteq Side \X {"source", "copy"}
\* Albums are mirrored as a unit: Delivery has them, this module not yet.
ASSUME SinglesAssumption == Group = {}

VARIABLES
  posts,   \* per chat: what the platform holds, by message id
  mode,    \* per pair: its mode, or "removed"
  rows,    \* msg_map
  lastRow, \* AUTOINCREMENT of msg_map
  fps,     \* sent_fp rows inside the time window
  w,       \* per side: the local state of its handler
  turns, crashes

dbVars == <<mode, rows, lastRow, fps>>
boundVars == <<turns, crashes>>
vars == <<queueVars, posts, dbVars, w, boundVars>>

Other(s) == IF s = "tg" THEN "bale" ELSE "tg"

\* A post: by a user (src = NoMsg) or by the bridge for the message src;
\* deleted by a user or removed by the bridge.
PostRec == [st : {"live", "deleted", "removed"}, txt : Text,
            src : Msg \cup {NoMsg}]
Exists(m) == m.id \in DOMAIN posts[m.chat]
Posted == { m \in Msg : Exists(m) }
At(m) == posts[m.chat][m.id]
Live(m) == At(m).st = "live"
ByUser(m) == At(m).src = NoMsg

Row == [id : Nat, pair : PairId, src : Msg, dst : Msg]
Found == [msg : Msg, pair : PairId, row : Nat]
Fingerprint == [chat : Chat, txt : Text, of : Msg]

\* Where a handler is.  "send", "fetch", "edit", "resend", "remove" and "delete"
\* wait for the platform to execute that call, "removed" and "deleted" for its
\* return.
PC == {"idle", "send", "fetch", "edit", "resend", "remove", "removed", "delete",
       "deleted", "done"}

\* pc; the pairs or the mapped messages left to serve, the first being served;
\* the deleted ids left to look up; what the current sends have created.
Local == [pc : PC, todo : SUBSET PairId, found : SUBSET Found,
          mids : SUBSET Msg, made : Seq(Msg)]
Stopped(pc) == [pc |-> pc, todo |-> {}, found |-> {}, mids |-> {}, made |-> <<>>]

TypeOK ==
  /\ QueueTypeOK
  /\ posts \in [Chat -> Seq(PostRec)]
  /\ mode \in [PairId -> Mode \cup {"removed"}]
  /\ rows \in SUBSET Row
  /\ lastRow \in Nat
  /\ fps \in SUBSET Fingerprint
  /\ w \in [Side -> Local]
  /\ turns \in Nat /\ crashes \in Nat

Init ==
  /\ QueueInit
  /\ posts = [c \in Chat |-> <<>>]
  /\ mode \in InitModes
  /\ rows = {} /\ lastRow = 0 /\ fps = {}
  /\ w = [s \in Side |-> Stopped("idle")]
  /\ turns = 0 /\ crashes = 0

-----------------------------------------------------------------------------
(* The platforms *)

ItemOf(m, t) == [msg |-> m, txt |-> t, grp |-> NoGroup]
NewEvent(m, t) == [kind |-> "new", items |-> <<ItemOf(m, t)>>]
EditEvent(m, t) == [kind |-> "edit", items |-> <<ItemOf(m, t)>>]
DeleteEvent(m) == [kind |-> "delete", ids |-> {m}]

\* The events the bridge's own call causes.
Echo(s, kind, e) ==
  IF <<s, kind>> \in Echoes THEN Emit(s, e) ELSE UNCHANGED stream

SetPost(m, p) == posts' = [posts EXCEPT ![m.chat][m.id] = p]

\* Users post, edit and delete.
UserPost(c, t) ==
  LET m == [chat |-> c, id |-> Len(posts[c]) + 1]
  IN  /\ Cardinality({ n \in Posted : ByUser(n) }) < MaxPosts
      /\ Len(posts[c]) < MaxId
      /\ Repeats \/ \A n \in Posted : At(n).txt # t
      /\ posts' = [posts EXCEPT ![c] =
                     Append(@, [st |-> "live", txt |-> t, src |-> NoMsg])]
      /\ Emit(SideOf(c), NewEvent(m, t))
      /\ UNCHANGED <<q, job, pending, tasks, paused, sent, ignore,
                     dbVars, w, boundVars>>

Turn == turns < MaxTurns /\ turns' = turns + 1

\* Without early echoes, nobody reacts to a post before the call that makes it
\* has returned.
MayTouch(m, who) ==
  /\ m \in Posted /\ Live(m)
  /\ EarlyEcho \/ \A s \in Side : m \notin Range(w[s].made)
  /\ <<SideOf(m.chat), IF ByUser(m) THEN "source" ELSE "copy">> \in who

UserEdit(m, t) ==
  /\ MayTouch(m, UserEdits)
  /\ t # At(m).txt
  /\ Turn
  /\ SetPost(m, [At(m) EXCEPT !.txt = t])
  /\ Emit(SideOf(m.chat), EditEvent(m, t))
  /\ UNCHANGED <<q, job, pending, tasks, paused, sent, ignore,
                 dbVars, w, crashes>>

\* The Bale Bot API reports no deletions.
UserDelete(m) ==
  /\ MayTouch(m, UserDeletes)
  /\ Turn
  /\ SetPost(m, [At(m) EXCEPT !.st = "deleted"])
  /\ IF SideOf(m.chat) = "bale" /\ BaleMode = "bot"
       THEN UNCHANGED stream
       ELSE Emit(SideOf(m.chat), DeleteEvent(m))
  /\ UNCHANGED <<q, job, pending, tasks, paused, sent, ignore,
                 dbVars, w, crashes>>

-----------------------------------------------------------------------------
(* Parts of the handlers *)

\* The message the handler of s is working for.
Source(s) == job[s].items[1]
MayFail(s, call) == <<Other(s), call>> \in Faulty
HasDeleteEvents == BaleMode = "user"

\* PairsEngine.for_tg, for_bale.
PairsFor(s, c) ==
  { p \in PairId :
      /\ (IF s = "tg" THEN TgOf[p] ELSE BaleOf[p]) = c
      /\ mode[p] \in {"both", IF s = "tg" THEN "tg2bale" ELSE "bale2tg"} }

\* Forgets the direction of the pair.
AppliesAnyMode(s, o) == SideOf(o.msg.chat) = Other(s) /\ mode[o.pair] # "removed"
\* The engines skip results on their own platform, of a removed pair, or of a
\* pair that goes only the other way.
Applies(s, o) ==
  /\ SideOf(o.msg.chat) = Other(s)
  /\ mode[o.pair] \notin {"removed", IF s = "tg" THEN "bale2tg" ELSE "tg2bale"}

FirstPair(s) == CHOOSE p \in w[s].todo : \A r \in w[s].todo : p <= r
Target(s) == First(w[s].found)
PairChat(s, p) == IF s = "tg" THEN BaleOf[p] ELSE TgOf[p]

\* Where the sends of the handler go: the pair's channel; in the edit fallback
\* mirror_t2b gets the pair's channel, mirror_b2t the mapped message's.
SendChat(s) ==
  IF w[s].pc = "send" THEN PairChat(s, FirstPair(s))
  ELSE IF s = "tg" THEN BaleOf[Target(s).pair] ELSE Target(s).msg.chat

Complete(s) == Len(w[s].made) = Chunks[Source(s).txt]

\* Forgets the ledger.
MarkNothing(ms) == sent' = sent
\* LoopGuard.mark.
Mark(ms) == sent' = sent \cup ms
\* Forgets the echo.
SuppressNothing(m) == ignore' = ignore
\* LoopGuard.suppress.
Suppress(m) == ignore' = ignore \cup {m}

\* What a failing call to Bale raises: BotAPIError, and in bot mode also what an
\* answer raises that is no JSON, which the engines do not catch.
Raised(s, call) ==
  {"BotAPIError"}
    \cup IF s = "tg" /\ BaleMode = "bot" /\ MayFail(s, call) THEN {"other"} ELSE {}

Become(s, l) == w' = [w EXCEPT ![s] = l]
Goto(s, pc) == w' = [w EXCEPT ![s].pc = pc]

\* The echoes of sends that did not arrive before the call ended.
LateEchoes(s) ==
  LET made == w[s].made
  IN  IF EarlyEcho \/ <<Other(s), "new">> \notin Echoes
        THEN UNCHANGED stream
        ELSE stream' = [stream EXCEPT ![Other(s)] =
               @ \o [i \in DOMAIN made |-> NewEvent(made[i], At(made[i]).txt)]]

\* mirror: on to the next pair.
NextPair(s) ==
  LET rest == w[s].todo \ {FirstPair(s)}
  IN  Become(s, IF rest = {} THEN Stopped("done")
                ELSE [Stopped("send") EXCEPT !.todo = rest])

\* process_*_edit: on to the first of F the engine does not skip.
EditFrom(s, F) ==
  LET here == { o \in F : Applies(s, o) }
  IN  Become(s, IF here = {} THEN Stopped("done")
                ELSE [Stopped(IF s = "tg" THEN "edit" ELSE "fetch") EXCEPT
                        !.found = { o \in F : o.row >= First(here).row }])
NextEdit(s) == EditFrom(s, w[s].found \ {Target(s)})

\* process_*_delete: on to the first of F the engine does not skip or, if there
\* is none, to a deleted id that has one.  The deletion to come is marked as ours
\* first; towards Bale only if Bale reports deletions.
DeleteFrom(s, F, mids, table, ign) ==
  LET Hits(G) == { o \in G : Applies(s, o) }
      Aim(G, left) ==
        LET o == First(Hits(G))
        IN  /\ Become(s, [Stopped("delete") EXCEPT
                            !.found = { r \in G : r.row >= o.row }, !.mids = left])
            /\ ignore' = IF s = "bale" \/ HasDeleteEvents THEN ign \cup {o.msg}
                                                           ELSE ign
      later == { m \in mids : Hits(OtherSide(table, m)) # {} }
  IN  \/ /\ Hits(F) # {}
         /\ Aim(F, mids)
      \/ /\ Hits(F) = {}
         /\ \E m \in later : Aim(OtherSide(table, m), mids \ {m})
      \/ /\ Hits(F) = {} /\ later = {}
         /\ Become(s, Stopped("done"))
         /\ ignore' = ign

-----------------------------------------------------------------------------
(* mirror: new messages *)

Starts(s, kind) == Take(s) /\ Head(q[s]).kind = kind

\* Drop our own posts (ledger, then on Bale's side the fingerprint), look up the
\* pairs, and start sending to the first one.
StartNew(s) ==
  /\ Starts(s, "new")
  /\ LET it == Head(q[s]).items[1]
         prints == IF s = "bale" THEN Fingerprints(fps, it.msg.chat, it.txt) ELSE {}
         pairs == PairsFor(s, it.msg.chat)
     IN  \/ /\ it.msg \in sent
            /\ sent' = sent \ {it.msg}
            /\ Become(s, Stopped("done"))
            /\ UNCHANGED fps
         \/ /\ it.msg \notin sent
            /\ \E f \in prints : fps' = fps \ {f}
            /\ Become(s, Stopped("done"))
            /\ UNCHANGED sent
         \/ /\ it.msg \notin sent
            /\ prints = {}
            /\ Become(s, IF pairs = {} THEN Stopped("done")
                         ELSE [Stopped("send") EXCEPT !.todo = pairs])
            /\ UNCHANGED <<sent, fps>>
  /\ UNCHANGED <<ignore, posts, mode, rows, lastRow, boundVars>>

\* The platform executes one send of msg_to_bale or msg_to_tg.
Send(s) ==
  /\ w[s].pc \in {"send", "resend"}
  /\ ~Complete(s)
  /\ LET c == SendChat(s)
         m == [chat |-> c, id |-> Len(posts[c]) + 1]
         t == Source(s).txt
     IN  /\ Len(posts[c]) < MaxId
         /\ posts' = [posts EXCEPT ![c] =
                        Append(@, [st |-> "live", txt |-> t, src |-> Source(s).msg])]
         /\ w' = [w EXCEPT ![s].made = Append(@, m)]
         /\ IF EarlyEcho THEN Echo(Other(s), "new", NewEvent(m, t))
                         ELSE UNCHANGED stream
  /\ UNCHANGED <<q, job, pending, tasks, paused, sent, ignore, dbVars, boundVars>>

\* pair_send after its sends: map, ledger and fingerprint of each message made.
Record(s) ==
  /\ w[s].pc = "send"
  /\ Complete(s)
  /\ LET made == w[s].made
         it == Source(s)
     IN  /\ rows' = AddRows(rows, lastRow, FirstPair(s), it.msg, made)
         /\ lastRow' = lastRow + Len(made)
         /\ Mark(Range(made))
         /\ fps' = fps \cup { [chat |-> SendChat(s), txt |-> it.txt, of |-> m] :
                                m \in Range(made) }
  /\ NextPair(s)
  /\ LateEchoes(s)
  /\ UNCHANGED <<q, job, pending, tasks, paused, ignore, posts, mode, boundVars>>

\* A send raises, or its answer is lost: what was made so far is forgotten, and
\* the engine goes on with the next pair or, in an edit, the next mapped message.
SendFails(s) ==
  /\ w[s].pc \in {"send", "resend"}
  /\ MayFail(s, "send")
  /\ IF w[s].pc = "send"
       THEN /\ NextPair(s)
            /\ UNCHANGED ignore
       ELSE /\ NextEdit(s)
            /\ ignore' = IF s = "tg" THEN ignore \ {Target(s).msg} ELSE ignore
  /\ LateEchoes(s)
  /\ UNCHANGED <<q, job, pending, tasks, paused, sent, posts, dbVars, boundVars>>

-----------------------------------------------------------------------------
(* process_tg_edit, process_bale_edit *)

StartEdit(s) ==
  /\ Starts(s, "edit")
  /\ EditFrom(s, OtherSide(rows, Head(q[s]).items[1].msg))
  /\ UNCHANGED <<sent, ignore, posts, dbVars, boundVars>>

\* process_bale_edit fetches the message first, and skips one that is gone.
Fetched(s) ==
  /\ w[s].pc = "fetch"
  /\ IF Live(Target(s).msg) THEN Goto(s, "edit") ELSE NextEdit(s)
  /\ UNCHANGED <<queueVars, posts, dbVars, boundVars>>

\* Telegram refuses an edit that changes nothing, Bale one of a post the bridge
\* did not make.
Editable(s) ==
  LET m == Target(s).msg
  IN  Live(m) /\ IF s = "bale" THEN At(m).txt # Source(s).txt ELSE ~ByUser(m)

\* The platform executes the edit.
Rewrite(s) ==
  LET m == Target(s).msg
  IN  /\ w[s].pc = "edit"
      /\ Editable(s)
      /\ SetPost(m, [At(m) EXCEPT !.txt = Source(s).txt])
      /\ Echo(Other(s), "edit", EditEvent(m, Source(s).txt))

Edited(s) ==
  /\ Rewrite(s)
  /\ NextEdit(s)
  /\ UNCHANGED <<q, job, pending, tasks, paused, sent, ignore, dbVars, boundVars>>

\* Telegram to Bale sends the replacement first, Bale to Telegram deletes first.
\* Deletes first both ways.
FallbackDeletes(s) == "remove"
FallbackFirst(s) == IF s = "tg" THEN "resend" ELSE "remove"

\* The edit is refused, or raises before or after its effect: announce the
\* deletion of the old copy and start the fallback, or end the job.
EditFails(s) ==
  /\ \/ w[s].pc = "edit" /\ ~Editable(s) /\ UNCHANGED <<posts, stream>>
     \/ w[s].pc \in {"fetch", "edit"} /\ MayFail(s, "edit") /\ UNCHANGED <<posts, stream>>
     \/ Rewrite(s) /\ MayFail(s, "edit")
  /\ \E e \in Raised(s, "edit") :
       IF e = "BotAPIError" THEN Suppress(Target(s).msg) /\ Goto(s, FallbackFirst(s))
                            ELSE UNCHANGED ignore /\ Become(s, Stopped("done"))
  /\ UNCHANGED <<q, job, pending, tasks, paused, sent, dbVars, boundVars>>

\* Telegram to Bale: the replacement is sent, now the old copy goes.
Resent(s) ==
  /\ s = "tg"
  /\ w[s].pc = "resend"
  /\ Complete(s)
  /\ Goto(s, "remove")
  /\ LateEchoes(s)
  /\ UNCHANGED <<q, job, pending, tasks, paused, sent, ignore, posts, dbVars, boundVars>>

\* The platform deletes the target of the handler, if it is still there.
Vanish(s, pc) ==
  LET m == Target(s).msg
  IN  /\ IF Live(m)
           THEN /\ SetPost(m, [At(m) EXCEPT !.st = "removed"])
                /\ Echo(Other(s), "delete", DeleteEvent(m))
           ELSE UNCHANGED <<posts, stream>>
      /\ Goto(s, pc)
      /\ UNCHANGED <<q, job, pending, tasks, paused, sent, ignore, dbVars, boundVars>>

Remove(s) == w[s].pc = "remove" /\ Vanish(s, "removed")

\* Deleting what is gone already may be an error in Bale, is none in Telegram.
DeletionMayFail(s) ==
  \/ MayFail(s, "delete")
  \/ s = "tg" /\ ~Live(Target(s).msg)

\* A failed deletion is ignored towards Bale, and ends this target's turn
\* towards Telegram.
RemoveFails(s) ==
  /\ w[s].pc \in {"remove", "removed"}
  /\ DeletionMayFail(s)
  /\ IF s = "tg" THEN w[s].pc = "remove" /\ Goto(s, "removed") ELSE NextEdit(s)
  /\ UNCHANGED <<queueVars, posts, dbVars, boundVars>>

\* Bale to Telegram: the old copy is gone, now the replacement is sent.
Removed(s) ==
  /\ s = "bale"
  /\ w[s].pc = "removed"
  /\ Goto(s, "resend")
  /\ UNCHANGED <<queueVars, posts, dbVars, boundVars>>

\* Both calls are done: the row gets the first message made, which alone is
\* recorded in the ledger.
Replace(s) ==
  /\ w[s].pc = (IF s = "tg" THEN "removed" ELSE "resend")
  /\ Complete(s)
  /\ LET m == [chat |-> Target(s).msg.chat, id |-> w[s].made[1].id]
     IN  /\ rows' = ReplaceDst(rows, Target(s).row, m)
         /\ Mark({m})
  /\ NextEdit(s)
  /\ IF s = "bale" THEN LateEchoes(s) ELSE UNCHANGED stream
  /\ UNCHANGED <<q, job, pending, tasks, paused, ignore, posts, mode, lastRow,
                 fps, boundVars>>

-----------------------------------------------------------------------------
(* process_tg_delete, process_bale_delete *)

StartDelete(s) ==
  /\ Starts(s, "delete")
  /\ DeleteFrom(s, {}, Head(q[s]).ids, rows, ignore)
  /\ UNCHANGED <<sent, posts, dbVars, boundVars>>

Delete(s) == w[s].pc = "delete" /\ Vanish(s, "deleted")

\* The call is over: the row goes whether it succeeded or not.
Unmap(s, ign) ==
  LET table == RemoveRow(rows, Target(s).row)
  IN  /\ rows' = table
      /\ DeleteFrom(s, w[s].found \ {Target(s)}, w[s].mids, table, ign)
      /\ UNCHANGED <<stream, q, job, pending, tasks, paused, sent, posts, mode,
                     lastRow, fps, boundVars>>

Deleted(s) == w[s].pc = "deleted" /\ Unmap(s, ignore)

\* The call raises, having had its effect or not: the mark is taken back, or the
\* job ends.
DeleteFails(s) ==
  /\ w[s].pc \in {"delete", "deleted"}
  /\ DeletionMayFail(s)
  /\ \E e \in Raised(s, "delete") :
       IF e = "BotAPIError" THEN Unmap(s, ignore \ {Target(s).msg})
                            ELSE /\ Become(s, Stopped("done"))
                                 /\ UNCHANGED <<queueVars, posts, dbVars, boundVars>>

-----------------------------------------------------------------------------
(* The rest of the program *)

Intake(s) ==
  /\ OnNew(s) \/ OnEdit(s) \/ OnDelete(s)
  /\ UNCHANGED <<posts, dbVars, w, boundVars>>

\* The handler returns to the worker loop.
Return(s) ==
  /\ w[s].pc = "done"
  /\ Done(s)
  /\ Become(s, Stopped("idle"))
  /\ UNCHANGED <<sent, ignore, posts, dbVars, boundVars>>

\* More than 60 s have passed since a fingerprint was recorded.
FpExpires(f) ==
  /\ fps' = fps \ {f}
  /\ UNCHANGED <<queueVars, posts, mode, rows, lastRow, w, boundVars>>

\* The operator changes a pair's direction, or removes the pair.
SetMode(p, md) ==
  /\ md \in Admin \ {"removed"}
  /\ mode[p] \notin {md, "removed"}
  /\ Turn
  /\ mode' = [mode EXCEPT ![p] = md]
  /\ UNCHANGED <<queueVars, posts, rows, lastRow, fps, w, crashes>>

RemovePair(p) ==
  /\ "removed" \in Admin
  /\ mode[p] # "removed"
  /\ Turn
  /\ mode' = [mode EXCEPT ![p] = "removed"]
  /\ rows' = PurgePair(rows, p)
  /\ UNCHANGED <<queueVars, posts, lastRow, fps, w, crashes>>

Crash ==
  /\ crashes < MaxCrashes
  /\ crashes' = crashes + 1
  /\ Restart
  /\ w' = [s \in Side |-> Stopped("idle")]
  /\ UNCHANGED <<posts, dbVars, turns>>

Handler(s) ==
  \/ StartNew(s) \/ StartEdit(s) \/ StartDelete(s)
  \/ Send(s) \/ Record(s)
  \/ Fetched(s) \/ Edited(s) \/ Resent(s) \/ Remove(s) \/ Removed(s) \/ Replace(s)
  \/ Delete(s) \/ Deleted(s)
  \/ Return(s)

Fault(s) ==
  SendFails(s) \/ EditFails(s) \/ RemoveFails(s) \/ DeleteFails(s)

Next ==
  \/ \E c \in Chat, t \in Text : UserPost(c, t)
  \/ \E m \in Msg, t \in Text : UserEdit(m, t)
  \/ \E m \in Msg : UserDelete(m)
  \/ \E s \in Side : Intake(s)
  \/ \E s \in Side : Handler(s)
  \/ \E s \in Side : Fault(s)
  \/ \E f \in fps : FpExpires(f)
  \/ \E p \in PairId, md \in Mode : SetMode(p, md)
  \/ \E p \in PairId : RemovePair(p)
  \/ Crash

Spec == Init /\ [][Next]_vars

\* The event loop runs every ready entry point and worker, and every call to a
\* platform ends, with its result or with an exception.
Fairness ==
  \A s \in Side : WF_vars(Intake(s)) /\ WF_vars(Handler(s) \/ Fault(s))

FairSpec == Spec /\ Fairness

-----------------------------------------------------------------------------
(* Properties *)

\* The bridge mirrors what users wrote and never its own posts: no copy of a
\* copy, in either direction (was_sent, check_fp, mark_sent, add_fp).
NoReflection == \A m \in Posted : ~ByUser(m) => ByUser(At(m).src)

\* The bridge deletes a user's message only because a user deleted a copy of it:
\* never because of a deletion the bridge itself made elsewhere ("both were
\* deleted", the regression sync_edit.py:50 tells of).
JustifiedRemoval ==
  \A m \in Posted :
    (ByUser(m) /\ At(m).st = "removed") =>
      \E n \in Posted : At(n).src = m /\ At(n).st = "deleted"

\* msg_map says which message of one platform is which of the other: every row
\* joins the two channels of its pair, and its dst is a copy of its src.
MapSound ==
  \A r \in rows :
    /\ {r.src, r.dst} \subseteq Posted
    /\ {r.src.chat, r.dst.chat} = {TgOf[r.pair], BaleOf[r.pair]}
    /\ At(r.dst).src = r.src

\* Every copy on a channel can still be edited and deleted: the map has it, or
\* the handler that made it has not returned from its calls.
CopyTracked ==
  \A m \in Posted :
    (~ByUser(m) /\ Live(m)) =>
      \/ \E r \in rows : r.dst = m
      \/ \E s \in Side : m \in Range(w[s].made)

\* A user's message that has been mirrored always has a copy the bridge did not
\* delete, whatever fails while it is edited ("if the replacement fails, the old
\* message survives", CHANGELOG.md:43).
NeverWithoutCopy ==
  \A r \in rows :
    (ByUser(r.src) /\ Live(r.src)) =>
      \E n \in Posted : At(n).src = r.src /\ At(n).st # "removed"

\* The same once no handler runs, when no replacement is on its way any more.
SurvivesFailure == (\A s \in Side : job[s] = NoJob) => NeverWithoutCopy

\* In a pair that goes one way only, the bridge never changes the channel it
\* goes from: what a handler does there leaves the posts as they are.
OneWay ==
  [][ \A p \in PairId :
        w' # w =>
          /\ mode[p] = "tg2bale" => posts'[TgOf[p]] = posts[TgOf[p]]
          /\ mode[p] = "bale2tg" => posts'[BaleOf[p]] = posts[BaleOf[p]] ]_vars

\* The channels a user's message goes to.
Destinations(m) == { PairChat(SideOf(m.chat), p) : p \in PairsFor(SideOf(m.chat), m.chat) }

\* What the pairs promise: a live message has exactly its copies, with its text,
\* and a deleted one has none.
Agree ==
  \A m \in { m \in Posted : ByUser(m) } : \A c \in Destinations(m) :
    LET copies == { n \in Posted : n.chat = c /\ At(n).src = m /\ Live(n) }
    IN  IF Live(m)
          THEN /\ Cardinality(copies) = Chunks[At(m).txt]
               /\ \A n \in copies : At(n).txt = At(m).txt
          ELSE copies = {}

\* The safety half of it, at every pause: whenever no report, queue or handler has
\* anything left to do, the two sides agree.
AtRest == \A s \in Side : stream[s] = <<>> /\ q[s] = <<>> /\ job[s] = NoJob
AgreeAtRest == AtRest => Agree

\* Users stop sooner or later; then the two sides of every pair agree for good,
\* unless the operator changed a pair on the way.
Converges == \A f \in InitModes : [](mode = f) => <>[]Agree
=============================================================================
