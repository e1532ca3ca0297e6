--------------------------- MODULE DeliveryProofs ---------------------------
(***************************************************************************)
(* Proofs about Delivery for all channels, messages and bounds: the types, *)
(* the pairing of album buffers and flush timers, the order of single      *)
(* messages, the albums, and that each message is in exactly one place,    *)
(* whatever pauses and restarts come between.                              *)
(***************************************************************************)
EXTENDS Delivery, QueueProofs, FiniteSetTheorems

-----------------------------------------------------------------------------
(* Types *)

\* The queues' types and, for the items of edits, the type of posts.
PostsTypeOK == posts \in [Chat -> Seq(Group \cup {NoGroup})]
TypeInv == QueueTypeOK /\ PostsTypeOK

\* A message that was posted has a group.
LEMMA PostedItem ==
  ASSUME PostsTypeOK, NEW m \in Posted, NEW t \in Text
  PROVE  ItemOf(m, t) \in Item
<1>1. m \in Msg /\ m.id \in 1..MaxId /\ m.chat \in Chat /\ m.id <= Len(posts[m.chat])
  BY DEF Posted, Msg
<1>2. posts[m.chat] \in Seq(Group \cup {NoGroup})
  BY <1>1 DEF PostsTypeOK
<1>3. m.id \in 1..Len(posts[m.chat])
  BY <1>1, <1>2, MaxIdAssumption
<1>4. GroupOf(m) \in Group \cup {NoGroup}
  BY <1>2, <1>3 DEF GroupOf
<1> QED
  BY <1>1, <1>4 DEF ItemOf, Item

\* Empty queues and buffers have their types.
LEMMA InitTypes == Init => TypeInv
<1> SUFFICES ASSUME Init PROVE TypeInv
  OBVIOUS
<1>1. QueueTypeOK
  <2>1. stream \in [Side -> Seq(Job)] /\ q \in [Side -> Seq(Job)]
    BY DEF Init, QueueInit
  <2>2. job \in [Side -> Job \cup {NoJob}] /\ pending \in [Key -> Seq(Item)]
    BY DEF Init, QueueInit
  <2> QED
    BY <2>1, <2>2 DEF Init, QueueInit, QueueTypeOK
<1>2. PostsTypeOK
  BY DEF Init, PostsTypeOK
<1> QED
  BY <1>1, <1>2 DEF TypeInv

\* Every step keeps the types.
LEMMA StepTypes == TypeInv /\ [Next]_vars => TypeInv'
<1> SUFFICES ASSUME TypeInv, [Next]_vars PROVE TypeInv'
  OBVIOUS
<1> USE DEF TypeInv
<1>1. ASSUME NEW c \in Chat, NEW g \in Group \cup {NoGroup}, NEW t \in Text, Post(c, g, t)
      PROVE  TypeInv'
  <2> DEFINE m == [chat |-> c, id |-> Len(posts[c]) + 1]
             it == [msg |-> m, txt |-> t, grp |-> g]
  <2>1. posts[c] \in Seq(Group \cup {NoGroup}) /\ Len(posts[c]) \in Nat
    BY DEF PostsTypeOK
  <2>2. m.id \in 1..MaxId
    BY <1>1, <2>1, MaxIdAssumption DEF Post
  <2>3. it \in Item
    BY <2>2 DEF Item, Msg
  <2>4. [kind |-> "new", items |-> <<it>>] \in Job
    BY <2>3, EventIsJob
  <2>5. QueueTypeOK'
    BY <1>1, <2>4, SideOfType, EmitTypes DEF Post
  <2>6. Append(posts[c], g) \in Seq(Group \cup {NoGroup})
    BY <2>1
  <2>7. PostsTypeOK'
    BY <1>1, <2>6 DEF Post, PostsTypeOK
  <2> QED
    BY <2>5, <2>7
<1>2. ASSUME NEW m \in Msg, NEW t \in Text, Edit(m, t)
      PROVE  TypeInv'
  <2>1. [kind |-> "edit", items |-> <<ItemOf(m, t)>>] \in Job
    BY <1>2, PostedItem, EventIsJob DEF Edit
  <2>2. QueueTypeOK'
    BY <1>2, <2>1, SideOfType, EmitTypes DEF Edit
  <2> QED
    BY <1>2, <2>2 DEF Edit, PostsTypeOK
<1>3. ASSUME NEW c \in Chat, NEW ids \in SUBSET Msg, Delete(c, ids)
      PROVE  TypeInv'
  <2>1. [kind |-> "delete", ids |-> ids] \in Job
    BY DEF Job, DeleteJob
  <2>2. QueueTypeOK'
    BY <1>3, <2>1, SideOfType, EmitTypes DEF Delete
  <2> QED
    BY <1>3, <2>2 DEF Delete, PostsTypeOK
<1>4. ASSUME NEW s \in Side, Intake(s)
      PROVE  TypeInv'
  BY <1>4, IntakeTypes DEF Intake, envVars, PostsTypeOK
<1>5. ASSUME NEW k \in Key, FlushAlbum(k)
      PROVE  TypeInv'
  BY <1>5, FlushTypes DEF FlushAlbum, envVars, PostsTypeOK
<1>6. ASSUME NEW s \in Side, Dequeue(s)
      PROVE  q' \in [Side -> Seq(Job)] /\ Head(q[s]) \in Job
  BY <1>6, HeadTailProperties DEF Dequeue, QueueTypeOK
<1>7. ASSUME NEW s \in Side, Handle(s)
      PROVE  TypeInv'
  <2>1. job' \in [Side -> Job \cup {NoJob}]
    BY <1>6, <1>7 DEF Handle, Take, QueueTypeOK
  <2> QED
    BY <1>6, <1>7, <2>1 DEF Handle, Take, QueueTypeOK, envVars, PostsTypeOK
<1>8. ASSUME NEW s \in Side, Skip(s)
      PROVE  TypeInv'
  BY <1>6, <1>8 DEF Skip, Drop, QueueTypeOK, envVars, PostsTypeOK
<1>9. ASSUME NEW s \in Side, Finish(s)
      PROVE  TypeInv'
  BY <1>9 DEF Finish, Done, QueueTypeOK, envVars, PostsTypeOK
<1>10. ASSUME NEW b \in BOOLEAN, Pause(b)
       PROVE  TypeInv'
  BY <1>10 DEF Pause, SetPaused, QueueTypeOK, PostsTypeOK
<1>11. CASE Crash
  <2>1. stream' \in [Side -> Seq(Job)] /\ q' \in [Side -> Seq(Job)]
    BY <1>11 DEF Crash, Restart, QueueTypeOK
  <2>2. job' \in [Side -> Job \cup {NoJob}] /\ pending' \in [Key -> Seq(Item)]
    BY <1>11 DEF Crash, Restart
  <2> QED
    BY <1>11, <2>1, <2>2 DEF Crash, Restart, QueueTypeOK, PostsTypeOK
<1>12. CASE UNCHANGED vars
  BY <1>12 DEF vars, queueVars, envVars, QueueTypeOK, PostsTypeOK
<1> QED
  BY <1>1, <1>2, <1>3, <1>4, <1>5, <1>7, <1>8, <1>9, <1>10, <1>11, <1>12 DEF Next

\* The types hold in every reachable state.
THEOREM TypeCorrect == Spec => []TypeInv
<1> QED
  BY InitTypes, StepTypes, PTL DEF Spec

\* Queues, buffers and the jobs of the workers have their types (the type
\* invariant the runs of Delivery check).
THEOREM QueuesTyped == Spec => []QueueTypeOK
<1>1. TypeInv => QueueTypeOK
  BY DEF TypeInv
<1> QED
  BY <1>1, TypeCorrect, PTL

-----------------------------------------------------------------------------
(* Album buffers and flush timers *)

\* Feeding a buffer: the first item, and only it, starts the timer.
LEMMA FeedPairs ==
  ASSUME QueueTypeOK, TimerIffPending, NEW k \in Key, NEW it \in Item, Feed(k, it)
  PROVE  TimerIffPending'
<1>1. pending \in [Key -> Seq(Item)] /\ pending[k] \in Seq(Item)
  BY DEF QueueTypeOK
<1>2. /\ pending'[k] = Append(pending[k], it)
      /\ \A l \in Key \ {k} : pending'[l] = pending[l]
  BY <1>1 DEF Feed
<1>3. pending'[k] # <<>> /\ (Len(pending'[k]) = 1 <=> pending[k] = <<>>)
  BY <1>1, <1>2
<1>4. k \in tasks'
  BY <1>3 DEF Feed, TimerIffPending
<1>5. \A l \in Key \ {k} : l \in tasks' <=> l \in tasks
  BY DEF Feed
<1> QED
  BY <1>2, <1>3, <1>4, <1>5 DEF TimerIffPending

\* Every step keeps buffers and timers paired.
LEMMA StepPairs == TypeInv /\ TimerIffPending /\ [Next]_vars => TimerIffPending'
<1> SUFFICES ASSUME TypeInv, TimerIffPending, [Next]_vars
             PROVE  TimerIffPending'
  OBVIOUS
<1>1. QueueTypeOK
  BY DEF TypeInv
<1>2. CASE UNCHANGED <<pending, tasks>>
  BY <1>2 DEF TimerIffPending
<1>3. ASSUME NEW s \in Side, OnNew(s)
      PROVE  TimerIffPending'
  <2> DEFINE it == Head(stream[s]).items[1]
  <2>1. it \in Item
    BY <1>1, <1>3, FirstItem, HeadTailProperties DEF OnNew, Arrives, QueueTypeOK
  <2>2. CASE it.grp # NoGroup /\ Feed(<<it.msg.chat, it.grp>>, it)
    <3>1. <<it.msg.chat, it.grp>> \in Key
      BY <2>1, <2>2 DEF Item, Msg, Key
    <3> QED
      BY <1>1, <2>1, <2>2, <3>1, FeedPairs
  <2> QED
    BY <1>2, <1>3, <2>2 DEF OnNew
<1>4. ASSUME NEW k \in Key, Flush(k)
      PROVE  TimerIffPending'
  BY <1>1, <1>4 DEF Flush, TimerIffPending, QueueTypeOK
<1>5. CASE Crash
  BY <1>5 DEF Crash, Restart, TimerIffPending
<1>6. ASSUME NEW s \in Side, Intake(s)
      PROVE  TimerIffPending'
  BY <1>2, <1>3, <1>6 DEF Intake, OnEdit, OnDelete
<1>7. CASE \/ \E c \in Chat, g \in Group \cup {NoGroup}, t \in Text : Post(c, g, t)
           \/ \E m \in Msg, t \in Text : Edit(m, t)
           \/ \E c \in Chat, ids \in SUBSET Msg : Delete(c, ids)
           \/ \E b \in BOOLEAN : Pause(b)
  BY <1>2, <1>7 DEF Post, Edit, Delete, Pause, SetPaused
<1>8. CASE \E s \in Side : Handle(s) \/ Skip(s) \/ Finish(s)
  BY <1>2, <1>8 DEF Handle, Take, Skip, Drop, Finish, Done
<1>9. CASE UNCHANGED vars
  BY <1>2, <1>9 DEF vars, queueVars
<1> QED
  BY <1>4, <1>5, <1>6, <1>7, <1>8, <1>9 DEF Next, FlushAlbum

\* A buffered album always has the timer that will flush it, and only it has one.
THEOREM TimersPaired == Spec => []TimerIffPending
<1>1. Init => TimerIffPending
  BY DEF Init, QueueInit, TimerIffPending
<1> QED
  BY <1>1, StepPairs, TypeCorrect, PTL DEF Spec

-----------------------------------------------------------------------------
(* The order of single messages: on each side, what was handled, what is   *)
(* queued and what has not arrived form one line; the invariant orders any *)
(* two jobs of the line, wherever they are.                                *)

\* The definitions and lemmas take the posts (ps) and the deleted messages (gn)
\* as arguments: a step compares them before and after it.
Held(ps) == { m \in Msg : m.id <= Len(ps[m.chat]) }
Grp(ps, m) == ps[m.chat][m.id]

\* x may come before y.
Before(ps, x, y) ==
  /\ \A m \in MsgsOf(x) \cap MsgsOf(y) :
       Grp(ps, m) = NoGroup => Stage(x.kind) <= Stage(y.kind)
  /\ (x.kind = "new" /\ y.kind = "new") =>
       \A m \in MsgsOf(x), n \in MsgsOf(y) :
         (m.chat = n.chat /\ Grp(ps, m) = NoGroup /\ Grp(ps, n) = NoGroup)
           => m.id < n.id

Ordered(ps, a) == \A i, j \in DOMAIN a : i < j => Before(ps, a[i], a[j])
Precedes(ps, a, b) == \A i \in DOMAIN a, j \in DOMAIN b : Before(ps, a[i], b[j])

Line(ps, l, a, b) ==
  /\ Ordered(ps, l) /\ Ordered(ps, a) /\ Ordered(ps, b)
  /\ Precedes(ps, l, a) /\ Precedes(ps, l, b) /\ Precedes(ps, a, b)

\* A job is about messages that exist, a deletion about messages that are gone.
Known(ps, gn, j) ==
  /\ MsgsOf(j) \subseteq Held(ps)
  /\ j.kind = "delete" => j.ids \subseteq gn
AllKnown(ps, gn, a) == \A i \in DOMAIN a : Known(ps, gn, a[i])

\* The events of new messages tell their group.
Tagged(ps, e) == e.kind = "new" => e.items[1].grp = Grp(ps, e.items[1].msg)
AllTagged(ps, a) == \A i \in DOMAIN a : Tagged(ps, a[i])

\* An item that may wait in an album buffer.
Grouped(ps, it) == it.msg \in Held(ps) /\ Grp(ps, it.msg) # NoGroup
AllGrouped(ps, a) == \A i \in DOMAIN a : Grouped(ps, a[i])

SideInv(ps, gn, l, a, b) ==
  /\ Line(ps, l, a, b)
  /\ AllKnown(ps, gn, l) /\ AllKnown(ps, gn, a) /\ AllKnown(ps, gn, b)
  /\ AllTagged(ps, b)

LogTypeOK == log \in [Side -> Seq(Job)]

OrderInv ==
  /\ LogTypeOK
  /\ \A s \in Side : SideInv(posts, gone, log[s], q[s], stream[s])
  /\ \A k \in Key : AllGrouped(posts, pending[k])

-----------------------------------------------------------------------------
(* Jobs *)

\* A job about fewer messages stands wherever the larger one stood.
LEMMA Narrower ==
  ASSUME NEW ps, NEW gn, NEW x, NEW y, NEW e,
         e.kind = y.kind, MsgsOf(e) \subseteq MsgsOf(y)
  PROVE  /\ Before(ps, x, y) => Before(ps, x, e)
         /\ Before(ps, y, x) => Before(ps, e, x)
         /\ (Known(ps, gn, y) /\ (e.kind = "delete" => e.ids \subseteq y.ids))
              => Known(ps, gn, e)
<1>1. Before(ps, x, y) => Before(ps, x, e)
  BY DEF Before
<1>2. Before(ps, y, x) => Before(ps, e, x)
  BY DEF Before
<1>3. (Known(ps, gn, y) /\ (e.kind = "delete" => e.ids \subseteq y.ids))
        => Known(ps, gn, e)
  BY DEF Known
<1> QED
  BY <1>1, <1>2, <1>3

\* A job of album items has no single message to keep in order.
LEMMA GroupedBefore ==
  ASSUME NEW ps, NEW gn, NEW x, NEW e, e.kind = "new", AllGrouped(ps, e.items)
  PROVE  Before(ps, x, e) /\ Before(ps, e, x) /\ Known(ps, gn, e)
<1>1. \A m \in MsgsOf(e) : m \in Held(ps) /\ Grp(ps, m) # NoGroup
  BY DEF MsgsOf, AllGrouped, Grouped
<1> QED
  BY <1>1 DEF Before, Known

-----------------------------------------------------------------------------
(* Sequences of jobs *)

\* The head of b moves, possibly narrowed to e, to the end of a.
LEMMA Shift ==
  ASSUME NEW ps, NEW gn, NEW a \in Seq(Job), NEW b \in Seq(Job), b # <<>>, NEW e \in Job,
         \A x \in Job : /\ Before(ps, x, Head(b)) => Before(ps, x, e)
                        /\ Before(ps, Head(b), x) => Before(ps, e, x),
         Ordered(ps, a), Ordered(ps, b), Precedes(ps, a, b)
  PROVE  /\ Ordered(ps, Append(a, e)) /\ Ordered(ps, Tail(b))
         /\ Precedes(ps, Append(a, e), Tail(b))
<1>1. /\ Len(b) \in Nat \ {0} /\ DOMAIN b = 1..Len(b)
      /\ Head(b) = b[1]
      /\ DOMAIN Tail(b) = 1..(Len(b) - 1)
      /\ \A i \in DOMAIN Tail(b) : i + 1 \in DOMAIN b /\ Tail(b)[i] = b[i + 1]
  BY HeadTailProperties, EmptySeq, LenProperties
<1>2. /\ Len(a) \in Nat /\ DOMAIN a = 1..Len(a)
      /\ DOMAIN Append(a, e) = 1..(Len(a) + 1)
      /\ Append(a, e)[Len(a) + 1] = e
      /\ \A i \in DOMAIN a : Append(a, e)[i] = a[i]
  OBVIOUS
<1>3. /\ \A i \in DOMAIN a : a[i] \in Job
      /\ \A i \in DOMAIN b : b[i] \in Job
  BY <1>1, <1>2
<1>4. \A i \in DOMAIN a : Before(ps, a[i], e)
  BY <1>1, <1>3 DEF Precedes
<1>5. Ordered(ps, Append(a, e))
  BY <1>2, <1>4 DEF Ordered
<1>6. Ordered(ps, Tail(b))
  BY <1>1 DEF Ordered
<1>7. \A j \in DOMAIN Tail(b) : Before(ps, e, Tail(b)[j])
  BY <1>1, <1>3 DEF Ordered
<1>8. Precedes(ps, Append(a, e), Tail(b))
  BY <1>1, <1>2, <1>7 DEF Precedes
<1> QED
  BY <1>5, <1>6, <1>8

\* A job that may follow all of a joins its end.
LEMMA Join ==
  ASSUME NEW ps, NEW gn, NEW a \in Seq(Job), NEW e \in Job,
         \A i \in DOMAIN a : Before(ps, a[i], e)
  PROVE  /\ Ordered(ps, a) => Ordered(ps, Append(a, e))
         /\ \A c : Precedes(ps, c, a) /\ (\A i \in DOMAIN c : Before(ps, c[i], e))
                     => Precedes(ps, c, Append(a, e))
<1>2. /\ Len(a) \in Nat /\ DOMAIN a = 1..Len(a)
      /\ DOMAIN Append(a, e) = 1..(Len(a) + 1)
      /\ Append(a, e)[Len(a) + 1] = e
      /\ \A i \in DOMAIN a : Append(a, e)[i] = a[i]
  OBVIOUS
<1>3. Ordered(ps, a) => Ordered(ps, Append(a, e))
  BY <1>2 DEF Ordered
<1>4. \A c : Precedes(ps, c, a) /\ (\A i \in DOMAIN c : Before(ps, c[i], e))
                     => Precedes(ps, c, Append(a, e))
  BY <1>2 DEF Precedes
<1> QED
  BY <1>3, <1>4

\* A job that may come before all of c joins the sequence before it.
LEMMA JoinBefore ==
  ASSUME NEW ps, NEW gn, NEW a \in Seq(Job), NEW e \in Job, NEW c, Precedes(ps, a, c),
         \A i \in DOMAIN c : Before(ps, e, c[i])
  PROVE  Precedes(ps, Append(a, e), c)
<1>2. /\ Len(a) \in Nat /\ DOMAIN a = 1..Len(a)
      /\ DOMAIN Append(a, e) = 1..(Len(a) + 1)
      /\ Append(a, e)[Len(a) + 1] = e
      /\ \A i \in DOMAIN a : Append(a, e)[i] = a[i]
  OBVIOUS
<1> QED
  BY <1>2 DEF Precedes

\* Dropping the head of a sequence.
LEMMA Behead ==
  ASSUME NEW ps, NEW gn, NEW b \in Seq(Job), b # <<>>
  PROVE  /\ Tail(b) \in Seq(Job)
         /\ Ordered(ps, b) => Ordered(ps, Tail(b))
         /\ \A c : Precedes(ps, c, b) => Precedes(ps, c, Tail(b))
         /\ \A c : Precedes(ps, b, c) => Precedes(ps, Tail(b), c)
         /\ AllKnown(ps, gn, b) => AllKnown(ps, gn, Tail(b)) /\ Known(ps, gn, Head(b))
         /\ AllTagged(ps, b) => AllTagged(ps, Tail(b)) /\ Tagged(ps, Head(b))
<1>1. /\ Len(b) \in Nat \ {0} /\ DOMAIN b = 1..Len(b)
      /\ Head(b) = b[1] /\ Tail(b) \in Seq(Job)
      /\ DOMAIN Tail(b) = 1..(Len(b) - 1)
      /\ \A i \in DOMAIN Tail(b) : i + 1 \in DOMAIN b /\ Tail(b)[i] = b[i + 1]
  BY HeadTailProperties, EmptySeq, LenProperties
<1>2. Ordered(ps, b) => Ordered(ps, Tail(b))
  BY <1>1 DEF Ordered
<1>3. \A c : Precedes(ps, c, b) => Precedes(ps, c, Tail(b))
  BY <1>1 DEF Precedes
<1>4. \A c : Precedes(ps, b, c) => Precedes(ps, Tail(b), c)
  BY <1>1 DEF Precedes
<1>5. AllKnown(ps, gn, b) => AllKnown(ps, gn, Tail(b)) /\ Known(ps, gn, Head(b))
  BY <1>1 DEF AllKnown
<1>6. AllTagged(ps, b) => AllTagged(ps, Tail(b)) /\ Tagged(ps, Head(b))
  BY <1>1 DEF AllTagged
<1> QED
  BY <1>1, <1>2, <1>3, <1>4, <1>5, <1>6

\* What joins a sequence is as well founded as the rest of it.
LEMMA KnownAppend ==
  ASSUME NEW ps, NEW gn, NEW a \in Seq(Job), NEW e \in Job
  PROVE  /\ AllKnown(ps, gn, a) /\ Known(ps, gn, e) => AllKnown(ps, gn, Append(a, e))
         /\ AllTagged(ps, a) /\ Tagged(ps, e) => AllTagged(ps, Append(a, e))
<1>2. /\ Len(a) \in Nat /\ DOMAIN a = 1..Len(a)
      /\ DOMAIN Append(a, e) = 1..(Len(a) + 1)
      /\ Append(a, e)[Len(a) + 1] = e
      /\ \A i \in DOMAIN a : Append(a, e)[i] = a[i]
  OBVIOUS
<1>3. AllKnown(ps, gn, a) /\ Known(ps, gn, e) => AllKnown(ps, gn, Append(a, e))
  BY <1>2 DEF AllKnown
<1>4. AllTagged(ps, a) /\ Tagged(ps, e) => AllTagged(ps, Append(a, e))
  BY <1>2 DEF AllTagged
<1> QED
  BY <1>3, <1>4

\* An empty queue constrains nothing.
LEMMA EmptyLine ==
  ASSUME NEW ps, NEW gn, NEW l, NEW b, Ordered(ps, l), Ordered(ps, b), Precedes(ps, l, b)
  PROVE  Line(ps, l, <<>>, b) /\ Line(ps, l, <<>>, <<>>)
         /\ AllKnown(ps, gn, <<>>) /\ AllTagged(ps, <<>>)
<1>1. DOMAIN <<>> = {}
  OBVIOUS
<1> QED
  BY <1>1 DEF Line, Ordered, Precedes, AllKnown, AllTagged
-----------------------------------------------------------------------------
(* What an operation does to the line of a side *)

\* The platform reports e; op and og are the posts and the deletions before e.
LEMMA Emitted ==
  ASSUME NEW op, NEW og, NEW ps, NEW gn,
         NEW l \in Seq(Job), NEW a \in Seq(Job), NEW b \in Seq(Job),
         NEW e \in Job, SideInv(ps, gn, l, a, b), Known(ps, gn, e), Tagged(ps, e),
         AllKnown(op, og, l), AllKnown(op, og, a), AllKnown(op, og, b),
         \A x \in Job : Known(op, og, x) => Before(ps, x, e)
  PROVE  SideInv(ps, gn, l, a, Append(b, e))
<1>1. \A c \in Seq(Job) : AllKnown(op, og, c) =>
        \A i \in DOMAIN c : Before(ps, c[i], e)
  BY DEF AllKnown
<1>2. Line(ps, l, a, Append(b, e))
  <2>1. \A i \in DOMAIN b : Before(ps, b[i], e)
    BY <1>1 DEF SideInv
  <2>2. \A i \in DOMAIN a : Before(ps, a[i], e)
    BY <1>1 DEF SideInv
  <2>3. \A i \in DOMAIN l : Before(ps, l[i], e)
    BY <1>1 DEF SideInv
  <2> QED
    BY <2>1, <2>2, <2>3, Join DEF SideInv, Line
<1> QED
  BY <1>2, KnownAppend DEF SideInv

\* An entry point queues the event at the head of b, or the part of it the
\* ignore set leaves.
LEMMA Moved ==
  ASSUME NEW ps, NEW gn, NEW l \in Seq(Job), NEW a \in Seq(Job), NEW b \in Seq(Job),
         NEW e \in Job, SideInv(ps, gn, l, a, b), b # <<>>,
         e.kind = Head(b).kind, MsgsOf(e) \subseteq MsgsOf(Head(b)),
         e.kind = "delete" => e.ids \subseteq Head(b).ids
  PROVE  SideInv(ps, gn, l, Append(a, e), Tail(b))
<1>1. \A x : /\ Before(ps, x, Head(b)) => Before(ps, x, e)
             /\ Before(ps, Head(b), x) => Before(ps, e, x)
  BY Narrower
<1>2. Known(ps, gn, Head(b)) /\ AllKnown(ps, gn, Tail(b)) /\ AllTagged(ps, Tail(b))
  BY Behead DEF SideInv
<1>3. Known(ps, gn, e)
  BY <1>2, Narrower
<1>4. /\ Ordered(ps, Append(a, e)) /\ Ordered(ps, Tail(b))
      /\ Precedes(ps, Append(a, e), Tail(b))
  BY <1>1, Shift DEF SideInv, Line
<1>5. Precedes(ps, l, Append(a, e))
  <2>1. Head(b) = b[1] /\ 1 \in DOMAIN b
    BY EmptySeq, LenProperties
  <2>2. \A i \in DOMAIN l : Before(ps, l[i], e)
    BY <1>1, <2>1 DEF SideInv, Line, Precedes
  <2>3. \A i \in DOMAIN a : Before(ps, a[i], e)
    BY <1>1, <2>1 DEF SideInv, Line, Precedes
  <2> QED
    BY <2>2, <2>3, Join DEF SideInv, Line
<1>6. Precedes(ps, l, Tail(b))
  BY Behead DEF SideInv, Line
<1> QED
  BY <1>2, <1>3, <1>4, <1>5, <1>6, KnownAppend DEF SideInv, Line

\* An entry point queues nothing: the event is ours, or joins an album buffer.
LEMMA Absorbed ==
  ASSUME NEW ps, NEW gn, NEW l \in Seq(Job), NEW a \in Seq(Job), NEW b \in Seq(Job),
         SideInv(ps, gn, l, a, b), b # <<>>
  PROVE  SideInv(ps, gn, l, a, Tail(b))
  BY Behead DEF SideInv, Line

\* A flush queues an album.
LEMMA Flushed ==
  ASSUME NEW ps, NEW gn, NEW l \in Seq(Job), NEW a \in Seq(Job), NEW b \in Seq(Job),
         NEW e \in Job, SideInv(ps, gn, l, a, b),
         e.kind = "new", AllGrouped(ps, e.items)
  PROVE  SideInv(ps, gn, l, Append(a, e), b)
<1>1. Known(ps, gn, e) /\ \A x : Before(ps, x, e) /\ Before(ps, e, x)
  BY GroupedBefore
<1>2. Ordered(ps, Append(a, e)) /\ Precedes(ps, l, Append(a, e))
  BY <1>1, Join DEF SideInv, Line
<1>3. Precedes(ps, Append(a, e), b)
  BY <1>1, JoinBefore DEF SideInv, Line
<1> QED
  BY <1>1, <1>2, <1>3, KnownAppend DEF SideInv, Line

\* The worker hands the head of the queue to the handler.
LEMMA Handled ==
  ASSUME NEW ps, NEW gn, NEW l \in Seq(Job), NEW a \in Seq(Job), NEW b \in Seq(Job),
         SideInv(ps, gn, l, a, b), a # <<>>
  PROVE  SideInv(ps, gn, Append(l, Head(a)), Tail(a), b)
<1>1. /\ Head(a) = a[1] /\ 1 \in DOMAIN a /\ Head(a) \in Job
  BY EmptySeq, LenProperties, HeadTailProperties
<1>2. Known(ps, gn, Head(a)) /\ AllKnown(ps, gn, Tail(a))
  BY Behead DEF SideInv
<1>3. /\ Ordered(ps, Append(l, Head(a))) /\ Ordered(ps, Tail(a))
      /\ Precedes(ps, Append(l, Head(a)), Tail(a))
  BY <1>1, Shift DEF SideInv, Line
<1>4. Precedes(ps, Append(l, Head(a)), b)
  <2>1. \A j \in DOMAIN b : Before(ps, Head(a), b[j])
    BY <1>1 DEF SideInv, Line, Precedes
  <2> QED
    BY <1>1, <2>1, JoinBefore DEF SideInv, Line
<1>5. Precedes(ps, Tail(a), b)
  BY Behead DEF SideInv, Line
<1> QED
  BY <1>1, <1>2, <1>3, <1>4, <1>5, KnownAppend DEF SideInv, Line

\* The worker drops the head of the queue.
LEMMA Skipped ==
  ASSUME NEW ps, NEW gn, NEW l \in Seq(Job), NEW a \in Seq(Job), NEW b \in Seq(Job),
         SideInv(ps, gn, l, a, b), a # <<>>
  PROVE  SideInv(ps, gn, l, Tail(a), b)
  BY Behead DEF SideInv, Line

\* A restart empties the queue, and the stream where nothing is replayed.
LEMMA Restarted ==
  ASSUME NEW ps, NEW gn, NEW l \in Seq(Job), NEW a \in Seq(Job), NEW b \in Seq(Job),
         SideInv(ps, gn, l, a, b)
  PROVE  SideInv(ps, gn, l, <<>>, b) /\ SideInv(ps, gn, l, <<>>, <<>>)
  BY EmptyLine DEF SideInv, Line

\* More posts and deletions leave the line as it was.
LEMMA Grown ==
  ASSUME NEW ps, NEW gn, NEW ps2, NEW gn2,
         \A m \in Held(ps) : m \in Held(ps2) /\ Grp(ps2, m) = Grp(ps, m),
         gn \subseteq gn2
  PROVE  /\ \A l \in Seq(Job), a \in Seq(Job), b \in Seq(Job) :
              SideInv(ps, gn, l, a, b) => SideInv(ps2, gn2, l, a, b)
         /\ \A s \in Seq(Item) : AllGrouped(ps, s) => AllGrouped(ps2, s)
<1>1. \A x, y : Known(ps, gn, x) /\ Known(ps, gn, y) /\ Before(ps, x, y)
                  => Before(ps2, x, y)
  BY DEF Known, Before
<1>2. \A x : Known(ps, gn, x) => Known(ps2, gn2, x)
  BY DEF Known
<1>3. \A x \in Job : Known(ps, gn, x) /\ Tagged(ps, x) => Tagged(ps2, x)
  <2> SUFFICES ASSUME NEW x \in Job, Known(ps, gn, x), Tagged(ps, x), x.kind = "new"
               PROVE  x.items[1].grp = Grp(ps2, x.items[1].msg)
    BY DEF Tagged
  <2>1. x.items \in Seq(Item) /\ x.items # <<>>
    BY FirstItem DEF ContentJob
  <2>2. 1 \in DOMAIN x.items
    BY <2>1, EmptySeq, LenProperties
  <2>3. x.items[1].msg \in Held(ps)
    BY <2>2 DEF Known, MsgsOf
  <2> QED
    BY <2>3 DEF Tagged
<1>4. ASSUME NEW l \in Seq(Job), NEW a \in Seq(Job), NEW b \in Seq(Job),
             SideInv(ps, gn, l, a, b)
      PROVE  SideInv(ps2, gn2, l, a, b)
  <2>1. AllKnown(ps2, gn2, l) /\ AllKnown(ps2, gn2, a) /\ AllKnown(ps2, gn2, b)
    BY <1>2, <1>4 DEF SideInv, AllKnown
  <2>2. AllTagged(ps2, b)
    <3>1. \A i \in DOMAIN b : b[i] \in Job
      OBVIOUS
    <3> QED
      BY <1>3, <1>4, <3>1 DEF SideInv, AllKnown, AllTagged
  <2>3. Ordered(ps2, l) /\ Ordered(ps2, a) /\ Ordered(ps2, b)
    BY <1>1, <1>4 DEF SideInv, AllKnown, Line, Ordered
  <2>4. Precedes(ps2, l, a) /\ Precedes(ps2, l, b) /\ Precedes(ps2, a, b)
    BY <1>1, <1>4 DEF SideInv, AllKnown, Line, Precedes
  <2> QED
    BY <2>1, <2>2, <2>3, <2>4 DEF SideInv, Line
<1>5. \A s \in Seq(Item) : AllGrouped(ps, s) => AllGrouped(ps2, s)
  BY DEF AllGrouped, Grouped
<1> QED
  BY <1>4, <1>5
-----------------------------------------------------------------------------
(* The steps *)

\* What the types and the invariant say of one side.
LEMMA SideFacts ==
  ASSUME TypeInv, LogTypeOK, NEW s \in Side
  PROVE  /\ log[s] \in Seq(Job) /\ q[s] \in Seq(Job) /\ stream[s] \in Seq(Job)
         /\ stream[s] # <<>> => Head(stream[s]) \in Job /\ Tail(stream[s]) \in Seq(Job)
         /\ q[s] # <<>> => Head(q[s]) \in Job /\ Tail(q[s]) \in Seq(Job)
  BY HeadTailProperties DEF TypeInv, QueueTypeOK, LogTypeOK

\* The platform of s reports e, which the posts ps and the deletions gn explain.
LEMMA EmitOrder ==
  ASSUME TypeInv, OrderInv, NEW s \in Side, NEW e \in Job, Emit(s, e),
         UNCHANGED <<log, q, pending>>,
         \A m \in Held(posts) : m \in Held(posts') /\ Grp(posts', m) = Grp(posts, m),
         gone \subseteq gone',
         Known(posts', gone', e), Tagged(posts', e),
         \A x \in Job : Known(posts, gone, x) => Before(posts', x, e)
  PROVE  OrderInv'
<1>1. \A r \in Side : /\ log[r] \in Seq(Job) /\ q[r] \in Seq(Job)
                      /\ stream[r] \in Seq(Job)
  BY SideFacts DEF OrderInv
<1>2. \A r \in Side : SideInv(posts', gone', log[r], q[r], stream[r])
  BY <1>1, Grown DEF OrderInv
<1>3. SideInv(posts', gone', log[s], q[s], Append(stream[s], e))
  BY <1>1, <1>2, Emitted DEF OrderInv, SideInv
<1>4. \A r \in Side : stream'[r] = IF r = s THEN Append(stream[s], e) ELSE stream[r]
  BY DEF Emit, TypeInv, QueueTypeOK
<1>5. \A k \in Key : pending[k] \in Seq(Item) /\ AllGrouped(posts, pending[k])
  BY DEF TypeInv, QueueTypeOK, OrderInv
<1>6. \A k \in Key : AllGrouped(posts', pending[k])
  BY <1>5, Grown
<1>7. \A r \in Side : SideInv(posts', gone', log[r], q[r], stream'[r])
  BY <1>2, <1>3, <1>4
<1> QED
  BY <1>6, <1>7 DEF OrderInv, LogTypeOK

\* A step of the bridge on one side: the line of that side keeps its order.
LEMMA BridgeOrder ==
  ASSUME OrderInv, NEW s \in Side, UNCHANGED <<posts, gone>>,
         log' \in [Side -> Seq(Job)],
         \A r \in Side \ {s} :
           log'[r] = log[r] /\ q'[r] = q[r] /\ stream'[r] = stream[r],
         SideInv(posts, gone, log'[s], q'[s], stream'[s]),
         \A k \in Key : AllGrouped(posts, pending'[k])
  PROVE  OrderInv'
<1>1. \A r \in Side : SideInv(posts, gone, log'[r], q'[r], stream'[r])
  BY DEF OrderInv
<1> QED
  BY <1>1 DEF OrderInv, LogTypeOK

\* A user posts: the message is new, hence behind every other of its channel.
LEMMA PostOrder ==
  ASSUME TypeInv, OrderInv, NEW c \in Chat, NEW g \in Group \cup {NoGroup},
         NEW t \in Text, Post(c, g, t)
  PROVE  OrderInv'
<1> DEFINE m == [chat |-> c, id |-> Len(posts[c]) + 1]
           it == [msg |-> m, txt |-> t, grp |-> g]
           e == [kind |-> "new", items |-> <<it>>]
<1>1. posts \in [Chat -> Seq(Group \cup {NoGroup})] /\ MaxId \in Nat
  BY MaxIdAssumption DEF TypeInv, PostsTypeOK
<1>2. Len(posts[c]) \in Nat /\ Len(posts[c]) < MaxId
  BY <1>1 DEF Post
<1>3. m \in Msg /\ it \in Item
  BY <1>1, <1>2 DEF Msg, Item
<1>4. e \in Job
  BY <1>3, EventIsJob
<1>5. MsgsOf(e) = {m}
  <2>1. DOMAIN <<it>> = {1} /\ <<it>>[1] = it
    OBVIOUS
  <2> QED
    BY <2>1 DEF MsgsOf
<1>6. posts' = [posts EXCEPT ![c] = Append(@, g)]
  BY DEF Post
<1>7. \A n \in Held(posts) :
        /\ n \in Held(posts') /\ Grp(posts', n) = Grp(posts, n)
        /\ n.chat = c => n.id < m.id
  <2> SUFFICES ASSUME NEW n \in Held(posts)
               PROVE  /\ n \in Held(posts') /\ Grp(posts', n) = Grp(posts, n)
                      /\ n.chat = c => n.id < m.id
    OBVIOUS
  <2>1. n \in Msg /\ n.chat \in Chat /\ n.id \in 1..MaxId /\ n.id <= Len(posts[n.chat])
    BY DEF Held, Msg
  <2>2. /\ posts'[c] = Append(posts[c], g)
        /\ Len(posts'[c]) = Len(posts[c]) + 1
        /\ \A i \in 1..Len(posts[c]) : posts'[c][i] = posts[c][i]
    BY <1>1, <1>6
  <2>3. n.chat # c => posts'[n.chat] = posts[n.chat]
    BY <1>1, <1>6, <2>1
  <2>4. CASE n.chat = c
    BY <1>2, <2>1, <2>2, <2>4 DEF Held, Grp
  <2>5. CASE n.chat # c
    BY <2>1, <2>3, <2>5 DEF Held, Grp
  <2> QED
    BY <2>4, <2>5
<1>8. m \in Held(posts') /\ Grp(posts', m) = g
  BY <1>1, <1>2, <1>3, <1>6 DEF Held, Grp
<1>9. Known(posts', gone', e) /\ Tagged(posts', e)
  BY <1>5, <1>8 DEF Known, Tagged
<1>10. Emit(SideOf(c), e) /\ UNCHANGED <<log, q, pending, gone>>
  BY DEF Post
<1>11. \A x : Known(posts, gone, x) => Before(posts', x, e)
  <2>1. \A x : Known(posts, gone, x) => m \notin MsgsOf(x)
    BY <1>7 DEF Known
  <2> QED
    BY <1>5, <1>7, <2>1 DEF Known, Before
<1>12. SideOf(c) \in Side
  BY SideOfType
<1> HIDE DEF e, m, it
<1> QED
  BY <1>4, <1>7, <1>9, <1>10, <1>11, <1>12, EmitOrder

\* A user edits a message: it has been posted, and nobody reported it deleted.
LEMMA EditOrder ==
  ASSUME TypeInv, OrderInv, NEW m \in Msg, NEW t \in Text, Edit(m, t)
  PROVE  OrderInv'
<1> DEFINE e == [kind |-> "edit", items |-> <<ItemOf(m, t)>>]
<1>1. m \in Held(posts) /\ m \in Posted /\ m \notin gone
  BY DEF Edit, Posted, Held
<1>2. e \in Job
  BY <1>1, PostedItem, EventIsJob DEF TypeInv
<1>3. MsgsOf(e) = {m}
  <2>1. DOMAIN <<ItemOf(m, t)>> = {1} /\ <<ItemOf(m, t)>>[1] = ItemOf(m, t)
    OBVIOUS
  <2> QED
    BY <2>1 DEF MsgsOf, ItemOf
<1>4. Known(posts, gone, e) /\ Tagged(posts, e)
  BY <1>1, <1>3 DEF Known, Tagged
<1>5. ASSUME NEW x \in Job, Known(posts, gone, x)
      PROVE  Before(posts, x, e)
  <2>1. m \in MsgsOf(x) => x.kind # "delete"
    BY <1>1, <1>5 DEF Known, MsgsOf
  <2>2. m \in MsgsOf(x) => Stage(x.kind) <= Stage(e.kind)
    BY <2>1, JobKinds DEF Stage
  <2> QED
    BY <1>3, <2>2 DEF Before
<1>6. Emit(SideOf(m.chat), e) /\ UNCHANGED <<log, q, pending, posts, gone>>
  BY DEF Edit
<1>7. SideOf(m.chat) \in Side
  BY SideOfType
<1> HIDE DEF e
<1> QED
  BY <1>2, <1>4, <1>5, <1>6, <1>7, EmitOrder

\* A user deletes messages: a deletion may follow anything.
LEMMA DeleteOrder ==
  ASSUME TypeInv, OrderInv, NEW c \in Chat, NEW ids \in SUBSET Msg, Delete(c, ids)
  PROVE  OrderInv'
<1> DEFINE e == [kind |-> "delete", ids |-> ids]
<1>1. e \in Job
  BY DEF Job, DeleteJob
<1>2. MsgsOf(e) = ids
  BY DEF MsgsOf
<1>3. ids \subseteq Held(posts) /\ gone' = gone \cup ids
  BY DEF Delete, Posted, Held
<1>4. Known(posts, gone', e) /\ Tagged(posts, e)
  BY <1>2, <1>3 DEF Known, Tagged
<1>5. ASSUME NEW x \in Job
      PROVE  Before(posts, x, e)
  <2>1. Stage(x.kind) <= Stage(e.kind)
    BY JobKinds DEF Stage
  <2> QED
    BY <2>1 DEF Before
<1>6. Emit(SideOf(c), e) /\ UNCHANGED <<log, q, pending, posts>>
  BY DEF Delete
<1>7. SideOf(c) \in Side
  BY SideOfType
<1> HIDE DEF e
<1> QED
  BY <1>1, <1>3, <1>4, <1>5, <1>6, <1>7, EmitOrder

\* An entry point moves an event from the stream to the queue, or takes it out.
LEMMA IntakeOrder ==
  ASSUME TypeInv, OrderInv, NEW s \in Side, Intake(s)
  PROVE  OrderInv'
<1>1. /\ log \in [Side -> Seq(Job)] /\ q \in [Side -> Seq(Job)]
      /\ stream \in [Side -> Seq(Job)] /\ pending \in [Key -> Seq(Item)]
  BY DEF OrderInv, LogTypeOK, TypeInv, QueueTypeOK
<1>2. /\ stream[s] # <<>> /\ stream' = [stream EXCEPT ![s] = Tail(@)]
      /\ UNCHANGED <<posts, gone, log>>
  BY DEF Intake, envVars, OnNew, OnEdit, OnDelete, Arrives, Pop
<1>3. /\ log[s] \in Seq(Job) /\ q[s] \in Seq(Job) /\ stream[s] \in Seq(Job)
      /\ Head(stream[s]) \in Job
      /\ SideInv(posts, gone, log[s], q[s], stream[s])
  BY <1>1, <1>2, SideFacts DEF OrderInv
<1>4. /\ stream'[s] = Tail(stream[s])
      /\ \A r \in Side \ {s} : stream'[r] = stream[r] /\ log'[r] = log[r]
  BY <1>1, <1>2
<1>5. \A k \in Key : AllGrouped(posts, pending[k])
  BY DEF OrderInv
<1>6. CASE UNCHANGED q /\ \A k \in Key : AllGrouped(posts, pending'[k])
  <2>1. SideInv(posts, gone, log[s], q[s], Tail(stream[s]))
    BY <1>2, <1>3, Absorbed
  <2> QED
    BY <1>1, <1>2, <1>4, <1>6, <2>1, BridgeOrder
<1>7. ASSUME NEW e \in Job, Put(s, e), UNCHANGED pending,
             e.kind = Head(stream[s]).kind, MsgsOf(e) \subseteq MsgsOf(Head(stream[s])),
             e.kind = "delete" => e.ids \subseteq Head(stream[s]).ids
      PROVE  OrderInv'
  <2>1. SideInv(posts, gone, log[s], Append(q[s], e), Tail(stream[s]))
    BY <1>2, <1>3, <1>7, Moved
  <2>2. q'[s] = Append(q[s], e) /\ \A r \in Side \ {s} : q'[r] = q[r]
    BY <1>1, <1>7 DEF Put
  <2> QED
    BY <1>1, <1>2, <1>4, <1>5, <1>7, <2>1, <2>2, BridgeOrder
<1>8. CASE OnNew(s)
  <2> DEFINE it == Head(stream[s]).items[1]
  <2>1. Head(stream[s]).kind = "new"
    BY <1>8 DEF OnNew, Arrives
  <2>2. CASE Put(s, Head(stream[s])) /\ UNCHANGED pending
    BY <1>3, <1>7, <2>1, <2>2
  <2>3. CASE it.grp # NoGroup /\ Feed(<<it.msg.chat, it.grp>>, it) /\ UNCHANGED q
    <3> DEFINE k == <<it.msg.chat, it.grp>>
    <3>1. it \in Item
      BY <1>3, <2>1, FirstItem
    <3>2. it.msg \in Held(posts)
      <4>1. 1 \in DOMAIN Head(stream[s]).items
        BY <1>3, <2>1, FirstItem, EmptySeq, LenProperties DEF ContentJob
      <4>2. Known(posts, gone, Head(stream[s]))
        BY <1>2, <1>3, Behead DEF SideInv
      <4> QED
        BY <2>1, <4>1, <4>2 DEF Known, MsgsOf
    <3>3. Tagged(posts, Head(stream[s]))
      BY <1>2, <1>3, Behead DEF SideInv
    <3>4. Grouped(posts, it)
      BY <2>1, <2>3, <3>2, <3>3 DEF Tagged, Grouped
    <3>5. ASSUME NEW l \in Key
          PROVE  AllGrouped(posts, pending'[l])
      <4> HIDE DEF it
      <4>1. pending'[l] = IF l = k THEN Append(pending[l], it) ELSE pending[l]
        BY <1>1, <2>3 DEF Feed
      <4>2. pending[l] \in Seq(Item) /\ AllGrouped(posts, pending[l])
        BY <1>1, <1>5
      <4>3. AllGrouped(posts, Append(pending[l], it))
        BY <3>1, <3>4, <4>2 DEF AllGrouped
      <4> QED
        BY <4>1, <4>2, <4>3
    <3> QED
      BY <1>6, <2>3, <3>5
  <2>4. CASE UNCHANGED <<q, pending>>
    BY <1>5, <1>6, <2>4
  <2> QED
    BY <1>8, <2>2, <2>3, <2>4 DEF OnNew
<1>9. CASE OnEdit(s)
  <2>1. Head(stream[s]).kind = "edit"
    BY <1>9 DEF OnEdit, Arrives
  <2>2. CASE Put(s, Head(stream[s]))
    BY <1>3, <1>7, <1>9, <2>1, <2>2 DEF OnEdit
  <2>3. CASE UNCHANGED q
    BY <1>5, <1>6, <1>9, <2>3 DEF OnEdit
  <2> QED
    BY <1>9, <2>2, <2>3 DEF OnEdit
<1>10. CASE OnDelete(s)
  <2> DEFINE e == [kind |-> "delete", ids |-> Head(stream[s]).ids \ ignore]
  <2>1. Head(stream[s]).kind = "delete"
    BY <1>10 DEF OnDelete, Arrives
  <2>2. Head(stream[s]) \in DeleteJob
    BY <1>3, <2>1, JobKinds
  <2>3. /\ e \in Job /\ e.kind = Head(stream[s]).kind
        /\ MsgsOf(e) \subseteq MsgsOf(Head(stream[s]))
        /\ e.ids \subseteq Head(stream[s]).ids
    BY <2>1, <2>2 DEF Job, DeleteJob, MsgsOf
  <2>4. CASE Put(s, e)
    BY <1>7, <1>10, <2>3, <2>4 DEF OnDelete
  <2>5. CASE UNCHANGED q
    BY <1>5, <1>6, <1>10, <2>5 DEF OnDelete
  <2> QED
    BY <1>10, <2>4, <2>5 DEF OnDelete
<1> QED
  BY <1>8, <1>9, <1>10 DEF Intake

\* A flush queues an album behind what is queued, before what has not arrived.
LEMMA FlushOrder ==
  ASSUME TypeInv, OrderInv, NEW k \in Key, FlushAlbum(k)
  PROVE  OrderInv'
<1> DEFINE s == SideOf(k[1])
<1>1. /\ log \in [Side -> Seq(Job)] /\ q \in [Side -> Seq(Job)]
      /\ pending \in [Key -> Seq(Item)] /\ s \in Side
  BY SideOfType DEF OrderInv, LogTypeOK, TypeInv, QueueTypeOK
<1>2. pending' = [pending EXCEPT ![k] = <<>>] /\ UNCHANGED <<posts, gone, log, stream>>
  BY DEF FlushAlbum, envVars, Flush
<1>3. \A l \in Key : pending[l] \in Seq(Item) /\ AllGrouped(posts, pending[l])
  BY <1>1 DEF OrderInv
<1>4. \A l \in Key : AllGrouped(posts, pending'[l])
  <2>1. AllGrouped(posts, <<>>)
    BY DEF AllGrouped
  <2> QED
    BY <1>1, <1>2, <1>3, <2>1
<1>5. /\ log[s] \in Seq(Job) /\ q[s] \in Seq(Job) /\ stream[s] \in Seq(Job)
      /\ SideInv(posts, gone, log[s], q[s], stream[s])
  BY <1>1, SideFacts DEF OrderInv
<1>6. CASE UNCHANGED q
  <2> HIDE DEF s
  <2> QED
    BY <1>1, <1>2, <1>4, <1>5, <1>6, BridgeOrder
<1>7. ASSUME pending[k] # <<>>, NEW msgs \in SortedById(pending[k]),
             Put(s, [kind |-> "new", items |-> msgs])
      PROVE  OrderInv'
  <2> DEFINE e == [kind |-> "new", items |-> msgs]
  <2>1. msgs \in Seq(Item) /\ Len(msgs) = Len(pending[k])
    BY <1>3, <1>7, SortedIsSeq
  <2>2. msgs # <<>>
    BY <1>3, <1>7, <2>1, EmptySeq
  <2>3. e \in Job
    BY <2>1, <2>2 DEF Job, ContentJob
  <2>4. \A i \in DOMAIN msgs : \E j \in DOMAIN pending[k] : msgs[i] = pending[k][j]
    BY <1>7 DEF SortedById
  <2>5. AllGrouped(posts, e.items)
    BY <1>3, <2>4 DEF AllGrouped
  <2> HIDE DEF s
  <2>6. SideInv(posts, gone, log[s], Append(q[s], e), stream[s])
    BY <1>5, <2>3, <2>5, Flushed
  <2>7. q'[s] = Append(q[s], e) /\ \A r \in Side \ {s} : q'[r] = q[r]
    BY <1>1, <1>7 DEF Put
  <2> QED
    BY <1>1, <1>2, <1>4, <2>6, <2>7, BridgeOrder
<1> QED
  BY <1>6, <1>7 DEF FlushAlbum, Flush

\* A worker handles or drops the head of its queue.
LEMMA WorkerOrder ==
  ASSUME TypeInv, OrderInv, NEW s \in Side, Handle(s) \/ Skip(s) \/ Finish(s)
  PROVE  OrderInv'
<1>1. /\ log \in [Side -> Seq(Job)] /\ q \in [Side -> Seq(Job)]
      /\ \A k \in Key : AllGrouped(posts, pending[k])
  BY DEF OrderInv, LogTypeOK, TypeInv, QueueTypeOK
<1>2. UNCHANGED <<posts, gone, stream, pending>>
  BY DEF Handle, Take, Skip, Drop, Finish, Done, envVars
<1>3. /\ log[s] \in Seq(Job) /\ q[s] \in Seq(Job) /\ stream[s] \in Seq(Job)
      /\ SideInv(posts, gone, log[s], q[s], stream[s])
  BY SideFacts DEF OrderInv
<1>4. CASE Handle(s)
  <2>1. /\ q[s] # <<>> /\ q' = [q EXCEPT ![s] = Tail(@)]
        /\ log' = [log EXCEPT ![s] = Append(@, Head(q[s]))]
    BY <1>4 DEF Handle, Take, Dequeue
  <2>2. SideInv(posts, gone, Append(log[s], Head(q[s])), Tail(q[s]), stream[s])
    BY <1>3, <2>1, Handled
  <2>3. Append(log[s], Head(q[s])) \in Seq(Job)
    BY <1>3, <2>1, SideFacts DEF OrderInv
  <2>4. log' \in [Side -> Seq(Job)]
    BY <1>1, <2>1, <2>3
  <2> QED
    BY <1>1, <1>2, <2>1, <2>2, <2>4, BridgeOrder
<1>5. CASE Skip(s)
  <2>1. q[s] # <<>> /\ q' = [q EXCEPT ![s] = Tail(@)] /\ UNCHANGED log
    BY <1>5 DEF Skip, Drop, Dequeue
  <2>2. SideInv(posts, gone, log[s], Tail(q[s]), stream[s])
    BY <1>3, <2>1, Skipped
  <2> QED
    BY <1>1, <1>2, <2>1, <2>2, BridgeOrder
<1>6. CASE Finish(s)
  BY <1>1, <1>2, <1>3, <1>6, BridgeOrder DEF Finish, Done
<1> QED
  BY <1>4, <1>5, <1>6

\* A restart loses what was in memory; what was handled stays in order.
LEMMA CrashOrder ==
  ASSUME TypeInv, OrderInv, Crash
  PROVE  OrderInv'
<1>1. /\ q' = [s \in Side |-> <<>>] /\ pending' = [k \in Key |-> <<>>]
      /\ \A s \in Side : stream'[s] \in {stream[s], <<>>}
      /\ UNCHANGED <<posts, gone, log>>
  BY DEF Crash, Restart
<1>2. ASSUME NEW s \in Side
      PROVE  SideInv(posts, gone, log[s], q'[s], stream'[s])
  <2>1. /\ log[s] \in Seq(Job) /\ q[s] \in Seq(Job) /\ stream[s] \in Seq(Job)
        /\ SideInv(posts, gone, log[s], q[s], stream[s])
    BY SideFacts DEF OrderInv
  <2> QED
    BY <1>1, <2>1, Restarted
<1>3. \A k \in Key : AllGrouped(posts, pending'[k])
  BY <1>1 DEF AllGrouped
<1> QED
  BY <1>1, <1>2, <1>3 DEF OrderInv, LogTypeOK

\* Every step keeps the lines of both sides in order.
LEMMA StepOrder == TypeInv /\ OrderInv /\ [Next]_vars => OrderInv'
<1> SUFFICES ASSUME TypeInv, OrderInv, [Next]_vars PROVE OrderInv'
  OBVIOUS
<1>1. CASE \E c \in Chat, g \in Group \cup {NoGroup}, t \in Text : Post(c, g, t)
  BY <1>1, PostOrder
<1>2. CASE \E m \in Msg, t \in Text : Edit(m, t)
  BY <1>2, EditOrder
<1>3. CASE \E c \in Chat, ids \in SUBSET Msg : Delete(c, ids)
  BY <1>3, DeleteOrder
<1>4. CASE \E s \in Side : Intake(s)
  BY <1>4, IntakeOrder
<1>5. CASE \E k \in Key : FlushAlbum(k)
  BY <1>5, FlushOrder
<1>6. CASE \E s \in Side : Handle(s) \/ Skip(s) \/ Finish(s)
  BY <1>6, WorkerOrder
<1>7. CASE Crash
  BY <1>7, CrashOrder
<1>8. CASE (\E b \in BOOLEAN : Pause(b)) \/ UNCHANGED vars
  <2>1. UNCHANGED <<posts, gone, log, q, stream, pending>>
    BY <1>8 DEF Pause, SetPaused, vars, queueVars, envVars
  <2> QED
    BY <2>1 DEF OrderInv, LogTypeOK
<1> QED
  BY <1>1, <1>2, <1>3, <1>4, <1>5, <1>6, <1>7, <1>8 DEF Next

\* Nothing has happened yet.
LEMMA InitOrder == Init => OrderInv
<1> SUFFICES ASSUME Init PROVE OrderInv
  OBVIOUS
<1>1. /\ \A s \in Side : log[s] = <<>> /\ q[s] = <<>> /\ stream[s] = <<>>
      /\ \A k \in Key : pending[k] = <<>>
      /\ LogTypeOK
  BY DEF Init, QueueInit, LogTypeOK
<1>2. SideInv(posts, gone, <<>>, <<>>, <<>>) /\ AllGrouped(posts, <<>>)
  BY DEF SideInv, Line, Ordered, Precedes, AllKnown, AllTagged, AllGrouped
<1> QED
  BY <1>1, <1>2 DEF OrderInv

\* The line of each side is in order in every reachable state.
THEOREM LinesOrdered == Spec => []OrderInv
<1> QED
  BY InitOrder, StepOrder, TypeCorrect, PTL DEF Spec

\* Messages outside albums reach their handler in the order of the channel, and
\* the edits and the deletion of each one after it, whatever pauses and restarts
\* lose ("two FIFO queues keep ordering deterministic").
THEOREM SinglesStayInOrder == Spec => []SinglesInOrder
<1>1. OrderInv => SinglesInOrder
  <2> SUFFICES ASSUME OrderInv PROVE SinglesInOrder
    OBVIOUS
  <2>1. \A s \in Side : \A i, j \in DOMAIN log[s] :
          i < j => Before(posts, log[s][i], log[s][j])
    BY DEF OrderInv, SideInv, Line, Ordered
  <2>2. LifeInOrder(LAMBDA m : GroupOf(m) = NoGroup)
    BY <2>1 DEF LifeInOrder, Before, Grp, GroupOf
  <2> QED
    BY <2>1, <2>2 DEF SinglesInOrder, Before, Grp, GroupOf
<1> QED
  BY <1>1, LinesOrdered, PTL

-----------------------------------------------------------------------------
(* Albums: a job of several new messages is one album of one chat in       *)
(* message order.                                                          *)

\* The definitions take the events of a side (st), a buffer (b) and the posts (ps)
\* as arguments: a step compares them before and after it.
NewMsg(e) == e.items[1].msg

\* A side's events of new messages are about one message each, of a chat of that
\* side, and come in the order of the chat.
StreamOK(s, st, ps) ==
  /\ \A i \in DOMAIN st : st[i].kind = "new" =>
       /\ Len(st[i].items) = 1
       /\ SideOf(NewMsg(st[i]).chat) = s
       /\ NewMsg(st[i]).id <= Len(ps[NewMsg(st[i]).chat])
  /\ \A i, j \in DOMAIN st :
       (/\ i < j /\ st[i].kind = "new" /\ st[j].kind = "new"
        /\ NewMsg(st[i]).chat = NewMsg(st[j]).chat)
         => NewMsg(st[i]).id < NewMsg(st[j]).id

\* A buffer holds items of its album, in the order of the chat ...
BufferOK(k, b, ps) ==
  /\ \A a \in DOMAIN b :
       b[a].msg.chat = k[1] /\ b[a].grp = k[2] /\ b[a].msg.id <= Len(ps[k[1]])
  /\ \A a, c \in DOMAIN b : a < c => b[a].msg.id < b[c].msg.id

\* ... and all of them come before what the chat has yet to report.
Ahead(k, b, st) ==
  \A a \in DOMAIN b, i \in DOMAIN st :
    (st[i].kind = "new" /\ NewMsg(st[i]).chat = k[1]) => b[a].msg.id < NewMsg(st[i]).id

JobSorted(j) ==
  j.kind = "new" =>
    \A a, b \in DOMAIN j.items :
      a < b => LET x == j.items[a]
                   y == j.items[b]
               IN  /\ x.msg.chat = y.msg.chat /\ x.msg.id < y.msg.id
                   /\ x.grp = y.grp /\ x.grp # NoGroup
AllSorted(a) == \A i \in DOMAIN a : JobSorted(a[i])

AlbumInv ==
  /\ log \in [Side -> Seq(Job)]
  /\ \A s \in Side :
       StreamOK(s, stream[s], posts) /\ AllSorted(q[s]) /\ AllSorted(log[s])
  /\ \A k \in Key :
       BufferOK(k, pending[k], posts) /\ Ahead(k, pending[k], stream[SideOf(k[1])])

-----------------------------------------------------------------------------
(* Sequences *)

\* The tail of a sequence of events or of jobs.
LEMMA TailOK ==
  ASSUME NEW st \in Seq(Job), st # <<>>, NEW s, NEW ps, NEW k, NEW b
  PROVE  /\ StreamOK(s, st, ps) => StreamOK(s, Tail(st), ps)
         /\ Ahead(k, b, st) => Ahead(k, b, Tail(st))
         /\ AllSorted(st) => AllSorted(Tail(st)) /\ JobSorted(Head(st))
<1>1. /\ Len(st) \in Nat \ {0} /\ DOMAIN st = 1..Len(st)
      /\ Head(st) = st[1]
      /\ DOMAIN Tail(st) = 1..(Len(st) - 1)
      /\ \A i \in DOMAIN Tail(st) : i + 1 \in DOMAIN st /\ Tail(st)[i] = st[i + 1]
  BY HeadTailProperties, EmptySeq, LenProperties
<1>2. StreamOK(s, st, ps) => StreamOK(s, Tail(st), ps)
  BY <1>1 DEF StreamOK
<1>3. Ahead(k, b, st) => Ahead(k, b, Tail(st))
  BY <1>1 DEF Ahead
<1>4. AllSorted(st) => AllSorted(Tail(st)) /\ JobSorted(Head(st))
  BY <1>1 DEF AllSorted
<1> QED
  BY <1>2, <1>3, <1>4

LEMMA AppendFacts ==
  ASSUME NEW S, NEW a \in Seq(S), NEW e \in S
  PROVE  /\ Len(a) \in Nat /\ DOMAIN a = 1..Len(a)
         /\ DOMAIN Append(a, e) = 1..(Len(a) + 1)
         /\ Append(a, e)[Len(a) + 1] = e
         /\ \A i \in DOMAIN a : Append(a, e)[i] = a[i]
OBVIOUS

LEMMA AppendSorted ==
  ASSUME NEW a \in Seq(Job), NEW e \in Job, AllSorted(a), JobSorted(e)
  PROVE  AllSorted(Append(a, e))
BY AppendFacts DEF AllSorted

\* An event that is not a new message.
LEMMA AppendOther ==
  ASSUME NEW st \in Seq(Job), NEW e \in Job, e.kind # "new", NEW s, NEW ps
  PROVE  /\ StreamOK(s, st, ps) => StreamOK(s, Append(st, e), ps)
         /\ \A k, b : Ahead(k, b, st) => Ahead(k, b, Append(st, e))
<1>1. /\ Len(st) \in Nat /\ DOMAIN st = 1..Len(st)
      /\ DOMAIN Append(st, e) = 1..(Len(st) + 1)
      /\ Append(st, e)[Len(st) + 1] = e
      /\ \A i \in DOMAIN st : Append(st, e)[i] = st[i]
  BY AppendFacts
<1>2. StreamOK(s, st, ps) => StreamOK(s, Append(st, e), ps)
  BY <1>1 DEF StreamOK
<1>3. \A k, b : Ahead(k, b, st) => Ahead(k, b, Append(st, e))
  BY <1>1 DEF Ahead
<1> QED
  BY <1>2, <1>3

\* Sorting a buffer that is in order gives a job in order.
LEMMA SortedBuffer ==
  ASSUME NEW k \in Key, NEW b \in Seq(Item), NEW ps, BufferOK(k, b, ps),
         NEW msgs \in SortedById(b)
  PROVE  JobSorted([kind |-> "new", items |-> msgs])
<1>1. PICK p \in [DOMAIN b -> DOMAIN b] :
        /\ msgs = [i \in DOMAIN b |-> b[p[i]]]
        /\ IsInjective(p)
        /\ \A i, j \in DOMAIN b : i < j => b[p[i]].msg.id <= b[p[j]].msg.id
  BY DEF SortedById
<1>2. k[2] # NoGroup
  BY GroupAssumption DEF Key
<1>3. Len(b) \in Nat /\ DOMAIN b = 1..Len(b)
  OBVIOUS
<1>4. \A i \in DOMAIN b : b[i] \in Item /\ b[i].msg.id \in Nat
  BY ItemIds
<1>5. ASSUME NEW i \in DOMAIN b, NEW j \in DOMAIN b, i < j
      PROVE  /\ msgs[i].msg.chat = msgs[j].msg.chat /\ msgs[i].msg.id < msgs[j].msg.id
             /\ msgs[i].grp = msgs[j].grp /\ msgs[i].grp # NoGroup
  <2>1. p[i] \in DOMAIN b /\ p[j] \in DOMAIN b /\ p[i] # p[j]
    <3>1. i # j
      BY <1>3, <1>5
    <3> QED
      BY <1>1, <3>1 DEF IsInjective
  <2>2. b[p[i]].msg.id # b[p[j]].msg.id
    <3>1. p[i] < p[j] \/ p[j] < p[i]
      BY <1>3, <2>1
    <3> QED
      BY <1>4, <2>1, <3>1 DEF BufferOK
  <2>3. b[p[i]].msg.id < b[p[j]].msg.id
    BY <1>1, <1>4, <1>5, <2>1, <2>2
  <2>4. b[p[i]].msg.chat = b[p[j]].msg.chat /\ b[p[i]].grp = b[p[j]].grp /\ b[p[i]].grp = k[2]
    BY <2>1 DEF BufferOK
  <2> QED
    BY <1>1, <1>2, <2>3, <2>4
<1>6. DOMAIN msgs = DOMAIN b
  BY <1>1
<1> QED
  BY <1>5, <1>6 DEF JobSorted

-----------------------------------------------------------------------------
(* Steps *)

\* The queues of a step that queues one job in order, or none.
LEMMA PutSorted ==
  ASSUME QueueTypeOK, AlbumInv, NEW s \in Side, NEW j \in Job, JobSorted(j),
         q' = q \/ Put(s, j)
  PROVE  \A r \in Side : AllSorted(q'[r])
<1>1. q \in [Side -> Seq(Job)] /\ \A r \in Side : AllSorted(q[r])
  BY DEF QueueTypeOK, AlbumInv
<1>2. CASE q' = q
  BY <1>1, <1>2
<1>3. CASE Put(s, j)
  <2>1. q'[s] = Append(q[s], j) /\ \A r \in Side : r # s => q'[r] = q[r]
    BY <1>1, <1>3 DEF Put
  <2>2. AllSorted(Append(q[s], j))
    BY <1>1, AppendSorted
  <2> QED
    BY <1>1, <2>1, <2>2
<1> QED
  BY <1>2, <1>3

\* A job about one message, or about a deletion, is in order by itself.
LEMMA OneIsSorted ==
  ASSUME NEW j, j.kind # "new" \/ DOMAIN j.items \subseteq {1}
  PROVE  JobSorted(j)
BY DEF JobSorted

LEMMA PostAlbum ==
  ASSUME TypeInv, AlbumInv, NEW c \in Chat, NEW g \in Group \cup {NoGroup}, NEW t \in Text,
         Post(c, g, t)
  PROVE  AlbumInv'
<1> DEFINE n == Len(posts[c])
           m == [chat |-> c, id |-> n + 1]
           it == [msg |-> m, txt |-> t, grp |-> g]
           e == [kind |-> "new", items |-> <<it>>]
           s == SideOf(c)
<1>1. posts[c] \in Seq(Group \cup {NoGroup}) /\ n \in Nat /\ posts \in [Chat -> Seq(Group \cup {NoGroup})]
  BY DEF TypeInv, PostsTypeOK
<1>2. /\ n < MaxId /\ posts' = [posts EXCEPT ![c] = Append(@, g)]
      /\ stream' = [stream EXCEPT ![s] = Append(@, e)]
      /\ UNCHANGED <<q, pending, log>>
  BY DEF Post, Emit
<1>3. e \in Job
  <2>1. it \in Item
    BY <1>1, <1>2, MaxIdAssumption DEF Item, Msg
  <2> QED
    BY <2>1, EventIsJob
<1>4. /\ e.kind = "new" /\ Len(e.items) = 1 /\ NewMsg(e) = m
      /\ m.chat = c /\ m.id = n + 1
  BY DEF NewMsg
<1>5. Len(posts'[c]) = n + 1 /\ \A d \in Chat : d # c => posts'[d] = posts[d]
  BY <1>1, <1>2
<1>6. /\ stream \in [Side -> Seq(Job)] /\ s \in Side
      /\ stream'[s] = Append(stream[s], e) /\ \A r \in Side : r # s => stream'[r] = stream[r]
  BY <1>2, SideOfType DEF TypeInv, QueueTypeOK
<1>7. ASSUME NEW j \in Job, j.kind = "new"
      PROVE  NewMsg(j).chat \in Chat /\ NewMsg(j).id \in Nat
  BY <1>7, FirstItem, MaxIdAssumption DEF NewMsg, Item, Msg
<1>8. ASSUME NEW d \in Chat, NEW i \in Nat, i <= Len(posts[d])
      PROVE  i <= Len(posts'[d])
  BY <1>1, <1>5, <1>8
<1> HIDE DEF e, m, n, s
<1>9. ASSUME NEW r \in Side, r # s
      PROVE  StreamOK(r, stream'[r], posts')
  <2>1. StreamOK(r, stream[r], posts) /\ \A i \in DOMAIN stream[r] : stream[r][i] \in Job
    BY <1>6 DEF AlbumInv
  <2> QED
    BY <1>6, <1>7, <1>8, <1>9, <2>1 DEF StreamOK
<1>10. StreamOK(s, stream'[s], posts')
  <2>1. StreamOK(s, stream[s], posts) /\ \A i \in DOMAIN stream[s] : stream[s][i] \in Job
    BY <1>6 DEF AlbumInv
  <2>2. /\ Len(stream[s]) \in Nat /\ DOMAIN stream[s] = 1..Len(stream[s])
        /\ DOMAIN stream'[s] = 1..(Len(stream[s]) + 1)
        /\ stream'[s][Len(stream[s]) + 1] = e
        /\ \A i \in DOMAIN stream[s] : stream'[s][i] = stream[s][i]
    BY <1>3, <1>6, AppendFacts
  <2>3. \A i \in DOMAIN stream[s] :
          (stream[s][i].kind = "new" /\ NewMsg(stream[s][i]).chat = c)
            => NewMsg(stream[s][i]).id < m.id
    BY <1>1, <1>4, <1>7, <2>1 DEF StreamOK, n
  <2>4. SideOf(c) = s /\ m.id <= Len(posts'[c])
    BY <1>1, <1>4, <1>5 DEF s
  <2>5. ASSUME NEW i \in DOMAIN stream'[s], stream'[s][i].kind = "new"
        PROVE  /\ Len(stream'[s][i].items) = 1
               /\ SideOf(NewMsg(stream'[s][i]).chat) = s
               /\ NewMsg(stream'[s][i]).id <= Len(posts'[NewMsg(stream'[s][i]).chat])
    <3>1. CASE i \in DOMAIN stream[s]
      BY <1>7, <1>8, <2>1, <2>2, <2>5, <3>1 DEF StreamOK
    <3>2. CASE i = Len(stream[s]) + 1
      BY <1>4, <2>2, <2>4, <3>2
    <3> QED
      BY <2>2, <3>1, <3>2
  <2>6. ASSUME NEW i \in DOMAIN stream'[s], NEW j \in DOMAIN stream'[s], i < j,
               stream'[s][i].kind = "new", stream'[s][j].kind = "new",
               NewMsg(stream'[s][i]).chat = NewMsg(stream'[s][j]).chat
        PROVE  NewMsg(stream'[s][i]).id < NewMsg(stream'[s][j]).id
    <3>1. i \in DOMAIN stream[s]
      BY <2>2, <2>6
    <3>2. CASE j \in DOMAIN stream[s]
      BY <2>1, <2>2, <2>6, <3>1, <3>2 DEF StreamOK
    <3>3. CASE j = Len(stream[s]) + 1
      BY <1>4, <2>2, <2>3, <2>6, <3>1, <3>3
    <3> QED
      BY <2>2, <3>2, <3>3
  <2> QED
    BY <2>5, <2>6 DEF StreamOK
<1>11. ASSUME NEW k \in Key
       PROVE  BufferOK(k, pending'[k], posts') /\ Ahead(k, pending'[k], stream'[SideOf(k[1])])
  <2>1. /\ BufferOK(k, pending[k], posts) /\ Ahead(k, pending[k], stream[SideOf(k[1])])
        /\ pending'[k] = pending[k] /\ k[1] \in Chat
    BY <1>2 DEF AlbumInv, Key
  <2>2. \A a \in DOMAIN pending[k] : pending[k][a].msg.id \in Nat
    <3>1. pending[k] \in Seq(Item)
      BY DEF TypeInv, QueueTypeOK
    <3> QED
      BY <3>1, ItemIds
  <2>3. BufferOK(k, pending'[k], posts')
    BY <1>8, <2>1, <2>2 DEF BufferOK
  <2>4. CASE SideOf(k[1]) # s
    BY <1>6, <2>1, <2>3, <2>4, SideOfType
  <2>5. CASE SideOf(k[1]) = s
    <3>1. /\ Len(stream[s]) \in Nat /\ DOMAIN stream[s] = 1..Len(stream[s])
          /\ DOMAIN stream'[s] = 1..(Len(stream[s]) + 1)
          /\ stream'[s][Len(stream[s]) + 1] = e
          /\ \A i \in DOMAIN stream[s] : stream'[s][i] = stream[s][i]
      BY <1>3, <1>6, AppendFacts
    <3>2. \A a \in DOMAIN pending[k] : k[1] = c => pending[k][a].msg.id < m.id
      BY <1>1, <1>4, <2>1, <2>2 DEF BufferOK, n
    <3>3. ASSUME NEW a \in DOMAIN pending[k], NEW i \in DOMAIN stream'[s],
                 stream'[s][i].kind = "new", NewMsg(stream'[s][i]).chat = k[1]
          PROVE  pending[k][a].msg.id < NewMsg(stream'[s][i]).id
      <4>1. CASE i \in DOMAIN stream[s]
        BY <2>1, <2>5, <3>1, <3>3, <4>1 DEF Ahead
      <4>2. CASE i = Len(stream[s]) + 1
        BY <1>4, <3>1, <3>2, <3>3, <4>2
      <4> QED
        BY <3>1, <4>1, <4>2
    <3>4. Ahead(k, pending[k], stream'[s])
      BY <3>3 DEF Ahead
    <3> QED
      BY <2>1, <2>3, <2>5, <3>4
  <2> QED
    BY <2>4, <2>5
<1> QED
  BY <1>2, <1>9, <1>10, <1>11 DEF AlbumInv

\* An edit or a deletion is reported.
LEMMA EmitAlbum ==
  ASSUME TypeInv, AlbumInv, NEW s \in Side, NEW e \in Job, e.kind # "new", Emit(s, e),
         UNCHANGED <<q, pending, posts, log>>
  PROVE  AlbumInv'
<1>1. /\ stream \in [Side -> Seq(Job)]
      /\ stream'[s] = Append(stream[s], e) /\ \A r \in Side : r # s => stream'[r] = stream[r]
  BY DEF Emit, TypeInv, QueueTypeOK
<1>2. \A r \in Side : StreamOK(r, stream'[r], posts)
  BY <1>1, AppendOther DEF AlbumInv
<1>3. \A k \in Key : Ahead(k, pending[k], stream'[SideOf(k[1])])
  BY <1>1, AppendOther, SideOfType DEF AlbumInv
<1> QED
  BY <1>2, <1>3 DEF AlbumInv

\* A step that takes an event off a stream and may queue it.
LEMMA PopAlbum ==
  ASSUME TypeInv, AlbumInv, NEW s \in Side, stream[s] # <<>>, Pop(s),
         \A r \in Side : AllSorted(q'[r]),
         UNCHANGED <<pending, posts, log>>
  PROVE  AlbumInv'
<1>1. /\ stream \in [Side -> Seq(Job)]
      /\ stream'[s] = Tail(stream[s]) /\ \A r \in Side : r # s => stream'[r] = stream[r]
  BY DEF Pop, TypeInv, QueueTypeOK
<1>2. \A r \in Side : StreamOK(r, stream'[r], posts)
  BY <1>1, TailOK DEF AlbumInv
<1>3. \A k \in Key : Ahead(k, pending[k], stream'[SideOf(k[1])])
  BY <1>1, TailOK, SideOfType DEF AlbumInv
<1> QED
  BY <1>2, <1>3 DEF AlbumInv

\* An item joins its buffer, behind the others and ahead of what is to come.
LEMMA FeedAlbum ==
  ASSUME TypeInv, AlbumInv, NEW s \in Side, Arrives(s, "new"), Pop(s),
         LET it == Head(stream[s]).items[1]
         IN  it.grp # NoGroup /\ Feed(<<it.msg.chat, it.grp>>, it),
         UNCHANGED <<q, posts, log>>
  PROVE  AlbumInv'
<1> DEFINE e == Head(stream[s])
           it == e.items[1]
           k == <<it.msg.chat, it.grp>>
           st == stream[s]
           b == pending[k]
<1>1. /\ stream \in [Side -> Seq(Job)] /\ st \in Seq(Job) /\ st # <<>>
      /\ stream'[s] = Tail(st) /\ \A r \in Side : r # s => stream'[r] = stream[r]
      /\ e \in Job /\ e.kind = "new" /\ e = st[1]
  BY HeadTailProperties DEF Arrives, Pop, TypeInv, QueueTypeOK
<1>2. it \in Item /\ NewMsg(e) = it.msg /\ it.msg.id \in Nat
  BY <1>1, FirstItem, MaxIdAssumption DEF NewMsg, Item, Msg
<1>3. k \in Key /\ k[1] = it.msg.chat /\ k[2] = it.grp
  BY <1>2 DEF Key, Item, Msg
<1>4. /\ pending \in [Key -> Seq(Item)] /\ b \in Seq(Item)
      /\ pending'[k] = Append(b, it) /\ \A l \in Key : l # k => pending'[l] = pending[l]
  BY <1>3 DEF TypeInv, QueueTypeOK, Feed
<1>5. /\ Len(st) \in Nat \ {0} /\ DOMAIN st = 1..Len(st)
      /\ DOMAIN Tail(st) = 1..(Len(st) - 1)
      /\ \A i \in DOMAIN Tail(st) : i + 1 \in DOMAIN st /\ Tail(st)[i] = st[i + 1]
  BY <1>1, HeadTailProperties, EmptySeq, LenProperties
<1>6. StreamOK(s, st, posts)
  BY DEF AlbumInv
<1>7. 1 \in DOMAIN st /\ SideOf(it.msg.chat) = s /\ it.msg.id <= Len(posts[it.msg.chat])
  BY <1>1, <1>2, <1>5, <1>6 DEF StreamOK
<1>8. BufferOK(k, b, posts) /\ Ahead(k, b, st)
  BY <1>3, <1>7 DEF AlbumInv
<1> HIDE DEF e, it, k, st, b
<1>9. \A a \in DOMAIN b : b[a].msg.id < it.msg.id
  BY <1>1, <1>2, <1>3, <1>7, <1>8 DEF Ahead
<1>10. /\ Len(b) \in Nat /\ DOMAIN b = 1..Len(b)
       /\ DOMAIN Append(b, it) = 1..(Len(b) + 1)
       /\ Append(b, it)[Len(b) + 1] = it
       /\ \A a \in DOMAIN b : Append(b, it)[a] = b[a]
  BY <1>2, <1>4, AppendFacts
<1>11. BufferOK(k, Append(b, it), posts)
  BY <1>3, <1>7, <1>8, <1>9, <1>10 DEF BufferOK
<1>12. \A i \in DOMAIN Tail(st) :
         (Tail(st)[i].kind = "new" /\ NewMsg(Tail(st)[i]).chat = k[1])
           => it.msg.id < NewMsg(Tail(st)[i]).id
  <2>1. ASSUME NEW i \in DOMAIN Tail(st), Tail(st)[i].kind = "new",
               NewMsg(Tail(st)[i]).chat = k[1]
        PROVE  it.msg.id < NewMsg(Tail(st)[i]).id
    <3>1. i + 1 \in DOMAIN st /\ Tail(st)[i] = st[i + 1] /\ 1 < i + 1
      BY <1>5
    <3> QED
      BY <1>1, <1>2, <1>3, <1>6, <1>7, <2>1, <3>1 DEF StreamOK
  <2> QED
    BY <2>1
<1>13. Ahead(k, b, Tail(st))
  BY <1>1, <1>8, TailOK
<1>14. Ahead(k, Append(b, it), Tail(st))
  BY <1>10, <1>12, <1>13 DEF Ahead
<1>15. \A r \in Side : StreamOK(r, stream'[r], posts)
  BY <1>1, TailOK DEF AlbumInv, st
<1>16. ASSUME NEW l \in Key
       PROVE  BufferOK(l, pending'[l], posts) /\ Ahead(l, pending'[l], stream'[SideOf(l[1])])
  <2>1. CASE l = k
    BY <1>1, <1>3, <1>4, <1>7, <1>11, <1>14, <2>1
  <2>2. CASE l # k
    <3>1. BufferOK(l, pending[l], posts) /\ Ahead(l, pending[l], stream[SideOf(l[1])])
      BY DEF AlbumInv
    <3>2. Ahead(l, pending[l], stream'[SideOf(l[1])])
      BY <1>1, <3>1, TailOK, SideOfType DEF st
    <3> QED
      BY <1>4, <2>2, <3>1, <3>2
  <2> QED
    BY <2>1, <2>2
<1> QED
  BY <1>15, <1>16 DEF AlbumInv

LEMMA IntakeAlbum ==
  ASSUME TypeInv, AlbumInv, NEW s \in Side, Intake(s)
  PROVE  AlbumInv'
<1>1. UNCHANGED <<posts, log>>
  BY DEF Intake, envVars
<1>2. ASSUME stream[s] # <<>>
      PROVE  Head(stream[s]) \in Job /\ stream[s] \in Seq(Job) /\ Head(stream[s]) = stream[s][1]
             /\ 1 \in DOMAIN stream[s]
  BY <1>2, HeadTailProperties, EmptySeq, LenProperties DEF TypeInv, QueueTypeOK
<1>3. ASSUME Arrives(s, "new"), q' = q \/ Put(s, Head(stream[s]))
      PROVE  \A r \in Side : AllSorted(q'[r])
  <2>1. Head(stream[s]) \in Job /\ Len(Head(stream[s]).items) = 1
    BY <1>2, <1>3 DEF Arrives, AlbumInv, StreamOK
  <2>2. Head(stream[s]).items \in Seq(Item)
    BY <1>3, <2>1, FirstItem DEF Arrives, ContentJob
  <2>3. DOMAIN Head(stream[s]).items \subseteq {1}
    BY <2>1, <2>2
  <2> QED
    BY <1>3, <2>1, <2>3, OneIsSorted, PutSorted DEF TypeInv
<1>4. CASE OnNew(s)
  <2>1. Arrives(s, "new") /\ stream[s] # <<>> /\ Pop(s)
    BY <1>4 DEF OnNew, Arrives
  <2>2. CASE UNCHANGED pending
    <3>1. q' = q \/ Put(s, Head(stream[s]))
      BY <1>4 DEF OnNew
    <3> QED
      BY <1>1, <1>3, <2>1, <2>2, <3>1, PopAlbum
  <2>3. CASE /\ LET it == Head(stream[s]).items[1]
                IN  it.grp # NoGroup /\ Feed(<<it.msg.chat, it.grp>>, it)
             /\ UNCHANGED q
    BY <1>1, <2>1, <2>3, FeedAlbum
  <2> QED
    BY <1>4, <2>2, <2>3 DEF OnNew
<1>5. CASE OnEdit(s)
  <2>1. stream[s] # <<>> /\ Pop(s) /\ Head(stream[s]).kind = "edit" /\ UNCHANGED pending
    BY <1>5 DEF OnEdit, Arrives
  <2>2. q' = q \/ Put(s, Head(stream[s]))
    BY <1>5 DEF OnEdit
  <2>3. \A r \in Side : AllSorted(q'[r])
    BY <1>2, <2>1, <2>2, OneIsSorted, PutSorted DEF TypeInv
  <2> QED
    BY <1>1, <2>1, <2>3, PopAlbum
<1>6. CASE OnDelete(s)
  <2> DEFINE j == [kind |-> "delete", ids |-> Head(stream[s]).ids \ ignore]
  <2>1. stream[s] # <<>> /\ Pop(s) /\ Head(stream[s]).kind = "delete" /\ UNCHANGED pending
    BY <1>6 DEF OnDelete, Arrives
  <2>2. q' = q \/ Put(s, j)
    BY <1>6 DEF OnDelete
  <2>3. j \in Job
    BY <1>2, <2>1 DEF Job, ContentJob, DeleteJob
  <2>4. \A r \in Side : AllSorted(q'[r])
    BY <2>2, <2>3, OneIsSorted, PutSorted DEF TypeInv
  <2> QED
    BY <1>1, <2>1, <2>4, PopAlbum
<1> QED
  BY <1>4, <1>5, <1>6 DEF Intake

LEMMA FlushAlbumKeeps ==
  ASSUME TypeInv, AlbumInv, NEW k \in Key, FlushAlbum(k)
  PROVE  AlbumInv'
<1>1. /\ pending' = [pending EXCEPT ![k] = <<>>]
      /\ UNCHANGED <<stream, posts, log>>
  BY DEF FlushAlbum, Flush, envVars
<1>2. pending \in [Key -> Seq(Item)] /\ pending[k] \in Seq(Item)
  BY DEF TypeInv, QueueTypeOK
<1>3. \A r \in Side : AllSorted(q'[r])
  <2>1. CASE UNCHANGED q
    BY <2>1 DEF AlbumInv
  <2>2. CASE pending[k] # <<>>
    <3>1. PICK msgs \in SortedById(pending[k]) :
            Put(SideOf(k[1]), [kind |-> "new", items |-> msgs])
      BY <2>2 DEF FlushAlbum, Flush
    <3>2. [kind |-> "new", items |-> msgs] \in Job
      <4>1. msgs \in Seq(Item) /\ msgs # <<>>
        BY <1>2, <2>2, SortedIsSeq, EmptySeq
      <4> QED
        BY <4>1 DEF Job, ContentJob
    <3>3. JobSorted([kind |-> "new", items |-> msgs])
      BY <1>2, SortedBuffer DEF AlbumInv
    <3> QED
      BY <3>1, <3>2, <3>3, SideOfType, PutSorted DEF TypeInv
  <2> QED
    BY <2>1, <2>2 DEF FlushAlbum, Flush
<1>4. ASSUME NEW l \in Key
      PROVE  BufferOK(l, pending'[l], posts) /\ Ahead(l, pending'[l], stream[SideOf(l[1])])
  <2>1. CASE l = k
    BY <1>1, <1>2, <2>1 DEF BufferOK, Ahead
  <2>2. CASE l # k
    BY <1>1, <1>2, <2>2 DEF AlbumInv
  <2> QED
    BY <2>1, <2>2
<1> QED
  BY <1>1, <1>3, <1>4 DEF AlbumInv

\* The worker hands the oldest job over, or drops it.
LEMMA WorkerAlbum ==
  ASSUME TypeInv, AlbumInv, NEW s \in Side, Handle(s) \/ Skip(s)
  PROVE  AlbumInv'
<1>1. /\ q \in [Side -> Seq(Job)] /\ q[s] # <<>>
      /\ q'[s] = Tail(q[s]) /\ \A r \in Side : r # s => q'[r] = q[r]
      /\ UNCHANGED <<stream, pending, posts>>
  BY DEF Handle, Take, Skip, Drop, Dequeue, envVars, TypeInv, QueueTypeOK
<1>2. AllSorted(q[s])
  BY DEF AlbumInv
<1>3. AllSorted(Tail(q[s])) /\ JobSorted(Head(q[s]))
  BY <1>1, <1>2, TailOK
<1>4. \A r \in Side : AllSorted(q'[r])
  BY <1>1, <1>3 DEF AlbumInv
<1>5. log' = log \/ log' = [log EXCEPT ![s] = Append(@, Head(q[s]))]
  BY DEF Handle, Skip
<1>6. log' \in [Side -> Seq(Job)] /\ \A r \in Side : AllSorted(log'[r])
  <2>1. Head(q[s]) \in Job /\ log \in [Side -> Seq(Job)]
    BY <1>1, HeadTailProperties DEF AlbumInv
  <2>2. AllSorted(Append(log[s], Head(q[s])))
    BY <1>3, <2>1, AppendSorted DEF AlbumInv
  <2>3. CASE log' = log
    BY <2>1, <2>3 DEF AlbumInv
  <2>4. CASE log' = [log EXCEPT ![s] = Append(@, Head(q[s]))]
    <3>1. log'[s] = Append(log[s], Head(q[s])) /\ \A r \in Side : r # s => log'[r] = log[r]
      BY <2>1, <2>4
    <3>2. log' \in [Side -> Seq(Job)]
      BY <2>1, <2>4
    <3>3. \A r \in Side : AllSorted(log'[r])
      BY <2>2, <3>1 DEF AlbumInv
    <3> QED
      BY <3>2, <3>3
  <2> QED
    BY <1>5, <2>3, <2>4
<1> QED
  BY <1>1, <1>4, <1>6 DEF AlbumInv

\* The process starts with nothing in memory.
LEMMA CrashAlbum ==
  ASSUME TypeInv, AlbumInv, Crash
  PROVE  AlbumInv'
<1>1. /\ q' = [s \in Side |-> <<>>] /\ pending' = [k \in Key |-> <<>>]
      /\ stream' = [s \in Side |-> IF s = "bale" /\ BaleMode = "bot" THEN stream[s] ELSE <<>>]
      /\ UNCHANGED <<posts, log>>
  BY DEF Crash, Restart
<1>2. \A s \in Side : StreamOK(s, stream'[s], posts) /\ AllSorted(q'[s])
  BY <1>1 DEF AlbumInv, StreamOK, AllSorted
<1>3. \A k \in Key : BufferOK(k, pending'[k], posts)
                     /\ Ahead(k, pending'[k], stream'[SideOf(k[1])])
  BY <1>1 DEF BufferOK, Ahead
<1> QED
  BY <1>1, <1>2, <1>3 DEF AlbumInv

LEMMA StillAlbum ==
  ASSUME AlbumInv, UNCHANGED <<stream, q, pending, posts, log>>
  PROVE  AlbumInv'
BY DEF AlbumInv

LEMMA StepAlbum == TypeInv /\ AlbumInv /\ [Next]_vars => AlbumInv'
<1> SUFFICES ASSUME TypeInv, AlbumInv, [Next]_vars PROVE AlbumInv'
  OBVIOUS
<1>1. ASSUME NEW m \in Msg, NEW t \in Text, Edit(m, t)
      PROVE  AlbumInv'
  <2> DEFINE e == [kind |-> "edit", items |-> <<ItemOf(m, t)>>]
  <2>1. e \in Job /\ e.kind # "new"
    BY <1>1, PostedItem, EventIsJob DEF Edit, TypeInv
  <2> QED
    BY <1>1, <2>1, SideOfType, EmitAlbum DEF Edit
<1>2. ASSUME NEW c \in Chat, NEW ids \in SUBSET Msg, Delete(c, ids)
      PROVE  AlbumInv'
  <2> DEFINE e == [kind |-> "delete", ids |-> ids]
  <2>1. e \in Job /\ e.kind # "new"
    BY DEF Job, DeleteJob
  <2> QED
    BY <1>2, <2>1, SideOfType, EmitAlbum DEF Delete
<1>3. ASSUME NEW s \in Side, Finish(s) PROVE AlbumInv'
  BY <1>3, StillAlbum DEF Finish, Done, envVars
<1>4. ASSUME NEW b \in BOOLEAN, Pause(b) PROVE AlbumInv'
  BY <1>4, StillAlbum DEF Pause, SetPaused
<1>5. CASE UNCHANGED vars
  BY <1>5, StillAlbum DEF vars, queueVars, envVars
<1> QED
  BY <1>1, <1>2, <1>3, <1>4, <1>5, PostAlbum, IntakeAlbum, FlushAlbumKeeps, WorkerAlbum,
     CrashAlbum DEF Next

-----------------------------------------------------------------------------
(* Theorems *)

\* Events and buffers keep the order of their chat, jobs the order of their album.
THEOREM AlbumsInOrder == Spec => []AlbumInv
<1>1. Init => AlbumInv
  <2> SUFFICES ASSUME Init PROVE AlbumInv
    OBVIOUS
  <2>1. log \in [Side -> Seq(Job)]
    BY DEF Init
  <2>2. \A s \in Side : stream[s] = <<>> /\ q[s] = <<>> /\ log[s] = <<>>
    BY DEF Init, QueueInit
  <2>3. \A k \in Key : pending[k] = <<>>
    BY DEF Init, QueueInit
  <2>4. \A s \in Side : StreamOK(s, stream[s], posts) /\ AllSorted(q[s]) /\ AllSorted(log[s])
    BY <2>2 DEF StreamOK, AllSorted
  <2>5. \A k \in Key : BufferOK(k, pending[k], posts)
                       /\ Ahead(k, pending[k], stream[SideOf(k[1])])
    BY <2>3 DEF BufferOK, Ahead
  <2> QED
    BY <2>1, <2>4, <2>5 DEF AlbumInv
<1> QED
  BY <1>1, StepAlbum, TypeCorrect, PTL DEF Spec

\* Handlers get an album as one job with its items in message order, and no job mixes
\* two albums or two chats (albums.py: the buffer, the timer and the sort).
THEOREM AlbumsAreSorted == Spec => []AlbumJobsSorted
<1>1. AlbumInv => AlbumJobsSorted
  BY DEF AlbumInv, AllSorted, JobSorted, AlbumJobsSorted
<1> QED
  BY <1>1, AlbumsInOrder, PTL

-----------------------------------------------------------------------------
(* Where a message is: in one place, at each moment                        *)

\* The jobs that bring m as a new message.
News(m) == { j \in Job : j.kind = "new" /\ m \in MsgsOf(j) }

InBuffer(m, k) == \E i \in DOMAIN pending[k] : pending[k][i].msg = m

\* The five places.
Coming(m) == Occurs(stream[SideOf(m.chat)], News(m))
Waiting(m) == \E k \in Key : InBuffer(m, k)
Queued(m) == Occurs(q[SideOf(m.chat)], News(m))
Given(m) == Occurs(log[SideOf(m.chat)], News(m))
Lost(m) == m \in dropped

\* m is in one of them if it was posted, in none if not.
OnePlace(m) ==
  /\ Coming(m) \/ Waiting(m) \/ Queued(m) \/ Given(m) \/ Lost(m) <=> m \in Posted
  /\ Coming(m) => ~Waiting(m) /\ ~Queued(m) /\ ~Given(m) /\ ~Lost(m)
  /\ Waiting(m) => ~Queued(m) /\ ~Given(m) /\ ~Lost(m)
  /\ Queued(m) => ~Given(m) /\ ~Lost(m)
  /\ Given(m) => ~Lost(m)

\* It is there once, and only on the side of its channel.
Once(m) ==
  /\ AtMostOnce(stream[SideOf(m.chat)], News(m))
  /\ AtMostOnce(q[SideOf(m.chat)], News(m))
  /\ AtMostOnce(log[SideOf(m.chat)], News(m))
  /\ \A k, l \in Key : InBuffer(m, k) /\ InBuffer(m, l) => k = l
AtHome(m) ==
  \A s \in Side : Occurs(stream[s], News(m)) \/ Occurs(q[s], News(m)) => s = SideOf(m.chat)

Placed(m) == OnePlace(m) /\ Once(m) /\ AtHome(m)

PlaceInv ==
  /\ sent = {}
  /\ \A m \in Msg : Placed(m)

\* What the other invariants say of the variables.
LEMMA PlaceTypes ==
  ASSUME TypeInv, AlbumInv
  PROVE  /\ stream \in [Side -> Seq(Job)] /\ q \in [Side -> Seq(Job)] /\ log \in [Side -> Seq(Job)]
         /\ pending \in [Key -> Seq(Item)]
         /\ \A m : SideOf(m.chat) \in Side
BY SideOfType DEF TypeInv, QueueTypeOK, AlbumInv

-----------------------------------------------------------------------------
(* Sequences of jobs *)

\* Taking the first job takes one occurrence, if the job counts.
LEMMA HeadOut ==
  ASSUME NEW X, NEW st \in Seq(X), st # <<>>, NEW J, AtMostOnce(st, J)
  PROVE  /\ AtMostOnce(Tail(st), J)
         /\ Head(st) \in J => Occurs(st, J) /\ ~Occurs(Tail(st), J)
         /\ Head(st) \notin J => (Occurs(Tail(st), J) <=> Occurs(st, J))
<1>1. /\ Occurs(Tail(st), J) => Occurs(st, J)
      /\ Head(st) \in J => Occurs(st, J) /\ ~Occurs(Tail(st), J)
      /\ AtMostOnce(Tail(st), J)
  BY TailOnce
<1>2. ASSUME Head(st) \notin J, Occurs(st, J) PROVE Occurs(Tail(st), J)
  <2>1. /\ Len(st) \in Nat /\ DOMAIN st = 1..Len(st) /\ Head(st) = st[1]
        /\ DOMAIN Tail(st) = 1..(Len(st) - 1)
        /\ \A i \in 1..(Len(st) - 1) : Tail(st)[i] = st[i + 1]
    BY HeadTailProperties, EmptySeq
  <2>2. PICK i \in 1..Len(st) : st[i] \in J
    BY <1>2, <2>1 DEF Occurs
  <2>3. i # 1
    BY <1>2, <2>1, <2>2
  <2>4. i - 1 \in 1..(Len(st) - 1) /\ (i - 1) + 1 = i
    BY <2>1, <2>2, <2>3
  <2>5. Tail(st)[i - 1] = st[i]
    BY <2>1, <2>4
  <2> QED
    BY <2>1, <2>2, <2>4, <2>5 DEF Occurs
<1> QED
  BY <1>1, <1>2

LEMMA NoneInEmpty ==
  ASSUME NEW J
  PROVE  ~Occurs(<<>>, J) /\ AtMostOnce(<<>>, J)
BY DEF Occurs, AtMostOnce

\* A job of one item brings one message.
LEMMA OneItem ==
  ASSUME NEW e \in Job, e.kind = "new", Len(e.items) = 1
  PROVE  \A m : e \in News(m) <=> m = e.items[1].msg
<1>1. e.items \in Seq(Item)
  BY FirstItem DEF ContentJob
<1>2. DOMAIN e.items = {1}
  BY <1>1
<1>3. MsgsOf(e) = {e.items[1].msg}
  BY <1>2 DEF MsgsOf
<1> QED
  BY <1>3 DEF News

\* The job of an album brings what the buffer held: the sort loses no item.
LEMMA SortedNews ==
  ASSUME NEW b \in Seq(Item), b # <<>>, NEW msgs \in SortedById(b)
  PROVE  /\ [kind |-> "new", items |-> msgs] \in Job
         /\ \A m : [kind |-> "new", items |-> msgs] \in News(m) <=> \E i \in DOMAIN b : b[i].msg = m
<1>1. PICK p \in [DOMAIN b -> DOMAIN b] :
        msgs = [i \in DOMAIN b |-> b[p[i]]] /\ IsInjective(p)
  BY DEF SortedById
<1>2. [kind |-> "new", items |-> msgs] \in Job
  <2>1. msgs \in Seq(Item) /\ msgs # <<>>
    BY SortedIsSeq, EmptySeq
  <2> QED
    BY <2>1 DEF Job, ContentJob
<1>3. \A n \in DOMAIN b : \E i \in DOMAIN b : p[i] = n
  <2>1. Len(b) \in Nat /\ DOMAIN b = 1..Len(b)
    OBVIOUS
  <2>2. IsFiniteSet(DOMAIN b)
    BY <2>1, FS_Interval
  <2>3. p \in Injection(DOMAIN b, DOMAIN b)
    BY <1>1 DEF Injection
  <2>4. p \in Surjection(DOMAIN b, DOMAIN b)
    BY <2>2, <2>3, FS_Injection
  <2> QED
    BY <2>4 DEF Surjection
<1>4. DOMAIN msgs = DOMAIN b /\ \A i \in DOMAIN b : msgs[i] = b[p[i]] /\ p[i] \in DOMAIN b
  BY <1>1
<1>5. ASSUME NEW m
      PROVE  (\E i \in DOMAIN msgs : msgs[i].msg = m) <=> \E i \in DOMAIN b : b[i].msg = m
  <2>1. ASSUME NEW i \in DOMAIN msgs, msgs[i].msg = m
        PROVE  \E n \in DOMAIN b : b[n].msg = m
    BY <1>4, <2>1
  <2>2. ASSUME NEW n \in DOMAIN b, b[n].msg = m
        PROVE  \E i \in DOMAIN msgs : msgs[i].msg = m
    <3>1. PICK i \in DOMAIN b : p[i] = n
      BY <1>3
    <3>2. msgs[i] = b[n]
      BY <1>4, <3>1
    <3> QED
      BY <1>4, <2>2, <3>2
  <2> QED
    BY <2>1, <2>2
<1>6. PICK j : j = [kind |-> "new", items |-> msgs]
  OBVIOUS
<1>7. j.kind = "new" /\ j.items = msgs
  BY <1>6
<1>8. \A m : m \in MsgsOf(j) <=> \E i \in DOMAIN msgs : msgs[i].msg = m
  BY <1>7 DEF MsgsOf
<1> QED
  BY <1>2, <1>5, <1>6, <1>7, <1>8 DEF News

-----------------------------------------------------------------------------
(* Steps *)

\* A step that leaves the places of every message alone.
LEMMA PlaceStill ==
  ASSUME PlaceInv, UNCHANGED <<stream, q, pending, log, dropped, posts, sent>>
  PROVE  PlaceInv'
BY DEF PlaceInv, Placed, OnePlace, Once, AtHome, Coming, Waiting, Queued, Given, Lost, InBuffer,
       Posted

\* A platform reports what is no new message.
LEMMA PlaceEmit ==
  ASSUME TypeInv, AlbumInv, PlaceInv, NEW s \in Side, NEW e \in Job, e.kind # "new", Emit(s, e),
         UNCHANGED <<q, pending, log, dropped, posts, sent>>
  PROVE  PlaceInv'
<1>1. stream'[s] = Append(stream[s], e) /\ \A r \in Side : r # s => stream'[r] = stream[r]
  BY PlaceTypes DEF Emit
<1>2. ASSUME NEW m \in Msg PROVE Placed(m)'
  <2>1. e \notin News(m)
    BY DEF News
  <2>2. /\ Occurs(stream'[s], News(m)) <=> Occurs(stream[s], News(m))
        /\ AtMostOnce(stream[s], News(m)) => AtMostOnce(stream'[s], News(m))
    <3>1. stream[s] \in Seq(Job)
      BY PlaceTypes
    <3>2. /\ Occurs(Append(stream[s], e), News(m)) <=> Occurs(stream[s], News(m))
          /\ AtMostOnce(stream[s], News(m)) => AtMostOnce(Append(stream[s], e), News(m))
      BY <2>1, <3>1, AppendOnce
    <3> QED
      BY <1>1, <3>2
  <2>3. \A r \in Side : /\ Occurs(stream'[r], News(m)) <=> Occurs(stream[r], News(m))
                        /\ AtMostOnce(stream[r], News(m)) => AtMostOnce(stream'[r], News(m))
    BY <1>1, <2>2
  <2>4. Placed(m) /\ SideOf(m.chat) \in Side
    BY PlaceTypes DEF PlaceInv
  <2>5. OnePlace(m)'
    BY <2>3, <2>4 DEF Placed, OnePlace, Coming, Waiting, Queued, Given, Lost, InBuffer, Posted
  <2>6. Once(m)' /\ AtHome(m)'
    BY <2>3, <2>4 DEF Placed, Once, AtHome, InBuffer
  <2> QED
    BY <2>5, <2>6 DEF Placed
<1> QED
  BY <1>2 DEF PlaceInv

\* A user posts: the message comes to be in the stream, and nowhere else.
LEMMA PlacePost ==
  ASSUME TypeInv, AlbumInv, PlaceInv, NEW c \in Chat, NEW g \in Group \cup {NoGroup},
         NEW t \in Text, Post(c, g, t)
  PROVE  PlaceInv'
<1> DEFINE n == Len(posts[c])
           u == [chat |-> c, id |-> n + 1]
           it == [msg |-> u, txt |-> t, grp |-> g]
           e == [kind |-> "new", items |-> <<it>>]
           s == SideOf(c)
<1>1. posts[c] \in Seq(Group \cup {NoGroup}) /\ n \in Nat
      /\ posts \in [Chat -> Seq(Group \cup {NoGroup})]
  BY DEF TypeInv, PostsTypeOK
<1>2. /\ n < MaxId /\ posts' = [posts EXCEPT ![c] = Append(@, g)]
      /\ stream' = [stream EXCEPT ![s] = Append(@, e)]
      /\ UNCHANGED <<q, pending, log, dropped, sent>>
  BY DEF Post, Emit
<1>3. u \in Msg /\ it \in Item
  BY <1>1, <1>2, MaxIdAssumption DEF Item, Msg
<1>4. e \in Job /\ e.kind = "new" /\ Len(e.items) = 1 /\ e.items[1].msg = u
  BY <1>3, EventIsJob
<1>5. /\ Len(posts'[c]) = n + 1 /\ \A d \in Chat : d # c => posts'[d] = posts[d]
  BY <1>1, <1>2
<1>6. u \notin Posted /\ Posted' = Posted \cup {u}
  <2>1. \A m \in Msg : m.chat \in Chat /\ m.id \in Nat /\ m = [chat |-> m.chat, id |-> m.id]
    BY MaxIdAssumption DEF Msg
  <2>2. u.chat = c /\ u.id = n + 1
    OBVIOUS
  <2>3. u \notin Posted
    BY <1>1, <2>2 DEF Posted
  <2>4. ASSUME NEW m \in Msg PROVE m.id <= Len(posts'[m.chat]) <=> m.id <= Len(posts[m.chat]) \/ m = u
    <3>1. CASE m.chat # c
      BY <1>5, <2>1, <2>2, <3>1
    <3>2. CASE m.chat = c
      <4>1. m = u <=> m.id = n + 1
        BY <2>1, <2>2, <3>2
      <4> HIDE DEF u
      <4> QED
        BY <1>1, <1>5, <2>1, <3>2, <4>1
    <3> QED
      BY <3>1, <3>2
  <2> HIDE DEF u
  <2> QED
    BY <1>3, <2>3, <2>4 DEF Posted
<1>7. \A m : e \in News(m) <=> m = u
  BY <1>4, OneItem
<1>8. s \in Side /\ SideOf(u.chat) = s
  BY SideOfType
<1>9. stream'[s] = Append(stream[s], e) /\ \A r \in Side : r # s => stream'[r] = stream[r]
  BY <1>2, <1>8, PlaceTypes
<1> HIDE DEF n, u, it, e, s
<1>10. ASSUME NEW m \in Msg PROVE Placed(m)'
  <2>1. Placed(m) /\ SideOf(m.chat) \in Side /\ Placed(u)
    BY <1>3, PlaceTypes DEF PlaceInv
  <2>2. m = u => ~Coming(m)
    BY <1>6, <2>1 DEF Placed, OnePlace
  <2>3. /\ Occurs(stream'[s], News(m)) <=> Occurs(stream[s], News(m)) \/ m = u
        /\ AtMostOnce(stream[s], News(m)) /\ ~(m = u /\ Occurs(stream[s], News(m)))
             => AtMostOnce(stream'[s], News(m))
    <3>1. stream[s] \in Seq(Job) /\ e \in Job /\ (e \in News(m) <=> m = u)
      BY <1>4, <1>7, <1>8, PlaceTypes
    <3>2. /\ Occurs(Append(stream[s], e), News(m)) <=> Occurs(stream[s], News(m)) \/ e \in News(m)
          /\ AtMostOnce(stream[s], News(m)) /\ ~(e \in News(m) /\ Occurs(stream[s], News(m)))
               => AtMostOnce(Append(stream[s], e), News(m))
      BY <3>1, AppendOnce
    <3> QED
      BY <1>9, <3>1, <3>2
  <2>4. ASSUME m # u PROVE Placed(m)'
    <3>1. \A r \in Side : /\ Occurs(stream'[r], News(m)) <=> Occurs(stream[r], News(m))
                          /\ AtMostOnce(stream[r], News(m)) => AtMostOnce(stream'[r], News(m))
      BY <1>9, <2>3, <2>4
    <3>2. m \in Posted' <=> m \in Posted
      BY <1>6, <2>4
    <3>3. OnePlace(m)'
      BY <1>2, <2>1, <3>1, <3>2 DEF Placed, OnePlace, Coming, Waiting, Queued, Given, Lost, InBuffer
    <3>4. Once(m)' /\ AtHome(m)'
      BY <1>2, <2>1, <3>1 DEF Placed, Once, AtHome, InBuffer
    <3> QED
      BY <3>3, <3>4 DEF Placed
  <2>5. ASSUME m = u PROVE Placed(m)'
    <3>1. /\ ~Coming(m) /\ ~Waiting(m) /\ ~Queued(m) /\ ~Given(m) /\ ~Lost(m)
      BY <1>6, <2>1, <2>5 DEF Placed, OnePlace
    <3>2. ~Occurs(stream[s], News(m)) /\ SideOf(m.chat) = s
      BY <1>8, <2>5, <3>1 DEF Coming
    <3>3. Coming(m)' /\ m \in Posted'
      BY <1>6, <2>3, <2>5, <3>2 DEF Coming
    <3>4. OnePlace(m)'
      BY <1>2, <3>1, <3>3 DEF OnePlace, Waiting, Queued, Given, Lost, InBuffer
    <3>5. Once(m)'
      BY <1>2, <2>1, <2>3, <3>2 DEF Placed, Once, InBuffer
    <3>6. AtHome(m)'
      BY <1>2, <1>9, <2>1, <3>2 DEF Placed, AtHome
    <3> QED
      BY <3>4, <3>5, <3>6 DEF Placed
  <2> QED
    BY <2>4, <2>5
<1> QED
  BY <1>2, <1>10 DEF PlaceInv

\* An event goes from the stream into a buffer or into the queue.
LEMMA PlaceNew ==
  ASSUME TypeInv, AlbumInv, PlaceInv, NEW s \in Side, OnNew(s), UNCHANGED <<posts, log, dropped>>
  PROVE  PlaceInv'
<1> DEFINE e == Head(stream[s])
           it == e.items[1]
           u == it.msg
           k == <<u.chat, it.grp>>
<1>1. /\ stream[s] \in Seq(Job) /\ q[s] \in Seq(Job) /\ stream[s] # <<>>
      /\ e \in Job /\ e.kind = "new" /\ e = stream[s][1] /\ 1 \in DOMAIN stream[s]
      /\ stream' = [stream EXCEPT ![s] = Tail(@)]
  <2>1. stream[s] \in Seq(Job) /\ q[s] \in Seq(Job)
    BY PlaceTypes
  <2> QED
    BY <2>1, HeadTailProperties, EmptySeq, LenProperties DEF OnNew, Arrives, Pop
<1>2. Len(e.items) = 1 /\ it \in Item
  BY <1>1, FirstItem DEF AlbumInv, StreamOK
<1>3. u \in Msg /\ u.chat \in Chat
  BY <1>2, ItemIds
<1>4. \A m : e \in News(m) <=> m = u
  BY <1>1, <1>2, OneItem
<1>5. u \notin sent /\ UNCHANGED sent
  BY DEF PlaceInv, OnNew
<1>6. \/ it.grp # NoGroup /\ Feed(k, it) /\ UNCHANGED q
      \/ Put(s, e) /\ UNCHANGED pending
  BY <1>5 DEF OnNew
<1>7. stream'[s] = Tail(stream[s]) /\ \A r \in Side : r # s => stream'[r] = stream[r]
  BY <1>1, PlaceTypes
<1>8. k \in Key \/ it.grp = NoGroup
  BY <1>2, <1>3 DEF Item, Key
<1> HIDE DEF e, it, u, k
<1>9. ASSUME NEW m \in Msg
      PROVE  /\ m # u => \A r \in Side : /\ Occurs(stream'[r], News(m)) <=> Occurs(stream[r], News(m))
                                         /\ AtMostOnce(stream[r], News(m)) => AtMostOnce(stream'[r], News(m))
             /\ m = u => Coming(m) /\ SideOf(m.chat) = s /\ ~Occurs(stream'[s], News(m))
                         /\ AtMostOnce(stream'[s], News(m))
  <2>1. Placed(m) /\ SideOf(m.chat) \in Side
    BY PlaceTypes DEF PlaceInv
  <2>2. ASSUME AtMostOnce(stream[s], News(m))
        PROVE  /\ AtMostOnce(Tail(stream[s]), News(m))
               /\ m = u => Occurs(stream[s], News(m)) /\ ~Occurs(Tail(stream[s]), News(m))
               /\ m # u => (Occurs(Tail(stream[s]), News(m)) <=> Occurs(stream[s], News(m)))
    BY <1>1, <1>4, <2>2, HeadOut DEF e
  <2>3. CASE SideOf(m.chat) = s
    <3>1. AtMostOnce(stream[s], News(m))
      BY <2>1, <2>3 DEF Placed, Once
    <3> QED
      BY <1>7, <2>2, <2>3, <3>1 DEF Coming
  <2>4. CASE SideOf(m.chat) # s
    <3>1. ~Occurs(stream[s], News(m))
      BY <2>1, <2>4 DEF Placed, AtHome
    <3>2. AtMostOnce(stream[s], News(m))
      BY <3>1 DEF Occurs, AtMostOnce
    <3> QED
      BY <1>7, <2>2, <3>1, <3>2
  <2> QED
    BY <2>3, <2>4
<1>10. CASE it.grp # NoGroup /\ Feed(k, it) /\ UNCHANGED q
  <2>1. k \in Key
    BY <1>8, <1>10
  <2>2. pending \in [Key -> Seq(Item)] /\ pending[k] \in Seq(Item)
    BY <2>1, PlaceTypes
  <2>3. /\ pending'[k] = Append(pending[k], it)
        /\ \A l \in Key : l # k => pending'[l] = pending[l]
    BY <1>10, <2>1, <2>2 DEF Feed
  <2>4. /\ DOMAIN pending[k] = 1..Len(pending[k]) /\ Len(pending[k]) \in Nat
        /\ DOMAIN pending'[k] = 1..(Len(pending[k]) + 1)
        /\ pending'[k][Len(pending[k]) + 1] = it
        /\ \A i \in DOMAIN pending[k] : pending'[k][i] = pending[k][i]
    <3>1. PICK b : b = pending[k]
      OBVIOUS
    <3>2. /\ Len(b) \in Nat /\ DOMAIN b = 1..Len(b)
          /\ DOMAIN Append(b, it) = 1..(Len(b) + 1)
          /\ Append(b, it)[Len(b) + 1] = it
          /\ \A i \in DOMAIN b : Append(b, it)[i] = b[i]
      BY <1>2, <2>2, <3>1, AppendFacts
    <3> QED
      BY <2>3, <3>1, <3>2
  <2>5. ASSUME NEW m, NEW l \in Key
        PROVE  InBuffer(m, l)' <=> InBuffer(m, l) \/ (m = u /\ l = k)
    <3>1. CASE l # k
      BY <2>3, <3>1 DEF InBuffer
    <3>2. CASE l = k
      <4>1. ASSUME NEW i \in DOMAIN pending'[l], pending'[l][i].msg = m
            PROVE  InBuffer(m, l) \/ it.msg = m
        <5>1. i \in DOMAIN pending[k] \/ i = Len(pending[k]) + 1
          BY <2>4, <3>2, <4>1
        <5> QED
          BY <2>4, <3>2, <4>1, <5>1 DEF InBuffer
      <4>2. ASSUME NEW i \in DOMAIN pending[l], pending[l][i].msg = m
            PROVE  InBuffer(m, l)'
        <5>1. i \in DOMAIN pending'[l] /\ pending'[l][i] = pending[l][i]
          BY <2>4, <3>2, <4>2
        <5> QED
          BY <4>2, <5>1 DEF InBuffer
      <4>3. ASSUME it.msg = m PROVE InBuffer(m, l)'
        <5>1. Len(pending[k]) + 1 \in DOMAIN pending'[k]
          BY <2>4
        <5> QED
          BY <2>4, <3>2, <4>3, <5>1 DEF InBuffer
      <4> QED
        BY <3>2, <4>1, <4>2, <4>3 DEF InBuffer, u
    <3> QED
      BY <3>1, <3>2
  <2>6. ASSUME NEW m \in Msg PROVE Placed(m)'
    <3>1. Placed(m) /\ SideOf(m.chat) \in Side
      BY PlaceTypes DEF PlaceInv
    <3>2. CASE m # u
      <4>1. \A l \in Key : InBuffer(m, l)' <=> InBuffer(m, l)
        BY <2>5, <3>2
      <4>2. Waiting(m)' <=> Waiting(m)
        BY <4>1 DEF Waiting
      <4>3. OnePlace(m)'
        BY <1>9, <1>10, <3>1, <3>2, <4>2 DEF Placed, OnePlace, Coming, Queued, Given, Lost, Posted
      <4>4. Once(m)' /\ AtHome(m)'
        BY <1>9, <1>10, <3>1, <3>2, <4>1 DEF Placed, Once, AtHome
      <4> QED
        BY <4>3, <4>4 DEF Placed
    <3>3. CASE m = u
      <4>1. /\ Coming(m) /\ SideOf(m.chat) = s /\ ~Occurs(stream'[s], News(m))
            /\ AtMostOnce(stream'[s], News(m))
        BY <1>9, <3>3
      <4>2. ~Waiting(m) /\ ~Queued(m) /\ ~Given(m) /\ ~Lost(m) /\ m \in Posted
        BY <3>1, <4>1 DEF Placed, OnePlace
      <4>3. \A l \in Key : InBuffer(m, l)' <=> l = k
        BY <2>5, <3>3, <4>2 DEF Waiting
      <4>4. Waiting(m)'
        BY <2>1, <4>3 DEF Waiting
      <4>5. OnePlace(m)'
        BY <1>10, <4>1, <4>2, <4>4 DEF OnePlace, Coming, Queued, Given, Lost, Posted
      <4>6. Once(m)'
        BY <1>10, <3>1, <4>1, <4>3 DEF Placed, Once
      <4>7. AtHome(m)'
        BY <1>7, <1>10, <3>1, <4>1 DEF Placed, AtHome
      <4> QED
        BY <4>5, <4>6, <4>7 DEF Placed
    <3> QED
      BY <3>2, <3>3
  <2> QED
    BY <1>5, <2>6 DEF PlaceInv
<1>11. CASE Put(s, e) /\ UNCHANGED pending
  <2>1. q'[s] = Append(q[s], e) /\ \A r \in Side : r # s => q'[r] = q[r]
    BY <1>11, PlaceTypes DEF Put
  <2>2. ASSUME NEW m \in Msg
        PROVE  /\ Occurs(q'[s], News(m)) <=> Occurs(q[s], News(m)) \/ m = u
               /\ AtMostOnce(q[s], News(m)) /\ ~(m = u /\ Occurs(q[s], News(m)))
                    => AtMostOnce(q'[s], News(m))
    <3>1. e \in News(m) <=> m = u
      BY <1>4
    <3>2. /\ Occurs(Append(q[s], e), News(m)) <=> Occurs(q[s], News(m)) \/ e \in News(m)
          /\ AtMostOnce(q[s], News(m)) /\ ~(e \in News(m) /\ Occurs(q[s], News(m)))
               => AtMostOnce(Append(q[s], e), News(m))
      BY <1>1, AppendOnce
    <3> QED
      BY <2>1, <3>1, <3>2
  <2>3. ASSUME NEW m \in Msg PROVE Placed(m)'
    <3>1. Placed(m) /\ SideOf(m.chat) \in Side
      BY PlaceTypes DEF PlaceInv
    <3>2. CASE m # u
      <4>1. \A r \in Side : /\ Occurs(q'[r], News(m)) <=> Occurs(q[r], News(m))
                            /\ AtMostOnce(q[r], News(m)) => AtMostOnce(q'[r], News(m))
        BY <2>1, <2>2, <3>2
      <4>2. OnePlace(m)'
        BY <1>9, <1>11, <3>1, <3>2, <4>1
           DEF Placed, OnePlace, Coming, Waiting, Queued, Given, Lost, Posted, InBuffer
      <4>3. Once(m)' /\ AtHome(m)'
        BY <1>9, <1>11, <3>1, <3>2, <4>1 DEF Placed, Once, AtHome, InBuffer
      <4> QED
        BY <4>2, <4>3 DEF Placed
    <3>3. CASE m = u
      <4>1. /\ Coming(m) /\ SideOf(m.chat) = s /\ ~Occurs(stream'[s], News(m))
            /\ AtMostOnce(stream'[s], News(m))
        BY <1>9, <3>3
      <4>2. ~Waiting(m) /\ ~Queued(m) /\ ~Given(m) /\ ~Lost(m) /\ m \in Posted
        BY <3>1, <4>1 DEF Placed, OnePlace
      <4>3. Occurs(q'[s], News(m)) /\ AtMostOnce(q'[s], News(m))
        BY <2>2, <3>1, <3>3, <4>1, <4>2 DEF Placed, Once, Queued
      <4>4. OnePlace(m)'
        BY <1>11, <4>1, <4>2, <4>3
           DEF OnePlace, Coming, Waiting, Queued, Given, Lost, Posted, InBuffer
      <4>5. Once(m)'
        BY <1>11, <3>1, <4>1, <4>3 DEF Placed, Once, InBuffer
      <4>6. AtHome(m)'
        BY <1>7, <2>1, <3>1, <4>1 DEF Placed, AtHome
      <4> QED
        BY <4>4, <4>5, <4>6 DEF Placed
    <3> QED
      BY <3>2, <3>3
  <2> QED
    BY <1>5, <2>3 DEF PlaceInv
<1> QED
  BY <1>6, <1>10, <1>11

\* Edits and deletions bring no new message.
LEMMA PlaceOther ==
  ASSUME TypeInv, AlbumInv, PlaceInv, NEW s \in Side, OnEdit(s) \/ OnDelete(s),
         UNCHANGED <<posts, log, dropped>>
  PROVE  PlaceInv'
<1> DEFINE e == Head(stream[s])
<1>1. /\ stream[s] \in Seq(Job) /\ q[s] \in Seq(Job) /\ stream[s] # <<>>
      /\ e \in Job /\ e.kind # "new"
      /\ stream' = [stream EXCEPT ![s] = Tail(@)] /\ UNCHANGED <<pending, sent>>
  <2>1. stream[s] \in Seq(Job) /\ q[s] \in Seq(Job)
    BY PlaceTypes
  <2> QED
    BY <2>1, HeadTailProperties DEF OnEdit, OnDelete, Arrives, Pop, PlaceInv
<1>2. PICK j \in Job : j.kind # "new" /\ (q' = q \/ Put(s, j))
  <2>1. CASE OnEdit(s)
    BY <1>1, <2>1 DEF OnEdit
  <2>2. CASE OnDelete(s)
    <3>1. PICK j : j = [kind |-> "delete", ids |-> e.ids \ ignore]
      OBVIOUS
    <3>2. e.kind = "delete"
      BY <2>2 DEF OnDelete, Arrives
    <3>3. e.ids \subseteq Msg
      BY <1>1, <3>2, JobKinds DEF DeleteJob
    <3>4. j \in Job /\ j.kind # "new"
      BY <3>1, <3>3 DEF Job, DeleteJob
    <3> QED
      BY <2>2, <3>1, <3>4 DEF OnDelete
  <2> QED
    BY <2>1, <2>2
<1>3. /\ stream'[s] = Tail(stream[s]) /\ \A r \in Side : r # s => stream'[r] = stream[r]
      /\ q'[s] \in {q[s], Append(q[s], j)} /\ \A r \in Side : r # s => q'[r] = q[r]
  BY <1>1, <1>2, PlaceTypes DEF Put
<1> HIDE DEF e
<1>4. ASSUME NEW m \in Msg PROVE Placed(m)'
  <2>1. Placed(m) /\ SideOf(m.chat) \in Side /\ e \notin News(m) /\ j \notin News(m)
    BY <1>1, <1>2, PlaceTypes DEF PlaceInv, News
  <2>2. AtMostOnce(stream[s], News(m)) /\ AtMostOnce(q[s], News(m))
    <3>1. CASE SideOf(m.chat) = s
      BY <2>1, <3>1 DEF Placed, Once
    <3>2. CASE SideOf(m.chat) # s
      BY <2>1, <3>2 DEF Placed, AtHome, Occurs, AtMostOnce
    <3> QED
      BY <3>1, <3>2
  <2>3. /\ AtMostOnce(Tail(stream[s]), News(m))
        /\ Occurs(Tail(stream[s]), News(m)) <=> Occurs(stream[s], News(m))
    BY <1>1, <2>1, <2>2, HeadOut DEF e
  <2>4. /\ AtMostOnce(Append(q[s], j), News(m))
        /\ Occurs(Append(q[s], j), News(m)) <=> Occurs(q[s], News(m))
    BY <1>1, <2>1, <2>2, AppendOnce
  <2>5. \A r \in Side : /\ Occurs(stream'[r], News(m)) <=> Occurs(stream[r], News(m))
                        /\ AtMostOnce(stream[r], News(m)) => AtMostOnce(stream'[r], News(m))
                        /\ Occurs(q'[r], News(m)) <=> Occurs(q[r], News(m))
                        /\ AtMostOnce(q[r], News(m)) => AtMostOnce(q'[r], News(m))
    BY <1>3, <2>3, <2>4
  <2>6. OnePlace(m)'
    BY <1>1, <2>1, <2>5 DEF Placed, OnePlace, Coming, Waiting, Queued, Given, Lost, Posted, InBuffer
  <2>7. Once(m)' /\ AtHome(m)'
    BY <1>1, <2>1, <2>5 DEF Placed, Once, AtHome, InBuffer
  <2> QED
    BY <2>6, <2>7 DEF Placed
<1> QED
  BY <1>1, <1>4 DEF PlaceInv

\* An album moves from its buffer into the queue of its side.
LEMMA PlaceFlush ==
  ASSUME TypeInv, AlbumInv, PlaceInv, NEW k \in Key, FlushAlbum(k)
  PROVE  PlaceInv'
<1>1. /\ pending' = [pending EXCEPT ![k] = <<>>]
      /\ UNCHANGED <<stream, log, dropped, posts, sent>>
  BY DEF FlushAlbum, Flush, envVars
<1>2. pending \in [Key -> Seq(Item)] /\ pending[k] \in Seq(Item)
  BY PlaceTypes
<1>3. ASSUME NEW m, NEW l \in Key PROVE InBuffer(m, l)' <=> InBuffer(m, l) /\ l # k
  <2>1. CASE l = k
    <3>1. pending'[l] = <<>>
      BY <1>1, <1>2, <2>1
    <3> QED
      BY <2>1, <3>1 DEF InBuffer
  <2>2. CASE l # k
    BY <1>1, <1>2, <2>2 DEF InBuffer
  <2> QED
    BY <2>1, <2>2
<1>4. \A m \in Msg : Placed(m) /\ SideOf(m.chat) \in Side
  BY PlaceTypes DEF PlaceInv
<1>5. CASE pending[k] = <<>>
  <2>1. UNCHANGED q
    BY <1>5 DEF FlushAlbum, Flush
  <2>2. \A m : ~InBuffer(m, k)
    BY <1>5 DEF InBuffer
  <2>3. ASSUME NEW m \in Msg PROVE Placed(m)'
    <3>1. \A l \in Key : InBuffer(m, l)' <=> InBuffer(m, l)
      BY <1>3, <2>2
    <3>2. Waiting(m)' <=> Waiting(m)
      BY <3>1 DEF Waiting
    <3>3. OnePlace(m)'
      BY <1>1, <1>4, <2>1, <3>2 DEF Placed, OnePlace, Coming, Queued, Given, Lost, Posted
    <3>4. Once(m)' /\ AtHome(m)'
      BY <1>1, <1>4, <2>1, <3>1 DEF Placed, Once, AtHome
    <3> QED
      BY <3>3, <3>4 DEF Placed
  <2> QED
    BY <1>1, <2>3 DEF PlaceInv
<1>6. CASE pending[k] # <<>>
  <2>1. PICK msgs \in SortedById(pending[k]) :
          Put(SideOf(k[1]), [kind |-> "new", items |-> msgs])
    BY <1>6 DEF FlushAlbum, Flush
  <2>2. PICK j : j = [kind |-> "new", items |-> msgs]
    OBVIOUS
  <2>3. PICK s : s = SideOf(k[1])
    OBVIOUS
  <2>4. j \in Job /\ \A m : j \in News(m) <=> InBuffer(m, k)
    BY <1>2, <1>6, <2>2, SortedNews DEF InBuffer
  <2>5. s \in Side /\ q \in [Side -> Seq(Job)]
    BY <2>3, SideOfType, PlaceTypes
  <2>6. q'[s] = Append(q[s], j) /\ \A r \in Side : r # s => q'[r] = q[r]
    BY <2>1, <2>2, <2>3, <2>5 DEF Put
  <2>7. ASSUME NEW m \in Msg PROVE Placed(m)'
    <3>1. /\ Occurs(q'[s], News(m)) <=> Occurs(q[s], News(m)) \/ InBuffer(m, k)
          /\ AtMostOnce(q[s], News(m)) /\ ~(InBuffer(m, k) /\ Occurs(q[s], News(m)))
               => AtMostOnce(q'[s], News(m))
      <4>1. q[s] \in Seq(Job)
        BY <2>5
      <4>2. /\ Occurs(Append(q[s], j), News(m)) <=> Occurs(q[s], News(m)) \/ j \in News(m)
            /\ AtMostOnce(q[s], News(m)) /\ ~(j \in News(m) /\ Occurs(q[s], News(m)))
                 => AtMostOnce(Append(q[s], j), News(m))
        BY <2>4, <4>1, AppendOnce
      <4> QED
        BY <2>4, <2>6, <4>2
    <3>2. CASE ~InBuffer(m, k)
      <4>1. \A l \in Key : InBuffer(m, l)' <=> InBuffer(m, l)
        BY <1>3, <3>2
      <4>2. Waiting(m)' <=> Waiting(m)
        BY <4>1 DEF Waiting
      <4>3. \A r \in Side : /\ Occurs(q'[r], News(m)) <=> Occurs(q[r], News(m))
                            /\ AtMostOnce(q[r], News(m)) => AtMostOnce(q'[r], News(m))
        BY <2>6, <3>1, <3>2
      <4>4. OnePlace(m)'
        BY <1>1, <1>4, <4>2, <4>3 DEF Placed, OnePlace, Coming, Queued, Given, Lost, Posted
      <4>5. Once(m)' /\ AtHome(m)'
        BY <1>1, <1>4, <4>1, <4>3 DEF Placed, Once, AtHome
      <4> QED
        BY <4>4, <4>5 DEF Placed
    <3>3. CASE InBuffer(m, k)
      <4>1. SideOf(m.chat) = s
        <5>1. BufferOK(k, pending[k], posts)
          BY DEF AlbumInv
        <5> QED
          BY <2>3, <3>3, <5>1 DEF BufferOK, InBuffer
      <4>2. Waiting(m)
        BY <3>3 DEF Waiting
      <4>3. ~Coming(m) /\ ~Queued(m) /\ ~Given(m) /\ ~Lost(m) /\ m \in Posted
        BY <1>4, <4>2 DEF Placed, OnePlace
      <4>4. \A l \in Key : ~InBuffer(m, l)'
        BY <1>3, <1>4, <3>3 DEF Placed, Once
      <4>5. ~Waiting(m)'
        BY <4>4 DEF Waiting
      <4>6. Occurs(q'[s], News(m)) /\ AtMostOnce(q'[s], News(m))
        BY <1>4, <3>1, <3>3, <4>1, <4>3 DEF Placed, Once, Queued
      <4>7. OnePlace(m)'
        BY <1>1, <4>1, <4>3, <4>5, <4>6 DEF OnePlace, Coming, Queued, Given, Lost, Posted
      <4>8. Once(m)'
        BY <1>1, <1>4, <4>1, <4>4, <4>6 DEF Placed, Once
      <4>9. AtHome(m)'
        BY <1>1, <1>4, <2>6, <4>1 DEF Placed, AtHome
      <4> QED
        BY <4>7, <4>8, <4>9 DEF Placed
    <3> QED
      BY <3>2, <3>3
  <2> QED
    BY <1>1, <2>7 DEF PlaceInv
<1> QED
  BY <1>5, <1>6

\* What a worker takes from its queue is of its side, and leaves the queue.
LEMMA PlaceTaken ==
  ASSUME TypeInv, AlbumInv, PlaceInv, NEW s \in Side, Dequeue(s), NEW m \in Msg
  PROVE  /\ Head(q[s]) \in Job
         /\ \A r \in Side : r # s => q'[r] = q[r]
         /\ AtMostOnce(q'[s], News(m))
         /\ Head(q[s]) \notin News(m) => (Occurs(q'[s], News(m)) <=> Occurs(q[s], News(m)))
         /\ Head(q[s]) \in News(m) =>
              SideOf(m.chat) = s /\ Occurs(q[s], News(m)) /\ ~Occurs(q'[s], News(m))
<1>1. /\ q \in [Side -> Seq(Job)] /\ q[s] \in Seq(Job) /\ q[s] # <<>>
      /\ q' = [q EXCEPT ![s] = Tail(@)]
  BY PlaceTypes DEF Dequeue
<1>2. Head(q[s]) \in Job
  BY <1>1, HeadTailProperties
<1>3. q'[s] = Tail(q[s]) /\ \A r \in Side : r # s => q'[r] = q[r]
  BY <1>1
<1>4. Placed(m)
  BY DEF PlaceInv
<1>5. AtMostOnce(q[s], News(m))
  <2>1. CASE SideOf(m.chat) = s
    BY <1>4, <2>1 DEF Placed, Once
  <2>2. CASE SideOf(m.chat) # s
    BY <1>4, <2>2 DEF Placed, AtHome, Occurs, AtMostOnce
  <2> QED
    BY <2>1, <2>2
<1>6. /\ AtMostOnce(Tail(q[s]), News(m))
      /\ Head(q[s]) \in News(m) => Occurs(q[s], News(m)) /\ ~Occurs(Tail(q[s]), News(m))
      /\ Head(q[s]) \notin News(m) =>
           (Occurs(Tail(q[s]), News(m)) <=> Occurs(q[s], News(m)))
  BY <1>1, <1>5, HeadOut
<1>7. Occurs(q[s], News(m)) => SideOf(m.chat) = s
  BY <1>4 DEF Placed, AtHome
<1> QED
  BY <1>2, <1>3, <1>6, <1>7

\* A worker hands the oldest job to its handler.
LEMMA PlaceHandle ==
  ASSUME TypeInv, AlbumInv, PlaceInv, NEW s \in Side, Handle(s)
  PROVE  PlaceInv'
<1>1. /\ Dequeue(s) /\ log' = [log EXCEPT ![s] = Append(@, Head(q[s]))]
      /\ UNCHANGED <<stream, pending, dropped, posts, sent>>
  BY DEF Handle, Take, envVars
<1>2. PICK j : j = Head(q[s])
  OBVIOUS
<1>3. log'[s] = Append(log[s], j) /\ \A r \in Side : r # s => log'[r] = log[r]
  BY <1>1, <1>2, PlaceTypes
<1>4. ASSUME NEW m \in Msg PROVE Placed(m)'
  <2>1. Placed(m) /\ SideOf(m.chat) \in Side
    BY PlaceTypes DEF PlaceInv
  <2>2. /\ j \in Job
        /\ \A r \in Side : r # s => q'[r] = q[r]
        /\ AtMostOnce(q'[s], News(m))
        /\ j \notin News(m) => (Occurs(q'[s], News(m)) <=> Occurs(q[s], News(m)))
        /\ j \in News(m) =>
             SideOf(m.chat) = s /\ Occurs(q[s], News(m)) /\ ~Occurs(q'[s], News(m))
    BY <1>1, <1>2, PlaceTaken
  <2>3. /\ Occurs(log'[s], News(m)) <=> Occurs(log[s], News(m)) \/ j \in News(m)
        /\ AtMostOnce(log[s], News(m)) /\ ~(j \in News(m) /\ Occurs(log[s], News(m)))
             => AtMostOnce(log'[s], News(m))
    <3>1. log[s] \in Seq(Job)
      BY PlaceTypes
    <3>2. /\ Occurs(Append(log[s], j), News(m)) <=> Occurs(log[s], News(m)) \/ j \in News(m)
          /\ AtMostOnce(log[s], News(m)) /\ ~(j \in News(m) /\ Occurs(log[s], News(m)))
               => AtMostOnce(Append(log[s], j), News(m))
      BY <2>2, <3>1, AppendOnce
    <3> QED
      BY <1>3, <3>2
  <2>4. CASE j \notin News(m)
    <3>1. \A r \in Side : /\ Occurs(q'[r], News(m)) <=> Occurs(q[r], News(m))
                          /\ AtMostOnce(q[r], News(m)) => AtMostOnce(q'[r], News(m))
                          /\ Occurs(log'[r], News(m)) <=> Occurs(log[r], News(m))
                          /\ AtMostOnce(log[r], News(m)) => AtMostOnce(log'[r], News(m))
      BY <1>3, <2>2, <2>3, <2>4
    <3>2. OnePlace(m)'
      BY <1>1, <2>1, <3>1
         DEF Placed, OnePlace, Coming, Waiting, Queued, Given, Lost, Posted, InBuffer
    <3>3. Once(m)' /\ AtHome(m)'
      BY <1>1, <2>1, <3>1 DEF Placed, Once, AtHome, InBuffer
    <3> QED
      BY <3>2, <3>3 DEF Placed
  <2>5. CASE j \in News(m)
    <3>1. SideOf(m.chat) = s /\ Queued(m) /\ ~Occurs(q'[s], News(m))
      BY <2>2, <2>5 DEF Queued
    <3>2. ~Coming(m) /\ ~Waiting(m) /\ ~Given(m) /\ ~Lost(m) /\ m \in Posted
      BY <2>1, <3>1 DEF Placed, OnePlace
    <3>3. Occurs(log'[s], News(m)) /\ AtMostOnce(log'[s], News(m))
      BY <2>1, <2>3, <2>5, <3>1, <3>2 DEF Placed, Once, Given
    <3>4. OnePlace(m)'
      BY <1>1, <3>1, <3>2, <3>3
         DEF OnePlace, Coming, Waiting, Queued, Given, Lost, Posted, InBuffer
    <3>5. Once(m)'
      BY <1>1, <2>1, <2>2, <3>1, <3>3 DEF Placed, Once, InBuffer
    <3>6. AtHome(m)'
      BY <1>1, <2>1, <2>2, <3>1 DEF Placed, AtHome
    <3> QED
      BY <3>4, <3>5, <3>6 DEF Placed
  <2> QED
    BY <2>4, <2>5
<1> QED
  BY <1>1, <1>4 DEF PlaceInv

\* A paused worker drops the oldest job: its new messages are lost, no other is.
LEMMA PlaceSkip ==
  ASSUME TypeInv, AlbumInv, PlaceInv, NEW s \in Side, Skip(s)
  PROVE  PlaceInv'
<1>1. Dequeue(s) /\ UNCHANGED <<stream, pending, log, posts, sent>>
  BY DEF Skip, Drop, envVars
<1>2. PICK j : j = Head(q[s])
  OBVIOUS
<1>3. ASSUME NEW m PROVE m \in dropped' <=> m \in dropped \/ j \in News(m)
  <2>1. j \in Job
    BY <1>1, <1>2, PlaceTypes, HeadTailProperties DEF Dequeue
  <2>2. dropped' = IF j.kind = "new" THEN dropped \cup MsgsOf(j) ELSE dropped
    BY <1>2 DEF Skip
  <2>3. j \in News(m) <=> j.kind = "new" /\ m \in MsgsOf(j)
    BY <2>1 DEF News
  <2> QED
    BY <2>2, <2>3
<1>4. ASSUME NEW m \in Msg PROVE Placed(m)'
  <2>1. Placed(m) /\ SideOf(m.chat) \in Side
    BY PlaceTypes DEF PlaceInv
  <2>2. /\ j \in Job
        /\ \A r \in Side : r # s => q'[r] = q[r]
        /\ AtMostOnce(q'[s], News(m))
        /\ j \notin News(m) => (Occurs(q'[s], News(m)) <=> Occurs(q[s], News(m)))
        /\ j \in News(m) =>
             SideOf(m.chat) = s /\ Occurs(q[s], News(m)) /\ ~Occurs(q'[s], News(m))
    BY <1>1, <1>2, PlaceTaken
  <2>3. Lost(m)' <=> Lost(m) \/ j \in News(m)
    BY <1>3 DEF Lost
  <2>4. CASE j \notin News(m)
    <3>1. \A r \in Side : /\ Occurs(q'[r], News(m)) <=> Occurs(q[r], News(m))
                          /\ AtMostOnce(q[r], News(m)) => AtMostOnce(q'[r], News(m))
      BY <2>2, <2>4
    <3>2. OnePlace(m)'
      BY <1>1, <2>1, <2>3, <2>4, <3>1
         DEF Placed, OnePlace, Coming, Waiting, Queued, Given, Posted, InBuffer
    <3>3. Once(m)' /\ AtHome(m)'
      BY <1>1, <2>1, <3>1 DEF Placed, Once, AtHome, InBuffer
    <3> QED
      BY <3>2, <3>3 DEF Placed
  <2>5. CASE j \in News(m)
    <3>1. SideOf(m.chat) = s /\ Queued(m) /\ ~Occurs(q'[s], News(m))
      BY <2>2, <2>5 DEF Queued
    <3>2. ~Coming(m) /\ ~Waiting(m) /\ ~Given(m) /\ m \in Posted
      BY <2>1, <3>1 DEF Placed, OnePlace
    <3>3. OnePlace(m)'
      BY <1>1, <2>3, <2>5, <3>1, <3>2
         DEF OnePlace, Coming, Waiting, Queued, Given, Posted, InBuffer
    <3>4. Once(m)'
      BY <1>1, <2>1, <2>2, <3>1 DEF Placed, Once, InBuffer
    <3>5. AtHome(m)'
      BY <1>1, <2>1, <2>2, <3>1 DEF Placed, AtHome
    <3> QED
      BY <3>3, <3>4, <3>5 DEF Placed
  <2> QED
    BY <2>4, <2>5
<1> QED
  BY <1>1, <1>4 DEF PlaceInv

\* The new messages of a sequence are those it has a job for.
LEMMA NewOccurs ==
  ASSUME NEW st \in Seq(Job), NEW m
  PROVE  m \in NewIn(st) <=> Occurs(st, News(m))
<1>1. \A i \in DOMAIN st : st[i] \in Job
  OBVIOUS
<1>2. ASSUME NEW i \in DOMAIN st
      PROVE  m \in (IF st[i].kind = "new" THEN MsgsOf(st[i]) ELSE {}) <=> st[i] \in News(m)
  BY <1>1 DEF News
<1>3. m \in NewIn(st) <=>
        \E i \in DOMAIN st : m \in (IF st[i].kind = "new" THEN MsgsOf(st[i]) ELSE {})
  BY DEF NewIn
<1> QED
  BY <1>2, <1>3 DEF Occurs

\* A restart loses what was buffered or queued, and what no platform sends again.
LEMMA PlaceCrash ==
  ASSUME TypeInv, AlbumInv, PlaceInv, Crash
  PROVE  PlaceInv'
<1>1. /\ \A s \in Side : stream'[s] \in {stream[s], <<>>} /\ q'[s] = <<>>
      /\ \A k \in Key : pending'[k] = <<>>
      /\ UNCHANGED <<posts, log, sent>>
  BY DEF Crash, Restart
<1>2. /\ \A s \in Side : stream[s] \in Seq(Job) /\ q[s] \in Seq(Job)
      /\ \A m : SideOf(m.chat) \in Side
  BY PlaceTypes
<1>3. \A s \in Side : stream'[s] \in Seq(Job)
  BY <1>2 DEF Crash, Restart
<1>4. ASSUME NEW m \in Msg PROVE Placed(m)'
  <2>1. Placed(m) /\ SideOf(m.chat) \in Side
    BY <1>2 DEF PlaceInv
  <2>2. m \in Buffered <=> Waiting(m)
    <3>1. m \in Buffered <=> \E k \in Key : m \in { pending[k][i].msg : i \in DOMAIN pending[k] }
      BY DEF Buffered
    <3> QED
      BY <3>1 DEF Waiting, InBuffer
  <2>3. m \in UNION { NewIn(q[s]) : s \in Side } <=> Queued(m)
    <3>1. m \in UNION { NewIn(q[s]) : s \in Side } <=> \E s \in Side : m \in NewIn(q[s])
      OBVIOUS
    <3>2. \A s \in Side : m \in NewIn(q[s]) <=> Occurs(q[s], News(m))
      BY <1>2, NewOccurs
    <3> QED
      BY <2>1, <3>1, <3>2 DEF Placed, AtHome, Queued
  <2>4. /\ m \in UNION { NewIn(stream[s]) \ NewIn(stream'[s]) : s \in Side }
             <=> Coming(m) /\ ~Coming(m)'
    <3>1. m \in UNION { NewIn(stream[s]) \ NewIn(stream'[s]) : s \in Side }
            <=> \E s \in Side : m \in NewIn(stream[s]) /\ m \notin NewIn(stream'[s])
      OBVIOUS
    <3>2. \A s \in Side : m \in NewIn(stream[s]) <=> Occurs(stream[s], News(m))
      BY <1>2, NewOccurs
    <3>3. \A s \in Side : m \in NewIn(stream'[s]) <=> Occurs(stream'[s], News(m))
      BY <1>3, NewOccurs
    <3>4. Occurs(stream'[SideOf(m.chat)], News(m)) <=> Coming(m)'
      BY DEF Coming
    <3> QED
      BY <2>1, <3>1, <3>2, <3>3, <3>4 DEF Placed, AtHome, Coming
  <2>5. m \in dropped' <=> Lost(m) \/ Waiting(m) \/ Queued(m) \/ (Coming(m) /\ ~Coming(m)')
    <3> DEFINE Q == UNION { NewIn(q[s]) : s \in Side }
               S == UNION { NewIn(stream[s]) \ NewIn(stream'[s]) : s \in Side }
    <3>1. dropped' = dropped \cup Buffered \cup Q \cup S
      BY DEF Crash
    <3>2. (m \in Q <=> Queued(m)) /\ (m \in S <=> Coming(m) /\ ~Coming(m)')
      BY <2>3, <2>4
    <3> HIDE DEF Q, S
    <3> QED
      BY <2>2, <3>1, <3>2 DEF Lost
  <2>6. \A s \in Side : /\ ~Occurs(q'[s], News(m)) /\ AtMostOnce(q'[s], News(m))
                        /\ Occurs(stream'[s], News(m)) => Occurs(stream[s], News(m))
                        /\ AtMostOnce(stream[s], News(m)) => AtMostOnce(stream'[s], News(m))
    BY <1>1, NoneInEmpty
  <2>7. \A k \in Key : ~InBuffer(m, k)'
    BY <1>1 DEF InBuffer
  <2>8. OnePlace(m)'
    <3>1. ~Waiting(m)' /\ ~Queued(m)' /\ (Coming(m)' => Coming(m))
      BY <2>1, <2>6, <2>7 DEF Waiting, Queued, Coming
    <3>2. (Given(m)' <=> Given(m)) /\ (m \in Posted' <=> m \in Posted)
      BY <1>1 DEF Given, Posted
    <3>3. Lost(m)' <=> Lost(m) \/ Waiting(m) \/ Queued(m) \/ (Coming(m) /\ ~Coming(m)')
      BY <2>5 DEF Lost
    <3>4. OnePlace(m)
      BY <2>1 DEF Placed
    <3> QED
      BY <3>1, <3>2, <3>3, <3>4 DEF OnePlace
  <2>9. Once(m)'
    BY <1>1, <2>1, <2>6, <2>7 DEF Placed, Once
  <2>10. AtHome(m)'
    BY <2>1, <2>6 DEF Placed, AtHome
  <2> QED
    BY <2>8, <2>9, <2>10 DEF Placed
<1> QED
  BY <1>1, <1>4 DEF PlaceInv

\* Every step keeps each message in its one place.
LEMMA StepPlace == TypeInv /\ AlbumInv /\ PlaceInv /\ [Next]_vars => PlaceInv'
<1> SUFFICES ASSUME TypeInv, AlbumInv, PlaceInv, [Next]_vars PROVE PlaceInv'
  OBVIOUS
<1>1. ASSUME NEW m \in Msg, NEW t \in Text, Edit(m, t)
      PROVE  PlaceInv'
  <2> DEFINE e == [kind |-> "edit", items |-> <<ItemOf(m, t)>>]
  <2>1. e \in Job /\ e.kind # "new"
    BY <1>1, PostedItem, EventIsJob DEF Edit, TypeInv
  <2> QED
    BY <1>1, <2>1, SideOfType, PlaceEmit DEF Edit
<1>2. ASSUME NEW c \in Chat, NEW ids \in SUBSET Msg, Delete(c, ids)
      PROVE  PlaceInv'
  <2> DEFINE e == [kind |-> "delete", ids |-> ids]
  <2>1. e \in Job /\ e.kind # "new"
    BY DEF Job, DeleteJob
  <2> QED
    BY <1>2, <2>1, SideOfType, PlaceEmit DEF Delete
<1>3. ASSUME NEW s \in Side, Intake(s) PROVE PlaceInv'
  BY <1>3, PlaceNew, PlaceOther DEF Intake, envVars
<1>4. ASSUME NEW s \in Side, Finish(s) PROVE PlaceInv'
  BY <1>4, PlaceStill DEF Finish, Done, envVars
<1>5. ASSUME NEW b \in BOOLEAN, Pause(b) PROVE PlaceInv'
  BY <1>5, PlaceStill DEF Pause, SetPaused
<1>6. CASE UNCHANGED vars
  BY <1>6, PlaceStill DEF vars, queueVars, envVars
<1> QED
  BY <1>1, <1>2, <1>3, <1>4, <1>5, <1>6, PlacePost, PlaceFlush, PlaceHandle, PlaceSkip,
     PlaceCrash DEF Next

\* At the start nothing is posted, and nothing is anywhere.
LEMMA InitPlace == Init => PlaceInv
<1> SUFFICES ASSUME Init PROVE PlaceInv
  OBVIOUS
<1>1. /\ sent = {} /\ dropped = {}
      /\ \A s \in Side : stream[s] = <<>> /\ q[s] = <<>> /\ log[s] = <<>>
      /\ \A k \in Key : pending[k] = <<>>
      /\ \A c \in Chat : posts[c] = <<>>
  BY DEF Init, QueueInit
<1>2. ASSUME NEW m \in Msg PROVE Placed(m)
  <2>1. SideOf(m.chat) \in Side
    BY SideOfType
  <2>2. m \notin Posted
    <3>1. m.chat \in Chat /\ m.id \in 1..MaxId
      BY DEF Msg
    <3>2. Len(posts[m.chat]) = 0
      BY <1>1, <3>1
    <3> QED
      BY <3>1, <3>2 DEF Posted
  <2>3. \A k \in Key : ~InBuffer(m, k)
    BY <1>1 DEF InBuffer
  <2>4. OnePlace(m)
    BY <1>1, <2>1, <2>2, <2>3, NoneInEmpty DEF OnePlace, Coming, Waiting, Queued, Given, Lost
  <2>5. Once(m) /\ AtHome(m)
    BY <1>1, <2>1, <2>3, NoneInEmpty DEF Once, AtHome
  <2> QED
    BY <2>4, <2>5 DEF Placed
<1> QED
  BY <1>1, <1>2 DEF PlaceInv

-----------------------------------------------------------------------------
(* Counting *)

\* Items in the order of their ids are no more than there are ids.
LEMMA IndexFits ==
  ASSUME NEW b \in Seq(Item), \A i, j \in DOMAIN b : i < j => b[i].msg.id < b[j].msg.id
  PROVE  DOMAIN b \subseteq 1..MaxId
<1>1. /\ Len(b) \in Nat /\ DOMAIN b = 1..Len(b) /\ MaxId \in Nat
      /\ \A i \in DOMAIN b : b[i] \in Item
  BY MaxIdAssumption
<1>2. \A i \in DOMAIN b : b[i].msg.id \in 1..MaxId
  BY <1>1 DEF Item, Msg
<1> DEFINE f == [i \in 1..Len(b) |-> b[i].msg.id]
<1>3. f \in [1..Len(b) -> 1..MaxId] /\ \A i \in 1..Len(b) : f[i] = b[i].msg.id
  BY <1>1, <1>2
<1>4. ASSUME NEW i \in 1..Len(b), NEW j \in 1..Len(b), f[i] = f[j]
      PROVE  i = j
  <2>1. f[i] \in Nat /\ f[j] \in Nat
    BY <1>1, <1>3
  <2>2. ~(i < j) /\ ~(j < i)
    BY <1>1, <1>3, <1>4, <2>1
  <2> QED
    BY <1>1, <2>2
<1> HIDE DEF f
<1>5. f \in Injection(1..Len(b), 1..MaxId)
  BY <1>3, <1>4 DEF Injection, IsInjective
<1>6. /\ IsFiniteSet(1..MaxId) /\ Cardinality(1..MaxId) = MaxId
      /\ Cardinality(1..Len(b)) = Len(b)
  <2>1. ASSUME NEW n \in Nat PROVE IsFiniteSet(1..n) /\ Cardinality(1..n) = n
    <3>1. 1 \in Int /\ n \in Int
      OBVIOUS
    <3>2. IsFiniteSet(1..n) /\ Cardinality(1..n) = IF 1 > n THEN 0 ELSE n - 1 + 1
      BY <3>1, FS_Interval
    <3> QED
      BY <3>2
  <2> QED
    BY <1>1, <2>1
<1>7. Len(b) <= MaxId
  BY <1>5, <1>6, FS_Injection
<1> QED
  BY <1>1, <1>7

\* In jobs in order, a message that comes with at most one job is there once.
LEMMA TallyOne ==
  ASSUME NEW seq \in Seq(Job), AllSorted(seq), NEW m, AtMostOnce(seq, News(m))
  PROVE  TimesNew(m, seq) = IF Occurs(seq, News(m)) THEN 1 ELSE 0
<1> DEFINE T == { x \in (DOMAIN seq) \X (1..MaxId) :
                    /\ seq[x[1]].kind = "new"
                    /\ x[2] \in DOMAIN seq[x[1]].items
                    /\ seq[x[1]].items[x[2]].msg = m }
<1>1. TimesNew(m, seq) = Cardinality(T)
  BY DEF TimesNew
<1>2. ASSUME NEW i \in DOMAIN seq
      PROVE  seq[i] \in News(m) <=>
               seq[i].kind = "new" /\ \E n \in DOMAIN seq[i].items : seq[i].items[n].msg = m
  <2>1. PICK j \in Job : j = seq[i]
    OBVIOUS
  <2>2. j \in News(m) <=> j.kind = "new" /\ \E n \in DOMAIN j.items : j.items[n].msg = m
    <3>1. CASE j.kind = "new"
      <4>1. MsgsOf(j) = { j.items[n].msg : n \in DOMAIN j.items }
        BY <3>1 DEF MsgsOf
      <4> QED
        BY <3>1, <4>1 DEF News
    <3>2. CASE j.kind # "new"
      BY <3>2 DEF News
    <3> QED
      BY <3>1, <3>2
  <2> QED
    BY <2>1, <2>2
<1>3. ASSUME NEW i \in DOMAIN seq, seq[i].kind = "new"
      PROVE  /\ DOMAIN seq[i].items \subseteq 1..MaxId
             /\ \A n, o \in DOMAIN seq[i].items : seq[i].items[n].msg = seq[i].items[o].msg => n = o
  <2>1. PICK j \in Job : j = seq[i]
    OBVIOUS
  <2>2. PICK b \in Seq(Item) : b = j.items
    BY <1>3, <2>1, FirstItem DEF ContentJob
  <2>3. \A n, o \in DOMAIN b : n < o => b[n].msg.id < b[o].msg.id
    BY <1>3, <2>1, <2>2 DEF AllSorted, JobSorted
  <2>4. DOMAIN b \subseteq 1..MaxId
    BY <2>3, IndexFits
  <2>5. ASSUME NEW n \in DOMAIN b, NEW o \in DOMAIN b, b[n].msg = b[o].msg PROVE n = o
    <3>1. DOMAIN b = 1..Len(b) /\ Len(b) \in Nat /\ b[n] \in Item /\ b[o] \in Item
      OBVIOUS
    <3>2. b[n].msg.id \in Nat /\ b[n].msg.id = b[o].msg.id
      BY <2>5, <3>1, ItemIds
    <3>3. ~(n < o) /\ ~(o < n)
      BY <2>3, <3>2
    <3> QED
      BY <3>1, <3>3
  <2> QED
    BY <2>1, <2>2, <2>4, <2>5
<1>4. CASE ~Occurs(seq, News(m))
  <2>1. T = {}
    BY <1>2, <1>4 DEF Occurs
  <2> QED
    BY <1>1, <1>4, <2>1, FS_EmptySet
<1>5. CASE Occurs(seq, News(m))
  <2>1. PICK i \in DOMAIN seq : seq[i] \in News(m)
    BY <1>5 DEF Occurs
  <2>2. PICK n \in DOMAIN seq[i].items : seq[i].items[n].msg = m /\ seq[i].kind = "new"
    BY <1>2, <2>1
  <2>3. <<i, n>> \in T
    BY <1>3, <2>1, <2>2
  <2>4. ASSUME NEW x \in T PROVE x = <<i, n>>
    <3>1. /\ x = <<x[1], x[2]>> /\ x[1] \in DOMAIN seq
          /\ seq[x[1]].kind = "new" /\ x[2] \in DOMAIN seq[x[1]].items
          /\ seq[x[1]].items[x[2]].msg = m
      BY <2>4
    <3>2. seq[x[1]] \in News(m)
      BY <1>2, <3>1
    <3>3. x[1] = i
      BY <2>1, <3>1, <3>2 DEF AtMostOnce
    <3>4. x[2] = n
      BY <1>3, <2>2, <3>1, <3>3
    <3> QED
      BY <3>1, <3>3, <3>4
  <2>5. T = {<<i, n>>}
    BY <2>3, <2>4
  <2> QED
    BY <1>1, <1>5, <2>5, FS_Singleton
<1> QED
  BY <1>4, <1>5

\* The same for the album buffers.
LEMMA TallyBuffers ==
  ASSUME TypeInv, AlbumInv, NEW m, \A k, l \in Key : InBuffer(m, k) /\ InBuffer(m, l) => k = l
  PROVE  TimesBuffered(m) = IF Waiting(m) THEN 1 ELSE 0
<1> DEFINE T == { x \in Key \X (1..MaxId) :
                    x[2] \in DOMAIN pending[x[1]] /\ pending[x[1]][x[2]].msg = m }
<1>1. TimesBuffered(m) = Cardinality(T)
  BY DEF TimesBuffered
<1>2. ASSUME NEW k \in Key
      PROVE  /\ DOMAIN pending[k] \subseteq 1..MaxId
             /\ \A n, o \in DOMAIN pending[k] : pending[k][n].msg = pending[k][o].msg => n = o
  <2>1. PICK b \in Seq(Item) : b = pending[k]
    BY PlaceTypes
  <2>2. \A n, o \in DOMAIN b : n < o => b[n].msg.id < b[o].msg.id
    BY <2>1 DEF AlbumInv, BufferOK
  <2>3. DOMAIN b \subseteq 1..MaxId
    BY <2>2, IndexFits
  <2>4. ASSUME NEW n \in DOMAIN b, NEW o \in DOMAIN b, b[n].msg = b[o].msg PROVE n = o
    <3>1. DOMAIN b = 1..Len(b) /\ Len(b) \in Nat /\ b[n] \in Item /\ b[o] \in Item
      OBVIOUS
    <3>2. b[n].msg.id \in Nat /\ b[n].msg.id = b[o].msg.id
      BY <2>4, <3>1, ItemIds
    <3>3. ~(n < o) /\ ~(o < n)
      BY <2>2, <3>2
    <3> QED
      BY <3>1, <3>3
  <2> QED
    BY <2>1, <2>3, <2>4
<1>3. CASE ~Waiting(m)
  <2>1. T = {}
    BY <1>3 DEF Waiting, InBuffer
  <2> QED
    BY <1>1, <1>3, <2>1, FS_EmptySet
<1>4. CASE Waiting(m)
  <2>1. PICK k \in Key : InBuffer(m, k)
    BY <1>4 DEF Waiting
  <2>2. PICK n \in DOMAIN pending[k] : pending[k][n].msg = m
    BY <2>1 DEF InBuffer
  <2>3. <<k, n>> \in T
    BY <1>2, <2>2
  <2>4. ASSUME NEW x \in T PROVE x = <<k, n>>
    <3>1. /\ x = <<x[1], x[2]>> /\ x[1] \in Key
          /\ x[2] \in DOMAIN pending[x[1]] /\ pending[x[1]][x[2]].msg = m
      BY <2>4
    <3>2. x[1] = k
      BY <2>1, <3>1 DEF InBuffer
    <3>3. x[2] = n
      BY <1>2, <2>2, <3>1, <3>2
    <3> QED
      BY <3>1, <3>2, <3>3
  <2>5. T = {<<k, n>>}
    BY <2>3, <2>4
  <2> QED
    BY <1>1, <1>4, <2>5, FS_Singleton
<1> QED
  BY <1>3, <1>4

\* A posted message is in exactly one place: in its platform's stream, in an album
\* buffer, in one job of a queue, in one job a handler got, or dropped by a pause or a
\* restart (feed, flush, the entry points and the worker loop together).
THEOREM EachAccountedFor == Spec => []AccountedOnce
<1>1. TypeInv /\ AlbumInv /\ PlaceInv => AccountedOnce
  <2> SUFFICES ASSUME TypeInv, AlbumInv, PlaceInv, NEW m \in Posted
               PROVE  LET s == SideOf(m.chat)
                      IN  TimesNew(m, stream[s]) + TimesBuffered(m) + TimesNew(m, q[s])
                          + TimesNew(m, log[s]) + (IF m \in dropped THEN 1 ELSE 0) = 1
    BY DEF AccountedOnce
  <2>1. PICK s \in Side : s = SideOf(m.chat)
    BY PlaceTypes
  <2>2. stream[s] \in Seq(Job) /\ q[s] \in Seq(Job) /\ log[s] \in Seq(Job)
    BY PlaceTypes
  <2>3. OnePlace(m) /\ Once(m)
    BY DEF PlaceInv, Placed, Posted
  <2>4. AllSorted(q[s]) /\ AllSorted(log[s])
    BY DEF AlbumInv
  <2>5. AllSorted(stream[s])
    <3>1. ASSUME NEW i \in DOMAIN stream[s], stream[s][i].kind = "new"
          PROVE  DOMAIN stream[s][i].items \subseteq {1}
      <4>1. PICK j \in Job : j = stream[s][i]
        BY <2>2
      <4>2. Len(j.items) = 1 /\ j.items \in Seq(Item)
        BY <3>1, <4>1, FirstItem DEF AlbumInv, StreamOK, ContentJob
      <4> QED
        BY <4>1, <4>2
    <3> QED
      BY <3>1, OneIsSorted DEF AllSorted
  <2>6. /\ TimesNew(m, stream[s]) = IF Coming(m) THEN 1 ELSE 0
        /\ TimesNew(m, q[s]) = IF Queued(m) THEN 1 ELSE 0
        /\ TimesNew(m, log[s]) = IF Given(m) THEN 1 ELSE 0
    BY <2>1, <2>2, <2>3, <2>4, <2>5, TallyOne DEF Once, Coming, Queued, Given
  <2>7. TimesBuffered(m) = IF Waiting(m) THEN 1 ELSE 0
    BY <2>3, TallyBuffers DEF Once
  <2>8. /\ Coming(m) \/ Waiting(m) \/ Queued(m) \/ Given(m) \/ m \in dropped
        /\ Coming(m) => ~Waiting(m) /\ ~Queued(m) /\ ~Given(m) /\ m \notin dropped
        /\ Waiting(m) => ~Queued(m) /\ ~Given(m) /\ m \notin dropped
        /\ Queued(m) => ~Given(m) /\ m \notin dropped
        /\ Given(m) => m \notin dropped
    BY <2>3 DEF OnePlace, Lost
  <2> QED
    BY <2>1, <2>6, <2>7, <2>8
<1> QED
  BY <1>1, InitPlace, StepPlace, TypeCorrect, AlbumsInOrder, PTL DEF Spec
=============================================================================
