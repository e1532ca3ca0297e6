---------------------------- MODULE QueueProofs -----------------------------
(***************************************************************************)
(* Lemmas about the actions of QueueEngine that the proofs about Delivery  *)
(* and about Bridge share: what an entry point, a worker and a restart do  *)
(* to the types of the queues, buffers and jobs.                           *)
(***************************************************************************)
EXTENDS QueueEngine, SequenceTheorems, TLAPS

-----------------------------------------------------------------------------
(* Jobs *)

\* A content job is a job, and it has a first item.
LEMMA FirstItem ==
  ASSUME NEW j \in Job, j.kind \in {"new", "edit"}
  PROVE  j \in ContentJob /\ j.items[1] \in Item
<1>1. j \in ContentJob
  BY DEF Job, DeleteJob
<1>2. j.items \in Seq(Item) /\ j.items # <<>>
  BY <1>1 DEF ContentJob
<1>3. Len(j.items) \in Nat \ {0}
  BY <1>2, EmptySeq, LenProperties
<1> QED
  BY <1>1, <1>2, <1>3

\* An event about one message is a job.
LEMMA EventIsJob ==
  ASSUME NEW kind \in {"new", "edit"}, NEW it \in Item
  PROVE  [kind |-> kind, items |-> <<it>>] \in Job
  BY DEF Job, ContentJob

\* Every way to sort a buffer gives a sequence of its items, as long as it is.
LEMMA SortedIsSeq ==
  ASSUME NEW s \in Seq(Item), NEW msgs \in SortedById(s)
  PROVE  msgs \in Seq(Item) /\ Len(msgs) = Len(s)
<1>1. PICK p \in [DOMAIN s -> DOMAIN s] : msgs = [i \in DOMAIN s |-> s[p[i]]]
  BY DEF SortedById
<1>2. msgs = [i \in 1..Len(s) |-> s[p[i]]]
  BY <1>1
<1>3. Len(s) \in Nat /\ msgs \in [1..Len(s) -> Item]
  BY <1>1, <1>2
<1> QED
  BY <1>3

\* Queueing a job.
LEMMA PutJob ==
  ASSUME QueueTypeOK, NEW s \in Side, NEW j \in Job, Put(s, j)
  PROVE  q' \in [Side -> Seq(Job)]
<1>1. q \in [Side -> Seq(Job)] /\ Append(q[s], j) \in Seq(Job)
  BY DEF QueueTypeOK
<1> QED
  BY <1>1 DEF Put

\* The side of a channel.
LEMMA SideOfType ==
  ASSUME NEW c
  PROVE  SideOf(c) \in Side
  BY DEF SideOf, Side

\* What an item is made of.
LEMMA ItemIds ==
  ASSUME NEW it \in Item
  PROVE  it.msg \in Msg /\ it.msg.id \in Nat /\ it.msg.chat \in Chat
<1>1. it.msg \in Msg
  BY DEF Item
<1>2. it.msg.id \in 1..MaxId /\ it.msg.chat \in Chat
  BY <1>1 DEF Msg
<1> QED
  BY <1>1, <1>2, MaxIdAssumption

\* The three kinds of jobs.
LEMMA JobKinds ==
  ASSUME NEW j \in Job
  PROVE  /\ j.kind \in {"new", "edit", "delete"}
         /\ j.kind = "delete" => j \in DeleteJob
  BY DEF Job, ContentJob, DeleteJob

-----------------------------------------------------------------------------
(* Steps *)

\* The intake keeps the types: events become jobs, buffered items or nothing.
LEMMA IntakeTypes ==
  ASSUME QueueTypeOK, NEW s \in Side, OnNew(s) \/ OnEdit(s) \/ OnDelete(s)
  PROVE  QueueTypeOK'
<1>1. ASSUME stream[s] # <<>>
      PROVE  /\ Head(stream[s]) \in Job
             /\ [stream EXCEPT ![s] = Tail(@)] \in [Side -> Seq(Job)]
  BY <1>1, HeadTailProperties DEF QueueTypeOK
<1>2. CASE OnNew(s)
  <2> DEFINE it == Head(stream[s]).items[1]
  <2>1. /\ Head(stream[s]) \in Job /\ it \in Item
        /\ stream' \in [Side -> Seq(Job)]
    BY <1>1, <1>2, FirstItem DEF OnNew, Arrives, Pop
  <2>2. sent' \in SUBSET Msg
    BY <1>2 DEF OnNew, QueueTypeOK
  <2>a. q' = q \/ Put(s, Head(stream[s]))
    BY <1>2 DEF OnNew
  <2>3. q' \in [Side -> Seq(Job)]
    BY <2>1, <2>a, PutJob DEF QueueTypeOK
  <2>4. pending' \in [Key -> Seq(Item)] /\ tasks' \in SUBSET Key
    <3>1. CASE it.msg \notin sent /\ it.grp # NoGroup
      <4>1. <<it.msg.chat, it.grp>> \in Key
        BY <2>1, <3>1 DEF Item, Msg, Key
      <4>2. Feed(<<it.msg.chat, it.grp>>, it)
        BY <1>2, <3>1 DEF OnNew
      <4>3. pending' = [pending EXCEPT ![<<it.msg.chat, it.grp>>] = Append(@, it)]
        BY <4>2 DEF Feed
      <4>4. tasks' \in SUBSET Key
        BY <4>1, <4>2 DEF Feed, QueueTypeOK
      <4>5. /\ pending \in [Key -> Seq(Item)]
            /\ Append(pending[<<it.msg.chat, it.grp>>], it) \in Seq(Item)
        BY <2>1, <4>1 DEF QueueTypeOK
      <4> QED
        BY <4>1, <4>3, <4>4, <4>5
    <3>2. CASE ~(it.msg \notin sent /\ it.grp # NoGroup)
      BY <1>2, <3>2 DEF OnNew, QueueTypeOK
    <3> QED
      BY <3>1, <3>2
  <2> QED
    BY <1>2, <2>1, <2>2, <2>3, <2>4 DEF OnNew, QueueTypeOK
<1>3. CASE OnEdit(s)
  <2>1. Head(stream[s]) \in Job /\ stream' \in [Side -> Seq(Job)]
    BY <1>1, <1>3 DEF OnEdit, Arrives, Pop
  <2>2. q' = q \/ Put(s, Head(stream[s]))
    BY <1>3 DEF OnEdit
  <2>3. q' \in [Side -> Seq(Job)]
    BY <2>1, <2>2, PutJob DEF QueueTypeOK
  <2>4. sent' \in SUBSET Msg
    BY <1>3 DEF OnEdit, QueueTypeOK
  <2> QED
    BY <1>3, <2>1, <2>3, <2>4 DEF OnEdit, QueueTypeOK
<1>4. CASE OnDelete(s)
  <2> DEFINE ids == Head(stream[s]).ids \ ignore
  <2>1. /\ Head(stream[s]) \in Job /\ Head(stream[s]).kind = "delete"
        /\ stream' \in [Side -> Seq(Job)]
    BY <1>1, <1>4 DEF OnDelete, Arrives, Pop
  <2>2. ids \in SUBSET Msg
    BY <2>1 DEF Job, ContentJob, DeleteJob
  <2>3. [kind |-> "delete", ids |-> ids] \in Job
    BY <2>2 DEF Job, DeleteJob
  <2>4. ignore' \in SUBSET Msg
    BY <1>4 DEF OnDelete, QueueTypeOK
  <2>5. q' \in [Side -> Seq(Job)]
    <3>1. CASE q' = q
      BY <3>1 DEF QueueTypeOK
    <3>2. CASE Put(s, [kind |-> "delete", ids |-> ids])
      BY <2>3, <3>2, PutJob DEF QueueTypeOK
    <3> QED
      BY <1>4, <3>1, <3>2 DEF OnDelete
  <2> QED
    BY <1>4, <2>1, <2>4, <2>5 DEF OnDelete, QueueTypeOK
<1> QED
  BY <1>2, <1>3, <1>4

\* The flush of an album queues one job with the items of the buffer.
LEMMA FlushTypes ==
  ASSUME QueueTypeOK, NEW k \in Key, Flush(k)
  PROVE  QueueTypeOK'
<1>1. pending[k] \in Seq(Item) /\ pending' \in [Key -> Seq(Item)]
  BY DEF Flush, QueueTypeOK
<1>2. q' \in [Side -> Seq(Job)]
  <2>1. CASE pending[k] = <<>>
    BY <2>1 DEF Flush, QueueTypeOK
  <2>2. CASE pending[k] # <<>>
    <3>1. PICK msgs \in SortedById(pending[k]) :
            Put(SideOf(k[1]), [kind |-> "new", items |-> msgs])
      BY <2>2 DEF Flush
    <3>2. msgs \in Seq(Item) /\ msgs # <<>>
      BY <1>1, <2>2, SortedIsSeq, EmptySeq
    <3>3. [kind |-> "new", items |-> msgs] \in Job
      BY <3>2 DEF Job, ContentJob
    <3> QED
      BY <3>1, <3>3, SideOfType, PutJob DEF QueueTypeOK
  <2> QED
    BY <2>1, <2>2
<1> QED
  BY <1>1, <1>2 DEF Flush, QueueTypeOK

\* An event of a user is a job appended to the stream of a side.
LEMMA EmitTypes ==
  ASSUME QueueTypeOK, NEW s \in Side, NEW e \in Job, Emit(s, e),
         UNCHANGED <<q, job, pending, tasks, paused, sent, ignore>>
  PROVE  QueueTypeOK'
<1>1. stream \in [Side -> Seq(Job)] /\ Append(stream[s], e) \in Seq(Job)
  BY DEF QueueTypeOK
<1>2. stream' \in [Side -> Seq(Job)]
  BY <1>1 DEF Emit
<1> QED
  BY <1>2 DEF QueueTypeOK

-----------------------------------------------------------------------------
(* How often jobs of a set are in a sequence *)

Occurs(st, J) == \E i \in DOMAIN st : st[i] \in J
AtMostOnce(st, J) == \A i, j \in DOMAIN st : st[i] \in J /\ st[j] \in J => i = j

LEMMA AppendOnce ==
  ASSUME NEW X, NEW st \in Seq(X), NEW e \in X, NEW J
  PROVE  /\ Occurs(Append(st, e), J) <=> Occurs(st, J) \/ e \in J
         /\ AtMostOnce(st, J) /\ ~(e \in J /\ Occurs(st, J)) => AtMostOnce(Append(st, e), J)
<1>1. /\ Len(st) \in Nat /\ DOMAIN st = 1..Len(st)
      /\ DOMAIN Append(st, e) = 1..(Len(st) + 1)
      /\ Append(st, e)[Len(st) + 1] = e
      /\ \A i \in 1..Len(st) : Append(st, e)[i] = st[i]
  OBVIOUS
<1>2. Occurs(Append(st, e), J) <=> Occurs(st, J) \/ e \in J
  BY <1>1 DEF Occurs
<1>3. ASSUME AtMostOnce(st, J), ~(e \in J /\ Occurs(st, J))
      PROVE  AtMostOnce(Append(st, e), J)
  <2>1. ASSUME NEW i \in 1..(Len(st) + 1), NEW j \in 1..(Len(st) + 1),
               Append(st, e)[i] \in J, Append(st, e)[j] \in J
        PROVE  i = j
    <3>1. CASE i \in 1..Len(st) /\ j \in 1..Len(st)
      BY <1>1, <1>3, <2>1, <3>1 DEF AtMostOnce
    <3>2. CASE i = Len(st) + 1 /\ j \in 1..Len(st)
      BY <1>1, <1>3, <2>1, <3>2 DEF Occurs
    <3>3. CASE i \in 1..Len(st) /\ j = Len(st) + 1
      BY <1>1, <1>3, <2>1, <3>3 DEF Occurs
    <3> QED
      BY <1>1, <3>1, <3>2, <3>3
  <2> QED
    BY <1>1, <2>1 DEF AtMostOnce
<1> QED
  BY <1>2, <1>3

LEMMA TailOnce ==
  ASSUME NEW X, NEW st \in Seq(X), st # <<>>, NEW J
  PROVE  /\ Occurs(Tail(st), J) => Occurs(st, J)
         /\ Head(st) \in J => Occurs(st, J)
         /\ AtMostOnce(st, J) => AtMostOnce(Tail(st), J)
         /\ AtMostOnce(st, J) /\ Head(st) \in J => ~Occurs(Tail(st), J)
<1>1. /\ Len(st) \in Nat /\ Len(st) > 0 /\ DOMAIN st = 1..Len(st) /\ Head(st) = st[1]
      /\ DOMAIN Tail(st) = 1..(Len(st) - 1)
      /\ \A i \in 1..(Len(st) - 1) : Tail(st)[i] = st[i + 1] /\ i + 1 \in 1..Len(st)
  BY HeadTailProperties, EmptySeq
<1>2. Occurs(Tail(st), J) => Occurs(st, J)
  BY <1>1 DEF Occurs
<1>3. Head(st) \in J => Occurs(st, J)
  BY <1>1 DEF Occurs
<1>4. ASSUME AtMostOnce(st, J) PROVE AtMostOnce(Tail(st), J)
  <2>1. ASSUME NEW i \in 1..(Len(st) - 1), NEW j \in 1..(Len(st) - 1),
               Tail(st)[i] \in J, Tail(st)[j] \in J
        PROVE  i = j
    <3>1. st[i + 1] \in J /\ st[j + 1] \in J /\ i + 1 \in DOMAIN st /\ j + 1 \in DOMAIN st
      BY <1>1, <2>1
    <3>2. i + 1 = j + 1
      BY <1>4, <3>1 DEF AtMostOnce
    <3> QED
      BY <1>1, <3>2
  <2> QED
    BY <1>1, <2>1 DEF AtMostOnce
<1>5. ASSUME AtMostOnce(st, J), Head(st) \in J, NEW i \in DOMAIN Tail(st), Tail(st)[i] \in J
      PROVE  FALSE
  <2>1. i \in 1..(Len(st) - 1) /\ st[i + 1] \in J /\ i + 1 \in DOMAIN st /\ 1 \in DOMAIN st
    BY <1>1, <1>5
  <2>2. i + 1 = 1
    BY <1>1, <1>5, <2>1 DEF AtMostOnce
  <2> QED
    BY <1>1, <2>1, <2>2
<1> QED
  BY <1>2, <1>3, <1>4, <1>5 DEF Occurs

LEMMA ConcatOnce ==
  ASSUME NEW X, NEW st \in Seq(X), NEW u \in Seq(X), NEW J
  PROVE  /\ Occurs(st \o u, J) <=> Occurs(st, J) \/ Occurs(u, J)
         /\ AtMostOnce(st, J) /\ AtMostOnce(u, J) /\ ~(Occurs(st, J) /\ Occurs(u, J)) =>
              AtMostOnce(st \o u, J)
<1> DEFINE n == Len(st)
<1>1. /\ n \in Nat /\ Len(u) \in Nat /\ DOMAIN st = 1..n /\ DOMAIN u = 1..Len(u)
      /\ DOMAIN (st \o u) = 1..(n + Len(u))
      /\ \A i \in 1..n : (st \o u)[i] = st[i]
      /\ \A i \in (n + 1)..(n + Len(u)) : (st \o u)[i] = u[i - n] /\ i - n \in 1..Len(u)
      /\ \A i \in 1..Len(u) : (st \o u)[n + i] = u[i] /\ n + i \in 1..(n + Len(u))
  BY ConcatProperties
<1>2. \A i \in 1..(n + Len(u)) : i \in 1..n \/ i \in (n + 1)..(n + Len(u))
  BY <1>1
<1>3. \A i \in 1..n : i \in 1..(n + Len(u))
  BY <1>1
<1> HIDE DEF n
<1>4. Occurs(st \o u, J) <=> Occurs(st, J) \/ Occurs(u, J)
  BY <1>1, <1>2, <1>3 DEF Occurs
<1>5. ASSUME AtMostOnce(st, J), AtMostOnce(u, J), ~(Occurs(st, J) /\ Occurs(u, J)),
             NEW i \in DOMAIN (st \o u), NEW j \in DOMAIN (st \o u),
             (st \o u)[i] \in J, (st \o u)[j] \in J
      PROVE  i = j
  <2>1. CASE i \in 1..n /\ j \in 1..n
    BY <1>1, <1>5, <2>1 DEF AtMostOnce
  <2>2. CASE i \in (n + 1)..(n + Len(u)) /\ j \in (n + 1)..(n + Len(u))
    <3>1. i - n = j - n
      BY <1>1, <1>5, <2>2 DEF AtMostOnce
    <3> QED
      BY <1>1, <2>2, <3>1
  <2>3. CASE i \in 1..n /\ j \in (n + 1)..(n + Len(u))
    BY <1>1, <1>5, <2>3 DEF Occurs
  <2>4. CASE i \in (n + 1)..(n + Len(u)) /\ j \in 1..n
    BY <1>1, <1>5, <2>4 DEF Occurs
  <2> QED
    BY <1>1, <1>2, <2>1, <2>2, <2>3, <2>4
<1> QED
  BY <1>4, <1>5 DEF AtMostOnce
=============================================================================
