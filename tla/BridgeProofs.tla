---------------------------- MODULE BridgeProofs ----------------------------
(***************************************************************************)
(* Proofs about Bridge for all pairs, channels, texts and bounds: the      *)
(* types, and what they rest on; what msg_map says of the posts it joins;  *)
(* and that the bridge does not mirror its own posts.  Every message the   *)
(* queues, the handlers and msg_map speak of is one that some platform     *)
(* holds, on the side it has to be on, and a handler that waits for a call *)
(* has what the call works on.                                             *)
(***************************************************************************)
EXTENDS Bridge, QueueProofs, WellFoundedInduction

\* The definitions take the values they speak of as arguments: a step compares
\* them before and after it.  P is the set of messages that were posted.

\* The messages a job is about.
About(j) == IF j.kind = "delete" THEN j.ids ELSE {j.items[1].msg}
\* The jobs of a side: about messages of its platform.
HomeJob(s, P) == { j \in Job : \A m \in About(j) : m \in P /\ SideOf(m.chat) = s }
JobsKnown(s, st, qs, j, P) ==
  /\ st \in Seq(HomeJob(s, P))
  /\ qs \in Seq(HomeJob(s, P))
  /\ j \in HomeJob(s, P) \cup {NoJob}

\* The channels of a pair.
Ends(p) == {TgOf[p], BaleOf[p]}

\* The rows join posted messages on the channels of their pair, and the id of a
\* row is its own.
RowsKnown(table, last, P) ==
  /\ \A r \in table : {r.src, r.dst} \subseteq P /\ r.id <= last
  /\ \A r \in table : r.src.chat \in Ends(r.pair) /\ r.dst.chat \in Ends(r.pair)
  /\ \A r1, r2 \in table : r1.id = r2.id => r1 = r2

\* What a handler has found speaks of posted messages, one result per row.
FoundKnown(F, P) ==
  /\ \A o \in F : o.msg \in P /\ o.msg.chat \in Ends(o.pair)
  /\ \A o1, o2 \in F : o1.row = o2.row => o1 = o2

\* The row a result came from may be gone, but its id is not given to another.
FoundRows(F, table, last) ==
  \A o \in F : o.row <= last /\ \A r \in table : r.id = o.row => r.pair = o.pair

Least(S) == CHOOSE p \in S : \A r \in S : p <= r

Editing == {"fetch", "edit", "resend", "remove", "removed"}
Deleting == {"delete", "deleted"}

\* The handler of s, with local state l and job j.
HandlerKnown(s, l, j, P) ==
  /\ l.pc = "send" => j.kind = "new" /\ l.todo # {}
  /\ l.pc = "send" => \A p \in l.todo : PairChat(Other(s), p) = j.items[1].msg.chat
  /\ l.pc \in Editing => j.kind = "edit"
  /\ l.pc \in Deleting => j.kind = "delete"
  /\ l.pc \in Editing \cup Deleting =>
       l.found # {} /\ SideOf(First(l.found).msg.chat) = Other(s)
  /\ FoundKnown(l.found, P)
  /\ \A m \in l.mids : m \in P /\ SideOf(m.chat) = s
  /\ \A i \in DOMAIN l.made : l.made[i] \in P /\ SideOf(l.made[i].chat) = Other(s)
  /\ l.pc = "send" => \A i \in DOMAIN l.made : l.made[i].chat = PairChat(s, Least(l.todo))
  /\ l.pc \in Editing =>
       \A i \in DOMAIN l.made : l.made[i].chat = PairChat(s, First(l.found).pair)

BridgeInv ==
  /\ TypeOK
  /\ RowsKnown(rows, lastRow, Posted)
  /\ \A s \in Side : /\ JobsKnown(s, stream[s], q[s], job[s], Posted)
                     /\ HandlerKnown(s, w[s], job[s], Posted)
                     /\ FoundRows(w[s].found, rows, lastRow)

-----------------------------------------------------------------------------
(* Choices *)

\* A set of numbers that is not empty has a least element.
LEMMA LeastNumber ==
  ASSUME NEW S, S \subseteq Nat, S # {}
  PROVE  \E x \in S : \A y \in S : x <= y
<1>1. PICK x \in S : \A y \in S : ~ (<<y, x>> \in OpToRel(<, Nat))
  BY NatLessThanWellFounded, WFMin
<1>2. \A y \in S : ~ (y < x)
  BY <1>1 DEF OpToRel
<1> QED
  BY <1>2

\* The first result of a query.
LEMMA FirstFound ==
  ASSUME NEW F, F \subseteq Found, F # {}
  PROVE  First(F) \in F /\ \A o \in F : First(F).row <= o.row
<1> DEFINE S == { o.row : o \in F }
<1>1. S \subseteq Nat /\ S # {}
  BY DEF Found
<1>2. PICK x \in S : \A y \in S : x <= y
  BY <1>1, LeastNumber
<1>3. \E o \in F : \A p \in F : o.row <= p.row
  BY <1>2
<1> QED
  BY <1>3 DEF First

\* The first pair left.
LEMMA FirstPairLeft ==
  ASSUME NEW s, w[s].todo \subseteq PairId, w[s].todo # {}
  PROVE  FirstPair(s) \in w[s].todo
<1>1. w[s].todo \subseteq Nat
  BY PairAssumption
<1>2. \E p \in w[s].todo : \A r \in w[s].todo : p <= r
  BY <1>1, LeastNumber
<1> QED
  BY <1>2 DEF FirstPair

-----------------------------------------------------------------------------
(* Sides and messages *)

LEMMA SideFacts ==
  ASSUME NEW s \in Side
  PROVE  Other(s) \in Side /\ Other(s) # s /\ (\A r \in Side : r = s \/ r = Other(s))
  BY DEF Side, Other

\* A pair joins a channel of each side.
LEMMA PairChats ==
  ASSUME NEW s \in Side, NEW p \in PairId
  PROVE  /\ PairChat(s, p) \in Chat
         /\ SideOf(PairChat(s, p)) = Other(s)
         /\ TgOf[p] \in Chat /\ BaleOf[p] \in Chat
         /\ SideOf(TgOf[p]) = "tg" /\ SideOf(BaleOf[p]) = "bale"
  BY PairAssumption, ChatsAssumption DEF PairChat, Chat, SideOf, Side, Other

LEMMA MsgFacts ==
  ASSUME NEW m \in Msg
  PROVE  m.chat \in Chat /\ m.id \in 1..MaxId /\ m.id \in Nat
         /\ m = [chat |-> m.chat, id |-> m.id]
  BY MaxIdAssumption DEF Msg

PostsTyped == posts \in [Chat -> Seq(PostRec)]

LEMMA PostedFacts ==
  ASSUME PostsTyped, NEW m \in Posted
  PROVE  m \in Msg /\ At(m) \in PostRec /\ m.id \in DOMAIN posts[m.chat]
         /\ At(m).txt \in Text /\ At(m).st \in {"live", "deleted", "removed"}
<1>1. m \in Msg /\ m.id \in DOMAIN posts[m.chat]
  BY DEF Posted, Exists
<1>2. m.chat \in Chat
  BY <1>1, MsgFacts
<1>3. posts[m.chat] \in Seq(PostRec)
  BY <1>2 DEF PostsTyped
<1>4. At(m) \in PostRec
  BY <1>1, <1>3 DEF At
<1> QED
  BY <1>1, <1>4 DEF PostRec

\* A new post: the others stay as they are.
LEMMA Appended ==
  ASSUME PostsTyped, NEW c \in Chat, NEW p \in PostRec, Len(posts[c]) < MaxId,
         posts' = [posts EXCEPT ![c] = Append(@, p)],
         NEW m, m = [chat |-> c, id |-> Len(posts[c]) + 1]
  PROVE  /\ PostsTyped'
         /\ m \in Msg /\ m \notin Posted
         /\ Posted' = Posted \cup {m}
         /\ At(m)' = p
         /\ \A n \in Posted : At(n)' = At(n)
<1>1. posts[c] \in Seq(PostRec) /\ Len(posts[c]) \in Nat /\ DOMAIN posts[c] = 1..Len(posts[c])
  BY DEF PostsTyped
<1>2. /\ Append(posts[c], p) \in Seq(PostRec)
      /\ DOMAIN Append(posts[c], p) = 1..(Len(posts[c]) + 1)
      /\ Append(posts[c], p)[Len(posts[c]) + 1] = p
      /\ \A i \in 1..Len(posts[c]) : Append(posts[c], p)[i] = posts[c][i]
  BY <1>1
<1>3. PostsTyped'
  BY <1>2 DEF PostsTyped
<1>4. m \in Msg /\ m.chat = c /\ m.id = Len(posts[c]) + 1
  BY <1>1, MaxIdAssumption DEF Msg
<1>5. m \notin Posted
  BY <1>1, <1>4 DEF Posted, Exists
<1>6. posts'[c] = Append(posts[c], p) /\ \A d \in Chat : d # c => posts'[d] = posts[d]
  BY DEF PostsTyped
<1>7. ASSUME NEW n \in Msg PROVE n \in Posted' <=> n \in Posted \cup {m}
  <2>1. n.chat \in Chat /\ n.id \in Nat /\ n = [chat |-> n.chat, id |-> n.id]
    BY MsgFacts
  <2>2. CASE n.chat # c
    BY <1>4, <1>6, <2>1, <2>2 DEF Posted, Exists
  <2>3. CASE n.chat = c
    <3>1. n \in Posted' <=> n.id \in 1..(Len(posts[c]) + 1)
      BY <1>2, <1>6, <2>3 DEF Posted, Exists
    <3>2. n \in Posted <=> n.id \in 1..Len(posts[c])
      BY <1>1, <2>3 DEF Posted, Exists
    <3>3. n = m <=> n.id = Len(posts[c]) + 1
      BY <1>4, <2>1, <2>3
    <3> QED
      BY <1>1, <2>1, <3>1, <3>2, <3>3
  <2> QED
    BY <2>2, <2>3
<1>8. Posted' = Posted \cup {m}
  <2>1. Posted \subseteq Msg /\ Posted' \subseteq Msg
    BY DEF Posted
  <2> QED
    BY <1>4, <1>7, <2>1
<1>9. At(m)' = p
  BY <1>2, <1>4, <1>6 DEF At
<1>10. ASSUME NEW n \in Posted PROVE At(n)' = At(n)
  <2>1. n.chat \in Chat /\ n.id \in DOMAIN posts[n.chat]
    BY PostedFacts, MsgFacts
  <2> QED
    BY <1>1, <1>2, <1>6, <2>1 DEF At
<1> QED
  BY <1>3, <1>4, <1>5, <1>8, <1>9, <1>10

\* A post that changes: no other does, and none comes or goes.
LEMMA Changed ==
  ASSUME PostsTyped, NEW m \in Posted, NEW p \in PostRec, SetPost(m, p)
  PROVE  /\ PostsTyped'
         /\ Posted' = Posted
         /\ At(m)' = p
         /\ \A n \in Posted : n # m => At(n)' = At(n)
<1>1. m \in Msg /\ m.chat \in Chat /\ m.id \in DOMAIN posts[m.chat]
  BY PostedFacts, MsgFacts
<1> DEFINE old == posts[m.chat]
           new == [old EXCEPT ![m.id] = p]
<1>2. old \in Seq(PostRec) /\ DOMAIN old = 1..Len(old) /\ Len(old) \in Nat
  BY <1>1 DEF PostsTyped
<1>3. /\ new \in Seq(PostRec) /\ DOMAIN new = DOMAIN old /\ new[m.id] = p
      /\ \A i \in DOMAIN old : i # m.id => new[i] = old[i]
  BY <1>1, <1>2
<1>4. posts' = [posts EXCEPT ![m.chat] = new]
  BY DEF SetPost
<1>5. posts'[m.chat] = new /\ \A d \in Chat : d # m.chat => posts'[d] = posts[d]
  BY <1>1, <1>4 DEF PostsTyped
<1> HIDE DEF new, old
<1>6. PostsTyped'
  BY <1>1, <1>3, <1>4 DEF PostsTyped
<1>7. ASSUME NEW n \in Msg PROVE n \in Posted' <=> n \in Posted
  BY <1>3, <1>5, MsgFacts DEF Posted, Exists, old
<1>8. Posted' = Posted
  BY <1>7 DEF Posted
<1>9. At(m)' = p
  BY <1>3, <1>5 DEF At
<1>10. ASSUME NEW n \in Posted, n # m PROVE At(n)' = At(n)
  <2>1. n \in Msg /\ n.chat \in Chat /\ n.id \in DOMAIN posts[n.chat]
    BY PostedFacts, MsgFacts
  <2>2. n.chat # m.chat \/ n.id # m.id
    BY <1>1, <1>10, <2>1, MsgFacts
  <2> QED
    BY <1>3, <1>5, <2>1, <2>2 DEF At, old
<1> QED
  BY <1>6, <1>8, <1>9, <1>10

-----------------------------------------------------------------------------
(* msg_map *)

\* Each row gives one result at most, for the message at its other end.
LEMMA OtherSideFacts ==
  ASSUME NEW table, table \subseteq Row, NEW last, NEW P, RowsKnown(table, last, P), NEW m
  PROVE  /\ OtherSide(table, m) \subseteq Found
         /\ FoundKnown(OtherSide(table, m), P)
         /\ FoundRows(OtherSide(table, m), table, last)
         /\ \A o \in OtherSide(table, m) : \E r \in table :
              /\ r.id = o.row /\ r.pair = o.pair
              /\ \/ r.src = m /\ r.dst = o.msg
                 \/ r.src # m /\ r.dst = m /\ r.src = o.msg
<1>1. \A r \in table : /\ r.id \in Nat /\ r.pair \in PairId
                       /\ r.src \in Msg /\ r.dst \in Msg
  BY DEF Row
<1>2. ASSUME NEW o \in OtherSide(table, m)
      PROVE  /\ o \in Found /\ o = [msg |-> o.msg, pair |-> o.pair, row |-> o.row]
             /\ \E r \in table :
                  /\ r.id = o.row /\ r.pair = o.pair
                  /\ \/ r.src = m /\ r.dst = o.msg
                     \/ r.src # m /\ r.dst = m /\ r.src = o.msg
  <2>1. \/ \E r \in table : r.src = m /\ o = [msg |-> r.dst, pair |-> r.pair, row |-> r.id]
        \/ \E r \in table : /\ r.src # m /\ r.dst = m
                            /\ o = [msg |-> r.src, pair |-> r.pair, row |-> r.id]
    BY <1>2 DEF OtherSide
  <2> QED
    BY <1>1, <2>1 DEF Found
<1>3. \A o \in OtherSide(table, m) : o.msg \in P /\ o.msg.chat \in Ends(o.pair)
  BY <1>2 DEF RowsKnown
<1>4. ASSUME NEW o1 \in OtherSide(table, m), NEW o2 \in OtherSide(table, m), o1.row = o2.row
      PROVE  o1 = o2
  <2>1. PICK r1 \in table : /\ r1.id = o1.row /\ r1.pair = o1.pair
                            /\ \/ r1.src = m /\ r1.dst = o1.msg
                               \/ r1.src # m /\ r1.dst = m /\ r1.src = o1.msg
    BY <1>2
  <2>2. PICK r2 \in table : /\ r2.id = o2.row /\ r2.pair = o2.pair
                            /\ \/ r2.src = m /\ r2.dst = o2.msg
                               \/ r2.src # m /\ r2.dst = m /\ r2.src = o2.msg
    BY <1>2
  <2>3. r1 = r2
    BY <1>4, <2>1, <2>2 DEF RowsKnown
  <2>4. o1.msg = o2.msg /\ o1.pair = o2.pair
    BY <2>1, <2>2, <2>3
  <2> QED
    BY <1>2, <1>4, <2>4
<1>5. FoundRows(OtherSide(table, m), table, last)
  BY <1>2 DEF FoundRows, RowsKnown
<1> QED
  BY <1>2, <1>3, <1>4, <1>5 DEF FoundKnown

LEMMA FewerRows ==
  ASSUME NEW table, table \subseteq Row, NEW last, NEW P, RowsKnown(table, last, P)
  PROVE  \A t2 \in SUBSET table : t2 \subseteq Row /\ RowsKnown(t2, last, P)
  BY DEF RowsKnown

\* What the rows of a mirrored message say.
LEMMA AddedRows ==
  ASSUME NEW table, NEW last \in Nat, NEW p, NEW m, NEW dsts \in Seq(Msg)
  PROVE  \A r \in AddRows(table, last, p, m, dsts) :
           \/ r \in table
           \/ /\ r.id > last /\ r.pair = p /\ r.src = m
              /\ \E i \in DOMAIN dsts : r.dst = dsts[i] /\ r.id = last + i
<1> DEFINE new == { [id |-> last + i, pair |-> p, src |-> m, dst |-> dsts[i]] :
                      i \in DOMAIN dsts }
<1>1. \A i \in DOMAIN dsts : i \in Nat /\ i > 0
  OBVIOUS
<1>2. ASSUME NEW r \in new
      PROVE  /\ r.id > last /\ r.pair = p /\ r.src = m
             /\ \E i \in DOMAIN dsts : r.dst = dsts[i] /\ r.id = last + i
  BY <1>1
<1> QED
  BY <1>2 DEF AddRows

\* New rows get new ids.
LEMMA AddRowsFacts ==
  ASSUME NEW table, table \subseteq Row, NEW last \in Nat, NEW P, RowsKnown(table, last, P),
         NEW p \in PairId, NEW m \in P, NEW dsts \in Seq(P), P \subseteq Msg,
         m.chat \in Ends(p), \A i \in DOMAIN dsts : dsts[i].chat \in Ends(p)
  PROVE  /\ AddRows(table, last, p, m, dsts) \subseteq Row
         /\ RowsKnown(AddRows(table, last, p, m, dsts), last + Len(dsts), P)
<1> DEFINE new == { [id |-> last + i, pair |-> p, src |-> m, dst |-> dsts[i]] :
                      i \in DOMAIN dsts }
<1>1. Len(dsts) \in Nat /\ DOMAIN dsts = 1..Len(dsts) /\ \A i \in DOMAIN dsts : dsts[i] \in P
  OBVIOUS
<1>2. ASSUME NEW r \in new
      PROVE  /\ r \in Row /\ {r.src, r.dst} \subseteq P
             /\ r.src.chat \in Ends(r.pair) /\ r.dst.chat \in Ends(r.pair)
             /\ r.id <= last + Len(dsts) /\ r.id > last /\ r.id \in Nat
             /\ r.id - last \in DOMAIN dsts
             /\ r = [id |-> r.id, pair |-> p, src |-> m, dst |-> dsts[r.id - last]]
  <2>1. PICK i \in DOMAIN dsts : r = [id |-> last + i, pair |-> p, src |-> m, dst |-> dsts[i]]
    OBVIOUS
  <2>2. i \in 1..Len(dsts) /\ i \in Nat /\ dsts[i] \in P
    BY <1>1
  <2>3. r.id = last + i /\ r.pair = p /\ r.src = m /\ r.dst = dsts[i]
    BY <2>1
  <2>4. r.id - last = i
    BY <2>2, <2>3
  <2>5. r \in Row
    BY <2>1, <2>2 DEF Row
  <2> QED
    BY <1>1, <2>1, <2>2, <2>3, <2>4, <2>5
<1>3. \A r \in table : r.id \in Nat /\ r.id <= last /\ {r.src, r.dst} \subseteq P
  BY DEF Row, RowsKnown
<1>4. AddRows(table, last, p, m, dsts) = table \cup new
  BY DEF AddRows
<1> HIDE DEF new
<1>5. \A r \in table \cup new : {r.src, r.dst} \subseteq P /\ r.id <= last + Len(dsts)
  BY <1>1, <1>2, <1>3
<1>7. \A r \in table \cup new : r.src.chat \in Ends(r.pair) /\ r.dst.chat \in Ends(r.pair)
  BY <1>2 DEF RowsKnown
<1>6. ASSUME NEW r1 \in table \cup new, NEW r2 \in table \cup new, r1.id = r2.id
      PROVE  r1 = r2
  <2>1. CASE r1 \in table /\ r2 \in table
    BY <1>6, <2>1 DEF RowsKnown
  <2>2. CASE r1 \in new /\ r2 \in new
    BY <1>2, <1>6, <2>2
  <2>3. ASSUME r1 \in table, r2 \in new PROVE FALSE
    BY <1>2, <1>3, <1>6, <2>3
  <2>4. ASSUME r1 \in new, r2 \in table PROVE FALSE
    BY <1>2, <1>3, <1>6, <2>4
  <2> QED
    BY <2>1, <2>2, <2>3, <2>4
<1> QED
  BY <1>2, <1>4, <1>5, <1>6, <1>7 DEF RowsKnown

\* A row keeps its id, pair and source when its destination is replaced.
LEMMA ReplacedRows ==
  ASSUME NEW table, table \subseteq Row, NEW id, NEW m
  PROVE  \A r \in ReplaceDst(table, id, m) : \E r0 \in table :
           /\ r.id = r0.id /\ r.pair = r0.pair /\ r.src = r0.src
           /\ r.dst = IF r0.id = id THEN m ELSE r0.dst
<1> SUFFICES ASSUME NEW r \in ReplaceDst(table, id, m)
             PROVE  \E r0 \in table :
                      /\ r.id = r0.id /\ r.pair = r0.pair /\ r.src = r0.src
                      /\ r.dst = IF r0.id = id THEN m ELSE r0.dst
  OBVIOUS
<1>1. PICK r0 \in table : r = IF r0.id = id THEN [r0 EXCEPT !.dst = m] ELSE r0
  BY DEF ReplaceDst
<1>2. r0 \in Row
  OBVIOUS
<1>3. /\ r.id = r0.id /\ r.pair = r0.pair /\ r.src = r0.src
      /\ r.dst = IF r0.id = id THEN m ELSE r0.dst
  BY <1>1, <1>2 DEF Row
<1> QED
  BY <1>3

\* The new destination is one of the posts of the pair.
LEMMA ReplaceFacts ==
  ASSUME NEW table, table \subseteq Row, NEW last, NEW P, RowsKnown(table, last, P),
         NEW id, NEW m \in P, P \subseteq Msg,
         \A r \in table : r.id = id => m.chat \in Ends(r.pair)
  PROVE  /\ ReplaceDst(table, id, m) \subseteq Row
         /\ RowsKnown(ReplaceDst(table, id, m), last, P)
<1>1. ASSUME NEW r \in ReplaceDst(table, id, m)
      PROVE  /\ r \in Row
             /\ \E r0 \in table : r = IF r0.id = id THEN [r0 EXCEPT !.dst = m] ELSE r0
             /\ \E r0 \in table :
                  /\ r.id = r0.id /\ r.pair = r0.pair /\ r.src = r0.src
                  /\ r.dst = IF r0.id = id THEN m ELSE r0.dst
  <2>1. PICK r0 \in table : r = IF r0.id = id THEN [r0 EXCEPT !.dst = m] ELSE r0
    BY DEF ReplaceDst
  <2>2. r0 \in Row
    OBVIOUS
  <2>3. r \in Row /\ r.id = r0.id /\ r.pair = r0.pair /\ r.src = r0.src
        /\ r.dst = IF r0.id = id THEN m ELSE r0.dst
    BY <2>1, <2>2 DEF Row
  <2> QED
    BY <2>1, <2>3
<1>2. \A r \in ReplaceDst(table, id, m) : {r.src, r.dst} \subseteq P /\ r.id <= last
  BY <1>1 DEF RowsKnown
<1>4. \A r \in ReplaceDst(table, id, m) : r.src.chat \in Ends(r.pair) /\ r.dst.chat \in Ends(r.pair)
  BY <1>1 DEF RowsKnown
<1>3. ASSUME NEW r1 \in ReplaceDst(table, id, m), NEW r2 \in ReplaceDst(table, id, m),
             r1.id = r2.id
      PROVE  r1 = r2
  <2>1. PICK s1 \in table : r1 = IF s1.id = id THEN [s1 EXCEPT !.dst = m] ELSE s1
    BY <1>1
  <2>2. PICK s2 \in table : r2 = IF s2.id = id THEN [s2 EXCEPT !.dst = m] ELSE s2
    BY <1>1
  <2>3. s1.id = r1.id /\ s2.id = r2.id
    BY <2>1, <2>2 DEF Row
  <2>4. s1 = s2
    BY <1>3, <2>3 DEF RowsKnown
  <2> QED
    BY <2>1, <2>2, <2>4
<1> QED
  BY <1>1, <1>2, <1>3, <1>4 DEF RowsKnown

-----------------------------------------------------------------------------
(* More posts *)

LEMMA SeqOfMore ==
  ASSUME NEW S, NEW T, S \subseteq T, NEW a \in Seq(S)
  PROVE  a \in Seq(T)
  OBVIOUS

\* What speaks of posted messages still does when there are more of them.
LEMMA KnownStays ==
  ASSUME NEW P, NEW P2, P \subseteq P2
  PROVE  /\ \A table, last : RowsKnown(table, last, P) => RowsKnown(table, last, P2)
         /\ \A F : FoundKnown(F, P) => FoundKnown(F, P2)
         /\ \A s, l, j : HandlerKnown(s, l, j, P) => HandlerKnown(s, l, j, P2)
         /\ \A s : HomeJob(s, P) \subseteq HomeJob(s, P2)
         /\ \A s, st, qs, j : JobsKnown(s, st, qs, j, P) => JobsKnown(s, st, qs, j, P2)
<1>1. \A table, last : RowsKnown(table, last, P) => RowsKnown(table, last, P2)
  BY DEF RowsKnown
<1>2. \A F : FoundKnown(F, P) => FoundKnown(F, P2)
  BY DEF FoundKnown
<1>3. ASSUME NEW s, NEW l, NEW j, HandlerKnown(s, l, j, P) PROVE HandlerKnown(s, l, j, P2)
  BY <1>2, <1>3 DEF HandlerKnown
<1>4. \A s : HomeJob(s, P) \subseteq HomeJob(s, P2)
  BY DEF HomeJob
<1>5. ASSUME NEW s, NEW st, NEW qs, NEW j, JobsKnown(s, st, qs, j, P)
      PROVE  JobsKnown(s, st, qs, j, P2)
  <2>1. st \in Seq(HomeJob(s, P)) /\ qs \in Seq(HomeJob(s, P))
        /\ j \in HomeJob(s, P) \cup {NoJob}
    BY <1>5 DEF JobsKnown
  <2>2. st \in Seq(HomeJob(s, P2)) /\ qs \in Seq(HomeJob(s, P2))
    BY <1>4, <2>1, SeqOfMore
  <2> QED
    BY <1>4, <2>1, <2>2 DEF JobsKnown
<1> QED
  BY <1>1, <1>2, <1>3, <1>4, <1>5

-----------------------------------------------------------------------------
(* Events *)

StreamKnown ==
  stream \in [Side -> Seq(Job)] /\ \A s \in Side : stream[s] \in Seq(HomeJob(s, Posted))

LEMMA EventFacts ==
  ASSUME NEW P, P \subseteq Msg, NEW m \in P, NEW t \in Text
  PROVE  /\ NewEvent(m, t) \in HomeJob(SideOf(m.chat), P)
         /\ EditEvent(m, t) \in HomeJob(SideOf(m.chat), P)
         /\ DeleteEvent(m) \in HomeJob(SideOf(m.chat), P)
<1>1. ItemOf(m, t) \in Item /\ ItemOf(m, t).msg = m
  BY DEF ItemOf, Item
<1>2. /\ NewEvent(m, t) \in Job /\ NewEvent(m, t).kind = "new"
      /\ NewEvent(m, t).items[1] = ItemOf(m, t)
  BY <1>1, EventIsJob DEF NewEvent
<1>3. /\ EditEvent(m, t) \in Job /\ EditEvent(m, t).kind = "edit"
      /\ EditEvent(m, t).items[1] = ItemOf(m, t)
  BY <1>1, EventIsJob DEF EditEvent
<1>4. /\ DeleteEvent(m) \in Job /\ DeleteEvent(m).kind = "delete"
      /\ DeleteEvent(m).ids = {m}
  BY DEF DeleteEvent, Job, DeleteJob
<1> QED
  BY <1>1, <1>2, <1>3, <1>4 DEF HomeJob, About

LEMMA StreamStays ==
  ASSUME StreamKnown, Posted \subseteq Posted', UNCHANGED stream
  PROVE  StreamKnown'
<1>1. ASSUME NEW s \in Side PROVE stream[s] \in Seq(HomeJob(s, Posted'))
  BY KnownStays, SeqOfMore DEF StreamKnown
<1> QED
  BY <1>1 DEF StreamKnown

LEMMA EmitKnown ==
  ASSUME StreamKnown, Posted \subseteq Posted',
         NEW s \in Side, NEW e \in HomeJob(s, Posted'), Emit(s, e)
  PROVE  StreamKnown'
<1>1. \A r \in Side : stream[r] \in Seq(HomeJob(r, Posted'))
  BY KnownStays, SeqOfMore DEF StreamKnown
<1>2. e \in Job /\ \A r \in Side : stream[r] \in Seq(Job)
  BY DEF HomeJob, StreamKnown
<1>3. Append(stream[s], e) \in Seq(HomeJob(s, Posted')) /\ Append(stream[s], e) \in Seq(Job)
  BY <1>1, <1>2
<1>4. /\ stream' = [stream EXCEPT ![s] = Append(stream[s], e)]
      /\ stream \in [Side -> Seq(Job)]
  BY DEF Emit, StreamKnown
<1>5. stream' \in [Side -> Seq(Job)]
  BY <1>3, <1>4
<1>6. \A r \in Side : stream'[r] = IF r = s THEN Append(stream[s], e) ELSE stream[r]
  BY <1>4
<1>7. \A r \in Side : stream'[r] \in Seq(HomeJob(r, Posted'))
  BY <1>1, <1>3, <1>6
<1> QED
  BY <1>5, <1>7 DEF StreamKnown

LEMMA EchoKnown ==
  ASSUME StreamKnown, Posted \subseteq Posted', NEW kind,
         NEW s \in Side, NEW e \in HomeJob(s, Posted'), Echo(s, kind, e)
  PROVE  StreamKnown'
  BY StreamStays, EmitKnown DEF Echo

LEMMA SamePosts ==
  ASSUME UNCHANGED posts
  PROVE  Posted' = Posted /\ (PostsTyped => PostsTyped') /\ \A m : At(m)' = At(m)
  BY DEF Posted, Exists, PostsTyped, At

-----------------------------------------------------------------------------
(* What the invariant says *)

LEMMA InvFacts ==
  ASSUME BridgeInv
  PROVE  /\ QueueTypeOK /\ PostsTyped /\ StreamKnown /\ Posted \subseteq Msg
         /\ mode \in [PairId -> Mode \cup {"removed"}] /\ turns \in Nat /\ crashes \in Nat
         /\ sent \subseteq Msg /\ ignore \subseteq Msg
         /\ RowsKnown(rows, lastRow, Posted)
         /\ rows \subseteq Row /\ lastRow \in Nat /\ fps \subseteq Fingerprint
         /\ w \in [Side -> Local]
         /\ \A s \in Side : w[s] \in Local /\ w[s].found \subseteq Found
                            /\ w[s].todo \subseteq PairId /\ w[s].made \in Seq(Msg)
<1>1. /\ QueueTypeOK /\ PostsTyped /\ Posted \subseteq Msg
      /\ mode \in [PairId -> Mode \cup {"removed"}] /\ turns \in Nat /\ crashes \in Nat
      /\ sent \subseteq Msg /\ ignore \subseteq Msg
      /\ RowsKnown(rows, lastRow, Posted)
  BY DEF BridgeInv, TypeOK, QueueTypeOK, PostsTyped, Posted
<1>2. StreamKnown
  BY DEF BridgeInv, TypeOK, QueueTypeOK, StreamKnown, JobsKnown
<1>3. /\ rows \subseteq Row /\ lastRow \in Nat /\ fps \subseteq Fingerprint
      /\ w \in [Side -> Local]
  BY DEF BridgeInv, TypeOK
<1>4. ASSUME NEW s \in Side
      PROVE  w[s] \in Local /\ w[s].found \subseteq Found
             /\ w[s].todo \subseteq PairId /\ w[s].made \in Seq(Msg)
  BY <1>3 DEF Local
<1> QED
  BY <1>1, <1>2, <1>3, <1>4

\* The message a handler works for.
LEMMA SourceFacts ==
  ASSUME BridgeInv, NEW s \in Side, w[s].pc \in Editing \cup {"send"}
  PROVE  /\ Source(s) \in Item /\ Source(s).txt \in Text
         /\ Source(s).msg \in Posted /\ SideOf(Source(s).msg.chat) = s
         /\ job[s] \in HomeJob(s, Posted) /\ Chunks[Source(s).txt] \in Nat \ {0}
<1>1. job[s].kind \in {"new", "edit"}
  BY DEF BridgeInv, HandlerKnown
<1>2. job[s] \in HomeJob(s, Posted)
  BY <1>1 DEF BridgeInv, JobsKnown, NoJob
<1>3. job[s] \in Job
  BY <1>2 DEF HomeJob
<1>4. Source(s) \in Item
  BY <1>1, <1>3, FirstItem DEF Source
<1>5. About(job[s]) = {Source(s).msg}
  BY <1>1 DEF About, Source
<1>6. Source(s).txt \in Text
  BY <1>4 DEF Item
<1> QED
  BY <1>2, <1>4, <1>5, <1>6, ChunksAssumption DEF HomeJob

\* What a handler works on.
LEMMA TargetFacts ==
  ASSUME BridgeInv, NEW s \in Side, w[s].pc \in Editing \cup Deleting
  PROVE  /\ Target(s) \in w[s].found /\ Target(s) \in Found
         /\ Target(s).msg \in Posted /\ SideOf(Target(s).msg.chat) = Other(s)
         /\ Target(s).msg.chat \in Chat /\ Target(s).pair \in PairId
         /\ Target(s).msg.chat = PairChat(s, Target(s).pair)
<1>1. w[s].found \subseteq Found /\ w[s].found # {} /\ FoundKnown(w[s].found, Posted)
      /\ SideOf(Target(s).msg.chat) = Other(s)
  BY InvFacts DEF BridgeInv, HandlerKnown, Target
<1>2. Target(s) \in w[s].found
  BY <1>1, FirstFound DEF Target
<1>3. Target(s) \in Found /\ Target(s).msg \in Posted
  BY <1>1, <1>2 DEF FoundKnown
<1>4. Target(s).msg \in Msg /\ Target(s).pair \in PairId
  BY <1>3 DEF Found
<1>5. Target(s).msg.chat \in Ends(Target(s).pair)
  BY <1>1, <1>2 DEF FoundKnown
<1>6. Target(s).msg.chat = PairChat(s, Target(s).pair)
  BY <1>1, <1>4, <1>5, PairChats, SideFacts DEF Ends, PairChat, Other
<1> QED
  BY <1>1, <1>2, <1>3, <1>4, <1>6, MsgFacts

\* The parts of the invariant together.
LEMMA Assemble ==
  ASSUME QueueTypeOK', PostsTyped', (mode \in [PairId -> Mode \cup {"removed"}])',
         rows' \subseteq Row, lastRow' \in Nat, fps' \subseteq Fingerprint,
         w' \in [Side -> Local], turns' \in Nat, crashes' \in Nat,
         RowsKnown(rows', lastRow', Posted'),
         \A s \in Side : /\ JobsKnown(s, stream'[s], q'[s], job'[s], Posted')
                         /\ HandlerKnown(s, w'[s], job'[s], Posted')
                         /\ FoundRows(w'[s].found, rows', lastRow')
  PROVE  BridgeInv'
<1>1. TypeOK'
  BY DEF TypeOK, PostsTyped
<1> QED
  BY <1>1 DEF BridgeInv

\* Every row is new or was there before; a handler has found nothing more.
RowsGrow ==
  /\ lastRow <= lastRow'
  /\ \A r \in rows' : r.id > lastRow \/ \E o \in rows : o.id = r.id /\ o.pair = r.pair
FewerFound(s) == w'[s].found \subseteq w[s].found

LEMMA SameRows ==
  ASSUME BridgeInv, rows' \subseteq rows, UNCHANGED lastRow
  PROVE  RowsGrow
  BY InvFacts DEF RowsGrow

LEMMA FoundRowsStay ==
  ASSUME BridgeInv, NEW s \in Side, RowsGrow, lastRow' \in Nat, rows' \subseteq Row,
         \A r \in Side : r # s => w'[r] = w[r],
         FewerFound(s) \/ FoundRows(w'[s].found, rows', lastRow')
  PROVE  \A r \in Side : FoundRows(w'[r].found, rows', lastRow')
<1>1. ASSUME NEW F, F \subseteq Found, FoundRows(F, rows, lastRow)
      PROVE  FoundRows(F, rows', lastRow')
  <2>1. ASSUME NEW o \in F
        PROVE  o.row <= lastRow' /\ \A r \in rows' : r.id = o.row => r.pair = o.pair
    <3>1. o.row \in Nat /\ o.row <= lastRow /\ lastRow \in Nat
      BY <1>1, InvFacts DEF Found, FoundRows
    <3>2. o.row <= lastRow'
      BY <3>1 DEF RowsGrow
    <3>3. ASSUME NEW r \in rows', r.id = o.row PROVE r.pair = o.pair
      <4>1. ~(r.id > lastRow)
        BY <3>1, <3>3
      <4>2. PICK r0 \in rows : r0.id = r.id /\ r0.pair = r.pair
        BY <4>1 DEF RowsGrow
      <4> QED
        BY <1>1, <3>3, <4>2 DEF FoundRows
    <3> QED
      BY <3>2, <3>3
  <2> QED
    BY <2>1 DEF FoundRows
<1>2. \A r \in Side : w[r].found \subseteq Found /\ FoundRows(w[r].found, rows, lastRow)
  BY InvFacts DEF BridgeInv
<1>3. FoundRows(w'[s].found, rows', lastRow')
  <2>1. CASE FewerFound(s)
    <3>1. w'[s].found \subseteq Found /\ FoundRows(w'[s].found, rows, lastRow)
      BY <1>2, <2>1 DEF FewerFound, FoundRows
    <3> QED
      BY <1>1, <3>1
  <2> QED
    BY <2>1
<1>4. ASSUME NEW r \in Side, r # s PROVE FoundRows(w'[r].found, rows', lastRow')
  BY <1>1, <1>2, <1>4
<1> QED
  BY <1>3, <1>4

\* A step of the handler of s, which leaves the queues and its job alone.
LEMMA HandlerFrame ==
  ASSUME BridgeInv, NEW s \in Side, PostsTyped', Posted \subseteq Posted',
         UNCHANGED <<q, job, pending, tasks, paused>>,
         (mode \in [PairId -> Mode \cup {"removed"}])', turns' \in Nat, crashes' \in Nat,
         StreamKnown', sent' \subseteq Msg, ignore' \subseteq Msg,
         rows' \subseteq Row, lastRow' \in Nat, fps' \subseteq Fingerprint,
         RowsKnown(rows', lastRow', Posted'),
         w' \in [Side -> Local], \A r \in Side : r # s => w'[r] = w[r],
         HandlerKnown(s, w'[s], job[s], Posted'),
         RowsGrow, FewerFound(s) \/ FoundRows(w'[s].found, rows', lastRow')
  PROVE  BridgeInv'
<1>1. QueueTypeOK'
  BY DEF BridgeInv, TypeOK, QueueTypeOK, StreamKnown
<1>2. ASSUME NEW r \in Side
      PROVE  /\ JobsKnown(r, stream'[r], q'[r], job'[r], Posted')
             /\ HandlerKnown(r, w'[r], job'[r], Posted')
  <2>1. /\ JobsKnown(r, stream[r], q[r], job[r], Posted')
        /\ HandlerKnown(r, w[r], job[r], Posted')
    BY KnownStays DEF BridgeInv
  <2>2. stream'[r] \in Seq(HomeJob(r, Posted'))
    BY DEF StreamKnown
  <2>3. JobsKnown(r, stream'[r], q'[r], job'[r], Posted')
    BY <2>1, <2>2 DEF JobsKnown
  <2>4. CASE r = s
    BY <2>3, <2>4
  <2>5. CASE r # s
    BY <2>1, <2>3, <2>5
  <2> QED
    BY <2>4, <2>5
<1>3. \A r \in Side : FoundRows(w'[r].found, rows', lastRow')
  BY FoundRowsStay
<1> QED
  BY <1>1, <1>2, <1>3, Assemble

-----------------------------------------------------------------------------
(* Moves of a handler *)

Others(s) == \A r \in Side : r # s => w'[r] = w[r]

LEMMA GotoFacts ==
  ASSUME w \in [Side -> Local], NEW s \in Side, NEW pc \in PC, Goto(s, pc)
  PROVE  /\ w' \in [Side -> Local] /\ Others(s)
         /\ w'[s].pc = pc /\ w'[s].todo = w[s].todo /\ w'[s].found = w[s].found
         /\ w'[s].mids = w[s].mids /\ w'[s].made = w[s].made
<1>1. w[s] \in Local
  OBVIOUS
<1>2. [w[s] EXCEPT !.pc = pc] \in Local
  BY <1>1 DEF Local
<1>3. w' = [w EXCEPT ![s] = [w[s] EXCEPT !.pc = pc]]
  BY DEF Goto
<1>4. w'[s] = [w[s] EXCEPT !.pc = pc]
  BY <1>3
<1>5. w' \in [Side -> Local] /\ Others(s)
  BY <1>2, <1>3 DEF Others
<1> QED
  BY <1>1, <1>4, <1>5 DEF Local

LEMMA BecomeFacts ==
  ASSUME w \in [Side -> Local], NEW s \in Side, NEW l \in Local, Become(s, l)
  PROVE  w' \in [Side -> Local] /\ Others(s) /\ w'[s] = l
  BY DEF Become, Others

\* A handler without work.
Rests(l) == l.todo = {} /\ l.found = {} /\ l.mids = {} /\ l.made = <<>>

LEMMA StoppedFacts ==
  ASSUME NEW pc \in PC
  PROVE  /\ Stopped(pc) \in Local /\ Stopped(pc).pc = pc /\ Stopped(pc).todo = {}
         /\ Stopped(pc).found = {} /\ Stopped(pc).mids = {} /\ Stopped(pc).made = <<>>
  BY DEF Stopped, Local

\* Its work is set field by field.
LEMMA StoppedWith ==
  ASSUME NEW pc \in PC, NEW todo \in SUBSET PairId, NEW found \in SUBSET Found,
         NEW mids \in SUBSET Msg
  PROVE  /\ [Stopped(pc) EXCEPT !.todo = todo] \in Local
         /\ [Stopped(pc) EXCEPT !.found = found] \in Local
         /\ [Stopped(pc) EXCEPT !.found = found, !.mids = mids] \in Local
<1> DEFINE l == Stopped(pc)
<1>1. l \in Local
  BY StoppedFacts
<1> HIDE DEF l
<1>2. [l EXCEPT !.todo = todo] \in Local
  BY <1>1 DEF Local
<1>3. [l EXCEPT !.found = found] \in Local
  BY <1>1 DEF Local
<1>4. [l EXCEPT !.found = found, !.mids = mids] \in Local
  BY <1>1 DEF Local
<1> QED
  BY <1>2, <1>3, <1>4 DEF l

LEMMA StoppedRests ==
  ASSUME NEW pc
  PROVE  Rests(Stopped(pc)) /\ Stopped(pc).pc = pc
  BY DEF Stopped, Rests

LEMMA RestKnown ==
  ASSUME NEW s, NEW l, NEW j, NEW P, Rests(l), l.pc \in {"idle", "done"}
  PROVE  HandlerKnown(s, l, j, P)
  BY DEF Rests, HandlerKnown, FoundKnown, Editing, Deleting

\* mirror: the handler sends to the first of the pairs left, or is done.
SendsTo(l, pairs) ==
  \/ l.pc = "done" /\ Rests(l) /\ pairs = {}
  \/ /\ l.pc = "send" /\ pairs # {} /\ l.todo = pairs
     /\ l.found = {} /\ l.mids = {} /\ l.made = <<>>

LEMMA SendFrom ==
  ASSUME w \in [Side -> Local], NEW s \in Side, NEW pairs, pairs \subseteq PairId,
         Become(s, IF pairs = {} THEN Stopped("done")
                   ELSE [Stopped("send") EXCEPT !.todo = pairs])
  PROVE  w' \in [Side -> Local] /\ Others(s) /\ SendsTo(w'[s], pairs)
<1>1. CASE pairs = {}
  <2>1. Stopped("done") \in Local
    BY DEF Stopped, Local, PC
  <2> QED
    BY <1>1, <2>1, BecomeFacts DEF SendsTo, Stopped, Rests
<1>2. CASE pairs # {}
  <2> DEFINE l == [Stopped("send") EXCEPT !.todo = pairs]
  <2>1. l \in Local
    BY StoppedWith DEF PC
  <2>2. w' \in [Side -> Local] /\ Others(s) /\ w'[s] = l
    BY <1>2, <2>1, BecomeFacts
  <2>3. /\ w'[s].pc = "send" /\ w'[s].todo = pairs
        /\ w'[s].found = {} /\ w'[s].mids = {} /\ w'[s].made = <<>>
    BY <2>2 DEF Stopped
  <2> QED
    BY <1>2, <2>2, <2>3 DEF SendsTo
<1> QED
  BY <1>1, <1>2

LEMMA SendsKnown ==
  ASSUME NEW s, NEW l, NEW j, NEW P, NEW pairs, SendsTo(l, pairs), j.kind = "new",
         \A p \in pairs : PairChat(Other(s), p) = j.items[1].msg.chat
  PROVE  HandlerKnown(s, l, j, P)
<1>1. CASE l.pc = "done" /\ Rests(l)
  BY <1>1, RestKnown
<1>2. CASE l.pc = "send"
  BY <1>2 DEF SendsTo, Rests, HandlerKnown, FoundKnown, Editing, Deleting
<1> QED
  BY <1>1, <1>2 DEF SendsTo

\* Edits: the handler works on the first of F the engine does not skip, with what
\* comes after it, or is done.
EditsOf(s, l, F) ==
  \/ l.pc = "done" /\ Rests(l)
  \/ /\ l.pc = (IF s = "tg" THEN "edit" ELSE "fetch")
     /\ l.todo = {} /\ l.mids = {} /\ l.made = <<>>
     /\ l.found # {} /\ l.found \subseteq F /\ Applies(s, First(l.found))

\* The first of the results from a row on.
LEMMA FirstFrom ==
  ASSUME NEW F, F \subseteq Found, NEW P, FoundKnown(F, P), NEW o \in F
  PROVE  First({ r \in F : r.row >= o.row }) = o
<1> DEFINE G == { r \in F : r.row >= o.row }
<1>1. o \in G /\ G \subseteq Found /\ \A r \in F : r.row \in Nat
  BY DEF Found
<1>2. First(G) \in G /\ First(G).row <= o.row
  BY <1>1, FirstFound
<1>3. First(G).row = o.row
  BY <1>1, <1>2
<1> QED
  BY <1>2, <1>3 DEF FoundKnown

LEMMA EditFromFacts ==
  ASSUME w \in [Side -> Local], NEW s \in Side, NEW F, F \subseteq Found,
         NEW P, FoundKnown(F, P), EditFrom(s, F)
  PROVE  w' \in [Side -> Local] /\ Others(s) /\ EditsOf(s, w'[s], F)
<1> DEFINE here == { o \in F : Applies(s, o) }
<1>1. CASE here = {}
  <2>1. Stopped("done") \in Local
    BY DEF Stopped, Local, PC
  <2>2. Become(s, Stopped("done"))
    BY <1>1 DEF EditFrom
  <2> QED
    BY <2>1, <2>2, BecomeFacts DEF EditsOf, Stopped, Rests
<1>2. CASE here # {}
  <2> DEFINE pc == IF s = "tg" THEN "edit" ELSE "fetch"
             rest == { o \in F : o.row >= First(here).row }
             l == [Stopped(pc) EXCEPT !.found = rest]
  <2>1. First(here) \in here
    BY <1>2, FirstFound
  <2>2. First(rest) = First(here) /\ First(here) \in rest
    BY <2>1, FirstFrom DEF Found
  <2>4. l \in Local
    BY StoppedWith DEF PC
  <2>5. Become(s, l)
    BY <1>2 DEF EditFrom
  <2>6. w' \in [Side -> Local] /\ Others(s) /\ w'[s] = l
    BY <2>4, <2>5, BecomeFacts
  <2>7. Applies(s, First(rest))
    BY <2>1, <2>2
  <2>8. rest \subseteq F /\ rest # {}
    BY <2>2
  <2> HIDE DEF rest, pc
  <2>9. /\ w'[s].pc = pc /\ w'[s].todo = {} /\ w'[s].mids = {} /\ w'[s].made = <<>>
        /\ w'[s].found = rest
    BY <2>6 DEF Stopped
  <2> QED
    BY <2>6, <2>7, <2>8, <2>9 DEF EditsOf, pc
<1> QED
  BY <1>1, <1>2

LEMMA EditsKnown ==
  ASSUME NEW s \in Side, NEW l, NEW j, NEW P, NEW F, EditsOf(s, l, F), FoundKnown(F, P),
         j.kind = "edit"
  PROVE  HandlerKnown(s, l, j, P)
<1>1. CASE l.pc = "done" /\ Rests(l)
  BY <1>1, RestKnown
<1>2. CASE ~(l.pc = "done" /\ Rests(l))
  <2>1. /\ l.pc \in {"edit", "fetch"}
        /\ l.todo = {} /\ l.mids = {} /\ l.made = <<>>
        /\ l.found # {} /\ l.found \subseteq F /\ Applies(s, First(l.found))
    BY <1>2 DEF EditsOf
  <2>2. FoundKnown(l.found, P)
    BY <2>1 DEF FoundKnown
  <2>3. SideOf(First(l.found).msg.chat) = Other(s)
    BY <2>1 DEF Applies
  <2> QED
    BY <2>1, <2>2, <2>3 DEF HandlerKnown, Editing, Deleting
<1> QED
  BY <1>1, <1>2

\* Deletions: the handler works on the first of F, or of what a deleted message
\* of mids has at its other end, and marks it; or it is done.
DeletesOf(s, l, F, mids, table) ==
  \/ l.pc = "done" /\ Rests(l)
  \/ /\ l.pc = "delete" /\ l.todo = {} /\ l.made = <<>>
     /\ l.found # {} /\ Applies(s, First(l.found))
     /\ \/ l.found \subseteq F /\ l.mids = mids
        \/ \E m \in mids : l.found \subseteq OtherSide(table, m) /\ l.mids = mids \ {m}
Marks(s, l, ign) ==
  ignore' = IF l.pc = "delete" /\ (s = "bale" \/ HasDeleteEvents)
              THEN ign \cup {First(l.found).msg} ELSE ign

LEMMA DeleteFromFacts ==
  ASSUME w \in [Side -> Local], NEW s \in Side, NEW F, F \subseteq Found,
         NEW P, FoundKnown(F, P), NEW mids, mids \subseteq Msg, NEW table, table \subseteq Row,
         NEW last, RowsKnown(table, last, P), NEW ign, DeleteFrom(s, F, mids, table, ign)
  PROVE  /\ w' \in [Side -> Local] /\ Others(s)
         /\ DeletesOf(s, w'[s], F, mids, table) /\ Marks(s, w'[s], ign)
<1> DEFINE Hits(G) == { o \in G : Applies(s, o) }
           Aim(G, left) ==
             LET o == First(Hits(G))
             IN  /\ Become(s, [Stopped("delete") EXCEPT
                                 !.found = { r \in G : r.row >= o.row }, !.mids = left])
                 /\ ignore' = IF s = "bale" \/ HasDeleteEvents THEN ign \cup {o.msg}
                                                                ELSE ign
           later == { m \in mids : Hits(OtherSide(table, m)) # {} }
<1>1. ASSUME NEW G, G \subseteq Found, FoundKnown(G, P), Hits(G) # {},
             NEW left, left \subseteq Msg, Aim(G, left)
      PROVE  /\ w' \in [Side -> Local] /\ Others(s) /\ Marks(s, w'[s], ign)
             /\ w'[s].pc = "delete" /\ w'[s].todo = {} /\ w'[s].made = <<>>
             /\ w'[s].found # {} /\ Applies(s, First(w'[s].found))
             /\ w'[s].found \subseteq G /\ w'[s].mids = left
  <2> DEFINE o == First(Hits(G))
             rest == { r \in G : r.row >= o.row }
             l == [Stopped("delete") EXCEPT !.found = rest, !.mids = left]
  <2>1. o \in Hits(G)
    BY <1>1, FirstFound
  <2>2. o \in G /\ Applies(s, o)
    BY <2>1
  <2>3. First(rest) = o /\ o \in rest
    BY <1>1, <2>2, FirstFrom DEF Found
  <2>4. Become(s, l) /\ ignore' = IF s = "bale" \/ HasDeleteEvents THEN ign \cup {o.msg} ELSE ign
    BY <1>1
  <2>5. rest \subseteq G /\ rest # {}
    BY <2>3
  <2> HIDE DEF rest, o
  <2>7. l \in Local
    <3>1. rest \in SUBSET Found /\ "delete" \in PC
      BY <1>1, <2>5 DEF PC
    <3> QED
      BY <1>1, <3>1, StoppedWith
  <2>8. w' \in [Side -> Local] /\ Others(s) /\ w'[s] = l
    BY <2>4, <2>7, BecomeFacts
  <2>9. /\ w'[s].pc = "delete" /\ w'[s].todo = {} /\ w'[s].made = <<>>
        /\ w'[s].found = rest /\ w'[s].mids = left
    BY <2>8 DEF Stopped
  <2>10. Marks(s, w'[s], ign)
    BY <2>3, <2>4, <2>9 DEF Marks
  <2> QED
    BY <2>2, <2>3, <2>5, <2>8, <2>9, <2>10
<1>2. \/ Hits(F) # {} /\ Aim(F, mids)
      \/ \E m \in later : Aim(OtherSide(table, m), mids \ {m})
      \/ Become(s, Stopped("done")) /\ ignore' = ign
  BY DEF DeleteFrom
<1>3. CASE Hits(F) # {} /\ Aim(F, mids)
  <2> HIDE DEF Aim, Hits
  <2> QED
    BY <1>1, <1>3 DEF DeletesOf
<1>4. CASE \E m \in later : Aim(OtherSide(table, m), mids \ {m})
  <2>1. PICK m \in later : Aim(OtherSide(table, m), mids \ {m})
    BY <1>4
  <2>2. m \in mids /\ Hits(OtherSide(table, m)) # {} /\ mids \ {m} \subseteq Msg
    BY <2>1
  <2>3. OtherSide(table, m) \subseteq Found /\ FoundKnown(OtherSide(table, m), P)
    BY OtherSideFacts
  <2> HIDE DEF Aim, Hits, later
  <2> QED
    BY <1>1, <2>1, <2>2, <2>3 DEF DeletesOf
<1>5. CASE Become(s, Stopped("done")) /\ ignore' = ign
  <2>1. Stopped("done") \in Local
    BY DEF Stopped, Local, PC
  <2> QED
    BY <1>5, <2>1, BecomeFacts DEF DeletesOf, Marks, Stopped, Rests
<1> QED
  BY <1>2, <1>3, <1>4, <1>5

LEMMA DeletesKnown ==
  ASSUME NEW s \in Side, NEW l, NEW j, NEW P, NEW F, NEW mids, NEW table, table \subseteq Row,
         NEW last, RowsKnown(table, last, P), DeletesOf(s, l, F, mids, table),
         FoundKnown(F, P), \A m \in mids : m \in P /\ SideOf(m.chat) = s, j.kind = "delete"
  PROVE  HandlerKnown(s, l, j, P)
<1>1. CASE l.pc = "done" /\ Rests(l)
  BY <1>1, RestKnown
<1>2. CASE ~(l.pc = "done" /\ Rests(l))
  <2>1. /\ l.pc = "delete" /\ l.todo = {} /\ l.made = <<>>
        /\ l.found # {} /\ Applies(s, First(l.found))
        /\ \/ l.found \subseteq F /\ l.mids = mids
           \/ \E m \in mids : l.found \subseteq OtherSide(table, m) /\ l.mids = mids \ {m}
    BY <1>2 DEF DeletesOf
  <2>2. FoundKnown(l.found, P) /\ l.mids \subseteq mids
    <3>1. CASE l.found \subseteq F /\ l.mids = mids
      BY <3>1 DEF FoundKnown
    <3>2. CASE \E m \in mids : l.found \subseteq OtherSide(table, m) /\ l.mids = mids \ {m}
      <4>1. PICK m \in mids : l.found \subseteq OtherSide(table, m) /\ l.mids = mids \ {m}
        BY <3>2
      <4>2. FoundKnown(OtherSide(table, m), P)
        BY OtherSideFacts
      <4> QED
        BY <4>1, <4>2 DEF FoundKnown
    <3> QED
      BY <2>1, <3>1, <3>2
  <2>3. SideOf(First(l.found).msg.chat) = Other(s)
    BY <2>1 DEF Applies
  <2> QED
    BY <2>1, <2>2, <2>3 DEF HandlerKnown, Editing, Deleting
<1> QED
  BY <1>1, <1>2

LEMMA DeletesRows ==
  ASSUME NEW s, NEW l, NEW P, NEW F, NEW mids, NEW table, table \subseteq Row,
         NEW last, RowsKnown(table, last, P), DeletesOf(s, l, F, mids, table),
         FoundRows(F, table, last)
  PROVE  FoundRows(l.found, table, last)
<1>1. CASE l.found = {}
  BY <1>1 DEF FoundRows
<1>2. CASE l.found \subseteq F
  BY <1>2 DEF FoundRows
<1>3. ASSUME NEW m \in mids, l.found \subseteq OtherSide(table, m)
      PROVE  FoundRows(l.found, table, last)
  <2>1. FoundRows(OtherSide(table, m), table, last)
    BY OtherSideFacts
  <2> QED
    BY <1>3, <2>1 DEF FoundRows
<1> QED
  BY <1>1, <1>2, <1>3 DEF DeletesOf, Rests

\* The echoes that come when a call has ended are events about what it made.
LEMMA LateEchoesKnown ==
  ASSUME BridgeInv, NEW s \in Side, LateEchoes(s), UNCHANGED posts
  PROVE  StreamKnown'
<1> DEFINE made == w[s].made
           echoes == [i \in DOMAIN made |-> NewEvent(made[i], At(made[i]).txt)]
<1>1. StreamKnown /\ Posted' = Posted /\ Posted \subseteq Msg /\ PostsTyped /\ Other(s) \in Side
  BY InvFacts, SamePosts, SideFacts
<1>2. made \in Seq(Msg) /\ DOMAIN made = 1..Len(made) /\ Len(made) \in Nat
      /\ \A i \in DOMAIN made : made[i] \in Posted /\ SideOf(made[i].chat) = Other(s)
  BY InvFacts DEF BridgeInv, HandlerKnown
<1>3. CASE UNCHANGED stream
  BY <1>1, <1>3, StreamStays
<1>4. CASE stream' = [stream EXCEPT ![Other(s)] = @ \o echoes]
  <2>1. ASSUME NEW i \in DOMAIN made
        PROVE  /\ NewEvent(made[i], At(made[i]).txt) \in HomeJob(Other(s), Posted)
               /\ NewEvent(made[i], At(made[i]).txt) \in Job
    <3> DEFINE m == made[i]
    <3>1. m \in Posted /\ SideOf(m.chat) = Other(s)
      BY <1>2
    <3> HIDE DEF m
    <3>2. NewEvent(m, At(m).txt) \in HomeJob(Other(s), Posted)
      BY <1>1, <3>1, PostedFacts, EventFacts
    <3> QED
      BY <3>2 DEF m, HomeJob
  <2>2. echoes \in Seq(HomeJob(Other(s), Posted)) /\ echoes \in Seq(Job)
    <3> HIDE DEF made
    <3> QED
      BY <1>2, <2>1
  <2> HIDE DEF echoes
  <2>3. stream \in [Side -> Seq(Job)] /\ \A r \in Side : stream[r] \in Seq(HomeJob(r, Posted))
    BY <1>1 DEF StreamKnown
  <2>4. stream[Other(s)] \o echoes \in Seq(HomeJob(Other(s), Posted))
        /\ stream[Other(s)] \o echoes \in Seq(Job)
    BY <1>1, <2>2, <2>3
  <2>5. \A r \in Side : stream'[r] = IF r = Other(s) THEN stream[Other(s)] \o echoes
                                                     ELSE stream[r]
    BY <1>4, <2>3
  <2>6. \A r \in Side : stream'[r] \in Seq(HomeJob(r, Posted))
    BY <2>3, <2>4, <2>5
  <2>7. stream' \in [Side -> Seq(Job)]
    BY <1>4, <2>3, <2>4
  <2> QED
    BY <1>1, <2>6, <2>7 DEF StreamKnown
<1> QED
  BY <1>3, <1>4 DEF LateEchoes

-----------------------------------------------------------------------------
(* Initially, and what users and the operator do *)

LEMMA InitKnown == Init => BridgeInv
<1> SUFFICES ASSUME Init PROVE BridgeInv
  OBVIOUS
<1>1. QueueTypeOK
  <2>1. stream \in [Side -> Seq(Job)] /\ q \in [Side -> Seq(Job)]
    BY DEF Init, QueueInit
  <2>2. job \in [Side -> Job \cup {NoJob}] /\ pending \in [Key -> Seq(Item)]
    BY DEF Init, QueueInit
  <2> QED
    BY <2>1, <2>2 DEF Init, QueueInit, QueueTypeOK
<1>2. posts \in [Chat -> Seq(PostRec)] /\ mode \in [PairId -> Mode \cup {"removed"}]
  BY PairAssumption DEF Init
<1>3. rows = {} /\ lastRow = 0 /\ fps = {} /\ turns = 0 /\ crashes = 0
  BY DEF Init
<1>4. Stopped("idle") \in Local /\ Rests(Stopped("idle")) /\ Stopped("idle").pc = "idle"
  BY StoppedFacts, StoppedRests DEF PC
<1>5. w \in [Side -> Local] /\ \A s \in Side : w[s] = Stopped("idle")
  BY <1>4 DEF Init
<1>6. TypeOK
  BY <1>1, <1>2, <1>3, <1>5 DEF TypeOK
<1>7. ASSUME NEW s \in Side
      PROVE  /\ JobsKnown(s, stream[s], q[s], job[s], Posted)
             /\ HandlerKnown(s, w[s], job[s], Posted)
             /\ FoundRows(w[s].found, rows, lastRow)
  BY <1>3, <1>4, <1>5, RestKnown DEF Init, QueueInit, JobsKnown, FoundRows, Rests
<1> QED
  BY <1>3, <1>6, <1>7 DEF BridgeInv, RowsKnown

LEMMA UserPostKeeps ==
  ASSUME BridgeInv, NEW c \in Chat, NEW t \in Text, UserPost(c, t)
  PROVE  BridgeInv'
<1> DEFINE p == [st |-> "live", txt |-> t, src |-> NoMsg]
<1>1. PICK m : m = [chat |-> c, id |-> Len(posts[c]) + 1]
  OBVIOUS
<1>2. /\ p \in PostRec /\ Len(posts[c]) < MaxId /\ posts' = [posts EXCEPT ![c] = Append(@, p)]
      /\ Emit(SideOf(c), NewEvent(m, t))
      /\ UNCHANGED <<q, job, pending, tasks, paused, sent, ignore, dbVars, w, boundVars>>
  BY <1>1 DEF UserPost, PostRec
<1>3. PostsTyped' /\ m \in Msg /\ Posted' = Posted \cup {m}
  BY <1>1, <1>2, InvFacts, Appended
<1>4. NewEvent(m, t) \in HomeJob(SideOf(c), Posted')
  <2>1. Posted' \subseteq Msg /\ m \in Posted' /\ m.chat = c
    BY <1>1, <1>3, InvFacts
  <2> QED
    BY <2>1, EventFacts
<1>5. StreamKnown'
  BY <1>2, <1>3, <1>4, InvFacts, SideOfType, EmitKnown
<1>6. RowsKnown(rows, lastRow, Posted') /\ \A s \in Side : HandlerKnown(s, w[s], job[s], Posted')
  BY <1>3, KnownStays DEF BridgeInv
<1>7. RowsGrow /\ \A s \in Side : FewerFound(s)
  BY <1>2, SameRows DEF dbVars, FewerFound
<1> QED
  BY <1>2, <1>3, <1>5, <1>6, <1>7, InvFacts, HandlerFrame DEF dbVars, boundVars, Side

\* An edit or a deletion of a user changes one post and may be reported.
LEMMA UserTurnKeeps ==
  ASSUME BridgeInv, NEW m \in Posted, NEW p \in PostRec, SetPost(m, p), Turn,
         NEW e \in HomeJob(SideOf(m.chat), Posted),
         UNCHANGED stream \/ Emit(SideOf(m.chat), e),
         UNCHANGED <<q, job, pending, tasks, paused, sent, ignore, dbVars, w, crashes>>
  PROVE  BridgeInv'
<1>1. PostsTyped' /\ Posted' = Posted
  BY InvFacts, Changed
<1>2. StreamKnown'
  BY <1>1, InvFacts, StreamStays, EmitKnown, SideOfType
<1>3. turns' \in Nat
  BY InvFacts DEF Turn
<1>4. RowsKnown(rows, lastRow, Posted') /\ \A s \in Side : HandlerKnown(s, w[s], job[s], Posted')
  BY <1>1 DEF BridgeInv
<1>5. RowsGrow /\ \A s \in Side : FewerFound(s)
  BY SameRows DEF dbVars, FewerFound
<1> QED
  BY <1>1, <1>2, <1>3, <1>4, <1>5, InvFacts, HandlerFrame DEF dbVars, Side

LEMMA UserEditKeeps ==
  ASSUME BridgeInv, NEW m \in Msg, NEW t \in Text, UserEdit(m, t)
  PROVE  BridgeInv'
<1>1. m \in Posted
  BY DEF UserEdit, MayTouch
<1>2. At(m) \in PostRec /\ [At(m) EXCEPT !.txt = t] \in PostRec
  BY <1>1, InvFacts, PostedFacts DEF PostRec
<1>3. EditEvent(m, t) \in HomeJob(SideOf(m.chat), Posted)
  BY <1>1, InvFacts, EventFacts
<1> QED
  BY <1>1, <1>2, <1>3, UserTurnKeeps DEF UserEdit

LEMMA UserDeleteKeeps ==
  ASSUME BridgeInv, NEW m \in Msg, UserDelete(m)
  PROVE  BridgeInv'
<1>1. m \in Posted
  BY DEF UserDelete, MayTouch
<1>2. At(m) \in PostRec /\ [At(m) EXCEPT !.st = "deleted"] \in PostRec
  BY <1>1, InvFacts, PostedFacts DEF PostRec
<1>3. DeleteEvent(m) \in HomeJob(SideOf(m.chat), Posted)
  <2>1. At(m).txt \in Text
    BY <1>1, InvFacts, PostedFacts
  <2> QED
    BY <1>1, <2>1, InvFacts, EventFacts
<1> QED
  BY <1>1, <1>2, <1>3, UserTurnKeeps DEF UserDelete

\* Changes of the tables alone.
LEMMA TablesKeep ==
  ASSUME BridgeInv, UNCHANGED <<queueVars, posts, lastRow, w, crashes>>,
         (mode \in [PairId -> Mode \cup {"removed"}])', turns' \in Nat,
         rows' \subseteq rows, fps' \subseteq fps
  PROVE  BridgeInv'
<1>1. PostsTyped' /\ Posted' = Posted /\ StreamKnown'
  BY InvFacts, SamePosts, StreamStays DEF queueVars
<1>2. rows' \subseteq Row /\ RowsKnown(rows', lastRow, Posted')
  BY <1>1, InvFacts, FewerRows
<1>3. \A s \in Side : HandlerKnown(s, w[s], job[s], Posted')
  BY <1>1 DEF BridgeInv
<1>4. RowsGrow /\ \A s \in Side : FewerFound(s)
  BY SameRows DEF FewerFound
<1> QED
  BY <1>1, <1>2, <1>3, <1>4, InvFacts, HandlerFrame DEF queueVars, Side

LEMMA OperatorKeeps ==
  ASSUME BridgeInv, NEW p \in PairId,
         (\E md \in Mode : SetMode(p, md)) \/ RemovePair(p)
  PROVE  BridgeInv'
<1>1. ASSUME NEW md \in Mode, SetMode(p, md) PROVE BridgeInv'
  <2>1. mode' \in [PairId -> Mode \cup {"removed"}]
    BY <1>1, InvFacts DEF SetMode
  <2>2. turns' \in Nat
    BY <1>1, InvFacts DEF SetMode, Turn
  <2> QED
    BY <1>1, <2>1, <2>2, TablesKeep DEF SetMode
<1>2. CASE RemovePair(p)
  <2>1. mode' \in [PairId -> Mode \cup {"removed"}]
    BY <1>2, InvFacts DEF RemovePair
  <2>2. turns' \in Nat
    BY <1>2, InvFacts DEF RemovePair, Turn
  <2>3. rows' \subseteq rows
    BY <1>2 DEF RemovePair, PurgePair
  <2> QED
    BY <1>2, <2>1, <2>2, <2>3, TablesKeep DEF RemovePair
<1> QED
  BY <1>1, <1>2

-----------------------------------------------------------------------------
(* Intake, workers, restart *)

\* What an entry point does when there are no albums: the event goes, or becomes
\* a job; a deletion loses what the bridge deleted itself.
LEMMA IntakeFacts ==
  ASSUME BridgeInv, NEW s \in Side, OnNew(s) \/ OnEdit(s) \/ OnDelete(s)
  PROVE  LET e == Head(stream[s])
         IN  /\ stream[s] # <<>> /\ e \in HomeJob(s, Posted)
             /\ stream' = [stream EXCEPT ![s] = Tail(@)]
             /\ UNCHANGED <<job, paused>>
             /\ \/ e.kind = "new" /\ (UNCHANGED q \/ Put(s, e)) /\ UNCHANGED ignore
                \/ e.kind = "edit" /\ (UNCHANGED q \/ Put(s, e)) /\ UNCHANGED ignore
                \/ /\ e.kind = "delete" /\ UNCHANGED sent
                   /\ ignore' = ignore \ e.ids
                   /\ UNCHANGED q \/ Put(s, [kind |-> "delete", ids |-> e.ids \ ignore])
             /\ \/ UNCHANGED sent
                \/ e.kind # "delete" /\ UNCHANGED q /\ sent' = sent \ {e.items[1].msg}
<1> DEFINE e == Head(stream[s])
<1>1. stream[s] # <<>> /\ stream' = [stream EXCEPT ![s] = Tail(@)] /\ UNCHANGED <<job, paused>>
  BY DEF OnNew, OnEdit, OnDelete, Arrives, Pop
<1>2. stream[s] \in Seq(HomeJob(s, Posted))
  BY InvFacts DEF StreamKnown
<1>3. e \in HomeJob(s, Posted)
  BY <1>1, <1>2, HeadTailProperties
<1>4. CASE OnNew(s)
  <2>1. e.kind = "new" /\ e \in Job
    BY <1>3, <1>4 DEF OnNew, Arrives, HomeJob
  <2>2. e.items[1] \in Item
    BY <2>1, FirstItem
  <2>3. e.items[1].grp = NoGroup
    BY <2>2, SinglesAssumption DEF Item
  <2> QED
    BY <1>1, <1>3, <1>4, <2>1, <2>3 DEF OnNew
<1>5. CASE OnEdit(s)
  BY <1>1, <1>3, <1>5 DEF OnEdit, Arrives
<1>6. CASE OnDelete(s)
  BY <1>1, <1>3, <1>6 DEF OnDelete, Arrives
<1> QED
  BY <1>4, <1>5, <1>6

\* A deletion of fewer messages is a job of the same side.
LEMMA FewerIds ==
  ASSUME NEW s, NEW P, NEW e \in HomeJob(s, P), e.kind = "delete", NEW ids, ids \subseteq e.ids
  PROVE  [kind |-> "delete", ids |-> ids] \in HomeJob(s, P)
<1>1. e \in DeleteJob /\ ids \subseteq Msg
  BY JobKinds DEF HomeJob, DeleteJob
<1>2. [kind |-> "delete", ids |-> ids] \in Job
  BY <1>1 DEF Job, DeleteJob
<1> QED
  BY <1>2 DEF HomeJob, About

LEMMA IntakeKeeps ==
  ASSUME BridgeInv, NEW s \in Side, Intake(s)
  PROVE  BridgeInv'
<1> DEFINE e == Head(stream[s])
           d == [kind |-> "delete", ids |-> e.ids \ ignore]
<1>1. /\ OnNew(s) \/ OnEdit(s) \/ OnDelete(s)
      /\ UNCHANGED <<posts, mode, rows, lastRow, fps, w, turns, crashes>>
  BY DEF Intake, dbVars, boundVars
<1>2. QueueTypeOK'
  BY <1>1, InvFacts, IntakeTypes
<1>3. /\ stream[s] # <<>> /\ stream' = [stream EXCEPT ![s] = Tail(@)]
      /\ UNCHANGED job
      /\ e \in HomeJob(s, Posted)
      /\ UNCHANGED q \/ Put(s, e) \/ (e.kind = "delete" /\ Put(s, d))
  BY <1>1, IntakeFacts
<1>4. \A r \in Side : /\ stream[r] \in Seq(HomeJob(r, Posted))
                      /\ q[r] \in Seq(HomeJob(r, Posted))
                      /\ job[r] \in HomeJob(r, Posted) \cup {NoJob}
  BY DEF BridgeInv, JobsKnown
<1>5. Tail(stream[s]) \in Seq(HomeJob(s, Posted))
  BY <1>3, <1>4, HeadTailProperties
<1>6. \A r \in Side : stream'[r] \in Seq(HomeJob(r, Posted))
  BY <1>3, <1>4, <1>5, InvFacts DEF QueueTypeOK
<1>7. e.kind = "delete" => d \in HomeJob(s, Posted)
  BY <1>3, FewerIds
<1>8. ASSUME NEW j \in HomeJob(s, Posted), Put(s, j), NEW r \in Side
      PROVE  q'[r] \in Seq(HomeJob(r, Posted))
  <2>1. Append(q[s], j) \in Seq(HomeJob(s, Posted))
    BY <1>4
  <2>2. q'[r] = IF r = s THEN Append(q[s], j) ELSE q[r]
    BY <1>8, InvFacts DEF Put, QueueTypeOK
  <2> QED
    BY <1>4, <2>1, <2>2
<1>9. \A r \in Side : q'[r] \in Seq(HomeJob(r, Posted))
  BY <1>3, <1>4, <1>7, <1>8
<1>10. PostsTyped' /\ Posted' = Posted
  BY <1>1, InvFacts, SamePosts
<1>11. \A r \in Side : /\ JobsKnown(r, stream'[r], q'[r], job'[r], Posted')
                       /\ HandlerKnown(r, w'[r], job'[r], Posted')
                       /\ FoundRows(w'[r].found, rows', lastRow')
  BY <1>1, <1>3, <1>4, <1>6, <1>9, <1>10 DEF JobsKnown, BridgeInv
<1> QED
  BY <1>1, <1>2, <1>10, <1>11, InvFacts, Assemble

\* A worker takes a job: the queue loses its head.
LEMMA TakeFacts ==
  ASSUME BridgeInv, NEW s \in Side, Take(s)
  PROVE  /\ q[s] # <<>> /\ Head(q[s]) \in HomeJob(s, Posted) /\ Head(q[s]) \in Job
         /\ q' = [q EXCEPT ![s] = Tail(@)] /\ job' = [job EXCEPT ![s] = Head(q[s])]
         /\ UNCHANGED <<stream, pending, tasks, paused>>
         /\ q' \in [Side -> Seq(Job)] /\ job' \in [Side -> Job \cup {NoJob}]
         /\ job'[s] = Head(q[s]) /\ \A r \in Side : r # s => job'[r] = job[r]
         /\ \A r \in Side : JobsKnown(r, stream[r], q'[r], job'[r], Posted)
<1>1. /\ q[s] # <<>> /\ q' = [q EXCEPT ![s] = Tail(@)] /\ job' = [job EXCEPT ![s] = Head(q[s])]
      /\ UNCHANGED <<stream, pending, tasks, paused>>
  BY DEF Take, Dequeue
<1>2. \A r \in Side : JobsKnown(r, stream[r], q[r], job[r], Posted)
  BY DEF BridgeInv
<1>3. q[s] \in Seq(HomeJob(s, Posted))
  BY <1>2 DEF JobsKnown
<1>4. Head(q[s]) \in HomeJob(s, Posted) /\ Tail(q[s]) \in Seq(HomeJob(s, Posted))
  BY <1>1, <1>3, HeadTailProperties
<1>5. Head(q[s]) \in Job
  BY <1>4 DEF HomeJob
<1>6. q \in [Side -> Seq(Job)] /\ job \in [Side -> Job \cup {NoJob}]
  BY InvFacts DEF QueueTypeOK
<1>7. Tail(q[s]) \in Seq(Job)
  BY <1>1, <1>6, HeadTailProperties
<1>8. q' \in [Side -> Seq(Job)] /\ job' \in [Side -> Job \cup {NoJob}]
  BY <1>1, <1>5, <1>6, <1>7
<1>9. ASSUME NEW r \in Side
      PROVE  /\ q'[r] = IF r = s THEN Tail(q[s]) ELSE q[r]
             /\ job'[r] = IF r = s THEN Head(q[s]) ELSE job[r]
  BY <1>1, <1>6
<1>10. ASSUME NEW r \in Side PROVE JobsKnown(r, stream[r], q'[r], job'[r], Posted)
  <2>1. CASE r = s
    BY <1>2, <1>4, <1>9, <2>1 DEF JobsKnown
  <2>2. CASE r # s
    BY <1>2, <1>9, <2>2
  <2> QED
    BY <2>1, <2>2
<1> QED
  BY <1>1, <1>4, <1>5, <1>8, <1>9, <1>10

\* A handler starts.
LEMMA StartFrame ==
  ASSUME BridgeInv, NEW s \in Side, Take(s), sent' \subseteq Msg, ignore' \subseteq Msg,
         UNCHANGED <<posts, mode, rows, lastRow, turns, crashes>>, fps' \subseteq fps,
         w' \in [Side -> Local], Others(s), HandlerKnown(s, w'[s], Head(q[s]), Posted),
         FoundRows(w'[s].found, rows, lastRow)
  PROVE  BridgeInv'
<1>1. PostsTyped' /\ Posted' = Posted
  BY InvFacts, SamePosts
<1>2. QueueTypeOK'
  BY InvFacts, TakeFacts DEF QueueTypeOK
<1>3. ASSUME NEW r \in Side
      PROVE  /\ JobsKnown(r, stream'[r], q'[r], job'[r], Posted')
             /\ HandlerKnown(r, w'[r], job'[r], Posted')
             /\ FoundRows(w'[r].found, rows', lastRow')
  <2>1. JobsKnown(r, stream'[r], q'[r], job'[r], Posted')
    BY <1>1, TakeFacts
  <2>2. CASE r = s
    BY <1>1, <2>1, <2>2, TakeFacts
  <2>3. CASE r # s
    <3>1. w'[r] = w[r] /\ job'[r] = job[r]
      BY <2>3, TakeFacts DEF Others
    <3> QED
      BY <1>1, <2>1, <3>1 DEF BridgeInv
  <2> QED
    BY <2>2, <2>3
<1> QED
  BY <1>1, <1>2, <1>3, InvFacts, Assemble

LEMMA StartNewKeeps ==
  ASSUME BridgeInv, NEW s \in Side, StartNew(s)
  PROVE  BridgeInv'
<1> DEFINE it == Head(q[s]).items[1]
           pairs == PairsFor(s, it.msg.chat)
<1>1. /\ Take(s) /\ Head(q[s]).kind = "new" /\ sent' \subseteq sent /\ fps' \subseteq fps
      /\ UNCHANGED <<ignore, posts, mode, rows, lastRow, turns, crashes>>
      /\ \/ Become(s, Stopped("done"))
         \/ Become(s, IF pairs = {} THEN Stopped("done")
                      ELSE [Stopped("send") EXCEPT !.todo = pairs])
  BY DEF StartNew, Starts, boundVars
<1>2. /\ w' \in [Side -> Local] /\ Others(s)
      /\ HandlerKnown(s, w'[s], Head(q[s]), Posted) /\ w'[s].found = {}
  <2>1. CASE Become(s, Stopped("done"))
    BY <2>1, InvFacts, StoppedFacts, StoppedRests, BecomeFacts, RestKnown DEF PC
  <2>2. CASE Become(s, IF pairs = {} THEN Stopped("done")
                       ELSE [Stopped("send") EXCEPT !.todo = pairs])
    <3>1. pairs \subseteq PairId /\ \A p \in pairs : PairChat(Other(s), p) = it.msg.chat
      BY DEF PairsFor, PairChat, Other, Side
    <3> HIDE DEF pairs
    <3>2. w' \in [Side -> Local] /\ Others(s) /\ SendsTo(w'[s], pairs)
      BY <2>2, <3>1, InvFacts, SendFrom
    <3>3. w'[s].found = {}
      BY <3>2 DEF SendsTo, Rests
    <3> QED
      BY <1>1, <3>1, <3>2, <3>3, SendsKnown
  <2> QED
    BY <1>1, <2>1, <2>2
<1>3. FoundRows(w'[s].found, rows, lastRow)
  BY <1>2 DEF FoundRows
<1> QED
  BY <1>1, <1>2, <1>3, InvFacts, StartFrame

LEMMA StartEditKeeps ==
  ASSUME BridgeInv, NEW s \in Side, StartEdit(s)
  PROVE  BridgeInv'
<1> DEFINE F == OtherSide(rows, Head(q[s]).items[1].msg)
<1>1. /\ Take(s) /\ Head(q[s]).kind = "edit" /\ EditFrom(s, F)
      /\ UNCHANGED <<sent, ignore, posts, mode, rows, lastRow, fps, turns, crashes>>
  BY DEF StartEdit, Starts, dbVars, boundVars
<1>2. F \subseteq Found /\ FoundKnown(F, Posted) /\ FoundRows(F, rows, lastRow)
  BY InvFacts, OtherSideFacts
<1> HIDE DEF F
<1>3. w' \in [Side -> Local] /\ Others(s) /\ EditsOf(s, w'[s], F)
  BY <1>1, <1>2, InvFacts, EditFromFacts
<1>4. HandlerKnown(s, w'[s], Head(q[s]), Posted)
  BY <1>1, <1>2, <1>3, EditsKnown
<1>5. FoundRows(w'[s].found, rows, lastRow)
  BY <1>2, <1>3 DEF EditsOf, Rests, FoundRows
<1> QED
  BY <1>1, <1>3, <1>4, <1>5, InvFacts, StartFrame

LEMMA StartDeleteKeeps ==
  ASSUME BridgeInv, NEW s \in Side, StartDelete(s)
  PROVE  BridgeInv'
<1> DEFINE mids == Head(q[s]).ids
<1>1. /\ Take(s) /\ Head(q[s]).kind = "delete" /\ DeleteFrom(s, {}, mids, rows, ignore)
      /\ UNCHANGED <<sent, posts, mode, rows, lastRow, fps, turns, crashes>>
  BY DEF StartDelete, Starts, dbVars, boundVars
<1>2. \A m \in mids : m \in Posted /\ SideOf(m.chat) = s
  BY <1>1, TakeFacts DEF HomeJob, About
<1>3. {} \subseteq Found /\ FoundKnown({}, Posted) /\ mids \subseteq Msg
  BY <1>2, InvFacts DEF FoundKnown
<1> HIDE DEF mids
<1>4. /\ w' \in [Side -> Local] /\ Others(s)
      /\ DeletesOf(s, w'[s], {}, mids, rows) /\ Marks(s, w'[s], ignore)
  BY <1>1, <1>3, InvFacts, DeleteFromFacts
<1>5. HandlerKnown(s, w'[s], Head(q[s]), Posted)
  BY <1>1, <1>2, <1>3, <1>4, InvFacts, DeletesKnown
<1>6. ignore' \subseteq Msg
  <2>1. CASE w'[s].pc = "delete"
    <3>1. w'[s].found \subseteq Found /\ w'[s].found # {}
      BY <1>4, <2>1 DEF DeletesOf, Local
    <3>2. First(w'[s].found).msg \in Msg
      BY <3>1, FirstFound DEF Found
    <3> QED
      BY <1>4, <3>2, InvFacts DEF Marks
  <2>2. CASE w'[s].pc # "delete"
    BY <1>4, <2>2, InvFacts DEF Marks
  <2> QED
    BY <2>1, <2>2
<1>7. FoundRows(w'[s].found, rows, lastRow)
  <2>1. FoundRows({}, rows, lastRow)
    BY DEF FoundRows
  <2> QED
    BY <1>4, <2>1, InvFacts, DeletesRows
<1> QED
  BY <1>1, <1>4, <1>5, <1>6, <1>7, InvFacts, StartFrame

LEMMA ReturnKeeps ==
  ASSUME BridgeInv, NEW s \in Side, Return(s)
  PROVE  BridgeInv'
<1>1. /\ Done(s) /\ Become(s, Stopped("idle"))
      /\ UNCHANGED <<sent, ignore, posts, mode, rows, lastRow, fps, turns, crashes>>
  BY DEF Return, dbVars, boundVars
<1>2. /\ w' \in [Side -> Local] /\ Others(s) /\ w'[s] = Stopped("idle")
      /\ Rests(w'[s]) /\ w'[s].pc = "idle"
  BY <1>1, InvFacts, StoppedFacts, StoppedRests, BecomeFacts DEF PC
<1>3. job' = [job EXCEPT ![s] = NoJob] /\ UNCHANGED <<stream, q, pending, tasks, paused>>
  BY <1>1 DEF Done
<1>4. job \in [Side -> Job \cup {NoJob}]
  BY InvFacts DEF QueueTypeOK
<1>5. QueueTypeOK'
  BY <1>1, <1>3, <1>4, InvFacts DEF QueueTypeOK
<1>6. PostsTyped' /\ Posted' = Posted
  BY <1>1, InvFacts, SamePosts
<1>7. ASSUME NEW r \in Side
      PROVE  /\ JobsKnown(r, stream'[r], q'[r], job'[r], Posted')
             /\ HandlerKnown(r, w'[r], job'[r], Posted')
             /\ FoundRows(w'[r].found, rows', lastRow')
  <2>1. JobsKnown(r, stream[r], q[r], job[r], Posted) /\ HandlerKnown(r, w[r], job[r], Posted)
        /\ FoundRows(w[r].found, rows, lastRow)
    BY DEF BridgeInv
  <2>2. CASE r = s
    <3>1. FoundRows(w'[r].found, rows', lastRow')
      BY <1>2, <2>2 DEF Rests, FoundRows
    <3> QED
      BY <1>2, <1>3, <1>4, <1>6, <2>1, <2>2, <3>1, RestKnown DEF JobsKnown
  <2>3. CASE r # s
    BY <1>1, <1>2, <1>3, <1>4, <1>6, <2>1, <2>3 DEF Others
  <2> QED
    BY <2>2, <2>3
<1> QED
  BY <1>1, <1>2, <1>5, <1>6, <1>7, InvFacts, Assemble

LEMMA CrashKeeps ==
  ASSUME BridgeInv, Crash
  PROVE  BridgeInv'
<1>1. /\ Restart /\ w' = [s \in Side |-> Stopped("idle")] /\ crashes' = crashes + 1
      /\ UNCHANGED <<posts, mode, rows, lastRow, fps, turns>>
  BY DEF Crash, dbVars
<1>2. PostsTyped' /\ Posted' = Posted
  BY <1>1, InvFacts, SamePosts
<1>3. w' \in [Side -> Local] /\ \A s \in Side : Rests(w'[s]) /\ w'[s].pc = "idle"
  BY <1>1, StoppedFacts, StoppedRests DEF PC
<1>4. /\ q' = [s \in Side |-> <<>>] /\ job' = [s \in Side |-> NoJob]
      /\ pending' = [k \in Key |-> <<>>] /\ tasks' = {} /\ ignore' = {}
      /\ UNCHANGED <<paused, sent>>
      /\ stream' = [s \in Side |-> IF s = "bale" /\ BaleMode = "bot" THEN stream[s] ELSE <<>>]
  BY <1>1 DEF Restart
<1>5. \A s \in Side : stream[s] \in Seq(HomeJob(s, Posted)) /\ stream[s] \in Seq(Job)
  BY InvFacts DEF StreamKnown
<1>6. ASSUME NEW r \in Side
      PROVE  /\ JobsKnown(r, stream'[r], q'[r], job'[r], Posted')
             /\ HandlerKnown(r, w'[r], job'[r], Posted')
             /\ FoundRows(w'[r].found, rows', lastRow')
  <2>1. stream'[r] \in Seq(HomeJob(r, Posted))
    BY <1>4, <1>5
  <2>2. q'[r] = <<>> /\ job'[r] = NoJob
    BY <1>4
  <2>3. FoundRows(w'[r].found, rows', lastRow')
    BY <1>3 DEF Rests, FoundRows
  <2> QED
    BY <1>2, <1>3, <2>1, <2>2, <2>3, RestKnown DEF JobsKnown
<1>7. stream' \in [Side -> Seq(Job)]
  BY <1>4, <1>5
<1>8. q' \in [Side -> Seq(Job)] /\ job' \in [Side -> Job \cup {NoJob}]
      /\ pending' \in [Key -> Seq(Item)]
  BY <1>4
<1>9. QueueTypeOK'
  BY <1>4, <1>7, <1>8, InvFacts DEF QueueTypeOK
<1> QED
  BY <1>1, <1>2, <1>3, <1>6, <1>9, InvFacts, Assemble

-----------------------------------------------------------------------------
(* Steps of a handler *)

LEMMA NextEditFacts ==
  ASSUME BridgeInv, NEW s \in Side, w[s].pc \in Editing, NextEdit(s)
  PROVE  /\ w' \in [Side -> Local] /\ Others(s)
         /\ EditsOf(s, w'[s], w[s].found \ {Target(s)})
         /\ HandlerKnown(s, w'[s], job[s], Posted) /\ FewerFound(s)
<1> DEFINE F == w[s].found \ {Target(s)}
<1>1. /\ FoundKnown(w[s].found, Posted) /\ job[s].kind = "edit"
  BY DEF BridgeInv, HandlerKnown
<1>2. F \subseteq Found /\ FoundKnown(F, Posted)
  BY <1>1, InvFacts DEF FoundKnown
<1>3. EditFrom(s, F)
  BY DEF NextEdit
<1> HIDE DEF F
<1>4. w' \in [Side -> Local] /\ Others(s) /\ EditsOf(s, w'[s], F)
  BY <1>2, <1>3, InvFacts, EditFromFacts
<1>5. HandlerKnown(s, w'[s], job[s], Posted)
  BY <1>1, <1>2, <1>4, EditsKnown
<1>6. FewerFound(s)
  BY <1>4 DEF EditsOf, Rests, FewerFound, F
<1> QED
  BY <1>4, <1>5, <1>6 DEF F

LEMMA NextPairFacts ==
  ASSUME BridgeInv, NEW s \in Side, w[s].pc = "send", NextPair(s)
  PROVE  /\ w' \in [Side -> Local] /\ Others(s)
         /\ SendsTo(w'[s], w[s].todo \ {FirstPair(s)})
         /\ HandlerKnown(s, w'[s], job[s], Posted) /\ FewerFound(s)
<1> DEFINE pairs == w[s].todo \ {FirstPair(s)}
<1>1. /\ pairs \subseteq PairId /\ job[s].kind = "new"
      /\ \A p \in pairs : PairChat(Other(s), p) = job[s].items[1].msg.chat
  BY InvFacts DEF BridgeInv, HandlerKnown
<1>2. Become(s, IF pairs = {} THEN Stopped("done") ELSE [Stopped("send") EXCEPT !.todo = pairs])
  BY DEF NextPair
<1> HIDE DEF pairs
<1>3. w' \in [Side -> Local] /\ Others(s) /\ SendsTo(w'[s], pairs)
  BY <1>1, <1>2, InvFacts, SendFrom
<1>4. HandlerKnown(s, w'[s], job[s], Posted)
  BY <1>1, <1>3, SendsKnown
<1>5. FewerFound(s)
  BY <1>3 DEF SendsTo, Rests, FewerFound
<1> QED
  BY <1>3, <1>4, <1>5 DEF pairs

\* From one call of an edit, or of a deletion, to the next.
LEMMA GotoKnown ==
  ASSUME BridgeInv, NEW s \in Side, NEW pc, Goto(s, pc), NEW P, Posted \subseteq P,
         \/ w[s].pc \in Editing /\ pc \in Editing
         \/ w[s].pc \in Deleting /\ pc \in Deleting
  PROVE  /\ w' \in [Side -> Local] /\ Others(s)
         /\ HandlerKnown(s, w'[s], job[s], P) /\ FewerFound(s)
         /\ w'[s].pc = pc /\ w'[s].todo = w[s].todo /\ w'[s].found = w[s].found
         /\ w'[s].mids = w[s].mids /\ w'[s].made = w[s].made
<1>1. /\ w' \in [Side -> Local] /\ Others(s)
      /\ w'[s].pc = pc /\ w'[s].todo = w[s].todo /\ w'[s].found = w[s].found
      /\ w'[s].mids = w[s].mids /\ w'[s].made = w[s].made
  BY InvFacts, GotoFacts DEF PC, Editing, Deleting
<1>2. HandlerKnown(s, w[s], job[s], P)
  BY KnownStays DEF BridgeInv
<1>3. HandlerKnown(s, w'[s], job[s], P)
  BY <1>1, <1>2 DEF HandlerKnown, Editing, Deleting
<1> QED
  BY <1>1, <1>3 DEF FewerFound

LEMMA SendChatFacts ==
  ASSUME BridgeInv, NEW s \in Side, w[s].pc \in {"send", "resend"}
  PROVE  /\ SendChat(s) \in Chat /\ SideOf(SendChat(s)) = Other(s)
         /\ w[s].pc = "send" => SendChat(s) = PairChat(s, Least(w[s].todo))
         /\ w[s].pc = "resend" => SendChat(s) = PairChat(s, First(w[s].found).pair)
<1>1. CASE w[s].pc = "send"
  <2>1. w[s].todo \subseteq PairId /\ w[s].todo # {}
    BY <1>1, InvFacts DEF BridgeInv, HandlerKnown
  <2>2. FirstPair(s) \in PairId
    BY <2>1, FirstPairLeft
  <2> QED
    BY <1>1, <2>2, PairChats DEF SendChat, FirstPair, Least
<1>2. CASE w[s].pc = "resend"
  <2>1. /\ Target(s).msg.chat \in Chat /\ SideOf(Target(s).msg.chat) = Other(s)
        /\ Target(s).pair \in PairId /\ Target(s).msg.chat = PairChat(s, Target(s).pair)
    BY <1>2, TargetFacts DEF Editing
  <2>2. SendChat(s) = PairChat(s, Target(s).pair)
    BY <1>2, <2>1 DEF SendChat, PairChat
  <2> QED
    BY <1>2, <2>1, <2>2, PairChats DEF Target
<1> QED
  BY <1>1, <1>2

\* A send: the post, and the local state that names it.
LEMMA SendFacts ==
  ASSUME BridgeInv, NEW s \in Side, Send(s), NEW m,
         m = [chat |-> SendChat(s), id |-> Len(posts[SendChat(s)]) + 1]
  PROVE  /\ PostsTyped' /\ m \in Msg /\ m \notin Posted /\ Posted' = Posted \cup {m}
         /\ m.chat = SendChat(s) /\ SideOf(m.chat) = Other(s)
         /\ At(m)' = [st |-> "live", txt |-> Source(s).txt, src |-> Source(s).msg]
         /\ \A n \in Posted : At(n)' = At(n)
         /\ w' \in [Side -> Local] /\ Others(s)
         /\ w'[s].pc = w[s].pc /\ w'[s].todo = w[s].todo /\ w'[s].found = w[s].found
         /\ w'[s].mids = w[s].mids /\ w'[s].made = Append(w[s].made, m)
<1> DEFINE c == SendChat(s)
           p == [st |-> "live", txt |-> Source(s).txt, src |-> Source(s).msg]
<1>1. /\ w[s].pc \in {"send", "resend"} /\ Len(posts[c]) < MaxId
      /\ posts' = [posts EXCEPT ![c] = Append(@, p)]
      /\ w' = [w EXCEPT ![s].made = Append(@, m)]
  BY DEF Send
<1>2. c \in Chat /\ SideOf(c) = Other(s)
  BY <1>1, SendChatFacts
<1>3. Source(s).txt \in Text /\ Source(s).msg \in Msg
  BY <1>1, InvFacts, SourceFacts DEF Editing
<1>4. p \in PostRec
  BY <1>3 DEF PostRec
<1>5. m = [chat |-> c, id |-> Len(posts[c]) + 1]
  OBVIOUS
<1> HIDE DEF c, p
<1>6. /\ PostsTyped' /\ m \in Msg /\ m \notin Posted /\ Posted' = Posted \cup {m}
      /\ At(m)' = p /\ \A n \in Posted : At(n)' = At(n)
  BY <1>1, <1>2, <1>4, <1>5, InvFacts, Appended
<1>7. m.chat = c
  BY <1>5
<1>8. w[s] \in Local /\ Append(w[s].made, m) \in Seq(Msg)
  BY <1>6, InvFacts
<1>9. w' = [w EXCEPT ![s] = [w[s] EXCEPT !.made = Append(w[s].made, m)]]
  BY <1>1
<1>10. [w[s] EXCEPT !.made = Append(w[s].made, m)] \in Local
  BY <1>8 DEF Local
<1>11. w'[s] = [w[s] EXCEPT !.made = Append(w[s].made, m)]
  BY <1>9, InvFacts
<1>12. w' \in [Side -> Local] /\ Others(s)
  BY <1>9, <1>10, InvFacts DEF Others
<1>13. /\ w'[s].pc = w[s].pc /\ w'[s].todo = w[s].todo /\ w'[s].found = w[s].found
       /\ w'[s].mids = w[s].mids /\ w'[s].made = Append(w[s].made, m)
  BY <1>8, <1>11 DEF Local
<1> QED
  BY <1>2, <1>6, <1>7, <1>12, <1>13 DEF c, p

LEMMA SendKeeps ==
  ASSUME BridgeInv, NEW s \in Side, Send(s)
  PROVE  BridgeInv'
<1>1. PICK m : m = [chat |-> SendChat(s), id |-> Len(posts[SendChat(s)]) + 1]
  OBVIOUS
<1>2. /\ w[s].pc \in {"send", "resend"}
      /\ Echo(Other(s), "new", NewEvent(m, Source(s).txt)) \/ UNCHANGED stream
      /\ UNCHANGED <<q, job, pending, tasks, paused, sent, ignore, mode, rows, lastRow, fps,
                     turns, crashes>>
  BY <1>1 DEF Send, dbVars, boundVars
<1>3. /\ PostsTyped' /\ m \in Msg /\ m \notin Posted /\ Posted' = Posted \cup {m}
      /\ SideOf(m.chat) = Other(s) /\ w' \in [Side -> Local] /\ Others(s)
      /\ w'[s].pc = w[s].pc /\ w'[s].todo = w[s].todo /\ w'[s].found = w[s].found
      /\ w'[s].mids = w[s].mids /\ w'[s].made = Append(w[s].made, m)
  BY <1>1, SendFacts
<1>4. Posted \subseteq Posted' /\ m \in Posted' /\ Posted' \subseteq Msg
  BY <1>3, InvFacts
<1>5. NewEvent(m, Source(s).txt) \in HomeJob(Other(s), Posted')
  BY <1>2, <1>3, <1>4, SourceFacts, EventFacts DEF Editing
<1>6. StreamKnown'
  BY <1>2, <1>4, <1>5, InvFacts, SideFacts, StreamStays, EchoKnown
<1>7. HandlerKnown(s, w[s], job[s], Posted')
  BY <1>4, KnownStays DEF BridgeInv
<1>8. ASSUME NEW i \in DOMAIN w'[s].made
      PROVE  /\ w'[s].made[i] \in Posted' /\ SideOf(w'[s].made[i].chat) = Other(s)
             /\ w[s].pc = "send" => w'[s].made[i].chat = PairChat(s, Least(w[s].todo))
             /\ w[s].pc \in Editing =>
                  w'[s].made[i].chat = PairChat(s, First(w[s].found).pair)
  <2>1. w[s].made \in Seq(Msg)
    BY InvFacts
  <2>2. w'[s].made[i] = m \/ (i \in DOMAIN w[s].made /\ w'[s].made[i] = w[s].made[i])
    BY <1>3, <2>1
  <2>3. CASE w'[s].made[i] = m
    <3>1. m.chat = SendChat(s)
      BY <1>1
    <3> QED
      BY <1>2, <1>3, <1>4, <2>3, <3>1, SendChatFacts DEF Editing
  <2>4. CASE i \in DOMAIN w[s].made /\ w'[s].made[i] = w[s].made[i]
    BY <1>7, <2>4 DEF HandlerKnown
  <2> QED
    BY <2>2, <2>3, <2>4
<1>9. HandlerKnown(s, w'[s], job[s], Posted')
  BY <1>3, <1>7, <1>8 DEF HandlerKnown
<1>10. RowsKnown(rows, lastRow, Posted') /\ RowsGrow /\ FewerFound(s)
  BY <1>2, <1>3, <1>4, InvFacts, KnownStays, SameRows DEF FewerFound
<1> QED
  BY <1>2, <1>3, <1>4, <1>6, <1>9, <1>10, InvFacts, HandlerFrame DEF Others

LEMMA RecordKeeps ==
  ASSUME BridgeInv, NEW s \in Side, Record(s)
  PROVE  BridgeInv'
<1> DEFINE made == w[s].made
           it == Source(s)
<1>1. /\ w[s].pc = "send" /\ NextPair(s) /\ LateEchoes(s)
      /\ rows' = AddRows(rows, lastRow, FirstPair(s), it.msg, made)
      /\ lastRow' = lastRow + Len(made)
      /\ sent' = sent \cup Range(made)
      /\ fps' = fps \cup { [chat |-> SendChat(s), txt |-> it.txt, of |-> m] : m \in Range(made) }
      /\ UNCHANGED <<q, job, pending, tasks, paused, ignore, posts, mode, turns, crashes>>
  BY DEF Record, Mark, boundVars
<1>2. PostsTyped' /\ Posted' = Posted
  BY <1>1, InvFacts, SamePosts
<1>3. /\ made \in Seq(Msg) /\ \A i \in DOMAIN made : made[i] \in Posted
      /\ w[s].todo \subseteq PairId /\ w[s].todo # {}
      /\ \A i \in DOMAIN made : made[i].chat = PairChat(s, Least(w[s].todo))
      /\ \A p \in w[s].todo : PairChat(Other(s), p) = it.msg.chat
  BY <1>1, InvFacts DEF BridgeInv, HandlerKnown, Source
<1>4. made \in Seq(Posted) /\ Range(made) \subseteq Posted /\ Len(made) \in Nat
  BY <1>3 DEF Range
<1>a. FirstPair(s) \in w[s].todo /\ FirstPair(s) \in PairId
  BY <1>3, FirstPairLeft
<1>b. it.msg \in Posted /\ it.txt \in Text
  BY <1>1, SourceFacts
<1>c. SendChat(s) \in Chat
  BY <1>1, SendChatFacts
<1>d. it.msg.chat \in Ends(FirstPair(s)) /\ \A i \in DOMAIN made : made[i].chat \in Ends(FirstPair(s))
  <2>1. Least(w[s].todo) = FirstPair(s)
    BY DEF FirstPair, Least
  <2>2. \A r \in Side, p \in PairId : PairChat(r, p) \in Ends(p)
    BY DEF PairChat, Ends
  <2> QED
    BY <1>3, <1>a, <2>1, <2>2, SideFacts
<1>5. /\ FirstPair(s) \in PairId /\ it.msg \in Posted /\ it.txt \in Text
      /\ SendChat(s) \in Chat
  BY <1>a, <1>b, <1>c
<1> HIDE DEF made, it
<1>e. /\ rows' \subseteq Row /\ RowsKnown(rows', lastRow', Posted)
      /\ \A r \in rows' : r \in rows \/ r.id > lastRow
  <2>1. made \in Seq(Msg)
    BY <1>3
  <2> QED
    BY <1>1, <1>4, <1>5, <1>d, <2>1, InvFacts, AddRowsFacts, AddedRows
<1>6. rows' \subseteq Row /\ lastRow' \in Nat /\ RowsKnown(rows', lastRow', Posted')
  BY <1>1, <1>2, <1>4, <1>e, InvFacts
<1>f. RowsGrow
  <2>1. lastRow <= lastRow'
    BY <1>1, <1>4, InvFacts
  <2> QED
    BY <1>e, <2>1 DEF RowsGrow
<1>7. sent' \subseteq Msg
  BY <1>1, <1>4, InvFacts
<1>8. fps' \subseteq Fingerprint
  <2>1. \A m \in Range(made) :
          [chat |-> SendChat(s), txt |-> it.txt, of |-> m] \in Fingerprint
    BY <1>4, <1>5, InvFacts DEF Fingerprint
  <2> QED
    BY <1>1, <2>1, InvFacts
<1>9. StreamKnown'
  BY <1>1, LateEchoesKnown
<1>10. /\ w' \in [Side -> Local] /\ Others(s) /\ HandlerKnown(s, w'[s], job[s], Posted')
       /\ FewerFound(s)
  BY <1>1, <1>2, NextPairFacts
<1> QED
  BY <1>1, <1>2, <1>6, <1>7, <1>8, <1>9, <1>10, <1>f, InvFacts, HandlerFrame DEF Others

\* Steps that leave the posts and the tables alone.
LEMMA LocalStep ==
  ASSUME BridgeInv, NEW s \in Side, StreamKnown', ignore' \subseteq Msg,
         UNCHANGED <<q, job, pending, tasks, paused, sent, posts, mode, rows, lastRow, fps,
                     turns, crashes>>,
         w' \in [Side -> Local], Others(s), HandlerKnown(s, w'[s], job[s], Posted),
         FewerFound(s)
  PROVE  BridgeInv'
<1>1. PostsTyped' /\ Posted' = Posted
  BY InvFacts, SamePosts
<1>2. RowsGrow
  BY SameRows
<1> QED
  BY <1>1, <1>2, InvFacts, HandlerFrame DEF Others

LEMMA SendFailsKeeps ==
  ASSUME BridgeInv, NEW s \in Side, SendFails(s)
  PROVE  BridgeInv'
<1>1. /\ w[s].pc \in {"send", "resend"} /\ LateEchoes(s)
      /\ UNCHANGED <<q, job, pending, tasks, paused, sent, posts, mode, rows, lastRow, fps,
                     turns, crashes>>
  BY DEF SendFails, dbVars, boundVars
<1>2. StreamKnown'
  BY <1>1, LateEchoesKnown
<1>3. ignore' \subseteq Msg
  BY InvFacts DEF SendFails
<1>4. w' \in [Side -> Local] /\ Others(s) /\ HandlerKnown(s, w'[s], job[s], Posted)
      /\ FewerFound(s)
  <2>1. CASE w[s].pc = "send"
    BY <2>1, NextPairFacts DEF SendFails
  <2>2. CASE w[s].pc = "resend"
    BY <2>2, NextEditFacts DEF SendFails, Editing
  <2> QED
    BY <1>1, <2>1, <2>2
<1> QED
  BY <1>1, <1>2, <1>3, <1>4, LocalStep

LEMMA FetchedKeeps ==
  ASSUME BridgeInv, NEW s \in Side, Fetched(s)
  PROVE  BridgeInv'
<1>1. /\ w[s].pc = "fetch"
      /\ Goto(s, "edit") \/ NextEdit(s)
      /\ UNCHANGED <<stream, q, job, pending, tasks, paused, sent, ignore, posts, mode, rows,
                     lastRow, fps, turns, crashes>>
  BY DEF Fetched, queueVars, dbVars, boundVars
<1>2. Posted' = Posted /\ StreamKnown'
  BY <1>1, InvFacts, SamePosts, StreamStays
<1>3. w' \in [Side -> Local] /\ Others(s) /\ HandlerKnown(s, w'[s], job[s], Posted)
      /\ FewerFound(s)
  <2>1. CASE Goto(s, "edit")
    BY <1>1, <2>1, GotoKnown DEF Editing
  <2>2. CASE NextEdit(s)
    BY <1>1, <2>2, NextEditFacts DEF Editing
  <2> QED
    BY <1>1, <2>1, <2>2
<1> QED
  BY <1>1, <1>2, <1>3, InvFacts, LocalStep

\* The platform's part of an edit.
LEMMA RewriteFacts ==
  ASSUME BridgeInv, NEW s \in Side, Rewrite(s), NEW m, m = Target(s).msg
  PROVE  /\ PostsTyped' /\ Posted' = Posted /\ StreamKnown' /\ m \in Posted
         /\ At(m)' = [At(m) EXCEPT !.txt = Source(s).txt]
         /\ At(m).st = "live" /\ \A n \in Posted : n # m => At(n)' = At(n)
         /\ Echo(Other(s), "edit", EditEvent(m, Source(s).txt))
<1>1. /\ w[s].pc = "edit" /\ Live(m) /\ SetPost(m, [At(m) EXCEPT !.txt = Source(s).txt])
      /\ Echo(Other(s), "edit", EditEvent(m, Source(s).txt))
  BY DEF Rewrite, Editable
<1>2. m \in Posted /\ SideOf(m.chat) = Other(s) /\ Source(s).txt \in Text
  BY <1>1, TargetFacts, SourceFacts DEF Editing
<1>3. At(m) \in PostRec
  BY <1>2, InvFacts, PostedFacts
<1>4. [At(m) EXCEPT !.txt = Source(s).txt] \in PostRec
  BY <1>2, <1>3 DEF PostRec
<1>5. /\ PostsTyped' /\ Posted' = Posted
      /\ At(m)' = [At(m) EXCEPT !.txt = Source(s).txt]
      /\ \A n \in Posted : n # m => At(n)' = At(n)
  BY <1>1, <1>2, <1>4, InvFacts, Changed
<1>6. EditEvent(m, Source(s).txt) \in HomeJob(Other(s), Posted)
  BY <1>2, InvFacts, EventFacts
<1>7. StreamKnown'
  BY <1>1, <1>5, <1>6, InvFacts, SideFacts, EchoKnown
<1> QED
  BY <1>1, <1>2, <1>5, <1>7 DEF Live

LEMMA EditedKeeps ==
  ASSUME BridgeInv, NEW s \in Side, Edited(s)
  PROVE  BridgeInv'
<1>1. /\ w[s].pc = "edit" /\ Rewrite(s) /\ NextEdit(s)
      /\ UNCHANGED <<q, job, pending, tasks, paused, sent, ignore, mode, rows, lastRow, fps,
                     turns, crashes>>
  BY DEF Edited, Rewrite, dbVars, boundVars
<1>2. PostsTyped' /\ Posted' = Posted /\ StreamKnown'
  BY <1>1, RewriteFacts
<1>3. w' \in [Side -> Local] /\ Others(s) /\ HandlerKnown(s, w'[s], job[s], Posted)
      /\ FewerFound(s)
  BY <1>1, NextEditFacts DEF Editing
<1> QED
  BY <1>1, <1>2, <1>3, InvFacts, SameRows, HandlerFrame DEF Others

\* A failing edit falls back, and a failing deletion takes its mark back, ...
EditFalls(s) ==
  /\ \/ w[s].pc = "edit" /\ ~Editable(s) /\ UNCHANGED <<posts, stream>>
     \/ w[s].pc \in {"fetch", "edit"} /\ MayFail(s, "edit") /\ UNCHANGED <<posts, stream>>
     \/ Rewrite(s) /\ MayFail(s, "edit")
  /\ Suppress(Target(s).msg)
  /\ Goto(s, FallbackFirst(s))
  /\ UNCHANGED <<q, job, pending, tasks, paused, sent, dbVars, boundVars>>
DeleteFalls(s) ==
  /\ w[s].pc \in {"delete", "deleted"}
  /\ DeletionMayFail(s)
  /\ Unmap(s, ignore \ {Target(s).msg})
\* ... or the job ends.
Breaks(s) ==
  /\ EditFails(s) \/ DeleteFails(s)
  /\ s = "tg" /\ BaleMode = "bot"
  /\ \/ /\ w[s].pc \in {"fetch", "edit"} /\ MayFail(s, "edit")
        /\ UNCHANGED <<posts, stream>> \/ Rewrite(s)
     \/ /\ w[s].pc \in {"delete", "deleted"} /\ MayFail(s, "delete")
        /\ UNCHANGED <<posts, stream>>
  /\ Become(s, Stopped("done"))
  /\ UNCHANGED <<q, job, pending, tasks, paused, sent, ignore, mode, rows, lastRow, fps,
                 turns, crashes>>

LEMMA Failing ==
  ASSUME NEW s
  PROVE  /\ EditFails(s) => EditFalls(s) \/ Breaks(s)
         /\ DeleteFails(s) => DeleteFalls(s) \/ Breaks(s)
         /\ EditFalls(s) => EditFails(s)
         /\ DeleteFalls(s) => DeleteFails(s)
<1>1. ASSUME EditFails(s) PROVE EditFalls(s) \/ Breaks(s)
  <2>1. PICK e \in Raised(s, "edit") :
          IF e = "BotAPIError" THEN Suppress(Target(s).msg) /\ Goto(s, FallbackFirst(s))
                               ELSE UNCHANGED ignore /\ Become(s, Stopped("done"))
    BY <1>1 DEF EditFails
  <2>2. CASE e = "BotAPIError"
    BY <1>1, <2>1, <2>2 DEF EditFails, EditFalls
  <2>3. CASE e # "BotAPIError"
    <3>1. s = "tg" /\ BaleMode = "bot" /\ MayFail(s, "edit")
      BY <2>1, <2>3 DEF Raised
    <3>2. w[s].pc \in {"fetch", "edit"} /\ (UNCHANGED <<posts, stream>> \/ Rewrite(s))
      BY <1>1 DEF EditFails, Rewrite
    <3>3. /\ UNCHANGED ignore /\ Become(s, Stopped("done"))
          /\ UNCHANGED <<q, job, pending, tasks, paused, sent, mode, rows, lastRow, fps,
                         turns, crashes>>
      BY <1>1, <2>1, <2>3 DEF EditFails, dbVars, boundVars
    <3> QED
      BY <1>1, <3>1, <3>2, <3>3 DEF Breaks
  <2> QED
    BY <2>2, <2>3
<1>2. ASSUME DeleteFails(s) PROVE DeleteFalls(s) \/ Breaks(s)
  <2>1. PICK e \in Raised(s, "delete") :
          IF e = "BotAPIError" THEN Unmap(s, ignore \ {Target(s).msg})
                               ELSE /\ Become(s, Stopped("done"))
                                    /\ UNCHANGED <<queueVars, posts, dbVars, boundVars>>
    BY <1>2 DEF DeleteFails
  <2>2. CASE e = "BotAPIError"
    BY <1>2, <2>1, <2>2 DEF DeleteFails, DeleteFalls
  <2>3. CASE e # "BotAPIError"
    <3>1. s = "tg" /\ BaleMode = "bot" /\ MayFail(s, "delete")
      BY <2>1, <2>3 DEF Raised
    <3>2. w[s].pc \in {"delete", "deleted"}
      BY <1>2 DEF DeleteFails
    <3>3. /\ Become(s, Stopped("done")) /\ UNCHANGED <<posts, stream>>
          /\ UNCHANGED <<q, job, pending, tasks, paused, sent, ignore, mode, rows, lastRow, fps,
                         turns, crashes>>
      BY <2>1, <2>3 DEF queueVars, dbVars, boundVars
    <3> QED
      BY <1>2, <3>1, <3>2, <3>3 DEF Breaks
  <2> QED
    BY <2>2, <2>3
<1>3. ASSUME EditFalls(s) PROVE EditFails(s)
  <2>1. "BotAPIError" \in Raised(s, "edit")
    BY DEF Raised
  <2> QED
    BY <1>3, <2>1 DEF EditFalls, EditFails
<1>4. ASSUME DeleteFalls(s) PROVE DeleteFails(s)
  <2>1. "BotAPIError" \in Raised(s, "delete")
    BY DEF Raised
  <2> QED
    BY <1>4, <2>1 DEF DeleteFalls, DeleteFails
<1> QED
  BY <1>1, <1>2, <1>3, <1>4

\* A job that breaks off leaves its handler without work.
LEMMA BreakFacts ==
  ASSUME BridgeInv, NEW s \in Side, Breaks(s)
  PROVE  /\ w' \in [Side -> Local] /\ Others(s) /\ w'[s].pc = "done" /\ Rests(w'[s])
         /\ HandlerKnown(s, w'[s], job[s], Posted) /\ FewerFound(s)
         /\ w[s].pc \in Editing \cup Deleting
         /\ UNCHANGED posts \/ Rewrite(s)
<1>1. Become(s, Stopped("done")) /\ "done" \in PC
  BY DEF Breaks, PC
<1>2. w' \in [Side -> Local] /\ Others(s) /\ w'[s] = Stopped("done")
  BY <1>1, InvFacts, StoppedFacts, BecomeFacts
<1>3. w'[s].pc = "done" /\ Rests(w'[s])
  BY <1>1, <1>2, StoppedFacts DEF Rests
<1>4. HandlerKnown(s, w'[s], job[s], Posted)
  BY <1>3 DEF HandlerKnown, Rests, Editing, Deleting, FoundKnown
<1>5. FewerFound(s)
  BY <1>3 DEF FewerFound, Rests
<1>6. w[s].pc \in Editing \cup Deleting /\ (UNCHANGED posts \/ Rewrite(s))
  BY DEF Breaks, Editing, Deleting
<1> QED
  BY <1>2, <1>3, <1>4, <1>5, <1>6

LEMMA BreaksKeeps ==
  ASSUME BridgeInv, NEW s \in Side, Breaks(s)
  PROVE  BridgeInv'
<1>1. /\ UNCHANGED <<posts, stream>> \/ Rewrite(s)
      /\ UNCHANGED <<q, job, pending, tasks, paused, sent, ignore, mode, rows, lastRow, fps,
                     turns, crashes>>
  BY DEF Breaks
<1>2. PostsTyped' /\ Posted' = Posted /\ StreamKnown'
  BY <1>1, InvFacts, SamePosts, StreamStays, RewriteFacts
<1>3. w' \in [Side -> Local] /\ Others(s) /\ HandlerKnown(s, w'[s], job[s], Posted)
      /\ FewerFound(s)
  BY BreakFacts
<1> QED
  BY <1>1, <1>2, <1>3, InvFacts, SameRows, HandlerFrame DEF Others

LEMMA EditFallsKeeps ==
  ASSUME BridgeInv, NEW s \in Side, EditFalls(s)
  PROVE  BridgeInv'
<1>1. /\ w[s].pc \in {"fetch", "edit"} /\ Goto(s, FallbackFirst(s))
      /\ ignore' = ignore \cup {Target(s).msg}
      /\ UNCHANGED <<posts, stream>> \/ Rewrite(s)
      /\ UNCHANGED <<q, job, pending, tasks, paused, sent, mode, rows, lastRow, fps,
                     turns, crashes>>
  BY DEF EditFalls, Rewrite, Suppress, dbVars, boundVars
<1>2. PostsTyped' /\ Posted' = Posted /\ StreamKnown'
  BY <1>1, InvFacts, SamePosts, StreamStays, RewriteFacts
<1>3. w' \in [Side -> Local] /\ Others(s) /\ HandlerKnown(s, w'[s], job[s], Posted)
      /\ FewerFound(s)
  BY <1>1, GotoKnown DEF Editing, FallbackFirst
<1>4. ignore' \subseteq Msg
  BY <1>1, InvFacts, TargetFacts DEF Editing
<1> QED
  BY <1>1, <1>2, <1>3, <1>4, InvFacts, SameRows, HandlerFrame DEF Others

LEMMA ResentKeeps ==
  ASSUME BridgeInv, NEW s \in Side, Resent(s)
  PROVE  BridgeInv'
<1>1. /\ w[s].pc = "resend" /\ Goto(s, "remove") /\ LateEchoes(s)
      /\ UNCHANGED <<q, job, pending, tasks, paused, sent, ignore, posts, mode, rows,
                     lastRow, fps, turns, crashes>>
  BY DEF Resent, dbVars, boundVars
<1>2. StreamKnown'
  BY <1>1, LateEchoesKnown
<1>3. w' \in [Side -> Local] /\ Others(s) /\ HandlerKnown(s, w'[s], job[s], Posted)
      /\ FewerFound(s)
  BY <1>1, GotoKnown DEF Editing
<1> QED
  BY <1>1, <1>2, <1>3, InvFacts, LocalStep

\* The platform's part of a deletion.
LEMMA VanishFacts ==
  ASSUME BridgeInv, NEW s \in Side, NEW pc, Vanish(s, pc), w[s].pc \in Editing \cup Deleting,
         NEW m, m = Target(s).msg
  PROVE  /\ PostsTyped' /\ Posted' = Posted /\ StreamKnown' /\ m \in Posted
         /\ \A n \in Posted : n # m => At(n)' = At(n)
         /\ \/ /\ At(m).st = "live" /\ At(m)' = [At(m) EXCEPT !.st = "removed"]
               /\ Echo(Other(s), "delete", DeleteEvent(m))
            \/ At(m).st # "live" /\ At(m)' = At(m) /\ UNCHANGED stream
<1>1. m \in Posted /\ SideOf(m.chat) = Other(s)
  BY TargetFacts
<1>2. CASE Live(m)
  <2>1. /\ SetPost(m, [At(m) EXCEPT !.st = "removed"])
        /\ Echo(Other(s), "delete", DeleteEvent(m))
    BY <1>2 DEF Vanish
  <2>2. At(m) \in PostRec /\ At(m).txt \in Text
    BY <1>1, InvFacts, PostedFacts
  <2>3. [At(m) EXCEPT !.st = "removed"] \in PostRec
    BY <2>2 DEF PostRec
  <2>4. /\ PostsTyped' /\ Posted' = Posted
        /\ At(m)' = [At(m) EXCEPT !.st = "removed"]
        /\ \A n \in Posted : n # m => At(n)' = At(n)
    BY <1>1, <2>1, <2>3, InvFacts, Changed
  <2>5. DeleteEvent(m) \in HomeJob(Other(s), Posted)
    BY <1>1, <2>2, InvFacts, EventFacts
  <2>6. StreamKnown'
    BY <2>1, <2>4, <2>5, InvFacts, SideFacts, EchoKnown
  <2> QED
    BY <1>1, <1>2, <2>1, <2>4, <2>6 DEF Live
<1>3. CASE ~Live(m)
  BY <1>1, <1>3, InvFacts, SamePosts, StreamStays DEF Vanish, Live
<1> QED
  BY <1>2, <1>3

LEMMA VanishKeeps ==
  ASSUME BridgeInv, NEW s \in Side, Remove(s) \/ Delete(s)
  PROVE  BridgeInv'
<1>1. PICK pc : /\ Vanish(s, pc)
                /\ \/ w[s].pc = "remove" /\ pc = "removed"
                   \/ w[s].pc = "delete" /\ pc = "deleted"
  BY DEF Remove, Delete
<1>2. /\ Goto(s, pc)
      /\ UNCHANGED <<q, job, pending, tasks, paused, sent, ignore, mode, rows, lastRow, fps,
                     turns, crashes>>
  BY <1>1 DEF Vanish, dbVars, boundVars
<1>3. PostsTyped' /\ Posted' = Posted /\ StreamKnown'
  BY <1>1, VanishFacts DEF Editing, Deleting
<1>4. w' \in [Side -> Local] /\ Others(s) /\ HandlerKnown(s, w'[s], job[s], Posted)
      /\ FewerFound(s)
  BY <1>1, <1>2, GotoKnown DEF Editing, Deleting
<1> QED
  BY <1>2, <1>3, <1>4, InvFacts, SameRows, HandlerFrame DEF Others

LEMMA RemoveFailsKeeps ==
  ASSUME BridgeInv, NEW s \in Side, RemoveFails(s)
  PROVE  BridgeInv'
<1>1. /\ w[s].pc \in {"remove", "removed"}
      /\ Goto(s, "removed") \/ NextEdit(s)
      /\ UNCHANGED <<stream, q, job, pending, tasks, paused, sent, ignore, posts, mode, rows,
                     lastRow, fps, turns, crashes>>
  BY DEF RemoveFails, queueVars, dbVars, boundVars
<1>2. Posted' = Posted /\ StreamKnown'
  BY <1>1, InvFacts, SamePosts, StreamStays
<1>3. w' \in [Side -> Local] /\ Others(s) /\ HandlerKnown(s, w'[s], job[s], Posted)
      /\ FewerFound(s)
  <2>1. CASE Goto(s, "removed")
    BY <1>1, <2>1, GotoKnown DEF Editing
  <2>2. CASE NextEdit(s)
    BY <1>1, <2>2, NextEditFacts DEF Editing
  <2> QED
    BY <1>1, <2>1, <2>2
<1> QED
  BY <1>1, <1>2, <1>3, InvFacts, LocalStep

LEMMA RemovedKeeps ==
  ASSUME BridgeInv, NEW s \in Side, Removed(s)
  PROVE  BridgeInv'
<1>1. /\ w[s].pc = "removed" /\ Goto(s, "resend")
      /\ UNCHANGED <<stream, q, job, pending, tasks, paused, sent, ignore, posts, mode, rows,
                     lastRow, fps, turns, crashes>>
  BY DEF Removed, queueVars, dbVars, boundVars
<1>2. Posted' = Posted /\ StreamKnown'
  BY <1>1, InvFacts, SamePosts, StreamStays
<1>3. w' \in [Side -> Local] /\ Others(s) /\ HandlerKnown(s, w'[s], job[s], Posted)
      /\ FewerFound(s)
  BY <1>1, GotoKnown DEF Editing
<1> QED
  BY <1>1, <1>2, <1>3, InvFacts, LocalStep

\* The first message a replacement made is the row's new other end.
LEMMA ReplaceTable ==
  ASSUME BridgeInv, NEW s \in Side, Replace(s), NEW m,
         m = [chat |-> Target(s).msg.chat, id |-> w[s].made[1].id]
  PROVE  /\ w[s].pc \in Editing /\ m \in Posted /\ m = w[s].made[1] /\ 1 \in DOMAIN w[s].made
         /\ rows' = ReplaceDst(rows, Target(s).row, m) /\ sent' = sent \cup {m}
         /\ rows' \subseteq Row /\ RowsKnown(rows', lastRow, Posted) /\ RowsGrow
         /\ \A r \in rows' : \E r0 \in rows :
              /\ r.id = r0.id /\ r.pair = r0.pair /\ r.src = r0.src
              /\ r.dst = IF r0.id = Target(s).row THEN m ELSE r0.dst
<1>1. /\ w[s].pc \in Editing /\ Complete(s) /\ UNCHANGED lastRow
      /\ rows' = ReplaceDst(rows, Target(s).row, m) /\ sent' = sent \cup {m}
  BY DEF Replace, Mark, Editing
<1>2. Len(w[s].made) \in Nat \ {0} /\ w[s].made \in Seq(Msg)
  BY <1>1, InvFacts, SourceFacts DEF Complete
<1>3. 1 \in DOMAIN w[s].made
  BY <1>2
<1>4. PICK n : n = w[s].made[1]
  OBVIOUS
<1>5. n \in Posted /\ n.chat = PairChat(s, Target(s).pair)
  BY <1>1, <1>3, <1>4 DEF BridgeInv, HandlerKnown, Target
<1>6. Target(s).msg.chat = PairChat(s, Target(s).pair) /\ Target(s) \in w[s].found
  BY <1>1, TargetFacts
<1>7. m = n
  BY <1>4, <1>5, <1>6, InvFacts, MsgFacts
<1>8. FoundRows(w[s].found, rows, lastRow)
  BY DEF BridgeInv
<1>9. m \in Posted /\ \A r \in rows : r.id = Target(s).row => m.chat \in Ends(r.pair)
  BY <1>5, <1>6, <1>7, <1>8 DEF FoundRows, Ends, PairChat
<1>10. /\ rows' \subseteq Row /\ RowsKnown(rows', lastRow, Posted)
       /\ \A r \in rows' : \E r0 \in rows :
            /\ r.id = r0.id /\ r.pair = r0.pair /\ r.src = r0.src
            /\ r.dst = IF r0.id = Target(s).row THEN m ELSE r0.dst
  <2>1. PICK id : id = Target(s).row
    OBVIOUS
  <2>2. m \in Posted /\ \A r \in rows : r.id = id => m.chat \in Ends(r.pair)
    BY <1>9, <2>1
  <2>3. rows \subseteq Row /\ RowsKnown(rows, lastRow, Posted) /\ Posted \subseteq Msg
    BY InvFacts
  <2>4. /\ ReplaceDst(rows, id, m) \subseteq Row
        /\ RowsKnown(ReplaceDst(rows, id, m), lastRow, Posted)
    BY <2>2, <2>3, ReplaceFacts
  <2>5. \A r \in ReplaceDst(rows, id, m) : \E r0 \in rows :
          /\ r.id = r0.id /\ r.pair = r0.pair /\ r.src = r0.src
          /\ r.dst = IF r0.id = id THEN m ELSE r0.dst
    BY <2>3, ReplacedRows
  <2> QED
    BY <1>1, <2>1, <2>4, <2>5
<1>11. RowsGrow
  BY <1>1, <1>10, InvFacts DEF RowsGrow
<1> QED
  BY <1>1, <1>3, <1>4, <1>7, <1>9, <1>10, <1>11

LEMMA ReplaceKeeps ==
  ASSUME BridgeInv, NEW s \in Side, Replace(s)
  PROVE  BridgeInv'
<1>1. PICK m : m = [chat |-> Target(s).msg.chat, id |-> w[s].made[1].id]
  OBVIOUS
<1>2. /\ NextEdit(s)
      /\ LateEchoes(s) \/ UNCHANGED stream
      /\ UNCHANGED <<q, job, pending, tasks, paused, ignore, posts, mode, lastRow, fps,
                     turns, crashes>>
  BY DEF Replace, boundVars
<1>3. /\ w[s].pc \in Editing /\ m \in Posted /\ sent' = sent \cup {m}
      /\ rows' \subseteq Row /\ RowsKnown(rows', lastRow, Posted) /\ RowsGrow
  BY <1>1, ReplaceTable
<1>4. PostsTyped' /\ Posted' = Posted /\ StreamKnown'
  BY <1>2, InvFacts, SamePosts, LateEchoesKnown, StreamStays
<1>5. sent' \subseteq Msg
  BY <1>3, InvFacts
<1>6. w' \in [Side -> Local] /\ Others(s) /\ HandlerKnown(s, w'[s], job[s], Posted)
      /\ FewerFound(s)
  BY <1>2, <1>3, NextEditFacts
<1> QED
  BY <1>2, <1>3, <1>4, <1>5, <1>6, InvFacts, HandlerFrame DEF Others

\* A deletion that is over: the row goes, the next target is marked.
LEMMA UnmapFacts ==
  ASSUME BridgeInv, NEW s \in Side, w[s].pc \in Deleting, NEW ign, ign \subseteq Msg,
         Unmap(s, ign)
  PROVE  /\ rows' = RemoveRow(rows, Target(s).row) /\ rows' \subseteq rows
         /\ RowsKnown(rows', lastRow, Posted)
         /\ w' \in [Side -> Local] /\ Others(s)
         /\ DeletesOf(s, w'[s], w[s].found \ {Target(s)}, w[s].mids, rows')
         /\ Marks(s, w'[s], ign) /\ ignore' \subseteq Msg
         /\ HandlerKnown(s, w'[s], job[s], Posted)
         /\ FoundRows(w'[s].found, rows', lastRow)
<1> DEFINE F == w[s].found \ {Target(s)}
<1>1. /\ rows' = RemoveRow(rows, Target(s).row)
      /\ DeleteFrom(s, F, w[s].mids, RemoveRow(rows, Target(s).row), ign)
  BY DEF Unmap
<1>2. rows' \subseteq rows /\ rows' \subseteq Row /\ RowsKnown(rows', lastRow, Posted)
  BY <1>1, InvFacts, FewerRows DEF RemoveRow
<1>3. /\ FoundKnown(w[s].found, Posted) /\ FoundRows(w[s].found, rows, lastRow)
      /\ job[s].kind = "delete" /\ \A m \in w[s].mids : m \in Posted /\ SideOf(m.chat) = s
  BY DEF BridgeInv, HandlerKnown
<1>4. F \subseteq Found /\ FoundKnown(F, Posted) /\ FoundRows(F, rows', lastRow)
  BY <1>2, <1>3, InvFacts DEF FoundKnown, FoundRows
<1>5. w[s].mids \subseteq Msg
  BY <1>3, InvFacts
<1> HIDE DEF F
<1>6. /\ w' \in [Side -> Local] /\ Others(s)
      /\ DeletesOf(s, w'[s], F, w[s].mids, rows') /\ Marks(s, w'[s], ign)
  BY <1>1, <1>2, <1>4, <1>5, InvFacts, DeleteFromFacts
<1>7. HandlerKnown(s, w'[s], job[s], Posted)
  BY <1>2, <1>3, <1>4, <1>6, DeletesKnown
<1>8. FoundRows(w'[s].found, rows', lastRow)
  BY <1>2, <1>4, <1>6, DeletesRows
<1>9. ignore' \subseteq Msg
  <2>1. CASE w'[s].pc = "delete"
    <3>1. w'[s].found \subseteq Found /\ w'[s].found # {}
      BY <1>6, <2>1 DEF DeletesOf, Local
    <3>2. First(w'[s].found).msg \in Msg
      BY <3>1, FirstFound DEF Found
    <3> QED
      BY <1>6, <3>2 DEF Marks
  <2>2. CASE w'[s].pc # "delete"
    BY <1>6, <2>2 DEF Marks
  <2> QED
    BY <2>1, <2>2
<1> QED
  BY <1>1, <1>2, <1>6, <1>7, <1>8, <1>9 DEF F

LEMMA UnmapKeeps ==
  ASSUME BridgeInv, NEW s \in Side, w[s].pc \in Deleting, NEW ign, ign \subseteq Msg,
         Unmap(s, ign)
  PROVE  BridgeInv'
<1>1. UNCHANGED <<stream, q, job, pending, tasks, paused, sent, posts, mode, lastRow, fps,
                  turns, crashes>>
  BY DEF Unmap, boundVars
<1>2. /\ rows' \subseteq rows /\ RowsKnown(rows', lastRow, Posted)
      /\ w' \in [Side -> Local] /\ Others(s) /\ ignore' \subseteq Msg
      /\ HandlerKnown(s, w'[s], job[s], Posted)
      /\ FoundRows(w'[s].found, rows', lastRow)
  BY UnmapFacts
<1>3. PostsTyped' /\ Posted' = Posted /\ StreamKnown'
  BY <1>1, InvFacts, SamePosts, StreamStays
<1>4. RowsGrow
  BY <1>1, <1>2, SameRows
<1> QED
  BY <1>1, <1>2, <1>3, <1>4, InvFacts, HandlerFrame DEF Others

-----------------------------------------------------------------------------
(* All steps *)

LEMMA StepKnown == BridgeInv /\ [Next]_vars => BridgeInv'
<1> SUFFICES ASSUME BridgeInv, [Next]_vars PROVE BridgeInv'
  OBVIOUS
<1>1. ASSUME NEW c \in Chat, NEW t \in Text, UserPost(c, t) PROVE BridgeInv'
  BY <1>1, UserPostKeeps
<1>2. ASSUME NEW m \in Msg, NEW t \in Text, UserEdit(m, t) PROVE BridgeInv'
  BY <1>2, UserEditKeeps
<1>3. ASSUME NEW m \in Msg, UserDelete(m) PROVE BridgeInv'
  BY <1>3, UserDeleteKeeps
<1>4. ASSUME NEW s \in Side, Intake(s) PROVE BridgeInv'
  BY <1>4, IntakeKeeps
<1>5. ASSUME NEW s \in Side, Handler(s) PROVE BridgeInv'
  <2>1. CASE StartNew(s) \/ StartEdit(s) \/ StartDelete(s)
    BY <2>1, StartNewKeeps, StartEditKeeps, StartDeleteKeeps
  <2>2. CASE Send(s) \/ Record(s) \/ Return(s)
    BY <2>2, SendKeeps, RecordKeeps, ReturnKeeps
  <2>3. CASE Fetched(s) \/ Edited(s) \/ Resent(s) \/ Remove(s) \/ Removed(s) \/ Replace(s)
    BY <2>3, FetchedKeeps, EditedKeeps, ResentKeeps, VanishKeeps, RemovedKeeps, ReplaceKeeps
  <2>4. CASE Delete(s)
    BY <2>4, VanishKeeps
  <2>5. CASE Deleted(s)
    BY <2>5, InvFacts, UnmapKeeps DEF Deleted, Deleting
  <2> QED
    BY <1>5, <2>1, <2>2, <2>3, <2>4, <2>5 DEF Handler
<1>6. ASSUME NEW s \in Side, Fault(s) PROVE BridgeInv'
  <2>1. CASE SendFails(s) \/ EditFalls(s) \/ RemoveFails(s)
    BY <2>1, SendFailsKeeps, EditFallsKeeps, RemoveFailsKeeps
  <2>3. CASE Breaks(s)
    BY <2>3, BreaksKeeps
  <2>2. CASE DeleteFalls(s)
    <3>1. w[s].pc \in Deleting /\ Unmap(s, ignore \ {Target(s).msg})
      BY <2>2 DEF DeleteFalls, Deleting
    <3>2. ignore \ {Target(s).msg} \subseteq Msg
      BY InvFacts
    <3> QED
      BY <3>1, <3>2, UnmapKeeps
  <2> QED
    BY <1>6, <2>1, <2>2, <2>3, Failing DEF Fault
<1>7. ASSUME NEW f \in fps, FpExpires(f) PROVE BridgeInv'
  BY <1>7, InvFacts, TablesKeep DEF FpExpires, boundVars
<1>8. ASSUME NEW p \in PairId, (\E md \in Mode : SetMode(p, md)) \/ RemovePair(p)
      PROVE  BridgeInv'
  BY <1>8, OperatorKeeps
<1>9. CASE Crash
  BY <1>9, CrashKeeps
<1>10. CASE UNCHANGED vars
  BY <1>10, InvFacts, TablesKeep DEF vars, dbVars, boundVars
<1> QED
  BY <1>1, <1>2, <1>3, <1>4, <1>5, <1>6, <1>7, <1>8, <1>9, <1>10 DEF Next

\* Whatever users, the operator and the platforms do, and whenever the process
\* dies: the rows of msg_map, the jobs and the handlers speak of messages that are
\* there, on the channels of their pair (transfer/mirror_*.py, sync_*.py).
THEOREM BridgeKnown == Spec => []BridgeInv
<1> QED
  BY InitKnown, StepKnown, PTL DEF Spec

\* Every variable of Bridge keeps its type, for all pairs, channels and bounds, with
\* every fault allowed.
THEOREM BridgeTypes == Spec => []TypeOK
<1>1. BridgeInv => TypeOK
  BY DEF BridgeInv
<1> QED
  BY <1>1, BridgeKnown, PTL


-----------------------------------------------------------------------------
(* Nobody rewrites history *)

\* Posts stay, with the message they were made for.
SrcKept == \A n \in Posted : n \in Posted' /\ At(n)'.src = At(n).src

LEMMA SrcSame ==
  ASSUME UNCHANGED posts
  PROVE  SrcKept
  BY SamePosts DEF SrcKept

\* What only changes the text or the state of a post keeps its source.
LEMMA SrcSet ==
  ASSUME PostsTyped, NEW m \in Posted, Posted' = Posted,
         \/ \E t : At(m)' = [At(m) EXCEPT !.txt = t]
         \/ \E x : At(m)' = [At(m) EXCEPT !.st = x]
         \/ At(m)' = At(m),
         \A n \in Posted : n # m => At(n)' = At(n)
  PROVE  SrcKept
<1>1. At(m) \in PostRec
  BY PostedFacts
<1>2. At(m)'.src = At(m).src
  BY <1>1 DEF PostRec
<1> QED
  BY <1>2 DEF SrcKept

\* The same for a post a user changes.
LEMMA SrcUser ==
  ASSUME BridgeInv, NEW m \in Posted, NEW p \in PostRec, p.src = At(m).src, SetPost(m, p)
  PROVE  SrcKept
<1>1. Posted' = Posted /\ At(m)' = p /\ \A n \in Posted : n # m => At(n)' = At(n)
  BY InvFacts, Changed
<1> QED
  BY <1>1 DEF SrcKept

-----------------------------------------------------------------------------
(* The map *)

\* Users edit what they wrote, and no platform reports the bridge's own edits.
CopiesNotEdited ==
  \A s \in Side : <<s, "copy">> \notin UserEdits /\ <<s, "edit">> \notin Echoes

\* Edits are about posts of users.
FromUser ==
  { j \in Job : j.kind = "edit" => j.items[1].msg \in Posted /\ ByUser(j.items[1].msg) }

RowSound(r) == r.src.chat # r.dst.chat /\ At(r.dst).src = r.src

\* The handler makes copies of its source, and edits copies of it.
HandlerSound(s) ==
  /\ w[s].pc \in Editing \cup {"send"} =>
       \A i \in DOMAIN w[s].made : At(w[s].made[i]).src = Source(s).msg
  /\ w[s].pc \in Editing =>
       \A o \in w[s].found, r \in rows : r.id = o.row => r.src = Source(s).msg

MapInv ==
  /\ BridgeInv
  /\ \A r \in rows : RowSound(r)
  /\ \A s \in Side : /\ stream[s] \in Seq(FromUser) /\ q[s] \in Seq(FromUser)
                     /\ job[s] \in FromUser \cup {NoJob}
                     /\ HandlerSound(s)

LEMMA MapInvSound == MapInv => MapSound
<1> SUFFICES ASSUME MapInv, NEW r \in rows
             PROVE  /\ {r.src, r.dst} \subseteq Posted
                    /\ {r.src.chat, r.dst.chat} = {TgOf[r.pair], BaleOf[r.pair]}
                    /\ At(r.dst).src = r.src
  BY DEF MapSound
<1>1. /\ {r.src, r.dst} \subseteq Posted
      /\ r.src.chat \in Ends(r.pair) /\ r.dst.chat \in Ends(r.pair)
  BY DEF MapInv, BridgeInv, RowsKnown
<1>2. r.src.chat # r.dst.chat /\ At(r.dst).src = r.src
  BY DEF MapInv, RowSound
<1> QED
  BY <1>1, <1>2 DEF Ends

-----------------------------------------------------------------------------
(* What steps keep of it *)

\* Every row is new or was there before, with its source.
SrcGrow ==
  \A r \in rows' : r.id > lastRow \/ \E o \in rows : o.id = r.id /\ o.src = r.src

LEMMA SrcFewer ==
  ASSUME rows' \subseteq rows
  PROVE  SrcGrow
  BY DEF SrcGrow

LEMMA FromUserGrows ==
  ASSUME SrcKept
  PROVE  FromUser \subseteq FromUser'
  BY DEF FromUser, SrcKept, ByUser

LEMMA EventsFromUser ==
  ASSUME BridgeInv, NEW m \in Msg, NEW t \in Text
  PROVE  NewEvent(m, t) \in FromUser /\ DeleteEvent(m) \in FromUser
<1>1. NewEvent(m, t) \in Job /\ NewEvent(m, t).kind = "new"
  BY EventIsJob DEF NewEvent, ItemOf, Item
<1>2. DeleteEvent(m) \in Job /\ DeleteEvent(m).kind = "delete"
  BY DEF DeleteEvent, Job, DeleteJob
<1> QED
  BY <1>1, <1>2 DEF FromUser

\* An event in the stream of a side, and the late echoes.
LEMMA EmitIn ==
  ASSUME BridgeInv, NEW J, \A r \in Side : stream[r] \in Seq(J),
         NEW s \in Side, NEW e \in J, Emit(s, e)
  PROVE  \A r \in Side : stream'[r] \in Seq(J)
<1>1. stream \in [Side -> Seq(Job)]
  BY InvFacts DEF StreamKnown
<1>2. \A r \in Side : stream'[r] = IF r = s THEN Append(stream[r], e) ELSE stream[r]
  BY <1>1 DEF Emit
<1>3. Append(stream[s], e) \in Seq(J)
  OBVIOUS
<1> QED
  BY <1>2, <1>3

LEMMA LateIn ==
  ASSUME BridgeInv, NEW J, \A r \in Side : stream[r] \in Seq(J), NEW s \in Side,
         LateEchoes(s), \A m \in Posted, t \in Text : NewEvent(m, t) \in J
  PROVE  \A r \in Side : stream'[r] \in Seq(J)
<1> DEFINE made == w[s].made
           echoes == [i \in DOMAIN made |-> NewEvent(made[i], At(made[i]).txt)]
<1>1. CASE UNCHANGED stream
  BY <1>1
<1>2. CASE stream' = [stream EXCEPT ![Other(s)] = @ \o echoes]
  <2>1. made \in Seq(Msg) /\ \A i \in DOMAIN made : made[i] \in Posted
    BY InvFacts DEF BridgeInv, HandlerKnown
  <2>2. ASSUME NEW i \in DOMAIN made PROVE NewEvent(made[i], At(made[i]).txt) \in J
    <3>1. PICK m \in Posted : m = made[i]
      BY <2>1
    <3>2. At(m).txt \in Text
      BY InvFacts, PostedFacts
    <3>3. NewEvent(m, At(m).txt) \in J
      BY <3>2
    <3> QED
      BY <3>1, <3>3
  <2>3. DOMAIN made = 1..Len(made) /\ Len(made) \in Nat
    BY <2>1
  <2>4. echoes \in Seq(J)
    <3> HIDE DEF made
    <3> QED
      BY <2>2, <2>3
  <2> HIDE DEF echoes
  <2>5. stream[Other(s)] \o echoes \in Seq(J)
    BY <2>4, SideFacts
  <2>6. stream \in [Side -> Seq(Job)]
    BY InvFacts DEF StreamKnown
  <2>7. \A r \in Side : stream'[r] = IF r = Other(s) THEN stream[Other(s)] \o echoes ELSE stream[r]
    BY <1>2, <2>6
  <2> QED
    BY <2>5, <2>7
<1> QED
  BY <1>1, <1>2 DEF LateEchoes

LEMMA RowsStaySound ==
  ASSUME MapInv, SrcKept
  PROVE  \A r \in rows : RowSound(r)'
  BY DEF MapInv, BridgeInv, RowsKnown, RowSound, SrcKept

\* A handler whose state and job stay.
LEMMA SoundStays ==
  ASSUME BridgeInv, SrcKept, SrcGrow, NEW r \in Side, HandlerSound(r),
         w'[r] = w[r], job'[r] = job[r]
  PROVE  HandlerSound(r)'
<1>1. HandlerSound(r) /\ Source(r)' = Source(r)
  BY DEF Source
<1>2. \A i \in DOMAIN w[r].made : w[r].made[i] \in Posted
  BY DEF BridgeInv, HandlerKnown
<1>3. FoundRows(w[r].found, rows, lastRow) /\ w[r].found \subseteq Found /\ lastRow \in Nat
  BY InvFacts DEF BridgeInv
<1>4. ASSUME NEW o \in w[r].found, NEW x \in rows', x.id = o.row, w[r].pc \in Editing
      PROVE  x.src = Source(r).msg
  <2>1. o.row \in Nat /\ o.row <= lastRow
    BY <1>3 DEF Found, FoundRows
  <2>2. PICK y \in rows : y.id = x.id /\ y.src = x.src
    BY <1>3, <1>4, <2>1 DEF SrcGrow
  <2> QED
    BY <1>1, <1>4, <2>2 DEF HandlerSound
<1>5. w[r].pc \in Editing \cup {"send"} =>
        \A i \in DOMAIN w[r].made : At(w[r].made[i])'.src = Source(r).msg
  BY <1>1, <1>2 DEF HandlerSound, SrcKept
<1> QED
  BY <1>1, <1>4, <1>5 DEF HandlerSound

\* One that goes on, or starts over, with what it has found.
LEMMA SoundMoves ==
  ASSUME BridgeInv, SrcKept, SrcGrow, NEW s \in Side, HandlerSound(s), job'[s] = job[s],
         w'[s].pc \in Editing => w[s].pc \in Editing /\ FewerFound(s),
         \/ w'[s].made = <<>>
         \/ w'[s].made = w[s].made /\ w[s].pc \in Editing
  PROVE  HandlerSound(s)'
<1>1. HandlerSound(s) /\ Source(s)' = Source(s)
  BY DEF Source
<1>2. \A i \in DOMAIN w[s].made : w[s].made[i] \in Posted
  BY DEF BridgeInv, HandlerKnown
<1>3. FoundRows(w[s].found, rows, lastRow) /\ w[s].found \subseteq Found /\ lastRow \in Nat
  BY InvFacts DEF BridgeInv
<1>4. ASSUME NEW o \in w'[s].found, NEW x \in rows', x.id = o.row, w'[s].pc \in Editing
      PROVE  x.src = Source(s).msg
  <2>1. o \in w[s].found
    BY <1>4 DEF FewerFound
  <2>2. o.row \in Nat /\ o.row <= lastRow
    BY <1>3, <2>1 DEF Found, FoundRows
  <2>3. PICK y \in rows : y.id = x.id /\ y.src = x.src
    BY <1>3, <1>4, <2>2 DEF SrcGrow
  <2> QED
    BY <1>1, <1>4, <2>1, <2>3 DEF HandlerSound
<1>5. ASSUME NEW i \in DOMAIN w'[s].made
      PROVE  At(w[s].made[i])'.src = Source(s).msg
  <2>1. w'[s].made = w[s].made /\ i \in DOMAIN w[s].made /\ w[s].pc \in Editing
    OBVIOUS
  <2>2. PICK n \in Posted : n = w[s].made[i]
    BY <1>2, <2>1
  <2>3. At(n).src = Source(s).msg
    BY <1>1, <2>1, <2>2 DEF HandlerSound
  <2>4. At(n)'.src = Source(s).msg
    BY <2>3 DEF SrcKept
  <2> QED
    BY <2>1, <2>2, <2>4
<1>6. \A i \in DOMAIN w'[s].made : At(w[s].made[i])'.src = Source(s)'.msg
  BY <1>1, <1>5
<1>7. w'[s].pc \in Editing =>
        \A o \in w'[s].found, r \in rows' : r.id = o.row => r.src = Source(s)'.msg
  BY <1>1, <1>4
<1> QED
  BY <1>6, <1>7 DEF HandlerSound

LEMMA HandlerStays ==
  ASSUME MapInv, SrcKept, SrcGrow, NEW r \in Side, w'[r] = w[r], job'[r] = job[r]
  PROVE  HandlerSound(r)'
  BY SoundStays DEF MapInv

LEMMA HandlerMoves ==
  ASSUME MapInv, SrcKept, SrcGrow, NEW s \in Side, job'[s] = job[s],
         w'[s].pc \in Editing => w[s].pc \in Editing /\ FewerFound(s),
         \/ w'[s].made = <<>>
         \/ w'[s].made = w[s].made /\ w[s].pc \in Editing
  PROVE  HandlerSound(s)'
  BY SoundMoves DEF MapInv

\* A step of the handler of s.
LEMMA MapFrame ==
  ASSUME MapInv, BridgeInv', NEW s \in Side, SrcKept, SrcGrow, UNCHANGED <<q, job>>,
         \A r \in Side : stream'[r] \in Seq(FromUser'), Others(s), HandlerSound(s)',
         \A r \in rows' : r \in rows \/ RowSound(r)'
  PROVE  MapInv'
<1>1. \A r \in Side : q[r] \in Seq(FromUser') /\ job[r] \in FromUser' \cup {NoJob}
  BY FromUserGrows, SeqOfMore DEF MapInv
<1>2. \A r \in Side : HandlerSound(r)'
  BY HandlerStays DEF Others
<1>3. \A r \in rows' : RowSound(r)'
  BY RowsStaySound
<1> QED
  BY <1>1, <1>2, <1>3 DEF MapInv

LEMMA StreamsSame ==
  ASSUME MapInv, SrcKept, UNCHANGED stream
  PROVE  \A r \in Side : stream'[r] \in Seq(FromUser')
  BY FromUserGrows, SeqOfMore DEF MapInv

\* The next stream, when an event about a post comes or does not.
LEMMA StreamsEmit ==
  ASSUME MapInv, SrcKept, NEW s \in Side, NEW e \in FromUser', Emit(s, e)
  PROVE  \A r \in Side : stream'[r] \in Seq(FromUser')
<1>1. BridgeInv /\ \A r \in Side : stream[r] \in Seq(FromUser')
  BY FromUserGrows, SeqOfMore DEF MapInv
<1> QED
  BY <1>1, EmitIn

LEMMA StreamsLate ==
  ASSUME MapInv, SrcKept, NEW s \in Side, LateEchoes(s)
  PROVE  \A r \in Side : stream'[r] \in Seq(FromUser')
<1>1. BridgeInv /\ \A r \in Side : stream[r] \in Seq(FromUser')
  BY FromUserGrows, SeqOfMore DEF MapInv
<1>2. \A m \in Posted, t \in Text : NewEvent(m, t) \in FromUser'
  BY <1>1, FromUserGrows, EventsFromUser, InvFacts
<1> QED
  BY <1>1, <1>2, LateIn

-----------------------------------------------------------------------------
(* Users, the intake, restarts *)

LEMMA UserPostMaps ==
  ASSUME MapInv, BridgeInv', NEW c \in Chat, NEW t \in Text, UserPost(c, t)
  PROVE  MapInv'
<1> DEFINE p == [st |-> "live", txt |-> t, src |-> NoMsg]
<1>1. PICK m : m = [chat |-> c, id |-> Len(posts[c]) + 1]
  OBVIOUS
<1>2. /\ p \in PostRec /\ Len(posts[c]) < MaxId /\ posts' = [posts EXCEPT ![c] = Append(@, p)]
      /\ Emit(SideOf(c), NewEvent(m, t))
      /\ UNCHANGED <<q, job, rows, w>>
  BY <1>1 DEF UserPost, PostRec, dbVars
<1>3. m \in Msg /\ SrcKept /\ BridgeInv
  BY <1>1, <1>2, InvFacts, Appended DEF SrcKept, MapInv
<1>4. NewEvent(m, t) \in FromUser'
  BY <1>3, EventsFromUser, FromUserGrows
<1>5. \A r \in Side : stream'[r] \in Seq(FromUser')
  BY <1>2, <1>3, <1>4, StreamsEmit, SideOfType
<1>6. SrcGrow /\ \A s \in Side : HandlerSound(s)' /\ Others(s)
  BY <1>2, <1>3, SrcFewer, HandlerStays DEF Others
<1> QED
  BY <1>2, <1>3, <1>5, <1>6, MapFrame DEF Side

LEMMA UserEditMaps ==
  ASSUME CopiesNotEdited, MapInv, BridgeInv', NEW m \in Msg, NEW t \in Text, UserEdit(m, t)
  PROVE  MapInv'
<1>1. /\ m \in Posted /\ SetPost(m, [At(m) EXCEPT !.txt = t])
      /\ <<SideOf(m.chat), IF ByUser(m) THEN "source" ELSE "copy">> \in UserEdits
      /\ Emit(SideOf(m.chat), EditEvent(m, t))
      /\ UNCHANGED <<q, job, rows, w>>
  BY DEF UserEdit, MayTouch, dbVars
<1>2. BridgeInv /\ At(m) \in PostRec
  BY <1>1, InvFacts, PostedFacts DEF MapInv
<1>3. /\ [At(m) EXCEPT !.txt = t] \in PostRec
      /\ [At(m) EXCEPT !.txt = t].src = At(m).src
  BY <1>2 DEF PostRec
<1>4. SrcKept
  BY <1>1, <1>2, <1>3, SrcUser
<1>5. ByUser(m)
  BY <1>1, SideOfType DEF CopiesNotEdited
<1>6. EditEvent(m, t) \in FromUser
  <2>1. EditEvent(m, t) \in Job /\ EditEvent(m, t).items[1].msg = m
    BY EventIsJob DEF EditEvent, ItemOf, Item
  <2> QED
    BY <1>1, <1>5, <2>1 DEF FromUser
<1>7. \A r \in Side : stream'[r] \in Seq(FromUser')
  BY <1>1, <1>4, <1>6, FromUserGrows, StreamsEmit, SideOfType
<1>8. SrcGrow /\ \A s \in Side : HandlerSound(s)' /\ Others(s)
  BY <1>1, <1>4, SrcFewer, HandlerStays DEF Others
<1> QED
  BY <1>1, <1>4, <1>7, <1>8, MapFrame DEF Side

LEMMA UserDeleteMaps ==
  ASSUME MapInv, BridgeInv', NEW m \in Msg, UserDelete(m)
  PROVE  MapInv'
<1>1. /\ m \in Posted /\ SetPost(m, [At(m) EXCEPT !.st = "deleted"])
      /\ UNCHANGED stream \/ Emit(SideOf(m.chat), DeleteEvent(m))
      /\ UNCHANGED <<q, job, rows, w>>
  BY DEF UserDelete, MayTouch, dbVars
<1>2. BridgeInv /\ At(m) \in PostRec /\ At(m).txt \in Text
  BY <1>1, InvFacts, PostedFacts DEF MapInv
<1>3. /\ [At(m) EXCEPT !.st = "deleted"] \in PostRec
      /\ [At(m) EXCEPT !.st = "deleted"].src = At(m).src
  BY <1>2 DEF PostRec
<1>4. SrcKept
  BY <1>1, <1>2, <1>3, SrcUser
<1>5. DeleteEvent(m) \in FromUser
  BY <1>2, EventsFromUser
<1>6. \A r \in Side : stream'[r] \in Seq(FromUser')
  BY <1>1, <1>4, <1>5, FromUserGrows, StreamsSame, StreamsEmit, SideOfType
<1>7. SrcGrow /\ \A s \in Side : HandlerSound(s)' /\ Others(s)
  BY <1>1, <1>4, SrcFewer, HandlerStays DEF Others
<1> QED
  BY <1>1, <1>4, <1>6, <1>7, MapFrame DEF Side

\* Changes of the tables alone.
LEMMA TablesMap ==
  ASSUME MapInv, BridgeInv', UNCHANGED <<queueVars, posts, w>>, rows' \subseteq rows
  PROVE  MapInv'
<1>1. SrcKept /\ SrcGrow
  BY SrcSame, SrcFewer
<1>2. \A r \in Side : stream'[r] \in Seq(FromUser')
  BY <1>1, StreamsSame DEF queueVars
<1>3. \A s \in Side : HandlerSound(s)' /\ Others(s)
  BY <1>1, HandlerStays DEF Others, queueVars
<1> QED
  BY <1>1, <1>2, <1>3, MapFrame DEF Side, queueVars

LEMMA IntakeMaps ==
  ASSUME MapInv, BridgeInv', NEW s \in Side, Intake(s)
  PROVE  MapInv'
<1> DEFINE e == Head(stream[s])
           d == [kind |-> "delete", ids |-> e.ids \ ignore]
<1>1. /\ OnNew(s) \/ OnEdit(s) \/ OnDelete(s)
      /\ UNCHANGED <<posts, rows, w>>
  BY DEF Intake, dbVars
<1>2. /\ stream[s] # <<>> /\ stream' = [stream EXCEPT ![s] = Tail(@)]
      /\ UNCHANGED job /\ e \in HomeJob(s, Posted)
      /\ UNCHANGED q \/ Put(s, e) \/ (e.kind = "delete" /\ Put(s, d))
  BY <1>1, IntakeFacts DEF MapInv
<1>3. stream[s] \in Seq(FromUser)
  BY DEF MapInv
<1>4. e \in FromUser /\ Tail(stream[s]) \in Seq(FromUser)
  BY <1>2, <1>3, HeadTailProperties
<1>5. e.kind = "delete" => d \in FromUser
  <2>1. e.kind = "delete" => d \in HomeJob(s, Posted)
    BY <1>2, FewerIds
  <2> QED
    BY <2>1 DEF HomeJob, FromUser
<1>6. stream \in [Side -> Seq(Job)] /\ q \in [Side -> Seq(Job)]
  BY InvFacts DEF MapInv, QueueTypeOK
<1>7. FromUser' = FromUser
  BY <1>1, SamePosts DEF FromUser, ByUser
<1>8. \A r \in Side : stream'[r] \in Seq(FromUser)
  BY <1>2, <1>4, <1>6 DEF MapInv
<1>9. ASSUME NEW j \in FromUser, Put(s, j) PROVE \A r \in Side : q'[r] \in Seq(FromUser)
  <2>1. Append(q[s], j) \in Seq(FromUser)
    BY DEF MapInv
  <2>2. \A r \in Side : q'[r] = IF r = s THEN Append(q[s], j) ELSE q[r]
    BY <1>6, <1>9 DEF Put
  <2> QED
    BY <2>1, <2>2 DEF MapInv
<1>10. \A r \in Side : q'[r] \in Seq(FromUser)
  BY <1>2, <1>4, <1>5, <1>9 DEF MapInv
<1>11. SrcKept /\ SrcGrow
  BY <1>1, SrcSame, SrcFewer
<1>12. \A r \in Side : HandlerSound(r)'
  BY <1>1, <1>2, <1>11, HandlerStays
<1>13. \A r \in rows' : RowSound(r)'
  BY <1>1, <1>11, RowsStaySound
<1> QED
  BY <1>2, <1>7, <1>8, <1>10, <1>12, <1>13 DEF MapInv

\* The process starts again with empty queues, and possibly what Bale still has.
LEMMA CrashMaps ==
  ASSUME MapInv, BridgeInv', Crash
  PROVE  MapInv'
<1>1. /\ w' = [s \in Side |-> Stopped("idle")] /\ UNCHANGED <<posts, rows>>
      /\ q' = [s \in Side |-> <<>>] /\ job' = [s \in Side |-> NoJob]
      /\ stream' = [s \in Side |-> IF s = "bale" /\ BaleMode = "bot" THEN stream[s] ELSE <<>>]
  BY DEF Crash, Restart, dbVars
<1>2. FromUser' = FromUser /\ SrcKept
  BY <1>1, SamePosts, SrcSame DEF FromUser, ByUser
<1>3. ASSUME NEW s \in Side
      PROVE  /\ stream'[s] \in Seq(FromUser) /\ q'[s] \in Seq(FromUser) /\ job'[s] = NoJob
             /\ HandlerSound(s)'
  <2>1. stream'[s] \in Seq(FromUser) /\ q'[s] \in Seq(FromUser) /\ job'[s] = NoJob
    BY <1>1 DEF MapInv
  <2>2. w'[s].pc = "idle"
    BY <1>1, StoppedRests
  <2> QED
    BY <2>1, <2>2 DEF HandlerSound, Editing
<1>4. \A r \in rows' : RowSound(r)'
  BY <1>1, <1>2, RowsStaySound
<1> QED
  BY <1>2, <1>3, <1>4 DEF MapInv

-----------------------------------------------------------------------------
(* Handlers *)

\* A worker takes a job: it is one of those queued.
LEMMA TakeMaps ==
  ASSUME MapInv, BridgeInv', NEW s \in Side, Take(s), UNCHANGED <<posts, rows>>, Others(s),
         HandlerSound(s)'
  PROVE  MapInv'
<1>1. /\ q[s] # <<>> /\ q' = [q EXCEPT ![s] = Tail(@)] /\ UNCHANGED stream
      /\ job'[s] = Head(q[s]) /\ \A r \in Side : r # s => job'[r] = job[r]
  BY TakeFacts DEF MapInv
<1>2. FromUser' = FromUser /\ SrcKept /\ SrcGrow
  BY SamePosts, SrcSame, SrcFewer DEF FromUser, ByUser
<1>3. q[s] \in Seq(FromUser)
  BY DEF MapInv
<1>4. Head(q[s]) \in FromUser /\ Tail(q[s]) \in Seq(FromUser)
  BY <1>1, <1>3, HeadTailProperties
<1>5. q \in [Side -> Seq(Job)]
  BY InvFacts DEF MapInv, QueueTypeOK
<1>6. ASSUME NEW r \in Side
      PROVE  /\ q'[r] \in Seq(FromUser) /\ job'[r] \in FromUser \cup {NoJob}
             /\ HandlerSound(r)'
  <2>1. q'[r] \in Seq(FromUser) /\ job'[r] \in FromUser \cup {NoJob}
    BY <1>1, <1>4, <1>5 DEF MapInv
  <2>2. HandlerSound(r)'
    BY <1>1, <1>2, HandlerStays DEF Others
  <2> QED
    BY <2>1, <2>2
<1>7. \A r \in rows' : RowSound(r)'
  BY <1>2, RowsStaySound
<1> QED
  BY <1>1, <1>2, <1>6, <1>7 DEF MapInv

LEMMA StartMaps ==
  ASSUME MapInv, BridgeInv', NEW s \in Side, StartNew(s) \/ StartDelete(s)
  PROVE  MapInv'
<1>1. Take(s) /\ UNCHANGED <<posts, rows>> /\ w' \in [Side -> Local] /\ Others(s)
      /\ w'[s].made = <<>> /\ w'[s].pc \notin Editing
  <2>1. CASE StartNew(s)
    <3> DEFINE pairs == PairsFor(s, Head(q[s]).items[1].msg.chat)
    <3>1. /\ Take(s) /\ UNCHANGED <<posts, rows>>
          /\ \/ Become(s, Stopped("done"))
             \/ Become(s, IF pairs = {} THEN Stopped("done")
                          ELSE [Stopped("send") EXCEPT !.todo = pairs])
      BY <2>1 DEF StartNew, Starts
    <3>2. pairs \subseteq PairId
      BY DEF PairsFor
    <3> HIDE DEF pairs
    <3>3. CASE Become(s, Stopped("done"))
      BY <3>1, <3>3, InvFacts, StoppedFacts, BecomeFacts DEF PC, Editing, MapInv
    <3>4. CASE Become(s, IF pairs = {} THEN Stopped("done")
                         ELSE [Stopped("send") EXCEPT !.todo = pairs])
      BY <3>1, <3>2, <3>4, InvFacts, SendFrom DEF SendsTo, Rests, Editing, MapInv
    <3> QED
      BY <3>1, <3>3, <3>4
  <2>2. CASE StartDelete(s)
    <3> DEFINE mids == Head(q[s]).ids
    <3>1. /\ Take(s) /\ Head(q[s]).kind = "delete" /\ DeleteFrom(s, {}, mids, rows, ignore)
          /\ UNCHANGED <<posts, rows>>
      BY <2>2 DEF StartDelete, Starts, dbVars
    <3>2. mids \subseteq Msg /\ {} \subseteq Found /\ FoundKnown({}, Posted)
      BY <3>1, TakeFacts, InvFacts DEF HomeJob, About, FoundKnown, MapInv
    <3> HIDE DEF mids
    <3>3. w' \in [Side -> Local] /\ Others(s) /\ DeletesOf(s, w'[s], {}, mids, rows)
      BY <3>1, <3>2, InvFacts, DeleteFromFacts DEF MapInv
    <3> QED
      BY <3>1, <3>3 DEF DeletesOf, Rests, Editing
  <2> QED
    BY <2>1, <2>2
<1>2. HandlerSound(s)'
  BY <1>1 DEF HandlerSound
<1> QED
  BY <1>1, <1>2, TakeMaps

\* What is found for an edited message of a user are rows with that source.
LEMMA StartEditMaps ==
  ASSUME MapInv, BridgeInv', NEW s \in Side, StartEdit(s)
  PROVE  MapInv'
<1> DEFINE m == Head(q[s]).items[1].msg
           F == OtherSide(rows, m)
<1>1. /\ Take(s) /\ Head(q[s]).kind = "edit" /\ EditFrom(s, F) /\ UNCHANGED <<posts, rows>>
  BY DEF StartEdit, Starts, dbVars
<1>2. rows \subseteq Row /\ RowsKnown(rows, lastRow, Posted)
  BY InvFacts DEF MapInv
<1>3. F \subseteq Found /\ FoundKnown(F, Posted)
  BY <1>2, OtherSideFacts
<1>4. w' \in [Side -> Local] /\ Others(s) /\ EditsOf(s, w'[s], F)
  BY <1>1, <1>3, InvFacts, EditFromFacts DEF MapInv
<1>5. w'[s].made = <<>> /\ w'[s].found \subseteq F
  BY <1>4 DEF EditsOf, Rests
<1>6. job'[s] = Head(q[s]) /\ q[s] # <<>>
  BY <1>1, TakeFacts DEF MapInv
<1>7. Source(s)'.msg = m
  BY <1>6 DEF Source
<1>8. ByUser(m)
  <2>1. q[s] \in Seq(FromUser)
    BY DEF MapInv
  <2>2. Head(q[s]) \in FromUser
    BY <1>6, <2>1, HeadTailProperties
  <2> QED
    BY <1>1, <2>2 DEF FromUser
<1>9. ASSUME NEW o \in F, NEW x \in rows, x.id = o.row PROVE x.src = m
  <2>1. PICK r \in rows : /\ r.id = o.row
                          /\ r.src = m \/ (r.dst = m /\ r.src # m)
    BY <1>2, OtherSideFacts
  <2>2. x = r
    BY <1>2, <1>9, <2>1 DEF RowsKnown
  <2>3. ASSUME r.dst = m PROVE FALSE
    <3>1. At(m).src = r.src /\ r.src \in Msg
      BY <1>2, <2>3 DEF MapInv, RowSound, Row
    <3> QED
      BY <1>8, <3>1, MsgAssumption DEF ByUser
  <2> QED
    BY <2>1, <2>2, <2>3
<1> HIDE DEF F, m
<1>10. HandlerSound(s)'
  BY <1>1, <1>5, <1>7, <1>9 DEF HandlerSound
<1> QED
  BY <1>1, <1>4, <1>10, TakeMaps

LEMMA ReturnMaps ==
  ASSUME MapInv, BridgeInv', NEW s \in Side, Return(s)
  PROVE  MapInv'
<1>1. /\ Become(s, Stopped("idle")) /\ job' = [job EXCEPT ![s] = NoJob]
      /\ UNCHANGED <<stream, q, posts, rows>>
  BY DEF Return, Done, dbVars
<1>2. Others(s) /\ w'[s].pc = "idle"
  BY <1>1, InvFacts, StoppedFacts, StoppedRests, BecomeFacts DEF PC, MapInv
<1>3. job \in [Side -> Job \cup {NoJob}]
  BY InvFacts DEF MapInv, QueueTypeOK
<1>4. FromUser' = FromUser /\ SrcKept /\ SrcGrow
  BY <1>1, SamePosts, SrcSame, SrcFewer DEF FromUser, ByUser
<1>5. ASSUME NEW r \in Side
      PROVE  job'[r] \in FromUser \cup {NoJob} /\ HandlerSound(r)'
  <2>1. CASE r = s
    BY <1>1, <1>2, <1>3, <2>1 DEF HandlerSound, Editing
  <2>2. CASE r # s
    <3>1. w'[r] = w[r] /\ job'[r] = job[r]
      BY <1>1, <1>2, <1>3, <2>2 DEF Others
    <3>2. HandlerSound(r)'
      BY <1>4, <3>1, HandlerStays
    <3> QED
      BY <3>1, <3>2 DEF MapInv
  <2> QED
    BY <2>1, <2>2
<1>6. \A r \in rows' : RowSound(r)'
  BY <1>1, <1>4, RowsStaySound
<1> QED
  BY <1>1, <1>4, <1>5, <1>6 DEF MapInv

LEMMA SendMaps ==
  ASSUME MapInv, BridgeInv', NEW s \in Side, Send(s)
  PROVE  MapInv'
<1>1. PICK m : m = [chat |-> SendChat(s), id |-> Len(posts[SendChat(s)]) + 1]
  OBVIOUS
<1>2. /\ w[s].pc \in {"send", "resend"}
      /\ Echo(Other(s), "new", NewEvent(m, Source(s).txt)) \/ UNCHANGED stream
      /\ UNCHANGED <<q, job, rows>>
  BY <1>1 DEF Send, dbVars
<1>3. BridgeInv
  BY DEF MapInv
<1>4. /\ m \in Msg /\ m \notin Posted /\ Posted' = Posted \cup {m}
      /\ At(m)' = [st |-> "live", txt |-> Source(s).txt, src |-> Source(s).msg]
      /\ \A n \in Posted : At(n)' = At(n)
      /\ Others(s) /\ w'[s].pc = w[s].pc /\ w'[s].found = w[s].found
      /\ w'[s].made = Append(w[s].made, m)
  BY <1>1, <1>3, SendFacts
<1>5. SrcKept /\ SrcGrow
  BY <1>2, <1>4, SrcFewer DEF SrcKept
<1>6. NewEvent(m, Source(s).txt) \in FromUser'
  <2>1. Source(s).txt \in Text
    BY <1>2, <1>3, SourceFacts DEF Editing
  <2> QED
    BY <1>3, <1>4, <1>5, <2>1, EventsFromUser, FromUserGrows
<1>7. \A r \in Side : stream'[r] \in Seq(FromUser')
  BY <1>2, <1>5, <1>6, StreamsSame, StreamsEmit, SideFacts DEF Echo
<1>8. HandlerSound(s)'
  <2>1. HandlerSound(s) /\ Source(s)' = Source(s) /\ w[s].made \in Seq(Msg)
    BY <1>2, <1>3, InvFacts DEF MapInv, Source
  <2>2. \A i \in DOMAIN w[s].made : w[s].made[i] \in Posted
    BY DEF MapInv, BridgeInv, HandlerKnown
  <2>3. ASSUME NEW i \in DOMAIN w'[s].made
        PROVE  At(w[s].made[i])'.src = Source(s).msg
    <3>1. \/ w'[s].made[i] = m
          \/ i \in DOMAIN w[s].made /\ w'[s].made[i] = w[s].made[i]
      BY <1>4, <2>1
    <3>2. CASE w'[s].made[i] = m
      BY <1>4, <3>2
    <3>3. CASE i \in DOMAIN w[s].made /\ w'[s].made[i] = w[s].made[i]
      <4>1. PICK n \in Posted : n = w[s].made[i]
        BY <2>2, <3>3
      <4>2. At(n).src = Source(s).msg
        BY <1>2, <2>1, <3>3, <4>1 DEF HandlerSound, Editing
      <4> QED
        BY <1>4, <3>3, <4>1, <4>2
    <3> QED
      BY <3>1, <3>2, <3>3
  <2>4. w[s].pc \in Editing =>
          \A o \in w'[s].found, r \in rows' : r.id = o.row => r.src = Source(s).msg
    BY <1>2, <1>4, <2>1 DEF HandlerSound
  <2> QED
    BY <1>4, <2>1, <2>3, <2>4 DEF HandlerSound
<1>9. \A r \in rows' : r \in rows
  BY <1>2
<1> QED
  BY <1>2, <1>4, <1>5, <1>7, <1>8, <1>9, MapFrame

\* The other steps of a handler keep what it has made, or give it up.
LEMMA MoveMaps ==
  ASSUME MapInv, BridgeInv', NEW s \in Side, SrcKept, rows' \subseteq rows,
         UNCHANGED <<q, job>>, \A r \in Side : stream'[r] \in Seq(FromUser'), Others(s),
         w'[s].pc \in Editing => w[s].pc \in Editing /\ FewerFound(s),
         \/ w'[s].made = <<>>
         \/ w'[s].made = w[s].made /\ w[s].pc \in Editing
  PROVE  MapInv'
<1>1. SrcGrow
  BY SrcFewer
<1>2. HandlerSound(s)'
  BY <1>1, HandlerMoves
<1> QED
  BY <1>1, <1>2, MapFrame

\* On to the next target, or from one call of an edit to the next.
LEMMA EditMoves ==
  ASSUME MapInv, NEW s \in Side, w[s].pc \in Editing,
         NextEdit(s) \/ \E pc \in Editing : Goto(s, pc)
  PROVE  /\ Others(s) /\ FewerFound(s)
         /\ \/ w'[s].made = <<>>
            \/ w'[s].made = w[s].made /\ w[s].pc \in Editing
<1>1. CASE NextEdit(s)
  BY <1>1, NextEditFacts DEF MapInv, EditsOf, Rests
<1>2. ASSUME NEW pc \in Editing, Goto(s, pc)
      PROVE  Others(s) /\ FewerFound(s) /\ w'[s].made = w[s].made
  BY <1>2, InvFacts, GotoFacts DEF MapInv, PC, Editing, FewerFound
<1> QED
  BY <1>1, <1>2

LEMMA SendFailsMaps ==
  ASSUME MapInv, BridgeInv', NEW s \in Side, SendFails(s)
  PROVE  MapInv'
<1>1. /\ w[s].pc \in {"send", "resend"} /\ LateEchoes(s) /\ UNCHANGED <<q, job, posts, rows>>
  BY DEF SendFails, dbVars
<1>2. SrcKept /\ \A r \in Side : stream'[r] \in Seq(FromUser')
  BY <1>1, SrcSame, StreamsLate
<1>3. CASE w[s].pc = "send"
  <2>1. Others(s) /\ w'[s].made = <<>> /\ w'[s].pc \notin Editing
    BY <1>3, NextPairFacts DEF SendFails, SendsTo, Rests, Editing, MapInv
  <2> QED
    BY <1>1, <1>2, <2>1, MoveMaps
<1>4. CASE w[s].pc = "resend"
  <2>1. w[s].pc \in Editing /\ NextEdit(s)
    BY <1>4 DEF SendFails, Editing
  <2> QED
    BY <1>1, <1>2, <2>1, EditMoves, MoveMaps
<1> QED
  BY <1>1, <1>3, <1>4

\* Steps of an edit that change no post.
LEMMA QuietMaps ==
  ASSUME MapInv, BridgeInv', NEW s \in Side,
         Fetched(s) \/ Resent(s) \/ RemoveFails(s) \/ Removed(s)
  PROVE  MapInv'
<1>1. /\ w[s].pc \in Editing
      /\ NextEdit(s) \/ \E pc \in Editing : Goto(s, pc)
      /\ LateEchoes(s) \/ UNCHANGED stream
      /\ UNCHANGED <<q, job, posts, rows>>
  <2>1. CASE Fetched(s)
    BY <2>1 DEF Fetched, Editing, queueVars, dbVars
  <2>2. CASE Resent(s)
    BY <2>2 DEF Resent, Editing, dbVars
  <2>3. CASE RemoveFails(s)
    BY <2>3 DEF RemoveFails, Editing, queueVars, dbVars
  <2>4. CASE Removed(s)
    BY <2>4 DEF Removed, Editing, queueVars, dbVars
  <2> QED
    BY <2>1, <2>2, <2>3, <2>4
<1>2. SrcKept
  BY <1>1, SrcSame
<1>3. \A r \in Side : stream'[r] \in Seq(FromUser')
  BY <1>1, <1>2, StreamsLate, StreamsSame
<1> QED
  BY <1>1, <1>2, <1>3, EditMoves, MoveMaps

\* The platform executes an edit.
LEMMA RewriteMaps ==
  ASSUME CopiesNotEdited, MapInv, NEW s \in Side, Rewrite(s)
  PROVE  SrcKept /\ \A r \in Side : stream'[r] \in Seq(FromUser')
<1>1. PICK m : m = Target(s).msg
  OBVIOUS
<1>2. /\ Posted' = Posted /\ m \in Posted /\ PostsTyped
      /\ At(m)' = [At(m) EXCEPT !.txt = Source(s).txt]
      /\ \A n \in Posted : n # m => At(n)' = At(n)
      /\ Echo(Other(s), "edit", EditEvent(m, Source(s).txt))
  BY <1>1, RewriteFacts, InvFacts DEF MapInv
<1>3. SrcKept
  BY <1>2, SrcSet
<1>4. UNCHANGED stream
  BY <1>2, SideFacts DEF Echo, CopiesNotEdited
<1> QED
  BY <1>3, <1>4, StreamsSame

LEMMA EditedMaps ==
  ASSUME CopiesNotEdited, MapInv, BridgeInv', NEW s \in Side, Edited(s) \/ EditFalls(s)
  PROVE  MapInv'
<1>1. /\ w[s].pc \in Editing
      /\ NextEdit(s) \/ \E pc \in Editing : Goto(s, pc)
      /\ Rewrite(s) \/ UNCHANGED <<posts, stream>>
      /\ UNCHANGED <<q, job, rows>>
  <2>1. CASE Edited(s)
    BY <2>1 DEF Edited, Rewrite, Editing, dbVars
  <2>2. CASE EditFalls(s)
    BY <2>2 DEF EditFalls, Rewrite, FallbackFirst, Editing, dbVars
  <2> QED
    BY <2>1, <2>2
<1>2. SrcKept /\ \A r \in Side : stream'[r] \in Seq(FromUser')
  BY <1>1, RewriteMaps, SrcSame, StreamsSame
<1> QED
  BY <1>1, <1>2, EditMoves, MoveMaps

LEMMA BreaksMaps ==
  ASSUME CopiesNotEdited, MapInv, BridgeInv', NEW s \in Side, Breaks(s)
  PROVE  MapInv'
<1>1. Rewrite(s) \/ UNCHANGED <<posts, stream>>
  BY DEF Breaks
<1>2. SrcKept /\ \A r \in Side : stream'[r] \in Seq(FromUser')
  BY <1>1, RewriteMaps, SrcSame, StreamsSame
<1>3. Others(s) /\ w'[s].made = <<>> /\ w'[s].pc \notin Editing
  BY BreakFacts DEF MapInv, Rests, Editing
<1>4. UNCHANGED <<q, job, rows>>
  BY DEF Breaks
<1> QED
  BY <1>2, <1>3, <1>4, MoveMaps

\* The platform executes a deletion.
LEMMA VanishMaps ==
  ASSUME MapInv, BridgeInv', NEW s \in Side, Remove(s) \/ Delete(s)
  PROVE  MapInv'
<1>1. PICK pc : /\ Vanish(s, pc)
                /\ \/ w[s].pc = "remove" /\ pc = "removed"
                   \/ w[s].pc = "delete" /\ pc = "deleted"
  BY DEF Remove, Delete
<1>2. Goto(s, pc) /\ UNCHANGED <<q, job, rows>>
  BY <1>1 DEF Vanish, dbVars
<1>3. PICK m : m = Target(s).msg
  OBVIOUS
<1>4. /\ Posted' = Posted /\ m \in Posted /\ PostsTyped
      /\ \A n \in Posted : n # m => At(n)' = At(n)
      /\ \/ At(m)' = [At(m) EXCEPT !.st = "removed"]
         \/ At(m)' = At(m)
      /\ UNCHANGED stream \/ Echo(Other(s), "delete", DeleteEvent(m))
  BY <1>1, <1>3, VanishFacts, InvFacts DEF MapInv, Editing, Deleting
<1>5. SrcKept
  BY <1>4, SrcSet
<1>6. DeleteEvent(m) \in FromUser'
  <2>1. m \in Msg /\ At(m).txt \in Text /\ BridgeInv
    BY <1>4, PostedFacts DEF MapInv
  <2> QED
    BY <1>5, <2>1, EventsFromUser, FromUserGrows
<1>7. \A r \in Side : stream'[r] \in Seq(FromUser')
  BY <1>4, <1>5, <1>6, StreamsSame, StreamsEmit, SideFacts DEF Echo
<1>8. CASE w[s].pc = "remove" /\ pc = "removed"
  <2>1. w[s].pc \in Editing /\ pc \in Editing
    BY <1>8 DEF Editing
  <2> QED
    BY <1>2, <1>5, <1>7, <2>1, EditMoves, MoveMaps
<1>9. CASE w[s].pc = "delete" /\ pc = "deleted"
  <2>1. Others(s) /\ w'[s].pc = "deleted" /\ w'[s].made = w[s].made
    BY <1>2, <1>9, InvFacts, GotoFacts DEF MapInv, PC
  <2>2. SrcGrow
    BY <1>2, SrcFewer
  <2>3. HandlerSound(s)'
    BY <2>1 DEF HandlerSound, Editing
  <2>4. \A r \in rows' : r \in rows
    BY <1>2
  <2> QED
    BY <1>2, <1>5, <1>7, <2>1, <2>2, <2>3, <2>4, MapFrame
<1> QED
  BY <1>1, <1>8, <1>9

LEMMA UnmapMaps ==
  ASSUME MapInv, BridgeInv', NEW s \in Side, Deleted(s) \/ DeleteFalls(s)
  PROVE  MapInv'
<1>1. PICK ign \in SUBSET Msg : w[s].pc \in Deleting /\ Unmap(s, ign)
  <2>1. ignore \subseteq Msg
    BY InvFacts DEF MapInv
  <2> QED
    BY <2>1 DEF Deleted, DeleteFalls, Deleting
<1>2. /\ rows' \subseteq rows /\ Others(s)
      /\ DeletesOf(s, w'[s], w[s].found \ {Target(s)}, w[s].mids, rows')
  BY <1>1, UnmapFacts DEF MapInv
<1>3. w'[s].made = <<>> /\ w'[s].pc \notin Editing
  BY <1>2 DEF DeletesOf, Rests, Editing
<1>4. UNCHANGED <<q, job, posts, stream>>
  BY <1>1 DEF Unmap
<1>5. SrcKept /\ \A r \in Side : stream'[r] \in Seq(FromUser')
  BY <1>4, SrcSame, StreamsSame
<1> QED
  BY <1>2, <1>3, <1>4, <1>5, MoveMaps

\* The rows of a mirrored message name it and what was made of it.
LEMMA RecordMaps ==
  ASSUME MapInv, BridgeInv', NEW s \in Side, Record(s)
  PROVE  MapInv'
<1> DEFINE made == w[s].made
<1>1. /\ w[s].pc = "send" /\ NextPair(s) /\ LateEchoes(s)
      /\ rows' = AddRows(rows, lastRow, FirstPair(s), Source(s).msg, made)
      /\ UNCHANGED <<q, job, posts>>
  BY DEF Record
<1>2. BridgeInv /\ rows \subseteq Row /\ lastRow \in Nat /\ Posted \subseteq Msg
      /\ RowsKnown(rows, lastRow, Posted)
  BY InvFacts DEF MapInv
<1>3. SrcKept /\ \A r \in Side : stream'[r] \in Seq(FromUser')
  BY <1>1, SrcSame, StreamsLate
<1>4. Others(s) /\ w'[s].made = <<>> /\ w'[s].pc \notin Editing
  BY <1>1, <1>2, NextPairFacts DEF SendsTo, Rests, Editing
<1>5. ASSUME NEW i \in DOMAIN made
      PROVE  /\ made[i] \in Posted /\ SideOf(made[i].chat) = Other(s)
             /\ At(made[i]).src = Source(s).msg
  BY <1>1, <1>2 DEF BridgeInv, HandlerKnown, MapInv, HandlerSound
<1>6. Source(s).msg \in Posted /\ SideOf(Source(s).msg.chat) = s
  BY <1>1, <1>2, SourceFacts
<1>7. \A r \in rows' : r \in rows \/ (/\ r.id > lastRow /\ r.src = Source(s).msg
                                      /\ \E i \in DOMAIN made : r.dst = made[i])
  <2>1. made \in Seq(Msg)
    BY <1>2, InvFacts
  <2> HIDE DEF made
  <2> QED
    BY <1>1, <1>2, <2>1, AddedRows
<1>8. ASSUME NEW r \in rows', r \notin rows PROVE RowSound(r)'
  <2>1. PICK i \in DOMAIN made : r.dst = made[i] /\ r.src = Source(s).msg
    BY <1>7, <1>8
  <2>2. PICK n \in Posted : n = made[i]
    BY <1>5, <2>1
  <2>3. SideOf(n.chat) = Other(s) /\ At(n).src = Source(s).msg
    BY <1>5, <2>1, <2>2
  <2>4. n.chat # r.src.chat
    BY <1>6, <2>1, <2>3, SideFacts
  <2>5. At(n)'.src = r.src
    BY <1>3, <2>1, <2>3 DEF SrcKept
  <2> QED
    BY <2>1, <2>2, <2>4, <2>5 DEF RowSound
<1>9. SrcGrow
  BY <1>7 DEF SrcGrow
<1>10. HandlerSound(s)'
  BY <1>4 DEF HandlerSound
<1> QED
  BY <1>1, <1>3, <1>4, <1>8, <1>9, <1>10, MapFrame

\* The row of a replaced copy names the first message of the replacement.
LEMMA ReplaceMaps ==
  ASSUME MapInv, BridgeInv', NEW s \in Side, Replace(s)
  PROVE  MapInv'
<1>1. PICK m : m = [chat |-> Target(s).msg.chat, id |-> w[s].made[1].id]
  OBVIOUS
<1>2. /\ NextEdit(s)
      /\ LateEchoes(s) \/ UNCHANGED stream
      /\ UNCHANGED <<q, job, posts>>
  BY DEF Replace
<1>3. /\ w[s].pc \in Editing /\ m \in Posted /\ m = w[s].made[1] /\ 1 \in DOMAIN w[s].made
      /\ \A r \in rows' : \E r0 \in rows :
           /\ r.id = r0.id /\ r.pair = r0.pair /\ r.src = r0.src
           /\ r.dst = IF r0.id = Target(s).row THEN m ELSE r0.dst
  BY <1>1, ReplaceTable DEF MapInv
<1>4. SrcKept
  BY <1>2, SrcSame
<1>5. \A r \in Side : stream'[r] \in Seq(FromUser')
  BY <1>2, <1>4, StreamsLate, StreamsSame
<1>6. SrcGrow
  BY <1>3 DEF SrcGrow
<1>7. At(m).src = Source(s).msg /\ SideOf(m.chat) = Other(s)
  BY <1>3 DEF MapInv, HandlerSound, BridgeInv, HandlerKnown
<1>8. SideOf(Source(s).msg.chat) = s
  BY <1>3, SourceFacts DEF MapInv
<1>9. Target(s) \in w[s].found
  BY <1>3, TargetFacts DEF MapInv
<1>10. ASSUME NEW r \in rows' PROVE RowSound(r)'
  <2>1. PICK r0 \in rows : /\ r.src = r0.src
                           /\ r.dst = IF r0.id = Target(s).row THEN m ELSE r0.dst
    BY <1>3
  <2>2. CASE r0.id = Target(s).row
    <3>1. r0.src = Source(s).msg
      BY <1>3, <1>9, <2>2 DEF MapInv, HandlerSound
    <3>2. At(m)'.src = Source(s).msg
      BY <1>3, <1>4, <1>7 DEF SrcKept
    <3>3. r.src.chat # m.chat
      BY <1>7, <1>8, <2>1, <3>1, SideFacts
    <3> QED
      BY <2>1, <2>2, <3>1, <3>2, <3>3 DEF RowSound
  <2>3. CASE r0.id # Target(s).row
    <3>1. RowSound(r0)'
      BY <1>4, RowsStaySound
    <3> QED
      BY <2>1, <2>3, <3>1 DEF RowSound
  <2> QED
    BY <2>2, <2>3
<1>11. /\ Others(s) /\ FewerFound(s)
       /\ w'[s].made = <<>> \/ w'[s].made = w[s].made
  BY <1>2, <1>3, EditMoves
<1>12. HandlerSound(s)'
  BY <1>2, <1>3, <1>4, <1>6, <1>11, HandlerMoves
<1> QED
  BY <1>2, <1>4, <1>5, <1>6, <1>10, <1>11, <1>12, MapFrame

-----------------------------------------------------------------------------
(* The map is sound *)

LEMMA StepMaps == CopiesNotEdited /\ MapInv /\ [Next]_vars => MapInv'
<1> SUFFICES ASSUME CopiesNotEdited, MapInv, [Next]_vars PROVE MapInv'
  OBVIOUS
<1>0. BridgeInv'
  BY StepKnown DEF MapInv
<1>1. ASSUME NEW c \in Chat, NEW t \in Text, UserPost(c, t) PROVE MapInv'
  BY <1>0, <1>1, UserPostMaps
<1>2. ASSUME NEW m \in Msg, NEW t \in Text, UserEdit(m, t) PROVE MapInv'
  BY <1>0, <1>2, UserEditMaps
<1>3. ASSUME NEW m \in Msg, UserDelete(m) PROVE MapInv'
  BY <1>0, <1>3, UserDeleteMaps
<1>4. ASSUME NEW s \in Side, Intake(s) PROVE MapInv'
  BY <1>0, <1>4, IntakeMaps
<1>5. ASSUME NEW s \in Side, Handler(s) \/ Fault(s) PROVE MapInv'
  <2>1. CASE StartNew(s) \/ StartDelete(s) \/ StartEdit(s) \/ Return(s)
    BY <1>0, <2>1, StartMaps, StartEditMaps, ReturnMaps
  <2>2. CASE Send(s) \/ Record(s) \/ SendFails(s)
    BY <1>0, <2>2, SendMaps, RecordMaps, SendFailsMaps
  <2>3. CASE Fetched(s) \/ Resent(s) \/ Removed(s) \/ RemoveFails(s)
    BY <1>0, <2>3, QuietMaps
  <2>4. CASE Edited(s) \/ EditFalls(s) \/ Replace(s)
    BY <1>0, <2>4, EditedMaps, ReplaceMaps
  <2>5. CASE Remove(s) \/ Delete(s) \/ Deleted(s) \/ DeleteFalls(s)
    BY <1>0, <2>5, VanishMaps, UnmapMaps
  <2>6. CASE Breaks(s)
    BY <1>0, <2>6, BreaksMaps
  <2> QED
    BY <1>5, <2>1, <2>2, <2>3, <2>4, <2>5, <2>6, Failing DEF Handler, Fault
<1>6. CASE \/ \E f \in fps : FpExpires(f)
           \/ \E p \in PairId, md \in Mode : SetMode(p, md)
           \/ \E p \in PairId : RemovePair(p)
           \/ UNCHANGED vars
  <2>1. UNCHANGED <<queueVars, posts, w>> /\ rows' \subseteq rows
    BY <1>6 DEF FpExpires, SetMode, RemovePair, PurgePair, vars, dbVars
  <2> QED
    BY <1>0, <2>1, TablesMap
<1>7. CASE Crash
  BY <1>0, <1>7, CrashMaps
<1> QED
  BY <1>1, <1>2, <1>3, <1>4, <1>5, <1>6, <1>7 DEF Next

LEMMA InitMaps == Init => MapInv
<1> SUFFICES ASSUME Init PROVE MapInv
  OBVIOUS
<1>1. BridgeInv
  BY InitKnown
<1>2. rows = {} /\ \A s \in Side : /\ stream[s] = <<>> /\ q[s] = <<>> /\ job[s] = NoJob
                                   /\ w[s] = Stopped("idle")
  BY DEF Init, QueueInit
<1>3. \A s \in Side : HandlerSound(s)
  BY <1>2, StoppedRests DEF HandlerSound, Editing
<1>4. \A s \in Side : /\ stream[s] \in Seq(FromUser) /\ q[s] \in Seq(FromUser)
                      /\ job[s] \in FromUser \cup {NoJob}
  <2>1. <<>> \in Seq(FromUser)
    OBVIOUS
  <2>2. ASSUME NEW s \in Side
        PROVE  stream[s] \in Seq(FromUser) /\ q[s] \in Seq(FromUser)
    BY <1>2, <2>1, Zenon
  <2>3. \A s \in Side : job[s] = NoJob
    BY <1>2
  <2> QED
    BY <2>2, <2>3
<1> QED
  BY <1>1, <1>2, <1>3, <1>4 DEF MapInv

\* As long as users edit only what they wrote and no platform reports the bridge's
\* own edits, msg_map joins the two channels of a pair and its dst is a copy of its
\* src, whatever fails in between and whenever the process dies (sync_edit.py,
\* repository.py replace_dst).
THEOREM MapStaysSound ==
  ASSUME CopiesNotEdited
  PROVE  Spec => []MapSound
<1>1. MapInv /\ [Next]_vars => MapInv'
  BY StepMaps
<1> QED
  BY <1>1, InitMaps, MapInvSound, PTL DEF Spec

-----------------------------------------------------------------------------
(* No copy of a copy *)

\* Where a platform reports the bridge's own posts it does so after the call that
\* makes them, the calls succeed, and no edit there may need a replacement.
EchoesAwaited ==
  \A s \in Side : <<s, "new">> \in Echoes =>
    /\ ~EarlyEcho
    /\ <<s, "send">> \notin Faulty
    /\ <<Other(s), "source">> \notin UserEdits

\* Reports of the post m.
News(m) == { j \in Job : j.kind = "new" /\ j.items[1].msg = m }

\* The jobs of a side whose replacements nobody reports.
Apart(s) == { j \in Job : j.kind = "edit" => <<Other(s), "new">> \notin Echoes }

\* What is queued to be mirrored is by users.
Fresh(s) ==
  { j \in Apart(s) : j.kind = "new" => j.items[1].msg \in Posted /\ ByUser(j.items[1].msg) }

\* The report of a copy is yet to come, once, and the ledger has the copy.
Awaited(m) ==
  /\ AtMostOnce(stream[SideOf(m.chat)], News(m))
  /\ Occurs(stream[SideOf(m.chat)], News(m)) =>
       m \in sent /\ \A s \in Side : m \notin Range(w[s].made)

Distinct(a) == \A i, j \in DOMAIN a : a[i] = a[j] => i = j

CopyOfUser(m) == At(m).src \in Posted /\ ByUser(At(m).src)

ReflInv ==
  /\ MapInv
  /\ \A s \in Side : /\ stream[s] \in Seq(Apart(s)) /\ q[s] \in Seq(Fresh(s))
                     /\ job[s] \in Fresh(s) \cup {NoJob}
                     /\ Distinct(w[s].made)
  /\ \A m \in Posted : ~ByUser(m) => CopyOfUser(m) /\ Awaited(m)

LEMMA ReflInvSound == ReflInv => NoReflection
  BY DEF ReflInv, NoReflection, CopyOfUser

LEMMA FreshGrows ==
  ASSUME SrcKept, NEW s
  PROVE  Fresh(s) \subseteq Fresh(s)'
  BY DEF Fresh, SrcKept, ByUser

\* A report stays the only one when no other is added.
LEMMA AwaitedStays ==
  ASSUME ReflInv, NEW m, Awaited(m), m \in sent => m \in sent',
         \/ UNCHANGED stream
         \/ \E r \in Side, e \in Job : e \notin News(m) /\ Emit(r, e),
         \A s \in Side : m \in Range(w'[s].made) => m \in Range(w[s].made)
  PROVE  Awaited(m)'
<1> DEFINE a == SideOf(m.chat)
<1>1. stream \in [Side -> Seq(Job)] /\ a \in Side
  BY InvFacts, SideOfType DEF ReflInv, MapInv, QueueTypeOK
<1>2. ASSUME NEW r \in Side, NEW e \in Job, e \notin News(m), Emit(r, e)
      PROVE  /\ Occurs(stream'[a], News(m)) => Occurs(stream[a], News(m))
             /\ AtMostOnce(stream'[a], News(m))
  <2>1. stream'[a] = IF r = a THEN Append(stream[a], e) ELSE stream[a]
    BY <1>1, <1>2 DEF Emit
  <2>2. AtMostOnce(stream[a], News(m))
    BY DEF Awaited
  <2> HIDE DEF a
  <2>3. CASE r = a
    BY <1>1, <1>2, <2>1, <2>2, <2>3, AppendOnce
  <2> QED
    BY <2>1, <2>2, <2>3
<1>3. /\ Occurs(stream'[a], News(m)) => Occurs(stream[a], News(m))
      /\ AtMostOnce(stream'[a], News(m))
  BY <1>2 DEF Awaited
<1> QED
  BY <1>3 DEF Awaited

\* Posts keep what they are copies of.
LEMMA CopyStays ==
  ASSUME ReflInv, SrcKept, NEW m \in Posted, ~ByUser(m)'
  PROVE  ~ByUser(m) /\ Awaited(m) /\ CopyOfUser(m)'
  BY DEF ReflInv, SrcKept, ByUser, CopyOfUser

\* A step of the handler of s, or one that takes nothing from the queues.
LEMMA ReflFrame ==
  ASSUME ReflInv, MapInv', NEW s \in Side, SrcKept, UNCHANGED <<q, job>>, Others(s),
         \A r \in Side : stream'[r] \in Seq(Apart(r)), Distinct(w'[s].made),
         \A m \in Posted' : ~ByUser(m)' => (m \in Posted \/ CopyOfUser(m)') /\ Awaited(m)'
  PROVE  ReflInv'
<1>1. ASSUME NEW r \in Side
      PROVE  /\ q'[r] \in Seq(Fresh(r)') /\ job'[r] \in Fresh(r)' \cup {NoJob}
             /\ Distinct(w'[r].made)
  <2>1. q[r] \in Seq(Fresh(r)) /\ job[r] \in Fresh(r) \cup {NoJob} /\ Distinct(w[r].made)
    BY DEF ReflInv
  <2>2. Fresh(r) \subseteq Fresh(r)'
    BY FreshGrows
  <2> QED
    BY <2>1, <2>2, SeqOfMore DEF Others
<1>2. \A m \in Posted' : ~ByUser(m)' => CopyOfUser(m)' /\ Awaited(m)'
  BY CopyStays
<1> QED
  BY <1>1, <1>2 DEF ReflInv, Apart

\* The streams of a side.
LEMMA ApartEmit ==
  ASSUME ReflInv, NEW s \in Side, NEW e \in Apart(s), Emit(s, e)
  PROVE  \A r \in Side : stream'[r] \in Seq(Apart(r))
<1>1. stream \in [Side -> Seq(Job)] /\ \A r \in Side : stream[r] \in Seq(Apart(r))
  BY InvFacts DEF ReflInv, MapInv, QueueTypeOK
<1>2. \A r \in Side : stream'[r] = IF r = s THEN Append(stream[r], e) ELSE stream[r]
  BY <1>1 DEF Emit
<1>3. Append(stream[s], e) \in Seq(Apart(s))
  BY <1>1
<1> QED
  BY <1>1, <1>2, <1>3

\* A step that reports nothing new and makes no posts.
LEMMA ReflQuiet ==
  ASSUME ReflInv, MapInv', NEW s \in Side, SrcKept, Posted' = Posted, UNCHANGED <<q, job>>,
         sent \subseteq sent', Others(s), w'[s].made \in {<<>>, w[s].made},
         \/ UNCHANGED stream
         \/ \E r \in Side : \E e \in Apart(r) : e.kind # "new" /\ Emit(r, e)
  PROVE  ReflInv'
<1>1. \A r \in Side : stream'[r] \in Seq(Apart(r))
  BY ApartEmit DEF ReflInv
<1>2. Distinct(<<>>) /\ Range(<<>>) = {}
  BY DEF Distinct, Range
<1>3. Distinct(w'[s].made)
  BY <1>2 DEF ReflInv
<1>4. ASSUME NEW m \in Posted', ~ByUser(m)' PROVE m \in Posted /\ Awaited(m)'
  <2>1. Awaited(m) /\ m \in Posted
    BY <1>4, CopyStays
  <2>2. \A r \in Side : m \in Range(w'[r].made) => m \in Range(w[r].made)
    BY <1>2 DEF Others
  <2>3. \/ UNCHANGED stream
        \/ \E r \in Side, e \in Job : e \notin News(m) /\ Emit(r, e)
    BY DEF Apart, News
  <2> QED
    BY <2>1, <2>2, <2>3, AwaitedStays
<1> QED
  BY <1>1, <1>3, <1>4, ReflFrame

-----------------------------------------------------------------------------
(* Users, the intake, restarts *)

LEMMA UserPostRefl ==
  ASSUME ReflInv, MapInv', NEW c \in Chat, NEW t \in Text, UserPost(c, t)
  PROVE  ReflInv'
<1> DEFINE p == [st |-> "live", txt |-> t, src |-> NoMsg]
<1>1. PICK n : n = [chat |-> c, id |-> Len(posts[c]) + 1]
  OBVIOUS
<1>2. /\ p \in PostRec /\ Len(posts[c]) < MaxId /\ posts' = [posts EXCEPT ![c] = Append(@, p)]
      /\ Emit(SideOf(c), NewEvent(n, t))
      /\ UNCHANGED <<q, job, sent, w>>
  BY <1>1 DEF UserPost, PostRec
<1>3. n \in Msg /\ n \notin Posted /\ Posted' = Posted \cup {n} /\ At(n)' = p /\ SrcKept
  BY <1>1, <1>2, InvFacts, Appended DEF SrcKept, ReflInv, MapInv
<1>4. /\ NewEvent(n, t) \in Job /\ NewEvent(n, t).kind = "new"
      /\ NewEvent(n, t).items[1].msg = n
  BY <1>3, EventIsJob DEF NewEvent, ItemOf, Item
<1>5. PICK r \in Side : r = SideOf(c)
  BY SideOfType
<1>6. \A s \in Side : stream'[s] \in Seq(Apart(s))
  BY <1>2, <1>4, <1>5, ApartEmit DEF Apart
<1>7. ASSUME NEW m \in Posted', ~ByUser(m)' PROVE m \in Posted /\ Awaited(m)'
  <2>1. m \in Posted /\ m # n
    BY <1>3, <1>7 DEF ByUser
  <2>2. Awaited(m)
    BY <1>3, <1>7, <2>1, CopyStays
  <2>3. NewEvent(n, t) \notin News(m)
    BY <1>4, <2>1 DEF News
  <2> QED
    BY <1>2, <1>4, <1>5, <2>1, <2>2, <2>3, AwaitedStays
<1>8. \A s \in Side : Others(s) /\ Distinct(w'[s].made)
  BY <1>2 DEF Others, ReflInv
<1> QED
  BY <1>2, <1>3, <1>6, <1>7, <1>8, ReflFrame DEF Side

LEMMA UserEditRefl ==
  ASSUME CopiesNotEdited, EchoesAwaited, ReflInv, MapInv', NEW m \in Msg, NEW t \in Text,
         UserEdit(m, t)
  PROVE  ReflInv'
<1>1. /\ m \in Posted /\ SetPost(m, [At(m) EXCEPT !.txt = t])
      /\ <<SideOf(m.chat), IF ByUser(m) THEN "source" ELSE "copy">> \in UserEdits
      /\ Emit(SideOf(m.chat), EditEvent(m, t))
      /\ UNCHANGED <<q, job, sent, w>>
  BY DEF UserEdit, MayTouch
<1>2. BridgeInv /\ PostsTyped /\ At(m) \in PostRec
  BY <1>1, InvFacts, PostedFacts DEF ReflInv, MapInv
<1>3. /\ [At(m) EXCEPT !.txt = t] \in PostRec
      /\ [At(m) EXCEPT !.txt = t].src = At(m).src
  BY <1>2 DEF PostRec
<1>4. SrcKept /\ Posted' = Posted
  BY <1>1, <1>2, <1>3, SrcUser, Changed
<1>5. PICK r \in Side : r = SideOf(m.chat)
  BY SideOfType
<1>6. <<Other(r), "new">> \notin Echoes
  <2>1. <<r, "source">> \in UserEdits /\ Other(Other(r)) = r /\ Other(r) \in Side
    BY <1>1, <1>5 DEF CopiesNotEdited, Other, Side
  <2> QED
    BY <2>1 DEF EchoesAwaited
<1>7. EditEvent(m, t) \in Apart(r) /\ EditEvent(m, t).kind # "new"
  <2>1. EditEvent(m, t) \in Job /\ EditEvent(m, t).kind = "edit"
    BY EventIsJob DEF EditEvent, ItemOf, Item
  <2> QED
    BY <1>6, <2>1 DEF Apart
<1>8. Others(r) /\ w'[r].made = w[r].made
  BY <1>1 DEF Others
<1> QED
  BY <1>1, <1>4, <1>5, <1>7, <1>8, ReflQuiet

LEMMA DeletesApart ==
  ASSUME NEW m \in Msg, NEW r \in Side
  PROVE  DeleteEvent(m) \in Apart(r) /\ DeleteEvent(m).kind # "new"
<1>1. DeleteEvent(m) \in Job /\ DeleteEvent(m).kind = "delete"
  BY DEF DeleteEvent, Job, DeleteJob
<1> QED
  BY <1>1 DEF Apart

LEMMA UserDeleteRefl ==
  ASSUME ReflInv, MapInv', NEW m \in Msg, UserDelete(m)
  PROVE  ReflInv'
<1>1. /\ m \in Posted /\ SetPost(m, [At(m) EXCEPT !.st = "deleted"])
      /\ UNCHANGED stream \/ Emit(SideOf(m.chat), DeleteEvent(m))
      /\ UNCHANGED <<q, job, sent, w>>
  BY DEF UserDelete, MayTouch
<1>2. BridgeInv /\ PostsTyped /\ At(m) \in PostRec
  BY <1>1, InvFacts, PostedFacts DEF ReflInv, MapInv
<1>3. /\ [At(m) EXCEPT !.st = "deleted"] \in PostRec
      /\ [At(m) EXCEPT !.st = "deleted"].src = At(m).src
  BY <1>2 DEF PostRec
<1>4. SrcKept /\ Posted' = Posted
  BY <1>1, <1>2, <1>3, SrcUser, Changed
<1>5. PICK r \in Side : r = SideOf(m.chat)
  BY SideOfType
<1>6. DeleteEvent(m) \in Apart(r) /\ DeleteEvent(m).kind # "new"
  BY DeletesApart
<1>7. Others(r) /\ w'[r].made = w[r].made
  BY <1>1 DEF Others
<1> QED
  BY <1>1, <1>4, <1>5, <1>6, <1>7, ReflQuiet

\* Changes of the tables alone.
LEMMA TablesRefl ==
  ASSUME ReflInv, MapInv', UNCHANGED <<queueVars, posts, w>>
  PROVE  ReflInv'
<1>1. SrcKept /\ Posted' = Posted
  BY SrcSame, SamePosts
<1>2. \A s \in Side : Others(s) /\ w'[s].made = w[s].made
  BY DEF Others
<1> QED
  BY <1>1, <1>2, ReflQuiet DEF Side, queueVars

\* What the intake takes from the stream of a side is no longer to come.
LEMMA AwaitedPop ==
  ASSUME ReflInv, NEW s \in Side, stream[s] # <<>>, stream' = [stream EXCEPT ![s] = Tail(@)],
         UNCHANGED w, NEW m, Awaited(m), m.chat \in Chat,
         \/ m \in sent'
         \/ m \notin sent
         \/ SideOf(m.chat) = s /\ Head(stream[s]) \in News(m)
  PROVE  Awaited(m)'
<1> DEFINE a == SideOf(m.chat)
<1>1. stream \in [Side -> Seq(Job)] /\ a \in Side
  BY InvFacts, SideOfType DEF ReflInv, MapInv, QueueTypeOK
<1>2. stream'[a] = IF a = s THEN Tail(stream[s]) ELSE stream[a]
  BY <1>1
<1> HIDE DEF a
<1>3. AtMostOnce(stream[a], News(m))
  BY DEF Awaited, a
<1>4. /\ AtMostOnce(stream'[a], News(m))
      /\ Occurs(stream'[a], News(m)) => Occurs(stream[a], News(m))
      /\ a = s /\ Head(stream[s]) \in News(m) => ~Occurs(stream'[a], News(m))
  <2>1. CASE a = s
    BY <1>1, <1>2, <1>3, <2>1, TailOnce
  <2> QED
    BY <1>2, <1>3, <2>1
<1> QED
  BY <1>4 DEF Awaited, a

LEMMA IntakeRefl ==
  ASSUME ReflInv, MapInv', NEW s \in Side, Intake(s)
  PROVE  ReflInv'
<1> DEFINE e == Head(stream[s])
           d == [kind |-> "delete", ids |-> e.ids \ ignore]
<1>0. BridgeInv
  BY DEF ReflInv, MapInv
<1>1. /\ OnNew(s) \/ OnEdit(s) \/ OnDelete(s)
      /\ UNCHANGED <<posts, w>>
  BY DEF Intake
<1>2. /\ stream[s] # <<>> /\ e \in HomeJob(s, Posted) /\ e \in Job
      /\ stream' = [stream EXCEPT ![s] = Tail(@)] /\ UNCHANGED job
      /\ UNCHANGED q \/ Put(s, e) \/ (e.kind = "delete" /\ Put(s, d))
      /\ \/ UNCHANGED sent
         \/ e.kind # "delete" /\ UNCHANGED q /\ sent' = sent \ {e.items[1].msg}
  BY <1>0, <1>1, IntakeFacts DEF HomeJob
<1>3. e \in Apart(s) /\ e \in FromUser /\ Tail(stream[s]) \in Seq(Apart(s))
  <2>1. stream[s] \in Seq(Apart(s)) /\ stream[s] \in Seq(FromUser)
    BY DEF ReflInv, MapInv
  <2> QED
    BY <1>2, <2>1, HeadTailProperties
<1>4. SrcKept /\ Posted' = Posted /\ Fresh(s)' = Fresh(s) /\ \A m : ByUser(m)' = ByUser(m)
  BY <1>1, SrcSame, SamePosts DEF Fresh, ByUser
<1>5. e.kind # "delete" => e.items[1].msg \in Posted /\ SideOf(e.items[1].msg.chat) = s
  BY <1>2 DEF HomeJob, About
\* A report that is queued is of a user's post.
<1>6. ASSUME Put(s, e), e.kind = "new" PROVE ByUser(e.items[1].msg)
  <2>1. PICK m \in Posted : m = e.items[1].msg
    BY <1>5, <1>6
  <2>2. m \notin sent
    <3>1. OnNew(s)
      BY <1>1, <1>6 DEF OnEdit, OnDelete, Arrives
    <3>2. q \in [Side -> Seq(Job)]
      BY <1>0, InvFacts DEF QueueTypeOK
    <3>3. Append(q[s], e) # q[s]
      BY <1>2, <3>2
    <3>4. ~UNCHANGED q
      BY <1>6, <3>2, <3>3 DEF Put
    <3> QED
      BY <2>1, <3>1, <3>4 DEF OnNew
  <2>3. Occurs(stream[SideOf(m.chat)], News(m))
    <3>1. e \in News(m) /\ SideOf(m.chat) = s
      BY <1>2, <1>5, <1>6, <2>1 DEF News
    <3>2. stream[s] \in Seq(Job)
      BY <1>0, InvFacts DEF QueueTypeOK
    <3> QED
      BY <1>2, <3>1, <3>2, TailOnce
  <2> QED
    BY <2>1, <2>2, <2>3 DEF ReflInv, Awaited
<1>7. Put(s, e) => e \in Fresh(s)
  BY <1>3, <1>5, <1>6 DEF Fresh
<1>8. e.kind = "delete" => d \in Fresh(s)
  <2>1. e.kind = "delete" => d \in HomeJob(s, Posted)
    BY <1>2, FewerIds
  <2> QED
    BY <2>1 DEF HomeJob, Fresh, Apart
<1>9. ASSUME NEW j \in Fresh(s), Put(s, j) PROVE \A r \in Side : q'[r] \in Seq(Fresh(r))
  <2>1. q \in [Side -> Seq(Job)] /\ \A r \in Side : q[r] \in Seq(Fresh(r))
    BY <1>0, InvFacts DEF QueueTypeOK, ReflInv
  <2>2. \A r \in Side : q'[r] = IF r = s THEN Append(q[s], j) ELSE q[r]
    BY <1>9, <2>1 DEF Put
  <2>3. Append(q[s], j) \in Seq(Fresh(s))
    BY <2>1
  <2> QED
    BY <2>1, <2>2, <2>3
<1>10. \A r \in Side : q'[r] \in Seq(Fresh(r))
  BY <1>2, <1>7, <1>8, <1>9 DEF ReflInv
<1>11. \A r \in Side : stream'[r] \in Seq(Apart(r))
  <2>1. stream \in [Side -> Seq(Job)]
    BY <1>0, InvFacts DEF QueueTypeOK
  <2> QED
    BY <1>2, <1>3, <2>1 DEF ReflInv
<1>12. ASSUME NEW m \in Posted, ~ByUser(m) PROVE CopyOfUser(m)' /\ Awaited(m)'
  <2>1. Awaited(m) /\ CopyOfUser(m)' /\ m.chat \in Chat
    BY <1>0, <1>4, <1>12, InvFacts, MsgFacts DEF ReflInv, CopyOfUser, SrcKept, ByUser
  <2>2. \/ m \in sent'
        \/ m \notin sent
        \/ SideOf(m.chat) = s /\ Head(stream[s]) \in News(m)
    <3>1. SUFFICES ASSUME e.kind # "delete", m = e.items[1].msg
                   PROVE  SideOf(m.chat) = s /\ e \in News(m)
      BY <1>2
    <3>2. e.kind \in {"new", "edit"}
      BY <1>2, <3>1, JobKinds
    <3>3. e.kind # "edit"
      BY <1>3, <1>12, <3>1 DEF FromUser
    <3> QED
      BY <1>2, <1>5, <3>1, <3>2, <3>3 DEF News
  <2> HIDE DEF e
  <2> QED
    BY <1>1, <1>2, <2>1, <2>2, AwaitedPop
<1>13. \A r \in Side : Fresh(r)' = Fresh(r) /\ job'[r] = job[r] /\ w'[r] = w[r]
  BY <1>1, <1>2, <1>4, SamePosts DEF Fresh, ByUser
<1> QED
  BY <1>4, <1>10, <1>11, <1>12, <1>13 DEF ReflInv, Apart

LEMMA CrashRefl ==
  ASSUME ReflInv, MapInv', Crash
  PROVE  ReflInv'
<1>1. /\ w' = [s \in Side |-> Stopped("idle")] /\ UNCHANGED <<posts, sent>>
      /\ q' = [s \in Side |-> <<>>] /\ job' = [s \in Side |-> NoJob]
      /\ stream' = [s \in Side |-> IF s = "bale" /\ BaleMode = "bot" THEN stream[s] ELSE <<>>]
  BY DEF Crash, Restart
<1>2. SrcKept /\ Posted' = Posted /\ \A m : ByUser(m)' = ByUser(m)
  BY <1>1, SrcSame, SamePosts DEF ByUser
<1>3. ASSUME NEW s \in Side
      PROVE  /\ stream'[s] \in Seq(Apart(s)) /\ q'[s] \in Seq(Fresh(s)') /\ job'[s] = NoJob
             /\ Distinct(w'[s].made) /\ Range(w'[s].made) = {}
  <2>1. stream'[s] \in Seq(Apart(s)) /\ q'[s] \in Seq(Fresh(s)') /\ job'[s] = NoJob
    BY <1>1 DEF ReflInv
  <2>2. w'[s].made = <<>>
    BY <1>1, StoppedRests DEF Rests
  <2> QED
    BY <2>1, <2>2 DEF Distinct, Range
<1>4. ASSUME NEW m \in Posted, ~ByUser(m) PROVE CopyOfUser(m)' /\ Awaited(m)'
  <2>1. Awaited(m) /\ CopyOfUser(m)' /\ SideOf(m.chat) \in Side
    BY <1>2, <1>4, SideOfType DEF ReflInv, CopyOfUser, SrcKept, ByUser
  <2>2. \/ stream'[SideOf(m.chat)] = stream[SideOf(m.chat)]
        \/ stream'[SideOf(m.chat)] = <<>>
    BY <1>1, <2>1
  <2>3. CASE stream'[SideOf(m.chat)] = stream[SideOf(m.chat)]
    BY <1>1, <1>3, <2>1, <2>3 DEF Awaited
  <2>4. CASE stream'[SideOf(m.chat)] = <<>>
    <3>1. AtMostOnce(<<>>, News(m)) /\ ~Occurs(<<>>, News(m))
      BY DEF AtMostOnce, Occurs
    <3>2. /\ AtMostOnce(stream'[SideOf(m.chat)], News(m))
          /\ ~Occurs(stream'[SideOf(m.chat)], News(m))
      BY <2>4, <3>1, Zenon
    <3> QED
      BY <2>1, <3>2 DEF Awaited
  <2> QED
    BY <2>1, <2>2, <2>3, <2>4
<1> QED
  BY <1>2, <1>3, <1>4 DEF ReflInv, Apart

-----------------------------------------------------------------------------
(* Handlers *)

\* A worker takes a job: it is one of those queued.
LEMMA TakeRefl ==
  ASSUME ReflInv, MapInv', NEW s \in Side, Take(s), UNCHANGED posts, Others(s),
         w'[s].made = <<>>,
         \A m \in sent : m \in sent' \/ (Head(q[s]).kind = "new" /\ m = Head(q[s]).items[1].msg)
  PROVE  ReflInv'
<1>1. /\ q[s] # <<>> /\ q' = [q EXCEPT ![s] = Tail(@)] /\ UNCHANGED stream
      /\ job'[s] = Head(q[s]) /\ \A r \in Side : r # s => job'[r] = job[r]
  BY TakeFacts DEF ReflInv, MapInv
<1>2. Posted' = Posted /\ SrcKept /\ \A r : Fresh(r)' = Fresh(r)
  BY SamePosts, SrcSame DEF Fresh, ByUser
<1>3. q[s] \in Seq(Fresh(s))
  BY DEF ReflInv
<1>4. Head(q[s]) \in Fresh(s) /\ Tail(q[s]) \in Seq(Fresh(s))
  BY <1>1, <1>3, HeadTailProperties
<1>5. q \in [Side -> Seq(Job)]
  BY InvFacts DEF ReflInv, MapInv, QueueTypeOK
<1>6. Distinct(<<>>) /\ Range(<<>>) = {}
  BY DEF Distinct, Range
<1>7. ASSUME NEW r \in Side
      PROVE  /\ q'[r] \in Seq(Fresh(r)) /\ job'[r] \in Fresh(r) \cup {NoJob}
             /\ Distinct(w'[r].made)
  <2>1. q'[r] \in Seq(Fresh(r)) /\ job'[r] \in Fresh(r) \cup {NoJob}
    BY <1>1, <1>4, <1>5 DEF ReflInv
  <2>2. Distinct(w'[r].made)
    BY <1>6 DEF ReflInv, Others
  <2> QED
    BY <2>1, <2>2
<1>8. ASSUME NEW m \in Posted', ~ByUser(m)' PROVE CopyOfUser(m)' /\ Awaited(m)'
  <2>1. ~ByUser(m) /\ Awaited(m) /\ CopyOfUser(m)'
    BY <1>2, <1>8, CopyStays
  <2>2. m \in sent => m \in sent'
    BY <1>4, <2>1 DEF Fresh
  <2>3. \A r \in Side : m \in Range(w'[r].made) => m \in Range(w[r].made)
    BY <1>6 DEF Others
  <2> QED
    BY <1>1, <2>1, <2>2, <2>3, AwaitedStays
<1> QED
  BY <1>1, <1>2, <1>7, <1>8 DEF ReflInv

LEMMA StartRefl ==
  ASSUME ReflInv, MapInv', NEW s \in Side, StartNew(s) \/ StartEdit(s) \/ StartDelete(s)
  PROVE  ReflInv'
<1>0. BridgeInv
  BY DEF ReflInv, MapInv
<1>1. Take(s) /\ UNCHANGED posts /\ Others(s) /\ w'[s].made = <<>>
  <2>1. CASE StartNew(s)
    <3> DEFINE pairs == PairsFor(s, Head(q[s]).items[1].msg.chat)
    <3>1. /\ Take(s) /\ UNCHANGED posts
          /\ \/ Become(s, Stopped("done"))
             \/ Become(s, IF pairs = {} THEN Stopped("done")
                          ELSE [Stopped("send") EXCEPT !.todo = pairs])
      BY <2>1 DEF StartNew, Starts
    <3>2. pairs \subseteq PairId
      BY DEF PairsFor
    <3> HIDE DEF pairs
    <3>3. CASE Become(s, Stopped("done"))
      BY <1>0, <3>1, <3>3, InvFacts, StoppedFacts, BecomeFacts DEF PC
    <3>4. CASE Become(s, IF pairs = {} THEN Stopped("done")
                         ELSE [Stopped("send") EXCEPT !.todo = pairs])
      BY <1>0, <3>1, <3>2, <3>4, InvFacts, SendFrom DEF SendsTo, Rests
    <3> QED
      BY <3>1, <3>3, <3>4
  <2>2. CASE StartDelete(s)
    <3> DEFINE mids == Head(q[s]).ids
    <3>1. /\ Take(s) /\ Head(q[s]).kind = "delete" /\ DeleteFrom(s, {}, mids, rows, ignore)
          /\ UNCHANGED posts
      BY <2>2 DEF StartDelete, Starts
    <3>2. mids \subseteq Msg /\ {} \subseteq Found /\ FoundKnown({}, Posted)
      BY <1>0, <3>1, TakeFacts, InvFacts DEF HomeJob, About, FoundKnown
    <3> HIDE DEF mids
    <3>3. w' \in [Side -> Local] /\ Others(s) /\ DeletesOf(s, w'[s], {}, mids, rows)
      BY <1>0, <3>1, <3>2, InvFacts, DeleteFromFacts
    <3> QED
      BY <3>1, <3>3 DEF DeletesOf, Rests
  <2>3. CASE StartEdit(s)
    <3> DEFINE F == OtherSide(rows, Head(q[s]).items[1].msg)
    <3>1. Take(s) /\ EditFrom(s, F) /\ UNCHANGED posts
      BY <2>3 DEF StartEdit, Starts
    <3>2. F \subseteq Found /\ FoundKnown(F, Posted)
      BY <1>0, InvFacts, OtherSideFacts
    <3> HIDE DEF F
    <3>3. w' \in [Side -> Local] /\ Others(s) /\ EditsOf(s, w'[s], F)
      BY <1>0, <3>1, <3>2, InvFacts, EditFromFacts
    <3> QED
      BY <3>1, <3>3 DEF EditsOf, Rests
  <2> QED
    BY <2>1, <2>2, <2>3
<1>2. \A m \in sent : m \in sent' \/ (Head(q[s]).kind = "new" /\ m = Head(q[s]).items[1].msg)
  BY DEF StartNew, StartEdit, StartDelete, Starts
<1> QED
  BY <1>1, <1>2, TakeRefl

LEMMA ReturnRefl ==
  ASSUME ReflInv, MapInv', NEW s \in Side, Return(s)
  PROVE  ReflInv'
<1>1. /\ Become(s, Stopped("idle")) /\ job' = [job EXCEPT ![s] = NoJob]
      /\ UNCHANGED <<stream, q, posts, sent>>
  BY DEF Return, Done
<1>2. Others(s) /\ w'[s].made = <<>>
  BY <1>1, InvFacts, StoppedFacts, BecomeFacts DEF PC, ReflInv, MapInv
<1>3. job \in [Side -> Job \cup {NoJob}]
  BY InvFacts DEF ReflInv, MapInv, QueueTypeOK
<1>4. Posted' = Posted /\ SrcKept /\ \A r : Fresh(r)' = Fresh(r)
  BY <1>1, SamePosts, SrcSame DEF Fresh, ByUser
<1>5. Distinct(<<>>) /\ Range(<<>>) = {}
  BY DEF Distinct, Range
<1>6. ASSUME NEW r \in Side
      PROVE  job'[r] \in Fresh(r) \cup {NoJob} /\ Distinct(w'[r].made)
  BY <1>1, <1>2, <1>3, <1>5 DEF ReflInv, Others
<1>7. ASSUME NEW m \in Posted', ~ByUser(m)' PROVE CopyOfUser(m)' /\ Awaited(m)'
  <2>1. Awaited(m) /\ CopyOfUser(m)'
    BY <1>4, <1>7, CopyStays
  <2>2. \A r \in Side : m \in Range(w'[r].made) => m \in Range(w[r].made)
    BY <1>2, <1>5 DEF Others
  <2> QED
    BY <1>1, <2>1, <2>2, AwaitedStays
<1> QED
  BY <1>1, <1>4, <1>6, <1>7 DEF ReflInv

LEMMA SendRefl ==
  ASSUME EchoesAwaited, ReflInv, MapInv', NEW s \in Side, Send(s)
  PROVE  ReflInv'
<1>0. BridgeInv /\ Other(s) \in Side
  BY SideFacts DEF ReflInv, MapInv
<1>1. PICK n : n = [chat |-> SendChat(s), id |-> Len(posts[SendChat(s)]) + 1]
  OBVIOUS
<1>2. /\ w[s].pc \in {"send", "resend"}
      /\ IF EarlyEcho THEN Echo(Other(s), "new", NewEvent(n, Source(s).txt))
                      ELSE UNCHANGED stream
      /\ UNCHANGED <<q, job, sent>>
  BY <1>1 DEF Send
<1>3. UNCHANGED stream
  BY <1>0, <1>2 DEF EchoesAwaited, Echo
<1>4. /\ n \in Msg /\ n \notin Posted /\ Posted' = Posted \cup {n}
      /\ SideOf(n.chat) = Other(s)
      /\ At(n)' = [st |-> "live", txt |-> Source(s).txt, src |-> Source(s).msg]
      /\ \A m \in Posted : At(m)' = At(m)
      /\ Others(s) /\ w'[s].made = Append(w[s].made, n)
  BY <1>0, <1>1, SendFacts
<1>5. SrcKept
  BY <1>4 DEF SrcKept
<1>6. w[s].made \in Seq(Msg) /\ \A i \in DOMAIN w[s].made : w[s].made[i] \in Posted
  BY <1>0, InvFacts DEF BridgeInv, HandlerKnown
\* The source is by a user.
<1>7. Source(s).msg \in Posted /\ ByUser(Source(s).msg)
  <2>1. job[s] \in Fresh(s) \cup {NoJob} /\ job[s] \in FromUser \cup {NoJob}
    BY DEF ReflInv, MapInv
  <2>2. job[s].kind \in {"new", "edit"}
    BY <1>0, <1>2 DEF BridgeInv, HandlerKnown, Editing
  <2> QED
    BY <2>1, <2>2 DEF Fresh, FromUser, Source, NoJob
<1>8. CopyOfUser(n)'
  <2>1. PICK u \in Posted : u = Source(s).msg
    BY <1>7
  <2>2. At(u)'.src = NoMsg /\ u \in Posted'
    BY <1>5, <1>7, <2>1 DEF SrcKept, ByUser
  <2>3. At(n)'.src = u
    BY <1>4, <2>1
  <2> QED
    BY <2>2, <2>3 DEF CopyOfUser, ByUser
<1>9. Distinct(w'[s].made)
  <2> DEFINE made == w[s].made
  <2>1. Len(made) \in Nat /\ DOMAIN made = 1..Len(made) /\ Distinct(made)
    BY <1>6 DEF ReflInv
  <2>2. /\ DOMAIN w'[s].made = 1..(Len(made) + 1) /\ w'[s].made[Len(made) + 1] = n
        /\ \A i \in 1..Len(made) : w'[s].made[i] = made[i] /\ made[i] # n
    BY <1>4, <1>6
  <2> HIDE DEF made
  <2>3. ASSUME NEW i \in 1..(Len(made) + 1), NEW j \in 1..(Len(made) + 1),
               w'[s].made[i] = w'[s].made[j]
        PROVE  i = j
    BY <2>1, <2>2, <2>3 DEF Distinct
  <2> QED
    BY <2>2, <2>3 DEF Distinct
<1>10. ASSUME NEW m \in Posted', ~ByUser(m)' PROVE (m \in Posted \/ CopyOfUser(m)') /\ Awaited(m)'
  <2>1. CASE m = n
    <3>1. stream[Other(s)] \in Seq(HomeJob(Other(s), Posted))
      BY <1>0 DEF BridgeInv, JobsKnown
    <3>2. ASSUME NEW i \in DOMAIN stream[Other(s)] PROVE stream[Other(s)][i] \notin News(n)
      BY <1>4, <3>1 DEF HomeJob, About, News
    <3>3. stream'[SideOf(n.chat)] = stream[Other(s)]
      BY <1>3, <1>4
    <3>4. AtMostOnce(stream[Other(s)], News(n)) /\ ~Occurs(stream[Other(s)], News(n))
      BY <3>2 DEF AtMostOnce, Occurs
    <3> QED
      BY <1>8, <2>1, <3>3, <3>4 DEF Awaited
  <2>2. CASE m # n
    <3>1. m \in Posted
      BY <1>4, <2>2
    <3>2. Awaited(m)
      BY <1>5, <1>10, <3>1, CopyStays
    <3>3. \A r \in Side : m \in Range(w'[r].made) => m \in Range(w[r].made)
      <4>1. ASSUME m \in Range(w'[s].made) PROVE m \in Range(w[s].made)
        <5>1. PICK i \in DOMAIN w'[s].made : m = w'[s].made[i]
          BY <4>1 DEF Range
        <5>2. i \in DOMAIN w[s].made /\ m = w[s].made[i]
          BY <1>4, <1>6, <2>2, <5>1
        <5> QED
          BY <5>2 DEF Range
      <4> QED
        BY <1>4, <4>1 DEF Others
    <3> QED
      BY <1>2, <1>3, <3>1, <3>2, <3>3, AwaitedStays
  <2> QED
    BY <2>1, <2>2
<1>11. \A r \in Side : stream'[r] \in Seq(Apart(r))
  BY <1>3 DEF ReflInv
<1> QED
  BY <1>2, <1>4, <1>5, <1>9, <1>10, <1>11, ReflFrame

\* Posts of the handler's own that no ledger knows are not reported: a call that
\* may fail, or a replacement, is where nobody reports them.
LEMMA NoLateEchoes ==
  ASSUME EchoesAwaited, ReflInv, NEW s \in Side, LateEchoes(s),
         MayFail(s, "send") \/ w[s].pc \in Editing
  PROVE  UNCHANGED stream
<1>1. Other(s) \in Side
  BY SideFacts
<1>2. <<Other(s), "new">> \notin Echoes
  <2>1. CASE MayFail(s, "send")
    BY <1>1, <2>1 DEF MayFail, EchoesAwaited
  <2>2. CASE w[s].pc \in Editing
    <3>1. job[s].kind = "edit" /\ job[s] \in Fresh(s) \cup {NoJob}
      BY <2>2 DEF ReflInv, MapInv, BridgeInv, HandlerKnown
    <3> QED
      BY <3>1 DEF Fresh, Apart, NoJob
  <2> QED
    BY <2>1, <2>2
<1> QED
  BY <1>2 DEF LateEchoes

\* Posts are never taken back.
LEMMA PostsStay ==
  ASSUME BridgeInv, NEW s \in Side, Rewrite(s) \/ Remove(s) \/ Delete(s)
  PROVE  /\ Posted' = Posted /\ SrcKept
         /\ \E m \in Posted, t \in Text :
              \/ UNCHANGED stream
              \/ Echo(Other(s), "edit", EditEvent(m, t))
              \/ Echo(Other(s), "delete", DeleteEvent(m))
<1>1. PICK m : m = Target(s).msg
  OBVIOUS
<1>2. PostsTyped
  BY InvFacts
<1>3. CASE Rewrite(s)
  <2>1. w[s].pc \in Editing
    BY <1>3 DEF Rewrite, Editing
  <2>2. Source(s).txt \in Text
    BY <2>1, SourceFacts
  <2>3. /\ Posted' = Posted /\ m \in Posted /\ Echo(Other(s), "edit", EditEvent(m, Source(s).txt))
        /\ At(m)' = [At(m) EXCEPT !.txt = Source(s).txt]
        /\ \A n \in Posted : n # m => At(n)' = At(n)
    BY <1>1, <1>3, RewriteFacts
  <2>4. SrcKept
    BY <1>2, <2>3, SrcSet
  <2> QED
    BY <2>2, <2>3, <2>4
<1>4. CASE Remove(s) \/ Delete(s)
  <2>1. \E pc : Vanish(s, pc) /\ w[s].pc \in Editing \cup Deleting
    BY <1>4 DEF Remove, Delete, Editing, Deleting
  <2>2. /\ Posted' = Posted /\ m \in Posted
        /\ \A n \in Posted : n # m => At(n)' = At(n)
        /\ \/ At(m)' = [At(m) EXCEPT !.st = "removed"]
           \/ At(m)' = At(m)
        /\ UNCHANGED stream \/ Echo(Other(s), "delete", DeleteEvent(m))
    BY <1>1, <2>1, VanishFacts
  <2>3. SrcKept
    BY <1>2, <2>2, SrcSet
  <2>4. At(m).txt \in Text
    BY <1>2, <2>2, PostedFacts
  <2> QED
    BY <2>2, <2>3, <2>4
<1> QED
  BY <1>3, <1>4

\* The other steps of a handler, but for the end of a mirroring, report no posts.
LEMMA HandlerRefl ==
  ASSUME CopiesNotEdited, EchoesAwaited, ReflInv, MapInv', NEW s \in Side,
         \/ SendFails(s) \/ Fetched(s) \/ Edited(s) \/ EditFalls(s) \/ Resent(s)
         \/ Remove(s) \/ RemoveFails(s) \/ Removed(s) \/ Replace(s)
         \/ Delete(s) \/ Deleted(s) \/ DeleteFalls(s) \/ Breaks(s)
  PROVE  ReflInv'
<1>0. BridgeInv /\ MapInv /\ Other(s) \in Side
  BY SideFacts DEF ReflInv, MapInv
<1>1. UNCHANGED <<q, job>> /\ sent \subseteq sent'
  BY DEF SendFails, Fetched, Edited, EditFalls, Resent, Remove, RemoveFails, Removed, Replace,
         Delete, Deleted, DeleteFalls, Breaks, Unmap, Vanish, Mark, queueVars
<1>2. Others(s) /\ w'[s].made \in {<<>>, w[s].made}
  <2>1. CASE w[s].pc \in Editing /\ (NextEdit(s) \/ \E pc \in Editing : Goto(s, pc))
    BY <1>0, <2>1, EditMoves
  <2>2. CASE w[s].pc = "send" /\ NextPair(s)
    BY <1>0, <2>2, NextPairFacts DEF SendsTo, Rests
  <2>3. CASE Goto(s, "deleted")
    BY <1>0, <2>3, InvFacts, GotoFacts DEF PC
  <2>4. CASE \E ign \in SUBSET Msg : w[s].pc \in Deleting /\ Unmap(s, ign)
    BY <1>0, <2>4, UnmapFacts DEF DeletesOf, Rests
  <2>5. CASE SendFails(s)
    BY <2>1, <2>2, <2>5 DEF SendFails, Editing
  <2>6. CASE Fetched(s) \/ Edited(s) \/ EditFalls(s)
    BY <2>1, <2>6 DEF Fetched, Edited, EditFalls, Rewrite, FallbackFirst, Editing
  <2>7. CASE Resent(s) \/ Remove(s) \/ RemoveFails(s) \/ Removed(s)
    BY <2>1, <2>7 DEF Resent, Remove, RemoveFails, Removed, Vanish, Editing
  <2>8. CASE Replace(s)
    BY <2>1, <2>8, SideFacts DEF Replace, Editing
  <2>9. CASE Delete(s)
    BY <2>3, <2>9 DEF Delete, Vanish
  <2>10. CASE Deleted(s) \/ DeleteFalls(s)
    <3>1. ignore \subseteq Msg
      BY <1>0, InvFacts
    <3> QED
      BY <2>4, <2>10, <3>1 DEF Deleted, DeleteFalls, Deleting
  <2>11. CASE Breaks(s)
    BY <1>0, <2>11, BreakFacts DEF Rests
  <2> QED
    BY <2>5, <2>6, <2>7, <2>8, <2>9, <2>10, <2>11
<1>3. \/ UNCHANGED <<posts, stream>>
      \/ Rewrite(s) \/ Remove(s) \/ Delete(s)
  <2>1. CASE SendFails(s) \/ Resent(s) \/ Replace(s)
    <3>1. UNCHANGED posts /\ (LateEchoes(s) \/ UNCHANGED stream)
      BY <2>1 DEF SendFails, Resent, Replace
    <3>2. MayFail(s, "send") \/ w[s].pc \in Editing
      BY <2>1 DEF SendFails, Resent, Replace, Editing
    <3> QED
      BY <3>1, <3>2, NoLateEchoes
  <2>2. CASE Fetched(s) \/ Edited(s) \/ EditFalls(s) \/ RemoveFails(s) \/ Removed(s)
    BY <2>2 DEF Fetched, Edited, EditFalls, RemoveFails, Removed, queueVars
  <2>3. CASE Deleted(s) \/ DeleteFalls(s)
    BY <2>3 DEF Deleted, DeleteFalls, Unmap
  <2>4. CASE Breaks(s)
    BY <2>4 DEF Breaks
  <2> QED
    BY <2>1, <2>2, <2>3, <2>4
<1>4. Posted' = Posted /\ SrcKept
  BY <1>0, <1>3, SamePosts, SrcSame, PostsStay
<1>5. \/ UNCHANGED stream
      \/ \E m \in Msg : Emit(Other(s), DeleteEvent(m))
  <2>1. ASSUME Rewrite(s) \/ Remove(s) \/ Delete(s)
        PROVE  \/ UNCHANGED stream
               \/ \E m \in Msg : Emit(Other(s), DeleteEvent(m))
    <3>1. PICK m \in Posted, t \in Text :
              \/ UNCHANGED stream
              \/ Echo(Other(s), "edit", EditEvent(m, t))
              \/ Echo(Other(s), "delete", DeleteEvent(m))
      BY <1>0, <2>1, PostsStay
    <3> QED
      BY <1>0, <3>1, InvFacts DEF Echo, CopiesNotEdited
  <2> QED
    BY <1>3, <2>1
<1>6. \/ UNCHANGED stream
      \/ \E r \in Side : \E e \in Apart(r) : e.kind # "new" /\ Emit(r, e)
  BY <1>0, <1>5, DeletesApart
<1> QED
  BY <1>1, <1>2, <1>4, <1>6, ReflQuiet

\* The reports of what a handler has made: one for each post.
LEMMA EchoesOfMade ==
  ASSUME BridgeInv, NEW s \in Side, NEW made, made = w[s].made, Distinct(made), NEW echoes,
         echoes = [i \in DOMAIN made |-> NewEvent(made[i], At(made[i]).txt)]
  PROVE  /\ echoes \in Seq(Apart(Other(s))) /\ echoes \in Seq(Job)
         /\ \A m : /\ AtMostOnce(echoes, News(m))
                   /\ Occurs(echoes, News(m)) => m \in Range(made)
<1>1. made \in Seq(Msg) /\ \A i \in DOMAIN made : made[i] \in Posted
  BY InvFacts DEF BridgeInv, HandlerKnown
<1>2. ASSUME NEW i \in DOMAIN made
      PROVE  /\ NewEvent(made[i], At(made[i]).txt) \in Job
             /\ NewEvent(made[i], At(made[i]).txt).kind = "new"
             /\ NewEvent(made[i], At(made[i]).txt).items[1].msg = made[i]
  <2>1. PICK m \in Posted : m = made[i]
    BY <1>1
  <2>2. m \in Msg /\ At(m).txt \in Text
    BY InvFacts, PostedFacts
  <2>3. NewEvent(m, At(m).txt) \in Job
    BY <2>2, EventIsJob DEF NewEvent, ItemOf, Item
  <2>4. NewEvent(m, At(m).txt).kind = "new" /\ NewEvent(m, At(m).txt).items[1].msg = m
    BY DEF NewEvent, ItemOf
  <2> QED
    BY <2>1, <2>3, <2>4
<1>3. /\ DOMAIN echoes = DOMAIN made
      /\ \A i \in DOMAIN made : /\ echoes[i] \in Job /\ echoes[i].kind = "new"
                                /\ echoes[i].items[1].msg = made[i]
  BY <1>2
<1>4. \A m : /\ AtMostOnce(echoes, News(m))
             /\ Occurs(echoes, News(m)) => m \in Range(made)
  <2>1. ASSUME NEW m, NEW i \in DOMAIN made, echoes[i] \in News(m) PROVE made[i] = m
    BY <1>3, <2>1 DEF News
  <2>2. \A m : AtMostOnce(echoes, News(m))
    BY <1>3, <2>1 DEF AtMostOnce, Distinct
  <2>3. \A m : Occurs(echoes, News(m)) => m \in Range(made)
    BY <1>3, <2>1 DEF Occurs, Range
  <2> QED
    BY <2>2, <2>3
<1>5. ASSUME NEW i \in DOMAIN made
      PROVE  NewEvent(made[i], At(made[i]).txt) \in Apart(Other(s))
  BY <1>2 DEF Apart
<1>6. DOMAIN made = 1..Len(made) /\ Len(made) \in Nat
  BY <1>1
<1>7. echoes \in Seq(Apart(Other(s)))
  BY <1>5, <1>6
<1>8. Apart(Other(s)) \subseteq Job
  BY DEF Apart
<1> QED
  BY <1>4, <1>7, <1>8, SeqOfMore

\* What has been mirrored is in the ledger before it is reported.
LEMMA RecordRefl ==
  ASSUME ReflInv, MapInv', NEW s \in Side, Record(s)
  PROVE  ReflInv'
<1>0. BridgeInv /\ Other(s) \in Side /\ stream \in [Side -> Seq(Job)]
  BY InvFacts, SideFacts DEF ReflInv, MapInv, QueueTypeOK
<1>1. PICK made : made = w[s].made
  OBVIOUS
<1>2. PICK echoes : echoes = [i \in DOMAIN made |-> NewEvent(made[i], At(made[i]).txt)]
  OBVIOUS
<1>3. /\ w[s].pc = "send" /\ NextPair(s) /\ LateEchoes(s)
      /\ sent' = sent \cup Range(made) /\ UNCHANGED <<q, job, posts>>
  BY <1>1 DEF Record, Mark
<1>4. \/ UNCHANGED stream
      \/ stream' = [stream EXCEPT ![Other(s)] = @ \o echoes]
  BY <1>1, <1>2, <1>3 DEF LateEchoes
<1>5. SrcKept /\ Posted' = Posted
  BY <1>3, SrcSame, SamePosts
<1>6. Others(s) /\ w'[s].made = <<>> /\ Distinct(w'[s].made)
  BY <1>0, <1>3, NextPairFacts DEF SendsTo, Rests, Distinct
<1>7. /\ echoes \in Seq(Apart(Other(s))) /\ echoes \in Seq(Job)
      /\ \A m : /\ AtMostOnce(echoes, News(m))
                /\ Occurs(echoes, News(m)) => m \in Range(made)
  BY <1>0, <1>1, <1>2, EchoesOfMade DEF ReflInv
<1>8. \A r \in Side : stream'[r] \in Seq(Apart(r))
  <2>1. CASE UNCHANGED stream
    BY <2>1 DEF ReflInv
  <2>2. CASE stream' = [stream EXCEPT ![Other(s)] = @ \o echoes]
    <3>1. stream[Other(s)] \in Seq(Apart(Other(s)))
      BY <1>0 DEF ReflInv
    <3>2. stream[Other(s)] \o echoes \in Seq(Apart(Other(s)))
      BY <1>7, <3>1
    <3>3. \A r \in Side : stream'[r] = IF r = Other(s) THEN stream[r] \o echoes ELSE stream[r]
      BY <1>0, <2>2
    <3> QED
      BY <3>2, <3>3 DEF ReflInv
  <2> QED
    BY <1>4, <2>1, <2>2
<1>9. ASSUME NEW m \in Posted', ~ByUser(m)' PROVE m \in Posted /\ Awaited(m)'
  <2>1. m \in Posted /\ Awaited(m)
    BY <1>5, <1>9, CopyStays
  <2>2. CASE UNCHANGED stream
    <3>1. \A r \in Side : m \in Range(w'[r].made) => m \in Range(w[r].made)
      BY <1>6 DEF Others, Range
    <3> QED
      BY <1>3, <2>1, <2>2, <3>1, AwaitedStays
  <2>3. CASE stream' = [stream EXCEPT ![Other(s)] = @ \o echoes]
    <3> DEFINE a == SideOf(m.chat)
    <3>1. a \in Side
      BY SideOfType
    <3>2. stream'[a] = IF a = Other(s) THEN stream[a] \o echoes ELSE stream[a]
      BY <1>0, <2>3, <3>1
    <3>3. AtMostOnce(stream[a], News(m)) /\ stream[a] \in Seq(Job)
      BY <1>0, <2>1, <3>1 DEF Awaited
    <3>4. m \in Range(made) => ~Occurs(stream[a], News(m))
      BY <1>1, <2>1 DEF Awaited
    <3> HIDE DEF a
    <3>5. /\ AtMostOnce(stream'[a], News(m))
          /\ Occurs(stream'[a], News(m)) => Occurs(stream[a], News(m)) \/ m \in Range(made)
      <4>1. CASE a = Other(s)
        BY <1>7, <3>2, <3>3, <3>4, <4>1, ConcatOnce
      <4> QED
        BY <3>2, <3>3, <4>1
    <3>6. ASSUME m \in Range(made), NEW r \in Side PROVE m \notin Range(w'[r].made)
      <4>1. ASSUME NEW x \in Side, NEW i \in DOMAIN w[x].made
            PROVE  SideOf(w[x].made[i].chat) = Other(x)
        BY <1>0, <4>1 DEF BridgeInv, HandlerKnown
      <4>2. SideOf(m.chat) = Other(s)
        BY <1>1, <3>6, <4>1 DEF Range
      <4>3. CASE r = s
        BY <1>6, <4>3 DEF Range
      <4>4. CASE r # s
        BY <1>6, <4>1, <4>2, <4>4, SideFacts DEF Range, Others
      <4> QED
        BY <4>3, <4>4
    <3>7. ASSUME Occurs(stream[a], News(m)), NEW r \in Side
          PROVE  m \in sent /\ m \notin Range(w'[r].made)
      <4>1. m \in sent /\ m \notin Range(w[r].made)
        BY <2>1, <3>7 DEF Awaited, a
      <4> QED
        BY <1>6, <4>1 DEF Others, Range
    <3>8. Occurs(stream'[a], News(m)) => m \in sent' /\ \A r \in Side : m \notin Range(w'[r].made)
      BY <1>3, <3>5, <3>6, <3>7
    <3> QED
      BY <2>1, <3>5, <3>8 DEF Awaited, a
  <2> QED
    BY <1>4, <2>2, <2>3
<1> QED
  BY <1>3, <1>5, <1>6, <1>8, <1>9, ReflFrame

LEMMA StepRefl == CopiesNotEdited /\ EchoesAwaited /\ ReflInv /\ [Next]_vars => ReflInv'
<1> SUFFICES ASSUME CopiesNotEdited, EchoesAwaited, ReflInv, [Next]_vars PROVE ReflInv'
  OBVIOUS
<1>0. MapInv'
  BY StepMaps DEF ReflInv
<1>1. ASSUME NEW c \in Chat, NEW t \in Text, UserPost(c, t) PROVE ReflInv'
  BY <1>0, <1>1, UserPostRefl
<1>2. ASSUME NEW m \in Msg, NEW t \in Text, UserEdit(m, t) PROVE ReflInv'
  BY <1>0, <1>2, UserEditRefl
<1>3. ASSUME NEW m \in Msg, UserDelete(m) PROVE ReflInv'
  BY <1>0, <1>3, UserDeleteRefl
<1>4. ASSUME NEW s \in Side, Intake(s) PROVE ReflInv'
  BY <1>0, <1>4, IntakeRefl
<1>5. ASSUME NEW s \in Side, Handler(s) \/ Fault(s) PROVE ReflInv'
  <2>1. CASE StartNew(s) \/ StartEdit(s) \/ StartDelete(s) \/ Return(s)
    BY <1>0, <2>1, StartRefl, ReturnRefl
  <2>2. CASE Send(s) \/ Record(s)
    BY <1>0, <2>2, SendRefl, RecordRefl
  <2> QED
    BY <1>0, <1>5, <2>1, <2>2, HandlerRefl, Failing DEF Handler, Fault
<1>6. CASE \/ \E f \in fps : FpExpires(f)
           \/ \E p \in PairId, md \in Mode : SetMode(p, md)
           \/ \E p \in PairId : RemovePair(p)
           \/ UNCHANGED vars
  <2>1. UNCHANGED <<queueVars, posts, w>>
    BY <1>6 DEF FpExpires, SetMode, RemovePair, vars
  <2> QED
    BY <1>0, <2>1, TablesRefl
<1>7. CASE Crash
  BY <1>0, <1>7, CrashRefl
<1> QED
  BY <1>1, <1>2, <1>3, <1>4, <1>5, <1>6, <1>7 DEF Next

LEMMA InitRefl == Init => ReflInv
<1> SUFFICES ASSUME Init PROVE ReflInv
  OBVIOUS
<1>1. MapInv
  BY InitMaps
<1>2. /\ posts = [c \in Chat |-> <<>>]
      /\ \A s \in Side : /\ stream[s] = <<>> /\ q[s] = <<>> /\ job[s] = NoJob
                         /\ w[s] = Stopped("idle")
  BY DEF Init, QueueInit
<1>3. Posted = {}
  BY <1>2, MsgFacts DEF Posted, Exists
<1>4. ASSUME NEW s \in Side
      PROVE  stream[s] \in Seq(Apart(s)) /\ q[s] \in Seq(Fresh(s)) /\ Distinct(w[s].made)
  <2>1. <<>> \in Seq(Apart(s)) /\ <<>> \in Seq(Fresh(s)) /\ Distinct(<<>>)
    BY DEF Distinct
  <2>2. w[s].made = <<>>
    BY <1>2, StoppedRests DEF Rests
  <2> QED
    BY <1>2, <2>1, <2>2, Zenon
<1>5. \A s \in Side : job[s] = NoJob
  BY <1>2
<1> QED
  BY <1>1, <1>3, <1>4, <1>5 DEF ReflInv

\* As long as users edit only what they wrote, and wherever a platform reports the
\* bridge's own posts it does so after the call, the call succeeds and no edit needs
\* a replacement, the bridge never mirrors its own posts, whatever else fails and
\* whenever the process dies (was_sent, mark_sent, loopguard.py).
THEOREM NothingReflected ==
  ASSUME CopiesNotEdited, EchoesAwaited
  PROVE  Spec => []NoReflection
<1>1. ReflInv /\ [Next]_vars => ReflInv'
  BY StepRefl
<1> QED
  BY <1>1, InitRefl, ReflInvSound, PTL DEF Spec
=============================================================================
