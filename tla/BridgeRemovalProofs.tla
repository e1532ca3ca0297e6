------------------------ MODULE BridgeRemovalProofs ------------------------
(***************************************************************************)
(* What the bridge deletes: a deletion of its own is never taken for one   *)
(* of a user, so no user's message goes because the bridge replaced a copy *)
(* of it, no message loses its last copy, and no handler writes against    *)
(* the direction of a pair.                                                *)
(***************************************************************************)
EXTENDS BridgeProofs

-----------------------------------------------------------------------------
(* Posts age *)

\* Posts stay, with their source; what is gone does not come back; new ones live.
Aged ==
  /\ SrcKept
  /\ \A n \in Posted : Live(n) \/ At(n)'.st = At(n).st
  /\ \A n \in Posted' : n \in Posted \/ Live(n)'

LEMMA AgedSame ==
  ASSUME UNCHANGED posts
  PROVE  Aged /\ Posted' = Posted
  BY SrcSame, SamePosts DEF Aged

\* One live post changes, but for its source.
LEMMA AgedChange ==
  ASSUME SrcKept, Posted' = Posted, NEW m \in Posted, Live(m) \/ At(m)' = At(m),
         \A n \in Posted : n # m => At(n)' = At(n)
  PROVE  Aged
  BY DEF Aged

LEMMA AgedUser ==
  ASSUME BridgeInv, NEW m \in Msg,
         UserDelete(m) \/ \E t \in Text : UserEdit(m, t)
  PROVE  /\ Aged /\ Posted' = Posted /\ m \in Posted /\ Live(m)
         /\ \A n \in Posted : n # m => At(n)' = At(n)
         /\ UserDelete(m) => At(m)'.st = "deleted"
         /\ ~UserDelete(m) => At(m)'.st = "live"
<1>1. /\ m \in Posted /\ Live(m)
  BY DEF UserDelete, UserEdit, MayTouch
<1>2. At(m) \in PostRec /\ PostsTyped
  BY <1>1, InvFacts, PostedFacts
<1>3. ASSUME NEW p \in PostRec, p.src = At(m).src, SetPost(m, p)
      PROVE  /\ Aged /\ Posted' = Posted /\ At(m)' = p
             /\ \A n \in Posted : n # m => At(n)' = At(n)
  BY <1>1, <1>2, <1>3, SrcUser, Changed, AgedChange
<1>4. CASE UserDelete(m)
  <2>1. SetPost(m, [At(m) EXCEPT !.st = "deleted"])
    BY <1>4 DEF UserDelete
  <2>2. /\ [At(m) EXCEPT !.st = "deleted"] \in PostRec
        /\ [At(m) EXCEPT !.st = "deleted"].src = At(m).src
        /\ [At(m) EXCEPT !.st = "deleted"].st = "deleted"
    BY <1>2 DEF PostRec
  <2> QED
    BY <1>1, <1>3, <1>4, <2>1, <2>2
<1>5. CASE ~UserDelete(m)
  <2>1. PICK t \in Text : SetPost(m, [At(m) EXCEPT !.txt = t])
    BY <1>5 DEF UserEdit
  <2>2. /\ [At(m) EXCEPT !.txt = t] \in PostRec
        /\ [At(m) EXCEPT !.txt = t].src = At(m).src
        /\ [At(m) EXCEPT !.txt = t].st = At(m).st
    BY <1>2 DEF PostRec
  <2> QED
    BY <1>1, <1>3, <1>5, <2>1, <2>2 DEF Live
<1> QED
  BY <1>4, <1>5

LEMMA AgedPost ==
  ASSUME BridgeInv, NEW c \in Chat, NEW t \in Text, UserPost(c, t)
  PROVE  /\ Aged
         /\ \E m \in Msg : /\ m \notin Posted /\ Posted' = Posted \cup {m}
                           /\ \A n \in Posted : At(n)' = At(n)
                           /\ ByUser(m)' /\ SideOf(m.chat) = SideOf(c)
                           /\ Emit(SideOf(c), NewEvent(m, t))
<1> DEFINE p == [st |-> "live", txt |-> t, src |-> NoMsg]
<1>1. PICK m : m = [chat |-> c, id |-> Len(posts[c]) + 1]
  OBVIOUS
<1>2. /\ p \in PostRec /\ Len(posts[c]) < MaxId /\ posts' = [posts EXCEPT ![c] = Append(@, p)]
      /\ Emit(SideOf(c), NewEvent(m, t)) /\ m.chat = c
  BY <1>1 DEF UserPost, PostRec
<1>3. m \in Msg /\ m \notin Posted /\ Posted' = Posted \cup {m} /\ At(m)' = p
      /\ \A n \in Posted : At(n)' = At(n)
  BY <1>1, <1>2, InvFacts, Appended
<1>4. Aged
  BY <1>3 DEF Aged, SrcKept, Live
<1>5. ByUser(m)'
  BY <1>3 DEF ByUser
<1> QED
  BY <1>2, <1>3, <1>4, <1>5

LEMMA AgedSend ==
  ASSUME BridgeInv, NEW s \in Side, Send(s)
  PROVE  /\ Aged
         /\ \E m \in Msg : /\ m \notin Posted /\ Posted' = Posted \cup {m}
                           /\ \A n \in Posted : At(n)' = At(n)
                           /\ ~ByUser(m)' /\ Live(m)' /\ SideOf(m.chat) = Other(s)
                           /\ At(m)'.src = Source(s).msg
                           /\ w'[s].made = Append(w[s].made, m)
                           /\ UNCHANGED stream \/ Emit(Other(s), NewEvent(m, Source(s).txt))
<1>1. PICK m : m = [chat |-> SendChat(s), id |-> Len(posts[SendChat(s)]) + 1]
  OBVIOUS
<1>2. /\ m \in Msg /\ m \notin Posted /\ Posted' = Posted \cup {m}
      /\ SideOf(m.chat) = Other(s)
      /\ At(m)' = [st |-> "live", txt |-> Source(s).txt, src |-> Source(s).msg]
      /\ \A n \in Posted : At(n)' = At(n)
      /\ w'[s].made = Append(w[s].made, m)
  BY <1>1, SendFacts
<1>3. Source(s).msg \in Msg
  BY SourceFacts, InvFacts DEF Send, Editing
<1>4. ~ByUser(m)' /\ Live(m)' /\ At(m)'.src = Source(s).msg
  BY <1>2, <1>3, MsgAssumption DEF ByUser, Live
<1>5. Aged
  BY <1>2, <1>4 DEF Aged, SrcKept
<1>6. UNCHANGED stream \/ Emit(Other(s), NewEvent(m, Source(s).txt))
  BY <1>1 DEF Send, Echo
<1> QED
  BY <1>2, <1>4, <1>5, <1>6

-----------------------------------------------------------------------------
(* Deletions in the streams *)

\* The deletions that name m, and what is none.
Deletions(m) == { j \in Job : j.kind = "delete" /\ m \in j.ids }
Content == { j \in Job : j.kind # "delete" }

\* No deletion is reported that was not, and none twice.
Silent ==
  \A r \in Side :
    /\ stream[r] \in Seq(Content) => stream'[r] \in Seq(Content)
    /\ \A m : /\ Occurs(stream'[r], Deletions(m)) => Occurs(stream[r], Deletions(m))
              /\ AtMostOnce(stream[r], Deletions(m)) => AtMostOnce(stream'[r], Deletions(m))

LEMMA SilentSame ==
  ASSUME UNCHANGED stream
  PROVE  Silent
  BY DEF Silent

LEMMA SilentLonger ==
  ASSUME QueueTypeOK, NEW s \in Side, NEW u \in Seq(Content),
         stream' = [stream EXCEPT ![s] = @ \o u]
  PROVE  Silent
<1> SUFFICES ASSUME NEW r \in Side
             PROVE  /\ stream[r] \in Seq(Content) => stream'[r] \in Seq(Content)
                    /\ \A m : /\ Occurs(stream'[r], Deletions(m)) => Occurs(stream[r], Deletions(m))
                              /\ AtMostOnce(stream[r], Deletions(m)) =>
                                   AtMostOnce(stream'[r], Deletions(m))
  BY DEF Silent
<1>1. stream[s] \in Seq(Job) /\ u \in Seq(Job)
  BY SeqOfMore DEF QueueTypeOK, Content
<1>2. stream'[r] = IF r = s THEN stream[s] \o u ELSE stream[r]
  BY DEF QueueTypeOK
<1>3. stream[s] \in Seq(Content) => stream[s] \o u \in Seq(Content)
  BY ConcatProperties
<1>4. ASSUME NEW m
      PROVE  /\ Occurs(stream[s] \o u, Deletions(m)) => Occurs(stream[s], Deletions(m))
             /\ AtMostOnce(stream[s], Deletions(m)) =>
                  AtMostOnce(stream[s] \o u, Deletions(m))
  <2>1. \A i \in DOMAIN u : u[i] \in Content
    BY ElementOfSeq, LenProperties
  <2>2. ~Occurs(u, Deletions(m)) /\ AtMostOnce(u, Deletions(m))
    BY <2>1 DEF Occurs, AtMostOnce, Deletions, Content
  <2> QED
    BY <1>1, <2>2, ConcatOnce
<1> QED
  BY <1>2, <1>3, <1>4

LEMMA SilentEmit ==
  ASSUME QueueTypeOK, NEW s \in Side, NEW e \in Content, Emit(s, e)
  PROVE  Silent
<1>1. <<e>> \in Seq(Content) /\ stream[s] \in Seq(Job)
  BY DEF QueueTypeOK
<1>2. Append(stream[s], e) = stream[s] \o <<e>>
  BY <1>1 DEF Content
<1> QED
  BY <1>1, <1>2, SilentLonger DEF Emit

LEMMA ContentEvents ==
  ASSUME NEW m \in Msg, NEW t \in Text
  PROVE  NewEvent(m, t) \in Content /\ EditEvent(m, t) \in Content
  BY EventIsJob DEF NewEvent, EditEvent, ItemOf, Item, Content

LEMMA SilentLate ==
  ASSUME BridgeInv, NEW s \in Side, LateEchoes(s)
  PROVE  Silent
<1> DEFINE made == w[s].made
           u == [i \in DOMAIN made |-> NewEvent(made[i], At(made[i]).txt)]
<1>1. CASE UNCHANGED stream
  BY <1>1, SilentSame
<1>2. CASE stream' = [stream EXCEPT ![Other(s)] = @ \o u]
  <2>1. made \in Seq(Msg) /\ \A i \in DOMAIN made : made[i] \in Posted
    BY InvFacts DEF BridgeInv, HandlerKnown
  <2>2. \A i \in DOMAIN made : At(made[i]).txt \in Text /\ made[i] \in Msg
    BY <2>1, InvFacts, PostedFacts
  <2>3. \A i \in DOMAIN made : NewEvent(made[i], At(made[i]).txt) \in Content
    BY <2>2, ContentEvents
  <2>4. DOMAIN made = 1..Len(made) /\ Len(made) \in Nat
    BY <2>1, LenProperties
  <2> HIDE DEF made
  <2>5. u \in Seq(Content)
    BY <2>3, <2>4, SeqDef
  <2> HIDE DEF u
  <2> QED
    BY <1>2, <2>5, InvFacts, SideFacts, SilentLonger
<1> QED
  BY <1>1, <1>2 DEF LateEchoes

LEMMA SilentPop ==
  ASSUME QueueTypeOK, NEW s \in Side, stream[s] # <<>>,
         stream' = [stream EXCEPT ![s] = Tail(@)]
  PROVE  Silent
<1> SUFFICES ASSUME NEW r \in Side
             PROVE  /\ stream[r] \in Seq(Content) => stream'[r] \in Seq(Content)
                    /\ \A m : /\ Occurs(stream'[r], Deletions(m)) => Occurs(stream[r], Deletions(m))
                              /\ AtMostOnce(stream[r], Deletions(m)) =>
                                   AtMostOnce(stream'[r], Deletions(m))
  BY DEF Silent
<1>1. stream[s] \in Seq(Job)
  BY DEF QueueTypeOK
<1>2. stream'[r] = IF r = s THEN Tail(stream[s]) ELSE stream[r]
  BY DEF QueueTypeOK
<1>3. stream[s] \in Seq(Content) => Tail(stream[s]) \in Seq(Content)
  BY HeadTailProperties
<1>4. \A m : /\ Occurs(Tail(stream[s]), Deletions(m)) => Occurs(stream[s], Deletions(m))
             /\ AtMostOnce(stream[s], Deletions(m)) =>
                  AtMostOnce(Tail(stream[s]), Deletions(m))
  BY <1>1, TailOnce
<1> QED
  BY <1>2, <1>3, <1>4

LEMMA SilentRestart ==
  ASSUME \A r \in Side : stream'[r] \in {<<>>, stream[r]}
  PROVE  Silent
<1>1. <<>> \in Seq(Content) /\ \A m : ~Occurs(<<>>, Deletions(m)) /\ AtMostOnce(<<>>, Deletions(m))
  BY DEF Occurs, AtMostOnce
<1>2. ASSUME NEW a, a = <<>>
      PROVE  /\ a \in Seq(Content)
             /\ \A m : ~Occurs(a, Deletions(m)) /\ AtMostOnce(a, Deletions(m))
  BY <1>1, <1>2, Zenon
<1> QED
  BY <1>2 DEF Silent

\* A platform reports that m is gone, once.
Reported(m) ==
  /\ m \in Posted /\ Live(m) /\ ~Live(m)'
  /\ Emit(SideOf(m.chat), DeleteEvent(m))
  /\ SideOf(m.chat) = "bale" /\ BaleMode = "bot" => <<"bale", "delete">> \in Echoes

-----------------------------------------------------------------------------
(* The steps of a handler that has started *)

Moves(s) ==
  \/ SendFails(s) \/ Fetched(s) \/ Edited(s) \/ EditFalls(s) \/ Resent(s)
  \/ Remove(s) \/ RemoveFails(s) \/ Removed(s) \/ Replace(s)
  \/ Delete(s) \/ Deleted(s) \/ DeleteFalls(s) \/ Breaks(s) \/ Record(s)

\* Where they lead.
Ways(s) ==
  \/ w[s].pc = "send" /\ NextPair(s)
  \/ w[s].pc \in Editing /\ NextEdit(s)
  \/ w[s].pc \in Editing /\ \E pc \in Editing : Goto(s, pc)
  \/ w[s].pc = "delete" /\ Goto(s, "deleted")
  \/ w[s].pc \in Deleting /\ \E ign \in SUBSET Msg : Unmap(s, ign)
  \/ Breaks(s)

LEMMA MoveWays ==
  ASSUME BridgeInv, NEW s \in Side, Moves(s)
  PROVE  Ways(s) /\ UNCHANGED <<q, job>>
<1>1. CASE SendFails(s)
  BY <1>1 DEF SendFails, Ways, Editing
<1>2. CASE Fetched(s)
  BY <1>2 DEF Fetched, Ways, Editing, queueVars
<1>3. CASE Edited(s)
  BY <1>3 DEF Edited, Rewrite, Ways, Editing
<1>4. CASE EditFalls(s)
  <2>1. w[s].pc \in Editing /\ FallbackFirst(s) \in Editing
    BY <1>4 DEF EditFalls, Rewrite, FallbackFirst, Editing
  <2> QED
    BY <1>4, <2>1 DEF EditFalls, Ways
<1>5. CASE Resent(s)
  BY <1>5 DEF Resent, Ways, Editing
<1>6. CASE Remove(s)
  BY <1>6 DEF Remove, Vanish, Ways, Editing
<1>7. CASE RemoveFails(s)
  BY <1>7 DEF RemoveFails, Ways, Editing, queueVars
<1>8. CASE Removed(s)
  BY <1>8 DEF Removed, Ways, Editing, queueVars
<1>9. CASE Replace(s)
  <2>1. w[s].pc \in Editing
    BY <1>9, ReplaceTable
  <2> QED
    BY <1>9, <2>1 DEF Replace, Ways
<1>10. CASE Delete(s)
  BY <1>10 DEF Delete, Vanish, Ways
<1>11. CASE Deleted(s)
  <2>1. ignore \in SUBSET Msg
    BY InvFacts
  <2> QED
    BY <1>11, <2>1 DEF Deleted, Unmap, Ways, Deleting
<1>12. CASE DeleteFalls(s)
  <2>1. ignore \ {Target(s).msg} \in SUBSET Msg
    BY InvFacts
  <2> QED
    BY <1>12, <2>1 DEF DeleteFalls, Unmap, Ways, Deleting
<1>13. CASE Record(s)
  BY <1>13 DEF Record, Ways
<1>14. CASE Breaks(s)
  BY <1>14 DEF Breaks, Ways
<1> QED
  BY <1>1, <1>2, <1>3, <1>4, <1>5, <1>6, <1>7, <1>8, <1>9, <1>10, <1>11, <1>12, <1>13, <1>14
     DEF Moves

LEMMA WayFacts ==
  ASSUME BridgeInv, NEW s \in Side, Ways(s)
  PROVE  /\ w' \in [Side -> Local] /\ Others(s)
         /\ w'[s].mids \subseteq w[s].mids /\ w'[s].made \in {<<>>, w[s].made}
         /\ w'[s].pc \in Editing => w[s].pc \in Editing /\ FewerFound(s)
         /\ w[s].pc \notin Deleting => FewerFound(s)
<1>1. CASE w[s].pc = "send" /\ NextPair(s)
  <2>1. w' \in [Side -> Local] /\ Others(s) /\ SendsTo(w'[s], w[s].todo \ {FirstPair(s)})
        /\ FewerFound(s)
    BY <1>1, NextPairFacts
  <2> QED
    BY <2>1 DEF SendsTo, Rests, Editing
<1>2. CASE w[s].pc \in Editing /\ NextEdit(s)
  <2>1. w' \in [Side -> Local] /\ Others(s) /\ FewerFound(s)
        /\ EditsOf(s, w'[s], w[s].found \ {Target(s)})
    BY <1>2, NextEditFacts
  <2> QED
    BY <1>2, <2>1 DEF EditsOf, Rests
<1>3. CASE w[s].pc \in Editing /\ \E pc \in Editing : Goto(s, pc)
  BY <1>3, GotoKnown
<1>4. CASE w[s].pc = "delete" /\ Goto(s, "deleted")
  <2>1. w[s].pc \in Deleting /\ "deleted" \in Deleting /\ "deleted" \notin Editing
    BY <1>4 DEF Deleting, Editing
  <2> QED
    BY <1>4, <2>1, GotoKnown
<1>5. CASE w[s].pc \in Deleting /\ \E ign \in SUBSET Msg : Unmap(s, ign)
  <2>1. w' \in [Side -> Local] /\ Others(s)
        /\ DeletesOf(s, w'[s], w[s].found \ {Target(s)}, w[s].mids, rows')
    BY <1>5, UnmapFacts
  <2>2. w'[s].mids \subseteq w[s].mids /\ w'[s].made = <<>> /\ w'[s].pc \notin Editing
    BY <2>1 DEF DeletesOf, Rests, Editing
  <2> QED
    BY <1>5, <2>1, <2>2
<1>6. CASE Breaks(s)
  <2>1. w'[s].mids = {} /\ w'[s].made = <<>> /\ w'[s].pc \notin Editing
    BY <1>6, BreakFacts DEF Rests, Editing
  <2> QED
    BY <1>6, <2>1, BreakFacts
<1> QED
  BY <1>1, <1>2, <1>3, <1>4, <1>5, <1>6 DEF Ways

\* Only a call that deletes reports a deletion.
LEMMA MoveStream ==
  ASSUME BridgeInv, NEW s \in Side, Moves(s)
  PROVE  /\ Aged /\ Posted' = Posted
         /\ \/ Silent /\ \A n \in Posted : At(n)'.st = At(n).st
            \/ /\ (Remove(s) \/ Delete(s))
               /\ \E m \in Posted :
                    /\ m = Target(s).msg /\ SideOf(m.chat) = Other(s)
                    /\ At(m)'.st = "removed" /\ Live(m)
                    /\ \A n \in Posted : n # m => At(n)' = At(n)
                    /\ Silent \/ Reported(m)
<1>1. CASE Remove(s) \/ Delete(s)
  <2>1. PICK pc : Vanish(s, pc) /\ w[s].pc \in Editing \cup Deleting
    BY <1>1 DEF Remove, Delete, Editing, Deleting
  <2>2. PICK m \in Posted : m = Target(s).msg
    BY <2>1, TargetFacts
  <2>3. SideOf(m.chat) = Other(s)
    BY <2>1, <2>2, TargetFacts
  <2>4. /\ Posted' = Posted /\ \A n \in Posted : n # m => At(n)' = At(n)
        /\ \/ /\ At(m).st = "live" /\ At(m)' = [At(m) EXCEPT !.st = "removed"]
              /\ Echo(Other(s), "delete", DeleteEvent(m))
           \/ At(m).st # "live" /\ At(m)' = At(m) /\ UNCHANGED stream
    BY <2>1, <2>2, VanishFacts
  <2>5. SrcKept
    BY <1>1, PostsStay
  <2>6. Aged
    BY <2>4, <2>5, AgedChange DEF Live
  <2>7. CASE At(m).st # "live" /\ At(m)' = At(m) /\ UNCHANGED stream
    BY <2>4, <2>6, <2>7, SilentSame
  <2>8. CASE /\ At(m).st = "live" /\ At(m)' = [At(m) EXCEPT !.st = "removed"]
             /\ Echo(Other(s), "delete", DeleteEvent(m))
    <3>1. At(m) \in PostRec
      BY InvFacts, PostedFacts
    <3>2. At(m)'.st = "removed" /\ Live(m) /\ ~Live(m)'
      BY <2>8, <3>1 DEF PostRec, Live
    <3>3. Silent \/ Reported(m)
      BY <2>3, <2>8, <3>2, SilentSame DEF Echo, Reported
    <3> QED
      BY <1>1, <2>2, <2>3, <2>4, <2>6, <3>2, <3>3
  <2> QED
    BY <2>4, <2>7, <2>8
<1>2. CASE Rewrite(s)
  <2>1. PICK m \in Posted : m = Target(s).msg
    BY <1>2, TargetFacts DEF Rewrite, Editing
  <2>2. /\ Posted' = Posted
        /\ At(m)' = [At(m) EXCEPT !.txt = Source(s).txt]
        /\ At(m).st = "live" /\ \A n \in Posted : n # m => At(n)' = At(n)
        /\ Echo(Other(s), "edit", EditEvent(m, Source(s).txt))
    BY <1>2, <2>1, RewriteFacts
  <2>3. At(m) \in PostRec /\ Source(s).txt \in Text /\ m \in Msg
    BY <1>2, InvFacts, PostedFacts, SourceFacts DEF Rewrite, Editing
  <2>4. At(m)'.st = At(m).st
    BY <2>2, <2>3 DEF PostRec
  <2>5. Silent
    <3>1. EditEvent(m, Source(s).txt) \in Content /\ Other(s) \in Side
      BY <2>3, ContentEvents, SideFacts
    <3> QED
      BY <2>2, <3>1, InvFacts, SilentSame, SilentEmit DEF Echo
  <2>6. SrcKept
    BY <1>2, PostsStay
  <2>7. Aged
    BY <2>2, <2>6, AgedChange DEF Live
  <2> QED
    BY <2>2, <2>4, <2>5, <2>7
<1>3. CASE UNCHANGED posts /\ (UNCHANGED stream \/ LateEchoes(s))
  BY <1>3, AgedSame, SamePosts, SilentSame, SilentLate
<1>4. \/ Remove(s) \/ Delete(s)
      \/ Rewrite(s)
      \/ UNCHANGED posts /\ (UNCHANGED stream \/ LateEchoes(s))
  BY DEF Moves, SendFails, Fetched, Edited, EditFalls, Resent, RemoveFails, Removed, Replace,
         Deleted, DeleteFalls, Unmap, Breaks, Record, queueVars
<1> QED
  BY <1>1, <1>2, <1>3, <1>4

-----------------------------------------------------------------------------
(* Each deletion is reported once *)

\* In bot mode Bale reports no deletions, the bridge's own no more than others
\* (botapi/events.py knows no such update).
BotReports == BaleMode = "bot" => <<"bale", "delete">> \notin Echoes

\* Only what is gone is reported, and once.
Heard(m) ==
  /\ AtMostOnce(stream[SideOf(m.chat)], Deletions(m))
  /\ Live(m) => ~Occurs(stream[SideOf(m.chat)], Deletions(m))

\* Deletions of what is gone.
GoneJobs == { j \in Job : j.kind = "delete" => \A m \in j.ids : m \in Posted /\ ~Live(m) }

OnceInv ==
  /\ BridgeInv
  /\ BaleMode = "bot" => stream["bale"] \in Seq(Content)
  /\ \A m \in Posted : Heard(m)
  /\ \A s \in Side : /\ q[s] \in Seq(GoneJobs) /\ job[s] \in GoneJobs \cup {NoJob}
                     /\ \A m \in w[s].mids : ~Live(m)

LEMMA GoneStays ==
  ASSUME Aged
  PROVE  /\ \A m \in Posted : m \in Posted' /\ (~Live(m) => ~Live(m)')
         /\ GoneJobs \subseteq GoneJobs'
<1>1. \A m \in Posted : m \in Posted' /\ (~Live(m) => ~Live(m)')
  BY DEF Aged, SrcKept, Live
<1> QED
  BY <1>1 DEF GoneJobs

\* A message that is not there is in no deletion.
LEMMA Unheard ==
  ASSUME BridgeInv, NEW m, m \notin Posted, NEW r \in Side
  PROVE  ~Occurs(stream[r], Deletions(m)) /\ AtMostOnce(stream[r], Deletions(m))
<1>1. stream[r] \in Seq(HomeJob(r, Posted))
  BY DEF BridgeInv, JobsKnown
<1>2. \A i \in DOMAIN stream[r] : stream[r][i] \in HomeJob(r, Posted)
  BY <1>1, ElementOfSeq, LenProperties
<1>3. \A j \in HomeJob(r, Posted) : j \notin Deletions(m)
  BY DEF HomeJob, About, Deletions
<1> QED
  BY <1>2, <1>3 DEF Occurs, AtMostOnce

\* The deletions still to come, whatever else a step does.
LEMMA HeardSilent ==
  ASSUME OnceInv, Aged, Silent
  PROVE  /\ BaleMode = "bot" => stream'["bale"] \in Seq(Content)
         /\ \A m \in Posted' : Heard(m)'
<1>1. BaleMode = "bot" => stream'["bale"] \in Seq(Content)
  BY DEF OnceInv, Silent, Side
<1>2. ASSUME NEW m \in Posted' PROVE Heard(m)'
  <2>1. PICK r \in Side : r = SideOf(m.chat)
    BY SideOfType
  <2>2. AtMostOnce(stream[r], Deletions(m)) /\ (Occurs(stream[r], Deletions(m)) => m \in Posted)
    BY <2>1, Unheard DEF OnceInv, Heard
  <2>3. AtMostOnce(stream'[r], Deletions(m))
        /\ (Occurs(stream'[r], Deletions(m)) => Occurs(stream[r], Deletions(m)))
    BY <2>2 DEF Silent
  <2>4. m \in Posted => Live(m) \/ ~Live(m)'
    BY GoneStays
  <2>5. Live(m)' => ~Occurs(stream'[r], Deletions(m))
    BY <2>1, <2>2, <2>3, <2>4 DEF OnceInv, Heard
  <2> QED
    BY <2>1, <2>3, <2>5 DEF Heard
<1> QED
  BY <1>1, <1>2

LEMMA HeardReported ==
  ASSUME OnceInv, BotReports, Aged, Posted' = Posted, NEW n \in Posted, Reported(n)
  PROVE  /\ BaleMode = "bot" => stream'["bale"] \in Seq(Content)
         /\ \A m \in Posted' : Heard(m)'
<1>1. PICK s \in Side : s = SideOf(n.chat)
  BY SideOfType
<1>2. PICK e : e = DeleteEvent(n)
  OBVIOUS
<1>3. e \in Job /\ \A m : e \in Deletions(m) => m = n
  <2>1. n \in Msg
    BY InvFacts DEF OnceInv
  <2> QED
    BY <1>2, <2>1 DEF DeleteEvent, Deletions, Job, DeleteJob
<1>4. stream \in [Side -> Seq(Job)]
  BY InvFacts DEF OnceInv, QueueTypeOK
<1>5. \A r \in Side : stream'[r] = IF r = s THEN Append(stream[s], e) ELSE stream[r]
  BY <1>1, <1>2, <1>4 DEF Reported, Emit
<1>6. BaleMode = "bot" => stream'["bale"] \in Seq(Content)
  <2>1. BaleMode = "bot" => s # "bale"
    BY <1>1 DEF Reported, BotReports
  <2> QED
    BY <1>5, <2>1 DEF OnceInv, Side
<1>7. ASSUME NEW m \in Posted PROVE Heard(m)'
  <2>1. PICK r \in Side : r = SideOf(m.chat)
    BY SideOfType
  <2>2. AtMostOnce(stream[r], Deletions(m)) /\ (Live(m) => ~Occurs(stream[r], Deletions(m)))
    BY <2>1 DEF OnceInv, Heard
  <2>3. CASE m = n
    <3>1. ~Live(m)' /\ Live(m) /\ r = s
      BY <1>1, <2>1, <2>3 DEF Reported
    <3>2. AtMostOnce(Append(stream[r], e), Deletions(m))
      BY <1>3, <1>4, <2>2, <3>1, AppendOnce
    <3> QED
      BY <1>5, <2>1, <3>1, <3>2 DEF Heard
  <2>4. CASE m # n
    <3>1. e \notin Deletions(m)
      BY <1>3, <2>4
    <3>2. /\ AtMostOnce(Append(stream[r], e), Deletions(m))
          /\ Occurs(Append(stream[r], e), Deletions(m)) => Occurs(stream[r], Deletions(m))
      BY <1>3, <1>4, <2>2, <3>1, AppendOnce
    <3>3. /\ AtMostOnce(stream'[r], Deletions(m))
          /\ Occurs(stream'[r], Deletions(m)) => Occurs(stream[r], Deletions(m))
      BY <1>5, <2>2, <3>2
    <3>4. Live(m)' => Live(m)
      BY GoneStays
    <3> QED
      BY <2>1, <2>2, <3>3, <3>4 DEF Heard
  <2> QED
    BY <2>3, <2>4
<1> QED
  BY <1>6, <1>7

\* A step that takes nothing from the queues.
LEMMA OnceFrame ==
  ASSUME OnceInv, BridgeInv', BotReports, NEW s \in Side, Aged, UNCHANGED <<q, job>>,
         Others(s), \A m \in w'[s].mids : m \in w[s].mids,
         \/ Silent
         \/ Posted' = Posted /\ \E n \in Posted : Reported(n)
  PROVE  OnceInv'
<1>1. /\ BaleMode = "bot" => stream'["bale"] \in Seq(Content)
      /\ \A m \in Posted' : Heard(m)'
  BY HeardSilent, HeardReported
<1>2. \A m \in Posted : ~Live(m) => ~Live(m)'
  BY GoneStays
<1>3. ASSUME NEW r \in Side
      PROVE  /\ q'[r] \in Seq(GoneJobs') /\ job'[r] \in GoneJobs' \cup {NoJob}
             /\ \A m \in w'[r].mids : ~Live(m)'
  <2>1. q[r] \in Seq(GoneJobs) /\ job[r] \in GoneJobs \cup {NoJob}
        /\ \A m \in w[r].mids : ~Live(m) /\ m \in Posted
    BY DEF OnceInv, BridgeInv, HandlerKnown
  <2>2. \A m \in w'[r].mids : m \in w[r].mids
    BY DEF Others
  <2>3. GoneJobs \subseteq GoneJobs'
    BY GoneStays
  <2> QED
    BY <1>2, <2>1, <2>2, <2>3, SeqOfMore
<1> QED
  BY <1>1, <1>3 DEF OnceInv

\* What a handler starts with.
LEMMA StartFacts ==
  ASSUME BridgeInv, NEW s \in Side, StartNew(s) \/ StartEdit(s) \/ StartDelete(s)
  PROVE  /\ Take(s) /\ UNCHANGED <<posts, rows, stream>> /\ Others(s) /\ w'[s].made = <<>>
         /\ \/ /\ w'[s].pc \in {"send", "done"} /\ w'[s].found = {} /\ w'[s].mids = {}
               /\ UNCHANGED ignore
            \/ /\ Head(q[s]).kind = "edit" /\ UNCHANGED ignore
               /\ EditsOf(s, w'[s], OtherSide(rows, Head(q[s]).items[1].msg))
            \/ /\ Head(q[s]).kind = "delete" /\ Marks(s, w'[s], ignore)
               /\ DeletesOf(s, w'[s], {}, Head(q[s]).ids, rows)
<1>1. CASE StartNew(s)
  <2> DEFINE pairs == PairsFor(s, Head(q[s]).items[1].msg.chat)
  <2>1. /\ Take(s) /\ UNCHANGED <<posts, rows, ignore>>
        /\ \/ Become(s, Stopped("done"))
           \/ Become(s, IF pairs = {} THEN Stopped("done")
                        ELSE [Stopped("send") EXCEPT !.todo = pairs])
    BY <1>1 DEF StartNew, Starts
  <2>2. pairs \subseteq PairId
    BY DEF PairsFor
  <2> HIDE DEF pairs
  <2>3. CASE Become(s, Stopped("done"))
    BY <2>1, <2>3, InvFacts, StoppedFacts, BecomeFacts DEF PC, Take
  <2>4. CASE Become(s, IF pairs = {} THEN Stopped("done")
                       ELSE [Stopped("send") EXCEPT !.todo = pairs])
    BY <2>1, <2>2, <2>4, InvFacts, SendFrom DEF SendsTo, Rests, Take
  <2> QED
    BY <2>1, <2>3, <2>4
<1>2. CASE StartEdit(s)
  <2> DEFINE F == OtherSide(rows, Head(q[s]).items[1].msg)
  <2>1. /\ Take(s) /\ Head(q[s]).kind = "edit" /\ EditFrom(s, F)
        /\ UNCHANGED <<posts, rows, ignore>>
    BY <1>2 DEF StartEdit, Starts, dbVars
  <2>2. F \subseteq Found /\ FoundKnown(F, Posted)
    BY InvFacts, OtherSideFacts
  <2> HIDE DEF F
  <2>3. w' \in [Side -> Local] /\ Others(s) /\ EditsOf(s, w'[s], F)
    BY <2>1, <2>2, InvFacts, EditFromFacts
  <2> QED
    BY <2>1, <2>3 DEF EditsOf, Rests, Take, F
<1>3. CASE StartDelete(s)
  <2> DEFINE mids == Head(q[s]).ids
  <2>1. /\ Take(s) /\ Head(q[s]).kind = "delete" /\ DeleteFrom(s, {}, mids, rows, ignore)
        /\ UNCHANGED <<posts, rows>>
    BY <1>3 DEF StartDelete, Starts, dbVars
  <2>2. mids \subseteq Msg /\ {} \subseteq Found /\ FoundKnown({}, Posted)
    BY <2>1, TakeFacts, InvFacts DEF HomeJob, About, FoundKnown
  <2> HIDE DEF mids
  <2>3. /\ w' \in [Side -> Local] /\ Others(s)
        /\ DeletesOf(s, w'[s], {}, mids, rows) /\ Marks(s, w'[s], ignore)
    BY <2>1, <2>2, InvFacts, DeleteFromFacts
  <2> QED
    BY <2>1, <2>3 DEF DeletesOf, Rests, Take, mids
<1> QED
  BY <1>1, <1>2, <1>3

LEMMA ReturnFacts ==
  ASSUME BridgeInv, NEW s \in Side, Return(s)
  PROVE  /\ Others(s) /\ Rests(w'[s]) /\ w'[s].pc = "idle"
         /\ UNCHANGED <<stream, q, posts, rows, sent, ignore>>
         /\ job'[s] = NoJob /\ \A r \in Side : r # s => job'[r] = job[r]
<1>1. /\ Become(s, Stopped("idle")) /\ job' = [job EXCEPT ![s] = NoJob]
      /\ UNCHANGED <<stream, q, posts, rows, sent, ignore>>
  BY DEF Return, Done, dbVars
<1>2. Others(s) /\ Rests(w'[s]) /\ w'[s].pc = "idle"
  BY <1>1, InvFacts, StoppedFacts, StoppedRests, BecomeFacts DEF PC
<1>3. job \in [Side -> Job \cup {NoJob}]
  BY InvFacts DEF QueueTypeOK
<1> QED
  BY <1>1, <1>2, <1>3

LEMMA CrashFacts ==
  ASSUME Crash
  PROVE  /\ UNCHANGED <<posts, rows, sent>> /\ ignore' = {}
         /\ \A s \in Side : /\ Rests(w'[s]) /\ w'[s].pc = "idle"
                            /\ q'[s] = <<>> /\ job'[s] = NoJob
                            /\ stream'[s] = IF s = "bale" /\ BaleMode = "bot"
                                              THEN stream[s] ELSE <<>>
<1>1. /\ w' = [s \in Side |-> Stopped("idle")] /\ UNCHANGED <<posts, rows, sent>>
      /\ q' = [s \in Side |-> <<>>] /\ job' = [s \in Side |-> NoJob] /\ ignore' = {}
      /\ stream' = [s \in Side |-> IF s = "bale" /\ BaleMode = "bot" THEN stream[s] ELSE <<>>]
  BY DEF Crash, Restart, dbVars
<1> QED
  BY <1>1, StoppedRests

\* Steps that concern users or tables only.
Outside ==
  \/ \E c \in Chat, t \in Text : UserPost(c, t)
  \/ \E m \in Msg, t \in Text : UserEdit(m, t)
  \/ \E m \in Msg : UserDelete(m)
  \/ \E f \in fps : FpExpires(f)
  \/ \E p \in PairId, md \in Mode : SetMode(p, md)
  \/ \E p \in PairId : RemovePair(p)
  \/ UNCHANGED vars

LEMMA OutsideFacts ==
  ASSUME BridgeInv, Outside
  PROVE  /\ UNCHANGED <<q, job, w, sent, ignore>> /\ rows' \subseteq rows /\ Aged
         /\ \/ Silent
            \/ Posted' = Posted /\ \E n \in Posted : Reported(n) /\ At(n)'.st = "deleted"
         /\ \A n \in Posted : At(n)'.st \in {At(n).st, "deleted"}
         /\ \A n \in Posted' : n \in Posted \/ ByUser(n)'
<1>1. ASSUME NEW c \in Chat, NEW t \in Text, UserPost(c, t)
      PROVE  /\ UNCHANGED <<q, job, w, sent, ignore>> /\ rows' \subseteq rows /\ Aged /\ Silent
             /\ \A n \in Posted : At(n)'.st = At(n).st
             /\ \A n \in Posted' : n \in Posted \/ ByUser(n)'
  <2>1. PICK m \in Msg : /\ m \notin Posted /\ Posted' = Posted \cup {m}
                         /\ \A n \in Posted : At(n)' = At(n)
                         /\ ByUser(m)' /\ Emit(SideOf(c), NewEvent(m, t))
    BY <1>1, AgedPost
  <2>2. Silent
    <3>1. NewEvent(m, t) \in Content /\ SideOf(c) \in Side
      BY ContentEvents, SideOfType
    <3> QED
      BY <2>1, <3>1, InvFacts, SilentEmit
  <2> QED
    BY <1>1, <2>1, <2>2, AgedPost DEF UserPost, dbVars
<1>2. ASSUME NEW m \in Msg, NEW t \in Text, UserEdit(m, t), ~UserDelete(m)
      PROVE  /\ UNCHANGED <<q, job, w, sent, ignore>> /\ rows' \subseteq rows /\ Aged /\ Silent
             /\ \A n \in Posted : At(n)'.st = At(n).st
             /\ Posted' = Posted
  <2>1. /\ Aged /\ Posted' = Posted /\ m \in Posted /\ Live(m)
        /\ \A n \in Posted : n # m => At(n)' = At(n)
        /\ At(m)'.st = "live"
    BY <1>2, AgedUser
  <2>2. Silent
    <3>1. EditEvent(m, t) \in Content /\ SideOf(m.chat) \in Side
      BY ContentEvents, SideOfType
    <3> QED
      BY <1>2, <3>1, InvFacts, SilentEmit DEF UserEdit
  <2> QED
    BY <1>2, <2>1, <2>2 DEF UserEdit, dbVars, Live
<1>3. ASSUME NEW m \in Msg, UserDelete(m)
      PROVE  /\ UNCHANGED <<q, job, w, sent, ignore>> /\ rows' \subseteq rows /\ Aged
             /\ Silent \/ (m \in Posted /\ Reported(m) /\ At(m)'.st = "deleted")
             /\ \A n \in Posted : At(n)'.st \in {At(n).st, "deleted"}
             /\ Posted' = Posted
  <2>1. /\ Aged /\ Posted' = Posted /\ m \in Posted /\ Live(m)
        /\ \A n \in Posted : n # m => At(n)' = At(n)
        /\ At(m)'.st = "deleted"
    BY <1>3, AgedUser
  <2>2. Silent \/ Reported(m)
    <3>1. \/ UNCHANGED stream
          \/ /\ Emit(SideOf(m.chat), DeleteEvent(m))
             /\ ~(SideOf(m.chat) = "bale" /\ BaleMode = "bot")
      BY <1>3 DEF UserDelete
    <3> QED
      BY <2>1, <3>1, SilentSame DEF Reported, Live
  <2> QED
    BY <1>3, <2>1, <2>2 DEF UserDelete, dbVars
<1>4. ASSUME \/ \E f \in fps : FpExpires(f)
             \/ \E p \in PairId, md \in Mode : SetMode(p, md)
             \/ \E p \in PairId : RemovePair(p)
             \/ UNCHANGED vars
      PROVE  /\ UNCHANGED <<q, job, w, sent, ignore>> /\ rows' \subseteq rows /\ Aged /\ Silent
             /\ \A n \in Posted : At(n)'.st = At(n).st
             /\ Posted' = Posted
  <2>1. UNCHANGED <<queueVars, posts, w>> /\ rows' \subseteq rows
    BY <1>4 DEF FpExpires, SetMode, RemovePair, PurgePair, vars, dbVars
  <2> QED
    BY <2>1, AgedSame, SamePosts, SilentSame DEF queueVars
<1> QED
  BY <1>1, <1>2, <1>3, <1>4 DEF Outside

\* Every step is one of these.
LEMMA StepKinds ==
  ASSUME [Next]_vars
  PROVE  \/ Outside
         \/ Crash
         \/ \E s \in Side : \/ Intake(s) \/ Send(s) \/ Return(s)
                            \/ StartNew(s) \/ StartEdit(s) \/ StartDelete(s)
                            \/ Moves(s)
<1>1. ASSUME NEW s \in Side, Handler(s) \/ Fault(s)
      PROVE  \/ Send(s) \/ Return(s) \/ StartNew(s) \/ StartEdit(s) \/ StartDelete(s)
             \/ Moves(s)
  BY <1>1, Failing DEF Handler, Fault, Moves
<1> QED
  BY <1>1 DEF Next, Outside

LEMMA NothingIn ==
  ASSUME NEW a, a = <<>>
  PROVE  \A S : a \in Seq(S)
<1>1. \A S : <<>> \in Seq(S)
  OBVIOUS
<1> QED
  BY <1>1, Zenon

LEMMA IntakeOnce ==
  ASSUME OnceInv, BridgeInv', NEW s \in Side, Intake(s)
  PROVE  OnceInv'
<1> DEFINE e == Head(stream[s])
           d == [kind |-> "delete", ids |-> e.ids \ ignore]
<1>0. BridgeInv
  BY DEF OnceInv
<1>1. /\ OnNew(s) \/ OnEdit(s) \/ OnDelete(s)
      /\ UNCHANGED <<posts, w>>
  BY DEF Intake
<1>2. /\ stream[s] # <<>> /\ e \in HomeJob(s, Posted) /\ e \in Job
      /\ stream' = [stream EXCEPT ![s] = Tail(@)] /\ UNCHANGED job
      /\ \/ UNCHANGED q
         \/ e.kind # "delete" /\ Put(s, e)
         \/ e.kind = "delete" /\ Put(s, d)
  BY <1>0, <1>1, IntakeFacts DEF HomeJob
<1>3. Silent /\ Aged /\ Posted' = Posted
  BY <1>0, <1>1, <1>2, InvFacts, SilentPop, AgedSame
<1>4. /\ BaleMode = "bot" => stream'["bale"] \in Seq(Content)
      /\ \A m \in Posted' : Heard(m)'
  BY <1>3, HeardSilent
<1>5. ASSUME NEW j \in GoneJobs, Put(s, j) PROVE \A r \in Side : q'[r] \in Seq(GoneJobs)
  <2>1. q \in [Side -> Seq(Job)] /\ \A r \in Side : q[r] \in Seq(GoneJobs)
    BY <1>0, InvFacts DEF QueueTypeOK, OnceInv
  <2>2. \A r \in Side : q'[r] = IF r = s THEN Append(q[s], j) ELSE q[r]
    BY <1>5, <2>1 DEF Put
  <2>3. Append(q[s], j) \in Seq(GoneJobs)
    BY <2>1
  <2> QED
    BY <2>1, <2>2, <2>3
<1>6. e.kind # "delete" => e \in GoneJobs
  BY <1>2 DEF GoneJobs
<1>7. ASSUME e.kind = "delete" PROVE d \in GoneJobs
  <2>1. ASSUME NEW m \in e.ids PROVE m \in Posted /\ ~Live(m)
    <3>1. m \in Posted /\ SideOf(m.chat) = s
      BY <1>2, <1>7 DEF HomeJob, About
    <3>2. e \in Deletions(m) /\ stream[s] \in Seq(Job)
      BY <1>0, <1>2, <1>7, InvFacts DEF Deletions, QueueTypeOK
    <3>3. Occurs(stream[SideOf(m.chat)], Deletions(m))
      BY <1>2, <3>1, <3>2, TailOnce
    <3> QED
      BY <3>1, <3>3 DEF OnceInv, Heard
  <2>2. d \in Job
    <3>1. e.kind = "delete" => d \in HomeJob(s, Posted)
      BY <1>2, FewerIds
    <3> QED
      BY <1>7, <3>1 DEF HomeJob
  <2> QED
    BY <2>1, <2>2 DEF GoneJobs
<1>8. \A r \in Side : q'[r] \in Seq(GoneJobs)
  BY <1>2, <1>5, <1>6, <1>7 DEF OnceInv
<1>9. GoneJobs' = GoneJobs /\ \A m : Live(m)' = Live(m)
  BY <1>1, SamePosts DEF GoneJobs, Live
<1> QED
  BY <1>1, <1>2, <1>4, <1>8, <1>9 DEF OnceInv

LEMMA StartOnce ==
  ASSUME OnceInv, BridgeInv', NEW s \in Side, StartNew(s) \/ StartEdit(s) \/ StartDelete(s)
  PROVE  OnceInv'
<1>0. BridgeInv
  BY DEF OnceInv
<1>1. /\ Take(s) /\ UNCHANGED <<posts, stream>> /\ Others(s)
      /\ \A m \in w'[s].mids : Head(q[s]).kind = "delete" /\ m \in Head(q[s]).ids
  <2>1. /\ Take(s) /\ UNCHANGED <<posts, stream>> /\ Others(s)
        /\ \/ w'[s].mids = {}
           \/ EditsOf(s, w'[s], OtherSide(rows, Head(q[s]).items[1].msg))
           \/ /\ Head(q[s]).kind = "delete"
              /\ DeletesOf(s, w'[s], {}, Head(q[s]).ids, rows)
    BY <1>0, StartFacts
  <2> QED
    BY <2>1 DEF EditsOf, DeletesOf, Rests
<1>2. /\ q[s] # <<>> /\ q' = [q EXCEPT ![s] = Tail(@)]
      /\ job'[s] = Head(q[s]) /\ \A r \in Side : r # s => job'[r] = job[r]
  BY <1>0, <1>1, TakeFacts
<1>3. q[s] \in Seq(GoneJobs) /\ q \in [Side -> Seq(Job)]
  BY <1>0, InvFacts DEF OnceInv, QueueTypeOK
<1>4. Head(q[s]) \in GoneJobs /\ Tail(q[s]) \in Seq(GoneJobs)
  BY <1>2, <1>3, HeadTailProperties
<1>5. Silent /\ Aged /\ GoneJobs' = GoneJobs /\ \A m : Live(m)' = Live(m)
  BY <1>1, SamePosts, SilentSame, AgedSame DEF GoneJobs, Live
<1>6. /\ BaleMode = "bot" => stream'["bale"] \in Seq(Content)
      /\ \A m \in Posted' : Heard(m)'
  BY <1>5, HeardSilent
<1>7. ASSUME NEW r \in Side
      PROVE  /\ q'[r] \in Seq(GoneJobs) /\ job'[r] \in GoneJobs \cup {NoJob}
             /\ \A m \in w'[r].mids : ~Live(m)
  <2>1. q'[r] \in Seq(GoneJobs) /\ job'[r] \in GoneJobs \cup {NoJob}
    BY <1>2, <1>3, <1>4 DEF OnceInv
  <2>2. \A m \in w'[r].mids : ~Live(m)
    <3>1. CASE r = s
      BY <1>1, <1>4, <3>1 DEF GoneJobs
    <3>2. CASE r # s
      BY <1>1, <3>2 DEF Others, OnceInv
    <3> QED
      BY <3>1, <3>2
  <2> QED
    BY <2>1, <2>2
<1> QED
  BY <1>5, <1>6, <1>7 DEF OnceInv

LEMMA ReturnOnce ==
  ASSUME OnceInv, BridgeInv', NEW s \in Side, Return(s)
  PROVE  OnceInv'
<1>1. /\ Others(s) /\ w'[s].mids = {} /\ UNCHANGED <<stream, q, posts>>
      /\ job'[s] = NoJob /\ \A r \in Side : r # s => job'[r] = job[r]
  BY ReturnFacts DEF Rests, OnceInv
<1>2. Silent /\ Aged /\ GoneJobs' = GoneJobs /\ \A m : Live(m)' = Live(m)
  BY <1>1, SamePosts, SilentSame, AgedSame DEF GoneJobs, Live
<1>3. /\ BaleMode = "bot" => stream'["bale"] \in Seq(Content)
      /\ \A m \in Posted' : Heard(m)'
  BY <1>2, HeardSilent
<1>4. ASSUME NEW r \in Side
      PROVE  /\ q'[r] \in Seq(GoneJobs) /\ job'[r] \in GoneJobs \cup {NoJob}
             /\ \A m \in w'[r].mids : ~Live(m)
  BY <1>1 DEF Others, OnceInv
<1> QED
  BY <1>2, <1>3, <1>4 DEF OnceInv

LEMMA CrashOnce ==
  ASSUME OnceInv, BridgeInv', Crash
  PROVE  OnceInv'
<1>1. /\ UNCHANGED posts
      /\ \A s \in Side : /\ w'[s].mids = {} /\ q'[s] = <<>> /\ job'[s] = NoJob
                         /\ stream'[s] \in {<<>>, stream[s]}
  BY CrashFacts DEF Rests
<1>2. Silent /\ Aged
  BY <1>1, SilentRestart, AgedSame
<1>3. /\ BaleMode = "bot" => stream'["bale"] \in Seq(Content)
      /\ \A m \in Posted' : Heard(m)'
  BY <1>2, HeardSilent
<1>4. \A s \in Side : q'[s] \in Seq(GoneJobs') /\ job'[s] \in GoneJobs' \cup {NoJob}
  BY <1>1, NothingIn
<1> QED
  BY <1>1, <1>3, <1>4 DEF OnceInv

LEMMA StepOnce == BotReports /\ OnceInv /\ BridgeInv' /\ [Next]_vars => OnceInv'
<1> SUFFICES ASSUME BotReports, OnceInv, BridgeInv', [Next]_vars PROVE OnceInv'
  OBVIOUS
<1>0. BridgeInv
  BY DEF OnceInv
<1>1. CASE Outside
  <2>1. /\ UNCHANGED <<q, job, w>> /\ Aged
        /\ Silent \/ (Posted' = Posted /\ \E n \in Posted : Reported(n))
    BY <1>0, <1>1, OutsideFacts
  <2> QED
    BY <2>1, OnceFrame DEF Others, Side
<1>2. CASE Crash
  BY <1>2, CrashOnce
<1>3. ASSUME NEW s \in Side, Send(s) PROVE OnceInv'
  <2>1. /\ Aged /\ UNCHANGED <<q, job>> /\ Others(s) /\ w'[s].mids = w[s].mids
    <3>1. PICK m : m = [chat |-> SendChat(s), id |-> Len(posts[SendChat(s)]) + 1]
      OBVIOUS
    <3> QED
      BY <1>0, <1>3, <3>1, SendFacts, AgedSend DEF Send
  <2>2. Silent
    <3>1. PICK m \in Msg : UNCHANGED stream \/ Emit(Other(s), NewEvent(m, Source(s).txt))
      BY <1>0, <1>3, AgedSend
    <3>2. Source(s).txt \in Text
      BY <1>0, <1>3, SourceFacts DEF Send, Editing
    <3>3. NewEvent(m, Source(s).txt) \in Content
      BY <3>2, ContentEvents
    <3> QED
      BY <1>0, <3>1, <3>3, InvFacts, SideFacts, SilentSame, SilentEmit
  <2> QED
    BY <2>1, <2>2, OnceFrame
<1>4. ASSUME NEW s \in Side, Moves(s) PROVE OnceInv'
  <2>1. UNCHANGED <<q, job>> /\ Others(s) /\ w'[s].mids \subseteq w[s].mids
    BY <1>0, <1>4, MoveWays, WayFacts
  <2>2. Aged /\ Posted' = Posted /\ (Silent \/ \E n \in Posted : Reported(n))
    BY <1>0, <1>4, MoveStream
  <2> QED
    BY <2>1, <2>2, OnceFrame
<1> QED
  BY <1>1, <1>2, <1>3, <1>4, StepKinds, IntakeOnce, StartOnce, ReturnOnce

LEMMA InitOnce == Init => OnceInv
<1> SUFFICES ASSUME Init PROVE OnceInv
  OBVIOUS
<1>1. BridgeInv
  BY InitKnown
<1>2. \A s \in Side : stream[s] = <<>> /\ q[s] = <<>> /\ job[s] = NoJob /\ w[s] = Stopped("idle")
  BY DEF Init, QueueInit
<1>3. \A c \in Chat : posts[c] = <<>>
  BY DEF Init
<1>4. Posted = {}
  BY <1>3, MsgFacts DEF Posted, Exists
<1>5. \A s \in Side : w[s].mids = {}
  BY <1>2, StoppedRests DEF Rests
<1>6. \A s \in Side : /\ stream[s] \in Seq(Content) /\ q[s] \in Seq(GoneJobs)
                      /\ job[s] \in GoneJobs \cup {NoJob}
  BY <1>2, NothingIn
<1> QED
  BY <1>1, <1>4, <1>5, <1>6 DEF OnceInv, Side

-----------------------------------------------------------------------------
(* Who owns a copy *)

Mapped(m) == \E r \in rows : r.dst = m

OneRow == \A r1, r2 \in rows : r1.dst = r2.dst => r1 = r2

\* What the map says of the ends of a row.
RowsOwn ==
  \A r \in rows : /\ {r.src, r.dst} \subseteq Posted
                  /\ ByUser(r.src) /\ ~ByUser(r.dst) /\ At(r.dst).src = r.src

\* Every copy has one owner: the handler that has just made it, or one row, the
\* row under which a handler has found it.
MadeOwn(s) ==
  \A m \in Range(w[s].made) :
    ~ByUser(m) /\ ~Mapped(m) /\ \A r \in Side : \A o \in w[r].found : o.msg # m
FoundOwn(s) == \A o \in w[s].found, r \in rows : r.dst = o.msg => r.id = o.row

\* An edit works on copies of the edited message.
EditsOwn(s) == w[s].pc \in Editing => \A o \in w[s].found : At(o.msg).src = Source(s).msg

OwnInv ==
  /\ ReflInv
  /\ OneRow
  /\ \A s \in Side : MadeOwn(s) /\ FoundOwn(s) /\ EditsOwn(s)

LEMMA RowEnds == ReflInv => RowsOwn
<1> SUFFICES ASSUME ReflInv, NEW r \in rows
             PROVE  /\ {r.src, r.dst} \subseteq Posted
                    /\ ByUser(r.src) /\ ~ByUser(r.dst) /\ At(r.dst).src = r.src
  BY DEF RowsOwn
<1>1. {r.src, r.dst} \subseteq Posted /\ At(r.dst).src = r.src
  BY DEF ReflInv, MapInv, BridgeInv, RowsKnown, RowSound
<1>2. ~ByUser(r.dst)
  BY <1>1, MsgAssumption DEF ByUser, Posted
<1>3. ByUser(r.src)
  BY <1>1, <1>2 DEF ReflInv, CopyOfUser
<1> QED
  BY <1>1, <1>2, <1>3

\* What a query returns: copies with their row, or originals.
Results ==
  \A m : \A o \in OtherSide(rows, m) :
    /\ ByUser(o.msg) \/ Mapped(o.msg)
    /\ \A x \in rows : x.dst = o.msg => x.id = o.row

LEMMA OtherEnds ==
  /\ ReflInv /\ OneRow => Results
  /\ ReflInv => RowsOwn
<1> SUFFICES ASSUME ReflInv, OneRow, NEW m, NEW o \in OtherSide(rows, m)
             PROVE  /\ ByUser(o.msg) \/ Mapped(o.msg)
                    /\ \A x \in rows : x.dst = o.msg => x.id = o.row
  BY RowEnds DEF Results
<1>1. rows \subseteq Row /\ RowsKnown(rows, lastRow, Posted)
  BY DEF ReflInv, MapInv, BridgeInv, TypeOK
<1>2. PICK r \in rows : /\ r.id = o.row
                        /\ r.dst = o.msg \/ (r.src = o.msg /\ r.dst = m)
  BY <1>1, OtherSideFacts
<1>3. RowsOwn
  BY RowEnds
<1> QED
  BY <1>2, <1>3 DEF RowsOwn, Mapped, OneRow

\* Where the messages of a handler are.
LEMMA MadeSides ==
  ASSUME BridgeInv
  PROVE  \A s \in Side : \A m \in Range(w[s].made) : m \in Posted /\ SideOf(m.chat) = Other(s)
  BY DEF BridgeInv, HandlerKnown, Range

LEMMA FoundPosted ==
  ASSUME BridgeInv
  PROVE  \A s \in Side : \A o \in w[s].found : o.msg \in Posted
  BY DEF BridgeInv, HandlerKnown, FoundKnown

\* What steps do to the owners.
NewMade ==
  \A r \in Side : \A m \in Range(w'[r].made) :
    \/ m \in Range(w[r].made)
    \/ m \notin Posted /\ ~ByUser(m)'
NewFound ==
  \A r \in Side : \A o \in w'[r].found : o \in w[r].found \/ \E m : o \in OtherSide(rows', m)
NewRows ==
  \A x \in rows' :
    \/ \E y \in rows : y.id = x.id /\ y.dst = x.dst
    \/ \E r \in Side : x.dst \in Range(w[r].made) /\ x.dst \notin Range(w'[r].made)

LEMMA OwnFrame ==
  ASSUME OwnInv, ReflInv', SrcKept, NewMade, NewFound, NewRows, OneRow',
         \A r \in Side : EditsOwn(r)'
  PROVE  OwnInv'
<1>1. Results'
  BY OtherEnds, PTL
<1>2. BridgeInv
  BY DEF OwnInv, ReflInv, MapInv
<1>3. \A m : \A o \in OtherSide(rows', m) :
        /\ ByUser(o.msg)' \/ Mapped(o.msg)'
        /\ \A x \in rows' : x.dst = o.msg => x.id = o.row
  BY <1>1 DEF Results
<1>4. ASSUME NEW r \in Side, NEW m \in Range(w'[r].made)
      PROVE  /\ ~ByUser(m)' /\ ~Mapped(m)'
             /\ \A a \in Side : \A o \in w'[a].found : o.msg # m
  <2>1. \/ m \in Range(w[r].made)
        \/ m \notin Posted /\ ~ByUser(m)'
    BY <1>4 DEF NewMade
  <2>2. ~ByUser(m)'
    <3>1. CASE m \in Range(w[r].made)
      <4>1. m \in Posted /\ ~ByUser(m)
        BY <1>2, <3>1, MadeSides DEF OwnInv, MadeOwn
      <4> QED
        BY <4>1 DEF SrcKept, ByUser
    <3> QED
      BY <2>1, <3>1
  <2>3. ASSUME NEW x \in rows' PROVE x.dst # m
    <3>1. CASE \E y \in rows : y.id = x.id /\ y.dst = x.dst
      <4>1. PICK y \in rows : y.dst = x.dst
        BY <3>1
      <4>2. y.dst \in Posted
        BY RowEnds DEF OwnInv, RowsOwn
      <4>3. m \in Range(w[r].made) => y.dst # m
        BY DEF OwnInv, MadeOwn, Mapped
      <4> QED
        BY <2>1, <4>1, <4>2, <4>3
    <3>2. CASE \E a \in Side : x.dst \in Range(w[a].made) /\ x.dst \notin Range(w'[a].made)
      <4>1. PICK a \in Side : x.dst \in Range(w[a].made) /\ x.dst \notin Range(w'[a].made)
        BY <3>2
      <4>2. x.dst \in Posted /\ SideOf(x.dst.chat) = Other(a)
        BY <1>2, <4>1, MadeSides
      <4>3. m \in Range(w[r].made) => SideOf(m.chat) = Other(r)
        BY <1>2, MadeSides
      <4>4. Other(a) = Other(r) => a = r
        BY DEF Other, Side
      <4> QED
        BY <1>4, <2>1, <4>1, <4>2, <4>3, <4>4
    <3> QED
      BY <3>1, <3>2 DEF NewRows
  <2>4. ASSUME NEW a \in Side, NEW o \in w'[a].found PROVE o.msg # m
    <3>1. CASE o \in w[a].found
      <4>1. o.msg \in Posted
        BY <1>2, <3>1, FoundPosted
      <4>2. m \in Range(w[r].made) => o.msg # m
        BY <3>1 DEF OwnInv, MadeOwn
      <4> QED
        BY <2>1, <4>1, <4>2
    <3>2. CASE \E n : o \in OtherSide(rows', n)
      <4>1. ByUser(o.msg)' \/ Mapped(o.msg)'
        BY <1>3, <3>2
      <4> QED
        BY <2>2, <2>3, <4>1 DEF Mapped
    <3> QED
      BY <2>4, <3>1, <3>2 DEF NewFound
  <2> QED
    BY <2>2, <2>3, <2>4 DEF Mapped
<1>5. ASSUME NEW r \in Side, NEW o \in w'[r].found, NEW x \in rows', x.dst = o.msg
      PROVE  x.id = o.row
  <2>1. CASE o \in w[r].found
    <3>1. CASE \E y \in rows : y.id = x.id /\ y.dst = x.dst
      BY <1>5, <2>1, <3>1 DEF OwnInv, FoundOwn
    <3>2. ASSUME NEW a \in Side, x.dst \in Range(w[a].made) PROVE FALSE
      BY <1>5, <2>1, <3>2 DEF OwnInv, MadeOwn
    <3> QED
      BY <3>1, <3>2 DEF NewRows
  <2>2. CASE \E n : o \in OtherSide(rows', n)
    BY <1>3, <1>5, <2>2
  <2> QED
    BY <1>5, <2>1, <2>2 DEF NewFound
<1>6. \A r \in Side : MadeOwn(r)' /\ FoundOwn(r)'
  BY <1>4, <1>5 DEF MadeOwn, FoundOwn
<1> QED
  BY <1>6 DEF OwnInv

LEMMA EditsKept ==
  ASSUME OwnInv, SrcKept, NEW r \in Side, job'[r] = job[r],
         w'[r].pc \in Editing => w[r].pc \in Editing /\ FewerFound(r)
  PROVE  EditsOwn(r)'
<1>1. Source(r)' = Source(r)
  BY DEF Source
<1>2. ASSUME w'[r].pc \in Editing, NEW o \in w'[r].found PROVE At(o.msg)'.src = Source(r).msg
  <2>1. o \in w[r].found /\ w[r].pc \in Editing
    BY <1>2 DEF FewerFound
  <2>2. PICK n \in Posted : n = o.msg
    BY <2>1, FoundPosted DEF OwnInv, ReflInv, MapInv
  <2>3. At(n).src = Source(r).msg
    BY <2>1, <2>2 DEF OwnInv, EditsOwn
  <2>4. At(n)'.src = Source(r).msg
    BY <2>3 DEF SrcKept
  <2> QED
    BY <2>2, <2>4
<1> QED
  BY <1>1, <1>2 DEF EditsOwn

LEMMA OneRowLess ==
  ASSUME OneRow, rows' \subseteq rows
  PROVE  OneRow' /\ NewRows
  BY DEF OneRow, NewRows

\* A step that gives nobody a copy.
LEMMA OwnQuiet ==
  ASSUME OwnInv, ReflInv', SrcKept, OneRow', NewRows, UNCHANGED job, NEW s \in Side, Others(s),
         \A m \in Range(w'[s].made) : m \in Range(w[s].made),
         \A o \in w'[s].found : o \in w[s].found \/ \E m : o \in OtherSide(rows', m),
         w'[s].pc \in Editing => w[s].pc \in Editing /\ FewerFound(s)
  PROVE  OwnInv'
<1>1. NewMade /\ NewFound
  BY DEF NewMade, NewFound, Others
<1>2. ASSUME NEW r \in Side PROVE EditsOwn(r)'
  <2>1. w'[r].pc \in Editing => w[r].pc \in Editing /\ FewerFound(r)
    BY DEF Others, FewerFound
  <2> QED
    BY <2>1, EditsKept
<1> QED
  BY <1>1, <1>2, OwnFrame

LEMMA StartOwn ==
  ASSUME OwnInv, ReflInv', NEW s \in Side, StartNew(s) \/ StartEdit(s) \/ StartDelete(s)
  PROVE  OwnInv'
<1> DEFINE m == Head(q[s]).items[1].msg
<1>0. BridgeInv
  BY DEF OwnInv, ReflInv, MapInv
<1>1. /\ Take(s) /\ UNCHANGED <<posts, rows>> /\ Others(s) /\ w'[s].made = <<>>
      /\ \/ w'[s].pc \in {"send", "done"} /\ w'[s].found = {}
         \/ EditsOf(s, w'[s], OtherSide(rows, m))
         \/ DeletesOf(s, w'[s], {}, Head(q[s]).ids, rows)
  BY <1>0, StartFacts
<1>2. SrcKept /\ OneRow' /\ NewRows
  BY <1>1, SrcSame, OneRowLess DEF OwnInv
<1>3. job'[s] = Head(q[s]) /\ \A r \in Side : r # s => job'[r] = job[r]
  BY <1>0, <1>1, TakeFacts
<1>4. NewMade
  BY <1>1 DEF NewMade, Others, Range
<1>5. \A o \in w'[s].found : \E n : o \in OtherSide(rows', n)
  BY <1>1 DEF EditsOf, DeletesOf, Rests
<1>6. NewFound
  BY <1>1, <1>5 DEF NewFound, Others
<1>7. EditsOwn(s)'
  <2>1. ASSUME w'[s].pc \in Editing, NEW o \in w'[s].found PROVE At(o.msg)'.src = m
    <3>1. o \in OtherSide(rows, m)
      BY <1>1, <2>1 DEF EditsOf, DeletesOf, Rests, Editing
    <3>2. rows \subseteq Row /\ RowsKnown(rows, lastRow, Posted)
      BY <1>0, InvFacts
    <3>3. PICK r \in rows : /\ r.id = o.row
                            /\ \/ r.src = m /\ r.dst = o.msg
                               \/ r.src # m /\ r.dst = m
      BY <3>1, <3>2, OtherSideFacts
    <3>4. RowsOwn
      BY RowEnds DEF OwnInv
    <3>5. r.src = Source(s)'.msg
      <4>1. HandlerSound(s)' /\ r \in rows'
        BY <1>1 DEF ReflInv, MapInv
      <4> QED
        BY <2>1, <3>3, <4>1 DEF HandlerSound
    <3>6. Source(s)'.msg = m
      BY <1>3 DEF Source
    <3>7. PICK n \in Posted : n = o.msg
      BY <1>0, <1>1, <3>3, <3>4, <3>5, <3>6 DEF RowsOwn
    <3>8. At(n).src = m
      BY <3>3, <3>4, <3>5, <3>6, <3>7 DEF RowsOwn
    <3> QED
      BY <1>2, <3>7, <3>8 DEF SrcKept
  <2>2. Source(s)'.msg = m
    BY <1>3 DEF Source
  <2> QED
    BY <2>1, <2>2 DEF EditsOwn
<1>8. ASSUME NEW r \in Side, r # s PROVE EditsOwn(r)'
  BY <1>1, <1>2, <1>3, <1>8, EditsKept DEF Others, FewerFound
<1> QED
  BY <1>2, <1>4, <1>6, <1>7, <1>8, OwnFrame

\* Handlers that rest own nothing.
LEMMA RestOwn ==
  ASSUME OwnInv, ReflInv', UNCHANGED <<posts, rows>>,
         \A r \in Side : \/ w'[r].pc = "idle" /\ Rests(w'[r])
                         \/ w'[r] = w[r] /\ job'[r] = job[r]
  PROVE  OwnInv'
<1>1. SrcKept /\ OneRow' /\ NewRows
  BY SrcSame, OneRowLess DEF OwnInv
<1>2. NewMade /\ NewFound
  BY DEF NewMade, NewFound, Rests, Range
<1>3. ASSUME NEW r \in Side PROVE EditsOwn(r)'
  <2>1. CASE w'[r].pc = "idle"
    BY <2>1 DEF EditsOwn, Editing
  <2>2. CASE w'[r] = w[r] /\ job'[r] = job[r]
    BY <1>1, <2>2, EditsKept DEF FewerFound
  <2> QED
    BY <2>1, <2>2
<1> QED
  BY <1>1, <1>2, <1>3, OwnFrame

LEMMA SendOwn ==
  ASSUME OwnInv, ReflInv', NEW s \in Side, Send(s)
  PROVE  OwnInv'
<1>0. BridgeInv
  BY DEF OwnInv, ReflInv, MapInv
<1>1. /\ Others(s) /\ w'[s].pc = w[s].pc /\ w'[s].found = w[s].found
      /\ UNCHANGED <<job, rows>>
  <2>1. PICK m : m = [chat |-> SendChat(s), id |-> Len(posts[SendChat(s)]) + 1]
    OBVIOUS
  <2> QED
    BY <1>0, <2>1, SendFacts DEF Send, dbVars
<1>2. PICK m \in Msg : m \notin Posted /\ ~ByUser(m)' /\ w'[s].made = Append(w[s].made, m)
  BY <1>0, AgedSend
<1>3. SrcKept /\ OneRow' /\ NewRows
  BY <1>0, <1>1, AgedSend, OneRowLess DEF Aged, OwnInv
<1>4. \A n \in Range(w'[s].made) : n = m \/ n \in Range(w[s].made)
  <2>1. w[s].made \in Seq(Msg)
    BY <1>0, InvFacts
  <2> QED
    BY <1>2, <2>1 DEF Range
<1>5. NewMade /\ NewFound
  BY <1>1, <1>2, <1>4 DEF NewMade, NewFound, Others
<1>6. \A r \in Side : EditsOwn(r)'
  BY <1>1, <1>3, EditsKept DEF Others, FewerFound
<1> QED
  BY <1>3, <1>5, <1>6, OwnFrame

\* Each message made gets a row.
LEMMA RecordOwn ==
  ASSUME OwnInv, ReflInv', NEW s \in Side, Record(s)
  PROVE  OwnInv' /\ NewRows
<1>0. BridgeInv
  BY DEF OwnInv, ReflInv, MapInv
<1>1. PICK made : made = w[s].made
  OBVIOUS
<1>2. /\ w[s].pc = "send" /\ NextPair(s) /\ UNCHANGED <<job, posts>>
      /\ rows' = AddRows(rows, lastRow, FirstPair(s), Source(s).msg, made)
  BY <1>1 DEF Record
<1>3. SrcKept
  BY <1>2, SrcSame
<1>4. Others(s) /\ w'[s].made = <<>> /\ w'[s].pc \notin Editing /\ FewerFound(s)
  BY <1>0, <1>2, NextPairFacts DEF SendsTo, Rests, Editing
<1>5. lastRow \in Nat /\ made \in Seq(Msg) /\ rows' \subseteq Row
      /\ RowsKnown(rows', lastRow', Posted')
  BY <1>0, <1>1, InvFacts DEF ReflInv, MapInv, BridgeInv, TypeOK
<1>6. \A x \in rows' : x \in rows \/ \E i \in DOMAIN made : x.dst = made[i] /\ x.id = lastRow + i
  BY <1>2, <1>5, AddedRows
<1>7. \A i \in DOMAIN made : /\ made[i] \in Range(w[s].made) /\ i \in Nat
                             /\ \A j \in DOMAIN made : made[i] = made[j] => i = j
  BY <1>1, <1>5 DEF OwnInv, ReflInv, Distinct, Range
<1>8. NewRows
  BY <1>4, <1>6, <1>7 DEF NewRows, Range
<1>9. OneRow'
  <2> SUFFICES ASSUME NEW x \in rows', NEW y \in rows', x.dst = y.dst PROVE x = y
    BY DEF OneRow
  <2>1. \A i \in DOMAIN made : \A r \in rows : r.dst # made[i]
    BY <1>7 DEF OwnInv, MadeOwn, Mapped
  <2>2. CASE x \in rows \/ y \in rows
    BY <1>6, <2>1, <2>2 DEF OwnInv, OneRow
  <2>3. CASE x \notin rows /\ y \notin rows
    <3>1. x.id = y.id
      BY <1>6, <1>7, <2>3
    <3> QED
      BY <1>5, <3>1 DEF RowsKnown
  <2> QED
    BY <2>2, <2>3
<1>10. \A m \in Range(w'[s].made) : FALSE
  BY <1>4 DEF Range
<1> QED
  BY <1>2, <1>3, <1>4, <1>8, <1>9, <1>10, OwnQuiet DEF FewerFound

\* The first message of a replacement gets the row of the old copy.
LEMMA ReplaceOwn ==
  ASSUME OwnInv, ReflInv', NEW s \in Side, Replace(s)
  PROVE  OwnInv' /\ NewRows
<1>0. BridgeInv
  BY DEF OwnInv, ReflInv, MapInv
<1>1. PICK m : m = [chat |-> Target(s).msg.chat, id |-> w[s].made[1].id]
  OBVIOUS
<1>2. /\ w[s].pc \in Editing /\ m = w[s].made[1] /\ 1 \in DOMAIN w[s].made
      /\ RowsKnown(rows', lastRow, Posted)
      /\ \A r \in rows' : \E r0 \in rows :
           /\ r.id = r0.id /\ r.dst = IF r0.id = Target(s).row THEN m ELSE r0.dst
  BY <1>0, <1>1, ReplaceTable
<1>3. NextEdit(s) /\ UNCHANGED <<job, posts>>
  BY DEF Replace
<1>4. SrcKept
  BY <1>3, SrcSame
<1>5. Others(s) /\ FewerFound(s) /\ w'[s].made = <<>>
  BY <1>0, <1>2, <1>3, NextEditFacts DEF EditsOf, Rests
<1>6. m \in Range(w[s].made) /\ ~Mapped(m)
  <2>1. m \in Range(w[s].made)
    BY <1>2 DEF Range
  <2> QED
    BY <2>1 DEF OwnInv, MadeOwn
<1>7. NewRows
  BY <1>2, <1>5, <1>6 DEF NewRows, Range
<1>8. OneRow'
  <2> SUFFICES ASSUME NEW x \in rows', NEW y \in rows', x.dst = y.dst PROVE x = y
    BY DEF OneRow
  <2>1. PICK x0 \in rows : x.id = x0.id /\ x.dst = IF x0.id = Target(s).row THEN m ELSE x0.dst
    BY <1>2
  <2>2. PICK y0 \in rows : y.id = y0.id /\ y.dst = IF y0.id = Target(s).row THEN m ELSE y0.dst
    BY <1>2
  <2>3. x0.dst # m /\ y0.dst # m
    BY <1>6 DEF Mapped
  <2>4. x.id = y.id
    BY <2>1, <2>2, <2>3 DEF OwnInv, OneRow
  <2> QED
    BY <1>2, <2>4 DEF RowsKnown
<1>9. \A n \in Range(w'[s].made) : FALSE
  BY <1>5 DEF Range
<1> QED
  BY <1>2, <1>3, <1>4, <1>5, <1>7, <1>8, <1>9, OwnQuiet DEF FewerFound

\* What a handler has found it found before, or finds for a deleted message.
LEMMA WayFound ==
  ASSUME BridgeInv, NEW s \in Side, Ways(s)
  PROVE  \A o \in w'[s].found : o \in w[s].found \/ \E m \in w[s].mids : o \in OtherSide(rows', m)
<1>1. CASE w[s].pc \notin Deleting
  BY <1>1, WayFacts DEF FewerFound
<1>2. CASE w[s].pc = "delete" /\ Goto(s, "deleted")
  <2>1. w[s].pc \in Deleting /\ "deleted" \in Deleting
    BY <1>2 DEF Deleting
  <2> QED
    BY <1>2, <2>1, GotoKnown
<1>3. CASE w[s].pc \in Deleting /\ \E ign \in SUBSET Msg : Unmap(s, ign)
  <2>1. DeletesOf(s, w'[s], w[s].found \ {Target(s)}, w[s].mids, rows')
    BY <1>3, UnmapFacts
  <2> QED
    BY <2>1 DEF DeletesOf, Rests
<1>4. CASE Breaks(s)
  BY <1>4, BreakFacts DEF FewerFound
<1> QED
  BY <1>1, <1>2, <1>3, <1>4 DEF Ways, Deleting, Editing

LEMMA MoveRows ==
  ASSUME NEW s \in Side, Moves(s)
  PROVE  Record(s) \/ Replace(s) \/ rows' \subseteq rows
  BY DEF Moves, SendFails, Fetched, Edited, EditFalls, Resent, Remove, RemoveFails, Removed,
         Delete, Vanish, Deleted, DeleteFalls, Unmap, Breaks, RemoveRow, dbVars

LEMMA MoveOwn ==
  ASSUME OwnInv, ReflInv', NEW s \in Side, Moves(s)
  PROVE  OwnInv' /\ NewRows
<1>1. CASE rows' \subseteq rows
  <2>1. BridgeInv
    BY DEF OwnInv, ReflInv, MapInv
  <2>2. Ways(s) /\ UNCHANGED job
    BY <2>1, MoveWays
  <2>3. SrcKept /\ OneRow' /\ NewRows
    BY <1>1, <2>1, MoveStream, OneRowLess DEF Aged, OwnInv
  <2>4. \A o \in w'[s].found : o \in w[s].found \/ \E m : o \in OtherSide(rows', m)
    BY <2>1, <2>2, WayFound
  <2>5. Others(s) /\ w'[s].made \in {<<>>, w[s].made}
        /\ (w'[s].pc \in Editing => w[s].pc \in Editing /\ FewerFound(s))
    BY <2>1, <2>2, WayFacts
  <2>6. \A m \in Range(w'[s].made) : m \in Range(w[s].made)
    BY <2>5 DEF Range
  <2> QED
    BY <2>2, <2>3, <2>4, <2>5, <2>6, OwnQuiet
<1> QED
  BY <1>1, MoveRows, RecordOwn, ReplaceOwn

LEMMA StepOwn == OwnInv /\ ReflInv' /\ [Next]_vars => OwnInv'
<1> SUFFICES ASSUME OwnInv, ReflInv', [Next]_vars PROVE OwnInv'
  OBVIOUS
<1>0. BridgeInv
  BY DEF OwnInv, ReflInv, MapInv
<1>1. CASE Outside
  <2>1. UNCHANGED <<job, w>> /\ rows' \subseteq rows /\ SrcKept
    BY <1>0, <1>1, OutsideFacts DEF Aged
  <2>2. OneRow' /\ NewRows
    BY <2>1, OneRowLess DEF OwnInv
  <2>3. \A s \in Side : OwnInv'
    BY <2>1, <2>2, OwnQuiet DEF Others, FewerFound
  <2> QED
    BY <2>3 DEF Side
<1>2. ASSUME NEW s \in Side, Intake(s) PROVE OwnInv'
  <2>1. UNCHANGED <<posts, rows, w, job>>
    BY <1>0, <1>2, IntakeFacts DEF Intake, dbVars
  <2> QED
    BY <2>1, RestOwn
<1>3. CASE Crash
  BY <1>3, CrashFacts, RestOwn
<1>4. ASSUME NEW s \in Side, Return(s) PROVE OwnInv'
  BY <1>0, <1>4, ReturnFacts, RestOwn DEF Others
<1> QED
  BY <1>1, <1>2, <1>3, <1>4, StepKinds, SendOwn, StartOwn, MoveOwn

LEMMA InitOwn == Init => OwnInv
<1> SUFFICES ASSUME Init PROVE OwnInv
  OBVIOUS
<1>1. ReflInv /\ rows = {}
  BY InitRefl DEF Init
<1>2. \A s \in Side : w[s] = Stopped("idle")
  BY DEF Init
<1>3. \A s \in Side : Rests(w[s]) /\ w[s].pc = "idle"
  BY <1>2, StoppedRests
<1> QED
  BY <1>1, <1>3 DEF OwnInv, OneRow, MadeOwn, FoundOwn, EditsOwn, Rests, Range, Editing

-----------------------------------------------------------------------------
(* Whose deletions are obeyed *)

\* A user deleted a copy of m.
Cause(m) == \E n \in Posted : At(n).src = m /\ At(n).st = "deleted"

\* The handler of Telegram's queue has just had m deleted.
Removing(m) == w["tg"].pc \in {"removed", "deleted"} /\ Target("tg").msg = m

\* The report that the bridge has removed m, while the map still shows m, is one
\* that will be dropped.
Swallowed(m) ==
  (/\ At(m).st = "removed" /\ Mapped(m)
   /\ Occurs(stream[SideOf(m.chat)], Deletions(m))) =>
     m \in ignore /\ (SideOf(m.chat) = "bale" => Removing(m))

\* What the bridge removed is in no row.
Unshown(m) == At(m).st = "removed" => ~Mapped(m)
UserJobs == { j \in Job : j.kind = "delete" => \A m \in j.ids : Unshown(m) }

\* The handler of s is going to have its target deleted, and this will be reported.
Aiming(s) ==
  \/ w[s].pc = "remove"
  \/ w[s].pc = "resend" /\ s = "tg"
  \/ w[s].pc = "delete" /\ (s = "bale" \/ HasDeleteEvents)
Marked(s) == Aiming(s) /\ Live(Target(s).msg) => Target(s).msg \in ignore

\* What a deletion works on: originals a copy of which a user deleted, and copies
\* of what is gone.
Doomed(s) ==
  w[s].pc \in Deleting =>
    \A o \in w[s].found : IF ByUser(o.msg) THEN Cause(o.msg) ELSE ~Live(At(o.msg).src)

Kept(s) == \A m \in Range(w[s].made) : At(m).st # "removed"

RemoveInv ==
  /\ OnceInv /\ OwnInv
  /\ \A m \in Posted : Swallowed(m)
  /\ \A s \in Side : /\ q[s] \in Seq(UserJobs) /\ job[s] \in UserJobs \cup {NoJob}
                     /\ \A m \in w[s].mids : Unshown(m)
                     /\ Marked(s) /\ Doomed(s) /\ Kept(s)
  /\ JustifiedRemoval

LEMMA RemoveKnown ==
  ASSUME RemoveInv
  PROVE  OnceInv /\ OwnInv /\ ReflInv /\ MapInv /\ BridgeInv /\ RowsOwn
  BY RowEnds DEF RemoveInv, OwnInv, ReflInv, MapInv

\* A step removes only what a handler has found, and an original only for a cause.
Cautious ==
  \A m \in Posted : At(m)'.st = "removed" =>
    \/ At(m).st = "removed"
    \/ (\E s \in Side : \E o \in w[s].found : o.msg = m) /\ (ByUser(m) => Cause(m))

LEMMA Consequences ==
  ASSUME RemoveInv, BridgeInv', Aged, NewMade, NewRows, Cautious
  PROVE  /\ \A m \in Posted : Cause(m) => Cause(m)'
         /\ \A m \in Posted : At(m).st = "removed" /\ Mapped(m)' => Mapped(m)
         /\ \A m \in Posted : ~Live(m) /\ Unshown(m) => Unshown(m)'
         /\ GoneJobs \cap UserJobs \subseteq UserJobs'
         /\ \A r \in Side : Kept(r)'
         /\ JustifiedRemoval'
<1>0. BridgeInv
  BY RemoveKnown
<1>1. ASSUME NEW m \in Posted, Cause(m) PROVE Cause(m)'
  <2>1. PICK n \in Posted : At(n).src = m /\ At(n).st = "deleted"
    BY <1>1 DEF Cause
  <2>2. n \in Posted' /\ At(n)'.src = m /\ At(n)'.st = "deleted"
    BY <2>1 DEF Aged, SrcKept, Live
  <2> QED
    BY <2>2 DEF Cause
<1>2. ASSUME NEW m \in Posted, At(m).st = "removed", Mapped(m)' PROVE Mapped(m)
  <2>1. PICK x \in rows' : x.dst = m
    BY <1>2 DEF Mapped
  <2>2. \A r \in Side : m \notin Range(w[r].made)
    BY <1>2 DEF RemoveInv, Kept
  <2> QED
    BY <2>1, <2>2 DEF NewRows, Mapped
<1>3. ASSUME NEW m \in Posted, ~Live(m), Unshown(m) PROVE Unshown(m)'
  BY <1>2, <1>3 DEF Unshown, Aged
<1>4. GoneJobs \cap UserJobs \subseteq UserJobs'
  BY <1>3 DEF GoneJobs, UserJobs
<1>5. ASSUME NEW r \in Side, NEW m \in Range(w'[r].made) PROVE At(m)'.st # "removed"
  <2>1. CASE m \in Range(w[r].made)
    <3>1. m \in Posted /\ At(m).st # "removed"
      BY <1>0, <2>1, MadeSides DEF RemoveInv, Kept
    <3>2. \A s \in Side : \A o \in w[s].found : o.msg # m
      BY <2>1 DEF RemoveInv, OwnInv, MadeOwn
    <3> QED
      BY <3>1, <3>2 DEF Cautious
  <2>2. CASE m \notin Posted
    <3>1. \A s \in Side : \A n \in Range(w'[s].made) : n \in Posted'
      BY DEF BridgeInv, HandlerKnown, Range
    <3> QED
      BY <2>2, <3>1 DEF Aged, Live
  <2> QED
    BY <1>5, <2>1, <2>2 DEF NewMade
<1>6. ASSUME NEW m \in Posted', ByUser(m)', At(m)'.st = "removed" PROVE Cause(m)'
  <2>1. m \in Posted /\ ByUser(m)
    BY <1>6 DEF Aged, SrcKept, Live, ByUser
  <2>2. Cause(m)
    BY <1>6, <2>1 DEF Cautious, RemoveInv, JustifiedRemoval, Cause
  <2> QED
    BY <1>1, <2>1, <2>2
<1>7. JustifiedRemoval'
  BY <1>6 DEF JustifiedRemoval, Cause
<1>8. \A r \in Side : Kept(r)'
  BY <1>5 DEF Kept
<1> QED
  BY <1>1, <1>2, <1>3, <1>4, <1>7, <1>8

LEMMA DoomedStays ==
  ASSUME RemoveInv, BridgeInv', Aged, NewMade, NewRows, Cautious, NEW r \in Side,
         w'[r].pc \in Deleting => w[r].pc \in Deleting /\ FewerFound(r)
  PROVE  Doomed(r)'
<1>1. ASSUME w'[r].pc \in Deleting, NEW o \in w'[r].found
      PROVE  IF ByUser(o.msg)' THEN Cause(o.msg)' ELSE ~Live(At(o.msg).src)'
  <2>1. o \in w[r].found /\ w[r].pc \in Deleting
    BY <1>1 DEF FewerFound
  <2>2. PICK m \in Posted : m = o.msg
    BY <2>1, RemoveKnown, FoundPosted
  <2>3. IF ByUser(m) THEN Cause(m) ELSE ~Live(At(m).src)
    BY <2>1, <2>2 DEF RemoveInv, Doomed
  <2>4. ByUser(m)' = ByUser(m) /\ At(m)'.src = At(m).src
    BY DEF Aged, SrcKept, ByUser
  <2>5. CASE ByUser(m)
    <3>1. Cause(m)' /\ ByUser(m)'
      BY <2>3, <2>4, <2>5, Consequences
    <3> QED
      BY <2>2, <3>1
  <2>6. CASE ~ByUser(m)
    <3>1. PICK u \in Posted : u = At(m).src
      BY <2>6, RemoveKnown DEF ReflInv, CopyOfUser
    <3>2. ~Live(u)' /\ At(m)'.src = u
      BY <2>3, <2>4, <2>6, <3>1, GoneStays
    <3> QED
      BY <2>2, <2>4, <2>6, <3>2
  <2> QED
    BY <2>5, <2>6
<1> QED
  BY <1>1 DEF Doomed

\* A handler that does nothing; the mark of its target is not taken from it.
LEMMA MarkStays ==
  ASSUME RemoveInv, Aged, NEW r \in Side, w'[r].pc = w[r].pc, w'[r].found = w[r].found,
         \A m \in ignore : m \in ignore' \/ ~Live(m) \/ SideOf(m.chat) # Other(r)
  PROVE  Marked(r)'
<1>1. Aiming(r)' = Aiming(r)
  BY DEF Aiming, HasDeleteEvents
<1>2. PICK m : m = Target(r).msg
  OBVIOUS
<1>3. Target(r)'.msg = m
  BY <1>2 DEF Target
<1>4. ASSUME Aiming(r), Live(m)' PROVE m \in ignore'
  <2>1. w[r].pc \in Editing \cup Deleting
    BY <1>4 DEF Aiming, Editing, Deleting
  <2>2. m \in Posted /\ SideOf(m.chat) = Other(r)
    BY <1>2, <2>1, RemoveKnown, TargetFacts
  <2>3. Live(m)
    BY <1>4, <2>2, GoneStays
  <2> QED
    BY <1>2, <1>4, <2>2, <2>3 DEF RemoveInv, Marked
<1>5. Live(Target(r).msg)' => Live(m)'
  BY <1>3 DEF Live, At
<1> QED
  BY <1>1, <1>3, <1>4, <1>5 DEF Marked

\* No report of m comes in.
LEMMA SwallowedStays ==
  ASSUME RemoveInv, BridgeInv', Aged, NewMade, NewRows, Cautious, NEW m \in Posted',
         Occurs(stream'[SideOf(m.chat)], Deletions(m)) =>
           Occurs(stream[SideOf(m.chat)], Deletions(m)),
         /\ m \in ignore /\ Mapped(m)' /\ (SideOf(m.chat) = "bale" => Removing(m))
         => m \in ignore' /\ (SideOf(m.chat) = "bale" => Removing(m)')
  PROVE  Swallowed(m)'
<1> SUFFICES ASSUME At(m)'.st = "removed", Mapped(m)',
                    Occurs(stream'[SideOf(m.chat)], Deletions(m))
             PROVE  m \in ignore' /\ (SideOf(m.chat) = "bale" => Removing(m)')
  BY DEF Swallowed
<1>1. m \in Posted
  BY DEF Aged, Live
<1>2. ~Live(m)
  BY <1>1 DEF RemoveInv, OnceInv, Heard
<1>3. At(m).st = "removed"
  BY <1>1, <1>2 DEF Aged
<1>4. Mapped(m)
  BY <1>1, <1>3, Consequences
<1> QED
  BY <1>1, <1>3, <1>4 DEF RemoveInv, Swallowed

\* A report about another message.
LEMMA OthersReported ==
  ASSUME BridgeInv, NEW n \in Posted, Reported(n), NEW m, m # n, NEW r \in Side
  PROVE  Occurs(stream'[r], Deletions(m)) => Occurs(stream[r], Deletions(m))
<1>1. PICK s \in Side : s = SideOf(n.chat)
  BY SideOfType
<1>2. PICK e : e = DeleteEvent(n)
  OBVIOUS
<1>3. e \in Job /\ e \notin Deletions(m)
  <2>1. n \in Msg
    BY InvFacts
  <2> QED
    BY <1>2, <2>1 DEF DeleteEvent, Deletions, Job, DeleteJob
<1>4. stream \in [Side -> Seq(Job)]
  BY InvFacts DEF QueueTypeOK
<1>5. stream'[r] = IF r = s THEN Append(stream[s], e) ELSE stream[r]
  BY <1>1, <1>2, <1>4 DEF Reported, Emit
<1> QED
  BY <1>3, <1>4, <1>5, AppendOnce

\* A step that takes nothing from the queues.
LEMMA RemoveFrame ==
  ASSUME RemoveInv, OnceInv', OwnInv', Aged, NewMade, NewRows, Cautious,
         UNCHANGED <<q, job>>, NEW s \in Side, Others(s), w'[s].mids \subseteq w[s].mids,
         \A m \in Posted' : Swallowed(m)', Marked(s)', Doomed(s)',
         \A m \in ignore : m \in ignore' \/ ~Live(m) \/ SideOf(m.chat) # s
  PROVE  RemoveInv'
<1>1. BridgeInv /\ BridgeInv'
  BY RemoveKnown DEF OnceInv
<1>2. /\ \A m \in Posted : ~Live(m) /\ Unshown(m) => Unshown(m)'
      /\ GoneJobs \cap UserJobs \subseteq UserJobs'
      /\ \A r \in Side : Kept(r)'
      /\ JustifiedRemoval'
  BY <1>1, Consequences
<1>3. ASSUME NEW r \in Side
      PROVE  /\ q'[r] \in Seq(UserJobs') /\ job'[r] \in UserJobs' \cup {NoJob}
             /\ \A m \in w'[r].mids : Unshown(m)'
  <2>1. /\ q[r] \in Seq(GoneJobs) /\ q[r] \in Seq(UserJobs)
        /\ job[r] \in GoneJobs \cup {NoJob} /\ job[r] \in UserJobs \cup {NoJob}
        /\ \A m \in w[r].mids : m \in Posted /\ ~Live(m) /\ Unshown(m)
    BY <1>1 DEF RemoveInv, OnceInv, BridgeInv, HandlerKnown
  <2>2. q[r] \in Seq(GoneJobs \cap UserJobs)
    BY <2>1
  <2>3. q[r] \in Seq(UserJobs')
    BY <1>2, <2>2, SeqOfMore
  <2>4. w'[r].mids \subseteq w[r].mids
    BY DEF Others
  <2> QED
    BY <1>2, <2>1, <2>3, <2>4
<1>4. ASSUME NEW r \in Side PROVE Marked(r)' /\ Doomed(r)'
  <2>1. CASE r = s
    BY <2>1
  <2>2. CASE r # s
    <3>1. w'[r] = w[r] /\ Other(r) = s
      BY <2>2, SideFacts DEF Others
    <3>2. Marked(r)'
      BY <3>1, MarkStays
    <3>3. Doomed(r)'
      BY <1>1, <3>1, DoomedStays DEF FewerFound
    <3> QED
      BY <3>2, <3>3
  <2> QED
    BY <2>1, <2>2
<1> QED
  BY <1>2, <1>3, <1>4 DEF RemoveInv

-----------------------------------------------------------------------------
(* The steps *)

\* What a step that changes no post keeps.
LEMMA StillPosts ==
  ASSUME RemoveInv, UNCHANGED posts
  PROVE  /\ Aged /\ Cautious /\ Posted' = Posted
         /\ \A m \in Posted : At(m)' = At(m)
  BY AgedSame, SamePosts DEF Cautious, At

LEMMA SameOwners ==
  ASSUME UNCHANGED w, rows' \subseteq rows
  PROVE  NewMade /\ NewRows
  BY DEF NewMade, NewRows

LEMMA OutsideRemove ==
  ASSUME RemoveInv, OnceInv', OwnInv', Outside
  PROVE  RemoveInv'
<1>0. BridgeInv /\ BridgeInv'
  BY RemoveKnown DEF OnceInv
<1>1. /\ UNCHANGED <<q, job, w, ignore>> /\ rows' \subseteq rows /\ Aged
      /\ \/ Silent
         \/ Posted' = Posted /\ \E n \in Posted : Reported(n) /\ At(n)'.st = "deleted"
      /\ \A n \in Posted : At(n)'.st \in {At(n).st, "deleted"}
  BY <1>0, OutsideFacts
<1>2. NewMade /\ NewRows /\ Cautious
  BY <1>1, SameOwners DEF Cautious
<1>3. ASSUME NEW m \in Posted' PROVE Swallowed(m)'
  <2>1. Removing(m)' = Removing(m)
    BY <1>1 DEF Removing, Target
  <2>2. CASE Silent
    <3>1. Occurs(stream'[SideOf(m.chat)], Deletions(m)) =>
            Occurs(stream[SideOf(m.chat)], Deletions(m))
      BY <2>2, SideOfType DEF Silent
    <3> QED
      BY <1>0, <1>1, <1>2, <2>1, <3>1, SwallowedStays
  <2>3. ASSUME NEW n \in Posted, Reported(n), At(n)'.st = "deleted"
        PROVE  Swallowed(m)'
    <3>1. CASE m = n
      BY <2>3, <3>1 DEF Swallowed
    <3>2. CASE m # n
      <4>1. Occurs(stream'[SideOf(m.chat)], Deletions(m)) =>
              Occurs(stream[SideOf(m.chat)], Deletions(m))
        BY <1>0, <2>3, <3>2, SideOfType, OthersReported
      <4> QED
        BY <1>0, <1>1, <1>2, <2>1, <4>1, SwallowedStays
    <3> QED
      BY <3>1, <3>2
  <2> QED
    BY <1>1, <2>2, <2>3
<1>4. ASSUME NEW s \in Side PROVE RemoveInv'
  <2>1. Marked(s)' /\ Doomed(s)'
    BY <1>0, <1>1, <1>2, MarkStays, DoomedStays DEF FewerFound
  <2>2. Others(s) /\ w'[s].mids \subseteq w[s].mids /\ \A m \in ignore : m \in ignore'
    BY <1>1 DEF Others
  <2> QED
    BY <1>1, <1>2, <1>3, <2>1, <2>2, RemoveFrame
<1> QED
  BY <1>4 DEF Side

\* Steps that change no posts and no rows, but the queues.
LEMMA QueueFrame ==
  ASSUME RemoveInv, OnceInv', OwnInv', UNCHANGED <<posts, rows>>, NewMade,
         \A m \in Posted : Swallowed(m)',
         \A r \in Side : /\ q'[r] \in Seq(UserJobs) /\ job'[r] \in UserJobs \cup {NoJob}
                         /\ \A m \in w'[r].mids : Unshown(m)
                         /\ Marked(r)' /\ Doomed(r)'
  PROVE  RemoveInv'
<1>1. BridgeInv /\ BridgeInv'
  BY RemoveKnown DEF OnceInv
<1>2. /\ Aged /\ Cautious /\ Posted' = Posted
      /\ NewRows
  BY StillPosts DEF NewRows
<1>3. (\A r \in Side : Kept(r)') /\ JustifiedRemoval'
  BY <1>1, <1>2, Consequences
<1>4. \A m : Unshown(m)' = Unshown(m)
  BY DEF Unshown, Mapped, At
<1>5. UserJobs' = UserJobs
  BY <1>4 DEF UserJobs
<1> QED
  BY <1>2, <1>3, <1>4, <1>5 DEF RemoveInv

LEMMA IntakeRemove ==
  ASSUME RemoveInv, OnceInv', OwnInv', NEW s \in Side, Intake(s)
  PROVE  RemoveInv'
<1> DEFINE e == Head(stream[s])
           d == [kind |-> "delete", ids |-> e.ids \ ignore]
<1>0. BridgeInv /\ BridgeInv'
  BY RemoveKnown DEF OnceInv
<1>1. UNCHANGED <<posts, rows, w>>
  BY DEF Intake, dbVars
<1>2. /\ stream[s] # <<>> /\ e \in HomeJob(s, Posted) /\ e \in Job
      /\ stream' = [stream EXCEPT ![s] = Tail(@)] /\ UNCHANGED job
      /\ \/ e.kind # "delete" /\ UNCHANGED ignore
         \/ e.kind = "delete" /\ ignore' = ignore \ e.ids
      /\ \/ UNCHANGED q
         \/ e.kind # "delete" /\ Put(s, e)
         \/ e.kind = "delete" /\ Put(s, d)
  <2>1. OnNew(s) \/ OnEdit(s) \/ OnDelete(s)
    BY DEF Intake
  <2> QED
    BY <1>0, <2>1, IntakeFacts DEF HomeJob
<1>3. Silent /\ Aged /\ Cautious /\ NewMade /\ NewRows /\ Posted' = Posted
  BY <1>0, <1>1, <1>2, InvFacts, SilentPop, StillPosts, SameOwners
<1>4. ASSUME NEW m, e.kind = "delete", m \in e.ids
      PROVE  /\ m \in Posted /\ SideOf(m.chat) = s /\ ~Live(m)
             /\ Occurs(stream[s], Deletions(m)) /\ ~Occurs(stream'[s], Deletions(m))
  <2>1. m \in Posted /\ SideOf(m.chat) = s
    BY <1>2, <1>4 DEF HomeJob, About
  <2>2. e \in Deletions(m) /\ stream[s] \in Seq(Job)
    BY <1>0, <1>2, <1>4, InvFacts DEF Deletions, QueueTypeOK
  <2>3. AtMostOnce(stream[s], Deletions(m)) /\ (Live(m) => ~Occurs(stream[s], Deletions(m)))
    BY <2>1 DEF RemoveInv, OnceInv, Heard
  <2>4. Occurs(stream[s], Deletions(m)) /\ ~Occurs(Tail(stream[s]), Deletions(m))
    BY <1>2, <2>2, <2>3, TailOnce
  <2>5. stream'[s] = Tail(stream[s])
    BY <1>0, <1>2, InvFacts DEF QueueTypeOK
  <2> QED
    BY <2>1, <2>3, <2>4, <2>5
<1>5. \A m \in ignore : m \in ignore' \/ (e.kind = "delete" /\ m \in e.ids)
  BY <1>2
<1>6. ASSUME NEW m \in Posted PROVE Swallowed(m)'
  <2>1. Removing(m)' = Removing(m)
    BY <1>1 DEF Removing, Target
  <2>2. Occurs(stream'[SideOf(m.chat)], Deletions(m)) =>
          Occurs(stream[SideOf(m.chat)], Deletions(m))
    BY <1>3, SideOfType DEF Silent
  <2>3. CASE e.kind = "delete" /\ m \in e.ids
    BY <1>4, <2>3 DEF Swallowed
  <2>4. CASE ~(e.kind = "delete" /\ m \in e.ids)
    <3>1. m \in ignore => m \in ignore'
      BY <1>5, <2>4
    <3> QED
      BY <1>0, <1>3, <2>1, <2>2, <3>1, SwallowedStays
  <2> QED
    BY <2>3, <2>4
<1>7. e.kind # "delete" => e \in UserJobs
  BY <1>2 DEF UserJobs
<1>8. ASSUME e.kind = "delete" PROVE d \in UserJobs
  <2>1. ASSUME NEW m \in e.ids, m \notin ignore PROVE Unshown(m)
    <3>1. m \in Posted /\ SideOf(m.chat) = s /\ Occurs(stream[s], Deletions(m))
      BY <1>4, <1>8, <2>1
    <3> QED
      BY <2>1, <3>1 DEF RemoveInv, Swallowed, Unshown
  <2>2. d \in Job
    <3>1. e.kind = "delete" => d \in HomeJob(s, Posted)
      BY <1>2, FewerIds
    <3> QED
      BY <1>8, <3>1 DEF HomeJob
  <2> QED
    BY <2>1, <2>2 DEF UserJobs
<1>9. ASSUME NEW j \in UserJobs, Put(s, j) PROVE \A r \in Side : q'[r] \in Seq(UserJobs)
  <2>1. q \in [Side -> Seq(Job)] /\ \A r \in Side : q[r] \in Seq(UserJobs)
    BY <1>0, InvFacts DEF QueueTypeOK, RemoveInv
  <2>2. \A r \in Side : q'[r] = IF r = s THEN Append(q[s], j) ELSE q[r]
    BY <1>9, <2>1 DEF Put
  <2>3. Append(q[s], j) \in Seq(UserJobs)
    BY <2>1
  <2> QED
    BY <2>1, <2>2, <2>3
<1>10. \A r \in Side : q'[r] \in Seq(UserJobs)
  BY <1>2, <1>7, <1>8, <1>9 DEF RemoveInv
<1>11. ASSUME NEW r \in Side PROVE Marked(r)' /\ Doomed(r)'
  <2>1. \A m \in ignore : m \in ignore' \/ ~Live(m)
    BY <1>4, <1>5
  <2>2. Marked(r)'
    BY <1>1, <1>3, <2>1, MarkStays
  <2>3. Doomed(r)'
    BY <1>0, <1>1, <1>3, DoomedStays DEF FewerFound
  <2> QED
    BY <2>2, <2>3
<1>12. \A r \in Side : job'[r] \in UserJobs \cup {NoJob} /\ \A m \in w'[r].mids : Unshown(m)
  BY <1>1, <1>2 DEF RemoveInv
<1> QED
  BY <1>1, <1>3, <1>6, <1>10, <1>11, <1>12, QueueFrame

LEMMA CrashRemove ==
  ASSUME RemoveInv, OnceInv', OwnInv', Crash
  PROVE  RemoveInv'
<1>1. /\ UNCHANGED <<posts, rows>>
      /\ \A s \in Side : /\ Rests(w'[s]) /\ w'[s].pc = "idle"
                         /\ q'[s] = <<>> /\ job'[s] = NoJob
                         /\ stream'[s] = IF s = "bale" /\ BaleMode = "bot"
                                           THEN stream[s] ELSE <<>>
  BY CrashFacts
<1>2. NewMade /\ \A r \in Side : w'[r].mids = {}
  BY <1>1 DEF NewMade, Rests, Range
<1>3. ASSUME NEW m \in Posted PROVE Swallowed(m)'
  <2>1. PICK s \in Side : s = SideOf(m.chat)
    BY SideOfType
  <2>2. stream'[s] = <<>> \/ stream'[s] \in Seq(Content)
    BY <1>1 DEF RemoveInv, OnceInv
  <2>3. CASE stream'[s] = <<>>
    BY <2>1, <2>3 DEF Swallowed, Occurs
  <2>4. CASE stream'[s] \in Seq(Content)
    <3>1. \A i \in DOMAIN stream'[s] : stream'[s][i] \in Content
      BY <2>4, ElementOfSeq, LenProperties
    <3>2. ~Occurs(stream'[s], Deletions(m))
      BY <3>1 DEF Occurs, Deletions, Content
    <3> QED
      BY <2>1, <3>2 DEF Swallowed
  <2> QED
    BY <2>2, <2>3, <2>4
<1>4. \A r \in Side : /\ q'[r] \in Seq(UserJobs) /\ job'[r] \in UserJobs \cup {NoJob}
                      /\ Marked(r)' /\ Doomed(r)'
  BY <1>1, NothingIn DEF Marked, Aiming, Doomed, Deleting
<1> QED
  BY <1>1, <1>2, <1>3, <1>4, QueueFrame

\* A handler that takes a job or returns from one was not deleting.
LEMMA Between ==
  ASSUME BridgeInv, NEW s \in Side, Take(s) \/ Return(s)
  PROVE  w[s].pc \notin Editing \cup Deleting
<1>1. job[s] = NoJob \/ w[s].pc = "done"
  BY DEF Take, Dequeue, Return
<1> QED
  BY <1>1 DEF BridgeInv, HandlerKnown, NoJob, Editing, Deleting

\* Nobody else is removing.
LEMMA RemovingStays ==
  ASSUME NEW s \in Side, Others(s), s = "tg" => w[s].pc \notin {"removed", "deleted"}, NEW m
  PROVE  Removing(m) => Removing(m)'
<1>1. "tg" \in Side
  BY DEF Side
<1>2. CASE s = "tg"
  BY <1>2 DEF Removing
<1>3. CASE s # "tg"
  <2>1. w'["tg"] = w["tg"]
    BY <1>1, <1>3 DEF Others
  <2> QED
    BY <2>1 DEF Removing, Target
<1> QED
  BY <1>2, <1>3

\* Deletions of what is gone, and in no row, only reach what may go.
LEMMA DoomedNew ==
  ASSUME RemoveInv, NEW m \in Posted, ~Live(m), Unshown(m), NEW o, NEW r \in rows,
         \/ r.src = m /\ r.dst = o.msg
         \/ r.src # m /\ r.dst = m /\ r.src = o.msg
  PROVE  /\ o.msg \in Posted
         /\ IF ByUser(o.msg) THEN Cause(o.msg) ELSE ~Live(At(o.msg).src)
<1>1. RowsOwn /\ BridgeInv
  BY RemoveKnown
<1>2. CASE r.src = m /\ r.dst = o.msg
  BY <1>1, <1>2 DEF RowsOwn
<1>3. CASE r.dst = m /\ r.src = o.msg
  <2>1. At(m).st # "removed"
    BY <1>3 DEF Unshown, Mapped
  <2>2. At(m).st \in {"live", "deleted", "removed"}
    BY <1>1, InvFacts, PostedFacts
  <2>3. At(m).st = "deleted" /\ At(m).src = o.msg
    BY <1>1, <1>3, <2>1, <2>2 DEF RowsOwn, Live
  <2> QED
    BY <1>1, <1>3, <2>3 DEF RowsOwn, Cause
<1> QED
  BY <1>2, <1>3

\* The same for what a query returns.
LEMMA DoomedQuery ==
  ASSUME RemoveInv, NEW table, table \subseteq rows, NEW m \in Posted, ~Live(m), Unshown(m),
         NEW o \in OtherSide(table, m)
  PROVE  /\ o.msg \in Posted
         /\ IF ByUser(o.msg) THEN Cause(o.msg) ELSE ~Live(At(o.msg).src)
<1>1. rows \subseteq Row /\ RowsKnown(rows, lastRow, Posted)
  BY RemoveKnown, InvFacts
<1>2. table \subseteq Row /\ RowsKnown(table, lastRow, Posted)
  BY <1>1, FewerRows
<1>3. PICK r \in table : \/ r.src = m /\ r.dst = o.msg
                         \/ r.src # m /\ r.dst = m /\ r.src = o.msg
  BY <1>2, OtherSideFacts
<1>4. r \in rows
  BY <1>3
<1> QED
  BY <1>3, <1>4, DoomedNew

LEMMA StartRemove ==
  ASSUME RemoveInv, OnceInv', OwnInv', NEW s \in Side,
         StartNew(s) \/ StartEdit(s) \/ StartDelete(s)
  PROVE  RemoveInv'
<1>0. BridgeInv /\ BridgeInv'
  BY RemoveKnown DEF OnceInv
<1>1. /\ Take(s) /\ UNCHANGED <<posts, rows, stream>> /\ Others(s) /\ w'[s].made = <<>>
      /\ \/ /\ w'[s].pc \in {"send", "done"} /\ w'[s].found = {} /\ w'[s].mids = {}
            /\ UNCHANGED ignore
         \/ /\ UNCHANGED ignore
            /\ EditsOf(s, w'[s], OtherSide(rows, Head(q[s]).items[1].msg))
         \/ /\ Head(q[s]).kind = "delete" /\ Marks(s, w'[s], ignore)
            /\ DeletesOf(s, w'[s], {}, Head(q[s]).ids, rows)
  BY <1>0, StartFacts
<1>2. /\ q[s] # <<>> /\ q' = [q EXCEPT ![s] = Tail(@)]
      /\ job'[s] = Head(q[s]) /\ \A r \in Side : r # s => job'[r] = job[r]
  BY <1>0, <1>1, TakeFacts
<1>3. Aged /\ Cautious /\ Posted' = Posted /\ NewRows /\ Silent /\ \A m \in Posted : At(m)' = At(m)
  BY <1>1, StillPosts, SilentSame DEF NewRows
<1>4. NewMade
  BY <1>1 DEF NewMade, Others, Range
<1>5. ignore \subseteq ignore'
  BY <1>1 DEF Marks
<1>6. ASSUME NEW m \in Posted PROVE Swallowed(m)'
  <2>1. Removing(m) => Removing(m)'
    BY <1>0, <1>1, Between, RemovingStays DEF Editing, Deleting
  <2>2. Occurs(stream'[SideOf(m.chat)], Deletions(m)) =>
          Occurs(stream[SideOf(m.chat)], Deletions(m))
    BY <1>1
  <2> QED
    BY <1>0, <1>3, <1>4, <1>5, <2>1, <2>2, SwallowedStays
<1>7. q[s] \in Seq(UserJobs) /\ q[s] \in Seq(GoneJobs) /\ q \in [Side -> Seq(Job)]
  BY <1>0, InvFacts DEF RemoveInv, OnceInv, QueueTypeOK
<1>8. Head(q[s]) \in UserJobs /\ Head(q[s]) \in GoneJobs /\ Tail(q[s]) \in Seq(UserJobs)
  BY <1>2, <1>7, HeadTailProperties
<1>9. ASSUME NEW o \in w'[s].found, w'[s].pc \in Deleting
      PROVE  IF ByUser(o.msg)' THEN Cause(o.msg)' ELSE ~Live(At(o.msg).src)'
  <2>1. PICK m \in Head(q[s]).ids : Head(q[s]).kind = "delete" /\ o \in OtherSide(rows, m)
    BY <1>1, <1>9 DEF DeletesOf, EditsOf, Rests, Deleting
  <2>2. m \in Posted /\ ~Live(m) /\ Unshown(m)
    BY <1>8, <2>1 DEF UserJobs, GoneJobs
  <2>3. o.msg \in Posted /\ IF ByUser(o.msg) THEN Cause(o.msg) ELSE ~Live(At(o.msg).src)
    BY <2>1, <2>2, DoomedQuery
  <2>4. ByUser(o.msg)' = ByUser(o.msg) /\ At(o.msg)' = At(o.msg) /\ \A n : Live(n)' = Live(n)
    BY <1>1 DEF ByUser, At, Live
  <2>5. Cause(o.msg)' = Cause(o.msg)
    BY <1>1, <1>3 DEF Cause, At
  <2> QED
    BY <2>3, <2>4, <2>5
<1>10. Marked(s)'
  <2>1. CASE w'[s].pc = "delete"
    BY <1>1, <2>1 DEF Marked, Aiming, Marks, EditsOf, Rests, Target, HasDeleteEvents
  <2>2. CASE w'[s].pc # "delete"
    <3>1. w'[s].pc \in {"send", "done", "edit", "fetch"}
      BY <1>1, <2>2 DEF EditsOf, DeletesOf
    <3> QED
      BY <3>1 DEF Marked, Aiming
  <2> QED
    BY <2>1, <2>2
<1>11. \A m \in w'[s].mids : Unshown(m)
  <2>1. \A m \in w'[s].mids : Head(q[s]).kind = "delete" /\ m \in Head(q[s]).ids
    BY <1>1 DEF EditsOf, DeletesOf, Rests
  <2> QED
    BY <1>8, <2>1 DEF UserJobs
<1>12. ASSUME NEW r \in Side
       PROVE  /\ q'[r] \in Seq(UserJobs) /\ job'[r] \in UserJobs \cup {NoJob}
              /\ \A m \in w'[r].mids : Unshown(m)
              /\ Marked(r)' /\ Doomed(r)'
  <2>1. q'[r] \in Seq(UserJobs) /\ job'[r] \in UserJobs \cup {NoJob}
    BY <1>2, <1>7, <1>8 DEF RemoveInv
  <2>2. CASE r = s
    BY <1>9, <1>10, <1>11, <2>1, <2>2 DEF Doomed
  <2>3. CASE r # s
    <3>1. w'[r] = w[r]
      BY <1>1, <2>3 DEF Others
    <3>2. Marked(r)' /\ Doomed(r)'
      BY <1>0, <1>3, <1>4, <1>5, <3>1, MarkStays, DoomedStays DEF FewerFound
    <3> QED
      BY <2>1, <3>1, <3>2 DEF RemoveInv
  <2> QED
    BY <2>2, <2>3
<1> QED
  BY <1>1, <1>4, <1>6, <1>12, QueueFrame

LEMMA ReturnRemove ==
  ASSUME RemoveInv, OnceInv', OwnInv', NEW s \in Side, Return(s)
  PROVE  RemoveInv'
<1>0. BridgeInv /\ BridgeInv'
  BY RemoveKnown DEF OnceInv
<1>1. /\ Others(s) /\ Rests(w'[s]) /\ w'[s].pc = "idle"
      /\ UNCHANGED <<stream, q, posts, rows, sent, ignore>>
      /\ job'[s] = NoJob /\ \A r \in Side : r # s => job'[r] = job[r]
  BY <1>0, ReturnFacts
<1>2. Aged /\ Cautious /\ Posted' = Posted /\ NewRows
  BY <1>1, StillPosts DEF NewRows
<1>3. NewMade
  BY <1>1 DEF NewMade, Others, Rests, Range
<1>4. ASSUME NEW m \in Posted PROVE Swallowed(m)'
  <2>1. Removing(m) => Removing(m)'
    BY <1>0, <1>1, Between, RemovingStays DEF Editing, Deleting
  <2> QED
    BY <1>0, <1>1, <1>2, <1>3, <2>1, SwallowedStays
<1>5. ASSUME NEW r \in Side
      PROVE  /\ q'[r] \in Seq(UserJobs) /\ job'[r] \in UserJobs \cup {NoJob}
             /\ \A m \in w'[r].mids : Unshown(m)
             /\ Marked(r)' /\ Doomed(r)'
  <2>1. CASE r = s
    BY <1>1, <2>1 DEF RemoveInv, Rests, Marked, Aiming, Doomed, Deleting
  <2>2. CASE r # s
    <3>1. w'[r] = w[r]
      BY <1>1, <2>2 DEF Others
    <3>2. Marked(r)' /\ Doomed(r)'
      BY <1>0, <1>1, <1>2, <1>3, <3>1, MarkStays, DoomedStays DEF FewerFound
    <3> QED
      BY <1>1, <2>2, <3>1, <3>2 DEF RemoveInv
  <2> QED
    BY <2>1, <2>2
<1> QED
  BY <1>1, <1>3, <1>4, <1>5, QueueFrame

LEMMA SendRemove ==
  ASSUME RemoveInv, OnceInv', OwnInv', NEW s \in Side, Send(s)
  PROVE  RemoveInv'
<1>0. BridgeInv /\ BridgeInv'
  BY RemoveKnown DEF OnceInv
<1>1. /\ Others(s) /\ w'[s].pc = w[s].pc /\ w'[s].found = w[s].found
      /\ w'[s].mids = w[s].mids /\ UNCHANGED <<q, job, rows, ignore>>
      /\ w[s].pc \in {"send", "resend"}
  <2>1. PICK m : m = [chat |-> SendChat(s), id |-> Len(posts[SendChat(s)]) + 1]
    OBVIOUS
  <2> QED
    BY <1>0, <2>1, SendFacts DEF Send, dbVars
<1>2. PICK m \in Msg : /\ m \notin Posted /\ Posted' = Posted \cup {m}
                       /\ \A n \in Posted : At(n)' = At(n)
                       /\ ~ByUser(m)' /\ w'[s].made = Append(w[s].made, m)
                       /\ UNCHANGED stream \/ Emit(Other(s), NewEvent(m, Source(s).txt))
  BY <1>0, AgedSend
<1>3. Silent
  <2>1. Source(s).txt \in Text
    BY <1>0, <1>1, SourceFacts DEF Editing
  <2>2. NewEvent(m, Source(s).txt) \in Content
    BY <2>1, ContentEvents
  <2> QED
    BY <1>0, <1>2, <2>2, InvFacts, SideFacts, SilentSame, SilentEmit
<1>4. Aged /\ Cautious /\ NewRows
  BY <1>0, <1>1, <1>2, AgedSend DEF Cautious, NewRows
<1>5. \A n \in Range(w'[s].made) : n = m \/ n \in Range(w[s].made)
  <2>1. w[s].made \in Seq(Msg)
    BY <1>0, InvFacts
  <2> QED
    BY <1>2, <2>1 DEF Range
<1>6. NewMade
  BY <1>1, <1>2, <1>5 DEF NewMade, Others
<1>7. ASSUME NEW n \in Posted' PROVE Swallowed(n)'
  <2>1. Removing(n) => Removing(n)'
    BY <1>1, RemovingStays
  <2>2. Occurs(stream'[SideOf(n.chat)], Deletions(n)) =>
          Occurs(stream[SideOf(n.chat)], Deletions(n))
    BY <1>3, SideOfType DEF Silent
  <2> QED
    BY <1>0, <1>1, <1>4, <1>6, <2>1, <2>2, SwallowedStays
<1>8. Marked(s)' /\ Doomed(s)'
  BY <1>0, <1>1, <1>4, <1>6, MarkStays, DoomedStays DEF FewerFound
<1> QED
  BY <1>1, <1>4, <1>6, <1>7, <1>8, RemoveFrame

\* A row whose message a handler has found is the only one; when the handler ends
\* its turn, with the row removed or rewritten, no row shows the message.
LEMMA RowGone ==
  ASSUME OwnInv, NEW s \in Side, Replace(s) \/ Deleted(s) \/ DeleteFalls(s),
         NEW m, m = Target(s).msg
  PROVE  ~Mapped(m)'
<1>0. BridgeInv
  BY DEF OwnInv, ReflInv, MapInv
<1>1. CASE Replace(s)
  <2>1. PICK n : n = [chat |-> Target(s).msg.chat, id |-> w[s].made[1].id]
    OBVIOUS
  <2>2. /\ w[s].pc \in Editing /\ n = w[s].made[1] /\ 1 \in DOMAIN w[s].made
        /\ \A r \in rows' : \E r0 \in rows :
             r.dst = IF r0.id = Target(s).row THEN n ELSE r0.dst
    BY <1>0, <1>1, <2>1, ReplaceTable
  <2>3. PICK o \in w[s].found : o = Target(s)
    BY <1>0, <2>2, TargetFacts
  <2>4. n # m
    BY <2>2, <2>3 DEF OwnInv, MadeOwn, Range
  <2>5. \A r0 \in rows : r0.dst = m => r0.id = o.row
    BY <2>3 DEF OwnInv, FoundOwn
  <2> QED
    BY <2>2, <2>3, <2>4, <2>5 DEF Mapped
<1>2. CASE Deleted(s) \/ DeleteFalls(s)
  <2>1. w[s].pc \in Deleting /\ rows' = RemoveRow(rows, Target(s).row)
    BY <1>2 DEF Deleted, DeleteFalls, Unmap, Deleting
  <2>2. PICK o \in w[s].found : o = Target(s)
    BY <1>0, <2>1, TargetFacts
  <2>3. \A r \in rows : r.dst = m => r.id = o.row
    BY <2>2 DEF OwnInv, FoundOwn
  <2> QED
    BY <2>1, <2>2, <2>3 DEF Mapped, RemoveRow
<1> QED
  BY <1>1, <1>2

\* Which marks a handler takes back.
LEMMA MoveIgnore ==
  ASSUME BridgeInv, NEW s \in Side, Moves(s), NEW m \in ignore, m \notin ignore'
  PROVE  /\ m = Target(s).msg /\ SideOf(m.chat) = Other(s)
         /\ (s = "tg" /\ w[s].pc = "resend") \/ DeleteFalls(s)
<1>1. CASE SendFails(s)
  <2>1. w[s].pc = "resend" /\ s = "tg" /\ m = Target(s).msg
    BY <1>1 DEF SendFails
  <2> QED
    BY <2>1, TargetFacts DEF Editing
<1>2. CASE DeleteFalls(s)
  <2>1. w[s].pc \in Deleting /\ Unmap(s, ignore \ {Target(s).msg})
    BY <1>2 DEF DeleteFalls, Deleting
  <2>2. ignore \ {Target(s).msg} \subseteq Msg
    BY InvFacts
  <2>3. Marks(s, w'[s], ignore \ {Target(s).msg})
    BY <2>1, <2>2, UnmapFacts
  <2>4. m = Target(s).msg
    BY <2>3 DEF Marks
  <2> QED
    BY <1>2, <2>1, <2>4, TargetFacts
<1>3. CASE Deleted(s)
  <2>1. w[s].pc \in Deleting /\ Unmap(s, ignore) /\ ignore \subseteq Msg
    BY <1>3, InvFacts DEF Deleted, Deleting
  <2>2. Marks(s, w'[s], ignore)
    BY <2>1, UnmapFacts
  <2> QED
    BY <2>2 DEF Marks
<1>4. CASE ~(SendFails(s) \/ DeleteFalls(s) \/ Deleted(s))
  BY <1>4 DEF Moves, Fetched, Edited, EditFalls, Resent, Remove, RemoveFails, Removed, Replace,
              Delete, Vanish, Breaks, Record, Suppress, queueVars
<1> QED
  BY <1>1, <1>2, <1>3, <1>4

\* The mark of what a handler is going to have deleted.
LEMMA MoveMarks ==
  ASSUME RemoveInv, NEW s \in Side, Moves(s)
  PROVE  Marked(s)'
<1>0. BridgeInv /\ Ways(s) /\ Aged
  BY RemoveKnown, MoveWays, MoveStream
<1>1. CASE w[s].pc = "send" /\ NextPair(s)
  <2>1. w'[s].pc \in {"send", "done"}
    BY <1>0, <1>1, NextPairFacts DEF SendsTo
  <2> QED
    BY <2>1 DEF Marked, Aiming
<1>2. CASE w[s].pc \in Editing /\ NextEdit(s)
  <2>1. w'[s].pc \in {"edit", "fetch", "done"}
    BY <1>0, <1>2, NextEditFacts DEF EditsOf
  <2> QED
    BY <2>1 DEF Marked, Aiming
<1>3. CASE w[s].pc = "delete" /\ Goto(s, "deleted")
  <2>1. w[s].pc \in Deleting /\ "deleted" \in Deleting
    BY <1>3 DEF Deleting
  <2>2. w'[s].pc = "deleted"
    BY <1>0, <1>3, <2>1, GotoKnown
  <2> QED
    BY <2>2 DEF Marked, Aiming
<1>4. CASE w[s].pc \in Deleting /\ \E ign \in SUBSET Msg : Unmap(s, ign)
  <2>1. PICK ign : /\ DeletesOf(s, w'[s], w[s].found \ {Target(s)}, w[s].mids, rows')
                   /\ Marks(s, w'[s], ign)
    BY <1>0, <1>4, UnmapFacts
  <2>2. CASE w'[s].pc = "delete"
    BY <2>1, <2>2 DEF Marked, Aiming, Marks, Target, HasDeleteEvents
  <2>3. CASE w'[s].pc = "done"
    BY <2>3 DEF Marked, Aiming
  <2> QED
    BY <2>1, <2>2, <2>3 DEF DeletesOf
<1>5. CASE EditFalls(s)
  <2>1. w[s].pc \in Editing /\ FallbackFirst(s) \in Editing /\ Goto(s, FallbackFirst(s))
    BY <1>5 DEF EditFalls, Rewrite, FallbackFirst, Editing
  <2>2. w'[s].found = w[s].found
    BY <1>0, <2>1, GotoKnown
  <2>3. Target(s).msg \in ignore'
    BY <1>5 DEF EditFalls, Suppress
  <2>4. Target(s)' = Target(s)
    BY <2>2 DEF Target
  <2> QED
    BY <2>3, <2>4 DEF Marked
<1>6. CASE Resent(s)
  <2>1. w[s].pc \in Editing /\ "remove" \in Editing /\ Goto(s, "remove") /\ UNCHANGED <<ignore, posts>>
    BY <1>6 DEF Resent, Editing
  <2>2. w'[s].found = w[s].found
    BY <1>0, <2>1, GotoKnown
  <2>3. PICK m : m = Target(s).msg
    OBVIOUS
  <2>4. Target(s)'.msg = m
    BY <2>2, <2>3 DEF Target
  <2>5. Aiming(s)
    BY <1>6 DEF Resent, Aiming
  <2>6. Live(m) => m \in ignore
    BY <2>3, <2>5 DEF RemoveInv, Marked
  <2>7. Live(m)' = Live(m)
    BY <2>1 DEF Live, At
  <2>8. Live(Target(s).msg)' => Live(m)'
    BY <2>4 DEF Live, At
  <2> QED
    BY <2>1, <2>4, <2>6, <2>7, <2>8 DEF Marked
<1>7. ASSUME NEW pc \in Editing, w[s].pc \in Editing, Goto(s, pc),
             pc \in {"edit", "removed"} \/ (pc = "resend" /\ s = "bale")
      PROVE  Marked(s)'
  <2>1. w'[s].pc = pc
    BY <1>0, <1>7, GotoKnown
  <2> QED
    BY <1>7, <2>1 DEF Marked, Aiming
<1>8. ASSUME Fetched(s) \/ Remove(s) \/ RemoveFails(s) \/ Removed(s)
      PROVE  \/ w[s].pc \in Editing /\ NextEdit(s)
             \/ w[s].pc \in Editing /\ Goto(s, "edit")
             \/ w[s].pc \in Editing /\ Goto(s, "removed")
             \/ w[s].pc \in Editing /\ Goto(s, "resend") /\ s = "bale"
  BY <1>8 DEF Fetched, Remove, Vanish, RemoveFails, Removed, Editing
<1>9. {"edit", "removed", "resend"} \subseteq Editing
  BY DEF Editing
<1>10. CASE Fetched(s) \/ Remove(s) \/ RemoveFails(s) \/ Removed(s)
  BY <1>2, <1>7, <1>8, <1>9, <1>10
<1>11. ASSUME ~(Fetched(s) \/ Remove(s) \/ RemoveFails(s) \/ Removed(s)), ~EditFalls(s), ~Resent(s)
       PROVE  \/ w[s].pc = "send" /\ NextPair(s)
              \/ w[s].pc \in Editing /\ NextEdit(s)
              \/ w[s].pc = "delete" /\ Goto(s, "deleted")
              \/ w[s].pc \in Deleting /\ \E ign \in SUBSET Msg : Unmap(s, ign)
              \/ Breaks(s)
  <2>1. ignore \in SUBSET Msg /\ ignore \ {Target(s).msg} \in SUBSET Msg
    BY <1>0, InvFacts
  <2>2. CASE Deleted(s) \/ DeleteFalls(s)
    <3>1. w[s].pc \in Deleting /\ (Unmap(s, ignore) \/ Unmap(s, ignore \ {Target(s).msg}))
      BY <2>2 DEF Deleted, DeleteFalls, Deleting
    <3> QED
      BY <2>1, <3>1
  <2>3. CASE SendFails(s) \/ Edited(s) \/ Replace(s) \/ Delete(s) \/ Record(s)
    BY <2>3 DEF SendFails, Edited, Rewrite, Replace, Delete, Vanish, Record, Editing
  <2> QED
    BY <1>11, <2>2, <2>3 DEF Moves
<1>12. CASE Breaks(s)
  <2>1. w'[s].pc = "done"
    BY <1>0, <1>12, BreakFacts
  <2> QED
    BY <2>1 DEF Marked, Aiming
<1> QED
  BY <1>1, <1>2, <1>3, <1>4, <1>5, <1>6, <1>10, <1>11, <1>12

\* What a handler removes it has found, an original only for a user's deletion.
LEMMA MoveCautious ==
  ASSUME RemoveInv, NEW s \in Side, Moves(s)
  PROVE  Cautious
<1>0. BridgeInv
  BY RemoveKnown
<1>1. CASE \A n \in Posted : At(n)'.st = At(n).st
  BY <1>1 DEF Cautious
<1>2. ASSUME Remove(s) \/ Delete(s),
             NEW m \in Posted, m = Target(s).msg, \A n \in Posted : n # m => At(n)' = At(n)
      PROVE  Cautious
  <2>1. w[s].pc \in Editing \cup Deleting
    BY <1>2 DEF Remove, Delete, Editing, Deleting
  <2>2. PICK o \in w[s].found : o.msg = m
    BY <1>0, <1>2, <2>1, TargetFacts
  <2>3. ByUser(m) => Cause(m)
    <3>1. CASE Remove(s)
      <4>1. w[s].pc \in Editing
        BY <3>1 DEF Remove, Editing
      <4>2. At(m).src = Source(s).msg
        BY <2>2, <4>1 DEF RemoveInv, OwnInv, EditsOwn
      <4>3. Source(s).msg \in Msg
        BY <1>0, <4>1, SourceFacts, InvFacts
      <4> QED
        BY <4>2, <4>3, MsgAssumption DEF ByUser
    <3>2. CASE Delete(s)
      <4>1. w[s].pc \in Deleting
        BY <3>2 DEF Delete, Deleting
      <4> QED
        BY <2>2, <4>1 DEF RemoveInv, Doomed
    <3> QED
      BY <1>2, <3>1, <3>2
  <2> QED
    BY <1>2, <2>2, <2>3 DEF Cautious
<1> QED
  BY <1>0, <1>1, <1>2, MoveStream

LEMMA MoveDoomed ==
  ASSUME RemoveInv, BridgeInv', NewMade, NewRows, Cautious, NEW s \in Side, Moves(s)
  PROVE  Doomed(s)'
<1>0. BridgeInv /\ Ways(s) /\ Aged
  BY RemoveKnown, MoveWays, MoveStream
<1>1. CASE w'[s].pc \in Deleting => w[s].pc \in Deleting /\ FewerFound(s)
  BY <1>0, <1>1, DoomedStays
<1>5. ASSUME Breaks(s) PROVE w'[s].pc \notin Deleting
  BY <1>0, <1>5, BreakFacts DEF Deleting
<1>2. CASE w[s].pc \in Editing \cup {"send"}
  <2>1. w'[s].pc \notin Deleting
    <3>1. CASE w[s].pc = "send" /\ NextPair(s)
      BY <1>0, <3>1, NextPairFacts DEF SendsTo, Deleting
    <3>2. CASE w[s].pc \in Editing /\ NextEdit(s)
      BY <1>0, <3>2, NextEditFacts DEF EditsOf, Deleting
    <3>3. CASE w[s].pc \in Editing /\ \E pc \in Editing : Goto(s, pc)
      BY <1>0, <3>3, GotoKnown DEF Editing, Deleting
    <3> QED
      BY <1>0, <1>2, <1>5, <3>1, <3>2, <3>3 DEF Ways, Editing, Deleting
  <2> QED
    BY <1>1, <2>1
<1>3. CASE w[s].pc = "delete" /\ Goto(s, "deleted")
  <2>1. w[s].pc \in Deleting /\ "deleted" \in Deleting
    BY <1>3 DEF Deleting
  <2>2. FewerFound(s)
    BY <1>0, <1>3, <2>1, GotoKnown
  <2> QED
    BY <1>1, <2>1, <2>2
<1>4. ASSUME w[s].pc \in Deleting, NEW ign \in SUBSET Msg, Unmap(s, ign) PROVE Doomed(s)'
  <2>1. /\ DeletesOf(s, w'[s], w[s].found \ {Target(s)}, w[s].mids, rows')
        /\ rows' \subseteq rows /\ UNCHANGED posts
    BY <1>0, <1>4, UnmapFacts DEF Unmap
  <2>2. CASE FewerFound(s)
    BY <1>1, <1>4, <2>2
  <2>3. ASSUME NEW m \in w[s].mids, w'[s].found \subseteq OtherSide(rows', m) PROVE Doomed(s)'
    <3>1. m \in Posted /\ ~Live(m) /\ Unshown(m)
      BY <1>0, <2>3 DEF RemoveInv, OnceInv, BridgeInv, HandlerKnown
    <3>2. ASSUME NEW o \in w'[s].found
          PROVE  IF ByUser(o.msg)' THEN Cause(o.msg)' ELSE ~Live(At(o.msg).src)'
      <4>1. o.msg \in Posted /\ IF ByUser(o.msg) THEN Cause(o.msg) ELSE ~Live(At(o.msg).src)
        BY <2>1, <2>3, <3>1, <3>2, DoomedQuery
      <4>2. ByUser(o.msg)' = ByUser(o.msg) /\ At(o.msg)' = At(o.msg) /\ \A n : Live(n)' = Live(n)
        BY <2>1 DEF ByUser, At, Live
      <4>3. Cause(o.msg) => Cause(o.msg)'
        BY <1>0, <4>1, Consequences
      <4> QED
        BY <4>1, <4>2, <4>3
    <3> QED
      BY <3>2 DEF Doomed
  <2>4. CASE w'[s].pc = "done"
    BY <2>4 DEF Doomed, Deleting
  <2> QED
    BY <2>1, <2>2, <2>3, <2>4 DEF DeletesOf, FewerFound
<1>6. CASE Breaks(s)
  BY <1>1, <1>5, <1>6
<1> QED
  BY <1>0, <1>2, <1>3, <1>4, <1>6 DEF Ways

LEMMA MoveSwallowed ==
  ASSUME BotReports, RemoveInv, BridgeInv', NewMade, NewRows, Cautious,
         NEW s \in Side, Moves(s), NEW m \in Posted'
  PROVE  Swallowed(m)'
<1>0. BridgeInv /\ Aged /\ Posted' = Posted /\ Others(s) /\ OwnInv
  BY RemoveKnown, MoveWays, WayFacts, MoveStream
<1>1. PICK r \in Side : r = SideOf(m.chat)
  BY SideOfType
\* No report of m comes in, and the marks of m are still there as long as a row is.
<1>2. ASSUME Occurs(stream'[r], Deletions(m)) => Occurs(stream[r], Deletions(m))
      PROVE  Swallowed(m)'
  <2>0. CASE r = "bale" /\ BaleMode = "bot"
    <3>1. stream[r] \in Seq(Content)
      BY <2>0 DEF RemoveInv, OnceInv
    <3>2. \A i \in DOMAIN stream[r] : stream[r][i] \in Content
      BY <3>1
    <3>3. ~Occurs(stream[r], Deletions(m))
      BY <3>2 DEF Occurs, Deletions, Content
    <3> QED
      BY <1>1, <1>2, <3>3 DEF Swallowed
  <2>1. ASSUME ~(r = "bale" /\ BaleMode = "bot"),
               m \in ignore, Mapped(m)', r = "bale" => Removing(m)
        PROVE  m \in ignore' /\ (r = "bale" => Removing(m)')
    <3>1. CASE r = "bale" /\ s = "tg"
      <4>1. w[s].pc \in {"removed", "deleted"} /\ m = Target(s).msg
        BY <2>1, <3>1 DEF Removing
      <4>2. Replace(s) \/ Deleted(s) \/ DeleteFalls(s)
        BY <2>1, <3>1, <4>1 DEF Moves, SendFails, Fetched, Edited, EditFalls, Rewrite, Resent, Remove,
                          RemoveFails, Removed, Delete, Breaks, Record
      <4> QED
        BY <1>0, <2>1, <4>1, <4>2, RowGone
    <3>2. CASE r = "bale" /\ s # "tg"
      <4>1. Removing(m)'
        BY <1>0, <2>1, <3>2, RemovingStays
      <4>2. Other(s) # "bale"
        BY <3>2 DEF Other, Side
      <4> QED
        BY <1>0, <1>1, <2>1, <3>2, <4>1, <4>2, MoveIgnore
    <3>3. CASE r # "bale"
      <4>1. ASSUME m \notin ignore' PROVE FALSE
        <5>1. /\ m = Target(s).msg /\ r = Other(s)
              /\ s = "tg" \/ DeleteFalls(s)
          BY <1>0, <1>1, <2>1, <4>1, MoveIgnore
        <5>2. s # "tg"
          BY <3>3, <5>1 DEF Other
        <5> QED
          BY <1>0, <2>1, <5>1, <5>2, RowGone
      <4> QED
        BY <3>3, <4>1
    <3> QED
      BY <3>1, <3>2, <3>3
  <2>2. CASE ~(r = "bale" /\ BaleMode = "bot")
    BY <1>0, <1>1, <1>2, <2>1, <2>2, SwallowedStays
  <2> QED
    BY <2>0, <2>2
\* The platform reports the bridge's deletion of m.
<1>3. ASSUME Reported(m), Remove(s) \/ Delete(s), m = Target(s).msg, r = Other(s)
      PROVE  Swallowed(m)'
  <2>1. Aiming(s)
    <3>1. CASE Remove(s)
      BY <3>1 DEF Remove, Aiming
    <3>2. CASE Delete(s) /\ s # "bale"
      <4>1. r = "bale"
        BY <1>3, <3>2 DEF Other, Side
      <4>2. HasDeleteEvents
        BY <1>1, <1>3, <4>1, ModeAssumption DEF Reported, BotReports, HasDeleteEvents
      <4> QED
        BY <3>2, <4>2 DEF Delete, Aiming
    <3>3. CASE Delete(s) /\ s = "bale"
      BY <3>3 DEF Delete, Aiming
    <3> QED
      BY <1>3, <3>1, <3>2, <3>3
  <2>2. m \in ignore
    BY <1>3, <2>1 DEF RemoveInv, Marked, Reported
  <2>3. /\ UNCHANGED ignore
        /\ \/ Goto(s, "removed") /\ w[s].pc = "remove"
           \/ Goto(s, "deleted") /\ w[s].pc = "delete"
    BY <1>3 DEF Remove, Delete, Vanish
  <2>4. ASSUME r = "bale" PROVE Removing(m)'
    <3>1. s = "tg"
      BY <1>3, <2>4 DEF Other, Side
    <3>2. w'[s].found = w[s].found /\ w'[s].pc \in {"removed", "deleted"}
      <4>1. CASE Goto(s, "removed") /\ w[s].pc = "remove"
        BY <1>0, <4>1, GotoKnown DEF Editing
      <4>2. CASE Goto(s, "deleted") /\ w[s].pc = "delete"
        BY <1>0, <4>2, GotoKnown DEF Deleting
      <4> QED
        BY <2>3, <4>1, <4>2
    <3>3. Target(s)' = Target(s)
      BY <3>2 DEF Target
    <3> QED
      BY <1>3, <3>1, <3>2, <3>3 DEF Removing
  <2> QED
    BY <1>1, <2>2, <2>3, <2>4 DEF Swallowed
<1>4. ASSUME NEW n \in Posted, n = Target(s).msg, SideOf(n.chat) = Other(s), Reported(n),
             Remove(s) \/ Delete(s)
      PROVE  Swallowed(m)'
  <2>1. CASE n = m
    BY <1>1, <1>3, <1>4, <2>1
  <2>2. CASE n # m
    BY <1>0, <1>2, <1>4, <2>2, OthersReported
  <2> QED
    BY <2>1, <2>2
<1>5. CASE Silent
  BY <1>2, <1>5 DEF Silent
<1> QED
  BY <1>0, <1>4, <1>5, MoveStream

LEMMA MoveRemove ==
  ASSUME BotReports, RemoveInv, OnceInv', OwnInv', NEW s \in Side, Moves(s)
  PROVE  RemoveInv'
<1>0. /\ BridgeInv /\ BridgeInv' /\ OwnInv /\ ReflInv'
      /\ Ways(s) /\ UNCHANGED <<q, job>> /\ Aged /\ Posted' = Posted
  BY RemoveKnown, MoveWays, MoveStream DEF OnceInv, OwnInv
<1>1. /\ Others(s) /\ w'[s].mids \subseteq w[s].mids /\ w'[s].made \in {<<>>, w[s].made}
  BY <1>0, WayFacts
<1>2. NewMade
  BY <1>1 DEF NewMade, Others, Range
<1>3. NewRows
  BY <1>0, MoveOwn
<1>4. Cautious
  BY MoveCautious
<1>5. Marked(s)' /\ Doomed(s)'
  BY <1>0, <1>2, <1>3, <1>4, MoveMarks, MoveDoomed
<1>6. \A m \in Posted' : Swallowed(m)'
  BY <1>0, <1>2, <1>3, <1>4, MoveSwallowed
<1>7. \A m \in ignore : m \in ignore' \/ ~Live(m) \/ SideOf(m.chat) # s
  BY <1>0, MoveIgnore, SideFacts
<1> QED
  BY <1>0, <1>1, <1>2, <1>3, <1>4, <1>5, <1>6, <1>7, RemoveFrame

LEMMA StepRemove == BotReports /\ RemoveInv /\ OnceInv' /\ OwnInv' /\ [Next]_vars => RemoveInv'
<1> SUFFICES ASSUME BotReports, RemoveInv, OnceInv', OwnInv', [Next]_vars PROVE RemoveInv'
  OBVIOUS
<1> QED
  BY StepKinds, OutsideRemove, CrashRemove, IntakeRemove, SendRemove, ReturnRemove, StartRemove,
     MoveRemove

LEMMA InitRemove == Init => RemoveInv
<1> SUFFICES ASSUME Init PROVE RemoveInv
  OBVIOUS
<1>1. OnceInv /\ OwnInv
  BY InitOnce, InitOwn
<1>2. \A s \in Side : q[s] = <<>> /\ job[s] = NoJob /\ w[s] = Stopped("idle")
  BY DEF Init, QueueInit
<1>3. \A s \in Side : Rests(w[s]) /\ w[s].pc = "idle"
  BY <1>2, StoppedRests
<1>4. \A c \in Chat : posts[c] = <<>>
  BY DEF Init
<1>5. Posted = {}
  BY <1>4, MsgFacts DEF Posted, Exists
<1>6. \A s \in Side : q[s] \in Seq(UserJobs)
  BY <1>2, NothingIn
<1> QED
  BY <1>1, <1>2, <1>3, <1>5, <1>6
     DEF RemoveInv, Rests, Range, Marked, Aiming, Doomed, Deleting, Kept, JustifiedRemoval

LEMMA AllRemove ==
  CopiesNotEdited /\ EchoesAwaited /\ BotReports /\ RemoveInv /\ [Next]_vars => RemoveInv'
<1> SUFFICES ASSUME CopiesNotEdited, EchoesAwaited, BotReports, RemoveInv, [Next]_vars
             PROVE  RemoveInv'
  OBVIOUS
<1>1. OnceInv /\ OwnInv /\ ReflInv /\ MapInv /\ BridgeInv
  BY RemoveKnown
<1>2. BridgeInv' /\ ReflInv'
  BY <1>1, StepKnown, StepRefl
<1>3. OnceInv' /\ OwnInv'
  BY <1>1, <1>2, StepOnce, StepOwn
<1> QED
  BY <1>3, StepRemove

\* JustifiedRemoval: a user's message disappears only after a user deleted one of
\* its copies.  The deletions the bridge itself makes, of old copies in the edit
\* fallback and of copies of deleted messages, come back from the platform as
\* reports like those of users; the handler announced each before the call
\* (_ignore_deletes in sync_edit.py and sync_delete.py), and each is dropped.
THEOREM OnlyUsersRemove ==
  ASSUME CopiesNotEdited, EchoesAwaited, BotReports
  PROVE  Spec => []JustifiedRemoval
<1>1. RemoveInv /\ [Next]_vars => RemoveInv'
  BY AllRemove
<1>2. RemoveInv => JustifiedRemoval
  BY DEF RemoveInv
<1> QED
  BY <1>1, <1>2, InitRemove, PTL DEF Spec

-----------------------------------------------------------------------------
(* The last copy *)

\* Users may edit what they posted on Bale.  The fallback of such an edit deletes
\* the old copy first, so it is the only one that can lose the last.
BaleSourcesEdited == <<"bale", "source">> \in UserEdits
\* Messages no edit on Bale can touch, and jobs that touch only those.
Safe(u) == SideOf(u.chat) = "tg" \/ ~BaleSourcesEdited
SafeJobs == { j \in Job : j.kind = "edit" => SideOf(j.items[1].msg.chat) = "tg" \/ BaleSourcesEdited }

\* u has a copy the bridge did not delete.
Covered(u) == \E n \in Posted : At(n).src = u /\ At(n).st # "removed"

\* The jobs are safe ones, the fallback of an edit on Telegram has sent something
\* before it deletes, and every mapped message that is still there has a copy.
CopyInv ==
  /\ RemoveInv
  /\ \A s \in Side : /\ stream[s] \in Seq(SafeJobs) /\ q[s] \in Seq(SafeJobs)
                     /\ job[s] \in SafeJobs \cup {NoJob}
  /\ w["tg"].pc = "remove" => w["tg"].made # <<>>
  /\ \A r \in rows : Live(r.src) /\ Safe(r.src) => Covered(r.src)

LEMMA CopyInvSound == CopyInv /\ ~BaleSourcesEdited => NeverWithoutCopy
  BY DEF CopyInv, NeverWithoutCopy, Safe, Covered

LEMMA SafeEvents ==
  ASSUME NEW m \in Msg, NEW t \in Text
  PROVE  NewEvent(m, t) \in SafeJobs /\ DeleteEvent(m) \in SafeJobs
<1>1. NewEvent(m, t) \in Job /\ NewEvent(m, t).kind = "new"
  BY EventIsJob DEF NewEvent, ItemOf, Item
<1>2. DeleteEvent(m) \in Job /\ DeleteEvent(m).kind = "delete"
  BY DEF DeleteEvent, Job, DeleteJob
<1> QED
  BY <1>1, <1>2 DEF SafeJobs

LEMMA SafeEdit ==
  ASSUME CopiesNotEdited, NEW m \in Msg, NEW t \in Text, UserEdit(m, t)
  PROVE  EditEvent(m, t) \in SafeJobs
<1>1. <<SideOf(m.chat), "source">> \in UserEdits
  BY SideOfType DEF UserEdit, MayTouch, CopiesNotEdited
<1>2. SideOf(m.chat) = "tg" \/ BaleSourcesEdited
  BY <1>1, SideOfType DEF Side, BaleSourcesEdited
<1>3. EditEvent(m, t) \in Job /\ EditEvent(m, t).items[1].msg = m
  BY EventIsJob DEF EditEvent, ItemOf, Item
<1> QED
  BY <1>2, <1>3 DEF SafeJobs

\* The streams.
LEMMA SafeStreams ==
  ASSUME CopiesNotEdited, CopyInv, [Next]_vars
  PROVE  \A r \in Side : stream'[r] \in Seq(SafeJobs)
<1>0. BridgeInv /\ stream \in [Side -> Seq(Job)] /\ \A r \in Side : stream[r] \in Seq(SafeJobs)
  BY RemoveKnown, InvFacts DEF CopyInv, QueueTypeOK
<1>1. CASE UNCHANGED stream
  BY <1>0, <1>1
<1>2. ASSUME NEW s \in Side, NEW m \in Msg, NEW t \in Text,
             Emit(s, NewEvent(m, t)) \/ Emit(s, DeleteEvent(m))
      PROVE  \A r \in Side : stream'[r] \in Seq(SafeJobs)
  BY <1>0, <1>2, SafeEvents, EmitIn
<1>3. CASE Outside
  <2>1. ASSUME NEW c \in Chat, NEW t \in Text, UserPost(c, t)
        PROVE  \A r \in Side : stream'[r] \in Seq(SafeJobs)
    BY <1>0, <1>2, <2>1, AgedPost, SideOfType
  <2>2. ASSUME NEW m \in Msg, NEW t \in Text, UserEdit(m, t)
        PROVE  \A r \in Side : stream'[r] \in Seq(SafeJobs)
    BY <1>0, <2>2, SafeEdit, EmitIn, SideOfType DEF UserEdit
  <2>3. ASSUME NEW m \in Msg, UserDelete(m)
        PROVE  \A r \in Side : stream'[r] \in Seq(SafeJobs)
    <3>1. m \in Posted /\ (UNCHANGED stream \/ Emit(SideOf(m.chat), DeleteEvent(m)))
      BY <2>3 DEF UserDelete, MayTouch
    <3>2. At(m).txt \in Text
      BY <1>0, <3>1, InvFacts, PostedFacts
    <3> QED
      BY <1>1, <1>2, <3>1, <3>2, SideOfType
  <2>4. CASE UNCHANGED stream
    BY <1>1, <2>4
  <2> QED
    BY <1>3, <2>1, <2>2, <2>3, <2>4
       DEF Outside, FpExpires, SetMode, RemovePair, vars, queueVars
<1>4. CASE Crash
  <2>1. \A r \in Side : stream'[r] = <<>> \/ stream'[r] = stream[r]
    BY <1>4, CrashFacts
  <2> QED
    BY <1>0, <2>1, NothingIn
<1>5. ASSUME NEW s \in Side, Intake(s) PROVE \A r \in Side : stream'[r] \in Seq(SafeJobs)
  <2>1. stream[s] # <<>> /\ stream' = [stream EXCEPT ![s] = Tail(@)]
    BY <1>0, <1>5, IntakeFacts DEF Intake
  <2>2. Tail(stream[s]) \in Seq(SafeJobs)
    BY <1>0, <2>1, HeadTailProperties
  <2> QED
    BY <1>0, <2>1, <2>2
<1>6. ASSUME NEW s \in Side, Send(s) PROVE \A r \in Side : stream'[r] \in Seq(SafeJobs)
  <2>1. PICK m \in Msg : UNCHANGED stream \/ Emit(Other(s), NewEvent(m, Source(s).txt))
    BY <1>0, <1>6, AgedSend
  <2>2. Source(s).txt \in Text
    BY <1>0, <1>6, SourceFacts DEF Send, Editing
  <2> QED
    BY <1>1, <1>2, <2>1, <2>2, SideFacts
<1>7. ASSUME NEW s \in Side, Return(s) \/ StartNew(s) \/ StartEdit(s) \/ StartDelete(s)
      PROVE  UNCHANGED stream
  BY <1>0, <1>7, ReturnFacts, StartFacts
<1>8. ASSUME NEW s \in Side, Moves(s) PROVE \A r \in Side : stream'[r] \in Seq(SafeJobs)
  <2>1. CASE Rewrite(s) \/ Remove(s) \/ Delete(s)
    <3>1. PICK m \in Posted, t \in Text :
            \/ UNCHANGED stream
            \/ Echo(Other(s), "edit", EditEvent(m, t))
            \/ Echo(Other(s), "delete", DeleteEvent(m))
      BY <1>0, <2>1, PostsStay
    <3>2. UNCHANGED stream \/ Emit(Other(s), DeleteEvent(m))
      BY <3>1, SideFacts DEF Echo, CopiesNotEdited
    <3> QED
      BY <1>0, <1>1, <1>2, <3>2, InvFacts, SideFacts
  <2>2. CASE LateEchoes(s)
    BY <1>0, <2>2, SafeEvents, LateIn, InvFacts
  <2>3. \/ Rewrite(s) \/ Remove(s) \/ Delete(s)
        \/ UNCHANGED stream \/ LateEchoes(s)
    BY <1>8 DEF Moves, SendFails, Fetched, Edited, EditFalls, Resent, RemoveFails, Removed,
                Replace, Deleted, DeleteFalls, Unmap, Breaks, Record, queueVars
  <2> QED
    BY <1>1, <2>1, <2>2, <2>3
<1> QED
  BY <1>1, <1>3, <1>4, <1>5, <1>6, <1>7, <1>8, StepKinds

\* The queues.
LEMMA SafeQueues ==
  ASSUME CopyInv, [Next]_vars
  PROVE  \A r \in Side : q'[r] \in Seq(SafeJobs) /\ job'[r] \in SafeJobs \cup {NoJob}
<1>0. /\ BridgeInv /\ q \in [Side -> Seq(Job)]
      /\ \A r \in Side : /\ stream[r] \in Seq(SafeJobs) /\ q[r] \in Seq(SafeJobs)
                         /\ job[r] \in SafeJobs \cup {NoJob}
  BY RemoveKnown, InvFacts DEF CopyInv, QueueTypeOK
<1>1. CASE UNCHANGED <<q, job>>
  BY <1>0, <1>1
<1>2. ASSUME NEW s \in Side, Intake(s)
      PROVE  \A r \in Side : q'[r] \in Seq(SafeJobs) /\ job'[r] \in SafeJobs \cup {NoJob}
  <2>1. PICK e : e = Head(stream[s])
    OBVIOUS
  <2>2. PICK d : d = [kind |-> "delete", ids |-> e.ids \ ignore]
    OBVIOUS
  <2>3. /\ stream[s] # <<>> /\ e \in HomeJob(s, Posted) /\ UNCHANGED job
        /\ UNCHANGED q \/ Put(s, e) \/ (e.kind = "delete" /\ Put(s, d))
    BY <1>0, <1>2, <2>1, <2>2, IntakeFacts DEF Intake
  <2>4. e \in SafeJobs
    BY <1>0, <2>1, <2>3, HeadTailProperties
  <2>5. e.kind = "delete" => d \in SafeJobs
    <3>1. e.kind = "delete" => d \in HomeJob(s, Posted)
      BY <2>2, <2>3, FewerIds
    <3> QED
      BY <2>2, <3>1 DEF HomeJob, SafeJobs
  <2>6. ASSUME NEW j \in SafeJobs, Put(s, j) PROVE \A r \in Side : q'[r] \in Seq(SafeJobs)
    <3>1. \A r \in Side : q'[r] = IF r = s THEN Append(q[s], j) ELSE q[r]
      BY <1>0, <2>6 DEF Put
    <3>2. Append(q[s], j) \in Seq(SafeJobs)
      BY <1>0
    <3> QED
      BY <1>0, <3>1, <3>2
  <2> QED
    BY <1>0, <2>3, <2>4, <2>5, <2>6
<1>3. ASSUME NEW s \in Side, StartNew(s) \/ StartEdit(s) \/ StartDelete(s)
      PROVE  \A r \in Side : q'[r] \in Seq(SafeJobs) /\ job'[r] \in SafeJobs \cup {NoJob}
  <2>1. Take(s)
    BY <1>0, <1>3, StartFacts
  <2>2. /\ q[s] # <<>> /\ q' = [q EXCEPT ![s] = Tail(@)]
        /\ job'[s] = Head(q[s]) /\ \A r \in Side : r # s => job'[r] = job[r]
    BY <1>0, <2>1, TakeFacts
  <2>3. Head(q[s]) \in SafeJobs /\ Tail(q[s]) \in Seq(SafeJobs)
    BY <1>0, <2>2, HeadTailProperties
  <2> QED
    BY <1>0, <2>2, <2>3
<1>4. ASSUME NEW s \in Side, Return(s)
      PROVE  \A r \in Side : q'[r] \in Seq(SafeJobs) /\ job'[r] \in SafeJobs \cup {NoJob}
  BY <1>0, <1>4, ReturnFacts
<1>5. CASE Crash
  BY <1>5, CrashFacts, NothingIn
<1>6. CASE Outside
  BY <1>0, <1>1, <1>6, OutsideFacts
<1>7. ASSUME NEW s \in Side, Send(s) \/ Moves(s) PROVE UNCHANGED <<q, job>>
  BY <1>0, <1>7, MoveWays DEF Send
<1> QED
  BY <1>1, <1>2, <1>3, <1>4, <1>5, <1>6, <1>7, StepKinds

\* Towards Bale the replacement is there before the old copy goes.
LEMMA ReplacedFirst ==
  ASSUME CopyInv, [Next]_vars, w'["tg"].pc = "remove"
  PROVE  w'["tg"].made # <<>>
<1>0. BridgeInv /\ "tg" \in Side
  BY RemoveKnown DEF CopyInv, Side
<1>1. CASE w'["tg"] = w["tg"]
  BY <1>1 DEF CopyInv
<1>2. ASSUME NEW s \in Side, Others(s), s # "tg" PROVE w'["tg"] = w["tg"]
  BY <1>0, <1>2 DEF Others
<1>3. CASE Outside \/ \E s \in Side : Intake(s)
  BY <1>0, <1>1, <1>3, OutsideFacts DEF Intake
<1>4. CASE Crash
  BY <1>0, <1>4, CrashFacts
<1>5. ASSUME NEW s \in Side, Send(s) \/ Return(s) \/ StartNew(s) \/ StartEdit(s) \/ StartDelete(s)
      PROVE  Others(s) /\ (s = "tg" => w'[s].pc # "remove")
  <2>1. CASE Send(s)
    <3>1. PICK m : m = [chat |-> SendChat(s), id |-> Len(posts[SendChat(s)]) + 1]
      OBVIOUS
    <3> QED
      BY <1>0, <2>1, <3>1, SendFacts DEF Send
  <2>2. CASE Return(s)
    BY <1>0, <2>2, ReturnFacts
  <2>3. CASE StartNew(s) \/ StartEdit(s) \/ StartDelete(s)
    BY <1>0, <2>3, StartFacts DEF EditsOf, DeletesOf
  <2> QED
    BY <1>5, <2>1, <2>2, <2>3
<1>6. ASSUME NEW s \in Side, Moves(s), s = "tg" PROVE Resent(s)
  <2>1. Ways(s)
    BY <1>0, <1>6, MoveWays
  <2>2. CASE w[s].pc = "send" /\ NextPair(s)
    BY <1>0, <1>6, <2>2, NextPairFacts DEF SendsTo
  <2>3. CASE w[s].pc \in Editing /\ NextEdit(s)
    BY <1>0, <1>6, <2>3, NextEditFacts DEF EditsOf
  <2>4. CASE w[s].pc = "delete" /\ Goto(s, "deleted")
    BY <1>0, <1>6, <2>4, InvFacts, GotoFacts DEF PC
  <2>5. CASE w[s].pc \in Deleting /\ \E ign \in SUBSET Msg : Unmap(s, ign)
    BY <1>0, <1>6, <2>5, UnmapFacts DEF DeletesOf
  <2>6. ASSUME NEW pc \in Editing, w[s].pc \in Editing, Goto(s, pc), pc # "remove" PROVE FALSE
    BY <1>0, <1>6, <2>6, GotoKnown
  <2>7. CASE EditFalls(s)
    <3>1. w[s].pc \in Editing /\ "resend" \in Editing /\ Goto(s, "resend")
      BY <1>6, <2>7 DEF EditFalls, Rewrite, FallbackFirst, Editing
    <3> QED
      BY <2>6, <3>1
  <2>8. CASE Fetched(s) \/ Remove(s) \/ RemoveFails(s) \/ Removed(s)
    <3>1. \/ w[s].pc \in Editing /\ NextEdit(s)
          \/ w[s].pc \in Editing /\ Goto(s, "edit")
          \/ w[s].pc \in Editing /\ Goto(s, "removed")
          \/ w[s].pc \in Editing /\ Goto(s, "resend")
      BY <2>8 DEF Fetched, Remove, Vanish, RemoveFails, Removed, Editing
    <3>2. {"edit", "removed", "resend"} \subseteq Editing
      BY DEF Editing
    <3> QED
      BY <2>3, <2>6, <3>1, <3>2
  <2>9. CASE SendFails(s) \/ Edited(s) \/ Replace(s) \/ Record(s)
    BY <2>2, <2>3, <2>9 DEF SendFails, Edited, Rewrite, Replace, Record, Editing
  <2>10. CASE Delete(s)
    BY <2>4, <2>10 DEF Delete, Vanish
  <2>11. CASE Deleted(s) \/ DeleteFalls(s)
    <3>1. w[s].pc \in Deleting /\ (Unmap(s, ignore) \/ Unmap(s, ignore \ {Target(s).msg}))
      BY <2>11 DEF Deleted, DeleteFalls, Deleting
    <3>2. ignore \in SUBSET Msg /\ ignore \ {Target(s).msg} \in SUBSET Msg
      BY <1>0, InvFacts
    <3> QED
      BY <2>5, <3>1, <3>2
  <2>12. CASE Breaks(s)
    BY <1>0, <1>6, <2>12, BreakFacts
  <2> QED
    BY <1>6, <2>7, <2>8, <2>9, <2>10, <2>11, <2>12 DEF Moves
<1>7. ASSUME NEW s \in Side, Resent(s), s = "tg" PROVE w'["tg"].made # <<>>
  <2>1. w[s].pc \in Editing /\ "remove" \in Editing /\ Goto(s, "remove") /\ Complete(s)
    BY <1>7 DEF Resent, Editing
  <2>2. w'[s].made = w[s].made
    BY <1>0, <2>1, GotoKnown
  <2>3. Len(w[s].made) \in Nat \ {0}
    BY <1>0, <2>1, SourceFacts DEF Complete
  <2> QED
    BY <1>7, <2>2, <2>3
<1>8. ASSUME NEW s \in Side, Moves(s) PROVE Others(s)
  BY <1>0, <1>8, MoveWays, WayFacts
<1> QED
  BY <1>1, <1>2, <1>3, <1>4, <1>5, <1>6, <1>7, <1>8, StepKinds

\* Posts a step removes.
LEMMA StepPosts ==
  ASSUME RemoveInv, [Next]_vars
  PROVE  /\ Aged
         /\ \/ \A n \in Posted : At(n)'.st = "removed" => At(n).st = "removed"
            \/ \E s \in Side, m \in Posted :
                 /\ (Remove(s) \/ Delete(s))
                 /\ m = Target(s).msg /\ \A n \in Posted : n # m => At(n)' = At(n)
<1>0. BridgeInv
  BY RemoveKnown
<1>1. CASE UNCHANGED posts
  BY <1>1, StillPosts
<1>2. CASE Outside
  BY <1>0, <1>2, OutsideFacts
<1>3. CASE Crash
  BY <1>1, <1>3, CrashFacts
<1>4. ASSUME NEW s \in Side, Intake(s) \/ Return(s) \/ StartNew(s) \/ StartEdit(s) \/ StartDelete(s)
      PROVE  UNCHANGED posts
  BY <1>0, <1>4, ReturnFacts, StartFacts DEF Intake
<1>5. ASSUME NEW s \in Side, Send(s)
      PROVE  Aged /\ \A n \in Posted : At(n)' = At(n)
  BY <1>0, <1>5, AgedSend
<1>6. ASSUME NEW s \in Side, Moves(s)
      PROVE  /\ Aged
             /\ \/ \A n \in Posted : At(n)'.st = At(n).st
                \/ \E m \in Posted :
                     /\ (Remove(s) \/ Delete(s))
                     /\ m = Target(s).msg /\ \A n \in Posted : n # m => At(n)' = At(n)
  BY <1>0, <1>6, MoveStream
<1> QED
  BY <1>1, <1>2, <1>3, <1>4, <1>5, <1>6, StepKinds

\* Where rows come from.
LEMMA StepRows ==
  ASSUME RemoveInv, [Next]_vars
  PROVE  \/ \A x \in rows' : \E y \in rows : y.src = x.src
         \/ \E s \in Side :
              /\ w[s].pc = "send" /\ UNCHANGED posts
              /\ \A x \in rows' : \/ x \in rows
                                  \/ x.src = Source(s).msg /\ x.dst \in Range(w[s].made)
<1>0. BridgeInv
  BY RemoveKnown
<1>1. CASE rows' \subseteq rows
  BY <1>1
<1>2. CASE Outside \/ Crash
  BY <1>0, <1>1, <1>2, OutsideFacts, CrashFacts
<1>3. ASSUME NEW s \in Side,
             Intake(s) \/ Return(s) \/ Send(s) \/ StartNew(s) \/ StartEdit(s) \/ StartDelete(s)
      PROVE  rows' \subseteq rows
  BY <1>0, <1>3, ReturnFacts, StartFacts DEF Intake, Send, dbVars
<1>4. ASSUME NEW s \in Side, Replace(s) PROVE \A x \in rows' : \E y \in rows : y.src = x.src
  <2>1. PICK m : m = [chat |-> Target(s).msg.chat, id |-> w[s].made[1].id]
    OBVIOUS
  <2> QED
    BY <1>0, <1>4, <2>1, ReplaceTable
<1>5. ASSUME NEW s \in Side, Record(s)
      PROVE  /\ w[s].pc = "send" /\ UNCHANGED posts
             /\ \A x \in rows' : \/ x \in rows
                                 \/ x.src = Source(s).msg /\ x.dst \in Range(w[s].made)
  <2>1. PICK made : made = w[s].made
    OBVIOUS
  <2>2. /\ w[s].pc = "send" /\ UNCHANGED posts
        /\ rows' = AddRows(rows, lastRow, FirstPair(s), Source(s).msg, made)
    BY <1>5, <2>1 DEF Record
  <2>3. lastRow \in Nat /\ made \in Seq(Msg)
    BY <1>0, <2>1, InvFacts
  <2>4. \A x \in rows' : \/ x \in rows
                         \/ x.src = Source(s).msg /\ \E i \in DOMAIN made : x.dst = made[i]
    BY <2>2, <2>3, AddedRows
  <2> QED
    BY <2>1, <2>2, <2>4 DEF Range
<1> QED
  BY <1>1, <1>2, <1>3, <1>4, <1>5, StepKinds, MoveRows

\* The handlers keep a copy of what is there.
LEMMA StillCovered ==
  ASSUME CopyInv, [Next]_vars, NEW u \in Posted, Covered(u), Live(u)', Safe(u)
  PROVE  Covered(u)'
<1>0. /\ BridgeInv /\ RemoveInv /\ Aged /\ Live(u)
  BY RemoveKnown, StepPosts, GoneStays DEF CopyInv
<1>1. PICK n \in Posted : At(n).src = u /\ At(n).st # "removed"
  BY DEF Covered
<1>2. ASSUME NEW k \in Posted, At(k).src = u, At(k)'.st # "removed" PROVE Covered(u)'
  <2>1. k \in Posted' /\ At(k)'.src = u
    BY <1>0, <1>2 DEF Aged, SrcKept
  <2> QED
    BY <1>2, <2>1 DEF Covered
<1>3. ASSUME NEW s \in Side, Remove(s) \/ Delete(s), n = Target(s).msg,
             \A m \in Posted : m # n => At(m)' = At(m)
      PROVE  Covered(u)'
  <2>1. u \in Msg /\ ~ByUser(n)
    BY <1>0, <1>1, InvFacts, MsgAssumption DEF ByUser
  <2>2. w[s].pc \in Editing \cup Deleting
    BY <1>3 DEF Remove, Delete, Editing, Deleting
  <2>3. PICK o \in w[s].found : o.msg = n
    BY <1>0, <1>3, <2>2, TargetFacts
  <2>4. CASE Delete(s)
    <3>1. ~Live(At(n).src)
      BY <1>0, <2>1, <2>3, <2>4 DEF RemoveInv, Doomed, Delete, Deleting
    <3> QED
      BY <1>0, <1>1, <3>1
  <2>5. CASE Remove(s)
    <3>1. w[s].pc = "remove" /\ w[s].pc \in Editing
      BY <2>5 DEF Remove, Editing
    <3>2. Source(s).msg = u
      BY <1>0, <1>1, <2>3, <3>1 DEF RemoveInv, OwnInv, EditsOwn
    <3>3. SideOf(u.chat) = s /\ job[s].kind = "edit" /\ job[s] \in SafeJobs
      <4>1. SideOf(u.chat) = s
        BY <1>0, <3>1, <3>2, SourceFacts
      <4>2. HandlerKnown(s, w[s], job[s], Posted)
        BY <1>0 DEF BridgeInv
      <4>3. job[s].kind = "edit"
        BY <3>1, <4>2 DEF HandlerKnown
      <4> QED
        BY <4>1, <4>3 DEF CopyInv, NoJob
    <3>4. s = "tg"
      BY <3>2, <3>3 DEF SafeJobs, Safe, Source
    <3>5. w[s].made # <<>> /\ w[s].made \in Seq(Msg)
      BY <1>0, <3>1, <3>4, InvFacts DEF CopyInv
    <3>6. 1 \in DOMAIN w[s].made
      <4>1. PICK sq : sq = w[s].made
        OBVIOUS
      <4>2. Len(sq) \in Nat \ {0} /\ DOMAIN sq = 1..Len(sq)
        BY <3>5, <4>1, LenProperties, EmptySeq
      <4>3. 1 \in 1..Len(sq)
        BY <4>2
      <4> QED
        BY <4>1, <4>2, <4>3
    <3>61. PICK k : k = w[s].made[1]
      OBVIOUS
    <3>7. k \in Range(w[s].made)
      BY <3>6, <3>61 DEF Range
    <3>8. k \in Posted /\ At(k).st # "removed" /\ k # n
      BY <1>0, <2>3, <3>7, MadeSides DEF RemoveInv, Kept, OwnInv, MadeOwn
    <3>9. At(k).src = u
      <4>1. HandlerSound(s)
        BY <1>0, RemoveKnown DEF MapInv
      <4> QED
        BY <3>1, <3>2, <3>6, <3>61, <4>1 DEF HandlerSound
    <3> QED
      BY <1>2, <1>3, <3>8, <3>9
  <2> QED
    BY <1>3, <2>4, <2>5
<1>4. At(n)'.st # "removed" \/ \E s \in Side : /\ (Remove(s) \/ Delete(s))
                                                /\ n = Target(s).msg
                                                /\ \A m \in Posted : m # n => At(m)' = At(m)
  BY <1>0, <1>1, StepPosts
<1> QED
  BY <1>1, <1>2, <1>3, <1>4

LEMMA StepCopy == CopiesNotEdited /\ CopyInv /\ RemoveInv' /\ [Next]_vars => CopyInv'
<1> SUFFICES ASSUME CopiesNotEdited, CopyInv, RemoveInv', [Next]_vars PROVE CopyInv'
  OBVIOUS
<1>0. RemoveInv /\ RowsOwn /\ MapInv
  BY RemoveKnown DEF CopyInv
<1>1. ASSUME NEW x \in rows', Live(x.src)', Safe(x.src) PROVE Covered(x.src)'
  <2>1. PICK u : u = x.src
    OBVIOUS
  <2>2. ASSUME NEW y \in rows, y.src = u PROVE Covered(u)'
    <3>1. u \in Posted
      BY <1>0, <2>2 DEF RowsOwn
    <3>2. Live(u)
      BY <1>0, <1>1, <2>1, <3>1, StepPosts, GoneStays
    <3>3. Covered(u)
      BY <1>1, <2>1, <2>2, <3>2 DEF CopyInv
    <3> QED
      BY <1>1, <2>1, <3>1, <3>3, StillCovered
  <2>3. ASSUME NEW s \in Side, w[s].pc = "send", UNCHANGED posts,
               u = Source(s).msg, x.dst \in Range(w[s].made)
        PROVE  Covered(u)'
    <3>1. PICK k : k = x.dst
      OBVIOUS
    <3>2. k \in Posted /\ At(k).st # "removed"
      BY <1>0, <2>3, <3>1, RemoveKnown, MadeSides DEF RemoveInv, Kept
    <3>3. At(k).src = u
      BY <1>0, <2>3, <3>1 DEF MapInv, HandlerSound, Range
    <3>4. k \in Posted' /\ At(k)' = At(k)
      BY <2>3, <3>2, SamePosts
    <3> QED
      BY <3>2, <3>3, <3>4 DEF Covered
  <2>4. Covered(u)'
    BY <1>0, <2>1, <2>2, <2>3, StepRows
  <2> QED
    BY <2>1, <2>4
<1>2. \A r \in rows' : Live(r.src)' /\ Safe(r.src) => Covered(r.src)'
  BY <1>1
<1>3. \A s \in Side : /\ stream'[s] \in Seq(SafeJobs) /\ q'[s] \in Seq(SafeJobs)
                      /\ job'[s] \in SafeJobs \cup {NoJob}
  BY SafeStreams, SafeQueues
<1>4. w'["tg"].pc = "remove" => w'["tg"].made # <<>>
  BY ReplacedFirst
<1> QED
  BY <1>2, <1>3, <1>4 DEF CopyInv

LEMMA InitCopy == Init => CopyInv
<1> SUFFICES ASSUME Init PROVE CopyInv
  OBVIOUS
<1>1. RemoveInv /\ rows = {}
  BY InitRemove DEF Init
<1>2. \A s \in Side : /\ stream[s] = <<>> /\ q[s] = <<>> /\ job[s] = NoJob
                      /\ w[s] = Stopped("idle")
  BY DEF Init, QueueInit
<1>3. w["tg"].pc = "idle"
  BY <1>2, StoppedRests DEF Side
<1>4. \A s \in Side : stream[s] \in Seq(SafeJobs) /\ q[s] \in Seq(SafeJobs)
  BY <1>2, NothingIn
<1> QED
  BY <1>1, <1>2, <1>3, <1>4 DEF CopyInv

\* NeverWithoutCopy: while users do not edit what they posted on Bale, a mirrored
\* message that is still there always has a copy the bridge did not delete: the
\* fallback of an edit on Telegram sends the replacement before it deletes the old
\* copy (process_tg_edit), and copies are deleted only with their message.
THEOREM CopyNeverLost ==
  ASSUME CopiesNotEdited, EchoesAwaited, BotReports, ~BaleSourcesEdited
  PROVE  Spec => []NeverWithoutCopy
<1>1. CopyInv /\ [Next]_vars => CopyInv'
  BY AllRemove, StepCopy DEF CopyInv
<1> QED
  BY <1>1, InitCopy, CopyInvSound, PTL DEF Spec

\* NeverWithoutCopy of the messages posted on Telegram.
TgNeverWithoutCopy ==
  \A r \in rows :
    Live(r.src) /\ SideOf(r.src.chat) = "tg" =>
      \E n \in Posted : At(n).src = r.src /\ At(n).st # "removed"

\* TgNeverWithoutCopy: process_tg_edit never leaves a message of Telegram without a
\* copy, even where the fallback of process_bale_edit may lose one of Bale.
THEOREM TgCopyNeverLost ==
  ASSUME CopiesNotEdited, EchoesAwaited, BotReports
  PROVE  Spec => []TgNeverWithoutCopy
<1>1. CopyInv /\ [Next]_vars => CopyInv'
  BY AllRemove, StepCopy DEF CopyInv
<1>2. CopyInv => TgNeverWithoutCopy
  BY DEF CopyInv, TgNeverWithoutCopy, Safe, Covered
<1> QED
  BY <1>1, <1>2, InitCopy, PTL DEF Spec

-----------------------------------------------------------------------------
(* A pair of one direction *)

\* Each channel is in one pair, and the operator turns no pair round.
PairsApart == \A p, r \in PairId : (TgOf[p] = TgOf[r] \/ BaleOf[p] = BaleOf[r]) => p = r
NoneTurned == Admin \subseteq {"both", "removed"}

\* The mode in which the engines of s have nothing to do.
Against(s) == IF s = "tg" THEN "bale2tg" ELSE "tg2bale"

\* What the handler of s is about to do goes the pair's way.
Onward(s) ==
  /\ w[s].pc = "send" => \A p \in w[s].todo : mode[p] # Against(s)
  /\ w[s].pc \in Editing \cup Deleting => mode[First(w[s].found).pair] # Against(s)

WayInv == BridgeInv /\ \A s \in Side : Onward(s)

\* A pair that goes the way of s does so until it is removed.
NoTurn == \A p \in PairId, s \in Side : mode[p] # Against(s) => mode'[p] # Against(s)

LEMMA ModeKept ==
  ASSUME BridgeInv, NoneTurned, [Next]_vars
  PROVE  NoTurn /\ (UNCHANGED mode \/ UNCHANGED <<posts, w>>)
<1>1. CASE UNCHANGED mode
  BY <1>1 DEF NoTurn
<1>2. ASSUME NEW p \in PairId, NEW md \in Mode, SetMode(p, md)
      PROVE  NoTurn /\ UNCHANGED <<posts, w>>
  <2>1. mode' = [mode EXCEPT ![p] = "both"] /\ UNCHANGED <<posts, w>>
    BY <1>2 DEF SetMode, NoneTurned
  <2> QED
    BY <2>1, InvFacts DEF NoTurn, Against
<1>3. ASSUME NEW p \in PairId, RemovePair(p)
      PROVE  NoTurn /\ UNCHANGED <<posts, w>>
  <2>1. mode' = [mode EXCEPT ![p] = "removed"] /\ UNCHANGED <<posts, w>>
    BY <1>3 DEF RemovePair
  <2> QED
    BY <2>1, InvFacts DEF NoTurn, Against
<1>4. CASE Outside
  <2>1. UNCHANGED mode \/ (\E p \in PairId : RemovePair(p) \/ \E md \in Mode : SetMode(p, md))
    BY <1>4 DEF Outside, UserPost, UserEdit, UserDelete, FpExpires, vars, dbVars
  <2> QED
    BY <1>1, <1>2, <1>3, <2>1
<1>5. CASE Crash
  BY <1>1, <1>5 DEF Crash, dbVars
<1>6. ASSUME NEW s \in Side, Intake(s) \/ Send(s) \/ Return(s)
      PROVE  UNCHANGED mode
  BY <1>6 DEF Intake, Send, Return, dbVars
<1>7. ASSUME NEW s \in Side, StartNew(s) \/ StartEdit(s) \/ StartDelete(s)
      PROVE  UNCHANGED mode
  BY <1>7 DEF StartNew, StartEdit, StartDelete, dbVars
<1>8. ASSUME NEW s \in Side, Moves(s)
      PROVE  UNCHANGED mode
  BY <1>8 DEF Moves, SendFails, Fetched, Edited, EditFalls, Resent, Remove, RemoveFails, Removed,
              Replace, Delete, Vanish, Deleted, DeleteFalls, Unmap, Breaks, Record, dbVars
<1> QED
  BY <1>1, <1>4, <1>5, <1>6, <1>7, <1>8, StepKinds

\* The engines take up a pair only if it goes their way.
LEMMA TakenUp ==
  ASSUME NEW s \in Side, NEW l
  PROVE  /\ \A F : EditsOf(s, l, F) /\ l.pc \in Editing \cup Deleting =>
                     mode[First(l.found).pair] # Against(s)
         /\ \A F, mids, table :
              DeletesOf(s, l, F, mids, table) /\ l.pc \in Editing \cup Deleting =>
                mode[First(l.found).pair] # Against(s)
<1>1. \A o : Applies(s, o) => mode[o.pair] # Against(s)
  BY DEF Applies, Against
<1> QED
  BY <1>1 DEF EditsOf, DeletesOf, Editing, Deleting

\* Whoever starts, goes on or rests, is on its way.
LEMMA OnwardStart ==
  ASSUME BridgeInv, NEW s \in Side, StartNew(s) \/ StartEdit(s) \/ StartDelete(s),
         UNCHANGED mode
  PROVE  Onward(s)'
<1>1. w'[s].pc \in Editing \cup Deleting => mode'[First(w'[s].found).pair] # Against(s)
  <2>1. \/ w'[s].pc \in {"send", "done"}
        \/ \E F : EditsOf(s, w'[s], F)
        \/ \E F, mids, table : DeletesOf(s, w'[s], F, mids, table)
    BY StartFacts
  <2> QED
    BY <2>1, TakenUp DEF Editing, Deleting
<1>2. w'[s].pc = "send" => \A p \in w'[s].todo : mode'[p] # Against(s)
  <2>1. CASE StartNew(s)
    <3> DEFINE pairs == PairsFor(s, Head(q[s]).items[1].msg.chat)
    <3>1. \/ Become(s, Stopped("done"))
          \/ Become(s, IF pairs = {} THEN Stopped("done")
                       ELSE [Stopped("send") EXCEPT !.todo = pairs])
      BY <2>1 DEF StartNew, Starts
    <3>2. pairs \subseteq PairId /\ \A p \in pairs : mode[p] # Against(s)
      BY DEF PairsFor, Against
    <3> HIDE DEF pairs
    <3>3. CASE Become(s, Stopped("done"))
      BY <3>3, InvFacts, StoppedFacts, BecomeFacts DEF PC
    <3>4. CASE Become(s, IF pairs = {} THEN Stopped("done")
                         ELSE [Stopped("send") EXCEPT !.todo = pairs])
      <4>1. SendsTo(w'[s], pairs)
        BY <3>2, <3>4, InvFacts, SendFrom
      <4>2. w'[s].pc = "send" => w'[s].todo = pairs
        BY <4>1 DEF SendsTo
      <4> QED
        BY <3>2, <4>2
    <3> QED
      BY <3>1, <3>3, <3>4
  <2>2. CASE StartEdit(s)
    <3>1. Take(s) /\ Head(q[s]).kind = "edit" /\ EditFrom(s, OtherSide(rows, Head(q[s]).items[1].msg))
      BY <2>2 DEF StartEdit, Starts
    <3>2. \A F : EditsOf(s, w'[s], F) => w'[s].pc # "send"
      BY DEF EditsOf
    <3>3. \E F : F \subseteq Found /\ FoundKnown(F, Posted) /\ EditFrom(s, F)
      BY <3>1, InvFacts, OtherSideFacts
    <3> QED
      BY <3>2, <3>3, InvFacts, EditFromFacts
  <2>3. CASE StartDelete(s)
    <3> DEFINE mids == Head(q[s]).ids
    <3>1. Take(s) /\ Head(q[s]).kind = "delete" /\ DeleteFrom(s, {}, mids, rows, ignore)
      BY <2>3 DEF StartDelete, Starts
    <3>2. mids \subseteq Msg /\ {} \subseteq Found /\ FoundKnown({}, Posted)
      BY <3>1, TakeFacts, InvFacts DEF HomeJob, About, FoundKnown
    <3> HIDE DEF mids
    <3>3. DeletesOf(s, w'[s], {}, mids, rows)
      BY <3>1, <3>2, InvFacts, DeleteFromFacts
    <3> QED
      BY <3>3 DEF DeletesOf
  <2> QED
    BY <2>1, <2>2, <2>3
<1> QED
  BY <1>1, <1>2 DEF Onward, Against

LEMMA OnwardMove ==
  ASSUME BridgeInv, NEW s \in Side, Onward(s), Ways(s), UNCHANGED mode
  PROVE  Onward(s)'
<1>1. CASE w[s].pc = "send" /\ NextPair(s)
  <2>1. SendsTo(w'[s], w[s].todo \ {FirstPair(s)})
    BY <1>1, NextPairFacts
  <2>2. w'[s].pc \in {"done", "send"} /\ (w'[s].pc = "send" => w'[s].todo \subseteq w[s].todo)
    BY <2>1 DEF SendsTo
  <2> QED
    BY <1>1, <2>2 DEF Onward, Editing, Deleting, Against
<1>2. CASE w[s].pc \in Editing /\ NextEdit(s)
  <2>1. EditsOf(s, w'[s], w[s].found \ {Target(s)})
    BY <1>2, NextEditFacts
  <2>2. w'[s].pc # "send"
    BY <2>1 DEF EditsOf
  <2> QED
    BY <2>1, <2>2, TakenUp DEF Onward, Against
<1>3. CASE \/ w[s].pc \in Editing /\ \E pc \in Editing : Goto(s, pc)
           \/ w[s].pc = "delete" /\ Goto(s, "deleted")
  <2>1. PICK pc : /\ Goto(s, pc)
                  /\ \/ w[s].pc \in Editing /\ pc \in Editing
                     \/ w[s].pc \in Deleting /\ pc \in Deleting
    BY <1>3 DEF Deleting
  <2>2. w'[s].pc = pc /\ w'[s].found = w[s].found /\ pc # "send"
    BY <2>1, GotoKnown DEF Editing, Deleting
  <2> QED
    BY <2>1, <2>2 DEF Onward, Against
<1>4. CASE w[s].pc \in Deleting /\ \E ign \in SUBSET Msg : Unmap(s, ign)
  <2>1. DeletesOf(s, w'[s], w[s].found \ {Target(s)}, w[s].mids, rows')
    BY <1>4, UnmapFacts
  <2>2. w'[s].pc # "send"
    BY <2>1 DEF DeletesOf
  <2> QED
    BY <2>1, <2>2, TakenUp DEF Onward, Against
<1>5. CASE Breaks(s)
  <2>1. w'[s].pc = "done"
    BY <1>5, BreakFacts
  <2> QED
    BY <2>1 DEF Onward, Against, Editing, Deleting
<1> QED
  BY <1>1, <1>2, <1>3, <1>4, <1>5 DEF Ways

\* A handler whose state stays, while pairs may be removed or opened.
LEMMA OnwardStays ==
  ASSUME BridgeInv, NoTurn, NEW s \in Side, Onward(s), w'[s] = w[s]
  PROVE  Onward(s)'
<1>1. w'[s].pc = w[s].pc /\ w'[s].todo = w[s].todo /\ w'[s].found = w[s].found
      /\ w[s].todo \subseteq PairId
  BY InvFacts
<1>2. CASE w[s].pc \in Editing \cup Deleting
  <2>1. First(w[s].found).pair \in PairId /\ w[s].pc # "send"
    BY <1>2, TargetFacts DEF Target, Editing, Deleting
  <2> QED
    BY <1>1, <1>2, <2>1 DEF Onward, NoTurn, Against
<1>3. CASE w[s].pc \notin Editing \cup Deleting
  BY <1>1, <1>3 DEF Onward, NoTurn, Against
<1> QED
  BY <1>2, <1>3

LEMMA StepWay == NoneTurned /\ WayInv /\ BridgeInv' /\ [Next]_vars => WayInv'
<1> SUFFICES ASSUME NoneTurned, WayInv, BridgeInv', [Next]_vars PROVE WayInv'
  OBVIOUS
<1>0. /\ BridgeInv /\ NoTurn /\ (UNCHANGED mode \/ UNCHANGED <<posts, w>>)
      /\ \A s \in Side : Onward(s)
  BY ModeKept DEF WayInv
<1>1. CASE UNCHANGED w
  BY <1>0, <1>1, OnwardStays DEF WayInv
<1>2. ASSUME NEW s \in Side, Others(s), Onward(s)' PROVE WayInv'
  <2>1. ASSUME NEW r \in Side PROVE Onward(r)'
    BY <1>0, <1>2, OnwardStays DEF Others
  <2> QED
    BY <2>1 DEF WayInv
<1>3. CASE Crash
  <2>1. ASSUME NEW s \in Side PROVE Onward(s)'
    BY <1>3, CrashFacts DEF Onward, Editing, Deleting
  <2> QED
    BY <2>1 DEF WayInv
<1>4. ASSUME NEW s \in Side, StartNew(s) \/ StartEdit(s) \/ StartDelete(s) PROVE WayInv'
  <2>1. CASE UNCHANGED mode
    BY <1>0, <1>2, <1>4, <2>1, StartFacts, OnwardStart
  <2> QED
    BY <1>0, <1>1, <2>1
<1>5. ASSUME NEW s \in Side, Moves(s) PROVE WayInv'
  <2>1. CASE UNCHANGED mode
    BY <1>0, <1>2, <1>5, <2>1, MoveWays, WayFacts, OnwardMove
  <2> QED
    BY <1>0, <1>1, <2>1
<1>6. ASSUME NEW s \in Side, Send(s) PROVE WayInv'
  <2>1. PICK m : m = [chat |-> SendChat(s), id |-> Len(posts[SendChat(s)]) + 1]
    OBVIOUS
  <2>2. Others(s) /\ w'[s].pc = w[s].pc /\ w'[s].todo = w[s].todo /\ w'[s].found = w[s].found
    BY <1>0, <1>6, <2>1, SendFacts
  <2>3. UNCHANGED mode
    BY <1>6 DEF Send, dbVars
  <2>4. Onward(s)'
    BY <1>0, <2>2, <2>3 DEF Onward, Against
  <2> QED
    BY <1>2, <2>2, <2>4
<1>7. ASSUME NEW s \in Side, Return(s) PROVE WayInv'
  <2>1. Others(s) /\ w'[s].pc = "idle"
    BY <1>0, <1>7, ReturnFacts
  <2>2. Onward(s)'
    BY <2>1 DEF Onward, Editing, Deleting
  <2> QED
    BY <1>2, <2>1, <2>2
<1>8. ASSUME NEW s \in Side, Intake(s) PROVE UNCHANGED w
  BY <1>8 DEF Intake
<1>9. CASE Outside
  BY <1>0, <1>1, <1>9, OutsideFacts
<1> QED
  BY <1>1, <1>3, <1>4, <1>5, <1>6, <1>7, <1>8, <1>9, StepKinds

LEMMA InitWay == Init => WayInv
<1> SUFFICES ASSUME Init PROVE WayInv
  OBVIOUS
<1>1. BridgeInv
  BY InitKnown
<1>2. ASSUME NEW s \in Side PROVE w[s].pc = "idle"
  BY StoppedRests DEF Init
<1> QED
  BY <1>1, <1>2 DEF WayInv, Onward, Editing, Deleting

\* A handler writes to one channel at a time, that of a pair that goes its way.
Writes(s, p) ==
  /\ mode[p] # Against(s)
  /\ \A c \in Chat : c # PairChat(s, p) => posts'[c] = posts[c]

LEMMA TargetWrites ==
  ASSUME WayInv, NEW s \in Side, w[s].pc \in Editing \cup Deleting,
         NEW p, SetPost(Target(s).msg, p)
  PROVE  \E r \in PairId : Writes(s, r)
<1>1. PICK r \in PairId : r = Target(s).pair
  BY TargetFacts DEF WayInv
<1>2. Target(s).msg.chat = PairChat(s, r) /\ mode[r] # Against(s)
  BY <1>1, TargetFacts DEF WayInv, Onward, Target
<1>3. posts \in [Chat -> Seq(PostRec)]
  BY InvFacts DEF WayInv, PostsTyped
<1>4. \A c \in Chat : c # Target(s).msg.chat => posts'[c] = posts[c]
  BY <1>3 DEF SetPost
<1> QED
  BY <1>2, <1>4 DEF Writes

LEMMA HandlerWrites ==
  ASSUME WayInv, NEW s \in Side,
         \/ Send(s) \/ Return(s) \/ StartNew(s) \/ StartEdit(s) \/ StartDelete(s) \/ Moves(s)
  PROVE  UNCHANGED posts \/ \E p \in PairId : Writes(s, p)
<1>0. BridgeInv /\ Onward(s)
  BY DEF WayInv
<1>1. CASE Send(s)
  <2>1. w[s].pc \in {"send", "resend"}
        /\ \E p : posts' = [posts EXCEPT ![SendChat(s)] = Append(@, p)]
    BY <1>1 DEF Send
  <2>2. posts \in [Chat -> Seq(PostRec)]
    BY <1>0, InvFacts DEF PostsTyped
  <2>3. \A c \in Chat : c # SendChat(s) => posts'[c] = posts[c]
    BY <2>1, <2>2
  <2>4. CASE w[s].pc = "send"
    <3>1. w[s].todo \subseteq PairId /\ w[s].todo # {}
      BY <1>0, <2>4, InvFacts DEF BridgeInv, HandlerKnown
    <3>2. PICK p \in PairId : p = Least(w[s].todo) /\ p \in w[s].todo
      BY <3>1, FirstPairLeft DEF FirstPair, Least
    <3>3. SendChat(s) = PairChat(s, p) /\ mode[p] # Against(s)
      BY <1>0, <2>4, <3>2, SendChatFacts DEF Onward
    <3> QED
      BY <2>3, <3>3 DEF Writes
  <2>5. CASE w[s].pc = "resend"
    <3>1. w[s].pc \in Editing
      BY <2>5 DEF Editing
    <3>2. PICK p \in PairId : p = Target(s).pair
      BY <1>0, <3>1, TargetFacts
    <3>3. SendChat(s) = PairChat(s, p) /\ mode[p] # Against(s)
      BY <1>0, <2>5, <3>1, <3>2, SendChatFacts DEF Onward, Target
    <3> QED
      BY <2>3, <3>3 DEF Writes
  <2> QED
    BY <2>1, <2>4, <2>5
<1>2. CASE Return(s) \/ StartNew(s) \/ StartEdit(s) \/ StartDelete(s)
  BY <1>0, <1>2, StartFacts, ReturnFacts
<1>3. CASE Moves(s)
  <2>1. CASE Remove(s) \/ Delete(s)
    <3>1. /\ w[s].pc \in Editing \cup Deleting
          /\ UNCHANGED posts \/ \E p : SetPost(Target(s).msg, p)
      BY <2>1 DEF Remove, Delete, Vanish, Editing, Deleting
    <3> QED
      BY <3>1, TargetWrites
  <2>2. CASE Rewrite(s)
    <3>1. w[s].pc \in Editing /\ \E p : SetPost(Target(s).msg, p)
      BY <2>2 DEF Rewrite, Editing
    <3> QED
      BY <3>1, TargetWrites
  <2>3. \/ Remove(s) \/ Delete(s) \/ Rewrite(s)
        \/ UNCHANGED posts
    BY <1>3 DEF Moves, SendFails, Fetched, Edited, EditFalls, Resent, RemoveFails, Removed, Replace,
           Deleted, DeleteFalls, Unmap, Breaks, Record, queueVars
  <2> QED
    BY <2>1, <2>2, <2>3
<1> QED
  BY <1>1, <1>2, <1>3

OneWayStep ==
  \A p \in PairId :
    w' # w =>
      /\ mode[p] = "tg2bale" => posts'[TgOf[p]] = posts[TgOf[p]]
      /\ mode[p] = "bale2tg" => posts'[BaleOf[p]] = posts[BaleOf[p]]

LEMMA WaysKept == PairsApart /\ WayInv /\ [Next]_vars => OneWayStep
<1> SUFFICES ASSUME PairsApart, WayInv, [Next]_vars PROVE OneWayStep
  OBVIOUS
<1>0. BridgeInv
  BY DEF WayInv
<1>1. CASE UNCHANGED posts \/ UNCHANGED w
  BY <1>1 DEF OneWayStep
<1>2. ASSUME NEW s \in Side, NEW r \in PairId, Writes(s, r) PROVE OneWayStep
  <2>1. ASSUME NEW p \in PairId, mode[p] = "tg2bale" PROVE posts'[TgOf[p]] = posts[TgOf[p]]
    <3>1. TgOf[p] \in Chat /\ TgOf[p] # PairChat(s, r)
      <4>1. CASE s = "bale"
        <5>1. p # r
          BY <1>2, <2>1, <4>1 DEF Writes, Against
        <5> QED
          BY <4>1, <5>1, PairChats DEF PairsApart, PairChat
      <4>2. CASE s = "tg"
        BY <4>2, PairChats DEF PairChat
      <4> QED
        BY <4>1, <4>2 DEF Side
    <3> QED
      BY <1>2, <3>1 DEF Writes
  <2>2. ASSUME NEW p \in PairId, mode[p] = "bale2tg" PROVE posts'[BaleOf[p]] = posts[BaleOf[p]]
    <3>1. BaleOf[p] \in Chat /\ BaleOf[p] # PairChat(s, r)
      <4>1. CASE s = "tg"
        <5>1. p # r
          BY <1>2, <2>2, <4>1 DEF Writes, Against
        <5> QED
          BY <4>1, <5>1, PairChats DEF PairsApart, PairChat
      <4>2. CASE s = "bale"
        BY <4>2, PairChats DEF PairChat
      <4> QED
        BY <4>1, <4>2 DEF Side
    <3> QED
      BY <1>2, <3>1 DEF Writes
  <2> QED
    BY <2>1, <2>2 DEF OneWayStep
<1>3. CASE Outside \/ Crash \/ \E s \in Side : Intake(s)
  BY <1>0, <1>1, <1>3, OutsideFacts, CrashFacts DEF Intake
<1> QED
  BY <1>1, <1>2, <1>3, HandlerWrites, StepKinds

\* OneWay: in a pair of one direction no handler ever touches the channel it goes
\* from: each looks at the direction when it takes up a pair or a mapped message
\* (for_tg, for_bale, and the checks in process_*_edit and process_*_delete), and an
\* operator who only opens or removes pairs cannot overtake it.
THEOREM OneWayKept ==
  ASSUME PairsApart, NoneTurned
  PROVE  Spec => OneWay
<1>1. WayInv /\ [Next]_vars => WayInv' /\ OneWayStep
  <2>1. WayInv => BridgeInv
    BY DEF WayInv
  <2> QED
    BY <2>1, StepKnown, StepWay, WaysKept
<1>2. Spec => [][OneWayStep]_vars
  BY <1>1, InitWay, PTL DEF Spec
<1> QED
  BY <1>2 DEF OneWay, OneWayStep
=============================================================================
