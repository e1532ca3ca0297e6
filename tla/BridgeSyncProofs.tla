-------------------------- MODULE BridgeSyncProofs --------------------------
(***************************************************************************)
(* What the bridge keeps hold of: no copy falls out of the map.  And how   *)
(* little it takes when the traffic goes one way: where the pairs do not   *)
(* answer, the map is sound, nothing is reflected, and nothing is removed  *)
(* of which no user deleted a copy, whatever users do to the copies and    *)
(* whatever fails.  Where besides users keep to the source channels and    *)
(* only edits fail, the two sides agree whenever the bridge is at rest.    *)
(***************************************************************************)
EXTENDS BridgeRemovalProofs, FiniteSetTheorems

-----------------------------------------------------------------------------
(* Copies stay within reach *)

\* Sends and deletions succeed, the process does not die, and no pair is removed.
NothingDropped ==
  /\ \A s \in Side : <<s, "send">> \notin Faulty /\ <<s, "delete">> \notin Faulty
  /\ MaxCrashes = 0 /\ "removed" \notin Admin
\* No text is so long that it takes several messages.
OnePart == \A t \in Text : Chunks[t] = 1

\* Where a move leads, when nothing is dropped: the handler takes up something
\* else, ...
Starting == {"send", "fetch", "edit", "delete", "done"}
Leaves(s) == w'[s].made = <<>> /\ w'[s].pc \in Starting
\* ... or goes on with what it has made.
Stays(s) == w'[s].made = w[s].made /\ w'[s].found = w[s].found

LEMMA TurnsTo ==
  ASSUME BridgeInv, NEW s \in Side
  PROVE  /\ w[s].pc = "send" /\ NextPair(s) => Leaves(s)
         /\ w[s].pc \in Editing /\ NextEdit(s) => Leaves(s)
         /\ \A ign \in SUBSET Msg : w[s].pc \in Deleting /\ Unmap(s, ign) => Leaves(s)
         /\ \A pc \in Editing : w[s].pc \in Editing /\ Goto(s, pc) => Stays(s) /\ w'[s].pc = pc
         /\ w[s].pc = "delete" /\ Goto(s, "deleted") => Stays(s) /\ w'[s].pc = "deleted"
<1>1. ASSUME w[s].pc = "send", NextPair(s) PROVE Leaves(s)
  <2>1. SendsTo(w'[s], w[s].todo \ {FirstPair(s)})
    BY <1>1, NextPairFacts
  <2> QED
    BY <2>1 DEF SendsTo, Rests, Leaves, Starting
<1>2. ASSUME w[s].pc \in Editing, NextEdit(s) PROVE Leaves(s)
  <2>1. EditsOf(s, w'[s], w[s].found \ {Target(s)})
    BY <1>2, NextEditFacts
  <2> QED
    BY <2>1 DEF EditsOf, Rests, Leaves, Starting
<1>3. ASSUME NEW ign \in SUBSET Msg, w[s].pc \in Deleting, Unmap(s, ign) PROVE Leaves(s)
  <2>1. DeletesOf(s, w'[s], w[s].found \ {Target(s)}, w[s].mids, rows')
    BY <1>3, UnmapFacts
  <2> QED
    BY <2>1 DEF DeletesOf, Rests, Leaves, Starting
<1>4. ASSUME NEW pc \in Editing, w[s].pc \in Editing, Goto(s, pc)
      PROVE  Stays(s) /\ w'[s].pc = pc
  BY <1>4, GotoKnown DEF Stays
<1>5. ASSUME w[s].pc = "delete", Goto(s, "deleted") PROVE Stays(s) /\ w'[s].pc = "deleted"
  <2>1. w[s].pc \in Deleting /\ "deleted" \in Deleting
    BY <1>5 DEF Deleting
  <2> QED
    BY <1>5, <2>1, GotoKnown DEF Stays
<1> QED
  BY <1>1, <1>2, <1>3, <1>4, <1>5

\* What a call that deletes leaves of its target.
LEMMA VanishedThen ==
  ASSUME BridgeInv, NEW s \in Side, Remove(s) \/ Delete(s), NEW m, m = Target(s).msg
  PROVE  m \in Posted /\ ~Live(m)'
<1>1. PICK pc : Vanish(s, pc) /\ w[s].pc \in Editing \cup Deleting
  BY DEF Remove, Delete, Editing, Deleting
<1>2. /\ m \in Posted
      /\ \/ At(m)' = [At(m) EXCEPT !.st = "removed"]
         \/ At(m).st # "live" /\ At(m)' = At(m)
  BY <1>1, VanishFacts
<1>3. At(m) \in PostRec
  BY <1>2, InvFacts, PostedFacts
<1>4. At(m)'.st # "live"
  BY <1>2, <1>3 DEF PostRec
<1> QED
  BY <1>2, <1>4 DEF Live

\* The row of what a handler works on is taken away when that is gone.
Unmaps(s) ==
  /\ w[s].pc \in Deleting /\ \E ign \in SUBSET Msg : Unmap(s, ign)
  /\ w[s].pc = "deleted" \/ ~Live(Target(s).msg)

\* The next call, or the next stage of the fallback.
Proceeds(s) ==
  \/ w[s].pc = "fetch" /\ w'[s].pc = "edit"
  \/ s = "tg" /\ w'[s].pc = "resend"
  \/ w'[s].pc = "remove"
  \/ /\ w'[s].pc = "removed" \/ (w[s].pc = "delete" /\ w'[s].pc = "deleted")
     /\ \A m : m = Target(s).msg => ~Live(m)'
  \/ s = "bale" /\ w[s].pc = "removed" /\ w'[s].pc = "resend"

LEMMA MoveKinds ==
  ASSUME NothingDropped, BridgeInv, NEW s \in Side, Moves(s)
  PROVE  \/ (Record(s) \/ Replace(s) \/ Unmaps(s)) /\ Leaves(s)
         \/ w[s].pc \in {"fetch", "edit"} /\ Leaves(s) /\ UNCHANGED rows
         \/ Stays(s) /\ UNCHANGED rows /\ Proceeds(s)
<1>1. ~MayFail(s, "send") /\ ~MayFail(s, "delete")
  BY SideFacts DEF NothingDropped, MayFail
<1>2. CASE SendFails(s)
  BY <1>1, <1>2 DEF SendFails
<1>3. CASE Fetched(s)
  <2>1. w[s].pc = "fetch" /\ w[s].pc \in Editing /\ UNCHANGED rows /\ "edit" \in Editing
    BY <1>3 DEF Fetched, Editing, dbVars
  <2>2. Goto(s, "edit") \/ NextEdit(s)
    BY <1>3 DEF Fetched
  <2> QED
    BY <2>1, <2>2, TurnsTo DEF Proceeds
<1>4. CASE Edited(s)
  BY <1>4, TurnsTo DEF Edited, Rewrite, Editing, dbVars
<1>5. CASE EditFalls(s)
  <2>1. /\ w[s].pc \in Editing /\ FallbackFirst(s) \in Editing /\ UNCHANGED rows
        /\ Goto(s, FallbackFirst(s))
    BY <1>5 DEF EditFalls, Rewrite, FallbackFirst, Editing, dbVars
  <2>2. Stays(s) /\ w'[s].pc = FallbackFirst(s)
    BY <2>1, TurnsTo
  <2> QED
    BY <2>1, <2>2 DEF FallbackFirst, Proceeds
<1>6. CASE Resent(s)
  <2>1. w[s].pc \in Editing /\ "remove" \in Editing /\ Goto(s, "remove") /\ UNCHANGED rows
    BY <1>6 DEF Resent, Editing, dbVars
  <2> QED
    BY <2>1, TurnsTo DEF Proceeds
<1>7. CASE Remove(s)
  <2>1. w[s].pc \in Editing /\ "removed" \in Editing /\ Goto(s, "removed") /\ UNCHANGED rows
    BY <1>7 DEF Remove, Vanish, Editing, dbVars
  <2>2. \A m : m = Target(s).msg => ~Live(m)'
    BY <1>7, VanishedThen
  <2> QED
    BY <2>1, <2>2, TurnsTo DEF Proceeds
<1>8. CASE RemoveFails(s)
  <2>1. /\ w[s].pc \in {"remove", "removed"} /\ UNCHANGED <<posts, rows>>
        /\ s = "tg" /\ ~Live(Target(s).msg) /\ Goto(s, "removed")
    BY <1>1, <1>8 DEF RemoveFails, DeletionMayFail, dbVars
  <2>2. w[s].pc \in Editing /\ "removed" \in Editing
    BY <2>1 DEF Editing
  <2>3. \A m : m = Target(s).msg => ~Live(m)'
    BY <2>1 DEF Live, At
  <2> QED
    BY <2>1, <2>2, <2>3, TurnsTo DEF Proceeds
<1>9. CASE Removed(s)
  <2>1. /\ w[s].pc = "removed" /\ w[s].pc \in Editing /\ "resend" \in Editing
        /\ s = "bale" /\ Goto(s, "resend") /\ UNCHANGED rows
    BY <1>9 DEF Removed, Editing, dbVars
  <2> QED
    BY <2>1, TurnsTo DEF Proceeds
<1>10. CASE Replace(s)
  <2>1. w[s].pc \in Editing /\ NextEdit(s)
    BY <1>10 DEF Replace, Editing
  <2> QED
    BY <1>10, <2>1, TurnsTo
<1>11. CASE Delete(s)
  <2>1. w[s].pc = "delete" /\ Goto(s, "deleted") /\ UNCHANGED rows
    BY <1>11 DEF Delete, Vanish, dbVars
  <2>2. \A m : m = Target(s).msg => ~Live(m)'
    BY <1>11, VanishedThen
  <2> QED
    BY <2>1, <2>2, TurnsTo DEF Proceeds
<1>12. CASE Deleted(s) \/ DeleteFalls(s)
  <2>1. ignore \in SUBSET Msg /\ ignore \ {Target(s).msg} \in SUBSET Msg
    BY InvFacts
  <2>2. w[s].pc \in Deleting /\ (w[s].pc = "deleted" \/ ~Live(Target(s).msg))
    BY <1>1, <1>12 DEF Deleted, DeleteFalls, DeletionMayFail, Deleting
  <2>3. PICK ign \in SUBSET Msg : Unmap(s, ign)
    BY <1>12, <2>1 DEF Deleted, DeleteFalls
  <2> QED
    BY <2>2, <2>3, TurnsTo DEF Unmaps
<1>13. CASE Record(s)
  BY <1>13, TurnsTo DEF Record
<1>14. CASE Breaks(s)
  <2>1. w'[s].pc = "done" /\ w'[s].made = <<>>
    BY <1>14, BreakFacts DEF Rests
  <2>2. w[s].pc \in {"fetch", "edit"} /\ UNCHANGED rows
    BY <1>1, <1>14 DEF Breaks
  <2> QED
    BY <2>1, <2>2 DEF Leaves, Starting
<1> QED
  BY <1>2, <1>3, <1>4, <1>5, <1>6, <1>7, <1>8, <1>9, <1>10, <1>11, <1>12, <1>13, <1>14 DEF Moves

\* Every other step leaves the rows as they are.
LEMMA RowsSame ==
  ASSUME NothingDropped, BridgeInv, [Next]_vars, \A s \in Side : ~Moves(s)
  PROVE  UNCHANGED rows
<1>1. CASE Outside
  BY <1>1 DEF Outside, UserPost, UserEdit, UserDelete, FpExpires, SetMode, RemovePair, vars,
              dbVars, NothingDropped
<1>2. CASE Crash
  BY <1>2, CrashFacts
<1>3. ASSUME NEW s \in Side,
             Intake(s) \/ Return(s) \/ Send(s) \/ StartNew(s) \/ StartEdit(s) \/ StartDelete(s)
      PROVE  UNCHANGED rows
  BY <1>3, ReturnFacts, StartFacts DEF Intake, Send, dbVars
<1> QED
  BY <1>1, <1>2, <1>3, StepKinds

\* The tables a step can leave.
LEMMA RowSteps ==
  ASSUME NothingDropped, BridgeInv, [Next]_vars
  PROVE  \/ UNCHANGED rows
         \/ \E s \in Side : (Record(s) \/ Replace(s) \/ Unmaps(s)) /\ Leaves(s) /\ Others(s)
<1>1. ASSUME NEW s \in Side, Moves(s) PROVE Others(s)
  BY <1>1, MoveWays, WayFacts
<1> QED
  BY <1>1, MoveKinds, RowsSame

\* What is recorded, replaced or taken away.
LEMMA RecordRows ==
  ASSUME BridgeInv, NEW s \in Side, Record(s)
  PROVE  /\ rows \subseteq rows' /\ \A r \in rows' : r \in rows \/ r.id > lastRow
         /\ \A m \in Range(w[s].made) : Mapped(m)'
<1>1. PICK made : made = w[s].made
  OBVIOUS
<1>2. /\ rows' = AddRows(rows, lastRow, FirstPair(s), Source(s).msg, made)
      /\ lastRow \in Nat /\ made \in Seq(Msg)
  BY <1>1, InvFacts DEF Record
<1>3. \A r \in rows' : r \in rows \/ r.id > lastRow
  BY <1>2, AddedRows
<1>4. ASSUME NEW i \in DOMAIN made PROVE \E r \in rows' : r.dst = made[i]
  <2> DEFINE r == [id |-> lastRow + i, pair |-> FirstPair(s), src |-> Source(s).msg,
                   dst |-> made[i]]
  <2>1. r \in rows' /\ r.dst = made[i]
    BY <1>2 DEF AddRows
  <2> QED
    BY <2>1
<1> QED
  BY <1>1, <1>2, <1>3, <1>4 DEF AddRows, Mapped, Range

LEMMA ReplaceRows ==
  ASSUME BridgeInv, NEW s \in Side, Replace(s)
  PROVE  /\ w[s].pc \in Editing
         /\ \A x \in rows' : \/ x \in rows /\ x.id # Target(s).row
                             \/ x.id = Target(s).row
         /\ \A r \in rows : r.id # Target(s).row => r \in rows'
         /\ \A r \in rows : r.id = Target(s).row =>
              \E x \in rows' : x.id = r.id /\ x.dst = w[s].made[1]
         /\ \A x \in rows' : \E r \in rows : x.id = r.id /\ x.src = r.src
<1>1. PICK m : m = [chat |-> Target(s).msg.chat, id |-> w[s].made[1].id]
  OBVIOUS
<1>2. PICK id : id = Target(s).row
  OBVIOUS
<1>3. /\ w[s].pc \in Editing /\ m = w[s].made[1] /\ rows' = ReplaceDst(rows, id, m)
      /\ rows \subseteq Row /\ \A x \in rows' : \E r \in rows : x.id = r.id /\ x.src = r.src
  BY <1>1, <1>2, ReplaceTable, InvFacts
<1>4. \A r \in rows : r.id # id => r \in rows'
  BY <1>3 DEF ReplaceDst
<1>5. ASSUME NEW r \in rows, r.id = id PROVE \E x \in rows' : x.id = r.id /\ x.dst = m
  <2>1. [r EXCEPT !.dst = m] \in rows'
    BY <1>3, <1>5 DEF ReplaceDst
  <2>2. [r EXCEPT !.dst = m].id = r.id /\ [r EXCEPT !.dst = m].dst = m
    BY <1>3 DEF Row
  <2> QED
    BY <2>1, <2>2
<1>6. ASSUME NEW x \in rows', x.id # id PROVE x \in rows
  <2>1. PICK r \in rows : x = IF r.id = id THEN [r EXCEPT !.dst = m] ELSE r
    BY <1>3 DEF ReplaceDst
  <2>2. r.id = id => x.id = id
    BY <1>3, <2>1 DEF Row
  <2> QED
    BY <1>6, <2>1, <2>2
<1> QED
  BY <1>2, <1>3, <1>4, <1>5, <1>6

LEMMA UnmapRows ==
  ASSUME BridgeInv, NEW s \in Side, Unmaps(s)
  PROVE  rows' = { r \in rows : r.id # Target(s).row }
<1>1. PICK ign \in SUBSET Msg : Unmap(s, ign) /\ w[s].pc \in Deleting
  BY DEF Unmaps
<1> QED
  BY <1>1 DEF Unmap, RemoveRow

-----------------------------------------------------------------------------
(* Any pairs: what every step does *)

LEMMA StepAges ==
  ASSUME BridgeInv, [Next]_vars
  PROVE  Aged /\ SrcKept
<1>1. CASE Outside
  BY <1>1, OutsideFacts DEF Aged
<1>2. CASE UNCHANGED posts
  BY <1>2, AgedSame DEF Aged
<1>3. ASSUME NEW s \in Side, Send(s) PROVE Aged
  BY <1>3, AgedSend
<1>4. ASSUME NEW s \in Side, Moves(s) PROVE Aged
  BY <1>4, MoveStream
<1>5. ASSUME NEW s \in Side, Intake(s) \/ Return(s) \/ StartNew(s) \/ StartEdit(s) \/ StartDelete(s)
      PROVE  UNCHANGED posts
  BY <1>5, ReturnFacts, StartFacts DEF Intake
<1> QED
  BY <1>1, <1>2, <1>3, <1>4, <1>5, StepKinds, CrashFacts DEF Aged

\* Rows come from a handler that sends; they keep their id and their source.
LEMMA StepGrows ==
  ASSUME BridgeInv, [Next]_vars
  PROVE  /\ SrcGrow
         /\ rows' \subseteq rows \/ \E s \in Side : Record(s) \/ Replace(s)
<1>1. CASE Outside
  BY <1>1, OutsideFacts, SrcFewer
<1>2. ASSUME NEW s \in Side, Record(s) PROVE SrcGrow
  BY <1>2, RecordRows DEF SrcGrow
<1>3. ASSUME NEW s \in Side, Replace(s) PROVE SrcGrow
  BY <1>3, ReplaceRows DEF SrcGrow
<1>4. ASSUME NEW s \in Side, Moves(s)
      PROVE  Record(s) \/ Replace(s) \/ rows' \subseteq rows
  BY <1>4, MoveRows
<1>5. ASSUME NEW s \in Side,
             Intake(s) \/ Return(s) \/ Send(s) \/ StartNew(s) \/ StartEdit(s) \/ StartDelete(s)
      PROVE  UNCHANGED rows
  BY <1>5, ReturnFacts, StartFacts DEF Intake, Send, dbVars
<1> QED
  BY <1>1, <1>2, <1>3, <1>4, <1>5, StepKinds, CrashFacts, SrcFewer

\* A send adds a copy of the source.
LEMMA SoundSend ==
  ASSUME BridgeInv, NEW s \in Side, HandlerSound(s), Send(s)
  PROVE  HandlerSound(s)'
<1>1. PICK m : m = [chat |-> SendChat(s), id |-> Len(posts[SendChat(s)]) + 1]
  OBVIOUS
<1>2. w[s].pc \in {"send", "resend"} /\ UNCHANGED <<q, job, rows>>
  BY DEF Send, dbVars
<1>3. /\ At(m)' = [st |-> "live", txt |-> Source(s).txt, src |-> Source(s).msg]
      /\ \A n \in Posted : At(n)' = At(n)
      /\ w'[s].pc = w[s].pc /\ w'[s].found = w[s].found
      /\ w'[s].made = Append(w[s].made, m)
  BY <1>1, SendFacts
<1>4. Source(s)' = Source(s) /\ w[s].made \in Seq(Msg)
  BY <1>2, InvFacts DEF Source
<1>5. \A i \in DOMAIN w[s].made : w[s].made[i] \in Posted
  BY DEF BridgeInv, HandlerKnown
<1>6. ASSUME NEW i \in DOMAIN w'[s].made
      PROVE  At(w[s].made[i])'.src = Source(s).msg
  <2>1. \/ w'[s].made[i] = m
        \/ i \in DOMAIN w[s].made /\ w'[s].made[i] = w[s].made[i]
    BY <1>3, <1>4
  <2>2. CASE w'[s].made[i] = m
    BY <1>3, <2>2
  <2>3. CASE i \in DOMAIN w[s].made /\ w'[s].made[i] = w[s].made[i]
    <3>1. PICK n \in Posted : n = w[s].made[i]
      BY <1>5, <2>3
    <3>2. At(n).src = Source(s).msg
      BY <1>2, <2>3, <3>1 DEF HandlerSound, Editing
    <3> QED
      BY <1>3, <2>3, <3>1, <3>2
  <2> QED
    BY <2>1, <2>2, <2>3
<1>7. w[s].pc \in Editing =>
        \A o \in w'[s].found, r \in rows' : r.id = o.row => r.src = Source(s).msg
  BY <1>2, <1>3 DEF HandlerSound
<1> QED
  BY <1>3, <1>4, <1>6, <1>7 DEF HandlerSound

-----------------------------------------------------------------------------
(* Rows and the handlers that found them *)

\* The row a handler of s has found something under is about that copy, of a
\* message of s; an edit still has its row.
RowOf(o, s) == \A r \in rows : r.id = o.row => r.dst = o.msg /\ SideOf(r.src.chat) = s
HasRow(o) == \E r \in rows : r.id = o.row
RowsFound(s) == \A o \in w[s].found : RowOf(o, s) /\ (w[s].pc \in Editing => HasRow(o))

\* A row goes, or gets another copy, when its own is gone.
Vanished(s) ==
  w[s].pc \in {"removed", "deleted"} \/ (s = "bale" /\ w[s].pc = "resend") =>
    ~Live(Target(s).msg)

\* Only a handler that sends, or replaces a copy, has made something.
HandsEmpty(s) == w[s].pc \notin {"send", "resend", "remove", "removed"} => w[s].made = <<>>

TrackInv ==
  /\ BridgeInv /\ CopyTracked
  /\ \A s \in Side : RowsFound(s) /\ Vanished(s) /\ HandsEmpty(s)

\* What a handler finds in a step is under a row of the table as the step leaves it.
FindsRows(s) ==
  \A o \in w'[s].found :
    (o \notin w[s].found \/ StartNew(s) \/ StartEdit(s) \/ StartDelete(s)) =>
      RowOf(o, s)' /\ HasRow(o)'

LEMMA TrackKnown ==
  ASSUME TrackInv
  PROVE  /\ BridgeInv
         /\ \A s \in Side : RowsFound(s) /\ Vanished(s) /\ HandsEmpty(s)
  BY DEF TrackInv

\* Two handlers never work on one row: the one serves the side of its source.
LEMMA OwnRows ==
  ASSUME TrackInv, NEW a \in Side, NEW s \in Side, a # s, w[a].pc \in Editing \cup Deleting,
         NEW o \in w[s].found, NEW r \in rows, r.id = o.row
  PROVE  r.id # Target(a).row
<1>1. Target(a) \in w[a].found
  BY TrackKnown, TargetFacts
<1> QED
  BY <1>1, TrackKnown DEF RowsFound, RowOf

\* A step of a handler spoils no row another has found, nor one it has left to do.
LEMMA RowStays ==
  ASSUME NothingDropped, TrackInv, [Next]_vars, NEW s \in Side,
         NEW o \in w[s].found, o \in w'[s].found
  PROVE  /\ RowOf(o, s)'
         /\ w[s].pc \in Editing /\ w'[s].pc \in Editing => HasRow(o)'
<1>0. /\ BridgeInv /\ RowOf(o, s) /\ (w[s].pc \in Editing => HasRow(o))
      /\ o.row \in Nat /\ o.row <= lastRow /\ lastRow \in Nat /\ rows \subseteq Row
  BY TrackKnown, InvFacts DEF RowsFound, BridgeInv, FoundRows, Found
<1>1. CASE UNCHANGED rows
  BY <1>0, <1>1 DEF RowOf, HasRow
<1>2. ASSUME NEW a \in Side, Record(a)
      PROVE  RowOf(o, s)' /\ (HasRow(o) => HasRow(o)')
  <2>1. \A r \in rows : r.id \in Nat
    BY <1>0 DEF Row
  <2>2. \A r \in rows' : r.id = o.row => r \in rows
    BY <1>0, <1>2, RecordRows
  <2> QED
    BY <1>0, <1>2, <2>2, RecordRows DEF RowOf, HasRow
<1>3. ASSUME NEW a \in Side, Replace(a), Others(a)
      PROVE  RowOf(o, s)' /\ (HasRow(o) => HasRow(o)')
  <2>1. w[a].pc \in Editing
    BY <1>0, <1>3, ReplaceRows
  <2>2. ASSUME a = s PROVE o.row # Target(a).row
    <3>1. EditsOf(s, w'[s], w[s].found \ {Target(s)})
      BY <1>0, <1>3, <2>1, <2>2, NextEditFacts DEF Replace
    <3>2. o # Target(s) /\ Target(s) \in w[s].found /\ FoundKnown(w[s].found, Posted)
      BY <1>0, <2>1, <2>2, <3>1, TargetFacts DEF EditsOf, Rests, BridgeInv, HandlerKnown
    <3> QED
      BY <2>2, <3>2 DEF FoundKnown
  <2>3. \A r \in rows : r.id = o.row => r.id # Target(a).row
    BY <2>1, <2>2, OwnRows
  <2>4. \A x \in rows' : x.id = o.row => x \in rows
    BY <1>0, <1>3, <2>3, ReplaceRows
  <2> QED
    BY <1>0, <1>3, <2>3, <2>4, ReplaceRows DEF RowOf, HasRow
<1>4. ASSUME NEW a \in Side, Unmaps(a), Leaves(a), Others(a)
      PROVE  RowOf(o, s)' /\ (w'[s].pc \in Editing => w[s].pc \in Editing /\ (HasRow(o) => HasRow(o)'))
  <2>1. rows' = { r \in rows : r.id # Target(a).row } /\ w[a].pc \in Deleting
    BY <1>0, <1>4, UnmapRows DEF Unmaps
  <2>2. CASE a = s
    <3>1. PICK ign \in SUBSET Msg : Unmap(a, ign)
      BY <1>4 DEF Unmaps
    <3>2. DeletesOf(a, w'[a], w[a].found \ {Target(a)}, w[a].mids, rows')
      BY <1>0, <2>1, <3>1, UnmapFacts
    <3>3. w'[s].pc \notin Editing
      BY <2>2, <3>2 DEF DeletesOf, Editing
    <3> QED
      BY <1>0, <2>1, <3>3 DEF RowOf
  <2>3. CASE a # s
    <3>1. \A r \in rows : r.id = o.row => r.id # Target(a).row
      BY <2>1, <2>3, OwnRows
    <3>2. w'[s] = w[s]
      BY <1>4, <2>3 DEF Others
    <3> QED
      BY <1>0, <2>1, <3>1, <3>2 DEF RowOf, HasRow
  <2> QED
    BY <2>2, <2>3
<1> QED
  BY <1>0, <1>1, <1>2, <1>3, <1>4, RowSteps

\* A handler begins to edit when it takes up a job, and then holds nothing.
LEMMA EditsBegin ==
  ASSUME BridgeInv, [Next]_vars, NEW s \in Side, w[s].pc \notin Editing, w'[s].pc \in Editing
  PROVE  StartNew(s) \/ StartEdit(s) \/ StartDelete(s)
<1>1. ASSUME NEW a \in Side, a # s, Others(a) PROVE FALSE
  BY <1>1 DEF Others
<1>2. ~Outside /\ ~Crash /\ \A a \in Side : ~Intake(a)
  BY OutsideFacts, CrashFacts DEF Intake, Editing
<1>3. ASSUME NEW a \in Side, Send(a) PROVE FALSE
  <2>1. PICK m : m = [chat |-> SendChat(a), id |-> Len(posts[SendChat(a)]) + 1]
    OBVIOUS
  <2> QED
    BY <1>1, <1>3, <2>1, SendFacts
<1>4. ASSUME NEW a \in Side, Return(a) PROVE FALSE
  BY <1>1, <1>4, ReturnFacts DEF Editing
<1>5. ASSUME NEW a \in Side, Moves(a) PROVE FALSE
  BY <1>1, <1>5, MoveWays, WayFacts
<1>6. ASSUME NEW a \in Side, StartNew(a) \/ StartEdit(a) \/ StartDelete(a) PROVE a = s
  BY <1>1, <1>6, StartFacts
<1> QED
  BY <1>2, <1>3, <1>4, <1>5, <1>6, StepKinds

LEMMA RowsFoundStep ==
  ASSUME NothingDropped, TrackInv, [Next]_vars, NEW s \in Side, FindsRows(s)
  PROVE  RowsFound(s)'
<1> SUFFICES ASSUME NEW o \in w'[s].found
             PROVE  RowOf(o, s)' /\ (w'[s].pc \in Editing => HasRow(o)')
  BY DEF RowsFound
<1>1. CASE o \notin w[s].found
  BY <1>1 DEF FindsRows
<1>2. CASE o \in w[s].found /\ w[s].pc \in Editing
  BY <1>2, RowStays
<1>3. CASE o \in w[s].found /\ w[s].pc \notin Editing
  <2>1. RowOf(o, s)'
    BY <1>3, RowStays
  <2>2. ASSUME w'[s].pc \in Editing PROVE HasRow(o)'
    BY <1>3, <2>2, TrackKnown, EditsBegin DEF FindsRows
  <2> QED
    BY <2>1, <2>2
<1> QED
  BY <1>1, <1>2, <1>3

\* Steps that leave the handler of s as it is, or stop it.
LEMMA TrackSteps ==
  ASSUME NothingDropped, BridgeInv, [Next]_vars, NEW s \in Side
  PROVE  \/ w'[s] = w[s]
         \/ Send(s)
         \/ w'[s].pc \in Starting \cup {"idle"} /\ w'[s].made = <<>> /\ (Return(s) \/ Take(s))
         \/ Moves(s)
<1>1. ASSUME NEW a \in Side, a # s, Others(a) PROVE w'[s] = w[s]
  BY <1>1 DEF Others
<1>2. ~Crash
  BY InvFacts DEF Crash, NothingDropped
<1>3. CASE Outside \/ \E a \in Side : Intake(a)
  BY <1>3, OutsideFacts DEF Intake
<1>4. ASSUME NEW a \in Side, Send(a) PROVE w'[s] = w[s] \/ Send(s)
  <2>1. PICK m : m = [chat |-> SendChat(a), id |-> Len(posts[SendChat(a)]) + 1]
    OBVIOUS
  <2> QED
    BY <1>1, <1>4, <2>1, SendFacts
<1>5. ASSUME NEW a \in Side, Return(a)
      PROVE  w'[s] = w[s] \/ (w'[s].pc = "idle" /\ w'[s].made = <<>> /\ Return(s))
  BY <1>1, <1>5, ReturnFacts DEF Rests
<1>6. ASSUME NEW a \in Side, StartNew(a) \/ StartEdit(a) \/ StartDelete(a)
      PROVE  w'[s] = w[s] \/ (w'[s].pc \in Starting /\ w'[s].made = <<>> /\ Take(s))
  <2>1. Others(a) /\ Take(a) /\ w'[a].made = <<>>
    BY <1>6, StartFacts
  <2>2. w'[a].pc \in Starting
    BY <1>6, StartFacts DEF EditsOf, DeletesOf, Starting
  <2> QED
    BY <1>1, <2>1, <2>2
<1>7. ASSUME NEW a \in Side, Moves(a) PROVE w'[s] = w[s] \/ Moves(s)
  BY <1>1, <1>7, MoveWays, WayFacts
<1> QED
  BY <1>2, <1>3, <1>4, <1>5, <1>6, <1>7, StepKinds

LEMMA VanishedStep ==
  ASSUME NothingDropped, TrackInv, [Next]_vars, NEW s \in Side
  PROVE  Vanished(s)'
<1>0. BridgeInv /\ Aged /\ Vanished(s)
  BY TrackKnown, StepAges
<1>1. ASSUME w[s].pc \in Editing \cup Deleting, w'[s].found = w[s].found, ~Live(Target(s).msg)
      PROVE  Vanished(s)'
  <2>1. PICK m : m = Target(s).msg
    OBVIOUS
  <2>2. ~Live(m)'
    BY <1>0, <1>1, <2>1, TargetFacts, GoneStays
  <2>3. Target(s)' = Target(s)
    BY <1>1 DEF Target
  <2> QED
    BY <2>1, <2>2, <2>3 DEF Vanished, Live, At
<1>2. ASSUME w'[s].pc = w[s].pc, w'[s].found = w[s].found PROVE Vanished(s)'
  <2>1. CASE w[s].pc \in {"removed", "deleted"} \/ (s = "bale" /\ w[s].pc = "resend")
    BY <1>0, <1>1, <1>2, <2>1 DEF Vanished, Editing, Deleting
  <2>2. CASE ~(w[s].pc \in {"removed", "deleted"} \/ (s = "bale" /\ w[s].pc = "resend"))
    BY <1>2, <2>2 DEF Vanished
  <2> QED
    BY <2>1, <2>2
<1>3. CASE Send(s)
  <2>1. PICK m : m = [chat |-> SendChat(s), id |-> Len(posts[SendChat(s)]) + 1]
    OBVIOUS
  <2> QED
    BY <1>0, <1>2, <1>3, <2>1, SendFacts
<1>4. CASE w'[s].pc \in Starting \cup {"idle"}
  BY <1>4 DEF Vanished, Starting
<1>5. CASE Moves(s)
  <2>1. CASE Stays(s) /\ Proceeds(s)
    <3>1. PICK m : m = Target(s).msg
      OBVIOUS
    <3>2. Target(s)' = Target(s)
      BY <2>1 DEF Target, Stays
    <3>3. CASE ~Live(m)'
      BY <3>1, <3>2, <3>3 DEF Vanished, Live, At
    <3>4. CASE s = "bale" /\ w[s].pc = "removed"
      BY <1>0, <1>1, <2>1, <3>4 DEF Vanished, Stays, Editing
    <3>5. CASE w'[s].pc \in {"edit", "remove"} \/ (s = "tg" /\ w'[s].pc = "resend")
      BY <3>5 DEF Vanished
    <3> QED
      BY <2>1, <3>1, <3>3, <3>4, <3>5 DEF Proceeds
  <2> QED
    BY <1>0, <1>4, <1>5, <2>1, MoveKinds DEF Leaves
<1> QED
  BY <1>0, <1>2, <1>3, <1>4, <1>5, TrackSteps

LEMMA HandsEmptyStep ==
  ASSUME NothingDropped, TrackInv, [Next]_vars, NEW s \in Side
  PROVE  HandsEmpty(s)'
<1>0. BridgeInv /\ HandsEmpty(s)
  BY TrackKnown DEF TrackInv
<1>1. CASE w'[s] = w[s]
  BY <1>0, <1>1 DEF HandsEmpty
<1>2. CASE Send(s)
  <2>1. PICK m : m = [chat |-> SendChat(s), id |-> Len(posts[SendChat(s)]) + 1]
    OBVIOUS
  <2> QED
    BY <1>0, <1>2, <2>1, SendFacts DEF HandsEmpty, Send
<1>3. CASE w'[s].made = <<>>
  BY <1>3 DEF HandsEmpty
<1>4. CASE Moves(s)
  <2>1. CASE Stays(s) /\ Proceeds(s)
    BY <1>0, <2>1 DEF Stays, Proceeds, HandsEmpty
  <2> QED
    BY <1>0, <1>3, <1>4, <2>1, MoveKinds DEF Leaves
<1> QED
  BY <1>0, <1>1, <1>2, <1>3, <1>4, TrackSteps

\* A copy that is there stays in the map.
LEMMA MappedStays ==
  ASSUME NothingDropped, TrackInv, [Next]_vars, NEW m, Mapped(m), Live(m)
  PROVE  Mapped(m)'
<1>0. BridgeInv
  BY TrackKnown
<1>1. PICK r \in rows : r.dst = m
  BY DEF Mapped
<1>2. CASE UNCHANGED rows
  BY <1>1, <1>2 DEF Mapped
<1>3. ASSUME NEW s \in Side, w[s].pc \in Editing \cup Deleting, ~Live(Target(s).msg)
      PROVE  r.id # Target(s).row
  <2>1. Target(s) \in w[s].found
    BY <1>0, <1>3, TargetFacts
  <2> QED
    BY <1>1, <1>3, <2>1, TrackKnown DEF RowsFound, RowOf
<1>4. ASSUME NEW s \in Side, Record(s) PROVE Mapped(m)'
  BY <1>0, <1>1, <1>4, RecordRows DEF Mapped
<1>5. ASSUME NEW s \in Side, Replace(s) PROVE Mapped(m)'
  <2>1. w[s].pc \in Editing /\ ~Live(Target(s).msg)
    BY <1>5, TrackKnown DEF Replace, Vanished, Editing, Side
  <2> QED
    BY <1>0, <1>1, <1>3, <1>5, <2>1, ReplaceRows DEF Mapped
<1>6. ASSUME NEW s \in Side, Unmaps(s) PROVE Mapped(m)'
  <2>1. w[s].pc \in Deleting /\ ~Live(Target(s).msg)
    BY <1>6, TrackKnown DEF Unmaps, Vanished
  <2> QED
    BY <1>0, <1>1, <1>3, <1>6, <2>1, UnmapRows DEF Mapped
<1> QED
  BY <1>0, <1>2, <1>4, <1>5, <1>6, RowSteps

\* What a handler has made it keeps until it is in the map.
LEMMA MadeStays ==
  ASSUME OnePart, NothingDropped, TrackInv, [Next]_vars, NEW s \in Side,
         NEW m \in Range(w[s].made)
  PROVE  m \in Range(w'[s].made) \/ Mapped(m)'
<1>0. BridgeInv /\ HandsEmpty(s) /\ RowsFound(s)
  BY TrackKnown DEF TrackInv
<1>1. w[s].made \in Seq(Msg) /\ w[s].made # <<>>
  BY <1>0, InvFacts DEF Range
<1>2. w[s].pc \in {"send", "resend", "remove", "removed"}
  BY <1>0, <1>1 DEF HandsEmpty
<1>3. CASE w'[s].made = w[s].made
  BY <1>3
<1>4. CASE Send(s)
  <2>1. PICK n : n = [chat |-> SendChat(s), id |-> Len(posts[SendChat(s)]) + 1]
    OBVIOUS
  <2>2. w'[s].made = Append(w[s].made, n)
    BY <1>0, <1>4, <2>1, SendFacts
  <2> QED
    BY <1>1, <2>2 DEF Range
<1>5. ~Return(s) /\ ~Take(s)
  <2>1. ~Return(s)
    BY <1>2 DEF Return
  <2>2. HandlerKnown(s, w[s], job[s], Posted)
    BY <1>0 DEF BridgeInv
  <2>3. job[s].kind \in {"new", "edit"}
    BY <1>2, <2>2 DEF HandlerKnown, Editing
  <2> QED
    BY <2>1, <2>3 DEF Take, Dequeue, NoJob
<1>6. CASE Record(s)
  BY <1>0, <1>6, RecordRows
<1>7. CASE Replace(s)
  <2>1. w[s].pc \in Editing /\ Complete(s)
    BY <1>7 DEF Replace, Editing
  <2>2. Len(w[s].made) = 1
    BY <1>0, <2>1, SourceFacts DEF Complete, OnePart
  <2>3. m = w[s].made[1]
    BY <1>1, <2>2 DEF Range
  <2>4. HasRow(Target(s))
    BY <1>0, <2>1, TargetFacts DEF RowsFound
  <2> QED
    BY <1>0, <1>7, <2>3, <2>4, ReplaceRows DEF HasRow, Mapped
<1>8. CASE Moves(s)
  <2>1. ~Unmaps(s)
    BY <1>2 DEF Unmaps, Deleting
  <2> QED
    BY <1>0, <1>2, <1>3, <1>6, <1>7, <1>8, <2>1, MoveKinds DEF Stays
<1> QED
  BY <1>0, <1>3, <1>4, <1>5, <1>8, TrackSteps

LEMMA TrackedStep ==
  ASSUME OnePart, NothingDropped, TrackInv, [Next]_vars
  PROVE  CopyTracked'
<1>0. BridgeInv /\ Aged
  BY TrackKnown, StepAges
<1> SUFFICES ASSUME NEW m \in Posted', ~ByUser(m)', Live(m)'
             PROVE  Mapped(m)' \/ \E s \in Side : m \in Range(w'[s].made)
  BY DEF CopyTracked, Mapped
<1>1. CASE m \in Posted
  <2>1. Live(m) /\ ~ByUser(m)
    BY <1>0, <1>1 DEF Aged, SrcKept, Live, ByUser
  <2>2. Mapped(m) \/ \E s \in Side : m \in Range(w[s].made)
    BY <1>1, <2>1 DEF TrackInv, CopyTracked, Mapped
  <2> QED
    BY <2>1, <2>2, MappedStays, MadeStays
<1>2. CASE m \notin Posted
  <2>1. ASSUME NEW s \in Side, Send(s) PROVE m \in Range(w'[s].made)
    <3>1. PICK n \in Msg : Posted' = Posted \cup {n} /\ w'[s].made = Append(w[s].made, n)
      BY <1>0, <2>1, AgedSend
    <3>2. m = n /\ w[s].made \in Seq(Msg)
      BY <1>0, <1>2, <3>1, InvFacts
    <3> QED
      BY <3>1, <3>2 DEF Range
  <2>2. ~Outside
    BY <1>0, <1>2, OutsideFacts
  <2>3. ASSUME NEW s \in Side, Moves(s) PROVE FALSE
    BY <1>0, <1>2, <2>3, MoveStream
  <2>4. ~Crash
    BY <1>2, CrashFacts, SamePosts
  <2>5. ASSUME NEW s \in Side, Intake(s) \/ Return(s) \/ StartNew(s) \/ StartEdit(s) \/ StartDelete(s)
        PROVE  FALSE
    BY <1>0, <1>2, <2>5, ReturnFacts, StartFacts, SamePosts DEF Intake
  <2> QED
    BY <2>1, <2>2, <2>3, <2>4, <2>5, StepKinds
<1> QED
  BY <1>1, <1>2

LEMMA StepTrack ==
  ASSUME NothingDropped, OnePart, TrackInv, [Next]_vars, \A s \in Side : FindsRows(s)
  PROVE  TrackInv'
<1>1. BridgeInv'
  BY TrackKnown, StepKnown
<1>2. \A s \in Side : RowsFound(s)' /\ Vanished(s)' /\ HandsEmpty(s)'
  BY RowsFoundStep, VanishedStep, HandsEmptyStep
<1> QED
  BY <1>1, <1>2, TrackedStep DEF TrackInv

LEMMA InitTrack == Init => TrackInv
<1> SUFFICES ASSUME Init PROVE TrackInv
  OBVIOUS
<1>1. BridgeInv
  BY InitKnown
<1>2. Posted = {}
  BY DEF Init, Posted, Exists, Msg
<1>3. \A s \in Side : Rests(w[s]) /\ w[s].pc = "idle"
  BY StoppedRests DEF Init
<1> QED
  BY <1>1, <1>2, <1>3 DEF TrackInv, CopyTracked, RowsFound, Vanished, HandsEmpty,
                          Rests, Editing

-----------------------------------------------------------------------------
(* Pairs of both directions *)

\* Users delete what they posted.
CopiesNotDeleted == \A s \in Side : <<s, "copy">> \notin UserDeletes

\* Only users delete, and not the bridge's posts.
Undeleted == \A m \in Posted : ~ByUser(m) => At(m).st # "deleted"

QuietInv == RemoveInv /\ Undeleted /\ TrackInv

LEMMA QuietKnown ==
  ASSUME QuietInv
  PROVE  RemoveInv /\ OnceInv /\ OwnInv /\ MapInv /\ BridgeInv /\ RowsOwn
  BY RemoveKnown DEF QuietInv

LEMMA UndeletedStays ==
  ASSUME CopiesNotDeleted, QuietInv, [Next]_vars
  PROVE  Undeleted'
<1>0. RemoveInv /\ BridgeInv /\ Aged
  BY RemoveKnown, StepPosts DEF QuietInv
<1> SUFFICES ASSUME NEW m \in Posted', ~ByUser(m)', At(m)'.st = "deleted" PROVE FALSE
  BY DEF Undeleted
<1>1. m \in Posted /\ ~ByUser(m) /\ Live(m) /\ At(m).st # "deleted"
  BY <1>0 DEF Aged, SrcKept, Live, ByUser, QuietInv, Undeleted
<1>2. At(m)'.st # At(m).st
  BY <1>1
<1>3. CASE Outside
  <2>1. ASSUME NEW n \in Msg, UserDelete(n) PROVE FALSE
    <3>1. n = m
      BY <1>0, <1>1, <1>2, <2>1, AgedUser
    <3>2. <<SideOf(m.chat), "copy">> \in UserDeletes
      BY <1>1, <2>1, <3>1 DEF UserDelete, MayTouch
    <3> QED
      BY <3>2, SideOfType DEF CopiesNotDeleted
  <2>2. ASSUME NEW n \in Msg, NEW t \in Text, UserEdit(n, t) PROVE FALSE
    <3>1. n = m
      BY <1>0, <1>1, <1>2, <2>2, AgedUser
    <3> QED
      BY <1>0, <2>1, <2>2, <3>1, AgedUser
  <2>3. ASSUME NEW c \in Chat, NEW t \in Text, UserPost(c, t) PROVE FALSE
    BY <1>0, <1>1, <1>2, <2>3, AgedPost
  <2>4. CASE UNCHANGED posts
    BY <1>1, <1>2, <2>4, SamePosts
  <2> QED
    BY <1>3, <2>1, <2>2, <2>3, <2>4 DEF Outside, FpExpires, SetMode, RemovePair, vars
<1>4. CASE UNCHANGED posts
  BY <1>1, <1>2, <1>4, SamePosts
<1>5. ASSUME NEW s \in Side, Send(s) PROVE FALSE
  BY <1>0, <1>1, <1>2, <1>5, AgedSend
<1>6. ASSUME NEW s \in Side, Moves(s) PROVE FALSE
  <2>1. At(m)'.st = At(m).st \/ At(m)'.st = "removed"
    BY <1>0, <1>1, <1>6, MoveStream
  <2> QED
    BY <1>2, <2>1
<1>7. ASSUME NEW s \in Side, Intake(s) \/ Return(s) \/ StartNew(s) \/ StartEdit(s) \/ StartDelete(s)
      PROVE  UNCHANGED posts
  BY <1>0, <1>7, ReturnFacts, StartFacts DEF Intake
<1> QED
  BY <1>3, <1>4, <1>5, <1>6, <1>7, StepKinds, CrashFacts

\* The other end of a message of s, an original or one that was removed: its copies.
LEMMA QueryRows ==
  ASSUME QuietInv, BridgeInv', rows' \subseteq rows, NEW s \in Side, NEW m \in Posted,
         SideOf(m.chat) = s, ByUser(m) \/ (~Live(m) /\ Unshown(m)), NEW o \in OtherSide(rows', m)
  PROVE  RowOf(o, s)' /\ HasRow(o)'
<1>1. rows' \subseteq Row /\ RowsKnown(rows', lastRow', Posted')
  BY DEF BridgeInv, TypeOK
<1>2. PICK r \in rows' : /\ r.id = o.row
                         /\ \/ r.src = m /\ r.dst = o.msg
                            \/ r.src # m /\ r.dst = m /\ r.src = o.msg
  BY <1>1, OtherSideFacts
<1>3. r \in rows /\ r.dst # m
  <2>1. r \in rows /\ (r.dst = m => ~ByUser(m) /\ Mapped(m))
    BY <1>2, QuietKnown DEF RowsOwn, Mapped
  <2>2. ~ByUser(m) => At(m).st # "deleted"
    BY DEF QuietInv, Undeleted
  <2>3. At(m).st \in {"live", "deleted", "removed"}
    BY QuietKnown, InvFacts, PostedFacts DEF PostRec
  <2> QED
    BY <2>1, <2>2, <2>3 DEF Live, Unshown
<1>4. r.src = m /\ r.dst = o.msg
  BY <1>2, <1>3
<1>5. \A x \in rows' : x.id = o.row => x = r
  BY <1>1, <1>2 DEF RowsKnown
<1> QED
  BY <1>2, <1>4, <1>5 DEF RowOf, HasRow

\* What a handler starts with it finds in the table as it is.
LEMMA FoundFirst ==
  ASSUME QuietInv, BridgeInv', NEW s \in Side, StartNew(s) \/ StartEdit(s) \/ StartDelete(s),
         NEW o \in w'[s].found
  PROVE  RowOf(o, s)' /\ HasRow(o)'
<1>0. BridgeInv /\ RemoveInv /\ MapInv /\ OnceInv
  BY QuietKnown
<1>1. Take(s) /\ rows' = rows
  BY <1>0, StartFacts
<1>2. q[s] # <<>> /\ Head(q[s]) \in HomeJob(s, Posted) /\ Head(q[s]) \in Job
  BY <1>0, <1>1, TakeFacts
<1>3. /\ Head(q[s]) \in FromUser /\ Head(q[s]) \in GoneJobs /\ Head(q[s]) \in UserJobs
  <2>1. q[s] \in Seq(FromUser) /\ q[s] \in Seq(GoneJobs) /\ q[s] \in Seq(UserJobs)
    BY <1>0 DEF MapInv, OnceInv, RemoveInv
  <2> QED
    BY <1>2, <2>1, HeadTailProperties
<1>4. CASE Head(q[s]).kind = "edit" /\ EditsOf(s, w'[s], OtherSide(rows, Head(q[s]).items[1].msg))
  <2>1. PICK m : m = Head(q[s]).items[1].msg
    OBVIOUS
  <2>2. m \in Posted /\ ByUser(m)
    BY <1>3, <1>4, <2>1 DEF FromUser
  <2>3. SideOf(m.chat) = s
    BY <1>2, <1>4, <2>1 DEF HomeJob, About
  <2>4. o \in OtherSide(rows', m)
    BY <1>1, <1>4, <2>1 DEF EditsOf, Rests
  <2> QED
    BY <1>1, <2>2, <2>3, <2>4, QueryRows
<1>5. CASE Head(q[s]).kind = "delete" /\ DeletesOf(s, w'[s], {}, Head(q[s]).ids, rows)
  <2>1. PICK m \in Head(q[s]).ids : o \in OtherSide(rows', m)
    BY <1>1, <1>5 DEF DeletesOf, Rests
  <2>2. m \in Posted /\ SideOf(m.chat) = s /\ ~Live(m) /\ Unshown(m)
    BY <1>2, <1>3, <1>5, <2>1 DEF HomeJob, About, GoneJobs, UserJobs
  <2> QED
    BY <1>1, <2>1, <2>2, QueryRows
<1>6. w'[s].found # {}
  OBVIOUS
<1> QED
  BY <1>0, <1>4, <1>5, <1>6, StartFacts

\* What it takes up next, too.
LEMMA FoundNew ==
  ASSUME QuietInv, BridgeInv', [Next]_vars, NEW s \in Side, NEW o \in w'[s].found,
         o \notin w[s].found
  PROVE  RowOf(o, s)' /\ HasRow(o)'
<1>0. BridgeInv /\ RemoveInv /\ MapInv /\ OnceInv
  BY QuietKnown
<1>1. ASSUME NEW mids, \A m \in mids : m \in Posted /\ SideOf(m.chat) = s /\ ~Live(m) /\ Unshown(m),
             NEW m \in mids, o \in OtherSide(rows', m), rows' \subseteq rows
      PROVE  RowOf(o, s)' /\ HasRow(o)'
  BY <1>1, QueryRows
<1>2. CASE Outside \/ Crash \/ (\E a \in Side : Intake(a) \/ Send(a) \/ Return(a))
  <2>1. ASSUME NEW a \in Side, Send(a) PROVE w'[s].found = w[s].found
    <3>1. PICK m : m = [chat |-> SendChat(a), id |-> Len(posts[SendChat(a)]) + 1]
      OBVIOUS
    <3> QED
      BY <1>0, <2>1, <3>1, SendFacts DEF Others
  <2>2. ASSUME NEW a \in Side, Return(a) PROVE w'[s].found \subseteq w[s].found
    BY <1>0, <2>2, ReturnFacts DEF Rests, Others
  <2>3. CASE Crash
    BY <2>3, CrashFacts DEF Rests
  <2>4. CASE Outside \/ \E a \in Side : Intake(a)
    BY <1>0, <2>4, OutsideFacts DEF Intake
  <2> QED
    BY <1>2, <2>1, <2>2, <2>3, <2>4
<1>3. ASSUME NEW a \in Side, StartNew(a) \/ StartEdit(a) \/ StartDelete(a)
      PROVE  RowOf(o, s)' /\ HasRow(o)'
  <2>1. Others(a)
    BY <1>0, <1>3, StartFacts
  <2>2. a = s
    BY <2>1 DEF Others
  <2> QED
    BY <1>3, <2>2, FoundFirst
<1>4. ASSUME NEW a \in Side, Moves(a) PROVE RowOf(o, s)' /\ HasRow(o)'
  <2>1. Ways(a) /\ Others(a)
    BY <1>0, <1>4, MoveWays, WayFacts
  <2>2. a = s
    BY <2>1 DEF Others
  <2>3. w[s].pc \in Deleting
    BY <1>0, <2>1, <2>2, WayFacts DEF FewerFound
  <2>4. PICK m \in w[s].mids : o \in OtherSide(rows', m)
    BY <1>0, <2>1, <2>2, WayFound
  <2>5. rows' \subseteq rows
    <3>1. ~Record(s)
      BY <2>3 DEF Record, Deleting
    <3>2. ~Replace(s)
      BY <2>3 DEF Replace, Deleting
    <3> QED
      BY <1>4, <2>2, <3>1, <3>2, MoveRows
  <2>6. \A n \in w[s].mids : n \in Posted /\ SideOf(n.chat) = s /\ ~Live(n) /\ Unshown(n)
    BY <1>0 DEF BridgeInv, HandlerKnown, OnceInv, RemoveInv
  <2> QED
    BY <1>1, <2>4, <2>5, <2>6
<1> QED
  BY <1>2, <1>3, <1>4, StepKinds

LEMMA QuietFinds ==
  ASSUME QuietInv, BridgeInv', [Next]_vars, NEW s \in Side
  PROVE  FindsRows(s)
  BY FoundFirst, FoundNew DEF FindsRows

LEMMA StepQuiet ==
  /\ CopiesNotEdited /\ EchoesAwaited /\ BotReports
  /\ NothingDropped /\ CopiesNotDeleted /\ OnePart
  /\ QuietInv /\ [Next]_vars
  => QuietInv'
<1> SUFFICES ASSUME CopiesNotEdited, EchoesAwaited, BotReports, NothingDropped,
                    CopiesNotDeleted, OnePart, QuietInv, [Next]_vars
             PROVE  QuietInv'
  OBVIOUS
<1>1. RemoveInv' /\ BridgeInv'
  BY QuietKnown, AllRemove, StepKnown DEF QuietInv
<1>2. Undeleted'
  BY UndeletedStays
<1>3. TrackInv'
  BY <1>1, QuietFinds, StepTrack DEF QuietInv
<1> QED
  BY <1>1, <1>2, <1>3 DEF QuietInv

LEMMA InitQuiet == Init => QuietInv
<1> SUFFICES ASSUME Init PROVE QuietInv
  OBVIOUS
<1>1. Posted = {}
  BY DEF Init, Posted, Exists, Msg
<1> QED
  BY <1>1, InitRemove, InitTrack DEF QuietInv, Undeleted

\* CopyTracked: every message the bridge has posted and not removed is in the map,
\* or in the hands of the handler that posted it, so that an edit or a deletion of
\* its original still reaches it (pair_send, replace_dst, remove_row), edits that
\* fail and are replaced included: under the conditions of OnlyUsersRemove, when
\* sends and deletions succeed and no restart falls between the two, users and
\* operators leave the copies and their pairs in place, and a text takes one message.
THEOREM CopiesStayTracked ==
  ASSUME CopiesNotEdited, EchoesAwaited, BotReports,
         NothingDropped, CopiesNotDeleted, OnePart
  PROVE  Spec => []CopyTracked
<1>1. QuietInv /\ [Next]_vars => QuietInv'
  BY StepQuiet
<1>2. QuietInv => CopyTracked
  BY DEF QuietInv, TrackInv
<1> QED
  BY <1>1, <1>2, InitQuiet, PTL DEF Spec

-----------------------------------------------------------------------------
(* Pairs of one direction *)

\* The channels a pair goes from and into, by the modes f.
From(f, p) == IF f[p] = "tg2bale" THEN TgOf[p] ELSE BaleOf[p]
Into(f, p) == IF f[p] = "tg2bale" THEN BaleOf[p] ELSE TgOf[p]

\* Pairs go one way until they are removed, and no channel a pair goes into is one
\* another goes from.
OneDirection ==
  /\ Admin \subseteq {"removed"}
  /\ \A f \in InitModes : \A p, r \in PairId : f[p] # "both" /\ From(f, p) # Into(f, r)

\* The side s serves the pair p.
Goes(f, s, p) == f[p] # Against(s)

\* A post is by a user, and then no bridge removes it, or a copy of one in a
\* channel that pairs go into.
PostForth(f, m) ==
  IF ByUser(m) THEN At(m).st # "removed"
               ELSE CopyOfUser(m) /\ \E p \in PairId : m.chat = Into(f, p)
RowForth(f, r) ==
  /\ ByUser(r.src) /\ At(r.dst).src = r.src
  /\ r.src.chat = From(f, r.pair) /\ r.dst.chat = Into(f, r.pair)
\* A handler sends the pair's way, and works on copies.
Forth(f, s) ==
  /\ HandlerSound(s)
  /\ w[s].pc = "send" => \A p \in w[s].todo : Goes(f, s, p)
  /\ w[s].pc \in Editing \cup Deleting => Goes(f, s, Target(s).pair)
  /\ \A o \in w[s].found : ~ByUser(o.msg)
  /\ w[s].pc \in Editing => \A o \in w[s].found : At(o.msg).src = Source(s).msg

DirInv(f) ==
  /\ BridgeInv
  /\ f \in InitModes /\ \A p \in PairId : mode[p] \in {f[p], "removed"}
  /\ \A m \in Posted : PostForth(f, m)
  /\ \A r \in rows : RowForth(f, r)
  /\ \A s \in Side : Forth(f, s)

LEMMA GoesFacts ==
  ASSUME OneDirection, NEW f \in InitModes, NEW s \in Side, NEW p \in PairId
  PROVE  /\ Goes(f, s, p) =>
              From(f, p) = PairChat(Other(s), p) /\ Into(f, p) = PairChat(s, p)
         /\ SideOf(From(f, p)) = s <=> Goes(f, s, p)
         /\ SideOf(Into(f, p)) = Other(s) <=> Goes(f, s, p)
<1>1. f[p] \in {"tg2bale", "bale2tg"}
  BY PairAssumption DEF OneDirection, Mode
<1>2. SideOf(TgOf[p]) = "tg" /\ SideOf(BaleOf[p]) = "bale"
  BY PairChats
<1>3. CASE s = "tg"
  BY <1>1, <1>2, <1>3 DEF Goes, Against, From, Into, PairChat, Other
<1>4. CASE s = "bale"
  BY <1>1, <1>2, <1>4 DEF Goes, Against, From, Into, PairChat, Other
<1> QED
  BY <1>3, <1>4 DEF Side

\* What an engine of s does not skip goes the way of s.
LEMMA AppliesGoes ==
  ASSUME NEW f, DirInv(f), NEW s \in Side, NEW o \in Found, Applies(s, o)
  PROVE  Goes(f, s, o.pair)
  BY DEF DirInv, Applies, Goes, Against, Found

\* What the handler of s copies is by a user.
LEMMA SourceByUser ==
  ASSUME OneDirection, NEW f, DirInv(f), NEW s \in Side, w[s].pc \in Editing \cup {"send"}
  PROVE  Source(s).msg \in Posted /\ ByUser(Source(s).msg)
<1>0. BridgeInv /\ Forth(f, s) /\ f \in InitModes
  BY DEF DirInv
<1>1. PICK m \in Posted : m = Source(s).msg
  BY <1>0, SourceFacts
<1>2. CASE w[s].pc = "send"
  <2>1. PICK p \in PairId : p \in w[s].todo
    BY <1>0, <1>2, InvFacts DEF BridgeInv, HandlerKnown
  <2>2. PairChat(Other(s), p) = m.chat
    BY <1>0, <1>1, <1>2, <2>1 DEF BridgeInv, HandlerKnown, Source
  <2>3. m.chat = From(f, p)
    BY <1>0, <1>2, <2>1, <2>2, GoesFacts DEF Forth
  <2> QED
    BY <1>0, <1>1, <2>3 DEF DirInv, PostForth, OneDirection
<1>3. CASE w[s].pc \in Editing
  <2>1. PICK o \in w[s].found : o.msg \in Posted
    BY <1>0, <1>3, TargetFacts
  <2>2. ~ByUser(o.msg) /\ At(o.msg).src = m
    BY <1>0, <1>1, <1>3, <2>1 DEF Forth
  <2> QED
    BY <1>1, <2>1, <2>2 DEF DirInv, PostForth, CopyOfUser
<1> QED
  BY <1>2, <1>3

\* The other ends of a message of s that an engine of s does not skip: copies of it.
LEMMA ForthQuery ==
  ASSUME OneDirection, NEW f, DirInv(f), NEW s \in Side, NEW m, SideOf(m.chat) = s,
         NEW table, table \subseteq rows, NEW F, F \subseteq OtherSide(table, m),
         NEW o \in F, Applies(s, o)
  PROVE  /\ ByUser(m)
         /\ \A x \in F : \E r \in table :
              r.id = x.row /\ r.pair = x.pair /\ r.src = m /\ r.dst = x.msg
<1>0. BridgeInv /\ f \in InitModes
  BY DEF DirInv
<1>1. table \subseteq Row /\ RowsKnown(table, lastRow, Posted)
  BY <1>0, InvFacts, FewerRows
<1>2. \A x \in OtherSide(table, m) : \E r \in table :
        /\ r.id = x.row /\ r.pair = x.pair
        /\ \/ r.src = m /\ r.dst = x.msg
           \/ r.src # m /\ r.dst = m /\ r.src = x.msg
  BY <1>1, OtherSideFacts
<1>3. \A r \in table : RowForth(f, r) /\ r.pair \in PairId
  BY <1>1 DEF DirInv, Row
<1>4. o \in Found
  BY <1>1, OtherSideFacts
<1>5. PICK r \in table : /\ r.id = o.row /\ r.pair = o.pair
                         /\ \/ r.src = m /\ r.dst = o.msg
                            \/ r.src # m /\ r.dst = m /\ r.src = o.msg
  BY <1>2
<1>6. Goes(f, s, r.pair)
  BY <1>4, <1>5, AppliesGoes
<1>7. SideOf(From(f, r.pair)) = s /\ SideOf(o.msg.chat) = Other(s) /\ Other(s) # s
  BY <1>0, <1>3, <1>6, GoesFacts, SideFacts DEF Applies
<1>8. r.src = m
  BY <1>3, <1>5, <1>7 DEF RowForth
<1>9. ByUser(m) /\ m.chat = From(f, r.pair)
  BY <1>3, <1>8 DEF RowForth
<1>10. ASSUME NEW x \in F
       PROVE  \E y \in table : y.id = x.row /\ y.pair = x.pair /\ y.src = m /\ y.dst = x.msg
  <2>1. PICK y \in table : /\ y.id = x.row /\ y.pair = x.pair
                           /\ \/ y.src = m /\ y.dst = x.msg
                              \/ y.src # m /\ y.dst = m /\ y.src = x.msg
    BY <1>2
  <2>2. y.dst # m
    BY <1>0, <1>3, <1>9 DEF RowForth, OneDirection
  <2> QED
    BY <2>1, <2>2
<1> QED
  BY <1>9, <1>10

\* So they are no user's.
LEMMA QueryCopies ==
  ASSUME OneDirection, NEW f, DirInv(f), NEW s \in Side, NEW m, SideOf(m.chat) = s,
         NEW table, table \subseteq rows, NEW F, F \subseteq OtherSide(table, m),
         NEW o \in F, Applies(s, o)
  PROVE  \A x \in F : x.msg \in Posted /\ ~ByUser(x.msg) /\ At(x.msg).src = m
<1> SUFFICES ASSUME NEW x \in F
             PROVE  x.msg \in Posted /\ ~ByUser(x.msg) /\ At(x.msg).src = m
  OBVIOUS
<1>1. PICK r \in table : r.src = m /\ r.dst = x.msg
  BY ForthQuery
<1>2. {r.src, r.dst} \subseteq Posted /\ At(r.dst).src = r.src
  BY DEF DirInv, BridgeInv, RowsKnown, RowForth
<1> QED
  BY <1>1, <1>2, MsgAssumption DEF ByUser, Posted

\* The posts.
LEMMA PostsForth ==
  ASSUME OneDirection, NEW f, DirInv(f), [Next]_vars, NEW m \in Posted'
  PROVE  PostForth(f, m)'
<1>0. BridgeInv /\ SrcKept /\ f \in InitModes
  BY StepAges DEF DirInv
<1>1. \A n \in Posted : /\ n \in Posted' /\ (ByUser(n)' <=> ByUser(n))
                        /\ (CopyOfUser(n) => CopyOfUser(n)')
  BY <1>0 DEF SrcKept, ByUser, CopyOfUser
<1>2. CASE m \in Posted /\ ~ByUser(m)
  BY <1>1, <1>2 DEF DirInv, PostForth
<1>3. CASE m \in Posted /\ (At(m)'.st = At(m).st \/ At(m)'.st = "deleted")
  BY <1>1, <1>2, <1>3 DEF DirInv, PostForth
<1>4. CASE UNCHANGED posts
  BY <1>3, <1>4, SamePosts
<1>5. ASSUME NEW c \in Chat, NEW t \in Text, UserPost(c, t) PROVE PostForth(f, m)'
  <2>1. PICK n : n = [chat |-> c, id |-> Len(posts[c]) + 1]
    OBVIOUS
  <2> DEFINE p == [st |-> "live", txt |-> t, src |-> NoMsg]
  <2>2. p \in PostRec /\ Len(posts[c]) < MaxId /\ posts' = [posts EXCEPT ![c] = Append(@, p)]
    BY <1>5 DEF PostRec, UserPost
  <2>3. /\ Posted' = Posted \cup {n} /\ At(n)' = p
        /\ \A x \in Posted : At(x)' = At(x)
    <3> HIDE DEF p
    <3> QED
      BY <1>0, <2>1, <2>2, InvFacts, Appended
  <2>4. CASE m = n
    BY <2>3, <2>4 DEF PostForth, ByUser
  <2> QED
    BY <1>3, <2>3, <2>4
<1>6. CASE Outside
  <2>1. CASE m \in Posted
    BY <1>0, <1>3, <1>6, <2>1, OutsideFacts
  <2>2. CASE m \notin Posted
    <3>1. ASSUME NEW n \in Msg, UserDelete(n) \/ \E t \in Text : UserEdit(n, t)
          PROVE  Posted' = Posted
      BY <1>0, <3>1, AgedUser
    <3>2. CASE UNCHANGED posts
      BY <1>4, <3>2
    <3> QED
      BY <1>5, <1>6, <2>2, <3>1, <3>2 DEF Outside, FpExpires, SetMode, RemovePair, vars
  <2> QED
    BY <2>1, <2>2
<1>7. ASSUME NEW s \in Side, Send(s) PROVE PostForth(f, m)'
  <2>1. PICK n : n = [chat |-> SendChat(s), id |-> Len(posts[SendChat(s)]) + 1]
    OBVIOUS
  <2>2. /\ Posted' = Posted \cup {n} /\ n.chat = SendChat(s)
        /\ At(n)' = [st |-> "live", txt |-> Source(s).txt, src |-> Source(s).msg]
        /\ \A x \in Posted : At(x)' = At(x)
    BY <1>0, <1>7, <2>1, SendFacts
  <2>3. w[s].pc \in {"send", "resend"} /\ w[s].pc \in Editing \cup {"send"}
    BY <1>7 DEF Send, Editing
  <2>4. PICK u \in Posted : u = Source(s).msg /\ ByUser(u)
    BY <2>3, SourceByUser
  <2>5. \E p \in PairId : SendChat(s) = Into(f, p)
    <3>1. CASE w[s].pc = "send"
      <4>1. PICK p \in PairId : p = FirstPair(s) /\ p \in w[s].todo
        BY <1>0, <3>1, InvFacts, FirstPairLeft DEF BridgeInv, HandlerKnown
      <4> QED
        BY <1>0, <3>1, <4>1, GoesFacts DEF DirInv, Forth, SendChat
    <3>2. CASE w[s].pc = "resend"
      <4>1. w[s].pc \in Editing
        BY <3>2 DEF Editing
      <4>2. PICK p \in PairId : p = Target(s).pair /\ Goes(f, s, p)
        BY <1>0, <4>1, TargetFacts DEF DirInv, Forth
      <4> QED
        BY <1>0, <3>2, <4>2, GoesFacts, SendChatFacts DEF Target
    <3> QED
      BY <2>3, <3>1, <3>2
  <2>6. CASE m = n
    <3>1. At(m)'.src = u /\ u \in Posted' /\ ByUser(u)'
      BY <1>1, <2>2, <2>4, <2>6
    <3>2. ~ByUser(m)' /\ CopyOfUser(m)'
      BY <3>1, MsgAssumption DEF ByUser, CopyOfUser, Posted
    <3> QED
      BY <2>2, <2>5, <2>6, <3>2 DEF PostForth
  <2> QED
    BY <1>3, <2>2, <2>6
<1>8. ASSUME NEW s \in Side, Moves(s) PROVE PostForth(f, m)'
  <2>1. Posted' = Posted
    BY <1>0, <1>8, MoveStream
  <2>2. CASE \A n \in Posted : At(n)'.st = At(n).st
    BY <1>3, <2>1, <2>2
  <2>3. ASSUME Remove(s) \/ Delete(s),
               NEW n \in Posted, n = Target(s).msg, \A x \in Posted : x # n => At(x)' = At(x)
        PROVE  PostForth(f, m)'
    <3>1. w[s].pc \in Editing \cup Deleting
      BY <2>3 DEF Remove, Delete, Editing, Deleting
    <3>2. ~ByUser(n)
      BY <1>0, <2>3, <3>1, TargetFacts DEF DirInv, Forth
    <3> QED
      BY <1>2, <1>3, <2>1, <2>3, <3>2
  <2> QED
    BY <1>0, <1>8, <2>2, <2>3, MoveStream
<1>9. ASSUME NEW s \in Side, Intake(s) \/ Return(s) \/ StartNew(s) \/ StartEdit(s) \/ StartDelete(s)
      PROVE  UNCHANGED posts
  BY <1>0, <1>9, ReturnFacts, StartFacts DEF Intake
<1> QED
  BY <1>4, <1>6, <1>7, <1>8, <1>9, StepKinds, CrashFacts

\* The rows.
LEMMA RowsForth ==
  ASSUME OneDirection, NEW f, DirInv(f), [Next]_vars, NEW x \in rows'
  PROVE  RowForth(f, x)'
<1>0. BridgeInv /\ SrcKept /\ f \in InitModes /\ rows \subseteq Row
  BY StepAges, InvFacts DEF DirInv
<1>1. ASSUME NEW r \in rows, x.src = r.src, x.pair = r.pair, x.dst \in Posted,
             At(x.dst).src = r.src, x.dst.chat = r.dst.chat
      PROVE  RowForth(f, x)'
  <2>1. RowForth(f, r) /\ r.src \in Posted
    BY <1>0 DEF DirInv, BridgeInv, RowsKnown
  <2>2. ByUser(x.src)' /\ At(x.dst)'.src = x.src
    BY <1>0, <1>1, <2>1 DEF SrcKept, ByUser, RowForth
  <2> QED
    BY <1>1, <2>1, <2>2 DEF RowForth
<1>2. CASE x \in rows
  <2>1. x.dst \in Posted /\ At(x.dst).src = x.src
    BY <1>0, <1>2 DEF DirInv, BridgeInv, RowsKnown, RowForth
  <2> QED
    BY <1>1, <1>2, <2>1
<1>3. ASSUME NEW s \in Side, Record(s), x \notin rows PROVE RowForth(f, x)'
  <2>1. PICK made : made = w[s].made
    OBVIOUS
  <2>2. /\ rows' = AddRows(rows, lastRow, FirstPair(s), Source(s).msg, made)
        /\ lastRow \in Nat /\ made \in Seq(Msg) /\ w[s].pc = "send"
    BY <1>0, <1>3, <2>1, InvFacts DEF Record
  <2>3. PICK i \in DOMAIN made : /\ x.pair = FirstPair(s) /\ x.src = Source(s).msg
                                 /\ x.dst = made[i]
    BY <1>3, <2>2, AddedRows
  <2>4. PICK p \in PairId : p = FirstPair(s) /\ p = Least(w[s].todo) /\ p \in w[s].todo
    BY <1>0, <2>2, InvFacts, FirstPairLeft DEF BridgeInv, HandlerKnown, FirstPair, Least
  <2>5. PICK u \in Posted : u = Source(s).msg /\ ByUser(u)
    BY <2>2, SourceByUser
  <2>6. HandlerKnown(s, w[s], job[s], Posted)
    BY <1>0 DEF BridgeInv
  <2>7. made[i] \in Posted /\ made[i].chat = PairChat(s, p)
    BY <2>1, <2>2, <2>4, <2>6 DEF HandlerKnown
  <2>8. u.chat = PairChat(Other(s), p)
    BY <2>2, <2>4, <2>5, <2>6 DEF HandlerKnown, Source
  <2>9. From(f, p) = u.chat /\ Into(f, p) = made[i].chat
    BY <1>0, <2>2, <2>4, <2>7, <2>8, GoesFacts DEF DirInv, Forth
  <2>10. At(made[i]).src = u
    BY <2>1, <2>2, <2>5 DEF DirInv, Forth, HandlerSound
  <2>11. ByUser(u)' /\ At(made[i])'.src = u
    BY <1>0, <2>5, <2>7, <2>10 DEF SrcKept, ByUser
  <2> QED
    BY <2>3, <2>4, <2>5, <2>9, <2>11 DEF RowForth
<1>4. ASSUME NEW s \in Side, Replace(s) PROVE RowForth(f, x)'
  <2>1. PICK m : m = [chat |-> Target(s).msg.chat, id |-> w[s].made[1].id]
    OBVIOUS
  <2>2. PICK o : o = Target(s)
    OBVIOUS
  <2>3. /\ w[s].pc \in Editing /\ m \in Posted /\ m = w[s].made[1] /\ 1 \in DOMAIN w[s].made
        /\ \A y \in rows' : \E r \in rows :
             /\ y.id = r.id /\ y.pair = r.pair /\ y.src = r.src
             /\ y.dst = IF r.id = o.row THEN m ELSE r.dst
    BY <1>0, <1>4, <2>1, <2>2, ReplaceTable
  <2>4. PICK r \in rows : /\ x.pair = r.pair /\ x.src = r.src
                          /\ x.dst = IF r.id = o.row THEN m ELSE r.dst
    BY <2>3
  <2>5. r.dst \in Posted /\ RowForth(f, r) /\ r.pair \in PairId
    BY <1>0 DEF DirInv, BridgeInv, RowsKnown, Row
  <2>6. CASE r.id # o.row
    BY <1>1, <2>4, <2>5, <2>6 DEF RowForth
  <2>7. CASE r.id = o.row
    <3>1. o \in w[s].found /\ m.chat = PairChat(s, o.pair) /\ o.pair \in PairId
      BY <1>0, <2>1, <2>2, <2>3, TargetFacts
    <3>2. r.src = Source(s).msg /\ At(m).src = Source(s).msg /\ Goes(f, s, o.pair)
      BY <2>2, <2>3, <2>7, <3>1 DEF DirInv, Forth, HandlerSound
    <3>3. r.pair = o.pair
      BY <1>0, <2>7, <3>1 DEF BridgeInv, FoundRows
    <3>4. m.chat = r.dst.chat
      BY <1>0, <2>5, <3>1, <3>2, <3>3, GoesFacts DEF RowForth
    <3> QED
      BY <1>1, <2>3, <2>4, <2>7, <3>2, <3>4
  <2> QED
    BY <2>6, <2>7
<1> QED
  BY <1>0, <1>2, <1>3, <1>4, StepGrows

\* The handlers: one that rests.
LEMMA ForthRests ==
  ASSUME NEW f, NEW s \in Side, Rests(w'[s]), w'[s].pc \in {"idle", "done"}
  PROVE  Forth(f, s)'
  BY DEF Forth, HandlerSound, Rests, Editing, Deleting

\* What is found stays a copy of what it is one of.
LEMMA CopiesStay ==
  ASSUME NEW f, DirInv(f), SrcKept, NEW s \in Side
  PROVE  /\ \A o \in w[s].found : o.msg \in Posted /\ ~ByUser(o.msg)'
         /\ w[s].pc \in Editing => \A o \in w[s].found : At(o.msg)'.src = Source(s).msg
<1>1. \A o \in w[s].found : o.msg \in Posted /\ ~ByUser(o.msg)
  BY FoundPosted DEF DirInv, Forth
<1> QED
  BY <1>1 DEF DirInv, Forth, SrcKept, ByUser

\* One whose state and job stay.
LEMMA ForthStays ==
  ASSUME NEW f, DirInv(f), SrcKept, SrcGrow, NEW s \in Side, w'[s] = w[s], job'[s] = job[s]
  PROVE  Forth(f, s)'
<1>1. HandlerSound(s)'
  BY SoundStays DEF DirInv, Forth
<1>2. Source(s)' = Source(s) /\ Target(s)' = Target(s)
  BY DEF Source, Target
<1> QED
  BY <1>1, <1>2, CopiesStay DEF DirInv, Forth, Goes, Against

LEMMA ForthSend ==
  ASSUME NEW f, DirInv(f), NEW s \in Side, Send(s)
  PROVE  Forth(f, s)'
<1>0. BridgeInv /\ SrcKept
  BY AgedSend DEF DirInv, Aged
<1>1. HandlerSound(s)'
  BY <1>0, SoundSend DEF DirInv, Forth
<1>2. PICK m : m = [chat |-> SendChat(s), id |-> Len(posts[SendChat(s)]) + 1]
  OBVIOUS
<1>3. w'[s].pc = w[s].pc /\ w'[s].todo = w[s].todo /\ w'[s].found = w[s].found
  BY <1>0, <1>2, SendFacts
<1>4. UNCHANGED job
  BY DEF Send
<1>5. Source(s)' = Source(s) /\ Target(s)' = Target(s)
  BY <1>3, <1>4 DEF Source, Target
<1> QED
  BY <1>0, <1>1, <1>3, <1>5, CopiesStay DEF DirInv, Forth, Goes, Against

\* Who starts to send does so for the pairs the message is looked up with.
LEMMA SendsFor ==
  ASSUME BridgeInv, NEW s \in Side, StartNew(s) \/ StartEdit(s) \/ StartDelete(s),
         w'[s].pc = "send"
  PROVE  /\ StartNew(s) /\ w'[s].todo = PairsFor(s, Head(q[s]).items[1].msg.chat)
         /\ w'[s].todo \subseteq PairId
<1>1. ASSUME NEW F, EditsOf(s, w'[s], F) PROVE FALSE
  BY <1>1 DEF EditsOf
<1>2. ASSUME NEW F, NEW mids, NEW table, DeletesOf(s, w'[s], F, mids, table) PROVE FALSE
  BY <1>2 DEF DeletesOf
<1>3. CASE StartNew(s)
  <2> DEFINE pairs == PairsFor(s, Head(q[s]).items[1].msg.chat)
  <2>1. \/ Become(s, Stopped("done"))
        \/ Become(s, IF pairs = {} THEN Stopped("done")
                     ELSE [Stopped("send") EXCEPT !.todo = pairs])
    BY <1>3 DEF StartNew, Starts
  <2>2. pairs \subseteq PairId
    BY DEF PairsFor
  <2> HIDE DEF pairs
  <2>3. CASE Become(s, Stopped("done"))
    BY <2>3, InvFacts, StoppedFacts, BecomeFacts DEF PC
  <2>4. CASE Become(s, IF pairs = {} THEN Stopped("done")
                       ELSE [Stopped("send") EXCEPT !.todo = pairs])
    <3>1. SendsTo(w'[s], pairs)
      BY <2>2, <2>4, InvFacts, SendFrom
    <3>2. w'[s].todo = pairs
      BY <3>1 DEF SendsTo
    <3> QED
      BY <1>3, <2>2, <3>2 DEF pairs
  <2> QED
    BY <2>1, <2>3, <2>4
<1>4. CASE StartEdit(s)
  <2>1. \E F : F \subseteq Found /\ FoundKnown(F, Posted) /\ EditFrom(s, F)
    BY <1>4, InvFacts, OtherSideFacts DEF StartEdit
  <2> QED
    BY <1>1, <2>1, InvFacts, EditFromFacts
<1>5. CASE StartDelete(s)
  <2> DEFINE mids == Head(q[s]).ids
  <2>1. Take(s) /\ Head(q[s]).kind = "delete" /\ DeleteFrom(s, {}, mids, rows, ignore)
    BY <1>5 DEF StartDelete, Starts
  <2>2. mids \subseteq Msg /\ {} \subseteq Found /\ FoundKnown({}, Posted)
    BY <2>1, TakeFacts, InvFacts DEF HomeJob, About, FoundKnown
  <2> HIDE DEF mids
  <2> QED
    BY <1>2, <2>1, <2>2, InvFacts, DeleteFromFacts
<1> QED
  BY <1>3, <1>4, <1>5

\* One that takes a job.
LEMMA ForthStart ==
  ASSUME OneDirection, NEW f, DirInv(f), NEW s \in Side,
         StartNew(s) \/ StartEdit(s) \/ StartDelete(s)
  PROVE  Forth(f, s)'
<1>0. /\ BridgeInv /\ f \in InitModes
      /\ Take(s) /\ UNCHANGED <<posts, rows>> /\ w'[s].made = <<>>
  BY StartFacts DEF DirInv
<1>1. /\ Head(q[s]) \in HomeJob(s, Posted) /\ job'[s] = Head(q[s])
      /\ RowsKnown(rows, lastRow, Posted) /\ rows \subseteq Row
  BY <1>0, TakeFacts, InvFacts
<1>2. \A m : At(m)' = At(m) /\ ByUser(m)' = ByUser(m)
  BY <1>0, SamePosts DEF ByUser
<1>3. CASE w'[s].pc \in {"send", "done"} /\ w'[s].found = {}
  <2>1. w'[s].pc = "send" => \A p \in w'[s].todo : Goes(f, s, p)
    <3>1. ASSUME w'[s].pc = "send", NEW p \in w'[s].todo PROVE Goes(f, s, p)
      <4>1. /\ p \in PairId
            /\ mode[p] \in {"both", IF s = "tg" THEN "tg2bale" ELSE "bale2tg"}
        BY <1>0, <3>1, SendsFor DEF PairsFor
      <4>2. f[p] # "both" /\ mode[p] \in {f[p], "removed"}
        BY <1>0, <4>1 DEF DirInv, OneDirection
      <4> QED
        BY <4>1, <4>2 DEF Goes, Against
    <3> QED
      BY <3>1
  <2> QED
    BY <1>0, <1>3, <2>1 DEF Forth, HandlerSound, Editing, Deleting
<1>4. ASSUME NEW m, SideOf(m.chat) = s, NEW F, F \subseteq OtherSide(rows, m),
             F = w'[s].found, F # {}, Applies(s, First(F)),
             w'[s].pc \in Editing => m = job'[s].items[1].msg, w'[s].pc # "send"
      PROVE  Forth(f, s)'
  <2>1. F \subseteq Found /\ First(F) \in F
    BY <1>1, <1>4, OtherSideFacts, FirstFound
  <2>2. Goes(f, s, First(F).pair)
    BY <1>4, <2>1, AppliesGoes
  <2>3. /\ ByUser(m)
        /\ \A x \in F : \E r \in rows : r.id = x.row /\ r.src = m
        /\ \A x \in F : x.msg \in Posted /\ ~ByUser(x.msg) /\ At(x.msg).src = m
    BY <1>4, <2>1, ForthQuery, QueryCopies
  <2>4. \A x \in F, r \in rows : r.id = x.row => r.src = m
    BY <1>1, <2>3 DEF RowsKnown
  <2>5. HandlerSound(s)'
    BY <1>0, <1>4, <2>4 DEF HandlerSound, Source
  <2>6. Target(s)' = First(F)
    BY <1>4 DEF Target
  <2> QED
    BY <1>2, <1>4, <2>2, <2>3, <2>5, <2>6 DEF Forth, Source, Goes, Against
<1>5. CASE w'[s].pc = "done" /\ Rests(w'[s])
  BY <1>5, ForthRests
<1>6. CASE /\ Head(q[s]).kind = "edit"
           /\ EditsOf(s, w'[s], OtherSide(rows, Head(q[s]).items[1].msg))
  <2>1. SideOf(Head(q[s]).items[1].msg.chat) = s
    BY <1>1, <1>6 DEF HomeJob, About
  <2> QED
    BY <1>1, <1>4, <1>5, <1>6, <2>1 DEF EditsOf
<1>7. CASE Head(q[s]).kind = "delete" /\ DeletesOf(s, w'[s], {}, Head(q[s]).ids, rows)
  <2>1. \A m \in Head(q[s]).ids : SideOf(m.chat) = s
    BY <1>1, <1>7 DEF HomeJob, About
  <2> QED
    BY <1>4, <1>5, <1>7, <2>1 DEF DeletesOf, Editing
<1> QED
  BY <1>0, <1>3, <1>6, <1>7, StartFacts

\* Where the steps of a handler lead.
LEMMA WayKind ==
  ASSUME BridgeInv, NEW s \in Side, Ways(s)
  PROVE  /\ w'[s].pc = "send" => w[s].pc = "send" /\ w'[s].todo \subseteq w[s].todo
         /\ w[s].pc \in Deleting => w'[s].pc \in Deleting \cup {"done"}
<1>1. CASE w[s].pc = "send" /\ NextPair(s)
  BY <1>1, NextPairFacts DEF SendsTo, Deleting
<1>2. CASE w[s].pc \in Editing /\ NextEdit(s)
  BY <1>2, NextEditFacts DEF EditsOf, Editing, Deleting
<1>3. CASE \/ w[s].pc \in Editing /\ \E pc \in Editing : Goto(s, pc)
           \/ w[s].pc = "delete" /\ Goto(s, "deleted")
  <2>1. PICK pc : /\ Goto(s, pc)
                  /\ \/ w[s].pc \in Editing /\ pc \in Editing
                     \/ w[s].pc \in Deleting /\ pc \in Deleting
    BY <1>3 DEF Deleting
  <2>2. w'[s].pc = pc
    BY <2>1, GotoKnown
  <2> QED
    BY <2>1, <2>2 DEF Editing, Deleting
<1>4. CASE w[s].pc \in Deleting /\ \E ign \in SUBSET Msg : Unmap(s, ign)
  BY <1>4, UnmapFacts DEF DeletesOf, Deleting
<1>5. CASE Breaks(s)
  BY <1>5, BreakFacts
<1> QED
  BY <1>1, <1>2, <1>3, <1>4, <1>5 DEF Ways

\* What a handler works on next the engine does not skip, or it did already.
LEMMA WayAims ==
  ASSUME BridgeInv, NEW s \in Side, Ways(s), w'[s].pc \in Editing \cup Deleting
  PROVE  /\ w'[s].found # {}
         /\ \/ Applies(s, First(w'[s].found))
            \/ w'[s].found = w[s].found /\ w[s].pc \in Editing \cup Deleting
<1>1. CASE w[s].pc = "send" /\ NextPair(s)
  BY <1>1, NextPairFacts DEF SendsTo, Editing, Deleting
<1>2. CASE w[s].pc \in Editing /\ NextEdit(s)
  BY <1>2, NextEditFacts DEF EditsOf, Editing, Deleting
<1>3. CASE \/ w[s].pc \in Editing /\ \E pc \in Editing : Goto(s, pc)
           \/ w[s].pc = "delete" /\ Goto(s, "deleted")
  <2>1. PICK pc : /\ Goto(s, pc)
                  /\ \/ w[s].pc \in Editing /\ pc \in Editing
                     \/ w[s].pc \in Deleting /\ pc \in Deleting
    BY <1>3 DEF Deleting
  <2>2. w'[s].found = w[s].found
    BY <2>1, GotoKnown
  <2> QED
    BY <2>1, <2>2 DEF BridgeInv, HandlerKnown
<1>4. CASE w[s].pc \in Deleting /\ \E ign \in SUBSET Msg : Unmap(s, ign)
  BY <1>4, UnmapFacts DEF DeletesOf, Editing, Deleting
<1>5. CASE Breaks(s)
  BY <1>5, BreakFacts DEF Editing, Deleting
<1> QED
  BY <1>1, <1>2, <1>3, <1>4, <1>5 DEF Ways

\* A handler that deletes looks up the next of the deleted ids.
LEMMA WayLooksUp ==
  ASSUME BridgeInv, NEW s \in Side, Ways(s), ~FewerFound(s)
  PROVE  /\ w[s].pc \in Deleting /\ w'[s].pc = "delete" /\ UNCHANGED posts
         /\ rows' \subseteq rows /\ w'[s].found # {} /\ Applies(s, First(w'[s].found))
         /\ \E m \in w[s].mids : w'[s].found \subseteq OtherSide(rows', m)
<1>1. w[s].pc \in Deleting
  BY WayFacts
<1>2. CASE w[s].pc = "delete" /\ Goto(s, "deleted")
  <2>1. "deleted" \in Deleting
    BY DEF Deleting
  <2> QED
    BY <1>1, <1>2, <2>1, GotoKnown
<1>3. ASSUME NEW ign \in SUBSET Msg, Unmap(s, ign)
      PROVE  /\ w'[s].pc = "delete" /\ UNCHANGED posts
             /\ rows' \subseteq rows /\ w'[s].found # {} /\ Applies(s, First(w'[s].found))
             /\ \E m \in w[s].mids : w'[s].found \subseteq OtherSide(rows', m)
  <2>1. /\ DeletesOf(s, w'[s], w[s].found \ {Target(s)}, w[s].mids, rows')
        /\ rows' \subseteq rows /\ UNCHANGED posts
    BY <1>1, <1>3, UnmapFacts DEF Unmap
  <2>2. w'[s].found # {}
    BY DEF FewerFound
  <2>3. ~(w'[s].found \subseteq w[s].found \ {Target(s)})
    BY DEF FewerFound
  <2> QED
    BY <2>1, <2>2, <2>3 DEF DeletesOf, Rests
<1>4. ~Breaks(s)
  BY BreakFacts
<1> QED
  BY <1>1, <1>2, <1>3, <1>4 DEF Ways, Deleting, Editing

LEMMA SendOthers ==
  ASSUME NEW s \in Side, Send(s)
  PROVE  Others(s)
  BY DEF Send, Others

\* One that goes on.
LEMMA ForthMove ==
  ASSUME OneDirection, NEW f, DirInv(f), NEW s \in Side, Moves(s)
  PROVE  Forth(f, s)'
<1>0. /\ BridgeInv /\ SrcKept /\ SrcGrow /\ [Next]_vars
      /\ Ways(s) /\ UNCHANGED job /\ Forth(f, s)
  <2>1. [Next]_vars
    BY Failing DEF Next, Handler, Fault, Moves, Breaks
  <2> QED
    BY <2>1, StepAges, StepGrows, MoveWays DEF DirInv
<1>1. /\ w'[s].made \in {<<>>, w[s].made}
      /\ w'[s].pc \in Editing => w[s].pc \in Editing /\ FewerFound(s)
  BY <1>0, WayFacts
<1>2. HandlerSound(s)'
  <2>1. \/ w'[s].made = <<>>
        \/ w'[s].made = w[s].made /\ w[s].pc \in Editing
        \/ w'[s].pc \notin Editing \cup {"send"}
    <3>1. CASE w[s].pc = "send" /\ NextPair(s)
      BY <1>0, <3>1, NextPairFacts DEF SendsTo, Rests
    <3>2. CASE w[s].pc \in Deleting
      BY <1>0, <3>2, WayKind DEF Editing, Deleting
    <3> QED
      BY <1>0, <1>1, <3>1, <3>2, BreakFacts DEF Ways, Deleting, Rests
  <2>2. CASE w'[s].pc \notin Editing \cup {"send"}
    BY <2>2 DEF HandlerSound
  <2> QED
    BY <1>0, <1>1, <2>1, <2>2, SoundMoves DEF Forth
<1>3. Source(s)' = Source(s)
  BY <1>0 DEF Source
<1>4. w'[s].pc = "send" => w[s].pc = "send" /\ w'[s].todo \subseteq w[s].todo
  BY <1>0, WayKind
<1>5. CASE FewerFound(s)
  <2>1. /\ \A o \in w'[s].found : ~ByUser(o.msg)'
        /\ w'[s].pc \in Editing => \A o \in w'[s].found : At(o.msg)'.src = Source(s)'.msg
    BY <1>0, <1>1, <1>3, <1>5, CopiesStay DEF FewerFound
  <2>2. w'[s].pc \in Editing \cup Deleting => Goes(f, s, Target(s)'.pair)
    <3>1. CASE w'[s].found = w[s].found /\ w[s].pc \in Editing \cup Deleting
      BY <1>0, <3>1 DEF Forth, Target
    <3>2. ASSUME w'[s].found # {}, Applies(s, First(w'[s].found))
          PROVE  Goes(f, s, Target(s)'.pair)
      <4>1. w'[s].found \subseteq Found /\ First(w'[s].found) \in Found
        BY <1>0, <1>5, <3>2, InvFacts, FirstFound DEF FewerFound
      <4> QED
        BY <3>2, <4>1, AppliesGoes DEF Target
    <3> QED
      BY <1>0, <3>1, <3>2, WayAims
  <2> QED
    BY <1>0, <1>2, <1>4, <2>1, <2>2 DEF Forth, Goes, Against
<1>6. CASE ~FewerFound(s)
  <2>1. PICK m \in w[s].mids : /\ w'[s].found \subseteq OtherSide(rows', m) /\ rows' \subseteq rows
                               /\ w'[s].found # {} /\ Applies(s, First(w'[s].found))
                               /\ w'[s].pc = "delete" /\ UNCHANGED posts
    BY <1>0, <1>6, WayLooksUp
  <2>2. SideOf(m.chat) = s
    BY <1>0 DEF BridgeInv, HandlerKnown
  <2>3. /\ w'[s].found \subseteq Found /\ First(w'[s].found) \in w'[s].found
    BY <1>0, <2>1, InvFacts, FewerRows, OtherSideFacts, FirstFound
  <2>4. \A x \in w'[s].found : ~ByUser(x.msg)
    BY <2>1, <2>2, <2>3, QueryCopies
  <2>5. Goes(f, s, Target(s)'.pair)
    BY <2>1, <2>3, AppliesGoes DEF Target
  <2>6. \A x \in w'[s].found : ~ByUser(x.msg)'
    BY <2>1, <2>4, SamePosts DEF ByUser
  <2> QED
    BY <1>2, <2>1, <2>5, <2>6 DEF Forth, Goes, Against, Editing
<1> QED
  BY <1>5, <1>6

-----------------------------------------------------------------------------
(* What holds for pairs of one direction *)

\* The operator does no more than remove pairs.
LEMMA ModeForth ==
  ASSUME OneDirection, NEW f, DirInv(f), [Next]_vars
  PROVE  \A p \in PairId : mode'[p] \in {f[p], "removed"}
<1>0. BridgeInv /\ (\A p \in PairId : mode[p] \in {f[p], "removed"})
  BY DEF DirInv
<1>1. CASE UNCHANGED mode
  BY <1>0, <1>1
<1>2. ASSUME NEW p \in PairId, NEW md \in Mode, SetMode(p, md) PROVE FALSE
  BY <1>2 DEF SetMode, OneDirection
<1>3. ASSUME NEW p \in PairId, RemovePair(p)
      PROVE  \A r \in PairId : mode'[r] \in {f[r], "removed"}
  <2>1. mode' = [mode EXCEPT ![p] = "removed"]
    BY <1>3 DEF RemovePair
  <2> QED
    BY <1>0, <2>1, InvFacts
<1>4. UNCHANGED mode \/ (\E p \in PairId : RemovePair(p) \/ \E md \in Mode : SetMode(p, md))
  <2>1. CASE Outside
    BY <2>1 DEF Outside, UserPost, UserEdit, UserDelete, FpExpires, vars, dbVars
  <2>2. CASE Crash
    BY <2>2 DEF Crash, dbVars
  <2>3. ASSUME NEW s \in Side, Intake(s) \/ Send(s) \/ Return(s) PROVE UNCHANGED mode
    BY <2>3 DEF Intake, Send, Return, dbVars
  <2>4. ASSUME NEW s \in Side, StartNew(s) \/ StartEdit(s) \/ StartDelete(s)
        PROVE  UNCHANGED mode
    BY <2>4 DEF StartNew, StartEdit, StartDelete, dbVars
  <2>5. ASSUME NEW s \in Side, Moves(s) PROVE UNCHANGED mode
    BY <2>5 DEF Moves, SendFails, Fetched, Edited, EditFalls, Resent, Remove, RemoveFails,
                Removed, Replace, Delete, Vanish, Deleted, DeleteFalls, Unmap, Breaks, Record,
                dbVars
  <2> QED
    BY <2>1, <2>2, <2>3, <2>4, <2>5, StepKinds
<1> QED
  BY <1>1, <1>2, <1>3, <1>4

LEMMA HandlersForth ==
  ASSUME OneDirection, NEW f, DirInv(f), [Next]_vars, NEW s \in Side
  PROVE  Forth(f, s)'
<1>0. BridgeInv /\ SrcKept /\ SrcGrow
  BY StepAges, StepGrows DEF DirInv
<1>1. CASE w'[s] = w[s] /\ job'[s] = job[s]
  BY <1>0, <1>1, ForthStays
<1>2. CASE Outside \/ \E r \in Side : Intake(r)
  <2>1. UNCHANGED <<w, job>>
    BY <1>0, <1>2, OutsideFacts, IntakeFacts DEF Intake
  <2> QED
    BY <1>1, <2>1
<1>3. CASE Crash
  BY <1>3, CrashFacts, ForthRests
<1>4. ASSUME NEW r \in Side, Send(r) PROVE Forth(f, s)'
  <2>1. CASE r # s
    BY <1>1, <1>4, <2>1, SendOthers DEF Others, Send
  <2> QED
    BY <1>4, <2>1, ForthSend
<1>5. ASSUME NEW r \in Side, Return(r) PROVE Forth(f, s)'
  BY <1>0, <1>1, <1>5, ReturnFacts, ForthRests DEF Others
<1>6. ASSUME NEW r \in Side, StartNew(r) \/ StartEdit(r) \/ StartDelete(r) PROVE Forth(f, s)'
  <2>1. CASE r # s
    <3>1. w'[s] = w[s] /\ job'[s] = job[s]
      BY <1>0, <1>6, <2>1, StartFacts, TakeFacts DEF Others
    <3> QED
      BY <1>1, <3>1
  <2> QED
    BY <1>6, <2>1, ForthStart
<1>7. ASSUME NEW r \in Side, Moves(r) PROVE Forth(f, s)'
  <2>1. CASE r # s
    <3>1. Others(r) /\ UNCHANGED job
      BY <1>0, <1>7, MoveWays, WayFacts
    <3> QED
      BY <1>1, <2>1, <3>1 DEF Others
  <2> QED
    BY <1>7, <2>1, ForthMove
<1> QED
  BY <1>2, <1>3, <1>4, <1>5, <1>6, <1>7, StepKinds

LEMMA StepDir ==
  ASSUME OneDirection, NEW f, DirInv(f), [Next]_vars
  PROVE  DirInv(f)'
<1>1. BridgeInv' /\ f \in InitModes
  BY StepKnown DEF DirInv
<1>2. \A p \in PairId : mode'[p] \in {f[p], "removed"}
  BY ModeForth
<1>3. \A m \in Posted' : PostForth(f, m)'
  BY PostsForth
<1>4. \A r \in rows' : RowForth(f, r)'
  BY RowsForth
<1>5. \A s \in Side : Forth(f, s)'
  BY HandlersForth
<1> QED
  BY <1>1, <1>2, <1>3, <1>4, <1>5 DEF DirInv

LEMMA InitDir == Init => \E f \in InitModes : DirInv(f)
<1> SUFFICES ASSUME Init PROVE DirInv(mode)
  BY DEF Init
<1>1. BridgeInv /\ mode \in InitModes
  BY InitKnown DEF Init
<1>2. rows = {} /\ Posted = {}
  BY <1>1 DEF Init, Posted, Exists, Msg
<1>3. ASSUME NEW s \in Side PROVE Forth(mode, s)
  <2>1. w[s].pc = "idle" /\ w[s].found = {}
    BY StoppedFacts DEF Init, PC
  <2> QED
    BY <2>1 DEF Forth, HandlerSound, Editing, Deleting
<1> QED
  BY <1>1, <1>2, <1>3 DEF DirInv

LEMMA DirSound ==
  ASSUME NEW f, DirInv(f)
  PROVE  MapSound /\ NoReflection /\ JustifiedRemoval
<1>0. /\ RowsKnown(rows, lastRow, Posted) /\ rows \subseteq Row
  BY InvFacts DEF DirInv
<1>1. ASSUME NEW r \in rows
      PROVE  /\ {r.src, r.dst} \subseteq Posted
             /\ {r.src.chat, r.dst.chat} = {TgOf[r.pair], BaleOf[r.pair]}
             /\ At(r.dst).src = r.src
  <2>1. RowForth(f, r) /\ r.src \in Posted /\ r.dst \in Posted
    BY <1>0 DEF DirInv, RowsKnown
  <2> QED
    BY <2>1 DEF RowForth, From, Into
<1>2. MapSound
  BY <1>1 DEF MapSound
<1>3. NoReflection
  BY DEF NoReflection, DirInv, PostForth, CopyOfUser
<1>4. JustifiedRemoval
  BY DEF JustifiedRemoval, DirInv, PostForth
<1> QED
  BY <1>2, <1>3, <1>4

LEMMA DirAlways ==
  ASSUME OneDirection
  PROVE  Spec => [](\E f \in InitModes : DirInv(f))
<1>1. (\E f \in InitModes : DirInv(f)) /\ [Next]_vars => (\E f \in InitModes : DirInv(f))'
  BY StepDir
<1> QED
  BY <1>1, InitDir, PTL DEF Spec

\* While pairs go one way and no channel is both one that pairs go from and one
\* they go into, the map is sound whatever users edit, platforms report, calls
\* fail and processes die (process_tg_edit, process_bale_edit take up a copy only
\* for the pair that made it).
THEOREM MapSoundOneWay ==
  ASSUME OneDirection
  PROVE  Spec => []MapSound
<1>1. (\E f \in InitModes : DirInv(f)) => MapSound
  BY DirSound
<1> QED
  BY <1>1, DirAlways, PTL

\* Then the bridge copies no copy, not even with echoes that come before the call
\* they are of has returned: no pair takes up the channel the echo is of
\* (PairsEngine.for_tg, for_bale).
THEOREM NothingReflectedOneWay ==
  ASSUME OneDirection
  PROVE  Spec => []NoReflection
<1>1. (\E f \in InitModes : DirInv(f)) => NoReflection
  BY DirSound
<1> QED
  BY <1>1, DirAlways, PTL

\* And it removes no message of a user, whatever the platforms report of the
\* deletions the bridge makes itself (the direction check of process_tg_delete,
\* process_bale_delete and of the edit fallbacks).
THEOREM NothingRemovedOneWay ==
  ASSUME OneDirection
  PROVE  Spec => []JustifiedRemoval
<1>1. (\E f \in InitModes : DirInv(f)) => JustifiedRemoval
  BY DirSound
<1> QED
  BY <1>1, DirAlways, PTL

-----------------------------------------------------------------------------
(* Copies stay within reach, in one direction *)

\* A query that serves an engine finds the copies under their rows.
LEMMA ForthRows ==
  ASSUME OneDirection, NEW f, DirInv(f), NEW s \in Side, NEW m, SideOf(m.chat) = s,
         rows' \subseteq rows, NEW F, F \subseteq OtherSide(rows', m), F # {},
         Applies(s, First(F)), NEW o \in F
  PROVE  RowOf(o, s)' /\ HasRow(o)'
<1>1. rows \subseteq Row /\ RowsKnown(rows, lastRow, Posted)
  BY InvFacts DEF DirInv
<1>2. F \subseteq Found /\ First(F) \in F
  BY <1>1, FewerRows, OtherSideFacts, FirstFound
<1>3. PICK r \in rows' : r.id = o.row /\ r.src = m /\ r.dst = o.msg
  BY <1>2, ForthQuery
<1>4. \A x \in rows' : x.id = o.row => x = r
  BY <1>1, <1>3 DEF RowsKnown
<1> QED
  BY <1>3, <1>4 DEF RowOf, HasRow

LEMMA ForthFinds ==
  ASSUME OneDirection, NEW f, DirInv(f), [Next]_vars, NEW s \in Side
  PROVE  FindsRows(s)
<1>0. BridgeInv
  BY DEF DirInv
<1> SUFFICES ASSUME NEW o \in w'[s].found,
                    o \notin w[s].found \/ StartNew(s) \/ StartEdit(s) \/ StartDelete(s)
             PROVE  RowOf(o, s)' /\ HasRow(o)'
  BY DEF FindsRows
<1>1. CASE StartNew(s) \/ StartEdit(s) \/ StartDelete(s)
  <2>1. Take(s) /\ rows' = rows
    BY <1>0, <1>1, StartFacts
  <2>2. Head(q[s]) \in HomeJob(s, Posted)
    BY <1>0, <2>1, TakeFacts
  <2>3. CASE /\ Head(q[s]).kind = "edit"
             /\ EditsOf(s, w'[s], OtherSide(rows, Head(q[s]).items[1].msg))
    <3>1. SideOf(Head(q[s]).items[1].msg.chat) = s
      BY <2>2, <2>3 DEF HomeJob, About
    <3> QED
      BY <2>1, <2>3, <3>1, ForthRows DEF EditsOf, Rests
  <2>4. CASE Head(q[s]).kind = "delete" /\ DeletesOf(s, w'[s], {}, Head(q[s]).ids, rows)
    <3>1. \A m \in Head(q[s]).ids : SideOf(m.chat) = s
      BY <2>2, <2>4 DEF HomeJob, About
    <3> QED
      BY <2>1, <2>4, <3>1, ForthRows DEF DeletesOf, Rests
  <2> QED
    BY <1>0, <1>1, <2>3, <2>4, StartFacts
<1>2. ASSUME NEW a \in Side, Moves(a), o \notin w[s].found PROVE RowOf(o, s)' /\ HasRow(o)'
  <2>1. Ways(a) /\ Others(a)
    BY <1>0, <1>2, MoveWays, WayFacts
  <2>2. a = s
    BY <1>2, <2>1 DEF Others
  <2>3. /\ rows' \subseteq rows /\ w'[s].found # {} /\ Applies(s, First(w'[s].found))
        /\ \E m \in w[s].mids : w'[s].found \subseteq OtherSide(rows', m)
    BY <1>0, <1>2, <2>1, <2>2, WayLooksUp DEF FewerFound
  <2>4. \A m \in w[s].mids : SideOf(m.chat) = s
    BY <1>0 DEF BridgeInv, HandlerKnown
  <2> QED
    BY <2>3, <2>4, ForthRows
<1>3. CASE o \notin w[s].found /\ ~(StartNew(s) \/ StartEdit(s) \/ StartDelete(s))
  <2>1. ASSUME NEW a \in Side, Send(a) PROVE w'[s].found = w[s].found
    <3>1. PICK m : m = [chat |-> SendChat(a), id |-> Len(posts[SendChat(a)]) + 1]
      OBVIOUS
    <3> QED
      BY <1>0, <2>1, <3>1, SendFacts DEF Others
  <2>2. ASSUME NEW a \in Side, Return(a) PROVE w'[s].found \subseteq w[s].found
    BY <1>0, <2>2, ReturnFacts DEF Rests, Others
  <2>3. CASE Crash
    BY <2>3, CrashFacts DEF Rests
  <2>4. CASE Outside \/ \E a \in Side : Intake(a)
    BY <1>0, <1>3, <2>4, OutsideFacts DEF Intake
  <2>5. ASSUME NEW a \in Side, StartNew(a) \/ StartEdit(a) \/ StartDelete(a)
        PROVE  w'[s].found = w[s].found
    BY <1>0, <1>3, <2>5, StartFacts DEF Others
  <2> QED
    BY <1>2, <1>3, <2>1, <2>2, <2>3, <2>4, <2>5, StepKinds
<1> QED
  BY <1>1, <1>3

\* CopyTracked for pairs that go one way, whatever the platforms report and users
\* do to sources and copies: sends and deletions that succeed, no restart between
\* them, and texts of one message are enough, while no pair is removed (pair_send,
\* replace_dst, remove_row).
THEOREM CopiesTrackedOneWay ==
  ASSUME OneDirection, NothingDropped, OnePart
  PROVE  Spec => []CopyTracked
<1>1. TrackInv /\ (\E f \in InitModes : DirInv(f)) /\ [Next]_vars => TrackInv'
  BY StepTrack, ForthFinds
<1>2. TrackInv => CopyTracked
  BY DEF TrackInv
<1> QED
  BY <1>1, <1>2, InitTrack, DirAlways, PTL DEF Spec

-----------------------------------------------------------------------------
(* The two sides agree at rest *)

\* The jobs of the line of a side that concern m; the jobs that carry a version
\* of it.
Concerns(m) == { j \in Job : m \in About(j) }
Versions(m) == { j \in Job : j.kind # "delete" /\ j.items[1].msg = m }

\* What is left to do for a side, in order: its queue, then its events.
Line(s) == q[s] \o stream[s]

\* No K is followed by a J; the last version in a has text t.
Before(a, J, K) == \A i, k \in DOMAIN a : a[i] \in J /\ a[k] \in K => i <= k
Latest(a, m, t) ==
  \A i \in DOMAIN a :
    a[i] \in Versions(m) /\ (\A k \in DOMAIN a : k > i => a[k] \notin Versions(m)) =>
      a[i].items[1].txt = t

\* A job concerns m by what it carries or by what it deletes, not both.
LEMMA JobSorts ==
  ASSUME NEW m
  PROVE  /\ News(m) \subseteq Versions(m)
         /\ Versions(m) \subseteq Concerns(m) /\ Deletions(m) \subseteq Concerns(m)
         /\ Versions(m) \cap Deletions(m) = {}
         /\ Concerns(m) \subseteq Versions(m) \cup Deletions(m)
         /\ NoJob \notin Concerns(m)
BY JobKinds DEF News, Versions, Deletions, Concerns, About, NoJob

\* The jobs that matter to m are the same and in the same order in a and b, which
\* is a without its k-th job (whole, if there is no k-th), and perhaps longer.
Shift(k, i) == IF i < k THEN i ELSE i + 1
Kin(m, x, y) ==
  \/ x = y
  \/ x \in Deletions(m) /\ y \in Deletions(m)
  \/ x \notin Concerns(m) /\ y \notin Concerns(m)
Thinned(m, k, a, b) ==
  /\ \A i \in DOMAIN b : b[i] \in Concerns(m) =>
       Shift(k, i) \in DOMAIN a /\ Kin(m, b[i], a[Shift(k, i)])
  /\ \A j \in DOMAIN a : a[j] \in Concerns(m) => \E i \in DOMAIN b : j = Shift(k, i)
                                                   /\ Kin(m, b[i], a[j])

\* To m, the lines a and b are alike.
Alike(m, a, b) ==
  /\ Before(a, News(m), Concerns(m)) => Before(b, News(m), Concerns(m))
  /\ Before(a, Concerns(m), Deletions(m)) => Before(b, Concerns(m), Deletions(m))
  /\ \A J \in {News(m), Versions(m), Deletions(m), Concerns(m)} :
       Occurs(a, J) <=> Occurs(b, J)
  /\ \A t : Latest(a, m, t) => Latest(b, m, t)

LEMMA KinSorts ==
  ASSUME NEW m, NEW x, NEW y, Kin(m, x, y)
  PROVE  /\ \A J \in {News(m), Versions(m), Deletions(m), Concerns(m)} : x \in J <=> y \in J
         /\ x \in Versions(m) => x = y
BY JobSorts DEF Kin

LEMMA ThinnedAlike ==
  ASSUME NEW m, NEW k \in Nat, NEW a, NEW b, DOMAIN a \subseteq Nat, DOMAIN b \subseteq Nat,
         Thinned(m, k, a, b)
  PROVE  Alike(m, a, b)
<1> DEFINE Sorts == {News(m), Versions(m), Deletions(m), Concerns(m)}
<1>0. \A J \in Sorts : J \subseteq Concerns(m)
  BY JobSorts
<1>1. \A J \in Sorts : \A i \in DOMAIN b : b[i] \in J => Shift(k, i) \in DOMAIN a /\ a[Shift(k, i)] \in J
  BY <1>0, KinSorts DEF Thinned
<1>2. \A J \in Sorts : \A j \in DOMAIN a : a[j] \in J => \E i \in DOMAIN b : j = Shift(k, i) /\ b[i] \in J
  <2> SUFFICES ASSUME NEW J \in Sorts, NEW j \in DOMAIN a, a[j] \in J
               PROVE  \E i \in DOMAIN b : j = Shift(k, i) /\ b[i] \in J
    OBVIOUS
  <2>1. PICK i \in DOMAIN b : j = Shift(k, i) /\ Kin(m, b[i], a[j])
    BY <1>0 DEF Thinned
  <2> QED BY <2>1, KinSorts
<1>3. \A i, j \in DOMAIN b : /\ Shift(k, i) <= Shift(k, j) => i <= j
                            /\ i < j => Shift(k, i) < Shift(k, j)
  BY DEF Shift
<1>4. \A J, K \in Sorts : Before(a, J, K) => Before(b, J, K)
  BY <1>1, <1>3 DEF Before
<1>5. \A J \in Sorts : Occurs(a, J) <=> Occurs(b, J)
  BY <1>1, <1>2 DEF Occurs
<1>6. ASSUME NEW t, Latest(a, m, t)
      PROVE  Latest(b, m, t)
  <2> SUFFICES ASSUME NEW i \in DOMAIN b, b[i] \in Versions(m),
                      \A l \in DOMAIN b : l > i => b[l] \notin Versions(m)
               PROVE  b[i].items[1].txt = t
    BY DEF Latest
  <2>1. Shift(k, i) \in DOMAIN a /\ a[Shift(k, i)] = b[i]
    BY JobSorts, KinSorts DEF Thinned
  <2>2. ASSUME NEW j \in DOMAIN a, j > Shift(k, i), a[j] \in Versions(m)
        PROVE  FALSE
    <3>1. PICK l \in DOMAIN b : j = Shift(k, l) /\ b[l] \in Versions(m)
      BY <2>2, <1>2
    <3>2. l > i
      BY <3>1, <2>2 DEF Shift
    <3> QED BY <3>1, <3>2
  <2> QED BY <2>1, <2>2, <1>6 DEF Latest
<1> QED BY <1>4, <1>5, <1>6 DEF Alike

\* Ways in which a line stays alike.
LEMMA AlikeLonger ==
  ASSUME NEW m, NEW a \in Seq(Job), NEW u \in Seq(Job), ~Occurs(u, Concerns(m))
  PROVE  Alike(m, a, a \o u)
<1> DEFINE k == Len(a) + Len(u) + 1
<1>0. k \in Nat /\ DOMAIN a = 1..Len(a) /\ DOMAIN u = 1..Len(u)
  OBVIOUS
<1>1. /\ DOMAIN (a \o u) = 1..(Len(a) + Len(u))
      /\ \A i \in DOMAIN (a \o u) : (a \o u)[i] = IF i <= Len(a) THEN a[i] ELSE u[i - Len(a)]
  OBVIOUS
<1>2. \A i \in DOMAIN (a \o u) : Shift(k, i) = i
  BY <1>1 DEF Shift
<1>3. \A i \in DOMAIN (a \o u) : (a \o u)[i] \in Concerns(m) => i \in DOMAIN a
  <2> SUFFICES ASSUME NEW i \in DOMAIN (a \o u), (a \o u)[i] \in Concerns(m), i > Len(a)
               PROVE  FALSE
    BY <1>0, <1>1
  <2>1. i - Len(a) \in DOMAIN u /\ (a \o u)[i] = u[i - Len(a)]
    BY <1>0, <1>1
  <2> QED BY <2>1 DEF Occurs
<1>4. Thinned(m, k, a, a \o u)
  <2> HIDE DEF k
  <2> QED BY <1>0, <1>1, <1>2, <1>3 DEF Thinned, Kin
<1> HIDE DEF k
<1>5. DOMAIN a \subseteq Nat /\ DOMAIN (a \o u) \subseteq Nat /\ k \in Nat
  BY <1>0, <1>1
<1> QED BY <1>4, <1>5, ThinnedAlike

LEMMA AlikeEvent ==
  ASSUME NEW m, NEW a \in Seq(Job), NEW e \in Job, e \notin Concerns(m)
  PROVE  Alike(m, a, Append(a, e))
<1>1. Append(a, e) = a \o <<e>> /\ <<e>> \in Seq(Job)
  OBVIOUS
<1>2. ~Occurs(<<e>>, Concerns(m))
  BY DEF Occurs
<1> QED BY <1>1, <1>2, AlikeLonger

LEMMA AlikeWithout ==
  ASSUME NEW m, NEW a \in Seq(Job), NEW b \in Seq(Job), b # <<>>, Head(b) \notin Concerns(m)
  PROVE  Alike(m, a \o b, a \o Tail(b))
<1> DEFINE k == Len(a) + 1
<1>0. k \in Nat /\ Tail(b) \in Seq(Job) /\ Len(b) > 0 /\ Len(Tail(b)) = Len(b) - 1
  OBVIOUS
<1>1. /\ DOMAIN (a \o b) = 1..(Len(a) + Len(b))
      /\ \A i \in DOMAIN (a \o b) : (a \o b)[i] = IF i <= Len(a) THEN a[i] ELSE b[i - Len(a)]
  OBVIOUS
<1>2. /\ DOMAIN (a \o Tail(b)) = 1..(Len(a) + Len(b) - 1)
      /\ \A i \in DOMAIN (a \o Tail(b)) :
           (a \o Tail(b))[i] = IF i <= Len(a) THEN a[i] ELSE b[i - Len(a) + 1]
  BY <1>0
<1>3. \A i \in DOMAIN (a \o Tail(b)) :
        Shift(k, i) \in DOMAIN (a \o b) /\ (a \o b)[Shift(k, i)] = (a \o Tail(b))[i]
  BY <1>0, <1>1, <1>2 DEF Shift
<1>4. ASSUME NEW j \in DOMAIN (a \o b), (a \o b)[j] \in Concerns(m)
      PROVE  \E i \in DOMAIN (a \o Tail(b)) : j = Shift(k, i)
  <2>1. j # k
    BY <1>0, <1>1, <1>4
  <2>2. (IF j < k THEN j ELSE j - 1) \in DOMAIN (a \o Tail(b))
    BY <2>1, <1>0, <1>1, <1>2
  <2>3. j = Shift(k, IF j < k THEN j ELSE j - 1)
    BY <2>1, <1>0, <1>1 DEF Shift
  <2> QED BY <2>2, <2>3
<1>5. Thinned(m, k, a \o b, a \o Tail(b))
  <2> HIDE DEF k
  <2> QED BY <1>3, <1>4 DEF Thinned, Kin
<1> HIDE DEF k
<1>6. DOMAIN (a \o b) \subseteq Nat /\ DOMAIN (a \o Tail(b)) \subseteq Nat /\ k \in Nat
  BY <1>0, <1>1, <1>2
<1> QED BY <1>5, <1>6, ThinnedAlike

LEMMA AlikePut ==
  ASSUME NEW m, NEW a \in Seq(Job), NEW b \in Seq(Job), b # <<>>, NEW e \in Job,
         Kin(m, e, Head(b))
  PROVE  Alike(m, a \o b, Append(a, e) \o Tail(b))
<1> DEFINE k == Len(a) + Len(b) + 1
           c == Append(a, e) \o Tail(b)
<1>0. /\ k \in Nat /\ Tail(b) \in Seq(Job) /\ Len(b) > 0 /\ Len(Tail(b)) = Len(b) - 1
      /\ Append(a, e) \in Seq(Job) /\ Len(Append(a, e)) = Len(a) + 1
  OBVIOUS
<1>1. /\ DOMAIN (a \o b) = 1..(Len(a) + Len(b))
      /\ \A i \in DOMAIN (a \o b) : (a \o b)[i] = IF i <= Len(a) THEN a[i] ELSE b[i - Len(a)]
  OBVIOUS
<1>2. /\ DOMAIN c = 1..(Len(a) + Len(b))
      /\ \A i \in DOMAIN c : c[i] = IF i <= Len(a) + 1 THEN Append(a, e)[i] ELSE b[i - Len(a)]
  BY <1>0
<1>3. \A i \in DOMAIN c : c[i] = IF i = Len(a) + 1 THEN e ELSE (a \o b)[i]
  BY <1>0, <1>1, <1>2
<1>4. (a \o b)[Len(a) + 1] = Head(b)
  BY <1>0, <1>1
<1>5. \A i \in DOMAIN c : Shift(k, i) = i /\ i \in DOMAIN (a \o b)
  BY <1>1, <1>2 DEF Shift
<1>6. \A i \in DOMAIN c : Kin(m, c[i], (a \o b)[i])
  BY <1>3, <1>4 DEF Kin
<1>7. Thinned(m, k, a \o b, c)
  <2> HIDE DEF k, c
  <2> QED BY <1>1, <1>2, <1>5, <1>6 DEF Thinned
<1> HIDE DEF k, c
<1>8. DOMAIN c \subseteq Nat /\ DOMAIN (a \o b) \subseteq Nat
  BY <1>1, <1>2
<1>9. Alike(m, a \o b, c)
  BY <1>0, <1>7, <1>8, ThinnedAlike
<1> QED BY <1>9 DEF c

\* What is left of a line whose first job is taken, ...
LEMMA TakenFrom ==
  ASSUME NEW m, NEW a \in Seq(Job), a # <<>>
  PROVE  /\ Before(a, News(m), Concerns(m)) => Before(Tail(a), News(m), Concerns(m))
         /\ Before(a, Concerns(m), Deletions(m)) => Before(Tail(a), Concerns(m), Deletions(m))
         /\ \A J : Occurs(a, J) <=> Head(a) \in J \/ Occurs(Tail(a), J)
         /\ \A t : Latest(a, m, t) => Latest(Tail(a), m, t)
         /\ \A t : Latest(a, m, t) /\ Head(a) \in Versions(m) /\ ~Occurs(Tail(a), Versions(m)) =>
                    Head(a).items[1].txt = t
         /\ Before(a, News(m), Concerns(m)) /\ Head(a) \in Concerns(m) =>
              ~Occurs(Tail(a), News(m))
         /\ Before(a, Concerns(m), Deletions(m)) /\ Head(a) \in Deletions(m) =>
              ~Occurs(Tail(a), Concerns(m))
<1> DEFINE b == Tail(a)
<1>0. /\ DOMAIN a = 1..Len(a) /\ Len(a) \in Nat /\ Len(a) > 0 /\ Head(a) = a[1]
      /\ DOMAIN b = 1..(Len(a) - 1) /\ \A i \in DOMAIN b : b[i] = a[i + 1]
  OBVIOUS
<1>1. /\ 1 \in DOMAIN a /\ DOMAIN a \subseteq Nat /\ DOMAIN b \subseteq Nat
      /\ \A i \in DOMAIN b : i + 1 \in DOMAIN a /\ i + 1 > 1
      /\ \A j \in DOMAIN a : j # 1 => j - 1 \in DOMAIN b /\ (j - 1) + 1 = j /\ j > 1
  BY <1>0
<1> HIDE DEF b
<1>2. \A J, K : Before(a, J, K) => Before(b, J, K)
  <2> SUFFICES ASSUME NEW J, NEW K, Before(a, J, K), NEW i \in DOMAIN b, NEW k \in DOMAIN b,
                      b[i] \in J, b[k] \in K
               PROVE  i <= k
    BY DEF Before
  <2>1. i + 1 <= k + 1
    BY <1>0, <1>1 DEF Before
  <2> QED BY <2>1, <1>1
<1>3. \A J : Occurs(a, J) <=> Head(a) \in J \/ Occurs(b, J)
  <2> SUFFICES ASSUME NEW J
               PROVE  Occurs(a, J) <=> Head(a) \in J \/ Occurs(b, J)
    OBVIOUS
  <2>1. \A j \in DOMAIN a : j # 1 => j - 1 \in DOMAIN b /\ b[j - 1] = a[j]
    BY <1>0, <1>1
  <2> QED BY <2>1, <1>0, <1>1 DEF Occurs
<1>4. ASSUME NEW t, Latest(a, m, t)
      PROVE  Latest(b, m, t)
  <2> SUFFICES ASSUME NEW i \in DOMAIN b, b[i] \in Versions(m),
                      \A k \in DOMAIN b : k > i => b[k] \notin Versions(m)
               PROVE  b[i].items[1].txt = t
    BY DEF Latest
  <2>1. ASSUME NEW j \in DOMAIN a, j > i + 1
        PROVE  a[j] \notin Versions(m)
    <3>1. j - 1 \in DOMAIN b /\ j - 1 > i /\ b[j - 1] = a[j]
      BY <2>1, <1>0, <1>1
    <3> QED BY <3>1
  <2>2. i + 1 \in DOMAIN a /\ a[i + 1] = b[i]
    BY <1>0, <1>1
  <2> QED BY <2>1, <2>2, <1>4 DEF Latest
<1>5. ASSUME NEW t, Latest(a, m, t), Head(a) \in Versions(m), ~Occurs(b, Versions(m))
      PROVE  Head(a).items[1].txt = t
  <2>1. \A j \in DOMAIN a : j > 1 => a[j] \notin Versions(m)
    <3> SUFFICES ASSUME NEW j \in DOMAIN a, j > 1
                 PROVE  a[j] \notin Versions(m)
      OBVIOUS
    <3>1. j - 1 \in DOMAIN b /\ b[j - 1] = a[j]
      BY <1>0, <1>1
    <3> QED BY <3>1, <1>5 DEF Occurs
  <2> QED BY <2>1, <1>0, <1>1, <1>5 DEF Latest
<1>6. ASSUME NEW J, NEW K, Before(a, J, K), Head(a) \in K
      PROVE  ~Occurs(b, J)
  <2> SUFFICES ASSUME NEW i \in DOMAIN b, b[i] \in J
               PROVE  FALSE
    BY DEF Occurs
  <2>1. i + 1 \in DOMAIN a /\ a[i + 1] \in J /\ a[1] \in K /\ i + 1 > 1
    BY <1>0, <1>1, <1>6
  <2>2. i + 1 <= 1
    BY <2>1, <1>1, <1>6 DEF Before
  <2> QED BY <2>1, <2>2, <1>1
<1>7. b = Tail(a)
  BY DEF b
<1>8. \A t : Latest(a, m, t) => Latest(Tail(a), m, t)
  BY <1>4, <1>7
<1>9. \A t : Latest(a, m, t) /\ Head(a) \in Versions(m) /\ ~Occurs(Tail(a), Versions(m)) =>
        Head(a).items[1].txt = t
  BY <1>5, <1>7
<1>10. \A J, K : Before(a, J, K) /\ Head(a) \in K => ~Occurs(Tail(a), J)
  BY <1>6, <1>7
<1>11. /\ Before(a, News(m), Concerns(m)) /\ Head(a) \in Concerns(m) => ~Occurs(Tail(a), News(m))
       /\ Before(a, Concerns(m), Deletions(m)) /\ Head(a) \in Deletions(m) =>
            ~Occurs(Tail(a), Concerns(m))
  BY <1>10
<1>12. \A J : Occurs(a, J) <=> Head(a) \in J \/ Occurs(Tail(a), J)
  BY <1>3, <1>7
<1>13. /\ Before(a, News(m), Concerns(m)) => Before(Tail(a), News(m), Concerns(m))
       /\ Before(a, Concerns(m), Deletions(m)) => Before(Tail(a), Concerns(m), Deletions(m))
  BY <1>2, <1>7
<1> QED BY <1>8, <1>9, <1>11, <1>12, <1>13

\* ... and of one that a report about m extends.
LEMMA Extended ==
  ASSUME NEW m, NEW a \in Seq(Job), NEW e \in Job
  PROVE  /\ Before(a, News(m), Concerns(m)) /\ e \notin News(m) =>
              Before(Append(a, e), News(m), Concerns(m))
         /\ Before(a, Concerns(m), Deletions(m)) /\ ~Occurs(a, Deletions(m)) =>
              Before(Append(a, e), Concerns(m), Deletions(m))
         /\ \A J : Occurs(Append(a, e), J) <=> Occurs(a, J) \/ e \in J
         /\ e \in Versions(m) => Latest(Append(a, e), m, e.items[1].txt)
         /\ \A t : e \notin Versions(m) /\ Latest(a, m, t) => Latest(Append(a, e), m, t)
         /\ ~Occurs(a, Concerns(m)) => /\ Before(Append(a, e), News(m), Concerns(m))
                                       /\ Before(Append(a, e), Concerns(m), Deletions(m))
<1> DEFINE b == Append(a, e)
           n == Len(a) + 1
<1>0. /\ DOMAIN a = 1..Len(a) /\ n \in Nat /\ DOMAIN b = 1..n /\ n \in DOMAIN b /\ b[n] = e
      /\ \A i \in DOMAIN b : i # n => i \in DOMAIN a /\ b[i] = a[i] /\ i < n
      /\ \A i \in DOMAIN a : i \in DOMAIN b /\ b[i] = a[i] /\ i < n
  OBVIOUS
<1>1. DOMAIN b \subseteq Nat /\ DOMAIN a \subseteq Nat
  BY <1>0
<1> HIDE DEF b, n
<1>2. Before(a, News(m), Concerns(m)) /\ e \notin News(m) => Before(b, News(m), Concerns(m))
  <2> SUFFICES ASSUME Before(a, News(m), Concerns(m)), e \notin News(m),
                      NEW i \in DOMAIN b, NEW k \in DOMAIN b, b[i] \in News(m), b[k] \in Concerns(m)
               PROVE  i <= k
    BY DEF Before
  <2> QED BY <1>0, <1>1 DEF Before
<1>3. ASSUME Before(a, Concerns(m), Deletions(m)), ~Occurs(a, Deletions(m))
      PROVE  Before(b, Concerns(m), Deletions(m))
  <2> SUFFICES ASSUME NEW i \in DOMAIN b, NEW k \in DOMAIN b,
                      b[i] \in Concerns(m), b[k] \in Deletions(m)
               PROVE  i <= k
    BY DEF Before
  <2>1. CASE k = n
    BY <2>1, <1>0, <1>1
  <2>2. CASE k # n
    <3>1. a[k] \in Deletions(m) /\ k \in DOMAIN a
      BY <2>2, <1>0
    <3>2. i # n
      BY <3>1, <1>3 DEF Occurs
    <3> QED BY <3>1, <3>2, <1>0, <1>3 DEF Before
  <2> QED BY <2>1, <2>2
<1>4. \A J : Occurs(b, J) <=> Occurs(a, J) \/ e \in J
  BY <1>0 DEF Occurs
<1>5. e \in Versions(m) => Latest(b, m, e.items[1].txt)
  BY <1>0, <1>1 DEF Latest
<1>6. ASSUME NEW t, e \notin Versions(m), Latest(a, m, t)
      PROVE  Latest(b, m, t)
  BY <1>6, <1>0 DEF Latest
<1>7. ASSUME ~Occurs(a, Concerns(m))
      PROVE  /\ Before(b, News(m), Concerns(m)) /\ Before(b, Concerns(m), Deletions(m))
  <2>1. \A i \in DOMAIN b : b[i] \in Concerns(m) => i = n
    BY <1>7, <1>0 DEF Occurs
  <2> QED BY <2>1, <1>0, JobSorts DEF Before
<1>8. b = Append(a, e)
  BY DEF b
<1> QED BY <1>2, <1>3, <1>4, <1>5, <1>6, <1>7, <1>8

-----------------------------------------------------------------------------
(* The two sides agree at rest *)

\* No two pairs join the same channels.
PairsDiffer ==
  \A p, r \in PairId : TgOf[p] = TgOf[r] /\ BaleOf[p] = BaleOf[r] => p = r
\* Users change what they wrote, not its copies, and what they delete is reported.
SourcesOnly ==
  /\ \A s \in Side : <<s, "copy">> \notin UserEdits /\ <<s, "copy">> \notin UserDeletes
  /\ <<"bale", "source">> \in UserDeletes => BaleMode = "user"
\* An edit that fails falls back: it breaks off no job of the engine towards the bot.
NothingBroken == BaleMode = "bot" => <<"bale", "edit">> \notin Faulty
\* The regime in which nothing but an edit fails.
Smooth ==
  OneDirection /\ NothingDropped /\ NothingBroken /\ OnePart /\ PairsDiffer /\ SourcesOnly

Originals(s) == { m \in Posted : ByUser(m) /\ SideOf(m.chat) = s }

\* A post is reported before anything else about it, its deletion last; before it
\* is taken up it has no row, and a live message has no deletion to come.
InOrder(s, m) ==
  /\ Before(Line(s), News(m), Concerns(m)) /\ Before(Line(s), Concerns(m), Deletions(m))
  /\ Occurs(Line(s), News(m)) => job[s] \notin Concerns(m) /\ \A r \in rows : r.src # m
  /\ job[s] \in Deletions(m) => ~Occurs(Line(s), Concerns(m))
  /\ Live(m) => ~Occurs(Line(s), Deletions(m)) /\ job[s] \notin Deletions(m)

\* A live message has a row for each pair it goes to, or will have it.
Served(m, p) == \E r \in rows : r.src = m /\ r.pair = p
Sending(s, m, p) == w[s].pc = "send" /\ Source(s).msg = m /\ p \in w[s].todo
Mirrored(f, s, m) ==
  Live(m) => \A p \in PairId :
    From(f, p) = m.chat => Occurs(Line(s), News(m)) \/ Sending(s, m, p) \/ Served(m, p)

\* A deleted one has no row, but for those its deletion will still find.
ToServe(s, r) == \E o \in w[s].found : o.row = r.id
Forgetting(s, m, r) == w[s].pc \in Deleting /\ (m \in w[s].mids \/ ToServe(s, r))
Forgotten(s, m) ==
  ~Live(m) =>
    \/ Occurs(Line(s), Deletions(m))
    \/ /\ ~Occurs(Line(s), Concerns(m)) /\ job[s] \notin Versions(m)
       /\ \A r \in rows : r.src = m => Forgetting(s, m, r)

\* The last version reported is the text of the message; once it is taken up, the
\* copies have it, but for those the edit has still to serve.
Renewing(s, r) == w[s].pc \in Editing /\ ToServe(s, r)
UpToDate(s, m) ==
  /\ Latest(Line(s), m, At(m).txt)
  /\ ~Occurs(Line(s), Versions(m)) =>
       /\ job[s] \in Versions(m) => Source(s).txt = At(m).txt
       /\ \A r \in rows : r.src = m => At(r.dst).txt = At(m).txt \/ Renewing(s, r)

Synced(f, s, m) == InOrder(s, m) /\ Mirrored(f, s, m) /\ Forgotten(s, m) /\ UpToDate(s, m)

\* The ledger and the deletions to come name copies; the fingerprints are of the
\* channels copied into; there is one row per message and pair.
OwnMarks == \A m \in sent \cup ignore : m \in Posted /\ ~ByUser(m)
PrintsInto(f) == \A x \in fps : \E p \in PairId : x.chat = Into(f, p)
OneEach == \A r1, r2 \in rows : r1.src = r2.src /\ r1.pair = r2.pair => r1 = r2

\* Rows have live copies, except the one whose copy the handler has just deleted.
Emptied(s) == w[s].pc \in {"removed", "deleted"} \/ (s = "bale" /\ w[s].pc = "resend")
Ending(r) == \E s \in Side : Emptied(s) /\ Target(s).row = r.id
DstLive == \A r \in rows : Live(r.dst) \/ Ending(r)

\* What a handler has left to do is still to be done, and what it has made is
\* there and in no row.
Working(s) ==
  /\ w[s].pc = "send" => \A p \in w[s].todo : ~Served(Source(s).msg, p)
  /\ \A o \in w[s].found : Applies(s, o) /\ HasRow(o)
  /\ w[s].pc \in Deleting => \A o \in w[s].found : ~Live(At(o.msg).src)
  /\ \A m \in w[s].mids : ByUser(m) => ~Live(m)
  /\ \A n \in Range(w[s].made) :
       Live(n) /\ At(n).txt = Source(s).txt /\ \A r \in rows : r.dst # n

SyncInv(f) ==
  /\ DirInv(f) /\ TrackInv
  /\ mode = f /\ OwnMarks /\ PrintsInto(f) /\ OneEach /\ DstLive
  /\ \A s \in Side : Working(s)
  /\ \A s \in Side : \A m \in Originals(s) : Synced(f, s, m)

LEMMA SyncKnown ==
  ASSUME NEW f, SyncInv(f)
  PROVE  /\ DirInv(f) /\ TrackInv /\ BridgeInv /\ f \in InitModes /\ f \in [PairId -> Mode]
         /\ mode = f /\ OwnMarks /\ PrintsInto(f) /\ OneEach /\ DstLive
         /\ \A s \in Side : Working(s) /\ RowsFound(s) /\ HandsEmpty(s) /\ Forth(f, s)
         /\ \A s \in Side : \A m \in Originals(s) : Synced(f, s, m)
         /\ \A r \in rows : RowForth(f, r)
BY TrackKnown, PairAssumption DEF SyncInv, DirInv

\* What is known of a row.
LEMMA RowSides ==
  ASSUME Smooth, NEW f, SyncInv(f), NEW r \in rows
  PROVE  /\ r \in Row /\ r.id \in Nat /\ r.pair \in PairId
         /\ r.src \in Posted /\ r.dst \in Posted /\ r.src \in Msg /\ r.dst \in Msg
         /\ ByUser(r.src) /\ ~ByUser(r.dst) /\ At(r.dst).src = r.src
         /\ r.src.chat = From(f, r.pair) /\ r.dst.chat = Into(f, r.pair)
         /\ \A s \in Side : SideOf(r.src.chat) = s =>
              /\ SideOf(r.dst.chat) = Other(s) /\ Goes(f, s, r.pair) /\ r.src \in Originals(s)
<1>1. /\ BridgeInv /\ f \in InitModes /\ OneDirection /\ RowForth(f, r)
      /\ rows \subseteq Row /\ RowsKnown(rows, lastRow, Posted) /\ Posted \subseteq Msg
  BY SyncKnown, InvFacts DEF Smooth
<1>2. /\ r \in Row /\ r.id \in Nat /\ r.pair \in PairId /\ r.src \in Msg /\ r.dst \in Msg
      /\ r.src \in Posted /\ r.dst \in Posted
  BY <1>1 DEF Row, RowsKnown
<1>3. ByUser(r.src) /\ At(r.dst).src = r.src /\ r.src.chat = From(f, r.pair) /\ r.dst.chat = Into(f, r.pair)
  BY <1>1 DEF RowForth
<1>4. ~ByUser(r.dst)
  BY <1>2, <1>3, MsgAssumption DEF ByUser
<1>5. ASSUME NEW s \in Side, SideOf(r.src.chat) = s
      PROVE  SideOf(r.dst.chat) = Other(s) /\ Goes(f, s, r.pair) /\ r.src \in Originals(s)
  BY <1>1, <1>2, <1>3, <1>5, GoesFacts DEF Originals
<1> QED BY <1>2, <1>3, <1>4, <1>5

\* No message is the copy of two rows.
LEMMA OneDst ==
  ASSUME Smooth, NEW f, SyncInv(f), NEW r1 \in rows, NEW r2 \in rows, r1.dst = r2.dst
  PROVE  r1 = r2
<1>0. f \in InitModes /\ OneEach /\ f \in [PairId -> Mode]
  BY SyncKnown
<1>1. /\ r1.src = r2.src /\ r1.pair \in PairId /\ r2.pair \in PairId
      /\ From(f, r1.pair) = From(f, r2.pair) /\ Into(f, r1.pair) = Into(f, r2.pair)
  BY RowSides
<1>2. /\ f[r1.pair] \in {"tg2bale", "bale2tg"} /\ f[r2.pair] \in {"tg2bale", "bale2tg"}
  BY <1>0, <1>1 DEF Smooth, OneDirection, Mode
<1>3. /\ SideOf(TgOf[r1.pair]) = "tg" /\ SideOf(BaleOf[r1.pair]) = "bale"
      /\ SideOf(TgOf[r2.pair]) = "tg" /\ SideOf(BaleOf[r2.pair]) = "bale"
  BY <1>1, PairChats DEF Side
<1>4. TgOf[r1.pair] = TgOf[r2.pair] /\ BaleOf[r1.pair] = BaleOf[r2.pair]
  BY <1>1, <1>2, <1>3 DEF From, Into
<1>5. r1.pair = r2.pair
  BY <1>1, <1>4 DEF Smooth, PairsDiffer
<1> QED BY <1>0, <1>1, <1>5 DEF OneEach

\* What a handler has found are the copies of rows, each of one row.
LEMMA FoundRow ==
  ASSUME Smooth, NEW f, SyncInv(f), NEW s \in Side, NEW o \in w[s].found
  PROVE  /\ \E r \in rows : r.id = o.row /\ r.dst = o.msg
         /\ \A r \in rows : r.id = o.row <=> r.dst = o.msg
         /\ \A r \in rows : r.id = o.row => /\ SideOf(r.src.chat) = s /\ SideOf(r.dst.chat) = Other(s)
                                            /\ w[s].pc \in Editing => r.src = Source(s).msg
         /\ o.msg \in Posted /\ ~ByUser(o.msg) /\ SideOf(o.msg.chat) = Other(s)
<1>1. PICK r \in rows : r.id = o.row /\ r.dst = o.msg
  BY SyncKnown DEF Working, HasRow, RowsFound, RowOf
<1>2. \A x \in rows : x.id = o.row => x.dst = o.msg /\ SideOf(x.src.chat) = s
  BY SyncKnown DEF RowsFound, RowOf
<1>3. \A x \in rows : x.dst = o.msg => x.id = o.row
  BY <1>1, OneDst
<1>4. \A x \in rows : x.id = o.row => SideOf(x.dst.chat) = Other(s)
  BY <1>2, RowSides
<1>5. w[s].pc \in Editing => \A x \in rows : x.id = o.row => x.src = Source(s).msg
  BY SyncKnown DEF Forth, HandlerSound
<1>6. o.msg \in Posted /\ ~ByUser(o.msg) /\ SideOf(o.msg.chat) = Other(s)
  BY <1>1, <1>4, RowSides
<1> QED BY <1>1, <1>2, <1>3, <1>4, <1>5, <1>6

\* The copy a handler is about to serve is there, until it deletes it itself.
LEMMA TargetLive ==
  ASSUME Smooth, NEW f, SyncInv(f), NEW s \in Side, w[s].pc \in Editing \cup Deleting
  PROVE  /\ Target(s) \in w[s].found /\ \E r \in rows : r.id = Target(s).row /\ r.dst = Target(s).msg
         /\ Emptied(s) \/ Live(Target(s).msg)
<1>1. PICK o : o = Target(s)
  OBVIOUS
<1>2. o \in w[s].found
  BY <1>1, SyncKnown, TargetFacts
<1>3. PICK r \in rows : r.id = o.row /\ r.dst = o.msg
  BY <1>2, FoundRow
<1>4. ASSUME ~Emptied(s) PROVE Live(r.dst)
  <2> SUFFICES ASSUME Ending(r) PROVE FALSE
    BY SyncKnown DEF DstLive
  <2>1. PICK t \in Side : Emptied(t) /\ Target(t).row = r.id
    BY DEF Ending
  <2>2. t # s
    BY <2>1, <1>4
  <2>3. w[t].pc \in Editing \cup Deleting
    BY <2>1 DEF Emptied, Editing, Deleting
  <2> QED BY <1>2, <1>3, <2>1, <2>2, <2>3, OwnRows, SyncKnown
<1> QED BY <1>1, <1>2, <1>3, <1>4

\* What a query for a user's message finds, of the rows that are left: each row of
\* it, and nothing the engine skips.
LEMMA QueryAll ==
  ASSUME Smooth, NEW f, SyncInv(f), NEW s \in Side, NEW m \in Originals(s),
         NEW table, table \subseteq rows
  PROVE  /\ \A r \in table : r.src = m => \E o \in OtherSide(table, m) : o.row = r.id
         /\ \A o \in OtherSide(table, m) : Applies(s, o) /\ \E r \in table : r.id = o.row /\ r.src = m
                                                                       /\ r.dst = o.msg
<1>0. /\ m \in Posted /\ ByUser(m) /\ SideOf(m.chat) = s
      /\ table \subseteq Row /\ RowsKnown(table, lastRow, Posted) /\ OneEach
      /\ mode = f /\ f \in [PairId -> Mode]
  BY SyncKnown, InvFacts, FewerRows DEF Originals
<1>1. \A r \in table : r.dst # m
  BY <1>0, RowSides
<1>2. ASSUME NEW r \in table, r.src = m
      PROVE  \E o \in OtherSide(table, m) : o.row = r.id
  <2> DEFINE ends == { [msg |-> x.dst, pair |-> x.pair, row |-> x.id] :
                         x \in { x \in table : x.src = m } }
                     \cup
                     { [msg |-> x.src, pair |-> x.pair, row |-> x.id] :
                         x \in { x \in table : x.src # m /\ x.dst = m } }
             o == [msg |-> r.dst, pair |-> r.pair, row |-> r.id]
  <2>1. o \in ends
    BY <1>2
  <2>2. \A p \in ends : \E x \in table : x.src = m /\ p.pair = x.pair /\ p.row = x.id
    BY <1>1
  <2>3. r.id \in Nat
    BY <1>0 DEF Row
  <2>4. ASSUME NEW p \in ends, p.pair = o.pair PROVE o.row <= p.row
    <3>1. PICK x \in table : x.src = m /\ p.pair = x.pair /\ p.row = x.id
      BY <2>2
    <3>2. x = r
      BY <1>0, <1>2, <2>4, <3>1 DEF OneEach
    <3> QED BY <2>3, <3>1, <3>2
  <2>5. OtherSide(table, m) = { x \in ends : \A p \in ends :
                                  (p.msg = x.msg /\ p.pair = x.pair) => x.row <= p.row }
    BY DEF OtherSide
  <2> HIDE DEF ends
  <2>6. o \in OtherSide(table, m)
    BY <2>1, <2>4, <2>5
  <2> QED BY <2>6
<1>3. ASSUME NEW o \in OtherSide(table, m)
      PROVE  Applies(s, o) /\ \E r \in table : r.id = o.row /\ r.src = m /\ r.dst = o.msg
  <2>1. PICK r \in table : r.id = o.row /\ r.pair = o.pair /\ r.src = m /\ r.dst = o.msg
    BY <1>0, <1>1, OtherSideFacts
  <2>2. /\ SideOf(o.msg.chat) = Other(s) /\ Goes(f, s, o.pair) /\ o.pair \in PairId
    BY <1>0, <2>1, RowSides
  <2>3. f[o.pair] # "removed"
    BY <1>0, <2>2 DEF Mode
  <2> QED BY <1>0, <2>1, <2>2, <2>3 DEF Applies, Goes, Against
<1> QED BY <1>2, <1>3

\* A copy has no row an engine takes up.
LEMMA QueryNone ==
  ASSUME Smooth, NEW f, SyncInv(f), NEW s \in Side, NEW m, SideOf(m.chat) = s, ~ByUser(m),
         NEW table, table \subseteq rows, NEW o \in OtherSide(table, m)
  PROVE  ~Applies(s, o)
<1>1. OneDirection /\ DirInv(f)
  BY SyncKnown DEF Smooth
<1> QED BY <1>1, ForthQuery

\* If nothing of F is skipped, all of F is served.
Serves(s, l, F) ==
  /\ l.found = F /\ l.todo = {} /\ l.mids = {} /\ l.made = <<>>
  /\ IF F = {} THEN l.pc = "done" ELSE l.pc \in {"edit", "fetch"}
LEMMA EditFromAll ==
  ASSUME w \in [Side -> Local], NEW s \in Side, NEW F, F \subseteq Found,
         NEW P, FoundKnown(F, P), \A o \in F : Applies(s, o), EditFrom(s, F)
  PROVE  Serves(s, w'[s], F)
<1>1. { o \in F : Applies(s, o) } = F
  OBVIOUS
<1>2. CASE F = {}
  <2>1. EditsOf(s, w'[s], F)
    BY EditFromFacts
  <2> QED BY <1>2, <2>1 DEF EditsOf, Serves, Rests
<1>3. CASE F # {}
  <2> DEFINE l == [Stopped(IF s = "tg" THEN "edit" ELSE "fetch") EXCEPT !.found = F]
  <2>1. { o \in F : o.row >= First(F).row } = F
    BY <1>3, FirstFound DEF Found
  <2>2. Become(s, l)
    BY <1>1, <1>3, <2>1 DEF EditFrom
  <2>3. l \in Local
    BY StoppedWith DEF PC
  <2>4. w'[s] = l
    BY <2>2, <2>3, BecomeFacts
  <2> QED BY <1>3, <2>4 DEF Serves, Stopped
<1> QED BY <1>2, <1>3

Erases(l, F, mids) ==
  l.pc = "delete" /\ l.todo = {} /\ l.made = <<>> /\ l.found = F /\ l.mids = mids
Erasing(s, F, mids, table) ==
  \/ F # {} /\ Erases(w'[s], F, mids)
  \/ /\ F = {}
     /\ \E m \in mids : /\ Erases(w'[s], OtherSide(table, m), mids \ {m})
                        /\ \A o \in OtherSide(table, m) : Applies(s, o)
  \/ /\ F = {} /\ Rests(w'[s]) /\ w'[s].pc = "done"
     /\ \A m \in mids : \A o \in OtherSide(table, m) : ~Applies(s, o)
LEMMA DeleteFromAll ==
  ASSUME w \in [Side -> Local], NEW s \in Side, NEW F, F \subseteq Found,
         NEW P, FoundKnown(F, P), NEW mids, mids \subseteq Msg, NEW table, table \subseteq Row,
         NEW last, RowsKnown(table, last, P), NEW ign, \A o \in F : Applies(s, o),
         \A m \in mids : \/ \A o \in OtherSide(table, m) : Applies(s, o)
                         \/ \A o \in OtherSide(table, m) : ~Applies(s, o),
         DeleteFrom(s, F, mids, table, ign)
  PROVE  Erasing(s, F, mids, table)
<1> DEFINE Hits(G) == { o \in G : Applies(s, o) }
           Aim(G, left) ==
             LET o == First(Hits(G))
             IN  /\ Become(s, [Stopped("delete") EXCEPT
                                 !.found = { r \in G : r.row >= o.row }, !.mids = left])
                 /\ ignore' = IF s = "bale" \/ HasDeleteEvents THEN ign \cup {o.msg}
                                                                ELSE ign
           later == { m \in mids : Hits(OtherSide(table, m)) # {} }
<1>1. ASSUME NEW G, G \subseteq Found, G # {}, Hits(G) = G, NEW left, left \subseteq Msg, Aim(G, left)
      PROVE  Erases(w'[s], G, left)
  <2> DEFINE l == [Stopped("delete") EXCEPT !.found = G, !.mids = left]
  <2>1. { r \in G : r.row >= First(G).row } = G
    BY <1>1, FirstFound DEF Found
  <2>2. Become(s, l)
    BY <1>1, <2>1
  <2>3. l \in Local
    BY <1>1, StoppedWith DEF PC
  <2>4. w'[s] = l
    BY <2>2, <2>3, BecomeFacts
  <2> QED BY <2>4 DEF Erases, Stopped
<1>2. \/ Hits(F) # {} /\ Aim(F, mids)
      \/ Hits(F) = {} /\ \E m \in later : Aim(OtherSide(table, m), mids \ {m})
      \/ Hits(F) = {} /\ later = {} /\ Become(s, Stopped("done"))
  BY DEF DeleteFrom
<1>3. Hits(F) = F
  OBVIOUS
<1>4. CASE Hits(F) # {} /\ Aim(F, mids)
  <2> HIDE DEF Aim, Hits
  <2> QED BY <1>1, <1>3, <1>4 DEF Erasing
<1>5. CASE Hits(F) = {} /\ \E m \in later : Aim(OtherSide(table, m), mids \ {m})
  <2>1. PICK m \in later : Aim(OtherSide(table, m), mids \ {m})
    BY <1>5
  <2>2. m \in mids /\ Hits(OtherSide(table, m)) # {} /\ mids \ {m} \subseteq Msg
    BY <2>1
  <2>3. OtherSide(table, m) \subseteq Found
    BY OtherSideFacts
  <2>4. \A o \in OtherSide(table, m) : Applies(s, o)
    BY <2>2
  <2>5. Hits(OtherSide(table, m)) = OtherSide(table, m)
    BY <2>4
  <2> HIDE DEF Aim, Hits, later
  <2>6. Erases(w'[s], OtherSide(table, m), mids \ {m})
    BY <1>1, <2>1, <2>2, <2>3, <2>5
  <2> QED BY <1>3, <1>5, <2>2, <2>4, <2>6 DEF Erasing
<1>6. CASE Hits(F) = {} /\ later = {} /\ Become(s, Stopped("done"))
  <2>1. Stopped("done") \in Local
    BY DEF Stopped, Local, PC
  <2>2. w'[s] = Stopped("done")
    BY <1>6, <2>1, BecomeFacts
  <2>3. \A m \in mids : \A o \in OtherSide(table, m) : ~Applies(s, o)
    BY <1>6
  <2> QED BY <1>3, <1>6, <2>2, <2>3 DEF Stopped, Rests, Erasing
<1> QED BY <1>2, <1>4, <1>5, <1>6

-----------------------------------------------------------------------------
\* What steps there are in this regime.
Still == /\ UNCHANGED <<queueVars, posts, mode, rows, lastRow, w>> /\ fps' \subseteq fps
Works(s) ==
  \/ Fetched(s) \/ Edited(s) \/ EditFalls(s) \/ Resent(s) \/ Remove(s) \/ Removed(s)
  \/ Replace(s) \/ Delete(s) \/ Record(s)
  \/ Unmaps(s) /\ (Deleted(s) \/ DeleteFalls(s))
LEMMA SmoothSteps ==
  ASSUME Smooth, NEW f, SyncInv(f), [Next]_vars
  PROVE  \/ \E c \in Chat, t \in Text : UserPost(c, t)
         \/ \E m \in Msg : ByUser(m) /\ (UserDelete(m) \/ \E t \in Text : UserEdit(m, t))
         \/ Still
         \/ \E s \in Side : \/ Intake(s) \/ Send(s) \/ Return(s)
                            \/ StartNew(s) \/ StartEdit(s) \/ StartDelete(s)
                            \/ Works(s)
<1>0. BridgeInv /\ crashes \in Nat /\ Admin = {} /\ MaxCrashes = 0
  BY SyncKnown, InvFacts DEF Smooth, OneDirection, NothingDropped
<1>1. ~Crash
  BY <1>0 DEF Crash
<1>2. ASSUME NEW m \in Msg, UserDelete(m) \/ \E t \in Text : UserEdit(m, t)
      PROVE  ByUser(m)
  <2>1. \/ MayTouch(m, UserEdits) \/ MayTouch(m, UserDeletes)
    BY <1>2 DEF UserDelete, UserEdit
  <2>2. SideOf(m.chat) \in Side
    BY SideOfType
  <2> QED BY <2>1, <2>2 DEF MayTouch, Smooth, SourcesOnly
<1>3. CASE Outside
  <2>1. ASSUME NEW g \in fps, FpExpires(g) PROVE Still
    BY <2>1 DEF FpExpires, Still, queueVars
  <2>2. ASSUME UNCHANGED vars PROVE Still
    BY <2>2 DEF vars, dbVars, queueVars, Still
  <2>3. ASSUME NEW p \in PairId, NEW md \in Mode PROVE ~SetMode(p, md)
    BY <1>0 DEF SetMode
  <2>4. ASSUME NEW p \in PairId PROVE ~RemovePair(p)
    BY <1>0 DEF RemovePair
  <2> QED BY <1>2, <1>3, <2>1, <2>2, <2>3, <2>4 DEF Outside
<1>4. ASSUME NEW s \in Side, Moves(s) PROVE Works(s)
  <2>1. ~MayFail(s, "send") /\ ~MayFail(s, "delete")
    BY SideFacts DEF Smooth, NothingDropped, MayFail
  <2>2. ~SendFails(s)
    BY <2>1 DEF SendFails
  <2>3. ASSUME RemoveFails(s) PROVE FALSE
    <3>1. w[s].pc \in {"remove", "removed"} /\ DeletionMayFail(s)
          /\ (s = "tg" => w[s].pc = "remove")
      BY <2>3 DEF RemoveFails
    <3>2. w[s].pc = "remove" /\ ~Live(Target(s).msg)
      BY <2>1, <3>1 DEF DeletionMayFail
    <3> QED BY <3>2, TargetLive DEF Emptied, Editing
  <2>4. ASSUME Deleted(s) \/ DeleteFalls(s) PROVE Unmaps(s)
    <3>1. ignore \in SUBSET Msg /\ ignore \ {Target(s).msg} \in SUBSET Msg
      BY <1>0, InvFacts
    <3>2. w[s].pc \in Deleting /\ (w[s].pc = "deleted" \/ ~Live(Target(s).msg))
      BY <2>1, <2>4 DEF Deleted, DeleteFalls, DeletionMayFail, Deleting
    <3> QED BY <2>4, <3>1, <3>2 DEF Deleted, DeleteFalls, Unmaps
  <2>5. ~Breaks(s)
    BY <2>1 DEF Breaks, Smooth, NothingBroken, MayFail, Other
  <2> QED BY <1>4, <2>2, <2>3, <2>4, <2>5 DEF Moves, Works
<1> QED BY <1>1, <1>2, <1>3, <1>4, StepKinds

-----------------------------------------------------------------------------
\* What reports are about.
LEMMA ReportFacts ==
  ASSUME NEW n \in Msg, NEW t \in Text
  PROVE  /\ NewEvent(n, t) \in Job /\ EditEvent(n, t) \in Job
         /\ NewEvent(n, t) \in News(n) /\ NewEvent(n, t).items[1].txt = t
         /\ EditEvent(n, t) \in Versions(n) /\ EditEvent(n, t).items[1].txt = t
         /\ EditEvent(n, t) \notin News(n)
         /\ \A m : m # n => NewEvent(n, t) \notin Concerns(m) /\ EditEvent(n, t) \notin Concerns(m)
<1>1. ItemOf(n, t) \in Item /\ ItemOf(n, t).msg = n /\ ItemOf(n, t).txt = t
  BY DEF ItemOf, Item
<1>2. /\ NewEvent(n, t) \in Job /\ NewEvent(n, t).kind = "new"
      /\ NewEvent(n, t).items[1] = ItemOf(n, t)
  BY <1>1, EventIsJob DEF NewEvent
<1>3. /\ EditEvent(n, t) \in Job /\ EditEvent(n, t).kind = "edit"
      /\ EditEvent(n, t).items[1] = ItemOf(n, t)
  BY <1>1, EventIsJob DEF EditEvent
<1> QED
  BY <1>1, <1>2, <1>3 DEF News, Versions, Deletions, Concerns, About

LEMMA DeletionFacts ==
  ASSUME NEW n \in Msg
  PROVE  /\ DeleteEvent(n) \in Job /\ DeleteEvent(n) \in Deletions(n)
         /\ \A m : m # n => DeleteEvent(n) \notin Concerns(m)
<1>1. /\ DeleteEvent(n) \in Job /\ DeleteEvent(n).kind = "delete"
      /\ DeleteEvent(n).ids = {n}
  BY DEF DeleteEvent, Job, DeleteJob
<1> QED
  BY <1>1 DEF Deletions, Concerns, About

\* A line to which reports about other messages are added is alike.
LEMMA LineAlike ==
  ASSUME QueueTypeOK, UNCHANGED q, NEW m, NEW s \in Side,
         \/ UNCHANGED stream
         \/ \E r \in Side : \E u \in Seq(Job) :
              ~Occurs(u, Concerns(m)) /\ stream' = [stream EXCEPT ![r] = @ \o u]
  PROVE  Alike(m, Line(s), Line(s)')
<1>0. q[s] \in Seq(Job) /\ stream[s] \in Seq(Job) /\ Line(s) \in Seq(Job) /\ stream \in [Side -> Seq(Job)]
  BY DEF QueueTypeOK, Line
<1>1. CASE stream'[s] = stream[s]
  <2>1. Line(s)' = Line(s)
    BY <1>1 DEF Line
  <2> QED BY <2>1 DEF Alike
<1>2. ASSUME NEW u \in Seq(Job), ~Occurs(u, Concerns(m)), stream'[s] = stream[s] \o u
      PROVE  Alike(m, Line(s), Line(s)')
  <2>0. (q[s] \o stream[s]) \o u = q[s] \o (stream[s] \o u)
    <3>1. \A a, b, c \in Seq(Job) : (a \o b) \o c = a \o (b \o c)
      <4> TAKE a, b, c \in Seq(Job)
      <4> QED OBVIOUS
    <3> QED BY <1>0, <3>1
  <2>1. Line(s)' = Line(s) \o u
    BY <2>0, <1>2 DEF Line
  <2>2. Alike(m, Line(s), Line(s) \o u)
    BY <1>0, <1>2, AlikeLonger
  <2> HIDE DEF Line
  <2> QED BY <2>1, <2>2
<1>3. CASE UNCHANGED stream
  BY <1>1, <1>3
<1>4. ASSUME NEW r \in Side, NEW u \in Seq(Job), ~Occurs(u, Concerns(m)),
             stream' = [stream EXCEPT ![r] = @ \o u]
      PROVE  Alike(m, Line(s), Line(s)')
  <2>1. stream'[s] = IF s = r THEN stream[s] \o u ELSE stream[s]
    BY <1>0, <1>4
  <2> QED BY <1>1, <1>2, <1>4, <2>1
<1> QED BY <1>3, <1>4

LEMMA EventAlike ==
  ASSUME QueueTypeOK, UNCHANGED q, NEW m, NEW s \in Side, NEW r \in Side,
         NEW e \in Job, e \notin Concerns(m), NEW kind, Emit(r, e) \/ Echo(r, kind, e)
  PROVE  Alike(m, Line(s), Line(s)')
<1>1. <<e>> \in Seq(Job) /\ ~Occurs(<<e>>, Concerns(m))
  BY DEF Occurs
<1>2. stream \in [Side -> Seq(Job)]
  BY DEF QueueTypeOK
<1>3. UNCHANGED stream \/ stream' = [stream EXCEPT ![r] = @ \o <<e>>]
  <2>1. Append(stream[r], e) = stream[r] \o <<e>>
    BY <1>2
  <2> QED BY <2>1 DEF Emit, Echo
<1> QED BY <1>1, <1>3, LineAlike

\* What the handler of s has made are copies.
LEMMA MadeCopies ==
  ASSUME Smooth, NEW f, SyncInv(f), NEW s \in Side, w[s].pc \in Editing \cup {"send"},
         NEW i \in DOMAIN w[s].made
  PROVE  /\ w[s].made[i] \in Posted /\ ~ByUser(w[s].made[i])
         /\ SideOf(w[s].made[i].chat) = Other(s)
         /\ At(w[s].made[i]).src = Source(s).msg /\ w[s].made[i] \in Range(w[s].made)
<1>1. PICK n : n = w[s].made[i]
  OBVIOUS
<1>2. n \in Posted /\ SideOf(n.chat) = Other(s)
  BY <1>1, SyncKnown DEF BridgeInv, HandlerKnown
<1>3. At(n).src = Source(s).msg
  BY <1>1, SyncKnown DEF Forth, HandlerSound
<1>4. Source(s).msg \in Msg
  BY SyncKnown, SourceFacts DEF Posted
<1>5. n \in Range(w[s].made)
  BY <1>1 DEF Range
<1> QED BY <1>1, <1>2, <1>3, <1>4, <1>5, MsgAssumption DEF ByUser

LEMMA LateAlike ==
  ASSUME Smooth, NEW f, SyncInv(f), NEW t \in Side, w[t].pc \in Editing \cup {"send"},
         LateEchoes(t), UNCHANGED q, NEW m \in Posted, ByUser(m), NEW s \in Side
  PROVE  Alike(m, Line(s), Line(s)')
<1> DEFINE made == w[t].made
           u == [i \in DOMAIN made |-> NewEvent(made[i], At(made[i]).txt)]
<1>0. QueueTypeOK /\ Other(t) \in Side /\ PostsTyped /\ Posted \subseteq Msg
  BY SyncKnown, InvFacts, SideFacts
<1>1. made \in Seq(Msg) /\ DOMAIN made = 1..Len(made) /\ Len(made) \in Nat
  BY SyncKnown, InvFacts
<1>2. ASSUME NEW i \in DOMAIN made
      PROVE  NewEvent(made[i], At(made[i]).txt) \in Job \ Concerns(m)
  <2>1. PICK n : n = made[i]
    OBVIOUS
  <2>2. n \in Posted /\ n # m
    BY <2>1, MadeCopies
  <2>3. At(n).txt \in Text /\ n \in Msg
    BY <1>0, <2>2, PostedFacts
  <2>4. NewEvent(n, At(n).txt) \in Job \ Concerns(m)
    BY <2>2, <2>3, ReportFacts
  <2> QED BY <2>1, <2>4
<1>3. u \in Seq(Job) /\ ~Occurs(u, Concerns(m))
  <2> HIDE DEF made
  <2>1. u \in Seq(Job)
    BY <1>1, <1>2
  <2>2. \A i \in DOMAIN u : u[i] \notin Concerns(m)
    BY <1>1, <1>2
  <2> HIDE DEF u
  <2> QED BY <2>1, <2>2 DEF Occurs
<1>4. UNCHANGED stream \/ stream' = [stream EXCEPT ![Other(t)] = @ \o u]
  BY DEF LateEchoes
<1> HIDE DEF u
<1> QED BY <1>0, <1>3, <1>4, LineAlike

\* A handler reports nothing about a user's message.
LEMMA WorkLines ==
  ASSUME Smooth, NEW f, SyncInv(f), NEW t \in Side, Send(t) \/ Works(t),
         NEW s \in Side, NEW m \in Posted, ByUser(m)
  PROVE  Alike(m, Line(s), Line(s)')
<1>0. BridgeInv /\ QueueTypeOK /\ Other(t) \in Side /\ PostsTyped /\ Posted \subseteq Msg
  BY SyncKnown, InvFacts, SideFacts
<1>1. UNCHANGED stream /\ UNCHANGED q => Alike(m, Line(s), Line(s)')
  BY <1>0, LineAlike
<1>2. CASE Send(t)
  <2>1. PICK n : n = [chat |-> SendChat(t), id |-> Len(posts[SendChat(t)]) + 1]
    OBVIOUS
  <2>2. n \in Msg /\ n \notin Posted /\ w[t].pc \in {"send", "resend"} /\ UNCHANGED q
    BY <1>0, <1>2, <2>1, SendFacts DEF Send
  <2>3. Source(t).txt \in Text
    BY <1>0, <2>2, SourceFacts DEF Editing
  <2>4. NewEvent(n, Source(t).txt) \in Job /\ NewEvent(n, Source(t).txt) \notin Concerns(m)
    BY <2>2, <2>3, ReportFacts
  <2>5. Echo(Other(t), "new", NewEvent(n, Source(t).txt)) \/ UNCHANGED stream
    BY <1>2, <2>1 DEF Send
  <2> QED BY <1>0, <1>1, <2>2, <2>4, <2>5, EventAlike
<1>3. ASSUME w[t].pc \in Editing \cup Deleting, UNCHANGED q,
             NEW kind, NEW e, NEW n, n = Target(t).msg, Echo(Other(t), kind, e),
             \/ e = DeleteEvent(n)
             \/ e = EditEvent(n, Source(t).txt) /\ w[t].pc \in Editing
      PROVE  Alike(m, Line(s), Line(s)')
  <2>1. n \in Posted /\ n # m
    BY <1>3, FoundRow, TargetLive
  <2>2. n \in Msg /\ DeleteEvent(n) \in Job /\ DeleteEvent(n) \notin Concerns(m)
    BY <1>0, <2>1, DeletionFacts
  <2>3. CASE e = DeleteEvent(n)
    BY <1>0, <1>3, <2>2, <2>3, EventAlike
  <2>4. CASE e = EditEvent(n, Source(t).txt) /\ w[t].pc \in Editing
    <3>1. Source(t).txt \in Text
      BY <1>0, <2>4, SourceFacts
    <3>2. e \in Job /\ e \notin Concerns(m)
      BY <2>1, <2>2, <2>4, <3>1, ReportFacts
    <3> QED BY <1>0, <1>3, <3>2, EventAlike
  <2> QED BY <1>3, <2>3, <2>4
<1>4. CASE Fetched(t) \/ Removed(t) \/ Unmaps(t)
  BY <1>1, <1>4 DEF Fetched, Removed, Unmaps, Unmap, queueVars
<1>5. CASE Edited(t) \/ EditFalls(t)
  <2>1. UNCHANGED q /\ (Rewrite(t) \/ UNCHANGED stream)
    BY <1>5 DEF Edited, EditFalls
  <2>2. CASE Rewrite(t)
    <3>1. PICK n : n = Target(t).msg
      OBVIOUS
    <3>2. w[t].pc \in Editing /\ Echo(Other(t), "edit", EditEvent(n, Source(t).txt))
      BY <2>2, <3>1 DEF Rewrite, Editing
    <3> QED BY <1>3, <2>1, <3>1, <3>2
  <2> QED BY <1>1, <2>1, <2>2
<1>6. CASE Resent(t) \/ Replace(t) \/ Record(t)
  <2>1. UNCHANGED q /\ w[t].pc \in Editing \cup {"send"} /\ (LateEchoes(t) \/ UNCHANGED stream)
    BY <1>6 DEF Resent, Replace, Record, Editing
  <2> QED BY <1>1, <2>1, LateAlike
<1>7. CASE Remove(t) \/ Delete(t)
  <2>1. PICK n : n = Target(t).msg
    OBVIOUS
  <2>2. /\ UNCHANGED q /\ w[t].pc \in Editing \cup Deleting
        /\ Echo(Other(t), "delete", DeleteEvent(n)) \/ UNCHANGED stream
    BY <1>7, <2>1 DEF Remove, Delete, Vanish, Editing, Deleting
  <2> QED BY <1>1, <1>3, <2>1, <2>2
<1> QED BY <1>2, <1>4, <1>5, <1>6, <1>7 DEF Works

\* A handler changes no post but its target, which is a copy on the other side.
LEMMA WorkPosts ==
  ASSUME Smooth, NEW f, SyncInv(f), NEW t \in Side, Send(t) \/ Works(t)
  PROVE  /\ \A n \in Posted : At(n)' = At(n) \/ /\ w[t].pc \in Editing \cup Deleting
                                                /\ n = Target(t).msg
         /\ \A n \in Posted : ByUser(n) \/ SideOf(n.chat) = t => At(n)' = At(n)
         /\ Posted \subseteq Posted'
<1>0. BridgeInv /\ Other(t) # t
  BY SyncKnown, SideFacts
<1>1. UNCHANGED posts => /\ \A n \in Posted : At(n)' = At(n)
                         /\ Posted \subseteq Posted'
  BY SamePosts
<1>2. CASE Send(t)
  <2>1. PICK n : n = [chat |-> SendChat(t), id |-> Len(posts[SendChat(t)]) + 1]
    OBVIOUS
  <2> QED BY <1>0, <1>2, <2>1, SendFacts
<1>3. /\ \A n \in Posted : At(n)' = At(n) \/ /\ w[t].pc \in Editing \cup Deleting
                                             /\ n = Target(t).msg
      /\ Posted \subseteq Posted'
  <2>1. PICK m : m = Target(t).msg
    OBVIOUS
  <2>2. CASE Fetched(t) \/ Removed(t) \/ Unmaps(t) \/ Resent(t) \/ Replace(t) \/ Record(t)
    BY <1>1, <2>2 DEF Fetched, Removed, Unmaps, Unmap, Resent, Replace, Record
  <2>3. CASE Rewrite(t)
    <3>1. w[t].pc \in Editing
      BY <2>3 DEF Rewrite, Editing
    <3> QED BY <1>0, <2>1, <2>3, <3>1, RewriteFacts
  <2>4. CASE Edited(t) \/ EditFalls(t)
    <3>1. Rewrite(t) \/ UNCHANGED posts
      BY <2>4 DEF Edited, EditFalls
    <3> QED BY <1>1, <2>3, <3>1
  <2>5. CASE Remove(t) \/ Delete(t)
    <3>1. w[t].pc \in Editing \cup Deleting /\ \E pc : Vanish(t, pc)
      BY <2>5 DEF Remove, Delete, Editing, Deleting
    <3> QED BY <1>0, <2>1, <3>1, VanishFacts
  <2> QED BY <1>2, <2>2, <2>4, <2>5 DEF Works
<1>4. ASSUME NEW n \in Posted, ByUser(n) \/ SideOf(n.chat) = t
      PROVE  At(n)' = At(n)
  <2> SUFFICES ASSUME w[t].pc \in Editing \cup Deleting, n = Target(t).msg
               PROVE  FALSE
    BY <1>3
  <2> QED BY <1>0, <1>4, TargetLive, FoundRow
<1> QED BY <1>3, <1>4

\* What holds for m goes on if its line stays alike and its rows stay.
Untouched(m) == \A r : r.src = m => (r \in rows <=> r \in rows')
LEMMA SyncedStays ==
  ASSUME NEW f, NEW s \in Side, NEW m, Synced(f, s, m),
         Alike(m, Line(s), Line(s)'), At(m)' = At(m), Untouched(m),
         job'[s] = job[s] \/ job'[s] \notin Concerns(m),
         \A p \in PairId : Sending(s, m, p) => Sending(s, m, p)',
         \A r \in rows : r.src = m =>
           /\ Forgetting(s, m, r) => Forgetting(s, m, r)'
           /\ At(r.dst).txt = At(m).txt \/ Renewing(s, r) =>
                At(r.dst)'.txt = At(m).txt \/ Renewing(s, r)'
  PROVE  Synced(f, s, m)'
<1> DEFINE a == Line(s)
           b == Line(s)'
<1>0. /\ News(m) \subseteq Concerns(m) /\ Versions(m) \subseteq Concerns(m)
      /\ Deletions(m) \subseteq Concerns(m)
  BY JobSorts
<1>1. /\ Before(a, News(m), Concerns(m)) => Before(b, News(m), Concerns(m))
      /\ Before(a, Concerns(m), Deletions(m)) => Before(b, Concerns(m), Deletions(m))
      /\ Occurs(a, News(m)) <=> Occurs(b, News(m))
      /\ Occurs(a, Versions(m)) <=> Occurs(b, Versions(m))
      /\ Occurs(a, Deletions(m)) <=> Occurs(b, Deletions(m))
      /\ Occurs(a, Concerns(m)) <=> Occurs(b, Concerns(m))
      /\ \A t : Latest(a, m, t) => Latest(b, m, t)
  BY DEF Alike
<1>2. Live(m)' <=> Live(m)
  BY DEF Live
<1>3. \A J \in {News(m), Versions(m), Deletions(m), Concerns(m)} :
        job'[s] \in J => job[s] \in J /\ job'[s] = job[s]
  BY <1>0
<1>4. InOrder(s, m)'
  BY <1>1, <1>2, <1>3 DEF Synced, InOrder, Untouched
<1>5. Mirrored(f, s, m)'
  BY <1>1, <1>2 DEF Synced, Mirrored, Untouched, Served
<1>6. Forgotten(s, m)'
  BY <1>1, <1>2, <1>3 DEF Synced, Forgotten, Untouched
<1>7. UpToDate(s, m)'
  <2>1. job'[s] \in Versions(m) => Source(s)' = Source(s)
    BY <1>3 DEF Source
  <2> QED BY <1>1, <1>3, <2>1 DEF Synced, UpToDate, Untouched
<1> QED BY <1>4, <1>5, <1>6, <1>7 DEF Synced

\* A handler leaves the rows of the other side alone.
LEMMA OtherRows ==
  ASSUME Smooth, NEW f, SyncInv(f), NEW t \in Side, Send(t) \/ Works(t),
         NEW m, SideOf(m.chat) # t
  PROVE  Untouched(m)
<1>0. BridgeInv /\ rows \subseteq Row /\ lastRow \in Nat
  BY SyncKnown, InvFacts
<1>1. UNCHANGED rows => Untouched(m)
  BY DEF Untouched
<1>2. CASE Send(t) \/ Fetched(t) \/ Edited(t) \/ EditFalls(t) \/ Resent(t) \/ Remove(t)
           \/ Removed(t) \/ Delete(t)
  <2>1. UNCHANGED rows
    BY <1>2 DEF Send, Fetched, Edited, EditFalls, Resent, Remove, Removed, Delete, Vanish, dbVars
  <2> QED BY <1>1, <2>1
<1>3. ASSUME w[t].pc \in Editing \cup Deleting
      PROVE  \A r \in rows : r.id = Target(t).row => r.src # m
  BY <1>3, TargetLive, FoundRow
<1>4. CASE Replace(t)
  <2>1. w[t].pc \in Editing
    BY <1>0, <1>4, ReplaceRows
  <2>2. \A x \in rows' : x.src = m => x \in rows
    <3> SUFFICES ASSUME NEW x \in rows', x.src = m, x \notin rows
                 PROVE  FALSE
      OBVIOUS
    <3>1. x.id = Target(t).row /\ \E r \in rows : x.id = r.id /\ x.src = r.src
      BY <1>0, <1>4, ReplaceRows
    <3> QED BY <1>3, <2>1, <3>1
  <2>3. \A r \in rows : r.src = m => r \in rows'
    BY <1>0, <1>3, <1>4, <2>1, ReplaceRows
  <2> QED BY <2>2, <2>3 DEF Untouched
<1>5. CASE Unmaps(t)
  <2>1. w[t].pc \in Deleting /\ rows' = { r \in rows : r.id # Target(t).row }
    BY <1>0, <1>5, UnmapRows DEF Unmaps
  <2> QED BY <1>3, <2>1 DEF Untouched
<1>6. CASE Record(t)
  <2>1. w[t].pc = "send" /\ rows' = AddRows(rows, lastRow, FirstPair(t), Source(t).msg, w[t].made)
    BY <1>6 DEF Record
  <2>2. Source(t).msg # m /\ w[t].made \in Seq(Msg)
    BY <1>0, <2>1, SourceFacts, InvFacts
  <2>3. \A r \in rows' : r.src = m => r \in rows
    BY <1>0, <2>1, <2>2, AddedRows
  <2>4. rows \subseteq rows'
    BY <1>0, <1>6, RecordRows
  <2> QED BY <2>3, <2>4 DEF Untouched
<1> QED BY <1>2, <1>4, <1>5, <1>6 DEF Works

\* What the steps of a handler do.  It stays with its target: ...
Treated(s, n) ==
  \/ At(n)' = At(n)
  \/ w[s].pc \in Editing /\ Live(n)'
  \/ At(n)'.txt = At(n).txt /\ Emptied(s)'
Holds(s) ==
  /\ UNCHANGED <<rows, job, fps>>
  /\ w'[s].found = w[s].found /\ w'[s].todo = w[s].todo /\ w'[s].mids = w[s].mids
  /\ \/ w'[s].pc = w[s].pc
     \/ w[s].pc \in Editing /\ w'[s].pc \in Editing
     \/ w[s].pc \in Deleting /\ w'[s].pc \in Deleting
  /\ Emptied(s) => Emptied(s)'
  /\ \A n \in Posted : Treated(s, n)
  /\ \A n \in Range(w'[s].made) :
       n \in Range(w[s].made) \/ (n \notin Posted /\ Live(n)' /\ At(n)'.txt = Source(s).txt)
\* ... it has served it, in an edit, ...
Renews(s) ==
  /\ w[s].pc \in Editing /\ UNCHANGED <<job, fps>>
  /\ Serves(s, w'[s], w[s].found \ {Target(s)})
  /\ \A x \in rows' : IF x.id = Target(s).row
                        THEN /\ At(x.dst)'.txt = Source(s).txt /\ Live(x.dst)'
                             /\ \E r \in rows : r.id = x.id /\ r.src = x.src /\ r.pair = x.pair
                        ELSE x \in rows /\ At(x.dst)' = At(x.dst)
  /\ \A r \in rows : \E x \in rows' : r.id = x.id /\ r.src = x.src /\ r.pair = x.pair
\* ... or in a deletion, or it has sent the message to one more pair.
LEMMA Holding ==
  ASSUME Smooth, NEW f, SyncInv(f), NEW s \in Side,
         Send(s) \/ Fetched(s) \/ EditFalls(s) \/ Resent(s) \/ Remove(s) \/ Removed(s) \/ Delete(s)
  PROVE  Holds(s)
<1>0. BridgeInv /\ w \in [Side -> Local] /\ w[s].made \in Seq(Msg)
  BY SyncKnown, InvFacts
<1>1. CASE Send(s)
  <2>1. PICK n : n = [chat |-> SendChat(s), id |-> Len(posts[SendChat(s)]) + 1]
    OBVIOUS
  <2>2. /\ n \in Msg /\ n \notin Posted /\ \A x \in Posted : At(x)' = At(x)
        /\ At(n)' = [st |-> "live", txt |-> Source(s).txt, src |-> Source(s).msg]
        /\ w'[s].pc = w[s].pc /\ w'[s].todo = w[s].todo /\ w'[s].found = w[s].found
        /\ w'[s].mids = w[s].mids /\ w'[s].made = Append(w[s].made, n)
    BY <1>0, <1>1, <2>1, SendFacts
  <2>3. UNCHANGED <<rows, job, fps>>
    BY <1>1 DEF Send, dbVars
  <2>4. Emptied(s)' <=> Emptied(s)
    BY <2>2 DEF Emptied
  <2>5. \A x \in Range(w'[s].made) : x \in Range(w[s].made) \/ x = n
    BY <1>0, <2>2 DEF Range
  <2>6. \A x : x = n => x \notin Posted /\ Live(x)' /\ At(x)'.txt = Source(s).txt
    BY <2>2 DEF Live
  <2> QED BY <2>2, <2>3, <2>4, <2>5, <2>6 DEF Holds, Treated
<1>2. ASSUME NEW pc, Goto(s, pc), UNCHANGED <<rows, job, fps>>,
             \/ w[s].pc \in Editing /\ pc \in Editing
             \/ w[s].pc \in Deleting /\ pc \in Deleting,
             Emptied(s) => pc \in {"removed", "deleted"} \/ (s = "bale" /\ pc = "resend"),
             \A n \in Posted : Treated(s, n)
      PROVE  Holds(s)
  <2>1. /\ w'[s].found = w[s].found /\ w'[s].todo = w[s].todo /\ w'[s].mids = w[s].mids
        /\ w'[s].pc = pc /\ w'[s].made = w[s].made
    BY <1>0, <1>2, GotoFacts DEF Editing, Deleting, PC
  <2>2. Emptied(s) => Emptied(s)'
    BY <1>2, <2>1 DEF Emptied
  <2> QED BY <1>2, <2>1, <2>2 DEF Holds
<1>3. UNCHANGED posts => \A n \in Posted : Treated(s, n)
  BY SamePosts DEF Treated
<1>4. CASE Fetched(s)
  <2>1. w[s].pc = "fetch" /\ Goto(s, "edit") /\ UNCHANGED <<posts, rows, job, fps>> /\ ~Emptied(s)
    BY <1>4, TargetLive DEF Fetched, Emptied, Editing, dbVars, queueVars
  <2> QED BY <1>2, <1>3, <2>1 DEF Editing
<1>5. CASE EditFalls(s)
  <2>1. /\ w[s].pc \in {"fetch", "edit"} /\ Goto(s, FallbackFirst(s))
        /\ UNCHANGED <<rows, job, fps>> /\ ~Emptied(s)
        /\ UNCHANGED posts \/ Rewrite(s)
    BY <1>5 DEF EditFalls, Rewrite, Emptied, dbVars
  <2>2. FallbackFirst(s) \in Editing
    BY DEF FallbackFirst, Editing
  <2>3. ASSUME Rewrite(s), NEW n \in Posted PROVE Treated(s, n)
    <3>1. PICK m : m = Target(s).msg
      OBVIOUS
    <3>2. /\ At(m)' = [At(m) EXCEPT !.txt = Source(s).txt] /\ At(m).st = "live"
          /\ \A x \in Posted : x # m => At(x)' = At(x)
          /\ m \in Posted
      BY <1>0, <2>3, <3>1, RewriteFacts
    <3>3. At(m)'.st = "live"
      BY <1>0, <3>2, InvFacts, PostedFacts DEF PostRec
    <3> QED BY <2>1, <3>2, <3>3 DEF Treated, Live, Editing
  <2> QED BY <1>2, <1>3, <2>1, <2>2, <2>3 DEF Editing
<1>6. CASE Resent(s)
  <2>1. w[s].pc = "resend" /\ Goto(s, "remove") /\ UNCHANGED <<posts, rows, job, fps>> /\ ~Emptied(s)
    BY <1>6 DEF Resent, Emptied, dbVars
  <2> QED BY <1>2, <1>3, <2>1 DEF Editing
<1>7. CASE Removed(s)
  <2>1. /\ w[s].pc = "removed" /\ s = "bale" /\ Goto(s, "resend")
        /\ UNCHANGED <<posts, rows, job, fps>>
    BY <1>7 DEF Removed, dbVars, queueVars
  <2> QED BY <1>2, <1>3, <2>1 DEF Editing
<1>8. CASE Remove(s) \/ Delete(s)
  <2>1. PICK pc : /\ Vanish(s, pc) /\ pc \in {"removed", "deleted"}
                  /\ \/ w[s].pc \in Editing /\ pc \in Editing
                     \/ w[s].pc \in Deleting /\ pc \in Deleting
    BY <1>8 DEF Remove, Delete, Editing, Deleting
  <2>2. Goto(s, pc) /\ UNCHANGED <<rows, job, fps>>
    BY <2>1 DEF Vanish, dbVars
  <2>3. pc \in PC
    BY <2>1 DEF PC
  <2>4. w'[s].pc = pc
    BY <1>0, <2>2, <2>3, GotoFacts
  <2>5. Emptied(s)'
    BY <2>1, <2>4 DEF Emptied
  <2>6. PICK m : m = Target(s).msg
    OBVIOUS
  <2>7. /\ \A n \in Posted : n # m => At(n)' = At(n)
        /\ m \in Posted
        /\ At(m)' = [At(m) EXCEPT !.st = "removed"] \/ At(m)' = At(m)
    BY <1>0, <2>1, <2>6, VanishFacts
  <2>8. At(m)'.txt = At(m).txt
    BY <1>0, <2>7, InvFacts, PostedFacts DEF PostRec
  <2>9. \A n \in Posted : Treated(s, n)
    BY <2>5, <2>7, <2>8 DEF Treated
  <2> QED BY <1>2, <2>1, <2>2, <2>9
<1> QED BY <1>1, <1>4, <1>5, <1>6, <1>7, <1>8

LEMMA NextServes ==
  ASSUME Smooth, NEW f, SyncInv(f), NEW s \in Side, w[s].pc \in Editing, NextEdit(s)
  PROVE  Serves(s, w'[s], w[s].found \ {Target(s)})
<1> DEFINE F == w[s].found \ {Target(s)}
<1>1. /\ w \in [Side -> Local] /\ F \subseteq Found /\ FoundKnown(w[s].found, Posted)
      /\ \A o \in F : Applies(s, o)
  BY SyncKnown, InvFacts DEF BridgeInv, HandlerKnown, Working
<1>2. FoundKnown(F, Posted)
  BY <1>1 DEF FoundKnown
<1>3. EditFrom(s, F)
  BY DEF NextEdit
<1> HIDE DEF F
<1>4. Serves(s, w'[s], F)
  BY <1>1, <1>2, <1>3, EditFromAll
<1> QED BY <1>4 DEF F

LEMMA Renewed ==
  ASSUME Smooth, NEW f, SyncInv(f), NEW s \in Side, Edited(s) \/ Replace(s)
  PROVE  Renews(s)
<1>0. BridgeInv /\ rows \subseteq Row /\ RowsKnown(rows, lastRow, Posted)
  BY SyncKnown, InvFacts
<1>1. /\ w[s].pc \in Editing /\ UNCHANGED <<job, fps>> /\ NextEdit(s)
  BY <1>0, ReplaceRows DEF Edited, Rewrite, Replace, Editing, dbVars
<1>2. Serves(s, w'[s], w[s].found \ {Target(s)})
  BY <1>1, NextServes
<1>3. PICK o : o = Target(s)
  OBVIOUS
<1>4. \A r \in rows : r.id = o.row <=> r.dst = o.msg
  BY <1>1, <1>3, TargetLive, FoundRow
<1>5. CASE Edited(s)
  <2>1. Rewrite(s) /\ UNCHANGED rows
    BY <1>5 DEF Edited, dbVars
  <2>2. PICK m : m = Target(s).msg
    OBVIOUS
  <2>3. /\ At(m)' = [At(m) EXCEPT !.txt = Source(s).txt] /\ At(m).st = "live" /\ m \in Posted
        /\ \A n \in Posted : n # m => At(n)' = At(n)
    BY <1>0, <2>1, <2>2, RewriteFacts
  <2>4. At(m)'.txt = Source(s).txt /\ At(m)'.st = "live"
    BY <1>0, <2>3, InvFacts, PostedFacts DEF PostRec
  <2>5. \A x \in rows : x.dst = m => At(x.dst)'.txt = Source(s).txt /\ Live(x.dst)'
    BY <2>4 DEF Live
  <2>6. \A x \in rows : x.dst # m => At(x.dst)' = At(x.dst)
    BY <2>3, RowSides
  <2> QED BY <1>1, <1>2, <1>3, <1>4, <2>1, <2>2, <2>5, <2>6 DEF Renews
<1>6. CASE Replace(s)
  <2>1. PICK m : m = [chat |-> Target(s).msg.chat, id |-> w[s].made[1].id]
    OBVIOUS
  <2>2. /\ m = w[s].made[1] /\ 1 \in DOMAIN w[s].made /\ m \in Posted
        /\ \A x \in rows' : \E r \in rows :
             /\ x.id = r.id /\ x.pair = r.pair /\ x.src = r.src
             /\ x.dst = IF r.id = Target(s).row THEN m ELSE r.dst
    BY <1>0, <1>6, <2>1, ReplaceTable
  <2>3. m \in Range(w[s].made)
    BY <2>2 DEF Range
  <2>4. Live(m) /\ At(m).txt = Source(s).txt
    BY <2>3, SyncKnown DEF Working
  <2>5. UNCHANGED posts
    BY <1>6 DEF Replace
  <2>6. \A n : At(n)' = At(n)
    BY <2>5, SamePosts
  <2>7. \A n : n = m => At(n)'.txt = Source(s).txt /\ Live(n)'
    BY <2>4, <2>6 DEF Live
  <2>8. \A x \in rows' : x.id = Target(s).row =>
          /\ At(x.dst)'.txt = Source(s).txt /\ Live(x.dst)'
          /\ \E r \in rows : r.id = x.id /\ r.src = x.src /\ r.pair = x.pair
    <3> SUFFICES ASSUME NEW x \in rows', x.id = Target(s).row
                 PROVE  /\ At(x.dst)'.txt = Source(s).txt /\ Live(x.dst)'
                        /\ \E r \in rows : r.id = x.id /\ r.src = x.src /\ r.pair = x.pair
      OBVIOUS
    <3>1. PICK r \in rows : /\ x.id = r.id /\ x.pair = r.pair /\ x.src = r.src
                            /\ x.dst = IF r.id = Target(s).row THEN m ELSE r.dst
      BY <2>2
    <3>2. x.dst = m
      BY <3>1
    <3> QED BY <2>7, <3>1, <3>2
  <2>9. \A x \in rows' : x.id # Target(s).row => x \in rows /\ At(x.dst)' = At(x.dst)
    BY <1>0, <1>6, <2>6, ReplaceRows
  <2>10. \A r \in rows : \E x \in rows' : r.id = x.id /\ r.src = x.src /\ r.pair = x.pair
    <3> SUFFICES ASSUME NEW r \in rows
                 PROVE  \E x \in rows' : r.id = x.id /\ r.src = x.src /\ r.pair = x.pair
      OBVIOUS
    <3>1. PICK x \in rows' : x.id = r.id
      BY <1>0, <1>6, ReplaceRows
    <3>2. PICK r1 \in rows : x.id = r1.id /\ x.pair = r1.pair /\ x.src = r1.src
      BY <2>2
    <3>3. r1 = r
      BY <1>0, <3>1, <3>2 DEF RowsKnown
    <3> QED BY <3>2, <3>3
  <2> QED BY <1>1, <1>2, <2>8, <2>9, <2>10 DEF Renews
<1> QED BY <1>5, <1>6

\* The one message a handler has sent becomes a row of the pair.
Adds(s) ==
  /\ w[s].pc = "send" /\ FirstPair(s) \in w[s].todo /\ FirstPair(s) \in PairId
  /\ SendsTo(w'[s], w[s].todo \ {FirstPair(s)})
  /\ UNCHANGED <<job, posts, ignore>>
  /\ \E n \in Range(w[s].made) :
       /\ \A r : r \in rows' <=>
            r \in rows \/ r = [id |-> lastRow + 1, pair |-> FirstPair(s),
                               src |-> Source(s).msg, dst |-> n]
       /\ sent' = sent \cup {n}
  /\ \A x \in fps' : x \in fps \/ x.chat = PairChat(s, FirstPair(s))
LEMMA Adding ==
  ASSUME Smooth, NEW f, SyncInv(f), NEW s \in Side, Record(s)
  PROVE  Adds(s)
<1>0. BridgeInv /\ w \in [Side -> Local]
  BY SyncKnown, InvFacts
<1>1. w[s].pc = "send" /\ UNCHANGED <<job, posts, ignore>> /\ NextPair(s) /\ Complete(s)
  BY DEF Record
<1>2. SendsTo(w'[s], w[s].todo \ {FirstPair(s)})
  BY <1>0, <1>1, NextPairFacts
<1>3. FirstPair(s) \in w[s].todo /\ w[s].todo \subseteq PairId
  BY <1>0, <1>1, InvFacts, FirstPairLeft DEF BridgeInv, HandlerKnown
<1>4. Source(s).txt \in Text /\ w[s].made \in Seq(Msg)
  BY <1>0, <1>1, SourceFacts, InvFacts
<1>5. Len(w[s].made) = 1
  BY <1>1, <1>4 DEF Complete, Smooth, OnePart
<1>6. PICK n : n = w[s].made[1]
  OBVIOUS
<1>7. DOMAIN w[s].made = {1} /\ Range(w[s].made) = {n} /\ n \in Range(w[s].made)
  BY <1>4, <1>5, <1>6 DEF Range
<1>8. \A r : r \in rows' <=>
        r \in rows \/ r = [id |-> lastRow + 1, pair |-> FirstPair(s),
                           src |-> Source(s).msg, dst |-> n]
  <2>1. rows' = rows \cup { [id |-> lastRow + i, pair |-> FirstPair(s), src |-> Source(s).msg,
                             dst |-> w[s].made[i]] : i \in DOMAIN w[s].made }
    BY DEF Record, AddRows
  <2> QED BY <1>6, <1>7, <2>1
<1>9. sent' = sent \cup {n}
  BY <1>7 DEF Record, Mark
<1>10. \A x \in fps' : x \in fps \/ x.chat = PairChat(s, FirstPair(s))
  BY <1>1 DEF Record, SendChat
<1> QED BY <1>1, <1>2, <1>3, <1>7, <1>8, <1>9, <1>10 DEF Adds

AddsRow(s, n) ==
  /\ rows \subseteq rows' /\ sent' = sent \cup {n}
  /\ \A x \in rows' :
       \/ x \in rows
       \/ x.id > lastRow /\ x.src = Source(s).msg /\ x.pair = FirstPair(s) /\ x.dst = n
  /\ \A x, y \in rows' : x \in rows \/ y \in rows \/ x = y
  /\ \E x \in rows' : x.src = Source(s).msg /\ x.pair = FirstPair(s) /\ x.dst = n
LEMMA AddedOne ==
  ASSUME NEW f, SyncInv(f), NEW s \in Side, Adds(s)
  PROVE  \E n \in Range(w[s].made) : AddsRow(s, n)
<1>0. lastRow \in Nat
  BY SyncKnown, InvFacts
<1>1. PICK n \in Range(w[s].made) :
        /\ \A r : r \in rows' <=>
             r \in rows \/ r = [id |-> lastRow + 1, pair |-> FirstPair(s),
                                src |-> Source(s).msg, dst |-> n]
        /\ sent' = sent \cup {n}
  BY DEF Adds
<1>2. PICK z : z = [id |-> lastRow + 1, pair |-> FirstPair(s), src |-> Source(s).msg, dst |-> n]
  OBVIOUS
<1>3. /\ z.id > lastRow /\ z.src = Source(s).msg /\ z.pair = FirstPair(s) /\ z.dst = n
      /\ \A r : r \in rows' <=> r \in rows \/ r = z
  BY <1>0, <1>1, <1>2
<1>4. AddsRow(s, n)
  BY <1>1, <1>3 DEF AddsRow
<1> QED BY <1>4

LEMMA WorkKinds ==
  ASSUME Smooth, NEW f, SyncInv(f), NEW s \in Side, Send(s) \/ Works(s)
  PROVE  /\ Holds(s) \/ Renews(s) \/ Unmaps(s) \/ Adds(s)
         /\ Others(s) /\ UNCHANGED <<q, job, mode>>
<1>0. BridgeInv
  BY SyncKnown
<1>1. Holds(s) \/ Renews(s) \/ Unmaps(s) \/ Adds(s)
  BY Holding, Renewed, Adding DEF Works
<1>2. UNCHANGED <<q, job, mode>>
  BY DEF Works, Send, Fetched, Edited, EditFalls, Resent, Remove, Removed, Replace, Delete, Unmaps,
         Record, Vanish, Unmap, dbVars, queueVars
<1>3. ASSUME Unmaps(s) PROVE Others(s)
  <2>1. w[s].pc \in Deleting
    BY <1>3 DEF Unmaps
  <2>2. PICK ign \in SUBSET Msg : Unmap(s, ign)
    BY <1>3 DEF Unmaps
  <2> QED BY <1>0, <2>1, <2>2, UnmapFacts
<1>4. ASSUME ~Unmaps(s), ~Send(s) PROVE Others(s)
  <2>1. Moves(s)
    BY <1>4 DEF Works, Moves
  <2> QED BY <1>0, <2>1, MoveWays, WayFacts
<1> QED BY <1>1, <1>2, <1>3, <1>4, SendOthers

\* A deletion finds all rows of the messages it takes up.
LEMMA DeletesAll ==
  ASSUME Smooth, NEW f, SyncInv(f), NEW s \in Side, NEW F, F \subseteq w[s].found,
         NEW mids, \A m \in mids : m \in Posted /\ SideOf(m.chat) = s,
         NEW table, table \subseteq rows, NEW ign, DeleteFrom(s, F, mids, table, ign)
  PROVE  Erasing(s, F, mids, table)
<1>0. /\ BridgeInv /\ w \in [Side -> Local] /\ Posted \subseteq Msg
      /\ F \subseteq Found /\ \A o \in F : Applies(s, o)
      /\ table \subseteq Row /\ RowsKnown(table, lastRow, Posted)
  BY SyncKnown, InvFacts, FewerRows DEF Working
<1>1. FoundKnown(F, Posted)
  BY <1>0 DEF BridgeInv, HandlerKnown, FoundKnown
<1>2. mids \subseteq Msg
  BY <1>0
<1>3. ASSUME NEW m \in mids
      PROVE  \/ \A o \in OtherSide(table, m) : Applies(s, o)
             \/ \A o \in OtherSide(table, m) : ~Applies(s, o)
  <2>1. CASE ByUser(m)
    <3>1. m \in Originals(s)
      BY <2>1 DEF Originals
    <3> QED BY <3>1, QueryAll
  <2>2. CASE ~ByUser(m)
    BY <2>2, QueryNone
  <2> QED BY <2>1, <2>2
<1> QED BY <1>0, <1>1, <1>2, <1>3, DeleteFromAll

Erased(s) ==
  /\ w[s].pc \in Deleting /\ UNCHANGED <<job, posts, fps, sent>>
  /\ rows' = { r \in rows : r.id # Target(s).row } /\ rows' \subseteq rows
  /\ Target(s) \in w[s].found
  /\ Erasing(s, w[s].found \ {Target(s)}, w[s].mids, rows')
LEMMA ErasedFacts ==
  ASSUME Smooth, NEW f, SyncInv(f), NEW s \in Side, Unmaps(s)
  PROVE  Erased(s)
<1>0. BridgeInv
  BY SyncKnown
<1>1. w[s].pc \in Deleting /\ rows' = { r \in rows : r.id # Target(s).row }
  BY <1>0, UnmapRows DEF Unmaps
<1>2. PICK ign \in SUBSET Msg : Unmap(s, ign)
  BY DEF Unmaps
<1>3. UNCHANGED <<job, posts, fps, sent>> /\ DeleteFrom(s, w[s].found \ {Target(s)}, w[s].mids, rows', ign)
  BY <1>2 DEF Unmap
<1>4. \A m \in w[s].mids : m \in Posted /\ SideOf(m.chat) = s
  BY <1>0 DEF BridgeInv, HandlerKnown
<1>5. rows' \subseteq rows
  BY <1>1
<1>6. Target(s) \in w[s].found
  BY <1>0, <1>1, TargetFacts
<1>7. PICK T : T = rows'
  OBVIOUS
<1>8. Erasing(s, w[s].found \ {Target(s)}, w[s].mids, T)
  BY <1>3, <1>4, <1>5, <1>7, DeletesAll
<1> QED BY <1>1, <1>3, <1>5, <1>6, <1>7, <1>8 DEF Erased

\* What the deletion of m still finds, of the rows left.
LEMMA ErasingFinds ==
  ASSUME Smooth, NEW f, SyncInv(f), NEW s \in Side, NEW F, NEW mids, NEW table,
         table \subseteq rows, Erasing(s, F, mids, table),
         NEW m \in Originals(s), NEW r \in table, r.src = m, rows' = table,
         m \in mids \/ \E o \in F : o.row = r.id
  PROVE  Forgetting(s, m, r)'
<1>1. CASE F # {}
  BY <1>1 DEF Erasing, Erases, Forgetting, ToServe, Deleting
<1>2. CASE F = {}
  <2>1. m \in mids
    BY <1>2
  <2>2. PICK o \in OtherSide(table, m) : o.row = r.id /\ Applies(s, o)
    BY QueryAll
  <2>3. PICK n \in mids : Erases(w'[s], OtherSide(table, n), mids \ {n})
    BY <1>2, <2>1, <2>2 DEF Erasing
  <2>4. CASE n = m
    BY <2>2, <2>3, <2>4 DEF Erases, Forgetting, ToServe, Deleting
  <2>5. CASE n # m
    BY <2>1, <2>3, <2>5 DEF Erases, Forgetting, Deleting
  <2> QED BY <2>4, <2>5
<1> QED BY <1>1, <1>2

-----------------------------------------------------------------------------
\* What holds for a user's message goes on while handlers work.
LEMMA AlikeThen ==
  ASSUME NEW m, NEW a, NEW b, Alike(m, a, b)
  PROVE  /\ Before(a, News(m), Concerns(m)) => Before(b, News(m), Concerns(m))
         /\ Before(a, Concerns(m), Deletions(m)) => Before(b, Concerns(m), Deletions(m))
         /\ Occurs(a, News(m)) <=> Occurs(b, News(m))
         /\ Occurs(a, Versions(m)) <=> Occurs(b, Versions(m))
         /\ Occurs(a, Deletions(m)) <=> Occurs(b, Deletions(m))
         /\ Occurs(a, Concerns(m)) <=> Occurs(b, Concerns(m))
         /\ \A t : Latest(a, m, t) => Latest(b, m, t)
BY DEF Alike

LEMMA OriginalFacts ==
  ASSUME NEW f, SyncInv(f), NEW s \in Side, NEW m \in Originals(s)
  PROVE  m \in Posted /\ m \in Msg /\ ByUser(m) /\ SideOf(m.chat) = s /\ Synced(f, s, m)
BY SyncKnown, InvFacts DEF Originals

\* While the other handler works.
LEMMA SyncedOthers ==
  ASSUME Smooth, NEW f, SyncInv(f), NEW t \in Side, Send(t) \/ Works(t),
         NEW s \in Side, s # t, NEW m \in Originals(s)
  PROVE  Synced(f, s, m)'
<1>0. m \in Posted /\ ByUser(m) /\ SideOf(m.chat) = s /\ Synced(f, s, m)
  BY OriginalFacts
<1>1. Alike(m, Line(s), Line(s)') /\ At(m)' = At(m) /\ Untouched(m)
  BY <1>0, WorkLines, WorkPosts, OtherRows
<1>2. w'[s] = w[s] /\ job'[s] = job[s] /\ Source(s)' = Source(s)
  BY WorkKinds DEF Others, Source
<1>3. ASSUME NEW r \in rows, r.src = m PROVE At(r.dst)' = At(r.dst)
  <2>1. r.dst \in Posted /\ SideOf(r.dst.chat) = t
    BY <1>0, <1>3, RowSides, SideFacts
  <2> QED BY <2>1, WorkPosts
<1>4. \A r : /\ Forgetting(s, m, r) => Forgetting(s, m, r)'
             /\ Renewing(s, r) => Renewing(s, r)'
  BY <1>2 DEF Forgetting, Renewing, ToServe
<1>5. \A p \in PairId : Sending(s, m, p) => Sending(s, m, p)'
  BY <1>2 DEF Sending
<1> QED BY <1>0, <1>1, <1>2, <1>3, <1>4, <1>5, SyncedStays

\* While its own handler stays with its target, ...
LEMMA SyncedHolds ==
  ASSUME Smooth, NEW f, SyncInv(f), NEW s \in Side, Send(s) \/ Works(s), Holds(s),
         NEW m \in Originals(s)
  PROVE  Synced(f, s, m)'
<1>0. m \in Posted /\ ByUser(m) /\ SideOf(m.chat) = s /\ Synced(f, s, m)
  BY OriginalFacts
<1>1. Alike(m, Line(s), Line(s)') /\ At(m)' = At(m)
  BY <1>0, WorkLines, WorkPosts
<1>2. Untouched(m) /\ job'[s] = job[s] /\ Source(s)' = Source(s)
  BY DEF Holds, Untouched, Source
<1>3. /\ w'[s].found = w[s].found /\ w'[s].todo = w[s].todo /\ w'[s].mids = w[s].mids
      /\ w[s].pc = "send" => w'[s].pc = "send"
      /\ w[s].pc \in Editing => w'[s].pc \in Editing
      /\ w[s].pc \in Deleting => w'[s].pc \in Deleting
  BY DEF Holds, Editing, Deleting
<1>4. \A r : /\ Forgetting(s, m, r) => Forgetting(s, m, r)'
             /\ Renewing(s, r) => Renewing(s, r)'
  BY <1>3 DEF Forgetting, Renewing, ToServe
<1>5. \A p \in PairId : Sending(s, m, p) => Sending(s, m, p)'
  BY <1>2, <1>3 DEF Sending
<1>6. ASSUME NEW r \in rows PROVE At(r.dst)'.txt = At(r.dst).txt \/ Renewing(s, r)
  <2>1. r.dst \in Posted
    BY RowSides
  <2>2. CASE At(r.dst)' = At(r.dst)
    BY <2>2
  <2>3. CASE w[s].pc \in Editing /\ At(r.dst)' # At(r.dst)
    <3>1. PICK o : o = Target(s)
      OBVIOUS
    <3>2. o \in w[s].found /\ r.dst = o.msg
      BY <2>1, <2>3, <3>1, WorkPosts, TargetLive
    <3>3. r.id = o.row
      BY <3>2, FoundRow
    <3> QED BY <2>3, <3>2, <3>3 DEF Renewing, ToServe
  <2> QED BY <2>1, <2>2, <2>3 DEF Holds, Treated
<1> QED BY <1>0, <1>1, <1>2, <1>4, <1>5, <1>6, SyncedStays

\* ... while it ends an edit, ...
LEMMA SyncedRenews ==
  ASSUME Smooth, NEW f, SyncInv(f), NEW s \in Side, Send(s) \/ Works(s), Renews(s),
         NEW m \in Originals(s)
  PROVE  Synced(f, s, m)'
<1> DEFINE a == Line(s)
           b == Line(s)'
           F == w[s].found \ {Target(s)}
<1>0. m \in Posted /\ ByUser(m) /\ SideOf(m.chat) = s /\ Synced(f, s, m) /\ BridgeInv
  BY OriginalFacts, SyncKnown
<1>1. Alike(m, a, b) /\ At(m)' = At(m) /\ job'[s] = job[s] /\ Source(s)' = Source(s)
  BY <1>0, WorkLines, WorkPosts DEF Renews, Source
<1>2. Live(m)' <=> Live(m)
  BY <1>1 DEF Live
<1>3. w[s].pc \in Editing /\ \A p : ~Sending(s, m, p)
  BY DEF Renews, Sending, Editing
<1>4. \A r : ~Forgetting(s, m, r)
  BY <1>3 DEF Forgetting, Editing, Deleting
<1>5. \A x \in rows' : \E r \in rows : r.id = x.id /\ r.src = x.src /\ r.pair = x.pair
  BY DEF Renews
<1>6. InOrder(s, m)'
  BY <1>0, <1>1, <1>2, <1>5, AlikeThen DEF Synced, InOrder
<1>7. Mirrored(f, s, m)'
  <2>1. \A p : Served(m, p) => Served(m, p)'
    BY DEF Served, Renews
  <2> QED BY <1>0, <1>1, <1>2, <1>3, <2>1, AlikeThen DEF Synced, Mirrored
<1>8. Forgotten(s, m)'
  BY <1>0, <1>1, <1>2, <1>4, <1>5, AlikeThen DEF Synced, Forgotten
<1>9. ASSUME ~Occurs(a, Versions(m)), NEW x \in rows', x.src = m
      PROVE  At(x.dst)'.txt = At(m).txt \/ Renewing(s, x)'
  <2>1. CASE x.id # Target(s).row
    <3>1. x \in rows /\ At(x.dst)' = At(x.dst)
      BY <2>1 DEF Renews
    <3>2. CASE Renewing(s, x)
      <4>1. PICK o \in w[s].found : o.row = x.id
        BY <3>2 DEF Renewing, ToServe
      <4>2. o \in F
        BY <2>1, <4>1
      <4>3. w'[s].found = F /\ w'[s].pc \in {"edit", "fetch"}
        BY <4>2 DEF Renews, Serves
      <4> QED BY <4>1, <4>2, <4>3 DEF Renewing, ToServe, Editing
    <3> QED BY <1>0, <1>9, <3>1, <3>2 DEF Synced, UpToDate
  <2>2. CASE x.id = Target(s).row
    <3>1. At(x.dst)'.txt = Source(s).txt
      BY <2>2 DEF Renews
    <3>2. PICK r \in rows : r.id = x.id /\ r.src = m
      BY <1>5, <1>9
    <3>3. PICK o : o = Target(s)
      OBVIOUS
    <3>4. o \in w[s].found /\ r.id = o.row
      BY <1>3, <2>2, <3>2, <3>3, TargetLive
    <3>5. m = Source(s).msg
      BY <1>3, <3>2, <3>4, FoundRow
    <3>6. job[s].kind = "edit" /\ job[s] \in Job
      BY <1>0, <1>3, SourceFacts DEF BridgeInv, HandlerKnown, HomeJob
    <3>7. job[s] \in Versions(m)
      BY <3>5, <3>6 DEF Versions, Source
    <3> QED BY <1>0, <1>9, <3>1, <3>7 DEF Synced, UpToDate
  <2> QED BY <2>1, <2>2
<1>10. UpToDate(s, m)'
  BY <1>0, <1>1, <1>9, AlikeThen DEF Synced, UpToDate
<1> QED BY <1>6, <1>7, <1>8, <1>10 DEF Synced

\* ... or a deletion, ...
LEMMA SyncedErased ==
  ASSUME Smooth, NEW f, SyncInv(f), NEW s \in Side, Send(s) \/ Works(s), Erased(s),
         NEW m \in Originals(s)
  PROVE  Synced(f, s, m)'
<1> DEFINE a == Line(s)
           b == Line(s)'
           F == w[s].found \ {Target(s)}
<1>0. m \in Posted /\ ByUser(m) /\ SideOf(m.chat) = s /\ Synced(f, s, m) /\ BridgeInv
  BY OriginalFacts, SyncKnown
<1>1. Alike(m, a, b) /\ At(m)' = At(m) /\ job'[s] = job[s] /\ Source(s)' = Source(s)
  BY <1>0, WorkLines, WorkPosts DEF Erased, Source
<1>2. Live(m)' <=> Live(m)
  BY <1>1 DEF Live
<1>3. /\ w[s].pc \in Deleting /\ \A p : ~Sending(s, m, p)
      /\ \A r : ~Renewing(s, r)
  BY DEF Erased, Sending, Renewing, Deleting, Editing
<1>4. InOrder(s, m)'
  BY <1>0, <1>1, <1>2, AlikeThen DEF Synced, InOrder, Erased
<1>5. Mirrored(f, s, m)'
  <2>1. ASSUME Live(m), NEW r \in rows, r.src = m
        PROVE  r \in rows'
    <3> SUFFICES ASSUME r.id = Target(s).row PROVE FALSE
      BY DEF Erased
    <3>1. PICK o : o = Target(s)
      OBVIOUS
    <3>2. o \in w[s].found /\ r.dst = o.msg
      BY <3>1, FoundRow DEF Erased
    <3>3. ~Live(At(o.msg).src)
      BY <1>3, <3>2, SyncKnown DEF Working
    <3> QED BY <2>1, <3>2, <3>3, RowSides
  <2>2. Live(m) => \A p : Served(m, p) => Served(m, p)'
    BY <2>1 DEF Served
  <2> QED BY <1>0, <1>1, <1>2, <1>3, <2>2, AlikeThen DEF Synced, Mirrored
<1>6. Forgotten(s, m)'
  <2>1. PICK T : T = rows'
    OBVIOUS
  <2>2. T \subseteq rows /\ Erasing(s, F, w[s].mids, T)
    BY <2>1 DEF Erased
  <2>3. ASSUME NEW r \in T, r.src = m, Forgetting(s, m, r)
        PROVE  Forgetting(s, m, r)'
    <3>1. r.id # Target(s).row
      BY <2>1, <2>3 DEF Erased
    <3>2. m \in w[s].mids \/ \E o \in F : o.row = r.id
      BY <2>3, <3>1 DEF Forgetting, ToServe
    <3> HIDE DEF F
    <3> QED BY <2>1, <2>2, <2>3, <3>2, ErasingFinds
  <2> QED BY <1>0, <1>1, <1>2, <2>1, <2>2, <2>3, AlikeThen DEF Synced, Forgotten
<1>7. UpToDate(s, m)'
  <2>1. UNCHANGED posts /\ rows' \subseteq rows
    BY DEF Erased
  <2>2. \A n : At(n)' = At(n)
    BY <2>1, SamePosts
  <2> QED BY <1>0, <1>1, <1>3, <2>1, <2>2, AlikeThen DEF Synced, UpToDate
<1> QED BY <1>4, <1>5, <1>6, <1>7 DEF Synced

\* ... or has mirrored a message.
LEMMA SyncedAdds ==
  ASSUME Smooth, NEW f, SyncInv(f), NEW s \in Side, Send(s) \/ Works(s), Adds(s),
         NEW m \in Originals(s)
  PROVE  Synced(f, s, m)'
<1> DEFINE a == Line(s)
           b == Line(s)'
<1>0. m \in Posted /\ ByUser(m) /\ SideOf(m.chat) = s /\ Synced(f, s, m) /\ BridgeInv
  BY OriginalFacts, SyncKnown
<1>1. Alike(m, a, b) /\ At(m)' = At(m) /\ job'[s] = job[s] /\ Source(s)' = Source(s)
  BY <1>0, WorkLines, WorkPosts DEF Adds, Source
<1>2. Live(m)' <=> Live(m)
  BY <1>1 DEF Live
<1>3. /\ w[s].pc = "send"
      /\ \A r : ~Renewing(s, r) /\ ~Forgetting(s, m, r)
  BY DEF Adds, Renewing, Forgetting, Deleting, Editing
<1>4. job[s] \in Job /\ job[s].kind = "new"
  BY <1>0, <1>3, SourceFacts DEF BridgeInv, HandlerKnown, HomeJob
<1>5. Source(s).msg = m => job[s] \in News(m) /\ job[s] \in Versions(m) /\ job[s] \in Concerns(m)
  BY <1>4, JobSorts DEF News, Source
<1>6. PICK n \in Range(w[s].made) : AddsRow(s, n)
  BY AddedOne
<1>7. /\ rows \subseteq rows'
      /\ \A x \in rows' : x \in rows \/ (x.src = Source(s).msg /\ x.pair = FirstPair(s) /\ x.dst = n)
      /\ \E x \in rows' : x.src = Source(s).msg /\ x.pair = FirstPair(s) /\ x.dst = n
  BY <1>6 DEF AddsRow
<1>8. InOrder(s, m)'
  BY <1>0, <1>1, <1>2, <1>5, <1>7, AlikeThen DEF Synced, InOrder
<1>9. Mirrored(f, s, m)'
  <2>1. \A p : Served(m, p) => Served(m, p)'
    BY <1>7 DEF Served
  <2>2. ASSUME NEW p \in PairId, Sending(s, m, p)
        PROVE  Sending(s, m, p)' \/ Served(m, p)'
    <3>1. CASE p = FirstPair(s)
      BY <1>7, <2>2, <3>1 DEF Sending, Served
    <3>2. CASE p # FirstPair(s)
      <4>1. p \in w[s].todo \ {FirstPair(s)}
        BY <2>2, <3>2 DEF Sending
      <4>2. w'[s].pc = "send" /\ w'[s].todo = w[s].todo \ {FirstPair(s)}
        BY <4>1 DEF Adds, SendsTo
      <4> QED BY <1>1, <2>2, <4>1, <4>2 DEF Sending
    <3> QED BY <3>1, <3>2
  <2> QED BY <1>0, <1>1, <1>2, <2>1, <2>2, AlikeThen DEF Synced, Mirrored
<1>10. Forgotten(s, m)'
  BY <1>0, <1>1, <1>2, <1>3, <1>5, <1>7, AlikeThen DEF Synced, Forgotten
<1>11. UpToDate(s, m)'
  <2>1. \A x : At(x)' = At(x)
    BY SamePosts DEF Adds
  <2>2. At(n).txt = Source(s).txt
    BY SyncKnown DEF Working
  <2> QED BY <1>0, <1>1, <1>3, <1>5, <1>7, <2>1, <2>2, AlikeThen DEF Synced, UpToDate
<1> QED BY <1>8, <1>9, <1>10, <1>11 DEF Synced

LEMMA SyncedWorks ==
  ASSUME Smooth, NEW f, SyncInv(f), NEW t \in Side, Send(t) \/ Works(t),
         NEW s \in Side, NEW m \in Originals(s)
  PROVE  Synced(f, s, m)'
BY WorkKinds, ErasedFacts, SyncedOthers, SyncedHolds, SyncedRenews, SyncedErased, SyncedAdds

-----------------------------------------------------------------------------
\* What holds for a handler with no more to serve than before goes on holding.
LEMMA WorkingKeeps ==
  ASSUME Smooth, NEW f, SyncInv(f), NEW s \in Side, Aged, SrcKept, UNCHANGED mode,
         job'[s] = job[s], w'[s].found \subseteq w[s].found, w'[s].mids \subseteq w[s].mids,
         w'[s].pc \in Deleting => w[s].pc \in Deleting,
         w'[s].pc = "send" => \A p \in w'[s].todo : ~Served(Source(s).msg, p)',
         \A o \in w'[s].found : HasRow(o)',
         \A n \in Range(w'[s].made) :
           Live(n)' /\ At(n)'.txt = Source(s).txt /\ \A r \in rows' : r.dst # n
  PROVE  Working(s)'
<1>0. BridgeInv /\ Working(s) /\ Source(s)' = Source(s)
  BY SyncKnown DEF Source
<1>1. \A o \in w'[s].found : Applies(s, o)' /\ HasRow(o)'
  BY <1>0 DEF Working, Applies
<1>2. w'[s].pc \in Deleting => \A o \in w'[s].found : ~Live(At(o.msg).src)'
  <2> SUFFICES ASSUME w[s].pc \in Deleting, NEW o \in w[s].found
               PROVE  ~Live(At(o.msg).src)'
    OBVIOUS
  <2>1. PICK r \in rows : r.dst = o.msg
    BY FoundRow
  <2>2. r.dst \in Posted /\ r.src \in Posted /\ At(r.dst).src = r.src
    BY RowSides
  <2>3. ~Live(r.src) /\ At(o.msg)'.src = r.src
    BY <1>0, <2>1, <2>2 DEF Working, SrcKept
  <2>4. ~Live(r.src)'
    BY <2>2, <2>3 DEF Aged, Live
  <2> QED BY <2>3, <2>4
<1>3. \A m \in w'[s].mids : ByUser(m)' => ~Live(m)'
  <2> SUFFICES ASSUME NEW m \in w[s].mids, ByUser(m)'
               PROVE  ~Live(m)'
    OBVIOUS
  <2>1. m \in Posted
    BY <1>0 DEF BridgeInv, HandlerKnown
  <2>2. ~Live(m)
    BY <1>0, <2>1 DEF Working, SrcKept, ByUser
  <2> QED BY <2>1, <2>2 DEF Aged, Live
<1>4. \A n \in Range(w'[s].made) :
        Live(n)' /\ At(n)'.txt = Source(s)'.txt /\ \A r \in rows' : r.dst # n
  BY <1>0
<1> QED BY <1>0, <1>1, <1>2, <1>3, <1>4 DEF Working

\* It does while others act.
LEMMA WorkingStays ==
  ASSUME Smooth, NEW f, SyncInv(f), NEW s \in Side, Aged, SrcKept, UNCHANGED mode,
         w'[s] = w[s], job'[s] = job[s],
         w[s].pc = "send" => \A p \in w[s].todo : ~Served(Source(s).msg, p)',
         \A o \in w[s].found : HasRow(o)',
         \A n \in Range(w[s].made) : Live(n)' /\ At(n)'.txt = At(n).txt /\ \A r \in rows' : r.dst # n
  PROVE  Working(s)'
<1>1. \A n \in Range(w[s].made) : At(n).txt = Source(s).txt
  BY SyncKnown DEF Working
<1> QED BY <1>1, WorkingKeeps

LEMMA WorkingRests ==
  ASSUME NEW s \in Side, Rests(w'[s]), w'[s].pc \in {"idle", "done"}
  PROVE  Working(s)'
BY DEF Rests, Working, Range, Deleting

\* What a handler has made is in its hands only while it edits or sends.
LEMMA MadePosted ==
  ASSUME Smooth, NEW f, SyncInv(f), NEW s \in Side, NEW n \in Range(w[s].made)
  PROVE  /\ n \in Posted /\ ~ByUser(n) /\ SideOf(n.chat) = Other(s)
         /\ w[s].pc \in Editing \cup {"send"}
<1>1. PICK i \in DOMAIN w[s].made : n = w[s].made[i]
  BY DEF Range
<1>2. w[s].made # <<>>
  BY <1>1
<1>3. w[s].pc \in Editing \cup {"send"}
  BY <1>2, SyncKnown DEF HandsEmpty, Editing
<1> QED BY <1>1, <1>3, MadeCopies

LEMMA WorkingOthers ==
  ASSUME Smooth, NEW f, SyncInv(f), NEW t \in Side, Send(t) \/ Works(t), DirInv(f)',
         NEW s \in Side, s # t, Aged, SrcKept
  PROVE  Working(s)'
<1>0. w'[s] = w[s] /\ job'[s] = job[s] /\ UNCHANGED mode /\ BridgeInv
  BY WorkKinds, SyncKnown DEF Others
<1>1. w[s].pc = "send" => \A p \in w[s].todo : ~Served(Source(s).msg, p)'
  <2> SUFFICES ASSUME w[s].pc = "send"
               PROVE  \A p \in w[s].todo : ~Served(Source(s).msg, p)'
    OBVIOUS
  <2>1. Untouched(Source(s).msg)
    BY <1>0, SourceFacts, OtherRows
  <2>2. Source(s)' = Source(s)
    BY <1>0 DEF Source
  <2> QED BY <2>1, <2>2, SyncKnown DEF Working, Served, Untouched
<1>2. ASSUME NEW o \in w[s].found PROVE HasRow(o)'
  <2>1. PICK r \in rows : r.id = o.row /\ SideOf(r.src.chat) = s
    BY FoundRow
  <2>2. Untouched(r.src)
    BY <2>1, OtherRows
  <2> QED BY <2>1, <2>2 DEF Untouched, HasRow
<1>3. ASSUME NEW n \in Range(w[s].made)
      PROVE  Live(n)' /\ At(n)'.txt = At(n).txt /\ \A r \in rows' : r.dst # n
  <2>1. n \in Posted /\ SideOf(n.chat) = Other(s)
    BY <1>3, MadePosted
  <2>2. Other(s) = t /\ Other(t) = s
    BY DEF Side, Other
  <2>3. At(n)' = At(n)
    BY <2>1, <2>2, WorkPosts
  <2>4. Live(n) /\ \A r \in rows : r.dst # n
    BY <1>3, SyncKnown DEF Working
  <2>5. ASSUME NEW x \in rows', x.dst = n PROVE FALSE
    <3>1. SideOf(x.src.chat) = t
      BY <2>4, <2>5, OtherRows DEF Untouched
    <3>2. rows' \in SUBSET Row /\ RowForth(f, x)'
      BY DEF DirInv, BridgeInv, TypeOK
    <3>3. x.pair \in PairId /\ x.src.chat = From(f, x.pair) /\ x.dst.chat = Into(f, x.pair)
      BY <3>2 DEF RowForth, Row
    <3>4. SideOf(x.dst.chat) = Other(t)
      BY <3>1, <3>3, GoesFacts, SyncKnown DEF Smooth
    <3> QED BY <2>1, <2>2, <2>5, <3>4
  <2> QED BY <2>3, <2>4, <2>5 DEF Live
<1> QED BY <1>0, <1>1, <1>2, <1>3, WorkingStays

LEMMA WorkingHolds ==
  ASSUME Smooth, NEW f, SyncInv(f), NEW s \in Side, Send(s) \/ Works(s), Holds(s),
         Aged, SrcKept
  PROVE  Working(s)'
<1>0. BridgeInv /\ Working(s) /\ UNCHANGED <<mode, rows>> /\ job'[s] = job[s] /\ Source(s)' = Source(s)
  BY SyncKnown, WorkKinds DEF Holds, Source
<1>1. /\ w'[s].found = w[s].found /\ w'[s].todo = w[s].todo /\ w'[s].mids = w[s].mids
      /\ w'[s].pc = "send" => w[s].pc = "send"
      /\ w'[s].pc \in Deleting => w[s].pc \in Deleting
  BY DEF Holds, Editing, Deleting
<1>2. w'[s].pc = "send" => \A p \in w'[s].todo : ~Served(Source(s).msg, p)'
  BY <1>0, <1>1 DEF Working, Served
<1>3. \A o \in w'[s].found : HasRow(o)'
  BY <1>0, <1>1 DEF Working, HasRow
<1>4. ASSUME NEW n \in Range(w'[s].made)
      PROVE  Live(n)' /\ At(n)'.txt = Source(s).txt /\ \A r \in rows' : r.dst # n
  <2>1. CASE n \in Range(w[s].made)
    <3>1. n \in Posted /\ Live(n) /\ At(n).txt = Source(s).txt /\ \A r \in rows : r.dst # n
      BY <1>0, <2>1, MadePosted DEF Working
    <3>2. w[s].pc \in Editing \cup Deleting => n # Target(s).msg
      BY <3>1, TargetLive
    <3>3. At(n)' = At(n)
      BY <3>1, <3>2, WorkPosts
    <3> QED BY <1>0, <3>1, <3>3 DEF Live
  <2>2. CASE n \notin Range(w[s].made)
    <3>1. n \notin Posted /\ Live(n)' /\ At(n)'.txt = Source(s).txt
      BY <1>4, <2>2 DEF Holds
    <3> QED BY <1>0, <3>1, RowSides
  <2> QED BY <2>1, <2>2
<1> QED BY <1>0, <1>1, <1>2, <1>3, <1>4, WorkingKeeps

LEMMA WorkingRenews ==
  ASSUME Smooth, NEW f, SyncInv(f), NEW s \in Side, Send(s) \/ Works(s), Renews(s),
         Aged, SrcKept
  PROVE  Working(s)'
<1>0. Working(s) /\ UNCHANGED mode /\ job'[s] = job[s]
  BY SyncKnown, WorkKinds DEF Renews
<1>1. /\ w'[s].found \subseteq w[s].found /\ w'[s].mids = {} /\ w'[s].made = <<>>
      /\ w'[s].pc # "send" /\ w'[s].pc \notin Deleting
  BY DEF Renews, Serves, Deleting
<1>2. \A o \in w'[s].found : HasRow(o)'
  <2> SUFFICES ASSUME NEW o \in w[s].found PROVE HasRow(o)'
    BY <1>1
  <2>1. PICK r \in rows : r.id = o.row
    BY <1>0 DEF Working, HasRow
  <2>2. \E x \in rows' : r.id = x.id
    BY DEF Renews
  <2> QED BY <2>1, <2>2 DEF HasRow
<1>3. Range(w'[s].made) = {}
  BY <1>1 DEF Range
<1> QED BY <1>0, <1>1, <1>2, <1>3, WorkingKeeps

LEMMA WorkingAdds ==
  ASSUME Smooth, NEW f, SyncInv(f), NEW s \in Side, Send(s) \/ Works(s), Adds(s),
         Aged, SrcKept
  PROVE  Working(s)'
<1>1. CASE Rests(w'[s]) /\ w'[s].pc = "done"
  BY <1>1, WorkingRests
<1>2. CASE /\ w'[s].pc = "send" /\ w'[s].todo = w[s].todo \ {FirstPair(s)}
           /\ w'[s].found = {} /\ w'[s].mids = {} /\ w'[s].made = <<>>
  <2>1. Working(s) /\ UNCHANGED mode /\ job'[s] = job[s] /\ Source(s)' = Source(s)
    BY SyncKnown, WorkKinds DEF Adds, Source
  <2>2. PICK n \in Range(w[s].made) : AddsRow(s, n)
    BY AddedOne
  <2>3. ASSUME NEW p \in w'[s].todo PROVE ~Served(Source(s).msg, p)'
    <3>1. p \in w[s].todo /\ p # FirstPair(s) /\ w[s].pc = "send"
      BY <1>2, <2>3 DEF Adds
    <3>2. ~Served(Source(s).msg, p)
      BY <2>1, <3>1 DEF Working
    <3> QED BY <2>1, <2>2, <3>1, <3>2 DEF Served, AddsRow
  <2>4. Range(w'[s].made) = {} /\ w'[s].pc \notin Deleting
    BY <1>2 DEF Range, Deleting
  <2> QED BY <1>2, <2>1, <2>3, <2>4, WorkingKeeps
<1> QED BY <1>1, <1>2 DEF Adds, SendsTo

\* A deletion that has looked up the copies of m.
LEMMA WorkingLooksUp ==
  ASSUME Smooth, NEW f, SyncInv(f), NEW s \in Side, NEW mids,
         \A n \in mids : n \in Posted /\ SideOf(n.chat) = s /\ (ByUser(n) => ~Live(n)),
         NEW table, table \subseteq rows, rows' = table, UNCHANGED <<posts, mode>>,
         NEW m \in mids, Erases(w'[s], OtherSide(table, m), mids \ {m}),
         \A o \in OtherSide(table, m) : Applies(s, o)
  PROVE  Working(s)'
<1>1. \A n : At(n)' = At(n) /\ (Live(n)' <=> Live(n)) /\ (ByUser(n)' <=> ByUser(n))
  BY SamePosts DEF Live, ByUser
<1>2. ASSUME NEW o \in OtherSide(table, m)
      PROVE  HasRow(o)' /\ ~Live(At(o.msg).src)'
  <2>1. ByUser(m)
    BY <1>2, QueryNone
  <2>2. m \in Originals(s)
    BY <2>1 DEF Originals
  <2>3. PICK r \in table : r.id = o.row /\ r.src = m /\ r.dst = o.msg
    BY <1>2, <2>2, QueryAll
  <2>4. At(o.msg).src = m
    BY <2>3, RowSides
  <2> QED BY <1>1, <2>1, <2>3, <2>4 DEF HasRow
<1>3. /\ w'[s].found = OtherSide(table, m) /\ w'[s].mids \subseteq mids
      /\ w'[s].pc = "delete" /\ Range(w'[s].made) = {}
  BY DEF Erases, Range
<1>4. \A n \in w'[s].mids : ByUser(n)' => ~Live(n)'
  BY <1>1, <1>3
<1>5. \A o \in w'[s].found : Applies(s, o)'
  BY <1>3 DEF Applies
<1> QED BY <1>2, <1>3, <1>4, <1>5 DEF Working

LEMMA WorkingErased ==
  ASSUME Smooth, NEW f, SyncInv(f), NEW s \in Side, Send(s) \/ Works(s), Erased(s),
         Aged, SrcKept
  PROVE  Working(s)'
<1> DEFINE F == w[s].found \ {Target(s)}
<1>0. /\ Working(s) /\ UNCHANGED <<mode, posts>> /\ job'[s] = job[s] /\ Source(s)' = Source(s)
      /\ BridgeInv /\ w[s].pc \in Deleting
  BY SyncKnown, WorkKinds DEF Erased, Source
<1>2. PICK T : T = rows'
  OBVIOUS
<1>3. T \subseteq rows /\ Erasing(s, F, w[s].mids, T)
  BY <1>2 DEF Erased
<1>4. CASE Erases(w'[s], F, w[s].mids)
  <2>1. w'[s].found = F /\ w'[s].mids = w[s].mids /\ w'[s].pc = "delete" /\ w'[s].made = <<>>
    BY <1>4 DEF Erases
  <2>2. ASSUME NEW o \in F PROVE HasRow(o)'
    <3>1. PICK r \in rows : r.id = o.row
      BY <1>0 DEF Working, HasRow
    <3>2. o.row # Target(s).row
      BY <1>0 DEF BridgeInv, HandlerKnown, FoundKnown, Erased
    <3>3. r \in rows'
      BY <3>1, <3>2 DEF Erased
    <3> QED BY <3>1, <3>3 DEF HasRow
  <2>3. Range(w'[s].made) = {}
    BY <2>1 DEF Range
  <2> QED BY <1>0, <2>1, <2>2, <2>3, WorkingKeeps
<1>5. CASE \E m \in w[s].mids : /\ Erases(w'[s], OtherSide(T, m), w[s].mids \ {m})
                                /\ \A o \in OtherSide(T, m) : Applies(s, o)
  <2>1. PICK m \in w[s].mids : /\ Erases(w'[s], OtherSide(T, m), w[s].mids \ {m})
                               /\ \A o \in OtherSide(T, m) : Applies(s, o)
    BY <1>5
  <2>2. \A n \in w[s].mids : n \in Posted /\ SideOf(n.chat) = s /\ (ByUser(n) => ~Live(n))
    BY <1>0 DEF BridgeInv, HandlerKnown, Working
  <2> QED BY <1>0, <1>2, <1>3, <2>1, <2>2, WorkingLooksUp
<1>6. CASE Rests(w'[s]) /\ w'[s].pc = "done"
  BY <1>6, WorkingRests
<1> QED BY <1>3, <1>4, <1>5, <1>6 DEF Erasing

LEMMA WorkingWorks ==
  ASSUME Smooth, NEW f, SyncInv(f), NEW t \in Side, Send(t) \/ Works(t), DirInv(f)',
         NEW s \in Side, Aged, SrcKept
  PROVE  Working(s)'
BY WorkKinds, ErasedFacts, WorkingOthers, WorkingHolds, WorkingRenews, WorkingErased, WorkingAdds

-----------------------------------------------------------------------------
\* The copies, the fingerprints and the marks while handlers work.
LEMMA LiveWorks ==
  ASSUME Smooth, NEW f, SyncInv(f), NEW t \in Side, Send(t) \/ Works(t)
  PROVE  DstLive'
<1> SUFFICES ASSUME NEW x \in rows' PROVE Live(x.dst)' \/ Ending(x)'
  BY DEF DstLive
<1>0. DstLive /\ Working(t)
  BY SyncKnown
<1>1. \A s \in Side : s # t => /\ Emptied(s) => Emptied(s)'
                               /\ Target(s)' = Target(s)
  BY WorkKinds DEF Others, Emptied, Target
<1>2. CASE Holds(t)
  <2>1. x \in rows /\ x.dst \in Posted /\ Target(t)' = Target(t) /\ (Emptied(t) => Emptied(t)')
    BY <1>2, RowSides DEF Holds, Target
  <2>2. CASE Ending(x)
    BY <1>1, <2>1, <2>2 DEF Ending
  <2>3. CASE Live(x.dst)
    <3>1. CASE At(x.dst)' = At(x.dst)
      BY <2>3, <3>1 DEF Live
    <3>2. CASE w[t].pc \in Editing \cup Deleting /\ x.dst = Target(t).msg
      <4>1. PICK o : o = Target(t)
        OBVIOUS
      <4>2. o \in w[t].found /\ x.dst = o.msg
        BY <3>2, <4>1, TargetLive
      <4>3. x.id = Target(t).row
        BY <2>1, <4>1, <4>2, FoundRow
      <4>4. At(x.dst)' = At(x.dst) \/ Live(x.dst)' \/ Emptied(t)'
        BY <1>2, <2>1 DEF Holds, Treated
      <4> QED BY <2>1, <2>3, <4>3, <4>4 DEF Ending, Live
    <3> QED BY <2>1, <3>1, <3>2, WorkPosts
  <2> QED BY <1>0, <2>1, <2>2, <2>3 DEF DstLive
<1>3. ASSUME x \in rows, At(x.dst)' = At(x.dst), ~Emptied(t) \/ x.id # Target(t).row
      PROVE  Live(x.dst)' \/ Ending(x)'
  <2>1. CASE Live(x.dst)
    BY <1>3, <2>1 DEF Live
  <2>2. CASE Ending(x)
    BY <1>1, <1>3, <2>2 DEF Ending
  <2> QED BY <1>0, <1>3, <2>1, <2>2 DEF DstLive
<1>4. CASE Renews(t)
  BY <1>3, <1>4 DEF Renews
<1>5. CASE Erased(t)
  <2>1. x \in rows /\ x.id # Target(t).row /\ At(x.dst)' = At(x.dst)
    BY <1>5, SamePosts DEF Erased
  <2> QED BY <1>3, <2>1
<1>6. CASE Adds(t)
  <2>1. PICK n \in Range(w[t].made) : AddsRow(t, n)
    BY <1>6, AddedOne
  <2>2. \A m : At(m)' = At(m)
    BY <1>6, SamePosts DEF Adds
  <2>3. ~Emptied(t)
    BY <1>6 DEF Adds, Emptied
  <2>4. CASE x \in rows
    BY <1>3, <2>2, <2>3, <2>4
  <2>5. CASE x.dst = n
    BY <1>0, <2>2, <2>5 DEF Working, Live
  <2> QED BY <2>1, <2>4, <2>5 DEF AddsRow
<1> QED BY <1>2, <1>4, <1>5, <1>6, WorkKinds, ErasedFacts

LEMMA OneEachWorks ==
  ASSUME Smooth, NEW f, SyncInv(f), BridgeInv', NEW t \in Side, Send(t) \/ Works(t)
  PROVE  OneEach'
<1>0. OneEach /\ Working(t)
  BY SyncKnown
<1>1. CASE Holds(t) \/ Erased(t)
  <2>1. rows' \subseteq rows
    BY <1>1 DEF Holds, Erased
  <2> QED BY <1>0, <2>1 DEF OneEach
<1>2. CASE Renews(t)
  <2> SUFFICES ASSUME NEW x \in rows', NEW y \in rows', x.src = y.src, x.pair = y.pair
               PROVE  x = y
    BY DEF OneEach
  <2>1. PICK a \in rows : a.id = x.id /\ a.src = x.src /\ a.pair = x.pair
    BY <1>2 DEF Renews
  <2>2. PICK b \in rows : b.id = y.id /\ b.src = y.src /\ b.pair = y.pair
    BY <1>2 DEF Renews
  <2>3. a = b
    BY <1>0, <2>1, <2>2 DEF OneEach
  <2>4. x.id = y.id
    BY <2>1, <2>2, <2>3
  <2> QED BY <2>4 DEF BridgeInv, RowsKnown
<1>3. CASE Adds(t)
  <2>1. PICK n \in Range(w[t].made) : AddsRow(t, n)
    BY <1>3, AddedOne
  <2>2. ~Served(Source(t).msg, FirstPair(t))
    BY <1>0, <1>3 DEF Working, Adds
  <2> QED BY <1>0, <2>1, <2>2 DEF OneEach, AddsRow, Served
<1> QED BY <1>1, <1>2, <1>3, WorkKinds, ErasedFacts

LEMMA PrintsWorks ==
  ASSUME Smooth, NEW f, SyncInv(f), NEW t \in Side, Send(t) \/ Works(t)
  PROVE  PrintsInto(f)'
<1>0. PrintsInto(f) /\ Forth(f, t) /\ f \in InitModes
  BY SyncKnown
<1>1. CASE UNCHANGED fps
  BY <1>0, <1>1 DEF PrintsInto, Into
<1>2. CASE Adds(t)
  <2>1. FirstPair(t) \in PairId /\ Goes(f, t, FirstPair(t))
    BY <1>0, <1>2 DEF Adds, Forth
  <2>2. Into(f, FirstPair(t)) = PairChat(t, FirstPair(t))
    BY <1>0, <2>1, GoesFacts DEF Smooth
  <2> QED BY <1>0, <1>2, <2>1, <2>2 DEF PrintsInto, Adds, Into
<1> QED BY <1>1, <1>2, WorkKinds, ErasedFacts DEF Holds, Renews, Erased

LEMMA MarksStay ==
  ASSUME SrcKept, OwnMarks,
         \A m \in sent' \cup ignore' : m \in sent \cup ignore \/ (m \in Posted /\ ~ByUser(m))
  PROVE  OwnMarks'
BY DEF SrcKept, OwnMarks, ByUser

LEMMA AimsAtCopy ==
  ASSUME NEW f, DirInv(f)', NEW s \in Side, w'[s].pc = "delete"
  PROVE  First(w'[s].found).msg \in Posted' /\ \A n : n = First(w'[s].found).msg => ~ByUser(n)'
<1>1. BridgeInv' /\ Forth(f, s)'
  BY DEF DirInv
<1>2. w'[s].found \subseteq Found /\ w'[s].found # {}
  <2>1. w' \in [Side -> Local] /\ HandlerKnown(s, w'[s], job'[s], Posted')
    BY <1>1 DEF BridgeInv, TypeOK
  <2> QED BY <2>1 DEF HandlerKnown, Deleting, Local
<1>3. PICK o \in w'[s].found : o = First(w'[s].found)
  BY <1>2, FirstFound
<1>4. o.msg \in Posted' /\ ~ByUser(o.msg)'
  BY <1>1, <1>3 DEF BridgeInv, HandlerKnown, FoundKnown, Forth
<1> QED BY <1>3, <1>4

LEMMA MarksWorks ==
  ASSUME Smooth, NEW f, SyncInv(f), DirInv(f)', NEW t \in Side, Send(t) \/ Works(t), SrcKept
  PROVE  OwnMarks'
<1>0. OwnMarks /\ BridgeInv
  BY SyncKnown
<1>1. CASE Send(t) \/ Fetched(t) \/ Edited(t) \/ Resent(t) \/ Remove(t) \/ Removed(t) \/ Delete(t)
  <2>1. UNCHANGED <<sent, ignore>>
    BY <1>1 DEF Send, Fetched, Edited, Resent, Remove, Removed, Delete, Vanish, queueVars
  <2> QED BY <1>0, <2>1, MarksStay
<1>2. CASE EditFalls(t)
  <2>1. w[t].pc \in Editing
    BY <1>2 DEF EditFalls, Editing, Rewrite
  <2>2. Target(t).msg \in Posted /\ ~ByUser(Target(t).msg)
    <3>1. PICK o : o = Target(t)
      OBVIOUS
    <3>2. o \in w[t].found
      BY <2>1, <3>1, TargetLive
    <3> QED BY <3>1, <3>2, FoundRow
  <2>3. sent' = sent /\ ignore' = ignore \cup {Target(t).msg}
    BY <1>2 DEF EditFalls, Suppress
  <2> QED BY <1>0, <2>2, <2>3, MarksStay
<1>3. CASE Record(t)
  <2>1. sent' = sent \cup Range(w[t].made) /\ ignore' = ignore
    BY <1>3 DEF Record, Mark
  <2> QED BY <1>0, <2>1, MadePosted, MarksStay
<1>4. CASE Replace(t)
  <2>1. PICK m : m = [chat |-> Target(t).msg.chat, id |-> w[t].made[1].id]
    OBVIOUS
  <2>2. m = w[t].made[1] /\ 1 \in DOMAIN w[t].made /\ sent' = sent \cup {m}
    BY <1>0, <1>4, <2>1, ReplaceTable
  <2>3. m \in Range(w[t].made)
    BY <2>2 DEF Range
  <2>4. ignore' = ignore
    BY <1>4 DEF Replace
  <2> QED BY <1>0, <2>2, <2>3, <2>4, MadePosted, MarksStay
<1>5. CASE Unmaps(t) /\ (Deleted(t) \/ DeleteFalls(t))
  <2>1. PICK ign : ign \subseteq ignore /\ Unmap(t, ign)
    BY <1>5 DEF Deleted, DeleteFalls
  <2>2. w[t].pc \in Deleting /\ ign \subseteq Msg
    BY <1>0, <1>5, <2>1, InvFacts DEF Unmaps
  <2>3. Marks(t, w'[t], ign) /\ UNCHANGED <<posts, sent>>
    BY <1>0, <2>1, <2>2, UnmapFacts DEF Unmap
  <2>4. CASE w'[t].pc = "delete"
    <3>1. First(w'[t].found).msg \in Posted /\ ~ByUser(First(w'[t].found).msg)
      BY <2>3, <2>4, AimsAtCopy, SamePosts DEF ByUser
    <3> QED BY <1>0, <2>1, <2>3, <3>1, MarksStay DEF Marks
  <2>5. CASE w'[t].pc # "delete"
    BY <1>0, <2>1, <2>3, <2>5, MarksStay DEF Marks
  <2> QED BY <2>4, <2>5
<1> QED BY <1>1, <1>2, <1>3, <1>4, <1>5 DEF Works

-----------------------------------------------------------------------------
\* Steps that leave the rows alone.
LEMMA TablesStay ==
  ASSUME NEW f, SyncInv(f), SrcKept, UNCHANGED rows, fps' \subseteq fps,
         \A m \in sent' \cup ignore' : m \in sent \cup ignore \/ (m \in Posted /\ ~ByUser(m)),
         \A r \in rows : At(r.dst)' = At(r.dst),
         \A s \in Side : Emptied(s) => w'[s] = w[s]
  PROVE  OwnMarks' /\ PrintsInto(f)' /\ OneEach' /\ DstLive'
<1>0. OwnMarks /\ PrintsInto(f) /\ OneEach /\ DstLive
  BY SyncKnown
<1>1. OwnMarks'
  BY <1>0, MarksStay
<1>2. PrintsInto(f)' /\ OneEach'
  BY <1>0 DEF PrintsInto, OneEach, Into
<1>3. \A s \in Side : Emptied(s) => Emptied(s)' /\ Target(s)' = Target(s)
  BY DEF Emptied, Target
<1>4. DstLive'
  BY <1>0, <1>3 DEF DstLive, Ending, Live
<1> QED BY <1>1, <1>2, <1>4

LEMMA WorkingQuiet ==
  ASSUME Smooth, NEW f, SyncInv(f), NEW s \in Side, Aged, SrcKept, UNCHANGED <<mode, rows>>,
         w'[s] = w[s], job'[s] = job[s], \A n \in Posted : ~ByUser(n) => At(n)' = At(n)
  PROVE  Working(s)'
<1>0. Working(s) /\ Source(s)' = Source(s)
  BY SyncKnown DEF Source
<1>1. w[s].pc = "send" => \A p \in w[s].todo : ~Served(Source(s).msg, p)'
  BY <1>0 DEF Working, Served
<1>2. \A o \in w[s].found : HasRow(o)'
  BY <1>0 DEF Working, HasRow
<1>3. \A n \in Range(w[s].made) :
        Live(n)' /\ At(n)'.txt = At(n).txt /\ \A r \in rows' : r.dst # n
  BY <1>0, MadePosted DEF Working, Live
<1> QED BY <1>1, <1>2, <1>3, WorkingStays

LEMMA SyncedQuiet ==
  ASSUME Smooth, NEW f, SyncInv(f), NEW s \in Side, NEW m, Synced(f, s, m),
         Alike(m, Line(s), Line(s)'), At(m)' = At(m), UNCHANGED rows,
         w'[s] = w[s], job'[s] = job[s], \A n \in Posted : ~ByUser(n) => At(n)' = At(n)
  PROVE  Synced(f, s, m)'
<1>1. Untouched(m) /\ Source(s)' = Source(s)
  BY DEF Untouched, Source
<1>2. \A r \in rows : At(r.dst)' = At(r.dst)
  BY RowSides
<1>3. \A r : /\ Forgetting(s, m, r) => Forgetting(s, m, r)'
             /\ Renewing(s, r) => Renewing(s, r)'
  BY DEF Forgetting, Renewing, ToServe
<1>4. \A p \in PairId : Sending(s, m, p) => Sending(s, m, p)'
  BY <1>1 DEF Sending
<1> QED BY <1>1, <1>2, <1>3, <1>4, SyncedStays

LEMMA StepSync ==
  ASSUME Smooth, NEW f, SyncInv(f), [Next]_vars, UNCHANGED mode,
         OwnMarks', PrintsInto(f)', OneEach', DstLive',
         \A s \in Side : Working(s)' /\ \A m \in Posted' :
           ByUser(m)' /\ SideOf(m.chat) = s => Synced(f, s, m)'
  PROVE  SyncInv(f)'
<1>0. DirInv(f) /\ TrackInv /\ mode = f
  BY SyncKnown
<1>1. DirInv(f)'
  BY <1>0, StepDir DEF Smooth
<1>2. TrackInv'
  BY <1>0, StepTrack, ForthFinds DEF Smooth
<1>3. \A s \in Side : \A m \in Originals(s)' : Synced(f, s, m)'
  BY DEF Originals
<1> QED BY <1>0, <1>1, <1>2, <1>3 DEF SyncInv

LEMMA StillSync ==
  ASSUME Smooth, NEW f, SyncInv(f), [Next]_vars, Still
  PROVE  SyncInv(f)'
<1>0. BridgeInv /\ Aged /\ SrcKept
  BY SyncKnown, StepAges
<1>1. /\ \A n : At(n)' = At(n) /\ (ByUser(n)' <=> ByUser(n))
      /\ Posted' = Posted /\ UNCHANGED <<sent, ignore, rows, w, job, mode, q, stream>>
  BY SamePosts DEF Still, queueVars, ByUser
<1>2. OwnMarks' /\ PrintsInto(f)' /\ OneEach' /\ DstLive'
  BY <1>0, <1>1, TablesStay DEF Still
<1>3. \A s \in Side : Working(s)'
  BY <1>0, <1>1, WorkingQuiet
<1>4. ASSUME NEW s \in Side, NEW m \in Originals(s) PROVE Synced(f, s, m)'
  <2>1. Alike(m, Line(s), Line(s)')
    BY <1>0, <1>1, LineAlike, InvFacts
  <2> QED BY <1>1, <1>4, <2>1, OriginalFacts, SyncedQuiet
<1> QED BY <1>1, <1>2, <1>3, <1>4, StepSync DEF Originals

-----------------------------------------------------------------------------
\* The users.
LEMMA LineGrows ==
  ASSUME BridgeInv, UNCHANGED q, NEW s \in Side, NEW e \in Job, Emit(s, e)
  PROVE  Line(s) \in Seq(Job) /\ Line(s)' = Append(Line(s), e)
<1>1. q[s] \in Seq(Job) /\ stream[s] \in Seq(Job)
  BY InvFacts DEF QueueTypeOK
<1>2. Line(s)' = q[s] \o Append(stream[s], e)
  BY InvFacts DEF Line, Emit, QueueTypeOK
<1>3. q[s] \o Append(stream[s], e) = Append(q[s] \o stream[s], e)
  <2>1. \A a, b \in Seq(Job) : a \o Append(b, e) = Append(a \o b, e)
    <3> TAKE a, b \in Seq(Job)
    <3> QED OBVIOUS
  <2> QED BY <1>1, <2>1
<1> QED BY <1>1, <1>2, <1>3 DEF Line

LEMMA NewConcerns ==
  ASSUME BridgeInv, NEW s \in Side, NEW m, m \notin Posted
  PROVE  /\ ~Occurs(Line(s), Concerns(m)) /\ job[s] \notin Concerns(m)
         /\ \A r \in rows : r.src # m
<1>1. q[s] \in Seq(HomeJob(s, Posted)) /\ stream[s] \in Seq(HomeJob(s, Posted))
      /\ job[s] \in HomeJob(s, Posted) \cup {NoJob}
  BY DEF BridgeInv, JobsKnown
<1>2. \A j \in HomeJob(s, Posted) : j \notin Concerns(m)
  BY DEF HomeJob, Concerns
<1>3. Line(s) \in Seq(HomeJob(s, Posted))
  BY <1>1 DEF Line
<1>4. job[s] \notin Concerns(m)
  BY <1>1, <1>2, JobSorts
<1>5. \A r \in rows : r.src # m
  BY DEF BridgeInv, RowsKnown
<1> QED BY <1>2, <1>3, <1>4, <1>5 DEF Occurs

LEMMA PostSync ==
  ASSUME Smooth, NEW f, SyncInv(f), [Next]_vars, NEW c \in Chat, NEW t \in Text, UserPost(c, t)
  PROVE  SyncInv(f)'
<1> DEFINE p == [st |-> "live", txt |-> t, src |-> NoMsg]
           side == SideOf(c)
<1>0. BridgeInv /\ Aged /\ SrcKept /\ QueueTypeOK /\ PostsTyped
  BY SyncKnown, StepAges, InvFacts
<1>1. PICK m : m = [chat |-> c, id |-> Len(posts[c]) + 1]
  OBVIOUS
<1>2. /\ m \in Msg /\ m \notin Posted /\ Posted' = Posted \cup {m} /\ At(m)' = p
      /\ \A n \in Posted : At(n)' = At(n)
  <2>1. p \in PostRec
    BY DEF PostRec
  <2>2. /\ Len(posts[c]) < MaxId
        /\ posts' = [posts EXCEPT ![c] = Append(@, p)]
    BY DEF UserPost
  <2> HIDE DEF p
  <2> QED BY <1>0, <1>1, <2>1, <2>2, Appended
<1>3. /\ UNCHANGED <<q, job, sent, ignore, rows, w, mode, fps>> /\ Emit(side, NewEvent(m, t))
      /\ side \in Side /\ SideOf(m.chat) = side
  BY <1>1, SideOfType DEF UserPost, dbVars
<1>4. OwnMarks' /\ PrintsInto(f)' /\ OneEach' /\ DstLive'
  BY <1>0, <1>2, <1>3, RowSides, TablesStay
<1>5. \A s \in Side : Working(s)'
  BY <1>0, <1>2, <1>3, WorkingQuiet
<1>6. ASSUME NEW s \in Side, NEW n \in Originals(s) PROVE Synced(f, s, n)'
  <2>1. n \in Posted /\ n # m /\ Synced(f, s, n)
    BY <1>2, <1>6, OriginalFacts
  <2>2. NewEvent(m, t) \in Job /\ NewEvent(m, t) \notin Concerns(n)
    BY <1>2, <2>1, ReportFacts
  <2>3. Alike(n, Line(s), Line(s)')
    BY <1>0, <1>3, <2>2, EventAlike
  <2> QED BY <1>2, <1>3, <2>1, <2>3, SyncedQuiet
<1>7. Synced(f, side, m)'
  <2> DEFINE a == Line(side)
             e == NewEvent(m, t)
  <2>1. e \in Job /\ e \in News(m) /\ e.items[1].txt = t
    BY <1>2, ReportFacts
  <2>2. a \in Seq(Job) /\ Line(side)' = Append(a, e)
    BY <1>0, <1>3, <2>1, LineGrows
  <2>3. ~Occurs(a, Concerns(m)) /\ job[side] \notin Concerns(m) /\ \A r \in rows : r.src # m
    BY <1>0, <1>2, <1>3, NewConcerns
  <2>4. e \in Versions(m) /\ e \notin Deletions(m) /\ job[side] \notin Deletions(m) /\ ~Occurs(a, Deletions(m))
    BY <2>1, <2>3, JobSorts DEF Occurs
  <2>5. Live(m)' /\ At(m)'.txt = t
    BY <1>2 DEF Live
  <2> HIDE DEF a, e
  <2>6. /\ Before(Append(a, e), News(m), Concerns(m)) /\ Before(Append(a, e), Concerns(m), Deletions(m))
        /\ Occurs(Append(a, e), News(m)) /\ Occurs(Append(a, e), Versions(m))
        /\ ~Occurs(Append(a, e), Deletions(m)) /\ Latest(Append(a, e), m, t)
    BY <2>1, <2>2, <2>3, <2>4, Extended
  <2>7. InOrder(side, m)'
    BY <1>3, <2>2, <2>3, <2>4, <2>6 DEF InOrder
  <2>8. Mirrored(f, side, m)' /\ Forgotten(side, m)' /\ UpToDate(side, m)'
    BY <2>2, <2>5, <2>6 DEF Mirrored, Forgotten, UpToDate
  <2> QED BY <2>7, <2>8 DEF Synced
<1>8. ASSUME NEW s \in Side, NEW n \in Posted', ByUser(n)', SideOf(n.chat) = s
      PROVE  Synced(f, s, n)'
  BY <1>2, <1>3, <1>6, <1>7, <1>8 DEF Originals, ByUser
<1> HIDE DEF p, side
<1> QED BY <1>3, <1>4, <1>5, <1>8, StepSync

\* A user changes a message m: what goes on for everything but m.
LEMMA TurnSync ==
  ASSUME Smooth, NEW f, SyncInv(f), [Next]_vars, NEW m \in Posted, ByUser(m),
         UNCHANGED <<q, job, sent, ignore, rows, w, mode, fps>>,
         Posted' = Posted, \A n \in Posted : n # m => At(n)' = At(n),
         NEW e \in Job, \A n : n # m => e \notin Concerns(n), Emit(SideOf(m.chat), e),
         Synced(f, SideOf(m.chat), m)'
  PROVE  SyncInv(f)'
<1>0. BridgeInv /\ Aged /\ SrcKept /\ QueueTypeOK /\ SideOf(m.chat) \in Side
  BY SyncKnown, StepAges, InvFacts, SideOfType
<1>1. \A n \in Posted : ~ByUser(n) => At(n)' = At(n)
  OBVIOUS
<1>2. OwnMarks' /\ PrintsInto(f)' /\ OneEach' /\ DstLive'
  BY <1>0, <1>1, RowSides, TablesStay
<1>3. \A s \in Side : Working(s)'
  BY <1>0, <1>1, WorkingQuiet
<1>4. ASSUME NEW s \in Side, NEW n \in Posted', ByUser(n)', SideOf(n.chat) = s
      PROVE  Synced(f, s, n)'
  <2>1. CASE n = m
    BY <1>4, <2>1
  <2>2. CASE n # m
    <3>1. n \in Originals(s) /\ At(n)' = At(n)
      BY <1>4, <2>2 DEF Originals, ByUser
    <3>2. Alike(n, Line(s), Line(s)')
      BY <1>0, <2>2, <1>4, EventAlike
    <3> QED BY <1>1, <3>1, <3>2, OriginalFacts, SyncedQuiet
  <2> QED BY <2>1, <2>2
<1> QED BY <1>2, <1>3, <1>4, StepSync

LEMMA EditSync ==
  ASSUME Smooth, NEW f, SyncInv(f), [Next]_vars, NEW m \in Msg, NEW t \in Text,
         ByUser(m), UserEdit(m, t)
  PROVE  SyncInv(f)'
<1> DEFINE s == SideOf(m.chat)
           a == Line(s)
           e == EditEvent(m, t)
<1>0. BridgeInv /\ s \in Side /\ m \in Posted /\ Live(m) /\ PostsTyped
  BY SyncKnown, InvFacts, SideOfType DEF UserEdit, MayTouch
<1>1. /\ Posted' = Posted /\ At(m)' = [At(m) EXCEPT !.txt = t]
      /\ \A n \in Posted : n # m => At(n)' = At(n)
  <2>1. [At(m) EXCEPT !.txt = t] \in PostRec
    BY <1>0, PostedFacts DEF PostRec
  <2> QED BY <1>0, <2>1, Changed DEF UserEdit
<1>2. UNCHANGED <<q, job, sent, ignore, rows, w, mode, fps>> /\ Emit(s, e)
  BY DEF UserEdit, dbVars
<1>3. /\ e \in Job /\ e \in Versions(m) /\ e.items[1].txt = t /\ e \notin News(m)
      /\ \A n : n # m => e \notin Concerns(n)
  BY ReportFacts
<1>4. a \in Seq(Job) /\ Line(s)' = Append(a, e)
  BY <1>0, <1>2, <1>3, LineGrows
<1>5. e \notin Deletions(m)
  BY <1>3, JobSorts
<1>6. Live(m)' /\ At(m)'.txt = t
  BY <1>0, <1>1, PostedFacts DEF Live, PostRec
<1>7. Synced(f, s, m)
  BY <1>0, OriginalFacts DEF Originals
<1>8. Synced(f, s, m)'
  <2> HIDE DEF a, e, s
  <2>1. /\ Before(a, News(m), Concerns(m)) /\ Before(a, Concerns(m), Deletions(m))
        /\ ~Occurs(a, Deletions(m))
    BY <1>0, <1>7 DEF Synced, InOrder, a
  <2>2. /\ Before(Append(a, e), News(m), Concerns(m)) /\ Before(Append(a, e), Concerns(m), Deletions(m))
        /\ Occurs(Append(a, e), News(m)) <=> Occurs(a, News(m))
        /\ Occurs(Append(a, e), Versions(m)) /\ ~Occurs(Append(a, e), Deletions(m))
        /\ Latest(Append(a, e), m, t)
    BY <1>3, <1>4, <1>5, <2>1, Extended
  <2>3. InOrder(s, m)'
    BY <1>0, <1>2, <1>4, <1>7, <2>2 DEF Synced, InOrder, a
  <2>4. Mirrored(f, s, m)'
    <3>1. \A p : /\ Served(m, p)' <=> Served(m, p)
                 /\ Sending(s, m, p)' <=> Sending(s, m, p)
      BY <1>2 DEF Served, Sending, Source
    <3>2. \A p : From(f, p)' = From(f, p)
      BY DEF From
    <3> QED BY <1>0, <1>4, <1>7, <2>2, <3>1, <3>2 DEF Synced, Mirrored, a
  <2>5. Forgotten(s, m)' /\ UpToDate(s, m)'
    BY <1>4, <1>6, <2>2 DEF Forgotten, UpToDate
  <2> QED BY <2>3, <2>4, <2>5 DEF Synced
<1> HIDE DEF a, e
<1> QED BY <1>0, <1>1, <1>2, <1>3, <1>8, TurnSync

LEMMA UserDeleteSync ==
  ASSUME Smooth, NEW f, SyncInv(f), [Next]_vars, NEW m \in Msg, ByUser(m), UserDelete(m)
  PROVE  SyncInv(f)'
<1> DEFINE s == SideOf(m.chat)
           a == Line(s)
           e == DeleteEvent(m)
<1>0. BridgeInv /\ s \in Side /\ m \in Posted /\ Live(m) /\ PostsTyped
  BY SyncKnown, InvFacts, SideOfType DEF UserDelete, MayTouch
<1>1. /\ Posted' = Posted /\ At(m)' = [At(m) EXCEPT !.st = "deleted"]
      /\ \A n \in Posted : n # m => At(n)' = At(n)
  <2>1. [At(m) EXCEPT !.st = "deleted"] \in PostRec
    BY <1>0, PostedFacts DEF PostRec
  <2> QED BY <1>0, <2>1, Changed DEF UserDelete
<1>2. UNCHANGED <<q, job, sent, ignore, rows, w, mode, fps>> /\ Emit(s, e)
  <2>1. ~(s = "bale" /\ BaleMode = "bot")
    BY DEF UserDelete, MayTouch, Smooth, SourcesOnly
  <2> QED BY <2>1 DEF UserDelete, dbVars
<1>3. e \in Job /\ e \in Deletions(m) /\ \A n : n # m => e \notin Concerns(n)
  BY DeletionFacts
<1>4. a \in Seq(Job) /\ Line(s)' = Append(a, e)
  BY <1>0, <1>2, <1>3, LineGrows
<1>5. e \notin Versions(m) /\ e \notin News(m)
  BY <1>3, JobSorts
<1>6. ~Live(m)' /\ At(m)'.txt = At(m).txt
  BY <1>0, <1>1, PostedFacts DEF Live, PostRec
<1>7. Synced(f, s, m)
  BY <1>0, OriginalFacts DEF Originals
<1>8. Synced(f, s, m)'
  <2> HIDE DEF a, e, s
  <2>1. /\ Before(a, News(m), Concerns(m)) /\ Before(a, Concerns(m), Deletions(m))
        /\ ~Occurs(a, Deletions(m)) /\ job[s] \notin Deletions(m)
        /\ Latest(a, m, At(m).txt)
    BY <1>0, <1>7 DEF Synced, InOrder, UpToDate, a
  <2>2. /\ Before(Append(a, e), News(m), Concerns(m)) /\ Before(Append(a, e), Concerns(m), Deletions(m))
        /\ Occurs(Append(a, e), News(m)) <=> Occurs(a, News(m))
        /\ Occurs(Append(a, e), Versions(m)) <=> Occurs(a, Versions(m))
        /\ Occurs(Append(a, e), Deletions(m))
        /\ Latest(Append(a, e), m, At(m).txt)
    BY <1>3, <1>4, <1>5, <2>1, Extended
  <2>3. InOrder(s, m)'
    BY <1>2, <1>4, <1>6, <1>7, <2>1, <2>2 DEF Synced, InOrder, a
  <2>4. Mirrored(f, s, m)' /\ Forgotten(s, m)'
    BY <1>4, <1>6, <2>2 DEF Mirrored, Forgotten
  <2>5. UpToDate(s, m)'
    <3>1. ASSUME NEW r \in rows PROVE At(r.dst)' = At(r.dst) /\ (Renewing(s, r)' <=> Renewing(s, r))
      BY <1>0, <1>1, <1>2, <3>1, RowSides DEF Renewing, ToServe
    <3>2. Source(s)' = Source(s)
      BY <1>2 DEF Source
    <3> QED BY <1>2, <1>4, <1>6, <1>7, <2>2, <3>1, <3>2 DEF Synced, UpToDate, a
  <2> QED BY <2>3, <2>4, <2>5 DEF Synced
<1> HIDE DEF a, e
<1> QED BY <1>0, <1>1, <1>2, <1>3, <1>8, TurnSync

\* Only sends make posts, and no handler makes one of a user.
LEMMA WorkMakes ==
  ASSUME Smooth, NEW f, SyncInv(f), NEW t \in Side, Send(t) \/ Works(t), NEW n \in Posted',
         n \notin Posted
  PROVE  ~ByUser(n)'
<1>0. BridgeInv
  BY SyncKnown
<1>1. PICK m : m = Target(t).msg
  OBVIOUS
<1>2. CASE Rewrite(t)
  BY <1>0, <1>1, <1>2, RewriteFacts
<1>3. CASE Remove(t) \/ Delete(t)
  <2>1. w[t].pc \in Editing \cup Deleting
    BY <1>3 DEF Remove, Delete, Editing, Deleting
  <2> QED BY <1>0, <1>1, <1>3, <2>1, VanishFacts DEF Remove, Delete
<1>4. CASE UNCHANGED posts
  BY <1>4, SamePosts
<1>5. CASE Send(t)
  <2>1. PICK c : c = [chat |-> SendChat(t), id |-> Len(posts[SendChat(t)]) + 1]
    OBVIOUS
  <2>2. Posted' = Posted \cup {c} /\ At(c)'.src = Source(t).msg
    BY <1>0, <1>5, <2>1, SendFacts
  <2>3. Source(t).msg \in Msg
    BY <1>0, <1>5, SourceFacts, InvFacts DEF Send, Editing
  <2> QED BY <2>2, <2>3, MsgAssumption DEF ByUser
<1>6. CASE Works(t)
  <2>1. CASE Edited(t) \/ EditFalls(t)
    BY <1>2, <1>4, <2>1 DEF Edited, EditFalls
  <2>2. CASE ~(Edited(t) \/ EditFalls(t))
    <3>1. ~(Remove(t) \/ Delete(t)) => UNCHANGED posts
      BY <1>6, <2>2 DEF Works, Fetched, Resent, Removed, Replace, Record, Unmaps, Unmap
    <3> QED BY <1>3, <1>4, <3>1
  <2> QED BY <2>1, <2>2
<1> QED BY <1>5, <1>6

\* The handlers.
LEMMA WorkSync ==
  ASSUME Smooth, NEW f, SyncInv(f), [Next]_vars, NEW t \in Side, Send(t) \/ Works(t)
  PROVE  SyncInv(f)'
<1>0. Aged /\ SrcKept /\ UNCHANGED mode
  BY SyncKnown, StepAges, WorkKinds
<1>1. DirInv(f)' /\ BridgeInv'
  BY SyncKnown, StepDir DEF Smooth, DirInv
<1>2. OwnMarks' /\ PrintsInto(f)' /\ OneEach' /\ DstLive'
  BY <1>0, <1>1, MarksWorks, PrintsWorks, OneEachWorks, LiveWorks
<1>3. \A s \in Side : Working(s)'
  BY <1>0, <1>1, WorkingWorks
<1>4. ASSUME NEW s \in Side, NEW n \in Posted', ByUser(n)', SideOf(n.chat) = s
      PROVE  n \in Originals(s)
  <2>1. n \in Posted
    BY <1>4, WorkMakes
  <2> QED BY <1>0, <1>4, <2>1 DEF Originals, SrcKept, ByUser
<1> QED BY <1>0, <1>2, <1>3, <1>4, SyncedWorks, StepSync

\* An entry point drops only what the bridge did itself.
LEMMA IntakeAlike ==
  ASSUME Smooth, NEW f, SyncInv(f), NEW s \in Side, Intake(s), NEW m \in Originals(s)
  PROVE  Alike(m, Line(s), Line(s)')
<1> DEFINE a == q[s]
           b == stream[s]
<1>0. BridgeInv /\ OwnMarks /\ ByUser(m) /\ m \in Posted
  BY SyncKnown, OriginalFacts
<1>1. a \in Seq(Job) /\ b \in Seq(Job) /\ q \in [Side -> Seq(Job)]
  BY <1>0, InvFacts DEF QueueTypeOK
<1>2. /\ b # <<>> /\ Head(b) \in Job /\ stream' = [stream EXCEPT ![s] = Tail(b)]
      /\ Head(b).kind \in {"new", "edit", "delete"}
  <2>1. b # <<>> /\ stream' = [stream EXCEPT ![s] = Tail(b)]
    BY <1>0, IntakeFacts DEF Intake
  <2> QED BY <1>1, <2>1, JobKinds
<1>3. stream'[s] = Tail(b)
  BY <1>0, <1>2, InvFacts DEF QueueTypeOK
<1>4. m \notin sent /\ m \notin ignore
  BY <1>0 DEF OwnMarks
<1>5. ASSUME UNCHANGED q, Head(b) \notin Concerns(m) PROVE Alike(m, Line(s), Line(s)')
  BY <1>1, <1>2, <1>3, <1>5, AlikeWithout DEF Line
<1>6. ASSUME NEW e \in Job, Put(s, e), Kin(m, e, Head(b)) PROVE Alike(m, Line(s), Line(s)')
  <2>1. q'[s] = Append(a, e)
    BY <1>1, <1>6 DEF Put
  <2> QED BY <1>1, <1>2, <1>3, <1>6, <2>1, AlikePut DEF Line
<1>7. CASE OnNew(s) \/ OnEdit(s)
  <2>1. Head(b).kind \in {"new", "edit"} /\ Head(b).items[1] \in Item
    BY <1>2, <1>7, FirstItem DEF OnNew, OnEdit, Arrives
  <2>2. Head(b).items[1].grp = NoGroup
    BY <2>1, SinglesAssumption DEF Item
  <2>3. \/ UNCHANGED q /\ Head(b).items[1].msg \in sent
        \/ Put(s, Head(b))
    BY <1>7, <2>2 DEF OnNew, OnEdit
  <2>4. Head(b).items[1].msg \in sent => Head(b) \notin Concerns(m)
    BY <1>4, <2>1 DEF Concerns, About
  <2> QED BY <1>2, <1>5, <1>6, <2>3, <2>4 DEF Kin
<1>8. CASE OnDelete(s)
  <2> DEFINE ids == Head(b).ids \ ignore
             e == [kind |-> "delete", ids |-> ids]
  <2>1. Head(b).kind = "delete" /\ Head(b).ids \subseteq Msg
    BY <1>2, <1>8, JobKinds DEF OnDelete, Arrives, DeleteJob
  <2>2. IF ids = {} THEN UNCHANGED q ELSE Put(s, e)
    BY <1>8 DEF OnDelete
  <2>3. m \in ids <=> m \in Head(b).ids
    BY <1>4
  <2>4. e \in Job /\ Kin(m, e, Head(b))
    <3>1. e \in Job
      BY <2>1 DEF Job, DeleteJob
    <3>2. CASE m \in ids
      BY <1>2, <2>1, <2>3, <3>1, <3>2 DEF Kin, Deletions
    <3>3. CASE m \notin ids
      BY <1>2, <2>1, <2>3, <3>1, <3>3 DEF Kin, Concerns, About
    <3> QED BY <3>1, <3>2, <3>3
  <2>5. ids = {} => Head(b) \notin Concerns(m)
    BY <2>1, <2>3 DEF Concerns, About
  <2> HIDE DEF ids, e
  <2> QED BY <1>5, <1>6, <2>2, <2>4, <2>5
<1> QED BY <1>7, <1>8 DEF Intake

LEMMA IntakeSync ==
  ASSUME Smooth, NEW f, SyncInv(f), [Next]_vars, NEW t \in Side, Intake(t)
  PROVE  SyncInv(f)'
<1>0. BridgeInv /\ Aged /\ SrcKept
  BY SyncKnown, StepAges
<1>1. /\ \A n : At(n)' = At(n) /\ (ByUser(n)' <=> ByUser(n))
      /\ Posted' = Posted /\ UNCHANGED <<rows, w, job, mode, fps>>
  <2>1. UNCHANGED <<posts, rows, w, job, mode, fps>>
    BY <1>0, IntakeFacts DEF Intake, dbVars
  <2> QED BY <2>1, SamePosts DEF ByUser
<1>2. OwnMarks' /\ PrintsInto(f)' /\ OneEach' /\ DstLive'
  <2>1. sent' \subseteq sent /\ ignore' \subseteq ignore
    BY DEF Intake, OnNew, OnEdit, OnDelete
  <2> QED BY <1>0, <1>1, <2>1, TablesStay
<1>3. \A s \in Side : Working(s)'
  BY <1>0, <1>1, WorkingQuiet
<1>4. ASSUME NEW s \in Side, NEW m \in Originals(s) PROVE Synced(f, s, m)'
  <2>1. Alike(m, Line(s), Line(s)')
    <3>1. CASE s = t
      BY <1>4, <3>1, IntakeAlike
    <3>2. CASE s # t
      <4>1. stream'[s] = stream[s] /\ q'[s] = q[s]
        BY <1>0, <3>2, InvFacts DEF Intake, OnNew, OnEdit, OnDelete, Pop, Put, QueueTypeOK
      <4> QED BY <4>1 DEF Line, Alike
    <3> QED BY <3>1, <3>2
  <2> QED BY <1>1, <1>4, <2>1, OriginalFacts, SyncedQuiet
<1> QED BY <1>1, <1>2, <1>3, <1>4, StepSync DEF Originals

LEMMA ReturnSync ==
  ASSUME Smooth, NEW f, SyncInv(f), [Next]_vars, NEW t \in Side, Return(t)
  PROVE  SyncInv(f)'
<1>0. BridgeInv /\ Aged /\ SrcKept /\ w \in [Side -> Local] /\ QueueTypeOK
  BY SyncKnown, StepAges, InvFacts
<1>1. /\ \A n : At(n)' = At(n) /\ (ByUser(n)' <=> ByUser(n))
      /\ Posted' = Posted /\ UNCHANGED <<rows, mode, fps, q, stream, sent, ignore>>
  <2>1. UNCHANGED <<posts, rows, mode, fps, q, stream, sent, ignore>>
    BY DEF Return, Done, dbVars
  <2> QED BY <2>1, SamePosts DEF ByUser
<1>2. /\ w[t].pc = "done" /\ Others(t) /\ Rests(w'[t]) /\ w'[t].pc = "idle"
      /\ job'[t] = NoJob /\ \A s \in Side : s # t => job'[s] = job[s]
  <2>1. Stopped("idle") \in Local
    BY StoppedFacts DEF PC
  <2> HIDE DEF PC
  <2> QED BY <1>0, <2>1, BecomeFacts, StoppedRests DEF Return, Done, QueueTypeOK
<1>3. OwnMarks' /\ PrintsInto(f)' /\ OneEach' /\ DstLive'
  BY <1>0, <1>1, <1>2, TablesStay DEF Emptied, Others
<1>4. ASSUME NEW s \in Side PROVE Working(s)'
  <2>1. CASE s = t
    BY <1>2, <2>1, WorkingRests
  <2>2. CASE s # t
    BY <1>0, <1>1, <1>2, <1>4, <2>2, WorkingQuiet DEF Others
  <2> QED BY <2>1, <2>2
<1>5. ASSUME NEW s \in Side, NEW m \in Originals(s) PROVE Synced(f, s, m)'
  <2>0. Alike(m, Line(s), Line(s)') /\ Synced(f, s, m) /\ Untouched(m)
    BY <1>1, <1>5, OriginalFacts DEF Line, Alike, Untouched
  <2>1. CASE s = t
    <3>1. /\ \A p : ~Sending(s, m, p)
          /\ \A r : ~Forgetting(s, m, r) /\ ~Renewing(s, r)
      BY <1>2, <2>1 DEF Sending, Forgetting, Renewing, Editing, Deleting
    <3>2. job'[s] \notin Concerns(m)
      BY <1>2, <2>1, JobSorts
    <3> QED BY <1>1, <2>0, <3>1, <3>2, SyncedStays
  <2>2. CASE s # t
    BY <1>1, <1>2, <1>5, <2>0, <2>2, SyncedQuiet DEF Others
  <2> QED BY <2>1, <2>2
<1> QED BY <1>1, <1>3, <1>4, <1>5, StepSync DEF Originals

-----------------------------------------------------------------------------
\* A handler gets its next job.
Begins(s) == StartNew(s) \/ StartEdit(s) \/ StartDelete(s)
LEMMA BeginFacts ==
  ASSUME NEW f, SyncInv(f), NEW s \in Side, Begins(s)
  PROVE  /\ w[s].pc \in {"idle", "done"} /\ Others(s)
         /\ Line(s) \in Seq(Job) /\ Line(s) # <<>> /\ Line(s)' = Tail(Line(s))
         /\ job'[s] = Head(Line(s)) /\ Head(Line(s)) = Head(q[s])
         /\ Head(q[s]) \in Job /\ Head(q[s]) \in HomeJob(s, Posted)
         /\ \A r \in Side : r # s => job'[r] = job[r] /\ Line(r)' = Line(r)
         /\ UNCHANGED <<posts, mode, rows>> /\ sent' \subseteq sent /\ fps' \subseteq fps
<1>0. BridgeInv /\ Take(s)
  BY SyncKnown DEF Begins, StartNew, StartEdit, StartDelete, Starts
<1>1. /\ q[s] # <<>> /\ Head(q[s]) \in HomeJob(s, Posted) /\ Head(q[s]) \in Job
      /\ q' = [q EXCEPT ![s] = Tail(@)] /\ UNCHANGED stream
      /\ job'[s] = Head(q[s]) /\ \A r \in Side : r # s => job'[r] = job[r]
  BY <1>0, TakeFacts
<1>2. q \in [Side -> Seq(Job)] /\ stream \in [Side -> Seq(Job)]
  BY <1>0, InvFacts DEF QueueTypeOK
<1>3. /\ Line(s) \in Seq(Job) /\ Line(s) # <<>> /\ Line(s)' = Tail(Line(s))
      /\ Head(Line(s)) = Head(q[s])
  <2>1. Line(s)' = Tail(q[s]) \o stream[s]
    BY <1>1, <1>2 DEF Line
  <2>2. \A a, b \in Seq(Job) : a # <<>> =>
          /\ a \o b \in Seq(Job) /\ a \o b # <<>>
          /\ Tail(a \o b) = Tail(a) \o b /\ Head(a \o b) = Head(a)
    <3> TAKE a, b \in Seq(Job)
    <3> QED OBVIOUS
  <2> QED BY <1>1, <1>2, <2>1, <2>2 DEF Line
<1>4. \A r \in Side : r # s => Line(r)' = Line(r)
  BY <1>1, <1>2 DEF Line
<1>5. w[s].pc \in {"idle", "done"}
  <2>1. job[s] = NoJob /\ w[s].pc \in PC
    BY <1>0, InvFacts DEF Take, Dequeue, Local
  <2>2. w[s].pc # "send" /\ w[s].pc \notin Editing /\ w[s].pc \notin Deleting
    BY <1>0, <2>1 DEF BridgeInv, HandlerKnown, NoJob
  <2> QED BY <2>1, <2>2 DEF PC, Editing, Deleting
<1>6. Others(s)
  <2>1. CASE StartNew(s) \/ StartEdit(s)
    <3>1. \E l : Become(s, l)
      BY <2>1 DEF StartNew, StartEdit, EditFrom
    <3> QED BY <3>1, <1>0, InvFacts DEF Become, Others
  <2>2. CASE StartDelete(s)
    <3>1. \E l : Become(s, l)
      BY <2>2 DEF StartDelete, DeleteFrom
    <3> QED BY <3>1, <1>0, InvFacts DEF Become, Others
  <2> QED BY <2>1, <2>2 DEF Begins
<1>7. UNCHANGED <<posts, mode, rows>> /\ sent' \subseteq sent /\ fps' \subseteq fps
  <2>1. CASE StartNew(s)
    BY <2>1 DEF StartNew
  <2>2. CASE StartEdit(s) \/ StartDelete(s)
    BY <2>2 DEF StartEdit, StartDelete, dbVars
  <2> QED BY <2>1, <2>2 DEF Begins
<1> QED BY <1>1, <1>3, <1>4, <1>5, <1>6, <1>7

\* What it begins with.
LEMMA BeginsNew ==
  ASSUME Smooth, NEW f, SyncInv(f), NEW s \in Side, StartNew(s), NEW m, m = Head(q[s]).items[1].msg
  PROVE  /\ Head(q[s]).kind = "new" /\ m \in Posted /\ SideOf(m.chat) = s
         /\ \/ w'[s].pc = "done" /\ Rests(w'[s])
            \/ SendsTo(w'[s], PairsFor(s, m.chat))
         /\ ByUser(m) => \A p \in PairId :
              From(f, p) = m.chat => p \in PairsFor(s, m.chat) /\ SendsTo(w'[s], PairsFor(s, m.chat))
<1> DEFINE t == Head(q[s]).items[1].txt
           P == PairsFor(s, m.chat)
           prints == IF s = "bale" THEN Fingerprints(fps, m.chat, t) ELSE {}
<1>0. /\ BridgeInv /\ f \in InitModes /\ f \in [PairId -> Mode] /\ mode = f /\ OwnMarks
      /\ PrintsInto(f) /\ w \in [Side -> Local]
  BY SyncKnown, InvFacts
<1>1. Head(q[s]).kind = "new"
  BY DEF StartNew, Starts
<1>2. m \in Posted /\ SideOf(m.chat) = s
  BY <1>1, BeginFacts DEF Begins, HomeJob, About
<1>3. P \subseteq PairId
  BY DEF PairsFor
<1>4. \/ (m \in sent \/ prints # {}) /\ Become(s, Stopped("done"))
      \/ Become(s, IF P = {} THEN Stopped("done") ELSE [Stopped("send") EXCEPT !.todo = P])
  <2> HIDE DEF P
  <2>1. prints = IF s = "bale" THEN Fingerprints(fps, m.chat, t) ELSE {}
    OBVIOUS
  <2>2. PairsFor(s, Head(q[s]).items[1].msg.chat) = P
    BY DEF P
  <2> HIDE DEF prints
  <2> QED BY <2>1, <2>2 DEF StartNew
<1>5. Become(s, Stopped("done")) => w'[s].pc = "done" /\ Rests(w'[s])
  <2>1. Stopped("done") \in Local
    BY StoppedFacts DEF PC
  <2> QED BY <1>0, <2>1, BecomeFacts, StoppedRests
<1>6. Become(s, IF P = {} THEN Stopped("done") ELSE [Stopped("send") EXCEPT !.todo = P])
        => SendsTo(w'[s], P)
  <2> HIDE DEF P
  <2> QED BY <1>0, <1>3, SendFrom
<1>7. ASSUME ByUser(m), NEW p \in PairId, From(f, p) = m.chat
      PROVE  p \in P /\ m \notin sent /\ prints = {}
  <2>1. m \notin sent
    BY <1>0, <1>7 DEF OwnMarks
  <2>2. prints = {}
    BY <1>0, <1>7 DEF Fingerprints, PrintsInto, Smooth, OneDirection
  <2>3. f[p] # "both" /\ f[p] \in Mode /\ mode[p] = f[p]
    BY <1>0 DEF Smooth, OneDirection
  <2>4. Goes(f, s, p)
    BY <1>0, <1>2, <1>7, GoesFacts DEF Smooth
  <2>5. p \in P
    BY <1>7, <2>3, <2>4 DEF Goes, Against, From, PairsFor, Mode, Side
  <2> QED BY <2>1, <2>2, <2>5
<1> QED BY <1>1, <1>2, <1>4, <1>5, <1>6, <1>7

LEMMA BeginsEdit ==
  ASSUME Smooth, NEW f, SyncInv(f), NEW s \in Side, StartEdit(s), NEW m, m = Head(q[s]).items[1].msg
  PROVE  /\ Head(q[s]).kind = "edit" /\ m \in Posted /\ SideOf(m.chat) = s
         /\ IF ByUser(m) THEN Serves(s, w'[s], OtherSide(rows, m))
                         ELSE w'[s].pc = "done" /\ Rests(w'[s])
<1> DEFINE F == OtherSide(rows, m)
<1>0. /\ BridgeInv /\ w \in [Side -> Local] /\ rows \subseteq Row /\ RowsKnown(rows, lastRow, Posted)
  BY SyncKnown, InvFacts
<1>1. Head(q[s]).kind = "edit" /\ EditFrom(s, F)
  BY DEF StartEdit, Starts
<1>2. m \in Posted /\ SideOf(m.chat) = s
  BY <1>1, BeginFacts DEF Begins, HomeJob, About
<1>3. F \subseteq Found /\ FoundKnown(F, Posted)
  BY <1>0, OtherSideFacts
<1>4. CASE ByUser(m)
  <2>1. m \in Originals(s)
    BY <1>2, <1>4 DEF Originals
  <2>2. \A o \in F : Applies(s, o)
    BY <2>1, QueryAll
  <2> HIDE DEF F
  <2>3. Serves(s, w'[s], F)
    BY <1>0, <1>1, <1>3, <2>2, EditFromAll
  <2> QED BY <1>1, <1>2, <1>4, <2>3 DEF F
<1>5. CASE ~ByUser(m)
  <2>1. \A o \in F : ~Applies(s, o)
    BY <1>2, <1>5, QueryNone
  <2> HIDE DEF F
  <2>2. EditsOf(s, w'[s], F)
    BY <1>0, <1>1, <1>3, EditFromFacts
  <2>3. \A l : l.found # {} /\ l.found \subseteq F => First(l.found) \in F
    BY <1>3, FirstFound
  <2>4. w'[s].pc = "done" /\ Rests(w'[s])
    BY <2>1, <2>2, <2>3 DEF EditsOf
  <2> QED BY <1>1, <1>2, <1>5, <2>4
<1> QED BY <1>4, <1>5

LEMMA BeginsDelete ==
  ASSUME Smooth, NEW f, SyncInv(f), NEW s \in Side, StartDelete(s)
  PROVE  /\ Head(q[s]).kind = "delete"
         /\ \A m \in Head(q[s]).ids : m \in Posted /\ SideOf(m.chat) = s /\ (ByUser(m) => ~Live(m))
         /\ Erasing(s, {}, Head(q[s]).ids, rows)
<1>1. Head(q[s]).kind = "delete" /\ DeleteFrom(s, {}, Head(q[s]).ids, rows, ignore)
  BY DEF StartDelete, Starts
<1>2. ASSUME NEW m \in Head(q[s]).ids
      PROVE  m \in Posted /\ SideOf(m.chat) = s /\ (ByUser(m) => ~Live(m))
  <2>1. m \in Posted /\ SideOf(m.chat) = s
    BY <1>1, BeginFacts DEF Begins, HomeJob, About
  <2>2. ASSUME ByUser(m) PROVE ~Live(m)
    <3>1. InOrder(s, m)
      BY <2>1, <2>2, OriginalFacts DEF Originals, Synced
    <3>2. Line(s) \in Seq(Job) /\ Line(s) # <<>> /\ Head(Line(s)) \in Deletions(m)
      BY <1>1, <1>2, BeginFacts DEF Begins, Deletions
    <3>3. Occurs(Line(s), Deletions(m))
      BY <3>2, TakenFrom
    <3> QED BY <3>1, <3>3 DEF InOrder
  <2> QED BY <2>1, <2>2
<1>3. {} \subseteq w[s].found /\ rows \subseteq rows
  OBVIOUS
<1>4. Erasing(s, {}, Head(q[s]).ids, rows)
  BY <1>1, <1>2, <1>3, DeletesAll
<1> QED BY <1>1, <1>2, <1>4

LEMMA WorkingBegins ==
  ASSUME Smooth, NEW f, SyncInv(f), NEW s \in Side, Begins(s)
  PROVE  Working(s)'
<1> DEFINE h == Head(q[s])
           L == Line(s)
<1>0. BridgeInv /\ UNCHANGED <<posts, mode, rows>>
  BY SyncKnown, BeginFacts
<1>1. L \in Seq(Job) /\ L # <<>> /\ Head(L) = h /\ job'[s] = h /\ h \in Job
  BY BeginFacts
<1>2. CASE Rests(w'[s]) /\ w'[s].pc = "done"
  BY <1>2, WorkingRests
<1>3. CASE StartNew(s)
  <2>1. PICK m : m = h.items[1].msg
    OBVIOUS
  <2>2. h.kind = "new" /\ m \in Posted /\ SideOf(m.chat) = s
    BY <1>3, <2>1, BeginsNew
  <2>3. CASE SendsTo(w'[s], PairsFor(s, m.chat)) /\ w'[s].pc # "done"
    <3>1. \A r \in rows : r.src # m
      <4>1. CASE ByUser(m)
        <5>1. InOrder(s, m)
          BY <2>2, <4>1, OriginalFacts DEF Originals, Synced
        <5>2. h \in News(m)
          BY <1>1, <2>1, <2>2 DEF News
        <5> HIDE DEF L, h
        <5>3. Occurs(L, News(m))
          BY <1>1, <5>2, TakenFrom
        <5> QED BY <5>1, <5>3 DEF InOrder, L
      <4>2. CASE ~ByUser(m)
        BY <4>2, RowSides
      <4> QED BY <4>1, <4>2
    <3>2. Source(s)'.msg = m
      BY <1>1, <2>1 DEF Source
    <3>3. \A p : ~Served(Source(s).msg, p)'
      BY <1>0, <3>1, <3>2 DEF Served
    <3>4. w'[s].pc \notin Deleting /\ w'[s].found = {} /\ w'[s].mids = {} /\ Range(w'[s].made) = {}
      BY <2>3 DEF SendsTo, Range, Deleting
    <3> QED BY <3>3, <3>4 DEF Working
  <2> QED BY <1>2, <1>3, <2>1, <2>3, BeginsNew DEF SendsTo
<1>4. CASE StartEdit(s)
  <2>1. PICK m : m = h.items[1].msg
    OBVIOUS
  <2>2. CASE ByUser(m)
    <3>1. Serves(s, w'[s], OtherSide(rows, m)) /\ m \in Originals(s)
      BY <1>4, <2>1, <2>2, BeginsEdit DEF Originals
    <3>2. \A o \in w'[s].found : Applies(s, o)' /\ HasRow(o)'
      BY <1>0, <3>1, QueryAll DEF Serves, Applies, HasRow
    <3>3. w'[s].pc \notin Deleting /\ w'[s].pc # "send" /\ w'[s].mids = {} /\ Range(w'[s].made) = {}
      BY <3>1 DEF Serves, Deleting, Range
    <3> QED BY <3>2, <3>3 DEF Working
  <2> QED BY <1>2, <1>4, <2>1, <2>2, BeginsEdit
<1>5. CASE StartDelete(s)
  <2>1. /\ \A m \in h.ids : m \in Posted /\ SideOf(m.chat) = s /\ (ByUser(m) => ~Live(m))
        /\ Erasing(s, {}, h.ids, rows)
    BY <1>5, BeginsDelete
  <2>2. PICK mids : mids = h.ids
    OBVIOUS
  <2>3. PICK table : table = rows
    OBVIOUS
  <2>4. ASSUME NEW m \in mids, Erases(w'[s], OtherSide(table, m), mids \ {m}),
               \A o \in OtherSide(table, m) : Applies(s, o)
        PROVE  Working(s)'
    <3>1. \A n \in mids : n \in Posted /\ SideOf(n.chat) = s /\ (ByUser(n) => ~Live(n))
      BY <2>1, <2>2
    <3>2. table \subseteq rows /\ rows' = table
      BY <1>0, <2>3
    <3> HIDE DEF h, L
    <3> QED BY <1>0, <2>4, <3>1, <3>2, WorkingLooksUp
  <2> QED BY <1>2, <2>1, <2>2, <2>3, <2>4 DEF Erasing
<1> QED BY <1>3, <1>4, <1>5 DEF Begins

LEMMA MarksBegins ==
  ASSUME Smooth, NEW f, SyncInv(f), DirInv(f)', NEW s \in Side, Begins(s)
  PROVE  \A m \in sent' \cup ignore' : m \in sent \cup ignore \/ (m \in Posted /\ ~ByUser(m))
<1>0. sent' \subseteq sent /\ UNCHANGED posts
  BY BeginFacts
<1>1. CASE StartNew(s) \/ StartEdit(s)
  BY <1>0, <1>1 DEF StartNew, StartEdit
<1>2. CASE StartDelete(s)
  <2>1. BridgeInv /\ w \in [Side -> Local] /\ rows \subseteq Row /\ RowsKnown(rows, lastRow, Posted)
    BY SyncKnown, InvFacts
  <2>2. PICK ids : ids = Head(q[s]).ids
    OBVIOUS
  <2>3. ids \subseteq Msg /\ DeleteFrom(s, {}, ids, rows, ignore)
    BY <1>2, <2>1, <2>2, BeginsDelete, InvFacts DEF StartDelete
  <2>4. {} \subseteq Found /\ FoundKnown({}, Posted)
    BY DEF FoundKnown
  <2>5. Marks(s, w'[s], ignore)
    BY <2>1, <2>3, <2>4, DeleteFromFacts
  <2>6. w'[s].pc = "delete" => First(w'[s].found).msg \in Posted /\ ~ByUser(First(w'[s].found).msg)
    BY <1>0, AimsAtCopy, SamePosts DEF ByUser
  <2> QED BY <1>0, <2>5, <2>6 DEF Marks
<1> QED BY <1>1, <1>2 DEF Begins

\* What the job concerns, it serves.
LEMMA SyncedNew ==
  ASSUME Smooth, NEW f, SyncInv(f), NEW s \in Side, StartNew(s), NEW m \in Originals(s),
         Head(q[s]) \in Concerns(m)
  PROVE  Synced(f, s, m)'
<1> DEFINE L == Line(s)
           h == Head(q[s])
<1>0. /\ m \in Posted /\ ByUser(m) /\ SideOf(m.chat) = s /\ Synced(f, s, m) /\ Begins(s)
      /\ UNCHANGED <<posts, rows>> /\ \A x : At(x)' = At(x)
  BY OriginalFacts, BeginFacts, SamePosts DEF Begins
<1>1. /\ L \in Seq(Job) /\ L # <<>> /\ Head(L) = h /\ Line(s)' = Tail(L)
      /\ job'[s] = h /\ h \in Job /\ h.kind = "new"
  BY <1>0, BeginFacts, BeginsNew
<1>2. m = h.items[1].msg /\ h \in News(m) /\ h \in Versions(m) /\ h \notin Deletions(m)
  BY <1>1 DEF Concerns, About, News, Versions, Deletions
<1>3. (Live(m)' <=> Live(m)) /\ Source(s)' = h.items[1]
  BY <1>0, <1>1 DEF Live, Source
<1> HIDE DEF L, h
<1>4. /\ Before(L, News(m), Concerns(m)) /\ Before(L, Concerns(m), Deletions(m))
      /\ Live(m) => ~Occurs(L, Deletions(m))
      /\ Latest(L, m, At(m).txt)
  BY <1>0 DEF Synced, InOrder, UpToDate, L
<1>5. /\ Before(Tail(L), News(m), Concerns(m)) /\ Before(Tail(L), Concerns(m), Deletions(m))
      /\ \A J : Occurs(L, J) <=> h \in J \/ Occurs(Tail(L), J)
      /\ Latest(Tail(L), m, At(m).txt)
      /\ ~Occurs(Tail(L), Versions(m)) => h.items[1].txt = At(m).txt
      /\ ~Occurs(Tail(L), News(m))
  <2>1. h \in Concerns(m)
    BY DEF h
  <2> QED BY <1>1, <1>2, <1>4, <2>1, TakenFrom
<1>6. \A r \in rows : r.src # m
  BY <1>0, <1>2, <1>5 DEF Synced, InOrder, L
<1>7. InOrder(s, m)'
  BY <1>1, <1>2, <1>3, <1>4, <1>5 DEF InOrder
<1>8. Mirrored(f, s, m)'
  <2> SUFFICES ASSUME NEW p \in PairId, From(f, p) = m.chat
               PROVE  Sending(s, m, p)'
    BY <1>0 DEF Mirrored, From
  <2>1. p \in PairsFor(s, m.chat) /\ SendsTo(w'[s], PairsFor(s, m.chat))
    BY <1>0, <1>2, BeginsNew DEF h
  <2> QED BY <1>2, <1>3, <2>1 DEF Sending, SendsTo
<1>9. Forgotten(s, m)'
  <2>1. h \in Concerns(m)
    BY DEF h
  <2> QED BY <1>0, <1>1, <1>2, <1>3, <1>5, <2>1 DEF Synced, Forgotten, L
<1>10. UpToDate(s, m)'
  BY <1>0, <1>1, <1>3, <1>5, <1>6 DEF UpToDate
<1> QED BY <1>7, <1>8, <1>9, <1>10 DEF Synced

LEMMA SyncedEdit ==
  ASSUME Smooth, NEW f, SyncInv(f), NEW s \in Side, StartEdit(s), NEW m \in Originals(s),
         Head(q[s]) \in Concerns(m)
  PROVE  Synced(f, s, m)'
<1> DEFINE L == Line(s)
           h == Head(q[s])
<1>0. /\ m \in Posted /\ ByUser(m) /\ SideOf(m.chat) = s /\ Synced(f, s, m) /\ Begins(s)
      /\ UNCHANGED <<posts, rows>> /\ \A x : At(x)' = At(x)
  BY OriginalFacts, BeginFacts, SamePosts DEF Begins
<1>1. /\ L \in Seq(Job) /\ L # <<>> /\ Head(L) = h /\ Line(s)' = Tail(L)
      /\ job'[s] = h /\ h \in Job /\ h.kind = "edit" /\ w[s].pc \in {"idle", "done"}
  BY <1>0, BeginFacts, BeginsEdit
<1>2. m = h.items[1].msg /\ h \notin News(m) /\ h \in Versions(m) /\ h \notin Deletions(m)
  BY <1>1 DEF Concerns, About, News, Versions, Deletions
<1>3. (Live(m)' <=> Live(m)) /\ Source(s)' = h.items[1]
  BY <1>0, <1>1 DEF Live, Source
<1>4. Serves(s, w'[s], OtherSide(rows, m))
  BY <1>0, <1>2, BeginsEdit
<1> HIDE DEF L, h
<1>5. /\ Before(L, News(m), Concerns(m)) /\ Before(L, Concerns(m), Deletions(m))
      /\ Live(m) => ~Occurs(L, Deletions(m))
      /\ Latest(L, m, At(m).txt)
  BY <1>0 DEF Synced, InOrder, UpToDate, L
<1>6. h \in Concerns(m)
  BY DEF h
<1>7. /\ Before(Tail(L), News(m), Concerns(m)) /\ Before(Tail(L), Concerns(m), Deletions(m))
      /\ \A J : Occurs(L, J) <=> h \in J \/ Occurs(Tail(L), J)
      /\ Latest(Tail(L), m, At(m).txt)
      /\ ~Occurs(Tail(L), Versions(m)) => h.items[1].txt = At(m).txt
      /\ ~Occurs(Tail(L), News(m))
  BY <1>1, <1>2, <1>5, <1>6, TakenFrom
<1>8. InOrder(s, m)'
  BY <1>1, <1>2, <1>3, <1>5, <1>7 DEF InOrder
<1>9. Mirrored(f, s, m)'
  <2>1. ~Occurs(L, News(m)) /\ \A p : ~Sending(s, m, p)
    BY <1>1, <1>2, <1>7 DEF Sending
  <2>2. \A p : Served(m, p) => Served(m, p)'
    BY <1>0 DEF Served
  <2> QED BY <1>0, <1>3, <2>1, <2>2 DEF Synced, Mirrored, L, From
<1>10. Forgotten(s, m)'
  BY <1>0, <1>1, <1>2, <1>3, <1>6, <1>7 DEF Synced, Forgotten, L
<1>11. UpToDate(s, m)'
  <2>1. ASSUME NEW r \in rows, r.src = m PROVE Renewing(s, r)'
    <3>1. PICK o \in OtherSide(rows, m) : o.row = r.id
      BY <2>1, QueryAll
    <3> QED BY <1>4, <3>1 DEF Serves, Renewing, ToServe, Editing
  <2> QED BY <1>0, <1>1, <1>3, <1>7, <2>1 DEF UpToDate
<1> QED BY <1>8, <1>9, <1>10, <1>11 DEF Synced

LEMMA SyncedDelete ==
  ASSUME Smooth, NEW f, SyncInv(f), NEW s \in Side, StartDelete(s), NEW m \in Originals(s),
         Head(q[s]) \in Concerns(m)
  PROVE  Synced(f, s, m)'
<1> DEFINE L == Line(s)
           h == Head(q[s])
<1>0. /\ m \in Posted /\ ByUser(m) /\ SideOf(m.chat) = s /\ Synced(f, s, m) /\ Begins(s)
      /\ UNCHANGED <<posts, rows>> /\ \A x : At(x)' = At(x)
  BY OriginalFacts, BeginFacts, SamePosts DEF Begins
<1>1. /\ L \in Seq(Job) /\ L # <<>> /\ Head(L) = h /\ Line(s)' = Tail(L)
      /\ job'[s] = h /\ h \in Job /\ h.kind = "delete" /\ w[s].pc \in {"idle", "done"}
  BY <1>0, BeginFacts, BeginsDelete
<1>2. m \in h.ids /\ h \notin News(m) /\ h \notin Versions(m) /\ h \in Deletions(m)
  BY <1>1 DEF Concerns, About, News, Versions, Deletions
<1>3. ~Live(m) /\ ~Live(m)'
  BY <1>0, <1>2, BeginsDelete DEF Live
<1>4. PICK table : table = rows
  OBVIOUS
<1>5. ASSUME NEW r \in table, r.src = m PROVE Forgetting(s, m, r)'
  <2>1. table \subseteq rows /\ rows' = table /\ Erasing(s, {}, h.ids, table)
    BY <1>0, <1>4, BeginsDelete
  <2>2. PICK mids : mids = h.ids
    OBVIOUS
  <2>3. m \in mids /\ Erasing(s, {}, mids, table)
    BY <1>2, <2>1, <2>2
  <2>4. PICK F : F = {}
    OBVIOUS
  <2>5. Erasing(s, F, mids, table)
    BY <2>3, <2>4
  <2> HIDE DEF h, L
  <2> QED BY <1>5, <2>1, <2>3, <2>5, ErasingFinds
<1> HIDE DEF L, h
<1>6. /\ Before(L, News(m), Concerns(m)) /\ Before(L, Concerns(m), Deletions(m))
      /\ Latest(L, m, At(m).txt)
  BY <1>0 DEF Synced, InOrder, UpToDate, L
<1>7. h \in Concerns(m)
  BY DEF h
<1>8. /\ Before(Tail(L), News(m), Concerns(m)) /\ Before(Tail(L), Concerns(m), Deletions(m))
      /\ \A J : Occurs(L, J) <=> h \in J \/ Occurs(Tail(L), J)
      /\ Latest(Tail(L), m, At(m).txt)
      /\ ~Occurs(Tail(L), News(m)) /\ ~Occurs(Tail(L), Concerns(m))
  BY <1>1, <1>2, <1>6, <1>7, TakenFrom
<1>9. InOrder(s, m)' /\ Mirrored(f, s, m)'
  BY <1>1, <1>3, <1>8 DEF InOrder, Mirrored
<1>10. Forgotten(s, m)'
  BY <1>0, <1>1, <1>2, <1>4, <1>5, <1>8 DEF Forgotten
<1>11. UpToDate(s, m)'
  <2>1. \A r : ~Renewing(s, r)
    BY <1>1 DEF Renewing, Editing
  <2>2. ~Occurs(Tail(L), Versions(m)) => ~Occurs(L, Versions(m))
    BY <1>2, <1>8
  <2> QED BY <1>0, <1>1, <1>2, <1>8, <2>1, <2>2 DEF Synced, UpToDate, L
<1> QED BY <1>9, <1>10, <1>11 DEF Synced

LEMMA BeginSync ==
  ASSUME Smooth, NEW f, SyncInv(f), [Next]_vars, NEW t \in Side, Begins(t)
  PROVE  SyncInv(f)'
<1>0. /\ BridgeInv /\ Aged /\ SrcKept /\ DirInv(f)'
  BY SyncKnown, StepAges, StepDir DEF Smooth
<1>1. /\ \A n : At(n)' = At(n) /\ (ByUser(n)' <=> ByUser(n))
      /\ Posted' = Posted /\ UNCHANGED <<rows, mode>> /\ fps' \subseteq fps
  BY BeginFacts, SamePosts DEF ByUser
<1>2. w[t].pc \in {"idle", "done"} /\ Others(t)
  BY BeginFacts
<1>3. OwnMarks' /\ PrintsInto(f)' /\ OneEach' /\ DstLive'
  <2>1. \A s \in Side : Emptied(s) => w'[s] = w[s]
    BY <1>2 DEF Emptied, Others
  <2> QED BY <1>0, <1>1, <2>1, MarksBegins, TablesStay
<1>4. ASSUME NEW s \in Side PROVE Working(s)'
  <2>1. CASE s = t
    BY <2>1, WorkingBegins
  <2>2. CASE s # t
    <3>1. job'[s] = job[s] /\ w'[s] = w[s]
      BY <1>2, <2>2, BeginFacts DEF Others
    <3> QED BY <1>0, <1>1, <3>1, WorkingQuiet
  <2> QED BY <2>1, <2>2
<1>5. ASSUME NEW s \in Side, NEW m \in Originals(s) PROVE Synced(f, s, m)'
  <2>0. Synced(f, s, m)
    BY <1>5, OriginalFacts
  <2>1. CASE s # t
    <3>1. job'[s] = job[s] /\ w'[s] = w[s] /\ Line(s)' = Line(s)
      BY <1>2, <2>1, BeginFacts DEF Others
    <3>2. Alike(m, Line(s), Line(s)')
      BY <3>1 DEF Alike
    <3> QED BY <1>1, <2>0, <3>1, <3>2, SyncedQuiet
  <2>2. CASE s = t /\ Head(q[s]) \in Concerns(m)
    BY <1>5, <2>2, SyncedNew, SyncedEdit, SyncedDelete DEF Begins
  <2>3. CASE s = t /\ Head(q[s]) \notin Concerns(m)
    <3>1. /\ Line(s) \in Seq(Job) /\ Line(s) # <<>> /\ Line(s)' = Tail(Line(s))
          /\ job'[s] = Head(Line(s)) /\ Head(Line(s)) = Head(q[s])
      BY <2>3, BeginFacts
    <3>2. Alike(m, Line(s), Tail(Line(s)))
      <4>1. \A b \in Seq(Job) : <<>> \o b = b /\ (b # <<>> => <<>> \o Tail(b) = Tail(b))
        <5> TAKE b \in Seq(Job)
        <5> QED OBVIOUS
      <4>2. \A b \in Seq(Job) : b # <<>> /\ Head(b) \notin Concerns(m) => Alike(m, b, Tail(b))
        <5> TAKE b \in Seq(Job)
        <5>1. <<>> \in Seq(Job)
          OBVIOUS
        <5>2. b # <<>> /\ Head(b) \notin Concerns(m) => Alike(m, <<>> \o b, <<>> \o Tail(b))
          BY <5>1, AlikeWithout
        <5> QED BY <4>1, <5>2
      <4> HIDE DEF Line
      <4> QED BY <2>3, <3>1, <4>2
    <3>3. /\ \A p : ~Sending(s, m, p)
          /\ \A r : ~Forgetting(s, m, r) /\ ~Renewing(s, r)
      BY <1>2, <2>3 DEF Sending, Forgetting, Renewing, Editing, Deleting
    <3> QED BY <1>1, <2>0, <2>3, <3>1, <3>2, <3>3, SyncedStays DEF Untouched
  <2> QED BY <2>1, <2>2, <2>3
<1> QED BY <1>1, <1>3, <1>4, <1>5, StepSync DEF Originals

-----------------------------------------------------------------------------
\* The two sides agree whenever nothing is left to do.
LEMMA StepSyncs ==
  ASSUME Smooth, NEW f, SyncInv(f), [Next]_vars
  PROVE  SyncInv(f)'
<1>1. ASSUME NEW s \in Side, StartNew(s) \/ StartEdit(s) \/ StartDelete(s) PROVE SyncInv(f)'
  BY <1>1, BeginSync DEF Begins
<1> QED BY <1>1, SmoothSteps, PostSync, EditSync, UserDeleteSync, StillSync, IntakeSync,
           ReturnSync, WorkSync

LEMMA InitSync == Init => \E f \in InitModes : SyncInv(f)
<1> SUFFICES ASSUME Init PROVE SyncInv(mode) /\ mode \in InitModes
  OBVIOUS
<1>1. mode \in InitModes /\ TrackInv /\ BridgeInv
  BY InitTrack, InitKnown DEF Init
<1>2. DirInv(mode)
  <2>1. PICK f \in InitModes : DirInv(f)
    BY InitDir
  <2>2. f \in [PairId -> Mode] /\ mode \in [PairId -> Mode] /\ "removed" \notin Mode
    BY <1>1, PairAssumption DEF Mode
  <2>3. \A p \in PairId : mode[p] = f[p]
    BY <2>1, <2>2 DEF DirInv
  <2> QED BY <2>1, <2>2, <2>3
<1>3. rows = {} /\ fps = {} /\ sent = {} /\ ignore = {} /\ Posted = {}
  BY DEF Init, QueueInit, Posted, Exists, Msg
<1>4. ASSUME NEW s \in Side PROVE Working(s)
  <2>1. w[s].pc = "idle" /\ w[s].found = {} /\ w[s].mids = {} /\ w[s].made = <<>>
    BY StoppedFacts DEF Init, PC
  <2> QED BY <2>1 DEF Working, Deleting, Range
<1>5. OwnMarks /\ PrintsInto(mode) /\ OneEach /\ DstLive
  BY <1>3 DEF OwnMarks, PrintsInto, OneEach, DstLive
<1> QED BY <1>1, <1>2, <1>3, <1>4, <1>5 DEF SyncInv, Originals

LEMMA SyncAlways ==
  ASSUME Smooth
  PROVE  Spec => [](\E f \in InitModes : SyncInv(f))
<1>1. (\E f \in InitModes : SyncInv(f)) /\ [Next]_vars => (\E f \in InitModes : SyncInv(f))'
  BY StepSyncs
<1> QED BY <1>1, InitSync, PTL DEF Spec

\* At rest every copy has its row, and every message its copies.
LEMMA RestFacts ==
  ASSUME NEW f, SyncInv(f), AtRest, NEW s \in Side
  PROVE  /\ w[s].pc \in {"idle", "done"} /\ w[s].made = <<>>
         /\ job[s] = NoJob /\ \A J : ~Occurs(Line(s), J)
<1>0. BridgeInv /\ HandsEmpty(s) /\ job[s] = NoJob
  BY SyncKnown DEF AtRest
<1>1. w[s].pc \in {"idle", "done"}
  <2>1. w[s].pc \in PC
    BY <1>0, InvFacts DEF Local
  <2>2. w[s].pc # "send" /\ w[s].pc \notin Editing /\ w[s].pc \notin Deleting
    BY <1>0 DEF BridgeInv, HandlerKnown, NoJob
  <2> QED BY <2>1, <2>2 DEF PC, Editing, Deleting
<1>2. Line(s) = <<>>
  <2>1. q[s] = <<>> /\ stream[s] = <<>>
    BY DEF AtRest
  <2> QED BY <2>1 DEF Line
<1> QED BY <1>0, <1>1, <1>2 DEF HandsEmpty, Occurs

LEMMA RestCopies ==
  ASSUME Smooth, NEW f, SyncInv(f), AtRest, NEW s \in Side, NEW m \in Originals(s),
         NEW p \in PairId, From(f, p) = m.chat
  PROVE  /\ \A n \in Posted : Live(n) /\ At(n).src = m /\ n.chat = Into(f, p) =>
              \E r \in rows : r.src = m /\ r.pair = p /\ r.dst = n
         /\ \A r \in rows : r.src = m => Live(r.dst) /\ At(r.dst).txt = At(m).txt
<1>0. m \in Posted /\ m \in Msg /\ SideOf(m.chat) = s /\ Synced(f, s, m) /\ f \in InitModes
      /\ f \in [PairId -> Mode]
  BY OriginalFacts, SyncKnown
<1>1. \A t \in Side : /\ w[t].pc \in {"idle", "done"} /\ w[t].made = <<>>
                      /\ job[t] = NoJob /\ \A J : ~Occurs(Line(t), J)
  BY RestFacts
<1>2. ASSUME NEW n \in Posted, Live(n), At(n).src = m, n.chat = Into(f, p)
      PROVE  \E r \in rows : r.src = m /\ r.pair = p /\ r.dst = n
  <2>1. ~ByUser(n)
    BY <1>0, <1>2, MsgAssumption DEF ByUser
  <2>2. PICK r \in rows : r.dst = n
    <3>1. \A t \in Side : n \notin Range(w[t].made)
      BY <1>1 DEF Range
    <3>2. CopyTracked
      BY SyncKnown DEF TrackInv
    <3> QED BY <1>2, <2>1, <3>1, <3>2 DEF CopyTracked
  <2>3. r.src = m /\ r.pair \in PairId /\ From(f, r.pair) = m.chat /\ Into(f, r.pair) = n.chat
    BY <1>2, <2>2, RowSides
  <2>4. Goes(f, s, p) /\ Goes(f, s, r.pair)
    BY <1>0, <2>3, GoesFacts DEF Smooth
  <2>5. f[p] \in {"tg2bale", "bale2tg"} /\ f[r.pair] \in {"tg2bale", "bale2tg"}
    BY <1>0, <2>3 DEF Smooth, OneDirection, Mode
  <2>6. f[p] = f[r.pair]
    BY <2>4, <2>5 DEF Goes, Against, Side
  <2>7. TgOf[p] = TgOf[r.pair] /\ BaleOf[p] = BaleOf[r.pair]
    BY <1>2, <2>3, <2>5, <2>6 DEF From, Into
  <2>8. r.pair = p
    BY <2>3, <2>7 DEF Smooth, PairsDiffer
  <2> QED BY <2>2, <2>3, <2>8
<1>3. ASSUME NEW r \in rows, r.src = m PROVE Live(r.dst) /\ At(r.dst).txt = At(m).txt
  <2>1. \A t \in Side : ~Emptied(t) /\ w[t].pc \notin Editing
    BY <1>1 DEF Emptied, Editing
  <2>2. Live(r.dst)
    BY <1>3, <2>1, SyncKnown DEF DstLive, Ending
  <2>3. ~Renewing(s, r)
    BY <2>1 DEF Renewing
  <2> QED BY <1>0, <1>1, <1>3, <2>2, <2>3 DEF Synced, UpToDate
<1> QED BY <1>2, <1>3

LEMMA SyncAgrees ==
  ASSUME Smooth, NEW f, SyncInv(f), AtRest
  PROVE  Agree
<1> SUFFICES ASSUME NEW m \in Posted, ByUser(m), NEW c \in Destinations(m)
             PROVE  LET copies == { n \in Posted : n.chat = c /\ At(n).src = m /\ Live(n) }
                    IN  IF Live(m)
                          THEN /\ Cardinality(copies) = Chunks[At(m).txt]
                               /\ \A n \in copies : At(n).txt = At(m).txt
                          ELSE copies = {}
  BY DEF Agree
<1> DEFINE s == SideOf(m.chat)
           copies == { n \in Posted : n.chat = c /\ At(n).src = m /\ Live(n) }
<1>0. /\ s \in Side /\ m \in Originals(s) /\ Synced(f, s, m) /\ f \in InitModes
      /\ f \in [PairId -> Mode] /\ mode = f /\ OneEach /\ At(m).txt \in Text
  <2>1. s \in Side
    BY SideOfType
  <2>2. m \in Originals(s)
    BY DEF Originals
  <2>3. At(m).txt \in Text
    BY SyncKnown, InvFacts, PostedFacts
  <2> QED BY <2>1, <2>2, <2>3, OriginalFacts, SyncKnown
<1>1. PICK p \in PairId : p \in PairsFor(s, m.chat) /\ c = PairChat(s, p)
  BY DEF Destinations, PairsFor
<1>2. From(f, p) = m.chat /\ Into(f, p) = c
  <2>1. f[p] \in {"tg2bale", "bale2tg"}
    BY <1>0 DEF Smooth, OneDirection, Mode
  <2> QED BY <1>0, <1>1, <2>1 DEF PairsFor, From, Into, PairChat, Side
<1>3. /\ \A n \in copies : \E r \in rows : r.src = m /\ r.pair = p /\ r.dst = n
      /\ \A r \in rows : r.src = m => Live(r.dst) /\ At(r.dst).txt = At(m).txt
  BY <1>0, <1>2, RestCopies
<1>4. /\ w[s].pc \in {"idle", "done"} /\ job[s] = NoJob /\ \A J : ~Occurs(Line(s), J)
  BY <1>0, RestFacts
<1>5. CASE Live(m)
  <2>1. PICK r \in rows : r.src = m /\ r.pair = p
    BY <1>0, <1>2, <1>4, <1>5 DEF Synced, Mirrored, Sending, Served
  <2>2. r.dst \in Posted /\ At(r.dst).src = m /\ r.dst.chat = c
    BY <1>2, <2>1, RowSides
  <2>3. r.dst \in copies
    BY <1>3, <2>1, <2>2
  <2>4. \A n \in copies : n = r.dst
    BY <1>0, <1>3, <2>1 DEF OneEach
  <2>5. copies = {r.dst}
    BY <2>3, <2>4
  <2>6. Cardinality(copies) = 1
    <3> HIDE DEF copies
    <3> QED BY <2>5, FS_Singleton
  <2>7. Chunks[At(m).txt] = 1
    BY <1>0 DEF Smooth, OnePart
  <2>8. \A n \in copies : At(n).txt = At(m).txt
    BY <1>3, <2>1, <2>4
  <2> HIDE DEF copies
  <2>9. Cardinality(copies) = Chunks[At(m).txt] /\ \A n \in copies : At(n).txt = At(m).txt
    BY <2>6, <2>7, <2>8
  <2> QED BY <1>5, <2>9 DEF copies
<1>6. CASE ~Live(m)
  <2>1. \A r \in rows : r.src # m
    BY <1>0, <1>4, <1>6 DEF Synced, Forgotten, Forgetting, Deleting
  <2>2. copies = {}
    BY <1>3, <2>1
  <2> QED BY <1>6, <2>2
<1> QED BY <1>5, <1>6

\* What the pairs promise, at every pause, however reports, queues, handlers and
\* late echoes interleave: each live message of a user has on every channel its
\* pairs go into exactly one copy, with its present text, and a deleted one has
\* none (mirror, process_tg_edit, process_bale_edit, process_tg_delete,
\* process_bale_delete, with the edit fallbacks).
THEOREM SidesAgreeAtRest ==
  ASSUME Smooth
  PROVE  Spec => []AgreeAtRest
<1>1. (\E f \in InitModes : SyncInv(f)) => AgreeAtRest
  BY SyncAgrees DEF AgreeAtRest
<1> QED BY <1>1, SyncAlways, PTL
=============================================================================
