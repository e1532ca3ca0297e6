------------------------------ MODULE DbStore ------------------------------
(***************************************************************************)
(* The tables of bridge/dbstore/ the synchronisation engines use, as sets  *)
(* of rows, and one operator per query.  Every query is synchronous, hence *)
(* atomic.  A message stands for the triple (platform, chat, message id).  *)
(*                                                                         *)
(*   msg_map  rows [id, pair, src, dst]                                    *)
(*   sent     the set of messages the bridge recorded as its own: a        *)
(*            message is recorded once, so the rows are a set              *)
(*   sent_fp  rows [chat, txt, of]; `of` tells apart rows with one text    *)
(***************************************************************************)
EXTENDS Naturals, Sequences

\* Looks at one end only.
OtherSideOfSource(rows, m) ==
  { [msg |-> r.dst, pair |-> r.pair, row |-> r.id] :
      r \in { r \in rows : r.src = m } }
\* MapEngine.other_side: the other ends of the rows that have m at one end, one
\* result per (message, pair), with the id of the first such row.
OtherSide(rows, m) ==
  LET ends == { [msg |-> r.dst, pair |-> r.pair, row |-> r.id] :
                  r \in { r \in rows : r.src = m } }
              \cup
              { [msg |-> r.src, pair |-> r.pair, row |-> r.id] :
                  r \in { r \in rows : r.src # m /\ r.dst = m } }
  IN  { o \in ends : \A p \in ends :
          (p.msg = o.msg /\ p.pair = o.pair) => o.row <= p.row }

\* Stores the ids the send returned without their chat.
AddRowsBareIds(rows, last, pair, src, dsts) ==
  rows \cup { [id |-> last + i, pair |-> pair, src |-> src,
               dst |-> [id |-> dsts[i].id]] : i \in DOMAIN dsts }
\* Exchanges the ends.
AddRowsSwapped(rows, last, pair, src, dsts) ==
  rows \cup { [id |-> last + i, pair |-> pair, src |-> dsts[i], dst |-> src] :
                i \in DOMAIN dsts }
\* MapEngine.add for each message of dsts, with fresh increasing ids.
AddRows(rows, last, pair, src, dsts) ==
  rows \cup { [id |-> last + i, pair |-> pair, src |-> src, dst |-> dsts[i]] :
                i \in DOMAIN dsts }

RemoveRow(rows, id) == { r \in rows : r.id # id }

\* Updates no row.
ReplaceNothing(rows, id, m) == rows
\* Updates the other end.
ReplaceSrc(rows, id, m) ==
  { IF r.id = id THEN [r EXCEPT !.src = m] ELSE r : r \in rows }
\* MapEngine.replace_dst: always the dst end, whichever end was looked up.
ReplaceDst(rows, id, m) ==
  { IF r.id = id THEN [r EXCEPT !.dst = m] ELSE r : r \in rows }

\* PairsEngine.remove: the mappings of the pair go with it.
PurgePair(rows, pair) == { r \in rows : r.pair # pair }

\* LoopCacheEngine.check_fp: a row any of which is consumed by a match.
Fingerprints(fps, chat, txt) == { f \in fps : f.chat = chat /\ f.txt = txt }

\* What a query returns first: rows come in the order of their ids.
First(found) == CHOOSE o \in found : \A p \in found : o.row <= p.row
=============================================================================
