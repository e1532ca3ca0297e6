------------------------------ MODULE AlbumCopy -------------------------------
(***************************************************************************)
(* Copying one job, a message or an album, into one pair: pair_send of     *)
(* bridge/transfer/mirror_t2b.py (clients botapi and selfbot) and of       *)
(* mirror_b2t.py (client telethon), every send a SendCall.  Media that     *)
(* cannot be sent as what it is is sent as a file, or replaced by a        *)
(* notice; an album is sent whole, then item by item.  The ids collect in  *)
(* a local list and enter the ledger only when everything has been sent.   *)
(***************************************************************************)
EXTENDS SendCall, FiniteSets

CONSTANT MaxItems  \* bound: messages of an album

ASSUME MaxItemsAssumption == MaxItems \in Nat \ {0}

VARIABLES
  items,    \* the kinds of the source messages
  files,    \* what the download of each gave
  stage,    \* where the job is
  at,       \* the message, or the item of the group, it is at
  chain,    \* the fallback it has come to
  group,    \* the messages that go into one album
  results,  \* local: the copies it knows, as <<message, id>>
  ledger    \* the rows it has written

albumVars == <<sendVars, items, files, stage, at, chain, group, results, ledger>>
jobVars == <<items, files, ledger>>

Kinds == {"text", "venue", "animation", "photo", "document"}
Parts == 2  \* messages a long text, or a venue, takes

AlbumTypeOK ==
  /\ call.state \in {"idle", "trying", "ok", "failed"}
  /\ call.attempt \in 0..(MAX_ATTEMPTS - 1)
  /\ netFaults \in 0..MaxNetFaults
  /\ Len(items) \in 1..MaxItems /\ files \in Seq({"ok", "big", "none"})
  /\ stage \in {"load", "walk", "alone", "parts", "group", "single", "sending",
                "notice", "recorded", "failed"}
  /\ at \in 1..(MaxItems + Parts) /\ chain \in 1..4
  /\ group \in Seq(1..MaxItems)
  /\ \A r \in {results[n] : n \in 1..Len(results)} \cup ledger :
       r[1] \in 1..Len(items) /\ r[2] \in 1..Len(posts)

AlbumInit ==
  /\ SendInit
  /\ items \in {<<k>> : k \in Kinds}
               \cup UNION {[1..n -> {"photo", "document"}] : n \in 2..MaxItems}
  /\ items = <<"venue">> => client # "telethon"
  /\ files = <<>>
  /\ stage = "load"
  /\ at = 1 /\ chain = 1
  /\ group = <<>> /\ results = <<>> /\ ledger = {}

Album == Len(items) > 1
T2B == client # "telethon"
Content(i, as) == <<[of |-> i, as |-> as]>>

\* A row for every id, in the order of the messages.
Recorded(copies) ==
  /\ stage' = "recorded"
  /\ ledger' = {copies[n] : n \in 1..Len(copies)}
Fails == stage' = "failed" /\ UNCHANGED ledger

-----------------------------------------------------------------------------
(* Text and venues: several messages for one *)

StartParts ==
  /\ stage = "load" /\ items[1] \in {"text", "venue"}
  /\ stage' = "parts"
  /\ Send(Content(1, "part"))
  /\ UNCHANGED <<client, posts, netFaults, jobVars, at, chain, group, results>>

\* Keeps the id of the last part only.
PartIdsOfLast(ids) == <<<<1, ids[1]>>>>
\* The id of a venue's location is dropped.
PartIds(ids) ==
  IF items[1] = "venue" /\ at = 1 THEN results ELSE Append(results, <<1, ids[1]>>)

PartSent ==
  /\ stage = "parts" /\ call.state = "ok"
  /\ results' = PartIds(call.ids)
  /\ IF at < Parts
     THEN Send(Content(1, "part")) /\ at' = at + 1 /\ UNCHANGED <<stage, ledger>>
     ELSE call' = NoCall /\ Recorded(results') /\ UNCHANGED at
  /\ UNCHANGED <<client, posts, netFaults, items, files, chain, group>>

PartFails ==
  /\ stage = "parts" /\ call.state = "failed"
  /\ call' = NoCall
  /\ Fails
  /\ UNCHANGED <<client, posts, netFaults, items, files, at, chain, group, results>>

-----------------------------------------------------------------------------
(* Media: what the download gave *)

\* Telegram's files load beside one another; a size is known from the file.
Load ==
  /\ stage = "load" /\ T2B /\ items[1] \notin {"text", "venue"}
  /\ files' \in [1..Len(items) -> {"ok", "big", "none"}]
  /\ stage' = "walk"
  /\ UNCHANGED <<sendVars, items, at, chain, group, results, ledger>>

\* Bale's are told by their size before they load, one by one.
LoadSizes ==
  /\ stage = "load" /\ ~T2B /\ items[1] \notin {"text", "venue"}
  /\ files' \in [1..Len(items) -> {"ok", "big"}]
  /\ stage' = "walk"
  /\ UNCHANGED <<sendVars, items, at, chain, group, results, ledger>>

\* A download raises, and with it the job.
LoadFails ==
  /\ stage \in IF T2B THEN {"load"} ELSE {"walk"}
  /\ items[1] \notin {"text", "venue"}
  /\ stage = "walk" => at <= Len(items) /\ files[at] = "ok"
  /\ NetFault
  /\ Fails
  /\ UNCHANGED <<client, call, posts, items, files, at, chain, group, results>>

\* What is sent for a message outside a group: a notice instead of media
\* that is missing or too big, but Telegram's too big item of an album as it is.
AloneAs(i) ==
  IF files[i] = "ok" \/ (T2B /\ Album /\ files[i] = "big") THEN "copy" ELSE "notice"

\* Clients' methods send_media tries for a kind, the file at the end.
Methods(i) ==
  CASE ~T2B -> 1
    [] items[i] = "photo" -> 2
    [] items[i] = "animation" -> IF client = "selfbot" THEN 4 ELSE 3
    [] OTHER -> 1

Walk ==
  /\ stage = "walk" /\ at <= Len(items)
  /\ IF Album /\ files[at] = "ok"
     THEN group' = Append(group, at) /\ at' = at + 1 /\ UNCHANGED <<stage, call>>
     ELSE stage' = "alone" /\ Send(Content(at, AloneAs(at))) /\ UNCHANGED <<group, at>>
  /\ UNCHANGED <<client, posts, netFaults, jobVars, chain, results>>

AloneSent ==
  /\ stage = "alone" /\ call.state = "ok"
  /\ results' = Append(results, <<at, call.ids[1]>>)
  /\ at' = at + 1 /\ chain' = 1
  /\ stage' = "walk"
  /\ call' = NoCall
  /\ UNCHANGED <<client, posts, netFaults, jobVars, group>>

AloneFails ==
  /\ stage = "alone" /\ call.state = "failed"
  /\ IF call.what[1].as = "copy" /\ chain < Methods(at)
     THEN chain' = chain + 1 /\ Send(call.what) /\ UNCHANGED <<stage, ledger>>
     ELSE call' = NoCall /\ Fails /\ UNCHANGED chain
  /\ UNCHANGED <<client, posts, netFaults, items, files, at, group, results>>

-----------------------------------------------------------------------------
(* The album, whole and then item by item *)

SendGroup ==
  /\ stage = "walk" /\ at > Len(items)
  /\ IF Len(group) >= 2
     THEN /\ stage' = "group"
          /\ Send([n \in 1..Len(group) |-> [of |-> group[n], as |-> "copy"]])
     ELSE stage' = "single" /\ UNCHANGED call
  /\ at' = 1
  /\ UNCHANGED <<client, posts, netFaults, jobVars, chain, group, results>>

\* Pairs the answers with the messages of the job.
ZippedWithJob(ids) == [n \in 1..Len(ids) |-> <<n, ids[n]>>]
Zipped(ids) == [n \in 1..Len(ids) |-> <<group[n], ids[n]>>]

\* Sends the items again one by one.
GroupSentAndSingles ==
  /\ stage = "group" /\ call.state = "ok"
  /\ results' = results \o Zipped(call.ids)
  /\ call' = NoCall
  /\ stage' = "single"
  /\ UNCHANGED <<client, posts, netFaults, jobVars, at, chain, group>>
GroupSent ==
  /\ stage = "group" /\ call.state = "ok"
  /\ results' = results \o Zipped(call.ids)
  /\ call' = NoCall
  /\ Recorded(results')
  /\ UNCHANGED <<client, posts, netFaults, items, files, at, chain, group>>

GroupFails ==
  /\ stage = "group" /\ call.state = "failed"
  /\ stage' = "single"
  /\ call' = NoCall
  /\ UNCHANGED <<client, posts, netFaults, jobVars, at, chain, group, results>>

SendSingle ==
  /\ stage = "single"
  /\ IF at <= Len(group)
     THEN stage' = "sending" /\ Send(Content(group[at], "copy")) /\ UNCHANGED ledger
     ELSE Recorded(results) /\ UNCHANGED call
  /\ UNCHANGED <<client, posts, netFaults, items, files, at, chain, group, results>>

\* The item, or the notice in its place.
SingleSent ==
  /\ stage \in {"sending", "notice"} /\ call.state = "ok"
  /\ results' = Append(results, <<group[at], call.ids[1]>>)
  /\ at' = at + 1 /\ chain' = 1
  /\ stage' = "single"
  /\ call' = NoCall
  /\ UNCHANGED <<client, posts, netFaults, jobVars, group>>

\* Towards Bale a notice stands in for the item; towards Telegram, and when
\* the notice fails too, the job is lost.
SingleFails ==
  /\ stage \in {"sending", "notice"} /\ call.state = "failed"
  /\ \/ /\ stage = "sending" /\ chain < Methods(group[at])
        /\ chain' = chain + 1
        /\ Send(call.what)
        /\ UNCHANGED <<stage, ledger>>
     \/ /\ stage = "sending" /\ chain >= Methods(group[at]) /\ T2B
        /\ stage' = "notice"
        /\ Send(Content(group[at], "notice"))
        /\ UNCHANGED <<chain, ledger>>
     \/ /\ stage = "notice" \/ ~T2B
        /\ call' = NoCall
        /\ Fails
        /\ UNCHANGED chain
  /\ UNCHANGED <<client, posts, netFaults, items, files, at, group, results>>

\* The process ends: what was only in memory is gone.
Dies ==
  /\ stage \notin {"recorded", "failed"}
  /\ NetFault
  /\ call' = NoCall
  /\ Fails
  /\ UNCHANGED <<client, posts, items, files, at, chain, group, results>>

Job ==
  \/ StartParts \/ PartSent \/ PartFails
  \/ Load \/ LoadSizes \/ LoadFails \/ Walk \/ AloneSent \/ AloneFails
  \/ SendGroup \/ GroupSent \/ GroupFails
  \/ SendSingle \/ SingleSent \/ SingleFails \/ Dies

Calling == SendNext /\ UNCHANGED <<jobVars, stage, at, chain, group, results>>

AlbumNext == Job \/ Calling

-----------------------------------------------------------------------------
(* Properties *)

Done == stage = "recorded"
Tracked == {r[2] : r \in ledger}

\* Every row of the ledger leads from a message to the copy made of that
\* message, never to a neighbour's: later edits and deletions go by these
\* rows.  The answer to an album is matched with the group by position, and
\* messages that were too big are not in the group.
RowsMatch == Done => \A r \in ledger : posts[r[2]].of = r[1]

\* A job that ends normally has given every message of an album exactly one
\* row, whatever was refused, resent or replaced on the way.
EachAccounted ==
  Done /\ Album => \A i \in 1..Len(items) : Cardinality({r \in ledger : r[1] = i}) = 1

\* Copies the ledger does not know, which no edit and no deletion will ever
\* reach, only come from calls that went wrong, at most the whole job per
\* call; but for the location of a venue.
StrayCopies ==
  Done => Cardinality((1..Len(posts)) \ Tracked)
            <= netFaults * Len(items) + (IF items[1] = "venue" THEN 1 ELSE 0)
=============================================================================
