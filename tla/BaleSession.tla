----------------------------- MODULE BaleSession ------------------------------
(***************************************************************************)
(* What the Bale selfbot (bridge/bale/) knows of a chat and its messages:  *)
(* the kind of the chat, which updates tell only in part, and the date of  *)
(* each message, without which Bale deletes nothing.  Updates, sends,      *)
(* edits, deletions and lookups share the caches and interleave where they *)
(* await Bale.  Chats share nothing: one is modelled.                      *)
(***************************************************************************)
EXTENDS Naturals

CONSTANTS
  Caller,           \* coroutines that use the client
  Msg,              \* messages of the chat
  MaxLookupFaults,  \* bound: lookups that fail for no good reason
  MaxSelfRestarts   \* bound: ends of the process

ASSUME SelfAssumption == MaxLookupFaults \in Nat /\ MaxSelfRestarts \in Nat

VARIABLES
  truth,      \* Bale: what the chat really is
  types,      \* chat_types[chat]
  meta,       \* chat_meta[chat]["type"]
  dates,      \* dates, in memory
  metaDates,  \* the messages with a "bdate:" in the store
  caller,     \* where each coroutine awaits, and the locals it has read
  lookupFaults, selfRestarts,
  known,      \* history: messages whose date Bale has told, once
  undated,    \* history: messages whose latest report since the boot had no date
  blind       \* history: calls of get_chat with no lookup answered

selfVars == <<truth, types, meta, dates, metaDates, caller, lookupFaults,
              selfRestarts, known, undated, blind>>
dateVars == <<dates, metaDates, known, undated>>
boundVars == <<lookupFaults, selfRestarts>>

Ambiguous == "group?"
Idles == [op |-> "none", at |-> "idle", cached |-> "none", type |-> "none"]

SelfTypeOK ==
  /\ truth \in {"private", "group", "channel"}
  /\ types \in {"none", "private", "group", "channel", Ambiguous}
  /\ meta \in {"none", "private", "group", "channel", Ambiguous}
  /\ dates \in [Msg -> {"none", "zero", "date"}]
  /\ metaDates \subseteq Msg /\ known \subseteq Msg /\ undated \subseteq Msg
  /\ caller \in [Caller -> [op : {"none", "send", "edit", "delete", "get_chat"},
                            at : {"idle", "probe", "user", "call"},
                            cached : {"none", "private", "group", "channel", Ambiguous},
                            type : {"none", "private", "group", "channel"}]]
  /\ lookupFaults \in 0..MaxLookupFaults /\ selfRestarts \in 0..MaxSelfRestarts
  /\ blind \in 0..MaxLookupFaults

SelfInit ==
  /\ truth \in {"private", "group", "channel"}
  /\ types = "none" /\ meta = "none"
  /\ dates = [m \in Msg |-> "none"] /\ metaDates = {}
  /\ caller = [c \in Caller |-> Idles]
  /\ lookupFaults = 0 /\ selfRestarts = 0
  /\ known = {} /\ undated = {} /\ blind = 0

-----------------------------------------------------------------------------
(* The caches *)

\* What Bale has said of the date of a message.
Reported(m, told) ==
  /\ known' = IF told THEN known \cup {m} ELSE known
  /\ undated' = IF told THEN undated \ {m} ELSE undated \cup {m}

\* Leaves alone what memory already has.
RememberDateOnce(m, told) ==
  /\ dates' = [dates EXCEPT ![m] = IF @ # "none" THEN @
                                  ELSE IF told THEN "date" ELSE "zero"]
  /\ metaDates' = IF told THEN metaDates \cup {m} ELSE metaDates
  /\ Reported(m, told)
\* remember_date: a report without a date puts a 0 into memory, over a date that is
\* there too, and leaves the store alone.
RememberDate(m, told) ==
  /\ dates' = [dates EXCEPT ![m] = IF told THEN "date" ELSE "zero"]
  /\ metaDates' = IF told THEN metaDates \cup {m} ELSE metaDates
  /\ Reported(m, told)

\* date_for: memory, else the store; 0 when neither knows.
DateFor(m) ==
  IF dates[m] # "none" THEN dates[m]
  ELSE IF m \in metaDates THEN "date" ELSE "zero"

\* note_chat, when the lookup has given a type.
NoteChat(type) == types' = type /\ meta' = type

-----------------------------------------------------------------------------
(* Updates *)

\* The type an update of the chat may carry.  A channel may come as a group.
RawTypes ==
  IF truth = "channel" THEN {"channel", Ambiguous}
  ELSE IF truth = "group" THEN {Ambiguous} ELSE {"private"}
Name(raw) == IF raw = Ambiguous THEN "group" ELSE raw

\* Takes a group for a group.
NormalizeDefinite(raw) ==
  /\ types' = Name(raw)
  /\ meta' = IF meta = "none" THEN Name(raw) ELSE meta
\* An ambiguous type is only kept while nothing better is known; the type the
\* routing sees is the first one.
Normalize(raw) ==
  /\ types' = IF raw # Ambiguous \/ types = "none" THEN raw ELSE types
  /\ meta' = IF meta = "none" THEN Name(raw) ELSE meta

\* on_message, on_edited
MessageEvent ==
  \E raw \in RawTypes, m \in Msg, told \in BOOLEAN :
    /\ Normalize(raw)
    /\ RememberDate(m, told)
    /\ UNCHANGED <<truth, caller, boundVars, blind>>

DeletedEvent ==
  /\ types = "none"
  /\ types' = IF truth = "private" THEN "private" ELSE Ambiguous
  /\ UNCHANGED <<truth, meta, dateVars, caller, boundVars, blind>>

-----------------------------------------------------------------------------
(* Calls *)

Enters(c, s) == caller' = [caller EXCEPT ![c] = s]

\* ensure_chat_type, up to the probe
Starts(c, op) ==
  /\ caller[c].at = "idle"
  /\ Enters(c, IF types \in {"none", Ambiguous}
             THEN [op |-> op, at |-> "probe", cached |-> types, type |-> "none"]
             ELSE [op |-> op, at |-> "call", cached |-> types, type |-> types])
  /\ UNCHANGED <<truth, types, meta, dateVars, boundVars, blind>>

StartSend(c) == Starts(c, "send")
StartEdit(c) == Starts(c, "edit")
StartDelete(c) == Starts(c, "delete")

\* get_chat reads the type it will fall back on, and always asks.
StartGetChat(c) ==
  /\ caller[c].at = "idle"
  /\ Enters(c, [op |-> "get_chat", at |-> "probe", cached |-> types, type |-> "none"])
  /\ UNCHANGED <<truth, types, meta, dateVars, boundVars, blind>>

\* get_full_group, which only answers for a group or a channel
ProbeAnswers(c) ==
  /\ caller[c].at = "probe" /\ caller[c].op # "get_chat"
  /\ truth # "private"
  /\ NoteChat(truth)
  /\ Enters(c, [caller[c] EXCEPT !.at = "call", !.type = truth])
  /\ UNCHANGED <<truth, dateVars, boundVars, blind>>

ProfileAnswers(c) ==
  /\ caller[c].at = "probe" /\ caller[c].op = "get_chat"
  /\ truth # "private"
  /\ NoteChat(truth)
  /\ Enters(c, Idles)
  /\ UNCHANGED <<truth, dateVars, boundVars, blind>>

\* No fault for a private chat.
LookupFault ==
  /\ IF truth = "private" THEN UNCHANGED lookupFaults
     ELSE lookupFaults < MaxLookupFaults /\ lookupFaults' = lookupFaults + 1
  /\ UNCHANGED selfRestarts

\* Overwrites what was learnt while the probe was under way.
ProbeFailsAssigns(c) ==
  /\ caller[c].at = "probe" /\ caller[c].op # "get_chat"
  /\ LookupFault
  /\ IF caller[c].cached = "none"
     THEN types' = "private" /\ Enters(c, [caller[c] EXCEPT !.at = "call", !.type = "private"])
     ELSE Enters(c, [caller[c] EXCEPT !.at = "call", !.type = "group"]) /\ UNCHANGED types
  /\ UNCHANGED <<truth, meta, dateVars, blind>>
\* The chat is private when nothing was known, a group for this call when it
\* was ambiguous.
ProbeFails(c) ==
  /\ caller[c].at = "probe" /\ caller[c].op # "get_chat"
  /\ LookupFault
  /\ IF caller[c].cached = "none"
     THEN /\ types' = IF types = "none" THEN "private" ELSE types
          /\ Enters(c, [caller[c] EXCEPT !.at = "call", !.type = "private"])
     ELSE Enters(c, [caller[c] EXCEPT !.at = "call", !.type = "group"]) /\ UNCHANGED types
  /\ UNCHANGED <<truth, meta, dateVars, blind>>

ProfileFails(c) ==
  /\ caller[c].at = "probe" /\ caller[c].op = "get_chat"
  /\ LookupFault
  /\ Enters(c, [caller[c] EXCEPT !.at = "user"])
  /\ UNCHANGED <<truth, types, meta, dateVars, blind>>

\* load_user, which only answers for a person
UserAnswers(c) ==
  /\ caller[c].at = "user"
  /\ truth = "private"
  /\ NoteChat("private")
  /\ Enters(c, Idles)
  /\ UNCHANGED <<truth, dateVars, boundVars, blind>>

\* Neither lookup answers: what get_chat read at its start, else what messages
\* have said, else private.
UserFails(c) ==
  LET old == caller[c].cached
  IN  /\ caller[c].at = "user"
      /\ NoteChat(IF old # "none" THEN old ELSE IF meta # "none" THEN meta ELSE "private")
      /\ blind < MaxLookupFaults
      /\ blind' = blind + 1
      /\ Enters(c, Idles)
      /\ UNCHANGED <<truth, dateVars, boundVars>>

Calls(c, op) == caller[c].at = "call" /\ caller[c].op = op

\* The answer to a send, with or without the date of the new message.
Sent(c) ==
  /\ Calls(c, "send")
  /\ \E m \in Msg, told \in BOOLEAN : RememberDate(m, told)
  /\ Enters(c, Idles)
  /\ UNCHANGED <<truth, types, meta, boundVars, blind>>

\* An edit, and any call that fails, leaves the caches alone.
CallEnds(c) ==
  /\ caller[c].at = "call" /\ caller[c].op # "delete"
  /\ Enters(c, Idles)
  /\ UNCHANGED <<truth, types, meta, dateVars, boundVars, blind>>

\* delete_message: date_for, with nothing awaited before the request, caches
\* what it finds, the absence too.
Deleted(c) ==
  /\ Calls(c, "delete")
  /\ \E m \in Msg : dates' = [dates EXCEPT ![m] = DateFor(m)]
  /\ Enters(c, Idles)
  /\ UNCHANGED <<truth, types, meta, metaDates, known, undated, boundVars, blind>>

SelfRestart ==
  /\ selfRestarts < MaxSelfRestarts
  /\ selfRestarts' = selfRestarts + 1
  /\ types' = "none" /\ meta' = "none"
  /\ dates' = [m \in Msg |-> "none"]
  /\ undated' = {}
  /\ caller' = [c \in Caller |-> Idles]
  /\ UNCHANGED <<truth, metaDates, lookupFaults, known, blind>>

SelfNext ==
  \/ MessageEvent \/ DeletedEvent \/ SelfRestart
  \/ \E c \in Caller :
       \/ StartSend(c) \/ StartEdit(c) \/ StartDelete(c) \/ StartGetChat(c)
       \/ ProbeAnswers(c) \/ ProbeFails(c)
       \/ ProfileAnswers(c) \/ ProfileFails(c) \/ UserAnswers(c) \/ UserFails(c)
       \/ Sent(c) \/ Deleted(c) \/ CallEnds(c)

-----------------------------------------------------------------------------
(* Properties *)

\* A deletion carries the date of its message once Bale has told it, also after a
\* restart, and also when a deletion was tried before the date came.  Only a later
\* report without a date takes it away, and only until the process restarts or
\* Bale tells the date again.
DeletionsDated == \A m \in known \ undated : DateFor(m) = "date"

\* A channel is never taken for a group or for a person, and no person for a
\* group, while every lookup is answered: not by the cache that sends and
\* edits use, not by a call that is about to be made, and no message of a
\* channel is routed to the panel of the administrator, nor the reverse.
TypeTrusted ==
  lookupFaults = 0 /\ blind = 0 =>
    /\ types \in {"none", Ambiguous, truth}
    /\ meta # "none" => (meta = "private" <=> truth = "private")
    /\ \A c \in Caller : caller[c].at = "call" => caller[c].type = truth

\* Once the cache has the right type, nothing of what interleaves takes it
\* away, a failed probe that began before it came included; only a restart
\* does, and a get_chat that got no answer at all.
RightTypeStays ==
  [][types = truth => \/ types' = truth
                      \/ selfRestarts' # selfRestarts
                      \/ blind' # blind]_selfVars
=============================================================================
