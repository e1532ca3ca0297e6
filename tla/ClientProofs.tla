---------------------------- MODULE ClientProofs ----------------------------
(***************************************************************************)
(* Proofs about the clients of the platforms: whatever fails between the   *)
(* platform and the store, the loop of ListenEngine does to a stream of    *)
(* updates what UpdateFeed allows; what the selfbot has learnt of a chat   *)
(* and of the dates of its messages is not lost to what interleaves; and   *)
(* whichever fallbacks a job goes through, its rows are the right ones.    *)
(***************************************************************************)
EXTENDS MCParts, FiniteSetTheorems, TLAPS

-----------------------------------------------------------------------------
(* The long poll                                                           *)

\* The safety part of Polling.
PollSpec == PollInit /\ [][PollNext]_pollVars

-----------------------------------------------------------------------------
(* The inductive invariant *)

\* What is kept and the offsets are at most one past what is published, and the
\* platform drops nothing from the saved offset on.
Published ==
  /\ published \in Nat /\ kept \in Nat /\ saved \in Nat /\ offset \in Nat
  /\ kept >= 1
  /\ kept <= published + 1 /\ saved <= published + 1 /\ offset <= published + 1
  /\ saved # 0 => kept <= saved

\* Once there is a saved offset the running loop holds it, and a loop that holds an
\* offset has confirmed nothing from there on.
InStep ==
  /\ phase \in {"down", "first", "poll", "handle"}
  /\ phase \in {"down", "first"} => offset = 0
  /\ phase = "first" => saved = 0
  /\ phase \in {"poll", "handle"} /\ saved # 0 => offset = saved
  /\ phase \in {"poll", "handle"} /\ offset # 0 => kept <= offset

\* The updates still to be handled are the next ones, with no gap.
Contiguous ==
  /\ phase = "handle" => \E n \in Nat : n <= published /\ batch = Position..n
  /\ phase # "handle" => batch = {}

PollInv == Published /\ InStep /\ Contiguous

\* The next update to handle has been published or is the next to be.
LEMMA PositionInRange ==
  ASSUME Published, InStep
  PROVE  Position \in Nat /\ Position >= 1 /\ Position <= published + 1
<1>1. CASE phase \in {"poll", "handle"} /\ offset # 0
  BY <1>1 DEF Published, Position
<1>2. CASE phase \in {"first", "down"} /\ saved # 0
  BY <1>2 DEF Published, Position
<1>3. CASE /\ ~(phase \in {"poll", "handle"} /\ offset # 0)
           /\ ~(phase \in {"first", "down"} /\ saved # 0)
  BY <1>3 DEF Published, Position
<1> QED
  BY <1>1, <1>2, <1>3

\* While the loop polls or handles, it asks from the next update to handle.
LEMMA AsksFromPosition ==
  ASSUME Published, InStep, phase \in {"poll", "handle"}
  PROVE  Later(offset, kept) = Position
<1>1. CASE offset # 0
  BY <1>1 DEF Published, InStep, Later, Position
<1>2. CASE offset = 0
  BY <1>2 DEF Published, InStep, Later, Position
<1> QED
  BY <1>1, <1>2

\* The first update of a batch is the next one to handle.
LEMMA FirstIsPosition ==
  ASSUME PollInv, phase = "handle", NEW u \in batch, First(u)
  PROVE  u = Position /\ u \in Nat /\ u >= 1 /\ u <= published
<1>1. PICK n \in Nat : n <= published /\ batch = Position..n
  BY DEF PollInv, Contiguous
<1>2. Position \in Nat /\ Position >= 1
  BY PositionInRange DEF PollInv
<1>3. u \in Nat /\ Position <= u /\ u <= n
  BY <1>1, <1>2
<1>4. Position \in batch
  BY <1>1, <1>2, <1>3
<1>5. u <= Position
  BY <1>4 DEF First
<1> QED
  BY <1>1, <1>2, <1>3, <1>5 DEF PollInv, Published

LEMMA PollInvInit == PollInit => PollInv
<1> SUFFICES ASSUME PollInit PROVE PollInv
  OBVIOUS
<1>1. published \in Nat
  BY PollAssumption DEF PollInit
<1> QED
  BY <1>1 DEF PollInit, PollInv, Published, InStep, Contiguous

-----------------------------------------------------------------------------
(* One lemma per action: the invariant is kept, and the step is one of the   *)
(* abstract listener or none at all                                          *)

Maps == PollInv' /\ [Feed!Next]_(Feed!vars)

LEMMA PublishMaps ==
  ASSUME PollInv, Publish
  PROVE  Maps
<1>1. Published' /\ InStep'
  BY PollAssumption DEF PollInv, Published, InStep, Publish
<1>2. Position' = Position /\ Fresh' = Fresh
  BY DEF Publish, Position, Fresh
<1>3. Contiguous'
  <2>1. CASE phase = "handle"
    <3>1. PICK n \in Nat : n <= published /\ batch = Position..n
      BY <2>1 DEF PollInv, Contiguous
    <3>2. n <= published' /\ batch' = Position'..n
      BY <1>2, <3>1 DEF PollInv, Published, Publish
    <3> QED
      BY <2>1, <3>2 DEF Contiguous, Publish
  <2>2. CASE phase # "handle"
    BY <2>2 DEF PollInv, Contiguous, Publish
  <2> QED
    BY <2>1, <2>2
<1>4. Feed!Publish
  BY <1>2 DEF Feed!Publish, Publish
<1> QED
  BY <1>1, <1>3, <1>4 DEF Maps, PollInv, Feed!Next

LEMMA ListenMaps ==
  ASSUME PollInv, Listen
  PROVE  Maps
<1>1. Published' /\ InStep'
  BY DEF PollInv, Published, InStep, Listen
<1>2. Contiguous'
  BY DEF PollInv, Contiguous, Listen
<1>3. Position' = Position
  BY DEF PollInv, Published, InStep, Listen, Position
<1>4. UNCHANGED Feed!vars
  BY <1>3 DEF Feed!vars, Listen, Fresh
<1> QED
  BY <1>1, <1>2, <1>4 DEF Maps, PollInv

\* A listener that has handled nothing may begin anywhere.
LEMMA FreshSkips ==
  ASSUME PollInv, PollInv', saved = 0, saved' = 0, published' = published
  PROVE  Feed!Next
<1>1. Fresh /\ Fresh' /\ UNCHANGED Fresh
  BY DEF Fresh
<1>2. Position' \in Nat /\ Position' >= 1 /\ Position' <= published' + 1
  <2>1. Published' /\ InStep'
    BY DEF PollInv
  <2>2. ASSUME Published', InStep'
        PROVE  Position' \in Nat /\ Position' >= 1 /\ Position' <= published' + 1
    <3>1. CASE phase' \in {"poll", "handle"} /\ offset' # 0
      BY <2>2, <3>1 DEF Published, Position
    <3>2. CASE phase' \in {"first", "down"} /\ saved' # 0
      BY <2>2, <3>2 DEF Published, Position
    <3>3. CASE /\ ~(phase' \in {"poll", "handle"} /\ offset' # 0)
               /\ ~(phase' \in {"first", "down"} /\ saved' # 0)
      BY <2>2, <3>3 DEF Published, Position
    <3> QED
      BY <3>1, <3>2, <3>3
  <2> QED
    BY <2>1, <2>2
<1>3. Position' \in 1..(published + 1)
  BY <1>2 DEF PollInv, Published
<1> QED
  BY <1>1, <1>3 DEF Feed!Next, Feed!Skip

LEMMA NewestInRange ==
  ASSUME Published
  PROVE  Newest \in Nat /\ Newest >= 1 /\ Newest <= published + 1 /\ kept <= Newest
BY DEF Published, Newest

LEMMA SkipBacklogMaps ==
  ASSUME PollInv, SkipBacklog
  PROVE  Maps
<1>1. Published'
  BY NewestInRange DEF PollInv, Published, InStep, SkipBacklog, Newest
<1>2. InStep'
  BY NewestInRange DEF PollInv, Published, InStep, SkipBacklog, Newest
<1>3. Contiguous'
  BY DEF PollInv, Contiguous, SkipBacklog
<1>4. saved = 0 /\ saved' = 0 /\ published' = published
  BY DEF PollInv, InStep, SkipBacklog
<1> QED
  BY <1>1, <1>2, <1>3, <1>4, FreshSkips DEF Maps, PollInv

LEMMA PollMaps ==
  ASSUME PollInv, Poll
  PROVE  Maps
<1> DEFINE from == Later(offset, kept)
<1>1. from = Position /\ from \in Nat /\ from >= 1 /\ from <= published + 1
  BY PositionInRange, AsksFromPosition DEF PollInv, Poll
<1>2. /\ phase = "poll" /\ phase' = "handle" /\ kept' = from
      /\ batch' = {u \in from..published : u < from + LIMIT}
      /\ UNCHANGED <<published, saved, offset>>
  BY DEF Poll
<1> HIDE DEF from
<1>3. offset # 0 => from = offset
  BY <1>1, <1>2 DEF Position
<1>4. Published'
  BY <1>1, <1>2, <1>3 DEF PollInv, Published, InStep
<1>5. InStep'
  BY <1>1, <1>2, <1>3 DEF PollInv, Published, InStep
<1>6. Position' = Position
  BY <1>1, <1>2, <1>3 DEF Position
<1>7. \E n \in Nat : n <= published /\ batch' = from..n
  <2>1. LIMIT \in Nat /\ LIMIT >= 1 /\ published \in Nat
    BY PollAssumption DEF PollInv, Published
  <2>2. CASE from + LIMIT - 1 <= published
    <3>1. from + LIMIT - 1 \in Nat /\ batch' = from..(from + LIMIT - 1)
      BY <1>1, <1>2, <2>1, <2>2
    <3> QED
      BY <2>2, <3>1
  <2>3. CASE ~(from + LIMIT - 1 <= published)
    <3>1. batch' = from..published
      BY <1>1, <1>2, <2>1, <2>3
    <3> QED
      BY <2>1, <3>1
  <2> QED
    BY <2>2, <2>3
<1>8. Contiguous'
  BY <1>1, <1>2, <1>6, <1>7 DEF Contiguous
<1>9. UNCHANGED Feed!vars
  BY <1>2, <1>6 DEF Feed!vars, Fresh
<1> QED
  BY <1>4, <1>5, <1>8, <1>9 DEF Maps, PollInv

LEMMA HandlerMaps ==
  ASSUME PollInv, Handler
  PROVE  Maps
<1>1. PICK u \in batch :
        /\ phase = "handle"
        /\ First(u)
        /\ offset' = Later(offset, u + 1)
        /\ saved' = offset'
        /\ batch' = batch \ {u}
        /\ UNCHANGED <<published, kept, phase, pollFaults>>
  BY DEF Handler
<1>2. u = Position /\ u \in Nat /\ u >= 1 /\ u <= published
  BY <1>1, FirstIsPosition
<1>3. offset' = u + 1
  BY <1>1, <1>2, AsksFromPosition DEF PollInv, Published, InStep, Later, Position
<1>4. kept <= u
  BY <1>1, <1>2 DEF PollInv, Published, InStep, Position
<1>5. Published' /\ InStep'
  BY <1>1, <1>2, <1>3, <1>4 DEF PollInv, Published, InStep
<1>6. Position' = u + 1
  BY <1>1, <1>2, <1>3 DEF Position
<1>7. Contiguous'
  <2>1. PICK n \in Nat : n <= published /\ batch = u..n
    BY <1>1, <1>2 DEF PollInv, Contiguous
  <2>2. batch' = (u + 1)..n
    BY <1>1, <1>2, <2>1
  <2> QED
    BY <1>1, <1>6, <2>1, <2>2 DEF Contiguous
<1>8. Feed!Handle
  BY <1>1, <1>2, <1>3, <1>6 DEF Feed!Handle, Fresh
<1> QED
  BY <1>5, <1>7, <1>8 DEF Maps, PollInv, Feed!Next

LEMMA BatchDoneMaps ==
  ASSUME PollInv, BatchDone
  PROVE  Maps
<1>1. Published' /\ InStep' /\ Contiguous'
  BY DEF PollInv, Published, InStep, Contiguous, BatchDone
<1>2. UNCHANGED Feed!vars
  BY DEF BatchDone, Feed!vars, Position, Fresh
<1> QED
  BY <1>1, <1>2 DEF Maps, PollInv

LEMMA PollFailsMaps ==
  ASSUME PollInv, PollFails
  PROVE  Maps
<1>1. /\ phase = "poll"
      /\ kept' = kept \/ kept' = Later(offset, kept)
      /\ UNCHANGED <<published, saved, phase, offset, batch>>
  BY DEF PollFails
<1>2. Later(offset, kept) = Position
  BY <1>1, AsksFromPosition DEF PollInv
<1>3. Position \in Nat /\ Position >= 1 /\ Position <= published + 1
  BY PositionInRange DEF PollInv
<1>4. offset # 0 => Position = offset
  BY <1>1 DEF Position
<1>5. offset = 0 => Position = kept
  BY <1>1 DEF Position
<1>6. Published' /\ InStep'
  BY <1>1, <1>2, <1>3, <1>4, <1>5 DEF PollInv, Published, InStep
<1>7. Contiguous'
  BY <1>1 DEF PollInv, Contiguous
<1>8. Position' = Position
  BY <1>1, <1>2, <1>5 DEF Position
<1>9. UNCHANGED Feed!vars
  BY <1>1, <1>8 DEF Feed!vars, Fresh
<1> QED
  BY <1>6, <1>7, <1>9 DEF Maps, PollInv

\* The end of the process: what the platform keeps may have moved, but nothing from
\* the saved offset on is lost.
LEMMA DownMaps ==
  ASSUME PollInv, Down, kept' \in Nat, kept' >= 1, kept' <= published + 1,
         saved # 0 => kept' <= saved /\ Position = saved
  PROVE  Maps
<1>1. /\ phase' = "down" /\ batch' = {} /\ offset' = 0
      /\ UNCHANGED <<published, saved>>
  BY DEF Down
<1>2. PollInv'
  BY <1>1 DEF PollInv, Published, InStep, Contiguous
<1>3. CASE saved = 0
  BY <1>1, <1>2, <1>3, FreshSkips DEF Maps
<1>4. CASE saved # 0
  <2>1. Position' = saved
    BY <1>1, <1>4 DEF Position
  <2>2. UNCHANGED Feed!vars
    BY <1>1, <1>4, <2>1 DEF Feed!vars, Fresh
  <2> QED
    BY <1>2, <2>2 DEF Maps
<1> QED
  BY <1>3, <1>4

\* A listener with a saved offset is at that offset.
LEMMA SavedIsPosition ==
  ASSUME PollInv, saved # 0
  PROVE  Position = saved
BY DEF PollInv, InStep, Position

LEMMA PollRaisesMaps ==
  ASSUME PollInv, PollRaises
  PROVE  Maps
<1>1. phase \in {"first", "poll"} /\ Down
  BY DEF PollRaises
<1>2. CASE phase = "first"
  <2>1. kept' = kept \/ kept' = Newest
    BY <1>2 DEF PollRaises
  <2>2. kept' \in Nat /\ kept' >= 1 /\ kept' <= published + 1
    BY <2>1, NewestInRange DEF PollInv, Published
  <2>3. saved = 0
    BY <1>2 DEF PollInv, InStep
  <2> QED
    BY <1>1, <2>2, <2>3, DownMaps
<1>3. CASE phase = "poll"
  <2>1. kept' = kept \/ kept' = Later(offset, kept)
    BY <1>3 DEF PollRaises
  <2>2. Later(offset, kept) = Position
    BY <1>3, AsksFromPosition DEF PollInv
  <2>3. Position \in Nat /\ Position >= 1 /\ Position <= published + 1
    BY PositionInRange DEF PollInv
  <2>4. kept' \in Nat /\ kept' >= 1 /\ kept' <= published + 1
    BY <2>1, <2>2, <2>3 DEF PollInv, Published
  <2>5. saved # 0 => kept' <= saved /\ Position = saved
    BY <2>1, <2>2, SavedIsPosition DEF PollInv, Published
  <2> QED
    BY <1>1, <2>4, <2>5, DownMaps
<1> QED
  BY <1>1, <1>2, <1>3

LEMMA PollCrashMaps ==
  ASSUME PollInv, PollCrash
  PROVE  Maps
<1>1. Down /\ kept' = kept
  BY DEF PollCrash
<1>2. kept' \in Nat /\ kept' >= 1 /\ kept' <= published + 1
  BY <1>1 DEF PollInv, Published
<1>3. saved # 0 => kept' <= saved /\ Position = saved
  BY <1>1, SavedIsPosition DEF PollInv, Published
<1> QED
  BY <1>1, <1>2, <1>3, DownMaps

LEMMA PollStuttersMaps ==
  ASSUME PollInv, UNCHANGED pollVars
  PROVE  Maps
<1>1. PollInv'
  BY DEF PollInv, Published, InStep, Contiguous, Position, pollVars
<1>2. UNCHANGED Feed!vars
  BY DEF Feed!vars, Position, Fresh, pollVars
<1> QED
  BY <1>1, <1>2 DEF Maps

LEMMA PollStep ==
  ASSUME PollInv, [PollNext]_pollVars
  PROVE  Maps
BY PublishMaps, ListenMaps, SkipBacklogMaps, PollMaps, HandlerMaps, BatchDoneMaps,
   PollFailsMaps, PollRaisesMaps, PollCrashMaps, PollStuttersMaps
   DEF PollNext, Listener

-----------------------------------------------------------------------------
(* Theorems *)

\* The batch a listener works off is the next updates without a gap, and what it
\* has saved is still on the platform, in every reachable state.
THEOREM PollingInvariant == PollSpec => []PollInv
<1>1. PollInit => PollInv
  BY PollInvInit
<1>2. PollInv /\ [PollNext]_pollVars => PollInv'
  BY PollStep DEF Maps
<1> QED
  BY <1>1, <1>2, PTL DEF PollSpec

\* The long poll of ListenEngine implements the abstract listener: once an update
\* has been handled, the later ones are begun in order, none twice and none left
\* out, over failed polls, lost answers, crashes and restarts.
THEOREM PollingImplementsFeed ==
  PollSpec => Feed!Init /\ [][Feed!Next]_(Feed!vars)
<1>1. PollInit => Feed!Init
  <2> SUFFICES ASSUME PollInit PROVE Feed!Init
    OBVIOUS
  <2>1. Position = 1 /\ Fresh = TRUE
    BY DEF PollInit, Position, Fresh
  <2>2. published \in 0..MaxUpdates
    BY DEF PollInit
  <2>3. 1 \in 1..(published + 1)
    BY <2>2, PollAssumption
  <2> QED
    BY <2>1, <2>2, <2>3 DEF Feed!Init
<1>2. PollInv /\ [PollNext]_pollVars => [Feed!Next]_(Feed!vars)
  BY PollStep DEF Maps
<1>3. PollSpec => []PollInv
  BY PollingInvariant
<1> QED
  BY <1>1, <1>2, <1>3, PTL DEF PollSpec

-----------------------------------------------------------------------------
(* The selfbot's knowledge of a chat                                       *)

\* The safety part of BaleSession.
SelfSpec == SelfInit /\ [][SelfNext]_selfVars

-----------------------------------------------------------------------------
(* The inductive invariant *)

\* A date Bale has told is in the store, and memory holds its absence only while the
\* latest report had none.
Dated == known \subseteq metaDates /\ \A m \in known \ undated : dates[m] # "zero"

\* While every lookup is answered, no cache and no coroutine has the chat wrong; in
\* particular a person is never ambiguous.
LookupsAnswered == lookupFaults = 0 /\ blind = 0

Trusted ==
  /\ types \in {"none", Ambiguous, truth}
  /\ types = Ambiguous => truth # "private"
  /\ meta # "none" => (meta = "private" <=> truth = "private")
  /\ \A c \in Caller :
       /\ caller[c].at = "call" => caller[c].type = truth
       /\ caller[c].at = "probe" /\ caller[c].op # "get_chat" =>
            /\ caller[c].cached \in {"none", Ambiguous}
            /\ caller[c].cached = Ambiguous => truth # "private"

SelfInv == SelfTypeOK /\ Dated /\ (LookupsAnswered => Trusted)

\* What a coroutine may be doing.
Doing == [op : {"none", "send", "edit", "delete", "get_chat"},
          at : {"idle", "probe", "user", "call"},
          cached : {"none", "private", "group", "channel", Ambiguous},
          type : {"none", "private", "group", "channel"}]

LEMMA SelfInvInit == SelfInit => SelfInv
<1> SUFFICES ASSUME SelfInit PROVE SelfInv
  OBVIOUS
<1>1. SelfTypeOK
  BY SelfAssumption DEF SelfInit, SelfTypeOK, Idles
<1>2. Dated /\ Trusted
  BY DEF SelfInit, Dated, Trusted, Idles, Ambiguous
<1> QED
  BY <1>1, <1>2 DEF SelfInv

\* A coroutine's step, when the dates stay.
LEMMA CallerStep ==
  ASSUME SelfInv, NEW c \in Caller, NEW s \in Doing, Enters(c, s),
         truth' = truth, UNCHANGED dateVars, selfRestarts' = selfRestarts,
         types' \in {"none", "private", "group", "channel", Ambiguous},
         meta' \in {"none", "private", "group", "channel", Ambiguous},
         lookupFaults' \in 0..MaxLookupFaults, blind' \in 0..MaxLookupFaults,
         LookupsAnswered' =>
           /\ LookupsAnswered
           /\ types' \in {"none", Ambiguous, truth}
           /\ types' = Ambiguous => truth # "private"
           /\ meta' # "none" => (meta' = "private" <=> truth = "private")
           /\ s.at = "call" => s.type = truth
           /\ s.at = "probe" /\ s.op # "get_chat" =>
                s.cached \in {"none", Ambiguous} /\ (s.cached = Ambiguous => truth # "private")
  PROVE  SelfInv'
<1>1. caller' = [caller EXCEPT ![c] = s] /\ caller \in [Caller -> Doing]
  BY DEF Enters, SelfInv, SelfTypeOK, Doing
<1>2. caller' \in [Caller -> Doing]
  BY <1>1
<1>3. SelfTypeOK'
  BY <1>2 DEF SelfInv, SelfTypeOK, Doing, dateVars
<1>4. Dated'
  BY DEF SelfInv, Dated, dateVars
<1>5. ASSUME LookupsAnswered' PROVE Trusted'
  <2>1. Trusted
    BY <1>5 DEF SelfInv
  <2>2. \A d \in Caller : d # c => caller'[d] = caller[d]
    BY <1>1
  <2>3. caller'[c] = s
    BY <1>1
  <2> QED
    BY <1>5, <2>1, <2>2, <2>3 DEF Trusted
<1> QED
  BY <1>3, <1>4, <1>5 DEF SelfInv

-----------------------------------------------------------------------------
(* Updates, and the end of the process *)

LEMMA RememberDateKeeps ==
  ASSUME SelfInv, NEW m \in Msg, NEW dated \in BOOLEAN, RememberDate(m, dated)
  PROVE  /\ dates' \in [Msg -> {"none", "zero", "date"}]
         /\ metaDates' \subseteq Msg /\ known' \subseteq Msg /\ undated' \subseteq Msg
         /\ Dated'
<1>1. /\ dates \in [Msg -> {"none", "zero", "date"}]
      /\ metaDates \subseteq Msg /\ known \subseteq Msg /\ undated \subseteq Msg
  BY DEF SelfInv, SelfTypeOK
<1>2. CASE dated
  <2>1. /\ dates' = [dates EXCEPT ![m] = "date"]
        /\ metaDates' = metaDates \cup {m} /\ known' = known \cup {m}
        /\ undated' = undated \ {m}
    BY <1>2 DEF RememberDate, Reported
  <2>2. \A n \in known' \ undated' : dates'[n] # "zero"
    BY <1>1, <2>1 DEF SelfInv, Dated
  <2> QED
    BY <1>1, <2>1, <2>2 DEF SelfInv, Dated
<1>3. CASE ~dated
  <2>1. /\ dates' = [dates EXCEPT ![m] = "zero"]
        /\ metaDates' = metaDates /\ known' = known
        /\ undated' = undated \cup {m}
    BY <1>3 DEF RememberDate, Reported
  <2>2. \A n \in known' \ undated' : dates'[n] # "zero"
    BY <1>1, <2>1 DEF SelfInv, Dated
  <2> QED
    BY <1>1, <2>1, <2>2 DEF SelfInv, Dated
<1> QED
  BY <1>2, <1>3

LEMMA MessageEventKeeps ==
  ASSUME SelfInv, MessageEvent
  PROVE  SelfInv'
<1>1. PICK raw \in RawTypes, m \in Msg, dated \in BOOLEAN :
        /\ Normalize(raw) /\ RememberDate(m, dated)
        /\ UNCHANGED <<truth, caller, boundVars, blind>>
  BY DEF MessageEvent
<1>2. raw \in {"private", "channel", Ambiguous}
  BY DEF RawTypes
<1>3. SelfTypeOK'
  BY <1>1, <1>2, RememberDateKeeps
     DEF SelfInv, SelfTypeOK, Normalize, Name, boundVars, Ambiguous
<1>4. ASSUME LookupsAnswered' PROVE Trusted'
  <2>1. Trusted /\ truth \in {"private", "group", "channel"}
    BY <1>1, <1>4 DEF SelfInv, SelfTypeOK, LookupsAnswered, boundVars
  <2>2. raw \in {Ambiguous, truth} /\ (raw = Ambiguous => truth # "private")
    BY <2>1 DEF RawTypes, Ambiguous
  <2>3. meta' # "none" => (meta' = "private" <=> truth = "private")
    BY <1>1, <1>2, <2>1, <2>2 DEF Trusted, Normalize, Name, Ambiguous
  <2>4. types' \in {"none", Ambiguous, truth} /\ (types' = Ambiguous => truth # "private")
    BY <1>1, <2>1, <2>2 DEF Trusted, Normalize
  <2> QED
    BY <1>1, <2>1, <2>3, <2>4 DEF Trusted
<1> QED
  BY <1>1, <1>3, <1>4, RememberDateKeeps DEF SelfInv

LEMMA DeletedEventKeeps ==
  ASSUME SelfInv, DeletedEvent
  PROVE  SelfInv'
<1>1. /\ types' = IF truth = "private" THEN "private" ELSE Ambiguous
      /\ UNCHANGED <<truth, meta, dateVars, caller, boundVars, blind>>
  BY DEF DeletedEvent
<1>2. SelfTypeOK' /\ Dated'
  BY <1>1 DEF SelfInv, SelfTypeOK, Dated, dateVars, boundVars
<1>3. ASSUME LookupsAnswered' PROVE Trusted'
  BY <1>1, <1>3 DEF SelfInv, SelfTypeOK, LookupsAnswered, Trusted, boundVars, Ambiguous
<1> QED
  BY <1>2, <1>3 DEF SelfInv

LEMMA SelfRestartKeeps ==
  ASSUME SelfInv, SelfRestart
  PROVE  SelfInv'
<1>1. /\ types' = "none" /\ meta' = "none"
      /\ dates' = [m \in Msg |-> "none"]
      /\ caller' = [c \in Caller |-> Idles]
      /\ undated' = {}
      /\ UNCHANGED <<truth, metaDates, lookupFaults, known, blind>>
      /\ selfRestarts < MaxSelfRestarts /\ selfRestarts' = selfRestarts + 1
  BY DEF SelfRestart
<1>2. SelfTypeOK'
  BY <1>1, SelfAssumption DEF SelfInv, SelfTypeOK, Idles
<1>3. Dated'
  BY <1>1 DEF SelfInv, SelfTypeOK, Dated
<1>4. Trusted'
  BY <1>1 DEF Trusted, Idles, Ambiguous
<1> QED
  BY <1>2, <1>3, <1>4 DEF SelfInv

-----------------------------------------------------------------------------
(* Calls *)

\* What a coroutine has read, and the facts about it while lookups are answered.
LEMMA CallerType ==
  ASSUME SelfInv, NEW c \in Caller
  PROVE  /\ caller[c] \in Doing
         /\ truth \in {"private", "group", "channel"}
         /\ types \in {"none", "private", "group", "channel", Ambiguous}
         /\ meta \in {"none", "private", "group", "channel", Ambiguous}
         /\ lookupFaults \in 0..MaxLookupFaults /\ blind \in 0..MaxLookupFaults
BY DEF SelfInv, SelfTypeOK, Doing

LEMMA StartsKeeps ==
  ASSUME SelfInv, NEW c \in Caller, NEW verb \in {"send", "edit", "delete"}, Starts(c, verb)
  PROVE  SelfInv'
<1> DEFINE s == IF types \in {"none", Ambiguous}
                THEN [op |-> verb, at |-> "probe", cached |-> types, type |-> "none"]
                ELSE [op |-> verb, at |-> "call", cached |-> types, type |-> types]
<1>1. Enters(c, s) /\ UNCHANGED <<truth, types, meta, dateVars, boundVars, blind>>
  BY DEF Starts
<1>2. s \in Doing
  BY CallerType DEF Doing
<1>3. LookupsAnswered' => LookupsAnswered /\ Trusted
  BY <1>1 DEF SelfInv, LookupsAnswered, boundVars
<1>4. LookupsAnswered' =>
        /\ s.at = "call" => s.type = truth
        /\ s.at = "probe" /\ s.op # "get_chat" =>
             s.cached \in {"none", Ambiguous} /\ (s.cached = Ambiguous => truth # "private")
  BY <1>3 DEF Trusted
<1> HIDE DEF s
<1> QED
  BY <1>1, <1>2, <1>3, <1>4, CallerStep, CallerType DEF Trusted, boundVars

LEMMA StartGetChatKeeps ==
  ASSUME SelfInv, NEW c \in Caller, StartGetChat(c)
  PROVE  SelfInv'
<1> DEFINE s == [op |-> "get_chat", at |-> "probe", cached |-> types, type |-> "none"]
<1>1. Enters(c, s) /\ UNCHANGED <<truth, types, meta, dateVars, boundVars, blind>>
  BY DEF StartGetChat
<1>2. s \in Doing /\ s.at = "probe" /\ s.op = "get_chat"
  BY CallerType DEF Doing
<1>3. LookupsAnswered' => LookupsAnswered /\ Trusted
  BY <1>1 DEF SelfInv, LookupsAnswered, boundVars
<1> HIDE DEF s
<1> QED
  BY <1>1, <1>2, <1>3, CallerStep, CallerType DEF Trusted, boundVars

LEMMA ProbeAnswersKeeps ==
  ASSUME SelfInv, NEW c \in Caller, ProbeAnswers(c)
  PROVE  SelfInv'
<1> DEFINE s == [caller[c] EXCEPT !.at = "call", !.type = truth]
<1>1. Enters(c, s) /\ types' = truth /\ meta' = truth
      /\ UNCHANGED <<truth, dateVars, boundVars, blind>>
  BY DEF ProbeAnswers, NoteChat
<1>2. s \in Doing /\ s.at = "call" /\ s.type = truth
  BY CallerType DEF Doing
<1>3. LookupsAnswered' => LookupsAnswered /\ Trusted
  BY <1>1 DEF SelfInv, LookupsAnswered, boundVars
<1>4. truth # Ambiguous /\ truth # "none"
  BY CallerType DEF Ambiguous
<1> HIDE DEF s
<1> QED
  BY <1>1, <1>2, <1>3, <1>4, CallerStep, CallerType DEF boundVars

\* A coroutine that is done.
LEMMA IdlesType == Idles \in Doing /\ Idles.at = "idle"
BY DEF Idles, Doing, Ambiguous

LEMMA ProfileAnswersKeeps ==
  ASSUME SelfInv, NEW c \in Caller, ProfileAnswers(c)
  PROVE  SelfInv'
<1>1. Enters(c, Idles) /\ types' = truth /\ meta' = truth
      /\ UNCHANGED <<truth, dateVars, boundVars, blind>>
  BY DEF ProfileAnswers, NoteChat
<1>2. LookupsAnswered' => LookupsAnswered /\ Trusted
  BY <1>1 DEF SelfInv, LookupsAnswered, boundVars
<1>3. truth # Ambiguous /\ truth # "none"
  BY CallerType DEF Ambiguous
<1> QED
  BY <1>1, <1>2, <1>3, IdlesType, CallerStep, CallerType DEF boundVars

\* A lookup that fails is a fault, unless the chat is a person.
LEMMA LookupFaultCounts ==
  ASSUME SelfInv, LookupFault
  PROVE  /\ lookupFaults' \in 0..MaxLookupFaults
         /\ selfRestarts' = selfRestarts
         /\ lookupFaults' = 0 => lookupFaults = 0 /\ truth = "private"
BY SelfAssumption DEF SelfInv, SelfTypeOK, LookupFault

LEMMA ProbeFailsKeeps ==
  ASSUME SelfInv, NEW c \in Caller, ProbeFails(c)
  PROVE  SelfInv'
<1>1. /\ caller[c].at = "probe" /\ caller[c].op # "get_chat"
      /\ LookupFault
      /\ UNCHANGED <<truth, meta, dateVars, blind>>
  BY DEF ProbeFails
<1>2. LookupsAnswered' => LookupsAnswered /\ Trusted /\ truth = "private"
  BY <1>1, LookupFaultCounts DEF SelfInv, LookupsAnswered
<1>3. CASE caller[c].cached = "none"
  <2> DEFINE s == [caller[c] EXCEPT !.at = "call", !.type = "private"]
  <2>1. Enters(c, s) /\ types' = IF types = "none" THEN "private" ELSE types
    BY <1>3 DEF ProbeFails
  <2>2. s \in Doing /\ s.at = "call" /\ s.type = "private"
    BY CallerType DEF Doing
  <2> HIDE DEF s
  <2>3. LookupsAnswered' => types' \in {"none", Ambiguous, truth} /\ types' # Ambiguous
    BY <1>2, <2>1 DEF Trusted, Ambiguous
  <2> QED
    BY <1>1, <1>2, <2>1, <2>2, <2>3, LookupFaultCounts, CallerStep, CallerType
       DEF Trusted
<1>4. CASE caller[c].cached # "none"
  <2> DEFINE s == [caller[c] EXCEPT !.at = "call", !.type = "group"]
  <2>1. Enters(c, s) /\ types' = types
    BY <1>4 DEF ProbeFails
  <2>2. s \in Doing
    BY CallerType DEF Doing
  <2>3. ~LookupsAnswered'
    BY <1>1, <1>2, <1>4 DEF Trusted
  <2> HIDE DEF s
  <2> QED
    BY <1>1, <2>1, <2>2, <2>3, LookupFaultCounts, CallerStep, CallerType
<1> QED
  BY <1>3, <1>4

LEMMA ProfileFailsKeeps ==
  ASSUME SelfInv, NEW c \in Caller, ProfileFails(c)
  PROVE  SelfInv'
<1> DEFINE s == [caller[c] EXCEPT !.at = "user"]
<1>1. Enters(c, s) /\ LookupFault /\ UNCHANGED <<truth, types, meta, dateVars, blind>>
  BY DEF ProfileFails
<1>2. s \in Doing /\ s.at = "user"
  BY CallerType DEF Doing
<1>3. LookupsAnswered' => LookupsAnswered /\ Trusted
  BY <1>1, LookupFaultCounts DEF SelfInv, LookupsAnswered
<1> HIDE DEF s
<1> QED
  BY <1>1, <1>2, <1>3, LookupFaultCounts, CallerStep, CallerType DEF Trusted

LEMMA UserAnswersKeeps ==
  ASSUME SelfInv, NEW c \in Caller, UserAnswers(c)
  PROVE  SelfInv'
<1>1. /\ truth = "private" /\ Enters(c, Idles) /\ types' = "private" /\ meta' = "private"
      /\ UNCHANGED <<truth, dateVars, boundVars, blind>>
  BY DEF UserAnswers, NoteChat
<1>2. LookupsAnswered' => LookupsAnswered /\ Trusted
  BY <1>1 DEF SelfInv, LookupsAnswered, boundVars
<1> QED
  BY <1>1, <1>2, IdlesType, CallerStep, CallerType DEF boundVars, Ambiguous

LEMMA UserFailsKeeps ==
  ASSUME SelfInv, NEW c \in Caller, UserFails(c)
  PROVE  SelfInv' /\ blind' # blind
<1>1. /\ Enters(c, Idles)
      /\ types' = meta'
      /\ meta' = IF caller[c].cached # "none" THEN caller[c].cached
                 ELSE IF meta # "none" THEN meta ELSE "private"
      /\ blind < MaxLookupFaults /\ blind' = blind + 1
      /\ UNCHANGED <<truth, dateVars, boundVars>>
  BY DEF UserFails, NoteChat
<1>2. meta' \in {"none", "private", "group", "channel", Ambiguous}
  BY <1>1, CallerType DEF Doing
<1>3. blind' \in 0..MaxLookupFaults /\ blind' # 0 /\ blind' # blind
  BY <1>1, CallerType, SelfAssumption
<1>4. ~LookupsAnswered'
  BY <1>3 DEF LookupsAnswered
<1> QED
  BY <1>1, <1>2, <1>3, <1>4, IdlesType, CallerStep, CallerType DEF boundVars

LEMMA SentKeeps ==
  ASSUME SelfInv, NEW c \in Caller, Sent(c)
  PROVE  SelfInv'
<1>1. PICK m \in Msg, dated \in BOOLEAN : RememberDate(m, dated)
  BY DEF Sent
<1>2. /\ caller' = [caller EXCEPT ![c] = Idles]
      /\ UNCHANGED <<truth, types, meta, boundVars, blind>>
  BY DEF Sent, Enters
<1>3. SelfTypeOK'
  BY <1>1, <1>2, RememberDateKeeps, IdlesType
     DEF SelfInv, SelfTypeOK, Doing, boundVars
<1>4. ASSUME LookupsAnswered' PROVE Trusted'
  BY <1>2, <1>4, IdlesType DEF SelfInv, SelfTypeOK, LookupsAnswered, Trusted, boundVars
<1> QED
  BY <1>1, <1>3, <1>4, RememberDateKeeps DEF SelfInv

LEMMA CallEndsKeeps ==
  ASSUME SelfInv, NEW c \in Caller, CallEnds(c)
  PROVE  SelfInv'
<1>1. Enters(c, Idles) /\ UNCHANGED <<truth, types, meta, dateVars, boundVars, blind>>
  BY DEF CallEnds
<1>2. LookupsAnswered' => LookupsAnswered /\ Trusted
  BY <1>1 DEF SelfInv, LookupsAnswered, boundVars
<1> QED
  BY <1>1, <1>2, IdlesType, CallerStep, CallerType DEF Trusted, boundVars

\* The deletion caches what it found, which is the date where one may be expected.
LEMMA DeletedKeeps ==
  ASSUME SelfInv, NEW c \in Caller, Deleted(c)
  PROVE  SelfInv'
<1>1. PICK m \in Msg : dates' = [dates EXCEPT ![m] = DateFor(m)]
  BY DEF Deleted
<1>2. /\ caller' = [caller EXCEPT ![c] = Idles]
      /\ UNCHANGED <<truth, types, meta, metaDates, known, undated, boundVars, blind>>
  BY DEF Deleted, Enters
<1>3. dates \in [Msg -> {"none", "zero", "date"}]
  BY DEF SelfInv, SelfTypeOK
<1>4. DateFor(m) \in {"zero", "date"} /\ (m \in known \ undated => DateFor(m) = "date")
  BY <1>3 DEF SelfInv, Dated, DateFor
<1>5. dates' \in [Msg -> {"none", "zero", "date"}]
  BY <1>1, <1>3, <1>4
<1>6. Dated'
  BY <1>1, <1>2, <1>3, <1>4 DEF SelfInv, Dated, SelfTypeOK
<1>7. SelfTypeOK'
  BY <1>2, <1>5, IdlesType DEF SelfInv, SelfTypeOK, Doing, boundVars
<1>8. ASSUME LookupsAnswered' PROVE Trusted'
  BY <1>2, <1>8, IdlesType DEF SelfInv, SelfTypeOK, LookupsAnswered, Trusted, boundVars
<1> QED
  BY <1>6, <1>7, <1>8 DEF SelfInv

LEMMA SelfStep ==
  ASSUME SelfInv, [SelfNext]_selfVars
  PROVE  SelfInv'
<1>1. CASE UNCHANGED selfVars
  BY <1>1 DEF SelfInv, SelfTypeOK, Dated, LookupsAnswered, Trusted, selfVars
<1>2. ASSUME NEW c \in Caller, StartSend(c) \/ StartEdit(c) \/ StartDelete(c)
      PROVE  SelfInv'
  BY <1>2, StartsKeeps DEF StartSend, StartEdit, StartDelete
<1> QED
  BY <1>1, <1>2, MessageEventKeeps, DeletedEventKeeps, SelfRestartKeeps,
     StartGetChatKeeps, ProbeAnswersKeeps, ProbeFailsKeeps, ProfileAnswersKeeps,
     ProfileFailsKeeps, UserAnswersKeeps, UserFailsKeeps, SentKeeps, DeletedKeeps,
     CallEndsKeeps DEF SelfNext

-----------------------------------------------------------------------------
(* Theorems *)

\* The caches keep their types, and what they know of dates and chats is sound.
THEOREM SelfInvariant == SelfSpec => []SelfInv
<1>1. SelfInit => SelfInv
  BY SelfInvInit
<1>2. SelfInv /\ [SelfNext]_selfVars => SelfInv'
  BY SelfStep
<1> QED
  BY <1>1, <1>2, PTL DEF SelfSpec

\* delete_message has the date of a message Bale has dated, after restarts and after
\* deletions that were tried too early, unless a report without a date has put a 0 over
\* it in memory; the next dated report or a restart brings it back.
THEOREM DeletionsAreDated == SelfSpec => []DeletionsDated
<1>1. SelfInv => DeletionsDated
  BY DEF SelfInv, SelfTypeOK, Dated, DeletionsDated, DateFor
<1> QED
  BY <1>1, SelfInvariant, PTL

\* The kind of a chat is right wherever it is used, while every lookup is answered.
THEOREM TypesAreTrusted == SelfSpec => []TypeTrusted
<1>1. SelfInv => TypeTrusted
  BY DEF SelfInv, LookupsAnswered, Trusted, TypeTrusted
<1> QED
  BY <1>1, SelfInvariant, PTL

\* The right kind of a chat, once cached, is not taken away by a probe that began
\* before it was known, nor by an update that tells less.
THEOREM RightTypesStay == SelfSpec => RightTypeStays
<1> DEFINE Stays == types = truth => \/ types' = truth
                                     \/ selfRestarts' # selfRestarts
                                     \/ blind' # blind
<1>1. ASSUME SelfInv, [SelfNext]_selfVars PROVE [Stays]_selfVars
  <2> SUFFICES ASSUME SelfNext, types = truth PROVE Stays
    BY <1>1
  <2>1. truth \in {"private", "group", "channel"} /\ selfRestarts \in Nat
    BY <1>1, SelfAssumption DEF SelfInv, SelfTypeOK
  <2>2. truth # "none" /\ truth # Ambiguous
    BY <2>1 DEF Ambiguous
  <2>3. ASSUME MessageEvent PROVE types' = truth
    BY <2>1, <2>2, <2>3 DEF MessageEvent, Normalize, RawTypes, Ambiguous
  <2>4. ASSUME SelfRestart PROVE selfRestarts' # selfRestarts
    BY <2>1, <2>4 DEF SelfRestart
  <2>5. ASSUME NEW c \in Caller, UserFails(c) PROVE blind' # blind
    BY <1>1, <2>5, UserFailsKeeps
  <2>6. ASSUME NEW c \in Caller,
               \/ StartSend(c) \/ StartEdit(c) \/ StartDelete(c) \/ StartGetChat(c)
               \/ ProfileFails(c) \/ Sent(c) \/ Deleted(c) \/ CallEnds(c)
        PROVE  types' = truth
    BY <2>6 DEF StartSend, StartEdit, StartDelete, Starts, StartGetChat, ProfileFails,
                Sent, Deleted, CallEnds
  <2>7. ASSUME NEW c \in Caller, ProbeAnswers(c) \/ ProfileAnswers(c) \/ UserAnswers(c)
        PROVE  types' = truth
    BY <2>7 DEF ProbeAnswers, ProfileAnswers, UserAnswers, NoteChat
  <2>8. ASSUME NEW c \in Caller, ProbeFails(c) PROVE types' = truth
    BY <2>2, <2>8 DEF ProbeFails
  <2>9. ~DeletedEvent
    BY <2>2 DEF DeletedEvent
  <2> QED
    BY <2>3, <2>4, <2>5, <2>6, <2>7, <2>8, <2>9 DEF SelfNext
<1>2. SelfSpec => [][Stays]_selfVars
  BY <1>1, SelfInvariant, PTL DEF SelfSpec
<1> QED
  BY <1>2 DEF RightTypeStays

-----------------------------------------------------------------------------
(* The copies of one job                                                 *)

\* The safety part of AlbumCopy.
AlbumSpec == AlbumInit /\ [][AlbumNext]_albumVars

\* The first n of f are different.
Apart(f, n) == \A a, b \in 1..n : f[a] = f[b] => a = b

\* What is posted, and a call as its caller sees it.
PostContent == [of : Nat \ {0}, as : {"part", "copy", "notice"}]
CallRec ==
  [state : {"idle", "trying", "ok", "failed"}, attempt : Nat,
   what : Seq(PostContent), ids : Seq(Nat)]

\* An id a call has learnt is of a post with the content that was asked for, no two
\* are the same, and only a call that has learnt all of them succeeds.
CallInv ==
  /\ call \in CallRec /\ posts \in Seq(PostContent) /\ netFaults \in Nat
  /\ Len(call.what) <= Len(items) /\ Len(call.ids) <= Len(call.what)
  /\ call.state = "trying" => /\ Len(call.ids) < Len(call.what)
                              /\ client = "selfbot" \/ Len(call.ids) = 0
  /\ call.state = "ok" => Len(call.ids) = Len(call.what)
  /\ call.state = "idle" => Len(call.ids) = 0
  /\ \A n \in 1..Len(call.ids) :
       call.ids[n] \in 1..Len(posts) /\ posts[call.ids[n]] = call.what[n]
  /\ Apart(call.ids, Len(call.ids))

\* The call under way is the one of the stage.
StageInv ==
  /\ Len(items) \in Nat \ {0} /\ at \in Nat \ {0}
  /\ Album => items[1] \notin {"text", "venue"}
  /\ stage \in {"load", "walk", "alone", "parts", "group", "single", "sending", "notice",
                "recorded", "failed"}
  /\ call.state = "idle" <=> stage \notin {"alone", "parts", "group", "sending", "notice"}
  /\ stage = "load" => at = 1 /\ Len(group) = 0 /\ Len(results) = 0
  /\ stage = "parts" => /\ items[1] \in {"text", "venue"} /\ call.what = Content(1, "part")
                        /\ at \in 1..Parts
  /\ stage \in {"walk", "alone", "group", "single", "sending", "notice"} =>
       items[1] \notin {"text", "venue"}
  /\ stage = "walk" => at <= Len(items) + 1
  /\ stage = "alone" => /\ at <= Len(items) /\ Len(call.what) = 1
                        /\ call.what[1].of = at
  /\ stage = "group" => /\ at = 1 /\ Len(call.what) = Len(group)
                        /\ \A n \in 1..Len(group) : call.what[n].of = group[n]
  /\ stage = "single" => at <= Len(group) + 1
  /\ stage \in {"sending", "notice"} => /\ at <= Len(group) /\ Len(call.what) = 1
                                        /\ call.what[1].of = group[at]

\* Copies known to the job are copies of what they are noted for, and each is known
\* once.
ResultsInv ==
  /\ group \in Seq(1..Len(items)) /\ results \in Seq(Nat \X Nat)
  /\ \A n \in 1..Len(results) :
       /\ results[n][1] \in 1..Len(items) /\ results[n][2] \in 1..Len(posts)
       /\ posts[results[n][2]].of = results[n][1]
  /\ \A n, m \in 1..Len(results) : results[n][2] = results[m][2] => n = m
  /\ \A n \in 1..Len(results), m \in 1..Len(call.ids) : results[n][2] # call.ids[m]

\* The ledger gets them at the end.
LedgerInv == stage = "recorded" => ledger = {results[n] : n \in 1..Len(results)}

\* The messages with a copy, those the album still owes one, and how far the job is.
Given == {results[n][1] : n \in 1..Len(results)}
Owed ==
  {group[n] : n \in IF stage \in {"single", "sending", "notice"}
                    THEN at..Len(group) ELSE 1..Len(group)}
Reached == IF stage \in {"load", "walk", "alone"} THEN 1..(at - 1) ELSE 1..Len(items)

\* A message of an album is in one place: it has its copy, or the album owes it one, or
\* it is still to come.
PlaceInv ==
  stage \in {"walk", "alone", "group", "single", "sending", "notice", "recorded"}
  /\ items[1] \notin {"text", "venue"} =>
    /\ \A n, m \in 1..Len(results) : results[n][1] = results[m][1] => n = m
    /\ stage = "recorded" => Given = 1..Len(items)
    /\ stage # "recorded" =>
         /\ \A n, m \in 1..Len(group) : group[n] = group[m] => n = m
         /\ Given \cup Owed = Reached /\ Given \cap Owed = {}

\* The location of a venue, once its id has been dropped.
Dropped == IF items[1] = "venue" /\ at > 1 THEN 1 ELSE 0

\* Every post is known to the job, or to its call, or was paid for by a fault.
TallyInv ==
  stage # "failed" =>
    Len(posts) <= Len(results) + (IF call.state = "failed" THEN 0 ELSE Len(call.ids))
                    + netFaults * Len(items) + Dropped

AlbumInv == CallInv /\ StageInv /\ ResultsInv /\ LedgerInv /\ PlaceInv /\ TallyInv

\* The sequence functions the steps below use.
LEMMA Appended ==
  ASSUME NEW S, NEW sq \in Seq(S), NEW e \in S
  PROVE  /\ Append(sq, e) \in Seq(S) /\ Len(Append(sq, e)) = Len(sq) + 1
         /\ \A n \in 1..Len(sq) : Append(sq, e)[n] = sq[n]
         /\ Append(sq, e)[Len(sq) + 1] = e
  OBVIOUS

LEMMA Joined ==
  ASSUME NEW S, NEW sq \in Seq(S), NEW r \in Seq(S), NEW u, u = sq \o r,
         NEW I \in Nat, I = Len(sq), NEW g \in Nat, g = Len(r), NEW N, N = I + g
  PROVE  /\ u \in Seq(S) /\ Len(u) = N
         /\ \A n \in 1..I : u[n] = sq[n]
         /\ \A n \in 1..g : u[I + n] = r[n]
  OBVIOUS

\* Ids of new posts, after those of earlier ones.
Within(ids, I, P) == \A n \in 1..I : ids[n] \in 1..P
Follow(ids, I, g, P) == \A k \in 1..g : ids[I + k] = P + k
Above(ids, I, N, P) == \A n \in 1..N : n > I => ids[n] > P

LEMMA NewDiffer ==
  ASSUME NEW P \in Nat, NEW g \in Nat, NEW I \in Nat, NEW ids,
         Within(ids, I, P), Apart(ids, I), Follow(ids, I, g, P), NEW N, N = I + g
  PROVE  Above(ids, I, N, P) /\ Apart(ids, N)
<1>1. ASSUME NEW n \in 1..N, n > I PROVE \E k \in 1..g : n = I + k /\ ids[n] = P + k
  <2>1. n - I \in 1..g /\ n = I + (n - I)
    BY <1>1
  <2> QED
    BY <2>1 DEF Follow
<1>2. Above(ids, I, N, P)
  BY <1>1 DEF Above
<1>3. ASSUME NEW n \in 1..N, NEW m \in 1..N, ids[n] = ids[m]
      PROVE  n = m
  <2>1. CASE n <= I /\ m <= I
    <3>1. n \in 1..I /\ m \in 1..I
      BY <2>1
    <3> QED
      BY <1>3, <3>1 DEF Apart
  <2>2. CASE n > I /\ m > I
    BY <1>1, <1>3, <2>2
  <2>3. CASE n <= I /\ m > I
    <3>1. n \in 1..I
      BY <2>3
    <3> QED
      BY <1>1, <1>3, <2>3, <3>1 DEF Within
  <2>4. CASE n > I /\ m <= I
    <3>1. m \in 1..I
      BY <2>4
    <3> QED
      BY <1>1, <1>3, <2>4, <3>1 DEF Within
  <2> QED
    BY <2>1, <2>2, <2>3, <2>4
<1> QED
  BY <1>2, <1>3 DEF Apart

\* What one request posts is the part of the content that has not been answered.
LEMMA RequestFacts ==
  ASSUME CallInv, Trying
  PROVE  /\ Request \in Seq(PostContent) /\ Len(Request) \in Nat \ {0}
         /\ Len(Request) + Len(call.ids) <= Len(call.what)
         /\ \A n \in 1..Len(Request) : Request[n] = call.what[Len(call.ids) + n]
<1>1. call.what \in Seq(PostContent) /\ call.ids \in Seq(Nat) /\ Len(call.ids) < Len(call.what)
  BY DEF CallInv, CallRec, Trying
<1>2. Len(call.what) \in Nat /\ Len(call.ids) \in Nat
  BY <1>1
<1>3. CASE client = "selfbot"
  <2>1. PICK e : e = call.what[Len(call.ids) + 1]
    OBVIOUS
  <2>2. e \in PostContent
    BY <1>1, <1>2, <2>1
  <2>3. Request = <<e>>
    BY <1>3, <2>1 DEF Request
  <2> QED
    BY <1>1, <1>2, <2>1, <2>2, <2>3
<1>4. CASE client # "selfbot"
  <2>1. Len(call.ids) = 0 /\ Request = call.what
    BY <1>4 DEF CallInv, Trying, Request
  <2> QED
    BY <1>1, <1>2, <2>1
<1> QED
  BY <1>3, <1>4

\* Whether a request was carried out or not, the posts there were stay.
LEMMA PostsGrow ==
  ASSUME CallInv, Trying, Posted \/ UNCHANGED posts
  PROVE  /\ posts' \in Seq(PostContent)
         /\ Len(posts') >= Len(posts) /\ Len(posts') <= Len(posts) + Len(Request)
         /\ \A k \in 1..Len(posts) : k \in 1..Len(posts') /\ posts'[k] = posts[k]
         /\ Posted => /\ Len(posts') = Len(posts) + Len(Request)
                      /\ \A n \in 1..Len(Request) : posts'[Len(posts) + n] = Request[n]
<1>1. PICK R : R = Request
  OBVIOUS
<1>2. R \in Seq(PostContent) /\ posts \in Seq(PostContent)
  BY <1>1, RequestFacts DEF CallInv
<1>3. Len(R) \in Nat /\ Len(posts) \in Nat
  BY <1>2
<1>4. CASE posts' = posts \o R
  <2>1. posts' \in Seq(PostContent) /\ Len(posts') = Len(posts) + Len(R)
        /\ (\A k \in 1..Len(posts) : posts'[k] = posts[k])
        /\ \A n \in 1..Len(R) : posts'[Len(posts) + n] = R[n]
    BY <1>2, <1>3, <1>4, Joined
  <2> QED
    BY <1>1, <1>3, <2>1
<1>5. CASE posts' = posts /\ ~Posted
  BY <1>1, <1>2, <1>3, <1>5
<1> QED
  BY <1>1, <1>4, <1>5 DEF Posted

\* The call keeps its invariant.  Each fault pays for no more than one album of posts,
\* and without one every post is learnt of.
LEMMA CallStep ==
  ASSUME CallInv, SendNext, UNCHANGED items, Len(items) \in Nat
  PROVE  /\ CallInv' /\ call'.what = call.what /\ call'.state # "idle" /\ Trying
         /\ Len(posts') >= Len(posts)
         /\ \A k \in 1..Len(posts) : k \in 1..Len(posts') /\ posts'[k] = posts[k]
         /\ Len(call.ids) <= Len(call'.ids)
         /\ \A n \in 1..Len(call.ids) : call'.ids[n] = call.ids[n]
         /\ \A n \in 1..Len(call'.ids) : n > Len(call.ids) => call'.ids[n] > Len(posts)
         /\ \/ /\ netFaults' = netFaults /\ call'.state # "failed"
               /\ Len(posts') = Len(posts) + Len(call'.ids) - Len(call.ids)
            \/ /\ netFaults' = netFaults + 1 /\ call'.ids = call.ids
               /\ Len(posts') + Len(call.ids) <= Len(posts) + Len(items)
<1>0. /\ Trying /\ call \in CallRec /\ posts \in Seq(PostContent) /\ netFaults \in Nat
      /\ client' = client
  BY DEF CallInv, SendNext, Answered, Refused, RateLimited, NetworkLost, EmptyBody
<1>1. /\ call.what \in Seq(PostContent) /\ call.ids \in Seq(Nat) /\ call.attempt \in Nat
      /\ Len(call.ids) \in Nat /\ Len(call.what) \in Nat /\ Len(posts) \in Nat
      /\ Len(call.ids) < Len(call.what) /\ Len(call.what) <= Len(items)
  BY <1>0 DEF CallRec, CallInv, Trying
<1>2. CASE Answered
  <2>1. PICK R : R = Request
    OBVIOUS
  <2>2. R \in Seq(PostContent) /\ Len(R) \in Nat \ {0}
        /\ Len(R) + Len(call.ids) <= Len(call.what)
        /\ \A n \in 1..Len(R) : R[n] = call.what[Len(call.ids) + n]
    BY <1>0, <2>1, RequestFacts
  <2>3. PICK I \in Nat : I = Len(call.ids)
    BY <1>1
  <2>4. PICK P \in Nat : P = Len(posts)
    BY <1>1
  <2>5. PICK g \in Nat \ {0} : g = Len(R)
    BY <2>2
  <2>6. PICK new : new = [k \in 1..g |-> P + k]
    OBVIOUS
  <2>60. PICK ids : ids = call.ids \o new
    OBVIOUS
  <2>61. PICK N : N = I + g
    OBVIOUS
  <2>62. new \in Seq(Nat) /\ Len(new) = g /\ \A k \in 1..g : new[k] = P + k
    BY <2>6
  <2>7. /\ ids \in Seq(Nat) /\ Len(ids) = N
        /\ \A n \in 1..I : ids[n] = call.ids[n]
        /\ Follow(ids, I, g, P) /\ Above(ids, I, N, P) /\ Apart(ids, N)
    <3>1. PICK old : old = call.ids
      OBVIOUS
    <3>2. old \in Seq(Nat) /\ ids = old \o new /\ I = Len(old) /\ g \in Nat
      BY <1>1, <2>3, <2>60, <3>1
    <3>3. /\ ids \in Seq(Nat) /\ Len(ids) = N
          /\ \A n \in 1..I : ids[n] = old[n]
          /\ \A n \in 1..g : ids[I + n] = new[n]
      <4>1. new \in Seq(Nat) /\ Len(new) = g
        BY <2>62
      <4>2. ids \in Seq(Nat)
        BY <3>2, <4>1
      <4>3. Len(ids) = Len(old) + Len(new)
        <5>1. old \in Seq(Nat) /\ new \in Seq(Nat)
          BY <3>2, <4>1
        <5>2. Len(old \o new) = Len(old) + Len(new)
          BY <5>1
        <5> QED
          BY <3>2, <5>2, Zenon
      <4>4. \A n \in 1..I : ids[n] = old[n]
        BY <3>2, <4>1
      <4>5. \A n \in 1..g : ids[I + n] = new[n]
        BY <3>2, <4>1
      <4>6. Len(ids) = N
        BY <2>61, <3>2, <4>1, <4>3
      <4> QED
        BY <4>2, <4>4, <4>5, <4>6
    <3>4. Within(ids, I, P)
      BY <2>3, <2>4, <3>1, <3>3 DEF CallInv, Within
    <3>5. Apart(ids, I)
      BY <2>3, <3>1, <3>3 DEF CallInv, Apart
    <3>6. Follow(ids, I, g, P)
      BY <2>62, <3>3 DEF Follow
    <3>7. Above(ids, I, N, P) /\ Apart(ids, N)
      BY <2>61, <3>2, <3>4, <3>5, <3>6, NewDiffer
    <3> QED
      BY <3>1, <3>3, <3>6, <3>7
  <2>8. Posted /\ netFaults' = netFaults
        /\ call' = [call EXCEPT !.ids = ids,
                                !.state = IF Len(ids) = Len(call.what) THEN "ok" ELSE @]
    BY <1>2, <2>1, <2>4, <2>5, <2>6, <2>60 DEF Answered, Ids
  <2>9. /\ call' \in CallRec /\ call'.ids = ids /\ call'.what = call.what
        /\ call'.state = IF I + g = Len(call.what) THEN "ok" ELSE "trying"
    BY <1>0, <2>61, <2>7, <2>8 DEF CallRec, Trying
  <2>10. /\ posts' \in Seq(PostContent) /\ Len(posts') = P + g
         /\ \A k \in 1..P : k \in 1..Len(posts') /\ posts'[k] = posts[k]
         /\ \A n \in 1..g : posts'[P + n] = R[n]
    BY <1>0, <2>1, <2>4, <2>5, <2>8, PostsGrow
  <2>11. \A n \in 1..(I + g) : ids[n] \in 1..(P + g) /\ posts'[ids[n]] = call.what[n]
    <3> SUFFICES ASSUME NEW n \in 1..(I + g)
                 PROVE  ids[n] \in 1..(P + g) /\ posts'[ids[n]] = call.what[n]
      OBVIOUS
    <3>1. CASE n <= I
      <4>1. n \in 1..I
        BY <3>1
      <4>2. PICK k \in 1..P : k = call.ids[n] /\ posts[k] = call.what[n]
        BY <2>3, <2>4, <4>1 DEF CallInv
      <4>3. k \in 1..(P + g)
        BY <4>2
      <4> QED
        BY <2>61, <2>7, <2>10, <4>1, <4>2, <4>3
    <3>2. CASE n > I
      <4>1. PICK k : k = n - I
        OBVIOUS
      <4>2. k \in 1..g /\ n = I + k
        BY <3>2, <4>1
      <4>3. ids[n] = P + k
        BY <2>61, <2>7, <4>2 DEF Follow
      <4>4. posts'[P + k] = R[k] /\ R[k] = call.what[n]
        BY <2>2, <2>3, <2>5, <2>10, <4>2
      <4>5. P + k \in 1..(P + g)
        BY <4>2
      <4> QED
        BY <4>3, <4>4, <4>5
    <3> QED
      BY <3>1, <3>2
  <2>12. I + g < Len(call.what) \/ I + g = Len(call.what)
    <3>1. PICK W \in Nat : W = Len(call.what)
      BY <1>1
    <3>2. I + g <= W
      BY <2>2, <2>3, <2>5, <3>1
    <3> QED
      BY <3>1, <3>2
  <2>13. call'.state = "trying" => I + g < Len(call.what) /\ client = "selfbot"
    <3>1. CASE client = "selfbot"
      BY <2>9, <2>12, <3>1
    <3>2. CASE client # "selfbot"
      <4>1. R = call.what /\ Len(call.ids) = 0
        BY <1>0, <2>1, <3>2 DEF Request, CallInv, Trying
      <4>2. I + g = Len(call.what)
        BY <2>3, <2>5, <4>1
      <4> QED
        BY <2>9, <4>2
    <3> QED
      BY <3>1, <3>2
  <2>14. call'.state # "failed" /\ call'.state # "idle"
    BY <2>9
  <2>15. CallInv'
    <3>1. Len(call'.ids) <= Len(call'.what) /\ Len(call'.what) <= Len(items')
      BY <1>1, <2>61, <2>7, <2>9, <2>12
    <3>2. call'.state = "ok" => Len(call'.ids) = Len(call'.what)
      BY <2>61, <2>7, <2>9
    <3>3. call'.state = "trying" => Len(call'.ids) < Len(call'.what) /\ client' = "selfbot"
      BY <1>0, <2>61, <2>7, <2>9, <2>13
    <3>4. netFaults' \in Nat
      BY <1>0, <2>8
    <3> QED
      BY <2>61, <2>7, <2>9, <2>10, <2>11, <2>14, <3>1, <3>2, <3>3, <3>4 DEF CallInv
  <2>16. Len(posts') = Len(posts) + Len(call'.ids) - Len(call.ids) /\ Len(posts') >= Len(posts)
    <3>1. Len(posts') = P + g /\ Len(call'.ids) = I + g
      BY <2>61, <2>7, <2>9, <2>10
    <3> QED
      BY <2>3, <2>4, <3>1
  <2>17. Len(call.ids) <= Len(call'.ids)
    BY <2>3, <2>61, <2>7, <2>9
  <2>18. /\ \A n \in 1..Len(call.ids) : call'.ids[n] = call.ids[n]
         /\ \A n \in 1..Len(call'.ids) : n > Len(call.ids) => call'.ids[n] > Len(posts)
    BY <2>3, <2>4, <2>61, <2>7, <2>9 DEF Above
  <2>19. \A k \in 1..Len(posts) : k \in 1..Len(posts') /\ posts'[k] = posts[k]
    BY <2>4, <2>10
  <2> QED
    BY <1>0, <2>8, <2>9, <2>14, <2>15, <2>16, <2>17, <2>18, <2>19
<1>3. ASSUME Posted \/ UNCHANGED posts, NetFault, Again \/ Ends("failed"),
             client = "botapi" \/ UNCHANGED posts \/ Ends("failed")
      PROVE  /\ CallInv' /\ call'.what = call.what /\ call'.state # "idle" /\ Trying
             /\ Len(posts') >= Len(posts)
             /\ \A k \in 1..Len(posts) : k \in 1..Len(posts') /\ posts'[k] = posts[k]
             /\ netFaults' = netFaults + 1 /\ call'.ids = call.ids
             /\ Len(posts') + Len(call.ids) <= Len(posts) + Len(items)
  <2>1. /\ call' \in CallRec /\ call'.ids = call.ids /\ call'.what = call.what
        /\ call'.state \in {"trying", "failed"}
    BY <1>0, <1>1, <1>3 DEF Again, Ends, CallRec, Trying
  <2>2. /\ posts' \in Seq(PostContent) /\ Len(posts') >= Len(posts)
        /\ Len(posts') <= Len(posts) + Len(Request)
        /\ \A k \in 1..Len(posts) : k \in 1..Len(posts') /\ posts'[k] = posts[k]
    BY <1>0, <1>3, PostsGrow
  <2>3. PICK g : g = Len(Request)
    OBVIOUS
  <2>4. g \in Nat /\ g + Len(call.ids) <= Len(call.what)
    BY <1>0, <2>3, RequestFacts
  <2>5. Len(posts') \in Nat
    BY <2>2
  <2>6. Len(posts') + Len(call.ids) <= Len(posts) + Len(items)
    BY <1>1, <2>2, <2>3, <2>4, <2>5
  <2>7. \A n \in 1..Len(call.ids) :
          call.ids[n] \in 1..Len(posts') /\ posts'[call.ids[n]] = call.what[n]
    <3> SUFFICES ASSUME NEW n \in 1..Len(call.ids)
                 PROVE  call.ids[n] \in 1..Len(posts') /\ posts'[call.ids[n]] = call.what[n]
      OBVIOUS
    <3>1. PICK k \in 1..Len(posts) : k = call.ids[n] /\ posts[k] = call.what[n]
      BY DEF CallInv
    <3> QED
      BY <2>2, <3>1
  <2>8. netFaults' = netFaults + 1 /\ netFaults' \in Nat
    BY <1>0, <1>3 DEF NetFault
  <2>9. CallInv'
    <3>1. client' = "selfbot" \/ Len(call'.ids) = 0
      BY <1>0, <2>1 DEF CallInv, Trying
    <3>2. Len(call'.ids) < Len(call'.what) /\ Len(call'.what) <= Len(items')
      BY <1>1, <2>1
    <3>3. Len(call'.ids) <= Len(call'.what)
      BY <1>1, <2>1
    <3>4. Apart(call'.ids, Len(call'.ids))
      BY <2>1 DEF CallInv
    <3> QED
      BY <2>1, <2>2, <2>7, <2>8, <3>1, <3>2, <3>3, <3>4 DEF CallInv
  <2> QED
    BY <1>0, <2>1, <2>2, <2>6, <2>8, <2>9
<1>4. CASE Refused
  BY <1>0, <1>1, <1>3, <1>4 DEF Refused
<1>5. CASE RateLimited
  BY <1>0, <1>1, <1>3, <1>5 DEF RateLimited
<1>6. CASE NetworkLost
  BY <1>0, <1>1, <1>3, <1>6 DEF NetworkLost
<1>7. CASE EmptyBody
  BY <1>0, <1>1, <1>3, <1>7 DEF EmptyBody
<1> QED
  BY <1>2, <1>4, <1>5, <1>6, <1>7 DEF SendNext

\* What the steps of the job do to the call: nothing is under way, or a new one.
LEMMA Rests ==
  ASSUME AlbumInv, call' = NoCall, UNCHANGED <<posts, items>>, netFaults' \in Nat
  PROVE  CallInv' /\ call'.state = "idle" /\ Len(call'.ids) = 0
<1>1. NoCall \in CallRec /\ NoCall.state = "idle" /\ NoCall.ids = <<>> /\ NoCall.what = <<>>
  BY DEF NoCall, CallRec
<1>2. posts \in Seq(PostContent) /\ Len(items) \in Nat
  BY DEF AlbumInv, CallInv, StageInv
<1> QED
  BY <1>1, <1>2 DEF CallInv, Apart

LEMMA Sends ==
  ASSUME AlbumInv, NEW what \in Seq(PostContent), Len(what) # 0, Len(what) <= Len(items),
         Send(what), UNCHANGED <<posts, items, netFaults>>
  PROVE  CallInv' /\ call'.state = "trying" /\ call'.what = what /\ Len(call'.ids) = 0
<1>1. /\ call' \in CallRec /\ call'.state = "trying" /\ call'.ids = <<>> /\ call'.what = what
  <2>1. NoCall \in CallRec /\ NoCall.ids = <<>>
    BY DEF NoCall, CallRec
  <2>2. call' = [[NoCall EXCEPT !.state = "trying"] EXCEPT !.what = what]
    BY DEF Send
  <2> QED
    BY <2>1, <2>2 DEF CallRec
<1>2. posts \in Seq(PostContent) /\ netFaults \in Nat
  BY DEF AlbumInv, CallInv
<1>3. Len(what) \in Nat
  OBVIOUS
<1>4. Len(call'.ids) = 0
  BY <1>1
<1> QED
  BY <1>1, <1>2, <1>3, <1>4 DEF CallInv, Apart

\* A call goes on.
LEMMA CallingStep == AlbumInv /\ Calling => AlbumInv'
<1> SUFFICES ASSUME AlbumInv, Calling PROVE AlbumInv'
  OBVIOUS
<1>0. /\ CallInv /\ StageInv /\ ResultsInv /\ LedgerInv /\ PlaceInv /\ TallyInv /\ SendNext
      /\ items' = items /\ stage' = stage /\ at' = at /\ group' = group /\ results' = results
      /\ ledger' = ledger
  BY DEF AlbumInv, Calling, jobVars
<1>1. Len(items) \in Nat
  BY <1>0 DEF StageInv
<1>2. /\ CallInv' /\ call'.what = call.what /\ call'.state # "idle" /\ Trying
      /\ Len(posts') >= Len(posts)
      /\ \A k \in 1..Len(posts) : k \in 1..Len(posts') /\ posts'[k] = posts[k]
      /\ Len(call.ids) <= Len(call'.ids)
      /\ \A n \in 1..Len(call.ids) : call'.ids[n] = call.ids[n]
      /\ \A n \in 1..Len(call'.ids) : n > Len(call.ids) => call'.ids[n] > Len(posts)
      /\ \/ /\ netFaults' = netFaults /\ call'.state # "failed"
            /\ Len(posts') = Len(posts) + Len(call'.ids) - Len(call.ids)
         \/ /\ netFaults' = netFaults + 1 /\ call'.ids = call.ids
            /\ Len(posts') + Len(call.ids) <= Len(posts) + Len(items)
  BY <1>0, <1>1, CallStep
<1>3. StageInv'
  BY <1>0, <1>2 DEF StageInv, Trying, Album
<1>4. ResultsInv'
  <2>1. ASSUME NEW n \in 1..Len(results)
        PROVE  /\ results[n][1] \in 1..Len(items) /\ results[n][2] \in 1..Len(posts')
               /\ posts'[results[n][2]].of = results[n][1]
    <3>1. PICK k \in 1..Len(posts) : k = results[n][2] /\ posts[k].of = results[n][1]
      BY <1>0 DEF ResultsInv
    <3> QED
      BY <1>0, <1>2, <3>1 DEF ResultsInv
  <2>2. ASSUME NEW n \in 1..Len(results), NEW m \in 1..Len(call'.ids)
        PROVE  results[n][2] # call'.ids[m]
    <3>1. CASE m <= Len(call.ids)
      <4>1. m \in 1..Len(call.ids)
        BY <1>0, <3>1 DEF CallInv, CallRec
      <4>2. results[n][2] # call.ids[m]
        BY <1>0, <4>1 DEF ResultsInv
      <4>3. call'.ids[m] = call.ids[m]
        BY <1>2, <4>1
      <4> QED
        BY <4>2, <4>3
    <3>2. CASE m > Len(call.ids)
      <4>1. PICK k \in 1..Len(posts) : k = results[n][2]
        BY <1>0 DEF ResultsInv
      <4>2. call'.ids[m] > Len(posts)
        BY <1>2, <3>2
      <4>3. Len(posts) \in Nat
        BY <1>0 DEF CallInv
      <4> QED
        BY <4>1, <4>2, <4>3
    <3>3. Len(call.ids) \in Nat
      BY <1>0 DEF CallInv, CallRec
    <3> QED
      BY <3>1, <3>2, <3>3
  <2> QED
    BY <1>0, <2>1, <2>2 DEF ResultsInv
<1>5. LedgerInv' /\ PlaceInv'
  <2>1. Given' = Given /\ Owed' = Owed /\ Reached' = Reached
    BY <1>0 DEF Given, Owed, Reached
  <2>2. LedgerInv'
    BY <1>0 DEF LedgerInv
  <2>3. PlaceInv'
    BY <1>0, <2>1 DEF PlaceInv
  <2> QED
    BY <2>2, <2>3
<1>6. TallyInv'
  <2>1. PICK P \in Nat, Q \in Nat, I \in Nat, J \in Nat, F \in Nat, L \in Nat, R \in Nat, D \in Nat :
          /\ P = Len(posts) /\ Q = Len(posts') /\ I = Len(call.ids) /\ J = Len(call'.ids)
          /\ F = netFaults /\ L = Len(items) /\ R = Len(results) /\ D = Dropped
    <3>1. Len(posts) \in Nat /\ Len(posts') \in Nat
      BY <1>0, <1>2 DEF CallInv
    <3>2. Len(call.ids) \in Nat /\ Len(call'.ids) \in Nat
      BY <1>0, <1>2 DEF CallInv, CallRec
    <3>3. Len(results) \in Nat /\ netFaults \in Nat /\ Dropped \in Nat
      BY <1>0 DEF CallInv, ResultsInv, Dropped
    <3> QED
      BY <1>1, <3>1, <3>2, <3>3
  <2>2. D = Dropped'
    BY <1>0, <2>1 DEF Dropped
  <2>3. stage # "failed" => P <= R + I + F * L + D
    BY <1>0, <1>2, <2>1 DEF TallyInv, Trying
  <2>4. CASE netFaults' = F /\ call'.state # "failed" /\ Q = P + J - I
    <3>1. stage # "failed" => Q <= R + J + F * L + D
      BY <2>3, <2>4
    <3> QED
      BY <1>0, <2>1, <2>2, <2>4, <3>1 DEF TallyInv
  <2>5. CASE netFaults' = F + 1 /\ J = I /\ Q + I <= P + L
    <3>1. stage # "failed" => Q <= R + (F + 1) * L + D
      <4>1. (F + 1) * L = F * L + L
        OBVIOUS
      <4>2. PICK m \in Nat : m = F * L
        OBVIOUS
      <4>3. stage # "failed" => Q <= R + (m + L) + D
        BY <2>3, <2>5, <4>2
      <4> QED
        BY <4>1, <4>2, <4>3
    <3>2. PICK m \in Nat : m = (F + 1) * L
      OBVIOUS
    <3>3. stage # "failed" => Q <= R + 0 + m + D /\ Q <= R + J + m + D
      BY <3>1, <3>2
    <3>4. m = netFaults' * Len(items')
      BY <1>0, <2>1, <2>5, <3>2
    <3> QED
      BY <1>0, <2>1, <2>2, <3>3, <3>4 DEF TallyInv
  <2> QED
    BY <1>2, <2>1, <2>4, <2>5
<1> QED
  BY <1>2, <1>3, <1>4, <1>5, <1>6 DEF AlbumInv

\* What the other lemmas need of the types.
LEMMA AlbumFacts ==
  ASSUME AlbumInv
  PROVE  /\ CallInv /\ StageInv /\ ResultsInv /\ LedgerInv /\ PlaceInv /\ TallyInv
         /\ Len(items) \in Nat \ {0} /\ at \in Nat \ {0} /\ netFaults \in Nat
         /\ Len(posts) \in Nat /\ Len(results) \in Nat /\ Len(group) \in Nat
         /\ call.what \in Seq(PostContent) /\ Len(call.what) \in Nat /\ Len(call.ids) \in Nat
<1>1. /\ CallInv /\ StageInv /\ ResultsInv /\ LedgerInv /\ PlaceInv /\ TallyInv
  BY DEF AlbumInv
<1>2. call.what \in Seq(PostContent) /\ call.ids \in Seq(Nat) /\ posts \in Seq(PostContent)
      /\ netFaults \in Nat
  BY <1>1 DEF CallInv, CallRec
<1>3. results \in Seq(Nat \X Nat) /\ group \in Seq(1..Len(items))
  BY <1>1 DEF ResultsInv
<1>4. Len(items) \in Nat \ {0} /\ at \in Nat \ {0}
  BY <1>1 DEF StageInv
<1> QED
  BY <1>1, <1>2, <1>3, <1>4

\* Where no id of a call is left over, the copies stay what they are.
LEMMA ResultsKept ==
  ASSUME AlbumInv, UNCHANGED <<posts, items, results, group>>, Len(call'.ids) = 0
  PROVE  ResultsInv'
<1>1. ResultsInv
  BY AlbumFacts
<1>2. 1..Len(call'.ids) = {}
  OBVIOUS
<1> QED
  BY <1>1, <1>2 DEF ResultsInv

\* A job that fails leaves nothing to be shown.
LEMMA FailsKeeps ==
  ASSUME AlbumInv, stage' = "failed", UNCHANGED <<posts, items, at, group, results>>,
         netFaults' \in Nat, call' = NoCall \/ (call.state = "idle" /\ UNCHANGED call)
  PROVE  AlbumInv'
<1>1. CallInv' /\ call'.state = "idle" /\ Len(call'.ids) = 0
  <2>1. CASE call' = NoCall
    BY <2>1, Rests
  <2>2. CASE call.state = "idle" /\ UNCHANGED call
    BY <2>2, AlbumFacts DEF CallInv, Apart
  <2> QED
    BY <2>1, <2>2
<1>2. ResultsInv'
  BY <1>1, ResultsKept
<1>3. StageInv'
  BY <1>1, AlbumFacts DEF StageInv, Album
<1> QED
  BY <1>1, <1>2, <1>3 DEF AlbumInv, LedgerInv, PlaceInv, TallyInv

\* The sum, while nobody pays for anything.
LEMMA TallyKept ==
  ASSUME AlbumInv, stage # "failed", call.state # "failed", call'.state # "failed",
         UNCHANGED <<posts, items, netFaults>>,
         Len(results') \in Nat, Len(call'.ids) \in Nat, Dropped' \in Nat,
         Len(results') + Len(call'.ids) + Dropped' >= Len(results) + Len(call.ids) + Dropped
  PROVE  TallyInv'
<1>1. PICK m : m = netFaults * Len(items)
  OBVIOUS
<1>2. m \in Nat
  BY <1>1, AlbumFacts
<1>3. Dropped \in Nat
  BY DEF Dropped
<1>4. Len(posts) <= Len(results) + Len(call.ids) + m + Dropped
  BY <1>1, AlbumFacts DEF TallyInv
<1>5. PICK P \in Nat, R \in Nat, I \in Nat, Rn \in Nat, In \in Nat, D \in Nat, Dn \in Nat :
        /\ P = Len(posts) /\ R = Len(results) /\ I = Len(call.ids)
        /\ Rn = Len(results') /\ In = Len(call'.ids) /\ D = Dropped /\ Dn = Dropped'
  BY <1>3, AlbumFacts
<1>6. P <= R + I + m + D /\ Rn + In + Dn >= R + I + D
  BY <1>4, <1>5
<1>7. P <= Rn + In + m + Dn
  BY <1>2, <1>6
<1>8. Len(posts)' = P /\ netFaults' * Len(items)' = m
  BY <1>1, <1>5
<1> QED
  BY <1>5, <1>7, <1>8 DEF TallyInv

\* The same for a call that has failed, whose ids are lost with it.
LEMMA TallyOfFailed ==
  ASSUME AlbumInv, stage # "failed", call.state = "failed",
         UNCHANGED <<posts, items, netFaults, at, results>>, Len(call'.ids) = 0
  PROVE  TallyInv'
<1>1. Dropped' = Dropped
  BY DEF Dropped
<1>2. Len(posts) <= Len(results) + 0 + netFaults * Len(items) + Dropped
  BY AlbumFacts DEF TallyInv
<1> QED
  BY <1>1, <1>2 DEF TallyInv

\* One more copy.
LEMMA GivenGrows ==
  ASSUME AlbumInv, NEW i \in Nat, NEW d \in Nat, results' = Append(results, <<i, d>>)
  PROVE  /\ results' \in Seq(Nat \X Nat) /\ Len(results') = Len(results) + 1
         /\ \A n \in 1..Len(results) : results'[n] = results[n]
         /\ results'[Len(results) + 1] = <<i, d>>
         /\ Given' = Given \cup {i}
<1>1. PICK r : r = results
  OBVIOUS
<1>2. PICK e : e = <<i, d>>
  OBVIOUS
<1>3. r \in Seq(Nat \X Nat) /\ e \in Nat \X Nat /\ e[1] = i /\ Len(r) \in Nat
  BY <1>1, <1>2, AlbumFacts DEF ResultsInv
<1>4. /\ results' \in Seq(Nat \X Nat) /\ Len(results') = Len(r) + 1
      /\ \A n \in 1..Len(r) : results'[n] = r[n]
      /\ results'[Len(r) + 1] = e
  BY <1>1, <1>2, <1>3, Appended
<1>5. Given' = Given \cup {i}
  <2>1. \A n \in 1..(Len(r) + 1) : n \in 1..Len(r) \/ n = Len(r) + 1
    BY <1>3
  <2>2. \A n \in 1..Len(r) : n \in 1..(Len(r) + 1)
    BY <1>3
  <2>3. Len(r) + 1 \in 1..(Len(r) + 1)
    BY <1>3
  <2>4. Given' = {results'[n][1] : n \in 1..(Len(r) + 1)}
    BY <1>4 DEF Given
  <2>5. Given = {r[n][1] : n \in 1..Len(r)}
    BY <1>1 DEF Given
  <2>6. ASSUME NEW x \in Given' PROVE x \in Given \cup {i}
    <3>1. PICK n \in 1..(Len(r) + 1) : x = results'[n][1]
      BY <2>4
    <3>2. CASE n \in 1..Len(r)
      BY <1>4, <2>5, <3>1, <3>2
    <3>3. CASE n = Len(r) + 1
      BY <1>3, <1>4, <3>1, <3>3
    <3> QED
      BY <2>1, <3>2, <3>3
  <2>7. \A x \in Given \cup {i} : x \in Given'
    BY <1>3, <1>4, <2>2, <2>3, <2>4, <2>5
  <2> QED
    BY <2>6, <2>7
<1> QED
  BY <1>1, <1>2, <1>4, <1>5

\* The copy a call of one message has made is noted.
LEMMA ResultAdded ==
  ASSUME AlbumInv, call.state = "ok", Len(call.ids) = 1, NEW i \in 1..Len(items),
         call.what[1].of = i, results' = Append(results, <<i, call.ids[1]>>),
         UNCHANGED <<posts, items, group>>, Len(call'.ids) = 0
  PROVE  /\ ResultsInv' /\ Len(results') = Len(results) + 1 /\ Given' = Given \cup {i}
         /\ \A n \in 1..Len(results) : results'[n] = results[n]
         /\ results'[Len(results) + 1][1] = i
<1>1. PICK d : d = call.ids[1]
  OBVIOUS
<1>2. 1 \in 1..Len(call.ids)
  OBVIOUS
<1>3. d \in 1..Len(posts) /\ posts[d] = call.what[1] /\ posts[d].of = i
  BY <1>1, <1>2, AlbumFacts DEF CallInv
<1>4. \A n \in 1..Len(results) : results[n][2] # d
  BY <1>1, <1>2, AlbumFacts DEF ResultsInv
<1>5. i \in Nat /\ d \in Nat
  BY <1>3, AlbumFacts
<1>6. PICK R \in Nat : R = Len(results)
  BY AlbumFacts
<1>7. /\ results' \in Seq(Nat \X Nat) /\ Len(results') = R + 1
      /\ \A n \in 1..R : results'[n] = results[n]
      /\ results'[R + 1] = <<i, d>>
      /\ Given' = Given \cup {i}
  BY <1>1, <1>5, <1>6, GivenGrows
<1>8. results'[R + 1][1] = i /\ results'[R + 1][2] = d
  BY <1>7
<1>9. \A n \in 1..(R + 1) : n \in 1..R \/ n = R + 1
  OBVIOUS
<1>10. \A n \in 1..R :
         /\ results[n][1] \in 1..Len(items) /\ results[n][2] \in 1..Len(posts)
         /\ posts[results[n][2]].of = results[n][1]
  BY <1>6, AlbumFacts DEF ResultsInv
<1>11. \A n, m \in 1..R : results[n][2] = results[m][2] => n = m
  BY <1>6, AlbumFacts DEF ResultsInv
<1>12. ASSUME NEW n \in 1..(R + 1)
       PROVE  /\ results'[n][1] \in 1..Len(items) /\ results'[n][2] \in 1..Len(posts)
              /\ posts[results'[n][2]].of = results'[n][1]
  <2>1. CASE n \in 1..R
    BY <1>7, <1>10, <2>1
  <2>2. CASE n = R + 1
    BY <1>3, <1>8, <2>2
  <2> QED
    BY <1>9, <2>1, <2>2
<1>13. ASSUME NEW n \in 1..(R + 1), NEW m \in 1..(R + 1), results'[n][2] = results'[m][2]
       PROVE  n = m
  <2>1. CASE n \in 1..R /\ m \in 1..R
    BY <1>7, <1>11, <1>13, <2>1
  <2>2. CASE n \in 1..R /\ m = R + 1
    BY <1>4, <1>6, <1>7, <1>8, <1>13, <2>2
  <2>3. CASE n = R + 1 /\ m \in 1..R
    BY <1>4, <1>6, <1>7, <1>8, <1>13, <2>3
  <2> QED
    BY <1>9, <2>1, <2>2, <2>3
<1>14. 1..Len(call'.ids) = {}
  OBVIOUS
<1>15. group \in Seq(1..Len(items))
  BY AlbumFacts DEF ResultsInv
<1>16. ResultsInv'
  <2>1. \A n \in 1..Len(results') :
          /\ results'[n][1] \in 1..Len(items') /\ results'[n][2] \in 1..Len(posts')
          /\ posts'[results'[n][2]].of = results'[n][1]
    BY <1>7, <1>12
  <2>2. \A n, m \in 1..Len(results') : results'[n][2] = results'[m][2] => n = m
    BY <1>7, <1>13
  <2>3. group' \in Seq(1..Len(items')) /\ results' \in Seq(Nat \X Nat)
    BY <1>7, <1>15
  <2> QED
    BY <1>14, <2>1, <2>2, <2>3 DEF ResultsInv
<1> QED
  BY <1>6, <1>7, <1>8, <1>16

\* Texts and venues.
LEMMA OneMessage ==
  ASSUME NEW i \in Nat \ {0}, NEW as \in {"part", "copy", "notice"}
  PROVE  /\ Content(i, as) \in Seq(PostContent) /\ Len(Content(i, as)) = 1
         /\ Content(i, as)[1].of = i
<1>1. [of |-> i, as |-> as] \in PostContent /\ [of |-> i, as |-> as].of = i
  BY DEF PostContent
<1>2. PICK e : e = [of |-> i, as |-> as]
  OBVIOUS
<1>3. <<e>> \in Seq(PostContent) /\ Len(<<e>>) = 1 /\ <<e>>[1] = e
  BY <1>1, <1>2
<1>4. Content(i, as) = <<e>>
  BY <1>2 DEF Content
<1> QED
  BY <1>1, <1>2, <1>3, <1>4

\* A new message is sent by a job whose copies stay what they are.
LEMMA SendsOne ==
  ASSUME AlbumInv, NEW i \in Nat \ {0}, NEW as \in {"part", "copy", "notice"},
         Send(Content(i, as)), UNCHANGED <<posts, items, netFaults>>
  PROVE  /\ CallInv' /\ call'.state = "trying" /\ call'.what = Content(i, as)
         /\ Len(call'.ids) = 0 /\ Len(call'.what) = 1 /\ call'.what[1].of = i
<1>1. PICK what : what = Content(i, as)
  OBVIOUS
<1>2. what \in Seq(PostContent) /\ Len(what) = 1 /\ what[1].of = i
  BY <1>1, OneMessage
<1>3. Len(what) # 0 /\ Len(what) <= Len(items)
  BY <1>2, AlbumFacts
<1>4. CallInv' /\ call'.state = "trying" /\ call'.what = what /\ Len(call'.ids) = 0
  BY <1>1, <1>2, <1>3, Sends
<1> QED
  BY <1>1, <1>2, <1>4

LEMMA StartPartsStep == AlbumInv /\ StartParts => AlbumInv'
<1> SUFFICES ASSUME AlbumInv, StartParts PROVE AlbumInv'
  OBVIOUS
<1>0. /\ stage = "load" /\ stage' = "parts" /\ items[1] \in {"text", "venue"}
      /\ Send(Content(1, "part"))
      /\ UNCHANGED <<posts, items, netFaults, at, group, results>>
  BY DEF StartParts, jobVars
<1>1. /\ CallInv' /\ call'.state = "trying" /\ call'.what = Content(1, "part")
      /\ Len(call'.ids) = 0
  BY <1>0, SendsOne
<1>2. ResultsInv'
  BY <1>0, <1>1, ResultsKept
<1>3. StageInv'
  BY <1>0, <1>1, AlbumFacts DEF StageInv, Album, Parts
<1>4. TallyInv'
  <2>1. call.state = "idle" /\ Len(call.ids) = 0
    BY <1>0, AlbumFacts DEF StageInv, CallInv
  <2>2. Dropped' = Dropped /\ Dropped \in Nat
    BY <1>0 DEF Dropped
  <2> QED
    BY <1>0, <1>1, <2>1, <2>2, AlbumFacts, TallyKept
<1> QED
  BY <1>0, <1>1, <1>2, <1>3, <1>4 DEF AlbumInv, LedgerInv, PlaceInv

LEMMA PartSentStep == AlbumInv /\ PartSent => AlbumInv'
<1> SUFFICES ASSUME AlbumInv, PartSent PROVE AlbumInv'
  OBVIOUS
<1>0. /\ stage = "parts" /\ call.state = "ok" /\ results' = PartIds(call.ids)
      /\ UNCHANGED <<posts, items, netFaults, group>>
      /\ \/ Send(Content(1, "part")) /\ at < Parts /\ at' = at + 1 /\ UNCHANGED <<stage, ledger>>
         \/ call' = NoCall /\ Recorded(results') /\ UNCHANGED at /\ ~(at < Parts)
  BY DEF PartSent
<1>1. /\ items[1] \in {"text", "venue"} /\ at \in 1..Parts /\ call.what = Content(1, "part")
      /\ Len(call.ids) = Len(call.what)
  BY <1>0, AlbumFacts DEF StageInv, CallInv
<1>2. Len(call.what) = 1 /\ call.what[1].of = 1
  BY <1>1, OneMessage
<1>3. CallInv' /\ Len(call'.ids) = 0 /\ call'.state # "failed"
  <2>1. CASE Send(Content(1, "part"))
    BY <1>0, <2>1, SendsOne
  <2>2. CASE call' = NoCall
    BY <1>0, <2>2, AlbumFacts, Rests
  <2> QED
    BY <1>0, <2>1, <2>2
<1>4. \/ results' = results /\ items[1] = "venue" /\ at = 1
      \/ results' = Append(results, <<1, call.ids[1]>>)
  BY <1>0 DEF PartIds
<1>5. 1 \in 1..Len(items)
  BY AlbumFacts
<1>6. /\ ResultsInv'
      /\ \/ Len(results') = Len(results) + 1
         \/ Len(results') = Len(results) /\ items[1] = "venue" /\ at = 1
  <2>1. CASE results' = results /\ items[1] = "venue" /\ at = 1
    BY <1>0, <1>3, <2>1, ResultsKept
  <2>2. CASE results' = Append(results, <<1, call.ids[1]>>)
    BY <1>0, <1>1, <1>2, <1>3, <1>5, <2>2, ResultAdded
  <2> QED
    BY <1>4, <2>1, <2>2
<1>7. StageInv' /\ LedgerInv'
  <2>1. CASE Send(Content(1, "part")) /\ at < Parts /\ at' = at + 1 /\ UNCHANGED <<stage, ledger>>
    <3>1. call'.state = "trying" /\ call'.what = Content(1, "part")
      BY <1>0, <2>1, SendsOne
    <3>2. at' \in 1..Parts /\ at' \in Nat \ {0}
      BY <1>1, <2>1 DEF Parts
    <3> QED
      BY <1>0, <2>1, <3>1, <3>2, AlbumFacts DEF StageInv, Album, LedgerInv
  <2>2. CASE call' = NoCall /\ Recorded(results') /\ UNCHANGED at
    <3>1. call'.state = "idle"
      BY <2>2 DEF NoCall
    <3>2. stage' = "recorded" /\ ledger' = {results'[n] : n \in 1..Len(results')}
      BY <2>2 DEF Recorded
    <3> QED
      BY <1>0, <2>2, <3>1, <3>2, AlbumFacts DEF StageInv, Album, LedgerInv
  <2> QED
    BY <1>0, <2>1, <2>2
<1>8. TallyInv'
  <2>1. Dropped' \in Nat /\ Dropped \in Nat /\ (at' = at \/ at' = at + 1)
    BY <1>0 DEF Dropped
  <2>2. Dropped' >= Dropped
    BY <1>0, <1>1, <2>1 DEF Dropped, Parts
  <2>3. items[1] = "venue" /\ at = 1 => Dropped' = 1 /\ Dropped = 0
    BY <1>0 DEF Dropped, Parts
  <2>4. Len(results') \in Nat
    BY <1>6 DEF ResultsInv
  <2>5. Len(results') + Len(call'.ids) + Dropped' >= Len(results) + Len(call.ids) + Dropped
    <3>1. Len(call.ids) = 1 /\ Len(call'.ids) = 0
      BY <1>1, <1>2, <1>3
    <3> QED
      BY <1>6, <2>1, <2>2, <2>3, <3>1, AlbumFacts
  <2> QED
    BY <1>0, <1>3, <2>1, <2>4, <2>5, TallyKept
<1>9. PlaceInv'
  BY <1>0, <1>1 DEF PlaceInv
<1> QED
  BY <1>3, <1>6, <1>7, <1>8, <1>9 DEF AlbumInv

LEMMA PartFailsStep == AlbumInv /\ PartFails => AlbumInv'
  BY AlbumFacts, FailsKeeps DEF PartFails, Fails

\* Ends without an answer.
LEMMA OutStep == AlbumInv /\ (LoadFails \/ Dies) => AlbumInv'
<1> SUFFICES ASSUME AlbumInv, LoadFails \/ Dies PROVE AlbumInv'
  OBVIOUS
<1>1. netFaults' \in Nat
  BY AlbumFacts DEF LoadFails, Dies, NetFault
<1>2. CASE LoadFails
  <2>1. stage \in {"load", "walk"}
    BY <1>2 DEF LoadFails
  <2>2. call.state = "idle"
    BY <2>1, AlbumFacts DEF StageInv
  <2> QED
    BY <1>1, <1>2, <2>2, FailsKeeps DEF LoadFails, Fails
<1>3. CASE Dies
  BY <1>1, <1>3, FailsKeeps DEF Dies, Fails
<1> QED
  BY <1>2, <1>3

\* Nothing of an album moves.
LEMMA PlaceKept ==
  ASSUME AlbumInv, UNCHANGED <<items, results, group>>, Owed' = Owed, Reached' = Reached,
         stage \in {"walk", "alone", "group", "single", "sending", "notice"},
         stage' \in {"walk", "alone", "group", "single", "sending", "notice"}
  PROVE  PlaceInv'
<1>1. PlaceInv
  BY AlbumFacts
<1>2. Given' = Given
  BY DEF Given
<1> QED
  BY <1>1, <1>2 DEF PlaceInv

LEMMA LoadStep == AlbumInv /\ (Load \/ LoadSizes) => AlbumInv'
<1> SUFFICES ASSUME AlbumInv, Load \/ LoadSizes PROVE AlbumInv'
  OBVIOUS
<1>0. /\ stage = "load" /\ stage' = "walk" /\ items[1] \notin {"text", "venue"}
      /\ UNCHANGED <<client, call, posts, netFaults, items, at, group, results>>
  BY DEF Load, LoadSizes, sendVars
<1>1. /\ call.state = "idle" /\ Len(call.ids) = 0 /\ at = 1 /\ Len(group) = 0
      /\ Len(results) = 0
  BY <1>0, AlbumFacts DEF StageInv, CallInv
<1>2. CallInv'
  BY <1>0, AlbumFacts DEF CallInv, Apart
<1>3. ResultsInv'
  BY <1>0, <1>1, ResultsKept
<1>4. StageInv'
  BY <1>0, <1>1, AlbumFacts DEF StageInv, Album
<1>5. PlaceInv'
  <2>1. 1..Len(results') = {} /\ 1..Len(group') = {} /\ 1..(at' - 1) = {}
    BY <1>0, <1>1
  <2>2. Given' = {} /\ Owed' = {} /\ Reached' = {}
    BY <1>0, <2>1 DEF Given, Owed, Reached
  <2> QED
    BY <1>0, <2>1, <2>2 DEF PlaceInv
<1>6. TallyInv'
  <2>1. Dropped' = Dropped /\ Dropped \in Nat
    BY <1>0 DEF Dropped
  <2> QED
    BY <1>0, <1>1, <2>1, AlbumFacts, TallyKept
<1> QED
  BY <1>0, <1>2, <1>3, <1>4, <1>5, <1>6 DEF AlbumInv, LedgerInv

\* A message joins the album, or is sent alone.
LEMMA WalkStep == AlbumInv /\ Walk => AlbumInv'
<1> SUFFICES ASSUME AlbumInv, Walk PROVE AlbumInv'
  OBVIOUS
<1>0. /\ stage = "walk" /\ at <= Len(items)
      /\ UNCHANGED <<client, posts, netFaults, items, ledger, results>>
  BY DEF Walk, jobVars
<1>1. call.state = "idle" /\ Len(call.ids) = 0 /\ items[1] \notin {"text", "venue"}
  BY <1>0, AlbumFacts DEF StageInv, CallInv
<1>2. at \in 1..Len(items)
  BY <1>0, AlbumFacts
<1>3. Dropped = 0 /\ Dropped' = 0
  BY <1>0, <1>1 DEF Dropped
<1>4. CASE group' = Append(group, at) /\ at' = at + 1 /\ UNCHANGED <<stage, call>>
  <2>1. CallInv'
    BY <1>0, <1>4, AlbumFacts DEF CallInv, Apart
  <2>2. PICK G \in Nat : G = Len(group)
    BY AlbumFacts
  <2>3. /\ group' \in Seq(1..Len(items)) /\ Len(group') = G + 1
        /\ \A n \in 1..G : group'[n] = group[n]
        /\ group'[G + 1] = at
    <3>1. group \in Seq(1..Len(items))
      BY AlbumFacts DEF ResultsInv
    <3> QED
      BY <1>2, <1>4, <2>2, <3>1, Appended
  <2>4. ResultsInv'
    <3>1. 1..Len(call'.ids) = {}
      BY <1>1, <1>4
    <3> QED
      BY <1>0, <2>3, <3>1, AlbumFacts DEF ResultsInv
  <2>5. at' <= Len(items) + 1 /\ at' \in Nat \ {0}
    BY <1>0, <1>4, AlbumFacts
  <2>6. StageInv'
    BY <1>0, <1>1, <1>4, <2>5, AlbumFacts DEF StageInv, Album
  <2>7. \A n \in 1..(G + 1) : n \in 1..G \/ n = G + 1
    OBVIOUS
  <2>8. \A n \in 1..G : n \in 1..(G + 1)
    OBVIOUS
  <2>9. G + 1 \in 1..(G + 1)
    OBVIOUS
  <2>10. Owed' = Owed \cup {at}
    <3>1. Owed = {group[n] : n \in 1..G} /\ Owed' = {group'[n] : n \in 1..(G + 1)}
      BY <1>0, <1>4, <2>2, <2>3 DEF Owed
    <3>2. ASSUME NEW x \in Owed' PROVE x \in Owed \cup {at}
      BY <2>3, <2>7, <3>1
    <3>3. ASSUME NEW x \in Owed \cup {at} PROVE x \in Owed'
      BY <2>3, <2>8, <2>9, <3>1
    <3> QED
      BY <3>2, <3>3
  <2>11. Reached' = Reached \cup {at} /\ at \notin Reached
    <3>1. Reached = 1..(at - 1) /\ Reached' = 1..at
      BY <1>0, <1>2, <1>4, AlbumFacts DEF Reached
    <3> QED
      BY <3>1, AlbumFacts
  <2>12. Given' = Given
    BY <1>0 DEF Given
  <2>13. /\ Given \cup Owed = Reached /\ Given \cap Owed = {}
         /\ \A n, m \in 1..Len(results) : results[n][1] = results[m][1] => n = m
         /\ \A n, m \in 1..G : group[n] = group[m] => n = m
    BY <1>0, <1>1, <2>2, AlbumFacts DEF PlaceInv
  <2>14. \A n \in 1..G : group[n] # at
    BY <1>0, <2>2, <2>11, <2>13 DEF Owed
  <2>15. ASSUME NEW n \in 1..(G + 1), NEW m \in 1..(G + 1), group'[n] = group'[m]
         PROVE  n = m
    <3>1. CASE n \in 1..G /\ m \in 1..G
      BY <2>3, <2>13, <2>15, <3>1
    <3>2. CASE n \in 1..G /\ m = G + 1
      BY <2>3, <2>14, <2>15, <3>2
    <3>3. CASE n = G + 1 /\ m \in 1..G
      BY <2>3, <2>14, <2>15, <3>3
    <3> QED
      BY <2>7, <3>1, <3>2, <3>3
  <2>16. PlaceInv'
    <3>1. Given' \cup Owed' = Reached' /\ Given' \cap Owed' = {}
      BY <2>10, <2>11, <2>12, <2>13
    <3>2. \A n, m \in 1..Len(group') : group'[n] = group'[m] => n = m
      BY <2>3, <2>15
    <3>3. \A n, m \in 1..Len(results') : results'[n][1] = results'[m][1] => n = m
      BY <1>0, <2>13
    <3>4. stage' # "recorded"
      BY <1>0, <1>4
    <3> QED
      BY <3>1, <3>2, <3>3, <3>4 DEF PlaceInv
  <2>17. TallyInv'
    BY <1>0, <1>1, <1>3, <1>4, AlbumFacts, TallyKept
  <2> QED
    BY <1>0, <1>4, <2>1, <2>4, <2>6, <2>16, <2>17 DEF AlbumInv, LedgerInv
<1>5. CASE stage' = "alone" /\ Send(Content(at, AloneAs(at))) /\ UNCHANGED <<group, at>>
  <2>1. AloneAs(at) \in {"part", "copy", "notice"} /\ at \in Nat \ {0}
    BY AlbumFacts DEF AloneAs
  <2>2. /\ CallInv' /\ call'.state = "trying" /\ Len(call'.ids) = 0 /\ Len(call'.what) = 1
        /\ call'.what[1].of = at
    BY <1>0, <1>5, <2>1, SendsOne
  <2>3. ResultsInv'
    BY <1>0, <1>5, <2>2, ResultsKept
  <2>4. StageInv'
    BY <1>0, <1>1, <1>5, <2>2, AlbumFacts DEF StageInv, Album
  <2>5. Owed' = Owed /\ Reached' = Reached
    BY <1>0, <1>5 DEF Owed, Reached
  <2>6. PlaceInv'
    BY <1>0, <1>5, <2>5, PlaceKept
  <2>7. TallyInv'
    BY <1>0, <1>1, <1>3, <2>2, AlbumFacts, TallyKept
  <2> QED
    BY <1>5, <2>2, <2>3, <2>4, <2>6, <2>7 DEF AlbumInv, LedgerInv
<1> QED
  BY <1>4, <1>5 DEF Walk

\* What noting the copy of one message does, for a message alone or one of the album.
LEMMA NoteStep ==
  ASSUME AlbumInv, stage \in {"alone", "sending", "notice"}, stage' \in {"walk", "single"},
         call.state = "ok", NEW i \in 1..Len(items), call.what[1].of = i,
         results' = Append(results, <<i, call.ids[1]>>), call' = NoCall,
         UNCHANGED <<posts, netFaults, items, group>>,
         i \notin Given, Given \cup {i} \cup Owed' = Reached', (Given \cup {i}) \cap Owed' = {}
  PROVE  CallInv' /\ call'.state = "idle" /\ ResultsInv' /\ PlaceInv' /\ TallyInv'
<1>1. items[1] \notin {"text", "venue"} /\ Len(call.what) = 1 /\ Len(call.ids) = 1
  BY AlbumFacts DEF StageInv, CallInv
<1>2. CallInv' /\ call'.state = "idle" /\ Len(call'.ids) = 0
  BY AlbumFacts, Rests
<1>3. /\ ResultsInv' /\ Len(results') = Len(results) + 1 /\ Given' = Given \cup {i}
      /\ \A n \in 1..Len(results) : results'[n] = results[n]
      /\ results'[Len(results) + 1][1] = i
  BY <1>1, <1>2, ResultAdded
<1>4. PICK R \in Nat : R = Len(results)
  BY AlbumFacts
<1>5. \A n \in 1..(R + 1) : n \in 1..R \/ n = R + 1
  OBVIOUS
<1>6. /\ \A n, m \in 1..R : results[n][1] = results[m][1] => n = m
      /\ \A n, m \in 1..Len(group) : group[n] = group[m] => n = m
  BY <1>1, <1>4, AlbumFacts DEF PlaceInv
<1>7. \A n \in 1..R : results[n][1] # i
  BY <1>4 DEF Given
<1>8. ASSUME NEW n \in 1..(R + 1), NEW m \in 1..(R + 1), results'[n][1] = results'[m][1]
      PROVE  n = m
  <2>1. CASE n \in 1..R /\ m \in 1..R
    BY <1>3, <1>4, <1>6, <1>8, <2>1
  <2>2. CASE n \in 1..R /\ m = R + 1
    BY <1>3, <1>4, <1>7, <1>8, <2>2
  <2>3. CASE n = R + 1 /\ m \in 1..R
    BY <1>3, <1>4, <1>7, <1>8, <2>3
  <2> QED
    BY <1>5, <2>1, <2>2, <2>3
<1>9. PlaceInv'
  <2>1. \A n, m \in 1..Len(results') : results'[n][1] = results'[m][1] => n = m
    BY <1>3, <1>4, <1>8
  <2> QED
    BY <1>3, <1>6, <2>1 DEF PlaceInv
<1>10. TallyInv'
  <2>1. Dropped = 0 /\ Dropped' = 0
    BY <1>1 DEF Dropped
  <2>2. Len(results') \in Nat
    BY <1>3, AlbumFacts
  <2> QED
    BY <1>1, <1>2, <1>3, <2>1, <2>2, AlbumFacts, TallyKept
<1> QED
  BY <1>2, <1>3, <1>9, <1>10

LEMMA AloneSentStep == AlbumInv /\ AloneSent => AlbumInv'
<1> SUFFICES ASSUME AlbumInv, AloneSent PROVE AlbumInv'
  OBVIOUS
<1>0. /\ stage = "alone" /\ stage' = "walk" /\ call.state = "ok" /\ call' = NoCall
      /\ results' = Append(results, <<at, call.ids[1]>>) /\ at' = at + 1
      /\ UNCHANGED <<posts, netFaults, items, ledger, group>>
  BY DEF AloneSent, jobVars
<1>1. /\ items[1] \notin {"text", "venue"} /\ at <= Len(items) /\ call.what[1].of = at
      /\ at \in 1..Len(items)
  BY <1>0, AlbumFacts DEF StageInv
<1>2. Given \cup Owed = Reached /\ Given \cap Owed = {}
  BY <1>0, <1>1, AlbumFacts DEF PlaceInv
<1>3. Owed' = Owed
  BY <1>0 DEF Owed
<1>4. Reached' = Reached \cup {at} /\ at \notin Reached
  <2>1. Reached = 1..(at - 1) /\ Reached' = 1..at
    BY <1>0, <1>1, AlbumFacts DEF Reached
  <2> QED
    BY <2>1, AlbumFacts
<1>5. at \notin Given /\ Given \cup {at} \cup Owed' = Reached' /\ (Given \cup {at}) \cap Owed' = {}
  BY <1>2, <1>3, <1>4
<1>6. CallInv' /\ call'.state = "idle" /\ ResultsInv' /\ PlaceInv' /\ TallyInv'
  BY <1>0, <1>1, <1>5, NoteStep
<1>7. StageInv'
  <2>1. at \in Nat \ {0} /\ Len(items) \in Nat
    BY AlbumFacts
  <2>2. at' = at + 1 /\ at <= Len(items)
    BY <1>0, <1>1
  <2>3. at' <= Len(items) + 1 /\ at' \in Nat \ {0}
    BY <2>1, <2>2
  <2> QED
    BY <1>0, <1>1, <1>6, <2>3, AlbumFacts DEF StageInv, Album
<1> QED
  BY <1>0, <1>6, <1>7 DEF AlbumInv, LedgerInv

\* The fallback asks for the same content once more, by another method.
LEMMA SendsAgain ==
  ASSUME AlbumInv, stage \in {"alone", "sending"}, call.state = "failed",
         Send(call.what), stage' = stage, UNCHANGED <<posts, netFaults, items, at, group, results>>
  PROVE  AlbumInv'
<1>1. items[1] \notin {"text", "venue"} /\ Len(call.what) = 1
  BY AlbumFacts DEF StageInv
<1>2. /\ CallInv' /\ call'.state = "trying" /\ call'.what = call.what /\ Len(call'.ids) = 0
  <2>1. call.what \in Seq(PostContent) /\ Len(call.what) # 0 /\ Len(call.what) <= Len(items)
    BY <1>1, AlbumFacts
  <2> QED
    BY <2>1, Sends
<1>3. ResultsInv'
  BY <1>2, ResultsKept
<1>4. StageInv'
  BY <1>1, <1>2, AlbumFacts DEF StageInv, Album
<1>5. PlaceInv'
  <2>1. Owed' = Owed /\ Reached' = Reached
    BY DEF Owed, Reached
  <2> QED
    BY <2>1, PlaceKept
<1>6. TallyInv'
  BY <1>2, TallyOfFailed
<1> QED
  BY <1>2, <1>3, <1>4, <1>5, <1>6 DEF AlbumInv, LedgerInv

LEMMA AloneFailsStep == AlbumInv /\ AloneFails => AlbumInv'
<1> SUFFICES ASSUME AlbumInv, AloneFails PROVE AlbumInv'
  OBVIOUS
<1>1. CASE Send(call.what) /\ UNCHANGED <<stage, ledger>>
  BY <1>1, SendsAgain DEF AloneFails
<1>2. CASE call' = NoCall /\ Fails
  BY <1>2, AlbumFacts, FailsKeeps DEF AloneFails, Fails
<1> QED
  BY <1>1, <1>2 DEF AloneFails

LEMMA CountedTo ==
  ASSUME NEW n \in Nat PROVE IsFiniteSet(1..n) /\ Cardinality(1..n) = n
<1>1. 1 \in Int /\ n \in Int
  OBVIOUS
<1>2. /\ IsFiniteSet(1..n)
      /\ Cardinality(1..n) = IF 1 > n THEN 0 ELSE n - 1 + 1
  BY <1>1, FS_Interval
<1>3. (IF 1 > n THEN 0 ELSE n - 1 + 1) = n
  OBVIOUS
<1> QED
  BY <1>2, <1>3

\* The album is sent whole; one that is too short goes to the items.
LEMMA SendGroupStep == AlbumInv /\ SendGroup => AlbumInv'
<1> SUFFICES ASSUME AlbumInv, SendGroup PROVE AlbumInv'
  OBVIOUS
<1>0. /\ stage = "walk" /\ at > Len(items) /\ at' = 1
      /\ UNCHANGED <<posts, netFaults, items, ledger, group, results>>
  BY DEF SendGroup, jobVars
<1>1. /\ call.state = "idle" /\ Len(call.ids) = 0 /\ items[1] \notin {"text", "venue"}
      /\ at <= Len(items) + 1
  BY <1>0, AlbumFacts DEF StageInv, CallInv
<1>2. Dropped = 0 /\ Dropped' = 0
  BY <1>0, <1>1 DEF Dropped
<1>3. Reached = 1..Len(items)
  BY <1>0, <1>1, AlbumFacts DEF Reached
<1>4. CASE /\ Len(group) >= 2 /\ stage' = "group"
           /\ Send([n \in 1..Len(group) |-> [of |-> group[n], as |-> "copy"]])
  <2>1. PICK what : what = [n \in 1..Len(group) |-> [of |-> group[n], as |-> "copy"]]
    OBVIOUS
  <2>2. PICK G \in Nat : G = Len(group)
    BY AlbumFacts
  <2>3. \A n \in 1..G : group[n] \in 1..Len(items)
    BY <2>2, AlbumFacts DEF ResultsInv
  <2>4. \A n \in 1..G : [of |-> group[n], as |-> "copy"] \in PostContent
    BY <2>3, AlbumFacts DEF PostContent
  <2>5. what \in Seq(PostContent) /\ Len(what) = G /\ \A n \in 1..G : what[n].of = group[n]
    BY <2>1, <2>2, <2>4
  <2>6. G <= Len(items)
    <3>1. \A n, m \in 1..G : group[n] = group[m] => n = m
      BY <1>0, <1>1, <2>2, AlbumFacts DEF PlaceInv
    <3>2. PICK f : f = [n \in 1..G |-> group[n]]
      OBVIOUS
    <3>3. f \in Injection(1..G, 1..Len(items))
      BY <2>3, <3>1, <3>2 DEF Injection, IsInjective
    <3>4. PICK L \in Nat : L = Len(items)
      BY AlbumFacts
    <3>5. /\ IsFiniteSet(1..G) /\ Cardinality(1..G) = G
          /\ IsFiniteSet(1..L) /\ Cardinality(1..L) = L
      BY CountedTo
    <3>6. Cardinality(1..G) <= Cardinality(1..L)
      BY <3>3, <3>4, <3>5, FS_Injection DEF ExistsInjection
    <3> QED
      BY <3>4, <3>5, <3>6
  <2>7. /\ CallInv' /\ call'.state = "trying" /\ call'.what = what /\ Len(call'.ids) = 0
    BY <1>0, <1>4, <2>1, <2>2, <2>5, <2>6, Sends
  <2>8. ResultsInv'
    BY <1>0, <2>7, ResultsKept
  <2>9. StageInv'
    BY <1>0, <1>1, <1>4, <2>2, <2>5, <2>7, AlbumFacts DEF StageInv, Album
  <2>10. PlaceInv'
    <3>1. Owed' = Owed /\ Reached' = Reached
      BY <1>0, <1>3, <1>4 DEF Owed, Reached
    <3> QED
      BY <1>0, <1>4, <3>1, PlaceKept
  <2>11. TallyInv'
    BY <1>0, <1>1, <1>2, <2>7, AlbumFacts, TallyKept
  <2> QED
    BY <1>4, <2>7, <2>8, <2>9, <2>10, <2>11 DEF AlbumInv, LedgerInv
<1>5. CASE stage' = "single" /\ UNCHANGED call
  <2>1. CallInv'
    <3>1. client' = client
      BY DEF SendGroup
    <3> QED
      BY <1>0, <1>5, <3>1, AlbumFacts DEF CallInv, Apart
  <2>2. ResultsInv'
    BY <1>0, <1>1, <1>5, ResultsKept
  <2>3. StageInv'
    <3>1. at' <= Len(group') + 1
      BY <1>0, AlbumFacts
    <3> QED
      BY <1>0, <1>1, <1>5, <3>1, AlbumFacts DEF StageInv, Album
  <2>4. PlaceInv'
    <3>1. Owed' = Owed /\ Reached' = Reached
      BY <1>0, <1>3, <1>5 DEF Owed, Reached
    <3> QED
      BY <1>0, <1>5, <3>1, PlaceKept
  <2>5. TallyInv'
    BY <1>0, <1>1, <1>2, <1>5, AlbumFacts, TallyKept
  <2> QED
    BY <1>5, <2>1, <2>2, <2>3, <2>4, <2>5 DEF AlbumInv, LedgerInv
<1> QED
  BY <1>4, <1>5 DEF SendGroup

\* The platform took the album: its answers are those of its members, in order.
LEMMA GroupSentStep == AlbumInv /\ GroupSent => AlbumInv'
<1> SUFFICES ASSUME AlbumInv, GroupSent PROVE AlbumInv'
  OBVIOUS
<1>0. /\ stage = "group" /\ call.state = "ok" /\ results' = results \o Zipped(call.ids)
      /\ call' = NoCall /\ stage' = "recorded"
      /\ ledger' = {results'[n] : n \in 1..Len(results')}
      /\ UNCHANGED <<posts, netFaults, items, at, group>>
  BY DEF GroupSent, Recorded
<1>1. /\ items[1] \notin {"text", "venue"} /\ at = 1 /\ Len(call.what) = Len(group)
      /\ Len(call.ids) = Len(group)
      /\ \A n \in 1..Len(group) : call.what[n].of = group[n]
  BY <1>0, AlbumFacts DEF StageInv, CallInv
<1>2. CallInv' /\ call'.state = "idle" /\ Len(call'.ids) = 0
  BY <1>0, AlbumFacts, Rests
<1>3. PICK G \in Nat, R \in Nat, N \in Nat : G = Len(group) /\ R = Len(results) /\ N = R + G
  BY AlbumFacts
<1>4. PICK z : z = [n \in 1..G |-> <<group[n], call.ids[n]>>]
  OBVIOUS
<1>5. /\ \A n \in 1..G : /\ group[n] \in 1..Len(items) /\ call.ids[n] \in 1..Len(posts)
                         /\ posts[call.ids[n]].of = group[n]
      /\ \A n, m \in 1..G : call.ids[n] = call.ids[m] => n = m
      /\ \A n \in 1..R, m \in 1..G : results[n][2] # call.ids[m]
  <2>1. \A n \in 1..G : /\ group[n] \in 1..Len(items)
    BY <1>3, AlbumFacts DEF ResultsInv
  <2>2. \A n \in 1..G : /\ call.ids[n] \in 1..Len(posts)
                        /\ posts[call.ids[n]].of = group[n]
    BY <1>1, <1>3, AlbumFacts DEF CallInv
  <2>3. \A n, m \in 1..G : call.ids[n] = call.ids[m] => n = m
    BY <1>1, <1>3, AlbumFacts DEF CallInv, Apart
  <2>4. \A n \in 1..R, m \in 1..G : results[n][2] # call.ids[m]
    BY <1>1, <1>3, AlbumFacts DEF ResultsInv
  <2> QED
    BY <2>1, <2>2, <2>3, <2>4
<1>6. /\ z \in Seq(Nat \X Nat) /\ Len(z) = G
      /\ \A n \in 1..G : z[n][1] = group[n] /\ z[n][2] = call.ids[n]
  <2>1. \A n \in 1..G : group[n] \in Nat /\ call.ids[n] \in Nat
    BY <1>5, AlbumFacts
  <2>2. \A n \in 1..G : <<group[n], call.ids[n]>> \in Nat \X Nat
    BY <2>1
  <2>3. z \in Seq(Nat \X Nat) /\ Len(z) = G
    BY <1>4, <2>2
  <2>4. \A n \in 1..G : z[n] = <<group[n], call.ids[n]>>
    BY <1>4
  <2> QED
    BY <2>3, <2>4
<1>7. /\ results' \in Seq(Nat \X Nat) /\ Len(results') = N
      /\ \A n \in 1..R : results'[n] = results[n]
      /\ \A n \in 1..G : results'[R + n] = z[n]
  <2>1. Zipped(call.ids) = z
    BY <1>1, <1>3, <1>4 DEF Zipped
  <2>2. PICK r : r = results
    OBVIOUS
  <2>3. r \in Seq(Nat \X Nat) /\ z \in Seq(Nat \X Nat) /\ Len(r) = R /\ Len(z) = G
    BY <1>3, <1>6, <2>2, AlbumFacts DEF ResultsInv
  <2>4. results' = r \o z
    BY <1>0, <2>1, <2>2
  <2>5. results' \in Seq(Nat \X Nat)
    BY <2>3, <2>4
  <2>6. Len(r \o z) = Len(r) + Len(z)
    <3>1. r \in Seq(Nat \X Nat) /\ z \in Seq(Nat \X Nat)
      BY <2>3
    <3> QED
      BY <3>1
  <2>7. Len(results') = N
    BY <1>3, <2>3, <2>4, <2>6
  <2>8. \A n \in 1..R : results'[n] = r[n]
    BY <2>3, <2>4
  <2>9. \A n \in 1..G : results'[R + n] = z[n]
    <3>1. \A n \in 1..G : (r \o z)[R + n] = z[n]
      BY <2>3
    <3> QED
      BY <2>4, <3>1
  <2> QED
    BY <2>2, <2>5, <2>7, <2>8, <2>9
<1>70. ASSUME NEW k \in 1..G, NEW n, n = R + k
       PROVE  results'[n][1] = group[k] /\ results'[n][2] = call.ids[k]
  <2>1. results'[n] = z[k]
    BY <1>7, <1>70
  <2> QED
    BY <1>6, <2>1
<1>8. \A n \in 1..N : n \in 1..R \/ \E k \in 1..G : n = R + k
  <2> SUFFICES ASSUME NEW n \in 1..N, n > R PROVE \E k \in 1..G : n = R + k
    BY <1>3
  <2>1. n - R \in 1..G /\ n = R + (n - R)
    BY <1>3
  <2> QED
    BY <2>1
<1>9. /\ \A n \in 1..R : n \in 1..N
      /\ \A k \in 1..G : R + k \in 1..N
  BY <1>3
<1>10. /\ \A n \in 1..R : /\ results[n][1] \in 1..Len(items) /\ results[n][2] \in 1..Len(posts)
                          /\ posts[results[n][2]].of = results[n][1]
       /\ \A n, m \in 1..R : results[n][2] = results[m][2] => n = m
  BY <1>3, AlbumFacts DEF ResultsInv
<1>11. /\ \A n, m \in 1..R : results[n][1] = results[m][1] => n = m
       /\ \A n, m \in 1..G : group[n] = group[m] => n = m
       /\ Given \cup Owed = 1..Len(items) /\ Given \cap Owed = {}
  BY <1>0, <1>1, <1>3, AlbumFacts DEF PlaceInv, Reached
<1>12. Owed = {group[n] : n \in 1..G} /\ Given = {results[n][1] : n \in 1..R}
  BY <1>0, <1>3 DEF Owed, Given
<1>13. \A n \in 1..R, m \in 1..G : results[n][1] # group[m]
  BY <1>11, <1>12
<1>14. ASSUME NEW n \in 1..N
       PROVE  /\ results'[n][1] \in 1..Len(items) /\ results'[n][2] \in 1..Len(posts)
              /\ posts[results'[n][2]].of = results'[n][1]
  <2>1. CASE n \in 1..R
    BY <1>7, <1>10, <2>1
  <2>2. ASSUME NEW k \in 1..G, n = R + k
        PROVE  /\ results'[n][1] \in 1..Len(items) /\ results'[n][2] \in 1..Len(posts)
               /\ posts[results'[n][2]].of = results'[n][1]
    <3>1. results'[n][1] = group[k] /\ results'[n][2] = call.ids[k]
      BY <1>70, <2>2
    <3> QED
      BY <1>5, <3>1
  <2> QED
    BY <1>8, <2>1, <2>2
<1>15. ASSUME NEW n \in 1..N, NEW m \in 1..N,
              results'[n][1] = results'[m][1] \/ results'[n][2] = results'[m][2]
       PROVE  n = m
  <2>1. CASE n \in 1..R /\ m \in 1..R
    BY <1>7, <1>10, <1>11, <1>15, <2>1
  <2>2. ASSUME NEW k \in 1..G, n = R + k, m \in 1..R PROVE n = m
    <3>1. results'[n][1] = group[k] /\ results'[n][2] = call.ids[k] /\ results'[m] = results[m]
      BY <1>7, <1>70, <2>2
    <3> QED
      BY <1>5, <1>13, <1>15, <2>2, <3>1
  <2>3. ASSUME NEW k \in 1..G, m = R + k, n \in 1..R PROVE n = m
    <3>1. results'[m][1] = group[k] /\ results'[m][2] = call.ids[k] /\ results'[n] = results[n]
      BY <1>7, <1>70, <2>3
    <3> QED
      BY <1>5, <1>13, <1>15, <2>3, <3>1
  <2>4. ASSUME NEW k \in 1..G, n = R + k, NEW l \in 1..G, m = R + l PROVE n = m
    <3>1. results'[n][1] = group[k] /\ results'[n][2] = call.ids[k]
      BY <1>70, <2>4
    <3>2. results'[m][1] = group[l] /\ results'[m][2] = call.ids[l]
      BY <1>70, <2>4
    <3>3. k = l
      BY <1>5, <1>11, <1>15, <3>1, <3>2
    <3> QED
      BY <2>4, <3>3
  <2> QED
    BY <1>8, <2>1, <2>2, <2>3, <2>4
<1>16. ResultsInv'
  <2>1. \A n \in 1..Len(results') :
          /\ results'[n][1] \in 1..Len(items') /\ results'[n][2] \in 1..Len(posts')
          /\ posts'[results'[n][2]].of = results'[n][1]
    BY <1>0, <1>7, <1>14
  <2>2. \A n, m \in 1..Len(results') : results'[n][2] = results'[m][2] => n = m
    BY <1>7, <1>15
  <2>3. group' \in Seq(1..Len(items')) /\ results' \in Seq(Nat \X Nat)
    BY <1>0, <1>7, AlbumFacts DEF ResultsInv
  <2>4. 1..Len(call'.ids) = {}
    BY <1>2
  <2> QED
    BY <2>1, <2>2, <2>3, <2>4 DEF ResultsInv
<1>17. PlaceInv'
  <2>1. Given' = {results'[n][1] : n \in 1..N}
    BY <1>7 DEF Given
  <2>2. ASSUME NEW i \in 1..Len(items) PROVE i \in Given'
    <3>1. CASE i \in Given
      BY <1>7, <1>9, <1>12, <2>1, <3>1
    <3>2. CASE i \in Owed
      <4>1. PICK k \in 1..G : i = group[k]
        BY <1>12, <3>2
      <4>2. i = results'[R + k][1] /\ R + k \in 1..N
        BY <1>6, <1>7, <1>9, <4>1
      <4> QED
        BY <2>1, <4>2
    <3> QED
      BY <1>11, <3>1, <3>2
  <2>3. \A i \in Given' : i \in 1..Len(items)
    BY <1>14, <2>1
  <2>4. Given' = 1..Len(items)
    BY <2>2, <2>3
  <2>5. \A n, m \in 1..Len(results') : results'[n][1] = results'[m][1] => n = m
    BY <1>7, <1>15
  <2> QED
    BY <1>0, <2>4, <2>5 DEF PlaceInv
<1>18. StageInv'
  BY <1>0, <1>2, AlbumFacts DEF StageInv, Album
<1>19. TallyInv'
  <2>1. Dropped = 0 /\ Dropped' = 0
    BY <1>0, <1>1 DEF Dropped
  <2>2. Len(results') + Len(call'.ids) + Dropped' >= Len(results) + Len(call.ids) + Dropped
    BY <1>1, <1>2, <1>3, <1>7, <2>1
  <2> QED
    BY <1>0, <1>2, <1>3, <1>7, <2>1, <2>2, TallyKept
<1> QED
  BY <1>0, <1>2, <1>16, <1>17, <1>18, <1>19 DEF AlbumInv, LedgerInv

LEMMA GroupFailsStep == AlbumInv /\ GroupFails => AlbumInv'
<1> SUFFICES ASSUME AlbumInv, GroupFails PROVE AlbumInv'
  OBVIOUS
<1>0. /\ stage = "group" /\ stage' = "single" /\ call.state = "failed" /\ call' = NoCall
      /\ UNCHANGED <<posts, netFaults, items, ledger, at, group, results>>
  BY DEF GroupFails, jobVars
<1>1. items[1] \notin {"text", "venue"} /\ at = 1
  BY <1>0, AlbumFacts DEF StageInv
<1>2. CallInv' /\ call'.state = "idle" /\ Len(call'.ids) = 0
  BY <1>0, AlbumFacts, Rests
<1>3. ResultsInv'
  BY <1>0, <1>2, ResultsKept
<1>4. StageInv'
  <2>1. at' <= Len(group') + 1
    BY <1>0, <1>1, AlbumFacts
  <2> QED
    BY <1>0, <1>1, <1>2, <2>1, AlbumFacts DEF StageInv, Album
<1>5. PlaceInv'
  <2>1. Owed' = Owed /\ Reached' = Reached
    BY <1>0, <1>1 DEF Owed, Reached
  <2> QED
    BY <1>0, <2>1, PlaceKept
<1>6. TallyInv'
  BY <1>0, <1>2, TallyOfFailed
<1> QED
  BY <1>0, <1>2, <1>3, <1>4, <1>5, <1>6 DEF AlbumInv, LedgerInv

\* The next item, or the end of the job.
LEMMA SendSingleStep == AlbumInv /\ SendSingle => AlbumInv'
<1> SUFFICES ASSUME AlbumInv, SendSingle PROVE AlbumInv'
  OBVIOUS
<1>0. /\ stage = "single"
      /\ UNCHANGED <<client, posts, netFaults, items, at, group, results>>
  BY DEF SendSingle
<1>1. /\ items[1] \notin {"text", "venue"} /\ at <= Len(group) + 1
      /\ call.state = "idle" /\ Len(call.ids) = 0
  BY <1>0, AlbumFacts DEF StageInv, CallInv
<1>2. Dropped = 0 /\ Dropped' = 0
  BY <1>0, <1>1 DEF Dropped
<1>3. CASE at <= Len(group) /\ stage' = "sending" /\ Send(Content(group[at], "copy"))
  <2>1. group[at] \in 1..Len(items)
    <3>1. at \in 1..Len(group)
      BY <1>3, AlbumFacts
    <3> QED
      BY <3>1, AlbumFacts DEF ResultsInv
  <2>2. PICK i \in Nat \ {0} : i = group[at]
    BY <2>1, AlbumFacts
  <2>3. /\ CallInv' /\ call'.state = "trying" /\ Len(call'.ids) = 0 /\ Len(call'.what) = 1
        /\ call'.what[1].of = i
    BY <1>0, <1>3, <2>2, SendsOne
  <2>4. ResultsInv'
    BY <1>0, <2>3, ResultsKept
  <2>5. StageInv'
    BY <1>0, <1>1, <1>3, <2>2, <2>3, AlbumFacts DEF StageInv, Album
  <2>6. PlaceInv'
    <3>1. Owed' = Owed /\ Reached' = Reached
      BY <1>0, <1>3 DEF Owed, Reached
    <3> QED
      BY <1>0, <1>3, <3>1, PlaceKept
  <2>7. TallyInv'
    BY <1>0, <1>1, <1>2, <2>3, AlbumFacts, TallyKept
  <2> QED
    BY <1>3, <2>3, <2>4, <2>5, <2>6, <2>7 DEF AlbumInv, LedgerInv
<1>4. CASE ~(at <= Len(group)) /\ Recorded(results) /\ UNCHANGED call
  <2>0. stage' = "recorded" /\ ledger' = {results'[n] : n \in 1..Len(results')}
    BY <1>0, <1>4 DEF Recorded
  <2>1. CallInv'
    BY <1>0, <1>4, AlbumFacts DEF CallInv, Apart
  <2>2. ResultsInv'
    BY <1>0, <1>1, <1>4, ResultsKept
  <2>3. StageInv'
    BY <1>0, <1>1, <1>4, <2>0, AlbumFacts DEF StageInv, Album
  <2>4. PlaceInv'
    <3>1. at..Len(group) = {}
      BY <1>4, AlbumFacts
    <3>2. Owed = {} /\ Reached = 1..Len(items) /\ Given' = Given
      BY <1>0, <3>1 DEF Owed, Reached, Given
    <3>3. Given = 1..Len(items)
          /\ \A n, m \in 1..Len(results) : results[n][1] = results[m][1] => n = m
      BY <1>0, <1>1, <3>2, AlbumFacts DEF PlaceInv
    <3> QED
      BY <1>0, <2>0, <3>2, <3>3 DEF PlaceInv
  <2>5. TallyInv'
    BY <1>0, <1>1, <1>2, <1>4, AlbumFacts, TallyKept
  <2> QED
    BY <2>0, <2>1, <2>2, <2>3, <2>4, <2>5 DEF AlbumInv, LedgerInv
<1> QED
  BY <1>3, <1>4 DEF SendSingle

LEMMA SingleSentStep == AlbumInv /\ SingleSent => AlbumInv'
<1> SUFFICES ASSUME AlbumInv, SingleSent PROVE AlbumInv'
  OBVIOUS
<1>0. /\ stage \in {"sending", "notice"} /\ stage' = "single" /\ call.state = "ok"
      /\ call' = NoCall /\ results' = Append(results, <<group[at], call.ids[1]>>)
      /\ at' = at + 1 /\ UNCHANGED <<posts, netFaults, items, ledger, group>>
  BY DEF SingleSent, jobVars
<1>1. /\ items[1] \notin {"text", "venue"} /\ at <= Len(group) /\ call.what[1].of = group[at]
      /\ at \in Nat \ {0}
  BY <1>0, AlbumFacts DEF StageInv
<1>2. PICK G \in Nat : G = Len(group)
  BY AlbumFacts
<1>3. at \in 1..G
  BY <1>1, <1>2
<1>4. PICK i \in 1..Len(items) : i = group[at]
  BY <1>2, <1>3, AlbumFacts DEF ResultsInv
<1>5. /\ Given \cup Owed = 1..Len(items) /\ Given \cap Owed = {}
      /\ \A n, m \in 1..G : group[n] = group[m] => n = m
  BY <1>0, <1>1, <1>2, AlbumFacts DEF PlaceInv, Reached
<1>6. Owed = {group[n] : n \in at..G} /\ Owed' = {group[n] : n \in (at + 1)..G}
      /\ Reached' = 1..Len(items)
  BY <1>0, <1>2 DEF Owed, Reached
<1>7. \A n \in at..G : n \in 1..G /\ (n = at \/ n \in (at + 1)..G)
  BY <1>1, <1>2
<1>8. \A n \in (at + 1)..G : n \in at..G /\ n # at /\ n \in 1..G
  BY <1>1, <1>2
<1>9. at \in at..G
  BY <1>1, <1>2
<1>10. i \in Owed
  BY <1>4, <1>6, <1>9
<1>11. i \notin Owed'
  BY <1>3, <1>4, <1>5, <1>6, <1>8
<1>12. \A x \in Owed : x = i \/ x \in Owed'
  BY <1>4, <1>6, <1>7
<1>13. \A x \in Owed' : x \in Owed
  BY <1>6, <1>8
<1>14. i \notin Given /\ Given \cup {i} \cup Owed' = Reached' /\ (Given \cup {i}) \cap Owed' = {}
  <2>1. Given \cup Owed = Reached' /\ Given \cap Owed = {}
    BY <1>5, <1>6
  <2> QED
    BY <2>1, <1>10, <1>11, <1>12, <1>13
<1>15. CallInv' /\ call'.state = "idle" /\ ResultsInv' /\ PlaceInv' /\ TallyInv'
  BY <1>0, <1>1, <1>4, <1>14, NoteStep
<1>16. StageInv'
  <2>1. at' <= Len(group') + 1 /\ at' \in Nat \ {0}
    BY <1>0, <1>1, <1>2
  <2> QED
    BY <1>0, <1>1, <1>15, <2>1, AlbumFacts DEF StageInv, Album
<1> QED
  BY <1>0, <1>15, <1>16 DEF AlbumInv, LedgerInv

LEMMA SingleFailsStep == AlbumInv /\ SingleFails => AlbumInv'
<1> SUFFICES ASSUME AlbumInv, SingleFails PROVE AlbumInv'
  OBVIOUS
<1>0. /\ stage \in {"sending", "notice"} /\ call.state = "failed"
      /\ UNCHANGED <<client, posts, netFaults, items, at, group, results>>
  BY DEF SingleFails
<1>1. CASE stage = "sending" /\ Send(call.what) /\ UNCHANGED <<stage, ledger>>
  BY <1>0, <1>1, SendsAgain
<1>2. CASE stage = "sending" /\ stage' = "notice" /\ Send(Content(group[at], "notice"))
  <2>1. items[1] \notin {"text", "venue"} /\ at <= Len(group) /\ at \in Nat \ {0}
    BY <1>0, AlbumFacts DEF StageInv
  <2>2. group[at] \in 1..Len(items)
    <3>1. at \in 1..Len(group)
      BY <2>1, AlbumFacts
    <3> QED
      BY <3>1, AlbumFacts DEF ResultsInv
  <2>3. PICK i \in Nat \ {0} : i = group[at]
    BY <2>2, AlbumFacts
  <2>4. /\ CallInv' /\ call'.state = "trying" /\ Len(call'.ids) = 0 /\ Len(call'.what) = 1
        /\ call'.what[1].of = i
    BY <1>0, <1>2, <2>3, SendsOne
  <2>5. ResultsInv'
    BY <1>0, <2>4, ResultsKept
  <2>6. StageInv'
    BY <1>0, <1>2, <2>1, <2>3, <2>4, AlbumFacts DEF StageInv, Album
  <2>7. PlaceInv'
    <3>1. Owed' = Owed /\ Reached' = Reached
      BY <1>0, <1>2 DEF Owed, Reached
    <3> QED
      BY <1>0, <1>2, <3>1, PlaceKept
  <2>8. TallyInv'
    BY <1>0, <2>4, TallyOfFailed
  <2> QED
    BY <1>2, <2>4, <2>5, <2>6, <2>7, <2>8 DEF AlbumInv, LedgerInv
<1>3. CASE call' = NoCall /\ Fails
  BY <1>0, <1>3, AlbumFacts, FailsKeeps DEF Fails
<1> QED
  BY <1>1, <1>2, <1>3 DEF SingleFails

LEMMA AlbumStutters == AlbumInv /\ UNCHANGED albumVars => AlbumInv'
<1> SUFFICES ASSUME AlbumInv, UNCHANGED albumVars PROVE AlbumInv'
  OBVIOUS
<1>1. /\ client' = client /\ call' = call /\ posts' = posts /\ netFaults' = netFaults
      /\ items' = items /\ stage' = stage /\ at' = at /\ group' = group
      /\ results' = results /\ ledger' = ledger
  BY DEF albumVars, sendVars
<1>2. Given' = Given /\ Owed' = Owed /\ Reached' = Reached /\ Dropped' = Dropped
  BY <1>1 DEF Given, Owed, Reached, Dropped
<1>3. CallInv' /\ StageInv'
  BY <1>1, AlbumFacts DEF CallInv, Apart, StageInv, Album
<1>4. ResultsInv' /\ LedgerInv'
  <2>1. ResultsInv'
    BY <1>1, AlbumFacts DEF ResultsInv
  <2>2. LedgerInv'
    BY <1>1, AlbumFacts DEF LedgerInv
  <2> QED
    BY <2>1, <2>2
<1>5. PlaceInv' /\ TallyInv'
  BY <1>1, <1>2, AlbumFacts DEF PlaceInv, TallyInv
<1> QED
  BY <1>3, <1>4, <1>5 DEF AlbumInv

LEMMA AlbumStep == AlbumInv /\ [AlbumNext]_albumVars => AlbumInv'
  BY CallingStep, StartPartsStep, PartSentStep, PartFailsStep, LoadStep, OutStep, WalkStep,
     AloneSentStep, AloneFailsStep, SendGroupStep, GroupSentStep, GroupFailsStep,
     SendSingleStep, SingleSentStep, SingleFailsStep, AlbumStutters
     DEF AlbumNext, Job

LEMMA AlbumStart == AlbumInit => AlbumInv
<1> SUFFICES ASSUME AlbumInit PROVE AlbumInv
  OBVIOUS
<1>0. /\ call = NoCall /\ posts = <<>> /\ netFaults = 0 /\ stage = "load" /\ at = 1
      /\ group = <<>> /\ results = <<>>
  BY DEF AlbumInit, SendInit
<1>1. CallInv /\ call.state = "idle" /\ Len(call.ids) = 0
  <2>1. NoCall \in CallRec /\ NoCall.state = "idle" /\ NoCall.ids = <<>> /\ NoCall.what = <<>>
    BY DEF NoCall, CallRec
  <2>2. Len(items) \in Nat
    BY DEF AlbumInit
  <2> QED
    BY <1>0, <2>1, <2>2 DEF CallInv, Apart
<1>2. Len(items) \in Nat \ {0} /\ (Album => items[1] \notin {"text", "venue"})
  <2>1. CASE items \in {<<k>> : k \in Kinds}
    <3>1. PICK k : items = <<k>>
      BY <2>1
    <3>2. Len(items) = 1
      BY <3>1
    <3> QED
      BY <3>2 DEF Album
  <2>2. ASSUME NEW n \in 2..MaxItems, items \in [1..n -> {"photo", "document"}]
        PROVE  Len(items) \in Nat \ {0} /\ (Album => items[1] \notin {"text", "venue"})
    <3>1. n \in Nat /\ n >= 2 /\ 1 \in 1..n
      BY <2>2, MaxItemsAssumption
    <3>2. Len(items) = n
      BY <2>2, <3>1
    <3> QED
      BY <2>2, <3>1, <3>2
  <2> QED
    BY <2>1, <2>2 DEF AlbumInit
<1>3. StageInv
  BY <1>0, <1>1, <1>2 DEF StageInv
<1>4. ResultsInv
  <2>1. <<>> \in Seq(1..Len(items)) /\ <<>> \in Seq(Nat \X Nat)
    OBVIOUS
  <2>2. 1..Len(results) = {} /\ 1..Len(call.ids) = {}
    BY <1>0, <1>1
  <2> QED
    BY <1>0, <2>1, <2>2 DEF ResultsInv
<1>5. LedgerInv /\ PlaceInv
  BY <1>0 DEF LedgerInv, PlaceInv
<1>6. TallyInv
  <2>1. Dropped \in Nat /\ Len(posts) = 0 /\ Len(results) = 0 /\ netFaults * Len(items) = 0
    BY <1>0, <1>2 DEF Dropped
  <2> QED
    BY <1>1, <2>1 DEF TallyInv
<1> QED
  BY <1>1, <1>3, <1>4, <1>5, <1>6 DEF AlbumInv

\* What the job knows of its copies holds in every reachable state.
THEOREM AlbumInvariant == AlbumSpec => []AlbumInv
  BY AlbumStart, AlbumStep, PTL DEF AlbumSpec

\* RowsMatch: pair_send writes a row only from a message to a copy made of that
\* message, for albums of any size and content, whichever items were left out, sent
\* alone, replaced by a notice or sent again, through all three clients.
THEOREM RowsMatchAlways == AlbumSpec => []RowsMatch
<1>1. AlbumInv => RowsMatch
  <2> SUFFICES ASSUME AlbumInv, Done, NEW r \in ledger PROVE posts[r[2]].of = r[1]
    BY DEF RowsMatch
  <2>1. PICK n \in 1..Len(results) : r = results[n]
    BY AlbumFacts DEF Done, LedgerInv
  <2> QED
    BY <2>1, AlbumFacts DEF ResultsInv
<1> QED
  BY <1>1, AlbumInvariant, PTL

\* EachAccounted: a job of an album that ends normally has given every message exactly
\* one row, on whatever way its copies were made.
THEOREM EachAccountedAlways == AlbumSpec => []EachAccounted
<1>1. AlbumInv => EachAccounted
  <2> SUFFICES ASSUME AlbumInv, Done, Album, NEW i \in 1..Len(items)
               PROVE  Cardinality({r \in ledger : r[1] = i}) = 1
    BY DEF EachAccounted
  <2>1. stage = "recorded" /\ items[1] \notin {"text", "venue"}
    BY AlbumFacts DEF Done, StageInv
  <2>2. /\ ledger = {results[n] : n \in 1..Len(results)}
        /\ Given = 1..Len(items)
        /\ \A n, m \in 1..Len(results) : results[n][1] = results[m][1] => n = m
    BY <2>1, AlbumFacts DEF LedgerInv, PlaceInv
  <2>3. PICK n \in 1..Len(results) : results[n][1] = i
    BY <2>2 DEF Given
  <2>4. {r \in ledger : r[1] = i} = {results[n]}
    BY <2>2, <2>3
  <2> QED
    BY <2>4, FS_Singleton
<1> QED
  BY <1>1, AlbumInvariant, PTL

\* The known copies are as many as the rows of the results.
LEMMA KnownCopies ==
  ASSUME AlbumInv, Done
  PROVE  /\ Tracked \subseteq 1..Len(posts)
         /\ IsFiniteSet(Tracked) /\ Cardinality(Tracked) = Len(results)
<1>1. /\ ledger = {results[n] : n \in 1..Len(results)}
      /\ \A n \in 1..Len(results) : results[n][2] \in 1..Len(posts)
      /\ \A n, m \in 1..Len(results) : results[n][2] = results[m][2] => n = m
  BY AlbumFacts DEF Done, LedgerInv, ResultsInv
<1>2. Tracked = {results[n][2] : n \in 1..Len(results)}
  BY <1>1 DEF Tracked
<1>3. PICK f : f = [n \in 1..Len(results) |-> results[n][2]]
  OBVIOUS
<1>4. f \in Bijection(1..Len(results), Tracked)
  BY <1>1, <1>2, <1>3 DEF Bijection, Injection, IsInjective, Surjection
<1>5. ExistsBijection(1..Len(results), Tracked)
  BY <1>4 DEF ExistsBijection
<1>6. IsFiniteSet(1..Len(results)) /\ Cardinality(1..Len(results)) = Len(results)
  BY AlbumFacts, CountedTo
<1> QED
  BY <1>1, <1>2, <1>5, <1>6, FS_Bijection

\* StrayCopies: the copies nobody will ever find again are paid for: at most the whole
\* job for each call that went wrong, and the location of a venue.
THEOREM StrayCopiesArePaid == AlbumSpec => []StrayCopies
<1>1. AlbumInv => StrayCopies
  <2> SUFFICES ASSUME AlbumInv, Done
               PROVE  Cardinality((1..Len(posts)) \ Tracked)
                        <= netFaults * Len(items) + (IF items[1] = "venue" THEN 1 ELSE 0)
    BY DEF StrayCopies
  <2>1. PICK P \in Nat, R \in Nat, m \in Nat :
          P = Len(posts) /\ R = Len(results) /\ m = netFaults * Len(items)
    BY AlbumFacts
  <2>2. P <= R + m + Dropped
    <3>1. call.state = "idle" /\ Len(call.ids) = 0 /\ stage # "failed"
      BY AlbumFacts DEF Done, StageInv, CallInv
    <3>2. Dropped \in Nat
      BY DEF Dropped
    <3>3. P <= R + 0 + m + Dropped
      BY <2>1, <3>1, AlbumFacts DEF TallyInv
    <3> QED
      BY <3>2, <3>3
  <2>3. PICK D \in Nat : D = IF items[1] = "venue" THEN 1 ELSE 0
    OBVIOUS
  <2>4. Dropped <= D /\ Dropped \in Nat
    BY <2>3 DEF Dropped
  <2>5. IsFiniteSet(1..P) /\ Cardinality(1..P) = P
    BY CountedTo
  <2>6. Tracked \subseteq 1..P /\ IsFiniteSet(Tracked) /\ Cardinality(Tracked) = R
    BY <2>1, KnownCopies
  <2>7. (1..P) \cap Tracked = Tracked
    BY <2>6
  <2>8. Cardinality((1..P) \ Tracked) = Cardinality(1..P) - Cardinality((1..P) \cap Tracked)
    BY <2>5, FS_Difference
  <2>9. Cardinality((1..P) \ Tracked) = P - R
    BY <2>5, <2>6, <2>7, <2>8
  <2>10. P - R <= m + D
    BY <2>2, <2>4
  <2> QED
    BY <2>1, <2>3, <2>9, <2>10
<1> QED
  BY <1>1, AlbumInvariant, PTL

-----------------------------------------------------------------------------
(* The types of all four, running in one process                           *)

\* The safety part of TextFormat: a text that grows, and its marks.
TextSpec == TextInit /\ [][TextNext]_textVars

TextInv == TextTypeOK /\ IsFiniteSet(marks)

THEOREM TextTyped == TextSpec => []TextInv
<1>1. TextInit => TextInv
  BY TextAssumption, FS_EmptySet DEF TextInit, TextInv, TextTypeOK
<1>2. TextInv /\ [TextNext]_textVars => TextInv'
  <2> SUFFICES ASSUME TextInv, [TextNext]_textVars PROVE TextInv'
    OBVIOUS
  <2>1. ASSUME NEW c \in Char, Write(c) PROVE TextInv'
    <3>1. text \in Seq(Char) /\ Len(text) < MaxText /\ marks = {} /\ marks' = marks
          /\ text' = Append(text, c)
      BY <2>1 DEF Write, TextInv, TextTypeOK
    <3>2. text' \in Seq(Char) /\ Len(text') <= MaxText
      BY <3>1, TextAssumption
    <3> QED
      BY <3>1, <3>2 DEF TextInv, TextTypeOK
  <2>2. ASSUME NEW i \in 0..MaxMarked, NEW j \in 0..MaxMarked, Mark(i, j) PROVE TextInv'
    <3>1. PICK e : /\ marks' = marks \cup {e} /\ text' = text
                   /\ Cardinality(marks) < MaxMarks
      BY <2>2 DEF Mark
    <3>2. IsFiniteSet(marks) /\ Cardinality(marks) \in Nat
      BY FS_CardinalityType DEF TextInv
    <3>3. /\ IsFiniteSet(marks \cup {e})
          /\ Cardinality(marks \cup {e}) <= Cardinality(marks) + 1
      BY <3>2, FS_AddElement
    <3>4. Cardinality(marks') \in Nat
      BY <3>1, <3>3, FS_CardinalityType
    <3>5. Cardinality(marks') <= MaxMarks
      BY <3>1, <3>2, <3>3, <3>4, TextAssumption
    <3> QED
      BY <3>1, <3>3, <3>5 DEF TextInv, TextTypeOK
  <2>3. CASE UNCHANGED textVars
    BY <2>3 DEF textVars, TextInv, TextTypeOK
  <2> QED
    BY <2>1, <2>2, <2>3 DEF TextNext
<1> QED
  BY <1>1, <1>2, PTL DEF TextSpec

PollBounds == published <= MaxUpdates /\ pollFaults \in 0..MaxPollFaults

\* Every number of the long poll is within its bounds.
THEOREM PollTyped == PollSpec => []PollTypeOK
<1>1. PollInit => PollBounds
  BY PollAssumption DEF PollInit, PollBounds
<1>2. PollInv /\ PollBounds /\ [PollNext]_pollVars => PollBounds'
  <2> SUFFICES ASSUME PollInv, PollBounds, [PollNext]_pollVars PROVE PollBounds'
    OBVIOUS
  <2>1. ASSUME UNCHANGED <<published, pollFaults>> PROVE PollBounds'
    BY <2>1 DEF PollBounds
  <2>2. ASSUME published' = published, PollFault PROVE PollBounds'
    BY <2>2, PollAssumption DEF PollBounds, PollFault
  <2>3. CASE Publish
    BY <2>3, PollAssumption DEF Publish, PollBounds, PollInv, Published
  <2>4. CASE Listener
    BY <2>1, <2>4 DEF Listener, Listen, SkipBacklog, Poll, Handler, BatchDone
  <2>5. CASE PollFails \/ PollRaises \/ PollCrash
    BY <2>2, <2>5 DEF PollFails, PollRaises, PollCrash, Down
  <2>6. CASE UNCHANGED pollVars
    BY <2>1, <2>6 DEF pollVars
  <2> QED
    BY <2>3, <2>4, <2>5, <2>6 DEF PollNext
<1>3. PollInv /\ PollBounds => PollTypeOK
  <2> SUFFICES ASSUME PollInv, PollBounds PROVE PollTypeOK
    OBVIOUS
  <2>1. /\ published \in Nat /\ published <= MaxUpdates
        /\ kept \in Nat /\ kept >= 1 /\ kept <= published + 1
        /\ saved \in Nat /\ saved <= published + 1
        /\ offset \in Nat /\ offset <= published + 1
    BY DEF PollInv, PollBounds, Published
  <2>2. /\ published \in 0..MaxUpdates /\ kept \in 1..(MaxUpdates + 1)
        /\ saved \in 0..(MaxUpdates + 1) /\ offset \in 0..(MaxUpdates + 1)
    BY <2>1, PollAssumption
  <2>3. phase \in {"down", "first", "poll", "handle"}
    BY DEF PollInv, InStep
  <2>4. batch \subseteq 1..MaxUpdates
    <3>1. CASE phase = "handle"
      <4>1. PICK n \in Nat : n <= published /\ batch = Position..n
        BY <3>1 DEF PollInv, Contiguous
      <4>2. Position \in Nat /\ Position >= 1
        BY PositionInRange DEF PollInv
      <4> QED
        BY <2>1, <4>1, <4>2, PollAssumption
    <3>2. CASE phase # "handle"
      BY <3>2 DEF PollInv, Contiguous
    <3> QED
      BY <3>1, <3>2
  <2> QED
    BY <2>2, <2>3, <2>4 DEF PollTypeOK, PollBounds
<1> QED
  BY <1>1, <1>2, <1>3, PollingInvariant, PTL DEF PollSpec

-----------------------------------------------------------------------------
(* The bounds of one job *)

LEMMA SeqOfMore ==
  ASSUME NEW S, NEW T, S \subseteq T, NEW u \in Seq(S)
  PROVE  u \in Seq(T)
OBVIOUS

\* Fallbacks and repetitions end; a group is made of messages of the job; the ledger
\* is written once, at the end.
AlbumBounds ==
  /\ call.attempt \in 0..(MAX_ATTEMPTS - 1) /\ chain \in 1..4
  /\ netFaults <= MaxNetFaults
  /\ Len(items) <= MaxItems /\ files \in Seq({"ok", "big", "none"})
  /\ at <= Len(items) + Parts
  /\ stage \in {"load", "walk", "alone"} => Len(group) <= at - 1
  /\ Len(group) <= Len(items)
  /\ stage # "recorded" => ledger = {}

\* What an attempt may become, and a fault.
CallBounds == call'.attempt \in 0..(MAX_ATTEMPTS - 1) /\ netFaults' <= MaxNetFaults

LEMMA NewCall ==
  ASSUME AlbumBounds, netFaults' = netFaults,
         call' = NoCall \/ call' = call \/ \E what : Send(what)
  PROVE  CallBounds
<1>1. 0 \in 0..(MAX_ATTEMPTS - 1)
  BY SendAssumption
<1>2. call'.attempt = 0 \/ call' = call
  <2>1. ASSUME NEW what, Send(what) PROVE call'.attempt = 0
    BY <2>1 DEF Send, NoCall
  <2> QED
    BY <2>1 DEF NoCall
<1>3. call'.attempt \in 0..(MAX_ATTEMPTS - 1)
  BY <1>1, <1>2 DEF AlbumBounds
<1> QED
  BY <1>3 DEF AlbumBounds, CallBounds

LEMMA FaultBound ==
  ASSUME AlbumInv, AlbumBounds, NetFault
  PROVE  netFaults' <= MaxNetFaults
BY AlbumFacts, SendAssumption DEF NetFault

\* Steps of the call leave the job where it is.
LEMMA CallingBounds ==
  ASSUME AlbumInv, AlbumBounds, Calling
  PROVE  AlbumBounds'
<1>1. UNCHANGED <<items, files, ledger, stage, at, chain, group, results>>
  BY DEF Calling, jobVars
<1>2. CallBounds
  <2>1. call \in CallRec /\ call.attempt \in 0..(MAX_ATTEMPTS - 1)
        /\ netFaults <= MaxNetFaults
    BY AlbumFacts DEF AlbumBounds, CallInv
  <2>2. ASSUME NEW state, Ends(state) PROVE call'.attempt = call.attempt
    BY <2>1, <2>2 DEF Ends, CallRec
  <2>3. ASSUME Again, call.attempt + 1 < MAX_ATTEMPTS
        PROVE  call'.attempt \in 0..(MAX_ATTEMPTS - 1)
    BY <2>1, <2>3, SendAssumption DEF Again, CallRec
  <2>4. /\ call.attempt < RATE_LIMIT_RETRIES => call.attempt + 1 < MAX_ATTEMPTS
        /\ call.attempt < NETWORK_RETRIES => call.attempt + 1 < MAX_ATTEMPTS
    BY <2>1, SendAssumption
  <2>5. CASE Answered
    BY <2>1, <2>5 DEF Answered, CallBounds, CallRec
  <2>6. CASE Refused
    BY <2>1, <2>2, <2>6, FaultBound DEF Refused, CallBounds
  <2>7. CASE RateLimited
    BY <2>1, <2>2, <2>3, <2>4, <2>7, FaultBound DEF RateLimited, CallBounds
  <2>8. CASE NetworkLost
    BY <2>1, <2>2, <2>3, <2>4, <2>8, FaultBound DEF NetworkLost, CallBounds
  <2>9. CASE EmptyBody
    BY <2>1, <2>2, <2>3, <2>9, FaultBound DEF EmptyBody, CallBounds
  <2> QED
    BY <2>5, <2>6, <2>7, <2>8, <2>9 DEF Calling, SendNext
<1> QED
  BY <1>1, <1>2 DEF AlbumBounds, CallBounds

\* A step of the job that keeps its group, or adds the message it is at.
LEMMA JobBounds ==
  ASSUME AlbumInv, AlbumBounds, CallBounds, items' = items,
         files' \in Seq({"ok", "big", "none"}), chain' \in 1..4,
         at' <= Len(items) + Parts,
         stage' \in {"load", "walk", "alone"} => Len(group') <= at' - 1,
         Len(group') <= Len(items),
         stage' # "recorded" => ledger' = {}
  PROVE  AlbumBounds'
BY DEF AlbumBounds, CallBounds

LEMMA MethodsBounded == \A i : Methods(i) \in 1..4
BY DEF Methods

LEMMA ChainGrows ==
  ASSUME AlbumBounds, NEW i, chain < Methods(i), chain' = chain + 1
  PROVE  chain' \in 1..4
<1>1. chain \in 1..4 /\ Methods(i) \in 1..4
  BY MethodsBounded DEF AlbumBounds
<1> QED
  BY <1>1

LEMMA JobStep ==
  ASSUME AlbumInv, AlbumBounds, Job
  PROVE  AlbumBounds'
<1>0. /\ Len(items) \in Nat \ {0} /\ at \in Nat \ {0} /\ Len(group) \in Nat
      /\ files \in Seq({"ok", "big", "none"}) /\ chain \in 1..4
      /\ at <= Len(items) + Parts /\ Len(group) <= Len(items)
      /\ stage \in {"load", "walk", "alone"} => Len(group) <= at - 1
      /\ stage # "recorded" => ledger = {}
      /\ 1 \in 1..4
  BY AlbumFacts DEF AlbumBounds
<1>1. CASE StartParts
  <2>1. CallBounds
    BY <1>1, NewCall DEF StartParts
  <2> QED
    BY <1>0, <1>1, <2>1, JobBounds DEF StartParts, jobVars
<1>2. CASE PartSent
  <2>1. CallBounds
    BY <1>2, NewCall DEF PartSent
  <2>2. at' <= Len(items) + Parts
    BY <1>0, <1>2 DEF PartSent, Parts
  <2> QED
    BY <1>0, <1>2, <2>1, <2>2, JobBounds DEF PartSent, Recorded
<1>3. CASE PartFails
  <2>1. CallBounds
    BY <1>3, NewCall DEF PartFails
  <2> QED
    BY <1>0, <1>3, <2>1, JobBounds DEF PartFails, Fails
<1>4. CASE Load \/ LoadSizes
  <2>1. CallBounds
    BY <1>4, NewCall DEF Load, LoadSizes, sendVars
  <2>2. files' \in Seq({"ok", "big", "none"})
    <3>1. files' \in [1..Len(items) -> {"ok", "big", "none"}]
      BY <1>4 DEF Load, LoadSizes
    <3> QED
      BY <1>0, <3>1
  <2> QED
    BY <1>0, <1>4, <2>1, <2>2, JobBounds DEF Load, LoadSizes
<1>5. CASE LoadFails \/ Dies
  <2>1. CallBounds
    <3>1. call' = NoCall \/ call' = call
      BY <1>5 DEF LoadFails, Dies
    <3>2. netFaults' <= MaxNetFaults
      BY <1>5, FaultBound DEF LoadFails, Dies
    <3>3. call'.attempt \in 0..(MAX_ATTEMPTS - 1)
      BY <3>1, SendAssumption DEF NoCall, AlbumBounds
    <3> QED
      BY <3>2, <3>3 DEF CallBounds
  <2>2. stage # "recorded"
    BY <1>5 DEF LoadFails, Dies
  <2> QED
    BY <1>0, <1>5, <2>1, <2>2, JobBounds DEF LoadFails, Dies, Fails
<1>6. CASE Walk
  <2>1. CallBounds
    BY <1>6, NewCall DEF Walk
  <2>2. stage = "walk" /\ at <= Len(items) /\ UNCHANGED <<items, files, chain, ledger>>
    BY <1>6 DEF Walk, jobVars
  <2>3. CASE group' = Append(group, at) /\ at' = at + 1 /\ UNCHANGED <<stage, call>>
    <3>1. Len(group') = Len(group) + 1
      <4>1. group \in Seq(1..Len(items))
        BY AlbumFacts DEF ResultsInv
      <4> QED
        BY <1>0, <2>2, <2>3, <4>1
    <3>2. Len(group') <= at' - 1 /\ Len(group') <= Len(items) /\ at' <= Len(items) + Parts
      BY <1>0, <2>2, <2>3, <3>1 DEF Parts
    <3> QED
      BY <1>0, <2>1, <2>2, <2>3, <3>2, JobBounds
  <2>4. CASE stage' = "alone" /\ UNCHANGED <<group, at>>
    BY <1>0, <2>1, <2>2, <2>4, JobBounds
  <2> QED
    BY <1>6, <2>3, <2>4 DEF Walk
<1>7. CASE AloneSent
  <2>1. CallBounds
    BY <1>7, NewCall DEF AloneSent
  <2>2. at <= Len(items)
    BY <1>7, AlbumFacts DEF AloneSent, StageInv
  <2>3. at' <= Len(items) + Parts /\ Len(group') <= at' - 1
    BY <1>0, <1>7, <2>2 DEF AloneSent, Parts
  <2> QED
    BY <1>0, <1>7, <2>1, <2>3, JobBounds DEF AloneSent, jobVars
<1>8. CASE AloneFails
  <2>1. CallBounds
    BY <1>8, NewCall DEF AloneFails
  <2>2. chain' \in 1..4
    BY <1>0, <1>8, ChainGrows DEF AloneFails
  <2> QED
    BY <1>0, <1>8, <2>1, <2>2, JobBounds DEF AloneFails, Fails
<1>9. CASE SendGroup
  <2>1. CallBounds
    BY <1>9, NewCall DEF SendGroup
  <2>2. at' <= Len(items) + Parts
    BY <1>0, <1>9 DEF SendGroup, Parts
  <2> QED
    BY <1>0, <1>9, <2>1, <2>2, JobBounds DEF SendGroup, jobVars
<1>10. CASE GroupSent \/ GroupFails
  <2>1. CallBounds
    BY <1>10, NewCall DEF GroupSent, GroupFails
  <2> QED
    BY <1>0, <1>10, <2>1, JobBounds DEF GroupSent, GroupFails, Recorded, jobVars
<1>11. CASE SendSingle
  <2>1. CallBounds
    BY <1>11, NewCall DEF SendSingle
  <2> QED
    BY <1>0, <1>11, <2>1, JobBounds DEF SendSingle, Recorded
<1>12. CASE SingleSent
  <2>1. CallBounds
    BY <1>12, NewCall DEF SingleSent
  <2>2. at <= Len(group)
    BY <1>12, AlbumFacts DEF SingleSent, StageInv
  <2>3. at' <= Len(items) + Parts
    BY <1>0, <1>12, <2>2 DEF SingleSent, Parts
  <2> QED
    BY <1>0, <1>12, <2>1, <2>3, JobBounds DEF SingleSent, jobVars
<1>13. CASE SingleFails
  <2>1. CallBounds
    BY <1>13, NewCall DEF SingleFails
  <2>2. chain' \in 1..4
    BY <1>0, <1>13, ChainGrows DEF SingleFails
  <2> QED
    BY <1>0, <1>13, <2>1, <2>2, JobBounds DEF SingleFails, Fails
<1> QED
  BY <1>1, <1>2, <1>3, <1>4, <1>5, <1>6, <1>7, <1>8, <1>9, <1>10, <1>11, <1>12, <1>13
  DEF Job

\* One job keeps its types: attempts, methods and groups stay within their bounds, and
\* a row is about a message and a post there are.
THEOREM AlbumTyped == AlbumSpec => []AlbumTypeOK
<1>1. AlbumInit => AlbumBounds
  <2> SUFFICES ASSUME AlbumInit PROVE AlbumBounds
    OBVIOUS
  <2>1. /\ call = NoCall /\ netFaults = 0 /\ at = 1 /\ chain = 1 /\ stage = "load"
        /\ group = <<>> /\ files = <<>> /\ ledger = {}
    BY DEF AlbumInit, SendInit
  <2>2. Len(items) \in Nat \ {0} /\ Len(items) <= MaxItems
    <3>1. CASE items \in {<<k>> : k \in Kinds}
      <4>1. Len(items) = 1
        BY <3>1
      <4> QED
        BY <4>1, MaxItemsAssumption
    <3>2. ASSUME NEW n \in 2..MaxItems, items \in [1..n -> {"photo", "document"}]
          PROVE  Len(items) \in Nat \ {0} /\ Len(items) <= MaxItems
      <4>1. n \in Nat \ {0} /\ n <= MaxItems
        BY <3>2, MaxItemsAssumption
      <4>2. Len(items) = n
        BY <3>2, <4>1
      <4> QED
        BY <4>1, <4>2
    <3> QED
      BY <3>1, <3>2 DEF AlbumInit
  <2>3. <<>> \in Seq({"ok", "big", "none"}) /\ Len(<<>>) = 0
    OBVIOUS
  <2>4. NoCall.attempt \in 0..(MAX_ATTEMPTS - 1)
    BY SendAssumption DEF NoCall
  <2> QED
    BY <2>1, <2>2, <2>3, <2>4, SendAssumption DEF AlbumBounds, Parts
<1>2. AlbumInv /\ AlbumBounds /\ [AlbumNext]_albumVars => AlbumBounds'
  BY CallingBounds, JobStep DEF AlbumNext, AlbumBounds, albumVars, sendVars
<1>3. AlbumInv /\ AlbumBounds => AlbumTypeOK
  <2> SUFFICES ASSUME AlbumInv, AlbumBounds PROVE AlbumTypeOK
    OBVIOUS
  <2>1. /\ call.state \in {"idle", "trying", "ok", "failed"}
        /\ stage \in {"load", "walk", "alone", "parts", "group", "single", "sending",
                      "notice", "recorded", "failed"}
    BY AlbumFacts DEF CallInv, CallRec, StageInv
  <2>2. /\ Len(items) \in 1..MaxItems /\ netFaults \in 0..MaxNetFaults
        /\ at \in 1..(MaxItems + Parts)
    <3>1. /\ Len(items) <= MaxItems /\ netFaults <= MaxNetFaults
          /\ at <= Len(items) + Parts
      BY DEF AlbumBounds
    <3> QED
      BY <3>1, AlbumFacts, SendAssumption, MaxItemsAssumption DEF Parts
  <2>3. group \in Seq(1..MaxItems)
    <3>1. PICK L \in 1..MaxItems : L = Len(items)
      BY <2>2
    <3>2. group \in Seq(1..L)
      BY <3>1, AlbumFacts DEF ResultsInv
    <3>3. 1..L \subseteq 1..MaxItems
      BY MaxItemsAssumption
    <3> QED
      BY <3>2, <3>3, SeqOfMore
  <2>4. \A n \in 1..Len(results) :
          results[n][1] \in 1..Len(items) /\ results[n][2] \in 1..Len(posts)
    BY AlbumFacts DEF ResultsInv
  <2>5. ledger \subseteq {results[n] : n \in 1..Len(results)}
    BY AlbumFacts DEF LedgerInv, AlbumBounds
  <2> QED
    BY <2>1, <2>2, <2>3, <2>4, <2>5 DEF AlbumTypeOK, AlbumBounds
<1> QED
  BY <1>1, <1>2, <1>3, AlbumInvariant, PTL DEF AlbumSpec

\* Whichever part a behaviour runs, it is one of that part's behaviours, and the others
\* rest: what is proved of each client holds of the whole.
THEOREM ClientsRunAlone == Spec => PollSpec /\ AlbumSpec /\ SelfSpec /\ TextSpec
<1>1. Init => PollInit /\ AlbumInit /\ SelfInit /\ TextInit
  BY DEF Init
<1>2. [Next]_vars => /\ [PollNext]_pollVars /\ [AlbumNext]_albumVars
                     /\ [SelfNext]_selfVars /\ [TextNext]_textVars
  <2> SUFFICES ASSUME [Next]_vars
               PROVE  /\ [PollNext]_pollVars /\ [AlbumNext]_albumVars
                      /\ [SelfNext]_selfVars /\ [TextNext]_textVars
    OBVIOUS
  <2>1. CASE UNCHANGED vars
    BY <2>1 DEF vars, clientVars
  <2>2. CASE ClientNext
    BY <2>2 DEF ClientNext
  <2>3. CASE UNCHANGED clientVars
    BY <2>3 DEF clientVars
  <2> QED
    BY <2>1, <2>2, <2>3 DEF Next
<1> QED
  BY <1>1, <1>2, PTL DEF Spec, PollSpec, AlbumSpec, SelfSpec, TextSpec

\* Every variable of the clients keeps its type.
THEOREM ClientTypes == Spec => []ClientTypeOK
<1>1. SelfInv => SelfTypeOK
  BY DEF SelfInv
<1>2. TextInv => TextTypeOK
  BY DEF TextInv
<1>3. PollTypeOK /\ AlbumTypeOK /\ SelfTypeOK /\ TextTypeOK => ClientTypeOK
  BY DEF ClientTypeOK
<1> QED
  BY <1>1, <1>2, <1>3, ClientsRunAlone, PollTyped, AlbumTyped, SelfInvariant, TextTyped, PTL
=============================================================================
