# TLA+ models of tg-bale-bridge

`tg-bale-bridge` is one asyncio process that mirrors messages between Telegram
channels (a Telethon account) and Bale channels (a bot that polls, or an
aiobale account). This directory holds TLA+ models of the mirroring itself, of
the clients it uses, of its installation and of its panels, the TLC
configurations that check them on small instances, and TLAPS proofs that hold for
every instance.

## 1. The system

| Component | State | Operations | Interacts with |
|---|---|---|---|
| Intake (`transfer/queueing.py`, `albums.py`, `loopguard.py`) | `q_tg`, `q_bale`, `paused`, album buffers and flush tasks, `ignore_tg`, `ignore_bale` | `on_tg_new/edit/delete`, `queue_bale_msg/edit`, `on_bale_delete`, `feed`, `flush`, `_worker` | called by the event routers; asks the ledger; its workers call the engines |
| Mirror engines (`mirror_t2b.py`, `mirror_b2t.py`) | none of their own | `mirror`, `pair_send`, `msg_to_*`, `album_to_*` | pairs, map, ledger, fingerprints; the clients of both platforms |
| Edit sync (`sync_edit.py`) | none | `process_tg_edit`, `process_bale_edit` with their fallback | map, pairs, loop guard, clients, the mirror engines |
| Delete sync (`sync_delete.py`) | none | `process_tg_delete`, `process_bale_delete` | map, pairs, loop guard, clients |
| Store (`dbstore/`) | SQLite: `pairs`, `msg_map`, `sent`, `sent_fp`, `meta` | synchronous queries behind one lock | everybody |
| Telethon session and routing (`tguser/`) | the session | event handlers, login | intake, admin panel |
| Bale selfbot adapter (`bale/`) | client, chat-type cache, message dates | events, send, edit, delete, resolve, login | intake, engines |
| Bot-API client (`botapi/`) | aiohttp session, poll offset | `call` with retries, `listen` | Bale bot, Telegram control bot |
| Control bot (`tgbot/`), admin (`admin/`), wizard (`wizard/`), dashboard (`dashboard/`) | admin seat, dialogue states, lockouts, sessions | commands, dialogue steps, login | store, intake (`paused`), pairs |
| Runtime (`runtime/`, `runcfg/`, `appcfg/`) | tasks, settings | boot, installer, shutdown | all of the above |
| Text formatting (`textfmt/`), log buffer (`logbuf/`) | none / a ring | pure functions / append, tail | engines / panel |

**What is hard.** Two workers run concurrently over one map; each awaited call
lets the other worker, the event handlers, the HTTP handlers and the commands
run. Each platform reports the bridge's own posts, edits and deletions back to
it. Calls fail before or after their effect, and some are then repeated. Albums
are delayed by timers. Queues, buffers, the ignore sets, dialogues, sessions and
caches are lost when the process ends; the ledger, the map, the offsets, the
settings and the session files are not. Buttons of old keyboards stay in the
chat. The list of hazards, each at its line, is in `PROJECT.json`.

**What makes each component right.**

- Intake: an event is queued once or dropped for a reason; the order of a
  channel is kept; a buffered album is flushed.
- Mirror: a user's message appears once in each channel its pairs name; a post
  of the bridge appears nowhere else.
- Edit and delete sync: both sides end up the same; the bridge deletes a user's
  message only because a user deleted its copy; a message is never left without
  a copy because a call failed.
- Store: a row of the map joins a message and its copy.
- Bot-API client: no update is skipped, repeated or reordered after the first;
  a call is repeated a bounded number of times.
- Mirror of one job: every copy is recorded against the message it copies, and
  what is not recorded is bounded by what went wrong.
- Bale selfbot adapter: a chat is never taken for another kind; a deletion
  carries the date of its message once Bale has told it.
- Control bot, wizard, logins: one admin; a question never goes with another
  question's answers; what the store lists can be used; a finished installation
  boots.
- Dashboard and commands: the pause and the password are what the operator was
  told; guesses are bounded and a lock ends; test posts do not stay; ids are not
  reused.
- Text formatting: nothing of a text is lost when it is split, and its formats
  survive the way to the other platform and back.

## 2. Modules

| Module | Models | EXTENDS |
|---|---|---|
| `QueueEngine` | the intake: entry points, queues, workers, album buffers, pause, restart | |
| `Delivery` | QueueEngine closed by users and by opaque handlers, with a history of what the handlers got | `QueueEngine` |
| `DbStore` | the queries of `dbstore/` as operators on sets of rows | |
| `Bridge` | mirror, edit and delete engines over QueueEngine and DbStore, two platforms with users, the operator, crashes | `QueueEngine`, `DbStore` |
| `MCBridge` | instances of Bridge for TLC | `Bridge` |
| `SendCall` | one call of a client, with the retry loop of `botapi/transport.py` | |
| `AlbumCopy` | one job copied into one pair in full detail: long texts, venues, albums sent whole or item by item, fallbacks between kinds of media | `SendCall` |
| `UpdateFeed` | abstract: what a listener promises of a stream of updates | |
| `Polling` | the long poll with its offset, in memory, in the store and at the platform | (instance of `UpdateFeed`) |
| `BaleSession` | what the selfbot knows of a chat: its kind and the dates of its messages, with the coroutines that use and change it | |
| `TextFormat` | splitting, and formatting on the way to Bale and back | |
| `RunCfg` | the settings in `.env` and in the store, the session files, readiness and validation, the claim of the admin seat | |
| `Wizard` | the wizard's dialogue and the two logins it drives | `RunCfg` |
| `Setup` | the control bot and the process around the wizard: claim, routing, boots, restart, crashes | `Wizard` |
| `MCSetup` | instances of Setup for TLC | `Setup` |
| `Dashboard` | login, lock, sessions, password and pause, from the dashboard, the commands and the wizard | |
| `Operations` | adding, removing, testing and promoting on the pairs, from several surfaces | |
| `MCParts` | the two panels and the four clients, one of them in a behaviour | `Dashboard`, `Operations`, `Polling`, `AlbumCopy`, `BaleSession`, `TextFormat` |
| `QueueProofs` | lemmas about jobs, queues and the worker's loop | `QueueEngine` |
| `DeliveryProofs` | theorems about Delivery | `Delivery`, `QueueProofs` |
| `BridgeProofs` | types of Bridge, what is known of every message id; the map and the fingerprints | `Bridge`, `QueueProofs` |
| `BridgeRemovalProofs` | what Bridge deletes, and when | `BridgeProofs` |
| `BridgeSyncProofs` | what Bridge keeps track of, what holds where pairs go one way, and that the sides agree at rest | `BridgeRemovalProofs` |
| `SetupProofs`, `PanelProofs`, `ClientProofs` | theorems about installation, the panels, the clients | `Setup`, `MCParts` |

`MCParts` puts modules side by side that share no variable: a variable `part` says
which of them a behaviour runs, and the others stay in one initial state. TLC then
explores the sum of their states, where the product would show nothing more.

Some operators have a twin defined just before them (`Feed`/`FeedLateTimer`,
`Boot`/`BootForgetsPause`, ...). The twin is a plausible bug of the same code;
no specification uses it. `PROJECT.json` lists which property notices it.

### State and code

- `stream[s]` is what a platform has reported and the program has not yet
  handled; `q[s]`, `job[s]`, `pending`, `tasks`, `paused`, `ignore` are the
  fields of `QueueEngine`, `AlbumCollector` and `LoopGuard`; `sent` is the table
  of the same name.
- One entry point is one action: `put` on an unbounded `asyncio.Queue` never
  suspends, so nothing runs in between.
- In `Bridge`, `posts` is what the platforms hold, each post with its author (a
  user, or the bridge for a source message). `w[s]` is the local state of the
  handler that serves queue `s`: where it waits, the pairs or mapped messages it
  has still to serve, the deleted ids it has still to look up, and the messages
  its current sends have created. A step of a handler is the code from one
  `await` to the next, together with the effect of the call that ends there;
  where code runs after a call returns and the call's own echo could be handled
  in between, the return is a step of its own. A call to Bale raises `BotAPIError`,
  which the engines catch, and in the mode "bot" also what an answer raises that is no
  JSON (transport.py:77-80), which ends the job: `Raised`.
- A deletion of a pair or a change of its mode can fall between any two steps of
  a handler. Engines read the pair when they reach a mapped message, the mirror
  engines when they start: so do `Applies` and `PairsFor`.
- `SendCall` numbers the posts of the target channel as the platform makes them,
  and keeps with each what it is a copy of; the program sees only the ids it is
  given. `AlbumCopy.stage` is where the job stands between two awaited calls.
- `Polling`: `offset` is the loop's variable, `saved` the row in `meta`, `kept`
  the first update the platform still holds, `batch` the rest of the answer the
  loop works off. A poll confirms what lies before its offset, also when its
  answer is lost.
- `BaleSession`: `types` is the cache of the session, `meta` the row in the store
  as the panel's routing reads it, `caller[c]` a coroutine with what it read
  before its await; `truth` is what the chat really is. A report of a message (an
  event, an answer to a send) tells its date or does not: without one a 0 goes into
  memory, over a date that is there too, and the store keeps what it has.
- `Setup`: `env` is the `.env` file, `store` the settings in `meta`, `cfg` the
  settings of the running process, `files` the session files; that of Telethon is
  called after the account that logged in, which need not be the phone the store
  lists: a session that is logged in keeps its account whatever is typed
  (`SessionOf`). `wiz` is the
  wizard's entry for the chat, `kb` every keyboard that was ever sent, `busy` the
  call a handler awaits. The control bot handles one update at a time, so a call
  is a state of its own only where what it leaves behind outlives the process.
- `Dashboard`: a browser's request waits (`request[c]`) between the look at the
  lock, or at the session, and the end of its body. Time is relative: what is left
  of a lock, the age of a failure.
- `Operations`: `op[s]` is what surface `s` is doing, pair by pair; `tests` counts
  the test posts on the platform.
- A restart clears what is memory. Telethon is started without `catch_up`, so
  the events missed are lost; the Bale bot polls again from its saved offset.

### Abstractions

Message contents are model values in `Delivery` and `Bridge`; formatting and
headers are identities on them, since no property of theirs is about them; a
fingerprint is then the text itself. `Chunks` gives the number of parts a text is
sent in; how it is split is `TextFormat`'s. Message ids count up per channel. The
order of the ids inside one deletion event is arbitrary. `Bridge` has no albums
(`SinglesAssumption`): how an album becomes jobs is in `Delivery`, how a job
becomes posts in `AlbumCopy`. Bale refuses edits of posts the bridge did not make
(CHANGELOG.md:35) and Telegram refuses edits that change nothing; both are
`Editable`. TLC runs `Bridge` with Bale's selfbot (`BaleMode = "user"`), which reports
edits and deletions; the theorems are about both modes. In `Dashboard` failures are counted per address and the addresses
share nothing, so there is one. In `TextFormat` bold stands for every format, and
users type no marks.

## 3. Runs

| Run | Question | Result |
|---|---|---|
| `delivery` | Is every event queued once, in order, and handled? | holds |
| `sync` | Two-way pair with echoes: no reflection, both sides agree in the end? | holds |
| `edit` | One-way pairs, edits that fail and are replaced: agreement at every rest and in the end, copies tracked, source channel untouched? | holds |
| `faults` | Every call may fail, crash, removal of the pair: map right, no user message and no last copy destroyed? | holds |
| `setup` | Installation by two users who race for the seat, with old buttons, logins, a crash and the boots after it: one owner, data of one dialogue, usable accounts, and does it come up? | holds |
| `parts` | Panels: browsers, commands and restarts over one password, lock and pause; two surfaces over the same pairs: what was told holds, guesses bounded, locks end, no test post stays, ids retired? Clients: does the long poll implement `UpdateFeed`; are copies recorded right through retries and fallbacks; do the selfbot's caches stay true; do texts survive? | holds |
| `album_overtaken` | Is the order kept for album items too (docs/architecture.md:36)? | violated |
| `early_echo` | Does the fingerprint cover the echo of a copy on Bale that comes before the call returns (docs/architecture.md:135)? | violated |
| `bale_edit_loses_copy` | Does the old message survive a failed replacement, Bale to Telegram (CHANGELOG.md:42)? | violated |
| `copy_edit_corrupts_map` | Does the map stay right when a user edits a copy (docs/architecture.md:100)? | violated |
| `edit_echo_destroys_source` | Are events about the bridge's own messages dropped (docs/architecture.md:133)? | violated |
| `selfbot_install_never_boots` | Does the bridge come up after an installation with the Telegram account and Bale's selfbot (README.md:178, 183)? | violated |

Each passing run says in its constants which hazards it leaves out, and the
violated runs show what happens with them:

- `EarlyEcho = FALSE` (all passing runs): the report of a send arrives after the
  call has returned, and nobody reacts to a post before that. `early_echo` drops
  it.
- `sync` has no edits and no failing calls. With edits of copies, or with
  reports of the bridge's own edits, a two-way pair destroys messages
  (`copy_edit_corrupts_map`, `edit_echo_destroys_source`).
- `edit` lets edits fail, not sends or deletions: a failed send or deletion is
  never retried, so the sides would not agree.
- `faults` asks for safety only, and lets users touch Telegram sources and
  delete Bale copies.
- `Repeats = FALSE` (`sync`): users do not post a text that is already there. A
  fingerprint left behind would swallow it.

- `ReadyBoots` (`setup`) is about a Telegram session that is authorised and the Bale
  account that `BALE_MODE` names. A session file that is there but not authorised
  counts as installed and then ends every boot, and so does the Bale account of the
  other mode; for the selfbot in the mode "bot", the default, `SelfbotBoots` asks for
  what the README promises, and `selfbot_install_never_boots` shows that it does not
  come.
- `LoginRecorded` (`setup`) says that the account the store lists has a session that
  can be used, not that it is that account's, see "Known behaviours".
- `DeletionsDated` (`parts`) excuses a message whose latest report since the boot had
  no date (`undated`), see "Known behaviours".
- `BoldKept` (`parts`) asks for the formats of a text that is one message on Bale, and
  one message on Telegram whose entities the client takes; for every other text it asks
  that nothing of it is lost and every part fits.
- `AlbumJobsSorted` (`delivery`): the streams report the items of a channel in their
  order, so the sort never has to repair one.
- `TypeTrusted` (`parts`) is about runs in which every lookup is answered, and
  `RightTypeStays` excuses a `get_chat` that got no answer: both writers are as
  written, see "Known behaviours".
- `RowsMatch`, `EachAccounted`, `StrayCopies` (`parts`) are about jobs that end
  normally; a job that ends in an exception records nothing.

**Bounds.** `delivery`: one channel, three messages (a single and an album of two, an
album of three, an album split by its timer), two of {edit, deletion, pause, restart}
in any order: enough for an edit and a deletion of one message, a restart in the
middle of an album, a pause while a job is queued. `sync`: two posts, so that both
workers are busy with messages of each side, and two deletions or changes of
direction. `edit`: one post, three edits or deletions, so that a replacement is itself
edited, replaced and deleted. `faults`: one post in one or two parts, two operations,
one crash. `MaxId` is large enough that no send waits for room. `setup`: two users for
the race, two phones so that a code may meet another phone's login, two Telegram
channels so that a pairing may mix two choices, one crash, two `.env` files: the
documented minimum, with the Bale side in the mode "bot", and one that names the
admin, the API and the mode "user". One pair is registered, so that a second press of
an old button is `PairsAreAsChosen`'s (section 4). `parts`: two browsers and a limit
of three, so that requests let in before the lock exceed it; a lock of two ticks, so
that failures of different ages count; two restarts, since the first process is the
installer; two surfaces on three pairs with two faults; four updates in answers of at
most two and three faults, so that an answer is lost after its confirmation and again
after a restart; albums of up to three items with up to four network faults and the
real numbers of retries; two coroutines and one message of one chat (what is known of
a message touches no other), one failed lookup and one restart; texts of up to six
characters (four with up to three bold spans, enough for a span that overlaps one that
was dropped), split at limits one to three, and with spans sent under limits of three,
six and sixteen: split on both sides, on one, on none.

**Deadlock.** Every configuration says `CHECK_DEADLOCK FALSE`. In those of `Delivery`
and `Bridge` the users run out of posts and turns and the bridge comes to rest; in
`setup` the process stops for good when a session is not authorised or the settings
are not valid; in `parts` jobs end and the bounds on pairs, faults and restarts are
used up. That what must happen still happens is what the liveness properties say.

**Fairness.** The event loop runs every ready entry point, flush task and
worker, and a platform call ends with a result or an exception (every call has a
timeout): weak fairness of `Intake`, `FlushAlbum` and the workers' steps. In
`setup` the restart task that `finish` creates runs (`Exec`), and the supervisor
(docker-compose: `restart: unless-stopped`) starts the program again, so a boot
that can succeed does (`BootFull`). In `parts` the clock goes on (`DashTick`) and
the listener's loop (`Listening`); its faults are bounded and unfair. Users and the operator owe nothing.

`Converges` says: in a behaviour where the modes of the pairs never change, from
some point on each live message has exactly its copies with its text, and each
deleted message none. Since users run out of turns, this includes that the
system comes to rest in agreement.

`AgreeAtRest` is its safety half, asked again and again: in every state in which no
report, queue or handler has anything left to do, the two sides agree, though the
users are not done yet. A bridge that is wrong for a while and is put right by a later
edit satisfies `Converges` and not `AgreeAtRest`.

`PollImplementsFeed` is the refinement: `Polling` under the mapping `pos <-
Position`, `fresh <- Fresh` implements `UpdateFeed!Spec`, its fairness included.
`Position` is the next update to handle as program and platform agree on it: the
loop's offset, else the saved one, else what the platform still holds.

## 4. Proofs

Each theorem holds for every value of the constants that satisfies the assumptions
the module names; those of `Bridge` state what else they need (ASSUME ... PROVE),
with the run that shows why.

### Intake and delivery

`QueueProofs` holds the lemmas the two users of `QueueEngine` share: the type of a
sorted album (`SortedIsSeq`), of a job's first item, what each operation does to
queues, workers and buffers.

`DeliveryProofs`, for every set of channels, texts and groups and every bound:

- `QueuesTyped`: `Spec => []QueueTypeOK`. The invariant `TypeInv` adds the type of
  `posts`, from which the item of an edit event has a group.
- `TimersPaired`: `Spec => []TimerIffPending`, by induction over the steps with
  `TypeInv`; only `Feed`, `Flush` and a crash touch buffers and timers.
- `SinglesStayInOrder`: `Spec => []SinglesInOrder`. What was handled says too little
  to be inductive: the job a worker takes next comes from the queue, and the queue's
  jobs from the stream. `OrderInv` puts `log[s]`, `q[s]` and `stream[s]` in one line
  and orders any two jobs of it (`Before`), wherever they are. It also carries what
  makes a new event fit at the end of the line (every job is about existing messages,
  a deletion about deleted ones) and why a flush, which jumps the line, disturbs no
  single message (a buffered item is part of an album).
- `AlbumsAreSorted`: `Spec => []AlbumJobsSorted`. A handled job was queued by a
  flush, which sorts by id; so the ids of a buffer must be different, and all of one
  album. `AlbumInv` says that a buffer holds ids of its chat in growing order, that
  all of them come before whatever the chat's stream has yet to report, which is
  what the next item needs to fit, and that a stream reports each chat in order.
- `EachAccountedFor`: `Spec => []AccountedOnce`. A message is in one of five places
  (reported, buffered, queued, being handled, handled) or is lost to a restart or a
  pause. The invariant counts it in each and shows that it is in one of them only
  and once there, on the side of its channel, and that the ledger stays empty, since
  this module posts nothing itself. The step that needs work is a flush: sorting
  rearranges a buffer by an injection of a finite set into itself, which is onto
  (`FiniteSetTheorems`), so no item is lost and none comes twice. The ids of a buffer
  grow, so its positions fit in `1..MaxId` and a count is a cardinality of at most 1.

### The synchronisation engines

`BridgeProofs`:

- `BridgeKnown` and `BridgeTypes`, with every fault allowed. `BridgeInv` adds to the
  types what the handlers rely on without a check: the rows of the map, what a handler
  has found in it, and the jobs are about messages that exist, on the channels of the
  row's pair; ids of rows are not reused.
- `MapStaysSound`: `Spec => []MapSound`, given `CopiesNotEdited` (users edit what
  they wrote, no platform reports the bridge's own edits). `MapInv` says that a
  handler makes and edits copies of its job's message only. Without the condition
  the property is false: `copy_edit_corrupts_map`, `edit_echo_destroys_source`.
- `NothingReflected`: `Spec => []NoReflection`, given also `EchoesAwaited`. Where a
  platform reports the bridge's own posts, it does so after the call, the calls
  succeed and no edit there needs a replacement; without this the report of a post
  may come when the ledger does not know it yet, or never will (`early_echo`, and the
  replacement of an edit, which is recorded after the deletion, sync_edit.py:65).
  `ReflInv` follows each such post: the report is in the stream at most once, and
  while it is there the post is in the ledger and no handler still holds it.

`BridgeRemovalProofs`:

- `OnlyUsersRemove`: `Spec => []JustifiedRemoval`, given also `BotReports` (the Bale
  Bot API reports no deletions). Three invariants, one on top of the other. `OnceInv`:
  a deletion is reported at most once, and only of what is gone. `OwnInv`: a copy has
  one owner, the handler that has just made it or one row. `RemoveInv`: a handler
  that is going to delete a live message has marked it, the mark lasts until the
  report comes and swallows it, so the deletions in the queues are those of users;
  and what they lead to is the removal of copies of what is gone, or of an original a
  copy of which a user deleted.
- `CopyNeverLost`: `Spec => []NeverWithoutCopy`, while users do not edit what they
  posted on Bale (`bale_edit_loses_copy` shows why), and `TgCopyNeverLost`, the same
  for messages of Telegram without this condition. `CopyInv`: a mapped message that
  is still there has a copy the bridge did not delete, no job asks for an edit of a
  message of Bale unless users edit there, and process_tg_edit has sent something
  before it deletes.
- `OneWayKept`: `Spec => OneWay`, the action property, where each channel is in one
  pair (`PairsApart`) and the operator turns no pair round (`NoneTurned`): an
  operator who does would be overtaken by the call under way. `WayInv`: what a handler
  is about to do goes the way of the pair.

`BridgeSyncProofs`:

- `CopiesStayTracked`: `Spec => []CopyTracked`, edits that fail and are replaced
  included. The conditions are the ways in which the code drops a copy from the map:
  `NothingDropped` (a send that fails after its effect, a deletion that fails, a
  restart between a send and its record, a pair that is removed), `CopiesNotDeleted`
  (a user's deletion of a copy takes the row away while a replacement is on its way)
  and `OnePart` (only the first part of a replacement is recorded). `TrackInv`: the
  row a handler works on is about its target; a handler takes a row away, or gives it
  another copy, only when the target is gone; a handler that is neither sending nor
  replacing holds nothing.
- `MapSoundOneWay`, `NothingReflectedOneWay`, `NothingRemovedOneWay`: `[]MapSound`,
  `[]NoReflection`, `[]JustifiedRemoval` under one condition, `OneDirection`: no pair
  goes both ways, and no channel is one that a pair goes from and one that a pair goes
  into. There is nothing to ask of users, platforms, calls or the process: copies may
  be edited and deleted, reports of the bridge's own posts, edits and deletions may
  come at any time, before the call has returned too, and everything may fail. Every
  violated run but `bale_edit_loses_copy` and `album_overtaken` is thereby a matter of
  pairs that answer. `DirInv`: every post of the bridge is a copy of a user's, in a
  channel that pairs go into; every row leads the way of its pair; and a handler works
  on copies only, in the pair that made them. So a report from a target channel finds
  a pair that does not go from there, and nothing comes of it.
- `CopiesTrackedOneWay`: `[]CopyTracked` with `NothingDropped` and `OnePart`, where
  pairs go one way; the conditions on reports and users are gone.
- `SidesAgreeAtRest`: `[]AgreeAtRest` under `Smooth`: `OneDirection`,
  `NothingDropped` and `OnePart`, no edit that ends its job (`NothingBroken`: in the
  mode "bot" no edit on Bale fails), no two pairs that join the same channels
  (`PairsDiffer`: their copies would lie on one channel, two where one is due), and
  `SourcesOnly`: users leave the copies alone, which no pair brings back, and delete
  on Bale only where the account is a user's, since the Bot API reports no deletions.
  The run `edit` is an instance. Edits may fail and be replaced, the reports of
  the bridge's own posts, edits and deletions may come at any time or not at all, a
  message may go into several channels, and users may post, edit and delete as often
  as they like. That both sides agree at rest says nothing of
  the states between; the invariant `SyncInv` says what each message still has coming.
  With the line of a side, its queue followed by its stream, for each user's message:
  - `InOrder`: the line holds its post before anything else about it and its deletion
    after, no row comes before the post is taken up, and no deletion waits for a live
    message;
  - `Mirrored`: a live message has, for each pair, a row, a handler about to send it, or
    its post still in the line;
  - `Forgotten`: a deleted one has no row, but for those its deletion, in the line or
    under way, will find;
  - `UpToDate`: the last version in the line carries its text; once none is left, every
    copy has it but those the edit under way has still to serve.

  These need, of the rest of the state, that rows lead to live copies except the one a
  handler has just emptied (`DstLive`), one row per message and pair (`OneEach`), that
  what a handler remembers is still to be done (`Working`), and that ledger, ignored ids
  and fingerprints concern copies only (`OwnMarks`, `PrintsInto`), so that the filters
  in front of a queue drop echoes and never a user's report. Taking a job from a queue
  and dropping an echo change no line in what matters to a message: `ThinnedAlike`.

### Clients

`ClientProofs`:

- `PollingImplementsFeed`: the initial states of `Polling` map to initial states of
  `UpdateFeed`, every step to a step or a stutter, for all numbers of updates, limits
  and faults (the liveness half of the refinement is TLC's). Refinement alone is not
  inductive: `PollInv` adds that an answer is worked off without a gap
  (`Contiguous`), that the loop's offset is the saved one once there is one
  (`InStep`), and that the platform drops nothing from the saved offset on
  (`Published`); without the last a restart would skip updates.
- `AlbumInvariant`, and from it `RowsMatchAlways`, `EachAccountedAlways` and
  `StrayCopiesArePaid`, for every album and every schedule of faults. `AlbumInv`: an
  id the program has learnt is of a post with the content it asked for; every message
  of the album is in exactly one place (copied, owed, still to come); and a tally in
  which every post nobody recorded is paid for by a fault, each fault by at most one
  call's posts. TLC also checked it with albums of three.
- `DeletionsAreDated`, `TypesAreTrusted` and `RightTypesStay` of `BaleSession`.
  `Dated` says where a date lives: in the store for good, and shadowed in memory by
  nothing but a later report without a date. `Trusted` covers what a waiting coroutine read before its await,
  which is what it will act on.
- `ClientTypes`, `ClientsRunAlone`: the types of all parts, and that a part that does
  not run stays in its initial state, which makes the run of all parts speak of each.

### Installation and panels

`SetupProofs` proves, over any users, phones, channels, `.env` files
(`EnvsAssumption`) and crashes, `SetupTypes`, `OneOwnerAlways`,
`LoginRecordedAlways`, `DialogueHasDataAlways` and `PairsAreAsChosen`. `Inv` adds that
whoever was told to be the admin is the admin of the store (`OwnerStored`; a count of
owners says nothing of who comes next), that a call belongs to the question that was
asked (`CallInPlace`; the answer returns to whatever state the dialogue has by then),
and that the dialogue holds no channel but the chosen ones (`DataAsChosen`).
`NobodyAssumption` and `NoChanAssumption` keep the "none" values apart from real ones.

`PanelProofs`:

- `PauseIsKept` and `ShownPasswordsWork`; the invariant adds that the row in the store
  says what was told while nothing runs (`Flagged`).
- `GuessesAreBounded`: `Spec => []BoundedGuesses`, for any finite set of clients
  (`ClientAssumption`) and any limit. The failures on record are a sum over their
  ages; `Tally` is a set with one element per failure, and its cardinality is that sum
  (`SumIsTally`: the function that counts up to an age exists, and two such functions
  do not differ at a smallest age). `LockHolds`: below the limit every guess was
  counted; at the limit the guesses and the requests already let in are together at
  most `MAX_FAILS - 1` and one per client, since a request is let in only below it.
- `TestPostsAreAccounted` and `IdsAreRetired` for any finite number of surfaces
  (`SurfaceAssumption`: the posts are counted). `Accounted` adds that every surface
  that still has to delete a post has one there, and that a fault loses at most one;
  `Numbered` that all ids were given by the counter.
- `PanelTypes`, `PartsRunAlone`: as for the clients.

### Only model-checked

- `SplitSound` and `BoldKept` of `TextFormat`: they compare folds over sequences, for
  which a proof needs induction over data.
- Everything under fairness, which is beyond the prover: `EveryPostHandled`,
  `Converges`, `ReadyBoots`, `LockEnds`, and that the poll begins every update.
- That the bridge comes to rest, the other half of `Converges`; `SidesAgreeAtRest` says
  what it finds there.

## 5. Not modelled

`PROJECT.json` lists every component with its status. Left out, and why:

- The log buffer: a bounded deque with a clamped tail; nothing reads state from it.
- Commands and pages that only read (help, id, status, whoami, logs, lists), and
  `/test`, whose post is meant to be seen.
- The wording of messages, headers and stand-ins for polls, dice and the like, and
  cutting a caption (`truncate`): no property is about them.
- The parsing of the environment, paths and limits (`appcfg`): pure functions that
  unit tests reach.
- Statistics, the purge of ledger and fingerprint rows that are older than two
  days, and the lock of the connection, which is only ever taken from one event
  loop.
- The access hashes of files and the usernames the selfbot caches; the 24 hours after which Telegram forgets an update nobody
  fetched.
- That the copy of a reply becomes a reply.
- Several pairs over one channel in `Bridge`: deleting one of several copies
  leaves the others.

### Known behaviours

Seen in the code while modelling, not contradicted by any document, and allowed by
name in the properties above:

- The location of a venue is sent first and its id dropped (mirror_t2b.py:109): no
  edit or deletion reaches it.
- One failed lookup of an unknown chat caches "private" until an update or a
  `get_chat` corrects it (resolver.py:48).
- `/dashuser` as the first command makes a password it shows to nobody
  (dashboard/auth.py:72); `/passwd` then sets one.
- A session file that is not authorised counts as installed (readiness.py:20) and
  then ends every boot (wiring.py:63). In the mode "user" the Bale bot counts as well
  (readiness.py:24), and validate then asks for the selfbot's session
  (validator.py:24).
- A phone that is typed while Telethon's session is logged in already goes through
  (login.py:44) and is recorded for the account of that session (wizard/facade.py:149).
- A report of a message without a date hides a date that is known from the deletions,
  until the process restarts or Bale tells the date again (session.py:100).
- A Bale text that is too long for one Telegram message, or whose entities the client
  does not take, loses its formats (mirror_b2t.py:100-108); a Telegram text is split
  after the marks are in (mirror_t2b.py:95), which may part a mark from its other end.
- In the mode "bot" an answer of Bale that is no JSON ends an edit without its fallback
  and a deletion with its row (sync_edit.py:48, sync_delete.py:57).
- The first poll, and an answer that is not JSON, are caught nowhere
  (botapi/events.py:31): the process ends and its supervisor starts it again.
- `/test` posts to Bale without recording the post (control_cmds.py:44).

## 6. Plan

1. Done: intake and mirroring (`QueueEngine`, `Delivery`, `DbStore`, `Bridge`); the
   clients (`SendCall`, `AlbumCopy`, `Polling` with `UpdateFeed`, `BaleSession`,
   `TextFormat`); installation (`RunCfg`, `Wizard`, `Setup`); the panels
   (`Dashboard`, `Operations`).
2. `Bridge`: an instance with two pairs that share a channel, and replies.
3. `Bridge` with `AlbumCopy` in place of its sends, so that albums meet echoes.
4. Proofs: done for every safety and action property of the runs but those of
   `TextFormat`. Open: `AgreeAtRest` where pairs go both ways, for which the echoes
   under way must be part of what a message still has coming; and `EchoesAwaited`
   without its condition on edits for texts in one part towards Telegram, where the
   replacement is recorded in the step in which the call returns.
