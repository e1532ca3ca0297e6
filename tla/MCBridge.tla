------------------------------ MODULE MCBridge ------------------------------
(***************************************************************************)
(* Instances of Bridge for TLC: one pair of channels.                      *)
(***************************************************************************)
EXTENDS Bridge

CONSTANTS tc, bc  \* the two channels
CONSTANTS short, long

OnePair == {1}
TgOfPair == [p \in OnePair |-> tc]
BaleOfPair == [p \in OnePair |-> bc]
ModesOf(modes) == { [p \in OnePair |-> m] : m \in modes }

TwoTexts == {short, long}
OneChunk == [t \in TwoTexts |-> 1]
LongInTwo == [t \in TwoTexts |-> IF t = long THEN 2 ELSE 1]
None == {}
Everywhere == {"tg", "bale"}

\* Two-way pair: both platforms report what the bridge itself does there.
BothModes == ModesOf({"both"})
SyncEchoes == Everywhere \X {"new", "delete"}
AnyDeletes == Everywhere \X {"source", "copy"}
SyncAdmin == {"tg2bale"}

\* One-way pairs, either way: sources are edited and deleted, edits may fail.
OneWayModes == ModesOf({"tg2bale", "bale2tg"})
Sources == Everywhere \X {"source"}
EditsFail == Everywhere \X {"edit"}
AllEchoes == Everywhere \X {"new", "edit", "delete"}

\* Everything may fail, the process may die; towards Bale or both ways.
ForthModes == ModesOf({"tg2bale", "both"})
AllFail == Everywhere \X {"send", "edit", "delete"}
TgSources == {<<"tg", "source">>}
FaultDeletes == {<<"tg", "source">>, <<"bale", "copy">>}
FaultEchoes == Everywhere \X {"delete"}
FaultAdmin == {"removed"}

\* What goes wrong: Bale reports a post of the bridge before the call returns; a
\* Telegram call fails after the old copy was deleted; a user edits a copy; Bale
\* reports the bridge's own edit.
BackModes == ModesOf({"bale2tg"})
TgEditsFail == {<<"tg", "edit">>, <<"tg", "send">>}
BaleSources == {<<"bale", "source">>}
TgCopies == {<<"tg", "copy">>}
NewEchoes == Everywhere \X {"new"}
BaleNews == {<<"bale", "new">>}
BaleEdits == {<<"bale", "edit">>}
=============================================================================
