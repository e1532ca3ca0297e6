------------------------------- MODULE Wizard -------------------------------
(***************************************************************************)
(* The conversation of bridge/wizard/ with the administrator, and the two  *)
(* logins it drives: bridge/tguser/login.py and bridge/bale/login.py.      *)
(*                                                                         *)
(* The control bot handles one update at a time, so between its updates    *)
(* only the process itself can intervene, by ending.  An await matters     *)
(* when its call leaves something behind that outlives the process (a      *)
(* session file); such a call is a state of its own, `busy`, and its       *)
(* return is an action.  The keyboards the wizard sent stay in the chat,   *)
(* so their buttons may be pressed in any state, even after a restart.     *)
(***************************************************************************)
EXTENDS RunCfg

CONSTANTS
  TgChan, BaleChan, NoChan,  \* channels
  Direction,                 \* modes of a pair
  MaxPairs                   \* bound: pairs registered

ASSUME NoChanAssumption == NoChan \notin TgChan \cup BaleChan
ASSUME MaxPairsAssumption == MaxPairs \in Nat

VARIABLES
  wiz,     \* the wizard's entry for the chat: its state and the data typed so far
  login,   \* TgLoginEngine._pending and BaleLoginEngine._txn: whose code is awaited
  busy,    \* the call the handler awaits, with its argument
  kb,      \* the keyboards that were ever sent to the chat
  pairs,   \* table pairs
  chosen   \* history: the channels chosen since a pairing last began

wizVars == <<wiz, login, busy, kb, pairs, chosen>>

States == {"inactive", "none", "menu",
           "tg_api_id", "tg_api_hash", "tg_phone", "tg_code", "tg_password",
           "bale_phone", "bale_code", "bbot_token",
           "pair_tg", "pair_bale", "pair_dir"}

Data == [api : BOOLEAN, phone : Phone \cup {NoPhone},
         balePhone : BaleNumber \cup {NoPhone},
         tg : TgChan \cup {NoChan}, bale : BaleChan \cup {NoChan}]
NoData == [api |-> FALSE, phone |-> NoPhone, balePhone |-> NoPhone,
           tg |-> NoChan, bale |-> NoChan]

Call == [call : {"none", "request_code", "sign_in", "password", "bale_request",
                 "bale_validate", "bbot_check"},
         arg : Phone \cup BaleNumber \cup {NoPhone}]
NoCall == [call |-> "none", arg |-> NoPhone]

Pair == [tg : TgChan, bale : BaleChan, mode : Direction]

WizTypeOK ==
  /\ wiz \in [state : States, data : Data]
  /\ login \in [tg : Phone \cup {NoPhone}, bale : BaleNumber \cup {NoPhone}]
  /\ busy \in Call
  /\ kb \subseteq {"menu", "direction"}
  /\ pairs \in Seq(Pair)
  /\ chosen \in [tg : TgChan \cup {NoChan}, bale : BaleChan \cup {NoChan}]

\* What a process starts with.
NewMemory ==
  /\ wiz' = [state |-> "inactive", data |-> NoData]
  /\ login' = [tg |-> NoPhone, bale |-> NoPhone]
  /\ busy' = NoCall

WizInit ==
  /\ wiz = [state |-> "inactive", data |-> NoData]
  /\ login = [tg |-> NoPhone, bale |-> NoPhone]
  /\ busy = NoCall
  /\ kb = {} /\ pairs = <<>>
  /\ chosen = [tg |-> NoChan, bale |-> NoChan]

-----------------------------------------------------------------------------
(* Parts of the handlers *)

GoTo(state, data) == wiz' = [state |-> state, data |-> data]
ShowMenu == kb' = kb \cup {"menu"}
Await(call, arg) == busy' = [call |-> call, arg |-> arg]
Returns(call) == busy.call = call /\ busy' = NoCall
In(state) == busy = NoCall /\ wiz.state = state

-----------------------------------------------------------------------------
(* Wizard.open, and the texts of handle_text that only open the menu *)

Open ==
  /\ busy = NoCall
  /\ GoTo("menu", wiz.data)
  /\ ShowMenu
  /\ UNCHANGED <<login, busy, pairs, chosen, cfgVars>>

-----------------------------------------------------------------------------
(* Telegram login: handle_text, TgLoginEngine *)

ApiId ==
  /\ In("tg_api_id")
  /\ GoTo("tg_api_hash", [wiz.data EXCEPT !.api = TRUE])
  /\ UNCHANGED <<login, busy, kb, pairs, chosen, cfgVars>>

ApiHash ==
  /\ In("tg_api_hash")
  /\ store' = [store EXCEPT !.api = TRUE]
  /\ GoTo("tg_phone", wiz.data)
  /\ UNCHANGED <<login, busy, kb, pairs, chosen, env, cfg, files>>

\* The client is built before the code is asked for, and building it creates the
\* session file.
TgPhone(p) ==
  /\ In("tg_phone")
  /\ cfg' = [cfg EXCEPT !.api = TRUE]
  /\ files' = IF files.tg = "none" THEN [files EXCEPT !.tg = "new"] ELSE files
  /\ Await("request_code", p)
  /\ UNCHANGED <<wiz, login, kb, pairs, chosen, env, store>>

\* The code is sent, or was not needed; or the request fails and the phone is
\* asked for again.
CodeRequested ==
  /\ Returns("request_code")
  /\ \/ /\ login' = [login EXCEPT !.tg = busy.arg]
        /\ GoTo("tg_code", [wiz.data EXCEPT !.phone = busy.arg])
     \/ UNCHANGED <<wiz, login>>
  /\ UNCHANGED <<kb, pairs, chosen, cfgVars>>

TgCode ==
  /\ In("tg_code")
  /\ login.tg # NoPhone
  /\ Await("sign_in", login.tg)
  /\ UNCHANGED <<wiz, login, kb, pairs, chosen, cfgVars>>

TgPassword ==
  /\ In("tg_password")
  /\ login.tg # NoPhone
  /\ Await("password", login.tg)
  /\ UNCHANGED <<wiz, login, kb, pairs, chosen, cfgVars>>

\* TgLoginEngine._finish, then the wizard records the phone that was typed.
LoggedIn ==
  /\ files' = SessionOf(busy.arg)
  /\ login' = [login EXCEPT !.tg = NoPhone]
  /\ store' = [store EXCEPT !.tgSelf = wiz.data.phone]
  /\ GoTo("menu", wiz.data)
  /\ ShowMenu
  /\ UNCHANGED <<env, cfg>>

\* A wrong code or password, or no answer: the same question again, even when the
\* login has succeeded and only the rest of _finish has failed.
Refused ==
  /\ files' \in {files, SessionOf(busy.arg)}
  /\ UNCHANGED <<wiz, login, kb, env, cfg, store>>

\* Records the account when only the code was right.
NeedPasswordRecords ==
  /\ files.tg \notin Phone
  /\ store' = [store EXCEPT !.tgSelf = wiz.data.phone]
  /\ GoTo("tg_password", wiz.data)
  /\ UNCHANGED <<login, kb, env, cfg, files>>
NeedPassword ==
  /\ files.tg \notin Phone
  /\ GoTo("tg_password", wiz.data)
  /\ UNCHANGED <<login, kb, cfgVars>>

SignedIn ==
  /\ Returns("sign_in")
  /\ LoggedIn \/ NeedPassword \/ Refused
  /\ UNCHANGED <<pairs, chosen>>

PasswordChecked ==
  /\ Returns("password")
  /\ LoggedIn \/ Refused
  /\ UNCHANGED <<pairs, chosen>>

-----------------------------------------------------------------------------
(* Bale login and the Bale bot: handle_text, BaleLoginEngine, check_bale_bot *)

BalePhone(p) ==
  /\ In("bale_phone")
  /\ Await("bale_request", p)
  /\ UNCHANGED <<wiz, login, kb, pairs, chosen, cfgVars>>

BaleCodeRequested ==
  /\ Returns("bale_request")
  /\ \/ /\ login' = [login EXCEPT !.bale = busy.arg]
        /\ GoTo("bale_code", [wiz.data EXCEPT !.balePhone = busy.arg])
     \/ UNCHANGED <<wiz, login>>
  /\ UNCHANGED <<kb, pairs, chosen, cfgVars>>

BaleCode ==
  /\ In("bale_code")
  /\ login.bale # NoPhone
  /\ Await("bale_validate", login.bale)
  /\ UNCHANGED <<wiz, login, kb, pairs, chosen, cfgVars>>

BaleValidated ==
  /\ Returns("bale_validate")
  /\ \/ /\ files' = [files EXCEPT !.bale = TRUE]
        /\ login' = [login EXCEPT !.bale = NoPhone]
        /\ store' = [store EXCEPT !.baleSelf = wiz.data.balePhone]
        /\ GoTo("menu", wiz.data)
        /\ ShowMenu
     \/ /\ files' \in {files, [files EXCEPT !.bale = TRUE]}
        /\ UNCHANGED <<wiz, login, kb, store>>
  /\ UNCHANGED <<pairs, chosen, env, cfg>>

BotToken ==
  /\ In("bbot_token")
  /\ Await("bbot_check", NoPhone)
  /\ UNCHANGED <<wiz, login, kb, pairs, chosen, cfgVars>>

BotChecked ==
  /\ Returns("bbot_check")
  /\ \/ /\ store' = [store EXCEPT !.baleBot = TRUE]
        /\ GoTo("menu", wiz.data)
        /\ ShowMenu
     \/ UNCHANGED <<wiz, kb, store>>
  /\ UNCHANGED <<login, pairs, chosen, env, cfg, files>>

-----------------------------------------------------------------------------
(* PairingEngine.  Its lookups leave nothing behind: they are not awaited.   *)

\* The data of an earlier pairing stays.
BeginKeepsData(tg) ==
  /\ wiz' = [state |-> IF tg = NoChan THEN "pair_tg" ELSE "pair_bale",
             data |-> [wiz.data EXCEPT !.tg = tg]]
  /\ chosen' = [tg |-> tg, bale |-> NoChan]
\* begin, with the channel that was forwarded from the menu, if any: the data is
\* emptied.
Begin(tg) ==
  /\ wiz' = [state |-> IF tg = NoChan THEN "pair_tg" ELSE "pair_bale",
             data |-> [NoData EXCEPT !.tg = tg]]
  /\ chosen' = [tg |-> tg, bale |-> NoChan]

\* A forward in the menu starts a pairing.
ForwardInMenu(c) ==
  /\ In("menu") \/ In("none")
  /\ Begin(c)
  /\ UNCHANGED <<login, busy, kb, pairs, cfgVars>>

\* tg_resolve: a forward names the channel; a reference needs a client that is
\* logged in.
ChooseTg(c, forwarded) ==
  /\ In("pair_tg")
  /\ forwarded \/ (HasTg(cfg) /\ files.tg \in Phone)
  /\ GoTo("pair_bale", [wiz.data EXCEPT !.tg = c])
  /\ chosen' = [chosen EXCEPT !.tg = c]
  /\ UNCHANGED <<login, busy, kb, pairs, cfgVars>>

\* bale_resolve, with the selfbot or the bot of the store.
ChooseBale(c) ==
  /\ In("pair_bale")
  /\ store.baleSelf # NoPhone \/ store.baleBot
  /\ GoTo("pair_dir", [wiz.data EXCEPT !.bale = c])
  /\ chosen' = [chosen EXCEPT !.bale = c]
  /\ kb' = kb \cup {"direction"}
  /\ UNCHANGED <<login, busy, pairs, cfgVars>>

-----------------------------------------------------------------------------
(* handle_callback *)

\* Empties the data only.
StartForgetsState(state) == GoTo(wiz.state, NoData)
\* A button that starts a dialogue.
Start(state) == GoTo(state, NoData)

Button ==
  /\ busy = NoCall
  /\ "menu" \in kb
  /\ \/ /\ \E s \in {"tg_api_id", "bale_phone", "bbot_token"} : Start(s)
        /\ UNCHANGED <<kb, chosen>>
     \/ /\ GoTo("menu", wiz.data)
        /\ ShowMenu
        /\ UNCHANGED chosen
     \/ /\ Begin(NoChan)
        /\ UNCHANGED kb
     \/ \* dash, promote, status and done leave the dialogue as it is
        /\ wiz.state = "inactive"
        /\ GoTo("none", wiz.data)
        /\ UNCHANGED <<kb, chosen>>
  /\ UNCHANGED <<login, busy, pairs, cfgVars>>

\* Does not ask whether both channels are there.
DirectWithoutChannels(mode) ==
  /\ busy = NoCall
  /\ "direction" \in kb
  /\ GoTo("menu", wiz.data)
  /\ Len(pairs) < MaxPairs
  /\ pairs' = Append(pairs, [tg |-> wiz.data.tg, bale |-> wiz.data.bale, mode |-> mode])
  /\ ShowMenu
  /\ UNCHANGED <<login, busy, chosen, cfgVars>>
\* PairingEngine.finish: the data stays, and with it the button.
Direct(mode) ==
  /\ busy = NoCall
  /\ "direction" \in kb
  /\ GoTo("menu", wiz.data)
  /\ IF wiz.data.tg = NoChan \/ wiz.data.bale = NoChan
       THEN UNCHANGED <<pairs, kb>>
       ELSE /\ Len(pairs) < MaxPairs
            /\ pairs' = Append(pairs, [tg |-> wiz.data.tg, bale |-> wiz.data.bale,
                                       mode |-> mode])
            /\ ShowMenu
  /\ UNCHANGED <<login, busy, chosen, cfgVars>>

-----------------------------------------------------------------------------
Text ==
  \/ Open
  \/ ApiId \/ ApiHash \/ TgCode \/ TgPassword \/ BaleCode \/ BotToken
  \/ \E p \in Phone : TgPhone(p)
  \/ \E p \in BaleNumber : BalePhone(p)
  \/ \E c \in TgChan : ForwardInMenu(c) \/ \E f \in BOOLEAN : ChooseTg(c, f)
  \/ \E c \in BaleChan : ChooseBale(c)

Callback == Button \/ \E m \in Direction : Direct(m)

Answer ==
  \/ CodeRequested \/ SignedIn \/ PasswordChecked
  \/ BaleCodeRequested \/ BaleValidated
  \/ BotChecked
=============================================================================
