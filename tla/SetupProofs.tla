----------------------------- MODULE SetupProofs -----------------------------
(***************************************************************************)
(* Proofs about Setup: for any number of users, phones, channels, pairs    *)
(* and crashes, and any set of .env files, at most one user owns the bot,  *)
(* an account on record has a usable session, a question is only asked     *)
(* with the answers it builds on, and a pair joins the channels chosen.    *)
(***************************************************************************)
EXTENDS Setup, FiniteSetTheorems, TLAPS

-----------------------------------------------------------------------------
(* The inductive invariant *)

\* A call of the handler belongs to the question that was asked, and takes the phone
\* that was typed there.
CallInPlace ==
  /\ busy.call \in {"request_code", "sign_in", "password"} => busy.arg \in Phone
  /\ busy.call \in {"bale_request", "bale_validate"} => busy.arg \in BaleNumber
  /\ busy.call = "sign_in" => wiz.state = "tg_code"

\* Who was told to be the admin is the admin of the store.
OwnerStored == owners # {} => store.admin # NoUser /\ owners = {store.admin}

\* A channel the dialogue holds is the one chosen since the pairing last began.
DataAsChosen ==
  /\ wiz.data.tg \in {NoChan, chosen.tg}
  /\ wiz.data.bale \in {NoChan, chosen.bale}

Inv ==
  /\ TypeOK /\ CallInPlace
  /\ OwnerStored /\ LoginRecorded /\ DataAsChosen /\ DialogueHasData

\* What the wizard's conversation keeps; the rest of Inv is about who is logged in.
Dialogue == CallInPlace /\ DataAsChosen /\ DialogueHasData
Accounts == OwnerStored /\ LoginRecorded

\* A login makes a session somebody is logged in with, or leaves the one there is.
LEMMA SessionIsAnAccount ==
  ASSUME CfgTypeOK, NEW p \in Phone
  PROVE  /\ SessionOf(p) \in [tg : Phone, bale : BOOLEAN]
         /\ SessionOf(p).bale = files.bale
BY DEF CfgTypeOK, SessionOf

LEMMA InvInit == Init => Inv
<1> SUFFICES ASSUME Init PROVE Inv
  OBVIOUS
<1>1. env.admin \in User \cup {NoUser} /\ env.api \in BOOLEAN /\ env.baleToken \in BOOLEAN
  BY EnvsAssumption DEF Init, CfgInit, EnvRec
<1>2. CfgTypeOK
  BY <1>1 DEF Init, CfgInit, CfgTypeOK
<1>3. WizTypeOK
  BY DEF Init, WizInit, WizTypeOK, States, Data, NoData, Call, NoCall
<1>4. TypeOK
  <2>1. crashes \in 0..MaxCrashes
    BY MaxCrashesAssumption DEF Init
  <2> QED
    BY <1>2, <1>3, <2>1 DEF Init, TypeOK
<1>5. CallInPlace /\ DataAsChosen /\ DialogueHasData
  BY DEF Init, WizInit, CallInPlace, DataAsChosen, DialogueHasData, NoData, NoCall
<1>6. OwnerStored /\ LoginRecorded
  BY DEF Init, CfgInit, OwnerStored, LoginRecorded
<1> QED
  BY <1>4, <1>5, <1>6 DEF Inv

-----------------------------------------------------------------------------
(* Texts *)

\* A step that leaves the settings, the accounts and the owners alone.
LEMMA SettingsKept ==
  ASSUME Inv, UNCHANGED cfgVars, UNCHANGED runVars, WizTypeOK', Dialogue'
  PROVE  Inv'
<1>1. CfgTypeOK'
  BY DEF Inv, TypeOK, CfgTypeOK, cfgVars
<1>2. TypeOK'
  BY <1>1 DEF Inv, TypeOK, runVars
<1>3. OwnerStored' /\ LoginRecorded'
  BY DEF Inv, OwnerStored, LoginRecorded, cfgVars, runVars
<1> QED
  BY <1>2, <1>3 DEF Inv, Dialogue

\* A step that changes settings but leaves the owners, the admin and the accounts alone.
LEMMA AccountsKept ==
  ASSUME Inv, CfgTypeOK', UNCHANGED runVars, WizTypeOK', Dialogue', Accounts'
  PROVE  Inv'
<1>1. TypeOK'
  BY DEF Inv, TypeOK, runVars
<1> QED
  BY <1>1 DEF Inv, Dialogue, Accounts

LEMMA OpenKeeps ==
  ASSUME Inv, Open, UNCHANGED runVars
  PROVE  Inv'
<1>1. /\ busy = NoCall /\ wiz' = [state |-> "menu", data |-> wiz.data]
      /\ kb' = kb \cup {"menu"}
      /\ UNCHANGED <<login, busy, pairs, chosen, cfgVars>>
  BY DEF Open, GoTo, ShowMenu
<1>2. WizTypeOK'
  BY <1>1 DEF Inv, TypeOK, WizTypeOK, States
<1>3. Dialogue'
  BY <1>1 DEF Inv, Dialogue, CallInPlace, DataAsChosen, DialogueHasData, NoCall
<1> QED
  BY <1>1, <1>2, <1>3, SettingsKept

LEMMA ApiIdKeeps ==
  ASSUME Inv, ApiId, UNCHANGED runVars
  PROVE  Inv'
<1>1. /\ busy = NoCall
      /\ wiz' = [state |-> "tg_api_hash", data |-> [wiz.data EXCEPT !.api = TRUE]]
      /\ UNCHANGED <<login, busy, kb, pairs, chosen, cfgVars>>
  BY DEF ApiId, In, GoTo
<1>2. wiz.data \in Data
  BY DEF Inv, TypeOK, WizTypeOK
<1>3. WizTypeOK'
  BY <1>1, <1>2 DEF Inv, TypeOK, WizTypeOK, States, Data
<1>4. Dialogue'
  BY <1>1, <1>2
     DEF Inv, Dialogue, CallInPlace, DataAsChosen, DialogueHasData, NoCall, Data
<1> QED
  BY <1>1, <1>3, <1>4, SettingsKept

LEMMA ApiHashKeeps ==
  ASSUME Inv, ApiHash, UNCHANGED runVars
  PROVE  Inv'
<1>1. /\ busy = NoCall /\ store' = [store EXCEPT !.api = TRUE]
      /\ wiz' = [state |-> "tg_phone", data |-> wiz.data]
      /\ UNCHANGED <<login, busy, kb, pairs, chosen, env, cfg, files>>
  BY DEF ApiHash, In, GoTo
<1>2. CfgTypeOK'
  BY <1>1 DEF Inv, TypeOK, CfgTypeOK
<1>3. WizTypeOK'
  BY <1>1 DEF Inv, TypeOK, WizTypeOK, States
<1>4. Dialogue'
  BY <1>1 DEF Inv, Dialogue, CallInPlace, DataAsChosen, DialogueHasData, NoCall
<1>5. Accounts'
  BY <1>1 DEF Inv, TypeOK, CfgTypeOK, Accounts, OwnerStored, LoginRecorded, runVars
<1> QED
  BY <1>2, <1>3, <1>4, <1>5, AccountsKept

LEMMA TgPhoneKeeps ==
  ASSUME Inv, NEW p \in Phone, TgPhone(p), UNCHANGED runVars
  PROVE  Inv'
<1>1. /\ busy = NoCall /\ cfg' = [cfg EXCEPT !.api = TRUE]
      /\ files' = IF files.tg = "none" THEN [files EXCEPT !.tg = "new"] ELSE files
      /\ busy' = [call |-> "request_code", arg |-> p]
      /\ UNCHANGED <<wiz, login, kb, pairs, chosen, env, store>>
  BY DEF TgPhone, In, Await
<1>2. CfgTypeOK'
  BY <1>1 DEF Inv, TypeOK, CfgTypeOK
<1>3. WizTypeOK'
  BY <1>1 DEF Inv, TypeOK, WizTypeOK, Call
<1>4. Dialogue'
  BY <1>1 DEF Inv, Dialogue, CallInPlace, DataAsChosen, DialogueHasData
<1>5. Accounts'
  <2>1. files.tg \in Phone => files' = files
    BY <1>1, OwnerAssumption
  <2>2. files'.bale = files.bale
    BY <1>1 DEF Inv, TypeOK, CfgTypeOK
  <2> QED
    BY <1>1, <2>1, <2>2 DEF Inv, Accounts, OwnerStored, LoginRecorded, runVars
<1> QED
  BY <1>2, <1>3, <1>4, <1>5, AccountsKept

\* A question whose answer is only looked at by the call that follows.
LEMMA AwaitKeeps ==
  ASSUME Inv, NEW call, NEW arg, Await(call, arg),
         \/ call \in {"sign_in", "password"} /\ arg = login.tg /\ arg # NoPhone
         \/ call = "bale_request" /\ arg \in BaleNumber
         \/ call = "bale_validate" /\ arg = login.bale /\ arg # NoPhone
         \/ call = "bbot_check" /\ arg = NoPhone,
         call = "sign_in" => wiz.state = "tg_code",
         UNCHANGED <<wiz, login, kb, pairs, chosen, cfgVars>>, UNCHANGED runVars
  PROVE  Inv'
<1>1. busy' = [call |-> call, arg |-> arg]
  BY DEF Await
<1>2. login.tg \in Phone \cup {NoPhone} /\ login.bale \in BaleNumber \cup {NoPhone}
  BY DEF Inv, TypeOK, WizTypeOK
<1>3. WizTypeOK'
  BY <1>1, <1>2 DEF Inv, TypeOK, WizTypeOK, Call
<1>4. Dialogue'
  BY <1>1, <1>2 DEF Inv, Dialogue, CallInPlace, DataAsChosen, DialogueHasData
<1> QED
  BY <1>3, <1>4, SettingsKept

\* A pairing begins: the data is emptied but for the channel that was forwarded.
LEMMA BeginKeeps ==
  ASSUME Inv, NEW tg \in TgChan \cup {NoChan}, Begin(tg), busy = NoCall,
         UNCHANGED <<login, busy, kb, pairs, cfgVars>>, UNCHANGED runVars
  PROVE  Inv'
<1>1. /\ wiz' = [state |-> IF tg = NoChan THEN "pair_tg" ELSE "pair_bale",
                 data |-> [NoData EXCEPT !.tg = tg]]
      /\ chosen' = [tg |-> tg, bale |-> NoChan]
  BY DEF Begin
<1>2. WizTypeOK'
  BY <1>1 DEF Inv, TypeOK, WizTypeOK, States, Data, NoData
<1>3. Dialogue'
  BY <1>1 DEF Inv, Dialogue, CallInPlace, DataAsChosen, DialogueHasData, NoData, NoCall
<1> QED
  BY <1>2, <1>3, SettingsKept

LEMMA ChooseTgKeeps ==
  ASSUME Inv, NEW c \in TgChan, NEW f \in BOOLEAN, ChooseTg(c, f), UNCHANGED runVars
  PROVE  Inv'
<1>1. /\ busy = NoCall
      /\ wiz' = [state |-> "pair_bale", data |-> [wiz.data EXCEPT !.tg = c]]
      /\ chosen' = [chosen EXCEPT !.tg = c]
      /\ UNCHANGED <<login, busy, kb, pairs, cfgVars>>
  BY DEF ChooseTg, In, GoTo
<1>2. wiz.data \in Data /\ chosen \in [tg : TgChan \cup {NoChan}, bale : BaleChan \cup {NoChan}]
  BY DEF Inv, TypeOK, WizTypeOK
<1>3. WizTypeOK'
  BY <1>1, <1>2 DEF Inv, TypeOK, WizTypeOK, States, Data
<1>4. Dialogue'
  BY <1>1, <1>2, NoChanAssumption
     DEF Inv, Dialogue, CallInPlace, DataAsChosen, DialogueHasData, NoCall, Data
<1> QED
  BY <1>1, <1>3, <1>4, SettingsKept

LEMMA ChooseBaleKeeps ==
  ASSUME Inv, NEW c \in BaleChan, ChooseBale(c), UNCHANGED runVars
  PROVE  Inv'
<1>1. /\ busy = NoCall /\ wiz.state = "pair_bale"
      /\ wiz' = [state |-> "pair_dir", data |-> [wiz.data EXCEPT !.bale = c]]
      /\ chosen' = [chosen EXCEPT !.bale = c]
      /\ kb' = kb \cup {"direction"}
      /\ UNCHANGED <<login, busy, pairs, cfgVars>>
  BY DEF ChooseBale, In, GoTo
<1>2. wiz.data \in Data /\ chosen \in [tg : TgChan \cup {NoChan}, bale : BaleChan \cup {NoChan}]
  BY DEF Inv, TypeOK, WizTypeOK
<1>3. WizTypeOK'
  BY <1>1, <1>2 DEF Inv, TypeOK, WizTypeOK, States, Data
<1>4. Dialogue'
  BY <1>1, <1>2, NoChanAssumption
     DEF Inv, Dialogue, CallInPlace, DataAsChosen, DialogueHasData, NoCall, Data
<1> QED
  BY <1>1, <1>3, <1>4, SettingsKept

LEMMA TextKeeps ==
  ASSUME Inv, Text, UNCHANGED runVars
  PROVE  Inv'
<1>1. CASE TgCode
  BY <1>1, AwaitKeeps DEF TgCode, In
<1>2. CASE TgPassword
  BY <1>2, AwaitKeeps DEF TgPassword, In
<1>3. CASE BaleCode
  BY <1>3, AwaitKeeps DEF BaleCode, In
<1>4. CASE BotToken
  BY <1>4, AwaitKeeps DEF BotToken, In
<1>5. ASSUME NEW p \in BaleNumber, BalePhone(p) PROVE Inv'
  BY <1>5, AwaitKeeps DEF BalePhone, In
<1>6. ASSUME NEW c \in TgChan, ForwardInMenu(c) PROVE Inv'
  BY <1>6, BeginKeeps DEF ForwardInMenu, In
<1> QED
  BY <1>1, <1>2, <1>3, <1>4, <1>5, <1>6, OpenKeeps, ApiIdKeeps, ApiHashKeeps,
     TgPhoneKeeps, ChooseTgKeeps, ChooseBaleKeeps DEF Text

-----------------------------------------------------------------------------
(* Buttons *)

LEMMA ButtonKeeps ==
  ASSUME Inv, Button, UNCHANGED runVars
  PROVE  Inv'
<1>1. busy = NoCall /\ UNCHANGED <<login, busy, pairs, cfgVars>>
  BY DEF Button
<1>2. CASE /\ \E s \in {"tg_api_id", "bale_phone", "bbot_token"} : Start(s)
           /\ UNCHANGED <<kb, chosen>>
  <2>1. PICK s \in {"tg_api_id", "bale_phone", "bbot_token"} :
               wiz' = [state |-> s, data |-> NoData]
    BY <1>2 DEF Start, GoTo
  <2>2. WizTypeOK'
    BY <1>1, <1>2, <2>1 DEF Inv, TypeOK, WizTypeOK, States, Data, NoData
  <2>3. Dialogue'
    BY <1>1, <1>2, <2>1
       DEF Inv, Dialogue, CallInPlace, DataAsChosen, DialogueHasData, NoData, NoCall
  <2> QED
    BY <1>1, <2>2, <2>3, SettingsKept
<1>3. CASE \/ GoTo("menu", wiz.data) /\ ShowMenu /\ UNCHANGED chosen
           \/ GoTo("none", wiz.data) /\ UNCHANGED <<kb, chosen>>
  <2>1. /\ \/ wiz' = [state |-> "menu", data |-> wiz.data]
           \/ wiz' = [state |-> "none", data |-> wiz.data]
        /\ kb' = kb \/ kb' = kb \cup {"menu"}
        /\ UNCHANGED chosen
    BY <1>3 DEF GoTo, ShowMenu
  <2>2. WizTypeOK'
    <3>1. wiz' \in [state : States, data : Data]
      BY <2>1 DEF Inv, TypeOK, WizTypeOK, States
    <3>2. kb' \subseteq {"menu", "direction"}
      BY <2>1 DEF Inv, TypeOK, WizTypeOK
    <3> QED
      BY <1>1, <2>1, <3>1, <3>2 DEF Inv, TypeOK, WizTypeOK
  <2>3. Dialogue'
    BY <1>1, <2>1 DEF Inv, Dialogue, CallInPlace, DataAsChosen, DialogueHasData, NoCall
  <2> QED
    BY <1>1, <2>2, <2>3, SettingsKept
<1>4. CASE Begin(NoChan) /\ UNCHANGED kb
  BY <1>1, <1>4, BeginKeeps
<1> QED
  BY <1>2, <1>3, <1>4 DEF Button

\* A pair that is registered joins two channels, and the ones chosen.
LEMMA DirectPairs ==
  ASSUME Inv, NEW mode \in Direction, Direct(mode), pairs' # pairs
  PROVE  /\ wiz.data.tg \in TgChan /\ wiz.data.bale \in BaleChan
         /\ pairs' = Append(pairs, [tg |-> wiz.data.tg, bale |-> wiz.data.bale,
                                    mode |-> mode])
         /\ wiz.data.tg = chosen.tg /\ wiz.data.bale = chosen.bale
<1>1. /\ wiz.data.tg # NoChan /\ wiz.data.bale # NoChan
      /\ pairs' = Append(pairs, [tg |-> wiz.data.tg, bale |-> wiz.data.bale,
                                 mode |-> mode])
  BY DEF Direct
<1>2. wiz.data.tg \in TgChan \cup {NoChan} /\ wiz.data.bale \in BaleChan \cup {NoChan}
  BY DEF Inv, TypeOK, WizTypeOK, Data
<1> QED
  BY <1>1, <1>2 DEF Inv, DataAsChosen

LEMMA DirectKeeps ==
  ASSUME Inv, NEW mode \in Direction, Direct(mode), UNCHANGED runVars
  PROVE  Inv'
<1>1. /\ busy = NoCall /\ wiz' = [state |-> "menu", data |-> wiz.data]
      /\ kb' = kb \/ kb' = kb \cup {"menu"}
      /\ UNCHANGED <<login, busy, chosen, cfgVars>>
  BY DEF Direct, GoTo, ShowMenu
<1>2. pairs' \in Seq(Pair)
  <2>1. pairs \in Seq(Pair)
    BY DEF Inv, TypeOK, WizTypeOK
  <2>2. CASE pairs' # pairs
    <3>1. [tg |-> wiz.data.tg, bale |-> wiz.data.bale, mode |-> mode] \in Pair
      BY <2>2, DirectPairs DEF Pair
    <3> QED
      BY <2>1, <2>2, <3>1, DirectPairs
  <2> QED
    BY <2>1, <2>2
<1>3. WizTypeOK'
  BY <1>1, <1>2 DEF Inv, TypeOK, WizTypeOK, States
<1>4. Dialogue'
  BY <1>1 DEF Inv, Dialogue, CallInPlace, DataAsChosen, DialogueHasData, NoCall
<1> QED
  BY <1>1, <1>3, <1>4, SettingsKept

LEMMA CallbackKeeps ==
  ASSUME Inv, Callback, UNCHANGED runVars
  PROVE  Inv'
BY ButtonKeeps, DirectKeeps DEF Callback

-----------------------------------------------------------------------------
(* Answers to the calls of a handler *)

LEMMA CodeRequestedKeeps ==
  ASSUME Inv, CodeRequested, UNCHANGED runVars
  PROVE  Inv'
<1>1. /\ busy.call = "request_code" /\ busy' = NoCall
      /\ UNCHANGED <<kb, pairs, chosen, cfgVars>>
  BY DEF CodeRequested, Returns
<1>2. busy.arg \in Phone /\ busy.arg # NoPhone
  BY <1>1, NobodyAssumption DEF Inv, CallInPlace
<1>3. wiz.data \in Data /\ login \in [tg : Phone \cup {NoPhone}, bale : BaleNumber \cup {NoPhone}]
  BY DEF Inv, TypeOK, WizTypeOK
<1>4. CASE /\ login' = [login EXCEPT !.tg = busy.arg]
           /\ GoTo("tg_code", [wiz.data EXCEPT !.phone = busy.arg])
  <2>1. wiz' = [state |-> "tg_code", data |-> [wiz.data EXCEPT !.phone = busy.arg]]
    BY <1>4 DEF GoTo
  <2>2. WizTypeOK'
    BY <1>1, <1>2, <1>3, <1>4, <2>1 DEF Inv, TypeOK, WizTypeOK, States, Data, Call, NoCall
  <2>3. Dialogue'
    BY <1>1, <1>2, <1>3, <1>4, <2>1
       DEF Inv, Dialogue, CallInPlace, DataAsChosen, DialogueHasData, NoCall, Data
  <2> QED
    BY <1>1, <2>2, <2>3, SettingsKept
<1>5. CASE UNCHANGED <<wiz, login>>
  <2>1. WizTypeOK'
    BY <1>1, <1>5 DEF Inv, TypeOK, WizTypeOK, Call, NoCall
  <2>2. Dialogue'
    BY <1>1, <1>5 DEF Inv, Dialogue, CallInPlace, DataAsChosen, DialogueHasData, NoCall
  <2> QED
    BY <1>1, <2>1, <2>2, SettingsKept
<1> QED
  BY <1>4, <1>5 DEF CodeRequested

LEMMA BaleCodeRequestedKeeps ==
  ASSUME Inv, BaleCodeRequested, UNCHANGED runVars
  PROVE  Inv'
<1>1. /\ busy.call = "bale_request" /\ busy' = NoCall
      /\ UNCHANGED <<kb, pairs, chosen, cfgVars>>
  BY DEF BaleCodeRequested, Returns
<1>2. busy.arg \in BaleNumber /\ busy.arg # NoPhone
  BY <1>1, NobodyAssumption DEF Inv, CallInPlace
<1>3. wiz.data \in Data /\ login \in [tg : Phone \cup {NoPhone}, bale : BaleNumber \cup {NoPhone}]
  BY DEF Inv, TypeOK, WizTypeOK
<1>4. CASE /\ login' = [login EXCEPT !.bale = busy.arg]
           /\ GoTo("bale_code", [wiz.data EXCEPT !.balePhone = busy.arg])
  <2>1. wiz' = [state |-> "bale_code", data |-> [wiz.data EXCEPT !.balePhone = busy.arg]]
    BY <1>4 DEF GoTo
  <2>2. WizTypeOK'
    BY <1>1, <1>2, <1>3, <1>4, <2>1 DEF Inv, TypeOK, WizTypeOK, States, Data, Call, NoCall
  <2>3. Dialogue'
    BY <1>1, <1>2, <1>3, <1>4, <2>1
       DEF Inv, Dialogue, CallInPlace, DataAsChosen, DialogueHasData, NoCall, Data
  <2> QED
    BY <1>1, <2>2, <2>3, SettingsKept
<1>5. CASE UNCHANGED <<wiz, login>>
  <2>1. WizTypeOK'
    BY <1>1, <1>5 DEF Inv, TypeOK, WizTypeOK, Call, NoCall
  <2>2. Dialogue'
    BY <1>1, <1>5 DEF Inv, Dialogue, CallInPlace, DataAsChosen, DialogueHasData, NoCall
  <2> QED
    BY <1>1, <2>1, <2>2, SettingsKept
<1> QED
  BY <1>4, <1>5 DEF BaleCodeRequested

\* The login has gone through: the session is there before the account is recorded.
LEMMA LoggedInKeeps ==
  ASSUME Inv, LoggedIn, busy.call \in {"sign_in", "password"}, busy' = NoCall,
         UNCHANGED <<pairs, chosen>>, UNCHANGED runVars
  PROVE  Inv'
<1>0. files' \in [tg : Phone, bale : BOOLEAN] /\ files'.bale = files.bale
  BY SessionIsAnAccount DEF Inv, TypeOK, CallInPlace, LoggedIn
<1>1. /\ files' = SessionOf(busy.arg)
      /\ login' = [login EXCEPT !.tg = NoPhone]
      /\ store' = [store EXCEPT !.tgSelf = wiz.data.phone]
      /\ wiz' = [state |-> "menu", data |-> wiz.data]
      /\ kb' = kb \cup {"menu"}
      /\ UNCHANGED <<env, cfg>>
  BY DEF LoggedIn, GoTo, ShowMenu
<1>2. wiz.data.phone \in Phone \cup {NoPhone}
  BY DEF Inv, TypeOK, WizTypeOK, Data
<1>3. CfgTypeOK'
  BY <1>0, <1>1, <1>2 DEF Inv, TypeOK, CfgTypeOK
<1>4. WizTypeOK'
  BY <1>1 DEF Inv, TypeOK, WizTypeOK, States, Call, NoCall
<1>5. Dialogue'
  BY <1>1 DEF Inv, Dialogue, CallInPlace, DataAsChosen, DialogueHasData, NoCall
<1>6. Accounts'
  BY <1>0, <1>1 DEF Inv, TypeOK, CfgTypeOK, Accounts, OwnerStored, LoginRecorded, runVars
<1> QED
  BY <1>3, <1>4, <1>5, <1>6, AccountsKept

LEMMA RefusedKeeps ==
  ASSUME Inv, Refused, busy.call \in {"sign_in", "password"}, busy' = NoCall,
         UNCHANGED <<pairs, chosen>>, UNCHANGED runVars
  PROVE  Inv'
<1>1. /\ \/ files' = files
         \/ files' \in [tg : Phone, bale : BOOLEAN] /\ files'.bale = files.bale
      /\ UNCHANGED <<wiz, login, kb, env, cfg, store>>
  BY SessionIsAnAccount DEF Inv, TypeOK, CallInPlace, Refused
<1>2. CfgTypeOK'
  BY <1>1 DEF Inv, TypeOK, CfgTypeOK
<1>3. WizTypeOK'
  BY <1>1 DEF Inv, TypeOK, WizTypeOK, Call, NoCall
<1>4. Dialogue'
  BY <1>1 DEF Inv, Dialogue, CallInPlace, DataAsChosen, DialogueHasData, NoCall
<1>5. Accounts'
  BY <1>1 DEF Inv, TypeOK, CfgTypeOK, Accounts, OwnerStored, LoginRecorded, runVars
<1> QED
  BY <1>2, <1>3, <1>4, <1>5, AccountsKept

LEMMA NeedPasswordKeeps ==
  ASSUME Inv, NeedPassword, busy.call = "sign_in", busy' = NoCall,
         UNCHANGED <<pairs, chosen>>, UNCHANGED runVars
  PROVE  Inv'
<1>1. /\ wiz' = [state |-> "tg_password", data |-> wiz.data]
      /\ UNCHANGED <<login, kb, cfgVars>>
  BY DEF NeedPassword, GoTo
<1>2. wiz.state = "tg_code"
  BY DEF Inv, CallInPlace
<1>3. WizTypeOK'
  BY <1>1 DEF Inv, TypeOK, WizTypeOK, States, Call, NoCall
<1>4. Dialogue'
  BY <1>1, <1>2 DEF Inv, Dialogue, CallInPlace, DataAsChosen, DialogueHasData, NoCall
<1> QED
  BY <1>1, <1>3, <1>4, SettingsKept

LEMMA BaleValidatedKeeps ==
  ASSUME Inv, BaleValidated, UNCHANGED runVars
  PROVE  Inv'
<1>1. busy.call = "bale_validate" /\ busy' = NoCall /\ UNCHANGED <<pairs, chosen, env, cfg>>
  BY DEF BaleValidated, Returns
<1>2. CASE /\ files' = [files EXCEPT !.bale = TRUE]
           /\ login' = [login EXCEPT !.bale = NoPhone]
           /\ store' = [store EXCEPT !.baleSelf = wiz.data.balePhone]
           /\ GoTo("menu", wiz.data)
           /\ ShowMenu
  <2>1. wiz' = [state |-> "menu", data |-> wiz.data] /\ kb' = kb \cup {"menu"}
    BY <1>2 DEF GoTo, ShowMenu
  <2>2. wiz.data.balePhone \in BaleNumber \cup {NoPhone}
    BY DEF Inv, TypeOK, WizTypeOK, Data
  <2>3. CfgTypeOK'
    BY <1>1, <1>2, <2>2 DEF Inv, TypeOK, CfgTypeOK
  <2>4. WizTypeOK'
    BY <1>1, <1>2, <2>1 DEF Inv, TypeOK, WizTypeOK, States, Call, NoCall
  <2>5. Dialogue'
    BY <1>1, <1>2, <2>1
       DEF Inv, Dialogue, CallInPlace, DataAsChosen, DialogueHasData, NoCall
  <2>6. Accounts'
    BY <1>1, <1>2
       DEF Inv, TypeOK, CfgTypeOK, Accounts, OwnerStored, LoginRecorded, runVars
  <2> QED
    BY <2>3, <2>4, <2>5, <2>6, AccountsKept
<1>3. CASE /\ files' \in {files, [files EXCEPT !.bale = TRUE]}
           /\ UNCHANGED <<wiz, login, kb, store>>
  <2>1. CfgTypeOK'
    BY <1>1, <1>3 DEF Inv, TypeOK, CfgTypeOK
  <2>2. WizTypeOK'
    BY <1>1, <1>3 DEF Inv, TypeOK, WizTypeOK, Call, NoCall
  <2>3. Dialogue'
    BY <1>1, <1>3 DEF Inv, Dialogue, CallInPlace, DataAsChosen, DialogueHasData, NoCall
  <2>4. Accounts'
    BY <1>1, <1>3
       DEF Inv, TypeOK, CfgTypeOK, Accounts, OwnerStored, LoginRecorded, runVars
  <2> QED
    BY <2>1, <2>2, <2>3, <2>4, AccountsKept
<1> QED
  BY <1>2, <1>3 DEF BaleValidated

LEMMA BotCheckedKeeps ==
  ASSUME Inv, BotChecked, UNCHANGED runVars
  PROVE  Inv'
<1>1. busy' = NoCall /\ UNCHANGED <<login, pairs, chosen, env, cfg, files>>
  BY DEF BotChecked, Returns
<1>2. /\ store' = store \/ store' = [store EXCEPT !.baleBot = TRUE]
      /\ wiz' = wiz \/ wiz' = [state |-> "menu", data |-> wiz.data]
      /\ kb' = kb \/ kb' = kb \cup {"menu"}
  BY DEF BotChecked, GoTo, ShowMenu
<1>3. CfgTypeOK'
  BY <1>1, <1>2 DEF Inv, TypeOK, CfgTypeOK
<1>4. WizTypeOK'
  BY <1>1, <1>2 DEF Inv, TypeOK, WizTypeOK, States, Call, NoCall
<1>5. Dialogue'
  BY <1>1, <1>2 DEF Inv, Dialogue, CallInPlace, DataAsChosen, DialogueHasData, NoCall
<1>6. Accounts'
  BY <1>1, <1>2
     DEF Inv, TypeOK, CfgTypeOK, Accounts, OwnerStored, LoginRecorded, runVars
<1> QED
  BY <1>3, <1>4, <1>5, <1>6, AccountsKept

LEMMA AnswerKeeps ==
  ASSUME Inv, Answer, UNCHANGED runVars
  PROVE  Inv'
<1>1. CASE SignedIn
  <2>1. busy.call = "sign_in" /\ busy' = NoCall /\ UNCHANGED <<pairs, chosen>>
    BY <1>1 DEF SignedIn, Returns
  <2> QED
    BY <1>1, <2>1, LoggedInKeeps, NeedPasswordKeeps, RefusedKeeps DEF SignedIn
<1>2. CASE PasswordChecked
  <2>1. busy.call = "password" /\ busy' = NoCall /\ UNCHANGED <<pairs, chosen>>
    BY <1>2 DEF PasswordChecked, Returns
  <2> QED
    BY <1>2, <2>1, LoggedInKeeps, RefusedKeeps DEF PasswordChecked
<1> QED
  BY <1>1, <1>2, CodeRequestedKeeps, BaleCodeRequestedKeeps, BaleValidatedKeeps,
     BotCheckedKeeps DEF Answer

-----------------------------------------------------------------------------
(* The claim, the end of the installation and the process *)

\* The seat is free only while nobody has been told that it is theirs.
LEMMA ClaimKeeps ==
  ASSUME Inv, NEW u \in User, Claim(u)
  PROVE  Inv'
<1>1. /\ busy = NoCall /\ store.admin = NoUser
      /\ store' = [store EXCEPT !.admin = u]
      /\ cfg' = [cfg EXCEPT !.admin = u]
      /\ owners' = owners \cup {u}
      /\ wiz' = wiz \/ wiz' = [state |-> "menu", data |-> wiz.data]
      /\ kb' = kb \/ kb' = kb \cup {"menu"}
      /\ UNCHANGED <<proc, botUp, restarting, crashes, env, files, login, busy, pairs,
                     chosen>>
  BY DEF Claim, ClaimAdmin, GoTo, ShowMenu
<1>2. u # NoUser
  BY NobodyAssumption
<1>3. CfgTypeOK'
  BY <1>1 DEF Inv, TypeOK, CfgTypeOK
<1>4. WizTypeOK'
  <2>1. wiz' \in [state : States, data : Data]
    BY <1>1 DEF Inv, TypeOK, WizTypeOK, States
  <2>2. kb' \subseteq {"menu", "direction"}
    BY <1>1 DEF Inv, TypeOK, WizTypeOK
  <2> QED
    BY <1>1, <2>1, <2>2 DEF Inv, TypeOK, WizTypeOK
<1>5. owners' \subseteq User
  BY <1>1 DEF Inv, TypeOK
<1>6. TypeOK'
  BY <1>1, <1>3, <1>4, <1>5 DEF Inv, TypeOK
<1>7. Dialogue'
  BY <1>1 DEF Inv, Dialogue, CallInPlace, DataAsChosen, DialogueHasData, NoCall
<1>8. OwnerStored'
  <2>1. owners = {}
    BY <1>1 DEF Inv, OwnerStored
  <2>2. store'.admin = u /\ owners' = {u}
    BY <1>1, <2>1 DEF Inv, TypeOK, CfgTypeOK
  <2> QED
    BY <1>2, <2>2 DEF OwnerStored
<1>9. LoginRecorded'
  BY <1>1 DEF Inv, TypeOK, CfgTypeOK, LoginRecorded
<1> QED
  BY <1>6, <1>7, <1>8, <1>9 DEF Inv, Dialogue

LEMMA DoneKeeps ==
  ASSUME Inv, Done
  PROVE  Inv'
<1>1. /\ busy = NoCall
      /\ wiz' = [wiz EXCEPT !.state = IF wiz.state = "inactive" THEN "none" ELSE wiz.state]
      /\ kb' = kb \/ kb' = kb \cup {"menu"}
      /\ restarting' = restarting \/ restarting' = TRUE
      /\ UNCHANGED <<proc, botUp, owners, crashes, login, busy, pairs, chosen>>
      /\ UNCHANGED cfgVars
  BY DEF Done, ShowMenu
<1>2. CfgTypeOK' /\ Accounts'
  BY <1>1 DEF Inv, TypeOK, CfgTypeOK, Accounts, OwnerStored, LoginRecorded, cfgVars
<1>3. wiz \in [state : States, data : Data]
  BY DEF Inv, TypeOK, WizTypeOK
<1>4. wiz' \in [state : States, data : Data]
  BY <1>1, <1>3 DEF States
<1>5. kb' \subseteq {"menu", "direction"}
  BY <1>1 DEF Inv, TypeOK, WizTypeOK
<1>6. WizTypeOK'
  BY <1>1, <1>4, <1>5 DEF Inv, TypeOK, WizTypeOK
<1>7. restarting' \in BOOLEAN
  BY <1>1 DEF Inv, TypeOK
<1>8. TypeOK'
  BY <1>1, <1>2, <1>6, <1>7 DEF Inv, TypeOK
<1>9. Dialogue'
  <2>1. wiz'.data = wiz.data
    BY <1>1, <1>3
  <2>2. wiz'.state = wiz.state \/ wiz'.state = "none"
    BY <1>1, <1>3
  <2> QED
    BY <1>1, <2>1, <2>2
       DEF Inv, Dialogue, CallInPlace, DataAsChosen, DialogueHasData, NoCall
<1> QED
  BY <1>2, <1>8, <1>9 DEF Inv, Dialogue, Accounts

\* The end of the process, whatever the awaited call has left behind.
LEMMA EndKeeps ==
  ASSUME Inv, End, crashes' \in 0..MaxCrashes
  PROVE  Inv'
<1>1. /\ proc' = "down" /\ botUp' = FALSE /\ restarting' = FALSE
      /\ wiz' = [state |-> "inactive", data |-> NoData]
      /\ login' = [tg |-> NoPhone, bale |-> NoPhone]
      /\ busy' = NoCall
      /\ UNCHANGED <<owners, env, cfg, store, kb, pairs, chosen>>
  BY DEF End, NewMemory
<1>2. \/ files' = files
      \/ files' \in [tg : Phone, bale : BOOLEAN] /\ files'.bale = files.bale
      \/ files' = [files EXCEPT !.bale = TRUE]
  BY SessionIsAnAccount DEF Inv, TypeOK, CallInPlace, End, FilesAtEnd
<1>3. CfgTypeOK'
  BY <1>1, <1>2 DEF Inv, TypeOK, CfgTypeOK
<1>4. WizTypeOK'
  BY <1>1 DEF Inv, TypeOK, WizTypeOK, States, Data, NoData, Call, NoCall
<1>5. owners' \subseteq User
  BY <1>1 DEF Inv, TypeOK
<1>6. TypeOK'
  BY <1>1, <1>3, <1>4, <1>5 DEF TypeOK
<1>7. Dialogue'
  BY <1>1 DEF Dialogue, CallInPlace, DataAsChosen, DialogueHasData, NoData, NoCall
<1>8. Accounts'
  BY <1>1, <1>2 DEF Inv, TypeOK, CfgTypeOK, Accounts, OwnerStored, LoginRecorded
<1> QED
  BY <1>6, <1>7, <1>8 DEF Inv, Dialogue, Accounts

\* The settings a process starts with.
LEMMA OverriddenType ==
  ASSUME CfgTypeOK
  PROVE  Overridden \in [admin : User \cup {NoUser}, api : BOOLEAN, baleToken : BOOLEAN]
<1>1. env \in EnvRec
  BY EnvsAssumption DEF CfgTypeOK
<1> QED
  BY <1>1 DEF CfgTypeOK, EnvRec, Overridden

LEMMA BootKeeps ==
  ASSUME Inv, cfg' = Overridden, proc' \in {"installer", "full"}, botUp' \in BOOLEAN,
         UNCHANGED <<restarting, owners, crashes, env, store, files, wizVars>>
  PROVE  Inv'
<1>1. CfgTypeOK'
  BY OverriddenType DEF Inv, TypeOK, CfgTypeOK
<1>2. WizTypeOK'
  BY DEF Inv, TypeOK, WizTypeOK, wizVars
<1>3. TypeOK'
  BY <1>1, <1>2 DEF Inv, TypeOK
<1>4. Dialogue'
  BY DEF Inv, Dialogue, CallInPlace, DataAsChosen, DialogueHasData, wizVars
<1>5. Accounts'
  BY DEF Inv, Accounts, OwnerStored, LoginRecorded
<1> QED
  BY <1>3, <1>4, <1>5 DEF Inv, Dialogue, Accounts

LEMMA StutterKeeps ==
  ASSUME Inv, UNCHANGED vars
  PROVE  Inv'
<1>1. UNCHANGED cfgVars /\ UNCHANGED runVars /\ UNCHANGED wizVars
  BY DEF vars, runVars
<1>2. WizTypeOK'
  BY <1>1 DEF Inv, TypeOK, WizTypeOK, wizVars
<1>3. Dialogue'
  BY <1>1 DEF Inv, Dialogue, CallInPlace, DataAsChosen, DialogueHasData, wizVars
<1> QED
  BY <1>1, <1>2, <1>3, SettingsKept

LEMMA InvStep ==
  ASSUME Inv, [Next]_vars
  PROVE  Inv'
<1>1. CASE OnText
  BY <1>1, TextKeeps DEF OnText
<1>2. CASE OnCallback
  BY <1>2, CallbackKeeps DEF OnCallback
<1>3. CASE OnAnswer
  BY <1>3, AnswerKeeps DEF OnAnswer
<1>4. CASE Exec
  <2>1. crashes' \in 0..MaxCrashes
    BY <1>4 DEF Exec, Inv, TypeOK
  <2> QED
    BY <1>4, <2>1, EndKeeps DEF Exec
<1>5. CASE Crash
  <2>1. crashes' \in 0..MaxCrashes
    BY <1>5, MaxCrashesAssumption DEF Crash, Inv, TypeOK
  <2> QED
    BY <1>5, <2>1, EndKeeps DEF Crash
<1>6. CASE BootInstaller
  <2>1. proc' \in {"installer", "full"} /\ botUp' \in BOOLEAN
    BY <1>6 DEF BootInstaller
  <2> QED
    BY <1>6, <2>1, BootKeeps DEF BootInstaller
<1>7. CASE BootFull
  <2>1. env \in EnvRec
    BY EnvsAssumption DEF Inv, TypeOK, CfgTypeOK
  <2>2. proc' \in {"installer", "full"} /\ botUp' \in BOOLEAN
    BY <1>7, <2>1 DEF BootFull, EnvRec
  <2> QED
    BY <1>7, <2>2, BootKeeps DEF BootFull
<1> QED
  BY <1>1, <1>2, <1>3, <1>4, <1>5, <1>6, <1>7, ClaimKeeps, DoneKeeps, StutterKeeps
     DEF Next

-----------------------------------------------------------------------------
(* Theorems *)

\* The installation keeps its invariant, the types of every variable included.
THEOREM SetupInvariant == Spec => []Inv
<1>1. Init => Inv
  BY InvInit
<1>2. Inv /\ [Next]_vars => Inv'
  BY InvStep
<1> QED
  BY <1>1, <1>2, PTL DEF Spec

\* TypeOK: cfg, the wizard and the calls of the handlers keep their types; in particular
\* an answer of Telegram's login never leaves the wizard without a state to be in.
THEOREM SetupTypes == Spec => []TypeOK
<1>1. Inv => TypeOK
  BY DEF Inv
<1> QED
  BY <1>1, SetupInvariant, PTL

\* ClaimEngine gives the seat to one user at most, whatever crashes and restarts come
\* between the claims and whatever .env and the store say of the admin.
THEOREM OneOwnerAlways == Spec => []OneOwner
<1>1. Inv => OneOwner
  <2> SUFFICES ASSUME Inv PROVE OneOwner
    OBVIOUS
  <2>1. CASE owners = {}
    BY <2>1, FS_EmptySet DEF OneOwner
  <2>2. CASE owners = {store.admin}
    BY <2>2, FS_Singleton DEF OneOwner
  <2> QED
    BY <2>1, <2>2 DEF Inv, OwnerStored
<1> QED
  BY <1>1, SetupInvariant, PTL

\* An account the wizard has recorded can be used without asking anyone, whenever the
\* process ends during a login.
THEOREM LoginRecordedAlways == Spec => []LoginRecorded
<1>1. Inv => LoginRecorded
  BY DEF Inv
<1> QED
  BY <1>1, SetupInvariant, PTL

\* No button of an old keyboard leads to a question whose earlier answers are missing.
THEOREM DialogueHasDataAlways == Spec => []DialogueHasData
<1>1. Inv => DialogueHasData
  BY DEF Inv
<1> QED
  BY <1>1, SetupInvariant, PTL

\* Only the direction button registers a pair.
LEMMA OnlyDirectPairs ==
  ASSUME Inv, Next, pairs' # pairs
  PROVE  \E mode \in Direction : Direct(mode)
<1>1. ~OnText
  BY DEF OnText, Text, Open, ApiId, ApiHash, TgPhone, TgCode, TgPassword, BalePhone,
         BaleCode, BotToken, ForwardInMenu, ChooseTg, ChooseBale
<1>2. ~OnAnswer
  BY DEF OnAnswer, Answer, CodeRequested, SignedIn, PasswordChecked,
         BaleCodeRequested, BaleValidated, BotChecked
<1>3. ~Button
  BY DEF Button
<1>4. /\ \A u \in User : ~Claim(u)
      /\ ~Done
  BY DEF Claim, Done
<1>5. ~Exec /\ ~Crash
  BY DEF Exec, Crash, End
<1>6. ~BootInstaller /\ ~BootFull
  BY DEF BootInstaller, BootFull, wizVars
<1> QED
  BY <1>1, <1>2, <1>3, <1>4, <1>5, <1>6 DEF Next, OnCallback, Callback

\* PairingEngine registers the two channels chosen since the pairing last began,
\* whichever buttons are pressed twice or out of turn.
THEOREM PairsAreAsChosen == Spec => PairsAsChosen
<1> DEFINE Chosen == pairs' # pairs =>
                       LET new == pairs'[Len(pairs')]
                       IN new.tg = chosen.tg /\ new.bale = chosen.bale
<1>1. ASSUME Inv, [Next]_vars PROVE [Chosen]_vars
  <2>1. CASE UNCHANGED vars
    BY <2>1
  <2>2. CASE Next
    <3> SUFFICES ASSUME pairs' # pairs PROVE Chosen
      OBVIOUS
    <3>1. PICK mode \in Direction : Direct(mode)
      BY <1>1, <2>2, OnlyDirectPairs
    <3>2. /\ pairs' = Append(pairs, [tg |-> wiz.data.tg, bale |-> wiz.data.bale,
                                     mode |-> mode])
          /\ wiz.data.tg = chosen.tg /\ wiz.data.bale = chosen.bale
      BY <1>1, <3>1, DirectPairs
    <3>3. pairs \in Seq(Pair)
      BY <1>1 DEF Inv, TypeOK, WizTypeOK
    <3>4. pairs'[Len(pairs')] = [tg |-> wiz.data.tg, bale |-> wiz.data.bale,
                                 mode |-> mode]
      BY <3>2, <3>3
    <3> QED
      BY <3>2, <3>4
  <2> QED
    BY <1>1, <2>1, <2>2
<1>2. Spec => [][Chosen]_vars
  BY <1>1, SetupInvariant, PTL DEF Spec
<1> QED
  BY <1>2 DEF PairsAsChosen
=============================================================================
