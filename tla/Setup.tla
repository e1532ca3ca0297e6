------------------------------- MODULE Setup --------------------------------
(***************************************************************************)
(* Installation from an empty database to a running bridge: the control    *)
(* bot (bridge/tgbot/) that hands its updates to the claim of the admin    *)
(* seat and to the wizard, and the runtime (bridge/runtime/) that boots    *)
(* the installer or the whole bridge, restarts itself when the wizard is   *)
(* done, and is started again by its supervisor when it has ended.         *)
(***************************************************************************)
EXTENDS Wizard

CONSTANTS MaxCrashes  \* bound: ends of the process that nobody asked for

ASSUME MaxCrashesAssumption == MaxCrashes \in Nat

VARIABLES
  proc,        \* what is running
  botUp,       \* the control bot is being served
  restarting,  \* FinishEngine's do_restart task is pending
  owners,      \* history: the users who were told that they are the admin
  crashes

vars == <<proc, botUp, restarting, owners, crashes, cfgVars, wizVars>>

TypeOK ==
  /\ CfgTypeOK /\ WizTypeOK
  /\ proc \in {"down", "installer", "full"}
  /\ botUp \in BOOLEAN /\ restarting \in BOOLEAN
  /\ owners \subseteq User
  /\ crashes \in 0..MaxCrashes

Init ==
  /\ CfgInit /\ WizInit
  /\ proc = "down" /\ botUp = FALSE /\ restarting = FALSE
  /\ owners = {} /\ crashes = 0

runVars == <<proc, botUp, restarting, owners, crashes>>

-----------------------------------------------------------------------------
(* TgBotEventRouter.on_update *)

\* ClaimEngine.handle: without an admin every message ends here.  The welcome may
\* fail, and then the wizard is not opened.
Claim(u) ==
  /\ botUp /\ busy = NoCall
  /\ cfg.admin = NoUser
  /\ ClaimAdmin(u)
  /\ cfg' = [cfg EXCEPT !.admin = u]
  /\ owners' = owners \cup {u}
  /\ \/ GoTo("menu", wiz.data) /\ ShowMenu
     \/ UNCHANGED <<wiz, kb>>
  /\ UNCHANGED <<proc, botUp, restarting, crashes, env, files, login, busy, pairs,
                 chosen>>

\* A message of the admin: a word for the setup opens the menu, and the other
\* texts reach the wizard once it is active.
OnText ==
  /\ botUp /\ cfg.admin # NoUser
  /\ Text
  /\ UNCHANGED runVars

OnCallback ==
  /\ botUp
  /\ Callback
  /\ UNCHANGED runVars

OnAnswer ==
  /\ botUp
  /\ Answer
  /\ UNCHANGED runVars

\* The button "done": FinishEngine.finish.
Done ==
  /\ botUp /\ busy = NoCall
  /\ "menu" \in kb
  /\ IF Installed(cfg) THEN restarting' = TRUE ELSE ShowMenu /\ UNCHANGED restarting
  /\ Installed(cfg) => UNCHANGED kb
  /\ wiz' = [wiz EXCEPT !.state = IF @ = "inactive" THEN "none" ELSE @]
  /\ UNCHANGED <<proc, botUp, owners, crashes, cfgVars, login, busy, pairs, chosen>>

-----------------------------------------------------------------------------
(* The runtime *)

\* What the awaited call has left in the session files when the process ends.
FilesAtEnd ==
  {files}
    \cup (IF busy.call \in {"sign_in", "password"}
            THEN {SessionOf(busy.arg)} ELSE {})
    \cup (IF busy.call = "bale_validate" THEN {[files EXCEPT !.bale = TRUE]} ELSE {})

End ==
  /\ proc' = "down" /\ botUp' = FALSE /\ restarting' = FALSE
  /\ files' \in FilesAtEnd
  /\ NewMemory
  /\ UNCHANGED <<owners, env, cfg, store, kb, pairs, chosen>>

\* do_restart: execv, with the environment the process was started with.
Exec ==
  /\ restarting
  /\ End
  /\ UNCHANGED crashes

Crash ==
  /\ proc # "down"
  /\ crashes < MaxCrashes
  /\ crashes' = crashes + 1
  /\ End

\* main: the installer, while something is missing.
BootInstaller ==
  /\ proc = "down"
  /\ cfg' = Overridden
  /\ ~Installed(Overridden)
  /\ env.bot
  /\ proc' = "installer" /\ botUp' = TRUE
  /\ UNCHANGED <<restarting, owners, crashes, env, store, files, wizVars>>

\* WiringEngine.bale_side.
BaleSelf == env.baleMode = "user" \/ store.baleSelf # NoPhone

\* main: the whole bridge.  validate, bale_side and tg_side each end the process
\* when they are not content; the bot is served if its token is there and works.
BootFull ==
  /\ proc = "down"
  /\ cfg' = Overridden
  /\ Installed(Overridden)
  /\ Valid(Overridden)
  /\ BaleSelf => files.bale
  /\ files.tg \in Phone
  /\ proc' = "full"
  /\ botUp' \in {FALSE, env.bot}
  /\ UNCHANGED <<restarting, owners, crashes, env, store, files, wizVars>>

-----------------------------------------------------------------------------
Next ==
  \/ \E u \in User : Claim(u)
  \/ OnText \/ OnCallback \/ OnAnswer \/ Done
  \/ Exec \/ Crash \/ BootInstaller \/ BootFull

\* The pending task runs; the supervisor (docker-compose: restart unless-stopped)
\* starts the program again, and a boot that can succeed does in the end.
Fairness == WF_vars(Exec) /\ WF_vars(BootFull)

Spec == Init /\ [][Next]_vars /\ Fairness

-----------------------------------------------------------------------------
(* Properties *)

\* Whatever buttons of the old keyboards are pressed between two questions, a
\* question is only asked when the answers it builds on are there, and they belong
\* to the login the engine holds: the code goes with the phone that is recorded.
DialogueHasData ==
  /\ wiz.state = "tg_api_hash" => wiz.data.api
  /\ wiz.state \in {"tg_code", "tg_password"} =>
       wiz.data.phone # NoPhone /\ login.tg = wiz.data.phone
  /\ wiz.state = "bale_code" =>
       wiz.data.balePhone # NoPhone /\ login.bale = wiz.data.balePhone
  /\ wiz.state = "pair_bale" => wiz.data.tg # NoChan
  /\ wiz.state = "pair_dir" => wiz.data.tg # NoChan /\ wiz.data.bale # NoChan

\* At most one user is ever told that the bot is theirs, across restarts.
OneOwner == Cardinality(owners) <= 1

\* A pair that is registered joins the two channels chosen since the pairing last
\* began, with whatever else the dialogue did in between.
PairsAsChosen ==
  [][pairs' # pairs =>
       LET new == pairs'[Len(pairs')]
       IN new.tg = chosen.tg /\ new.bale = chosen.bale]_vars

\* When the store lists an account, there is a session that can be used without asking
\* anyone (of the account that logged in first, which need not be the one listed).
LoginRecorded ==
  /\ store.tgSelf # NoPhone => files.tg \in Phone
  /\ store.baleSelf # NoPhone => files.bale

\* A process that starts now can use the Telegram account and the Bale account that
\* BALE_MODE names: the bot in the mode "bot", the selfbot in the mode "user".
Ready ==
  /\ files.tg \in Phone
  /\ env.baleMode = "bot" => env.baleToken \/ store.baleBot
  /\ env.baleMode = "user" => files.bale

\* After "installation complete" the whole bridge comes up, when both accounts can be
\* used and the Bale account is the one of BALE_MODE.
ReadyBoots == restarting /\ Ready ~> proc = "full"

\* README.md:183: after "installation complete" the whole bridge comes up.  Asked here
\* of an installation whose logins to Telegram and to Bale (the button of the selfbot)
\* have both succeeded.
SelfbotBoots ==
  /\ restarting
  /\ store.tgSelf # NoPhone /\ files.tg \in Phone
  /\ store.baleSelf # NoPhone /\ files.bale
  ~> proc = "full"
=============================================================================
