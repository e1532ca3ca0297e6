------------------------------- MODULE RunCfg -------------------------------
(***************************************************************************)
(* What the program knows about itself: the environment (.env), the        *)
(* settings in force (the module config, which boot and the wizard change  *)
(* in place), the settings stored in the database (bridge/runcfg/) and the *)
(* two session files.  The store only grows: nothing deletes a setting.    *)
(***************************************************************************)
EXTENDS Naturals, Sequences, FiniteSets

CONSTANTS
  User,        \* people who may write to the control bot
  NoUser,
  Phone,       \* phone numbers typed during a Telegram login
  BaleNumber,  \* and during a Bale login
  NoPhone,
  Envs         \* the .env files a run may start with

\* TG_BOT_TOKEN is there, ADMIN_TG_ID, TG_API_ID with TG_API_HASH, BALE_TOKEN,
\* BALE_MODE.
EnvRec == [bot : BOOLEAN, admin : User \cup {NoUser}, api : BOOLEAN,
           baleToken : BOOLEAN, baleMode : {"bot", "user"}]

ASSUME EnvsAssumption == Envs \subseteq EnvRec
ASSUME NobodyAssumption == NoUser \notin User /\ NoPhone \notin Phone \cup BaleNumber
ASSUME OwnerAssumption == "none" \notin Phone /\ "new" \notin Phone

VARIABLES
  env,    \* .env
  cfg,    \* the settings of the running process that change
  store,  \* the cfg:* rows of table meta
  files   \* the session files: of Telethon (a file nobody is logged in with is "new",
          \* others are called after the account), and of aiobale

cfgVars == <<env, cfg, store, files>>

CfgTypeOK ==
  /\ env \in Envs
  /\ cfg \in [admin : User \cup {NoUser}, api : BOOLEAN, baleToken : BOOLEAN]
  /\ store \in [admin : User \cup {NoUser}, api : BOOLEAN,
                tgSelf : Phone \cup {NoPhone}, baleSelf : BaleNumber \cup {NoPhone},
                baleBot : BOOLEAN]
  /\ files \in [tg : {"none", "new"} \cup Phone, bale : BOOLEAN]

CfgInit ==
  /\ env \in Envs
  /\ cfg = [admin |-> env.admin, api |-> env.api, baleToken |-> env.baleToken]
  /\ store = [admin |-> NoUser, api |-> FALSE, tgSelf |-> NoPhone,
              baleSelf |-> NoPhone, baleBot |-> FALSE]
  /\ files = [tg |-> "none", bale |-> FALSE]

\* What a login for phone p leaves in Telethon's session: a session that is logged in
\* keeps its account, whatever phone is typed.
SessionOf(p) == IF files.tg \in Phone THEN files ELSE [files EXCEPT !.tg = p]

\* ReadinessEngine.has_tg: it asks whether the file exists, not who is logged in.
HasTg(c) == (c.api \/ store.api) /\ files.tg # "none"

\* ReadinessEngine.has_bale.
HasBale(c) ==
  \/ store.baleSelf # NoPhone
  \/ store.baleBot
  \/ c.baleToken
  \/ env.baleMode = "user" /\ files.bale

Installed(c) == HasTg(c) /\ HasBale(c)

\* Takes everything but the token of the Bale bot.
OverriddenWithoutToken ==
  [admin |-> IF env.admin # NoUser THEN env.admin ELSE store.admin,
   api |-> env.api \/ store.api,
   baleToken |-> env.baleToken]
\* OverridesEngine.apply on a fresh process: .env, its blanks filled from the store.
Overridden ==
  [admin |-> IF env.admin # NoUser THEN env.admin ELSE store.admin,
   api |-> env.api \/ store.api,
   baleToken |-> env.baleToken \/ store.baleBot]

\* ValidatorEngine.run finds nothing to complain about.
Valid(c) ==
  /\ c.api
  /\ env.baleMode = "bot" => c.baleToken
  /\ env.baleMode = "user" => files.bale

\* Tells the user that the seat is theirs, and stores nothing.
ClaimNotStored(u) == store.admin = NoUser /\ store' = store
\* AccountsEngine.claim_admin where it does not refuse.
ClaimAdmin(u) ==
  /\ store.admin = NoUser
  /\ store' = [store EXCEPT !.admin = u]
=============================================================================
