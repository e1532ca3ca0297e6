------------------------------- MODULE MCParts -------------------------------
(* The parts of the program that nothing but the process joins, on small      *)
(* instances: the dashboard, the operations on pairs, the long poll, the      *)
(* copies of one job, what the Bale selfbot knows of a chat, and what becomes *)
(* of a text.  Each models its own boots and they share no variable, so a     *)
(* behaviour runs one of them and the others stay in one initial state: TLC   *)
(* explores the sum of their states, where the product would show no more.    *)
EXTENDS Dashboard, Operations, Polling, AlbumCopy, BaleSession, TextFormat

VARIABLE part  \* which of the six this behaviour runs

panelVars == <<proc, dashVars, running, opsVars>>
clientVars == <<pollVars, albumVars, selfVars, textVars>>
vars == <<part, panelVars, clientVars>>

PanelTypeOK == DashTypeOK /\ OpsTypeOK
ClientTypeOK == PollTypeOK /\ AlbumTypeOK /\ SelfTypeOK /\ TextTypeOK

Panels == {"dashboard", "operations"}
Clients == {"polling", "album", "self", "text"}

Init ==
  /\ DashInit /\ OpsInit
  /\ PollInit /\ AlbumInit /\ SelfInit /\ TextInit
  /\ part \in Panels \cup Clients
  /\ part # "polling" => published = 0
  /\ part # "album" => items = <<"text">> /\ client = "botapi"
  /\ part # "self" => truth = "channel"

PanelNext ==
  \/ part = "dashboard" /\ DashNext /\ UNCHANGED <<running, opsVars>>
  \/ part = "operations" /\ OpsNext /\ UNCHANGED <<proc, dashVars>>

ClientNext ==
  \/ part = "polling" /\ PollNext /\ UNCHANGED <<albumVars, selfVars, textVars>>
  \/ part = "album" /\ AlbumNext /\ UNCHANGED <<pollVars, selfVars, textVars>>
  \/ part = "self" /\ SelfNext /\ UNCHANGED <<pollVars, albumVars, textVars>>
  \/ part = "text" /\ TextNext /\ UNCHANGED <<pollVars, albumVars, selfVars>>

Next ==
  /\ part' = part
  /\ \/ PanelNext /\ UNCHANGED clientVars
     \/ ClientNext /\ UNCHANGED panelVars

\* Time goes on for the dashboard.
DashTick ==
  part = "dashboard" /\ Tick /\ UNCHANGED <<part, running, opsVars, clientVars>>

\* The loop of the listener runs on.
Listening ==
  /\ part = "polling" /\ Listener
  /\ UNCHANGED <<part, albumVars, selfVars, textVars, panelVars>>

Spec == Init /\ [][Next]_vars /\ WF_vars(DashTick) /\ WF_vars(Listening)
=============================================================================
