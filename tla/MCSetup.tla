------------------------------ MODULE MCSetup -------------------------------
(* Setup on a small instance.                                              *)
EXTENDS Setup

\* The documented minimum, only the token of the control bot, with the Bale side at
\* its default; and a file that names the admin, the credentials of the API and the
\* selfbot of Bale.
Minimal == [bot |-> TRUE, admin |-> NoUser, api |-> FALSE, baleToken |-> FALSE,
            baleMode |-> "bot"]
MCEnvs ==
  {Minimal,
   [bot |-> TRUE, admin |-> CHOOSE u \in User : TRUE, api |-> TRUE,
    baleToken |-> FALSE, baleMode |-> "user"]}

\* Only the documented minimum.
MinimalEnvs == {Minimal}
=============================================================================
