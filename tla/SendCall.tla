------------------------------- MODULE SendCall -------------------------------
(***************************************************************************)
(* One send through the client in use, up to the answer the caller gets:   *)
(*   botapi    CallEngine (bridge/botapi/transport.py), which tries again; *)
(*   selfbot   SenderEngine (bridge/bale/sender.py), which sends an album  *)
(*             item by item and tries nothing twice;                       *)
(*   telethon  the library, one request per send.                          *)
(* A platform may have carried out a request whose answer is lost: the     *)
(* posts count what it carried out, the caller only learns of ids.         *)
(***************************************************************************)
EXTENDS Naturals, Sequences

CONSTANTS
  MAX_ATTEMPTS, NETWORK_RETRIES, RATE_LIMIT_RETRIES,
  MaxNetFaults  \* bound: calls that go wrong in one way or another

ASSUME SendAssumption ==
  /\ {MAX_ATTEMPTS, NETWORK_RETRIES, RATE_LIMIT_RETRIES, MaxNetFaults} \subseteq Nat
  /\ NETWORK_RETRIES < MAX_ATTEMPTS /\ RATE_LIMIT_RETRIES < MAX_ATTEMPTS

VARIABLES
  client,    \* the client this send goes through
  call,      \* the call under way: its content, its attempt, what came of it
  posts,     \* the destination: the content of every post made, by id
  netFaults

sendVars == <<client, call, posts, netFaults>>

NoCall == [state |-> "idle", attempt |-> 0, what |-> <<>>, ids |-> <<>>]

SendInit ==
  /\ client \in {"botapi", "selfbot", "telethon"}
  /\ call = NoCall
  /\ posts = <<>>
  /\ netFaults = 0

\* A caller sends: one message, or the items of an album.
Send(what) == call' = [NoCall EXCEPT !.state = "trying", !.what = what]

Trying == call.state = "trying"
NetFault == netFaults < MaxNetFaults /\ netFaults' = netFaults + 1
Ends(state) == call' = [call EXCEPT !.state = state]

\* What one request makes the platform post: the selfbot's the next item.
Request == IF client = "selfbot" THEN <<call.what[Len(call.ids) + 1]>> ELSE call.what
Posted == posts' = posts \o Request
Ids == [k \in 1..Len(Request) |-> Len(posts) + k]

Answered ==
  /\ Trying
  /\ Posted
  /\ LET ids == call.ids \o Ids
     IN  call' = [call EXCEPT !.ids = ids,
                              !.state = IF Len(ids) = Len(call.what) THEN "ok" ELSE @]
  /\ UNCHANGED <<client, netFaults>>

Again == call' = [call EXCEPT !.attempt = @ + 1]

\* The platform answers with an error.
Refused ==
  /\ Trying
  /\ NetFault
  /\ Ends("failed")
  /\ UNCHANGED <<client, posts>>

\* The error says when to come back.
RateLimited ==
  /\ Trying /\ client = "botapi"
  /\ NetFault
  /\ IF call.attempt < RATE_LIMIT_RETRIES THEN Again ELSE Ends("failed")
  /\ UNCHANGED <<client, posts>>

\* _once: the connection breaks or times out.  The post may be there.
NetworkLost ==
  /\ Trying
  /\ NetFault
  /\ IF client = "botapi" /\ call.attempt < NETWORK_RETRIES
     THEN Again ELSE Ends("failed")
  /\ Posted \/ UNCHANGED posts
  /\ UNCHANGED client

\* Goes on after the last attempt.
EmptyBodyAgain ==
  /\ Trying /\ client = "botapi"
  /\ NetFault
  /\ Again
  /\ Posted \/ UNCHANGED posts
  /\ UNCHANGED client
\* An answer without a body reads as None and is taken for a network error
\* that has already waited; after the last attempt the call fails.
EmptyBody ==
  /\ Trying /\ client = "botapi"
  /\ NetFault
  /\ IF call.attempt + 1 < MAX_ATTEMPTS THEN Again ELSE Ends("failed")
  /\ Posted \/ UNCHANGED posts
  /\ UNCHANGED client

SendNext == Answered \/ Refused \/ RateLimited \/ NetworkLost \/ EmptyBody
=============================================================================
