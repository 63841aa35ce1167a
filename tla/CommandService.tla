---------------------------- MODULE CommandService ----------------------------
(***************************************************************************)
(* What the relay promises the console about its commands: a request is    *)
(* answered with what the responses have for it, or not at all.            *)
(***************************************************************************)

CONSTANTS
  Requests, NoRequest,  \* what the console can ask
  Known,                \* the requests there is an answer to
  Content(_)            \* that answer

VARIABLES request, heard  \* the request and the answers to it

Init == request = NoRequest /\ heard = {}

Ask == request' \in Requests /\ heard' = {}

Reply ==
  /\ request \in Known
  /\ heard' = {Content(request)}
  /\ UNCHANGED request

Spec == Init /\ [][Ask \/ Reply]_<<request, heard>>
=============================================================================
