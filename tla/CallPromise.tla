----------------------------- MODULE CallPromise -----------------------------
(***************************************************************************)
(* What a call promises to the code that makes it, whichever of the eight  *)
(* client interfaces it uses: the responses in the order the server sent   *)
(* them, none that does not parse and none after one that does not, and    *)
(* then at most one outcome, which is the reason why there are no more.    *)
(***************************************************************************)
EXTENDS Naturals, Sequences

VARIABLES
  wants,      \* the caller asks for the responses, not only for the outcome
  replies,    \* responses sent to the client: "good" or "bad" (does not parse)
  final,      \* how the call ended: "none" (not yet), "ok", "rpc" (it failed)
  delivered,  \* how many responses the caller was given
  outcome     \* what the caller was told: "none", "ok", "rpc", "parse"

vars == <<wants, replies, final, delivered, outcome>>

Init ==
  /\ wants \in BOOLEAN
  /\ replies = << >>
  /\ final = "none"
  /\ delivered = 0
  /\ outcome = "none"

\* The server sends, until the call ends; a call that fails loses responses.
Network ==
  /\ final = "none"
  /\ \/ \E r \in {"good", "bad"} :
          replies' = Append(replies, r) /\ final' \in {"none", "ok"}
     \/ replies' = replies /\ final' = "ok"
     \/ \E n \in delivered .. Len(replies) :
          replies' = SubSeq(replies, 1, n) /\ final' = "rpc"
  /\ UNCHANGED <<wants, delivered, outcome>>

\* Success is the success of the call, when nothing is left to be delivered.
Succeeded == final = "ok" /\ (wants => delivered' = Len(replies))

Deliver ==
  /\ wants
  /\ outcome = "none"
  /\ delivered < Len(replies)
  /\ replies[delivered + 1] = "good"
  /\ delivered' = delivered + 1
  /\ outcome' \in IF Succeeded THEN {"none", "ok"} ELSE {"none"}
  /\ UNCHANGED <<wants, replies, final>>

Tell ==
  /\ outcome = "none"
  /\ UNCHANGED <<wants, replies, final, delivered>>
  /\ \/ outcome' = "ok" /\ Succeeded
     \/ outcome' = "rpc" /\ final = "rpc"
     \/ /\ outcome' = "parse"
        /\ wants
        /\ delivered < Len(replies)
        /\ replies[delivered + 1] = "bad"

Next == Network \/ Deliver \/ Tell

Spec == Init /\ [][Next]_vars
=============================================================================
