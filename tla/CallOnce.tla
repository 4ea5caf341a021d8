------------------------------ MODULE CallOnce ------------------------------
(* What a client's call promises, for one operation identity: it binds one request for  *)
(* good, its effect happens at most once and is of that request, and what the client     *)
(* has once learned of its completion is true and never lost.                            *)
CONSTANTS Requests, NoReq
VARIABLES bound, effect, learned

once == <<bound, effect, learned>>

Init == bound = NoReq /\ effect = NoReq /\ learned = FALSE

Bind(r) == bound = NoReq /\ bound' = r /\ UNCHANGED <<effect, learned>>
Happen == bound # NoReq /\ effect = NoReq /\ effect' = bound /\ UNCHANGED <<bound, learned>>
Learn == effect # NoReq /\ learned' = TRUE /\ UNCHANGED <<bound, effect>>

Next == Happen \/ Learn \/ \E r \in Requests : Bind(r)
Spec == Init /\ [][Next]_once
=============================================================================
