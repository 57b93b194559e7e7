--------------------------- MODULE ShadowRequests ---------------------------
(***************************************************************************)
(* What the device shadow promises for a request made with a callback:     *)
(* once it is accepted for tracking it is answered, exactly once, unless   *)
(* the shadow is destroyed first.  A request that finds the list full is   *)
(* not tracked.                                                            *)
(***************************************************************************)
EXTENDS Integers, FiniteSets

CONSTANTS Request, MaxOpen

VARIABLE status     \* [Request -> Idle, "open", or how the request ended]

Answers == {"accepted", "rejected", "timeout"}
Open == {r \in Request : status[r] = "open"}

Init == status = [r \in Request |-> "idle"]

Track(r) == /\ status[r] = "idle" /\ Cardinality(Open) < MaxOpen
            /\ status' = [status EXCEPT ![r] = "open"]

NotTracked(r) == /\ status[r] = "idle"
                 /\ status' = [status EXCEPT ![r] = "untracked"]

Answer(r) == /\ status[r] = "open"
             /\ \E a \in Answers : status' = [status EXCEPT ![r] = a]

Destroy == status' = [r \in Request |-> IF r \in Open THEN "dropped" ELSE status[r]]

Next ==
    \/ Destroy
    \/ \E r \in Request : Track(r) \/ NotTracked(r) \/ Answer(r)

Ends(r) == status[r] = "open" /\ status'[r] # "open"

Safety == Init /\ [][Next]_status

\* Requests go on being answered as long as some are open; as each is opened only
\* once, every one of them is.
Spec == Safety /\ WF_status(Next /\ \E r \in Request : Ends(r))

=============================================================================
