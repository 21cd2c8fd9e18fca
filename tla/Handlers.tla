------------------------------ MODULE Handlers ------------------------------
(***************************************************************************)
(* Requests in flight: a handler runs from one await to the next, and      *)
(* between two of its steps the others run.  "request" holds where each of *)
(* them is, with the locals it still needs.                                *)
(***************************************************************************)
CONSTANTS
    Requests,   \* handlers that can be in flight at once
    NULL

VARIABLE request

Idle == [pc |-> "idle"]
InFlight == {r \in Requests : request[r] # Idle}
At(r, pc) == request[r].pc = pc

NobodyIn == request = [r \in Requests |-> Idle]
Goes(r, h) == request' = [request EXCEPT ![r] = h]
Ends(r) == Goes(r, Idle)
=============================================================================
