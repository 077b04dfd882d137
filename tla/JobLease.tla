------------------------------ MODULE JobLease ------------------------------
(***************************************************************************)
(* What the ingestion queue promises, without rows, clocks or attempts: a  *)
(* job is leased to one worker at a time, only the owner's own outcome     *)
(* closes or returns it, a lease whose owner is gone can be taken back,    *)
(* and a finished job is finished.                                         *)
(***************************************************************************)
CONSTANTS Jobs, Workers, Nobody

VARIABLES
  state,  \* state[j]: "absent", "open", "leased", "held" or "done"
  owner   \* owner[j]: the worker with the lease, Nobody when there is none

leaseVars == <<state, owner>>

Init ==
  /\ state = [j \in Jobs |-> "absent"]
  /\ owner = [j \in Jobs |-> Nobody]

Move(j, from, to) ==
  /\ state[j] = from
  /\ state' = [state EXCEPT ![j] = to]

Owned(j) == owner[j] \in Workers

Post(j) == Move(j, "absent", "open") /\ UNCHANGED owner

Lease(w, j) ==
  /\ Move(j, "open", "leased")
  /\ \A k \in Jobs : owner[k] # w
  /\ owner' = [owner EXCEPT ![j] = w]

\* The owner's verdict: finished, to be retried, or held for a person.
Settle(j) ==
  /\ Owned(j)
  /\ \E verdict \in {"done", "open", "held"} : Move(j, "leased", verdict)
  /\ owner' = [owner EXCEPT ![j] = Nobody]

\* The owner dies; the lease stays until it is taken back.
Orphan(j) ==
  /\ state[j] = "leased"
  /\ Owned(j)
  /\ owner' = [owner EXCEPT ![j] = Nobody]
  /\ UNCHANGED state

\* Several rows change at once, each from the state named, none of them owned.
Reopen(J, from) ==
  /\ \A j \in J : state[j] = from /\ owner[j] = Nobody
  /\ state' = [j \in Jobs |-> IF j \in J THEN "open" ELSE state[j]]
  /\ UNCHANGED owner

Next ==
  \/ \E j \in Jobs : Post(j) \/ Settle(j) \/ Orphan(j)
  \/ \E w \in Workers, j \in Jobs : Lease(w, j)
  \/ \E J \in SUBSET Jobs : Reopen(J, "leased") \/ Reopen(J, "held")

Spec == Init /\ [][Next]_leaseVars

=============================================================================
