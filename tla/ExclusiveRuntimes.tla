-------------------------- MODULE ExclusiveRuntimes --------------------------
(***************************************************************************)
(* What AthenaServer promises its backend (packages/server/src/types.ts,   *)
(* "Durable storage and exclusively acquired runtime boundary"): for each  *)
(* session it asks for a runtime only when it has given back the one it    *)
(* had.  LiveSessions implements this specification.                       *)
(***************************************************************************)
CONSTANTS
    Sid,   \* session ids
    Live   \* identities of the runtimes, one per LiveSession

VARIABLE holders   \* [Sid -> SUBSET Live]: runtimes asked for and not given back

Init == holders = [s \in Sid |-> {}]

\* The backend is asked for a runtime of session s.
Acquire(s) ==
    /\ holders[s] = {}
    /\ \E l \in Live : holders' = [holders EXCEPT ![s] = {l}]

\* The runtime was disposed, or the backend refused to hand it over.
Release(s) ==
    /\ holders[s] # {}
    /\ holders' = [holders EXCEPT ![s] = {}]

Next == \E s \in Sid : Acquire(s) \/ Release(s)

Spec == Init /\ [][Next]_holders

=============================================================================
