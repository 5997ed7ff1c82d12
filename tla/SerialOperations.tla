-------------------------- MODULE SerialOperations --------------------------
(***************************************************************************)
(* What a session store promises those who call it: operations on one      *)
(* session take effect one at a time in the order they were accepted,      *)
(* operations on different sessions overlap, and listing stands between    *)
(* everything accepted before it and everything accepted after it.         *)
(* SessionStores implements this specification.                            *)
(***************************************************************************)
EXTENDS Naturals

CONSTANTS
    MaxOps,  \* bound: operations accepted in a behaviour
    Key,     \* what an operation works on: one session
    All      \* the target of an operation on every session

Op == 1..MaxOps   \* operations in the order they are accepted

VARIABLES
    target,  \* [Op -> Key \union {All}]: what an accepted operation works on
    phase    \* [Op -> Phase]

Phase == {"none", "pending", "running", "done"}

Init ==
    /\ target = [o \in Op |-> All]
    /\ phase = [o \in Op |-> "none"]

\* Two operations that may not overlap.
Conflict(o, p) == target[o] = target[p] \/ target[o] = All \/ target[p] = All

\* The next operations, up to m, are accepted together.
Accept ==
    \E m \in Op :
        /\ phase[m] = "none"
        /\ phase' = [o \in Op |-> IF o <= m /\ phase[o] = "none" THEN "pending" ELSE phase[o]]
        /\ target' \in [Op -> Key \union {All}]
        /\ \A o \in Op : phase[o] # "none" \/ o > m => target'[o] = target[o]

\* An operation starts once every earlier one it conflicts with is done.
Run(o) ==
    /\ phase[o] = "pending"
    /\ \A p \in Op : p < o /\ Conflict(o, p) => phase[p] = "done"
    /\ phase' = [phase EXCEPT ![o] = "running"]
    /\ UNCHANGED target

Finish(o) ==
    /\ phase[o] = "running"
    /\ phase' = [phase EXCEPT ![o] = "done"]
    /\ UNCHANGED target

Next == Accept \/ \E o \in Op : Run(o) \/ Finish(o)

Spec == Init /\ [][Next]_<<target, phase>>

=============================================================================
