-------------------------- MODULE OneShotAuthority --------------------------
(***************************************************************************)
(* What the intent store promises to the ceremonies, without deadlines,    *)
(* tokens, claims or a bound: an authority is asked for, may be approved,  *)
(* and if so may be used once.  It may be closed at any time before, alone *)
(* or together with others, and what is closed stays closed.               *)
(***************************************************************************)
EXTENDS Integers

CONSTANT Ids

VARIABLES status,   \* authority -> where it is in its life
          uses      \* authority -> how often it was used

Open == {"asked", "approved"}

Init == /\ status = [i \in Ids |-> "unasked"]
        /\ uses = [i \in Ids |-> 0]

\* Another authority is left alone or closed.
KeptOrClosed(i) == \/ status'[i] = status[i]
                   \/ status[i] \in Open /\ status'[i] = "closed"

Moves(i, from, to) == /\ status[i] = from /\ status'[i] = to
                      /\ \A j \in Ids \ {i} : KeptOrClosed(j)

Ask(i) == Moves(i, "unasked", "asked") /\ UNCHANGED uses
Approve(i) == Moves(i, "asked", "approved") /\ UNCHANGED uses
Use(i) == /\ Moves(i, "approved", "closed")
          /\ uses' = [uses EXCEPT ![i] = @ + 1]
Close == (\A i \in Ids : KeptOrClosed(i)) /\ UNCHANGED uses

Next == Close \/ \E i \in Ids : Ask(i) \/ Approve(i) \/ Use(i)

Spec == Init /\ [][Next]_<<status, uses>>
=============================================================================
