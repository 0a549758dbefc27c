------------------------------- MODULE NodePool -------------------------------
(***************************************************************************)
(* What an application manager promises the director and the user about    *)
(* virtual machines, whatever its threads do: a machine is given to it     *)
(* once, is on its list until one worker takes it off, and only then, and  *)
(* only once, is it handed back.  A machine can be lost on the way (its    *)
(* worker dies, a call or its answer is lost) and then keeps running; it   *)
(* is never listed again.                                                  *)
(***************************************************************************)
CONSTANT Node   \* the virtual machines the clouds can give

VARIABLES
    given,      \* the machines ever given to the manager
    running,    \* those that have not been handed back
    listed,     \* those on the list of the manager
    leaving     \* those taken off the list, to be handed back

pool == <<given, running, listed, leaving>>

Init == given = {} /\ running = {} /\ listed = {} /\ leaving = {}

\* New machines are started; the manager lists them unless the answer is lost.
Give(S) ==
    /\ S \cap given = {}
    /\ given' = given \cup S
    /\ running' = running \cup S
    /\ listed' = listed \cup S \/ listed' = listed
    /\ UNCHANGED leaving

\* A machine is taken off the list, to be handed back.
TakeOff(n) ==
    /\ n \in listed
    /\ listed' = listed \ {n}
    /\ leaving' = leaving \cup {n}
    /\ UNCHANGED <<given, running>>

\* Machines that have left the list are handed back, together.
Return(S) ==
    /\ S \subseteq leaving
    /\ leaving' = leaving \ S
    /\ running' = running \ S
    /\ UNCHANGED <<given, listed>>

\* Machines are lost from sight: those that were leaving, listed ones too.
Lose(S) ==
    /\ listed' = listed \ S
    /\ leaving' = leaving \ S
    /\ UNCHANGED <<given, running>>

Next ==
    \/ \E S \in SUBSET Node : Give(S) \/ Return(S) \/ Lose(S)
    \/ \E n \in Node : TakeOff(n)

Spec == Init /\ [][Next]_pool

\* What is listed or leaving runs and was given, and nothing is both: so a
\* machine that was handed back is never listed nor handed back again.
Sound ==
    /\ running \subseteq given
    /\ listed \subseteq running /\ leaving \subseteq running
    /\ listed \cap leaving = {}
=============================================================================
