-------------------------- MODULE RemoteOperation --------------------------
(***************************************************************************)
(* What a ticketed command promises to whoever typed it, whatever the link *)
(* and the node do: it takes effect at most once; a yes means that it did, *)
(* a no means that it did not and never will; no answer says nothing.      *)
(***************************************************************************)
EXTENDS Naturals

CONSTANT Ops

VARIABLES
    applied,      \* how often each operation took effect
    answer        \* what its caller was told

vars == <<applied, answer>>

Init ==
    /\ applied = [o \in Ops |-> 0]
    /\ answer = [o \in Ops |-> "none"]

Apply(o) ==
    /\ applied[o] = 0
    /\ answer[o] \in {"none", "unknown"}
    /\ applied' = [applied EXCEPT ![o] = 1]
    /\ UNCHANGED answer

Answer(o, a) ==
    /\ answer[o] = "none"
    /\ a = "yes" => applied[o] = 1
    /\ a = "no" => applied[o] = 0
    /\ answer' = [answer EXCEPT ![o] = a]
    /\ UNCHANGED applied

Next == \E o \in Ops : Apply(o) \/ \E a \in {"yes", "no", "unknown"} : Answer(o, a)

Spec == Init /\ [][Next]_vars
=============================================================================
