---------------------------- MODULE MCParamShell ----------------------------
(* States of a filesystem: not there, not mounted, part full, and one that *)
(* reports more free space than it has.                                     *)
EXTENDS ParamShell

PartFull == [ok |-> TRUE, ready |-> TRUE, total |-> 8, free |-> 3]

Filesystems ==
    {[ok |-> FALSE, ready |-> FALSE, total |-> 0, free |-> 0],
     [ok |-> TRUE, ready |-> FALSE, total |-> 0, free |-> 0],
     PartFull,
     [ok |-> TRUE, ready |-> TRUE, total |-> 8, free |-> 9]}
=============================================================================
