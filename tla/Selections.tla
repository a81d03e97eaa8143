---------------------------- MODULE Selections ----------------------------
(***************************************************************************)
(* What a loop keeps that walks over a list and passes by what it does not *)
(* want, as collect_table_names() and the filter of hk stored do.  It is   *)
(* SelectSeq with a set for the test, written out as a recursive function  *)
(* because the provers cannot unfold the one of the standard module.       *)
(***************************************************************************)
EXTENDS Integers, Sequences

\* The elements of s that are in T, in their order.
Kept(s, T) ==
    LET upTo[i \in 0..Len(s)] ==
            IF i = 0 THEN <<>>
            ELSE IF s[i] \in T THEN Append(upTo[i - 1], s[i]) ELSE upTo[i - 1] IN
    upTo[Len(s)]
=============================================================================
