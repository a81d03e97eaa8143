----------------------------- MODULE MCHkShell -----------------------------
(* Lines of hk define and filters of hk stored, in the shapes that the two  *)
(* ways of reading them tell apart.                                         *)
EXTENDS HkShell

Entry(parts) == [parts |-> parts, size |-> 2 * Len(parts) - 1, quoted |-> FALSE]
Padded(size) == [parts |-> <<2, 1>>, size |-> size, quoted |-> FALSE]
Class(n) == [class |-> n, size |-> 7, quoted |-> FALSE]
Junk == [size |-> 3, quoted |-> FALSE]
Quoted(w) == [w EXCEPT !.quoted = TRUE]

MCLines ==
    {<<Entry(<<2, 1>>)>>,
     <<Class(3), Entry(<<1, 1>>), Entry(<<2, 1, 0>>)>>,
     <<Entry(<<2, 1>>), Quoted(Entry(<<1, 0>>))>>,
     <<Entry(<<2, 1>>), Entry(<<2, 0>>), Entry(<<1, 0>>)>>,
     <<Class(8), Entry(<<2, 1>>)>>,
     <<Class(3)>>, <<Entry(<<2, 1>>), Class(3)>>,
     <<Entry(<<3, 0>>)>>, <<Entry(<<1, 2>>)>>, <<Entry(<<4, 1, 0>>)>>,
     <<Entry(<<1>>), Entry(<<2, 1>>)>>, <<Entry(<<1>>), Class(3), Quoted(Entry(<<1, 0>>))>>,
     <<Entry(<<2, 1>>), Entry(<<1>>)>>, <<Junk>>,
     <<Padded(8)>>, <<Class(3), Padded(7), Padded(7)>>}

Bound(n, v) == [name |-> n, value |-> v]

MCFilters ==
    {<<>>, <<Bound("to", 2)>>, <<Bound("from", 3), Bound("from", WORD + 2)>>, <<Bound("from", WORD)>>,
     <<Bound("from", 3), Bound("skip", 1)>>, <<Bound("skip", BYTE)>>,
     <<Bound("since", 2), Bound("until", 3)>>, <<Bound("from", 1), Bound("unknown", 1)>>}
=============================================================================
