----------------------------- MODULE MCExplorer -----------------------------
(* A file at the top and one in the directory; a long text, a short one, an    *)
(* empty one and a binary file.                                               *)
EXTENDS Explorer

CONSTANTS top, inside, short, long, blank, binary

Lengths == [c \in {short, long, blank, binary} |->
              CASE c = short -> 1 [] c = long -> 5 [] c \in {blank, binary} -> 0]
BothLong == {[f \in {top, inside} |-> long]}
=============================================================================
