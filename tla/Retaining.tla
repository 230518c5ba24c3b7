------------------------------ MODULE Retaining ------------------------------
(***************************************************************************)
(* Vec::retain, by position, as a recursive function: the provers have no   *)
(* definition of SelectSeq.                                                 *)
(***************************************************************************)
EXTENDS Naturals, Sequences

\* The elements of s at the positions in kept, in their order.
Retained(s, kept) ==
  LET upTo[i \in 0..Len(s)] ==
        IF i = 0 THEN <<>>
        ELSE IF i \in kept THEN Append(upTo[i - 1], s[i]) ELSE upTo[i - 1]
  IN upTo[Len(s)]
=============================================================================
