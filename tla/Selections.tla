----------------------------- MODULE Selections -----------------------------
(***************************************************************************)
(* Two things several models select: the elements of a sequence that are   *)
(* in a set, and a number that no element of a set has.  Only is what      *)
(* SelectSeq selects, as a recursive function, so that SelectionsProofs    *)
(* can say what it keeps.                                                  *)
(***************************************************************************)
EXTENDS Naturals, Sequences, FiniteSets

Only(q, S) ==
    LET kept[i \in 0..Len(q)] ==
            IF i = 0 THEN <<>>
            ELSE IF q[i] \in S THEN Append(kept[i - 1], q[i]) ELSE kept[i - 1]
    IN kept[Len(q)]

\* What tells an element from the others of the set, where they may be alike.
FreshNumber(rs) == CHOOSE n \in 0..Cardinality(rs) : \A r \in rs : r.n # n

=============================================================================
