------------------------------- MODULE MCSaga -------------------------------
(* Sagas for checking Saga with TLC: one without regions, and two with a      *)
(* region of two branches.                                                    *)
EXTENDS Saga, TLC

CONSTANTS t1, t2, t3, root, left, right

\* t1; t2, whose business error leads to the cancel end.
SingleTokens == {root}
SingleParent == [t \in SingleTokens |-> None]
SingleBranches == [t \in SingleTokens |-> <<>>]
SingleBefore == [t \in SingleTokens |-> <<t1, t2>>]
SingleAfter == [t \in SingleTokens |-> <<>>]

\* t1; a region with t2 in one branch and t3 in the other.
RegionTokens == {root, left, right}
RegionParent == [t \in RegionTokens |-> IF t = root THEN None ELSE root]
RegionBranches == [t \in RegionTokens |-> IF t = root THEN <<left, right>> ELSE <<>>]
RegionBefore == [t \in RegionTokens |->
                  IF t = root THEN <<t1>> ELSE IF t = left THEN <<t2>> ELSE <<t3>>]
RegionAfter == [t \in RegionTokens |-> <<>>]

\* A region with t1 and then t2 in one branch, t3 in the other.
ChainBefore == [t \in RegionTokens |->
                 IF t = root THEN <<>> ELSE IF t = left THEN <<t1, t2>> ELSE <<t3>>]

Two == {t1, t2}
Three == {t1, t2, t3}
=============================================================================
