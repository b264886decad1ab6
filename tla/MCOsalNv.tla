------------------------------ MODULE MCOsalNv ------------------------------
(* OsalNv with item sizes and erase failures for model checking.            *)
EXTENDS OsalNv, TLC

Symmetry == Permutations(Values)

\* All items are as long as one unit,
Even == [id \in Ids |-> 1]

\* or the hot one is longer, so that a page may end in unused space.
Uneven == [id \in Ids |-> IF id \in HotIds THEN 2 ELSE 1]

Erases == [active : BOOLEAN, xfer : BOOLEAN, items : {"kept", "damaged", "gone"}]

\* The interrupted erases initNV is written for: the items are gone only when the
\* first header word is.
ForeseenErases == {r \in Erases : r.active => r.items # "gone"}

\* Any order in which the words of a page may be erased.
AllErases == Erases
=============================================================================
