------------------------------ MODULE MCFetchBatch ------------------------------
EXTENDS FetchBatch, TLC

CONSTANTS r1, r2, r3, r4, p1, p2, a, b

\* Two rows of one priority and one above them; the fourth is of another name.
Priorities == [r \in Rows |-> IF r = r3 THEN 1 ELSE 0]
RowNames == [r \in Rows |-> IF r = r4 THEN b ELSE a]

\* A poll loop for each name, or one that takes one name and another that takes all.
EachItsName == p1 :> {a} @@ p2 :> {b}
TwoPollers == p1 :> {a} @@ p2 :> {}
=============================================================================
