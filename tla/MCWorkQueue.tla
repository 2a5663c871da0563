---------------------------- MODULE MCWorkQueue ----------------------------
(* Instantiation of WorkQueue for TLC: two ranks, two queue objects (the    *)
(* second only comes to exist by a move construction).                      *)
EXTENDS WorkQueue

MCRanks == {"r1", "r2"}
MCObjs == {"a", "b"}

\* std::less over the items' values.  Item i carries the value ItemValue[i],
\* chosen so that value order is neither creation order nor its reverse:
\* the priority policy then drains in an order fifo and lifo never produce.
ItemValue == <<2, 3, 1>>
CompLess(x, y) == ItemValue[x] < ItemValue[y]
=============================================================================
