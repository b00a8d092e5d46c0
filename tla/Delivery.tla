------------------------------ MODULE Delivery ------------------------------
(***************************************************************************)
(* What a stream to a browser promises, whatever is between its source and *)
(* the page: a terminal (TerminalSession) and an answer of the assistant   *)
(* (ChatStream) implement it.  The pieces of a stream are 1, 2, 3 ... in   *)
(* the order in which the source makes them.  The page has the first ones, *)
(* none twice and none left out; it learns that the stream is whole only   *)
(* when it has all, and then none is made any more.  A stream may break    *)
(* off, which the page learns, or the page may leave.                      *)
(***************************************************************************)
EXTENDS Naturals, Sequences

VARIABLES
  made,   \* number of pieces the source has made
  has,    \* the pieces the page has, in order
  ending  \* "open", "whole", "broken" (the page was told) or "left" (by the page)

deliveryVars == <<made, has, ending>>

FirstPieces(n) == [i \in 1..n |-> i]

Init == made = 0 /\ has = <<>> /\ ending = "open"

Make ==
  /\ ending # "whole"
  /\ made' = made + 1
  /\ UNCHANGED <<has, ending>>

\* The last pieces may come together with the report that the stream is broken.
Deliver ==
  /\ ending = "open"
  /\ \E n \in Len(has)..made : has' = FirstPieces(n)
  /\ ending' \in {"open", "broken"}
  /\ UNCHANGED made

EndWhole ==
  /\ ending = "open" /\ Len(has) = made
  /\ ending' = "whole"
  /\ UNCHANGED <<made, has>>

PageLeaves ==
  /\ ending = "open"
  /\ ending' = "left"
  /\ UNCHANGED <<made, has>>

Next == Make \/ Deliver \/ EndWhole \/ PageLeaves

Spec == Init /\ [][Next]_deliveryVars
=============================================================================
