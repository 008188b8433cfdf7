------------------------------ MODULE MCListing ------------------------------
(* Values for the constants of Listing. *)
EXTENDS Listing

\* With a width of 4 bits (Half = 8), 2 * 4 and 3 * 4 wrap to a negative
\* offset, and 4 * 4 wraps to 0.
SomeSizes == {-1, 0, 1, 2, 4}
SomeNums == {-1, 0, 1, 2, 3, 4, 5}
=============================================================================
