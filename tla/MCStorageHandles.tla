--------------------------- MODULE MCStorageHandles ---------------------------
(***************************************************************************)
(* The server searches the index it looked up as "a", whose title is the   *)
(* same; the index looked up as "b" is titled "B", and a command searches  *)
(* that one. A local id is a sequence of bytes, and one is the start of    *)
(* others; an item without one has the empty sequence.                     *)
(***************************************************************************)
EXTENDS StorageHandles

CONSTANTS s1, s2, r1, c1

LocalIDs == {<<1>>, <<1, 3>>, <<2>>}
NoLocalID == <<>>
Facades == [p \in Process |-> IF p = c1 THEN "B" ELSE "a"]
===============================================================================
