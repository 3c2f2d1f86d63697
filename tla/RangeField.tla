------------------------------ MODULE RangeField ------------------------------
(***************************************************************************)
(* A range field of a query, `$phone:range(0001, 0010)`: the strings       *)
(* between two bounds, produced one after the other                        *)
(* (indexer/search/rangeFieldState.go).                                    *)
(*                                                                         *)
(* A value is the text of a decimal number: its number and the number of   *)
(* characters it is printed with, so that "1", "01" and "001" differ, as   *)
(* they do where the code compares strings.                                *)
(***************************************************************************)
EXTENDS Integers

RangeValue == [num : Nat, width : Nat]

(* The empty string, the current value of a field nothing was pulled from. *)
NoValue == [num |-> 0, width |-> 0]

(* The text of num, left padded with zeros to the given width. *)
Text(num, width) == [num |-> num, width |-> width]

RangeState == [start : RangeValue, end : RangeValue, current : RangeValue]

NewRangeFieldState(lo, hi) == [start |-> lo, end |-> hi, current |-> NoValue]

GetCurrent(r) == IF r.current = NoValue THEN r.start ELSE r.current

HasNext(r) == r.current # r.end

(* Atoi, num++, Sprintf("%0<width>d"): the width grows when the number no  *)
(* longer fits it.                                                         *)
Successor(v) ==
    Text(v.num + 1, IF v.num + 1 < 10 ^ v.width THEN v.width ELSE v.width + 1)

Increment(r) ==
    IF HasNext(r) THEN [r EXCEPT !.current = Successor(GetCurrent(r))] ELSE r

(* The method Next of the field itself, which the search iterator does not *)
(* use: it sets and returns the current value.                             *)
RangeNext(r) ==
    IF r.current = NoValue THEN [r EXCEPT !.current = r.start] ELSE Increment(r)
===============================================================================
