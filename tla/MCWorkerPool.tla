----------------------------- MODULE MCWorkerPool -----------------------------
(***************************************************************************)
(* Values of WorkerPool's constants for TLC: a query without range fields, *)
(* and one with `$phone:range(8, 12)` and a shorter second field.          *)
(***************************************************************************)
EXTENDS WorkerPool

NoRanges == [f \in {} |-> <<NoValue, NoValue>>]

PhoneAndZipRanges ==
    [f \in {"phone", "zip"} |->
        IF f = "phone" THEN <<Text(8, 1), Text(12, 2)>> ELSE <<Text(1, 2), Text(2, 2)>>]
===============================================================================
