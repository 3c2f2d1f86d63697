---------------------------- MODULE MCCachedAnswers ----------------------------
(***************************************************************************)
(* The handlers of each kind are interchangeable.                          *)
(***************************************************************************)
EXTENDS CachedAnswers

HandlerSymmetry == Permutations(StatusHandler) \cup Permutations(SearchHandler)
===============================================================================
