------------------------------- MODULE MCRunner -------------------------------
(***************************************************************************)
(* Index definitions for TLC: every way to log in, with and without a      *)
(* test, and every way a definition or its configuration can be wrong.     *)
(***************************************************************************)
EXTENDS Runner, TLC

NoLogin ==
    [path |-> FALSE, method |-> "", password |-> TRUE, init |-> FALSE, error |-> "none",
     test |-> [path |-> FALSE, selector |-> FALSE]]
LoginBy(how) == [NoLogin EXCEPT !.path = TRUE, !.method = how]

(* Two links, no login, their root is searched. *)
Plain ==
    [links |-> <<"a", "b">>, configured |-> "none", login |-> NoLogin, template |-> TRUE,
     searchPath |-> "", method |-> "get", selector |-> TRUE, json |-> FALSE, rows |-> TRUE,
     ratio |-> "text", optimistic |-> FALSE]

Short == [Plain EXCEPT !.links = <<"a">>]

(* Its one link does not change, when only "a" does. *)
Steady == [Plain EXCEPT !.links = <<"b">>]

(* A search page of its own may send the browser on. *)
Refreshing == [Short EXCEPT !.searchPath = "search"]

Working ==
    {Plain, Refreshing,
     [Short EXCEPT !.login = [LoginBy("form") EXCEPT !.test.selector = TRUE]],
     [Steady EXCEPT !.login = [LoginBy("post") EXCEPT !.init = TRUE, !.error = "selector",
                                                      !.test.selector = TRUE]],
     [Steady EXCEPT !.login = LoginBy("form"), !.method = "post"],
     [Plain EXCEPT !.configured = "a", !.searchPath = "search", !.json = TRUE, !.method = "post"],
     [Short EXCEPT !.optimistic = TRUE]}

Broken ==
    {[Steady EXCEPT !.login = [LoginBy("cookie") EXCEPT !.test.selector = TRUE], !.ratio = "page"],
     [Steady EXCEPT !.login = [LoginBy("post") EXCEPT !.test.path = TRUE]],
     [Steady EXCEPT !.login = [LoginBy("post") EXCEPT !.error = "path"]],
     [Steady EXCEPT !.login = [LoginBy("post") EXCEPT !.password = FALSE]],
     [Steady EXCEPT !.login = LoginBy("digest")],
     [Steady EXCEPT !.configured = "bad"],
     [Steady EXCEPT !.links = <<"bad", "b">>],
     [Steady EXCEPT !.template = FALSE, !.ratio = "page"],
     [Steady EXCEPT !.method = "POST"],
     [Steady EXCEPT !.selector = FALSE],
     [Steady EXCEPT !.searchPath = "search", !.json = TRUE, !.rows = FALSE]}

AllDefinitions == Working \cup Broken

CallerSymmetry == Permutations(Callers)
===============================================================================
