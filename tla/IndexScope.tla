------------------------------ MODULE IndexScope ------------------------------
(***************************************************************************)
(* The scope of loaded indexes (indexer/indexesCollection.go): a map from  *)
(* the text an index was asked for with to the runners it selects. Every   *)
(* goroutine that serves a request looks its indexes up here; the map has  *)
(* no lock. An aggregate is looked up index by index, through the same     *)
(* map. The texts are those of indexer/indexSelection.go: the sequence of  *)
(* what stands between commas, so that no text at all is <<"">>.           *)
(***************************************************************************)
EXTENDS Definitions

CONSTANTS
    Process,     \* the goroutines that look indexes up
    Padded,      \* the names written with spaces around them
    Configured   \* the names that have settings

VARIABLES
    indexes,  \* the map: of each text looked up, its runners
    made,     \* of each name, the runners made for it
    lookup,   \* of each goroutine, its calls of Lookup, innermost last
    found,    \* of each goroutine, what its last lookup returned
    up        \* the program runs

scopeVars == <<indexes, made, lookup, found, up, directories>>

NotFound == [ok |-> FALSE, runners |-> <<>>]
Found(runners) == [ok |-> TRUE, runners |-> runners]

ScopeInit ==
    /\ indexes = <<>>
    /\ made = [n \in Range(Names) |-> <<>>]
    /\ lookup = [p \in Process |-> <<>>]
    /\ found = [p \in Process |-> NotFound]
    /\ up = TRUE
    /\ directories \in FileSystems

-------------------------------------------------------------------------------
Globals == {<<"">>, <<"aggregate">>, <<"all">>}

isAggregate(key) == key \in Globals \/ Len(key) > 1

(* No definition is called by a word that selects an aggregate. *)
ASSUME ScopeAssumption == \A name \in Range(Names) : <<name>> \notin Globals

TrimSpace(part) == IF part \in DOMAIN Padded THEN Padded[part] ELSE part

(* Selector.Matches: "aggregate" is an aggregate that nothing belongs to. *)
Matches(key, name) ==
    \/ key \in {<<"">>, <<"all">>}
    \/ key # <<"aggregate">> /\ \E i \in DOMAIN key : TrimSpace(key[i]) = name

(* Mutant: only an index with settings passes. *)
ConfiguredOnly(name) == IF name \in Configured THEN "settings" ELSE "nil"

(* Settings are never nil, only empty: every index passes for configured. *)
GetSite(name) == IF name \in Configured THEN "settings" ELSE "empty"

KeysToLoad(key) ==
    ListAvailableIndexes({name \in Range(Names) : Matches(key, name) /\ GetSite(name) # "nil"})

-------------------------------------------------------------------------------
LookupFrame(key) == [key |-> key, at |-> "check", todo |-> <<>>, runners |-> <<>>]

Looking(p) == lookup[p] # <<>>
Top(p) == Last(lookup[p])
LookingAt(p, place) == up /\ Looking(p) /\ Top(p).at = place

Continue(p, frame) == lookup' = [lookup EXCEPT ![p] = Append(Front(@), frame)]

(* Mutant: an aggregate goes on without an index that cannot be loaded. *)
ReturnsWhatItCan(p, result) ==
    LET callers == Front(lookup[p]) IN
    IF callers # <<>>
    THEN /\ lookup' = [lookup EXCEPT ![p] =
                Append(Front(callers), [Last(callers) EXCEPT !.todo = Tail(@),
                                                             !.runners = @ \o result.runners])]
         /\ UNCHANGED found
    ELSE /\ lookup' = [lookup EXCEPT ![p] = <<>>]
         /\ found' = [found EXCEPT ![p] = result]

(* The caller's caller goes on with what was found, or returns the error. *)
Returns(p, result) ==
    LET callers == Front(lookup[p]) IN
    IF result.ok /\ callers # <<>>
    THEN /\ lookup' = [lookup EXCEPT ![p] =
                Append(Front(callers), [Last(callers) EXCEPT !.todo = Tail(@),
                                                             !.runners = @ \o result.runners])]
         /\ UNCHANGED found
    ELSE /\ lookup' = [lookup EXCEPT ![p] = <<>>]
         /\ found' = [found EXCEPT ![p] = result]

(* Lookup: the map is read first. *)
CheckScope(p) ==
    /\ LookingAt(p, "check")
    /\ LET key == Top(p).key IN
       Continue(p, IF key \in DOMAIN indexes THEN [Top(p) EXCEPT !.at = "read"]
                   ELSE IF isAggregate(key)
                   THEN [Top(p) EXCEPT !.at = "all", !.todo = KeysToLoad(key)]
                   ELSE [Top(p) EXCEPT !.at = "create"])
    /\ UNCHANGED <<indexes, made, found, up>>

NewRunner(name, definition) ==
    [title |-> definition.title, from |-> definition.from, errors |-> FALSE, failing |-> FALSE]

(* NewIndexRunnerByNameOrSelector: the definition is loaded and a runner   *)
(* made for it, while other goroutines go on.                              *)
CreateRunner(p) ==
    /\ LookingAt(p, "create")
    /\ LET name == Top(p).key[1]
           definition == Load(name)
       IN  IF definition = <<>>
           THEN Returns(p, NotFound) /\ UNCHANGED made
           ELSE /\ made' = [made EXCEPT ![name] = Append(@, NewRunner(name, definition[1]))]
                /\ Continue(p, [Top(p) EXCEPT !.at = "store",
                                    !.runners = <<[name |-> name, n |-> Len(made[name]) + 1]>>])
                /\ UNCHANGED found
    /\ UNCHANGED <<indexes, up>>

(* LookupAll: every name through Lookup; the first error is the result. *)
LookupAll(p) ==
    /\ LookingAt(p, "all")
    /\ IF Top(p).todo = <<>>
       THEN Continue(p, [Top(p) EXCEPT !.at = "store"])
       ELSE lookup' = [lookup EXCEPT ![p] = Append(@, LookupFrame(<<Top(p).todo[1]>>))]
    /\ UNCHANGED <<indexes, made, found, up>>

StoreInScope(p) ==
    /\ LookingAt(p, "store")
    /\ indexes' = [key \in DOMAIN indexes \cup {Top(p).key} |->
                     IF key = Top(p).key THEN Top(p).runners ELSE indexes[key]]
    /\ Continue(p, [Top(p) EXCEPT !.at = "read"])
    /\ UNCHANGED <<made, found, up>>

(* What is returned is read from the map again. *)
ReadScope(p) ==
    /\ LookingAt(p, "read")
    /\ Returns(p, Found(indexes[Top(p).key]))
    /\ UNCHANGED <<indexes, made, up>>

LookupStep(p) ==
    /\ CheckScope(p) \/ CreateRunner(p) \/ LookupAll(p) \/ StoreInScope(p) \/ ReadScope(p)
    /\ UNCHANGED directories

(* A map that is written while another goroutine reads or writes it: the   *)
(* runtime stops the program when it notices.                              *)
MapsCollide ==
    \E p, q \in Process :
        /\ p # q /\ LookingAt(p, "store")
        /\ \E place \in {"check", "store", "read"} : LookingAt(q, place)

-------------------------------------------------------------------------------
RunnerOf(r) == made[r.name][r.n]

(* IndexCollection.Errors *)
HasErrors(runners) == \E i \in DOMAIN runners : RunnerOf(runners[i]).errors

(* ResolveIndexID goes over the map in any order: the first aggregate is   *)
(* taken, or else the first text that is an aggregate or without errors.   *)
(* Its own text "" counts as none found yet.                               *)
ResolveIndexID(id) ==
    LET aggregates == {k \in DOMAIN indexes : Len(indexes[k]) > 1}
        working == {k \in DOMAIN indexes : ~HasErrors(indexes[k])} \ {<<"">>}
    IN  IF id \notin Globals THEN {id}
        ELSE IF aggregates # {} THEN aggregates
        ELSE IF id # <<"">> THEN {id}
        ELSE IF working # {} THEN working ELSE {<<"">>}
===============================================================================
