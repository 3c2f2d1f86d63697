---------------------------- MODULE TorznabRequest ----------------------------
(***************************************************************************)
(* How a request becomes a search of an index: the torznab handler         *)
(* (server/torznab.go) reads a query from the parameters of the url and    *)
(* completes it from the databases of shows and films                      *)
(* (torrent/enriching.go); a text typed by a user is read for patterns.    *)
(* For the query the index chooses its own categories and fills in the     *)
(* inputs of its search form (indexer/runner.go, searchTemplate.go).       *)
(* Parameters and inputs are maps of Go: they are read one by one, in      *)
(* whatever order.                                                         *)
(***************************************************************************)
EXTENDS SearchQuery, Categories

CONSTANTS
    Requests,      \* what is asked: parameters of a url, or a text
    Definitions,   \* definitions of indexes: categories and search inputs
    ApiKey         \* the key of the server

VARIABLES
    definition,    \* of the index that is asked
    asking,        \* what is asked of it
    at,            \* where the request is
    unread,        \* the parameters, then the inputs, that are left to read
    query,         \* the query read so far
    asked,         \* the query as it was read
    localCats,     \* the index's categories to search in
    values         \* the values sent to the index's search

queryVars == <<definition, asking, at, unread, query, asked, localCats, values>>

Param(k) == IF k \in DOMAIN asking.params THEN asking.params[k][1] ELSE <<>>

SearchTypes == { <<t>> : t \in {"search", "tvsearch", "tv-search", "movie",
                                "movie-search", "moviesearch"} }

QueryInit ==
    /\ definition \in Definitions
    /\ asking \in Requests
    /\ at = "route"
    /\ unread = {}
    /\ query = NewQuery
    /\ asked = NewQuery
    /\ localCats = {}
    /\ values = <<>>

Go(place) == at' = place

-------------------------------------------------------------------------------
(* The handler. *)

Route ==
    /\ at = "route" /\ asking.kind = "url"
    /\ LET t == Param("t") IN
       CASE t = <<>> -> Go("redirected") /\ UNCHANGED <<unread, query>>
         [] t = <<"caps">> ->
              /\ Go(IF MarshalPanics(Capabilities(definition.map)) THEN "panic" ELSE "capabilities")
              /\ UNCHANGED <<unread, query>>
         [] t \notin {<<>>, <<"caps">>} /\ (Param("apikey") # ApiKey \/ t \notin SearchTypes) ->
              Go("error") /\ UNCHANGED <<unread, query>>
         [] OTHER -> /\ Go("parse")
                     /\ unread' = DOMAIN asking.params
                     /\ query' = getDefaultQuery
    /\ UNCHANGED <<definition, asking, asked, localCats, values>>

ReadParam(k) ==
    /\ at = "parse" /\ k \in unread
    /\ LET parsed == ParseParam(query, k, asking.params[k]) IN
       /\ query' = parsed.query
       /\ Go(IF parsed.how = "ok" THEN "parse" ELSE "error")
    /\ unread' = unread \ {k}
    /\ UNCHANGED <<definition, asking, asked, localCats, values>>

AllRead ==
    /\ at = "parse" /\ unread = {}
    /\ Go("enrich")
    /\ asked' = query
    /\ UNCHANGED <<definition, asking, unread, query, localCats, values>>

(* SearchWithKeywords, and the range fields of a new iterator. *)
ReadText ==
    /\ at = "route" /\ asking.kind = "text"
    /\ LET made == NewQueryFromQueryString(asking.text)
           fields == made.query.fields
       IN  /\ query' = made.query
           /\ asked' = made.query
           /\ Go(IF made.how = "ok" /\ \A f \in DOMAIN fields : Len(fields[f]) >= 2
                 THEN "match" ELSE "panic")
    /\ UNCHANGED <<definition, asking, unread, localCats, values>>

(* The first identifier that is given is looked up, in this order; `found` *)
(* is what the database has: the name, none, or an error.                  *)
Zero == <<"0">>

Enrich(found) ==
    /\ at = "enrich"
    /\ LET byTVDB == query.tvdbID \notin {<<>>, Zero}
           byTVMaze == ~byTVDB /\ query.tvMazeID # <<>>
           byTVRage == ~byTVDB /\ ~byTVMaze /\ query.tvRageID # <<>>
           byShow == byTVDB \/ byTVMaze \/ byTVRage
           byIMDB == ~byShow /\ query.imdbID # <<>>
           named == [query EXCEPT !.tvdbID = IF byTVDB THEN Zero ELSE @,
                                  !.tvMazeID = IF byTVMaze THEN Zero ELSE @,
                                  !.tvRageID = IF byTVRage THEN <<>> ELSE @,
                                  !.imdbID = IF byIMDB THEN <<>> ELSE @]
       IN  /\ byShow \/ byIMDB \/ found = "name"
           /\ query' = [named EXCEPT !.series = IF byShow /\ found = "name" THEN <<"show">> ELSE @,
                                     !.movie = IF byIMDB /\ found = "name" THEN <<"film">> ELSE @,
                                     !.year = IF byIMDB /\ found = "name" THEN <<"1984">> ELSE @]
           /\ Go(IF found = "error" \/ (byIMDB /\ found = "none") THEN "error" ELSE "match")
    /\ UNCHANGED <<definition, asking, unread, asked, localCats, values>>

-------------------------------------------------------------------------------
(* The index. *)

MatchCategories ==
    /\ at = "match"
    /\ localCats' = GetLocalCategoriesMatchingQuery(definition.map, ToSet(query.categories))
    /\ unread' = DOMAIN definition.inputs
    /\ Go("fill")
    /\ UNCHANGED <<definition, asking, query, asked, values>>

FieldValue(name) == query.fields[<<name>>][1]

HasQueryField(name) == <<name>> \in DOMAIN query.fields

(* What an input is filled in with: a field of the query of that name, at  *)
(* its first value, goes before the template of the definition.            *)
InputText(name) ==
    LET template == definition.inputs[name]
    IN  CASE HasQueryField(name) -> FieldValue(name)
          [] ~HasQueryField(name) /\ template.kind = "keywords" -> Keywords(query)
          [] ~HasQueryField(name) /\ template.kind = "field" ->
               IF HasQueryField(template.name) THEN FieldValue(template.name) ELSE NilText
          [] OTHER -> <<template.name>>

(* The pairs the input $raw stands for; it is a text of pairs, here always *)
(* the one most definitions have, a pair for each category.                *)
RawValues == [cat |-> SetToSeq({<<l>> : l \in localCats})]

ValuesOf(sent, name) == IF name \in DOMAIN sent THEN sent[name] ELSE <<>>

AddValues(sent, name, texts) ==
    IF texts = <<>> THEN sent ELSE name :> (ValuesOf(sent, name) \o texts) @@ sent

FillInput(name) ==
    /\ at = "fill" /\ name \in unread
    /\ CASE definition.inputs[name].kind = "bad" -> Go("error") /\ UNCHANGED values
         [] name = "raw" /\ definition.inputs[name].kind # "bad" ->
              Go("fill") /\ values' = AddValues(values, "cat", RawValues.cat)
         [] OTHER -> Go("fill") /\ values' = AddValues(values, name, <<InputText(name)>>)
    /\ unread' = unread \ {name}
    /\ UNCHANGED <<definition, asking, query, asked, localCats>>

Send ==
    /\ at = "fill" /\ unread = {}
    /\ Go("sent")
    /\ UNCHANGED <<definition, asking, unread, query, asked, localCats, values>>

QueryNext ==
    \/ Route \/ ReadText \/ AllRead \/ MatchCategories \/ Send
    \/ \E k \in unread : ReadParam(k) \/ FillInput(k)
    \/ \E found \in {"name", "none", "error"} : Enrich(found)

QuerySpec == QueryInit /\ [][QueryNext]_queryVars
-------------------------------------------------------------------------------
(* Whatever the order in which the map of the parameters is walked, none   *)
(* of them spoils what another one said (NewQueryFromUrl).                 *)
ReadsAsAsked ==
    asking.kind = "url" /\ at \in {"match", "fill", "sent"} =>
      LET alone == [k \in DOMAIN asking.params |->
                      ParseParam(getDefaultQuery, k, asking.params[k]).query]
      IN  \A f \in DOMAIN asked :
            /\ \A k \in DOMAIN alone : alone[k][f] # getDefaultQuery[f] => asked[f] = alone[k][f]
            /\ \/ asked[f] = getDefaultQuery[f]
               \/ \E k \in DOMAIN alone : asked[f] = alone[k][f]

(* A key tells everything the cached answer depends on but the number of   *)
(* pages: read as a url again it gives the query back, so that two         *)
(* requests share an answer only when they ask for the same (UniqueKey).   *)
ReadBack(key) ==
    FoldLeft(LAMBDA q, k : ParseParam(q, k, key[k]).query, getDefaultQuery,
             SetToSeq(DOMAIN key))

KeyReadsBack ==
    asking.kind = "url" /\ at \in {"match", "fill", "sent"} =>
      ReadBack(UniqueKey(query)) =
        [query EXCEPT !.pages = 0, !.limit = IF @ = 0 THEN getDefaultQuery.limit ELSE @]

(* An index's category that is mapped to one asked for is searched, and    *)
(* one that is searched has something to do with what was asked for: it is *)
(* mapped to the same, or one of the two is below the other.               *)
CategoriesFollowTheRequest ==
    at \in {"fill", "sent"} =>
      LET map == definition.map
          cats == ToSet(query.categories) \cap AllCategories
      IN  /\ {l \in DOMAIN map : map[l] \in cats} \subseteq localCats
          /\ \A l \in localCats : \E cat \in cats :
                \/ map[l] = cat
                \/ /\ \A other \in DOMAIN map : map[other] # cat
                   /\ ParentCategory(map[l]) = cat \/ map[l] = ParentCategory(cat)

(* An index that offers a search for shows or for films has categories to  *)
(* search in when all shows or all films are asked for (ToTorznab against  *)
(* GetLocalCategoriesMatchingQuery).                                       *)
OfferedModesAreSearched ==
    LET Searched(cat) == GetLocalCategoriesMatchingQuery(definition.map, {cat}) # {}
        caps == Capabilities(definition.map)
    IN  /\ HasSearchMode(caps, "tv-search") => Searched(5000)
        /\ HasSearchMode(caps, "movie-search") => Searched(2000)
===============================================================================
