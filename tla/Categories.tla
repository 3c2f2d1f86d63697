------------------------------ MODULE Categories ------------------------------
(***************************************************************************)
(* The categories of the Newznab specification                             *)
(* (indexer/categories/category.go), the map from an index's own           *)
(* categories to them (indexer/categoryMap.go) and what an index answers   *)
(* when it is asked for its capabilities (torznab/capabilities.go). A      *)
(* category is its number; a map of Go has no order, so what the code      *)
(* collects from one is a set here.                                        *)
(***************************************************************************)
EXTENDS Integers, FiniteSets

AllCategories ==
    {-1, -2, 0, 10, 20}
      \cup {1000, 1010, 1020, 1030, 1040, 1050, 1060, 1070, 1080, 1999, 1110, 1120, 1130, 1140, 1180}
      \cup {2000, 2010, 2020, 2030, 2040, 2045, 2050, 2060, 2070, 2080, 2090}
      \cup {3000, 3010, 3020, 3030, 3040, 3999, 3060}
      \cup {4000, 4010, 4020, 4030, 4040, 4050, 4060, 4070}
      \cup {5000, 5010, 5020, 5025, 5030, 5040, 5045, 5999, 5060, 5070, 5080}
      \cup {6000, 6010, 6020, 6030, 6040, 6999, 6060, 6070}
      \cup {7000, 7010, 7020, 7030, 7040, 7999, 7060}

Other == 0

ParentCategory(cat) == IF cat < 1000 \/ cat >= 8000 THEN Other ELSE 1000 * (cat \div 1000)

(* Subset picks from all categories, whatever the receiver. *)
Subset(ids) == AllCategories \cap ids

-------------------------------------------------------------------------------
(* A category map gives each of the index's own categories a category.     *)

MapOf(names) ==
    [local \in {l \in DOMAIN names : names[l] \in AllCategories} |-> names[local]]

(* Mutant: a category that is mapped exactly is looked for below it too. *)
ResolveBelow(map, cat) ==
    {l \in DOMAIN map : map[l] = cat \/ ParentCategory(map[l]) = cat}

(* The index's own categories for one asked for: those mapped to it, else  *)
(* those mapped to something below it, else those mapped to what it is     *)
(* below.                                                                  *)
ResolveCategory(map, cat) ==
    LET exact == {l \in DOMAIN map : map[l] = cat}
        below == {l \in DOMAIN map : ParentCategory(map[l]) = cat}
        above == {l \in DOMAIN map : map[l] = ParentCategory(cat)}
    IN  CASE exact # {} -> exact
          [] exact = {} /\ below # {} -> below
          [] OTHER -> above

ResolveAll(map, cats) == UNION {ResolveCategory(map, cat) : cat \in cats}

(* The categories to search in for a query; none means all of them. *)
GetLocalCategoriesMatchingQuery(map, queryCategories) ==
    IF queryCategories = {} THEN {} ELSE ResolveAll(map, Subset(queryCategories))

-------------------------------------------------------------------------------
(* Capabilities. *)

CategoriesOf(map) == {map[l] : l \in DOMAIN map}

(* Mutant: the first category after those of shows counts as one. *)
HasTVShowsAndNext(cats) == \E cat \in cats : cat \in 5000..6000

HasTVShows(cats) == \E cat \in cats : cat \in 5000..5999
HasMovies(cats)  == \E cat \in cats : cat \in 2000..2999

(* ToTorznab: the modes an index can be searched in are taken from its     *)
(* categories; those its definition names are not looked at.               *)
ToTorznab(map) ==
    LET cats == CategoriesOf(map)
        tv == [mode |-> "tv-search", params |-> {"q", "season", "ep"}]
        movie == [mode |-> "movie-search", params |-> {"q"}]
    IN  [ categories |-> cats,
          modes |-> {[mode |-> "search", params |-> {"q"}]}
                      \cup (IF HasTVShows(cats) THEN {tv} ELSE {})
                      \cup (IF HasMovies(cats) THEN {movie} ELSE {}) ]

HasSearchMode(caps, mode) == \E m \in caps.modes : m.mode = mode

(* Capabilities(): the identifiers an index can be searched by. *)
IdentifiersOf(mode) ==
    CASE mode = "search"       -> {"imdbid", "tvdbid", "tvmazeid"}
      [] mode = "movie-search" -> {"imdbid"}
      [] mode = "tv-search"    -> {"tvdbid", "tvmazeid", "rid"}

Capabilities(map) ==
    LET caps == ToTorznab(map)
    IN  [caps EXCEPT !.modes = {[m EXCEPT !.params = @ \cup IdentifiersOf(m.mode)] : m \in @}]

(* MarshalXML sorts the map of the categories as if it were a list: it     *)
(* compares the entries 0, 1, 2 .. and there is no entry but under the     *)
(* number of a category. One category needs no comparison.                 *)
MarshalPanics(caps) ==
    /\ Cardinality(caps.categories) > 1
    /\ \E i \in 0 .. Cardinality(caps.categories) - 1 : i \notin caps.categories
===============================================================================
