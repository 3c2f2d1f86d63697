----------------------------- MODULE SearchQuery ------------------------------
(***************************************************************************)
(* The query of a search (indexer/search/query.go): how the parameters of  *)
(* a url, or a text with patterns, become one, and how it is turned back   *)
(* into a url, which is also the key its answer is cached under.           *)
(***************************************************************************)
EXTENDS Texts

CONSTANTS UintSize   \* how many values a uint has, 2^64 in the code

ASSUME UintAssumption == UintSize \in Nat /\ UintSize % 2 = 0

Uint(n) == n % UintSize
Signed(n) == IF n < UintSize \div 2 THEN n ELSE n - UintSize

-------------------------------------------------------------------------------
(* A query, and what becomes of making one. *)

NewQuery ==
    [ type |-> <<>>, queryString |-> <<>>, series |-> <<>>, ep |-> <<>>,
      season |-> <<>>, movie |-> <<>>, year |-> <<>>, limit |-> 0, offset |-> 0,
      extended |-> FALSE, categories |-> <<>>, apiKey |-> <<>>, tvdbID |-> <<>>,
      tvRageID |-> <<>>, imdbID |-> <<>>, tvMazeID |-> <<>>, fields |-> <<>>,
      pages |-> 0 ]

getDefaultQuery == [NewQuery EXCEPT !.limit = 20]

Outcome(how, query) == [how |-> how, query |-> query]
Accept(query) == Outcome("ok", query)
Reject(query) == Outcome("error", query)

(* The parameters that are texts, with the field each is kept in: those    *)
(* that may be given once, and those whose values are joined.              *)
OnceFields ==
    [ t |-> "type", year |-> "year", ep |-> "ep", season |-> "season",
      apikey |-> "apiKey", tvdbid |-> "tvdbID", rid |-> "tvRageID",
      tvmazeid |-> "tvMazeID", imdbid |-> "imdbID" ]

(* Mutant: a series is read as the text to search for. *)
JoinedFieldsOneText ==
    [q |-> "queryString", series |-> "queryString", movie |-> "movie"]

JoinedFields == [q |-> "queryString", series |-> "series", movie |-> "movie"]

TrueTexts == {<<"1">>, <<"true">>}
FalseTexts == {<<"0">>, <<"false">>}

AllCats(vals) == FlattenSeq([i \in DOMAIN vals |-> Split(vals[i], ",")])

(* One turn of the loop over the parameters of the url. *)
ParseParam(q, k, vals) ==
    CASE k \in DOMAIN OnceFields ->
           IF Len(vals) > 1 THEN Reject(q) ELSE Accept([q EXCEPT ![OnceFields[k]] = vals[1]])
      [] k \in DOMAIN JoinedFields ->
           Accept([q EXCEPT ![JoinedFields[k]] = Joined(vals, " ")])
      [] k = "p" ->
           Accept([q EXCEPT !.pages = IF IsNumber(vals[1]) THEN Uint(Atoi(vals[1])) ELSE 0])
      [] k \in {"limit", "offset"} ->
           IF Len(vals) > 1 \/ ~IsNumber(vals[1]) THEN Reject(q)
           ELSE Accept([q EXCEPT ![k] = Uint(Atoi(vals[1]))])
      [] k = "extended" ->
           IF Len(vals) > 1 \/ vals[1] \notin TrueTexts \cup FalseTexts THEN Reject(q)
           ELSE Accept([q EXCEPT !.extended = vals[1] \in TrueTexts])
      [] k = "cat" ->
           IF \E i \in DOMAIN AllCats(vals) : ~IsNumber(AllCats(vals)[i]) THEN Reject(NewQuery)
           ELSE Accept([q EXCEPT !.categories =
                            [i \in DOMAIN AllCats(vals) |-> Atoi(AllCats(vals)[i])]])
      [] OTHER -> Accept(q)

-------------------------------------------------------------------------------
(* Patterns: `$field:range(1, 2);$other:range(3, 4)`. *)

queryUsesPatterns(text) ==
    \E i \in DOMAIN Split(text, ";") :
        LET part == Split(text, ";")[i] IN part # <<>> /\ part[1] = "$"

TrimSpaces(text) == Trimmed(text, {" "})

IsRange(value) ==
    /\ Contains(value, "(") /\ Contains(value, ")")
    /\ SubSeq(value, 1, SelectInSeq(value, LAMBDA c : c = "(") - 1) = <<"range">>

(* The parameters are what is between the opening mark and the last        *)
(* character, whatever that is.                                            *)
RangeParams(value) ==
    LET opened == SelectInSeq(value, LAMBDA c : c = "(")
        params == Split(SubSeq(value, opened + 1, Len(value) - 1), ",")
    IN  [i \in DOMAIN params |-> TrimSpaces(params[i])]

PatternPart(q, part) ==
    LET colon == SelectInSeq(part, LAMBDA c : c = ":")
        value == SubSeq(part, colon + 1, Len(part))
    IN  CASE colon < 2 -> Outcome("panic", q)
          [] IsRange(value) ->
               Accept([q EXCEPT !.fields = SubSeq(part, 2, colon - 1) :> RangeParams(value) @@ @])
          [] OTHER -> Accept(q)

parsePatternQuery(q, text) ==
    FoldLeft(LAMBDA made, part : IF made.how = "ok" THEN PatternPart(made.query, part) ELSE made,
             Accept(q), Split(text, ";"))

NewQueryFromQueryString(text) ==
    LET q == [NewQuery EXCEPT !.type = <<"search">>]
    IN  IF queryUsesPatterns(text) THEN parsePatternQuery(q, text)
        ELSE Accept([q EXCEPT !.queryString = text])

-------------------------------------------------------------------------------
(* What is made of a query. *)

(* Padded with a zero to two characters. *)
PadNumber(mark, text) ==
    IF text = <<>> THEN <<>> ELSE <<mark>> \o (IF Len(text) < 2 THEN <<"0">> ELSE <<>>) \o text

Episode(q) == PadNumber("S", q.season) \o PadNumber("E", q.ep)

Keywords(q) ==
    Joined(SelectSeq(<<q.queryString, q.series, q.movie, q.year, Episode(q)>>,
                     LAMBDA text : text # <<>>), " ")

(* Mutant: the offset is not part of the url. *)
GivenCountsLimit(q) == {k \in {"limit"} : q[k] # 0}

GivenCounts(q) == {k \in {"limit", "offset"} : q[k] # 0}

(* Encode: the parameters of the url that are not at their zero value. *)
Encode(q) ==
    LET texts == OnceFields @@ JoinedFields
        given == {k \in DOMAIN texts : q[texts[k]] # <<>>}
    IN  [k \in given |-> << q[texts[k]] >>]
          @@ (IF "t" \in given THEN <<>> ELSE "t" :> << <<"search">> >>)
          @@ [k \in GivenCounts(q) |-> << Itoa(Signed(q[k])) >>]
          @@ (IF q.extended THEN "extended" :> << <<"1">> >> ELSE <<>>)
          @@ (IF q.categories = <<>> THEN <<>>
              ELSE "cat" :> << Joined([i \in DOMAIN q.categories |-> Itoa(q.categories[i])], ",") >>)

UniqueKey(q) == Encode(q)

HasEnoughResults(q, count) == q.limit > 0 /\ count >= q.limit
===============================================================================
