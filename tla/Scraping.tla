------------------------------- MODULE Scraping -------------------------------
(***************************************************************************)
(* How a field is read from a row of a page (indexer/source): what a       *)
(* selector finds in the row (scrapeItems.go), what is read of it          *)
(* (SelectorBlock in source.go), and the filters the text goes through     *)
(* (filters.go, indexer/utils, indexer/formatting).                        *)
(*                                                                         *)
(* A row is a tree, given by its nodes in the order of the document: node  *)
(* 1 is the row itself, and a node is inside others. Reading a field may   *)
(* remove nodes: `gone` are those removed so far, for all fields to come.  *)
(***************************************************************************)
EXTENDS Texts

CONSTANTS
    Reference,     \* a mark "{{ .name }}" of a template: the name it is of
    Now,           \* the time the page is read, in minutes
    FilterKilo     \* bytes in a kilobyte to the size filter, 1028 in the code

(* What is made of a field: a text, a list of them, or nil.                *)
Text(t)  == [kind |-> "text", text |-> t, texts |-> <<>>]
List(ts) == [kind |-> "list", text |-> <<>>, texts |-> ts]
Nil      == [kind |-> "nil", text |-> NilText, texts |-> <<>>]

Printed(v) == IF v.kind = "list" THEN <<"[">> \o FlattenSeq(v.texts) \o <<"]">> ELSE v.text

Made(how, t) == [how |-> how, text |-> t]
Good(t) == {Made("ok", t)}
Bad     == {Made("error", <<>>)}

-------------------------------------------------------------------------------
(* Templates: a name that is not there, or is nil, has no value.           *)

BadMark == "{{"
HasTemplate(t) == \E i \in DOMAIN t : t[i] \in DOMAIN Reference \cup {BadMark}

ApplyTemplate(t, context) ==
    LET Of(c) == IF c \notin DOMAIN Reference THEN <<c>>
                 ELSE IF Reference[c] \notin DOMAIN context \/ context[Reference[c]] = Nil
                 THEN <<"<no value>">>
                 ELSE Printed(context[Reference[c]])
    IN  IF Contains(t, BadMark) THEN Made("error", t)
        ELSE Made("ok", FlattenSeq([i \in DOMAIN t |-> Of(t[i])]))

-------------------------------------------------------------------------------
(* Spaces, numbers and dates. *)

(* What is at some of the places of a sequence. *)
At(seq, places) ==
    FlattenSeq([i \in DOMAIN seq |-> IF i \in places THEN <<seq[i]>> ELSE <<>>])

Squeezed(t) ==
    LET kept == {i \in DOMAIN t : t[i] # " " \/ i = 1 \/ t[i - 1] # " "}
    IN  At(t, kept)

(* NormalizeSpace of formatting: no new lines, and of two spaces one.      *)
NormalizeSpace(t) ==
    LET line == SelectSeq(t, LAMBDA c : c # "\n")
        Run(i) == CHOOSE k \in 1..i : /\ \A j \in i - k + 1 .. i : line[j] = " "
                                      /\ i > k => line[i - k] # " "
        kept == {i \in DOMAIN line : line[i] # " " \/ Run(i) % 2 = 1}
    IN  At(line, kept)

StripToNumber(t) == SelectSeq(t, LAMBDA c : c \in DOMAIN Digit \cup {".", ","})

(* A number with a comma in it is no number to ParseFloat, and is 0.       *)
SizeStrToBytes(t) ==
    LET number == StripToNumber(t)
        unit == CASE Contains(t, "gb") -> FilterKilo * FilterKilo * FilterKilo
                  [] ~Contains(t, "gb") /\ Contains(t, "mb") -> FilterKilo * FilterKilo
                  [] OTHER -> IF Contains(t, "kb") /\ ~Contains(t, "gb") /\ ~Contains(t, "mb")
                              THEN FilterKilo ELSE 1
    IN  IF IsNumber(number) THEN Atoi(number) * unit ELSE 0

NormalizeNumber(t) ==
    LET number == SelectSeq(t, LAMBDA c : c # ",")
    IN  IF number = <<>> THEN <<"0">> ELSE number

Hour == 60
Day == 24 * Hour

(* A number of units ago, the unit with or without an s. Months and years  *)
(* are taken as 30 and 365 days, and seconds make no minute. However many  *)
(* weeks there are, one is counted.                                        *)
UnitsAgo(n, unit) ==
    CASE unit \in {"year", "years", "yr", "yrs", "y", "ys"} -> n * 365 * Day
      [] unit \in {"month", "months", "mnth", "mnths", "mo", "mos"} -> n * 30 * Day
      [] unit \in {"week", "weeks", "wk", "wks", "w", "ws"} -> 7 * Day
      [] unit \in {"day", "days", "d", "ds"} -> n * Day
      [] unit \in {"hour", "hours", "hr", "hrs", "h", "hs"} -> n * Hour
      [] unit \in {"minute", "minutes", "min", "mins", "m", "ms"} -> n
      [] unit \in {"second", "seconds", "sec", "secs", "s"} -> 0
      [] OTHER -> -1

parseTimeAgo(t) ==
    LET words == SelectSeq(t, LAMBDA c : c \notin {" ", ",", "ago", "and"})
        pairs == 1 .. Len(words) \div 2
        Span(k) == IF IsNumber(<<words[2 * k - 1]>>)
                   THEN UnitsAgo(Atoi(<<words[2 * k - 1]>>), words[2 * k]) ELSE -1
    IN  IF Len(words) % 2 = 1 \/ \E k \in pairs : Span(k) < 0 THEN Made("error", <<>>)
        ELSE Made("ok", Itoa(Now - FoldLeft(LAMBDA sum, k : sum + Span(k), 0, [k \in pairs |-> k])))

(* A date, as the minute it is of; a date written out is its minute. The   *)
(* time of a clock alone is that of today. The word today is replaced by   *)
(* the year alone, which is no date.                                       *)
ParseFuzzyTime(t) ==
    LET midnight == Now - (Now % Day)
        clock == Len(t) > 1 /\ t[1] = "clock" /\ IsNumber(Tail(t))
    IN  CASE clock -> Made("ok", Itoa(midnight + Atoi(Tail(t))))
          [] Contains(t, "ago") -> parseTimeAgo(t)
          [] ~Contains(t, "ago") /\ Contains(t, "tomorrow") -> Made("ok", Itoa(midnight + Day))
          [] ~Contains(t, "ago") /\ Contains(t, "yesterday") -> Made("ok", Itoa(midnight - Day))
          [] OTHER -> IF IsNumber(t) THEN Made("ok", t) ELSE Made("error", <<>>)

(* A date in the layout that is given; without one there is no date.       *)
ParseDate(layouts, t) ==
    IF Len(t) > 1 /\ t[1] \in layouts THEN Good(Tail(t)) ELSE Bad

-------------------------------------------------------------------------------
(* Filters. *)

FilterSplit(t, mark, pos) ==
    LET parts == Split(t, mark)
        at == 1 + (IF pos < 0 THEN Len(parts) + pos ELSE pos)
    IN  IF at \in DOMAIN parts THEN Good(parts[at]) ELSE {Made("panic", <<>>)}

(* A map of replacements is walked in any order.                           *)
MapReplace(t, new) ==
    {Made("ok", FoldLeft(LAMBDA u, old : Replaced(u, old, new[old]), t, order)) :
        order \in SetToSeqs(DOMAIN new)}

(* A pattern is a word that is looked for. *)
FilterRegexp(pattern, t) == IF Contains(t, pattern) THEN Good(<<pattern>>) ELSE Bad

UnparsableUrl == "%zz"
QueryArg(t, name) ==
    LET at == SelectInSeq(t, LAMBDA c : c = name)
    IN  CASE Contains(t, UnparsableUrl) -> Bad
          [] OTHER -> Good(IF at \in 1 .. Len(t) - 1 THEN <<t[at + 1]>> ELSE <<>>)

Filter(f, t) ==
    CASE f.name \in {"dateparse", "timeparse", "dateparseAlt"} -> ParseDate(f.args, t)
      [] f.name = "bool" -> Good(IF NormalizeSpace(t) = <<>> THEN <<"false">> ELSE <<"true">>)
      [] f.name = "regexp" -> FilterRegexp(f.args, t)
      [] f.name = "split" -> FilterSplit(t, f.args[1], f.args[2])
      [] f.name \in {"replace", "re_replace"} -> Good(Replaced(t, f.args[1], f.args[2]))
      [] f.name = "trim" -> Good(Trimmed(t, f.args))
      [] f.name = "whitespace" -> Good(NormalizeSpace(t))
      [] f.name = "append" -> Good(t \o f.args)
      [] f.name = "prepend" -> Good(f.args \o t)
      [] f.name = "urldecode" ->
           IF Contains(t, UnparsableUrl) THEN Bad ELSE Good(Replaced(t, "%20", <<" ">>))
      [] f.name \in {"querystring", "urlarg"} -> QueryArg(t, f.args)
      [] f.name = "size" -> Good(Itoa(SizeStrToBytes(t)))
      [] f.name = "number" -> Good(StripToNumber(NormalizeSpace(t)))
      [] f.name = "mapreplace" -> MapReplace(t, f.args)
      [] f.name \in {"timeago", "fuzzytime", "reltime"} -> {ParseFuzzyTime(t)}
      [] OTHER -> Bad

(* Through the filters of a field, in order. One that fails leaves the     *)
(* text as it was; the second date layout is tried only right after the    *)
(* first one failed.                                                       *)
FilterText(block, t) ==
    LET Skips(s, f) == s.how = "panic" \/ (f.name = "dateparseAlt" /\ s.failed # "dateparse")
        After(s, f, r) ==
          CASE r.how = "panic" -> [s EXCEPT !.how = "panic"]
            [] r.how = "error" -> [s EXCEPT !.failed = f.name]
            [] r.how = "ok" ->
                 LET templated == ApplyTemplate(r.text, block.config)
                 IN  [s EXCEPT !.failed = "",
                               !.text = IF ~HasTemplate(r.text) THEN r.text
                                        ELSE IF templated.how = "ok" THEN templated.text ELSE @]
        Step(states, f) ==
          UNION {IF Skips(s, f) THEN {s} ELSE {After(s, f, r) : r \in Filter(f, s.text)} :
                 s \in states}
    IN  {Made(s.how, Squeezed(Trimmed(s.text, {" "}))) :
           s \in FoldLeft(Step, {[how |-> "ok", text |-> t, failed |-> ""]}, block.filters)}

-------------------------------------------------------------------------------
(* What a selector finds: nodes of a page; a value of a JSON document,     *)
(* which may be a list. A path that leads nowhere finds the nil of JSON,   *)
(* node 0.                                                                 *)

Found(els, list) == [els |-> els, list |-> list]
WholeRow == Found(<<1>>, FALSE)
NoValue == Found(<<0>>, FALSE)

Left(row, gone) ==
    {n \in DOMAIN row.nodes : ({n} \cup row.nodes[n].inside) \cap gone = {}}

Find(row, gone, from, class) ==
    LET found == {n \in Left(row, gone) : /\ row.nodes[n].class = class
                                          /\ row.nodes[n].inside \cap ToSet(from.els) # {}}
        list == row.json /\ class \in row.lists
    IN  IF row.json /\ found = {} /\ ~list THEN NoValue
        ELSE Found(At([n \in DOMAIN row.nodes |-> n], found), list)

FindWithSelector(row, gone, block) ==
    Find(row, gone, WholeRow, IF row.json THEN block.path ELSE block.selector)

TextOfNode(row, gone, n) ==
    IF n = 0 THEN NilText
    ELSE FlattenSeq([m \in DOMAIN row.nodes |->
           IF m \in Left(row, gone) /\ (m = n \/ n \in row.nodes[m].inside)
           THEN row.nodes[m].text ELSE <<>>])

TextOfFound(row, gone, found) ==
    LET texts == [i \in DOMAIN found.els |-> TextOfNode(row, gone, found.els[i])]
    IN  IF found.list THEN Printed(List(texts)) ELSE FlattenSeq(texts)

(* Is and Has of a DOM item; for a JSON item nothing Is, and Has answers a *)
(* nil item, on which Length panics, when the path leads nowhere.          *)
Matches(row, gone, found, class) ==
    \/ ~row.json /\ \E i \in DOMAIN found.els : row.nodes[found.els[i]].class = class
    \/ Find(row, gone, found, class).els \notin {<<>>, NoValue.els}

HasPanics(row, gone, found, class) == row.json /\ Find(row, gone, found, class) = NoValue

-------------------------------------------------------------------------------
(* What is read of what was found: a value, or an error, or a panic, each  *)
(* with the nodes that are gone after it.                                  *)

Outcome(how, value, gone) == [how |-> how, value |-> value, gone |-> gone]
NotRead(gone) == Outcome("error", Nil, gone)

Filtered(block, t, gone) == {Outcome(m.how, Text(m.text), gone) : m \in FilterText(block, t)}

(* The text, or the attribute, of one thing found.                         *)
NodeText(block, row, gone, found) ==
    LET t == Squeezed(Trimmed(TextOfFound(row, gone, found), {" "}))
        attrs == IF row.json THEN <<>> ELSE row.nodes[found.els[1]].attrs
    IN  CASE block.attribute = "" -> Made("ok", t)
          [] block.attribute # "" /\ block.attribute \in DOMAIN attrs ->
               Made("ok", attrs[block.attribute])
          [] OTHER -> Made("error", <<>>)

(* The value of a case that matches; which one, when several do, is up to  *)
(* the order the map is walked in.                                         *)
ByCase(block, row, gone, found) ==
    LET hit == {c \in DOMAIN block.case : Matches(row, gone, found, c)}
        panics == \E c \in DOMAIN block.case \ hit : HasPanics(row, gone, found, c)
    IN  UNION {Filtered(block, block.case[c], gone) : c \in hit}
          \cup (IF panics THEN {Outcome("panic", Nil, gone)} ELSE {})
          \cup (IF hit = {} /\ ~panics THEN {NotRead(gone)} ELSE {})

Read(block, row, gone, found) ==
    LET t == NodeText(block, row, gone, found)
    IN  IF t.how = "ok" THEN Filtered(block, t.text, gone) ELSE {NotRead(gone)}

ReadRaw(block, row, gone, found) ==
    LET t == NodeText(block, row, gone, found)
    IN  {Outcome(t.how, Text(t.text), gone)}

(* Of all things found; one that cannot be read is empty.                  *)
ReadAll(block, row, gone, found) ==
    LET Each(n) == LET t == NodeText(block, row, gone, Found(<<n>>, FALSE))
                   IN  IF t.how = "error" THEN {t} ELSE FilterText(block, t.text)
        alike == {m \in [DOMAIN found.els -> UNION {Each(found.els[i]) : i \in DOMAIN found.els}] :
                    \A i \in DOMAIN m : m[i] \in Each(found.els[i])}
    IN  {IF \E i \in DOMAIN m : m[i].how = "panic" THEN Outcome("panic", Nil, gone)
         ELSE Outcome("ok", List([i \in DOMAIN m |-> m[i].text]), gone) : m \in alike}

ReadBy(reading, block, row, gone, found) ==
    CASE reading = "one" -> Read(block, row, gone, found)
      [] reading = "all" -> ReadAll(block, row, gone, found)
      [] reading = "raw" -> ReadRaw(block, row, gone, found)

(* First what is to be left out of the text is removed from the page, then *)
(* a case is chosen or the text is read.                                   *)
RemoveAndRead(block, row, gone, found, reading) ==
    LET removed == gone \cup ToSet(Find(row, gone, found, block.remove).els)
        left == IF block.remove = "" THEN gone ELSE removed
    IN  CASE block.remove # "" /\ row.json -> {Outcome("panic", Nil, gone)}
          [] (block.remove = "" \/ ~row.json) /\ block.case # <<>> ->
               ByCase(block, row, left, found)
          [] OTHER -> ReadBy(reading, block, row, left, found)

AsList(o) == IF o.value.kind = "text" THEN [o EXCEPT !.value = List(<<o.value.text>>)] ELSE o

ReadFound(block, row, gone, found) ==
    CASE found.els = <<>> -> {NotRead(gone)}
      [] found.els # <<>> /\ block.all ->
           {AsList(o) : o \in RemoveAndRead(block, row, gone, found, "all")}
      [] OTHER -> RemoveAndRead(block, row, gone, found, "one")

Match(block, row, gone) ==
    CASE block.text # <<>> -> {Outcome("ok", Text(block.text), gone)}
      [] block.text = <<>> /\ block.selector # "" ->
           ReadFound(block, row, gone, FindWithSelector(row, gone, block))
      [] OTHER ->
           IF block.pattern # <<>> THEN {Outcome("ok", Text(block.pattern), gone)}
           ELSE IF block.path # "" THEN
             ReadFound(block, row, gone, Find(row, gone, WholeRow, block.path))
           ELSE RemoveAndRead(block, row, gone, WholeRow, "one")

(* The text as it is on the page; a path is not looked at.                 *)
MatchRawText(block, row, gone) ==
    CASE block.text # <<>> -> {Outcome("ok", Text(block.text), gone)}
      [] block.text = <<>> /\ block.selector # "" ->
           LET found == FindWithSelector(row, gone, block)
           IN  IF found.els = <<>> THEN {NotRead(gone)}
               ELSE RemoveAndRead(block, row, gone, found, "raw")
      [] OTHER ->
           IF block.pattern # <<>> THEN {Outcome("ok", Text(block.pattern), gone)}
           ELSE RemoveAndRead(block, row, gone, WholeRow, "raw")
===============================================================================
