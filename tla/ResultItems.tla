----------------------------- MODULE ResultItems ------------------------------
(***************************************************************************)
(* What becomes of a row of a page of results: its fields are read one     *)
(* after another, formatted, and put into an item (resultExtraction.go,    *)
(* torrentScheme.go); a torrent gets its category; the item is stored and  *)
(* told to be new, updated or unchanged (storage/keyedStorage.go), and is  *)
(* served in a feed (server/torznab.go, responseFormatting.go, rss.go).    *)
(* Then the row is read again, as it was or changed.                       *)
(***************************************************************************)
EXTENDS Scraping

CONSTANTS
    Definitions,    \* what an index says of its results, and the rows it has
    CategoryOffset, \* CustomCategoryOffset of the categories
    Kilo,           \* bytes in a kilobyte to the size of an item
    Uint32Size,     \* how many values a uint32 has
    Reads           \* bound: how often a row is read

ASSUME ReadsAssumption == Reads \in Nat

VARIABLES
    definition,
    row,        \* what the page says
    online,     \* a url of the index answers, so that links can be resolved
    stage,      \* where the reading is
    field,      \* the field of the definition that comes next
    gone,       \* nodes that were removed from the page
    values,     \* what was made of each field so far
    rawTitle,   \* the title as it is on the page
    unwalked,   \* fields whose values are not in the item yet
    item,
    reads,      \* how often the row was read
    stored,     \* the item that is in the storage, by its local id
    outcome     \* what the storage said of the item, or how it was served

itemVars == <<definition, row, online, stage, field, gone, values, rawTitle, unwalked, item,
              reads, stored, outcome>>

site == <<definition, online, reads>>

NewItem ==
    [ LocalID |-> <<>>, Link |-> <<>>, SourceLink |-> <<>>, PublishDate |-> <<>>,
      ModelData |-> <<>>, Title |-> <<>>, OriginalTitle |-> <<>>, ShortTitle |-> <<>>,
      Description |-> <<>>, Comments |-> <<>>, Author |-> <<>>, AuthorID |-> <<>>,
      LocalCategoryID |-> <<>>, LocalCategoryName |-> <<>>, MagnetLink |-> <<>>,
      Banner |-> <<>>, Size |-> 0, Files |-> 0, Grabs |-> 0, Seeders |-> 0, Peers |-> 0,
      DownloadVolumeFactor |-> 0, UploadVolumeFactor |-> 0, MinimumRatio |-> 0,
      MinimumSeedTime |-> 0, Category |-> 0, TorrentLink |-> <<>>, TorrentSourceLink |-> <<>> ]

NoOutcome == [how |-> "none", link |-> <<>>]

IsTorrent == definition.scheme = "torrent"
Fields == definition.fields
Names == {Fields[i].name : i \in DOMAIN Fields}

Begin == /\ stage' = "extract"
         /\ field' = 1
         /\ gone' = {}
         /\ values' = <<>>
         /\ rawTitle' = Nil
         /\ unwalked' = {}
         /\ item' = NewItem
         /\ outcome' = NoOutcome

ItemInit ==
    /\ definition \in Definitions
    /\ row \in definition.rows
    /\ online \in BOOLEAN
    /\ reads = 1
    /\ stored = <<>>
    /\ stage = "extract" /\ field = 1 /\ gone = {} /\ values = <<>> /\ rawTitle = Nil
    /\ unwalked = {} /\ item = NewItem /\ outcome = NoOutcome

-------------------------------------------------------------------------------
(* Reading. *)

(* Mutant: a field that is not found is empty. *)
ValueOrEmpty(name) == IF name \in DOMAIN values THEN values[name] ELSE Text(<<>>)

ValueOf(name) == IF name \in DOMAIN values THEN values[name] ELSE Nil

(* The raw text of the title is read after the title: what the title left  *)
(* out is gone. A field that is not found is left out, or keeps the value  *)
(* an earlier field of its name got.                                       *)
ExtractField ==
    /\ stage = "extract" /\ field \in DOMAIN Fields
    /\ LET f == Fields[field] IN
       \E o \in Match(f.block, row, gone) :
         \E raw \in IF f.name = "title" /\ o.how # "panic" THEN MatchRawText(f.block, row, o.gone)
                    ELSE {[o EXCEPT !.value = rawTitle]} :
           /\ gone' = raw.gone
           /\ rawTitle' = IF raw.how = "ok" THEN raw.value ELSE rawTitle
           /\ values' = IF o.how = "ok" THEN f.name :> o.value @@ values ELSE values
           /\ stage' = IF "panic" \in {o.how, raw.how} THEN "panic" ELSE stage
    /\ field' = field + 1
    /\ UNCHANGED <<site, row, unwalked, item, stored, outcome>>

ExtractEnds ==
    /\ stage = "extract" /\ field \notin DOMAIN Fields
    /\ stage' = "format" /\ field' = 1
    /\ UNCHANGED <<site, row, gone, values, rawTitle, unwalked, item, stored, outcome>>

(* A text with a template, or any text of a field with a pattern, is       *)
(* rendered from the values there are, and goes through the filters again. *)
Rendered(block, t) ==
    LET made == ApplyTemplate(t, values)
    IN  IF (~HasTemplate(t) /\ block.pattern = <<>>) \/ made.how = "error" THEN Good(t)
        ELSE {IF m.how = "ok" /\ m.text = <<>> THEN made ELSE m : m \in FilterText(block, made.text)}

(* A list whose fields are text that panics makes the reading panic.       *)
(* A field with a text of its own has that where it has no value.          *)
formatValues(block, v) ==
    CASE v.kind = "nil" /\ block.text = <<>> -> {Outcome("ok", v, {})}
      [] v.kind = "nil" /\ block.text # <<>> ->
           {Outcome(m.how, Text(m.text), {}) : m \in Rendered(block, block.text)}
      [] v.kind = "text" -> {Outcome(m.how, Text(m.text), {}) : m \in Rendered(block, v.text)}
      [] v.kind = "list" ->
           LET Each(i) == Rendered(block, v.texts[i])
               lists == {l \in [DOMAIN v.texts -> UNION {Each(i) : i \in DOMAIN v.texts}] :
                           \A i \in DOMAIN l : l[i] \in Each(i)}
           IN  {Outcome(IF \E i \in DOMAIN l : l[i].how = "panic" THEN "panic" ELSE "ok",
                        List([i \in DOMAIN l |-> l[i].text]), {}) : l \in lists}

FormatField ==
    /\ stage = "format" /\ field \in DOMAIN Fields
    /\ LET f == Fields[field] IN
       \E o \in formatValues(f.block, ValueOf(f.name)) :
         /\ values' = f.name :> o.value @@ values
         /\ stage' = IF o.how = "panic" THEN "panic" ELSE stage
    /\ field' = field + 1
    /\ UNCHANGED <<site, row, gone, rawTitle, unwalked, item, stored, outcome>>

FormatEnds ==
    /\ stage = "format" /\ field \notin DOMAIN Fields
    /\ stage' = "populate"
    /\ unwalked' = DOMAIN values
    /\ UNCHANGED <<site, row, field, gone, values, rawTitle, item, stored, outcome>>

-------------------------------------------------------------------------------
(* The item. *)

(* The first of a list is not taken: only an empty one is looked into.     *)
firstString(v) == IF v.kind = "list" THEN <<>> ELSE v.text

Absolute == {"http:", "magnet:"}

Resolves(t) == StartsWith(t, "magnet:") \/ (online /\ ~Contains(t, UnparsableUrl))
Resolve(t) == IF t # <<>> /\ t[1] \in Absolute THEN t ELSE <<"http:", "site">> \o t

TextFields ==
    [ author |-> "Author", shortTitle |-> "ShortTitle", description |-> "Description",
      category |-> "LocalCategoryID", categoryName |-> "LocalCategoryName",
      authorId |-> "AuthorID" ]

NumberFields ==
    [ files |-> "Files", grabs |-> "Grabs", downloadvolumefactor |-> "DownloadVolumeFactor",
      uploadvolumefactor |-> "UploadVolumeFactor", minimumratio |-> "MinimumRatio",
      minimumseedtime |-> "MinimumSeedTime" ]

(* humanize.ParseBytes: a number and a unit.                               *)
ParsesBytes(t) == Len(t) > 1 /\ IsNumber(SubSeq(t, 1, Len(t) - 1)) /\ t[Len(t)] \in {"b", "kb", "mb"}
Bytes(t) ==
    Atoi(SubSeq(t, 1, Len(t) - 1)) * (CASE t[Len(t)] = "b" -> 1
                                        [] t[Len(t)] = "kb" -> Kilo
                                        [] t[Len(t)] = "mb" -> Kilo * Kilo)

(* The fields every item has.                                              *)
ScrapeItemWith(i, name, v) ==
    LET t == firstString(v)
    IN  CASE name = "id" -> [i EXCEPT !.LocalID = t]
          [] name \in {"download", "link"} ->
               IF ~Resolves(t) THEN i
               ELSE IF name = "link" THEN [i EXCEPT !.Link = Resolve(t)]
               ELSE [i EXCEPT !.SourceLink = Resolve(t)]
          [] OTHER -> [i EXCEPT !.ModelData = name :> v @@ @]

OriginalTitle(t) ==
    LET made == ApplyTemplate(rawTitle.text, values)
    IN  CASE rawTitle = Nil -> t
          [] rawTitle # Nil /\ HasTemplate(rawTitle.text) -> made.text
          [] OTHER -> rawTitle.text

(* Mutant: the details page takes the place of the comments.               *)
CommentsDetails(i, link) == link

CommentsOf(i, link) == IF i.Comments = <<>> THEN link ELSE i.Comments

(* The links a torrent has beside those of every item are not set.         *)
TorrentWith(i, name, v) ==
    LET t == firstString(v)
        number == NormalizeNumber(t)
        size == SelectSeq(t, LAMBDA c : c # ",")
    IN  CASE name = "details" /\ Resolves(t) ->
               [i EXCEPT !.Description = Resolve(t), !.Comments = CommentsOf(i, Resolve(t))]
          [] name = "comments" /\ Resolves(t) -> [i EXCEPT !.Comments = Resolve(t)]
          [] name = "magnet" /\ Resolves(t) -> [i EXCEPT !.MagnetLink = Resolve(t)]
          [] name = "banner" -> [i EXCEPT !.Banner = IF Resolves(t) THEN Resolve(t) ELSE t]
          [] name = "title" ->
               [i EXCEPT !.Title = t, !.OriginalTitle = IF rawTitle = Nil THEN @ ELSE OriginalTitle(t)]
          [] name \in DOMAIN TextFields -> [i EXCEPT ![TextFields[name]] = t]
          [] name \in DOMAIN NumberFields /\ IsNumber(number) ->
               [i EXCEPT ![NumberFields[name]] = Atoi(number)]
          [] name = "seeders" /\ IsNumber(number) ->
               [i EXCEPT !.Seeders = Atoi(number), !.Peers = @ + Atoi(number)]
          [] name = "leechers" /\ IsNumber(number) -> [i EXCEPT !.Peers = @ + Atoi(number)]
          [] name = "size" /\ ParsesBytes(size) -> [i EXCEPT !.Size = Bytes(size) % Uint32Size]
          [] name = "date" /\ ParseFuzzyTime(t).how = "ok" ->
               [i EXCEPT !.PublishDate = ParseFuzzyTime(t).text]
          [] name \notin DOMAIN TextFields \cup DOMAIN NumberFields
                           \cup {"details", "comments", "magnet", "banner", "title", "seeders",
                                 "leechers", "size", "date"} -> ScrapeItemWith(i, name, v)
          [] OTHER -> i

ItemWith(i, name) ==
    IF IsTorrent THEN TorrentWith(i, name, values[name]) ELSE ScrapeItemWith(i, name, values[name])

(* The values are a map: they are walked in any order.                     *)
Populate(name) ==
    /\ stage = "populate" /\ name \in unwalked
    /\ item' = ItemWith(item, name)
    /\ unwalked' = unwalked \ {name}
    /\ UNCHANGED <<site, row, stage, field, gone, values, rawTitle, stored, outcome>>

(* The date above the rows, where the definition has one, goes before that *)
(* of the row; a row without is dropped.                                   *)
PopulateEnds ==
    /\ stage = "populate" /\ unwalked = {}
    /\ CASE definition.dateHeader = "" -> stage' = "category" /\ UNCHANGED item
         [] definition.dateHeader # "" /\ row.json -> stage' = "panic" /\ UNCHANGED item
         [] OTHER ->
              LET date == ParseFuzzyTime(row.header)
              IN  /\ stage' = IF row.header # <<>> /\ date.how = "ok" THEN "category" ELSE "dropped"
                  /\ item' = IF date.how = "ok" THEN [item EXCEPT !.PublishDate = date.text] ELSE item
    /\ UNCHANGED <<site, row, field, gone, values, rawTitle, unwalked, stored, outcome>>

resolveCategory(i) ==
    LET local == i.LocalCategoryID
    IN  CASE local \in DOMAIN definition.map -> [i EXCEPT !.Category = definition.map[local]]
          [] local \notin DOMAIN definition.map /\ IsNumber(local) ->
               [i EXCEPT !.Category = Atoi(local) + CategoryOffset]
          [] OTHER -> i

(* Mutant: an item of any category gets its own. *)
resolveAnyCategory(i) == resolveCategory(i)

(* Whether the item is of a category that is searched in is not told on:   *)
(* one that is not goes on without a category.                             *)
resolveItemCategory(i) ==
    IF definition.localCats # {} /\ i.LocalCategoryID \notin definition.localCats THEN i
    ELSE resolveCategory(i)

PopulateTorrentData ==
    /\ stage = "category"
    /\ item' = IF IsTorrent THEN resolveItemCategory(item) ELSE item
    /\ stage' = "store"
    /\ UNCHANGED <<site, row, field, gone, values, rawTitle, unwalked, stored, outcome>>

-------------------------------------------------------------------------------
(* What is made of the item. *)

(* Mutant: a field without a value equals none. *)
EqualsWithoutNil(old, new) ==
    /\ ~IsTorrent
    /\ DOMAIN old.ModelData = DOMAIN new.ModelData
    /\ \A name \in DOMAIN new.ModelData :
          new.ModelData[name].kind = "text" /\ old.ModelData[name] = new.ModelData[name]

(* What was stored is read as a plain item: it equals no torrent, and a    *)
(* list that was stored is a list of another type.                         *)
Equals(old, new) ==
    /\ ~IsTorrent
    /\ DOMAIN old.ModelData = DOMAIN new.ModelData
    /\ \A name \in DOMAIN new.ModelData :
          new.ModelData[name].kind # "list" /\ old.ModelData[name] = new.ModelData[name]

Store ==
    /\ stage = "store"
    /\ LET id == item.LocalID
           found == id # <<>> /\ id \in DOMAIN stored
           how == CASE ~found -> "new"
                    [] found /\ Equals(stored[id], item) -> "unchanged"
                    [] OTHER -> "updated"
       IN  /\ outcome' = [NoOutcome EXCEPT !.how = how]
           /\ stored' = IF how = "unchanged" THEN stored ELSE id :> item @@ stored
    /\ stage' = "stored"
    /\ UNCHANGED <<site, row, field, gone, values, rawTitle, unwalked, item>>

ServerLink(link) == <<"server">> \o link

RewriteLinks(i) ==
    IF StartsWith(i.Link, "magnet:") THEN i
    ELSE [i EXCEPT !.Link = ServerLink(IF i.SourceLink = <<>> THEN i.Link ELSE i.SourceLink)]

(* The formats of a feed, and the link each gives for the item: a torrent  *)
(* is asked for its own link, of which it has two. The feed that is not    *)
(* torznab is of torrents only.                                            *)
LinkServed(format, i) ==
    CASE IsTorrent /\ format = "rss" -> i.TorrentSourceLink
      [] IsTorrent /\ format # "rss" -> i.TorrentLink
      [] OTHER -> i.Link

Serve(format) ==
    /\ stage = "stored"
    /\ IF ~IsTorrent /\ format \in {"atom", "rss"}
       THEN stage' = "panic" /\ UNCHANGED <<item, outcome>>
       ELSE LET i == IF format = "rss" THEN item ELSE RewriteLinks(item)
            IN  /\ item' = i
                /\ outcome' = [how |-> "served", link |-> LinkServed(format, i)]
                /\ stage' = "served"
    /\ UNCHANGED <<site, row, field, gone, values, rawTitle, unwalked, stored>>

(* The row is read again, from a page loaded anew.                         *)
ReadAgain ==
    /\ stage = "stored" /\ reads < Reads
    /\ reads' = reads + 1
    /\ row' \in definition.rows
    /\ Begin
    /\ UNCHANGED <<definition, online, stored>>

ItemNext ==
    \/ ExtractField \/ ExtractEnds \/ FormatField \/ FormatEnds
    \/ \E name \in unwalked : Populate(name)
    \/ PopulateEnds \/ PopulateTorrentData \/ Store \/ ReadAgain
    \/ \E format \in {"xml", "atom", "json", "rss"} : Serve(format)

ItemSpec == ItemInit /\ [][ItemNext]_itemVars
-------------------------------------------------------------------------------
(* The map of the values is walked in any order, and all the same it makes *)
(* one item: no field spoils another's, comments go before the details     *)
(* page, and the peers are seeders and leechers together. Only of two      *)
(* descriptions it is open which is kept (populateTorrentItemField).       *)
FieldsInAnyOrder ==
    stage = "populate" /\ unwalked = {} =>
      LET alone == [name \in DOMAIN values |-> ItemWith(NewItem, name)]
          Give(a) == {name \in DOMAIN values : alone[name][a] # NewItem[a]}
      IN  /\ \A a \in DOMAIN item \ {"Peers", "Comments", "ModelData"} :
               IF Give(a) = {} THEN item[a] = NewItem[a]
               ELSE \E name \in Give(a) :
                      /\ item[a] = alone[name][a]
                      /\ Cardinality(Give(a)) > 1 => name \in {"details", "description"}
          /\ item.Comments = (CHOOSE t \in {alone[name].Comments : name \in DOMAIN values} \cup {<<>>} :
                               IF "comments" \in Give("Comments") THEN t = alone["comments"].Comments
                               ELSE IF "details" \in Give("Comments") THEN t = alone["details"].Comments
                               ELSE t = <<>>)
          /\ item.Peers = MapThenSumSet(LAMBDA name : alone[name].Peers, DOMAIN values)
          /\ \A name \in DOMAIN values :
               alone[name].ModelData # <<>> => item.ModelData[name] = values[name]

(* A field that is not on the page has no value to the end, and one that   *)
(* is there has one, which may be empty (extractField, formatValues).      *)
NilSaysMissing ==
    stage \in {"category", "store", "stored"} =>
      \A i \in DOMAIN Fields :
        LET name == Fields[i].name
            block == Fields[i].block
            last == \A j \in i + 1 .. Len(Fields) : Fields[j].name # name
        IN  last /\ ~row.json /\ (\A j \in DOMAIN Fields : Fields[j].block.remove = "") =>
              (values[name] = Nil <=> \A j \in DOMAIN Fields :
                 Fields[j].name = name => \A o \in Match(Fields[j].block, row, {}) : o.how = "error")

(* Whether a row says the same each time it is read: not where a map, of   *)
(* cases or replacements, is walked in another order.                      *)
ReadsTheSame ==
    \A i \in DOMAIN Fields :
      /\ Cardinality(DOMAIN Fields[i].block.case) < 2
      /\ \A k \in DOMAIN Fields[i].block.filters : Fields[i].block.filters[k].name # "mapreplace"

SameRowAgain == stage = "stored" /\ reads > 1 /\ Cardinality(definition.rows) = 1 /\ ReadsTheSame

(* A row that did not change and has an id is not new when it is read      *)
(* again, whatever was missing on it; and where the item is a plain one    *)
(* that holds no list, it is not an update either (KeyedStorage.Add with   *)
(* ScrapeResultItem.Equals).                                               *)
FoundAgain ==
    SameRowAgain /\ item.LocalID # <<>> =>
      /\ outcome.how # "new"
      /\ ~IsTorrent /\ (\A name \in DOMAIN item.ModelData : item.ModelData[name].kind # "list") =>
           outcome.how = "unchanged"

(* Items of categories that were not searched for are not left out; they   *)
(* have no category, and every other item has the one its own is mapped    *)
(* to, or a number from the custom ones (resolveItemCategory).             *)
CategoryTellsWanted ==
    stage \in {"store", "stored"} /\ IsTorrent =>
      LET local == item.LocalCategoryID
          wanted == definition.localCats = {} \/ local \in definition.localCats
      IN  CASE wanted /\ local \in DOMAIN definition.map -> item.Category = definition.map[local]
            [] wanted /\ local \notin DOMAIN definition.map ->
                 item.Category # 0 => IsNumber(local) /\ item.Category = Atoi(local) + CategoryOffset
            [] OTHER -> item.Category = 0
===============================================================================
