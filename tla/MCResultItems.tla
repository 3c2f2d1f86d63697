---------------------------- MODULE MCResultItems -----------------------------
(***************************************************************************)
(* Rows of pages and of JSON documents under definitions that read a field *)
(* in every way: by selector, path, attribute, case, pattern or whole row, *)
(* one or all, with something left out, through each filter.               *)
(***************************************************************************)
EXTENDS ResultItems

MCReference == [m \in {"{{.title}}", "{{.tag}}", "{{.none}}"} |->
                  CASE m = "{{.title}}" -> "title" [] m = "{{.tag}}" -> "tag" [] m = "{{.none}}" -> "none"]

Block == [ text |-> <<>>, selector |-> "", pattern |-> <<>>, path |-> "", all |-> FALSE,
           attribute |-> "", remove |-> "", case |-> <<>>, filters |-> <<>>, config |-> <<>> ]

Field(name, block) == [name |-> name, block |-> block]
Sel(class) == [Block EXCEPT !.selector = class, !.path = class]
Through(block, filters) == [block EXCEPT !.filters = filters]
F(name, args) == [name |-> name, args |-> args]

Node(class, inside, text) == [class |-> class, inside |-> inside, text |-> text, attrs |-> <<>>]
Linked(class, inside, text, to) == [Node(class, inside, text) EXCEPT !.attrs = [href |-> to]]

Page(nodes) == [json |-> FALSE, lists |-> {}, header |-> <<>>,
                nodes |-> <<Node("row", {}, <<>>)>> \o nodes]
Json(lists, nodes) == [Page(nodes) EXCEPT !.json = TRUE, !.lists = lists]

Def(scheme, fields, rows) ==
    [ scheme |-> scheme, fields |-> fields, rows |-> rows, dateHeader |-> "",
      map |-> (<<"7">> :> 2000 @@ <<"8">> :> 5000), localCats |-> {} ]

-------------------------------------------------------------------------------
TorrentRow(title, cat, seeders) ==
    Page(<< Node("name", {1}, title), Node("tag", {1, 2}, <<" ", "new">>),
            Linked("a", {1}, <<"page">>, <<"d", "id", "9">>), Node("cat", {1}, cat),
            Node("up", {1}, seeders), Node("down", {1}, <<"1", ",", "2">>),
            Node("size", {1}, <<"5", "kb">>), Node("when", {1}, <<"2", " ", "days", " ", "ago">>) >>)

Links == [Sel("a") EXCEPT !.attribute = "href"]

(* Everything a torrent has; two pages of it say what is commented on.     *)
Torrents ==
    LET rows == {TorrentRow(<<"dune", " ", " ", "part">>, <<"7">>, <<"3">>)}
        fields == << Field("id", Through(Links, <<F("querystring", "id")>>)),
                     Field("title", Sel("name")), Field("details", Links), Field("link", Links),
                     Field("comments", [Block EXCEPT !.text = <<"c">>]),
                     Field("description", Sel("missing")), Field("category", Sel("cat")) >>
        counts == << Field("id", Through(Links, <<F("urlarg", "id")>>)), Field("seeders", Sel("up")),
                     Field("leechers", Sel("down")), Field("size", Sel("size")),
                     Field("date", Sel("when")), Field("files", Sel("missing")),
                     Field("author", Sel("missing")), Field("banner", Links) >>
    IN  { Def("torrent", fields, rows), Def("torrent", counts, rows),
          [Def("torrent", counts, rows) EXCEPT !.dateHeader = "header"],
          [Def("torrent", counts, {[r EXCEPT !.header = <<"yesterday">>] : r \in rows})
             EXCEPT !.dateHeader = "header"] }

(* Which categories are searched in, and which the item is of.             *)
Sorted ==
    {[Def("torrent", << Field("id", [Block EXCEPT !.text = <<"1">>]), Field("category", Sel("cat")),
                        Field("magnet", [Block EXCEPT !.text = <<"magnet:", "x">>]),
                        Field("download", Links) >>,
          {TorrentRow(<<"dune">>, cat, <<"3">>)}) EXCEPT !.localCats = cats] :
       cat \in {<<"7">>, <<"8">>, <<"9">>, <<"-", "9">>, <<"films">>},
       cats \in {{}, {<<"7">>}, {<<"7">>, <<"9">>}}}

(* Plain items: what is left out of a title, lists, cases, templates.      *)
Plain ==
    LET rows == {TorrentRow(<<"dune">>, <<"7">>, <<"3">>)}
        changing == rows \cup {TorrentRow(<<"dune">>, <<"7">>, <<"4">>)}
        id == Field("id", [Block EXCEPT !.text = <<"1">>])
        title == Field("title", [Sel("name") EXCEPT !.remove = "tag"])
        tag == Field("tag", Sel("tag"))
        case == [Sel("name") EXCEPT !.case = [tag |-> <<"T">>, cat |-> <<"C">>, name |-> <<"N">>]]
        both == Field("both", [Block EXCEPT !.pattern = <<"{{.title}}", "-", "{{.tag}}", "{{.none}}">>])
    IN  { Def("", <<id, title, tag, both>>, rows), Def("", <<id, tag, title, both>>, rows),
          Def("", <<id, both, Field("case", case), Field("seen", Sel("up"))>>, changing),
          Def("", <<id, Field("cells", [Sel("name") EXCEPT !.all = TRUE]), Field("link", Links),
                    Field("none", Sel("missing")), Field("all", Block)>>, rows),
          Def("", <<tag, Field("case", [Sel("up") EXCEPT !.case = [tag |-> <<"T">>]]),
                    Field("id", Sel("cat")), Field("id", Sel("missing"))>>, rows) }

(* Each filter, on texts it takes and texts it does not.                   *)
Filters ==
    { <<F("dateparse", {"iso"}), F("dateparseAlt", {"rfc"}), F("append", <<"!">>)>>,
      <<F("dateparse", {"iso"}), F("trim", {"x"}), F("dateparseAlt", {"rfc"})>>,
      <<F("regexp", "x"), F("prepend", <<"{{.title}}">>)>>, <<F("regexp", "x"), F("bool", <<>>)>>,
      <<F("split", <<",", 1>>)>>, <<F("split", <<",", -2>>)>>, <<F("replace", <<"x", <<"{{">>>>)>>,
      <<F("mapreplace", [a |-> <<"b">>, b |-> <<"c">>])>>, <<F("whitespace", <<>>), F("number", <<>>)>>,
      <<F("size", <<>>)>>, <<F("timeago", <<>>)>>, <<F("urldecode", <<>>)>>, <<F("rot13", <<>>)>> }

Texted ==
    {Def("", <<Field("id", [Block EXCEPT !.text = <<"1">>]),
               Field("title", Through(Sel("name"), fs))>>,
         {Page(<<Node("name", {1}, t)>>)}) :
       fs \in Filters,
       t \in { <<"rfc", "5">>, <<"a", ",", "b">>, <<"x", " ", " ", "\n", "4", "kb">>, <<"%zz">>,
               <<"{{.title}}", ",", "1">>, <<"3", "weeks", "ago">>, <<>> }}

(* Dates in words. *)
Dated ==
    {Def("", <<Field("id", [Block EXCEPT !.text = <<"1">>]),
               Field("seen", Through(Sel("when"), <<F("timeago", <<>>)>>))>>,
         {Page(<<Node("when", {1}, t)>>)}) :
       t \in { <<"today">>, <<"tomorrow">>, <<"yesterday">>, <<"clock", "9">>,
               <<"3", " ", "secs", " ", "and", " ", "2", " ", "years", " ", "ago">> }}

(* JSON documents: lists, values and paths that lead nowhere.              *)
Documents ==
    LET rows == {Json({"tags"}, <<Node("name", {1}, <<"dune">>), Node("tags", {1}, <<"a">>),
                                  Node("tags", {1}, <<"b">>)>>),
                 Json({"tags"}, <<Node("name", {1}, <<"dune">>)>>)}
        J(path) == [Block EXCEPT !.path = path]
        id == Field("id", J("name"))
    IN  { Def("", <<id, Field("tags", [J("tags") EXCEPT !.all = TRUE])>>, rows),
          Def("", <<id, Field("tags", J("tags")), Field("none", J("missing"))>>, rows),
          Def("torrent", <<id, Field("title", Sel("name")), Field("link", Links)>>, rows),
          Def("", <<id, Field("case", [J("name") EXCEPT !.case = [tags |-> <<"T">>, missing |-> <<"M">>]])>>,
              rows),
          Def("", <<id, Field("title", [J("name") EXCEPT !.remove = "tags"])>>, rows),
          [Def("torrent", <<id>>, rows) EXCEPT !.dateHeader = "header"] }

MCDefinitions == Torrents \cup Sorted \cup Plain \cup Texted \cup Dated \cup Documents
===============================================================================
