--------------------------- MODULE MCTorznabRequest ---------------------------
(***************************************************************************)
(* Requests with every parameter the handler reads, two at a time beside   *)
(* its type and key, and the texts of the pattern syntax; indexes with     *)
(* categories that match exactly, from above, from below, or not at all.   *)
(***************************************************************************)
EXTENDS TorznabRequest

Key == <<"secret">>
Comma(a, b) == a \o <<",">> \o b
Films   == <<"2", "0", "0", "0">>
FilmsHD == <<"2", "0", "4", "0">>
TV      == <<"5", "0", "0", "0">>
Sport   == <<"5", "0", "6", "0">>

Offered ==
    [ q |-> {<< <<"dune">> >>, << <<"dune">>, <<"part">> >>},
      series |-> {<< <<"office">> >>}, movie |-> {<< <<"alien">> >>},
      year |-> {<< <<"1984">> >>, << <<"1984">>, <<"1985">> >>},
      ep |-> {<< <<"1">> >>}, season |-> {<< <<"1", "2">> >>, << <<>> >>},
      limit |-> {<< <<"5">> >>, << <<"0">> >>, << <<"-", "1">> >>, << <<"all">> >>},
      offset |-> {<< <<"9">> >>}, p |-> {<< <<"3">> >>, << <<"all">> >>},
      extended |-> {<< <<"1">> >>, << <<"0">> >>, << <<"yes">> >>},
      cat |-> {<< Films >>, << Comma(TV, FilmsHD) >>, << Sport, <<"7">> >>, << <<"tv">> >>},
      tvdbid |-> {<< <<"8">> >>, << Zero >>}, rid |-> {<< <<"8">> >>},
      tvmazeid |-> {<< <<"8">> >>}, imdbid |-> {<< <<"8">> >>},
      format |-> {<< <<"json">> >>} ]

Typed(t, key) == [t |-> << <<t>> >>, apikey |-> <<key>>]

Extras ==
    UNION {{[k \in ks |-> picked[k]] : picked \in {f \in [ks -> UNION {Offered[k] : k \in ks}] :
                                                     \A k \in ks : f[k] \in Offered[k]}} :
            ks \in {s \in SUBSET DOMAIN Offered : Cardinality(s) <= 2}}

UrlRequest(params) == [kind |-> "url", params |-> params]
TextRequest(text)  == [kind |-> "text", text |-> text]

MCRequests ==
    {UrlRequest(Typed("search", Key) @@ extra) : extra \in Extras}
      \cup {UrlRequest(Typed(t, key)) : t \in {"caps", "music", "movie"}, key \in {Key, <<"other">>}}
      \cup {UrlRequest(<<>>), UrlRequest([t |-> << <<"search">>, <<"movie">> >>, apikey |-> <<Key>>])}
      \cup {TextRequest(text) : text \in
              { <<"dune">>, <<>>, <<"$", "id">>, <<"$", "id", ":", "7">>,
                <<"$", "id", ":", "range", "(", "1", ",", " ", "3", ")">>,
                <<"$", "id", ":", "range", "(", "1", ",", "3", ")", ";", "$", "no", ":", "range",
                  "(", "2", ",", "4", ")">>,
                <<"$", "id", ":", "range", "(", "1", ")">>,
                <<"a", ";", "$", "id", ":", "range", "(", "1", ",", "3", ")">>,
                <<"$", "id", ":", "range", "(", "1", ",", "3", ")", ";">> }}

Template(kind, name) == [kind |-> kind, name |-> name]

MCDefinitions ==
    { [map |-> MapOf([films |-> 2000, hd |-> 2040, series |-> 5000, odd |-> 77]),
       inputs |-> [search |-> Template("keywords", ""), raw |-> Template("cats", "")]],
      [map |-> MapOf([anime |-> 5070, subs |-> -1]),
       inputs |-> [id |-> Template("text", "all"), no |-> Template("field", "id")]],
      [map |-> MapOf([hd |-> 2040]),
       inputs |-> [cat |-> Template("text", "0"), raw |-> Template("cats", "")]],
      [map |-> MapOf([parodies |-> 6000, others |-> 0]),
       inputs |-> [search |-> Template("bad", "")]] }
===============================================================================
