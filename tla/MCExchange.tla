----------------------------- MODULE MCExchange -----------------------------
(* Each part of an exchange is varied while the others are ordinary.         *)
EXTENDS Exchange, FiniteSets

Site(sub) == [scheme |-> "https", host |-> sub \o <<"site", "com">>]
Other == [scheme |-> "https", host |-> <<"other", "com">>]
MCTarget == Site(<<"www">>)

\* The page a request comes from: none, its own, its site's, another's, and its
\* own by another scheme.
Pages == {Absent, MCTarget, Site(<<"app">>), Other,
          [MCTarget EXCEPT !.scheme = "http"]}
\* Only navigations are labelled as going to a document.
Requests ==
    {in \in {Incoming(mode, dest, site, origin, page) :
               mode \in Modes, dest \in Dests, site \in Sites, origin \in BOOLEAN,
               page \in Pages} :
       Labelled(in) /\ (in.mode # "navigate" => in.dest \notin {"document", "iframe"})}
Visit == Incoming("navigate", "document", "none", FALSE, Absent)

\* Policies of up to two directives, each with up to two source expressions,
\* and some that repeat a directive or govern nothing.
SourceLists == {s \in SUBSET SourceExpressions : Cardinality(s) <= 2}
Ones == {Directive(n, s) : n \in FetchDirectives, s \in SourceLists}
Policies ==
    {<<d>> : d \in Ones}
    \cup {<<Directive(n, s), Directive("default-src", t)>> :
            n \in {"script-src", "style-src", "img-src"},
            s \in SourceLists, t \in SourceLists}
    \cup {<<Directive(n, {"self"}), Directive(n, {"none"})>> : n \in FetchDirectives}
    \cup {<<Directive("report-uri", {"host"})>>,
          <<Directive("sandbox", {"allow-forms"}), Directive("sandbox", SandboxFlags)>>}
    \cup {<<Directive("sandbox", flags), Directive(n, s)>> :
            flags \in SUBSET SandboxFlags, n \in cspScriptDirectives, s \in SourceLists}

\* Documents of up to four pieces.
Pieces == {<<"<", "n">>, <<"<", "s", ">">>, <<"<", "s">>, <<"<", "b">>, <<"<", "y", ">">>,
           <<"<", "d">>, <<" ", "h", "=">>, <<"h">>, <<"\"">>, <<">">>, <<"/", ">">>,
           <<" ">>, <<"<", "/", "s", ">">>, <<"<", "/", "s", "n", ">">>,
           <<"<", "!", "-", "-">>, <<"-", "-", ">">>, <<"<", "n", " ", "h", "=", "h", ">">>,
           <<"<", "!">>, <<"<", "b", " ", "h", "=", "h", ">">>}
Documents ==
    LET piece == Pieces \cup {<<>>}
    IN  {a \o b \o c \o d : a \in Pieces, b \in Pieces, c \in piece, d \in piece}

MCExchanges ==
    {[asked |-> Requests, headers |-> {<<>>}, doc |-> {<<>>}],
     [asked |-> {Visit}, headers |-> {<<p>> : p \in Policies}, doc |-> {<<>>}],
     [asked |-> {Visit}, headers |-> {<<>>}, doc |-> Documents]}

\* A script's fetches, as they reach the proxy from pages that share its origin.
MCFetches ==
    {[asked |-> {Incoming("cors", "empty", "same-origin", origin, page) :
                   origin \in BOOLEAN, page \in Pages},
      headers |-> {<<>>}, doc |-> {<<>>}]}
=============================================================================
