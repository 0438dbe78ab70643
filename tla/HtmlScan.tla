------------------------------ MODULE HtmlScan ------------------------------
(***************************************************************************)
(* The HTML scanner (server/internal/proxy/rewrite/scan.go): what of a     *)
(* document is replaced, what is left out and what is copied.  A document  *)
(* is a sequence of characters; a letter stands for a whole name, told     *)
(* apart by what the scanner does with it, or for text.  Positions count   *)
(* from 1, and a span is from its first position up to, not including, its *)
(* last.  The new values and the rewriting of CSS are left out: a value    *)
(* with a letter in it changes.  So are <plaintext>, "<?", which is read   *)
(* like "<!", and integrity, which is left out like the href of <base>.    *)
(***************************************************************************)
EXTENDS Naturals, Sequences, SequencesExt

Letters == {"n", "s", "y", "b", "d", "h"}
Blank == " "
DoubleQuote == "\""
Quotes == {DoubleQuote, "'"}
\* A raw-text element, <style>, <base>, <head> and href; "n" is no such name.
Raw == <<"s">>
Style == <<"y">>
Base == <<"b">>
HeadTag == <<"d">>
Href == <<"h">>
rawText == {Raw, Style}
headContent == {Raw, Style, Base, HeadTag}

Span(from, to, how) == [from |-> from, to |-> to, how |-> how]

-----------------------------------------------------------------------------
\* The first position of s, at or after from, whose character is in stops, or
\* one past the end.
FirstOf(s, from, stops) ==
    LET i == SelectInSubSeq(s, from, Len(s), LAMBDA c : c \in stops)
    IN  IF i = 0 THEN Len(s) + 1 ELSE i

\* The first that is not.
FirstNotOf(s, from, run) ==
    LET i == SelectInSubSeq(s, from, Len(s), LAMBDA c : c \notin run)
    IN  IF i = 0 THEN Len(s) + 1 ELSE i

At(s, i, what) ==
    i + Len(what) - 1 <= Len(s) /\ \A k \in DOMAIN what : s[i + k - 1] = what[k]

\* The first occurrence of what, or 0.
Occurs(s, from, what) ==
    SelectInSubSeq([i \in DOMAIN s |-> At(s, i, what)], from, Len(s),
                   LAMBDA here : here)

TagNameEnds == {Blank, "/", ">"}
AttrNameEnds == TagNameEnds \cup {"="}
UnquotedEnds == {Blank, ">"}

-----------------------------------------------------------------------------
\* An attribute whose name ends at nameEnd, without a value,
Valueless(s, from, nameEnd) ==
    [name |-> SubSeq(s, from, nameEnd - 1), start |-> from, nameEnd |-> nameEnd,
     hasValue |-> FALSE, quoted |-> FALSE,
     valStart |-> nameEnd, valEnd |-> nameEnd, end |-> nameEnd]

\* and with one from first up to last.
WithValue(a, quoted, first, last, end) ==
    [name |-> a.name, start |-> a.start, nameEnd |-> a.nameEnd,
     hasValue |-> TRUE, quoted |-> quoted, valStart |-> first, valEnd |-> last, end |-> end]
QuotedValue(s, a, first, last) ==
    WithValue(a, TRUE, first, last, IF last <= Len(s) THEN last + 1 ELSE last)
UnquotedValue(a, first, last) == WithValue(a, FALSE, first, last, last)

\* Mutant: an unquoted value also ends at a slash.
ValueToSlash(s, a, i) ==
    IF i <= Len(s) /\ s[i] \in Quotes
    THEN QuotedValue(s, a, i + 1, FirstOf(s, i + 1, {s[i]}))
    ELSE UnquotedValue(a, i, FirstOf(s, i, TagNameEnds))

\* The value that begins at position i.
Value(s, a, i) ==
    IF i <= Len(s) /\ s[i] \in Quotes
    THEN QuotedValue(s, a, i + 1, FirstOf(s, i + 1, {s[i]}))
    ELSE UnquotedValue(a, i, FirstOf(s, i, UnquotedEnds))

\* One attribute, from its first character; i is where an '=' may be.
PastName(s, a, i) ==
    IF i <= Len(s) /\ s[i] = "=" THEN Value(s, a, FirstNotOf(s, i + 1, {Blank})) ELSE a
PastAttribute(s, a) == PastName(s, a, FirstNotOf(s, a.nameEnd, {Blank}))
Attribute(s, from) ==
    PastAttribute(s, Valueless(s, from, FirstOf(s, from, AttrNameEnds)))

\* parseStartTag's loop, at position i past any blanks: the attributes from
\* there on, where the tag ends, and whether it closes itself; rest is the same
\* of the positions after i.  An attribute may have no name.
TagEnds(at, selfClosing) == [attrs |-> <<>>, end |-> at, selfClosing |-> selfClosing]
WithAttribute(a, tag) ==
    IF a.name = <<>> THEN tag ELSE [tag EXCEPT !.attrs = <<a>> \o @]
TagFrom(s, rest, i) ==
    CASE i > Len(s) -> TagEnds(Len(s) + 1, FALSE)
      [] i <= Len(s) /\ s[i] = ">" -> TagEnds(i + 1, FALSE)
      [] At(s, i, <<"/", ">">>) -> TagEnds(i + 2, TRUE)
      [] i <= Len(s) /\ s[i] = "/" /\ ~At(s, i, <<"/", ">">>) -> rest[i + 1]
      [] OTHER -> WithAttribute(Attribute(s, i), rest[Attribute(s, i).end])
TagRest(s, from) ==
    LET rest[j \in from .. Len(s) + 1] == TagFrom(s, rest, FirstNotOf(s, j, {Blank}))
    IN  rest[from]

\* parseStartTag, at a '<' that a letter follows.
NamedTag(s, i, nameEnd) ==
    LET rest == TagRest(s, nameEnd)
    IN  [name |-> SubSeq(s, i + 1, nameEnd - 1), start |-> i,
         attrs |-> rest.attrs, end |-> rest.end, selfClosing |-> rest.selfClosing]
StartTag(s, i) == NamedTag(s, i, FirstOf(s, i + 1, TagNameEnds))

\* hasTagNameAt
hasTagNameAt(s, i, name) ==
    /\ At(s, i, name)
    /\ i + Len(name) <= Len(s) => s[i + Len(name)] \in TagNameEnds

findEndTag(s, name, from) ==
    LET i == SelectInSubSeq(
               [i \in DOMAIN s |-> At(s, i, <<"<", "/">>) /\ hasTagNameAt(s, i + 2, name)],
               from, Len(s), LAMBDA here : here)
    IN  IF i = 0 THEN Len(s) + 1 ELSE i

-----------------------------------------------------------------------------
\* writeStartTag: the attributes that are replaced or left out,
HasText(s, a) == \E i \in a.valStart .. a.valEnd - 1 : s[i] \in Letters
IsTouched(s, tag, a) == a.name = Href /\ (tag.name = Base \/ HasText(s, a))

\* and what of them is.
TouchedSpan(tag, a) ==
    IF tag.name = Base THEN Span(a.start, a.end, "dropped")
    ELSE IF a.quoted THEN Span(a.valStart, a.valEnd, "replaced")
    ELSE Span(a.nameEnd, a.end, "replaced")

\* Mutant: what precedes an attribute is copied from the tag's start each time.
CopiedFromStart(tag, spans, to) == Span(tag.start, to, "copied")

\* What follows the spans of a tag written so far is copied up to a position.
Copied(tag, spans, to) ==
    Span(IF spans = <<>> THEN tag.start ELSE Last(spans).to, to, "copied")
With(tag, spans, span) == spans \o <<Copied(tag, spans, span.from), span>>

\* The spans a start tag leaves in the output: those touched, and copied ones
\* around them.
WrittenUpTo(s, tag) ==
    LET written[k \in 0 .. Len(tag.attrs)] ==
          IF k = 0 THEN <<>>
          ELSE IF IsTouched(s, tag, tag.attrs[k])
               THEN With(tag, written[k - 1], TouchedSpan(tag, tag.attrs[k]))
               ELSE written[k - 1]
    IN  written
Written(s, tag) ==
    LET spans == WrittenUpTo(s, tag)[Len(tag.attrs)]
    IN  Append(spans, Copied(tag, spans, tag.end))

\* Raw text is passed over up to its end tag.
HoldsRawText(tag) == tag.name \in rawText /\ ~tag.selfClosing
PastTag(s, tag) ==
    IF HoldsRawText(tag) THEN findEndTag(s, tag.name, tag.end) ELSE tag.end
TagTurn(s, tag) ==
    Written(s, tag)
    \o IF HoldsRawText(tag)
       THEN <<Span(tag.end, PastTag(s, tag),
                   IF tag.name = Style THEN "css" ELSE "copied")>>
       ELSE <<>>

\* One turn of htmlScanner.run at position i, from a '<': the spans it writes,
\* up to where the next turn goes on.
Turn(s, i) ==
    CASE At(s, i, <<"<", "!", "-", "-">>) ->
           LET close == Occurs(s, i + 4, <<"-", "-", ">">>)
           IN  <<Span(i, IF close = 0 THEN Len(s) + 1 ELSE close + 3, "copied")>>
      [] ~At(s, i, <<"<", "!", "-", "-">>)
         /\ (At(s, i, <<"<", "!">>) \/ At(s, i, <<"<", "/">>)) ->
           LET gt == FirstOf(s, i, {">"})
           IN  <<Span(i, IF gt > Len(s) THEN gt ELSE gt + 1, "copied")>>
      [] i < Len(s) /\ s[i + 1] \in Letters ->
           TagTurn(s, StartTag(s, i))
      [] OTHER -> <<Span(i, i + 1, "copied")>>

\* documentBase, from a '<' at position lt on: what it takes the base from, or no
\* span; base is the same of later positions.
FirstHref(s, tag) == SelectInSeq(tag.attrs, LAMBDA a : a.name = Href /\ HasText(s, a))
BaseSpan(a) == <<Span(a.start, a.end, "dropped")>>
BaseAtTag(s, base, tag) ==
    CASE tag.name = Base /\ FirstHref(s, tag) > 0 -> BaseSpan(tag.attrs[FirstHref(s, tag)])
      [] tag.name \notin headContent -> <<>>
      [] OTHER -> base[PastTag(s, tag)]
BaseAt(s, base, lt) ==
    CASE lt > Len(s) -> <<>>
      [] At(s, lt, <<"<", "!", "-", "-">>) ->
           LET close == Occurs(s, lt + 4, <<"-", "-", ">">>)
           IN  IF close = 0 THEN <<>> ELSE base[close + 3]
      [] lt < Len(s) /\ s[lt + 1] \in Letters -> BaseAtTag(s, base, StartTag(s, lt))
      [] At(s, lt, <<"<", "/">>) /\ hasTagNameAt(s, lt + 2, HeadTag) -> <<>>
      [] OTHER -> base[lt + 1]
documentBase(s) ==
    LET base[i \in 1 .. Len(s) + 1] == BaseAt(s, base, FirstOf(s, i, {"<"}))
    IN  base[1]
=============================================================================
