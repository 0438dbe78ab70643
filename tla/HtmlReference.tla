--------------------------- MODULE HtmlReference ---------------------------
(***************************************************************************)
(* How a browser tokenizes a document, after the HTML standard's tokenizer *)
(* as the comments of scan.go refer to it: one character at a time, in a   *)
(* mode.  It is what the scanner is compared with.  The modes of character *)
(* references and of a script inside a comment inside a script are left    *)
(* out.                                                                    *)
(***************************************************************************)
EXTENDS HtmlScan

\* The tag under way: whether it is an end tag, its name, its attributes so far,
\* and of the attribute under way what is known: where its parts begin and end.
Tag(closing, name, attrs, attr) ==
    [closing |-> closing, name |-> name, attrs |-> attrs, attr |-> attr]
Attr(name, start, nameEnd, valStart) ==
    [name |-> name, start |-> start, nameEnd |-> nameEnd, valStart |-> valStart]
NoTag == Tag(FALSE, <<>>, {}, Attr(<<>>, 0, 0, 0))

\* tag: the one under way; within: the raw-text element that is open; tags: the
\* start tags so far; odd: an error the standard and the scanner recover from
\* differently.
Fresh == [mode |-> "data", tag |-> NoTag, within |-> <<>>, tags |-> {}, odd |-> FALSE]

-----------------------------------------------------------------------------
\* What the tokenizer t does at position i, where it reads the character c.
To(t, mode, tag) ==
    [mode |-> mode, tag |-> tag, within |-> t.within, tags |-> t.tags, odd |-> t.odd]
In(t, mode) == To(t, mode, t.tag)
Odd(t) == [mode |-> t.mode, tag |-> t.tag, within |-> t.within, tags |-> t.tags, odd |-> TRUE]

OpensStart(t, c) == To(t, "tagName", Tag(FALSE, <<c>>, {}, NoTag.attr))
OpensEnd(t, c) == To(t, "tagName", Tag(TRUE, <<c>>, {}, NoTag.attr))
Under(t, mode, attr) ==
    To(t, mode, Tag(t.tag.closing, t.tag.name, t.tag.attrs, attr))
Begins(t, i, c) ==
    LET u == Under(t, "attrName", Attr(<<c>>, i, i, i))
    IN  IF t.tag.closing \/ c = "=" THEN Odd(u) ELSE u
Named(t, i) ==
    Under(t, "afterName", Attr(t.tag.attr.name, t.tag.attr.start, i, i))
ValueAt(t, mode, i) ==
    Under(t, mode, Attr(t.tag.attr.name, t.tag.attr.start, t.tag.attr.nameEnd, i))
\* The attribute under way is complete; it has no value, or one ending here.
Complete(a, hasValue, quoted, valEnd, end) ==
    [name |-> a.name, start |-> a.start, nameEnd |-> a.nameEnd, hasValue |-> hasValue,
     quoted |-> quoted, valStart |-> a.valStart, valEnd |-> valEnd, end |-> end]
Has(t, attr) ==
    To(t, t.mode, Tag(t.tag.closing, t.tag.name, t.tag.attrs \cup {attr}, t.tag.attr))
Bare(t) == Has(t, Complete(t.tag.attr, FALSE, FALSE, t.tag.attr.nameEnd, t.tag.attr.nameEnd))
Valued(t, i) == Has(t, Complete(t.tag.attr, TRUE, FALSE, i, i))
Quoted(t, i) == Has(t, Complete(t.tag.attr, TRUE, TRUE, i, i + 1))
\* The tag is complete.
IsRaw(t) == ~t.tag.closing /\ t.tag.name \in rawText
Emits(t) ==
    [mode |-> IF IsRaw(t) THEN "raw" ELSE "data", tag |-> t.tag,
     within |-> IF IsRaw(t) THEN t.tag.name ELSE <<>>,
     tags |-> IF t.tag.closing THEN t.tags
              ELSE t.tags \cup {[name |-> t.tag.name, attrs |-> t.tag.attrs]},
     odd |-> t.odd]
EmitsSlashed(t) == Emits(IF IsRaw(t) THEN Odd(t) ELSE t)

BeforeAttr(t, i, c) ==
    CASE c = Blank -> In(t, "beforeAttr")
      [] c = "/" -> In(t, "slash")
      [] c = ">" -> Emits(t)
      [] OTHER -> Begins(t, i, c)
AfterName(t, i, c) ==
    CASE c = Blank -> In(t, "afterName")
      [] c = "=" -> In(t, "beforeValue")
      [] OTHER -> BeforeAttr(Bare(t), i, c)
AttrName(t, i, c) ==
    IF c \in AttrNameEnds THEN AfterName(Named(t, i), i, c)
    ELSE Under(t, "attrName", Attr(Append(t.tag.attr.name, c), t.tag.attr.start, i, i))
BeforeValue(t, i, c) ==
    CASE c = Blank -> t
      [] c \in Quotes -> ValueAt(t, c, i + 1)
      [] c = ">" -> Emits(Valued(ValueAt(t, "unquoted", i), i))
      [] OTHER -> ValueAt(t, "unquoted", i)
Unquoted(t, i, c) == IF c \in UnquotedEnds THEN BeforeAttr(Valued(t, i), i, c) ELSE t
TagName(t, i, c) ==
    IF c \in TagNameEnds THEN BeforeAttr(t, i, c)
    ELSE To(t, "tagName", Tag(t.tag.closing, Append(t.tag.name, c), {}, t.tag.attr))
Data(t, c) == In(t, IF c = "<" THEN "open" ELSE "data")
Bogus(t, c) == In(t, IF c = ">" THEN "data" ELSE "bogus")
Comment(t, c) == In(t, IF c = "-" THEN "commentDash" ELSE "comment")
RawText(t, c) == To(t, IF c = "<" THEN "rawOpen" ELSE "raw", NoTag)
RawEnd(t, i, c) ==
    CASE c \in Letters ->
           To(t, "rawEnd", Tag(FALSE, Append(t.tag.name, c), {}, t.tag.attr))
      [] c \in TagNameEnds /\ t.tag.name = t.within ->
           BeforeAttr(To(t, "rawEnd", Tag(TRUE, t.tag.name, {}, t.tag.attr)), i, c)
      [] OTHER -> RawText(t, c)

Read(t, i, c) ==
    CASE t.mode = "data" -> Data(t, c)
      [] t.mode = "open" ->
           CASE c \in Letters -> OpensStart(t, c)
             [] c = "/" -> In(t, "endOpen")
             [] c = "!" -> In(t, "markup")
             [] OTHER -> Data(t, c)
      [] t.mode = "endOpen" -> IF c \in Letters THEN OpensEnd(t, c) ELSE Bogus(t, c)
      [] t.mode = "tagName" -> TagName(t, i, c)
      [] t.mode \in {"beforeAttr", "afterQuoted"} -> BeforeAttr(t, i, c)
      [] t.mode = "slash" -> IF c = ">" THEN EmitsSlashed(t) ELSE BeforeAttr(t, i, c)
      [] t.mode = "attrName" -> AttrName(t, i, c)
      [] t.mode = "afterName" -> AfterName(t, i, c)
      [] t.mode = "beforeValue" -> BeforeValue(t, i, c)
      [] t.mode \in Quotes -> IF c = t.mode THEN In(Quoted(t, i), "afterQuoted") ELSE t
      [] t.mode = "unquoted" -> Unquoted(t, i, c)
      [] t.mode = "markup" -> IF c = "-" THEN In(t, "markupDash") ELSE Bogus(t, c)
      [] t.mode = "markupDash" -> IF c = "-" THEN In(t, "commentStart") ELSE Bogus(t, c)
      [] t.mode = "bogus" -> Bogus(t, c)
      [] t.mode = "commentStart" ->
           IF c = ">" THEN Odd(In(t, "data"))
           ELSE In(t, IF c = "-" THEN "commentStartDash" ELSE "comment")
      [] t.mode = "commentStartDash" ->
           IF c = ">" THEN Odd(In(t, "data"))
           ELSE In(t, IF c = "-" THEN "commentEnd" ELSE "comment")
      [] t.mode = "comment" -> Comment(t, c)
      [] t.mode = "commentDash" -> In(t, IF c = "-" THEN "commentEnd" ELSE "comment")
      [] t.mode = "commentEnd" ->
           In(t, CASE c = ">" -> "data" [] c = "!" -> "commentBang"
                   [] c = "-" -> "commentEnd" [] OTHER -> "comment")
      [] t.mode = "commentBang" ->
           IF c = ">" THEN Odd(In(t, "data")) ELSE Comment(t, c)
      [] t.mode = "raw" -> RawText(t, c)
      [] t.mode = "rawOpen" -> IF c = "/" THEN In(t, "rawEnd") ELSE RawText(t, c)
      [] t.mode = "rawEnd" -> RawEnd(t, i, c)

\* The state after each of a document's characters, and after all.
Tokens(s) ==
    LET t[i \in 0 .. Len(s)] == IF i = 0 THEN Fresh ELSE Read(t[i - 1], i, s[i])
    IN  t
Tokenized(s) == Tokens(s)[Len(s)]

\* A document that ends outside of any tag and has none of those errors.
Outside == {"data", "raw", "bogus", "comment", "open", "rawOpen", "rawEnd"}
Ordinary(s) == ~Tokenized(s).odd /\ Tokenized(s).mode \in Outside

\* The spans of some of its tags that are to be replaced or left out, and all.
TouchOf(s, tag) ==
    {TouchedSpan(tag, a) : a \in {a \in tag.attrs : IsTouched(s, tag, a)}}
TouchOfAll(s, tags) == UNION {TouchOf(s, tag) : tag \in tags}
ToTouch(s) == TouchOfAll(s, Tokenized(s).tags)

\* No '<' is inside of an end tag or of a comment without dashes.
ClosesAnything(t) ==
    \/ t.mode \in {"endOpen", "markup", "markupDash", "bogus"}
    \/ t.mode \in {"tagName", "beforeAttr", "slash"} /\ t.tag.closing
ClosesPlainly(s) == \A i \in DOMAIN s : s[i] = "<" => ~ClosesAnything(Tokens(s)[i - 1])
=============================================================================
