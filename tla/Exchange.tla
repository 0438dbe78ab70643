----------------------------- MODULE Exchange -----------------------------
(***************************************************************************)
(* What the proxy changes of one request and of the page that answers it   *)
(* (server/internal/proxy/proxy.go, serveHTTP and serveRewritten, for a    *)
(* document within the limit): who is asking, the markup, the injected     *)
(* runtime (webengine/webengine.go) and the policy the browser is sent.    *)
(* The interleaving of requests, and the bodies that are streamed, are     *)
(* ProxyRequest's.                                                         *)
(***************************************************************************)
EXTENDS RequestIdentity, ContentPolicy, HtmlReference

CONSTANTS
    Target,     \* the origin of the page that is asked for
    Exchanges   \* what may be asked and answered: records of sets to choose from
ASSUME ExchangesAssumption ==
    \A x \in Exchanges :
        /\ \A in \in x.asked : Labelled(in)
        /\ x.headers \subseteq Seq(Policy)
        /\ x.doc \subseteq Seq(STRING)

VARIABLES
    pc,
    asked,      \* the request's headers, as the browser sent them
    headers,    \* the policies the site sent, one of each header of that name
    doc,        \* the document
    sent,       \* the request's headers, as the site was sent them
    base,       \* what documentBase took the base from
    pos, out,   \* how far the scanner is, and the spans it has written
    bootstrap,  \* where the runtime was injected, 0 if it was not
    policies    \* the policies the browser is sent

vars == <<pc, asked, headers, doc, sent, base, pos, out, bootstrap, policies>>
given == <<asked, headers, doc>>

Init ==
    /\ \E x \in Exchanges :
         asked \in x.asked /\ headers \in x.headers /\ doc \in x.doc
    /\ pc = "request"
    /\ sent = <<>>
    /\ base = <<>>
    /\ pos = 1 /\ out = <<>>
    /\ bootstrap = 0
    /\ policies = <<>>

Ask ==
    /\ pc = "request"
    /\ sent' = Upstream(asked, Target)
    /\ pc' = "answer"
    /\ UNCHANGED <<given, base, pos, out, bootstrap, policies>>

\* The site has answered; HTML finds the base and begins to scan.
Answered ==
    /\ pc = "answer"
    /\ base' = documentBase(doc)
    /\ pc' = "scan"
    /\ UNCHANGED <<given, sent, pos, out, bootstrap, policies>>

Writes(spans) ==
    /\ out' = out \o spans
    /\ pos' = Last(spans).to
    /\ UNCHANGED <<pc, given, sent, base, bootstrap, policies>>

\* htmlScanner.run: text up to the next '<',
ScanText ==
    /\ pc = "scan" /\ pos <= Len(doc) /\ doc[pos] # "<"
    /\ Writes(<<Span(pos, FirstOf(doc, pos, {"<"}), "copied")>>)

\* or what begins with one.
ScanMarkup ==
    /\ pc = "scan" /\ pos <= Len(doc) /\ doc[pos] = "<"
    /\ Writes(Turn(doc, pos))

ScanEnds ==
    /\ pc = "scan" /\ pos > Len(doc)
    /\ pc' = "inject"
    /\ UNCHANGED <<given, sent, base, pos, out, bootstrap, policies>>

-----------------------------------------------------------------------------
\* The rewritten document is searched: what is left of the original, and the
\* proxied addresses it was given, which hold no '<' and no '>'.
Replaced(i) == \E k \in DOMAIN out :
    out[k].how # "copied" /\ out[k].how # "css" /\ i \in out[k].from .. out[k].to - 1

headOpenTag ==
    LET n == 1 + Len(HeadTag)
    IN  SelectInSeq([i \in DOMAIN doc |->
                       /\ At(doc, i, <<"<">> \o HeadTag) /\ ~Replaced(i)
                       /\ i + n <= Len(doc) /\ doc[i + n] \in TagNameEnds],
                    LAMBDA here : here)

\* The first '>' from there on,
PastHead ==
    IF headOpenTag = 0 THEN 0
    ELSE SelectInSubSeq([i \in DOMAIN doc |-> doc[i] = ">" /\ ~Replaced(i)],
                        headOpenTag, Len(doc), LAMBDA here : here)

\* Mutant: the runtime goes before that character.
InjectBefore == IF PastHead = 0 THEN 1 ELSE PastHead

\* after which the runtime goes, or before everything.
InjectAt == IF PastHead = 0 THEN 1 ELSE PastHead + 1

Inject ==
    /\ pc = "inject"
    /\ bootstrap' = IF shouldInject(asked) THEN InjectAt ELSE 0
    /\ pc' = "respond"
    /\ UNCHANGED <<given, sent, base, pos, out, policies>>

Respond ==
    /\ pc = "respond"
    /\ policies' = SentPolicies(headers)
    /\ pc' = "done"
    /\ UNCHANGED <<given, sent, base, pos, out, bootstrap>>

Next == Ask \/ Answered \/ ScanText \/ ScanMarkup \/ ScanEnds \/ Inject \/ Respond

Spec == Init /\ [][Next]_vars

-----------------------------------------------------------------------------
\* Three rules of a browser that asks a site directly hold of what the site is
\* told: a navigation goes to a document, only what nobody initiated has no
\* initiator, and the page in the Referer is where the request claims to come
\* from.  What Origin says is OriginIsCoherent's; that a browser sends nothing
\* cross-site in the mode "same-origin" is not among them.
IdentityIsCoherent ==
    pc # "request" /\ SpeaksFetchMetadata(asked) =>
        Navigates(sent) /\ Initiated(sent) /\ PageIsOf(sent, Target)

\* "a combination no browser can produce is a cheap, reliable bot signal":
\* Origin and Sec-Fetch-Site tell of the same initiator.
OriginIsCoherent ==
    pc # "request" /\ SpeaksFetchMetadata(asked) => OriginIsOf(sent, Target)

\* At any point the scanner has written every character it has passed, once and
\* in order, be tags cut off, attributes nameless or raw text unclosed.
NothingLost ==
    /\ \A k \in DOMAIN out :
         /\ out[k].from = (IF k = 1 THEN 1 ELSE out[k - 1].to)
         /\ out[k].from <= out[k].to
    /\ pos = IF out = <<>> THEN 1 ELSE Last(out).to
    /\ pos <= Len(doc) + 1

Touches == {out[k] : k \in {k \in DOMAIN out : out[k].how \in {"replaced", "dropped"}}}

\* Of an ordinary document exactly those values are replaced, and those <base>
\* left out, that a browser takes for attributes of its tags, and nothing that
\* looks like one inside of text, comments, scripts or other values; and the
\* base references are resolved by is one of those left out, as long as no '<'
\* is inside of an end tag or of a comment without dashes.
MarkupIsUnderstood ==
    pc = "inject" /\ Ordinary(doc) =>
        /\ Touches = ToTouch(doc)
        /\ base # <<>> /\ ClosesPlainly(doc) => base[1] \in Touches

\* The runtime is injected where the browser reads markup, provided that the
\* <head found begins a tag, and is not in a comment, a script or a value, and
\* that the '>' found from there on is not in one of that tag's quoted values;
HeadIsPlain ==
    headOpenTag = 0 \/
    /\ Tokens(doc)[headOpenTag - 1].mode = "data"
    /\ Tokens(doc)[InjectAt - 1].mode \notin Quotes
RuntimeIsMarkup ==
    pc = "respond" /\ bootstrap > 0 /\ Ordinary(doc) /\ HeadIsPlain =>
        Tokens(doc)[bootstrap - 1].mode = "data"

\* and may run wherever the site's policy has any script run, as long as there
\* is a nonce to give it: a policy's sandbox passes as it is, and without
\* allow-scripts the page runs neither scripts of its own nor the runtime.
RuntimeIsAllowed ==
    pc = "done" /\ Nonce # "" /\ headers # <<>> /\ ScriptsRun(Head(headers)) =>
        \A i \in DOMAIN policies : Runtime(policies[i])

\* Of a site that sends one policy header, everything the policy decides is
\* decided as before, except that inline code may be refused, and that what may
\* be fetched by its address also may where the browser would have ignored an
\* expression; what is not allowed otherwise stays so.
Kept == {"vouched", "eval", "dataImage"}
FetchedAsBefore(before, after, misread) ==
    (before => after) /\ (after => before \/ misread)
PolicySurvives ==
    pc = "done" /\ Len(headers) = 1 =>
        LET policy == headers[1]
            before == Decision(policy)
            after == IF policies = <<>> THEN Decision(<<>>) ELSE Decision(policies[1])
        IN  /\ \A what \in Kept : after[what] = before[what]
            /\ FetchedAsBefore(before.fetchScript, after.fetchScript,
                               Misread(policy, ScriptNames))
            /\ FetchedAsBefore(before.fetchImage, after.fetchImage,
                               Misread(policy, ImageNames))
            /\ after.inlineScript => before.inlineScript
            /\ after.inlineStyle => before.inlineStyle

\* "the site's decisions about inline script, eval, framing and form targets
\* survive intact."
InlineDecisionsSurvive ==
    pc = "done" /\ Len(headers) = 1 =>
        LET before == Decision(headers[1])
            after == IF policies = <<>> THEN Decision(<<>>) ELSE Decision(policies[1])
        IN  /\ after.inlineScript = before.inlineScript
            /\ after.inlineStyle = before.inlineStyle
=============================================================================
