--------------------------- MODULE ContentPolicy ---------------------------
(***************************************************************************)
(* The translation of a site's Content-Security-Policy for the proxy's     *)
(* origin (server/internal/proxy/csp.go).  A policy is the sequence of its *)
(* directives, a directive a name and a set of source expressions; names   *)
(* and expressions the translation and a browser treat alike are one.      *)
(* What a browser makes of a policy is modelled, from the standard the     *)
(* code cites, as far as scripts, styles and fetches are concerned.        *)
(***************************************************************************)
EXTENDS Naturals, Sequences, SequencesExt

CONSTANT Nonce      \* what newCSPNonce returns, "" when it fails
ASSUME NonceAssumption == Nonce \in {"", "ours"}

\* Keywords, nonces and hashes, and schemes that never reach the proxy, mean
\* the same on any origin; the keywords that decide nothing asked about here are
\* left out.  "host" stands for every host and every scheme pages are fetched
\* by, "ignored" for what a browser makes nothing of: a quoted keyword that the
\* code does not know, a scheme such as wss: where scripts or images are named.
Portable == {"self", "none", "unsafe-inline", "unsafe-eval", "strict-dynamic",
             "nonce", "hash", "data"}
SourceExpressions == Portable \cup {"host", "ignored"}
SandboxFlags == {"allow-scripts", "allow-forms"}

cspVerbatimDirectives == {"sandbox"}
cspDroppedDirectives == {"report-uri"}
cspScriptDirectives == {"script-src", "script-src-elem", "default-src"}
FetchDirectives == cspScriptDirectives \cup {"style-src", "img-src"}
Directives ==
    {d \in [name : STRING, sources : SUBSET (SourceExpressions \cup SandboxFlags)] :
       d.sources \subseteq
         IF d.name \in cspVerbatimDirectives THEN SandboxFlags ELSE SourceExpressions}
Policy == Seq(Directives)

Directive(name, sources) == [name |-> name, sources |-> sources]

-----------------------------------------------------------------------------
\* Mutant: an expression of the site's own is taken for a host.
TranslatedKeywordsOnly(sources) ==
    {IF s \in Portable \ {"data"} THEN s ELSE "self" : s \in sources}

\* translateCSPSources; what is not known becomes 'self' as a host does.
Translated(sources) == {IF s \in Portable THEN s ELSE "self" : s \in sources}

\* Mutant: default-src, which governs scripts where nothing else does, is
\* forgotten.
GrantedByName(d) ==
    LET sources == Translated(d.sources)
    IN  IF d.name \in cspScriptDirectives \ {"default-src"} /\ Nonce # ""
        THEN (sources \ {"none"}) \cup {Nonce} ELSE sources

\* The injected runtime's nonce, where scripts are governed.
Granted(d) ==
    LET sources == Translated(d.sources)
    IN  IF d.name \in cspScriptDirectives /\ Nonce # ""
        THEN (sources \ {"none"}) \cup {Nonce} ELSE sources

RewrittenDirective(d) ==
    IF d.name \in cspVerbatimDirectives THEN d
    ELSE Directive(d.name, IF Granted(d) = {} THEN {"none"} ELSE Granted(d))

\* rewriteCSP; <<>> when no header is to be sent.
rewriteCSP(policy) ==
    LET written[i \in 0 .. Len(policy)] ==
          IF i = 0 THEN <<>>
          ELSE IF policy[i].name \in cspDroppedDirectives THEN written[i - 1]
          ELSE Append(written[i - 1], RewrittenDirective(policy[i]))
    IN  written[Len(policy)]

\* copyResponseHeaders sends one policy, made of the first header there is.
SentPolicies(headers) ==
    IF headers = <<>> \/ rewriteCSP(Head(headers)) = <<>> THEN <<>>
    ELSE <<rewriteCSP(Head(headers))>>

-----------------------------------------------------------------------------
\* The browser.  The first directive of a name counts, and the first of a list
\* of names that the policy has governs; where there is none all is allowed.
Names(policy) == {policy[i].name : i \in DOMAIN policy}
Sources(policy, name) ==
    policy[SelectInSeq(policy, LAMBDA d : d.name = name)].sources

Governing(policy, names, i) ==
    names[i] \in Names(policy) /\ \A j \in 1 .. i - 1 : names[j] \notin Names(policy)
Governs(policy, names, Permits(_)) ==
    \A i \in DOMAIN names :
        Governing(policy, names, i) => Permits(Sources(policy, names[i]))

\* A sandbox without allow-scripts runs none, whoever wrote it.
ScriptsRun(policy) ==
    "sandbox" \in Names(policy) => "allow-scripts" \in Sources(policy, "sandbox")

ScriptNames == <<"script-src-elem", "script-src", "default-src">>
EvalNames == <<"script-src", "default-src">>
StyleNames == <<"style-src", "default-src">>
ImageNames == <<"img-src", "default-src">>

Unguessable == {"nonce", "hash", "ours"}

\* A nonce or a hash turns 'unsafe-inline' off.
InlineScript(policy) ==
    ScriptsRun(policy) /\ Governs(policy, ScriptNames, LAMBDA s :
        "unsafe-inline" \in s /\ s \cap (Unguessable \cup {"strict-dynamic"}) = {})
InlineStyle(policy) ==
    Governs(policy, StyleNames, LAMBDA s :
        "unsafe-inline" \in s /\ s \cap Unguessable = {})
\* An inline script that carries the site's own nonce or hash.
Vouched(policy) ==
    ScriptsRun(policy) /\ Governs(policy, ScriptNames, LAMBDA s :
        s \cap {"nonce", "hash"} # {})
Eval(policy) ==
    ScriptsRun(policy) /\ Governs(policy, EvalNames, LAMBDA s : "unsafe-eval" \in s)
DataImage(policy) == Governs(policy, ImageNames, LAMBDA s : "data" \in s)
\* Something may be fetched by its address; through the proxy all is 'self'.
FetchScript(policy) ==
    ScriptsRun(policy) /\ Governs(policy, ScriptNames, LAMBDA s :
        s \cap {"self", "host"} # {} /\ "strict-dynamic" \notin s)
FetchImage(policy) ==
    Governs(policy, ImageNames, LAMBDA s : s \cap {"self", "host"} # {})

\* The runtime: scripts of the proxy's origin that carry the nonce, if any.
Runtime(policy) ==
    ScriptsRun(policy) /\ Governs(policy, ScriptNames, LAMBDA s :
        (Nonce # "" /\ Nonce \in s) \/ ("self" \in s /\ "strict-dynamic" \notin s))

\* Among the expressions a fetch is governed by is one a browser ignores.
Misread(policy, names) ==
    \E i \in DOMAIN names :
        Governing(policy, names, i) /\ "ignored" \in Sources(policy, names[i])

\* Everything a policy is asked about that does not depend on an origin.
Decision(policy) ==
    [inlineScript |-> InlineScript(policy), inlineStyle |-> InlineStyle(policy),
     vouched |-> Vouched(policy), eval |-> Eval(policy),
     dataImage |-> DataImage(policy),
     fetchScript |-> FetchScript(policy), fetchImage |-> FetchImage(policy)]
=============================================================================
