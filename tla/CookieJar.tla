------------------------------ MODULE CookieJar ------------------------------
(***************************************************************************)
(* Cookies of proxied sites (server/internal/proxy/cookies.go and the      *)
(* shim of document.cookie in webengine/assets/client.js).  The browser    *)
(* has one jar for the proxy's origin, which all sites share.  A cookie is *)
(* stored under a name that begins with a prefix for its scope; the server *)
(* picks prefixes for what a site sets and unpacks them for what is sent   *)
(* to it, and a second implementation, in the page, does both for scripts. *)
(* A host is the sequence of its labels, the top-level one first; the hash *)
(* in a prefix is taken to tell scopes apart.                              *)
(***************************************************************************)
EXTENDS Naturals, Sequences

CONSTANTS Hosts, Domains, Names, Payloads,
    AccessCookie,   \* the name of the proxy's own cookie
    Absent

Labels == UNION {{h[i] : i \in 1 .. Len(h)} : h \in Hosts \cup Domains}

ASSUME HostsAssumption ==
    /\ Hosts \subseteq Seq(Labels) \ {<<>>}
    /\ Domains \subseteq Seq(Labels) \ {<<>>}
    /\ Absent \notin Domains
    /\ Absent \notin [scope : Seq(Labels), domainMatch : BOOLEAN]
ASSUME PayloadsAssumption ==
    Payloads \subseteq [value : {p.value : p \in Payloads}, httpOnly : BOOLEAN]

minScopeLabels == 2

VARIABLES
    jar,    \* the browser's: [prefix, name, value, httpOnly]
    seen    \* the last Cookie header sent to a site, or document.cookie shown

vars == <<jar, seen>>

Prefix(scope, domainMatch) == [scope |-> scope, domainMatch |-> domainMatch]

\* d is h, or h ends in "." followed by d.
Inside(h, d) == Len(d) <= Len(h) /\ SubSeq(h, 1, Len(d)) = d

\* cookies.go: the prefix of a cookie that host h sets with Domain=d.
CookieScope(d, h) ==
    IF d # Absent /\ Len(d) >= minScopeLabels /\ Inside(h, d)
    THEN Prefix(d, TRUE)
    ELSE Prefix(h, FALSE)

\* Mutant: the parent domains are forgotten.
ScopePrefixesOwnOnly(h) == {Prefix(h, FALSE), Prefix(h, TRUE)}

\* cookies.go: every prefix whose cookies belong on a request to h.
ScopePrefixes(h) ==
    {Prefix(h, FALSE), Prefix(h, TRUE)}
    \cup {Prefix(SubSeq(h, 1, n), TRUE) : n \in minScopeLabels .. Len(h) - 1}

\* Mutant: the page stores every cookie under its host alone.
ScriptScopeHostOnly(d, h) == Prefix(h, FALSE)

\* rewriter.js: the same two, for the page.
ScriptScope(d, h) ==
    IF d = Absent THEN Prefix(h, FALSE)
    ELSE IF Len(d) = 1 THEN Prefix(h, FALSE)
    ELSE IF \/ Len(h) < Len(d)
            \/ \E i \in 1 .. Len(d) : h[i] # d[i]
    THEN Prefix(h, FALSE)
    ELSE Prefix(d, TRUE)

ScriptPrefixes(h) ==
    {Prefix(h, FALSE), Prefix(h, TRUE)}
    \cup {Prefix(SubSeq(h, 1, n), TRUE) : n \in 2 .. Len(h) - 1}

Prefixes ==
    {Prefix(s, TRUE) : s \in {s \in Hosts \cup Domains : Len(s) >= minScopeLabels}}
    \cup {Prefix(h, FALSE) : h \in Hosts}

Packed == [prefix : Prefixes, name : Names,
           value : {p.value : p \in Payloads}, httpOnly : BOOLEAN]

\* The cookie AuthHandler sets has no prefix.
Own == [prefix : {Absent}, name : {AccessCookie},
        value : {p.value : p \in Payloads}, httpOnly : {TRUE}]

Views == [by : {"site", "script"}, host : Hosts, cookies : SUBSET Packed]

ASSUME ViewsAssumption == Absent \notin Views

TypeOK ==
    /\ jar \subseteq Packed \cup Own
    /\ \A c, e \in jar : c.prefix = e.prefix /\ c.name = e.name => c = e
    /\ seen \in Views \cup {Absent}

Init == jar = {} /\ seen = Absent

\* The browser stores one cookie under a name.
Without(prefix, n) == {c \in jar : c.prefix # prefix \/ c.name # n}

Stored(prefix, n, p) ==
    Without(prefix, n)
    \cup {[prefix |-> prefix, name |-> n, value |-> p.value, httpOnly |-> p.httpOnly]}

\* copyResponseHeaders packs each Set-Cookie of a response from h, keeping
\* HttpOnly and the expiry and dropping Domain; it drops what does not parse.
SetCookie(h, d, n, p) ==
    /\ jar' = Stored(CookieScope(d, h), n, p)
    /\ seen' = Absent

\* ... an expiry in the past, or Max-Age=0
ExpireCookie(h, d, n) ==
    /\ jar' = Without(CookieScope(d, h), n)
    /\ seen' = Absent

\* The browser lets no script touch an HttpOnly cookie.
ScriptMayWrite(prefix, n) ==
    \A c \in jar : c.prefix = prefix /\ c.name = n => ~c.httpOnly

\* A script on a page of h assigns document.cookie; the shim drops Path, moves
\* Domain into the prefix and leaves the rest to the browser.
ScriptSet(h, d, n, p) ==
    /\ ~p.httpOnly
    /\ ScriptMayWrite(ScriptScope(d, h), n)
    /\ jar' = Stored(ScriptScope(d, h), n, p)
    /\ seen' = Absent

ScriptExpire(h, d, n) ==
    /\ ScriptMayWrite(ScriptScope(d, h), n)
    /\ jar' = Without(ScriptScope(d, h), n)
    /\ seen' = Absent

\* A request or a WebSocket handshake to h: unpackCookies.
SendCookies(h) ==
    /\ seen' = [by |-> "site", host |-> h,
                cookies |-> {c \in jar : c.prefix \in ScopePrefixes(h)}]
    /\ UNCHANGED jar

\* A script on a page of h reads document.cookie.
ReadCookies(h) ==
    /\ seen' = [by |-> "script", host |-> h,
                cookies |-> {c \in jar : c.prefix \in ScriptPrefixes(h) /\ ~c.httpOnly}]
    /\ UNCHANGED jar

\* AuthHandler, when the user's client opens with its access token.
Authenticate(p) ==
    /\ jar' = Stored(Absent, AccessCookie, [p EXCEPT !.httpOnly = TRUE])
    /\ UNCHANGED seen

Next ==
    \/ \E h \in Hosts, d \in Domains \cup {Absent}, n \in Names :
         \/ \E p \in Payloads : SetCookie(h, d, n, p) \/ ScriptSet(h, d, n, p)
         \/ ExpireCookie(h, d, n) \/ ScriptExpire(h, d, n)
    \/ \E h \in Hosts : SendCookies(h) \/ ReadCookies(h)
    \/ \E p \in Payloads : Authenticate(p)

Spec == Init /\ [][Next]_vars

-----------------------------------------------------------------------------
\* A site gets its own cookies, all of them, and neither another site's nor
\* the access token: what is sent in a request and what document.cookie shows
\* is what SiteCookies says, one cookie per name and audience.
Unpack(c) ==
    [domain |-> c.prefix.scope, exact |-> ~c.prefix.domainMatch, name |-> c.name,
     value |-> c.value, httpOnly |-> c.httpOnly]

Unpacked(cs) == {Unpack(c) : c \in cs}

PackedIn(cs) == {c \in cs : c.prefix # Absent}

Sites == INSTANCE SiteCookies WITH
    cookies <- Unpacked(PackedIn(jar)),
    own <- {c.value : c \in jar \ PackedIn(jar)},
    seen <- IF seen = Absent THEN Absent
            ELSE [seen EXCEPT !.cookies = Unpacked(seen.cookies)]

SitesGetTheirOwn == Sites!Spec

\* A response and a script that set, or expire, the same cookie mean the same
\* one.  (Two copies of it would both be sent, which client.js tells a site
\* takes for tampering.)
SameCookie ==
    \A h \in Hosts, d \in Domains \cup {Absent}, n \in Names :
        /\ \A p \in Payloads :
             SetCookie(h, d, n, p) \/ ScriptSet(h, d, n, p) => Sites!Write(h, d, n, p)
        /\ ExpireCookie(h, d, n) \/ ScriptExpire(h, d, n) => Sites!Delete(h, d, n)
ServerAndScriptAgree == [][SameCookie]_vars
=============================================================================
