----------------------------- MODULE SiteCookies -----------------------------
(***************************************************************************)
(* What a site is promised about its cookies when it is browsed through    *)
(* the proxy: there is one cookie for each name and audience, whoever      *)
(* writes it, and a request to a host carries exactly the cookies whose    *)
(* audience that host belongs to.  Nothing is said of how cookies are      *)
(* stored or named.                                                        *)
(***************************************************************************)
EXTENDS Naturals, Sequences

CONSTANTS
    Hosts,      \* each the sequence of its labels, the top-level one first
    Domains,    \* the values of Domain attributes
    Names,
    Payloads,   \* what a cookie carries: [value, httpOnly]
    Absent

VARIABLES
    cookies,    \* [domain, exact, name, value, httpOnly]
    own,        \* the proxy's own cookie, its access token: at most one
    seen        \* what was last sent to a site or shown to a script

vars == <<cookies, own, seen>>

Init == cookies = {} /\ own = {} /\ seen = Absent

\* The host is the domain, or inside it.
Covers(d, h) ==
    /\ Len(d) <= Len(h)
    /\ \A i \in 1 .. Len(d) : d[i] = h[i]

\* A Domain of a single label, or one the host is not inside, counts for nothing.
Claims(h, d) == d # Absent /\ Len(d) > 1 /\ Covers(d, h)

Same(c, h, d, n) ==
    /\ c.name = n
    /\ c.exact = ~Claims(h, d)
    /\ c.domain = IF Claims(h, d) THEN d ELSE h

Cookie(h, d, n, p) ==
    [domain |-> IF Claims(h, d) THEN d ELSE h, exact |-> ~Claims(h, d),
     name |-> n, value |-> p.value, httpOnly |-> p.httpOnly]

Erase(h, d, n) == {c \in cookies : ~Same(c, h, d, n)}

Write(h, d, n, p) ==
    /\ seen' = Absent
    /\ UNCHANGED own
    /\ cookies' = Erase(h, d, n) \cup {Cookie(h, d, n, p)}

Delete(h, d, n) ==
    /\ cookies' = Erase(h, d, n)
    /\ seen' = Absent
    /\ UNCHANGED own

Reaches(c, h) == IF c.exact THEN c.domain = h ELSE Covers(c.domain, h)

Send(h) ==
    /\ seen' = [by |-> "site", host |-> h, cookies |-> {c \in cookies : Reaches(c, h)}]
    /\ UNCHANGED <<cookies, own>>

Show(h) ==
    /\ seen' = [by |-> "script", host |-> h,
                cookies |-> {c \in cookies : Reaches(c, h) /\ ~c.httpOnly}]
    /\ UNCHANGED <<cookies, own>>

SignIn(p) ==
    /\ own' = {p.value}
    /\ UNCHANGED <<cookies, seen>>

Next ==
    \/ \E h \in Hosts : Send(h) \/ Show(h)
    \/ \E h \in Hosts, d \in Domains \cup {Absent}, n \in Names :
         Delete(h, d, n) \/ \E p \in Payloads : Write(h, d, n, p)
    \/ \E p \in Payloads : SignIn(p)

Spec == Init /\ [][Next]_vars
=============================================================================
