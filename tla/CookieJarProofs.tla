--------------------------- MODULE CookieJarProofs ---------------------------
(***************************************************************************)
(* Theorems about CookieJar for any hosts, Domain attributes, names and    *)
(* payloads.  The argument: both implementations find the same scope for a *)
(* cookie, and a prefix is among those of a host exactly when the scope    *)
(* covers it; so taking the prefixes off turns every step into one of      *)
(* SiteCookies.                                                            *)
(***************************************************************************)
EXTENDS CookieJar, TLAPS

\* The leading part of full length is the whole.
LEMMA SubSeqAll ==
    ASSUME NEW h \in Seq(Labels)
    PROVE  SubSeq(h, 1, Len(h)) = h
  OBVIOUS

\* Prefixes differ where their scopes or their letters do.
LEMMA PrefixesDiffer ==
    /\ \A s, t : \A a, b \in BOOLEAN : Prefix(s, a) = Prefix(t, b) <=> s = t /\ a = b
    /\ \A s, t : Prefix(s, FALSE) # Prefix(t, TRUE)
  BY DEF Prefix

LEMMA UnpackFields ==
    ASSUME NEW c, NEW s, NEW b \in BOOLEAN, c.prefix = Prefix(s, b)
    PROVE  Unpack(c).domain = s /\ Unpack(c).exact = ~b
<1>1. c.prefix.scope = s /\ c.prefix.domainMatch = b
  BY DEF Prefix
<1> QED
  BY <1>1 DEF Unpack

\* Comparing a leading part, as the server does, or label by label.
LEMMA InsideCovers ==
    ASSUME NEW h \in Seq(Labels), NEW d \in Seq(Labels)
    PROVE  Inside(h, d) <=> Sites!Covers(d, h)
<1>1. CASE Len(d) <= Len(h)
  <2>1. /\ SubSeq(h, 1, Len(d)) \in Seq(Labels)
        /\ Len(SubSeq(h, 1, Len(d))) = Len(d)
        /\ \A i \in 1 .. Len(d) : SubSeq(h, 1, Len(d))[i] = h[i]
    BY <1>1
  <2> QED
    BY <1>1, <2>1 DEF Inside, Sites!Covers
<1>2. CASE ~(Len(d) <= Len(h))
  BY <1>2 DEF Inside, Sites!Covers
<1> QED
  BY <1>1, <1>2

\* The page finds the scope the server finds.
LEMMA ScopesAgree ==
    ASSUME NEW h \in Hosts, NEW d \in Domains \cup {Absent}
    PROVE  ScriptScope(d, h) = CookieScope(d, h)
<1> USE DEF CookieScope, ScriptScope, minScopeLabels
<1>1. CASE d = Absent
  BY <1>1
<1>2. CASE d \in Domains
  <2>1. h \in Seq(Labels) /\ d \in Seq(Labels) /\ Len(d) \in Nat /\ Len(h) \in Nat
        /\ d # Absent /\ Len(d) # 0
    BY <1>2, HostsAssumption
  <2>2. Inside(h, d) <=> ~(Len(h) < Len(d) \/ \E i \in 1 .. Len(d) : h[i] # d[i])
    BY <2>1, InsideCovers DEF Sites!Covers
  <2>3. (Len(d) >= 2) <=> (Len(d) # 1)
    <3>1. \A n \in Nat \ {0} : n >= 2 <=> n # 1
      OBVIOUS
    <3> HIDE DEF CookieScope, ScriptScope
    <3> QED
      BY <2>1, <3>1
  <2>4. CASE Len(d) >= 2 /\ Inside(h, d)
    <3>1. ScriptScope(d, h) = Prefix(d, TRUE)
      BY <2>1, <2>2, <2>3, <2>4
    <3>2. CookieScope(d, h) = Prefix(d, TRUE)
      BY <2>1, <2>4
    <3> QED
      BY <3>1, <3>2
  <2>5. CASE ~(Len(d) >= 2 /\ Inside(h, d))
    <3>1. ScriptScope(d, h) = Prefix(h, FALSE)
      BY <2>1, <2>2, <2>3, <2>5
    <3>2. CookieScope(d, h) = Prefix(h, FALSE)
      BY <2>1, <2>5
    <3> QED
      BY <3>1, <3>2
  <2> QED
    BY <2>4, <2>5
<1> QED
  BY <1>1, <1>2

\* The scope found is the audience SiteCookies gives the cookie.
LEMMA ScopeIsAudience ==
    ASSUME NEW h \in Hosts, NEW d \in Domains \cup {Absent}
    PROVE  /\ CookieScope(d, h) = Prefix(IF Sites!Claims(h, d) THEN d ELSE h, Sites!Claims(h, d))
           /\ CookieScope(d, h) \in Prefixes
<1> USE HostsAssumption DEF CookieScope, Prefixes, minScopeLabels
<1>1. CASE d = Absent
  BY <1>1 DEF Sites!Claims
<1>2. CASE d \in Domains
  <2>1. h \in Seq(Labels) /\ d \in Seq(Labels) /\ Len(d) \in Nat /\ d # Absent
    BY <1>2
  <2>2. Inside(h, d) <=> Sites!Covers(d, h)
    BY <2>1, InsideCovers
  <2>3. (Len(d) >= 2) <=> (Len(d) > 1)
    BY <2>1
  <2> QED
    BY <1>2, <2>1, <2>2, <2>3 DEF Sites!Claims
<1> QED
  BY <1>1, <1>2

LEMMA PrefixesAgree == \A h : ScriptPrefixes(h) = ScopePrefixes(h)
  BY DEF ScriptPrefixes, ScopePrefixes, minScopeLabels

\* A prefix is never absent.
LEMMA PrefixesPresent ==
    /\ Absent \notin Prefixes
    /\ \A h \in Hosts : Absent \notin ScopePrefixes(h)
<1> USE HostsAssumption
<1>1. \A s \in Seq(Labels), b \in BOOLEAN : Prefix(s, b) # Absent
  BY DEF Prefix
<1>2. Absent \notin Prefixes
  BY <1>1 DEF Prefixes
<1>3. ASSUME NEW h \in Hosts PROVE Absent \notin ScopePrefixes(h)
  <2>1. \A n \in minScopeLabels .. Len(h) - 1 : SubSeq(h, 1, n) \in Seq(Labels)
    BY DEF minScopeLabels
  <2> QED
    BY <1>1, <2>1 DEF ScopePrefixes
<1> QED
  BY <1>2, <1>3

\* The prefixes enumerated for a host are those of the scopes that reach it.
LEMMA PrefixReaches ==
    ASSUME NEW c \in Packed, NEW h \in Hosts
    PROVE  c.prefix \in ScopePrefixes(h) <=> Sites!Reaches(Unpack(c), h)
<1> USE HostsAssumption DEF minScopeLabels
<1> h \in Seq(Labels) /\ Len(h) \in Nat /\ Len(h) # 0
  OBVIOUS
<1>0. c.prefix \in Prefixes
  BY DEF Packed
<1>1. CASE \E g \in Hosts : c.prefix = Prefix(g, FALSE)
  <2>1. PICK g \in Hosts : c.prefix = Prefix(g, FALSE)
    BY <1>1
  <2>2. c.prefix \in ScopePrefixes(h) <=> g = h
    <3>1. Prefix(g, FALSE) = Prefix(h, FALSE) <=> g = h
      BY PrefixesDiffer
    <3>2. \A s : Prefix(g, FALSE) # Prefix(s, TRUE)
      BY PrefixesDiffer
    <3> QED
      BY <2>1, <3>1, <3>2 DEF ScopePrefixes
  <2>3. Sites!Reaches(Unpack(c), h) <=> g = h
    BY <2>1, UnpackFields DEF Sites!Reaches
  <2> QED
    BY <2>2, <2>3
<1>2. CASE \E s \in Hosts \cup Domains : Len(s) >= 2 /\ c.prefix = Prefix(s, TRUE)
  <2>1. PICK s \in Hosts \cup Domains : Len(s) >= 2 /\ c.prefix = Prefix(s, TRUE)
    BY <1>2
  <2>2. s \in Seq(Labels) /\ Len(s) \in Nat
    OBVIOUS
  <2>3. Sites!Reaches(Unpack(c), h) <=> Inside(h, s)
    <3>1. Unpack(c).domain = s /\ Unpack(c).exact = FALSE
      BY <2>1, UnpackFields
    <3>2. Sites!Reaches(Unpack(c), h) <=> Sites!Covers(s, h)
      BY <3>1 DEF Sites!Reaches
    <3> QED
      BY <2>2, <3>2, InsideCovers
  <2>4. c.prefix \in ScopePrefixes(h)
          <=> s = h \/ \E n \in 2 .. Len(h) - 1 : s = SubSeq(h, 1, n)
    <3>1. \A t : Prefix(s, TRUE) = Prefix(t, TRUE) <=> s = t
      BY PrefixesDiffer
    <3>2. Prefix(s, TRUE) # Prefix(h, FALSE)
      BY PrefixesDiffer
    <3>3. c.prefix \in ScopePrefixes(h)
            <=> \/ Prefix(s, TRUE) = Prefix(h, TRUE)
                \/ \E n \in 2 .. Len(h) - 1 : Prefix(s, TRUE) = Prefix(SubSeq(h, 1, n), TRUE)
      BY <2>1, <3>2 DEF ScopePrefixes
    <3>4. \A n \in 2 .. Len(h) - 1 :
            Prefix(s, TRUE) = Prefix(SubSeq(h, 1, n), TRUE) <=> s = SubSeq(h, 1, n)
      BY <3>1, Zenon
    <3>5. Prefix(s, TRUE) = Prefix(h, TRUE) <=> s = h
      BY <3>1, Zenon
    <3> QED
      BY <3>3, <3>4, <3>5, Zenon
  <2>5. ASSUME NEW n \in 2 .. Len(h) - 1, s = SubSeq(h, 1, n) PROVE Inside(h, s)
    <3>1. Len(s) = n
      BY <2>5
    <3> QED
      BY <3>1, <2>5 DEF Inside
  <2>6. Inside(h, h)
    BY SubSeqAll DEF Inside
  <2>7. ASSUME Inside(h, s) PROVE s = h \/ \E n \in 2 .. Len(h) - 1 : s = SubSeq(h, 1, n)
    <3>1. CASE Len(s) = Len(h)
      BY <2>7, <3>1, SubSeqAll DEF Inside
    <3>2. CASE Len(s) # Len(h)
      <4>1. Len(s) \in 2 .. Len(h) - 1
        BY <2>1, <2>2, <2>7, <3>2 DEF Inside
      <4> QED
        BY <4>1, <2>7 DEF Inside
    <3> QED
      BY <3>1, <3>2
  <2> QED
    BY <2>3, <2>4, <2>5, <2>6, <2>7
<1> QED
  BY <1>0, <1>1, <1>2 DEF Prefixes

-----------------------------------------------------------------------------
\* What is written is a cookie, and one with a prefix.
LEMMA WrittenIsPacked ==
    ASSUME NEW h \in Hosts, NEW d \in Domains \cup {Absent}, NEW n \in Names,
           NEW p \in Payloads
    PROVE  [prefix |-> CookieScope(d, h), name |-> n, value |-> p.value,
            httpOnly |-> p.httpOnly] \in Packed
<1>1. p.value \in {q.value : q \in Payloads} /\ p.httpOnly \in BOOLEAN
  BY PayloadsAssumption
<1>2. CookieScope(d, h) \in Prefixes
  BY ScopeIsAudience
<1> QED
  BY <1>1, <1>2 DEF Packed

LEMMA OwnIsOwn ==
    ASSUME NEW p \in Payloads
    PROVE  [prefix |-> Absent, name |-> AccessCookie, value |-> p.value,
            httpOnly |-> TRUE] \in Own
  BY DEF Own

\* With a prefix, or without.
LEMMA PackedOrOwn ==
    /\ \A c \in Packed : c.prefix # Absent
    /\ \A c \in Own : c.prefix = Absent /\ c.name = AccessCookie
  BY PrefixesPresent DEF Packed, Own

\* Type correctness, one name one cookie.
THEOREM TypeCorrect == Spec => []TypeOK
<1>1. Init => TypeOK
  BY DEF Init, TypeOK
<1>2. TypeOK /\ [Next]_vars => TypeOK'
  <2> SUFFICES ASSUME TypeOK, [Next]_vars PROVE TypeOK'
    OBVIOUS
  <2>1. ASSUME NEW h \in Hosts, NEW d \in Domains \cup {Absent}, NEW n \in Names,
               NEW p \in Payloads,
               jar' = Stored(CookieScope(d, h), n, p), seen' = Absent
        PROVE  TypeOK'
    BY <2>1, WrittenIsPacked DEF TypeOK, Stored, Without
  <2>2. ASSUME NEW prefix, NEW n \in Names,
               jar' = Without(prefix, n), seen' = Absent
        PROVE  TypeOK'
    BY <2>2 DEF TypeOK, Without
  <2>3. ASSUME NEW h \in Hosts, SendCookies(h) PROVE TypeOK'
    <3>1. {c \in jar : c.prefix \in ScopePrefixes(h)} \subseteq Packed
      BY PrefixesPresent, PackedOrOwn DEF TypeOK
    <3>2. seen' \in Views
      BY <2>3, <3>1 DEF SendCookies, Views
    <3> QED
      BY <2>3, <3>2 DEF SendCookies, TypeOK
  <2>4. ASSUME NEW h \in Hosts, ReadCookies(h) PROVE TypeOK'
    <3>1. {c \in jar : c.prefix \in ScriptPrefixes(h) /\ ~c.httpOnly} \subseteq Packed
      BY PrefixesPresent, PrefixesAgree, PackedOrOwn DEF TypeOK
    <3>2. seen' \in Views
      BY <2>4, <3>1 DEF ReadCookies, Views
    <3> QED
      BY <2>4, <3>2 DEF ReadCookies, TypeOK
  <2>5. ASSUME NEW p \in Payloads, Authenticate(p) PROVE TypeOK'
    <3>1. jar' = Without(Absent, AccessCookie)
                 \cup {[prefix |-> Absent, name |-> AccessCookie, value |-> p.value,
                        httpOnly |-> TRUE]}
      <4>1. /\ [p EXCEPT !.httpOnly = TRUE].value = p.value
            /\ [p EXCEPT !.httpOnly = TRUE].httpOnly = TRUE
        BY PayloadsAssumption
      <4> QED
        BY <2>5, <4>1 DEF Authenticate, Stored
    <3> DEFINE e == [prefix |-> Absent, name |-> AccessCookie, value |-> p.value,
                     httpOnly |-> TRUE]
    <3>2. e \in Own /\ e.prefix = Absent /\ e.name = AccessCookie
      BY OwnIsOwn
    <3>3. jar' = Without(Absent, AccessCookie) \cup {e}
      BY <3>1
    <3> HIDE DEF e
    <3>4. jar' \subseteq Packed \cup Own
      BY <3>2, <3>3 DEF TypeOK, Without
    <3>5. \A c, f \in jar' : c.prefix = f.prefix /\ c.name = f.name => c = f
      BY <3>2, <3>3 DEF TypeOK, Without
    <3>6. seen' = seen
      BY <2>5 DEF Authenticate
    <3> QED
      BY <3>4, <3>5, <3>6 DEF TypeOK
  <2>6. CASE UNCHANGED vars
    BY <2>6 DEF vars, TypeOK
  <2> QED
    BY <2>1, <2>2, <2>3, <2>4, <2>5, <2>6, ScopesAgree
       DEF Next, SetCookie, ScriptSet, ExpireCookie, ScriptExpire
<1> QED
  BY <1>1, <1>2, PTL DEF Spec

-----------------------------------------------------------------------------
\* Seen through Unpack, taking a cookie's place empties the place SiteCookies
\* gives it.
LEMMA SamePlace ==
    ASSUME NEW c \in Packed, NEW h \in Hosts, NEW d \in Domains \cup {Absent},
           NEW n \in Names
    PROVE  (c.prefix = CookieScope(d, h) /\ c.name = n) <=> Sites!Same(Unpack(c), h, d, n)
<1> DEFINE scope == IF Sites!Claims(h, d) THEN d ELSE h
<1>1. CookieScope(d, h) = Prefix(scope, Sites!Claims(h, d)) /\ Sites!Claims(h, d) \in BOOLEAN
  BY ScopeIsAudience DEF Sites!Claims
<1>2. PICK s \in Hosts \cup Domains, b \in BOOLEAN : c.prefix = Prefix(s, b)
  BY DEF Packed, Prefixes
<1>3. Unpack(c).domain = s /\ Unpack(c).exact = ~b /\ Unpack(c).name = c.name
  BY <1>2, UnpackFields DEF Unpack
<1>4. c.prefix = CookieScope(d, h) <=> s = scope /\ b = Sites!Claims(h, d)
  BY <1>1, <1>2, PrefixesDiffer
<1> QED
  BY <1>1, <1>3, <1>4 DEF Sites!Same

LEMMA Erased ==
    ASSUME TypeOK, NEW h \in Hosts, NEW d \in Domains \cup {Absent}, NEW n \in Names
    PROVE  /\ Unpacked(PackedIn(Without(CookieScope(d, h), n))) = Sites!Erase(h, d, n)
           /\ Without(CookieScope(d, h), n) \ PackedIn(Without(CookieScope(d, h), n))
                = jar \ PackedIn(jar)
<1> DEFINE kept == PackedIn(Without(CookieScope(d, h), n))
<1>1. PackedIn(jar) \subseteq Packed
  BY PackedOrOwn DEF TypeOK, PackedIn
<1>2. \A c \in PackedIn(jar) : c \in kept <=> ~Sites!Same(Unpack(c), h, d, n)
  BY <1>1, SamePlace DEF PackedIn, Without
<1>3. kept \subseteq PackedIn(jar)
  BY DEF PackedIn, Without
<1>4. Unpacked(kept) = Sites!Erase(h, d, n)
  BY <1>2, <1>3 DEF Unpacked, Sites!Erase
<1>5. CookieScope(d, h) # Absent
  BY ScopeIsAudience, PrefixesPresent
<1>6. Without(CookieScope(d, h), n) \ kept = jar \ PackedIn(jar)
  BY <1>5 DEF PackedIn, Without
<1> QED
  BY <1>4, <1>6

LEMMA Written ==
    ASSUME TypeOK, NEW h \in Hosts, NEW d \in Domains \cup {Absent}, NEW n \in Names,
           NEW p \in Payloads, jar' = Stored(CookieScope(d, h), n, p), seen' = Absent
    PROVE  Sites!Write(h, d, n, p)
<1> DEFINE old == Without(CookieScope(d, h), n)
           e == [prefix |-> CookieScope(d, h), name |-> n, value |-> p.value,
                 httpOnly |-> p.httpOnly]
<1>1. jar' = old \cup {e}
  BY DEF Stored
<1>2. e.prefix # Absent /\ Unpack(e) = Sites!Cookie(h, d, n, p)
  <2>1. CookieScope(d, h) = Prefix(IF Sites!Claims(h, d) THEN d ELSE h, Sites!Claims(h, d))
        /\ CookieScope(d, h) # Absent
    BY ScopeIsAudience, PrefixesPresent
  <2> QED
    BY <2>1 DEF Unpack, Prefix, Sites!Cookie
<1> HIDE DEF e, old
<1>3. PackedIn(jar') = PackedIn(old) \cup {e}
  BY <1>1, <1>2 DEF PackedIn
<1>4. jar' \ PackedIn(jar') = old \ PackedIn(old)
  BY <1>1, <1>2 DEF PackedIn
<1>5. Unpacked(PackedIn(old)) = Sites!Erase(h, d, n) /\ old \ PackedIn(old) = jar \ PackedIn(jar)
  BY Erased DEF old
<1>6. Unpacked(PackedIn(jar')) = Sites!Erase(h, d, n) \cup {Sites!Cookie(h, d, n, p)}
  BY <1>2, <1>3, <1>5 DEF Unpacked
<1> QED
  BY <1>4, <1>5, <1>6 DEF Sites!Write

LEMMA Expired ==
    ASSUME TypeOK, NEW h \in Hosts, NEW d \in Domains \cup {Absent}, NEW n \in Names,
           jar' = Without(CookieScope(d, h), n), seen' = Absent
    PROVE  Sites!Delete(h, d, n)
  BY Erased DEF Sites!Delete

\* A response and a script mean the same cookie.
LEMMA SameCookieStep == TypeOK => SameCookie
<1> SUFFICES ASSUME TypeOK, NEW h \in Hosts, NEW d \in Domains \cup {Absent}, NEW n \in Names
             PROVE  /\ \A p \in Payloads :
                         SetCookie(h, d, n, p) \/ ScriptSet(h, d, n, p) => Sites!Write(h, d, n, p)
                    /\ ExpireCookie(h, d, n) \/ ScriptExpire(h, d, n) => Sites!Delete(h, d, n)
  BY DEF SameCookie
<1>1. ScriptScope(d, h) = CookieScope(d, h)
  BY ScopesAgree
<1>2. ASSUME NEW p \in Payloads, SetCookie(h, d, n, p) \/ ScriptSet(h, d, n, p)
      PROVE  Sites!Write(h, d, n, p)
  BY <1>1, <1>2, Written DEF SetCookie, ScriptSet
<1>3. ASSUME ExpireCookie(h, d, n) \/ ScriptExpire(h, d, n) PROVE Sites!Delete(h, d, n)
  BY <1>1, <1>3, Expired DEF ExpireCookie, ScriptExpire
<1> QED
  BY <1>2, <1>3

\* Server and script never make two cookies of one.
THEOREM OneCookie == Spec => ServerAndScriptAgree
<1>1. TypeOK /\ [Next]_vars => [SameCookie]_vars
  BY SameCookieStep
<1> QED
  BY <1>1, TypeCorrect, PTL DEF Spec, ServerAndScriptAgree

-----------------------------------------------------------------------------
\* What is unpacked of the cookies for a host is what reaches that host.
LEMMA Delivered ==
    ASSUME TypeOK, NEW h \in Hosts
    PROVE  LET sent == {c \in jar : c.prefix \in ScopePrefixes(h)} IN
           /\ sent \subseteq Packed
           /\ Unpacked(sent) = {u \in Unpacked(PackedIn(jar)) : Sites!Reaches(u, h)}
           /\ Unpacked({c \in sent : ~c.httpOnly})
                = {u \in Unpacked(PackedIn(jar)) : Sites!Reaches(u, h) /\ ~u.httpOnly}
<1> DEFINE sent == {c \in jar : c.prefix \in ScopePrefixes(h)}
<1>1. PackedIn(jar) \subseteq Packed
  BY PackedOrOwn DEF TypeOK, PackedIn
<1>2. sent \subseteq PackedIn(jar)
  BY PrefixesPresent DEF PackedIn
<1>3. \A c \in PackedIn(jar) : c \in sent <=> Sites!Reaches(Unpack(c), h)
  BY <1>1, PrefixReaches DEF PackedIn
<1>4. \A c : Unpack(c).httpOnly = c.httpOnly
  BY DEF Unpack
<1> HIDE DEF sent
<1>5. Unpacked(sent) = {u \in Unpacked(PackedIn(jar)) : Sites!Reaches(u, h)}
  BY <1>2, <1>3 DEF Unpacked
<1>6. Unpacked({c \in sent : ~c.httpOnly})
        = {u \in Unpacked(PackedIn(jar)) : Sites!Reaches(u, h) /\ ~u.httpOnly}
  BY <1>2, <1>3, <1>4 DEF Unpacked
<1> QED
  BY <1>1, <1>2, <1>5, <1>6 DEF sent

LEMMA Sent == TypeOK => \A h \in Hosts : SendCookies(h) => Sites!Send(h)
<1> SUFFICES ASSUME TypeOK, NEW h \in Hosts, SendCookies(h) PROVE Sites!Send(h)
  OBVIOUS
<1> DEFINE sent == {c \in jar : c.prefix \in ScopePrefixes(h)}
<1>1. seen' = [by |-> "site", host |-> h, cookies |-> sent] /\ jar' = jar
  BY DEF SendCookies
<1>2. sent \subseteq Packed
      /\ Unpacked(sent) = {u \in Unpacked(PackedIn(jar)) : Sites!Reaches(u, h)}
  BY Delivered
<1> HIDE DEF sent
<1>3. seen' # Absent
  BY <1>1, <1>2, ViewsAssumption DEF Views
<1>4. [seen' EXCEPT !.cookies = Unpacked(seen'.cookies)]
        = [by |-> "site", host |-> h,
           cookies |-> {u \in Unpacked(PackedIn(jar)) : Sites!Reaches(u, h)}]
  BY <1>1, <1>2
<1> QED
  BY <1>1, <1>3, <1>4 DEF Sites!Send

LEMMA Shown == TypeOK => \A h \in Hosts : ReadCookies(h) => Sites!Show(h)
<1> SUFFICES ASSUME TypeOK, NEW h \in Hosts, ReadCookies(h) PROVE Sites!Show(h)
  OBVIOUS
<1> DEFINE sent == {c \in jar : c.prefix \in ScopePrefixes(h)}
           shown == {c \in sent : ~c.httpOnly}
           visible == {u \in Unpacked(PackedIn(jar)) : Sites!Reaches(u, h) /\ ~u.httpOnly}
<1>1. seen' = [by |-> "script", host |-> h, cookies |-> shown] /\ jar' = jar
  <2>1. shown = {c \in jar : c.prefix \in ScriptPrefixes(h) /\ ~c.httpOnly}
    BY PrefixesAgree
  <2> QED
    BY <2>1 DEF ReadCookies
<1>2. shown \subseteq Packed /\ Unpacked(shown) = visible
  BY Delivered
<1> HIDE DEF shown, visible
<1>3. seen' # Absent
  BY <1>1, <1>2, ViewsAssumption DEF Views
<1>4. [seen' EXCEPT !.cookies = Unpacked(seen'.cookies)]
        = [by |-> "script", host |-> h, cookies |-> visible]
  BY <1>1, <1>2
<1> QED
  BY <1>1, <1>3, <1>4 DEF Sites!Show, visible

LEMMA SignedIn == TypeOK => \A p \in Payloads : Authenticate(p) => Sites!SignIn(p)
<1> SUFFICES ASSUME TypeOK, NEW p \in Payloads, Authenticate(p) PROVE Sites!SignIn(p)
  OBVIOUS
<1> DEFINE e == [prefix |-> Absent, name |-> AccessCookie, value |-> p.value,
                 httpOnly |-> TRUE]
<1>1. jar' = Without(Absent, AccessCookie) \cup {e}
  <2>1. /\ [p EXCEPT !.httpOnly = TRUE].value = p.value
        /\ [p EXCEPT !.httpOnly = TRUE].httpOnly = TRUE
    BY PayloadsAssumption
  <2> QED
    BY <2>1 DEF Authenticate, Stored
<1>2. e.prefix = Absent /\ e.value = p.value
  OBVIOUS
<1> HIDE DEF e
<1>3. Without(Absent, AccessCookie) = PackedIn(jar)
  BY PackedOrOwn DEF TypeOK, Without, PackedIn
<1>4. PackedIn(jar') = PackedIn(jar) /\ jar' \ PackedIn(jar') = {e}
  BY <1>1, <1>2, <1>3 DEF PackedIn
<1>5. {c.value : c \in jar' \ PackedIn(jar')} = {p.value}
  BY <1>2, <1>4
<1>6. seen' = seen
  BY DEF Authenticate
<1> QED
  BY <1>4, <1>5, <1>6 DEF Sites!SignIn

\* Every step of the jar is one that SiteCookies allows.
THEOREM ImplementsSiteCookies == Spec => SitesGetTheirOwn
<1>1. Init => Sites!Init
  <2> SUFFICES ASSUME Init PROVE Sites!Init
    OBVIOUS
  <2>1. PackedIn(jar) = {} /\ jar \ PackedIn(jar) = {} /\ seen = Absent
    BY DEF Init, PackedIn
  <2> QED
    BY <2>1 DEF Sites!Init, Unpacked
<1>2. TypeOK /\ [Next]_vars => [Sites!Next]_(Sites!vars)
  <2> SUFFICES ASSUME TypeOK, Next PROVE Sites!Next
    <3>1. UNCHANGED vars => UNCHANGED Sites!vars
      BY DEF vars, Sites!vars
    <3> QED
      BY <3>1
  <2>1. CASE \E h \in Hosts, d \in Domains \cup {Absent}, n \in Names :
               \/ \E p \in Payloads : SetCookie(h, d, n, p) \/ ScriptSet(h, d, n, p)
               \/ ExpireCookie(h, d, n) \/ ScriptExpire(h, d, n)
    BY <2>1, SameCookieStep DEF SameCookie, Sites!Next
  <2>2. CASE \E h \in Hosts : SendCookies(h) \/ ReadCookies(h)
    BY <2>2, Sent, Shown DEF Sites!Next
  <2>3. CASE \E p \in Payloads : Authenticate(p)
    BY <2>3, SignedIn DEF Sites!Next
  <2> QED
    BY <2>1, <2>2, <2>3 DEF Next
<1> QED
  BY <1>1, <1>2, TypeCorrect, PTL DEF Spec, Sites!Spec, SitesGetTheirOwn
=============================================================================
