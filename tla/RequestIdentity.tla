-------------------------- MODULE RequestIdentity --------------------------
(***************************************************************************)
(* What a request tells the site about who is asking: Origin, Referer and  *)
(* the Sec-Fetch-* headers, which arrive describing the proxy and leave    *)
(* describing the target (server/internal/proxy/proxy.go).  A host is the  *)
(* sequence of its labels.  The cookies are CookieJar's.                   *)
(***************************************************************************)
EXTENDS Sequences, SequencesExt

\* Header values, and "" for a header that is not sent.
Modes == {"", "navigate", "cors", "no-cors", "same-origin"}
Dests == {"", "empty", "document", "iframe", "script", "image"}
Sites == {"", "none", "same-origin", "same-site", "cross-site"}
Absent == [scheme |-> "", host |-> <<>>]

\* What the browser sends the proxy: whether it names an origin, and the page
\* its Referer decodes to, if it does decode.
Incoming(mode, dest, site, origin, page) ==
    [mode |-> mode, dest |-> dest, site |-> site, origin |-> origin, page |-> page]

\* What browsers, and WebViews, label as a navigation goes to a document or a
\* frame, where it names the destination.
Labelled(in) ==
    in.mode = "navigate" => in.dest \in {"", "empty", "document", "iframe"}

-----------------------------------------------------------------------------
registrableDomain(host) ==
    IF Len(host) < 2 THEN host ELSE SubSeq(host, Len(host) - 1, Len(host))

secFetchSite(referer, target) ==
    CASE referer = Absent -> "none"
      [] referer = target -> "same-origin"
      [] OTHER -> IF registrableDomain(referer.host) = registrableDomain(target.host)
                  THEN "same-site" ELSE "cross-site"

\* Mutant: a request without a Referer that names its origin claims to have had
\* no initiator.
UpstreamSiteUnchecked(in, target) ==
    LET site == secFetchSite(in.page, target)
    IN  IF in.site = "" THEN ""
        ELSE IF site = "none" /\ in.mode # "navigate" THEN "same-origin"
        ELSE site

\* setFetchMetadata, Sec-Fetch-Site.
UpstreamSite(in, target) ==
    LET site == secFetchSite(in.page, target)
    IN  IF in.site = "" THEN ""
        ELSE IF site = "none" /\ (in.mode # "navigate" \/ in.origin) THEN "same-origin"
        ELSE site

\* setFetchMetadata, Sec-Fetch-Dest.
UpstreamDest(in) ==
    IF in.mode = "navigate" /\ in.dest \in {"", "empty"} THEN "document" ELSE in.dest

SpeaksFetchMetadata(in) == in.mode # "" \/ in.dest # ""

\* copyRequestHeaders, which lets Sec-Fetch-* through and drops Origin and
\* Referer, then setRequestIdentity.
Upstream(in, target) ==
    [mode |-> in.mode,
     dest |-> IF SpeaksFetchMetadata(in) THEN UpstreamDest(in) ELSE in.dest,
     site |-> IF SpeaksFetchMetadata(in) THEN UpstreamSite(in, target) ELSE in.site,
     origin |-> IF in.origin THEN target ELSE Absent,
     referer |-> in.page]

\* The runtime belongs into what is being navigated to, not into a fragment.
shouldInject(in) ==
    in.mode = "navigate" \/ in.dest \in {"", "document", "iframe"}

-----------------------------------------------------------------------------
\* Rules every browser keeps, from what the code says of them and the standard
\* it refers to.  A navigation's destination is a document or a frame; only a
\* navigation that names no initiator has none.
Navigates(out) == out.mode = "navigate" => out.dest \in {"document", "iframe"}
Initiated(out) ==
    out.site = "none" =>
        out.mode = "navigate" /\ out.origin = Absent /\ out.referer = Absent

\* The page a request comes from stands to the target as the request claims.
PageIsOf(out, target) ==
    out.site # "" /\ out.referer # Absent =>
        CASE out.site = "same-origin" -> out.referer = target
          [] out.site = "same-site" -> out.referer # target
          [] out.site = "cross-site" ->
               registrableDomain(out.referer.host) # registrableDomain(target.host)
          [] OTHER -> FALSE

\* An Origin names the initiator: the target itself only of its own requests.
OriginIsOf(out, target) ==
    out.site # "" /\ out.origin # Absent =>
        (out.origin = target <=> out.site = "same-origin")
=============================================================================
