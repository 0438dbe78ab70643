----------------------------- MODULE MCCookieJar -----------------------------
(* A site, a host inside it, another site whose name has one label; Domains   *)
(* that are the site's, the inner host's, a whole suffix.                     *)
EXTENDS CookieJar

SiteHosts == {<<"com", "google">>, <<"com", "google", "www">>, <<"localhost">>}
SiteDomains == {<<"com", "google">>, <<"com", "google", "www">>, <<"com">>}

SomePayloads == {[value |-> "a", httpOnly |-> FALSE], [value |-> "b", httpOnly |-> TRUE]}
=============================================================================
