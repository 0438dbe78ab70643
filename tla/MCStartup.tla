----------------------------- MODULE MCStartup -----------------------------
EXTENDS Startup, TLC

\* Everything off; the proxy on and the log off; a module switched on alone; a
\* client that names generic itself; and a misspelt module.
MCRequests ==
    {[proxyEnabled |-> FALSE, accessLog |-> FALSE, modules |-> <<>>],
     [proxyEnabled |-> TRUE, accessLog |-> FALSE, modules |-> <<>>],
     [proxyEnabled |-> TRUE, accessLog |-> TRUE,
      modules |-> [m \in {"youtube"} |-> TRUE]],
     [proxyEnabled |-> TRUE, accessLog |-> FALSE,
      modules |-> [m \in {"generic"} |-> FALSE]],
     [proxyEnabled |-> FALSE, accessLog |-> FALSE,
      modules |-> [m \in {"bogus"} |-> TRUE]]}

Unset ==
    [ACCESS_STORE_PATH |-> "unset"] @@
    [v \in {"ENV", "LISTEN_ADDR", "METRICS_ADDR", "ADMIN_ADDR", "LOG_FORMAT", "LOG_LEVEL",
            "SHUTDOWN_TIMEOUT", "PROXY_REWRITE_MAX_BYTES", "ACCESS_LOG", "PROXY_ENABLED",
            "PROXY_REQUIRE_TOKEN", "PROXY_ALLOW_OPEN_RELAY", "ADMIN_ENABLED",
            "ADMIN_PASSWORD_HASH", "PUBLIC_URL"} |-> ""]
WithPanel ==
    [Unset EXCEPT !.ADMIN_ENABLED = "true", !.ADMIN_PASSWORD_HASH = "hash",
                  !.PUBLIC_URL = "https://proxy"]

\* The panel with the proxy on behind tokens, with the proxy off, without a
\* password, and with nothing saved; an acknowledged relay with the log on.
\* Those that are to be refused: tokens misspelt, an open relay, the panel on
\* the proxy's address, the panel without an address for its links.
MCEnvs ==
    {[WithPanel EXCEPT !.PROXY_ENABLED = "true", !.PROXY_REQUIRE_TOKEN = "true"],
     WithPanel,
     [WithPanel EXCEPT !.ADMIN_PASSWORD_HASH = ""],
     [WithPanel EXCEPT !.ACCESS_STORE_PATH = ""],
     [Unset EXCEPT !.PROXY_ENABLED = "true", !.PROXY_ALLOW_OPEN_RELAY = "true",
                   !.ACCESS_LOG = "true"],
     [WithPanel EXCEPT !.PROXY_REQUIRE_TOKEN = "typo"],
     [WithPanel EXCEPT !.PROXY_ENABLED = "true"],
     [WithPanel EXCEPT !.LISTEN_ADDR = "a", !.ADMIN_ADDR = "a"],
     [WithPanel EXCEPT !.PUBLIC_URL = ""]}
=============================================================================
