------------------------------- MODULE Config -------------------------------
(***************************************************************************)
(* What the server makes of its environment: config.Load and validate      *)
(* (server/internal/config/config.go) and the parts server.New builds from *)
(* the result (server/internal/server/server.go).  An environment gives    *)
(* each variable's value as Load can tell it from others; "" is a variable *)
(* that is not set, or set to nothing, but for ACCESS_STORE_PATH, of which *)
(* that makes a difference.  Variables that share a parser and a check     *)
(* have one representative, and so have the paths that are not empty.      *)
(***************************************************************************)
EXTENDS Naturals

Environments ==
    [ENV : {"", "development", "production", "other"},
     LISTEN_ADDR : {"", "a", "b"}, METRICS_ADDR : {"", "a", "b"}, ADMIN_ADDR : {"", "a", "b"},
     LOG_FORMAT : {"", "json", "other"}, LOG_LEVEL : {"", "info", "other"},
     SHUTDOWN_TIMEOUT : {"", "20s", "0s", "typo"},
     PROXY_REWRITE_MAX_BYTES : {"", "8388608", "0", "typo"},
     ACCESS_LOG : {"", "true", "false", "typo"},
     PROXY_ENABLED : {"", "true", "false", "typo"},
     PROXY_REQUIRE_TOKEN : {"", "true", "false", "typo"},
     PROXY_ALLOW_OPEN_RELAY : {"", "true", "false", "typo"},
     ADMIN_ENABLED : {"", "true", "false", "typo"},
     ADMIN_PASSWORD_HASH : {"", "hash", "other"},
     PUBLIC_URL : {"", "https://proxy", "other"},
     ACCESS_STORE_PATH : {"unset", ""}]

\* A variable that is misspelt, which getBool, getInt64 and getDuration report.
Bools == {"ACCESS_LOG", "PROXY_ENABLED", "PROXY_REQUIRE_TOKEN",
          "PROXY_ALLOW_OPEN_RELAY", "ADMIN_ENABLED"}
Numbers == {"SHUTDOWN_TIMEOUT", "PROXY_REWRITE_MAX_BYTES"}

\* Mutant: a boolean that does not parse is quietly its default.
NumbersParse(env) == \A v \in Numbers : env[v] # "typo"

Parses(env) == \A v \in Bools \cup Numbers : env[v] # "typo"

-----------------------------------------------------------------------------
getString(value, default) == IF value = "" THEN default ELSE value
\* A value that is set is taken, if it is empty too.
getStringAllowEmpty(value, default) == IF value = "unset" THEN default ELSE value
\* All defaults of booleans modelled here are false.
getBool(value) == value = "true"

\* The configuration an environment stands for, valid or not.
Loaded(env) ==
    [listen |-> getString(env.LISTEN_ADDR, "127.0.0.1:8080"),
     metrics |-> getString(env.METRICS_ADDR, "127.0.0.1:9090"),
     admin |-> getString(env.ADMIN_ADDR, "127.0.0.1:8081"),
     accessLog |-> getBool(env.ACCESS_LOG),
     proxyEnabled |-> getBool(env.PROXY_ENABLED),
     requireToken |-> getBool(env.PROXY_REQUIRE_TOKEN),
     allowOpenRelay |-> getBool(env.PROXY_ALLOW_OPEN_RELAY),
     adminEnabled |-> getBool(env.ADMIN_ENABLED),
     hash |-> env.ADMIN_PASSWORD_HASH,
     publicURL |-> env.PUBLIC_URL,
     accessStorePath |->
       getStringAllowEmpty(env.ACCESS_STORE_PATH, "/var/lib/bumshi/access.json")]

\* validate, of the proxy: only one that is switched on,
ProxyIsValid(env) ==
    Loaded(env).proxyEnabled =>
        /\ env.PROXY_REWRITE_MAX_BYTES # "0"
        /\ Loaded(env).requireToken \/ Loaded(env).allowOpenRelay

\* of the panel,
PanelIsValid(env) ==
    Loaded(env).adminEnabled =>
        /\ env.PUBLIC_URL # ""
        /\ Loaded(env).admin \notin {Loaded(env).listen, Loaded(env).metrics}

\* and of the rest.
ServerIsValid(env) ==
    /\ env.ENV # "other" /\ env.LOG_FORMAT # "other" /\ env.LOG_LEVEL # "other"
    /\ env.SHUTDOWN_TIMEOUT # "0s"
    /\ env.PUBLIC_URL # "other"
    /\ Loaded(env).metrics # Loaded(env).listen

\* Load returns a configuration; or else the server does not start.
Loads(env) ==
    Parses(env) /\ ServerIsValid(env) /\ ProxyIsValid(env) /\ PanelIsValid(env)

-----------------------------------------------------------------------------
\* settingsPath: the settings are saved beside the roster, if that is saved.
SettingsOnDisk(env) == Loaded(env).accessStorePath # ""

\* buildProxy: the proxy's routes are mounted if it is on, or could be switched
\* on by the panel,
ProxyMounted(env) == Loaded(env).proxyEnabled \/ Loaded(env).adminEnabled

\* buildAdmin: the panel's listener comes up only with a usable password.
PanelMounted(env) == Loaded(env).adminEnabled /\ Loaded(env).hash = "hash"
=============================================================================
