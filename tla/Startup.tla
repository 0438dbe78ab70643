------------------------------ MODULE Startup ------------------------------
(***************************************************************************)
(* The configuration, the live settings and the panel put together, as     *)
(* server.New does: at every start the settings are seeded from an         *)
(* environment the operator may have edited and overlaid with the file the *)
(* panel's changes were saved to; the panel, where it is mounted, changes  *)
(* them; the proxy, where it is mounted, asks them and, whether a token is *)
(* needed, the configuration.                                              *)
(***************************************************************************)
EXTENDS Settings, Config

CONSTANT Envs       \* the environments the operator may write
ASSUME EnvsAssumption == Envs \subseteq Environments

VARIABLE env        \* the environment the process was last started with

systemVars == <<vars, env>>

SystemInit ==
    /\ Init
    /\ env \in {e \in Envs : Loads(e)}
    /\ settings = Seeded(Loaded(env).proxyEnabled, Loaded(env).accessLog)
    /\ onDisk = SettingsOnDisk(env)

\* The panel is there to send a change.
PanelChanges(h, snap) ==
    /\ PanelMounted(env)
    /\ BeginChange(h, snap)
    /\ UNCHANGED env

SystemApply(a) == Apply(a) /\ UNCHANGED env
SystemSave(a) == Save(a) /\ UNCHANGED env

\* An environment that does not load leaves the server down.
SystemStart(e) ==
    /\ Loads(e)
    /\ Start(Loaded(e).proxyEnabled, Loaded(e).accessLog, SettingsOnDisk(e))
    /\ env' = e

SystemNext ==
    \/ \E h \in Handlers, snap \in Requests : PanelChanges(h, snap)
    \/ \E a \in Actors : SystemApply(a) \/ SystemSave(a)
    \/ Die /\ UNCHANGED env
    \/ \E e \in Envs : SystemStart(e)
    \/ OperatorDamages /\ UNCHANGED env

SystemFairness ==
    \A a \in Actors : WF_systemVars(SystemSave(a)) /\ SF_systemVars(SystemApply(a))

SystemSpec == SystemInit /\ [][SystemNext]_systemVars
FairSystemSpec == SystemSpec /\ SystemFairness

-----------------------------------------------------------------------------
\* Anybody may fetch through the proxy: it is mounted, the live settings have it
\* on, and it asks for no token.
Listening == up /\ pc[Boot] = "idle"
OpenRelay ==
    /\ Listening
    /\ ProxyMounted(env) /\ settings.proxyEnabled
    /\ ~Loaded(env).requireToken

\* Whatever the panel and the saved settings do, an operator who asked for
\* tokens, be it misspelt, gets them; one who said nothing of an open relay has
\* one only where the configuration left the proxy off and the panel could
\* switch it on; and a panel that is up has an address of its own, a password,
\* and links that lead somewhere.
ControlsHold ==
    /\ OpenRelay =>
         /\ env.PROXY_REQUIRE_TOKEN \notin {"true", "typo"}
         /\ \/ Loaded(env).allowOpenRelay
            \/ ~Loaded(env).proxyEnabled /\ Loaded(env).adminEnabled
    /\ Listening /\ PanelMounted(env) =>
         /\ Loaded(env).admin \notin {Loaded(env).listen, Loaded(env).metrics}
         /\ Loaded(env).hash = "hash" /\ Loaded(env).publicURL # ""

\* "Without it, an enabled proxy that does not require a token refuses to start
\* rather than quietly serving the whole internet."
NoQuietRelay == OpenRelay => Loaded(env).allowOpenRelay
=============================================================================
