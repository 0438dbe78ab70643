# Bumshi, specified in TLA+

Bumshi is a self-hosted web proxy: one Go process (`bumshid`) with three HTTP
servers (the control plane that carries proxied traffic, the metrics and health
endpoints, the admin panel), a JavaScript runtime it injects into the pages it
proxies, and shell scripts that install and manage it. This directory holds TLA+
models of its stateful parts and of the rules it rewrites traffic by, their
model-checking configurations, and machine-checked proofs. Paths below are relative to `src/`.

## Inventory

| part | source | state | operations | hard about it | correct when |
|---|---|---|---|---|---|
| configuration and assembly | `config/config.go`, `server.New` | what a start made of the environment | Load, validate, build the proxy and the panel | misspelt values; what a start refuses coming about later, by the panel or a saved file | no control is lost without a word |
| live settings | `settings/settings.go` | switch, access log, modules, mutex, `settings.json` | Apply, save, Persist, Validate | handlers in parallel, death between write and rename, failing disk; a boot that seeds before it overlays | a boot restores the file; the file is what is in force |
| access roster | `admin/accessusers.go` | map of users, mutex, `access.json` and its `.tmp` | Create, Delete, save, load, Authorized | as above, and an unreadable file | file and map agree; a revocation that both hold is final; an unreadable file is never overwritten |
| server lifecycle | `server/server.go`, `health/health.go` | listeners' goroutines, error channel, readiness, shutdown deadline | Run, shutdown | signal against error against late goroutine; clients that never finish; tunnels `net/http` knows nothing of | Run returns, in order, leaving nothing behind but tunnels |
| middleware and metrics | `httpx/middleware.go`, `metrics/metrics.go` | two recorders per request; gauge, counter, histogram | Metrics, Recoverer, AccessLog; Inc, Observe, scrape | panics at any point of a response, a log toggled under way, a scrape during updates | gauge, counters and log lines say what clients were answered |
| web proxy, requests | `proxy/proxy.go` | per request: checks, buffered body, staged headers, outcome | ServeHTTP, serveHTTP, serveRewritten | upstream failing at any byte, the rewrite limit, the switch and the roster changing meanwhile | nothing forbidden is fetched; a whole body leaves whole; one outcome per request |
| web proxy, WebSocket | `proxy/websocket.go` | handler, two copiers, two connections, deadlines | dial, handshake, hijack, tunnel | bytes read ahead of the handshake, half-open ends, leftover deadlines | frames arrive in order; all is closed |
| request identity | `proxy/proxy.go` | none (pure) | destination, mode, site, Origin, Referer | rules of their own for headers any of which may be missing | what a site is told fits together as a browser's would |
| HTML rewriting | `proxy/rewrite`, `webengine/webengine.go` | a position in the document | scan, rewrite, base, inject | malformed and truncated markup | nothing is lost; the scanner and a browser see the same attributes; the runtime runs |
| policy translation | `proxy/csp.go` | none (pure) | rewriteCSP | fallbacks between directives, nonces that turn keywords off | as strict as before, and the runtime runs |
| admin panel | `admin/admin.go`, `auth/session.go`, `auth/ratelimit.go` | sessions, login throttle | login, logout, CSRF, settings and user API | sessions expiring between check and use; a clock read before the lock | throttle counts every failure; a deleted session is dead |
| cookies | `proxy/cookies.go`, `webengine/assets/client.js`, `codec.js` | cookie names that carry their scope | rewrite and read back, in Go and in JS | two implementations must agree | a site sees its own cookies and no other's |
| browser runtime | `webengine/assets/{client,sw,rewriter}.js` | patched prototypes, service worker | hooks on fetch, XHR, navigation | order of patches; worker activation | every request goes through the proxy |
| links, upstream guard | `proxy/link`, `proxy/ssrfguard`, `proxy/fetch` | none | encode, decode, dial check | address classes | inverse of each other; the documented classes |
| panel page, installer | `admin/assets/app.js`, `install.sh`, `bumshi.sh` | a snapshot; files of other programs | save, install, rotate | whole-snapshot saves; a script failing half way | what is shown is what is saved |

Go paths in the table and from here on are relative to `server/internal/`.

How they interact. `config.Load` reads and checks the environment; `server.New` seeds the
settings from it, loads roster and settings file (falling back to memory-only or seeded
ones, which is all there is when no path is configured), mounts the proxy and the panel as
configured, and hands both stores to both. The panel's handlers change them; every proxied
request reads `Settings.ProxyEnabled` and `AccessStore.Authorized` once on its way in. The
middleware chain wraps every request with a recoverer, with metrics and, while the settings
say so, with the access log. A request admitted is given the identity the site is to see; a
document that answers it is scanned and its addresses replaced, the runtime is injected, and
the policy header translated so that both survive. From then on the runtime in the page
talks to the proxy through rewritten links only.

PROJECT.json lists every part with its status, and every place where the code is
hard to test with the properties that cover it.

## Modules

| module | models | composed with |
|---|---|---|
| `AtomicFile` | write `<path>.tmp`, rename over `<path>`, and how each can fail or be cut short | instantiated by the two stores |
| `AccessStore` | roster, the two handlers that change it, start-up and its fallback | `AtomicFile`; `DurableRoster` by refinement |
| `DurableRoster` | what the roster promises: one user at a time in memory, the stored copy only ever replaced by the whole of it | |
| `Settings` | settings, `apiPutSettings`, `Persist` at boot | `AtomicFile` |
| `Config` | what `Load` and `validate` make of an environment, and what `New` mounts | |
| `Startup` | starts under environments the operator edits, the saved file, and the panel's changes | `Settings`, which it implements, and `Config` |
| `ServerLifecycle` | `Run`, `shutdown`, the listeners' goroutines, readiness | |
| `ProxyRequest` | the request path of the proxy | a tunnel is one step here, which `Tunnel` opens up; a document within the limit another, which `Exchange` does |
| `Tunnel` | one proxied WebSocket from dial to close | |
| `Metrics` | the HTTP vectors and a scrape that visits them one by one | |
| `Middleware` | the chain around handlers that write, hijack, panic or return | `Metrics` |
| `RequestIdentity` | Sec-Fetch-*, Origin and Referer as the site is sent them | |
| `ContentPolicy` | `rewriteCSP`, and what a browser makes of a policy | |
| `HtmlScan` | the scanner, `writeStartTag`, `documentBase` | |
| `HtmlReference` | how a browser tokenizes the same document | `HtmlScan`, for its alphabet and its record of an attribute |
| `Exchange` | one request and the document that answers it, from first header to last | `RequestIdentity`, `ContentPolicy`, `HtmlScan`, `HtmlReference` |
| `AdminPanel` | logins behind the throttle, sessions, the calls they let through, logout, restart | the calls it admits are the handlers of `AccessStore` and `Settings` |
| `CookieJar` | the one jar all sites share, written and read by the server and by the shim in the page | `SiteCookies` by refinement |
| `SiteCookies` | what a site is promised about its cookies: one per name and audience, and all of its own | |
| `AccessStoreProofs`, `ProxyRequestProofs`, `TunnelProofs`, `MiddlewareProofs`, `ExchangeProofs`, `AdminPanelProofs`, `CookieJarProofs` | theorems | the module each is named for |
| `ProcessProofs` | theorems of a process: how it starts and what it keeps, how it runs and ends | `Startup`, `ServerLifecycle` |
| `MCAccessStore`, `MCStartup`, `MCProxyRequest`, `MCMiddleware`, `MCExchange`, `MCAdminPanel`, `MCCookieJar` | values for the constants | |

How state and actions correspond to code:

- **A lock** is a variable naming its holder. A step inside a critical section is
  one system call (`os.WriteFile`, `os.Rename`) or the assignments between two;
  in `AccessStore`, `Lock` takes the mutex and changes the map in one step, since
  nobody can read the map before `Unlock`.
- **A file** is the value it decodes to, `Missing` or `Damaged`. A failed or
  interrupted `os.WriteFile` leaves the `.tmp` untouched, torn or complete.
- **`Die`** ends the process at any step, and loses memory, lock and handlers.
- **History variables** (`issued`, `revoked`, `stale`, `fatal`, `fetched`, `late`,
  `off`, `passes`, `expires`, `ended`, `live`, `panicked`) record what properties refer to and
  are read by no guard, except that `issued` keeps random ids unique and makes an id
  known before it is deleted.
- **Environments** in `Config` give each variable a value as `Load` can tell it from
  others: unset, well formed, refused, misspelt. Variables that share a parser and a check
  have one representative. `ACCESS_STORE_PATH` is set or set to nothing: in the second case
  the process keeps roster and settings in memory only (`onDisk`), no save of it
  can fail and none of its changes outlives it.
- **Handlers** in `Middleware` may do at any point what `net/http` lets them: each `Write`
  and `WriteHeader` is a step, and so are hijacking, returning and panicking. `sent` and
  `body` are what was put on the wire: by `net/http`, modelled from how the chain uses it, or,
  once the connection was hijacked, by the handler itself (101, then frames), which no
  recorder sees. A
  vector's child that does not exist counts 0; a latency is the first bucket it falls in.
- **A scrape** in `Metrics` keeps what it read of each vector it has visited; updates
  happen between two visits.
- **Tunnels** in `ServerLifecycle` are requests that left `busy`, which is what `net/http`
  waits for, when their connection was hijacked.
- **Bodies** in `ProxyRequest` are counted in chunks of which the limit is one, so
  that bodies below, at, one past and further past `rewriteMax` all occur.
- **Documents** in `Exchange` are sequences of characters in which a letter stands for a
  whole name (an element of raw text, `<base>`, `<head>`, any other; `href`) or for text.
  `Turn` is one turn of the scanner's loop; `out` are the spans it wrote, each copied,
  replaced or dropped. What a new value says is not modelled: one with text in it changes.
- **Policies** are sequences of directives over the source expressions that the code or a
  browser tells apart; `host` stands for every host and scheme pages are fetched by, all of
  which become the proxy's own origin; `ignored` for what a browser makes nothing of, which
  becomes the same. A sandbox has its flags. `Decision` is what a browser makes of a policy;
  under a sandbox without `allow-scripts` it runs no script.
- **Frames** in `Tunnel` are numbers. Those already sent when the handshake is read
  may be in its `bufio.Reader`: `buffered`. Reading continues at `next` because the
  copiers read that reader; the mutant that reads the bare connection skips them.
- **Clients** of the panel are addresses. An arrival is what `clientIP` looks at: the
  peer and two headers, of which the client may have written any part that the reverse
  proxy does not write (`Honest`). Whether the password is right is a choice; a token
  stands for its session and its CSRF token, and a call may bring a live one, one that
  ended, or none; counts past `Limit + 1` are not told apart.
- **Hosts** in `CookieJar` are sequences of labels, the top-level one first, so that a
  parent domain is a leading part; a prefix is its scope and its letter, for the hash is
  taken to tell scopes apart. Case, trailing dots, paths and lifetimes are left out: an
  expiry is a step of its own. A Domain that is refused makes the cookie host-only, in
  both implementations and in `SiteCookies`, where a browser would drop it.
- Operators headed `Mutant:` are plausible slips of the code beside them. They are
  used by no specification; substituted for the definition they precede, each makes
  one property fail, which shows that the property constrains that code.

## Runs

| run | constants | states | shows |
|---|---|---|---|
| `access` | 2 users (one lapses, one never), 2 handlers, clock 0..2 | 36,378 | roster and file stay in step under racing handlers, failing saves, deaths and restarts; a revoked user that has left both never returns; an unreadable file is never overwritten; the roster implements `DurableRoster`; every request is answered |
| `startup` | 2 handlers, 2 modules, 5 snapshots (partial, misspelt, contradicting), 9 environments, 4 of them to be refused and one without a path | 66,644 | what is in force is what a file holds, if there is to be one; a boot restores it to the letter, and a process without a path leaves it alone; tokens that were asked for are asked for, whatever is misspelt, toggled or saved; every change is answered |
| `server` | with and without the panel | 101,993 | Run returns even if every listener fails at once and no request or tunnel ever finishes; servers are drained in order; nothing is left behind, and no request cut off before the timeout, but for tunnels |
| `tunnel` | 2 frames each way | 16,965 | what arrives is in order and without a gap, no leftover deadline, everything closed, the tunnel ends with either end |
| `proxy` | 2 requests, bodies of 0..3 chunks, limit 1 | 388,700 (up to symmetry) | nothing is fetched for a request that came after its access ended or since which the switch was off, or for the proxy itself; the headers that leave belong to the body that leaves; whole bodies leave whole; outcomes add up |
| `middleware` | 2 requests, 1 method, 3 codes, 2 buckets, 1 scrape, 1 part of a body | 1,433,410 (up to symmetry) | gauge, counter and histogram count what was answered, at any moment, and tunnels as 200; a scrape counts no request twice; a log line says what was sent, but for tunnels, of which it says 200 and 0 bytes; a panic is told to the client, in the log and in the counters |
| `exchange` | all request metadata with 5 pages; policies of up to 2 directives of up to 2 expressions; documents of up to 4 of 19 pieces | 1,173,832 | mode, destination, site and Referer of what the site is told fit each other; the scanner loses nothing and touches exactly the attributes a browser sees; the runtime is put where a browser reads markup, if `<head` is; the policy lets it run where its sandbox lets any script, and decides otherwise as it did, but for what a browser ignored |
| `panel` | 2 clients, direct or behind the proxy, 2 sessions, 2 handlers, 2 attempts a window, clock 0..1 | 997,311 (up to symmetry) | attempts are limited per client whatever headers it sends; nobody is locked out by another; only live sessions act, and change things only with their own CSRF token |
| `cookies` | 3 hosts (a site, one inside it, one of a single label), 3 Domains, one name, which is the proxy's own cookie's | 5,103 | the jar implements `SiteCookies`; a response and a script that write the same cookie write one |

Why the bounds are enough. Two handlers are what a race on one lock needs; a third only
waits longer, and the proofs below cover any number. Two users let a save carry one while
the other is being removed. The clock passes the only deadline there is. The nine
environments of `startup` hold each way the proxy and the panel can be on, off or half
configured, one violation of each rule that guards them, and a process with nowhere to save;
the proof covers every environment. The three listeners are all there are, and of requests
and tunnels only whether there are any matters: `ServerLifecycle` has no parameter and is
checked completely. Two frames make a gap, a swap and a split across the handover possible;
the proofs cover any number. Two requests share every piece of shared state of the request
path. In `middleware` one request can end between two visits of the scrape while the other
is being served, three codes tell what is recorded by default (200) and by a panic (500)
from what a handler chose, and one part of a body comes before or after each header. In
`exchange` the three parts are varied one at a time, each while the others are ordinary, for
none of them reads what another varies: four pieces make an unclosed tag with an unclosed
value, raw text with a false and a true end, or a comment with a tag inside, and two
directives meet each fallback from one to another. In `panel` windows and sessions last zero
ticks, so that the one tick there is ends both, and any handler may hold a clock reading
from before it; two attempts a window leave room for one of the other client's. In `cookies`
a host with a parent and one without a domain meet every branch of both implementations of
the scope rule, and every cookie is called like the access token, so that mixing the two
would show. Deadlock checking is off only where the system stops by design: `Run` returned,
the handler returned, all requests served.

Three more runs each show a place where the program does not do what its own comments
say; PROJECT.json quotes both sides under `findings`.

| run | the code says | what happens |
|---|---|---|
| `startup_relay` | without the acknowledgment "an enabled proxy that does not require a token refuses to start rather than quietly serving the whole internet" | the rule is applied to a proxy that is on at the start; one that was off is switched on by the panel, or by the file an earlier run saved, unacknowledged |
| `policy_inline` | "the site's decisions about inline script, eval, framing and form targets survive intact" | a nonce added beside `'unsafe-inline'` turns it off: inline code the site allows is refused |
| `identity_origin` | "a combination no browser can produce is a cheap, reliable bot signal" | a page of another site asks with an Origin: it is rewritten to the target's own, beside a Sec-Fetch-Site of cross-site |

Others are noted without a run of their own:

- `DELETE` of a user answers ok although the save failed (`admin.go:346`), where Delete is
  said to persist the change (`accessusers.go:134`); a restart then brings the user back.
  A failed save of settings is only logged too, whatever `settings.go:4` says of changes
  that persist.
- "The generic module tracks" the switch (`settings.go:121`); a snapshot that names
  `generic` itself parts them (`settings.go:175`).
- The servers are "shut down gracefully" (`server.go:8`): `http.Server.Shutdown` neither
  waits for nor closes connections that were hijacked, and `websocket.go:97` registers nothing
  with `RegisterOnShutdown`. A tunnel that is open is cut off when the process ends, which may
  be at once. `NothingLeftBehind` and `DrainsInOrder` speak of the requests `net/http` knows.
- A tunnel's client is sent 101 on the connection itself (`websocket.go:106`), which the
  recorders do not see: the counters take it for a 200 and the access log says 200 and 0
  bytes, whatever went through; after a panic the counters say 500.
- Without `ACCESS_STORE_PATH` the settings are seeded from the environment at every start and
  the panel's changes are lost with the process, with no save having failed
  (`settings.go:67`). `FileAgreesWithSettings` is about processes with a path.
- Readiness is 503 when the service is not ready (`health.go:29`); the control plane's
  goroutine may run late and declare ready a server that is going down (`server.go:266`).
- Run is said to return the first fatal listener error (`server.go:238`); a signal that
  wins its `select` makes it return nil.
- A body over the limit "is NOT truncated" (`proxy.go:340`); if the upstream fails past the
  limit, `io.Copy`'s error is dropped (`proxy.go:365`) and the response ends as if whole.
  `config.go:57` calls the limit a point of truncation, which `proxy.go` avoids.
- The two-label limit is "the practical guard against a site claiming Domain=co.uk"
  (`cookies.go:48`); `co.uk` has two labels, so `a.co.uk` sets a cookie `b.co.uk` is sent.
- A client that cannot be told of the switch (`websocket.go:112`) leaves its request
  without an outcome.
- Whatever else is in a list of sources is taken for an address and becomes `'self'`
  (`csp.go:140`), also a quoted keyword the code does not know and a scheme nothing asked about
  is fetched by, which a browser ignores: a policy of those alone admitted no script and
  now admits those of the proxy's origin. `PolicySurvives` allows for that only where the
  governing directive has such an expression.
- A policy's `sandbox` is passed on (`csp.go:92`). Without `allow-scripts` the runtime does not
  run and the page is not kept inside of the proxy by it; `RuntimeIsAllowed` is about the others.
- Of several policy headers only the first is kept (`proxy.go:733`); policies joined by
  commas in one header, and those of `<meta>`, are not told apart or not translated.
- `headOpenTag` looks for `<head` in the rewritten bytes, and so finds it in a comment, in a
  script or in a value that was kept too; and the `>` it goes after may be in a quoted value
  of the tag's: the runtime is then put where no browser runs it. `HeadIsPlain` leaves
  both kinds of document out of `RuntimeIsMarkup`, which shows that in all others it is not.
- `Referer` and Sec-Fetch-Site are made to fit, but a page of another site that asks in the
  mode `same-origin` is passed on as such beside `cross-site`, which no browser sends.
- `documentBase` is said to return "the href of the first <base> element when there is one"
  (`scan.go:529`). After `</` and after `<!` it goes on one character at a time, so a `<base`
  written inside of an end tag or of a comment without dashes counts, where neither a browser
  nor `htmlScanner.run` sees an element; references are then resolved by it. Without
  `ClosesPlainly`, `MarkupIsUnderstood` fails on such a document.
- A tag that is cut off is said to be emitted as is (`scan.go:110`); its values are
  rewritten like any others.
- The scanner and the standard part on a raw-text element that closes itself
  (`<script/>`), on `<!-->` and `--!>`, on an attribute name that begins with `=`, and on
  attributes of end tags: `Ordinary` leaves documents with those errors out. Of `documentBase`
  nothing is claimed where a `<` is inside of an end tag or of a comment without dashes
  (`ClosesPlainly`), for the reason noted above.
- `config.go:92` still speaks of a generated password, which `server.go:169` refuses to
  make; `config.go:44` of a single flag for the access log, which the panel toggles too.
- The site's own `X-Request-ID` replaces that of the chain.

## Fairness

- Goroutines run (the Go scheduler), and a system call on a file returns, with
  success or an error: weak fairness of each actor's steps.
- `sync.RWMutex` starves nobody: strong fairness of taking a lock.
- The timer of a context fires: weak fairness of `Expire`.
- In `Tunnel`, every wait before the handover has a deadline, so the handler's steps
  are weakly fair. After it, a peer that stays also reads what it is sent; the code
  has no timeout against one that does not, and `TunnelEnds` says nothing of it.
- Nothing is assumed of clients, nor of operators: in `ServerLifecycle` no request needs
  to finish, in `Tunnel` no peer needs to send or to close, in `Startup` nobody needs to
  start the server again.

## Proofs

**`AccessStoreProofs`**: for any users, deadlines, handlers and clock bound, from
`DeadlinesAssumption` and `SentinelAssumption` (sentinels differ from values).
`FileAgreesWithMemory` is not inductive: a rename is only right if the `.tmp` still
holds the current map. `IInv` adds that a handler past `Lock` is the one `mu` names
(`HandlerInv`), so that the map cannot change between the write and the rename, and
hence that a `.tmp` about to be renamed is the whole current map (`SnapshotInv`); that
what file and map hold has been issued and that no two handlers create the same user
(`IssuedInv`); and that a store with a path still has every user of the file that was
not deleted (`CoverInv`). From it follow type correctness, agreement, and the action
properties: revocation is final, users leave the file only by deletion, the file stays
whole, a refusal is final; and, step by step, the refinement of `DurableRoster`.

**`ProcessProofs`**, of `Startup`: for any modules, handlers, snapshots and environments, from
`ModulesAssumption`, `ActorsAssumption`, `RequestsAssumption`, `ContentsAssumption` and
`EnvsAssumption`. For the settings, the invariant has the shape of the roster's: the holder
of `mu` is who writes or renames, with a valid snapshot (`ActorInv`); during `Persist` there
are no handlers, and what it applies is the file (`BootInv`); a `.tmp` about to be renamed
is the settings (`SnapshotInv`); a process without a path has nobody writing (`ActorInv` again);
and the goal itself, that the file is what is in force. The
composed system is then shown to implement `Settings`, so that all this holds of it. Of the
environment one fact is inductive, that the one the process was started with loads
(`EnvInv`), for starting is guarded by it and nothing else changes it; `ControlsHold`
follows from it by what `Loads` and the mounting rules say, whatever the settings are.

Of `ServerLifecycle`, there are no constants. The order of the draining is inductive
only with which servers have been closed to newcomers at each stage of the shutdown
(`ClosingInv`), that a server that was waited for is idle, but for tunnels, unless the
deadline passed (`IdleInv`), and that a panel that is not configured never runs (`PanelInv`).

**`ProxyRequestProofs`**: for any requests, limit and length of bodies, from
`LimitAssumption` and `RequireTokenAssumption`. Each stage of a request says how much of the
body it has read and whose headers are staged (`BodyInv`), and that the checks before it
admitted the request, which while the switch stays off none does (`AllowedInv`); a request
that is not done has no outcome (`UncountedInv`), and one that is done has what its stage
gives it (`DoneInv`, `CountInv`, `StatusInv`).

**`TunnelProofs`**: for any number of frames, from `FramesAssumption`. The order of
frames is not inductive either: a delivered sequence grows correctly only if the copier
holds the next number. `CopyInv` relates `next` to what its peer has received: equal to
the length plus one, or plus two while a frame is held, as long as that peer is there.
A frame is passed over only once the peer is gone, and a peer that is gone receives
nothing more. `StageInv` ties the copiers to where the handler is, `DeadlineInv` the
deadlines. Together with the goals they are inductive.

**`MiddlewareProofs`**: for any finite set of requests, any methods, codes, buckets and
lengths of bodies, from `RequestsAssumption`, `CodesAssumption`, `MaxWritesAssumption` and
`BucketsAssumption`. The recorder of `Metrics` holds what is on the wire (`WireInv`), and
while the handler runs that of `AccessLog` holds the same (`RecordInv`), each by what a
second header does to it; a hijacked request is in neither until a panic writes its 500;
hence the line (`LineInv`) and the error after a panic (`ErrorInv`). The gauge is the number
of requests being served and each counter the number of those that ended so (`GaugeIsTrue`,
`CountsAreTrue`), by the cardinality of a set with one element more or less. That a page of
metrics is coherent (`ScrapesAreCoherent`) relates it to a moment that has passed: a page
says of the counters it has read that some set of requests had been served by then
(`ScrapeInv`), which stays so while others end, and of the gauge, read later, that whatever
of that set had entered has left it. Buckets are cumulative in the registry (`HistogramInv`)
and so in what is read of it.

**`ExchangeProofs`**: for any browser, target, policies and document, from
`ExchangesAssumption` (what a browser sends is `Labelled`, what a site sends are policies and
characters) and `NonceAssumption`. What holds of the steps is little: the site was sent what
`Upstream` makes of the request and the browser what `SentPolicies` makes of the headers
(`AnswerInv`), and the spans written run from the first position to the one reached, each
from where the one before it ended (`ScanInv`). The work is in the operators, most of them
inductions over data. Those are made without an induction principle that takes an operator:
a set of naturals has a least element, by the library's `WFMin`, so a set that holds 0 and
with every n also n + 1 holds all (`NatInd`), and a function with a recursive definition,
upward or downward, exists (`UpwardRecursion`, `DownwardRecursion`).

- `rewriteCSP` writes of the first directive of a name, and only of that, the first of that
  name (`RewriteKeepsFirst`), so the same directive governs before and after; what becomes of
  its sources is a case distinction (`RewrittenSourcesAre`), and a sandbox is not touched
  (`SandboxKept`). `PolicySurvives` and
  `RuntimeIsAllowed` follow, for policies of any length.
- A search ends at the first stop at or after where it began (`FirstOfRange` and its like),
  hence an attribute has its parts in order and ends past its first character
  (`AttributeRange`), the attributes of a tag follow each other (`TagRestOrdered`, downward
  over the document), and what is written of a tag runs from its start to its end
  (`WrittenRuns`, upward over the attributes). Each turn then writes at least a character and
  never past the end (`TurnRuns`), which is `NothingLost`, for documents of any length.
- The scanner and the tokenizer of `HtmlReference` stay in step. The tokenizer takes back no
  tag and no error (`TokensFollow`), so an ordinary document has no error at any point
  (`NeverOdd`). At the start of every turn the browser reads text, or an end tag that
  raw text ends with (`Aligned`), and what the spans written so far touch is what is to be
  touched of the tags the browser has completed by there (`MarkupInv`). Each kind of turn
  keeps that: text (`DataRun`), a comment up to its `-->` (`ToCommentEnd`), an end tag or
  a comment without dashes up to its `>` (`ToGt`), raw text up to its end tag (`ToEndTag`),
  and a start tag, whose name, attributes and values `parseStartTag`, which looks ahead, and
  the tokenizer, which reads one character at a time, part at the same places (`NameRead`,
  `ValueRead`, `TagRead`, `StartTagRead`). Hence `TouchesAll`, the first half of
  `MarkupIsUnderstood`.
- `documentBase` is a second loop over the same document that goes on past less at a time.
  As long as no `<` is in what it does not pass over as a whole (`Free`), the next `<` it
  finds is one the scanner stops at (`Ready`), so a tag it takes the base from is one the
  browser sees (`BaseFound`), the second half.
- For `RuntimeIsMarkup`: no attribute of a tag holds a `>` that was read outside of quotes
  (`TokensSpare`), so what has been replaced hides no end of a tag (`ReplacedQuoted`), and
  from a `<head` in text the tag ends at the first `>` outside of quotes (`HeadRun`), which
  is the one `Inject` goes after.

**`AdminPanelProofs`**: for any clients, sessions, handlers, limit, window, lifetime and
clock bound, from `AddressesAssumption`, `TimesAssumption` and `NoneAssumption`. That
`clientIP` names the client of every honest arrival is a lemma (`HonestClient`), so a
handler's key is the client it serves (`KeyInv`). The limit
on attempts is inductive only with what the window of a client records: its own attempts,
saturating one past the limit (`PassInv`). For sessions, the map holds one only with the
deadline it was given and only while it has not ended (`SessionInv`), and a call past the
session check was live when it arrived (`CallInv`).

**`CookieJarProofs`**: for any hosts, Domains, names and payloads, from
`HostsAssumption`, `PayloadsAssumption` and `ViewsAssumption` (sentinels are no records).
Two lemmas carry it: the scope found by the page is the one found by the server
(`ScopesAgree`), although one compares a leading part and the other label by label; and a
prefix is among those enumerated for a host exactly when its scope covers the host
(`PrefixReaches`). Taking prefixes off (`Unpack`) then maps each action to the action of
`SiteCookies` that names the same cookie, which is `ServerAndScriptAgree`, and the
implementation of `SiteCookies` follows. The inductive invariant is `TypeOK` itself: what
has no prefix is the proxy's own cookie.

**Only model-checked**: the liveness properties `EveryRequestReturns`, `EveryChangeReturns`,
`RunReturns` and `TunnelEnds`, for fairness is beyond the prover. Every invariant and every
action property of a passing run is a theorem. `ServerTypeOK` is a theorem only.

## Not modelled

- A power loss: the code calls no `fsync`, so what the disk keeps is the file system's
  affair; `AtomicFile` covers the death of the process.
- Password hashing and token generation (cryptography and randomness: tokens are distinct);
  formatting, logging, translations, styling, deployment files.
- Tables: the address ranges of the guard, the telemetry hosts, the vendor headers.
- Links, and what a rewritten value says: addresses in attributes, `srcset`, meta refresh,
  CSS. `HtmlScan` says which values are replaced, not by what. `<plaintext>`, `<?` and
  `integrity` are left out of its documents.
- The text of the metrics page, sums of histograms, the redaction of paths in the log,
  request ids and the fixed security headers.
- The browser runtime beyond its cookie shim: patched prototypes and the service worker
  follow rules of the browser, which are not in this repository.
- `install.sh` and `bumshi.sh`, which edit files and drive other programs; the environment
  they write is the input of `Config`.
- `List` and the connection link of the roster are views. `SetProxyEnabled` and
  `SetAccessLog` are reached from tests only.
- By design of the code and not stated as properties: two browsers that save whole settings
  snapshots overwrite each other (`app.js:165`); a request admitted before a logout still
  acts after it; a stream outlives the access it began under (`proxy.go:171`); the login
  throttle keeps an entry per address until that address returns (`ratelimit.go:40`); a
  WebSocket peer that neither reads nor leaves holds its tunnel (`websocket.go:186`).

## Plan

1. The environments the installer writes, against `Config`.
2. The service worker's first activation against the first fetch, with the per-tab flag.
3. That resolving an attribute's value twice is resolving it once.
4. New values: that one written into a document is read back as that value, for the
   proofs take of it only that it holds no `>`.
