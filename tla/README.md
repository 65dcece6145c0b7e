# arch-fastapi in TLA+

A verification development for the FastAPI service in this repository: TLA+ modules translated
from the Python source, TLC configurations that check them on small instances, and TLAPS proofs
of the main results for every value of the constants. Paths below are relative to `src/`.

Contents: [the system](#1-the-system) · [modules and code](#2-modules-and-code) ·
[runs](#3-runs) · [fairness](#4-fairness) · [disagreements found](#5-where-the-code-and-its-documentation-disagree) ·
[proofs](#6-proofs) · [limits](#7-what-is-not-covered) · [plan](#8-plan)

## 1. The system

One process, one asyncio event loop. `app/server.py` opens the process-wide clients in order,
serves, and closes them. Requests are tasks: they interleave at `await`s only, so every module
here takes the code between two awaits as one step.

| component | state it keeps | operations | what is hard | what makes it correct |
|---|---|---|---|---|
| lifespan (`app/server.py`) | none of its own; the globals of all others | seven init steps, serve, seven closes in `_cleanup_resources` | a failure at any step, then failures of closes, then another lifespan in the same process | the database is probed before serving; whatever is left behind was reported |
| database (`app/core/database.py`) | `_engine`, `_async_session_maker`, the pool | `init_db`, `dispose_db`, `get_db` | probe fails after publishing; sessions on error paths; pool limit | a connection always comes back |
| redis (`app/core/redis.py`) | `_redis_client` | `init_redis`, `close_redis`, `get_redis`, `get_redis_optional` | degraded startup, close that raises | closed or reported |
| milvus (`app/core/milvus.py`) | `_milvus_client` | `init_milvus`, `close_milvus`, `get_milvus(_optional)` | failed probe, close between two batches of a write | closed, reported or given up |
| outbound HTTP (`app/utils/http_client.py`) | `_client` | `get_client`, `request`, `close_client` | retries of lost replies, a close during a sleep or between test and reset | POST at most once; no client leaked |
| cache aside (`app/utils/cache.py`) | the key in Redis | `cache_get`, `cache_set`, `cache_delete`, `get_or_set` | fill racing update and delete; SETs carried out late; null values; a client closed between two awaits | a hit is stale only by a known race, and not for ever |
| vector repository (`app/repositories/vector.py`) | none; reads `_milvus_client` per call | `insert`, `upsert` in batches; `delete`, `query`, `search`, `get` and the collection operations in one SDK call each | batches fail in the middle; the client goes away or another call removes rows between them | each row sent once; the count is what was written, and what was not removed is there |
| MCP client (`app/mcp/client.py`, `manager.py`) | a semaphore per server; the client table | `execute`, `open_session`; init/close/lookup of the manager | cancellation while queued or just granted; teardown that raises; late execution | no slot is lost; the errno says whether the server can have been asked |
| request pipeline (`app/middleware/`, `app/exceptions/handlers.py`) | the request-id context variable | two middlewares, five handlers | which exceptions pass which layer, context reset before the outermost handler, ids that clients choose | one truthful access line per request |
| user endpoints (`app/api/v1/users_router.py`, service, DAO) | the user table | get one, list a page with a total | two statements, two snapshots | page and total agree unless a write came between |
| health (`app/api/health.py`) | none | `/livez`, `/health`, `/readyz` | three probes with timeouts, competing with requests for the pool, while dependencies change | 200 and 503 are explained by what could be reached |
| LLM gateway (`app/core/llm/gateway.py`) | three tables by provider, the LangSmith configuration, two environment variables | `init_llm`, `close_llm`, `get_llm`, `get_provider_config`, `get_langchain_llm` | one of several clients fails to build or close; the loop that fills the tables is left halfway; the environment outlives a lifespan | all are closed or reported; a provider that fails costs itself only; off means off |
| embedding and multimodal calls (`app/core/llm/`) | none | `embed`, `analyze_images` | answers in any order or malformed; the client closed under the call | vectors in the order of the texts; every call ends |
| skill registry (`app/core/skills/`) | the index, the cache of bodies, the settings | `init_skills`, `close_skills`, `get_meta`, `load` | files are edited between scan, load and the next life | a body is explained by the index, and the same for all runs if cached |
| LLM and skill routes and service | none | four test endpoints, `run_skill` | what is looked up and cached before a call is refused | as above |
| MCP server, configuration, logging, CORS, schemas, entry points | settings, sinks | wiring | – | – |

How they interact: by direct calls through module globals. The lifespan writes the globals;
request tasks read them through accessors that raise (`get_db`, `get_redis`, `get_milvus`) or
return `None` (`get_redis_optional`, `get_milvus_optional`). The only shared things that requests
compete for are the SQLAlchemy pool, the MCP semaphore, the Redis keys and the singleton
`AsyncClient`. There are no threads of the program's own and nothing is persisted by it except
through the database, Redis and Milvus.

The hazards this gives rise to are listed, each with its line and the properties that would
catch it, in `PROJECT.json` under `hazards`.

## 2. Modules and code

| module | models | proofs | TLC |
|---|---|---|---|
| `ResourceScope` | abstract: what a lifespan promises about the handles it opens | – | through `Lifespan` |
| `Lifespan` | `lifespan()`, `_cleanup_resources()` and every init/close function | `Lifespan_proofs` | `MCLifespan` |
| `ServerCall` | abstract: what a client of another process promises to its callers | `HttpRequest_proofs` | through `HttpRequest` and `McpClient` |
| `HttpRequest` | `request()`, `get_client()`, `close_client()` | `HttpRequest_proofs` | `MCHttpRequest` |
| `CacheAside` | `get_or_set()` and `cache_delete()` on one key | `CacheAside_proofs` | `MCCacheAside` |
| `VectorWrite` | `VectorRepository._write` against `close_milvus()` | `VectorRepository_proofs` | through `VectorRepository` |
| `VectorRepository` | the composition: a write beside any other call of the repository, and the rows in the collection | `VectorRepository_proofs` | `MCVectorRepository` |
| `McpClient` | `McpClient.execute()` and `open_session()` | `McpClient_proofs` | `MCMcpClient` |
| `UserRequest` | middlewares, handlers, `get_db`, user endpoints and DAO | `UserRequest_proofs` | `MCUserRequest` |
| `Readiness` | `/readyz` | `Readiness_proofs` | `MCReadiness` |
| `Embedding` | `parse_vectors()` and the validation of texts and images: operators only | `LlmRequests_proofs` | through `LlmRequests` |
| `LlmGateway` | the gateway's tables, the LangSmith switch and every lookup | `LlmRequests_proofs` | through `LlmRequests` |
| `SkillRegistry` | the scan, `get_meta()`, `load()` and its cache, and edits of the files | `LlmRequests_proofs` | through `LlmRequests` |
| `LlmRequests` | the composition: five kinds of vendor calls and the part of the lifespan that fills and empties the tables | `LlmRequests_proofs` | `MCLlmRequests` |

Definitions whose comment begins with "Regression:" are not part of any specification. Each is a
mutated form of the definition it precedes or follows, the way a plausible bug would write it;
`PROJECT.json` pairs every property with one that breaks it. `PROJECT.json` `map` gives the source
lines of every definition.

**Lifespan.** `pc` is the statement of `lifespan()` that runs next: an init step, `serving`, or the
resource that `_cleanup_resources` closes next. Each init or close function is one step, because
nothing else runs during startup and cleanup. `global[r]` is the module-level client of a
singleton: `none`, `live` (its probe passed), `unprobed` (published, but the probe failed and so
did its undoing) or `stale` (its close raised before the reset). `open` is what is really open,
whoever names it. `dropped` holds the clients that a degraded startup forgot without closing, such
as the Redis client whose ping failed. The globals survive `Report`, so the next `Boot` starts from
what the previous lifespan left: `init_redis` returns early on a stale client, for instance. The
list of close functions is in `_cleanup_resources`'s own order.

`ResourceScope` says the same without any resource's details: a scope opens, may acquire and
release, and at its end everything it still holds must be excused. `Lifespan` implements it with
`held` = `open` and `excused` = reported or given up.

**ServerCall.** A call begins, asks its server no more often than it may, and ends with an outcome that is true
of the server: `refused` means never asked, `answered` carried out, and anything else leaves open whether the
server did it, but not how often. `HttpRequest` and
`McpClient` implement it, with `sends` for `asked`, `executed` for `served` and the errno or the end of the call
for `told`. Retries, waits, slots and sessions are stutters or parts of a step of it. A step of `ServerCall`
may both hear from the server and end, as the code does between two awaits.

**HttpRequest.** A step runs from one await of `request()` to the next. `bound[r]` is the local
variable that captured the client before the loop; `slept[r]` sums the backoff in units of
`_DEFAULT_RETRY_BACKOFF_FACTOR`. `sends[r]` counts attempts handed to httpx, which is what the loop counts too: an
attempt that finds no connection is one of them, though nothing of it reaches the wire. On a failure the server may or may not have carried the request
out (`executed`). `close_client()` is two steps, around its await of `aclose()`, or fails and
skips the reset. One `close_client()` at a time is modelled: cleanup is its only caller.

**CacheAside.** The value is represented by the number of updates of the source it has seen;
`NullVersions` are those whose value is `None`. A Redis command may fail at any await. That Redis carries a `GET`
out (`Answer`) and that the caller resumes with what it said (`Get`) are two steps: in between the source
may be updated and the key deleted. So a hit is judged by the moment Redis answered, and the ghost `window` keeps
whether the entry could be stale then. `cache_delete()` is two steps as well, `CacheDelete` up to its await
and `Deleted`. A `SET` that got no answer (its connection broke, or the url sets a socket timeout) sits in
`late` and may be carried out at any time or never. The
ghost `excuse` records that a failed delete or an overtaken fill may have left the entry stale.
`connected` is chosen at start: nothing retries `init_redis`. `CloseRedis` takes the client away at any time, so
that `cache_set()` may raise after the factory was asked.

**VectorWrite.** Rows are numbers, a batch is `rows[offset : offset + batch_size]`. A failing SDK
call, or one with a malformed answer, may have written any part of its batch; a well-formed answer
is taken to be honest about its count. The client is looked up again at each batch, so
`close_milvus()` may take it away in between.

**VectorRepository.** Adds a second coroutine that makes one call. `Delete`, `Query`, `Search` and
`CreateCollection` are the argument checks in their order: a delete needs exactly one of ids and
filter, where an empty list and a blank filter count as none; a search without vectors returns before
its limit is looked at and needs no client. `Ask` looks the client up, and `target` is what a delete or
a drop selects. `Remove` is Milvus' own step. A removal that raises, or is answered without a count, may
have removed a part. Reads end as `Returned`, `Malformed` or `Raised`: wherever in a search
response something is wrong, the code raises the same error and returns no hit, so groups, hits and
entities are not told apart. A batch reaches the collection when its answer does; in Milvus a removal may fall
between the two and take the batch's rows, which is the order of a removal one batch later. What Milvus
says to a batch after a drop is left open: it may accept or refuse it.

**McpClient.** The semaphore is anyio's, external, modelled as `execute()` uses it: a released slot
is handed to the first waiter, who holds it (`granted`) before it runs. Cancellation may strike
while queued, while granted and at any await inside the session. `ServerExecutes` may happen after
the caller has seen an error, as long as the caller has not begun another call. `closing` is the
exit of the session's contexts, which may itself raise. `Initialize` begins the operation; that it is put on
the wire (`Send`) is a step of its own, which an operation that raises before never takes, and one whose caller is
already leaving may still take. So `CALL_FAILED` says that the server was asked once at most.

**UserRequest.** Where a request is: `new`, `inside` (past the middlewares), at one of the
queries, `leaving` (with a result or an exception), `raised` (past the middlewares with an
unhandled exception), `answered`. `conn` are the sessions holding a pool connection. Statement
snapshots are PostgreSQL's READ COMMITTED: each query sees the table as it then is. `rid[r]` is the id a request goes
by: made by the middleware or taken from the client as it is, so that two requests may share one. Closing the
session may raise; what that does depends on whether the response is out. FastAPI
releases differ in whether a `yield` dependency exits before or after the response; for successful
requests both are in the model.

**Readiness.** The three coroutines of `gather` are independent; each verdict may come from a
different time. A cancelled database probe that holds a connection is `leaving` until the
connection is back, which is when `wait_for` reports the timeout. A probe may raise at any time, also while its
dependency can be reached: the code catches every exception. Requests that hold connections
are a counter.

**Embedding.** `parse_vectors()` statement by statement: `Take` is one turn of its loop, which puts a vector into
the dict `indexed` or raises, `Loop` is a recursive function that takes the turns in the order of the answer, and
`Accepted` adds the test of the length before the loop and that of the indexes after it. Vectors are told apart by the text they
belong to, not by their numbers. An image is a record of what the validation asks of it: its form,
whether its base64 decodes, its size against the limit, its first bytes, animation.

**LlmGateway.** The tables are the sets of providers they have an entry for. `InitLlm` is what `init_llm()` does
before its loop, `BuildProvider` a turn of the loop, in which the client, or only the LangChain model, may fail, and
`LoopRaises` a turn that ends the startup with the tables half filled. The ghosts `no_client` and `no_model` keep whose
construction failed at this startup. `tracing` is the environment, which survives `close_llm()` and may be true from outside at the
start. Lookups are operators that give the errno; `default_provider_name` is the settings' value
whenever a lookup gets that far.

**SkillRegistry.** A `SKILL.md` is its name, its switch and the edit that wrote it, or something
that raises: a `BizException` (`bad`) or another exception (`fatal`), which ends the scan and with it
the startup. `Index` takes the last directory that claims a name. `scanned` and `first` are ghosts:
what the files were at the scan, and the first bundle of each name in this life.

**LlmRequests.** A call is two steps, before and after its only await. The first validates, looks
up and refuses or calls its client; the second reads nothing but the answer. `FillTables` runs the
gateway's loop turn by turn. `pc` is the lifespan between the startup of the gateway and its close; what comes before and after is the concern of `Lifespan`. The
vendor may fail, or answer with anything. uvicorn waits for requests before the lifespan
shuts down unless it is forced to; the model does not rely on it for calls under way. It does rely
on no call of one life being under way when the next begins.

## 3. Runs

Passing runs, one per `MC*.cfg`.

**`lifespan`** – `MCLifespan.cfg`. Does every combination of startup and cleanup failures leave
behind only what was reported or given up? Two providers (so that some but not all of them can
be built or closed), Milvus enabled, three lifespans: the first leaves a stale client, the second
meets it in an init function and fails to close it again, the third shows that the situation
repeats. A fourth adds no new pair of "left behind" and "next". Checks `ServesOnProbedDb`,
`LeftoversReported`, `LeaksAccounted`, the refinement `ImplementsScope` and `CleanupTerminates`.

**`http_request`** – `MCHttpRequest.cfg`. A GET and a POST race `close_client()`. Three retries is
the shipped budget; two clients are enough for one call to hold a closed client while the module
already names another. Checks that the budget is neither exceeded nor cut short, which for a POST means it
is handed to httpx, and so carried out, at most once (`RetryBudget`), the exponential wait
(`BackoffDoubles`), that no open client is ever lost behind the singleton
(`OpenClientIsCurrent`), the refinement `ImplementsServerCall` and that calls return (`CallsEnd`).

**`cache_aside`** – `MCCacheAside.cfg`. One caller with a ttl and one without, two updates, the value
of the first null, one late `SET`. Two updates let an old fill, a null and a new one overtake each
other in every order; a second late `SET` only repeats the first. `NoneIsFresh`: a returned `None`
was read from the source during the call, never from the cache. `HitsAreExplained`: a hit is a value the source had
during the call, unless Redis answered between an update and the answer to its delete, after a failed delete, or
after a fill that was overtaken. The code does not prevent these races; the property says that there are no
others. `EventuallyCoherent`: what callers with a ttl stored does not stay stale; it says nothing of entries
without one, which may stay stale for ever. `CallsEnd`: every call returns or raises.

**`vector_repository`** – `MCVectorRepository.cfg`. All writes of up to four rows with batches of one to
three: the last batch is short, full or the only one, and zero rows is in. Beside it every call of
the repository with valid and refused arguments, and every set of rows to remove. `SentPrefixOnce`:
whatever fails, the rows sent are a prefix and each was sent once. `CountVouches`: the returned count is the
number of rows written; a removal that succeeded took, of each batch, all rows it selects or none,
and rows it does not select are there. `CallsEnd`: the write and the other call end, also when the client
is closed under them.

**`mcp_client`** – `MCMcpClient.cfg`. Three tasks on two slots: two sessions run while one task
queues, is granted a slot and may be cancelled just then. `SlotsConserved` (no slot is lost, and nobody
queues beside a free one), `ErrnoTellsEffect` (`CONNECT_FAILED` means never asked, `CALL_FAILED`
asked once at most, a result carried out once), the refinement `ImplementsServerCall` with one request per call, and
`CallsEnd`.

**`user_request`** – `MCUserRequest.cfg`. Two requests on a pool of one connection, a table of up to two
users with pages of one, one concurrent write; two ids, so that the requests may have one each or share one.
`AccessLineTruthful`: an answered request left one
access line, with the client's status and the id it goes by. `PageSkewByWrite`: page and total agree
unless a write fell between the two queries. `RequestsEnd`: each request is answered and its
connection comes back, whatever the endpoint or the closing of its session raised.

**`readiness`** – `MCReadiness.cfg`. Two calls and the requests compete for one connection while one
dependency changes, starting from each set of reachable and of initialised dependencies.
`AnswerExplained`: 200 only if the database could be reached during the call, `ready` only if all
three could, 503 only if the database was away or its probe raised or was late. `ReadyzEnds`: each call is answered, though
requests may hold the pool for ever and a dependency may hang.

**`llm_requests`** – `MCLlmRequests.cfg`. Two providers, one with an embedding model and one for
images: either may be missing from any table, and a third name is declared nowhere. Two directories
and two names, from a disk without, with clashing and with disabled or broken entries; one edit,
which may rename, disable, break or rewrite a file; two lives, the second with other switches.
Batches and image lists of up to two, and one too many. One call at a time is enough for the
tables: calls touch them in their first step only, which is atomic, and what earlier calls left in
the cache stays there when they end. `RunExplained`: a skill that runs has a body of the directory its index entry
names, not older than the scan, and unless the file was edited since, it is enabled and says it is
that skill. `CachedBodiesAgree`: with `cache_loaded` all runs in one life have the same body.
`QuietWhenDisabled`: with LangSmith off no run is reported. `OwnFailureOnly`: while serving, each of the three lookups
refuses a declared provider exactly if its own construction failed at this startup, whatever became of the others and
of an earlier startup that was given up halfway. `VectorsInOrder`, over every answer with wrong, double and
missing indexes. `CallsEnd`, also when the gateway is closed under a call.

`CHECK_DEADLOCK FALSE` is set in all of them because these systems may come to rest: the bounds on
lifespans, clients, updates, writes, edits and flips are used up, or every call of a bounded set is done.
`TypeOK` is the one type invariant of each module; `RepositoryTypeOK` contains that of `VectorWrite`.

Four further runs check one property each that the documentation states and the code does not
keep; see section 5.

## 4. Fairness

Nobody is obliged to begin anything. Where the code bounds an await by a timeout, the fairness follows
from it. Where it does not - closes in the lifespan, Redis commands, SQL statements - it is an assumption
about the other side: it answers or its connection breaks. The liveness results hold under it only: a Redis that
accepts and never answers does block a cache call, because `_build_client` sets no socket timeout.

| module | assumed | because |
|---|---|---|
| `Lifespan` | WF of the cleanup steps | every close returns or raises (assumed), and the loop catches both; neither the end of a startup nor a shutdown is assumed |
| `HttpRequest` | WF of an answer and of the end of a sleep, per call | the httpx timeout bounds every attempt, `asyncio.sleep` ends |
| `CacheAside` | WF of a caller's next step, of expiry, and of a late `SET` being carried out or lost | Redis and the factory answer or fail (assumed); TTLs run out; no command is in flight for ever |
| `VectorRepository` | WF of the SDK's answer or error to the write and to the other call | the SDK call timeout from `MilvusSettings` |
| `McpClient` | WF of a caller's progress | `connect_timeout` and `call_timeout` bound every await of a session; a granted task is scheduled |
| `UserRequest` | WF of a request's progress | the pool's timeout (SQLAlchemy's default); the database answers or the connection breaks (assumed) |
| `Readiness` | WF of timeouts, of giving the connection back and of the response | `asyncio.wait_for`; no fairness for the dependencies or for requests |
| `LlmRequests` | WF of the end of a call | `cfg.timeout` bounds each attempt of the OpenAI client and the SDK's default timeout that of a LangChain model; `max_retries` bounds the attempts; a closed client raises. Nothing is assumed of the lifespan or of edits |

In `UserRequest` one action of `Progress` is always enabled for a request under way, so that its
weak fairness bounds the request and not a particular outcome: the progress of a request that waits
for the pool may be the pool's timeout.

## 5. Where the code and its documentation disagree

1. **Release order.** `app/server.py:5` and `README.md:58` say resources are released in reverse order.
   The database is initialised before Redis and disposed before Redis is closed
   (`app/server.py:90-94`, `137-138`). Run `lifespan_order`, property `ReverseRelease`.
2. **Redis and startup.** `app/core/redis.py:76` says no failure of build or ping stops the startup.
   The except clause names three exception types; a malformed url or an error reply to `PING` is none
   of them and ends the startup. Run `lifespan_redis_startup`, property `RedisNeverBlocksStartup`.
3. **Serving without Redis.** `app/api/health.py:73-74` says the application serves correctly without
   Redis, only slower. `get_or_set()` raises instead of asking its factory when Redis is degraded
   (`RuntimeError`) or fails (`BizException`). Run `cache_redis_down`, property `RedisDownStillServes`.
4. **Request id.** `README.md:66` says `X-Request-Id` is written back and carried by all logs. For an
   unhandled exception the context is reset and the header assignment skipped before the outermost
   handler makes the 500 response and its log line. Run `user_request_id`, property
   `IdReachesLogsAndHeader`.

Two more that no run checks:

- `app/core/settings/settings.py:185` says that with LangSmith disabled no environment variable is
  set. `configure_langsmith_tracing()` sets both to `false` (`app/core/llm/gateway.py:178-179`), as its own
  docstring explains; `QuietWhenDisabled` needs it to. The comment at `gateway.py:43` is out of date too.
- `app/exceptions/base.py:88-89` gives 21002 for a provider that is not configured and 21001 for a
  gateway that is not initialised. `embed()` and `analyze_images()` ask `get_provider_config()` first and
  answer 21001 for an unknown name; only `/v1/llm/zhipu/test` can answer 21002, and then for a
  provider that is configured but has no client. `OwnFailureOnly` says for which providers each lookup refuses.

## 6. Proofs

TLAPS checks every theorem for all values of the constants that satisfy the named assumption of the
module (`LifespanAssumption`, `HttpAssumption`, `CacheAssumption`, `VectorAssumption`,
`McpAssumption`, `UserRequestAssumption`, `ReadinessAssumption`, and for the calls to vendors
`EmbeddingAssumption`, `GatewayAssumption`, `SkillAssumption` and `RequestsAssumption`); TLC evaluates the assumptions in
the runs. No theorem assumes anything else.

| module | proved | argument |
|---|---|---|
| `Lifespan_proofs` | `TypeOK`, `ServesOnProbedDb`, `LeftoversReported`, `LeaksAccounted`, `ImplementsScope` and two facts on reachability | `IInv`: at each statement of the lifespan it is known which globals are empty or live (`PhaseInv`), a client left after its close was reported (`StaleInv`), and an open handle that was neither reported nor given up is still named by its module (`OpenIsReachable`). Without the last, a handle overwritten by a later init would be lost to the cleanup. The refinement maps each action to `Enter`, `Use`, `Exit` or a stutter. |
| `HttpRequest_proofs` | `TypeOK`, `RetryBudget`, `BackoffDoubles`, `OpenClientIsCurrent`, `ImplementsServerCall`, that a POST is handed to httpx, and so carried out, at most once, and of `ServerCall` that what a caller was told is true and no server does more than it was asked (`Accountable`), hence the same of `request()`; that each step of a call brings it nearer to its end (`RetriesRunOut`) | `sends` is tied to `attempt` by the place of the call (`CountInv`); every client that is still open is the one the module names, and a client being closed already refuses requests (`PoolInv`). The waits add up by 2^(n+1) = 2^n + 2^n, the defining equation of `Pow2`; that the recursive function has the value its definition names is proved first (`Pow2Recursion`). The refinement maps a start to `Begin`, a wake that sends to `Ask`, every answer to `Hear`, and opening and closing clients to stutters. |
| `CacheAside_proofs` | `TypeOK`, `NoneIsFresh`, `HitsAreExplained`; that a filled value is one of the call's own time (`FillsAreCurrent`), and what may excuse an entry (`ExcusesAreRaces`) | the source only grows, so what was fetched during a call is at least what the source held when it began (`HoldsInv`); a hit is never null. `StaleOnlyByRace`: an entry becomes stale by an update, which leaves the writer before the answer to its delete, or by a fill that sets `excuse`. So it is when Redis answers a `GET`, and what the caller then holds and knows of it does not change until it resumes (`AnswerInv`). A fill that sets `excuse` belongs to a call that began before an update, since what it fetched is not older than its beginning. `PastInv`: nothing is newer than the source. |
| `VectorRepository_proofs` | `RepositoryTypeOK`, `SentPrefixOnce`, `CountVouches`, and that a write which stops in the middle leaves rows of one batch in doubt at most (`DoubtConfined`) | the rows written so far lie below the current offset (`WriteInv`), so a confirmed count adds rows that were not counted before. A removal meets the write at an offset that is a multiple of the batch size: what it took lies below, what came after lies above (`CutAt`), and no batch lies on both sides. |
| `McpClient_proofs` | `TypeOK`, `SlotsConserved`, `ErrnoTellsEffect`, `ImplementsServerCall`, and that slots are granted in the order of arrival (`NoOvertaking`) | a release frees a slot or hands it to a caller that really waits, so the queue and the program counters have to agree: `QueueAgrees` is part of the induction for `SlotsConserved`. `ToldInv`: before the handshake nothing is put on the wire, and a `CONNECT_FAILED` is told of such calls only. `NoOvertaking` is an action property: a newcomer joins behind all who wait, who is ahead stays ahead or leaves the queue, and nobody behind him is given a slot before. |
| `UserRequest_proofs` | `TypeOK`, `AccessLineTruthful`, `PageSkewByWrite`, exactly where the request id reaches (`IdUnlessCrash`, the true part of the fourth disagreement of section 5), and that no error is answered while its connection is out of the pool (`ConnectionsAccounted`) | `LogInv`: from the first middleware to the last the context holds the request's id and no line is written before the way out. `PageInv`: between the two queries an unskewed request holds the page of the present table. `TraceInv` extends `LogInv`: nothing is logged before the way out, and between the middlewares and the outermost handler there is only an unhandled exception; the one line that may come after an answer is that of a session which failed to close. |
| `Readiness_proofs` | `TypeOK`, `AnswerExplained` | `Inv`: while a call runs, the ghosts cover what is up now and what each verdict stands for. `PoolInv`: a probe that holds a connection is counted once, so the pool is never overdrawn. |
| `LlmRequests_proofs` | the six invariants of `LlmRequests`, and of `parse_vectors()` what its loop computes (`LoopIsClosedForm`), that its last test never fails, that each item ends up at its index and nothing else would, and that the order of the answer does not matter | By induction over the answer the loop passes exactly when every item is well formed and no index comes twice. n items with distinct indexes below n are a bijection, so nothing is missing. `RegistryInv`: while serving, every cached body is explained by the index; `CacheInv`: while caching, the ghost of first bodies is the cache itself; `GatewayInv`: at each turn of the loop a provider is in a table exactly if the loop has reached it and its construction did not fail (`BuildInv`), configurations and clients are of the same providers, and off implies a quiet environment. `StartInv`: no call is under way while the tables are filled, so what a call took from them stays true until the next shutdown. |

Each invariant is proved from `Init => Inv` and `Inv /\ [Next]_vars => Inv'`.

Every invariant, action property and refinement that a run checks is proved. The others named in the table
(`RetriesRunOut`, `NoOvertaking`, `FillsAreCurrent` and so on) are defined in the proof modules, and no
configuration checks them. Facts about finite sets and functions, and
that `<` on the naturals is well founded, are cited from the theorem modules that come with TLAPS, and are not proved
again here. The two inductions over data, `Pow2` and the loop of `parse_vectors()`, do not use the library's induction
theorems, which take a predicate as a parameter: both are recursive functions, and `Induct` says of sets what is needed,
that a set of numbers with 0 that is closed under the successor has all of them. That such a function exists is part of
each proof: the function described without recursion is shown to solve the equation.

Only model-checked: every liveness property, which needs fairness and `ENABLED`.

## 7. What is not covered

Choices of the models:

- cancellation of the lifespan task itself (a second Ctrl-C) is not modelled; cancellation of MCP
  callers and of the database probe is, that of other request tasks is not;
- Milvus is taken to report counts honestly and to carry a confirmed batch or removal out as a whole; a row's
  content does not matter to the repository; a distance is taken to be something `float()` converts or refuses
  with the two exceptions the code names;
- in `CacheAside` that Redis carries a `SET` or `DEL` out and that its caller resumes are one step: the caller reads
  nothing but the acknowledgement after it. `HitsAreExplained` allows a stale hit after each race that the ghosts name;
  it does not say how likely one is. Only an unanswered `SET` is carried out late. An unanswered delete that is carried out
  late can only shorten a stale entry's life, and counts as a failed delete;
- the semaphore of anyio, SQLAlchemy's pool, Starlette's exception layers and Redis' `SET`/`DEL` are
  external and modelled from how the code uses them; the map marks the definitions this applies to;
- in `UserRequest` a write to the table is atomic with its commit;
- in `Readiness` giving a connection back after a cancelled probe is assumed to end;
- in `LlmRequests` the normalisation of token counts is reduced to succeeding or raising, and a body to
  the edit that wrote it; a `base_dir` that cannot be listed is a startup failure of `Lifespan`;
- nothing is said of whether a vendor was reached by a call that failed: the SDK may raise before anything is sent
  (an empty api key, a refused connection, a closed client), and the code gives that the same errno;
- `QuietWhenDisabled` rests on LangSmith reading `os.environ` when a run starts, in a later life too; the repository
  does not show that it caches nothing;
- in `HttpRequest` an attempt counts when it is handed to httpx, whether or not it reached the wire;
- in `UserRequest` a client whose `X-Request-Id` is `-`, the tag for no id, is left out;
- a body that was edited after the scan may carry another name, or say it is disabled, and still runs under the
  old name: `RunExplained` allows it, because the code does and nothing in it says otherwise.

Parts without a module, and why:

- configuration (`app/core/config.py`, `settings/`) is declarative; its failure is the first failure of
  `Lifespan`;
- the MCP server and its demo tool are a separate process without state;
- CORS, schemas, envelope, route table, entry point and example only wire or shape data;
- `/livez` and `/health` read nothing;
- `get_mcp_client()` only reads the manager's table; what it raises is planned with the composition below.

## 8. Plan

Order of work: the lifespan and the request-time use of each shared resource first, because this is
where steps of several actors meet; then the gateway, the skills and the sequential algorithms (both
done, sections 2 to 6); then the vector repository as a whole and the proofs of what was only checked
(done as well); then one abstract specification for the two clients of other processes, their refinements, and the
recursive definitions (done as well).

Next module:

1. A composition of `Lifespan` with request-time accessors, `get_mcp_client()` among them: which accessor
   can raise while serving, given which startup failures.

To repeat the checks: `tlc -config MCLifespan.cfg MCLifespan` for a run and `tlapm Lifespan_proofs.tla`
for a module of proofs, likewise for the others.
