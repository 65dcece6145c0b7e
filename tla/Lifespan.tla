------------------------------ MODULE Lifespan ------------------------------
(***************************************************************************)
(* The application lifespan of app/server.py: ordered initialisation of    *)
(* the process-wide singletons, serving, and the finally block that        *)
(* releases them, together with the init/close function of every resource  *)
(* (app/core/database.py, redis.py, milvus.py, llm/gateway.py,             *)
(* skills/registry.py, mcp/manager.py, utils/http_client.py).              *)
(*                                                                         *)
(* pc names the statement of lifespan() that runs next: an init_ step, the *)
(* yield ("serving"), or the resource _cleanup_resources closes next. Each *)
(* init or close function is one step: no request runs during startup or   *)
(* cleanup. The module globals survive the lifespan, so a process that     *)
(* enters it again (a test client, an embedding program) starts from       *)
(* whatever the previous one left behind.                                  *)
(***************************************************************************)
EXTENDS Naturals

CONSTANTS Providers,       \* settings.llm.providers
          MilvusEnabled,   \* settings.milvus.enabled
          MaxLives         \* bound: lifespans entered by one process

ASSUME LifespanAssumption == /\ MilvusEnabled \in BOOLEAN
                             /\ MaxLives \in Nat

(* The resources with a handle of their own, and the pure registries. *)
Singletons == {"database", "redis", "milvus", "http_client"}
Handles    == Singletons \cup {"llm"}
Registries == {"skills", "mcp_clients"}

InitSteps    == {"load_config", "init_db", "init_redis", "init_milvus",
                 "init_llm", "init_skills", "init_mcp_clients"}
CleanupSteps == Handles \cup Registries

VARIABLES pc,
          lives,           \* lifespans entered so far
          global,          \* the module-level client of each singleton
          llm_instances,   \* providers with a client in the gateway's dict
          registered,      \* registries that hold settings or entries
          open,            \* handles really open, referenced or not
          dropped,         \* handles a degraded startup gave up
          errors,          \* resources whose close raised in this cleanup
          failedAt         \* the init step that raised, or "none"

vars == <<pc, lives, global, llm_instances, registered, open, dropped,
          errors, failedAt>>

(* A client is "unprobed" when it was published but its startup probe did   *)
(* not pass, "stale" when its close raised and the global still names it.   *)
ClientState == {"none", "unprobed", "live", "stale"}

TypeOK == /\ pc \in {"down", "serving", "report"} \cup InitSteps \cup CleanupSteps
          /\ lives \in 0..MaxLives
          /\ global \in [Singletons -> ClientState]
          /\ llm_instances \subseteq Providers
          /\ registered \subseteq Registries
          /\ open \subseteq Handles
          /\ dropped \subseteq Handles
          /\ errors \subseteq CleanupSteps
          /\ failedAt \in {"none"} \cup InitSteps

Init == /\ pc = "down"
        /\ lives = 0
        /\ global = [r \in Singletons |-> "none"]
        /\ llm_instances = {}
        /\ registered = {}
        /\ open = {}
        /\ dropped = {}
        /\ errors = {}
        /\ failedAt = "none"

(***************************************************************************)
(* Helpers: the next statement, an exception that reaches the finally      *)
(* block, and publishing or clearing a singleton.                          *)
(***************************************************************************)
(* Regression: a startup failure only undoes what init_db and init_redis did. *)
FirstCleanupAfterClients == "database"

FirstCleanup == "mcp_clients"

StepTo(next) == pc' = next /\ UNCHANGED failedAt

(* Regression: the init steps moved in front of the try. *)
RaiseOutsideTry == pc' = "raised" /\ failedAt' = pc

Raise == pc' = FirstCleanup /\ failedAt' = pc

Publish(r, state) == /\ global' = [global EXCEPT ![r] = state]
                     /\ open' = open \cup {r}

startup == <<lives, llm_instances, registered, errors>>   \* untouched by client inits

(***************************************************************************)
(* Startup.                                                                *)
(***************************************************************************)
(* Entering the lifespan; handles nobody references any more are out of     *)
(* this life's account.                                                     *)
Boot == /\ pc = "down"
        /\ lives < MaxLives
        /\ pc' = "load_config"
        /\ lives' = lives + 1
        /\ open' = {r \in open \cap Singletons : global[r] # "none"}
        /\ dropped' = {}
        /\ errors' = {}
        /\ failedAt' = "none"
        /\ UNCHANGED <<global, llm_instances, registered>>

LoadConfig == /\ pc = "load_config"
              /\ StepTo("init_db") \/ Raise
              /\ UNCHANGED <<lives, global, llm_instances, registered, open,
                             dropped, errors>>

(* Regression: a failed probe degrades, as it does for Redis. *)
InitDbDegraded ==
    /\ pc = "init_db"
    /\ \/ Raise /\ UNCHANGED <<global, open>>
       \/ StepTo("init_redis") /\ Publish("database", "live")
       \/ StepTo("init_redis") /\ Publish("database", "unprobed")
    /\ UNCHANGED <<startup, dropped>>

(* The database is published before SELECT 1 probes it; a failed probe      *)
(* disposes the engine, and if that raises too the reset is skipped.        *)
InitDb == /\ pc = "init_db"
          /\ IF global["database"] # "none"
             THEN StepTo("init_redis") /\ UNCHANGED <<global, open>>
             ELSE \/ Raise /\ UNCHANGED <<global, open>>
                  \/ StepTo("init_redis") /\ Publish("database", "live")
                  \/ Raise /\ Publish("database", "unprobed")
          /\ UNCHANGED <<startup, dropped>>

(* A stale client makes init_redis return early, unprobed. Otherwise: a     *)
(* network failure of the ping forgets the client without closing it, any   *)
(* other exception (a malformed url, a refused command) stops the startup.  *)
InitRedis ==
    /\ pc = "init_redis"
    /\ IF global["redis"] # "none"
       THEN StepTo("init_milvus") /\ UNCHANGED <<global, open, dropped>>
       ELSE \/ /\ StepTo("init_milvus")
               /\ Publish("redis", "live")
               /\ UNCHANGED dropped
            \/ /\ StepTo("init_milvus")
               /\ open' = open \cup {"redis"}
               /\ dropped' = dropped \cup {"redis"}
               /\ UNCHANGED global
            \/ Raise /\ UNCHANGED <<global, open, dropped>>
            \/ Raise /\ Publish("redis", "unprobed") /\ UNCHANGED dropped
    /\ UNCHANGED startup

(* The client is published after its probe; when the probe fails the        *)
(* temporary client is closed, and only a failure of that close loses it.   *)
InitMilvus ==
    /\ pc = "init_milvus"
    /\ StepTo("init_llm")
    /\ IF ~ MilvusEnabled \/ global["milvus"] # "none"
       THEN UNCHANGED <<global, open, dropped>>
       ELSE \/ Publish("milvus", "live") /\ UNCHANGED dropped
            \/ UNCHANGED <<global, open, dropped>>
            \/ /\ open' = open \cup {"milvus"}
               /\ dropped' = dropped \cup {"milvus"}
               /\ UNCHANGED global
    /\ UNCHANGED startup

(* The dicts are cleared first; providers whose client cannot be built are  *)
(* skipped. A failing api key resolution, or an import of langchain that    *)
(* fails with anything but ImportError after a client was built (the last   *)
(* one too), stops the loop and the startup.                                *)
InitLlm ==
    /\ pc = "init_llm"
    /\ \E built \in SUBSET Providers :
          /\ StepTo("init_skills") \/ (Providers # {} /\ Raise)
          /\ llm_instances' = built
          /\ open' = IF built = {} THEN open ELSE open \cup {"llm"}
    /\ UNCHANGED <<lives, global, registered, dropped, errors>>

(* The cached settings are set before the scan. Only BizException is caught *)
(* per skill: any other exception of one SKILL.md stops the startup.        *)
InitSkills == /\ pc = "init_skills"
              /\ StepTo("init_mcp_clients") \/ Raise
              /\ registered' = registered \cup {"skills"}
              /\ UNCHANGED <<lives, global, llm_instances, open, dropped, errors>>

(* No network call and nothing that raises: the manager is either enabled   *)
(* and filled or disabled and empty.                                        *)
InitMcpClients ==
    /\ pc = "init_mcp_clients"
    /\ StepTo("serving")
    /\ registered' \in {registered \cup {"mcp_clients"}, registered \ {"mcp_clients"}}
    /\ UNCHANGED <<lives, global, llm_instances, open, dropped, errors>>

(***************************************************************************)
(* Serving: requests build the outbound HTTP client on first use.          *)
(***************************************************************************)
GetClient == /\ pc = "serving"
             /\ global["http_client"] = "none"
             /\ Publish("http_client", "live")
             /\ UNCHANGED <<pc, lives, llm_instances, registered, dropped,
                            errors, failedAt>>

Shutdown == /\ pc = "serving"
            /\ pc' = FirstCleanup
            /\ UNCHANGED <<lives, global, llm_instances, registered, open,
                           dropped, errors, failedAt>>

(***************************************************************************)
(* Cleanup: _cleanup_resources runs every close; a close that raises adds  *)
(* an error and the loop goes on.                                          *)
(***************************************************************************)
cleanup == <<lives, dropped, failedAt>>                      \* untouched by closes

CloseMcpClients == /\ pc = "mcp_clients"
                   /\ pc' = "skills"
                   /\ registered' = registered \ {"mcp_clients"}
                   /\ UNCHANGED <<cleanup, global, llm_instances, open, errors>>

CloseSkills == /\ pc = "skills"
               /\ pc' = "llm"
               /\ registered' = registered \ {"skills"}
               /\ UNCHANGED <<cleanup, global, llm_instances, open, errors>>

(* Regression: the dicts are cleared before the loop over their clients. *)
CloseLlmClearedFirst ==
    /\ pc = "llm"
    /\ pc' = "milvus"
    /\ llm_instances' = {}
    /\ UNCHANGED <<cleanup, global, registered, open, errors>>

(* Every instance is closed, the dicts are cleared whatever happened. *)
CloseLlm == /\ pc = "llm"
            /\ pc' = "milvus"
            /\ \E bad \in SUBSET llm_instances :
                  IF bad = {} THEN /\ open' = open \ {"llm"}
                                   /\ UNCHANGED errors
                              ELSE /\ errors' = errors \cup {"llm"}
                                   /\ UNCHANGED open
            /\ llm_instances' = {}
            /\ UNCHANGED <<cleanup, global, registered>>

(* Regression: a close that raises is logged and forgotten. *)
CloseSwallowed(r, afterwards) ==
    IF global[r] = "none"
    THEN UNCHANGED <<global, open, errors>>
    ELSE \E state \in {"none", afterwards} :
            /\ global' = [global EXCEPT ![r] = state]
            /\ open' = IF state = "none" THEN open \ {r} ELSE open
            /\ UNCHANGED errors

(* The outcomes of closing the client of r. "afterwards" is what the global *)
(* holds when the SDK's close raised: "none" if the reset is in a finally   *)
(* block, "stale" if it comes after the await.                              *)
Close(r, afterwards) ==
    IF global[r] = "none"
    THEN UNCHANGED <<global, open, errors>>
    ELSE \/ /\ global' = [global EXCEPT ![r] = "none"]
            /\ open' = open \ {r}
            /\ UNCHANGED errors
         \/ /\ global' = [global EXCEPT ![r] = afterwards]
            /\ errors' = errors \cup {r}
            /\ UNCHANGED open

CloseMilvus == /\ pc = "milvus"
               /\ pc' = "http_client"
               /\ Close("milvus", "none")
               /\ UNCHANGED <<cleanup, llm_instances, registered>>

CloseClient == /\ pc = "http_client"
               /\ pc' = "database"
               /\ Close("http_client", "stale")
               /\ UNCHANGED <<cleanup, llm_instances, registered>>

DisposeDb == /\ pc = "database"
             /\ pc' = "redis"
             /\ Close("database", "none")
             /\ UNCHANGED <<cleanup, llm_instances, registered>>

(* Regression: closing a client whose earlier close raised never returns. *)
CloseRedisHangs == /\ pc = "redis"
                   /\ global["redis"] # "stale"
                   /\ pc' = "report"
                   /\ Close("redis", "stale")
                   /\ UNCHANGED <<cleanup, llm_instances, registered>>

CloseRedis == /\ pc = "redis"
              /\ pc' = "report"
              /\ Close("redis", "stale")
              /\ UNCHANGED <<cleanup, llm_instances, registered>>

(* The lifespan ends: with the startup exception, with the RuntimeError     *)
(* that lists errors, or normally.                                          *)
Report == /\ pc = "report"
          /\ pc' = "down"
          /\ UNCHANGED <<lives, global, llm_instances, registered, open,
                         dropped, errors, failedAt>>

StartupStep == \/ LoadConfig \/ InitDb \/ InitRedis \/ InitMilvus
               \/ InitLlm \/ InitSkills \/ InitMcpClients

CleanupStep == \/ CloseMcpClients \/ CloseSkills \/ CloseLlm \/ CloseMilvus
               \/ CloseClient \/ DisposeDb \/ CloseRedis \/ Report

Next == Boot \/ StartupStep \/ GetClient \/ Shutdown \/ CleanupStep

Spec == Init /\ [][Next]_vars

(* Every close returns or raises (assumed of the SDKs, the code sets no     *)
(* timeout on a close), so the finally block goes on; neither the end of a  *)
(* startup nor a shutdown request is assumed.                               *)
FairSpec == Spec /\ WF_vars(CleanupStep)

(***************************************************************************)
(* Safety.                                                                 *)
(***************************************************************************)
(* init_db fails fast: the application serves only on a database whose      *)
(* SELECT 1 passed in this lifespan.                                        *)
ServesOnProbedDb == pc = "serving" => global["database"] = "live"

(* Whatever startup or cleanup failure happened, once the lifespan is over  *)
(* the only clients a module still names are the ones whose close raised in *)
(* this very cleanup, and both registries and the gateway are empty.        *)
LeftoversReported ==
    pc = "down" => /\ registered = {}
                   /\ llm_instances = {}
                   /\ \A r \in Singletons : global[r] # "none" => r \in errors

(* A handle still open after the lifespan was either reported by            *)
(* _cleanup_resources or given up by a degraded Redis/Milvus startup.       *)
LeaksAccounted == pc = "down" => open \subseteq errors \cup dropped

(* The refinement: with open as what is held, and the reported or given up  *)
(* handles as excuses, every lifespan is a resource scope.                  *)
Scope == INSTANCE ResourceScope WITH
            Resource <- Handles,
            active   <- pc # "down",
            held     <- open,
            excused  <- (errors \cup dropped) \cap Handles

ImplementsScope == Scope!Spec

(* A failed startup or a requested shutdown always reaches the end of the   *)
(* finally block, however many closes raise.                                *)
CleanupTerminates == (pc \in CleanupSteps) ~> (pc = "down")

(***************************************************************************)
(* What the code's documentation says, which the code does not do.         *)
(***************************************************************************)
(* server.py:5, "关闭期逆序释放资源": resources are released in the reverse *)
(* of the order they were initialised in, so Redis (initialised after the   *)
(* database) is gone before the database is.                                *)
ReverseRelease ==
    [][ DisposeDb /\ global["database"] # "none" => global["redis"] = "none" ]_vars

(* redis.py:76, "build/ping 任一失败都不阻断启动": startup never fails in   *)
(* init_redis.                                                              *)
RedisNeverBlocksStartup == failedAt # "init_redis"
=============================================================================
