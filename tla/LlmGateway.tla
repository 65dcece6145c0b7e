----------------------------- MODULE LlmGateway -----------------------------
(***************************************************************************)
(* The tables of app/core/llm/gateway.py: the OpenAI client, the LangChain *)
(* model and the configuration of each provider, and the LangSmith switch. *)
(* init_llm() empties them and fills them again provider by provider, each *)
(* of which may fail in three ways; close_llm() awaits the clients and     *)
(* then empties the tables at once. Clients that fail to close are the     *)
(* concern of Lifespan.                                                    *)
(***************************************************************************)
EXTENDS Naturals

CONSTANTS Providers,          \* settings.llm.providers
          default_provider,   \* settings.llm.default_provider
          Undeclared,         \* a name settings.llm.providers does not have
          Embedders,          \* providers with an embedding_model
          Lookers             \* providers with a multimodal_model

ASSUME GatewayAssumption == /\ default_provider \in Providers \cup {Undeclared}
                            /\ Undeclared \notin Providers
                            /\ "default" \notin Providers
                            /\ Embedders \subseteq Providers
                            /\ Lookers \subseteq Providers

VARIABLES llm_instances,      \* providers with a client
          langchain_models,   \* providers with a LangChain model
          provider_configs,   \* providers with a stored configuration
          langsmith,          \* _langsmith_config: "none", "off" or "on"
          tracing,            \* os.environ: LANGSMITH_TRACING_V2 is "true"
          unbuilt,            \* providers the loop of init_llm() has yet to reach
          no_client,          \* ghost: providers whose client failed at this startup
          no_model            \* ghost: those without a LangChain model for a failure

gateway == <<llm_instances, langchain_models, provider_configs, langsmith, tracing,
             unbuilt, no_client, no_model>>

(* What a caller may pass as a provider; "default" stands for None.         *)
Names == Providers \cup {Undeclared, "default"}

GatewayTypeOK == /\ llm_instances \subseteq Providers
                 /\ langchain_models \subseteq Providers
                 /\ provider_configs \subseteq Providers
                 /\ langsmith \in {"none", "off", "on"}
                 /\ tracing \in BOOLEAN
                 /\ unbuilt \subseteq Providers
                 /\ no_client \subseteq Providers
                 /\ no_model \subseteq Providers

(* The variable may have been injected by a shell or an IDE.                *)
GatewayInit == /\ llm_instances = {}
               /\ langchain_models = {}
               /\ provider_configs = {}
               /\ langsmith = "none"
               /\ tracing \in BOOLEAN
               /\ unbuilt = {}
               /\ no_client = {}
               /\ no_model = {}

(***************************************************************************)
(* init_llm(), close_llm()                                                 *)
(***************************************************************************)
(* Regression: nothing is set when the switch is off.                       *)
TracingOnlyOn(enabled) == IF enabled THEN TRUE ELSE tracing

(* configure_langsmith_tracing(): both prefixes are set alike, also to      *)
(* "false", against a "true" from outside.                                  *)
Tracing(enabled) == enabled

(* Before the loop: the tables are emptied and LangSmith is configured.     *)
InitLlm(enabled) ==
    /\ llm_instances' = {}
    /\ langchain_models' = {}
    /\ provider_configs' = {}
    /\ langsmith' = IF enabled THEN "on" ELSE "off"
    /\ tracing' = Tracing(enabled)
    /\ unbuilt' = Providers
    /\ UNCHANGED <<no_client, no_model>>

(* Regression: the configuration is stored before its client is built.      *)
ConfiguredFirst(name, client) == provider_configs \cup {name}

(* provider_configs[name] = cfg follows the construction in the same try.   *)
Configured(name, client) ==
    IF client THEN provider_configs \cup {name} ELSE provider_configs

(* A turn of the loop. Without a client the rest of the turn is skipped;    *)
(* without a LangChain model the client and the configuration stay.         *)
BuildProvider(name, client, model) ==
    /\ name \in unbuilt
    /\ model => client
    /\ unbuilt' = unbuilt \ {name}
    /\ provider_configs' = Configured(name, client)
    /\ IF client THEN llm_instances' = llm_instances \cup {name} /\ UNCHANGED no_client
       ELSE no_client' = no_client \cup {name} /\ UNCHANGED llm_instances
    /\ IF model THEN langchain_models' = langchain_models \cup {name} /\ UNCHANGED no_model
       ELSE no_model' = no_model \cup {name} /\ UNCHANGED langchain_models
    /\ UNCHANGED <<langsmith, tracing>>

(* What is raised outside a try ends the loop and leaves the tables half    *)
(* filled: resolve_api_key() before a client is built, or, after one was,   *)
(* an import of langchain that fails with anything but ImportError.         *)
LoopRaises(name, client) ==
    /\ name \in unbuilt
    /\ unbuilt' = {}
    /\ IF client THEN llm_instances' = llm_instances \cup {name}
                      /\ provider_configs' = Configured(name, TRUE)
       ELSE UNCHANGED <<llm_instances, provider_configs>>
    /\ UNCHANGED <<langchain_models, langsmith, tracing, no_client, no_model>>

(* The ghosts are those of one life.                                        *)
CloseLlm == /\ llm_instances' = {}
            /\ langchain_models' = {}
            /\ provider_configs' = {}
            /\ langsmith' = "none"
            /\ no_client' = {}
            /\ no_model' = {}
            /\ UNCHANGED <<tracing, unbuilt>>

(***************************************************************************)
(* Lookups: the errno the caller gets, or "none".                          *)
(***************************************************************************)
ProviderOf(name) == IF name = "default" THEN default_provider ELSE name

ResolveErrno == IF llm_instances = {} THEN "LLM_NOT_INITIALIZED" ELSE "none"

GetLlmErrno(name) ==
    IF ResolveErrno # "none" THEN ResolveErrno
    ELSE IF ProviderOf(name) \in llm_instances THEN "none"
    ELSE "LLM_PROVIDER_NOT_FOUND"

GetProviderConfigErrno(name) ==
    IF ResolveErrno # "none" THEN ResolveErrno
    ELSE IF ProviderOf(name) \in provider_configs THEN "none"
    ELSE "LLM_NOT_INITIALIZED"

GetLangchainErrno(name) ==
    IF ResolveErrno # "none" THEN ResolveErrno
    ELSE IF ProviderOf(name) \in langchain_models THEN "none"
    ELSE "LLM_NOT_INITIALIZED"

(* A LangChain run that starts now is reported to LangSmith: by the         *)
(* environment, or because langchain_tracing_context() turns it on.         *)
Reported == tracing \/ langsmith = "on"
=============================================================================
