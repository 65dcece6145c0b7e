---------------------------- MODULE LlmRequests ----------------------------
(***************************************************************************)
(* Calls to model vendors over the lives of one process: the five ways a   *)
(* request reaches a vendor (embed(), analyze_images(), the two test       *)
(* endpoints of llm_router.py, SkillService.run_skill()) on top of the     *)
(* gateway's tables and the skill registry, which the lifespan fills and   *)
(* empties.                                                                *)
(*                                                                         *)
(* A call awaits once, for the vendor. Everything before is one step: it   *)
(* validates, looks its client up and either refuses or calls the client.  *)
(* Everything after is one step that reads nothing but the answer. The     *)
(* client and the vendor are external: the call may raise before anything  *)
(* is sent, or fail at the vendor, or be answered with something           *)
(* malformed; one that fails may have been carried out and charged.        *)
(***************************************************************************)
EXTENDS Embedding, LlmGateway, SkillRegistry

CONSTANTS Calls,       \* bound: requests under way at once
          MaxLives,    \* bound: lifespans of the process
          zhipu,       \* the provider test_zhipu_llm() names
          Images       \* the images a caller may pass

ASSUME RequestsAssumption == /\ MaxLives \in Nat
                             /\ zhipu \in Providers \cup {Undeclared}

VARIABLES pc,       \* where the lifespan is
          lives,    \* lifespans entered
          call      \* by request: what it knows, and how it ended

vars == <<gateway, files, registry, pc, lives, call>>

Kinds == {"none", "embed", "analyze", "chat", "langchain", "skill"}

Refusals == {"LLM_INVALID_INPUT", "LLM_NOT_INITIALIZED", "LLM_PROVIDER_NOT_FOUND",
             "LLM_CAPABILITY_NOT_CONFIGURED", "SKILL_NOT_INITIALIZED",
             "SKILL_NOT_FOUND", "SKILL_DISABLED", "SKILL_LOAD_FAILED"}
Failures == {"LLM_CALL_FAILED", "LLM_INVALID_RESPONSE", "SKILL_RUN_FAILED", "crash"}
Answers  == {"none", "ok"} \cup Refusals \cup Failures

(* Vectors are told apart by the text they belong to, counted from 0.       *)
Vectors == UNION {[1..n -> 0..(n - 1)] : n \in 0..MAX_EMBEDDING_BATCH_SIZE}
Batches == [texts : 0..MAX_EMBEDDING_BATCH_SIZE, vectors : Vectors]
NoBatch == [texts |-> 0, vectors |-> <<>>]

(* What a LangChain run is given: the skill, its bundle, and whether the    *)
(* run goes to LangSmith too.                                               *)
Runs  == [name : SkillNames \cup {"none"}, bundle : Bundles \cup {NoBundle},
          reported : BOOLEAN]
NoRun == [name |-> "none", bundle |-> NoBundle, reported |-> FALSE]

Records == [kind : Kinds, at : {"idle", "await", "done"}, answer : Answers,
            batch : Batches, run : Runs]

(* A call that ended keeps what its caller saw.                             *)
Idle == [kind |-> "none", at |-> "idle", answer |-> "none",
         batch |-> NoBatch, run |-> NoRun]
Refused(kind, errno) ==
        [kind |-> kind, at |-> "done", answer |-> errno,
         batch |-> NoBatch, run |-> NoRun]
Started(kind, batch, run) ==
        [kind |-> kind, at |-> "await", answer |-> "none",
         batch |-> batch, run |-> run]
Ended(kind, answer, batch) ==
        [kind |-> kind, at |-> "done", answer |-> answer,
         batch |-> batch, run |-> NoRun]

(* The type invariant of the tables, the registry and the calls.            *)
TypeOK == /\ GatewayTypeOK
          /\ SkillTypeOK
          /\ pc \in {"down", "init_llm", "providers", "init_skills", "serving",
                     "close_skills", "close_llm"}
          /\ lives \in 0..MaxLives
          /\ call \in [Calls -> Records]

Init == /\ GatewayInit
        /\ SkillInit
        /\ pc = "down"
        /\ lives = 0
        /\ call = [c \in Calls |-> Idle]

(***************************************************************************)
(* The lifespan, as far as it concerns the two components. A shutdown does *)
(* not wait for the calls; a new life begins when they are gone.           *)
(***************************************************************************)
Boot == /\ pc = "down"
        /\ lives < MaxLives
        /\ \A c \in Calls : call[c].at # "await"
        /\ pc' = "init_llm"
        /\ lives' = lives + 1
        /\ call' = [c \in Calls |-> Idle]
        /\ UNCHANGED <<gateway, files, registry>>

StartLlm == /\ pc = "init_llm"
            /\ \E enabled \in BOOLEAN : InitLlm(enabled)
            /\ pc' = "providers"
            /\ UNCHANGED <<files, registry, lives, call>>

(* The loop over the providers. What it raises ends the startup.            *)
FillTables ==
    /\ pc = "providers"
    /\ \/ /\ \E name \in unbuilt, client, model \in BOOLEAN :
                BuildProvider(name, client, model)
          /\ UNCHANGED pc
       \/ /\ \E name \in unbuilt, client \in BOOLEAN : LoopRaises(name, client)
          /\ pc' = "close_skills"
       \/ /\ unbuilt = {}
          /\ pc' = "init_skills"
          /\ UNCHANGED gateway
    /\ UNCHANGED <<files, registry, lives, call>>

(* The startup may still fail after the scan, in init_mcp_clients().        *)
StartSkills ==
    /\ pc = "init_skills"
    /\ \E scan, cache_loaded \in BOOLEAN :
          /\ InitSkills(scan, cache_loaded)
          /\ pc' \in {"serving", "close_skills"}
          /\ ScanRaises(scan) => pc' = "close_skills"
    /\ UNCHANGED <<gateway, files, lives, call>>

(* Calls that ended are forgotten, those under way go on.                   *)
Shutdown == /\ pc = "serving"
            /\ pc' = "close_skills"
            /\ call' = [c \in Calls |-> IF call[c].at = "await" THEN call[c] ELSE Idle]
            /\ UNCHANGED <<gateway, files, registry, lives>>

StopSkills == /\ pc = "close_skills"
              /\ CloseSkills
              /\ pc' = "close_llm"
              /\ UNCHANGED <<gateway, files, lives, call>>

StopLlm == /\ pc = "close_llm"
           /\ CloseLlm
           /\ pc' = "down"
           /\ UNCHANGED <<files, registry, lives, call>>

Edit == /\ \E d \in Dirs : EditSkill(d)
        /\ UNCHANGED <<gateway, registry, pc, lives, call>>

(***************************************************************************)
(* The first step of a call: it is refused, or it calls its client.        *)
(***************************************************************************)
MayBegin(c) == pc = "serving" /\ call[c].at # "await"

Decide(c, kind, errno, started) ==
    call' = [call EXCEPT ![c] = IF errno = "none" THEN started ELSE Refused(kind, errno)]

(* The errno of a check, or of the checks that follow when it passes.       *)
OrElse(errno, next) == IF errno # "none" THEN errno ELSE next

Capability(name, able) ==
    IF ProviderOf(name) \in able THEN "none" ELSE "LLM_CAPABILITY_NOT_CONFIGURED"

(* The three lookups embed() and analyze_images() have in common.           *)
VendorErrno(name, able) ==
    OrElse(GetProviderConfigErrno(name), OrElse(Capability(name, able), GetLlmErrno(name)))

(* What the validation says of every input.                                 *)
TextInputs ==
    {LET errno == TextsErrno(n, blank, dimensions)
     IN  [texts |-> IF errno = "none" THEN n ELSE 0, errno |-> errno] :
        n \in 0..(MAX_EMBEDDING_BATCH_SIZE + 1), blank \in BOOLEAN,
        dimensions \in {"none", "positive", "nonpositive"}}

ImageInputs ==
    {MultimodalErrno(blank, images, max_tokens) :
        blank \in BOOLEAN, max_tokens \in {"none", "positive", "nonpositive"},
        images \in UNION {[1..n -> Images] : n \in 0..(MAX_IMAGES_PER_REQUEST + 1)}}

(* embed(), called by test_embeddings().                                    *)
Embed(c) ==
    \E input \in TextInputs, name \in Names :
       Decide(c, "embed", OrElse(input.errno, VendorErrno(name, Embedders)),
              Started("embed", [texts |-> input.texts, vectors |-> <<>>], NoRun))

(* analyze_images(), called by test_multimodal().                           *)
Analyze(c) ==
    \E input \in ImageInputs, name \in Names :
       Decide(c, "analyze", OrElse(input, VendorErrno(name, Lookers)),
              Started("analyze", NoBatch, NoRun))

(* settings.llm.providers.get(name): both test endpoints and run_skill()    *)
(* look into the settings before they ask the gateway.                      *)
Declared(name, errno) == IF ProviderOf(name) \in Providers THEN "none" ELSE errno

(* test_zhipu_llm(); the route's schema has checked the parameters.         *)
Chat(c) == Decide(c, "chat", OrElse(Declared(zhipu, "LLM_CALL_FAILED"), GetLlmErrno(zhipu)),
                  Started("chat", NoBatch, NoRun))

LangchainErrno(name, undeclared) ==
    OrElse(Declared(name, undeclared), GetLangchainErrno(ProviderOf(name)))

(* test_langchain_llm(), whose provider is zhipu when none is named.        *)
Langchain(c) ==
    \E name \in Names \ {"default"} :
       Decide(c, "langchain", LangchainErrno(name, "LLM_CALL_FAILED"),
              Started("langchain", NoBatch, [NoRun EXCEPT !.reported = Reported]))

(* run_skill(): the body is loaded, and cached, before the provider is      *)
(* looked up.                                                               *)
RunSkill(c) ==
    \E n \in SkillNames, name \in Names :
       /\ Decide(c, "skill", OrElse(LoadErrno(n), LangchainErrno(name, "SKILL_RUN_FAILED")),
                 Started("skill", NoBatch, [name |-> n, bundle |-> Loaded(n),
                                            reported |-> Reported]))
       /\ IF LoadErrno(n) = "none" THEN Load(n) ELSE UNCHANGED registry

Begin(c) == /\ MayBegin(c)
            /\ \/ (Embed(c) \/ Analyze(c) \/ Chat(c) \/ Langchain(c)) /\ UNCHANGED registry
               \/ RunSkill(c)
            /\ UNCHANGED <<gateway, files, pc, lives>>

(***************************************************************************)
(* The second step: the vendor has answered, failed or timed out.          *)
(***************************************************************************)
End(c, answer, batch) ==
    call' = [call EXCEPT ![c] = Ended(call[c].kind, answer, batch)]

(* What a vendor may answer n texts with: the items in any order, indexes   *)
(* out of range, twice or missing, vectors malformed, an item too few.      *)
Items(n) == [index : -1..n, vector : {NotNumeric}]
               \cup {[index |-> i, vector |-> i] : i \in -1..n}
VendorAnswers(n) == UNION {[1..m -> Items(n)] : m \in {n - 1, n}}

(* parse_vectors() on each of them.                                         *)
Parsings ==
    [n \in 1..MAX_EMBEDDING_BATCH_SIZE |->
        {IF Accepted(data, n)
         THEN [answer |-> "ok", vectors |-> ParseVectors(data, n)]
         ELSE [answer |-> "LLM_INVALID_RESPONSE", vectors |-> <<>>] :
         data \in VendorAnswers(n)}]

(* Numbers int() or float() cannot convert raise what nobody catches.       *)
EmbedEnds(c) ==
    \/ \E answer \in {"LLM_CALL_FAILED", "crash"} : End(c, answer, call[c].batch)
    \/ \E parsing \in Parsings[call[c].batch.texts] :
          End(c, parsing.answer, [call[c].batch EXCEPT !.vectors = parsing.vectors])

(* Regression: run_skill() catches what the SDK raises and nothing else.    *)
EndingsUnconverted(kind) ==
    IF kind = "skill" THEN {"ok", "SKILL_RUN_FAILED", "exception"}
    ELSE IF kind = "none" THEN {} ELSE {"ok", "LLM_CALL_FAILED"}

(* How the other kinds may end.                                             *)
Endings(kind) ==
    CASE kind = "analyze"   -> {"ok", "LLM_CALL_FAILED", "LLM_INVALID_RESPONSE", "crash"}
      [] kind = "chat"      -> {"ok", "LLM_CALL_FAILED", "crash"}
      [] kind = "langchain" -> {"ok", "LLM_CALL_FAILED"}
      [] kind = "skill"     -> {"ok", "SKILL_RUN_FAILED"}
      [] OTHER              -> {}

Answered(c) == /\ call[c].at = "await"
               /\ \/ call[c].kind = "embed" /\ EmbedEnds(c)
                  \/ \E answer \in Endings(call[c].kind) : End(c, answer, NoBatch)

(* Regression: the answer is awaited on a client that may be closed.        *)
AnsweredWhileOpen(c) == llm_instances # {} /\ Answered(c)

(* No table is read after the await.                                        *)
Answer(c) == Answered(c)

Reply(c) == Answer(c) /\ UNCHANGED <<gateway, files, registry, pc, lives>>

Next == \/ Boot \/ StartLlm \/ FillTables \/ StartSkills \/ Shutdown \/ StopSkills \/ StopLlm
        \/ Edit
        \/ \E c \in Calls : Begin(c) \/ Reply(c)

Spec == Init /\ [][Next]_vars

(* A vendor answers, fails or times out: the SDK's timeout bounds a call.   *)
FairSpec == Spec /\ \A c \in Calls : WF_vars(Reply(c))

(***************************************************************************)
(* Properties.                                                             *)
(***************************************************************************)
(* registry.py, load(): a skill that runs has the body of the directory     *)
(* the index names, as it was at the scan of this life or later. Unless the *)
(* file was edited since the scan, the body is enabled and says it is the   *)
(* skill that was asked for.                                                *)
Explained(n, b) ==
    /\ b.dir = skill_index[n].dir
    /\ b.edit >= scanned[b.dir]
    /\ b.edit = scanned[b.dir] => b.name = n /\ b.enabled

RunExplained ==
    \A c \in Calls :
       pc = "serving" /\ call[c].at = "await" /\ call[c].kind = "skill"
       => Explained(call[c].run.name, call[c].run.bundle)

(* registry.py, skill_bundles: with cache_loaded, all runs of a skill in    *)
(* one life have the same body, whatever happens to its file.               *)
CachedBodiesAgree ==
    \A c \in Calls :
       settings_cache = "caching" /\ call[c].at = "await" /\ call[c].kind = "skill"
       => call[c].run.bundle = first[call[c].run.name]

(* gateway.py, configure_langsmith_tracing(): with the LangSmith switch off *)
(* no run is reported, whatever the environment or an earlier life set.     *)
QuietWhenDisabled ==
    \A c \in Calls : langsmith = "off" /\ call[c].at = "await" => ~ call[c].run.reported

(* gateway.py, init_llm(): a provider that cannot be built costs itself and *)
(* nobody else. While the application serves, each of the three lookups     *)
(* refuses a declared provider exactly if its own construction failed at    *)
(* this startup, whatever happened to the others or to an earlier startup   *)
(* that was given up halfway; so no configuration is without its client.    *)
OwnFailureOnly ==
    pc = "serving" =>
       \A p \in Providers :
          /\ GetLlmErrno(p) # "none" <=> p \in no_client
          /\ GetProviderConfigErrno(p) # "none" <=> p \in no_client
          /\ GetLangchainErrno(p) # "none" <=> p \in no_model

(* embedding.py, parse_vectors(): whatever order the vendor answers in, the *)
(* i-th vector of a successful embed() is the one of the i-th text.         *)
VectorsInOrder ==
    \A c \in Calls :
       call[c].kind = "embed" /\ call[c].answer = "ok"
       => call[c].batch.vectors = [k \in 1..call[c].batch.texts |-> k - 1]

(* Every call under way ends, also when the gateway is closed under it.     *)
CallsEnd == \A c \in Calls : call[c].at = "await" ~> call[c].at # "await"
=============================================================================
