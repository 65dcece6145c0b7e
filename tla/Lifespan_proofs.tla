--------------------------- MODULE Lifespan_proofs ---------------------------
(***************************************************************************)
(* Proofs about Lifespan, for every set of providers, every bound on the   *)
(* lifespans of a process and Milvus enabled or not.                       *)
(*                                                                         *)
(* The safety properties speak of the two moments a user sees, serving and *)
(* down. The inductive invariant says what every statement in between may  *)
(* rely on: which globals are still empty before their init step, which    *)
(* are empty again after their close, and that an open handle is either    *)
(* named by a global or excused.                                           *)
(***************************************************************************)
EXTENDS Lifespan, TLAPS

(* The statements at which the database engine is certainly absent, and     *)
(* certainly probed.                                                        *)
NoDb    == {"down", "load_config", "init_db", "redis", "report"}
DbReady == {"init_redis", "init_milvus", "init_llm", "init_skills",
            "init_mcp_clients", "serving"}

(* The statements at which Milvus, the gateway and the registries are empty. *)
Idle     == {"down", "load_config", "init_db", "init_redis"}
NoMilvus == Idle \cup {"init_milvus", "http_client", "database", "redis", "report"}
NoLlm    == Idle \cup {"init_milvus", "init_llm", "milvus", "http_client",
                       "database", "redis", "report"}
NoMcp    == NoLlm \cup {"init_skills", "init_mcp_clients", "skills", "llm"}
NoSkills == NoLlm \cup {"init_skills", "llm"}

PhaseInv ==
    /\ pc \in NoDb     => global["database"] = "none"
    /\ pc \in DbReady  => global["database"] = "live"
    /\ pc \in NoMilvus => global["milvus"] = "none"
    /\ pc \in NoLlm    => llm_instances = {}
    /\ pc \in NoMcp    => "mcp_clients" \notin registered
    /\ pc \in NoSkills => "skills" \notin registered

(* After the close of a client whose reset is not in a finally block. *)
StaleInv ==
    /\ pc \in {"report", "down"} /\ global["redis"] # "none" => "redis" \in errors
    /\ pc \in {"database", "redis", "report", "down"} /\ global["http_client"] # "none"
          => "http_client" \in errors

(* No init function overwrites a reference to an open client: a handle is   *)
(* open, not given up and its close has not raised only while some module   *)
(* still names it, so that a later close can reach it.                      *)
OpenIsReachable ==
    /\ \A r \in (open \cap Singletons) \ (dropped \cup errors) :
          global[r] # "none"
    /\ "llm" \in open \ errors => llm_instances # {}

IInv == TypeOK /\ PhaseInv /\ StaleInv /\ OpenIsReachable

-----------------------------------------------------------------------------
LEMMA InitIInv == Init => IInv
BY LifespanAssumption
   DEF Init, IInv, TypeOK, PhaseInv, StaleInv, OpenIsReachable, ClientState,
       Singletons, Handles, Registries, InitSteps, CleanupSteps,
       NoDb, DbReady, Idle, NoMilvus, NoLlm, NoMcp, NoSkills

(* Every step preserves the types. *)
LEMMA TypeStep == TypeOK /\ [Next]_vars => TypeOK'
<1> SUFFICES ASSUME TypeOK, [Next]_vars PROVE TypeOK'
  OBVIOUS
<1> USE LifespanAssumption DEF TypeOK, ClientState, Singletons, Handles,
        Registries, InitSteps, CleanupSteps, StepTo, Raise, Publish, startup,
        cleanup, FirstCleanup
<1>1. CASE Boot  BY <1>1 DEF Boot
<1>2. CASE LoadConfig  BY <1>2 DEF LoadConfig
<1>3. CASE InitDb  BY <1>3 DEF InitDb
<1>4. CASE InitRedis  BY <1>4 DEF InitRedis
<1>5. CASE InitMilvus  BY <1>5 DEF InitMilvus
<1>6. CASE InitLlm  BY <1>6 DEF InitLlm
<1>7. CASE InitSkills  BY <1>7 DEF InitSkills
<1>8. CASE InitMcpClients  BY <1>8 DEF InitMcpClients
<1>9. CASE GetClient  BY <1>9 DEF GetClient
<1>10. CASE Shutdown  BY <1>10 DEF Shutdown
<1>11. CASE CloseMcpClients  BY <1>11 DEF CloseMcpClients
<1>12. CASE CloseSkills  BY <1>12 DEF CloseSkills
<1>13. CASE CloseLlm  BY <1>13 DEF CloseLlm
<1>14. CASE CloseMilvus  BY <1>14 DEF CloseMilvus, Close
<1>15. CASE CloseClient  BY <1>15 DEF CloseClient, Close
<1>16. CASE DisposeDb  BY <1>16 DEF DisposeDb, Close
<1>17. CASE CloseRedis  BY <1>17 DEF CloseRedis, Close
<1>18. CASE Report  BY <1>18 DEF Report
<1>19. CASE UNCHANGED vars  BY <1>19 DEF vars
<1> QED
  BY <1>1, <1>2, <1>3, <1>4, <1>5, <1>6, <1>7, <1>8, <1>9, <1>10, <1>11,
     <1>12, <1>13, <1>14, <1>15, <1>16, <1>17, <1>18, <1>19
  DEF Next, StartupStep, CleanupStep

(* The lifespan module is type correct. *)
THEOREM TypeCorrect == Spec => []TypeOK
<1>1. Init => TypeOK  BY InitIInv DEF IInv
<1>2. QED  BY <1>1, TypeStep, PTL DEF Spec

-----------------------------------------------------------------------------
(* Every step preserves what the phases know of the globals. *)
LEMMA PhaseStep == IInv /\ [Next]_vars => PhaseInv' /\ StaleInv'
<1> SUFFICES ASSUME IInv, [Next]_vars PROVE PhaseInv' /\ StaleInv'
  OBVIOUS
<1> USE DEF IInv, TypeOK, PhaseInv, StaleInv, ClientState, Singletons, Handles,
        Registries, InitSteps, CleanupSteps, StepTo, Raise, Publish, startup,
        cleanup, FirstCleanup, NoDb, DbReady, Idle, NoMilvus, NoLlm, NoMcp, NoSkills
<1>1. CASE Boot  BY <1>1 DEF Boot
<1>2. CASE LoadConfig  BY <1>2 DEF LoadConfig
<1>3. CASE InitDb  BY <1>3 DEF InitDb
<1>4. CASE InitRedis  BY <1>4 DEF InitRedis
<1>5. CASE InitMilvus  BY <1>5 DEF InitMilvus
<1>6. CASE InitLlm  BY <1>6 DEF InitLlm
<1>7. CASE InitSkills  BY <1>7 DEF InitSkills
<1>8. CASE InitMcpClients  BY <1>8 DEF InitMcpClients
<1>9. CASE GetClient  BY <1>9 DEF GetClient
<1>10. CASE Shutdown  BY <1>10 DEF Shutdown
<1>11. CASE CloseMcpClients  BY <1>11 DEF CloseMcpClients
<1>12. CASE CloseSkills  BY <1>12 DEF CloseSkills
<1>13. CASE CloseLlm  BY <1>13 DEF CloseLlm
<1>14. CASE CloseMilvus  BY <1>14 DEF CloseMilvus, Close
<1>15. CASE CloseClient  BY <1>15 DEF CloseClient, Close
<1>16. CASE DisposeDb  BY <1>16 DEF DisposeDb, Close
<1>17. CASE CloseRedis  BY <1>17 DEF CloseRedis, Close
<1>18. CASE Report  BY <1>18 DEF Report
<1>19. CASE UNCHANGED vars  BY <1>19 DEF vars
<1> QED
  BY <1>1, <1>2, <1>3, <1>4, <1>5, <1>6, <1>7, <1>8, <1>9, <1>10, <1>11,
     <1>12, <1>13, <1>14, <1>15, <1>16, <1>17, <1>18, <1>19
  DEF Next, StartupStep, CleanupStep

(* No step loses sight of an open handle it has no excuse for. *)
LEMMA ReachableStep == IInv /\ [Next]_vars => OpenIsReachable'
<1> SUFFICES ASSUME IInv, [Next]_vars PROVE OpenIsReachable'
  OBVIOUS
<1> USE DEF IInv, TypeOK, PhaseInv, OpenIsReachable, ClientState, Singletons,
        Handles, StepTo, Raise, Publish, startup, cleanup, FirstCleanup,
        NoDb, Idle, NoMilvus, NoLlm
<1>1. CASE Boot  BY <1>1 DEF Boot
<1>2. CASE LoadConfig  BY <1>2 DEF LoadConfig
<1>3. CASE InitDb  BY <1>3 DEF InitDb
<1>4. CASE InitRedis  BY <1>4 DEF InitRedis
<1>5. CASE InitMilvus  BY <1>5 DEF InitMilvus
<1>6. CASE InitLlm  BY <1>6 DEF InitLlm
<1>7. CASE InitSkills  BY <1>7 DEF InitSkills
<1>8. CASE InitMcpClients  BY <1>8 DEF InitMcpClients
<1>9. CASE GetClient  BY <1>9 DEF GetClient
<1>10. CASE Shutdown  BY <1>10 DEF Shutdown
<1>11. CASE CloseMcpClients  BY <1>11 DEF CloseMcpClients
<1>12. CASE CloseSkills  BY <1>12 DEF CloseSkills
<1>13. CASE CloseLlm  BY <1>13 DEF CloseLlm
<1>14. CASE CloseMilvus  BY <1>14 DEF CloseMilvus, Close
<1>15. CASE CloseClient  BY <1>15 DEF CloseClient, Close
<1>16. CASE DisposeDb  BY <1>16 DEF DisposeDb, Close
<1>17. CASE CloseRedis  BY <1>17 DEF CloseRedis, Close
<1>18. CASE Report  BY <1>18 DEF Report
<1>19. CASE UNCHANGED vars  BY <1>19 DEF vars
<1> QED
  BY <1>1, <1>2, <1>3, <1>4, <1>5, <1>6, <1>7, <1>8, <1>9, <1>10, <1>11,
     <1>12, <1>13, <1>14, <1>15, <1>16, <1>17, <1>18, <1>19
  DEF Next, StartupStep, CleanupStep

LEMMA Inductive == IInv /\ [Next]_vars => IInv'
BY TypeStep, PhaseStep, ReachableStep DEF IInv

LEMMA Invariance == Spec => []IInv
BY InitIInv, Inductive, PTL DEF Spec

-----------------------------------------------------------------------------
(* The application serves only on a database probed in this lifespan. *)
THEOREM ServesProbed == Spec => []ServesOnProbedDb
<1>1. IInv => ServesOnProbedDb
  BY DEF IInv, PhaseInv, ServesOnProbedDb, DbReady
<1>2. QED  BY Invariance, <1>1, PTL

(* A client a module still names after the lifespan is one whose failing    *)
(* close that lifespan reported; the registries and the gateway are empty.  *)
THEOREM Leftovers == Spec => []LeftoversReported
<1>1. IInv => LeftoversReported
  BY DEF IInv, TypeOK, PhaseInv, StaleInv, LeftoversReported, Singletons,
         Registries, NoDb, Idle, NoMilvus, NoLlm, NoMcp, NoSkills
<1>2. QED  BY Invariance, <1>1, PTL

(* A handle still open when the finally block is through is excused. *)
LEMMA ExcusedAtEnd ==
  ASSUME IInv, pc \in {"report", "down"}
  PROVE  open \subseteq errors \cup dropped
<1> SUFFICES ASSUME NEW r \in open, r \notin errors \cup dropped PROVE FALSE
  OBVIOUS
<1>1. CASE r \in Singletons
  <2>1. global[r] # "none"  BY <1>1 DEF IInv, OpenIsReachable
  <2>2. QED
    BY <1>1, <2>1 DEF IInv, PhaseInv, StaleInv, Singletons, NoDb, Idle, NoMilvus
<1>2. CASE r = "llm"
  BY <1>2 DEF IInv, PhaseInv, OpenIsReachable, Idle, NoLlm
<1>3. QED  BY <1>1, <1>2 DEF IInv, TypeOK, Handles

(* No handle outlives the lifespan unless _cleanup_resources reported it or *)
(* a degraded startup gave it up.                                           *)
THEOREM Leaks == Spec => []LeaksAccounted
<1>1. IInv => LeaksAccounted
  BY ExcusedAtEnd DEF LeaksAccounted
<1>2. QED  BY Invariance, <1>1, PTL

(* No init function overwrites the only reference to an open client. *)
THEOREM Reachable == Spec => []OpenIsReachable
<1>1. IInv => OpenIsReachable  BY DEF IInv
<1>2. QED  BY Invariance, <1>1, PTL

(* A singleton is only ever replaced through "none": no client is built     *)
(* over one that is still published.                                        *)
NeverRebuilt == [][ \A r \in Singletons :
                      global[r] # "none" /\ global'[r] \in {"live", "unprobed"}
                      => global'[r] = global[r] ]_vars

(* No client is built over one that is still published. *)
THEOREM NoRebuild == Spec => NeverRebuilt
<1> DEFINE Kept == \A r \in Singletons :
                     global[r] # "none" /\ global'[r] \in {"live", "unprobed"}
                     => global'[r] = global[r]
<1>1. TypeOK /\ [Next]_vars => [Kept]_vars
  <2> SUFFICES ASSUME TypeOK, [Next]_vars, ~ UNCHANGED vars PROVE Kept
    OBVIOUS
  <2> USE DEF TypeOK, ClientState, Singletons, StepTo, Raise, Publish, startup, cleanup
  <2>1. CASE InitDb \/ InitRedis \/ InitMilvus \/ GetClient
    BY <2>1 DEF InitDb, InitRedis, InitMilvus, GetClient
  <2>2. CASE CloseMilvus \/ CloseClient \/ DisposeDb \/ CloseRedis
    BY <2>2 DEF CloseMilvus, CloseClient, DisposeDb, CloseRedis, Close
  <2>3. CASE \/ Boot \/ LoadConfig \/ InitLlm \/ InitSkills \/ InitMcpClients
             \/ Shutdown \/ CloseMcpClients \/ CloseSkills \/ CloseLlm \/ Report
    BY <2>3 DEF Boot, LoadConfig, InitLlm, InitSkills, InitMcpClients, Shutdown,
                CloseMcpClients, CloseSkills, CloseLlm, Report
  <2>4. QED  BY <2>1, <2>2, <2>3 DEF Next, StartupStep, CleanupStep
<1>2. QED  BY TypeCorrect, <1>1, PTL DEF Spec, NeverRebuilt

-----------------------------------------------------------------------------
(* Refinement: a lifespan is a resource scope. Booting enters it, the end   *)
(* of the report leaves it, every other step uses it.                       *)
LEMMA ScopeInit == Init => Scope!Init
BY DEF Init, Scope!Init

LEMMA ScopeStep ==
  IInv /\ IInv' /\ [Next]_vars => [Scope!Next]_(Scope!vars)
<1> SUFFICES ASSUME IInv, IInv', [Next]_vars
             PROVE  Scope!Next \/ UNCHANGED Scope!vars
  OBVIOUS
<1> DEFINE excuses == (errors \cup dropped) \cap Handles
<1>1. CASE Boot
  <2>1. Scope!Enter  BY <1>1 DEF Boot, Scope!Enter
  <2>2. QED  BY <2>1 DEF Scope!Next
<1>2. CASE Report
  <2>1. open \subseteq excuses
    BY <1>2, ExcusedAtEnd DEF Report, IInv, TypeOK
  <2>2. Scope!Exit  BY <1>2, <2>1 DEF Report, Scope!Exit
  <2>3. QED  BY <2>2 DEF Scope!Next
<1>3. CASE UNCHANGED vars
  BY <1>3 DEF vars, Scope!vars
<1>4. CASE GetClient \/ Shutdown \/ StartupStep \/ (CleanupStep /\ ~ Report)
  <2>1. pc # "down" /\ pc' # "down" /\ dropped \subseteq dropped' /\ errors \subseteq errors'
    BY <1>4 DEF GetClient, Shutdown, StartupStep, CleanupStep, StepTo, Raise,
       startup, cleanup, FirstCleanup, LoadConfig, InitDb, InitRedis, InitMilvus,
       InitLlm, InitSkills, InitMcpClients, CloseMcpClients, CloseSkills, CloseLlm,
       CloseMilvus, CloseClient, DisposeDb, CloseRedis, Close
  <2>2. open' \subseteq Handles  BY DEF IInv, TypeOK
  <2>3. Scope!Use  BY <2>1, <2>2 DEF Scope!Use
  <2>4. QED  BY <2>3 DEF Scope!Next
<1>5. QED  BY <1>1, <1>2, <1>3, <1>4 DEF Next

(* Every behaviour of the lifespan is one of a resource scope. *)
THEOREM Refinement == Spec => ImplementsScope
<1>1. QED
  BY Invariance, ScopeInit, ScopeStep, PTL DEF Spec, Scope!Spec, ImplementsScope
=============================================================================
