---------------------------- MODULE PlatformProofs ----------------------------
(***************************************************************************)
(* What the components promise holds of the platform that runs them all,   *)
(* for every instance: a behaviour of the platform is a behaviour of each  *)
(* component, so that the theorems about the components are theorems about *)
(* it.                                                                     *)
(***************************************************************************)
EXTENDS MCPlatform, StorageProofs, ServicesProofs, EngineProofs, TLAPS

-----------------------------------------------------------------------------
(* The platform                                                             *)

platformVars == <<part, persistenceVars, engineVars, daemonsVars>>

\* A step of the platform is one of a single component, or leaves it.
LEMMA PersistenceSteps ==
  ASSUME [PlatformNext]_platformVars
  PROVE  /\ [LedgerNext]_ledgerVars /\ [StorageNext]_storageVars
         /\ [SchemaNext]_schemaVars /\ [BackupNext]_backupVars
         /\ [PostgresNext]_postgresVars /\ [DualRunNext]_dualVars
<1>1. CASE UNCHANGED persistenceVars
  BY <1>1 DEF persistenceVars
<1>2. CASE PersistenceNext(part)
  BY <1>2 DEF PersistenceNext
<1> QED
  BY <1>1, <1>2 DEF PlatformNext, platformVars

LEMMA DaemonsSteps ==
  ASSUME [PlatformNext]_platformVars
  PROVE  /\ [IdentityNext]_identityVars /\ [ApiNext]_apiVars
         /\ [DaemonNext]_daemonVars /\ [ConfigNext]_configVars
         /\ [RetrievalNext]_retrievalVars /\ [SourceNext]_sourceVars
<1>1. CASE UNCHANGED daemonsVars
  BY <1>1 DEF daemonsVars
<1>2. CASE DaemonsNext(part)
  BY <1>2 DEF DaemonsNext
<1> QED
  BY <1>1, <1>2 DEF PlatformNext, platformVars

LEMMA EngineSteps ==
  ASSUME [PlatformNext]_platformVars
  PROVE  /\ [WeightsNext]_weightVars /\ [ReviewNext]_reviewVars
         /\ [SnapshotNext]_snapshotVars /\ [CurationNext]_curationVars
         /\ [RecallNext]_recallVars /\ [TrailNext]_trailVars /\ [RecordsNext]_recordVars
<1>1. CASE UNCHANGED engineVars
  BY <1>1 DEF engineVars
<1>2. CASE EngineNext(part)
  BY <1>2 DEF EngineNext
<1> QED
  BY <1>1, <1>2 DEF PlatformNext, platformVars

\* A behaviour of the platform is one of each of what stores, serves and controls.
THEOREM PlatformImplements ==
  PlatformSpec => /\ LedgerSpec /\ StorageSpec /\ SchemaSpec /\ BackupSpec
                  /\ PostgresSpec /\ DualRunSpec /\ IdentitySpec /\ ApiSpec
                  /\ DaemonSpec /\ ConfigSpec /\ SourceSpec
<1>1. PlatformInit => /\ LedgerInit /\ StorageInit /\ SchemaInit /\ BackupInit
                      /\ PostgresInit /\ DualRunInit /\ IdentityInit /\ ApiInit
                      /\ DaemonInit /\ ConfigInit /\ SourceInit
  BY DEF PlatformInit, PersistenceInit, DaemonsInit
<1>2. [PlatformNext]_platformVars =>
        /\ [LedgerNext]_ledgerVars /\ [StorageNext]_storageVars
        /\ [SchemaNext]_schemaVars /\ [BackupNext]_backupVars
        /\ [PostgresNext]_postgresVars /\ [DualRunNext]_dualVars
        /\ [IdentityNext]_identityVars /\ [ApiNext]_apiVars
        /\ [DaemonNext]_daemonVars /\ [ConfigNext]_configVars
        /\ [SourceNext]_sourceVars
  BY PersistenceSteps, DaemonsSteps
<1> QED
  BY <1>1, <1>2, PTL DEF PlatformSpec, platformVars, LedgerSpec, StorageSpec, SchemaSpec,
     BackupSpec, PostgresSpec, DualRunSpec, IdentitySpec, ApiSpec, DaemonSpec, ConfigSpec,
     SourceSpec

\* And of each part of the engine.
THEOREM PlatformImplementsEngine ==
  PlatformSpec => /\ WeightsSpec /\ ReviewSpec /\ SnapshotSpec /\ CurationSpec
                  /\ RecallSpec /\ TrailSpec /\ RecordsSpec /\ RetrievalSpec
<1>1. PlatformInit => /\ WeightsInit /\ ReviewInit /\ SnapshotInit /\ CurationInit
                      /\ RecallInit /\ TrailInit /\ RecordsInit /\ RetrievalInit
  BY DEF PlatformInit, EngineInit, DaemonsInit
<1>2. [PlatformNext]_platformVars =>
        /\ [WeightsNext]_weightVars /\ [ReviewNext]_reviewVars
        /\ [SnapshotNext]_snapshotVars /\ [CurationNext]_curationVars
        /\ [RecallNext]_recallVars /\ [TrailNext]_trailVars
        /\ [RecordsNext]_recordVars /\ [RetrievalNext]_retrievalVars
  BY EngineSteps, DaemonsSteps
<1> QED
  BY <1>1, <1>2, PTL DEF PlatformSpec, platformVars, WeightsSpec, ReviewSpec, SnapshotSpec,
     CurationSpec, RecallSpec, TrailSpec, RecordsSpec, RetrievalSpec

\* In every reachable state of the platform: an adjustment that the ledger or the
\* trail remembers counted once, a stored outcome counts no second time, candidates
\* decay once a day, and no request stores an event twice (WeightsAreRight,
\* ReviewsAreRight, CurationIsRight).  What both lists forgot, an outcome that was
\* replaced meanwhile, and a batch with duplicates of its own may count again.
THEOREM LearningRight == PlatformSpec => []LearningIsRight
<1>1. WeightsAreRight /\ ReviewsAreRight /\ CurationIsRight => LearningRightIn(part)
  BY DEF LearningRightIn
<1>2. LearningRightIn(part) => LearningIsRight
  BY DEF LearningIsRight
<1> QED
  BY <1>1, <1>2, PlatformImplementsEngine, WeightsRight, ReviewsRight, CurationRight, PTL

\* In every reachable state of the platform: a profile has what was ingested into it
\* and nothing of another named one, though the default may share with one; recall
\* and retrieval show what their rules allow; records take the newest value and count
\* a signal once, with a note of each of a misconception without a state file; and
\* the trail keeps its newest events (SnapshotsAreRight, RecallIsRight,
\* RecordsAreRight, TrailIsRight, RetrievalIsRight).
THEOREM EngineStateRight == PlatformSpec => []EngineStateIsRight
<1>1. SnapshotsAreRight /\ RecallIsRight /\ RecordsAreRight /\ TrailIsRight
        => EngineStateRightIn(part)
  BY DEF EngineStateRightIn
<1>2. EngineStateRightIn(part) /\ RetrievalIsRight => EngineStateIsRight
  BY DEF EngineStateIsRight
<1> QED
  BY <1>1, <1>2, PlatformImplementsEngine, SnapshotRight, RecallRight, RecordsRight, TrailRight,
     RetrievalRight, PTL

\* What the API service, the execution ledger and the storage repositories promise
\* holds in every reachable state of the platform, and the identity directory holds
\* and grants what the last events of its feeds say; neither that a subject keeps its
\* user nor that a disabled user is denied is among it.
THEOREM ServicesRight == PlatformSpec => []ServicesAreRight
<1>1. AnswersAreTheLedgers /\ SingleFlight => LedgerIsRight
  BY DEF LedgerIsRight
<1>2. LedgerIsRight /\ StorageIsRight /\ BackfillHeals => RepositoriesRightIn(part)
  BY DEF RepositoriesRightIn
<1>3. IdentityInv /\ ApiInv => GuardsRightIn(part)
  BY IdentityInvIsRight, ApiInvIsRight DEF GuardsRightIn
<1>4. RepositoriesRightIn(part) /\ GuardsRightIn(part) => ServicesAreRight
  BY DEF ServicesAreRight
<1> QED
  BY <1>1, <1>2, <1>3, <1>4, PlatformImplements, AnswersAgree, SingleFlightHolds, StorageRight,
     BackfillsHeal, IdentityInductive, ApiInductive, PTL

\* What the schema, the backups, the Postgres repository and the dual run promise
\* holds in every reachable state of the platform.
THEOREM PersistenceRight == PlatformSpec => []PersistenceIsRight
<1>1. SchemaIsRight /\ BackupIsRight /\ PostgresIsRight /\ DualRunIsRight
        => PersistenceRightIn(part)
  BY DEF PersistenceRightIn
<1>2. PersistenceRightIn(part) => PersistenceIsRight
  BY DEF PersistenceIsRight
<1> QED
  BY <1>1, <1>2, PlatformImplements, SchemaRight, BackupRight, PostgresRight, DualRunRight, PTL

\* However the daemon's commands are interleaved with its cycles, cycles never
\* overlap, and commands run one at a time leave one daemon that the state file
\* knows, in every reachable state of the platform.
THEOREM DaemonControlHolds == PlatformSpec => []DaemonControlIsRight
BY DaemonControlRight, PlatformImplements, PTL

\* The configuration file stays one a daemon can load, and while no commands overlap
\* what they acknowledged holds, in every reachable state of the platform.
THEOREM ConfigHolds == PlatformSpec => []ConfigIsRight
BY ConfigRight, PlatformImplements, PTL

\* What cycles collect of files that only grow is everything they pass, once and in
\* order, of the roots they may read, in every reachable state of the platform; the
\* files that are excepted are named in SourcesAreRight's parts.
THEOREM SourcesHold == PlatformSpec => []SourcesAreRight
BY SourcesRight, PlatformImplements, PTL

\* Every variable of every component has its type in every reachable state of the
\* platform.
THEOREM PlatformTypeCorrect == PlatformSpec => []PlatformTypeOK
<1>1. PlatformSpec => [](part \in Parts)
  <2>1. PlatformInit => part \in Parts
    BY DEF PlatformInit
  <2>2. part \in Parts /\ [PlatformNext]_platformVars => (part \in Parts)'
    BY DEF PlatformNext, platformVars
  <2> QED
    BY <2>1, <2>2, PTL DEF PlatformSpec, platformVars
<1>2. LedgerTypeOK /\ StorageTypeOK /\ SchemaTypeOK /\ BackupTypeOK /\ PostgresTypeOK
        /\ DualRunTypeOK => PersistenceTypeOK(part)
  BY DEF PersistenceTypeOK
<1>3. WeightsTypeOK /\ ReviewTypeOK /\ SnapshotTypeOK /\ CurationTypeOK /\ RecallTypeOK
        /\ RecordsTypeOK /\ TrailTypeOK => EngineTypeOK(part)
  BY DEF EngineTypeOK
<1>4. DaemonTypeOK /\ RetrievalTypeOK /\ IdentityInv /\ ConfigTypeOK /\ SourceTypeOK
        /\ ApiInv => DaemonsTypeOK(part)
  BY IdentityInvIsRight, ApiInvIsRight DEF DaemonsTypeOK
<1>5. part \in Parts /\ PersistenceTypeOK(part) /\ EngineTypeOK(part) /\ DaemonsTypeOK(part)
        => PlatformTypeOK
  BY DEF PlatformTypeOK
<1>6. PlatformSpec => []PersistenceTypeOK(part)
  BY <1>2, PlatformImplements, LedgerTypeCorrect, StorageTypeCorrect, SchemaRight,
     BackupRight, PostgresRight, DualRunRight, PTL
<1>7. PlatformSpec => []EngineTypeOK(part)
  BY <1>3, PlatformImplementsEngine, WeightsRight, ReviewsRight, SnapshotRight,
     CurationRight, RecallRight, RecordsRight, TrailRight, PTL
<1>8. PlatformSpec => []DaemonsTypeOK(part)
  BY <1>4, PlatformImplements, PlatformImplementsEngine, DaemonControlRight, RetrievalRight,
     IdentityInductive, ConfigRight, SourcesRight, ApiInductive, PTL
<1> QED
  BY <1>1, <1>5, <1>6, <1>7, <1>8, PTL
=============================================================================
