---------------------------- MODULE ServicesProofs ----------------------------
(***************************************************************************)
(* The services run side by side, each in sessions of its own: a behaviour  *)
(* of MCServices is one of every service, and what is proved of each alone  *)
(* holds of all of them.                                                   *)
(***************************************************************************)
EXTENDS MCServices, StorageProofs, AuthProofs, AgentProofs

\* A step of the instance is a step of each service, or leaves it as it is.
LEMMA ServicesStep ==
    ASSUME [ServicesNext]_servicesVars
    PROVE  /\ [MemoryNext]_memoryVars /\ [IngestNext]_ingestVars /\ [BackupNext]_backupVars
           /\ [AuthNext]_authVars /\ [ContextNext]_contextVars /\ [ResearchNext]_researchVars
           /\ [ReviewNext]_reviewVars
  BY DEF ServicesNext, servicesVars, MemoryPart, IngestPart, BackupPart, AuthPart, ContextPart,
         ResearchPart, ReviewPart

LEMMA ServicesStart ==
    ASSUME ServicesInit
    PROVE  MemoryInit /\ IngestInit /\ BackupInit /\ AuthInit /\ ContextInit /\ ResearchInit /\ ReviewInit
  BY DEF ServicesInit

\* A behaviour of the instance is one of every service: each theorem about a service is one about
\* the instance that the run Services checks.
THEOREM ServicesAreEach ==
    ServicesSpec => /\ MemorySpec /\ IngestSpec /\ BackupSpec /\ AuthSpec
                    /\ ContextSpec /\ ResearchSpec /\ ReviewSpec
  BY ServicesStart, ServicesStep, PTL DEF ServicesSpec, MemorySpec, IngestSpec, BackupSpec, AuthSpec,
     ContextSpec, ResearchSpec, ReviewSpec

\* Rows, objects, vectors and sessions are well formed and ids are used once, whatever overlaps.
THEOREM ServicesWellFormed == ServicesSpec => []ServicesTypeOK
  <1>1. /\ MemoryTypeOK /\ IngestTypeOK /\ BackupTypeOK /\ AuthTypeOK /\ ReviewTypeOK
        => ServicesTypeOK
    BY DEF ServicesTypeOK
  <1>. QED
    BY <1>1, ServicesAreEach, MemoryWellFormed, IngestWellFormed, BackupWellFormed, AccountsWellFormed,
       ReviewWellFormed, PTL

===============================================================================
