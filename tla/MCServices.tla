------------------------------ MODULE MCServices ------------------------------
(***************************************************************************)
(* The small instance of Memory, Ingest, Backup, Auth, Context, Research and   *)
(* Review.  They share no variable: a behaviour chooses one of them and leaves *)
(* the others where they begin, so that the state space is the sum of theirs  *)
(* and not the product.                                                      *)
(***************************************************************************)
EXTENDS Memory, Ingest, Backup, Auth, Context, Research, Review, TLC

CONSTANTS x1, x2, a1, a2, b1, b2 \* texts and pages

\* Of the prompt's texts one is short; of the pages two are on one host.
MCLengthOf == (x1 :> 4) @@ (x2 :> 7)
MCHostOf == (a1 :> "a") @@ (a2 :> "a") @@ (b1 :> "b") @@ (b2 :> "b")

VARIABLE subject \* which of the seven this behaviour is about

servicesVars ==
    <<subject, memoryVars, ingestVars, backupVars, authVars, contextVars, researchVars, reviewVars>>

ServicesInit ==
    /\ subject \in {"memory", "ingest", "backup", "auth", "context", "research", "review"}
    /\ MemoryInit /\ IngestInit /\ BackupInit /\ AuthInit /\ ContextInit /\ ResearchInit /\ ReviewInit
    /\ subject # "auth" => accounts = {}

\* Bound: whoever writes memories, or rebuilds an index, begins before the second revision is
\* committed (and may commit the third).
EarlyWriters ==
    \A s \in Session : tx[s].op = "none" /\ tx'[s].op \notin {"none", "search"} => memory.rev < 2

MemoryPart ==
    /\ subject = "memory" /\ MemoryNext /\ EarlyWriters
    /\ UNCHANGED <<ingestVars, backupVars, authVars, contextVars, researchVars, reviewVars>>

IngestPart ==
    /\ subject = "ingest" /\ IngestNext
    /\ UNCHANGED <<memoryVars, backupVars, authVars, contextVars, researchVars, reviewVars>>

BackupPart ==
    /\ subject = "backup" /\ BackupNext
    /\ UNCHANGED <<memoryVars, ingestVars, authVars, contextVars, researchVars, reviewVars>>

\* Bound: a behaviour has two accounts or two codes.
FewAccounts == Cardinality(accounts) + Cardinality(codes) <= 3

AuthPart ==
    /\ subject = "auth" /\ AuthNext /\ FewAccounts'
    /\ UNCHANGED <<memoryVars, ingestVars, backupVars, contextVars, researchVars, reviewVars>>

ContextPart ==
    /\ subject = "context" /\ ContextNext
    /\ UNCHANGED <<memoryVars, ingestVars, backupVars, authVars, researchVars, reviewVars>>

ResearchPart ==
    /\ subject = "research" /\ ResearchNext
    /\ UNCHANGED <<memoryVars, ingestVars, backupVars, authVars, contextVars, reviewVars>>

ReviewPart ==
    /\ subject = "review" /\ ReviewNext
    /\ UNCHANGED <<memoryVars, ingestVars, backupVars, authVars, contextVars, researchVars>>

ServicesNext ==
    /\ UNCHANGED subject
    /\ \/ MemoryPart \/ IngestPart \/ BackupPart \/ AuthPart
       \/ ContextPart \/ ResearchPart \/ ReviewPart

ServicesSpec == ServicesInit /\ [][ServicesNext]_servicesVars

\* The rows, objects, vectors and sessions of the services are well formed and ids are used once:
\* no two sessions hold one row, no content has two documents and no email two accounts, whatever
\* the requests that insert them overlap with.
ServicesTypeOK == MemoryTypeOK /\ IngestTypeOK /\ BackupTypeOK /\ AuthTypeOK /\ ReviewTypeOK

Unchanged(sets) == [x \in UNION sets |-> x]

\* The exchange of the two elements of each of some sets at once.
Exchanged(sets) ==
    [x \in UNION sets |-> CHOOSE y \in UNION sets \ {x} : \E V \in sets : {x, y} \subseteq V]

Actors == {Session, Request, User, Caller, Chunk, OptionName}
Things == {Value, DocId, Project, Email}

Symmetry ==
    {f @@ g : f \in {Unchanged(Actors), Exchanged(Actors)}, g \in {Unchanged(Things), Exchanged(Things)}}

===============================================================================
