-------------------------------- MODULE Backup --------------------------------
(***************************************************************************)
(* ops_service against the services that keep writing: a backup dumps the    *)
(* three databases one after the other and then downloads the bucket; a      *)
(* restore, for which the writers are stopped, loads them in the same order. *)
(* A project stands for its rows and the objects they refer to.             *)
(***************************************************************************)
EXTENDS FiniteSets

CONSTANTS
    User,    \* accounts
    Project, \* projects, each used once
    NoDump   \* a part that is not in the archive yet

VARIABLES
    live,    \* the databases main, auth and billing, and the bucket
    archive, \* what the backup has of them
    phase,   \* of the backup, then of a restore
    touched  \* history: projects whose deletion began while the backup ran

backupVars == <<live, archive, phase, touched>>

MainRow == [project : Project, owner : User]
Stores == [main : SUBSET MainRow, auth : SUBSET User, billing : SUBSET User,
           bucket : SUBSET Project]

BackupTypeOK ==
    /\ live \in Stores
    /\ archive \in [main : (SUBSET MainRow) \cup {NoDump}, auth : (SUBSET User) \cup {NoDump},
                    billing : (SUBSET User) \cup {NoDump}, bucket : (SUBSET Project) \cup {NoDump}]
    /\ phase \in {"main", "auth", "billing", "bucket", "archived",
                  "load_main", "load_auth", "load_billing", "load_bucket", "restored"}
    /\ touched \subseteq Project

Archiving == phase \in {"main", "auth", "billing", "bucket"}
Writing == Archiving \/ phase = "archived"
Restoring == phase \in {"load_main", "load_auth", "load_billing", "load_bucket"}

BackupInit ==
    /\ live = [main |-> {}, auth |-> {}, billing |-> {}, bucket |-> {}]
    /\ archive = [main |-> NoDump, auth |-> NoDump, billing |-> NoDump, bucket |-> NoDump]
    /\ phase = "main"
    /\ touched = {}

-----------------------------------------------------------------------------
(* The services *)

Work(stores) ==
    /\ Writing
    /\ live' = stores
    /\ UNCHANGED <<archive, phase>>

\* An account, and then its initial balance.
RegisterUser(u) == Work([live EXCEPT !.auth = @ \cup {u}]) /\ UNCHANGED touched
GrantBalance(u) ==
    /\ u \in live.auth
    /\ Work([live EXCEPT !.billing = @ \cup {u}])
    /\ UNCHANGED touched

Owned(p) == \E r \in live.main : r.project = p

\* An object is put before the rows that refer to it are committed.
PutObjects(p) == Work([live EXCEPT !.bucket = @ \cup {p}]) /\ UNCHANGED touched
CommitRows(p, u) ==
    /\ p \in live.bucket /\ u \in live.auth /\ ~Owned(p) /\ p \notin touched
    /\ Work([live EXCEPT !.main = @ \cup {[project |-> p, owner |-> u]}])
    /\ UNCHANGED touched

\* ProjectService.delete removes the objects before the rows.
RemoveObjects(p) ==
    /\ Owned(p)
    /\ Work([live EXCEPT !.bucket = @ \ {p}])
    /\ touched' = IF Archiving THEN touched \cup {p} ELSE touched
DeleteRow(p) ==
    /\ Owned(p) /\ p \notin live.bucket
    /\ Work([live EXCEPT !.main = {r \in @ : r.project # p}])
    /\ UNCHANGED touched

(* create_backup *)

Dump(part, next) ==
    /\ archive' = [archive EXCEPT ![part] = live[part]]
    /\ phase' = next
    /\ UNCHANGED <<live, touched>>

\* Mutant: the accounts are dumped before the projects that refer to them.
DumpAuthFirst ==
    \/ phase = "main" /\ Dump("auth", "auth")
    \/ phase = "auth" /\ Dump("main", "billing")
    \/ phase = "billing" /\ Dump("billing", "bucket")

\* _databases: main, then auth, then billing, each in a transaction of its own.
DumpDatabases ==
    \/ phase = "main" /\ Dump("main", "auth")
    \/ phase = "auth" /\ Dump("auth", "billing")
    \/ phase = "billing" /\ Dump("billing", "bucket")

\* _download_objects; one that disappears between listing and download fails the backup.
DownloadObjects == phase = "bucket" /\ Dump("bucket", "archived")

(* restore_backup, after API and worker were stopped *)

StopWriters ==
    /\ phase = "archived"
    /\ phase' = "load_main"
    /\ UNCHANGED <<live, archive, touched>>

Load(part, stored, next) ==
    /\ live' = [live EXCEPT ![part] = stored]
    /\ phase' = next
    /\ UNCHANGED <<archive, touched>>

\* _restore_database replaces the tables.
RestoreDatabases ==
    \/ phase = "load_main" /\ Load("main", archive.main, "load_auth")
    \/ phase = "load_auth" /\ Load("auth", archive.auth, "load_billing")
    \/ phase = "load_billing" /\ Load("billing", archive.billing, "load_bucket")

\* Mutant: objects that were stored since the backup are overwritten by its bucket.
UploadMissing == phase = "load_bucket" /\ Load("bucket", live.bucket, "restored")

\* _upload_objects adds to what is in the bucket.
UploadObjects ==
    phase = "load_bucket" /\ Load("bucket", live.bucket \cup archive.bucket, "restored")

\* A command fails or is interrupted; the restore is run again from the start.
RestartRestore ==
    /\ Restoring
    /\ phase' = "load_main"
    /\ UNCHANGED <<live, archive, touched>>

BackupNext ==
    \/ \E u \in User : RegisterUser(u) \/ GrantBalance(u)
    \/ \E p \in Project : \/ PutObjects(p) \/ RemoveObjects(p) \/ DeleteRow(p)
                          \/ \E u \in User : CommitRows(p, u)
    \/ DumpDatabases \/ DownloadObjects
    \/ StopWriters \/ RestoreDatabases \/ UploadObjects \/ RestartRestore

BackupSpec == BackupInit /\ [][BackupNext]_backupVars

-----------------------------------------------------------------------------
\* The archive is closed under references although nobody stops writing: the owner of every
\* project in it is among its accounts, and its objects are in its bucket, unless the project
\* was being deleted meanwhile (create_backup dumps what refers before what is referred to).
ArchiveClosed ==
    ~Archiving =>
        \A r \in archive.main :
            /\ r.owner \in archive.auth
            /\ r.project \in archive.bucket \cup touched

\* A restore brings back what the archive had, whatever was deleted or written since, and
\* however often it was interrupted: the rows refer to accounts and objects that exist.
RestoreClosed ==
    phase = "restored" =>
        /\ live.main = archive.main
        /\ \A r \in live.main : r.owner \in live.auth /\ r.project \in live.bucket \cup touched

=============================================================================
