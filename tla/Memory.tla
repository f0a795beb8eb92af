-------------------------------- MODULE Memory --------------------------------
(***************************************************************************)
(* Long-term memory of one project (memory_service): rows in MySQL, one     *)
(* vector per row in Milvus, and search results in Redis under the revision *)
(* of the memory.                                                           *)
(*                                                                          *)
(* A request, a command or the executor's last step is one database         *)
(* session.  It reads the rows of the snapshot its first query took; what   *)
(* it writes is committed at its end or not at all.  Vectors and cache are   *)
(* outside the transaction: they change at once and stay changed when the    *)
(* session rolls back.  The rebuild of the project's whole vector index       *)
(* takes part with the vectors of memories; its documents and notes are in    *)
(* Ingest.                                                                  *)
(***************************************************************************)
EXTENDS Integers, FiniteSets

CONSTANTS
    Session,     \* sessions that may be open at the same time
    LastDraft,   \* the accepted drafts are 1 .. LastDraft, in the order of their canon_version
    Value,       \* values of one stateful fact: memories of one kind, subject and predicate
    Note,        \* memories whose kind is not stateful
    Lexical,     \* of these, the ones that share a word with the query of the searches
    Author,      \* who ended a memory: the author, or the draft that superseded it
    NoEntry,     \* a key that is not in Redis
    MaxId,       \* bound: rows ever created
    MaxRevision  \* bound: revisions of the memory

Draft == 1 .. LastDraft
Fact == Value \cup Note
Id == 1 .. MaxId
Active == 0

ASSUME MemoryNames == Value \cap Note = {} /\ Lexical \subseteq Fact /\ Author \notin 0 .. LastDraft
\* An answer of the agent lists finitely many facts.
ASSUME MemoryBounds ==
    LastDraft \in Nat /\ MaxId \in Nat /\ MaxRevision \in Nat /\ IsFiniteSet(Fact)

\* Ids stand for the order of created_at; the draft also for the canon_version.
Row == [id : Id, draft : Draft, fact : Fact, ended : Draft \cup {Active, Author}]

VARIABLES
    memory,  \* committed: the rows, and project_memory_states.revision
    vectors, \* ids that have a vector in Milvus
    cache,   \* what Redis has of one query: the last results it was given, and their revision
    tx,      \* the open sessions
    nextId,  \* the next id
    lost,    \* history: active rows whose vector a session deleted that did not commit
    cleared  \* history: ids whose vector a rebuild of the whole index deleted and did not put back

memoryVars == <<memory, vectors, cache, tx, nextId, lost, cleared>>

Transaction ==
    [op     : {"none", "extract", "rebuild", "invalidate", "search", "reindex"},
     step   : {"agent", "bump", "commit", "wipe", "delete", "read", "fill", "clear", "load"},
     todo   : SUBSET Draft,      \* drafts whose memories are still to be extracted
     seen   : SUBSET Row,        \* the rows of its snapshot
     work   : SUBSET Row,        \* the rows it reads now: the snapshot and its own changes
     rev    : 0 .. MaxRevision,  \* the revision it read, then the one it wrote
     fresh  : SUBSET Id,         \* new_vector_ids of the draft in hand
     gone   : SUBSET Id,         \* whose vector it deleted
     wiped  : BOOLEAN,           \* it deleted all rows
     bumped : BOOLEAN]           \* it holds the row of project_memory_states

Open(op, step, todo) ==
    [op |-> op, step |-> step, todo |-> todo, seen |-> memory.rows, work |-> memory.rows,
     rev |-> memory.rev, fresh |-> {}, gone |-> {}, wiped |-> FALSE, bumped |-> FALSE]

Closed ==
    [op |-> "none", step |-> "read", todo |-> {}, seen |-> {}, work |-> {}, rev |-> 0,
     fresh |-> {}, gone |-> {}, wiped |-> FALSE, bumped |-> FALSE]

\* Rows, vectors and sessions are well formed, ids are used once, and of the sessions at most
\* one holds the row of project_memory_states.
MemoryTypeOK ==
    /\ memory \in [rows : SUBSET Row, rev : 0 .. MaxRevision]
    /\ vectors \subseteq Id
    /\ cache \in {NoEntry} \cup [rev : 0 .. MaxRevision, hits : SUBSET Id]
    /\ tx \in [Session -> Transaction]
    /\ nextId \in 1 .. MaxId + 1
    /\ lost \subseteq Id /\ cleared \subseteq Id
    /\ \A q, r \in memory.rows : q.id = r.id => q = r
    /\ \A r, s \in Session : tx[r].bumped /\ tx[s].bumped => r = s

-----------------------------------------------------------------------------
(* Rows *)

Ids(rows) == {r.id : r \in rows}

\* list_active
ActiveOf(rows) == {r \in rows : r.ended = Active}

\* get_by_hash: the source hash covers the draft and the statement.
HashTaken(rows, d, f) == \E r \in rows : r.draft = d /\ r.fact = f

\* _effective_memories: of a stateful fact only the newest active row.
Effective(rows) ==
    {r \in ActiveOf(rows) : r.fact \in Value =>
        \A q \in ActiveOf(rows) : q.fact \in Value =>
            q.draft < r.draft \/ (q.draft = r.draft /\ q.id <= r.id)}

\* Mutant: a row that is taken out of the index stays active.
KeepActive(rows, ids, by) == rows

\* The rows with those in ids marked as invalidated.
EndRows(rows, ids, by) == {IF r.id \in ids THEN [r EXCEPT !.ended = by] ELSE r : r \in rows}

\* The stateful rows that the new rows of a draft contradict.
Superseded(rows, new) ==
    {r \in ActiveOf(rows) : r.fact \in Value /\ \E q \in new : q.fact \in Value \ {r.fact}}

\* The rows a session changed, and those it added.
Changed(t) == {r \in t.work \ t.seen : r.id \in Ids(t.seen)}
Added(t) == {r \in t.work : r.id \notin Ids(t.seen)}

\* MySQL makes a session wait while another one holds a row it wants to write.
HoldsRow(s, ids) == \E o \in Session \ {s} : Ids(Changed(tx[o])) \cap ids # {}
Inserting(s, d, f) == \E o \in Session \ {s} : HashTaken(Added(tx[o]), d, f)
Flushed(t) == t.work # t.seen \/ t.bumped
Deleting(s) == \E o \in Session \ {s} : tx[o].wiped

(* Milvus *)

Upserted(ids) == vectors \cup ids
Deleted(ids) == vectors \ ids

\* VectorStore.search, and the filter on by_id.
Nearest(rows) == {r \in rows : r.id \in vectors}

(* Redis *)

\* search: the rank fusion keeps what either ranking has; the order is left out.
Hits(rows) ==
    LET found == Effective(rows)
    IN  Ids(Nearest(found) \cup {r \in found : r.fact \in Lexical})

\* set_json behind FailOpenCacheProvider: the write may fail, and nobody notices.  What was
\* there before under another revision has expired: nothing else removes an entry, and each
\* entry is the last one written in some behaviour.
Cached(rev, hits) == {cache, [rev |-> rev, hits |-> hits]}

-----------------------------------------------------------------------------
MemoryInit ==
    /\ memory = [rows |-> {}, rev |-> 0]
    /\ vectors = {}
    /\ cache = NoEntry
    /\ tx = [s \in Session |-> Closed]
    /\ nextId = 1
    /\ lost = {}
    /\ cleared = {}

Begin(s, t) ==
    /\ tx[s].op = "none"
    /\ tx' = [tx EXCEPT ![s] = t]
    /\ UNCHANGED <<memory, vectors, cache, nextId, lost, cleared>>

At(s, step) == tx[s].op # "none" /\ tx[s].step = step

\* The draft whose memories are extracted: rebuild takes them in the order of created_at.
Current(t) == CHOOSE d \in t.todo : \A e \in t.todo : d <= e

\* Where a session goes when the draft in hand is done.
NextDraft(t) ==
    LET rest == IF t.todo = {} THEN {} ELSE t.todo \ {Current(t)}
    IN  [t EXCEPT !.todo = rest, !.fresh = {}, !.step = IF rest = {} THEN "commit" ELSE "agent"]

\* The rows that the agent's answer adds for draft d: what is not stored yet.
NewRows(t, d, facts, id) ==
    {[id |-> id[f], draft |-> d, fact |-> f, ended |-> Active] : f \in facts}

\* Mutant: a rebuild trusts the vectors it had.
IndexedUnlessWiped(t, fresh) == IF t.wiped THEN vectors ELSE Upserted(fresh)

\* _index
IndexedRows(t, fresh) == Upserted(fresh)

\* extract_accepted_draft after the agent answered, up to the revision: the new rows and their
\* vectors, then the rows they contradict.
Extract(s) ==
    LET t == tx[s]
        d == Current(t)
    IN
    /\ At(s, "agent")
    /\ \E facts \in SUBSET Fact :
          LET new == {f \in facts : ~HashTaken(t.work, d, f)}
              ids == nextId .. nextId + Cardinality(new) - 1
          IN
          /\ ids \subseteq Id
          /\ nextId' = nextId + Cardinality(new)
          /\ \/ /\ new = {}
                /\ tx' = [tx EXCEPT ![s] = NextDraft(t)]
                /\ UNCHANGED vectors
             \/ /\ new # {}
                /\ ~Deleting(s)
                /\ \A f \in new : ~Inserting(s, d, f) /\ (t.wiped \/ ~HashTaken(memory.rows, d, f))
                /\ \E id \in {i \in [new -> ids] : \A f, g \in new : i[f] = i[g] => f = g} :
                      LET rows == NewRows(t, d, new, id)
                          out == Ids(Superseded(t.work, rows))
                      IN
                      /\ ~HoldsRow(s, out)
                      /\ t.wiped \/ out \subseteq Ids(memory.rows)
                      /\ vectors' = IndexedRows(t, ids) \ out
                      /\ tx' = [tx EXCEPT ![s] = [t EXCEPT
                            !.work = EndRows(@, out, d) \cup rows,
                            !.fresh = ids, !.gone = @ \cup out, !.step = "bump"]]
    /\ UNCHANGED <<memory, cache, lost, cleared>>

\* Mutant: the revision is the one the session read, plus one; no row is locked.
BumpAsRead(s, t) == [t EXCEPT !.rev = @ + 1]

\* MemoryStateRepository.bump: SELECT ... FOR UPDATE sees and locks the committed row.
Bumped(s, t) == [t EXCEPT !.rev = 1 + (IF t.bumped THEN t.rev ELSE memory.rev), !.bumped = TRUE]

\* Mutant: the row is read without FOR UPDATE, so nobody waits for it.
BumpUnlocked(s) ==
    LET t == tx[s] IN
    /\ At(s, "bump")
    /\ Bumped(s, t).rev <= MaxRevision
    /\ tx' = [tx EXCEPT ![s] = NextDraft(Bumped(s, t))]
    /\ UNCHANGED <<memory, vectors, cache, nextId, lost, cleared>>

\* The revision is bumped last.
Bump(s) ==
    LET t == tx[s] IN
    /\ At(s, "bump")
    /\ \A o \in Session \ {s} : ~tx[o].bumped
    /\ Bumped(s, t).rev <= MaxRevision
    /\ tx' = [tx EXCEPT ![s] = NextDraft(Bumped(s, t))]
    /\ UNCHANGED <<memory, vectors, cache, nextId, lost, cleared>>

\* invalidate, up to the revision.
Invalidate(s, r) ==
    LET t == tx[s] IN
    /\ At(s, "read")
    /\ r \in ActiveOf(t.work)
    /\ ~HoldsRow(s, {r.id}) /\ ~Deleting(s)
    /\ r.id \in Ids(memory.rows)
    /\ vectors' = Deleted({r.id})
    /\ tx' = [tx EXCEPT ![s] = [t EXCEPT !.work = EndRows(@, {r.id}, Author),
                                         !.gone = @ \cup {r.id}, !.step = "bump"]]
    /\ UNCHANGED <<memory, cache, nextId, lost, cleared>>

\* rebuild begins with the vectors of the rows it read.
WipeVectors(s) ==
    /\ At(s, "wipe")
    /\ vectors' = Deleted(Ids(tx[s].seen))
    /\ tx' = [tx EXCEPT ![s].gone = Ids(tx[s].seen), ![s].step = "delete"]
    /\ UNCHANGED <<memory, cache, nextId, lost, cleared>>

\* delete_for_project deletes what is committed now, after everybody who holds one of the rows;
\* then the revision is bumped.
DeleteRows(s) ==
    LET t == Bumped(s, tx[s]) IN
    /\ At(s, "delete")
    /\ \A o \in Session \ {s} : ~Flushed(tx[o])
    /\ t.rev <= MaxRevision
    /\ tx' = [tx EXCEPT ![s] = [t EXCEPT !.work = {}, !.wiped = TRUE,
                                         !.step = IF t.todo = {} THEN "commit" ELSE "agent"]]
    /\ UNCHANGED <<memory, vectors, cache, nextId, lost, cleared>>

\* The session commits: its rows replace the ones they were read from.
Commit(s) ==
    LET t == tx[s]
        kept == {r \in memory.rows : r.id \notin Ids(Changed(t))}
    IN
    /\ At(s, "commit")
    /\ memory' = IF t.wiped THEN [rows |-> t.work, rev |-> t.rev]
                 ELSE IF Flushed(t) THEN [rows |-> kept \cup Changed(t) \cup Added(t), rev |-> t.rev]
                 ELSE memory
    /\ tx' = [tx EXCEPT ![s] = Closed]
    /\ lost' = lost \cap Ids(ActiveOf(memory'.rows))
    /\ UNCHANGED <<vectors, cache, nextId, cleared>>

\* An agent, the embedding, Milvus, MySQL or the process fails.  Inside the try block the new
\* vectors are deleted again, if that succeeds; the deleted ones are not put back, but for those
\* an upsert of the index rebuild applied before it raised.
Fail(s) ==
    LET t == tx[s] IN
    /\ t.op # "none"
    /\ \E some \in IF t.step = "load" THEN SUBSET Ids(ActiveOf(t.seen)) ELSE {{}} :
          vectors' \in {Upserted(some), Deleted(t.fresh)}
    /\ tx' = [tx EXCEPT ![s] = Closed]
    /\ lost' = (lost \cup t.gone) \cap Ids(ActiveOf(memory.rows))
    /\ UNCHANGED <<memory, cache, nextId, cleared>>

\* search: the results of the snapshot, with the vectors there are now.
FillCache(s) ==
    /\ At(s, "fill")
    /\ cache' \in Cached(tx[s].rev, Hits(tx[s].seen))
    /\ tx' = [tx EXCEPT ![s] = Closed]
    /\ UNCHANGED <<memory, vectors, nextId, lost, cleared>>

(* The rebuild of the whole index *)

\* vector rebuild begins with a delete of the project's vectors, without a source_type.
\* ProjectService.delete does so too: when it fails later, it is this step and Fail.
ClearVectors(s) ==
    /\ At(s, "clear")
    /\ vectors' = {}
    /\ cleared' = cleared \cup vectors
    /\ tx' = [tx EXCEPT ![s].step = "load"]
    /\ UNCHANGED <<memory, cache, nextId, lost>>

\* The active memories among the rows it read are embedded and put back.
LoadVectors(s) ==
    LET listed == Ids(ActiveOf(tx[s].seen)) IN
    /\ At(s, "load")
    /\ vectors' = Upserted(listed)
    /\ cleared' = cleared \ listed
    /\ lost' = lost \ listed
    /\ tx' = [tx EXCEPT ![s] = Closed]
    /\ UNCHANGED <<memory, cache, nextId>>

SessionStep(s) ==
    \/ \E d \in Draft : Begin(s, Open("extract", "agent", {d}))
    \/ Begin(s, Open("rebuild", "wipe", Draft))
    \/ Begin(s, Open("invalidate", "read", {}))
    \/ Begin(s, Open("search", "fill", {}))
    \/ Begin(s, Open("reindex", "clear", {}))
    \/ Extract(s) \/ Bump(s)
    \/ \E r \in tx[s].work : Invalidate(s, r)
    \/ WipeVectors(s) \/ DeleteRows(s)
    \/ ClearVectors(s) \/ LoadVectors(s)
    \/ Commit(s) \/ Fail(s)
    \/ FillCache(s)

MemoryNext == \E s \in Session : SessionStep(s)

MemorySpec == MemoryInit /\ [][MemoryNext]_memoryVars

-----------------------------------------------------------------------------

\* What a search finds in the cache under the revision of the memory is in effect: no reader
\* that was slow, and no writer that rolled back or raced with another, leaves results of other
\* rows under it (the revision is read with the rows, and bumped under its lock).
CacheFresh ==
    cache # NoEntry /\ cache.rev = memory.rev => cache.hits \subseteq Ids(Effective(memory.rows))

\* A memory in the active index has its vector, unless a session that is still open deleted it
\* or one that did not commit had (invalidate, rebuild and supersede delete before they commit),
\* or a rebuild of the whole index deleted it and did not read the row to put it back.
Indexed ==
    \A r \in ActiveOf(memory.rows) :
        r.id \in vectors \cup lost \cup cleared \cup UNION {tx[s].gone : s \in Session}

\* rebuild repairs the index: when it commits, every active memory has a vector, whatever was
\* lost before and whichever memories are written meanwhile; except what a rebuild of the whole
\* index that runs at the same time deletes between and has not read.
RebuildHeals ==
    [][\A s \in Session : tx[s].wiped /\ memory' # memory /\ tx'[s] = Closed =>
          Ids(ActiveOf(memory'.rows)) \subseteq vectors' \cup cleared']_memoryVars

\* A stateful memory gives way to newer canon: the draft that superseded a row was accepted
\* after the draft the row came from.
SupersededByNewer ==
    \A r \in memory.rows : r.ended \in Draft => r.draft < r.ended

\* rebuild repairs that order too: it extracts the accepted drafts in their own order, whatever was
\* extracted, superseded or invalidated before.
RebuildRestoresOrder ==
    [][\A s \in Session : tx[s].wiped /\ memory' # memory /\ tx'[s] = Closed =>
          SupersededByNewer']_memoryVars

=============================================================================
