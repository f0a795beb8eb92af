-------------------------------- MODULE Ingest --------------------------------
(***************************************************************************)
(* What the author brings into one project: uploaded documents              *)
(* (document_service), researched notes (research_service), the rebuild of   *)
(* their vectors (vector rebuild of the command line) and the deletion of    *)
(* the project with all of it (project_service).                            *)
(*                                                                          *)
(* Rows are in MySQL and commit with their session.  Texts are objects in    *)
(* MinIO and chunks are vectors in Milvus: both are written while the session *)
(* is open, and a session that fails deletes what it wrote as far as it       *)
(* knows of it.  The collection of Milvus also holds the vectors of the       *)
(* memories; what happens to them is in Memory.                              *)
(***************************************************************************)
EXTENDS Integers, FiniteSets

CONSTANTS
    Request, \* sessions that may be open at the same time
    Content, \* contents of files: the hash of the bytes
    DocId,   \* identifiers of documents; each is used once
    ResearchNote, \* research notes an agent may come back with; each is used once
    Weak,    \* of these, the ones whose credibility_score is below 0.5
    NoDoc,   \* no document
    Fault    \* what may go wrong besides an exception that comes instead of the call's effect:
             \* "crash", a "removal" that fails, the "reply" to a write that was applied

ASSUME IngestNames == NoDoc \notin DocId /\ DocId \cap ResearchNote = {} /\ Weak \subseteq ResearchNote
ASSUME IngestFaults == Fault \subseteq {"crash", "removal", "reply"}

DocRow == [id : DocId, content : Content]
NoteRow == [id : ResearchNote, fetched : BOOLEAN, object : BOOLEAN]

\* Objects: projects/<id>/source/<digest>/<name>, .../parsed/<digest>/content.txt and
\* .../research/<note>/<digest>.txt.
Key == ({"source", "parsed"} \X Content) \cup ({"research"} \X ResearchNote)

VARIABLES
    rows,     \* committed: documents, notes, and whether the project exists
    objects,  \* keys in MinIO
    indexed,  \* documents and notes that have vectors in Milvus
    request,  \* the open sessions
    used,     \* identifiers handed out
    damaged,  \* history: a deletion of the project, or a rebuild, removed something and failed
    unlisted  \* history: what had vectors and a rebuild of the index did not list

ingestVars == <<rows, objects, indexed, request, used, damaged, unlisted>>

RequestState ==
    [step : {"closed", "row", "source", "parsed", "index", "commit", "fetch",
             "index_notes", "note_rows", "vectors", "objects", "project", "clear", "load"},
     seen : [docs : SUBSET DocRow, notes : SUBSET NoteRow, exists : BOOLEAN],
     doc  : DocId \cup {NoDoc},
     text : SUBSET Content,     \* the content that is uploaded
     todo : SUBSET ResearchNote,        \* notes that are still to be fetched
     got  : SUBSET NoteRow,     \* notes that were
     put  : SUBSET Key,         \* uploaded, uploaded_keys
     ids  : SUBSET ResearchNote]        \* indexed_ids

Idle ==
    [step |-> "closed", seen |-> [docs |-> {}, notes |-> {}, exists |-> FALSE], doc |-> NoDoc,
     text |-> {}, todo |-> {}, got |-> {}, put |-> {}, ids |-> {}]

\* The rows, objects, vectors and sessions are well formed, a content has one document, and of
\* the sessions at most one holds the row of a content.
IngestTypeOK ==
    /\ rows \in [docs : SUBSET DocRow, notes : SUBSET NoteRow, exists : BOOLEAN]
    /\ objects \subseteq Key
    /\ indexed \subseteq DocId \cup ResearchNote
    /\ request \in [Request -> RequestState]
    /\ used \subseteq DocId \cup ResearchNote
    /\ damaged \in BOOLEAN
    /\ unlisted \subseteq DocId \cup ResearchNote
    /\ \A d, e \in rows.docs : d.content = e.content => d = e

-----------------------------------------------------------------------------
AtStep(r, step) == request[r].step = step
Goto(r, step) == [request EXCEPT ![r].step = step]

SourceKey(c) == <<"source", c>>
ParsedKey(c) == <<"parsed", c>>
NoteKey(n) == <<"research", n>>

\* _object_keys: what the rows refer to.
ObjectKeys(seen) ==
    (UNION {{SourceKey(d.content), ParsedKey(d.content)} : d \in seen.docs})
        \cup {NoteKey(n.id) : n \in {m \in seen.notes : m.object}}

\* The notes that have evidence.
Fetched(notes) == {n.id : n \in {m \in notes : m.fetched}}

\* get_by_hash
StoredContent(seen) == {d.content : d \in seen.docs}

\* uq_document_project_content_hash: a session that inserted the content and is still open.
Holding(r, c) == \E o \in Request \ {r} : c \in request[o].text /\ request[o].step \in
    {"source", "parsed", "index", "commit"}

\* A session that inserted a row of the project: its foreign key holds the project's row.
Inserted(o) == request[o].step \in {"source", "parsed", "index", "commit"}

\* MinIO and Milvus delete what they are asked to, or an exception is passed over.
Removed(keys) ==
    IF "removal" \in Fault THEN {objects \ gone : gone \in SUBSET keys} ELSE {objects \ keys}

\* Mutant: a deletion without ids is one of all vectors of the project.
UnindexedAll(ids) == IF ids = {} THEN {{}} ELSE {indexed \ ids}

Unindexed(ids) == IF "removal" \in Fault THEN {indexed, indexed \ ids} ELSE {indexed \ ids}

\* A put, or an upsert, that raises although the store has applied it, or a part of it.
Unanswered(written) == IF "reply" \in Fault THEN SUBSET written ELSE {{}}

-----------------------------------------------------------------------------
IngestInit ==
    /\ rows = [docs |-> {}, notes |-> {}, exists |-> TRUE]
    /\ objects = {}
    /\ indexed = {}
    /\ request = [r \in Request |-> Idle]
    /\ used = {}
    /\ damaged = FALSE
    /\ unlisted = {}

Start(r, session) ==
    /\ AtStep(r, "closed")
    /\ rows.exists
    /\ request' = [request EXCEPT ![r] = session]
    /\ UNCHANGED <<rows, objects, indexed, damaged, unlisted>>

Close(r) == request' = [request EXCEPT ![r] = Idle]

(* A document *)

\* ingest_bytes up to the row: a content that is stored already is returned as it is.
StartUpload(r, c, d) ==
    /\ d \notin used
    /\ c \notin StoredContent(rows)
    /\ Start(r, [Idle EXCEPT !.step = "row", !.seen = rows, !.doc = d, !.text = {c}])
    /\ used' = used \cup {d}

\* Mutant: the row is not flushed before the objects are written, so nobody waits for it.
AddDocumentLater(r) ==
    /\ AtStep(r, "row")
    /\ request' = Goto(r, "source")
    /\ UNCHANGED <<rows, objects, indexed, used, damaged, unlisted>>

\* documents.add: the insert waits for a session that holds the content, and fails when the
\* content is there or the project is gone.
AddDocument(r) ==
    /\ AtStep(r, "row")
    /\ \A c \in request[r].text : ~Holding(r, c)
    /\ IF request[r].text \cap StoredContent(rows) = {} /\ rows.exists
       THEN request' = Goto(r, "source")
       ELSE Close(r)
    /\ UNCHANGED <<rows, objects, indexed, used, damaged, unlisted>>

\* _put of one of the two objects.
PutObject(r, step, key, next) ==
    /\ AtStep(r, step)
    /\ objects' = objects \cup {key}
    /\ request' = [request EXCEPT ![r].put = @ \cup {key}, ![r].step = next]
    /\ UNCHANGED <<rows, indexed, used, damaged, unlisted>>

PutSource(r) == \E c \in request[r].text : PutObject(r, "source", SourceKey(c), "parsed")
PutParsed(r) == \E c \in request[r].text : PutObject(r, "parsed", ParsedKey(c), "index")

\* _index_chunks; then chunks and document are marked as ready.
IndexChunks(r) ==
    /\ AtStep(r, "index")
    /\ indexed' = indexed \cup {request[r].doc}
    /\ request' = Goto(r, "commit")
    /\ UNCHANGED <<rows, objects, used, damaged, unlisted>>

\* What is being indexed; indexed_ids is empty until _index_notes has returned, and the except
\* clause of ingest_bytes deletes no vectors.
Indexing(r) ==
    CASE AtStep(r, "index") -> {request[r].doc}
      [] AtStep(r, "index_notes") -> Fetched(request[r].got)
      [] OTHER -> {}

\* The object that is being put; its key is in uploaded only when _put has returned.
Putting(r) ==
    CASE AtStep(r, "source") -> {SourceKey(c) : c \in request[r].text}
      [] AtStep(r, "parsed") -> {ParsedKey(c) : c \in request[r].text}
      [] OTHER -> {}

\* The except clause of ingest_bytes; what it writes into the row is rolled back with it.
FailUpload(r) ==
    /\ request[r].step \in {"source", "parsed", "index", "commit"} /\ request[r].doc # NoDoc
    /\ \E left \in Removed(request[r].put), kept \in Unanswered(Putting(r)) :
          objects' = left \cup kept
    /\ \E kept \in Unanswered(Indexing(r)) : indexed' = indexed \cup kept
    /\ Close(r)
    /\ UNCHANGED <<rows, used, damaged, unlisted>>

(* Research *)

\* research: the agent comes back with some notes.
StartResearch(r, notes) ==
    /\ notes # {} /\ notes \cap used = {}
    /\ Start(r, [Idle EXCEPT !.step = "fetch", !.seen = rows, !.todo = notes])
    /\ used' = used \cup notes

\* _fetch_evidence, one note: no page, a page without evidence, or a page with some.
FetchNote(r, n) ==
    /\ AtStep(r, "fetch")
    /\ n \in request[r].todo
    /\ \E row \in [id : {n}, fetched : BOOLEAN, object : BOOLEAN] :
          /\ row.fetched => row.object
          /\ objects' = IF row.object THEN objects \cup {NoteKey(n)} ELSE objects
          /\ request' = [request EXCEPT
                ![r].todo = @ \ {n},
                ![r].got = @ \cup {row},
                ![r].step = IF request[r].todo = {n} THEN "index_notes" ELSE "fetch"]
    /\ UNCHANGED <<rows, indexed, used, damaged, unlisted>>

\* An exception in _fetch_evidence that is not a ContentFetchError, such as one of MinIO: the
\* list of what was uploaded is not returned, so the except clause of research has no keys.
FailFetch(r) ==
    /\ AtStep(r, "fetch")
    /\ \E n \in request[r].todo : \E kept \in Unanswered({NoteKey(n)}) :
          objects' = objects \cup kept
    /\ Close(r)
    /\ UNCHANGED <<rows, indexed, used, damaged, unlisted>>

\* _index_notes: the notes that have evidence.
IndexNotes(r) ==
    LET ids == Fetched(request[r].got) IN
    /\ AtStep(r, "index_notes")
    /\ indexed' = indexed \cup ids
    /\ request' = [request EXCEPT
          ![r].ids = ids,
          ![r].put = {NoteKey(n.id) : n \in {m \in request[r].got : m.object}},
          ![r].step = "note_rows"]
    /\ UNCHANGED <<rows, objects, used, damaged, unlisted>>

\* The rows of the notes, whose foreign key needs the project.
AddNotes(r) ==
    /\ AtStep(r, "note_rows")
    /\ rows.exists
    /\ request' = Goto(r, "commit")
    /\ UNCHANGED <<rows, objects, indexed, used, damaged, unlisted>>

\* The except clause of research.
FailResearch(r) ==
    /\ request[r].step \in {"index_notes", "note_rows"}
    /\ \E left \in Unindexed(request[r].ids), kept \in Unanswered(Indexing(r)) :
          indexed' = left \cup kept
    /\ objects' \in Removed({NoteKey(n.id) : n \in {m \in request[r].got : m.object}})
    /\ Close(r)
    /\ UNCHANGED <<rows, used, damaged, unlisted>>

(* The end of either *)

CommitSession(r) ==
    LET q == request[r] IN
    /\ AtStep(r, "commit")
    /\ rows' = [rows EXCEPT
          !.docs = @ \cup {[id |-> d, content |-> c] : d \in {q.doc} \ {NoDoc}, c \in q.text},
          !.notes = @ \cup q.got]
    /\ Close(r)
    /\ UNCHANGED <<objects, indexed, used, damaged, unlisted>>

\* What follows in the session fails, such as analyze_style after the upload of its texts, or
\* the commit does.
RollBack(r) ==
    /\ AtStep(r, "commit")
    /\ Close(r)
    /\ UNCHANGED <<rows, objects, indexed, used, damaged, unlisted>>

(* The project *)

StartDelete(r) ==
    /\ Start(r, [Idle EXCEPT !.step = "vectors", !.seen = rows])
    /\ UNCHANGED used

\* ProjectService.delete: first the vectors, of whatever is in the project (of its memories, too:
\* Memory) ...
DeleteVectors(r) ==
    /\ AtStep(r, "vectors")
    /\ indexed' = {}
    /\ request' = Goto(r, "objects")
    /\ UNCHANGED <<rows, objects, used, damaged, unlisted>>

\* ... then the objects of the rows it read ...
DeleteObjects(r) ==
    /\ AtStep(r, "objects")
    /\ objects' = objects \ ObjectKeys(request[r].seen)
    /\ request' = Goto(r, "project")
    /\ UNCHANGED <<rows, indexed, used, damaged, unlisted>>

\* ... then the project, once nobody holds its row; the rows cascade and the session commits.
DeleteProject(r) ==
    /\ AtStep(r, "project")
    /\ \A o \in Request \ {r} : ~Inserted(o)
    /\ rows' = [docs |-> {}, notes |-> {}, exists |-> FALSE]
    /\ Close(r)
    /\ UNCHANGED <<objects, indexed, used, damaged, unlisted>>

\* MinIO or MySQL raises; what was removed is not put back.
FailDelete(r) ==
    /\ request[r].step \in {"objects", "project"}
    /\ \E gone \in SUBSET (IF AtStep(r, "objects") THEN ObjectKeys(request[r].seen) ELSE {}) :
          objects' = objects \ gone
    /\ Close(r)
    /\ damaged' = TRUE
    /\ UNCHANGED <<rows, indexed, used, unlisted>>

(* The index *)

StartRebuild(r) ==
    /\ Start(r, [Idle EXCEPT !.step = "clear", !.seen = rows])
    /\ UNCHANGED used

\* vector rebuild: the chunks of every document, and the notes _is_indexable_research_note keeps.
Listed(seen) == {d.id : d \in seen.docs} \cup (Fetched(seen.notes) \ Weak)

\* delete without a source_type: these vectors, and those of the memories (ClearVectors of Memory).
ClearIndex(r) ==
    /\ AtStep(r, "clear")
    /\ unlisted' = (unlisted \cup indexed) \ Listed(request[r].seen)
    /\ indexed' = {}
    /\ request' = Goto(r, "load")
    /\ UNCHANGED <<rows, objects, used, damaged>>

\* The upsert of what was listed, with the active memories (LoadVectors of Memory).
LoadIndex(r) ==
    /\ AtStep(r, "load")
    /\ indexed' = indexed \cup Listed(request[r].seen)
    /\ Close(r)
    /\ UNCHANGED <<rows, objects, used, damaged, unlisted>>

\* The embedding of the texts, or the upsert, fails after the vectors were deleted.
FailRebuild(r) ==
    /\ AtStep(r, "load")
    /\ \E kept \in Unanswered(Listed(request[r].seen)) : indexed' = indexed \cup kept
    /\ Close(r)
    /\ damaged' = TRUE
    /\ UNCHANGED <<rows, objects, used, unlisted>>

\* The process dies: nothing is compensated.
Crash(r) ==
    /\ "crash" \in Fault
    /\ ~AtStep(r, "closed")
    /\ damaged' = (damaged \/ request[r].step \in {"objects", "project", "load"})
    /\ Close(r)
    /\ UNCHANGED <<rows, objects, indexed, used, unlisted>>

RequestStep(r) ==
    \/ \E c \in Content, d \in DocId : StartUpload(r, c, d)
    \/ AddDocument(r) \/ PutSource(r) \/ PutParsed(r) \/ IndexChunks(r) \/ FailUpload(r)
    \/ \E notes \in SUBSET ResearchNote : StartResearch(r, notes)
    \/ \E n \in ResearchNote : FetchNote(r, n)
    \/ FailFetch(r) \/ IndexNotes(r) \/ AddNotes(r) \/ FailResearch(r)
    \/ CommitSession(r) \/ RollBack(r)
    \/ StartDelete(r) \/ DeleteVectors(r) \/ DeleteObjects(r) \/ DeleteProject(r) \/ FailDelete(r)
    \/ StartRebuild(r) \/ ClearIndex(r) \/ LoadIndex(r) \/ FailRebuild(r)
    \/ Crash(r)

IngestNext == \E r \in Request : RequestStep(r)

IngestSpec == IngestInit /\ [][IngestNext]_ingestVars

-----------------------------------------------------------------------------
DeletionRuns == \E r \in Request : request[r].step \in {"objects", "project"}

\* Of a project that is not being deleted, and after no failed deletion, every document
\* and note that is committed still has its objects: two uploads of one content write the same
\* keys, and the compensation of the one that fails does not take the objects of the other
\* (ingest_bytes adds the row, which is unique, before it writes).
ObjectsKept == damaged \/ DeletionRuns \/ ObjectKeys(rows) \subseteq objects

\* Under the same condition, what is committed can be searched, except while the index is
\* rebuilt, and except what a rebuild did not list because it was committed after it had read
\* the rows, or is of little credibility.
Searchable ==
    \/ damaged \/ DeletionRuns \/ \E r \in Request : AtStep(r, "load")
    \/ {d.id : d \in rows.docs} \cup Fetched(rows.notes) \subseteq indexed \cup unlisted

\* No half-finished record that cannot be traced is left: when no session is open, what is in
\* MinIO and Milvus belongs to a row.
NoLeftovers ==
    (\A r \in Request : AtStep(r, "closed")) =>
        /\ objects \subseteq ObjectKeys(rows)
        /\ indexed \subseteq {d.id : d \in rows.docs} \cup Fetched(rows.notes)

\* What an open session has written and its rows will refer to once it commits.
PendingObjects(r) ==
    IF AtStep(r, "fetch") \/ AtStep(r, "index_notes") \/ AtStep(r, "note_rows") \/ Inserted(r)
    THEN IF request[r].doc = NoDoc
         THEN {NoteKey(n.id) : n \in {m \in request[r].got : m.object}}
         ELSE request[r].put
    ELSE {}

PendingVectors(r) ==
    IF AtStep(r, "note_rows") \/ AtStep(r, "commit")
    THEN IF request[r].doc = NoDoc THEN Fetched(request[r].got) ELSE {request[r].doc}
    ELSE {}

\* What neither a row nor an open session knows of.
StrayObjects == objects \ (ObjectKeys(rows) \cup UNION {PendingObjects(r) : r \in Request})

StrayVectors ==
    indexed \ (({d.id : d \in rows.docs} \cup Fetched(rows.notes))
                  \cup UNION {PendingVectors(r) : r \in Request})

\* The session ends without a compensation, or it deletes the project by what it had read.
EndsUncompensated(r) == RollBack(r) \/ Crash(r) \/ DeleteProject(r)

\* A fetch that raises, a compensation whose removal fails, or a put that raises when the store
\* has the object.
LosesObjects(r) ==
    \/ EndsUncompensated(r) \/ FailFetch(r)
    \/ "removal" \in Fault /\ (FailUpload(r) \/ FailResearch(r))
    \/ "reply" \in Fault /\ Putting(r) # {} /\ FailUpload(r)

\* An upload that had indexed its chunks, a removal that fails, an upsert that raises when it is
\* applied, or a rebuild that loads the index of a project which is gone.
LosesVectors(r) ==
    \/ EndsUncompensated(r)
    \/ AtStep(r, "commit") /\ FailUpload(r)
    \/ "removal" \in Fault /\ FailResearch(r)
    \/ "reply" \in Fault /\ Indexing(r) # {} /\ (FailUpload(r) \/ FailResearch(r))
    \/ ~rows.exists /\ (LoadIndex(r) \/ FailRebuild(r))

\* NoLeftovers fails in these ways and in no other: every other step of any session, among them
\* the except clauses of ingest_bytes and research, leaves nothing that was not left before.
LeftoversKnown ==
    [][/\ StrayObjects' \subseteq StrayObjects \/ \E r \in Request : LosesObjects(r)
       /\ StrayVectors' \subseteq StrayVectors \/ \E r \in Request : LosesVectors(r)]_ingestVars

=============================================================================
