-------------------------------- MODULE Canon --------------------------------
(***************************************************************************)
(* From draft to canon: the Story Bible with its version snapshots, drafts, *)
(* canon patches and chapters of one project, and the service methods that  *)
(* change them (story_bible_service, generation_service,                    *)
(* manuscript_service).                                                     *)
(*                                                                          *)
(* A request or an executor step is one database session: it reads from     *)
(* the snapshot its first query takes (REPEATABLE READ), may wait for       *)
(* agents, and writes at its end.  JsonRepository.update replaces a whole   *)
(* row by what the session computed from its snapshot, without a condition; *)
(* only the Story Bible is replaced on condition that its version is still  *)
(* the one read.  So an operation is two actions, Begin and the operation   *)
(* itself, which reads view[a] and writes db.                               *)
(***************************************************************************)
EXTENDS Integers, Sequences, FiniteSets

CONSTANTS
    Actor,     \* sessions that may be open at the same time
    Draft,     \* identifiers of generation_results
    Chapter,   \* identifiers of manuscript_chapters
    NoDraft,   \* draft_id, accepted_draft_id when they are NULL
    NoChapter, \* chapter_id when it is NULL
    Edit,      \* a change of the bible that is not a draft's patch
    NoView,    \* a session that is not open
    MaxEdits   \* bound: the author edits a bible of at most this many entries

ASSUME NamesAssumption ==
    NoDraft \notin Draft /\ NoChapter \notin Chapter /\ Edit \notin Draft

ASSUME EditsAssumption == MaxEdits \in Nat

DraftStatus == {"absent", "draft", "superseded", "rejected", "accepted"}
PatchStatus == {"absent", "pending", "accepted", "rejected"}

\* "drafting" stands for planned and drafting, "accepted" for accepted and completed: the
\* code treats the two of a pair alike.
ChapterStatus == {"drafting", "accepted"}

\* The payload of a chapter, and the two columns get_by_draft selects on.
ChapterRow == [status         : ChapterStatus \cup {"absent"},
               draft          : Draft \cup {NoDraft},
               accepted       : Draft \cup {NoDraft},
               draftColumn    : Draft \cup {NoDraft},
               acceptedColumn : Draft \cup {NoDraft}]

Database == [version : Nat \ {0},                   \* story_bibles.version
             canon   : Seq(Draft \cup {Edit}),      \* story_bibles.payload
             saved   : Seq(Seq(Draft \cup {Edit})), \* story_bible_versions
             draft   : [Draft -> DraftStatus],
             home    : [Draft -> Chapter \cup {NoChapter}], \* chapter_id of a draft
             patch   : [Draft -> PatchStatus],      \* its patch: draft_id is unique
             base    : [Draft -> Nat],              \* base_bible_version
             chapter : [Chapter -> ChapterRow]]

VARIABLES
    db,   \* what is committed
    view  \* the snapshot each open session reads

vars == <<db, view>>

\* The rows and snapshots are well formed, and no patch is based on a version to come.
TypeOK ==
    /\ db \in Database
    /\ view \in [Actor -> {NoView} \cup Database]
    /\ \A d \in Draft : db.base[d] <= db.version

-----------------------------------------------------------------------------
(* Reading a snapshot v *)

\* manuscript_chapters.get_by_draft: some chapter that refers to d, or none.
Linked(v, d) == {c \in Chapter : d \in {v.chapter[c].draftColumn, v.chapter[c].acceptedColumn}}
FoundByDraft(v, d) == IF Linked(v, d) = {} THEN {NoChapter} ELSE Linked(v, d)

Known(v, d) == v.draft[d] # "absent"
Exists(v, c) == v.chapter[c].status # "absent"

\* Where a revision of d goes: the chapter the draft names, or one that refers to it.
HomeOf(v, d) == IF v.home[d] # NoChapter THEN {v.home[d]} ELSE FoundByDraft(v, d)

\* Mutant: a chapter may be marked accepted without an accepted draft.
AnyStatus(status, accepted) == TRUE

ValidStatus(status, accepted) == status = "accepted" => accepted # NoDraft

\* The draft may be shown in chapter c, which is NoChapter before it is inserted.
Available(v, d, c) ==
    d # NoDraft => Known(v, d) /\ \E found \in FoundByDraft(v, d) : found \in {c, NoChapter}

\* The accepted version of a chapter that is given the draft d.
AcceptedVersion(v, d, accepted) ==
    IF d # NoDraft /\ v.draft[d] = "accepted" THEN d ELSE accepted

-----------------------------------------------------------------------------
(* Writing *)

\* Mutant: the payload is replaced and the columns stay behind.
PayloadOnly(c, seen, row) ==
    [row EXCEPT !.draftColumn = db.chapter[c].draftColumn,
                !.acceptedColumn = db.chapter[c].acceptedColumn]

\* A flush replaces the payload, and those columns whose value differs from the one read.
Flushed(c, seen, row) ==
    [row EXCEPT !.draftColumn = IF row.draft = seen.draftColumn
                                THEN db.chapter[c].draftColumn ELSE row.draft,
                !.acceptedColumn = IF row.accepted = seen.acceptedColumn
                                   THEN db.chapter[c].acceptedColumn ELSE row.accepted]

\* The chapters after one of them, c, was given new values.
WithChapter(v, c, row) == [db.chapter EXCEPT ![c] = Flushed(c, v.chapter[c], row)]

\* unique = True on both columns.
UniqueColumns(chapter) ==
    \A c1, c2 \in Chapter : c1 # c2 =>
        /\ chapter[c1].draftColumn = NoDraft \/ chapter[c1].draftColumn # chapter[c2].draftColumn
        /\ chapter[c1].acceptedColumn = NoDraft
              \/ chapter[c1].acceptedColumn # chapter[c2].acceptedColumn

\* Mutant: the new draft also becomes the accepted version.
Promoted(v, c, d) == [v.chapter[c] EXCEPT !.draft = d, !.accepted = d, !.status = "drafting"]

\* ManuscriptService.attach_draft of a draft that was just stored.
Attached(v, c, d) == [v.chapter[c] EXCEPT !.draft = d, !.status = "drafting"]

ChaptersWithDraft(v, c, d) ==
    IF c = NoChapter THEN db.chapter ELSE WithChapter(v, c, Attached(v, c, d))

\* Mutant: the version is not compared.
AnyVersion(v) == TRUE

\* update_versioned: the row still has the version that was read.
IsCurrent(v) == db.version = v.version

\* Mutant: the version a patch will have once it is accepted.
NextVersion(v) == v.version + 1

\* create_patch
BaseVersion(v) == v.version

-----------------------------------------------------------------------------
Init ==
    /\ db = [version |-> 1,
             canon   |-> <<>>,
             saved   |-> << <<>> >>,
             draft   |-> [d \in Draft |-> "absent"],
             home    |-> [d \in Draft |-> NoChapter],
             patch   |-> [d \in Draft |-> "absent"],
             base    |-> [d \in Draft |-> 0],
             chapter |-> [c \in Chapter |->
                             [status |-> "absent", draft |-> NoDraft, accepted |-> NoDraft,
                              draftColumn |-> NoDraft, acceptedColumn |-> NoDraft]]]
    /\ view = [a \in Actor |-> NoView]

\* The first query of a session.
Begin(a) ==
    /\ view[a] = NoView
    /\ view' = [view EXCEPT ![a] = db]
    /\ UNCHANGED db

Close(a) ==
    /\ view[a] # NoView
    /\ view' = [view EXCEPT ![a] = NoView]

\* The method raises, an agent or the database fails, or nothing was to be written.
Rollback(a) == Close(a) /\ UNCHANGED db

\* write: a new draft with its patch, attached to the chapter it was asked for.
Write(a, d, c) ==
    LET v == view[a] IN
    /\ Close(a)
    /\ db.draft[d] = "absent"
    /\ c # NoChapter => Exists(v, c)
    /\ db' = [db EXCEPT !.draft[d] = "draft",
                        !.home[d] = c,
                        !.patch[d] = "pending",
                        !.base[d] = BaseVersion(v),
                        !.chapter = ChaptersWithDraft(v, c, d)]
    /\ UniqueColumns(db'.chapter)

\* A revision d of o, shown in c; withdrawn says whether the patch of o is rejected.
StoreRevision(v, o, d, c, withdrawn) ==
    LET draft == [db.draft EXCEPT
                      ![d] = "draft",
                      ![o] = IF v.draft[o] = "draft" THEN "superseded" ELSE db.draft[o]]
        patch == [db.patch EXCEPT
                      ![d] = "pending",
                      ![o] = IF withdrawn THEN "rejected" ELSE db.patch[o]]
    IN
    /\ db.draft[d] = "absent"
    /\ db' = [db EXCEPT !.draft = draft,
                        !.home[d] = c,
                        !.patch = patch,
                        !.base[d] = BaseVersion(v),
                        !.chapter = ChaptersWithDraft(v, c, d)]
    /\ UniqueColumns(db'.chapter)

\* revise_draft, also reached through revise_from_issue.
Revise(a, o, d) ==
    LET v == view[a] IN
    /\ Close(a)
    /\ v.draft[o] \notin {"absent", "accepted"}
    /\ \E c \in HomeOf(v, o) : StoreRevision(v, o, d, c, v.patch[o] = "pending")

\* Mutant: the patch of the draft that was edited stays pending.
ReviseByHandOnly(a, o, d) ==
    LET v == view[a] IN
    /\ Close(a)
    /\ Known(v, o)
    /\ \E c \in HomeOf(v, o) : StoreRevision(v, o, d, c, FALSE)

\* manually_revise_draft: an accepted draft may be edited and stays as it is.
ReviseByHand(a, o, d) ==
    LET v == view[a] IN
    /\ Close(a)
    /\ Known(v, o)
    /\ \E c \in HomeOf(v, o) :
          StoreRevision(v, o, d, c, v.draft[o] = "draft" /\ v.patch[o] = "pending")

\* reject_draft with reject_current_draft: the chapter falls back to its accepted version.
Reject(a, d) ==
    LET v == view[a]
        FallBack(x) == [x EXCEPT !.draft = x.accepted,
                                 !.status = IF x.accepted # NoDraft THEN "accepted" ELSE "drafting"]
    IN
    /\ Close(a)
    /\ v.draft[d] \in {"draft", "superseded"}
    /\ \E c \in FoundByDraft(v, d) :
          db' = [db EXCEPT !.draft[d] = "rejected",
                           !.patch[d] = IF v.patch[d] = "pending" THEN "rejected" ELSE @,
                           !.chapter = IF c # NoChapter /\ v.chapter[c].draft = d
                                       THEN WithChapter(v, c, FallBack(v.chapter[c])) ELSE @]
    /\ UniqueColumns(db'.chapter)

\* Mutant: the version the draft was written against is not compared.
AcceptablePending(v, d) == v.patch[d] = "pending"

\* Mutant: a patch that was rejected may still be accepted.
AcceptableUndecided(v, d) == v.patch[d] \in {"pending", "rejected"} /\ v.base[d] = v.version

\* accept_patch: the patch is open and the canon is the one its draft was written against.
Acceptable(v, d) == v.patch[d] = "pending" /\ v.base[d] = v.version

\* accept_patch: the bible, the patch, the draft, and the chapter that shows it.
Accept(a, d) ==
    LET v == view[a]
        canon == Append(v.canon, d)
    IN
    /\ Close(a)
    /\ Acceptable(v, d)
    /\ IsCurrent(v)
    /\ \E c \in FoundByDraft(v, d) :
          db' = [db EXCEPT !.version = v.version + 1,
                           !.canon = canon,
                           !.saved = Append(@, canon),
                           !.patch[d] = "accepted",
                           !.draft[d] = "accepted",
                           !.chapter = IF c # NoChapter /\ v.chapter[c].draft = d
                                       THEN WithChapter(v, c, [v.chapter[c] EXCEPT
                                                !.accepted = d, !.status = "accepted"])
                                       ELSE @]
    /\ UniqueColumns(db'.chapter)

\* add_character, add_rule, resolve_foreshadowing, apply_worldbuilding and the like.
EditBible(a) ==
    LET v == view[a]
        canon == Append(v.canon, Edit)
    IN
    /\ Close(a)
    /\ IsCurrent(v)
    /\ Len(v.canon) < MaxEdits
    /\ db' = [db EXCEPT !.version = v.version + 1,
                        !.canon = canon,
                        !.saved = Append(@, canon)]

\* create_chapter, with or without a draft.
CreateChapter(a, c, d, status) ==
    LET v == view[a]
        accepted == AcceptedVersion(v, d, NoDraft)
    IN
    /\ Close(a)
    /\ ~Exists(db, c)
    /\ Available(v, d, NoChapter)
    /\ ValidStatus(status, accepted)
    /\ db' = [db EXCEPT !.chapter[c] = [status |-> status, draft |-> d, accepted |-> accepted,
                                        draftColumn |-> d, acceptedColumn |-> accepted]]
    /\ UniqueColumns(db'.chapter)

\* update_chapter: another draft or none, another status, or the same ones again.
UpdateChapter(a, c, d, status) ==
    LET v == view[a]
        accepted == AcceptedVersion(v, d, v.chapter[c].accepted)
    IN
    /\ Close(a)
    /\ Exists(v, c)
    /\ Available(v, d, c)
    /\ ValidStatus(status, accepted)
    /\ db' = [db EXCEPT !.chapter = WithChapter(v, c, [v.chapter[c] EXCEPT
                            !.draft = d, !.accepted = accepted, !.status = status])]
    /\ UniqueColumns(db'.chapter)

\* reorder_chapters writes every chapter of a volume back, as it was read.
ReorderChapters(a, volume) ==
    LET v == view[a] IN
    /\ Close(a)
    /\ \A c \in volume : Exists(v, c)
    /\ db' = [db EXCEPT !.chapter = [c \in Chapter |->
                  IF c \in volume THEN Flushed(c, v.chapter[c], v.chapter[c]) ELSE @[c]]]
    /\ UniqueColumns(db'.chapter)

DraftStep(a) ==
    \E d \in Draft :
        \/ \E c \in Chapter \cup {NoChapter} : Write(a, d, c)
        \/ \E o \in Draft : Revise(a, o, d) \/ ReviseByHand(a, o, d)
        \/ Reject(a, d)
        \/ Accept(a, d)

ChapterStep(a) ==
    \/ \E c \in Chapter, d \in Draft \cup {NoDraft}, status \in ChapterStatus :
           CreateChapter(a, c, d, status) \/ UpdateChapter(a, c, d, status)
    \/ \E volume \in SUBSET Chapter : ReorderChapters(a, volume)

Next == \E a \in Actor : Begin(a) \/ Rollback(a) \/ EditBible(a) \/ DraftStep(a) \/ ChapterStep(a)

Spec == Init /\ [][Next]_vars

-----------------------------------------------------------------------------
(* Whatever sessions do at the same time *)

\* The versions of the bible form one history without gaps or lost updates: the snapshot of
\* each version extends the one before by one entry, and the last one is the bible itself
\* (update_versioned and its insert of story_bible_versions).
HistoryKept ==
    /\ Len(db.saved) = db.version
    /\ db.saved[db.version] = db.canon
    /\ \A v \in 1 .. db.version - 1 : \E e \in Draft \cup {Edit} :
          db.saved[v + 1] = Append(db.saved[v], e)

InCanon(d) == \E i \in DOMAIN db.canon : db.canon[i] = d

\* _export_draft_id
Exported(c) ==
    LET x == db.chapter[c] IN
    IF x.accepted # NoDraft THEN x.accepted
    ELSE IF x.status = "accepted" THEN x.draft ELSE NoDraft

\* Nothing is shown as accepted, and no chapter exports a text, that has not entered the
\* canon: accept_patch is the only way in, and no stale write of another session opens a
\* second one.
AcceptedInCanon ==
    /\ \A d \in Draft : (db.draft[d] = "accepted" \/ db.patch[d] = "accepted") => InCanon(d)
    /\ \A c \in Chapter : Exported(c) # NoDraft => InCanon(Exported(c))

Log == INSTANCE CanonLog WITH log <- db.canon, base <- db.base

\* The canon is the linear history CanonLog promises: a draft enters it at most once, on top
\* of the version its patch was written against, and edits are never lost.
ImplementsCanonLog == Log!LogSpec

(* When sessions follow one another; and, of two sessions, what the roadmap promises *)

\* The four places that record a decision on a draft agree: its status, its patch, the canon,
\* and the chapters that export it (the rows accept_patch, reject_draft and the revisions
\* write one by one).
DecisionsAgree ==
    /\ \A d \in Draft :
          /\ db.draft[d] = "accepted" <=> InCanon(d)
          /\ db.patch[d] = "accepted" <=> InCanon(d)
          /\ db.patch[d] = "pending" <=> db.draft[d] = "draft"
    /\ \A c \in Chapter : Exported(c) # NoDraft => db.draft[Exported(c)] = "accepted"

\* The columns by which a chapter is found are the values its payload shows.
ColumnsAgree ==
    \A c \in Chapter : LET x == db.chapter[c] IN
        x.draftColumn = x.draft /\ x.acceptedColumn = x.accepted

\* A patch is decided once: accepted and rejected ones keep their status.
DecidedOnce ==
    [][\A d \in Draft : db.patch[d] \in {"accepted", "rejected"} => db'.patch[d] = db.patch[d]]_vars

\* A new draft does not replace the accepted version a chapter exports: it changes only to a
\* draft that is accepted.
ExportKept ==
    [][\A c \in Chapter : db'.chapter[c].accepted # db.chapter[c].accepted =>
          \E d \in Draft : db'.chapter[c].accepted = d /\ db'.draft[d] = "accepted"]_vars

=============================================================================
