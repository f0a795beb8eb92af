----------------------------- MODULE CanonProofs -----------------------------
(***************************************************************************)
(* Proofs about Canon, for any number of sessions, drafts and chapters.     *)
(*                                                                          *)
(* Sound says of one database, committed or read as a snapshot, what no     *)
(* session ever breaks; Older relates a snapshot to what is committed now.  *)
(* Every step leaves a sound database to which the one before is older, so  *)
(* open snapshots stay sound and older.                                     *)
(***************************************************************************)
EXTENDS Canon, TLAPS

Entry == Draft \cup {Edit}

Entered(canon, d) == \E i \in DOMAIN canon : canon[i] = d

History(D) ==
    /\ Len(D.saved) = D.version
    /\ D.saved[D.version] = D.canon
    /\ Len(D.canon) = D.version - 1
    /\ \A v \in 1 .. D.version - 1 : \E e \in Entry : D.saved[v + 1] = Append(D.saved[v], e)

DraftSound(D, d) ==
    /\ D.draft[d] = "accepted" \/ D.patch[d] = "accepted" => Entered(D.canon, d)
    /\ D.draft[d] = "absent" => D.base[d] = 0
    /\ D.base[d] <= D.version

ChapterSound(canon, x) ==
    /\ x.accepted # NoDraft => Entered(canon, x.accepted)
    /\ x.status = "accepted" => x.accepted # NoDraft

Sound(D) ==
    /\ D \in Database
    /\ History(D)
    /\ \A d \in Draft : DraftSound(D, d)
    /\ \A c \in Chapter : ChapterSound(D.canon, D.chapter[c])

\* D was the committed database at some time before E was.
Older(D, E) ==
    /\ D.version <= E.version
    /\ D.version = E.version => D.canon = E.canon
    /\ \A d \in Draft : Entered(D.canon, d) => Entered(E.canon, d)
    /\ \A d \in Draft : D.base[d] # 0 => E.base[d] = D.base[d]

IInv ==
    /\ Sound(db)
    /\ view \in [Actor -> {NoView} \cup Database]
    /\ \A a \in Actor : view[a] # NoView => Sound(view[a]) /\ Older(view[a], db)

-----------------------------------------------------------------------------
(* Databases and their order *)

LEMMA OlderReflexive ==
    ASSUME NEW D PROVE D \in Database => Older(D, D)
  BY DEF Older, Database

LEMMA OlderTransitive ==
    ASSUME NEW D, NEW E, NEW F,
           D \in Database, E \in Database, F \in Database,
           Older(D, E), Older(E, F)
    PROVE  Older(D, F)
  BY DEF Older, Database

\* What a snapshot shows in a chapter is still in the canon.
LEMMA ChapterStillSound ==
    ASSUME NEW D, NEW E, Sound(D), Older(D, E), NEW c \in Chapter
    PROVE  ChapterSound(E.canon, D.chapter[c])
  BY DEF Sound, Older, ChapterSound, Database, ChapterRow

\* A session that leaves the bible alone.
LEMMA RowsChange ==
    ASSUME NEW D, NEW E, Sound(D), E \in Database,
           E.version = D.version, E.canon = D.canon, E.saved = D.saved,
           \A d \in Draft : DraftSound(E, d),
           \A d \in Draft : D.base[d] # 0 => E.base[d] = D.base[d],
           \A c \in Chapter : ChapterSound(D.canon, E.chapter[c])
    PROVE  Sound(E) /\ Older(D, E)
  BY DEF Sound, Older, History, Database

LEMMA AppendKeeps ==
    ASSUME NEW S, NEW s \in Seq(S), NEW x \in S
    PROVE  /\ Len(Append(s, x)) = Len(s) + 1
           /\ Append(s, x)[Len(s) + 1] = x
           /\ \A i \in 1 .. Len(s) : Append(s, x)[i] = s[i]
  OBVIOUS

\* An entry that was in a sequence is in every extension of it, and so is the one appended.
LEMMA AppendEnters ==
    ASSUME NEW s \in Seq(Entry), NEW e \in Entry
    PROVE  /\ Entered(Append(s, e), e)
           /\ \A d : Entered(s, d) => Entered(Append(s, e), d)
  <1>1. Append(s, e)[Len(s) + 1] = e /\ Len(s) + 1 \in DOMAIN Append(s, e)
    OBVIOUS
  <1>2. \A i \in DOMAIN s : i \in DOMAIN Append(s, e) /\ Append(s, e)[i] = s[i]
    OBVIOUS
  <1>3. QED
    BY <1>1, <1>2 DEF Entered

\* A session that gives the bible a new version.
LEMMA BibleChange ==
    ASSUME NEW D, NEW E, NEW e \in Entry, Sound(D), E \in Database,
           E.version = D.version + 1,
           E.canon = Append(D.canon, e),
           E.saved = Append(D.saved, E.canon),
           E.base = D.base,
           \A d \in Draft : E.draft[d] = "accepted" \/ E.patch[d] = "accepted" =>
               D.draft[d] = "accepted" \/ D.patch[d] = "accepted" \/ d = e,
           \A d \in Draft : E.draft[d] = "absent" => D.draft[d] = "absent",
           \A c \in Chapter : ChapterSound(E.canon, E.chapter[c])
    PROVE  Sound(E) /\ Older(D, E)
  <1>1. D \in Database /\ D.canon \in Seq(Entry) /\ D.saved \in Seq(Seq(Entry))
        /\ D.version \in Nat /\ E.canon \in Seq(Entry)
    BY DEF Sound, Database, Entry
  <1>2. Entered(E.canon, e) /\ \A d : Entered(D.canon, d) => Entered(E.canon, d)
    BY <1>1, AppendEnters
  <1>3. History(E)
    <2>1. History(D)
      BY DEF Sound
    <2>2. /\ Len(E.saved) = D.version + 1
          /\ E.saved[D.version + 1] = E.canon
          /\ \A v \in 1 .. D.version : E.saved[v] = D.saved[v]
      <3>1. /\ Len(E.saved) = Len(D.saved) + 1
            /\ E.saved[Len(D.saved) + 1] = E.canon
            /\ \A i \in 1 .. Len(D.saved) : E.saved[i] = D.saved[i]
        BY <1>1, AppendKeeps
      <3>2. QED
        BY <2>1, <3>1 DEF History
    <2>3. Len(E.canon) = D.version
      BY <1>1, <2>1, AppendKeeps DEF History
    <2>4. ASSUME NEW v \in 1 .. E.version - 1
          PROVE  \E x \in Entry : E.saved[v + 1] = Append(E.saved[v], x)
      <3>1. v \in 1 .. D.version
        BY <1>1
      <3>2. CASE v = D.version
        BY <2>1, <2>2, <3>1, <3>2 DEF History
      <3>3. CASE v # D.version
        <4> DEFINE n == D.version
        <4>1. v \in 1 .. D.version - 1 /\ v + 1 \in 1 .. D.version
          <5>1. n \in Nat /\ v \in 1 .. n /\ v # n
            BY <1>1, <3>1, <3>3
          <5> HIDE DEF n
          <5>2. v \in 1 .. n - 1 /\ v + 1 \in 1 .. n
            BY <5>1
          <5>3. QED
            BY <5>2 DEF n
        <4>2. E.saved[v] = D.saved[v] /\ E.saved[v + 1] = D.saved[v + 1]
          BY <2>2, <3>1, <4>1
        <4>3. QED
          BY <2>1, <4>1, <4>2 DEF History
      <3>4. QED
        BY <3>2, <3>3
    <2>5. Len(E.saved) = E.version /\ E.saved[E.version] = E.canon /\ Len(E.canon) = E.version - 1
      BY <1>1, <2>2, <2>3
    <2>6. QED
      BY <2>4, <2>5 DEF History
  <1>4. ASSUME NEW d \in Draft PROVE DraftSound(E, d)
    <2>1. DraftSound(D, d) /\ D.base[d] \in Nat
      BY DEF Sound, Database
    <2>2. QED
      BY <1>1, <1>2, <2>1 DEF DraftSound
  <1>5. Older(D, E)
    BY <1>1, <1>2 DEF Older
  <1>6. QED
    BY <1>3, <1>4, <1>5 DEF Sound

-----------------------------------------------------------------------------
(* What an open session knows, and how it writes a chapter *)

LEMMA SnapshotSound ==
    ASSUME IInv, NEW a \in Actor, view[a] # NoView
    PROVE  Sound(view[a]) /\ Older(view[a], db) /\ view[a] \in Database /\ db \in Database
  BY DEF IInv, Sound

\* FoundByDraft and HomeOf yield a chapter or none.
LEMMA HomeTyped ==
    ASSUME NEW v \in Database, NEW d \in Draft
    PROVE  /\ FoundByDraft(v, d) \subseteq Chapter \cup {NoChapter}
           /\ HomeOf(v, d) \subseteq Chapter \cup {NoChapter}
  BY DEF FoundByDraft, HomeOf, Linked, Database

\* A flush decides only about the columns.
LEMMA FlushedKeeps ==
    ASSUME db \in Database, NEW c \in Chapter, NEW seen, NEW row \in ChapterRow
    PROVE  /\ Flushed(c, seen, row) \in ChapterRow
           /\ Flushed(c, seen, row).accepted = row.accepted
           /\ Flushed(c, seen, row).status = row.status
  BY DEF Flushed, ChapterRow, Database

\* A chapter replaced by a sound row leaves the chapters sound, whatever the columns become.
LEMMA ChapterWritten ==
    ASSUME db \in Database, NEW v \in Database, NEW c \in Chapter, NEW row \in ChapterRow,
           NEW canon,
           ChapterSound(canon, row),
           \A k \in Chapter : ChapterSound(canon, db.chapter[k])
    PROVE  /\ WithChapter(v, c, row) \in [Chapter -> ChapterRow]
           /\ \A k \in Chapter : ChapterSound(canon, WithChapter(v, c, row)[k])
  <1>1. db.chapter \in [Chapter -> ChapterRow]
    BY DEF Database
  <1>2. /\ Flushed(c, v.chapter[c], row) \in ChapterRow
        /\ Flushed(c, v.chapter[c], row).accepted = row.accepted
        /\ Flushed(c, v.chapter[c], row).status = row.status
    BY FlushedKeeps
  <1>3. WithChapter(v, c, row) \in [Chapter -> ChapterRow]
    BY <1>1, <1>2 DEF WithChapter
  <1>4. ASSUME NEW k \in Chapter PROVE ChapterSound(canon, WithChapter(v, c, row)[k])
    BY <1>1, <1>2 DEF WithChapter, ChapterSound
  <1>5. QED
    BY <1>3, <1>4

\* A new draft shown in a chapter, or nowhere, changes no accepted version.
LEMMA DraftAttached ==
    ASSUME IInv, NEW a \in Actor, view[a] # NoView,
           NEW d \in Draft, NEW c \in Chapter \cup {NoChapter}
    PROVE  /\ ChaptersWithDraft(view[a], c, d) \in [Chapter -> ChapterRow]
           /\ \A k \in Chapter : ChapterSound(db.canon, ChaptersWithDraft(view[a], c, d)[k])
  <1>1. /\ Sound(db) /\ db \in Database /\ view[a] \in Database
        /\ Sound(view[a]) /\ Older(view[a], db)
    BY SnapshotSound DEF IInv
  <1>2. CASE c = NoChapter
    BY <1>1, <1>2 DEF ChaptersWithDraft, Sound, Database
  <1>3. CASE c \in Chapter
    <2> DEFINE x == view[a].chapter[c]
    <2>1. x \in ChapterRow /\ ChapterSound(db.canon, x)
      BY <1>1, <1>3, ChapterStillSound DEF Database
    <2>2. Attached(view[a], c, d) \in ChapterRow /\ ChapterSound(db.canon, Attached(view[a], c, d))
      BY <2>1 DEF Attached, ChapterRow, ChapterSound, ChapterStatus
    <2>3. ChaptersWithDraft(view[a], c, d) = WithChapter(view[a], c, Attached(view[a], c, d))
      BY <1>3, NamesAssumption DEF ChaptersWithDraft
    <2>4. QED
      BY <1>1, <1>3, <2>2, <2>3, ChapterWritten DEF Sound
  <1>4. QED
    BY <1>2, <1>3

-----------------------------------------------------------------------------
(* One lemma per operation: the database it leaves is sound and newer, and  *)
(* to the history of the canon it is one of CanonLog's steps, or none       *)

Advanced ==
    /\ Sound(db')
    /\ Older(db, db')
    /\ [Log!LogNext]_(Log!logVars)

\* A draft that had no patch gets one that is based on a version of the past or the present.
LEMMA ProposalLogged ==
    ASSUME Sound(db), NEW v \in Database, Older(v, db), NEW d \in Draft,
           db.draft[d] = "absent", db'.canon = db.canon,
           db'.base = [db.base EXCEPT ![d] = v.version]
    PROVE  [Log!LogNext]_(Log!logVars)
  <1>1. v.version \in 1 .. Len(db.canon) + 1
    BY DEF Sound, History, Older, Database
  <1>2. db.base[d] = 0
    BY DEF Sound, DraftSound
  <1>3. Log!Propose(d)
    BY <1>1, <1>2 DEF Log!Propose
  <1>4. QED
    BY <1>3 DEF Log!LogNext

LEMMA NothingLogged ==
    ASSUME db'.canon = db.canon, db'.base = db.base
    PROVE  [Log!LogNext]_(Log!logVars)
  BY DEF Log!logVars

LEMMA WriteAdvances ==
    ASSUME IInv, NEW a \in Actor, NEW d \in Draft, NEW c \in Chapter \cup {NoChapter},
           Write(a, d, c)
    PROVE  Advanced
  <1> DEFINE v == view[a]
  <1>1. /\ v # NoView /\ db.draft[d] = "absent"
        /\ Sound(db) /\ db \in Database /\ v \in Database /\ Older(v, db)
    BY SnapshotSound DEF Write, Close, IInv
  <1>2. /\ ChaptersWithDraft(v, c, d) \in [Chapter -> ChapterRow]
        /\ \A k \in Chapter : ChapterSound(db.canon, ChaptersWithDraft(v, c, d)[k])
    BY <1>1, DraftAttached
  <1>3. /\ db'.version = db.version /\ db'.canon = db.canon /\ db'.saved = db.saved
        /\ db'.draft = [db.draft EXCEPT ![d] = "draft"]
        /\ db'.home = [db.home EXCEPT ![d] = c]
        /\ db'.patch = [db.patch EXCEPT ![d] = "pending"]
        /\ db'.base = [db.base EXCEPT ![d] = v.version]
        /\ db'.chapter = ChaptersWithDraft(v, c, d)
    BY <1>1 DEF Write, Database, BaseVersion
  <1>4. db' \in Database
    BY <1>1, <1>2 DEF Write, Database, DraftStatus, PatchStatus, BaseVersion
  <1>5. \A k \in Draft : DraftSound(db', k)
    BY <1>1, <1>3 DEF Sound, DraftSound, Database, Older
  <1>6. \A k \in Draft : db.base[k] # 0 => db'.base[k] = db.base[k]
    BY <1>1, <1>3 DEF Sound, DraftSound, Database
  <1>7. QED
    BY <1>1, <1>2, <1>3, <1>4, <1>5, <1>6, RowsChange, ProposalLogged DEF Advanced

\* A revision never decides the draft it revises in favour of the canon.
LEMMA RevisionAdvances ==
    ASSUME IInv, NEW a \in Actor, view[a] # NoView, NEW o \in Draft, NEW d \in Draft,
           NEW c \in Chapter \cup {NoChapter}, NEW withdrawn \in BOOLEAN,
           Known(view[a], o),
           StoreRevision(view[a], o, d, c, withdrawn)
    PROVE  Advanced
  <1> DEFINE v == view[a]
  <1>1. /\ db.draft[d] = "absent"
        /\ Sound(db) /\ db \in Database /\ v \in Database /\ Older(v, db)
    BY SnapshotSound DEF StoreRevision, IInv
  <1>2. /\ ChaptersWithDraft(v, c, d) \in [Chapter -> ChapterRow]
        /\ \A k \in Chapter : ChapterSound(db.canon, ChaptersWithDraft(v, c, d)[k])
    BY DraftAttached
  <1>3. /\ db'.version = db.version /\ db'.canon = db.canon /\ db'.saved = db.saved
        /\ db'.draft = [db.draft EXCEPT ![d] = "draft",
                                        ![o] = IF v.draft[o] = "draft" THEN "superseded" ELSE db.draft[o]]
        /\ db'.home = [db.home EXCEPT ![d] = c]
        /\ db'.patch = [db.patch EXCEPT ![d] = "pending",
                                        ![o] = IF withdrawn THEN "rejected" ELSE db.patch[o]]
        /\ db'.base = [db.base EXCEPT ![d] = v.version]
        /\ db'.chapter = ChaptersWithDraft(v, c, d)
    BY <1>1 DEF StoreRevision, Database, BaseVersion
  <1>4. db' \in Database
    <2> DEFINE draft == [db.draft EXCEPT
                             ![d] = "draft",
                             ![o] = IF v.draft[o] = "draft" THEN "superseded" ELSE db.draft[o]]
               patch == [db.patch EXCEPT
                             ![d] = "pending",
                             ![o] = IF withdrawn THEN "rejected" ELSE db.patch[o]]
               chapters == ChaptersWithDraft(v, c, d)
    <2>1. draft \in [Draft -> DraftStatus] /\ patch \in [Draft -> PatchStatus]
      BY <1>1 DEF Database, DraftStatus, PatchStatus
    <2>2. chapters \in [Chapter -> ChapterRow]
      BY <1>2
    <2>3. db' = [db EXCEPT !.draft = draft, !.home[d] = c, !.patch = patch,
                           !.base[d] = BaseVersion(v), !.chapter = chapters]
      BY DEF StoreRevision
    <2> HIDE DEF draft, patch, chapters
    <2>4. QED
      BY <1>1, <2>1, <2>2, <2>3 DEF Database, BaseVersion
  <1>5. \A k \in Draft : DraftSound(db', k)
    BY <1>1, <1>3 DEF Sound, DraftSound, Database, Older
  <1>6. \A k \in Draft : db.base[k] # 0 => db'.base[k] = db.base[k]
    BY <1>1, <1>3 DEF Sound, DraftSound, Database
  <1>7. QED
    BY <1>1, <1>2, <1>3, <1>4, <1>5, <1>6, RowsChange, ProposalLogged DEF Advanced

LEMMA ReviseAdvances ==
    ASSUME IInv, NEW a \in Actor, NEW o \in Draft, NEW d \in Draft,
           Revise(a, o, d) \/ ReviseByHand(a, o, d)
    PROVE  Advanced
  <1>1. /\ view[a] # NoView /\ Known(view[a], o)
        /\ \E c \in HomeOf(view[a], o), withdrawn \in BOOLEAN :
              StoreRevision(view[a], o, d, c, withdrawn)
    BY DEF Revise, ReviseByHand, Close, Known
  <1>2. HomeOf(view[a], o) \subseteq Chapter \cup {NoChapter}
    BY <1>1, SnapshotSound, HomeTyped
  <1>3. QED
    BY <1>1, <1>2, RevisionAdvances

LEMMA RejectAdvances ==
    ASSUME IInv, NEW a \in Actor, NEW d \in Draft, Reject(a, d)
    PROVE  Advanced
  <1> DEFINE v == view[a]
             FallBack(x) == [x EXCEPT !.draft = x.accepted,
                                 !.status = IF x.accepted # NoDraft THEN "accepted" ELSE "drafting"]
             chapters(c) == IF c # NoChapter /\ v.chapter[c].draft = d
                            THEN WithChapter(v, c, FallBack(v.chapter[c])) ELSE db.chapter
  <1>1. /\ v # NoView /\ v.draft[d] # "absent"
        /\ Sound(db) /\ db \in Database /\ v \in Database /\ Sound(v) /\ Older(v, db)
    BY SnapshotSound DEF Reject, Close, IInv
  <1>2. PICK c \in FoundByDraft(v, d) :
          db' = [db EXCEPT !.draft[d] = "rejected",
                           !.patch[d] = IF v.patch[d] = "pending" THEN "rejected" ELSE @,
                           !.chapter = chapters(c)]
    BY <1>1 DEF Reject, Database
  <1>3. c \in Chapter \cup {NoChapter}
    BY <1>1, HomeTyped
  <1>4. /\ chapters(c) \in [Chapter -> ChapterRow]
        /\ \A k \in Chapter : ChapterSound(db.canon, chapters(c)[k])
    <2>1. CASE c # NoChapter /\ v.chapter[c].draft = d
      <3>1. c \in Chapter
        BY <1>3, <2>1
      <3>2. v.chapter[c] \in ChapterRow /\ ChapterSound(db.canon, v.chapter[c])
        BY <1>1, <3>1, ChapterStillSound DEF Database
      <3>3. FallBack(v.chapter[c]) \in ChapterRow /\ ChapterSound(db.canon, FallBack(v.chapter[c]))
        BY <3>2 DEF ChapterRow, ChapterSound, ChapterStatus
      <3>4. QED
        BY <1>1, <2>1, <3>1, <3>3, ChapterWritten DEF Sound
    <2>2. CASE ~(c # NoChapter /\ v.chapter[c].draft = d)
      BY <1>1, <2>2 DEF Sound, Database
    <2>3. QED
      BY <2>1, <2>2
  <1> HIDE DEF chapters
  <1>5. /\ db'.version = db.version /\ db'.canon = db.canon /\ db'.saved = db.saved
        /\ db'.draft = [db.draft EXCEPT ![d] = "rejected"]
        /\ db'.patch = [db.patch EXCEPT ![d] = IF v.patch[d] = "pending" THEN "rejected" ELSE @]
        /\ db'.base = db.base
        /\ db'.chapter = chapters(c)
    BY <1>1, <1>2 DEF Database
  <1>6. db' \in Database
    BY <1>1, <1>2, <1>4 DEF Database, DraftStatus, PatchStatus
  <1>7. \A k \in Draft : DraftSound(db', k)
    BY <1>1, <1>5 DEF Sound, DraftSound, Database
  <1>8. QED
    BY <1>1, <1>4, <1>5, <1>6, <1>7, RowsChange, NothingLogged DEF Advanced

LEMMA EditAdvances ==
    ASSUME IInv, NEW a \in Actor, EditBible(a)
    PROVE  Advanced
  <1> DEFINE v == view[a]
  <1>1. /\ v # NoView /\ db.version = v.version
        /\ Sound(db) /\ db \in Database /\ v \in Database /\ Older(v, db)
    BY SnapshotSound DEF EditBible, Close, IsCurrent, IInv
  <1>2. v.canon = db.canon /\ Edit \in Entry
    BY <1>1 DEF Older, Entry
  <1>3. /\ db'.version = db.version + 1
        /\ db'.canon = Append(db.canon, Edit)
        /\ db'.saved = Append(db.saved, db'.canon)
        /\ db'.draft = db.draft /\ db'.patch = db.patch /\ db'.base = db.base
        /\ db'.chapter = db.chapter
    BY <1>1, <1>2 DEF EditBible, Database
  <1>4. /\ db.canon \in Seq(Entry) /\ Append(db.canon, Edit) \in Seq(Entry)
        /\ Append(db.saved, Append(db.canon, Edit)) \in Seq(Seq(Entry))
        /\ db.version + 1 \in Nat \ {0}
    <2>1. /\ db.canon \in Seq(Entry) /\ db.saved \in Seq(Seq(Entry)) /\ db.version \in Nat
      BY <1>1 DEF Database, Entry
    <2>2. QED
      BY <1>2, <2>1
  <1>5. db' \in Database
    BY <1>1, <1>2, <1>4 DEF EditBible, Database, Entry
  <1>6. \A c \in Chapter : ChapterSound(db'.canon, db'.chapter[c])
    BY <1>1, <1>2, <1>3, <1>4, AppendEnters DEF Sound, ChapterSound
  <1>7. Log!EditCanon
    BY <1>3 DEF Log!EditCanon
  <1>8. Sound(db') /\ Older(db, db')
    BY <1>1, <1>2, <1>3, <1>5, <1>6, BibleChange
  <1>9. QED
    BY <1>7, <1>8 DEF Advanced, Log!LogNext

LEMMA AcceptAdvances ==
    ASSUME IInv, NEW a \in Actor, NEW d \in Draft, Accept(a, d)
    PROVE  Advanced
  <1> DEFINE v == view[a]
             canon == Append(db.canon, d)
             Shown(c) == [v.chapter[c] EXCEPT !.accepted = d, !.status = "accepted"]
             chapters(c) == IF c # NoChapter /\ v.chapter[c].draft = d
                            THEN WithChapter(v, c, Shown(c)) ELSE db.chapter
  <1>1. /\ v # NoView /\ db.version = v.version
        /\ Sound(db) /\ db \in Database /\ v \in Database /\ Older(v, db)
    BY SnapshotSound DEF Accept, Close, IsCurrent, IInv
  <1>2. v.canon = db.canon /\ d \in Entry
    BY <1>1 DEF Older, Entry
  <1>3. PICK c \in FoundByDraft(v, d) :
          db' = [db EXCEPT !.version = v.version + 1,
                           !.canon = canon,
                           !.saved = Append(@, canon),
                           !.patch[d] = "accepted",
                           !.draft[d] = "accepted",
                           !.chapter = chapters(c)]
    BY <1>1, <1>2, ZenonT(60) DEF Accept
  <1>4. c \in Chapter \cup {NoChapter}
    BY <1>1, HomeTyped
  <1>5. /\ db.canon \in Seq(Entry) /\ canon \in Seq(Entry)
        /\ Append(db.saved, canon) \in Seq(Seq(Entry))
        /\ db.version + 1 \in Nat \ {0}
        /\ Entered(canon, d) /\ \A k : Entered(db.canon, k) => Entered(canon, k)
    <2>1. /\ db.canon \in Seq(Entry) /\ db.saved \in Seq(Seq(Entry)) /\ db.version \in Nat
      BY <1>1 DEF Database, Entry
    <2>2. QED
      BY <1>2, <2>1, AppendEnters
  <1>6. \A k \in Chapter : ChapterSound(canon, db.chapter[k])
    BY <1>1, <1>5 DEF Sound, ChapterSound
  <1>7. /\ chapters(c) \in [Chapter -> ChapterRow]
        /\ \A k \in Chapter : ChapterSound(canon, chapters(c)[k])
    <2>1. CASE c # NoChapter /\ v.chapter[c].draft = d
      <3>1. c \in Chapter /\ v.chapter[c] \in ChapterRow
        BY <1>1, <1>4, <2>1 DEF Database
      <3>2. Shown(c) \in ChapterRow /\ ChapterSound(canon, Shown(c))
        BY <1>5, <3>1, NamesAssumption DEF ChapterRow, ChapterSound, ChapterStatus
      <3>3. QED
        BY <1>1, <1>6, <2>1, <3>1, <3>2, ChapterWritten
    <2>2. CASE ~(c # NoChapter /\ v.chapter[c].draft = d)
      BY <1>1, <1>6, <2>2 DEF Database
    <2>3. QED
      BY <2>1, <2>2
  <1> HIDE DEF chapters
  <1>8. /\ db'.version = db.version + 1 /\ db'.canon = canon /\ db'.saved = Append(db.saved, canon)
        /\ db'.draft = [db.draft EXCEPT ![d] = "accepted"]
        /\ db'.patch = [db.patch EXCEPT ![d] = "accepted"]
        /\ db'.base = db.base
        /\ db'.chapter = chapters(c)
    BY <1>1, <1>3 DEF Database
  <1>9. db' \in Database
    BY <1>1, <1>3, <1>5, <1>7 DEF Database, DraftStatus, PatchStatus, Entry
  <1>10. /\ \A k \in Draft : db'.draft[k] = "accepted" \/ db'.patch[k] = "accepted" =>
               db.draft[k] = "accepted" \/ db.patch[k] = "accepted" \/ k = d
         /\ \A k \in Draft : db'.draft[k] = "absent" => db.draft[k] = "absent"
    BY <1>1, <1>8 DEF Database
  <1>11. Log!Enter(d)
    <2>1. v.base[d] = db.version /\ v.base[d] # 0 /\ db.base[d] = v.base[d]
      BY <1>1 DEF Accept, Acceptable, Older, Database
    <2>2. Len(db.canon) = db.version - 1
      BY <1>1 DEF Sound, History
    <2>3. QED
      BY <1>1, <1>8, <2>1, <2>2 DEF Log!Enter, Database
  <1>12. Sound(db') /\ Older(db, db')
    BY <1>1, <1>2, <1>7, <1>8, <1>9, <1>10, BibleChange
  <1>13. QED
    BY <1>11, <1>12 DEF Advanced, Log!LogNext

\* A session that changes chapters only.
LEMMA ChaptersChange ==
    ASSUME Sound(db), NEW chapters \in [Chapter -> ChapterRow],
           db' = [db EXCEPT !.chapter = chapters],
           \A k \in Chapter : ChapterSound(db.canon, chapters[k])
    PROVE  Advanced
  <1>1. db \in Database
    BY DEF Sound
  <1>2. /\ db'.version = db.version /\ db'.canon = db.canon /\ db'.saved = db.saved
        /\ db'.draft = db.draft /\ db'.patch = db.patch /\ db'.base = db.base
        /\ db'.chapter = chapters
    BY <1>1 DEF Database
  <1>3. db' \in Database
    BY <1>1 DEF Database
  <1>4. \A k \in Draft : DraftSound(db', k)
    BY <1>2 DEF Sound, DraftSound
  <1>5. QED
    BY <1>2, <1>3, <1>4, RowsChange, NothingLogged DEF Advanced

\* What a snapshot takes for the accepted version of a chapter has entered the canon.
LEMMA AcceptedVersionSound ==
    ASSUME NEW v, Sound(v), Older(v, db), NEW d \in Draft \cup {NoDraft},
           NEW accepted \in Draft \cup {NoDraft},
           accepted # NoDraft => Entered(db.canon, accepted)
    PROVE  /\ AcceptedVersion(v, d, accepted) \in Draft \cup {NoDraft}
           /\ AcceptedVersion(v, d, accepted) # NoDraft =>
                 Entered(db.canon, AcceptedVersion(v, d, accepted))
  BY DEF AcceptedVersion, Sound, DraftSound, Older

LEMMA CreateAdvances ==
    ASSUME IInv, NEW a \in Actor, NEW c \in Chapter, NEW d \in Draft \cup {NoDraft},
           NEW status \in ChapterStatus, CreateChapter(a, c, d, status)
    PROVE  Advanced
  <1> DEFINE v == view[a]
             accepted == AcceptedVersion(v, d, NoDraft)
             row == [status |-> status, draft |-> d, accepted |-> accepted,
                     draftColumn |-> d, acceptedColumn |-> accepted]
  <1>1. /\ v # NoView /\ ValidStatus(status, accepted) /\ db' = [db EXCEPT !.chapter[c] = row]
        /\ Sound(db) /\ db \in Database /\ Sound(v) /\ Older(v, db)
    BY SnapshotSound DEF CreateChapter, Close, IInv
  <1>2. /\ accepted \in Draft \cup {NoDraft}
        /\ accepted # NoDraft => Entered(db.canon, accepted)
    BY <1>1, AcceptedVersionSound
  <1>3. row \in ChapterRow /\ ChapterSound(db.canon, row)
    BY <1>1, <1>2 DEF ChapterRow, ChapterSound, ValidStatus
  <1> HIDE DEF row
  <1>4. /\ [db.chapter EXCEPT ![c] = row] \in [Chapter -> ChapterRow]
        /\ \A k \in Chapter : ChapterSound(db.canon, [db.chapter EXCEPT ![c] = row][k])
    BY <1>1, <1>3 DEF Sound, Database
  <1>5. QED
    BY <1>1, <1>4, ChaptersChange

LEMMA UpdateAdvances ==
    ASSUME IInv, NEW a \in Actor, NEW c \in Chapter, NEW d \in Draft \cup {NoDraft},
           NEW status \in ChapterStatus, UpdateChapter(a, c, d, status)
    PROVE  Advanced
  <1> DEFINE v == view[a]
             x == v.chapter[c]
             accepted == AcceptedVersion(v, d, x.accepted)
             row == [x EXCEPT !.draft = d, !.accepted = accepted, !.status = status]
  <1>1. /\ v # NoView /\ ValidStatus(status, accepted)
        /\ db' = [db EXCEPT !.chapter = WithChapter(v, c, row)]
        /\ Sound(db) /\ db \in Database /\ v \in Database /\ Sound(v) /\ Older(v, db)
    BY SnapshotSound DEF UpdateChapter, Close, IInv
  <1>2. x \in ChapterRow /\ ChapterSound(db.canon, x)
    BY <1>1, ChapterStillSound DEF Database
  <1>3. x.accepted \in Draft \cup {NoDraft} /\ (x.accepted # NoDraft => Entered(db.canon, x.accepted))
    BY <1>2 DEF ChapterRow, ChapterSound
  <1>4. /\ accepted \in Draft \cup {NoDraft}
        /\ accepted # NoDraft => Entered(db.canon, accepted)
    BY <1>1, <1>3, AcceptedVersionSound
  <1>5. row \in ChapterRow /\ ChapterSound(db.canon, row)
    BY <1>1, <1>2, <1>4 DEF ChapterRow, ChapterSound, ValidStatus
  <1> HIDE DEF row
  <1>6. /\ WithChapter(v, c, row) \in [Chapter -> ChapterRow]
        /\ \A k \in Chapter : ChapterSound(db.canon, WithChapter(v, c, row)[k])
    BY <1>1, <1>5, ChapterWritten DEF Sound
  <1>7. QED
    BY <1>1, <1>6, ChaptersChange

LEMMA ReorderAdvances ==
    ASSUME IInv, NEW a \in Actor, NEW volume \in SUBSET Chapter, ReorderChapters(a, volume)
    PROVE  Advanced
  <1> DEFINE v == view[a]
             chapters == [c \in Chapter |->
                 IF c \in volume THEN Flushed(c, v.chapter[c], v.chapter[c]) ELSE db.chapter[c]]
  <1>1. /\ v # NoView /\ db' = [db EXCEPT !.chapter = chapters]
        /\ Sound(db) /\ db \in Database /\ v \in Database /\ Sound(v) /\ Older(v, db)
    BY SnapshotSound DEF ReorderChapters, Close, IInv
  <1>2. ASSUME NEW c \in Chapter
        PROVE  chapters[c] \in ChapterRow /\ ChapterSound(db.canon, chapters[c])
    <2>1. CASE c \in volume
      <3>1. /\ v.chapter[c] \in ChapterRow /\ ChapterSound(db.canon, v.chapter[c])
            /\ db.chapter[c] \in ChapterRow
        BY <1>1, ChapterStillSound DEF Database
      <3>2. chapters[c] = Flushed(c, v.chapter[c], v.chapter[c])
        BY <2>1
      <3>3. QED
        BY <1>1, <3>1, <3>2, FlushedKeeps DEF ChapterSound
    <2>2. CASE c \notin volume
      BY <1>1, <2>2 DEF Sound, Database
    <2>3. QED
      BY <2>1, <2>2
  <1>3. chapters \in [Chapter -> ChapterRow]
    BY <1>2
  <1> HIDE DEF chapters
  <1>4. QED
    BY <1>1, <1>2, <1>3, ChaptersChange

-----------------------------------------------------------------------------
(* The inductive invariant *)

LEMMA InitSound == Init => IInv
  <1> SUFFICES ASSUME Init PROVE IInv
    OBVIOUS
  <1>1. /\ db.version = 1 /\ db.canon = <<>> /\ db.saved = << <<>> >>
        /\ \A d \in Draft : db.draft[d] = "absent" /\ db.patch[d] = "absent" /\ db.base[d] = 0
        /\ \A c \in Chapter : db.chapter[c].accepted = NoDraft /\ db.chapter[c].status = "absent"
    BY DEF Init
  <1>2. db \in Database
    BY DEF Init, Database, DraftStatus, PatchStatus, ChapterRow
  <1>3. History(db)
    BY <1>1 DEF History
  <1>4. Sound(db)
    BY <1>1, <1>2, <1>3 DEF Sound, DraftSound, ChapterSound
  <1>5. QED
    BY <1>4 DEF IInv, Init

\* Every operation of a session advances the database, and closes the session.
LEMMA OperationAdvances ==
    ASSUME IInv, NEW a \in Actor, EditBible(a) \/ DraftStep(a) \/ ChapterStep(a)
    PROVE  Advanced /\ Close(a)
  <1>1. CASE EditBible(a)
    BY <1>1, EditAdvances DEF EditBible
  <1>2. CASE DraftStep(a)
    <2>1. PICK d \in Draft :
            \/ \E c \in Chapter \cup {NoChapter} : Write(a, d, c)
            \/ \E o \in Draft : Revise(a, o, d) \/ ReviseByHand(a, o, d)
            \/ Reject(a, d)
            \/ Accept(a, d)
      BY <1>2 DEF DraftStep
    <2>2. CASE \E c \in Chapter \cup {NoChapter} : Write(a, d, c)
      BY <2>2, WriteAdvances DEF Write
    <2>3. CASE \E o \in Draft : Revise(a, o, d) \/ ReviseByHand(a, o, d)
      BY <2>3, ReviseAdvances DEF Revise, ReviseByHand
    <2>4. CASE Reject(a, d)
      BY <2>4, RejectAdvances DEF Reject
    <2>5. CASE Accept(a, d)
      BY <2>5, AcceptAdvances DEF Accept
    <2>6. QED
      BY <2>1, <2>2, <2>3, <2>4, <2>5
  <1>3. CASE ChapterStep(a)
    <2>1. CASE \E volume \in SUBSET Chapter : ReorderChapters(a, volume)
      BY <2>1, ReorderAdvances DEF ReorderChapters
    <2>2. CASE \E c \in Chapter, d \in Draft \cup {NoDraft}, status \in ChapterStatus :
                  CreateChapter(a, c, d, status) \/ UpdateChapter(a, c, d, status)
      BY <2>2, CreateAdvances, UpdateAdvances DEF CreateChapter, UpdateChapter
    <2>3. QED
      BY <1>3, <2>1, <2>2 DEF ChapterStep
  <1>4. QED
    BY <1>1, <1>2, <1>3

LEMMA NextSound == IInv /\ [Next]_vars => IInv'
  <1> SUFFICES ASSUME IInv, [Next]_vars PROVE IInv'
    OBVIOUS
  <1>1. Sound(db) /\ db \in Database
    BY DEF IInv, Sound
  <1>2. ASSUME NEW a \in Actor, EditBible(a) \/ DraftStep(a) \/ ChapterStep(a)
        PROVE  IInv'
    <2>1. Advanced /\ Close(a)
      BY <1>2, OperationAdvances
    <2>2. Sound(db') /\ db' \in Database /\ Older(db, db')
      BY <2>1 DEF Advanced, Sound
    <2>3. ASSUME NEW b \in Actor
          PROVE  view'[b] # NoView => Sound(view'[b]) /\ Older(view'[b], db')
      <3>1. CASE b = a
        BY <2>1, <3>1 DEF Close, IInv
      <3>2. CASE b # a
        <4>1. view'[b] = view[b]
          BY <2>1, <3>2 DEF Close, IInv
        <4>2. view[b] # NoView => Sound(view[b]) /\ Older(view[b], db) /\ view[b] \in Database
          BY SnapshotSound
        <4>3. QED
          BY <1>1, <2>2, <4>1, <4>2, OlderTransitive
      <3>3. QED
        BY <3>1, <3>2
    <2>4. view' \in [Actor -> {NoView} \cup Database]
      BY <2>1 DEF Close, IInv
    <2>5. QED
      BY <2>2, <2>3, <2>4 DEF IInv
  <1>3. ASSUME NEW a \in Actor, Begin(a)
        PROVE  IInv'
    BY <1>1, <1>3, OlderReflexive DEF Begin, IInv
  <1>4. ASSUME NEW a \in Actor, Rollback(a)
        PROVE  IInv'
    BY <1>4 DEF Rollback, Close, IInv
  <1>5. CASE UNCHANGED vars
    BY <1>5 DEF vars, IInv, Sound
  <1>6. QED
    BY <1>2, <1>3, <1>4, <1>5 DEF Next

LEMMA AlwaysSound == Spec => []IInv
  BY InitSound, NextSound, PTL DEF Spec

-----------------------------------------------------------------------------
(* Theorems *)

\* Rows and snapshots are well formed, and no patch is based on a version to come: create_patch
\* takes the version of its own snapshot.
THEOREM TypeCorrect == Spec => []TypeOK
  <1>1. IInv => TypeOK
    BY DEF IInv, Sound, DraftSound, TypeOK
  <1>2. QED
    BY <1>1, AlwaysSound, PTL

\* However many sessions write, the versions of the bible form one history without gaps or
\* lost updates, because update_versioned compares the version it read.
THEOREM HistoryNeverLost == Spec => []HistoryKept
  <1>1. IInv => HistoryKept
    BY DEF IInv, Sound, History, HistoryKept, Entry
  <1>2. QED
    BY <1>1, AlwaysSound, PTL

\* However stale the rows that sessions write back, nothing counts as accepted or is exported
\* that accept_patch did not bring into the canon.
THEOREM OnlyCanonAccepted == Spec => []AcceptedInCanon
  <1>1. ASSUME IInv PROVE AcceptedInCanon
    <2>1. \A d : Entered(db.canon, d) <=> InCanon(d)
      BY DEF Entered, InCanon
    <2>2. \A d \in Draft : DraftSound(db, d)
      BY <1>1 DEF IInv, Sound
    <2>3. \A c \in Chapter : ChapterSound(db.canon, db.chapter[c])
      BY <1>1 DEF IInv, Sound
    <2>4. QED
      BY <2>1, <2>2, <2>3 DEF AcceptedInCanon, DraftSound, ChapterSound, Exported
  <1>2. QED
    BY <1>1, AlwaysSound, PTL

-----------------------------------------------------------------------------
(* Canon implements CanonLog *)

LEMMA StepLogged == IInv /\ [Next]_vars => [Log!LogNext]_(Log!logVars)
  <1> SUFFICES ASSUME IInv, [Next]_vars PROVE [Log!LogNext]_(Log!logVars)
    OBVIOUS
  <1>1. ASSUME NEW a \in Actor, EditBible(a) \/ DraftStep(a) \/ ChapterStep(a)
        PROVE  [Log!LogNext]_(Log!logVars)
    BY <1>1, OperationAdvances DEF Advanced
  <1>2. CASE UNCHANGED db
    BY <1>2, NothingLogged
  <1>3. QED
    BY <1>1, <1>2 DEF Next, Begin, Rollback, vars

\* The sessions of any number of requests and workers, with the rows they overwrite, keep the
\* promise of CanonLog: one linear history, each draft in it at most once and on the version
\* it was written against.
THEOREM Refinement == Spec => ImplementsCanonLog
  <1>1. Init => Log!LogInit
    BY DEF Init, Log!LogInit
  <1>2. QED
    BY <1>1, StepLogged, AlwaysSound, PTL DEF Spec, ImplementsCanonLog, Log!LogSpec

-----------------------------------------------------------------------------
(* What the history of CanonLog says of its entries, and so of the bible's *)

\* Each kind of step of CanonLog leaves the entries where they are and adds one at most.
OnBase(log, base) == \A i \in DOMAIN log, d \in Draft : log[i] = d => base[d] = i

Kept(log, base, newLog, newBase) ==
    /\ \A i \in DOMAIN log : i \in DOMAIN newLog /\ newLog[i] = log[i]
    /\ \A d \in Draft : base[d] # 0 => newBase[d] = base[d]

LEMMA AppendedOnBase ==
    ASSUME NEW log \in Seq(Entry), NEW base, OnBase(log, base), NEW e,
           e \in Entry, e \in Draft => base[e] = Len(log) + 1
    PROVE  /\ OnBase(Append(log, e), base)
           /\ Kept(log, base, Append(log, e), base)
  <1>1. /\ Len(Append(log, e)) = Len(log) + 1
        /\ DOMAIN Append(log, e) = 1 .. Len(log) + 1
        /\ DOMAIN log = 1 .. Len(log)
        /\ Len(log) \in Nat
        /\ \A i \in 1 .. Len(log) : Append(log, e)[i] = log[i]
        /\ Append(log, e)[Len(log) + 1] = e
    OBVIOUS
  <1>2. \A i \in 1 .. Len(log) + 1 : i \in 1 .. Len(log) \/ i = Len(log) + 1
    BY <1>1
  <1>3. ASSUME NEW i \in DOMAIN Append(log, e), NEW d \in Draft, Append(log, e)[i] = d
        PROVE  base[d] = i
    <2>1. CASE i \in 1 .. Len(log)
      BY <1>1, <1>3, <2>1 DEF OnBase
    <2>2. CASE i = Len(log) + 1
      BY <1>1, <1>3, <2>2
    <2>3. QED
      BY <1>1, <1>2, <1>3, <2>1, <2>2
  <1>4. \A i \in 1 .. Len(log) : i \in 1 .. Len(log) + 1
    BY <1>1
  <1>5. QED
    BY <1>1, <1>3, <1>4 DEF OnBase, Kept

LEMMA ProposedOnBase ==
    ASSUME NEW log \in Seq(Entry), NEW base \in [Draft -> Nat], OnBase(log, base),
           NEW d \in Draft, base[d] = 0, NEW v \in 1 .. Len(log) + 1
    PROVE  /\ OnBase(log, [base EXCEPT ![d] = v])
           /\ Kept(log, base, log, [base EXCEPT ![d] = v])
  <1>1. DOMAIN log = 1 .. Len(log) /\ Len(log) \in Nat
    OBVIOUS
  <1>2. \A i \in DOMAIN log : i # 0
    BY <1>1
  <1>3. \A x \in Draft : base[x] # 0 => [base EXCEPT ![d] = v][x] = base[x]
    OBVIOUS
  <1>4. \A i \in DOMAIN log, x \in Draft : log[i] = x => base[x] # 0
    BY <1>2 DEF OnBase
  <1>5. QED
    BY <1>3, <1>4 DEF OnBase, Kept

CanonOnBase == OnBase(db.canon, db.base)

CanonKept == Kept(db.canon, db.base, db'.canon, db'.base)

LEMMA StepKeepsEntries ==
    ASSUME IInv, CanonOnBase, [Next]_vars
    PROVE  CanonOnBase' /\ CanonKept
  <1>1. db.canon \in Seq(Entry) /\ db.base \in [Draft -> Nat]
    BY DEF IInv, Sound, Database, Entry
  <1>2. OnBase(db.canon, db.base)
    BY DEF CanonOnBase
  <1>3. SUFFICES OnBase(db'.canon, db'.base) /\ Kept(db.canon, db.base, db'.canon, db'.base)
    BY DEF CanonOnBase, CanonKept
  <1>4. CASE Log!EditCanon
    <2>1. db'.canon = Append(db.canon, Edit) /\ db'.base = db.base
      BY <1>4 DEF Log!EditCanon
    <2>2. Edit \in Entry /\ Edit \notin Draft
      BY NamesAssumption DEF Entry
    <2>3. QED
      BY <1>1, <1>2, <2>1, <2>2, AppendedOnBase
  <1>5. ASSUME NEW d \in Draft, Log!Propose(d)
        PROVE  OnBase(db'.canon, db'.base) /\ Kept(db.canon, db.base, db'.canon, db'.base)
    <2>1. PICK v \in 1 .. Len(db.canon) + 1 : db'.base = [db.base EXCEPT ![d] = v]
      BY <1>5 DEF Log!Propose
    <2>2. db'.canon = db.canon /\ db.base[d] = 0
      BY <1>5 DEF Log!Propose
    <2>3. /\ OnBase(db.canon, [db.base EXCEPT ![d] = v])
          /\ Kept(db.canon, db.base, db.canon, [db.base EXCEPT ![d] = v])
      <3>1. PICK log \in Seq(Entry), base \in [Draft -> Nat] : log = db.canon /\ base = db.base
        BY <1>1
      <3>2. OnBase(log, base) /\ base[d] = 0 /\ v \in 1 .. Len(log) + 1
        BY <1>2, <2>2, <3>1
      <3>3. /\ OnBase(log, [base EXCEPT ![d] = v])
            /\ Kept(log, base, log, [base EXCEPT ![d] = v])
        BY <3>2, ProposedOnBase
      <3>. QED
        BY <3>1, <3>3
    <2>4. QED
      BY <2>1, <2>2, <2>3
  <1>6. ASSUME NEW d \in Draft, Log!Enter(d)
        PROVE  OnBase(db'.canon, db'.base) /\ Kept(db.canon, db.base, db'.canon, db'.base)
    <2>1. /\ db'.canon = Append(db.canon, d) /\ db'.base = db.base
          /\ db.base[d] = Len(db.canon) + 1
      BY <1>6 DEF Log!Enter
    <2>2. d \in Entry
      BY DEF Entry
    <2>3. QED
      BY <1>1, <1>2, <2>1, <2>2, AppendedOnBase
  <1>7. CASE UNCHANGED Log!logVars
    BY <1>2, <1>7 DEF Log!logVars, OnBase, Kept
  <1>8. QED
    BY <1>4, <1>5, <1>6, <1>7, StepLogged DEF Log!LogNext

\* Whatever sessions do at the same time, a draft stands in the bible at the version its patch
\* was based on, and therefore once.
THEOREM DraftsEnterOnBase == Spec => []Log!EnteredOnBase
  <1>1. Init => CanonOnBase
    BY DEF Init, CanonOnBase, OnBase
  <1>2. IInv /\ CanonOnBase /\ [Next]_vars => CanonOnBase'
    BY StepKeepsEntries
  <1>3. CanonOnBase => Log!EnteredOnBase
    BY DEF CanonOnBase, OnBase, Log!EnteredOnBase
  <1>4. QED
    BY <1>1, <1>2, <1>3, AlwaysSound, PTL DEF Spec

\* No session, however stale its snapshot, rewrites an entry of the bible's history or the
\* version a draft was written against.
THEOREM EntriesNeverRewritten == Spec => Log!NeverRewritten
  <1>1. Init => CanonOnBase
    BY DEF Init, CanonOnBase, OnBase
  <1>2. IInv /\ CanonOnBase /\ [Next]_vars => CanonOnBase'
    BY StepKeepsEntries
  <1>3. IInv /\ CanonOnBase /\ [Next]_vars => [Log!EntriesKept]_(Log!logVars)
    BY StepKeepsEntries DEF CanonKept, Kept, Log!EntriesKept
  <1>4. QED
    BY <1>1, <1>2, <1>3, AlwaysSound, PTL DEF Spec, Log!NeverRewritten

-----------------------------------------------------------------------------
(***************************************************************************)
(* One session at a time.  Its snapshot is what is committed, so the row it *)
(* writes back overwrites nothing; and the four places that record a        *)
(* decision on a draft, which every operation writes one by one, agree.     *)
(***************************************************************************)

\* Sessions follow one another.
OneSession == \A a, b \in Actor : a = b

\* The rows that record a decision on a draft.
DraftDecided(D, d) ==
    /\ D.draft[d] = "accepted" <=> Entered(D.canon, d)
    /\ D.patch[d] = "accepted" <=> Entered(D.canon, d)
    /\ D.patch[d] = "pending" <=> D.draft[d] = "draft"
    /\ D.draft[d] = "absent" => D.patch[d] = "absent"

\* The columns of a chapter; and nothing was accepted for one that does not exist.
ChapterAgrees(x) ==
    /\ x.draftColumn = x.draft /\ x.acceptedColumn = x.accepted
    /\ x.status = "absent" => x.accepted = NoDraft

Agree(D) ==
    /\ \A d \in Draft : DraftDecided(D, d)
    /\ \A c \in Chapter : ChapterAgrees(D.chapter[c])

\* A session reads what is committed.
UpToDate == \A a \in Actor : view[a] # NoView => view[a] = db

SerialInv == IInv /\ UpToDate /\ Agree(db)

DecisionsStay(D, E) ==
    \A d \in Draft : D.patch[d] \in {"accepted", "rejected"} => E.patch[d] = D.patch[d]

ExportsStay(D, E) ==
    \A c \in Chapter : E.chapter[c].accepted # D.chapter[c].accepted =>
        \E d \in Draft : E.chapter[c].accepted = d /\ E.draft[d] = "accepted"

Orderly == Agree(db') /\ DecisionsStay(db, db') /\ ExportsStay(db, db')

LEMMA SerialSnapshot ==
    ASSUME SerialInv, NEW a \in Actor, view[a] # NoView
    PROVE  view[a] = db /\ db \in Database /\ Sound(db) /\ Agree(db)
  BY DEF SerialInv, UpToDate, IInv, Sound

\* With an up to date snapshot a flush leaves the columns as the payload.
LEMMA ChapterPut ==
    ASSUME db \in Database, Agree(db), NEW c \in Chapter, NEW row \in ChapterRow, row.status # "absent"
    PROVE  \A k \in Chapter :
              /\ ChapterAgrees(WithChapter(db, c, row)[k])
              /\ WithChapter(db, c, row)[k].accepted =
                     IF k = c THEN row.accepted ELSE db.chapter[k].accepted
  <1>1. PICK n : n = Flushed(c, db.chapter[c], row)
    OBVIOUS
  <1>2. n.accepted = row.accepted /\ n.status = row.status
    BY <1>1, FlushedKeeps
  <1>3. n.draftColumn = n.draft /\ n.acceptedColumn = n.accepted
    BY <1>1 DEF Flushed, ChapterRow
  <1>4. WithChapter(db, c, row) = [db.chapter EXCEPT ![c] = n] /\ db.chapter \in [Chapter -> ChapterRow]
    BY <1>1 DEF WithChapter, Database
  <1>. QED
    BY <1>2, <1>3, <1>4 DEF ChapterAgrees, Agree

LEMMA AttachedAgrees ==
    ASSUME db \in Database, Agree(db), NEW d \in Draft, NEW c \in Chapter \cup {NoChapter}
    PROVE  \A k \in Chapter : /\ ChapterAgrees(ChaptersWithDraft(db, c, d)[k])
                              /\ ChaptersWithDraft(db, c, d)[k].accepted = db.chapter[k].accepted
  <1>1. CASE c = NoChapter
    BY <1>1 DEF ChaptersWithDraft, Agree
  <1>2. CASE c # NoChapter
    <2>1. PICK row : row = Attached(db, c, d)
      OBVIOUS
    <2>2. c \in Chapter /\ db.chapter[c] \in ChapterRow
      BY <1>2 DEF Database
    <2>3. row \in ChapterRow /\ row.status # "absent" /\ row.accepted = db.chapter[c].accepted
      BY <2>1, <2>2 DEF Attached, ChapterRow, ChapterStatus
    <2>4. ChaptersWithDraft(db, c, d) = WithChapter(db, c, row)
      BY <1>2, <2>1 DEF ChaptersWithDraft
    <2>. QED
      BY <2>2, <2>3, <2>4, ChapterPut
  <1>. QED
    BY <1>1, <1>2

\* A session that leaves the canon alone, and no chapter with another accepted version.
LEMMA RowsOrderly ==
    ASSUME Agree(db), db'.canon = db.canon,
           \A k \in Draft : DraftDecided(db', k),
           DecisionsStay(db, db'),
           \A k \in Chapter : /\ ChapterAgrees(db'.chapter[k])
                              /\ db'.chapter[k].accepted = db.chapter[k].accepted
    PROVE  Orderly
  BY DEF Orderly, Agree, ExportsStay

LEMMA WriteOrderly ==
    ASSUME SerialInv, NEW a \in Actor, NEW d \in Draft, NEW c \in Chapter \cup {NoChapter},
           Write(a, d, c)
    PROVE  Orderly
  <1>1. view[a] = db /\ db \in Database /\ Agree(db) /\ db.draft[d] = "absent"
    BY SerialSnapshot DEF Write, Close
  <1>2. /\ db'.canon = db.canon
        /\ db'.draft = [db.draft EXCEPT ![d] = "draft"]
        /\ db'.patch = [db.patch EXCEPT ![d] = "pending"]
        /\ db'.chapter = ChaptersWithDraft(db, c, d)
    BY <1>1 DEF Write, Database
  <1>3. db.patch[d] = "absent" /\ ~Entered(db.canon, d)
    BY <1>1 DEF Agree, DraftDecided
  <1>4. \A k \in Draft : DraftDecided(db', k)
    BY <1>1, <1>2, <1>3 DEF Agree, DraftDecided, Database
  <1>5. DecisionsStay(db, db')
    BY <1>1, <1>2, <1>3 DEF DecisionsStay, Database
  <1>. QED
    BY <1>1, <1>2, <1>4, <1>5, AttachedAgrees, RowsOrderly

LEMMA RevisionOrderly ==
    ASSUME db \in Database, Agree(db), NEW o \in Draft, NEW d \in Draft,
           NEW c \in Chapter \cup {NoChapter}, NEW withdrawn \in BOOLEAN,
           Known(db, o), withdrawn <=> db.draft[o] = "draft",
           StoreRevision(db, o, d, c, withdrawn)
    PROVE  Orderly
  <1>1. db.draft[d] = "absent" /\ o # d
    BY DEF StoreRevision, Known
  <1>2. PICK gone, out : /\ gone = IF db.draft[o] = "draft" THEN "superseded" ELSE db.draft[o]
                         /\ out = IF withdrawn THEN "rejected" ELSE db.patch[o]
    OBVIOUS
  <1>3. /\ db'.canon = db.canon
        /\ db'.draft = [db.draft EXCEPT ![d] = "draft", ![o] = gone]
        /\ db'.patch = [db.patch EXCEPT ![d] = "pending", ![o] = out]
        /\ db'.chapter = ChaptersWithDraft(db, c, d)
    BY <1>2 DEF StoreRevision, Database
  <1>4. /\ db'.draft[d] = "draft" /\ db'.patch[d] = "pending"
        /\ db'.draft[o] = gone /\ db'.patch[o] = out
        /\ \A k \in Draft \ {d, o} : db'.draft[k] = db.draft[k] /\ db'.patch[k] = db.patch[k]
    BY <1>1, <1>3 DEF Database
  <1>5. DraftDecided(db', d) /\ DraftDecided(db', o)
    BY <1>1, <1>2, <1>3, <1>4 DEF Agree, DraftDecided
  <1>6. \A k \in Draft : DraftDecided(db', k)
    BY <1>3, <1>4, <1>5 DEF Agree, DraftDecided
  <1>7. DecisionsStay(db, db')
    BY <1>1, <1>2, <1>4 DEF DecisionsStay, Agree, DraftDecided
  <1>. QED
    BY <1>3, <1>6, <1>7, AttachedAgrees, RowsOrderly

LEMMA ReviseOrderly ==
    ASSUME SerialInv, NEW a \in Actor, NEW o \in Draft, NEW d \in Draft,
           Revise(a, o, d) \/ ReviseByHand(a, o, d)
    PROVE  Orderly
  <1>1. view[a] = db /\ db \in Database /\ Agree(db) /\ Known(db, o)
    BY SerialSnapshot DEF Revise, ReviseByHand, Close, Known
  <1>2. \E c \in HomeOf(db, o), withdrawn \in BOOLEAN :
           (withdrawn <=> db.draft[o] = "draft") /\ StoreRevision(db, o, d, c, withdrawn)
    <2>1. db.patch[o] = "pending" <=> db.draft[o] = "draft"
      BY <1>1 DEF Agree, DraftDecided
    <2>2. \E c \in HomeOf(db, o), withdrawn \in {db.patch[o] = "pending",
                                                 db.draft[o] = "draft" /\ db.patch[o] = "pending"} :
             StoreRevision(db, o, d, c, withdrawn)
      BY <1>1 DEF Revise, ReviseByHand
    <2>. QED
      BY <2>1, <2>2
  <1>3. HomeOf(db, o) \subseteq Chapter \cup {NoChapter}
    BY <1>1, HomeTyped
  <1>. QED
    BY <1>1, <1>2, <1>3, RevisionOrderly

LEMMA RejectOrderly ==
    ASSUME SerialInv, NEW a \in Actor, NEW d \in Draft, Reject(a, d)
    PROVE  Orderly
  <1> DEFINE FallBack(x) == [x EXCEPT !.draft = x.accepted,
                                 !.status = IF x.accepted # NoDraft THEN "accepted" ELSE "drafting"]
             chapters(c) == IF c # NoChapter /\ db.chapter[c].draft = d
                            THEN WithChapter(db, c, FallBack(db.chapter[c])) ELSE db.chapter
  <1>1. view[a] = db /\ db \in Database /\ Agree(db) /\ db.draft[d] \in {"draft", "superseded"}
    BY SerialSnapshot DEF Reject, Close
  <1>2. PICK c \in FoundByDraft(db, d) :
          db' = [db EXCEPT !.draft[d] = "rejected",
                           !.patch[d] = IF db.patch[d] = "pending" THEN "rejected" ELSE @,
                           !.chapter = chapters(c)]
    BY <1>1 DEF Reject, Database
  <1>3. \A k \in Chapter : /\ ChapterAgrees(chapters(c)[k])
                           /\ chapters(c)[k].accepted = db.chapter[k].accepted
    <2>1. CASE c # NoChapter /\ db.chapter[c].draft = d
      <3>0. c \in Chapter \cup {NoChapter}
        BY <1>1, <1>2, HomeTyped
      <3>1. c \in Chapter /\ db.chapter[c] \in ChapterRow
        BY <1>1, <2>1, <3>0 DEF Database
      <3>2. PICK row : row = FallBack(db.chapter[c])
        OBVIOUS
      <3>3. row \in ChapterRow /\ row.status # "absent" /\ row.accepted = db.chapter[c].accepted
        BY <3>1, <3>2 DEF ChapterRow, ChapterStatus
      <3>4. chapters(c) = WithChapter(db, c, row)
        BY <2>1, <3>2
      <3>. QED
        BY <1>1, <3>1, <3>3, <3>4, ChapterPut
    <2>2. CASE ~(c # NoChapter /\ db.chapter[c].draft = d)
      BY <1>1, <2>2 DEF Agree
    <2>. QED
      BY <2>1, <2>2
  <1> HIDE DEF chapters
  <1>4. /\ db'.canon = db.canon
        /\ db'.draft = [db.draft EXCEPT ![d] = "rejected"]
        /\ db'.patch = [db.patch EXCEPT ![d] = IF db.patch[d] = "pending" THEN "rejected" ELSE @]
        /\ db'.chapter = chapters(c)
    BY <1>1, <1>2 DEF Database
  <1>5. \A k \in Draft : DraftDecided(db', k)
    BY <1>1, <1>4 DEF Agree, DraftDecided, Database
  <1>6. DecisionsStay(db, db')
    BY <1>1, <1>4 DEF DecisionsStay, Database
  <1>. QED
    BY <1>1, <1>3, <1>4, <1>5, <1>6, RowsOrderly

LEMMA AppendEntersOnly ==
    ASSUME NEW s \in Seq(Entry), NEW e \in Entry, NEW d, Entered(Append(s, e), d)
    PROVE  Entered(s, d) \/ d = e
  <1>1. PICK i \in DOMAIN Append(s, e) : Append(s, e)[i] = d
    BY DEF Entered
  <1>2. i \in DOMAIN s \/ i = Len(s) + 1
    OBVIOUS
  <1>3. CASE i \in DOMAIN s
    BY <1>1, <1>3 DEF Entered
  <1>4. CASE i = Len(s) + 1
    BY <1>1, <1>4
  <1>. QED
    BY <1>2, <1>3, <1>4

LEMMA EditOrderly ==
    ASSUME SerialInv, NEW a \in Actor, EditBible(a)
    PROVE  Orderly
  <1>1. view[a] = db /\ db \in Database /\ Agree(db)
    BY SerialSnapshot DEF EditBible, Close
  <1>2. /\ db'.canon = Append(db.canon, Edit) /\ db'.draft = db.draft /\ db'.patch = db.patch
        /\ db'.chapter = db.chapter
    BY <1>1 DEF EditBible, Database
  <1>3. db.canon \in Seq(Entry) /\ Edit \in Entry
    BY <1>1 DEF Database, Entry
  <1>4. \A d \in Draft : Entered(db'.canon, d) <=> Entered(db.canon, d)
    BY <1>2, <1>3, AppendEnters, AppendEntersOnly, NamesAssumption
  <1>. QED
    BY <1>1, <1>2, <1>4 DEF Orderly, Agree, DraftDecided, DecisionsStay, ExportsStay

LEMMA AcceptOrderly ==
    ASSUME SerialInv, NEW a \in Actor, NEW d \in Draft, Accept(a, d)
    PROVE  Orderly
  <1> DEFINE canon == Append(db.canon, d)
             Shown(c) == [db.chapter[c] EXCEPT !.accepted = d, !.status = "accepted"]
             chapters(c) == IF c # NoChapter /\ db.chapter[c].draft = d
                            THEN WithChapter(db, c, Shown(c)) ELSE db.chapter
  <1>1. view[a] = db /\ db \in Database /\ Agree(db) /\ db.patch[d] = "pending"
    BY SerialSnapshot DEF Accept, Close, Acceptable
  <1>2. PICK c \in FoundByDraft(db, d) :
          db' = [db EXCEPT !.version = db.version + 1,
                           !.canon = canon,
                           !.saved = Append(@, canon),
                           !.patch[d] = "accepted",
                           !.draft[d] = "accepted",
                           !.chapter = chapters(c)]
    BY <1>1, ZenonT(60) DEF Accept
  <1>3. \A k \in Chapter : /\ ChapterAgrees(chapters(c)[k])
                           /\ chapters(c)[k].accepted \in {d, db.chapter[k].accepted}
    <2>1. CASE c # NoChapter /\ db.chapter[c].draft = d
      <3>0. c \in Chapter \cup {NoChapter}
        BY <1>1, <1>2, HomeTyped
      <3>1. c \in Chapter /\ db.chapter[c] \in ChapterRow
        BY <1>1, <2>1, <3>0 DEF Database
      <3>2. PICK row : row = Shown(c)
        OBVIOUS
      <3>3. row \in ChapterRow /\ row.status # "absent" /\ row.accepted = d
        BY <3>1, <3>2 DEF ChapterRow, ChapterStatus
      <3>4. chapters(c) = WithChapter(db, c, row)
        BY <2>1, <3>2
      <3>. QED
        BY <1>1, <3>1, <3>3, <3>4, ChapterPut
    <2>2. CASE ~(c # NoChapter /\ db.chapter[c].draft = d)
      BY <1>1, <2>2 DEF Agree
    <2>. QED
      BY <2>1, <2>2
  <1>4. /\ db.canon \in Seq(Entry) /\ d \in Entry
    BY <1>1 DEF Database, Entry
  <1>5. \A k \in Draft : Entered(canon, k) <=> Entered(db.canon, k) \/ k = d
    BY <1>4, AppendEnters, AppendEntersOnly
  <1> HIDE DEF chapters, canon
  <1>6. /\ db'.canon = canon
        /\ db'.draft = [db.draft EXCEPT ![d] = "accepted"]
        /\ db'.patch = [db.patch EXCEPT ![d] = "accepted"]
        /\ db'.chapter = chapters(c)
    BY <1>1, <1>2 DEF Database
  <1>7. \A k \in Draft : DraftDecided(db', k)
    BY <1>1, <1>5, <1>6 DEF Agree, DraftDecided, Database
  <1>8. DecisionsStay(db, db')
    BY <1>1, <1>6 DEF DecisionsStay, Database
  <1>9. ExportsStay(db, db')
    BY <1>1, <1>3, <1>6 DEF ExportsStay, Database
  <1>. QED
    BY <1>3, <1>6, <1>7, <1>8, <1>9 DEF Orderly, Agree

\* A session that changes chapters only.
LEMMA ChaptersOrderly ==
    ASSUME db \in Database, Agree(db), NEW chapters, db' = [db EXCEPT !.chapter = chapters],
           \A k \in Chapter :
              /\ ChapterAgrees(chapters[k])
              /\ chapters[k].accepted # db.chapter[k].accepted =>
                     \E d \in Draft : chapters[k].accepted = d /\ db.draft[d] = "accepted"
    PROVE  Orderly
  <1>1. /\ db'.canon = db.canon /\ db'.draft = db.draft /\ db'.patch = db.patch
        /\ db'.chapter = chapters
    BY DEF Database
  <1>. QED
    BY <1>1 DEF Orderly, Agree, DraftDecided, DecisionsStay, ExportsStay

LEMMA CreateOrderly ==
    ASSUME SerialInv, NEW a \in Actor, NEW c \in Chapter, NEW d \in Draft \cup {NoDraft},
           NEW status \in ChapterStatus, CreateChapter(a, c, d, status)
    PROVE  Orderly
  <1>1. PICK accepted, row :
           /\ accepted = AcceptedVersion(db, d, NoDraft)
           /\ row = [status |-> status, draft |-> d, accepted |-> accepted,
                     draftColumn |-> d, acceptedColumn |-> accepted]
    OBVIOUS
  <1>2. /\ view[a] = db /\ db \in Database /\ Agree(db) /\ db.chapter[c].status = "absent"
        /\ db' = [db EXCEPT !.chapter[c] = row]
    BY <1>1, SerialSnapshot DEF CreateChapter, Close, Exists
  <1>3. ChapterAgrees(row)
    BY <1>1 DEF ChapterAgrees, ChapterStatus
  <1>4. db.chapter[c].accepted = NoDraft
    BY <1>2 DEF Agree, ChapterAgrees
  <1>5. row.accepted # NoDraft => row.accepted \in Draft /\ db.draft[row.accepted] = "accepted"
    BY <1>1, NamesAssumption DEF AcceptedVersion
  <1>6. PICK chapters : chapters = [db.chapter EXCEPT ![c] = row]
    OBVIOUS
  <1>7. db' = [db EXCEPT !.chapter = chapters]
    BY <1>2, <1>6
  <1>8. \A k \in Chapter :
           /\ ChapterAgrees(chapters[k])
           /\ chapters[k].accepted # db.chapter[k].accepted =>
                  \E e \in Draft : chapters[k].accepted = e /\ db.draft[e] = "accepted"
    BY <1>2, <1>3, <1>4, <1>5, <1>6 DEF Agree, Database
  <1>. QED
    BY <1>2, <1>7, <1>8, ChaptersOrderly

LEMMA UpdateOrderly ==
    ASSUME SerialInv, NEW a \in Actor, NEW c \in Chapter, NEW d \in Draft \cup {NoDraft},
           NEW status \in ChapterStatus, UpdateChapter(a, c, d, status)
    PROVE  Orderly
  <1>1. PICK accepted, row :
           /\ accepted = AcceptedVersion(db, d, db.chapter[c].accepted)
           /\ row = [db.chapter[c] EXCEPT !.draft = d, !.accepted = accepted, !.status = status]
    OBVIOUS
  <1>2. /\ view[a] = db /\ db \in Database /\ Agree(db)
        /\ db' = [db EXCEPT !.chapter = WithChapter(db, c, row)]
    BY <1>1, SerialSnapshot DEF UpdateChapter, Close
  <1>3. db.chapter[c] \in ChapterRow
    BY <1>2 DEF Database
  <1>4. accepted \in Draft \cup {NoDraft}
    BY <1>1, <1>3 DEF AcceptedVersion, ChapterRow
  <1>5. row \in ChapterRow /\ row.status # "absent" /\ row.accepted = accepted
    BY <1>1, <1>3, <1>4 DEF ChapterRow, ChapterStatus
  <1>6. accepted # db.chapter[c].accepted => accepted \in Draft /\ db.draft[accepted] = "accepted"
    BY <1>1 DEF AcceptedVersion
  <1>7. \A k \in Chapter :
           /\ ChapterAgrees(WithChapter(db, c, row)[k])
           /\ WithChapter(db, c, row)[k].accepted # db.chapter[k].accepted =>
                  \E e \in Draft : /\ WithChapter(db, c, row)[k].accepted = e
                                   /\ db.draft[e] = "accepted"
    BY <1>2, <1>5, <1>6, ChapterPut
  <1>. QED
    BY <1>2, <1>7, ChaptersOrderly

LEMMA ReorderOrderly ==
    ASSUME SerialInv, NEW a \in Actor, NEW volume \in SUBSET Chapter, ReorderChapters(a, volume)
    PROVE  Orderly
  <1>1. PICK chapters : chapters = [c \in Chapter |->
           IF c \in volume THEN Flushed(c, db.chapter[c], db.chapter[c]) ELSE db.chapter[c]]
    OBVIOUS
  <1>2. view[a] = db /\ db \in Database /\ Agree(db) /\ db' = [db EXCEPT !.chapter = chapters]
    BY <1>1, SerialSnapshot DEF ReorderChapters, Close
  <1>3. ASSUME NEW c \in Chapter
        PROVE  ChapterAgrees(chapters[c]) /\ chapters[c].accepted = db.chapter[c].accepted
    <2>1. ChapterAgrees(db.chapter[c]) /\ db.chapter[c] \in ChapterRow
      BY <1>2 DEF Agree, Database
    <2>2. PICK n : n = Flushed(c, db.chapter[c], db.chapter[c])
      OBVIOUS
    <2>3. /\ n.draftColumn = n.draft /\ n.acceptedColumn = n.accepted
          /\ n.accepted = db.chapter[c].accepted /\ n.status = db.chapter[c].status
      BY <2>1, <2>2 DEF Flushed, ChapterRow
    <2>. QED
      BY <1>1, <2>1, <2>2, <2>3 DEF ChapterAgrees
  <1>. QED
    BY <1>2, <1>3, ChaptersOrderly

LEMMA OperationOrderly ==
    ASSUME SerialInv, NEW a \in Actor, EditBible(a) \/ DraftStep(a) \/ ChapterStep(a)
    PROVE  Orderly
  <1>1. CASE EditBible(a)
    BY <1>1, EditOrderly
  <1>2. CASE DraftStep(a)
    <2>1. PICK d \in Draft :
            \/ \E c \in Chapter \cup {NoChapter} : Write(a, d, c)
            \/ \E o \in Draft : Revise(a, o, d) \/ ReviseByHand(a, o, d)
            \/ Reject(a, d)
            \/ Accept(a, d)
      BY <1>2 DEF DraftStep
    <2>2. CASE \E c \in Chapter \cup {NoChapter} : Write(a, d, c)
      BY <2>2, WriteOrderly
    <2>3. CASE \E o \in Draft : Revise(a, o, d) \/ ReviseByHand(a, o, d)
      BY <2>3, ReviseOrderly
    <2>4. CASE Reject(a, d)
      BY <2>4, RejectOrderly
    <2>5. CASE Accept(a, d)
      BY <2>5, AcceptOrderly
    <2>. QED
      BY <2>1, <2>2, <2>3, <2>4, <2>5
  <1>3. CASE ChapterStep(a)
    BY <1>3, CreateOrderly, UpdateOrderly, ReorderOrderly DEF ChapterStep
  <1>. QED
    BY <1>1, <1>2, <1>3

LEMMA SerialStep ==
    ASSUME OneSession, SerialInv, [Next]_vars
    PROVE  SerialInv' /\ DecisionsStay(db, db') /\ ExportsStay(db, db')
  <1>1. IInv'
    BY NextSound DEF SerialInv
  <1>2. ASSUME db' = db
        PROVE  Agree(db') /\ DecisionsStay(db, db') /\ ExportsStay(db, db')
    BY <1>2 DEF SerialInv, DecisionsStay, ExportsStay
  <1>3. ASSUME NEW a \in Actor, EditBible(a) \/ DraftStep(a) \/ ChapterStep(a)
        PROVE  SerialInv' /\ DecisionsStay(db, db') /\ ExportsStay(db, db')
    <2>1. Orderly /\ Close(a)
      BY <1>3, OperationOrderly, OperationAdvances DEF SerialInv
    <2>2. \A b \in Actor : view'[b] = NoView
      BY <2>1 DEF OneSession, Close, SerialInv, IInv
    <2>. QED
      BY <1>1, <2>1, <2>2 DEF Orderly, SerialInv, UpToDate
  <1>4. ASSUME NEW a \in Actor, Begin(a)
        PROVE  SerialInv' /\ DecisionsStay(db, db') /\ ExportsStay(db, db')
    <2>1. db' = db /\ \A b \in Actor : view'[b] = db
      BY <1>4 DEF OneSession, Begin, SerialInv, IInv
    <2>. QED
      BY <1>1, <1>2, <2>1 DEF SerialInv, UpToDate
  <1>5. ASSUME NEW a \in Actor, Rollback(a)
        PROVE  SerialInv' /\ DecisionsStay(db, db') /\ ExportsStay(db, db')
    <2>1. db' = db /\ \A b \in Actor : view'[b] = NoView
      BY <1>5 DEF OneSession, Rollback, Close, SerialInv, IInv
    <2>. QED
      BY <1>1, <1>2, <2>1 DEF SerialInv, UpToDate
  <1>6. CASE UNCHANGED vars
    <2>1. db' = db /\ view' = view
      BY <1>6 DEF vars
    <2>. QED
      BY <1>1, <1>2, <2>1 DEF SerialInv, UpToDate
  <1>. QED
    BY <1>3, <1>4, <1>5, <1>6 DEF Next

LEMMA InitSerial == Init => SerialInv
  <1> SUFFICES ASSUME Init PROVE SerialInv
    OBVIOUS
  <1>1. /\ db.canon = <<>>
        /\ \A d \in Draft : db.draft[d] = "absent" /\ db.patch[d] = "absent"
        /\ \A c \in Chapter : /\ db.chapter[c].draft = NoDraft /\ db.chapter[c].accepted = NoDraft
                              /\ db.chapter[c].draftColumn = NoDraft
                              /\ db.chapter[c].acceptedColumn = NoDraft
        /\ \A a \in Actor : view[a] = NoView
    BY DEF Init
  <1>2. \A d : ~Entered(<<>>, d)
    BY DEF Entered
  <1>3. Agree(db)
    BY <1>1, <1>2 DEF Agree, DraftDecided, ChapterAgrees
  <1>. QED
    BY <1>1, <1>3, InitSound DEF SerialInv, UpToDate

-----------------------------------------------------------------------------

LEMMA AlwaysSerial ==
    ASSUME OneSession
    PROVE  Spec => []SerialInv
  <1>1. SerialInv /\ [Next]_vars => SerialInv'
    BY SerialStep
  <1>. QED
    BY InitSerial, <1>1, PTL DEF Spec

\* When sessions follow one another, the status of a draft, its patch, the canon and the chapters
\* agree on whether it was accepted.
THEOREM DecisionsRecorded ==
    ASSUME OneSession
    PROVE  Spec => []DecisionsAgree
  <1>1. ASSUME SerialInv PROVE DecisionsAgree
    <2>1. \A d : Entered(db.canon, d) <=> InCanon(d)
      BY DEF Entered, InCanon
    <2>2. \A d \in Draft : DraftDecided(db, d)
      BY <1>1 DEF SerialInv, Agree
    <2>3. \A c \in Chapter : ChapterSound(db.canon, db.chapter[c]) /\ db.chapter[c] \in ChapterRow
      BY <1>1 DEF SerialInv, IInv, Sound, Database
    <2>4. \A c \in Chapter : Exported(c) # NoDraft => Exported(c) \in Draft /\ InCanon(Exported(c))
      BY <2>1, <2>3 DEF ChapterSound, ChapterRow, Exported
    <2>. QED
      BY <2>1, <2>2, <2>4 DEF DecisionsAgree, DraftDecided
  <1>. QED
    BY <1>1, AlwaysSerial, PTL

\* When sessions follow one another, a chapter is found by the drafts it shows.
THEOREM ColumnsFollow ==
    ASSUME OneSession
    PROVE  Spec => []ColumnsAgree
  <1>1. SerialInv => ColumnsAgree
    BY DEF SerialInv, Agree, ChapterAgrees, ColumnsAgree
  <1>. QED
    BY <1>1, AlwaysSerial, PTL

\* When sessions follow one another, a patch that was accepted or rejected stays so.
THEOREM PatchesDecidedOnce ==
    ASSUME OneSession
    PROVE  Spec => DecidedOnce
  <1>1. SerialInv /\ [Next]_vars => DecisionsStay(db, db')
    BY SerialStep
  <1>2. DecisionsStay(db, db') <=>
           \A d \in Draft : db.patch[d] \in {"accepted", "rejected"} => db'.patch[d] = db.patch[d]
    BY DEF DecisionsStay
  <1>. QED
    BY <1>1, <1>2, AlwaysSerial, PTL DEF Spec, DecidedOnce

\* When sessions follow one another, a chapter's accepted version changes only to an accepted draft.
THEOREM ExportsKept ==
    ASSUME OneSession
    PROVE  Spec => ExportKept
  <1>1. SerialInv /\ [Next]_vars => ExportsStay(db, db')
    BY SerialStep
  <1>2. ExportsStay(db, db') <=>
           \A c \in Chapter : db'.chapter[c].accepted # db.chapter[c].accepted =>
              \E d \in Draft : db'.chapter[c].accepted = d /\ db'.draft[d] = "accepted"
    BY DEF ExportsStay
  <1>. QED
    BY <1>1, <1>2, AlwaysSerial, PTL DEF Spec, ExportKept

=============================================================================
