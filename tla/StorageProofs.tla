---------------------------- MODULE StorageProofs -----------------------------
(***************************************************************************)
(* Memory, the objects of uploads and research, and backups: what is       *)
(* kept of a project, for any sessions, drafts, facts, contents, pages,    *)
(* accounts and bounds.                                                    *)
(***************************************************************************)
EXTENDS Memory, Ingest, Backup, FoldTheorems

(***************************************************************************)
(* Memory.  The search results that are cached under the revision of the   *)
(* memory are in effect.  A session that has not bumped the revision       *)
(* read its rows together with it; one that has will commit a greater      *)
(* revision, and is the only one.  So rows change only with the            *)
(* revision, and a revision names one set of rows.                         *)
(***************************************************************************)

\* A session, without the bound on revisions.
TxRecord ==
    [op     : {"none", "extract", "rebuild", "invalidate", "search", "reindex"},
     step   : {"agent", "bump", "commit", "wipe", "delete", "read", "fill", "clear", "load"},
     todo   : SUBSET Draft, seen : SUBSET Row, work : SUBSET Row, rev : Nat,
     fresh  : SUBSET Id, gone : SUBSET Id, wiped : BOOLEAN, bumped : BOOLEAN]

\* When the revision was read, relative to the committed one.
Dated(t, m) ==
    IF t.bumped THEN m.rev < t.rev
    ELSE t.rev <= m.rev /\ (t.rev = m.rev => t.seen = m.rows)

\* Whoever changed rows has bumped the revision when it commits; a search has not; and a session
\* that asks the agent has a draft to ask about.
Disciplined(t) ==
    /\ t.op = "none" => ~t.bumped
    /\ t.step = "fill" => ~t.bumped
    /\ t.wiped => t.bumped
    /\ t.step # "bump" => t.bumped \/ t.work = t.seen
    /\ t.op # "none" /\ t.step = "agent" => t.todo # {}
    /\ t.step = "bump" => t.op # "none"

TxFits(t, m) == t \in TxRecord /\ Disciplined(t) /\ (t.op # "none" => Dated(t, m))

OneLock == \A r, s \in Session : tx[r].bumped /\ tx[s].bumped => r = s

TxsOK ==
    /\ memory \in [rows : SUBSET Row, rev : Nat]
    /\ tx \in [Session -> TxRecord]
    /\ \A s \in Session : TxFits(tx[s], memory)
    /\ OneLock

\* An entry is no newer than the memory, and right if it is as new.
CacheDated ==
    \/ cache = NoEntry
    \/ /\ cache \in [rev : Nat, hits : SUBSET Id]
       /\ cache.rev <= memory.rev
       /\ cache.rev = memory.rev => cache.hits \subseteq Ids(Effective(memory.rows))

MemoryInv == TxsOK /\ CacheDated

-----------------------------------------------------------------------------
(* Sessions *)

LEMMA DraftsAreNumbers == Draft \subseteq Nat
  BY MemoryBounds DEF Draft

LEMMA CurrentIsTodo ==
    ASSUME NEW t \in TxRecord, t.todo # {}
    PROVE  Current(t) \in t.todo /\ Current(t) \in Draft
  <1>1. \E d \in t.todo : \A e \in t.todo : d <= e
    BY Earliest, DraftsAreNumbers DEF TxRecord
  <1>. QED
    BY <1>1 DEF Current, TxRecord

LEMMA SessionReplaced ==
    ASSUME TxsOK, NEW s \in Session, NEW t,
           tx' = [tx EXCEPT ![s] = t], memory' = memory,
           TxFits(t, memory), t.bumped => \A o \in Session \ {s} : ~tx[o].bumped
    PROVE  TxsOK'
  <1>1. tx' \in [Session -> TxRecord]
    BY DEF TxsOK, TxFits
  <1>2. \A o \in Session : tx'[o] = IF o = s THEN t ELSE tx[o]
    BY DEF TxsOK
  <1>3. \A o \in Session : TxFits(tx'[o], memory)
    BY <1>2 DEF TxsOK
  <1>4. OneLock'
    BY <1>2 DEF TxsOK, OneLock
  <1>. QED
    BY <1>1, <1>3, <1>4 DEF TxsOK, TxFits, Dated

LEMMA ClosedFits == ASSUME NEW m PROVE TxFits(Closed, m) /\ ~Closed.bumped
  BY DEF TxFits, TxRecord, Closed, Disciplined, Dated

LEMMA OpenFits ==
    ASSUME TxsOK, NEW op \in {"extract", "rebuild", "invalidate", "search", "reindex"},
           NEW step \in {"agent", "wipe", "read", "fill", "clear"}, NEW todo \in SUBSET Draft,
           step = "agent" => todo # {}
    PROVE  TxFits(Open(op, step, todo), memory) /\ ~Open(op, step, todo).bumped
  BY DEF TxsOK, TxFits, TxRecord, Open, Disciplined, Dated

\* The draft in hand is done: rows, revision and lock stay.
LEMMA NextDraftFits ==
    ASSUME NEW m, NEW t, TxFits(t, m), t.op # "none", t.bumped \/ t.work = t.seen
    PROVE  TxFits(NextDraft(t), m) /\ NextDraft(t).bumped = t.bumped
  <1>. DEFINE rest == IF t.todo = {} THEN {} ELSE t.todo \ {Current(t)}
              n == [t EXCEPT !.todo = rest, !.fresh = {},
                             !.step = IF rest = {} THEN "commit" ELSE "agent"]
  <1>1. n \in TxRecord /\ n.todo = rest /\ n.step = IF rest = {} THEN "commit" ELSE "agent"
    BY DEF TxFits, TxRecord
  <1>2. /\ n.op = t.op /\ n.rev = t.rev /\ n.bumped = t.bumped
        /\ n.seen = t.seen /\ n.work = t.work /\ n.wiped = t.wiped
    BY DEF TxFits, TxRecord
  <1>3. n = NextDraft(t)
    BY DEF NextDraft
  <1>4. Disciplined(n) /\ Dated(n, m)
    BY <1>1, <1>2 DEF TxFits, Disciplined, Dated
  <1>. QED
    BY <1>1, <1>2, <1>3, <1>4 DEF TxFits

(* Rows *)

LEMMA EndRowsTyped ==
    ASSUME NEW table \in SUBSET Row, NEW ids, NEW by \in Draft \cup {Author}
    PROVE  EndRows(table, ids, by) \in SUBSET Row
  <1>1. \A r \in table : [r EXCEPT !.ended = by] \in Row
    BY DEF Row
  <1>. QED
    BY <1>1 DEF EndRows

LEMMA NewRowsTyped ==
    ASSUME NEW t, NEW d \in Draft, NEW facts \in SUBSET Fact, NEW id \in [facts -> Id]
    PROVE  NewRows(t, d, facts, id) \in SUBSET Row
  <1>1. \A f \in facts : [id |-> id[f], draft |-> d, fact |-> f, ended |-> Active] \in Row
    BY DEF Row, Active
  <1>. QED
    BY <1>1 DEF NewRows

LEMMA SupersededTyped ==
    ASSUME NEW table \in SUBSET Row, NEW new
    PROVE  Ids(Superseded(table, new)) \in SUBSET Id
  BY DEF Superseded, ActiveOf, Ids, Row

LEMMA IdsTyped ==
    ASSUME NEW table \in SUBSET Row
    PROVE  Ids(table) \in SUBSET Id
  BY DEF Ids, Row

LEMMA EffectiveTyped ==
    ASSUME NEW table \in SUBSET Row
    PROVE  Effective(table) \in SUBSET Row
  BY DEF Effective, ActiveOf

LEMMA HitsInEffect ==
    ASSUME NEW table \in SUBSET Row
    PROVE  Hits(table) \subseteq Ids(Effective(table)) /\ Hits(table) \subseteq Id
  <1>1. Hits(table) \subseteq Ids(Effective(table))
    BY DEF Hits, Nearest, Ids
  <1>. QED
    BY <1>1, EffectiveTyped, IdsTyped

-----------------------------------------------------------------------------
(* Steps of a session *)

LEMMA Begins ==
    ASSUME TxsOK, NEW s \in Session, NEW t, Begin(s, t), TxFits(t, memory), ~t.bumped
    PROVE  TxsOK'
  BY SessionReplaced DEF Begin

LEMMA Extracts ==
    ASSUME TxsOK, NEW s \in Session, Extract(s)
    PROVE  TxsOK'
  <1>. DEFINE t == tx[s]
              d == Current(t)
  <1>1. /\ t \in TxRecord /\ TxFits(t, memory) /\ t.op # "none" /\ t.step = "agent"
        /\ memory' = memory
        /\ t.bumped => \A o \in Session \ {s} : ~tx[o].bumped
    BY DEF TxsOK, Extract, At, TxFits, OneLock
  <1>2. d \in Draft /\ (t.bumped \/ t.work = t.seen)
    BY <1>1, CurrentIsTodo DEF TxFits, Disciplined
  <1>3. CASE tx' = [tx EXCEPT ![s] = NextDraft(t)]
    BY <1>1, <1>2, <1>3, NextDraftFits, SessionReplaced
  <1>4. ASSUME NEW new \in SUBSET Fact, NEW ids \in SUBSET Id, NEW id \in [new -> ids],
               tx' = [tx EXCEPT ![s] = [t EXCEPT
                   !.work = EndRows(@, Ids(Superseded(t.work, NewRows(t, d, new, id))), d)
                                \cup NewRows(t, d, new, id),
                   !.fresh = ids, !.gone = @ \cup Ids(Superseded(t.work, NewRows(t, d, new, id))),
                   !.step = "bump"]]
        PROVE  TxsOK'
    <2>. DEFINE table == NewRows(t, d, new, id)
                out == Ids(Superseded(t.work, table))
                work == EndRows(t.work, out, d) \cup table
                n == [t EXCEPT !.work = work, !.fresh = ids, !.gone = t.gone \cup out,
                               !.step = "bump"]
    <2>1. work \in SUBSET Row /\ out \in SUBSET Id
      BY <1>1, <1>2, <1>4, EndRowsTyped, NewRowsTyped, SupersededTyped DEF TxRecord
    <2>. HIDE DEF work, out
    <2>2. /\ n \in TxRecord
          /\ n.op = t.op /\ n.rev = t.rev /\ n.bumped = t.bumped /\ n.wiped = t.wiped
          /\ n.seen = t.seen /\ n.step = "bump"
      BY <1>1, <2>1 DEF TxRecord
    <2>3. TxFits(n, memory)
      BY <1>1, <2>2 DEF TxFits, Disciplined, Dated
    <2>4. tx' = [tx EXCEPT ![s] = n]
      BY <1>4 DEF work, out
    <2>. QED
      BY <1>1, <2>2, <2>3, <2>4, SessionReplaced
  <1>. QED
    <2>1. PICK facts \in SUBSET Fact :
            LET new == {f \in facts : ~HashTaken(t.work, d, f)}
                ids == nextId .. nextId + Cardinality(new) - 1
            IN  /\ ids \subseteq Id
                /\ \/ tx' = [tx EXCEPT ![s] = NextDraft(t)]
                   \/ \E id \in [new -> ids] :
                        tx' = [tx EXCEPT ![s] = [t EXCEPT
                          !.work = EndRows(@, Ids(Superseded(t.work, NewRows(t, d, new, id))), d)
                                       \cup NewRows(t, d, new, id),
                          !.fresh = ids,
                          !.gone = @ \cup Ids(Superseded(t.work, NewRows(t, d, new, id))),
                          !.step = "bump"]]
      BY Zenon DEF Extract
    <2>. DEFINE new == {f \in facts : ~HashTaken(t.work, d, f)}
                ids == nextId .. nextId + Cardinality(new) - 1
    <2>2. new \in SUBSET Fact /\ ids \in SUBSET Id
      BY <2>1
    <2>. HIDE DEF t, d
    <2>. QED
      BY <1>3, <1>4, <2>1, <2>2, Zenon

LEMMA BumpedRecord ==
    ASSUME NEW s, NEW t, TxFits(t, memory), t.op # "none", memory.rev \in Nat
    PROVE  LET b == Bumped(s, t) IN
           /\ b \in TxRecord /\ b.bumped /\ memory.rev < b.rev
           /\ b.op = t.op /\ b.step = t.step /\ b.wiped = t.wiped /\ b.todo = t.todo
  <1>. DEFINE rev == 1 + (IF t.bumped THEN t.rev ELSE memory.rev)
              b == [t EXCEPT !.rev = rev, !.bumped = TRUE]
  <1>1. t \in TxRecord /\ Dated(t, memory)
    BY DEF TxFits
  <1>2. t.rev \in Nat /\ t.bumped \in BOOLEAN
    BY <1>1 DEF TxRecord
  <1>3. rev \in Nat /\ memory.rev < rev
    BY <1>1, <1>2 DEF Dated
  <1>. HIDE DEF rev
  <1>4. /\ b \in TxRecord /\ b.bumped /\ b.rev = rev
        /\ b.op = t.op /\ b.step = t.step /\ b.wiped = t.wiped /\ b.todo = t.todo
    BY <1>1, <1>3 DEF TxRecord
  <1>5. b = Bumped(s, t)
    BY DEF Bumped, rev
  <1>. HIDE DEF b
  <1>. QED
    BY <1>3, <1>4, <1>5

LEMMA Bumps ==
    ASSUME TxsOK, NEW s \in Session, Bump(s)
    PROVE  TxsOK'
  <1>. DEFINE t == Bumped(s, tx[s])
  <1>1. /\ TxFits(tx[s], memory) /\ tx[s].op # "none" /\ tx[s].step = "bump"
        /\ memory.rev \in Nat /\ memory' = memory /\ tx' = [tx EXCEPT ![s] = NextDraft(t)]
        /\ \A o \in Session \ {s} : ~tx[o].bumped
    BY DEF TxsOK, Bump, At
  <1>2. /\ t \in TxRecord /\ t.bumped /\ memory.rev < t.rev
        /\ t.op = tx[s].op /\ t.step = tx[s].step
    BY <1>1, BumpedRecord
  <1>. HIDE DEF t
  <1>3. TxFits(t, memory)
    BY <1>1, <1>2 DEF TxFits, Disciplined, Dated
  <1>4. TxFits(NextDraft(t), memory)
    BY <1>1, <1>2, <1>3, NextDraftFits
  <1>. QED
    BY <1>1, <1>4, SessionReplaced

LEMMA Invalidates ==
    ASSUME TxsOK, NEW s \in Session, NEW r \in tx[s].work, Invalidate(s, r)
    PROVE  TxsOK'
  <1>. DEFINE t == tx[s]
              work == EndRows(t.work, {r.id}, Author)
              n == [t EXCEPT !.work = work, !.gone = t.gone \cup {r.id}, !.step = "bump"]
  <1>1. /\ t \in TxRecord /\ TxFits(t, memory) /\ t.op # "none"
        /\ memory' = memory /\ tx' = [tx EXCEPT ![s] = n]
        /\ t.bumped => \A o \in Session \ {s} : ~tx[o].bumped
    BY DEF TxsOK, Invalidate, At, TxFits, OneLock
  <1>2. work \in SUBSET Row /\ r.id \in Id
    BY <1>1, EndRowsTyped DEF TxRecord, Row
  <1>. HIDE DEF work
  <1>3. /\ n \in TxRecord
        /\ n.op = t.op /\ n.rev = t.rev /\ n.bumped = t.bumped /\ n.wiped = t.wiped
        /\ n.seen = t.seen /\ n.step = "bump"
    BY <1>1, <1>2 DEF TxRecord
  <1>4. TxFits(n, memory)
    BY <1>1, <1>3 DEF TxFits, Disciplined, Dated
  <1>. QED
    BY <1>1, <1>3, <1>4, SessionReplaced

LEMMA WipesVectors ==
    ASSUME TxsOK, NEW s \in Session, WipeVectors(s)
    PROVE  TxsOK'
  <1>. DEFINE t == tx[s]
              n == [t EXCEPT !.gone = Ids(t.seen), !.step = "delete"]
  <1>1. /\ t \in TxRecord /\ TxFits(t, memory) /\ t.op # "none" /\ t.step = "wipe"
        /\ memory' = memory /\ tx' = [tx EXCEPT ![s] = n]
        /\ t.bumped => \A o \in Session \ {s} : ~tx[o].bumped
    BY DEF TxsOK, WipeVectors, At, TxFits, OneLock
  <1>2. Ids(t.seen) \in SUBSET Id
    BY <1>1, IdsTyped DEF TxRecord
  <1>3. /\ n \in TxRecord
        /\ n.op = t.op /\ n.rev = t.rev /\ n.bumped = t.bumped /\ n.wiped = t.wiped
        /\ n.seen = t.seen /\ n.work = t.work /\ n.step = "delete"
    BY <1>1, <1>2 DEF TxRecord
  <1>4. TxFits(n, memory)
    BY <1>1, <1>3 DEF TxFits, Disciplined, Dated
  <1>. QED
    BY <1>1, <1>3, <1>4, SessionReplaced

LEMMA DeletesRows ==
    ASSUME TxsOK, NEW s \in Session, DeleteRows(s)
    PROVE  TxsOK'
  <1>. DEFINE t == Bumped(s, tx[s])
              n == [t EXCEPT !.work = {}, !.wiped = TRUE,
                             !.step = IF t.todo = {} THEN "commit" ELSE "agent"]
  <1>1. /\ TxFits(tx[s], memory) /\ tx[s].op # "none" /\ memory.rev \in Nat
        /\ memory' = memory /\ tx' = [tx EXCEPT ![s] = n]
        /\ \A o \in Session \ {s} : ~tx[o].bumped
    BY DEF TxsOK, DeleteRows, At, Flushed
  <1>2. t \in TxRecord /\ t.bumped /\ memory.rev < t.rev /\ t.op = tx[s].op
    BY <1>1, BumpedRecord
  <1>. HIDE DEF t
  <1>3. /\ n \in TxRecord
        /\ n.op = t.op /\ n.rev = t.rev /\ n.bumped /\ n.todo = t.todo
        /\ n.step = IF t.todo = {} THEN "commit" ELSE "agent"
    BY <1>2 DEF TxRecord
  <1>4. TxFits(n, memory)
    BY <1>1, <1>2, <1>3 DEF TxFits, Disciplined, Dated
  <1>. QED
    BY <1>1, <1>4, SessionReplaced

LEMMA ClearsVectors ==
    ASSUME TxsOK, NEW s \in Session, ClearVectors(s)
    PROVE  TxsOK'
  <1>. DEFINE t == tx[s]
              n == [t EXCEPT !.step = "load"]
  <1>1. /\ t \in TxRecord /\ TxFits(t, memory) /\ t.op # "none" /\ t.step = "clear"
        /\ memory' = memory /\ tx' = [tx EXCEPT ![s] = n]
        /\ t.bumped => \A o \in Session \ {s} : ~tx[o].bumped
    BY DEF TxsOK, ClearVectors, At, TxFits, OneLock
  <1>2. /\ n \in TxRecord
        /\ n.op = t.op /\ n.rev = t.rev /\ n.bumped = t.bumped /\ n.wiped = t.wiped
        /\ n.seen = t.seen /\ n.work = t.work /\ n.step = "load"
    BY <1>1 DEF TxRecord
  <1>3. TxFits(n, memory)
    BY <1>1, <1>2 DEF TxFits, Disciplined, Dated
  <1>. QED
    BY <1>1, <1>2, <1>3, SessionReplaced

LEMMA SessionEnds ==
    ASSUME TxsOK, NEW s \in Session, Fail(s) \/ FillCache(s) \/ LoadVectors(s)
    PROVE  TxsOK' /\ memory' = memory
  BY SessionReplaced, ClosedFits DEF Fail, FillCache, LoadVectors

\* What a commit writes is newer than what every other session has read.
LEMMA Commits ==
    ASSUME TxsOK, NEW s \in Session, Commit(s)
    PROVE  /\ TxsOK'
           /\ memory' = memory \/ memory.rev < memory'.rev
  <1>. DEFINE t == tx[s]
              kept == {r \in memory.rows : r.id \notin Ids(Changed(t))}
  <1>1. /\ t \in TxRecord /\ TxFits(t, memory) /\ t.op # "none" /\ t.step = "commit"
        /\ memory \in [rows : SUBSET Row, rev : Nat] /\ tx \in [Session -> TxRecord]
        /\ tx' = [tx EXCEPT ![s] = Closed]
        /\ t.bumped => \A o \in Session \ {s} : ~tx[o].bumped
    BY DEF TxsOK, Commit, At, TxFits, OneLock
  <1>2. CASE memory' = memory
    BY <1>1, <1>2, SessionReplaced, ClosedFits
  <1>3. CASE memory' # memory
    <2>1. t.bumped
      BY <1>1, <1>3 DEF Commit, Flushed, TxFits, Disciplined
    <2>2. memory' \in [rows : SUBSET Row, rev : Nat] /\ memory'.rev = t.rev
      <3>1. t.work \in SUBSET Row /\ Changed(t) \in SUBSET Row /\ Added(t) \in SUBSET Row
        BY <1>1 DEF TxRecord, Changed, Added
      <3>2. \/ memory' = [rows |-> t.work, rev |-> t.rev]
            \/ memory' = [rows |-> kept \cup Changed(t) \cup Added(t), rev |-> t.rev]
        BY <1>3 DEF Commit
      <3>. QED
        BY <1>1, <3>1, <3>2 DEF TxRecord
    <2>3. memory.rev < memory'.rev
      BY <1>1, <2>1, <2>2 DEF TxFits, Dated
    <2>4. \A o \in Session : tx'[o] = IF o = s THEN Closed ELSE tx[o]
      BY <1>1
    <2>5. tx' \in [Session -> TxRecord]
      BY <1>1, ClosedFits DEF TxFits
    <2>6. \A o \in Session \ {s} : TxFits(tx[o], memory')
      BY <1>1, <2>1, <2>2, <2>3 DEF TxsOK, TxFits, Dated, TxRecord
    <2>7. OneLock'
      BY <1>1, <2>1, <2>4, ClosedFits DEF OneLock
    <2>8. TxsOK'
      BY <2>2, <2>4, <2>5, <2>6, <2>7, ClosedFits DEF TxsOK, TxFits
    <2>. QED
      BY <2>3, <2>8
  <1>. QED
    BY <1>2, <1>3

LEMMA SessionsKept ==
    ASSUME TxsOK, [MemoryNext]_memoryVars
    PROVE  TxsOK' /\ (memory' = memory \/ memory.rev < memory'.rev)
  <1>1. CASE UNCHANGED memoryVars
    BY <1>1 DEF memoryVars, TxsOK, OneLock
  <1>2. ASSUME NEW s \in Session, SessionStep(s)
        PROVE  TxsOK' /\ (memory' = memory \/ memory.rev < memory'.rev)
    <2>1. ASSUME NEW d \in Draft, Begin(s, Open("extract", "agent", {d}))
          PROVE  TxsOK' /\ memory' = memory
      BY <2>1, OpenFits, Begins DEF Begin
    <2>2. CASE Begin(s, Open("rebuild", "wipe", Draft))
      BY <2>2, OpenFits, Begins DEF Begin
    <2>3. CASE Begin(s, Open("invalidate", "read", {}))
      BY <2>3, OpenFits, Begins DEF Begin
    <2>4. CASE Begin(s, Open("search", "fill", {}))
      BY <2>4, OpenFits, Begins DEF Begin
    <2>5. CASE Extract(s)
      BY <2>5, Extracts DEF Extract
    <2>6. CASE Bump(s)
      BY <2>6, Bumps DEF Bump
    <2>7. ASSUME NEW r \in tx[s].work, Invalidate(s, r)
          PROVE  TxsOK' /\ memory' = memory
      BY <2>7, Invalidates DEF Invalidate
    <2>8. CASE WipeVectors(s)
      BY <2>8, WipesVectors DEF WipeVectors
    <2>9. CASE DeleteRows(s)
      BY <2>9, DeletesRows DEF DeleteRows
    <2>10. CASE Commit(s)
      BY <2>10, Commits
    <2>11. CASE Fail(s) \/ FillCache(s) \/ LoadVectors(s)
      BY <2>11, SessionEnds
    <2>12. CASE Begin(s, Open("reindex", "clear", {}))
      BY <2>12, OpenFits, Begins DEF Begin
    <2>13. CASE ClearVectors(s)
      BY <2>13, ClearsVectors DEF ClearVectors
    <2>. QED
      BY <1>2, <2>1, <2>2, <2>3, <2>4, <2>5, <2>6, <2>7, <2>8, <2>9, <2>10, <2>11, <2>12, <2>13
         DEF SessionStep
  <1>. QED
    BY <1>1, <1>2 DEF MemoryNext

-----------------------------------------------------------------------------
(* The cache *)

LEMMA CacheFilled ==
    ASSUME TxsOK, CacheDated, NEW s \in Session, FillCache(s)
    PROVE  CacheDated'
  <1>. DEFINE t == tx[s]
  <1>1. /\ t \in TxRecord /\ ~t.bumped /\ Dated(t, memory) /\ memory' = memory
        /\ memory \in [rows : SUBSET Row, rev : Nat]
    BY DEF TxsOK, FillCache, At, TxFits, Disciplined
  <1>2. cache' = cache \/ cache' = [rev |-> t.rev, hits |-> Hits(t.seen)]
    BY DEF FillCache, Cached
  <1>3. CASE cache' = cache
    BY <1>1, <1>3 DEF CacheDated
  <1>4. CASE cache' = [rev |-> t.rev, hits |-> Hits(t.seen)]
    <2>1. t.seen \in SUBSET Row /\ t.rev \in Nat
      BY <1>1 DEF TxRecord
    <2>2. Hits(t.seen) \subseteq Ids(Effective(t.seen)) /\ Hits(t.seen) \subseteq Id
      BY <2>1, HitsInEffect
    <2>3. cache' \in [rev : Nat, hits : SUBSET Id] /\ cache'.rev = t.rev
          /\ cache'.hits = Hits(t.seen)
      BY <1>4, <2>1, <2>2
    <2>. QED
      BY <1>1, <2>2, <2>3 DEF CacheDated, Dated
  <1>. QED
    BY <1>2, <1>3, <1>4

LEMMA CacheKept ==
    ASSUME MemoryInv, [MemoryNext]_memoryVars
    PROVE  CacheDated'
  <1>1. \/ cache' = cache
        \/ \E s \in Session : FillCache(s)
    BY DEF memoryVars, MemoryNext, SessionStep, Begin, Extract, Bump, Invalidate, WipeVectors,
           DeleteRows, ClearVectors, LoadVectors, Commit, Fail
  <1>2. CASE cache' = cache
    <2>1. memory' = memory \/ memory.rev < memory'.rev
      BY SessionsKept DEF MemoryInv
    <2>2. memory.rev \in Nat /\ memory'.rev \in Nat
      BY SessionsKept DEF MemoryInv, TxsOK
    <2>. QED
      BY <1>2, <2>1, <2>2 DEF MemoryInv, CacheDated
  <1>3. CASE \E s \in Session : FillCache(s)
    BY <1>3, CacheFilled DEF MemoryInv
  <1>. QED
    BY <1>1, <1>2, <1>3

-----------------------------------------------------------------------------
(* Theorems *)

LEMMA MemoryInit_MemoryInv == MemoryInit => MemoryInv
  <1>1. TxFits(Closed, [rows |-> {}, rev |-> 0]) /\ ~Closed.bumped
    BY ClosedFits
  <1>. QED
    BY <1>1 DEF MemoryInit, MemoryInv, TxsOK, OneLock, CacheDated, TxFits

LEMMA MemoryInvKept == MemoryInv /\ [MemoryNext]_memoryVars => MemoryInv'
  BY SessionsKept, CacheKept DEF MemoryInv

\* What a search finds in the cache under the revision of the memory is in effect: no session that
\* was slow, failed, or raced with others leaves results of other rows under it.
THEOREM CacheNeverStale == MemorySpec => []CacheFresh
  <1>1. MemoryInv => CacheFresh
    BY DEF MemoryInv, CacheDated, CacheFresh
  <1>. QED
    BY MemoryInit_MemoryInv, MemoryInvKept, <1>1, PTL DEF MemorySpec

-----------------------------------------------------------------------------
(***************************************************************************)
(* Memory, continued.  The index: a memory has a vector from before it is   *)
(* committed until somebody deletes it, or clears the whole index.  The ids *)
(* of a session's new rows are its own, so nobody else deletes their        *)
(* vectors one by one; and a session that commits has ended, or wiped out,  *)
(* the rows whose vectors it deleted in this way.                           *)
(***************************************************************************)

UniqueIds(table) == \A q, r \in table : q.id = r.id => q = r

\* Ids that are in the index, or were until somebody cleared all of it.
Covered == vectors \cup cleared

\* Ids that only this session knows: of its new rows, and of the vectors it would take back.
OwnIds(t) == Ids(Added(t)) \cup t.fresh

\* The new rows of a session are covered, and a row whose vector it deleted is ended when
\* it commits, or wiped out.
TracksIndex(t, index, next, table) ==
    /\ UniqueIds(t.work) /\ UniqueIds(t.seen)
    /\ t.op = "none" => t.gone = {}
    /\ t.wiped => t.work = Added(t) /\ t.step \in {"agent", "bump", "commit"}
    /\ t.op = "rebuild" => t.wiped \/ t.step \in {"wipe", "delete"}
    /\ t.op # "rebuild" => \A d, e \in t.todo : d = e
    /\ ~t.wiped /\ t.step \in {"agent", "read", "wipe", "clear", "load"} => t.work = t.seen
    /\ ~t.wiped /\ t.step # "delete" => t.gone \subseteq Ids(Changed(t))
    /\ \A r \in Changed(t) : r.ended # Active
    /\ \A r \in Added(t) : r.ended = Active => r.id \in index
    /\ Ids(t.seen) \cup OwnIds(t) \subseteq 1 .. next - 1
    /\ OwnIds(t) \cap Ids(table) = {}

\* Sessions make different rows, and none that another one has read.
IndexOK ==
    /\ Ids(memory.rows) \subseteq 1 .. nextId - 1
    /\ \A s \in Session : TracksIndex(tx[s], Covered, nextId, memory.rows)
    /\ \A s, o \in Session : s # o =>
          OwnIds(tx[s]) \cap (OwnIds(tx[o]) \cup Ids(tx[o].seen)) = {}

LEMMA BelowGrows == \A a, b \in Nat : a <= b => 1 .. a - 1 \subseteq 1 .. b - 1
  OBVIOUS

LEMMA BelowAndAbove ==
    \A a, b \in Nat : a > 0 /\ a <= b =>
        /\ (1 .. a - 1) \cap (a .. b - 1) = {}
        /\ 1 .. a - 1 \subseteq 1 .. b - 1 /\ a .. b - 1 \subseteq 1 .. b - 1
  OBVIOUS

\* An action of session s, which becomes n: what it owes the others.
LEMMA OthersTrack ==
    ASSUME IndexOK, nextId \in Nat, nextId' \in Nat, nextId <= nextId',
           NEW s \in Session, NEW n, tx'[s] = n, \A o \in Session \ {s} : tx'[o] = tx[o],
           Ids(memory'.rows) \subseteq 1 .. nextId' - 1,
           TracksIndex(n, Covered', nextId', memory'.rows),
           \A o \in Session \ {s} :
              /\ \A i \in OwnIds(tx[o]) : i \in Covered => i \in Covered'
              /\ OwnIds(tx[o]) \cap (OwnIds(n) \cup Ids(n.seen) \cup Ids(memory'.rows)) = {}
              /\ OwnIds(n) \cap Ids(tx[o].seen) = {}
    PROVE  IndexOK'
  <1>1. ASSUME NEW o \in Session \ {s}
        PROVE  TracksIndex(tx'[o], Covered', nextId', memory'.rows)
    <2>1. PICK p : p = tx[o]
      OBVIOUS
    <2>2. TracksIndex(p, Covered, nextId, memory.rows)
      BY <2>1 DEF IndexOK
    <2>3. 1 .. nextId - 1 \subseteq 1 .. nextId' - 1
      BY BelowGrows
    <2>4. /\ \A i \in OwnIds(p) : i \in Covered => i \in Covered'
          /\ OwnIds(p) \cap Ids(memory'.rows) = {}
      BY <2>1
    <2>5. \A r \in Added(p) : r.id \in OwnIds(p)
      BY DEF OwnIds, Ids
    <2>6. Ids(p.seen) \cup OwnIds(p) \subseteq 1 .. nextId' - 1
      BY <2>2, <2>3 DEF TracksIndex
    <2>7. \A r \in Added(p) : r.ended = Active => r.id \in Covered'
      BY <2>2, <2>4, <2>5 DEF TracksIndex
    <2>8. TracksIndex(p, Covered', nextId', memory'.rows)
      BY <2>2, <2>4, <2>6, <2>7 DEF TracksIndex
    <2>9. tx'[o] = p
      BY <2>1
    <2>. QED
      BY ONLY <2>8, <2>9 DEF TracksIndex
  <1>2. TracksIndex(tx'[s], Covered', nextId', memory'.rows)
    <2>1. TracksIndex(n, Covered', nextId', memory'.rows) /\ tx'[s] = n
      OBVIOUS
    <2>. QED
      BY ONLY <2>1 DEF TracksIndex
  <1>3. ASSUME NEW r \in Session, NEW o \in Session, r # o
        PROVE  OwnIds(tx'[r]) \cap (OwnIds(tx'[o]) \cup Ids(tx'[o].seen)) = {}
    <2>1. CASE r # s /\ o # s
      BY <1>3, <2>1 DEF IndexOK
    <2>2. CASE r = s
      BY <1>3, <2>2
    <2>3. CASE o = s
      BY <1>3, <2>3
    <2>. QED
      BY <2>1, <2>2, <2>3
  <1>. QED
    BY <1>1, <1>2, <1>3 DEF IndexOK, OwnIds, Added

\* What of a session matters to the index.
LEMMA SameTracks ==
    ASSUME NEW t, NEW n, TracksIndex(t, Covered, nextId, memory.rows),
           n.op = t.op, n.step = t.step, n.todo = t.todo,
           n.seen = t.seen, n.work = t.work, n.fresh = t.fresh, n.gone = t.gone, n.wiped = t.wiped
    PROVE  TracksIndex(n, Covered, nextId, memory.rows) /\ OwnIds(n) = OwnIds(t)
  BY DEF TracksIndex, OwnIds, Added, Changed

\* The end of a draft.
LEMMA NextDraftTracks ==
    ASSUME NEW t \in TxRecord, TracksIndex(t, Covered, nextId, memory.rows),
           t.op # "none", t.step \in {"agent", "bump"}
    PROVE  LET n == NextDraft(t) IN
           /\ n \in TxRecord /\ TracksIndex(n, Covered, nextId, memory.rows)
           /\ OwnIds(n) \subseteq OwnIds(t)
           /\ n.seen = t.seen /\ n.gone = t.gone /\ n.work = t.work
  <1>. DEFINE rest == IF t.todo = {} THEN {} ELSE t.todo \ {Current(t)}
              n == [t EXCEPT !.todo = rest, !.fresh = {},
                             !.step = IF rest = {} THEN "commit" ELSE "agent"]
  <1>1. /\ n \in TxRecord /\ n.todo = rest /\ n.step = IF rest = {} THEN "commit" ELSE "agent"
        /\ n.op = t.op /\ n.seen = t.seen /\ n.work = t.work /\ n.wiped = t.wiped /\ n.gone = t.gone
        /\ n.fresh = {}
    BY DEF TxRecord
  <1>2. ~t.wiped => rest = {}
    <2>1. ~t.wiped => \A d, e \in t.todo : d = e
      BY DEF TracksIndex
    <2>2. t.todo # {} => Current(t) \in t.todo
      BY CurrentIsTodo
    <2>. QED
      BY <2>1, <2>2
  <1>3. rest \subseteq t.todo
    OBVIOUS
  <1>. HIDE DEF rest
  <1>4. Added(n) = Added(t) /\ Changed(n) = Changed(t)
    BY <1>1 DEF Added, Changed
  <1>5. OwnIds(n) \subseteq OwnIds(t)
    BY <1>1, <1>4 DEF OwnIds
  <1>6. n = NextDraft(t)
    BY DEF NextDraft, rest
  <1>. HIDE DEF n
  <1>7. TracksIndex(n, Covered, nextId, memory.rows)
    BY <1>1, <1>2, <1>3, <1>4, <1>5 DEF TracksIndex
  <1>. QED
    BY <1>1, <1>5, <1>6, <1>7

\* Rows that are ended, keep their ids.
LEMMA EndedRows ==
    ASSUME NEW table \in SUBSET Row, NEW ids, NEW by \in Draft \cup {Author}
    PROVE  /\ \A q \in EndRows(table, ids, by) : \E r \in table :
                 /\ q.id = r.id /\ (r.id \in ids => q.ended = by)
                 /\ r.id \notin ids => q = r
           /\ \A r \in table : \E q \in EndRows(table, ids, by) :
                 q.id = r.id /\ (r.id \in ids => q.ended = by)
           /\ UniqueIds(table) => UniqueIds(EndRows(table, ids, by))
           /\ by # Active
  <1>. DEFINE e == [r \in table |-> IF r.id \in ids THEN [r EXCEPT !.ended = by] ELSE r]
  <1>1. \A r \in table : /\ e[r].id = r.id /\ (r.id \in ids => e[r].ended = by)
                         /\ (r.id \notin ids => e[r] = r)
    BY DEF Row
  <1>2. EndRows(table, ids, by) = {e[r] : r \in table}
    BY DEF EndRows
  <1>. HIDE DEF e
  <1>3. UniqueIds(table) => UniqueIds(EndRows(table, ids, by))
    BY <1>1, <1>2 DEF UniqueIds
  <1>4. by # Active
    BY MemoryNames, MemoryBounds DEF Draft, Active
  <1>. QED
    BY <1>1, <1>2, <1>3, <1>4

\* A session ends rows it can read, and adds rows with new ids.
Rewrites(t, n, out, by, new) ==
    /\ t \in TxRecord /\ TracksIndex(t, Covered, nextId, memory.rows)
    /\ t.op # "none" /\ t.step \in {"agent", "read"}
    /\ out \subseteq Ids(ActiveOf(t.work))
    /\ new \in SUBSET Row /\ UniqueIds(new) /\ \A r \in new : r.id \in nextId .. nextId' - 1
    /\ nextId \in Nat /\ nextId > 0 /\ nextId' \in Nat /\ nextId <= nextId'
    /\ memory' = memory /\ Ids(memory.rows) \subseteq 1 .. nextId - 1
    /\ \A i \in (Covered \cup Ids(new)) \ out : i \in Covered'
    /\ n \in TxRecord /\ n.op = t.op /\ n.step = "bump" /\ n.todo = t.todo /\ n.seen = t.seen
    /\ n.work = EndRows(t.work, out, by) \cup new /\ n.wiped = t.wiped
    /\ n.fresh \subseteq t.fresh \cup (nextId .. nextId' - 1) /\ n.gone = t.gone \cup out

LEMMA RewriteTracks ==
    ASSUME NEW t, NEW n, NEW out, NEW by \in Draft \cup {Author}, NEW new,
           Rewrites(t, n, out, by, new)
    PROVE  /\ TracksIndex(n, Covered', nextId', memory'.rows)
           /\ OwnIds(n) \subseteq OwnIds(t) \cup (nextId .. nextId' - 1)
  <1>. USE DEF Rewrites
  <1>1. PICK ended : ended = EndRows(t.work, out, by)
    OBVIOUS
  <1>2. /\ \A q \in ended : \E r \in t.work :
              /\ q.id = r.id /\ (r.id \in out => q.ended = by)
              /\ r.id \notin out => q = r
        /\ \A r \in t.work : \E q \in ended : q.id = r.id /\ (r.id \in out => q.ended = by)
        /\ UniqueIds(ended) /\ by # Active
    BY <1>1, EndedRows DEF TxRecord, TracksIndex
  <1>3. PICK old, fresh : old = 1 .. nextId - 1 /\ fresh = nextId .. nextId' - 1
    OBVIOUS
  <1>4. old \cap fresh = {} /\ old \subseteq 1 .. nextId' - 1 /\ fresh \subseteq 1 .. nextId' - 1
    BY <1>3, BelowAndAbove
  <1>5. Ids(t.work) \subseteq Ids(t.seen) \cup OwnIds(t)
    BY DEF OwnIds, Added, Ids
  <1>6. Ids(t.seen) \subseteq old /\ OwnIds(t) \subseteq old /\ Ids(t.work) \subseteq old
    BY <1>3, <1>5 DEF TracksIndex
  <1>0. out \subseteq Ids(t.work)
    BY DEF Ids, ActiveOf
  <1>7. \A r \in new : r.id \in fresh
    BY <1>3
  <1>8. UniqueIds(n.work)
    <2>1. \A q \in ended : q.id \in old
      BY <1>2, <1>6 DEF Ids
    <2>. QED
      BY <1>1, <1>2, <1>4, <1>7, <2>1 DEF UniqueIds
  <1>9. \A q \in Changed(n) : q.ended # Active
    <2>1. SUFFICES ASSUME NEW q \in n.work, q \notin t.seen, q.id \in Ids(t.seen)
                   PROVE  q.ended # Active
      BY DEF Changed
    <2>2. q \in ended
      BY <1>1, <1>4, <1>6, <1>7, <2>1
    <2>3. PICK r \in t.work : /\ q.id = r.id /\ (r.id \in out => q.ended = by)
                              /\ (r.id \notin out => q = r)
      BY <1>2, <2>2
    <2>4. CASE r.id \in out
      BY <1>2, <2>3, <2>4
    <2>5. CASE r.id \notin out
      BY <2>1, <2>3, <2>5 DEF TracksIndex, Changed
    <2>. QED
      BY <2>4, <2>5
  <1>10. \A q \in Added(n) : /\ q.id \in OwnIds(t) \cup fresh
                             /\ q.ended = Active => q.id \in Covered'
    <2>1. SUFFICES ASSUME NEW q \in n.work, q.id \notin Ids(t.seen)
                   PROVE  /\ q.id \in OwnIds(t) \cup fresh
                          /\ q.ended = Active => q.id \in Covered'
      BY DEF Added
    <2>2. CASE q \in new
      <3>1. q.id \in fresh /\ q.id \in Ids(new) /\ q.id \notin out
        BY <1>0, <1>4, <1>6, <1>7, <2>2 DEF Ids
      <3>. QED
        BY <3>1
    <2>3. CASE q \in ended
      <3>1. PICK r \in t.work : /\ q.id = r.id /\ (r.id \in out => q.ended = by)
                                /\ (r.id \notin out => q = r)
        BY <1>2, <2>3
      <3>2. r \in Added(t) /\ r.id \in OwnIds(t)
        BY <2>1, <3>1 DEF Added, OwnIds, Ids
      <3>3. CASE r.id \in out
        BY <1>2, <3>1, <3>2, <3>3
      <3>4. CASE r.id \notin out
        BY <3>1, <3>2, <3>4 DEF TracksIndex
      <3>. QED
        BY <3>3, <3>4
    <2>. QED
      BY <1>1, <2>1, <2>2, <2>3
  <1>11. OwnIds(n) \subseteq OwnIds(t) \cup fresh
    BY <1>3, <1>10 DEF OwnIds, Ids
  <1>12. t.wiped => n.work = Added(n)
    <2>1. t.wiped => t.work = Added(t)
      BY DEF TracksIndex
    <2>2. ASSUME t.wiped, NEW q \in n.work
          PROVE  q.id \notin Ids(t.seen)
      <3>1. CASE q \in new
        BY <1>4, <1>6, <1>7, <3>1
      <3>2. CASE q \in ended
        BY <1>2, <2>1, <2>2, <3>2 DEF Added
      <3>. QED
        BY <1>1, <2>2, <3>1, <3>2
    <2>. QED
      BY <2>2 DEF Added
  <1>13. ~t.wiped => n.gone \subseteq Ids(Changed(n))
    <2>1. SUFFICES ASSUME ~t.wiped, NEW i \in n.gone
                   PROVE  i \in Ids(Changed(n))
      OBVIOUS
    <2>2. t.work = t.seen /\ t.gone \subseteq Ids(Changed(t)) /\ UniqueIds(t.seen)
      BY <2>1 DEF TracksIndex
    <2>3. i \in out
      BY <2>1, <2>2 DEF Changed, Ids
    <2>4. PICK q \in ended : q.id = i /\ q.ended = by
      BY <1>0, <1>2, <2>3 DEF Ids
    <2>5. PICK r \in t.seen : r.id = i /\ r.ended = Active
      BY <2>2, <2>3 DEF Ids, ActiveOf
    <2>6. q \notin t.seen
      BY <1>2, <2>2, <2>4, <2>5 DEF UniqueIds
    <2>. QED
      BY <1>1, <2>4, <2>5, <2>6 DEF Changed, Ids
  <1>14. OwnIds(n) \cap Ids(memory.rows) = {}
    BY <1>3, <1>4, <1>11 DEF TracksIndex
  <1>15. Ids(n.seen) \cup OwnIds(n) \subseteq 1 .. nextId' - 1
    BY <1>4, <1>6, <1>11
  <1>16. TracksIndex(n, Covered', nextId', memory'.rows)
    BY <1>8, <1>9, <1>10, <1>12, <1>13, <1>14, <1>15 DEF TracksIndex
  <1>. QED
    BY <1>3, <1>11, <1>16

WithinBounds ==
    /\ memory.rev <= MaxRevision /\ \A s \in Session : tx[s].rev <= MaxRevision
    /\ vectors \subseteq Id /\ cleared \subseteq Id /\ lost \subseteq Id
    /\ nextId \in 1 .. MaxId + 1

IndexInv == WithinBounds /\ UniqueIds(memory.rows) /\ IndexOK /\ Indexed

LEMMA NextIdTyped ==
    ASSUME IndexInv
    PROVE  nextId \in Nat /\ nextId > 0
  BY MemoryBounds DEF IndexInv, WithinBounds

\* A step of session s, which becomes n, that commits nothing.
StepsTo(s, n) ==
    /\ tx' = [tx EXCEPT ![s] = n] /\ memory' = memory
    /\ nextId' \in Nat /\ nextId <= nextId'
    /\ TracksIndex(n, Covered', nextId', memory'.rows)
    /\ OwnIds(n) \subseteq OwnIds(tx[s]) \cup (nextId .. nextId' - 1)
    /\ Ids(n.seen) \subseteq Ids(tx[s].seen) \cup Ids(memory.rows)
    /\ Covered \ Covered' \subseteq Ids(tx[s].seen) \cup OwnIds(tx[s])
    /\ \A i \in Ids(ActiveOf(memory.rows)) :
          i \in Covered \cup lost \cup tx[s].gone => i \in Covered' \cup lost' \cup n.gone

LEMMA MoveKeepsIndex ==
    ASSUME TxsOK, IndexInv, NEW s \in Session, NEW n, StepsTo(s, n)
    PROVE  IndexOK' /\ Indexed'
  <1>0. /\ tx' = [tx EXCEPT ![s] = n] /\ memory' = memory
        /\ nextId' \in Nat /\ nextId <= nextId'
        /\ TracksIndex(n, Covered', nextId', memory'.rows)
        /\ OwnIds(n) \subseteq OwnIds(tx[s]) \cup (nextId .. nextId' - 1)
        /\ Ids(n.seen) \subseteq Ids(tx[s].seen) \cup Ids(memory.rows)
        /\ Covered \ Covered' \subseteq Ids(tx[s].seen) \cup OwnIds(tx[s])
    BY DEF StepsTo
  <1>1. tx'[s] = n /\ \A o \in Session \ {s} : tx'[o] = tx[o]
    BY <1>0 DEF TxsOK
  <1>2. nextId \in Nat /\ nextId > 0 /\ IndexOK /\ Indexed
    BY NextIdTyped DEF IndexInv
  <1>3. PICK old, fresh : old = 1 .. nextId - 1 /\ fresh = nextId .. nextId' - 1
    OBVIOUS
  <1>4. old \cap fresh = {} /\ old \subseteq 1 .. nextId' - 1
    BY <1>0, <1>2, <1>3, BelowAndAbove
  <1>5. Ids(memory'.rows) \subseteq 1 .. nextId' - 1
    BY <1>0, <1>2, <1>3, <1>4 DEF IndexOK
  <1>6. ASSUME NEW o \in Session \ {s}
        PROVE  /\ \A i \in OwnIds(tx[o]) : i \in Covered => i \in Covered'
               /\ OwnIds(tx[o]) \cap (OwnIds(n) \cup Ids(n.seen) \cup Ids(memory'.rows)) = {}
               /\ OwnIds(n) \cap Ids(tx[o].seen) = {}
    <2>1. PICK own, mine, seen, his :
             /\ own = OwnIds(tx[s]) /\ mine = OwnIds(tx[o])
             /\ seen = Ids(tx[s].seen) /\ his = Ids(tx[o].seen)
      OBVIOUS
    <2>2. own \cap mine = {} /\ own \cap his = {} /\ mine \cap seen = {}
      BY <1>2, <1>6, <2>1 DEF IndexOK
    <2>3. mine \subseteq old /\ his \subseteq old /\ mine \cap Ids(memory.rows) = {}
      BY <1>2, <1>3, <1>6, <2>1 DEF IndexOK, TracksIndex
    <2>4. OwnIds(n) \subseteq own \cup fresh /\ Ids(n.seen) \subseteq seen \cup Ids(memory.rows)
          /\ Covered \ Covered' \subseteq seen \cup own
      BY <1>0, <1>3, <2>1
    <2>. QED
      BY <1>0, <1>4, <2>1, <2>2, <2>3, <2>4
  <1>7. IndexOK'
    BY <1>0, <1>1, <1>2, <1>5, <1>6, OthersTrack
  <1>8. ASSUME NEW r \in ActiveOf(memory.rows)
        PROVE  r.id \in Covered' \cup lost' \cup UNION {tx'[o].gone : o \in Session}
    <2>1. r.id \in Ids(ActiveOf(memory.rows))
      BY <1>8 DEF Ids
    <2>2. r.id \in Covered \cup lost \cup UNION {tx[o].gone : o \in Session}
      BY <1>2, <1>8 DEF Indexed, Covered
    <2>3. CASE \E o \in Session \ {s} : r.id \in tx[o].gone
      BY <1>1, <2>3
    <2>4. CASE r.id \in Covered \cup lost \cup tx[s].gone
      BY <1>1, <2>1, <2>4 DEF StepsTo
    <2>. QED
      BY <2>2, <2>3, <2>4
  <1>9. Indexed'
    BY <1>0, <1>8 DEF Indexed, Covered
  <1>. QED
    BY <1>7, <1>9

LEMMA RewriteMoves ==
    ASSUME TxsOK, IndexInv, NEW s \in Session, NEW n, NEW out, NEW by \in Draft \cup {Author},
           NEW new, Rewrites(tx[s], n, out, by, new), tx' = [tx EXCEPT ![s] = n],
           Covered \ Covered' \subseteq out, lost' = lost
    PROVE  IndexOK' /\ Indexed'
  <1>1. PICK t : t = tx[s]
    OBVIOUS
  <1>2. Rewrites(t, n, out, by, new)
    BY <1>1
  <1>3. /\ TracksIndex(n, Covered', nextId', memory'.rows)
        /\ OwnIds(n) \subseteq OwnIds(t) \cup (nextId .. nextId' - 1)
    BY <1>2, RewriteTracks
  <1>4. /\ out \subseteq Ids(ActiveOf(t.work)) /\ n.seen = t.seen /\ n.gone = t.gone \cup out
        /\ nextId' \in Nat /\ nextId <= nextId' /\ memory' = memory
    BY <1>2 DEF Rewrites
  <1>5. Ids(ActiveOf(t.work)) \subseteq Ids(t.seen) \cup OwnIds(t)
    BY DEF Ids, ActiveOf, OwnIds, Added
  <1>6. Covered \ Covered' \subseteq Ids(t.seen) \cup OwnIds(t)
    BY <1>4, <1>5
  <1>7. \A i \in Ids(ActiveOf(memory.rows)) :
           i \in Covered \cup lost \cup t.gone => i \in Covered' \cup lost' \cup n.gone
    BY <1>4
  <1>8. Ids(n.seen) \subseteq Ids(t.seen) \cup Ids(memory.rows)
    BY <1>4
  <1>9. StepsTo(s, n)
    BY <1>1, <1>3, <1>4, <1>6, <1>7, <1>8 DEF StepsTo
  <1>. QED
    BY <1>9, MoveKeepsIndex

\* A step of session s that leaves the index alone as well.
LEMMA QuietMoves ==
    ASSUME TxsOK, IndexInv, NEW s \in Session, NEW n, tx' = [tx EXCEPT ![s] = n],
           UNCHANGED <<memory, Covered, nextId, lost>>,
           TracksIndex(n, Covered, nextId, memory.rows),
           OwnIds(n) \subseteq OwnIds(tx[s]),
           Ids(n.seen) \subseteq Ids(tx[s].seen) \cup Ids(memory.rows), tx[s].gone \subseteq n.gone
    PROVE  IndexOK' /\ Indexed'
  <1>1. nextId \in Nat /\ nextId <= nextId
    BY NextIdTyped
  <1>2. TracksIndex(n, Covered', nextId', memory'.rows)
    BY DEF TracksIndex
  <1>3. nextId' \in Nat /\ nextId <= nextId' /\ memory' = memory
    BY <1>1
  <1>4. OwnIds(n) \subseteq OwnIds(tx[s]) \cup (nextId .. nextId' - 1)
    OBVIOUS
  <1>5. Covered \ Covered' \subseteq Ids(tx[s].seen) \cup OwnIds(tx[s])
    OBVIOUS
  <1>6. \A i \in Ids(ActiveOf(memory.rows)) :
           i \in Covered \cup lost \cup tx[s].gone => i \in Covered' \cup lost' \cup n.gone
    OBVIOUS
  <1>. QED
    <2>1. StepsTo(s, n)
      BY <1>2, <1>3, <1>4, <1>5, <1>6 DEF StepsTo
    <2>. QED
      BY <2>1, MoveKeepsIndex

LEMMA BeginsTracked ==
    ASSUME TxsOK, IndexInv, NEW s \in Session,
           NEW op \in {"extract", "rebuild", "invalidate", "search", "reindex"},
           NEW step \in {"agent", "wipe", "read", "fill", "clear"}, NEW todo,
           op = "rebuild" <=> step = "wipe", op # "rebuild" => \A d, e \in todo : d = e,
           Begin(s, Open(op, step, todo))
    PROVE  IndexOK' /\ Indexed'
  <1>1. PICK n : n = Open(op, step, todo)
    OBVIOUS
  <1>2. /\ n.op = op /\ n.step = step /\ n.todo = todo /\ n.seen = memory.rows
        /\ n.work = memory.rows /\ n.fresh = {} /\ n.gone = {} /\ ~n.wiped
    BY <1>1 DEF Open
  <1>3. Added(n) = {} /\ Changed(n) = {} /\ OwnIds(n) = {}
    BY <1>2 DEF Added, Changed, OwnIds, Ids
  <1>4. /\ TracksIndex(tx[s], Covered, nextId, memory.rows)
        /\ tx[s].op = "none" /\ UniqueIds(memory.rows)
        /\ Ids(memory.rows) \subseteq 1 .. nextId - 1
    BY DEF IndexInv, IndexOK, Begin
  <1>5. TracksIndex(n, Covered, nextId, memory.rows)
    BY <1>2, <1>3, <1>4 DEF TracksIndex
  <1>6. tx[s].gone = {}
    BY <1>4 DEF TracksIndex
  <1>7. tx' = [tx EXCEPT ![s] = n] /\ UNCHANGED <<memory, Covered, nextId, lost>>
    BY <1>1 DEF Begin, Covered
  <1>. QED
    BY <1>2, <1>3, <1>5, <1>6, <1>7, QuietMoves

LEMMA BumpedKeeps ==
    ASSUME NEW s, NEW t \in TxRecord
    PROVE  LET b == Bumped(s, t) IN
           /\ b.op = t.op /\ b.step = t.step /\ b.todo = t.todo /\ b.seen = t.seen
           /\ b.work = t.work /\ b.fresh = t.fresh /\ b.gone = t.gone /\ b.wiped = t.wiped
  BY DEF Bumped, TxRecord

LEMMA ClosedTracks ==
    ASSUME NEW index, NEW next, NEW table
    PROVE  TracksIndex(Closed, index, next, table) /\ OwnIds(Closed) = {} /\ Closed.gone = {}
           /\ Closed.seen = {}
  <1>1. /\ Closed.op = "none" /\ Closed.step = "read" /\ Closed.todo = {} /\ Closed.seen = {}
        /\ Closed.work = {} /\ Closed.fresh = {} /\ Closed.gone = {} /\ ~Closed.wiped
    BY DEF Closed
  <1>2. Added(Closed) = {} /\ Changed(Closed) = {} /\ OwnIds(Closed) = {} /\ Ids(Closed.seen) = {}
    BY <1>1 DEF Added, Changed, OwnIds, Ids
  <1>. QED
    BY <1>1, <1>2 DEF TracksIndex, UniqueIds

LEMMA BumpsTracked ==
    ASSUME TxsOK, IndexInv, NEW s \in Session, Bump(s)
    PROVE  IndexOK' /\ Indexed'
  <1>1. PICK t, b, n : t = tx[s] /\ b = Bumped(s, t) /\ n = NextDraft(b)
    OBVIOUS
  <1>2. /\ TxFits(t, memory) /\ t \in TxRecord /\ t.op # "none" /\ t.step = "bump"
        /\ memory.rev \in Nat /\ TracksIndex(t, Covered, nextId, memory.rows)
    BY <1>1 DEF TxsOK, TxFits, Bump, At, IndexInv, IndexOK
  <1>3. b \in TxRecord /\ b.op = t.op /\ b.step = t.step /\ b.seen = t.seen /\ b.gone = t.gone
    BY <1>1, <1>2, BumpedRecord, BumpedKeeps
  <1>4. TracksIndex(b, Covered, nextId, memory.rows) /\ OwnIds(b) = OwnIds(t)
    BY <1>1, <1>2, BumpedKeeps, SameTracks
  <1>5. /\ TracksIndex(n, Covered, nextId, memory.rows) /\ OwnIds(n) \subseteq OwnIds(b)
        /\ n.seen = b.seen /\ n.gone = b.gone
    BY <1>1, <1>2, <1>3, <1>4, NextDraftTracks
  <1>6. tx' = [tx EXCEPT ![s] = n] /\ UNCHANGED <<memory, Covered, nextId, lost>>
    BY <1>1 DEF Bump, Covered
  <1>. QED
    BY <1>1, <1>3, <1>4, <1>5, <1>6, QuietMoves

LEMMA WipesTracked ==
    ASSUME TxsOK, IndexInv, NEW s \in Session, WipeVectors(s)
    PROVE  IndexOK' /\ Indexed'
  <1>1. PICK t, n : t = tx[s] /\ n = [t EXCEPT !.gone = Ids(t.seen), !.step = "delete"]
    OBVIOUS
  <1>2. /\ t \in TxRecord /\ t.op # "none" /\ t.step = "wipe"
        /\ TracksIndex(t, Covered, nextId, memory.rows)
        /\ tx' = [tx EXCEPT ![s] = n] /\ memory' = memory /\ nextId' = nextId /\ lost' = lost
        /\ Covered \ Covered' \subseteq Ids(t.seen)
    BY <1>1 DEF TxsOK, WipeVectors, At, IndexInv, IndexOK, Deleted, Covered
  <1>3. /\ n.op = t.op /\ n.step = "delete" /\ n.todo = t.todo /\ n.seen = t.seen
        /\ n.work = t.work /\ n.fresh = t.fresh /\ n.gone = Ids(t.seen) /\ n.wiped = t.wiped
    BY <1>1, <1>2 DEF TxRecord
  <1>4. ~t.wiped /\ t.work = t.seen /\ t.gone = {}
    BY <1>2 DEF TracksIndex, Changed, Ids
  <1>5. Added(n) = {} /\ Added(t) = {} /\ Changed(n) = {}
    BY <1>3, <1>4 DEF Added, Changed, Ids
  <1>6. OwnIds(n) = OwnIds(t)
    BY <1>3, <1>5 DEF OwnIds
  <1>7. TracksIndex(n, Covered', nextId', memory'.rows)
    BY <1>2, <1>3, <1>4, <1>5, <1>6 DEF TracksIndex
  <1>8. StepsTo(s, n)
    BY <1>1, <1>2, <1>3, <1>4, <1>6, <1>7, NextIdTyped DEF StepsTo
  <1>. QED
    BY <1>8, MoveKeepsIndex

LEMMA DeletesTracked ==
    ASSUME TxsOK, IndexInv, NEW s \in Session, DeleteRows(s)
    PROVE  IndexOK' /\ Indexed'
  <1>1. PICK t, b, n : /\ t = tx[s] /\ b = Bumped(s, t)
                       /\ n = [b EXCEPT !.work = {}, !.wiped = TRUE,
                                        !.step = IF b.todo = {} THEN "commit" ELSE "agent"]
    OBVIOUS
  <1>2. /\ TxFits(t, memory) /\ t \in TxRecord /\ t.op # "none" /\ t.step = "delete"
        /\ memory.rev \in Nat /\ TracksIndex(t, Covered, nextId, memory.rows)
        /\ tx' = [tx EXCEPT ![s] = n] /\ UNCHANGED <<memory, Covered, nextId, lost>>
    BY <1>1 DEF TxsOK, TxFits, DeleteRows, At, IndexInv, IndexOK, Covered
  <1>3. /\ b \in TxRecord /\ b.op = t.op /\ b.todo = t.todo /\ b.seen = t.seen
        /\ b.fresh = t.fresh /\ b.gone = t.gone
    BY <1>1, <1>2, BumpedRecord, BumpedKeeps
  <1>4. /\ n.op = t.op /\ n.step \in {"commit", "agent"} /\ n.todo = t.todo /\ n.seen = t.seen
        /\ n.work = {} /\ n.fresh = t.fresh /\ n.gone = t.gone /\ n.wiped
    BY <1>1, <1>3 DEF TxRecord
  <1>5. Added(n) = {} /\ Changed(n) = {} /\ OwnIds(n) \subseteq OwnIds(t)
    BY <1>4 DEF Added, Changed, OwnIds, Ids
  <1>6. TracksIndex(n, Covered, nextId, memory.rows)
    BY <1>2, <1>4, <1>5 DEF TracksIndex, UniqueIds
  <1>7. OwnIds(n) \subseteq OwnIds(tx[s]) /\ tx[s].gone \subseteq n.gone
    BY <1>1, <1>4, <1>5
  <1>8. Ids(n.seen) \subseteq Ids(tx[s].seen) \cup Ids(memory.rows)
    BY <1>1, <1>4
  <1>9. tx' = [tx EXCEPT ![s] = n] /\ UNCHANGED <<memory, Covered, nextId, lost>>
    BY <1>2
  <1>. QED
    BY <1>6, <1>7, <1>8, <1>9, QuietMoves

LEMMA FailsTracked ==
    ASSUME TxsOK, IndexInv, NEW s \in Session, Fail(s)
    PROVE  IndexOK' /\ Indexed'
  <1>1. PICK t : t = tx[s]
    OBVIOUS
  <1>2. /\ TracksIndex(t, Covered, nextId, memory.rows)
        /\ tx' = [tx EXCEPT ![s] = Closed] /\ memory' = memory /\ nextId' = nextId
        /\ Covered \ Covered' \subseteq t.fresh
        /\ lost' = (lost \cup t.gone) \cap Ids(ActiveOf(memory.rows))
    BY <1>1 DEF Fail, IndexInv, IndexOK, Deleted, Upserted, Covered
  <1>3. t.fresh \subseteq OwnIds(t) /\ t.fresh \cap Ids(ActiveOf(memory.rows)) = {}
    BY <1>2 DEF OwnIds, TracksIndex, Ids, ActiveOf
  <1>4. Ids(Closed.seen) = {}
    BY ClosedTracks DEF Ids
  <1>5. Covered \ Covered' \subseteq Ids(t.seen) \cup OwnIds(t)
    BY <1>2, <1>3
  <1>6. \A i \in Ids(ActiveOf(memory.rows)) :
           i \in Covered \cup lost \cup t.gone => i \in Covered' \cup lost' \cup Closed.gone
    BY <1>2, <1>3
  <1>7. StepsTo(s, Closed)
    BY <1>1, <1>2, <1>4, <1>5, <1>6, ClosedTracks, NextIdTyped DEF StepsTo
  <1>. QED
    BY <1>7, MoveKeepsIndex

LEMMA FillsTracked ==
    ASSUME TxsOK, IndexInv, NEW s \in Session, FillCache(s)
    PROVE  IndexOK' /\ Indexed'
  <1>1. PICK t : t = tx[s]
    OBVIOUS
  <1>2. /\ TracksIndex(t, Covered, nextId, memory.rows) /\ t.step = "fill" /\ Disciplined(t)
        /\ tx' = [tx EXCEPT ![s] = Closed] /\ UNCHANGED <<memory, Covered, nextId, lost>>
    BY <1>1 DEF TxsOK, TxFits, FillCache, At, IndexInv, IndexOK, Covered
  <1>3. t.work = t.seen /\ ~t.wiped
    BY <1>2 DEF Disciplined
  <1>4. t.gone = {}
    BY <1>2, <1>3 DEF TracksIndex, Changed, Ids
  <1>5. Ids(Closed.seen) = {}
    BY ClosedTracks DEF Ids
  <1>. QED
    BY <1>1, <1>2, <1>4, <1>5, ClosedTracks, QuietMoves

LEMMA ClearsTracked ==
    ASSUME TxsOK, IndexInv, NEW s \in Session, ClearVectors(s)
    PROVE  IndexOK' /\ Indexed'
  <1>1. PICK t, n : t = tx[s] /\ n = [t EXCEPT !.step = "load"]
    OBVIOUS
  <1>2. /\ t \in TxRecord /\ t.op # "none" /\ t.step = "clear"
        /\ TracksIndex(t, Covered, nextId, memory.rows)
        /\ tx' = [tx EXCEPT ![s] = n] /\ UNCHANGED <<memory, Covered, nextId, lost>>
    BY <1>1 DEF TxsOK, ClearVectors, At, IndexInv, IndexOK, Covered
  <1>3. /\ n.op = t.op /\ n.step = "load" /\ n.todo = t.todo /\ n.seen = t.seen
        /\ n.work = t.work /\ n.fresh = t.fresh /\ n.gone = t.gone /\ n.wiped = t.wiped
    BY <1>1, <1>2 DEF TxRecord
  <1>4. Added(n) = Added(t) /\ Changed(n) = Changed(t) /\ OwnIds(n) = OwnIds(t)
    BY <1>3 DEF Added, Changed, OwnIds
  <1>5. TracksIndex(n, Covered, nextId, memory.rows)
    BY <1>2, <1>3, <1>4 DEF TracksIndex
  <1>. QED
    BY <1>1, <1>2, <1>3, <1>4, <1>5, QuietMoves

\* What it lists leaves cleared and lost, but has a vector again.
LEMMA LoadsTracked ==
    ASSUME TxsOK, IndexInv, NEW s \in Session, LoadVectors(s)
    PROVE  IndexOK' /\ Indexed'
  <1>1. PICK t, listed : t = tx[s] /\ listed = Ids(ActiveOf(t.seen))
    OBVIOUS
  <1>2. /\ TracksIndex(t, Covered, nextId, memory.rows) /\ t.step = "load"
        /\ tx' = [tx EXCEPT ![s] = Closed] /\ memory' = memory /\ nextId' = nextId
        /\ Covered \subseteq Covered' /\ listed \subseteq Covered' /\ lost' = lost \ listed
    BY <1>1 DEF LoadVectors, At, IndexInv, IndexOK, Upserted, Covered
  <1>3. ~t.wiped /\ t.work = t.seen /\ t.gone = {}
    BY <1>2 DEF TracksIndex, Changed, Ids
  <1>4. Ids(Closed.seen) = {}
    BY ClosedTracks DEF Ids
  <1>5. Covered \ Covered' \subseteq Ids(t.seen) \cup OwnIds(t)
    BY <1>2
  <1>6. \A i \in Ids(ActiveOf(memory.rows)) :
           i \in Covered \cup lost \cup t.gone => i \in Covered' \cup lost' \cup Closed.gone
    BY <1>2, <1>3
  <1>7. StepsTo(s, Closed)
    BY <1>1, <1>2, <1>4, <1>5, <1>6, ClosedTracks, NextIdTyped DEF StepsTo
  <1>. QED
    BY <1>7, MoveKeepsIndex

LEMMA InvalidatesTracked ==
    ASSUME TxsOK, IndexInv, NEW s \in Session, NEW r \in tx[s].work, Invalidate(s, r)
    PROVE  IndexOK' /\ Indexed'
  <1>1. PICK t, out, n :
           /\ t = tx[s] /\ out = {r.id}
           /\ n = [t EXCEPT !.work = EndRows(t.work, out, Author), !.gone = t.gone \cup out,
                            !.step = "bump"]
    OBVIOUS
  <1>2. /\ t \in TxRecord /\ t.op # "none" /\ t.step = "read" /\ r \in ActiveOf(t.work)
        /\ TracksIndex(t, Covered, nextId, memory.rows)
        /\ tx' = [tx EXCEPT ![s] = n] /\ memory' = memory /\ nextId' = nextId /\ lost' = lost
        /\ Covered \ Covered' \subseteq out
    BY <1>1 DEF TxsOK, Invalidate, At, IndexInv, IndexOK, Deleted, Covered
  <1>3. out \subseteq Ids(ActiveOf(t.work)) /\ out \in SUBSET Id
    BY <1>1, <1>2 DEF Ids, ActiveOf, TxRecord, Row
  <1>4. EndRows(t.work, out, Author) \in SUBSET Row
    BY <1>2, EndRowsTyped DEF TxRecord
  <1>5. /\ n \in TxRecord /\ n.op = t.op /\ n.step = "bump" /\ n.todo = t.todo
        /\ n.seen = t.seen /\ n.work = EndRows(t.work, out, Author) \cup {} /\ n.fresh = t.fresh
        /\ n.gone = t.gone \cup out /\ n.wiped = t.wiped
    BY <1>1, <1>2, <1>3, <1>4 DEF TxRecord
  <1>6. Ids({}) = {} /\ UniqueIds({}) /\ {} \in SUBSET Row
    BY DEF Ids, UniqueIds
  <1>7. /\ nextId \in Nat /\ nextId > 0 /\ Ids(memory.rows) \subseteq 1 .. nextId - 1
    BY NextIdTyped DEF IndexInv, IndexOK
  <1>8. Rewrites(t, n, out, Author, {})
    BY <1>2, <1>3, <1>5, <1>6, <1>7 DEF Rewrites
  <1>. QED
    BY <1>1, <1>2, <1>7, <1>8, RewriteMoves

\* What Extract does, for the new facts and the ids their rows get.
Extracted(s, new, ids) ==
    LET t == tx[s]
        d == Current(t)
    IN  /\ ids = nextId .. nextId + Cardinality(new) - 1
        /\ nextId' = nextId + Cardinality(new)
        /\ \/ new = {} /\ tx' = [tx EXCEPT ![s] = NextDraft(t)] /\ vectors' = vectors
           \/ \E id \in [new -> ids] :
                 LET table == NewRows(t, d, new, id)
                     out == Ids(Superseded(t.work, table))
                 IN  /\ \A f, g \in new : id[f] = id[g] => f = g
                     /\ vectors' = (vectors \cup ids) \ out
                     /\ tx' = [tx EXCEPT ![s] = [t EXCEPT
                           !.work = EndRows(@, out, d) \cup table,
                           !.fresh = ids, !.gone = @ \cup out, !.step = "bump"]]

LEMMA ExtractsNew ==
    ASSUME NEW s \in Session, Extract(s)
    PROVE  \E new \in SUBSET Fact, ids \in SUBSET Id : Extracted(s, new, ids)
  <1>. DEFINE t == tx[s]
              d == Current(t)
  <1>1. PICK facts \in SUBSET Fact :
          LET new == {f \in facts : ~HashTaken(t.work, d, f)}
              ids == nextId .. nextId + Cardinality(new) - 1
          IN  /\ ids \subseteq Id
              /\ nextId' = nextId + Cardinality(new)
              /\ \/ new = {} /\ tx' = [tx EXCEPT ![s] = NextDraft(t)] /\ UNCHANGED vectors
                 \/ \E id \in {i \in [new -> ids] : \A f, g \in new : i[f] = i[g] => f = g} :
                      /\ vectors' = IndexedRows(t, ids)
                                      \ Ids(Superseded(t.work, NewRows(t, d, new, id)))
                      /\ tx' = [tx EXCEPT ![s] = [t EXCEPT
                        !.work = EndRows(@, Ids(Superseded(t.work, NewRows(t, d, new, id))), d)
                                     \cup NewRows(t, d, new, id),
                        !.fresh = ids,
                        !.gone = @ \cup Ids(Superseded(t.work, NewRows(t, d, new, id))),
                        !.step = "bump"]]
    BY Zenon DEF Extract
  <1>. HIDE DEF t, d
  <1>2. PICK new, ids : /\ new = {f \in facts : ~HashTaken(t.work, d, f)}
                        /\ ids = nextId .. nextId + Cardinality(new) - 1
    OBVIOUS
  <1>3. new \in SUBSET Fact /\ ids \in SUBSET Id
    BY <1>1, <1>2
  <1>. QED
    BY <1>1, <1>2, <1>3, Zenon DEF IndexedRows, Upserted, Extracted, t, d

LEMMA ExtractsTracked ==
    ASSUME TxsOK, IndexInv, NEW s \in Session, Extract(s)
    PROVE  IndexOK' /\ Indexed'
  <1>. DEFINE t == tx[s]
              d == Current(t)
  <1>2. /\ t \in TxRecord /\ t.op # "none" /\ t.step = "agent" /\ Disciplined(t)
        /\ TracksIndex(t, Covered, nextId, memory.rows)
        /\ memory' = memory /\ lost' = lost /\ cleared' = cleared
    BY DEF TxsOK, TxFits, Extract, At, IndexInv, IndexOK
  <1>3. d \in Draft
    BY <1>2, CurrentIsTodo DEF Disciplined
  <1>4. /\ nextId \in Nat /\ nextId > 0 /\ Ids(memory.rows) \subseteq 1 .. nextId - 1
    BY NextIdTyped DEF IndexInv, IndexOK
  <1>5. PICK new \in SUBSET Fact, ids \in SUBSET Id : Extracted(s, new, ids)
    BY ExtractsNew
  <1>6. /\ Cardinality(new) \in Nat
        /\ ids = nextId .. nextId + Cardinality(new) - 1 /\ nextId' = nextId + Cardinality(new)
    BY <1>5, MemoryBounds, FS_Subset, FS_CardinalityType DEF Extracted
  <1>7. CASE new = {} /\ tx' = [tx EXCEPT ![s] = NextDraft(t)] /\ vectors' = vectors
    <2>1. nextId' = nextId
      BY <1>4, <1>6, <1>7, FS_EmptySet
    <2>2. PICK n : n = NextDraft(t)
      OBVIOUS
    <2>3. /\ TracksIndex(n, Covered, nextId, memory.rows) /\ OwnIds(n) \subseteq OwnIds(t)
          /\ n.seen = t.seen /\ n.gone = t.gone
      BY <1>2, <2>2, NextDraftTracks
    <2>4. tx' = [tx EXCEPT ![s] = n] /\ UNCHANGED <<memory, Covered, nextId, lost>>
      BY <1>2, <1>7, <2>1, <2>2 DEF Covered
    <2>. QED
      BY <2>3, <2>4, QuietMoves
  <1>8. ASSUME NEW id \in [new -> ids], \A f, g \in new : id[f] = id[g] => f = g,
               vectors' = (vectors \cup ids) \ Ids(Superseded(t.work, NewRows(t, d, new, id))),
               tx' = [tx EXCEPT ![s] = [t EXCEPT
                   !.work = EndRows(@, Ids(Superseded(t.work, NewRows(t, d, new, id))), d)
                                \cup NewRows(t, d, new, id),
                   !.fresh = ids, !.gone = @ \cup Ids(Superseded(t.work, NewRows(t, d, new, id))),
                   !.step = "bump"]]
        PROVE  IndexOK' /\ Indexed'
    <2>1. PICK table, out, ended, n :
             /\ table = NewRows(t, d, new, id) /\ out = Ids(Superseded(t.work, table))
             /\ ended = EndRows(t.work, out, d)
             /\ n = [t EXCEPT !.work = ended \cup table, !.fresh = ids, !.gone = t.gone \cup out,
                              !.step = "bump"]
      OBVIOUS
    <2>2. table \in SUBSET Row /\ ended \in SUBSET Row /\ out \in SUBSET Id
      <3>1. id \in [new -> Id] /\ t.work \in SUBSET Row
        BY <1>2, <1>8 DEF TxRecord
      <3>2. table \in SUBSET Row
        BY <1>3, <2>1, <3>1, NewRowsTyped
      <3>. QED
        BY <1>3, <2>1, <3>1, <3>2, EndRowsTyped, SupersededTyped
    <2>3. UniqueIds(table) /\ \A r \in table : r.id \in ids
      BY <1>8, <2>1 DEF NewRows, UniqueIds
    <2>4. out \subseteq Ids(ActiveOf(t.work))
      BY <2>1 DEF Superseded, Ids
    <2>5. /\ n \in TxRecord /\ n.op = t.op /\ n.step = "bump" /\ n.todo = t.todo
          /\ n.seen = t.seen /\ n.work = ended \cup table /\ n.fresh = ids
          /\ n.gone = t.gone \cup out /\ n.wiped = t.wiped
      BY <1>2, <2>1, <2>2 DEF TxRecord
    <2>6. nextId' \in Nat /\ nextId <= nextId' /\ ids = nextId .. nextId' - 1
      BY <1>4, <1>6
    <2>7. tx' = [tx EXCEPT ![s] = n] /\ vectors' = (vectors \cup ids) \ out
      BY <1>8, <2>1
    <2>8. \A i \in (Covered \cup Ids(table)) \ out : i \in Covered'
      BY <1>2, <2>3, <2>7 DEF Ids, Covered
    <2>9. Rewrites(t, n, out, d, table)
      BY <1>2, <1>4, <2>1, <2>2, <2>3, <2>4, <2>5, <2>6, <2>8 DEF Rewrites
    <2>10. Covered \ Covered' \subseteq out
      BY <1>2, <2>7 DEF Covered
    <2>. QED
      BY <1>2, <1>3, <2>7, <2>9, <2>10, RewriteMoves
  <1>. HIDE DEF t, d
  <1>. QED
    BY <1>5, <1>7, <1>8 DEF Extracted, t, d

\* What a commit makes of the committed rows.
LEMMA CommittedRows ==
    ASSUME TxsOK, IndexInv, NEW s \in Session, Commit(s), NEW t, t = tx[s]
    PROVE  /\ t.op # "none" /\ t.step = "commit" /\ TracksIndex(t, Covered, nextId, memory.rows)
           /\ t.wiped => memory'.rows = Added(t)
           /\ ~t.wiped => /\ t.gone \subseteq Ids(Changed(t))
                          /\ memory'.rows = {r \in memory.rows : r.id \notin Ids(Changed(t))}
                                              \cup Changed(t) \cup Added(t)
  <1>1. /\ t.op # "none" /\ t.step = "commit" /\ TracksIndex(t, Covered, nextId, memory.rows)
        /\ t \in TxRecord /\ memory \in [rows : SUBSET Row, rev : Nat]
    BY DEF TxsOK, Commit, At, IndexInv, IndexOK
  <1>2. CASE t.wiped
    BY <1>1, <1>2 DEF Commit, TracksIndex
  <1>3. CASE ~t.wiped
    <2>1. t.gone \subseteq Ids(Changed(t))
      BY <1>1, <1>3 DEF TracksIndex
    <2>2. CASE Flushed(t)
      BY <1>1, <1>3, <2>1, <2>2 DEF Commit
    <2>3. CASE ~Flushed(t)
      <3>1. Changed(t) = {} /\ Added(t) = {} /\ Ids(Changed(t)) = {}
        BY <2>3 DEF Flushed, Changed, Added, Ids
      <3>2. memory' = memory
        BY <1>3, <2>3 DEF Commit
      <3>. QED
        BY <1>1, <1>3, <2>1, <3>1, <3>2
    <2>. QED
      BY <2>2, <2>3
  <1>. QED
    BY <1>1, <1>2, <1>3

LEMMA CommitsUnique ==
    ASSUME TxsOK, IndexInv, NEW s \in Session, Commit(s)
    PROVE  UniqueIds(memory'.rows)
  <1>1. PICK t : t = tx[s]
    OBVIOUS
  <1>2. /\ TracksIndex(t, Covered, nextId, memory.rows) /\ UniqueIds(memory.rows)
        /\ t.wiped => memory'.rows = Added(t)
        /\ ~t.wiped => memory'.rows = {r \in memory.rows : r.id \notin Ids(Changed(t))}
                                        \cup Changed(t) \cup Added(t)
    BY <1>1, CommittedRows DEF IndexInv
  <1>3. UniqueIds(t.work) /\ OwnIds(t) \cap Ids(memory.rows) = {}
    BY <1>2 DEF TracksIndex
  <1>4. \A q, r \in Added(t) \cup Changed(t) : q.id = r.id => q = r
    BY <1>3 DEF Added, Changed, UniqueIds
  <1>5. \A q \in memory.rows, r \in Added(t) : q.id # r.id
    BY <1>3 DEF OwnIds, Ids
  <1>6. \A q \in {r \in memory.rows : r.id \notin Ids(Changed(t))}, r \in Changed(t) : q.id # r.id
    BY DEF Ids
  <1>. QED
    BY <1>2, <1>4, <1>5, <1>6 DEF UniqueIds

LEMMA CommitsIndexed ==
    ASSUME TxsOK, IndexInv, NEW s \in Session, Commit(s)
    PROVE  /\ Indexed'
           /\ tx[s].wiped => Ids(ActiveOf(memory'.rows)) \subseteq Covered'
  <1>1. PICK t : t = tx[s]
    OBVIOUS
  <1>2. /\ TracksIndex(t, Covered, nextId, memory.rows) /\ Indexed
        /\ tx' = [tx EXCEPT ![s] = Closed] /\ Covered' = Covered
        /\ lost' = lost \cap Ids(ActiveOf(memory'.rows))
        /\ t.wiped => memory'.rows = Added(t)
        /\ ~t.wiped => /\ t.gone \subseteq Ids(Changed(t))
                       /\ memory'.rows = {r \in memory.rows : r.id \notin Ids(Changed(t))}
                                           \cup Changed(t) \cup Added(t)
    BY <1>1, CommittedRows DEF IndexInv, Commit, Covered
  <1>3. /\ \A r \in Changed(t) : r.ended # Active
        /\ \A r \in Added(t) : r.ended = Active => r.id \in Covered
    BY <1>2 DEF TracksIndex
  <1>4. \A o \in Session \ {s} : tx'[o] = tx[o]
    BY <1>2 DEF TxsOK
  <1>5. t.wiped => Ids(ActiveOf(memory'.rows)) \subseteq Covered'
    BY <1>2, <1>3 DEF ActiveOf, Ids
  <1>6. ASSUME NEW r \in ActiveOf(memory'.rows)
        PROVE  r.id \in Covered' \cup lost' \cup UNION {tx'[o].gone : o \in Session}
    <2>1. r.id \in Ids(ActiveOf(memory'.rows)) /\ r \in memory'.rows /\ r.ended = Active
      BY <1>6 DEF Ids, ActiveOf
    <2>2. CASE t.wiped
      BY <1>5, <2>1, <2>2
    <2>3. CASE ~t.wiped /\ r \in Added(t)
      BY <1>2, <1>3, <2>1, <2>3
    <2>4. CASE ~t.wiped /\ r \notin Added(t)
      <3>1. r \in ActiveOf(memory.rows) /\ r.id \notin Ids(Changed(t))
        BY <1>2, <1>3, <2>1, <2>4 DEF ActiveOf
      <3>2. r.id \in Covered \cup lost \cup UNION {tx[o].gone : o \in Session}
        BY <1>2, <3>1 DEF Indexed, Covered
      <3>3. r.id \notin t.gone
        BY <1>2, <2>4, <3>1
      <3>4. CASE \E o \in Session \ {s} : r.id \in tx[o].gone
        BY <1>4, <3>4
      <3>5. CASE r.id \in Covered \cup lost
        BY <1>2, <2>1, <3>5
      <3>. QED
        BY <1>1, <3>2, <3>3, <3>4, <3>5
    <2>. QED
      BY <2>2, <2>3, <2>4
  <1>7. Indexed'
    BY <1>6 DEF Indexed, Covered
  <1>. QED
    BY <1>1, <1>5, <1>7

LEMMA CommitsTracked ==
    ASSUME TxsOK, IndexInv, NEW s \in Session, Commit(s)
    PROVE  IndexOK'
  <1>1. PICK t : t = tx[s]
    OBVIOUS
  <1>2. /\ TracksIndex(t, Covered, nextId, memory.rows) /\ IndexOK
        /\ tx' = [tx EXCEPT ![s] = Closed] /\ Covered' = Covered /\ nextId' = nextId
        /\ t.wiped => memory'.rows = Added(t)
        /\ ~t.wiped => memory'.rows = {r \in memory.rows : r.id \notin Ids(Changed(t))}
                                        \cup Changed(t) \cup Added(t)
    BY <1>1, CommittedRows DEF IndexInv, Commit, Covered
  <1>3. nextId \in Nat /\ nextId <= nextId' /\ nextId' \in Nat
    BY <1>2, NextIdTyped
  <1>4. Ids(memory'.rows) \subseteq Ids(memory.rows) \cup Ids(t.seen) \cup OwnIds(t)
    <2>1. \A r \in Added(t) : r.id \in OwnIds(t)
      BY DEF OwnIds, Ids
    <2>2. \A r \in Changed(t) : r.id \in Ids(t.seen)
      BY DEF Changed
    <2>. QED
      BY <1>2, <2>1, <2>2 DEF Ids
  <1>5. Ids(memory'.rows) \subseteq 1 .. nextId' - 1
    BY <1>2, <1>4 DEF IndexOK, TracksIndex
  <1>6. ASSUME NEW o \in Session \ {s}
        PROVE  /\ \A i \in OwnIds(tx[o]) : i \in Covered => i \in Covered'
               /\ OwnIds(tx[o])
                    \cap (OwnIds(Closed) \cup Ids(Closed.seen) \cup Ids(memory'.rows)) = {}
               /\ OwnIds(Closed) \cap Ids(tx[o].seen) = {}
    <2>1. /\ OwnIds(tx[o]) \cap (OwnIds(t) \cup Ids(t.seen)) = {}
          /\ OwnIds(tx[o]) \cap Ids(memory.rows) = {}
      BY <1>1, <1>2, <1>6 DEF IndexOK, TracksIndex
    <2>2. OwnIds(Closed) = {} /\ Ids(Closed.seen) = {}
      BY ClosedTracks DEF Ids
    <2>. QED
      BY <1>2, <1>4, <2>1, <2>2
  <1>7. TracksIndex(Closed, Covered', nextId', memory'.rows)
    BY ClosedTracks
  <1>8. tx'[s] = Closed /\ \A o \in Session \ {s} : tx'[o] = tx[o]
    BY <1>2 DEF TxsOK
  <1>. QED
    BY <1>2, <1>3, <1>5, <1>6, <1>7, <1>8, OthersTrack

(* The bounds *)

LEMMA BoundsKept ==
    ASSUME TxsOK, WithinBounds, NEW s \in Session, NEW n, tx' = [tx EXCEPT ![s] = n],
           n.rev <= MaxRevision, memory'.rev <= MaxRevision,
           vectors' \subseteq Id, cleared' \subseteq Id, lost' \subseteq Id,
           nextId' \in 1 .. MaxId + 1
    PROVE  WithinBounds'
  <1>1. \A o \in Session : tx'[o] = IF o = s THEN n ELSE tx[o]
    BY DEF TxsOK
  <1>2. \A o \in Session : tx'[o].rev <= MaxRevision
    BY <1>1 DEF WithinBounds
  <1>. QED
    BY <1>2 DEF WithinBounds

LEMMA RevisionsRead ==
    ASSUME NEW t \in TxRecord
    PROVE  NextDraft(t).rev = t.rev /\ Closed.rev = 0
  BY DEF NextDraft, TxRecord, Closed

LEMMA ExtractInBounds ==
    ASSUME TxsOK, WithinBounds, NEW s \in Session, Extract(s)
    PROVE  WithinBounds'
  <1>. DEFINE t == tx[s]
              d == Current(t)
  <1>1. /\ t \in TxRecord /\ t.rev <= MaxRevision /\ memory' = memory /\ lost' = lost
        /\ nextId \in 1 .. MaxId + 1 /\ vectors \subseteq Id /\ cleared' = cleared
    BY DEF TxsOK, WithinBounds, Extract
  <1>2. PICK new \in SUBSET Fact, ids \in SUBSET Id : Extracted(s, new, ids)
    BY ExtractsNew
  <1>3. nextId' \in 1 .. MaxId + 1
    <2>1. Cardinality(new) \in Nat
      BY MemoryBounds, FS_Subset, FS_CardinalityType
    <2>2. PICK n \in Nat : n = Cardinality(new)
      BY <2>1
    <2>3. ids = nextId .. nextId + n - 1 /\ nextId' = nextId + n
      BY <1>2, <2>2 DEF Extracted
    <2>4. n = 0 \/ nextId + n - 1 \in ids
      BY <1>1, <2>3, MemoryBounds
    <2>5. n = 0 \/ nextId + n - 1 <= MaxId
      <3>1. ids \subseteq 1 .. MaxId
        BY DEF Id
      <3>2. n = 0 \/ nextId + n - 1 \in 1 .. MaxId
        BY <2>4, <3>1
      <3>. QED
        BY <1>1, <2>2, <3>2, MemoryBounds
    <2>. QED
      BY <1>1, <2>2, <2>3, <2>5, MemoryBounds
  <1>4. CASE tx' = [tx EXCEPT ![s] = NextDraft(t)] /\ vectors' = vectors
    <2>1. NextDraft(t).rev <= MaxRevision
      BY <1>1, RevisionsRead
    <2>. QED
      BY <1>1, <1>3, <1>4, <2>1, BoundsKept DEF WithinBounds
  <1>5. ASSUME NEW id \in [new -> ids],
               vectors' = (vectors \cup ids) \ Ids(Superseded(t.work, NewRows(t, d, new, id))),
               tx' = [tx EXCEPT ![s] = [t EXCEPT
                   !.work = EndRows(@, Ids(Superseded(t.work, NewRows(t, d, new, id))), d)
                                \cup NewRows(t, d, new, id),
                   !.fresh = ids, !.gone = @ \cup Ids(Superseded(t.work, NewRows(t, d, new, id))),
                   !.step = "bump"]]
        PROVE  WithinBounds'
    <2>1. PICK table, out, n :
             /\ table = NewRows(t, d, new, id) /\ out = Ids(Superseded(t.work, table))
             /\ n = [t EXCEPT !.work = EndRows(t.work, out, d) \cup table, !.fresh = ids,
                              !.gone = t.gone \cup out, !.step = "bump"]
      OBVIOUS
    <2>2. n.rev = t.rev
      BY <1>1, <2>1 DEF TxRecord
    <2>3. n.rev <= MaxRevision /\ tx' = [tx EXCEPT ![s] = n] /\ vectors' \subseteq Id
      BY <1>1, <1>5, <2>1, <2>2
    <2>. QED
      BY <1>1, <1>3, <2>3, BoundsKept DEF WithinBounds
  <1>. HIDE DEF t, d
  <1>. QED
    BY <1>2, <1>4, <1>5 DEF Extracted, t, d

LEMMA StepInBounds ==
    ASSUME TxsOK, WithinBounds, NEW s \in Session, SessionStep(s)
    PROVE  WithinBounds'
  <1>1. PICK t : t = tx[s]
    OBVIOUS
  <1>2. /\ t \in TxRecord /\ t.rev <= MaxRevision /\ memory.rev <= MaxRevision
        /\ nextId \in 1 .. MaxId + 1 /\ vectors \subseteq Id /\ lost \subseteq Id
        /\ cleared \subseteq Id /\ 0 <= MaxRevision /\ t.gone \subseteq Id
    BY <1>1, MemoryBounds DEF TxsOK, WithinBounds, TxRecord
  <1>3. ASSUME NEW op, NEW step, NEW todo, Begin(s, Open(op, step, todo))
        PROVE  WithinBounds'
    <2>1. Open(op, step, todo).rev = memory.rev
      BY DEF Open
    <2>. QED
      BY <1>2, <1>3, <2>1, BoundsKept DEF Begin
  <1>4. CASE Bump(s) \/ DeleteRows(s)
    <2>1. PICK b : b = Bumped(s, t)
      OBVIOUS
    <2>2. b \in TxRecord /\ b.rev <= MaxRevision
      <3>1. TxFits(t, memory) /\ t.op # "none" /\ memory.rev \in Nat
        BY <1>1, <1>4 DEF TxsOK, Bump, DeleteRows, At
      <3>2. b \in TxRecord
        BY <2>1, <3>1, BumpedRecord
      <3>. QED
        BY <1>1, <1>4, <2>1, <3>2 DEF Bump, DeleteRows
    <2>3. CASE Bump(s)
      <3>1. NextDraft(b).rev <= MaxRevision
        BY <2>2, RevisionsRead
      <3>2. /\ tx' = [tx EXCEPT ![s] = NextDraft(b)]
            /\ UNCHANGED <<memory, vectors, nextId, lost, cleared>>
        BY <1>1, <2>1, <2>3 DEF Bump
      <3>. QED
        BY <1>2, <3>1, <3>2, BoundsKept
    <2>4. CASE DeleteRows(s)
      <3>1. PICK n : n = [b EXCEPT !.work = {}, !.wiped = TRUE,
                                   !.step = IF b.todo = {} THEN "commit" ELSE "agent"]
        OBVIOUS
      <3>2. n.rev = b.rev
        BY <2>2, <3>1 DEF TxRecord
      <3>3. /\ tx' = [tx EXCEPT ![s] = n]
            /\ UNCHANGED <<memory, vectors, nextId, lost, cleared>>
        BY <1>1, <2>1, <2>4, <3>1 DEF DeleteRows
      <3>. QED
        BY <1>2, <2>2, <3>2, <3>3, BoundsKept
    <2>. QED
      BY <1>4, <2>3, <2>4
  <1>5. ASSUME NEW r \in t.work, Invalidate(s, r)
        PROVE  WithinBounds'
    <2>1. PICK n : n = [t EXCEPT !.work = EndRows(t.work, {r.id}, Author),
                                 !.gone = t.gone \cup {r.id}, !.step = "bump"]
      OBVIOUS
    <2>2. n.rev = t.rev
      BY <1>2, <2>1 DEF TxRecord
    <2>3. /\ tx' = [tx EXCEPT ![s] = n] /\ memory' = memory /\ nextId' = nextId /\ lost' = lost
          /\ vectors' \subseteq vectors /\ cleared' = cleared
      BY <1>1, <1>5, <2>1 DEF Invalidate, Deleted
    <2>4. vectors' \subseteq Id
      BY <1>2, <2>3
    <2>. QED
      BY <1>2, <2>2, <2>3, <2>4, BoundsKept
  <1>6. CASE WipeVectors(s)
    <2>1. PICK n : n = [t EXCEPT !.gone = Ids(t.seen), !.step = "delete"]
      OBVIOUS
    <2>2. n.rev = t.rev
      BY <1>2, <2>1 DEF TxRecord
    <2>3. /\ tx' = [tx EXCEPT ![s] = n] /\ memory' = memory /\ nextId' = nextId /\ lost' = lost
          /\ vectors' \subseteq vectors /\ cleared' = cleared
      BY <1>1, <1>2, <1>6, <2>1 DEF WipeVectors, Deleted, TxRecord, TxsOK
    <2>4. vectors' \subseteq Id
      BY <1>2, <2>3
    <2>. QED
      BY <1>2, <2>2, <2>3, <2>4, BoundsKept
  <1>7. CASE Commit(s) \/ Fail(s) \/ FillCache(s)
    <2>1. /\ tx' = [tx EXCEPT ![s] = Closed] /\ nextId' = nextId
          /\ vectors' \subseteq vectors \cup Ids(ActiveOf(t.seen)) /\ cleared' = cleared
          /\ lost' \subseteq lost \cup t.gone /\ memory'.rev \in {memory.rev, t.rev}
      BY <1>1, <1>7 DEF Commit, Fail, FillCache, Deleted, Upserted
    <2>2. Ids(ActiveOf(t.seen)) \subseteq Id
      BY <1>2, IdsTyped DEF TxRecord, ActiveOf
    <2>3. vectors' \subseteq Id /\ lost' \subseteq Id /\ memory'.rev <= MaxRevision
      BY <1>2, <2>1, <2>2
    <2>4. Closed.rev <= MaxRevision
      BY <1>2 DEF Closed
    <2>. QED
      BY <1>2, <2>1, <2>3, <2>4, BoundsKept
  <1>8. CASE ClearVectors(s)
    <2>1. PICK n : n = [t EXCEPT !.step = "load"]
      OBVIOUS
    <2>2. n.rev = t.rev
      BY <1>2, <2>1 DEF TxRecord
    <2>3. /\ tx' = [tx EXCEPT ![s] = n] /\ UNCHANGED <<memory, nextId, lost>>
          /\ vectors' \subseteq Id /\ cleared' \subseteq Id
      BY <1>1, <1>2, <1>8, <2>1 DEF ClearVectors
    <2>. QED
      BY <1>2, <2>2, <2>3, BoundsKept
  <1>9. CASE LoadVectors(s)
    <2>1. Ids(ActiveOf(t.seen)) \subseteq Id
      BY <1>2, IdsTyped DEF TxRecord, ActiveOf
    <2>2. /\ tx' = [tx EXCEPT ![s] = Closed] /\ UNCHANGED <<memory, nextId>>
          /\ vectors' \subseteq Id /\ cleared' \subseteq Id /\ lost' \subseteq Id
      BY <1>1, <1>2, <1>9, <2>1 DEF LoadVectors, Upserted
    <2>3. Closed.rev <= MaxRevision
      BY <1>2 DEF Closed
    <2>. QED
      BY <1>2, <2>2, <2>3, BoundsKept
  <1>. QED
    BY <1>1, <1>3, <1>4, <1>5, <1>6, <1>7, <1>8, <1>9, ExtractInBounds DEF SessionStep

-----------------------------------------------------------------------------

LEMMA IndexStep ==
    ASSUME TxsOK, IndexInv, NEW s \in Session, SessionStep(s)
    PROVE  IndexInv'
  <1>1. WithinBounds'
    BY StepInBounds DEF IndexInv
  <1>2. ASSUME memory' = memory
        PROVE  UniqueIds(memory.rows)'
    BY <1>2 DEF IndexInv, UniqueIds
  <1>3. CASE Commit(s)
    <2>1. UniqueIds(memory'.rows)
      BY <1>3, CommitsUnique
    <2>2. UniqueIds(memory.rows)'
      BY ONLY <2>1 DEF UniqueIds
    <2>. QED
      BY <1>1, <1>3, <2>2, CommitsTracked, CommitsIndexed DEF IndexInv
  <1>4. CASE \/ \E d \in Draft : Begin(s, Open("extract", "agent", {d}))
             \/ Begin(s, Open("rebuild", "wipe", Draft))
             \/ Begin(s, Open("invalidate", "read", {}))
             \/ Begin(s, Open("search", "fill", {}))
             \/ Begin(s, Open("reindex", "clear", {}))
    <2>1. memory' = memory
      BY <1>4 DEF Begin
    <2>2. IndexOK' /\ Indexed'
      <3>1. ASSUME NEW d \in Draft, Begin(s, Open("extract", "agent", {d}))
            PROVE  IndexOK' /\ Indexed'
        BY <3>1, BeginsTracked
      <3>2. CASE Begin(s, Open("rebuild", "wipe", Draft))
        BY <3>2, BeginsTracked
      <3>3. CASE Begin(s, Open("invalidate", "read", {})) \/ Begin(s, Open("search", "fill", {}))
        BY <3>3, BeginsTracked
      <3>4. CASE Begin(s, Open("reindex", "clear", {}))
        BY <3>4, BeginsTracked
      <3>. QED
        BY <1>4, <3>1, <3>2, <3>3, <3>4
    <2>. QED
      BY <1>1, <1>2, <2>1, <2>2 DEF IndexInv
  <1>5. CASE Extract(s) \/ Bump(s)
    <2>1. memory' = memory
      BY <1>5 DEF Extract, Bump
    <2>. QED
      BY <1>1, <1>2, <1>5, <2>1, ExtractsTracked, BumpsTracked DEF IndexInv
  <1>6. ASSUME NEW r \in tx[s].work, Invalidate(s, r)
        PROVE  IndexInv'
    <2>1. memory' = memory
      BY <1>6 DEF Invalidate
    <2>. QED
      BY <1>1, <1>2, <1>6, <2>1, InvalidatesTracked DEF IndexInv
  <1>7. CASE WipeVectors(s) \/ DeleteRows(s)
    <2>1. memory' = memory
      BY <1>7 DEF WipeVectors, DeleteRows
    <2>. QED
      BY <1>1, <1>2, <1>7, <2>1, WipesTracked, DeletesTracked DEF IndexInv
  <1>8. CASE Fail(s) \/ FillCache(s)
    <2>1. memory' = memory
      BY <1>8 DEF Fail, FillCache
    <2>. QED
      BY <1>1, <1>2, <1>8, <2>1, FailsTracked, FillsTracked DEF IndexInv
  <1>9. CASE ClearVectors(s) \/ LoadVectors(s)
    <2>1. memory' = memory
      BY <1>9 DEF ClearVectors, LoadVectors
    <2>. QED
      BY <1>1, <1>2, <1>9, <2>1, ClearsTracked, LoadsTracked DEF IndexInv
  <1>. QED
    BY <1>3, <1>4, <1>5, <1>6, <1>7, <1>8, <1>9 DEF SessionStep

LEMMA IndexInvKept == TxsOK /\ IndexInv /\ [MemoryNext]_memoryVars => IndexInv'
  <1>1. ASSUME IndexInv, UNCHANGED memoryVars
        PROVE  IndexInv'
    BY <1>1 DEF memoryVars, IndexInv, WithinBounds, UniqueIds, IndexOK, TracksIndex, Indexed,
               Covered
  <1>. QED
    BY <1>1, IndexStep DEF MemoryNext

LEMMA MemoryInit_IndexInv == MemoryInit => IndexInv
  <1>1. SUFFICES ASSUME MemoryInit
                 PROVE  IndexInv
    OBVIOUS
  <1>2. /\ memory.rows = {} /\ memory.rev = 0 /\ \A s \in Session : tx[s] = Closed
        /\ vectors = {} /\ lost = {} /\ cleared = {} /\ nextId = 1
    BY <1>1 DEF MemoryInit
  <1>3. Ids({}) = {} /\ UniqueIds({}) /\ ActiveOf({}) = {}
    BY DEF Ids, UniqueIds, ActiveOf
  <1>4. IndexOK
    BY <1>2, <1>3, ClosedTracks DEF IndexOK
  <1>5. WithinBounds
    BY <1>2, MemoryBounds DEF WithinBounds, Closed
  <1>. QED
    BY <1>2, <1>3, <1>4, <1>5 DEF IndexInv, Indexed

LEMMA MemoryInductive == MemorySpec => [](MemoryInv /\ IndexInv)
  <1>1. MemoryInv => TxsOK
    BY DEF MemoryInv
  <1>. QED
    BY MemoryInit_MemoryInv, MemoryInvKept, MemoryInit_IndexInv, IndexInvKept, <1>1, PTL
       DEF MemorySpec

\* Rows, vectors and sessions are well formed, no two rows have an id, and one session at most
\* holds the row of project_memory_states.
THEOREM MemoryWellFormed == MemorySpec => []MemoryTypeOK
  <1>1. MemoryInv /\ IndexInv => MemoryTypeOK
    <2>1. SUFFICES ASSUME MemoryInv, IndexInv
                   PROVE  MemoryTypeOK
      OBVIOUS
    <2>2. TxsOK /\ CacheDated /\ WithinBounds /\ UniqueIds(memory.rows)
      BY <2>1 DEF MemoryInv, IndexInv
    <2>3. memory.rev \in 0 .. MaxRevision /\ memory \in [rows : SUBSET Row, rev : 0 .. MaxRevision]
      BY <2>2, MemoryBounds DEF TxsOK, WithinBounds
    <2>4. cache \in {NoEntry} \cup [rev : 0 .. MaxRevision, hits : SUBSET Id]
      BY <2>2, <2>3, MemoryBounds DEF CacheDated
    <2>5. ASSUME NEW s \in Session
          PROVE  tx[s] \in Transaction
      BY <2>2, <2>5, MemoryBounds DEF TxsOK, WithinBounds, TxRecord, Transaction
    <2>6. tx \in [Session -> Transaction]
      BY <2>2, <2>5 DEF TxsOK
    <2>. QED
      BY <2>2, <2>3, <2>4, <2>6 DEF MemoryTypeOK, WithinBounds, UniqueIds, TxsOK, OneLock
  <1>. QED
    BY MemoryInductive, <1>1, PTL

\* A memory in the active index has its vector, but for what a session deleted that has not
\* committed (not yet, or never), and for what a rebuild of the whole index deleted without
\* having read its row.
THEOREM IndexIsComplete == MemorySpec => []Indexed
  <1>1. IndexInv => Indexed
    BY DEF IndexInv
  <1>. QED
    BY MemoryInductive, <1>1, PTL

\* rebuild repairs the index: when it commits, every active memory has a vector, whatever was lost
\* before and whichever memories are written meanwhile; except what a rebuild of the whole index
\* that runs at the same time deletes between and has not read.
THEOREM RebuildsHeal == MemorySpec => RebuildHeals
  <1>. DEFINE Heals == \A s \in Session : tx[s].wiped /\ memory' # memory /\ tx'[s] = Closed =>
                          Ids(ActiveOf(memory'.rows)) \subseteq vectors' \cup cleared'
  <1>1. ASSUME TxsOK, IndexInv, MemoryNext
        PROVE  Heals
    <2>1. PICK s \in Session : SessionStep(s)
      BY <1>1 DEF MemoryNext
    <2>2. CASE memory' = memory
      BY <2>2
    <2>3. CASE memory' # memory
      <3>1. Commit(s)
        BY <2>1, <2>3 DEF SessionStep, Begin, Extract, Bump, Invalidate, WipeVectors, DeleteRows,
                          ClearVectors, LoadVectors, Fail, FillCache
      <3>2. \A o \in Session \ {s} : tx'[o] = tx[o]
        BY <1>1, <3>1 DEF Commit, TxsOK
      <3>3. ~Closed.wiped
        BY DEF Closed
      <3>. QED
        BY <1>1, <3>1, <3>2, <3>3, CommitsIndexed DEF Covered
    <2>. QED
      BY <2>2, <2>3
  <1>2. MemoryInv /\ IndexInv /\ [MemoryNext]_memoryVars => [Heals]_memoryVars
    BY <1>1 DEF MemoryInv
  <1>. QED
    BY MemoryInductive, <1>2, PTL DEF MemorySpec, RebuildHeals

(***************************************************************************)
(* A session that has deleted the rows extracts the drafts again, the      *)
(* oldest first: what it has stored so far is older than what is still to  *)
(* be extracted, so that whatever supersedes a row comes from a later      *)
(* draft.                                                                  *)
(***************************************************************************)

\* Every row that gave way to a draft gave way to a later one.
Ordered(table) == \A r \in table : r.ended \in Draft => r.draft < r.ended

OlderThan(table, drafts) == \A r \in table, d \in drafts : r.draft < d

InOrder(t) ==
    t.wiped =>
        /\ Ordered(t.work)
        /\ t.step = "agent" => OlderThan(t.work, t.todo)
        /\ t.step = "bump" => t.todo # {} /\ OlderThan(t.work, t.todo \ {Current(t)})
        /\ t.step \in {"agent", "bump", "commit"}

LEMMA CurrentIsFirst ==
    ASSUME NEW t \in TxRecord, t.todo # {}
    PROVE  /\ Current(t) \in t.todo /\ Current(t) \in Draft
           /\ \A e \in t.todo \ {Current(t)} : Current(t) < e
  <1>1. \E d \in t.todo : \A e \in t.todo : d <= e
    BY Earliest, DraftsAreNumbers DEF TxRecord
  <1>2. Current(t) \in t.todo /\ \A e \in t.todo : Current(t) <= e
    BY <1>1 DEF Current
  <1>3. \A d, e \in Nat : d <= e /\ d # e => d < e
    OBVIOUS
  <1>. QED
    BY <1>2, <1>3, DraftsAreNumbers DEF TxRecord

\* The draft in hand is done; the next one is later than everything stored.
LEMMA NextDraftInOrder ==
    ASSUME NEW t \in TxRecord, t.todo # {},
           t.wiped => Ordered(t.work) /\ OlderThan(t.work, t.todo \ {Current(t)})
    PROVE  InOrder(NextDraft(t))
  <1>. DEFINE rest == t.todo \ {Current(t)}
              n == [t EXCEPT !.todo = rest, !.fresh = {},
                             !.step = IF rest = {} THEN "commit" ELSE "agent"]
  <1>1. /\ n.todo = rest /\ n.work = t.work /\ n.wiped = t.wiped
        /\ n.step = IF rest = {} THEN "commit" ELSE "agent"
    BY DEF TxRecord
  <1>2. n = NextDraft(t)
    BY DEF NextDraft
  <1>. HIDE DEF n
  <1>3. InOrder(n)
    BY <1>1 DEF InOrder
  <1>. QED
    BY <1>2, <1>3

\* The rows of a draft end earlier ones, and come after them.
LEMMA ExtractedInOrder ==
    ASSUME NEW table \in SUBSET Row, NEW ids, NEW d \in Draft, NEW drafts \in SUBSET Draft,
           Ordered(table), OlderThan(table, drafts), d \in drafts, \A e \in drafts \ {d} : d < e,
           NEW t, NEW facts, NEW id
    PROVE  LET all == EndRows(table, ids, d) \cup NewRows(t, d, facts, id)
           IN  Ordered(all) /\ OlderThan(all, drafts \ {d})
  <1>1. ASSUME NEW r \in EndRows(table, ids, d)
        PROVE  /\ r.ended \in Draft => r.draft < r.ended
               /\ \A e \in drafts : r.draft < e
    <2>1. PICK q \in table : r = IF q.id \in ids THEN [q EXCEPT !.ended = d] ELSE q
      BY <1>1 DEF EndRows
    <2>2. r.draft = q.draft /\ r.ended \in {q.ended, d}
      BY <2>1 DEF Row
    <2>. QED
      BY <2>1, <2>2 DEF Ordered, OlderThan
  <1>2. ASSUME NEW r \in NewRows(t, d, facts, id)
        PROVE  r.draft = d /\ r.ended \notin Draft
    BY <1>2, MemoryBounds DEF NewRows, Active, Draft
  <1>. QED
    BY <1>1, <1>2 DEF Ordered, OlderThan

LEMMA SessionInOrder ==
    ASSUME TxsOK, NEW s \in Session, SessionStep(s), InOrder(tx[s])
    PROVE  InOrder(tx'[s]) /\ \A o \in Session \ {s} : tx'[o] = tx[o]
  <1>. DEFINE t == tx[s]
              d == Current(t)
  <1>1. t \in TxRecord /\ TxFits(t, memory) /\ tx \in [Session -> TxRecord]
    BY DEF TxsOK, TxFits
  <1>2. ASSUME NEW n, tx' = [tx EXCEPT ![s] = n], InOrder(n)
        PROVE  InOrder(tx'[s]) /\ \A o \in Session \ {s} : tx'[o] = tx[o]
    BY <1>1, <1>2
  <1>3. ASSUME NEW n, ~n.wiped PROVE InOrder(n)
    BY <1>3 DEF InOrder
  <1>4. ~Closed.wiped /\ \A op, step, todo : ~Open(op, step, todo).wiped
    BY DEF Closed, Open
  <1>5. ASSUME NEW n, Begin(s, n), ~n.wiped
        PROVE  InOrder(tx'[s]) /\ \A o \in Session \ {s} : tx'[o] = tx[o]
    BY <1>2, <1>3, <1>5 DEF Begin
  <1>6. CASE Commit(s) \/ Fail(s) \/ FillCache(s) \/ LoadVectors(s)
    <2>1. tx' = [tx EXCEPT ![s] = Closed]
      BY <1>6 DEF Commit, Fail, FillCache, LoadVectors
    <2>. QED
      BY <1>2, <1>3, <1>4, <2>1
  <1>7. CASE Extract(s)
    <2>1. t.step = "agent" /\ t.todo # {} /\ t.op # "none"
      BY <1>1, <1>7 DEF Extract, At, TxFits, Disciplined
    <2>2. d \in t.todo /\ d \in Draft /\ (\A e \in t.todo \ {d} : d < e) /\ t.todo \in SUBSET Draft
          /\ t.work \in SUBSET Row
      BY <1>1, <2>1, CurrentIsFirst DEF TxRecord
    <2>3. t.wiped => Ordered(t.work) /\ OlderThan(t.work, t.todo)
      BY <2>1 DEF InOrder
    <2>4. CASE tx' = [tx EXCEPT ![s] = NextDraft(t)]
      <3>1. InOrder(NextDraft(t))
        BY <1>1, <2>1, <2>3, NextDraftInOrder DEF OlderThan
      <3>. QED
        BY <1>2, <2>4, <3>1
    <2>5. ASSUME NEW new, NEW ids, NEW id,
                 tx' = [tx EXCEPT ![s] = [t EXCEPT
                     !.work = EndRows(@, Ids(Superseded(t.work, NewRows(t, d, new, id))), d)
                                  \cup NewRows(t, d, new, id),
                     !.fresh = ids, !.gone = @ \cup Ids(Superseded(t.work, NewRows(t, d, new, id))),
                     !.step = "bump"]]
          PROVE  InOrder(tx'[s]) /\ \A o \in Session \ {s} : tx'[o] = tx[o]
      <3>. DEFINE table == NewRows(t, d, new, id)
                  out == Ids(Superseded(t.work, table))
                  work == EndRows(t.work, out, d) \cup table
                  n == [t EXCEPT !.work = work, !.fresh = ids, !.gone = t.gone \cup out,
                                 !.step = "bump"]
      <3>1. t.wiped => Ordered(work) /\ OlderThan(work, t.todo \ {d})
        BY <2>2, <2>3, ExtractedInOrder
      <3>2. tx' = [tx EXCEPT ![s] = n]
        BY <2>5
      <3>. HIDE DEF work, out
      <3>3. n.work = work /\ n.todo = t.todo /\ n.wiped = t.wiped /\ n.step = "bump"
        BY <1>1 DEF TxRecord
      <3>4. Current(n) = d
        BY <3>3 DEF Current
      <3>. HIDE DEF n
      <3>5. InOrder(n)
        BY <2>1, <3>1, <3>3, <3>4 DEF InOrder
      <3>. QED
        BY <1>2, <3>2, <3>5
    <2>6. PICK facts \in SUBSET Fact :
            LET new == {f \in facts : ~HashTaken(t.work, d, f)}
                ids == nextId .. nextId + Cardinality(new) - 1
            IN  \/ tx' = [tx EXCEPT ![s] = NextDraft(t)]
                \/ \E id \in [new -> ids] :
                     tx' = [tx EXCEPT ![s] = [t EXCEPT
                       !.work = EndRows(@, Ids(Superseded(t.work, NewRows(t, d, new, id))), d)
                                    \cup NewRows(t, d, new, id),
                       !.fresh = ids,
                       !.gone = @ \cup Ids(Superseded(t.work, NewRows(t, d, new, id))),
                       !.step = "bump"]]
      BY <1>7, Zenon DEF Extract
    <2>. HIDE DEF t, d
    <2>. QED
      BY <2>4, <2>5, <2>6, Zenon
  <1>8. CASE Bump(s)
    <2>. DEFINE b == Bumped(s, t)
    <2>1. t.step = "bump" /\ t.op # "none" /\ tx' = [tx EXCEPT ![s] = NextDraft(b)]
      BY <1>8 DEF Bump, At
    <2>2. b \in TxRecord /\ b.todo = t.todo /\ b.wiped = t.wiped
      BY <1>1, <2>1, BumpedRecord DEF TxsOK
    <2>3. b.work = t.work
      BY <1>1 DEF Bumped, TxRecord
    <2>4. Current(b) = Current(t)
      BY <2>2 DEF Current
    <2>. HIDE DEF b
    <2>5. CASE t.wiped
      <3>1. InOrder(NextDraft(b))
        BY <2>1, <2>2, <2>3, <2>4, <2>5, NextDraftInOrder DEF InOrder
      <3>. QED
        BY <1>2, <2>1, <3>1
    <2>6. CASE ~t.wiped
      <3>1. ~NextDraft(b).wiped
        BY <2>2, <2>6 DEF NextDraft, TxRecord
      <3>. QED
        BY <1>2, <1>3, <2>1, <3>1
    <2>. QED
      BY <2>5, <2>6
  <1>9. CASE \E r \in t.work : Invalidate(s, r)
    <2>1. PICK r \in t.work : Invalidate(s, r)
      BY <1>9
    <2>2. ~t.wiped
      BY <2>1 DEF Invalidate, At, InOrder
    <2>. DEFINE n == [t EXCEPT !.work = EndRows(t.work, {r.id}, Author), !.gone = t.gone \cup {r.id},
                               !.step = "bump"]
    <2>3. tx' = [tx EXCEPT ![s] = n]
      BY <2>1 DEF Invalidate
    <2>4. ~n.wiped
      BY <1>1, <2>2 DEF TxRecord
    <2>. HIDE DEF n
    <2>. QED
      BY <1>2, <1>3, <2>3, <2>4
  <1>10. CASE WipeVectors(s)
    <2>. DEFINE n == [t EXCEPT !.gone = Ids(t.seen), !.step = "delete"]
    <2>1. tx' = [tx EXCEPT ![s] = n] /\ t.step = "wipe"
      BY <1>10 DEF WipeVectors, At
    <2>2. ~n.wiped
      BY <1>1, <2>1 DEF TxRecord, InOrder
    <2>. HIDE DEF n
    <2>. QED
      BY <1>2, <1>3, <2>1, <2>2
  <1>11. CASE DeleteRows(s)
    <2>. DEFINE b == Bumped(s, t)
                n == [b EXCEPT !.work = {}, !.wiped = TRUE,
                               !.step = IF b.todo = {} THEN "commit" ELSE "agent"]
    <2>1. tx' = [tx EXCEPT ![s] = n] /\ t.op # "none"
      BY <1>11 DEF DeleteRows, At
    <2>2. b \in TxRecord
      BY <1>1, <2>1, BumpedRecord DEF TxsOK
    <2>. HIDE DEF b
    <2>3. n.work = {} /\ n.step = (IF b.todo = {} THEN "commit" ELSE "agent")
      BY <2>2 DEF TxRecord
    <2>. HIDE DEF n
    <2>4. InOrder(n)
      BY <2>3 DEF InOrder, Ordered, OlderThan
    <2>. QED
      BY <1>2, <2>1, <2>4
  <1>12. CASE ClearVectors(s)
    <2>. DEFINE n == [t EXCEPT !.step = "load"]
    <2>1. tx' = [tx EXCEPT ![s] = n] /\ t.step = "clear"
      BY <1>12 DEF ClearVectors, At
    <2>2. ~n.wiped
      BY <1>1, <2>1 DEF TxRecord, InOrder
    <2>. HIDE DEF n
    <2>. QED
      BY <1>2, <1>3, <2>1, <2>2
  <1>. QED
    BY <1>4, <1>5, <1>6, <1>7, <1>8, <1>9, <1>10, <1>11, <1>12 DEF SessionStep

SessionsInOrder == \A s \in Session : InOrder(tx[s])

LEMMA InOrderKept == MemorySpec => []SessionsInOrder
  <1>1. MemoryInit => SessionsInOrder
    BY DEF MemoryInit, SessionsInOrder, InOrder, Closed
  <1>2. TxsOK /\ SessionsInOrder /\ [MemoryNext]_memoryVars => SessionsInOrder'
    <2>. SUFFICES ASSUME TxsOK, SessionsInOrder, [MemoryNext]_memoryVars PROVE SessionsInOrder'
      OBVIOUS
    <2>1. ASSUME NEW s \in Session, SessionStep(s) PROVE SessionsInOrder'
      <3>1. InOrder(tx'[s]) /\ \A o \in Session \ {s} : tx'[o] = tx[o]
        BY <2>1, SessionInOrder DEF SessionsInOrder
      <3>. QED
        BY <3>1 DEF SessionsInOrder
    <2>2. CASE UNCHANGED memoryVars
      BY <2>2 DEF memoryVars, SessionsInOrder
    <2>. QED
      BY <2>1, <2>2 DEF MemoryNext
  <1>3. MemoryInv => TxsOK
    BY DEF MemoryInv
  <1>. QED
    BY <1>1, <1>2, <1>3, MemoryInductive, PTL DEF MemorySpec

\* When a rebuild commits, no memory gives way to canon older than itself, even if extractions that
\* overtook one another had left some that do.
THEOREM RebuildsRestoreOrder == MemorySpec => RebuildRestoresOrder
  <1>. DEFINE Restores == \A s \in Session : tx[s].wiped /\ memory' # memory /\ tx'[s] = Closed =>
                             SupersededByNewer'
  <1>1. ASSUME TxsOK, SessionsInOrder, MemoryNext
        PROVE  Restores
    <2>. SUFFICES ASSUME NEW r \in Session, tx[r].wiped, memory' # memory, tx'[r] = Closed
                  PROVE  SupersededByNewer'
      OBVIOUS
    <2>1. PICK s \in Session : SessionStep(s)
      BY <1>1 DEF MemoryNext
    <2>2. Commit(s)
      BY <2>1 DEF SessionStep, Begin, Extract, Bump, Invalidate, WipeVectors, DeleteRows,
                  ClearVectors, LoadVectors, Fail, FillCache
    <2>3. r = s
      <3>1. \A o \in Session \ {s} : tx'[o] = tx[o]
        BY <1>1, <2>2 DEF Commit, TxsOK
      <3>2. ~Closed.wiped
        BY DEF Closed
      <3>. QED
        BY <3>1, <3>2
    <2>4. memory'.rows = tx[s].work
      BY <2>2, <2>3 DEF Commit
    <2>5. Ordered(tx[s].work)
      BY <1>1, <2>3 DEF SessionsInOrder, InOrder
    <2>. QED
      BY <2>4, <2>5 DEF Ordered, SupersededByNewer
  <1>2. MemoryInv => TxsOK
    BY DEF MemoryInv
  <1>3. TxsOK /\ SessionsInOrder /\ [MemoryNext]_memoryVars => [Restores]_memoryVars
    BY <1>1
  <1>. QED
    BY MemoryInductive, InOrderKept, <1>2, <1>3, PTL DEF MemorySpec, RebuildRestoresOrder

-----------------------------------------------------------------------------
(***************************************************************************)
(* Ingest.  What rows refer to stays, and what is committed can be         *)
(* found. A session that holds a row works on a content nobody else has    *)
(* stored, and no two notes have an id: so what an upload or a failed      *)
(* request takes back is its own, and a row without its objects or         *)
(* vectors is one whose session is not over, or whose project is gone.     *)
(***************************************************************************)

NoteIds(notes) == {n.id : n \in notes}

\* The notes a session works on, and the objects its upload may have put.
NotesOf(q) == q.todo \cup NoteIds(q.got)
KeysOf(q) == {SourceKey(c) : c \in q.text} \cup {ParsedKey(c) : c \in q.text}

Inserts(q) == q.step \in {"source", "parsed", "index", "commit"}

\* A session that holds a row works on a content nobody has stored, has put what its step says,
\* and what it read is still there as long as the project is.
Fits(q) ==
    /\ q.doc = NoDoc => q.text = {} /\ q.step \notin {"row", "source", "parsed", "index"}
    /\ \A c, d \in q.text : c = d
    /\ q.step \in {"fetch", "index_notes", "note_rows"} => q.doc = NoDoc
    /\ q.doc # NoDoc => q.got = {} /\ q.put \subseteq KeysOf(q)
    /\ Inserts(q) => rows.exists /\ q.text \cap StoredContent(rows) = {}
    /\ q.step \in {"parsed", "index", "commit"} => \A c \in q.text : SourceKey(c) \in objects
    /\ q.step \in {"index", "commit"} => \A c \in q.text : ParsedKey(c) \in objects
    /\ NotesOf(q) \subseteq used /\ NotesOf(q) \cap NoteIds(rows.notes) = {}
    /\ q.ids \subseteq NoteIds(q.got)
    /\ rows.exists =>
          /\ q.seen.docs \subseteq rows.docs /\ q.seen.notes \subseteq rows.notes
          /\ \A n \in q.got : n.object => NoteKey(n.id) \in objects

\* Two sessions hold different contents and notes.
Apart(q, p) ==
    /\ Inserts(q) /\ Inserts(p) => q.text \cap p.text = {}
    /\ NotesOf(q) \cap NotesOf(p) = {}

RowsOK ==
    /\ ~rows.exists => rows.docs = {} /\ rows.notes = {}
    /\ NoteIds(rows.notes) \subseteq used

SessionsOK ==
    /\ \A r \in Request : Fits(request[r])
    /\ \A r, o \in Request : r # o => Apart(request[r], request[o])

\* What has its vector, has lost it to a rebuild that did not list it, or will be given it.
InIndex ==
    indexed \cup unlisted \cup UNION {Listed(request[r].seen) : r \in {o \in Request : AtStep(o, "load")}}

DocIds(docs) == {d.id : d \in docs}

\* What a session is about to commit has its vectors.
Vectored(q) ==
    /\ q.step = "commit" => {q.doc} \ {NoDoc} \subseteq InIndex
    /\ q.step \in {"note_rows", "commit"} => Fetched(q.got) \subseteq InIndex

Steady == rows.exists /\ ~damaged /\ ~DeletionRuns

SteadyOK ==
    Steady =>
        /\ ObjectKeys(rows) \subseteq objects
        /\ DocIds(rows.docs) \cup Fetched(rows.notes) \subseteq InIndex
        /\ \A r \in Request : Vectored(request[r])

IngestInv == IngestTypeOK /\ RowsOK /\ SessionsOK /\ SteadyOK

-----------------------------------------------------------------------------
(* Keys *)

LEMMA KeysOfRows ==
    ASSUME NEW seen, NEW k
    PROVE  k \in ObjectKeys(seen) <=>
             \/ \E d \in seen.docs : k \in {SourceKey(d.content), ParsedKey(d.content)}
             \/ \E m \in seen.notes : m.object /\ k = NoteKey(m.id)
  <1>1. k \in UNION {{SourceKey(d.content), ParsedKey(d.content)} : d \in seen.docs} <=>
          \E d \in seen.docs : k \in {SourceKey(d.content), ParsedKey(d.content)}
    OBVIOUS
  <1>2. k \in {NoteKey(n.id) : n \in {m \in seen.notes : m.object}} <=>
          \E m \in seen.notes : m.object /\ k = NoteKey(m.id)
    OBVIOUS
  <1>. QED
    BY <1>1, <1>2 DEF ObjectKeys

LEMMA KeysDiffer ==
    /\ \A c, d : SourceKey(c) = SourceKey(d) => c = d
    /\ \A c, d : ParsedKey(c) = ParsedKey(d) => c = d
    /\ \A c, d : NoteKey(c) = NoteKey(d) => c = d
    /\ \A c, d : SourceKey(c) # ParsedKey(d) /\ SourceKey(c) # NoteKey(d) /\ ParsedKey(c) # NoteKey(d)
  BY DEF SourceKey, ParsedKey, NoteKey

\* What is removed is not what session q has put.
Spares(q) ==
    \A k \in objects \ objects' :
        /\ Inserts(q) => k \notin KeysOf(q)
        /\ rows.exists => \A m \in NotesOf(q) : k # NoteKey(m)

LEMMA StillFits ==
    ASSUME NEW q, Fits(q), rows' = rows, used \subseteq used', Spares(q)
    PROVE  Fits(q)'
  <1>1. q.step \in {"parsed", "index", "commit"} => \A c \in q.text : SourceKey(c) \in objects'
    BY DEF Fits, Spares, Inserts, KeysOf
  <1>2. q.step \in {"index", "commit"} => \A c \in q.text : ParsedKey(c) \in objects'
    BY DEF Fits, Spares, Inserts, KeysOf
  <1>3. rows.exists => \A n \in q.got : n.object => NoteKey(n.id) \in objects'
    BY DEF Fits, Spares, NotesOf, NoteIds
  <1>. QED
    BY <1>1, <1>2, <1>3 DEF Fits

\* Session r goes on as n; the rows stay.
Moves(r, n) ==
    /\ request' = [request EXCEPT ![r] = n] /\ n \in RequestState
    /\ rows' = rows /\ used \subseteq used'
    /\ objects' \subseteq Key /\ indexed' \subseteq DocId \cup ResearchNote
    /\ used' \subseteq DocId \cup ResearchNote /\ unlisted' \subseteq DocId \cup ResearchNote
    /\ damaged' \in BOOLEAN /\ (damaged => damaged')

LEMMA SessionMoves ==
    ASSUME IngestInv, NEW r \in Request, NEW n, Moves(r, n), Fits(n)',
           \A o \in Request \ {r} : Apart(n, request[o]) /\ Spares(request[o])
    PROVE  IngestTypeOK' /\ RowsOK' /\ SessionsOK'
  <1>1. /\ request \in [Request -> RequestState] /\ request'[r] = n
        /\ \A o \in Request \ {r} : request'[o] = request[o]
    BY DEF IngestInv, IngestTypeOK, Moves
  <1>2. IngestTypeOK'
    BY <1>1 DEF IngestInv, IngestTypeOK, Moves
  <1>3. RowsOK'
    BY DEF IngestInv, RowsOK, Moves
  <1>4. ASSUME NEW o \in Request
        PROVE  Fits(request[o])'
    <2>1. CASE o = r
      BY <1>1, <2>1 DEF Fits
    <2>2. CASE o # r
      <3>. DEFINE q == request[o]
      <3>1. Fits(q) /\ Spares(q) /\ rows' = rows /\ used \subseteq used'
        BY <2>2 DEF IngestInv, SessionsOK, Moves
      <3>2. PICK p : p = q
        OBVIOUS
      <3>3. Fits(p) /\ Spares(p)
        BY <3>1, <3>2
      <3>4. Fits(p)'
        BY <3>1, <3>3, StillFits
      <3>. QED
        BY <1>1, <2>2, <3>2, <3>4 DEF Fits
    <2>. QED
      BY <2>1, <2>2
  <1>5. ASSUME NEW a \in Request, NEW b \in Request, a # b
        PROVE  Apart(request[a], request[b])'
    <2>1. \A q, p : Apart(q, p) <=> Apart(p, q)
      BY DEF Apart
    <2>2. Apart(request'[a], request'[b])
      BY <1>1, <1>5, <2>1 DEF IngestInv, SessionsOK
    <2>. QED
      BY <2>2
  <1>. QED
    BY <1>2, <1>3, <1>4, <1>5 DEF SessionsOK

\* What the index loses is of session r alone.
OwnLoss(r) ==
    \A x \in InIndex \ InIndex' :
        /\ x \in ResearchNote /\ x \notin NoteIds(rows.notes)
        /\ \A o \in Request \ {r} : x \notin NotesOf(request[o])

\* While a project is deleted nothing has to be in place, and after a failure of that either.
Unsettled(r, n) ==
    request[r].step \in {"objects", "project"} => damaged' \/ n.step \in {"objects", "project"}

LEMMA SteadyMoves ==
    ASSUME IngestInv, NEW r \in Request, NEW n, Moves(r, n), Unsettled(r, n),
           Steady => ObjectKeys(rows) \cap (objects \ objects') = {},
           Steady' => OwnLoss(r),
           Steady' => Vectored(n)'
    PROVE  SteadyOK'
  <1>1. /\ request \in [Request -> RequestState] /\ request'[r] = n /\ rows' = rows
        /\ \A o \in Request \ {r} : request'[o] = request[o]
    BY DEF IngestInv, IngestTypeOK, Moves
  <1>. SUFFICES ASSUME Steady'
                PROVE  /\ ObjectKeys(rows) \subseteq objects'
                       /\ DocIds(rows.docs) \cup Fetched(rows.notes) \subseteq InIndex'
                       /\ \A o \in Request : Vectored(request[o])'
    BY <1>1 DEF SteadyOK
  <1>2. Steady
    <2>1. ~damaged /\ rows.exists /\ ~damaged'
      BY <1>1 DEF Steady, Moves
    <2>2. ~DeletionRuns
      <3>1. ASSUME NEW o \in Request, request[o].step \in {"objects", "project"}
            PROVE  FALSE
        <4>1. request'[o].step \in {"objects", "project"}
          BY <1>1, <2>1, <3>1 DEF Unsettled
        <4>. QED
          BY <4>1 DEF Steady, DeletionRuns
      <3>. QED
        BY <3>1 DEF DeletionRuns
    <2>. QED
      BY <2>1, <2>2 DEF Steady
  <1>3. /\ ObjectKeys(rows) \subseteq objects
        /\ DocIds(rows.docs) \cup Fetched(rows.notes) \subseteq InIndex
        /\ \A o \in Request : Vectored(request[o])
    BY <1>2 DEF IngestInv, SteadyOK
  <1>4. ObjectKeys(rows) \subseteq objects'
    BY <1>2, <1>3
  <1>5. \A x \in DocId : x \notin ResearchNote
    BY IngestNames
  <1>6. DocIds(rows.docs) \cup Fetched(rows.notes) \subseteq InIndex'
    <2>1. DocIds(rows.docs) \subseteq DocId /\ Fetched(rows.notes) \subseteq NoteIds(rows.notes)
      BY DEF IngestInv, IngestTypeOK, DocRow, DocIds, Fetched, NoteIds
    <2>. QED
      BY <1>3, <1>5, <2>1 DEF OwnLoss
  <1>7. ASSUME NEW o \in Request \ {r}
        PROVE  Vectored(request[o])'
    <2>. DEFINE q == request[o]
    <2>1. q.doc \in DocId \cup {NoDoc} /\ Fetched(q.got) \subseteq NotesOf(q)
      BY DEF IngestInv, IngestTypeOK, RequestState, Fetched, NotesOf, NoteIds
    <2>2. Vectored(q) /\ request'[o] = q
      BY <1>1, <1>3
    <2>3. ASSUME NEW x \in InIndex, x \in DocId \/ x \in NotesOf(q)
          PROVE  x \in InIndex'
      BY <1>5, <2>3 DEF OwnLoss
    <2>. QED
      BY <2>1, <2>2, <2>3 DEF Vectored
  <1>8. Vectored(request[r])'
    BY <1>1 DEF Vectored
  <1>. QED
    BY <1>4, <1>6, <1>7, <1>8

LEMMA Moved ==
    ASSUME IngestInv, NEW r \in Request, NEW n, Moves(r, n), Fits(n)', Unsettled(r, n),
           \A o \in Request \ {r} : Apart(n, request[o]) /\ Spares(request[o]),
           Steady => ObjectKeys(rows) \cap (objects \ objects') = {},
           Steady' => OwnLoss(r),
           Steady' => Vectored(n)'
    PROVE  IngestInv'
  BY SessionMoves, SteadyMoves DEF IngestInv

\* Nothing is removed from the objects.
LEMMA NothingRemoved ==
    ASSUME objects \subseteq objects'
    PROVE  /\ \A q : Spares(q)
           /\ ObjectKeys(rows) \cap (objects \ objects') = {}
  BY DEF Spares

\* What the index had, it has, unless session r was at its load.
LEMMA IndexKept ==
    ASSUME NEW r \in Request, NEW n, Moves(r, n), request \in [Request -> RequestState],
           NEW load, load = IF n.step = "load" THEN Listed(n.seen) ELSE {},
           indexed \subseteq indexed' \cup unlisted' \cup load,
           unlisted \subseteq indexed' \cup unlisted' \cup load,
           AtStep(r, "load") => Listed(request[r].seen) \subseteq indexed' \cup unlisted'
    PROVE  InIndex \subseteq InIndex' /\ indexed' \subseteq InIndex'
  <1>1. /\ request'[r] = n
        /\ \A o \in Request \ {r} : request'[o] = request[o]
    BY DEF Moves
  <1>2. load \subseteq InIndex' /\ indexed' \cup unlisted' \subseteq InIndex'
    BY <1>1 DEF InIndex, AtStep
  <1>3. ASSUME NEW o \in Request, AtStep(o, "load")
        PROVE  Listed(request[o].seen) \subseteq InIndex'
    BY <1>1, <1>2, <1>3 DEF InIndex, AtStep
  <1>. QED
    BY <1>2, <1>3 DEF InIndex

\* A session that neither removes objects or vectors, nor is about to load the index.
LEMMA MovedOn ==
    ASSUME IngestInv, NEW r \in Request, NEW n, Moves(r, n), Fits(n)',
           request[r].step \notin {"objects", "project", "load"},
           \A o \in Request \ {r} : Apart(n, request[o]),
           objects \subseteq objects', indexed \subseteq indexed', unlisted \subseteq unlisted',
           Steady' => Vectored(n)'
    PROVE  IngestInv'
  <1>1. request \in [Request -> RequestState]
    BY DEF IngestInv, IngestTypeOK
  <1>2. InIndex \subseteq InIndex'
    BY <1>1, IndexKept DEF AtStep
  <1>. QED
    BY <1>2, NothingRemoved, Moved DEF OwnLoss, Unsettled

\* A session that ends and leaves no trace.
LEMMA IdleFits ==
    /\ Idle \in RequestState /\ Idle.step = "closed"
    /\ Fits(Idle)' /\ Vectored(Idle)' /\ \A p : Apart(Idle, p)
  <1>1. /\ Idle.step = "closed" /\ Idle.doc = NoDoc /\ Idle.text = {} /\ Idle.todo = {}
        /\ Idle.got = {} /\ Idle.put = {} /\ Idle.ids = {}
        /\ Idle.seen.docs = {} /\ Idle.seen.notes = {}
    BY DEF Idle
  <1>2. Idle \in RequestState
    BY DEF Idle, RequestState
  <1>3. NotesOf(Idle) = {} /\ NoteIds(Idle.got) = {}
    BY <1>1 DEF NotesOf, NoteIds
  <1>. QED
    BY <1>1, <1>2, <1>3 DEF Fits, Vectored, Apart, Inserts

LEMMA Ends ==
    ASSUME IngestInv, NEW r \in Request, Close(r), rows' = rows, used' = used,
           request[r].step \in {"objects", "project", "load"} => damaged',
           objects \subseteq objects', indexed \subseteq indexed', unlisted' = unlisted,
           objects' \subseteq Key, indexed' \subseteq DocId \cup ResearchNote,
           damaged' \in BOOLEAN, damaged => damaged'
    PROVE  IngestInv'
  <1>1. Moves(r, Idle)
    BY IdleFits DEF Close, Moves, IngestInv, IngestTypeOK
  <1>2. CASE request[r].step \in {"objects", "project", "load"}
    <2>1. Unsettled(r, Idle) /\ ~Steady'
      BY <1>2 DEF Unsettled, Steady
    <2>. QED
      BY <1>1, <2>1, IdleFits, NothingRemoved, Moved
  <1>3. CASE request[r].step \notin {"objects", "project", "load"}
    BY <1>1, <1>3, IdleFits, MovedOn
  <1>. QED
    BY <1>2, <1>3

-----------------------------------------------------------------------------
(* Documents *)

\* What is known of a session.
LEMMA SessionTyped ==
    ASSUME IngestInv, NEW r \in Request
    PROVE  /\ request[r] \in RequestState /\ Fits(request[r])
           /\ objects \subseteq Key /\ indexed \subseteq DocId \cup ResearchNote
           /\ used \subseteq DocId \cup ResearchNote /\ unlisted \subseteq DocId \cup ResearchNote
           /\ damaged \in BOOLEAN
           /\ \A o \in Request \ {r} :
                 /\ request[o] \in RequestState /\ Fits(request[o])
                 /\ Apart(request[r], request[o])
  BY DEF IngestInv, IngestTypeOK, SessionsOK

LEMMA FetchedAre ==
    ASSUME NEW notes \in SUBSET NoteRow
    PROVE  /\ Fetched(notes) \subseteq NoteIds(notes)
           /\ NoteIds(notes) \subseteq ResearchNote
           /\ {NoteKey(n.id) : n \in {m \in notes : m.object}} \subseteq Key
  BY DEF Fetched, NoteIds, NoteRow, Key, NoteKey

LEMMA ListedAre ==
    ASSUME IngestInv, NEW r \in Request
    PROVE  Listed(request[r].seen) \subseteq DocId \cup ResearchNote
  <1>1. /\ request[r].seen.docs \subseteq DocRow /\ request[r].seen.notes \in SUBSET NoteRow
    BY SessionTyped DEF RequestState
  <1>2. Fetched(request[r].seen.notes) \subseteq ResearchNote
    BY <1>1, FetchedAre
  <1>. QED
    BY <1>1, <1>2 DEF Listed, DocRow

\* What a store may keep although the call raised is what the call was to write.
LEMMA UnansweredAre ==
    ASSUME NEW written, NEW kept \in Unanswered(written)
    PROVE  kept \subseteq written /\ ("reply" \notin Fault => kept = {})
  BY DEF Unanswered

LEMMA WritesAre ==
    ASSUME IngestInv, NEW r \in Request
    PROVE  /\ Putting(r) \subseteq Key
           /\ request[r].doc # NoDoc \/ AtStep(r, "index_notes") =>
                 Indexing(r) \subseteq DocId \cup ResearchNote
  <1>1. /\ request[r].text \in SUBSET Content /\ request[r].doc \in DocId \cup {NoDoc}
        /\ request[r].got \in SUBSET NoteRow
    BY SessionTyped DEF RequestState
  <1>2. Putting(r) \subseteq Key
    BY <1>1 DEF Putting, Key, SourceKey, ParsedKey, AtStep
  <1>3. Fetched(request[r].got) \subseteq ResearchNote
    BY <1>1, FetchedAre
  <1>. QED
    BY <1>1, <1>2, <1>3 DEF Indexing, AtStep

LEMMA StartUploadKept ==
    ASSUME IngestInv, NEW r \in Request, NEW c \in Content, NEW d \in DocId, StartUpload(r, c, d)
    PROVE  IngestInv'
  <1>. PICK n : n = [Idle EXCEPT !.step = "row", !.seen = rows, !.doc = d, !.text = {c}]
    OBVIOUS
  <1>1. /\ request' = [request EXCEPT ![r] = n] /\ used' = used \cup {d}
        /\ UNCHANGED <<rows, objects, indexed, damaged, unlisted>>
        /\ request[r].step = "closed"
    BY DEF StartUpload, Start, AtStep
  <1>2. rows \in [docs : SUBSET DocRow, notes : SUBSET NoteRow, exists : BOOLEAN]
    BY DEF IngestInv, IngestTypeOK
  <1>3. n \in RequestState
    BY <1>2 DEF Idle, RequestState
  <1>4. /\ n.step = "row" /\ n.doc = d /\ n.text = {c} /\ n.seen = rows
        /\ n.todo = {} /\ n.got = {} /\ n.put = {} /\ n.ids = {} /\ d # NoDoc
    BY IngestNames DEF Idle
  <1>5. NotesOf(n) = {}
    BY <1>4 DEF NotesOf, NoteIds
  <1>6. Fits(n)' /\ Vectored(n)' /\ \A o \in Request \ {r} : Apart(n, request[o])
    BY <1>1, <1>4, <1>5 DEF Fits, Vectored, Apart, Inserts
  <1>7. Moves(r, n)
    BY <1>1, <1>3, SessionTyped DEF Moves
  <1>. QED
    BY <1>1, <1>6, <1>7, MovedOn

\* A session that goes to its next step and is otherwise as it was.
LEMMA GotoTyped ==
    ASSUME NEW q \in RequestState,
           NEW st \in {"closed", "row", "source", "parsed", "index", "commit", "fetch",
                       "index_notes", "note_rows", "vectors", "objects", "project", "clear", "load"},
           NEW n, n = [q EXCEPT !.step = st]
    PROVE  /\ n \in RequestState /\ n.step = st /\ n.seen = q.seen /\ n.doc = q.doc
           /\ n.text = q.text /\ n.todo = q.todo /\ n.got = q.got /\ n.put = q.put
           /\ n.ids = q.ids /\ NotesOf(n) = NotesOf(q) /\ KeysOf(n) = KeysOf(q)
  BY DEF RequestState, NotesOf, KeysOf

LEMMA AddDocumentKept ==
    ASSUME IngestInv, NEW r \in Request, AddDocument(r)
    PROVE  IngestInv'
  <1>1. /\ request[r].step = "row" /\ \A c \in request[r].text : ~Holding(r, c)
        /\ UNCHANGED <<rows, objects, indexed, used, damaged, unlisted>>
    BY DEF AddDocument, AtStep
  <1>2. CASE Close(r)
    BY <1>1, <1>2, SessionTyped, Ends
  <1>3. CASE ~Close(r)
    <2>. DEFINE q == request[r]
    <2>. PICK n : n = [q EXCEPT !.step = "source"]
      OBVIOUS
    <2>1. /\ request' = [request EXCEPT ![r] = n]
          /\ q.text \cap StoredContent(rows) = {} /\ rows.exists
      BY <1>3 DEF AddDocument, Goto
    <2>2. q \in RequestState /\ Fits(q)
      BY SessionTyped
    <2>3. /\ n \in RequestState /\ n.step = "source" /\ n.seen = q.seen /\ n.doc = q.doc
          /\ n.text = q.text /\ n.got = q.got /\ n.put = q.put
          /\ n.ids = q.ids /\ NotesOf(n) = NotesOf(q) /\ KeysOf(n) = KeysOf(q)
      BY <2>2, GotoTyped
    <2>4. Fits(n)' /\ Vectored(n)'
      BY <1>1, <2>1, <2>2, <2>3 DEF Fits, Vectored
    <2>5. \A o \in Request \ {r} : Apart(n, request[o])
      BY <1>1, <2>3, SessionTyped DEF Apart, Holding, Inserts
    <2>6. Moves(r, n)
      BY <1>1, <2>1, <2>3, SessionTyped DEF Moves
    <2>. QED
      BY <1>1, <2>4, <2>5, <2>6, MovedOn
  <1>. QED
    BY <1>2, <1>3

LEMMA PutKept ==
    ASSUME IngestInv, NEW r \in Request, PutSource(r) \/ PutParsed(r)
    PROVE  IngestInv'
  <1>. DEFINE q == request[r]
  <1>1. PICK c \in q.text, key \in KeysOf(q), next \in {"parsed", "index"} :
           /\ q.step \in {"source", "parsed"}
           /\ next = "parsed" => key = SourceKey(c)
           /\ next = "index" => q.step = "parsed" /\ key = ParsedKey(c)
           /\ objects' = objects \cup {key}
           /\ request' = [request EXCEPT ![r].put = @ \cup {key}, ![r].step = next]
           /\ UNCHANGED <<rows, indexed, used, damaged, unlisted>>
    BY DEF PutSource, PutParsed, PutObject, KeysOf, AtStep
  <1>. DEFINE put == q.put \cup {key}
  <1>. PICK n : n = [q EXCEPT !.put = put, !.step = next]
    OBVIOUS
  <1>2. q \in RequestState /\ Fits(q) /\ q.doc # NoDoc
    BY <1>1, SessionTyped DEF Fits
  <1>3. KeysOf(q) \subseteq Key /\ put \in SUBSET Key
    BY <1>2 DEF KeysOf, Key, SourceKey, ParsedKey, RequestState
  <1>4. request' = [request EXCEPT ![r] = n] /\ put \subseteq KeysOf(q)
    BY <1>1, <1>2 DEF Fits
  <1>. HIDE DEF put
  <1>5. /\ n \in RequestState /\ n.step = next /\ n.seen = q.seen /\ n.doc = q.doc
        /\ n.text = q.text /\ n.todo = q.todo /\ n.got = q.got /\ n.put = put /\ n.ids = q.ids
    BY <1>2, <1>3 DEF RequestState
  <1>6. NotesOf(n) = NotesOf(q) /\ KeysOf(n) = KeysOf(q)
    BY <1>5 DEF NotesOf, KeysOf
  <1>7. Fits(n)' /\ Vectored(n)'
    BY <1>1, <1>2, <1>4, <1>5, <1>6 DEF Fits, Vectored, Inserts
  <1>8. \A o \in Request \ {r} : Apart(n, request[o])
    BY <1>1, <1>5, <1>6, SessionTyped DEF Apart, Inserts
  <1>9. Moves(r, n)
    BY <1>1, <1>3, <1>4, <1>5, SessionTyped DEF Moves
  <1>. QED
    BY <1>1, <1>7, <1>8, <1>9, MovedOn

LEMMA IndexChunksKept ==
    ASSUME IngestInv, NEW r \in Request, IndexChunks(r)
    PROVE  IngestInv'
  <1>. DEFINE q == request[r]
  <1>. PICK n : n = [q EXCEPT !.step = "commit"]
    OBVIOUS
  <1>1. /\ q.step = "index" /\ indexed' = indexed \cup {q.doc}
        /\ request' = [request EXCEPT ![r] = n]
        /\ UNCHANGED <<rows, objects, used, damaged, unlisted>>
    BY DEF IndexChunks, AtStep, Goto
  <1>2. q \in RequestState /\ Fits(q) /\ q.doc # NoDoc /\ q.doc \in DocId
    BY <1>1, SessionTyped DEF Fits, RequestState
  <1>3. /\ n \in RequestState /\ n.step = "commit" /\ n.seen = q.seen /\ n.doc = q.doc
        /\ n.text = q.text /\ n.got = q.got /\ n.put = q.put
        /\ n.ids = q.ids /\ NotesOf(n) = NotesOf(q) /\ KeysOf(n) = KeysOf(q)
    BY <1>2, GotoTyped
  <1>4. Fits(n)'
    BY <1>1, <1>2, <1>3 DEF Fits, Inserts
  <1>5. Vectored(n)'
    <2>1. n.got = {} /\ Fetched({}) = {}
      BY <1>2, <1>3 DEF Fits, Fetched
    <2>2. {n.doc} \subseteq InIndex'
      BY <1>1, <1>3 DEF InIndex
    <2>. QED
      BY <2>1, <2>2 DEF Vectored
  <1>6. \A o \in Request \ {r} : Apart(n, request[o])
    BY <1>1, <1>3, SessionTyped DEF Apart, Inserts
  <1>7. Moves(r, n)
    BY <1>1, <1>2, <1>3, SessionTyped DEF Moves
  <1>. QED
    BY <1>1, <1>4, <1>5, <1>6, <1>7, MovedOn

\* The compensation of an upload takes objects of no other session's content, and of no row.
LEMMA FailUploadKept ==
    ASSUME IngestInv, NEW r \in Request, FailUpload(r)
    PROVE  IngestInv'
  <1>. DEFINE q == request[r]
  <1>0. PICK left \in Removed(q.put), some \in Unanswered(Putting(r)),
             kept \in Unanswered(Indexing(r)) :
           objects' = left \cup some /\ indexed' = indexed \cup kept
    BY DEF FailUpload
  <1>1. /\ Inserts(q) /\ q.doc # NoDoc
        /\ objects' \subseteq Key /\ objects \ objects' \subseteq q.put
        /\ indexed \subseteq indexed' /\ indexed' \subseteq DocId \cup ResearchNote
        /\ request' = [request EXCEPT ![r] = Idle]
        /\ UNCHANGED <<rows, used, damaged, unlisted>>
    <2>1. Inserts(q) /\ q.doc # NoDoc /\ request' = [request EXCEPT ![r] = Idle]
          /\ UNCHANGED <<rows, used, damaged, unlisted>>
      BY DEF FailUpload, Inserts, Close
    <2>2. left \subseteq objects /\ objects \ left \subseteq q.put
      BY DEF Removed
    <2>3. some \subseteq Key /\ kept \subseteq DocId \cup ResearchNote
      BY <2>1, WritesAre, UnansweredAre
    <2>4. objects \subseteq Key /\ indexed \subseteq DocId \cup ResearchNote
      BY SessionTyped
    <2>. QED
      BY <1>0, <2>1, <2>2, <2>3, <2>4
  <1>2. q \in RequestState /\ Fits(q)
    BY SessionTyped
  <1>3. objects \ objects' \subseteq KeysOf(q) /\ q.text \cap StoredContent(rows) = {}
    BY <1>1, <1>2 DEF Fits
  <1>4. \A k \in objects \ objects' : \E c \in q.text : k \in {SourceKey(c), ParsedKey(c)}
    BY <1>3 DEF KeysOf
  <1>5. ASSUME NEW o \in Request \ {r}
        PROVE  Spares(request[o])
    <2>1. Inserts(request[o]) => q.text \cap request[o].text = {}
      BY <1>1, SessionTyped DEF Apart
    <2>. QED
      BY <1>4, <2>1, KeysDiffer DEF Spares, KeysOf
  <1>6. ObjectKeys(rows) \cap (objects \ objects') = {}
    <2>1. \A d \in rows.docs : d.content \notin q.text
      BY <1>3 DEF StoredContent
    <2>2. ASSUME NEW k \in objects \ objects', k \in ObjectKeys(rows)
          PROVE  FALSE
      <3>1. \/ \E d \in rows.docs : k \in {SourceKey(d.content), ParsedKey(d.content)}
            \/ \E m \in rows.notes : m.object /\ k = NoteKey(m.id)
        BY <2>2, KeysOfRows
      <3>. QED
        BY <1>4, <2>1, <2>2, <3>1, KeysDiffer
    <2>. QED
      BY <2>2
  <1>7. Moves(r, Idle) /\ Unsettled(r, Idle)
    BY <1>1, SessionTyped, IdleFits DEF Moves, Unsettled, Inserts
  <1>8. InIndex \subseteq InIndex'
    <2>1. request \in [Request -> RequestState] /\ ~AtStep(r, "load")
      BY <1>1 DEF IngestInv, IngestTypeOK, AtStep, Inserts
    <2>. QED
      BY <1>1, <1>7, <2>1, IndexKept
  <1>. QED
    BY <1>5, <1>6, <1>7, <1>8, IdleFits, Moved DEF OwnLoss

-----------------------------------------------------------------------------
(* Research *)

LEMMA StartResearchKept ==
    ASSUME IngestInv, NEW r \in Request, NEW notes \in SUBSET ResearchNote, StartResearch(r, notes)
    PROVE  IngestInv'
  <1>. PICK n : n = [Idle EXCEPT !.step = "fetch", !.seen = rows, !.todo = notes]
    OBVIOUS
  <1>1. /\ request' = [request EXCEPT ![r] = n] /\ used' = used \cup notes
        /\ UNCHANGED <<rows, objects, indexed, damaged, unlisted>>
        /\ request[r].step = "closed" /\ notes \cap used = {}
    BY DEF StartResearch, Start, AtStep
  <1>2. rows \in [docs : SUBSET DocRow, notes : SUBSET NoteRow, exists : BOOLEAN]
    BY DEF IngestInv, IngestTypeOK
  <1>3. n \in RequestState
    BY <1>2 DEF Idle, RequestState
  <1>4. /\ n.step = "fetch" /\ n.doc = NoDoc /\ n.text = {} /\ n.seen = rows
        /\ n.todo = notes /\ n.got = {} /\ n.put = {} /\ n.ids = {}
    BY DEF Idle
  <1>5. NotesOf(n) = notes /\ notes \cap NoteIds(rows.notes) = {}
    BY <1>1, <1>4 DEF NotesOf, NoteIds, IngestInv, RowsOK
  <1>6. Fits(n)' /\ Vectored(n)'
    BY <1>1, <1>4, <1>5 DEF Fits, Vectored, Inserts
  <1>7. \A o \in Request \ {r} : Apart(n, request[o])
    BY <1>1, <1>4, <1>5, SessionTyped DEF Apart, Fits, Inserts
  <1>8. Moves(r, n)
    BY <1>1, <1>3, SessionTyped DEF Moves
  <1>. QED
    BY <1>1, <1>6, <1>7, <1>8, MovedOn

LEMMA FetchNoteKept ==
    ASSUME IngestInv, NEW r \in Request, NEW m \in ResearchNote, FetchNote(r, m)
    PROVE  IngestInv'
  <1>. DEFINE q == request[r]
  <1>1. /\ q.step = "fetch" /\ m \in q.todo
        /\ UNCHANGED <<rows, indexed, used, damaged, unlisted>>
    BY DEF FetchNote, AtStep
  <1>2. PICK row \in [id : {m}, fetched : BOOLEAN, object : BOOLEAN] :
          /\ objects' = IF row.object THEN objects \cup {NoteKey(m)} ELSE objects
          /\ request' = [request EXCEPT
                ![r].todo = @ \ {m},
                ![r].got = @ \cup {row},
                ![r].step = IF request[r].todo = {m} THEN "index_notes" ELSE "fetch"]
    BY DEF FetchNote
  <1>3. PICK st \in {"index_notes", "fetch"} :
           st = IF request[r].todo = {m} THEN "index_notes" ELSE "fetch"
    OBVIOUS
  <1>. PICK n : n = [q EXCEPT !.todo = @ \ {m}, !.got = @ \cup {row}, !.step = st]
    OBVIOUS
  <1>4. q \in RequestState /\ Fits(q) /\ q.doc = NoDoc
    BY <1>1, SessionTyped DEF Fits
  <1>5. request' = [request EXCEPT ![r] = n]
    BY <1>2, <1>3
  <1>6. row.id = m /\ row \in NoteRow
    BY DEF NoteRow
  <1>7. /\ n \in RequestState /\ n.step = st /\ n.seen = q.seen /\ n.doc = q.doc
        /\ n.text = q.text /\ n.todo = q.todo \ {m} /\ n.got = q.got \cup {row} /\ n.put = q.put
        /\ n.ids = q.ids
    BY <1>4, <1>6 DEF RequestState
  <1>8. NotesOf(n) \subseteq NotesOf(q) /\ NoteIds(q.got) \subseteq NoteIds(n.got)
    BY <1>1, <1>6, <1>7 DEF NotesOf, NoteIds
  <1>9. Fits(n)' /\ Vectored(n)'
    BY <1>1, <1>2, <1>3, <1>4, <1>6, <1>7, <1>8 DEF Fits, Vectored, Inserts
  <1>10. \A o \in Request \ {r} : Apart(n, request[o])
    BY <1>7, <1>8, SessionTyped DEF Apart, Inserts
  <1>11. NoteKey(m) \in Key /\ objects' \subseteq Key /\ objects \subseteq objects'
    BY <1>2, SessionTyped DEF Key, NoteKey
  <1>12. Moves(r, n)
    BY <1>1, <1>5, <1>7, <1>11, SessionTyped DEF Moves
  <1>. QED
    BY <1>1, <1>9, <1>10, <1>11, <1>12, MovedOn

LEMMA IndexNotesKept ==
    ASSUME IngestInv, NEW r \in Request, IndexNotes(r)
    PROVE  IngestInv'
  <1>. DEFINE q == request[r]
  <1>1. PICK ids, put : ids = Fetched(q.got) /\ put = {NoteKey(n.id) : n \in {m \in q.got : m.object}}
    OBVIOUS
  <1>. PICK n : n = [q EXCEPT !.ids = ids, !.put = put, !.step = "note_rows"]
    OBVIOUS
  <1>2. /\ q.step = "index_notes" /\ indexed' = indexed \cup ids
        /\ request' = [request EXCEPT ![r] = n]
        /\ UNCHANGED <<rows, objects, used, damaged, unlisted>>
    BY <1>1 DEF IndexNotes, AtStep
  <1>3. q \in RequestState /\ Fits(q) /\ q.doc = NoDoc /\ q.got \in SUBSET NoteRow
    BY <1>2, SessionTyped DEF Fits, RequestState
  <1>4. /\ ids \subseteq NoteIds(q.got) /\ ids \subseteq ResearchNote /\ put \subseteq Key
    BY <1>1, <1>3, FetchedAre
  <1>5. /\ n \in RequestState /\ n.step = "note_rows" /\ n.seen = q.seen /\ n.doc = q.doc
        /\ n.text = q.text /\ n.todo = q.todo /\ n.got = q.got /\ n.ids = ids
    BY <1>3, <1>4 DEF RequestState
  <1>6. NotesOf(n) = NotesOf(q)
    BY <1>5 DEF NotesOf
  <1>7. Fits(n)'
    BY <1>2, <1>3, <1>4, <1>5, <1>6 DEF Fits, Inserts
  <1>8. Vectored(n)'
    <2>1. ids \subseteq InIndex'
      BY <1>2 DEF InIndex
    <2>. QED
      BY <1>1, <1>5, <2>1 DEF Vectored
  <1>9. \A o \in Request \ {r} : Apart(n, request[o])
    BY <1>5, <1>6, SessionTyped DEF Apart, Inserts
  <1>10. Moves(r, n)
    BY <1>2, <1>4, <1>5, SessionTyped DEF Moves
  <1>. QED
    BY <1>2, <1>7, <1>8, <1>9, <1>10, MovedOn

LEMMA AddNotesKept ==
    ASSUME IngestInv, NEW r \in Request, AddNotes(r)
    PROVE  IngestInv'
  <1>. DEFINE q == request[r]
  <1>. PICK n : n = [q EXCEPT !.step = "commit"]
    OBVIOUS
  <1>1. /\ q.step = "note_rows" /\ rows.exists /\ request' = [request EXCEPT ![r] = n]
        /\ UNCHANGED <<rows, objects, indexed, used, damaged, unlisted>>
    BY DEF AddNotes, AtStep, Goto
  <1>2. q \in RequestState /\ Fits(q) /\ q.doc = NoDoc /\ q.text = {}
    BY <1>1, SessionTyped DEF Fits
  <1>3. /\ n \in RequestState /\ n.step = "commit" /\ n.seen = q.seen /\ n.doc = q.doc
        /\ n.text = q.text /\ n.got = q.got /\ n.put = q.put
        /\ n.ids = q.ids /\ NotesOf(n) = NotesOf(q) /\ KeysOf(n) = KeysOf(q)
    BY <1>2, GotoTyped
  <1>4. Fits(n)'
    BY <1>1, <1>2, <1>3 DEF Fits, Inserts
  <1>5. Moves(r, n)
    BY <1>1, <1>3, SessionTyped DEF Moves
  <1>6. Steady' => Vectored(n)'
    <2>1. request \in [Request -> RequestState]
      BY DEF IngestInv, IngestTypeOK
    <2>2. InIndex \subseteq InIndex'
      BY <1>1, <1>3, <1>5, <2>1, IndexKept DEF AtStep
    <2>3. Steady' => Steady
      BY <1>1, <1>3, <2>1 DEF Steady, DeletionRuns
    <2>4. Steady => Vectored(q)
      BY DEF IngestInv, SteadyOK
    <2>. QED
      BY <1>1, <1>2, <1>3, <2>2, <2>3, <2>4 DEF Vectored
  <1>7. \A o \in Request \ {r} : Apart(n, request[o])
    BY <1>2, <1>3, SessionTyped DEF Apart
  <1>. QED
    BY <1>1, <1>4, <1>5, <1>6, <1>7, MovedOn

\* The compensation of a research takes objects and vectors of its own notes.
LEMMA FailResearchKept ==
    ASSUME IngestInv, NEW r \in Request, FailResearch(r)
    PROVE  IngestInv'
  <1>. DEFINE q == request[r]
              keys == {NoteKey(n.id) : n \in {m \in q.got : m.object}}
  <1>0. PICK left \in Unindexed(q.ids), kept \in Unanswered(Indexing(r)) :
           indexed' = left \cup kept
    BY DEF FailResearch
  <1>1. /\ q.step \in {"index_notes", "note_rows"}
        /\ indexed' \subseteq DocId \cup ResearchNote /\ indexed \ indexed' \subseteq q.ids
        /\ objects' \subseteq objects /\ objects \ objects' \subseteq keys
        /\ request' = [request EXCEPT ![r] = Idle]
        /\ UNCHANGED <<rows, used, damaged, unlisted>>
    <2>1. /\ q.step \in {"index_notes", "note_rows"}
          /\ objects' \subseteq objects /\ objects \ objects' \subseteq keys
          /\ request' = [request EXCEPT ![r] = Idle]
          /\ UNCHANGED <<rows, used, damaged, unlisted>>
      BY DEF FailResearch, Removed, Close
    <2>2. left \subseteq indexed /\ indexed \ left \subseteq q.ids
      BY DEF Unindexed
    <2>3. Indexing(r) \subseteq DocId \cup ResearchNote
      BY <2>1, WritesAre DEF Indexing, AtStep
    <2>4. kept \subseteq DocId \cup ResearchNote
      BY <2>3, UnansweredAre
    <2>. QED
      BY <1>0, <2>1, <2>2, <2>4, SessionTyped
  <1>2. q \in RequestState /\ Fits(q) /\ q.got \in SUBSET NoteRow
    BY SessionTyped DEF RequestState
  <1>3. /\ NotesOf(q) \cap NoteIds(rows.notes) = {} /\ q.ids \subseteq NotesOf(q)
        /\ q.ids \subseteq ResearchNote
    BY <1>2, FetchedAre DEF Fits, NotesOf
  <1>4. \A k \in objects \ objects' : \E m \in NotesOf(q) : k = NoteKey(m)
    BY <1>1 DEF NotesOf, NoteIds
  <1>5. ASSUME NEW o \in Request \ {r}
        PROVE  Spares(request[o]) /\ NotesOf(q) \cap NotesOf(request[o]) = {}
    <2>1. NotesOf(q) \cap NotesOf(request[o]) = {}
      BY SessionTyped DEF Apart
    <2>. QED
      BY <1>4, <2>1, KeysDiffer DEF Spares, KeysOf
  <1>6. ObjectKeys(rows) \cap (objects \ objects') = {}
    <2>1. ASSUME NEW k \in objects \ objects', k \in ObjectKeys(rows)
          PROVE  FALSE
      <3>1. \/ \E d \in rows.docs : k \in {SourceKey(d.content), ParsedKey(d.content)}
            \/ \E m \in rows.notes : m.object /\ k = NoteKey(m.id)
        BY <2>1, KeysOfRows
      <3>2. \A m \in rows.notes : m.id \notin NotesOf(q)
        BY <1>3 DEF NoteIds
      <3>. QED
        BY <1>4, <2>1, <3>1, <3>2, KeysDiffer
    <2>. QED
      BY <2>1
  <1>7. Moves(r, Idle) /\ Unsettled(r, Idle)
    BY <1>1, SessionTyped, IdleFits DEF Moves, Unsettled
  <1>8. InIndex \ InIndex' \subseteq q.ids
    <2>1. request \in [Request -> RequestState]
      BY DEF IngestInv, IngestTypeOK
    <2>2. \A o \in Request : AtStep(o, "load") => request'[o] = request[o]
      BY <1>1, <2>1 DEF AtStep
    <2>. QED
      BY <1>1, <2>2 DEF InIndex, AtStep
  <1>9. OwnLoss(r)
    BY <1>3, <1>5, <1>8 DEF OwnLoss
  <1>. QED
    BY <1>5, <1>6, <1>7, <1>9, IdleFits, Moved

-----------------------------------------------------------------------------
(* Commits *)

LEMMA CommitSessionKept ==
    ASSUME IngestInv, NEW r \in Request, CommitSession(r)
    PROVE  IngestInv'
  <1>1. PICK q : q = request[r]
    OBVIOUS
  <1>. DEFINE added == {[id |-> d, content |-> c] : d \in {q.doc} \ {NoDoc}, c \in q.text}
  <1>2. /\ q.step = "commit" /\ request' = [request EXCEPT ![r] = Idle]
        /\ rows' = [rows EXCEPT !.docs = @ \cup added, !.notes = @ \cup q.got]
        /\ UNCHANGED <<objects, indexed, used, damaged, unlisted>>
    BY <1>1 DEF CommitSession, AtStep, Close
  <1>3. /\ q \in RequestState /\ Fits(q) /\ rows.exists /\ q.got \in SUBSET NoteRow
        /\ q.text \cap StoredContent(rows) = {}
        /\ rows \in [docs : SUBSET DocRow, notes : SUBSET NoteRow, exists : BOOLEAN]
        /\ request \in [Request -> RequestState]
    BY <1>1, <1>2, SessionTyped DEF Fits, Inserts, RequestState, IngestInv, IngestTypeOK
  <1>4. \A d \in added : /\ d \in DocRow /\ d.content \in q.text
                         /\ d.id = q.doc /\ d.id # NoDoc
    BY <1>3 DEF DocRow, RequestState
  <1>. HIDE DEF added
  <1>5. /\ rows' \in [docs : SUBSET DocRow, notes : SUBSET NoteRow, exists : BOOLEAN]
        /\ rows'.docs = rows.docs \cup added /\ rows'.notes = rows.notes \cup q.got /\ rows'.exists
    BY <1>2, <1>3, <1>4
  <1>6. \A d, e \in rows'.docs : d.content = e.content => d = e
    <2>1. \A d, e \in added : d = e
      BY <1>3, <1>4 DEF Fits, DocRow
    <2>2. \A d \in rows.docs : \A e \in added : d.content # e.content
      BY <1>3, <1>4 DEF StoredContent
    <2>3. \A d, e \in rows.docs : d.content = e.content => d = e
      BY DEF IngestInv, IngestTypeOK
    <2>. QED
      BY <1>5, <2>1, <2>2, <2>3
  <1>7. IngestTypeOK'
    BY <1>2, <1>3, <1>5, <1>6, IdleFits DEF IngestInv, IngestTypeOK
  <1>8. /\ NoteIds(rows'.notes) = NoteIds(rows.notes) \cup NoteIds(q.got)
        /\ StoredContent(rows') \subseteq StoredContent(rows) \cup q.text
        /\ DocIds(rows'.docs) \subseteq DocIds(rows.docs) \cup ({q.doc} \ {NoDoc})
        /\ Fetched(rows'.notes) = Fetched(rows.notes) \cup Fetched(q.got)
    BY <1>4, <1>5 DEF NoteIds, StoredContent, DocIds, Fetched
  <1>9. RowsOK'
    BY <1>2, <1>3, <1>5, <1>8 DEF RowsOK, IngestInv, Fits, NotesOf
  <1>10. ASSUME NEW o \in Request \ {r}
         PROVE  Fits(request[o])'
    <2>1. PICK p : p = request[o]
      OBVIOUS
    <2>2. Fits(p) /\ Apart(q, p)
      BY <1>1, <2>1, SessionTyped
    <2>3. Fits(p)'
      BY <1>2, <1>3, <1>5, <1>8, <2>2 DEF Fits, Apart, Inserts, NotesOf
    <2>4. request'[o] = p
      BY <1>2, <1>3, <2>1
    <2>. QED
      BY ONLY <2>3, <2>4 DEF Fits
  <1>11. SessionsOK'
    <2>1. request'[r] = Idle /\ \A o \in Request \ {r} : request'[o] = request[o]
      BY <1>2, <1>3
    <2>2. Fits(request[r])'
      BY <2>1, IdleFits DEF Fits
    <2>3. \A p, s : Apart(p, s) <=> Apart(s, p)
      BY DEF Apart
    <2>4. \A a, b \in Request : a # b => Apart(request'[a], request'[b])
      BY <2>1, <2>3, IdleFits DEF IngestInv, SessionsOK
    <2>. QED
      BY <1>10, <2>2, <2>4 DEF SessionsOK
  <1>12. SteadyOK'
    <2>1. Steady' => Steady
      BY <1>1, <1>2, <1>3 DEF Steady, DeletionRuns
    <2>. SUFFICES ASSUME Steady
                  PROVE  /\ ObjectKeys(rows') \subseteq objects'
                         /\ DocIds(rows'.docs) \cup Fetched(rows'.notes) \subseteq InIndex'
                         /\ \A o \in Request : Vectored(request[o])'
      BY <2>1 DEF SteadyOK
    <2>2. /\ ObjectKeys(rows) \subseteq objects
          /\ DocIds(rows.docs) \cup Fetched(rows.notes) \subseteq InIndex
          /\ \A o \in Request : Vectored(request[o])
      BY DEF IngestInv, SteadyOK
    <2>3. request'[r] = Idle /\ \A o \in Request \ {r} : request'[o] = request[o]
      BY <1>2, <1>3
    <2>4. InIndex \subseteq InIndex'
      BY <1>1, <1>2, <2>3 DEF InIndex, AtStep
    <2>5. ObjectKeys(rows') \subseteq objects
      <3>1. ASSUME NEW k \in ObjectKeys(rows')
            PROVE  k \in objects
        <4>1. \/ \E d \in rows'.docs : k \in {SourceKey(d.content), ParsedKey(d.content)}
              \/ \E m \in rows'.notes : m.object /\ k = NoteKey(m.id)
          BY <3>1, KeysOfRows
        <4>2. \/ k \in ObjectKeys(rows)
              \/ \E d \in added : k \in {SourceKey(d.content), ParsedKey(d.content)}
              \/ \E m \in q.got : m.object /\ k = NoteKey(m.id)
          BY <1>5, <4>1, KeysOfRows
        <4>. QED
          BY <1>2, <1>3, <1>4, <2>2, <4>2 DEF Fits
      <3>. QED
        BY <3>1
    <2>6. DocIds(rows'.docs) \cup Fetched(rows'.notes) \subseteq InIndex
      BY <1>1, <1>2, <1>8, <2>2 DEF Vectored
    <2>7. ASSUME NEW o \in Request
          PROVE  Vectored(request[o])'
      <3>1. CASE o = r
        BY <2>3, <3>1, IdleFits DEF Vectored
      <3>2. CASE o # r
        BY <2>2, <2>3, <2>4, <3>2 DEF Vectored
      <3>. QED
        BY <3>1, <3>2
    <2>. QED
      BY <1>2, <2>4, <2>5, <2>6, <2>7
  <1>. QED
    BY <1>7, <1>9, <1>11, <1>12 DEF IngestInv

-----------------------------------------------------------------------------
(* The project and the index *)

LEMMA StartKept ==
    ASSUME IngestInv, NEW r \in Request, StartDelete(r) \/ StartRebuild(r)
    PROVE  IngestInv'
  <1>1. PICK st \in {"vectors", "clear"} :
          /\ request' = [request EXCEPT ![r] = [Idle EXCEPT !.step = st, !.seen = rows]]
          /\ UNCHANGED <<rows, objects, indexed, used, damaged, unlisted>>
          /\ request[r].step = "closed"
    BY DEF StartDelete, StartRebuild, Start, AtStep
  <1>. PICK n : n = [Idle EXCEPT !.step = st, !.seen = rows]
    OBVIOUS
  <1>2. rows \in [docs : SUBSET DocRow, notes : SUBSET NoteRow, exists : BOOLEAN]
    BY DEF IngestInv, IngestTypeOK
  <1>3. n \in RequestState
    BY <1>2 DEF Idle, RequestState
  <1>4. /\ n.step = st /\ n.doc = NoDoc /\ n.text = {} /\ n.seen = rows
        /\ n.todo = {} /\ n.got = {} /\ n.put = {} /\ n.ids = {}
    BY DEF Idle
  <1>5. NotesOf(n) = {}
    BY <1>4 DEF NotesOf, NoteIds
  <1>6. Fits(n)' /\ Vectored(n)' /\ \A o \in Request \ {r} : Apart(n, request[o])
    BY <1>1, <1>4, <1>5 DEF Fits, Vectored, Apart, Inserts
  <1>7. Moves(r, n)
    BY <1>1, <1>3, SessionTyped DEF Moves
  <1>. QED
    BY <1>1, <1>6, <1>7, MovedOn

LEMMA DeleteVectorsKept ==
    ASSUME IngestInv, NEW r \in Request, DeleteVectors(r)
    PROVE  IngestInv'
  <1>. DEFINE q == request[r]
  <1>. PICK n : n = [q EXCEPT !.step = "objects"]
    OBVIOUS
  <1>1. /\ q.step = "vectors" /\ indexed' = {} /\ request' = [request EXCEPT ![r] = n]
        /\ UNCHANGED <<rows, objects, used, damaged, unlisted>>
    BY DEF DeleteVectors, AtStep, Goto
  <1>2. q \in RequestState /\ Fits(q)
    BY SessionTyped
  <1>3. /\ n \in RequestState /\ n.step = "objects" /\ n.seen = q.seen /\ n.doc = q.doc
        /\ n.text = q.text /\ n.got = q.got /\ n.put = q.put
        /\ n.ids = q.ids /\ NotesOf(n) = NotesOf(q) /\ KeysOf(n) = KeysOf(q)
    BY <1>2, GotoTyped
  <1>4. Fits(n)'
    BY <1>1, <1>2, <1>3 DEF Fits, Inserts
  <1>5. \A o \in Request \ {r} : Apart(n, request[o])
    BY <1>3, SessionTyped DEF Apart, Inserts
  <1>6. Moves(r, n) /\ Unsettled(r, n)
    BY <1>1, <1>3, SessionTyped DEF Moves, Unsettled
  <1>7. ~Steady'
    <2>1. request \in [Request -> RequestState]
      BY DEF IngestInv, IngestTypeOK
    <2>. QED
      BY <1>1, <1>3, <2>1 DEF Steady, DeletionRuns
  <1>. QED
    BY <1>1, <1>4, <1>5, <1>6, <1>7, NothingRemoved, Moved

\* A deletion removes objects of rows it read, which are those of no session that may commit.
LEMMA ReadObjectsAreOthers ==
    ASSUME IngestInv, NEW r \in Request, NEW o \in Request,
           objects \ objects' \subseteq ObjectKeys(request[r].seen)
    PROVE  rows.exists => Spares(request[o])
  <1>. SUFFICES ASSUME rows.exists PROVE Spares(request[o])
    OBVIOUS
  <1>. DEFINE q == request[r]
              p == request[o]
  <1>1. q.seen.docs \subseteq rows.docs /\ q.seen.notes \subseteq rows.notes /\ Fits(p)
    BY DEF IngestInv, SessionsOK, Fits
  <1>. SUFFICES ASSUME NEW k \in objects \ objects'
                PROVE  /\ Inserts(p) => k \notin KeysOf(p)
                       /\ \A m \in NotesOf(p) : k # NoteKey(m)
    BY DEF Spares
  <1>2. \/ \E d \in rows.docs : k \in {SourceKey(d.content), ParsedKey(d.content)}
        \/ \E m \in rows.notes : k = NoteKey(m.id)
    <2>1. k \in ObjectKeys(q.seen)
      OBVIOUS
    <2>2. \/ \E d \in q.seen.docs : k \in {SourceKey(d.content), ParsedKey(d.content)}
          \/ \E m \in q.seen.notes : m.object /\ k = NoteKey(m.id)
      BY <2>1, KeysOfRows
    <2>. QED
      BY <1>1, <2>2
  <1>3. /\ Inserts(p) => \A d \in rows.docs : d.content \notin p.text
        /\ \A m \in rows.notes : m.id \notin NotesOf(p)
    BY <1>1 DEF Fits, StoredContent, NoteIds
  <1>. QED
    BY <1>2, <1>3, KeysDiffer DEF KeysOf

LEMMA GoneSpares ==
    ASSUME IngestInv, ~rows.exists, NEW o \in Request
    PROVE  Spares(request[o])
  BY DEF IngestInv, SessionsOK, Fits, Spares

LEMMA DeleteObjectsKept ==
    ASSUME IngestInv, NEW r \in Request, DeleteObjects(r)
    PROVE  IngestInv'
  <1>1. PICK q : q = request[r]
    OBVIOUS
  <1>. PICK n : n = [q EXCEPT !.step = "project"]
    OBVIOUS
  <1>2. /\ q.step = "objects" /\ objects' = objects \ ObjectKeys(q.seen)
        /\ request' = [request EXCEPT ![r] = n]
        /\ UNCHANGED <<rows, indexed, used, damaged, unlisted>>
    BY <1>1 DEF DeleteObjects, AtStep, Goto
  <1>3. q \in RequestState /\ Fits(q)
    BY <1>1, SessionTyped
  <1>4. /\ n \in RequestState /\ n.step = "project" /\ n.seen = q.seen /\ n.doc = q.doc
        /\ n.text = q.text /\ n.got = q.got /\ n.put = q.put
        /\ n.ids = q.ids /\ NotesOf(n) = NotesOf(q) /\ KeysOf(n) = KeysOf(q)
    BY <1>3, GotoTyped
  <1>5. \A o \in Request : Spares(request[o])
    BY <1>1, <1>2, ReadObjectsAreOthers, GoneSpares
  <1>6. Fits(n)'
    <2>1. Spares(q)
      BY <1>1, <1>5
    <2>2. Fits(q)'
      BY <1>2, <1>3, <2>1, StillFits
    <2>. QED
      BY <1>2, <1>4, <2>2 DEF Fits, Inserts
  <1>7. \A o \in Request \ {r} : Apart(n, request[o])
    BY <1>1, <1>4, SessionTyped DEF Apart, Inserts
  <1>8. Moves(r, n) /\ Unsettled(r, n)
    BY <1>1, <1>2, <1>4, SessionTyped DEF Moves, Unsettled
  <1>9. ~Steady /\ ~Steady'
    <2>1. request \in [Request -> RequestState]
      BY DEF IngestInv, IngestTypeOK
    <2>. QED
      BY <1>1, <1>2, <1>4, <2>1 DEF Steady, DeletionRuns
  <1>. QED
    BY <1>5, <1>6, <1>7, <1>8, <1>9, Moved

LEMMA FailDeleteKept ==
    ASSUME IngestInv, NEW r \in Request, FailDelete(r)
    PROVE  IngestInv'
  <1>1. /\ request[r].step \in {"objects", "project"} /\ damaged'
        /\ objects' \subseteq objects /\ objects \ objects' \subseteq ObjectKeys(request[r].seen)
        /\ request' = [request EXCEPT ![r] = Idle]
        /\ UNCHANGED <<rows, indexed, used, unlisted>>
    BY DEF FailDelete, Close
  <1>2. \A o \in Request : Spares(request[o])
    BY <1>1, ReadObjectsAreOthers, GoneSpares
  <1>3. Moves(r, Idle) /\ Unsettled(r, Idle)
    BY <1>1, SessionTyped, IdleFits DEF Moves, Unsettled, FailDelete
  <1>4. ~Steady /\ ~Steady'
    BY <1>1 DEF Steady, DeletionRuns
  <1>. QED
    BY <1>2, <1>3, <1>4, IdleFits, Moved

LEMMA DeleteProjectKept ==
    ASSUME IngestInv, NEW r \in Request, DeleteProject(r)
    PROVE  IngestInv'
  <1>1. /\ \A o \in Request \ {r} : ~Inserts(request[o])
        /\ rows' = [docs |-> {}, notes |-> {}, exists |-> FALSE]
        /\ request' = [request EXCEPT ![r] = Idle]
        /\ UNCHANGED <<objects, indexed, used, damaged, unlisted>>
    BY DEF DeleteProject, Inserted, Inserts, Close
  <1>2. /\ request \in [Request -> RequestState] /\ request'[r] = Idle
        /\ \A o \in Request \ {r} : request'[o] = request[o]
    BY <1>1 DEF IngestInv, IngestTypeOK
  <1>3. NoteIds(rows'.notes) = {} /\ StoredContent(rows') = {}
    BY <1>1 DEF NoteIds, StoredContent
  <1>4. IngestTypeOK' /\ RowsOK' /\ SteadyOK'
    BY <1>1, <1>2, <1>3, IdleFits DEF IngestInv, IngestTypeOK, RowsOK, SteadyOK, Steady
  <1>5. ASSUME NEW o \in Request \ {r}
        PROVE  Fits(request[o])'
    <2>1. PICK p : p = request[o]
      OBVIOUS
    <2>2. Fits(p) /\ ~Inserts(p)
      BY <1>1, <2>1, SessionTyped
    <2>3. Fits(p)'
      BY <1>1, <1>3, <2>2 DEF Fits, Inserts
    <2>. QED
      BY <1>2, <2>1, <2>3 DEF Fits
  <1>6. Fits(request[r])'
    BY <1>2, IdleFits DEF Fits
  <1>7. \A a, b \in Request : a # b => Apart(request'[a], request'[b])
    <2>1. \A p, s : Apart(p, s) <=> Apart(s, p)
      BY DEF Apart
    <2>. QED
      BY <1>2, <2>1, IdleFits DEF IngestInv, SessionsOK
  <1>. QED
    BY <1>4, <1>5, <1>6, <1>7 DEF IngestInv, SessionsOK

LEMMA ListedTyped ==
    ASSUME NEW seen \in [docs : SUBSET DocRow, notes : SUBSET NoteRow, exists : BOOLEAN]
    PROVE  Listed(seen) \subseteq DocId \cup ResearchNote
  BY DEF Listed, Fetched, DocRow, NoteRow

LEMMA ClearIndexKept ==
    ASSUME IngestInv, NEW r \in Request, ClearIndex(r)
    PROVE  IngestInv'
  <1>. DEFINE q == request[r]
  <1>. PICK n : n = [q EXCEPT !.step = "load"]
    OBVIOUS
  <1>1. /\ q.step = "clear" /\ indexed' = {} /\ request' = [request EXCEPT ![r] = n]
        /\ unlisted' = (unlisted \cup indexed) \ Listed(q.seen)
        /\ UNCHANGED <<rows, objects, used, damaged>>
    BY DEF ClearIndex, AtStep, Goto
  <1>2. q \in RequestState /\ Fits(q)
    BY SessionTyped
  <1>3. /\ n \in RequestState /\ n.step = "load" /\ n.seen = q.seen /\ n.doc = q.doc
        /\ n.text = q.text /\ n.got = q.got /\ n.put = q.put
        /\ n.ids = q.ids /\ NotesOf(n) = NotesOf(q) /\ KeysOf(n) = KeysOf(q)
    BY <1>2, GotoTyped
  <1>4. Fits(n)' /\ Vectored(n)'
    BY <1>1, <1>2, <1>3 DEF Fits, Inserts, Vectored
  <1>5. \A o \in Request \ {r} : Apart(n, request[o])
    BY <1>3, SessionTyped DEF Apart, Inserts
  <1>6. Moves(r, n) /\ Unsettled(r, n)
    BY <1>1, <1>3, SessionTyped DEF Moves, Unsettled
  <1>7. InIndex \subseteq InIndex'
    <2>1. /\ request'[r] = n
          /\ \A o \in Request \ {r} : request'[o] = request[o]
      BY <1>1 DEF IngestInv, IngestTypeOK
    <2>2. indexed \cup unlisted \subseteq unlisted' \cup Listed(n.seen)
      BY <1>1, <1>3
    <2>3. unlisted' \cup Listed(n.seen) \subseteq InIndex'
      BY <1>3, <2>1 DEF InIndex, AtStep
    <2>4. ASSUME NEW o \in Request, AtStep(o, "load")
          PROVE  Listed(request[o].seen) \subseteq InIndex'
      BY <1>1, <2>1, <2>4 DEF InIndex, AtStep
    <2>. QED
      BY <2>2, <2>3, <2>4 DEF InIndex
  <1>. QED
    BY <1>1, <1>4, <1>5, <1>6, <1>7, NothingRemoved, Moved DEF OwnLoss

LEMMA LoadIndexKept ==
    ASSUME IngestInv, NEW r \in Request, LoadIndex(r)
    PROVE  IngestInv'
  <1>. DEFINE q == request[r]
  <1>1. /\ q.step = "load" /\ indexed' = indexed \cup Listed(q.seen)
        /\ request' = [request EXCEPT ![r] = Idle]
        /\ UNCHANGED <<rows, objects, used, damaged, unlisted>>
    BY DEF LoadIndex, AtStep, Close
  <1>2. Listed(q.seen) \subseteq DocId \cup ResearchNote
    BY SessionTyped, ListedTyped DEF RequestState
  <1>3. Moves(r, Idle) /\ Unsettled(r, Idle)
    BY <1>1, <1>2, SessionTyped, IdleFits DEF Moves, Unsettled
  <1>4. InIndex \subseteq InIndex'
    <2>1. request \in [Request -> RequestState]
      BY DEF IngestInv, IngestTypeOK
    <2>. QED
      BY <1>1, <1>3, <2>1, IdleFits, IndexKept
  <1>. QED
    BY <1>1, <1>3, <1>4, IdleFits, NothingRemoved, Moved DEF OwnLoss

-----------------------------------------------------------------------------
(* The invariant *)

LEMMA IngestInit_IngestInv == IngestInit => IngestInv
  <1>. SUFFICES ASSUME IngestInit PROVE IngestInv
    OBVIOUS
  <1>1. /\ Idle.step = "closed" /\ Idle.doc = NoDoc /\ Idle.text = {} /\ Idle.todo = {}
        /\ Idle.got = {} /\ Idle.put = {} /\ Idle.ids = {}
        /\ Idle.seen.docs = {} /\ Idle.seen.notes = {}
    BY DEF Idle
  <1>2. NotesOf(Idle) = {} /\ NoteIds(Idle.got) = {} /\ NoteIds({}) = {}
    BY <1>1 DEF NotesOf, NoteIds
  <1>3. IngestTypeOK
    BY IdleFits DEF IngestInit, IngestTypeOK
  <1>4. RowsOK
    BY <1>2 DEF IngestInit, RowsOK
  <1>5. SessionsOK
    <2>1. Fits(Idle)
      BY <1>1, <1>2 DEF IngestInit, Fits, Inserts
    <2>. QED
      BY <2>1, IdleFits DEF IngestInit, SessionsOK
  <1>6. SteadyOK
    <2>1. ObjectKeys(rows) = {} /\ DocIds(rows.docs) = {} /\ Fetched(rows.notes) = {}
      BY DEF IngestInit, ObjectKeys, DocIds, Fetched
    <2>2. Vectored(Idle)
      BY <1>1 DEF Vectored
    <2>. QED
      BY <2>1, <2>2 DEF IngestInit, SteadyOK
  <1>. QED
    BY <1>3, <1>4, <1>5, <1>6 DEF IngestInv

LEMMA EndsKept ==
    ASSUME IngestInv, NEW r \in Request, FailFetch(r) \/ RollBack(r) \/ FailRebuild(r) \/ Crash(r)
    PROVE  IngestInv'
  <1>1. /\ Close(r) /\ UNCHANGED <<rows, used, unlisted>>
        /\ objects \subseteq objects' /\ objects' \subseteq Key
        /\ indexed \subseteq indexed' /\ indexed' \subseteq DocId \cup ResearchNote
    <2>0. objects \subseteq Key /\ indexed \subseteq DocId \cup ResearchNote
      BY SessionTyped
    <2>1. CASE FailFetch(r)
      <3>1. PICK n \in request[r].todo : \E kept \in Unanswered({NoteKey(n)}) :
               objects' = objects \cup kept
        BY <2>1 DEF FailFetch
      <3>2. NoteKey(n) \in Key
        BY <3>1, SessionTyped DEF RequestState, Key, NoteKey
      <3>3. objects \subseteq objects' /\ objects' \subseteq Key
        BY <2>0, <3>1, <3>2, UnansweredAre
      <3>. QED
        BY <2>0, <2>1, <3>3 DEF FailFetch
    <2>2. CASE FailRebuild(r)
      <3>1. PICK kept \in Unanswered(Listed(request[r].seen)) : indexed' = indexed \cup kept
        BY <2>2 DEF FailRebuild
      <3>2. kept \subseteq DocId \cup ResearchNote
        BY ListedAre, UnansweredAre
      <3>. QED
        BY <2>0, <2>2, <3>1, <3>2 DEF FailRebuild
    <2>3. CASE RollBack(r)
      BY <2>0, <2>3 DEF RollBack
    <2>4. CASE Crash(r)
      BY <2>0, <2>4 DEF Crash
    <2>. QED
      BY <2>1, <2>2, <2>3, <2>4
  <1>2. damaged \in BOOLEAN
    BY SessionTyped
  <1>3. /\ request[r].step \in {"objects", "project", "load"} => damaged'
        /\ damaged' \in BOOLEAN /\ (damaged => damaged')
    <2>1. CASE FailFetch(r) \/ RollBack(r)
      BY <1>2, <2>1 DEF FailFetch, RollBack, AtStep
    <2>2. CASE FailRebuild(r)
      BY <1>2, <2>2 DEF FailRebuild
    <2>3. CASE Crash(r)
      BY <1>2, <2>3, Zenon DEF Crash
    <2>. QED
      BY <2>1, <2>2, <2>3
  <1>. QED
    BY <1>1, <1>3, SessionTyped, Ends

LEMMA IngestInvKept == IngestInv /\ [IngestNext]_ingestVars => IngestInv'
  <1>. SUFFICES ASSUME IngestInv, [IngestNext]_ingestVars PROVE IngestInv'
    OBVIOUS
  <1>1. CASE UNCHANGED ingestVars
    <2>1. UNCHANGED <<rows, objects, indexed, request, used, damaged, unlisted>>
      BY <1>1 DEF ingestVars
    <2>. QED
      BY <2>1 DEF IngestInv, IngestTypeOK, RowsOK, SessionsOK, SteadyOK, Fits, Steady, DeletionRuns,
                  Vectored, InIndex, AtStep
  <1>2. ASSUME NEW r \in Request, RequestStep(r)
        PROVE  IngestInv'
    BY <1>2, StartUploadKept, AddDocumentKept, PutKept, IndexChunksKept, FailUploadKept,
       StartResearchKept, FetchNoteKept, IndexNotesKept, AddNotesKept, FailResearchKept,
       CommitSessionKept, StartKept, DeleteVectorsKept, DeleteObjectsKept, DeleteProjectKept,
       FailDeleteKept, ClearIndexKept, LoadIndexKept, EndsKept
       DEF RequestStep
  <1>. QED
    BY <1>1, <1>2 DEF IngestNext

LEMMA IngestInductive == IngestSpec => []IngestInv
  BY IngestInit_IngestInv, IngestInvKept, PTL DEF IngestSpec

\* Rows, objects, vectors and sessions stay well formed, and a content has one document, although
\* two uploads of it look for one before either commits.
THEOREM IngestWellFormed == IngestSpec => []IngestTypeOK
  <1>1. IngestInv => IngestTypeOK
    BY DEF IngestInv
  <1>. QED
    BY <1>1, IngestInductive, PTL

\* What is committed has its objects, whichever uploads, researches and their compensations overlap.
THEOREM ObjectsStay == IngestSpec => []ObjectsKept
  <1>1. IngestInv => ObjectsKept
    <2>. SUFFICES ASSUME IngestInv, ~Steady PROVE ObjectsKept
      BY DEF IngestInv, SteadyOK, ObjectsKept
    <2>1. CASE ~rows.exists
      BY <2>1 DEF IngestInv, RowsOK, ObjectKeys, ObjectsKept
    <2>. QED
      BY <2>1 DEF Steady, ObjectsKept
  <1>. QED
    BY <1>1, IngestInductive, PTL

\* What is committed is found by a search, except for what a rebuild did not list.
THEOREM CommittedIsSearchable == IngestSpec => []Searchable
  <1>1. IngestInv => Searchable
    <2>. SUFFICES ASSUME IngestInv PROVE Searchable
      OBVIOUS
    <2>1. CASE ~rows.exists
      BY <2>1 DEF IngestInv, RowsOK, Fetched, Searchable
    <2>2. CASE Steady /\ ~\E r \in Request : AtStep(r, "load")
      <3>1. InIndex = indexed \cup unlisted
        BY <2>2 DEF InIndex
      <3>. QED
        BY <2>2, <3>1 DEF IngestInv, SteadyOK, DocIds, Searchable
    <2>. QED
      BY <2>1, <2>2 DEF Steady, Searchable
  <1>. QED
    BY <1>1, IngestInductive, PTL

-----------------------------------------------------------------------------
(* What is left behind.  A step of a session leaves an object only if the object was pending
   in the session and neither the session after it nor a row knows of it, and so for vectors. *)

ObjectsOf(q) ==
    IF q.step \in {"fetch", "index_notes", "note_rows"} \/ Inserts(q)
    THEN IF q.doc = NoDoc THEN {NoteKey(n.id) : n \in {m \in q.got : m.object}} ELSE q.put
    ELSE {}

VectorsOf(q) ==
    IF q.step \in {"note_rows", "commit"}
    THEN IF q.doc = NoDoc THEN Fetched(q.got) ELSE {q.doc}
    ELSE {}

VectorsOfRows(x) == DocIds(x.docs) \cup Fetched(x.notes)

LEMMA PendingOf ==
    ASSUME NEW r \in Request
    PROVE  PendingObjects(r) = ObjectsOf(request[r]) /\ PendingVectors(r) = VectorsOf(request[r])
  <1>1. Inserted(r) <=> Inserts(request[r])
    BY DEF Inserted, Inserts
  <1>2. PendingObjects(r) = ObjectsOf(request[r])
    BY <1>1 DEF PendingObjects, ObjectsOf, AtStep
  <1>3. PendingVectors(r) = VectorsOf(request[r])
    BY DEF PendingVectors, VectorsOf, AtStep
  <1>. QED
    BY <1>2, <1>3

LEMMA StraysAre ==
    /\ \A k : k \in StrayObjects <=>
         /\ k \in objects /\ k \notin ObjectKeys(rows)
         /\ \A r \in Request : k \notin ObjectsOf(request[r])
    /\ \A x : x \in StrayVectors <=>
         /\ x \in indexed /\ x \notin VectorsOfRows(rows)
         /\ \A r \in Request : x \notin VectorsOf(request[r])
  BY PendingOf DEF StrayObjects, StrayVectors, VectorsOfRows, DocIds

\* The same of the state after a step.
LEMMA StraysWillBe ==
    /\ \A k : k \in StrayObjects' <=>
         /\ k \in objects' /\ k \notin ObjectKeys(rows')
         /\ \A r \in Request : k \notin ObjectsOf(request'[r])
    /\ \A x : x \in StrayVectors' <=>
         /\ x \in indexed' /\ x \notin VectorsOfRows(rows')
         /\ \A r \in Request : x \notin VectorsOf(request'[r])
  <1>1. \A r \in Request : Inserted(r)' <=> Inserts(request'[r])
    BY DEF Inserted, Inserts
  <1>2. \A r \in Request : PendingObjects(r)' = ObjectsOf(request'[r])
    BY <1>1 DEF PendingObjects, ObjectsOf, AtStep
  <1>3. \A r \in Request : PendingVectors(r)' = VectorsOf(request'[r])
    BY DEF PendingVectors, VectorsOf, AtStep
  <1>. QED
    BY <1>2, <1>3 DEF StrayObjects, StrayVectors, VectorsOfRows, DocIds

\* Of the objects after a step of session r, which goes on as n, those that no row and not n knows
\* of were as unknown before it.
NoObjectLeft(r, n) ==
    \A k \in objects' : k \notin ObjectKeys(rows') /\ k \notin ObjectsOf(n) =>
        k \in objects /\ k \notin ObjectKeys(rows) /\ k \notin ObjectsOf(request[r])

NoVectorLeft(r, n) ==
    \A x \in indexed' : x \notin VectorsOfRows(rows') /\ x \notin VectorsOf(n) =>
        x \in indexed /\ x \notin VectorsOfRows(rows) /\ x \notin VectorsOf(request[r])

LEMMA StraysFrom ==
    ASSUME request \in [Request -> RequestState], NEW r \in Request, NEW n,
           request' = [request EXCEPT ![r] = n]
    PROVE  /\ NoObjectLeft(r, n) => StrayObjects' \subseteq StrayObjects
           /\ NoVectorLeft(r, n) => StrayVectors' \subseteq StrayVectors
  <1>1. request'[r] = n /\ \A o \in Request \ {r} : request'[o] = request[o]
    OBVIOUS
  <1>2. ASSUME NoObjectLeft(r, n), NEW k \in StrayObjects'
        PROVE  k \in StrayObjects
    BY <1>1, <1>2, StraysAre, StraysWillBe DEF NoObjectLeft
  <1>3. ASSUME NoVectorLeft(r, n), NEW x \in StrayVectors'
        PROVE  x \in StrayVectors
    BY <1>1, <1>3, StraysAre, StraysWillBe DEF NoVectorLeft
  <1>. QED
    BY <1>2, <1>3

\* An upload has a text; of research, what was given to the index is what was fetched.
Carries(q) ==
    /\ q.doc # NoDoc => q.text # {}
    /\ q.step \in {"note_rows", "commit"} /\ q.doc = NoDoc => q.ids = Fetched(q.got)

CarriesOK == \A r \in Request : Carries(request[r])

LEMMA CarriesOn ==
    ASSUME IngestInv, CarriesOK, NEW r \in Request, NEW n, Carries(n),
           request' = [request EXCEPT ![r] = n]
    PROVE  CarriesOK'
  <1>1. \A o \in Request : request'[o] = n \/ request'[o] = request[o]
    BY DEF IngestInv, IngestTypeOK
  <1>. QED
    BY <1>1 DEF CarriesOK, Carries

\* A session goes on: as n, and whatever was pending is.
GoesOn(r, n) ==
    /\ request' = [request EXCEPT ![r] = n] /\ Carries(n)
    /\ NoObjectLeft(r, n) /\ NoVectorLeft(r, n)

LEMMA NothingPending ==
    ASSUME NEW q, q.step \in {"closed", "row", "vectors", "objects", "project", "clear", "load"}
    PROVE  ObjectsOf(q) = {} /\ VectorsOf(q) = {}
  BY DEF ObjectsOf, VectorsOf, Inserts

LEMMA IdleCarries == Carries(Idle)
  BY DEF Carries, Idle

\* A session that has nothing pending, and adds to neither store.
LEMMA NothingAdded ==
    ASSUME NEW r \in Request, NEW n, rows' = rows,
           request[r].step \in {"closed", "row", "vectors", "objects", "project", "clear", "load"},
           objects' \subseteq objects, indexed' \subseteq indexed
    PROVE  NoObjectLeft(r, n) /\ NoVectorLeft(r, n)
  <1>1. PICK q : q = request[r]
    OBVIOUS
  <1>2. ObjectsOf(q) = {} /\ VectorsOf(q) = {}
    BY <1>1, NothingPending
  <1>. QED
    BY <1>1, <1>2 DEF NoObjectLeft, NoVectorLeft

LEMMA StartGoesOn ==
    ASSUME NEW r \in Request,
           \/ \E c \in Content, d \in DocId : StartUpload(r, c, d)
           \/ \E notes \in SUBSET ResearchNote : StartResearch(r, notes)
           \/ StartDelete(r) \/ StartRebuild(r)
    PROVE  \E n : GoesOn(r, n)
  <1>1. /\ rows' = rows /\ objects' = objects /\ indexed' = indexed
        /\ request[r].step = "closed"
    BY DEF StartUpload, StartResearch, StartDelete, StartRebuild, Start, AtStep
  <1>2. \A n : NoObjectLeft(r, n) /\ NoVectorLeft(r, n)
    BY <1>1, NothingAdded
  <1>3. \E n : request' = [request EXCEPT ![r] = n] /\ Carries(n)
    <2>1. ASSUME NEW c \in Content, NEW d \in DocId, StartUpload(r, c, d)
          PROVE  \E n : request' = [request EXCEPT ![r] = n] /\ Carries(n)
      <3>1. PICK n : n = [Idle EXCEPT !.step = "row", !.seen = rows, !.doc = d, !.text = {c}]
        OBVIOUS
      <3>2. request' = [request EXCEPT ![r] = n]
        BY <2>1, <3>1 DEF StartUpload, Start
      <3>3. n.text = {c} /\ n.step = "row"
        BY <3>1 DEF Idle
      <3>. QED
        BY <3>2, <3>3 DEF Carries
    <2>2. ASSUME NEW notes \in SUBSET ResearchNote, StartResearch(r, notes)
          PROVE  \E n : request' = [request EXCEPT ![r] = n] /\ Carries(n)
      <3>1. PICK n : n = [Idle EXCEPT !.step = "fetch", !.seen = rows, !.todo = notes]
        OBVIOUS
      <3>2. request' = [request EXCEPT ![r] = n]
        BY <2>2, <3>1 DEF StartResearch, Start
      <3>3. n.doc = NoDoc /\ n.step = "fetch"
        BY <3>1 DEF Idle
      <3>. QED
        BY <3>2, <3>3 DEF Carries
    <2>3. ASSUME StartDelete(r) \/ StartRebuild(r)
          PROVE  \E n : request' = [request EXCEPT ![r] = n] /\ Carries(n)
      <3>1. PICK st \in {"vectors", "clear"} :
              request' = [request EXCEPT ![r] = [Idle EXCEPT !.step = st, !.seen = rows]]
        BY <2>3 DEF StartDelete, StartRebuild, Start
      <3>2. PICK n : n = [Idle EXCEPT !.step = st, !.seen = rows]
        OBVIOUS
      <3>3. n.doc = NoDoc /\ n.step = st
        BY <3>2 DEF Idle
      <3>. QED
        BY <3>1, <3>2, <3>3 DEF Carries
    <2>. QED
      BY <2>1, <2>2, <2>3
  <1>. QED
    BY <1>1, <1>2, <1>3 DEF GoesOn

\* A session that goes to its next step and has pending what it had.
LEMMA StepGoesOn ==
    ASSUME IngestInv, CarriesOK, NEW r \in Request,
           \/ AddDocument(r) \/ AddNotes(r) \/ DeleteVectors(r) \/ DeleteObjects(r) \/ ClearIndex(r)
    PROVE  \E n : GoesOn(r, n)
  <1>1. PICK q : q = request[r]
    OBVIOUS
  <1>2. q \in RequestState /\ Fits(q) /\ Carries(q)
    BY <1>1, SessionTyped DEF CarriesOK
  <1>3. ASSUME Close(r), AddDocument(r)
        PROVE  GoesOn(r, Idle)
    <2>1. rows' = rows /\ objects' = objects /\ indexed' = indexed /\ request[r].step = "row"
      BY <1>3 DEF AddDocument, AtStep
    <2>2. NoObjectLeft(r, Idle) /\ NoVectorLeft(r, Idle)
      BY <2>1, NothingAdded
    <2>. QED
      BY <1>3, <2>2, IdleCarries DEF GoesOn, Close
  <1>4. ASSUME NEW st \in {"source", "commit", "objects", "project", "load"},
               request' = [request EXCEPT ![r].step = st],
               rows' = rows, objects' \subseteq objects, indexed' \subseteq indexed,
               \/ q.step \in {"row", "vectors", "objects", "clear"} /\ st # "commit"
               \/ q.step = "note_rows" /\ st = "commit" /\ objects' = objects /\ indexed' = indexed
        PROVE  \E n : GoesOn(r, n)
    <2>1. PICK n : n = [q EXCEPT !.step = st]
      OBVIOUS
    <2>2. /\ n.step = st /\ n.doc = q.doc /\ n.text = q.text /\ n.got = q.got /\ n.ids = q.ids
      BY <1>2, <2>1, GotoTyped
    <2>3. request' = [request EXCEPT ![r] = n]
      BY <1>1, <1>4, <2>1
    <2>4. Carries(n)
      BY <1>2, <1>4, <2>2 DEF Carries
    <2>5. NoObjectLeft(r, n) /\ NoVectorLeft(r, n)
      <3>1. CASE q.step \in {"row", "vectors", "objects", "clear"}
        BY <1>1, <1>4, <3>1, NothingAdded
      <3>2. CASE q.step = "note_rows" /\ st = "commit" /\ objects' = objects /\ indexed' = indexed
        <4>1. q.doc = NoDoc
          BY <1>2, <3>2 DEF Fits
        <4>2. ObjectsOf(n) = ObjectsOf(q) /\ VectorsOf(n) = VectorsOf(q)
          BY <2>2, <3>2, <4>1 DEF ObjectsOf, VectorsOf, Inserts
        <4>. QED
          BY <1>1, <1>4, <3>2, <4>2 DEF NoObjectLeft, NoVectorLeft
      <3>. QED
        BY <1>4, <3>1, <3>2
    <2>. QED
      BY <2>3, <2>4, <2>5 DEF GoesOn
  <1>5. CASE AddDocument(r)
    <2>1. CASE Close(r)
      BY <1>3, <1>5, <2>1
    <2>2. CASE request' = [request EXCEPT ![r].step = "source"]
      BY <1>1, <1>4, <1>5, <2>2 DEF AddDocument, AtStep
    <2>. QED
      BY <1>5, <2>1, <2>2 DEF AddDocument, Goto
  <1>6. CASE AddNotes(r)
    BY <1>1, <1>4, <1>6 DEF AddNotes, AtStep, Goto
  <1>7. CASE DeleteVectors(r)
    BY <1>1, <1>4, <1>7 DEF DeleteVectors, AtStep, Goto
  <1>8. CASE DeleteObjects(r)
    BY <1>1, <1>4, <1>8 DEF DeleteObjects, AtStep, Goto
  <1>9. CASE ClearIndex(r)
    BY <1>1, <1>4, <1>9 DEF ClearIndex, AtStep, Goto
  <1>. QED
    BY <1>5, <1>6, <1>7, <1>8, <1>9

LEMMA PutGoesOn ==
    ASSUME IngestInv, CarriesOK, NEW r \in Request, PutSource(r) \/ PutParsed(r)
    PROVE  \E n : GoesOn(r, n)
  <1>. DEFINE q == request[r]
  <1>1. PICK key \in KeysOf(q), next \in {"parsed", "index"} :
           /\ q.step \in {"source", "parsed"}
           /\ objects' = objects \cup {key}
           /\ request' = [request EXCEPT ![r].put = @ \cup {key}, ![r].step = next]
           /\ UNCHANGED <<rows, indexed>>
    BY DEF PutSource, PutParsed, PutObject, KeysOf, AtStep
  <1>. DEFINE put == q.put \cup {key}
  <1>. PICK n : n = [q EXCEPT !.put = put, !.step = next]
    OBVIOUS
  <1>2. q \in RequestState /\ Fits(q) /\ q.doc # NoDoc /\ Carries(q)
    BY <1>1, SessionTyped DEF Fits, CarriesOK
  <1>3. request' = [request EXCEPT ![r] = n]
    BY <1>1
  <1>. HIDE DEF put
  <1>4. n.step = next /\ n.doc = q.doc /\ n.text = q.text /\ n.put = put
    BY <1>2 DEF RequestState
  <1>5. ObjectsOf(q) = q.put /\ ObjectsOf(n) = put /\ VectorsOf(q) = {}
    BY <1>1, <1>2, <1>4 DEF ObjectsOf, VectorsOf, Inserts
  <1>6. put = q.put \cup {key}
    BY DEF put
  <1>7. NoObjectLeft(r, n)
    BY <1>1, <1>5, <1>6 DEF NoObjectLeft
  <1>8. NoVectorLeft(r, n)
    BY <1>1, <1>5 DEF NoVectorLeft
  <1>9. Carries(n)
    BY <1>2, <1>4 DEF Carries
  <1>. QED
    BY <1>3, <1>7, <1>8, <1>9 DEF GoesOn

LEMMA IndexChunksGoesOn ==
    ASSUME IngestInv, CarriesOK, NEW r \in Request, IndexChunks(r)
    PROVE  \E n : GoesOn(r, n)
  <1>. DEFINE q == request[r]
  <1>. PICK n : n = [q EXCEPT !.step = "commit"]
    OBVIOUS
  <1>1. /\ q.step = "index" /\ indexed' = indexed \cup {q.doc}
        /\ request' = [request EXCEPT ![r] = n]
        /\ UNCHANGED <<rows, objects>>
    BY DEF IndexChunks, AtStep, Goto
  <1>2. q \in RequestState /\ Fits(q) /\ q.doc # NoDoc /\ Carries(q)
    BY <1>1, SessionTyped DEF Fits, CarriesOK
  <1>3. n.step = "commit" /\ n.doc = q.doc /\ n.text = q.text /\ n.put = q.put
    BY <1>2, GotoTyped
  <1>4. ObjectsOf(n) = ObjectsOf(q) /\ VectorsOf(n) = {q.doc} /\ VectorsOf(q) = {}
    BY <1>1, <1>2, <1>3 DEF ObjectsOf, VectorsOf, Inserts
  <1>5. NoObjectLeft(r, n) /\ NoVectorLeft(r, n)
    BY <1>1, <1>4 DEF NoObjectLeft, NoVectorLeft
  <1>6. Carries(n)
    BY <1>2, <1>3 DEF Carries
  <1>. QED
    BY <1>1, <1>5, <1>6 DEF GoesOn

LEMMA FetchNoteGoesOn ==
    ASSUME IngestInv, CarriesOK, NEW r \in Request, NEW m \in ResearchNote, FetchNote(r, m)
    PROVE  \E n : GoesOn(r, n)
  <1>. DEFINE q == request[r]
  <1>1. q.step = "fetch" /\ UNCHANGED <<rows, indexed>>
    BY DEF FetchNote, AtStep
  <1>2. PICK row \in [id : {m}, fetched : BOOLEAN, object : BOOLEAN] :
          /\ objects' = IF row.object THEN objects \cup {NoteKey(m)} ELSE objects
          /\ request' = [request EXCEPT
                ![r].todo = @ \ {m},
                ![r].got = @ \cup {row},
                ![r].step = IF request[r].todo = {m} THEN "index_notes" ELSE "fetch"]
    BY DEF FetchNote
  <1>3. PICK st \in {"index_notes", "fetch"} :
           st = IF request[r].todo = {m} THEN "index_notes" ELSE "fetch"
    OBVIOUS
  <1>. PICK n : n = [q EXCEPT !.todo = @ \ {m}, !.got = @ \cup {row}, !.step = st]
    OBVIOUS
  <1>4. q \in RequestState /\ Fits(q) /\ q.doc = NoDoc
    BY <1>1, SessionTyped DEF Fits
  <1>5. request' = [request EXCEPT ![r] = n]
    BY <1>2, <1>3
  <1>6. n.step = st /\ n.doc = NoDoc /\ n.got = q.got \cup {row} /\ row.id = m
    BY <1>4 DEF RequestState
  <1>7. \A k : k \in ObjectsOf(n) <=>
           k \in ObjectsOf(q) \/ (row.object /\ k = NoteKey(m))
    BY <1>1, <1>4, <1>6 DEF ObjectsOf
  <1>8. VectorsOf(q) = {}
    BY <1>1 DEF VectorsOf
  <1>9. NoObjectLeft(r, n)
    BY <1>1, <1>2, <1>7 DEF NoObjectLeft
  <1>10. NoVectorLeft(r, n) /\ Carries(n)
    BY <1>1, <1>6, <1>8 DEF NoVectorLeft, Carries
  <1>. QED
    BY <1>5, <1>9, <1>10 DEF GoesOn

LEMMA IndexNotesGoesOn ==
    ASSUME IngestInv, CarriesOK, NEW r \in Request, IndexNotes(r)
    PROVE  \E n : GoesOn(r, n)
  <1>. DEFINE q == request[r]
  <1>1. PICK ids, put : ids = Fetched(q.got) /\ put = {NoteKey(n.id) : n \in {m \in q.got : m.object}}
    OBVIOUS
  <1>. PICK n : n = [q EXCEPT !.ids = ids, !.put = put, !.step = "note_rows"]
    OBVIOUS
  <1>2. /\ q.step = "index_notes" /\ indexed' = indexed \cup ids
        /\ request' = [request EXCEPT ![r] = n]
        /\ UNCHANGED <<rows, objects>>
    BY <1>1 DEF IndexNotes, AtStep
  <1>3. q \in RequestState /\ q.doc = NoDoc
    BY <1>2, SessionTyped DEF Fits
  <1>4. n.step = "note_rows" /\ n.doc = NoDoc /\ n.got = q.got /\ n.ids = ids
    BY <1>3 DEF RequestState
  <1>5. ObjectsOf(n) = ObjectsOf(q) /\ VectorsOf(n) = ids /\ VectorsOf(q) = {}
    BY <1>1, <1>2, <1>3, <1>4 DEF ObjectsOf, VectorsOf
  <1>6. NoObjectLeft(r, n) /\ NoVectorLeft(r, n)
    BY <1>2, <1>5 DEF NoObjectLeft, NoVectorLeft
  <1>7. Carries(n)
    BY <1>1, <1>4 DEF Carries
  <1>. QED
    BY <1>2, <1>6, <1>7 DEF GoesOn

\* A session that ends, and what it leaves.
Leaves(r) ==
    /\ request' = [request EXCEPT ![r] = Idle]
    /\ NoObjectLeft(r, Idle) \/ LosesObjects(r)
    /\ NoVectorLeft(r, Idle) \/ LosesVectors(r)

\* Of an upload, what is removed is all it has put; it has a vector only once it is indexed.
LEMMA FailUploadLeaves ==
    ASSUME IngestInv, NEW r \in Request, FailUpload(r)
    PROVE  Leaves(r)
  <1>1. PICK q : q = request[r]
    OBVIOUS
  <1>2. /\ q.step \in {"source", "parsed", "index", "commit"} /\ q.doc # NoDoc
        /\ request' = [request EXCEPT ![r] = Idle] /\ rows' = rows
    BY <1>1 DEF FailUpload, Close
  <1>3. PICK left \in Removed(q.put), some \in Unanswered(Putting(r)),
             kept \in Unanswered(Indexing(r)) :
           objects' = left \cup some /\ indexed' = indexed \cup kept
    BY <1>1 DEF FailUpload
  <1>4. NoObjectLeft(r, Idle) \/ LosesObjects(r)
    <2>1. CASE "removal" \in Fault \/ ("reply" \in Fault /\ Putting(r) # {})
      BY <2>1 DEF LosesObjects
    <2>2. CASE "removal" \notin Fault /\ ("reply" \notin Fault \/ Putting(r) = {})
      <3>1. objects' = objects \ q.put
        BY <1>3, <2>2, UnansweredAre DEF Removed
      <3>2. ObjectsOf(q) = q.put
        BY <1>2 DEF ObjectsOf, Inserts
      <3>. QED
        BY <1>1, <1>2, <3>1, <3>2 DEF NoObjectLeft
    <2>. QED
      BY <2>1, <2>2
  <1>5. NoVectorLeft(r, Idle) \/ LosesVectors(r)
    <2>1. CASE q.step = "commit" \/ ("reply" \in Fault /\ Indexing(r) # {})
      BY <1>1, <2>1 DEF LosesVectors, AtStep
    <2>2. CASE q.step # "commit" /\ ("reply" \notin Fault \/ Indexing(r) = {})
      <3>1. VectorsOf(q) = {}
        BY <1>2, <2>2 DEF VectorsOf
      <3>2. indexed' = indexed
        BY <1>3, <2>2, UnansweredAre
      <3>. QED
        BY <1>1, <1>2, <3>1, <3>2 DEF NoVectorLeft
    <2>. QED
      BY <2>1, <2>2
  <1>. QED
    BY <1>2, <1>4, <1>5 DEF Leaves

LEMMA FailResearchLeaves ==
    ASSUME IngestInv, CarriesOK, NEW r \in Request, FailResearch(r)
    PROVE  Leaves(r)
  <1>1. PICK q : q = request[r]
    OBVIOUS
  <1>2. PICK keys : keys = {NoteKey(n.id) : n \in {m \in q.got : m.object}}
    OBVIOUS
  <1>3. /\ q.step \in {"index_notes", "note_rows"} /\ objects' \in Removed(keys)
        /\ request' = [request EXCEPT ![r] = Idle] /\ rows' = rows
    BY <1>1, <1>2 DEF FailResearch, Close
  <1>4. PICK left \in Unindexed(q.ids), kept \in Unanswered(Indexing(r)) :
           indexed' = left \cup kept
    BY <1>1 DEF FailResearch
  <1>5. Fits(q) /\ Carries(q) /\ q.doc = NoDoc
    BY <1>1, <1>3, SessionTyped DEF CarriesOK, Fits
  <1>6. CASE "removal" \in Fault
    BY <1>3, <1>6 DEF LosesObjects, LosesVectors, Leaves
  <1>7. CASE "removal" \notin Fault
    <2>1. objects' = objects \ keys /\ left = indexed \ q.ids
      BY <1>3, <1>7 DEF Removed, Unindexed
    <2>2. ObjectsOf(q) = keys
      BY <1>2, <1>3, <1>5 DEF ObjectsOf
    <2>3. VectorsOf(q) \subseteq q.ids
      BY <1>3, <1>5 DEF VectorsOf, Carries
    <2>4. NoObjectLeft(r, Idle)
      BY <1>1, <1>3, <2>1, <2>2 DEF NoObjectLeft
    <2>5. CASE "reply" \in Fault /\ Indexing(r) # {}
      BY <1>3, <2>4, <2>5 DEF LosesVectors, Leaves
    <2>6. CASE "reply" \notin Fault \/ Indexing(r) = {}
      <3>1. indexed' = indexed \ q.ids
        BY <1>4, <2>1, <2>6, UnansweredAre
      <3>2. NoVectorLeft(r, Idle)
        BY <1>1, <1>3, <2>3, <3>1 DEF NoVectorLeft
      <3>. QED
        BY <1>3, <2>4, <3>2 DEF Leaves
    <2>. QED
      BY <2>5, <2>6
  <1>. QED
    BY <1>6, <1>7

\* What was pending belongs to the rows that are committed.
LEMMA CommitLeaves ==
    ASSUME IngestInv, CarriesOK, NEW r \in Request, CommitSession(r)
    PROVE  Leaves(r)
  <1>1. PICK q : q = request[r]
    OBVIOUS
  <1>. DEFINE added == {[id |-> d, content |-> c] : d \in {q.doc} \ {NoDoc}, c \in q.text}
  <1>2. \A c \in q.text : q.doc # NoDoc => [id |-> q.doc, content |-> c] \in added
    OBVIOUS
  <1>3. /\ q.step = "commit" /\ request' = [request EXCEPT ![r] = Idle]
        /\ rows' = [rows EXCEPT !.docs = @ \cup added, !.notes = @ \cup q.got]
        /\ objects' = objects /\ indexed' = indexed
    BY <1>1 DEF CommitSession, AtStep, Close
  <1>. HIDE DEF added
  <1>4. /\ Fits(q) /\ Carries(q) /\ q \in RequestState
        /\ rows \in [docs : SUBSET DocRow, notes : SUBSET NoteRow, exists : BOOLEAN]
    BY <1>1, SessionTyped DEF CarriesOK, IngestInv, IngestTypeOK
  <1>5. rows'.docs = rows.docs \cup added /\ rows'.notes = rows.notes \cup q.got
    BY <1>3, <1>4
  <1>6. ASSUME NEW k \in ObjectKeys(rows) PROVE k \in ObjectKeys(rows')
    BY <1>5, <1>6, KeysOfRows
  <1>7. ASSUME NEW x \in VectorsOfRows(rows) PROVE x \in VectorsOfRows(rows')
    BY <1>5, <1>7 DEF VectorsOfRows, DocIds, Fetched
  <1>8. ASSUME NEW k \in ObjectsOf(q) PROVE k \in ObjectKeys(rows')
    <2>1. CASE q.doc = NoDoc
      <3>1. \E m \in q.got : m.object /\ k = NoteKey(m.id)
        BY <1>3, <1>8, <2>1 DEF ObjectsOf, Inserts
      <3>. QED
        BY <1>5, <3>1, KeysOfRows
    <2>2. CASE q.doc # NoDoc
      <3>1. k \in KeysOf(q)
        BY <1>3, <1>4, <1>8, <2>2 DEF ObjectsOf, Inserts, Fits
      <3>2. PICK c \in q.text : k \in {SourceKey(c), ParsedKey(c)}
        BY <3>1 DEF KeysOf
      <3>3. [id |-> q.doc, content |-> c] \in rows'.docs
        BY <1>2, <1>5, <2>2
      <3>4. \E d \in rows'.docs : k \in {SourceKey(d.content), ParsedKey(d.content)}
        BY <3>2, <3>3
      <3>. QED
        BY <3>4, KeysOfRows
    <2>. QED
      BY <2>1, <2>2
  <1>9. ASSUME NEW x \in VectorsOf(q) PROVE x \in VectorsOfRows(rows')
    <2>1. CASE q.doc = NoDoc
      <3>1. x \in Fetched(q.got)
        BY <1>3, <1>9, <2>1 DEF VectorsOf
      <3>. QED
        BY <1>5, <3>1 DEF VectorsOfRows, Fetched
    <2>2. CASE q.doc # NoDoc
      <3>1. x = q.doc
        BY <1>3, <1>9, <2>2 DEF VectorsOf
      <3>2. PICK c : c \in q.text
        BY <1>4, <2>2 DEF Carries
      <3>3. [id |-> q.doc, content |-> c] \in rows'.docs
        BY <1>2, <1>5, <2>2, <3>2
      <3>. QED
        BY <3>1, <3>3 DEF VectorsOfRows, DocIds
    <2>. QED
      BY <2>1, <2>2
  <1>10. NoObjectLeft(r, Idle)
    BY <1>1, <1>3, <1>6, <1>8 DEF NoObjectLeft
  <1>11. NoVectorLeft(r, Idle)
    BY <1>1, <1>3, <1>7, <1>9 DEF NoVectorLeft
  <1>. QED
    BY <1>3, <1>10, <1>11 DEF Leaves

\* While the project is there, a rebuild loads what rows still say.
LEMMA LoadIndexLeaves ==
    ASSUME IngestInv, NEW r \in Request, LoadIndex(r) \/ FailRebuild(r)
    PROVE  Leaves(r)
  <1>1. PICK q : q = request[r]
    OBVIOUS
  <1>2. /\ q.step = "load" /\ request' = [request EXCEPT ![r] = Idle]
        /\ indexed' \subseteq indexed \cup Listed(q.seen) /\ rows' = rows /\ objects' = objects
    BY <1>1, UnansweredAre DEF LoadIndex, FailRebuild, AtStep, Close
  <1>3. ObjectsOf(q) = {} /\ VectorsOf(q) = {}
    BY <1>2, NothingPending
  <1>4. NoObjectLeft(r, Idle)
    BY <1>1, <1>2, <1>3 DEF NoObjectLeft
  <1>5. CASE ~rows.exists
    BY <1>2, <1>4, <1>5 DEF Leaves, LosesVectors
  <1>6. CASE rows.exists
    <2>1. q.seen.docs \subseteq rows.docs /\ q.seen.notes \subseteq rows.notes
      BY <1>1, <1>6, SessionTyped DEF Fits
    <2>2. Listed(q.seen) \subseteq VectorsOfRows(rows)
      BY <2>1 DEF Listed, VectorsOfRows, DocIds, Fetched
    <2>3. NoVectorLeft(r, Idle)
      BY <1>1, <1>2, <1>3, <2>2 DEF NoVectorLeft
    <2>. QED
      BY <1>2, <1>4, <2>3 DEF Leaves
  <1>. QED
    BY <1>5, <1>6

LEMMA OthersLeave ==
    ASSUME IngestInv, NEW r \in Request,
           \/ FailFetch(r) \/ RollBack(r) \/ DeleteProject(r) \/ Crash(r)
           \/ FailDelete(r)
    PROVE  Leaves(r)
  <1>1. request' = [request EXCEPT ![r] = Idle]
    BY DEF FailFetch, RollBack, DeleteProject, Crash, FailDelete, Close
  <1>2. CASE RollBack(r) \/ DeleteProject(r) \/ Crash(r)
    BY <1>1, <1>2 DEF Leaves, LosesObjects, LosesVectors, EndsUncompensated
  <1>3. CASE FailFetch(r)
    <2>1. VectorsOf(request[r]) = {} /\ rows' = rows /\ indexed' = indexed
      BY <1>3 DEF FailFetch, AtStep, VectorsOf
    <2>2. NoVectorLeft(r, Idle)
      BY <2>1 DEF NoVectorLeft
    <2>. QED
      BY <1>1, <1>3, <2>2 DEF Leaves, LosesObjects
  <1>4. CASE FailDelete(r)
    <2>1. /\ request[r].step \in {"objects", "project"}
          /\ rows' = rows /\ objects' \subseteq objects /\ indexed' = indexed
      BY <1>4 DEF FailDelete
    <2>2. NoObjectLeft(r, Idle) /\ NoVectorLeft(r, Idle)
      BY <2>1, NothingAdded
    <2>. QED
      BY <1>1, <2>2 DEF Leaves
  <1>. QED
    BY <1>2, <1>3, <1>4

NothingUnknownLeft ==
    /\ StrayObjects' \subseteq StrayObjects \/ \E r \in Request : LosesObjects(r)
    /\ StrayVectors' \subseteq StrayVectors \/ \E r \in Request : LosesVectors(r)

LEMMA StepLeaves ==
    ASSUME IngestInv, CarriesOK, NEW r \in Request, RequestStep(r)
    PROVE  Leaves(r) \/ \E n : GoesOn(r, n)
  BY StartGoesOn, StepGoesOn, PutGoesOn, IndexChunksGoesOn, FetchNoteGoesOn, IndexNotesGoesOn,
     FailUploadLeaves, FailResearchLeaves, CommitLeaves, LoadIndexLeaves, OthersLeave
     DEF RequestStep

LEMMA LeftoversStep ==
    IngestInv /\ CarriesOK /\ [IngestNext]_ingestVars => CarriesOK' /\ [NothingUnknownLeft]_ingestVars
  <1>. SUFFICES ASSUME IngestInv, CarriesOK, [IngestNext]_ingestVars
                PROVE  CarriesOK' /\ [NothingUnknownLeft]_ingestVars
    OBVIOUS
  <1>1. CASE UNCHANGED ingestVars
    BY <1>1 DEF ingestVars, CarriesOK, Carries
  <1>2. ASSUME NEW r \in Request, RequestStep(r)
        PROVE  CarriesOK' /\ NothingUnknownLeft
    <2>1. request \in [Request -> RequestState]
      BY DEF IngestInv, IngestTypeOK
    <2>2. CASE Leaves(r)
      <3>1. CarriesOK'
        BY <2>2, CarriesOn, IdleCarries DEF Leaves
      <3>2. /\ NoObjectLeft(r, Idle) => StrayObjects' \subseteq StrayObjects
            /\ NoVectorLeft(r, Idle) => StrayVectors' \subseteq StrayVectors
        BY <2>1, <2>2, StraysFrom DEF Leaves
      <3>. QED
        BY <2>2, <3>1, <3>2 DEF Leaves, NothingUnknownLeft
    <2>3. ASSUME NEW n, GoesOn(r, n)
          PROVE  CarriesOK' /\ NothingUnknownLeft
      <3>1. CarriesOK'
        BY <2>3, CarriesOn DEF GoesOn
      <3>2. StrayObjects' \subseteq StrayObjects /\ StrayVectors' \subseteq StrayVectors
        BY <2>1, <2>3, StraysFrom DEF GoesOn
      <3>. QED
        BY <3>1, <3>2 DEF NothingUnknownLeft
    <2>. QED
      BY <1>2, <2>2, <2>3, StepLeaves
  <1>. QED
    BY <1>1, <1>2 DEF IngestNext

\* What is left in the stores without a row was left in one of the ways LeftoversKnown lists,
\* whichever uploads, researches, rebuilds and deletions overlap.
THEOREM LeftoversComeFrom == IngestSpec => LeftoversKnown
  <1>1. IngestInit => CarriesOK
    BY IdleCarries DEF IngestInit, CarriesOK
  <1>2. NothingUnknownLeft =>
           /\ StrayObjects' \subseteq StrayObjects \/ \E r \in Request : LosesObjects(r)
           /\ StrayVectors' \subseteq StrayVectors \/ \E r \in Request : LosesVectors(r)
    BY DEF NothingUnknownLeft
  <1>. QED
    BY <1>1, <1>2, IngestInductive, LeftoversStep, PTL DEF IngestSpec, LeftoversKnown

-----------------------------------------------------------------------------
(***************************************************************************)
(* Backup.  An archive taken while the services write is closed under      *)
(* references, and so is what a restore makes of it.  Owners are never     *)
(* removed, and a project's objects only by a deletion: so what a dumped   *)
(* row refers to is still there when its turn comes, or the project is     *)
(* among the touched ones.                                                 *)
(***************************************************************************)

\* Which parts the archive has by now.
MainDumped == phase # "main"
AuthDumped == phase \notin {"main", "auth"}
BillingDumped == phase \notin {"main", "auth", "billing"}
BucketDumped == ~Archiving

Dumped ==
    /\ MainDumped => archive.main \in SUBSET MainRow
    /\ AuthDumped => archive.auth \in SUBSET User
    /\ BillingDumped => archive.billing \in SUBSET User
    /\ BucketDumped => archive.bucket \in SUBSET Project

\* The services keep their references.
LiveClosed ==
    Writing => \A r \in live.main :
        /\ r.owner \in live.auth
        /\ Archiving => r.project \in live.bucket \cup touched

\* The archive keeps them as far as it has come, and what it does not have yet is still there.
ArchiveSoFar ==
    MainDumped => \A r \in archive.main :
        /\ r.owner \in (IF AuthDumped THEN archive.auth ELSE live.auth)
        /\ r.project \in (IF BucketDumped THEN archive.bucket ELSE live.bucket) \cup touched

RestoredSoFar ==
    /\ phase \in {"load_auth", "load_billing", "load_bucket", "restored"} => live.main = archive.main
    /\ phase \in {"load_billing", "load_bucket", "restored"} => live.auth = archive.auth
    /\ phase = "restored" => archive.bucket \subseteq live.bucket

BackupInv == BackupTypeOK /\ Dumped /\ LiveClosed /\ ArchiveSoFar /\ RestoredSoFar

-----------------------------------------------------------------------------
(* The services *)

LEMMA Works ==
    ASSUME BackupInv, NEW stores \in Stores, Work(stores), touched' \in SUBSET Project,
           touched \subseteq touched',
           live.auth \subseteq stores.auth,
           Archiving => live.bucket \cup touched \subseteq stores.bucket \cup touched',
           \A r \in stores.main \ live.main :
               r.owner \in stores.auth /\ r.project \in stores.bucket
    PROVE  BackupInv'
  <1>1. BackupTypeOK' /\ Dumped' /\ RestoredSoFar'
    BY DEF BackupInv, Work, BackupTypeOK, Dumped, MainDumped, AuthDumped, BillingDumped, BucketDumped,
           RestoredSoFar, Writing, Archiving
  <1>2. LiveClosed'
    BY DEF BackupInv, Work, LiveClosed, Writing, Archiving
  <1>3. ArchiveSoFar'
    BY DEF BackupInv, Work, ArchiveSoFar, MainDumped, AuthDumped, BucketDumped, Writing, Archiving
  <1>. QED
    BY <1>1, <1>2, <1>3 DEF BackupInv

LEMMA AccountsKeep ==
    ASSUME BackupInv, NEW u \in User, RegisterUser(u) \/ GrantBalance(u)
    PROVE  BackupInv'
  <1>1. live \in Stores /\ touched \in SUBSET Project
    BY DEF BackupInv, BackupTypeOK
  <1>2. CASE RegisterUser(u)
    <2>. DEFINE stores == [live EXCEPT !.auth = @ \cup {u}]
    <2>1. /\ stores \in Stores /\ live.auth \subseteq stores.auth
          /\ stores.bucket = live.bucket /\ stores.main = live.main
      BY <1>1 DEF Stores
    <2>. QED
      BY <1>1, <1>2, <2>1, Works DEF RegisterUser
  <1>3. CASE GrantBalance(u)
    <2>. DEFINE stores == [live EXCEPT !.billing = @ \cup {u}]
    <2>1. /\ stores \in Stores /\ stores.auth = live.auth
          /\ stores.bucket = live.bucket /\ stores.main = live.main
      BY <1>1 DEF Stores
    <2>. QED
      BY <1>1, <1>3, <2>1, Works DEF GrantBalance
  <1>. QED
    BY <1>2, <1>3

LEMMA ProjectsKeep ==
    ASSUME BackupInv, NEW p \in Project, PutObjects(p) \/ RemoveObjects(p) \/ DeleteRow(p)
    PROVE  BackupInv'
  <1>1. live \in Stores /\ touched \in SUBSET Project
    BY DEF BackupInv, BackupTypeOK
  <1>2. CASE PutObjects(p)
    <2>. DEFINE stores == [live EXCEPT !.bucket = @ \cup {p}]
    <2>1. /\ stores \in Stores /\ stores.auth = live.auth
          /\ stores.bucket = live.bucket \cup {p} /\ stores.main = live.main
      BY <1>1 DEF Stores
    <2>. QED
      BY <1>1, <1>2, <2>1, Works DEF PutObjects
  <1>3. CASE RemoveObjects(p)
    <2>. DEFINE stores == [live EXCEPT !.bucket = @ \ {p}]
    <2>1. /\ stores \in Stores /\ stores.auth = live.auth
          /\ stores.bucket = live.bucket \ {p} /\ stores.main = live.main
      BY <1>1 DEF Stores
    <2>2. touched' = IF Archiving THEN touched \cup {p} ELSE touched
      BY <1>3 DEF RemoveObjects
    <2>. QED
      BY <1>1, <1>3, <2>1, <2>2, Works DEF RemoveObjects
  <1>4. CASE DeleteRow(p)
    <2>. DEFINE stores == [live EXCEPT !.main = {r \in @ : r.project # p}]
    <2>1. /\ stores \in Stores /\ stores.auth = live.auth
          /\ stores.bucket = live.bucket /\ stores.main \subseteq live.main
      BY <1>1 DEF Stores
    <2>. QED
      BY <1>1, <1>4, <2>1, Works DEF DeleteRow
  <1>. QED
    BY <1>2, <1>3, <1>4

LEMMA CommitKeeps ==
    ASSUME BackupInv, NEW p \in Project, NEW u \in User, CommitRows(p, u)
    PROVE  BackupInv'
  <1>. DEFINE row == [project |-> p, owner |-> u]
              stores == [live EXCEPT !.main = @ \cup {row}]
  <1>1. live \in Stores /\ touched \in SUBSET Project
    BY DEF BackupInv, BackupTypeOK
  <1>2. /\ stores \in Stores /\ stores.auth = live.auth
        /\ stores.bucket = live.bucket /\ stores.main = live.main \cup {row}
    BY <1>1 DEF Stores, MainRow
  <1>3. Work(stores) /\ touched' = touched /\ p \in live.bucket /\ u \in live.auth
    BY DEF CommitRows
  <1>4. \A r \in stores.main \ live.main : r.owner = u /\ r.project = p
    BY <1>2
  <1>. HIDE DEF stores
  <1>. QED
    BY <1>1, <1>2, <1>3, <1>4, Works

-----------------------------------------------------------------------------
(* The backup *)

LEMMA BackupTypes ==
    ASSUME BackupInv
    PROVE  /\ live \in Stores
           /\ archive \in [main : (SUBSET MainRow) \cup {NoDump}, auth : (SUBSET User) \cup {NoDump},
                           billing : (SUBSET User) \cup {NoDump},
                           bucket : (SUBSET Project) \cup {NoDump}]
  BY DEF BackupInv, BackupTypeOK

LEMMA Dumps ==
    ASSUME BackupInv, DumpDatabases \/ DownloadObjects
    PROVE  BackupInv'
  <1>1. CASE phase = "main" /\ Dump("main", "auth")
    <2>1. /\ archive' = [archive EXCEPT !.main = live.main]
          /\ phase' = "auth" /\ live' = live /\ touched' = touched
      BY <1>1 DEF Dump
    <2>2. BackupTypeOK' /\ archive'.main = live.main
      BY <2>1, BackupTypes DEF BackupInv, BackupTypeOK, Stores
    <2>. QED
      BY <1>1, <2>1, <2>2, BackupTypes DEF BackupInv, Stores, Dumped, MainDumped, AuthDumped,
         BillingDumped, BucketDumped, LiveClosed, ArchiveSoFar, RestoredSoFar, Writing, Archiving
  <1>2. CASE phase = "auth" /\ Dump("auth", "billing")
    <2>1. /\ archive' = [archive EXCEPT !.auth = live.auth]
          /\ phase' = "billing" /\ live' = live /\ touched' = touched
      BY <1>2 DEF Dump
    <2>2. BackupTypeOK' /\ archive'.auth = live.auth /\ archive'.main = archive.main
      BY <2>1, BackupTypes DEF BackupInv, BackupTypeOK, Stores
    <2>. QED
      BY <1>2, <2>1, <2>2, BackupTypes DEF BackupInv, Stores, Dumped, MainDumped, AuthDumped,
         BillingDumped, BucketDumped, LiveClosed, ArchiveSoFar, RestoredSoFar, Writing, Archiving
  <1>3. CASE phase = "billing" /\ Dump("billing", "bucket")
    <2>1. /\ archive' = [archive EXCEPT !.billing = live.billing]
          /\ phase' = "bucket" /\ live' = live /\ touched' = touched
      BY <1>3 DEF Dump
    <2>2. /\ BackupTypeOK' /\ archive'.billing = live.billing
          /\ archive'.main = archive.main /\ archive'.auth = archive.auth
      BY <2>1, BackupTypes DEF BackupInv, BackupTypeOK, Stores
    <2>. QED
      BY <1>3, <2>1, <2>2, BackupTypes DEF BackupInv, Stores, Dumped, MainDumped, AuthDumped,
         BillingDumped, BucketDumped, LiveClosed, ArchiveSoFar, RestoredSoFar, Writing, Archiving
  <1>4. CASE DownloadObjects
    <2>1. /\ archive' = [archive EXCEPT !.bucket = live.bucket]
          /\ phase = "bucket" /\ phase' = "archived" /\ live' = live /\ touched' = touched
      BY <1>4 DEF DownloadObjects, Dump
    <2>2. /\ BackupTypeOK' /\ archive'.bucket = live.bucket
          /\ archive'.main = archive.main /\ archive'.auth = archive.auth
          /\ archive'.billing = archive.billing
      BY <2>1, BackupTypes DEF BackupInv, BackupTypeOK, Stores
    <2>. QED
      BY <2>1, <2>2, BackupTypes DEF BackupInv, Stores, Dumped, MainDumped, AuthDumped,
         BillingDumped, BucketDumped, LiveClosed, ArchiveSoFar, RestoredSoFar, Writing, Archiving
  <1>. QED
    BY <1>1, <1>2, <1>3, <1>4 DEF DumpDatabases

(* The restore *)

LEMMA Restores ==
    ASSUME BackupInv, StopWriters \/ RestoreDatabases \/ UploadObjects \/ RestartRestore
    PROVE  BackupInv'
  <1>1. CASE StopWriters \/ RestartRestore
    BY <1>1 DEF BackupInv, StopWriters, RestartRestore, Restoring, BackupTypeOK, Dumped, MainDumped,
       AuthDumped, BillingDumped, BucketDumped, LiveClosed, ArchiveSoFar, RestoredSoFar, Writing,
       Archiving
  <1>2. CASE phase = "load_main" /\ Load("main", archive.main, "load_auth")
    <2>1. /\ live' = [live EXCEPT !.main = archive.main] /\ archive' = archive
          /\ phase' = "load_auth" /\ touched' = touched /\ archive.main \in SUBSET MainRow
      BY <1>2 DEF Load, BackupInv, Dumped, MainDumped
    <2>2. BackupTypeOK' /\ live'.main = archive.main
      BY <2>1, BackupTypes DEF BackupInv, BackupTypeOK, Stores
    <2>. QED
      BY <1>2, <2>1, <2>2 DEF BackupInv, Dumped, MainDumped, AuthDumped, BillingDumped, BucketDumped,
         LiveClosed, ArchiveSoFar, RestoredSoFar, Writing, Archiving
  <1>3. CASE phase = "load_auth" /\ Load("auth", archive.auth, "load_billing")
    <2>1. /\ live' = [live EXCEPT !.auth = archive.auth] /\ archive' = archive
          /\ phase' = "load_billing" /\ touched' = touched /\ archive.auth \in SUBSET User
      BY <1>3 DEF Load, BackupInv, Dumped, AuthDumped
    <2>2. BackupTypeOK' /\ live'.auth = archive.auth /\ live'.main = live.main
      BY <2>1, BackupTypes DEF BackupInv, BackupTypeOK, Stores
    <2>. QED
      BY <1>3, <2>1, <2>2 DEF BackupInv, Dumped, MainDumped, AuthDumped, BillingDumped, BucketDumped,
         LiveClosed, ArchiveSoFar, RestoredSoFar, Writing, Archiving
  <1>4. CASE phase = "load_billing" /\ Load("billing", archive.billing, "load_bucket")
    <2>1. /\ live' = [live EXCEPT !.billing = archive.billing] /\ archive' = archive
          /\ phase' = "load_bucket" /\ touched' = touched /\ archive.billing \in SUBSET User
      BY <1>4 DEF Load, BackupInv, Dumped, BillingDumped
    <2>2. BackupTypeOK' /\ live'.auth = live.auth /\ live'.main = live.main
      BY <2>1, BackupTypes DEF BackupInv, BackupTypeOK, Stores
    <2>. QED
      BY <1>4, <2>1, <2>2 DEF BackupInv, Dumped, MainDumped, AuthDumped, BillingDumped, BucketDumped,
         LiveClosed, ArchiveSoFar, RestoredSoFar, Writing, Archiving
  <1>5. CASE UploadObjects
    <2>1. /\ live' = [live EXCEPT !.bucket = live.bucket \cup archive.bucket]
          /\ archive' = archive /\ phase = "load_bucket" /\ phase' = "restored"
          /\ touched' = touched /\ archive.bucket \in SUBSET Project
      BY <1>5 DEF UploadObjects, Load, BackupInv, Dumped, BucketDumped, Archiving
    <2>2. /\ BackupTypeOK' /\ live'.auth = live.auth /\ live'.main = live.main
          /\ archive.bucket \subseteq live'.bucket
      BY <2>1, BackupTypes DEF BackupInv, BackupTypeOK, Stores
    <2>. QED
      BY <2>1, <2>2 DEF BackupInv, Dumped, MainDumped, AuthDumped, BillingDumped, BucketDumped,
         LiveClosed, ArchiveSoFar, RestoredSoFar, Writing, Archiving
  <1>. QED
    BY <1>1, <1>2, <1>3, <1>4, <1>5 DEF RestoreDatabases

-----------------------------------------------------------------------------
(* Theorems *)

LEMMA BackupInit_BackupInv == BackupInit => BackupInv
  BY DEF BackupInit, BackupInv, BackupTypeOK, Stores, Dumped, MainDumped, AuthDumped, BillingDumped,
     BucketDumped, LiveClosed, ArchiveSoFar, RestoredSoFar, Writing, Archiving

LEMMA BackupInvKept == BackupInv /\ [BackupNext]_backupVars => BackupInv'
  <1>. SUFFICES ASSUME BackupInv, [BackupNext]_backupVars PROVE BackupInv'
    OBVIOUS
  <1>1. CASE UNCHANGED backupVars
    BY <1>1 DEF backupVars, BackupInv, BackupTypeOK, Dumped, MainDumped, AuthDumped, BillingDumped,
       BucketDumped, LiveClosed, ArchiveSoFar, RestoredSoFar, Writing, Archiving
  <1>2. ASSUME NEW u \in User, RegisterUser(u) \/ GrantBalance(u)
        PROVE  BackupInv'
    BY <1>2, AccountsKeep
  <1>3. ASSUME NEW p \in Project, PutObjects(p) \/ RemoveObjects(p) \/ DeleteRow(p)
        PROVE  BackupInv'
    BY <1>3, ProjectsKeep
  <1>4. ASSUME NEW p \in Project, NEW u \in User, CommitRows(p, u)
        PROVE  BackupInv'
    BY <1>4, CommitKeeps
  <1>. QED
    BY <1>1, <1>2, <1>3, <1>4, Dumps, Restores DEF BackupNext

\* The live stores and the archive hold rows, accounts and objects, each in its part, in every phase
\* of a backup and of a restore.
THEOREM BackupWellFormed == BackupSpec => []BackupTypeOK
  <1>1. BackupInv => BackupTypeOK
    BY DEF BackupInv
  <1>. QED
    BY BackupInit_BackupInv, BackupInvKept, <1>1, PTL DEF BackupSpec

\* The archive of a backup that ran against writing services is closed under references: owners
\* and objects of its projects are in it, unless a project was being deleted.
THEOREM ArchiveIsClosed == BackupSpec => []ArchiveClosed
  <1>1. BackupInv => ArchiveClosed
    BY DEF BackupInv, Dumped, ArchiveSoFar, ArchiveClosed, MainDumped, AuthDumped, BucketDumped,
       Archiving
  <1>. QED
    BY BackupInit_BackupInv, BackupInvKept, <1>1, PTL DEF BackupSpec

\* After a restore, also one that was interrupted and run again, rows refer to accounts and
\* objects that exist.
THEOREM RestoreIsClosed == BackupSpec => []RestoreClosed
  <1>1. BackupInv => RestoreClosed
    BY DEF BackupInv, ArchiveSoFar, RestoredSoFar, RestoreClosed, MainDumped, AuthDumped,
       BucketDumped, Archiving
  <1>. QED
    BY BackupInit_BackupInv, BackupInvKept, <1>1, PTL DEF BackupSpec

===============================================================================
