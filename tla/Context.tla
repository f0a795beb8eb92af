------------------------------- MODULE Context -------------------------------
(***************************************************************************)
(* The context of one prompt (context_manager, and its caller in             *)
(* generation_service): matches of the vector search are resolved, checked   *)
(* and taken within a budget of characters; then the sections of the prompt  *)
(* are put together within the same budget.  A text is an element of a small *)
(* set with a length; the prompt is what each section contributes to it.     *)
(***************************************************************************)
EXTENDS Integers, Sequences, FiniteSets, SequencesExt

CONSTANTS
    SourceType,    \* source types there are records of
    Chunk,         \* content_hash of the indexed texts
    Text,          \* what a match may resolve to, apart from white space
    LengthOf,      \* its length
    NoText,        \* it resolves to nothing: its document is gone
    Limit,         \* context_retrieval_limit
    MaxCharacters, \* context_max_characters
    HeaderLength,  \* of "## <section>" and the end of the line
    OwnLength      \* lengths of the sections that are not retrieved; 0: empty

RETRIEVAL_PRIORITY ==
    <<"story_bible", "chapter", "character", "style", "memory", "research", "document">>

ASSUME ContextTypes == SourceType \subseteq ToSet(RETRIEVAL_PRIORITY)
ASSUME ContextTexts == NoText \notin Text /\ LengthOf \in [Text -> Nat \ {0}]
ASSUME ContextBounds ==
    Limit \in Nat /\ MaxCharacters \in Nat \ {0} /\ HeaderLength \in Nat /\ OwnLength \subseteq Nat

\* trusted: of a research note, that it was fetched and is credible.
Match == [kind : SourceType, trusted : BOOLEAN, chunk : Chunk, text : Text \cup {NoText}]

VARIABLES
    stage,     \* what is done next
    found,     \* the matches, sorted
    next,      \* the match in hand
    fragments, \* what was taken: the match, and how much of its text
    truncated, \* the flag of the result
    sections,  \* the lengths of the sections, in the order in which they are asked for
    prompt     \* how much of each is in the prompt

contextVars == <<stage, found, next, fragments, truncated, sections, prompt>>

ContextInit ==
    /\ stage = "search"
    /\ found = <<>> /\ next = 1
    /\ fragments = <<>> /\ truncated = FALSE
    /\ sections = <<>> /\ prompt = <<>>

-----------------------------------------------------------------------------
(* retrieve *)

\* Of each kind: the ones that differ for what follows.
Matches == {m \in Match : m.kind # "research" => m.trusted}

Rank(m) == CHOOSE i \in DOMAIN RETRIEVAL_PRIORITY : RETRIEVAL_PRIORITY[i] = m.kind

\* The vector search, sorted by rank and then by score, which may be any.
Search ==
    /\ stage = "search"
    /\ \E n \in 0 .. Limit : found' \in [1 .. n -> Matches]
    /\ \A i, j \in DOMAIN found' : i < j => Rank(found'[i]) <= Rank(found'[j])
    /\ stage' = "take"
    /\ UNCHANGED <<next, fragments, truncated, sections, prompt>>

\* _is_trusted_research_match, and a content that is not empty.
Acceptable(m) == m.text # NoText /\ (m.kind = "research" => m.trusted)

\* Mutant: two records of one text are told apart by their hashes.
SameHash(m) == \E i \in DOMAIN fragments : fragments[i].match.chunk = m.chunk

\* seen_hashes and seen_content
Repeated(m) ==
    \E i \in DOMAIN fragments :
        fragments[i].match.chunk = m.chunk \/ fragments[i].match.text = m.text

Taken == FoldLeft(LAMBDA sum, f : sum + f.length, 0, fragments)
Remaining == MaxCharacters - Taken

Shorter(a, b) == IF a < b THEN a ELSE b

InHand(m) == stage = "take" /\ next \in DOMAIN found /\ m = found[next]

Skip(m) ==
    /\ InHand(m)
    /\ ~Acceptable(m) \/ Repeated(m)
    /\ next' = next + 1
    /\ UNCHANGED <<stage, found, fragments, truncated, sections, prompt>>

\* The text, or as much of it as there is room for.
Take(m) ==
    LET length == Shorter(LengthOf[m.text], Remaining) IN
    /\ InHand(m)
    /\ Acceptable(m) /\ ~Repeated(m) /\ Remaining > 0
    /\ fragments' = Append(fragments, [match |-> m, length |-> length])
    /\ truncated' = (truncated \/ length < LengthOf[m.text])
    /\ next' = next + 1
    /\ UNCHANGED <<stage, found, sections, prompt>>

NoRoom(m) ==
    /\ InHand(m)
    /\ Acceptable(m) /\ ~Repeated(m) /\ Remaining <= 0
    /\ truncated' = TRUE
    /\ next' = Len(found) + 1
    /\ UNCHANGED <<stage, found, fragments, sections, prompt>>

-----------------------------------------------------------------------------
(* _rag_context *)

\* The retrieved texts of some kinds, one per line.
Joined(kinds) ==
    LET these == {i \in DOMAIN fragments : fragments[i].match.kind \in kinds}
        sum == FoldLeft(LAMBDA s, f : s + (IF f.match.kind \in kinds THEN f.length ELSE 0), 0,
                        fragments)
    IN  IF these = {} THEN 0 ELSE sum + Cardinality(these) - 1

\* story_bible, current_story, characters, style, memory and research, which DEFAULT_PRIORITY
\* names; then documents, chapters and retrieved_canon.
Group ==
    /\ stage = "take" /\ next \notin DOMAIN found
    /\ \E bible, story, characters, style \in OwnLength :
          sections' = <<bible, story, characters, style, Joined({"memory"}), Joined({"research"}),
                        Joined({"document"}), Joined({"chapter"}),
                        Joined({"story_bible", "character"})>>
    /\ stage' = "assemble"
    /\ UNCHANGED <<found, next, fragments, truncated, prompt>>

\* Mutant: the blank line between two blocks is not counted.
Uncounted(room, length) == room - (HeaderLength + length)

\* The room that a block leaves.
RoomAfter(room, length) == room - (HeaderLength + length + 2)

\* One section: an empty one and one for which no room is left contribute nothing; one whose
\* header fills the room ends the prompt.
AddSection(done, length) ==
    LET allowance == done.room - HeaderLength
        clipped == Shorter(length, allowance)
    IN
    IF done.full \/ length = 0 \/ done.room <= 0 THEN [done EXCEPT !.kept = Append(@, 0)]
    ELSE IF allowance <= 0 THEN [done EXCEPT !.full = TRUE, !.kept = Append(@, 0)]
    ELSE [done EXCEPT !.room = RoomAfter(@, clipped), !.kept = Append(@, clipped)]

\* assemble
Assemble ==
    /\ stage = "assemble"
    /\ prompt' = FoldLeft(AddSection, [room |-> MaxCharacters, full |-> FALSE, kept |-> <<>>],
                          sections).kept
    /\ stage' = "done"
    /\ UNCHANGED <<found, next, fragments, truncated, sections>>

ContextNext ==
    \/ Search
    \/ \E m \in ToSet(found) : Skip(m) \/ Take(m) \/ NoRoom(m)
    \/ Group \/ Assemble

ContextSpec == ContextInit /\ [][ContextNext]_contextVars

-----------------------------------------------------------------------------
Blocks == {i \in DOMAIN prompt : prompt[i] > 0}

\* The prompt with its headers and blank lines keeps to the budget, and no section is in it
\* unless all that come before it are, entirely: hard canon is not dropped before soft context.
PromptFits ==
    /\ LET text == FoldLeft(LAMBDA sum, n : sum + n, 0, prompt)
       IN  text + Cardinality(Blocks) * (HeaderLength + 2) - 2 <= MaxCharacters
    /\ \A j \in Blocks : \A i \in 1 .. j - 1 : prompt[i] = sections[i]

\* A retrieval that is not flagged as truncated has left out nothing usable: each match that can
\* be used is there, or a fragment with its hash or its text is; one that is flagged has used up
\* the budget.  No text is there twice, and the budget is kept.
NothingHidden ==
    stage \in {"assemble", "done"} =>
        /\ IF truncated THEN Taken = MaxCharacters
           ELSE /\ Taken <= MaxCharacters
                /\ \A m \in {n \in ToSet(found) : Acceptable(n)} : Repeated(m)
                /\ \A i \in DOMAIN fragments :
                      fragments[i].length = LengthOf[fragments[i].match.text]
        /\ \A i, j \in DOMAIN fragments :
              fragments[i].match.text = fragments[j].match.text => i = j

=============================================================================
