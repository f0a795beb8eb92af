------------------------------- MODULE Research -------------------------------
(***************************************************************************)
(* The outside calls of one research request: the search engine is asked      *)
(* query by query (research_agent, searxng), the language model once (its     *)
(* answer changes nothing), each note's page is fetched through redirects     *)
(* (http), notes that confirm each other are marked (research_service), and   *)
(* their evidence is embedded in batches (openai_compatible).  What is done   *)
(* with objects, rows and vectors, and undone on an error, is in Ingest.      *)
(***************************************************************************)
EXTENDS Integers, Sequences, FiniteSets, SequencesExt

CONSTANTS
    Url,          \* addresses of pages
    HostOf,       \* their hosts
    Unreachable,  \* those that are refused or not resolved before a request is sent
    Snippet,      \* pieces of evidence; the same one on two pages is an overlap
    Queries,      \* how many distinct queries a request makes
    MaxResults,   \* results read from an answer of the search engine
    MaxRetries,   \* of every client
    MaxRedirects,
    MaxFetches,   \* notes whose pages are fetched
    MaxBatchSize  \* texts in one embedding request

ASSUME ResearchBounds ==
    /\ Queries \in 1 .. 3
    /\ {MaxResults, MaxRetries, MaxRedirects, MaxFetches} \subseteq Nat
    /\ MaxBatchSize \in Nat \ {0}
    /\ IsFiniteSet(Snippet)

ASSUME ResearchUrls == DOMAIN HostOf = Url /\ Unreachable \subseteq Url

VARIABLES
    job,        \* the call under way: of which step and item, its attempt, redirects and address
    collected,  \* the notes, in the order in which they were found
    embeddings  \* the vectors received; a vector is the text it was computed from

researchVars == <<job, collected, embeddings>>

\* An evidence snippet names the page it is from.
EvidenceSnippet == [text : Snippet, source : Url]

FoundNote == [url : Url, status : {"snippet_only", "fetched", "fetch_failed", "corroborated"},
              evidence : SUBSET EvidenceSnippet]

Job(step, item) == [step |-> step, item |-> item, attempt |-> 0, redirects |-> 0, at |-> "none"]

ResearchInit ==
    /\ job = Job("search", 1)
    /\ collected = <<>>
    /\ embeddings = <<>>

Doing(step) == job.step = step

FailResearchCall == job' = Job("failed", 0) /\ UNCHANGED <<collected, embeddings>>

\* A status worth a retry, or no answer in time: every client makes some more attempts.
NextAttempt ==
    /\ job.attempt < MaxRetries
    /\ job' = [job EXCEPT !.attempt = @ + 1]
    /\ UNCHANGED <<collected, embeddings>>

-----------------------------------------------------------------------------
(* Search *)

\* A result whose address is new becomes a note; repeated ones, of this query or an earlier one,
\* are passed over.
WithResult(notes, url) ==
    IF \E i \in DOMAIN notes : notes[i].url = url THEN notes
    ELSE Append(notes, [url |-> url, status |-> "snippet_only", evidence |-> {}])

\* Notes beyond max_fetches keep what the search said of them.
FetchFrom(notes, i) ==
    IF i > Len(notes) \/ i > MaxFetches THEN Job("corroborate", 0)
    ELSE [Job("fetch", i) EXCEPT !.at = notes[i].url]

AfterSearch(notes) ==
    IF job.item < Queries THEN Job("search", job.item + 1)
    ELSE IF notes = <<>> THEN FetchFrom(notes, 1)
    ELSE Job("synthesis", 0)

RetrySearch == Doing("search") /\ NextAttempt

SearchAnswers ==
    /\ Doing("search")
    /\ \E n \in 0 .. MaxResults : \E urls \in [1 .. n -> Url] :
          collected' = FoldLeft(WithResult, collected, urls)
    /\ job' = AfterSearch(collected')
    /\ UNCHANGED embeddings

\* Retries used up, another error status or a malformed answer: the whole request fails.
SearchFails == Doing("search") /\ FailResearchCall

RetrySynthesis == Doing("synthesis") /\ NextAttempt

\* The answer is a string, of which as_dict makes no notes.
SynthesisAnswers ==
    /\ Doing("synthesis")
    /\ job' = FetchFrom(collected, 1)
    /\ UNCHANGED <<collected, embeddings>>

\* A failure is not one of the request.
SynthesisFails ==
    /\ Doing("synthesis")
    /\ job' = FetchFrom(collected, 1)
    /\ UNCHANGED <<collected, embeddings>>

-----------------------------------------------------------------------------
(* Pages *)

\* A request is sent to the page in hand.
Requesting == Doing("fetch") /\ job.at \notin Unreachable

RetryPage == Requesting /\ NextAttempt

\* Redirected to another page, which gets its own attempts.
Redirected ==
    /\ Requesting
    /\ job.redirects < MaxRedirects
    /\ \E target \in Url :
          job' = [job EXCEPT !.at = target, !.redirects = @ + 1, !.attempt = 0]
    /\ UNCHANGED <<collected, embeddings>>

\* Mutant: the note keeps the address that the search returned.
SearchedUrl == collected[job.item].url

\* The note is of the page where the redirects ended.
FinalUrl == job.at

\* What is read of a page: whether it asks for a proof of access, and its pieces of text that
\* have to do with the topic.
Page == [challenge : BOOLEAN, texts : SUBSET Snippet]

\* What the note keeps of it.
Evidence(page) ==
    [text : IF page.challenge THEN {} ELSE page.texts, source : {job.at}]

PageRead ==
    /\ Requesting
    /\ \E page \in Page :
          collected' = [collected EXCEPT ![job.item] =
                           [url |-> FinalUrl,
                            status |-> IF Evidence(page) = {} THEN "fetch_failed" ELSE "fetched",
                            evidence |-> Evidence(page)]]
    /\ job' = FetchFrom(collected', job.item + 1)
    /\ UNCHANGED embeddings

\* The note stays, with its old address.
NoPage ==
    /\ collected' = [collected EXCEPT ![job.item].status = "fetch_failed"]
    /\ job' = FetchFrom(collected', job.item + 1)
    /\ UNCHANGED embeddings

\* An address that is not allowed, or that nothing resolves (any more).
PageRefused == Doing("fetch") /\ NoPage

\* Retries or redirects used up, or another error status.
PageFails == Requesting /\ NoPage

\* A type, a length or a text that is not accepted.
PageUnreadable == Requesting /\ NoPage

-----------------------------------------------------------------------------
(* Corroboration *)

TextsOf(note) == {e.text : e \in note.evidence}

Corroborates(other, note) ==
    /\ HostOf[other.url] # HostOf[note.url]
    /\ TextsOf(other) \cap TextsOf(note) # {}

\* What is embedded: the evidence of each note that has some.
Texts(notes) ==
    FoldLeft(LAMBDA texts, n : IF n.status \in {"fetched", "corroborated"}
                               THEN texts \o SetToSeq(TextsOf(n)) ELSE texts, <<>>, notes)

EmbedFrom(notes, start) ==
    IF start > Len(Texts(notes)) THEN Job("done", 0) ELSE Job("embed", start)

MarkCorroboration ==
    /\ Doing("corroborate")
    /\ collected' =
          [i \in DOMAIN collected |->
              IF \E j \in (DOMAIN collected) \ {i} : Corroborates(collected[j], collected[i])
              THEN [collected[i] EXCEPT !.status = "corroborated"] ELSE collected[i]]
    /\ job' = EmbedFrom(collected', 1)
    /\ UNCHANGED embeddings

-----------------------------------------------------------------------------
(* Embedding *)

Batch ==
    LET texts == Texts(collected)
        end == job.item + MaxBatchSize - 1
    IN  SubSeq(texts, job.item, IF end < Len(texts) THEN end ELSE Len(texts))

\* The indexes that the vectors of an answer claim: any number of them, in any order.
Answers == UNION {[1 .. n -> 1 .. Len(Batch) + 1] : n \in 0 .. Len(Batch) + 1}

\* As many vectors as texts, each with an index of its own.
Covers(answer) == DOMAIN answer = DOMAIN Batch /\ ToSet(answer) = DOMAIN Batch

\* Mutant: the vectors are taken in the order of the answer.
InAnswerOrder(answer) == [k \in DOMAIN answer |-> Batch[answer[k]]]

\* Each vector is put at its index.
Placed(answer) ==
    [i \in DOMAIN answer |-> Batch[answer[CHOOSE k \in DOMAIN answer : answer[k] = i]]]

RetryEmbedding == Doing("embed") /\ NextAttempt

EmbedBatch ==
    /\ Doing("embed")
    /\ \E answer \in Answers :
          /\ Covers(answer)
          /\ embeddings' = embeddings \o Placed(answer)
    /\ job' = EmbedFrom(collected, job.item + MaxBatchSize)
    /\ UNCHANGED collected

\* An answer that does not cover the batch, or an error.
EmbedFails == Doing("embed") /\ FailResearchCall

ResearchNext ==
    \/ RetrySearch \/ SearchAnswers \/ SearchFails
    \/ RetrySynthesis \/ SynthesisAnswers \/ SynthesisFails
    \/ RetryPage \/ Redirected \/ PageRead \/ PageRefused \/ PageFails \/ PageUnreadable
    \/ MarkCorroboration
    \/ RetryEmbedding \/ EmbedBatch \/ EmbedFails

ResearchSpec == ResearchInit /\ [][ResearchNext]_researchVars

-----------------------------------------------------------------------------
\* A note is corroborated exactly when a page of another host, the one its evidence was really
\* read from after all redirects, has a piece of its evidence too; two notes that were led to one
\* site do not confirm each other.
CorroborationIndependent ==
    job.step \in {"embed", "done"} =>
        \A i \in DOMAIN collected :
            collected[i].status = "corroborated" <=>
                \E j \in DOMAIN collected : \E e \in collected[j].evidence :
                    \E own \in collected[i].evidence :
                        own.text = e.text /\ HostOf[own.source] # HostOf[e.source]

\* Batch by batch, and whatever order the answers are in, the vectors received are those of the
\* texts in their order: no text is stored under another one's vector.
VectorsOfTexts ==
    job.step \in {"embed", "done"} =>
        /\ IsPrefix(embeddings, Texts(collected))
        /\ Doing("done") => Len(embeddings) = Len(Texts(collected))

===============================================================================
