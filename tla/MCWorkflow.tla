----------------------------- MODULE MCWorkflow -----------------------------
(***************************************************************************)
(* Instances of Workflow for TLC: the eleven steps of CHAPTER_STEPS, and a  *)
(* template of four that keeps one step of each kind, for two workers, and   *)
(* one of two for two runs that share the workers.                           *)
(***************************************************************************)
EXTENDS Workflow, TLC

\* 1 research, 2 research_approval, 3 memory_preflight, 4 memory_conflict_approval, 5 plan,
\* 6 plot_approval, 7 write, 8 quality_gate, 9 draft_approval, 10 canon_commit,
\* 11 memory_extract
ChapterApproval == {2, 4, 6, 9}
ChapterGate == 2 :> {1} @@ 4 :> {3} @@ 6 :> {} @@ 9 :> {8}
ChapterSelfClearing == {4}
ChapterOptional == {1, 2}
ChapterInput ==
    [i \in 1 .. 11 |-> CASE i = 7 -> {5} [] i = 8 -> {7} [] i = 10 -> {7} [] i = 11 -> {7, 10}
                          [] OTHER -> {}]

\* 1 research, 2 quality_gate, 3 draft_approval, 4 canon_commit
ShortApproval == {3}
ShortGate == 3 :> {2}
ShortSelfClearing == {}
ShortOptional == {1}
ShortInput == [i \in 1 .. 4 |-> IF i = 4 THEN {2} ELSE {}]

\* 1 quality_gate, 2 draft_approval
TinyApproval == {2}
TinySelfClearing == {}
TinyOptional == {}
TinyGate == 2 :> {1}
TinyInput == [i \in 1 .. 2 |-> {}]

=============================================================================
