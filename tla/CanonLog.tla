------------------------------ MODULE CanonLog ------------------------------
(***************************************************************************)
(* What the author is promised of the story's canon: one linear history,   *)
(* to which the author adds edits and into which a draft enters at most     *)
(* once, directly after the version of the canon it was written against.    *)
(***************************************************************************)
EXTENDS Integers, Sequences

CONSTANTS
    Draft, \* drafts that may be proposed
    Edit   \* an entry the author makes by hand

VARIABLES
    log,  \* the entries, oldest first; version v has the first v - 1 of them
    base  \* the version a draft was written against, 0 before it is

logVars == <<log, base>>

LogInit ==
    /\ log = <<>>
    /\ base = [d \in Draft |-> 0]

\* A draft is proposed against a version that existed when its writing began.
Propose(d) ==
    /\ base[d] = 0
    /\ \E v \in 1 .. Len(log) + 1 : base' = [base EXCEPT ![d] = v]
    /\ UNCHANGED log

EditCanon ==
    /\ log' = Append(log, Edit)
    /\ UNCHANGED base

Enter(d) ==
    /\ base[d] = Len(log) + 1
    /\ log' = Append(log, d)
    /\ UNCHANGED base

LogNext == EditCanon \/ \E d \in Draft : Propose(d) \/ Enter(d)

LogSpec == LogInit /\ [][LogNext]_logVars

-----------------------------------------------------------------------------
\* A draft is found in the history only at the version it was written against, hence at one
\* place at most: whoever reads the canon up to a draft reads what its writer was given.
EnteredOnBase == \A i \in DOMAIN log, d \in Draft : log[i] = d => base[d] = i

\* An entry stays at its version, and the version a draft was written against stays what it
\* was when the draft was proposed.
EntriesKept ==
    /\ \A i \in DOMAIN log : i \in DOMAIN log' /\ log'[i] = log[i]
    /\ \A d \in Draft : base[d] # 0 => base'[d] = base[d]

\* The history is never rewritten.
NeverRewritten == [][EntriesKept]_logVars

=============================================================================
