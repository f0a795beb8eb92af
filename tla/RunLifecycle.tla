---------------------------- MODULE RunLifecycle ----------------------------
(***************************************************************************)
(* What an author sees of a chapter workflow, without workers, leases,      *)
(* attempts and backoffs: a run works through its steps in order, asks at   *)
(* approvals, and ends.  Workflow implements this specification.            *)
(***************************************************************************)
EXTENDS Integers

CONSTANTS Run, Steps, Approval, Optional

VARIABLES
    phase,  \* of each run
    passed, \* steps that have succeeded
    waived  \* steps left out from the beginning

lvars == <<phase, passed, waived>>

Positions == 1 .. Steps

Done(r) == passed[r] \cup waived[r]

NextIs(r, i) == i \in Positions \ Done(r) /\ \A j \in 1 .. (i - 1) : j \in Done(r)

Init ==
    /\ phase = [r \in Run |-> "absent"]
    /\ passed = [r \in Run |-> {}]
    /\ waived = [r \in Run |-> {}]

Enter(r, p) == phase' = [phase EXCEPT ![r] = p]

Create(r) ==
    /\ phase[r] = "absent"
    /\ Enter(r, "working")
    /\ \E S \in {{}, Optional} : waived' = [waived EXCEPT ![r] = S]
    /\ UNCHANGED passed

\* Step i passes; the run has succeeded when it was the last one.
Pass(r, i) ==
    /\ NextIs(r, i)
    /\ passed' = [passed EXCEPT ![r] = @ \cup {i}]
    /\ Enter(r, IF Done(r) \cup {i} = Positions THEN "succeeded" ELSE "working")
    /\ UNCHANGED waived

\* An executed step, or an approval that needs no author.
Advance(r, i) == phase[r] = "working" /\ Pass(r, i)

Ask(r, i) ==
    /\ phase[r] = "working" /\ NextIs(r, i) /\ i \in Approval
    /\ Enter(r, "asking")
    /\ UNCHANGED <<passed, waived>>

Agree(r, i) == phase[r] = "asking" /\ i \in Approval /\ Pass(r, i)

\* The author declines, or the work fails for good.
Fail(r) ==
    /\ phase[r] \in {"working", "asking"}
    /\ Enter(r, "failed")
    /\ UNCHANGED <<passed, waived>>

\* A step that is being executed when the author cancels may still pass.
Cancel(r) ==
    /\ phase[r] \in {"working", "asking"}
    /\ Enter(r, "cancelled")
    /\ waived' = [waived EXCEPT ![r] = {}]
    /\ \/ UNCHANGED passed
       \/ \E i \in Positions \ Approval :
             phase[r] = "working" /\ NextIs(r, i) /\ passed' = [passed EXCEPT ![r] = @ \cup {i}]

Retry(r, t) ==
    /\ phase[r] = "failed"
    /\ Enter(r, "working")
    /\ passed' = [passed EXCEPT ![r] = {i \in @ : i < t}]
    /\ waived' = [waived EXCEPT ![r] = {i \in @ : i < t}]

Next ==
    \E r \in Run :
        \/ Create(r) \/ Fail(r) \/ Cancel(r)
        \/ \E i \in Positions : Advance(r, i) \/ Ask(r, i) \/ Agree(r, i) \/ Retry(r, i)

Spec == Init /\ [][Next]_lvars

=============================================================================
