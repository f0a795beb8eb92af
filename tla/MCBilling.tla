------------------------------- MODULE MCBilling -------------------------------
(***************************************************************************)
(* The small instance of Billing.  A behaviour is about the stream, with all  *)
(* messages and nobody else, or about the reports: the two paths meet in one  *)
(* table only, by disjoint keys.                                             *)
(***************************************************************************)
EXTENDS Billing, TLC

VARIABLE subject

\* The first account pays for everything, one unit each.
MCPaidBy == [e \in Event |-> CHOOSE u \in Account : TRUE]
MCPrice == [e \in Event |-> 1]

MCInit == BillingInit /\ subject \in {"stream", "reports"}

StreamPart == subject = "stream" /\ (ConsumerNext \/ \E m \in Message : Publish(m))
ReportsPart == subject = "reports" /\ BillingNext /\ stream' = <<>>

MCNext == (StreamPart \/ ReportsPart) /\ UNCHANGED subject

MCSpec == MCInit /\ [][MCNext]_<<billingVars, subject>> /\ BillingFairness

================================================================================
