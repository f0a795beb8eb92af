------------------------------- MODULE Billing -------------------------------
(***************************************************************************)
(* The billing service and who reports usage to it.  Two paths lead to one   *)
(* table: the author's backend posts the usage of each agent invocation       *)
(* (agent_run_service, integrations), and a consumer reads a Redis stream     *)
(* (usage_consumer).  Either may report an event more than once.             *)
(***************************************************************************)
EXTENDS Integers, Sequences, FiniteSets, FiniteSetsExt, SequencesExt

CONSTANTS
    Account,    \* accounts
    Invocation, \* agent invocations, each with its trace_id
    Message,    \* messages of the stream, each with its id
    Poison,     \* of these, the ones processMessage rejects
    PaidBy,     \* whose account an event is charged to
    Price,      \* its cost; 0 for a model that is not in PricingTable
    InitBalance,
    Month,      \* months, from 1
    Batch,      \* bound of the code: messages of one XREADGROUP
    Attempts,   \* bound of the code: attempts to report
    Required,   \* whether an invocation needs an answer to its balance check
    MaxFunds,   \* bound: recharges of an account, by the administrator
    MaxCrash    \* bound: crashes of the consumer

Event == Invocation \cup Message

ASSUME BillingNames == Invocation \cap Message = {} /\ Poison \subseteq Message
ASSUME BillingEvents == PaidBy \in [Event -> Account] /\ Price \in [Event -> Nat]
ASSUME BillingBounds ==
    /\ Batch \in Nat \ {0} /\ Attempts \in Nat \ {0}
    /\ InitBalance \in Nat /\ MaxFunds \in Nat /\ MaxCrash \in Nat
    /\ 1 \in Month /\ IsFiniteSet(Month) /\ Month \subseteq Nat /\ Required \in BOOLEAN

VARIABLES
    usage,     \* token_usage_records: their event_id
    bills,     \* bills: cost_yuan, by account and month
    initial,   \* recharges whose event_id is init-balance:<account>
    recharges, \* recharges: the sum of amount_yuan, by account
    month,     \* the month it is
    stream,    \* the Redis stream: the messages in the order of their ids
    delivered, \* last-delivered-id of the consumer group: how many of them
    acked,     \* messages that were acknowledged
    consumer,  \* the consumer's loop
    crashes,   \* history: how often it was restarted
    audit,     \* status of the row of an invocation in agent_runs
    client,    \* where the backend is with an invocation
    posted     \* requests that are on their way, or still handled, by invocation and attempt

ledger == <<usage, bills, initial, recharges>>
redis == <<stream, delivered, acked>>
backend == <<audit, client, posted>>
billingVars == <<ledger, month, redis, consumer, crashes, backend>>

ClientState ==
    [step : {"idle", "half", "start", "operate", "update", "post", "wait",
             "refused", "failed", "reported", "unreported", "free", "died"},
     seen : Int,                   \* the sum the balance check has read
     attempt : 0 .. Attempts]

Idle == [step |-> "idle", seen |-> 0, attempt |-> 0]

Total(table, u) == MapThenSumSet(LAMBDA m : table[<<u, m>>], Month)

\* GetBalance, read at one moment.
BalanceOf(u) == recharges[u] - Total(bills, u)

\* Tables, stream, loop and requests are well formed.
BillingTypeOK ==
    /\ usage \subseteq Event
    /\ bills \in [Account \X Month -> Nat]
    /\ initial \subseteq Account /\ recharges \in [Account -> Nat]
    /\ month \in Month
    /\ IsInjective(stream) /\ ToSet(stream) \subseteq Message
    /\ delivered \in 0 .. Len(stream)
    /\ acked \subseteq ToSet(SubSeq(stream, 1, delivered))
    /\ consumer.step \in {"pending", "new", "ack"} /\ consumer.back \in {"pending", "new"}
    /\ ToSet(consumer.batch) \subseteq ToSet(SubSeq(stream, 1, delivered))
    /\ Len(consumer.batch) <= Batch
    /\ crashes \in 0 .. MaxCrash
    /\ audit \in [Invocation -> {"none", "running", "failed", "succeeded"}]
    /\ client \in [Invocation -> ClientState]
    /\ posted \subseteq Invocation \X (1 .. Attempts)

BillingInit ==
    /\ usage = {} /\ bills = [k \in Account \X Month |-> 0]
    /\ initial = {} /\ recharges = [u \in Account |-> 0]
    /\ month = 1
    /\ stream = <<>> /\ delivered = 0 /\ acked = {}
    /\ consumer = [step |-> "pending", back |-> "pending", batch |-> <<>>]
    /\ crashes = 0
    /\ audit = [i \in Invocation |-> "none"]
    /\ client = [i \in Invocation |-> Idle]
    /\ posted = {}

-----------------------------------------------------------------------------
(* billing_repo *)

\* Mutant: the bill is committed although the insert of the record failed on the event's key.
RecordTwice(e) ==
    /\ usage' = usage \cup {e}
    /\ bills' = [bills EXCEPT ![<<PaidBy[e], month>>] = @ + Price[e]]
    /\ UNCHANGED <<initial, recharges>>

\* RecordUsage: record and bill in one transaction, or nothing when the event is recorded.
RecordUsage(e) ==
    /\ usage' = usage \cup {e}
    /\ bills' = IF e \in usage THEN bills ELSE [bills EXCEPT ![<<PaidBy[e], month>>] = @ + Price[e]]
    /\ UNCHANGED <<initial, recharges>>

\* InitBalance: the recharge has a unique event_id too.  The auth service calls it, and repeats.
GrantInitialBalance(u) ==
    /\ u \notin initial
    /\ initial' = initial \cup {u}
    /\ recharges' = [recharges EXCEPT ![u] = @ + InitBalance]
    /\ UNCHANGED <<usage, bills, month, redis, consumer, crashes, backend>>

\* Recharge: without an event_id, each call is a recharge.
Recharge(u) ==
    /\ recharges[u] < MaxFunds
    /\ recharges' = [recharges EXCEPT ![u] = @ + 1]
    /\ UNCHANGED <<usage, bills, initial, month, redis, consumer, crashes, backend>>

NextMonth ==
    /\ month + 1 \in Month
    /\ month' = month + 1
    /\ UNCHANGED <<ledger, redis, consumer, crashes, backend>>

-----------------------------------------------------------------------------
(* usage_consumer *)

\* A publisher outside this repository.
Publish(m) ==
    /\ m \notin ToSet(stream)
    /\ stream' = Append(stream, m)
    /\ UNCHANGED <<ledger, month, delivered, acked, consumer, crashes, backend>>

Pending ==
    FoldLeft(LAMBDA rest, m : IF m \in acked THEN rest ELSE Append(rest, m), <<>>,
             SubSeq(stream, 1, delivered))

\* Mutant: XREADGROUP without Count.
WholeOf(s) == s

\* Count.
FirstOf(s) == SubSeq(s, 1, IF Len(s) < Batch THEN Len(s) ELSE Batch)

Other(step) == IF step = "pending" THEN "new" ELSE "pending"

\* readMessages "0": what was delivered before and not acknowledged, from the first.
ReadPending ==
    /\ consumer.step = "pending" /\ consumer.batch = <<>>
    /\ consumer' = IF Pending = <<>> THEN [consumer EXCEPT !.step = "new"]
                   ELSE [consumer EXCEPT !.batch = FirstOf(Pending)]
    /\ UNCHANGED <<ledger, month, redis, crashes, backend>>

\* readMessages ">": what no consumer of the group was given yet; after 5 s without any, the next
\* round begins.
ReadNew ==
    LET batch == FirstOf(SubSeq(stream, delivered + 1, Len(stream))) IN
    /\ consumer.step = "new" /\ consumer.batch = <<>>
    /\ delivered' = delivered + Len(batch)
    /\ consumer' = IF batch = <<>> THEN [consumer EXCEPT !.step = "pending"]
                   ELSE [consumer EXCEPT !.batch = batch]
    /\ UNCHANGED <<ledger, month, stream, acked, crashes, backend>>

Handles(m) == consumer.batch # <<>> /\ Head(consumer.batch) = m

\* The next message of the batch, or the next read.
AfterMessage(step) ==
    LET rest == Tail(consumer.batch)
    IN  [step |-> IF rest = <<>> THEN Other(step) ELSE step, back |-> "pending", batch |-> rest]

\* processMessage succeeds, and its transaction commits.
ProcessMessage(m) ==
    /\ Handles(m) /\ consumer.step # "ack"
    /\ m \notin Poison
    /\ RecordUsage(m)
    /\ consumer' = [consumer EXCEPT !.step = "ack", !.back = consumer.step]
    /\ UNCHANGED <<month, redis, crashes, backend>>

\* Mutant: a message that failed is acknowledged like the others.
AckFailed(m) ==
    /\ Handles(m) /\ consumer.step # "ack"
    /\ consumer' = [consumer EXCEPT !.step = "ack", !.back = consumer.step]
    /\ UNCHANGED <<ledger, month, redis, crashes, backend>>

\* Mutant: the rest of the batch is left when a message fails.
StopAtFailure(m) ==
    /\ Handles(m) /\ consumer.step # "ack"
    /\ consumer' = [step |-> Other(consumer.step), back |-> "pending", batch |-> <<>>]
    /\ UNCHANGED <<ledger, month, redis, crashes, backend>>

\* It fails: the message is malformed, or MySQL does; the message stays pending.
FailMessage(m) ==
    /\ Handles(m) /\ consumer.step # "ack"
    /\ consumer' = AfterMessage(consumer.step)
    /\ UNCHANGED <<ledger, month, redis, crashes, backend>>

\* XACK, which may fail; that is logged.
Acknowledge(m) ==
    /\ Handles(m) /\ consumer.step = "ack"
    /\ acked' = acked \cup {m}
    /\ consumer' = AfterMessage(consumer.back)
    /\ UNCHANGED <<ledger, month, stream, delivered, crashes, backend>>

FailAcknowledge(m) ==
    /\ Handles(m) /\ consumer.step = "ack"
    /\ consumer' = AfterMessage(consumer.back)
    /\ UNCHANGED <<ledger, month, redis, crashes, backend>>

\* The service dies, and starts again: Start finds the group.
RestartConsumer ==
    /\ crashes < MaxCrash
    /\ crashes' = crashes + 1
    /\ consumer' = [step |-> "pending", back |-> "pending", batch |-> <<>>]
    /\ UNCHANGED <<ledger, month, redis, backend>>

-----------------------------------------------------------------------------
(* AgentRunService.execute *)

AtStep(i, step) == client[i].step = step
Goto(i, step) == [client EXCEPT ![i].step = step]
Backend == UNCHANGED <<ledger, month, redis, consumer, crashes>>

\* Mutant: the bills are read before the recharges.
BillsFirst == <<"bills", "recharges">>

\* The tables GetBalance sums up, in the order of its queries; each sees what is committed then.
ReadOrder == <<"recharges", "bills">>

Sum(table, u) == IF table = "recharges" THEN recharges[u] ELSE Total(bills, u)

\* ensure_available_balance: the first of the two queries ...
CheckFirst(i) ==
    /\ AtStep(i, "idle")
    /\ client' = [client EXCEPT ![i].step = "half", ![i].seen = Sum(ReadOrder[1], PaidBy[i])]
    /\ Backend /\ UNCHANGED <<audit, posted>>

\* ... and the second; the invocation is refused when nothing is left.
CheckSecond(i) ==
    LET second == Sum(ReadOrder[2], PaidBy[i])
        left == IF ReadOrder[2] = "bills" THEN client[i].seen - second ELSE second - client[i].seen
    IN
    /\ AtStep(i, "half")
    /\ client' = [client EXCEPT ![i].step = IF left > 0 THEN "start" ELSE "refused", ![i].seen = 0]
    /\ Backend /\ UNCHANGED <<audit, posted>>

\* The service does not answer, or not with a balance.
CheckFails(i) ==
    /\ AtStep(i, "idle")
    /\ client' = Goto(i, IF Required THEN "refused" ELSE "start")
    /\ Backend /\ UNCHANGED <<audit, posted>>

\* _add, in a session of its own.
AddRun(i) ==
    /\ AtStep(i, "start")
    /\ audit' = [audit EXCEPT ![i] = "running"]
    /\ client' = Goto(i, "operate")
    /\ Backend /\ UNCHANGED posted

\* The operation raises.
OperationFails(i) ==
    /\ AtStep(i, "operate")
    /\ audit' = [audit EXCEPT ![i] = "failed"]
    /\ client' = Goto(i, "failed")
    /\ Backend /\ UNCHANGED posted

\* Mutant: the usage is reported before the operation is known to have succeeded.
PostFirst(i) ==
    /\ AtStep(i, "operate")
    /\ client' = Goto(i, "post")
    /\ Backend /\ UNCHANGED <<audit, posted>>

\* It succeeds: the row is updated, and if tokens were used they are reported.
OperationSucceeds(i) ==
    /\ AtStep(i, "operate")
    /\ audit' = [audit EXCEPT ![i] = "succeeded"]
    /\ \E step \in {"post", "free"} : client' = Goto(i, step)
    /\ Backend /\ UNCHANGED posted

\* record_usage: one attempt.
PostUsage(i) ==
    /\ AtStep(i, "post")
    /\ client' = [client EXCEPT ![i].step = "wait", ![i].attempt = @ + 1]
    /\ posted' = posted \cup {<<i, client[i].attempt + 1>>}
    /\ Backend /\ UNCHANGED audit

\* What the backend does without an answer of 200 or below 500: it tries again, or logs.
Again(i) == Goto(i, IF client[i].attempt < Attempts THEN "post" ELSE "unreported")

Waits(i, k) == AtStep(i, "wait") /\ client[i].attempt = k

\* RecordUsageInternal, maybe after the backend gave the attempt up.  The answer may be lost.
HandleUsage(i, k) ==
    /\ <<i, k>> \in posted
    /\ RecordUsage(i)
    /\ posted' = posted \ {<<i, k>>}
    /\ client' \in {client} \cup (IF Waits(i, k) THEN {Goto(i, "reported")} ELSE {})
    /\ UNCHANGED <<month, redis, consumer, crashes, audit>>

\* MySQL fails: 500.  Or the request is refused, below 500, which is not tried again.
HandleFails(i, k) ==
    /\ <<i, k>> \in posted
    /\ posted' = posted \ {<<i, k>>}
    /\ client' \in {client} \cup (IF Waits(i, k) THEN {Again(i), Goto(i, "unreported")} ELSE {})
    /\ Backend /\ UNCHANGED audit

\* ConnectionError, such as a timeout: the request may still be handled.
PostTimesOut(i) ==
    /\ AtStep(i, "wait")
    /\ client' = Again(i)
    /\ Backend /\ UNCHANGED <<audit, posted>>

\* The process dies, and nobody continues the invocation.
BackendDies(i) ==
    /\ client[i].step \in {"half", "start", "operate", "post", "wait"}
    /\ client' = Goto(i, "died")
    /\ Backend /\ UNCHANGED <<audit, posted>>

-----------------------------------------------------------------------------
ConsumerNext ==
    \/ ReadPending \/ ReadNew \/ RestartConsumer
    \/ \E m \in Message :
          \/ ProcessMessage(m) \/ FailMessage(m) \/ Acknowledge(m) \/ FailAcknowledge(m)

BackendNext ==
    \E i \in Invocation :
        \/ CheckFirst(i) \/ CheckSecond(i) \/ CheckFails(i)
        \/ AddRun(i) \/ OperationFails(i) \/ OperationSucceeds(i)
        \/ PostUsage(i) \/ PostTimesOut(i) \/ BackendDies(i)
        \/ \E k \in 1 .. Attempts : HandleUsage(i, k) \/ HandleFails(i, k)

BillingNext ==
    \/ \E u \in Account : GrantInitialBalance(u) \/ Recharge(u)
    \/ NextMonth
    \/ \E m \in Message : Publish(m)
    \/ ConsumerNext \/ BackendNext

\* The loop goes on, and MySQL and Redis do not fail every attempt for ever.
BillingFairness ==
    /\ WF_billingVars(ReadPending) /\ WF_billingVars(ReadNew)
    /\ WF_billingVars(\E m \in Message : FailMessage(m))
    /\ SF_billingVars(\E m \in Message : ProcessMessage(m))
    /\ SF_billingVars(\E m \in Message : Acknowledge(m))

BillingSpec == BillingInit /\ [][BillingNext]_billingVars /\ BillingFairness

-----------------------------------------------------------------------------
\* What is promised of the accounts holds whoever reports an event, how often, and in which
\* month: the balance GetBalance computes moves by the cost of an event once.
PromisedLedger ==
    INSTANCE Ledger WITH User <- Account, Event <- Event, OwnerOf <- PaidBy, Cost <- Price,
        Grant <- InitBalance, charged <- usage, granted <- initial,
        balance <- [u \in Account |-> BalanceOf(u)]

ImplementsLedger == PromisedLedger!LedgerSpec

\* What the events of a table of records cost that are account u's.
Charges(records, u) == MapThenSumSet(LAMBDA e : Price[e], {e \in records : PaidBy[e] = u})

\* The two tables that RecordUsage writes keep telling the same: the bills of an account, spread over
\* the months and raised report by report, add up to what its recorded events cost.
BillsAddUp == \A u \in Account : Total(bills, u) = Charges(usage, u)

\* Nothing that was acknowledged to a reporter is lost: a message that will not be delivered
\* again, and an invocation whose report was answered with 200, are recorded.
AcknowledgedIsRecorded ==
    /\ acked \subseteq usage
    /\ \A i \in Invocation : AtStep(i, "reported") => i \in usage

\* An account pays for no invocation but one whose row says that it succeeded, even when the
\* report is handled late, twice, or after the backend died.
ChargedForSuccess == \A i \in Invocation : i \in usage => audit[i] = "succeeded"

\* With Required, no invocation starts on an account that has nothing left, whatever is billed
\* or paid in while its balance is read.  (Several may start on the same last cent.)
StartsFunded ==
    [][\A i \in Invocation :
          Required /\ ~AtStep(i, "start") /\ client'[i].step = "start" =>
              BalanceOf(PaidBy[i]) > 0]_billingVars

\* As long as fewer than Batch messages are malformed, every other message is recorded and
\* acknowledged at last.  (Batch malformed ones fill the batch of pending messages for ever.)
Drained ==
    Cardinality(Poison) < Batch =>
        \A m \in Message \ Poison : m \in ToSet(stream) ~> m \in usage /\ m \in acked

=============================================================================
