----------------------------- MODULE BillingProofs -----------------------------
(***************************************************************************)
(* The ledger, the reports and the stream, for any accounts, events, prices,  *)
(* months and bounds.                                                        *)
(*                                                                          *)
(* A report is on its way, or handled, only for an invocation whose row says   *)
(* that it succeeded; what is acknowledged is the head of a batch that is      *)
(* recorded; and the sum of an account's bills moves by what one month's bill  *)
(* moves.                                                                    *)
(***************************************************************************)
EXTENDS Billing, FoldTheorems

\* Messages the consumer group was given.
Delivered == ToSet(SubSeq(stream, 1, delivered))

TablesOK ==
    /\ usage \subseteq Event
    /\ bills \in [Account \X Month -> Nat]
    /\ initial \subseteq Account /\ recharges \in [Account -> Nat]
    /\ month \in Month

StreamOK ==
    /\ stream \in Seq(Message) /\ IsInjective(stream)
    /\ delivered \in 0 .. Len(stream)
    /\ crashes \in 0 .. MaxCrash

\* The loop works on messages it was given, and acknowledges what it has recorded.
LoopOK ==
    /\ consumer = [step |-> consumer.step, back |-> consumer.back, batch |-> consumer.batch]
    /\ consumer.step \in {"pending", "new", "ack"} /\ consumer.back \in {"pending", "new"}
    /\ consumer.batch \in Seq(Message) /\ Len(consumer.batch) <= Batch
    /\ ToSet(consumer.batch) \subseteq Delivered
    /\ acked \subseteq Delivered /\ acked \subseteq usage
    /\ consumer.step = "ack" /\ consumer.batch # <<>> => Head(consumer.batch) \in usage

\* An invocation is reported, or on its way, when its row says that it succeeded; and what a
\* balance check has read of the recharges can only have grown.
Reporting(i) ==
    /\ i \in usage => audit[i] = "succeeded"
    /\ \A k \in 1 .. Attempts : <<i, k>> \in posted => audit[i] = "succeeded"
    /\ client[i].step \in {"post", "wait"} => audit[i] = "succeeded"
    /\ client[i].step \in {"idle", "half", "start", "operate"} =>
          audit[i] # "succeeded" /\ client[i].attempt = 0
    /\ AtStep(i, "post") => client[i].attempt < Attempts
    /\ AtStep(i, "reported") => i \in usage
    /\ AtStep(i, "half") => client[i].seen \in Nat /\ client[i].seen <= recharges[PaidBy[i]]

ClientsOK ==
    /\ audit \in [Invocation -> {"none", "running", "failed", "succeeded"}]
    /\ client \in [Invocation -> ClientState]
    /\ posted \subseteq Invocation \X (1 .. Attempts)
    /\ \A i \in Invocation : Reporting(i)

IInv == TablesOK /\ StreamOK /\ LoopOK /\ ClientsOK

-----------------------------------------------------------------------------
(* Sums over months *)

\* What MapThenSumSet does with the bills of account u.
AddBill(sums, table, u, s) ==
    IF s = {} THEN 0 ELSE table[<<u, Picked(s)>>] + sums[s \ {Picked(s)}]

LEMMA TotalIsFold ==
    ASSUME NEW table, NEW u
    PROVE  Total(table, u) =
             (CHOOSE sums : sums = [s \in SUBSET Month |-> AddBill(sums, table, u, s)])[Month]
  BY DEF Total, MapThenSumSet, MapThenFoldSet, Picked, AddBill

LEMMA PicksOfMonths ==
    \E p : \A s \in SUBSET Month : p[s] = Picked(s) /\ (s # {} => p[s] \in s)
  <1>. DEFINE p == [s \in SUBSET Month |-> Picked(s)]
  <1>1. \A s \in SUBSET Month : p[s] = Picked(s) /\ (s # {} => p[s] \in s)
    BY DEF Picked
  <1>. HIDE DEF p
  <1>. QED
    BY <1>1

\* The bills of account u are natural numbers; sums adds them up.
Natural(table, u) == \A m \in Month : table[<<u, m>>] \in Nat
AddsUp(sums, table, u) ==
    /\ Total(table, u) = sums[Month]
    /\ \A s \in SUBSET Month : sums[s] = AddBill(sums, table, u, s)

\* What a total is made of.
LEMMA TotalSums ==
    \A table, u : Natural(table, u) => \E sums : AddsUp(sums, table, u)
  <1>. TAKE table, u
  <1>. SUFFICES ASSUME \A m \in Month : table[<<u, m>>] \in Nat
                PROVE  \E sums : AddsUp(sums, table, u)
    BY DEF Natural
  <1>1. PICK p : \A s \in SUBSET Month : p[s] = Picked(s) /\ (s # {} => p[s] \in s)
    BY PicksOfMonths
  <1>. DEFINE step == [q \in (SUBSET Month) \X Nat |->
                         IF q[1] = {} THEN 0 ELSE table[<<u, p[q[1]]>>] + q[2]]
              F == CHOOSE sums : sums = [s \in SUBSET Month |-> AddBill(sums, table, u, s)]
  <1>2. step \in [(SUBSET Month) \X Nat -> Nat]
    <2>1. ASSUME NEW q \in (SUBSET Month) \X Nat
          PROVE  (IF q[1] = {} THEN 0 ELSE table[<<u, p[q[1]]>>] + q[2]) \in Nat
      <3>1. q[1] \in SUBSET Month /\ q[2] \in Nat
        OBVIOUS
      <3>2. q[1] # {} => p[q[1]] \in Month
        BY <1>1, <3>1
      <3>. QED
        BY <3>1, <3>2
    <2>. QED
      BY <2>1
  <1>3. PICK f \in [SUBSET Month -> Nat] : IsFold(f, Month, p, 0, step)
    <2>. HIDE DEF step
    <2>1. IsFiniteSet(Month) /\ Picks(p, Month)
      BY <1>1, BillingBounds DEF Picks
    <2>. QED
      BY <1>2, <2>1, FoldExists
  <1>4. \A s \in SUBSET Month : f[s] = AddBill(f, table, u, s)
    <2>1. ASSUME NEW s \in SUBSET Month, s # {}
          PROVE  f[s] = table[<<u, Picked(s)>>] + f[s \ {Picked(s)}]
      <3>1. f[s \ {p[s]}] \in Nat
        OBVIOUS
      <3>2. step[<<s, f[s \ {p[s]}]>>] = table[<<u, p[s]>>] + f[s \ {p[s]}]
        BY <2>1, <3>1
      <3>. QED
        BY <1>1, <1>3, <2>1, <3>2 DEF IsFold
    <2>. QED
      BY <1>3, <2>1 DEF AddBill, IsFold
  <1>5. f = [s \in SUBSET Month |-> AddBill(f, table, u, s)]
    BY <1>4
  <1>6. F = [s \in SUBSET Month |-> AddBill(F, table, u, s)]
    BY <1>5
  <1>7. Total(table, u) = F[Month]
    BY TotalIsFold
  <1>. HIDE DEF F
  <1>. QED
    BY <1>6, <1>7 DEF AddsUp

LEMMA TotalNat ==
    ASSUME NEW table, NEW u, \A m \in Month : table[<<u, m>>] \in Nat
    PROVE  Total(table, u) \in Nat
  <1>0. Natural(table, u) => \E f : AddsUp(f, table, u)
    BY TotalSums
  <1>1. PICK f : /\ Total(table, u) = f[Month]
                 /\ \A s \in SUBSET Month : f[s] = AddBill(f, table, u, s)
    BY <1>0 DEF Natural, AddsUp
  <1>2. PICK p : \A s \in SUBSET Month : p[s] = Picked(s) /\ (s # {} => p[s] \in s)
    BY PicksOfMonths
  <1>. DEFINE X == {s \in SUBSET Month : f[s] \in Nat}
  <1>3. {} \in X
    <2>1. f[{}] = 0
      BY <1>1, {} \in SUBSET Month DEF AddBill
    <2>. QED
      BY <2>1
  <1>4. ASSUME NEW s \in SUBSET Month, s # {}, s \ {p[s]} \in X
        PROVE  s \in X
    <2>1. f[s] = table[<<u, p[s]>>] + f[s \ {p[s]}]
      BY <1>1, <1>2, <1>4 DEF AddBill
    <2>2. p[s] \in Month
      BY <1>2, <1>4
    <2>. QED
      BY <1>4, <2>1, <2>2
  <1>. HIDE DEF X
  <1>5. SUBSET Month \subseteq X
    BY <1>2, <1>3, <1>4, BillingBounds, ElementByElement DEF Picks
  <1>. QED
    BY <1>1, <1>5 DEF X

LEMMA TotalZero ==
    ASSUME NEW table, NEW u, \A m \in Month : table[<<u, m>>] = 0
    PROVE  Total(table, u) = 0
  <1>. SUFFICES (\A m \in Month : table[<<u, m>>] \in Nat) => Total(table, u) = 0
    OBVIOUS
  <1>. HAVE \A m \in Month : table[<<u, m>>] \in Nat
  <1>0. Natural(table, u) => \E f : AddsUp(f, table, u)
    BY TotalSums
  <1>1. PICK f : /\ Total(table, u) = f[Month]
                 /\ \A s \in SUBSET Month : f[s] = AddBill(f, table, u, s)
    BY <1>0 DEF Natural, AddsUp
  <1>2. PICK p : \A s \in SUBSET Month : p[s] = Picked(s) /\ (s # {} => p[s] \in s)
    BY PicksOfMonths
  <1>. DEFINE X == {s \in SUBSET Month : f[s] = 0}
  <1>3. {} \in X
    BY <1>1, {} \in SUBSET Month DEF AddBill
  <1>4. ASSUME NEW s \in SUBSET Month, s # {}, s \ {p[s]} \in X
        PROVE  s \in X
    <2>1. f[s] = table[<<u, p[s]>>] + f[s \ {p[s]}]
      BY <1>1, <1>2, <1>4 DEF AddBill
    <2>2. p[s] \in Month
      BY <1>2, <1>4
    <2>. QED
      BY <1>4, <2>1, <2>2
  <1>. HIDE DEF X
  <1>5. SUBSET Month \subseteq X
    <2>1. IsFiniteSet(Month) /\ Picks(p, Month)
      BY <1>2, BillingBounds DEF Picks
    <2>. QED
      BY <1>3, <1>4, <2>1, ElementByElement
  <1>. QED
    BY <1>1, <1>5 DEF X

\* The bill of u in month k is higher by d.
Raised(table, new, u, k, d) ==
    \A m \in Month :
        /\ table[<<u, m>>] \in Nat
        /\ new[<<u, m>>] = IF m = k THEN table[<<u, m>>] + d ELSE table[<<u, m>>]

\* One month's bill moves the total.
LEMMA TotalMoves ==
    ASSUME NEW table, NEW new, NEW u, NEW k \in Month, NEW d \in Nat
    PROVE  Raised(table, new, u, k, d) => Total(new, u) = Total(table, u) + d
  <1>1. Natural(table, u) => \E f : AddsUp(f, table, u)
    BY TotalSums
  <1>2. Natural(new, u) => \E g : AddsUp(g, new, u)
    BY TotalSums
  <1>. SUFFICES ASSUME \A m \in Month :
                         /\ table[<<u, m>>] \in Nat
                         /\ new[<<u, m>>] = IF m = k THEN table[<<u, m>>] + d ELSE table[<<u, m>>]
                PROVE  Total(new, u) = Total(table, u) + d
    BY DEF Raised
  <1>3. PICK f : /\ Total(table, u) = f[Month]
                 /\ \A s \in SUBSET Month : f[s] = AddBill(f, table, u, s)
    BY <1>1 DEF Natural, AddsUp
  <1>4. PICK g : /\ Total(new, u) = g[Month]
                 /\ \A s \in SUBSET Month : g[s] = AddBill(g, new, u, s)
    BY <1>2 DEF Natural, AddsUp
  <1>5. PICK p : \A s \in SUBSET Month : p[s] = Picked(s) /\ (s # {} => p[s] \in s)
    BY PicksOfMonths
  <1>. DEFINE X == {s \in SUBSET Month :
                      f[s] \in Nat /\ g[s] = IF k \in s THEN f[s] + d ELSE f[s]}
  <1>6. {} \in X
    <2>1. f[{}] = 0 /\ g[{}] = 0
      BY <1>3, <1>4, {} \in SUBSET Month DEF AddBill
    <2>. QED
      BY <2>1
  <1>7. ASSUME NEW s \in SUBSET Month, s # {}, s \ {p[s]} \in X
        PROVE  s \in X
    <2>. DEFINE x == p[s]
                t == s \ {x}
    <2>1. x \in s
      BY <1>5, <1>7
    <2>2. f[s] = table[<<u, x>>] + f[t] /\ g[s] = new[<<u, x>>] + g[t]
      BY <1>3, <1>4, <1>5, <1>7 DEF AddBill
    <2>3. f[t] \in Nat /\ g[t] = IF k \in t THEN f[t] + d ELSE f[t]
      BY <1>7
    <2>4. x \in Month /\ table[<<u, x>>] \in Nat
          /\ new[<<u, x>>] = IF x = k THEN table[<<u, x>>] + d ELSE table[<<u, x>>]
      BY <2>1
    <2>5. k \in s <=> k = x \/ k \in t
      BY <2>1
    <2>. HIDE DEF x
    <2>6. f[s] \in Nat /\ g[s] = IF k \in s THEN f[s] + d ELSE f[s]
      BY <2>2, <2>3, <2>4, <2>5
    <2>. QED
      BY <2>6
  <1>. HIDE DEF X
  <1>8. SUBSET Month \subseteq X
    <2>1. IsFiniteSet(Month) /\ Picks(p, Month)
      BY <1>5, BillingBounds DEF Picks
    <2>. QED
      BY <1>6, <1>7, <2>1, ElementByElement
  <1>. QED
    BY <1>3, <1>4, <1>8 DEF X

-----------------------------------------------------------------------------
(* Batches *)

\* What FoldLeft keeps of the delivered messages q.
Keep(kept, q, s) ==
    IF s = {} THEN <<>>
    ELSE IF q[Max(s)] \in acked THEN kept[s \ {Max(s)}]
         ELSE Append(kept[s \ {Max(s)}], q[Max(s)])

LEMMA PendingIsFold ==
    ASSUME NEW q, q = SubSeq(stream, 1, delivered)
    PROVE  Pending = (CHOOSE kept : kept = [s \in SUBSET DOMAIN q |-> Keep(kept, q, s)])[DOMAIN q]
  BY DEF Pending, FoldLeft, MapThenFoldSet, Keep

LEMMA PendingTyped ==
    ASSUME StreamOK
    PROVE  Pending \in Seq(Message) /\ ToSet(Pending) \subseteq Delivered
  <1>. DEFINE q == SubSeq(stream, 1, delivered)
  <1>1. q \in Seq(Message) /\ DOMAIN q = 1 .. Len(q) /\ Len(q) \in Nat
    BY DEF StreamOK
  <1>. HIDE DEF q
  <1>. DEFINE M == DOMAIN q
              p == [s \in SUBSET M |-> Max(s)]
              step == [a \in (SUBSET M) \X Seq(Message) |->
                         IF a[1] = {} \/ q[p[a[1]]] \in acked THEN a[2]
                         ELSE Append(a[2], q[p[a[1]]])]
              F == CHOOSE kept : kept = [s \in SUBSET M |-> Keep(kept, q, s)]
  <1>2. IsFiniteSet(M) /\ Picks(p, M) /\ \A s \in SUBSET M : p[s] = Max(s)
    <2>1. IsFiniteSet(M)
      BY <1>1, FS_Interval
    <2>2. \A s \in SUBSET M : s # {} => Max(s) \in s
      BY <1>1, LastIsIn
    <2>. QED
      BY <2>1, <2>2 DEF Picks
  <1>. HIDE DEF p
  <1>3. step \in [(SUBSET M) \X Seq(Message) -> Seq(Message)]
    <2>1. ASSUME NEW a \in (SUBSET M) \X Seq(Message)
          PROVE  (IF a[1] = {} \/ q[p[a[1]]] \in acked THEN a[2]
                  ELSE Append(a[2], q[p[a[1]]])) \in Seq(Message)
      <3>1. a[1] \in SUBSET M /\ a[2] \in Seq(Message)
        OBVIOUS
      <3>2. a[1] # {} => q[p[a[1]]] \in Message
        BY <1>1, <1>2, <3>1 DEF Picks
      <3>. QED
        BY <3>1, <3>2
    <2>. QED
      BY <2>1
  <1>4. PICK f \in [SUBSET M -> Seq(Message)] : IsFold(f, M, p, <<>>, step)
    <2>. HIDE DEF step
    <2>1. <<>> \in Seq(Message)
      OBVIOUS
    <2>. QED
      BY <1>2, <1>3, <2>1, FoldExists
  <1>5. \A s \in SUBSET M : f[s] = Keep(f, q, s)
    <2>1. ASSUME NEW s \in SUBSET M, s # {}
          PROVE  f[s] = IF q[Max(s)] \in acked THEN f[s \ {Max(s)}]
                        ELSE Append(f[s \ {Max(s)}], q[Max(s)])
      <3>1. f[s \ {p[s]}] \in Seq(Message) /\ p[s] = Max(s)
        BY <1>2
      <3>2. step[<<s, f[s \ {p[s]}]>>] = IF q[p[s]] \in acked THEN f[s \ {p[s]}]
                                           ELSE Append(f[s \ {p[s]}], q[p[s]])
        BY <2>1, <3>1
      <3>. QED
        BY <1>4, <2>1, <3>1, <3>2 DEF IsFold
    <2>. QED
      BY <1>4, <2>1 DEF Keep, IsFold
  <1>6. f = [s \in SUBSET M |-> Keep(f, q, s)]
    BY <1>5
  <1>7. F = [s \in SUBSET M |-> Keep(F, q, s)]
    BY <1>6
  <1>8. Pending = F[M]
    BY PendingIsFold DEF q
  <1>. HIDE DEF F
  <1>. DEFINE X == {s \in SUBSET M : F[s] \in Seq(Message) /\ ToSet(F[s]) \subseteq ToSet(q)}
  <1>9. {} \in X
    BY <1>7 DEF Keep, ToSet
  <1>10. ASSUME NEW s \in SUBSET M, s # {}, s \ {p[s]} \in X
         PROVE  s \in X
    <2>. DEFINE rest == F[s \ {p[s]}]
                m == q[p[s]]
    <2>1. m \in Message /\ m \in ToSet(q)
      BY <1>1, <1>2, <1>10 DEF Picks, ToSet
    <2>2. F[s] = IF m \in acked THEN rest ELSE Append(rest, m)
      BY <1>2, <1>7, <1>10 DEF Keep
    <2>3. rest \in Seq(Message) /\ ToSet(rest) \subseteq ToSet(q)
      BY <1>10
    <2>. HIDE DEF rest, m
    <2>4. Append(rest, m) \in Seq(Message) /\ ToSet(Append(rest, m)) \subseteq ToSet(q)
      BY <2>1, <2>3 DEF ToSet
    <2>. QED
      BY <2>2, <2>3, <2>4
  <1>. HIDE DEF X
  <1>11. SUBSET M \subseteq X
    BY <1>2, <1>9, <1>10, ElementByElement
  <1>. QED
    BY <1>8, <1>11 DEF X, Delivered, q

LEMMA FirstTyped ==
    ASSUME NEW s \in Seq(Message)
    PROVE  /\ FirstOf(s) \in Seq(Message) /\ Len(FirstOf(s)) <= Batch /\ Len(FirstOf(s)) <= Len(s)
           /\ \A i \in 1 .. Len(FirstOf(s)) : FirstOf(s)[i] = s[i]
           /\ ToSet(FirstOf(s)) \subseteq ToSet(s)
  <1>1. Batch \in Nat \ {0} /\ Len(s) \in Nat
    BY BillingBounds
  <1>2. /\ FirstOf(s) \in Seq(Message) /\ Len(FirstOf(s)) <= Batch /\ Len(FirstOf(s)) <= Len(s)
        /\ \A i \in 1 .. Len(FirstOf(s)) : FirstOf(s)[i] = s[i]
    BY <1>1 DEF FirstOf
  <1>. HIDE DEF FirstOf
  <1>3. ToSet(FirstOf(s)) \subseteq ToSet(s)
    BY <1>1, <1>2 DEF ToSet
  <1>. QED
    BY <1>2, <1>3

LEMMA DeliveredAre ==
    ASSUME NEW s \in Seq(Message), NEW n \in 0 .. Len(s)
    PROVE  ToSet(SubSeq(s, 1, n)) = {s[i] : i \in 1 .. n}
  BY DEF ToSet

\* The loop goes on with the rest of the batch.
LEMMA RestTyped ==
    ASSUME LoopOK, consumer.batch # <<>>, NEW step \in {"pending", "new"}
    PROVE  LET c == AfterMessage(step)
           IN  /\ c = [step |-> c.step, back |-> c.back, batch |-> c.batch]
               /\ c.step \in {"pending", "new"} /\ c.back \in {"pending", "new"}
               /\ c.batch \in Seq(Message) /\ Len(c.batch) <= Batch
               /\ ToSet(c.batch) \subseteq ToSet(consumer.batch)
  <1>. DEFINE b == consumer.batch
              rest == Tail(b)
  <1>1. b \in Seq(Message) /\ b # <<>> /\ Len(b) <= Batch /\ Batch \in Nat
    BY BillingBounds DEF LoopOK
  <1>. HIDE DEF b
  <1>2. /\ rest \in Seq(Message) /\ Len(rest) <= Batch /\ Len(rest) = Len(b) - 1
        /\ \A i \in 1 .. Len(rest) : rest[i] = b[i + 1]
    BY <1>1
  <1>3. DOMAIN rest = 1 .. Len(rest) /\ DOMAIN b = 1 .. Len(b) /\ Len(b) \in Nat
    BY <1>1, <1>2
  <1>4. ToSet(rest) \subseteq ToSet(b)
    <2>1. ASSUME NEW i \in DOMAIN rest
          PROVE  i + 1 \in DOMAIN b /\ rest[i] = b[i + 1]
      BY <1>2, <1>3
    <2>. QED
      BY <2>1 DEF ToSet
  <1>. QED
    BY <1>2, <1>4 DEF AfterMessage, Other, b

-----------------------------------------------------------------------------
(* Steps of the consumer *)

\* What the loop knows stays while others add usage and messages.
LEMMA LoopKept ==
    ASSUME StreamOK, LoopOK, consumer' = consumer, acked' = acked, usage \subseteq usage',
           Delivered \subseteq Delivered'
    PROVE  LoopOK'
  BY DEF LoopOK

LEMMA PublishKept ==
    ASSUME StreamOK, LoopOK, NEW m \in Message, Publish(m)
    PROVE  StreamOK' /\ LoopOK'
  <1>1. /\ stream \in Seq(Message) /\ Len(stream) \in Nat /\ delivered \in 0 .. Len(stream)
        /\ m \notin ToSet(stream) /\ stream' = Append(stream, m) /\ delivered' = delivered
        /\ acked' = acked /\ usage' = usage /\ consumer' = consumer /\ crashes' = crashes
    BY DEF StreamOK, Publish, ledger
  <1>2. /\ stream' \in Seq(Message) /\ Len(stream') = Len(stream) + 1
        /\ \A i \in 1 .. Len(stream) : stream'[i] = stream[i]
        /\ stream'[Len(stream) + 1] = m /\ DOMAIN stream' = 1 .. (Len(stream) + 1)
        /\ DOMAIN stream = 1 .. Len(stream)
    BY <1>1
  <1>3. IsInjective(stream')
    <2>1. \A i \in 1 .. Len(stream) : stream[i] # m
      BY <1>1, <1>2 DEF ToSet
    <2>. QED
      BY <1>1, <1>2, <2>1 DEF StreamOK, IsInjective
  <1>4. StreamOK'
    BY <1>1, <1>2, <1>3 DEF StreamOK
  <1>5. Delivered' = Delivered
    <2>1. Delivered = {stream[i] : i \in 1 .. delivered}
      BY <1>1, DeliveredAre DEF Delivered
    <2>a. delivered \in 0 .. Len(stream')
      BY <1>1, <1>2
    <2>b. ToSet(SubSeq(stream', 1, delivered)) = {stream'[i] : i \in 1 .. delivered}
      BY <1>2, <2>a, DeliveredAre
    <2>2. Delivered' = {stream'[i] : i \in 1 .. delivered}
      BY <1>1, <2>b DEF Delivered
    <2>. QED
      BY <1>1, <1>2, <2>1, <2>2
  <1>. QED
    BY <1>1, <1>4, <1>5, LoopKept

LEMMA ReadNewKept ==
    ASSUME StreamOK, LoopOK, ReadNew
    PROVE  StreamOK' /\ LoopOK'
  <1>. DEFINE rest == SubSeq(stream, delivered + 1, Len(stream))
              batch == FirstOf(rest)
  <1>1. /\ stream \in Seq(Message) /\ Len(stream) \in Nat /\ delivered \in 0 .. Len(stream)
        /\ delivered' = delivered + Len(batch) /\ stream' = stream /\ usage' = usage
        /\ acked' = acked /\ crashes' = crashes
        /\ consumer.batch = <<>> /\ consumer.step = "new"
        /\ consumer' = IF batch = <<>> THEN [consumer EXCEPT !.step = "pending"]
                       ELSE [consumer EXCEPT !.batch = batch]
    BY DEF StreamOK, ReadNew, ledger
  <1>2. /\ rest \in Seq(Message) /\ Len(rest) = Len(stream) - delivered
        /\ \A i \in 1 .. Len(rest) : rest[i] = stream[delivered + i]
    BY <1>1
  <1>3. /\ batch \in Seq(Message) /\ Len(batch) <= Batch /\ Len(batch) <= Len(rest)
        /\ \A i \in 1 .. Len(batch) : batch[i] = rest[i]
    BY <1>2, FirstTyped
  <1>. HIDE DEF rest, batch
  <1>4. delivered' \in 0 .. Len(stream) /\ delivered <= delivered' /\ Len(batch) \in Nat
    BY <1>1, <1>2, <1>3
  <1>5. StreamOK'
    BY <1>1, <1>4 DEF StreamOK
  <1>6. /\ Delivered = {stream[i] : i \in 1 .. delivered}
        /\ Delivered' = {stream[i] : i \in 1 .. delivered'}
    <2>1. ToSet(SubSeq(stream, 1, delivered')) = {stream[i] : i \in 1 .. delivered'}
      BY <1>1, <1>4, DeliveredAre
    <2>2. ToSet(SubSeq(stream, 1, delivered)) = {stream[i] : i \in 1 .. delivered}
      BY <1>1, DeliveredAre
    <2>. QED
      BY <1>1, <2>1, <2>2 DEF Delivered
  <1>7. Delivered \subseteq Delivered'
    BY <1>1, <1>4, <1>6
  <1>8. ToSet(batch) \subseteq Delivered'
    <2>1. ASSUME NEW i \in DOMAIN batch
          PROVE  batch[i] = stream[delivered + i] /\ delivered + i \in 1 .. delivered'
      <3>1. DOMAIN batch = 1 .. Len(batch) /\ Len(rest) \in Nat
        BY <1>2, <1>3
      <3>2. i \in 1 .. Len(batch) /\ i \in 1 .. Len(rest)
        BY <1>3, <1>4, <3>1
      <3>3. batch[i] = rest[i] /\ rest[i] = stream[delivered + i]
        BY <1>2, <1>3, <3>2
      <3>4. delivered \in Nat /\ delivered' = delivered + Len(batch)
        BY <1>1
      <3>. QED
        BY <1>4, <3>2, <3>3, <3>4
    <2>. QED
      BY <1>6, <2>1 DEF ToSet
  <1>9. LoopOK'
    BY <1>1, <1>3, <1>7, <1>8 DEF LoopOK
  <1>. QED
    BY <1>5, <1>9

LEMMA ReadPendingKept ==
    ASSUME StreamOK, LoopOK, ReadPending
    PROVE  StreamOK' /\ LoopOK'
  <1>1. /\ stream' = stream /\ delivered' = delivered /\ usage' = usage /\ acked' = acked
        /\ crashes' = crashes /\ consumer.step = "pending" /\ consumer.batch = <<>>
        /\ consumer' = IF Pending = <<>> THEN [consumer EXCEPT !.step = "new"]
                       ELSE [consumer EXCEPT !.batch = FirstOf(Pending)]
    BY DEF ReadPending, ledger, redis
  <1>2. /\ FirstOf(Pending) \in Seq(Message) /\ Len(FirstOf(Pending)) <= Batch
        /\ ToSet(FirstOf(Pending)) \subseteq Delivered
    BY PendingTyped, FirstTyped
  <1>3. Delivered' = Delivered
    BY <1>1 DEF Delivered
  <1>4. LoopOK'
    BY <1>1, <1>2, <1>3 DEF LoopOK
  <1>. QED
    BY <1>1, <1>4 DEF StreamOK

LEMMA MessageKept ==
    ASSUME TablesOK, StreamOK, LoopOK, NEW m \in Message,
           ProcessMessage(m) \/ FailMessage(m) \/ Acknowledge(m) \/ FailAcknowledge(m)
    PROVE  StreamOK' /\ LoopOK'
  <1>1. /\ stream' = stream /\ delivered' = delivered /\ crashes' = crashes
        /\ consumer.batch # <<>> /\ Head(consumer.batch) = m
    BY DEF ProcessMessage, FailMessage, Acknowledge, FailAcknowledge, Handles, redis
  <1>2. StreamOK' /\ Delivered' = Delivered
    BY <1>1 DEF StreamOK, Delivered
  <1>3. m \in Delivered
    BY <1>1 DEF LoopOK, ToSet
  <1>4. CASE ProcessMessage(m)
    <2>1. /\ usage' = usage \cup {m} /\ acked' = acked /\ consumer.step # "ack"
          /\ consumer' = [consumer EXCEPT !.step = "ack", !.back = consumer.step]
      BY <1>4 DEF ProcessMessage, RecordUsage, redis
    <2>2. /\ consumer'.step = "ack" /\ consumer'.back = consumer.step
          /\ consumer'.batch = consumer.batch
          /\ consumer' = [step |-> "ack", back |-> consumer.step, batch |-> consumer.batch]
      BY <2>1 DEF LoopOK
    <2>. QED
      BY <1>1, <1>2, <2>1, <2>2 DEF LoopOK
  <1>5. CASE FailMessage(m)
    <2>1. /\ usage' = usage /\ acked' = acked /\ consumer.step # "ack"
          /\ consumer' = AfterMessage(consumer.step)
      BY <1>5 DEF FailMessage, ledger, redis
    <2>. QED
      BY <1>1, <1>2, <2>1, RestTyped DEF LoopOK
  <1>6. CASE Acknowledge(m) \/ FailAcknowledge(m)
    <2>1. /\ usage' = usage /\ acked' \subseteq acked \cup {m} /\ consumer.step = "ack"
          /\ consumer' = AfterMessage(consumer.back)
      BY <1>6 DEF Acknowledge, FailAcknowledge, ledger, redis
    <2>2. m \in usage
      BY <1>1, <2>1 DEF LoopOK
    <2>. QED
      BY <1>1, <1>2, <1>3, <2>1, <2>2, RestTyped DEF LoopOK
  <1>. QED
    BY <1>2, <1>4, <1>5, <1>6

LEMMA RestartConsumerKept ==
    ASSUME StreamOK, LoopOK, RestartConsumer
    PROVE  StreamOK' /\ LoopOK'
  <1>1. /\ stream' = stream /\ delivered' = delivered /\ usage' = usage /\ acked' = acked
        /\ crashes' = crashes + 1 /\ crashes < MaxCrash
        /\ consumer' = [step |-> "pending", back |-> "pending", batch |-> <<>>]
    BY DEF RestartConsumer, ledger, redis
  <1>2. StreamOK' /\ Delivered' = Delivered
    BY <1>1, BillingBounds DEF StreamOK, Delivered
  <1>3. <<>> \in Seq(Message) /\ Len(<<>>) = 0 /\ ToSet(<<>>) = {} /\ Batch \in Nat
    BY BillingBounds DEF ToSet
  <1>. QED
    BY <1>1, <1>2, <1>3 DEF LoopOK

-----------------------------------------------------------------------------
(* Steps of the ledger *)

Balances == [u \in Account |-> BalanceOf(u)]

LEMMA TotalsNat ==
    ASSUME TablesOK
    PROVE  \A u \in Account : Total(bills, u) \in Nat /\ BalanceOf(u) \in Int
  <1>1. ASSUME NEW u \in Account
        PROVE  Total(bills, u) \in Nat
    BY TotalNat DEF TablesOK
  <1>. QED
    BY <1>1 DEF BalanceOf, TablesOK

\* Record and bill in one transaction: the event is charged, or it was before.
LEMMA RecordUsageCharges ==
    ASSUME TablesOK, NEW e \in Event, RecordUsage(e), month' = month
    PROVE  /\ TablesOK' /\ usage' = usage \cup {e} /\ recharges' = recharges
           /\ PromisedLedger!Charge(e) \/ UNCHANGED <<usage, initial, Balances>>
  <1>1. PaidBy[e] \in Account /\ Price[e] \in Nat
    BY BillingEvents
  <1>2. /\ usage' = usage \cup {e} /\ initial' = initial /\ recharges' = recharges
        /\ bills' = IF e \in usage THEN bills
                    ELSE [bills EXCEPT ![<<PaidBy[e], month>>] = @ + Price[e]]
    BY DEF RecordUsage
  <1>3. CASE e \in usage
    BY <1>2, <1>3 DEF TablesOK, Balances, BalanceOf
  <1>4. CASE e \notin usage
    <2>. DEFINE u == PaidBy[e]
                d == Price[e]
    <2>. HIDE DEF u, d
    <2>1. u \in Account /\ d \in Nat
      BY <1>1 DEF u, d
    <2>2. bills' = [bills EXCEPT ![<<u, month>>] = @ + d]
      BY <1>2, <1>4 DEF u, d
    <2>3. bills \in [Account \X Month -> Nat] /\ month \in Month
      BY DEF TablesOK
    <2>4. bills' \in [Account \X Month -> Nat]
      BY <2>1, <2>2, <2>3
    <2>5. ASSUME NEW v \in Account, NEW m \in Month
          PROVE  /\ bills[<<v, m>>] \in Nat
                 /\ bills'[<<v, m>>] = IF v = u /\ m = month THEN bills[<<v, m>>] + d
                                       ELSE bills[<<v, m>>]
      BY <2>2, <2>3
    <2>6. Total(bills', u) = Total(bills, u) + d
      <3>1. Raised(bills, bills', u, month, d)
        BY <2>1, <2>5 DEF Raised
      <3>. QED
        BY <2>1, <2>3, <3>1, TotalMoves
    <2>7. ASSUME NEW v \in Account, v # u
          PROVE  Total(bills', v) = Total(bills, v)
      <3>1. Raised(bills, bills', v, month, 0)
        BY <2>5, <2>7 DEF Raised
      <3>2. Total(bills', v) = Total(bills, v) + 0
        BY <2>3, <3>1, TotalMoves
      <3>3. Total(bills, v) \in Nat
        BY TotalsNat
      <3>. QED
        BY <3>2, <3>3
    <2>8. \A v \in Account : Total(bills, v) \in Nat /\ recharges[v] \in Nat
      BY TotalsNat DEF TablesOK
    <2>9. Balances' = [Balances EXCEPT ![u] = @ - d]
      <3>1. \A v \in Account : BalanceOf(v)' = recharges[v] - Total(bills', v)
        BY <1>2 DEF BalanceOf
      <3>2. \A v \in Account : BalanceOf(v)' = IF v = u THEN BalanceOf(v) - d ELSE BalanceOf(v)
        BY <2>1, <2>6, <2>7, <2>8, <3>1 DEF BalanceOf
      <3>. QED
        BY <2>1, <3>2 DEF Balances
    <2>10. PromisedLedger!Charge(e)
      BY <1>2, <1>4, <2>1, <2>8, <2>9
         DEF PromisedLedger!Charge, PromisedLedger!Move, Balances, BalanceOf, u, d
    <2>11. TablesOK'
      BY <1>2, <2>4 DEF TablesOK
    <2>. QED
      BY <1>2, <2>10, <2>11
  <1>. QED
    BY <1>3, <1>4

LEMMA GrantKept ==
    ASSUME TablesOK, NEW u \in Account, GrantInitialBalance(u)
    PROVE  /\ TablesOK' /\ usage' = usage /\ \A v \in Account : recharges[v] <= recharges'[v]
           /\ PromisedLedger!GrantOnce(u)
  <1>1. /\ u \notin initial /\ initial' = initial \cup {u} /\ usage' = usage /\ bills' = bills
        /\ recharges' = [recharges EXCEPT ![u] = @ + InitBalance] /\ month' = month
    BY DEF GrantInitialBalance
  <1>2. InitBalance \in Nat /\ recharges \in [Account -> Nat]
    BY BillingBounds DEF TablesOK
  <1>3. \A v \in Account : Total(bills, v) \in Nat /\ Total(bills', v) = Total(bills, v)
    BY <1>1, TotalsNat
  <1>4. Balances' = [Balances EXCEPT ![u] = @ + InitBalance]
    <2>1. \A v \in Account : BalanceOf(v)' = IF v = u THEN BalanceOf(v) + InitBalance ELSE BalanceOf(v)
      BY <1>1, <1>2, <1>3 DEF BalanceOf
    <2>. QED
      BY <2>1 DEF Balances
  <1>5. PromisedLedger!GrantOnce(u)
    BY <1>1, <1>4 DEF PromisedLedger!GrantOnce, PromisedLedger!Move, Balances
  <1>6. TablesOK' /\ \A v \in Account : recharges[v] <= recharges'[v]
    BY <1>1, <1>2 DEF TablesOK
  <1>. QED
    BY <1>1, <1>5, <1>6

LEMMA RechargeKept ==
    ASSUME TablesOK, NEW u \in Account, Recharge(u)
    PROVE  /\ TablesOK' /\ usage' = usage /\ \A v \in Account : recharges[v] <= recharges'[v]
           /\ PromisedLedger!RechargeBy(u, 1)
  <1>1. /\ initial' = initial /\ usage' = usage /\ bills' = bills /\ month' = month
        /\ recharges' = [recharges EXCEPT ![u] = @ + 1]
    BY DEF Recharge
  <1>2. recharges \in [Account -> Nat]
    BY DEF TablesOK
  <1>3. \A v \in Account : Total(bills, v) \in Nat /\ Total(bills', v) = Total(bills, v)
    BY <1>1, TotalsNat
  <1>4. Balances' = [Balances EXCEPT ![u] = @ + 1]
    <2>1. \A v \in Account : BalanceOf(v)' = IF v = u THEN BalanceOf(v) + 1 ELSE BalanceOf(v)
      BY <1>1, <1>2, <1>3 DEF BalanceOf
    <2>. QED
      BY <2>1 DEF Balances
  <1>5. PromisedLedger!RechargeBy(u, 1)
    BY <1>1, <1>4 DEF PromisedLedger!RechargeBy, PromisedLedger!Move, Balances
  <1>6. TablesOK' /\ \A v \in Account : recharges[v] <= recharges'[v]
    BY <1>1, <1>2 DEF TablesOK
  <1>. QED
    BY <1>1, <1>5, <1>6

\* Only the reports that are handled, the messages that are processed, and what is paid in move
\* the ledger.
LEMMA LedgerMoves ==
    ASSUME TablesOK, BillingNext
    PROVE  \/ \E u \in Account : GrantInitialBalance(u) \/ Recharge(u)
           \/ \E e \in Event : RecordUsage(e) /\ month' = month
           \/ UNCHANGED ledger /\ month' \in Month
  <1>1. month \in Month
    BY DEF TablesOK
  <1>2. NextMonth => UNCHANGED ledger /\ month' \in Month
    BY DEF NextMonth
  <1>3. ConsumerNext => \/ \E e \in Event : RecordUsage(e) /\ month' = month
                        \/ UNCHANGED ledger /\ month' \in Month
    BY <1>1 DEF ConsumerNext, ReadPending, ReadNew, RestartConsumer, ProcessMessage, FailMessage,
           Acknowledge, FailAcknowledge, Event
  <1>4. BackendNext => \/ \E e \in Event : RecordUsage(e) /\ month' = month
                       \/ UNCHANGED ledger /\ month' \in Month
    BY <1>1 DEF BackendNext, Backend, CheckFirst, CheckSecond, CheckFails, AddRun, OperationFails,
           OperationSucceeds, PostUsage, PostTimesOut, BackendDies, HandleUsage, HandleFails, Event
  <1>5. \A m \in Message : Publish(m) => UNCHANGED ledger /\ month' \in Month
    BY <1>1 DEF Publish
  <1>. QED
    BY <1>2, <1>3, <1>4, <1>5 DEF BillingNext

\* Each of these is a step of the promised ledger.
LEMMA LedgerSteps ==
    ASSUME IInv, BillingNext
    PROVE  /\ TablesOK' /\ usage \subseteq usage'
           /\ \A v \in Account : recharges[v] <= recharges'[v]
           /\ [PromisedLedger!LedgerNext]_(PromisedLedger!ledgerVars)
  <1>. DEFINE Goal == /\ TablesOK' /\ usage \subseteq usage'
                      /\ \A v \in Account : recharges[v] <= recharges'[v]
                      /\ [PromisedLedger!LedgerNext]_(PromisedLedger!ledgerVars)
  <1>1. TablesOK /\ recharges \in [Account -> Nat]
    BY DEF IInv, TablesOK
  <1>2. ASSUME NEW u \in Account, GrantInitialBalance(u) PROVE Goal
    BY <1>1, <1>2, GrantKept DEF PromisedLedger!LedgerNext
  <1>3. ASSUME NEW u \in Account, Recharge(u) PROVE Goal
    BY <1>1, <1>3, RechargeKept DEF PromisedLedger!LedgerNext
  <1>4. ASSUME NEW e \in Event, RecordUsage(e), month' = month PROVE Goal
    <2>1. /\ TablesOK' /\ usage' = usage \cup {e} /\ recharges' = recharges
          /\ PromisedLedger!Charge(e) \/ UNCHANGED <<usage, initial, Balances>>
      BY <1>1, <1>4, RecordUsageCharges
    <2>. QED
      BY <1>1, <2>1 DEF PromisedLedger!LedgerNext, PromisedLedger!ledgerVars, Balances
  <1>5. ASSUME UNCHANGED ledger, month' \in Month PROVE Goal
    <2>1. UNCHANGED Balances
      BY <1>5 DEF ledger, Balances, BalanceOf
    <2>. QED
      BY <1>1, <1>5, <2>1 DEF ledger, PromisedLedger!ledgerVars, Balances, TablesOK
  <1>6. \/ \E u \in Account : GrantInitialBalance(u) \/ Recharge(u)
        \/ \E e \in Event : RecordUsage(e) /\ month' = month
        \/ UNCHANGED ledger /\ month' \in Month
    BY <1>1, LedgerMoves
  <1>. QED
    BY <1>2, <1>3, <1>4, <1>5, <1>6

-----------------------------------------------------------------------------
(* Steps of the backend *)

LEMMA ReportingKept ==
    ASSUME IInv, TablesOK', NEW i \in Invocation, client'[i] = client[i], audit'[i] = audit[i],
           \A k \in 1 .. Attempts : <<i, k>> \in posted' => <<i, k>> \in posted,
           usage \subseteq usage', i \in usage' => i \in usage,
           \A v \in Account : recharges[v] <= recharges'[v]
    PROVE  Reporting(i)'
  <1>1. /\ Reporting(i) /\ PaidBy[i] \in Account
        /\ recharges[PaidBy[i]] \in Nat /\ recharges'[PaidBy[i]] \in Nat
    BY BillingEvents DEF IInv, ClientsOK, Event, TablesOK
  <1>. QED
    BY <1>1 DEF Reporting, AtStep

\* An invocation in step st of the record c.
LEMMA ClientTyped ==
    ASSUME ClientsOK, NEW i \in Invocation, NEW c \in ClientState,
           client' = [client EXCEPT ![i] = c]
    PROVE  /\ client' \in [Invocation -> ClientState] /\ client'[i] = c
           /\ \A j \in Invocation \ {i} : client'[j] = client[j]
  BY DEF ClientsOK

LEMMA GotoTyped ==
    ASSUME ClientsOK, NEW i \in Invocation,
           NEW st \in {"idle", "half", "start", "operate", "update", "post", "wait", "refused",
                       "failed", "reported", "unreported", "free", "died"},
           client' = Goto(i, st)
    PROVE  /\ client' \in [Invocation -> ClientState]
           /\ client'[i].step = st /\ client'[i].attempt = client[i].attempt
           /\ client'[i].seen = client[i].seen
           /\ \A j \in Invocation \ {i} : client'[j] = client[j]
  <1>. DEFINE c == [client[i] EXCEPT !.step = st]
  <1>1. client[i] \in ClientState
    BY DEF ClientsOK
  <1>2. /\ c \in ClientState /\ c.step = st /\ c.attempt = client[i].attempt
        /\ c.seen = client[i].seen
    BY <1>1 DEF ClientState
  <1>3. client' = [client EXCEPT ![i] = c]
    BY DEF Goto
  <1>. HIDE DEF c
  <1>. QED
    BY <1>2, <1>3, ClientTyped

\* What a step of the backend does to the invocation that takes it, and to the others.
Turn(i) ==
    /\ audit' \in [Invocation -> {"none", "running", "failed", "succeeded"}]
    /\ client' \in [Invocation -> ClientState]
    /\ posted' \subseteq Invocation \X (1 .. Attempts)
    /\ \A j \in Invocation \ {i} :
          /\ client'[j] = client[j] /\ audit'[j] = audit[j]
          /\ \A k \in 1 .. Attempts : <<j, k>> \in posted' => <<j, k>> \in posted
          /\ j \in usage' => j \in usage
    /\ Reporting(i)'

LEMMA ChecksTurn ==
    ASSUME IInv, NEW i \in Invocation, CheckFirst(i) \/ CheckSecond(i) \/ CheckFails(i)
    PROVE  Turn(i)
  <1>1. /\ ClientsOK /\ Reporting(i) /\ client[i] \in ClientState /\ PaidBy[i] \in Account
        /\ recharges \in [Account -> Nat]
    BY BillingEvents DEF IInv, ClientsOK, Event, TablesOK
  <1>2. usage' = usage /\ recharges' = recharges /\ audit' = audit /\ posted' = posted
    BY DEF CheckFirst, CheckSecond, CheckFails, Backend, ledger
  <1>3. CASE CheckFirst(i)
    <2>. DEFINE n == recharges[PaidBy[i]]
                c == [client[i] EXCEPT !.step = "half", !.seen = n]
    <2>1. n \in Nat /\ n \in Int
      BY <1>1
    <2>2. client' = [client EXCEPT ![i].step = "half", ![i].seen = n]
      BY <1>3 DEF CheckFirst, Sum, ReadOrder
    <2>3. client' = [client EXCEPT ![i] = c]
      BY <2>2
    <2>. HIDE DEF n
    <2>4. c \in ClientState /\ c.step = "half" /\ c.seen = n /\ c.attempt = client[i].attempt
      <3>1. c = [client[i] EXCEPT !.step = "half", !.seen = n]
        OBVIOUS
      <3>. HIDE DEF c
      <3>. QED
        BY <1>1, <2>1, <3>1 DEF ClientState
    <2>. HIDE DEF c
    <2>5. /\ client' \in [Invocation -> ClientState] /\ client'[i] = c
          /\ \A j \in Invocation \ {i} : client'[j] = client[j]
      BY <1>1, <2>3, <2>4, ClientTyped
    <2>6. AtStep(i, "idle")
      BY <1>3 DEF CheckFirst
    <2>7. Reporting(i)'
      BY <1>1, <1>2, <2>1, <2>4, <2>5, <2>6 DEF Reporting, AtStep, n
    <2>. QED
      BY <1>1, <1>2, <2>5, <2>7 DEF Turn, ClientsOK
  <1>4. ASSUME NEW st \in {"start", "refused"},
               client' = [client EXCEPT ![i].step = st, ![i].seen = 0], AtStep(i, "half")
        PROVE  Turn(i)
    <2>. DEFINE c == [client[i] EXCEPT !.step = st, !.seen = 0]
    <2>1. client' = [client EXCEPT ![i] = c]
      BY <1>4
    <2>2. c \in ClientState /\ c.step = st /\ c.attempt = client[i].attempt
      <3>1. c = [client[i] EXCEPT !.step = st, !.seen = 0]
        OBVIOUS
      <3>2. 0 \in Int /\ st \in {"half", "start", "refused"}
        OBVIOUS
      <3>. HIDE DEF c
      <3>. QED
        BY <1>1, <3>1, <3>2 DEF ClientState
    <2>. HIDE DEF c
    <2>3. /\ client' \in [Invocation -> ClientState] /\ client'[i] = c
          /\ \A j \in Invocation \ {i} : client'[j] = client[j]
      BY <1>1, <2>1, <2>2, ClientTyped
    <2>4. Reporting(i)'
      BY <1>1, <1>2, <1>4, <2>2, <2>3 DEF Reporting, AtStep
    <2>. QED
      BY <1>1, <1>2, <2>3, <2>4 DEF Turn, ClientsOK
  <1>5. CASE CheckSecond(i)
    BY <1>4, <1>5 DEF CheckSecond
  <1>6. CASE CheckFails(i)
    <2>1. AtStep(i, "idle") /\ \E st \in {"start", "refused"} : client' = Goto(i, st)
      BY <1>6 DEF CheckFails
    <2>2. PICK st \in {"start", "refused"} : client' = Goto(i, st)
      BY <2>1
    <2>3. /\ client' \in [Invocation -> ClientState]
          /\ client'[i].step = st /\ client'[i].attempt = client[i].attempt
          /\ \A j \in Invocation \ {i} : client'[j] = client[j]
      BY <1>1, <2>2, GotoTyped
    <2>4. Reporting(i)'
      BY <1>1, <1>2, <2>1, <2>3 DEF Reporting, AtStep
    <2>. QED
      BY <1>1, <1>2, <2>3, <2>4 DEF Turn, ClientsOK
  <1>. QED
    BY <1>3, <1>5, <1>6

LEMMA OperationTurns ==
    ASSUME IInv, NEW i \in Invocation,
           AddRun(i) \/ OperationFails(i) \/ OperationSucceeds(i) \/ PostTimesOut(i) \/ BackendDies(i)
    PROVE  Turn(i)
  <1>1. /\ ClientsOK /\ Reporting(i) /\ client[i] \in ClientState
        /\ audit \in [Invocation -> {"none", "running", "failed", "succeeded"}]
    BY DEF IInv, ClientsOK
  <1>2. usage' = usage /\ recharges' = recharges /\ posted' = posted
    BY DEF AddRun, OperationFails, OperationSucceeds, PostTimesOut, BackendDies, Backend, ledger
  <1>3. ASSUME NEW st \in {"operate", "failed", "post", "free", "unreported", "died"},
               client' = Goto(i, st),
               \A j \in Invocation \ {i} : audit'[j] = audit[j],
               audit' \in [Invocation -> {"none", "running", "failed", "succeeded"}],
               i \in usage => audit'[i] = "succeeded",
               \A k \in 1 .. Attempts : <<i, k>> \in posted => audit'[i] = "succeeded",
               st = "post" => audit'[i] = "succeeded" /\ client[i].attempt < Attempts,
               st = "operate" => audit'[i] # "succeeded" /\ client[i].attempt = 0
        PROVE  Turn(i)
    <2>1. /\ client' \in [Invocation -> ClientState]
          /\ client'[i].step = st /\ client'[i].attempt = client[i].attempt
          /\ \A j \in Invocation \ {i} : client'[j] = client[j]
      BY <1>1, <1>3, GotoTyped
    <2>2. Reporting(i)'
      BY <1>1, <1>2, <1>3, <2>1 DEF Reporting, AtStep
    <2>. QED
      BY <1>1, <1>2, <1>3, <2>1, <2>2 DEF Turn, ClientsOK
  <1>4. CASE AddRun(i)
    <2>1. /\ AtStep(i, "start") /\ audit' = [audit EXCEPT ![i] = "running"]
          /\ client' = Goto(i, "operate")
      BY <1>4 DEF AddRun
    <2>2. i \notin usage /\ client[i].attempt = 0 /\ \A k \in 1 .. Attempts : <<i, k>> \notin posted
      BY <1>1, <2>1 DEF Reporting, AtStep
    <2>. QED
      BY <1>1, <1>3, <2>1, <2>2
  <1>5. CASE OperationFails(i)
    <2>1. /\ AtStep(i, "operate") /\ audit' = [audit EXCEPT ![i] = "failed"]
          /\ client' = Goto(i, "failed")
      BY <1>5 DEF OperationFails
    <2>2. i \notin usage /\ \A k \in 1 .. Attempts : <<i, k>> \notin posted
      BY <1>1, <2>1 DEF Reporting, AtStep
    <2>. QED
      BY <1>1, <1>3, <2>1, <2>2
  <1>6. CASE OperationSucceeds(i)
    <2>1. /\ AtStep(i, "operate") /\ audit' = [audit EXCEPT ![i] = "succeeded"]
          /\ \E st \in {"post", "free"} : client' = Goto(i, st)
      BY <1>6 DEF OperationSucceeds
    <2>2. client[i].attempt < Attempts
      BY <1>1, <2>1, BillingBounds DEF Reporting, AtStep
    <2>. QED
      BY <1>1, <1>3, <2>1, <2>2
  <1>7. CASE PostTimesOut(i)
    <2>1. AtStep(i, "wait") /\ audit' = audit /\ client' = Again(i)
      BY <1>7 DEF PostTimesOut
    <2>2. audit[i] = "succeeded"
      BY <1>1, <2>1 DEF Reporting, AtStep
    <2>. QED
      BY <1>1, <1>3, <2>1, <2>2 DEF Again
  <1>8. CASE BackendDies(i)
    <2>1. audit' = audit /\ client' = Goto(i, "died")
      BY <1>8 DEF BackendDies
    <2>. QED
      BY <1>1, <1>3, <2>1 DEF Reporting
  <1>. QED
    BY <1>4, <1>5, <1>6, <1>7, <1>8

LEMMA PostUsageTurns ==
    ASSUME IInv, NEW i \in Invocation, PostUsage(i)
    PROVE  Turn(i)
  <1>1. /\ ClientsOK /\ Reporting(i) /\ client[i] \in ClientState /\ Attempts \in Nat
        /\ client \in [Invocation -> ClientState]
        /\ audit \in [Invocation -> {"none", "running", "failed", "succeeded"}]
        /\ posted \subseteq Invocation \X (1 .. Attempts)
    BY BillingBounds DEF IInv, ClientsOK
  <1>2. /\ usage' = usage /\ audit' = audit /\ AtStep(i, "post")
        /\ client' = [client EXCEPT ![i].step = "wait", ![i].attempt = @ + 1]
        /\ posted' = posted \cup {<<i, client[i].attempt + 1>>}
    BY DEF PostUsage, Backend, ledger
  <1>. DEFINE n == client[i].attempt + 1
              c == [client[i] EXCEPT !.step = "wait", !.attempt = n]
  <1>3. n \in 1 .. Attempts /\ n \in 0 .. Attempts /\ audit[i] = "succeeded"
    BY <1>1, <1>2 DEF Reporting, AtStep, ClientState
  <1>4. client' = [client EXCEPT ![i] = c]
    BY <1>2
  <1>5. posted' \subseteq Invocation \X (1 .. Attempts)
    BY <1>1, <1>2, <1>3
  <1>6. \A j \in Invocation \ {i} : \A k \in 1 .. Attempts : <<j, k>> \in posted' => <<j, k>> \in posted
    BY <1>2
  <1>. HIDE DEF n
  <1>7. c \in ClientState /\ c.step = "wait"
    BY <1>1, <1>3 DEF ClientState
  <1>. HIDE DEF c
  <1>8. /\ client' \in [Invocation -> ClientState] /\ client'[i] = c
        /\ \A j \in Invocation \ {i} : client'[j] = client[j]
    BY <1>1, <1>4, <1>7
  <1>9. Reporting(i)'
    BY <1>2, <1>3, <1>7, <1>8 DEF Reporting, AtStep
  <1>. QED
    BY <1>1, <1>2, <1>5, <1>6, <1>8, <1>9 DEF Turn

LEMMA HandlingTurns ==
    ASSUME IInv, NEW i \in Invocation, NEW k \in 1 .. Attempts, HandleUsage(i, k) \/ HandleFails(i, k)
    PROVE  Turn(i)
  <1>1. /\ ClientsOK /\ Reporting(i) /\ client[i] \in ClientState
        /\ client \in [Invocation -> ClientState]
        /\ audit \in [Invocation -> {"none", "running", "failed", "succeeded"}]
        /\ posted \subseteq Invocation \X (1 .. Attempts)
    BY DEF IInv, ClientsOK
  <1>2. /\ <<i, k>> \in posted /\ posted' = posted \ {<<i, k>>} /\ audit' = audit
        /\ usage' \in {usage, usage \cup {i}} /\ recharges' = recharges
    BY DEF HandleUsage, HandleFails, RecordUsage, Backend, ledger
  <1>3. audit[i] = "succeeded"
    BY <1>1, <1>2 DEF Reporting
  <1>4. CASE client' = client
    <2>1. Reporting(i)'
      BY <1>1, <1>2, <1>3, <1>4 DEF Reporting, AtStep
    <2>. QED
      BY <1>1, <1>2, <1>4, <2>1 DEF Turn
  <1>5. ASSUME NEW st \in {"reported", "post", "unreported"}, client' = Goto(i, st),
               st = "reported" => i \in usage', st = "post" => client[i].attempt < Attempts
        PROVE  Turn(i)
    <2>1. /\ client' \in [Invocation -> ClientState]
          /\ client'[i].step = st /\ client'[i].attempt = client[i].attempt
          /\ \A j \in Invocation \ {i} : client'[j] = client[j]
      BY <1>1, <1>5, GotoTyped
    <2>2. Reporting(i)'
      BY <1>2, <1>3, <1>5, <2>1 DEF Reporting, AtStep
    <2>. QED
      BY <1>1, <1>2, <2>1, <2>2 DEF Turn
  <1>6. CASE HandleUsage(i, k)
    <2>1. client' \in {client, Goto(i, "reported")} /\ usage' = usage \cup {i}
      BY <1>6 DEF HandleUsage, RecordUsage
    <2>. QED
      BY <1>4, <1>5, <2>1
  <1>7. CASE HandleFails(i, k)
    <2>1. client' \in {client, Again(i), Goto(i, "unreported")}
      BY <1>7 DEF HandleFails
    <2>. QED
      BY <1>4, <1>5, <2>1 DEF Again
  <1>. QED
    BY <1>6, <1>7

LEMMA BackendKept ==
    ASSUME IInv, BillingNext, BackendNext
    PROVE  ClientsOK'
  <1>1. PICK i \in Invocation : Turn(i)
    BY ChecksTurn, OperationTurns, PostUsageTurns, HandlingTurns DEF BackendNext
  <1>2. /\ TablesOK' /\ usage \subseteq usage' /\ \A v \in Account : recharges[v] <= recharges'[v]
    BY LedgerSteps
  <1>3. \A j \in Invocation \ {i} : Reporting(j)'
    BY <1>1, <1>2, ReportingKept DEF Turn
  <1>. QED
    BY <1>1, <1>3 DEF Turn, ClientsOK

LEMMA OthersKeepBackend ==
    ASSUME IInv, BillingNext, ~BackendNext
    PROVE  ClientsOK'
  <1>1. /\ TablesOK' /\ usage \subseteq usage' /\ \A v \in Account : recharges[v] <= recharges'[v]
    BY LedgerSteps
  <1>2. UNCHANGED backend /\ (usage' = usage \/ \E m \in Message : usage' = usage \cup {m})
    BY DEF BillingNext, GrantInitialBalance, Recharge, NextMonth, Publish, ConsumerNext, ReadPending,
           ReadNew, RestartConsumer, ProcessMessage, RecordUsage, FailMessage, Acknowledge,
           FailAcknowledge, ledger
  <1>3. \A i \in Invocation : i \in usage' => i \in usage
    BY <1>2, BillingNames
  <1>4. \A i \in Invocation : Reporting(i)'
    BY <1>1, <1>2, <1>3, ReportingKept DEF backend
  <1>. QED
    BY <1>2, <1>4 DEF IInv, ClientsOK, backend

LEMMA StreamKept ==
    ASSUME IInv, BillingNext
    PROVE  StreamOK' /\ LoopOK'
  <1>1. TablesOK /\ StreamOK /\ LoopOK
    BY DEF IInv
  <1>2. usage \subseteq usage'
    BY LedgerSteps
  <1>3. CASE UNCHANGED <<redis, consumer, crashes>>
    <2>1. Delivered' = Delivered
      BY <1>3 DEF Delivered, redis
    <2>. QED
      BY <1>1, <1>2, <1>3, <2>1, LoopKept DEF StreamOK, redis
  <1>4. \/ ConsumerNext \/ \E m \in Message : Publish(m)
        \/ UNCHANGED <<redis, consumer, crashes>>
    <2>1. BackendNext => UNCHANGED <<redis, consumer, crashes>>
      BY DEF BackendNext, Backend, CheckFirst, CheckSecond, CheckFails, AddRun, OperationFails,
             OperationSucceeds, PostUsage, PostTimesOut, BackendDies, HandleUsage, HandleFails
    <2>. QED
      BY <2>1 DEF BillingNext, GrantInitialBalance, Recharge, NextMonth
  <1>. QED
    BY <1>1, <1>3, <1>4, PublishKept, ReadPendingKept, ReadNewKept, RestartConsumerKept, MessageKept
       DEF ConsumerNext

-----------------------------------------------------------------------------
(* The invariant *)

LEMMA InitIInv == BillingInit => IInv
  <1>. SUFFICES ASSUME BillingInit PROVE IInv
    OBVIOUS
  <1>1. TablesOK
    BY BillingBounds DEF BillingInit, TablesOK
  <1>2. StreamOK
    BY BillingBounds DEF BillingInit, StreamOK, IsInjective
  <1>3. LoopOK
    <2>1. <<>> \in Seq(Message) /\ Len(<<>>) = 0 /\ ToSet(<<>>) = {} /\ Batch \in Nat
      BY BillingBounds DEF ToSet
    <2>. QED
      BY <2>1 DEF BillingInit, LoopOK
  <1>4. ClientsOK
    <2>1. Idle \in ClientState /\ Idle.step = "idle" /\ Idle.attempt = 0
      BY BillingBounds DEF Idle, ClientState
    <2>. QED
      BY <2>1 DEF BillingInit, ClientsOK, Reporting, AtStep
  <1>. QED
    BY <1>1, <1>2, <1>3, <1>4 DEF IInv

LEMMA NextIInv ==
    ASSUME IInv, [BillingNext]_billingVars
    PROVE  IInv'
  <1>1. CASE BillingNext
    BY <1>1, LedgerSteps, StreamKept, BackendKept, OthersKeepBackend DEF IInv
  <1>2. CASE UNCHANGED billingVars
    <2>1. /\ UNCHANGED <<usage, bills, initial, recharges, month, stream, delivered, acked>>
          /\ UNCHANGED <<consumer, crashes, audit, client, posted>>
      BY <1>2 DEF billingVars, ledger, redis, backend
    <2>. QED
      BY <2>1 DEF IInv, TablesOK, StreamOK, LoopOK, Delivered, ClientsOK, Reporting, AtStep
  <1>. QED
    BY <1>1, <1>2

LEMMA Inductive == BillingSpec => []IInv
  BY InitIInv, NextIInv, PTL DEF BillingSpec

\* Tables, stream, loop and requests stay well formed: a batch holds no more than Batch messages,
\* all of which were delivered, and an attempt is one of those allowed.
THEOREM BillingWellFormed == BillingSpec => []BillingTypeOK
  <1>1. IInv => BillingTypeOK
    <2>. SUFFICES ASSUME IInv PROVE BillingTypeOK
      OBVIOUS
    <2>1. ToSet(stream) \subseteq Message
      BY DEF IInv, StreamOK, ToSet
    <2>. QED
      BY <2>1 DEF IInv, TablesOK, StreamOK, LoopOK, ClientsOK, Delivered, BillingTypeOK
  <1>. QED
    BY <1>1, Inductive, PTL

\* A message is acknowledged to Redis, and a report to the backend, only after its transaction.
THEOREM AcknowledgedAreRecorded == BillingSpec => []AcknowledgedIsRecorded
  <1>1. IInv => AcknowledgedIsRecorded
    BY DEF IInv, LoopOK, ClientsOK, Reporting, AcknowledgedIsRecorded
  <1>. QED
    BY <1>1, Inductive, PTL

\* Usage is recorded only for invocations whose row in agent_runs says that they succeeded.
THEOREM SuccessIsCharged == BillingSpec => []ChargedForSuccess
  <1>1. IInv => ChargedForSuccess
    BY DEF IInv, ClientsOK, Reporting, ChargedForSuccess
  <1>. QED
    BY <1>1, Inductive, PTL

-----------------------------------------------------------------------------
(* Bills and records *)

\* Charges sums the prices of a set of records.
LEMMA ChargesArePrices ==
    ASSUME NEW records, NEW u
    PROVE  Charges(records, u) = SumOf(Price, {e \in records : PaidBy[e] = u})
  BY DEF Charges, SumOf

\* The inductive invariant: a finite table of records, and bills that match it.
BillsOK == IsFiniteSet(usage) /\ BillsAddUp

\* Where neither table changes, neither do the two sums.
LEMMA BillsKept ==
    ASSUME BillsOK, usage' = usage, bills' = bills
    PROVE  BillsOK'
  <1>1. ASSUME NEW u \in Account
        PROVE  Total(bills', u) = Charges(usage', u)
    BY DEF BillsOK, BillsAddUp
  <1>2. IsFiniteSet(usage')
    BY DEF BillsOK
  <1>. QED
    BY <1>1, <1>2 DEF BillsOK, BillsAddUp

\* What is billed to an account moves with what is recorded for it.
LEMMA RecordUsageBills ==
    ASSUME TablesOK, BillsOK, NEW e \in Event, RecordUsage(e), month' = month
    PROVE  BillsOK'
  <1>1. /\ usage' = usage \cup {e} /\ recharges' = recharges
        /\ e \in usage => bills' = bills
        /\ PromisedLedger!Charge(e) \/ UNCHANGED <<usage, initial, Balances>>
    BY RecordUsageCharges DEF RecordUsage
  <1>2. IsFiniteSet(usage')
    BY <1>1, FS_AddElement DEF BillsOK
  <1>3. CASE e \in usage
    <2>1. usage' = usage /\ bills' = bills
      BY <1>1, <1>3
    <2>. QED
      BY <2>1, BillsKept
  <1>4. CASE e \notin usage
    <2>1. PICK u, d : u = PaidBy[e] /\ d = Price[e]
      OBVIOUS
    <2>2. u \in Account /\ d \in Nat
      BY <2>1, BillingEvents
    <2>3. Balances' = [Balances EXCEPT ![u] = @ - d]
      BY <1>1, <1>4, <2>1 DEF PromisedLedger!Charge, PromisedLedger!Move, Balances
    <2>4. \A v \in Account : /\ Total(bills, v) \in Nat /\ Total(bills', v) \in Nat
                            /\ recharges[v] \in Nat /\ recharges'[v] = recharges[v]
      <3>1. TablesOK'
        BY RecordUsageCharges
      <3>. QED
        BY <1>1, <3>1, TotalsNat, TotalNat DEF TablesOK
    <2>5. ASSUME NEW v \in Account
          PROVE  Total(bills', v) = IF v = u THEN Total(bills, v) + d ELSE Total(bills, v)
      <3>1. BalanceOf(v)' = IF v = u THEN BalanceOf(v) - d ELSE BalanceOf(v)
        BY <2>2, <2>3 DEF Balances
      <3>2. BalanceOf(v) = recharges[v] - Total(bills, v)
            /\ BalanceOf(v)' = recharges[v] - Total(bills', v)
        BY <2>4 DEF BalanceOf
      <3>3. PICK r, t, n : r = recharges[v] /\ t = Total(bills, v) /\ n = Total(bills', v)
        OBVIOUS
      <3>. QED
        BY <2>2, <2>4, <3>1, <3>2, <3>3
    <2>6. ASSUME NEW v \in Account
          PROVE  Charges(usage', v) = IF v = u THEN Charges(usage, v) + d ELSE Charges(usage, v)
      <3>1. PICK old, new : old = {f \in usage : PaidBy[f] = v} /\ new = {f \in usage' : PaidBy[f] = v}
        OBVIOUS
      <3>2. Charges(usage, v) = SumOf(Price, old) /\ Charges(usage', v) = SumOf(Price, new)
        BY <3>1, ChargesArePrices
      <3>3. CASE v = u
        <4>1. new = old \cup {e} /\ e \notin old /\ IsFiniteSet(old)
          BY <1>1, <1>4, <2>1, <3>1, <3>3, FS_Subset DEF BillsOK
        <4>2. Naturals(Price, old \cup {e})
          BY <3>1, BillingEvents DEF TablesOK, Naturals
        <4>3. SumOf(Price, old \cup {e}) = SumOf(Price, old) + Price[e]
          BY <4>1, <4>2, SumOfOneMore
        <4>. QED
          BY <2>1, <3>2, <3>3, <4>1, <4>3
      <3>4. CASE v # u
        <4>1. new = old
          BY <1>1, <2>1, <3>1, <3>4
        <4>. QED
          BY <3>2, <3>4, <4>1
      <3>. QED
        BY <3>3, <3>4
    <2>7. ASSUME NEW v \in Account
          PROVE  Total(bills', v) = Charges(usage', v)
      BY <2>5, <2>6 DEF BillsOK, BillsAddUp
    <2>8. BillsAddUp'
      BY <2>7 DEF BillsOK, BillsAddUp
    <2>. QED
      BY <1>2, <2>8 DEF BillsOK
  <1>. QED
    BY <1>3, <1>4

\* Whatever is reported twice, late or by both paths, and in whichever months it is billed, the bills
\* of an account add up to the prices of the events that are recorded for it, each counted once.
THEOREM BillsAreTheRecords == BillingSpec => []BillsAddUp
  <1>1. BillingInit => BillsOK
    <2>. SUFFICES ASSUME BillingInit PROVE BillsOK
      OBVIOUS
    <2>1. usage = {} /\ \A k \in Account \X Month : bills[k] = 0
      BY DEF BillingInit
    <2>2. ASSUME NEW u \in Account
          PROVE  Total(bills, u) = 0 /\ Charges(usage, u) = 0
      <3>1. \A m \in Month : bills[<<u, m>>] = 0
        BY <2>1
      <3>2. {e \in usage : PaidBy[e] = u} = {}
        BY <2>1
      <3>3. Charges(usage, u) = SumOf(Price, {})
        BY <3>2, ChargesArePrices
      <3>. QED
        BY <3>1, <3>3, TotalZero, SumOfNone
    <2>. QED
      BY <2>1, <2>2, FS_EmptySet DEF BillsOK, BillsAddUp
  <1>2. ASSUME IInv, BillsOK, [BillingNext]_billingVars
        PROVE  BillsOK'
    <2>1. ASSUME UNCHANGED <<usage, bills>>
          PROVE  BillsOK'
      BY <1>2, <2>1, BillsKept
    <2>2. CASE BillingNext
      <3>1. TablesOK
        BY <1>2 DEF IInv
      <3>2. \A u \in Account : GrantInitialBalance(u) \/ Recharge(u) => UNCHANGED <<usage, bills>>
        BY DEF GrantInitialBalance, Recharge
      <3>3. UNCHANGED ledger => UNCHANGED <<usage, bills>>
        BY DEF ledger
      <3>4. \A e \in Event : RecordUsage(e) /\ month' = month => BillsOK'
        BY <1>2, <3>1, RecordUsageBills
      <3>. QED
        BY <2>1, <2>2, <3>1, <3>2, <3>3, <3>4, LedgerMoves
    <2>3. CASE UNCHANGED billingVars
      BY <2>1, <2>3 DEF billingVars, ledger
    <2>. QED
      BY <1>2, <2>2, <2>3
  <1>3. BillsOK => BillsAddUp
    BY DEF BillsOK
  <1>. QED
    BY <1>1, <1>2, <1>3, Inductive, PTL DEF BillingSpec

-----------------------------------------------------------------------------
(* The ledger, and the balance check *)

LEMMA InitIsEmpty == BillingInit => PromisedLedger!LedgerInit
  <1>. SUFFICES ASSUME BillingInit PROVE PromisedLedger!LedgerInit
    OBVIOUS
  <1>1. ASSUME NEW u \in Account
        PROVE  BalanceOf(u) = 0
    <2>1. Total(bills, u) = 0
      <3>1. \A m \in Month : bills[<<u, m>>] = 0
        BY DEF BillingInit
      <3>. QED
        BY <3>1, TotalZero
    <2>. QED
      BY <2>1 DEF BillingInit, BalanceOf
  <1>. QED
    BY <1>1 DEF BillingInit, PromisedLedger!LedgerInit

\* However often the backend and the stream report an event, and in whichever month, the balance
\* that GetBalance sums up is charged for it once, and given its first sum once.
THEOREM BillingImplementsLedger == BillingSpec => ImplementsLedger
  <1>1. ASSUME IInv, [BillingNext]_billingVars
        PROVE  [PromisedLedger!LedgerNext]_(PromisedLedger!ledgerVars)
    <2>1. CASE BillingNext
      BY <1>1, <2>1, LedgerSteps
    <2>2. CASE UNCHANGED billingVars
      BY <2>2 DEF billingVars, ledger, PromisedLedger!ledgerVars, BalanceOf
    <2>. QED
      BY <1>1, <2>1, <2>2
  <1>. QED
    BY <1>1, InitIsEmpty, Inductive, PTL DEF BillingSpec, ImplementsLedger, PromisedLedger!LedgerSpec

\* Bills that were committed between its two queries can only make a check refuse, for the sum of
\* the recharges it read first has not shrunk since.
LEMMA CheckIsCautious ==
    ASSUME IInv, NEW i \in Invocation, CheckSecond(i), client'[i].step = "start"
    PROVE  BalanceOf(PaidBy[i]) > 0
  <1>. DEFINE u == PaidBy[i]
  <1>1. /\ client \in [Invocation -> ClientState] /\ u \in Account /\ TablesOK
        /\ client[i].seen \in Nat /\ client[i].seen <= recharges[u] /\ recharges[u] \in Nat
    BY BillingEvents DEF IInv, ClientsOK, Reporting, CheckSecond, TablesOK, Event
  <1>2. client' = [client EXCEPT ![i].step = IF client[i].seen - Total(bills, u) > 0
                                              THEN "start" ELSE "refused", ![i].seen = 0]
    BY DEF CheckSecond, Sum, ReadOrder
  <1>3. client[i].seen - Total(bills, u) > 0
    BY <1>1, <1>2 DEF ClientState
  <1>4. Total(bills, u) \in Nat
    BY <1>1, TotalsNat
  <1>. QED
    BY <1>1, <1>3, <1>4 DEF BalanceOf

LEMMA StartFunded ==
    ASSUME IInv, BillingNext, NEW i \in Invocation,
           Required, ~AtStep(i, "start"), client'[i].step = "start"
    PROVE  BalanceOf(PaidBy[i]) > 0
  <1>1. ClientsOK
    BY DEF IInv
  <1>2. client' # client
    BY DEF AtStep
  <1>3. BackendNext
    BY <1>2 DEF BillingNext, GrantInitialBalance, Recharge, NextMonth, Publish, ConsumerNext,
                ReadPending, ReadNew, RestartConsumer, ProcessMessage, FailMessage, Acknowledge,
                FailAcknowledge, backend
  <1>4. PICK j \in Invocation :
           \/ CheckFirst(j) \/ CheckSecond(j) \/ CheckFails(j)
           \/ AddRun(j) \/ OperationFails(j) \/ OperationSucceeds(j)
           \/ PostUsage(j) \/ PostTimesOut(j) \/ BackendDies(j)
           \/ \E k \in 1 .. Attempts : HandleUsage(j, k) \/ HandleFails(j, k)
    BY <1>3 DEF BackendNext
  <1>5. Turn(j)
    BY <1>4, ChecksTurn, OperationTurns, PostUsageTurns, HandlingTurns
  <1>6. j = i
    BY <1>5 DEF Turn, AtStep
  <1>7. ASSUME NEW st \in {"refused", "operate", "failed", "post", "free", "unreported", "died",
                           "reported"},
               client' = Goto(i, st)
        PROVE  FALSE
    BY <1>1, <1>7, GotoTyped
  <1>8. ~CheckFirst(i) /\ ~PostUsage(i)
    BY <1>1 DEF CheckFirst, PostUsage, ClientsOK, ClientState
  <1>9. \A k \in 1 .. Attempts : ~HandleUsage(i, k) /\ ~HandleFails(i, k)
    BY <1>2, <1>7 DEF HandleUsage, HandleFails, Again
  <1>10. ~(CheckFails(i) \/ AddRun(i) \/ OperationFails(i) \/ OperationSucceeds(i)
           \/ PostTimesOut(i) \/ BackendDies(i))
    BY <1>7 DEF CheckFails, AddRun, OperationFails, OperationSucceeds, PostTimesOut, BackendDies, Again
  <1>. QED
    BY <1>4, <1>6, <1>8, <1>9, <1>10, CheckIsCautious

\* An invocation that must have an answer to its balance check starts only on an account that has
\* something left when the check ends, although the check reads recharges and bills at two moments.
THEOREM ChecksFundAStart == BillingSpec => StartsFunded
  <1>. DEFINE Funded(i) == Required /\ ~AtStep(i, "start") /\ client'[i].step = "start" =>
                             BalanceOf(PaidBy[i]) > 0
  <1>1. ASSUME IInv, [BillingNext]_billingVars
        PROVE  [\A i \in Invocation : Funded(i)]_billingVars
    BY <1>1, StartFunded
  <1>. QED
    BY <1>1, Inductive, PTL DEF BillingSpec, StartsFunded

=============================================================================
