------------------------------ MODULE AuthProofs ------------------------------
(***************************************************************************)
(* Codes, contacts and the initial balance, for any requests, contacts and   *)
(* bounds.                                                                  *)
(*                                                                          *)
(* A code is used by the request that holds its row, and the row it holds was *)
(* not used before; whoever is about to change a contact has had a code of it *)
(* accepted; and whoever takes a bootstrap's email meanwhile has a verified   *)
(* contact, if not that one.                                                *)
(***************************************************************************)
EXTENDS Auth, FiniteSetTheorems, TLAPS

IdsOf(rows) == {x.id : x \in rows}

\* The codes are numbered in the order in which they were stored.
CodesNumbered == \E n \in 0 .. MaxCode : IdsOf(codes) = 1 .. n

\* A request holds the row of a code that fits what it asks for and was not used, and nobody else
\* holds it.
LocksHeld ==
    /\ \A r \in Caller : OnStep(r, "locked") =>
          \E c \in codes : c.id = call[r].code /\ Same(c, r) /\ c.status # "used"
    /\ \A r, s \in Caller :
          OnStep(r, "locked") /\ OnStep(s, "locked") /\ call[r].code = call[s].code => r = s

\* What was accepted is marked as used.
SpentIsUsed ==
    \A i \in CodeId : spent[i] # 0 =>
        spent[i] = 1 /\ \E c \in codes : c.id = i /\ c.status = "used"

LatestLive ==
    \A c, d \in codes : c.status = "live" /\ c.target = d.target /\ c.purpose = d.purpose =>
        d.id <= c.id

CodesOK == CodesNumbered /\ LocksHeld /\ SpentIsUsed /\ LatestLive

\* The column of a contact's kind.
ContactOf(a, contact) == IF contact \in Email THEN a.email ELSE a.phone

\* Requests about a contact an account has, or had when they began.
Verifying(r) == OnStep(r, "verify") \/ OnStep(r, "lock") \/ OnStep(r, "locked")

\* A request that changes contacts has a target, of which a code was accepted; one that marks an
\* account's contact knows it, or another one was proven meanwhile.
Contacting(r) ==
    /\ call[r].step \in {"save", "lock", "locked"} => call[r].target \in Contact
    /\ call[r].step \in {"register", "verify", "add"} =>
          call[r].op = call[r].step /\ call[r].target \in proven
    /\ call[r].op = "verify" /\ Verifying(r) =>
          /\ \E a \in accounts : a.id = call[r].account
          /\ \A a \in accounts : a.id = call[r].account =>
                ContactOf(a, call[r].target) \in {call[r].target} \cup proven
    /\ OnStep(r, "found") =>
          /\ call[r].target \in Email
          /\ \E a \in accounts : a.id = call[r].account
          /\ \A a \in accounts : a.id = call[r].account =>
                a.email \in {call[r].target} \cup proven

ContactsOK == ContactProven /\ \A r \in Caller : Contacting(r)

HasProof(id) == \E a \in accounts : a.id = id /\ a.verified # {}

\* A bootstrap that found no account can only find one with a verified contact later, and grants
\* to such a one.
Bootstrapping(r) ==
    /\ call[r].step \in {"insert", "refind"} =>
          /\ call[r].target \in Email
          /\ \A a \in accounts : a.email = call[r].target => a.verified # {}
    /\ call[r].step \in {"grant", "done"} => HasProof(call[r].account)
    /\ OnStep(r, "done") => grants[call[r].account] = 1

BootstrapsOK ==
    /\ \A i \in AccountId : grants[i] \in {0, 1}
    /\ \A r \in Caller : Bootstrapping(r)

IInv == AuthTypeOK /\ CodesOK /\ ContactsOK /\ BootstrapsOK

-----------------------------------------------------------------------------
(* Rows and requests *)

LEMMA NoCallTyped == NoCall \in CallState
  BY AuthBounds DEF CallState, NoCall, Nobody, NoCode, PURPOSE

\* A request stays one, whatever of it changes.
LEMMA CallsTyped ==
    ASSUME AuthTypeOK, AuthNext
    PROVE  call' \in [Caller -> CallState]
  <1>. DEFINE Put == \E r \in Caller : \E c \in CallState : call' = [call EXCEPT ![r] = c]
  <1>1. call \in [Caller -> CallState] /\ AccountId \subseteq 0 .. MaxAccount
        /\ \A a \in accounts : a.id \in AccountId
    BY AuthBounds DEF AuthTypeOK, AccountId, AccountRow
  <1>2. ASSUME NEW r \in Caller, NEW t \in Contact, NEW p \in PURPOSE, RequestCode(r, t, p)
        PROVE  Put
    <2>1. [NoCall EXCEPT !.step = "save", !.purpose = p, !.target = t] \in CallState
      BY NoCallTyped DEF CallState
    <2>. QED
      BY <1>2, <2>1 DEF RequestCode, Called
  <1>3. ASSUME NEW r \in Caller, NEW c \in CodeId, NEW op \in {"register", "verify", "add"},
               NEW t \in Contact, NEW a \in 0 .. MaxAccount, NEW step \in {"lock", "locked"},
               call' = [call EXCEPT ![r] = [Presented(c, op, t, a) EXCEPT !.step = step]]
        PROVE  Put
    <2>1. [Presented(c, op, t, a) EXCEPT !.step = step] \in CallState
      BY DEF Presented, CallState, PURPOSE, CodeId
    <2>. QED
      BY <1>3, <2>1
  <1>3a. \A r \in Caller, c \in CodeId, op \in {"register", "verify", "add"}, t \in Contact,
            a \in 0 .. MaxAccount : UseCode(r, Presented(c, op, t, a)) \/ ReadContact(r, c, t, a) => Put
    <2>1. \A c, t, a : Presented(c, "verify", t, a) =
                          [Presented(c, "verify", t, a) EXCEPT !.step = "lock"]
      BY DEF Presented
    <2>. HIDE DEF Put
    <2>. QED
      BY <1>3, <2>1 DEF UseCode, ReadContact, Called
  <1>4. ASSUME NEW r \in Caller, NEW e \in Email, Bootstrap(r, e)
        PROVE  Put
    <2>1. CASE call' = [call EXCEPT ![r] = [NoCall EXCEPT !.step = "insert", !.target = e]]
      <3>1. [NoCall EXCEPT !.step = "insert", !.target = e] \in CallState
        BY NoCallTyped DEF CallState, Contact
      <3>. QED
        BY <2>1, <3>1
    <2>2. ASSUME NEW i \in AccountId,
                 call' = [call EXCEPT ![r] = [NoCall EXCEPT !.step = "found", !.target = e, !.account = i]]
          PROVE  Put
      <3>1. [NoCall EXCEPT !.step = "found", !.target = e, !.account = i] \in CallState
        BY <1>1, NoCallTyped DEF CallState, Contact
      <3>. QED
        BY <2>2, <3>1
    <2>. QED
      BY <1>1, <1>4, <2>1, <2>2 DEF Bootstrap, Called
  <1>5. ASSUME NEW r \in Caller, NEW i \in AccountId,
               call' = [call EXCEPT ![r].step = "grant", ![r].account = i]
        PROVE  Put
    <2>1. [call[r] EXCEPT !.step = "grant", !.account = i] \in CallState
      BY <1>1 DEF CallState
    <2>2. call' = [call EXCEPT ![r] = [call[r] EXCEPT !.step = "grant", !.account = i]]
      BY <1>5
    <2>. QED
      BY <2>1, <2>2
  <1>6. ASSUME NEW r \in Caller, Return(r)
        PROVE  Put
    BY <1>6, NoCallTyped DEF Return
  <1>7. ASSUME NEW r \in Caller,
               NEW s \in {"none", "save", "lock", "locked", "register", "verify", "add", "found",
                          "insert", "refind", "grant", "done"},
               call' = Advance(r, s)
        PROVE  Put
    <2>1. [call[r] EXCEPT !.step = s] \in CallState
      BY <1>1 DEF CallState
    <2>. QED
      BY <1>7, <2>1 DEF Advance
  <1>8. ASSUME NEW r \in Caller, BootstrapRegister(r) \/ BootstrapFindAgain(r)
        PROVE  Put
    <2>1. CASE BootstrapRegister(r)
      BY <2>1, <1>5, <1>7 DEF BootstrapRegister, NextIds, FreeIds, Advance
    <2>2. CASE BootstrapFindAgain(r)
      BY <2>2, <1>1, <1>5, <1>6 DEF BootstrapFindAgain
    <2>. QED
      BY <1>8, <2>1, <2>2
  <1>9. ASSUME NEW r \in Caller,
               \/ SaveCode(r) \/ LockCode(r) \/ ConsumeCode(r) \/ RegisterAccount(r) \/ VerifyContact(r)
               \/ AddContact(r) \/ BootstrapMark(r) \/ BootstrapGrant(r) \/ BootstrapReturns(r)
               \/ FailCall(r)
        PROVE  Put
    <2>1. call[r].op \in {"register", "verify", "add"}
      BY <1>1 DEF CallState
    <2>2. \/ Return(r)
          \/ \E s \in {"locked", "register", "verify", "add", "grant", "done"} : call' = Advance(r, s)
      BY <1>9, <2>1 DEF SaveCode, LockCode, ConsumeCode, RegisterAccount, VerifyContact, AddContact,
           BootstrapMark, BootstrapGrant, BootstrapReturns, FailCall
    <2>. QED
      BY <2>2, <1>6, <1>7
  <1>10. ASSUME (\E c \in codes : Expire(c)) \/ (\E a \in AccountId : GrantInBackground(a)) \/ RestartAuth
         PROVE  call' \in [Caller -> CallState]
    BY <1>10, <1>1, NoCallTyped DEF Expire, GrantInBackground, RestartAuth
  <1>11. Put => call' \in [Caller -> CallState]
    BY <1>1
  <1>12. /\ \A a \in accounts : a.id \in 0 .. MaxAccount /\ OwnContacts(a) \subseteq Contact
         /\ Nobody \in 0 .. MaxAccount
    BY AuthBounds DEF AuthTypeOK, AccountRow, AccountId, OwnContacts, Contact, Nobody
  <1>. HIDE DEF Put
  <1>. QED
    BY <1>2, <1>3a, <1>4, <1>8, <1>9, <1>10, <1>11, <1>12 DEF AuthNext

-----------------------------------------------------------------------------
(* Accounts *)

AccountsTyped ==
    /\ accounts \subseteq AccountRow
    /\ \A a, b \in accounts : a.id = b.id \/ a.email = b.email => a = b

\* How accounts change: they stay, gain proofs, and change a contact only for one that was proven.
Grown ==
    /\ \A b \in accounts' :
          \/ b.id \in FreeIds /\ b.verified # {}
          \/ \E a \in accounts :
                /\ a.id = b.id /\ a.verified \subseteq b.verified
                /\ b.email # a.email => b.email \in proven' /\ "email" \in b.verified
                /\ b.phone # a.phone => b.phone \in proven'
    /\ \A a \in accounts : \E b \in accounts' : b.id = a.id /\ a.verified \subseteq b.verified
    /\ proven \subseteq proven'

LEMMA NewAccountGrows ==
    ASSUME AccountsTyped, ContactProven, NEW id \in NextIds, NEW t \in Contact,
           NEW other \in Besides(t), EmailFree(NewAccount(id, t, other).email, accounts),
           accounts' = accounts \cup {NewAccount(id, t, other)},
           proven \subseteq proven', t \in proven'
    PROVE  AccountsTyped' /\ ContactProven' /\ Grown
  <1>. DEFINE row == NewAccount(id, t, other)
  <1>1. /\ row.id = id /\ row.verified = {Kind(t)}
        /\ row.email = (IF t \in Email THEN t ELSE other)
        /\ row.phone = (IF t \in Email THEN other ELSE t)
        /\ row \in AccountRow /\ id \in FreeIds
    BY DEF NewAccount, AccountRow, NextIds, FreeIds, Kind, Besides, Contact
  <1>2. \A a \in accounts : a.id # id /\ a.email # row.email
    BY <1>1 DEF FreeIds, EmailFree
  <1>. HIDE DEF row
  <1>3. accounts' = accounts \cup {row}
    BY DEF row
  <1>4. AccountsTyped'
    BY <1>1, <1>2, <1>3 DEF AccountsTyped
  <1>5. /\ "email" \in row.verified => row.email \in proven'
        /\ "phone" \in row.verified => row.phone \in proven'
        /\ row.verified # {}
    BY <1>1 DEF Kind
  <1>6. ContactProven'
    BY <1>3, <1>5 DEF ContactProven
  <1>7. Grown
    BY <1>1, <1>3, <1>5 DEF Grown
  <1>. QED
    BY <1>4, <1>6, <1>7

\* One account gets another row.
LEMMA ChangedAccountGrows ==
    ASSUME AccountsTyped, ContactProven, NEW i, NEW new,
           proven \subseteq proven',
           \A a \in accounts : a.id = i =>
              /\ new[a] \in AccountRow /\ new[a].id = i /\ a.verified \subseteq new[a].verified
              /\ "email" \in new[a].verified => new[a].email \in proven'
              /\ "phone" \in new[a].verified => new[a].phone \in proven'
              /\ new[a].email # a.email =>
                    "email" \in new[a].verified /\ \A b \in Others(i) : b.email # new[a].email
              /\ new[a].phone # a.phone => new[a].phone \in proven',
           accounts' = {IF a.id = i THEN new[a] ELSE a : a \in accounts}
    PROVE  AccountsTyped' /\ ContactProven' /\ Grown
  <1>1. \A b \in accounts' : \E a \in accounts : b = IF a.id = i THEN new[a] ELSE a
    OBVIOUS
  <1>2. \A a \in accounts : (IF a.id = i THEN new[a] ELSE a) \in accounts'
    OBVIOUS
  <1>3. ASSUME NEW b \in accounts', NEW c \in accounts', b.id = c.id \/ b.email = c.email
        PROVE  b = c
    <2>1. PICK a \in accounts : b = IF a.id = i THEN new[a] ELSE a
      BY <1>1
    <2>2. PICK d \in accounts : c = IF d.id = i THEN new[d] ELSE d
      BY <1>1
    <2>3. a.id = b.id /\ d.id = c.id
      BY <2>1, <2>2
    <2>4. CASE a.id = d.id
      BY <2>1, <2>2, <2>4 DEF AccountsTyped
    <2>5. CASE a.id # d.id /\ b.email = c.email
      <3>1. a.email # d.email
        BY <2>5 DEF AccountsTyped
      <3>2. a.id = i => c = d /\ d \in Others(i)
        BY <2>2, <2>5 DEF Others
      <3>3. d.id = i => b = a /\ a \in Others(i)
        BY <2>1, <2>5 DEF Others
      <3>. QED
        BY <2>1, <2>2, <2>5, <3>1, <3>2, <3>3
    <2>. QED
      BY <1>3, <2>3, <2>4, <2>5
  <1>4. accounts' \subseteq AccountRow
    BY <1>1 DEF AccountsTyped
  <1>5. AccountsTyped'
    BY <1>3, <1>4 DEF AccountsTyped
  <1>6. ContactProven'
    BY <1>1 DEF ContactProven
  <1>7. Grown
    BY <1>1, <1>2 DEF Grown, ContactProven
  <1>. QED
    BY <1>5, <1>6, <1>7

LEMMA MarkingGrows ==
    ASSUME AccountsTyped, ContactProven, NEW i, NEW t \in Contact,
           proven \subseteq proven', t \in proven',
           \A a \in accounts : a.id = i => ContactOf(a, t) \in {t} \cup proven,
           accounts' = MarkVerified(i, Kind(t))
    PROVE  AccountsTyped' /\ ContactProven' /\ Grown
  <1>. DEFINE new == [a \in accounts |-> [a EXCEPT !.verified = @ \cup {Kind(t)}]]
  <1>1. accounts' = {IF a.id = i THEN new[a] ELSE a : a \in accounts}
    BY DEF MarkVerified
  <1>2. ASSUME NEW a \in accounts, a.id = i
        PROVE  /\ new[a] \in AccountRow /\ new[a].id = i /\ a.verified \subseteq new[a].verified
               /\ "email" \in new[a].verified => new[a].email \in proven'
               /\ "phone" \in new[a].verified => new[a].phone \in proven'
               /\ new[a].email = a.email /\ new[a].phone = a.phone
    <2>1. a \in AccountRow /\ Kind(t) \in {"email", "phone"}
      BY DEF AccountsTyped, Kind
    <2>2. new[a] = [a EXCEPT !.verified = @ \cup {Kind(t)}]
      OBVIOUS
    <2>3. /\ new[a] \in AccountRow /\ new[a].id = i /\ new[a].verified = a.verified \cup {Kind(t)}
          /\ new[a].email = a.email /\ new[a].phone = a.phone
      BY <1>2, <2>1, <2>2 DEF AccountRow
    <2>4. ContactOf(a, t) \in proven'
      BY <1>2
    <2>. HIDE DEF new
    <2>. QED
      BY <2>3, <2>4 DEF ContactProven, ContactOf, Kind
  <1>. HIDE DEF new
  <1>. QED
    BY <1>1, <1>2, ChangedAccountGrows

LEMMA AddingGrows ==
    ASSUME AccountsTyped, ContactProven, NEW i, NEW t \in Contact,
           proven \subseteq proven', t \in proven',
           t \in Email => EmailFree(t, Others(i)),
           accounts' = {IF a.id = i THEN WithContact(a, t) ELSE a : a \in accounts}
    PROVE  AccountsTyped' /\ ContactProven' /\ Grown
  <1>. DEFINE new == [a \in accounts |-> WithContact(a, t)]
  <1>1. accounts' = {IF a.id = i THEN new[a] ELSE a : a \in accounts}
    OBVIOUS
  <1>2. ASSUME NEW a \in accounts, a.id = i
        PROVE  /\ new[a] \in AccountRow /\ new[a].id = i /\ a.verified \subseteq new[a].verified
               /\ "email" \in new[a].verified => new[a].email \in proven'
               /\ "phone" \in new[a].verified => new[a].phone \in proven'
               /\ new[a].email # a.email =>
                     "email" \in new[a].verified /\ \A b \in Others(i) : b.email # new[a].email
               /\ new[a].phone # a.phone => new[a].phone \in proven'
    <2>1. a \in AccountRow /\ new[a] = WithContact(a, t)
      BY DEF AccountsTyped
    <2>2. CASE t \in Email
      <3>1. /\ new[a] \in AccountRow /\ new[a].id = i
            /\ new[a].verified = a.verified \cup {"email"}
            /\ new[a].email = t /\ new[a].phone = a.phone
        BY <1>2, <2>1, <2>2 DEF AccountRow, WithContact
      <3>. HIDE DEF new
      <3>. QED
        BY <2>2, <3>1 DEF ContactProven, EmailFree
    <2>3. CASE t \notin Email
      <3>1. /\ new[a] \in AccountRow /\ new[a].id = i
            /\ new[a].verified = a.verified \cup {"phone"}
            /\ new[a].phone = t /\ new[a].email = a.email
        BY <1>2, <2>1, <2>3 DEF AccountRow, WithContact, Contact
      <3>. HIDE DEF new
      <3>. QED
        BY <2>3, <3>1 DEF ContactProven
    <2>. QED
      BY <2>2, <2>3
  <1>. HIDE DEF new
  <1>. QED
    BY <1>1, <1>2, ChangedAccountGrows

LEMMA UnchangedGrows ==
    ASSUME AccountsTyped, ContactProven, accounts' = accounts, proven \subseteq proven'
    PROVE  AccountsTyped' /\ ContactProven' /\ Grown
  BY DEF AccountsTyped, ContactProven, Grown

LEMMA AccountsGrow ==
    ASSUME IInv, AuthNext
    PROVE  AccountsTyped' /\ ContactProven' /\ Grown /\ proven' \subseteq Contact
  <1>1. AccountsTyped /\ ContactProven /\ proven \subseteq Contact /\ codes \subseteq CodeRow
    BY DEF IInv, AuthTypeOK, AccountsTyped, ContactsOK
  <1>2. \A r \in Caller : call[r].step \in {"register", "verify", "add"} =>
           call[r].op = call[r].step /\ call[r].target \in proven /\ call[r].target \in Contact
    BY <1>1 DEF IInv, ContactsOK, Contacting
  <1>3. ASSUME NEW r \in Caller, RegisterAccount(r)
        PROVE  AccountsTyped' /\ ContactProven' /\ Grown /\ proven' \subseteq Contact
    BY <1>1, <1>2, <1>3, NewAccountGrows, UnchangedGrows DEF RegisterAccount, OnStep
  <1>4. ASSUME NEW r \in Caller, VerifyContact(r)
        PROVE  AccountsTyped' /\ ContactProven' /\ Grown /\ proven' \subseteq Contact
    <2>1. /\ call[r].target \in Contact /\ call[r].target \in proven
          /\ accounts' = MarkVerified(call[r].account, Kind(call[r].target)) /\ proven' = proven
          /\ \A a \in accounts : a.id = call[r].account =>
                ContactOf(a, call[r].target) \in {call[r].target} \cup proven
      BY <1>2, <1>4 DEF VerifyContact, OnStep, IInv, ContactsOK, Contacting, Verifying
    <2>. QED
      BY <1>1, <2>1, MarkingGrows
  <1>5. ASSUME NEW r \in Caller, AddContact(r)
        PROVE  AccountsTyped' /\ ContactProven' /\ Grown /\ proven' \subseteq Contact
    BY <1>1, <1>2, <1>5, AddingGrows, UnchangedGrows DEF AddContact, OnStep
  <1>6. ASSUME NEW r \in Caller, BootstrapMark(r)
        PROVE  AccountsTyped' /\ ContactProven' /\ Grown /\ proven' \subseteq Contact
    <2>1. /\ call[r].target \in Email
          /\ accounts' = MarkVerified(call[r].account, "email")
          /\ proven' = proven \cup {call[r].target}
          /\ \A a \in accounts : a.id = call[r].account => a.email \in {call[r].target} \cup proven
      BY <1>6 DEF BootstrapMark, IInv, ContactsOK, Contacting
    <2>2. call[r].target \in Contact /\ Kind(call[r].target) = "email"
      BY <2>1 DEF Contact, Kind
    <2>3. \A a \in accounts : a.id = call[r].account =>
             ContactOf(a, call[r].target) \in {call[r].target} \cup proven
      BY <2>1 DEF ContactOf
    <2>. QED
      BY <1>1, <2>1, <2>2, <2>3, MarkingGrows
  <1>7. ASSUME NEW r \in Caller, BootstrapRegister(r)
        PROVE  AccountsTyped' /\ ContactProven' /\ Grown /\ proven' \subseteq Contact
    <2>1. call[r].target \in Email
      BY <1>7 DEF BootstrapRegister, OnStep, IInv, BootstrapsOK, Bootstrapping
    <2>2. call[r].target \in Contact /\ NoContact \in Besides(call[r].target)
          /\ \A id \in NextIds : NewAccount(id, call[r].target, NoContact).email = call[r].target
      BY <2>1 DEF Contact, NewAccount, Besides
    <2>3. CASE accounts' = accounts /\ proven' = proven
      BY <1>1, <2>3, UnchangedGrows
    <2>4. ASSUME NEW id \in NextIds, EmailFree(call[r].target, accounts),
                 accounts' = accounts \cup {NewAccount(id, call[r].target, NoContact)},
                 proven' = proven \cup {call[r].target}
          PROVE  AccountsTyped' /\ ContactProven' /\ Grown /\ proven' \subseteq Contact
      BY <1>1, <2>2, <2>4, NewAccountGrows
    <2>. QED
      BY <1>7, <2>3, <2>4 DEF BootstrapRegister
  <1>8. ASSUME NEW r \in Caller, ConsumeCode(r)
        PROVE  AccountsTyped' /\ ContactProven' /\ Grown /\ proven' \subseteq Contact
    <2>1. \A d \in codes : d.target \in Contact
      BY <1>1 DEF CodeRow
    <2>2. proven' = proven \cup {c.target : c \in {d \in codes : d.id = call[r].code}}
          /\ accounts' = accounts
      BY <1>8 DEF ConsumeCode
    <2>3. proven \subseteq proven' /\ proven' \subseteq Contact
      BY <1>1, <2>1, <2>2
    <2>. QED
      BY <1>1, <2>2, <2>3, UnchangedGrows
  <1>9. CASE accounts' = accounts /\ proven' = proven
    BY <1>1, <1>9, UnchangedGrows
  <1>. QED
    BY <1>3, <1>4, <1>5, <1>6, <1>7, <1>8, <1>9
       DEF AuthNext, RequestCode, SaveCode, UseCode, ReadContact, LockCode, Bootstrap, BootstrapFindAgain,
           BootstrapGrant, BootstrapReturns, FailCall, Expire, GrantInBackground, RestartAuth

-----------------------------------------------------------------------------
(* Codes *)

CodesTyped ==
    /\ codes \subseteq CodeRow
    /\ \A c, d \in codes : c.id = d.id => c = d

\* The number of the next code is new, and the next one.
LEMMA CodesCounted ==
    ASSUME NEW S, NEW n \in Nat, IdsOf(S) = 1 .. n, \A c, d \in S : c.id = d.id => c = d
    PROVE  Cardinality(S) = n
  <1>. DEFINE f == [c \in S |-> c.id]
              g == [i \in 1 .. n |-> CHOOSE c \in S : c.id = i]
  <1>1. \A i \in 1 .. n : \E c \in S : c.id = i
    BY DEF IdsOf
  <1>2. \A i \in 1 .. n : g[i] \in S /\ g[i].id = i
    BY <1>1
  <1>3. \A c \in S : c.id \in 1 .. n /\ g[c.id] = c
    BY <1>2 DEF IdsOf
  <1>. HIDE DEF g
  <1>4. g \in [1 .. n -> S]
    BY <1>2 DEF g
  <1>5. g \in Bijection(1 .. n, S)
    BY <1>2, <1>3, <1>4 DEF Bijection, Injection, Surjection, IsInjective
  <1>. QED
    BY <1>5, FS_CountingElements DEF ExistsBijection

\* Codes keep their numbers, targets and purposes, and do not come to life again.
LEMMA CodesFade ==
    ASSUME IInv, NEW new, NEW S,
           \A d \in S : \E c \in codes : d = new[c],
           \A c \in codes : new[c] \in S,
           \A c \in codes :
              /\ new[c] \in CodeRow
              /\ new[c].id = c.id /\ new[c].target = c.target /\ new[c].purpose = c.purpose
              /\ new[c].status = "live" => c.status = "live"
              /\ c.status = "used" => new[c].status = "used"
    PROVE  /\ S \subseteq CodeRow
           /\ \A c, d \in S : c.id = d.id => c = d
           /\ IdsOf(S) = IdsOf(codes)
           /\ \A c, d \in S : c.status = "live" /\ c.target = d.target /\ c.purpose = d.purpose =>
                 d.id <= c.id
           /\ \A i \in CodeId : (\E c \in codes : c.id = i /\ c.status = "used") =>
                 \E c \in S : c.id = i /\ c.status = "used"
  <1>1. \A c, d \in codes : c.id = d.id => c = d
    BY DEF IInv, AuthTypeOK
  <1>2. LatestLive
    BY DEF IInv, CodesOK
  <1>3. IdsOf(S) = IdsOf(codes)
    BY DEF IdsOf
  <1>. QED
    BY <1>1, <1>2, <1>3 DEF LatestLive

\* Codes that fade, and requests that take no row.
LEMMA FadedCodesKept ==
    ASSUME IInv, NEW new, codes' = {new[c] : c \in codes}, spent' = spent,
           \A c \in codes :
              /\ new[c] \in CodeRow
              /\ new[c].id = c.id /\ new[c].target = c.target /\ new[c].purpose = c.purpose
              /\ new[c].status = "live" => c.status = "live"
              /\ c.status = "used" <=> new[c].status = "used",
           \A r \in Caller : call'[r] = call[r] \/ call'[r].step # "locked"
    PROVE  CodesTyped' /\ CodesOK'
  <1>. DEFINE S == codes'
  <1>0. (\A d \in S : \E c \in codes : d = new[c]) /\ \A c \in codes : new[c] \in S
    OBVIOUS
  <1>. HIDE DEF S
  <1>b. \A c \in codes :
              /\ new[c] \in CodeRow
              /\ new[c].id = c.id /\ new[c].target = c.target /\ new[c].purpose = c.purpose
              /\ new[c].status = "live" => c.status = "live"
              /\ c.status = "used" => new[c].status = "used"
    BY Zenon
  <1>a. /\ S \subseteq CodeRow
        /\ \A c, d \in S : c.id = d.id => c = d
        /\ IdsOf(S) = IdsOf(codes)
        /\ \A c, d \in S : c.status = "live" /\ c.target = d.target /\ c.purpose = d.purpose =>
              d.id <= c.id
        /\ \A i \in CodeId : (\E c \in codes : c.id = i /\ c.status = "used") =>
              \E c \in S : c.id = i /\ c.status = "used"
    BY <1>0, <1>b, CodesFade
  <1>1. /\ CodesTyped' /\ IdsOf(codes') = IdsOf(codes) /\ LatestLive'
        /\ \A i \in CodeId : (\E c \in codes : c.id = i /\ c.status = "used") =>
              \E c \in codes' : c.id = i /\ c.status = "used"
    BY <1>a DEF CodesTyped, LatestLive, S
  <1>2. CodesNumbered'
    BY <1>1 DEF IInv, CodesOK, CodesNumbered, IdsOf
  <1>3. SpentIsUsed'
    BY <1>1 DEF IInv, CodesOK, SpentIsUsed
  <1>4. \A c \in codes : new[c] \in codes'
    OBVIOUS
  <1>5. LocksHeld'
    BY <1>4 DEF IInv, CodesOK, LocksHeld, OnStep, Same
  <1>. QED
    BY <1>1, <1>2, <1>3, <1>5 DEF CodesOK

\* An action that leaves the codes, and takes no row.
LEMMA CodesUntouched ==
    ASSUME IInv, codes' = codes, spent' = spent,
           \A r \in Caller : call'[r] = call[r] \/ call'[r].step # "locked"
    PROVE  CodesTyped' /\ CodesOK'
  <1>. DEFINE new == [c \in codes |-> c]
  <1>1. codes' = {new[c] : c \in codes}
    OBVIOUS
  <1>2. \A c \in codes : new[c] = c /\ c \in CodeRow
    BY DEF IInv, AuthTypeOK
  <1>. HIDE DEF new
  <1>. QED
    BY <1>1, <1>2, FadedCodesKept

LEMMA SaveCodeKept ==
    ASSUME IInv, NEW r \in Caller, SaveCode(r)
    PROVE  CodesTyped' /\ CodesOK'
  <1>. DEFINE new == [c \in codes |-> IF Same(c, r) /\ c.status = "live"
                                      THEN [c EXCEPT !.status = "used"] ELSE c]
              S == Replaced(r)
              id == Cardinality(codes) + 1
              row == [id |-> id, target |-> call[r].target, purpose |-> call[r].purpose,
                      status |-> "live"]
  <1>1. codes \subseteq CodeRow /\ call \in [Caller -> CallState]
        /\ \A c, d \in codes : c.id = d.id => c = d
    BY DEF IInv, AuthTypeOK
  <1>2. /\ OnStep(r, "save") /\ id \in CodeId /\ codes' = S \cup {row} /\ spent' = spent
        /\ call' = [call EXCEPT ![r] = NoCall]
        /\ \A c \in codes : Same(c, r) => ~Locked(r, c.id)
    BY DEF SaveCode, Return
  <1>3. (\A d \in S : \E c \in codes : d = new[c]) /\ \A c \in codes : new[c] \in S
    BY DEF Replaced
  <1>4. ASSUME NEW c \in codes
        PROVE  /\ new[c] \in CodeRow
               /\ new[c].id = c.id /\ new[c].target = c.target /\ new[c].purpose = c.purpose
               /\ new[c].status = "live" => c.status = "live" /\ ~Same(c, r)
               /\ c.status = "used" => new[c].status = "used"
               /\ new[c].status = "used" => c.status = "used" \/ Same(c, r)
    BY <1>1 DEF CodeRow
  <1>5. /\ row.id = id /\ row.target = call[r].target /\ row.purpose = call[r].purpose
        /\ row.status = "live" /\ row \in CodeRow
    <2>1. call[r].target \in Contact /\ call[r].purpose \in PURPOSE
      BY <1>1, <1>2 DEF IInv, ContactsOK, Contacting, OnStep, CallState
    <2>. QED
      BY <1>2, <2>1 DEF CodeRow
  <1>. HIDE DEF new, S, row
  <1>6. /\ S \subseteq CodeRow
        /\ \A c, d \in S : c.id = d.id => c = d
        /\ IdsOf(S) = IdsOf(codes)
        /\ \A c, d \in S : c.status = "live" /\ c.target = d.target /\ c.purpose = d.purpose =>
              d.id <= c.id
        /\ \A i \in CodeId : (\E c \in codes : c.id = i /\ c.status = "used") =>
              \E c \in S : c.id = i /\ c.status = "used"
    BY <1>3, <1>4, CodesFade
  <1>7. PICK n \in 0 .. MaxCode : IdsOf(codes) = 1 .. n
    BY DEF IInv, CodesOK, CodesNumbered
  <1>8. n \in Nat /\ id = n + 1 /\ n + 1 \in 0 .. MaxCode
    <2>1. n \in Nat /\ Cardinality(codes) = n
      BY <1>1, <1>7, AuthBounds, CodesCounted
    <2>. QED
      BY <2>1, <1>2, AuthBounds DEF CodeId
  <1>. HIDE DEF id
  <1>9. \A c \in S : c.id \in 1 .. n
    BY <1>6, <1>7 DEF IdsOf
  <1>10. CodesTyped'
    BY <1>2, <1>5, <1>6, <1>8, <1>9 DEF CodesTyped
  <1>11. CodesNumbered'
    <2>1. IdsOf(codes') = IdsOf(S) \cup {n + 1}
      BY <1>2, <1>5, <1>8 DEF IdsOf
    <2>2. IdsOf(codes') = 1 .. (n + 1)
      BY <2>1, <1>6, <1>7, <1>8
    <2>. QED
      BY <1>8, <2>2 DEF CodesNumbered, IdsOf
  <1>12. LatestLive'
    <2>1. \A c \in S : c.target = row.target /\ c.purpose = row.purpose => c.status # "live"
      BY <1>3, <1>4, <1>5 DEF Same
    <2>. QED
      BY <1>2, <1>5, <1>6, <1>8, <1>9, <2>1 DEF LatestLive
  <1>13. SpentIsUsed'
    BY <1>2, <1>6 DEF IInv, CodesOK, SpentIsUsed
  <1>14. LocksHeld'
    <2>1. ASSUME NEW o \in Caller, OnStep(o, "locked")'
          PROVE  /\ call'[o] = call[o] /\ OnStep(o, "locked")
                 /\ (\E c \in codes : c.id = call[o].code /\ Same(c, o) /\ c.status # "used")'
      <3>1. o # r /\ call'[o] = call[o]
        BY <1>1, <1>2, <2>1 DEF OnStep, NoCall
      <3>2. PICK c \in codes : c.id = call[o].code /\ Same(c, o) /\ c.status # "used"
        BY <2>1, <3>1 DEF IInv, CodesOK, LocksHeld, OnStep
      <3>3. ~Same(c, r)
        BY <1>2, <2>1, <3>1, <3>2 DEF Locked, OnStep
      <3>4. new[c] \in codes' /\ new[c].status # "used"
        BY <1>2, <1>3, <1>4, <3>2, <3>3
      <3>. QED
        BY <2>1, <3>1, <3>2, <3>4, <1>4 DEF Same, OnStep
    <2>. QED
      BY <2>1 DEF IInv, CodesOK, LocksHeld
  <1>. QED
    BY <1>10, <1>11, <1>12, <1>13, <1>14 DEF CodesOK

LEMMA ExpireKept ==
    ASSUME IInv, NEW e \in codes, Expire(e)
    PROVE  CodesTyped' /\ CodesOK'
  <1>. DEFINE new == [c \in codes |-> IF c = e THEN [c EXCEPT !.status = "expired"] ELSE c]
  <1>1. e.status = "live" /\ spent' = spent /\ call' = call
        /\ codes' = (codes \ {e}) \cup {[e EXCEPT !.status = "expired"]}
    BY DEF Expire
  <1>2. codes' = {new[c] : c \in codes}
    BY <1>1
  <1>3. ASSUME NEW c \in codes
        PROVE  /\ new[c] \in CodeRow
               /\ new[c].id = c.id /\ new[c].target = c.target /\ new[c].purpose = c.purpose
               /\ new[c].status = "live" => c.status = "live"
               /\ c.status = "used" <=> new[c].status = "used"
    BY <1>1 DEF IInv, AuthTypeOK, CodeRow
  <1>. HIDE DEF new
  <1>. QED
    BY <1>1, <1>2, <1>3, FadedCodesKept

\* A request takes the row of a code that can be used.
LEMMA RowTaken ==
    ASSUME IInv, NEW r \in Caller, NEW q, Usable(q), ~Locked(r, q.code),
           codes' = codes, spent' = spent, q.code = call'[r].code, q.target = call'[r].target,
           q.purpose = call'[r].purpose, \A o \in Caller \ {r} : call'[o] = call[o]
    PROVE  CodesTyped' /\ CodesOK'
  <1>1. PICK c \in codes : Selected(c, q) /\ c.status = "live"
    BY DEF Usable
  <1>2. c \in codes' /\ c.id = call'[r].code /\ Same(c, r)' /\ c.status # "used"
    BY <1>1 DEF Selected, Same
  <1>3. LocksHeld'
    BY <1>2 DEF IInv, CodesOK, LocksHeld, Locked, OnStep, Same
  <1>. QED
    BY <1>3 DEF IInv, AuthTypeOK, CodesTyped, CodesOK, CodesNumbered, IdsOf, SpentIsUsed, LatestLive

LEMMA UseCodeKept ==
    ASSUME IInv, NEW r \in Caller, NEW c, NEW op, NEW t, NEW a, UseCode(r, Presented(c, op, t, a))
    PROVE  CodesTyped' /\ CodesOK'
  <1>. DEFINE q == Presented(c, op, t, a)
  <1>1. /\ call \in [Caller -> CallState] /\ ~Locked(r, q.code) /\ Usable(q)
        /\ call' = [call EXCEPT ![r] = [q EXCEPT !.step = "locked"]]
        /\ codes' = codes /\ spent' = spent
    BY DEF IInv, AuthTypeOK, UseCode, Called
  <1>2. LET p == [q EXCEPT !.step = "locked"]
        IN  p.code = q.code /\ p.target = q.target /\ p.purpose = q.purpose
    BY DEF Presented
  <1>. HIDE DEF q
  <1>. QED
    BY <1>1, <1>2, RowTaken

LEMMA LockCodeKept ==
    ASSUME IInv, NEW r \in Caller, LockCode(r)
    PROVE  CodesTyped' /\ CodesOK'
  <1>1. call \in [Caller -> CallState] /\ codes' = codes /\ spent' = spent /\ ~Locked(r, call[r].code)
    BY DEF IInv, AuthTypeOK, LockCode
  <1>2. CASE Return(r)
    BY <1>1, <1>2, CodesUntouched DEF Return, NoCall
  <1>3. CASE call' = Advance(r, "locked") /\ Usable(call[r])
    <2>1. \A o \in Caller \ {r} : call'[o] = call[o]
      BY <1>1, <1>3 DEF Advance
    <2>2. /\ call[r].code = call'[r].code /\ call[r].target = call'[r].target
          /\ call[r].purpose = call'[r].purpose
      BY <1>1, <1>3 DEF Advance, CallState
    <2>. QED
      BY <1>1, <1>3, <2>1, <2>2, RowTaken
  <1>. QED
    BY <1>2, <1>3 DEF LockCode

LEMMA ConsumeCodeKept ==
    ASSUME IInv, NEW r \in Caller, ConsumeCode(r)
    PROVE  CodesTyped' /\ CodesOK' /\ spent' \in [CodeId -> Nat] /\ call[r].target \in proven'
  <1>. DEFINE i == call[r].code
              new == [c \in codes |-> IF c.id = i THEN [c EXCEPT !.status = "used"] ELSE c]
              S == codes'
  <1>1. /\ codes \subseteq CodeRow /\ call \in [Caller -> CallState] /\ spent \in [CodeId -> Nat]
        /\ \A c, d \in codes : c.id = d.id => c = d
    BY DEF IInv, AuthTypeOK
  <1>2. /\ OnStep(r, "locked") /\ spent' = [spent EXCEPT ![i] = @ + 1]
        /\ call' = [call EXCEPT ![r].step = call[r].op]
        /\ proven' = proven \cup {c.target : c \in {d \in codes : d.id = i}}
    BY DEF ConsumeCode, Advance
  <1>3. (\A d \in S : \E c \in codes : d = new[c]) /\ \A c \in codes : new[c] \in S
    BY DEF ConsumeCode
  <1>4. ASSUME NEW c \in codes
        PROVE  /\ new[c] \in CodeRow
               /\ new[c].id = c.id /\ new[c].target = c.target /\ new[c].purpose = c.purpose
               /\ new[c].status = "live" => c.status = "live"
               /\ c.status = "used" => new[c].status = "used"
               /\ c.id = i => new[c].status = "used"
               /\ c.id # i => new[c] = c
    BY <1>1 DEF CodeRow
  <1>5. PICK mine \in codes : mine.id = i /\ Same(mine, r) /\ mine.status # "used"
    BY <1>2 DEF IInv, CodesOK, LocksHeld
  <1>6. i \in CodeId /\ spent[i] = 0
    BY <1>1, <1>5 DEF CodeRow, IInv, CodesOK, SpentIsUsed
  <1>7. call'[r].step # "locked" /\ \A o \in Caller \ {r} : call'[o] = call[o]
    BY <1>1, <1>2 DEF CallState
  <1>. HIDE DEF new, S
  <1>8. /\ S \subseteq CodeRow
        /\ \A c, d \in S : c.id = d.id => c = d
        /\ IdsOf(S) = IdsOf(codes)
        /\ \A c, d \in S : c.status = "live" /\ c.target = d.target /\ c.purpose = d.purpose =>
              d.id <= c.id
        /\ \A j \in CodeId : (\E c \in codes : c.id = j /\ c.status = "used") =>
              \E c \in S : c.id = j /\ c.status = "used"
    BY <1>3, <1>4, CodesFade
  <1>9. CodesTyped' /\ CodesNumbered' /\ LatestLive'
    BY <1>8 DEF CodesTyped, IInv, CodesOK, CodesNumbered, IdsOf, LatestLive, S
  <1>10. SpentIsUsed'
    <2>1. ASSUME NEW j \in CodeId, spent'[j] # 0
          PROVE  spent'[j] = 1 /\ \E c \in S : c.id = j /\ c.status = "used"
      <3>1. CASE j = i
        BY <3>1, <1>1, <1>2, <1>3, <1>4, <1>5, <1>6
      <3>2. CASE j # i
        BY <2>1, <3>2, <1>1, <1>2, <1>8 DEF IInv, CodesOK, SpentIsUsed
      <3>. QED
        BY <3>1, <3>2
    <2>. QED
      BY <2>1 DEF SpentIsUsed, S
  <1>11. LocksHeld'
    <2>1. ASSUME NEW o \in Caller, OnStep(o, "locked")'
          PROVE  /\ call'[o] = call[o] /\ OnStep(o, "locked")
                 /\ (\E c \in codes : c.id = call[o].code /\ Same(c, o) /\ c.status # "used")'
      <3>1. o # r /\ call'[o] = call[o] /\ OnStep(o, "locked")
        BY <1>7, <2>1 DEF OnStep
      <3>2. PICK c \in codes : c.id = call[o].code /\ Same(c, o) /\ c.status # "used"
        BY <3>1 DEF IInv, CodesOK, LocksHeld
      <3>3. c.id # i
        BY <1>2, <3>1, <3>2 DEF IInv, CodesOK, LocksHeld
      <3>4. c \in codes'
        BY <1>3, <1>4, <3>2, <3>3 DEF S
      <3>. QED
        BY <3>1, <3>2, <3>4 DEF Same
    <2>. QED
      BY <2>1 DEF IInv, CodesOK, LocksHeld
  <1>12. call[r].target \in proven'
    BY <1>2, <1>5 DEF Same
  <1>13. spent' \in [CodeId -> Nat]
    BY <1>1, <1>2, <1>6
  <1>. QED
    BY <1>9, <1>10, <1>11, <1>12, <1>13 DEF CodesOK

\* Only a code's own actions change codes or take one.
LEMMA CodesKept ==
    ASSUME IInv, AuthNext
    PROVE  CodesTyped' /\ CodesOK' /\ spent' \in [CodeId -> Nat]
  <1>1. spent \in [CodeId -> Nat] /\ call \in [Caller -> CallState]
    BY DEF IInv, AuthTypeOK
  <1>2. spent' \in [CodeId -> Nat]
    <2>1. \A r \in Caller : ConsumeCode(r) => spent' \in [CodeId -> Nat]
      BY ConsumeCodeKept
    <2>2. (\A r \in Caller : ~ConsumeCode(r)) => spent' = spent
      BY DEF AuthNext, RequestCode, SaveCode, UseCode, ReadContact, LockCode, RegisterAccount,
             VerifyContact, AddContact, Bootstrap, BootstrapMark, BootstrapRegister, BootstrapFindAgain,
             BootstrapGrant, BootstrapReturns, FailCall, Expire, GrantInBackground, RestartAuth
    <2>. QED
      BY <1>1, <2>1, <2>2
  <1>3. ASSUME codes' = codes, spent' = spent, NEW r \in Caller,
               \/ \E t \in Contact, p \in PURPOSE : RequestCode(r, t, p)
               \/ \E c \in CodeId, a \in accounts : \E t \in OwnContacts(a) : ReadContact(r, c, t, a.id)
               \/ \E e \in Email : Bootstrap(r, e)
        PROVE  CodesTyped' /\ CodesOK'
    <2>1. \E c : c.step # "locked" /\ call' = [call EXCEPT ![r] = c]
      BY <1>3 DEF RequestCode, ReadContact, Presented, Bootstrap, Called, NoCall
    <2>. QED
      BY <1>1, <1>3, <2>1, CodesUntouched
  <1>4. ASSUME codes' = codes, spent' = spent, NEW r \in Caller,
               \/ RegisterAccount(r) \/ VerifyContact(r) \/ AddContact(r)
               \/ BootstrapMark(r) \/ BootstrapRegister(r) \/ BootstrapFindAgain(r)
               \/ BootstrapGrant(r) \/ BootstrapReturns(r) \/ FailCall(r)
        PROVE  CodesTyped' /\ CodesOK'
    <2>1. \A o \in Caller : call'[o] = call[o] \/ call'[o].step # "locked"
      <3>1. CASE Return(r)
        BY <1>1, <3>1 DEF Return, NoCall
      <3>2. CASE \E s \in {"grant", "done", "refind"} : call' = Advance(r, s)
        BY <1>1, <3>2 DEF Advance, CallState
      <3>3. CASE \E i : call' = [call EXCEPT ![r].step = "grant", ![r].account = i]
        BY <1>1, <3>3 DEF CallState
      <3>. QED
        BY <1>4, <3>1, <3>2, <3>3 DEF RegisterAccount, VerifyContact, AddContact, BootstrapMark,
           BootstrapRegister, BootstrapFindAgain, BootstrapGrant, BootstrapReturns, FailCall
    <2>. QED
      BY <1>4, <2>1, CodesUntouched
  <1>5. (\E a \in AccountId : GrantInBackground(a)) \/ RestartAuth => CodesTyped' /\ CodesOK'
    BY CodesUntouched DEF GrantInBackground, RestartAuth, NoCall
  <1>6. \A r \in Caller :
           /\ \A t \in Contact, p \in PURPOSE : RequestCode(r, t, p) => codes' = codes /\ spent' = spent
           /\ \A c, t, a : ReadContact(r, c, t, a) => codes' = codes /\ spent' = spent
           /\ \A e : Bootstrap(r, e) => codes' = codes /\ spent' = spent
           /\ RegisterAccount(r) \/ VerifyContact(r) \/ AddContact(r)
              \/ BootstrapMark(r) \/ BootstrapRegister(r) \/ BootstrapFindAgain(r)
              \/ BootstrapGrant(r) \/ BootstrapReturns(r) \/ FailCall(r)
                 => codes' = codes /\ spent' = spent
    BY DEF RequestCode, ReadContact, RegisterAccount, VerifyContact, AddContact, Bootstrap,
           BootstrapMark, BootstrapRegister, BootstrapFindAgain, BootstrapGrant, BootstrapReturns,
           FailCall
  <1>. QED
    BY <1>2, <1>3, <1>4, <1>5, <1>6, SaveCodeKept, UseCodeKept, LockCodeKept, ConsumeCodeKept,
       ExpireKept
       DEF AuthNext

-----------------------------------------------------------------------------
(* Balances and requests *)

LEMMA BalancesKept ==
    ASSUME IInv, AuthNext
    PROVE  /\ owed' \subseteq IdsOf(accounts') /\ grants' \in [AccountId -> Nat]
           /\ \A i \in AccountId : grants'[i] \in {0, 1} /\ (grants[i] = 1 => grants'[i] = 1)
  <1>1. /\ owed \subseteq IdsOf(accounts) /\ grants \in [AccountId -> Nat]
        /\ \A i \in AccountId : grants[i] \in {0, 1}
    BY DEF IInv, AuthTypeOK, IdsOf, BootstrapsOK
  <1>2. IdsOf(accounts) \subseteq IdsOf(accounts')
    BY AccountsGrow DEF Grown, IdsOf
  <1>3. owed' \subseteq IdsOf(accounts')
    <2>1. ASSUME NEW r \in Caller, RegisterAccount(r)
          PROVE  owed' \subseteq IdsOf(accounts')
      <3>1. ASSUME NEW id \in NextIds, NEW other,
                   accounts' = accounts \cup {NewAccount(id, call[r].target, other)},
                   owed' = owed \cup {id}
            PROVE  owed' \subseteq IdsOf(accounts')
        <4>1. NewAccount(id, call[r].target, other) \in accounts'
              /\ NewAccount(id, call[r].target, other).id = id
          BY <3>1 DEF NewAccount
        <4>. QED
          BY <1>1, <1>2, <3>1, <4>1 DEF IdsOf
      <3>. QED
        BY <1>1, <1>2, <2>1, <3>1 DEF RegisterAccount
    <2>2. (\A r \in Caller : ~RegisterAccount(r)) => owed' \subseteq owed
      BY DEF AuthNext, RequestCode, SaveCode, UseCode, ReadContact, LockCode, ConsumeCode,
             VerifyContact, AddContact, Bootstrap, BootstrapMark, BootstrapRegister, BootstrapFindAgain,
             BootstrapGrant, BootstrapReturns, FailCall, Expire, GrantInBackground, RestartAuth
    <2>. QED
      BY <1>1, <1>2, <2>1, <2>2
  <1>4. grants' = grants \/ \E a : grants' = Granted(a)
    BY DEF AuthNext, RequestCode, SaveCode, UseCode, ReadContact, LockCode, ConsumeCode,
           RegisterAccount, VerifyContact, AddContact, Bootstrap, BootstrapMark, BootstrapRegister,
           BootstrapFindAgain, BootstrapGrant, BootstrapReturns, FailCall, Expire,
           GrantInBackground, RestartAuth
  <1>. QED
    BY <1>1, <1>3, <1>4 DEF Granted

\* What a request relies on stays, whatever the others do.
LEMMA RequestKept ==
    ASSUME IInv, AuthNext, NEW r \in Caller, call'[r] = call[r]
    PROVE  Contacting(r)' /\ Bootstrapping(r)'
  <1>1. Contacting(r) /\ Bootstrapping(r) /\ accounts \subseteq AccountRow
    BY DEF IInv, AuthTypeOK, ContactsOK, BootstrapsOK
  <1>2. Grown
    BY AccountsGrow
  <1>3. \A i \in AccountId : grants[i] = 1 => grants'[i] = 1
    BY BalancesKept
  <1>4. \A a \in accounts : a.id \in AccountId /\ a.id \notin FreeIds
    BY <1>1 DEF AccountRow, FreeIds
  <1>5. \A b \in accounts' : (\E a \in accounts : a.id = b.id) =>
           \E a \in accounts :
              /\ a.id = b.id /\ a.verified \subseteq b.verified
              /\ b.email # a.email => b.email \in proven'
              /\ b.phone # a.phone => b.phone \in proven'
    BY <1>2, <1>4 DEF Grown
  <1>6. Contacting(r)'
    BY <1>1, <1>2, <1>5 DEF Contacting, Grown, OnStep, Verifying, ContactOf
  <1>7. \A i : HasProof(i) => HasProof(i)' /\ i \in AccountId
    BY <1>2, <1>4 DEF Grown, HasProof
  <1>8. call[r].step \in {"insert", "refind"} =>
           \A b \in accounts' : b.email = call[r].target => b.verified # {}
    <2>1. \A b \in accounts' : b.verified # {} \/ \E a \in accounts : a.email = b.email /\ a.verified = {}
      <3>1. ASSUME NEW b \in accounts', b.verified = {}
            PROVE  \E a \in accounts : a.email = b.email /\ a.verified = {}
        <4>1. PICK a \in accounts : a.verified \subseteq b.verified
                                   /\ (b.email # a.email => "email" \in b.verified)
          BY <1>2, <3>1 DEF Grown
        <4>. QED
          BY <3>1, <4>1
      <3>. QED
        BY <3>1
    <2>. QED
      BY <1>1, <2>1 DEF Bootstrapping
  <1>. QED
    BY <1>1, <1>3, <1>6, <1>7, <1>8 DEF Bootstrapping, OnStep

LEMMA ReturnKept ==
    ASSUME IInv, NEW r \in Caller, call'[r] = NoCall
    PROVE  Contacting(r)' /\ Bootstrapping(r)'
  BY DEF Contacting, Bootstrapping, OnStep, Verifying, NoCall

\* What the actions make of the request that takes them.
LEMMA RequestBegins ==
    ASSUME IInv, AuthNext, NEW r \in Caller,
           \/ \E t \in Contact, p \in PURPOSE : RequestCode(r, t, p)
           \/ \E c \in CodeId, t \in Contact : UseCode(r, Presented(c, "register", t, Nobody))
           \/ \E c \in CodeId, a \in accounts :
                 \/ \E t \in OwnContacts(a) : ReadContact(r, c, t, a.id)
                 \/ \E t \in Contact : UseCode(r, Presented(c, "add", t, a.id))
           \/ \E e \in Email : Bootstrap(r, e)
    PROVE  /\ \A s \in Caller \ {r} : call'[s] = call[s]
           /\ Contacting(r)' /\ Bootstrapping(r)'
  <1>1. call \in [Caller -> CallState] /\ accounts \subseteq AccountRow
        /\ \A a, b \in accounts : a.id = b.id \/ a.email = b.email => a = b
    BY DEF IInv, AuthTypeOK
  <1>2. ASSUME NEW t \in Contact, NEW p \in PURPOSE, RequestCode(r, t, p)
        PROVE  /\ \A s \in Caller \ {r} : call'[s] = call[s]
               /\ Contacting(r)' /\ Bootstrapping(r)'
    <2>1. call' = [call EXCEPT ![r] = [NoCall EXCEPT !.step = "save", !.purpose = p, !.target = t]]
      BY <1>2 DEF RequestCode, Called
    <2>2. call'[r].step = "save" /\ call'[r].target = t /\ call'[r].op = "register"
      BY <1>1, <2>1 DEF NoCall
    <2>. QED
      BY <1>1, <2>1, <2>2 DEF Contacting, Bootstrapping, OnStep
  <1>3. ASSUME NEW c, NEW op \in {"register", "add"}, NEW t \in Contact, NEW a,
               UseCode(r, Presented(c, op, t, a))
        PROVE  /\ \A s \in Caller \ {r} : call'[s] = call[s]
               /\ Contacting(r)' /\ Bootstrapping(r)'
    <2>1. /\ call'[r].step = "locked" /\ call'[r].target = t /\ call'[r].op = op
          /\ \A s \in Caller \ {r} : call'[s] = call[s]
      BY <1>1, <1>3 DEF UseCode, Called, Presented
    <2>. QED
      BY <2>1 DEF Contacting, Bootstrapping, OnStep
  <1>5. ASSUME NEW c, NEW b \in accounts, NEW t \in OwnContacts(b), ReadContact(r, c, t, b.id)
        PROVE  /\ \A s \in Caller \ {r} : call'[s] = call[s]
               /\ Contacting(r)' /\ Bootstrapping(r)'
    <2>1. /\ call'[r].step = "lock" /\ call'[r].target = t /\ call'[r].op = "verify"
          /\ call'[r].account = b.id /\ accounts' = accounts
          /\ \A s \in Caller \ {r} : call'[s] = call[s]
      BY <1>1, <1>5 DEF ReadContact, Called, Presented
    <2>2. t \in Contact /\ \A a \in accounts : a.id = b.id => ContactOf(a, t) = t
      BY <1>1, AuthContacts DEF OwnContacts, ContactOf, AccountRow, Contact
    <2>. QED
      BY <2>1, <2>2 DEF Contacting, Bootstrapping, OnStep
  <1>4. ASSUME NEW e \in Email, Bootstrap(r, e)
        PROVE  /\ \A s \in Caller \ {r} : call'[s] = call[s]
               /\ Contacting(r)' /\ Bootstrapping(r)'
    <2>1. accounts' = accounts
      BY <1>4 DEF Bootstrap
    <2>2. ASSUME NEW a \in accounts, a.email = e,
                 call' = [call EXCEPT ![r] = [NoCall EXCEPT !.step = "found", !.target = e, !.account = a.id]]
          PROVE  /\ \A s \in Caller \ {r} : call'[s] = call[s]
                 /\ Contacting(r)' /\ Bootstrapping(r)'
      <3>1. /\ call'[r].step = "found" /\ call'[r].target = e /\ call'[r].op = "register"
            /\ call'[r].account = a.id
        BY <1>1, <2>2 DEF NoCall
      <3>. QED
        BY <1>1, <2>1, <2>2, <3>1 DEF Contacting, Bootstrapping, OnStep
    <2>3. ASSUME EmailFree(e, accounts),
                 call' = [call EXCEPT ![r] = [NoCall EXCEPT !.step = "insert", !.target = e]]
          PROVE  /\ \A s \in Caller \ {r} : call'[s] = call[s]
                 /\ Contacting(r)' /\ Bootstrapping(r)'
      <3>1. call'[r].step = "insert" /\ call'[r].target = e /\ call'[r].op = "register"
        BY <1>1, <2>3 DEF NoCall
      <3>. QED
        BY <1>1, <2>1, <2>3, <3>1 DEF Contacting, Bootstrapping, OnStep, EmailFree
    <2>. QED
      BY <1>4, <2>2, <2>3 DEF Bootstrap, Called
  <1>. QED
    BY <1>2, <1>3, <1>4, <1>5

LEMMA RequestGoesOn ==
    ASSUME IInv, AuthNext, NEW r \in Caller,
           \/ SaveCode(r) \/ LockCode(r) \/ ConsumeCode(r) \/ RegisterAccount(r) \/ VerifyContact(r)
           \/ AddContact(r) \/ BootstrapMark(r) \/ BootstrapRegister(r) \/ BootstrapFindAgain(r)
           \/ BootstrapGrant(r) \/ BootstrapReturns(r) \/ FailCall(r)
    PROVE  /\ \A s \in Caller \ {r} : call'[s] = call[s]
           /\ Contacting(r)' /\ Bootstrapping(r)'
  <1>. DEFINE Goal == /\ \A s \in Caller \ {r} : call'[s] = call[s]
                      /\ Contacting(r)' /\ Bootstrapping(r)'
  <1>1. call \in [Caller -> CallState] /\ accounts \subseteq AccountRow
        /\ grants \in [AccountId -> Nat]
        /\ \A a, b \in accounts : a.id = b.id \/ a.email = b.email => a = b
    BY DEF IInv, AuthTypeOK
  <1>2. Contacting(r) /\ Bootstrapping(r)
    BY DEF IInv, ContactsOK, BootstrapsOK
  <1>3. ASSUME Return(r) PROVE Goal
    <2>1. call'[r] = NoCall /\ \A s \in Caller \ {r} : call'[s] = call[s]
      BY <1>1, <1>3 DEF Return
    <2>. QED
      BY <2>1, ReturnKept
  <1>4. ASSUME NEW st, call' = Advance(r, st)
        PROVE  /\ \A s \in Caller \ {r} : call'[s] = call[s]
               /\ call'[r].step = st /\ call'[r].op = call[r].op
               /\ call'[r].target = call[r].target /\ call'[r].account = call[r].account
    BY <1>1, <1>4 DEF Advance, CallState
  <1>5. ASSUME NEW i, call' = [call EXCEPT ![r].step = "grant", ![r].account = i], HasProof(i)'
        PROVE  Goal
    <2>1. /\ call'[r].step = "grant" /\ call'[r].account = i
          /\ \A s \in Caller \ {r} : call'[s] = call[s]
      BY <1>1, <1>5 DEF CallState
    <2>2. Contacting(r)'
      BY <2>1 DEF Contacting, OnStep, Verifying
    <2>. QED
      BY <1>5, <2>1, <2>2 DEF Bootstrapping, OnStep
  <1>6. ASSUME LockCode(r) PROVE Goal
    <2>1. CASE call' = Advance(r, "locked") /\ OnStep(r, "lock") /\ accounts' = accounts /\ proven' = proven
      <3>1. Contacting(r)'
        BY <1>2, <1>4, <2>1 DEF Contacting, OnStep, Verifying, ContactOf
      <3>. QED
        BY <1>4, <2>1, <3>1 DEF Bootstrapping, OnStep
    <2>. QED
      BY <1>3, <1>6, <2>1 DEF LockCode
  <1>7. ASSUME ConsumeCode(r) PROVE Goal
    <2>1. /\ call' = Advance(r, call[r].op) /\ OnStep(r, "locked") /\ accounts' = accounts
          /\ proven \subseteq proven' /\ call[r].target \in proven'
      BY <1>7, ConsumeCodeKept DEF ConsumeCode
    <2>2. call[r].op \in {"register", "verify", "add"}
      BY <1>1 DEF CallState
    <2>3. Contacting(r)'
      BY <1>2, <1>4, <2>1, <2>2 DEF Contacting, OnStep, Verifying, ContactOf
    <2>. QED
      BY <1>4, <2>1, <2>2, <2>3 DEF Bootstrapping, OnStep
  <1>8. ASSUME BootstrapMark(r) PROVE Goal
    <2>1. PICK a \in accounts : a.id = call[r].account
      BY <1>2, <1>8 DEF Contacting, BootstrapMark
    <2>2. [a EXCEPT !.verified = @ \cup {"email"}] \in accounts'
      BY <1>8, <2>1 DEF BootstrapMark, MarkVerified
    <2>3. a \in AccountRow
      BY <1>1
    <2>4. \E b \in accounts' : b.id = call[r].account /\ "email" \in b.verified
      BY <2>1, <2>2, <2>3 DEF AccountRow
    <2>5. call' = Advance(r, "grant")
      BY <1>8 DEF BootstrapMark
    <2>6. Contacting(r)'
      BY <1>4, <2>5 DEF Contacting, OnStep, Verifying
    <2>. QED
      BY <1>4, <2>4, <2>5, <2>6 DEF Bootstrapping, OnStep, HasProof
  <1>9. ASSUME BootstrapRegister(r) PROVE Goal
    <2>1. OnStep(r, "insert") /\ call[r].target \in Email
      BY <1>2, <1>9 DEF BootstrapRegister, Bootstrapping, OnStep
    <2>2. ASSUME NEW id \in NextIds,
                 accounts' = accounts \cup {NewAccount(id, call[r].target, NoContact)},
                 call' = [call EXCEPT ![r].step = "grant", ![r].account = id]
          PROVE  Goal
      <3>. DEFINE row == NewAccount(id, call[r].target, NoContact)
      <3>0. row \in accounts' /\ row.id = id /\ row.verified = {"email"}
        BY <2>1, <2>2 DEF NewAccount, Kind
      <3>. HIDE DEF row
      <3>1. HasProof(id)'
        BY <3>0 DEF HasProof
      <3>. QED
        BY <1>5, <2>2, <3>1
    <2>3. CASE call' = Advance(r, "refind") /\ accounts' = accounts
      <3>1. Contacting(r)'
        BY <1>4, <2>3 DEF Contacting, OnStep, Verifying
      <3>. QED
        BY <1>2, <1>4, <2>1, <2>3, <3>1 DEF Bootstrapping, OnStep
    <2>. QED
      BY <1>9, <2>2, <2>3 DEF BootstrapRegister
  <1>10. ASSUME BootstrapFindAgain(r) PROVE Goal
    <2>1. /\ OnStep(r, "refind") /\ accounts' = accounts
          /\ Return(r) \/ \E a \in accounts :
                             /\ a.email = call[r].target
                             /\ call' = [call EXCEPT ![r].step = "grant", ![r].account = a.id]
      BY <1>10 DEF BootstrapFindAgain
    <2>2. ASSUME NEW a \in accounts, a.email = call[r].target,
                 call' = [call EXCEPT ![r].step = "grant", ![r].account = a.id]
          PROVE  Goal
      <3>1. HasProof(a.id)'
        BY <1>2, <2>1, <2>2 DEF HasProof, Bootstrapping, OnStep
      <3>. QED
        BY <1>5, <2>2, <3>1
    <2>. QED
      BY <1>3, <2>1, <2>2
  <1>11. ASSUME BootstrapGrant(r) PROVE Goal
    <2>1. /\ OnStep(r, "grant") /\ grants' = Granted(call[r].account) /\ accounts' = accounts
          /\ call' = Advance(r, "done") \/ Return(r)
      BY <1>11 DEF BootstrapGrant
    <2>2. CASE call' = Advance(r, "done")
      <3>1. HasProof(call[r].account) /\ call[r].account \in AccountId
        BY <1>1, <1>2, <2>1 DEF Bootstrapping, OnStep, HasProof, AccountRow
      <3>2. grants'[call[r].account] = 1
        BY <1>1, <2>1, <3>1 DEF Granted
      <3>3. Contacting(r)'
        BY <1>4, <2>2 DEF Contacting, OnStep, Verifying
      <3>. QED
        BY <1>4, <2>1, <2>2, <3>1, <3>2, <3>3 DEF Bootstrapping, OnStep, HasProof
    <2>. QED
      BY <1>3, <2>1, <2>2
  <1>12. CASE Return(r)
    BY <1>3, <1>12
  <1>. QED
    BY <1>6, <1>7, <1>8, <1>9, <1>10, <1>11, <1>12
       DEF SaveCode, RegisterAccount, VerifyContact, AddContact, BootstrapReturns, FailCall

-----------------------------------------------------------------------------
(* The invariant *)

LEMMA InitIInv == AuthInit => IInv
  <1>. SUFFICES ASSUME AuthInit PROVE IInv
    OBVIOUS
  <1>1. PICK e \in Email : accounts \in {{}, {Legacy(e)}}
    BY DEF AuthInit
  <1>2. /\ codes = {} /\ owed = {} /\ proven = {}
        /\ call = [r \in Caller |-> NoCall]
        /\ grants = [a \in AccountId |-> 0] /\ spent = [c \in CodeId |-> 0]
    BY DEF AuthInit
  <1>3. accounts \subseteq {Legacy(e)} /\ Legacy(e).verified = {}
    BY <1>1 DEF Legacy
  <1>4. AuthTypeOK
    <2>1. accounts \subseteq AccountRow
      <3>1. 1 \in AccountId
        BY AuthBounds DEF AccountId
      <3>. QED
        BY <1>1, <3>1 DEF Legacy, AccountRow
    <2>. QED
      BY <1>2, <1>3, <2>1, NoCallTyped DEF AuthTypeOK
  <1>5. CodesOK
    <2>1. IdsOf({}) = 1 .. 0 /\ 0 \in 0 .. MaxCode
      BY AuthBounds DEF IdsOf
    <2>2. CodesNumbered
      BY <1>2, <2>1 DEF CodesNumbered
    <2>. QED
      BY <1>2, <2>2 DEF CodesOK, LocksHeld, SpentIsUsed, LatestLive, OnStep, NoCall
  <1>6. ContactsOK
    BY <1>2, <1>3 DEF ContactsOK, ContactProven, Contacting, OnStep, Verifying, NoCall
  <1>7. BootstrapsOK
    BY <1>2 DEF BootstrapsOK, Bootstrapping, OnStep, NoCall
  <1>. QED
    BY <1>4, <1>5, <1>6, <1>7 DEF IInv

LEMMA NextIInv ==
    ASSUME IInv, [AuthNext]_authVars
    PROVE  IInv'
  <1>1. CASE AuthNext
    <2>1. AccountsTyped' /\ ContactProven' /\ proven' \subseteq Contact
      BY <1>1, AccountsGrow
    <2>2. CodesTyped' /\ CodesOK' /\ spent' \in [CodeId -> Nat]
      BY <1>1, CodesKept
    <2>3. /\ owed' \subseteq IdsOf(accounts') /\ grants' \in [AccountId -> Nat]
          /\ \A i \in AccountId : grants'[i] \in {0, 1}
      BY <1>1, BalancesKept
    <2>4. AuthTypeOK'
      BY <1>1, <2>1, <2>2, <2>3, CallsTyped DEF IInv, AuthTypeOK, AccountsTyped, CodesTyped, IdsOf
    <2>5. \A r \in Caller : Contacting(r)' /\ Bootstrapping(r)'
      <3>1. ASSUME NEW r \in Caller,
                   \A s \in Caller \ {r} : call'[s] = call[s], Contacting(r)' /\ Bootstrapping(r)'
            PROVE  \A s \in Caller : Contacting(s)' /\ Bootstrapping(s)'
        BY <1>1, <3>1, RequestKept
      <3>2. CASE call' = call
        BY <1>1, <3>2, RequestKept
      <3>3. CASE RestartAuth
        BY <3>3, ReturnKept DEF RestartAuth
      <3>4. (\E c \in codes : Expire(c)) \/ (\E a \in AccountId : GrantInBackground(a)) => call' = call
        BY DEF Expire, GrantInBackground
      <3>. QED
        BY <1>1, <3>1, <3>2, <3>3, <3>4, RequestBegins, RequestGoesOn DEF AuthNext
    <2>. QED
      BY <2>1, <2>2, <2>3, <2>4, <2>5 DEF IInv, ContactsOK, BootstrapsOK
  <1>2. CASE UNCHANGED authVars
    BY <1>2 DEF authVars, IInv, AuthTypeOK, CodesOK, CodesNumbered, LocksHeld, SpentIsUsed, LatestLive,
       ContactsOK, ContactProven, Contacting, BootstrapsOK, Bootstrapping, OnStep, Verifying,
       HasProof, Same, ContactOf, IdsOf
  <1>. QED
    BY <1>1, <1>2

LEMMA Inductive == AuthSpec => []IInv
  BY InitIInv, NextIInv, PTL DEF AuthSpec

\* Rows and requests stay well formed, and an email, also the missing one, is of one account,
\* whatever Register, UpdateEmail and the bootstrap insert and update at the same time.
THEOREM AccountsWellFormed == AuthSpec => []AuthTypeOK
  <1>1. IInv => AuthTypeOK
    BY DEF IInv
  <1>. QED
    BY <1>1, Inductive, PTL

\* ConsumeVerificationCode accepts a code once, and only the last one that SaveVerificationCode
\* stored for a target and a purpose, however the requests' statements interleave.
THEOREM CodesSpentOnce == AuthSpec => []SpentOnce
  <1>1. IInv => SpentOnce
    <2>. SUFFICES ASSUME IInv PROVE SpentOnce
      OBVIOUS
    <2>1. \A c \in CodeId : spent[c] <= 1
      BY DEF IInv, AuthTypeOK, CodesOK, SpentIsUsed
    <2>2. \A c, d \in codes : c.id \in Nat /\ (c.id = d.id => c = d)
      BY AuthBounds DEF IInv, AuthTypeOK, CodeRow, CodeId
    <2>3. LatestLive
      BY DEF IInv, CodesOK
    <2>. QED
      BY <2>1, <2>2, <2>3 DEF SpentOnce, LatestLive
  <1>. QED
    BY <1>1, Inductive, PTL

\* What MarkEmailVerified, MarkPhoneVerified, UpdateEmail, UpdatePhone and Register leave as
\* verified came back in a code, or is the local account's, however often a contact is replaced
\* while another request verifies it; the other contact that Register stores is not verified.
THEOREM ContactsAreProven == AuthSpec => []ContactProven
  <1>1. IInv => ContactProven
    BY DEF IInv, ContactsOK
  <1>. QED
    BY <1>1, Inductive, PTL

\* BootstrapLocalUser reports success for an account that has its balance and a verified contact,
\* which need not be the email when a registration took that meanwhile; and no account gets its
\* initial balance twice.
THEOREM BootstrapIsDone == AuthSpec => []BootstrapDone
  <1>1. IInv => BootstrapDone
    BY DEF IInv, BootstrapsOK, Bootstrapping, BootstrapDone, OnStep, HasProof
  <1>. QED
    BY <1>1, Inductive, PTL

=============================================================================
