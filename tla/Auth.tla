--------------------------------- MODULE Auth ---------------------------------
(***************************************************************************)
(* Accounts of the auth service: codes sent to a contact and used once        *)
(* (verification_service), registration, proof and addition of contacts, and  *)
(* the bootstrap of the local account (auth_service), with the initial        *)
(* balance each account gets from the billing service.                       *)
(*                                                                          *)
(* Statements commit one by one; only the use and the replacement of a code   *)
(* are transactions.                                                        *)
(***************************************************************************)
EXTENDS Integers, FiniteSets

CONSTANTS
    Caller,     \* requests that may be served at the same time
    Email,
    Phone,
    NoContact,  \* the column's default ''
    MaxAccount, \* bound: accounts ever created
    MaxCode     \* bound: codes ever sent

Contact == Email \cup Phone
AccountId == 1 .. MaxAccount
CodeId == 1 .. MaxCode
Nobody == 0
NoCode == 0

ASSUME AuthContacts == Email \cap Phone = {} /\ NoContact \notin Contact
\* There is room for the account of an earlier version.
ASSUME AuthBounds == MaxAccount \in Nat \ {0} /\ MaxCode \in Nat

PURPOSE == {"register", "login_verify"}

AccountRow ==
    [id : AccountId, email : Email \cup {NoContact}, phone : Phone \cup {NoContact},
     verified : SUBSET {"email", "phone"}]

\* "live": neither used nor expired.
CodeRow == [id : CodeId, target : Contact, purpose : PURPOSE, status : {"live", "used", "expired"}]

VARIABLES
    accounts,  \* users
    codes,     \* verification_codes
    call,      \* the requests
    owed,      \* accounts whose initBalance runs in the background
    grants,    \* external: recharges of the initial balance, by account
    spent,     \* history: how often a code was accepted
    proven     \* history: contacts of which a code was accepted, or that were bootstrapped

authVars == <<accounts, codes, call, owed, grants, spent, proven>>

CallState ==
    [step : {"none", "save",                                       \* Send...Code
             "lock", "locked", "register", "verify", "add",        \* what a code is used for
             "found", "insert", "refind", "grant", "done"},        \* BootstrapLocalUser
     purpose : PURPOSE, op : {"register", "verify", "add"},
     target : Contact \cup {NoContact}, account : 0 .. MaxAccount, code : 0 .. MaxCode]

NoCall ==
    [step |-> "none", purpose |-> "register", op |-> "register", target |-> NoContact,
     account |-> Nobody, code |-> NoCode]

\* Rows and requests are well formed; an email belongs to one account, and so does no email
\* at all: the unique key covers the default.
AuthTypeOK ==
    /\ accounts \subseteq AccountRow
    /\ codes \subseteq CodeRow
    /\ \A a, b \in accounts : a.id = b.id \/ a.email = b.email => a = b
    /\ \A c, d \in codes : c.id = d.id => c = d
    /\ call \in [Caller -> CallState]
    /\ owed \subseteq {a.id : a \in accounts}
    /\ grants \in [AccountId -> Nat]
    /\ spent \in [CodeId -> Nat]
    /\ proven \subseteq Contact

\* An account of an earlier version: its email is not verified.
Legacy(e) == [id |-> 1, email |-> e, phone |-> NoContact, verified |-> {}]

AuthInit ==
    /\ \E e \in Email : accounts \in {{}, {Legacy(e)}}
    /\ codes = {}
    /\ call = [r \in Caller |-> NoCall]
    /\ owed = {}
    /\ grants = [a \in AccountId |-> 0]
    /\ spent = [c \in CodeId |-> 0]
    /\ proven = {}

-----------------------------------------------------------------------------
OnStep(r, step) == call[r].step = step
Advance(r, step) == [call EXCEPT ![r].step = step]
Return(r) == call' = [call EXCEPT ![r] = NoCall]
Called(r, c) == OnStep(r, "none") /\ call' = [call EXCEPT ![r] = c]

Exists(contact) == \E a \in accounts : contact \in {a.email, a.phone}
Kind(contact) == IF contact \in Email THEN "email" ELSE "phone"
OwnContacts(a) == {a.email, a.phone} \ {NoContact}
Others(a) == {b \in accounts : b.id # a}
FreeIds == AccountId \ {a.id : a \in accounts}

\* AUTO_INCREMENT: the least, as no account is ever deleted.
NextIds == {i \in FreeIds : \A o \in FreeIds : i <= o}

(* Codes *)

\* SendRegisterCode and SendAddContactCode refuse a contact that has an account;
\* SendLoginVerifyCode sends to one the account has.  The limiter refuses a second code within
\* 60 s: any time may have passed, and a restart forgets, so that it excludes no order of steps.
RequestCode(r, target, purpose) ==
    /\ purpose = "login_verify" \/ ~Exists(target)
    /\ Called(r, [NoCall EXCEPT !.step = "save", !.purpose = purpose, !.target = target])
    /\ UNCHANGED <<accounts, codes, owed, grants, spent, proven>>

Same(c, r) == c.target = call[r].target /\ c.purpose = call[r].purpose

\* What SaveVerificationCode makes of the earlier codes.
Replaced(r) ==
    {IF Same(c, r) /\ c.status = "live" THEN [c EXCEPT !.status = "used"] ELSE c : c \in codes}

\* Mutant: SELECT without FOR UPDATE.
NeverLocked(r, c) == FALSE

\* Another request holds the row of code c, by FOR UPDATE.
Locked(r, c) == \E o \in Caller \ {r} : OnStep(o, "locked") /\ call[o].code = c

\* SaveVerificationCode.  Then the code is sent; when that fails, it is stored nevertheless.
SaveCode(r) ==
    LET id == Cardinality(codes) + 1 IN
    /\ OnStep(r, "save")
    /\ id \in CodeId
    /\ \A c \in codes : Same(c, r) => ~Locked(r, c.id)
    /\ codes' = Replaced(r) \cup {[id |-> id, target |-> call[r].target,
                                   purpose |-> call[r].purpose, status |-> "live"]}
    /\ Return(r)
    /\ UNCHANGED <<accounts, owed, grants, spent, proven>>

\* 5 minutes have passed.
Expire(c) ==
    /\ c.status = "live"
    /\ codes' = (codes \ {c}) \cup {[c EXCEPT !.status = "expired"]}
    /\ UNCHANGED <<accounts, call, owed, grants, spent, proven>>

\* A request that presents code c for an operation on a contact and an account.
Presented(c, op, target, a) ==
    [step |-> "lock", purpose |-> IF op = "register" THEN op ELSE "login_verify",
     op |-> op, target |-> target, account |-> a, code |-> c]

\* Mutant: the query forgets the target.
AnyTarget(c, q) == c.id = q.code /\ c.purpose = q.purpose

\* The row ConsumeVerificationCode selects for request q.
Selected(c, q) == c.id = q.code /\ c.target = q.target /\ c.purpose = q.purpose

Usable(q) == \E c \in codes : Selected(c, q) /\ c.status = "live"

\* Register and AddContact begin with VerifyCode, and that with SELECT ... FOR UPDATE: it waits
\* for whoever holds the row.  Where there is no such code, or none that can be used, the
\* request is refused and nothing has changed.
UseCode(r, q) ==
    /\ ~Locked(r, q.code)
    /\ Usable(q)
    /\ Called(r, [q EXCEPT !.step = "locked"])
    /\ UNCHANGED <<accounts, codes, owed, grants, spent, proven>>

\* VerifyContact first reads the contact the account has now ...
ReadContact(r, c, target, a) ==
    /\ c \in {d.id : d \in codes}
    /\ Called(r, Presented(c, "verify", target, a))
    /\ UNCHANGED <<accounts, codes, owed, grants, spent, proven>>

\* ... and then calls VerifyCode.
LockCode(r) ==
    /\ OnStep(r, "lock")
    /\ ~Locked(r, call[r].code)
    /\ IF Usable(call[r]) THEN call' = Advance(r, "locked") ELSE Return(r)
    /\ UNCHANGED <<accounts, codes, owed, grants, spent, proven>>

\* UPDATE ... used = 1, and commit.
ConsumeCode(r) ==
    /\ OnStep(r, "locked")
    /\ codes' = {IF c.id = call[r].code THEN [c EXCEPT !.status = "used"] ELSE c : c \in codes}
    /\ spent' = [spent EXCEPT ![call[r].code] = @ + 1]
    /\ proven' = proven \cup {c.target : c \in {d \in codes : d.id = call[r].code}}
    /\ call' = Advance(r, call[r].op)
    /\ UNCHANGED <<accounts, owed, grants>>

(* Accounts *)

\* Both contacts are stored, and the one of the chosen method counts as verified.
NewAccount(id, target, other) ==
    [id |-> id, verified |-> {Kind(target)},
     email |-> IF target \in Email THEN target ELSE other,
     phone |-> IF target \in Email THEN other ELSE target]

\* What the request may give besides its target: nothing, or a contact of the other kind.
Besides(target) == {NoContact} \cup (IF target \in Email THEN Phone ELSE Email)

\* uk_users_email
EmailFree(e, others) == \A a \in others : a.email # e

\* UserRepo.Register, for a code; the initial balance follows in the background.  The request
\* came with the other contact; it is first looked at here.
RegisterAccount(r) ==
    /\ OnStep(r, "register")
    /\ \E id \in NextIds, other \in Besides(call[r].target) :
          LET row == NewAccount(id, call[r].target, other) IN
          IF EmailFree(row.email, accounts)
          THEN accounts' = accounts \cup {row} /\ owed' = owed \cup {id}
          ELSE UNCHANGED <<accounts, owed>>
    /\ Return(r)
    /\ UNCHANGED <<codes, grants, spent, proven>>

\* MarkEmailVerified, MarkPhoneVerified: of whatever the account has by now.
MarkVerified(a, kind) ==
    {IF b.id = a THEN [b EXCEPT !.verified = @ \cup {kind}] ELSE b : b \in accounts}

VerifyContact(r) ==
    /\ OnStep(r, "verify")
    /\ accounts' = MarkVerified(call[r].account, Kind(call[r].target))
    /\ Return(r)
    /\ UNCHANGED <<codes, owed, grants, spent, proven>>

WithContact(a, contact) ==
    IF contact \in Email THEN [a EXCEPT !.email = contact, !.verified = @ \cup {"email"}]
    ELSE [a EXCEPT !.phone = contact, !.verified = @ \cup {"phone"}]

\* UpdateEmail, UpdatePhone; only the email is unique.
AddContact(r) ==
    LET a == call[r].account
        contact == call[r].target
    IN
    /\ OnStep(r, "add")
    /\ accounts' = IF contact \in Email /\ ~EmailFree(contact, Others(a)) THEN accounts
                   ELSE {IF b.id = a THEN WithContact(b, contact) ELSE b : b \in accounts}
    /\ Return(r)
    /\ UNCHANGED <<codes, owed, grants, spent, proven>>

(* Initial balance *)

\* Mutant: without a key each call is a recharge.
GrantAgain(a) == [grants EXCEPT ![a] = @ + 1]

\* Billing records the event init-balance:<account> once.
Granted(a) == [grants EXCEPT ![a] = 1]

\* initBalance of Register: whatever comes of it, nobody is told.
GrantInBackground(a) ==
    /\ a \in owed
    /\ owed' = owed \ {a}
    /\ grants' \in {grants, Granted(a)}
    /\ UNCHANGED <<accounts, codes, call, spent, proven>>

(* BootstrapLocalUser *)

\* FindByEmail
Bootstrap(r, e) ==
    /\ \/ \E a \in accounts : a.email = e /\
             Called(r, [NoCall EXCEPT !.step = "found", !.target = e, !.account = a.id])
       \/ EmailFree(e, accounts) /\ Called(r, [NoCall EXCEPT !.step = "insert", !.target = e])
    /\ UNCHANGED <<accounts, codes, owed, grants, spent, proven>>

\* MarkEmailVerified, where it is not.
BootstrapMark(r) ==
    /\ OnStep(r, "found")
    /\ accounts' = MarkVerified(call[r].account, "email")
    /\ proven' = proven \cup {call[r].target}
    /\ call' = Advance(r, "grant")
    /\ UNCHANGED <<codes, owed, grants, spent>>

\* Register, which fails when a concurrent call registered the email.
BootstrapRegister(r) ==
    LET e == call[r].target IN
    /\ OnStep(r, "insert")
    /\ \/ \E id \in NextIds :
             /\ EmailFree(e, accounts)
             /\ accounts' = accounts \cup {NewAccount(id, e, NoContact)}
             /\ call' = [call EXCEPT ![r].step = "grant", ![r].account = id]
             /\ proven' = proven \cup {e}
       \/ /\ ~EmailFree(e, accounts)
          /\ call' = Advance(r, "refind")
          /\ UNCHANGED <<accounts, proven>>
    /\ UNCHANGED <<codes, owed, grants, spent>>

\* FindByEmail again: without an account the first error is returned.  Unlike the first time,
\* nobody looks at email_verified.
BootstrapFindAgain(r) ==
    LET found == {a \in accounts : a.email = call[r].target} IN
    /\ OnStep(r, "refind")
    /\ IF found = {} THEN Return(r)
       ELSE \E a \in found : call' = [call EXCEPT ![r].step = "grant", ![r].account = a.id]
    /\ UNCHANGED <<accounts, codes, owed, grants, spent, proven>>

\* initBalance answers with 200; otherwise the request fails (FailCall), and may have granted.
BootstrapGrant(r) ==
    /\ OnStep(r, "grant")
    /\ grants' = Granted(call[r].account)
    /\ \/ call' = Advance(r, "done")
       \/ Return(r)
    /\ UNCHANGED <<accounts, codes, owed, spent, proven>>

BootstrapReturns(r) ==
    /\ OnStep(r, "done")
    /\ Return(r)
    /\ UNCHANGED <<accounts, codes, owed, grants, spent, proven>>

(* Failures *)

\* A statement, the mail or the billing service fails: what was committed stays.
FailCall(r) ==
    /\ call[r].step \notin {"none", "done"}
    /\ Return(r)
    /\ UNCHANGED <<accounts, codes, owed, grants, spent, proven>>

\* The service is restarted: the requests and the background calls are gone.
RestartAuth ==
    /\ owed # {} \/ \E r \in Caller : ~OnStep(r, "none")
    /\ call' = [r \in Caller |-> NoCall]
    /\ owed' = {}
    /\ UNCHANGED <<accounts, codes, grants, spent, proven>>

AuthNext ==
    \/ \E r \in Caller :
          \/ \E t \in Contact, p \in PURPOSE : RequestCode(r, t, p)
          \/ SaveCode(r)
          \/ \E c \in CodeId, t \in Contact : UseCode(r, Presented(c, "register", t, Nobody))
          \/ \E c \in CodeId, a \in accounts :
                \/ \E t \in OwnContacts(a) : ReadContact(r, c, t, a.id)
                \/ \E t \in Contact : UseCode(r, Presented(c, "add", t, a.id))
          \/ LockCode(r) \/ ConsumeCode(r)
          \/ RegisterAccount(r) \/ VerifyContact(r) \/ AddContact(r)
          \/ \E e \in Email : Bootstrap(r, e)
          \/ BootstrapMark(r) \/ BootstrapRegister(r) \/ BootstrapFindAgain(r)
          \/ BootstrapGrant(r) \/ BootstrapReturns(r)
          \/ FailCall(r)
    \/ \E c \in codes : Expire(c)
    \/ \E a \in AccountId : GrantInBackground(a)
    \/ RestartAuth

AuthSpec == AuthInit /\ [][AuthNext]_authVars

-----------------------------------------------------------------------------
\* A code is accepted once, however many requests present it at the same time and whatever
\* replaces it meanwhile; and of a target and a purpose only the last code that was stored can
\* be used, also when several are requested at once.
SpentOnce ==
    /\ \A c \in CodeId : spent[c] <= 1
    /\ \A c, d \in codes : c.status = "live" /\ c.target = d.target /\ c.purpose = d.purpose =>
          d.id <= c.id /\ (d.status = "live" => c = d)

\* A contact an account is said to have verified is one to which a code was sent and from which
\* it came back, or the local account's; even when the contact is replaced while another
\* request verifies it.
ContactProven ==
    \A a \in accounts :
        /\ "email" \in a.verified => a.email \in proven
        /\ "phone" \in a.verified => a.phone \in proven

\* A bootstrap that reports success leaves an account with its initial balance and a contact
\* that is verified, whoever created it: the email, or the phone with which somebody registered
\* the email meanwhile (it is then not verified, and nobody says so).  And no sequence of
\* repeated, concurrent, failed and interrupted calls grants the balance of an account twice.
BootstrapDone ==
    /\ \A r \in Caller : OnStep(r, "done") =>
          /\ grants[call[r].account] = 1
          /\ \E a \in accounts : a.id = call[r].account /\ a.verified # {}
    /\ \A a \in AccountId : grants[a] <= 1

=============================================================================
