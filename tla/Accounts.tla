------------------------------ MODULE Accounts ------------------------------
(***************************************************************************)
(* Administrator accounts: their sessions, which carry a version, and the  *)
(* daily quota of the diagnoses they create.                               *)
(*                                                                         *)
(* A request of the super administrator reads the account and writes it in *)
(* two connections; a request for a diagnosis checks the account, counts   *)
(* its tasks and creates one under _DIAGNOSIS_CREATE_LOCK of its process.  *)
(***************************************************************************)
EXTENDS Integers, FiniteSets, FiniteSetsExt

CONSTANTS
    People,         \* accounts of managers
    Browsers,       \* holders of a session cookie
    Forms,          \* requests of the super administrator in flight
    Servers,        \* server processes on the database
    MaxTasks,       \* diagnoses of an account and a day, a bound
    Limits,         \* daily_limit
    MaxDay, MaxWrites   \* bounds

\* update_admin_account and create_admin_account refuse a limit below 1.
AccountAssumption ==
    /\ Limits \subseteq Nat \ {0} /\ {MaxTasks, MaxDay, MaxWrites} \subseteq Nat /\ MaxDay > 0

VARIABLES
    account,        \* admin_accounts
    diagnosis,      \* diagnosis[a][d]: how many tasks a created on day d
    cookie,         \* cookie[b]: the signed session, or NoCookie
    form,           \* form[f]: an account as a request has read it, or Free
    desk,           \* desk[s]: the request that holds the create lock
    day,
    writes,
    cut,            \* history: browsers whose account was suspended or given
                    \* another password or name since they logged in
    spent, refund, ceiling      \* history: diagnoses created and deleted since
                    \* the last reset of today, and today's highest limit

books == <<spent, refund, ceiling>>
accounts == <<account, diagnosis, cookie, form, desk, day, writes, cut, books>>

Days == 1..MaxDay
Never == MaxDay + 1
NoCookie == [owner |-> "none"]
Free == [who |-> "none"]

\* can_login of _decode_admin_account
CanLogin(a) == account[a].active /\ account[a].expires > day

\* admin_identity and admin_account_for_session
Usable(b) ==
    /\ cookie[b] # NoCookie /\ cookie[b].until > day
    /\ account[cookie[b].owner].version = cookie[b].version
    /\ CanLogin(cookie[b].owner)

\* _diagnosis_usage_today
Today(a) == diagnosis[a][day]
UsedEver(a, row) == Max({0, Today(a) - row.baseline})
Used(a, row) ==
    IF row.resetDay = day THEN Max({0, Today(a) - row.baseline})
    ELSE Today(a)

-----------------------------------------------------------------------------
Init ==
    /\ account \in [People -> [active : {TRUE}, expires : {Never}, limit : Limits,
                               version : {1}, resetDay : {0}, baseline : {0}]]
    /\ diagnosis = [a \in People |-> [d \in Days |-> 0]]
    /\ cookie = [b \in Browsers |-> NoCookie]
    /\ form = [f \in Forms |-> Free] /\ desk = [s \in Servers |-> Free]
    /\ day = 1 /\ writes = 0 /\ cut = {}
    /\ spent = [a \in People |-> 0] /\ refund = [a \in People |-> 0]
    /\ ceiling = [a \in People |-> account[a].limit]

Spend == writes < MaxWrites /\ writes' = writes + 1

\* POST /api/admin/login: authenticate_admin_account, then a cookie made of
\* the row it read
Login(b, a) ==
    /\ CanLogin(a) /\ cookie[b] = NoCookie
    /\ cookie' = [cookie EXCEPT ![b] =
          [owner |-> a, version |-> account[a].version, until |-> account[a].expires]]
    /\ cut' = cut \ {b}
    /\ UNCHANGED <<account, diagnosis, form, desk, day, writes, books>>
Logout(b) ==
    /\ cookie[b] # NoCookie /\ cookie' = [cookie EXCEPT ![b] = NoCookie]
    /\ UNCHANGED <<account, diagnosis, form, desk, day, writes, cut, books>>

\* update_admin_account reads the account for the fields its body leaves out
ReadAccount(f, a) ==
    /\ form[f] = Free
    /\ form' = [form EXCEPT ![f] = [who |-> a, row |-> account[a]]]
    /\ UNCHANGED <<account, diagnosis, cookie, desk, day, writes, cut, books>>

LimitsUnchecked == Limits \cup {0}
LimitsChecked == Limits

\* What a body may change of the account that was read.
Bodies(row) ==
    {row} \cup {[row EXCEPT !.active = x] : x \in BOOLEAN}
          \cup {[row EXCEPT !.limit = n] : n \in LimitsChecked}
          \cup {[row EXCEPT !.expires = d] : d \in Days \cup {Never}}

OnlySecret(secret, new) == secret
SessionChanged(secret, new) == secret \/ ~new.active

\* ... and writes all of them back
WriteAccount(f) ==
    /\ form[f] # Free /\ Spend
    /\ \E new \in Bodies(form[f].row), secret \in BOOLEAN :
          LET a == form[f].who
              old == account[a]
              ends == secret \/ ~new.active
          IN  /\ account' = [account EXCEPT ![a] =
                    [old EXCEPT !.active = new.active, !.limit = new.limit, !.expires = new.expires,
                                !.version = IF SessionChanged(secret, new) THEN old.version + 1
                                            ELSE old.version]]
              /\ cut' = IF ends THEN cut \cup {b \in Browsers : cookie[b].owner = a} ELSE cut
              /\ ceiling' = [ceiling EXCEPT ![a] = Max({@, new.limit})]
    /\ form' = [form EXCEPT ![f] = Free]
    /\ UNCHANGED <<diagnosis, cookie, desk, day, spent, refund>>

\* reset_admin_account_quota
ResetQuota(a) ==
    /\ Spend
    /\ account' = [account EXCEPT ![a] =
          [@ EXCEPT !.resetDay = day, !.baseline = Today(a)]]
    /\ spent' = [spent EXCEPT ![a] = 0] /\ refund' = [refund EXCEPT ![a] = 0]
    /\ UNCHANGED <<diagnosis, cookie, form, desk, day, cut, ceiling>>

\* POST /api/diagnosis: the session, then, under the lock,
\* assert_diagnosis_allowed reads the account again ...
Ask(s, b) ==
    /\ desk[s] = Free /\ Usable(b)
    /\ desk' = [desk EXCEPT ![s] =
          [who |-> cookie[b].owner, row |-> account[cookie[b].owner], granted |-> FALSE]]
    /\ UNCHANGED <<account, diagnosis, cookie, form, day, writes, cut, books>>
\* ... and counts in another connection
CountTasks(s) ==
    /\ desk[s] # Free /\ ~desk[s].granted
    /\ desk' = [desk EXCEPT ![s] =
          IF Used(@.who, @.row) < @.row.limit THEN [@ EXCEPT !.granted = TRUE] ELSE Free]
    /\ UNCHANGED <<account, diagnosis, cookie, form, day, writes, cut, books>>
\* create_public_diagnosis
CreateDiagnosis(s) ==
    /\ desk[s] # Free /\ desk[s].granted
    /\ Today(desk[s].who) < MaxTasks
    /\ diagnosis' = [diagnosis EXCEPT ![desk[s].who][day] = @ + 1]
    /\ spent' = [spent EXCEPT ![desk[s].who] = @ + 1]
    /\ desk' = [desk EXCEPT ![s] = Free]
    /\ UNCHANGED <<account, cookie, form, day, writes, cut, refund, ceiling>>
\* the body is refused, or the request fails
Refuse(s) ==
    /\ desk[s] # Free /\ desk[s].granted /\ desk' = [desk EXCEPT ![s] = Free]
    /\ UNCHANGED <<account, diagnosis, cookie, form, day, writes, cut, books>>

\* delete of a finished diagnosis
DeleteDiagnosis(a, d) ==
    /\ diagnosis[a][d] > 0 /\ Spend
    /\ refund' = IF d = day THEN [refund EXCEPT ![a] = @ + 1] ELSE refund
    /\ diagnosis' = [diagnosis EXCEPT ![a][d] = @ - 1]
    /\ UNCHANGED <<account, cookie, form, desk, day, cut, spent, ceiling>>

Midnight ==
    /\ day < MaxDay /\ day' = day + 1
    /\ spent' = [a \in People |-> 0] /\ refund' = [a \in People |-> 0]
    /\ ceiling' = [a \in People |-> account[a].limit]
    /\ UNCHANGED <<account, diagnosis, cookie, form, desk, writes, cut>>

Next ==
    \/ Midnight
    \/ \E b \in Browsers, a \in People : Login(b, a)
    \/ \E b \in Browsers : Logout(b)
    \/ \E f \in Forms : WriteAccount(f) \/ \E a \in People : ReadAccount(f, a)
    \/ \E a \in People : ResetQuota(a)
    \/ \E s \in Servers : CountTasks(s) \/ CreateDiagnosis(s) \/ Refuse(s) \/ \E b \in Browsers : Ask(s, b)
    \/ \E a \in People, d \in Days : DeleteDiagnosis(a, d)

Spec == Init /\ [][Next]_accounts

-----------------------------------------------------------------------------
(* Properties.                                                             *)

TypeOK ==
    /\ \A a \in People :
          /\ account[a].active \in BOOLEAN /\ account[a].limit \in Limits
          /\ account[a].expires \in Days \cup {Never} /\ account[a].version \in 1..1 + MaxWrites
          /\ account[a].resetDay \in 0..day /\ account[a].baseline \in 0..MaxTasks
    /\ diagnosis \in [People -> [Days -> 0..MaxTasks]]
    /\ \A b \in Browsers : cookie[b] = NoCookie \/ cookie[b].owner \in People
    /\ cut \subseteq Browsers /\ day \in Days

\* A session that was open when its account was suspended, or given another
\* password or name, is never usable again, not even when the account is
\* active again or another request writes back the account it read before.
CutStaysOut == \A b \in cut : ~Usable(b)

\* One process creates no more diagnoses of an account per day than its limit,
\* counted from the last reset of that day; a deleted diagnosis gives its slot
\* back.
QuotaHeld == \A a \in People : spent[a] <= ceiling[a] + refund[a]
=============================================================================
