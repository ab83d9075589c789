------------------------------- MODULE Accounts -------------------------------
(***************************************************************************)
(* The people of one tenant and what their browsers carry:                 *)
(*                                                                         *)
(*   - accounts, invited by an administrator and activated by a link       *)
(*     (modules/auth/invite.ts, users.ts);                                 *)
(*   - sessions, a token that holds the role of the moment of the login    *)
(*     (auth.config.ts, login.ts), and the platform's own session          *)
(*     (modules/admin);                                                    *)
(*   - the manager's PIN and the cookie that opens the financial area to a *)
(*     seller for a while (manager-pin.ts);                                *)
(*   - the counters of attempts (lib/rate-limit.ts).                       *)
(*                                                                         *)
(* Whether the subscription lets the tenant in at all is in Billing, and   *)
(* whether the plan has room for one more user in Catalog.                 *)
(***************************************************************************)
EXTENDS Integers, FiniteSets, Functions

CONSTANTS
  User,         \* accounts a tenant may have
  Owner,        \* who signed the tenant up
  Sellers,      \* who has joined as a seller before
  Browser,
  Request,      \* requests in flight that read first and write later
  Password,
  FirstPassword, \* of those who are there already
  Pin,
  NoPin,
  Nobody,
  InviteTime,   \* how long a link holds
  UnlockTime,   \* how long the financial area stays open
  PlatformTime, \* how long a session of the platform's admin holds
  Window,       \* how long an attempt counts
  Limit,        \* attempts in a window
  MaxTime,      \* the end of time (bound)
  MaxOps        \* operations that start (bound)

ASSUME AccAssumption ==
  /\ Owner \in User /\ Sellers \subseteq User \ {Owner} /\ FirstPassword \in Password
  /\ Nobody \notin User \cup Password /\ NoPin \notin Pin
  /\ {InviteTime, UnlockTime, PlatformTime, Window, Limit, MaxTime, MaxOps} \subseteq Nat
  /\ Window > 0 /\ Limit > 0

VARIABLES
  time,
  tenant,     \* tenants.status
  pin,        \* tenants.manager_pin_hash
  account,    \* the rows of users
  invites,    \* the links that have been sent, [user, until]
  session,    \* session token of each browser
  unlocked,   \* cookie of the manager's PIN of each browser
  platform,   \* until when each browser has a session of the platform's admin
  doing,      \* what each request has read and is about to write
  counter,    \* attempts to type the PIN, in Redis, of each user
  started,    \* operations started
  typed,      \* history: right PINs that have been answered, [browser, user, at]
  passed      \* history: attempts let through, of each user at each time

accVars == <<time, tenant, pin, account, invites, session, unlocked, platform,
             doing, counter, started, typed, passed>>

Role == {"admin", "operador", "vendedor"}
Time == 0 .. MaxTime
Absent == [status |-> "absent", role |-> "vendedor", password |-> Nobody]
Account == [status : {"absent", "invited", "active"}, role : Role,
            password : Password \cup {Nobody}]
NoSession == [user |-> Nobody, role |-> "vendedor"]
NoCookie == [user |-> Nobody, until |-> 0]
NoCounter == [count |-> 0, until |-> 0]
Ready == [at |-> "ready"]

(* signupTenant: the tenant and its first administrator.                   *)
Member(role) == [status |-> "active", role |-> role, password |-> FirstPassword]

AccInit ==
  /\ time = 0 /\ tenant = "active" /\ pin \in Pin \cup {NoPin}
  /\ account = [u \in User |-> CASE u = Owner -> Member("admin")
                                [] u \in Sellers -> Member("vendedor")
                                [] OTHER -> Absent]
  /\ invites = {}
  /\ session = [b \in Browser |-> NoSession]
  /\ unlocked = [b \in Browser |-> NoCookie]
  /\ platform = [b \in Browser |-> 0]
  /\ doing = [q \in Request |-> Ready]
  /\ counter = [u \in User |-> NoCounter]
  /\ started = 0
  /\ typed = {}
  /\ passed = [u \in User |-> [t \in Time |-> 0]]

--------------------------------------------------------------------------------
(* Who may do what.                                                        *)

SignedIn(b) == session[b].user # Nobody

(* PERMISSIONS: users:manage and tenant:manage belong to one role.         *)
CanManage(role) == role = "admin"

(* requireRole: the role is the session's, and nothing is read again.      *)
Manages(b) == SignedIn(b) /\ CanManage(session[b].role)

(* roleHasFinancialAccess                                                  *)
SeesFinance(role) == role \in {"admin", "operador"}

AnyCookie(b) == time < unlocked[b].until                   \* mutated form

(* getManagerUnlockExpiry: the cookie is of this user and still holds.     *)
Unlocked(b) == unlocked[b].user = session[b].user /\ time < unlocked[b].until

(* requireFinancialAccess                                                  *)
FinanceOpen(b) == SignedIn(b) /\ (SeesFinance(session[b].role) \/ Unlocked(b))

(* requirePlatformAdmin                                                    *)
OnPlatform(b) == platform[b] > 0 /\ time <= platform[b]

--------------------------------------------------------------------------------
(* RedisRateLimitStore: the counter starts with the first attempt and ends *)
(* a window later, and further attempts do not prolong it.  An attempt     *)
(* beyond the limit is counted and refused.                                *)

Live(u) == time < counter[u].until
Prolonged(u) ==                                            \* mutated form
  counter' = [counter EXCEPT ![u] =
                [count |-> IF Live(u) THEN @.count + 1 ELSE 1, until |-> time + Window]]
Count(u) ==
  counter' = [counter EXCEPT ![u] =
                IF Live(u) THEN [count |-> @.count + 1, until |-> @.until]
                           ELSE [count |-> 1, until |-> time + Window]]

(* checkRateLimit: more than the limit is refused.                         *)
Exhausted(u) == Live(u) /\ counter[u].count + 1 > Limit

Passes(u) ==
  /\ ~Exhausted(u)
  /\ Count(u)
  /\ passed' = [passed EXCEPT ![u][time] = @ + 1]

(* Redis does not answer: the attempt goes through uncounted.              *)
Uncounted == UNCHANGED <<counter, passed>>

RefuseTry(u) ==
  /\ started < MaxOps /\ started' = started + 1
  /\ Exhausted(u) /\ \E b \in Browser : session[b].user = u
  /\ Count(u)
  /\ UNCHANGED <<time, tenant, pin, account, invites, session, unlocked,
                 platform, doing, typed, passed>>

--------------------------------------------------------------------------------
(* Sessions.                                                               *)

Starts == started < MaxOps /\ started' = started + 1

(* verifyLoginCredentials: an active account of an active tenant.          *)
MayLogin(u, p) ==
  account[u].status = "active" /\ tenant = "active" /\ account[u].password = p

Login(b, u, p) ==
  /\ Starts /\ MayLogin(u, p)
  /\ session' = [session EXCEPT ![b] = [user |-> u, role |-> account[u].role]]
  /\ UNCHANGED <<time, tenant, pin, account, invites, unlocked, platform, doing,
                 counter, typed, passed>>

(* Leaves the cookie of the PIN where it is.                               *)
Logout(b) ==
  /\ SignedIn(b)
  /\ session' = [session EXCEPT ![b] = NoSession]
  /\ UNCHANGED <<time, tenant, pin, account, invites, unlocked, platform, doing,
                 counter, started, typed, passed>>

PlatformLogin(b) ==
  /\ Starts
  /\ platform' = [platform EXCEPT ![b] = time + PlatformTime]
  /\ UNCHANGED <<time, tenant, pin, account, invites, session, unlocked, doing,
                 counter, typed, passed>>

(* suspendTenant and reactivateTenant.                                     *)
SetTenant(b, status) ==
  /\ OnPlatform(b) /\ tenant # status
  /\ tenant' = status
  /\ UNCHANGED <<time, pin, account, invites, session, unlocked, platform, doing,
                 counter, started, typed, passed>>

--------------------------------------------------------------------------------
(* Accounts.                                                               *)

Backdated(u) == [user |-> u, until |-> time - InviteTime]  \* mutated form
Link(u) == [user |-> u, until |-> time + InviteTime]

InviteUser(b, u, role) ==
  /\ Starts /\ Manages(b) /\ account[u].status = "absent"
  /\ account' = [account EXCEPT ![u].status = "invited", ![u].role = role]
  /\ invites' = invites \cup {Link(u)}
  /\ UNCHANGED <<time, tenant, pin, session, unlocked, platform, doing,
                 counter, typed, passed>>

ResendInvite(b, u) ==
  /\ Starts /\ Manages(b) /\ account[u].status = "invited"
  /\ invites' = invites \cup {Link(u)}
  /\ UNCHANGED <<time, tenant, pin, account, session, unlocked, platform, doing,
                 counter, typed, passed>>

Held(i) == time <= i.until                                 \* mutated form

(* loadPendingInvite: a link that holds, for an account not yet active.    *)
Pending(i) == time <= i.until /\ account[i.user].status = "invited"

AcceptRead(q, i, p) ==
  /\ Starts /\ doing[q] = Ready /\ Pending(i)
  /\ doing' = [doing EXCEPT ![q] = [at |-> "accept", user |-> i.user, password |-> p]]
  /\ UNCHANGED <<time, tenant, pin, account, invites, session, unlocked, platform,
                 counter, typed, passed>>

(* The update goes by id, whatever has become of the account meanwhile.    *)
AcceptCommit(q) ==
  /\ doing[q].at = "accept"
  /\ account' = [account EXCEPT ![doing[q].user].status = "active",
                                ![doing[q].user].password = doing[q].password]
  /\ doing' = [doing EXCEPT ![q] = Ready]
  /\ UNCHANGED <<time, tenant, pin, invites, session, unlocked, platform,
                 counter, started, typed, passed>>

UpdateUserRole(b, u, role) ==
  /\ Starts /\ Manages(b) /\ account[u].status # "absent"
  /\ account' = [account EXCEPT ![u].role = role]
  /\ UNCHANGED <<time, tenant, pin, invites, session, unlocked, platform, doing,
                 counter, typed, passed>>

--------------------------------------------------------------------------------
(* The manager's PIN.                                                      *)

SetManagerPin(b, new) ==
  /\ Starts /\ Manages(b) /\ pin # new
  /\ pin' = new
  /\ UNCHANGED <<time, tenant, account, invites, session, unlocked, platform,
                 doing, counter, typed, passed>>

(* verifyManagerPin: a tenant without a PIN opens to none.                 *)
RightPin(p) == pin # NoPin /\ p = pin

UnlockRead(q, b, p) ==
  /\ Starts /\ doing[q] = Ready /\ SignedIn(b)
  /\ Passes(session[b].user) \/ Uncounted
  /\ doing' = [doing EXCEPT ![q] =
                 IF RightPin(p) THEN [at |-> "unlock", browser |-> b, user |-> session[b].user]
                                ELSE Ready]
  /\ UNCHANGED <<time, tenant, pin, account, invites, session, unlocked, platform, typed>>

(* The hash takes time to check, and the browser may belong to another     *)
(* user when the answer reaches it.                                        *)
Cookie(q) == [user |-> doing[q].user, until |-> time + UnlockTime]

UnlockDone(q) ==
  /\ doing[q].at = "unlock"
  /\ unlocked' = [unlocked EXCEPT ![doing[q].browser] = Cookie(q)]
  /\ typed' = typed \cup {[browser |-> doing[q].browser, user |-> doing[q].user, at |-> time]}
  /\ doing' = [doing EXCEPT ![q] = Ready]
  /\ UNCHANGED <<time, tenant, pin, account, invites, session, platform, counter,
                 started, passed>>

LockManagerArea(b) ==
  /\ SignedIn(b) /\ unlocked[b] # NoCookie
  /\ unlocked' = [unlocked EXCEPT ![b] = NoCookie]
  /\ typed' = {e \in typed : e.browser # b}
  /\ UNCHANGED <<time, tenant, pin, account, invites, session, platform, doing,
                 counter, started, passed>>

AccTick ==
  /\ time < MaxTime
  /\ time' = time + 1
  /\ UNCHANGED <<tenant, pin, account, invites, session, unlocked, platform, doing,
                 counter, started, typed, passed>>

AccNext ==
  \/ \E b \in Browser : Logout(b) \/ PlatformLogin(b) \/ LockManagerArea(b)
  \/ \E b \in Browser, s \in {"active", "suspended"} : SetTenant(b, s)
  \/ \E b \in Browser, u \in User, p \in Password : Login(b, u, p)
  \/ \E b \in Browser, u \in User, r \in Role : InviteUser(b, u, r) \/ UpdateUserRole(b, u, r)
  \/ \E b \in Browser, u \in User : ResendInvite(b, u)
  \/ \E b \in Browser, p \in Pin \cup {NoPin} : SetManagerPin(b, p)
  \/ \E q \in Request, i \in invites, p \in Password : AcceptRead(q, i, p)
  \/ \E q \in Request, b \in Browser, p \in Pin : UnlockRead(q, b, p)
  \/ \E q \in Request : AcceptCommit(q) \/ UnlockDone(q)
  \/ \E u \in User : RefuseTry(u)
  \/ AccTick

AccSpec == AccInit /\ [][AccNext]_accVars

--------------------------------------------------------------------------------
AccTypeOK ==
  /\ time \in Time /\ tenant \in {"active", "suspended"} /\ pin \in Pin \cup {NoPin}
  /\ account \in [User -> Account]
  /\ invites \subseteq [user : User, until : Nat]
  /\ session \in [Browser -> [user : User \cup {Nobody}, role : Role]]
  /\ unlocked \in [Browser -> [user : User \cup {Nobody}, until : Nat]]
  /\ platform \in [Browser -> Nat]
  /\ doing \in [Request -> {Ready}
                  \cup [at : {"accept"}, user : User, password : Password]
                  \cup [at : {"unlock"}, browser : Browser, user : User]]
  /\ counter \in [User -> [count : Nat, until : Nat]]
  /\ started \in 0 .. MaxOps
  /\ typed \subseteq [browser : Browser, user : User, at : Time]
  /\ passed \in [User -> [Time -> Nat]]

(* Once an account is active and no acceptance is under way, no link of it *)
(* that is still around, sent again or old, changes its password: what     *)
(* "Este convite ja foi usado" promises (invite.ts:170).  Two acceptances  *)
(* at once are another matter: the later commit wins.                      *)
Settled(u) ==
  /\ account[u].status = "active"
  /\ \A q \in Request : doing[q].at = "accept" => doing[q].user # u

InviteSpent ==
  [][\A u \in User : Settled(u) =>
       Settled(u)' /\ account'[u].password = account[u].password]_accVars

(* A seller sees the financial area only in a browser where that same user *)
(* typed the right PIN less than UnlockTime ago, and it has not been       *)
(* locked since (manager-pin.ts:4-7), whoever else used the browser and    *)
(* whenever the answers arrived.                                           *)
UnlockEarned ==
  \A b \in Browser :
    FinanceOpen(b) /\ ~SeesFinance(session[b].role) =>
      \E e \in typed : /\ e.browser = b /\ e.user = session[b].user
                       /\ time < e.at + UnlockTime

(* The limit of attempts both ways (rate-limit.ts:28-29): no stretch of    *)
(* time as long as a window lets more than two limits through, and who is  *)
(* refused has used the limit up within the last window, so that a refused *)
(* attempt never prolongs the wait.                                        *)
Since(u, t) == SumFunctionOnSet(passed[u], {n \in 0 .. time : n >= t})

TriesCounted ==
  \A u \in User :
    /\ Since(u, time - Window + 1) <= 2 * Limit
    /\ Exhausted(u) => Since(u, time - Window + 1) >= Limit
================================================================================
