------------------------------ MODULE Accounts ------------------------------
(***************************************************************************)
(* Accounts, sessions, mailed links, lockout, invites and entitlements     *)
(* (app/services/*_service.py over app/repos/*_repo.py, routers/auth.py).  *)
(* A request reads and commits in separate steps, and every in-flight      *)
(* request keeps what it read; a FOR UPDATE read holds its row until the   *)
(* request ends. A password is the number of the write that set it.        *)
(***************************************************************************)
EXTENDS Naturals, FiniteSets

CONSTANTS
    Users,          \* ids of the accounts that may be created
    Emails,         \* addresses
    Codes,          \* invite codes
    Links,          \* ids of the mailed tokens
    Sessions,       \* session ids
    Requests,       \* requests served at the same time
    SignupOpen,     \* settings.signup_open
    Threshold,      \* login_lockout_threshold
    MaxWrites       \* bound: passwords ever written to one account

NoUser == "nobody"
NoEmail == "nowhere"
NoCode == "no code"

ASSUME AccountsAssumption ==
    /\ NoUser \notin Users /\ NoEmail \notin Emails /\ NoCode \notin Codes
    /\ SignupOpen \in BOOLEAN
    /\ Threshold \in Nat
    /\ MaxWrites \in Nat \ {0}

Purposes == {"verify", "reset", "email_change"}

VARIABLES
    account,        \* app.user: address, proof of it, password, grant
    session,        \* app.session: whose, and the password write it followed
    link,           \* app.email_token
    failures,       \* app.login_attempt rows inside the window, per address
    invite,         \* app.invite
    req,            \* requests in flight with what each has read
    proved          \* history: <<user, address>> whose mailed link was opened

vars == <<account, session, link, failures, invite, req, proved>>

Absent == [email |-> NoEmail, verified |-> FALSE, pw |-> 0, reset |-> 0]
\* A deleted account: its id is never given again.
Gone == [Absent EXCEPT !.pw = 1]
Live(u) == account[u].email # NoEmail
NoSession == [user |-> NoUser, under |-> 0]
\* `uses` is history: how often what the link authorises was done. Of a link
\* that is consumed or expired, only that is kept.
Unminted == [purpose |-> "none", user |-> NoUser, to |-> NoEmail, carries |-> NoEmail,
             live |-> FALSE, under |-> 0, uses |-> 0]
Idle == [op |-> "idle"]

Dead(ln, t) == [Unminted EXCEPT !.purpose = "dead", !.uses = ln[t].uses]

UserAt(e) == {u \in Users : account[u].email = e}
AddressIsTaken(e) == UserAt(e) # {}

(***************************************************************************)
(* Types.                                                                  *)
(***************************************************************************)
RequestStates ==
    {Idle} \cup [op : {"signup"}, email : Emails, code : Codes \cup {NoCode}]
           \cup [op : {"password", "refused"}, email : Emails]
           \cup [op : {"enter"}, email : Emails, user : Users]
           \cup [op : {"signed_in"}, user : Users, pw : 0..MaxWrites]
           \cup [op : {"issue"}, purpose : Purposes, user : Users, to : Emails,
                 carries : Emails \cup {NoEmail}]
           \cup [op : {"verify", "reset"}, link : Links, user : Users]
           \cup [op : {"email_change"}, link : Links, user : Users, carries : Emails]

TypeOK ==
    /\ account \in [Users -> [email : Emails \cup {NoEmail}, verified : BOOLEAN,
                              pw : 0..MaxWrites, reset : 0..MaxWrites]]
    /\ session \in [Sessions -> [user : Users \cup {NoUser}, under : 0..MaxWrites]]
    /\ link \in [Links -> [purpose : Purposes \cup {"none", "dead"}, user : Users \cup {NoUser},
                           to : Emails \cup {NoEmail}, carries : Emails \cup {NoEmail},
                           live : BOOLEAN, under : 0..MaxWrites, uses : 0..2]]
    /\ failures \in [Emails -> Nat]
    /\ invite \in [Codes -> [issued : BOOLEAN, hint : Emails \cup {NoEmail}, by : SUBSET Users]]
    /\ req \in [Requests -> RequestStates]
    /\ proved \subseteq Users \X Emails
    \* the keys: one account per address, and nothing belongs to an account that is gone
    /\ \A u, v \in Users : Live(u) /\ account[u].email = account[v].email => u = v
    /\ \A s \in Sessions : session[s].user # NoUser => Live(session[s].user)
    /\ \A t \in Links : link[t].live => Live(link[t].user)

Init ==
    /\ account = [u \in Users |-> Absent]
    /\ session = [s \in Sessions |-> NoSession]
    /\ link = [t \in Links |-> Unminted]
    /\ failures = [e \in Emails |-> 0]
    /\ invite = [c \in Codes |-> [issued |-> FALSE, hint |-> NoEmail, by |-> {}]]
    /\ req = [r \in Requests |-> Idle]
    /\ proved = {}

(***************************************************************************)
(* The repos: what a statement reads and writes.                           *)
(***************************************************************************)
FreeSession(s) == session[s] = NoSession
OpenSession(sess, s, u, under) == [sess EXCEPT ![s] = [user |-> u, under |-> under]]
DropSessions(sess, u) == [s \in Sessions |-> IF sess[s].user = u THEN NoSession ELSE sess[s]]

GetLive(t, purpose) == link[t].live /\ link[t].purpose = purpose
Consume(ln, t) == [ln EXCEPT ![t] = Dead(ln, t)]
Use(ln, t) == Consume([ln EXCEPT ![t].uses = @ + 1], t)
RetireLive(ln, u, purpose) ==
    [t \in Links |-> IF ln[t].user = u /\ ln[t].purpose = purpose THEN Dead(ln, t) ELSE ln[t]]

\* Mutant: a pending address change outlives the password.
RetireNothing(ln, u) == ln

RetirePending(ln, u) == RetireLive(ln, u, "email_change")

\* Mutant: the links are read without FOR UPDATE.
HoldsNothing(r, t) == FALSE

\* Rows a FOR UPDATE read holds; nobody else reads them so, or updates them.
Holds(r, t) == req[r].op \in {"reset", "email_change"} /\ req[r].link = t
Locked(t) == \E r \in Requests : Holds(r, t)
LockedByOther(r, t) == \E q \in Requests \ {r} : Holds(q, t)
CanLock(t, purpose) == GetLive(t, purpose) /\ ~Locked(t)
CanRetire(r, u, purpose) ==
    \A t \in Links : link[t].user = u /\ GetLive(t, purpose) => ~LockedByOther(r, t)

Become(r, state) == req' = [req EXCEPT ![r] = state]

(***************************************************************************)
(* Signing up: the invite is read first and spent with the account.        *)
(***************************************************************************)
Redeemable(c, e) ==
    /\ invite[c].issued
    /\ invite[c].by = {}
    /\ invite[c].hint \in {NoEmail, e}

StartSignup(r, e, c) ==
    /\ req[r] = Idle
    /\ IF c = NoCode THEN SignupOpen ELSE Redeemable(c, e)
    /\ Become(r, [op |-> "signup", email |-> e, code |-> c])
    /\ UNCHANGED <<account, session, link, failures, invite, proved>>

SpendInvite(c, u) ==
    IF c = NoCode THEN invite ELSE [invite EXCEPT ![c].by = @ \cup {u}]

\* The unique address decides: the loser is rolled back with its invite unspent.
CommitSignup(r, u, s) ==
    /\ req[r].op = "signup"
    /\ IF AddressIsTaken(req[r].email)
       THEN /\ Become(r, Idle)
            /\ UNCHANGED <<account, session, invite>>
       ELSE /\ account[u] = Absent
            /\ FreeSession(s)
            /\ account' = [account EXCEPT ![u] = [Absent EXCEPT !.email = req[r].email, !.pw = 1]]
            /\ session' = OpenSession(session, s, u, 1)
            /\ invite' = SpendInvite(req[r].code, u)
            /\ Become(r, [op |-> "issue", purpose |-> "verify", user |-> u,
                          to |-> req[r].email, carries |-> NoEmail])
    /\ UNCHANGED <<link, failures, proved>>

(***************************************************************************)
(* Signing in. The count of failures is read before the password is        *)
(* looked at, and each outcome is committed in a step of its own.          *)
(***************************************************************************)
UnderThreshold(e) == failures[e] < Threshold

StartLogin(r, e) ==
    /\ req[r] = Idle
    /\ UnderThreshold(e)
    /\ Become(r, [op |-> "password", email |-> e])
    /\ UNCHANGED <<account, session, link, failures, invite, proved>>

CheckPassword(r, p) ==
    /\ req[r].op = "password"
    /\ LET e == req[r].email
           known == {u \in UserAt(e) : account[u].pw = p}
       IN  \/ /\ known = {}
              /\ Become(r, [op |-> "refused", email |-> e])
           \/ \E u \in known : Become(r, [op |-> "enter", email |-> e, user |-> u])
    /\ UNCHANGED <<account, session, link, failures, invite, proved>>

RecordFailure(r) ==
    /\ req[r].op = "refused"
    /\ failures' = [failures EXCEPT ![req[r].email] = @ + 1]
    /\ Become(r, Idle)
    /\ UNCHANGED <<account, session, link, invite, proved>>

\* The session's foreign key needs the account to be there still.
Enter(r, s) ==
    /\ req[r].op = "enter"
    /\ Live(req[r].user)
    /\ FreeSession(s)
    /\ failures' = [failures EXCEPT ![req[r].email] = 0]
    /\ session' = OpenSession(session, s, req[r].user, account[req[r].user].pw)
    /\ Become(r, Idle)
    /\ UNCHANGED <<account, link, invite, proved>>

Logout(s) ==
    /\ ~FreeSession(s)
    /\ session' = [session EXCEPT ![s] = NoSession]
    /\ UNCHANGED <<account, link, failures, invite, req, proved>>

(***************************************************************************)
(* What a signed-in reader does. The password is compared with the row     *)
(* that was loaded with the session, before the route began.               *)
(***************************************************************************)
GetCurrentUser(r, s) ==
    /\ req[r] = Idle
    /\ ~FreeSession(s)
    /\ Become(r, [op |-> "signed_in", user |-> session[s].user, pw |-> account[session[s].user].pw])
    /\ UNCHANGED <<account, session, link, failures, invite, proved>>

ChangePassword(r, p, s) ==
    /\ req[r].op = "signed_in"
    /\ p = req[r].pw
    /\ LET u == req[r].user IN
       /\ Live(u)
       /\ account[u].pw < MaxWrites
       /\ CanRetire(r, u, "email_change")
       /\ account' = [account EXCEPT ![u].pw = @ + 1]
       /\ LET left == DropSessions(session, u) IN
          /\ left[s] = NoSession
          /\ session' = OpenSession(left, s, u, account[u].pw + 1)
       /\ link' = RetirePending(link, u)
    /\ Become(r, Idle)
    /\ UNCHANGED <<failures, invite, proved>>

\* The cascade takes the sessions and the links.
DeleteAccount(r, p) ==
    /\ req[r].op = "signed_in"
    /\ p = req[r].pw
    /\ LET u == req[r].user IN
       /\ Live(u)
       /\ \A t \in Links : link[t].user = u => ~LockedByOther(r, t)
       /\ account' = [account EXCEPT ![u] = Gone]
       /\ session' = DropSessions(session, u)
       /\ link' = [t \in Links |-> IF link[t].user = u THEN Dead(link, t) ELSE link[t]]
       /\ proved' = {fact \in proved : fact[1] # u}
    /\ Become(r, Idle)
    /\ UNCHANGED <<failures, invite>>

\* Mutant: the link goes to the address the account already has.
RequestEmailChangeAtHome(r, p, e) ==
    /\ req[r].op = "signed_in"
    /\ p = req[r].pw
    /\ ~AddressIsTaken(e)
    /\ Live(req[r].user)
    /\ Become(r, [op |-> "issue", purpose |-> "email_change", user |-> req[r].user,
                  to |-> account[req[r].user].email, carries |-> e])
    /\ UNCHANGED <<account, session, link, failures, invite, proved>>

RequestEmailChange(r, p, e) ==
    /\ req[r].op = "signed_in"
    /\ p = req[r].pw
    /\ ~AddressIsTaken(e)
    /\ Become(r, [op |-> "issue", purpose |-> "email_change", user |-> req[r].user,
                  to |-> e, carries |-> e])
    /\ UNCHANGED <<account, session, link, failures, invite, proved>>

(***************************************************************************)
(* Mailed links: asked for by address, minted, mailed, opened.             *)
(***************************************************************************)
AskFor(r, purpose, u) ==
    Become(r, [op |-> "issue", purpose |-> purpose, user |-> u,
               to |-> account[u].email, carries |-> NoEmail])

\* Silent about an unknown address, and about one already verified.
RequestVerification(r, e) ==
    /\ req[r] = Idle
    /\ \E u \in UserAt(e) : ~account[u].verified /\ AskFor(r, "verify", u)
    /\ UNCHANGED <<account, session, link, failures, invite, proved>>

RequestPasswordReset(r, e) ==
    /\ req[r] = Idle
    /\ \E u \in UserAt(e) : AskFor(r, "reset", u)
    /\ UNCHANGED <<account, session, link, failures, invite, proved>>

\* The row is committed before the mail leaves; a mail that fails reaches nobody.
Issue(r, t) ==
    /\ req[r].op = "issue"
    /\ Live(req[r].user)
    /\ link[t] = Unminted
    /\ \E mailed \in BOOLEAN :
          link' = [link EXCEPT ![t] =
                     [Unminted EXCEPT !.purpose = req[r].purpose, !.user = req[r].user,
                                      !.to = IF mailed THEN req[r].to ELSE NoEmail,
                                      !.carries = req[r].carries, !.live = TRUE,
                                      !.under = account[req[r].user].pw]]
    /\ Become(r, Idle)
    /\ UNCHANGED <<account, session, failures, invite, proved>>

Opened(t) == proved' = proved \cup {<<link[t].user, link[t].to>>}

OpenVerify(r, t) ==
    /\ req[r] = Idle
    /\ GetLive(t, "verify")
    /\ link[t].to # NoEmail
    /\ Become(r, [op |-> "verify", link |-> t, user |-> link[t].user])
    /\ Opened(t)
    /\ UNCHANGED <<account, session, link, failures, invite>>

\* Read without a lock: the same link spent twice comes to the same state.
CommitVerify(r) ==
    /\ req[r].op = "verify"
    /\ LET t == req[r].link IN
       /\ Live(req[r].user)
       /\ account' = [account EXCEPT ![req[r].user].verified = TRUE]
       /\ link' = Consume(link, t)
    /\ Become(r, Idle)
    /\ UNCHANGED <<session, failures, invite, proved>>

OpenReset(r, t) ==
    /\ req[r] = Idle
    /\ CanLock(t, "reset")
    /\ link[t].to # NoEmail
    /\ Become(r, [op |-> "reset", link |-> t, user |-> link[t].user])
    /\ Opened(t)
    /\ UNCHANGED <<account, session, link, failures, invite>>

CommitReset(r) ==
    /\ req[r].op = "reset"
    /\ LET t == req[r].link
           u == req[r].user
       IN  /\ account[u].pw < MaxWrites
           /\ CanRetire(r, u, "reset")
           /\ CanRetire(r, u, "email_change")
           /\ link' = RetirePending(RetireLive(Use(link, t), u, "reset"), u)
           /\ account' = [account EXCEPT ![u].pw = @ + 1, ![u].reset = account[u].pw + 1]
           /\ session' = DropSessions(session, u)
           /\ failures' = [failures EXCEPT ![account[u].email] = 0]
    /\ Become(r, Idle)
    /\ UNCHANGED <<invite, proved>>

OpenEmailChange(r, t) ==
    /\ req[r] = Idle
    /\ CanLock(t, "email_change")
    /\ link[t].to # NoEmail
    /\ Become(r, [op |-> "email_change", link |-> t, user |-> link[t].user,
                  carries |-> link[t].carries])
    /\ Opened(t)
    /\ UNCHANGED <<account, session, link, failures, invite>>

\* A taken address leaves the link unspent; the unique index has the last word.
CommitEmailChange(r) ==
    /\ req[r].op = "email_change"
    /\ LET t == req[r].link
           u == req[r].user
           e == req[r].carries
       IN  IF AddressIsTaken(e)
           THEN UNCHANGED <<account, link, failures>>
           ELSE /\ CanRetire(r, u, "email_change")
                /\ link' = RetirePending(Use(link, t), u)
                /\ account' = [account EXCEPT ![u].email = e, ![u].verified = TRUE]
                /\ failures' = [failures EXCEPT ![e] = 0, ![account[u].email] = 0]
    /\ Become(r, Idle)
    /\ UNCHANGED <<session, invite, proved>>

(***************************************************************************)
(* A request that ends without its commit: the client or the process goes  *)
(* away, the provider raises, the guard of a write fails, or the database  *)
(* picks it as the victim of a deadlock.                                   *)
(***************************************************************************)
Abort(r) ==
    /\ req[r] # Idle
    /\ Become(r, Idle)
    /\ UNCHANGED <<account, session, link, failures, invite, proved>>

(***************************************************************************)
(* Time, and the administrator.                                            *)
(***************************************************************************)
SessionExpires(s) ==
    /\ ~FreeSession(s)
    /\ session' = [session EXCEPT ![s] = NoSession]
    /\ UNCHANGED <<account, link, failures, invite, req, proved>>

LinkExpires(t) ==
    /\ link[t].live
    /\ ~Locked(t)
    /\ link' = Consume(link, t)
    /\ UNCHANGED <<account, session, failures, invite, req, proved>>

FailureAges(e) ==
    /\ failures[e] > 0
    /\ failures' = [failures EXCEPT ![e] = @ - 1]
    /\ UNCHANGED <<account, session, link, invite, req, proved>>

CreateInvite(c, hint) ==
    /\ ~invite[c].issued
    /\ invite' = [invite EXCEPT ![c] = [issued |-> TRUE, hint |-> hint, by |-> {}]]
    /\ UNCHANGED <<account, session, link, failures, req, proved>>

Next ==
    \/ \E r \in Requests :
         \/ \E e \in Emails, c \in Codes \cup {NoCode} : StartSignup(r, e, c)
         \/ \E u \in Users, s \in Sessions : CommitSignup(r, u, s)
         \/ \E e \in Emails : StartLogin(r, e)
         \/ \E p \in 1..MaxWrites : CheckPassword(r, p)
         \/ RecordFailure(r)
         \/ \E s \in Sessions : Enter(r, s) \/ GetCurrentUser(r, s)
         \/ \E p \in 1..MaxWrites, s \in Sessions : ChangePassword(r, p, s)
         \/ \E p \in 1..MaxWrites : DeleteAccount(r, p)
         \/ \E p \in 1..MaxWrites, e \in Emails : RequestEmailChange(r, p, e)
         \/ \E e \in Emails : RequestVerification(r, e) \/ RequestPasswordReset(r, e)
         \/ \E t \in Links : \/ Issue(r, t)
                             \/ OpenVerify(r, t)
                             \/ OpenReset(r, t)
                             \/ OpenEmailChange(r, t)
         \/ CommitVerify(r) \/ CommitReset(r) \/ CommitEmailChange(r)
         \/ Abort(r)
    \/ \E s \in Sessions : Logout(s) \/ SessionExpires(s)
    \/ \E t \in Links : LinkExpires(t)
    \/ \E e \in Emails : FailureAges(e)
    \/ \E c \in Codes, hint \in Emails \cup {NoEmail} : CreateInvite(c, hint)

Spec == Init /\ [][Next]_vars

(***************************************************************************)
(* Properties.                                                             *)
(***************************************************************************)
\* Writing a password revokes what the one before it let in: every session and
\* every pending address change of an account was committed after the last
\* password write, and every live reset link after the last reset, although
\* logins, requests and links of the same account are in flight at the write.
PasswordWriteRevokes ==
    /\ \A s \in Sessions : session[s].user # NoUser =>
          session[s].under = account[session[s].user].pw
    /\ \A t \in Links : link[t].live =>
          /\ link[t].purpose = "email_change" => link[t].under = account[link[t].user].pw
          /\ link[t].purpose = "reset" => link[t].under >= account[link[t].user].reset

\* An address counts as verified only if a link mailed to that very address was
\* opened for that account, whatever moves, re-sends and verifications overlap.
VerifiedIsProved ==
    \A u \in Users : account[u].verified => <<u, account[u].email>> \in proved

\* A reset or change link does what it authorises at most once, although two
\* requests open it, or two links of one account, at the same time.
LinksActOnce == TypeOK /\ \A t \in Links : link[t].uses <= 1

=============================================================================
