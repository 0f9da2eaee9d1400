--------------------------- MODULE ReadersProofs ---------------------------
(***************************************************************************)
(* Accounts, for any number of accounts, links, sessions and requests in   *)
(* flight: types and keys, what a password write revokes, what counts as a *)
(* proved address, and that a link acts once.  A request acts on what it   *)
(* read earlier: the invariant says what of it is still true when it acts. *)
(* A link held under FOR UPDATE is alive and held by nobody else, and an   *)
(* address that was proved stays so for as long as the account lives.      *)
(*                                                                         *)
(* And watchlist imports, for any importers, jobs, requests, rows and      *)
(* restarts: the lists under review agree with the counts on their jobs,   *)
(* and no TMDB session outlives what it was made for.  Three actors write  *)
(* a job: its runner, the request that replaces it and the confirm.  What  *)
(* keeps them apart is where the runner is (RunnerAt): it writes rows only *)
(* while the job is running, and a list that a request has locked is       *)
(* awaiting review and locked by nobody else (LocksHold).  A live session  *)
(* is in the hands of a request on its way to the insert or of a runner on *)
(* its way out (SessionIsHeld), and both act for the user the token was    *)
(* bound to (RequestIsBound, RunnerIsBound).                               *)
(***************************************************************************)
EXTENDS Accounts, Imports, FiniteSetTheorems, TLAPS

-----------------------------------------------------------------------------
(***************************************************************************)
(* Accounts.                                                               *)
(***************************************************************************)


\* An account that exists or existed has a password; it was reset at most as late as that.
Born(u) == account[u].pw # 0

AccountShape ==
    \A u \in Users : (Live(u) => Born(u)) /\ account[u].reset <= account[u].pw

\* A link that can still act has not acted.  A change link goes to the address it carries;
\* a verification to the account's own, unless the account has proved another since.
LinkShape ==
    \A t \in Links :
        /\ link[t].live <=> link[t].purpose \in Purposes
        /\ link[t].uses <= 1
        /\ link[t].live => link[t].user \in Users /\ link[t].uses = 0
        /\ link[t].live /\ link[t].purpose = "email_change" =>
              link[t].carries \in Emails /\ link[t].to \in {NoEmail, link[t].carries}
        /\ link[t].live /\ link[t].purpose = "verify" =>
              \/ link[t].to \in {NoEmail, account[link[t].user].email}
              \/ account[link[t].user].verified

\* A request acts for an account that exists or existed.
ActsFor(r) ==
    req[r].op \in {"enter", "signed_in", "issue", "verify", "reset", "email_change"} =>
        req[r].user \in Users /\ Born(req[r].user)

\* What it mails goes to the address in question.
Mails(r) ==
    /\ req[r].op = "issue" /\ req[r].purpose = "email_change" => req[r].to = req[r].carries
    /\ req[r].op = "issue" /\ req[r].purpose = "verify" =>
          \/ ~ Live(req[r].user) \/ account[req[r].user].verified
          \/ req[r].to = account[req[r].user].email

\* A verification link has proved the address that the account has now.
Verifies(r) ==
    req[r].op = "verify" =>
        /\ link[req[r].link].purpose \in {"verify", "dead"}
        /\ Live(req[r].user) => <<req[r].user, account[req[r].user].email>> \in proved

\* A link held under FOR UPDATE is alive, and held alone; a change of address is proved
\* before it is made.
HoldsItsLink(r) ==
    req[r].op \in {"reset", "email_change"} =>
        /\ GetLive(req[r].link, req[r].op)
        /\ link[req[r].link].user = req[r].user
        /\ ~ LockedByOther(r, req[r].link)
        /\ req[r].op = "email_change" => <<req[r].user, req[r].carries>> \in proved

RequestShape == \A r \in Requests : ActsFor(r) /\ Mails(r) /\ Verifies(r) /\ HoldsItsLink(r)

\* The two halves of PasswordWriteRevokes; a session of nobody is no session.
SessionsCurrent ==
    \A s \in Sessions :
        /\ session[s].user = NoUser => FreeSession(s)
        /\ session[s].user # NoUser => session[s].under = account[session[s].user].pw
LinksCurrent ==
    \A t \in Links : link[t].live =>
        /\ link[t].purpose = "email_change" => link[t].under = account[link[t].user].pw
        /\ link[t].purpose = "reset" => link[t].under >= account[link[t].user].reset

AccountsInv ==
    /\ TypeOK /\ AccountShape /\ LinkShape /\ RequestShape
    /\ SessionsCurrent /\ LinksCurrent /\ VerifiedIsProved
-----------------------------------------------------------------------------
(***************************************************************************)
(* Requests.                                                               *)
(***************************************************************************)

LEMMA Init0 == Init => AccountsInv
<1> SUFFICES ASSUME Init PROVE AccountsInv
  OBVIOUS
<1>1. TypeOK
  BY AccountsAssumption
  DEF Init, TypeOK, Absent, NoSession, Unminted, Idle, Live, RequestStates
<1>2. AccountShape /\ VerifiedIsProved
  BY DEF Init, AccountShape, Absent, Live, VerifiedIsProved
<1>3. LinkShape /\ LinksCurrent
  BY DEF Init, LinkShape, LinksCurrent, Unminted, Purposes
<1>4. RequestShape
  BY DEF Init, RequestShape, ActsFor, Mails, Verifies, HoldsItsLink, Idle
<1>5. SessionsCurrent
  BY DEF Init, SessionsCurrent, FreeSession, NoSession
<1> QED
  BY <1>1, <1>2, <1>3, <1>4, <1>5 DEF AccountsInv

LEMMA Fields ==
    ASSUME TypeOK, NEW r \in Requests
    PROVE  /\ req[r].op = "signup" => req[r].email \in Emails /\ req[r].code \in Codes \cup {NoCode}
           /\ req[r].op \in {"password", "refused", "enter"} => req[r].email \in Emails
           /\ req[r].op \in {"enter", "signed_in", "issue", "verify", "reset", "email_change"} =>
                 req[r].user \in Users
           /\ req[r].op = "signed_in" => req[r].pw \in 0..MaxWrites
           /\ req[r].op = "issue" => /\ req[r].purpose \in Purposes /\ req[r].to \in Emails
                                     /\ req[r].carries \in Emails \cup {NoEmail}
           /\ req[r].op \in {"verify", "reset", "email_change"} => req[r].link \in Links
           /\ req[r].op = "email_change" => req[r].carries \in Emails
           /\ req[r].op = "idle" => req[r] = Idle
<1>1. req[r] \in RequestStates
  BY DEF TypeOK
<1> QED
  BY <1>1 DEF RequestStates, Idle

LEMMA Becomes ==
    ASSUME TypeOK, NEW r \in Requests, NEW state \in RequestStates, Become(r, state)
    PROVE  /\ req' \in [Requests -> RequestStates]
           /\ req'[r] = state
           /\ \A q \in Requests \ {r} : req'[q] = req[q]
BY DEF Become, TypeOK

\* Whether a link is held by others is a matter of the others.
LEMMA HeldByOthers ==
    ASSUME NEW r \in Requests, NEW q \in Requests, NEW t,
           \A p \in Requests \ {r} : req'[p] = req[p],
           req'[r].op \notin {"reset", "email_change"}, ~ LockedByOther(q, t)
    PROVE  ~ LockedByOther(q, t)'
BY DEF LockedByOther, Holds

\* What the other requests have read stays true when request r writes: no account is
\* forgotten, an account that lives keeps its proofs, a new address is proved, and the
\* links that others hold are left alone.
LEMMA RequestsHold ==
    ASSUME TypeOK, RequestShape, NEW r \in Requests,
           \A q \in Requests \ {r} : req'[q] = req[q],
           req'[r].op \notin {"reset", "email_change"},
           ActsFor(r)', Mails(r)', Verifies(r)',
           \A u \in Users : Born(u) =>
               /\ Born(u)'
               /\ Live(u)' =>
                    /\ Live(u)
                    /\ \A e : <<u, e>> \in proved => <<u, e>> \in proved'
                    /\ \/ /\ account'[u].email = account[u].email
                          /\ account[u].verified => account'[u].verified
                       \/ /\ account'[u].verified
                          /\ <<u, account'[u].email>> \in proved',
           \A t \in Links :
               /\ link[t].purpose \in {"verify", "dead"} => link'[t].purpose \in {"verify", "dead"}
               /\ LockedByOther(r, t) => link'[t] = link[t] /\ Live(link[t].user)'
    PROVE  RequestShape'
<1> SUFFICES ASSUME NEW q \in Requests, q # r
             PROVE  (ActsFor(q) /\ Mails(q) /\ Verifies(q) /\ HoldsItsLink(q))'
  <2>1. HoldsItsLink(r)'
    BY DEF HoldsItsLink
  <2> QED
    BY <2>1 DEF RequestShape
<1>0. req'[q] = req[q]
  OBVIOUS
<1>1. ActsFor(q) /\ Mails(q) /\ Verifies(q) /\ HoldsItsLink(q)
  BY DEF RequestShape
<1>2. ActsFor(q)'
  BY <1>0, <1>1 DEF ActsFor
<1>3. Mails(q)'
  <2> SUFFICES ASSUME req[q].op = "issue", req[q].purpose = "verify", Live(req[q].user)'
               PROVE  \/ account'[req[q].user].verified
                      \/ req[q].to = account'[req[q].user].email
    BY <1>0, <1>1 DEF Mails
  <2>1. PICK u \in Users : u = req[q].user /\ Born(u)
    BY <1>1 DEF ActsFor
  <2> QED
    BY <1>1, <2>1 DEF Mails
<1>4. Verifies(q)'
  <2> SUFFICES ASSUME req[q].op = "verify"
               PROVE  /\ link'[req[q].link].purpose \in {"verify", "dead"}
                      /\ Live(req[q].user)' =>
                            <<req[q].user, account'[req[q].user].email>> \in proved'
    BY <1>0 DEF Verifies
  <2>1. PICK u \in Users : u = req[q].user /\ Born(u)
    BY <1>1 DEF ActsFor
  <2>2. req[q].link \in Links
    BY Fields
  <2> QED
    BY <1>1, <2>1, <2>2 DEF Verifies
<1>5. HoldsItsLink(q)'
  <2> SUFFICES ASSUME req[q].op \in {"reset", "email_change"}
               PROVE  /\ GetLive(req[q].link, req[q].op)'
                      /\ link'[req[q].link].user = req[q].user
                      /\ ~ LockedByOther(q, req[q].link)'
                      /\ req[q].op = "email_change" => <<req[q].user, req[q].carries>> \in proved'
    BY <1>0 DEF HoldsItsLink, LockedByOther, Holds
  <2>1. PICK u \in Users, t \in Links : u = req[q].user /\ t = req[q].link /\ Born(u)
    BY <1>1, Fields DEF ActsFor
  <2>2. LockedByOther(r, t)
    BY <2>1 DEF LockedByOther, Holds
  <2>3. link'[t] = link[t] /\ Live(u)'
    BY <1>1, <2>1, <2>2 DEF HoldsItsLink
  <2>4. ~ LockedByOther(q, t)'
    BY <1>1, <2>1, HeldByOthers DEF HoldsItsLink
  <2> QED
    BY <1>0, <1>1, <2>1, <2>3, <2>4 DEF HoldsItsLink, GetLive
<1> QED
  BY <1>2, <1>3, <1>4, <1>5

LEMMA RequestsFrame ==
    ASSUME RequestShape, UNCHANGED <<account, link, proved, req>>
    PROVE  RequestShape'
BY DEF RequestShape, ActsFor, Mails, Verifies, HoldsItsLink, GetLive, LockedByOther, Holds,
       Live, Born

LEMMA RequestsQuiet ==
    ASSUME TypeOK, RequestShape, NEW r \in Requests, UNCHANGED <<account, link, proved>>,
           \A q \in Requests \ {r} : req'[q] = req[q],
           req'[r].op \notin {"verify", "reset", "email_change"}, ActsFor(r)', Mails(r)'
    PROVE  RequestShape'
<1>1. Verifies(r)'
  BY DEF Verifies
<1>2. ASSUME NEW t \in Links, LockedByOther(r, t) PROVE Live(link[t].user)'
  <2>1. PICK q \in Requests : req[q].op \in {"reset", "email_change"} /\ req[q].link = t
    BY <1>2 DEF LockedByOther, Holds
  <2>2. link[t].live
    BY <2>1 DEF RequestShape, HoldsItsLink, GetLive
  <2> QED
    BY <2>2 DEF TypeOK, Live
<1>3. \A u : Born(u)' = Born(u) /\ Live(u)' = Live(u)
  BY DEF Born, Live
<1> QED
  BY <1>1, <1>2, <1>3, RequestsHold

\* Steps that write no account, no link and no proof.
QuietRequest(r) ==
    \/ \E e \in Emails, c \in Codes \cup {NoCode} : StartSignup(r, e, c)
    \/ \E e \in Emails : StartLogin(r, e)
    \/ \E p \in 1..MaxWrites : CheckPassword(r, p)
    \/ RecordFailure(r)
    \/ \E s \in Sessions : Enter(r, s) \/ GetCurrentUser(r, s)
    \/ \E p \in 1..MaxWrites, e \in Emails : RequestEmailChange(r, p, e)
    \/ \E e \in Emails : RequestVerification(r, e) \/ RequestPasswordReset(r, e)
    \/ Abort(r)

\* What such a request becomes: what it has read is true.
Truthful(state) ==
    /\ state.op \notin {"verify", "reset", "email_change"}
    /\ state.op \in {"enter", "signed_in", "issue"} => state.user \in Users /\ Born(state.user)
    /\ state.op = "issue" /\ state.purpose = "email_change" => state.to = state.carries
    /\ state.op = "issue" /\ state.purpose = "verify" => state.to = account[state.user].email

LEMMA QuietShape ==
    ASSUME AccountsInv, NEW r \in Requests, QuietRequest(r)
    PROVE  \E state \in RequestStates : Become(r, state) /\ Truthful(state)
<1>0. TypeOK /\ AccountShape /\ RequestShape
  BY DEF AccountsInv
<1>1. ASSUME NEW e \in Emails, NEW c \in Codes \cup {NoCode}, StartSignup(r, e, c)
      PROVE  \E state \in RequestStates : Become(r, state) /\ Truthful(state)
  <2>1. /\ [op |-> "signup", email |-> e, code |-> c] \in RequestStates
        /\ Truthful([op |-> "signup", email |-> e, code |-> c])
    BY DEF RequestStates, Truthful
  <2> QED
    BY <1>1, <2>1 DEF StartSignup
<1>2. ASSUME NEW e \in Emails, StartLogin(r, e)
      PROVE  \E state \in RequestStates : Become(r, state) /\ Truthful(state)
  <2>1. /\ [op |-> "password", email |-> e] \in RequestStates
        /\ Truthful([op |-> "password", email |-> e])
    BY DEF RequestStates, Truthful
  <2> QED
    BY <1>2, <2>1 DEF StartLogin
<1>3. ASSUME NEW p \in 1..MaxWrites, CheckPassword(r, p)
      PROVE  \E state \in RequestStates : Become(r, state) /\ Truthful(state)
  <2>1. PICK e \in Emails : e = req[r].email
    BY <1>0, <1>3, Fields DEF CheckPassword
  <2>2. CASE Become(r, [op |-> "refused", email |-> e])
    <3>1. /\ [op |-> "refused", email |-> e] \in RequestStates
          /\ Truthful([op |-> "refused", email |-> e])
      BY DEF RequestStates, Truthful
    <3> QED
      BY <2>2, <3>1
  <2>3. CASE \E u \in UserAt(e) : Become(r, [op |-> "enter", email |-> e, user |-> u])
    <3>1. PICK u \in UserAt(e) : Become(r, [op |-> "enter", email |-> e, user |-> u])
      BY <2>3
    <3>2. u \in Users /\ Born(u)
      BY <1>0, AccountsAssumption DEF UserAt, AccountShape, Live
    <3>3. /\ [op |-> "enter", email |-> e, user |-> u] \in RequestStates
          /\ Truthful([op |-> "enter", email |-> e, user |-> u])
      BY <3>2 DEF RequestStates, Truthful
    <3> QED
      BY <3>1, <3>3
  <2> QED
    BY <1>3, <2>1, <2>2, <2>3 DEF CheckPassword
<1>4. ASSUME NEW s \in Sessions, GetCurrentUser(r, s)
      PROVE  \E state \in RequestStates : Become(r, state) /\ Truthful(state)
  <2>1. PICK u \in Users : u = session[s].user /\ Born(u) /\ account[u].pw \in 0..MaxWrites
    <3>1. session[s].user # NoUser
      BY <1>4 DEF GetCurrentUser, AccountsInv, SessionsCurrent
    <3> QED
      BY <1>0, <3>1 DEF TypeOK, AccountShape
  <2>2. /\ [op |-> "signed_in", user |-> u, pw |-> account[u].pw] \in RequestStates
        /\ Truthful([op |-> "signed_in", user |-> u, pw |-> account[u].pw])
    BY <2>1 DEF RequestStates, Truthful
  <2> QED
    BY <1>4, <2>1, <2>2 DEF GetCurrentUser
<1>5. ASSUME NEW p \in 1..MaxWrites, NEW e \in Emails, RequestEmailChange(r, p, e)
      PROVE  \E state \in RequestStates : Become(r, state) /\ Truthful(state)
  <2>1. PICK u \in Users : u = req[r].user /\ Born(u)
    BY <1>0, <1>5 DEF RequestEmailChange, RequestShape, ActsFor
  <2> DEFINE state == [op |-> "issue", purpose |-> "email_change", user |-> u, to |-> e,
                       carries |-> e]
  <2>2. state \in RequestStates /\ Truthful(state)
    BY <2>1 DEF RequestStates, Truthful, Purposes
  <2> QED
    BY <1>5, <2>1, <2>2 DEF RequestEmailChange
<1>6. ASSUME NEW e \in Emails, RequestVerification(r, e) \/ RequestPasswordReset(r, e)
      PROVE  \E state \in RequestStates : Become(r, state) /\ Truthful(state)
  <2>1. PICK u \in UserAt(e), purpose \in {"verify", "reset"} : AskFor(r, purpose, u)
    BY <1>6 DEF RequestVerification, RequestPasswordReset
  <2>2. u \in Users /\ account[u].email = e /\ Born(u)
    BY <1>0, AccountsAssumption DEF UserAt, AccountShape, Live
  <2> DEFINE state == [op |-> "issue", purpose |-> purpose, user |-> u, to |-> e,
                       carries |-> NoEmail]
  <2>3. state \in RequestStates /\ Truthful(state)
    BY <2>2 DEF RequestStates, Truthful, Purposes
  <2> QED
    BY <2>1, <2>2, <2>3 DEF AskFor
<1>7. ASSUME Become(r, Idle)
      PROVE  \E state \in RequestStates : Become(r, state) /\ Truthful(state)
  <2>1. Idle \in RequestStates /\ Truthful(Idle)
    BY DEF RequestStates, Truthful, Idle
  <2> QED
    BY <1>7, <2>1
<1> QED
  BY <1>1, <1>2, <1>3, <1>4, <1>5, <1>6, <1>7
  DEF QuietRequest, RecordFailure, Enter, Abort
-----------------------------------------------------------------------------
(***************************************************************************)
(* Steps that write no account, no link and no proof.                      *)
(***************************************************************************)

Hint    == Emails \cup {NoEmail}
Invites == [Codes -> [issued : BOOLEAN, hint : Hint, by : SUBSET Users]]

LEMMA SessionWrites ==
    ASSUME TypeOK, NEW s \in Sessions, NEW u \in Users, NEW under \in 0..MaxWrites
    PROVE  /\ OpenSession(session, s, u, under) \in [Sessions -> [user : Users \cup {NoUser},
                                                                  under : 0..MaxWrites]]
           /\ OpenSession(session, s, u, under)[s] = [user |-> u, under |-> under]
           /\ \A x \in Sessions \ {s} : OpenSession(session, s, u, under)[x] = session[x]
BY DEF TypeOK, OpenSession

\* A session is left alone, ended, or opened under the password of the moment.
SessionsFollow ==
    /\ session' \in [Sessions -> [user : Users \cup {NoUser}, under : 0..MaxWrites]]
    /\ \A s \in Sessions :
          \/ session'[s] \in {session[s], NoSession}
          \/ \E u \in Users : Live(u) /\ session'[s] = [user |-> u, under |-> account[u].pw]

LEMMA QuietKeeps ==
    ASSUME AccountsInv, UNCHANGED <<account, link, proved>>, SessionsFollow, RequestShape',
           req' \in [Requests -> RequestStates], failures' \in [Emails -> Nat],
           invite' \in Invites
    PROVE  AccountsInv'
<1>0. TypeOK /\ SessionsCurrent
  BY DEF AccountsInv
<1>1. \A s \in Sessions :
        /\ session'[s].user = NoUser => session'[s] = NoSession
        /\ session'[s].user # NoUser =>
              Live(session'[s].user) /\ session'[s].under = account[session'[s].user].pw
  BY <1>0, AccountsAssumption
  DEF SessionsFollow, SessionsCurrent, NoSession, FreeSession, TypeOK
<1>2. TypeOK'
  BY <1>0, <1>1 DEF TypeOK, SessionsFollow, Invites, Hint, Live
<1>3. SessionsCurrent'
  BY <1>1 DEF SessionsCurrent, FreeSession
<1>4. AccountShape' /\ LinkShape' /\ LinksCurrent' /\ VerifiedIsProved'
  BY DEF AccountsInv, AccountShape, Live, Born, LinkShape, LinksCurrent, VerifiedIsProved
<1> QED
  BY <1>2, <1>3, <1>4 DEF AccountsInv

LEMMA QuietRequestStep ==
    ASSUME AccountsInv, NEW r \in Requests, QuietRequest(r)
    PROVE  AccountsInv'
<1>0. TypeOK /\ RequestShape
  BY DEF AccountsInv
<1>1. UNCHANGED <<account, link, proved>>
  BY DEF QuietRequest, StartSignup, StartLogin, CheckPassword, RecordFailure, Enter,
         GetCurrentUser, RequestEmailChange, RequestVerification, RequestPasswordReset, Abort
<1>2. PICK state \in RequestStates : Become(r, state) /\ Truthful(state)
  BY QuietShape
<1>3. /\ req' \in [Requests -> RequestStates] /\ req'[r] = state
      /\ \A q \in Requests \ {r} : req'[q] = req[q]
  BY <1>0, <1>2, Becomes
<1>4. ActsFor(r)' /\ Mails(r)'
  BY <1>1, <1>2, <1>3 DEF Truthful, ActsFor, Mails, Born, Live
<1>5. RequestShape'
  BY <1>0, <1>1, <1>2, <1>3, <1>4, RequestsQuiet DEF Truthful
<1>6. failures' \in [Emails -> Nat]
  <2>1. CASE RecordFailure(r)
    BY <1>0, <2>1, Fields DEF RecordFailure, TypeOK
  <2>2. CASE \E s \in Sessions : Enter(r, s)
    BY <1>0, <2>2, Fields DEF Enter, TypeOK
  <2>3. CASE UNCHANGED failures
    BY <1>0, <2>3 DEF TypeOK
  <2> QED
    BY <2>1, <2>2, <2>3
    DEF QuietRequest, StartSignup, StartLogin, CheckPassword, GetCurrentUser,
        RequestEmailChange, RequestVerification, RequestPasswordReset, Abort
<1>7. SessionsFollow
  <2>1. ASSUME NEW s \in Sessions, Enter(r, s) PROVE SessionsFollow
    <3>1. PICK u \in Users : u = req[r].user /\ Live(u)
      BY <1>0, <2>1, Fields DEF Enter
    <3>2. account[u].pw \in 0..MaxWrites
      BY <1>0 DEF TypeOK
    <3>3. session' = OpenSession(session, s, u, account[u].pw)
      BY <2>1, <3>1 DEF Enter
    <3>4. /\ session' \in [Sessions -> [user : Users \cup {NoUser}, under : 0..MaxWrites]]
          /\ session'[s] = [user |-> u, under |-> account[u].pw]
          /\ \A x \in Sessions \ {s} : session'[x] = session[x]
      BY <1>0, <3>2, <3>3, SessionWrites
    <3> QED
      BY <3>1, <3>4, Zenon DEF SessionsFollow
  <2>2. CASE UNCHANGED session
    BY <1>0, <2>2 DEF TypeOK, SessionsFollow
  <2> QED
    BY <2>1, <2>2
    DEF QuietRequest, StartSignup, StartLogin, CheckPassword, RecordFailure, GetCurrentUser,
        RequestEmailChange, RequestVerification, RequestPasswordReset, Abort
<1>8. invite' \in Invites
  BY <1>0
  DEF QuietRequest, StartSignup, StartLogin, CheckPassword, RecordFailure, Enter,
      GetCurrentUser, RequestEmailChange, RequestVerification, RequestPasswordReset, Abort,
      TypeOK, Invites, Hint
<1> QED
  BY <1>1, <1>3, <1>5, <1>6, <1>7, <1>8, QuietKeeps

LEMMA TimeStep ==
    ASSUME AccountsInv,
           \/ \E s \in Sessions : Logout(s) \/ SessionExpires(s)
           \/ \E e \in Emails : FailureAges(e)
           \/ \E c \in Codes, hint \in Hint : CreateInvite(c, hint)
           \/ UNCHANGED vars
    PROVE  AccountsInv'
<1>0. TypeOK /\ RequestShape
  BY DEF AccountsInv
<1>1. UNCHANGED <<account, link, proved, req>>
  BY DEF Logout, SessionExpires, FailureAges, CreateInvite, vars
<1>2. RequestShape' /\ req' \in [Requests -> RequestStates]
  BY <1>0, <1>1, RequestsFrame DEF TypeOK
<1>3. failures' \in [Emails -> Nat]
  BY <1>0 DEF Logout, SessionExpires, FailureAges, CreateInvite, vars, TypeOK
<1>4. invite' \in Invites
  <2>1. ASSUME NEW c \in Codes, NEW hint \in Hint, CreateInvite(c, hint)
        PROVE  invite' \in Invites
    <3>1. PICK i \in [issued : BOOLEAN, hint : Hint, by : SUBSET Users] :
            i = [issued |-> TRUE, hint |-> hint, by |-> {}]
      OBVIOUS
    <3>2. invite' = [invite EXCEPT ![c] = i]
      BY <2>1, <3>1 DEF CreateInvite
    <3> QED
      BY <1>0, <3>1, <3>2 DEF TypeOK, Invites, Hint
  <2>2. CASE UNCHANGED invite
    BY <1>0, <2>2 DEF TypeOK, Invites, Hint
  <2> QED
    BY <2>1, <2>2 DEF Logout, SessionExpires, FailureAges, CreateInvite, vars
<1>5. SessionsFollow
  <2>1. ASSUME NEW s \in Sessions, session' = [session EXCEPT ![s] = NoSession]
        PROVE  SessionsFollow
    <3>1. NoSession \in [user : Users \cup {NoUser}, under : 0..MaxWrites]
      BY AccountsAssumption DEF NoSession
    <3> QED
      BY <1>0, <2>1, <3>1 DEF SessionsFollow, TypeOK
  <2>2. CASE UNCHANGED session
    BY <1>0, <2>2 DEF SessionsFollow, TypeOK
  <2> QED
    BY <2>1, <2>2 DEF Logout, SessionExpires, FailureAges, CreateInvite, vars
<1> QED
  BY <1>1, <1>2, <1>3, <1>4, <1>5, QuietKeeps
-----------------------------------------------------------------------------
(***************************************************************************)
(* Opening a link proves its address.                                      *)
(***************************************************************************)

Opens(r, t) == OpenVerify(r, t) \/ OpenReset(r, t) \/ OpenEmailChange(r, t)

LEMMA OpenStep ==
    ASSUME AccountsInv, NEW r \in Requests, NEW t \in Links, Opens(r, t)
    PROVE  AccountsInv'
<1>0. TypeOK /\ LinkShape /\ RequestShape
  BY DEF AccountsInv
<1>1. /\ UNCHANGED <<account, session, link, failures, invite>>
      /\ proved' = proved \cup {<<link[t].user, link[t].to>>}
      /\ req[r] = Idle
  BY DEF Opens, OpenVerify, OpenReset, OpenEmailChange, Opened
<1>2. PICK u \in Users, e \in Emails, op \in Purposes :
        /\ u = link[t].user /\ e = link[t].to /\ op = link[t].purpose
        /\ link[t].live /\ Live(u) /\ Born(u)
  <2>1. link[t].live /\ link[t].to # NoEmail
    BY DEF Opens, OpenVerify, OpenReset, OpenEmailChange, CanLock, GetLive
  <2>2. link[t].user \in Users /\ Live(link[t].user) /\ link[t].to \in Emails
    BY <1>0, <2>1 DEF LinkShape, TypeOK, Live
  <2> QED
    BY <1>0, <2>1, <2>2 DEF LinkShape, AccountsInv, AccountShape
<1>3. PICK state \in RequestStates :
        /\ Become(r, state) /\ state.op = op /\ state.link = t /\ state.user = u
        /\ op = "email_change" => state.carries = e
  <2>1. CASE OpenVerify(r, t)
    <3>1. [op |-> "verify", link |-> t, user |-> u] \in RequestStates
      BY DEF RequestStates
    <3> QED
      BY <1>2, <2>1, <3>1 DEF OpenVerify, GetLive
  <2>2. CASE OpenReset(r, t)
    <3>1. [op |-> "reset", link |-> t, user |-> u] \in RequestStates
      BY DEF RequestStates
    <3> QED
      BY <1>2, <2>2, <3>1 DEF OpenReset, CanLock, GetLive
  <2>3. CASE OpenEmailChange(r, t)
    <3>1. link[t].carries = e /\ op = "email_change"
      BY <1>0, <1>2, <2>3, AccountsAssumption DEF OpenEmailChange, CanLock, GetLive, LinkShape
    <3>2. [op |-> "email_change", link |-> t, user |-> u, carries |-> e] \in RequestStates
      BY DEF RequestStates
    <3> QED
      BY <1>2, <2>3, <3>1, <3>2 DEF OpenEmailChange
  <2> QED
    BY <2>1, <2>2, <2>3 DEF Opens
<1>4. /\ req' \in [Requests -> RequestStates] /\ req'[r] = state
      /\ \A q \in Requests \ {r} : req'[q] = req[q]
  BY <1>0, <1>3, Becomes
<1>5. op # "verify" => ~ Locked(t)
  BY <1>2 DEF Opens, OpenVerify, OpenReset, OpenEmailChange, CanLock, GetLive
<1>6. TypeOK'
  BY <1>0, <1>1, <1>2, <1>4 DEF TypeOK, Live
<1>7. ASSUME NEW q \in Requests, q # r
      PROVE  (ActsFor(q) /\ Mails(q) /\ Verifies(q) /\ HoldsItsLink(q))'
  <2>1. ActsFor(q) /\ Mails(q) /\ Verifies(q) /\ HoldsItsLink(q) /\ req'[q] = req[q]
    BY <1>0, <1>4, <1>7 DEF RequestShape
  <2>2. ActsFor(q)' /\ Mails(q)' /\ Verifies(q)'
    BY <1>1, <2>1 DEF ActsFor, Mails, Verifies, Born, Live
  <2>3. ASSUME NEW taken, taken = req[q].link, req[q].op \in {"reset", "email_change"}
        PROVE  ~ LockedByOther(q, taken)'
    <3>1. ~ LockedByOther(q, taken) /\ Holds(q, taken)
      BY <2>1, <2>3 DEF HoldsItsLink, Holds
    <3>2. ~ Holds(r, taken)'
      BY <1>3, <1>4, <1>5, <3>1 DEF Holds, Locked
    <3> QED
      BY <1>4, <3>1, <3>2 DEF LockedByOther, Holds
  <2>4. HoldsItsLink(q)'
    BY <1>1, <2>1, <2>3 DEF HoldsItsLink, GetLive, LockedByOther, Holds
  <2> QED
    BY <2>2, <2>4
<1>8. (ActsFor(r) /\ Mails(r) /\ Verifies(r) /\ HoldsItsLink(r))'
  <2>1. ActsFor(r)' /\ Mails(r)'
    BY <1>1, <1>2, <1>3, <1>4 DEF ActsFor, Mails, Born, Purposes
  <2>2. Verifies(r)'
    <3> SUFFICES ASSUME op = "verify" PROVE <<u, account[u].email>> \in proved'
      BY <1>1, <1>2, <1>3, <1>4 DEF Verifies
    <3>1. e = account[u].email \/ account[u].verified
      BY <1>0, <1>2, AccountsAssumption DEF LinkShape
    <3> QED
      BY <1>1, <1>2, <3>1 DEF AccountsInv, VerifiedIsProved
  <2>3. op # "verify" => ~ LockedByOther(r, t)'
    BY <1>4, <1>5 DEF LockedByOther, Locked, Holds
  <2>4. HoldsItsLink(r)'
    BY <1>1, <1>2, <1>3, <1>4, <2>3 DEF HoldsItsLink, GetLive
  <2> QED
    BY <2>1, <2>2, <2>4
<1>9. AccountShape' /\ LinkShape' /\ SessionsCurrent' /\ LinksCurrent' /\ VerifiedIsProved'
  BY <1>1
  DEF AccountsInv, AccountShape, LinkShape, SessionsCurrent, FreeSession, LinksCurrent,
      VerifiedIsProved, Live, Born
<1> QED
  BY <1>6, <1>7, <1>8, <1>9 DEF AccountsInv, RequestShape
-----------------------------------------------------------------------------
(***************************************************************************)
(* Steps that write accounts and links.                                    *)
(***************************************************************************)

AccountRows == [Users -> [email : Emails \cup {NoEmail}, verified : BOOLEAN,
                       pw : 0..MaxWrites, reset : 0..MaxWrites]]
LinkRow  == [purpose : Purposes \cup {"none", "dead"}, user : Users \cup {NoUser},
             to : Emails \cup {NoEmail}, carries : Emails \cup {NoEmail},
             live : BOOLEAN, under : 0..MaxWrites, uses : 0..2]

\* What is left of a link that is over.
Over(uses) == [purpose |-> "dead", user |-> NoUser, to |-> NoEmail, carries |-> NoEmail,
               live |-> FALSE, under |-> 0, uses |-> uses]

LEMMA DeadIsOver ==
    ASSUME NEW ln, NEW t PROVE Dead(ln, t) = Over(ln[t].uses)
<1>1. PICK k : k = ln[t].uses
  OBVIOUS
<1>2. Dead(ln, t) = [Unminted EXCEPT !.purpose = "dead", !.uses = k]
  BY <1>1 DEF Dead
<1> QED
  BY <1>1, <1>2 DEF Unminted, Over

\* The keys that TypeOK states.
AddressesUnique ==
    \A u, v \in Users : Live(u) /\ account[u].email = account[v].email => u = v
SessionsOwned == \A s \in Sessions : session[s].user # NoUser => Live(session[s].user)
LinksOwned    == \A t \in Links : link[t].live => Live(link[t].user)

\* An account that exists stays what it was, or proves a new address, or goes for good.
Moves ==
    \A u \in Users : Born(u) =>
        /\ Born(u)'
        /\ Live(u)' =>
             /\ Live(u)
             /\ \A e : <<u, e>> \in proved => <<u, e>> \in proved'
             /\ \/ /\ account'[u].email = account[u].email
                   /\ account[u].verified => account'[u].verified
                \/ /\ account'[u].verified
                   /\ <<u, account'[u].email>> \in proved'

\* A link is left as it is, to an account whose password it may still outlive, or is over.
Kept(t) ==
    /\ link'[t] = link[t]
    /\ link[t].live =>
         /\ Live(link[t].user)'
         /\ link[t].purpose = "email_change" =>
               account'[link[t].user].pw = account[link[t].user].pw
         /\ link[t].purpose = "reset" =>
               account'[link[t].user].reset = account[link[t].user].reset
Retires ==
    /\ link' = [t \in Links |-> link'[t]]
    /\ \A t \in Links : Kept(t) \/ (\E k \in 0..1 : link'[t] = Over(k))

LEMMA LinksKeep ==
    ASSUME AccountsInv, Moves, Retires
    PROVE  /\ link' \in [Links -> LinkRow]
           /\ LinksOwned' /\ LinkShape' /\ LinksCurrent'
<1>0. TypeOK /\ AccountShape /\ LinkShape /\ LinksCurrent
  BY DEF AccountsInv
<1>1. \A k \in 0..1 : /\ Over(k) \in LinkRow /\ ~ Over(k).live /\ Over(k).uses = k
                      /\ Over(k).purpose = "dead"
  BY AccountsAssumption DEF Over, LinkRow
<1>2. \A t \in Links : link[t] \in LinkRow
  BY <1>0 DEF TypeOK, LinkRow
<1>3. \A t \in Links : link'[t] \in LinkRow
  BY <1>1, <1>2 DEF Retires, Kept
<1>4. link' \in [Links -> LinkRow]
  BY <1>3 DEF Retires
<1>5. LinksOwned'
  BY <1>1 DEF Retires, Kept, Live, LinksOwned
<1>6. ASSUME NEW t \in Links, link'[t] = link[t], link[t].live
      PROVE  \/ ~ (link[t].purpose = "verify")
             \/ link[t].to \in {NoEmail, account'[link[t].user].email}
             \/ account'[link[t].user].verified
  <2>1. Live(link[t].user)'
    BY <1>5, <1>6 DEF LinksOwned
  <2>2. link[t].user \in Users /\ Born(link[t].user)
    BY <1>0, <1>6 DEF LinkShape, TypeOK, AccountShape
  <2> QED
    BY <1>0, <1>6, <2>1, <2>2 DEF Moves, LinkShape
<1>7. LinkShape'
  <2> SUFFICES ASSUME NEW t \in Links
               PROVE  /\ link'[t].live <=> link'[t].purpose \in Purposes
                      /\ link'[t].uses <= 1
                      /\ link'[t].live => link'[t].user \in Users /\ link'[t].uses = 0
                      /\ link'[t].live /\ link'[t].purpose = "email_change" =>
                            /\ link'[t].carries \in Emails
                            /\ link'[t].to \in {NoEmail, link'[t].carries}
                      /\ link'[t].live /\ link'[t].purpose = "verify" =>
                            \/ link'[t].to \in {NoEmail, account'[link'[t].user].email}
                            \/ account'[link'[t].user].verified
    BY DEF LinkShape
  <2>1. CASE link'[t] = link[t]
    BY <1>0, <1>6, <2>1 DEF LinkShape
  <2>2. CASE \E k \in 0..1 : link'[t] = Over(k)
    BY <1>1, <2>2 DEF Purposes
  <2> QED
    BY <2>1, <2>2 DEF Retires, Kept
<1>8. LinksCurrent'
  BY <1>0, <1>1 DEF Retires, Kept, LinksCurrent
<1> QED
  BY <1>4, <1>5, <1>7, <1>8

LEMMA WriteKeeps ==
    ASSUME AccountsInv, NEW r \in Requests, Moves, Retires,
           \A t \in Links : LockedByOther(r, t) => link'[t] = link[t],
           req' \in [Requests -> RequestStates],
           \A q \in Requests \ {r} : req'[q] = req[q],
           req'[r].op \notin {"reset", "email_change"},
           ActsFor(r)', Mails(r)', Verifies(r)',
           account' \in AccountRows, AccountShape', VerifiedIsProved',
           AddressesUnique',
           session' \in [Sessions -> [user : Users \cup {NoUser}, under : 0..MaxWrites]],
           SessionsCurrent', SessionsOwned',
           failures' \in [Emails -> Nat], invite' \in Invites,
           proved' \subseteq Users \X Emails
    PROVE  AccountsInv'
<1>0. TypeOK /\ RequestShape /\ LinkShape
  BY DEF AccountsInv
<1>1. /\ link' \in [Links -> LinkRow]
      /\ LinksOwned' /\ LinkShape' /\ LinksCurrent'
  BY LinksKeep
<1>2. TypeOK'
  BY <1>1 DEF TypeOK, AccountRows, Invites, Hint, LinkRow, AddressesUnique, SessionsOwned,
              LinksOwned
<1>3. ASSUME NEW t \in Links
      PROVE  /\ link[t].purpose \in {"verify", "dead"} => link'[t].purpose \in {"verify", "dead"}
             /\ LockedByOther(r, t) => link'[t] = link[t] /\ Live(link[t].user)'
  <2>1. ASSUME LockedByOther(r, t) PROVE link[t].live
    BY <1>0, <2>1 DEF LockedByOther, Holds, RequestShape, HoldsItsLink, GetLive
  <2> QED
    BY <1>1, <2>1 DEF Retires, Kept, Over
<1>4. RequestShape'
  BY <1>0, <1>3, RequestsHold DEF Moves
<1> QED
  BY <1>1, <1>2, <1>4 DEF AccountsInv

LEMMA Uses ==
    ASSUME AccountsInv, NEW t \in Links
    PROVE  link[t].uses \in 0..1 /\ (link[t].live => link[t].uses = 0)
BY DEF AccountsInv, TypeOK, LinkShape

\* A link that is retired was alive, so whoever retires it waits for whoever holds it.
LEMMA Retirement ==
    ASSUME AccountsInv, NEW r, NEW u \in Users, NEW purpose \in Purposes, CanRetire(r, u, purpose),
           NEW t \in Links, link[t].user = u, link[t].purpose = purpose
    PROVE  ~ LockedByOther(r, t)
BY DEF AccountsInv, LinkShape, GetLive, CanRetire

AccountRow == [email : Emails \cup {NoEmail}, verified : BOOLEAN,
               pw : 0..MaxWrites, reset : 0..MaxWrites]

LEMMA AccountWrites ==
    ASSUME TypeOK, NEW u \in Users, NEW row \in AccountRow, account' = [account EXCEPT ![u] = row]
    PROVE  /\ account' \in AccountRows /\ account'[u] = row
           /\ \A v \in Users \ {u} : account'[v] = account[v]
BY DEF TypeOK, AccountRows, AccountRow

LEMMA IdleRequest ==
    ASSUME TypeOK, NEW r \in Requests, Become(r, Idle)
    PROVE  /\ req' \in [Requests -> RequestStates]
           /\ \A q \in Requests \ {r} : req'[q] = req[q]
           /\ req'[r].op \notin {"reset", "email_change"}
           /\ ActsFor(r)' /\ Mails(r)' /\ Verifies(r)'
<1>1. Idle \in RequestStates
  BY DEF RequestStates
<1>2. req' \in [Requests -> RequestStates] /\ req'[r] = Idle
      /\ \A q \in Requests \ {r} : req'[q] = req[q]
  BY <1>1, Becomes
<1> QED
  BY <1>2 DEF Idle, ActsFor, Mails, Verifies

\* A password is written: what the one before it let in is gone with the same commit.
LEMMA ChangePasswordStep ==
    ASSUME AccountsInv, NEW r \in Requests, NEW p \in 1..MaxWrites, NEW s \in Sessions,
           ChangePassword(r, p, s)
    PROVE  AccountsInv'
<1>0. TypeOK /\ AccountShape /\ LinkShape /\ SessionsCurrent
  BY DEF AccountsInv
<1>1. PICK u \in Users : u = req[r].user
  BY <1>0, Fields DEF ChangePassword
<1>2. /\ Live(u) /\ account[u].pw < MaxWrites /\ CanRetire(r, u, "email_change")
      /\ account' = [account EXCEPT ![u].pw = @ + 1]
      /\ DropSessions(session, u)[s] = NoSession
      /\ session' = OpenSession(DropSessions(session, u), s, u, account[u].pw + 1)
      /\ link' = RetirePending(link, u)
      /\ Become(r, Idle) /\ UNCHANGED <<failures, invite, proved>>
  BY <1>1 DEF ChangePassword
<1>3. PICK pw \in 0..MaxWrites : pw = account[u].pw + 1
  BY <1>0, <1>2, AccountsAssumption DEF TypeOK
<1>4. PICK row \in AccountRow : row = [account[u] EXCEPT !.pw = pw]
  <2>1. account[u] \in AccountRow
    BY <1>0 DEF TypeOK, AccountRow
  <2> QED
    BY <2>1 DEF AccountRow
<1>5. /\ account' \in AccountRows
      /\ \A v \in Users \ {u} : account'[v] = account[v]
      /\ account'[u].pw = pw /\ account'[u].email = account[u].email
      /\ account'[u].verified = account[u].verified /\ account'[u].reset = account[u].reset
  <2>1. account' = [account EXCEPT ![u] = row]
    BY <1>0, <1>2, <1>3, <1>4 DEF TypeOK
  <2>2. account[u] \in AccountRow
    BY <1>0 DEF TypeOK, AccountRow
  <2>3. /\ row.pw = pw /\ row.email = account[u].email
        /\ row.verified = account[u].verified /\ row.reset = account[u].reset
    BY <1>4, <2>2 DEF AccountRow
  <2>4. /\ account' \in AccountRows /\ account'[u] = row
        /\ \A v \in Users \ {u} : account'[v] = account[v]
    BY <1>0, <2>1, AccountWrites
  <2> QED
    BY <2>3, <2>4
<1>6. \A v \in Users : Live(v)' = Live(v) /\ (Born(v) => Born(v)')
  BY <1>0, <1>3, <1>5 DEF Live, Born, TypeOK
<1>7. Moves
  BY <1>2, <1>5, <1>6 DEF Moves
<1>8. \A t \in Links : link'[t] = IF link[t].user = u /\ link[t].purpose = "email_change"
                                  THEN Over(link[t].uses) ELSE link[t]
  BY <1>2, DeadIsOver DEF RetirePending, RetireLive
<1>9. Retires
  <2>1. ASSUME NEW t \in Links, link'[t] = link[t],
               ~ (link[t].user = u /\ link[t].purpose = "email_change")
        PROVE  Kept(t)
    <3>1. link[t].live => link[t].user \in Users /\ Live(link[t].user)
      BY <1>0 DEF LinkShape, TypeOK
    <3> QED
      BY <1>5, <1>6, <2>1, <3>1 DEF Kept
  <2>2. link' = [t \in Links |-> link'[t]]
    BY <1>2 DEF RetirePending, RetireLive
  <2> QED
    BY <1>8, <2>1, <2>2, Uses DEF Retires
<1>10. \A t \in Links : LockedByOther(r, t) => link'[t] = link[t]
  BY <1>2, <1>8, Retirement DEF Purposes
<1>11. AccountShape'
  BY <1>0, <1>3, <1>5, <1>6 DEF AccountShape, TypeOK, Born
<1>12. VerifiedIsProved' /\ AddressesUnique'
  BY <1>0, <1>2, <1>5, <1>6 DEF AccountsInv, VerifiedIsProved, AddressesUnique, TypeOK
<1>13. \A x \in Sessions :
         session'[x] = IF x = s THEN [user |-> u, under |-> pw]
                       ELSE IF session[x].user = u THEN NoSession ELSE session[x]
  BY <1>2, <1>3 DEF OpenSession, DropSessions
<1>14. session' \in [Sessions -> [user : Users \cup {NoUser}, under : 0..MaxWrites]]
  <2>1. NoSession \in [user : Users \cup {NoUser}, under : 0..MaxWrites]
    BY AccountsAssumption DEF NoSession
  <2>2. session' = [x \in Sessions |-> session'[x]]
    BY <1>2 DEF OpenSession, DropSessions
  <2> QED
    BY <1>0, <1>13, <2>1, <2>2 DEF TypeOK
<1>15. SessionsCurrent' /\ SessionsOwned'
  <2> SUFFICES ASSUME NEW x \in Sessions
               PROVE  /\ session'[x].user = NoUser => session'[x] = NoSession
                      /\ session'[x].user # NoUser =>
                            /\ account'[session'[x].user].email # NoEmail
                            /\ session'[x].under = account'[session'[x].user].pw
    BY DEF SessionsCurrent, SessionsOwned, FreeSession, Live
  <2>1. CASE x = s
    BY <1>2, <1>5, <1>13, <2>1, AccountsAssumption DEF Live
  <2>2. CASE x # s /\ session[x].user = u
    BY <1>13, <2>2 DEF NoSession
  <2>3. CASE x # s /\ session[x].user # u
    <3>1. session'[x] = session[x]
      BY <1>13, <2>3
    <3>2. session[x].user # NoUser => session[x].user \in Users /\ Live(session[x].user)
      BY <1>0 DEF TypeOK
    <3> QED
      BY <1>0, <1>5, <2>3, <3>1, <3>2 DEF SessionsCurrent, FreeSession, Live
  <2> QED
    BY <2>1, <2>2, <2>3
<1>16. failures' \in [Emails -> Nat] /\ invite' \in Invites /\ proved' \subseteq Users \X Emails
  BY <1>0, <1>2 DEF TypeOK, Invites, Hint
<1> QED
  BY <1>0, <1>2, <1>5, <1>7, <1>9, <1>10, <1>11, <1>12, <1>14, <1>15, <1>16, IdleRequest,
     WriteKeeps

LEMMA AbsentRow ==
    /\ Absent \in AccountRow /\ Absent.email = NoEmail /\ Absent.verified = FALSE
    /\ Absent.pw = 0 /\ Absent.reset = 0
BY AccountsAssumption DEF Absent, AccountRow

LEMMA GoneRow ==
    /\ Gone \in AccountRow /\ Gone.email = NoEmail /\ Gone.verified = FALSE
    /\ Gone.pw = 1 /\ Gone.reset = 0
<1>1. Gone.email = NoEmail /\ Gone.verified = FALSE /\ Gone.pw = 1 /\ Gone.reset = 0
  BY DEF Gone, Absent
<1>2. 1 \in 0..MaxWrites
  BY AccountsAssumption
<1>3. Gone \in AccountRow
  BY <1>2, AbsentRow DEF Gone, AccountRow
<1> QED
  BY <1>1, <1>3

\* An account goes, and everything of it; a link of it that somebody holds is waited for.
LEMMA DeleteAccountStep ==
    ASSUME AccountsInv, NEW r \in Requests, NEW p \in 1..MaxWrites, DeleteAccount(r, p)
    PROVE  AccountsInv'
<1>0. TypeOK /\ AccountShape /\ LinkShape /\ SessionsCurrent
  BY DEF AccountsInv
<1>1. PICK u \in Users : u = req[r].user
  BY <1>0, Fields DEF DeleteAccount
<1>2. /\ \A t \in Links : link[t].user = u => ~ LockedByOther(r, t)
      /\ account' = [account EXCEPT ![u] = Gone]
      /\ session' = DropSessions(session, u)
      /\ link' = [t \in Links |-> IF link[t].user = u THEN Dead(link, t) ELSE link[t]]
      /\ proved' = {fact \in proved : fact[1] # u}
      /\ Become(r, Idle) /\ UNCHANGED <<failures, invite>>
  BY <1>1 DEF DeleteAccount
<1>3. /\ Gone \in AccountRow /\ Gone.email = NoEmail /\ Gone.verified = FALSE
      /\ Gone.pw = 1 /\ Gone.reset = 0
  BY GoneRow
<1>4. /\ account' \in AccountRows /\ account'[u] = Gone
      /\ \A v \in Users \ {u} : account'[v] = account[v]
  BY <1>0, <1>2, <1>3, AccountWrites
<1>5. /\ ~ Live(u)' /\ Born(u)'
      /\ \A v \in Users \ {u} : Live(v)' = Live(v) /\ Born(v)' = Born(v)
  BY <1>3, <1>4 DEF Live, Born
<1>6. Moves
  BY <1>2, <1>4, <1>5 DEF Moves
<1>7. \A t \in Links : link'[t] = IF link[t].user = u THEN Over(link[t].uses) ELSE link[t]
  BY <1>2, DeadIsOver
<1>8. Retires
  <2>1. ASSUME NEW t \in Links, link'[t] = link[t], link[t].user # u PROVE Kept(t)
    <3>1. link[t].live => link[t].user \in Users /\ Live(link[t].user)
      BY <1>0 DEF LinkShape, TypeOK
    <3> QED
      BY <1>4, <1>5, <2>1, <3>1 DEF Kept
  <2> QED
    BY <1>2, <1>7, <2>1, Uses DEF Retires
<1>9. \A t \in Links : LockedByOther(r, t) => link'[t] = link[t]
  BY <1>2, <1>7
<1>10. AccountShape'
  BY <1>0, <1>3, <1>4, <1>5 DEF AccountShape, TypeOK
<1>11. VerifiedIsProved'
  BY <1>2, <1>3, <1>4 DEF AccountsInv, VerifiedIsProved
<1>12. AddressesUnique'
  BY <1>0, <1>3, <1>4, <1>5 DEF AddressesUnique, TypeOK, Live
<1>13. \A x \in Sessions :
         session'[x] = IF session[x].user = u THEN NoSession ELSE session[x]
  BY <1>2 DEF DropSessions
<1>14. session' \in [Sessions -> [user : Users \cup {NoUser}, under : 0..MaxWrites]]
  <2>1. NoSession \in [user : Users \cup {NoUser}, under : 0..MaxWrites]
    BY AccountsAssumption DEF NoSession
  <2>2. session' = [x \in Sessions |-> session'[x]]
    BY <1>2 DEF DropSessions
  <2> QED
    BY <1>0, <1>13, <2>1, <2>2 DEF TypeOK
<1>15. SessionsCurrent' /\ SessionsOwned'
  <2> SUFFICES ASSUME NEW x \in Sessions
               PROVE  /\ session'[x].user = NoUser => session'[x] = NoSession
                      /\ session'[x].user # NoUser =>
                            /\ account'[session'[x].user].email # NoEmail
                            /\ session'[x].under = account'[session'[x].user].pw
    BY DEF SessionsCurrent, SessionsOwned, FreeSession, Live
  <2>1. CASE session[x].user = u
    BY <1>13, <2>1 DEF NoSession
  <2>2. CASE session[x].user # u
    <3>1. session'[x] = session[x]
      BY <1>13, <2>2
    <3>2. session[x].user # NoUser => session[x].user \in Users /\ Live(session[x].user)
      BY <1>0 DEF TypeOK
    <3> QED
      BY <1>0, <1>4, <2>2, <3>1, <3>2 DEF SessionsCurrent, FreeSession, Live
  <2> QED
    BY <2>1, <2>2
<1>16. failures' \in [Emails -> Nat] /\ invite' \in Invites /\ proved' \subseteq Users \X Emails
  BY <1>0, <1>2 DEF TypeOK, Invites, Hint
<1> QED
  BY <1>0, <1>2, <1>4, <1>6, <1>8, <1>9, <1>10, <1>11, <1>12, <1>14, <1>15, <1>16,
     IdleRequest, WriteKeeps

\* A user id that was never given is nobody's yet: no session, no link and no request.
LEMMA CommitSignupStep ==
    ASSUME AccountsInv, NEW r \in Requests, NEW u \in Users, NEW s \in Sessions, CommitSignup(r, u, s)
    PROVE  AccountsInv'
<1>0. TypeOK /\ AccountShape /\ LinkShape /\ SessionsCurrent
  BY DEF AccountsInv
<1>1. PICK e \in Emails : e = req[r].email
  BY <1>0, Fields DEF CommitSignup
<1>2. CASE AddressIsTaken(e)
  <2>1. /\ Become(r, Idle)
        /\ UNCHANGED <<account, session, invite, link, failures, proved>>
    BY <1>1, <1>2 DEF CommitSignup
  <2>2. RequestShape'
    BY <1>0, <2>1, IdleRequest, RequestsQuiet DEF AccountsInv, Idle, Become, TypeOK
  <2>3. SessionsFollow
    BY <1>0, <2>1 DEF SessionsFollow, TypeOK
  <2> QED
    BY <1>0, <2>1, <2>2, <2>3, IdleRequest, QuietKeeps DEF TypeOK, Invites, Hint
<1>3. CASE ~ AddressIsTaken(e)
  <2>1. PICK code \in Codes \cup {NoCode} : code = req[r].code
    BY <1>0, Fields DEF CommitSignup
  <2>2. PICK state :
          state = [op |-> "issue", purpose |-> "verify", user |-> u, to |-> e, carries |-> NoEmail]
    OBVIOUS
  <2>3. /\ account[u] = Absent /\ FreeSession(s)
        /\ account' = [account EXCEPT ![u] = [Absent EXCEPT !.email = e, !.pw = 1]]
        /\ session' = OpenSession(session, s, u, 1)
        /\ invite' = SpendInvite(code, u)
        /\ Become(r, state) /\ UNCHANGED <<link, failures, proved>>
    BY <1>1, <1>3, <2>1, <2>2 DEF CommitSignup
  <2>4. PICK row \in AccountRow :
          /\ row = [Absent EXCEPT !.email = e, !.pw = 1]
          /\ row.email = e /\ row.verified = FALSE /\ row.pw = 1 /\ row.reset = 0
    <3>1. 1 \in 0..MaxWrites
      BY AccountsAssumption
    <3>2. PICK row : row = [Absent EXCEPT !.email = e, !.pw = 1]
      OBVIOUS
    <3>3. row \in AccountRow
      BY <3>1, <3>2, AbsentRow DEF AccountRow
    <3>4. row.email = e /\ row.verified = FALSE /\ row.pw = 1 /\ row.reset = 0
      BY <3>2, AbsentRow DEF AccountRow
    <3> QED
      BY <3>2, <3>3, <3>4
  <2>5. /\ account' \in AccountRows /\ account'[u] = row
        /\ \A v \in Users \ {u} : account'[v] = account[v]
    BY <1>0, <2>3, <2>4, AccountWrites
  <2>6. ~ Born(u) /\ ~ Live(u)
    BY <2>3 DEF Born, Live, Absent
  <2>7. /\ Live(u)' /\ Born(u)'
        /\ \A v \in Users \ {u} : Live(v)' = Live(v) /\ Born(v)' = Born(v)
    BY <2>4, <2>5, AccountsAssumption DEF Live, Born
  <2>8. Moves
    BY <2>3, <2>5, <2>6, <2>7 DEF Moves
  <2>9. Retires
    <3>1. ASSUME NEW t \in Links PROVE Kept(t)
      <4>1. link[t].live => link[t].user \in Users \ {u} /\ Live(link[t].user)
        BY <1>0, <2>6 DEF LinkShape, TypeOK
      <4> QED
        BY <2>3, <2>5, <2>7, <4>1 DEF Kept
    <3> QED
      BY <1>0, <2>3, <3>1 DEF Retires, TypeOK
  <2>10. state \in RequestStates
    BY <2>2 DEF RequestStates, Purposes
  <2>11. /\ req' \in [Requests -> RequestStates] /\ req'[r] = state
         /\ \A q \in Requests \ {r} : req'[q] = req[q]
    BY <1>0, <2>3, <2>10, Becomes
  <2>12. ActsFor(r)' /\ Mails(r)' /\ Verifies(r)' /\ req'[r].op \notin {"reset", "email_change"}
    <3>1. /\ state.op = "issue" /\ state.purpose = "verify" /\ state.user = u
          /\ state.to = account'[u].email
      BY <2>2, <2>4, <2>5
    <3> QED
      BY <2>7, <2>11, <3>1 DEF ActsFor, Mails, Verifies
  <2>13. AccountShape' /\ VerifiedIsProved'
    BY <1>0, <2>3, <2>4, <2>5, <2>7 DEF AccountsInv, AccountShape, VerifiedIsProved
  <2>14. AddressesUnique'
    <3> SUFFICES ASSUME NEW v \in Users, NEW w \in Users, Live(v)',
                        account'[v].email = account'[w].email
                 PROVE  v = w
      BY DEF AddressesUnique
    <3>1. \A x \in Users : account[x].email # e
      BY <1>3 DEF AddressIsTaken, UserAt
    <3>2. v # u /\ w # u => v = w
      BY <1>0, <2>5, <2>7 DEF TypeOK
    <3> QED
      BY <2>4, <2>5, <3>1, <3>2
  <2>15. 1 \in 0..MaxWrites
    BY AccountsAssumption
  <2>16. /\ session' \in [Sessions -> [user : Users \cup {NoUser}, under : 0..MaxWrites]]
         /\ session'[s] = [user |-> u, under |-> 1]
         /\ \A x \in Sessions \ {s} : session'[x] = session[x]
    BY <1>0, <2>3, <2>15, SessionWrites
  <2>17. SessionsCurrent' /\ SessionsOwned'
    <3> SUFFICES ASSUME NEW x \in Sessions
                 PROVE  /\ session'[x].user = NoUser => session'[x] = NoSession
                        /\ session'[x].user # NoUser =>
                              /\ account'[session'[x].user].email # NoEmail
                              /\ session'[x].under = account'[session'[x].user].pw
      BY DEF SessionsCurrent, SessionsOwned, FreeSession, Live
    <3>1. CASE x = s
      <4>1. session'[x].user = u /\ session'[x].under = 1
        BY <2>16, <3>1
      <4>2. u # NoUser /\ e # NoEmail
        BY AccountsAssumption
      <4> QED
        BY <2>4, <2>5, <4>1, <4>2
    <3>2. CASE x # s
      <4>1. session[x].user # NoUser => session[x].user \in Users \ {u} /\ Live(session[x].user)
        BY <1>0, <2>6 DEF TypeOK
      <4>2. session'[x] = session[x]
        BY <2>16, <3>2
      <4> QED
        BY <1>0, <2>5, <4>1, <4>2 DEF SessionsCurrent, FreeSession, Live
    <3> QED
      BY <3>1, <3>2
  <2>18. invite' \in Invites
    <3>1. CASE code = NoCode
      BY <1>0, <2>3, <3>1 DEF SpendInvite, TypeOK, Invites, Hint
    <3>2. CASE code # NoCode
      <4>1. invite' = [invite EXCEPT ![code] = [invite[code] EXCEPT !.by = @ \cup {u}]]
        BY <1>0, <2>1, <2>3, <3>2 DEF SpendInvite, TypeOK
      <4>2. invite[code] \in [issued : BOOLEAN, hint : Hint, by : SUBSET Users]
        BY <1>0, <2>1, <3>2 DEF TypeOK, Hint
      <4>3. [invite[code] EXCEPT !.by = @ \cup {u}]
              \in [issued : BOOLEAN, hint : Hint, by : SUBSET Users]
        BY <4>2
      <4> QED
        BY <1>0, <4>1, <4>3 DEF TypeOK, Invites, Hint
    <3> QED
      BY <3>1, <3>2
  <2>19. /\ failures' \in [Emails -> Nat] /\ proved' \subseteq Users \X Emails
         /\ \A t \in Links : link'[t] = link[t]
    BY <1>0, <2>3 DEF TypeOK
  <2> QED
    BY <2>5, <2>8, <2>9, <2>11, <2>12, <2>13, <2>14, <2>16, <2>17, <2>18, <2>19, WriteKeeps
<1> QED
  BY <1>2, <1>3

LEMMA UnmintedRow ==
    /\ Unminted \in LinkRow /\ Unminted.purpose = "none" /\ ~ Unminted.live
    /\ Unminted.uses = 0
BY AccountsAssumption DEF Unminted, LinkRow

\* A link is minted for the account of the moment, to the address in question.
LEMMA IssueStep ==
    ASSUME AccountsInv, NEW r \in Requests, NEW t \in Links, Issue(r, t)
    PROVE  AccountsInv'
<1>0. TypeOK /\ AccountShape /\ LinkShape /\ LinksCurrent /\ RequestShape
  BY DEF AccountsInv
<1>1. PICK u \in Users, purpose \in Purposes, to \in Emails \cup {NoEmail},
           carries \in Emails \cup {NoEmail} :
        /\ u = req[r].user /\ purpose = req[r].purpose /\ carries = req[r].carries
        /\ to \in {NoEmail, req[r].to}
        /\ link' = [link EXCEPT ![t] =
                      [Unminted EXCEPT !.purpose = purpose, !.user = u, !.to = to,
                                       !.carries = carries, !.live = TRUE,
                                       !.under = account[u].pw]]
  <2>1. /\ req[r].user \in Users /\ req[r].purpose \in Purposes
        /\ req[r].to \in Emails /\ req[r].carries \in Emails \cup {NoEmail}
    BY <1>0, Fields DEF Issue
  <2>2. PICK to : /\ to \in {NoEmail, req[r].to}
                  /\ link' = [link EXCEPT ![t] =
                       [Unminted EXCEPT !.purpose = req[r].purpose, !.user = req[r].user,
                                        !.to = to, !.carries = req[r].carries, !.live = TRUE,
                                        !.under = account[req[r].user].pw]]
    BY DEF Issue
  <2> QED
    BY <2>1, <2>2
<1>2. /\ Live(u) /\ link[t] = Unminted /\ Become(r, Idle)
      /\ UNCHANGED <<account, session, failures, invite, proved>>
  BY <1>1 DEF Issue
<1>3. PICK row \in LinkRow :
        /\ row = [Unminted EXCEPT !.purpose = purpose, !.user = u, !.to = to,
                                  !.carries = carries, !.live = TRUE, !.under = account[u].pw]
        /\ row.purpose = purpose /\ row.user = u /\ row.to = to /\ row.carries = carries
        /\ row.live /\ row.under = account[u].pw /\ row.uses = 0
  <2>1. account[u].pw \in 0..MaxWrites
    BY <1>0 DEF TypeOK
  <2>2. PICK row :
          row = [Unminted EXCEPT !.purpose = purpose, !.user = u, !.to = to,
                                 !.carries = carries, !.live = TRUE, !.under = account[u].pw]
    OBVIOUS
  <2>3. row \in LinkRow
    BY <2>1, <2>2, UnmintedRow DEF LinkRow
  <2>4. /\ row.purpose = purpose /\ row.user = u /\ row.to = to /\ row.carries = carries
        /\ row.live /\ row.under = account[u].pw /\ row.uses = 0
    BY <2>2, UnmintedRow DEF LinkRow
  <2> QED
    BY <2>2, <2>3, <2>4
<1>4. /\ link' \in [Links -> LinkRow] /\ link'[t] = row
      /\ \A x \in Links \ {t} : link'[x] = link[x]
  <2>1. link' = [link EXCEPT ![t] = row]
    BY <1>1, <1>3
  <2> QED
    BY <1>0, <2>1 DEF TypeOK, LinkRow
<1>5. /\ req' \in [Requests -> RequestStates] /\ req'[r] = Idle
      /\ \A q \in Requests \ {r} : req'[q] = req[q]
  BY <1>0, <1>2, Becomes DEF RequestStates
<1>6. TypeOK'
  <2>1. LinksOwned'
    <3> SUFFICES ASSUME NEW x \in Links, link'[x].live
                 PROVE  account[link'[x].user].email # NoEmail
      BY <1>2 DEF LinksOwned, Live
    <3>1. CASE x = t
      BY <1>2, <1>3, <1>4, <3>1 DEF Live
    <3>2. CASE x # t
      BY <1>0, <1>4, <3>2 DEF TypeOK, Live
    <3> QED
      BY <3>1, <3>2
  <2> QED
    BY <1>0, <1>2, <1>4, <1>5, <2>1 DEF TypeOK, LinksOwned, LinkRow, Live
<1>7. /\ purpose = "email_change" => carries \in Emails /\ to \in {NoEmail, carries}
      /\ purpose = "verify" => to \in {NoEmail, account[u].email} \/ account[u].verified
  <2>1. req[r].op = "issue" /\ req[r].to \in Emails
    BY <1>0, Fields DEF Issue
  <2> QED
    BY <1>0, <1>1, <1>2, <2>1 DEF RequestShape, Mails
<1>8. LinkShape'
  <2> SUFFICES ASSUME NEW x \in Links
               PROVE  /\ link'[x].live <=> link'[x].purpose \in Purposes
                      /\ link'[x].uses <= 1
                      /\ link'[x].live => link'[x].user \in Users /\ link'[x].uses = 0
                      /\ link'[x].live /\ link'[x].purpose = "email_change" =>
                            /\ link'[x].carries \in Emails
                            /\ link'[x].to \in {NoEmail, link'[x].carries}
                      /\ link'[x].live /\ link'[x].purpose = "verify" =>
                            \/ link'[x].to \in {NoEmail, account[link'[x].user].email}
                            \/ account[link'[x].user].verified
    BY <1>2 DEF LinkShape
  <2>1. CASE x = t
    <3>1. link'[x] = row
      BY <1>4, <2>1
    <3>2. row.live /\ row.purpose \in Purposes /\ row.uses = 0 /\ row.user = u
      BY <1>3
    <3>3. row.purpose = "email_change" => row.carries \in Emails /\ row.to \in {NoEmail, row.carries}
      BY <1>3, <1>7
    <3>4. row.purpose = "verify" =>
             row.to \in {NoEmail, account[row.user].email} \/ account[row.user].verified
      BY <1>3, <1>7
    <3> QED
      BY <3>1, <3>2, <3>3, <3>4
  <2>2. CASE x # t
    BY <1>0, <1>4, <2>2 DEF LinkShape
  <2> QED
    BY <2>1, <2>2
<1>9. LinksCurrent'
  <2>1. account[u].pw >= account[u].reset
    BY <1>0 DEF AccountShape, TypeOK
  <2> QED
    <3> SUFFICES ASSUME NEW x \in Links, link'[x].live
                 PROVE  /\ link'[x].purpose = "email_change" =>
                              link'[x].under = account[link'[x].user].pw
                        /\ link'[x].purpose = "reset" =>
                              link'[x].under >= account[link'[x].user].reset
      BY <1>2 DEF LinksCurrent
    <3>1. CASE x = t
      <4>1. link'[x].under = account[u].pw /\ link'[x].user = u
        BY <1>3, <1>4, <3>1
      <4> QED
        BY <2>1, <4>1
    <3>2. CASE x # t
      BY <1>0, <1>4, <3>2 DEF LinksCurrent
    <3> QED
      BY <3>1, <3>2
<1>10. RequestShape'
  <2> SUFFICES ASSUME NEW q \in Requests, q # r
               PROVE  (ActsFor(q) /\ Mails(q) /\ Verifies(q) /\ HoldsItsLink(q))'
    BY <1>0, <1>2, IdleRequest DEF RequestShape, HoldsItsLink
  <2>1. ActsFor(q) /\ Mails(q) /\ Verifies(q) /\ HoldsItsLink(q) /\ req'[q] = req[q]
    BY <1>0, <1>5 DEF RequestShape
  <2>2. req[q].op \in {"verify", "reset", "email_change"} =>
          req[q].link \in Links /\ req[q].link # t
    <3>1. link[t].purpose = "none" /\ ~ link[t].live
      BY <1>2 DEF Unminted
    <3> QED
      BY <1>0, <2>1, <3>1, Fields DEF Verifies, HoldsItsLink, GetLive
  <2>3. ActsFor(q)' /\ Mails(q)' /\ Verifies(q)'
    BY <1>2, <1>4, <2>1, <2>2 DEF ActsFor, Mails, Verifies, Born, Live
  <2>4. \A x : ~ LockedByOther(q, x) => ~ LockedByOther(q, x)'
    BY <1>5, HeldByOthers DEF Idle
  <2>5. HoldsItsLink(q)'
    <3> SUFFICES ASSUME NEW x, x = req[q].link, req[q].op \in {"reset", "email_change"}
                 PROVE  /\ link'[x].live /\ link'[x].purpose = req[q].op
                        /\ link'[x].user = req[q].user
                        /\ ~ LockedByOther(q, x)'
                        /\ req[q].op = "email_change" =>
                              <<req[q].user, req[q].carries>> \in proved
      BY <1>2, <2>1 DEF HoldsItsLink, GetLive, LockedByOther, Holds
    <3> QED
      BY <1>4, <2>1, <2>2, <2>4 DEF HoldsItsLink, GetLive
  <2> QED
    BY <2>3, <2>5
<1>11. AccountShape' /\ SessionsCurrent' /\ VerifiedIsProved'
  BY <1>2 DEF AccountsInv, AccountShape, SessionsCurrent, FreeSession, VerifiedIsProved, Live, Born
<1> QED
  BY <1>6, <1>8, <1>9, <1>10, <1>11 DEF AccountsInv

\* What a link that acted is, and what the others of the account that are retired with it are.
LEMMA UseAndRetire ==
    ASSUME AccountsInv, NEW t \in Links, link[t].live, NEW u \in Users
    PROVE  /\ Use(link, t) = [link EXCEPT ![t] = Over(1)]
           /\ \A x \in Links :
                /\ RetirePending(Use(link, t), u)[x] =
                     IF x = t THEN Over(1)
                     ELSE IF link[x].user = u /\ link[x].purpose = "email_change"
                     THEN Over(link[x].uses) ELSE link[x]
                /\ RetirePending(RetireLive(Use(link, t), u, "reset"), u)[x] =
                     IF x = t THEN Over(1)
                     ELSE IF link[x].user = u /\ link[x].purpose \in {"reset", "email_change"}
                     THEN Over(link[x].uses) ELSE link[x]
<1>0. TypeOK
  BY DEF AccountsInv
<1>1. PICK more : more = [link EXCEPT ![t].uses = @ + 1]
  OBVIOUS
<1>2. more[t].uses = 1
  <2>1. link[t] \in LinkRow /\ link[t].uses = 0
    BY <1>0, Uses DEF TypeOK, LinkRow
  <2>2. more[t] = [link[t] EXCEPT !.uses = @ + 1]
    BY <1>0, <1>1 DEF TypeOK
  <2> QED
    BY <2>1, <2>2 DEF LinkRow
<1>3. Dead(more, t) = Over(1)
  BY <1>2, DeadIsOver
<1>4. Use(link, t) = [link EXCEPT ![t] = Over(1)]
  BY <1>0, <1>1, <1>3 DEF Use, Consume, TypeOK
<1>5. PICK after : after = Use(link, t)
  OBVIOUS
<1>6. \A x \in Links : after[x] = IF x = t THEN Over(1) ELSE link[x]
  BY <1>0, <1>4, <1>5 DEF TypeOK
<1>7. Over(1).user # u
  BY AccountsAssumption DEF Over
<1>8. \A x \in Links : RetirePending(after, u)[x] =
        IF after[x].user = u /\ after[x].purpose = "email_change"
        THEN Over(after[x].uses) ELSE after[x]
  BY DeadIsOver DEF RetirePending, RetireLive
<1>9. PICK reset : reset = RetireLive(after, u, "reset")
  OBVIOUS
<1>10. \A x \in Links : reset[x] =
         IF after[x].user = u /\ after[x].purpose = "reset"
         THEN Over(after[x].uses) ELSE after[x]
  BY <1>9, DeadIsOver DEF RetireLive
<1>11. \A k : Over(k).user # u
  BY AccountsAssumption DEF Over
<1>12. \A x \in Links : RetirePending(reset, u)[x] =
         IF reset[x].user = u /\ reset[x].purpose = "email_change"
         THEN Over(reset[x].uses) ELSE reset[x]
  BY DeadIsOver DEF RetirePending, RetireLive
<1>13. ASSUME NEW x \in Links
       PROVE  RetirePending(reset, u)[x] =
                IF x = t THEN Over(1)
                ELSE IF link[x].user = u /\ link[x].purpose \in {"reset", "email_change"}
                THEN Over(link[x].uses) ELSE link[x]
  <2>1. CASE x = t
    BY <1>6, <1>7, <1>10, <1>12, <2>1
  <2>2. CASE x # t
    BY <1>6, <1>10, <1>11, <1>12, <2>2
  <2> QED
    BY <2>1, <2>2
<1>14. \A x \in Links : RetirePending(after, u)[x] =
         IF x = t THEN Over(1)
         ELSE IF link[x].user = u /\ link[x].purpose = "email_change"
         THEN Over(link[x].uses) ELSE link[x]
  BY <1>6, <1>7, <1>8
<1>15. \A x \in Links : RetirePending(RetireLive(after, u, "reset"), u)[x] =
         IF x = t THEN Over(1)
         ELSE IF link[x].user = u /\ link[x].purpose \in {"reset", "email_change"}
         THEN Over(link[x].uses) ELSE link[x]
  BY <1>9, <1>13
<1> QED
  BY <1>4, <1>5, <1>14, <1>15, Zenon

\* Verifying twice, or with a link that has been retired meanwhile, says nothing new.
LEMMA CommitVerifyStep ==
    ASSUME AccountsInv, NEW r \in Requests, CommitVerify(r)
    PROVE  AccountsInv'
<1>0. TypeOK /\ AccountShape /\ LinkShape /\ SessionsCurrent /\ RequestShape
  BY DEF AccountsInv
<1>1. PICK u \in Users, t \in Links : u = req[r].user /\ t = req[r].link
  BY <1>0, Fields DEF CommitVerify
<1>2. /\ req[r].op = "verify" /\ Live(u)
      /\ account' = [account EXCEPT ![u].verified = TRUE]
      /\ link' = Consume(link, t) /\ Become(r, Idle)
      /\ UNCHANGED <<session, failures, invite, proved>>
  BY <1>1 DEF CommitVerify
<1>3. link[t].purpose \in {"verify", "dead"} /\ <<u, account[u].email>> \in proved
  BY <1>0, <1>1, <1>2 DEF RequestShape, Verifies
<1>4. account[u] \in AccountRow
  BY <1>0 DEF TypeOK, AccountRow
<1>5. PICK row : row = [account[u] EXCEPT !.verified = TRUE]
  OBVIOUS
<1>6. /\ row \in AccountRow /\ row.email = account[u].email /\ row.verified
      /\ row.pw = account[u].pw /\ row.reset = account[u].reset
  BY <1>4, <1>5 DEF AccountRow
<1>7. /\ account' \in AccountRows /\ account'[u] = row
      /\ \A v \in Users \ {u} : account'[v] = account[v]
  <2>1. account' = [account EXCEPT ![u] = row]
    BY <1>0, <1>2, <1>5 DEF TypeOK
  <2> QED
    BY <1>0, <1>6, <2>1, AccountWrites
<1>8. \A v \in Users : /\ account'[v].email = account[v].email /\ account'[v].pw = account[v].pw
                       /\ account'[v].reset = account[v].reset
                       /\ account[v].verified => account'[v].verified
  BY <1>6, <1>7
<1>9. \A v \in Users : Live(v)' = Live(v) /\ Born(v)' = Born(v)
  BY <1>8 DEF Live, Born
<1>10. Moves
  BY <1>2, <1>8, <1>9 DEF Moves
<1>11. \A x \in Links : link'[x] = IF x = t THEN Over(link[t].uses) ELSE link[x]
  BY <1>0, <1>2, DeadIsOver DEF Consume, TypeOK
<1>12. Retires
  <2>1. ASSUME NEW x \in Links, x # t PROVE Kept(x)
    <3>1. link[x].live => link[x].user \in Users /\ Live(link[x].user)
      BY <1>0 DEF LinkShape, TypeOK
    <3> QED
      BY <1>8, <1>9, <1>11, <2>1, <3>1 DEF Kept
  <2>2. link' = [x \in Links |-> link'[x]]
    BY <1>0, <1>2 DEF Consume, TypeOK
  <2> QED
    BY <1>11, <2>1, <2>2, Uses DEF Retires
<1>13. ASSUME NEW x \in Links, LockedByOther(r, x) PROVE link'[x] = link[x]
  <2>1. link[x].purpose \in {"reset", "email_change"}
    BY <1>0, <1>13 DEF LockedByOther, Holds, RequestShape, HoldsItsLink, GetLive
  <2> QED
    BY <1>3, <1>11, <2>1
<1>14. AccountShape' /\ AddressesUnique'
  BY <1>0, <1>8, <1>9 DEF AccountShape, AddressesUnique, TypeOK
<1>15. VerifiedIsProved'
  BY <1>2, <1>3, <1>6, <1>7 DEF AccountsInv, VerifiedIsProved
<1>16. SessionsCurrent' /\ SessionsOwned'
  <2>1. \A x \in Sessions : session[x].user # NoUser => session[x].user \in Users /\ Live(session[x].user)
    BY <1>0 DEF TypeOK
  <2> QED
    BY <1>0, <1>2, <1>8, <1>9, <2>1 DEF SessionsCurrent, SessionsOwned, FreeSession, Live
<1>17. /\ session' \in [Sessions -> [user : Users \cup {NoUser}, under : 0..MaxWrites]]
       /\ failures' \in [Emails -> Nat] /\ invite' \in Invites /\ proved' \subseteq Users \X Emails
  BY <1>0, <1>2 DEF TypeOK, Invites, Hint
<1> QED
  BY <1>0, <1>2, <1>7, <1>10, <1>12, <1>13, <1>14, <1>15, <1>16, <1>17, IdleRequest, WriteKeeps

\* A link that is held was opened for its own account, which lives.
LEMMA HeldLink ==
    ASSUME AccountsInv, NEW r \in Requests, req[r].op \in {"reset", "email_change"}
    PROVE  /\ req[r].user \in Users /\ req[r].link \in Links
           /\ link[req[r].link].live /\ link[req[r].link].purpose = req[r].op
           /\ link[req[r].link].user = req[r].user /\ Live(req[r].user)
           /\ \A q \in Requests \ {r} : ~ Holds(q, req[r].link)
<1>0. TypeOK /\ RequestShape
  BY DEF AccountsInv
<1>1. /\ GetLive(req[r].link, req[r].op) /\ link[req[r].link].user = req[r].user
      /\ ~ LockedByOther(r, req[r].link)
  BY <1>0 DEF RequestShape, HoldsItsLink
<1>2. req[r].user \in Users /\ req[r].link \in Links
  BY <1>0, Fields
<1> QED
  BY <1>0, <1>1, <1>2 DEF GetLive, TypeOK, LockedByOther

LEMMA CommitResetStep ==
    ASSUME AccountsInv, NEW r \in Requests, CommitReset(r)
    PROVE  AccountsInv'
<1>0. TypeOK /\ AccountShape /\ LinkShape /\ SessionsCurrent /\ RequestShape
  BY DEF AccountsInv
<1>1. PICK u \in Users, t \in Links :
        /\ u = req[r].user /\ t = req[r].link /\ Live(u)
        /\ link[t].live /\ link[t].user = u /\ \A q \in Requests \ {r} : ~ Holds(q, t)
  BY HeldLink DEF CommitReset
<1>2. /\ account[u].pw < MaxWrites
      /\ CanRetire(r, u, "reset") /\ CanRetire(r, u, "email_change")
      /\ link' = RetirePending(RetireLive(Use(link, t), u, "reset"), u)
      /\ account' = [account EXCEPT ![u].pw = @ + 1, ![u].reset = account[u].pw + 1]
      /\ session' = DropSessions(session, u)
      /\ failures' = [failures EXCEPT ![account[u].email] = 0]
      /\ Become(r, Idle) /\ UNCHANGED <<invite, proved>>
  BY <1>1 DEF CommitReset
<1>3. PICK pw \in 0..MaxWrites : pw = account[u].pw + 1
  BY <1>0, <1>2, AccountsAssumption DEF TypeOK
<1>4. account[u] \in AccountRow
  BY <1>0 DEF TypeOK, AccountRow
<1>5. PICK row : row = [account[u] EXCEPT !.pw = pw, !.reset = pw]
  OBVIOUS
<1>6. /\ row \in AccountRow /\ row.email = account[u].email
      /\ row.verified = account[u].verified /\ row.pw = pw /\ row.reset = pw
  BY <1>4, <1>5 DEF AccountRow
<1>7. /\ account' \in AccountRows /\ account'[u] = row
      /\ \A v \in Users \ {u} : account'[v] = account[v]
  <2>1. account' = [account EXCEPT ![u] = row]
    BY <1>0, <1>2, <1>3, <1>4, <1>5 DEF TypeOK
  <2> QED
    BY <1>0, <1>6, <2>1, AccountWrites
<1>8. \A v \in Users : account'[v].email = account[v].email
                       /\ account'[v].verified = account[v].verified
  BY <1>6, <1>7
<1>9. \A v \in Users : Live(v)' = Live(v) /\ (Born(v) => Born(v)')
  BY <1>0, <1>3, <1>6, <1>7, <1>8 DEF Live, Born, TypeOK
<1>10. Moves
  BY <1>2, <1>8, <1>9 DEF Moves
<1>11. \A x \in Links : link'[x] =
         IF x = t THEN Over(1)
         ELSE IF link[x].user = u /\ link[x].purpose \in {"reset", "email_change"}
         THEN Over(link[x].uses) ELSE link[x]
  BY <1>1, <1>2, UseAndRetire
<1>12. Retires
  <2>1. ASSUME NEW x \in Links, link'[x] = link[x],
               ~ (link[x].user = u /\ link[x].purpose \in {"reset", "email_change"})
        PROVE  Kept(x)
    <3>1. link[x].live => link[x].user \in Users /\ Live(link[x].user)
      BY <1>0 DEF LinkShape, TypeOK
    <3> QED
      BY <1>7, <1>9, <2>1, <3>1 DEF Kept
  <2>2. link' = [x \in Links |-> link'[x]]
    BY <1>2 DEF RetirePending, RetireLive
  <2> QED
    BY <1>11, <2>1, <2>2, Uses DEF Retires
<1>13. \A x \in Links : LockedByOther(r, x) => link'[x] = link[x]
  <2>1. ~ LockedByOther(r, t)
    BY <1>1 DEF LockedByOther
  <2> QED
    BY <1>2, <1>11, <2>1, Retirement DEF Purposes
<1>14. AccountShape'
  BY <1>0, <1>3, <1>6, <1>7, <1>9 DEF AccountShape, TypeOK, Born
<1>15. VerifiedIsProved' /\ AddressesUnique'
  BY <1>0, <1>2, <1>8, <1>9 DEF AccountsInv, VerifiedIsProved, AddressesUnique, TypeOK
<1>16. \A x \in Sessions :
         session'[x] = IF session[x].user = u THEN NoSession ELSE session[x]
  BY <1>2 DEF DropSessions
<1>17. session' \in [Sessions -> [user : Users \cup {NoUser}, under : 0..MaxWrites]]
  <2>1. NoSession \in [user : Users \cup {NoUser}, under : 0..MaxWrites]
    BY AccountsAssumption DEF NoSession
  <2>2. session' = [x \in Sessions |-> session'[x]]
    BY <1>2 DEF DropSessions
  <2> QED
    BY <1>0, <1>16, <2>1, <2>2 DEF TypeOK
<1>18. SessionsCurrent' /\ SessionsOwned'
  <2> SUFFICES ASSUME NEW x \in Sessions
               PROVE  /\ session'[x].user = NoUser => session'[x] = NoSession
                      /\ session'[x].user # NoUser =>
                            /\ account'[session'[x].user].email # NoEmail
                            /\ session'[x].under = account'[session'[x].user].pw
    BY DEF SessionsCurrent, SessionsOwned, FreeSession, Live
  <2>1. CASE session[x].user = u
    BY <1>16, <2>1 DEF NoSession
  <2>2. CASE session[x].user # u
    <3>1. session'[x] = session[x]
      BY <1>16, <2>2
    <3>2. session[x].user # NoUser => session[x].user \in Users /\ Live(session[x].user)
      BY <1>0 DEF TypeOK
    <3> QED
      BY <1>0, <1>7, <2>2, <3>1, <3>2 DEF SessionsCurrent, FreeSession, Live
  <2> QED
    BY <2>1, <2>2
<1>19. /\ failures' \in [Emails -> Nat] /\ invite' \in Invites
       /\ proved' \subseteq Users \X Emails
  BY <1>0, <1>2 DEF TypeOK, Invites, Hint
<1> QED
  BY <1>0, <1>2, <1>7, <1>10, <1>12, <1>13, <1>14, <1>15, <1>17, <1>18, <1>19, IdleRequest,
     WriteKeeps

\* The new address was proved when the link was opened, and nobody else has it.
LEMMA CommitEmailChangeStep ==
    ASSUME AccountsInv, NEW r \in Requests, CommitEmailChange(r)
    PROVE  AccountsInv'
<1>0. TypeOK /\ AccountShape /\ LinkShape /\ SessionsCurrent /\ RequestShape
  BY DEF AccountsInv
<1>1. PICK u \in Users, t \in Links :
        /\ u = req[r].user /\ t = req[r].link /\ Live(u)
        /\ link[t].live /\ link[t].user = u /\ \A q \in Requests \ {r} : ~ Holds(q, t)
  BY HeldLink DEF CommitEmailChange
<1>2. PICK e \in Emails : e = req[r].carries /\ <<u, e>> \in proved
  BY <1>0, <1>1, Fields DEF CommitEmailChange, RequestShape, HoldsItsLink
<1>3. Become(r, Idle) /\ UNCHANGED <<session, invite, proved>>
  BY DEF CommitEmailChange
<1>4. CASE AddressIsTaken(e)
  <2>1. UNCHANGED <<account, session, invite, link, failures, proved>>
    BY <1>2, <1>3, <1>4 DEF CommitEmailChange
  <2>2. RequestShape'
    BY <1>0, <1>3, <2>1, IdleRequest, RequestsQuiet DEF Idle, Become, TypeOK
  <2>3. SessionsFollow
    BY <1>0, <2>1 DEF SessionsFollow, TypeOK
  <2> QED
    BY <1>0, <1>3, <2>1, <2>2, <2>3, IdleRequest, QuietKeeps DEF TypeOK, Invites, Hint
<1>5. CASE ~ AddressIsTaken(e)
  <2>1. /\ CanRetire(r, u, "email_change")
        /\ link' = RetirePending(Use(link, t), u)
        /\ account' = [account EXCEPT ![u].email = e, ![u].verified = TRUE]
        /\ failures' = [failures EXCEPT ![e] = 0, ![account[u].email] = 0]
    BY <1>1, <1>2, <1>5 DEF CommitEmailChange
  <2>2. account[u] \in AccountRow
    BY <1>0 DEF TypeOK, AccountRow
  <2>3. PICK row : row = [account[u] EXCEPT !.email = e, !.verified = TRUE]
    OBVIOUS
  <2>4. /\ row \in AccountRow /\ row.email = e /\ row.verified
        /\ row.pw = account[u].pw /\ row.reset = account[u].reset
    BY <2>2, <2>3 DEF AccountRow
  <2>5. /\ account' \in AccountRows /\ account'[u] = row
        /\ \A v \in Users \ {u} : account'[v] = account[v]
    <3>1. account' = [account EXCEPT ![u] = row]
      BY <1>0, <2>1, <2>2, <2>3 DEF TypeOK
    <3> QED
      BY <1>0, <2>4, <3>1, AccountWrites
  <2>6. \A v \in Users : account'[v].pw = account[v].pw /\ account'[v].reset = account[v].reset
    BY <2>4, <2>5
  <2>7. \A v \in Users : Live(v)' = Live(v) /\ Born(v)' = Born(v)
    BY <1>1, <2>4, <2>5, <2>6, AccountsAssumption DEF Live, Born
  <2>8. Moves
    BY <1>1, <1>2, <1>3, <2>4, <2>5, <2>7 DEF Moves
  <2>9. \A x \in Links : link'[x] =
          IF x = t THEN Over(1)
          ELSE IF link[x].user = u /\ link[x].purpose = "email_change"
          THEN Over(link[x].uses) ELSE link[x]
    BY <1>1, <2>1, UseAndRetire
  <2>10. Retires
    <3>1. ASSUME NEW x \in Links, link'[x] = link[x] PROVE Kept(x)
      <4>1. link[x].live => link[x].user \in Users /\ Live(link[x].user)
        BY <1>0 DEF LinkShape, TypeOK
      <4> QED
        BY <2>6, <2>7, <3>1, <4>1 DEF Kept
    <3>2. link' = [x \in Links |-> link'[x]]
      BY <2>1 DEF RetirePending, RetireLive
    <3> QED
      BY <2>9, <3>1, <3>2, Uses DEF Retires
  <2>11. \A x \in Links : LockedByOther(r, x) => link'[x] = link[x]
    <3>1. ~ LockedByOther(r, t)
      BY <1>1 DEF LockedByOther
    <3> QED
      BY <2>1, <2>9, <3>1, Retirement DEF Purposes
  <2>12. AccountShape'
    BY <1>0, <2>6, <2>7 DEF AccountShape
  <2>13. VerifiedIsProved'
    BY <1>2, <1>3, <2>4, <2>5 DEF AccountsInv, VerifiedIsProved
  <2>14. AddressesUnique'
    <3> SUFFICES ASSUME NEW v \in Users, NEW w \in Users, Live(v)',
                        account'[v].email = account'[w].email
                 PROVE  v = w
      BY DEF AddressesUnique
    <3>1. \A x \in Users : account[x].email # e
      BY <1>5 DEF AddressIsTaken, UserAt
    <3>2. v # u /\ w # u => v = w
      BY <1>0, <2>5, <2>7 DEF TypeOK
    <3> QED
      BY <2>4, <2>5, <3>1, <3>2
  <2>15. SessionsCurrent' /\ SessionsOwned'
    <3>1. \A x \in Sessions :
            session[x].user # NoUser => session[x].user \in Users /\ Live(session[x].user)
      BY <1>0 DEF TypeOK
    <3> QED
      BY <1>0, <1>3, <2>6, <2>7, <3>1 DEF SessionsCurrent, SessionsOwned, FreeSession, Live
  <2>16. /\ session' \in [Sessions -> [user : Users \cup {NoUser}, under : 0..MaxWrites]]
         /\ failures' \in [Emails -> Nat] /\ invite' \in Invites
         /\ proved' \subseteq Users \X Emails
    BY <1>0, <1>3, <2>1 DEF TypeOK, Invites, Hint
  <2> QED
    BY <1>0, <1>3, <2>5, <2>8, <2>10, <2>11, <2>12, <2>13, <2>14, <2>15, <2>16, IdleRequest,
       WriteKeeps
<1> QED
  BY <1>4, <1>5

\* A link that is held does not expire under its holder.
LEMMA LinkExpiresStep ==
    ASSUME AccountsInv, NEW t \in Links, LinkExpires(t)
    PROVE  AccountsInv'
<1>0. TypeOK /\ LinkShape /\ RequestShape
  BY DEF AccountsInv
<1>1. /\ link[t].live /\ ~ Locked(t) /\ link' = [link EXCEPT ![t] = Over(link[t].uses)]
      /\ UNCHANGED <<account, session, failures, invite, req, proved>>
  BY DeadIsOver DEF LinkExpires, Consume
<1>2. \A x \in Links : link'[x] = IF x = t THEN Over(link[t].uses) ELSE link[x]
  BY <1>0, <1>1 DEF TypeOK
<1>3. \A u : Live(u)' = Live(u) /\ Born(u)' = Born(u)
  BY <1>1 DEF Live, Born
<1>4. Moves
  BY <1>1, <1>3 DEF Moves
<1>5. Retires
  <2>1. ASSUME NEW x \in Links, x # t PROVE Kept(x)
    BY <1>0, <1>1, <1>2, <2>1 DEF Kept, TypeOK, Live
  <2>2. link' = [x \in Links |-> link'[x]]
    BY <1>0, <1>1 DEF TypeOK
  <2> QED
    BY <1>2, <2>1, <2>2, Uses DEF Retires
<1>6. link' \in [Links -> LinkRow] /\ LinksOwned' /\ LinkShape' /\ LinksCurrent'
  BY <1>4, <1>5, LinksKeep
<1>7. TypeOK'
  BY <1>0, <1>1, <1>6 DEF TypeOK, LinkRow, LinksOwned, Live
<1>8. RequestShape'
  <2> SUFFICES ASSUME NEW q \in Requests
               PROVE  (ActsFor(q) /\ Mails(q) /\ Verifies(q) /\ HoldsItsLink(q))'
    BY DEF RequestShape
  <2>1. ActsFor(q) /\ Mails(q) /\ Verifies(q) /\ HoldsItsLink(q)
    BY <1>0 DEF RequestShape
  <2>2. ActsFor(q)' /\ Mails(q)'
    BY <1>1, <2>1 DEF ActsFor, Mails, Born, Live
  <2>3. Verifies(q)'
    <3> SUFFICES ASSUME req[q].op = "verify"
                 PROVE  link'[req[q].link].purpose \in {"verify", "dead"}
      BY <1>1, <2>1 DEF Verifies, Live
    <3>1. req[q].link \in Links
      BY <1>0, Fields
    <3> QED
      BY <1>2, <2>1, <3>1 DEF Verifies, Over
  <2>4. HoldsItsLink(q)'
    <3> SUFFICES ASSUME NEW taken, taken = req[q].link, req[q].op \in {"reset", "email_change"}
                 PROVE  link'[taken] = link[taken]
      BY <1>1, <2>1 DEF HoldsItsLink, GetLive, LockedByOther, Holds
    <3>1. taken \in Links /\ taken # t
      BY <1>0, <1>1, Fields DEF Locked, Holds
    <3> QED
      BY <1>2, <3>1
  <2> QED
    BY <2>2, <2>3, <2>4
<1>9. AccountShape' /\ SessionsCurrent' /\ VerifiedIsProved'
  BY <1>1 DEF AccountsInv, AccountShape, SessionsCurrent, FreeSession, VerifiedIsProved, Live, Born
<1> QED
  BY <1>6, <1>7, <1>8, <1>9 DEF AccountsInv

LEMMA Inductive == AccountsInv /\ [Next]_vars => AccountsInv'
<1> SUFFICES ASSUME AccountsInv, [Next]_vars PROVE AccountsInv'
  OBVIOUS
<1>1. ASSUME NEW r \in Requests, QuietRequest(r) PROVE AccountsInv'
  BY <1>1, QuietRequestStep
<1>2. ASSUME NEW r \in Requests, NEW t \in Links, Opens(r, t) \/ Issue(r, t) PROVE AccountsInv'
  BY <1>2, OpenStep, IssueStep
<1>3. ASSUME NEW r \in Requests,
             \/ \E u \in Users, s \in Sessions : CommitSignup(r, u, s)
             \/ \E p \in 1..MaxWrites, s \in Sessions : ChangePassword(r, p, s)
             \/ \E p \in 1..MaxWrites : DeleteAccount(r, p)
             \/ CommitVerify(r) \/ CommitReset(r) \/ CommitEmailChange(r)
      PROVE  AccountsInv'
  BY <1>3, CommitSignupStep, ChangePasswordStep, DeleteAccountStep, CommitVerifyStep,
     CommitResetStep, CommitEmailChangeStep
<1>4. ASSUME \/ \E s \in Sessions : Logout(s) \/ SessionExpires(s)
             \/ \E e \in Emails : FailureAges(e)
             \/ \E c \in Codes, hint \in Hint : CreateInvite(c, hint)
             \/ UNCHANGED vars
      PROVE  AccountsInv'
  BY <1>4, TimeStep
<1>5. ASSUME NEW t \in Links, LinkExpires(t) PROVE AccountsInv'
  BY <1>5, LinkExpiresStep
<1> QED
  BY <1>1, <1>2, <1>3, <1>4, <1>5 DEF Next, QuietRequest, Opens, Hint

LEMMA Invariant == Spec => []AccountsInv
BY Init0, Inductive, PTL DEF Spec
-----------------------------------------------------------------------------
(***************************************************************************)
(* Theorems.                                                               *)
(***************************************************************************)

\* A reset or change link does what it authorises at most once, whatever requests hold,
\* retire or expire links at the same time (email_token_repo: get_live with FOR UPDATE,
\* consume, retire_live_for_user); with it, the keys: one account to an address, and no
\* session and no live link of an account that is gone.
THEOREM LinksAlwaysActOnce == Spec => []LinksActOnce
<1>1. AccountsInv => LinksActOnce
  BY DEF AccountsInv, LinkShape, LinksActOnce
<1> QED
  BY <1>1, Invariant, PTL

\* A password write revokes what the one before it let in: no session and no pending
\* address change of the account predates it, no live reset link the last reset
\* (account_service.change_password, reset_service.consume).
THEOREM PasswordWritesRevoke == Spec => []PasswordWriteRevokes
<1>1. AccountsInv => PasswordWriteRevokes
  BY DEF AccountsInv, SessionsCurrent, LinksCurrent, PasswordWriteRevokes
<1> QED
  BY <1>1, Invariant, PTL

\* A verified address was proved: a link mailed to it was opened for the account that
\* has it (verification_service.consume, email_change_service.confirm).
THEOREM VerifiedIsAlwaysProved == Spec => []VerifiedIsProved
BY Invariant, PTL DEF AccountsInv

-----------------------------------------------------------------------------
(***************************************************************************)
(* Imports.                                                                *)
(***************************************************************************)


Status(j) == job[j].status

\* A list is reviewed or being written, and its job counts it.
ListShape(j) ==
    /\ IsFiniteSet(cand[j])
    /\ cand[j] # {} => Status(j) \in {"running", "awaiting_review"}
    /\ Status(j) = "awaiting_review" =>
          job[j].created = Cardinality(cand[j]) /\ job[j].done = job[j].total
    /\ Status(j) = "succeeded" =>
          job[j].follows = Cardinality(kept[j]) /\ job[j].follows <= job[j].created

\* Where a runner is says what state its job is in, and what it has counted.
RunnerAt(j) ==
    /\ task[j].at # "gone" => Status(j) # "absent"
    /\ task[j].at = "spawned" =>
          /\ Status(j) = "queued" /\ cand[j] = {}
          /\ task[j].done = 0 /\ task[j].created = 0
          /\ job[j].source # "tmdb" => task[j].total = job[j].total
    /\ task[j].at = "listing" =>
          Status(j) = "running" /\ cand[j] = {} /\ task[j].done = 0 /\ task[j].created = 0
    /\ task[j].at = "rows" =>
          /\ Status(j) = "running" /\ task[j].total = job[j].total
          /\ task[j].created = Cardinality(cand[j])
          /\ task[j].created <= task[j].done /\ task[j].done <= task[j].total

\* What a request has locked is a list of its user that nobody else has locked.
LocksHold(r) ==
    /\ \A j \in import[r].locks : Status(j) = "awaiting_review" /\ job[j].user = import[r].user
    /\ \A q \in ImportRequests \ {r} : import[q].locks \cap import[r].locks = {}
    /\ import[r].at = "confirm" => import[r].list = import[r].locks

OneOpenImport ==
    \A i, j \in Jobs : job[i].user = job[j].user /\ {Status(i), Status(j)} \subseteq Active => i = j

\* A request or a runner with a token acts for the user the token was issued to.
BoundTo(t, u) == token[t].user = u /\ token[t].st # "unissued"

RequestIsBound(r) ==
    /\ import[r].at # "idle" => import[r].user \in Importers
    /\ import[r].at \in {"spend", "exchange", "account", "undo"} => import[r].token # NoToken
    /\ import[r].at \in {"idle", "confirm"} => import[r].token = NoToken
    /\ import[r].token # NoToken => BoundTo(import[r].token, import[r].user)

RunnerIsBound(j) ==
    /\ task[j].at # "gone" => job[j].user \in Importers
    /\ task[j].at # "gone" => (job[j].source = "tmdb" <=> task[j].token # NoToken)
    /\ task[j].token # NoToken => task[j].at # "gone" /\ BoundTo(task[j].token, job[j].user)

HeldByRequest(r, t) ==
    import[r].at \in {"account", "discard", "check", "insert", "undo"} /\ import[r].token = t
HeldByRunner(j, t) ==
    task[j].at \in {"spawned", "listing", "rows", "closing", "failing"} /\ task[j].token = t

SessionIsHeld(t) ==
    tmdbSession[t] = "live" =>
        (\E r \in ImportRequests : HeldByRequest(r, t)) \/ (\E j \in Jobs : HeldByRunner(j, t))

Lists == \A j \in Jobs : ListShape(j) /\ RunnerAt(j)
Locks == \A r \in ImportRequests : LocksHold(r)
Bound == (\A r \in ImportRequests : RequestIsBound(r)) /\ (\A j \in Jobs : RunnerIsBound(j))
SessionRows == \A t \in Tokens : SessionIsHeld(t)

ImportsInv == ImportsTypeOK /\ Lists /\ Locks /\ OneOpenImport /\ Bound /\ SessionRows
-----------------------------------------------------------------------------
(***************************************************************************)
(* What a step leaves alone.                                               *)
(***************************************************************************)

\* The lists and their runners agree while jobs, lists and runners stand still.
LEMMA ListsStand == ASSUME Lists, UNCHANGED <<job, cand, task, kept>> PROVE Lists'
  BY DEF Lists, ListShape, RunnerAt, Status

\* Locks and open imports depend on the jobs and the requests alone.
LEMMA LocksStand == ASSUME Locks, UNCHANGED <<job, import>> PROVE Locks'
  BY DEF Locks, LocksHold, Status

LEMMA OneOpenStands == ASSUME OneOpenImport, UNCHANGED job PROVE OneOpenImport'
  BY DEF OneOpenImport, Status

\* The requests, and the runners, stay bound while the tokens stay issued as they are.
LEMMA RequestsStayBound ==
    ASSUME Bound, UNCHANGED <<import, token>>
    PROVE  \A r \in ImportRequests : RequestIsBound(r)'
  BY DEF Bound, RequestIsBound, BoundTo

LEMMA RunnersStayBound ==
    ASSUME Bound, UNCHANGED <<job, task, token>>
    PROVE  \A j \in Jobs : RunnerIsBound(j)'
  BY DEF Bound, RunnerIsBound, BoundTo

LEMMA SessionsStand == ASSUME SessionRows, UNCHANGED <<import, task, tmdbSession>> PROVE SessionRows'
  BY DEF SessionRows, SessionIsHeld, HeldByRequest, HeldByRunner

-----------------------------------------------------------------------------
(***************************************************************************)
(* A request that moves alone.                                             *)
(***************************************************************************)
AllButStay(r) == \A q \in ImportRequests \ {r} : import'[q] = import[q]

\* The request keeps what it works on.
SameWork(r) ==
    /\ import'[r].user = import[r].user /\ import'[r].token = import[r].token
    /\ import'[r].list = import[r].list /\ import'[r].locks = import[r].locks

LEMMA Served ==
    ASSUME ImportsTypeOK, NEW r \in ImportRequests,
           NEW at \in {"exchange", "account", "discard", "insert", "undo"}, Serve(r, at)
    PROVE  /\ import' \in [ImportRequests -> ImportStates]
           /\ AllButStay(r) /\ SameWork(r) /\ import'[r].at = at
<1>1. import \in [ImportRequests -> ImportStates] /\ import[r] \in ImportStates
  BY DEF ImportsTypeOK
<1>2. [import[r] EXCEPT !.at = at] \in ImportStates
  BY <1>1 DEF ImportStates
<1>3. import' = [import EXCEPT ![r] = [import[r] EXCEPT !.at = at]]
  BY <1>1 DEF Serve
<1>4. import'[r] = [import[r] EXCEPT !.at = at]
  BY <1>1, <1>3
<1>5. SameWork(r) /\ import'[r].at = at
  BY <1>1, <1>4 DEF ImportStates, SameWork
<1> QED
  BY <1>1, <1>2, <1>3, <1>5 DEF AllButStay

LEMMA Answered ==
    ASSUME ImportsTypeOK, NEW r \in ImportRequests, Answer(r)
    PROVE  /\ import' \in [ImportRequests -> ImportStates]
           /\ AllButStay(r) /\ import'[r] = NoRequest
<1>1. NoRequest \in ImportStates
  BY DEF NoRequest, ImportStates
<1> QED
  BY <1>1 DEF ImportsTypeOK, Answer, AllButStay

\* Requests are typed apart from the rest.
LEMMA Typed ==
    ASSUME ImportsTypeOK, import' \in [ImportRequests -> ImportStates],
           UNCHANGED <<job, cand, follow, held, entitled, task, restarts, kept>>,
           token' \in [Tokens -> TokenStates],
           tmdbSession' \in [Tokens -> {"none", "live", "deleted", "left", "lost"}]
    PROVE  ImportsTypeOK'
  BY DEF ImportsTypeOK

LEMMA LocksMove ==
    ASSUME Locks, NEW r \in ImportRequests, AllButStay(r), UNCHANGED job, import'[r].at # "confirm",
           import'[r].locks = {} \/ SameWork(r)
    PROVE  Locks'
<1>1. \A j \in import'[r].locks : Status(j)' = "awaiting_review" /\ job'[j].user = import'[r].user
  BY DEF Locks, LocksHold, SameWork, Status
<1>2. import'[r].locks \subseteq import[r].locks
  BY DEF SameWork
<1>3. LocksHold(r)'
  BY <1>1, <1>2 DEF Locks, LocksHold, AllButStay
<1>4. \A q \in ImportRequests \ {r} : LocksHold(q)'
  BY <1>2 DEF Locks, LocksHold, AllButStay, Status
<1> QED
  BY <1>3, <1>4 DEF Locks

LEMMA RequestsMove ==
    ASSUME Bound, ImportsTypeOK, NEW r \in ImportRequests, AllButStay(r),
           \A t \in Tokens : \A u : BoundTo(t, u) => BoundTo(t, u)',
           \/ import'[r] = NoRequest
           \/ /\ SameWork(r) /\ import[r].at # "idle"
              /\ import'[r].at \notin {"idle", "confirm"}
              /\ import'[r].at \in {"spend", "exchange", "account", "undo"} => import[r].token # NoToken
    PROVE  \A q \in ImportRequests : RequestIsBound(q)'
<1>1. \A q \in ImportRequests : import[q].token \in Tokens \cup {NoToken}
  BY DEF ImportsTypeOK, ImportStates
<1>2. \A q \in ImportRequests \ {r} : RequestIsBound(q)'
  BY <1>1 DEF Bound, RequestIsBound, AllButStay
<1>3. CASE import'[r] = NoRequest
  BY <1>2, <1>3 DEF RequestIsBound, NoRequest
<1>4. CASE import'[r] # NoRequest
  <2>1. RequestIsBound(r)'
    BY <1>1, <1>4 DEF Bound, RequestIsBound, SameWork
  <2> QED
    BY <1>2, <2>1
<1> QED
  BY <1>3, <1>4

LEMMA SessionsMove ==
    ASSUME SessionRows, NEW r \in ImportRequests, AllButStay(r), UNCHANGED task,
           \A t \in Tokens : tmdbSession'[t] = "live" =>
               /\ tmdbSession[t] = "live" \/ HeldByRequest(r, t)'
               /\ HeldByRequest(r, t) => HeldByRequest(r, t)'
    PROVE  SessionRows'
<1> SUFFICES ASSUME NEW t \in Tokens, tmdbSession'[t] = "live"
             PROVE  (\E q \in ImportRequests : HeldByRequest(q, t)') \/ (\E j \in Jobs : HeldByRunner(j, t)')
  BY DEF SessionRows, SessionIsHeld
<1>1. CASE HeldByRequest(r, t)'
  BY <1>1
<1>2. CASE ~ HeldByRequest(r, t)'
  <2>1. tmdbSession[t] = "live" /\ ~ HeldByRequest(r, t)
    BY <1>2
  <2>2. \A q \in ImportRequests \ {r} : HeldByRequest(q, t) => HeldByRequest(q, t)'
    BY DEF AllButStay, HeldByRequest
  <2>3. \A j \in Jobs : HeldByRunner(j, t) => HeldByRunner(j, t)'
    BY DEF HeldByRunner
  <2> QED
    BY <2>1, <2>2, <2>3 DEF SessionRows, SessionIsHeld
<1> QED
  BY <1>1, <1>2

\* Nothing else of a request's move can disturb the invariant.
LEMMA RequestStep ==
    ASSUME ImportsInv, NEW r \in ImportRequests, AllButStay(r),
           import' \in [ImportRequests -> ImportStates],
           UNCHANGED <<job, cand, follow, held, entitled, task, token, restarts, kept>>,
           tmdbSession' \in [Tokens -> {"none", "live", "deleted", "left", "lost"}],
           \A t \in Tokens : tmdbSession'[t] = "live" =>
               /\ tmdbSession[t] = "live" \/ HeldByRequest(r, t)'
               /\ HeldByRequest(r, t) => HeldByRequest(r, t)',
           \/ import'[r] = NoRequest
           \/ /\ SameWork(r) /\ import[r].at # "idle"
              /\ import'[r].at \notin {"idle", "confirm"}
              /\ import'[r].at \in {"spend", "exchange", "account", "undo"} => import[r].token # NoToken
    PROVE  ImportsInv'
<1>1. ImportsTypeOK'
  BY Typed DEF ImportsInv, ImportsTypeOK
<1>2. import'[r].at # "confirm" /\ (import'[r].locks = {} \/ SameWork(r))
  BY DEF NoRequest
<1>3. Locks'
  BY <1>2, LocksMove DEF ImportsInv
<1>4. \A t \in Tokens : \A u : BoundTo(t, u) => BoundTo(t, u)'
  BY DEF BoundTo
<1>5. \A q \in ImportRequests : RequestIsBound(q)'
  BY <1>4, RequestsMove DEF ImportsInv
<1>6. SessionRows'
  BY SessionsMove DEF ImportsInv
<1> QED
  BY <1>1, <1>3, <1>5, <1>6, ListsStand, OneOpenStands, RunnersStayBound DEF ImportsInv, Bound

\* A request that is not on its way to the insert holds no session.
LEMMA HoldsNone ==
    ASSUME NEW r \in ImportRequests, import[r].at \in {"idle", "spend", "exchange", "confirm"}
    PROVE  \A t : ~ HeldByRequest(r, t)
  BY DEF HeldByRequest

LEMMA IdleHoldsNone ==
    ASSUME NEW r \in ImportRequests, import'[r] = NoRequest
    PROVE  \A t : ~ HeldByRequest(r, t)'
  BY DEF HeldByRequest, NoRequest

-----------------------------------------------------------------------------
(***************************************************************************)
(* Entitlement and TMDB's tokens.                                          *)
(***************************************************************************)
LEMMA GrantStep == ASSUME ImportsInv, NEW u \in Importers, Grant(u) \/ Revoke(u) PROVE ImportsInv'
<1>1. ImportsTypeOK'
  BY DEF ImportsInv, ImportsTypeOK, Grant, Revoke
<1> QED
  BY <1>1, ListsStand, LocksStand, OneOpenStands, RequestsStayBound, RunnersStayBound, SessionsStand
     DEF ImportsInv, Bound, Grant, Revoke

\* Nobody acts on a token that is not issued, and one that is issued stays its user's.
LEMMA TokensMove ==
    ASSUME ImportsInv, token' \in [Tokens -> TokenStates],
           \A t \in Tokens : token[t].st # "unissued" =>
               token'[t].user = token[t].user /\ token'[t].st # "unissued",
           UNCHANGED <<job, cand, follow, held, entitled, task, import, tmdbSession, restarts, kept>>
    PROVE  ImportsInv'
<1>1. ImportsTypeOK'
  BY Typed DEF ImportsInv, ImportsTypeOK
<1>2. \A t \in Tokens : \A u : BoundTo(t, u) => BoundTo(t, u)'
  BY DEF BoundTo
<1>3. \A r \in ImportRequests : import[r].token \in Tokens \cup {NoToken}
  BY DEF ImportsInv, ImportsTypeOK, ImportStates
<1>4. \A r \in ImportRequests : RequestIsBound(r)'
  BY <1>2, <1>3 DEF ImportsInv, Bound, RequestIsBound
<1>5. \A j \in Jobs : task[j].token \in Tokens \cup {NoToken}
  BY DEF ImportsInv, ImportsTypeOK, TaskStates
<1>6. \A j \in Jobs : RunnerIsBound(j)'
  BY <1>2, <1>5 DEF ImportsInv, Bound, RunnerIsBound
<1> QED
  BY <1>1, <1>4, <1>6, ListsStand, LocksStand, OneOpenStands, SessionsStand DEF ImportsInv, Bound

LEMMA StartApprovalStep ==
    ASSUME ImportsInv, NEW u \in Importers, NEW t \in Tokens, StartApproval(u, t) PROVE ImportsInv'
<1>1. token \in [Tokens -> TokenStates] /\ token[t].st = "unissued"
  BY DEF ImportsInv, ImportsTypeOK, StartApproval
<1>2. \A s \in Tokens : token'[s] = IF s = t THEN [st |-> "pending", user |-> u]
                                    ELSE IF token[s].st = "expired" THEN [token[s] EXCEPT !.st = "spent"]
                                    ELSE token[s]
  BY DEF StartApproval
<1>3. \A s \in Tokens : token'[s] \in TokenStates
  <2>1. \A s \in Tokens : [token[s] EXCEPT !.st = "spent"] \in TokenStates
    BY <1>1 DEF TokenStates
  <2>2. [st |-> "pending", user |-> u] \in TokenStates
    BY DEF TokenStates
  <2> QED
    BY <1>1, <1>2, <2>1, <2>2
<1>4. token' \in [Tokens -> TokenStates]
  BY <1>3 DEF StartApproval
<1>5. \A s \in Tokens : token[s].st # "unissued" => token'[s].user = token[s].user /\ token'[s].st # "unissued"
  BY <1>1, <1>2 DEF TokenStates
<1> QED
  BY <1>4, <1>5, TokensMove DEF StartApproval

LEMMA TokenExpiresStep == ASSUME ImportsInv, NEW t \in Tokens, TokenExpires(t) PROVE ImportsInv'
<1>1. token \in [Tokens -> TokenStates]
  BY DEF ImportsInv, ImportsTypeOK
<1>2. token' \in [Tokens -> TokenStates]
  BY <1>1 DEF TokenStates, TokenExpires
<1>3. \A s \in Tokens : token[s].st # "unissued" => token'[s].user = token[s].user /\ token'[s].st # "unissued"
  BY <1>1 DEF TokenStates, TokenExpires
<1> QED
  BY <1>2, <1>3, TokensMove DEF TokenExpires

\* A request that arrives has nothing locked and no session.
LEMMA Arrives ==
    ASSUME ImportsInv, NEW r \in ImportRequests, import[r].at = "idle",
           NEW new \in ImportStates, new.locks = {}, new.at \in {"spend", "discard"},
           new.user \in Importers, new.at = "spend" => new.token # NoToken,
           new.token # NoToken => BoundTo(new.token, new.user),
           new.at = "discard" => new.token = NoToken,
           import' = [import EXCEPT ![r] = new],
           UNCHANGED <<job, cand, follow, held, entitled, task, token, tmdbSession, restarts, kept>>
    PROVE  ImportsInv'
<1>1. /\ import' \in [ImportRequests -> ImportStates]
      /\ import'[r] = new /\ \A q \in ImportRequests \ {r} : import'[q] = import[q]
  BY DEF ImportsInv, ImportsTypeOK
<1>2. ImportsTypeOK'
  BY <1>1, Typed DEF ImportsInv, ImportsTypeOK
<1>3. AllButStay(r)
  BY <1>1 DEF AllButStay
<1>4. Locks'
  BY <1>1, <1>3, LocksMove DEF ImportsInv
<1>5. \A t \in Tokens : \A u : BoundTo(t, u) => BoundTo(t, u)'
  BY DEF BoundTo
<1>6. \A q \in ImportRequests \ {r} : RequestIsBound(q)'
  BY <1>1 DEF ImportsInv, Bound, RequestIsBound, BoundTo
<1>7. RequestIsBound(r)'
  BY <1>1 DEF RequestIsBound, BoundTo
<1>8. \A t \in Tokens : ~ HeldByRequest(r, t)
  BY HoldsNone
<1>9. SessionRows'
  BY <1>3, <1>8, SessionsMove DEF ImportsInv
<1> QED
  BY <1>2, <1>4, <1>6, <1>7, <1>9, ListsStand, OneOpenStands, RunnersStayBound DEF ImportsInv, Bound

LEMMA CallbackArrivesStep ==
    ASSUME ImportsInv, NEW r \in ImportRequests, NEW u \in Importers, NEW t \in Tokens, CallbackArrives(r, u, t)
    PROVE  ImportsInv'
<1> DEFINE new == [NoRequest EXCEPT !.at = "spend", !.user = u, !.token = t]
<1>1. new \in ImportStates /\ new.locks = {} /\ new.at = "spend" /\ new.user = u /\ new.token = t
  BY DEF NoRequest, ImportStates
<1>2. import[r].at = "idle" /\ import' = [import EXCEPT ![r] = new]
  BY DEF CallbackArrives
<1>3. t # NoToken
  BY ImportsAssumption
<1>4. BoundTo(t, u)
  BY DEF CallbackArrives, BelongsTo, BoundTo
<1>5. UNCHANGED <<job, cand, follow, held, entitled, task, token, tmdbSession, restarts, kept>>
  BY DEF CallbackArrives
<1> HIDE DEF new
<1> QED
  BY <1>1, <1>2, <1>3, <1>4, <1>5, Arrives

LEMMA UploadArrivesStep ==
    ASSUME ImportsInv, NEW r \in ImportRequests, NEW u \in Importers, UploadArrives(r, u) PROVE ImportsInv'
<1> DEFINE new == [NoRequest EXCEPT !.at = "discard", !.user = u]
<1>1. new \in ImportStates /\ new.locks = {} /\ new.at = "discard" /\ new.user = u /\ new.token = NoToken
  BY DEF NoRequest, ImportStates
<1>2. import[r].at = "idle" /\ import' = [import EXCEPT ![r] = new]
  BY DEF UploadArrives
<1>3. UNCHANGED <<job, cand, follow, held, entitled, task, token, tmdbSession, restarts, kept>>
  BY DEF UploadArrives
<1> HIDE DEF new
<1> QED
  BY <1>1, <1>2, <1>3, Arrives

-----------------------------------------------------------------------------
(***************************************************************************)
(* A callback on its way to the job.                                       *)
(***************************************************************************)

\* A spent row keeps its user.
LEMMA SpendStep == ASSUME ImportsInv, NEW r \in ImportRequests, Spend(r) PROVE ImportsInv'
<1> DEFINE t == import[r].token
<1>1. token \in [Tokens -> TokenStates] /\ import[r].at = "spend"
  BY DEF ImportsInv, ImportsTypeOK, Spend
<1>2. /\ import' \in [ImportRequests -> ImportStates]
      /\ AllButStay(r)
      /\ import'[r] = NoRequest \/ (SameWork(r) /\ import'[r].at = "exchange")
  BY Served, Answered DEF ImportsInv, Spend
<1>3. UNCHANGED <<job, cand, follow, held, entitled, task, tmdbSession, restarts, kept>>
  BY DEF Spend
<1>4. token' = [token EXCEPT ![t].st = "spent"]
  BY DEF Spend
<1>5. token' \in [Tokens -> TokenStates]
  BY <1>1, <1>4 DEF TokenStates
<1>6. \A s \in Tokens : token'[s].user = token[s].user /\ (token[s].st # "unissued" => token'[s].st # "unissued")
  BY <1>1, <1>4 DEF TokenStates
<1>7. \A s \in Tokens : \A u : BoundTo(s, u) => BoundTo(s, u)'
  BY <1>6 DEF BoundTo
<1>8. ImportsTypeOK'
  BY <1>2, <1>3, <1>5, Typed DEF ImportsInv, ImportsTypeOK
<1>9. Locks'
  <2>1. import'[r].at # "confirm" /\ (import'[r].locks = {} \/ SameWork(r))
    BY <1>2 DEF NoRequest
  <2> QED
    BY <1>2, <1>3, <2>1, LocksMove DEF ImportsInv
<1>10. \A q \in ImportRequests : RequestIsBound(q)'
  <2>1. import[r].token # NoToken
    BY <1>1 DEF ImportsInv, Bound, RequestIsBound
  <2> QED
    BY <1>1, <1>2, <1>7, <2>1, RequestsMove DEF ImportsInv
<1>11. \A j \in Jobs : RunnerIsBound(j)'
  <2>1. \A j \in Jobs : task[j].token \in Tokens \cup {NoToken}
    BY DEF ImportsInv, ImportsTypeOK, TaskStates
  <2> QED
    BY <1>3, <1>7, <2>1 DEF ImportsInv, Bound, RunnerIsBound
<1>12. SessionRows'
  BY <1>1, <1>2, <1>3, HoldsNone, SessionsMove DEF ImportsInv
<1> QED
  BY <1>3, <1>8, <1>9, <1>10, <1>11, <1>12, ListsStand, OneOpenStands DEF ImportsInv, Bound

\* The request that made a session live holds it.
LEMMA ExchangeStep == ASSUME ImportsInv, NEW r \in ImportRequests, Exchange(r) PROVE ImportsInv'
<1>1. import[r].at = "exchange" /\ import[r].token \in Tokens
  BY DEF ImportsInv, ImportsTypeOK, ImportStates, Bound, RequestIsBound, Exchange
<1>2. UNCHANGED <<job, cand, follow, held, entitled, task, token, restarts, kept>>
  BY DEF Exchange
<1>3. \A t \in Tokens : ~ HeldByRequest(r, t)
  BY <1>1, HoldsNone
<1>4. import[r].token # NoToken
  BY <1>1 DEF ImportsInv, Bound, RequestIsBound
<1>5. CASE tmdbSession' = tmdbSession /\ Answer(r)
  <2>1. import' \in [ImportRequests -> ImportStates] /\ AllButStay(r) /\ import'[r] = NoRequest
    BY <1>5, Answered DEF ImportsInv
  <2>2. tmdbSession' \in [Tokens -> {"none", "live", "deleted", "left", "lost"}]
    BY <1>5 DEF ImportsInv, ImportsTypeOK
  <2> QED
    BY <1>2, <1>3, <1>5, <2>1, <2>2, RequestStep
<1>6. CASE tmdbSession' = [tmdbSession EXCEPT ![import[r].token] = "live"] /\ Serve(r, "account")
  <2>1. import' \in [ImportRequests -> ImportStates] /\ AllButStay(r) /\ SameWork(r) /\ import'[r].at = "account"
    BY <1>6, Served DEF ImportsInv
  <2>2. tmdbSession' \in [Tokens -> {"none", "live", "deleted", "left", "lost"}]
    BY <1>6 DEF ImportsInv, ImportsTypeOK
  <2>3. \A t : t = import[r].token => HeldByRequest(r, t)'
    BY <2>1 DEF HeldByRequest, SameWork
  <2>4. \A t \in Tokens : tmdbSession'[t] = "live" => tmdbSession[t] = "live" \/ HeldByRequest(r, t)'
    BY <1>6, <2>3 DEF ImportsInv, ImportsTypeOK
  <2> QED
    BY <1>1, <1>2, <1>3, <1>4, <2>1, <2>2, <2>4, RequestStep
<1> QED
  BY <1>5, <1>6 DEF Exchange

LEMMA ReadAccountStep == ASSUME ImportsInv, NEW r \in ImportRequests, ReadAccount(r) PROVE ImportsInv'
<1>1. import[r].at = "account" /\ import[r].token # NoToken
  BY DEF ImportsInv, Bound, RequestIsBound, ReadAccount
<1>2. /\ import' \in [ImportRequests -> ImportStates]
      /\ AllButStay(r) /\ SameWork(r) /\ import'[r].at \in {"discard", "undo"}
  BY Served DEF ImportsInv, ReadAccount
<1>3. UNCHANGED <<job, cand, follow, held, entitled, task, token, tmdbSession, restarts, kept>>
  BY DEF ReadAccount
<1>4. \A t : HeldByRequest(r, t) => HeldByRequest(r, t)'
  BY <1>2 DEF HeldByRequest, SameWork
<1>5. tmdbSession' \in [Tokens -> {"none", "live", "deleted", "left", "lost"}]
  BY <1>3 DEF ImportsInv, ImportsTypeOK
<1> QED
  BY <1>1, <1>2, <1>3, <1>4, <1>5, RequestStep

\* Once it is deleted, or left to TMDB, a session is no longer live.
LEMMA SessionDeleted ==
    ASSUME ImportsTypeOK, NEW t, Deleted(t)
    PROVE  /\ tmdbSession' \in [Tokens -> {"none", "live", "deleted", "left", "lost"}]
           /\ \A s \in Tokens : tmdbSession'[s] = "live" => s # t /\ tmdbSession[s] = "live"
  BY DEF ImportsTypeOK, Deleted

LEMMA UndoStep == ASSUME ImportsInv, NEW r \in ImportRequests, Undo(r) PROVE ImportsInv'
<1>1. import' \in [ImportRequests -> ImportStates] /\ AllButStay(r) /\ import'[r] = NoRequest
  BY Answered DEF ImportsInv, Undo
<1>2. /\ tmdbSession' \in [Tokens -> {"none", "live", "deleted", "left", "lost"}]
      /\ \A s \in Tokens : tmdbSession'[s] = "live" => s # import[r].token /\ tmdbSession[s] = "live"
  BY SessionDeleted DEF ImportsInv, Undo
<1>3. UNCHANGED <<job, cand, follow, held, entitled, task, token, restarts, kept>>
  BY DEF Undo
<1>4. \A s \in Tokens : tmdbSession'[s] = "live" => ~ HeldByRequest(r, s)
  BY <1>2 DEF HeldByRequest
<1> QED
  BY <1>1, <1>2, <1>3, <1>4, RequestStep

-----------------------------------------------------------------------------
(***************************************************************************)
(* Queueing a job.                                                         *)
(***************************************************************************)

\* FOR UPDATE waits for whoever holds one of the lists, so that what is locked is locked once.
LEMMA DiscardStep == ASSUME ImportsInv, NEW r \in ImportRequests, Discard(r) PROVE ImportsInv'
<1> DEFINE new == [import[r] EXCEPT !.at = "check", !.locks = Awaiting(import[r].user)]
<1>1. import \in [ImportRequests -> ImportStates] /\ import[r] \in ImportStates
  BY DEF ImportsInv, ImportsTypeOK
<1>2. Awaiting(import[r].user) \subseteq Jobs
  BY DEF Awaiting
<1>3. /\ new \in ImportStates /\ new.at = "check" /\ new.locks = Awaiting(import[r].user)
      /\ new.user = import[r].user /\ new.token = import[r].token
  BY <1>1, <1>2 DEF ImportStates
<1>4. import' = [import EXCEPT ![r] = new]
  BY <1>1 DEF Discard
<1> HIDE DEF new
<1>5. /\ import' \in [ImportRequests -> ImportStates]
      /\ import'[r] = new /\ \A q \in ImportRequests \ {r} : import'[q] = import[q]
  BY <1>1, <1>3, <1>4
<1>6. import[r].at = "discard" /\ UNCHANGED <<job, cand, follow, held, entitled, task, token, tmdbSession, restarts, kept>>
  BY DEF Discard
<1>7. ImportsTypeOK'
  BY <1>5, <1>6, Typed DEF ImportsInv, ImportsTypeOK
<1>8. Locks'
  <2>1. \A q \in ImportRequests \ {r} : import[q].locks \cap new.locks = {}
    BY <1>3 DEF Discard, ListLocked
  <2>2. \A j \in new.locks : Status(j)' = "awaiting_review" /\ job'[j].user = new.user
    BY <1>3, <1>6 DEF Awaiting, Status
  <2>3. LocksHold(r)'
    BY <1>3, <1>5, <2>1, <2>2 DEF LocksHold
  <2>4. \A q \in ImportRequests \ {r} : LocksHold(q)'
    BY <1>5, <1>6, <2>1 DEF ImportsInv, Locks, LocksHold, Status
  <2> QED
    BY <2>3, <2>4 DEF Locks
<1>9. \A q \in ImportRequests : RequestIsBound(q)'
  BY <1>3, <1>5, <1>6 DEF ImportsInv, Bound, RequestIsBound, BoundTo
<1>10. AllButStay(r) /\ \A t : HeldByRequest(r, t) => HeldByRequest(r, t)'
  BY <1>3, <1>5, <1>6 DEF HeldByRequest, AllButStay
<1>11. SessionRows'
  BY <1>6, <1>10, SessionsMove DEF ImportsInv
<1> QED
  BY <1>6, <1>7, <1>8, <1>9, <1>11, ListsStand, OneOpenStands, RunnersStayBound DEF ImportsInv, Bound

\* A refusal gives the locks back; a callback goes on to delete its session.
LEMMA Refused ==
    ASSUME ImportsInv, NEW r \in ImportRequests, import[r].at \in {"check", "insert"}, Refuse(r),
           UNCHANGED <<job, cand, follow, held, entitled, task, token, tmdbSession, restarts, kept>>
    PROVE  ImportsInv'
<1>1. tmdbSession' \in [Tokens -> {"none", "live", "deleted", "left", "lost"}]
  BY DEF ImportsInv, ImportsTypeOK
<1>2. CASE import[r].token = NoToken
  <2>1. import' \in [ImportRequests -> ImportStates] /\ AllButStay(r) /\ import'[r] = NoRequest
    BY <1>2, Answered DEF ImportsInv, Refuse
  <2>2. \A t \in Tokens : ~ HeldByRequest(r, t)
    BY <1>2, ImportsAssumption DEF HeldByRequest
  <2> QED
    BY <1>1, <2>1, <2>2, RequestStep
<1>3. CASE import[r].token # NoToken
  <2> DEFINE new == [import[r] EXCEPT !.at = "undo", !.locks = {}]
  <2>1. import \in [ImportRequests -> ImportStates] /\ import[r] \in ImportStates
    BY DEF ImportsInv, ImportsTypeOK
  <2>2. /\ new \in ImportStates /\ new.at = "undo" /\ new.locks = {}
        /\ new.user = import[r].user /\ new.token = import[r].token
    BY <2>1 DEF ImportStates
  <2>3. import' = [import EXCEPT ![r] = new]
    BY <1>3, <2>1 DEF Refuse
  <2> HIDE DEF new
  <2>4. /\ import' \in [ImportRequests -> ImportStates]
        /\ import'[r] = new /\ \A q \in ImportRequests \ {r} : import'[q] = import[q]
    BY <2>1, <2>2, <2>3
  <2>5. ImportsTypeOK'
    BY <2>4, Typed DEF ImportsInv, ImportsTypeOK
  <2>6. AllButStay(r) /\ \A t : HeldByRequest(r, t) => HeldByRequest(r, t)'
    BY <2>2, <2>4 DEF HeldByRequest, AllButStay
  <2>7. Locks'
    BY <2>2, <2>4, <2>6, LocksMove DEF ImportsInv
  <2>8. \A q \in ImportRequests : RequestIsBound(q)'
    BY <1>3, <2>2, <2>4 DEF ImportsInv, Bound, RequestIsBound, BoundTo
  <2>9. SessionRows'
    BY <2>6, SessionsMove DEF ImportsInv
  <2> QED
    BY <2>5, <2>7, <2>8, <2>9, ListsStand, OneOpenStands, RunnersStayBound DEF ImportsInv, Bound
<1> QED
  BY <1>2, <1>3

LEMMA CheckActiveStep == ASSUME ImportsInv, NEW r \in ImportRequests, CheckActive(r) PROVE ImportsInv'
<1>1. import[r].at = "check" /\ UNCHANGED <<job, cand, follow, held, entitled, task, token, tmdbSession, restarts, kept>>
  BY DEF CheckActive
<1>2. CASE ActiveFor(r) # {}
  BY <1>1, <1>2, Refused DEF CheckActive
<1>3. CASE ActiveFor(r) = {}
  <2>1. /\ import' \in [ImportRequests -> ImportStates]
        /\ AllButStay(r) /\ SameWork(r) /\ import'[r].at = "insert"
    BY <1>3, Served DEF ImportsInv, CheckActive
  <2>2. \A t : HeldByRequest(r, t) => HeldByRequest(r, t)'
    BY <2>1 DEF HeldByRequest, SameWork
  <2>3. tmdbSession' \in [Tokens -> {"none", "live", "deleted", "left", "lost"}]
    BY <1>1 DEF ImportsInv, ImportsTypeOK
  <2> QED
    BY <1>1, <2>1, <2>2, <2>3, RequestStep
<1> QED
  BY <1>2, <1>3

\* A new job has no list and no runner yet; what it replaces is failed and emptied.  The
\* session goes from the request to the runner.
LEMMA Inserted ==
    ASSUME ImportsInv, NEW r \in ImportRequests, NEW j \in Jobs, NEW total \in 0..MaxRows,
           Insert(r, j, total), IndexHolds(r)
    PROVE  ImportsInv'
<1> DEFINE q == import[r]
           source == IF q.token = NoToken THEN "letterboxd" ELSE "tmdb"
           rows == IF q.token = NoToken THEN total ELSE 0
           new == [NoJob EXCEPT !.user = q.user, !.source = source, !.status = "queued", !.total = rows]
           runner == [NoTask EXCEPT !.at = "spawned", !.token = q.token, !.total = rows]
<1>1. /\ q.at = "insert" /\ job[j].status = "absent"
      /\ job' = [i \in Jobs |-> IF i = j THEN new
                                ELSE IF i \in q.locks THEN [job[i] EXCEPT !.status = "failed"]
                                ELSE job[i]]
      /\ cand' = WithoutLists(q.locks)
      /\ task' = [task EXCEPT ![j] = runner]
      /\ Answer(r)
      /\ UNCHANGED <<follow, held, entitled, token, tmdbSession, restarts, kept>>
  BY Zenon DEF Insert
<1>2. /\ import' \in [ImportRequests -> ImportStates]
      /\ AllButStay(r) /\ import'[r] = NoRequest
  BY <1>1, Answered DEF ImportsInv
<1>3. q.user \in Importers /\ q.token \in Tokens \cup {NoToken} /\ q.locks \subseteq Jobs
  BY <1>1 DEF ImportsInv, ImportsTypeOK, ImportStates, Bound, RequestIsBound
<1>4. rows \in 0..MaxRows /\ source \in Sources
  BY ImportsAssumption DEF Sources
<1>5. /\ new \in JobStates /\ new.user = q.user /\ new.source = source /\ new.status = "queued"
      /\ new.total = rows /\ new.created = 0
  <2>1. /\ NoJob \in [user : {NoOne}, source : Sources, status : {"absent"},
                      total : {0}, done : {0}, created : {0}, follows : {0}]
        /\ "queued" \in Statuses /\ 0 \in 0..MaxRows
    BY ImportsAssumption DEF NoJob, Statuses, Active, Sources
  <2> HIDE DEF source, rows, q
  <2> QED
    BY <1>3, <1>4, <2>1 DEF JobStates, new
<1>6. /\ runner \in TaskStates /\ runner.at = "spawned" /\ runner.token = q.token
      /\ runner.total = rows /\ runner.done = 0 /\ runner.created = 0
  <2>1. /\ NoTask \in [at : {"gone"}, total : {0}, done : {0}, created : {0}, token : {NoToken}]
        /\ 0 \in 0..MaxRows
    BY ImportsAssumption DEF NoTask
  <2> HIDE DEF rows, q
  <2> QED
    BY <1>3, <1>4, <2>1 DEF TaskStates, runner
<1>7. j \notin q.locks
  BY <1>1 DEF ImportsInv, Locks, LocksHold, Status
<1>8. job \in [Jobs -> JobStates] /\ cand \in [Jobs -> SUBSET Films] /\ task \in [Jobs -> TaskStates]
  BY DEF ImportsInv, ImportsTypeOK
<1> HIDE DEF new, runner
<1>9. /\ job'[j] = new /\ task'[j] = runner /\ cand'[j] = cand[j]
      /\ \A i \in Jobs \ {j} : task'[i] = task[i]
      /\ \A i \in Jobs \ ({j} \cup q.locks) : job'[i] = job[i] /\ cand'[i] = cand[i]
  BY <1>1, <1>7, <1>8 DEF WithoutLists
<1>10. \A i \in q.locks : /\ job'[i] = [job[i] EXCEPT !.status = "failed"]
                          /\ cand'[i] = {} /\ Status(i) = "awaiting_review"
  BY <1>1, <1>3, <1>7 DEF WithoutLists, ImportsInv, Locks, LocksHold
<1>11. \A i \in q.locks : /\ [job[i] EXCEPT !.status = "failed"] \in JobStates
                          /\ Status(i)' = "failed" /\ job'[i].user = job[i].user
                          /\ job'[i].source = job[i].source
  BY <1>3, <1>8, <1>10 DEF JobStates, Statuses, Status
<1>12. ImportsTypeOK'
  <2>1. job' \in [Jobs -> JobStates]
    BY <1>1, <1>5, <1>8, <1>9, <1>10, <1>11
  <2>2. task' \in [Jobs -> TaskStates]
    BY <1>1, <1>6, <1>8
  <2>3. cand' \in [Jobs -> SUBSET Films]
    BY <1>1, <1>8 DEF WithoutLists
  <2> QED
    BY <1>1, <1>2, <2>1, <2>2, <2>3 DEF ImportsInv, ImportsTypeOK
<1>13. Lists'
  <2>1. cand[j] = {} /\ kept' = kept
    BY <1>1 DEF ImportsInv, Lists, ListShape, Status
  <2>2. ListShape(j)' /\ RunnerAt(j)'
    BY <1>4, <1>5, <1>6, <1>9, <2>1, FS_EmptySet, ImportsAssumption DEF ListShape, RunnerAt, Status
  <2>3. \A i \in Jobs \ ({j} \cup q.locks) : ListShape(i)' /\ RunnerAt(i)'
    BY <1>9, <2>1 DEF ImportsInv, Lists, ListShape, RunnerAt, Status
  <2>4. \A i \in q.locks : ListShape(i)'
    BY <1>10, <1>11, FS_EmptySet DEF ListShape
  <2>5. \A i \in q.locks : RunnerAt(i)'
    <3>1. \A i \in q.locks : /\ RunnerAt(i) /\ task'[i] = task[i]
                             /\ Status(i) = "awaiting_review" /\ Status(i)' = "failed"
      BY <1>3, <1>7, <1>9, <1>10, <1>11 DEF ImportsInv, Lists
    <3>2. \A i \in q.locks : task[i].at \notin {"spawned", "listing", "rows"}
      BY <3>1 DEF RunnerAt
    <3> QED
      BY <3>1, <3>2 DEF RunnerAt
  <2> QED
    BY <2>2, <2>3, <2>4, <2>5 DEF Lists
<1>14. Locks'
  <2>1. import'[r].locks = {} /\ import'[r].at = "idle"
    BY <1>2 DEF NoRequest
  <2>2. LocksHold(r)'
    BY <2>1 DEF LocksHold
  <2>3. ASSUME NEW p \in ImportRequests \ {r} PROVE LocksHold(p)'
    <3>1. import'[p] = import[p] /\ LocksHold(p) /\ LocksHold(r) /\ import[p].locks \subseteq Jobs
      BY <1>2 DEF AllButStay, ImportsInv, Locks, ImportsTypeOK, ImportStates
    <3>2. import[p].locks \cap q.locks = {}
      BY <3>1 DEF LocksHold
    <3>3. j \notin import[p].locks
      BY <1>1, <3>1 DEF LocksHold, Status
    <3>4. \A i \in import[p].locks : job'[i] = job[i]
      BY <1>9, <3>1, <3>2, <3>3
    <3>5. \A s \in ImportRequests \ {p} : import'[s].locks \subseteq import[s].locks
      BY <1>2, <2>1 DEF AllButStay
    <3> QED
      BY <3>1, <3>4, <3>5 DEF LocksHold, Status
  <2> QED
    BY <2>2, <2>3 DEF Locks
<1>15. OneOpenImport'
  <2>1. \A i \in Jobs : Status(i)' \in Active => i = j \/ (i \in Jobs \ ({j} \cup q.locks) /\ Status(i) \in Active)
    BY <1>9, <1>11 DEF Status, Active
  <2>2. \A i \in Jobs \ ({j} \cup q.locks) : Status(i) \in Active => job[i].user # q.user
    BY DEF IndexHolds, ActiveFor, Status
  <2>3. \A i \in Jobs \ ({j} \cup q.locks) : Status(i)' \in Active => job'[i].user # job'[j].user
    BY <1>5, <1>9, <2>1, <2>2
  <2>4. \A i, k \in Jobs \ ({j} \cup q.locks) :
           job'[i].user = job'[k].user /\ {Status(i)', Status(k)'} \subseteq Active => i = k
    BY <1>9, <2>1 DEF ImportsInv, OneOpenImport
  <2> QED
    BY <2>1, <2>3, <2>4 DEF OneOpenImport
<1>16. \A p \in ImportRequests : RequestIsBound(p)'
  <2>1. \A t \in Tokens : \A u : BoundTo(t, u) => BoundTo(t, u)'
    BY <1>1 DEF BoundTo
  <2> QED
    BY <1>2, <2>1, RequestsMove DEF ImportsInv
<1>17. \A i \in Jobs : RunnerIsBound(i)'
  <2>1. RunnerIsBound(j)'
    BY <1>1, <1>3, <1>5, <1>6, <1>9 DEF ImportsInv, Bound, RequestIsBound, RunnerIsBound, BoundTo
  <2>2. \A i \in Jobs \ {j} : job'[i].user = job[i].user /\ job'[i].source = job[i].source
    BY <1>9, <1>11
  <2>3. \A i \in Jobs \ {j} : RunnerIsBound(i)'
    BY <1>1, <1>9, <2>2 DEF ImportsInv, Bound, RunnerIsBound, BoundTo
  <2> QED
    BY <2>1, <2>3
<1>18. SessionRows'
  <2>1. task[j].at = "gone"
    BY <1>1 DEF ImportsInv, Lists, RunnerAt, Status
  <2>2. \A t \in Tokens, i \in Jobs : HeldByRunner(i, t) => HeldByRunner(i, t)'
    BY <1>9, <2>1 DEF HeldByRunner
  <2>3. \A t \in Tokens, p \in ImportRequests \ {r} : HeldByRequest(p, t) => HeldByRequest(p, t)'
    BY <1>2 DEF HeldByRequest, AllButStay
  <2>4. \A t \in Tokens : HeldByRequest(r, t) => HeldByRunner(j, t)'
    BY <1>6, <1>9 DEF HeldByRequest, HeldByRunner
  <2>5. tmdbSession' = tmdbSession
    BY <1>1
  <2> QED
    BY <2>2, <2>3, <2>4, <2>5 DEF ImportsInv, SessionRows, SessionIsHeld
<1> QED
  BY <1>12, <1>13, <1>14, <1>15, <1>16, <1>17, <1>18 DEF ImportsInv, Bound

LEMMA InsertStep ==
    ASSUME ImportsInv, NEW r \in ImportRequests, NEW j \in Jobs, NEW total \in 0..MaxRows, Insert(r, j, total)
    PROVE  ImportsInv'
<1>1. CASE IndexHolds(r)
  BY <1>1, Inserted
<1>2. CASE ~ IndexHolds(r)
  BY <1>2, Refused DEF Insert
<1> QED
  BY <1>1, <1>2

-----------------------------------------------------------------------------
(***************************************************************************)
(* The runner.                                                             *)
(***************************************************************************)
OtherJobsStay(j) ==
    \A i \in Jobs \ {j} : job'[i] = job[i] /\ task'[i] = task[i] /\ cand'[i] = cand[i] /\ kept'[i] = kept[i]

\* A runner writes its own job and its own list.  A job keeps its user and its source, and a
\* runner its token; a runner whose way out is over holds no session.
LEMMA RunnerStep ==
    ASSUME ImportsInv, NEW j \in Jobs, OtherJobsStay(j),
           job' \in [Jobs -> JobStates], task' \in [Jobs -> TaskStates],
           cand' \in [Jobs -> SUBSET Films], held' \in [Films -> {"none", "in", "out"}],
           tmdbSession' \in [Tokens -> {"none", "live", "deleted", "left", "lost"}],
           UNCHANGED <<follow, entitled, import, token, restarts, kept>>,
           ListShape(j)', RunnerAt(j)',
           job'[j].user = job[j].user, job'[j].source = job[j].source,
           task[j].at # "gone",
           task'[j] = NoTask \/ (task'[j].at # "gone" /\ task'[j].token = task[j].token),
           Status(j)' \in Active => Status(j) \in Active,
           Status(j)' = Status(j) \/ \A r \in ImportRequests : j \notin import[r].locks,
           \A t \in Tokens : tmdbSession'[t] = "live" =>
               tmdbSession[t] = "live" /\ (HeldByRunner(j, t) => HeldByRunner(j, t)')
    PROVE  ImportsInv'
<1>1. ImportsTypeOK'
  BY DEF ImportsInv, ImportsTypeOK
<1>2. Lists'
  BY DEF ImportsInv, Lists, ListShape, RunnerAt, Status, OtherJobsStay
<1>3. Locks'
  <2>1. \A r \in ImportRequests : \A i \in import[r].locks : i \in Jobs
    BY DEF ImportsInv, ImportsTypeOK, ImportStates
  <2>2. \A r \in ImportRequests : \A i \in import[r].locks : Status(i)' = Status(i) /\ job'[i].user = job[i].user
    BY <2>1 DEF OtherJobsStay, Status
  <2> QED
    BY <2>2 DEF ImportsInv, Locks, LocksHold
<1>4. OneOpenImport'
  <2>1. \A i \in Jobs : job'[i].user = job[i].user /\ (Status(i)' \in Active => Status(i) \in Active)
    BY DEF OtherJobsStay, Status
  <2> QED
    BY <2>1 DEF ImportsInv, OneOpenImport
<1>5. \A r \in ImportRequests : RequestIsBound(r)'
  BY RequestsStayBound DEF ImportsInv
<1>6. \A i \in Jobs : RunnerIsBound(i)'
  <2>1. \A i \in Jobs \ {j} : RunnerIsBound(i)'
    BY DEF ImportsInv, Bound, RunnerIsBound, BoundTo, OtherJobsStay
  <2>2. RunnerIsBound(j)'
    <3>1. CASE task'[j] = NoTask
      BY <3>1 DEF RunnerIsBound, NoTask
    <3>2. CASE task'[j].at # "gone" /\ task'[j].token = task[j].token
      BY <3>2 DEF ImportsInv, Bound, RunnerIsBound, BoundTo
    <3> QED
      BY <3>1, <3>2
  <2> QED
    BY <2>1, <2>2
<1>7. SessionRows'
  <2>1. \A t \in Tokens, i \in Jobs \ {j} : HeldByRunner(i, t) => HeldByRunner(i, t)'
    BY DEF HeldByRunner, OtherJobsStay
  <2>2. \A t \in Tokens, r \in ImportRequests : HeldByRequest(r, t) => HeldByRequest(r, t)'
    BY DEF HeldByRequest
  <2> QED
    BY <2>1, <2>2 DEF ImportsInv, SessionRows, SessionIsHeld
<1> QED
  BY <1>1, <1>2, <1>3, <1>4, <1>5, <1>6, <1>7 DEF ImportsInv, Bound

\* What the invariant says of one job and its runner.
LEMMA OneJob ==
    ASSUME ImportsInv, NEW j \in Jobs
    PROVE  /\ ListShape(j) /\ RunnerAt(j) /\ RunnerIsBound(j)
           /\ job \in [Jobs -> JobStates] /\ job[j] \in JobStates
           /\ task \in [Jobs -> TaskStates] /\ task[j] \in TaskStates
           /\ cand \in [Jobs -> SUBSET Films] /\ held \in [Films -> {"none", "in", "out"}]
           /\ tmdbSession \in [Tokens -> {"none", "live", "deleted", "left", "lost"}]
           /\ \A r \in ImportRequests : Status(j) # "awaiting_review" => j \notin import[r].locks
  BY DEF ImportsInv, ImportsTypeOK, Lists, Bound, Locks, LocksHold

LEMMA RunStep == ASSUME ImportsInv, NEW j \in Jobs, Run(j) PROVE ImportsInv'
<1> DEFINE at == IF job[j].source = "tmdb" THEN "listing" ELSE "rows"
           j2 == [job[j] EXCEPT !.status = "running"]
           t2 == [task[j] EXCEPT !.at = at]
<1>1. /\ task[j].at = "spawned" /\ job' = [job EXCEPT ![j] = j2] /\ task' = [task EXCEPT ![j] = t2]
      /\ UNCHANGED <<cand, follow, held, entitled, import, token, tmdbSession, restarts, kept>>
  BY OneJob DEF Run
<1>2. /\ j2 \in JobStates /\ j2.status = "running" /\ j2.user = job[j].user
      /\ j2.source = job[j].source /\ j2.total = job[j].total
  BY OneJob DEF JobStates, Statuses, Active
<1>3. /\ t2 \in TaskStates /\ t2.at = at /\ t2.total = task[j].total /\ t2.done = task[j].done
      /\ t2.created = task[j].created /\ t2.token = task[j].token
  BY OneJob DEF TaskStates
<1> HIDE DEF j2, t2
<1>4. /\ job' \in [Jobs -> JobStates] /\ task' \in [Jobs -> TaskStates]
      /\ job'[j] = j2 /\ task'[j] = t2 /\ OtherJobsStay(j)
  BY <1>1, <1>2, <1>3, OneJob DEF OtherJobsStay
<1>5. Status(j) = "queued" /\ Status(j)' = "running" /\ cand[j] = {}
      /\ task[j].done = 0 /\ task[j].created = 0 /\ (job[j].source # "tmdb" => task[j].total = job[j].total)
  BY <1>1, <1>2, <1>4, OneJob DEF RunnerAt, Status
<1>6. ListShape(j)'
  BY <1>1, <1>4, <1>5, FS_EmptySet DEF ListShape
<1>7. RunnerAt(j)'
  BY <1>1, <1>2, <1>3, <1>4, <1>5, FS_EmptySet, OneJob DEF RunnerAt, TaskStates
<1>8. \A t : HeldByRunner(j, t) => HeldByRunner(j, t)'
  BY <1>3, <1>4 DEF HeldByRunner
<1> QED
  BY <1>1, <1>2, <1>3, <1>4, <1>5, <1>6, <1>7, <1>8, OneJob, RunnerStep DEF Active

LEMMA ReadListStep == ASSUME ImportsInv, NEW j \in Jobs, NEW total \in 0..MaxRows, ReadList(j, total) PROVE ImportsInv'
<1> DEFINE j2 == [job[j] EXCEPT !.total = total]
           t2 == [task[j] EXCEPT !.at = "rows", !.total = total]
<1>1. /\ task[j].at = "listing" /\ job' = [job EXCEPT ![j] = j2] /\ task' = [task EXCEPT ![j] = t2]
      /\ UNCHANGED <<cand, follow, held, entitled, import, token, tmdbSession, restarts, kept>>
  BY OneJob DEF ReadList
<1>2. /\ j2 \in JobStates /\ j2.status = job[j].status /\ j2.user = job[j].user
      /\ j2.source = job[j].source /\ j2.total = total
  BY OneJob DEF JobStates
<1>3. /\ t2 \in TaskStates /\ t2.at = "rows" /\ t2.total = total /\ t2.done = task[j].done
      /\ t2.created = task[j].created /\ t2.token = task[j].token
  BY OneJob DEF TaskStates
<1> HIDE DEF j2, t2
<1>4. /\ job' \in [Jobs -> JobStates] /\ task' \in [Jobs -> TaskStates]
      /\ job'[j] = j2 /\ task'[j] = t2 /\ OtherJobsStay(j)
  BY <1>1, <1>2, <1>3, OneJob DEF OtherJobsStay
<1>5. /\ Status(j) = "running" /\ Status(j)' = "running" /\ cand[j] = {}
      /\ task[j].done = 0 /\ task[j].created = 0
  BY <1>1, <1>2, <1>4, OneJob DEF RunnerAt, Status
<1>6. ListShape(j)'
  BY <1>1, <1>4, <1>5, FS_EmptySet DEF ListShape
<1>7. RunnerAt(j)'
  BY <1>1, <1>2, <1>3, <1>4, <1>5, FS_EmptySet DEF RunnerAt
<1>8. \A t : HeldByRunner(j, t) => HeldByRunner(j, t)'
  BY <1>3, <1>4 DEF HeldByRunner
<1> QED
  BY <1>1, <1>2, <1>3, <1>4, <1>5, <1>6, <1>7, <1>8, OneJob, RunnerStep

\* A row adds to the counts of the runner and, when it is written through, to those of the job.
LEMMA RowCounts ==
    ASSUME ImportsInv, NEW j \in Jobs, NEW t2 \in TaskStates, NEW flushed \in BOOLEAN, RowDone(j, t2, flushed),
           task[j].at = "rows", t2.at = "rows", t2.token = task[j].token, t2.total = task[j].total,
           t2.created <= t2.done, t2.done <= t2.total,
           cand' \in [Jobs -> SUBSET Films], held' \in [Films -> {"none", "in", "out"}],
           \A i \in Jobs \ {j} : cand'[i] = cand[i],
           IsFiniteSet(cand'[j]), t2.created = Cardinality(cand'[j])
    PROVE  ImportsInv'
<1> DEFINE j2 == [job[j] EXCEPT !.done = t2.done, !.created = t2.created]
<1>1. job[j] \in JobStates /\ job \in [Jobs -> JobStates] /\ task \in [Jobs -> TaskStates]
  BY OneJob
<1>2. t2.done \in 0..MaxRows /\ t2.created \in 0..MaxRows
  BY DEF TaskStates
<1>3. /\ j2 \in JobStates /\ j2.status = job[j].status /\ j2.user = job[j].user
      /\ j2.source = job[j].source /\ j2.total = job[j].total
  BY <1>1, <1>2 DEF JobStates
<1>4. job' = IF flushed THEN [job EXCEPT ![j] = j2] ELSE job
  BY <1>1 DEF RowDone, Reported
<1> HIDE DEF j2
<1>5. /\ task' = [task EXCEPT ![j] = t2]
      /\ UNCHANGED <<follow, entitled, import, token, tmdbSession, restarts, kept>>
  BY DEF RowDone
<1>6. /\ job' \in [Jobs -> JobStates] /\ task' \in [Jobs -> TaskStates] /\ task'[j] = t2
      /\ job'[j].status = job[j].status /\ job'[j].user = job[j].user
      /\ job'[j].source = job[j].source /\ job'[j].total = job[j].total
  BY <1>1, <1>3, <1>4, <1>5
<1>7. OtherJobsStay(j)
  BY <1>1, <1>4, <1>5 DEF OtherJobsStay
<1>8. Status(j) = "running" /\ Status(j)' = "running" /\ task[j].total = job[j].total
  BY <1>6, OneJob DEF RunnerAt, Status
<1>9. ListShape(j)'
  BY <1>8 DEF ListShape
<1>10. RunnerAt(j)'
  BY <1>6, <1>8 DEF RunnerAt
<1>11. \A t : HeldByRunner(j, t) => HeldByRunner(j, t)'
  BY <1>6 DEF HeldByRunner
<1> QED
  BY <1>5, <1>6, <1>7, <1>8, <1>9, <1>10, <1>11, OneJob, RunnerStep

LEMMA CountsAreNumbers ==
    ASSUME ImportsInv, NEW j \in Jobs
    PROVE  /\ task[j].done \in Nat /\ task[j].total \in Nat /\ task[j].created \in Nat
           /\ task[j].total \in 0..MaxRows /\ MaxRows \in Nat
  BY OneJob, ImportsAssumption DEF TaskStates

LEMMA RowReportedStep ==
    ASSUME ImportsInv, NEW j \in Jobs, NEW flushed \in BOOLEAN, RowReported(j, flushed) PROVE ImportsInv'
<1> DEFINE t2 == [task[j] EXCEPT !.done = @ + 1]
<1>1. /\ task[j].at = "rows" /\ task[j].done < task[j].total /\ RowDone(j, t2, flushed)
      /\ UNCHANGED <<cand, held>>
  BY DEF RowReported
<1>2. /\ task[j] \in TaskStates /\ IsFiniteSet(cand[j])
      /\ task[j].created = Cardinality(cand[j]) /\ task[j].created <= task[j].done
  BY <1>1, OneJob DEF ListShape, RunnerAt
<1>3. task[j].done + 1 \in 0..MaxRows
  BY <1>1, CountsAreNumbers
<1>4. /\ t2 \in TaskStates /\ t2.at = "rows" /\ t2.token = task[j].token /\ t2.total = task[j].total
      /\ t2.done = task[j].done + 1 /\ t2.created = task[j].created
  BY <1>1, <1>2, <1>3 DEF TaskStates
<1> HIDE DEF t2
<1>5. t2.created <= t2.done /\ t2.done <= t2.total
  BY <1>1, <1>2, <1>4, CountsAreNumbers
<1> QED
  BY <1>1, <1>2, <1>4, <1>5, OneJob, RowCounts

LEMMA RowMatchedStep ==
    ASSUME ImportsInv, NEW j \in Jobs, NEW f \in Films, NEW fresh \in BOOLEAN, NEW flushed \in BOOLEAN,
           NEW fetched \in {"in", "out", "missing"}, RowMatched(j, f, fresh, fetched, flushed)
    PROVE  ImportsInv'
<1>1. /\ task[j].at = "rows" /\ task[j].done < task[j].total
      /\ task[j] \in TaskStates /\ IsFiniteSet(cand[j])
      /\ task[j].created = Cardinality(cand[j]) /\ task[j].created <= task[j].done
  BY OneJob DEF ListShape, RunnerAt, RowMatched
<1>2. task[j].done + 1 \in 0..MaxRows /\ task[j].created + 1 \in 0..MaxRows
  BY <1>1, CountsAreNumbers
<1>3. held' \in [Films -> {"none", "in", "out"}]
  BY OneJob DEF RowMatched, Judged
<1>4. CASE Offered(f, fresh, fetched)
  <2> DEFINE t2 == [task[j] EXCEPT !.done = @ + 1, !.created = @ + Added(j, f)]
  <2>1. RowDone(j, t2, flushed) /\ cand' = [cand EXCEPT ![j] = @ \cup {f}]
    BY <1>4 DEF RowMatched
  <2>2. Added(j, f) \in {0, 1} /\ IsFiniteSet(cand[j] \cup {f})
        /\ Cardinality(cand[j] \cup {f}) = Cardinality(cand[j]) + Added(j, f)
    BY <1>1, FS_AddElement, FS_CardinalityType DEF Added
  <2>3. task[j].created + Added(j, f) \in 0..MaxRows /\ task[j].created + Added(j, f) <= task[j].done + 1
    BY <1>1, <1>2, <2>2, CountsAreNumbers
  <2>4. /\ t2 \in TaskStates /\ t2.at = "rows" /\ t2.token = task[j].token /\ t2.total = task[j].total
        /\ t2.done = task[j].done + 1 /\ t2.created = task[j].created + Added(j, f)
    BY <1>1, <1>2, <2>3 DEF TaskStates
  <2> HIDE DEF t2
  <2>5. /\ cand' \in [Jobs -> SUBSET Films] /\ cand'[j] = cand[j] \cup {f}
        /\ \A i \in Jobs \ {j} : cand'[i] = cand[i]
    BY <2>1, OneJob
  <2>6. t2.created <= t2.done /\ t2.done <= t2.total /\ t2.created = Cardinality(cand'[j])
    BY <1>1, <2>2, <2>3, <2>4, <2>5, CountsAreNumbers
  <2> QED
    BY <1>1, <1>3, <2>1, <2>2, <2>4, <2>5, <2>6, RowCounts
<1>5. CASE ~ Offered(f, fresh, fetched)
  <2> DEFINE t2 == [task[j] EXCEPT !.done = @ + 1]
  <2>1. RowDone(j, t2, flushed) /\ cand' = cand
    BY <1>5 DEF RowMatched
  <2>2. /\ t2 \in TaskStates /\ t2.at = "rows" /\ t2.token = task[j].token /\ t2.total = task[j].total
        /\ t2.done = task[j].done + 1 /\ t2.created = task[j].created
    BY <1>1, <1>2 DEF TaskStates
  <2> HIDE DEF t2
  <2>3. t2.created <= t2.done /\ t2.done <= t2.total
    BY <1>1, <2>2, CountsAreNumbers
  <2> QED
    BY <1>1, <1>3, <2>1, <2>2, <2>3, OneJob, RowCounts
<1> QED
  BY <1>4, <1>5

\* The run ends with what its runner has counted, whatever the heartbeat wrote.
LEMMA FinishRunStep == ASSUME ImportsInv, NEW j \in Jobs, FinishRun(j) PROVE ImportsInv'
<1> DEFINE j2 == [job[j] EXCEPT !.done = task[j].done, !.created = task[j].created, !.status = "awaiting_review"]
           t2 == [task[j] EXCEPT !.at = "closing"]
<1>1. /\ job \in [Jobs -> JobStates] /\ job[j] \in JobStates
      /\ task \in [Jobs -> TaskStates] /\ task[j] \in TaskStates
  BY OneJob
<1>2. /\ task[j].at = "rows" /\ task[j].done = task[j].total /\ task' = [task EXCEPT ![j] = t2]
      /\ UNCHANGED <<cand, follow, held, entitled, import, token, tmdbSession, restarts, kept>>
  BY <1>1 DEF FinishRun
<1>3. job' = [job EXCEPT ![j] = j2]
  BY <1>1 DEF FinishRun, Flushed, Reported
<1>4. task[j].done \in 0..MaxRows /\ task[j].created \in 0..MaxRows
  BY <1>1 DEF TaskStates
<1>5. /\ j2 \in JobStates /\ j2.status = "awaiting_review" /\ j2.user = job[j].user
      /\ j2.source = job[j].source /\ j2.total = job[j].total
      /\ j2.done = task[j].done /\ j2.created = task[j].created
  BY <1>1, <1>4 DEF JobStates, Statuses, Active
<1>6. t2 \in TaskStates /\ t2.at = "closing" /\ t2.token = task[j].token
  BY <1>1 DEF TaskStates
<1> HIDE DEF j2, t2
<1>7. /\ job' \in [Jobs -> JobStates] /\ task' \in [Jobs -> TaskStates]
      /\ job'[j] = j2 /\ task'[j] = t2 /\ OtherJobsStay(j)
  BY <1>1, <1>2, <1>3, <1>5, <1>6 DEF OtherJobsStay
<1>8. /\ Status(j) = "running" /\ Status(j)' = "awaiting_review" /\ task[j].total = job[j].total
      /\ task[j].created = Cardinality(cand[j]) /\ IsFiniteSet(cand[j])
  BY <1>2, <1>5, <1>7, OneJob DEF RunnerAt, ListShape, Status
<1>9. ListShape(j)'
  BY <1>2, <1>5, <1>7, <1>8 DEF ListShape
<1>10. RunnerAt(j)'
  BY <1>6, <1>7, <1>8 DEF RunnerAt
<1>11. \A t : HeldByRunner(j, t) => HeldByRunner(j, t)'
  BY <1>6, <1>7 DEF HeldByRunner
<1> QED
  BY <1>2, <1>5, <1>6, <1>7, <1>8, <1>9, <1>10, <1>11, OneJob, RunnerStep DEF Active

LEMMA CrashStep == ASSUME ImportsInv, NEW j \in Jobs, Crash(j) PROVE ImportsInv'
<1> DEFINE t2 == [task[j] EXCEPT !.at = "failing"]
<1>1. /\ task[j].at \in {"spawned", "listing", "rows"} /\ task' = [task EXCEPT ![j] = t2]
      /\ UNCHANGED <<job, cand, follow, held, entitled, import, token, tmdbSession, restarts, kept>>
  BY OneJob DEF Crash
<1>2. t2 \in TaskStates /\ t2.at = "failing" /\ t2.token = task[j].token
  BY OneJob DEF TaskStates
<1> HIDE DEF t2
<1>3. task' \in [Jobs -> TaskStates] /\ task'[j] = t2 /\ OtherJobsStay(j)
  BY <1>1, <1>2, OneJob DEF OtherJobsStay
<1>4. ListShape(j)' /\ Status(j)' = Status(j)
  BY <1>1, OneJob DEF ListShape, Status
<1>5. RunnerAt(j)'
  BY <1>1, <1>2, <1>3, <1>4, OneJob DEF RunnerAt
<1>6. \A t : HeldByRunner(j, t) => HeldByRunner(j, t)'
  BY <1>2, <1>3 DEF HeldByRunner
<1> QED
  BY <1>1, <1>2, <1>3, <1>4, <1>5, <1>6, OneJob, RunnerStep

\* The way out deletes the session before the runner is gone; a runner without one has no token.
LEMMA CloseRunStep == ASSUME ImportsInv, NEW j \in Jobs, CloseRun(j) PROVE ImportsInv'
<1> DEFINE t2 == [task[j] EXCEPT !.at = "failed"]
<1>1. /\ task[j].at \in {"closing", "failing"} /\ task' \in {[task EXCEPT ![j] = t2], [task EXCEPT ![j] = NoTask]}
      /\ UNCHANGED <<job, cand, follow, held, entitled, import, token, restarts, kept>>
  BY OneJob DEF CloseRun
<1>2. t2 \in TaskStates /\ t2.at = "failed" /\ t2.token = task[j].token
  BY OneJob DEF TaskStates
<1>3. NoTask \in TaskStates /\ NoTask.at = "gone"
  BY ImportsAssumption DEF NoTask, TaskStates
<1> HIDE DEF t2
<1>4. task' \in [Jobs -> TaskStates] /\ task'[j] \in {t2, NoTask} /\ OtherJobsStay(j)
  BY <1>1, <1>2, <1>3, OneJob DEF OtherJobsStay
<1>5. ListShape(j)' /\ Status(j)' = Status(j)
  BY <1>1, OneJob DEF ListShape, Status
<1>6. RunnerAt(j)'
  BY <1>1, <1>2, <1>3, <1>4, <1>5, OneJob DEF RunnerAt
<1>7. /\ tmdbSession' \in [Tokens -> {"none", "live", "deleted", "left", "lost"}]
      /\ \A t \in Tokens : tmdbSession'[t] = "live" => tmdbSession[t] = "live" /\ ~ HeldByRunner(j, t)
  <2>1. CASE job[j].source = "tmdb"
    <3>1. Deleted(task[j].token)
      BY <2>1 DEF CloseRun
    <3>2. ImportsTypeOK
      BY DEF ImportsInv
    <3> QED
      BY <3>1, <3>2, SessionDeleted DEF HeldByRunner
  <2>2. CASE job[j].source # "tmdb"
    <3>1. tmdbSession' = tmdbSession
      BY <2>2 DEF CloseRun
    <3>2. task[j].token = NoToken
      BY <1>1, <2>2, OneJob DEF RunnerIsBound
    <3> QED
      BY <3>1, <3>2, OneJob, ImportsAssumption DEF HeldByRunner
  <2> QED
    BY <2>1, <2>2
<1> QED
  BY <1>1, <1>2, <1>3, <1>4, <1>5, <1>6, <1>7, OneJob, RunnerStep

\* A failure that is written waits for whoever has the list locked.
LEMMA FinalizeFailedStep == ASSUME ImportsInv, NEW j \in Jobs, FinalizeFailed(j) PROVE ImportsInv'
<1> DEFINE j2 == [job[j] EXCEPT !.status = "failed"]
<1>1. /\ task[j].at = "failed" /\ task' = [task EXCEPT ![j] = NoTask]
      /\ UNCHANGED <<follow, held, entitled, import, token, tmdbSession, restarts, kept>>
  BY DEF FinalizeFailed
<1>2. NoTask \in TaskStates /\ NoTask.at = "gone"
  BY ImportsAssumption DEF NoTask, TaskStates
<1>3. task' \in [Jobs -> TaskStates] /\ task'[j] = NoTask /\ \A i \in Jobs \ {j} : task'[i] = task[i]
  BY <1>1, <1>2, OneJob
<1>4. RunnerAt(j)'
  BY <1>2, <1>3 DEF RunnerAt
<1>5. \A t : ~ HeldByRunner(j, t)
  BY <1>1 DEF HeldByRunner
<1>6. CASE UNCHANGED <<job, cand>>
  <2>1. OtherJobsStay(j) /\ ListShape(j)' /\ Status(j)' = Status(j)
    BY <1>1, <1>3, <1>6, OneJob DEF OtherJobsStay, ListShape, Status
  <2> QED
    BY <1>1, <1>3, <1>4, <1>5, <1>6, <2>1, OneJob, RunnerStep
<1>7. CASE /\ \A r \in ImportRequests : j \notin import[r].locks
           /\ job' = [job EXCEPT ![j] = j2]
           /\ cand' = WithoutLists({j})
  <2>1. /\ j2 \in JobStates /\ j2.status = "failed" /\ j2.user = job[j].user /\ j2.source = job[j].source
    BY OneJob DEF JobStates, Statuses
  <2> HIDE DEF j2
  <2>2. job' \in [Jobs -> JobStates] /\ job'[j] = j2 /\ \A i \in Jobs \ {j} : job'[i] = job[i]
    BY <1>7, <2>1, OneJob
  <2>3. cand' \in [Jobs -> SUBSET Films] /\ cand'[j] = {} /\ \A i \in Jobs \ {j} : cand'[i] = cand[i]
    BY <1>7, OneJob DEF WithoutLists
  <2>4. OtherJobsStay(j) /\ Status(j)' = "failed"
    BY <1>1, <1>3, <2>1, <2>2, <2>3 DEF OtherJobsStay, Status
  <2>5. ListShape(j)'
    BY <2>3, <2>4, FS_EmptySet DEF ListShape
  <2> QED
    BY <1>1, <1>3, <1>4, <1>5, <1>7, <2>1, <2>2, <2>3, <2>4, <2>5, OneJob, RunnerStep DEF Active
<1> QED
  BY <1>6, <1>7, OneJob DEF FinalizeFailed

-----------------------------------------------------------------------------
(***************************************************************************)
(* The review list, the follows and the restart.                           *)
(***************************************************************************)

\* A confirm locks a list that nobody else has locked.
LEMMA ConfirmArrivesStep ==
    ASSUME ImportsInv, NEW r \in ImportRequests, NEW u \in Importers, NEW j \in Jobs, NEW films \in SUBSET Films,
           ConfirmArrives(r, u, j, films)
    PROVE  ImportsInv'
<1> DEFINE new == [at |-> "confirm", user |-> u, token |-> NoToken, list |-> {j}, locks |-> {j}, ticked |-> films]
<1>1. /\ new \in ImportStates /\ new.at = "confirm" /\ new.list = {j} /\ new.locks = {j}
      /\ new.user = u /\ new.token = NoToken
  BY DEF ImportStates
<1>2. /\ import[r].at = "idle" /\ job[j].user = u /\ Status(j) = "awaiting_review" /\ ~ ListLocked(j, r)
      /\ UNCHANGED <<job, cand, follow, held, entitled, task, token, tmdbSession, restarts, kept>>
  BY DEF ConfirmArrives, Status
<1>3. import' = [import EXCEPT ![r] = new]
  BY DEF ConfirmArrives, LockForUser
<1> HIDE DEF new
<1>4. /\ import' \in [ImportRequests -> ImportStates]
      /\ import'[r] = new /\ \A q \in ImportRequests \ {r} : import'[q] = import[q]
  BY <1>1, <1>3 DEF ImportsInv, ImportsTypeOK
<1>5. ImportsTypeOK'
  BY <1>2, <1>4, Typed DEF ImportsInv, ImportsTypeOK
<1>6. Locks'
  <2>1. \A q \in ImportRequests \ {r} : j \notin import[q].locks
    BY <1>2 DEF ListLocked
  <2>2. LocksHold(r)'
    BY <1>1, <1>2, <1>4, <2>1 DEF LocksHold, Status
  <2>3. \A q \in ImportRequests \ {r} : LocksHold(q)'
    BY <1>1, <1>2, <1>4, <2>1 DEF ImportsInv, Locks, LocksHold, Status
  <2> QED
    BY <2>2, <2>3 DEF Locks
<1>7. \A q \in ImportRequests : RequestIsBound(q)'
  BY <1>1, <1>2, <1>4 DEF ImportsInv, Bound, RequestIsBound, BoundTo
<1>8. AllButStay(r) /\ \A t : ~ HeldByRequest(r, t)
  BY <1>2, <1>4, HoldsNone DEF AllButStay
<1>9. SessionRows'
  BY <1>2, <1>8, SessionsMove DEF ImportsInv
<1> QED
  BY <1>2, <1>5, <1>6, <1>7, <1>9, ListsStand, OneOpenStands, RunnersStayBound DEF ImportsInv, Bound

\* What was kept is part of the list, so it is no more than the job counted.
LEMMA ConfirmStep == ASSUME ImportsInv, NEW r \in ImportRequests, NEW j \in Jobs, Confirm(r, j) PROVE ImportsInv'
<1> DEFINE u == import[r].user
           films == cand[j] \cap import[r].ticked
           j2 == [job[j] EXCEPT !.status = "succeeded", !.follows = Cardinality(films)]
<1>1. /\ import[r].at = "confirm" /\ j \in import[r].list
      /\ job' = [job EXCEPT ![j] = j2]
      /\ cand' = WithoutLists({j}) /\ kept' = [kept EXCEPT ![j] = films]
      /\ Answer(r) /\ UNCHANGED <<held, entitled, task, token, tmdbSession, restarts>>
  BY OneJob DEF Confirm
<1>2. follow' \in [Importers \X Films -> Sources \cup {"none", "manual"}]
  <2>1. follow \in [Importers \X Films -> Sources \cup {"none", "manual"}] /\ job[j].source \in Sources
    BY OneJob DEF ImportsInv, ImportsTypeOK, JobStates
  <2> QED
    BY <2>1 DEF Confirm
<1>3. import' \in [ImportRequests -> ImportStates] /\ AllButStay(r) /\ import'[r] = NoRequest
  BY <1>1, Answered DEF ImportsInv
<1>4. j \in import[r].locks /\ Status(j) = "awaiting_review"
  BY <1>1 DEF ImportsInv, Locks, LocksHold
<1>5. /\ IsFiniteSet(cand[j]) /\ job[j].created = Cardinality(cand[j])
      /\ cand[j] \subseteq Films /\ job[j].created \in 0..MaxRows
  BY <1>4, OneJob DEF ListShape, JobStates
<1>6. Cardinality(films) <= job[j].created /\ Cardinality(films) \in 0..MaxRows
  <2>1. IsFiniteSet(films) /\ Cardinality(films) <= Cardinality(cand[j])
    BY <1>5, FS_Subset
  <2>2. Cardinality(films) \in Nat
    BY <2>1, FS_CardinalityType
  <2> HIDE DEF films
  <2> QED
    BY <1>5, <2>1, <2>2, ImportsAssumption
<1> HIDE DEF films
<1>7. /\ j2 \in JobStates /\ j2.status = "succeeded" /\ j2.user = job[j].user /\ j2.source = job[j].source
      /\ j2.follows = Cardinality(films) /\ j2.created = job[j].created
  BY <1>6, OneJob DEF JobStates, Statuses
<1> HIDE DEF j2
<1>8. /\ job' \in [Jobs -> JobStates] /\ job'[j] = j2 /\ \A i \in Jobs \ {j} : job'[i] = job[i]
  BY <1>1, <1>7, OneJob
<1>9. /\ cand' \in [Jobs -> SUBSET Films] /\ cand'[j] = {} /\ \A i \in Jobs \ {j} : cand'[i] = cand[i]
  BY <1>1, OneJob DEF WithoutLists
<1>10. /\ kept' \in [Jobs -> SUBSET Films] /\ kept'[j] = films /\ \A i \in Jobs \ {j} : kept'[i] = kept[i]
  BY <1>1, <1>5 DEF ImportsInv, ImportsTypeOK, films
<1>11. Status(j)' = "succeeded" /\ \A i \in Jobs \ {j} : Status(i)' = Status(i)
  BY <1>7, <1>8 DEF Status
<1>12. ImportsTypeOK'
  BY <1>1, <1>2, <1>3, <1>8, <1>9, <1>10 DEF ImportsInv, ImportsTypeOK
<1>13. Lists'
  <2>1. ListShape(j)'
    BY <1>6, <1>7, <1>8, <1>9, <1>10, <1>11, FS_EmptySet DEF ListShape
  <2>2. task[j].at \notin {"spawned", "listing", "rows"}
    BY <1>4, OneJob DEF RunnerAt
  <2>3. RunnerAt(j)'
    BY <1>1, <1>11, <2>2 DEF RunnerAt
  <2>4. \A i \in Jobs \ {j} : ListShape(i)' /\ RunnerAt(i)'
    <3> SUFFICES ASSUME NEW i \in Jobs \ {j} PROVE ListShape(i)' /\ RunnerAt(i)'
      OBVIOUS
    <3>1. /\ Status(i)' = Status(i) /\ job'[i] = job[i] /\ cand'[i] = cand[i]
          /\ kept'[i] = kept[i] /\ task'[i] = task[i]
      BY <1>1, <1>8, <1>9, <1>10, <1>11
    <3>2. ListShape(i) /\ RunnerAt(i)
      BY DEF ImportsInv, Lists
    <3> QED
      BY <3>1, <3>2 DEF ListShape, RunnerAt
  <2> QED
    BY <2>1, <2>3, <2>4 DEF Lists
<1>14. Locks'
  <2>1. LocksHold(r)'
    BY <1>3 DEF LocksHold, NoRequest
  <2>2. ASSUME NEW q \in ImportRequests \ {r} PROVE LocksHold(q)'
    <3>1. import'[q] = import[q] /\ LocksHold(q) /\ import[q].locks \subseteq Jobs
      BY <1>3 DEF AllButStay, ImportsInv, Locks, ImportsTypeOK, ImportStates
    <3>2. j \notin import[q].locks
      BY <1>4, <3>1 DEF LocksHold
    <3>3. \A i \in import[q].locks : Status(i)' = Status(i) /\ job'[i].user = job[i].user
      BY <1>8, <1>11, <3>1, <3>2
    <3>4. \A s \in ImportRequests : import'[s].locks = import[s].locks \/ import'[s].locks = {}
      BY <1>3 DEF AllButStay, NoRequest
    <3> QED
      BY <3>1, <3>3, <3>4 DEF LocksHold
  <2> QED
    BY <2>1, <2>2 DEF Locks
<1>15. OneOpenImport'
  <2>1. \A i \in Jobs : job'[i].user = job[i].user /\ (Status(i)' \in Active => Status(i) \in Active)
    BY <1>7, <1>8, <1>11 DEF Active
  <2> QED
    BY <2>1 DEF ImportsInv, OneOpenImport
<1>16. \A q \in ImportRequests : RequestIsBound(q)'
  <2>1. \A t \in Tokens : \A v : BoundTo(t, v) => BoundTo(t, v)'
    BY <1>1 DEF BoundTo
  <2> QED
    BY <1>3, <2>1, RequestsMove DEF ImportsInv
<1>17. \A i \in Jobs : RunnerIsBound(i)'
  <2>1. \A i \in Jobs : job'[i].user = job[i].user /\ job'[i].source = job[i].source
    BY <1>7, <1>8
  <2> QED
    BY <1>1, <2>1 DEF ImportsInv, Bound, RunnerIsBound, BoundTo
<1>18. SessionRows'
  BY <1>1, <1>3, HoldsNone, SessionsMove DEF ImportsInv
<1> QED
  BY <1>12, <1>13, <1>14, <1>15, <1>16, <1>17, <1>18 DEF ImportsInv, Bound

LEMMA FollowStep ==
    ASSUME ImportsInv, NEW u \in Importers, NEW f \in Films, Follow(u, f) \/ Unfollow(u, f) PROVE ImportsInv'
<1>1. UNCHANGED <<job, cand, held, entitled, task, import, token, tmdbSession, restarts, kept>>
  BY DEF Follow, Unfollow
<1>2. follow' \in [Importers \X Films -> Sources \cup {"none", "manual"}]
  BY DEF ImportsInv, ImportsTypeOK, Follow, Unfollow
<1>3. ImportsTypeOK'
  BY <1>1, <1>2 DEF ImportsInv, ImportsTypeOK
<1> QED
  BY <1>1, <1>3, ListsStand, LocksStand, OneOpenStands, RequestsStayBound, RunnersStayBound, SessionsStand
     DEF ImportsInv, Bound

\* A restart takes the runners and the requests, and with them every live session.
LEMMA RestartStep == ASSUME ImportsInv, Restart PROVE ImportsInv'
<1>1. UNCHANGED <<job, cand, follow, held, entitled, token, kept>>
  BY DEF Restart
<1>2. NoTask \in TaskStates /\ NoRequest \in ImportStates
  BY ImportsAssumption DEF NoTask, TaskStates, NoRequest, ImportStates
<1>3. /\ import' \in [ImportRequests -> ImportStates] /\ \A r \in ImportRequests : import'[r] = NoRequest
      /\ task' \in [Jobs -> TaskStates] /\ \A j \in Jobs : task'[j] = NoTask
  BY <1>2 DEF Restart
<1>4. /\ tmdbSession' \in [Tokens -> {"none", "live", "deleted", "left", "lost"}]
      /\ \A t \in Tokens : tmdbSession'[t] # "live"
  BY DEF ImportsInv, ImportsTypeOK, Restart
<1>5. restarts' \in 0..MaxRestarts
  BY ImportsAssumption DEF ImportsInv, ImportsTypeOK, Restart
<1>6. ImportsTypeOK'
  BY <1>1, <1>3, <1>4, <1>5 DEF ImportsInv, ImportsTypeOK
<1>7. Lists'
  <2>1. \A j \in Jobs : ListShape(j)'
    BY <1>1 DEF ImportsInv, Lists, ListShape, Status
  <2>2. \A j \in Jobs : RunnerAt(j)'
    BY <1>3 DEF RunnerAt, NoTask
  <2> QED
    BY <2>1, <2>2 DEF Lists
<1>8. Locks'
  BY <1>3 DEF Locks, LocksHold, NoRequest
<1>9. Bound'
  BY <1>3 DEF Bound, RequestIsBound, RunnerIsBound, NoRequest, NoTask
<1>10. SessionRows'
  BY <1>4 DEF SessionRows, SessionIsHeld
<1> QED
  BY <1>1, <1>6, <1>7, <1>8, <1>9, <1>10, OneOpenStands DEF ImportsInv

-----------------------------------------------------------------------------
(***************************************************************************)
(* The invariant, and what follows from it.                                *)
(***************************************************************************)
LEMMA ImportsInitInv == ASSUME ImportsInit PROVE ImportsInv
<1>1. /\ NoTask \in TaskStates /\ NoRequest \in ImportStates
      /\ NoJob \in JobStates /\ [st |-> "unissued", user |-> NoOne] \in TokenStates
  BY ImportsAssumption
     DEF NoTask, TaskStates, NoRequest, ImportStates, NoJob, JobStates, Statuses, Sources, TokenStates
<1>2. ImportsTypeOK
  BY <1>1, ImportsAssumption DEF ImportsInit, ImportsTypeOK
<1>3. Lists
  BY FS_EmptySet DEF ImportsInit, Lists, ListShape, RunnerAt, Status, NoJob, NoTask
<1>4. Locks
  BY DEF ImportsInit, Locks, LocksHold, NoRequest
<1>5. OneOpenImport
  BY DEF ImportsInit, OneOpenImport, Status, Active, NoJob
<1>6. Bound
  BY DEF ImportsInit, Bound, RequestIsBound, RunnerIsBound, NoRequest, NoTask
<1>7. SessionRows
  BY DEF ImportsInit, SessionRows, SessionIsHeld
<1> QED
  BY <1>2, <1>3, <1>4, <1>5, <1>6, <1>7 DEF ImportsInv

LEMMA ImportsStepInv == ASSUME ImportsInv, [ImportsNext]_imports PROVE ImportsInv'
<1>1. CASE ImportsNext
  BY <1>1, GrantStep, StartApprovalStep, TokenExpiresStep, CallbackArrivesStep, SpendStep, ExchangeStep,
     ReadAccountStep, UndoStep, UploadArrivesStep, DiscardStep, CheckActiveStep, InsertStep, RunStep,
     FinishRunStep, CrashStep, CloseRunStep, FinalizeFailedStep, ReadListStep, RowReportedStep,
     RowMatchedStep, ConfirmArrivesStep, ConfirmStep, FollowStep, RestartStep
     DEF ImportsNext
<1>2. CASE UNCHANGED imports
  <2>1. ImportsTypeOK'
    BY <1>2 DEF ImportsInv, ImportsTypeOK, imports
  <2> QED
    BY <1>2, <2>1, ListsStand, LocksStand, OneOpenStands, RequestsStayBound, RunnersStayBound, SessionsStand
       DEF ImportsInv, Bound, imports
<1> QED
  BY <1>1, <1>2

LEMMA ImportsInvariant == ImportsSpec => []ImportsInv
<1>1. ImportsInit => ImportsInv
  BY ImportsInitInv
<1>2. ImportsInv /\ [ImportsNext]_imports => ImportsInv'
  BY ImportsStepInv
<1> QED
  BY <1>1, <1>2, PTL DEF ImportsSpec

\* However uploads, callbacks, runners and confirms interleave, with restarts in between: a
\* user has one open import, a list under review is as long as its job says, and a confirmed
\* job counts what the user kept of it.
THEOREM ListsAlwaysAgree == ImportsSpec => []ListsAgree
<1>1. ImportsInv => ListsAgree
  <2> SUFFICES ASSUME ImportsInv PROVE ListsAgree
    OBVIOUS
  <2>1. \A i, j \in Jobs :
           job[i].user = job[j].user /\ {job[i].status, job[j].status} \subseteq Active => i = j
    BY DEF ImportsInv, OneOpenImport, Status
  <2>2. \A j \in Jobs : ListShape(j)
    BY DEF ImportsInv, Lists
  <2> QED
    BY <2>1, <2>2 DEF ImportsInv, ListsAgree, ListShape, Status
<1> QED
  BY <1>1, ImportsInvariant, PTL

\* While a TMDB session is live, the request or the runner that will delete it is there, and
\* acts for the user who approved it: no path forgets one, but the restart that loses all.
THEOREM NoCredentialIsLeft == ImportsSpec => []NoCredentialLeft
<1>1. ImportsInv => NoCredentialLeft
  <2> SUFFICES ASSUME ImportsInv, NEW t \in Tokens, tmdbSession[t] = "live"
               PROVE  \E u \in Importers :
                        /\ u = token[t].user
                        /\ \/ \E r \in ImportRequests : import[r].token = t /\ import[r].user = u
                           \/ \E j \in Jobs : task[j].token = t /\ job[j].user = u
    BY DEF NoCredentialLeft
  <2>1. CASE \E r \in ImportRequests : HeldByRequest(r, t)
    <3>1. PICK r \in ImportRequests : HeldByRequest(r, t)
      BY <2>1
    <3>2. import[r].token = t /\ import[r].user \in Importers /\ import[r].user = token[t].user
      BY <3>1, ImportsAssumption DEF ImportsInv, Bound, RequestIsBound, BoundTo, HeldByRequest
    <3> QED
      BY <3>2
  <2>2. CASE \E j \in Jobs : HeldByRunner(j, t)
    <3>1. PICK j \in Jobs : HeldByRunner(j, t)
      BY <2>2
    <3>2. task[j].token = t /\ job[j].user \in Importers /\ job[j].user = token[t].user
      BY <3>1, ImportsAssumption DEF ImportsInv, Bound, RunnerIsBound, BoundTo, HeldByRunner
    <3> QED
      BY <3>2
  <2> QED
    BY <2>1, <2>2 DEF ImportsInv, SessionRows, SessionIsHeld
<1> QED
  BY <1>1, ImportsInvariant, PTL
=============================================================================
