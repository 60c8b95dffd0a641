---------------------------- MODULE AccountTokens ----------------------------
(***************************************************************************)
(* The accounts of people, their sessions and the links they get by mail:  *)
(* services/auth_token.py, api/routes/auth_tokens.py, api/routes/auth.py   *)
(* (sign-up, login, password change, withdrawal, logout) and the check     *)
(* every request passes (auth/dependencies.py).  Roles are Administrators. *)
(*                                                                         *)
(* A request first reads, then waits (hashing a password takes long), then *)
(* writes and commits.  Its writes take row locks and hold them until it   *)
(* commits; what it wrote is seen by the others from then on.  The         *)
(* database, CUBRID with isolation READ COMMITTED and no lock timeout,     *)
(* takes a shared lock on the parent row whenever it writes a child row,   *)
(* also when the reference stays the same, and ends one of two             *)
(* transactions that wait for each other (tests/test_voyage_row_lock_db.py *)
(* and tests/test_db_isolation_premise_db.py show both).                   *)
(*                                                                         *)
(* A password is the number of passwords the account had before it.        *)
(***************************************************************************)
EXTENDS Naturals, Sequences, FiniteSets

CONSTANTS
    MaxUsers,      \* bound: accounts, all of one e-mail address
    Requests,      \* requests being handled
    MaxTokens,     \* bound: rows of user_token
    MaxSessions,   \* bound: rows of user_session
    MaxPassword,   \* bound: changes of the password of an account
    NULL

ASSUME BoundsAssumption ==
    /\ IsFiniteSet(Requests)
    /\ {MaxUsers, MaxTokens, MaxSessions, MaxPassword} \subseteq Nat
    /\ NULL \notin Nat

VARIABLES
    account,   \* the app_user rows; NULL where there is none yet
    tokens,    \* the user_token rows in the order they were inserted
    sessions,  \* the user_session rows in the order they were inserted
    request    \* what each request is about and how far it is

vars == <<account, tokens, sessions, request>>

\* Accounts in the order they were opened.
Users == 1..MaxUsers

Purposes == {"EMAIL_VERIFY", "PASSWORD_RESET"}

AccountRow == [password : 0..MaxPassword, verified : BOOLEAN, is_deleted : BOOLEAN]

\* The row that does not exist is none that does.
ASSUME RowAssumption == NULL \notin AccountRow

\* A token that expires unused stays without a mark.
TokenRow == [user : Users, purpose : Purposes, state : {"unused", "expired", "used"}]

\* `password' is what the login that opened the session checked, `stale' that
\* the password had changed by the time the session was stored.
SessionRow == [user : Users, revoked : BOOLEAN, password : 0..MaxPassword,
               stale : BOOLEAN]

Idle == [kind |-> "idle"]

\* The steps of a request: it has read the account; it has the account's row
\* for itself; it has marked the tokens `marks', whose rows are locked.  A link
\* that is opened marks its token, then shares the account's row, too, and
\* finds the account active.  `stale' says, for the properties only, that the
\* password has changed or the account has been withdrawn since the request
\* read it.
Request == {Idle} \cup
    [kind : {"login", "change", "issue", "withdraw"}, step : {"read", "locked", "superseded"},
     user : Users, purpose : Purposes \cup {NULL}, password : 0..MaxPassword,
     marks : SUBSET (1..MaxTokens), stale : BOOLEAN] \cup
    [kind : {"confirm"}, step : {"begun", "marked", "shared"},
     token : 1..MaxTokens, asked_by : Users \cup {NULL}]

\* Among the types: tokens and sessions refer to an account that exists.
TypeOK ==
    /\ account \in [Users -> AccountRow \cup {NULL}]
    /\ tokens \in Seq(TokenRow) /\ Len(tokens) =< MaxTokens
    /\ sessions \in Seq(SessionRow) /\ Len(sessions) =< MaxSessions
    /\ request \in [Requests -> Request]
    /\ \A t \in DOMAIN tokens : account[tokens[t].user] # NULL
    /\ \A s \in DOMAIN sessions : account[sessions[s].user] # NULL

Live(u) == account[u] # NULL /\ ~account[u].is_deleted

\* resolve_session: the row is not revoked and its account still lives.
Resolves(s) == ~sessions[s].revoked /\ Live(sessions[s].user)

\* The users who can ask for what needs a session.
SignedIn == {sessions[s].user : s \in {s \in DOMAIN sessions : Resolves(s)}}

-----------------------------------------------------------------------------
(* Row locks.                                                              *)

Confirming(q) == request[q].kind = "confirm"

Owner(q) ==
    IF Confirming(q) THEN tokens[request[q].token].user ELSE request[q].user

Step(q, step) == request[q] # Idle /\ request[q].step = step

\* The transactions that hold the row of token t, of account u.
HoldsToken(q, t) ==
    IF Confirming(q)
      THEN request[q].token = t /\ request[q].step \in {"marked", "shared"}
      ELSE request[q] # Idle /\ t \in request[q].marks

HoldsAccount(q, u) ==
    (Step(q, "locked") \/ Step(q, "superseded")) /\ Owner(q) = u
SharesAccount(q, u) == Step(q, "shared") /\ Owner(q) = u

\* The tokens a request marks as used: of one purpose when a new one is
\* issued, of both at withdrawal.
TokensToMark(q) ==
    {t \in DOMAIN tokens :
        /\ tokens[t].user = request[q].user
        /\ tokens[t].state # "used"
        /\ request[q].kind = "issue" => tokens[t].purpose = request[q].purpose}

\* Whom the next write of q waits for.
WaitsFor(q) ==
    {r \in Requests \ {q} :
        CASE Step(q, "begun")  -> HoldsToken(r, request[q].token)
          [] Step(q, "marked") -> HoldsAccount(r, Owner(q))
          [] Step(q, "shared") \/ Step(q, "read") ->
                 HoldsAccount(r, Owner(q)) \/ SharesAccount(r, Owner(q))
          [] Step(q, "locked") -> \E t \in TokensToMark(q) : HoldsToken(r, t)
          [] OTHER -> FALSE}

Granted(q) == WaitsFor(q) = {}

-----------------------------------------------------------------------------
(* What the writes have in common.                                         *)

Ends(q) == request' = [request EXCEPT ![q] = Idle]

\* Requests that have read account u before it changes.
Overtaken(u) ==
    [q \in Requests |->
        IF Step(q, "read") /\ request[q].user = u
          THEN [request[q] EXCEPT !.stale = TRUE] ELSE request[q]]

\* Mutant: no session is revoked.
NoSessionRevoked(u) == sessions

\* revoke_all_sessions
Revoked(u) ==
    [s \in DOMAIN sessions |->
        IF sessions[s].user = u THEN [sessions[s] EXCEPT !.revoked = TRUE]
        ELSE sessions[s]]

Marked(marked) ==
    [t \in DOMAIN tokens |->
        IF t \in marked THEN [tokens[t] EXCEPT !.state = "used"] ELSE tokens[t]]

NewToken(u, purpose) ==
    [user |-> u, purpose |-> purpose, state |-> "unused"]

NewSession(u, password, stale) ==
    [user |-> u, revoked |-> FALSE, password |-> password, stale |-> stale]

\* A new password ends every session of the account.
NewPassword(q, u) ==
    /\ account[u].password < MaxPassword
    /\ account' = [account EXCEPT ![u].password = @ + 1]
    /\ sessions' = Revoked(u)
    /\ request' = [Overtaken(u) EXCEPT ![q] = Idle]

-----------------------------------------------------------------------------
(* Operations.                                                             *)

Init ==
    /\ account = [u \in Users |-> NULL]
    /\ tokens = <<>>
    /\ sessions = <<>>
    /\ request = [q \in Requests |-> Idle]

\* The unique index admits one live account for the address; it is signed in
\* at once and gets the first link.
SignUp(u) ==
    /\ account[u] = NULL
    /\ \A w \in 1..(u - 1) : account[w] # NULL
    /\ \A w \in Users : ~Live(w)
    /\ Len(tokens) < MaxTokens /\ Len(sessions) < MaxSessions
    /\ account' = [account EXCEPT ![u] = [password |-> 0, verified |-> FALSE,
                                          is_deleted |-> FALSE]]
    /\ tokens' = Append(tokens, NewToken(u, "EMAIL_VERIFY"))
    /\ sessions' = Append(sessions, NewSession(u, 0, FALSE))
    /\ UNCHANGED request

\* The account is read, without a lock: by its address for a login and for a
\* new link, through the session for the other two.  A login and a change of
\* the password check the password they were given against what they read.
Read(q, kind, u, purpose) ==
    /\ request[q] = Idle
    /\ Live(u)
    /\ (purpose # NULL) <=> (kind = "issue")
    /\ kind \in {"change", "withdraw"} => u \in SignedIn
    /\ purpose = "EMAIL_VERIFY" => ~account[u].verified
    /\ request' = [request EXCEPT ![q] =
           [kind |-> kind, step |-> "read", user |-> u, purpose |-> purpose,
            password |-> account[u].password, marks |-> {}, stale |-> FALSE]]
    /\ UNCHANGED <<account, tokens, sessions>>

\* The login writes the time of the login into the account and stores the
\* session; it does not look at the account again.
LogIn(q) ==
    /\ request[q].kind = "login" /\ Granted(q)
    /\ Len(sessions) < MaxSessions
    /\ sessions' = Append(sessions,
           NewSession(request[q].user, request[q].password, request[q].stale))
    /\ Ends(q)
    /\ UNCHANGED <<account, tokens>>

ChangePassword(q) ==
    /\ request[q].kind = "change" /\ Granted(q)
    /\ NewPassword(q, request[q].user)
    /\ UNCHANGED tokens

\* Mutant: a new link is issued without locking the account.
LockNothing(q) ==
    /\ request[q].kind \in {"issue", "withdraw"} /\ Step(q, "read")
    /\ request' = [request EXCEPT ![q].step = "locked"]
    /\ UNCHANGED <<account, tokens, sessions>>

\* SELECT ... FOR UPDATE before a new link, the UPDATE at withdrawal.
LockAccount(q) ==
    /\ request[q].kind \in {"issue", "withdraw"} /\ Step(q, "read")
    /\ Granted(q)
    /\ request' = [request EXCEPT ![q].step = "locked"]
    /\ UNCHANGED <<account, tokens, sessions>>

\* The UPDATE of the earlier links, seen by the others after the commit ...
SupersedeTokens(q) ==
    /\ request[q].kind = "issue" /\ Step(q, "locked") /\ Granted(q)
    /\ request' = [request EXCEPT ![q].step = "superseded",
                                  ![q].marks = TokensToMark(q)]
    /\ UNCHANGED <<account, tokens, sessions>>

\* ... of the new one.
IssueToken(q) ==
    /\ Step(q, "superseded")
    /\ Len(tokens) < MaxTokens
    /\ tokens' = Append(Marked(request[q].marks),
                        NewToken(request[q].user, request[q].purpose))
    /\ Ends(q)
    /\ UNCHANGED <<account, sessions>>

\* Mutant: the row of the account is removed.
WithdrawForGood(q) ==
    LET u == request[q].user
    IN  /\ request[q].kind = "withdraw" /\ Step(q, "locked") /\ Granted(q)
        /\ account' = [account EXCEPT ![u] = NULL]
        /\ sessions' = Revoked(u)
        /\ tokens' = Marked(TokensToMark(q))
        /\ request' = [Overtaken(u) EXCEPT ![q] = Idle]

Withdraw(q) ==
    LET u == request[q].user
    IN  /\ request[q].kind = "withdraw" /\ Step(q, "locked") /\ Granted(q)
        /\ account' = [account EXCEPT ![u].is_deleted = TRUE]
        /\ sessions' = Revoked(u)
        /\ tokens' = Marked(TokensToMark(q))
        /\ request' = [Overtaken(u) EXCEPT ![q] = Idle]

\* Somebody opens a link.  Verifying needs a session, of whomever.
OpenLink(q, t, asker) ==
    /\ request[q] = Idle
    /\ IF tokens[t].purpose = "EMAIL_VERIFY" THEN asker \in SignedIn ELSE asker = NULL
    /\ request' = [request EXCEPT ![q] =
           [kind |-> "confirm", step |-> "begun", token |-> t, asked_by |-> asker]]
    /\ UNCHANGED <<account, tokens, sessions>>

\* Mutant: a token that was used meanwhile is taken as well.
ConsumeUsed(q) ==
    /\ Step(q, "begun") /\ Granted(q)
    /\ tokens[request[q].token].state # "expired"
    /\ request' = [request EXCEPT ![q].step = "marked"]
    /\ UNCHANGED <<account, tokens, sessions>>

\* The UPDATE finds the token neither used nor expired.
ConsumeToken(q) ==
    /\ Step(q, "begun") /\ Granted(q)
    /\ tokens[request[q].token].state = "unused"
    /\ request' = [request EXCEPT ![q].step = "marked"]
    /\ UNCHANGED <<account, tokens, sessions>>

\* Mutant: an account that has been withdrawn is taken as well.
LinkOfAnyAccount(q) ==
    request[q].asked_by # NULL => request[q].asked_by = Owner(q)

\* A link is for its owner, who must not have withdrawn.
LinkIsGood(q) ==
    /\ request[q].asked_by # NULL => request[q].asked_by = Owner(q)
    /\ Live(Owner(q))

\* The same UPDATE shares the account's row; then the account is read.
ShareAccount(q) ==
    /\ Step(q, "marked") /\ Granted(q)
    /\ LinkIsGood(q)
    /\ request' = [request EXCEPT ![q].step = "shared"]
    /\ UNCHANGED <<account, tokens, sessions>>

\* The account is written and the token stays used.
Confirm(q) ==
    LET u == Owner(q)
    IN  /\ Step(q, "shared") /\ Granted(q)
        /\ tokens' = Marked({request[q].token})
        /\ \/ /\ tokens[request[q].token].purpose = "PASSWORD_RESET"
              /\ NewPassword(q, u)
           \/ /\ tokens[request[q].token].purpose = "EMAIL_VERIFY"
              /\ account' = [account EXCEPT ![u].verified = TRUE]
              /\ Ends(q)
              /\ UNCHANGED sessions

\* Mutant: nobody answers a link of an account that has been withdrawn.
RejectUsed(q) ==
    /\ Step(q, "begun") /\ Granted(q)
    /\ tokens[request[q].token].state # "unused"
    /\ Ends(q)
    /\ UNCHANGED <<account, tokens, sessions>>

\* Rolled back and answered with an error: the token was no good, or is that
\* of another account or of one withdrawn.  It is as unused as before.
Reject(q) ==
    /\ \/ /\ Step(q, "begun") /\ Granted(q)
          /\ tokens[request[q].token].state # "unused"
       \/ Step(q, "marked") /\ Granted(q) /\ ~LinkIsGood(q)
    /\ Ends(q)
    /\ UNCHANGED <<account, tokens, sessions>>

\* The database ends a transaction that waits in a circle.
DeadlockVictim(q) ==
    /\ \E r \in WaitsFor(q) : q \in WaitsFor(r)
    /\ Ends(q)
    /\ UNCHANGED <<account, tokens, sessions>>

\* A request that a bound keeps from writing fails.
AtBound(q) ==
    /\ Step(q, "read") \/ Step(q, "superseded") \/ Step(q, "shared")
    /\ \/ Len(sessions) = MaxSessions
       \/ Len(tokens) = MaxTokens
       \/ account[Owner(q)].password = MaxPassword
    /\ Ends(q)
    /\ UNCHANGED <<account, tokens, sessions>>

LogOut(s) ==
    /\ ~sessions[s].revoked
    /\ sessions' = [sessions EXCEPT ![s].revoked = TRUE]
    /\ UNCHANGED <<account, tokens, request>>

\* An hour passes, or a day.
Expire(t) ==
    /\ tokens[t].state = "unused"
    /\ tokens' = [tokens EXCEPT ![t].state = "expired"]
    /\ UNCHANGED <<account, sessions, request>>

Arrive(q) ==
    \/ \E kind \in {"login", "change", "issue", "withdraw"}, u \in Users,
          purpose \in Purposes \cup {NULL} : Read(q, kind, u, purpose)
    \/ \E t \in DOMAIN tokens, asker \in Users \cup {NULL} : OpenLink(q, t, asker)

Proceed(q) ==
    \/ LogIn(q) \/ ChangePassword(q) \/ LockAccount(q) \/ SupersedeTokens(q) \/ IssueToken(q)
    \/ Withdraw(q) \/ ConsumeToken(q) \/ ShareAccount(q) \/ Confirm(q)
    \/ Reject(q) \/ AtBound(q)

Next ==
    \/ \E u \in Users : SignUp(u)
    \/ \E q \in Requests : Arrive(q) \/ Proceed(q) \/ DeadlockVictim(q)
    \/ \E s \in DOMAIN sessions : LogOut(s)
    \/ \E t \in DOMAIN tokens : Expire(t)

\* Row locks are granted in the order they are asked for, so a request that
\* can go on again and again does; deadlocks are found; nothing else is fair.
Fairness ==
    /\ \A q \in Requests : SF_vars(Proceed(q))
    /\ WF_vars(\E q \in Requests : DeadlockVictim(q))

Spec == Init /\ [][Next]_vars /\ Fairness

-----------------------------------------------------------------------------
(* Properties.                                                             *)

SameKind(t, w) == tokens[t].user = tokens[w].user /\ tokens[t].purpose = tokens[w].purpose

\* Of the links of one kind that an account was sent only the newest can be
\* unused, however many requests for a new one overlap with each other and
\* with the opening of an old one (issue_token).
OnlyNewestLink ==
    \A t, w \in DOMAIN tokens : t < w /\ SameKind(t, w) => tokens[t].state = "used"

\* A link has its effect at most once, also when it is opened twice at the
\* same time: whenever a request writes what a link is for, the link was
\* unused until then and is used from then on (consume_token).
LinkWorksOnce ==
    [][\A q \in Requests :
          Step(q, "shared") /\ account' # account /\ request'[q] = Idle =>
              /\ tokens[request[q].token].state # "used"
              /\ tokens'[request[q].token].state = "used"]_vars

\* A session that is still good was opened with the present password, unless
\* the password changed while its login was under way: no earlier session
\* survives a new password (revoke_all_sessions).
SessionsFollowPassword ==
    \A s \in DOMAIN sessions :
        Resolves(s) =>
            \/ sessions[s].password = account[sessions[s].user].password
            \/ sessions[s].stale

\* Nothing is written into an account that has been withdrawn, by a link
\* least of all, except by a change of password that had read the account
\* before (delete_me, #2109).
WithdrawnUntouched ==
    [][\A u \in Users :
          account[u] # NULL /\ account[u].is_deleted /\ account'[u] # account[u] =>
              \E q \in Requests :
                  /\ request[q].kind = "change" /\ request[q].user = u
                  /\ request[q].stale /\ request'[q] = Idle]_vars

\* Every request ends, whatever it waits for: the locks of two requests can
\* form a circle (a link is opened while another one is issued), which the
\* database must break, but nothing waits for ever.
RequestsEnd == \A q \in Requests : request[q] # Idle ~> request[q] = Idle
=============================================================================
