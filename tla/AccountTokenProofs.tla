-------------------------- MODULE AccountTokenProofs --------------------------
(***************************************************************************)
(* Proofs about AccountTokens, for any number of accounts, requests, links *)
(* and sessions.  They rest on the row locks: which request holds the row  *)
(* of an account or of a link for itself, and what nobody else can have    *)
(* done meanwhile.  That every request ends is liveness, which TLC checks; *)
(* proved here is that not all of them wait for ever, and that none goes   *)
(* in circles.                                                             *)
(***************************************************************************)
EXTENDS AccountTokens, TLAPS

Kinds == {"login", "change", "issue", "withdraw"}

Asking == [kind : Kinds, step : {"read", "locked", "superseded"},
           user : Users, purpose : Purposes \cup {NULL}, password : 0..MaxPassword,
           marks : SUBSET (1..MaxTokens), stale : BOOLEAN]

Opening == [kind : {"confirm"}, step : {"begun", "marked", "shared"},
            token : 1..MaxTokens, asked_by : Users \cup {NULL}]

\* What belongs together in a request: its account and its link exist, and
\* only a new link marks earlier ones before it commits.
RequestOK(q) ==
    /\ request[q] \in {Idle} \cup Asking \cup Opening
    /\ request[q] \in Opening => request[q].token \in DOMAIN tokens
    /\ request[q] \in Asking =>
           /\ account[request[q].user] # NULL
           /\ request[q].kind = "issue" => request[q].purpose \in Purposes
           /\ request[q].step = "locked" => request[q].kind \in {"issue", "withdraw"}
           /\ IF request[q].step = "superseded"
                THEN request[q].kind = "issue" /\ request[q].marks \subseteq DOMAIN tokens
                ELSE request[q].marks = {}

Types == TypeOK /\ \A q \in Requests : RequestOK(q)

\* A row that one request holds is held, or shared, by no other.
AccountLocks ==
    \A q, r \in Requests, u \in Users :
        q # r /\ HoldsAccount(q, u) => ~HoldsAccount(r, u) /\ ~SharesAccount(r, u)

TokenLocks ==
    \A q, r \in Requests, t \in 1..MaxTokens :
        q # r /\ HoldsToken(q, t) => ~HoldsToken(r, t)

\* The request that is about to issue a link has marked every earlier one of
\* its kind that is not used.
SupersedesAll ==
    \A q \in Requests, t \in DOMAIN tokens :
        /\ Step(q, "superseded")
        /\ tokens[t].user = request[q].user
        /\ tokens[t].purpose = request[q].purpose
        => tokens[t].state = "used" \/ t \in request[q].marks

\* The link a request has marked is not used, and once it shares the row of
\* the account that account has not been withdrawn.
LinkHeld ==
    \A q \in Requests :
        /\ Step(q, "marked") \/ Step(q, "shared") => tokens[request[q].token].state # "used"
        /\ Step(q, "shared") => Live(Owner(q))

\* What a request has read of its account is so still, or it is stale.
ReadCurrent ==
    \A q \in Requests :
        Step(q, "read") =>
            \/ request[q].stale
            \/ /\ Live(request[q].user)
               /\ request[q].password = account[request[q].user].password

Inv == /\ Types /\ AccountLocks /\ TokenLocks /\ SupersedesAll /\ LinkHeld /\ ReadCurrent
       /\ OnlyNewestLink /\ SessionsFollowPassword

-----------------------------------------------------------------------------
(* Requests and the steps they are at.                                     *)

LEMMA RequestCases ==
    ASSUME Types, NEW q \in Requests
    PROVE  \/ request[q] = Idle
           \/ request[q] \in Asking /\ request[q] # Idle /\ ~Confirming(q)
           \/ request[q] \in Opening /\ request[q] # Idle /\ Confirming(q)
  BY DEF Types, RequestOK, Idle, Asking, Opening, Kinds, Confirming

\* The step tells who asks.
LEMMA StepCases ==
    ASSUME Types, NEW q \in Requests
    PROVE  /\ \/ Step(q, "read") \/ Step(q, "locked") \/ Step(q, "superseded")
              => request[q] \in Asking /\ ~Confirming(q)
           /\ \/ Step(q, "begun") \/ Step(q, "marked") \/ Step(q, "shared")
              => request[q] \in Opening /\ Confirming(q)
           /\ request[q] \in Asking => request[q].user \in Users
           /\ request[q] \in Opening => request[q].token \in DOMAIN tokens
           /\ request[q].kind \in Kinds => request[q] \in Asking /\ request[q] # Idle
  <1>1. CASE request[q] = Idle
    BY <1>1 DEF Step, Idle, Asking, Opening, Kinds
  <1>2. CASE request[q] \in Asking /\ request[q] # Idle /\ ~Confirming(q)
    BY <1>2 DEF Step, Asking, Opening, Kinds
  <1>3. CASE request[q] \in Opening /\ request[q] # Idle /\ Confirming(q)
    BY <1>3 DEF Step, Asking, Opening, Kinds, Types, RequestOK
  <1> QED BY <1>1, <1>2, <1>3, RequestCases

\* The accounts that requests and rows refer to.
LEMMA OwnerThere ==
    ASSUME Types, NEW q \in Requests, request[q] # Idle
    PROVE  Owner(q) \in Users /\ account[Owner(q)] # NULL
  <1>1. CASE request[q] \in Asking /\ ~Confirming(q)
    BY <1>1 DEF Owner, Types, RequestOK, Asking
  <1>2. CASE request[q] \in Opening /\ Confirming(q)
    <2>1. request[q].token \in DOMAIN tokens
      BY <1>2, StepCases
    <2>2. tokens[request[q].token] \in TokenRow
      BY <2>1 DEF Types, TypeOK
    <2> QED BY <1>2, <2>1, <2>2 DEF Owner, Types, TypeOK, TokenRow
  <1> QED BY <1>1, <1>2, RequestCases

-----------------------------------------------------------------------------
(* Rows of links.                                                          *)

LEMMA MarkedRows ==
    ASSUME tokens \in Seq(TokenRow), NEW marked
    PROVE  /\ Marked(marked) \in Seq(TokenRow)
           /\ Len(Marked(marked)) = Len(tokens)
           /\ \A t \in DOMAIN tokens :
                 /\ Marked(marked)[t].user = tokens[t].user
                 /\ Marked(marked)[t].purpose = tokens[t].purpose
                 /\ Marked(marked)[t].state =
                        IF t \in marked THEN "used" ELSE tokens[t].state
  <1>1. \A t \in DOMAIN tokens :
            /\ Marked(marked)[t] \in TokenRow
            /\ Marked(marked)[t].user = tokens[t].user
            /\ Marked(marked)[t].purpose = tokens[t].purpose
            /\ Marked(marked)[t].state = IF t \in marked THEN "used" ELSE tokens[t].state
    <2> SUFFICES ASSUME NEW t \in DOMAIN tokens
                 PROVE  /\ Marked(marked)[t] \in TokenRow
                        /\ Marked(marked)[t].user = tokens[t].user
                        /\ Marked(marked)[t].purpose = tokens[t].purpose
                        /\ Marked(marked)[t].state =
                               IF t \in marked THEN "used" ELSE tokens[t].state
      OBVIOUS
    <2>1. tokens[t] \in TokenRow
      OBVIOUS
    <2>2. Marked(marked)[t] =
              IF t \in marked THEN [tokens[t] EXCEPT !.state = "used"] ELSE tokens[t]
      BY DEF Marked
    <2> QED BY <2>1, <2>2 DEF TokenRow
  <1>2. DOMAIN Marked(marked) = 1..Len(tokens)
    BY DEF Marked
  <1>3. Marked(marked) \in [1..Len(tokens) -> TokenRow]
    BY <1>1, <1>2 DEF Marked
  <1>4. Len(tokens) \in Nat
    OBVIOUS
  <1>5. Marked(marked) \in Seq(TokenRow) /\ Len(Marked(marked)) = Len(tokens)
    BY <1>2, <1>3, <1>4
  <1> QED BY <1>1, <1>5

\* Every token of before keeps its owner and purpose and, once used, stays so.
Follow(after) ==
    /\ after \in Seq(TokenRow)
    /\ Len(after) >= Len(tokens) /\ Len(after) =< MaxTokens
    /\ \A t \in DOMAIN tokens :
          /\ after[t].user = tokens[t].user
          /\ after[t].purpose = tokens[t].purpose
          /\ tokens[t].state = "used" => after[t].state = "used"

LEMMA MarkedFollow ==
    ASSUME tokens \in Seq(TokenRow), Len(tokens) =< MaxTokens, NEW marked
    PROVE  Follow(Marked(marked))
  BY MarkedRows, BoundsAssumption DEF Follow

\* A token is stored after the others, of which some become used.
TokenStored(after, marked, u, purpose) ==
    after = Append(Marked(marked), NewToken(u, purpose))

\* A token that is stored comes last.
LEMMA AppendFollow ==
    ASSUME tokens \in Seq(TokenRow), NEW marked, NEW u \in Users, NEW purpose \in Purposes,
           Len(tokens) < MaxTokens, NEW after, TokenStored(after, marked, u, purpose)
    PROVE  /\ Follow(after)
           /\ Len(after) = Len(tokens) + 1
           /\ \A t \in DOMAIN tokens : after[t] = Marked(marked)[t]
           /\ after[Len(tokens) + 1] = NewToken(u, purpose)
  <1>1. NewToken(u, purpose) \in TokenRow
    BY DEF NewToken, TokenRow
  <1>2. /\ Marked(marked) \in Seq(TokenRow)
        /\ Len(Marked(marked)) = Len(tokens)
        /\ \A t \in DOMAIN tokens :
              /\ Marked(marked)[t].user = tokens[t].user
              /\ Marked(marked)[t].purpose = tokens[t].purpose
              /\ Marked(marked)[t].state = IF t \in marked THEN "used" ELSE tokens[t].state
    BY MarkedRows
  <1> DEFINE before == Marked(marked)
             new == NewToken(u, purpose)
  <1> HIDE DEF before, new
  <1>3. /\ after \in Seq(TokenRow) /\ Len(after) = Len(tokens) + 1
        /\ \A t \in DOMAIN tokens : after[t] = before[t]
        /\ after[Len(tokens) + 1] = new
    BY <1>1, <1>2 DEF before, new, TokenStored
  <1>4. Len(after) >= Len(tokens) /\ Len(after) =< MaxTokens
    BY <1>3, BoundsAssumption
  <1>5. \A t \in DOMAIN tokens :
          /\ after[t].user = tokens[t].user
          /\ after[t].purpose = tokens[t].purpose
          /\ tokens[t].state = "used" => after[t].state = "used"
    BY <1>2, <1>3 DEF before
  <1> QED BY <1>3, <1>4, <1>5 DEF Follow, before, new

\* Nothing marked, nothing changed.
LEMMA MarkedNothing ==
    ASSUME tokens \in Seq(TokenRow)
    PROVE  Marked({}) = tokens
  BY DEF Marked

-----------------------------------------------------------------------------
(* Rows of sessions.                                                       *)

\* Every session of before keeps its owner and what its login checked, and
\* once revoked stays so.
SessionsFollow(after) ==
    /\ after \in Seq(SessionRow)
    /\ Len(after) >= Len(sessions) /\ Len(after) =< MaxSessions
    /\ \A s \in DOMAIN sessions :
          /\ after[s].user = sessions[s].user
          /\ after[s].password = sessions[s].password
          /\ after[s].stale = sessions[s].stale
          /\ sessions[s].revoked => after[s].revoked

LEMMA RevokedRows ==
    ASSUME sessions \in Seq(SessionRow), Len(sessions) =< MaxSessions, NEW u
    PROVE  /\ SessionsFollow(Revoked(u))
           /\ Len(Revoked(u)) = Len(sessions)
           /\ \A s \in DOMAIN sessions : sessions[s].user = u => Revoked(u)[s].revoked
  <1>1. \A s \in DOMAIN sessions :
            /\ Revoked(u)[s] \in SessionRow
            /\ Revoked(u)[s].user = sessions[s].user
            /\ Revoked(u)[s].password = sessions[s].password
            /\ Revoked(u)[s].stale = sessions[s].stale
            /\ sessions[s].revoked => Revoked(u)[s].revoked
            /\ sessions[s].user = u => Revoked(u)[s].revoked
    <2> SUFFICES ASSUME NEW s \in DOMAIN sessions
                 PROVE  /\ Revoked(u)[s] \in SessionRow
                        /\ Revoked(u)[s].user = sessions[s].user
                        /\ Revoked(u)[s].password = sessions[s].password
                        /\ Revoked(u)[s].stale = sessions[s].stale
                        /\ sessions[s].revoked => Revoked(u)[s].revoked
                        /\ sessions[s].user = u => Revoked(u)[s].revoked
      OBVIOUS
    <2>1. sessions[s] \in SessionRow
      OBVIOUS
    <2>2. CASE sessions[s].user = u
      <3>1. Revoked(u)[s] = [sessions[s] EXCEPT !.revoked = TRUE]
        BY <2>2 DEF Revoked
      <3> QED BY <2>1, <3>1 DEF SessionRow
    <2>3. CASE sessions[s].user # u
      BY <2>1, <2>3 DEF Revoked
    <2> QED BY <2>2, <2>3
  <1>2. DOMAIN Revoked(u) = 1..Len(sessions)
    BY DEF Revoked
  <1>3. Revoked(u) \in [1..Len(sessions) -> SessionRow]
    BY <1>1, <1>2 DEF Revoked
  <1>4. Revoked(u) \in Seq(SessionRow) /\ Len(Revoked(u)) = Len(sessions)
    BY <1>2, <1>3
  <1> QED BY <1>1, <1>4, BoundsAssumption DEF SessionsFollow

LEMMA AppendSession ==
    ASSUME sessions \in Seq(SessionRow), Len(sessions) < MaxSessions, NEW row \in SessionRow
    PROVE  /\ SessionsFollow(Append(sessions, row))
           /\ Len(Append(sessions, row)) = Len(sessions) + 1
           /\ \A s \in DOMAIN sessions : Append(sessions, row)[s] = sessions[s]
           /\ Append(sessions, row)[Len(sessions) + 1] = row
  BY BoundsAssumption DEF SessionsFollow

-----------------------------------------------------------------------------
(* The steps, by what they write.                                          *)

\* A step of q that writes nothing yet.
Moves(q) ==
    \/ Arrive(q) \/ LockAccount(q) \/ SupersedeTokens(q)
    \/ ConsumeToken(q) \/ ShareAccount(q)

\* A request ends, and at most stores a session.
Stops(q) == Ends(q) /\ UNCHANGED <<account, tokens>> /\ (UNCHANGED sessions \/ LogIn(q))

StepKind ==
    \/ \E u \in Users : SignUp(u)
    \/ \E q \in Requests : \/ Moves(q) \/ Stops(q) \/ IssueToken(q)
                           \/ ChangePassword(q) \/ Withdraw(q) \/ Confirm(q)
    \/ \E s \in DOMAIN sessions : LogOut(s)
    \/ \E t \in DOMAIN tokens : Expire(t)
    \/ UNCHANGED vars

LEMMA StepKinds ==
    ASSUME [Next]_vars
    PROVE  StepKind
  <1>1. ASSUME NEW q \in Requests, Proceed(q)
        PROVE  StepKind
    <2>1. LogIn(q) \/ Reject(q) \/ AtBound(q) => Stops(q)
      BY DEF LogIn, Reject, AtBound, Stops
    <2> QED BY <1>1, <2>1 DEF Proceed, StepKind, Moves
  <1>2. ASSUME NEW q \in Requests, DeadlockVictim(q)
        PROVE  Stops(q)
    BY <1>2 DEF DeadlockVictim, Stops
  <1> QED BY <1>1, <1>2 DEF Next, StepKind, Moves

\* What a new password does.
LEMMA NewPasswordEffect ==
    ASSUME Types, NEW q \in Requests, NEW u \in Users, account[u] # NULL, NewPassword(q, u)
    PROVE  /\ account' \in [Users -> AccountRow \cup {NULL}]
           /\ account'[u] \in AccountRow
           /\ account'[u].is_deleted = account[u].is_deleted
           /\ \A w \in Users \ {u} : account'[w] = account[w]
           /\ sessions' = Revoked(u)
           /\ request' = [Overtaken(u) EXCEPT ![q] = Idle]
  <1>1. account[u] \in AccountRow
    BY DEF Types, TypeOK
  <1>2. account'[u] = [account[u] EXCEPT !.password = @ + 1]
    BY DEF NewPassword, Types, TypeOK
  <1>3. account[u].password + 1 \in 0..MaxPassword
    BY <1>1, BoundsAssumption DEF NewPassword, AccountRow
  <1>4. account'[u] \in AccountRow /\ account'[u].is_deleted = account[u].is_deleted
    BY <1>1, <1>2, <1>3 DEF AccountRow
  <1>5. \A w \in Users \ {u} : account'[w] = account[w]
    BY DEF NewPassword, Types, TypeOK
  <1>6. account' \in [Users -> AccountRow \cup {NULL}]
    BY <1>4, <1>5 DEF NewPassword, Types, TypeOK
  <1> QED BY <1>4, <1>5, <1>6 DEF NewPassword

LEMMA WithdrawEffect ==
    ASSUME Types, NEW q \in Requests, Withdraw(q), NEW u, u = request[q].user
    PROVE  /\ u \in Users /\ account[u] # NULL /\ HoldsAccount(q, u)
           /\ account' \in [Users -> AccountRow \cup {NULL}]
           /\ account'[u] \in AccountRow
           /\ account'[u] = [account[u] EXCEPT !.is_deleted = TRUE]
           /\ account'[u].is_deleted
           /\ account'[u].password = account[u].password
           /\ \A w \in Users \ {u} : account'[w] = account[w]
           /\ sessions' = Revoked(u)
           /\ tokens' = Marked(TokensToMark(q))
           /\ request' = [Overtaken(u) EXCEPT ![q] = Idle]
  <1>1. request[q] \in Asking /\ ~Confirming(q) /\ u \in Users /\ account[u] # NULL
    BY StepCases DEF Withdraw, Types, RequestOK
  <1>2. HoldsAccount(q, u)
    BY <1>1 DEF HoldsAccount, Withdraw, Owner
  <1>3. account[u] \in AccountRow
    BY <1>1 DEF Types, TypeOK
  <1>4. account' = [account EXCEPT ![u].is_deleted = TRUE]
    BY DEF Withdraw
  <1>5. account'[u] = [account[u] EXCEPT !.is_deleted = TRUE]
    BY <1>1, <1>4 DEF Types, TypeOK
  <1>6. /\ account'[u] \in AccountRow
        /\ account'[u].is_deleted
        /\ account'[u].password = account[u].password
    BY <1>3, <1>5 DEF AccountRow
  <1>7. \A w \in Users \ {u} : account'[w] = account[w]
    BY <1>4 DEF Types, TypeOK
  <1>8. account' \in [Users -> AccountRow \cup {NULL}]
    BY <1>4, <1>6, <1>7 DEF Types, TypeOK
  <1> QED BY <1>1, <1>2, <1>5, <1>6, <1>7, <1>8 DEF Withdraw

LEMMA ChangeEffect ==
    ASSUME Types, NEW q \in Requests, ChangePassword(q), NEW u, u = request[q].user
    PROVE  /\ u \in Users /\ account[u] # NULL /\ Step(q, "read")
           /\ NewPassword(q, u) /\ tokens' = tokens
  <1>1. request[q] \in Asking /\ request[q] # Idle /\ u \in Users /\ account[u] # NULL
    BY StepCases DEF ChangePassword, Types, RequestOK, Kinds
  <1>2. request[q].kind = "change"
    BY DEF ChangePassword
  <1>3. request[q].step = "read"
    BY <1>1, <1>2 DEF Types, RequestOK, Asking
  <1> QED BY <1>1, <1>3 DEF ChangePassword, Step

LEMMA ConfirmEffect ==
    ASSUME Types, NEW q \in Requests, Confirm(q), NEW u, u = Owner(q)
    PROVE  /\ u \in Users /\ account[u] # NULL /\ Step(q, "shared") /\ SharesAccount(q, u)
           /\ request[q].token \in DOMAIN tokens /\ HoldsToken(q, request[q].token)
           /\ tokens' = Marked({request[q].token})
           /\ \/ NewPassword(q, u)
              \/ /\ account' \in [Users -> AccountRow \cup {NULL}]
                 /\ account'[u] \in AccountRow
                 /\ account'[u].is_deleted = account[u].is_deleted
                 /\ account'[u].password = account[u].password
                 /\ \A w \in Users \ {u} : account'[w] = account[w]
                 /\ sessions' = sessions
                 /\ request' = [request EXCEPT ![q] = Idle]
  <1>1. Step(q, "shared") /\ Confirming(q) /\ request[q] # Idle
    BY StepCases DEF Confirm, Step
  <1>2. u \in Users /\ account[u] # NULL /\ account[u] \in AccountRow
    BY <1>1, OwnerThere DEF Types, TypeOK
  <1>3. request[q].token \in DOMAIN tokens
    BY <1>1, StepCases
  <1>4. HoldsToken(q, request[q].token) /\ SharesAccount(q, u)
    BY <1>1 DEF HoldsToken, Step, SharesAccount
  <1>5. ASSUME account' = [account EXCEPT ![u].verified = TRUE]
        PROVE  /\ account' \in [Users -> AccountRow \cup {NULL}]
               /\ account'[u] \in AccountRow
               /\ account'[u].is_deleted = account[u].is_deleted
               /\ account'[u].password = account[u].password
               /\ \A w \in Users \ {u} : account'[w] = account[w]
    <2>1. account'[u] = [account[u] EXCEPT !.verified = TRUE]
      BY <1>2, <1>5 DEF Types, TypeOK
    <2>2. /\ account'[u] \in AccountRow
          /\ account'[u].is_deleted = account[u].is_deleted
          /\ account'[u].password = account[u].password
      BY <1>2, <2>1 DEF AccountRow
    <2> QED BY <1>5, <2>2 DEF Types, TypeOK
  <1> QED BY <1>1, <1>2, <1>3, <1>4, <1>5 DEF Confirm, Ends

LEMMA SignUpEffect ==
    ASSUME Types, NEW u \in Users, SignUp(u)
    PROVE  /\ account[u] = NULL
           /\ account' \in [Users -> AccountRow \cup {NULL}]
           /\ account'[u] \in AccountRow
           /\ account'[u].password = 0
           /\ \A w \in Users \ {u} : account'[w] = account[w]
           /\ NewSession(u, 0, FALSE) \in SessionRow
           /\ sessions' = Append(sessions, NewSession(u, 0, FALSE))
           /\ Len(sessions) < MaxSessions /\ Len(tokens) < MaxTokens
           /\ tokens' = Append(Marked({}), NewToken(u, "EMAIL_VERIFY"))
           /\ request' = request
  <1>1. NewSession(u, 0, FALSE) \in SessionRow
    BY BoundsAssumption DEF NewSession, SessionRow
  <1>2. tokens' = Append(Marked({}), NewToken(u, "EMAIL_VERIFY"))
    BY MarkedNothing DEF SignUp, Types, TypeOK
  <1>3. [password |-> 0, verified |-> FALSE, is_deleted |-> FALSE] \in AccountRow
    BY BoundsAssumption DEF AccountRow
  <1>4. /\ account'[u] = [password |-> 0, verified |-> FALSE, is_deleted |-> FALSE]
        /\ \A w \in Users \ {u} : account'[w] = account[w]
    BY DEF SignUp, Types, TypeOK
  <1>5. account' \in [Users -> AccountRow \cup {NULL}]
    BY <1>3, <1>4 DEF SignUp, Types, TypeOK
  <1> QED BY <1>1, <1>2, <1>3, <1>4, <1>5 DEF SignUp

LEMMA IssueEffect ==
    ASSUME Types, NEW q \in Requests, IssueToken(q)
    PROVE  /\ request[q] \in Asking /\ Step(q, "superseded")
           /\ request[q].user \in Users /\ account[request[q].user] # NULL
           /\ request[q].purpose \in Purposes
           /\ HoldsAccount(q, request[q].user)
           /\ Len(tokens) < MaxTokens
           /\ tokens' = Append(Marked(request[q].marks),
                               NewToken(request[q].user, request[q].purpose))
           /\ request' = [request EXCEPT ![q] = Idle]
           /\ UNCHANGED <<account, sessions>>
  <1>1. request[q] \in Asking /\ ~Confirming(q) /\ Step(q, "superseded")
    BY StepCases DEF IssueToken
  <1>2. /\ request[q].purpose \in Purposes
        /\ request[q].user \in Users /\ account[request[q].user] # NULL
    BY <1>1, StepCases DEF Types, RequestOK, Step
  <1> QED BY <1>1, <1>2 DEF IssueToken, Ends, HoldsAccount, Owner

LEMMA LogInEffect ==
    ASSUME Types, NEW q \in Requests, LogIn(q)
    PROVE  /\ Step(q, "read") /\ request[q] \in Asking
           /\ request[q].user \in Users /\ account[request[q].user] # NULL
           /\ NewSession(request[q].user, request[q].password, request[q].stale)
                  \in SessionRow
           /\ Len(sessions) < MaxSessions
           /\ sessions' = Append(sessions, NewSession(request[q].user,
                                     request[q].password, request[q].stale))
  <1>1. request[q] \in Asking /\ request[q] # Idle
    BY StepCases DEF LogIn, Kinds
  <1>2. request[q].user \in Users /\ account[request[q].user] # NULL
    BY <1>1 DEF Types, RequestOK, Asking
  <1>3. request[q].step = "read"
    BY <1>1 DEF LogIn, Types, RequestOK, Asking
  <1>4. NewSession(request[q].user, request[q].password, request[q].stale) \in SessionRow
    BY <1>1 DEF NewSession, SessionRow, Asking
  <1> QED BY <1>1, <1>2, <1>3, <1>4 DEF LogIn, Step

\* What has become of the request that moves on.
LEMMA MoveEffect ==
    ASSUME Types, NEW q \in Requests, Moves(q)
    PROVE  /\ UNCHANGED <<account, tokens, sessions>>
           /\ request' = [request EXCEPT ![q] = request'[q]]
           /\ RequestOK(q)'
           /\ \/ /\ request[q] = Idle /\ Step(q, "read")'
                 /\ request'[q].user \in Users /\ Live(request'[q].user)
                 /\ request'[q].password = account[request'[q].user].password
              \/ request[q] = Idle /\ Step(q, "begun")'
              \/ LockAccount(q) /\ request'[q] = [request[q] EXCEPT !.step = "locked"]
              \/ /\ SupersedeTokens(q)
                 /\ request'[q] = [request[q] EXCEPT !.step = "superseded",
                                                     !.marks = TokensToMark(q)]
              \/ ConsumeToken(q) /\ request'[q] = [request[q] EXCEPT !.step = "marked"]
              \/ ShareAccount(q) /\ request'[q] = [request[q] EXCEPT !.step = "shared"]
  <1> DEFINE Same == /\ UNCHANGED <<account, tokens, sessions>>
                     /\ request' = [request EXCEPT ![q] = request'[q]]
  <1>0. tokens \in Seq(TokenRow) /\ Len(tokens) \in Nat /\ Len(tokens) =< MaxTokens
        /\ DOMAIN tokens = 1..Len(tokens)
    BY DEF Types, TypeOK
  <1>1. ASSUME NEW kind \in Kinds, NEW u \in Users, NEW purpose \in Purposes \cup {NULL},
               Read(q, kind, u, purpose)
        PROVE  /\ Same /\ RequestOK(q)' /\ request[q] = Idle /\ Step(q, "read")'
               /\ request'[q].user \in Users /\ Live(request'[q].user)
               /\ request'[q].password = account[request'[q].user].password
    <2>1. request'[q] = [kind |-> kind, step |-> "read", user |-> u, purpose |-> purpose,
                         password |-> account[u].password, marks |-> {}, stale |-> FALSE]
      BY <1>1 DEF Read, Types, TypeOK
    <2>2. account[u] # NULL /\ account[u] \in AccountRow
      BY <1>1 DEF Read, Live, Types, TypeOK
    <2>3. account[u].password \in 0..MaxPassword
      BY <2>2 DEF AccountRow
    <2>4. request'[q] \in Asking
      BY <2>1, <2>3 DEF Asking
    <2>5. request'[q] \notin Opening /\ request'[q] # Idle
      BY <2>4 DEF Asking, Opening, Kinds, Idle
    <2>6. kind = "issue" => purpose \in Purposes
      BY <1>1 DEF Read
    <2>7. Same
      BY <1>1 DEF Read, Types, TypeOK
    <2>8. RequestOK(q)'
      BY <2>1, <2>2, <2>4, <2>5, <2>6, <2>7 DEF RequestOK
    <2> QED BY <1>1, <2>1, <2>5, <2>7, <2>8 DEF Read, Step
  <1>2. ASSUME NEW t \in DOMAIN tokens, NEW asker \in Users \cup {NULL}, OpenLink(q, t, asker)
        PROVE  Same /\ RequestOK(q)' /\ request[q] = Idle /\ Step(q, "begun")'
    <2>1. request'[q] = [kind |-> "confirm", step |-> "begun", token |-> t,
                         asked_by |-> asker]
      BY <1>2 DEF OpenLink, Types, TypeOK
    <2>2. t \in 1..MaxTokens
      BY <1>0, BoundsAssumption
    <2>3. request'[q] \in Opening
      BY <2>1, <2>2 DEF Opening
    <2>4. request'[q] \notin Asking /\ request'[q] # Idle
      BY <2>3 DEF Asking, Opening, Kinds, Idle
    <2>5. Same
      BY <1>2 DEF OpenLink, Types, TypeOK
    <2> QED BY <1>2, <2>1, <2>3, <2>4, <2>5 DEF RequestOK, Step, OpenLink
  <1>3. ASSUME LockAccount(q)
        PROVE  /\ Same /\ RequestOK(q)'
               /\ request'[q] = [request[q] EXCEPT !.step = "locked"]
    <2>1. request'[q] = [request[q] EXCEPT !.step = "locked"]
      BY <1>3 DEF LockAccount, Types, TypeOK
    <2>2. request[q] \in Asking /\ RequestOK(q)
      BY <1>3, StepCases DEF LockAccount, Types
    <2>3. /\ request'[q] \in Asking /\ request'[q].user = request[q].user
          /\ request'[q].kind = request[q].kind /\ request'[q].purpose = request[q].purpose
          /\ request'[q].step = "locked" /\ request'[q].marks = request[q].marks
      BY <2>1, <2>2 DEF Asking
    <2>4. request'[q] \notin Opening
      BY <2>3 DEF Asking, Opening, Kinds
    <2>5. Same
      BY <1>3 DEF LockAccount, Types, TypeOK
    <2>6. request[q].marks = {}
      BY <1>3, <2>2 DEF LockAccount, RequestOK, Step
    <2> QED BY <1>3, <2>1, <2>2, <2>3, <2>4, <2>5, <2>6 DEF RequestOK, LockAccount
  <1>4. ASSUME SupersedeTokens(q)
        PROVE  /\ Same /\ RequestOK(q)'
               /\ request'[q] = [request[q] EXCEPT !.step = "superseded",
                                                   !.marks = TokensToMark(q)]
    <2>1. request'[q] = [request[q] EXCEPT !.step = "superseded", !.marks = TokensToMark(q)]
      BY <1>4 DEF SupersedeTokens, Types, TypeOK
    <2>2. request[q] \in Asking /\ RequestOK(q)
      BY <1>4, StepCases DEF SupersedeTokens, Types
    <2>3. TokensToMark(q) \subseteq DOMAIN tokens /\ TokensToMark(q) \in SUBSET (1..MaxTokens)
      BY <1>0, BoundsAssumption DEF TokensToMark
    <2> DEFINE marks == TokensToMark(q)
    <2> HIDE DEF marks
    <2>4. request'[q] = [request[q] EXCEPT !.step = "superseded", !.marks = marks]
          /\ marks \subseteq DOMAIN tokens /\ marks \in SUBSET (1..MaxTokens)
      BY <2>1, <2>3 DEF marks
    <2>5. /\ request'[q] \in Asking /\ request'[q].user = request[q].user
          /\ request'[q].kind = request[q].kind /\ request'[q].purpose = request[q].purpose
          /\ request'[q].step = "superseded" /\ request'[q].marks = marks
      BY <2>2, <2>4 DEF Asking
    <2>6. request'[q] \notin Opening
      BY <2>5 DEF Asking, Opening, Kinds
    <2>7. Same
      BY <1>4 DEF SupersedeTokens, Types, TypeOK
    <2>8. request[q].kind = "issue"
      BY <1>4 DEF SupersedeTokens
    <2> QED BY <2>1, <2>2, <2>4, <2>5, <2>6, <2>7, <2>8 DEF RequestOK
  <1>5. ASSUME NEW step \in {"marked", "shared"}, request[q] \in Opening,
               request' = [request EXCEPT ![q].step = step],
               UNCHANGED <<account, tokens, sessions>>
        PROVE  Same /\ RequestOK(q)' /\ request'[q] = [request[q] EXCEPT !.step = step]
    <2>1. request'[q] = [request[q] EXCEPT !.step = step]
      BY <1>5 DEF Types, TypeOK
    <2>2. request'[q] \in Opening /\ request'[q].token = request[q].token
      BY <1>5, <2>1 DEF Opening
    <2>3. request'[q] \notin Asking
      BY <2>2 DEF Asking, Opening, Kinds
    <2>4. Same
      BY <1>5 DEF Types, TypeOK
    <2> QED BY <1>5, <2>1, <2>2, <2>3, <2>4 DEF RequestOK, Types
  <1>6. ASSUME ConsumeToken(q)
        PROVE  Same /\ RequestOK(q)' /\ request'[q] = [request[q] EXCEPT !.step = "marked"]
    BY <1>5, <1>6, StepCases DEF ConsumeToken
  <1>7. ASSUME ShareAccount(q)
        PROVE  Same /\ RequestOK(q)' /\ request'[q] = [request[q] EXCEPT !.step = "shared"]
    BY <1>5, <1>7, StepCases DEF ShareAccount
  <1> HIDE DEF Same
  <1>8. CASE Arrive(q)
    <2>1. CASE \E kind \in Kinds, u \in Users, purpose \in Purposes \cup {NULL} :
                   Read(q, kind, u, purpose)
      BY <1>1, <2>1 DEF Same
    <2>2. CASE \E t \in DOMAIN tokens, asker \in Users \cup {NULL} : OpenLink(q, t, asker)
      BY <1>2, <2>2 DEF Same
    <2> QED BY <1>8, <2>1, <2>2 DEF Arrive, Kinds
  <1> QED BY <1>3, <1>4, <1>6, <1>7, <1>8 DEF Moves, Same

\* What has become of any request.
LEMMA RequestAfter ==
    ASSUME Types, [Next]_vars, NEW r \in Requests
    PROVE  /\ request' = [q \in Requests |-> request'[q]]
           /\ \/ request'[r] = request[r]
              \/ request'[r] = Idle
              \/ Step(r, "read") /\ request'[r] = [request[r] EXCEPT !.stale = TRUE]
              \/ Moves(r)
  <1> DEFINE Goal == /\ request' = [q \in Requests |-> request'[q]]
                     /\ \/ request'[r] = request[r]
                        \/ request'[r] = Idle
                        \/ Step(r, "read") /\ request'[r] = [request[r] EXCEPT !.stale = TRUE]
                        \/ Moves(r)
  <1>1. request = [q \in Requests |-> request[q]]
    BY DEF Types, TypeOK
  <1>2. ASSUME NEW q \in Requests, NEW u, request' = [Overtaken(u) EXCEPT ![q] = Idle]
        PROVE  Goal
    BY <1>2 DEF Overtaken
  <1>3. ASSUME NEW q \in Requests, request' = [request EXCEPT ![q] = Idle]
        PROVE  Goal
    BY <1>1, <1>3
  <1>4. ASSUME NEW q \in Requests, Moves(q)
        PROVE  Goal
    <2>1. request' = [request EXCEPT ![q] = request'[q]]
      BY <1>4, MoveEffect
    <2> QED BY <1>1, <1>4, <2>1
  <1>5. ASSUME request' = request
        PROVE  Goal
    BY <1>1, <1>5
  <1> HIDE DEF Goal
  <1>6. ASSUME NEW q \in Requests,
               \/ Moves(q) \/ Stops(q) \/ IssueToken(q)
               \/ ChangePassword(q) \/ Withdraw(q) \/ Confirm(q)
        PROVE  Goal
    <2>1. CASE Moves(q)
      BY <1>4, <2>1
    <2>2. CASE Stops(q)
      BY <1>3, <2>2 DEF Stops, Ends
    <2>3. CASE IssueToken(q)
      BY <1>3, <2>3, IssueEffect
    <2>4. CASE ChangePassword(q)
      <3>1. request' = [Overtaken(request[q].user) EXCEPT ![q] = Idle]
        BY <2>4 DEF ChangePassword, NewPassword
      <3> QED BY <1>2, <3>1
    <2>5. CASE Withdraw(q)
      <3>1. request' = [Overtaken(request[q].user) EXCEPT ![q] = Idle]
        BY <2>5 DEF Withdraw
      <3> QED BY <1>2, <3>1
    <2>6. CASE Confirm(q)
      <3>1. \/ request' = [Overtaken(Owner(q)) EXCEPT ![q] = Idle]
            \/ request' = [request EXCEPT ![q] = Idle]
        BY <2>6 DEF Confirm, NewPassword, Ends
      <3> QED BY <1>2, <1>3, <3>1
    <2> QED BY <1>6, <2>1, <2>2, <2>3, <2>4, <2>5, <2>6
  <1>7. ASSUME \/ \E u \in Users : SignUp(u)
               \/ \E s \in DOMAIN sessions : LogOut(s)
               \/ \E t \in DOMAIN tokens : Expire(t)
               \/ UNCHANGED vars
        PROVE  request' = request
    BY <1>7 DEF SignUp, LogOut, Expire, vars
  <1>8. Goal
    BY <1>5, <1>6, <1>7, StepKinds DEF StepKind
  <1> QED BY <1>8 DEF Goal

-----------------------------------------------------------------------------
(* What the steps leave of the rows.                                       *)

\* Accounts stay, and a withdrawn one stays withdrawn.
LEMMA AccountAfter ==
    ASSUME Types, [Next]_vars
    PROVE  /\ account' \in [Users -> AccountRow \cup {NULL}]
           /\ \A u \in Users : account[u] # NULL =>
                 /\ account'[u] # NULL
                 /\ account[u].is_deleted => account'[u].is_deleted
  <1> DEFINE Goal == /\ account' \in [Users -> AccountRow \cup {NULL}]
                     /\ \A u \in Users : account[u] # NULL =>
                           /\ account'[u] # NULL
                           /\ account[u].is_deleted => account'[u].is_deleted
  <1>1. ASSUME NEW u \in Users, account' \in [Users -> AccountRow \cup {NULL}],
               account'[u] \in AccountRow,
               account[u] # NULL /\ account[u].is_deleted => account'[u].is_deleted,
               \A w \in Users \ {u} : account'[w] = account[w]
        PROVE  Goal
    BY <1>1, RowAssumption
  <1>2. ASSUME account' = account
        PROVE  Goal
    BY <1>2 DEF Types, TypeOK
  <1> HIDE DEF Goal
  <1>3. ASSUME NEW u \in Users, SignUp(u)
        PROVE  Goal
    BY <1>1, <1>3, SignUpEffect
  <1>4. ASSUME NEW q \in Requests, NEW u \in Users, account[u] # NULL, NewPassword(q, u)
        PROVE  Goal
    BY <1>1, <1>4, NewPasswordEffect
  <1>5. ASSUME NEW q \in Requests,
               \/ Moves(q) \/ Stops(q) \/ IssueToken(q)
               \/ ChangePassword(q) \/ Withdraw(q) \/ Confirm(q)
        PROVE  Goal
    <2>1. CASE Moves(q)
      BY <1>2, <2>1, MoveEffect
    <2>2. CASE Stops(q)
      BY <1>2, <2>2 DEF Stops
    <2>3. CASE IssueToken(q)
      BY <1>2, <2>3, IssueEffect
    <2>4. CASE ChangePassword(q)
      BY <1>4, <2>4, ChangeEffect
    <2>5. CASE Withdraw(q)
      BY <1>1, <2>5, WithdrawEffect
    <2>6. CASE Confirm(q)
      BY <1>1, <1>4, <2>6, ConfirmEffect
    <2> QED BY <1>5, <2>1, <2>2, <2>3, <2>4, <2>5, <2>6
  <1>6. ASSUME \/ \E s \in DOMAIN sessions : LogOut(s)
               \/ \E t \in DOMAIN tokens : Expire(t)
               \/ UNCHANGED vars
        PROVE  account' = account
    BY <1>6 DEF LogOut, Expire, vars
  <1>7. Goal
    BY <1>2, <1>3, <1>5, <1>6, StepKinds DEF StepKind
  <1> QED BY <1>7 DEF Goal

\* A token that becomes used was marked by the one request that held its row.
MarkedByHolder(t) ==
    \E q \in Requests :
        \/ IssueToken(q) /\ HoldsToken(q, t)
        \/ Confirm(q) /\ HoldsToken(q, t)
        \/ Withdraw(q) /\ t \in TokensToMark(q)

\* A token that appears is the first of a new account or is issued by a
\* request.
StoredByIssuer(t) ==
    \/ account[tokens'[t].user] = NULL
    \/ \E q \in Requests :
           /\ IssueToken(q)
           /\ tokens'[t].user = request[q].user /\ tokens'[t].purpose = request[q].purpose

LEMMA TokensAfter ==
    ASSUME Types, [Next]_vars
    PROVE  /\ Follow(tokens')
           /\ \A t \in DOMAIN tokens :
                 tokens[t].state # "used" /\ tokens'[t].state = "used" => MarkedByHolder(t)
           /\ \A t \in DOMAIN tokens' \ DOMAIN tokens :
                 /\ t = Len(tokens) + 1
                 /\ tokens'[t].user \in Users /\ account'[tokens'[t].user] # NULL
                 /\ StoredByIssuer(t)
  <1> DEFINE Goal == /\ Follow(tokens')
                     /\ \A t \in DOMAIN tokens :
                           tokens[t].state # "used" /\ tokens'[t].state = "used" =>
                               MarkedByHolder(t)
                     /\ \A t \in DOMAIN tokens' \ DOMAIN tokens :
                           /\ t = Len(tokens) + 1
                           /\ tokens'[t].user \in Users /\ account'[tokens'[t].user] # NULL
                           /\ StoredByIssuer(t)
  <1>0. tokens \in Seq(TokenRow) /\ Len(tokens) \in Nat /\ Len(tokens) =< MaxTokens
        /\ DOMAIN tokens = 1..Len(tokens)
    BY DEF Types, TypeOK
  <1>1. ASSUME NEW u \in Users, NEW purpose \in Purposes, NEW marked,
               Len(tokens) < MaxTokens,
               tokens' = Append(Marked(marked), NewToken(u, purpose)),
               account'[u] # NULL,
               \A t \in DOMAIN tokens : t \in marked => MarkedByHolder(t),
               \A t \in DOMAIN tokens' :
                   tokens'[t] = NewToken(u, purpose) => StoredByIssuer(t)
        PROVE  Goal
    <2>0. PICK after : after = tokens'
      OBVIOUS
    <2>1. /\ Follow(tokens')
          /\ Len(tokens') = Len(tokens) + 1
          /\ \A t \in DOMAIN tokens : tokens'[t] = Marked(marked)[t]
          /\ tokens'[Len(tokens) + 1] = NewToken(u, purpose)
      <3>1. tokens \in Seq(TokenRow) /\ Len(tokens) < MaxTokens
        BY <1>0, <1>1
      <3>2. TokenStored(after, marked, u, purpose)
        BY <1>1, <2>0 DEF TokenStored
      <3>3. /\ Follow(after)
            /\ Len(after) = Len(tokens) + 1
            /\ \A t \in DOMAIN tokens : after[t] = Marked(marked)[t]
            /\ after[Len(tokens) + 1] = NewToken(u, purpose)
        BY <3>1, <3>2, AppendFollow
      <3> QED BY <2>0, <3>3
    <2>2. \A t \in DOMAIN tokens :
              tokens[t].state # "used" /\ tokens'[t].state = "used" => MarkedByHolder(t)
      BY <1>0, <1>1, <2>1, MarkedRows
    <2>3. DOMAIN tokens' = 1..(Len(tokens) + 1)
      BY <2>1 DEF Follow
    <2>4. \A t \in DOMAIN tokens' \ DOMAIN tokens : t = Len(tokens) + 1
      BY <1>0, <2>3
    <2>5. NewToken(u, purpose).user = u
      BY DEF NewToken
    <2> QED BY <1>1, <2>1, <2>2, <2>4, <2>5
  <1>2. ASSUME NEW marked, tokens' = Marked(marked),
               \A t \in DOMAIN tokens : t \in marked => MarkedByHolder(t)
        PROVE  Goal
    <2>1. Follow(tokens') /\ Len(tokens') = Len(tokens)
      BY <1>0, <1>2, MarkedFollow, MarkedRows
    <2>2. \A t \in DOMAIN tokens :
              tokens[t].state # "used" /\ tokens'[t].state = "used" => MarkedByHolder(t)
      BY <1>0, <1>2, MarkedRows
    <2>3. DOMAIN tokens' = DOMAIN tokens
      BY <1>0, <2>1 DEF Follow
    <2> QED BY <2>1, <2>2, <2>3
  <1>3. ASSUME tokens' = tokens
        PROVE  Goal
    BY <1>0, <1>3, BoundsAssumption DEF Follow
  <1>4. ASSUME NEW t \in DOMAIN tokens, Expire(t)
        PROVE  Goal
    <2>1. tokens[t] \in TokenRow
      BY <1>0
    <2>2. /\ tokens[t].state = "unused"
          /\ tokens' = [tokens EXCEPT ![t] = [tokens[t] EXCEPT !.state = "expired"]]
      BY <1>4 DEF Expire
    <2>3. [tokens[t] EXCEPT !.state = "expired"] \in TokenRow
      BY <2>1 DEF TokenRow
    <2> DEFINE row == [tokens[t] EXCEPT !.state = "expired"]
    <2>4. row.user = tokens[t].user /\ row.purpose = tokens[t].purpose
          /\ row.state = "expired"
      BY <2>1 DEF TokenRow
    <2> HIDE DEF row
    <2>5. /\ tokens' \in Seq(TokenRow) /\ Len(tokens') = Len(tokens)
          /\ tokens'[t] = row /\ \A w \in DOMAIN tokens \ {t} : tokens'[w] = tokens[w]
          /\ DOMAIN tokens' = DOMAIN tokens
      BY <1>0, <2>2, <2>3 DEF row
    <2> QED BY <1>0, <2>2, <2>4, <2>5, BoundsAssumption DEF Follow
  <1> HIDE DEF Goal
  <1>5. ASSUME NEW u \in Users, SignUp(u)
        PROVE  Goal
    <2>1. /\ tokens' = Append(Marked({}), NewToken(u, "EMAIL_VERIFY"))
          /\ Len(tokens) < MaxTokens
          /\ account[u] = NULL /\ account'[u] # NULL
      BY <1>5, SignUpEffect, RowAssumption
    <2>2. \A t \in DOMAIN tokens' :
              tokens'[t] = NewToken(u, "EMAIL_VERIFY") => StoredByIssuer(t)
      BY <2>1 DEF StoredByIssuer, NewToken
    <2> QED BY <1>1, <2>1, <2>2 DEF Purposes
  <1>6. ASSUME NEW q \in Requests,
               \/ Moves(q) \/ Stops(q) \/ IssueToken(q)
               \/ ChangePassword(q) \/ Withdraw(q) \/ Confirm(q)
        PROVE  Goal
    <2>1. CASE Moves(q)
      BY <1>3, <2>1, MoveEffect
    <2>2. CASE Stops(q)
      BY <1>3, <2>2 DEF Stops
    <2>3. CASE IssueToken(q)
      <3> DEFINE u == request[q].user
                 purpose == request[q].purpose
                 marked == request[q].marks
      <3>1. /\ u \in Users /\ purpose \in Purposes /\ Len(tokens) < MaxTokens
            /\ tokens' = Append(Marked(marked), NewToken(u, purpose))
            /\ account'[u] # NULL
            /\ request[q] \in Asking /\ Step(q, "superseded")
        BY <2>3, IssueEffect
      <3>2. \A t \in DOMAIN tokens : t \in marked => MarkedByHolder(t)
        <4>1. ~Confirming(q) /\ request[q] # Idle
          BY <3>1, StepCases DEF Step
        <4> QED BY <2>3, <4>1 DEF MarkedByHolder, HoldsToken
      <3>3. \A t \in DOMAIN tokens' :
                tokens'[t] = NewToken(u, purpose) => StoredByIssuer(t)
        BY <2>3 DEF StoredByIssuer, NewToken
      <3> HIDE DEF u, purpose, marked
      <3> QED BY <1>1, <3>1, <3>2, <3>3
    <2>4. CASE ChangePassword(q)
      BY <1>3, <2>4 DEF ChangePassword
    <2>5. CASE Withdraw(q)
      <3>1. tokens' = Marked(TokensToMark(q))
        BY <2>5, WithdrawEffect
      <3>2. \A t \in DOMAIN tokens : t \in TokensToMark(q) => MarkedByHolder(t)
        BY <2>5 DEF MarkedByHolder
      <3> QED BY <1>2, <3>1, <3>2
    <2>6. CASE Confirm(q)
      <3>1. tokens' = Marked({request[q].token}) /\ HoldsToken(q, request[q].token)
        BY <2>6, ConfirmEffect
      <3>2. \A t \in DOMAIN tokens : t \in {request[q].token} => MarkedByHolder(t)
        BY <2>6, <3>1 DEF MarkedByHolder
      <3> QED BY <1>2, <3>1, <3>2
    <2> QED BY <1>6, <2>1, <2>2, <2>3, <2>4, <2>5, <2>6
  <1>7. ASSUME \/ \E s \in DOMAIN sessions : LogOut(s)
               \/ UNCHANGED vars
        PROVE  tokens' = tokens
    BY <1>7 DEF LogOut, vars
  <1>8. Goal
    BY <1>3, <1>4, <1>5, <1>6, <1>7, StepKinds DEF StepKind
  <1> QED BY <1>8 DEF Goal

\* A session that appears is that of a new account or of a login.
Opened(s) ==
    \/ \E u \in Users : SignUp(u) /\ sessions'[s] = NewSession(u, 0, FALSE)
    \/ \E q \in Requests :
           /\ LogIn(q) /\ account' = account
           /\ sessions'[s] = NewSession(request[q].user, request[q].password,
                                        request[q].stale)

LEMMA SessionsAfter ==
    ASSUME Types, [Next]_vars
    PROVE  /\ SessionsFollow(sessions')
           /\ \A s \in DOMAIN sessions' \ DOMAIN sessions : Opened(s)
  <1> DEFINE Goal == /\ SessionsFollow(sessions')
                     /\ \A s \in DOMAIN sessions' \ DOMAIN sessions : Opened(s)
  <1>0. sessions \in Seq(SessionRow) /\ Len(sessions) \in Nat /\ Len(sessions) =< MaxSessions
        /\ DOMAIN sessions = 1..Len(sessions)
    BY DEF Types, TypeOK
  <1>1. ASSUME NEW row \in SessionRow, Len(sessions) < MaxSessions,
               sessions' = Append(sessions, row),
               \A s : sessions'[s] = row => Opened(s)
        PROVE  Goal
    <2>1. /\ SessionsFollow(sessions')
          /\ Len(sessions') = Len(sessions) + 1
          /\ sessions'[Len(sessions) + 1] = row
      BY <1>0, <1>1, AppendSession
    <2>2. DOMAIN sessions' = 1..(Len(sessions) + 1)
      BY <2>1 DEF SessionsFollow
    <2>3. \A s \in DOMAIN sessions' \ DOMAIN sessions : s = Len(sessions) + 1
      BY <1>0, <2>2
    <2> QED BY <1>1, <2>1, <2>3
  <1>2. ASSUME NEW u, sessions' = Revoked(u)
        PROVE  Goal
    <2>1. SessionsFollow(sessions') /\ Len(sessions') = Len(sessions)
      BY <1>0, <1>2, RevokedRows
    <2>2. DOMAIN sessions' = DOMAIN sessions
      BY <1>0, <2>1 DEF SessionsFollow
    <2> QED BY <2>1, <2>2
  <1>3. ASSUME sessions' = sessions
        PROVE  Goal
    BY <1>0, <1>3, BoundsAssumption DEF SessionsFollow
  <1>4. ASSUME NEW s \in DOMAIN sessions, LogOut(s)
        PROVE  Goal
    <2>1. sessions[s] \in SessionRow
      BY <1>0
    <2>2. sessions' = [sessions EXCEPT ![s] = [sessions[s] EXCEPT !.revoked = TRUE]]
      BY <1>4 DEF LogOut
    <2> DEFINE row == [sessions[s] EXCEPT !.revoked = TRUE]
    <2>3. /\ row \in SessionRow /\ row.user = sessions[s].user
          /\ row.password = sessions[s].password /\ row.stale = sessions[s].stale
          /\ row.revoked
      BY <2>1 DEF SessionRow
    <2> HIDE DEF row
    <2>4. /\ sessions' \in Seq(SessionRow) /\ Len(sessions') = Len(sessions)
          /\ sessions'[s] = row /\ \A w \in DOMAIN sessions \ {s} : sessions'[w] = sessions[w]
          /\ DOMAIN sessions' = DOMAIN sessions
      BY <1>0, <2>2, <2>3 DEF row
    <2> QED BY <1>0, <2>3, <2>4, BoundsAssumption DEF SessionsFollow
  <1> HIDE DEF Goal
  <1>5. ASSUME NEW u \in Users, SignUp(u)
        PROVE  Goal
    <2>1. /\ NewSession(u, 0, FALSE) \in SessionRow /\ Len(sessions) < MaxSessions
          /\ sessions' = Append(sessions, NewSession(u, 0, FALSE))
      BY <1>5, SignUpEffect
    <2>2. \A s : sessions'[s] = NewSession(u, 0, FALSE) => Opened(s)
      BY <1>5 DEF Opened
    <2> QED BY <1>1, <2>1, <2>2
  <1>6. ASSUME NEW q \in Requests,
               \/ Moves(q) \/ Stops(q) \/ IssueToken(q)
               \/ ChangePassword(q) \/ Withdraw(q) \/ Confirm(q)
        PROVE  Goal
    <2>1. CASE Moves(q)
      BY <1>3, <2>1, MoveEffect
    <2>2. CASE Stops(q)
      <3>1. CASE LogIn(q)
        <4>1. /\ Len(sessions) < MaxSessions
              /\ NewSession(request[q].user, request[q].password, request[q].stale)
                     \in SessionRow
              /\ sessions' = Append(sessions, NewSession(request[q].user,
                                        request[q].password, request[q].stale))
          BY <3>1, LogInEffect
        <4>2. \A s : sessions'[s] = NewSession(request[q].user, request[q].password,
                                               request[q].stale) => Opened(s)
          BY <2>2, <3>1 DEF Opened, Stops
        <4> QED BY <1>1, <4>1, <4>2
      <3>2. CASE UNCHANGED sessions
        BY <1>3, <3>2
      <3> QED BY <2>2, <3>1, <3>2 DEF Stops
    <2>3. CASE IssueToken(q)
      BY <1>3, <2>3, IssueEffect
    <2>4. CASE ChangePassword(q)
      BY <1>2, <2>4 DEF ChangePassword, NewPassword
    <2>5. CASE Withdraw(q)
      BY <1>2, <2>5 DEF Withdraw
    <2>6. CASE Confirm(q)
      BY <1>2, <1>3, <2>6 DEF Confirm, NewPassword
    <2> QED BY <1>6, <2>1, <2>2, <2>3, <2>4, <2>5, <2>6
  <1>7. ASSUME (\E t \in DOMAIN tokens : Expire(t)) \/ UNCHANGED vars
        PROVE  sessions' = sessions
    BY <1>7 DEF Expire, vars
  <1>8. Goal
    BY <1>3, <1>4, <1>5, <1>6, <1>7, StepKinds DEF StepKind
  <1> QED BY <1>8 DEF Goal

-----------------------------------------------------------------------------
(* Types.                                                                  *)

LEMMA TypesStep ==
    ASSUME Types, [Next]_vars
    PROVE  Types'
  <1>1. /\ account' \in [Users -> AccountRow \cup {NULL}]
        /\ \A u \in Users : account[u] # NULL => account'[u] # NULL
    BY AccountAfter
  <1>2. /\ Follow(tokens')
        /\ \A t \in DOMAIN tokens' \ DOMAIN tokens : account'[tokens'[t].user] # NULL
    BY TokensAfter
  <1>3. /\ SessionsFollow(sessions')
        /\ \A s \in DOMAIN sessions' \ DOMAIN sessions : Opened(s)
    BY SessionsAfter
  <1>4. \A t \in DOMAIN tokens' : account'[tokens'[t].user] # NULL
    <2> SUFFICES ASSUME NEW t \in DOMAIN tokens, t \in DOMAIN tokens'
                 PROVE  account'[tokens'[t].user] # NULL
      BY <1>2
    <2>1. tokens[t].user \in Users /\ account[tokens[t].user] # NULL
      <3>1. tokens[t] \in TokenRow
        BY DEF Types, TypeOK
      <3> QED BY <3>1 DEF Types, TypeOK, TokenRow
    <2> QED BY <1>1, <1>2, <2>1 DEF Follow
  <1>5. \A s \in DOMAIN sessions' : account'[sessions'[s].user] # NULL
    <2>1. ASSUME NEW s \in DOMAIN sessions
          PROVE  account'[sessions'[s].user] # NULL
      <3>1. sessions[s].user \in Users /\ account[sessions[s].user] # NULL
        <4>1. sessions[s] \in SessionRow
          BY DEF Types, TypeOK
        <4> QED BY <4>1 DEF Types, TypeOK, SessionRow
      <3> QED BY <1>1, <1>3, <3>1 DEF SessionsFollow
    <2>2. ASSUME NEW s, Opened(s)
          PROVE  account'[sessions'[s].user] # NULL
      <3>1. CASE \E u \in Users : SignUp(u) /\ sessions'[s] = NewSession(u, 0, FALSE)
        BY <3>1, SignUpEffect, RowAssumption DEF NewSession
      <3>2. CASE \E q \in Requests :
                    /\ LogIn(q) /\ account' = account
                    /\ sessions'[s] = NewSession(request[q].user, request[q].password,
                                                 request[q].stale)
        BY <3>2, LogInEffect DEF NewSession
      <3> QED BY <2>2, <3>1, <3>2 DEF Opened
    <2> QED BY <1>3, <2>1, <2>2
  <1>6. DOMAIN tokens \subseteq DOMAIN tokens'
    BY <1>2 DEF Follow, Types, TypeOK
  <1>7. ASSUME NEW r \in Requests
        PROVE  RequestOK(r)'
    <2>1. CASE request'[r] = request[r]
      BY <1>1, <1>6, <2>1 DEF Types, RequestOK, Asking
    <2>2. CASE request'[r] = Idle
      BY <2>2 DEF RequestOK, Idle, Asking, Opening, Kinds
    <2>3. CASE Step(r, "read") /\ request'[r] = [request[r] EXCEPT !.stale = TRUE]
      <3>1. request[r] \in Asking /\ RequestOK(r) /\ request[r].step = "read"
        BY <2>3, StepCases DEF Types, Step
      <3>2. /\ request'[r] \in Asking /\ request'[r].user = request[r].user
            /\ request'[r].kind = request[r].kind /\ request'[r].purpose = request[r].purpose
            /\ request'[r].step = "read" /\ request'[r].marks = request[r].marks
        BY <2>3, <3>1 DEF Asking
      <3>3. request'[r] \notin Opening
        BY <3>2 DEF Asking, Opening, Kinds
      <3> QED BY <1>1, <3>1, <3>2, <3>3 DEF RequestOK, Asking
    <2>4. CASE Moves(r)
      BY <2>4, MoveEffect
    <2> QED BY <2>1, <2>2, <2>3, <2>4, RequestAfter
  <1>8. request' \in [Requests -> Request]
    <2>1. \A r \in Requests : request'[r] \in Request
      BY <1>7 DEF RequestOK, Request, Asking, Opening, Kinds
    <2>2. request' = [q \in Requests |-> request'[q]]
      <3>1. CASE Requests = {}
        BY <3>1, StepKinds DEF StepKind, SignUp, LogOut, Expire, vars, Types, TypeOK
      <3>2. CASE Requests # {}
        BY <3>2, RequestAfter
      <3> QED BY <3>1, <3>2
    <2> QED BY <2>1, <2>2
  <1> QED BY <1>1, <1>2, <1>3, <1>4, <1>5, <1>7, <1>8
          DEF Types, TypeOK, Follow, SessionsFollow

\* The types hold throughout: links and sessions refer to an account that
\* exists, whatever requests cross and however they end.
THEOREM TypeCorrect == Spec => []TypeOK
  <1>1. Init => Types
    BY BoundsAssumption DEF Init, Types, TypeOK, RequestOK, Idle, Asking, Opening, Kinds, Request
  <1>2. Types /\ [Next]_vars => Types'
    BY TypesStep
  <1>3. Types => TypeOK
    BY DEF Types
  <1> QED BY <1>1, <1>2, <1>3, PTL DEF Spec

-----------------------------------------------------------------------------
(* Row locks.                                                              *)

\* What a request that is not kept waiting knows about the others.
LEMMA GrantedFacts ==
    ASSUME NEW q \in Requests, Granted(q), NEW r \in Requests \ {q}
    PROVE  /\ Step(q, "begun") => ~HoldsToken(r, request[q].token)
           /\ Step(q, "marked") => ~HoldsAccount(r, Owner(q))
           /\ Step(q, "shared") \/ Step(q, "read") =>
                  ~HoldsAccount(r, Owner(q)) /\ ~SharesAccount(r, Owner(q))
           /\ Step(q, "locked") => \A t \in TokensToMark(q) : ~HoldsToken(r, t)
  <1>1. ~ CASE Step(q, "begun")  -> HoldsToken(r, request[q].token)
            [] Step(q, "marked") -> HoldsAccount(r, Owner(q))
            [] Step(q, "shared") \/ Step(q, "read") ->
                   HoldsAccount(r, Owner(q)) \/ SharesAccount(r, Owner(q))
            [] Step(q, "locked") -> \E t \in TokensToMark(q) : HoldsToken(r, t)
            [] OTHER -> FALSE
    BY DEF Granted, WaitsFor
  <1>2. ASSUME Step(q, "begun")
        PROVE  ~Step(q, "marked") /\ ~Step(q, "shared") /\ ~Step(q, "read") /\ ~Step(q, "locked")
    BY <1>2 DEF Step
  <1>3. ASSUME Step(q, "marked")
        PROVE  ~Step(q, "begun") /\ ~Step(q, "shared") /\ ~Step(q, "read") /\ ~Step(q, "locked")
    BY <1>3 DEF Step
  <1>4. ASSUME Step(q, "shared") \/ Step(q, "read")
        PROVE  ~Step(q, "begun") /\ ~Step(q, "marked") /\ ~Step(q, "locked")
    BY <1>4 DEF Step
  <1>5. ASSUME Step(q, "locked")
        PROVE  ~Step(q, "begun") /\ ~Step(q, "marked") /\ ~Step(q, "shared") /\ ~Step(q, "read")
    BY <1>5 DEF Step
  <1> QED BY <1>1, <1>2, <1>3, <1>4, <1>5

\* While one request moves on, the others hold what they held.
LEMMA OthersHold ==
    ASSUME Types, NEW q \in Requests, Moves(q), NEW r \in Requests \ {q}, NEW u, NEW t
    PROVE  /\ HoldsAccount(r, u)' <=> HoldsAccount(r, u)
           /\ SharesAccount(r, u)' <=> SharesAccount(r, u)
           /\ HoldsToken(r, t)' <=> HoldsToken(r, t)
  <1>1. tokens' = tokens /\ request' = [request EXCEPT ![q] = request'[q]]
    BY MoveEffect
  <1>2. request'[r] = request[r]
    BY <1>1 DEF Types, TypeOK
  <1> QED BY <1>1, <1>2 DEF HoldsAccount, SharesAccount, HoldsToken, Step, Owner, Confirming

\* The owner of a request that stays is who it was.
LEMMA OwnerAfter ==
    ASSUME Types, [Next]_vars, NEW q \in Requests, request[q] # Idle,
           request'[q] = request[q]
    PROVE  Owner(q)' = Owner(q)
  <1>1. CASE Confirming(q)
    <2>1. request[q].token \in DOMAIN tokens
      BY <1>1, RequestCases, StepCases DEF Confirming, Asking, Opening, Kinds
    <2> QED BY <1>1, <2>1, TokensAfter DEF Owner, Confirming, Follow
  <1>2. CASE ~Confirming(q)
    BY <1>2 DEF Owner, Confirming
  <1> QED BY <1>1, <1>2

\* Only LockAccount and ShareAccount add to what is held of an account.
LEMMA AccountHeldAfter ==
    ASSUME Types, [Next]_vars, NEW q \in Requests, NEW u
    PROVE  /\ HoldsAccount(q, u)' => HoldsAccount(q, u) \/ (LockAccount(q) /\ Owner(q) = u)
           /\ SharesAccount(q, u)' => SharesAccount(q, u) \/ (ShareAccount(q) /\ Owner(q) = u)
  <1>1. CASE request'[q] = request[q]
    BY <1>1, OwnerAfter DEF HoldsAccount, SharesAccount, Step
  <1>2. CASE request'[q] = Idle
    BY <1>2 DEF HoldsAccount, SharesAccount, Step
  <1>3. CASE Step(q, "read") /\ request'[q] = [request[q] EXCEPT !.stale = TRUE]
    <2>1. request'[q].step = "read"
      BY <1>3, StepCases DEF Step, Asking
    <2> QED BY <2>1 DEF HoldsAccount, SharesAccount, Step
  <1>4. CASE Moves(q)
    <2>1. tokens' = tokens
      BY <1>4, MoveEffect
    <2>2. CASE Step(q, "read")' \/ Step(q, "begun")'
      BY <2>2 DEF HoldsAccount, SharesAccount, Step
    <2>3. CASE LockAccount(q) /\ request'[q] = [request[q] EXCEPT !.step = "locked"]
      <3>1. request[q] \in Asking /\ ~Confirming(q)
        BY <2>3, StepCases DEF LockAccount
      <3>2. /\ request'[q].step = "locked" /\ request'[q].user = request[q].user
            /\ request'[q].kind = request[q].kind
        BY <2>3, <3>1 DEF Asking
      <3> QED BY <2>3, <3>1, <3>2 DEF HoldsAccount, SharesAccount, Step, Owner, Confirming
    <2>4. CASE /\ SupersedeTokens(q)
               /\ request'[q] = [request[q] EXCEPT !.step = "superseded",
                                                   !.marks = TokensToMark(q)]
      <3>1. request[q] \in Asking /\ ~Confirming(q) /\ Step(q, "locked")
        BY <2>4, StepCases DEF SupersedeTokens
      <3>2. /\ request'[q].step = "superseded" /\ request'[q].user = request[q].user
            /\ request'[q].kind = request[q].kind
        BY <2>4, <3>1 DEF Asking
      <3> QED BY <3>1, <3>2 DEF HoldsAccount, SharesAccount, Step, Owner, Confirming
    <2>5. CASE ConsumeToken(q) /\ request'[q] = [request[q] EXCEPT !.step = "marked"]
      <3>1. request'[q].step = "marked"
        BY <2>5, StepCases DEF ConsumeToken, Opening
      <3> QED BY <3>1 DEF HoldsAccount, SharesAccount, Step
    <2>6. CASE ShareAccount(q) /\ request'[q] = [request[q] EXCEPT !.step = "shared"]
      <3>1. request[q] \in Opening /\ Confirming(q)
        BY <2>6, StepCases DEF ShareAccount
      <3>2. /\ request'[q].step = "shared" /\ request'[q].token = request[q].token
            /\ request'[q].kind = request[q].kind
        BY <2>6, <3>1 DEF Opening
      <3> QED BY <2>1, <2>6, <3>1, <3>2
              DEF HoldsAccount, SharesAccount, Step, Owner, Confirming
    <2> QED BY <1>4, <2>2, <2>3, <2>4, <2>5, <2>6, MoveEffect
  <1> QED BY <1>1, <1>2, <1>3, <1>4, RequestAfter

\* Only ConsumeToken and SupersedeTokens add to the links that are held.
LEMMA TokenHeldAfter ==
    ASSUME Types, [Next]_vars, NEW q \in Requests, NEW t
    PROVE  HoldsToken(q, t)' =>
               \/ HoldsToken(q, t)
               \/ ConsumeToken(q) /\ t = request[q].token
               \/ SupersedeTokens(q) /\ t \in TokensToMark(q)
  <1> SUFFICES ASSUME HoldsToken(q, t)'
               PROVE  \/ HoldsToken(q, t)
                      \/ ConsumeToken(q) /\ t = request[q].token
                      \/ SupersedeTokens(q) /\ t \in TokensToMark(q)
    OBVIOUS
  <1>0. request'[q] # Idle
    BY DEF HoldsToken, Confirming, Idle
  <1>1. CASE request'[q] = request[q]
    BY <1>1 DEF HoldsToken, Confirming
  <1>2. CASE Step(q, "read") /\ request'[q] = [request[q] EXCEPT !.stale = TRUE]
    <2>1. request[q] \in Asking /\ ~Confirming(q) /\ request[q] # Idle
      BY <1>2, StepCases DEF Step
    <2>2. request'[q].kind = request[q].kind /\ request'[q].marks = request[q].marks
      BY <1>2, <2>1 DEF Asking
    <2> QED BY <2>1, <2>2 DEF HoldsToken, Confirming
  <1>3. CASE Moves(q)
    <2>1. CASE Step(q, "read")'
      <3>1. RequestOK(q)' /\ request'[q].step = "read"
        BY <1>3, <2>1, MoveEffect DEF Step
      <3>2. request'[q] \in Asking
        BY <1>0, <3>1 DEF RequestOK, Opening
      <3>3. request'[q].marks = {} /\ request'[q].kind # "confirm"
        BY <3>1, <3>2 DEF RequestOK, Asking, Kinds
      <3> QED BY <3>3 DEF HoldsToken, Confirming
    <2>2. CASE Step(q, "begun")'
      <3>1. RequestOK(q)' /\ request'[q].step = "begun"
        BY <1>3, <2>2, MoveEffect DEF Step
      <3>2. request'[q] \in Opening
        BY <1>0, <3>1 DEF RequestOK, Asking
      <3>3. request'[q].kind = "confirm"
        BY <3>2 DEF Opening
      <3> QED BY <3>1, <3>3 DEF HoldsToken, Confirming
    <2>3. CASE LockAccount(q) /\ request'[q] = [request[q] EXCEPT !.step = "locked"]
      <3>1. request[q] \in Asking /\ ~Confirming(q) /\ request[q] # Idle
        BY <2>3, StepCases DEF LockAccount, Step
      <3>2. request'[q].kind = request[q].kind /\ request'[q].marks = request[q].marks
        BY <2>3, <3>1 DEF Asking
      <3> QED BY <3>1, <3>2 DEF HoldsToken, Confirming
    <2>4. CASE /\ SupersedeTokens(q)
               /\ request'[q] = [request[q] EXCEPT !.step = "superseded",
                                                   !.marks = TokensToMark(q)]
      <3>1. request[q] \in Asking /\ ~Confirming(q)
        BY <2>4, StepCases DEF SupersedeTokens
      <3>2. request'[q].kind = request[q].kind /\ request'[q].marks = TokensToMark(q)
        BY <2>4, <3>1 DEF Asking
      <3> QED BY <2>4, <3>1, <3>2 DEF HoldsToken, Confirming
    <2>5. CASE \/ ConsumeToken(q) /\ request'[q] = [request[q] EXCEPT !.step = "marked"]
               \/ ShareAccount(q) /\ request'[q] = [request[q] EXCEPT !.step = "shared"]
      <3>1. request[q] \in Opening /\ Confirming(q)
        BY <2>5, StepCases DEF ConsumeToken, ShareAccount
      <3>2. request'[q].kind = request[q].kind /\ request'[q].token = request[q].token
        BY <2>5, <3>1 DEF Opening
      <3>3. t = request[q].token
        BY <3>1, <3>2 DEF HoldsToken, Confirming
      <3> QED BY <2>5, <3>1, <3>3 DEF HoldsToken, Step, ShareAccount
    <2> QED BY <1>3, <2>1, <2>2, <2>3, <2>4, <2>5, MoveEffect
  <1> QED BY <1>0, <1>1, <1>2, <1>3, RequestAfter

LEMMA AccountLocksStep ==
    ASSUME Types, AccountLocks, [Next]_vars
    PROVE  AccountLocks'
  <1> SUFFICES ASSUME NEW q \in Requests, NEW r \in Requests, NEW u \in Users, q # r,
                      HoldsAccount(q, u)', HoldsAccount(r, u)' \/ SharesAccount(r, u)'
               PROVE  FALSE
    BY DEF AccountLocks
  <1>1. CASE LockAccount(q) /\ Owner(q) = u
    <2>1. Moves(q) /\ Step(q, "read") /\ Granted(q)
      BY <1>1 DEF Moves, LockAccount
    <2> QED BY <1>1, <2>1, OthersHold, GrantedFacts
  <1>2. CASE HoldsAccount(q, u)
    <2>1. CASE LockAccount(r) /\ Owner(r) = u
      BY <1>2, <2>1, GrantedFacts DEF LockAccount
    <2>2. CASE ShareAccount(r) /\ Owner(r) = u
      BY <1>2, <2>2, GrantedFacts DEF ShareAccount
    <2> QED BY <1>2, <2>1, <2>2, AccountHeldAfter DEF AccountLocks
  <1> QED BY <1>1, <1>2, AccountHeldAfter

LEMMA TokenLocksStep ==
    ASSUME Types, TokenLocks, [Next]_vars
    PROVE  TokenLocks'
  <1> SUFFICES ASSUME NEW q \in Requests, NEW r \in Requests, NEW t \in 1..MaxTokens, q # r,
                      HoldsToken(q, t)', HoldsToken(r, t)'
               PROVE  FALSE
    BY DEF TokenLocks
  <1>1. ASSUME NEW a \in Requests, NEW b \in Requests, a # b, HoldsToken(b, t)',
               \/ ConsumeToken(a) /\ t = request[a].token
               \/ SupersedeTokens(a) /\ t \in TokensToMark(a)
        PROVE  FALSE
    <2>1. Moves(a)
      BY <1>1 DEF Moves
    <2>2. HoldsToken(b, t)
      BY <1>1, <2>1, OthersHold
    <2> QED BY <1>1, <2>2, GrantedFacts DEF ConsumeToken, SupersedeTokens
  <1> QED BY <1>1, TokenHeldAfter DEF TokenLocks

-----------------------------------------------------------------------------
(* Links.                                                                  *)

\* A step that a request takes back or completes leaves it idle.
LEMMA Completes ==
    ASSUME Types, NEW q \in Requests, IssueToken(q) \/ Confirm(q) \/ Withdraw(q)
    PROVE  request'[q] = Idle
  <1>1. ASSUME NEW u, request' = [Overtaken(u) EXCEPT ![q] = Idle]
        PROVE  request'[q] = Idle
    BY <1>1 DEF Overtaken
  <1>2. ASSUME request' = [request EXCEPT ![q] = Idle]
        PROVE  request'[q] = Idle
    BY <1>2 DEF Types, TypeOK
  <1>3. \/ request' = [request EXCEPT ![q] = Idle]
        \/ \E u : request' = [Overtaken(u) EXCEPT ![q] = Idle]
    BY DEF IssueToken, Confirm, Withdraw, NewPassword, Ends
  <1> QED BY <1>1, <1>2, <1>3

\* Which step a request that moves on is at.
LEMMA MovedTo ==
    ASSUME Types, NEW q \in Requests, Moves(q)
    PROVE  /\ Step(q, "superseded")' =>
                  /\ SupersedeTokens(q) /\ request[q] \in Asking /\ request[q].kind = "issue"
                  /\ request'[q].user = request[q].user
                  /\ request'[q].purpose = request[q].purpose
                  /\ request'[q].marks = TokensToMark(q)
           /\ Step(q, "marked")' =>
                  ConsumeToken(q) /\ request'[q].token = request[q].token
           /\ Step(q, "shared")' =>
                  /\ ShareAccount(q) /\ request'[q].token = request[q].token
                  /\ Owner(q)' = Owner(q)
           /\ Step(q, "read")' =>
                  /\ Live(request'[q].user)
                  /\ request'[q].password = account[request'[q].user].password
  <1>1. CASE \/ /\ request[q] = Idle /\ Step(q, "read")'
                /\ Live(request'[q].user)
                /\ request'[q].password = account[request'[q].user].password
             \/ Step(q, "begun")'
    BY <1>1 DEF Step
  <1>2. CASE LockAccount(q) /\ request'[q] = [request[q] EXCEPT !.step = "locked"]
    <2>1. request'[q].step = "locked"
      BY <1>2, StepCases DEF LockAccount, Asking
    <2> QED BY <2>1 DEF Step
  <1>3. CASE /\ SupersedeTokens(q)
             /\ request'[q] = [request[q] EXCEPT !.step = "superseded",
                                                 !.marks = TokensToMark(q)]
    <2>1. request[q] \in Asking /\ request[q].kind = "issue"
      BY <1>3, StepCases DEF SupersedeTokens
    <2>2. /\ request'[q].step = "superseded" /\ request'[q].user = request[q].user
          /\ request'[q].purpose = request[q].purpose
          /\ request'[q].marks = TokensToMark(q)
      BY <1>3, <2>1 DEF Asking
    <2> QED BY <1>3, <2>1, <2>2 DEF Step
  <1>4. CASE ConsumeToken(q) /\ request'[q] = [request[q] EXCEPT !.step = "marked"]
    <2>1. request[q] \in Opening
      BY <1>4, StepCases DEF ConsumeToken
    <2>2. request'[q].step = "marked" /\ request'[q].token = request[q].token
      BY <1>4, <2>1 DEF Opening
    <2> QED BY <1>4, <2>2 DEF Step
  <1>5. CASE ShareAccount(q) /\ request'[q] = [request[q] EXCEPT !.step = "shared"]
    <2>1. request[q] \in Opening /\ Confirming(q) /\ tokens' = tokens
      BY <1>5, StepCases DEF ShareAccount
    <2>2. /\ request'[q].step = "shared" /\ request'[q].token = request[q].token
          /\ request'[q].kind = request[q].kind
      BY <1>5, <2>1 DEF Opening
    <2> QED BY <1>5, <2>1, <2>2 DEF Step, Owner, Confirming
  <1> QED BY <1>1, <1>2, <1>3, <1>4, <1>5, MoveEffect

\* A request that is further than reading is what it was, or has moved on.
LEMMA StepAfter ==
    ASSUME Types, [Next]_vars, NEW q \in Requests, NEW step \in {"superseded", "marked", "shared"},
           Step(q, step)'
    PROVE  \/ request'[q] = request[q] /\ request[q] # Idle /\ Step(q, step)
           \/ Moves(q)
  <1>1. ASSUME Step(q, "read"), request'[q] = [request[q] EXCEPT !.stale = TRUE]
        PROVE  request'[q].step = "read"
    BY <1>1, StepCases DEF Step, Asking
  <1> QED BY <1>1, RequestAfter DEF Step

LEMMA SupersedesAllStep ==
    ASSUME Types, AccountLocks, SupersedesAll, [Next]_vars
    PROVE  SupersedesAll'
  <1> SUFFICES ASSUME NEW q \in Requests, NEW t \in DOMAIN tokens', Step(q, "superseded")',
                      tokens'[t].user = request'[q].user,
                      tokens'[t].purpose = request'[q].purpose
               PROVE  tokens'[t].state = "used" \/ t \in request'[q].marks
    BY DEF SupersedesAll
  <1>1. CASE request'[q] = request[q] /\ request[q] # Idle /\ Step(q, "superseded")
    <2>1. CASE t \in DOMAIN tokens
      BY <1>1, <2>1, TokensAfter DEF SupersedesAll, Follow
    <2>2. CASE t \notin DOMAIN tokens
      <3>1. request[q] \in Asking /\ ~Confirming(q) /\ account[request[q].user] # NULL
            /\ request[q].user \in Users
        BY <1>1, StepCases DEF Types, RequestOK
      <3>2. StoredByIssuer(t)
        BY <2>2, TokensAfter
      <3>3. PICK r \in Requests : IssueToken(r) /\ tokens'[t].user = request[r].user
        BY <1>1, <3>1, <3>2 DEF StoredByIssuer
      <3>4. HoldsAccount(q, request[q].user) /\ HoldsAccount(r, request[q].user)
        BY <1>1, <3>1, <3>3, IssueEffect DEF HoldsAccount, Owner
      <3>5. q = r
        BY <3>1, <3>4 DEF AccountLocks
      <3>6. request'[q] = Idle
        BY <3>3, <3>5, Completes
      <3> QED BY <1>1, <3>6
    <2> QED BY <2>1, <2>2
  <1>2. CASE Moves(q)
    <2>1. /\ request[q] \in Asking /\ request[q].kind = "issue"
          /\ request'[q].user = request[q].user /\ request'[q].purpose = request[q].purpose
          /\ request'[q].marks = TokensToMark(q) /\ tokens' = tokens
      BY <1>2, MovedTo, MoveEffect
    <2> QED BY <2>1 DEF TokensToMark
  <1> QED BY <1>1, <1>2, StepAfter

\* An account lives on unless a request that holds its row withdraws it.
LEMMA LiveAfter ==
    ASSUME Types, [Next]_vars, NEW u \in Users, Live(u)
    PROVE  Live(u)' \/ \E r \in Requests : Withdraw(r) /\ HoldsAccount(r, u)
  <1> DEFINE Goal == Live(u)' \/ \E r \in Requests : Withdraw(r) /\ HoldsAccount(r, u)
  <1>0. account'[u] # NULL
    BY AccountAfter DEF Live
  <1>1. ASSUME account'[u] = account[u] \/ account'[u].is_deleted = account[u].is_deleted
        PROVE  Goal
    BY <1>0, <1>1 DEF Live
  <1> HIDE DEF Goal
  <1>2. ASSUME NEW w \in Users, SignUp(w)
        PROVE  Goal
    BY <1>1, <1>2, SignUpEffect DEF Live
  <1>3. ASSUME NEW q \in Requests, NEW w \in Users, account[w] # NULL, NewPassword(q, w)
        PROVE  Goal
    BY <1>1, <1>3, NewPasswordEffect
  <1>4. ASSUME NEW q \in Requests,
               \/ Moves(q) \/ Stops(q) \/ IssueToken(q)
               \/ ChangePassword(q) \/ Withdraw(q) \/ Confirm(q)
        PROVE  Goal
    <2>1. CASE Moves(q)
      BY <1>1, <2>1, MoveEffect
    <2>2. CASE Stops(q)
      BY <1>1, <2>2 DEF Stops
    <2>3. CASE IssueToken(q)
      BY <1>1, <2>3, IssueEffect
    <2>4. CASE ChangePassword(q)
      BY <1>3, <2>4, ChangeEffect
    <2>5. CASE Withdraw(q)
      <3>1. PICK w : w = request[q].user
        OBVIOUS
      <3>2. w \in Users /\ HoldsAccount(q, w) /\ \A v \in Users \ {w} : account'[v] = account[v]
        BY <2>5, <3>1, WithdrawEffect
      <3>3. CASE u = w
        BY <2>5, <3>2, <3>3 DEF Goal
      <3>4. CASE u # w
        BY <1>1, <3>2, <3>4
      <3> QED BY <3>3, <3>4
    <2>6. CASE Confirm(q)
      BY <1>1, <1>3, <2>6, ConfirmEffect
    <2> QED BY <1>4, <2>1, <2>2, <2>3, <2>4, <2>5, <2>6
  <1>5. ASSUME \/ \E s \in DOMAIN sessions : LogOut(s)
               \/ \E t \in DOMAIN tokens : Expire(t)
               \/ UNCHANGED vars
        PROVE  account' = account
    BY <1>5 DEF LogOut, Expire, vars
  <1>6. Goal
    BY <1>1, <1>2, <1>4, <1>5, StepKinds DEF StepKind
  <1> QED BY <1>6 DEF Goal

LEMMA LinkHeldStep ==
    ASSUME Types, AccountLocks, TokenLocks, LinkHeld, [Next]_vars
    PROVE  LinkHeld'
  <1>1. ASSUME NEW q \in Requests, Step(q, "marked")' \/ Step(q, "shared")'
        PROVE  tokens'[request'[q].token].state # "used"
    <2>1. CASE /\ request'[q] = request[q] /\ request[q] # Idle
               /\ Step(q, "marked") \/ Step(q, "shared")
      <3>1. PICK t : t = request[q].token
        OBVIOUS
      <3>2. Confirming(q) /\ t \in DOMAIN tokens /\ t \in 1..MaxTokens
        BY <2>1, <3>1, StepCases DEF Opening
      <3>3. HoldsToken(q, t)
        BY <2>1, <3>1, <3>2 DEF HoldsToken, Step
      <3>4. tokens[t].state # "used"
        BY <2>1, <3>1 DEF LinkHeld
      <3>5. ~MarkedByHolder(t)
        <4>1. SUFFICES ASSUME NEW r \in Requests,
                              \/ IssueToken(r) /\ HoldsToken(r, t)
                              \/ Confirm(r) /\ HoldsToken(r, t)
                              \/ Withdraw(r) /\ t \in TokensToMark(r)
                       PROVE  FALSE
          BY DEF MarkedByHolder
        <4>2. r # q
          BY <2>1, <4>1, Completes
        <4> QED BY <3>2, <3>3, <4>1, <4>2, GrantedFacts DEF TokenLocks, Withdraw
      <3> QED BY <2>1, <3>1, <3>2, <3>4, <3>5, TokensAfter
    <2>2. CASE Moves(q)
      <3>1. tokens' = tokens
        BY <2>2, MoveEffect
      <3>2. CASE Step(q, "marked")'
        BY <2>2, <3>1, <3>2, MovedTo DEF ConsumeToken
      <3>3. CASE Step(q, "shared")'
        BY <2>2, <3>1, <3>3, MovedTo DEF ShareAccount, LinkHeld
      <3> QED BY <1>1, <3>2, <3>3
    <2> QED BY <1>1, <2>1, <2>2, StepAfter
  <1>2. ASSUME NEW q \in Requests, Step(q, "shared")'
        PROVE  Live(Owner(q))'
    <2>1. CASE request'[q] = request[q] /\ request[q] # Idle /\ Step(q, "shared")
      <3>1. PICK u : u = Owner(q)
        OBVIOUS
      <3>2. u \in Users /\ Live(u) /\ SharesAccount(q, u) /\ Owner(q)' = u
        BY <2>1, <3>1, OwnerThere, OwnerAfter DEF LinkHeld, SharesAccount
      <3>3. ~ \E r \in Requests : Withdraw(r) /\ HoldsAccount(r, u)
        <4>1. SUFFICES ASSUME NEW r \in Requests, Withdraw(r), HoldsAccount(r, u)
                       PROVE  FALSE
          OBVIOUS
        <4>2. r # q
          BY <2>1, <4>1, Completes
        <4> QED BY <3>2, <4>1, <4>2 DEF AccountLocks
      <3>4. Live(u)'
        BY <3>2, <3>3, LiveAfter
      <3> QED BY <3>2, <3>4 DEF Live
    <2>2. CASE Moves(q)
      BY <1>2, <2>2, MovedTo, MoveEffect DEF ShareAccount, LinkIsGood, Live
    <2> QED BY <1>2, <2>1, <2>2, StepAfter
  <1> QED BY <1>1, <1>2 DEF LinkHeld

LEMMA OnlyNewestLinkStep ==
    ASSUME Types, SupersedesAll, OnlyNewestLink, [Next]_vars
    PROVE  OnlyNewestLink'
  <1> SUFFICES ASSUME NEW t \in DOMAIN tokens', NEW w \in DOMAIN tokens', t < w,
                      tokens'[t].user = tokens'[w].user,
                      tokens'[t].purpose = tokens'[w].purpose
               PROVE  tokens'[t].state = "used"
    BY DEF OnlyNewestLink, SameKind
  <1>1. /\ Follow(tokens') /\ tokens \in Seq(TokenRow) /\ Len(tokens) \in Nat
        /\ DOMAIN tokens = 1..Len(tokens)
        /\ \A k \in DOMAIN tokens' \ DOMAIN tokens : k = Len(tokens) + 1 /\ StoredByIssuer(k)
    BY TokensAfter DEF Types, TypeOK
  <1>2. t \in Nat /\ w \in Nat /\ t >= 1
    BY <1>1 DEF Follow
  <1>3. t \in DOMAIN tokens
    BY <1>1, <1>2
  <1>4. CASE w \in DOMAIN tokens
    BY <1>1, <1>3, <1>4 DEF OnlyNewestLink, SameKind, Follow
  <1>5. CASE w \notin DOMAIN tokens
    <2>1. tokens[t] \in TokenRow /\ account[tokens[t].user] # NULL
      BY <1>1, <1>3 DEF Types, TypeOK
    <2>2. tokens'[t].user = tokens[t].user /\ tokens'[t].purpose = tokens[t].purpose
      BY <1>1, <1>3 DEF Follow
    <2>3. PICK q \in Requests : /\ IssueToken(q)
                                /\ tokens'[w].user = request[q].user
                                /\ tokens'[w].purpose = request[q].purpose
      BY <1>1, <1>5, <2>1, <2>2 DEF StoredByIssuer
    <2>4. tokens[t].state = "used" \/ t \in request[q].marks
      BY <1>3, <2>2, <2>3, IssueEffect DEF SupersedesAll
    <2>5. tokens'[t] = Marked(request[q].marks)[t]
      <3> DEFINE u == request[q].user
                 purpose == request[q].purpose
                 marked == request[q].marks
      <3>1. /\ u \in Users /\ purpose \in Purposes /\ Len(tokens) < MaxTokens
            /\ tokens' = Append(Marked(marked), NewToken(u, purpose))
        BY <2>3, IssueEffect
      <3> HIDE DEF u, purpose, marked
      <3>2. tokens'[t] = Marked(marked)[t]
        BY <1>1, <1>3, <3>1, AppendFollow
      <3> QED BY <3>2 DEF marked
    <2> QED BY <1>1, <1>3, <2>4, <2>5, MarkedRows
  <1> QED BY <1>4, <1>5

-----------------------------------------------------------------------------
(* Passwords.                                                              *)

\* What a step changes of an account: its password or its withdrawal, when
\* it revokes every session and overtakes every request that has read it.
LEMMA AccountChange ==
    ASSUME Types, [Next]_vars, NEW u \in Users, account[u] # NULL
    PROVE  \/ /\ account'[u].password = account[u].password
              /\ account'[u].is_deleted = account[u].is_deleted
           \/ /\ sessions' = Revoked(u)
              /\ \E r \in Requests : request' = [Overtaken(u) EXCEPT ![r] = Idle]
  <1> DEFINE Goal == \/ /\ account'[u].password = account[u].password
                        /\ account'[u].is_deleted = account[u].is_deleted
                     \/ /\ sessions' = Revoked(u)
                        /\ \E r \in Requests : request' = [Overtaken(u) EXCEPT ![r] = Idle]
  <1>1. ASSUME account'[u] = account[u]
        PROVE  Goal
    BY <1>1
  <1>2. ASSUME NEW q \in Requests, sessions' = Revoked(u),
               request' = [Overtaken(u) EXCEPT ![q] = Idle]
        PROVE  Goal
    BY <1>2
  <1>3. ASSUME account'[u].password = account[u].password,
               account'[u].is_deleted = account[u].is_deleted
        PROVE  Goal
    BY <1>3
  <1> HIDE DEF Goal
  <1>4. ASSUME NEW q \in Requests, NEW w \in Users, account[w] # NULL, NewPassword(q, w)
        PROVE  Goal
    <2>1. CASE w = u
      BY <1>2, <1>4, <2>1, NewPasswordEffect
    <2>2. CASE w # u
      BY <1>1, <1>4, <2>2, NewPasswordEffect
    <2> QED BY <2>1, <2>2
  <1>5. ASSUME NEW w \in Users, SignUp(w)
        PROVE  Goal
    BY <1>1, <1>5, SignUpEffect
  <1>6. ASSUME NEW q \in Requests,
               \/ Moves(q) \/ Stops(q) \/ IssueToken(q)
               \/ ChangePassword(q) \/ Withdraw(q) \/ Confirm(q)
        PROVE  Goal
    <2>1. CASE Moves(q)
      BY <1>1, <2>1, MoveEffect
    <2>2. CASE Stops(q)
      BY <1>1, <2>2 DEF Stops
    <2>3. CASE IssueToken(q)
      BY <1>1, <2>3, IssueEffect
    <2>4. CASE ChangePassword(q)
      BY <1>4, <2>4, ChangeEffect
    <2>5. CASE Withdraw(q)
      <3>1. PICK w : w = request[q].user
        OBVIOUS
      <3>2. /\ \A v \in Users \ {w} : account'[v] = account[v]
            /\ sessions' = Revoked(w) /\ request' = [Overtaken(w) EXCEPT ![q] = Idle]
        BY <2>5, <3>1, WithdrawEffect
      <3>3. CASE u = w
        BY <1>2, <3>2, <3>3
      <3>4. CASE u # w
        BY <1>1, <3>2, <3>4
      <3> QED BY <3>3, <3>4
    <2>6. CASE Confirm(q)
      <3>1. PICK w : w = Owner(q)
        OBVIOUS
      <3>2. /\ w \in Users /\ account[w] # NULL
            /\ \/ NewPassword(q, w)
               \/ /\ account'[w].is_deleted = account[w].is_deleted
                  /\ account'[w].password = account[w].password
                  /\ \A v \in Users \ {w} : account'[v] = account[v]
        BY <2>6, <3>1, ConfirmEffect
      <3>3. CASE NewPassword(q, w)
        BY <1>4, <3>2, <3>3
      <3>4. CASE ~NewPassword(q, w) /\ u = w
        BY <1>3, <3>2, <3>4
      <3>5. CASE ~NewPassword(q, w) /\ u # w
        BY <1>1, <3>2, <3>5
      <3> QED BY <3>3, <3>4, <3>5
    <2> QED BY <1>6, <2>1, <2>2, <2>3, <2>4, <2>5, <2>6
  <1>7. ASSUME \/ \E s \in DOMAIN sessions : LogOut(s)
               \/ \E t \in DOMAIN tokens : Expire(t)
               \/ UNCHANGED vars
        PROVE  account' = account
    BY <1>7 DEF LogOut, Expire, vars
  <1>8. Goal
    BY <1>1, <1>5, <1>6, <1>7, StepKinds DEF StepKind
  <1> QED BY <1>8 DEF Goal

LEMMA ReadCurrentStep ==
    ASSUME Types, ReadCurrent, [Next]_vars
    PROVE  ReadCurrent'
  <1> SUFFICES ASSUME NEW q \in Requests, Step(q, "read")'
               PROVE  \/ request'[q].stale
                      \/ /\ Live(request[q].user)'
                         /\ request'[q].password = account'[request'[q].user].password
    BY DEF ReadCurrent
  <1>1. CASE Moves(q)
    BY <1>1, MovedTo, MoveEffect DEF Live
  <1>2. CASE Step(q, "read") /\ request'[q] = [request[q] EXCEPT !.stale = TRUE]
    BY <1>2, StepCases DEF Asking
  <1>3. CASE request'[q] = request[q]
    <2>1. Step(q, "read") /\ request[q] \in Asking
      BY <1>3, StepCases DEF Step
    <2>2. PICK u : u = request[q].user
      OBVIOUS
    <2>3. u \in Users /\ account[u] # NULL /\ account'[u] # NULL
      BY <2>1, <2>2, AccountAfter DEF Types, RequestOK, Asking
    <2>4. CASE /\ account'[u].password = account[u].password
               /\ account'[u].is_deleted = account[u].is_deleted
      BY <1>3, <2>1, <2>2, <2>3, <2>4 DEF ReadCurrent, Live
    <2>5. CASE \E r \in Requests : request' = [Overtaken(u) EXCEPT ![r] = Idle]
      <3>1. request'[q] = [request[q] EXCEPT !.stale = TRUE]
        BY <1>3, <2>1, <2>2, <2>5 DEF Overtaken, Step
      <3> QED BY <2>1, <3>1 DEF Asking
    <2> QED BY <2>3, <2>4, <2>5, AccountChange
  <1>4. CASE request'[q] = Idle
    BY <1>4 DEF Step
  <1> QED BY <1>1, <1>2, <1>3, <1>4, RequestAfter

LEMMA SessionsFollowPasswordStep ==
    ASSUME Types, ReadCurrent, SessionsFollowPassword, [Next]_vars
    PROVE  SessionsFollowPassword'
  <1> SUFFICES ASSUME NEW s \in DOMAIN sessions', ~sessions'[s].revoked,
                      Live(sessions[s].user)'
               PROVE  \/ sessions'[s].password = account'[sessions'[s].user].password
                      \/ sessions'[s].stale
    BY DEF SessionsFollowPassword, Resolves, Live
  <1>1. CASE s \in DOMAIN sessions
    <2>1. sessions[s] \in SessionRow
      BY <1>1 DEF Types, TypeOK
    <2>2. PICK u : u = sessions[s].user
      OBVIOUS
    <2>3. u \in Users /\ account[u] # NULL
      BY <1>1, <2>1, <2>2 DEF Types, TypeOK, SessionRow
    <2>4. /\ sessions'[s].user = u /\ sessions'[s].password = sessions[s].password
          /\ sessions'[s].stale = sessions[s].stale /\ ~sessions[s].revoked
      BY <1>1, <2>2, SessionsAfter DEF SessionsFollow
    <2>5. Live(u)
      BY <2>3, <2>4, AccountAfter DEF Live
    <2>6. sessions' # Revoked(u)
      BY <1>1, <2>2, RevokedRows DEF Types, TypeOK
    <2>7. account'[u].password = account[u].password
      BY <2>3, <2>6, AccountChange
    <2> QED BY <1>1, <2>2, <2>4, <2>5, <2>7 DEF SessionsFollowPassword, Resolves
  <1>2. CASE s \notin DOMAIN sessions
    <2>1. Opened(s)
      BY <1>2, SessionsAfter
    <2>2. CASE \E u \in Users : SignUp(u) /\ sessions'[s] = NewSession(u, 0, FALSE)
      BY <2>2, SignUpEffect DEF NewSession
    <2>3. CASE \E q \in Requests :
                  /\ LogIn(q) /\ account' = account
                  /\ sessions'[s] = NewSession(request[q].user, request[q].password,
                                               request[q].stale)
      <3>1. PICK q \in Requests :
                  /\ LogIn(q) /\ account' = account
                  /\ sessions'[s] = NewSession(request[q].user, request[q].password,
                                               request[q].stale)
        BY <2>3
      <3>2. /\ sessions'[s].user = request[q].user
            /\ sessions'[s].password = request[q].password
            /\ sessions'[s].stale = request[q].stale
        BY <3>1 DEF NewSession
      <3>3. request[q].stale \/ request[q].password = account[request[q].user].password
        BY <3>1, LogInEffect DEF ReadCurrent
      <3> QED BY <3>1, <3>2, <3>3
    <2> QED BY <2>1, <2>2, <2>3 DEF Opened
  <1> QED BY <1>1, <1>2

-----------------------------------------------------------------------------
(* The properties.                                                         *)

LEMMA Inductive == Spec => []Inv
  <1>1. Init => Inv
    <2>1. Init => Types
      BY BoundsAssumption DEF Init, Types, TypeOK, RequestOK, Idle, Asking, Opening, Kinds,
                              Request
    <2>2. Init => /\ AccountLocks /\ TokenLocks /\ SupersedesAll /\ LinkHeld /\ ReadCurrent
                  /\ OnlyNewestLink /\ SessionsFollowPassword
      BY DEF Init, AccountLocks, TokenLocks, SupersedesAll, LinkHeld, ReadCurrent,
             OnlyNewestLink, SessionsFollowPassword, HoldsAccount, HoldsToken, Step,
             Confirming, Idle
    <2> QED BY <2>1, <2>2 DEF Inv
  <1>2. Inv /\ [Next]_vars => Inv'
    BY TypesStep, AccountLocksStep, TokenLocksStep, SupersedesAllStep, LinkHeldStep,
       ReadCurrentStep, OnlyNewestLinkStep, SessionsFollowPasswordStep DEF Inv
  <1> QED BY <1>1, <1>2, PTL DEF Spec

\* Of the links of one kind that an account was sent only the newest can be
\* unused: the request that issues one holds the account's row from before it
\* looked for the earlier ones until it stores its own.
THEOREM OnlyNewestLinkHolds == Spec => []OnlyNewestLink
  <1>1. Inv => OnlyNewestLink
    BY DEF Inv
  <1> QED BY <1>1, Inductive, PTL

\* A session that is still good was opened with the present password, unless
\* the password changed while its login was under way.
THEOREM SessionsFollowPasswordHolds == Spec => []SessionsFollowPassword
  <1>1. Inv => SessionsFollowPassword
    BY DEF Inv
  <1> QED BY <1>1, Inductive, PTL

\* An account's row, and a link's, has one holder at a time, and an account
\* is never shared while it is held.
THEOREM RowLocksHold == Spec => [](AccountLocks /\ TokenLocks)
  <1>1. Inv => AccountLocks /\ TokenLocks
    BY DEF Inv
  <1> QED BY <1>1, Inductive, PTL

\* A request that shares an account's row and ends with the account changed
\* has confirmed its link.
LEMMA ShareEnds ==
    ASSUME Types, [Next]_vars, NEW q \in Requests, Step(q, "shared"), request'[q] = Idle,
           account' # account
    PROVE  Confirm(q)
  <1>0. request[q] # Idle /\ ~Step(q, "read") /\ ~Step(q, "locked")
    BY DEF Step
  <1>1. ASSUME NEW r \in Requests, r # q, NEW u, request' = [Overtaken(u) EXCEPT ![r] = Idle]
        PROVE  FALSE
    BY <1>0, <1>1 DEF Overtaken
  <1>2. ASSUME NEW r \in Requests, r # q, request' = [request EXCEPT ![r] = Idle]
        PROVE  FALSE
    BY <1>0, <1>2 DEF Types, TypeOK
  <1>3. ASSUME request' = request
        PROVE  FALSE
    BY <1>0, <1>3
  <1>4. ASSUME NEW r \in Requests,
               \/ Moves(r) \/ Stops(r) \/ IssueToken(r)
               \/ ChangePassword(r) \/ Withdraw(r) \/ Confirm(r)
        PROVE  Confirm(q)
    <2>1. CASE Moves(r)
      BY <2>1, MoveEffect
    <2>2. CASE Stops(r)
      BY <2>2 DEF Stops
    <2>3. CASE IssueToken(r)
      BY <2>3, IssueEffect
    <2>4. CASE ChangePassword(r)
      <3>1. r # q
        BY <1>0, <2>4, ChangeEffect
      <3>2. request' = [Overtaken(request[r].user) EXCEPT ![r] = Idle]
        BY <2>4 DEF ChangePassword, NewPassword
      <3> QED BY <1>1, <3>1, <3>2
    <2>5. CASE Withdraw(r)
      <3>1. r # q
        BY <1>0, <2>5 DEF Withdraw
      <3>2. request' = [Overtaken(request[r].user) EXCEPT ![r] = Idle]
        BY <2>5 DEF Withdraw
      <3> QED BY <1>1, <3>1, <3>2
    <2>6. CASE Confirm(r)
      <3>1. \/ request' = [Overtaken(Owner(r)) EXCEPT ![r] = Idle]
            \/ request' = [request EXCEPT ![r] = Idle]
        BY <2>6 DEF Confirm, NewPassword, Ends
      <3>2. r = q
        BY <1>1, <1>2, <3>1
      <3> QED BY <2>6, <3>2
    <2> QED BY <1>4, <2>1, <2>2, <2>3, <2>4, <2>5, <2>6
  <1>5. ASSUME \/ \E u \in Users : SignUp(u)
               \/ \E s \in DOMAIN sessions : LogOut(s)
               \/ \E t \in DOMAIN tokens : Expire(t)
               \/ UNCHANGED vars
        PROVE  FALSE
    <2>1. request' = request
      BY <1>5 DEF SignUp, LogOut, Expire, vars
    <2> QED BY <1>3, <2>1
  <1> QED BY <1>4, <1>5, StepKinds DEF StepKind

\* A link has its effect at most once, also when it is opened twice at the
\* same time: the request that writes what the link is for holds its row.
THEOREM LinkWorksOnceHolds == Spec => LinkWorksOnce
  <1>1. ASSUME Inv, [Next]_vars, NEW q \in Requests, Step(q, "shared"), account' # account,
               request'[q] = Idle
        PROVE  /\ tokens[request[q].token].state # "used"
               /\ tokens'[request[q].token].state = "used"
    <2>1. Confirm(q)
      BY <1>1, ShareEnds DEF Inv
    <2>2. request[q].token \in DOMAIN tokens /\ tokens' = Marked({request[q].token})
      BY <1>1, <2>1, ConfirmEffect DEF Inv
    <2>3. tokens \in Seq(TokenRow)
      BY <1>1 DEF Inv, Types, TypeOK
    <2>4. tokens'[request[q].token].state = "used"
      BY <2>2, <2>3, MarkedRows
    <2> QED BY <1>1, <2>4 DEF Inv, LinkHeld
  <1>2. Inv /\ [Next]_vars =>
            \A q \in Requests :
                Step(q, "shared") /\ account' # account /\ request'[q] = Idle =>
                    /\ tokens[request[q].token].state # "used"
                    /\ tokens'[request[q].token].state = "used"
    BY <1>1
  <1> QED BY <1>2, Inductive, PTL DEF Spec, LinkWorksOnce

\* Nothing is written into a withdrawn account except by a change of password
\* that had read it before: a link finds it withdrawn, since the withdrawal
\* and the confirmation of a link do not hold and share its row together.
THEOREM WithdrawnUntouchedHolds == Spec => WithdrawnUntouched
  <1>1. ASSUME Inv, [Next]_vars, NEW u \in Users, account[u] # NULL, account[u].is_deleted,
               account'[u] # account[u]
        PROVE  \E q \in Requests :
                   /\ request[q].kind = "change" /\ request[q].user = u
                   /\ request[q].stale /\ request'[q] = Idle
    <2> DEFINE Goal == \E q \in Requests :
                           /\ request[q].kind = "change" /\ request[q].user = u
                           /\ request[q].stale /\ request'[q] = Idle
    <2>0. Types /\ LinkHeld /\ ReadCurrent /\ account[u] \in AccountRow
      BY <1>1 DEF Inv, Types, TypeOK
    <2>1. ASSUME NEW q \in Requests, ChangePassword(q)
          PROVE  Goal
      <3>1. PICK w : w = request[q].user
        OBVIOUS
      <3>2. /\ w \in Users /\ account[w] # NULL /\ Step(q, "read") /\ NewPassword(q, w)
        BY <2>0, <2>1, <3>1, ChangeEffect
      <3>3. /\ \A v \in Users \ {w} : account'[v] = account[v]
            /\ request' = [Overtaken(w) EXCEPT ![q] = Idle]
        BY <2>0, <3>2, NewPasswordEffect
      <3>4. w = u
        BY <1>1, <3>3
      <3>5. request[q].stale
        BY <1>1, <2>0, <3>1, <3>2, <3>4 DEF ReadCurrent, Live
      <3>6. request'[q] = Idle
        BY <3>3 DEF Overtaken
      <3> QED BY <2>1, <3>1, <3>4, <3>5, <3>6 DEF ChangePassword
    <2> HIDE DEF Goal
    <2>2. ASSUME NEW q \in Requests, Withdraw(q)
          PROVE  FALSE
      <3>1. PICK w : w = request[q].user
        OBVIOUS
      <3>2. /\ \A v \in Users \ {w} : account'[v] = account[v]
            /\ account'[w] = [account[w] EXCEPT !.is_deleted = TRUE]
        BY <2>0, <2>2, <3>1, WithdrawEffect
      <3>3. account'[u] = [account[u] EXCEPT !.is_deleted = TRUE]
        BY <1>1, <3>2
      <3>4. account[u].is_deleted = TRUE
        BY <1>1, <2>0 DEF AccountRow
      <3> QED BY <1>1, <2>0, <3>3, <3>4 DEF AccountRow
    <2>3. ASSUME NEW q \in Requests, Confirm(q)
          PROVE  FALSE
      <3>1. PICK w : w = Owner(q)
        OBVIOUS
      <3>2. /\ w \in Users /\ account[w] # NULL /\ Step(q, "shared")
            /\ NewPassword(q, w) \/ \A v \in Users \ {w} : account'[v] = account[v]
        BY <2>0, <2>3, <3>1, ConfirmEffect
      <3>3. \A v \in Users \ {w} : account'[v] = account[v]
        BY <2>0, <3>2, NewPasswordEffect
      <3>4. w = u
        BY <1>1, <3>3
      <3> QED BY <1>1, <2>0, <3>1, <3>2, <3>4 DEF LinkHeld, Live
    <2>4. ASSUME NEW q \in Requests, Moves(q) \/ Stops(q) \/ IssueToken(q)
          PROVE  FALSE
      <3>1. account' = account
        BY <2>0, <2>4, MoveEffect, IssueEffect DEF Stops
      <3> QED BY <1>1, <3>1
    <2>5. ASSUME NEW w \in Users, SignUp(w)
          PROVE  FALSE
      BY <1>1, <2>0, <2>5, SignUpEffect
    <2>6. ASSUME \/ \E s \in DOMAIN sessions : LogOut(s)
                 \/ \E t \in DOMAIN tokens : Expire(t)
                 \/ UNCHANGED vars
          PROVE  FALSE
      <3>1. account' = account
        BY <2>6 DEF LogOut, Expire, vars
      <3> QED BY <1>1, <3>1
    <2>7. StepKind
      BY <1>1, StepKinds
    <2>8. Goal
      BY <2>1, <2>2, <2>3, <2>4, <2>5, <2>6, <2>7 DEF StepKind
    <2> QED BY <2>8 DEF Goal
  <1>2. Inv /\ [Next]_vars =>
            \A u \in Users :
                account[u] # NULL /\ account[u].is_deleted /\ account'[u] # account[u] =>
                    \E q \in Requests :
                        /\ request[q].kind = "change" /\ request[q].user = u
                        /\ request[q].stale /\ request'[q] = Idle
    BY <1>1
  <1> QED BY <1>2, Inductive, PTL DEF Spec, WithdrawnUntouched
-----------------------------------------------------------------------------
(* Circles of requests that wait for each other, of any length.            *)

\* Each of these requests waits for one of them.
Circle(S) == S # {} /\ \A q \in S : WaitsFor(q) \cap S # {}

InEachOthersWay(q, r) == r \in WaitsFor(q) /\ q \in WaitsFor(r)

\* Every circle, however many requests are in it, holds two that wait for
\* each other, one of which opens a link: the pairs that the database ends
\* (DeadlockVictim) are all the deadlocks there are.
CirclesAreOfTwo ==
    \A S \in SUBSET Requests :
        Circle(S) => \E q, r \in S : InEachOthersWay(q, r) /\ Confirming(q)

\* Requests that have not ended are not all kept waiting, unless two of them
\* are in each other's way.
SomebodyGoesOn ==
    (\E q \in Requests : request[q] # Idle) =>
        \E q \in Requests :
            /\ request[q] # Idle
            /\ Granted(q) \/ \E r \in WaitsFor(q) : q \in WaitsFor(r)

\* Whom a request waits for, by the step it is at.
LEMMA WaitCases ==
    ASSUME NEW q \in Requests, NEW r \in WaitsFor(q)
    PROVE  /\ r \in Requests \ {q}
           /\ \/ Step(q, "begun") /\ HoldsToken(r, request[q].token)
              \/ Step(q, "marked") /\ HoldsAccount(r, Owner(q))
              \/ /\ Step(q, "shared") \/ Step(q, "read")
                 /\ HoldsAccount(r, Owner(q)) \/ SharesAccount(r, Owner(q))
              \/ Step(q, "locked") /\ \E t \in TokensToMark(q) : HoldsToken(r, t)
  <1>1. CASE Step(q, "begun")
    BY <1>1 DEF WaitsFor, Step
  <1>2. CASE Step(q, "marked")
    BY <1>2 DEF WaitsFor, Step
  <1>3. CASE Step(q, "shared") \/ Step(q, "read")
    BY <1>3 DEF WaitsFor, Step
  <1>4. CASE Step(q, "locked")
    BY <1>4 DEF WaitsFor, Step
  <1>5. CASE ~(Step(q, "begun") \/ Step(q, "marked") \/ Step(q, "shared")
               \/ Step(q, "read") \/ Step(q, "locked"))
    BY <1>5 DEF WaitsFor
  <1> QED BY <1>1, <1>2, <1>3, <1>4, <1>5

\* A link that is marked or shared waits for whoever holds the account, and
\* one that shares it for the others that do.
LEMMA LinkWaits ==
    ASSUME NEW q \in Requests, NEW r \in Requests \ {q}
    PROVE  /\ Step(q, "marked") /\ HoldsAccount(r, Owner(q)) => r \in WaitsFor(q)
           /\ Step(q, "shared") /\ SharesAccount(r, Owner(q)) => r \in WaitsFor(q)
  <1>1. ASSUME Step(q, "marked"), HoldsAccount(r, Owner(q))
        PROVE  r \in WaitsFor(q)
    BY <1>1 DEF WaitsFor, Step
  <1>2. ASSUME Step(q, "shared"), SharesAccount(r, Owner(q))
        PROVE  r \in WaitsFor(q)
    BY <1>2 DEF WaitsFor, Step
  <1> QED BY <1>1, <1>2

\* A request that is about to issue a link waits for nobody.
LEMMA SupersededGranted ==
    ASSUME NEW q \in Requests, Step(q, "superseded")
    PROVE  WaitsFor(q) = {}
  <1>1. ~Step(q, "begun") /\ ~Step(q, "marked") /\ ~Step(q, "shared")
        /\ ~Step(q, "read") /\ ~Step(q, "locked")
    BY DEF Step
  <1> QED BY <1>1, WaitCases

\* The account of a request is one of the accounts.
LEMMA HeldAccount ==
    ASSUME Types, NEW r \in Requests, NEW u, HoldsAccount(r, u) \/ SharesAccount(r, u)
    PROVE  u \in Users /\ u = Owner(r)
  BY OwnerThere DEF HoldsAccount, SharesAccount, Step

\* Who holds the account for itself waits, if at all, for a link of it that
\* has been opened, and this one for it.
LEMMA LockedCircle ==
    ASSUME Types, AccountLocks, NEW S \in SUBSET Requests, Circle(S),
           NEW q \in S, Step(q, "locked")
    PROVE  \E r \in S : InEachOthersWay(r, q) /\ Confirming(r)
  <1>1. PICK r \in S : r \in WaitsFor(q)
    BY DEF Circle
  <1>2. PICK t \in TokensToMark(q) : r # q /\ HoldsToken(r, t)
    <2>1. ~Step(q, "begun") /\ ~Step(q, "marked") /\ ~Step(q, "shared") /\ ~Step(q, "read")
      BY DEF Step
    <2> QED BY <1>1, <2>1, WaitCases
  <1>3. request[q] \in Asking /\ ~Confirming(q) /\ Owner(q) \in Users
    BY StepCases DEF Owner
  <1>4. t \in DOMAIN tokens /\ tokens[t].user = Owner(q)
    BY <1>3 DEF TokensToMark, Owner
  <1>5. ~Step(r, "superseded")
    BY SupersededGranted DEF Circle
  <1>6. Confirming(r) /\ request[r].token = t /\ request[r].step \in {"marked", "shared"}
    <2>1. CASE Confirming(r)
      BY <1>2, <2>1 DEF HoldsToken
    <2>2. CASE ~Confirming(r)
      <3>1. request[r] # Idle /\ t \in request[r].marks
        BY <1>2, <2>2 DEF HoldsToken
      <3>2. request[r] \in Asking
        BY <2>2, <3>1, RequestCases
      <3> QED BY <1>5, <3>1, <3>2 DEF Types, RequestOK, Step
    <2> QED BY <2>1, <2>2
  <1>7. request[r] # Idle /\ Owner(r) = Owner(q)
    BY <1>4, <1>6 DEF Owner, Confirming, Idle
  <1>8. HoldsAccount(q, Owner(r))
    BY <1>7 DEF HoldsAccount
  <1>9. Step(r, "marked")
    <2>1. ~SharesAccount(r, Owner(r))
      BY <1>2, <1>3, <1>7, <1>8 DEF AccountLocks
    <2> QED BY <1>6, <1>7, <2>1 DEF SharesAccount, Step
  <1>10. q \in WaitsFor(r)
    BY <1>2, <1>8, <1>9, LinkWaits
  <1> QED BY <1>1, <1>6, <1>10 DEF InEachOthersWay

\* A link that shares its account waits only for another one that does.
LEMMA SharedCircle ==
    ASSUME Types, AccountLocks, NEW S \in SUBSET Requests, Circle(S),
           NEW q \in S, Step(q, "shared")
    PROVE  \E r \in S : InEachOthersWay(q, r) /\ Confirming(q)
  <1>1. PICK r \in S : r \in WaitsFor(q)
    BY DEF Circle
  <1>2. r # q /\ (HoldsAccount(r, Owner(q)) \/ SharesAccount(r, Owner(q)))
    <2>1. ~Step(q, "begun") /\ ~Step(q, "marked") /\ ~Step(q, "locked")
      BY DEF Step
    <2> QED BY <1>1, <2>1, WaitCases
  <1>3. SharesAccount(q, Owner(q))
    BY DEF SharesAccount
  <1>4. Owner(q) \in Users
    BY <1>3, HeldAccount
  <1>5. SharesAccount(r, Owner(q))
    BY <1>2, <1>3, <1>4 DEF AccountLocks
  <1>6. Step(r, "shared") /\ Owner(r) = Owner(q)
    BY <1>5 DEF SharesAccount
  <1>7. q \in WaitsFor(r)
    BY <1>2, <1>3, <1>6, LinkWaits
  <1> QED BY <1>1, <1>7, StepCases DEF InEachOthersWay

\* From any request of a circle the waiting leads to one of these two.
LEMMA CircleOfTwo ==
    ASSUME Types, AccountLocks, NEW S \in SUBSET Requests, Circle(S)
    PROVE  \E q, r \in S : InEachOthersWay(q, r) /\ Confirming(q)
  <1>1. ASSUME NEW q \in S, Step(q, "locked")
        PROVE  \E r, o \in S : InEachOthersWay(r, o) /\ Confirming(r)
    BY <1>1, LockedCircle
  <1>2. ASSUME NEW q \in S, Step(q, "shared")
        PROVE  \E r, o \in S : InEachOthersWay(r, o) /\ Confirming(r)
    BY <1>2, SharedCircle
  <1>3. ASSUME NEW q \in S, Step(q, "marked")
        PROVE  \E r, o \in S : InEachOthersWay(r, o) /\ Confirming(r)
    <2>1. PICK r \in S : r \in WaitsFor(q)
      BY DEF Circle
    <2>2. HoldsAccount(r, Owner(q))
      <3>1. ~Step(q, "begun") /\ ~Step(q, "shared") /\ ~Step(q, "read") /\ ~Step(q, "locked")
        BY <1>3 DEF Step
      <3> QED BY <2>1, <3>1, WaitCases
    <2>3. Step(r, "locked")
      BY <2>2, SupersededGranted DEF HoldsAccount, Circle
    <2> QED BY <1>1, <2>3
  <1>4. ASSUME NEW q \in S, Step(q, "begun")
        PROVE  \E r, o \in S : InEachOthersWay(r, o) /\ Confirming(r)
    <2>1. PICK r \in S : r \in WaitsFor(q)
      BY DEF Circle
    <2>2. HoldsToken(r, request[q].token)
      <3>1. ~Step(q, "marked") /\ ~Step(q, "shared") /\ ~Step(q, "read") /\ ~Step(q, "locked")
        BY <1>4 DEF Step
      <3> QED BY <2>1, <3>1, WaitCases
    <2>3. ~Step(r, "superseded")
      BY SupersededGranted DEF Circle
    <2>4. CASE Confirming(r)
      <3>1. Step(r, "marked") \/ Step(r, "shared")
        BY <2>2, <2>4 DEF HoldsToken, Step, Confirming, Idle
      <3> QED BY <1>2, <1>3, <3>1
    <2>5. CASE ~Confirming(r)
      <3>1. request[r] # Idle /\ request[q].token \in request[r].marks
        BY <2>2, <2>5 DEF HoldsToken
      <3>2. request[r] \in Asking
        BY <2>5, <3>1, RequestCases
      <3>3. FALSE
        BY <2>3, <3>1, <3>2 DEF Types, RequestOK, Step
      <3> QED BY <3>3
    <2> QED BY <2>4, <2>5
  <1>5. ASSUME NEW q \in S, Step(q, "read")
        PROVE  \E r, o \in S : InEachOthersWay(r, o) /\ Confirming(r)
    <2>1. PICK r \in S : r \in WaitsFor(q)
      BY DEF Circle
    <2>2. HoldsAccount(r, Owner(q)) \/ SharesAccount(r, Owner(q))
      <3>1. ~Step(q, "begun") /\ ~Step(q, "marked") /\ ~Step(q, "locked")
        BY <1>5 DEF Step
      <3> QED BY <2>1, <3>1, WaitCases
    <2>3. Step(r, "locked") \/ Step(r, "shared")
      BY <2>2, SupersededGranted DEF HoldsAccount, SharesAccount, Circle
    <2> QED BY <1>1, <1>2, <2>3
  <1>6. PICK q \in S : TRUE
    BY DEF Circle
  <1>7. PICK r \in S : r \in WaitsFor(q)
    BY DEF Circle
  <1>8. \/ Step(q, "begun") \/ Step(q, "marked") \/ Step(q, "shared")
        \/ Step(q, "read") \/ Step(q, "locked")
    BY <1>7, WaitCases
  <1> QED BY <1>1, <1>2, <1>3, <1>4, <1>5, <1>8

\* However many requests there are, every circle of them contains two that
\* wait for each other.
THEOREM CirclesAreOfTwoHolds == Spec => []CirclesAreOfTwo
  <1>1. Inv => CirclesAreOfTwo
    BY CircleOfTwo DEF Inv, CirclesAreOfTwo
  <1> QED BY <1>1, Inductive, PTL

\* Whoever is waited for has not ended.
LEMMA WaitedFor ==
    ASSUME NEW q \in Requests, NEW r \in WaitsFor(q)
    PROVE  r \in Requests /\ request[r] # Idle /\ request[q] # Idle
  <1>1. Idle.kind # "confirm"
    BY DEF Idle
  <1>2. \A t : HoldsToken(r, t) => request[r] # Idle
    BY <1>1 DEF HoldsToken, Confirming
  <1>3. \A u : HoldsAccount(r, u) \/ SharesAccount(r, u) => request[r] # Idle
    BY DEF HoldsAccount, SharesAccount, Step
  <1> QED BY <1>2, <1>3, WaitCases DEF Step

\* In no reachable state does everybody wait for ever: among the requests
\* that have not ended one can go on, or two are in each other's way and the
\* database ends one of them.
THEOREM SomebodyGoesOnHolds == Spec => []SomebodyGoesOn
  <1>1. ASSUME Inv, NEW q \in Requests, request[q] # Idle
        PROVE  \E r \in Requests :
                   /\ request[r] # Idle
                   /\ Granted(r) \/ \E o \in WaitsFor(r) : r \in WaitsFor(o)
    <2> DEFINE S == {r \in Requests : request[r] # Idle}
    <2>1. CASE \A r \in S : WaitsFor(r) # {}
      <3>1. Circle(S)
        BY <1>1, <2>1, WaitedFor DEF Circle
      <3>2. PICK r, o \in S : InEachOthersWay(r, o)
        BY <1>1, <3>1, CircleOfTwo DEF Inv
      <3> QED BY <3>2 DEF InEachOthersWay
    <2>2. CASE \E r \in S : WaitsFor(r) = {}
      BY <2>2 DEF Granted
    <2> QED BY <2>1, <2>2
  <1>2. Inv => SomebodyGoesOn
    BY <1>1 DEF SomebodyGoesOn
  <1> QED BY <1>2, Inductive, PTL

-----------------------------------------------------------------------------
(* How long a request can be.                                              *)

\* How many steps of its own a request can still take at most.
StepsLeft(q) ==
    IF request[q] = Idle THEN 0
    ELSE IF request[q].step \in {"read", "begun"} THEN 3
    ELSE IF request[q].step \in {"locked", "marked"} THEN 2 ELSE 1

\* A step of a request shortens it; what others do never makes it longer.
Shortens ==
    \A q \in Requests :
        request[q] # Idle =>
            /\ StepsLeft(q)' =< StepsLeft(q)
            /\ Proceed(q) => StepsLeft(q)' < StepsLeft(q)

\* A request that moves on is one step nearer to its end.
LEMMA MoveShortens ==
    ASSUME Types, NEW q \in Requests, request[q] # Idle, Moves(q)
    PROVE  StepsLeft(q)' < StepsLeft(q)
  <1>1. request[q] \in Asking \cup Opening
    BY DEF Types, RequestOK
  <1>2. ASSUME LockAccount(q), request'[q] = [request[q] EXCEPT !.step = "locked"]
        PROVE  StepsLeft(q)' < StepsLeft(q)
    <2>1. request'[q].step = "locked"
      BY <1>1, <1>2 DEF Asking, Opening
    <2> QED BY <1>2, <2>1 DEF LockAccount, Step, StepsLeft
  <1>3. ASSUME SupersedeTokens(q),
               request'[q] = [request[q] EXCEPT !.step = "superseded", !.marks = TokensToMark(q)]
        PROVE  StepsLeft(q)' < StepsLeft(q)
    <2>1. request[q] \in Asking
      BY <1>3, StepCases DEF SupersedeTokens
    <2>2. request'[q].step = "superseded"
      BY <1>3, <2>1 DEF Asking
    <2> QED BY <1>3, <2>2 DEF SupersedeTokens, Step, StepsLeft
  <1>4. ASSUME ConsumeToken(q), request'[q] = [request[q] EXCEPT !.step = "marked"]
        PROVE  StepsLeft(q)' < StepsLeft(q)
    <2>1. request'[q].step = "marked"
      BY <1>1, <1>4 DEF Asking, Opening
    <2> QED BY <1>4, <2>1 DEF ConsumeToken, Step, StepsLeft
  <1>5. ASSUME ShareAccount(q), request'[q] = [request[q] EXCEPT !.step = "shared"]
        PROVE  StepsLeft(q)' < StepsLeft(q)
    <2>1. request'[q].step = "shared"
      BY <1>1, <1>5 DEF Asking, Opening
    <2> QED BY <1>5, <2>1 DEF ShareAccount, Step, StepsLeft
  <1> QED BY <1>2, <1>3, <1>4, <1>5, MoveEffect

\* So does what ends it.
LEMMA ProceedShortens ==
    ASSUME Types, NEW q \in Requests, request[q] # Idle, Proceed(q)
    PROVE  StepsLeft(q)' < StepsLeft(q)
  <1>1. CASE Moves(q)
    BY <1>1, MoveShortens
  <1>2. ASSUME request'[q] = Idle
        PROVE  StepsLeft(q)' < StepsLeft(q)
    BY <1>2 DEF StepsLeft
  <1>3. \A u : [Overtaken(u) EXCEPT ![q] = Idle][q] = Idle
    BY DEF Overtaken
  <1>4. [request EXCEPT ![q] = Idle][q] = Idle
    BY DEF Types, TypeOK
  <1>5. LogIn(q) \/ IssueToken(q) \/ Reject(q) \/ AtBound(q) => request'[q] = Idle
    BY <1>4 DEF LogIn, IssueToken, Reject, AtBound, Ends
  <1>6. ChangePassword(q) \/ Withdraw(q) => request'[q] = Idle
    BY <1>3 DEF ChangePassword, NewPassword, Withdraw
  <1>7. Confirm(q) => request'[q] = Idle
    BY <1>3, <1>4 DEF Confirm, NewPassword, Ends
  <1> QED BY <1>1, <1>2, <1>5, <1>6, <1>7 DEF Proceed, Moves

\* Every request is at most three steps long, whatever overlaps with it: a
\* step of its own brings it nearer to its end, and a password changed or an
\* account withdrawn meanwhile sends it nowhere back.
THEOREM RequestsShorten == Spec => [][Shortens]_vars
  <1>1. ASSUME Inv, [Next]_vars, NEW q \in Requests, request[q] # Idle
        PROVE  /\ StepsLeft(q)' =< StepsLeft(q)
               /\ Proceed(q) => StepsLeft(q)' < StepsLeft(q)
    <2>1. Types
      BY <1>1 DEF Inv
    <2>2. StepsLeft(q) \in Nat /\ StepsLeft(q)' \in Nat
      BY DEF StepsLeft
    <2>3. ASSUME request'[q] = request[q] \/ request'[q] = Idle
          PROVE  StepsLeft(q)' =< StepsLeft(q)
      BY <2>3 DEF StepsLeft
    <2>4. ASSUME Step(q, "read"), request'[q] = [request[q] EXCEPT !.stale = TRUE]
          PROVE  StepsLeft(q)' =< StepsLeft(q)
      <3>1. request'[q].step = "read"
        BY <2>1, <2>4, StepCases DEF Step, Asking
      <3> QED BY <2>4, <3>1 DEF StepsLeft, Step
    <2>5. CASE Moves(q)
      BY <1>1, <2>1, <2>2, <2>5, MoveShortens
    <2>6. StepsLeft(q)' =< StepsLeft(q)
      BY <1>1, <2>1, <2>2, <2>3, <2>4, <2>5, RequestAfter
    <2>7. Proceed(q) => StepsLeft(q)' < StepsLeft(q)
      BY <1>1, <2>1, ProceedShortens
    <2> QED BY <2>6, <2>7
  <1>2. Inv /\ [Next]_vars => [Shortens]_vars
    BY <1>1 DEF Shortens
  <1> QED BY <1>2, Inductive, PTL DEF Spec
=============================================================================
