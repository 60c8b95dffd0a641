---------------------------- MODULE Administrators ----------------------------
(***************************************************************************)
(* The roles of the people's accounts and the rule that somebody is always *)
(* left who can administer them: api/routes/auth.py (sign-up, withdrawal,  *)
(* role changes) and auth/role_bootstrap.py.                               *)
(*                                                                         *)
(* A request reads the account it is about without a lock.  If the role it *)
(* read is ADMIN it then locks every administrator's row, counts them, and *)
(* writes; otherwise it writes at once.  From the lock, or the write, to   *)
(* the commit the rows concerned do not change, so the second part is one  *)
(* action.  The account of the guided tour is neither counted nor changed  *)
(* by these operations and is left out.                                    *)
(***************************************************************************)
EXTENDS Naturals, FiniteSets

CONSTANTS
    Users,           \* ids of accounts
    InitialAdmins,   \* the users whose address is in INITIAL_ADMIN_EMAILS
    Requests,        \* requests being handled, each with its own session
    NULL

ASSUME UsersAssumption ==
    /\ InitialAdmins \subseteq Users
    /\ IsFiniteSet(Users)

VARIABLES
    user,       \* the app_user rows, each a UserRow or NULL
    request     \* the Request that each session handles

vars == <<user, request>>

Roles == {"FIELD", "OFFICE", "ADMIN"}

UserRow == [role : Roles, is_deleted : BOOLEAN]

\* The row that does not exist is none that does.
ASSUME RowAssumption == NULL \notin UserRow

Idle == [kind |-> "idle"]

\* `role' is the role the request read; `promoted' remembers, for the
\* property only, that its account became an administrator after the read.
Request == {Idle} \cup
    [kind : {"login", "withdraw", "role"}, user : Users, role : Roles,
     promoted : BOOLEAN]

Live(u) == user[u] # NULL /\ ~user[u].is_deleted

Admins == {u \in Users : Live(u) /\ user[u].role = "ADMIN"}

\* Requests that have read account u as something else than ADMIN.
Overtaken(u) ==
    [q \in Requests |->
        IF request[q] # Idle /\ request[q].user = u /\ request[q].role # "ADMIN"
          THEN [request[q] EXCEPT !.promoted = TRUE] ELSE request[q]]

-----------------------------------------------------------------------------
(* Operations.                                                             *)

Init ==
    /\ user = [u \in Users |-> NULL]
    /\ request = [q \in Requests |-> Idle]

SignUp(u) ==
    /\ user[u] = NULL
    /\ user' = [user EXCEPT ![u] = [role |-> "FIELD", is_deleted |-> FALSE]]
    /\ UNCHANGED request

\* Logging in and withdrawing are open to every account; changing a role is
\* asked for by an administrator.
Read(q, kind, u) ==
    /\ request[q] = Idle
    /\ Live(u)
    /\ kind = "role" => Admins # {}
    /\ request' = [request EXCEPT ![q] = [kind |-> kind, user |-> u,
                                          role |-> user[u].role,
                                          promoted |-> FALSE]]
    /\ UNCHANGED user

\* Mutant: the administrator who leaves is counted too.
SomeAdmin(q) == request[q].role = "ADMIN" => Cardinality(Admins) > 0

\* _lock_admin_users counts more than one, where the role read is ADMIN.
NotLastAdmin(q) == request[q].role = "ADMIN" => Cardinality(Admins) > 1

SetRole(u, role) == user' = [user EXCEPT ![u].role = role]

\* The requests after q gave user u a role and ended.
Ended(q, u, role) ==
    LET before == IF role = "ADMIN" THEN Overtaken(u) ELSE request
    IN  request' = [before EXCEPT ![q] = Idle]

\* At login, or when the address is verified, an initial administrator with
\* a verified address is promoted.
Promote(q) ==
    LET u == request[q].user
    IN  /\ request[q].kind = "login"
        /\ u \in InitialAdmins
        /\ request[q].role # "ADMIN"
        /\ SetRole(u, "ADMIN")
        /\ Ended(q, u, "ADMIN")

\* A login that promotes nobody; the address may not be verified yet.
LogIn(q) ==
    /\ request[q].kind = "login"
    /\ request' = [request EXCEPT ![q] = Idle]
    /\ UNCHANGED user

Withdraw(q) ==
    /\ request[q].kind = "withdraw"
    /\ NotLastAdmin(q)
    /\ user' = [user EXCEPT ![request[q].user].is_deleted = TRUE]
    /\ request' = [request EXCEPT ![q] = Idle]

ChangeRole(q, role) ==
    /\ request[q].kind = "role"
    /\ role # request[q].role
    /\ NotLastAdmin(q)
    /\ SetRole(request[q].user, role)
    /\ Ended(q, request[q].user, role)

\* The last administrator is asked for, or the role is the present one.
Refuse(q) ==
    /\ request[q].kind \in {"withdraw", "role"}
    /\ ~NotLastAdmin(q) \/ request[q].kind = "role"
    /\ request' = [request EXCEPT ![q] = Idle]
    /\ UNCHANGED user

Next ==
    \/ \E u \in Users : SignUp(u)
    \/ \E q \in Requests, kind \in {"login", "withdraw", "role"}, u \in Users :
           Read(q, kind, u)
    \/ \E q \in Requests : Promote(q) \/ LogIn(q) \/ Withdraw(q) \/ Refuse(q)
    \/ \E q \in Requests, role \in Roles : ChangeRole(q, role)

Spec == Init /\ [][Next]_vars

-----------------------------------------------------------------------------
(* Properties.                                                             *)

\* Once there is an administrator there always is one, whatever requests
\* overlap (_lock_admin_users), as long as no account is promoted between
\* the read and the write of a request about it: the role that decides
\* whether administrators are counted is the one read before the lock.
AdminRemainsUnlessPromoted ==
    [][Admins # {} /\ (\A q \in Requests : request[q] # Idle => ~request[q].promoted)
          => Admins' # {}]_vars
=============================================================================
