------------------------- MODULE AdministratorProofs -------------------------
(***************************************************************************)
(* Proof that the last administrator stays, for any number of accounts and *)
(* of requests that overlap.                                               *)
(*                                                                         *)
(* The role a request read decides whether it counts administrators.  The  *)
(* invariant says how long that reading can be trusted: an account read as *)
(* something else than ADMIN is none until the request is told of a        *)
(* promotion, so a request that counts nothing takes none away.            *)
(***************************************************************************)
EXTENDS Administrators, FiniteSetTheorems, TLAPS

\* The types, and that the account of a request was signed up.
Types ==
    /\ user \in [Users -> UserRow \cup {NULL}]
    /\ request \in [Requests -> Request]
    /\ \A q \in Requests : request[q] # Idle => user[request[q].user] # NULL

\* Who was read as no administrator is none, unless promoted since.
ReadHolds ==
    \A q \in Requests :
        request[q] # Idle /\ request[q].role # "ADMIN" /\ ~request[q].promoted =>
            user[request[q].user].role # "ADMIN"

Inv == Types /\ ReadHolds

\* What is known of a request that is handled.
LEMMA HandledType ==
    ASSUME Types, NEW q \in Requests, request[q].kind # "idle"
    PROVE  /\ request[q] # Idle
           /\ request[q] \in [kind : {"login", "withdraw", "role"}, user : Users,
                              role : Roles, promoted : BOOLEAN]
           /\ request[q].user \in Users
           /\ user[request[q].user] \in UserRow
           /\ user[request[q].user] # NULL
  BY DEF Types, Request, Idle

\* The handled requests are not idle.
LEMMA NotIdle ==
    ASSUME NEW x \in [kind : {"login", "withdraw", "role"}, user : Users,
                      role : Roles, promoted : BOOLEAN]
    PROVE  x # Idle /\ x \in Request
  BY DEF Idle, Request

\* What a promotion of u tells the requests about u.
LEMMA OvertakenType ==
    ASSUME Types, NEW u \in Users
    PROVE  /\ Overtaken(u) \in [Requests -> Request]
           /\ \A q \in Requests :
                  /\ Overtaken(u)[q] # Idle <=> request[q] # Idle
                  /\ request[q] # Idle =>
                         /\ Overtaken(u)[q].user = request[q].user
                         /\ Overtaken(u)[q].role = request[q].role
                         /\ ~Overtaken(u)[q].promoted =>
                                /\ ~request[q].promoted
                                /\ request[q].user = u => request[q].role = "ADMIN"
  <1>1. ASSUME NEW q \in Requests
        PROVE  /\ Overtaken(u)[q] \in Request
               /\ Overtaken(u)[q] # Idle <=> request[q] # Idle
               /\ request[q] # Idle =>
                      /\ Overtaken(u)[q].user = request[q].user
                      /\ Overtaken(u)[q].role = request[q].role
                      /\ ~Overtaken(u)[q].promoted =>
                             /\ ~request[q].promoted
                             /\ request[q].user = u => request[q].role = "ADMIN"
    <2>1. request[q] \in Request
      BY DEF Types
    <2>2. CASE request[q] # Idle /\ request[q].user = u /\ request[q].role # "ADMIN"
      <3>1. request[q] \in [kind : {"login", "withdraw", "role"}, user : Users,
                            role : Roles, promoted : BOOLEAN]
        BY <2>1, <2>2 DEF Request
      <3>2. Overtaken(u)[q] = [request[q] EXCEPT !.promoted = TRUE]
        BY <2>2 DEF Overtaken
      <3>3. Overtaken(u)[q] \in [kind : {"login", "withdraw", "role"}, user : Users,
                                 role : Roles, promoted : BOOLEAN]
        BY <3>1, <3>2
      <3>4. /\ Overtaken(u)[q].user = request[q].user
            /\ Overtaken(u)[q].role = request[q].role
            /\ Overtaken(u)[q].promoted = TRUE
        BY <3>1, <3>2
      <3> QED BY <2>2, <3>3, <3>4, NotIdle
    <2>3. CASE ~(request[q] # Idle /\ request[q].user = u /\ request[q].role # "ADMIN")
      <3>1. Overtaken(u)[q] = request[q]
        BY <2>3 DEF Overtaken
      <3> QED BY <2>1, <2>3, <3>1
    <2> QED BY <2>2, <2>3
  <1>2. Overtaken(u) = [q \in Requests |-> Overtaken(u)[q]]
    BY DEF Overtaken
  <1> QED BY <1>1, <1>2

\* Giving an account a role, and ending the request that did it.
LEMMA RoleGiven ==
    ASSUME Inv, NEW q \in Requests, NEW role \in Roles, request[q].kind # "idle",
           SetRole(request[q].user, role), Ended(q, request[q].user, role)
    PROVE  Inv'
  <1>1. PICK u \in Users : u = request[q].user /\ user[u] \in UserRow
    BY HandledType DEF Inv
  <1>2. /\ user'[u] = [user[u] EXCEPT !.role = role]
        /\ \A w \in Users \ {u} : user'[w] = user[w]
        /\ user' \in [Users -> UserRow \cup {NULL}]
    BY <1>1 DEF Inv, Types, SetRole, UserRow
  <1>3. user'[u] \in UserRow /\ user'[u].role = role /\ user'[u] # NULL
    BY <1>1, <1>2, RowAssumption DEF UserRow
  <1>4. PICK before \in [Requests -> Request] :
            /\ before = IF role = "ADMIN" THEN Overtaken(u) ELSE request
            /\ request' = [before EXCEPT ![q] = Idle]
    BY <1>1, OvertakenType DEF Ended, Inv, Types
  <1>5. ASSUME NEW p \in Requests, before[p] # Idle
        PROVE  /\ request[p] # Idle
               /\ before[p].user = request[p].user
               /\ before[p].role = request[p].role
               /\ ~before[p].promoted =>
                      /\ ~request[p].promoted
                      /\ role = "ADMIN" /\ request[p].user = u => request[p].role = "ADMIN"
    BY <1>1, <1>4, <1>5, OvertakenType DEF Inv
  <1>6. request'[q] = Idle /\ \A p \in Requests \ {q} : request'[p] = before[p]
    BY <1>4
  <1>7. request' \in [Requests -> Request]
    BY <1>4 DEF Request
  <1>8. ASSUME NEW p \in Requests, request'[p] # Idle
        PROVE  user'[request'[p].user] # NULL
    <2>1. p # q /\ before[p] # Idle /\ request'[p] = before[p]
      BY <1>6, <1>8
    <2>2. request[p] # Idle /\ request'[p].user = request[p].user
      BY <1>5, <2>1
    <2>3. request[p].user \in Users /\ user[request[p].user] # NULL
      BY <2>2 DEF Inv, Types, Request
    <2> QED BY <1>2, <1>3, <2>2, <2>3
  <1>9. ASSUME NEW p \in Requests, request'[p] # Idle, request'[p].role # "ADMIN",
               ~request'[p].promoted
        PROVE  user'[request'[p].user].role # "ADMIN"
    <2>1. p # q /\ before[p] # Idle /\ request'[p] = before[p]
      BY <1>6, <1>9
    <2>2. /\ request[p] # Idle
          /\ request'[p].user = request[p].user
          /\ request[p].role # "ADMIN"
          /\ ~request[p].promoted
          /\ ~(role = "ADMIN" /\ request[p].user = u)
      BY <1>5, <1>9, <2>1
    <2>3. user[request[p].user].role # "ADMIN" /\ request[p].user \in Users
      BY <2>2 DEF Inv, Types, ReadHolds, Request
    <2> QED BY <1>2, <1>3, <2>2, <2>3
  <1> QED BY <1>2, <1>7, <1>8, <1>9 DEF Inv, Types, ReadHolds

\* A request that ends and gives no role.
LEMMA RequestEnded ==
    ASSUME Inv, NEW q \in Requests, request' = [request EXCEPT ![q] = Idle],
           user' \in [Users -> UserRow \cup {NULL}],
           \A u \in Users : user[u] # NULL => user'[u] # NULL /\ user'[u].role = user[u].role
    PROVE  Inv'
  <1>1. request'[q] = Idle /\ \A p \in Requests \ {q} : request'[p] = request[p]
    BY DEF Inv, Types
  <1>2. request' \in [Requests -> Request]
    BY DEF Inv, Types, Request
  <1>3. ASSUME NEW p \in Requests, request'[p] # Idle
        PROVE  /\ request'[p] = request[p]
               /\ request[p].user \in Users
               /\ user[request[p].user] # NULL
    BY <1>1, <1>3 DEF Inv, Types, Request
  <1> QED BY <1>2, <1>3 DEF Inv, Types, ReadHolds

\* The invariant is inductive.
LEMMA InvStep ==
    ASSUME Inv, [Next]_vars
    PROVE  Inv'
  <1>1. ASSUME NEW u \in Users, SignUp(u)
        PROVE  Inv'
    <2>1. [role |-> "FIELD", is_deleted |-> FALSE] \in UserRow
      BY DEF UserRow, Roles
    <2>2. \A w \in Users : user[w] # NULL => user'[w] = user[w]
      BY <1>1 DEF SignUp, Inv, Types
    <2>3. user' \in [Users -> UserRow \cup {NULL}]
      BY <1>1, <2>1 DEF SignUp, Inv, Types
    <2>4. \A q \in Requests : request[q] # Idle => request[q].user \in Users
      BY DEF Inv, Types, Request
    <2> QED BY <1>1, <2>2, <2>3, <2>4 DEF SignUp, Inv, Types, ReadHolds
  <1>2. ASSUME NEW q \in Requests, NEW kind \in {"login", "withdraw", "role"}, NEW u \in Users,
               Read(q, kind, u)
        PROVE  Inv'
    <2>1. user[u] \in UserRow /\ user[u] # NULL /\ user' = user
      BY <1>2 DEF Read, Live, Inv, Types
    <2>2. user[u].role \in Roles
      BY <2>1 DEF UserRow
    <2>3. PICK new : new = [kind |-> kind, user |-> u, role |-> user[u].role, promoted |-> FALSE]
      OBVIOUS
    <2>4. new \in [kind : {"login", "withdraw", "role"}, user : Users,
                   role : Roles, promoted : BOOLEAN]
      BY <2>2, <2>3
    <2>5. new # Idle /\ new \in Request
      BY <2>4, NotIdle
    <2>6. request' = [request EXCEPT ![q] = new]
      BY <1>2, <2>3 DEF Read
    <2>7. request' \in [Requests -> Request]
      BY <2>5, <2>6 DEF Inv, Types
    <2>8. new.user = u /\ new.role = user[u].role
      BY <2>3
    <2>9. request'[q] = new /\ \A p \in Requests \ {q} : request'[p] = request[p]
      BY <2>6 DEF Inv, Types
    <2> QED BY <2>1, <2>7, <2>8, <2>9 DEF Inv, Types, ReadHolds
  <1>3. ASSUME NEW q \in Requests, Promote(q)
        PROVE  Inv'
    <2>1. request[q].kind # "idle" /\ "ADMIN" \in Roles
      BY <1>3 DEF Promote, Roles
    <2> QED BY <1>3, <2>1, RoleGiven DEF Promote
  <1>4. ASSUME NEW q \in Requests, LogIn(q) \/ Refuse(q)
        PROVE  Inv'
    BY <1>4, RequestEnded DEF LogIn, Refuse, Inv, Types
  <1>5. ASSUME NEW q \in Requests, Withdraw(q)
        PROVE  Inv'
    <2>1. PICK u \in Users : u = request[q].user /\ user[u] \in UserRow
      BY <1>5, HandledType DEF Inv, Withdraw
    <2>2. user' = [user EXCEPT ![u] = [user[u] EXCEPT !.is_deleted = TRUE]]
      BY <1>5, <2>1 DEF Withdraw
    <2>3. [user[u] EXCEPT !.is_deleted = TRUE] \in UserRow
          /\ [user[u] EXCEPT !.is_deleted = TRUE].role = user[u].role
      BY <2>1 DEF UserRow
    <2>4. user' \in [Users -> UserRow \cup {NULL}]
      BY <2>2, <2>3 DEF Inv, Types
    <2>5. \A w \in Users : user[w] # NULL => user'[w] # NULL /\ user'[w].role = user[w].role
      BY <2>2, <2>3, RowAssumption DEF Inv, Types
    <2> QED BY <1>5, <2>4, <2>5, RequestEnded DEF Withdraw
  <1>6. ASSUME NEW q \in Requests, NEW role \in Roles, ChangeRole(q, role)
        PROVE  Inv'
    <2>1. request[q].kind # "idle"
      BY <1>6 DEF ChangeRole
    <2> QED BY <1>6, <2>1, RoleGiven DEF ChangeRole
  <1>7. CASE UNCHANGED vars
    BY <1>7 DEF vars, Inv, Types, ReadHolds
  <1> QED BY <1>1, <1>2, <1>3, <1>4, <1>5, <1>6, <1>7 DEF Next

\* The invariant holds in every behaviour.
LEMMA InvHolds == Spec => []Inv
  <1>1. Init => Inv
    BY DEF Init, Inv, Types, ReadHolds, Request
  <1> QED BY <1>1, InvStep, PTL DEF Spec

\* Of more than one administrator one is left when one goes.
LEMMA AnotherAdmin ==
    ASSUME Cardinality(Admins) > 1, NEW u
    PROVE  \E w \in Admins : w # u
  <1>1. IsFiniteSet(Admins)
    BY UsersAssumption, FS_Subset DEF Admins
  <1>2. ASSUME \A w \in Admins : w = u
        PROVE  FALSE
    <2>1. Admins \in SUBSET {u}
      BY <1>2
    <2>2. IsFiniteSet({u}) /\ Cardinality({u}) = 1
      BY FS_Singleton
    <2>3. Cardinality(Admins) <= 1 /\ Cardinality(Admins) \in Nat
      BY <1>1, <2>1, <2>2, FS_Subset, FS_CardinalityType
    <2> QED BY <2>3
  <1> QED BY <1>2

\* A step that writes one account, which is no administrator or not the
\* last, leaves an administrator.
LEMMA AdminLeft ==
    ASSUME Inv, Admins # {}, NEW q \in Requests, request[q].kind # "idle",
           ~request[q].promoted, NotLastAdmin(q),
           \A w \in Users \ {request[q].user} : user'[w] = user[w]
    PROVE  Admins' # {}
  <1>1. \E w \in Admins : w # request[q].user
    <2>1. CASE request[q].role = "ADMIN"
      BY <2>1, AnotherAdmin DEF NotLastAdmin
    <2>2. CASE request[q].role # "ADMIN"
      <3>1. user[request[q].user].role # "ADMIN"
        BY <2>2, HandledType DEF Inv, ReadHolds
      <3> QED BY <3>1 DEF Admins
    <2> QED BY <2>1, <2>2
  <1> QED BY <1>1 DEF Admins, Live

\* Whatever requests overlap, an administrator remains, unless an account was
\* promoted between the read and the write of a request about it.
THEOREM AdminRemainsUnlessPromotedHolds == Spec => AdminRemainsUnlessPromoted
  <1>1. ASSUME Inv, [Next]_vars, Admins # {},
               \A q \in Requests : request[q] # Idle => ~request[q].promoted
        PROVE  Admins' # {}
    <2>1. ASSUME NEW u \in Users, SignUp(u)
          PROVE  Admins' # {}
      BY <1>1, <2>1 DEF SignUp, Admins, Live, Inv, Types
    <2>2. ASSUME user' = user
          PROVE  Admins' # {}
      BY <1>1, <2>2 DEF Admins, Live
    <2>3. ASSUME NEW q \in Requests, Promote(q)
          PROVE  Admins' # {}
      <3>1. PICK u \in Users : u = request[q].user /\ user[u] \in UserRow
        BY <1>1, <2>3, HandledType DEF Inv, Promote
      <3>2. user' = [user EXCEPT ![u] = [user[u] EXCEPT !.role = "ADMIN"]]
        BY <2>3, <3>1 DEF Promote, SetRole
      <3>3. /\ [user[u] EXCEPT !.role = "ADMIN"] \in UserRow
            /\ [user[u] EXCEPT !.role = "ADMIN"].role = "ADMIN"
            /\ [user[u] EXCEPT !.role = "ADMIN"].is_deleted = user[u].is_deleted
        BY <3>1 DEF UserRow, Roles
      <3>4. \A w \in Admins : w \in Admins'
        BY <1>1, <3>1, <3>2, <3>3, RowAssumption DEF Admins, Live, Inv, Types
      <3> QED BY <1>1, <3>4
    <2>4. ASSUME NEW q \in Requests, Withdraw(q) \/ \E role \in Roles : ChangeRole(q, role)
          PROVE  Admins' # {}
      <3>1. request[q].kind # "idle" /\ NotLastAdmin(q)
        BY <2>4 DEF Withdraw, ChangeRole
      <3>2. \A w \in Users \ {request[q].user} : user'[w] = user[w]
        BY <1>1, <2>4 DEF Withdraw, ChangeRole, SetRole, Inv, Types
      <3> QED BY <1>1, <3>1, <3>2, AdminLeft, HandledType DEF Inv
    <2> QED BY <1>1, <2>1, <2>2, <2>3, <2>4 DEF Next, Read, LogIn, Refuse, vars
  <1>2. Inv /\ [Next]_vars =>
            (Admins # {} /\ (\A q \in Requests : request[q] # Idle => ~request[q].promoted)
                => Admins' # {})
    BY <1>1
  <1> QED BY <1>2, InvHolds, PTL DEF Spec, AdminRemainsUnlessPromoted
=============================================================================
