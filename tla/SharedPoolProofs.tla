--------------------------- MODULE SharedPoolProofs ---------------------------
(***************************************************************************)
(* The invariant of SharedPool and the theorems that follow from it.  Each *)
(* service has a part of the invariant about its own rows and requests; a  *)
(* step of one service keeps the parts of the others because it keeps      *)
(* their rows and requests (Kept).  Lemmas about requests, the pool and    *)
(* times, which all services use, come first; then the conversation: why   *)
(* answers that quote and round earlier answers stay near what tools gave. *)
(***************************************************************************)
EXTENDS SharedPool, FiniteSetTheorems, WellFoundedInduction, TLAPS

-----------------------------------------------------------------------------
(* Greatest elements.                                                      *)

\* Sets of natural numbers have least elements.
LEMMA LeastNatural ==
    ASSUME NEW T \in SUBSET Nat, T # {}
    PROVE  \E u \in T : \A m \in T : u =< m
  <1> DEFINE R == OpToRel(<, Nat)
  <1>1. PICK u \in T : \A m \in T : <<m, u>> \notin R
    BY NatLessThanWellFounded, WFMin
  <1>2. \A m \in T : ~(m < u)
    BY <1>1 DEF OpToRel
  <1> QED BY <1>2, SMT

\* Bounded sets of natural numbers have greatest elements.
LEMMA MaxIsGreatest ==
    ASSUME NEW n \in Nat, NEW S \in SUBSET (0..n), S # {}
    PROVE  Max(S) \in S /\ \A s \in S : s =< Max(S)
  <1> DEFINE T == {u \in Nat : \A s \in S : s =< u}
  <1>1. n \in T
    OBVIOUS
  <1>2. PICK u \in T : \A m \in T : u =< m
    BY <1>1, LeastNatural
  <1>3. u \in S
    <2> SUFFICES ASSUME u \notin S PROVE FALSE
      OBVIOUS
    <2>1. PICK s \in S : TRUE
      OBVIOUS
    <2>2. u - 1 \in T
      BY <2>1
    <2> QED BY <2>2, <1>2
  <1>4. \A s \in S : u >= s
    BY <1>2
  <1> DEFINE P(x) == x \in S /\ \A s \in S : x >= s
  <1>5. P(Max(S))
    BY <1>3, <1>4, Zenon DEF Max
  <1> QED BY <1>5

-----------------------------------------------------------------------------
(* Requests.                                                               *)

\* The kinds of requests.
LEMMA Kinds ==
    /\ Idle.kind = "idle"
    /\ \A r \in TurnRequest : r.kind = "turn"
    /\ \A r \in PortRequest : r.kind = "port"
    /\ \A r \in EntryRequest : r.kind = "entry"
    /\ \A r \in BatchRequest : r.kind = "batch"
    /\ \A r \in ImportRequest : r.kind = "import"
  <1>1. Idle.kind = "idle" BY DEF Idle
  <1>2. \A r \in TurnRequest : r.kind = "turn" BY DEF TurnRequest
  <1>3. \A r \in PortRequest : r.kind = "port" BY DEF PortRequest
  <1>4. \A r \in EntryRequest : r.kind = "entry" BY DEF EntryRequest
  <1>5. \A r \in BatchRequest : r.kind = "batch" BY DEF BatchRequest
  <1>6. \A r \in ImportRequest : r.kind = "import" BY DEF ImportRequest
  <1> QED BY <1>1, <1>2, <1>3, <1>4, <1>5, <1>6

\* The kind of a request says what it is.
LEMMA OfKind ==
    ASSUME NEW r \in AnyRequest
    PROVE  /\ r.kind = "turn" => r \in TurnRequest
           /\ r.kind = "port" => r \in PortRequest
           /\ r.kind = "entry" => r \in EntryRequest
           /\ r.kind = "batch" => r \in BatchRequest
           /\ r.kind = "import" => r \in ImportRequest
  BY Kinds, Zenon DEF AnyRequest

\* A name not in use has no connection.
LEMMA IdleIs == Idle \in AnyRequest /\ ~Idle.connected
  BY DEF AnyRequest, Idle

\* A request begins with a connection only while one is free.
LEMMA PoolBegin ==
    ASSUME TypeOK, NEW q \in Requests, NEW r, Begin(q, r)
    PROVE Cardinality(Connected') =< PoolSize
  <1>1. IsFiniteSet(Connected) /\ Cardinality(Connected) \in Nat /\ Cardinality(Connected) < PoolSize
    BY PoolAssumption, FS_Subset, FS_CardinalityType DEF Connected, Begin, Free
  <1>2. Connected' \subseteq Connected \cup {q}
    BY DEF Connected, Begin, TypeOK
  <1> DEFINE C == Connected
  <1>3. /\ IsFiniteSet(C \cup {q})
        /\ Cardinality(C \cup {q}) = IF q \in C THEN Cardinality(C) ELSE Cardinality(C) + 1
    <2>1. IsFiniteSet(C) BY <1>1
    <2> HIDE DEF C
    <2> QED BY <2>1, FS_AddElement
  <1>4. Cardinality(Connected') =< Cardinality(Connected \cup {q}) /\ Cardinality(Connected') \in Nat
    BY <1>2, <1>3, FS_Subset, FS_CardinalityType
  <1>5. Cardinality(Connected \cup {q}) \in Nat
    BY <1>3, FS_CardinalityType
  <1> QED BY <1>1, <1>3, <1>4, <1>5, PoolAssumption

\* No request takes a connection on the way.
LEMMA PoolContinue ==
    ASSUME TypeOK, NEW q \in Requests, NEW r, Continue(q, r),
           r.connected => request[q].connected
    PROVE Cardinality(Connected') =< PoolSize
  <1>1. IsFiniteSet(Connected) /\ Cardinality(Connected) \in Nat /\ Cardinality(Connected) =< PoolSize
    BY PoolAssumption, FS_Subset, FS_CardinalityType DEF Connected, TypeOK
  <1>2. Connected' \subseteq Connected
    BY DEF Connected, Continue, TypeOK
  <1>3. Cardinality(Connected') =< Cardinality(Connected) /\ Cardinality(Connected') \in Nat
    BY <1>1, <1>2, FS_Subset, FS_CardinalityType
  <1> QED BY <1>1, <1>3, PoolAssumption

-----------------------------------------------------------------------------
(* The steps of requests in general.                                       *)

\* What the steps of one service do to requests of another: nothing.
LEMMA OthersKept ==
    ASSUME TypeOK, NEW q \in Requests, NEW x, request' = [request EXCEPT ![q] = x]
    PROVE  /\ request'[q] = x
           /\ \A r \in Requests \ {q} : request'[r] = request[r]
           /\ x \in AnyRequest => request' \in [Requests -> AnyRequest]
  BY DEF TypeOK

\* The part of TypeOK about requests, the pool and the bound.
RequestTypes ==
    /\ request \in [Requests -> AnyRequest]
    /\ served \in 0..MaxRequests
    /\ Cardinality(Connected) =< PoolSize

\* A new request keeps the pool and the types.
LEMMA BeginTypes ==
    ASSUME TypeOK, NEW q \in Requests, NEW x \in AnyRequest, Begin(q, x)
    PROVE  RequestTypes' /\ served + 1 \in 1..MaxRequests
  <1>1. Cardinality(Connected)' =< PoolSize
    BY PoolBegin
  <1>2. request' \in [Requests -> AnyRequest]
    BY OthersKept DEF Begin
  <1> QED BY <1>1, <1>2, PoolAssumption DEF RequestTypes, TypeOK, Begin

\* So does one that goes on,
LEMMA ContinueTypes ==
    ASSUME TypeOK, NEW q \in Requests, NEW x \in AnyRequest, Continue(q, x),
           x.connected => request[q].connected
    PROVE  RequestTypes'
  <1>1. Cardinality(Connected)' =< PoolSize
    BY PoolContinue
  <1>2. request' \in [Requests -> AnyRequest]
    BY OthersKept DEF Continue
  <1> QED BY <1>1, <1>2 DEF RequestTypes, TypeOK, Continue

\* and one that ends.
LEMMA EndTypes ==
    ASSUME TypeOK, NEW q \in Requests, End(q)
    PROVE  RequestTypes'
  BY ContinueTypes, IdleIs DEF End


\* The requests of other services are kept.
Kept(kind) ==
    /\ \A q \in Requests : \/ request'[q] = request[q]
                           \/ request'[q] = Idle
                           \/ request'[q].kind = kind
    /\ served' \in {served, served + 1}

\* The same three, with what they keep of other requests.
LEMMA StepBegins ==
    ASSUME TypeOK, NEW q \in Requests, NEW x \in AnyRequest, Begin(q, x), NEW kind,
           x.kind = kind
    PROVE  RequestTypes' /\ Kept(kind)
  BY BeginTypes, OthersKept DEF Begin, Kept

LEMMA StepContinues ==
    ASSUME TypeOK, NEW q \in Requests, NEW x \in AnyRequest, Continue(q, x),
           x.connected => request[q].connected, NEW kind, x.kind = kind
    PROVE  RequestTypes' /\ Kept(kind)
  BY ContinueTypes, OthersKept DEF Continue, Kept

LEMMA StepEnds ==
    ASSUME TypeOK, NEW q \in Requests, End(q), NEW kind
    PROVE  RequestTypes' /\ Kept(kind)
  BY EndTypes, OthersKept DEF End, Continue, Kept

LEMMA StepElsewhere ==
    ASSUME TypeOK, UNCHANGED <<request, served>>, NEW kind
    PROVE  RequestTypes' /\ Kept(kind)
  BY DEF RequestTypes, TypeOK, Kept, Connected

-----------------------------------------------------------------------------
(* Conversations.                                                          *)

\* A turn goes on.
LEMMA TurnContinues ==
    ASSUME TypeOK, NEW q \in Requests, NEW x \in TurnRequest, Continue(q, x),
           request[q].kind = "turn"
    PROVE  RequestTypes' /\ Kept("turn")
  <1>1. request[q] \in TurnRequest
    BY OfKind DEF TypeOK
  <1>2. x \in AnyRequest /\ x.kind = "turn" /\ request[q].connected
    BY <1>1, Kinds DEF AnyRequest, TurnRequest
  <1> QED BY <1>2, StepContinues

\* A turn begins.
LEMMA TurnBegins ==
    ASSUME TypeOK, NEW q \in Requests, NEW screen \in BOOLEAN, BeginTurn(q, screen)
    PROVE  RequestTypes' /\ Kept("turn") /\ request'[q] \in TurnRequest
  <1> DEFINE x == [kind |-> "turn", step |-> "begun", connected |-> TRUE,
                   turn |-> served + 1, screen |-> screen,
                   vessel |-> screen \/ conversation.vessel,
                   searched |-> FALSE, calls |-> 0, outputs |-> {}, prior |-> {}]
  <1>1. Begin(q, x)
    BY Zenon DEF BeginTurn
  <1>2. served + 1 \in 1..MaxRequests
    BY <1>1, PoolAssumption DEF Begin, TypeOK
  <1>3. (screen \/ conversation.vessel) \in BOOLEAN
    OBVIOUS
  <1>4. x \in TurnRequest
    BY <1>2, <1>3, HistoryAssumption DEF TurnRequest
  <1>5. x \in AnyRequest /\ x.kind = "turn"
    BY <1>4 DEF AnyRequest
  <1>6. request'[q] = x
    <2>1. request' = [request EXCEPT ![q] = x]
      BY <1>1 DEF Begin
    <2> QED BY <2>1, OthersKept
  <1> HIDE DEF x
  <1> QED BY <1>1, <1>4, <1>5, <1>6, StepBegins

\* The place of the last row, if there is one.
LEMMA LastPlace ==
    ASSUME TypeOK, NEW n \in Nat, \A m \in messages : m.at =< n
    PROVE  \E at \in 0..n : /\ at = Max({m.at : m \in messages} \cup {0})
                            /\ \A m \in messages : m.at =< at
  <1> DEFINE sent == {m.at : m \in messages} \cup {0}
  <1>1. \A m \in messages : m.at \in 0..n
    BY DEF TypeOK, ConversationsType, Message
  <1>2. sent \in SUBSET (0..n) /\ sent # {}
    BY <1>1
  <1>3. Max(sent) \in 0..n /\ \A m \in messages : m.at =< Max(sent)
    BY <1>2, MaxIsGreatest
  <1> QED BY <1>3

\* A row is added after all others.
LEMMA MessageAdded ==
    ASSUME TypeOK, NEW turn \in 1..MaxRequests, NEW role \in {"question", "answer"},
           NEW figures \in SUBSET Figures, NEW tools \in SUBSET Figures,
           NEW n \in Nat, \A m \in messages : m.at =< n,
           AddMessage(turn, role, figures, tools)
    PROVE  \E at \in 0..n :
              /\ \A m \in messages : m.at =< at
              /\ messages' = messages \cup
                     {[at |-> at + 1, turn |-> turn, role |-> role, figures |-> figures,
                       tools |-> tools]}
              /\ messages' \subseteq Message
  <1>1. PICK last \in 0..n : /\ last = Max({m.at : m \in messages} \cup {0})
                             /\ \A m \in messages : m.at =< last
    BY LastPlace
  <1> DEFINE row == [at |-> last + 1, turn |-> turn, role |-> role, figures |-> figures,
                     tools |-> tools]
  <1>2. messages' = messages \cup {row}
    BY <1>1, Zenon DEF AddMessage
  <1>3. row \in Message
    BY <1>1 DEF Message
  <1>4. messages' \subseteq Message
    BY <1>2, <1>3 DEF TypeOK, ConversationsType
  <1> QED BY <1>1, <1>2, <1>4

\* The history gives figures of stored answers.
LEMMA PriorIsFigures ==
    ASSUME TypeOK, NEW q \in Requests
    PROVE  PriorFigures(q) \in SUBSET UNION {m.figures : m \in {m \in messages : m.role = "answer"}}
  BY Zenon DEF PriorFigures, Window, Visible

\* What anybody names in a message is figures.
LEMMA NamedFigures ==
    Named(Originals) \subseteq SUBSET Figures /\ Named(Figures) \subseteq SUBSET Figures
  <1>1. Named(Originals) \subseteq SUBSET Originals /\ Named(Figures) \subseteq SUBSET Figures
    BY Zenon DEF Named
  <1> QED BY <1>1, FiguresAssumption

\* Those are figures.
LEMMA FiguresOfMessages ==
    ASSUME TypeOK
    PROVE  UNION {m.figures : m \in {m \in messages : m.role = "answer"}} \in SUBSET Figures
  BY DEF TypeOK, ConversationsType, Message

\* Steps of the conversation keep the types of requests.
LEMMA TurnTypes ==
    ASSUME TypeOK, ConversationsNext
    PROVE  RequestTypes' /\ Kept("turn") /\ conversation' \in Conversation
  <1> DEFINE Goal == RequestTypes' /\ Kept("turn") /\ conversation' \in Conversation
  <1>c. conversation \in Conversation
    BY DEF TypeOK, ConversationsType
  <1>r. \A q \in Requests : request[q].kind = "turn" => request[q] \in TurnRequest
    BY OfKind DEF TypeOK
  <1>1. CASE Expire
    <2>1. conversation' \in Conversation BY <1>1, <1>c DEF Expire, Conversation
    <2> QED BY <1>1, <2>1, StepElsewhere DEF Expire
  <1>2. CASE Delete
    <2>1. conversation' \in Conversation BY <1>2 DEF Delete, Conversation
    <2> QED BY <1>2, <2>1, StepElsewhere DEF Delete
  <1>3. ASSUME NEW q \in Requests, NEW screen \in BOOLEAN, BeginTurn(q, screen) PROVE Goal
    <2>1. conversation' \in Conversation
      BY <1>3, <1>c DEF BeginTurn, Conversation
    <2> QED BY <1>3, <2>1, TurnBegins
  <1>4. ASSUME NEW q \in Requests, End(q), conversation' \in Conversation PROVE Goal
    BY <1>4, StepEnds
  <1>5. ASSUME NEW q \in Requests, request[q] \in TurnRequest, Commit(q) PROVE Goal
    <2>1. conversation' \in Conversation
      BY <1>5, <1>c DEF Commit, Conversation, TurnRequest
    <2> QED BY <1>4, <1>5, <2>1 DEF Commit
  <1>6. ASSUME NEW q \in Requests, RollBack(q) PROVE Goal
    <2>1. conversation' \in Conversation
      BY <1>6, <1>c DEF RollBack, Conversation
    <2> QED BY <1>4, <1>6, <2>1 DEF RollBack
  <1>7. ASSUME NEW q \in Requests, Refuse(q) PROVE Goal
    BY <1>4, <1>7, <1>c DEF Refuse
  <1>8. ASSUME NEW q \in Requests, NEW x \in TurnRequest, Continue(q, x),
               request[q].kind = "turn", UNCHANGED conversation
        PROVE Goal
    BY <1>8, <1>c, TurnContinues
  <1>9. ASSUME NEW q \in Requests, ReadHistory(q) PROVE Goal
    <2>1. PriorFigures(q) \in SUBSET Figures
      BY PriorIsFigures, FiguresOfMessages
    <2>2. request[q] \in TurnRequest
      BY <1>9, <1>r DEF ReadHistory, Doing
    <2>3. [request[q] EXCEPT !.step = "thinking", !.prior = PriorFigures(q)] \in TurnRequest
      BY <2>1, <2>2 DEF TurnRequest
    <2> QED BY <1>8, <1>9, <2>3, Zenon DEF ReadHistory, Doing
  <1>10. ASSUME NEW q \in Requests, SearchVessel(q) PROVE Goal
    <2>1. request[q] \in TurnRequest /\ request[q].calls < MaxTools
      BY <1>10, <1>r DEF SearchVessel, Doing
    <2>2. request[q].calls + 1 \in 0..MaxTools
      <3>1. request[q].calls \in 0..MaxTools
        BY <2>1 DEF TurnRequest
      <3> QED BY <2>1, <3>1, HistoryAssumption
    <2>3. [request[q] EXCEPT !.calls = @ + 1, !.vessel = TRUE, !.searched = TRUE] \in TurnRequest
      BY <2>1, <2>2 DEF TurnRequest
    <2> QED BY <1>8, <1>10, <2>3, Zenon DEF SearchVessel, Doing
  <1>11. ASSUME NEW q \in Requests, NEW figures \in SUBSET Figures, AddQuestion(q, figures)
         PROVE Goal
    <2>1. request[q] \in TurnRequest
      BY <1>11, <1>r DEF AddQuestion, Doing
    <2>2. [request[q] EXCEPT !.step = "asked"] \in TurnRequest
      BY <2>1 DEF TurnRequest
    <2> QED BY <1>8, <1>11, <2>2, Zenon DEF AddQuestion, Doing
  <1>12. ASSUME NEW q \in Requests, NEW returned \in SUBSET Figures, GoDirect(q, returned)
         PROVE Goal
    <2>1. [request[q] EXCEPT !.step = "direct", !.outputs = returned] \in TurnRequest
      BY <1>12, <1>r DEF GoDirect, Doing, TurnRequest
    <2> QED BY <1>8, <1>12, <2>1, Zenon DEF GoDirect, Doing
  <1>13. ASSUME NEW q \in Requests, NEW returned \in SUBSET Figures, CallTool(q, returned)
         PROVE Goal
    <2>1. request[q] \in TurnRequest /\ request[q].calls < MaxTools
      BY <1>13, <1>r DEF CallTool, Doing
    <2>2. request[q].calls + 1 \in 0..MaxTools
      <3>1. request[q].calls \in 0..MaxTools
        BY <2>1 DEF TurnRequest
      <3> QED BY <2>1, <3>1, HistoryAssumption
    <2>3. [request[q] EXCEPT !.calls = @ + 1, !.outputs = @ \cup returned] \in TurnRequest
      BY <2>1, <2>2 DEF TurnRequest
    <2> QED BY <1>8, <1>13, <2>3, Zenon DEF CallTool, Doing
  <1>14. ASSUME NEW q \in Requests, Discard(q) \/ TimeOut(q) \/ DeadlockVictim(q)
         PROVE Goal
    BY <1>5, <1>6, <1>14, <1>r DEF Discard, TimeOut, DeadlockVictim, MaySearch, Doing, Turns
  <1>15. ASSUME NEW q \in Requests, NEW figures \in SUBSET Figures,
                Reply(q, figures) \/ AnswerDirectly(q, figures)
         PROVE Goal
    BY <1>5, <1>15, <1>r DEF Reply, AnswerDirectly, StoreAnswer, Doing
  <1> QED BY <1>1, <1>2, <1>3, <1>7, <1>9, <1>10, <1>11, <1>12, <1>13, <1>14, <1>15,
             NamedFigures
          DEF ConversationsNext

-----------------------------------------------------------------------------
(* Rounding.                                                               *)

\* Division leaves a remainder less than the divisor.
LEMMA Divided ==
    ASSUME NEW a \in Nat, NEW b \in Nat \ {0}
    PROVE  /\ a \div b \in Nat /\ a % b \in 0..(b - 1)
           /\ a = b * (a \div b) + (a % b)
  OBVIOUS

\* What it leaves none of is a multiple,
LEMMA Divisible ==
    ASSUME NEW a \in Nat, NEW b \in Nat \ {0}, a % b = 0
    PROVE  \E n \in Nat : a = b * n
  <1>1. PICK n \in Nat : n = a \div b
    BY Divided
  <1>2. a = b * (a \div b) + (a % b)
    BY Divided
  <1>3. b * n \in Nat
    OBVIOUS
  <1>4. a = b * n + 0
    BY <1>1, <1>2
  <1> QED BY <1>3, <1>4

\* and of a multiple it leaves none.
LEMMA Multiple ==
    ASSUME NEW k \in Nat, NEW b \in Nat \ {0}
    PROVE  (k * b) % b = 0
  OBVIOUS

\* Rounding gives a multiple that is at most half a unit away.
LEMMA RoundedNear ==
    ASSUME NEW x \in Nat, NEW q \in Nat \ {0}
    PROVE  \E k \in Nat : /\ Rounded(x, q) = k * q
                          /\ 2 * (k * q) =< 2 * x + q
                          /\ 2 * x < 2 * (k * q) + q
  <1>0. PICK a \in Nat, b \in Nat \ {0} : a = 2 * x + q /\ b = 2 * q
    OBVIOUS
  <1>1. PICK k \in Nat : k = a \div b
    BY Divided
  <1>a. PICK m \in 0..(b - 1) : a = b * (a \div b) + m
    BY Divided
  <1>b. a = b * k + m
    BY <1>1, <1>a
  <1>2. 2 * x + q = (2 * q) * k + m /\ m \in 0..(2 * q - 1)
    BY <1>0, <1>b
  <1>3. (2 * q) * k = 2 * (k * q)
    OBVIOUS
  <1>4. Rounded(x, q) = k * q
    BY <1>0, <1>1 DEF Rounded
  <1>5. k * q \in Nat
    OBVIOUS
  <1>6. 2 * (k * q) =< 2 * x + q /\ 2 * x < 2 * (k * q) + q
    BY <1>2, <1>3, <1>5
  <1> QED BY <1>4, <1>6

\* What is a multiple of the unit stays.
LEMMA RoundedSame ==
    ASSUME NEW n \in Nat, NEW q \in Nat \ {0}
    PROVE  Rounded(n * q, q) = n * q
  <1>1. n * q \in Nat
    OBVIOUS
  <1>2. PICK k \in Nat : /\ Rounded(n * q, q) = k * q
                         /\ 2 * (k * q) =< 2 * (n * q) + q
                         /\ 2 * (n * q) < 2 * (k * q) + q
    BY <1>1, RoundedNear
  <1>3. ASSUME k > n PROVE FALSE
    <2>1. PICK d \in Nat : k = n + 1 + d
      BY <1>3
    <2>2. k * q = n * q + q + d * q /\ d * q \in Nat
      BY <2>1
    <2> QED BY <1>1, <1>2, <2>2
  <1>4. ASSUME n > k PROVE FALSE
    <2>1. PICK d \in Nat : n = k + 1 + d
      BY <1>4
    <2>2. n * q = k * q + q + d * q /\ d * q \in Nat /\ k * q \in Nat
      BY <2>1
    <2> QED BY <1>2, <2>2
  <1> QED BY <1>2, <1>3, <1>4

\* So is a multiple of a coarser unit.
LEMMA CoarserSame ==
    ASSUME NEW x \in Nat, NEW p \in Nat \ {0}, NEW q \in Nat \ {0},
           x % q = 0, q % p = 0
    PROVE  Rounded(x, p) = x
  <1>1. PICK n \in Nat : x = q * n
    BY Divisible
  <1>2. PICK m \in Nat : q = p * m
    BY Divisible
  <1>3. x = (m * n) * p /\ m * n \in Nat
    BY <1>1, <1>2
  <1> QED BY <1>3, RoundedSame

\* Rounding again to a finer place changes nothing; to a coarser place it moves
\* by half of that place at most, and what was off before is 5/9 of a place that
\* is worth a tenth at most: 1/2 + 1/18 = 5/9.
LEMMA NearRounded ==
    ASSUME NEW t \in Nat, NEW g \in Nat, NEW p \in Quanta, Near(t, g)
    PROVE  Near(t, Rounded(g, p))
  <1>1. p \in Nat \ {0}
    BY FiguresAssumption
  <1>2. PICK k \in Nat : /\ Rounded(g, p) = k * p
                         /\ 2 * (k * p) =< 2 * g + p
                         /\ 2 * g < 2 * (k * p) + p
    BY <1>1, RoundedNear
  <1>3. PICK f \in Nat : /\ f = Rounded(g, p) /\ f % p = 0
                         /\ 2 * f =< 2 * g + p /\ 2 * g < 2 * f + p
    BY <1>1, <1>2, Multiple
  <1>4. CASE g = t
    <2>1. 9 * (f - t) =< 5 * p /\ 9 * (t - f) =< 5 * p
      BY <1>1, <1>3, <1>4
    <2> QED BY <1>3, <2>1 DEF Near
  <1>5. ASSUME NEW q \in Quanta, g % q = 0, 9 * (g - t) =< 5 * q, 9 * (t - g) =< 5 * q
        PROVE  Near(t, Rounded(g, p))
    <2>1. q \in Nat \ {0}
      BY FiguresAssumption
    <2>2. CASE p > q
      <3>1. p % (10 * q) = 0 /\ 10 * q \in Nat \ {0}
        BY <2>1, <2>2, FiguresAssumption
      <3>2. PICK n \in Nat : p = (10 * q) * n
        BY <1>1, <3>1, Divisible
      <3>3. n >= 1
        BY <1>1, <2>1, <3>2
      <3>4. PICK d \in Nat : n = 1 + d
        BY <3>3
      <3>5. p = 10 * q + 10 * (q * d) /\ q * d \in Nat
        BY <2>1, <3>2, <3>4
      <3>6. 10 * q =< p
        BY <2>1, <3>5
      <3>7. 9 * (f - t) =< 5 * p /\ 9 * (t - f) =< 5 * p
        BY <1>1, <1>3, <1>5, <2>1, <3>6
      <3> QED BY <1>3, <3>7 DEF Near
    <2>3. CASE p = q
      <3>1. PICK n \in Nat : g = p * n
        BY <1>1, <1>5, <2>3, Divisible
      <3>2. Rounded(g, p) = g
        BY <1>1, <3>1, RoundedSame
      <3> QED BY <1>5, <3>2 DEF Near
    <2>4. CASE p < q
      <3>1. q % (10 * p) = 0 /\ 10 * p \in Nat \ {0}
        BY <1>1, <2>4, FiguresAssumption
      <3>2. PICK n \in Nat : q = (10 * p) * n
        BY <2>1, <3>1, Divisible
      <3>3. q = (10 * n) * p /\ 10 * n \in Nat
        BY <1>1, <3>2
      <3>4. q % p = 0
        BY <1>1, <3>3, Multiple
      <3>5. Rounded(g, p) = g
        BY <1>1, <1>5, <2>1, <3>4, CoarserSame
      <3> QED BY <1>5, <3>5 DEF Near
    <2> QED BY <1>1, <2>1, <2>2, <2>3, <2>4
  <1> QED BY <1>4, <1>5 DEF Near

\* So all that is admitted for figures near some given ones is near those.
LEMMA GroundedForms ==
    ASSUME NEW figures \in SUBSET Nat, NEW given \in SUBSET Nat, Grounded(figures, given)
    PROVE  Grounded(RoundedForms(figures), given)
  <1> SUFFICES ASSUME NEW f \in RoundedForms(figures)
               PROVE  \E g \in given : Near(g, f)
    BY DEF Grounded
  <1>1. CASE f \in figures
    BY <1>1 DEF Grounded
  <1>2. ASSUME NEW h \in figures, NEW p \in Quanta, f = Rounded(h, p)
        PROVE  \E g \in given : Near(g, f)
    <2>1. PICK g \in given : Near(g, h)
      BY DEF Grounded
    <2> QED BY <1>2, <2>1, NearRounded
  <1> QED BY <1>1, <1>2 DEF RoundedForms

-----------------------------------------------------------------------------
(* What answers quote.                                                     *)

Returned(rows) == UNION {m.tools : m \in rows}

\* A turn that may still be rolled back.
OpenTurn(q) ==
    /\ request[q].turn =< served
    /\ \A r \in Turns \ {q} : request[r].turn # request[q].turn
    /\ \A m \in messages : m.turn = request[q].turn => m.role = "question"
    /\ Grounded(request[q].prior, Returned(messages))
    /\ request[q].step = "begun" => request[q].prior = {}

\* Why AnswersAreGrounded is kept: what a turn takes from the history is near
\* what was returned by a tool whose row stays while the turn lasts, since the
\* rows of a turn that can still be rolled back are questions.
Grounding ==
    /\ AnswersAreGrounded
    /\ \E n \in Nat : \A m \in messages : m.at =< n
    /\ \A m \in messages : m.turn =< served /\ (m.role = "question" => m.tools = {})
    /\ \A q \in Turns : OpenTurn(q)

\* The figures of an answer, one by one.
LEMMA AnswersOneByOne ==
    /\ AnswersAreGrounded <=>
           \A m \in messages : m.role = "answer" => \A f \in m.figures :
               \E n \in messages : n.at =< m.at /\ \E g \in n.tools : Near(g, f)
    /\ AnswersAreGrounded' <=>
           \A m \in messages' : m.role = "answer" => \A f \in m.figures :
               \E n \in messages' : n.at =< m.at /\ \E g \in n.tools : Near(g, f)
  BY DEF AnswersAreGrounded, Grounded

\* A step of another service, or of the conversation as a whole.
LEMMA GroundingElsewhere ==
    ASSUME TypeOK, Grounding, UNCHANGED messages, NEW kind, Kept(kind),
           kind # "turn"
    PROVE  Grounding'
  <1>1. \A q \in Turns' : q \in Turns /\ request'[q] = request[q]
    BY Kinds DEF Turns, Kept
  <1>2. served \in Nat /\ served' \in Nat /\ served =< served'
    BY DEF TypeOK, Kept
  <1>3. \A m \in messages : m.turn =< served => m.turn =< served'
    BY <1>2 DEF TypeOK, ConversationsType, Message
  <1>4. \A q \in Turns' : request[q].turn =< served => request[q].turn =< served'
    <2> SUFFICES ASSUME NEW q \in Turns' PROVE request[q].turn \in Nat
      BY <1>2
    <2>1. request[q] \in TurnRequest
      BY <1>1, OfKind DEF Turns, TypeOK
    <2>2. request[q].turn \in 1..MaxRequests
      BY <2>1 DEF TurnRequest
    <2> QED BY <2>2, PoolAssumption
  <1> QED BY <1>1, <1>3, <1>4 DEF Grounding, OpenTurn, AnswersAreGrounded, Grounded

\* A turn goes on and adds no row.
LEMMA GroundingContinues ==
    ASSUME TypeOK, Grounding, NEW q \in Turns, NEW x, Continue(q, x), UNCHANGED messages,
           x.kind = "turn", x.turn = request[q].turn, x.step # "begun",
           Grounded(x.prior, Returned(messages))
    PROVE  Grounding'
  <1>1. Turns' = Turns /\ UNCHANGED served
    BY OthersKept DEF Turns, Continue
  <1>2. \A r \in Turns' : request'[r].turn = request[r].turn
    BY OthersKept DEF Turns, Continue
  <1>3. request'[q] = x /\ \A r \in Turns \ {q} : request'[r] = request[r]
    BY OthersKept DEF Turns, Continue
  <1> QED BY <1>1, <1>2, <1>3 DEF Grounding, OpenTurn, AnswersAreGrounded, Grounded

\* What an end leaves of the turns.
LEMMA TurnsAfterEnd ==
    ASSUME TypeOK, NEW q \in Requests, End(q)
    PROVE  /\ Turns' = Turns \ {q} /\ UNCHANGED served
           /\ \A r \in Turns' : request'[r] = request[r]
  <1>1. request' = [request EXCEPT ![q] = Idle] /\ UNCHANGED served
    BY DEF End, Continue
  <1>2. request'[q].kind # "turn" /\ \A r \in Requests \ {q} : request'[r] = request[r]
    BY <1>1, OthersKept, Kinds
  <1> QED BY <1>1, <1>2 DEF Turns

\* A turn ends, and what it stored stays.
LEMMA GroundingEnds ==
    ASSUME TypeOK, Grounding, NEW q \in Turns, End(q), UNCHANGED messages
    PROVE  Grounding'
  <1>1. q \in Requests BY DEF Turns
  <1> QED BY <1>1, TurnsAfterEnd DEF Grounding, OpenTurn, AnswersAreGrounded, Grounded

\* A turn ends, and its rows, which are questions, go.
LEMMA GroundingRollsBack ==
    ASSUME TypeOK, Grounding, NEW q \in Turns, End(q),
           messages' = {m \in messages : m.turn # request[q].turn}
    PROVE  Grounding'
  <1>1. q \in Requests BY DEF Turns
  <1>2. messages' \subseteq messages
    OBVIOUS
  <1>3. \A m \in messages : m \in messages' \/ (m.role = "question" /\ m.tools = {})
    BY DEF Grounding, OpenTurn
  <1>4. Returned(messages') = Returned(messages)
    BY <1>2, <1>3 DEF Returned
  <1>5. AnswersAreGrounded'
    <2> SUFFICES ASSUME NEW m \in messages', m.role = "answer", NEW f \in m.figures
                 PROVE  \E n \in messages' : n.at =< m.at /\ \E g \in n.tools : Near(g, f)
      BY AnswersOneByOne
    <2>1. PICK n \in messages : n.at =< m.at /\ \E g \in n.tools : Near(g, f)
      BY AnswersOneByOne DEF Grounding
    <2> QED BY <2>1, <1>3
  <1>6. \A r \in Turns' : OpenTurn(r)'
    <2> SUFFICES ASSUME NEW r \in Turns' PROVE OpenTurn(r)'
      OBVIOUS
    <2>1. r \in Turns /\ OpenTurn(r) /\ request'[r] = request[r] /\ UNCHANGED served
      BY <1>1, TurnsAfterEnd DEF Grounding
    <2>2. \A t \in Turns' \ {r} : request'[t].turn # request'[r].turn
      BY <1>1, <2>1, TurnsAfterEnd DEF OpenTurn, Grounded
    <2> QED BY <1>2, <1>4, <2>1, <2>2 DEF OpenTurn
  <1> QED BY <1>1, <1>2, <1>5, <1>6, TurnsAfterEnd DEF Grounding

\* A turn ends with an answer.
LEMMA GroundingAnswers ==
    ASSUME TypeOK, Grounding, NEW q \in Turns, NEW figures \in SUBSET Figures,
           request[q] \in TurnRequest,
           StoreAnswer(q, figures),
           figures \subseteq RoundedForms(request[q].outputs \cup request[q].prior)
    PROVE  Grounding'
  <1>1. q \in Requests /\ End(q) BY DEF Turns, StoreAnswer, Commit
  <1>2. PICK n \in Nat : \A m \in messages : m.at =< n
    BY DEF Grounding
  <1>3. PICK at \in 0..n :
              /\ \A m \in messages : m.at =< at
              /\ messages' = messages \cup
                     {[at |-> at + 1, turn |-> request[q].turn, role |-> "answer",
                       figures |-> figures, tools |-> request[q].outputs]}
    <2>1. AddMessage(request[q].turn, "answer", figures, request[q].outputs)
      BY DEF StoreAnswer
    <2>2. PICK at \in 0..n : /\ at = Max({m.at : m \in messages} \cup {0})
                             /\ \A m \in messages : m.at =< at
      BY <1>2, LastPlace
    <2>3. messages' = messages \cup
              {[at |-> at + 1, turn |-> request[q].turn, role |-> "answer",
                figures |-> figures, tools |-> request[q].outputs]}
      BY <2>1, <2>2, Zenon DEF AddMessage
    <2> QED BY <2>2, <2>3
  <1> DEFINE row == [at |-> at + 1, turn |-> request[q].turn, role |-> "answer",
                     figures |-> figures, tools |-> request[q].outputs]
  <1>4. \A m \in messages' : m.at \in Nat /\ m.at =< at + 1
    BY <1>3 DEF TypeOK, ConversationsType, Message
  <1>5. Returned(messages) \subseteq Returned(messages')
    BY <1>3 DEF Returned
  <1>6. Grounded(figures, Returned(messages'))
    <2>1. row \in messages'
      BY <1>3
    <2>2. request[q].outputs \subseteq Returned(messages')
      BY <2>1 DEF Returned
    <2>3. Grounded(request[q].prior, Returned(messages'))
      BY <1>5 DEF Grounding, OpenTurn, Grounded
    <2>4. Grounded(request[q].outputs \cup request[q].prior, Returned(messages'))
      BY <2>2, <2>3 DEF Grounded, Near
    <2>5. request[q].outputs \cup request[q].prior \in SUBSET Nat
      BY FiguresAssumption DEF TurnRequest
    <2>6. Returned(messages') \in SUBSET Nat
      <3>1. \A m \in messages : m.tools \in SUBSET Figures
        BY DEF TypeOK, ConversationsType, Message
      <3>2. \A m \in messages' : m.tools \in SUBSET Figures
        <4>1. request[q].outputs \in SUBSET Figures
          BY DEF TurnRequest
        <4> QED BY <1>3, <3>1, <4>1
      <3> QED BY <3>2, FiguresAssumption DEF Returned
    <2>7. Grounded(RoundedForms(request[q].outputs \cup request[q].prior), Returned(messages'))
      BY <2>4, <2>5, <2>6, GroundedForms
    <2> QED BY <2>7 DEF Grounded
  <1>7. AnswersAreGrounded'
    <2> SUFFICES ASSUME NEW m \in messages', m.role = "answer", NEW f \in m.figures
                 PROVE  \E k \in messages' : k.at =< m.at /\ \E g \in k.tools : Near(g, f)
      BY AnswersOneByOne
    <2>1. CASE m \in messages
      BY <1>3, <2>1, AnswersOneByOne DEF Grounding
    <2>2. CASE m = row
      BY <1>4, <1>6, <2>2 DEF Grounded, Returned
    <2> QED BY <1>3, <2>1, <2>2
  <1>8. at + 1 \in Nat
    OBVIOUS
  <1>9. \A m \in messages' : m.turn =< served /\ (m.role = "question" => m.tools = {})
    BY <1>3 DEF Grounding, OpenTurn
  <1>10. \A r \in Turns' : OpenTurn(r)'
    <2> SUFFICES ASSUME NEW r \in Turns' PROVE OpenTurn(r)'
      OBVIOUS
    <2>1. r \in Turns \ {q} /\ request'[r] = request[r]
      BY <1>1, TurnsAfterEnd
    <2>2. OpenTurn(r) /\ request[r].turn # request[q].turn
      BY <2>1 DEF Grounding, OpenTurn
    <2>3. \A m \in messages' : m.turn = request[r].turn => m.role = "question"
      BY <1>3, <2>2 DEF OpenTurn
    <2>4. \A t \in Turns' \ {r} : request'[t].turn # request'[r].turn
      BY <1>1, <2>1, <2>2, TurnsAfterEnd DEF OpenTurn, Grounded
    <2> QED BY <1>1, <1>5, <2>1, <2>2, <2>3, <2>4, TurnsAfterEnd DEF OpenTurn, Grounded
  <1>11. served' = served
    BY <1>1, TurnsAfterEnd
  <1> QED BY <1>4, <1>7, <1>8, <1>9, <1>10, <1>11 DEF Grounding

\* A turn stores its question.
LEMMA GroundingAsks ==
    ASSUME TypeOK, Grounding, NEW q \in Turns, NEW typed \in SUBSET Figures,
           request[q] \in TurnRequest, AddQuestion(q, typed)
    PROVE  Grounding'
  <1> DEFINE x == [request[q] EXCEPT !.step = "asked"]
  <1>1. Continue(q, x) /\ AddMessage(request[q].turn, "question", typed, {})
    BY Zenon DEF AddQuestion
  <1>2. PICK n \in Nat : \A m \in messages : m.at =< n
    BY DEF Grounding
  <1>3. PICK at \in 0..n :
              /\ \A m \in messages : m.at =< at
              /\ messages' = messages \cup
                     {[at |-> at + 1, turn |-> request[q].turn, role |-> "question",
                       figures |-> typed, tools |-> {}]}
    <2>1. PICK at \in 0..n : /\ at = Max({m.at : m \in messages} \cup {0})
                             /\ \A m \in messages : m.at =< at
      BY <1>2, LastPlace
    <2>2. messages' = messages \cup
              {[at |-> at + 1, turn |-> request[q].turn, role |-> "question",
                figures |-> typed, tools |-> {}]}
      BY <1>1, <2>1, Zenon DEF AddMessage
    <2> QED BY <2>1, <2>2
  <1>4. /\ at + 1 \in Nat
        /\ \A m \in messages' : m.at =< at + 1
    BY <1>3 DEF TypeOK, ConversationsType, Message
  <1>5. Returned(messages') = Returned(messages)
    BY <1>3 DEF Returned
  <1>6. AnswersAreGrounded'
    <2> SUFFICES ASSUME NEW m \in messages', m.role = "answer", NEW f \in m.figures
                 PROVE  \E k \in messages' : k.at =< m.at /\ \E g \in k.tools : Near(g, f)
      BY AnswersOneByOne
    <2> QED BY <1>3, AnswersOneByOne DEF Grounding
  <1>7. \A m \in messages' : m.turn =< served /\ (m.role = "question" => m.tools = {})
    BY <1>3 DEF Grounding, OpenTurn
  <1>8. x.kind = "turn" /\ x.turn = request[q].turn /\ x.prior = request[q].prior /\ x.step # "begun"
    BY DEF TurnRequest
  <1>9. Turns' = Turns /\ UNCHANGED served
    BY <1>1, <1>8, OthersKept DEF Turns, Continue
  <1>10. request'[q] = x /\ \A r \in Turns \ {q} : request'[r] = request[r]
    BY <1>1, OthersKept DEF Turns, Continue
  <1>11. \A r \in Turns' : request'[r].turn = request[r].turn
    BY <1>8, <1>9, <1>10
  <1>12. \A r \in Turns', m \in messages' :
            m.turn = request'[r].turn => m.role = "question"
    BY <1>3, <1>9, <1>11 DEF Grounding, OpenTurn
  <1>13. \A r \in Turns' : OpenTurn(r)'
    <2> SUFFICES ASSUME NEW r \in Turns' PROVE OpenTurn(r)'
      OBVIOUS
    <2>1. OpenTurn(r)
      BY <1>9 DEF Grounding
    <2>2. request'[r].prior = request[r].prior
      BY <1>8, <1>9, <1>10
    <2>3. request'[r].step = "begun" => request[r].step = "begun"
      BY <1>8, <1>9, <1>10
    <2> QED BY <1>5, <1>9, <1>11, <1>12, <2>1, <2>2, <2>3 DEF OpenTurn
  <1> QED BY <1>4, <1>6, <1>7, <1>9, <1>13 DEF Grounding

\* A turn begins, with a number no row has.
LEMMA GroundingBegins ==
    ASSUME TypeOK, Grounding, NEW q \in Requests, NEW screen \in BOOLEAN,
           BeginTurn(q, screen)
    PROVE  Grounding'
  <1> DEFINE x == [kind |-> "turn", step |-> "begun", connected |-> TRUE,
                   turn |-> served + 1, screen |-> screen,
                   vessel |-> screen \/ conversation.vessel,
                   searched |-> FALSE, calls |-> 0, outputs |-> {}, prior |-> {}]
  <1>1. Begin(q, x) /\ UNCHANGED messages
    BY Zenon DEF BeginTurn
  <1>2. x.kind = "turn" /\ x.turn = served + 1 /\ x.prior = {}
    OBVIOUS
  <1> HIDE DEF x
  <1>3. request'[q] = x /\ \A r \in Requests \ {q} : request'[r] = request[r]
    <2>1. request' = [request EXCEPT ![q] = x]
      BY <1>1 DEF Begin
    <2> QED BY <2>1, OthersKept
  <1>4. Turns' = Turns \cup {q} /\ q \notin Turns
    <2>1. request[q].kind = "idle"
      BY <1>1, Kinds DEF Begin
    <2> QED BY <1>2, <1>3, <2>1 DEF Turns
  <1>5. served' = served + 1 /\ served \in Nat
    BY <1>1 DEF Begin, TypeOK
  <1>6. \A m \in messages : m.turn \in Nat /\ m.turn =< served
    BY PoolAssumption DEF Grounding, TypeOK, ConversationsType, Message
  <1>7. \A r \in Turns : request[r].turn \in Nat /\ request[r].turn =< served
    <2> SUFFICES ASSUME NEW r \in Turns PROVE request[r].turn \in Nat
      BY DEF Grounding, OpenTurn
    <2>1. request[r] \in TurnRequest
      BY OfKind DEF Turns, TypeOK
    <2>2. request[r].turn \in 1..MaxRequests
      BY <2>1 DEF TurnRequest
    <2> QED BY <2>2, PoolAssumption
  <1>8. OpenTurn(q)'
    BY <1>1, <1>2, <1>3, <1>4, <1>5, <1>6, <1>7 DEF OpenTurn, Grounded, Turns
  <1>9. ASSUME NEW r \in Turns PROVE OpenTurn(r)'
    <2>1. OpenTurn(r) /\ request'[r] = request[r]
      BY <1>3, <1>4 DEF Grounding, Turns
    <2>2. \A t \in Turns' \ {r} : request'[t].turn # request'[r].turn
      BY <1>2, <1>3, <1>4, <1>5, <1>7, <2>1 DEF OpenTurn, Turns
    <2>3. request'[r].turn =< served'
      BY <1>5, <1>7, <2>1
    <2> QED BY <1>1, <2>1, <2>2, <2>3 DEF OpenTurn
  <1>10. \A m \in messages' : m.turn =< served'
    BY <1>1, <1>5, <1>6
  <1> QED BY <1>1, <1>4, <1>8, <1>9, <1>10 DEF Grounding, AnswersAreGrounded

\* Every step of the conversation keeps the invariant.
LEMMA GroundingKept ==
    ASSUME TypeOK, Grounding, ConversationsNext
    PROVE  Grounding'
  <1>r. \A q \in Turns : q \in Requests /\ request[q] \in TurnRequest
    BY OfKind DEF TypeOK, Turns
  <1>1. CASE Expire
    BY <1>1, Zenon DEF Expire, Grounding, OpenTurn, AnswersAreGrounded, Grounded, Turns
  <1>2. CASE Delete
    <2>1. messages' = {} /\ UNCHANGED <<request, served>> /\ Asked = {}
      BY <1>2 DEF Delete
    <2>2. \A q \in Turns : OpenTurn(q)'
      BY <2>1 DEF Asked, Grounding, OpenTurn, Turns, Grounded
    <2> QED BY <2>1, <2>2 DEF Grounding, AnswersAreGrounded, Turns
  <1>3. ASSUME NEW q \in Requests, NEW screen \in BOOLEAN, BeginTurn(q, screen)
        PROVE  Grounding'
    BY <1>3, GroundingBegins
  <1>4. ASSUME NEW q \in Turns, Commit(q), UNCHANGED messages PROVE Grounding'
    BY <1>4, GroundingEnds DEF Commit
  <1>5. ASSUME NEW q \in Turns, RollBack(q) PROVE Grounding'
    BY <1>5, GroundingRollsBack DEF RollBack
  <1>6. ASSUME NEW q \in Requests, Refuse(q) \/ Discard(q) \/ TimeOut(q) \/ DeadlockVictim(q)
        PROVE  Grounding'
    <2>1. q \in Turns
      BY <1>6 DEF Refuse, Discard, TimeOut, DeadlockVictim, MaySearch, Doing, Turns
    <2> QED BY <1>4, <1>5, <1>6, <2>1, GroundingEnds
            DEF Refuse, Discard, TimeOut, DeadlockVictim
  <1>7. ASSUME NEW q \in Requests, ReadHistory(q) PROVE Grounding'
    <2> DEFINE x == [request[q] EXCEPT !.step = "thinking", !.prior = PriorFigures(q)]
    <2>1. q \in Turns /\ Continue(q, x) /\ UNCHANGED messages
      BY <1>7, Zenon DEF ReadHistory, Doing, Turns
    <2>2. Grounded(PriorFigures(q), Returned(messages))
      <3> SUFFICES ASSUME NEW f \in PriorFigures(q)
                   PROVE  \E g \in Returned(messages) : Near(g, f)
        BY DEF Grounded
      <3>1. PICK m \in messages : m.role = "answer" /\ f \in m.figures
        BY PriorIsFigures
      <3> QED BY <3>1, AnswersOneByOne DEF Grounding, Returned
    <2>3. x.kind = "turn" /\ x.turn = request[q].turn /\ x.step # "begun"
          /\ Grounded(x.prior, Returned(messages))
      BY <1>r, <2>1, <2>2 DEF TurnRequest
    <2> HIDE DEF x
    <2> QED BY <2>1, <2>3, GroundingContinues
  <1>8. ASSUME NEW q \in Requests, SearchVessel(q) PROVE Grounding'
    <2> DEFINE x == [request[q] EXCEPT !.calls = @ + 1, !.vessel = TRUE, !.searched = TRUE]
    <2>1. q \in Turns /\ Continue(q, x) /\ UNCHANGED messages /\ request[q].step = "thinking"
      BY <1>8, Zenon DEF SearchVessel, Doing, Turns
    <2>2. x.kind = "turn" /\ x.turn = request[q].turn /\ x.prior = request[q].prior
          /\ x.step # "begun"
      BY <1>r, <2>1 DEF TurnRequest
    <2> HIDE DEF x
    <2>3. Grounded(x.prior, Returned(messages))
      BY <2>1, <2>2 DEF Grounding, OpenTurn
    <2> QED BY <2>1, <2>2, <2>3, GroundingContinues
  <1>9. ASSUME NEW q \in Requests, NEW figures \in SUBSET Figures, AddQuestion(q, figures)
         PROVE  Grounding'
    BY <1>9, <1>r, GroundingAsks DEF AddQuestion, Doing, Turns
  <1>10. ASSUME NEW q \in Requests, NEW returned \in SUBSET Figures, GoDirect(q, returned)
         PROVE  Grounding'
    <2> DEFINE x == [request[q] EXCEPT !.step = "direct", !.outputs = returned]
    <2>1. q \in Turns /\ Continue(q, x) /\ UNCHANGED messages
      BY <1>10, Zenon DEF GoDirect, Doing, Turns
    <2>2. x.kind = "turn" /\ x.turn = request[q].turn /\ x.prior = request[q].prior
          /\ x.step # "begun"
      BY <1>r, <2>1 DEF TurnRequest
    <2> HIDE DEF x
    <2>3. Grounded(x.prior, Returned(messages))
      BY <2>1, <2>2 DEF Grounding, OpenTurn
    <2> QED BY <2>1, <2>2, <2>3, GroundingContinues
  <1>11. ASSUME NEW q \in Requests, NEW returned \in SUBSET Figures, CallTool(q, returned)
         PROVE  Grounding'
    <2> DEFINE x == [request[q] EXCEPT !.calls = @ + 1, !.outputs = @ \cup returned]
    <2>1. q \in Turns /\ Continue(q, x) /\ UNCHANGED messages /\ request[q].step = "thinking"
      BY <1>11, Zenon DEF CallTool, Doing, Turns
    <2>2. x.kind = "turn" /\ x.turn = request[q].turn /\ x.prior = request[q].prior
          /\ x.step # "begun"
      BY <1>r, <2>1 DEF TurnRequest
    <2> HIDE DEF x
    <2>3. Grounded(x.prior, Returned(messages))
      BY <2>1, <2>2 DEF Grounding, OpenTurn
    <2> QED BY <2>1, <2>2, <2>3, GroundingContinues
  <1>12. ASSUME NEW q \in Requests, NEW figures \in SUBSET Figures,
                Reply(q, figures) \/ AnswerDirectly(q, figures)
         PROVE  Grounding'
    <2>1. q \in Turns /\ StoreAnswer(q, figures)
          /\ figures \subseteq RoundedForms(request[q].outputs \cup request[q].prior)
      BY <1>12 DEF Reply, AnswerDirectly, RoundedForms, Doing, Turns
    <2> QED BY <1>r, <2>1, GroundingAnswers
  <1> QED BY <1>1, <1>2, <1>3, <1>6, <1>7, <1>8, <1>9, <1>10, <1>11, <1>12,
             NamedFigures
          DEF ConversationsNext

\* Steps of the conversation keep the types of rows.
LEMMA MessageTypes ==
    ASSUME TypeOK, Grounding, ConversationsNext
    PROVE  messages' \subseteq Message
  <1>1. messages \subseteq Message
    BY DEF TypeOK, ConversationsType
  <1>2. PICK n \in Nat : \A m \in messages : m.at =< n
    BY DEF Grounding
  <1>3. ASSUME NEW q \in Requests, NEW role \in {"question", "answer"},
               NEW figures \in SUBSET Figures, request[q].kind = "turn",
               \/ AddMessage(request[q].turn, role, figures, {})
               \/ AddMessage(request[q].turn, role, figures, request[q].outputs)
        PROVE  messages' \subseteq Message
    <2>1. request[q] \in TurnRequest
      BY <1>3, OfKind DEF TypeOK
    <2>2. request[q].turn \in 1..MaxRequests /\ request[q].outputs \in SUBSET Figures
      BY <2>1 DEF TurnRequest
    <2> QED BY <1>2, <1>3, <2>2, MessageAdded
  <1>4. CASE messages' \subseteq messages
    BY <1>1, <1>4
  <1>5. ASSUME NEW q \in Requests, NEW figures \in SUBSET Figures,
               AddQuestion(q, figures) \/ Reply(q, figures) \/ AnswerDirectly(q, figures)
        PROVE  messages' \subseteq Message
    BY <1>3, <1>5, Zenon DEF AddQuestion, Reply, AnswerDirectly, StoreAnswer, Doing
  <1>6. ASSUME NEW q \in Requests, NEW figures \in SUBSET Figures,
               GoDirect(q, figures) \/ CallTool(q, figures)
        PROVE  messages' \subseteq Message
    BY <1>1, <1>6, Zenon DEF GoDirect, CallTool
  <1>7. ASSUME NEW q \in Requests, NEW screen \in BOOLEAN, BeginTurn(q, screen)
        PROVE  messages' \subseteq Message
    BY <1>1, <1>7, Zenon DEF BeginTurn
  <1>8. ASSUME NEW q \in Requests, RollBack(q) PROVE messages' \subseteq messages
    BY <1>8, Zenon DEF RollBack
  <1>9. ASSUME NEW q \in Requests,
               \/ Refuse(q) \/ ReadHistory(q) \/ SearchVessel(q) \/ Discard(q)
               \/ TimeOut(q) \/ DeadlockVictim(q)
        PROVE  messages' \subseteq messages
    BY <1>8, <1>9, Zenon DEF Refuse, ReadHistory, SearchVessel, Discard, TimeOut, DeadlockVictim
  <1>10. CASE Expire \/ Delete
    BY <1>1, <1>10, Zenon DEF Expire, Delete
  <1> QED BY <1>1, <1>5, <1>6, <1>7, <1>9, <1>10, NamedFigures DEF ConversationsNext

-----------------------------------------------------------------------------
(* Look-ups of ports.                                                      *)

\* A look-up goes on without a connection.
LEMMA PortContinues ==
    ASSUME TypeOK, NEW q \in Requests, NEW x \in PortRequest, Continue(q, x)
    PROVE  RequestTypes' /\ Kept("port")
  <1>1. x \in AnyRequest /\ x.kind = "port" /\ ~x.connected
    BY Kinds DEF AnyRequest, PortRequest
  <1> QED BY <1>1, StepContinues

\* What a look-up has found is a place.
PortsInv ==
    /\ LookupsAgree
    /\ \A q \in Requests : Doing(q, "port", "found") => request[q].place \in Places

\* Steps of look-ups keep the pool, the types and the invariant.
LEMMA PortSteps ==
    ASSUME TypeOK, PortsInv, PortsNext
    PROVE  RequestTypes' /\ Kept("port") /\ PortsType' /\ PortsInv'
  <1> DEFINE Goal == RequestTypes' /\ Kept("port") /\ PortsType' /\ PortsInv'
  <1>p. PortsType
    BY DEF TypeOK
  <1>r. \A q \in Requests : request[q].kind = "port" => request[q] \in PortRequest
    BY OfKind DEF TypeOK
  <1>1. ASSUME UNCHANGED <<ports, answered>>, Kept("port"),
               NEW q \in Requests, \A r \in Requests \ {q} : request'[r] = request[r],
               Doing(q, "port", "found")' => request'[q].place \in Places
        PROVE  PortsType' /\ PortsInv'
    BY <1>1, <1>p DEF PortsType, PortsInv, LookupsAgree, Doing
  <1>2. ASSUME NEW q \in Requests, NEW name \in Names, AnswerFromCache(q, name)
        PROVE  Goal
    <2>1. UNCHANGED <<request, served>>
      BY <1>2 DEF AnswerFromCache
    <2>2. PortsType' /\ LookupsAgree'
      BY <1>2, <1>p DEF AnswerFromCache, Answer, PortsType, PortsInv, LookupsAgree
    <2> QED BY <2>1, <2>2, StepElsewhere DEF PortsInv, Doing
  <1>3. ASSUME NEW q \in Requests, NEW name \in Names, QueueLookup(q, name)
        PROVE  Goal
    <2> DEFINE x == [kind |-> "port", step |-> "queued", connected |-> FALSE,
                     name |-> name, place |-> NULL]
    <2>1. Begin(q, x) /\ UNCHANGED <<ports, answered>>
      BY <1>3, Zenon DEF QueueLookup
    <2>2. x \in AnyRequest /\ x.kind = "port" /\ x.step # "found"
      BY DEF AnyRequest, PortRequest
    <2> HIDE DEF x
    <2>3. request'[q] = x /\ \A r \in Requests \ {q} : request'[r] = request[r]
      BY <2>1, OthersKept DEF Begin
    <2>4. RequestTypes' /\ Kept("port")
      BY <2>1, <2>2, StepBegins
    <2> QED BY <1>1, <2>1, <2>2, <2>3, <2>4 DEF Doing
  <1>4. ASSUME NEW q \in Requests, NEW x \in PortRequest, Continue(q, x),
               UNCHANGED <<ports, answered>>, x.step = "found" => x.place \in Places
        PROVE  Goal
    <2>1. request'[q] = x /\ \A r \in Requests \ {q} : request'[r] = request[r]
      BY <1>4, OthersKept DEF Continue
    <2>2. RequestTypes' /\ Kept("port")
      BY <1>4, PortContinues
    <2> QED BY <1>1, <1>4, <2>1, <2>2 DEF Doing
  <1>5. ASSUME NEW q \in Requests, End(q) PROVE RequestTypes' /\ Kept("port") /\
               request'[q] = Idle /\ \A r \in Requests \ {q} : request'[r] = request[r]
    BY <1>5, StepEnds, OthersKept DEF End, Continue
  <1>6. ASSUME NEW q \in Requests, GiveUpQueue(q) \/ NotFound(q) \/ StoreTimesOut(q)
        PROVE  Goal
    <2>1. End(q) /\ UNCHANGED <<ports, answered>>
      BY <1>6 DEF GiveUpQueue, NotFound, StoreTimesOut
    <2> QED BY <1>1, <1>5, <2>1, Kinds DEF Doing
  <1>7. ASSUME NEW q \in Requests, GoOutside(q) PROVE Goal
    <2> DEFINE x == [request[q] EXCEPT !.step = "outside"]
    <2>1. Continue(q, x) /\ UNCHANGED <<ports, answered>> /\ request[q].kind = "port"
      BY <1>7, Zenon DEF GoOutside, Doing
    <2>2. x \in PortRequest /\ x.step # "found"
      BY <1>r, <2>1 DEF PortRequest
    <2> HIDE DEF x
    <2> QED BY <1>4, <2>1, <2>2
  <1>8. ASSUME NEW q \in Requests, NEW place \in Places, Found(q, place) PROVE Goal
    <2> DEFINE x == [request[q] EXCEPT !.step = "found", !.place = place]
    <2>1. Continue(q, x) /\ UNCHANGED <<ports, answered>> /\ request[q].kind = "port"
      BY <1>8, Zenon DEF Found, Doing
    <2>2. x \in PortRequest /\ x.place \in Places
      BY <1>r, <2>1 DEF PortRequest
    <2> HIDE DEF x
    <2> QED BY <1>4, <2>1, <2>2
  <1>9. ASSUME NEW q \in Requests, Store(q) PROVE Goal
    <2>1. /\ End(q) /\ Doing(q, "port", "found")
          /\ ports' = [ports EXCEPT ![request[q].name] = IF @ = NULL THEN request[q].place ELSE @]
          /\ answered' = answered \cup {[name |-> request[q].name, place |-> ports'[request[q].name]]}
      BY <1>9, Zenon DEF Store, Answer
    <2>2. request[q].name \in Names /\ request[q].place \in Places
      BY <2>1, <1>r DEF Doing, PortRequest, PortsInv
    <2>3. /\ ports' \in [Names -> Places \cup {NULL}]
          /\ ports'[request[q].name] \in Places
          /\ \A n \in Names : ports[n] # NULL => ports'[n] = ports[n]
      BY <2>1, <2>2, <1>p DEF PortsType
    <2>4. PortsType'
      BY <2>1, <2>2, <2>3, <1>p DEF PortsType
    <2>5. \A a \in answered : a.name \in Names /\ ports[a.name] # NULL
      BY <1>p, PlacesAssumption DEF PortsType, PortsInv, LookupsAgree
    <2>6. LookupsAgree'
      BY <2>1, <2>3, <2>5 DEF PortsInv, LookupsAgree
    <2> QED BY <1>5, <2>1, <2>4, <2>6, Kinds DEF PortsInv, Doing
  <1> QED BY <1>2, <1>3, <1>6, <1>7, <1>8, <1>9 DEF PortsNext

-----------------------------------------------------------------------------
(* Positions.                                                              *)

\* A vessel nobody placed has no time.
PositionsInv ==
    /\ ShownPosition
    /\ vessel.known = {} => vessel.updated = 0

\* Steps that show nothing else.
LEMMA PositionsElsewhere ==
    ASSUME PositionsType, PositionsInv, UNCHANGED <<vessel, track>>, now' \in 0..MaxTime
    PROVE  PositionsType' /\ PositionsInv'
  BY DEF PositionsType, PositionsInv, ShownPosition

\* An entry is shown whatever was there.
LEMMA EntrySaved ==
    ASSUME TypeOK, PositionsInv, NEW q \in Requests, SaveEntry(q)
    PROVE  PositionsType' /\ PositionsInv'
  <1>1. vessel \in VesselRow /\ track \subseteq Observation /\ now \in 0..MaxTime
    BY DEF TypeOK, PositionsType
  <1>2. request[q] \in EntryRequest
    BY OfKind DEF TypeOK, SaveEntry, Doing
  <1>3. request[q].at \in 1..MaxTime /\ request[q].at \in 0..MaxTime
    <2>1. request[q].at \in 1..MaxTime
      BY <1>2 DEF EntryRequest
    <2> QED BY <2>1, TimeAssumption
  <1> DEFINE at == request[q].at
             observation == [source |-> "MANUAL", at |-> at]
  <1>4. observation \in Observation
    BY <1>3 DEF Observation, Sources
  <1>5. now' = now
    BY DEF SaveEntry
  <1>6. CASE /\ vessel' = [seen |-> observation, updated |-> at, known |-> {at}]
             /\ track' = track \cup {observation}
    <2>1. vessel' \in VesselRow /\ track' \subseteq Observation
      BY <1>1, <1>3, <1>4, <1>6 DEF VesselRow
    <2> QED BY <1>1, <1>3, <1>5, <1>6, <2>1 DEF PositionsType, PositionsInv, ShownPosition
  <1>7. CASE /\ vessel' = [vessel EXCEPT !.updated = at, !.known = {at}]
             /\ UNCHANGED track
    <2>1. vessel' \in VesselRow /\ vessel'.seen = vessel.seen
      BY <1>1, <1>3, <1>7 DEF VesselRow
    <2>2. vessel'.updated = at /\ vessel'.known = {at}
      BY <1>1, <1>7 DEF VesselRow
    <2> QED BY <1>1, <1>3, <1>5, <1>7, <2>1, <2>2 DEF PositionsType, PositionsInv, ShownPosition
  <1> QED BY <1>6, <1>7 DEF SaveEntry

\* A batch is shown only if newer.
LEMMA ObservationsDelivered ==
    ASSUME TypeOK, PositionsInv, NEW q \in Requests, NEW times \in SUBSET (1..MaxTime),
           Deliver(q, times)
    PROVE  PositionsType' /\ PositionsInv'
  <1>1. vessel \in VesselRow /\ track \subseteq Observation /\ now \in 0..MaxTime
    BY DEF TypeOK, PositionsType
  <1>2. /\ track' = track \cup {[source |-> "AIS", at |-> t] : t \in times}
        /\ vessel' = [ShowIfNewer(times) EXCEPT !.known = @ \cup times]
        /\ now' = Max(times \cup {now})
    BY Zenon DEF Deliver
  <1>3. now' \in 0..MaxTime
    <2>1. times \cup {now} \in SUBSET (0..MaxTime) /\ times \cup {now} # {}
      BY <1>1, TimeAssumption
    <2>2. Max(times \cup {now}) \in times \cup {now}
      BY <2>1, TimeAssumption, MaxIsGreatest
    <2> QED BY <1>2, <2>1, <2>2
  <1>4. track' \subseteq Observation
    BY <1>1, <1>2 DEF Observation, Sources
  <1> DEFINE newest == Max(times)
  <1>5. times # {} => newest \in times /\ \A t \in times : t =< newest
    <2>1. times \in SUBSET (0..MaxTime)
      BY TimeAssumption
    <2> QED BY <2>1, TimeAssumption, MaxIsGreatest
  <1>6. vessel.known \in SUBSET (1..MaxTime) /\ vessel.updated \in 0..MaxTime
    BY <1>1 DEF VesselRow
  <1>7. CASE times # {} /\ vessel.updated < newest
    <2> DEFINE seen == [source |-> "AIS", at |-> newest]
    <2>1. vessel' = [vessel EXCEPT !.seen = seen, !.updated = newest,
                                   !.known = @ \cup times]
      <3>1. ShowIfNewer(times) = [vessel EXCEPT !.seen = seen, !.updated = newest]
        BY <1>7 DEF ShowIfNewer, ShowNewest
      <3> HIDE DEF newest, seen
      <3> QED BY <1>1, <1>2, <3>1 DEF VesselRow
    <2>2. newest \in 1..MaxTime /\ newest \in 0..MaxTime
      <3>1. newest \in 1..MaxTime
        BY <1>5, <1>7
      <3> HIDE DEF newest
      <3> QED BY <3>1, TimeAssumption
    <2>3. seen \in Observation /\ seen \in track'
      BY <1>2, <1>5, <1>7, <2>2 DEF Observation, Sources
    <2> HIDE DEF newest, seen
    <2>4. vessel'.seen = seen /\ vessel'.updated = newest /\ vessel'.known = vessel.known \cup times
      BY <1>1, <2>1 DEF VesselRow
    <2>5. vessel' \in VesselRow
      BY <1>1, <1>6, <2>1, <2>2, <2>3 DEF VesselRow
    <2>6. \A t \in vessel'.known : t =< vessel'.updated
      <3>1. \A t \in vessel.known : t \in Nat /\ t =< vessel.updated
        BY <1>6, TimeAssumption DEF PositionsInv, ShownPosition
      <3>2. vessel.updated \in Nat /\ newest \in Nat
        BY <1>6, <2>2, TimeAssumption
      <3>3. \A t \in vessel.known : t =< newest
        BY <1>7, <3>1, <3>2
      <3> QED BY <1>5, <1>7, <2>4, <3>3
    <2> QED BY <1>3, <1>4, <1>5, <1>7, <2>3, <2>4, <2>5, <2>6 DEF PositionsType, PositionsInv, ShownPosition
  <1>8. CASE ~(times # {} /\ vessel.updated < newest)
    <2>1. vessel' = [vessel EXCEPT !.known = @ \cup times]
      <3>1. ShowIfNewer(times) = vessel
        BY <1>8 DEF ShowIfNewer
      <3> QED BY <1>2, <3>1
    <2>2. /\ vessel'.seen = vessel.seen /\ vessel'.updated = vessel.updated
          /\ vessel'.known = vessel.known \cup times
      BY <1>1, <2>1 DEF VesselRow
    <2>3. vessel' \in VesselRow
      BY <1>1, <1>6, <2>1 DEF VesselRow
    <2>4. ASSUME NEW t \in times PROVE t =< vessel.updated
      <3>1. newest \in Nat /\ t \in Nat /\ vessel.updated \in Nat
        BY <1>5, <1>6, TimeAssumption
      <3>2. ~(vessel.updated < newest) /\ t =< newest
        BY <1>5, <1>8
      <3> HIDE DEF newest
      <3> QED BY <3>1, <3>2
    <2>5. vessel.known = {} => times = {}
      BY <2>4 DEF PositionsInv
    <2>6. vessel'.known # {} => vessel'.updated \in vessel'.known
      BY <2>2, <2>5 DEF PositionsInv, ShownPosition
    <2>7. vessel'.known = {} => vessel'.updated = 0
      BY <2>2 DEF PositionsInv
    <2>8. \A t \in vessel'.known : t =< vessel'.updated
      BY <2>2, <2>4 DEF PositionsInv, ShownPosition
    <2>9. vessel'.seen # NULL => vessel'.seen \in track'
      BY <1>2, <2>2 DEF PositionsInv, ShownPosition
    <2> QED BY <1>3, <1>4, <2>3, <2>6, <2>7, <2>8, <2>9 DEF PositionsType, PositionsInv, ShownPosition
  <1> QED BY <1>7, <1>8

\* Steps of positions keep the pool, the types and the invariant.
LEMMA PositionSteps ==
    ASSUME TypeOK, PositionsInv, PositionsNext
    PROVE  RequestTypes' /\ (Kept("entry") \/ Kept("batch")) /\ PositionsType' /\ PositionsInv'
  <1> DEFINE Goal == RequestTypes' /\ (Kept("entry") \/ Kept("batch")) /\ PositionsType' /\ PositionsInv'
  <1>t. PositionsType
    BY DEF TypeOK
  <1>1. ASSUME NEW q \in Requests, NEW what \in {"position", "state"}, NEW time \in 1..MaxTime,
               Enter(q, what, time)
        PROVE  Goal
    <2> DEFINE x == [kind |-> "entry", step |-> "read", connected |-> TRUE,
                     at |-> time, what |-> what]
    <2>1. Begin(q, x) /\ UNCHANGED <<vessel, track>> /\ now' = time
      BY <1>1, Zenon DEF Enter, ClockAt
    <2>2. x \in AnyRequest /\ x.kind = "entry"
      BY DEF AnyRequest, EntryRequest
    <2>3. time \in 0..MaxTime
      BY TimeAssumption
    <2> HIDE DEF x
    <2> QED BY <1>t, <2>1, <2>2, <2>3, StepBegins, PositionsElsewhere
  <1>2. ASSUME NEW q \in Requests, StartBatch(q) PROVE Goal
    <2> DEFINE x == [kind |-> "batch", step |-> "outside", connected |-> TRUE]
    <2>1. Begin(q, x) /\ UNCHANGED <<now, vessel, track>>
      BY <1>2, Zenon DEF StartBatch
    <2>2. x \in AnyRequest /\ x.kind = "batch"
      BY DEF AnyRequest, BatchRequest
    <2> HIDE DEF x
    <2>3. now' \in 0..MaxTime
      BY <1>t, <2>1 DEF PositionsType
    <2> QED BY <1>t, <2>1, <2>2, <2>3, StepBegins, PositionsElsewhere
  <1>3. ASSUME NEW q \in Requests, SaveEntry(q) PROVE Goal
    BY <1>3, EntrySaved, StepEnds DEF SaveEntry
  <1>4. ASSUME NEW q \in Requests, NEW times \in SUBSET (1..MaxTime), Deliver(q, times)
        PROVE  Goal
    BY <1>4, ObservationsDelivered, StepEnds DEF Deliver
  <1> QED BY <1>1, <1>2, <1>3, <1>4 DEF PositionsNext

-----------------------------------------------------------------------------
(* Imports.                                                                *)

Imports == {q \in Requests : request[q].kind = "import"}

\* An import that may still commit: nobody has seen its rows, and if it
\* replaces a row of an import it replaces all that are still active.
OpenImport(q) ==
    /\ request[q].by =< served
    /\ \A row \in request[q].replaces : row.by =< served
    /\ request[q].rows \subseteq
           RowsOf(request[q].by, request[q].file, Importers(request[q].replaces))
    /\ \A row \in active :
          /\ row.by # request[q].by /\ request[q].by \notin row.saw
          /\ row.by \in Importers(request[q].replaces) => row \in request[q].replaces
    /\ \A r \in Imports : request[q].by \notin Importers(request[r].replaces)
    /\ \A r \in Imports \ {q} : request[q].by # request[r].by

ImportsInv ==
    /\ ActiveRowsAreWholeFiles
    /\ \A row \in active : row.by =< served /\ \A saw \in row.saw : saw =< served
    /\ \A q \in Imports : OpenImport(q)

\* Imports are numbered.
LEMMA RowNumbers ==
    ASSUME TypeOK
    PROVE  /\ \A row \in active : row.by \in Nat /\ row.saw \subseteq Nat
           /\ \A q \in Imports :
                 /\ request[q] \in ImportRequest
                 /\ request[q].by \in Nat
                 /\ \A row \in request[q].replaces : row.by \in Nat
           /\ served \in Nat
  <1>1. \A row \in Row : row.by \in Nat /\ row.saw \subseteq Nat
    BY PoolAssumption DEF Row
  <1>2. \A q \in Imports : request[q] \in ImportRequest
    BY OfKind DEF TypeOK, Imports
  <1>3. \A x \in ImportRequest : x.by \in Nat /\ x.replaces \subseteq Row
    BY PoolAssumption DEF ImportRequest
  <1>4. active \subseteq Row
    BY DEF TypeOK, ImportsType
  <1>5. served \in Nat
    BY DEF TypeOK
  <1> QED BY <1>1, <1>2, <1>3, <1>4, <1>5

\* Steps that keep the active rows, and let imports go on or end.
LEMMA ImportsKept ==
    ASSUME TypeOK, ImportsInv, UNCHANGED active, served' \in {served, served + 1},
           \A q \in Imports' :
              /\ q \in Imports
              /\ request'[q].by = request[q].by
              /\ request'[q].file = request[q].file
              /\ request'[q].replaces = request[q].replaces
              /\ request'[q].rows \subseteq
                    RowsOf(request[q].by, request[q].file, Importers(request[q].replaces))
    PROVE  ImportsInv'
  <1>1. \A q \in Imports' : OpenImport(q)'
    <2> SUFFICES ASSUME NEW q \in Imports' PROVE OpenImport(q)'
      OBVIOUS
    <2>1. q \in Imports /\ OpenImport(q)
      BY DEF ImportsInv
    <2>2. request'[q].by =< served' /\ \A row \in request'[q].replaces : row.by =< served'
      BY <2>1, RowNumbers DEF OpenImport
    <2>3. \A r \in Imports' : request'[q].by \notin Importers(request'[r].replaces)
      BY <2>1 DEF OpenImport
    <2>4. \A r \in Imports' \ {q} : request'[q].by # request'[r].by
      BY <2>1 DEF OpenImport
    <2>5. \A row \in active' :
             /\ row.by # request'[q].by /\ request'[q].by \notin row.saw
             /\ row.by \in Importers(request'[q].replaces) => row \in request'[q].replaces
      BY <2>1 DEF OpenImport
    <2>6. request'[q].rows \subseteq
             RowsOf(request'[q].by, request'[q].file, Importers(request'[q].replaces))
      OBVIOUS
    <2> QED BY <2>2, <2>3, <2>4, <2>5, <2>6 DEF OpenImport
  <1>2. \A row \in active' : row.by =< served' /\ \A saw \in row.saw : saw =< served'
    BY RowNumbers DEF ImportsInv
  <1>3. ActiveRowsAreWholeFiles'
    BY DEF ImportsInv, ActiveRowsAreWholeFiles
  <1> QED BY <1>1, <1>2, <1>3 DEF ImportsInv

\* A step of another service.
LEMMA ImportsElsewhere ==
    ASSUME TypeOK, ImportsInv, UNCHANGED active, NEW kind, Kept(kind), kind # "import"
    PROVE  ImportsInv'
  <1>1. \A q \in Imports' : q \in Imports /\ request'[q] = request[q]
    BY Kinds DEF Imports, Kept
  <1>2. \A q \in Imports : request[q].rows \subseteq
           RowsOf(request[q].by, request[q].file, Importers(request[q].replaces))
    BY DEF ImportsInv, OpenImport
  <1> QED BY <1>1, <1>2, ImportsKept DEF Kept

\* An import goes on before it commits.
LEMMA ImportContinues ==
    ASSUME TypeOK, ImportsInv, UNCHANGED active, NEW q \in Imports, NEW x, Continue(q, x),
           x.by = request[q].by, x.file = request[q].file, x.replaces = request[q].replaces,
           x.rows \subseteq RowsOf(request[q].by, request[q].file, Importers(request[q].replaces))
    PROVE  ImportsInv'
  <1>1. q \in Requests BY DEF Imports
  <1>2. request'[q] = x /\ UNCHANGED served
        /\ \A r \in Requests \ {q} : request'[r] = request[r]
    BY <1>1, OthersKept DEF Continue
  <1>3. \A r \in Imports' : r \in Imports /\ (r # q => request'[r] = request[r])
    BY <1>2 DEF Imports
  <1>4. \A r \in Imports : request[r].rows \subseteq
           RowsOf(request[r].by, request[r].file, Importers(request[r].replaces))
    BY DEF ImportsInv, OpenImport
  <1> QED BY <1>2, <1>3, <1>4, ImportsKept

\* What an end leaves of the imports.
LEMMA ImportsAfterEnd ==
    ASSUME TypeOK, NEW q \in Requests, End(q)
    PROVE  /\ Imports' = Imports \ {q} /\ UNCHANGED served
           /\ \A r \in Imports' : request'[r] = request[r]
  <1>1. request' = [request EXCEPT ![q] = Idle] /\ UNCHANGED served
    BY DEF End, Continue
  <1>2. request'[q].kind # "import" /\ \A r \in Requests \ {q} : request'[r] = request[r]
    BY <1>1, OthersKept, Kinds
  <1> QED BY <1>1, <1>2 DEF Imports

\* An import ends and leaves the active rows.
LEMMA ImportEnds ==
    ASSUME TypeOK, ImportsInv, UNCHANGED active, NEW q \in Requests, End(q)
    PROVE  ImportsInv'
  <1>1. \A r \in Imports : request[r].rows \subseteq
           RowsOf(request[r].by, request[r].file, Importers(request[r].replaces))
    BY DEF ImportsInv, OpenImport
  <1> QED BY <1>1, ImportsAfterEnd, ImportsKept

\* An import starts, with a number nobody has seen.
LEMMA ImportStarts ==
    ASSUME TypeOK, ImportsInv, NEW q \in Requests, NEW file \in Files, StartImport(q, file)
    PROVE  RequestTypes' /\ Kept("import") /\ ImportsInv'
  <1> DEFINE x == [kind |-> "import", step |-> "read", connected |-> TRUE,
                   by |-> served + 1, file |-> file, replaces |-> active, rows |-> {}]
  <1>1. Begin(q, x) /\ UNCHANGED active
    BY Zenon DEF StartImport
  <1>2. served + 1 \in 1..MaxRequests /\ served' = served + 1
    BY <1>1, PoolAssumption DEF Begin, TypeOK
  <1>3. x \in ImportRequest
    BY <1>2 DEF ImportRequest, TypeOK, ImportsType
  <1>4. x \in AnyRequest /\ x.kind = "import" /\ x.by = served + 1 /\ x.replaces = active
        /\ x.rows = {}
    BY <1>3 DEF AnyRequest
  <1> HIDE DEF x
  <1>5. RequestTypes' /\ Kept("import")
    BY <1>1, <1>4, StepBegins
  <1>6. request'[q] = x /\ \A r \in Requests \ {q} : request'[r] = request[r]
    <2>1. request' = [request EXCEPT ![q] = x]
      BY <1>1 DEF Begin
    <2> QED BY <2>1, OthersKept
  <1>7. Imports' = Imports \cup {q} /\ q \notin Imports
    <2>1. request[q].kind = "idle"
      BY <1>1, Kinds DEF Begin
    <2> QED BY <1>4, <1>6, <2>1 DEF Imports
  <1>8. \A r \in Imports : request'[r] = request[r]
    BY <1>6, <1>7 DEF Imports
  <1>9. \A row \in active : row.by # served + 1 /\ served + 1 \notin row.saw
    BY RowNumbers DEF ImportsInv
  <1>10. served + 1 \notin Importers(active)
    BY <1>9 DEF Importers
  <1>11. \A r \in Imports : served + 1 \notin Importers(request[r].replaces)
                            /\ request[r].by # served + 1
    BY RowNumbers DEF ImportsInv, OpenImport, Importers
  <1>12. \A r \in Imports : request[r].by \notin Importers(active)
    BY DEF ImportsInv, OpenImport, Importers
  <1>13. OpenImport(q)'
    <2>1. request'[q].by =< served' /\ \A row \in request'[q].replaces : row.by =< served'
      BY <1>2, <1>4, <1>6, RowNumbers DEF ImportsInv
    <2>2. \A r \in Imports' : request'[q].by \notin Importers(request'[r].replaces)
      BY <1>4, <1>6, <1>7, <1>8, <1>10, <1>11
    <2>3. \A r \in Imports' \ {q} : request'[q].by # request'[r].by
      BY <1>4, <1>6, <1>7, <1>8, <1>11
    <2>4. \A row \in active' :
             /\ row.by # request'[q].by /\ request'[q].by \notin row.saw
             /\ row \in request'[q].replaces
      BY <1>1, <1>4, <1>6, <1>9
    <2> QED BY <1>4, <1>6, <2>1, <2>2, <2>3, <2>4 DEF OpenImport
  <1>14. ASSUME NEW r \in Imports PROVE OpenImport(r)'
    <2>1. OpenImport(r) /\ request'[r] = request[r]
      BY <1>8 DEF ImportsInv
    <2>2. request'[r].by =< served' /\ \A row \in request'[r].replaces : row.by =< served'
      BY <1>2, <2>1, RowNumbers DEF OpenImport
    <2>3. \A p \in Imports' : request'[r].by \notin Importers(request'[p].replaces)
      BY <1>4, <1>6, <1>7, <1>8, <1>12, <2>1 DEF OpenImport
    <2>4. \A p \in Imports' \ {r} : request'[r].by # request'[p].by
      BY <1>4, <1>6, <1>7, <1>8, <1>11, <2>1 DEF OpenImport
    <2> QED BY <1>1, <2>1, <2>2, <2>3, <2>4 DEF OpenImport
  <1>15. \A row \in active' : row.by =< served' /\ \A saw \in row.saw : saw =< served'
    BY <1>1, <1>2, RowNumbers DEF ImportsInv
  <1> QED BY <1>1, <1>5, <1>7, <1>13, <1>14, <1>15 DEF ImportsInv, ActiveRowsAreWholeFiles

\* An import puts its file in place of the files it read.
LEMMA ImportCommits ==
    ASSUME TypeOK, ImportsInv, NEW q \in Requests, CommitImport(q)
    PROVE  active' \subseteq Row /\ ImportsInv'
  <1> DEFINE by == request[q].by
             file == request[q].file
             replaced == request[q].replaces
             rows == request[q].rows
             saw == Importers(replaced)
  <1>1. /\ End(q) /\ q \in Imports
        /\ active' = (active \ replaced) \cup rows
        /\ file \subseteq BandsOf(rows)
    BY DEF CommitImport, Doing, Missing, Imports
  <1>2. /\ request[q] \in ImportRequest /\ by \in Nat
        /\ rows \subseteq Row /\ rows \subseteq RowsOf(by, file, saw)
        /\ OpenImport(q)
    BY <1>1, RowNumbers DEF ImportRequest, ImportsInv, OpenImport
  <1>3. \A row \in rows : row.by = by /\ row.file = file /\ row.band \in file /\ row.saw = saw
    BY <1>2 DEF RowsOf
  <1>4. \A row \in active' : row \in active \/ row \in rows
    BY <1>1
  <1>5. active' \subseteq Row
    BY <1>1, <1>2 DEF TypeOK, ImportsType
  <1>6. \A row \in active : row.by # by /\ by \notin row.saw
    BY <1>2 DEF OpenImport
  <1>7. \A row \in active \ replaced : row.by \notin saw
    BY <1>2 DEF OpenImport
  <1>8. Imports' = Imports \ {q} /\ served' = served /\ \A r \in Imports' : request'[r] = request[r]
    BY <1>1, ImportsAfterEnd
  <1> HIDE DEF by, file, replaced, rows, saw
  <1>9. ActiveRowsAreWholeFiles'
    <2>1. ASSUME NEW row \in rows
          PROVE  BandsOf({r \in active' : r.by = row.by}) = row.file
      <3>1. {r \in active' : r.by = row.by} = rows
        BY <1>1, <1>3, <1>6, <2>1
      <3>2. BandsOf(rows) \subseteq file
        BY <1>3 DEF BandsOf
      <3>3. row.file = file /\ BandsOf({r \in active' : r.by = row.by}) = BandsOf(rows)
        BY <1>3, <2>1, <3>1
      <3> QED BY <1>1, <3>2, <3>3
    <2>2. ASSUME NEW row \in active \ replaced
          PROVE  BandsOf({r \in active' : r.by = row.by}) = row.file
      <3>1. \A r \in active : r.by = row.by => r \notin replaced
        BY <1>7, <2>2 DEF Importers, saw
      <3>2. {r \in active' : r.by = row.by} = {r \in active : r.by = row.by}
        BY <1>1, <1>3, <1>6, <2>2, <3>1
      <3>3. BandsOf({r \in active : r.by = row.by}) = row.file
        BY <2>2, Zenon DEF ImportsInv, ActiveRowsAreWholeFiles
      <3> QED BY <3>2, <3>3
    <2>3. ASSUME NEW row \in active', NEW other \in active', row.by # other.by
          PROVE  other.by \notin row.saw
      <3>1. CASE row \in rows
        BY <1>1, <1>3, <1>7, <2>3, <3>1
      <3>2. CASE row \in active \ replaced /\ other \in rows
        BY <1>3, <1>6, <2>3, <3>2
      <3>3. CASE row \in active \ replaced /\ other \in active \ replaced
        BY <2>3, <3>3 DEF ImportsInv, ActiveRowsAreWholeFiles
      <3> QED BY <1>1, <2>3, <3>1, <3>2, <3>3
    <2> QED BY <1>1, <2>1, <2>2, <2>3 DEF ActiveRowsAreWholeFiles
  <1>10. \A row \in active' : row.by =< served' /\ \A s \in row.saw : s =< served'
    <2>1. by =< served
      BY <1>2 DEF OpenImport, by
    <2>2. \A s \in saw : s =< served
      BY <1>2 DEF OpenImport, saw, replaced, Importers
    <2> QED BY <1>1, <1>3, <1>8, <2>1, <2>2 DEF ImportsInv
  <1>11. ASSUME NEW r \in Imports' PROVE OpenImport(r)'
    <2>1. r \in Imports \ {q} /\ request'[r] = request[r] /\ OpenImport(r)
      BY <1>8 DEF ImportsInv
    <2>2. request[r].by # by /\ request[r].by \notin saw
      BY <1>1, <2>1 DEF OpenImport, by, saw, replaced
    <2>3. by \notin Importers(request[r].replaces)
      BY <1>2, <2>1 DEF OpenImport, by
    <2>4. \A row \in rows :
             /\ row.by # request[r].by /\ request[r].by \notin row.saw
             /\ row.by \notin Importers(request[r].replaces)
      BY <1>3, <2>2, <2>3
    <2>5. \A row \in active' :
             /\ row.by # request[r].by /\ request[r].by \notin row.saw
             /\ row.by \in Importers(request[r].replaces) => row \in request[r].replaces
      BY <1>4, <2>1, <2>4 DEF OpenImport
    <2>6. \A p \in Imports' : request[r].by \notin Importers(request'[p].replaces)
      BY <1>8, <2>1 DEF OpenImport
    <2>7. \A p \in Imports' \ {r} : request[r].by # request'[p].by
      BY <1>8, <2>1 DEF OpenImport
    <2> QED BY <1>8, <2>1, <2>5, <2>6, <2>7 DEF OpenImport
  <1> QED BY <1>5, <1>9, <1>10, <1>11 DEF ImportsInv

\* An import inserts a band of its file.
LEMMA ImportInserts ==
    ASSUME TypeOK, ImportsInv, NEW q \in Requests, NEW band \in Bands, Insert(q, band)
    PROVE  RequestTypes' /\ Kept("import") /\ UNCHANGED active /\ ImportsInv'
  <1> DEFINE saw == Importers(request[q].replaces)
             row == [by |-> request[q].by, file |-> request[q].file, band |-> band,
                     saw |-> saw]
             x == [request[q] EXCEPT !.rows = @ \cup {row}]
  <1>1. /\ Continue(q, x) /\ UNCHANGED active /\ request[q].kind = "import"
        /\ band \in request[q].file
    BY Zenon DEF Insert, Doing, Missing
  <1>2. q \in Imports /\ request[q] \in ImportRequest
    BY <1>1, RowNumbers DEF Imports
  <1>3. saw \in SUBSET (0..MaxRequests)
    <2>1. request[q].replaces \subseteq Row
      BY <1>2 DEF ImportRequest
    <2>2. \A r \in Row : r.by \in 0..MaxRequests
      BY DEF Row
    <2> QED BY <2>1, <2>2 DEF Importers
  <1>4. row \in RowsOf(request[q].by, request[q].file, saw)
    BY <1>1 DEF RowsOf
  <1>5. row \in Row
    <2>1. request[q].by \in 1..MaxRequests /\ request[q].file \in Files
      BY <1>2 DEF ImportRequest
    <2>2. request[q].by \in 0..MaxRequests
      BY <2>1, PoolAssumption
    <2> HIDE DEF saw
    <2> QED BY <1>3, <2>1, <2>2 DEF Row
  <1> HIDE DEF row, saw
  <1>6. x \in ImportRequest
    BY <1>2, <1>5 DEF ImportRequest
  <1>7. /\ x.by = request[q].by /\ x.file = request[q].file
        /\ x.replaces = request[q].replaces /\ x.rows = request[q].rows \cup {row}
        /\ x.kind = "import" /\ request[q].connected
    BY <1>2 DEF ImportRequest
  <1> HIDE DEF x
  <1>8. x.rows \subseteq RowsOf(request[q].by, request[q].file, Importers(request[q].replaces))
    BY <1>2, <1>4, <1>7 DEF ImportsInv, OpenImport, saw
  <1>9. x \in AnyRequest
    BY <1>6 DEF AnyRequest
  <1> QED BY <1>1, <1>2, <1>7, <1>8, <1>9, StepContinues, ImportContinues

\* An import turns off the rows it read.
LEMMA ImportTurnsOff ==
    ASSUME TypeOK, ImportsInv, NEW q \in Requests, TurnOff(q)
    PROVE  RequestTypes' /\ Kept("import") /\ UNCHANGED active /\ ImportsInv'
  <1> DEFINE x == [request[q] EXCEPT !.step = "replacing"]
  <1>1. Continue(q, x) /\ UNCHANGED active /\ request[q].kind = "import"
    BY Zenon DEF TurnOff, Doing
  <1>2. q \in Imports /\ request[q] \in ImportRequest
    BY <1>1, RowNumbers DEF Imports
  <1>3. x \in ImportRequest
    BY <1>2 DEF ImportRequest
  <1>4. /\ x.by = request[q].by /\ x.file = request[q].file
        /\ x.replaces = request[q].replaces /\ x.rows = request[q].rows
        /\ x.kind = "import" /\ request[q].connected
    BY <1>2 DEF ImportRequest
  <1> HIDE DEF x
  <1>5. x.rows \subseteq RowsOf(request[q].by, request[q].file, Importers(request[q].replaces))
    BY <1>2, <1>4 DEF ImportsInv, OpenImport
  <1>6. x \in AnyRequest
    BY <1>3 DEF AnyRequest
  <1> QED BY <1>1, <1>2, <1>4, <1>5, <1>6, StepContinues, ImportContinues

\* Steps of imports keep the pool, the types and the invariant.
LEMMA ImportSteps ==
    ASSUME TypeOK, ImportsInv, ImportsNext
    PROVE  RequestTypes' /\ Kept("import") /\ ImportsType' /\ ImportsInv'
  <1>t. active \subseteq Row
    BY DEF TypeOK, ImportsType
  <1>1. ASSUME NEW q \in Requests, NEW file \in Files, StartImport(q, file)
        PROVE  RequestTypes' /\ Kept("import") /\ active' \subseteq Row /\ ImportsInv'
    BY <1>t, <1>1, ImportStarts DEF StartImport
  <1>2. ASSUME NEW q \in Requests, StorageRefuses(q)
        PROVE  RequestTypes' /\ Kept("import") /\ active' \subseteq Row /\ ImportsInv'
    BY <1>t, <1>2, StepEnds, ImportEnds DEF StorageRefuses
  <1>3. ASSUME NEW q \in Requests, CommitImport(q)
        PROVE  RequestTypes' /\ Kept("import") /\ active' \subseteq Row /\ ImportsInv'
    BY <1>3, StepEnds, ImportCommits DEF CommitImport
  <1> QED BY <1>t, <1>1, <1>2, <1>3, ImportInserts, ImportTurnsOff DEF ImportsNext, ImportsType

-----------------------------------------------------------------------------
(* The services together.                                                  *)

IInv == TypeOK /\ Grounding /\ PortsInv /\ PositionsInv /\ ImportsInv

\* A step of another service keeps the look-ups.
LEMMA PortsElsewhere ==
    ASSUME PortsInv, UNCHANGED portVars, NEW kind, Kept(kind), kind # "port"
    PROVE  PortsInv'
  BY Kinds DEF PortsInv, LookupsAgree, portVars, Doing, Kept

\* The invariant holds at first,
THEOREM SharedPoolInit == Init => IInv
  <1> SUFFICES ASSUME Init PROVE IInv
    OBVIOUS
  <1>1. \A q \in Requests : request[q] = Idle
    BY DEF Init
  <1>2. /\ Turns = {} /\ Imports = {} /\ Connected = {}
        /\ \A q \in Requests : request[q].kind = "idle"
    BY <1>1, Kinds, IdleIs DEF Turns, Imports, Connected
  <1>3. Cardinality(Connected) =< PoolSize
    BY <1>2, FS_EmptySet, PoolAssumption
  <1>4. request \in [Requests -> AnyRequest] /\ served = 0 /\ served \in 0..MaxRequests
    BY IdleIs, PoolAssumption DEF Init
  <1>5. ConversationsType /\ Grounding
    BY <1>2 DEF Init, ConversationsInit, ConversationsType, Conversation, Grounding,
                AnswersAreGrounded
  <1>6. PortsType /\ PortsInv
    BY <1>2 DEF Init, PortsInit, PortsType, PortsInv, LookupsAgree, Doing
  <1>7. PositionsType /\ PositionsInv
    BY TimeAssumption DEF Init, PositionsInit, PositionsType, PositionsInv, ShownPosition, VesselRow
  <1>8. active = RowsOf(0, Seed, {})
    BY DEF Init, ImportsInit
  <1>9. \A row \in active : row.by = 0 /\ row.saw = {} /\ row.file = Seed
    BY <1>8 DEF RowsOf
  <1>10. ImportsType
    BY <1>8, SeedAssumption, PoolAssumption DEF ImportsType, RowsOf, Row, Bands
  <1>11. ImportsInv
    <2>1. BandsOf(active) = Seed
      <3>1. \A row \in active : row.band \in Seed
        BY <1>8 DEF RowsOf
      <3>2. ASSUME NEW band \in Seed PROVE \E row \in active : row.band = band
        <4>1. [by |-> 0, file |-> Seed, band |-> band, saw |-> {}] \in active
          BY <1>8 DEF RowsOf
        <4> QED BY <4>1
      <3> QED BY <3>1, <3>2 DEF BandsOf
    <2>2. ASSUME NEW row \in active PROVE {r \in active : r.by = row.by} = active
      BY <1>9
    <2>3. ActiveRowsAreWholeFiles
      BY <1>9, <2>1, <2>2 DEF ActiveRowsAreWholeFiles
    <2> QED BY <1>2, <1>4, <1>9, <2>3 DEF ImportsInv
  <1> QED BY <1>3, <1>4, <1>5, <1>6, <1>7, <1>10, <1>11 DEF IInv, TypeOK

\* and every step keeps it, of whatever service.
THEOREM SharedPoolStep == IInv /\ [Next]_vars => IInv'
  <1> SUFFICES ASSUME IInv, [Next]_vars PROVE IInv'
    OBVIOUS
  <1>1. CASE Conversing(ConversationsNext)
    <2>1. RequestTypes' /\ Kept("turn") /\ conversation' \in Conversation
          /\ messages' \subseteq Message /\ Grounding'
      BY <1>1, TurnTypes, MessageTypes, GroundingKept DEF IInv, Conversing
    <2>2. UNCHANGED portVars /\ UNCHANGED positionVars /\ UNCHANGED importVars
      BY <1>1 DEF Conversing
    <2>3. PortsInv'
      BY <2>1, <2>2, PortsElsewhere DEF IInv
    <2>4. PositionsInv' /\ PositionsType' /\ PortsType' /\ ImportsType'
      BY <2>2 DEF IInv, TypeOK, PositionsInv, ShownPosition, PositionsType, PortsType, ImportsType,
                  positionVars, portVars, importVars
    <2>5. ImportsInv'
      BY <2>1, <2>2, ImportsElsewhere DEF IInv, importVars
    <2> QED BY <2>1, <2>3, <2>4, <2>5 DEF IInv, TypeOK, RequestTypes, ConversationsType
  <1>2. CASE LookingUp(PortsNext)
    <2>1. RequestTypes' /\ Kept("port") /\ PortsType' /\ PortsInv'
      BY <1>2, PortSteps DEF IInv, LookingUp
    <2>2. UNCHANGED conversationVars /\ UNCHANGED positionVars /\ UNCHANGED importVars
      BY <1>2 DEF LookingUp
    <2>3. Grounding'
      BY <2>1, <2>2, GroundingElsewhere DEF IInv, conversationVars
    <2>4. PositionsInv' /\ PositionsType' /\ ConversationsType' /\ ImportsType'
      BY <2>2 DEF IInv, TypeOK, PositionsInv, ShownPosition, PositionsType, ConversationsType,
                  ImportsType, positionVars, conversationVars, importVars
    <2>5. ImportsInv'
      BY <2>1, <2>2, ImportsElsewhere DEF IInv, importVars
    <2> QED BY <2>1, <2>3, <2>4, <2>5 DEF IInv, TypeOK, RequestTypes
  <1>3. CASE Positioning(PositionsNext)
    <2>1. RequestTypes' /\ PositionsType' /\ PositionsInv'
      BY <1>3, PositionSteps DEF IInv, Positioning
    <2>2. PICK kind \in {"entry", "batch"} : Kept(kind)
      BY <1>3, PositionSteps DEF IInv, Positioning
    <2>3. UNCHANGED conversationVars /\ UNCHANGED portVars /\ UNCHANGED importVars
      BY <1>3 DEF Positioning
    <2>4. kind # "turn" /\ kind # "port" /\ kind # "import"
      OBVIOUS
    <2>5. Grounding'
      BY <2>2, <2>3, <2>4, GroundingElsewhere DEF IInv, conversationVars
    <2>6. PortsInv'
      BY <2>2, <2>3, <2>4, PortsElsewhere DEF IInv
    <2>7. PortsType' /\ ConversationsType' /\ ImportsType'
      BY <2>3 DEF IInv, TypeOK, PortsType, ConversationsType, ImportsType,
                  portVars, conversationVars, importVars
    <2>8. ImportsInv'
      BY <2>2, <2>3, <2>4, ImportsElsewhere DEF IInv, importVars
    <2> QED BY <2>1, <2>5, <2>6, <2>7, <2>8 DEF IInv, TypeOK, RequestTypes
  <1>4. CASE Importing(ImportsNext)
    <2>1. RequestTypes' /\ Kept("import") /\ ImportsType' /\ ImportsInv'
      BY <1>4, ImportSteps DEF IInv, Importing
    <2>2. UNCHANGED conversationVars /\ UNCHANGED portVars /\ UNCHANGED positionVars
      BY <1>4 DEF Importing
    <2>3. Grounding'
      BY <2>1, <2>2, GroundingElsewhere DEF IInv, conversationVars
    <2>4. PortsInv'
      BY <2>1, <2>2, PortsElsewhere DEF IInv
    <2>5. PositionsInv' /\ PositionsType' /\ ConversationsType' /\ PortsType'
      BY <2>2 DEF IInv, TypeOK, PositionsInv, ShownPosition, PositionsType, ConversationsType,
                  PortsType, positionVars, conversationVars, portVars
    <2> QED BY <2>1, <2>3, <2>4, <2>5 DEF IInv, TypeOK, RequestTypes
  <1>5. CASE UNCHANGED vars
    <2>1. /\ UNCHANGED <<request, served>> /\ UNCHANGED conversationVars
          /\ UNCHANGED portVars /\ UNCHANGED positionVars /\ UNCHANGED importVars
      BY <1>5 DEF vars
    <2>2. Kept("idle") /\ RequestTypes'
      BY <2>1, StepElsewhere DEF IInv
    <2>3. Grounding'
      BY <2>1, <2>2, GroundingElsewhere DEF IInv, conversationVars
    <2>4. PortsInv'
      BY <2>1, <2>2, PortsElsewhere DEF IInv
    <2>5. ImportsInv'
      BY <2>1, <2>2, ImportsElsewhere DEF IInv, importVars
    <2>6. PositionsInv' /\ PositionsType' /\ ConversationsType' /\ PortsType' /\ ImportsType'
      BY <2>1 DEF IInv, TypeOK, PositionsInv, ShownPosition, PositionsType, ConversationsType,
                  PortsType, ImportsType, positionVars, conversationVars, portVars, importVars
    <2> QED BY <2>2, <2>3, <2>4, <2>5, <2>6 DEF IInv, TypeOK, RequestTypes
  <1> QED BY <1>1, <1>2, <1>3, <1>4, <1>5 DEF Next

\* The invariant, for any number of requests and any size of the pool.
LEMMA SharedPoolInvariant == Spec => []IInv
  BY SharedPoolInit, SharedPoolStep, PTL DEF Spec

-----------------------------------------------------------------------------

\* No request ever holds a connection the pool does not have, and requests,
\* tables and messages have their types (db/session.py).
THEOREM SharedPoolTypes == Spec => []TypeOK
  <1>1. IInv => TypeOK
    BY DEF IInv
  <1> QED BY <1>1, SharedPoolInvariant, PTL

\* No answer of the assistant that is stored names a figure that is more than
\* 5/9 of its last place from every figure a tool gave in its conversation, for
\* any number of turns, tool calls and figures, and however often answers round
\* what earlier ones have rounded (verify_numbers, _rounded_forms, #1244).
THEOREM AnswersAreGroundedHolds == Spec => []AnswersAreGrounded
  <1>1. IInv => AnswersAreGrounded
    BY DEF IInv, Grounding
  <1> QED BY <1>1, SharedPoolInvariant, PTL

\* Look-ups of one name of a port answer one place, however many overlap
\* (services/geocoding.py, _store).
THEOREM LookupsAgreeHolds == Spec => []LookupsAgree
  <1>1. IInv => LookupsAgree
    BY DEF IInv, PortsInv
  <1> QED BY <1>1, SharedPoolInvariant, PTL

\* The position shown is stored and is the newest since the last entry, for
\* any clock and any batches (update_current_position_if_newer).
THEOREM ShownPositionHolds == Spec => []ShownPosition
  <1>1. IInv => ShownPosition
    BY DEF IInv, PositionsInv
  <1> QED BY <1>1, SharedPoolInvariant, PTL

\* Active parameters are whole files, for any files and any number of imports
\* that overlap (_apply_versioned).
THEOREM ActiveRowsAreWholeFilesHolds == Spec => []ActiveRowsAreWholeFiles
  <1>1. IInv => ActiveRowsAreWholeFiles
    BY DEF IInv, ImportsInv
  <1> QED BY <1>1, SharedPoolInvariant, PTL

-----------------------------------------------------------------------------
(* No request goes on for ever.  That it ends also needs that it goes on,  *)
(* which the fairness of Spec says and TLC checks (RequestsEnd); here is   *)
(* why it cannot go in circles: a bound on the steps it still has, which   *)
(* its own steps lower and those of others leave.                          *)

\* The tools of a turn are numbered by MAX_TOOL_CALLS_PER_TURN.
TurnStepsLeft(r) ==
    IF r.step = "begun" THEN MaxTools + 3
    ELSE IF r.step = "asked" THEN MaxTools + 2
    ELSE IF r.step = "direct" THEN 1
    ELSE MaxTools - r.calls + 1

PortStepsLeft(r) == IF r.step = "queued" THEN 3 ELSE IF r.step = "outside" THEN 2 ELSE 1

\* One for each band that is not inserted yet.
ImportStepsLeft(r) ==
    IF r.step = "read" THEN Cardinality(r.file) + 2
    ELSE Cardinality(r.file \ BandsOf(r.rows)) + 1

StepsLeft(r) ==
    IF r.kind = "idle" THEN 0
    ELSE IF r.kind = "turn" THEN TurnStepsLeft(r)
    ELSE IF r.kind = "port" THEN PortStepsLeft(r)
    ELSE IF r.kind = "import" THEN ImportStepsLeft(r)
    ELSE 1

\* What is missing of a file is finite.
LEMMA MissingFinite ==
    ASSUME NEW r \in ImportRequest
    PROVE  /\ Cardinality(r.file) \in Nat
           /\ IsFiniteSet(r.file \ BandsOf(r.rows))
           /\ Cardinality(r.file \ BandsOf(r.rows)) \in Nat
           /\ Cardinality(r.file \ BandsOf(r.rows)) =< Cardinality(r.file)
  <1>1. IsFiniteSet(r.file)
    BY FilesAssumption DEF ImportRequest
  <1>2. (r.file \ BandsOf(r.rows)) \subseteq r.file
    OBVIOUS
  <1> QED BY <1>1, <1>2, FS_Subset, FS_CardinalityType

\* A request that is under way has a step left at least.
LEMMA StepsAreLeft ==
    /\ StepsLeft(Idle) = 0
    /\ \A r \in AnyRequest : StepsLeft(r) \in Nat /\ (r # Idle => StepsLeft(r) > 0)
  <1>1. StepsLeft(Idle) = 0
    BY Kinds DEF StepsLeft
  <1>2. ASSUME NEW r \in TurnRequest
        PROVE  StepsLeft(r) \in Nat /\ StepsLeft(r) > 0
    <2>1. r.kind = "turn" /\ r.calls \in 0..MaxTools
      BY DEF TurnRequest
    <2>2. TurnStepsLeft(r) \in Nat /\ TurnStepsLeft(r) > 0
      BY <2>1, HistoryAssumption DEF TurnStepsLeft
    <2> QED BY <2>1, <2>2 DEF StepsLeft
  <1>3. ASSUME NEW r \in PortRequest
        PROVE  StepsLeft(r) \in Nat /\ StepsLeft(r) > 0
    BY Kinds DEF StepsLeft, PortStepsLeft
  <1>4. ASSUME NEW r \in ImportRequest
        PROVE  StepsLeft(r) \in Nat /\ StepsLeft(r) > 0
    <2>1. ImportStepsLeft(r) \in Nat /\ ImportStepsLeft(r) > 0
      BY MissingFinite DEF ImportStepsLeft
    <2> QED BY <2>1, Kinds DEF StepsLeft
  <1>5. ASSUME NEW r \in EntryRequest \cup BatchRequest
        PROVE  StepsLeft(r) = 1
    BY Kinds DEF StepsLeft
  <1> QED BY <1>1, <1>2, <1>3, <1>4, <1>5 DEF AnyRequest

\* A step of a request lowers what it has left.
Shortens ==
    \A q \in Requests :
        request[q] # Idle /\ request'[q] # request[q] =>
            StepsLeft(request'[q]) < StepsLeft(request[q])

\* A request that begins had none,
LEMMA BeginShortens ==
    ASSUME TypeOK, NEW q \in Requests, NEW x, Begin(q, x)
    PROVE  Shortens
  BY OthersKept DEF Begin, Shortens

\* one that ends has none,
LEMMA EndShortens ==
    ASSUME TypeOK, NEW q \in Requests, End(q)
    PROVE  Shortens
  <1>1. request'[q] = Idle /\ \A r \in Requests \ {q} : request'[r] = request[r]
    BY OthersKept DEF End, Continue
  <1> QED BY <1>1, StepsAreLeft DEF Shortens, TypeOK

\* and one that goes on has fewer, if it says so.
LEMMA ContinueShortens ==
    ASSUME TypeOK, NEW q \in Requests, NEW x, Continue(q, x),
           StepsLeft(x) < StepsLeft(request[q])
    PROVE  Shortens
  BY OthersKept DEF Continue, Shortens

\* A turn goes from its question to its answer and calls each tool once more.
LEMMA TurnShortens ==
    ASSUME TypeOK, ConversationsNext
    PROVE  Shortens
  <1>r. \A q \in Requests : request[q].kind = "turn" =>
            /\ request[q] \in TurnRequest
            /\ request[q].calls \in 0..MaxTools
    <2>1. \A r \in TurnRequest : r.calls \in 0..MaxTools
      BY DEF TurnRequest
    <2>2. \A q \in Requests : request[q].kind = "turn" => request[q] \in TurnRequest
      BY OfKind DEF TypeOK
    <2> QED BY <2>1, <2>2
  <1>1. ASSUME UNCHANGED request
        PROVE  Shortens
    BY <1>1 DEF Shortens
  <1>2. ASSUME NEW q \in Requests, request[q].kind = "turn", NEW x, Continue(q, x),
               x.kind = "turn", TurnStepsLeft(x) < TurnStepsLeft(request[q])
        PROVE  Shortens
    BY <1>2, ContinueShortens DEF StepsLeft
  <1>3. ASSUME NEW q \in Requests, NEW screen \in BOOLEAN, BeginTurn(q, screen)
        PROVE  Shortens
    BY <1>3, BeginShortens DEF BeginTurn
  <1>4. ASSUME NEW q \in Requests, NEW figures, AddQuestion(q, figures)
        PROVE  Shortens
    <2>1. PICK x : x = [request[q] EXCEPT !.step = "asked"]
      OBVIOUS
    <2>2. Continue(q, x) /\ Doing(q, "turn", "begun")
      BY <1>4, <2>1, Zenon DEF AddQuestion
    <2>3. x.kind = "turn" /\ x.step = "asked"
      BY <1>r, <2>1, <2>2 DEF TurnRequest, Doing
    <2> QED BY <1>2, <2>2, <2>3, HistoryAssumption DEF TurnStepsLeft, Doing
  <1>5. ASSUME NEW q \in Requests, ReadHistory(q)
        PROVE  Shortens
    <2>1. PICK x : x = [request[q] EXCEPT !.step = "thinking", !.prior = PriorFigures(q)]
      OBVIOUS
    <2>2. Continue(q, x) /\ Doing(q, "turn", "asked")
      BY <1>5, <2>1, Zenon DEF ReadHistory
    <2>3. x.kind = "turn" /\ x.step = "thinking" /\ x.calls = request[q].calls
      BY <1>r, <2>1, <2>2 DEF TurnRequest, Doing
    <2>4. request[q].calls \in 0..MaxTools
      BY <1>r, <2>2 DEF Doing
    <2> QED BY <1>2, <2>2, <2>3, <2>4, HistoryAssumption DEF TurnStepsLeft, Doing
  <1>6. ASSUME NEW q \in Requests, NEW returned, GoDirect(q, returned)
        PROVE  Shortens
    <2>1. PICK x : x = [request[q] EXCEPT !.step = "direct", !.outputs = returned]
      OBVIOUS
    <2>2. Continue(q, x) /\ Doing(q, "turn", "asked")
      BY <1>6, <2>1, Zenon DEF GoDirect
    <2>3. x.kind = "turn" /\ x.step = "direct"
      BY <1>r, <2>1, <2>2 DEF TurnRequest, Doing
    <2> QED BY <1>2, <2>2, <2>3, HistoryAssumption DEF TurnStepsLeft, Doing
  <1>7. ASSUME NEW q \in Requests, NEW x, Continue(q, x), Doing(q, "turn", "thinking"),
               x.kind = "turn", x.step = "thinking", x.calls = request[q].calls + 1
        PROVE  Shortens
    <2>1. request[q].calls \in 0..MaxTools
      BY <1>7, <1>r DEF Doing
    <2>2. TurnStepsLeft(x) < TurnStepsLeft(request[q])
      BY <1>7, <2>1, HistoryAssumption DEF TurnStepsLeft, Doing
    <2> QED BY <1>2, <1>7, <2>2 DEF Doing
  <1>8. ASSUME NEW q \in Requests, NEW returned, CallTool(q, returned)
        PROVE  Shortens
    <2>1. PICK x : x = [request[q] EXCEPT !.calls = @ + 1, !.outputs = @ \cup returned]
      OBVIOUS
    <2>2. Continue(q, x) /\ Doing(q, "turn", "thinking")
      BY <1>8, <2>1, Zenon DEF CallTool
    <2>3. x.kind = "turn" /\ x.step = "thinking" /\ x.calls = request[q].calls + 1
      BY <1>r, <2>1, <2>2 DEF TurnRequest, Doing
    <2> QED BY <1>7, <2>2, <2>3
  <1>9. ASSUME NEW q \in Requests, SearchVessel(q)
        PROVE  Shortens
    <2>1. PICK x : x = [request[q] EXCEPT !.calls = @ + 1, !.vessel = TRUE, !.searched = TRUE]
      OBVIOUS
    <2>2. Continue(q, x) /\ Doing(q, "turn", "thinking")
      BY <1>9, <2>1, Zenon DEF SearchVessel
    <2>3. x.kind = "turn" /\ x.step = "thinking" /\ x.calls = request[q].calls + 1
      BY <1>r, <2>1, <2>2 DEF TurnRequest, Doing
    <2> QED BY <1>7, <2>2, <2>3
  <1>10. ASSUME NEW q \in Requests,
                \/ Refuse(q) \/ Discard(q) \/ TimeOut(q) \/ DeadlockVictim(q)
                \/ \E figures \in Named(Figures) : Reply(q, figures) \/ AnswerDirectly(q, figures)
         PROVE  Shortens
    <2>1. End(q)
      BY <1>10 DEF Refuse, Discard, TimeOut, DeadlockVictim, Reply, AnswerDirectly,
                   StoreAnswer, Commit, RollBack
    <2> QED BY <2>1, EndShortens
  <1>11. CASE Expire \/ Delete
    BY <1>1, <1>11 DEF Expire, Delete
  <1> QED BY <1>3, <1>4, <1>5, <1>6, <1>8, <1>9, <1>10, <1>11 DEF ConversationsNext

\* A look-up goes through its three steps.
LEMMA PortShortens ==
    ASSUME TypeOK, PortsNext
    PROVE  Shortens
  <1>r. \A q \in Requests : request[q].kind = "port" => request[q] \in PortRequest
    BY OfKind DEF TypeOK
  <1>1. ASSUME NEW q \in Requests, NEW name, AnswerFromCache(q, name)
        PROVE  Shortens
    BY <1>1 DEF AnswerFromCache, Shortens
  <1>2. ASSUME NEW q \in Requests, NEW name, QueueLookup(q, name)
        PROVE  Shortens
    BY <1>2, BeginShortens DEF QueueLookup
  <1>3. ASSUME NEW q \in Requests, GoOutside(q)
        PROVE  Shortens
    <2>1. PICK x : x = [request[q] EXCEPT !.step = "outside"]
      OBVIOUS
    <2>2. Continue(q, x) /\ Doing(q, "port", "queued")
      BY <1>3, <2>1, Zenon DEF GoOutside
    <2>3. x.kind = "port" /\ x.step = "outside"
      BY <1>r, <2>1, <2>2 DEF PortRequest, Doing
    <2> QED BY <2>2, <2>3, ContinueShortens DEF StepsLeft, PortStepsLeft, Doing
  <1>4. ASSUME NEW q \in Requests, NEW place, Found(q, place)
        PROVE  Shortens
    <2>1. PICK x : x = [request[q] EXCEPT !.step = "found", !.place = place]
      OBVIOUS
    <2>2. Continue(q, x) /\ Doing(q, "port", "outside")
      BY <1>4, <2>1, Zenon DEF Found
    <2>3. x.kind = "port" /\ x.step = "found"
      BY <1>r, <2>1, <2>2 DEF PortRequest, Doing
    <2> QED BY <2>2, <2>3, ContinueShortens DEF StepsLeft, PortStepsLeft, Doing
  <1>5. ASSUME NEW q \in Requests, GiveUpQueue(q) \/ NotFound(q) \/ Store(q) \/ StoreTimesOut(q)
        PROVE  Shortens
    <2>1. End(q)
      BY <1>5 DEF GiveUpQueue, NotFound, Store, StoreTimesOut
    <2> QED BY <2>1, EndShortens
  <1> QED BY <1>1, <1>2, <1>3, <1>4, <1>5 DEF PortsNext

\* An entry and a batch have one step.
LEMMA PositionShortens ==
    ASSUME TypeOK, PositionsNext
    PROVE  Shortens
  <1>1. PICK q \in Requests :
            \/ \E what \in {"position", "state"}, time \in 1..MaxTime : Enter(q, what, time)
            \/ SaveEntry(q) \/ StartBatch(q)
            \/ \E times \in SUBSET (1..MaxTime) : Deliver(q, times)
    BY DEF PositionsNext
  <1>2. End(q) \/ \E x : Begin(q, x)
    BY <1>1 DEF Enter, SaveEntry, StartBatch, Deliver
  <1> QED BY <1>2, BeginShortens, EndShortens

\* An import turns the rows it read off once and inserts each band once.
LEMMA ImportShortens ==
    ASSUME TypeOK, ImportsNext
    PROVE  Shortens
  <1>r. \A q \in Requests : request[q].kind = "import" => request[q] \in ImportRequest
    BY OfKind DEF TypeOK
  <1>1. ASSUME NEW q \in Requests, NEW file, StartImport(q, file)
        PROVE  Shortens
    BY <1>1, BeginShortens DEF StartImport
  <1>2. ASSUME NEW q \in Requests, StorageRefuses(q) \/ CommitImport(q)
        PROVE  Shortens
    BY <1>2, EndShortens DEF StorageRefuses, CommitImport
  <1>3. ASSUME NEW q \in Requests, TurnOff(q)
        PROVE  Shortens
    <2>1. PICK x : x = [request[q] EXCEPT !.step = "replacing"]
      OBVIOUS
    <2>2. Continue(q, x) /\ Doing(q, "import", "read")
      BY <1>3, <2>1, Zenon DEF TurnOff
    <2>3. /\ x.kind = "import" /\ x.step = "replacing"
          /\ x.file = request[q].file /\ x.rows = request[q].rows
      BY <1>r, <2>1, <2>2 DEF ImportRequest, Doing
    <2>4. PICK all \in Nat, missing \in Nat :
            /\ all = Cardinality(request[q].file)
            /\ missing = Cardinality(request[q].file \ BandsOf(request[q].rows))
            /\ missing =< all
      BY <1>r, <2>2, MissingFinite DEF Doing
    <2>5. ImportStepsLeft(request[q]) = all + 2
      BY <2>2, <2>4 DEF ImportStepsLeft, Doing
    <2>6. ImportStepsLeft(x) = missing + 1
      BY <2>3, <2>4 DEF ImportStepsLeft
    <2>7. ImportStepsLeft(x) < ImportStepsLeft(request[q])
      BY <2>4, <2>5, <2>6
    <2> QED BY <2>2, <2>3, <2>7, ContinueShortens DEF StepsLeft, Doing
  <1>4. ASSUME NEW q \in Requests, NEW band, Insert(q, band)
        PROVE  Shortens
    <2>1. PICK row : row = [by |-> request[q].by, file |-> request[q].file, band |-> band,
                            saw |-> Importers(request[q].replaces)]
      OBVIOUS
    <2>2. PICK x : x = [request[q] EXCEPT !.rows = @ \cup {row}]
      OBVIOUS
    <2>3. Continue(q, x) /\ Doing(q, "import", "replacing") /\ band \in Missing(q)
      BY <1>4, <2>1, <2>2, Zenon DEF Insert
    <2>4. request[q] \in ImportRequest
      BY <1>r, <2>3 DEF Doing
    <2>5. /\ x.kind = "import" /\ x.step = "replacing"
          /\ x.file = request[q].file /\ x.rows = request[q].rows \cup {row}
      BY <2>2, <2>3, <2>4 DEF ImportRequest, Doing
    <2>6. row.band = band
      BY <2>1
    <2>7. x.file \ BandsOf(x.rows) = Missing(q) \ {band}
      BY <2>5, <2>6 DEF Missing, BandsOf
    <2>8. IsFiniteSet(Missing(q)) /\ Cardinality(Missing(q)) \in Nat
      BY <2>4, MissingFinite DEF Missing
    <2>9. Cardinality(Missing(q) \ {band}) = Cardinality(Missing(q)) - 1
      BY <2>3, <2>8, FS_RemoveElement
    <2>10. ImportStepsLeft(x) = Cardinality(Missing(q) \ {band}) + 1
      BY <2>5, <2>7 DEF ImportStepsLeft
    <2>11. ImportStepsLeft(request[q]) = Cardinality(Missing(q)) + 1
      BY <2>3 DEF ImportStepsLeft, Doing, Missing
    <2>12. ImportStepsLeft(x) < ImportStepsLeft(request[q])
      BY <2>8, <2>9, <2>10, <2>11
    <2> QED BY <2>3, <2>5, <2>12, ContinueShortens DEF StepsLeft, Doing
  <1> QED BY <1>1, <1>2, <1>3, <1>4 DEF ImportsNext

\* Whatever requests overlap, none takes more than MaxTools + 3 steps as a
\* turn, three as a look-up, one as an entry or a batch, and two more than its
\* file has bands as an import: no retry, loop of tools or queue of the code
\* makes a request that holds a connection begin again.
THEOREM RequestsShorten == Spec => [][Shortens]_vars
  <1>1. IInv /\ [Next]_vars => (UNCHANGED vars \/ Shortens)
    BY TurnShortens, PortShortens, PositionShortens, ImportShortens
    DEF IInv, Next, Conversing, LookingUp, Positioning, Importing
  <1> QED BY <1>1, SharedPoolInvariant, PTL DEF Spec

===============================================================================
