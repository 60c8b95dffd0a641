---------------------------- MODULE Conversations ----------------------------
(***************************************************************************)
(* One conversation with the assistant: services/chat.py over              *)
(* db/repositories/chat.py, with the routes that ask and delete            *)
(* (api/routes/chat.py).                                                   *)
(*                                                                         *)
(* A turn is one transaction, cut off after a time limit: it stores the    *)
(* question, lets the model call tools, and stores the answer only if      *)
(* every figure in it is one that a tool of the turn or an earlier answer  *)
(* gave, or that one rounded.  The model may answer anything, and a tool   *)
(* may return any figures or none.  The vessel a conversation is about is  *)
(* abstracted to whether it is known.                                      *)
(*                                                                         *)
(* A figure is what extract_numbers finds: bare numbers of one digit and   *)
(* years are none.  It is a number of units of the last place any tool     *)
(* gives; its sign, which rounding keeps, is left out.                     *)
(***************************************************************************)
EXTENDS Connections, Integers, FiniteSetsExt

CONSTANTS
    Figures,      \* figures that tools, users and the model may name
    Quanta,       \* what the last place of a rounded figure is worth (_DISPLAY_PLACES)
    Originals,    \* bound: those of the figures that users and tools name
    MaxNamed,     \* bound: figures in one message or result of a tool
    MaxTools,     \* tool calls of a turn (MAX_TOOL_CALLS_PER_TURN)
    MaxHistory    \* messages of the history shown (MAX_HISTORY_TURNS)

ASSUME HistoryAssumption == MaxTools \in Nat /\ MaxHistory \in Nat

\* Each place is worth ten times the next, or a hundred, or a thousand.
ASSUME FiguresAssumption ==
    /\ Originals \subseteq Figures /\ Figures \subseteq Nat
    /\ Quanta \subseteq Nat \ {0}
    /\ \A fine, coarse \in Quanta : fine < coarse => coarse % (10 * fine) = 0

VARIABLES
    conversation,   \* the chat_session row
    messages        \* its chat_message rows, uncommitted ones too

\* A new conversation is seen by others when its first turn commits.
Conversation == [state : {"none", "new", "live", "expired", "deleted"}, vessel : BOOLEAN]

\* `at' is the sent_at of the row, as a place in the order of all of them;
\* `tools' is what the tools of the turn returned, for the property only.
Message ==
    [at : Nat, turn : 1..MaxRequests, role : {"question", "answer"},
     figures : SUBSET Figures, tools : SUBSET Figures]

TurnRequest ==
    [kind : {"turn"}, step : {"begun", "asked", "thinking", "direct"},
     connected : {TRUE}, turn : 1..MaxRequests, screen : BOOLEAN, vessel : BOOLEAN,
     searched : BOOLEAN, calls : 0..MaxTools, outputs : SUBSET Figures,
     prior : SUBSET Figures]

ConversationsType ==
    /\ conversation \in Conversation
    /\ messages \subseteq Message

Named(figures) == {named \in SUBSET figures : Cardinality(named) =< MaxNamed}

\* ROUND_HALF_UP to a place worth `quantum'.
Rounded(figure, quantum) ==
    ((2 * figure + quantum) \div (2 * quantum)) * quantum

\* What verify_numbers admits for these figures: themselves, and each of them
\* in every place that is displayed.
RoundedForms(figures) ==
    figures \cup {Rounded(figure, quantum) : figure \in figures, quantum \in Quanta}

ConversationsInit ==
    /\ conversation = [state |-> "none", vessel |-> FALSE]
    /\ messages = {}

AddMessage(turn, role, figures, tools) ==
    LET last == Max({m.at : m \in messages} \cup {0})
    IN  messages' = messages \cup {[at |-> last + 1, turn |-> turn, role |-> role,
                                    figures |-> figures, tools |-> tools]}

Turns == {q \in Requests : request[q].kind = "turn"}

\* Storing a message takes a shared lock on the conversation's row (the
\* foreign key), which a search that has written excludes.
Asked == {q \in Turns : request[q].step # "begun"}

\* `screen' says whether the screen names the vessel; otherwise it is the one
\* of the conversation.
BeginTurn(q, screen) ==
    /\ conversation.state \in {"none", "live"}
    /\ Begin(q, [kind |-> "turn", step |-> "begun", connected |-> TRUE,
                 turn |-> served + 1, screen |-> screen,
                 vessel |-> screen \/ conversation.vessel,
                 searched |-> FALSE, calls |-> 0, outputs |-> {}, prior |-> {}])
    /\ conversation' = [conversation EXCEPT !.state = IF @ = "none" THEN "new" ELSE @]
    /\ UNCHANGED messages

AddQuestion(q, typed) ==
    /\ Doing(q, "turn", "begun")
    /\ conversation.state \in {"new", "live"}
    /\ \A r \in Turns : ~request[r].searched
    /\ AddMessage(request[q].turn, "question", typed, {})
    /\ Continue(q, [request[q] EXCEPT !.step = "asked"])
    /\ UNCHANGED conversation

\* The conversation has expired or been deleted since it was found.
Refuse(q) ==
    /\ Doing(q, "turn", "begun")
    /\ conversation.state \in {"expired", "deleted"}
    /\ End(q)
    /\ UNCHANGED <<conversation, messages>>

\* What the transaction of q sees: its own rows and committed ones.
Visible(q) ==
    {m \in messages : \A r \in Turns \ {q} : m.turn # request[r].turn}

Window(q) ==
    {m \in Visible(q) : Cardinality({n \in Visible(q) : n.at > m.at}) < MaxHistory}

\* Mutant: figures of the questions are admitted as well.
PriorAndTyped(q) == UNION {m.figures : m \in Window(q)}

\* The figures of the answers shown, from the first question on.
PriorFigures(q) ==
    LET AfterAQuestion(m) == \E n \in Window(q) : n.role = "question" /\ n.at < m.at
    IN  UNION {m.figures : m \in {m \in Window(q) : m.role = "answer" /\ AfterAQuestion(m)}}

ReadHistory(q) ==
    /\ Doing(q, "turn", "asked")
    /\ Continue(q, [request[q] EXCEPT !.step = "thinking", !.prior = PriorFigures(q)])
    /\ UNCHANGED <<conversation, messages>>

\* The question of the year's end, of a known vessel, runs its tool at once.
GoDirect(q, returned) ==
    /\ Doing(q, "turn", "asked")
    /\ request[q].vessel
    /\ returned # {}
    /\ Continue(q, [request[q] EXCEPT !.step = "direct", !.outputs = returned])
    /\ UNCHANGED <<conversation, messages>>

CallTool(q, returned) ==
    /\ Doing(q, "turn", "thinking")
    /\ request[q].calls < MaxTools
    /\ Continue(q, [request[q] EXCEPT !.calls = @ + 1, !.outputs = @ \cup returned])
    /\ UNCHANGED <<conversation, messages>>

\* A search that finds one vessel writes the conversation's row: it waits for
\* every other turn that has stored a question.
SearchVessel(q) ==
    /\ Doing(q, "turn", "thinking")
    /\ request[q].calls < MaxTools
    /\ ~request[q].screen
    /\ Asked = {q}
    /\ Continue(q, [request[q] EXCEPT !.calls = @ + 1, !.vessel = TRUE, !.searched = TRUE])
    /\ UNCHANGED <<conversation, messages>>

Commit(q) ==
    /\ conversation' = [conversation EXCEPT
                           !.state = IF @ = "new" THEN "live" ELSE @,
                           !.vessel = @ \/ request[q].searched]
    /\ End(q)

RollBack(q) ==
    /\ conversation' = [conversation EXCEPT !.state = IF @ = "new" THEN "none" ELSE @]
    /\ messages' = {m \in messages : m.turn # request[q].turn}
    /\ End(q)

StoreAnswer(q, figures) ==
    /\ AddMessage(request[q].turn, "answer", figures, request[q].outputs)
    /\ Commit(q)

\* An answer with another figure is discarded.  Those of earlier answers, some
\* of them rounded already, may be rounded again.
Reply(q, figures) ==
    /\ Doing(q, "turn", "thinking")
    /\ figures \subseteq RoundedForms(request[q].outputs \cup request[q].prior)
    /\ StoreAnswer(q, figures)

\* The model wrote from what the tool returned, or the server does.
AnswerDirectly(q, figures) ==
    /\ Doing(q, "turn", "direct")
    /\ figures \subseteq RoundedForms(request[q].outputs)
    /\ StoreAnswer(q, figures)

\* A failure of the model, a refusal, too many tools or a figure from nowhere:
\* the question stays without an answer.
Discard(q) ==
    /\ Doing(q, "turn", "thinking")
    /\ Commit(q)
    /\ UNCHANGED messages

\* Mutant: the limit covers the calls of the model only.
TimeOutOfModel(q) ==
    /\ Doing(q, "turn", "thinking")
    /\ \/ Commit(q) /\ UNCHANGED messages
       \/ RollBack(q)

\* The time limit covers the whole turn.  What was stored is committed, unless
\* the connection broke.
TimeOut(q) ==
    /\ q \in Turns
    /\ \/ Commit(q) /\ UNCHANGED messages
       \/ RollBack(q)

MaySearch(q) ==
    /\ Doing(q, "turn", "thinking")
    /\ ~request[q].screen /\ request[q].calls < MaxTools

\* Two turns of the conversation search, and each waits for the shared lock of
\* the other: the database ends one of them.
DeadlockVictim(q) ==
    /\ MaySearch(q)
    /\ \E r \in Requests \ {q} : MaySearch(r)
    /\ RollBack(q)

Expire ==
    /\ conversation.state = "live"
    /\ conversation' = [conversation EXCEPT !.state = "expired"]
    /\ UNCHANGED <<request, served, messages>>

\* By its user, with the account, or by the purge once it has expired: waits
\* for the turns that have stored a question.
Delete ==
    /\ conversation.state \in {"live", "expired"}
    /\ Asked = {}
    /\ conversation' = [state |-> "deleted", vessel |-> FALSE]
    /\ messages' = {}
    /\ UNCHANGED <<request, served>>

ConversationsNext ==
    \/ Expire \/ Delete
    \/ \E q \in Requests :
          \/ \E screen \in BOOLEAN : BeginTurn(q, screen)
          \/ Refuse(q) \/ ReadHistory(q) \/ SearchVessel(q) \/ Discard(q)
          \/ TimeOut(q) \/ DeadlockVictim(q)
          \/ \E figures \in Named(Originals) :
                AddQuestion(q, figures) \/ GoDirect(q, figures) \/ CallTool(q, figures)
          \/ \E figures \in Named(Figures) :
                Reply(q, figures) \/ AnswerDirectly(q, figures)

\* `figure' is `given', or shows it to a place of which it is at most 5/9 off:
\* half of it is what rounding once can do, and each earlier rounding, to a
\* place worth a tenth or less, adds at most a tenth of what is there.
Near(given, figure) ==
    \/ figure = given
    \/ \E quantum \in Quanta :
          /\ figure % quantum = 0
          /\ 9 * (figure - given) =< 5 * quantum
          /\ 9 * (given - figure) =< 5 * quantum

Grounded(figures, given) == \A figure \in figures : \E g \in given : Near(g, figure)

\* Every figure of a stored answer is near one that a tool returned in a turn
\* whose answer is stored at or before it, in the same conversation.  Answers
\* that quote answers may round what was rounded (44.449, 44.45, 44.5, 45), so
\* it need not be a rounding of any such figure; but it never drifts further,
\* whatever is quoted and whatever turns overlap, time out or are rolled back
\* (verify_numbers, #1244).
AnswersAreGrounded ==
    \A m \in messages :
        m.role = "answer" =>
            Grounded(m.figures, UNION {n.tools : n \in {n \in messages : n.at =< m.at}})
=============================================================================
