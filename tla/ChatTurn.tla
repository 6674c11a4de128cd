------------------------------- MODULE ChatTurn -------------------------------
(***************************************************************************)
(* Chat turns and the rows they leave:                                     *)
(*   application/chat_manager.py       respond, _run_agent, the fallback   *)
(*   application/langgraph_agent.py    the graph of a model and a tool node *)
(*   persistence/repositories.py       ChatMessageRepository               *)
(*   presentation/web/routes.py        chat_message                        *)
(*   persistence/database.py           session, and the pool of its engine *)
(*                                                                         *)
(* A turn is suspended while a text is embedded, while the model answers   *)
(* and while a tool runs.  Its two rows are added and committed without a  *)
(* suspension in between, so the end of a turn is one step.                *)
(*                                                                         *)
(* A turn keeps the connection of its first query until it ends, over all  *)
(* its suspensions, and so do the handlers that connect a server or run a  *)
(* tool (the holders).  Who finds the pool empty waits for a connection on *)
(* the event loop itself: nothing else runs there until one comes back     *)
(* from a worker thread, or the pool gives up.                             *)
(***************************************************************************)
EXTENDS Integers, Sequences, FiniteSets

CONSTANTS
    Requests,        \* chat messages, in flight together or not
    Earlier,         \* turns in the table from before the process started
    Chats,           \* pairs of a user and a session
    HistoryLimit,    \* rows given to the model as memory (12 in _run_agent)
    RecursionLimit,  \* supersteps of the graph (8 in _run_agent)
    MaxCalls,        \* bound: tool calls in one message of the model
    Holders,         \* handlers that await a server while they hold a connection
    PoolSize,        \* connections of the engine (the pool and its overflow)
    None

ASSUME ChatAssumption ==
    /\ HistoryLimit \in Nat
    /\ RecursionLimit \in Nat \ {0}
    /\ MaxCalls \in Nat \ {0}
    /\ PoolSize \in Nat \ {0}
    /\ IsFiniteSet(Requests) /\ IsFiniteSet(Holders)
    /\ None \notin Chats
    /\ Earlier \cap Requests = {}

VARIABLES
    history,         \* the table chat_messages, in the order of its ids
    turn,            \* Requests -> where the request is and its locals
    cached,          \* chats with an answer in the semantic cache
    holder,          \* Holders -> where the handler is
    threads          \* connections held by worker threads (audits, logins)

pool == <<holder, threads>>
vars == <<history, turn, cached, holder, threads>>

Places == {"idle", "waiting", "looking", "model", "tools", "selecting", "falling", "rephrasing",
           "storing", "done", "failed", "told", "lost"}

\* A request ends done, answered by the agent or the cache; failed, answered with
\* the agent's error; told, answered with a notice of the host's; or lost.
Final == {"done", "failed", "told", "lost"}
Rows == [chat : Chats, turn : Requests \cup Earlier, role : {"user", "assistant"}]

\* memory holds the ids of the rows given to the model.  steps counts the
\* supersteps of the graph, calls the tool calls not yet answered, acted says
\* whether a tool message exists, ran whether a tool of a server was really run.
Turns == [at : Places, chat : Chats \cup {None}, memory : SUBSET Nat,
          steps : 0..RecursionLimit, calls : 0..MaxCalls, acted : BOOLEAN, ran : BOOLEAN]

\* Every variable stays in its type.
TypeOK ==
    /\ history \in Seq(Rows)
    /\ turn \in [Requests -> Turns]
    /\ cached \subseteq Chats
    /\ holder \in [Holders -> {"idle", "waiting", "holding", "gone"}]
    /\ threads \in 0..PoolSize

Idle == [at |-> "idle", chat |-> None, memory |-> {}, steps |-> 0, calls |-> 0,
         acted |-> FALSE, ran |-> FALSE]

\* add_message, once for the question and once for the answer of a turn.
Row(c, r, role) == [chat |-> c, turn |-> r, role |-> role]
Pair(c, r) == <<Row(c, r, "user"), Row(c, r, "assistant")>>

Init ==
    /\ history \in {<<>>} \cup {Pair(c, e) : c \in Chats, e \in Earlier}
    /\ turn = [r \in Requests |-> Idle]
    /\ cached = {}
    /\ holder = [k \in Holders |-> "idle"]
    /\ threads = 0

-----------------------------------------------------------------------------
\* A turn holds its connection from its first query to the commit or rollback.
Holds(r) == turn[r].at \notin {"idle", "waiting"} \cup Final

\* The connections of the pool that nobody holds.
Free == PoolSize - Cardinality({r \in Requests : Holds(r)})
                 - Cardinality({k \in Holders : holder[k] = "holding"}) - threads

\* Nobody waits for a connection on the event loop.
LoopFree == /\ \A r \in Requests : turn[r].at # "waiting"
            /\ \A k \in Holders : holder[k] # "waiting"

\* The request goes on as t and leaves no row yet.
Continue(r, t) == turn' = [turn EXCEPT ![r] = t] /\ UNCHANGED <<history, cached>>
Move(r, p) == Continue(r, [turn[r] EXCEPT !.at = p])

\* Mutant: the rows of every chat are selected.
RowsOfAll(c) == DOMAIN history

\* The rows of a chat by their ids, their places in the table.  What
\* list_recent_messages returns of them is in ascending order, and then LIMIT.
RowsOf(c) == {i \in DOMAIN history : history[i].chat = c}
ListRecent(c, limit) ==
    {i \in RowsOf(c) : Cardinality({j \in RowsOf(c) : j < i}) < limit}

\* The first query has its connection: the memory is read, and the text of the
\* lookup goes to be embedded.  A blank message is answered with a hint instead,
\* in no row; a query or a commit that fails redirects the browser.
Reads(r, c) ==
    \/ Continue(r, [Idle EXCEPT !.at = "looking", !.chat = c,
                                !.memory = ListRecent(c, HistoryLimit)])
    \/ \E p \in {"told", "lost"} : Continue(r, [Idle EXCEPT !.at = p, !.chat = c])

\* A chat message arrives; its first query takes a connection or waits for one.
Ask(r) ==
    /\ turn[r].at = "idle"
    /\ \E c \in Chats : IF Free > 0 THEN Reads(r, c)
                        ELSE Continue(r, [Idle EXCEPT !.at = "waiting", !.chat = c])

\* Mutant: the pool waits without a limit.
PatientPool(r) == turn[r].at = "waiting" /\ Free > 0 /\ Reads(r, turn[r].chat)

\* A connection came back, or the pool gave up: its TimeoutError is no
\* EnterpriseMCPError, and the browser is redirected.
WaitEnds(r) ==
    /\ turn[r].at = "waiting"
    /\ IF Free > 0 THEN Reads(r, turn[r].chat) ELSE Move(r, "lost")

\* Mutant: the rows added before an error stay, and the error adds its own.
EndsTwice(r, t, p) ==
    LET rows == Pair(turn[r].chat, r)
    IN  \/ history' = history \o rows /\ turn' = [turn EXCEPT ![r] = [t EXCEPT !.at = p]]
        \/ /\ history' = Append(history, rows[1]) \o rows
           /\ turn' = [turn EXCEPT ![r] = [t EXCEPT !.at = "failed"]]

\* respond adds the user's row and the assistant's, and the session commits.
\* When a flush fails, the exception handler meets the same broken transaction;
\* then, or when the commit fails, no row is left and the browser is redirected.
Ends(r, t, p) ==
    \/ /\ history' = history \o Pair(turn[r].chat, r)
       /\ turn' = [turn EXCEPT ![r] = [t EXCEPT !.at = p]]
    \/ /\ history' = history
       /\ turn' = [turn EXCEPT ![r] = [t EXCEPT !.at = "lost"]]

Answers(r, t) == Ends(r, t, "done") /\ UNCHANGED cached

\* An exception in _run_agent: its text becomes the recorded answer.  An
\* ImportError is answered with the advice to install, in no row.
Errs(r, t) ==
    \/ Ends(r, t, "failed") /\ UNCHANGED cached
    \/ Continue(r, [t EXCEPT !.at = "told"])

\* The cache holds an answer of the chat that used no tool.
CacheHit(r) ==
    /\ turn[r].at = "looking"
    /\ turn[r].chat \in cached
    /\ Answers(r, turn[r])

CacheMiss(r) == turn[r].at = "looking" /\ Move(r, "model")

-----------------------------------------------------------------------------
\* Mutant: the graph has no recursion limit.
StepUnlimited(r, t) == Continue(r, t)

\* Mutant: the limit is checked one superstep too late.
StepLate(r, t) ==
    IF turn[r].steps <= RecursionLimit
    THEN Continue(r, [t EXCEPT !.steps = @ + 1])
    ELSE Errs(r, t)

\* The graph takes one more superstep; at the limit it raises instead, and
\* respond answers with the error.
Step(r, t) ==
    IF turn[r].steps + 1 < RecursionLimit
    THEN Continue(r, [t EXCEPT !.steps = @ + 1])
    ELSE Errs(r, [t EXCEPT !.steps = @ + 1])

\* call_model: the model asks for tools.
ModelCalls(r) ==
    /\ turn[r].at = "model"
    /\ \E n \in 1..MaxCalls : Step(r, [turn[r] EXCEPT !.at = "tools", !.calls = n])

\* Mutant: the selection follows every answer.
ModelAnswersAgain(r) == turn[r].at = "model" /\ Move(r, "selecting")

\* call_model: the model answers.  Without a tool message a selection is asked
\* for (retrieve_documents is always among the aliases); with one, nothing is
\* stored in the cache and the turn ends.
ModelAnswers(r) ==
    /\ turn[r].at = "model"
    /\ IF turn[r].acted THEN Answers(r, turn[r]) ELSE Move(r, "selecting")

\* The model cannot be loaded, or a request to it raises.
ModelFails(r) ==
    /\ turn[r].at \in {"looking", "model", "selecting", "rephrasing"}
    /\ Errs(r, turn[r])

\* call_tools, one tool call: the tool ran, or its error became the content of
\* the message (an unknown alias, a refusal, an EnterpriseMCPError).
ToolAnswers(r) ==
    /\ turn[r].at = "tools"
    /\ \E ran \in {turn[r].ran, TRUE} :
          LET t == [turn[r] EXCEPT !.calls = @ - 1, !.acted = TRUE, !.ran = ran]
          IN  IF t.calls > 0 THEN Continue(r, t) ELSE Step(r, [t EXCEPT !.at = "model"])

\* call_tools: any other exception (the server of the tool is not connected any
\* more, the rules cannot be read) ends the graph and the turn; call_tool turns
\* what happens after the request into a ToolExecutionError.
ToolRaises(r) == turn[r].at = "tools" /\ Errs(r, turn[r])

-----------------------------------------------------------------------------
\* _select_and_execute_tool: no alias, or none that is known.
SelectsNothing(r) == turn[r].at = "selecting" /\ Move(r, "storing")

SelectsTool(r) == turn[r].at = "selecting" /\ Move(r, "falling")

\* The selected tool ran or was refused, and its result is to be rephrased.
FallbackAnswers(r) ==
    /\ turn[r].at = "falling"
    /\ \E ran \in BOOLEAN :
          Continue(r, [turn[r] EXCEPT !.at = "rephrasing", !.acted = TRUE, !.ran = ran])

FallbackRaises(r) == turn[r].at = "falling" /\ Errs(r, turn[r])

\* _rephrase_tool_result: the turn ends with the rephrased result.
Rephrased(r) == turn[r].at = "rephrasing" /\ Answers(r, turn[r])

\* The answer is stored in the cache, or its embedding failed: the turn ends.
Stored(r) ==
    /\ turn[r].at = "storing"
    /\ Ends(r, turn[r], "done")
    /\ cached' \in {cached, cached \cup {turn[r].chat}}

-----------------------------------------------------------------------------
Answering(r) ==
    \/ CacheHit(r) \/ CacheMiss(r)
    \/ ModelCalls(r) \/ ModelAnswers(r) \/ ModelFails(r)
    \/ ToolAnswers(r) \/ ToolRaises(r)
    \/ SelectsNothing(r) \/ SelectsTool(r) \/ FallbackAnswers(r) \/ FallbackRaises(r)
    \/ Rephrased(r) \/ Stored(r)

-----------------------------------------------------------------------------
Becomes(k, p) == holder' = [holder EXCEPT ![k] = p] /\ UNCHANGED threads

\* connect_server reads the rules of the server, and execute_tool those of the
\* tool, before the server is awaited.
HolderAsks(k) == holder[k] = "idle" /\ Becomes(k, IF Free > 0 THEN "holding" ELSE "waiting")

HolderWaitEnds(k) ==
    holder[k] = "waiting" /\ Becomes(k, IF Free > 0 THEN "holding" ELSE "gone")

\* The server answered or failed, and the session is closed.
HolderReturns(k) == holder[k] = "holding" /\ Becomes(k, "gone")

\* A worker thread writes an audit record or looks up a login.
ThreadTakes == Free > 0 /\ threads' = threads + 1 /\ UNCHANGED holder
ThreadReturns == threads > 0 /\ threads' = threads - 1 /\ UNCHANGED holder

-----------------------------------------------------------------------------
\* What the event loop may run when nobody stops it.
OnLoop ==
    /\ LoopFree
    /\ \/ (\E r \in Requests : Ask(r) \/ Answering(r)) /\ UNCHANGED pool
       \/ (\E k \in Holders : HolderAsks(k) \/ HolderReturns(k))
          /\ UNCHANGED <<history, turn, cached>>

StallEnds ==
    \/ (\E r \in Requests : WaitEnds(r)) /\ UNCHANGED pool
    \/ (\E k \in Holders : HolderWaitEnds(k)) /\ UNCHANGED <<history, turn, cached>>

OnThreads == (ThreadTakes \/ ThreadReturns) /\ UNCHANGED <<history, turn, cached>>

Next == OnLoop \/ StallEnds \/ OnThreads

Spec == Init /\ [][Next]_vars

\* The model and the tools answer or fail, the loop runs what is ready, and the
\* pool counts the seconds of a wait.
FairSpec ==
    /\ Spec
    /\ WF_vars(StallEnds)
    /\ \A r \in Requests : WF_vars(LoopFree /\ Answering(r) /\ UNCHANGED pool)

-----------------------------------------------------------------------------
RowCount(r) == Cardinality({i \in DOMAIN history : history[i].turn = r})

\* A turn that the agent answered, with its error or not, left its question and
\* its answer exactly once; one answered with a notice of the host's (a blank
\* message, a missing dependency) or lost left nothing, and no turn leaves rows
\* before it ends (respond).
RecordedOnce ==
    \A r \in Requests : RowCount(r) = IF turn[r].at \in {"done", "failed"} THEN 2 ELSE 0

\* The memory given to the model is made of whole turns of the same user and
\* session: with each question comes its answer, with each answer its question,
\* and no other row between them (list_recent_messages with an even limit,
\* add_message).
MemoryIsWhole ==
    \A r \in Requests : LET memory == turn[r].memory IN
       \A i \in memory :
          /\ history[i].chat = turn[r].chat
          /\ \E j \in memory :
                /\ history[j].turn = history[i].turn /\ history[j].role # history[i].role
                /\ i < j <=> history[i].role = "user"
                /\ \A k \in memory : ~(i < k /\ k < j) /\ ~(j < k /\ k < i)

\* The selection that runs a tool outside the graph, and the store in the
\* cache, are reached only by turns in which the graph ran no tool (_run_agent).
FallbackIsFirst ==
    \A r \in Requests : turn[r].at \in {"selecting", "falling", "storing"} => ~turn[r].ran

\* A turn ends even if the model asks for tools whenever it is asked: the
\* recursion limit cuts the graph (_run_agent, build_graph).
TurnsEnd ==
    \A r \in Requests : turn[r].at = "looking" ~> turn[r].at \in Final

\* The event loop is never stopped for ever: turns and handlers that hold every
\* connection, and would return one only if the loop ran, wait for each other
\* no longer than the pool lets one of them wait (chat_message, Database).
LoopRunsAgain == []<>LoopFree

\* "Return the most recent turns for a user in chronological order"
\* (repositories.py): the rows returned are the last of the chat.
HistoryIsRecent ==
    \A c \in Chats :
       ListRecent(c, HistoryLimit)
         = {i \in RowsOf(c) : Cardinality({j \in RowsOf(c) : j > i}) < HistoryLimit}
=============================================================================
