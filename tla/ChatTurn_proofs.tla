-------------------------- MODULE ChatTurn_proofs --------------------------
(***************************************************************************)
(* Proofs about ChatTurn: a turn the agent answered leaves its question    *)
(* and answer exactly once, one told a notice or lost leaves nothing; the  *)
(* selection of a tool outside the graph never follows a tool that ran;    *)
(* the memory of a turn is made of whole turns, which the history grows    *)
(* by; a turn only advances, and in bounded steps; the pool of connections *)
(* is never overdrawn.                                                     *)
(***************************************************************************)
EXTENDS ChatTurn, FiniteSetTheorems, SequenceTheorems, TLAPS

\* A turn that started has a chat and is within the recursion limit until it
\* ends; a tool that ran left a tool message, after which the selection is not
\* reached.
Sound(t) ==
    /\ t.at # "idle" => t.chat \in Chats
    /\ t.at \in {"idle", "waiting"} => t.steps = 0
    /\ t.at \notin Final => t.steps < RecursionLimit
    /\ t.at = "tools" => t.calls > 0
    /\ t.at \in {"waiting", "looking", "selecting", "falling", "storing"} => ~t.ran
    /\ t.at \in {"model", "tools"} /\ t.ran => t.acted

\* The places of a turn that has left its rows.
Ended == {"done", "failed"}
RowsOfTurn(r) == {i \in DOMAIN history : history[i].turn = r}

\* The inductive invariant.
IInv ==
    /\ history \in Seq(Rows)
    /\ turn = [r \in Requests |-> turn[r]]
    /\ \A r \in Requests : turn[r] \in Turns /\ Sound(turn[r])
    /\ RecordedOnce
-----------------------------------------------------------------------------
\* The rows of a turn.
LEMMA PairRows ==
    ASSUME NEW c \in Chats, NEW r \in Requests \cup Earlier
    PROVE  /\ Pair(c, r) \in Seq(Rows) /\ Len(Pair(c, r)) = 2
           /\ \A i \in 1..2 : Pair(c, r)[i].turn = r
<1>1. \A role \in {"user", "assistant"} : Row(c, r, role) \in Rows /\ Row(c, r, role).turn = r
  BY DEF Row, Rows
<1> HIDE DEF Rows
<1> QED
  BY <1>1 DEF Pair

\* The rows of a turn are finitely many.
LEMMA CountsAreFinite ==
    ASSUME history \in Seq(Rows), NEW r
    PROVE  IsFiniteSet(RowsOfTurn(r)) /\ RowCount(r) = Cardinality(RowsOfTurn(r))
<1>1. Len(history) \in Nat /\ DOMAIN history = 1..Len(history)
  OBVIOUS
<1>2. IsFiniteSet(1..Len(history))
  BY <1>1, FS_Interval
<1>3. RowsOfTurn(r) \subseteq 1..Len(history)
  BY <1>1 DEF RowsOfTurn
<1> QED
  BY <1>2, <1>3, FS_Subset DEF RowCount, RowsOfTurn

\* A pair of different things.
LEMMA TwoElements ==
    ASSUME NEW a, NEW b, a # b
    PROVE  Cardinality({a, b}) = 2
<1>1. IsFiniteSet({a}) /\ Cardinality({a}) = 1
  BY FS_Singleton
<1>2. b \notin {a} /\ {a, b} = {a} \cup {b}
  OBVIOUS
<1>3. Cardinality({a} \cup {b}) = Cardinality({a}) + 1
  BY <1>1, <1>2, FS_AddElement
<1> QED
  BY <1>1, <1>2, <1>3

\* A sequence of two added to another.
LEMMA TwoMore ==
    ASSUME NEW S, NEW s \in Seq(S), NEW two \in Seq(S), Len(two) = 2
    PROVE  /\ s \o two \in Seq(S) /\ Len(s \o two) = Len(s) + 2 /\ Len(s) \in Nat
           /\ \A i \in 1..Len(s) : (s \o two)[i] = s[i]
           /\ (s \o two)[Len(s) + 1] = two[1] /\ (s \o two)[Len(s) + 2] = two[2]
<1>1. s \o two \in Seq(S) /\ Len(s \o two) = Len(s) + Len(two)
  BY ConcatProperties
<1>2. \A i \in 1 .. Len(s) + Len(two) :
         (s \o two)[i] = IF i <= Len(s) THEN s[i] ELSE two[i - Len(s)]
  BY ConcatProperties
<1>3. \A i \in 1..Len(s) : (s \o two)[i] = s[i]
  BY <1>2
<1>4. Len(s) \in Nat
  OBVIOUS
<1>5. (s \o two)[Len(s) + 1] = two[1] /\ (s \o two)[Len(s) + 2] = two[2]
  <2> DEFINE m == Len(s)
  <2>1. \A i \in 1 .. m + 2 : (s \o two)[i] = IF i <= m THEN s[i] ELSE two[i - m]
    BY <1>2
  <2>2. m \in Nat
    BY <1>4
  <2> HIDE DEF m
  <2>3. /\ m + 1 \in 1 .. m + 2 /\ ~(m + 1 <= m) /\ (m + 1) - m = 1
        /\ m + 2 \in 1 .. m + 2 /\ ~(m + 2 <= m) /\ (m + 2) - m = 2
    BY <2>2
  <2>4. (s \o two)[m + 1] = two[1] /\ (s \o two)[m + 2] = two[2]
    BY <2>1, <2>3
  <2> QED
    BY <2>4 DEF m
<1> QED
  BY <1>1, <1>3, <1>4, <1>5

\* The rows of a turn added at the end of the table are two more of that turn
\* and none of another.
LEMMA PairCounts ==
    ASSUME history \in Seq(Rows), NEW c \in Chats, NEW r \in Requests,
           history' = history \o Pair(c, r)
    PROVE  /\ history' \in Seq(Rows)
           /\ RowCount(r) = 0 => RowCount(r)' = 2
           /\ \A q \in Requests : q # r => RowCount(q)' = RowCount(q)
<1> DEFINE n == Len(history)
<1>1. /\ Pair(c, r) \in Seq(Rows) /\ Len(Pair(c, r)) = 2
      /\ \A i \in 1..2 : Pair(c, r)[i].turn = r
  BY PairRows
<1>2. /\ history' \in Seq(Rows) /\ Len(history') = n + 2 /\ n \in Nat
      /\ \A i \in 1..n : history'[i] = history[i]
      /\ history'[n + 1] = Pair(c, r)[1] /\ history'[n + 2] = Pair(c, r)[2]
  BY <1>1, TwoMore
<1>3. \A i \in {n + 1, n + 2} : history'[i].turn = r
  <2>1. history'[n + 1].turn = r /\ history'[n + 2].turn = r
    BY <1>1, <1>2
  <2> QED
    BY <2>1
<1>4. DOMAIN history = 1..n /\ DOMAIN history' = 1..n \cup {n + 1, n + 2}
  BY <1>2
<1> HIDE DEF n
<1>5. RowsOfTurn(r)' = RowsOfTurn(r) \cup {n + 1, n + 2}
  BY <1>2, <1>3, <1>4 DEF RowsOfTurn
<1>6. \A q \in Requests : q # r => RowsOfTurn(q)' = RowsOfTurn(q)
  BY <1>2, <1>3, <1>4 DEF RowsOfTurn
<1>7. \A q \in Requests : /\ IsFiniteSet(RowsOfTurn(q)) /\ RowCount(q) = Cardinality(RowsOfTurn(q))
                          /\ RowCount(q)' = Cardinality(RowsOfTurn(q)')
  <2>1. \A q \in Requests : RowCount(q)' = Cardinality(RowsOfTurn(q)')
    BY DEF RowCount, RowsOfTurn
  <2> QED
    BY <2>1, CountsAreFinite
<1>8. RowCount(r) = 0 => RowCount(r)' = 2
  <2> SUFFICES ASSUME RowCount(r) = 0 PROVE RowCount(r)' = 2
    OBVIOUS
  <2>1. RowsOfTurn(r) = {}
    BY <1>7, FS_EmptySet
  <2>2. RowsOfTurn(r)' = {n + 1, n + 2}
    BY <1>5, <2>1
  <2>3. Cardinality({n + 1, n + 2}) = 2
    <3>1. n + 1 # n + 2
      BY <1>2
    <3> QED
      BY <3>1, TwoElements
  <2> QED
    BY <1>7, <2>2, <2>3
<1> QED
  BY <1>2, <1>6, <1>7, <1>8

-----------------------------------------------------------------------------
(* The fields of a turn that changes *)

\* Two turns that may differ in their place and the calls they wait for.
Same(m, t) == m.chat = t.chat /\ m.ran = t.ran /\ m.acted = t.acted /\ m.steps = t.steps

\* A turn that only goes to another place.
LEMMA Moved ==
    ASSUME NEW t \in Turns, NEW p \in Places
    PROVE  LET m == [t EXCEPT !.at = p] IN m \in Turns /\ m.at = p /\ Same(m, t)
BY DEF Turns, Same

\* One superstep more.
LEMMA Stepped ==
    ASSUME NEW t \in Turns, t.steps < RecursionLimit
    PROVE  LET m == [t EXCEPT !.steps = @ + 1]
           IN  /\ m \in Turns /\ m.at = t.at /\ m.chat = t.chat /\ m.acted = t.acted
               /\ m.ran = t.ran /\ m.calls = t.calls /\ m.steps = t.steps + 1
BY ChatAssumption DEF Turns

\* A turn whose model asked for tools.
LEMMA Called ==
    ASSUME NEW t \in Turns, NEW n \in 1..MaxCalls
    PROVE  LET m == [t EXCEPT !.at = "tools", !.calls = n]
           IN  m \in Turns /\ m.at = "tools" /\ m.calls = n /\ Same(m, t)
<1>1. n \in 0..MaxCalls
  BY ChatAssumption
<1> QED
  BY <1>1 DEF Turns, Places, Same

\* A turn with one tool call less to answer.
LEMMA ToolDone ==
    ASSUME NEW t \in Turns, t.calls > 0, NEW b \in BOOLEAN
    PROVE  LET m == [t EXCEPT !.calls = @ - 1, !.acted = TRUE, !.ran = b]
           IN  /\ m \in Turns /\ m.at = t.at /\ m.chat = t.chat /\ m.steps = t.steps
               /\ m.acted = TRUE /\ m.ran = b
<1> DEFINE n == t.calls - 1
<1>1. n \in 0..MaxCalls
  BY ChatAssumption DEF Turns
<1> HIDE DEF n
<1>2. LET m == [t EXCEPT !.calls = n, !.acted = TRUE, !.ran = b]
      IN  /\ m \in Turns /\ m.at = t.at /\ m.chat = t.chat /\ m.steps = t.steps
          /\ m.acted = TRUE /\ m.ran = b
  BY <1>1 DEF Turns
<1> QED
  BY <1>2 DEF n

\* A turn whose selected tool was run.
LEMMA Fallen ==
    ASSUME NEW t \in Turns, NEW b \in BOOLEAN
    PROVE  LET m == [t EXCEPT !.at = "rephrasing", !.acted = TRUE, !.ran = b]
           IN  m \in Turns /\ m.at = "rephrasing" /\ m.chat = t.chat /\ m.steps = t.steps
BY DEF Turns, Places
-----------------------------------------------------------------------------
(* The two ways a step changes the table *)

\* A turn goes on, and leaves no row yet.
LEMMA GoesOn ==
    ASSUME IInv, NEW r \in Requests, NEW t \in Turns, Sound(t), t.at \notin Ended,
           turn[r].at \notin Ended, Continue(r, t)
    PROVE  IInv'
<1>1. turn' = [turn EXCEPT ![r] = t] /\ history' = history
  BY DEF Continue
<1>2. /\ turn'[r] = t /\ \A q \in Requests : q # r => turn'[q] = turn[q]
      /\ turn' = [q \in Requests |-> turn'[q]]
  BY <1>1 DEF IInv
<1>3. \A q \in Requests : RowCount(q)' = RowCount(q)
  BY <1>1 DEF RowCount
<1>4. RecordedOnce'
  BY <1>2, <1>3 DEF IInv, RecordedOnce, Ended
<1>5. \A q \in Requests : (turn[q] \in Turns /\ Sound(turn[q]))'
  BY <1>1, <1>2 DEF IInv
<1> QED
  BY <1>1, <1>2, <1>4, <1>5 DEF IInv

\* A turn ends with its pair of rows, or is lost without any.
LEMMA EndsOnce ==
    ASSUME IInv, NEW r \in Requests, NEW t \in Turns, t.chat = turn[r].chat,
           turn[r].at \notin Ended, turn[r].at # "idle",
           NEW p \in Ended, Ends(r, t, p)
    PROVE  IInv'
<1>1. turn[r].chat \in Chats /\ RowCount(r) = 0 /\ history \in Seq(Rows)
  BY DEF IInv, Sound, RecordedOnce, Ended
<1>2. PICK q \in Places : /\ turn' = [turn EXCEPT ![r] = [t EXCEPT !.at = q]]
                          /\ \/ q \in Ended /\ history' = history \o Pair(turn[r].chat, r)
                             \/ q = "lost" /\ history' = history
  BY DEF Ends, Places, Ended
<1> DEFINE m == [t EXCEPT !.at = q]
<1>3. m \in Turns /\ m.at = q /\ m.chat \in Chats
  BY <1>1, <1>2, Moved DEF Same
<1> HIDE DEF m
<1>4. Sound(m)
  BY <1>2, <1>3 DEF Sound, Ended, Final
<1>5. /\ turn'[r] = m /\ \A s \in Requests : s # r => turn'[s] = turn[s]
      /\ turn' = [s \in Requests |-> turn'[s]]
  BY <1>2 DEF IInv, m
<1>6. /\ history' \in Seq(Rows)
      /\ RowCount(r)' = IF q \in Ended THEN 2 ELSE 0
      /\ \A s \in Requests : s # r => RowCount(s)' = RowCount(s)
  <2>1. CASE q \in Ended /\ history' = history \o Pair(turn[r].chat, r)
    BY <1>1, <2>1, PairCounts
  <2>2. CASE q = "lost" /\ history' = history
    BY <1>1, <2>2 DEF RowCount, Ended
  <2> QED
    BY <1>2, <2>1, <2>2
<1>7. RecordedOnce'
  BY <1>3, <1>5, <1>6 DEF IInv, RecordedOnce, Ended
<1>8. \A s \in Requests : (turn[s] \in Turns /\ Sound(turn[s]))'
  BY <1>3, <1>4, <1>5 DEF IInv
<1> QED
  BY <1>5, <1>6, <1>7, <1>8 DEF IInv

\* A turn that an exception ends is recorded with its error, or told without rows.
LEMMA ErrsKeeps ==
    ASSUME IInv, NEW r \in Requests, NEW t \in Turns, t.chat = turn[r].chat,
           turn[r].at \notin Ended, turn[r].at # "idle", Errs(r, t)
    PROVE  IInv'
<1>1. CASE Ends(r, t, "failed")
  BY <1>1, EndsOnce DEF Ended
<1>2. CASE Continue(r, [t EXCEPT !.at = "told"])
  <2> DEFINE m == [t EXCEPT !.at = "told"]
  <2>1. m \in Turns /\ m.at = "told" /\ m.chat = t.chat
    BY Moved DEF Same, Places
  <2> HIDE DEF m
  <2>2. Continue(r, m)
    BY <1>2 DEF m
  <2>3. Sound(m) /\ m.at \notin Ended
    BY <2>1 DEF IInv, Sound, Ended, Final
  <2> QED
    BY <2>1, <2>2, <2>3, GoesOn
<1> QED
  BY <1>1, <1>2 DEF Errs

\* A superstep within the limit goes on; at the limit the turn ends.
LEMMA StepKeeps ==
    ASSUME IInv, NEW r \in Requests, turn[r].at \in {"model", "tools"},
           NEW t \in Turns, t.chat = turn[r].chat, t.steps = turn[r].steps,
           t.at \in {"model", "tools"}, t.at = "tools" => t.calls > 0, t.ran => t.acted,
           Step(r, t)
    PROVE  IInv'
<1> DEFINE m == [t EXCEPT !.steps = @ + 1]
<1>1. /\ Sound(turn[r]) /\ turn[r] \in Turns /\ turn[r].chat \in Chats
      /\ t.steps < RecursionLimit /\ turn[r].at \notin Ended
  BY DEF IInv, Sound, Ended, Final
<1>2. /\ m \in Turns /\ m.at = t.at /\ m.chat = t.chat /\ m.acted = t.acted
      /\ m.ran = t.ran /\ m.calls = t.calls /\ m.steps = t.steps + 1
  BY <1>1, Stepped
<1>3. \/ turn[r].steps + 1 < RecursionLimit /\ Continue(r, m)
      \/ Errs(r, m)
  BY DEF Step
<1> HIDE DEF m
<1>4. CASE turn[r].steps + 1 < RecursionLimit /\ Continue(r, m)
  <2>1. Sound(m) /\ m.at \notin Ended
    BY <1>1, <1>2, <1>4 DEF Sound, Ended, Final
  <2> QED
    BY <1>1, <1>2, <1>4, <2>1, GoesOn
<1>5. CASE Errs(r, m)
  BY <1>1, <1>2, <1>5, ErrsKeeps
<1> QED
  BY <1>3, <1>4, <1>5
-----------------------------------------------------------------------------
(* The steps *)

\* A turn that only goes to another place, or ends.
LEMMA MoveKeeps ==
    ASSUME IInv, NEW r \in Requests, turn[r].at \notin Ended, turn[r].at # "idle",
           NEW p \in Places \ (Ended \cup {"idle", "waiting", "tools"}), Move(r, p),
           \/ p = "lost"
           \/ turn[r].at \notin Final /\ (~turn[r].ran \/ (p = "model" /\ turn[r].acted))
    PROVE  IInv'
<1> DEFINE m == [turn[r] EXCEPT !.at = p]
<1>1. turn[r] \in Turns /\ Sound(turn[r])
  BY DEF IInv
<1>2. m \in Turns /\ m.at = p /\ Same(m, turn[r])
  BY <1>1, Moved
<1>3. Continue(r, m)
  BY DEF Move
<1> HIDE DEF m
<1>4. Sound(m) /\ m.at \notin Ended
  BY <1>1, <1>2 DEF Sound, Same, Ended, Final
<1> QED
  BY <1>2, <1>3, <1>4, GoesOn

\* A turn that ends where it is.
LEMMA AnswerKeeps ==
    ASSUME IInv, NEW r \in Requests, turn[r].at \notin Ended, turn[r].at # "idle",
           NEW p \in Ended, Ends(r, turn[r], p)
    PROVE  IInv'
<1>1. turn[r] \in Turns
  BY DEF IInv
<1> QED
  BY <1>1, EndsOnce

\* What the query returns are ids of rows of the chat.
LEMMA RecentIsOfChat ==
    ASSUME history \in Seq(Rows), NEW c, NEW limit
    PROVE  /\ ListRecent(c, limit) \in SUBSET Nat /\ ListRecent(c, limit) \in SUBSET RowsOf(c)
           /\ \A i \in RowsOf(c) : i \in DOMAIN history /\ i \in Nat /\ history[i].chat = c
<1>1. DOMAIN history = 1..Len(history) /\ Len(history) \in Nat
  OBVIOUS
<1> QED
  BY <1>1 DEF ListRecent, RowsOf

\* The arrival of a message, and the end of its wait for a connection.
LEMMA ArrivalKeeps ==
    ASSUME IInv, NEW r \in Requests, Ask(r) \/ WaitEnds(r)
    PROVE  IInv'
<1>1. turn[r].at \in {"idle", "waiting"}
  BY DEF Ask, WaitEnds
<1>2. turn[r] \in Turns /\ Sound(turn[r])
  BY DEF IInv
<1>3. ASSUME NEW c \in Chats,
             Continue(r, [Idle EXCEPT !.at = "looking", !.chat = c,
                                      !.memory = ListRecent(c, HistoryLimit)])
      PROVE  IInv'
  <2> DEFINE m == [Idle EXCEPT !.at = "looking", !.chat = c, !.memory = ListRecent(c, HistoryLimit)]
  <2>1. m \in Turns /\ m.at = "looking" /\ m.chat = c /\ m.ran = FALSE /\ m.steps = 0
    <3>1. "looking" \in Places
      BY DEF Places
    <3>2. 0 \in 0..RecursionLimit /\ 0 \in 0..MaxCalls
      BY ChatAssumption
    <3>3. ListRecent(c, HistoryLimit) \in SUBSET Nat
      BY RecentIsOfChat DEF IInv
    <3> QED
      BY <3>1, <3>2, <3>3 DEF Turns, Idle
  <2>2. Continue(r, m)
    BY <1>3
  <2> HIDE DEF m
  <2>3. Sound(m) /\ m.at \notin Ended /\ turn[r].at \notin Ended
    BY <1>1, <2>1, ChatAssumption DEF Sound, Ended
  <2> QED
    BY <2>1, <2>2, <2>3, GoesOn
<1>4. ASSUME NEW c \in Chats, NEW p \in {"waiting", "told", "lost"},
             Continue(r, [Idle EXCEPT !.at = p, !.chat = c])
      PROVE  IInv'
  <2> DEFINE m == [Idle EXCEPT !.at = p, !.chat = c]
  <2>1. m \in Turns /\ m.at = p /\ m.chat = c /\ m.ran = FALSE /\ m.steps = 0
    <3>1. p \in Places
      BY DEF Places
    <3>2. 0 \in 0..RecursionLimit /\ 0 \in 0..MaxCalls
      BY ChatAssumption
    <3> QED
      BY <3>1, <3>2 DEF Turns, Idle
  <2> HIDE DEF m
  <2>2. Sound(m) /\ m.at \notin Ended /\ turn[r].at \notin Ended
    BY <1>1, <2>1, ChatAssumption DEF Sound, Ended
  <2>3. Continue(r, m)
    BY <1>4 DEF m
  <2> QED
    BY <2>1, <2>2, <2>3, GoesOn
<1>7. ASSUME NEW c \in Chats, Reads(r, c) PROVE IInv'
  BY <1>3, <1>4, <1>7 DEF Reads
<1>5. CASE Ask(r)
  BY <1>4, <1>5, <1>7 DEF Ask
<1>6. CASE WaitEnds(r)
  <2>1. turn[r].chat \in Chats /\ turn[r].at = "waiting"
    BY <1>2, <1>6 DEF Sound, WaitEnds
  <2>2. Move(r, "lost") => IInv'
    BY <2>1, MoveKeeps DEF Places, Ended
  <2> QED
    BY <1>7, <1>6, <2>1, <2>2 DEF WaitEnds
<1> QED
  BY <1>5, <1>6

\* The steps of a turn.
LEMMA AnsweringKeeps ==
    ASSUME IInv, NEW r \in Requests, Answering(r)
    PROVE  IInv'
<1>1. turn[r] \in Turns /\ Sound(turn[r])
  BY DEF IInv
<1>2. turn[r].at \notin Ended /\ turn[r].at \notin {"idle", "waiting"} \cup Final
  BY DEF Answering, CacheHit, CacheMiss, ModelCalls, ModelAnswers, ModelFails, ToolAnswers,
         ToolRaises, SelectsNothing, SelectsTool, FallbackAnswers, FallbackRaises, Rephrased,
         Stored, Ended, Final
<1>3. CASE CacheHit(r) \/ ModelFails(r) \/ ToolRaises(r) \/ FallbackRaises(r) \/ Rephrased(r) \/ Stored(r)
  <2>1. Errs(r, turn[r]) \/ \E p \in Ended : Ends(r, turn[r], p)
    BY <1>3 DEF CacheHit, ModelFails, ToolRaises, FallbackRaises, Rephrased, Stored, Answers, Ended
  <2> QED
    BY <1>1, <1>2, <2>1, AnswerKeeps, ErrsKeeps
<1>4. CASE CacheMiss(r)
  <2>1. ~turn[r].ran
    BY <1>1, <1>4 DEF CacheMiss, Sound
  <2> QED
    BY <1>2, <1>4, <2>1, MoveKeeps DEF CacheMiss, Places, Ended
<1>5. CASE ModelCalls(r)
  <2>1. PICK n \in 1..MaxCalls : Step(r, [turn[r] EXCEPT !.at = "tools", !.calls = n])
    BY <1>5 DEF ModelCalls
  <2> DEFINE t == [turn[r] EXCEPT !.at = "tools", !.calls = n]
  <2>2. t \in Turns /\ t.at = "tools" /\ t.calls = n /\ Same(t, turn[r])
    BY <1>1, Called
  <2> HIDE DEF t
  <2>3. turn[r].at = "model" /\ (t.ran => t.acted) /\ n > 0
    BY <1>1, <1>5, <2>2 DEF ModelCalls, Sound, Same
  <2>4. Step(r, t)
    BY <2>1 DEF t
  <2> QED
    BY <2>2, <2>3, <2>4, StepKeeps DEF Same
<1>6. CASE ModelAnswers(r)
  <2>1. CASE Answers(r, turn[r])
    BY <1>2, <2>1, AnswerKeeps DEF Answers, Ended
  <2>2. CASE ~turn[r].acted /\ Move(r, "selecting")
    <3>1. ~turn[r].ran
      BY <1>1, <1>6, <2>2 DEF ModelAnswers, Sound
    <3> QED
      BY <1>2, <2>2, <3>1, MoveKeeps DEF Places, Ended
  <2> QED
    BY <1>6, <2>1, <2>2 DEF ModelAnswers
<1>7. CASE ToolAnswers(r)
  <2>1. PICK ran \in {turn[r].ran, TRUE} :
             LET t == [turn[r] EXCEPT !.calls = @ - 1, !.acted = TRUE, !.ran = ran]
             IN  IF t.calls > 0 THEN Continue(r, t) ELSE Step(r, [t EXCEPT !.at = "model"])
    BY <1>7 DEF ToolAnswers
  <2> DEFINE t == [turn[r] EXCEPT !.calls = @ - 1, !.acted = TRUE, !.ran = ran]
             m == [t EXCEPT !.at = "model"]
  <2>2. ran \in BOOLEAN
    BY <1>1 DEF Turns
  <2>3. turn[r].at = "tools" /\ turn[r].calls > 0
    BY <1>1, <1>7 DEF ToolAnswers, Sound
  <2>4. /\ t \in Turns /\ t.at = turn[r].at /\ t.chat = turn[r].chat /\ t.steps = turn[r].steps
        /\ t.acted = TRUE /\ t.ran = ran
    BY <1>1, <2>2, <2>3, ToolDone
  <2>5. \/ t.calls > 0 /\ Continue(r, t)
        \/ Step(r, m)
    BY <2>1
  <2> HIDE DEF t
  <2>6. CASE t.calls > 0 /\ Continue(r, t)
    <3>1. Sound(t) /\ t.at \notin Ended
      BY <1>1, <2>3, <2>4, <2>6 DEF Sound, Ended, Final
    <3> QED
      BY <1>2, <2>4, <2>6, <3>1, GoesOn
  <2>7. CASE Step(r, m)
    <3>1. m \in Turns /\ m.at = "model" /\ Same(m, t)
      BY <2>4, Moved DEF Places
    <3> HIDE DEF m
    <3> QED
      BY <2>3, <2>4, <2>7, <3>1, StepKeeps DEF Same
  <2> QED
    BY <2>5, <2>6, <2>7
<1>8. CASE SelectsNothing(r) \/ SelectsTool(r)
  <2>1. ~turn[r].ran
    BY <1>1, <1>8 DEF SelectsNothing, SelectsTool, Sound
  <2> QED
    BY <1>2, <1>8, <2>1, MoveKeeps DEF SelectsNothing, SelectsTool, Places, Ended
<1>9. CASE FallbackAnswers(r)
  <2>1. PICK ran \in BOOLEAN :
             Continue(r, [turn[r] EXCEPT !.at = "rephrasing", !.acted = TRUE, !.ran = ran])
    BY <1>9 DEF FallbackAnswers
  <2> DEFINE t == [turn[r] EXCEPT !.at = "rephrasing", !.acted = TRUE, !.ran = ran]
  <2>2. t \in Turns /\ t.at = "rephrasing" /\ t.chat = turn[r].chat /\ t.steps = turn[r].steps
    BY <1>1, Fallen
  <2>3. Continue(r, t)
    BY <2>1
  <2> HIDE DEF t
  <2>4. Sound(t) /\ t.at \notin Ended
    BY <1>1, <1>2, <2>2 DEF Sound, Ended, Final
  <2> QED
    BY <1>2, <2>2, <2>3, <2>4, GoesOn
<1> QED
  BY <1>3, <1>4, <1>5, <1>6, <1>7, <1>8, <1>9 DEF Answering

\* No turn has started, and the rows that are there are of other turns.
LEMMA Initially == Init => IInv
<1> SUFFICES ASSUME Init PROVE IInv
  OBVIOUS
<1>1. Idle \in Turns /\ Sound(Idle)
  <2>1. 0 \in 0..RecursionLimit /\ 0 \in 0..MaxCalls /\ 0 < RecursionLimit
    BY ChatAssumption
  <2> QED
    BY <2>1 DEF Turns, Sound, Idle, Places
<1>2. turn = [r \in Requests |-> Idle] /\ Idle.at = "idle"
  BY DEF Init, Idle
<1>3. history \in Seq(Rows) /\ \A i \in DOMAIN history : history[i].turn \in Earlier
  <2>1. CASE history = <<>>
    BY <2>1
  <2>2. CASE \E c \in Chats, e \in Earlier : history = Pair(c, e)
    <3>1. PICK c \in Chats, e \in Earlier : history = Pair(c, e)
      BY <2>2
    <3>2. /\ Pair(c, e) \in Seq(Rows) /\ Len(Pair(c, e)) = 2
          /\ \A i \in 1..2 : Pair(c, e)[i].turn = e
      BY PairRows
    <3>3. DOMAIN history = 1..2
      BY <3>1, <3>2
    <3> QED
      BY <3>1, <3>2, <3>3
  <2> QED
    BY <2>1, <2>2 DEF Init
<1>4. \A r \in Requests : RowCount(r) = 0
  <2> TAKE r \in Requests
  <2>1. {i \in DOMAIN history : history[i].turn = r} = {}
    BY <1>3, ChatAssumption
  <2> QED
    BY <2>1, FS_EmptySet DEF RowCount
<1>5. RecordedOnce
  BY <1>2, <1>4 DEF RecordedOnce
<1> QED
  BY <1>1, <1>2, <1>3, <1>5 DEF IInv

\* Every step keeps the invariant.
LEMMA Inductive == IInv /\ [Next]_vars => IInv'
<1> SUFFICES ASSUME IInv, [Next]_vars PROVE IInv'
  OBVIOUS
<1>1. ASSUME NEW r \in Requests, Ask(r) \/ WaitEnds(r) \/ Answering(r) PROVE IInv'
  BY <1>1, ArrivalKeeps, AnsweringKeeps
<1>2. CASE UNCHANGED <<history, turn>>
  BY <1>2 DEF IInv, RecordedOnce, RowCount
<1>3. CASE UNCHANGED vars
  BY <1>2, <1>3 DEF vars
<1> QED
  BY <1>1, <1>2, <1>3 DEF Next, OnLoop, StallEnds, OnThreads
-----------------------------------------------------------------------------
(* The table is made of whole turns, and so is what a query returns *)

IsEven(x) == \E k \in Nat : x = 2 * k

\* The rows of a chat with ids up to n.
Upto(c, n) == {j \in RowsOf(c) : j <= n}

\* Question and answer of a turn have ids 2n - 1 and 2n, and in every chat an
\* even number of rows comes before them.
Exchange(n) ==
    /\ history[2*n].chat = history[2*n - 1].chat
    /\ history[2*n].turn = history[2*n - 1].turn
    /\ history[2*n - 1].role = "user" /\ history[2*n].role = "assistant"

WholeTurns(p) ==
    /\ Len(history) = 2 * p
    /\ \A n \in 1..p : Exchange(n)
    /\ \A c \in Chats, n \in 0..p : IsFiniteSet(Upto(c, 2*n)) /\ IsEven(Cardinality(Upto(c, 2*n)))

\* Two more elements.
LEMMA TwoMoreElements ==
    ASSUME NEW S, IsFiniteSet(S), IsEven(Cardinality(S)), NEW a, NEW b, a # b, a \notin S, b \notin S
    PROVE  IsFiniteSet(S \cup {a, b}) /\ IsEven(Cardinality(S \cup {a, b}))
<1>1. IsFiniteSet(S \cup {a}) /\ Cardinality(S \cup {a}) = Cardinality(S) + 1
  BY FS_AddElement
<1>2. /\ IsFiniteSet((S \cup {a}) \cup {b})
      /\ Cardinality((S \cup {a}) \cup {b}) = Cardinality(S \cup {a}) + 1
  BY <1>1, FS_AddElement
<1>3. (S \cup {a}) \cup {b} = S \cup {a, b}
  OBVIOUS
<1>4. Cardinality(S) \in Nat
  BY FS_CardinalityType
<1>5. PICK k \in Nat : Cardinality(S) = 2 * k
  BY DEF IsEven
<1>6. Cardinality(S \cup {a, b}) = (2 * k + 1) + 1
  BY <1>1, <1>2, <1>3, <1>5
<1>7. (2 * k + 1) + 1 = 2 * (k + 1) /\ k + 1 \in Nat
  OBVIOUS
<1>8. IsFiniteSet(S \cup {a, b})
  BY <1>2, <1>3
<1> QED
  BY <1>6, <1>7, <1>8 DEF IsEven

\* A turn that ends adds its exchange to the table.
LEMMA TableGrows ==
    ASSUME history \in Seq(Rows), NEW p \in Nat, WholeTurns(p), NEW c \in Chats,
           NEW r \in Requests, history' = history \o Pair(c, r)
    PROVE  WholeTurns(p + 1)'
<1>1. /\ Pair(c, r) \in Seq(Rows) /\ Len(Pair(c, r)) = 2
      /\ Pair(c, r)[1] = Row(c, r, "user") /\ Pair(c, r)[2] = Row(c, r, "assistant")
  BY PairRows DEF Pair
<1>2. /\ history' \in Seq(Rows) /\ Len(history') = Len(history) + 2 /\ Len(history) \in Nat
      /\ \A i \in 1..Len(history) : history'[i] = history[i]
      /\ history'[Len(history) + 1] = Pair(c, r)[1] /\ history'[Len(history) + 2] = Pair(c, r)[2]
  BY <1>1, TwoMore
<1>3. /\ history' \in Seq(Rows) /\ Len(history') = 2 * p + 2 /\ Len(history) = 2 * p
      /\ \A i \in 1..(2 * p) : history'[i] = history[i]
      /\ history'[2 * p + 1] = Row(c, r, "user") /\ history'[2 * p + 2] = Row(c, r, "assistant")
  BY <1>1, <1>2 DEF WholeTurns
<1>4. DOMAIN history = 1..(2 * p) /\ DOMAIN history' = 1..(2 * p + 2)
  BY <1>3
<1>5. \A n \in 1..p : Exchange(n)'
  <2> SUFFICES ASSUME NEW n \in 1..p PROVE Exchange(n)'
    OBVIOUS
  <2>1. 2 * n \in 1..(2 * p) /\ 2 * n - 1 \in 1..(2 * p)
    OBVIOUS
  <2>2. history'[2 * n] = history[2 * n] /\ history'[2 * n - 1] = history[2 * n - 1]
    BY <1>3, <2>1
  <2> QED
    BY <2>2 DEF WholeTurns, Exchange
<1>6. Exchange(p + 1)'
  <2>1. 2 * (p + 1) = 2 * p + 2 /\ 2 * (p + 1) - 1 = 2 * p + 1
    OBVIOUS
  <2> QED
    BY <1>3, <2>1 DEF Exchange, Row
<1>7. ASSUME NEW d \in Chats, NEW n \in 0..p PROVE Upto(d, 2 * n)' = Upto(d, 2 * n)
  <2>1. \A j : j \in Upto(d, 2 * n)' <=> j \in 1..(2 * p + 2) /\ history'[j].chat = d /\ j <= 2 * n
    BY <1>4 DEF Upto, RowsOf
  <2>2. \A j : j \in Upto(d, 2 * n) <=> j \in 1..(2 * p) /\ history[j].chat = d /\ j <= 2 * n
    BY <1>4 DEF Upto, RowsOf
  <2>3. \A j : j \in 1..(2 * p + 2) /\ j <= 2 * n <=> j \in 1..(2 * p) /\ j <= 2 * n
    OBVIOUS
  <2>4. \A j \in 1..(2 * p) : history'[j].chat = history[j].chat
    BY <1>3
  <2>5. \A j : j \in Upto(d, 2 * n)' <=> j \in Upto(d, 2 * n)
    BY <2>1, <2>2, <2>3, <2>4
  <2>6. Upto(d, 2 * n)' = {j \in RowsOf(d)' : j <= 2 * n} /\ Upto(d, 2 * n) = {j \in RowsOf(d) : j <= 2 * n}
    BY DEF Upto
  <2> QED
    BY <2>5, <2>6
<1>8. ASSUME NEW d \in Chats
      PROVE  Upto(d, 2 * (p + 1))' = IF d = c THEN Upto(d, 2 * p) \cup {2 * p + 1, 2 * p + 2}
                                              ELSE Upto(d, 2 * p)
  <2>1. \A j : j \in Upto(d, 2 * (p + 1))' <=> j \in 1..(2 * p + 2) /\ history'[j].chat = d
    BY <1>4 DEF Upto, RowsOf
  <2>2. \A j : j \in Upto(d, 2 * p) <=> j \in 1..(2 * p) /\ history[j].chat = d
    BY <1>4 DEF Upto, RowsOf
  <2>3. \A j : j \in 1..(2 * p + 2) <=> j \in 1..(2 * p) \/ j = 2 * p + 1 \/ j = 2 * p + 2
    OBVIOUS
  <2>4. history'[2 * p + 1].chat = c /\ history'[2 * p + 2].chat = c
    BY <1>3 DEF Row
  <2>5. CASE d = c
    BY <1>3, <2>1, <2>2, <2>3, <2>4, <2>5
  <2>6. CASE d # c
    BY <1>3, <2>1, <2>2, <2>3, <2>4, <2>6
  <2> QED
    BY <2>5, <2>6
<1>9. ASSUME NEW d \in Chats
      PROVE  /\ IsFiniteSet(Upto(d, 2 * (p + 1))') /\ IsEven(Cardinality(Upto(d, 2 * (p + 1))'))
  <2>1. p \in 0..p
    OBVIOUS
  <2>2. IsFiniteSet(Upto(d, 2 * p)) /\ IsEven(Cardinality(Upto(d, 2 * p)))
    BY <2>1 DEF WholeTurns
  <2>3. 2 * p + 1 \notin Upto(d, 2 * p) /\ 2 * p + 2 \notin Upto(d, 2 * p) /\ 2 * p + 1 # 2 * p + 2
    BY DEF Upto
  <2>4. /\ IsFiniteSet(Upto(d, 2 * p) \cup {2 * p + 1, 2 * p + 2})
        /\ IsEven(Cardinality(Upto(d, 2 * p) \cup {2 * p + 1, 2 * p + 2}))
    BY <2>2, <2>3, TwoMoreElements
  <2> QED
    BY <1>8, <2>2, <2>4
<1>10. ASSUME NEW d \in Chats, NEW n \in 0..(p + 1)
       PROVE  (IsFiniteSet(Upto(d, 2 * n)) /\ IsEven(Cardinality(Upto(d, 2 * n))))'
  <2>1. CASE n \in 0..p
    <3>1. IsFiniteSet(Upto(d, 2 * n)) /\ IsEven(Cardinality(Upto(d, 2 * n)))
      BY <2>1 DEF WholeTurns
    <3> QED
      BY <1>7, <2>1, <3>1 DEF IsEven
  <2>2. CASE n = p + 1
    BY <1>9, <2>2 DEF IsEven
  <2> QED
    BY <2>1, <2>2
<1>11. \A n \in 1..(p + 1) : Exchange(n)'
  <2>1. \A n \in 1..(p + 1) : n \in 1..p \/ n = p + 1
    OBVIOUS
  <2> QED
    BY <1>5, <1>6, <2>1
<1>12. Len(history)' = 2 * (p + 1)
  BY <1>3
<1> QED
  BY <1>10, <1>11, <1>12 DEF WholeTurns

\* Rows of whole turns of one chat.
WholeMemory(c, m) ==
    \A i \in m :
       /\ history[i].chat = c
       /\ \E j \in m :
             /\ history[j].turn = history[i].turn /\ history[j].role # history[i].role
             /\ i < j <=> history[i].role = "user"
             /\ \A k \in m : ~(i < k /\ k < j) /\ ~(j < k /\ k < i)

\* With an even limit the query returns whole turns: as many rows as are before
\* a question are even, so that the limit is not between it and its answer.
LEMMA RecentIsWhole ==
    ASSUME history \in Seq(Rows), NEW p \in Nat, WholeTurns(p), NEW c \in Chats,
           NEW limit \in Nat, IsEven(limit)
    PROVE  WholeMemory(c, ListRecent(c, limit))
<1> DEFINE m == ListRecent(c, limit)
<1>1. /\ m \in SUBSET Nat /\ m \in SUBSET RowsOf(c)
      /\ \A i \in RowsOf(c) : i \in DOMAIN history /\ i \in Nat /\ history[i].chat = c
  BY RecentIsOfChat
<1>2. DOMAIN history = 1..(2 * p)
  BY DEF WholeTurns
<1>3. ASSUME NEW n \in 1..p, 2 * n \in RowsOf(c) \/ 2 * n - 1 \in RowsOf(c)
      PROVE  /\ 2 * n \in RowsOf(c) /\ 2 * n - 1 \in RowsOf(c)
             /\ 2 * n \in m <=> 2 * n - 1 \in m
  <2>1. 2 * n \in 1..(2 * p) /\ 2 * n - 1 \in 1..(2 * p)
    OBVIOUS
  <2>2. 2 * n \in RowsOf(c) /\ 2 * n - 1 \in RowsOf(c)
    BY <1>2, <1>3, <2>1 DEF WholeTurns, Exchange, RowsOf
  <2>3. n - 1 \in 0..p /\ 2 * (n - 1) = 2 * n - 2
    OBVIOUS
  <2>4. IsFiniteSet(Upto(c, 2 * n - 2)) /\ IsEven(Cardinality(Upto(c, 2 * n - 2)))
    BY <2>3 DEF WholeTurns
  <2>5. {j \in RowsOf(c) : j < 2 * n - 1} = Upto(c, 2 * n - 2)
    <3>1. \A j \in Nat : j < 2 * n - 1 <=> j <= 2 * n - 2
      OBVIOUS
    <3> QED
      BY <1>1, <3>1 DEF Upto
  <2>6. {j \in RowsOf(c) : j < 2 * n} = Upto(c, 2 * n - 2) \cup {2 * n - 1}
    <3>1. \A j \in Nat : j < 2 * n <=> j <= 2 * n - 2 \/ j = 2 * n - 1
      OBVIOUS
    <3> QED
      BY <1>1, <2>2, <3>1 DEF Upto
  <2>7. 2 * n - 1 \notin Upto(c, 2 * n - 2)
    BY DEF Upto
  <2>8. Cardinality({j \in RowsOf(c) : j < 2 * n}) = Cardinality(Upto(c, 2 * n - 2)) + 1
    BY <2>4, <2>6, <2>7, FS_AddElement
  <2>9. Cardinality(Upto(c, 2 * n - 2)) < limit <=> Cardinality(Upto(c, 2 * n - 2)) + 1 < limit
    <3>1. PICK k \in Nat : Cardinality(Upto(c, 2 * n - 2)) = 2 * k
      BY <2>4 DEF IsEven
    <3>2. PICK l \in Nat : limit = 2 * l
      BY DEF IsEven
    <3> QED
      BY <3>1, <3>2
  <2> QED
    BY <2>2, <2>5, <2>8, <2>9 DEF ListRecent
<1>4. \A i \in m : \E n \in 1..p : i = 2 * n \/ i = 2 * n - 1
  <2> SUFFICES ASSUME NEW i \in m PROVE \E n \in 1..p : i = 2 * n \/ i = 2 * n - 1
    OBVIOUS
  <2>1. i \in 1..(2 * p)
    BY <1>1, <1>2
  <2>2. (i + 1) \div 2 \in 1..p /\ (i = 2 * ((i + 1) \div 2) \/ i = 2 * ((i + 1) \div 2) - 1)
    BY <2>1
  <2> QED
    BY <2>2
<1>5. ASSUME NEW i \in m
      PROVE  \E j \in m :
               /\ history[j].turn = history[i].turn /\ history[j].role # history[i].role
               /\ i < j <=> history[i].role = "user"
               /\ \A k \in m : ~(i < k /\ k < j) /\ ~(j < k /\ k < i)
  <2>1. PICK n \in 1..p : i = 2 * n \/ i = 2 * n - 1
    BY <1>4
  <2>2. 2 * n \in m /\ 2 * n - 1 \in m
    BY <1>1, <1>3, <2>1
  <2>3. Exchange(n)
    BY DEF WholeTurns
  <2>4. \A k \in Nat : ~(2 * n - 1 < k /\ k < 2 * n) /\ ~(2 * n < k /\ k < 2 * n - 1)
    OBVIOUS
  <2>5. \A k \in m : k \in Nat
    BY <1>1
  <2>6. 2 * n - 1 < 2 * n /\ ~(2 * n < 2 * n - 1)
    OBVIOUS
  <2>7. CASE i = 2 * n
    <3> HIDE DEF m
    <3> DEFINE j == 2 * n - 1
    <3>1. /\ history[j].turn = history[i].turn /\ history[j].role # history[i].role
          /\ i < j <=> history[i].role = "user"
      BY <2>3, <2>6, <2>7 DEF Exchange
    <3>2. \A k \in m : ~(i < k /\ k < j) /\ ~(j < k /\ k < i)
      BY <2>4, <2>5, <2>7
    <3>3. j \in m
      BY <2>2
    <3> HIDE DEF j
    <3> QED
      BY <3>1, <3>2, <3>3
  <2>8. CASE i = 2 * n - 1
    <3> HIDE DEF m
    <3> DEFINE j == 2 * n
    <3>1. /\ history[j].turn = history[i].turn /\ history[j].role # history[i].role
          /\ i < j <=> history[i].role = "user"
      BY <2>3, <2>6, <2>8 DEF Exchange
    <3>2. \A k \in m : ~(i < k /\ k < j) /\ ~(j < k /\ k < i)
      BY <2>4, <2>5, <2>8
    <3>3. j \in m
      BY <2>2
    <3> HIDE DEF j
    <3> QED
      BY <3>1, <3>2, <3>3
  <2> QED
    BY <2>1, <2>7, <2>8
<1>6. \A i \in m : history[i].chat = c
  BY <1>1
<1> QED
  BY <1>5, <1>6 DEF WholeMemory
-----------------------------------------------------------------------------
(* What a step does to a turn, and how far it gets *)

\* The places of a turn in the order in which one superstep passes them.
Stage(p) ==
    CASE p = "idle" -> 0
      [] p = "waiting" -> 1
      [] p = "looking" -> 2
      [] p \in {"model", "tools"} -> 3
      [] p = "selecting" -> 4
      [] p = "falling" -> 5
      [] p \in {"rephrasing", "storing"} -> 6
      [] p \in Final -> 7

\* A turn t is further than s: by a superstep, or within the same by a place or
\* by a tool call less to wait for.
Further(t, s) ==
    \/ t.steps > s.steps
    \/ /\ t.steps = s.steps
       /\ Stage(t.at) > Stage(s.at) \/ (t.at = "tools" /\ s.at = "tools" /\ t.calls < s.calls)

\* The turn keeps its chat and its memory.
Remembers(t, s) == t.chat = s.chat /\ t.memory = s.memory

\* The turn r goes on from s to t, and the table is as it was or has its exchange.
Progress(r, t) ==
    /\ turn' = [turn EXCEPT ![r] = t]
    /\ Remembers(t, turn[r]) /\ Further(t, turn[r])
    /\ history' = history \/ history' = history \o Pair(turn[r].chat, r)

\* A turn that goes to a later place.
LEMMA MoveProgress ==
    ASSUME IInv, NEW r \in Requests, NEW p \in Places, Stage(p) > Stage(turn[r].at), Move(r, p)
    PROVE  \E t \in Turns : Progress(r, t)
<1> DEFINE m == [turn[r] EXCEPT !.at = p]
<1>1. m \in Turns /\ m.at = p /\ m.steps = turn[r].steps /\ Remembers(m, turn[r])
  BY DEF IInv, Turns, Remembers
<1>2. turn' = [turn EXCEPT ![r] = m] /\ history' = history
  BY DEF Move, Continue
<1> HIDE DEF m
<1> QED
  BY <1>1, <1>2 DEF Progress, Further

\* A turn that ends.
LEMMA EndProgress ==
    ASSUME IInv, NEW r \in Requests, turn[r].at \notin Final, NEW t \in Turns,
           Remembers(t, turn[r]), t.steps >= turn[r].steps,
           Errs(r, t) \/ \E p \in Final : Ends(r, t, p)
    PROVE  \E m \in Turns : Progress(r, m)
<1>1. PICK q \in Final : /\ turn' = [turn EXCEPT ![r] = [t EXCEPT !.at = q]]
                         /\ history' = history \/ history' = history \o Pair(turn[r].chat, r)
  BY DEF Ends, Errs, Continue, Final
<1> DEFINE m == [t EXCEPT !.at = q]
<1>2. m \in Turns /\ m.at = q /\ m.steps = t.steps /\ Remembers(m, turn[r])
  BY DEF Turns, Places, Final, Remembers
<1>3. turn' = [turn EXCEPT ![r] = m]
  BY <1>1
<1> HIDE DEF m
<1>4. m.steps > turn[r].steps \/ m.steps = turn[r].steps
  BY <1>2 DEF IInv, Turns
<1>5. turn[r].at \in Places
  BY DEF IInv, Turns
<1>6. Stage(m.at) > Stage(turn[r].at)
  <2>1. Stage(m.at) = 7
    BY <1>2 DEF Stage, Final
  <2>2. \A x \in Places \ Final : Stage(x) < 7
    BY DEF Places, Final, Stage
  <2> QED
    BY <1>5, <2>1, <2>2
<1> QED
  BY <1>1, <1>2, <1>3, <1>4, <1>6 DEF Progress, Further

\* A superstep.
LEMMA StepProgress ==
    ASSUME IInv, NEW r \in Requests, turn[r].at \in {"model", "tools"},
           NEW t \in Turns, Remembers(t, turn[r]), t.steps = turn[r].steps, Step(r, t)
    PROVE  \E m \in Turns : Progress(r, m)
<1> DEFINE m == [t EXCEPT !.steps = @ + 1]
<1>1. turn[r].steps < RecursionLimit /\ turn[r].steps \in Nat
  BY DEF IInv, Sound, Turns, Final
<1>2. m \in Turns /\ m.steps = t.steps + 1 /\ Remembers(m, turn[r])
  BY <1>1, ChatAssumption DEF Turns, Remembers
<1>3. (turn' = [turn EXCEPT ![r] = m] /\ history' = history) \/ Errs(r, m)
  BY DEF Step, Continue
<1> HIDE DEF m
<1>4. CASE turn' = [turn EXCEPT ![r] = m] /\ history' = history
  <2>1. m.steps > turn[r].steps
    BY <1>1, <1>2
  <2> QED
    BY <1>2, <1>4, <2>1 DEF Progress, Further
<1>5. CASE Errs(r, m)
  <2>1. turn[r].at \notin Final /\ m.steps >= turn[r].steps
    BY <1>1, <1>2 DEF Final
  <2> QED
    BY <1>2, <1>5, <2>1, EndProgress
<1> QED
  BY <1>3, <1>4, <1>5

\* Every step of a started turn takes it further.
LEMMA AnsweringProgress ==
    ASSUME IInv, NEW r \in Requests, Answering(r)
    PROVE  \E t \in Turns : Progress(r, t)
<1>1. turn[r] \in Turns /\ Sound(turn[r]) /\ Remembers(turn[r], turn[r])
      /\ turn[r].steps \in Nat
  BY DEF IInv, Remembers, Turns
<1>2. turn[r].at \notin Final
  BY DEF Answering, CacheHit, CacheMiss, ModelCalls, ModelAnswers, ModelFails, ToolAnswers,
         ToolRaises, SelectsNothing, SelectsTool, FallbackAnswers, FallbackRaises, Rephrased,
         Stored, Final
<1>3. ASSUME Errs(r, turn[r]) \/ \E p \in Final : Ends(r, turn[r], p)
      PROVE  \E t \in Turns : Progress(r, t)
  <2>1. turn[r].steps >= turn[r].steps
    BY <1>1
  <2> QED
    BY <1>1, <1>2, <1>3, <2>1, EndProgress
<1>4. CASE \/ CacheHit(r) \/ ModelFails(r) \/ ToolRaises(r) \/ FallbackRaises(r)
           \/ Rephrased(r) \/ Stored(r)
  BY <1>3, <1>4 DEF CacheHit, ModelFails, ToolRaises, FallbackRaises, Rephrased, Stored,
                    Answers, Final
<1>5. CASE \/ CacheMiss(r) \/ SelectsNothing(r) \/ SelectsTool(r)
  <2>1. PICK p \in {"model", "storing", "falling"} : Move(r, p) /\ Stage(p) > Stage(turn[r].at)
    BY <1>5 DEF CacheMiss, SelectsNothing, SelectsTool, Stage, Final
  <2> QED
    BY <2>1, MoveProgress DEF Places
<1>6. CASE ModelCalls(r)
  <2>1. PICK n \in 1..MaxCalls : Step(r, [turn[r] EXCEPT !.at = "tools", !.calls = n])
    BY <1>6 DEF ModelCalls
  <2> DEFINE t == [turn[r] EXCEPT !.at = "tools", !.calls = n]
  <2>2. t \in Turns /\ t.steps = turn[r].steps /\ Remembers(t, turn[r])
    <3>1. n \in 0..MaxCalls
      BY ChatAssumption
    <3> QED
      BY <1>1, <3>1 DEF Turns, Places, Remembers
  <2>3. Step(r, t) /\ turn[r].at = "model"
    BY <1>6, <2>1 DEF ModelCalls
  <2> HIDE DEF t
  <2> QED
    BY <2>2, <2>3, StepProgress
<1>7. CASE ModelAnswers(r)
  <2>1. CASE Answers(r, turn[r])
    BY <1>3, <2>1 DEF Answers, Final
  <2>2. CASE Move(r, "selecting")
    <3>1. Stage("selecting") > Stage(turn[r].at)
      BY <1>7 DEF ModelAnswers, Stage, Final
    <3> QED
      BY <2>2, <3>1, MoveProgress DEF Places
  <2> QED
    BY <1>7, <2>1, <2>2 DEF ModelAnswers
<1>8. CASE ToolAnswers(r)
  <2>1. PICK ran \in {turn[r].ran, TRUE} :
             LET t == [turn[r] EXCEPT !.calls = @ - 1, !.acted = TRUE, !.ran = ran]
             IN  IF t.calls > 0 THEN Continue(r, t) ELSE Step(r, [t EXCEPT !.at = "model"])
    BY <1>8 DEF ToolAnswers
  <2> DEFINE n == turn[r].calls - 1
             t == [turn[r] EXCEPT !.calls = n, !.acted = TRUE, !.ran = ran]
             m == [t EXCEPT !.at = "model"]
  <2>2. ran \in BOOLEAN
    BY <1>1 DEF Turns
  <2>3. turn[r].at = "tools" /\ turn[r].calls > 0
    BY <1>1, <1>8 DEF ToolAnswers, Sound
  <2>4. n \in 0..MaxCalls /\ n < turn[r].calls
    BY <1>1, <2>3, ChatAssumption DEF Turns
  <2>5. Continue(r, t) \/ Step(r, m)
    BY <2>1
  <2> HIDE DEF n
  <2>6. /\ t \in Turns /\ t.at = "tools" /\ t.calls = n /\ t.steps = turn[r].steps
        /\ Remembers(t, turn[r])
    BY <1>1, <2>2, <2>3, <2>4 DEF Turns, Remembers
  <2>7. m \in Turns /\ m.steps = turn[r].steps /\ Remembers(m, turn[r])
    BY <1>1, <2>2, <2>3, <2>4 DEF Turns, Places, Remembers
  <2> HIDE DEF t, m
  <2>8. CASE Continue(r, t)
    BY <2>3, <2>4, <2>6, <2>8 DEF Continue, Progress, Further
  <2>9. CASE Step(r, m)
    BY <2>3, <2>7, <2>9, StepProgress
  <2> QED
    BY <2>5, <2>8, <2>9
<1>9. CASE FallbackAnswers(r)
  <2>1. PICK ran \in BOOLEAN :
             Continue(r, [turn[r] EXCEPT !.at = "rephrasing", !.acted = TRUE, !.ran = ran])
    BY <1>9 DEF FallbackAnswers
  <2> DEFINE t == [turn[r] EXCEPT !.at = "rephrasing", !.acted = TRUE, !.ran = ran]
  <2>2. /\ t \in Turns /\ t.at = "rephrasing" /\ t.steps = turn[r].steps
        /\ Remembers(t, turn[r])
    BY <1>1 DEF Turns, Places, Remembers
  <2>3. turn' = [turn EXCEPT ![r] = t] /\ history' = history
    BY <2>1 DEF Continue
  <2> HIDE DEF t
  <2>4. Stage(t.at) > Stage(turn[r].at)
    BY <1>9, <2>2 DEF FallbackAnswers, Stage, Final
  <2> QED
    BY <2>2, <2>3, <2>4 DEF Progress, Further
<1> QED
  BY <1>4, <1>5, <1>6, <1>7, <1>8, <1>9 DEF Answering

\* A request that arrives, or whose wait ends, goes further too; the memory it
\* gets is what the query returns of its chat.
LEMMA ArrivalProgress ==
    ASSUME IInv, NEW r \in Requests, Ask(r) \/ WaitEnds(r)
    PROVE  /\ history' = history
           /\ \E t \in Turns :
                 /\ turn' = [turn EXCEPT ![r] = t] /\ Further(t, turn[r])
                 /\ \/ Remembers(t, turn[r])
                    \/ t.memory = {}
                    \/ t.chat \in Chats /\ t.memory = ListRecent(t.chat, HistoryLimit)
<1>1. turn[r].at \in {"idle", "waiting"} /\ turn[r].steps = 0 /\ turn[r] \in Turns
  BY DEF Ask, WaitEnds, IInv, Sound
<1> DEFINE Started(c, p, m) == [at |-> p, chat |-> c, memory |-> m, steps |-> 0, calls |-> 0,
                                acted |-> FALSE, ran |-> FALSE]
           Starts(c, p, m) == turn' = [turn EXCEPT ![r] = Started(c, p, m)] /\ history' = history
           Goal == /\ history' = history
                   /\ \E t \in Turns :
                         /\ turn' = [turn EXCEPT ![r] = t] /\ Further(t, turn[r])
                         /\ \/ Remembers(t, turn[r])
                            \/ t.memory = {}
                            \/ t.chat \in Chats /\ t.memory = ListRecent(t.chat, HistoryLimit)
<1> SUFFICES Goal
  OBVIOUS
<1>2. ASSUME NEW c \in Chats, NEW p \in Places, NEW m \in SUBSET Nat,
             m = {} \/ m = ListRecent(c, HistoryLimit),
             Stage(p) > Stage(turn[r].at), Starts(c, p, m)
      PROVE  Goal
  <2> DEFINE t == Started(c, p, m)
  <2>1. t \in Turns
    <3>1. 0 \in 0..RecursionLimit /\ 0 \in 0..MaxCalls
      BY ChatAssumption
    <3> QED
      BY <3>1 DEF Turns
  <2>2. t.at = p /\ t.chat = c /\ t.memory = m /\ t.steps = 0
    OBVIOUS
  <2>3. turn' = [turn EXCEPT ![r] = t] /\ history' = history
    BY <1>2
  <2> HIDE DEF t
  <2>4. Further(t, turn[r])
    BY <1>1, <1>2, <2>2 DEF Further
  <2> QED
    BY <1>2, <2>1, <2>2, <2>3, <2>4
<1>3. ASSUME NEW c \in Chats, Reads(r, c)
      PROVE  \/ Starts(c, "looking", ListRecent(c, HistoryLimit))
             \/ Starts(c, "told", {}) \/ Starts(c, "lost", {})
  BY <1>3 DEF Reads, Continue, Idle
<1>5. Stage("looking") > Stage(turn[r].at) /\ Stage("told") > Stage(turn[r].at)
      /\ Stage("lost") > Stage(turn[r].at)
  BY <1>1 DEF Stage, Final
<1>6. ASSUME NEW c \in Chats, Reads(r, c) PROVE Goal
  <2>1. ListRecent(c, HistoryLimit) \in SUBSET Nat
    BY RecentIsOfChat DEF IInv
  <2>2. {"looking", "told", "lost"} \subseteq Places /\ {} \in SUBSET Nat
    BY DEF Places
  <2> HIDE DEF Goal, Started
  <2>3. CASE Starts(c, "looking", ListRecent(c, HistoryLimit))
    BY <1>2, <1>5, <2>1, <2>2, <2>3
  <2>4. CASE Starts(c, "told", {}) \/ Starts(c, "lost", {})
    BY <1>2, <1>5, <2>2, <2>4
  <2> QED
    BY <1>3, <1>6, <2>3, <2>4
<1>7. CASE Ask(r)
  <2>1. turn[r].at = "idle" /\ "waiting" \in Places /\ {} \in SUBSET Nat
    BY <1>7 DEF Ask, Places
  <2>2. Stage("waiting") > Stage(turn[r].at)
    BY <2>1 DEF Stage, Final
  <2>3. PICK c \in Chats : Reads(r, c) \/ Starts(c, "waiting", {})
    BY <1>7 DEF Ask, Continue, Idle
  <2> HIDE DEF Goal, Started
  <2>4. CASE Starts(c, "waiting", {})
    BY <1>2, <2>1, <2>2, <2>4
  <2> QED
    BY <1>6, <2>3, <2>4
<1>4. CASE WaitEnds(r)
  <2>1. turn[r].chat \in Chats /\ turn[r].at = "waiting"
    BY <1>4 DEF IInv, Sound, WaitEnds
  <2>2. CASE Move(r, "lost")
    <3>2. PICK t \in Turns : Progress(r, t)
      BY <1>5, <2>2, MoveProgress DEF Places
    <3> QED
      BY <2>2, <3>2 DEF Progress, Move, Continue
  <2> QED
    BY <1>4, <1>6, <2>1, <2>2 DEF WaitEnds
<1> QED
  BY <1>4, <1>7
-----------------------------------------------------------------------------
(* The memory of a turn stays whole while the table grows *)

\* The table is made of whole turns, and every memory of rows in it.
Whole ==
    /\ \E p \in Nat : WholeTurns(p)
    /\ \A r \in Requests : /\ turn[r].memory \subseteq DOMAIN history
                           /\ WholeMemory(turn[r].chat, turn[r].memory)

\* The table is empty, or holds one earlier turn, and nobody remembers anything.
LEMMA WholeInitially == Init => Whole
<1> SUFFICES ASSUME Init PROVE Whole
  OBVIOUS
<1>1. \A r \in Requests : turn[r].memory = {}
  BY DEF Init, Idle
<1>2. ASSUME NEW c \in Chats, history = <<>> PROVE IsFiniteSet(Upto(c, 0)) /\ IsEven(Cardinality(Upto(c, 0)))
  <2>1. Upto(c, 0) = {}
    BY <1>2 DEF Upto, RowsOf
  <2>2. 0 = 2 * 0
    OBVIOUS
  <2> QED
    BY <2>1, <2>2, FS_EmptySet DEF IsEven
<1>3. CASE history = <<>>
  <2>1. Len(history) = 2 * 0 /\ 1..0 = {} /\ \A n \in 0..0 : 2 * n = 0
    BY <1>3
  <2>2. WholeTurns(0)
    BY <1>2, <1>3, <2>1 DEF WholeTurns
  <2> QED
    BY <1>1, <2>2 DEF Whole, WholeMemory
<1>4. ASSUME NEW c \in Chats, NEW e \in Earlier, history = Pair(c, e) PROVE WholeTurns(1)
  <2>1. /\ Len(history) = 2 /\ DOMAIN history = {1, 2}
        /\ history[1] = Row(c, e, "user") /\ history[2] = Row(c, e, "assistant")
    BY <1>4, PairRows DEF Pair
  <2>2. ASSUME NEW d \in Chats, NEW n \in 0..1
        PROVE  IsFiniteSet(Upto(d, 2 * n)) /\ IsEven(Cardinality(Upto(d, 2 * n)))
    <3>1. Upto(d, 2 * n) = {} \/ Upto(d, 2 * n) = {1, 2}
      <4>1. CASE n = 0
        BY <2>1, <4>1 DEF Upto, RowsOf
      <4>2. CASE n = 1
        BY <2>1, <4>2 DEF Upto, RowsOf, Row
      <4> QED
        BY <4>1, <4>2
    <3>2. IsFiniteSet({}) /\ Cardinality({}) = 0 /\ IsEven(0)
      <4>1. 0 = 2 * 0
        OBVIOUS
      <4> QED
        BY <4>1, FS_EmptySet DEF IsEven
    <3>3. IsFiniteSet({} \cup {1, 2}) /\ IsEven(Cardinality({} \cup {1, 2}))
      <4>1. 1 # 2 /\ 1 \notin {} /\ 2 \notin {}
        OBVIOUS
      <4> QED
        BY <3>2, <4>1, TwoMoreElements
    <3>4. {} \cup {1, 2} = {1, 2}
      OBVIOUS
    <3> QED
      BY <3>1, <3>2, <3>3, <3>4
  <2>3. \A n \in 1..1 : Exchange(n)
    BY <2>1 DEF Exchange, Row
  <2> QED
    BY <2>1, <2>2, <2>3 DEF WholeTurns
<1>5. CASE \E c \in Chats, e \in Earlier : history = Pair(c, e)
  BY <1>1, <1>4, <1>5 DEF Whole, WholeMemory
<1> QED
  BY <1>3, <1>5 DEF Init

\* A memory of rows that are there stays whole when a turn is added.
LEMMA MemoryStays ==
    ASSUME history \in Seq(Rows), NEW c \in Chats, NEW r \in Requests,
           history' = history \/ history' = history \o Pair(c, r),
           NEW d, NEW m \in SUBSET (DOMAIN history), WholeMemory(d, m)
    PROVE  m \subseteq DOMAIN history' /\ WholeMemory(d, m)'
<1>1. DOMAIN history \subseteq DOMAIN history' /\ \A i \in DOMAIN history : history'[i] = history[i]
  <2>1. CASE history' = history
    BY <2>1
  <2>2. CASE history' = history \o Pair(c, r)
    <3>1. Pair(c, r) \in Seq(Rows) /\ Len(Pair(c, r)) = 2
      BY PairRows
    <3>2. /\ history' \in Seq(Rows) /\ Len(history') = Len(history) + 2 /\ Len(history) \in Nat
          /\ \A i \in 1..Len(history) : history'[i] = history[i]
      BY <2>2, <3>1, TwoMore
    <3> QED
      BY <3>2
  <2> QED
    BY <2>1, <2>2
<1>2. \A i \in m : history'[i] = history[i]
  BY <1>1
<1>3. ASSUME NEW i \in m
      PROVE  /\ history'[i].chat = d
             /\ \E j \in m :
                   /\ history'[j].turn = history'[i].turn /\ history'[j].role # history'[i].role
                   /\ i < j <=> history'[i].role = "user"
                   /\ \A k \in m : ~(i < k /\ k < j) /\ ~(j < k /\ k < i)
  <2>1. history[i].chat = d
    BY DEF WholeMemory
  <2>2. PICK j \in m : /\ history[j].turn = history[i].turn /\ history[j].role # history[i].role
                       /\ i < j <=> history[i].role = "user"
                       /\ \A k \in m : ~(i < k /\ k < j) /\ ~(j < k /\ k < i)
    BY DEF WholeMemory
  <2>3. history'[i] = history[i] /\ history'[j] = history[j]
    BY <1>2
  <2> QED
    BY <2>1, <2>2, <2>3
<1>4. WholeMemory(d, m)'
  BY <1>3 DEF WholeMemory
<1>5. m \subseteq DOMAIN history'
  BY <1>1
<1> QED
  BY <1>4, <1>5

\* Every step changes at most one turn, which goes further.
LEMMA StepIsOneTurn ==
    ASSUME IInv, [Next]_vars
    PROVE  \/ turn' = turn /\ history' = history
           \/ \E r \in Requests, t \in Turns :
                 /\ turn' = [turn EXCEPT ![r] = t] /\ Further(t, turn[r])
                 /\ \/ /\ Remembers(t, turn[r])
                       /\ \/ history' = history
                          \/ turn[r].chat \in Chats /\ history' = history \o Pair(turn[r].chat, r)
                    \/ history' = history /\ t.memory = {}
                    \/ /\ history' = history
                       /\ t.chat \in Chats /\ t.memory = ListRecent(t.chat, HistoryLimit)
<1>1. ASSUME NEW r \in Requests, Answering(r)
      PROVE  /\ turn[r].chat \in Chats
             /\ \E t \in Turns : Progress(r, t)
  <2>1. turn[r].at # "idle"
    BY <1>1 DEF Answering, CacheHit, CacheMiss, ModelCalls, ModelAnswers, ModelFails, ToolAnswers,
                ToolRaises, SelectsNothing, SelectsTool, FallbackAnswers, FallbackRaises,
                Rephrased, Stored
  <2> QED
    BY <1>1, <2>1, AnsweringProgress DEF IInv, Sound
<1>2. ASSUME NEW r \in Requests, Ask(r) \/ WaitEnds(r)
      PROVE  /\ history' = history
             /\ \E t \in Turns :
                   /\ turn' = [turn EXCEPT ![r] = t] /\ Further(t, turn[r])
                   /\ \/ Remembers(t, turn[r])
                      \/ t.memory = {}
                      \/ t.chat \in Chats /\ t.memory = ListRecent(t.chat, HistoryLimit)
  BY <1>2, ArrivalProgress
<1>3. CASE \E r \in Requests : Answering(r)
  BY <1>1, <1>3 DEF Progress
<1>4. CASE \E r \in Requests : Ask(r) \/ WaitEnds(r)
  BY <1>2, <1>4
<1>5. CASE UNCHANGED <<history, turn>>
  BY <1>5
<1>6. CASE UNCHANGED vars
  BY <1>6 DEF vars
<1> QED
  BY <1>3, <1>4, <1>5, <1>6 DEF Next, OnLoop, StallEnds, OnThreads

\* Every step keeps what is remembered whole.
LEMMA WholeInductive ==
    ASSUME IsEven(HistoryLimit), IInv, Whole, [Next]_vars
    PROVE  Whole'
<1>1. history \in Seq(Rows) /\ turn = [r \in Requests |-> turn[r]]
  BY DEF IInv
<1>2. CASE turn' = turn /\ history' = history
  <2>1. \A p \in Nat : WholeTurns(p) => WholeTurns(p)'
    BY <1>2 DEF WholeTurns, Exchange, Upto, RowsOf
  <2>2. \A r \in Requests : WholeMemory(turn[r].chat, turn[r].memory)
                            => WholeMemory(turn[r].chat, turn[r].memory)'
    BY <1>2 DEF WholeMemory
  <2> QED
    BY <1>2, <2>1, <2>2 DEF Whole
<1>3. ASSUME NEW r \in Requests, NEW t \in Turns, turn' = [turn EXCEPT ![r] = t],
             \/ /\ Remembers(t, turn[r])
                /\ \/ history' = history
                   \/ turn[r].chat \in Chats /\ history' = history \o Pair(turn[r].chat, r)
             \/ history' = history /\ t.memory = {}
             \/ /\ history' = history
                /\ t.chat \in Chats /\ t.memory = ListRecent(t.chat, HistoryLimit)
      PROVE  Whole'
  <2>1. PICK p \in Nat : WholeTurns(p)
    BY DEF Whole
  <2>2. \/ history' = history
        \/ turn[r].chat \in Chats /\ history' = history \o Pair(turn[r].chat, r)
    BY <1>3
  <2>3. \E n \in Nat : WholeTurns(n)'
    <3>1. CASE history' = history
      BY <2>1, <3>1 DEF WholeTurns, Exchange, Upto, RowsOf
    <3>2. CASE turn[r].chat \in Chats /\ history' = history \o Pair(turn[r].chat, r)
      <4>1. WholeTurns(p + 1)'
        BY <1>1, <2>1, <3>2, TableGrows
      <4> QED
        BY <4>1
    <3> QED
      BY <2>2, <3>1, <3>2
  <2>4. ASSUME NEW d, NEW m \in SUBSET (DOMAIN history), WholeMemory(d, m)
        PROVE  m \subseteq DOMAIN history' /\ WholeMemory(d, m)'
    <3>1. CASE history' = history
      BY <2>4, <3>1 DEF WholeMemory
    <3>2. CASE turn[r].chat \in Chats /\ history' = history \o Pair(turn[r].chat, r)
      BY <1>1, <2>4, <3>2, MemoryStays
    <3> QED
      BY <2>2, <3>1, <3>2
  <2>5. turn'[r] = t /\ \A q \in Requests : q # r => turn'[q] = turn[q]
    BY <1>1, <1>3
  <2>6. ASSUME NEW q \in Requests, q # r
        PROVE  turn'[q].memory \subseteq DOMAIN history' /\ WholeMemory(turn[q].chat, turn[q].memory)'
    <3>1. turn[q].memory \in SUBSET (DOMAIN history) /\ WholeMemory(turn[q].chat, turn[q].memory)
      BY DEF Whole
    <3>2. turn'[q] = turn[q]
      BY <2>5, <2>6
    <3> QED
      BY <2>4, <3>1, <3>2
  <2>7. t.memory \subseteq DOMAIN history /\ WholeMemory(t.chat, t.memory)
    <3>1. CASE Remembers(t, turn[r])
      BY <3>1 DEF Whole, Remembers
    <3>2. CASE t.memory = {}
      BY <3>2 DEF WholeMemory
    <3>3. CASE t.chat \in Chats /\ t.memory = ListRecent(t.chat, HistoryLimit)
      <4>1. WholeMemory(t.chat, ListRecent(t.chat, HistoryLimit))
        BY <1>1, <2>1, <3>3, RecentIsWhole, ChatAssumption
      <4>2. ListRecent(t.chat, HistoryLimit) \subseteq DOMAIN history
        BY DEF ListRecent, RowsOf
      <4> QED
        BY <3>3, <4>1, <4>2
    <3> QED
      BY <1>3, <3>1, <3>2, <3>3
  <2>8. t.memory \subseteq DOMAIN history' /\ WholeMemory(t.chat, t.memory)'
    BY <2>4, <2>7
  <2>9. \A q \in Requests : /\ turn'[q].memory \subseteq DOMAIN history'
                            /\ WholeMemory(turn[q].chat, turn[q].memory)'
    BY <2>5, <2>6, <2>8
  <2> QED
    BY <2>3, <2>9 DEF Whole
<1> QED
  BY <1>2, <1>3, StepIsOneTurn
-----------------------------------------------------------------------------
(* The connections of the pool *)

Turning == {r \in Requests : Holds(r)}
Holding == {k \in Holders : holder[k] = "holding"}

\* Everybody has a connection of the pool who is meant to have one.
Pooled ==
    /\ cached \subseteq Chats
    /\ holder \in [Holders -> {"idle", "waiting", "holding", "gone"}]
    /\ threads \in Nat
    /\ Free >= 0

\* What Free counts.
LEMMA Counted ==
    /\ IsFiniteSet(Turning) /\ IsFiniteSet(Holding)
    /\ Cardinality(Turning) \in Nat /\ Cardinality(Holding) \in Nat
    /\ Free = PoolSize - Cardinality(Turning) - Cardinality(Holding) - threads
<1>1. IsFiniteSet(Turning) /\ IsFiniteSet(Holding)
  BY ChatAssumption, FS_Subset DEF Turning, Holding
<1> QED
  BY <1>1, FS_CardinalityType DEF Free, Turning, Holding

\* The same after a step.
LEMMA CountedNext ==
    /\ IsFiniteSet(Turning') /\ IsFiniteSet(Holding')
    /\ Cardinality(Turning') \in Nat /\ Cardinality(Holding') \in Nat
    /\ Free' = PoolSize - Cardinality(Turning') - Cardinality(Holding') - threads'
<1>1. IsFiniteSet(Turning') /\ IsFiniteSet(Holding')
  BY ChatAssumption, FS_Subset DEF Turning, Holding
<1> QED
  BY <1>1, FS_CardinalityType DEF Free, Turning, Holding

\* One element more adds at most one.
LEMMA OneMore ==
    ASSUME NEW S, IsFiniteSet(S), NEW a, NEW T \in SUBSET (S \cup {a})
    PROVE  Cardinality(T) <= Cardinality(S) + 1
<1>1. IsFiniteSet(S \cup {a}) /\ Cardinality(S \cup {a}) <= Cardinality(S) + 1
  <2>1. Cardinality(S) \in Nat
    BY FS_CardinalityType
  <2>2. Cardinality(S) <= Cardinality(S) + 1 /\ Cardinality(S) + 1 <= Cardinality(S) + 1
    BY <2>1
  <2>3. CASE a \in S
    <3>1. S \cup {a} = S
      BY <2>3
    <3> QED
      BY <2>2, <3>1
  <2>4. CASE a \notin S
    <3>1. IsFiniteSet(S \cup {a}) /\ Cardinality(S \cup {a}) = Cardinality(S) + 1
      BY <2>4, FS_AddElement
    <3> QED
      BY <2>2, <3>1
  <2> QED
    BY <2>3, <2>4
<1>2. IsFiniteSet(T) /\ Cardinality(T) <= Cardinality(S \cup {a})
  BY <1>1, FS_Subset
<1> QED
  BY <1>1, <1>2, FS_CardinalityType

\* The steps of the turns leave the pool in its bounds.
LEMMA TurnsKeepPool ==
    ASSUME IInv, Pooled, NEW r \in Requests, Ask(r) \/ WaitEnds(r) \/ Answering(r), UNCHANGED pool
    PROVE  Pooled'
<1>1. holder' = holder /\ threads' = threads /\ Holding' = Holding
  BY DEF pool, Holding
<1>2. \E t : turn' = [turn EXCEPT ![r] = t]
  BY AnsweringProgress, ArrivalProgress DEF Progress
<1>3. turn = [q \in Requests |-> turn[q]]
  BY DEF IInv
<1>4. \A q \in Requests : q # r => turn'[q] = turn[q]
  BY <1>2, <1>3
<1>5. Turning' \subseteq Turning \cup {r}
  BY <1>4 DEF Turning, Holds
<1>6. Free > 0 \/ Turning' \subseteq Turning
  <2>1. CASE Answering(r)
    <3>1. Holds(r)
      BY <2>1 DEF Answering, CacheHit, CacheMiss, ModelCalls, ModelAnswers, ModelFails,
                  ToolAnswers, ToolRaises, SelectsNothing, SelectsTool, FallbackAnswers,
                  FallbackRaises, Rephrased, Stored, Holds, Final
    <3> QED
      BY <1>5, <3>1 DEF Turning
  <2>2. CASE Ask(r) /\ ~(Free > 0)
    <3>1. PICK c \in Chats : turn' = [turn EXCEPT ![r] = [Idle EXCEPT !.at = "waiting", !.chat = c]]
      BY <2>2 DEF Ask, Continue
    <3>2. turn'[r].at = "waiting"
      BY <1>3, <3>1 DEF Idle
    <3> QED
      BY <1>5, <3>2 DEF Turning, Holds, Final
  <2>3. CASE WaitEnds(r) /\ ~(Free > 0)
    <3>1. turn' = [turn EXCEPT ![r] = [turn[r] EXCEPT !.at = "lost"]] /\ turn[r] \in Turns
      BY <2>3 DEF WaitEnds, Move, Continue, IInv
    <3>2. turn'[r].at = "lost"
      BY <1>3, <3>1 DEF Turns
    <3> QED
      BY <1>5, <3>2 DEF Turning, Holds, Final
  <2> QED
    BY <2>1, <2>2, <2>3
<1>7. Free' >= 0
  <2>1. Cardinality(Turning') <= Cardinality(Turning) + 1
    BY <1>5, Counted, OneMore
  <2>2. Free > 0 \/ Cardinality(Turning') <= Cardinality(Turning)
    BY <1>6, Counted, FS_Subset
  <2>3. threads \in Nat /\ Free >= 0 /\ PoolSize \in Nat
    BY ChatAssumption DEF Pooled
  <2> QED
    BY <1>1, <2>1, <2>2, <2>3, Counted, CountedNext
<1>8. cached' \subseteq Chats
  <2>1. CASE Ask(r) \/ WaitEnds(r)
    <3>1. cached' = cached
      BY <2>1 DEF Ask, WaitEnds, Reads, Move, Continue
    <3> QED
      BY <3>1 DEF Pooled
  <2>2. CASE Stored(r)
    <3>1. turn[r].chat \in Chats
      BY <2>2 DEF Stored, IInv, Sound
    <3> QED
      BY <2>2, <3>1 DEF Stored, Pooled
  <2>3. CASE Answering(r) /\ ~Stored(r)
    <3>1. cached' = cached
      BY <2>3 DEF Answering, CacheHit, CacheMiss, ModelCalls, ModelAnswers, ModelFails,
                  ToolAnswers, ToolRaises, SelectsNothing, SelectsTool, FallbackAnswers,
                  FallbackRaises, Rephrased, Step, Move, Continue, Answers, Errs
    <3> QED
      BY <3>1 DEF Pooled
  <2> QED
    BY <2>1, <2>2, <2>3
<1> QED
  BY <1>1, <1>7, <1>8 DEF Pooled

\* So do those of the other handlers.
LEMMA HoldersKeepPool ==
    ASSUME Pooled, NEW k \in Holders, HolderAsks(k) \/ HolderWaitEnds(k) \/ HolderReturns(k),
           UNCHANGED <<history, turn, cached>>
    PROVE  Pooled'
<1>1. threads' = threads /\ Turning' = Turning
  BY DEF HolderAsks, HolderWaitEnds, HolderReturns, Becomes, Turning, Holds
<1>2. PICK p \in {"idle", "waiting", "holding", "gone"} :
           /\ holder' = [holder EXCEPT ![k] = p]
           /\ Free > 0 \/ p # "holding"
  BY DEF HolderAsks, HolderWaitEnds, HolderReturns, Becomes
<1>3. holder \in [Holders -> {"idle", "waiting", "holding", "gone"}]
  BY DEF Pooled
<1>4. holder'[k] = p /\ \A q \in Holders : q # k => holder'[q] = holder[q]
  BY <1>2, <1>3
<1>5. Holding' \subseteq Holding \cup {k} /\ (Free > 0 \/ Holding' \subseteq Holding)
  BY <1>2, <1>4 DEF Holding
<1>6. Cardinality(Holding') <= Cardinality(Holding) + 1
  BY <1>5, Counted, OneMore
<1>7. Free > 0 \/ Cardinality(Holding') <= Cardinality(Holding)
  BY <1>5, Counted, FS_Subset
<1>8. threads \in Nat /\ Free >= 0 /\ PoolSize \in Nat
  BY ChatAssumption DEF Pooled
<1>9. Free' >= 0
  BY <1>1, <1>6, <1>7, <1>8, Counted, CountedNext
<1>10. holder' \in [Holders -> {"idle", "waiting", "holding", "gone"}]
  BY <1>2, <1>3
<1> QED
  BY <1>1, <1>8, <1>9, <1>10 DEF Pooled

\* Every step keeps the pool in its bounds.
LEMMA PoolInductive ==
    ASSUME IInv, Pooled, [Next]_vars
    PROVE  Pooled'
<1>1. ASSUME NEW r \in Requests, Ask(r) \/ WaitEnds(r) \/ Answering(r), UNCHANGED pool
      PROVE  Pooled'
  BY <1>1, TurnsKeepPool
<1>2. ASSUME NEW k \in Holders, HolderAsks(k) \/ HolderWaitEnds(k) \/ HolderReturns(k),
             UNCHANGED <<history, turn, cached>>
      PROVE  Pooled'
  BY <1>2, HoldersKeepPool
<1>3. CASE OnThreads
  <2>1. Turning' = Turning /\ Holding' = Holding /\ holder' = holder /\ cached' = cached
    BY <1>3 DEF OnThreads, ThreadTakes, ThreadReturns, Turning, Holding, Holds
  <2>2. (Free > 0 /\ threads' = threads + 1) \/ (threads > 0 /\ threads' = threads - 1)
    BY <1>3 DEF OnThreads, ThreadTakes, ThreadReturns
  <2>3. threads \in Nat /\ Free >= 0 /\ PoolSize \in Nat
    BY ChatAssumption DEF Pooled
  <2>4. threads' \in Nat
    BY <2>2, <2>3
  <2>5. Free' >= 0
    BY <2>1, <2>2, <2>3, Counted, CountedNext
  <2> QED
    BY <2>1, <2>4, <2>5 DEF Pooled
<1>4. CASE UNCHANGED vars
  <2>1. Turning' = Turning /\ Holding' = Holding
    BY <1>4 DEF vars, Turning, Holding, Holds
  <2>2. Free' = Free
    BY <1>4, <2>1, Counted, CountedNext DEF vars
  <2> QED
    BY <1>4, <2>2 DEF vars, Pooled
<1> QED
  BY <1>1, <1>2, <1>3, <1>4 DEF Next, OnLoop, StallEnds

\* Nobody has a connection when the process starts.
LEMMA PoolInitially == Init => Pooled
<1> SUFFICES ASSUME Init PROVE Pooled
  OBVIOUS
<1>1. Turning = {} /\ Holding = {} /\ threads = 0
  BY DEF Init, Turning, Holding, Holds, Idle
<1>2. Free = PoolSize
  BY <1>1, Counted, FS_EmptySet, ChatAssumption
<1> QED
  BY <1>1, <1>2, ChatAssumption DEF Init, Pooled
-----------------------------------------------------------------------------
\* In every reachable state each turn has the rows and the past its place asks for.
THEOREM Invariance == Spec => []IInv
BY Initially, Inductive, PTL DEF Spec

\* A turn that the agent answered, with its error or not, left its question and
\* its answer exactly once; one that was told a notice (a blank message, a
\* missing dependency), lost, or is still under way left nothing (respond,
\* Database.session), for any number of turns, chats and earlier rows.
THEOREM TurnsAreRecordedOnce == Spec => []RecordedOnce
<1>1. IInv => RecordedOnce
  BY DEF IInv
<1> QED
  BY <1>1, Invariance, PTL

\* The selection of a tool outside the graph, and the store in the cache, never
\* follow a tool that ran (_run_agent), whatever the recursion limit.
THEOREM FallbackFollowsNoTool == Spec => []FallbackIsFirst
<1>1. IInv => FallbackIsFirst
  BY DEF IInv, Sound, FallbackIsFirst
<1> QED
  BY <1>1, Invariance, PTL

\* Every variable stays in its type; above all, no thread ever finds more
\* connections taken than the engine has.
THEOREM TypeCorrect == Spec => []TypeOK
<1>1. IInv /\ Pooled => TypeOK
  <2> SUFFICES ASSUME IInv, Pooled PROVE TypeOK
    OBVIOUS
  <2>1. threads \in 0..PoolSize
    <3>1. threads \in Nat /\ Free >= 0 /\ PoolSize \in Nat
      BY ChatAssumption DEF Pooled
    <3> QED
      BY <3>1, Counted
  <2>2. turn \in [Requests -> Turns]
    BY DEF IInv
  <2> QED
    BY <2>1, <2>2 DEF IInv, Pooled, TypeOK
<1>2. Init => Pooled
  BY PoolInitially
<1>3. IInv /\ Pooled /\ [Next]_vars => Pooled'
  BY PoolInductive
<1> QED
  BY <1>1, <1>2, <1>3, Invariance, PTL DEF Spec

\* The turns, the other handlers and the worker threads never hold more
\* connections together than the engine has (Database, create_engine).
THEOREM PoolIsNeverOverdrawn == Spec => [](Free >= 0)
<1>1. Pooled => Free >= 0
  BY DEF Pooled
<1>2. Init => Pooled
  BY PoolInitially
<1>3. IInv /\ Pooled /\ [Next]_vars => Pooled'
  BY PoolInductive
<1> QED
  BY <1>1, <1>2, <1>3, Invariance, PTL DEF Spec

\* The memory given to the model is made of whole turns of the same user and
\* session, for any even limit (12 in _run_agent) and any number of chats, turns
\* and rows (list_recent_messages, add_message).
THEOREM MemoriesAreWhole ==
    ASSUME IsEven(HistoryLimit)
    PROVE  Spec => []MemoryIsWhole
<1>1. Init => Whole
  BY WholeInitially
<1>2. IInv /\ Whole /\ [Next]_vars => Whole'
  BY WholeInductive
<1>3. Whole => MemoryIsWhole
  BY DEF Whole, WholeMemory, MemoryIsWhole
<1> QED
  BY <1>1, <1>2, <1>3, Invariance, PTL DEF Spec

\* No step of a request leads back: every one that changes its turn makes a
\* superstep, or passes to a later place of the same superstep, or waits for one
\* tool call less.  Supersteps, places and calls are bounded (TypeCorrect), so no
\* turn takes steps for ever, whatever the model answers (_run_agent, build_graph).
THEOREM TurnsOnlyAdvance ==
    Spec => [][\A r \in Requests : turn'[r] = turn[r] \/ Further(turn'[r], turn[r])]_vars
<1>1. IInv /\ [Next]_vars
         => [\A r \in Requests : turn'[r] = turn[r] \/ Further(turn'[r], turn[r])]_vars
  <2> SUFFICES ASSUME IInv, [Next]_vars, NEW r \in Requests
               PROVE  turn'[r] = turn[r] \/ Further(turn'[r], turn[r])
    OBVIOUS
  <2>1. turn = [q \in Requests |-> turn[q]]
    BY DEF IInv
  <2>2. \/ turn' = turn
        \/ \E q \in Requests, t \in Turns : turn' = [turn EXCEPT ![q] = t] /\ Further(t, turn[q])
    BY StepIsOneTurn
  <2>3. ASSUME NEW q \in Requests, NEW t \in Turns, turn' = [turn EXCEPT ![q] = t], Further(t, turn[q])
        PROVE  turn'[r] = turn[r] \/ Further(turn'[r], turn[r])
    BY <2>1, <2>3
  <2> QED
    BY <2>2, <2>3
<1> QED
  BY <1>1, Invariance, PTL DEF Spec

\* Rows are only ever appended, the question and the answer of one turn together:
\* turns that overlap do not interleave their rows, and no row is changed or taken
\* away (add_message in the one transaction of respond).
THEOREM HistoryGrowsByTurns ==
    Spec => [][\/ history' = history
               \/ \E r \in Requests : /\ turn[r].chat \in Chats /\ turn'[r] # turn[r]
                                      /\ history' = history \o Pair(turn[r].chat, r)]_vars
<1>1. IInv /\ [Next]_vars =>
        [\/ history' = history
         \/ \E r \in Requests : /\ turn[r].chat \in Chats /\ turn'[r] # turn[r]
                                /\ history' = history \o Pair(turn[r].chat, r)]_vars
  <2> SUFFICES ASSUME IInv, [Next]_vars, history' # history
               PROVE  \E r \in Requests : /\ turn[r].chat \in Chats /\ turn'[r] # turn[r]
                                          /\ history' = history \o Pair(turn[r].chat, r)
    OBVIOUS
  <2>1. PICK r \in Requests, t \in Turns :
           /\ turn' = [turn EXCEPT ![r] = t] /\ Further(t, turn[r])
           /\ turn[r].chat \in Chats /\ history' = history \o Pair(turn[r].chat, r)
    BY StepIsOneTurn
  <2>2. turn'[r] = t
    BY <2>1 DEF IInv
  <2>3. ~Further(t, t)
    <3>1. t.steps \in Nat /\ t.calls \in Nat /\ Stage(t.at) \in Nat
      BY ChatAssumption DEF Turns, Places, Stage, Final
    <3> QED
      BY <3>1 DEF Further
  <2> QED
    BY <2>1, <2>2, <2>3
<1> QED
  BY <1>1, Invariance, PTL DEF Spec
=============================================================================
