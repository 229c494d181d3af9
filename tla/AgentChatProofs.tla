--------------------------- MODULE AgentChatProofs ---------------------------
(***************************************************************************)
(* Proofs about AgentChat, for any chats and creations and any pool.  The    *)
(* inductive invariant says how many connections a request holds at each    *)
(* point, and that what a user was answered is in the table.                *)
(***************************************************************************)
EXTENDS AgentChat, TLAPS

\* Each point belongs to one kind of request, and fixes what it holds.
PointAt(x) ==
    /\ pc[x] \in {"flag", "commit flag", "blocked"} => x \in Creations
    /\ pc[x] = "answer" => x \in Chats
    /\ pc[x] \in {"new", "connect"} => held[x] = 0
    /\ pc[x] \in {"check", "ollama", "flag"} => held[x] = 1
PointInv == \A x \in Requests : PointAt(x)

\* The two halves of TypeOK: where requests are, and what they have done.
Points == {"new", "connect", "check", "ollama", "answer", "flag", "commit flag",
           "blocked", "over"}
PlaceOK == pc \in [Requests -> Points] /\ held \in [Requests -> 0..2]
TablesOK ==
    /\ messages \subseteq Messages /\ seen \in [Chats -> SUBSET Messages]
    /\ created \subseteq Creations /\ flags \subseteq Creations
    /\ answered \subseteq Chats /\ earlier \in [Chats -> SUBSET Chats]
    /\ unwritten \subseteq Creations

\* The exchanges of chats that were answered, or are about to be, are stored.
StoredInv == \A x \in Chats :
    /\ x \in answered \/ pc[x] = "answer" =>
          <<x, "user">> \in messages /\ <<x, "assistant">> \in messages
    /\ earlier[x] \subseteq answered

IInv == TypeOK /\ PointInv /\ MessagesPaired /\ StoredInv
            /\ AnswersRemembered /\ RefusedIsFlagged

\* No request has begun.
LEMMA InitInvariant == Init => IInv
<1> SUFFICES ASSUME Init PROVE IInv
  OBVIOUS
<1> USE DEF Init, Requests
<1>1. TypeOK
  BY DEF TypeOK
<1>2. PointInv
  BY DEF PointInv, PointAt
<1>3. MessagesPaired /\ StoredInv
  BY DEF MessagesPaired, StoredInv
<1>4. AnswersRemembered /\ RefusedIsFlagged
  BY DEF AnswersRemembered, RefusedIsFlagged
<1> QED
  BY <1>1, <1>2, <1>3, <1>4 DEF IInv

\* A request goes to a point, and may take or give back connections.
LEMMA MoveType ==
    ASSUME IInv, NEW x \in Requests, NEW from, NEW to \in Points, Goto(x, from, to),
           UNCHANGED held \/ \E n \in 0..2 : Hold(x, n)
    PROVE  PlaceOK'
<1>1. pc \in [Requests -> Points] /\ held \in [Requests -> 0..2]
  BY DEF IInv, TypeOK, Points
<1>2. pc' \in [Requests -> Points]
  BY <1>1 DEF Goto
<1>3. held' \in [Requests -> 0..2]
  BY <1>1 DEF Hold
<1> QED
  BY <1>2, <1>3 DEF PlaceOK

\* The connection taken is the request's first or its second.
LEMMA TakesOne ==
    ASSUME IInv, NEW x \in Requests, Connect(x)
    PROVE  \/ Goto(x, "connect", "check") /\ Hold(x, 1)
           \/ Goto(x, "flag", "commit flag") /\ Hold(x, 2)
<1>1. PointAt(x)
  BY DEF IInv, PointInv
<1>2. held' = [held EXCEPT ![x] = held[x] + 1]
  BY DEF Connect, Hold
<1>3. CASE Goto(x, "connect", "check")
  <2>1. held[x] = 0
    BY <1>1, <1>3 DEF PointAt, Goto
  <2>2. held[x] + 1 = 1
    BY <2>1, SMT
  <2>3. held' = [held EXCEPT ![x] = 1]
    BY <1>2, <2>2, Zenon
  <2> QED
    BY <1>3, <2>3 DEF Hold
<1>4. CASE Goto(x, "flag", "commit flag")
  <2>1. held[x] = 1
    BY <1>1, <1>4 DEF PointAt, Goto
  <2>2. held[x] + 1 = 2
    BY <2>1, SMT
  <2>3. held' = [held EXCEPT ![x] = 2]
    BY <1>2, <2>2, Zenon
  <2> QED
    BY <1>4, <2>3 DEF Hold
<1> QED
  BY <1>3, <1>4 DEF Connect

\* One step of the pool or of a request.
LEMMA PlaceStep == IInv /\ [Next]_vars => PlaceOK'
<1> SUFFICES ASSUME IInv, [Next]_vars PROVE PlaceOK'
  OBVIOUS
<1>0. /\ {"new", "connect", "check", "ollama", "answer", "flag", "commit flag",
          "blocked", "over"} \subseteq Points
      /\ 0 \in 0..2 /\ 1 \in 0..2 /\ 2 \in 0..2
  BY DEF Points
<1>1. ASSUME NEW x \in Requests, Begin(x) PROVE PlaceOK'
  BY <1>0, <1>1, MoveType DEF Begin
<1>2. ASSUME NEW x \in Requests, Connect(x) PROVE PlaceOK'
  BY <1>0, <1>2, TakesOne, MoveType
<1>3. ASSUME NEW x \in Requests, PoolTimeout(x) PROVE PlaceOK'
  BY <1>0, <1>3, MoveType DEF PoolTimeout
<1>4. ASSUME NEW x \in Requests, Fail(x) PROVE PlaceOK'
  BY <1>0, <1>4, MoveType DEF Fail
<1>5. ASSUME NEW x \in Requests, SaveMessage(x) PROVE PlaceOK'
  BY <1>0, <1>5, MoveType DEF SaveMessage, Ask
<1>6. ASSUME NEW x \in Requests, CommitReply(x) PROVE PlaceOK'
  BY <1>0, <1>6, MoveType DEF CommitReply, Answer
<1>7. ASSUME NEW x \in Requests, Classify(x) PROVE PlaceOK'
  BY <1>0, <1>7, MoveType DEF Classify
<1>8. ASSUME NEW x \in Requests, Block(x) PROVE PlaceOK'
  BY <1>0, <1>8, MoveType DEF Block
<1>9. ASSUME NEW x \in Requests, CommitFlag(x) PROVE PlaceOK'
  BY <1>0, <1>9, MoveType DEF CommitFlag
<1>10. ASSUME NEW x \in Requests, RefuseBlocked(x) PROVE PlaceOK'
  BY <1>0, <1>10, MoveType DEF RefuseBlocked
<1>11. ASSUME NEW x \in Requests, CreateRun(x) PROVE PlaceOK'
  BY <1>0, <1>11, MoveType DEF CreateRun
<1>12. ASSUME NEW x \in Requests, FlagFault(x) PROVE PlaceOK'
  BY <1>0, <1>12, MoveType DEF FlagFault
<1>13. CASE UNCHANGED vars
  BY <1>13 DEF vars, IInv, TypeOK, PlaceOK, Points
<1> QED
  BY <1>1, <1>2, <1>3, <1>4, <1>5, <1>6, <1>7, <1>8, <1>9, <1>10, <1>11, <1>12, <1>13
     DEF Next, Step

\* The tables and the history grow within their types.
LEMMA TypeStep == IInv /\ [Next]_vars => TypeOK'
<1> SUFFICES ASSUME IInv, [Next]_vars PROVE TypeOK'
  OBVIOUS
<1>1. PlaceOK'
  BY PlaceStep
<1>2. TablesOK
  BY DEF IInv, TypeOK, TablesOK
<1>3. ASSUME NEW x \in Requests, Begin(x) PROVE TablesOK'
  BY <1>2, <1>3 DEF TablesOK, Begin, tableVars, historyVars
<1>4. ASSUME NEW x \in Requests, Connect(x) PROVE TablesOK'
  BY <1>2, <1>4 DEF TablesOK, Connect, tableVars, historyVars
<1>5. ASSUME NEW x \in Requests, PoolTimeout(x) PROVE TablesOK'
  <2>1. pc[x] = "flag" => x \in Creations
    BY DEF IInv, PointInv, PointAt
  <2> QED
    BY <1>2, <1>5, <2>1 DEF TablesOK, PoolTimeout, tableVars, historyVars, Goto
<1>6. ASSUME NEW x \in Requests, Fail(x) PROVE TablesOK'
  BY <1>2, <1>6 DEF TablesOK, Fail, tableVars, historyVars
<1>7. ASSUME NEW x \in Requests, SaveMessage(x) PROVE TablesOK'
  BY <1>2, <1>7 DEF TablesOK, SaveMessage, Ask, tableVars, historyVars
<1>8. ASSUME NEW x \in Requests, CommitReply(x) PROVE TablesOK'
  BY <1>2, <1>8 DEF TablesOK, CommitReply, Answer, tableVars, historyVars, Messages, Exchange
<1>9. ASSUME NEW x \in Requests, Classify(x) PROVE TablesOK'
  BY <1>2, <1>9 DEF TablesOK, Classify, tableVars, historyVars
<1>10. ASSUME NEW x \in Requests, Block(x) PROVE TablesOK'
  BY <1>2, <1>10 DEF TablesOK, Block, tableVars, historyVars
<1>11. ASSUME NEW x \in Requests, CommitFlag(x) PROVE TablesOK'
  <2>1. x \in Creations
    BY <1>11 DEF CommitFlag, Goto, IInv, PointInv, PointAt
  <2> QED
    BY <1>2, <1>11, <2>1 DEF TablesOK, CommitFlag, tableVars, historyVars
<1>12. ASSUME NEW x \in Requests, RefuseBlocked(x) PROVE TablesOK'
  BY <1>2, <1>12 DEF TablesOK, RefuseBlocked, tableVars, historyVars
<1>13. ASSUME NEW x \in Requests, CreateRun(x) PROVE TablesOK'
  BY <1>2, <1>13 DEF TablesOK, CreateRun, tableVars, historyVars
<1>14. ASSUME UNCHANGED vars PROVE TablesOK'
  <2>1. UNCHANGED <<tableVars, seen, historyVars>>
    BY <1>14 DEF vars
  <2> QED
    BY <1>2, <2>1 DEF TablesOK, tableVars, historyVars
<1>15. ASSUME NEW x \in Requests, FlagFault(x) PROVE TablesOK'
  <2>1. x \in Creations
    BY <1>15 DEF FlagFault, Goto, IInv, PointInv, PointAt
  <2> QED
    BY <1>2, <1>15, <2>1 DEF TablesOK, FlagFault
<1>16. TablesOK'
  BY <1>3, <1>4, <1>5, <1>6, <1>7, <1>8, <1>9, <1>10, <1>11, <1>12, <1>13, <1>14, <1>15
     DEF Next, Step
<1> QED
  BY <1>1, <1>16 DEF TypeOK, PlaceOK, TablesOK, Points

\* A request that moves holds what its new point calls for; the others keep
\* their point and their connections.
LEMMA PointStep == IInv /\ [Next]_vars => PointInv'
<1> SUFFICES ASSUME IInv, [Next]_vars, NEW y \in Requests PROVE PointAt(y)'
  BY DEF PointInv
<1>1. /\ pc \in [Requests -> Points] /\ held \in [Requests -> 0..2]
      /\ PointAt(y)
  BY DEF IInv, TypeOK, Points, PointInv, PointAt
<1>2. ASSUME NEW x \in Requests, Begin(x) PROVE PointAt(y)'
  BY <1>1, <1>2 DEF PointAt, Begin, Goto, Hold
<1>3. ASSUME NEW x \in Requests, Connect(x) PROVE PointAt(y)'
  <2>1. CASE Goto(x, "connect", "check") /\ Hold(x, 1)
    BY <1>1, <2>1 DEF PointAt, Goto, Hold
  <2>2. CASE Goto(x, "flag", "commit flag") /\ Hold(x, 2)
    BY <1>1, <2>2 DEF PointAt, Goto, Hold
  <2> QED
    BY <1>3, <2>1, <2>2, TakesOne
<1>4. ASSUME NEW x \in Requests, PoolTimeout(x) PROVE PointAt(y)'
  BY <1>1, <1>4 DEF PointAt, PoolTimeout, Goto, Hold
<1>5. ASSUME NEW x \in Requests, Fail(x) PROVE PointAt(y)'
  BY <1>1, <1>5 DEF PointAt, Fail, Goto, Hold
<1>6. ASSUME NEW x \in Requests, SaveMessage(x) PROVE PointAt(y)'
  BY <1>1, <1>6 DEF PointAt, SaveMessage, Ask, Goto, Hold
<1>7. ASSUME NEW x \in Requests, CommitReply(x) PROVE PointAt(y)'
  BY <1>1, <1>7 DEF PointAt, CommitReply, Answer, Goto, Hold
<1>8. ASSUME NEW x \in Requests, Classify(x) PROVE PointAt(y)'
  BY <1>1, <1>8 DEF PointAt, Classify, Goto, Hold
<1>9. ASSUME NEW x \in Requests, Block(x) PROVE PointAt(y)'
  BY <1>1, <1>9 DEF PointAt, Block, Goto, Hold
<1>10. ASSUME NEW x \in Requests, CommitFlag(x) PROVE PointAt(y)'
  BY <1>1, <1>10 DEF PointAt, CommitFlag, Goto, Hold
<1>11. ASSUME NEW x \in Requests, RefuseBlocked(x) PROVE PointAt(y)'
  BY <1>1, <1>11 DEF PointAt, RefuseBlocked, Goto, Hold
<1>12. ASSUME NEW x \in Requests, CreateRun(x) PROVE PointAt(y)'
  BY <1>1, <1>12 DEF PointAt, CreateRun, Goto, Hold
<1>13. ASSUME NEW x \in Requests, FlagFault(x) PROVE PointAt(y)'
  BY <1>1, <1>13 DEF PointAt, FlagFault, Goto, Hold
<1>14. CASE UNCHANGED vars
  BY <1>1, <1>14 DEF vars, PointAt
<1> QED
  BY <1>2, <1>3, <1>4, <1>5, <1>6, <1>7, <1>8, <1>9, <1>10, <1>11, <1>12, <1>13, <1>14
     DEF Next, Step

\* Only CommitReply writes messages, and it writes both of its own.
LEMMA MessageStep == IInv /\ [Next]_vars => (MessagesPaired /\ StoredInv)'
<1> SUFFICES ASSUME IInv, [Next]_vars PROVE (MessagesPaired /\ StoredInv)'
  OBVIOUS
<1> USE DEF IInv, TypeOK, PointInv, MessagesPaired, StoredInv, Requests
<1>1. ASSUME NEW x \in Requests, CommitReply(x) PROVE (MessagesPaired /\ StoredInv)'
  <2>1. CASE Goto(x, "ollama", "answer")
    <3>1. messages' = messages \cup Exchange({x}) /\ UNCHANGED <<answered, earlier>>
      BY <1>1, <2>1 DEF CommitReply, Goto, historyVars
    <3>2. \A y, r : <<y, r>> \in messages' <=>
               <<y, r>> \in messages \/ (y = x /\ r \in {"user", "assistant"})
      BY <3>1 DEF Exchange
    <3>3. \A y \in Chats : pc'[y] = "answer" => y = x \/ pc[y] = "answer"
      BY <2>1 DEF Goto
    <3> QED
      BY <3>1, <3>2, <3>3
  <2>2. CASE Goto(x, "answer", "over")
    <3>1. UNCHANGED <<messages, earlier>> /\ answered' = answered \cup {x}
      BY <1>1, <2>2 DEF CommitReply, Answer, Goto
    <3>2. pc[x] = "answer" /\ \A y \in Chats : pc'[y] = "answer" => pc[y] = "answer"
      BY <2>2 DEF Goto
    <3> QED
      BY <3>1, <3>2
  <2> QED
    BY <1>1, <2>1, <2>2 DEF CommitReply
<1>2. ASSUME NEW x \in Requests, Begin(x) PROVE (MessagesPaired /\ StoredInv)'
  BY <1>2 DEF Begin, Goto, tableVars
<1>3. ASSUME UNCHANGED <<messages, answered, earlier>>,
             \A y \in Requests : pc'[y] = "answer" => pc[y] = "answer"
      PROVE  (MessagesPaired /\ StoredInv)'
  BY <1>3
<1>4. ASSUME NEW x \in Requests, Step(x), ~CommitReply(x)
      PROVE  /\ UNCHANGED <<messages, answered, earlier>>
             /\ \A y \in Requests : pc'[y] = "answer" => pc[y] = "answer"
  BY <1>4 DEF Step, Connect, PoolTimeout, Fail, SaveMessage, Ask, Classify, Block,
              CommitFlag, FlagFault, RefuseBlocked, CreateRun, Goto, tableVars, historyVars
<1>5. CASE UNCHANGED vars
  BY <1>3, <1>5 DEF vars, tableVars, historyVars
<1> QED
  BY <1>1, <1>2, <1>3, <1>4, <1>5 DEF Next

LEMMA ExchangeMembers ==
    ASSUME NEW C, NEW e \in Exchange(C)
    PROVE  \E z \in C : e = <<z, "user">> \/ e = <<z, "assistant">>
<1>1. PICK z \in C, r \in {"user", "assistant"} : e = <<z, r>>
  BY DEF Exchange
<1>2. r = "user" \/ r = "assistant"
  OBVIOUS
<1> QED
  BY <1>1, <1>2

\* The prompt is built from the table, which holds what was answered before.
LEMMA PromptStep == IInv /\ [Next]_vars => AnswersRemembered'
<1> SUFFICES ASSUME IInv, [Next]_vars, NEW c \in Chats, pc'[c] = "ollama"
             PROVE  (Exchange(earlier[c]) \subseteq seen[c])'
  BY DEF AnswersRemembered
<1> USE KindsAssumption DEF IInv, TypeOK, Requests
<1>1. ASSUME NEW x \in Requests, SaveMessage(x), x = c
      PROVE  (Exchange(earlier[c]) \subseteq seen[c])'
  <2>1. Exchange(earlier[c]) \subseteq messages
    <3>1. ASSUME NEW z \in earlier[c]
          PROVE  <<z, "user">> \in messages /\ <<z, "assistant">> \in messages
      <4>1. z \in Chats /\ z \in answered
        BY DEF StoredInv
      <4> QED
        BY <4>1 DEF StoredInv
    <3>2. \A e \in Exchange(earlier[c]) :
             \E z \in earlier[c] : e = <<z, "user">> \/ e = <<z, "assistant">>
      BY ExchangeMembers
    <3> QED
      BY <3>1, <3>2
  <2> QED
    BY <1>1, <2>1 DEF SaveMessage, Ask, historyVars, Exchange
<1>2. ASSUME pc[c] = "ollama", seen'[c] = seen[c], earlier'[c] = earlier[c]
      PROVE  (Exchange(earlier[c]) \subseteq seen[c])'
  BY <1>2 DEF AnswersRemembered, Exchange
<1>3. ASSUME NEW x \in Requests, Begin(x)
      PROVE  pc[c] = "ollama" /\ seen'[c] = seen[c] /\ earlier'[c] = earlier[c]
  BY <1>3 DEF Begin, Goto
<1>4. ASSUME NEW x \in Requests, SaveMessage(x), x # c
      PROVE  pc[c] = "ollama" /\ seen'[c] = seen[c] /\ earlier'[c] = earlier[c]
  BY <1>4 DEF SaveMessage, Ask, Goto, historyVars
<1>5. ASSUME NEW x \in Requests, Step(x), ~SaveMessage(x)
      PROVE  pc[c] = "ollama" /\ seen'[c] = seen[c] /\ earlier'[c] = earlier[c]
  BY <1>5 DEF Step, Connect, PoolTimeout, Fail, CommitReply, Answer, Classify, Block,
              CommitFlag, FlagFault, RefuseBlocked, CreateRun, Goto, tableVars, historyVars
<1>7. CASE UNCHANGED vars
  BY <1>2, <1>7 DEF vars, historyVars
<1> QED
  BY <1>1, <1>2, <1>3, <1>4, <1>5, <1>7 DEF Next

\* A creation goes to "blocked" with its flag stored, or after an error.
LEMMA FlagStep == IInv /\ [Next]_vars => RefusedIsFlagged'
<1> SUFFICES ASSUME IInv, [Next]_vars, NEW c \in Creations, pc'[c] = "blocked"
             PROVE  c \in flags' \cup unwritten'
  BY DEF RefusedIsFlagged
<1>1. /\ pc \in [Requests -> Points] /\ c \in Requests
      /\ pc[c] = "blocked" => c \in flags \cup unwritten
  BY DEF IInv, TypeOK, Points, Requests, RefusedIsFlagged
<1>2. ASSUME NEW x \in Requests, Begin(x) PROVE c \in flags' \cup unwritten'
  BY <1>1, <1>2 DEF Begin, Goto, tableVars
<1>3. ASSUME NEW x \in Requests, PoolTimeout(x) PROVE c \in flags' \cup unwritten'
  BY <1>1, <1>3 DEF PoolTimeout, Goto, tableVars
<1>4. ASSUME NEW x \in Requests, CommitFlag(x) PROVE c \in flags' \cup unwritten'
  BY <1>1, <1>4 DEF CommitFlag, Goto, historyVars
<1>5. ASSUME NEW x \in Requests, FlagFault(x) PROVE c \in flags' \cup unwritten'
  BY <1>1, <1>5 DEF FlagFault, Goto
<1>6. ASSUME NEW x \in Requests, Step(x), ~PoolTimeout(x), ~CommitFlag(x), ~FlagFault(x)
      PROVE  c \in flags' \cup unwritten'
  <2>1. UNCHANGED <<flags, unwritten>>
    BY <1>6 DEF Step, Connect, Fail, SaveMessage, Ask, CommitReply, Answer, Classify,
                Block, RefuseBlocked, CreateRun, tableVars, historyVars
  <2>2. pc[c] = "blocked"
    BY <1>1, <1>6 DEF Step, Connect, Fail, SaveMessage, Ask, CommitReply, Classify,
                      Block, RefuseBlocked, CreateRun, Goto
  <2> QED
    BY <1>1, <2>1, <2>2
<1>7. CASE UNCHANGED vars
  BY <1>1, <1>7 DEF vars, tableVars, historyVars
<1> QED
  BY <1>2, <1>3, <1>4, <1>5, <1>6, <1>7 DEF Next

LEMMA Invariance == Spec => []IInv
<1>1. IInv /\ [Next]_vars => IInv'
  BY TypeStep, PointStep, MessageStep, PromptStep, FlagStep DEF IInv
<1> QED
  BY InitInvariant, <1>1, PTL DEF Spec

\* Every variable of the requests, the pool and the tables keeps its type; no
\* request holds more than two connections.
THEOREM TypeCorrect == Spec => []TypeOK
<1>1. IInv => TypeOK
  BY DEF IInv
<1> QED
  BY Invariance, <1>1, PTL

\* No failure leaves one message of an exchange without the other
\* (send_chat_message).
THEOREM MessagesAlwaysPaired == Spec => []MessagesPaired
<1>1. IInv => MessagesPaired
  BY DEF IInv
<1> QED
  BY Invariance, <1>1, PTL

\* What the user was answered is in the prompt of their next message
\* (_build_history, and the commit before the answer).
THEOREM AnswersAlwaysRemembered == Spec => []AnswersRemembered
<1>1. IInv => AnswersRemembered
  BY DEF IInv
<1> QED
  BY Invariance, <1>1, PTL

\* A refused prompt leaves its flag, unless _write_flag, in a session of its own,
\* has met with an error and swallowed it.
THEOREM RefusedAlwaysFlagged == Spec => []RefusedIsFlagged
<1>1. IInv => RefusedIsFlagged
  BY DEF IInv
<1> QED
  BY Invariance, <1>1, PTL
=============================================================================
