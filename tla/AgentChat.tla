----------------------------- MODULE AgentChat ------------------------------
(***************************************************************************)
(* Requests of a worker process that share its pool of database connections *)
(* (core/database.py) and wait for Ollama while they hold one: messages     *)
(* sent to an agent about a finished run (services/chat_service.py), and    *)
(* runs being created, whose prompt is classified first                     *)
(* (services/run_service.py, services/prompt_classifier.py).  A prompt that *)
(* is blocked is flagged in a session of its own: a second connection for   *)
(* the same request.                                                        *)
(*                                                                          *)
(* A session takes its connection at the first statement, the one of        *)
(* get_current_user, and gives it back when it commits, rolls back or is    *)
(* closed.  The messages are those of one user with one agent.              *)
(***************************************************************************)
EXTENDS Integers, FiniteSets, FiniteSetsExt

CONSTANTS
    Chats,       \* requests to send a message
    Creations,   \* requests to create a run
    PoolSize     \* pool_size and max_overflow

ASSUME PoolSizeAssumption == PoolSize \in Nat \ {0}
ASSUME KindsAssumption == Chats \cap Creations = {}

VARIABLES
    pc,          \* where each request is
    held,        \* the connections it holds
    messages,    \* agent_chat_messages: <<request, role>>
    seen,        \* the messages that are in the prompt of a chat
    created,     \* creations whose run is stored
    flags,       \* creations whose prompt has a monitoring flag
    (* history *)
    answered,    \* chats whose reply was given to the user
    earlier,     \* earlier[x]: the chats answered before x began
    unwritten    \* creations whose flag met with an error

tableVars == <<messages, created, flags>>
historyVars == <<answered, earlier, unwritten>>
vars == <<pc, held, tableVars, seen, historyVars>>

Requests == Chats \cup Creations
Messages == Chats \X {"user", "assistant"}
Exchange(C) == C \X {"user", "assistant"}

Free == PoolSize - MapThenSumSet(LAMBDA x : held[x], Requests)

TypeOK ==
    /\ pc \in [Requests -> {"new", "connect", "check", "ollama", "answer", "flag",
                            "commit flag", "blocked", "over"}]
    /\ held \in [Requests -> 0..2]
    /\ messages \subseteq Messages /\ seen \in [Chats -> SUBSET Messages]
    /\ created \subseteq Creations /\ flags \subseteq Creations
    /\ answered \subseteq Chats /\ earlier \in [Chats -> SUBSET Chats]
    /\ unwritten \subseteq Creations

Init ==
    /\ pc = [x \in Requests |-> "new"] /\ held = [x \in Requests |-> 0]
    /\ messages = {} /\ seen = [x \in Chats |-> {}]
    /\ created = {} /\ flags = {}
    /\ answered = {} /\ earlier = [x \in Chats |-> {}] /\ unwritten = {}

-----------------------------------------------------------------------------
(* Helpers.  Definitions named "wrong variant" are not used: put in the     *)
(* place of the next definition of the same kind they break a property,     *)
(* which shows what the property says about the code.                       *)

Goto(x, from, to) == pc[x] = from /\ pc' = [pc EXCEPT ![x] = to]
Hold(x, n) == held' = [held EXCEPT ![x] = n]

-----------------------------------------------------------------------------
(* The pool *)

Begin(x) ==
    /\ Goto(x, "new", "connect")
    /\ earlier' = IF x \in Chats THEN [earlier EXCEPT ![x] = answered] ELSE earlier
    /\ UNCHANGED <<held, tableVars, seen, answered, unwritten>>

\* The request's own connection, or the one for the flag.
Connect(x) ==
    /\ Free > 0
    /\ \/ Goto(x, "connect", "check") \/ Goto(x, "flag", "commit flag")
    /\ Hold(x, held[x] + 1)
    /\ UNCHANGED <<tableVars, seen, historyVars>>

\* No connection comes in 30 seconds: the request fails; the error of a flag is
\* swallowed.
PoolTimeout(x) ==
    /\ Free = 0
    /\ \/ Goto(x, "connect", "over") /\ UNCHANGED unwritten
       \/ Goto(x, "flag", "blocked") /\ unwritten' = unwritten \cup {x}
    /\ UNCHANGED <<held, tableVars, seen, answered, earlier>>

\* Wrong variant of Fail: the session of a request that failed stays open.
FailOpen(x) ==
    /\ \/ Goto(x, "check", "over") \/ Goto(x, "ollama", "over")
    /\ UNCHANGED <<held, tableVars, seen, historyVars>>

\* get_db rolls back and closes: the run or the problem is not there or not
\* theirs, the run is not done, Ollama does not answer in time, or the commit
\* fails.
Fail(x) ==
    /\ \/ Goto(x, "check", "over") \/ Goto(x, "ollama", "over")
    /\ Hold(x, 0)
    /\ UNCHANGED <<tableVars, seen, historyVars>>

-----------------------------------------------------------------------------
(* send_chat_message *)

Ask(x) ==
    /\ x \in Chats /\ Goto(x, "check", "ollama")
    /\ seen' = [seen EXCEPT ![x] = messages]
    /\ UNCHANGED <<held, created, flags, historyVars>>

\* Wrong variant of SaveMessage: the user's message is committed at once.
SaveMessageNow(x) == Ask(x) /\ messages' = messages \cup {<<x, "user">>}

\* The user's message is flushed, and stays in the open transaction.
SaveMessage(x) == Ask(x) /\ UNCHANGED messages

Answer(x) ==
    /\ answered' = answered \cup {x}
    /\ UNCHANGED <<seen, created, flags, earlier, unwritten>>

\* Wrong variant of CommitReply: the commit is left to get_db.
CommitReplyLate(x) ==
    /\ x \in Chats
    /\ \/ Goto(x, "ollama", "answer") /\ Answer(x) /\ UNCHANGED <<held, messages>>
       \/ /\ Goto(x, "answer", "over")
          /\ messages' = messages \cup Exchange({x}) /\ Hold(x, 0)
          /\ UNCHANGED <<seen, created, flags, historyVars>>

\* Both messages are committed before the answer is given.
CommitReply(x) ==
    /\ x \in Chats
    /\ \/ /\ Goto(x, "ollama", "answer")
          /\ messages' = messages \cup Exchange({x}) /\ Hold(x, 0)
          /\ UNCHANGED <<seen, created, flags, historyVars>>
       \/ Goto(x, "answer", "over") /\ Answer(x) /\ UNCHANGED <<held, messages>>

-----------------------------------------------------------------------------
(* create_run *)

\* The model is asked, unless a keyword has matched; the connection is kept.
Classify(x) ==
    /\ x \in Creations
    /\ \/ Goto(x, "check", "ollama") \/ Goto(x, "check", "flag")
    /\ UNCHANGED <<held, tableVars, seen, historyVars>>

Block(x) ==
    /\ x \in Creations /\ Goto(x, "ollama", "flag")
    /\ UNCHANGED <<held, tableVars, seen, historyVars>>

\* Wrong variant of CommitFlag: the flag is added to the request's own session.
CommitFlagInside(x) ==
    /\ Goto(x, "commit flag", "blocked") /\ Hold(x, 1)
    /\ UNCHANGED <<tableVars, seen, historyVars>>

\* The flag's session is closed; the request still holds its own.
CommitFlag(x) ==
    /\ Goto(x, "commit flag", "blocked") /\ Hold(x, 1)
    /\ flags' = flags \cup {x}
    /\ UNCHANGED <<messages, created, seen, historyVars>>

\* Any other error of the flag's session is swallowed, too: the connection, the
\* INSERT or the commit has failed, or the commit's answer was lost.
FlagFault(x) ==
    /\ Goto(x, "flag", "blocked") \/ Goto(x, "commit flag", "blocked")
    /\ Hold(x, 1)
    /\ flags' = flags \/ (pc[x] = "commit flag" /\ flags' = flags \cup {x})
    /\ unwritten' = unwritten \cup {x}
    /\ UNCHANGED <<messages, created, seen, answered, earlier>>

\* 422: the request's own transaction is rolled back.
RefuseBlocked(x) ==
    /\ Goto(x, "blocked", "over") /\ Hold(x, 0)
    /\ UNCHANGED <<tableVars, seen, historyVars>>

\* The prompt passes, also when the classifier fails.
CreateRun(x) ==
    /\ x \in Creations /\ Goto(x, "ollama", "over") /\ Hold(x, 0)
    /\ created' = created \cup {x}
    /\ UNCHANGED <<messages, flags, seen, historyVars>>

-----------------------------------------------------------------------------
Step(x) ==
    \/ Connect(x) \/ PoolTimeout(x) \/ Fail(x)
    \/ SaveMessage(x) \/ CommitReply(x)
    \/ Classify(x) \/ Block(x) \/ CommitFlag(x) \/ FlagFault(x)
    \/ RefuseBlocked(x) \/ CreateRun(x)

Next == \E x \in Requests : Begin(x) \/ Step(x)

Spec == Init /\ [][Next]_vars

\* Ollama answers or times out, the pool gives a connection or times out.
FairSpec == Spec /\ \A x \in Requests : WF_vars(Step(x))

-----------------------------------------------------------------------------
(* Properties *)

\* Whatever fails, a message of the user is in the table exactly when the
\* agent's reply to it is (flush, then one commit in send_chat_message).
MessagesPaired == \A x \in Chats :
    <<x, "user">> \in messages <=> <<x, "assistant">> \in messages

\* The prompt of a message holds every exchange whose answer the user had been
\* given when they sent it; only overlapping messages miss each other.
AnswersRemembered == \A x \in Chats :
    pc[x] = "ollama" => Exchange(earlier[x]) \subseteq seen[x]

\* A prompt that was refused has its flag, although the request itself is rolled
\* back (a session of its own), or _write_flag has met with an error: nothing
\* else, and nothing that becomes of the request, loses the flag.
RefusedIsFlagged == \A x \in Creations :
    pc[x] = "blocked" => x \in flags \cup unwritten

\* Requests that hold a connection and wait for another do not block the pool
\* for good, and however they end, all its connections come back (the pool's
\* timeout, get_db's finally).
PoolRefills == <>[](Free = PoolSize)
=============================================================================
