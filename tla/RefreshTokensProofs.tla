------------------------- MODULE RefreshTokensProofs -------------------------
(***************************************************************************)
(* Proofs about RefreshTokens, for every set of calls, of every kind, in    *)
(* any tabs, and for any bound on the tokens issued: first about who spends *)
(* a token, then about where each token is while nothing has separated the   *)
(* browser from the server.                                                 *)
(***************************************************************************)
EXTENDS RefreshTokens, TLAPS

-----------------------------------------------------------------------------
(* The inductive invariant *)

\* Who rotates a token has seen it unrevoked; if it was revoked since, it was
\* by another call that had it at the same time.
RotateInv(c) ==
    /\ call[c] = "idle" => msg[c] = "none"
    /\ msg[c] \in {"refresh", "rotate"} => rt[c] \in Pairs
    /\ msg[c] = "rotate" => rt[c] \notin revoked \/ rt[c] \in shared

\* The server has the refresh token of p from call c.
Sent(c, p) == \/ rt[c] = p /\ msg[c] \in {"refresh", "rotate"}
              \/ body[c] = p /\ msg[c] = "logout"

\* Two calls that are about to spend one token have been noticed.
ShareInv == \A c, d \in Calls, p \in Pairs :
    c # d /\ Spending(c, p) /\ Spending(d, p) => p \in shared

\* A token that waits for the commit of its revocation comes to the server
\* only from a call that was noticed.
OpenInv == \A c \in Calls, t \in open, p \in Pairs :
    Sent(c, p) /\ t.old = p => p \in shared

IInv == TypeOK /\ (\A c \in Calls : RotateInv(c)) /\ ShareInv /\ OpenInv

-----------------------------------------------------------------------------

USE DEF Request, Answer, tokenVars, browserVars, ServerIdle, Message

\* What is needed of the numbering of pairs.
LEMMA NoPairIsNone == NoPair \notin Pairs
BY DEF Pairs, NoPair

LEMMA NextPair ==
    ASSUME TypeOK, issued < MaxPairs
    PROVE  /\ issued + 1 \in Pairs /\ issued + 1 \in 0..MaxPairs
           /\ aged \in 0..(issued + 1)
BY MaxPairsAssumption DEF Pairs, TypeOK

\* A handler that is done has given its answer, and revoked no token but its own,
\* whether its transaction is committed or waits for that.
LEMMA FinishStep ==
    ASSUME TypeOK, NEW c \in Calls, NEW from, NEW t \in Transactions, Finish(c, from, t)
    PROVE  /\ rows' \subseteq Pairs /\ revoked' \subseteq Pairs /\ open' \subseteq Transactions
           /\ revoked' \subseteq revoked \cup {t.old}
           /\ msg[c] = from /\ msg' = [msg EXCEPT ![c] = "ok"]
<1>1. CASE Apply(t) /\ UNCHANGED open
  BY <1>1 DEF Apply, TypeOK, Finish
<1>2. CASE open' = open \cup {t} /\ UNCHANGED <<rows, revoked>>
  BY <1>2 DEF TypeOK, Finish
<1> QED
  BY <1>1, <1>2 DEF Finish

\* A new pair takes the next number.
LEMMA IssueStep ==
    ASSUME TypeOK, NEW c \in Calls, NEW from, NEW old \in Pairs \cup {NoPair},
           Issue(c, from, old)
    PROVE  /\ issued < MaxPairs /\ issued' = issued + 1 /\ issued + 1 \in Pairs
           /\ rows' \subseteq Pairs /\ revoked' \subseteq Pairs /\ open' \subseteq Transactions
           /\ revoked' \subseteq revoked \cup {old}
           /\ msg[c] = from /\ msg' = [msg EXCEPT ![c] = "ok"]
           /\ fresh' = [fresh EXCEPT ![c] = issued + 1]
           /\ parent' = [parent EXCEPT ![issued + 1] = old]
<1>1. issued + 1 \in Pairs
  BY NextPair DEF Issue
<1> DEFINE t == [new |-> issued + 1, old |-> old]
<1>2. t \in Transactions /\ t.old = old /\ Finish(c, from, t)
  BY <1>1 DEF Transactions, Issue
<1> HIDE DEF t
<1> QED
  BY <1>1, <1>2, FinishStep DEF Issue

\* A logout revokes no token but the one in its body.
LEMMA LogoutStands ==
    ASSUME TypeOK, NEW c \in Calls, ServeLogout(c)
    PROVE  /\ rows' \subseteq Pairs /\ revoked' \subseteq Pairs /\ open' \subseteq Transactions
           /\ revoked' \subseteq revoked \cup {body[c]}
           /\ msg[c] = "logout"
           /\ \/ msg' = [msg EXCEPT ![c] = "ok"]
              \/ body[c] = NoPair /\ msg' = [msg EXCEPT ![c] = "error"]
<1>1. CASE body[c] \in rows
  <2> DEFINE t == [new |-> NoPair, old |-> body[c]]
  <2>1. t \in Transactions /\ t.old = body[c] /\ Finish(c, "logout", t)
    BY <1>1 DEF Transactions, ServeLogout, TypeOK
  <2> HIDE DEF t
  <2> QED
    BY <2>1, FinishStep
<1>2. CASE body[c] \notin rows
  BY <1>2 DEF ServeLogout, TypeOK
<1> QED
  BY <1>1, <1>2

\* Every step keeps the types.
LEMMA TypeStep == IInv /\ [Next]_vars => TypeOK'
<1> SUFFICES ASSUME IInv, [Next]_vars PROVE TypeOK'
  OBVIOUS
<1> USE KindAssumption, NoPairIsNone, NextPair DEF IInv, TypeOK
<1>1. CASE UNCHANGED vars
  BY <1>1 DEF vars
<1>2. CASE \E c \in Calls : Send(c)
  BY <1>2 DEF Send, Share
<1>3. CASE \E c \in Calls : Rejected(c)
  BY <1>3 DEF Rejected
<1>4. CASE \E c \in Calls : ServeApi(c)
  BY <1>4 DEF ServeApi
<1>5. CASE \E c \in Calls : ServeLogout(c)
  <2> SUFFICES ASSUME NEW c \in Calls, ServeLogout(c) PROVE TypeOK'
    BY <1>5
  <2>1. /\ rows' \subseteq Pairs /\ revoked' \subseteq Pairs /\ open' \subseteq Transactions
        /\ \/ msg' = [msg EXCEPT ![c] = "ok"]
           \/ msg' = [msg EXCEPT ![c] = "error"]
    BY LogoutStands
  <2> QED
    BY <2>1 DEF ServeLogout
<1>6. CASE \E c \in Calls : ServeLogin(c)
  <2> SUFFICES ASSUME NEW c \in Calls, ServeLogin(c) PROVE TypeOK'
    BY <1>6
  <2>1. CASE Issue(c, "login", NoPair)
    BY <2>1, IssueStep DEF ServeLogin
  <2>2. CASE Message(c, {"login"}, "401") /\ UNCHANGED tokenVars
    BY <2>2 DEF ServeLogin
  <2> QED
    BY <2>1, <2>2 DEF ServeLogin
<1>7. CASE \E c \in Calls : FindRow(c)
  BY <1>7 DEF FindRow, Accept
<1>8. CASE \E c \in Calls : Rotate(c)
  <2> SUFFICES ASSUME NEW c \in Calls, Rotate(c) PROVE TypeOK'
    BY <1>8
  <2>1. rt[c] \in Pairs \cup {NoPair} /\ Issue(c, "rotate", rt[c])
    BY DEF Rotate, Exchange
  <2> QED
    BY <2>1, IssueStep DEF Rotate, Exchange
<1>9. CASE \E c \in Calls : Fault(c)
  BY <1>9 DEF Fault
<1>10. CASE \E c \in Calls : Return(c)
  <2> SUFFICES ASSUME NEW c \in Calls, Return(c) PROVE TypeOK'
    BY <1>10
  <2>1. stored' \in Pairs \cup {NoPair}
    BY DEF Return
  <2>2. calm' \in BOOLEAN
    BY DEF Return
  <2> QED
    BY <2>1, <2>2 DEF Return
<1>11. CASE \E c \in Calls : LogOut(c)
  BY <1>11 DEF LogOut, Leave
<1>12. CASE \E c \in Calls : Refresh(c)
  BY <1>12 DEF Refresh, Share
<1>13. CASE \E c \in Calls : GiveUp(c)
  BY <1>13 DEF GiveUp, Leave
<1>14. CASE \E c \in Calls : Resend(c)
  BY <1>14 DEF Resend, Share
<1>15. CASE ExpireAccess
  BY <1>15, MaxPairsAssumption DEF ExpireAccess
<1>16. CASE ExpireRefresh
  BY <1>16, MaxPairsAssumption DEF ExpireRefresh
<1>17. CASE \E t \in open : Commit(t) \/ CommitFault(t)
  BY <1>17 DEF Commit, CommitFault, Apply, Transactions
<1> QED
  BY <1>1, <1>2, <1>3, <1>4, <1>5, <1>6, <1>7, <1>8, <1>9, <1>10, <1>11,
     <1>12, <1>13, <1>14, <1>15, <1>16, <1>17 DEF Next, Serve, Resume

\* A step after which no call has begun to spend a token keeps ShareInv.
LEMMA ShareKept ==
    ASSUME IInv, shared \subseteq shared',
           \A c \in Calls, p \in Pairs : Spending(c, p)' => Spending(c, p)
    PROVE  ShareInv'
BY DEF IInv, ShareInv

\* Only the call that sends a token begins to spend it, and it looks around.
LEMMA ShareSend ==
    ASSUME IInv, NEW c \in Calls, NEW new, Share(c, new),
           \A d \in Calls \ {c}, p \in Pairs : Spending(d, p)' <=> Spending(d, p),
           \A p \in Pairs : Spending(c, p)' => Spending(c, p) \/ p = new
    PROVE  ShareInv'
BY DEF IInv, ShareInv, Share

LEMMA ShareStep == IInv /\ [Next]_vars => ShareInv'
<1> SUFFICES ASSUME IInv, [Next]_vars PROVE ShareInv'
  OBVIOUS
<1> USE KindAssumption DEF IInv, TypeOK, RotateInv, Spending
<1>1. CASE UNCHANGED vars
  BY <1>1, ShareKept DEF vars
<1>2. CASE \E c \in Calls : Send(c)
  <2> SUFFICES ASSUME NEW c \in Calls, Send(c) PROVE ShareInv'
    BY <1>2
  <2>1. Share(c, body'[c])
    BY DEF Send
  <2>2. \A d \in Calls \ {c}, p \in Pairs : Spending(d, p)' <=> Spending(d, p)
    BY DEF Send
  <2>3. \A p \in Pairs : Spending(c, p)' => Spending(c, p) \/ p = body'[c]
    BY DEF Send
  <2> QED
    BY <2>1, <2>2, <2>3, ShareSend
<1>3. CASE \E c \in Calls : Rejected(c)
  BY <1>3, ShareKept DEF Rejected
<1>4. CASE \E c \in Calls : ServeApi(c)
  BY <1>4, ShareKept DEF ServeApi
<1>5. CASE \E c \in Calls : ServeLogout(c)
  BY <1>5, LogoutStands, ShareKept DEF ServeLogout
<1>6. CASE \E c \in Calls : ServeLogin(c)
  BY <1>6, ShareKept DEF ServeLogin, Issue, Finish
<1>7. CASE \E c \in Calls : FindRow(c)
  BY <1>7, ShareKept DEF FindRow, Accept
<1>8. CASE \E c \in Calls : Rotate(c)
  BY <1>8, ShareKept DEF Rotate, Exchange, Issue, Finish
<1>9. CASE \E c \in Calls : Fault(c)
  BY <1>9, ShareKept DEF Fault
<1>10. CASE \E c \in Calls : Return(c)
  BY <1>10, ShareKept DEF Return
<1>11. CASE \E c \in Calls : LogOut(c)
  BY <1>11, ShareKept DEF LogOut, Leave
<1>12. CASE \E c \in Calls : Refresh(c)
  <2> SUFFICES ASSUME NEW c \in Calls, Refresh(c) PROVE ShareInv'
    BY <1>12
  <2>1. Share(c, stored)
    BY DEF Refresh
  <2>2. \A d \in Calls \ {c}, p \in Pairs : Spending(d, p)' <=> Spending(d, p)
    BY DEF Refresh
  <2>3. \A p \in Pairs : Spending(c, p)' => Spending(c, p) \/ p = stored
    BY DEF Refresh
  <2> QED
    BY <2>1, <2>2, <2>3, ShareSend
<1>13. CASE \E c \in Calls : GiveUp(c)
  BY <1>13, ShareKept DEF GiveUp, Leave
<1>14. CASE \E c \in Calls : Resend(c)
  <2> SUFFICES ASSUME NEW c \in Calls, Resend(c) PROVE ShareInv'
    BY <1>14
  <2>1. Share(c, body[c])
    BY DEF Resend
  <2>2. \A d \in Calls \ {c}, p \in Pairs : Spending(d, p)' <=> Spending(d, p)
    BY DEF Resend
  <2>3. \A p \in Pairs : Spending(c, p)' => Spending(c, p) \/ p = body[c]
    BY DEF Resend
  <2> QED
    BY <2>1, <2>2, <2>3, ShareSend
<1>15. CASE ExpireAccess
  BY <1>15, ShareKept DEF ExpireAccess
<1>16. CASE ExpireRefresh
  BY <1>16, ShareKept DEF ExpireRefresh
<1>17. CASE \E t \in open : Commit(t) \/ CommitFault(t)
  BY <1>17, ShareKept DEF Commit, CommitFault
<1> QED
  BY <1>1, <1>2, <1>3, <1>4, <1>5, <1>6, <1>7, <1>8, <1>9, <1>10, <1>11,
     <1>12, <1>13, <1>14, <1>15, <1>16, <1>17 DEF Next, Serve, Resume

\* A step with which nothing comes to the server, and after which no more
\* transactions wait, keeps OpenInv.
LEMMA OpenKept ==
    ASSUME IInv, shared \subseteq shared', open' \subseteq open,
           \A c \in Calls, p \in Pairs : Sent(c, p)' => Sent(c, p)
    PROVE  OpenInv'
BY DEF IInv, OpenInv

\* A call that sends a token looks at the transactions that wait.
LEMMA OpenSend ==
    ASSUME IInv, NEW c \in Calls, NEW new, Share(c, new), UNCHANGED open,
           \A d \in Calls \ {c}, p \in Pairs : Sent(d, p)' => Sent(d, p),
           \A p \in Pairs : Sent(c, p)' => Sent(c, p) \/ p = new
    PROVE  OpenInv'
BY DEF IInv, OpenInv, Share

\* Who else has sent the token that a handler is done with was noticed before.
LEMMA OpenFinish ==
    ASSUME IInv, NEW c \in Calls, NEW from, NEW t, Finish(c, from, t),
           UNCHANGED <<rt, body, shared>>,
           t.old \in Pairs => Sent(c, t.old)
    PROVE  OpenInv'
<1> SUFFICES ASSUME NEW d \in Calls, NEW u \in open', NEW p \in Pairs, Sent(d, p)', u.old = p
             PROVE  p \in shared
  BY DEF OpenInv
<1>1. d # c /\ Sent(d, p)
  BY DEF Sent, Finish, IInv, TypeOK
<1>2. CASE u = t
  <2>1. Spending(c, p) /\ Spending(d, p)
    BY <1>1, <1>2 DEF Sent, Spending
  <2> QED
    BY <1>1, <2>1 DEF IInv, ShareInv
<1>3. CASE u \in open
  BY <1>1, <1>3 DEF IInv, OpenInv
<1> QED
  BY <1>2, <1>3 DEF Finish

LEMMA OpenStep == IInv /\ [Next]_vars => OpenInv'
<1> SUFFICES ASSUME IInv, [Next]_vars PROVE OpenInv'
  OBVIOUS
<1> USE KindAssumption DEF IInv, TypeOK, RotateInv, Sent
<1>1. CASE UNCHANGED vars
  BY <1>1, OpenKept DEF vars
<1>2. CASE \E c \in Calls : Send(c)
  <2> SUFFICES ASSUME NEW c \in Calls, Send(c) PROVE OpenInv'
    BY <1>2
  <2>1. Share(c, body'[c]) /\ UNCHANGED open
    BY DEF Send
  <2>2. \A d \in Calls \ {c}, p \in Pairs : Sent(d, p)' => Sent(d, p)
    BY DEF Send
  <2>3. \A p \in Pairs : Sent(c, p)' => Sent(c, p) \/ p = body'[c]
    BY DEF Send
  <2> QED
    BY <2>1, <2>2, <2>3, OpenSend
<1>3. CASE \E c \in Calls : Rejected(c) \/ ServeApi(c) \/ FindRow(c) \/ Fault(c)
  BY <1>3, OpenKept DEF Rejected, ServeApi, FindRow, Accept, Fault
<1>4. CASE \E c \in Calls : Return(c) \/ LogOut(c) \/ GiveUp(c)
  BY <1>4, OpenKept DEF Return, LogOut, GiveUp, Leave
<1>5. CASE \E c \in Calls : ServeLogout(c)
  <2> SUFFICES ASSUME NEW c \in Calls, ServeLogout(c) PROVE OpenInv'
    BY <1>5
  <2>1. CASE body[c] \in rows
    <3>1. Finish(c, "logout", [new |-> NoPair, old |-> body[c]])
      BY <2>1 DEF ServeLogout
    <3>2. Sent(c, body[c]) /\ UNCHANGED <<rt, body, shared>>
      BY <3>1 DEF ServeLogout, Finish
    <3> QED
      BY <3>1, <3>2, OpenFinish
  <2>2. CASE body[c] \notin rows
    BY <2>2, OpenKept DEF ServeLogout
  <2> QED
    BY <2>1, <2>2
<1>6. CASE \E c \in Calls : ServeLogin(c)
  <2> SUFFICES ASSUME NEW c \in Calls, ServeLogin(c) PROVE OpenInv'
    BY <1>6
  <2>1. CASE Issue(c, "login", NoPair)
    <3>1. Finish(c, "login", [new |-> issued + 1, old |-> NoPair])
      BY <2>1 DEF Issue
    <3> QED
      BY <3>1, OpenFinish, NoPairIsNone DEF ServeLogin
  <2>2. CASE Message(c, {"login"}, "401") /\ UNCHANGED tokenVars
    BY <2>2, OpenKept DEF ServeLogin
  <2> QED
    BY <2>1, <2>2 DEF ServeLogin
<1>7. CASE \E c \in Calls : Rotate(c)
  <2> SUFFICES ASSUME NEW c \in Calls, Rotate(c) PROVE OpenInv'
    BY <1>7
  <2>1. Finish(c, "rotate", [new |-> issued + 1, old |-> rt[c]])
    BY DEF Rotate, Exchange, Issue
  <2>2. Sent(c, rt[c]) /\ UNCHANGED <<rt, body, shared>>
    BY <2>1 DEF Rotate, Exchange, Finish
  <2> QED
    BY <2>1, <2>2, OpenFinish
<1>8. CASE \E c \in Calls : Refresh(c)
  <2> SUFFICES ASSUME NEW c \in Calls, Refresh(c) PROVE OpenInv'
    BY <1>8
  <2>1. Share(c, stored) /\ UNCHANGED open
    BY DEF Refresh
  <2>2. \A d \in Calls \ {c}, p \in Pairs : Sent(d, p)' => Sent(d, p)
    BY DEF Refresh
  <2>3. \A p \in Pairs : Sent(c, p)' => Sent(c, p) \/ p = stored
    BY DEF Refresh
  <2> QED
    BY <2>1, <2>2, <2>3, OpenSend
<1>9. CASE \E c \in Calls : Resend(c)
  <2> SUFFICES ASSUME NEW c \in Calls, Resend(c) PROVE OpenInv'
    BY <1>9
  <2>1. Share(c, body[c]) /\ UNCHANGED open
    BY DEF Resend
  <2>2. \A d \in Calls \ {c}, p \in Pairs : Sent(d, p)' => Sent(d, p)
    BY DEF Resend
  <2>3. \A p \in Pairs : Sent(c, p)' => Sent(c, p) \/ p = body[c]
    BY DEF Resend
  <2> QED
    BY <2>1, <2>2, <2>3, OpenSend
<1>10. CASE ExpireAccess \/ ExpireRefresh
  BY <1>10, OpenKept DEF ExpireAccess, ExpireRefresh
<1>11. CASE \E t \in open : Commit(t) \/ CommitFault(t)
  BY <1>11, OpenKept DEF Commit, CommitFault
<1> QED
  BY <1>1, <1>2, <1>3, <1>4, <1>5, <1>6, <1>7, <1>8, <1>9, <1>10, <1>11
     DEF Next, Serve, Resume

\* Rotations in progress stay justified: who revokes a token that another
\* call is rotating was about to spend it, too.
LEMMA RotateStep == IInv /\ [Next]_vars => \A x \in Calls : RotateInv(x)'
<1> SUFFICES ASSUME IInv, [Next]_vars, NEW x \in Calls PROVE RotateInv(x)'
  OBVIOUS
<1> USE KindAssumption, MaxPairsAssumption DEF IInv, TypeOK, RotateInv
<1>1. CASE UNCHANGED vars
  BY <1>1 DEF vars
<1>2. CASE \E c \in Calls : Send(c)
  BY <1>2 DEF Send, Share
<1>3. CASE \E c \in Calls : Rejected(c)
  BY <1>3 DEF Rejected
<1>4. CASE \E c \in Calls : ServeApi(c)
  BY <1>4 DEF ServeApi
<1>5. CASE \E c \in Calls : ServeLogout(c)
  <2> SUFFICES ASSUME NEW c \in Calls, ServeLogout(c) PROVE RotateInv(x)'
    BY <1>5
  <2>0. /\ msg[c] = "logout" /\ revoked' \subseteq revoked \cup {body[c]}
        /\ \/ msg' = [msg EXCEPT ![c] = "ok"]
           \/ msg' = [msg EXCEPT ![c] = "error"]
        /\ UNCHANGED <<call, rt, shared>>
    BY LogoutStands DEF ServeLogout
  <2>1. CASE msg[x] = "rotate" /\ rt[x] = body[c]
    <3>1. x # c /\ Spending(x, rt[x]) /\ Spending(c, rt[x]) /\ rt[x] \in Pairs
      BY <2>0, <2>1 DEF Spending
    <3>2. rt[x] \in shared
      BY <3>1 DEF ShareInv
    <3> QED
      BY <2>0, <2>1, <3>2
  <2>2. CASE ~ (msg[x] = "rotate" /\ rt[x] = body[c])
    BY <2>0, <2>2
  <2> QED
    BY <2>1, <2>2
<1>6. CASE \E c \in Calls : ServeLogin(c)
  <2> SUFFICES ASSUME NEW c \in Calls, ServeLogin(c) PROVE RotateInv(x)'
    BY <1>6
  <2>1. CASE Issue(c, "login", NoPair)
    BY <2>1, IssueStep, NoPairIsNone DEF ServeLogin
  <2>2. CASE Message(c, {"login"}, "401") /\ UNCHANGED tokenVars
    BY <2>2 DEF ServeLogin
  <2> QED
    BY <2>1, <2>2 DEF ServeLogin
<1>7. CASE \E c \in Calls : FindRow(c)
  BY <1>7 DEF FindRow, Accept, Live, Unrevoked
<1>8. CASE \E c \in Calls : Rotate(c)
  <2> SUFFICES ASSUME NEW c \in Calls, Rotate(c) PROVE RotateInv(x)'
    BY <1>8
  <2>0. /\ msg[c] = "rotate" /\ revoked' \subseteq revoked \cup {rt[c]}
        /\ msg' = [msg EXCEPT ![c] = "ok"] /\ UNCHANGED <<call, rt, shared>>
    BY IssueStep DEF Rotate, Exchange
  <2>1. CASE x # c /\ msg[x] = "rotate" /\ rt[x] = rt[c]
    <3>1. Spending(x, rt[x]) /\ Spending(c, rt[x]) /\ rt[x] \in Pairs
      BY <2>0, <2>1 DEF Spending
    <3>2. rt[x] \in shared
      BY <2>1, <3>1 DEF ShareInv
    <3> QED
      BY <2>0, <2>1, <3>2
  <2>2. CASE ~ (x # c /\ msg[x] = "rotate" /\ rt[x] = rt[c])
    BY <2>0, <2>2
  <2> QED
    BY <2>1, <2>2
<1>9. CASE \E c \in Calls : Fault(c)
  BY <1>9 DEF Fault
<1>10. CASE \E c \in Calls : Return(c)
  BY <1>10 DEF Return
<1>11. CASE \E c \in Calls : LogOut(c)
  BY <1>11 DEF LogOut, Leave, Waiting
<1>12. CASE \E c \in Calls : Refresh(c)
  BY <1>12 DEF Refresh, Share
<1>13. CASE \E c \in Calls : GiveUp(c)
  BY <1>13 DEF GiveUp, Leave, Waiting
<1>14. CASE \E c \in Calls : Resend(c)
  BY <1>14 DEF Resend, Share
<1>15. CASE ExpireAccess
  BY <1>15 DEF ExpireAccess
<1>16. CASE ExpireRefresh
  BY <1>16 DEF ExpireRefresh
<1>17. CASE \E t \in open : Commit(t) \/ CommitFault(t)
  <2> SUFFICES ASSUME NEW t \in open, Commit(t) \/ CommitFault(t) PROVE RotateInv(x)'
    BY <1>17
  <2>1. revoked' \subseteq revoked \cup {t.old} /\ UNCHANGED <<call, rt, msg, shared>>
    BY DEF Commit, CommitFault, Apply
  <2>2. msg[x] = "rotate" /\ t.old = rt[x] => rt[x] \in shared
    BY DEF OpenInv, Sent
  <2> QED
    BY <2>1, <2>2
<1> QED
  BY <1>1, <1>2, <1>3, <1>4, <1>5, <1>6, <1>7, <1>8, <1>9, <1>10, <1>11,
     <1>12, <1>13, <1>14, <1>15, <1>16, <1>17 DEF Next, Serve, Resume

\* The invariant holds at the start.
LEMMA InitInv == Init => IInv
BY MaxPairsAssumption
   DEF Init, IInv, TypeOK, RotateInv, ShareInv, OpenInv, Spending, Pairs, NoPair

-----------------------------------------------------------------------------
(* Theorems *)

\* A rotation in progress has seen its token unrevoked, and whoever revokes
\* it meanwhile had sent it at the same time.
THEOREM Invariance == Spec => []IInv
<1>1. Init => IInv
  BY InitInv
<1>2. IInv /\ [Next]_vars => IInv'
  BY TypeStep, RotateStep, ShareStep, OpenStep DEF IInv
<1> QED
  BY <1>1, <1>2, PTL DEF Spec

\* Every variable keeps its type; in particular a refresh is never sent
\* without a token (Auth.refreshToken).
THEOREM TypeCorrect == Spec => []TypeOK
<1>1. IInv => TypeOK
  BY DEF IInv
<1> QED
  BY <1>1, Invariance, PTL

\* A spent or logged out refresh token gets no successor, unless two calls
\* had sent it at the same time (the SELECT and the commit of refresh).
THEOREM SpentAlwaysStaysSpent == Spec => SpentStaysSpent
<1>1. ASSUME IInv, [Next]_vars, NEW p \in Pairs, NEW q \in Pairs,
             p \in revoked, p \notin shared, parent'[q] = p
      PROVE  parent[q] = p
  <2>1. CASE \E c \in Calls : Rotate(c)
    <3> SUFFICES ASSUME NEW c \in Calls, Rotate(c) PROVE parent[q] = p
      BY <2>1
    <3>1. msg[c] = "rotate" /\ parent' = [parent EXCEPT ![issued + 1] = rt[c]]
      BY <1>1, IssueStep DEF Rotate, Exchange, IInv, TypeOK
    <3> QED
      BY <1>1, <3>1 DEF IInv, TypeOK, RotateInv
  <2>2. CASE \E c \in Calls : ServeLogin(c)
    BY <1>1, <2>2, NoPairIsNone DEF IInv, TypeOK, ServeLogin, Issue, Finish
  <2>3. CASE /\ ~ \E c \in Calls : Rotate(c)
             /\ ~ \E c \in Calls : ServeLogin(c)
    <3>1. UNCHANGED parent
      BY <1>1, <2>3 DEF Next, vars, Serve, Resume, Send, Rejected, ServeApi,
         ServeLogout, FindRow, Accept, Fault, Return, LogOut, Leave, Refresh,
         GiveUp, Resend, ExpireAccess, ExpireRefresh, Commit, CommitFault
    <3> QED
      BY <1>1, <3>1
  <2> QED
    BY <2>1, <2>2, <2>3
<1>2. IInv /\ [Next]_vars =>
          [\A p, q \in Pairs : p \in revoked /\ p \notin shared /\ parent'[q] = p
               => parent[q] = p]_vars
  BY <1>1
<1> QED
  BY <1>2, Invariance, PTL DEF Spec, SpentStaysSpent

-----------------------------------------------------------------------------
(* What is left of a session while nothing has separated browser and server *)

\* Nothing has happened that may separate the browser from the server.
Calm == calm /\ shared = {}

\* What is left when all transactions are committed: the tokens that are spent
\* or logged out, the others, and those among them that have not expired.
Spent == revoked \cup {p \in Pairs : \E t \in open : t.old = p}
Unspent == 1..issued \ Spent
Lasting == {p \in Unspent : p > dead}

\* The pairs that are known anywhere have been issued.
KnownInv ==
    /\ rows \subseteq 1..issued /\ revoked \subseteq 1..issued /\ stored <= issued
    /\ \A t \in open : t.new <= issued /\ t.old <= issued
    /\ \A c \in Calls : body[c] <= issued /\ rt[c] <= issued /\ fresh[c] <= issued

\* The server works for calls that wait, but for those of no consequence.
WaitAt(c) ==
    /\ msg[c] \in Request => msg[c] = Kind[c]
    /\ msg[c] \in {"refresh", "rotate"} => call[c] = "refresh"
    /\ msg[c] \in {"login", "logout"} => call[c] = "request"

\* A refresh is of the stored pair, or of one that nobody can use.
RefreshAt(c) == call[c] = "refresh" =>
    /\ msg[c] \in {"refresh", "rotate", "ok", "401"}
    /\ stored \in {rt[c], NoPair}
    /\ msg[c] = "refresh" /\ stored = NoPair => rt[c] \notin Lasting
    /\ msg[c] = "rotate" => stored = rt[c] /\ rt[c] \in Unspent
    /\ msg[c] = "ok" => stored = rt[c] /\ rt[c] \in Spent
    /\ msg[c] = "401" => rt[c] \notin Lasting

\* A logout is of the stored pair, which is then Spent and not refreshed.
LogoutAt(c) == Kind[c] = "logout" =>
    /\ c \notin again
    /\ call[c] = "request" => bearer[c] = body[c]
    /\ call[c] = "request" /\ msg[c] = "logout" => stored \in {body[c], NoPair}
    /\ call[c] = "request" /\ msg[c] \in {"ok", "error"} =>
          /\ stored \in Spent \cup {NoPair}
          /\ \A d \in Calls : call[d] = "refresh" => msg[d] # "ok"

\* A new pair on its way to the browser, which is nobody else's.
InFlight(c) == msg[c] = "ok" /\ \/ call[c] = "refresh"
                                \/ Kind[c] = "login" /\ call[c] = "request"
FlightAt(c) == InFlight(c) =>
    /\ fresh[c] \in Unspent /\ fresh[c] # stored
    /\ \A d \in Calls : /\ body[d] # fresh[c]
                        /\ d # c /\ InFlight(d) => fresh[d] # fresh[c]

\* What the server honours is stored or on its way; what is stored is honoured
\* but for a refresh whose answer is on its way, or a logout.
LiveAt(p) == p \in Lasting => p = stored \/ \E c \in Calls : InFlight(c) /\ p = fresh[c]
StoredInv == stored # NoPair =>
    \/ stored \in Unspent
    \/ \E c \in Calls : msg[c] = "ok" /\ \/ call[c] = "refresh"
                                         \/ Kind[c] = "logout" /\ call[c] = "request"

\* Every pair is stored, or will be.
RowInv == \A p \in 1..issued : p \in rows \/ Early(p)

CalmInv == Calm =>
    /\ RowInv
    /\ \A c \in Calls : WaitAt(c) /\ RefreshAt(c) /\ LogoutAt(c) /\ FlightAt(c)
    /\ \A p \in Pairs : LiveAt(p)
    /\ StoredInv

CInv == KnownInv /\ CalmInv

-----------------------------------------------------------------------------

\* What separates browser and server does so for good.
LEMMA StillCalm ==
    ASSUME TypeOK, [Next]_vars, Calm'
    PROVE  Calm
<1> USE DEF Calm, TypeOK
<1>1. CASE \E c \in Calls : Send(c) \/ Refresh(c) \/ Resend(c)
  BY <1>1 DEF Send, Refresh, Resend, Share
<1>2. CASE \E c \in Calls : Return(c)
  BY <1>2 DEF Return
<1>3. CASE \E c \in Calls : LogOut(c) \/ GiveUp(c)
  BY <1>3 DEF LogOut, GiveUp, Leave
<1>4. CASE \E c \in Calls : Fault(c)
  BY <1>4 DEF Fault
<1>5. CASE \E c \in Calls : ServeLogout(c) \/ FindRow(c)
  BY <1>5 DEF ServeLogout, FindRow, Accept
<1>6. CASE \E t \in open : CommitFault(t)
  BY <1>6 DEF CommitFault
<1>7. CASE UNCHANGED <<shared, calm>>
  BY <1>7
<1> QED
  BY <1>1, <1>2, <1>3, <1>4, <1>5, <1>6, <1>7
     DEF Next, Serve, Resume, vars, Rejected, ServeApi, ServeLogin,
         Rotate, Exchange, ExpireAccess, ExpireRefresh, Commit

\* What is spent does not depend on when it is committed.
LEMMA SpentSame == UNCHANGED <<revoked, open>> => Spent' = Spent
BY DEF Spent

LEMMA CommitSpent == TypeOK => \A t \in open : Commit(t) => Spent' = Spent
<1> SUFFICES ASSUME TypeOK, NEW t \in open, Commit(t) PROVE Spent' = Spent
  OBVIOUS
<1>1. open' = open \ {t} /\ revoked' = revoked \cup (Pairs \cap {t.old})
  BY DEF Commit, Apply
<1> QED
  BY <1>1 DEF Spent

LEMMA FinishSpent ==
    ASSUME NEW c \in Calls, NEW from, NEW t, Finish(c, from, t)
    PROVE  Spent' = Spent \cup (Pairs \cap {t.old})
<1>1. CASE Apply(t) /\ UNCHANGED open
  BY <1>1 DEF Apply, Spent
<1>2. CASE open' = open \cup {t} /\ UNCHANGED revoked
  BY <1>2 DEF Spent
<1> QED
  BY <1>1, <1>2 DEF Finish

\* A rotation spends the token it was sent, a login none.
LEMMA RotateSpent == TypeOK => \A c \in Calls : Rotate(c) =>
    /\ Spent' = Spent \cup (Pairs \cap {rt[c]})
    /\ issued < MaxPairs /\ issued' = issued + 1 /\ issued + 1 \in Pairs
    /\ msg[c] = "rotate" /\ msg' = [msg EXCEPT ![c] = "ok"]
    /\ fresh' = [fresh EXCEPT ![c] = issued + 1]
    /\ UNCHANGED <<aged, dead, stored, call, again, bearer, body, rt>>
<1> SUFFICES ASSUME TypeOK, NEW c \in Calls, Rotate(c)
             PROVE  /\ Spent' = Spent \cup (Pairs \cap {rt[c]})
                    /\ issued < MaxPairs /\ issued' = issued + 1 /\ issued + 1 \in Pairs
                    /\ msg[c] = "rotate" /\ msg' = [msg EXCEPT ![c] = "ok"]
                    /\ fresh' = [fresh EXCEPT ![c] = issued + 1]
                    /\ UNCHANGED <<aged, dead, stored, call, again, bearer, body, rt>>
  OBVIOUS
<1>1. Issue(c, "rotate", rt[c]) /\ rt[c] \in Pairs \cup {NoPair}
  BY DEF Rotate, Exchange, TypeOK
<1>2. Finish(c, "rotate", [new |-> issued + 1, old |-> rt[c]])
  BY <1>1 DEF Issue
<1>3. Spent' = Spent \cup (Pairs \cap {rt[c]})
  BY <1>2, FinishSpent
<1> QED
  BY <1>1, <1>3, IssueStep DEF Rotate, Exchange

LEMMA LoginSpent == TypeOK => \A c \in Calls : ServeLogin(c) =>
    /\ Spent' = Spent /\ msg[c] = "login"
    /\ \/ /\ issued < MaxPairs /\ issued' = issued + 1 /\ issued + 1 \in Pairs
          /\ msg' = [msg EXCEPT ![c] = "ok"]
          /\ fresh' = [fresh EXCEPT ![c] = issued + 1]
       \/ msg' = [msg EXCEPT ![c] = "401"] /\ UNCHANGED <<issued, fresh>>
    /\ UNCHANGED <<aged, dead, stored, call, again, bearer, body, rt>>
<1> SUFFICES ASSUME TypeOK, NEW c \in Calls, ServeLogin(c)
             PROVE  /\ Spent' = Spent /\ msg[c] = "login"
                    /\ \/ /\ issued < MaxPairs /\ issued' = issued + 1
                          /\ issued + 1 \in Pairs
                          /\ msg' = [msg EXCEPT ![c] = "ok"]
                          /\ fresh' = [fresh EXCEPT ![c] = issued + 1]
                       \/ /\ msg' = [msg EXCEPT ![c] = "401"]
                          /\ UNCHANGED <<issued, fresh>>
                    /\ UNCHANGED <<aged, dead, stored, call, again, bearer, body, rt>>
  OBVIOUS
<1>1. CASE Issue(c, "login", NoPair)
  <2>1. Finish(c, "login", [new |-> issued + 1, old |-> NoPair])
    BY <1>1 DEF Issue
  <2>2. Spent' = Spent
    BY <2>1, FinishSpent, NoPairIsNone
  <2> QED
    BY <1>1, <2>2, IssueStep DEF ServeLogin
<1>2. CASE Message(c, {"login"}, "401") /\ UNCHANGED tokenVars
  BY <1>2, SpentSame DEF ServeLogin
<1> QED
  BY <1>1, <1>2 DEF ServeLogin

\* While all is calm, the row that a logout or a refresh looks for is there,
\* and nothing is going to happen to it.
LEMMA RowFound ==
    ASSUME IInv, CInv, Calm, NEW p \in 1..issued, ~Early(p)
    PROVE  p \in rows
BY DEF CInv, CalmInv, RowInv

LEMMA LogoutSpent == IInv /\ CInv /\ Calm /\ Calm' => \A c \in Calls : ServeLogout(c) =>
    /\ Spent' = Spent \cup (Pairs \cap {body[c]})
    /\ msg[c] = "logout"
    /\ \/ msg' = [msg EXCEPT ![c] = "ok"]
       \/ body[c] = NoPair /\ msg' = [msg EXCEPT ![c] = "error"]
    /\ UNCHANGED <<issued, fresh, aged, dead, stored, call, again, bearer, body, rt>>
<1> SUFFICES ASSUME IInv, CInv, Calm, Calm', NEW c \in Calls, ServeLogout(c)
             PROVE  Spent' = Spent \cup (Pairs \cap {body[c]})
  BY LogoutStands DEF ServeLogout, IInv
<1>1. CASE body[c] \in rows
  <2>1. Finish(c, "logout", [new |-> NoPair, old |-> body[c]])
    BY <1>1 DEF ServeLogout
  <2> QED
    BY <2>1, FinishSpent
<1>2. CASE body[c] \notin rows
  <2>1. ~Early(body[c])
    BY DEF ServeLogout, Calm
  <2>2. body[c] \notin Pairs
    BY <1>2, <2>1, RowFound, MaxPairsAssumption DEF CInv, KnownInv, Pairs, IInv, TypeOK
  <2>3. UNCHANGED <<revoked, open>>
    BY <1>2 DEF ServeLogout
  <2> QED
    BY <2>2, <2>3, SpentSame
<1> QED
  BY <1>1, <1>2

LEMMA FindSpent == IInv /\ CInv /\ Calm /\ Calm' => \A c \in Calls : FindRow(c) =>
    /\ Spent' = Spent
    /\ msg[c] = "refresh"
    /\ msg' = [msg EXCEPT ![c] = IF rt[c] \in Lasting THEN "rotate" ELSE "401"]
    /\ UNCHANGED <<issued, fresh, aged, dead, stored, call, again, bearer, body, rt>>
<1> SUFFICES ASSUME IInv, CInv, Calm, Calm', NEW c \in Calls, FindRow(c)
             PROVE  /\ Spent' = Spent
                    /\ rt[c] \in Live <=> rt[c] \in Lasting
  BY DEF FindRow, Accept
<1>1. Spent' = Spent
  BY SpentSame DEF FindRow, Accept
<1>2. ~Early(rt[c]) /\ rt[c] \in Pairs /\ Sent(c, rt[c])
  BY DEF FindRow, Accept, Calm, IInv, RotateInv, Sent
<1>3. rt[c] \in 1..issued
  BY <1>2, MaxPairsAssumption DEF CInv, KnownInv, Pairs, IInv, TypeOK
<1>4. rt[c] \in rows
  BY <1>2, <1>3, RowFound
<1>5. rt[c] \in Spent => rt[c] \in revoked
  BY <1>2 DEF IInv, OpenInv, Calm, Spent
<1>6. rt[c] \in revoked => rt[c] \in Spent
  BY DEF Spent
<1> QED
  BY <1>1, <1>3, <1>4, <1>5, <1>6 DEF Live, Unrevoked, Lasting, Unspent

\* While no token has been sent by two calls at once, one call at most is about
\* to spend it.
LEMMA Apart ==
    ASSUME IInv, shared = {}, NEW c \in Calls, NEW d \in Calls, NEW p \in Pairs,
           Spending(c, p), Spending(d, p)
    PROVE  c = d
BY DEF IInv, ShareInv

\* While something is stored, one call at most refreshes, and no logout
\* is being served at the same time.
LEMMA RefreshAlone ==
    ASSUME IInv, CInv, Calm, stored # NoPair, NEW c \in Calls, call[c] = "refresh"
    PROVE  /\ stored = rt[c]
           /\ \A d \in Calls : /\ call[d] = "refresh" => d = c
                               /\ msg[d] # "logout"
<1>1. stored = rt[c] /\ stored \in Pairs
  BY DEF CInv, CalmInv, RefreshAt, IInv, TypeOK
<1>2. Spending(c, stored) /\ shared = {}
  BY <1>1 DEF Spending, Calm
<1>3. ASSUME NEW d \in Calls, call[d] = "refresh" PROVE d = c
  <2>1. stored = rt[d]
    BY <1>3 DEF CInv, CalmInv, RefreshAt
  <2>2. Spending(d, stored)
    BY <1>3, <2>1 DEF Spending
  <2> QED
    BY <1>1, <1>2, <2>2, Apart
<1>4. ASSUME NEW d \in Calls, msg[d] = "logout" PROVE FALSE
  <2>1. Kind[d] = "logout" /\ call[d] = "request"
    BY <1>4 DEF CInv, CalmInv, WaitAt
  <2>2. stored = body[d]
    BY <1>4, <2>1 DEF CInv, CalmInv, LogoutAt
  <2>3. Spending(d, stored)
    BY <1>4, <2>2 DEF Spending
  <2>4. d = c
    BY <1>1, <1>2, <2>3, Apart
  <2> QED
    BY <2>1, <2>4
<1> QED
  BY <1>1, <1>3, <1>4

\* What is left when a page is left: nothing that matters was under way there,
\* and the server does not honour what is forgotten.
Left(c) ==
    /\ call[c] # "over" /\ call'[c] = "over" /\ msg'[c] = "none"
    /\ \A d \in Calls \ {c} :
          /\ msg'[d] = msg[d]
          /\ \/ call'[d] = call[d]
             \/ call[d] = "request" /\ Kind[d] = "api" /\ call'[d] = "over"
    /\ stored' = NoPair
    /\ UNCHANGED <<tokenVars, aged, dead, again, bearer, body, rt>>
Forgettable(c) ==
    /\ stored \notin Lasting /\ ~ InFlight(c)
    /\ \A d \in Calls \ {c} : call[d] = "refresh" => msg[d] \notin {"rotate", "ok"}

\* A logout that ends has Spent what was stored, and a refresh that fails has
\* found it dead; nobody else has refreshed it.
LEMMA LeaveCalm ==
    ASSUME IInv, CInv, Calm', NEW c \in Calls, LogOut(c) \/ GiveUp(c)
    PROVE  Left(c) /\ Forgettable(c)
<1> USE DEF IInv, TypeOK
<1>1. Leave(c) /\ call[c] \in {"request", "refresh"}
  BY DEF LogOut, Finished, GiveUp, Unauthorized
<1>2. Calm
  BY StillCalm DEF Next, Resume
<1>3. Left(c)
  BY <1>1 DEF Left, Leave, Waiting, Calm
<1>4. CASE LogOut(c)
  <2>1. /\ Kind[c] = "logout" /\ call[c] = "request"
        /\ c \notin again /\ msg[c] \in {"ok", "error"}
    BY <1>2, <1>4 DEF LogOut, Finished, CInv, CalmInv, LogoutAt
  <2>2. stored \in Spent \cup {NoPair}
    BY <1>2, <2>1 DEF CInv, CalmInv, LogoutAt
  <2>3. stored \notin Lasting
    BY <2>2, NoPairIsNone DEF Lasting, Unspent, NoPair
  <2>4. ~ InFlight(c)
    BY <2>1 DEF InFlight
  <2>5. \A d \in Calls \ {c} : call[d] = "refresh" => msg[d] \notin {"rotate", "ok"}
    BY <1>2, <2>1, <2>2, NoPairIsNone
       DEF CInv, CalmInv, LogoutAt, RefreshAt, Unspent, NoPair
  <2> QED
    BY <1>3, <2>3, <2>4, <2>5 DEF Forgettable
<1>5. CASE GiveUp(c) /\ stored = NoPair
  <2>1. ~ InFlight(c)
    BY <1>2, <1>5 DEF GiveUp, Unauthorized, InFlight
  <2>2. stored \notin Lasting
    BY <1>5 DEF Lasting, Unspent, NoPair
  <2>3. \A d \in Calls \ {c} : call[d] = "refresh" => msg[d] \notin {"rotate", "ok"}
    BY <1>2, <1>5, NoPairIsNone
       DEF CInv, CalmInv, RefreshAt, Unspent, NoPair, KnownInv
  <2> QED
    BY <1>3, <2>1, <2>2, <2>3 DEF Forgettable
<1>6. CASE GiveUp(c) /\ stored # NoPair
  <2>1. call[c] = "refresh" /\ msg[c] = "401"
    BY <1>2, <1>6 DEF GiveUp, CInv, CalmInv, RefreshAt
  <2>2. stored = rt[c] /\ \A d \in Calls : call[d] = "refresh" => d = c
    BY <1>2, <1>6, <2>1, RefreshAlone
  <2>3. stored \notin Lasting
    BY <1>2, <2>1, <2>2 DEF CInv, CalmInv, RefreshAt
  <2>4. ~ InFlight(c)
    BY <2>1 DEF InFlight
  <2> QED
    BY <1>3, <2>2, <2>3, <2>4 DEF Forgettable
<1> QED
  BY <1>4, <1>5, <1>6

\* When a new pair is saved, nobody else refreshes or logs out.
LEMMA ResendCalm ==
    ASSUME IInv, CInv, Calm', NEW c \in Calls, Resend(c)
    PROVE  /\ stored = rt[c] /\ stored \in Spent /\ InFlight(c)
           /\ \A d \in Calls \ {c} : call[d] # "refresh"
           /\ \A d \in Calls : Kind[d] = "logout" /\ call[d] = "request" =>
                  msg[d] \notin {"logout", "ok", "error"}
<1>1. Calm
  BY StillCalm DEF Next, Resume, IInv
<1>2. call[c] = "refresh" /\ msg[c] = "ok"
  BY DEF Resend
<1>3. stored = rt[c] /\ stored \in Spent
  BY <1>1, <1>2 DEF CInv, CalmInv, RefreshAt
<1>4. stored # NoPair
  BY <1>2, <1>3, NoPairIsNone DEF IInv, TypeOK
<1>5. \A d \in Calls : (call[d] = "refresh" => d = c) /\ msg[d] # "logout"
  BY <1>1, <1>2, <1>4, RefreshAlone
<1>6. \A d \in Calls : Kind[d] = "logout" /\ call[d] = "request" =>
                  msg[d] \notin {"ok", "error"}
  BY <1>1, <1>2 DEF CInv, CalmInv, LogoutAt
<1> QED
  BY <1>2, <1>3, <1>5, <1>6 DEF InFlight

-----------------------------------------------------------------------------
(* Every step *)

\* What is stored, now or later, has a number that was issued.
LEMMA IssueKnown ==
    ASSUME IInv, KnownInv, NEW c \in Calls, NEW from, NEW old \in Pairs \cup {NoPair},
           old <= issued, Issue(c, from, old)
    PROVE  /\ rows' \subseteq 1..issued' /\ revoked' \subseteq 1..issued'
           /\ \A t \in open' : t.new <= issued' /\ t.old <= issued'
           /\ \A d \in Calls : fresh'[d] <= issued'
<1> USE MaxPairsAssumption DEF IInv, TypeOK, KnownInv, Pairs, NoPair
<1> DEFINE n == [new |-> issued + 1, old |-> old]
<1>1. /\ issued' = issued + 1 /\ fresh' = [fresh EXCEPT ![c] = issued + 1]
      /\ n.new = issued' /\ n.old <= issued' /\ n.old \in Pairs \cup {NoPair}
      /\ Finish(c, from, n)
  BY DEF Issue
<1> HIDE DEF n
<1>2. \A d \in Calls : fresh'[d] <= issued'
  BY <1>1
<1>3. \A t \in open : t.new <= issued' /\ t.old <= issued'
  BY <1>1 DEF Transactions
<1>4. CASE Apply(n) /\ UNCHANGED open
  <2>1. /\ rows \subseteq 1..issued' /\ revoked \subseteq 1..issued'
        /\ Pairs \cap {n.new} \subseteq 1..issued' /\ Pairs \cap {n.old} \subseteq 1..issued'
    BY <1>1
  <2>2. rows' = rows \cup (Pairs \cap {n.new}) /\ revoked' = revoked \cup (Pairs \cap {n.old})
    BY <1>4 DEF Apply
  <2> QED
    BY <1>2, <1>3, <1>4, <2>1, <2>2
<1>5. CASE open' = open \cup {n} /\ UNCHANGED <<rows, revoked>>
  BY <1>1, <1>2, <1>3, <1>5
<1> QED
  BY <1>1, <1>4, <1>5 DEF Finish

\* A new pair is the first of its number.
LEMMA KnownStep == IInv /\ IInv' /\ CInv /\ [Next]_vars => KnownInv'
<1> SUFFICES ASSUME IInv, IInv', CInv, [Next]_vars PROVE KnownInv'
  OBVIOUS
<1> USE KindAssumption, MaxPairsAssumption, NoPairIsNone
   DEF IInv, TypeOK, CInv, KnownInv, Pairs, NoPair
<1>1. CASE UNCHANGED vars
  BY <1>1 DEF vars
<1>2. CASE \E c \in Calls : Send(c)
  BY <1>2 DEF Send
<1>3. CASE \E c \in Calls : Rejected(c)
  BY <1>3 DEF Rejected
<1>4. CASE \E c \in Calls : ServeApi(c)
  BY <1>4 DEF ServeApi
<1>5. CASE \E c \in Calls : ServeLogout(c)
  <2> SUFFICES ASSUME NEW c \in Calls, ServeLogout(c) PROVE KnownInv'
    BY <1>5
  <2>1. CASE body[c] \in rows
    BY <2>1 DEF ServeLogout, Finish, Apply, Transactions
  <2>2. CASE body[c] \notin rows
    BY <2>2 DEF ServeLogout
  <2> QED
    BY <2>1, <2>2
<1>6. CASE \E c \in Calls : ServeLogin(c)
  <2> SUFFICES ASSUME NEW c \in Calls, ServeLogin(c) PROVE KnownInv'
    BY <1>6
  <2>1. CASE Issue(c, "login", NoPair)
    <3>1. issued' = issued + 1 /\ UNCHANGED <<stored, body, rt>>
      BY <2>1 DEF Issue, ServeLogin
    <3> QED
      <4>1. NoPair \in Pairs \cup {NoPair} /\ NoPair <= issued
        OBVIOUS
      <4>2. KnownInv
        OBVIOUS
      <4>3. /\ rows' \subseteq 1..issued' /\ revoked' \subseteq 1..issued'
            /\ \A t \in open' : t.new <= issued' /\ t.old <= issued'
            /\ \A d \in Calls : fresh'[d] <= issued'
        BY <2>1, <4>1, <4>2, IssueKnown
      <4>4. stored' <= issued' /\ \A d \in Calls : body'[d] <= issued' /\ rt'[d] <= issued'
        BY <3>1
      <4> QED
        BY <4>3, <4>4
  <2>2. CASE UNCHANGED tokenVars
    BY <2>2 DEF ServeLogin
  <2> QED
    BY <2>1, <2>2 DEF ServeLogin
<1>7. CASE \E c \in Calls : FindRow(c)
  BY <1>7 DEF FindRow, Accept
<1>8. CASE \E c \in Calls : Rotate(c)
  <2> SUFFICES ASSUME NEW c \in Calls, Rotate(c) PROVE KnownInv'
    BY <1>8
  <2>1. Issue(c, "rotate", rt[c]) /\ rt[c] <= issued /\ rt[c] \in Pairs \cup {NoPair}
    BY DEF Rotate, Exchange
  <2>2. issued' = issued + 1 /\ UNCHANGED <<stored, body, rt>>
    BY DEF Rotate, Exchange, Issue
  <2> QED
    <3>1. KnownInv
      OBVIOUS
    <3>2. /\ rows' \subseteq 1..issued' /\ revoked' \subseteq 1..issued'
          /\ \A t \in open' : t.new <= issued' /\ t.old <= issued'
          /\ \A d \in Calls : fresh'[d] <= issued'
      BY <2>1, <3>1, IssueKnown
    <3>3. stored' <= issued' /\ \A d \in Calls : body'[d] <= issued' /\ rt'[d] <= issued'
      BY <2>2
    <3> QED
      BY <3>2, <3>3
<1>9. CASE \E c \in Calls : Fault(c)
  BY <1>9 DEF Fault
<1>10. CASE \E c \in Calls : Return(c)
  BY <1>10 DEF Return, Finished
<1>11. CASE \E c \in Calls : Refresh(c)
  BY <1>11 DEF Refresh, Unauthorized
<1>12. CASE \E c \in Calls : LogOut(c) \/ GiveUp(c)
  BY <1>12 DEF LogOut, GiveUp, Leave
<1>13. CASE \E c \in Calls : Resend(c)
  BY <1>13 DEF Resend
<1>14. CASE ExpireAccess
  BY <1>14 DEF ExpireAccess
<1>15. CASE ExpireRefresh
  BY <1>15 DEF ExpireRefresh
<1>16. CASE \E t \in open : Commit(t) \/ CommitFault(t)
  BY <1>16 DEF Commit, CommitFault, Apply, Transactions
<1> QED
  BY <1>1, <1>2, <1>3, <1>4, <1>5, <1>6, <1>7, <1>8, <1>9,
     <1>10, <1>11, <1>12, <1>13, <1>14, <1>15, <1>16 DEF Next, Serve, Resume

\* A pair that is answered is stored, now or with the commit that follows.
LEMMA RowStep == IInv /\ IInv' /\ CInv /\ [Next]_vars /\ Calm' => RowInv'
<1> SUFFICES ASSUME IInv, IInv', CInv, [Next]_vars, Calm', NEW p \in 1..issued'
             PROVE  p \in rows' \/ Early(p)'
  BY DEF RowInv
<1>0. Calm
  BY StillCalm DEF IInv
<1>1. ASSUME issued' = issued, rows \subseteq rows', open \subseteq open'
      PROVE  p \in rows' \/ Early(p)'
  BY <1>0, <1>1 DEF CInv, CalmInv, RowInv, Early
<1>2. ASSUME NEW c \in Calls, NEW from, NEW old, Issue(c, from, old)
      PROVE  p \in rows' \/ Early(p)'
  <2> DEFINE t == [new |-> issued + 1, old |-> old]
  <2>1. /\ issued' = issued + 1 /\ rows \subseteq rows' /\ open \subseteq open'
        /\ issued + 1 \in Pairs
    BY <1>2, NextPair DEF Issue, Finish, Apply, IInv
  <2>2. CASE p = issued + 1
    <3>1. CASE open' = open \cup {t}
      <4>1. t \in open' /\ t.new = p
        BY <2>2, <3>1
      <4> QED
        BY <4>1 DEF Early
    <3>2. CASE Apply(t)
      BY <2>1, <2>2, <3>2 DEF Apply
    <3> QED
      BY <1>2, <3>1, <3>2 DEF Issue, Finish
  <2>3. CASE p # issued + 1
    <3>1. p \in 1..issued
      BY <2>1, <2>3 DEF IInv, TypeOK
    <3> QED
      BY <1>0, <2>1, <3>1 DEF CInv, CalmInv, RowInv, Early
  <2> QED
    BY <2>2, <2>3
<1>3. ASSUME NEW c \in Calls, ServeLogin(c) PROVE p \in rows' \/ Early(p)'
  BY <1>1, <1>2, <1>3 DEF ServeLogin
<1>4. ASSUME NEW c \in Calls, Rotate(c) PROVE p \in rows' \/ Early(p)'
  BY <1>2, <1>4 DEF Rotate, Exchange
<1>5. ASSUME NEW c \in Calls, ServeLogout(c) PROVE p \in rows' \/ Early(p)'
  BY <1>1, <1>5 DEF ServeLogout, Finish, Apply
<1>6. ASSUME NEW t \in open, Commit(t) PROVE p \in rows' \/ Early(p)'
  <2>1. /\ issued' = issued /\ open' = open \ {t}
        /\ rows' = rows \cup (Pairs \cap {t.new})
    BY <1>6 DEF Commit, Apply
  <2>2. p \in Pairs
    BY MaxPairsAssumption DEF IInv, TypeOK, Pairs
  <2>3. p \in rows \/ \E u \in open : u.new = p
    BY <1>0, <2>1 DEF CInv, CalmInv, RowInv, Early
  <2> QED
    BY <2>1, <2>2, <2>3 DEF Early
<1>7. ASSUME NEW t \in open, CommitFault(t) PROVE FALSE
  BY <1>7 DEF CommitFault, Calm
<1>8. CASE UNCHANGED <<issued, rows, open>>
  BY <1>1, <1>8
<1> QED
  BY <1>3, <1>4, <1>5, <1>6, <1>7, <1>8
     DEF Next, Serve, Resume, vars, Send, Rejected, ServeApi, FindRow, Accept, Fault,
         Return, LogOut, Leave, Refresh, GiveUp, Resend, ExpireAccess, ExpireRefresh

\* The server goes on with the calls that wait, and answers them.
LEMMA WaitStep == IInv /\ IInv' /\ CInv /\ KnownInv' /\ [Next]_vars /\ Calm' =>
    \A x \in Calls : WaitAt(x)'
<1> SUFFICES ASSUME IInv, IInv', CInv, KnownInv', [Next]_vars, Calm',
                    NEW x \in Calls
             PROVE  WaitAt(x)'
  OBVIOUS
<1>0. Calm
  BY StillCalm DEF IInv
<1> USE SpentSame, KindAssumption, <1>0
   DEF IInv, TypeOK, CInv, CalmInv, Calm, WaitAt, RotateInv
<1>1. CASE UNCHANGED vars
  BY <1>1 DEF vars
<1>2. CASE \E c \in Calls : Send(c)
  BY <1>2 DEF Send
<1>3. CASE \E c \in Calls : Rejected(c)
  BY <1>3 DEF Rejected
<1>4. CASE \E c \in Calls : ServeApi(c)
  BY <1>4 DEF ServeApi
<1>5. CASE \E c \in Calls : ServeLogout(c)
  BY <1>5, LogoutSpent
<1>6. CASE \E c \in Calls : ServeLogin(c)
  BY <1>6, LoginSpent
<1>7. CASE \E c \in Calls : FindRow(c)
  BY <1>7, FindSpent
<1>8. CASE \E c \in Calls : Rotate(c)
  BY <1>8, RotateSpent
<1>9. CASE \E c \in Calls : Fault(c)
  BY <1>9 DEF Fault, RefreshAt
<1>10. CASE \E c \in Calls : Return(c)
  BY <1>10 DEF Return, Finished, Waiting, RefreshAt
<1>11. CASE \E c \in Calls : Refresh(c)
  BY <1>11 DEF Refresh, Unauthorized
<1>12. CASE \E c \in Calls : LogOut(c) \/ GiveUp(c)
  BY <1>12, LeaveCalm DEF Left, Forgettable
<1>13. CASE \E c \in Calls : Resend(c)
  BY <1>13 DEF Resend
<1>14. CASE ExpireAccess
  BY <1>14 DEF ExpireAccess
<1>15. CASE ExpireRefresh
  BY <1>15 DEF ExpireRefresh
<1>16. CASE \E t \in open : Commit(t) \/ CommitFault(t)
  BY <1>16, CommitSpent DEF Commit, CommitFault
<1> QED
  BY <1>1, <1>2, <1>3, <1>4, <1>5, <1>6, <1>7, <1>8, <1>9,
     <1>10, <1>11, <1>12, <1>13, <1>14, <1>15, <1>16 DEF Next, Serve, Resume

\* A refresh under way keeps what it refreshes with.
LEMMA RefreshStep == IInv /\ IInv' /\ CInv /\ KnownInv' /\ [Next]_vars /\ Calm' =>
    \A x \in Calls : RefreshAt(x)'
<1> SUFFICES ASSUME IInv, IInv', CInv, KnownInv', [Next]_vars, Calm',
                    NEW x \in Calls
             PROVE  RefreshAt(x)'
  OBVIOUS
<1>0. Calm
  BY StillCalm DEF IInv
<1> USE SpentSame, KindAssumption, NoPairIsNone, MaxPairsAssumption, <1>0
    DEF IInv, TypeOK, CInv, KnownInv, CalmInv, Calm, WaitAt, RotateInv, NoPair,
        RefreshAt, Lasting, Unspent
<1>1. CASE UNCHANGED vars
  BY <1>1 DEF vars
<1>2. CASE \E c \in Calls : Send(c)
  BY <1>2 DEF Send
<1>3. CASE \E c \in Calls : Rejected(c)
  BY <1>3 DEF Rejected
<1>4. CASE \E c \in Calls : ServeApi(c)
  BY <1>4 DEF ServeApi
<1>5. CASE \E c \in Calls : ServeLogout(c)
  <2> SUFFICES ASSUME NEW c \in Calls, ServeLogout(c) PROVE RefreshAt(x)'
    BY <1>5
  <2>1. call[x] = "refresh" => x # c /\ stored = NoPair
    BY LogoutSpent, RefreshAlone
  <2> QED
    BY <2>1, LogoutSpent
<1>6. CASE \E c \in Calls : ServeLogin(c)
  BY <1>6, LoginSpent
<1>7. CASE \E c \in Calls : FindRow(c)
  BY <1>7, FindSpent
<1>8. CASE \E c \in Calls : Rotate(c)
  <2> SUFFICES ASSUME NEW c \in Calls, Rotate(c) PROVE RefreshAt(x)'
    BY <1>8
  <2>1. call[c] = "refresh" /\ stored = rt[c] /\ stored \in Pairs
    BY RotateSpent
  <2>2. call[x] = "refresh" => x = c
    BY <2>1, RefreshAlone
  <2> QED
    BY <2>1, <2>2, RotateSpent
<1>9. CASE \E c \in Calls : Fault(c)
  <2> SUFFICES ASSUME NEW c \in Calls, Fault(c) PROVE RefreshAt(x)'
    BY <1>9
  <2>1. call[c] # "refresh"
    BY DEF Fault
  <2> QED
    BY <2>1 DEF Fault
<1>10. CASE \E c \in Calls : Return(c)
  <2> SUFFICES ASSUME NEW c \in Calls, Return(c) PROVE RefreshAt(x)'
    BY <1>10
  <2>1. CASE stored' = stored
    BY <2>1 DEF Return
  <2>2. CASE Waiting = {c}
    BY <2>2 DEF Return, Finished, Waiting
  <2> QED
    BY <2>1, <2>2 DEF Return
<1>11. CASE \E c \in Calls : Refresh(c)
  BY <1>11 DEF Refresh, Unauthorized
<1>12. CASE \E c \in Calls : LogOut(c) \/ GiveUp(c)
  BY <1>12, LeaveCalm DEF Left, Forgettable
<1>13. CASE \E c \in Calls : Resend(c)
  <2> SUFFICES ASSUME NEW c \in Calls, Resend(c) PROVE RefreshAt(x)'
    BY <1>13
  <2>1. \A d \in Calls \ {c} : call[d] # "refresh"
    BY ResendCalm
  <2> QED
    BY <2>1 DEF Resend
<1>14. CASE ExpireAccess
  BY <1>14 DEF ExpireAccess
<1>15. CASE ExpireRefresh
  BY <1>15 DEF ExpireRefresh
<1>16. CASE \E t \in open : Commit(t) \/ CommitFault(t)
  BY <1>16, CommitSpent DEF Commit, CommitFault
<1> QED
  BY <1>1, <1>2, <1>3, <1>4, <1>5, <1>6, <1>7, <1>8, <1>9,
     <1>10, <1>11, <1>12, <1>13, <1>14, <1>15, <1>16 DEF Next, Serve, Resume

\* A logout under way revokes what is stored.
LEMMA LogoutStep == IInv /\ IInv' /\ CInv /\ KnownInv' /\ [Next]_vars /\ Calm' =>
    \A x \in Calls : LogoutAt(x)'
<1> SUFFICES ASSUME IInv, IInv', CInv, KnownInv', [Next]_vars, Calm',
                    NEW x \in Calls, Kind[x] = "logout"
             PROVE  LogoutAt(x)'
  BY DEF LogoutAt
<1>0. Calm
  BY StillCalm DEF IInv
<1> USE SpentSame, KindAssumption, NoPairIsNone, MaxPairsAssumption, <1>0
    DEF IInv, TypeOK, CInv, KnownInv, CalmInv, Calm, WaitAt, RotateInv, NoPair,
        LogoutAt
<1>1. CASE UNCHANGED vars
  BY <1>1 DEF vars
<1>2. CASE \E c \in Calls : Send(c)
  BY <1>2 DEF Send
<1>3. CASE \E c \in Calls : Rejected(c)
  <2> SUFFICES ASSUME NEW c \in Calls, Rejected(c) PROVE LogoutAt(x)'
    BY <1>3
  <2>1. CASE x = c /\ msg'[x] = "error"
    <3>1. body[x] = NoPair
      BY <2>1 DEF Rejected
    <3>2. call[x] = "request" => stored = NoPair
      BY <2>1, <3>1 DEF Rejected
    <3>3. stored = NoPair => \A d \in Calls : call[d] = "refresh" => msg[d] # "ok"
      BY DEF RefreshAt
    <3> QED
      BY <2>1, <3>2, <3>3 DEF Rejected
  <2>2. CASE ~ (x = c /\ msg'[x] = "error")
    BY <2>2 DEF Rejected
  <2> QED
    BY <2>1, <2>2
<1>4. CASE \E c \in Calls : ServeApi(c)
  <2> SUFFICES ASSUME NEW c \in Calls, ServeApi(c) PROVE LogoutAt(x)'
    BY <1>4
  <2>1. call[c] # "refresh"
    BY DEF ServeApi, RefreshAt
  <2> QED
    BY <2>1 DEF ServeApi
<1>5. CASE \E c \in Calls : ServeLogout(c)
  <2> SUFFICES ASSUME NEW c \in Calls, ServeLogout(c) PROVE LogoutAt(x)'
    BY <1>5
  <2>1. msg[c] = "logout" /\ call[c] = "request" /\ Kind[c] = "logout"
    BY LogoutSpent
  <2>2. stored \in Spent' \cup {NoPair} \/ x # c
    BY <2>1, LogoutSpent
  <2>3. \A d \in Calls : call[d] = "refresh" => msg[d] # "ok"
    <3>1. CASE stored = NoPair
      BY <3>1 DEF RefreshAt
    <3>2. CASE stored # NoPair
      BY <2>1, <3>2, RefreshAlone
    <3> QED
      BY <3>1, <3>2
  <2> QED
    BY <2>1, <2>2, <2>3, LogoutSpent
<1>6. CASE \E c \in Calls : ServeLogin(c)
  BY <1>6, LoginSpent
<1>7. CASE \E c \in Calls : FindRow(c)
  BY <1>7, FindSpent
<1>8. CASE \E c \in Calls : Rotate(c)
  <2> SUFFICES ASSUME NEW c \in Calls, Rotate(c) PROVE LogoutAt(x)'
    BY <1>8
  <2>1. stored = rt[c] /\ stored \notin Spent \cup {NoPair}
    BY RotateSpent DEF RefreshAt, Unspent
  <2>2. call[c] = "refresh"
    BY RotateSpent
  <2>3. call[x] = "request" => msg[x] \notin {"ok", "error"}
    BY <2>1, RotateSpent
  <2> QED
    BY <2>2, <2>3, RotateSpent
<1>9. CASE \E c \in Calls : Fault(c)
  <2> SUFFICES ASSUME NEW c \in Calls, Fault(c) PROVE LogoutAt(x)'
    BY <1>9
  <2>1. x # c /\ call[c] # "refresh"
    BY DEF Fault
  <2> QED
    BY <2>1 DEF Fault
<1>10. CASE \E c \in Calls : Return(c)
  <2> SUFFICES ASSUME NEW c \in Calls, Return(c) PROVE LogoutAt(x)'
    BY <1>10
  <2>1. x # c
    BY DEF Return
  <2>2. CASE stored' = stored
    BY <2>1, <2>2 DEF Return
  <2>3. CASE Waiting = {c}
    BY <2>1, <2>3 DEF Return, Waiting
  <2> QED
    BY <2>2, <2>3 DEF Return
<1>11. CASE \E c \in Calls : Refresh(c)
  BY <1>11 DEF Refresh, Unauthorized
<1>12. CASE \E c \in Calls : LogOut(c) \/ GiveUp(c)
  BY <1>12, LeaveCalm DEF Left, Forgettable
<1>13. CASE \E c \in Calls : Resend(c)
  <2> SUFFICES ASSUME NEW c \in Calls, Resend(c) PROVE LogoutAt(x)'
    BY <1>13
  <2>1. x # c
    BY DEF Resend
  <2>2. call[x] = "request" => msg[x] \notin {"logout", "ok", "error"}
    BY ResendCalm
  <2> QED
    BY <2>1, <2>2 DEF Resend
<1>14. CASE ExpireAccess
  BY <1>14 DEF ExpireAccess
<1>15. CASE ExpireRefresh
  BY <1>15 DEF ExpireRefresh
<1>16. CASE \E t \in open : Commit(t) \/ CommitFault(t)
  BY <1>16, CommitSpent DEF Commit, CommitFault
<1> QED
  BY <1>1, <1>2, <1>3, <1>4, <1>5, <1>6, <1>7, <1>8, <1>9,
     <1>10, <1>11, <1>12, <1>13, <1>14, <1>15, <1>16 DEF Next, Serve, Resume

\* A new pair stays with the call it was issued for until it is saved.
LEMMA FlightStep == IInv /\ IInv' /\ CInv /\ KnownInv' /\ [Next]_vars /\ Calm' =>
    \A x \in Calls : FlightAt(x)'
<1> SUFFICES ASSUME IInv, IInv', CInv, KnownInv', [Next]_vars, Calm',
                    NEW x \in Calls, InFlight(x)'
             PROVE  FlightAt(x)'
  BY DEF FlightAt
<1>0. Calm
  BY StillCalm DEF IInv
<1> USE SpentSame, KindAssumption, NoPairIsNone, MaxPairsAssumption, <1>0
    DEF IInv, TypeOK, CInv, KnownInv, CalmInv, Calm, WaitAt, RotateInv, NoPair,
        FlightAt, InFlight, Unspent
<1>1. CASE UNCHANGED vars
  BY <1>1 DEF vars
<1>2. CASE \E c \in Calls : Send(c)
  BY <1>2 DEF Send
<1>3. CASE \E c \in Calls : Rejected(c)
  BY <1>3 DEF Rejected
<1>4. CASE \E c \in Calls : ServeApi(c)
  BY <1>4 DEF ServeApi, RefreshAt
<1>5. CASE \E c \in Calls : ServeLogout(c)
  BY <1>5, LogoutSpent
<1>6. CASE \E c \in Calls : ServeLogin(c)
  <2> SUFFICES ASSUME NEW c \in Calls, ServeLogin(c) PROVE FlightAt(x)'
    BY <1>6
  <2>1. CASE x = c
    <3>1. issued' = issued + 1 /\ fresh' = [fresh EXCEPT ![c] = issued + 1] /\ Spent' = Spent
      BY <2>1, LoginSpent
    <3>2. issued + 1 \notin Spent
      BY MaxPairsAssumption DEF Spent, Transactions, Pairs
    <3>3. fresh'[x] \in Unspent' /\ fresh'[x] # stored
      BY <2>1, <3>1, <3>2
    <3> QED
      BY <2>1, <3>1, <3>3, LoginSpent
  <2>2. CASE x # c
    <3>1. InFlight(x) /\ fresh'[x] = fresh[x] /\ fresh[x] \in Unspent'
      BY <2>2, LoginSpent
    <3> QED
      BY <2>2, <3>1, LoginSpent
  <2> QED
    BY <2>1, <2>2
<1>7. CASE \E c \in Calls : FindRow(c)
  BY <1>7, FindSpent
<1>8. CASE \E c \in Calls : Rotate(c)
  <2> SUFFICES ASSUME NEW c \in Calls, Rotate(c) PROVE FlightAt(x)'
    BY <1>8
  <2>1. call[c] = "refresh" /\ msg[c] = "rotate" /\ stored = rt[c]
    BY RotateSpent DEF RefreshAt
  <2>2. CASE x = c
    <3>1. /\ issued' = issued + 1 /\ fresh' = [fresh EXCEPT ![c] = issued + 1]
          /\ Spent' = Spent \cup (Pairs \cap {rt[c]}) /\ rt[c] <= issued
      BY <2>1, RotateSpent
    <3>2. issued + 1 \notin Spent
      BY MaxPairsAssumption DEF Spent, Transactions, Pairs
    <3>3. fresh'[x] \in Unspent' /\ fresh'[x] # stored
      BY <2>2, <3>1, <3>2
    <3> QED
      BY <2>2, <3>1, <3>3, RotateSpent
  <2>3. CASE x # c
    <3>1. InFlight(x) /\ fresh'[x] = fresh[x] /\ fresh[x] # stored
      BY <2>3, RotateSpent
    <3>2. fresh[x] \in Unspent'
      BY <2>1, <3>1, RotateSpent
    <3>3. \A d \in Calls : d # x /\ InFlight(d)' => fresh'[d] # fresh[x]
      <4> SUFFICES ASSUME NEW d \in Calls, d # x, InFlight(d)'
               PROVE fresh'[d] # fresh[x]
        OBVIOUS
      <4>1. CASE d = c
        BY <4>1, RotateSpent
      <4>2. CASE d # c
        BY <3>1, <4>2, RotateSpent
      <4> QED
        BY <4>1, <4>2
    <3> QED
      BY <3>1, <3>2, <3>3, RotateSpent
  <2> QED
    BY <2>2, <2>3
<1>9. CASE \E c \in Calls : Fault(c)
  BY <1>9 DEF Fault
<1>10. CASE \E c \in Calls : Return(c)
  <2> SUFFICES ASSUME NEW c \in Calls, Return(c) PROVE FlightAt(x)'
    BY <1>10
  <2>1. x # c /\ x \in Waiting
    BY DEF Return, Waiting
  <2>2. CASE stored' = stored
    BY <2>1, <2>2 DEF Return
  <2>3. CASE Waiting = {c}
    BY <2>1, <2>3
  <2> QED
    BY <2>2, <2>3 DEF Return
<1>11. CASE \E c \in Calls : Refresh(c)
  BY <1>11 DEF Refresh, Unauthorized
<1>12. CASE \E c \in Calls : LogOut(c) \/ GiveUp(c)
  BY <1>12, LeaveCalm DEF Left, Forgettable
<1>13. CASE \E c \in Calls : Resend(c)
  BY <1>13 DEF Resend
<1>14. CASE ExpireAccess
  BY <1>14 DEF ExpireAccess
<1>15. CASE ExpireRefresh
  BY <1>15 DEF ExpireRefresh
<1>16. CASE \E t \in open : Commit(t) \/ CommitFault(t)
  BY <1>16, CommitSpent DEF Commit, CommitFault
<1> QED
  BY <1>1, <1>2, <1>3, <1>4, <1>5, <1>6, <1>7, <1>8, <1>9,
     <1>10, <1>11, <1>12, <1>13, <1>14, <1>15, <1>16 DEF Next, Serve, Resume

\* Whatever is forgotten, the server does not honour.
LEMMA LiveStep == IInv /\ IInv' /\ CInv /\ KnownInv' /\ [Next]_vars /\ Calm' =>
    \A p \in Pairs : LiveAt(p)'
<1> SUFFICES ASSUME IInv, IInv', CInv, KnownInv', [Next]_vars, Calm',
                    NEW p \in Pairs, p \in Lasting', p # stored'
             PROVE  \E c \in Calls : InFlight(c)' /\ p = fresh'[c]
  BY DEF LiveAt
<1>0. Calm
  BY StillCalm DEF IInv
<1> USE SpentSame, KindAssumption, NoPairIsNone, MaxPairsAssumption, <1>0
    DEF IInv, TypeOK, CInv, KnownInv, CalmInv, Calm, WaitAt, RotateInv, NoPair,
        LiveAt, InFlight, Lasting, Unspent
<1>1. CASE UNCHANGED vars
  BY <1>1 DEF vars
<1>2. CASE \E c \in Calls : Send(c)
  BY <1>2 DEF Send
<1>3. CASE \E c \in Calls : Rejected(c)
  BY <1>3 DEF Rejected
<1>4. CASE \E c \in Calls : ServeApi(c)
  BY <1>4 DEF ServeApi
<1>5. CASE \E c \in Calls : ServeLogout(c)
  BY <1>5, LogoutSpent
<1>6. CASE \E c \in Calls : ServeLogin(c)
  BY <1>6, LoginSpent
<1>7. CASE \E c \in Calls : FindRow(c)
  BY <1>7, FindSpent
<1>8. CASE \E c \in Calls : Rotate(c)
  BY <1>8, RotateSpent
<1>9. CASE \E c \in Calls : Fault(c)
  <2> SUFFICES ASSUME NEW c \in Calls, Fault(c)
               PROVE \E d \in Calls : InFlight(d)' /\ p = fresh'[d]
    BY <1>9
  <2>1. PICK d \in Calls : InFlight(d) /\ p = fresh[d]
    BY DEF Fault
  <2>2. ~ InFlight(c)
    BY DEF Fault
  <2> QED
    BY <2>1, <2>2 DEF Fault
<1>10. CASE \E c \in Calls : Return(c)
  <2> SUFFICES ASSUME NEW c \in Calls, Return(c)
               PROVE \E d \in Calls : InFlight(d)' /\ p = fresh'[d]
    BY <1>10
  <2>1. CASE stored' = stored
    <3>1. PICK d \in Calls : InFlight(d) /\ p = fresh[d]
      BY <2>1 DEF Return
    <3>2. ~ InFlight(c)
      BY <2>1 DEF Return, Finished, FlightAt
    <3> QED
      BY <3>1, <3>2 DEF Return
  <2>2. CASE stored = NoPair /\ Waiting = {c} /\ stored' = fresh[c]
    <3>1. PICK d \in Calls : InFlight(d) /\ p = fresh[d]
      BY <2>2 DEF Return
    <3>2. d = c
      BY <2>2, <3>1 DEF Waiting
    <3> QED
      BY <2>2, <3>1, <3>2
  <2> QED
    BY <2>1, <2>2 DEF Return
<1>11. CASE \E c \in Calls : Refresh(c)
  BY <1>11 DEF Refresh, Unauthorized
<1>12. CASE \E c \in Calls : LogOut(c) \/ GiveUp(c)
  BY <1>12, LeaveCalm DEF Left, Forgettable
<1>13. CASE \E c \in Calls : Resend(c)
  <2> SUFFICES ASSUME NEW c \in Calls, Resend(c)
               PROVE \E d \in Calls : InFlight(d)' /\ p = fresh'[d]
    BY <1>13
  <2>0. stored \in Spent
    BY ResendCalm
  <2>1. p \in Lasting /\ p # stored
    BY <2>0 DEF Resend
  <2>2. PICK d \in Calls : InFlight(d) /\ p = fresh[d]
    BY <2>1
  <2>3. d # c
    BY <2>2 DEF Resend
  <2> QED
    BY <2>2, <2>3 DEF Resend
<1>14. CASE ExpireAccess
  BY <1>14 DEF ExpireAccess
<1>15. CASE ExpireRefresh
  BY <1>15 DEF ExpireRefresh
<1>16. CASE \E t \in open : Commit(t) \/ CommitFault(t)
  BY <1>16, CommitSpent DEF Commit, CommitFault
<1> QED
  BY <1>1, <1>2, <1>3, <1>4, <1>5, <1>6, <1>7, <1>8, <1>9,
     <1>10, <1>11, <1>12, <1>13, <1>14, <1>15, <1>16 DEF Next, Serve, Resume

\* What is stored is honoured until it is spent or logged out.
LEMMA StoredStep == IInv /\ IInv' /\ CInv /\ KnownInv' /\ [Next]_vars /\ Calm' =>
    StoredInv'
<1> SUFFICES ASSUME IInv, IInv', CInv, KnownInv', [Next]_vars, Calm',
                    stored' # NoPair
             PROVE  StoredInv'
  BY DEF StoredInv
<1>0. Calm
  BY StillCalm DEF IInv
<1> USE SpentSame, KindAssumption, NoPairIsNone, MaxPairsAssumption, <1>0
    DEF IInv, TypeOK, CInv, KnownInv, CalmInv, Calm, WaitAt, RotateInv, NoPair,
        StoredInv, Unspent
<1>1. CASE UNCHANGED vars
  BY <1>1 DEF vars
<1>2. CASE \E c \in Calls : Send(c)
  BY <1>2 DEF Send
<1>3. CASE \E c \in Calls : Rejected(c)
  BY <1>3 DEF Rejected
<1>4. CASE \E c \in Calls : ServeApi(c)
  BY <1>4 DEF ServeApi
<1>5. CASE \E c \in Calls : ServeLogout(c)
  BY <1>5, LogoutSpent
<1>6. CASE \E c \in Calls : ServeLogin(c)
  BY <1>6, LoginSpent
<1>7. CASE \E c \in Calls : FindRow(c)
  BY <1>7, FindSpent
<1>8. CASE \E c \in Calls : Rotate(c)
  BY <1>8, RotateSpent
<1>9. CASE \E c \in Calls : Fault(c)
  <2> SUFFICES ASSUME NEW c \in Calls, Fault(c) PROVE StoredInv'
    BY <1>9
  <2>1. Kind[c] = "api" /\ call[c] # "refresh"
    BY DEF Fault
  <2> QED
    BY <2>1 DEF Fault
<1>10. CASE \E c \in Calls : Return(c)
  <2> SUFFICES ASSUME NEW c \in Calls, Return(c) PROVE StoredInv'
    BY <1>10
  <2>1. call[c] = "request" /\ Kind[c] # "logout"
    BY DEF Return, Finished
  <2>2. CASE stored' = stored
    BY <2>1, <2>2 DEF Return
  <2>3. CASE Kind[c] = "login" /\ msg[c] = "ok" /\ stored' = fresh[c]
    <3>1. fresh[c] \in Unspent
      BY <2>1, <2>3 DEF FlightAt, InFlight
    <3> QED
      BY <2>3, <3>1 DEF Return
  <2> QED
    BY <2>2, <2>3 DEF Return
<1>11. CASE \E c \in Calls : Refresh(c)
  BY <1>11 DEF Refresh, Unauthorized
<1>12. CASE \E c \in Calls : LogOut(c) \/ GiveUp(c)
  BY <1>12, LeaveCalm DEF Left, Forgettable
<1>13. CASE \E c \in Calls : Resend(c)
  <2> SUFFICES ASSUME NEW c \in Calls, Resend(c) PROVE StoredInv'
    BY <1>13
  <2>1. fresh[c] \in Unspent
    BY ResendCalm DEF FlightAt
  <2> QED
    BY <2>1 DEF Resend
<1>14. CASE ExpireAccess
  BY <1>14 DEF ExpireAccess
<1>15. CASE ExpireRefresh
  BY <1>15 DEF ExpireRefresh
<1>16. CASE \E t \in open : Commit(t) \/ CommitFault(t)
  BY <1>16, CommitSpent DEF Commit, CommitFault
<1> QED
  BY <1>1, <1>2, <1>3, <1>4, <1>5, <1>6, <1>7, <1>8, <1>9,
     <1>10, <1>11, <1>12, <1>13, <1>14, <1>15, <1>16 DEF Next, Serve, Resume

-----------------------------------------------------------------------------
\* At the start the server honours the token of an earlier visit, if any.
LEMMA InitCalm == Init => CInv
<1> SUFFICES ASSUME Init PROVE CInv
  OBVIOUS
<1> USE DEF Init, NoPair
<1>1. KnownInv /\ RowInv /\ Spent = {}
  BY DEF KnownInv, RowInv, Spent
<1>2. \A c \in Calls : WaitAt(c) /\ RefreshAt(c) /\ LogoutAt(c) /\ FlightAt(c)
  BY DEF WaitAt, RefreshAt, LogoutAt, FlightAt, InFlight
<1>3. \A p \in Pairs : LiveAt(p)
  BY <1>1 DEF LiveAt, Lasting, Unspent
<1>4. StoredInv
  BY <1>1 DEF StoredInv, Unspent
<1> QED
  BY <1>1, <1>2, <1>3, <1>4 DEF CInv, CalmInv

\* While nothing separates browser and server, every pair is accounted for.
THEOREM CalmInvariance == Spec => []CInv
<1>1. Init => CInv
  BY InitCalm
<1>2. IInv /\ IInv' /\ CInv /\ [Next]_vars => CInv'
  BY KnownStep, RowStep, WaitStep, RefreshStep, LogoutStep, FlightStep, LiveStep, StoredStep
     DEF CInv, CalmInv
<1> QED
  BY <1>1, <1>2, Invariance, PTL DEF Spec

\* When all is quiet the server honours the browser's refresh token and no
\* other (the rotation of refresh, the logout with the stored token, doLogin).
THEOREM BrowserAlwaysMatches == Spec => []BrowserMatchesServer
<1>1. IInv /\ CInv => BrowserMatchesServer
  <2> SUFFICES ASSUME IInv, CInv, calm, shared = {}, Quiet
               PROVE  Live = {p \in {stored} : p > dead}
    BY DEF BrowserMatchesServer
  <2>1. Calm
    BY DEF Calm
  <2>2. \A c \in Calls : call[c] \notin {"request", "refresh"}
    BY DEF Quiet
  <2>3. Live = Lasting
    <3>1. Spent = revoked /\ \A p : ~Early(p)
      BY DEF Quiet, Spent, Early
    <3>2. rows = 1..issued
      BY <2>1, <3>1 DEF CInv, CalmInv, RowInv, KnownInv
    <3> QED
      BY <3>1, <3>2 DEF Live, Unrevoked, Lasting, Unspent
  <2>4. ASSUME NEW p \in Lasting PROVE p = stored
    <3>1. p \in Pairs
      BY MaxPairsAssumption DEF Lasting, Unspent, Pairs, IInv, TypeOK
    <3> QED
      BY <2>1, <2>2, <2>4, <3>1 DEF CInv, CalmInv, LiveAt, InFlight
  <2>5. stored # NoPair => stored \in Unspent
    BY <2>1, <2>2 DEF CInv, CalmInv, StoredInv
  <2>6. stored = NoPair => ~ (stored > dead)
    BY DEF NoPair, IInv, TypeOK
  <2> QED
    BY <2>3, <2>4, <2>5, <2>6 DEF Lasting
<1> QED
  BY <1>1, Invariance, CalmInvariance, PTL

\* The automatic refresh never loses a session: the token that it sends is
\* honoured as long as it is young and nobody has logged out.
THEOREM SessionAlwaysKept == Spec => SessionKept
<1>1. ASSUME IInv, CInv, [Next]_vars, calm, shared = {}, dead = 0, stored # NoPair,
             \A c \in Calls : Kind[c] = "logout" => call[c] = "idle"
      PROVE  stored' # NoPair
  <2>1. Calm
    BY <1>1 DEF Calm
  <2>2. ASSUME NEW c \in Calls, call[c] = "refresh" PROVE msg[c] \notin {"401", "error"}
    <3>1. stored = rt[c] /\ \A d \in Calls : call[d] = "refresh" => d = c
      BY <1>1, <2>1, <2>2, RefreshAlone
    <3>2. CASE msg[c] = "401"
      <4>1. stored \notin Lasting
        BY <1>1, <2>1, <2>2, <3>1, <3>2 DEF CInv, CalmInv, RefreshAt
      <4>2. stored \notin Unspent
        BY <1>1, <4>1, MaxPairsAssumption
           DEF Lasting, Unspent, Pairs, NoPair, IInv, TypeOK
      <4>3. \E d \in Calls : msg[d] = "ok" /\ call[d] = "refresh"
        BY <1>1, <2>1, <4>2 DEF CInv, CalmInv, StoredInv
      <4> QED
        BY <3>1, <3>2, <4>3
    <3>3. msg[c] # "error"
      BY <1>1, <2>1, <2>2 DEF CInv, CalmInv, RefreshAt
    <3> QED
      BY <3>2, <3>3
  <2>3. ASSUME NEW c \in Calls, LogOut(c) \/ GiveUp(c) PROVE FALSE
    BY <1>1, <2>2, <2>3 DEF LogOut, Finished, GiveUp, Unauthorized
  <2>4. ASSUME NEW c \in Calls, InFlight(c) PROVE fresh[c] # NoPair
    BY <1>1, <2>1, <2>4 DEF CInv, CalmInv, FlightAt, Unspent, NoPair
  <2>5. CASE \E c \in Calls : Return(c)
    BY <1>1, <2>4, <2>5 DEF Return, Finished, InFlight
  <2>6. CASE \E c \in Calls : Resend(c)
    BY <1>1, <2>4, <2>6 DEF Resend, InFlight
  <2>7. CASE UNCHANGED stored
    BY <1>1, <2>7
  <2> QED
    BY <1>1, <2>3, <2>5, <2>6, <2>7
       DEF Next, vars, Serve, Resume, Send, Rejected, ServeApi, ServeLogout,
           ServeLogin,
           FindRow, Accept, Rotate, Exchange, Fault, Refresh, ExpireAccess, ExpireRefresh,
           Commit, CommitFault
<1>2. IInv /\ CInv /\ [Next]_vars =>
        [/\ calm /\ shared = {} /\ dead = 0 /\ stored # NoPair
         /\ \A c \in Calls : Kind[c] = "logout" => call[c] = "idle"
         => stored' # NoPair]_vars
  BY <1>1
<1> QED
  BY <1>2, Invariance, CalmInvariance, PTL DEF Spec, SessionKept
=============================================================================
