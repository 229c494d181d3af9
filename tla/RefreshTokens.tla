---------------------------- MODULE RefreshTokens ----------------------------
(***************************************************************************)
(* The tokens of one user: their issue, rotation and revocation by the      *)
(* server (services/auth_service.py), and their use by the browser          *)
(* (Auth, api.request and logout in static/app.js), which refreshes by      *)
(* itself when a call is answered 401 and then sends the call again.        *)
(*                                                                          *)
(* The tabs of a browser share localStorage.  Auth.save and Auth.clear put  *)
(* and remove both tokens without an await, so what is stored is a pair or  *)
(* nothing.  Leaving a page ends its scripts, but not what the server does  *)
(* for the requests they have sent.                                         *)
(*                                                                          *)
(* The handlers leave the commit to get_db (core/database.py), behind its   *)
(* yield.  FastAPI runs that part before the answer is sent or, from 0.118  *)
(* on, after it, and requirements.txt allows both; so does the model.       *)
(***************************************************************************)
EXTENDS Integers

CONSTANTS
    Calls,    \* the calls the pages may make with api.request
    Kind,     \* Kind[c]: "login", "logout", or "api" for any other route
    TabOf,    \* TabOf[c]: the tab that makes the call
    MaxPairs  \* bound: the pairs of an access and a refresh token to issue

ASSUME MaxPairsAssumption == MaxPairs \in Nat \ {0}
ASSUME KindAssumption == Kind \in [Calls -> {"login", "logout", "api"}]

\* The pairs are numbered in the order of issue.
Pairs == 1..MaxPairs
NoPair == 0

VARIABLES
    (* the server *)
    issued,  \* the last pair issued
    rows,    \* pairs whose refresh token is in refresh_tokens
    revoked, \* those that have revoked_at set
    open,    \* transactions whose answer was sent, and that are not committed
    aged,    \* the last pair whose access token has expired (30 minutes)
    dead,    \* the last pair whose refresh token has expired (30 days)
    (* the browser *)
    stored,  \* the pair in localStorage
    call,    \* what api.request waits for
    again,   \* the calls sent a second time: "retry" is false
    bearer,  \* the pair whose access token the call carries
    body,    \* the pair whose refresh token is in the body of a logout
    rt,      \* the pair whose refresh token the call refreshes with
    (* between them *)
    msg,     \* the call's request or answer, or what the server does with it
    fresh,   \* the pair in the answer
    (* history *)
    parent,  \* the pair whose refresh token was spent for this one
    shared,  \* pairs that were refreshed or logged out by two at once
    calm     \* nothing has happened that may separate browser and server

browserVars == <<call, again, bearer, body, rt>>
tokenVars == <<issued, rows, revoked, open, parent, fresh>>
vars == <<tokenVars, aged, dead, stored, browserVars, msg, shared, calm>>

\* The row that a transaction inserts and the one that it revokes.
Transactions == [new : Pairs \cup {NoPair}, old : Pairs \cup {NoPair}]

Request == {"login", "logout", "api"}
Answer == {"ok", "401", "error"}

TypeOK ==
    /\ issued \in 0..MaxPairs /\ aged \in 0..issued /\ dead \in 0..aged
    /\ rows \subseteq Pairs /\ revoked \subseteq Pairs /\ open \subseteq Transactions
    /\ stored \in Pairs \cup {NoPair}
    /\ call \in [Calls -> {"idle", "request", "refresh", "over"}]
    /\ again \subseteq Calls
    /\ bearer \in [Calls -> Pairs \cup {NoPair}]
    /\ body \in [Calls -> Pairs \cup {NoPair}]
    /\ rt \in [Calls -> Pairs \cup {NoPair}]
    /\ msg \in [Calls -> {"none", "refresh", "rotate"} \cup Request \cup Answer]
    /\ fresh \in [Calls -> Pairs \cup {NoPair}]
    /\ parent \in [Pairs -> Pairs \cup {NoPair}]
    /\ shared \subseteq Pairs /\ calm \in BOOLEAN
    /\ \A c \in Calls : call[c] = "refresh" => rt[c] \in Pairs

\* The user may have logged in on an earlier visit.
Init ==
    /\ issued \in {0, 1} /\ stored = issued /\ rows = 1..issued /\ open = {}
    /\ parent = [p \in Pairs |-> NoPair]
    /\ revoked = {} /\ aged = 0 /\ dead = 0
    /\ again = {} /\ shared = {} /\ calm = TRUE
    /\ call = [c \in Calls |-> "idle"] /\ msg = [c \in Calls |-> "none"]
    /\ bearer = [c \in Calls |-> NoPair] /\ body = [c \in Calls |-> NoPair]
    /\ rt = [c \in Calls |-> NoPair] /\ fresh = [c \in Calls |-> NoPair]

-----------------------------------------------------------------------------
(* Helpers.  Definitions named "wrong variant" are not used: put in the     *)
(* place of the next definition of the same kind they break a property,     *)
(* which shows what the property says about the code.                       *)

\* The refresh tokens that the server honours.
Unrevoked == rows \ revoked
Live == {p \in Unrevoked : p > dead}

Message(c, from, to) == msg[c] \in from /\ msg' = [msg EXCEPT ![c] = to]

\* Call d is about to spend, or to revoke, the refresh token of pair p.
Spending(d, p) == \/ rt[d] = p /\ (call[d] = "refresh" \/ msg[d] \in {"refresh", "rotate"})
                  \/ body[d] = p /\ msg[d] = "logout"

\* Call c sends the refresh token of p.
Share(c, p) == shared' = shared \cup
    {q \in Pairs \cap {p} : \/ \E d \in Calls \ {c} : Spending(d, q)
                            \/ \E t \in open : t.old = q}

\* The row of p, which the server looks for, was announced and is not there yet.
Early(p) == \E t \in open : t.new = p

Waiting == {d \in Calls : call[d] \in {"request", "refresh"}}

ServerIdle == UNCHANGED <<tokenVars, aged, dead>>

-----------------------------------------------------------------------------
(* The server.  Users are never deleted, so "User not found" cannot happen. *)

Apply(t) ==
    /\ rows' = rows \cup (Pairs \cap {t.new})
    /\ revoked' = revoked \cup (Pairs \cap {t.old})

\* The handler has returned: get_db commits first, or the answer is sent first.
Finish(c, from, t) ==
    /\ Message(c, {from}, "ok")
    /\ \/ Apply(t) /\ UNCHANGED open
       \/ open' = open \cup {t} /\ UNCHANGED <<rows, revoked>>

\* _issue_tokens, for a login or for the refresh token of old.
Issue(c, from, old) ==
    /\ issued < MaxPairs /\ issued' = issued + 1
    /\ Finish(c, from, [new |-> issued + 1, old |-> old])
    /\ parent' = [parent EXCEPT ![issued + 1] = old]
    /\ fresh' = [fresh EXCEPT ![c] = issued + 1]

\* get_db's commit after the answer.
Commit(t) ==
    /\ t \in open /\ open' = open \ {t} /\ Apply(t)
    /\ UNCHANGED <<issued, parent, fresh, aged, dead, stored, browserVars, msg, shared, calm>>

\* It fails, or the process ends before it; the caller has its answer.
CommitFault(t) ==
    /\ t \in open /\ open' = open \ {t} /\ calm' = FALSE
    /\ UNCHANGED <<issued, rows, revoked, parent, fresh, aged, dead, stored, browserVars, msg,
                   shared>>

\* get_current_user: 401 for an expired token; what FastAPI answers a request
\* without a token depends on its version.
Rejected(c) ==
    /\ \/ bearer[c] = NoPair /\ \E answer \in {"401", "error"} :
                                   Message(c, {"api", "logout"}, answer)
       \/ bearer[c] \in 1..aged /\ Message(c, {"api", "logout"}, "401")
    /\ UNCHANGED <<tokenVars, aged, dead, stored, browserVars, shared, calm>>

Authenticated(c) == bearer[c] > aged

ServeApi(c) ==
    /\ Authenticated(c) /\ Message(c, {"api"}, "ok")
    /\ ServerIdle /\ UNCHANGED <<stored, browserVars, shared, calm>>

\* logout: the row, if it is there, is revoked, whatever it was before.  Nothing
\* can come between its SELECT and the end of the handler that would matter.
ServeLogout(c) ==
    /\ Authenticated(c)
    /\ IF body[c] \in rows
       THEN Finish(c, "logout", [new |-> NoPair, old |-> body[c]])
       ELSE /\ Message(c, {"logout"}, IF body[c] = NoPair THEN "error" ELSE "ok")
            /\ UNCHANGED <<rows, revoked, open>>
    /\ calm' = (calm /\ ~Early(body[c]))
    /\ UNCHANGED <<issued, parent, fresh, aged, dead, stored, browserVars, shared>>

\* login: a new pair, or 401 for wrong credentials.
ServeLogin(c) ==
    /\ \/ Issue(c, "login", NoPair)
       \/ Message(c, {"login"}, "401") /\ UNCHANGED tokenVars
    /\ UNCHANGED <<aged, dead, stored, browserVars, shared, calm>>

\* refresh, up to its second await: the row must be there and unrevoked, and
\* the token not expired.
Accept(c, usable) ==
    /\ Message(c, {"refresh"}, IF rt[c] \in usable THEN "rotate" ELSE "401")
    /\ calm' = (calm /\ ~Early(rt[c]))
    /\ ServerIdle /\ UNCHANGED <<stored, browserVars, shared>>

\* Wrong variants of FindRow: revoked_at is not looked at; the expiry is
\* compared the wrong way round.
FindRowRevoked(c) == Accept(c, {p \in Pairs : p > dead})
FindRowExpired(c) == Accept(c, Unrevoked \ Live)

FindRow(c) == Accept(c, Live)

\* The old row is revoked and the new one inserted.
Exchange(c, old) ==
    /\ Issue(c, "rotate", old)
    /\ UNCHANGED <<aged, dead, stored, browserVars, shared, calm>>

\* Wrong variant of Rotate: the old token stays unrevoked.
RotateKeepingOld(c) == Exchange(c, NoPair)

Rotate(c) == Exchange(c, rt[c])

\* 403 for a banned user, an error of the database, a lost request or answer.
Fault(c) ==
    /\ Message(c, Request \cup {"refresh", "rotate", "ok"}, "error")
    /\ calm' = (calm /\ Kind[c] = "api" /\ call[c] # "refresh")
    /\ ServerIdle /\ UNCHANGED <<stored, browserVars, shared>>

\* Tokens expire in the order of issue.
ExpireAccess ==
    /\ aged < issued /\ aged' = aged + 1
    /\ UNCHANGED <<tokenVars, dead, stored, browserVars, msg, shared, calm>>

ExpireRefresh ==
    /\ dead < aged /\ dead' = dead + 1
    /\ UNCHANGED <<tokenVars, aged, stored, browserVars, msg, shared, calm>>

-----------------------------------------------------------------------------
(* The browser *)

\* api.request with the stored access token; logout() also reads the refresh
\* token, once, for its body.
Send(c) ==
    /\ call[c] = "idle" /\ call' = [call EXCEPT ![c] = "request"]
    /\ bearer' = [bearer EXCEPT ![c] = stored]
    /\ body' = [body EXCEPT ![c] = IF Kind[c] = "logout" THEN stored ELSE NoPair]
    /\ Message(c, {"none"}, Kind[c]) /\ Share(c, body'[c])
    /\ ServerIdle /\ UNCHANGED <<stored, again, rt, calm>>

\* Auth.clear() and a new page: the other calls of the tab are never resumed.
Leave(c) ==
    LET tab == {d \in Waiting : TabOf[d] = TabOf[c]}
    IN  /\ stored' = NoPair
        /\ call' = [d \in Calls |-> IF d \in tab THEN "over" ELSE call[d]]
        /\ calm' = (calm /\ \A d \in tab \ {c} : Kind[d] = "api" /\ call[d] = "request")
        /\ Message(c, Answer, "none")
        /\ ServerIdle /\ UNCHANGED <<again, bearer, body, rt, shared>>

\* The call returns, or throws: doLogin saves the tokens; other calls change
\* nothing.  A second 401 is an error like any other.
Finished(c) ==
    call[c] = "request" /\ msg[c] \in (IF c \in again THEN Answer ELSE {"ok", "error"})

Return(c) ==
    /\ Finished(c) /\ Kind[c] # "logout"
    /\ call' = [call EXCEPT ![c] = "over"]
    /\ IF Kind[c] = "login" /\ msg[c] = "ok"
       THEN /\ stored' = fresh[c]
            /\ calm' = (calm /\ stored = NoPair /\ Waiting = {c})
       ELSE UNCHANGED <<stored, calm>>
    /\ Message(c, Answer, "none")
    /\ ServerIdle /\ UNCHANGED <<again, bearer, body, rt, shared>>

\* logout() forgets the tokens whatever the answer was.
LogOut(c) == Finished(c) /\ Kind[c] = "logout" /\ Leave(c)

Unauthorized(c) == call[c] = "request" /\ msg[c] = "401" /\ c \notin again

\* Auth.refreshToken, when the call was answered 401 for the first time.
Refresh(c) ==
    /\ stored # NoPair /\ Unauthorized(c)
    /\ call' = [call EXCEPT ![c] = "refresh"]
    /\ rt' = [rt EXCEPT ![c] = stored]
    /\ Message(c, {"401"}, "refresh") /\ Share(c, stored)
    /\ ServerIdle /\ UNCHANGED <<stored, again, bearer, body, calm>>

\* There is nothing to refresh with, or the refresh has failed.
GiveUp(c) ==
    /\ \/ Unauthorized(c) /\ stored = NoPair
       \/ call[c] = "refresh" /\ msg[c] \in {"401", "error"}
    /\ Leave(c)

\* The new pair is saved and the call sent again, with the new access token
\* but with the body it had.
Resend(c) ==
    /\ call[c] = "refresh" /\ call' = [call EXCEPT ![c] = "request"]
    /\ stored' = fresh[c]
    /\ bearer' = [bearer EXCEPT ![c] = fresh[c]]
    /\ again' = again \cup {c}
    /\ calm' = (calm /\ Kind[c] # "logout")
    /\ Message(c, {"ok"}, Kind[c]) /\ Share(c, body[c])
    /\ ServerIdle /\ UNCHANGED <<body, rt>>

-----------------------------------------------------------------------------
Serve(c) == \/ Rejected(c) \/ ServeApi(c) \/ ServeLogout(c) \/ ServeLogin(c)
            \/ FindRow(c) \/ Rotate(c)

Resume(c) == Return(c) \/ LogOut(c) \/ Refresh(c) \/ GiveUp(c) \/ Resend(c)

Next == \/ \E c \in Calls : Send(c) \/ Serve(c) \/ Fault(c) \/ Resume(c)
        \/ \E t \in open : Commit(t) \/ CommitFault(t)
        \/ ExpireAccess \/ ExpireRefresh

Spec == Init /\ [][Next]_vars

-----------------------------------------------------------------------------
(* Safety *)

\* A refresh token that was spent or logged out gets no successor any more,
\* unless two calls had sent it at the same time (refresh selects the
\* unrevoked row and commits the revocation after another await, perhaps even
\* after the answer).
SpentStaysSpent ==
    [][\A p, q \in Pairs : p \in revoked /\ p \notin shared /\ parent'[q] = p
           => parent[q] = p]_vars

\* When no call is under way, the server honours the refresh token that the
\* browser has, and no other: none that nobody holds can be used for thirty
\* days.  Only faults, tokens sent twice at once or before their row is
\* committed, a login over a session or among other calls, a page left during
\* a refresh, and a logout that was sent again break this.
Quiet == open = {} /\ \A c \in Calls :
    call[c] \in {"idle", "over"} /\ msg[c] \in {"none"} \cup Answer

BrowserMatchesServer == calm /\ shared = {} /\ Quiet =>
    Live = {p \in {stored} : p > dead}

\* The automatic refresh is invisible: without such events, and within the
\* thirty days, only a logout makes the browser forget its tokens, however
\* many calls are answered 401 (api.request and Auth.refreshToken).
SessionKept ==
    [][/\ calm /\ shared = {} /\ dead = 0 /\ stored # NoPair
       /\ \A c \in Calls : Kind[c] = "logout" => call[c] = "idle"
       => stored' # NoPair]_vars

-----------------------------------------------------------------------------
(* What the documentation says, and the code does not do *)

\* README.md, Token Lifecycle: "Every refresh call revokes the old token and
\* issues a new one (one-time use)".
OneTimeUse == \A p, q \in rows :
    parent[p] = parent[q] /\ parent[p] # NoPair => p = q
=============================================================================
