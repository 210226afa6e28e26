------------------------------- MODULE Sessions -------------------------------
(***************************************************************************)
(* Refresh tokens and the access tokens handed out with them               *)
(* (internal/auth), and the four handlers of internal/user over them:      *)
(* Register, Login, Refresh, Logout.                                       *)
(*                                                                         *)
(* tokens holds the committed rows of refresh_tokens and tokensW the newest*)
(* version of each row, as in Accounts.  GetByHash is a plain SELECT: it   *)
(* locks nothing, so a row may change between the check and the revocation.*)
(*                                                                         *)
(* clock counts the time that matters for lifetimes.  parent, straddling,  *)
(* late and changedAt are history: no action depends on them.              *)
(***************************************************************************)
EXTENDS Accounts

CONSTANTS
    MaxTokens,          \* bound: rows of table refresh_tokens
    MaxTime,            \* bound: the clock
    AccessLifetime,     \* 15 minutes
    RefreshLifetime     \* 30 days

VARIABLES
    tokens, tokensW, tokenLock, nextToken,
    clock,
    grants,         \* the access token a client got with each refresh token
    tok, fresh,     \* a call's argument, and the token it has inserted
    signed,         \* the access token it has signed
    late,           \* its token was of no use already when it began
    straddling,     \* calls that saw a role change, tokens they handed out
    changedAt       \* when each account's role last changed

sessions == <<tokens, tokensW, tokenLock, nextToken, clock, grants>>
token    == <<tok, fresh, signed>>
history  == <<late, straddling, changedAt>>
vars     == <<accounts, call, sessions, token, history>>

TokenIDs == 1..MaxTokens
NoToken  == 0
Unknown  == MaxTokens + 1       \* a string that no row has the hash of

TokenRow    == [user : UserIDs, expires : Nat, revoked : BOOLEAN,
                parent : TokenIDs \cup {NoToken}]
AccessToken == [role : Roles, expires : Nat]

ASSUME SessionsAssumption ==
    /\ MaxTokens \in Nat /\ MaxTime \in Nat
    /\ AccessLifetime \in Nat \ {0} /\ RefreshLifetime \in Nat \ {0}
    /\ None \notin TokenRow /\ None \notin AccessToken

SessionsInit ==
    /\ tokens = [t \in TokenIDs |-> None]
    /\ tokensW = [t \in TokenIDs |-> None]
    /\ tokenLock = [t \in TokenIDs |-> None]
    /\ nextToken = 1 /\ clock = 0
    /\ grants = [t \in TokenIDs |-> None]
    /\ tok = [c \in Callers |-> NoToken]
    /\ fresh = [c \in Callers |-> NoToken]
    /\ signed = [c \in Callers |-> None]
    /\ late = [c \in Callers |-> FALSE]
    /\ straddling = [calls |-> {}, tokens |-> {}]
    /\ changedAt = [u \in UserIDs |-> 0]

Init == AccountsInit /\ SessionsInit

-----------------------------------------------------------------------------
(* Rows, locks and the end of a transaction.                               *)

IsRow(t)     == t \in TokenIDs /\ tokens[t] # None
IsRevoked(t) == IsRow(t) /\ tokens[t].revoked
IsExpired(t) == IsRow(t) /\ clock >= tokens[t].expires
IsUsable(t)  == IsRow(t) /\ ~tokens[t].revoked /\ ~IsExpired(t)
IsHeld(t)    == t \in TokenIDs /\ grants[t] # None

PublishTokens(c) ==
    /\ tokens' = [t \in TokenIDs |->
                    IF tokenLock[t] = c THEN tokensW[t] ELSE tokens[t]]
    /\ tokenLock' = [t \in TokenIDs |->
                    IF tokenLock[t] = c THEN None ELSE tokenLock[t]]
    /\ UNCHANGED <<tokensW, nextToken, clock>>

ForgetTokens(c) ==
    /\ tokensW' = [t \in TokenIDs |->
                    IF tokenLock[t] = c THEN tokens[t] ELSE tokensW[t]]
    /\ tokenLock' = [t \in TokenIDs |->
                    IF tokenLock[t] = c THEN None ELSE tokenLock[t]]
    /\ UNCHANGED <<tokens, nextToken, clock>>

Drop(c) ==
    /\ tok' = [tok EXCEPT ![c] = NoToken]
    /\ fresh' = [fresh EXCEPT ![c] = NoToken]
    /\ signed' = [signed EXCEPT ![c] = None]
    /\ late' = [late EXCEPT ![c] = FALSE]
    /\ UNCHANGED changedAt

\* The transaction is rolled back and the handler answers with an error.
Fail(c, status) ==
    /\ Answer(c, status)
    /\ ForgetUsers(c) /\ ForgetTokens(c)
    /\ Drop(c)
    /\ straddling' = [straddling EXCEPT !.calls = @ \ {c}]
    /\ UNCHANGED grants

\* Commit.  The client learns the new pair of tokens, if there is one, from
\* the answer.
Publish(c, status) ==
    /\ pc[c] = "commit"
    /\ PublishTokens(c)
    /\ Answer(c, status)
    /\ Drop(c)
    /\ UNCHANGED accounts

Deliver(c) ==
    /\ grants' = [t \in TokenIDs |-> IF t = fresh[c] THEN signed[c] ELSE grants[t]]
    /\ straddling' = [calls |-> straddling.calls \ {c},
                      tokens |-> straddling.tokens \cup
                                   (IF c \in straddling.calls THEN {fresh[c]} ELSE {})]

-----------------------------------------------------------------------------
(* The statements of RefreshService.                                       *)

\* INSERT INTO refresh_tokens, then GenerateToken.  An INSERT past MaxTokens
\* fails: the bound of the model.
Issue(c, owner, rl, parent) ==
    \/ /\ nextToken \notin TokenIDs
       /\ Fail(c, 500)
    \/ /\ nextToken \in TokenIDs
       /\ tokensW' = [tokensW EXCEPT ![nextToken] =
                        [user |-> owner, expires |-> clock + RefreshLifetime,
                         revoked |-> FALSE, parent |-> parent]]
       /\ tokenLock' = [tokenLock EXCEPT ![nextToken] = c]
       /\ nextToken' = nextToken + 1
       /\ fresh' = [fresh EXCEPT ![c] = nextToken]
       /\ signed' = [signed EXCEPT ![c] =
                        [role |-> rl, expires |-> clock + AccessLifetime]]
       /\ Goto(c, "commit")
       /\ UNCHANGED <<tokens, clock, grants, tok, history, accounts>>
       /\ UNCHANGED <<op, reply, email, secret, me, role>>

\* Begin of a call that comes with a refresh token: one that a client was
\* given, or a string that never was a token.
TokenCall(c, method) ==
    \E t \in {u \in TokenIDs : IsHeld(u)} \cup {Unknown} :
        /\ Call(c, method, "find")
        /\ tok' = [tok EXCEPT ![c] = t]
        /\ late' = [late EXCEPT ![c] = ~IsUsable(t)]
        /\ UNCHANGED <<accounts, email, secret, sessions, fresh, signed>>
        /\ UNCHANGED <<straddling, changedAt>>

\* Fault: a row that another transaction is revoking is passed over.
RevokeRow_SkipsLocked(c, t) ==
    /\ IF tokens[t].revoked \/ tokenLock[t] # None
       THEN UNCHANGED <<tokensW, tokenLock>>
       ELSE /\ tokensW' = [tokensW EXCEPT ![t].revoked = TRUE]
            /\ tokenLock' = [tokenLock EXCEPT ![t] = c]
    /\ UNCHANGED <<tokens, nextToken, clock, grants>>

\* UPDATE refresh_tokens SET revoked_at = NOW() WHERE revoked_at IS NULL: waits
\* for the row, and leaves it alone when another transaction revoked it.  How
\* many rows it changed is not looked at.
RevokeRow(c, t) ==
    /\ tokenLock[t] = None
    /\ IF tokens[t].revoked
       THEN UNCHANGED <<tokensW, tokenLock>>
       ELSE /\ tokensW' = [tokensW EXCEPT ![t].revoked = TRUE]
            /\ tokenLock' = [tokenLock EXCEPT ![t] = c]
    /\ UNCHANGED <<tokens, nextToken, clock, grants>>

-----------------------------------------------------------------------------
(* Login, after the password has been checked: a transaction of its own,   *)
(* with the role that the first one read.                                  *)

LoginCreate(c) == pc[c] = "create" /\ Issue(c, me[c], role[c], NoToken)

LoginCommit(c) == op[c] = "Login" /\ Publish(c, 200) /\ Deliver(c)

-----------------------------------------------------------------------------
(* Refresh.                                                                *)

RefreshBegin(c) == TokenCall(c, "Refresh")

\* Fault: whether the token was revoked is left to the UPDATE's WHERE.
RefreshFind_Revoked(c) ==
    /\ op[c] = "Refresh" /\ pc[c] = "find"
    /\ \/ /\ ~IsRow(tok[c]) \/ IsExpired(tok[c])
          /\ Fail(c, 401)
       \/ /\ IsRow(tok[c]) /\ ~IsExpired(tok[c])
          /\ me' = [me EXCEPT ![c] = tokens[tok[c]].user]
          /\ Goto(c, "role")
          /\ UNCHANGED <<op, reply, email, secret, role, token, history>>
          /\ UNCHANGED <<accounts, sessions>>

RefreshFind(c) ==
    /\ op[c] = "Refresh" /\ pc[c] = "find"
    /\ \/ /\ ~IsUsable(tok[c])
          /\ Fail(c, 401)
       \/ /\ IsUsable(tok[c])
          /\ me' = [me EXCEPT ![c] = tokens[tok[c]].user]
          /\ Goto(c, "role")
          /\ UNCHANGED <<op, reply, email, secret, role, token, history>>
          /\ UNCHANGED <<accounts, sessions>>

\* Fault: the role comes from the access token that is being replaced.
RefreshRole_FromToken(c) ==
    /\ pc[c] = "role"
    /\ role' = [role EXCEPT ![c] = grants[tok[c]].role]
    /\ Goto(c, "revoke")
    /\ UNCHANGED <<op, reply, email, secret, me, token, history>>
    /\ UNCHANGED <<accounts, sessions>>

\* GetRoleByID; accounts are never deleted, so there is one.
RefreshRole(c) ==
    /\ pc[c] = "role"
    /\ role' = [role EXCEPT ![c] = users[me[c]].role]
    /\ Goto(c, "revoke")
    /\ UNCHANGED <<op, reply, email, secret, me, token, history>>
    /\ UNCHANGED <<accounts, sessions>>

RefreshRevoke(c) ==
    /\ op[c] = "Refresh" /\ pc[c] = "revoke"
    /\ RevokeRow(c, tok[c])
    /\ Goto(c, "rotate")
    /\ UNCHANGED <<op, reply, email, secret, me, role, token, history, accounts>>

RefreshRotate(c) == pc[c] = "rotate" /\ Issue(c, me[c], role[c], tok[c])

RefreshCommit(c) == op[c] = "Refresh" /\ Publish(c, 200) /\ Deliver(c)

-----------------------------------------------------------------------------
(* Logout.                                                                 *)

LogoutBegin(c) == TokenCall(c, "Logout")

\* A token that is revoked already is a success: nothing is left to do.
LogoutFind(c) ==
    /\ op[c] = "Logout" /\ pc[c] = "find"
    /\ \/ /\ ~IsRow(tok[c])
          /\ Fail(c, 401)
       \/ /\ IsRow(tok[c])
          /\ Goto(c, IF IsRevoked(tok[c]) THEN "commit" ELSE "revoke")
          /\ UNCHANGED <<op, reply, email, secret, me, role, token, history>>
          /\ UNCHANGED <<accounts, sessions>>

LogoutRevoke(c) ==
    /\ op[c] = "Logout" /\ pc[c] = "revoke"
    /\ RevokeRow(c, tok[c])
    /\ Goto(c, "commit")
    /\ UNCHANGED <<op, reply, email, secret, me, role, token, history, accounts>>

LogoutCommit(c) ==
    /\ op[c] = "Logout" /\ Publish(c, 204)
    /\ straddling' = [straddling EXCEPT !.calls = @ \ {c}]
    /\ UNCHANGED grants

-----------------------------------------------------------------------------
(* Calls that reach no transaction.                                        *)

\* What each handler answers to an argument that is empty; a body that cannot
\* be decoded is 400 for all of them.
EmptyAnswer == [Register |-> 400, Login |-> 401, Refresh |-> 401, Logout |-> 400]

Answered(c, status) ==
    /\ reply' = [reply EXCEPT ![c] = status]
    /\ UNCHANGED <<op, pc, email, secret, me, role>>
    /\ UNCHANGED <<accounts, sessions, token, history>>

RefuseBody(c) ==
    /\ pc[c] = "idle"
    /\ \E method \in Calls \cap DOMAIN EmptyAnswer :
          Answered(c, 400) \/ Answered(c, EmptyAnswer[method])

\* The middleware admits an access token that has not expired (ParseToken), and
\* RequireRole one that says admin.  The table users is not asked.
Admits(t) == IsHeld(t) /\ clock < grants[t].expires

Admin(c) ==
    /\ pc[c] = "idle" /\ "Admin" \in Calls
    /\ \/ /\ \E t \in TokenIDs \cup {Unknown} : ~Admits(t)
          /\ Answered(c, 401)
       \/ \E t \in TokenIDs :
          /\ Admits(t)
          /\ Answered(c, IF grants[t].role = "admin" THEN 200 ELSE 403)

-----------------------------------------------------------------------------
(* The environment.                                                        *)

\* A call is cut short: the client goes away, a statement or the connection
\* fails, the server stops.
Abort(c) == pc[c] # "idle" /\ Fail(c, 500)

\* The commit succeeds, and the connection breaks before the server knows.
CommitLost(c) ==
    \/ /\ Publish(c, 500)
       /\ straddling' = [straddling EXCEPT !.calls = @ \ {c}]
       /\ UNCHANGED grants
    \/ /\ pc[c] = "registered"
       /\ PublishUsers(c) /\ Answer(c, 500)
       /\ straddling' = [straddling EXCEPT !.calls = @ \ {c}]
       /\ UNCHANGED <<sessions, token, late, changedAt>>

Tick ==
    /\ clock < MaxTime
    /\ clock' = clock + 1
    /\ UNCHANGED <<accounts, call, tokens, tokensW, tokenLock, nextToken>>
    /\ UNCHANGED <<grants, token, history>>

RoleChange ==
    /\ "ChangeRole" \in Calls
    /\ \E u \in UserIDs, new \in NewRoles :
          /\ ChangeRole(u, new)
          /\ changedAt' = [changedAt EXCEPT ![u] = clock]
    /\ straddling' = [straddling EXCEPT !.calls = {c \in Callers : pc[c] # "idle"}]
    /\ UNCHANGED <<call, sessions, token, late>>

AccountStep(c) ==
    /\ AccountsStep(c)
    /\ straddling' = [straddling EXCEPT !.calls = IF pc'[c] = "idle" THEN @ \ {c} ELSE @]
    /\ UNCHANGED <<sessions, token, late, changedAt>>

Begins(c) ==
    \/ AccountsBegin(c) /\ UNCHANGED <<sessions, token, history>>
    \/ RefreshBegin(c) \/ LogoutBegin(c) \/ RefuseBody(c) \/ Admin(c)

Step(c) ==
    \/ AccountStep(c)
    \/ LoginCreate(c) \/ LoginCommit(c)
    \/ RefreshFind(c) \/ RefreshRole(c) \/ RefreshRevoke(c)
    \/ RefreshRotate(c) \/ RefreshCommit(c)
    \/ LogoutFind(c) \/ LogoutRevoke(c) \/ LogoutCommit(c)

Next ==
    \/ \E c \in Callers : Begins(c) \/ Step(c) \/ Abort(c) \/ CommitLost(c)
    \/ Tick \/ RoleChange

Spec == Init /\ [][Next]_vars

-----------------------------------------------------------------------------
(* Safety.                                                                 *)

TypeOK ==
    /\ users \in [UserIDs -> UserRow \cup {None}]
    /\ usersW \in [UserIDs -> UserRow \cup {None}]
    /\ userLock \in [UserIDs -> Callers \cup {None}]
    /\ nextUser \in 1..(MaxUsers + 1)
    /\ op \in [Callers -> {"Register", "Login", "Refresh", "Logout", "none"}]
    /\ pc \in [Callers -> {"idle", "register", "registered", "login", "create",
                           "find", "role", "revoke", "rotate", "commit"}]
    /\ reply \in [Callers -> Statuses \cup {NoReply}]
    /\ email \in [Callers -> Spellings \cup {None}]
    /\ secret \in [Callers -> Passwords \cup {None}]
    /\ me \in [Callers -> UserIDs \cup {NoUser}]
    /\ role \in [Callers -> Roles \cup {None}]
    /\ tokens \in [TokenIDs -> TokenRow \cup {None}]
    /\ tokensW \in [TokenIDs -> TokenRow \cup {None}]
    /\ tokenLock \in [TokenIDs -> Callers \cup {None}]
    /\ nextToken \in 1..(MaxTokens + 1)
    /\ clock \in 0..MaxTime
    /\ grants \in [TokenIDs -> AccessToken \cup {None}]
    /\ tok \in [Callers -> TokenIDs \cup {NoToken, Unknown}]
    /\ fresh \in [Callers -> TokenIDs \cup {NoToken}]
    /\ signed \in [Callers -> AccessToken \cup {None}]
    /\ late \in [Callers -> BOOLEAN]
    /\ straddling \in [calls : SUBSET Callers, tokens : SUBSET TokenIDs]
    /\ changedAt \in [UserIDs -> Nat]

\* People with one address have one account, however they spell it and however
\* many of them register at once.
OneAccountPerAddress ==
    \A u, v \in UserIDs :
        /\ users[u] # None /\ users[v] # None
        /\ Address[users[u].email] = Address[users[v].email]
        => u = v

\* "The previous token is revoked, a new one is issued": nobody ever sees the
\* new token while the previous one still works, whatever fails in between and
\* whoever revokes it first; and the two belong to one account.
RotationRevokes ==
    \A t \in TokenIDs :
        IsRow(t) /\ tokens[t].parent # NoToken =>
            /\ IsRevoked(tokens[t].parent)
            /\ tokens[tokens[t].parent].user = tokens[t].user

\* A Refresh that begins after its token was revoked, by a rotation or by a
\* logout, or has expired gets nowhere.
ClosedTokensStayClosed ==
    \A c \in Callers :
        op[c] = "Refresh" /\ late[c] => pc[c] = "find"

\* The middleware admits an access token whose role is not the one in the
\* table only within AccessLifetime of the change of role, or when the call
\* that handed it out was running at the change: who has lost the role of an
\* administrator is soon refused, however often he rotates.
StaleRolesExpire ==
    \A t \in TokenIDs :
        Admits(t) /\ grants[t].role # users[tokens[t].user].role =>
            \/ t \in straddling.tokens
            \/ clock < changedAt[tokens[t].user] + AccessLifetime

\* A client that is answered 401 really came with a token that does not work,
\* or with an address and password that no account has.
RefusalsAreTrue ==
    [][\A c \in Callers :
          pc[c] # "idle" /\ pc'[c] = "idle" /\ reply'[c] = 401 =>
              CASE op[c] = "Login" ->
                       \A u \in UserIDs : users[u] # None =>
                           \/ users[u].email # Address[email[c]]
                           \/ users[u].password # secret[c]
                [] op[c] = "Refresh" -> ~IsUsable(tok[c])
                [] op[c] = "Logout" -> ~IsRow(tok[c])
      ]_vars

\* "Revoked token cannot be refreshed": once a logout has been answered, no
\* Refresh of its token is.
NoRefreshAfterRevocation ==
    [][\A c \in Callers :
          op[c] = "Refresh" /\ pc[c] = "commit" /\ reply'[c] = 200 =>
              ~IsRevoked(tok[c])
      ]_vars
=============================================================================
