---------------------------- MODULE SessionsProofs ----------------------------
(***************************************************************************)
(* Theorems about Sessions, for any number of callers, accounts and tokens.*)
(*                                                                         *)
(* The invariant has a part about the rows and a part for each caller,     *)
(* which speaks only of that caller's variables and of what nobody else    *)
(* may change: rows it has locked, and what a row keeps for ever.          *)
(***************************************************************************)
EXTENDS Sessions, TLAPS

-----------------------------------------------------------------------------
(* The invariant.                                                          *)

\* The table users: an account that is visible is the newest version, and no
\* two versions, committed or not, have one address.
UserInv ==
    /\ \A u \in UserIDs : users[u] # None => usersW[u] = users[u]
    /\ \A u \in UserIDs : userLock[u] = None => usersW[u] = users[u]
    /\ \A u \in UserIDs : userLock[u] # None => pc[userLock[u]] = "registered"
    /\ \A u \in UserIDs : u >= nextUser => usersW[u] = None /\ userLock[u] = None
    /\ \A u \in UserIDs : usersW[u] # None => usersW[u].email \in Addresses
    /\ \A u, v \in UserIDs :
          usersW[u] # None /\ usersW[v] # None /\ usersW[u].email = usersW[v].email
          => u = v

\* What no transaction changes of a token once it is visible.
SameToken(old, new) ==
    /\ new.user = old.user /\ new.expires = old.expires /\ new.parent = old.parent
    /\ old.revoked => new.revoked

TokenRowsInv ==
    /\ \A t \in TokenIDs :
          tokens[t] # None => tokensW[t] # None /\ SameToken(tokens[t], tokensW[t])
    /\ \A t \in TokenIDs : tokenLock[t] = None => tokensW[t] = tokens[t]
    /\ \A t \in TokenIDs :
          tokenLock[t] # None => pc[tokenLock[t]] \in {"rotate", "commit"}
    /\ \A t \in TokenIDs : t >= nextToken => tokensW[t] = None /\ tokenLock[t] = None
    /\ \A t \in TokenIDs : tokensW[t] # None => users[tokensW[t].user] # None

\* A token and the one it replaces: the old one is revoked already, or the same
\* transaction revokes it and creates the new one.
ParentInv ==
    \A t \in TokenIDs :
        tokensW[t] # None /\ tokensW[t].parent # NoToken =>
            LET p == tokensW[t].parent
            IN  /\ tokens[p] # None /\ tokensW[p].revoked
                /\ tokensW[p].user = tokensW[t].user
                /\ \/ tokens[p].revoked
                   \/ /\ tokens[t] = None
                      /\ tokenLock[t] # None /\ tokenLock[p] = tokenLock[t]

GrantsInv ==
    \A t \in TokenIDs :
        IsHeld(t) => /\ tokens[t] # None
                     /\ grants[t].expires <= clock + AccessLifetime

RowsInv == UserInv /\ TokenRowsInv /\ ParentInv /\ GrantsInv

\* A token that will never work again.
IsClosed(t) == t \in TokenIDs => IsRevoked(t) \/ IsExpired(t)

\* Where a caller can be in which call.
IsPlaced(c) ==
    /\ pc[c] = "idle" => op[c] = "none" /\ c \notin straddling.calls
    /\ pc[c] \in {"register", "registered"} => op[c] = "Register"
    /\ pc[c] \in {"register", "login"} => email[c] \in Spellings /\ secret[c] \in Passwords
    /\ pc[c] \in {"login", "create"} => op[c] = "Login"
    /\ pc[c] \in {"role", "rotate"} => op[c] = "Refresh"
    /\ pc[c] \in {"find", "revoke"} => op[c] \in {"Refresh", "Logout"}
    /\ pc[c] = "commit" => op[c] \in {"Login", "Refresh", "Logout"}
    /\ late[c] => op[c] \in {"Refresh", "Logout"}

Refreshing(c, labels) == op[c] = "Refresh" /\ pc[c] \in labels

\* The account a caller acts for, and the role that it has read.
ActsFor(c) ==
    /\ pc[c] = "create" \/ Refreshing(c, {"role", "revoke", "rotate"})
       => me[c] \in UserIDs /\ users[me[c]] # None
    /\ pc[c] = "create" \/ Refreshing(c, {"revoke", "rotate"})
       => /\ role[c] \in Roles
          /\ role[c] # users[me[c]].role => c \in straddling.calls

\* The token a caller came with.
Uses(c) ==
    /\ pc[c] \in {"role", "revoke", "rotate"} => IsRow(tok[c])
    /\ Refreshing(c, {"role", "revoke", "rotate"}) => me[c] = tokens[tok[c]].user
    /\ pc[c] = "rotate" =>
          \/ tokens[tok[c]].revoked
          \/ tokenLock[tok[c]] = c /\ tokensW[tok[c]].revoked
    /\ op[c] = "Refresh" /\ late[c] => pc[c] = "find" /\ IsClosed(tok[c])

\* The token a caller has made.
Makes(c) ==
    pc[c] = "commit" /\ op[c] # "Logout" =>
        /\ fresh[c] \in TokenIDs /\ tokenLock[fresh[c]] = c
        /\ tokensW[fresh[c]] # None
        /\ signed[c] \in AccessToken
        /\ signed[c].expires <= clock + AccessLifetime
        /\ signed[c].role # users[tokensW[fresh[c]].user].role => c \in straddling.calls

CallInv(c) == IsPlaced(c) /\ ActsFor(c) /\ Uses(c) /\ Makes(c)

\* A token with a role that the table does not have any more was handed out
\* before the change, or by a call that straddles it.
StaleTokensDie ==
    \A t \in TokenIDs :
        IsHeld(t) /\ grants[t].role # users[tokens[t].user].role =>
            \/ t \in straddling.tokens
            \/ grants[t].expires <= changedAt[tokens[t].user] + AccessLifetime

SessionsInv ==
    TypeOK /\ RowsInv /\ StaleTokensDie /\ \A c \in Callers : CallInv(c)

-----------------------------------------------------------------------------
(* The other callers are left alone.                                       *)

\* A step of c changes no variable of another caller ...
OtherCalls(c) ==
    \A d \in Callers \ {c} :
        /\ pc'[d] = pc[d] /\ op'[d] = op[d] /\ tok'[d] = tok[d] /\ me'[d] = me[d]
        /\ role'[d] = role[d] /\ late'[d] = late[d] /\ fresh'[d] = fresh[d]
        /\ signed'[d] = signed[d] /\ email'[d] = email[d] /\ secret'[d] = secret[d]
        /\ d \in straddling.calls <=> d \in straddling'.calls

\* ... nor a row it has locked; and a row that can be seen stays what it is,
\* except that it may get revoked.
OtherRows(c) ==
    /\ clock' = clock
    /\ \A u \in UserIDs : users[u] # None => users'[u] = users[u]
    /\ \A t \in TokenIDs :
          /\ tokens[t] # None => tokens'[t] # None /\ SameToken(tokens[t], tokens'[t])
          /\ tokenLock[t] \notin {None, c} =>
                tokenLock'[t] = tokenLock[t] /\ tokensW'[t] = tokensW[t]

\* The rows that a caller's part of the invariant speaks of are rows.
LEMMA OthersKeepTheirPart ==
    ASSUME SessionsInv, NEW c \in Callers, OtherCalls(c), OtherRows(c),
           NEW d \in Callers \ {c}
    PROVE  CallInv(d)'
<1> USE AccountsAssumption, SessionsAssumption
<1>1. TypeOK /\ RowsInv /\ CallInv(d)
  BY DEF SessionsInv
<1>2. /\ pc'[d] = pc[d] /\ op'[d] = op[d] /\ tok'[d] = tok[d] /\ me'[d] = me[d]
      /\ role'[d] = role[d] /\ late'[d] = late[d] /\ fresh'[d] = fresh[d]
      /\ signed'[d] = signed[d] /\ email'[d] = email[d] /\ secret'[d] = secret[d]
      /\ d \in straddling.calls <=> d \in straddling'.calls
  BY DEF OtherCalls
<1>3. IsPlaced(d)'
  BY <1>1, <1>2 DEF CallInv, IsPlaced
<1>4. ActsFor(d)'
  BY <1>1, <1>2 DEF CallInv, ActsFor, Refreshing, OtherRows
<1>5. \A t \in TokenIDs : IsRow(t) => IsRow(t)' /\ SameToken(tokens[t], tokens'[t])
  BY DEF OtherRows, IsRow
<1>6. \A t : IsClosed(t) => IsClosed(t)'
  BY <1>5 DEF IsClosed, IsRevoked, IsExpired, IsRow, SameToken, OtherRows
<1>7. Uses(d)'
  <2>1. pc[d] \in {"role", "revoke", "rotate"} => tok[d] \in TokenIDs /\ IsRow(tok[d])
    BY <1>1 DEF CallInv, Uses, IsRow
  <2>2. tokenLock[tok[d]] = d /\ tok[d] \in TokenIDs =>
           tokenLock'[tok[d]] = d /\ tokensW'[tok[d]] = tokensW[tok[d]]
    BY DEF OtherRows
  <2> QED
    BY <1>1, <1>2, <1>5, <1>6, <2>1, <2>2 DEF CallInv, Uses, Refreshing, SameToken
<1>8. Makes(d)'
  <2>1. SUFFICES ASSUME pc[d] = "commit", op[d] # "Logout"
                 PROVE  Makes(d)'
    BY <1>2 DEF Makes
  <2>2. /\ fresh[d] \in TokenIDs /\ tokenLock[fresh[d]] = d
        /\ tokensW[fresh[d]] # None
    BY <1>1, <2>1 DEF CallInv, Makes
  <2>3. tokenLock'[fresh[d]] = d /\ tokensW'[fresh[d]] = tokensW[fresh[d]]
    BY <2>2 DEF OtherRows
  <2>4. LET u == tokensW[fresh[d]].user IN u \in UserIDs /\ users'[u] = users[u]
    BY <1>1, <2>2 DEF RowsInv, TokenRowsInv, TypeOK, TokenRow, OtherRows
  <2> QED
    BY <1>1, <1>2, <2>2, <2>3, <2>4 DEF CallInv, Makes, OtherRows
<1> QED
  BY <1>3, <1>4, <1>7, <1>8 DEF CallInv

LEMMA Preserved ==
    ASSUME SessionsInv, NEW c \in Callers, OtherCalls(c), OtherRows(c),
           TypeOK', RowsInv', StaleTokensDie', CallInv(c)'
    PROVE  SessionsInv'
BY OthersKeepTheirPart DEF SessionsInv

-----------------------------------------------------------------------------
(* Steps that only touch the variables of their caller.                    *)

LEMMA OwnVariablesStep ==
    ASSUME SessionsInv, NEW c \in Callers, OtherCalls(c),
           UNCHANGED <<accounts, sessions, changedAt>>,
           straddling'.tokens = straddling.tokens,
           pc[c] \notin {"registered", "rotate", "commit"},
           TypeOK', CallInv(c)'
    PROVE  SessionsInv'
<1> USE AccountsAssumption, SessionsAssumption
<1>1. TypeOK /\ RowsInv /\ StaleTokensDie
  BY DEF SessionsInv
<1>2. OtherRows(c)
  BY DEF OtherRows, accounts, sessions, SameToken
<1>3. \A d \in Callers : d # c => pc'[d] = pc[d]
  BY DEF OtherCalls
<1>4. UserInv'
  BY <1>1, <1>3 DEF RowsInv, UserInv, accounts, TypeOK
<1>5. TokenRowsInv'
  BY <1>1, <1>3 DEF RowsInv, TokenRowsInv, accounts, sessions, TypeOK, SameToken
<1>6. ParentInv' /\ GrantsInv'
  BY <1>1 DEF RowsInv, ParentInv, GrantsInv, IsHeld, sessions
<1>7. StaleTokensDie'
  BY <1>1 DEF StaleTokensDie, IsHeld, accounts, sessions
<1> QED
  BY <1>2, <1>4, <1>5, <1>6, <1>7, Preserved DEF RowsInv

LEMMA AccountsBeginPreserves ==
    ASSUME SessionsInv, NEW c \in Callers, AccountsBegin(c),
           UNCHANGED <<sessions, token, history>>
    PROVE  SessionsInv'
<1> USE AccountsAssumption, SessionsAssumption
<1>1. TypeOK /\ CallInv(c)
  BY DEF SessionsInv
<1>2. PICK e \in Spellings, p \in Passwords, m \in {"Register", "Login"},
           l \in {"register", "login"} :
        /\ m = "Register" <=> l = "register"
        /\ Call(c, m, l)
        /\ email' = [email EXCEPT ![c] = e] /\ secret' = [secret EXCEPT ![c] = p]
        /\ UNCHANGED accounts
  BY DEF AccountsBegin, RegisterBegin, LoginBegin
<1>3. TypeOK'
  BY <1>1, <1>2 DEF TypeOK, Call, accounts, sessions, token, history, NoReply
<1>4. OtherCalls(c)
  BY <1>1, <1>2 DEF OtherCalls, Call, TypeOK, token, history
<1>5. CallInv(c)'
  BY <1>1, <1>2 DEF CallInv, IsPlaced, ActsFor, Refreshing, Uses, Makes, Call, TypeOK,
     token, history
<1>6. pc[c] = "idle"
  BY <1>2 DEF Call
<1> QED
  BY <1>2, <1>3, <1>4, <1>5, <1>6, OwnVariablesStep DEF history

LEMMA TokenCallPreserves ==
    ASSUME SessionsInv, NEW c \in Callers, NEW m \in {"Refresh", "Logout"},
           TokenCall(c, m)
    PROVE  SessionsInv'
<1> USE AccountsAssumption, SessionsAssumption
<1>1. TypeOK /\ RowsInv /\ CallInv(c)
  BY DEF SessionsInv
<1>2. PICK t \in {u \in TokenIDs : IsHeld(u)} \cup {Unknown} :
        /\ Call(c, m, "find")
        /\ tok' = [tok EXCEPT ![c] = t]
        /\ late' = [late EXCEPT ![c] = ~IsUsable(t)]
        /\ UNCHANGED <<accounts, email, secret, sessions, fresh, signed>>
        /\ UNCHANGED <<straddling, changedAt>>
  BY DEF TokenCall
<1>3. TypeOK'
  <2>1. IsUsable(t) \in BOOLEAN
    BY DEF IsUsable, IsRow
  <2> QED
    BY <1>1, <1>2, <2>1 DEF TypeOK, Call, accounts, sessions, NoReply
<1>4. OtherCalls(c)
  BY <1>1, <1>2 DEF OtherCalls, Call, TypeOK
<1>5. ~IsUsable(t) => IsClosed(t)
  BY <1>1 DEF IsUsable, IsClosed, IsRevoked, RowsInv, GrantsInv, IsRow, Unknown, TokenIDs
<1>6. late'[c] => IsClosed(t)'
  BY <1>1, <1>2, <1>5
     DEF TypeOK, IsClosed, IsRevoked, IsExpired, IsRow, sessions
<1>7. CallInv(c)'
  BY <1>1, <1>2, <1>6 DEF CallInv, IsPlaced, ActsFor, Refreshing, Uses, Makes, Call, TypeOK
<1>8. pc[c] = "idle"
  BY <1>2 DEF Call
<1> QED
  BY <1>2, <1>3, <1>4, <1>7, <1>8, OwnVariablesStep

LEMMA AnsweredPreserves ==
    ASSUME SessionsInv, NEW c \in Callers, RefuseBody(c) \/ Admin(c)
    PROVE  SessionsInv'
<1> USE AccountsAssumption, SessionsAssumption
<1>1. TypeOK /\ CallInv(c)
  BY DEF SessionsInv
<1>2. PICK status \in Statuses : pc[c] = "idle" /\ Answered(c, status)
  BY DEF RefuseBody, Admin, EmptyAnswer, Statuses
<1>3. TypeOK'
  BY <1>1, <1>2 DEF TypeOK, Answered, accounts, sessions, token, history
<1>4. OtherCalls(c)
  BY <1>1, <1>2 DEF OtherCalls, Answered, token, history
<1>5. CallInv(c)'
  BY <1>1, <1>2 DEF CallInv, IsPlaced, ActsFor, Refreshing, Uses, Makes, Answered, token,
     history
<1> QED
  BY <1>2, <1>3, <1>4, <1>5, OwnVariablesStep DEF history, Answered

\* A call that has written nothing ends with an answer.
LEMMA AnswerPreserves ==
    ASSUME SessionsInv, NEW c \in Callers, NEW status \in Statuses,
           pc[c] \in {"register", "login"}, Answer(c, status),
           straddling' = [straddling EXCEPT !.calls = @ \ {c}],
           UNCHANGED <<accounts, sessions, token, late, changedAt>>
    PROVE  SessionsInv'
<1> USE AccountsAssumption, SessionsAssumption
<1>1. TypeOK /\ CallInv(c)
  BY DEF SessionsInv
<1>2. TypeOK'
  BY <1>1 DEF TypeOK, Answer, NoUser, accounts, sessions, token
<1>3. OtherCalls(c)
  BY <1>1 DEF OtherCalls, Answer, token, TypeOK
<1>4. CallInv(c)'
  BY <1>1 DEF CallInv, IsPlaced, ActsFor, Refreshing, Uses, Makes, Answer, TypeOK, token
<1>5. straddling'.tokens = straddling.tokens
  BY <1>1 DEF TypeOK
<1> QED
  BY <1>2, <1>3, <1>4, <1>5, OwnVariablesStep

LEMMA LoginCheckPreserves ==
    ASSUME SessionsInv, NEW c \in Callers, AccountStep(c), LoginCheck(c)
    PROVE  SessionsInv'
<1> USE AccountsAssumption, SessionsAssumption
<1>1. TypeOK /\ CallInv(c)
  BY DEF SessionsInv
<1>2. /\ pc[c] = "login"
      /\ straddling' = [straddling EXCEPT
                          !.calls = IF pc'[c] = "idle" THEN @ \ {c} ELSE @]
      /\ UNCHANGED <<accounts, sessions, token, late, changedAt>>
  BY DEF AccountStep, LoginCheck
<1>3. CASE \E status \in Statuses : Answer(c, status)
  <2>1. pc'[c] = "idle"
    BY <1>1, <1>3 DEF Answer, TypeOK
  <2> QED
    BY <1>2, <1>3, <2>1, AnswerPreserves
<1>4. CASE \E u \in AccountsOf(StoredAddress(email[c])) :
              /\ me' = [me EXCEPT ![c] = u]
              /\ role' = [role EXCEPT ![c] = users[u].role]
              /\ Goto(c, "create")
              /\ UNCHANGED <<op, reply, email, secret>>
  <2>1. PICK u \in UserIDs :
              /\ users[u] # None
              /\ me' = [me EXCEPT ![c] = u]
              /\ role' = [role EXCEPT ![c] = users[u].role]
              /\ Goto(c, "create")
              /\ UNCHANGED <<op, reply, email, secret>>
    BY <1>4 DEF AccountsOf
  <2>2. users[u].role \in Roles
    BY <1>1, <2>1 DEF TypeOK, UserRow
  <2>3. UNCHANGED straddling
    BY <1>1, <1>2, <2>1 DEF TypeOK, Goto
  <2>4. TypeOK'
    BY <1>1, <1>2, <2>1, <2>2, <2>3 DEF TypeOK, Goto, accounts, sessions, token
  <2>5. OtherCalls(c)
    BY <1>1, <1>2, <2>1, <2>3 DEF OtherCalls, Goto, token, TypeOK
  <2>6. CallInv(c)'
    BY <1>1, <1>2, <2>1, <2>2, <2>3 DEF CallInv, IsPlaced, ActsFor, Refreshing, Uses, Makes,
       Goto, TypeOK, token, accounts
  <2> QED
    BY <1>2, <2>3, <2>4, <2>5, <2>6, OwnVariablesStep
<1> QED
  BY <1>3, <1>4 DEF LoginCheck, Statuses

LEMMA RefreshFindPreserves ==
    ASSUME SessionsInv, NEW c \in Callers, op[c] = "Refresh", pc[c] = "find",
           IsUsable(tok[c]),
           me' = [me EXCEPT ![c] = tokens[tok[c]].user],
           Goto(c, "role"),
           UNCHANGED <<op, reply, email, secret, role, token, history>>,
           UNCHANGED <<accounts, sessions>>
    PROVE  SessionsInv'
<1> USE AccountsAssumption, SessionsAssumption
<1>1. TypeOK /\ RowsInv /\ CallInv(c)
  BY DEF SessionsInv
<1>2. /\ tok[c] \in TokenIDs /\ tokens[tok[c]] # None
      /\ tokens[tok[c]].user \in UserIDs /\ users[tokens[tok[c]].user] # None
  BY <1>1 DEF IsUsable, IsRow, TypeOK, TokenRow, RowsInv, TokenRowsInv, SameToken
<1>3. ~late[c]
  BY <1>1 DEF CallInv, Uses, IsClosed, IsUsable, IsRow, IsRevoked
<1>4. TypeOK'
  BY <1>1, <1>2 DEF TypeOK, Goto, accounts, sessions, token, history
<1>5. OtherCalls(c)
  BY <1>1 DEF OtherCalls, Goto, token, history, TypeOK
<1>6. CallInv(c)'
  BY <1>1, <1>2, <1>3 DEF CallInv, IsPlaced, ActsFor, Refreshing, Uses, Makes,
     Goto, TypeOK, token, history, accounts, sessions, IsRow
<1> QED
  BY <1>4, <1>5, <1>6, OwnVariablesStep DEF history

LEMMA RefreshRolePreserves ==
    ASSUME SessionsInv, NEW c \in Callers, RefreshRole(c)
    PROVE  SessionsInv'
<1> USE AccountsAssumption, SessionsAssumption
<1>1. TypeOK /\ RowsInv /\ CallInv(c)
  BY DEF SessionsInv
<1>2. pc[c] = "role" /\ op[c] = "Refresh"
  BY <1>1 DEF RefreshRole, CallInv, IsPlaced
<1>3. users[me[c]].role \in Roles
  BY <1>1, <1>2 DEF CallInv, ActsFor, Refreshing, TypeOK, UserRow
<1>4. TypeOK'
  BY <1>1, <1>3 DEF TypeOK, RefreshRole, Goto, accounts, sessions, token, history
<1>5. OtherCalls(c)
  BY <1>1 DEF OtherCalls, RefreshRole, Goto, token, history, TypeOK
<1>6. CallInv(c)'
  BY <1>1, <1>2, <1>3 DEF CallInv, IsPlaced, ActsFor, Refreshing, Uses, Makes,
     RefreshRole, Goto, TypeOK, token, history, accounts, sessions, IsRow
<1> QED
  BY <1>2, <1>4, <1>5, <1>6, OwnVariablesStep DEF history, RefreshRole

LEMMA LogoutFindPreserves ==
    ASSUME SessionsInv, NEW c \in Callers, op[c] = "Logout", pc[c] = "find",
           IsRow(tok[c]),
           Goto(c, IF IsRevoked(tok[c]) THEN "commit" ELSE "revoke"),
           UNCHANGED <<op, reply, email, secret, me, role, token, history>>,
           UNCHANGED <<accounts, sessions>>
    PROVE  SessionsInv'
<1> USE AccountsAssumption, SessionsAssumption
<1>1. TypeOK /\ CallInv(c)
  BY DEF SessionsInv
<1>2. TypeOK'
  BY <1>1 DEF TypeOK, Goto, accounts, sessions, token, history
<1>3. OtherCalls(c)
  BY <1>1 DEF OtherCalls, Goto, token, history, TypeOK
<1>4. CallInv(c)'
  BY <1>1 DEF CallInv, IsPlaced, ActsFor, Refreshing, Uses, Makes,
     Goto, TypeOK, token, history, accounts, sessions, IsRow
<1> QED
  BY <1>2, <1>3, <1>4, OwnVariablesStep DEF history

-----------------------------------------------------------------------------
(* The end of a transaction.                                               *)

LEMMA FailPreserves ==
    ASSUME SessionsInv, NEW c \in Callers, NEW status \in Statuses,
           pc[c] # "idle", Fail(c, status)
    PROVE  SessionsInv'
<1> USE AccountsAssumption, SessionsAssumption
<1>1. TypeOK /\ RowsInv /\ StaleTokensDie /\ CallInv(c)
  BY DEF SessionsInv
<1>2. /\ Answer(c, status) /\ ForgetUsers(c) /\ ForgetTokens(c) /\ Drop(c)
      /\ straddling' = [straddling EXCEPT !.calls = @ \ {c}]
      /\ UNCHANGED grants
  BY DEF Fail
<1>3. TypeOK'
  BY <1>1, <1>2
     DEF TypeOK, Answer, ForgetUsers, ForgetTokens, Drop, NoUser, NoToken
<1>4. OtherCalls(c)
  BY <1>1, <1>2 DEF OtherCalls, Answer, Drop, TypeOK
<1>5. OtherRows(c)
  BY <1>1, <1>2 DEF OtherRows, ForgetUsers, ForgetTokens, SameToken, TypeOK
<1>6. \A d \in Callers : d # c => pc'[d] = pc[d]
  BY <1>4 DEF OtherCalls
<1>7. UserInv'
  BY <1>1, <1>2, <1>6 DEF RowsInv, UserInv, ForgetUsers, TypeOK
<1>8. TokenRowsInv'
  BY <1>1, <1>2, <1>6
     DEF RowsInv, TokenRowsInv, ForgetTokens, ForgetUsers, SameToken, TypeOK
<1>9. ParentInv'
  BY <1>1, <1>2
     DEF RowsInv, TokenRowsInv, ParentInv, ForgetTokens, SameToken, TypeOK, TokenRow
<1>10. GrantsInv' /\ StaleTokensDie'
  BY <1>1, <1>2 DEF RowsInv, GrantsInv, StaleTokensDie, IsHeld, ForgetTokens, ForgetUsers,
     Drop, TypeOK
<1>11. CallInv(c)'
  BY <1>1, <1>2 DEF CallInv, IsPlaced, ActsFor, Refreshing, Uses, Makes, Answer, Drop, TypeOK
<1> QED
  BY <1>3, <1>4, <1>5, <1>7, <1>8, <1>9, <1>10, <1>11, Preserved DEF RowsInv

\* A commit, whether the client learns of it or not.
LEMMA PublishPreserves ==
    ASSUME SessionsInv, NEW c \in Callers, NEW status \in Statuses,
           Publish(c, status),
           \/ op[c] # "Logout" /\ Deliver(c)
           \/ /\ straddling' = [straddling EXCEPT !.calls = @ \ {c}]
              /\ UNCHANGED grants
    PROVE  SessionsInv'
<1> USE AccountsAssumption, SessionsAssumption
<1>1. TypeOK /\ RowsInv /\ StaleTokensDie /\ CallInv(c)
  BY DEF SessionsInv
<1>2. /\ pc[c] = "commit" /\ PublishTokens(c) /\ Answer(c, status) /\ Drop(c)
      /\ UNCHANGED accounts
  BY DEF Publish
<1>3. op[c] # "Logout" =>
        /\ fresh[c] \in TokenIDs /\ tokenLock[fresh[c]] = c
        /\ tokensW[fresh[c]] # None
        /\ signed[c] \in AccessToken
        /\ signed[c].expires <= clock + AccessLifetime
        /\ signed[c].role # users[tokensW[fresh[c]].user].role => c \in straddling.calls
  BY <1>1, <1>2 DEF CallInv, Makes
<1>4. TypeOK'
  <2>1. grants' \in [TokenIDs -> AccessToken \cup {None}]
    BY <1>1, <1>3 DEF Deliver, TypeOK
  <2>2. straddling' \in [calls : SUBSET Callers, tokens : SUBSET TokenIDs]
    BY <1>1, <1>3 DEF Deliver, TypeOK
  <2> QED
    BY <1>1, <1>2, <2>1, <2>2
       DEF TypeOK, Answer, PublishTokens, Drop, NoUser, NoToken, accounts
<1>5. OtherCalls(c)
  BY <1>1, <1>2 DEF OtherCalls, Answer, Drop, Deliver, TypeOK
<1>6. \A t \in TokenIDs : tokens[t] # None =>
         tokens'[t] # None /\ SameToken(tokens[t], tokens'[t])
  BY <1>1, <1>2 DEF PublishTokens, RowsInv, TokenRowsInv, SameToken, TypeOK
<1>7. OtherRows(c)
  BY <1>1, <1>2, <1>6 DEF OtherRows, PublishTokens, accounts, TypeOK
<1>8. \A d \in Callers : d # c => pc'[d] = pc[d]
  BY <1>5 DEF OtherCalls
<1>9. UserInv'
  BY <1>1, <1>2, <1>8 DEF RowsInv, UserInv, accounts, TypeOK
<1>10. TokenRowsInv'
  BY <1>1, <1>2, <1>8
     DEF RowsInv, TokenRowsInv, PublishTokens, SameToken, TypeOK, accounts
<1>11. ParentInv'
  BY <1>1, <1>2
     DEF RowsInv, TokenRowsInv, ParentInv, PublishTokens, SameToken, TypeOK, TokenRow
<1>12. \A t \in TokenIDs : IsHeld(t)' =>
          \/ IsHeld(t) /\ grants'[t] = grants[t]
          \/ /\ op[c] # "Logout" /\ Deliver(c) /\ t = fresh[c]
             /\ grants'[t] = signed[c] /\ tokens'[t] = tokensW[t]
  BY <1>1, <1>2, <1>3 DEF IsHeld, Deliver, TypeOK, PublishTokens
<1>13. GrantsInv'
  <2>1. clock' = clock
    BY <1>2 DEF PublishTokens
  <2> QED
    BY <1>1, <1>3, <1>6, <1>12, <2>1 DEF RowsInv, GrantsInv
<1>14. StaleTokensDie'
  <2>1. users' = users /\ changedAt' = changedAt
    BY <1>2 DEF accounts, Drop
  <2>2. straddling.tokens \subseteq straddling'.tokens
    BY <1>1 DEF Deliver, TypeOK
  <2>3. SUFFICES ASSUME NEW t \in TokenIDs, IsHeld(t)',
                        grants'[t].role # users[tokens'[t].user].role
                 PROVE  \/ t \in straddling'.tokens
                        \/ grants'[t].expires <=
                              changedAt[tokens'[t].user] + AccessLifetime
    BY <2>1 DEF StaleTokensDie
  <2>4. CASE IsHeld(t) /\ grants'[t] = grants[t]
    <3>1. tokens'[t].user = tokens[t].user
      BY <1>1, <1>6, <2>4 DEF RowsInv, GrantsInv, SameToken
    <3> QED
      BY <1>1, <2>2, <2>3, <2>4, <3>1 DEF StaleTokensDie
  <2>5. CASE /\ op[c] # "Logout" /\ Deliver(c) /\ t = fresh[c]
             /\ grants'[t] = signed[c] /\ tokens'[t] = tokensW[t]
    <3>1. c \in straddling.calls
      BY <1>3, <2>3, <2>5
    <3> QED
      BY <2>5, <3>1 DEF Deliver
  <2> QED
    BY <1>12, <2>3, <2>4, <2>5
<1>15. CallInv(c)'
  BY <1>1, <1>2, <1>3
     DEF CallInv, IsPlaced, ActsFor, Refreshing, Uses, Makes, Answer, Drop, Deliver, TypeOK
<1> QED
  BY <1>4, <1>5, <1>7, <1>9, <1>10, <1>11, <1>13, <1>14, <1>15, Preserved DEF RowsInv

LEMMA RegisteredEndPreserves ==
    ASSUME SessionsInv, NEW c \in Callers, NEW status \in Statuses,
           pc[c] = "registered", PublishUsers(c), Answer(c, status),
           straddling' = [straddling EXCEPT !.calls = @ \ {c}],
           UNCHANGED <<sessions, token, late, changedAt>>
    PROVE  SessionsInv'
<1> USE AccountsAssumption, SessionsAssumption
<1>1. TypeOK /\ RowsInv /\ StaleTokensDie /\ CallInv(c)
  BY DEF SessionsInv
<1>2. TypeOK'
  BY <1>1 DEF TypeOK, Answer, PublishUsers, NoUser, sessions, token
<1>3. OtherCalls(c)
  BY <1>1 DEF OtherCalls, Answer, token, TypeOK
<1>4. \A u \in UserIDs : users[u] # None => users'[u] = users[u]
  BY <1>1 DEF PublishUsers, RowsInv, UserInv, TypeOK
<1>5. OtherRows(c)
  BY <1>4 DEF OtherRows, sessions, SameToken
<1>6. \A d \in Callers : d # c => pc'[d] = pc[d]
  BY <1>3 DEF OtherCalls
<1>7. UserInv'
  BY <1>1, <1>6 DEF RowsInv, UserInv, PublishUsers, TypeOK
<1>8. TokenRowsInv'
  BY <1>1, <1>4, <1>6 DEF RowsInv, TokenRowsInv, SameToken, sessions, TypeOK, TokenRow
<1>9. ParentInv' /\ GrantsInv'
  BY <1>1 DEF RowsInv, ParentInv, GrantsInv, IsHeld, sessions
<1>10. StaleTokensDie'
  <2>1. \A t \in TokenIDs : IsHeld(t) => users'[tokens[t].user] = users[tokens[t].user]
    BY <1>1, <1>4
       DEF RowsInv, GrantsInv, TokenRowsInv, SameToken, TypeOK, TokenRow
  <2>2. straddling'.tokens = straddling.tokens
    BY <1>1 DEF TypeOK
  <2> QED
    BY <1>1, <2>1, <2>2 DEF StaleTokensDie, IsHeld, sessions
<1>11. CallInv(c)'
  BY <1>1 DEF CallInv, IsPlaced, ActsFor, Refreshing, Uses, Makes, Answer, TypeOK, token
<1> QED
  BY <1>2, <1>3, <1>5, <1>7, <1>8, <1>9, <1>10, <1>11, Preserved DEF RowsInv

-----------------------------------------------------------------------------
(* Statements that write rows.                                             *)

\* The address is in no version of another row: not in one that is visible, for
\* UNIQUE; not in one being inserted, for that is waited for.
LEMMA RegisterInsertPreserves ==
    ASSUME SessionsInv, NEW c \in Callers, AccountStep(c), RegisterInsert(c)
    PROVE  SessionsInv'
<1> USE AccountsAssumption, SessionsAssumption
<1>1. TypeOK /\ RowsInv /\ StaleTokensDie /\ CallInv(c)
  BY DEF SessionsInv
<1>2. /\ pc[c] = "register"
      /\ ~Contested(c, StoredAddress(email[c]))
      /\ straddling' = [straddling EXCEPT
                          !.calls = IF pc'[c] = "idle" THEN @ \ {c} ELSE @]
      /\ UNCHANGED <<sessions, token, late, changedAt>>
  BY DEF AccountStep, RegisterInsert
<1>3. CASE Answer(c, 500) /\ UNCHANGED accounts
  <2>1. pc'[c] = "idle"
    BY <1>1, <1>3 DEF Answer, TypeOK
  <2> QED
    BY <1>2, <1>3, <2>1, AnswerPreserves DEF Statuses
<1>4. CASE /\ AccountsOf(StoredAddress(email[c])) = {} /\ nextUser \in UserIDs
           /\ InsertUser(c, NewAccount(c))
           /\ Goto(c, "registered")
           /\ UNCHANGED <<op, reply, email, secret, me, role>>
  <2> DEFINE new == NewAccount(c)
  <2>1. email[c] \in Spellings /\ secret[c] \in Passwords /\ op[c] = "Register"
    BY <1>1, <1>2 DEF CallInv, IsPlaced
  <2>2. new \in UserRow /\ new.email \in Addresses /\ new # None
    BY <2>1 DEF NewAccount, StoredAddress, UserRow, Roles
  <2>3. UNCHANGED straddling
    BY <1>1, <1>2, <1>4 DEF Goto, TypeOK
  <2>4. TypeOK'
    <3>1. usersW' \in [UserIDs -> UserRow \cup {None}]
      BY <1>1, <1>4, <2>2 DEF InsertUser, TypeOK
    <3>2. userLock' \in [UserIDs -> Callers \cup {None}] /\ nextUser' \in 1..(MaxUsers + 1)
      BY <1>1, <1>4 DEF InsertUser, TypeOK, UserIDs
    <3> QED
      BY <1>1, <1>2, <1>4, <2>3, <3>1, <3>2
         DEF TypeOK, InsertUser, Goto, sessions, token
  <2>5. OtherCalls(c)
    BY <1>1, <1>2, <1>4, <2>3 DEF OtherCalls, Goto, token, TypeOK
  <2>6. OtherRows(c)
    BY <1>2, <1>4 DEF OtherRows, InsertUser, sessions, SameToken
  <2>7. \A d \in Callers : d # c => pc'[d] = pc[d]
    BY <2>5 DEF OtherCalls
  <2>8. \A u \in UserIDs : usersW[u] # None => usersW[u].email # new.email
    <3>1. SUFFICES ASSUME NEW u \in UserIDs, usersW[u] # None
                   PROVE  usersW[u].email # new.email
      OBVIOUS
    <3>2. new.email = StoredAddress(email[c])
      BY DEF NewAccount
    <3>3. CASE userLock[u] = None
      BY <1>1, <1>4, <3>1, <3>2, <3>3 DEF RowsInv, UserInv, AccountsOf
    <3>4. CASE userLock[u] # None
      BY <1>1, <1>2, <3>1, <3>2, <3>4 DEF RowsInv, UserInv, Contested
    <3> QED
      BY <3>3, <3>4
  <2>9. usersW[nextUser] = None /\ userLock[nextUser] = None
    BY <1>1, <1>4 DEF RowsInv, UserInv, UserIDs
  <2>10. UserInv'
    <3>1. /\ usersW' = [usersW EXCEPT ![nextUser] = new]
          /\ userLock' = [userLock EXCEPT ![nextUser] = c]
          /\ nextUser' = nextUser + 1 /\ users' = users
          /\ pc' = [pc EXCEPT ![c] = "registered"]
      BY <1>4 DEF InsertUser, Goto
    <3> HIDE DEF new
    <3> QED
      BY <1>1, <1>4, <2>2, <2>7, <2>8, <2>9, <3>1 DEF RowsInv, UserInv, TypeOK, UserIDs
  <2>11. TokenRowsInv'
    BY <1>1, <1>2, <1>4, <2>7
       DEF RowsInv, TokenRowsInv, SameToken, sessions, TypeOK, InsertUser
  <2>12. ParentInv' /\ GrantsInv' /\ StaleTokensDie'
    BY <1>1, <1>2, <1>4, <2>3
       DEF RowsInv, ParentInv, GrantsInv, StaleTokensDie, IsHeld, sessions, InsertUser
  <2>13. CallInv(c)'
    BY <1>1, <1>2, <1>4, <2>1, <2>3
       DEF CallInv, IsPlaced, ActsFor, Refreshing, Uses, Makes, Goto, TypeOK, token
  <2> QED
    BY <2>4, <2>5, <2>6, <2>10, <2>11, <2>12, <2>13, Preserved DEF RowsInv
<1> QED
  BY <1>3, <1>4 DEF RegisterInsert

\* The row is visible and nobody has locked it, so no row that is being created
\* relies on it.
LEMMA RevokePreserves ==
    ASSUME SessionsInv, NEW c \in Callers, pc[c] = "revoke", RevokeRow(c, tok[c]),
           \/ op[c] = "Refresh" /\ Goto(c, "rotate")
           \/ op[c] = "Logout" /\ Goto(c, "commit"),
           UNCHANGED <<op, reply, email, secret, me, role, token, history, accounts>>
    PROVE  SessionsInv'
<1> USE AccountsAssumption, SessionsAssumption
<1> DEFINE t0 == tok[c]
<1>1. TypeOK /\ RowsInv /\ StaleTokensDie /\ CallInv(c)
  BY DEF SessionsInv
<1>2. /\ t0 \in TokenIDs /\ tokens[t0] # None /\ tokenLock[t0] = None
      /\ tokensW[t0] = tokens[t0] /\ tokens[t0] \in TokenRow
  BY <1>1 DEF CallInv, Uses, IsRow, RevokeRow, RowsInv, TokenRowsInv, TypeOK
<1>3. /\ UNCHANGED <<tokens, nextToken, clock, grants>>
      /\ \/ tokens[t0].revoked /\ UNCHANGED <<tokensW, tokenLock>>
         \/ /\ tokensW' = [tokensW EXCEPT ![t0] = [tokens[t0] EXCEPT !.revoked = TRUE]]
            /\ tokenLock' = [tokenLock EXCEPT ![t0] = c]
  BY <1>1, <1>2 DEF RevokeRow, TypeOK
<1>4. PICK row \in TokenRow :
         /\ row.revoked
         /\ row.user = tokens[t0].user /\ row.expires = tokens[t0].expires
         /\ row.parent = tokens[t0].parent
         /\ \/ tokens[t0].revoked /\ UNCHANGED <<tokensW, tokenLock>>
            \/ /\ tokensW' = [tokensW EXCEPT ![t0] = row]
               /\ tokenLock' = [tokenLock EXCEPT ![t0] = c]
  <2> DEFINE revoked == [tokens[t0] EXCEPT !.revoked = TRUE]
  <2>1. /\ revoked \in TokenRow /\ revoked.revoked
        /\ revoked.user = tokens[t0].user /\ revoked.expires = tokens[t0].expires
        /\ revoked.parent = tokens[t0].parent
    BY <1>2 DEF TokenRow
  <2> HIDE DEF revoked
  <2>2. \/ tokens[t0].revoked /\ UNCHANGED <<tokensW, tokenLock>>
        \/ /\ tokensW' = [tokensW EXCEPT ![t0] = revoked]
           /\ tokenLock' = [tokenLock EXCEPT ![t0] = c]
    BY <1>3 DEF revoked
  <2> QED
    BY <2>1, <2>2
<1> HIDE DEF t0
<1>5. row # None
  OBVIOUS
<1>6. TypeOK'
  <2>1. /\ tokensW' \in [TokenIDs -> TokenRow \cup {None}]
        /\ tokenLock' \in [TokenIDs -> Callers \cup {None}]
    <3>1. /\ tokensW \in [TokenIDs -> TokenRow \cup {None}]
          /\ tokenLock \in [TokenIDs -> Callers \cup {None}]
      BY <1>1 DEF TypeOK
    <3>2. [tokensW EXCEPT ![t0] = row] \in [TokenIDs -> TokenRow \cup {None}]
      BY <3>1
    <3>3. [tokenLock EXCEPT ![t0] = c] \in [TokenIDs -> Callers \cup {None}]
      BY <3>1
    <3> QED
      BY <1>4, <3>1, <3>2, <3>3
  <2>2. pc' \in [Callers -> {"idle", "register", "registered", "login", "create",
                            "find", "role", "revoke", "rotate", "commit"}]
    BY <1>1 DEF TypeOK, Goto
  <2> QED
    BY <1>1, <1>3, <2>1, <2>2 DEF TypeOK, accounts, token, history
<1>7. OtherCalls(c)
  BY <1>1 DEF OtherCalls, Goto, token, history, TypeOK
<1>8. OtherRows(c)
  BY <1>1, <1>2, <1>3, <1>4 DEF OtherRows, SameToken, accounts, TypeOK
<1>9. \A d \in Callers : d # c => pc'[d] = pc[d]
  BY <1>7 DEF OtherCalls
<1>10. UserInv'
  BY <1>1, <1>9 DEF RowsInv, UserInv, accounts, TypeOK
<1>11. TokenRowsInv'
  <2>1. pc'[c] \in {"rotate", "commit"}
    BY <1>1 DEF Goto, TypeOK
  <2>2. t0 < nextToken
    BY <1>1, <1>2 DEF RowsInv, TokenRowsInv, TypeOK, TokenIDs
  <2>3. TokenRowsInv /\ tokensW \in [TokenIDs -> TokenRow \cup {None}]
        /\ tokenLock \in [TokenIDs -> Callers \cup {None}]
    BY <1>1 DEF RowsInv, TypeOK
  <2>4. users' = users /\ tokens' = tokens /\ nextToken' = nextToken
    BY <1>3 DEF accounts
  <2>5. CASE UNCHANGED <<tokensW, tokenLock>>
    BY <1>9, <2>1, <2>3, <2>4, <2>5 DEF TokenRowsInv
  <2>6. CASE /\ tokensW' = [tokensW EXCEPT ![t0] = row]
             /\ tokenLock' = [tokenLock EXCEPT ![t0] = c]
    <3>1. \A t \in TokenIDs : t # t0 =>
             tokensW'[t] = tokensW[t] /\ tokenLock'[t] = tokenLock[t]
      BY <2>3, <2>6
    <3>2. tokensW'[t0] = row /\ tokenLock'[t0] = c
      BY <1>2, <2>3, <2>6
    <3>3. SameToken(tokens[t0], row) /\ users[row.user] # None
      BY <1>2, <1>4, <2>3 DEF SameToken, TokenRowsInv
    <3>4. t0 >= nextToken => FALSE
      BY <2>2, <1>1, <1>2 DEF TypeOK, TokenIDs
    <3>5. \A t \in TokenIDs : tokenLock'[t] # None =>
             pc'[tokenLock'[t]] \in {"rotate", "commit"}
      BY <1>1, <1>9, <2>1, <2>3, <3>1, <3>2 DEF TokenRowsInv
    <3> QED
      BY <1>2, <1>5, <2>3, <2>4, <3>1, <3>2, <3>3, <3>4, <3>5 DEF TokenRowsInv
  <2> QED
    BY <1>4, <2>5, <2>6
<1>12. ParentInv'
  <2>1. /\ tokensW \in [TokenIDs -> TokenRow \cup {None}]
        /\ tokenLock \in [TokenIDs -> Callers \cup {None}]
        /\ tokens' = tokens /\ TokenRowsInv /\ ParentInv
    BY <1>1, <1>3 DEF RowsInv, TypeOK
  <2>2. CASE UNCHANGED <<tokensW, tokenLock>>
    BY <2>1, <2>2 DEF ParentInv
  <2>3. CASE /\ tokensW' = [tokensW EXCEPT ![t0] = row]
             /\ tokenLock' = [tokenLock EXCEPT ![t0] = c]
    <3>1. \A t \in TokenIDs : t # t0 =>
             tokensW'[t] = tokensW[t] /\ tokenLock'[t] = tokenLock[t]
      BY <2>1, <2>3
    <3>2. tokensW'[t0] = row /\ tokenLock'[t0] = c
      BY <1>2, <2>1, <2>3
    <3>3. SUFFICES ASSUME NEW t \in TokenIDs,
                          tokensW'[t] # None, tokensW'[t].parent # NoToken
                   PROVE  LET p == tokensW'[t].parent
                          IN  /\ tokens[p] # None /\ tokensW'[p].revoked
                              /\ tokensW'[p].user = tokensW'[t].user
                              /\ \/ tokens[p].revoked
                                 \/ /\ tokens[t] = None
                                    /\ tokenLock'[t] # None
                                    /\ tokenLock'[p] = tokenLock'[t]
      BY <2>1 DEF ParentInv
    <3>4. /\ tokensW[t] # None /\ tokensW'[t].user = tokensW[t].user
          /\ tokensW'[t].parent = tokensW[t].parent
      BY <1>2, <1>4, <3>1, <3>2, <3>3
    <3> DEFINE p == tokensW[t].parent
    <3>5. p \in TokenIDs
      BY <2>1, <3>3, <3>4 DEF TokenRow
    <3>6. /\ tokens[p] # None /\ tokensW[p].revoked /\ tokensW[p].user = tokensW[t].user
          /\ \/ tokens[p].revoked
             \/ /\ tokens[t] = None /\ tokenLock[t] # None
                /\ tokenLock[p] = tokenLock[t]
      BY <2>1, <3>3, <3>4 DEF ParentInv
    <3> HIDE DEF p
    <3>7. tokensW'[p].revoked /\ tokensW'[p].user = tokensW'[t].user
      BY <1>2, <1>4, <3>1, <3>2, <3>4, <3>5, <3>6
    <3>8. \/ tokens[p].revoked
          \/ /\ tokens[t] = None /\ tokenLock'[t] # None
             /\ tokenLock'[p] = tokenLock'[t]
      BY <1>2, <3>1, <3>2, <3>5, <3>6
    <3> QED
      BY <3>4, <3>6, <3>7, <3>8 DEF p
  <2> QED
    BY <1>4, <2>2, <2>3
<1>13. GrantsInv' /\ StaleTokensDie'
  BY <1>1, <1>3 DEF RowsInv, GrantsInv, StaleTokensDie, IsHeld, accounts, history
<1>14. CallInv(c)'
  <2>1. op[c] = "Refresh" => ~late[c]
    BY <1>1 DEF CallInv, Uses
  <2>2. \/ tokens'[t0].revoked
        \/ tokenLock'[t0] = c /\ tokensW'[t0].revoked
    BY <1>1, <1>2, <1>3, <1>4 DEF TypeOK
  <2> QED
    BY <1>1, <1>2, <1>3, <2>1, <2>2
       DEF CallInv, IsPlaced, ActsFor, Refreshing, Uses, Makes, Goto, TypeOK, token, history,
           accounts, IsRow, t0
<1> QED
  BY <1>6, <1>7, <1>8, <1>10, <1>11, <1>12, <1>13, <1>14, Preserved DEF RowsInv

\* A new token: no row has its id yet, and the one it replaces is revoked, or is
\* by this very transaction.
LEMMA IssuePreserves ==
    ASSUME SessionsInv, NEW c \in Callers, NEW parent,
           \/ pc[c] = "create" /\ parent = NoToken
           \/ pc[c] = "rotate" /\ parent = tok[c],
           Issue(c, me[c], role[c], parent)
    PROVE  SessionsInv'
<1> USE AccountsAssumption, SessionsAssumption
<1>1. TypeOK /\ RowsInv /\ StaleTokensDie /\ CallInv(c)
  BY DEF SessionsInv
<1>2. CASE Fail(c, 500)
  BY <1>2, FailPreserves DEF Statuses
<1>3. SUFFICES ASSUME nextToken \in TokenIDs, ~Fail(c, 500)
               PROVE  SessionsInv'
  BY <1>2 DEF Issue
<1> DEFINE new == [user |-> me[c], expires |-> clock + RefreshLifetime,
                   revoked |-> FALSE, parent |-> parent]
           access == [role |-> role[c], expires |-> clock + AccessLifetime]
<1>4. /\ tokensW' = [tokensW EXCEPT ![nextToken] = new]
      /\ tokenLock' = [tokenLock EXCEPT ![nextToken] = c]
      /\ nextToken' = nextToken + 1
      /\ fresh' = [fresh EXCEPT ![c] = nextToken]
      /\ signed' = [signed EXCEPT ![c] = access]
      /\ pc' = [pc EXCEPT ![c] = "commit"]
      /\ UNCHANGED <<tokens, clock, grants, tok, history, accounts>>
      /\ UNCHANGED <<op, reply, email, secret, me, role>>
  BY <1>3 DEF Issue, Goto
<1>5. /\ op[c] \in {"Login", "Refresh"}
      /\ me[c] \in UserIDs /\ users[me[c]] # None /\ role[c] \in Roles
      /\ role[c] # users[me[c]].role => c \in straddling.calls
      /\ op[c] = "Refresh" => ~late[c]
  BY <1>1 DEF CallInv, IsPlaced, ActsFor, Refreshing, Uses
<1>6. /\ parent \in TokenIDs \cup {NoToken}
      /\ parent # NoToken =>
            /\ parent \in TokenIDs /\ tokens[parent] # None
            /\ tokens[parent].user = me[c]
            /\ \/ tokens[parent].revoked
               \/ tokenLock[parent] = c /\ tokensW[parent].revoked
  BY <1>1 DEF CallInv, IsPlaced, Uses, Refreshing, IsRow, TokenIDs, NoToken
<1>7. /\ tokensW[nextToken] = None /\ tokenLock[nextToken] = None
      /\ tokens[nextToken] = None
  BY <1>1, <1>3 DEF RowsInv, TokenRowsInv, TypeOK, TokenIDs
<1>8. clock \in Nat /\ clock + RefreshLifetime \in Nat /\ clock + AccessLifetime \in Nat
  BY <1>1 DEF TypeOK
<1>9. /\ new \in TokenRow /\ new # None /\ access \in AccessToken
      /\ new.user = me[c] /\ new.parent = parent
      /\ access.role = role[c] /\ access.expires = clock + AccessLifetime
  <2>1. new \in TokenRow
    BY <1>5, <1>6, <1>8 DEF TokenRow
  <2>2. access \in AccessToken
    BY <1>5, <1>8 DEF AccessToken
  <2>3. /\ new.user = me[c] /\ new.parent = parent
        /\ access.role = role[c] /\ access.expires = clock + AccessLifetime
    OBVIOUS
  <2> QED
    BY <2>1, <2>2, <2>3
<1> HIDE DEF new, access
<1>10. TypeOK'
  <2>1. /\ tokensW \in [TokenIDs -> TokenRow \cup {None}]
        /\ tokenLock \in [TokenIDs -> Callers \cup {None}]
        /\ fresh \in [Callers -> TokenIDs \cup {NoToken}]
        /\ signed \in [Callers -> AccessToken \cup {None}]
    BY <1>1 DEF TypeOK
  <2>2. /\ tokensW' \in [TokenIDs -> TokenRow \cup {None}]
        /\ tokenLock' \in [TokenIDs -> Callers \cup {None}]
        /\ fresh' \in [Callers -> TokenIDs \cup {NoToken}]
        /\ signed' \in [Callers -> AccessToken \cup {None}]
    BY <1>3, <1>4, <1>9, <2>1
  <2>3. nextToken' \in 1..(MaxTokens + 1)
    BY <1>3, <1>4 DEF TokenIDs
  <2> QED
    BY <1>1, <1>4, <2>2, <2>3 DEF TypeOK, accounts, history
<1>11. OtherCalls(c)
  BY <1>1, <1>4 DEF OtherCalls, history, TypeOK
<1>12. OtherRows(c)
  BY <1>1, <1>4, <1>7 DEF OtherRows, SameToken, accounts, TypeOK
<1>13. \A d \in Callers : d # c => pc'[d] = pc[d]
  BY <1>11 DEF OtherCalls
<1>14. UserInv'
  BY <1>1, <1>4, <1>13 DEF RowsInv, UserInv, accounts, TypeOK
<1>15. /\ \A t \in TokenIDs : t # nextToken =>
             tokensW'[t] = tokensW[t] /\ tokenLock'[t] = tokenLock[t]
       /\ tokensW'[nextToken] = new /\ tokenLock'[nextToken] = c
  BY <1>1, <1>3, <1>4 DEF TypeOK
<1>16. TokenRowsInv'
  <2>1. TokenRowsInv /\ users' = users /\ tokens' = tokens
    BY <1>1, <1>4 DEF RowsInv, accounts
  <2>2. \A t \in TokenIDs : tokenLock'[t] # None =>
             pc'[tokenLock'[t]] \in {"rotate", "commit"}
    BY <1>1, <1>4, <1>15, <2>1 DEF TokenRowsInv, TypeOK
  <2>3. \A t \in TokenIDs : t >= nextToken' => t >= nextToken /\ t # nextToken
    BY <1>3, <1>4 DEF TokenIDs
  <2> QED
    BY <1>5, <1>7, <1>9, <1>15, <2>1, <2>2, <2>3 DEF TokenRowsInv
<1>17. ParentInv'
  <2>1. \A t \in TokenIDs : tokens[t] # None =>
           /\ tokensW[t] # None /\ SameToken(tokens[t], tokensW[t])
           /\ t # nextToken /\ tokensW'[t] = tokensW[t] /\ tokenLock'[t] = tokenLock[t]
    BY <1>1, <1>7, <1>15 DEF RowsInv, TokenRowsInv
  <2>2. SUFFICES ASSUME NEW t \in TokenIDs,
                        tokensW'[t] # None, tokensW'[t].parent # NoToken
                 PROVE  LET p == tokensW'[t].parent
                        IN  /\ tokens[p] # None /\ tokensW'[p].revoked
                            /\ tokensW'[p].user = tokensW'[t].user
                            /\ \/ tokens[p].revoked
                               \/ /\ tokens[t] = None
                                  /\ tokenLock'[t] # None
                                  /\ tokenLock'[p] = tokenLock'[t]
    BY <1>4 DEF ParentInv
  <2>3. CASE t = nextToken
    BY <1>6, <1>7, <1>9, <1>15, <2>1, <2>2, <2>3 DEF SameToken
  <2>4. CASE t # nextToken
    <3>1. tokensW[t] # None /\ tokensW[t].parent # NoToken /\ tokensW[t].parent \in TokenIDs
      BY <1>1, <1>15, <2>2, <2>4 DEF TypeOK, TokenRow
    <3> QED
      BY <1>1, <1>15, <2>1, <2>4, <3>1 DEF RowsInv, ParentInv
  <2> QED
    BY <2>3, <2>4
<1>18. GrantsInv' /\ StaleTokensDie'
  BY <1>1, <1>4 DEF RowsInv, GrantsInv, StaleTokensDie, IsHeld, accounts, history
<1>19. CallInv(c)'
  <2>1. pc'[c] = "commit" /\ fresh'[c] = nextToken /\ signed'[c] = access
    BY <1>1, <1>4 DEF TypeOK
  <2>2. Makes(c)'
    BY <1>3, <1>4, <1>5, <1>8, <1>9, <1>15, <2>1 DEF Makes, accounts, history
  <2> QED
    BY <1>1, <1>4, <1>5, <2>1, <2>2
       DEF CallInv, IsPlaced, ActsFor, Refreshing, Uses, history
<1> QED
  BY <1>10, <1>11, <1>12, <1>14, <1>16, <1>17, <1>18, <1>19, Preserved DEF RowsInv

-----------------------------------------------------------------------------
(* The environment.                                                        *)

LEMMA TickPreserves ==
    ASSUME SessionsInv, Tick
    PROVE  SessionsInv'
<1> USE AccountsAssumption, SessionsAssumption
<1>1. TypeOK /\ RowsInv /\ StaleTokensDie
  BY DEF SessionsInv
<1>2. /\ clock < MaxTime /\ clock' = clock + 1
      /\ UNCHANGED <<accounts, call, tokens, tokensW, tokenLock, nextToken>>
      /\ UNCHANGED <<grants, token, history>>
  BY DEF Tick
<1>3. TypeOK'
  BY <1>1, <1>2 DEF TypeOK, accounts, call, token, history
<1>4. RowsInv' /\ StaleTokensDie'
  <2>1. UserInv' /\ TokenRowsInv' /\ ParentInv' /\ StaleTokensDie'
    BY <1>1, <1>2 DEF RowsInv, UserInv, TokenRowsInv, ParentInv, StaleTokensDie, IsHeld,
       accounts, call, token, history
  <2>2. GrantsInv'
    BY <1>1, <1>2 DEF RowsInv, GrantsInv, IsHeld, TypeOK, AccessToken
  <2> QED
    BY <2>1, <2>2 DEF RowsInv
<1>5. ASSUME NEW d \in Callers
      PROVE  CallInv(d)'
  <2>1. CallInv(d)
    BY DEF SessionsInv
  <2>2. IsClosed(tok[d]) => IsClosed(tok[d])'
    BY <1>1, <1>2 DEF IsClosed, IsRevoked, IsExpired, IsRow, TypeOK, TokenRow, token
  <2>3. IsPlaced(d)' /\ ActsFor(d)' /\ Uses(d)'
    BY <1>2, <2>1, <2>2 DEF CallInv, IsPlaced, ActsFor, Refreshing, Uses, IsRow, accounts,
       call, token, history
  <2>4. Makes(d)'
    BY <1>1, <1>2, <2>1 DEF CallInv, Makes, accounts, call, token, history, TypeOK,
       AccessToken
  <2> QED
    BY <2>3, <2>4 DEF CallInv
<1> QED
  BY <1>3, <1>4, <1>5 DEF SessionsInv

\* Every access token that is out ends within AccessLifetime from now, and every
\* call that has read the old role is marked.
LEMMA RoleChangePreserves ==
    ASSUME SessionsInv, RoleChange
    PROVE  SessionsInv'
<1> USE AccountsAssumption, SessionsAssumption
<1>1. TypeOK /\ RowsInv /\ StaleTokensDie
  BY DEF SessionsInv
<1>2. PICK u \in UserIDs, new \in Roles :
        ChangeRole(u, new) /\ changedAt' = [changedAt EXCEPT ![u] = clock]
  BY DEF RoleChange
<1>3. /\ straddling' = [straddling EXCEPT !.calls = {c \in Callers : pc[c] # "idle"}]
      /\ UNCHANGED <<call, sessions, token, late>>
  BY DEF RoleChange
<1>4. /\ users[u] # None /\ users[u] \in UserRow
      /\ usersW[u] = users[u]
  BY <1>1, <1>2 DEF ChangeRole, RowsInv, UserInv, TypeOK
<1>5. PICK row \in UserRow :
        /\ row.email = users[u].email
        /\ users' = [users EXCEPT ![u] = row] /\ usersW' = [usersW EXCEPT ![u] = row]
        /\ UNCHANGED <<userLock, nextUser>>
  <2> DEFINE changed == [users[u] EXCEPT !.role = new]
  <2>1. changed \in UserRow /\ changed.email = users[u].email
    BY <1>4 DEF UserRow
  <2>2. users' = [users EXCEPT ![u] = changed] /\ usersW' = [usersW EXCEPT ![u] = changed]
    BY <1>1, <1>2, <1>4 DEF ChangeRole, TypeOK
  <2> HIDE DEF changed
  <2> QED
    BY <1>2, <2>1, <2>2 DEF ChangeRole
<1>6. row # None
  OBVIOUS
<1>7. TypeOK'
  <2>1. /\ users' \in [UserIDs -> UserRow \cup {None}]
        /\ usersW' \in [UserIDs -> UserRow \cup {None}]
        /\ changedAt' \in [UserIDs -> Nat]
    BY <1>1, <1>2, <1>5 DEF TypeOK
  <2>2. straddling' \in [calls : SUBSET Callers, tokens : SUBSET TokenIDs]
    BY <1>1, <1>3 DEF TypeOK
  <2> QED
    BY <1>1, <1>3, <1>5, <2>1, <2>2 DEF TypeOK, call, sessions, token
<1>8. \A v \in UserIDs : users[v] # None => users'[v] # None
  BY <1>1, <1>5, <1>6 DEF TypeOK
<1>9. UserInv'
  <2>1. UserInv /\ pc' = pc
    BY <1>1, <1>3 DEF RowsInv, call
  <2>2. \A v \in UserIDs : v # u => users'[v] = users[v] /\ usersW'[v] = usersW[v]
    BY <1>1, <1>5 DEF TypeOK
  <2>3. users'[u] = row /\ usersW'[u] = row
    BY <1>1, <1>5 DEF TypeOK
  <2> QED
    BY <1>4, <1>5, <1>6, <2>1, <2>2, <2>3 DEF UserInv
<1>10. TokenRowsInv'
  BY <1>1, <1>3, <1>8 DEF RowsInv, TokenRowsInv, SameToken, call, sessions, TypeOK, TokenRow
<1>11. ParentInv' /\ GrantsInv'
  BY <1>1, <1>3 DEF RowsInv, ParentInv, GrantsInv, IsHeld, sessions
<1>12. StaleTokensDie'
  <2>1. \A v \in UserIDs :
           \/ v = u /\ changedAt'[v] = clock
           \/ users'[v] = users[v] /\ changedAt'[v] = changedAt[v]
    BY <1>1, <1>2, <1>5 DEF TypeOK
  <2>2. straddling'.tokens = straddling.tokens
    BY <1>1, <1>3 DEF TypeOK
  <2>3. \A t \in TokenIDs : IsHeld(t) =>
           tokens[t].user \in UserIDs /\ grants[t].expires <= clock + AccessLifetime
    BY <1>1 DEF RowsInv, GrantsInv, TypeOK, TokenRow
  <2> QED
    BY <1>1, <1>3, <2>1, <2>2, <2>3 DEF StaleTokensDie, IsHeld, sessions
<1>13. ASSUME NEW d \in Callers
       PROVE  CallInv(d)'
  <2>1. CallInv(d)
    BY DEF SessionsInv
  <2>2. d \in straddling'.calls <=> pc[d] # "idle"
    BY <1>1, <1>3 DEF TypeOK
  <2>3. IsClosed(tok[d]) => IsClosed(tok[d])'
    BY <1>3 DEF IsClosed, IsRevoked, IsExpired, IsRow, sessions, token
  <2>4. IsPlaced(d)' /\ ActsFor(d)' /\ Uses(d)'
    BY <1>3, <1>8, <2>1, <2>2, <2>3 DEF CallInv, IsPlaced, ActsFor, Refreshing, Uses, IsRow,
       call, token, sessions
  <2>5. Makes(d)'
    BY <1>3, <2>1, <2>2 DEF CallInv, Makes, call, token, sessions
  <2> QED
    BY <2>4, <2>5 DEF CallInv
<1> QED
  BY <1>7, <1>9, <1>10, <1>11, <1>12, <1>13 DEF SessionsInv, RowsInv

-----------------------------------------------------------------------------
(* The invariant holds.                                                    *)

LEMMA InitEstablishesInv == Init => SessionsInv
<1> USE AccountsAssumption, SessionsAssumption
<1> SUFFICES ASSUME Init
             PROVE  SessionsInv
  OBVIOUS
<1>1. AccountsInit /\ SessionsInit
  BY DEF Init
<1>2. TypeOK
  BY <1>1 DEF AccountsInit, SessionsInit, TypeOK, NoUser, NoReply, NoToken
<1>3. UserInv
  <2>1. /\ users = InitUsers /\ usersW = InitUsers
        /\ \A u \in UserIDs : userLock[u] = None
        /\ nextUser \in Nat /\ \A u \in UserIDs : u >= nextUser => InitUsers[u] = None
    BY <1>1 DEF AccountsInit, IsFirstFree, UserIDs
  <2> QED
    BY <2>1 DEF UserInv
<1>4. TokenRowsInv /\ ParentInv /\ GrantsInv /\ StaleTokensDie
  BY <1>1 DEF SessionsInit, TokenRowsInv, ParentInv, GrantsInv, StaleTokensDie, IsHeld
<1>5. \A c \in Callers : CallInv(c)
  BY <1>1 DEF AccountsInit, SessionsInit, CallInv, IsPlaced, ActsFor, Refreshing, Uses, Makes
<1> QED
  BY <1>2, <1>3, <1>4, <1>5 DEF SessionsInv, RowsInv

LEMMA StepPreservesInv ==
    ASSUME SessionsInv, NEW c \in Callers, Step(c)
    PROVE  SessionsInv'
<1>1. CallInv(c)
  BY DEF SessionsInv
<1>2. CASE AccountStep(c)
  <2>1. CASE RegisterInsert(c)
    BY <1>2, <2>1, RegisterInsertPreserves
  <2>2. CASE RegisterCommit(c)
    <3>1. TypeOK
      BY DEF SessionsInv
    <3>2. pc'[c] = "idle"
      BY <2>2, <3>1 DEF RegisterCommit, Answer, TypeOK
    <3> QED
      BY <1>2, <2>2, <3>2, RegisteredEndPreserves DEF AccountStep, RegisterCommit, Statuses
  <2>3. CASE LoginCheck(c)
    BY <1>2, <2>3, LoginCheckPreserves
  <2> QED
    BY <1>2, <2>1, <2>2, <2>3 DEF AccountStep, AccountsStep
<1>3. CASE LoginCreate(c)
  BY <1>3, IssuePreserves DEF LoginCreate
<1>4. CASE LoginCommit(c)
  BY <1>4, PublishPreserves DEF LoginCommit, Statuses
<1>5. CASE RefreshFind(c)
  <2>1. CASE Fail(c, 401)
    BY <1>5, <2>1, FailPreserves DEF RefreshFind, Statuses
  <2>2. CASE ~Fail(c, 401)
    BY <1>5, <2>2, RefreshFindPreserves DEF RefreshFind
  <2> QED
    BY <2>1, <2>2
<1>6. CASE RefreshRole(c)
  BY <1>6, RefreshRolePreserves
<1>7. CASE RefreshRevoke(c)
  BY <1>7, RevokePreserves DEF RefreshRevoke
<1>8. CASE RefreshRotate(c)
  BY <1>8, IssuePreserves DEF RefreshRotate
<1>9. CASE RefreshCommit(c)
  BY <1>9, PublishPreserves DEF RefreshCommit, Statuses
<1>10. CASE LogoutFind(c)
  <2>1. CASE Fail(c, 401)
    BY <1>10, <2>1, FailPreserves DEF LogoutFind, Statuses
  <2>2. CASE ~Fail(c, 401)
    BY <1>10, <2>2, LogoutFindPreserves DEF LogoutFind
  <2> QED
    BY <2>1, <2>2
<1>11. CASE LogoutRevoke(c)
  BY <1>11, RevokePreserves DEF LogoutRevoke
<1>12. CASE LogoutCommit(c)
  BY <1>12, PublishPreserves DEF LogoutCommit, Statuses
<1> QED
  BY <1>2, <1>3, <1>4, <1>5, <1>6, <1>7, <1>8, <1>9, <1>10, <1>11, <1>12 DEF Step

LEMMA NextPreservesInv ==
    ASSUME SessionsInv, [Next]_vars
    PROVE  SessionsInv'
<1>1. ASSUME NEW c \in Callers, Begins(c)
      PROVE  SessionsInv'
  <2>1. CASE AccountsBegin(c) /\ UNCHANGED <<sessions, token, history>>
    BY <2>1, AccountsBeginPreserves
  <2>2. CASE RefreshBegin(c)
    BY <2>2, TokenCallPreserves DEF RefreshBegin
  <2>3. CASE LogoutBegin(c)
    BY <2>3, TokenCallPreserves DEF LogoutBegin
  <2>4. CASE RefuseBody(c) \/ Admin(c)
    BY <2>4, AnsweredPreserves
  <2> QED
    BY <1>1, <2>1, <2>2, <2>3, <2>4 DEF Begins
<1>2. ASSUME NEW c \in Callers, Abort(c)
      PROVE  SessionsInv'
  BY <1>2, FailPreserves DEF Abort, Statuses
<1>3. ASSUME NEW c \in Callers, CommitLost(c)
      PROVE  SessionsInv'
  BY <1>3, PublishPreserves, RegisteredEndPreserves DEF CommitLost, Statuses
<1>4. CASE UNCHANGED vars
  <2>1. UNCHANGED <<users, usersW, userLock, nextUser, op, pc, reply, email, secret, me,
                    role, tokens, tokensW, tokenLock, nextToken, clock, grants, tok, fresh,
                    signed, late, straddling, changedAt>>
    BY <1>4 DEF vars, accounts, call, sessions, token, history
  <2>2. TypeOK' /\ StaleTokensDie'
    BY <2>1 DEF SessionsInv, TypeOK, StaleTokensDie, IsHeld
  <2>3. RowsInv'
    BY <2>1 DEF SessionsInv, RowsInv, UserInv, TokenRowsInv, ParentInv, GrantsInv, IsHeld
  <2>4. ASSUME NEW c \in Callers
        PROVE  CallInv(c)'
    BY <2>1 DEF SessionsInv, CallInv, IsPlaced, ActsFor, Refreshing, Uses, Makes, IsRow,
       IsClosed, IsRevoked, IsExpired
  <2> QED
    BY <2>2, <2>3, <2>4 DEF SessionsInv
<1> QED
  BY <1>1, <1>2, <1>3, <1>4, StepPreservesInv, TickPreserves, RoleChangePreserves DEF Next

\* The inductive invariant: rows, what each call relies on, and roles.
THEOREM SessionsInvariant == Spec => []SessionsInv
BY InitEstablishesInv, NextPreservesInv, PTL DEF Spec

-----------------------------------------------------------------------------
(* What follows from it.                                                   *)

\* Every variable of the calls on accounts and tokens keeps its type.
THEOREM SessionsTypeCorrectness == Spec => []TypeOK
<1>1. SessionsInv => TypeOK
  BY DEF SessionsInv
<1> QED
  BY <1>1, SessionsInvariant, PTL

\* However many people register at once, and however they spell their address,
\* it has one account.
THEOREM AddressesAreUnique == Spec => []OneAccountPerAddress
<1>1. SessionsInv => OneAccountPerAddress
  BY AccountsAssumption DEF SessionsInv, RowsInv, UserInv, OneAccountPerAddress
<1> QED
  BY <1>1, SessionsInvariant, PTL

\* Nobody sees a rotated token while the one it replaces still works.
THEOREM RotationIsAtomic == Spec => []RotationRevokes
<1>1. SessionsInv => RotationRevokes
  <2> SUFFICES ASSUME SessionsInv, NEW t \in TokenIDs,
                      tokens[t] # None, tokens[t].parent # NoToken
               PROVE  /\ IsRevoked(tokens[t].parent)
                      /\ tokens[tokens[t].parent].user = tokens[t].user
    BY DEF RotationRevokes, IsRow
  <2>1. tokens[t].parent \in TokenIDs
    BY DEF SessionsInv, TypeOK, TokenRow
  <2> QED
    BY <2>1 DEF SessionsInv, RowsInv, TokenRowsInv, ParentInv, SameToken, IsRevoked, IsRow
<1> QED
  BY <1>1, SessionsInvariant, PTL

\* A Refresh that begins with a token of no use gets past nothing.
THEOREM ClosedTokensAreUseless == Spec => []ClosedTokensStayClosed
<1>1. SessionsInv => ClosedTokensStayClosed
  BY DEF SessionsInv, CallInv, Uses, ClosedTokensStayClosed
<1> QED
  BY <1>1, SessionsInvariant, PTL

\* AccessLifetime after a change of role the middleware admits no access token
\* with the old one, except those of calls that were running at the change.
THEOREM OldRolesExpire == Spec => []StaleRolesExpire
<1>1. SessionsInv => StaleRolesExpire
  <2> SUFFICES ASSUME SessionsInv, NEW t \in TokenIDs, Admits(t), t \notin straddling.tokens,
                      grants[t].role # users[tokens[t].user].role
               PROVE  clock < changedAt[tokens[t].user] + AccessLifetime
    BY DEF StaleRolesExpire
  <2>1. TypeOK /\ StaleTokensDie /\ IsHeld(t) /\ clock < grants[t].expires
    BY DEF SessionsInv, Admits
  <2>2. grants[t].expires <= changedAt[tokens[t].user] + AccessLifetime
    BY <2>1 DEF StaleTokensDie
  <2>3. tokens[t].user \in UserIDs
    BY <2>1 DEF SessionsInv, RowsInv, GrantsInv, TypeOK, IsHeld, TokenRow
  <2>4. /\ clock \in Nat /\ grants[t].expires \in Nat /\ AccessLifetime \in Nat
        /\ changedAt[tokens[t].user] \in Nat
    BY <2>1, <2>3, SessionsAssumption DEF TypeOK, IsHeld, AccessToken
  <2> QED
    BY <2>1, <2>2, <2>4
<1> QED
  BY <1>1, SessionsInvariant, PTL

\* The calls that end with a 401, and what they have found.
LEMMA WhoIsRefused ==
    ASSUME SessionsInv, Next, NEW c \in Callers,
           pc[c] # "idle", pc'[c] = "idle", reply'[c] = 401
    PROVE  \/ /\ op[c] = "Login"
              /\ \A u \in AccountsOf(StoredAddress(email[c])) :
                    users[u].password # secret[c]
           \/ op[c] = "Refresh" /\ ~IsUsable(tok[c])
           \/ op[c] = "Logout" /\ ~IsRow(tok[c])
<1>1. TypeOK /\ CallInv(c)
  BY DEF SessionsInv
<1>2. \A d \in Callers : \A x : d # c => [pc EXCEPT ![d] = x][c] # "idle"
  BY <1>1 DEF TypeOK
<1>3. \A d \in Callers : \A status : Answer(d, status) => d = c /\ status = 401
  BY <1>1, <1>2 DEF Answer, TypeOK
<1>4. \A d \in Callers : \A x : x # "idle" => ~Goto(d, x)
  BY <1>1 DEF Goto, TypeOK
<1>5. \A d \in Callers : ~Begins(d)
  <2>1. \A d \in Callers : \A m, x : ~Call(d, m, x)
    BY <1>1 DEF Call, TypeOK, NoReply
  <2>2. \A d \in Callers : \A status : ~Answered(d, status)
    BY DEF Answered
  <2> QED
    BY <2>1, <2>2 DEF Begins, AccountsBegin, RegisterBegin, LoginBegin, RefreshBegin,
       LogoutBegin, TokenCall, RefuseBody, Admin
<1>6. ~Tick /\ ~RoleChange
  BY DEF Tick, RoleChange, call
<1>7. \A d \in Callers : ~Abort(d) /\ ~CommitLost(d)
  BY <1>3 DEF Abort, CommitLost, Fail, Publish
<1>8. PICK d \in Callers : Step(d)
  BY <1>5, <1>6, <1>7 DEF Next
<1>9. \/ LoginCheck(d) \/ RefreshFind(d) \/ LogoutFind(d)
  <2>1. ~RegisterInsert(d) /\ ~RegisterCommit(d)
    BY <1>3, <1>4 DEF RegisterInsert, RegisterCommit
  <2>2. ~LoginCommit(d) /\ ~RefreshCommit(d) /\ ~LogoutCommit(d)
    BY <1>3 DEF LoginCommit, RefreshCommit, LogoutCommit, Publish
  <2>3. ~LoginCreate(d) /\ ~RefreshRotate(d)
    BY <1>3, <1>4 DEF LoginCreate, RefreshRotate, Issue, Fail
  <2>4. ~RefreshRole(d) /\ ~RefreshRevoke(d) /\ ~LogoutRevoke(d)
    BY <1>4 DEF RefreshRole, RefreshRevoke, LogoutRevoke
  <2> QED
    BY <1>8, <2>1, <2>2, <2>3, <2>4 DEF Step, AccountStep, AccountsStep
<1>10. CASE LoginCheck(d)
  <2>1. /\ d = c /\ pc[c] = "login"
        /\ \A u \in AccountsOf(StoredAddress(email[c])) :
              users[u].password \notin {None, secret[c]}
    BY <1>3, <1>4, <1>10 DEF LoginCheck
  <2> QED
    BY <1>1, <2>1 DEF CallInv, IsPlaced
<1>11. CASE RefreshFind(d)
  BY <1>3, <1>4, <1>11 DEF RefreshFind, Fail
<1>12. CASE LogoutFind(d)
  <2>1. (IF IsRevoked(tok[d]) THEN "commit" ELSE "revoke") # "idle"
    OBVIOUS
  <2> QED
    BY <1>3, <1>4, <1>12, <2>1 DEF LogoutFind, Fail
<1> QED
  BY <1>9, <1>10, <1>11, <1>12

\* A 401 is always true: of the address and password, or of the token, that the
\* client came with, at the moment of the answer.
THEOREM RefusalsTellTheTruth == Spec => RefusalsAreTrue
<1>1. SessionsInv /\ [Next]_vars =>
        [\A c \in Callers :
            pc[c] # "idle" /\ pc'[c] = "idle" /\ reply'[c] = 401 =>
                CASE op[c] = "Login" ->
                         \A u \in UserIDs : users[u] # None =>
                             \/ users[u].email # Address[email[c]]
                             \/ users[u].password # secret[c]
                  [] op[c] = "Refresh" -> ~IsUsable(tok[c])
                  [] op[c] = "Logout" -> ~IsRow(tok[c])]_vars
  <2> SUFFICES ASSUME SessionsInv, Next, NEW c \in Callers,
                      pc[c] # "idle", pc'[c] = "idle", reply'[c] = 401
               PROVE  CASE op[c] = "Login" ->
                               \A u \in UserIDs : users[u] # None =>
                                   \/ users[u].email # Address[email[c]]
                                   \/ users[u].password # secret[c]
                        [] op[c] = "Refresh" -> ~IsUsable(tok[c])
                        [] op[c] = "Logout" -> ~IsRow(tok[c])
    OBVIOUS
  <2>1. CASE /\ op[c] = "Login"
             /\ \A u \in AccountsOf(StoredAddress(email[c])) :
                   users[u].password # secret[c]
    BY <2>1 DEF AccountsOf, StoredAddress
  <2>2. CASE op[c] = "Refresh" /\ ~IsUsable(tok[c])
    BY <2>2
  <2>3. CASE op[c] = "Logout" /\ ~IsRow(tok[c])
    BY <2>3
  <2>4. \/ /\ op[c] = "Login"
           /\ \A u \in AccountsOf(StoredAddress(email[c])) :
                 users[u].password # secret[c]
        \/ op[c] = "Refresh" /\ ~IsUsable(tok[c])
        \/ op[c] = "Logout" /\ ~IsRow(tok[c])
    BY WhoIsRefused
  <2> QED
    BY <2>1, <2>2, <2>3, <2>4, Zenon
<1> QED
  BY <1>1, SessionsInvariant, PTL DEF Spec, RefusalsAreTrue
=============================================================================
