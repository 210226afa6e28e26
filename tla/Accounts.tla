------------------------------- MODULE Accounts -------------------------------
(***************************************************************************)
(* The table users and the calls of internal/user that read and write it:  *)
(* Register, and the first of Login's two transactions.  As in Store, users*)
(* holds the committed rows and usersW the newest version of each row; the *)
(* caller that inserted a row owns it until its transaction ends.          *)
(*                                                                         *)
(* A call is one HTTP request to /auth or to an administrator's route.     *)
(***************************************************************************)
EXTENDS Naturals

CONSTANTS
    Callers,        \* concurrent HTTP requests
    Spellings,      \* e-mail addresses, not blank, as clients type them
    Addresses,      \* those that are trimmed and in lower case
    Address,        \* [Spellings -> Addresses], strings.TrimSpace and ToLower
    Passwords,
    InitUsers,      \* rows of users when the system starts
    MaxUsers,       \* bound: rows of table users
    NewRoles,       \* roles an operator gives to accounts
    Calls,          \* calls the clients of this instance make
    None            \* no row, no owner, no argument

VARIABLES
    users, usersW, userLock, nextUser,
    op, pc, reply,              \* a call's name, next statement and answer
    email, secret,              \* its arguments
    me, role                    \* the account it acts for, and the role read

accounts == <<users, usersW, userLock, nextUser>>
call     == <<op, pc, reply, email, secret, me, role>>

-----------------------------------------------------------------------------

UserIDs  == 1..MaxUsers
NoUser   == 0
Roles    == {"user", "admin"}
Statuses == {200, 201, 204, 400, 401, 403, 500}
NoReply  == 0

\* bcrypt's hash matches the password it was made from and no other, so a row
\* holds the password itself.  An account older than migration 004 has none.
UserRow == [email : Spellings, password : Passwords \cup {None}, role : Roles]

IsFirstFree(n) ==
    /\ n \in 1..(MaxUsers + 1)
    /\ \A u \in UserIDs : InitUsers[u] # None <=> u < n

ASSUME AccountsAssumption ==
    /\ MaxUsers \in Nat /\ NewRoles \subseteq Roles
    /\ None \notin UserRow /\ None \notin Callers
    /\ Addresses \subseteq Spellings
    /\ Address \in [Spellings -> Addresses]
    /\ \A a \in Addresses : Address[a] = a
    /\ InitUsers \in [UserIDs -> UserRow \cup {None}]
    /\ \A u, v \in UserIDs :
           InitUsers[u] # None /\ InitUsers[v] # None =>
               /\ InitUsers[u].email \in Addresses
               /\ InitUsers[u].email = InitUsers[v].email => u = v
    /\ \E n \in 1..(MaxUsers + 1) : IsFirstFree(n)

AccountsInit ==
    /\ users = InitUsers /\ usersW = InitUsers
    /\ userLock = [u \in UserIDs |-> None]
    /\ nextUser \in 1..(MaxUsers + 1) /\ IsFirstFree(nextUser)
    /\ op = [c \in Callers |-> "none"]
    /\ pc = [c \in Callers |-> "idle"]
    /\ reply = [c \in Callers |-> NoReply]
    /\ email = [c \in Callers |-> None]
    /\ secret = [c \in Callers |-> None]
    /\ me = [c \in Callers |-> NoUser]
    /\ role = [c \in Callers |-> None]

\* A call starts at its first statement.
Call(c, method, label) ==
    /\ pc[c] = "idle" /\ method \in Calls
    /\ op' = [op EXCEPT ![c] = method]
    /\ pc' = [pc EXCEPT ![c] = label]
    /\ reply' = [reply EXCEPT ![c] = NoReply]
    /\ UNCHANGED <<me, role>>

Goto(c, label) == pc' = [pc EXCEPT ![c] = label]

\* The handler writes its answer; the call is over.
Answer(c, status) ==
    /\ pc' = [pc EXCEPT ![c] = "idle"]
    /\ op' = [op EXCEPT ![c] = "none"]
    /\ reply' = [reply EXCEPT ![c] = status]
    /\ email' = [email EXCEPT ![c] = None]
    /\ secret' = [secret EXCEPT ![c] = None]
    /\ me' = [me EXCEPT ![c] = NoUser]
    /\ role' = [role EXCEPT ![c] = None]

-----------------------------------------------------------------------------
(* The repository of users.                                                *)

\* The end of a transaction: its rows become visible, or vanish.
PublishUsers(c) ==
    /\ users' = [u \in UserIDs |->
                    IF userLock[u] = c THEN usersW[u] ELSE users[u]]
    /\ userLock' = [u \in UserIDs |->
                    IF userLock[u] = c THEN None ELSE userLock[u]]
    /\ UNCHANGED <<usersW, nextUser>>

ForgetUsers(c) ==
    /\ usersW' = [u \in UserIDs |->
                    IF userLock[u] = c THEN users[u] ELSE usersW[u]]
    /\ userLock' = [u \in UserIDs |->
                    IF userLock[u] = c THEN None ELSE userLock[u]]
    /\ UNCHANGED <<users, nextUser>>

AccountsOf(address) ==
    {u \in UserIDs : users[u] # None /\ users[u].email = address}

\* Another transaction is inserting the same address; UNIQUE makes this one
\* wait until it is known which of the two remains.
Contested(c, address) ==
    \E u \in UserIDs :
        /\ userLock[u] \notin {None, c}
        /\ usersW[u] # None /\ usersW[u].email = address

InsertUser(c, row) ==
    /\ usersW' = [usersW EXCEPT ![nextUser] = row]
    /\ userLock' = [userLock EXCEPT ![nextUser] = c]
    /\ nextUser' = nextUser + 1
    /\ UNCHANGED users

-----------------------------------------------------------------------------
(* Register.                                                               *)

\* Fault: the address is used as it was typed.
StoredAddress_AsTyped(spelling) == spelling

\* Service.Register and Service.Login trim the address and lower its case.
StoredAddress(spelling) == Address[spelling]

RegisterBegin(c) ==
    \E e \in Spellings, p \in Passwords :
        /\ Call(c, "Register", "register")
        /\ email' = [email EXCEPT ![c] = e]
        /\ secret' = [secret EXCEPT ![c] = p]
        /\ UNCHANGED accounts

NewAccount(c) == [email |-> StoredAddress(email[c]), password |-> secret[c],
                  role |-> "user"]

\* A duplicate violates UNIQUE (email), which the handler answers with 500.
\* So does an INSERT past MaxUsers: the bound of the model.
RegisterInsert(c) ==
    /\ pc[c] = "register"
    /\ ~Contested(c, StoredAddress(email[c]))
    /\ \/ /\ AccountsOf(StoredAddress(email[c])) # {} \/ nextUser \notin UserIDs
          /\ Answer(c, 500)
          /\ UNCHANGED accounts
       \/ /\ AccountsOf(StoredAddress(email[c])) = {} /\ nextUser \in UserIDs
          /\ InsertUser(c, NewAccount(c))
          /\ Goto(c, "registered")
          /\ UNCHANGED <<op, reply, email, secret, me, role>>

RegisterCommit(c) ==
    /\ pc[c] = "registered"
    /\ PublishUsers(c)
    /\ Answer(c, 201)

-----------------------------------------------------------------------------
(* The first transaction of Login: who is it?                              *)

LoginBegin(c) ==
    \E e \in Spellings, p \in Passwords :
        /\ Call(c, "Login", "login")
        /\ email' = [email EXCEPT ![c] = e]
        /\ secret' = [secret EXCEPT ![c] = p]
        /\ UNCHANGED accounts

\* Fault: only Register lowers the case.
LoginCheck_AsTyped(c) ==
    /\ pc[c] = "login"
    /\ LET found == AccountsOf(email[c])
       IN  \/ /\ \A u \in found : users[u].password \notin {None, secret[c]}
              /\ Answer(c, 401)
           \/ \E u \in found :
              /\ users[u].password = secret[c]
              /\ me' = [me EXCEPT ![c] = u]
              /\ role' = [role EXCEPT ![c] = users[u].role]
              /\ Goto(c, "create")
              /\ UNCHANGED <<op, reply, email, secret>>
    /\ UNCHANGED accounts

\* The hash of an account without a password cannot be scanned: an error.
LoginCheck(c) ==
    /\ pc[c] = "login"
    /\ LET found == AccountsOf(StoredAddress(email[c]))
       IN  \/ /\ \A u \in found : users[u].password \notin {None, secret[c]}
              /\ Answer(c, 401)
           \/ /\ \E u \in found : users[u].password = None
              /\ Answer(c, 500)
           \/ \E u \in found :
              /\ users[u].password = secret[c]
              /\ me' = [me EXCEPT ![c] = u]
              /\ role' = [role EXCEPT ![c] = users[u].role]
              /\ Goto(c, "create")
              /\ UNCHANGED <<op, reply, email, secret>>
    /\ UNCHANGED accounts

-----------------------------------------------------------------------------

\* No code of the repository changes a role: an operator does, with SQL.
ChangeRole(u, new) ==
    /\ users[u] # None /\ users[u].role # new
    /\ users' = [users EXCEPT ![u].role = new]
    /\ usersW' = [usersW EXCEPT ![u].role = new]
    /\ UNCHANGED <<userLock, nextUser>>

AccountsBegin(c) == RegisterBegin(c) \/ LoginBegin(c)

AccountsStep(c) == RegisterInsert(c) \/ RegisterCommit(c) \/ LoginCheck(c)
=============================================================================
