--------------------------- MODULE ConnectionPool ---------------------------
(***************************************************************************)
(* The pool of internal/database/postgres.go and the way                   *)
(* WithinTransaction (transaction.go) uses it: a call takes one connection *)
(* of at most MaxOpenConns, its transaction locks rows on it, and gives it *)
(* back with COMMIT or ROLLBACK.  Nothing is deferred: when the function   *)
(* that runs in the transaction panics, the connection comes back only     *)
(* because BeginTx was given the context of the request, which the server  *)
(* cancels when the handler is gone.                                       *)
(***************************************************************************)
EXTENDS Naturals, FiniteSets

CONSTANTS
    Callers,        \* goroutines that serve requests
    Rows,           \* rows that transactions lock
    MaxOpenConns,   \* 20 in the code
    None

VARIABLES
    stage,          \* what each caller is doing
    owner,          \* of the lock on each row
    wants,          \* the row whose lock a caller's statement waits for
    open            \* connections lent out

poolVars == <<stage, owner, wants, open>>

ASSUME PoolAssumption ==
    /\ MaxOpenConns \in Nat \ {0}
    /\ IsFiniteSet(Callers)
    /\ None \notin Callers \cup Rows

\* running: the function runs; panicked: it has panicked.
Stages == {"idle", "waiting", "running", "panicked"}

PoolInit ==
    /\ stage = [c \in Callers |-> "idle"]
    /\ owner = [w \in Rows |-> None]
    /\ wants = [c \in Callers |-> None]
    /\ open = 0

Waiting == {c \in Callers : stage[c] = "waiting"}

\* BeginTx takes a free connection, or waits for one.
BeginTx(c) ==
    /\ stage[c] = "idle"
    /\ \/ /\ open < MaxOpenConns
          /\ open' = open + 1
          /\ stage' = [stage EXCEPT ![c] = "running"]
       \/ /\ open = MaxOpenConns
          /\ stage' = [stage EXCEPT ![c] = "waiting"]
          /\ UNCHANGED open
    /\ UNCHANGED <<owner, wants>>

\* The client goes away, and BeginTx returns the error of the context.
GiveUp(c) ==
    /\ stage[c] = "waiting"
    /\ stage' = [stage EXCEPT ![c] = "idle"]
    /\ UNCHANGED <<owner, wants, open>>

\* Fault: a statement of the function uses the pool and not the transaction.
Lock_OnPool(c, w) ==
    /\ stage[c] \in {"running", "waiting"}
    /\ owner[w] # c
    /\ wants[c] \in {None, w}
    /\ \/ /\ open < MaxOpenConns
          /\ owner[w] = None
          /\ owner' = [owner EXCEPT ![w] = c]
          /\ stage' = [stage EXCEPT ![c] = "running"]
          /\ wants' = [wants EXCEPT ![c] = None]
       \/ /\ open = MaxOpenConns
          /\ stage[c] = "running"
          /\ stage' = [stage EXCEPT ![c] = "waiting"]
          /\ wants' = [wants EXCEPT ![c] = w]
          /\ UNCHANGED owner
    /\ UNCHANGED open

\* A statement of the function locks a row, at once or when its turn comes.
Lock(c, w) ==
    /\ stage[c] = "running"
    /\ owner[w] = None
    /\ wants[c] \in {None, w}
    /\ owner' = [owner EXCEPT ![w] = c]
    /\ wants' = [wants EXCEPT ![c] = None]
    /\ UNCHANGED <<stage, open>>

Block(c, w) ==
    /\ stage[c] = "running"
    /\ wants[c] = None
    /\ owner[w] \notin {None, c}
    /\ wants' = [wants EXCEPT ![c] = w]
    /\ UNCHANGED <<stage, owner, open>>

\* The transaction of c ends, its locks are released, and its connection
\* goes to one of the callers that wait, if there are any: database/sql
\* takes one at random.
Return(c, next) ==
    /\ owner' = [w \in Rows |-> IF owner[w] = c THEN None ELSE owner[w]]
    /\ wants' = [wants EXCEPT ![c] = None]
    /\ \/ /\ next \in Waiting
          /\ stage' = [stage EXCEPT ![c] = "idle", ![next] = "running"]
          /\ UNCHANGED open
       \/ /\ next = None /\ Waiting = {}
          /\ stage' = [stage EXCEPT ![c] = "idle"]
          /\ open' = open - 1

Heirs == Waiting \cup {None}

\* The function returns nil and Commit is called.
Commit(c, next) ==
    /\ stage[c] = "running" /\ wants[c] = None
    /\ Return(c, next)

\* It returns an error, of a check, of a statement or of the context, and
\* Rollback is called; a broken connection is replaced by a new one.
Rollback(c, next) == stage[c] = "running" /\ Return(c, next)

\* Callers that wait for each other's rows; PostgreSQL ends one of them.
InCycle(c) ==
    \E S \in SUBSET Callers :
        /\ c \in S
        /\ \A d \in S : wants[d] # None /\ owner[wants[d]] \in S

Victim(c, next) == InCycle(c) /\ Rollback(c, next)

Panic(c) ==
    /\ stage[c] = "running" /\ wants[c] = None
    /\ stage' = [stage EXCEPT ![c] = "panicked"]
    /\ UNCHANGED <<owner, wants, open>>

\* Fault: BeginTx is given context.Background().
ContextDone_Background(c, next) ==
    /\ stage[c] = "panicked" /\ next = None
    /\ stage' = [stage EXCEPT ![c] = "idle"]
    /\ UNCHANGED <<owner, wants, open>>

\* net/http recovers, cancels the context of the request, and database/sql
\* rolls back.
ContextDone(c, next) == stage[c] = "panicked" /\ Return(c, next)

PoolNext ==
    \E c \in Callers :
        \/ BeginTx(c) \/ GiveUp(c) \/ Panic(c)
        \/ \E w \in Rows : Lock(c, w) \/ Block(c, w)
        \/ \E next \in Heirs : Commit(c, next) \/ Rollback(c, next) \/ ContextDone(c, next)

PoolSpec == PoolInit /\ [][PoolNext]_poolVars

\* A function that can go on does, row locks are queues, and of the callers
\* that wait for a connection none is passed over for ever.
PoolFairness ==
    \A c \in Callers :
        /\ WF_poolVars(\E next \in Heirs : Commit(c, next))
        /\ WF_poolVars(\E next \in Heirs : Victim(c, next))
        /\ WF_poolVars(\E next \in Heirs : ContextDone(c, next))
        /\ SF_poolVars(\E w \in Rows : wants[c] = w /\ Lock(c, w))
        /\ SF_poolVars(\E d \in Callers :
                          Commit(d, c) \/ Rollback(d, c) \/ ContextDone(d, c))

PoolFairSpec == PoolSpec /\ PoolFairness

-----------------------------------------------------------------------------
Using == {c \in Callers : stage[c] \in {"running", "panicked"}}

\* Every connection that is lent is some call's own, on every way out of
\* WithinTransaction, a panic included: none leaks, none is lent twice.
ConnectionsAreOwned == open = Cardinality(Using) /\ open <= MaxOpenConns

\* A call that waits for a connection holds no row: a full pool never closes
\* a circle of waits, since every lock is held by a call that can run.
WaitersHoldNothing ==
    \A c \in Callers :
        stage[c] \in {"idle", "waiting"} =>
            wants[c] = None /\ \A w \in Rows : owner[w] # c

\* However many calls queue for connections and for rows, each ends.
CallsReturn == \A c \in Callers : stage[c] # "idle" ~> stage[c] = "idle"

=============================================================================
