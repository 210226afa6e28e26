------------------------- MODULE ConnectionPoolProofs -------------------------
(***************************************************************************)
(* Proofs about ConnectionPool, for any number of callers, rows and        *)
(* connections: the three invariants of the pool are inductive together    *)
(* with the types of the variables.                                        *)
(***************************************************************************)
EXTENDS ConnectionPool, FiniteSetTheorems, TLAPS

PoolTypeOK ==
    /\ stage \in [Callers -> Stages]
    /\ owner \in [Rows -> Callers \cup {None}]
    /\ wants \in [Callers -> Rows \cup {None}]
    /\ open \in Nat

PoolInv ==
    /\ PoolTypeOK
    /\ ConnectionsAreOwned
    /\ WaitersHoldNothing

-----------------------------------------------------------------------------

LEMMA UsingIsFinite == IsFiniteSet(Using) /\ Cardinality(Using) \in Nat
<1>1. Using \subseteq Callers
  BY DEF Using
<1> QED
  BY <1>1, PoolAssumption, FS_Subset, FS_CardinalityType

\* One caller more, or one less, uses a connection.
LEMMA OneMore ==
    ASSUME PoolInv, NEW c \in Callers, c \notin Using, Using' = Using \cup {c}
    PROVE  Cardinality(Using)' = open + 1
<1>1. Cardinality(Using \cup {c}) = Cardinality(Using) + 1
  BY UsingIsFinite, FS_AddElement
<1> QED
  BY <1>1 DEF PoolInv, ConnectionsAreOwned

LEMMA OneLess ==
    ASSUME PoolInv, NEW c \in Callers, c \in Using, Using' = Using \ {c}
    PROVE  Cardinality(Using)' = open - 1
<1>1. Cardinality(Using \ {c}) = Cardinality(Using) - 1
  BY UsingIsFinite, FS_RemoveElement
<1> QED
  BY <1>1 DEF PoolInv, ConnectionsAreOwned

\* The connection goes from c to a caller that waits.
LEMMA HandedOver ==
    ASSUME PoolInv, NEW c \in Callers, NEW next \in Callers, c \in Using,
           next \notin Using, Using' = (Using \ {c}) \cup {next}
    PROVE  Cardinality(Using)' = open
<1>1. IsFiniteSet(Using \ {c}) /\ Cardinality(Using \ {c}) = Cardinality(Using) - 1
  BY UsingIsFinite, FS_RemoveElement
<1>2. Cardinality((Using \ {c}) \cup {next}) = Cardinality(Using \ {c}) + 1
  BY <1>1, FS_AddElement
<1> QED
  BY <1>1, <1>2, UsingIsFinite DEF PoolInv, ConnectionsAreOwned

-----------------------------------------------------------------------------

\* However a transaction ends, its rows are free and its connection is lent to
\* the next caller or counted as free.
LEMMA ReturnPreserves ==
    ASSUME PoolInv, NEW c \in Callers, NEW next \in Heirs, c \in Using, Return(c, next)
    PROVE  PoolInv'
<1> USE PoolAssumption DEF PoolInv
<1>1. /\ \A w \in Rows : owner'[w] = IF owner[w] = c THEN None ELSE owner[w]
      /\ \A d \in Callers : wants'[d] = IF d = c THEN None ELSE wants[d]
      /\ owner' \in [Rows -> Callers \cup {None}]
      /\ wants' \in [Callers -> Rows \cup {None}]
  BY DEF Return, PoolTypeOK
<1>2. CASE next \in Waiting
  <2>1. /\ next \in Callers /\ next # c /\ next \notin Using /\ next # None
        /\ open' = open
        /\ \A d \in Callers : stage'[d] = IF d = next THEN "running"
                                          ELSE IF d = c THEN "idle" ELSE stage[d]
        /\ stage' \in [Callers -> Stages]
    BY <1>2 DEF Return, PoolTypeOK, Waiting, Using, Stages
  <2>2. PoolTypeOK'
    BY <1>1, <2>1 DEF PoolTypeOK
  <2>3. Using' = (Using \ {c}) \cup {next}
    BY <2>1 DEF Using
  <2>4. ConnectionsAreOwned'
    BY <2>1, <2>3, HandedOver DEF ConnectionsAreOwned
  <2>5. WaitersHoldNothing'
    BY <1>1, <2>1 DEF WaitersHoldNothing
  <2> QED
    BY <2>2, <2>4, <2>5
<1>3. CASE next = None /\ Waiting = {}
  <2>1. /\ open' = open - 1
        /\ \A d \in Callers : stage'[d] = IF d = c THEN "idle" ELSE stage[d]
        /\ stage' \in [Callers -> Stages]
    BY <1>3 DEF Return, PoolTypeOK, Stages
  <2>2. Using' = Using \ {c}
    BY <2>1 DEF Using
  <2>3. Cardinality(Using)' = open - 1
    BY <2>2, OneLess
  <2>4. Cardinality(Using)' \in Nat
    <3>1. IsFiniteSet(Using \ {c}) /\ Cardinality(Using \ {c}) \in Nat
      BY UsingIsFinite, FS_RemoveElement, FS_CardinalityType
    <3> QED
      BY <2>2, <3>1
  <2>5. PoolTypeOK'
    BY <1>1, <2>1, <2>3, <2>4 DEF PoolTypeOK
  <2>6. ConnectionsAreOwned'
    BY <2>1, <2>3 DEF ConnectionsAreOwned, PoolTypeOK
  <2>7. WaitersHoldNothing'
    BY <1>1, <2>1 DEF WaitersHoldNothing
  <2> QED
    BY <2>5, <2>6, <2>7
<1> QED
  BY <1>2, <1>3 DEF Return

\* A step that leaves the rows, and the set of callers that use a connection,
\* alone.
LEMMA StagePreserves ==
    ASSUME PoolInv, NEW c \in Callers, NEW s \in Stages,
           stage' = [stage EXCEPT ![c] = s], UNCHANGED <<owner, wants, open>>,
           stage[c] \in {"waiting", "idle"} <=> s \in {"waiting", "idle"}
    PROVE  PoolInv'
<1> USE DEF PoolInv
<1>1. \A d \in Callers : stage'[d] = IF d = c THEN s ELSE stage[d]
  BY DEF PoolTypeOK
<1>2. PoolTypeOK'
  BY DEF PoolTypeOK
<1>3. Using' = Using
  BY <1>1 DEF Using, Stages, PoolTypeOK
<1>4. ConnectionsAreOwned'
  BY <1>3 DEF ConnectionsAreOwned
<1>5. WaitersHoldNothing'
  BY <1>1 DEF WaitersHoldNothing
<1> QED
  BY <1>2, <1>4, <1>5

LEMMA BeginTxPreserves ==
    ASSUME PoolInv, NEW c \in Callers, BeginTx(c)
    PROVE  PoolInv'
<1>1. CASE open < MaxOpenConns /\ open' = open + 1
           /\ stage' = [stage EXCEPT ![c] = "running"]
  <2> USE PoolAssumption DEF PoolInv
  <2>1. /\ stage[c] = "idle" /\ UNCHANGED <<owner, wants>>
        /\ \A d \in Callers : stage'[d] = IF d = c THEN "running" ELSE stage[d]
        /\ stage' \in [Callers -> Stages]
    BY <1>1 DEF BeginTx, PoolTypeOK, Stages
  <2>2. PoolTypeOK'
    BY <1>1, <2>1 DEF PoolTypeOK
  <2>3. Using' = Using \cup {c} /\ c \notin Using
    BY <2>1 DEF Using
  <2>4. ConnectionsAreOwned'
    <3>1. Cardinality(Using)' = open + 1
      BY <2>3, OneMore
    <3> QED
      BY <1>1, <3>1 DEF ConnectionsAreOwned, PoolTypeOK
  <2>5. WaitersHoldNothing'
    BY <2>1 DEF WaitersHoldNothing
  <2> QED
    BY <2>2, <2>4, <2>5
<1>2. CASE open = MaxOpenConns /\ stage' = [stage EXCEPT ![c] = "waiting"]
           /\ UNCHANGED open
  BY <1>2, StagePreserves DEF BeginTx, Stages
<1> QED
  BY <1>1, <1>2 DEF BeginTx

\* A statement that locks a row, or starts to wait for it.
LEMMA RowsPreserve ==
    ASSUME PoolInv, NEW c \in Callers, NEW w \in Rows, Lock(c, w) \/ Block(c, w)
    PROVE  PoolInv'
<1> USE DEF PoolInv
<1>1. /\ stage[c] = "running" /\ UNCHANGED <<stage, open>>
      /\ owner' \in [Rows -> Callers \cup {None}]
      /\ wants' \in [Callers -> Rows \cup {None}]
      /\ \A v \in Rows : owner'[v] \in {owner[v], c}
      /\ \A d \in Callers \ {c} : wants'[d] = wants[d]
  BY DEF Lock, Block, PoolTypeOK
<1>2. PoolTypeOK' /\ WaitersHoldNothing'
  BY <1>1 DEF PoolTypeOK, WaitersHoldNothing
<1>3. Using' = Using
  BY <1>1 DEF Using
<1> QED
  BY <1>1, <1>2, <1>3 DEF ConnectionsAreOwned

-----------------------------------------------------------------------------

LEMMA InitPoolInv == PoolInit => PoolInv
<1> SUFFICES ASSUME PoolInit PROVE PoolInv
  OBVIOUS
<1>1. Using = {}
  BY DEF PoolInit, Using
<1>2. ConnectionsAreOwned
  BY <1>1, FS_EmptySet, PoolAssumption DEF PoolInit, ConnectionsAreOwned
<1> QED
  BY <1>1, <1>2, PoolAssumption
     DEF PoolInit, PoolInv, PoolTypeOK, WaitersHoldNothing, Stages

LEMMA NextPoolInv == PoolInv /\ [PoolNext]_poolVars => PoolInv'
<1> SUFFICES ASSUME PoolInv, [PoolNext]_poolVars PROVE PoolInv'
  OBVIOUS
<1>1. ASSUME NEW c \in Callers, BeginTx(c) PROVE PoolInv'
  BY <1>1, BeginTxPreserves
<1>2. ASSUME NEW c \in Callers, GiveUp(c) PROVE PoolInv'
  BY <1>2, StagePreserves DEF GiveUp, Stages
<1>3. ASSUME NEW c \in Callers, Panic(c) PROVE PoolInv'
  BY <1>3, StagePreserves DEF Panic, Stages
<1>4. ASSUME NEW c \in Callers, NEW w \in Rows, Lock(c, w) \/ Block(c, w) PROVE PoolInv'
  BY <1>4, RowsPreserve
<1>5. ASSUME NEW c \in Callers, NEW next \in Heirs,
             Commit(c, next) \/ Rollback(c, next) \/ ContextDone(c, next)
      PROVE  PoolInv'
  BY <1>5, ReturnPreserves DEF Commit, Rollback, ContextDone, Using
<1>6. CASE UNCHANGED poolVars
  <2>1. UNCHANGED <<stage, owner, wants, open>> /\ Using' = Using
    BY <1>6 DEF poolVars, Using
  <2> QED
    BY <2>1 DEF PoolInv, PoolTypeOK, ConnectionsAreOwned, WaitersHoldNothing
<1> QED
  BY <1>1, <1>2, <1>3, <1>4, <1>5, <1>6 DEF PoolNext

THEOREM PoolInvariant == PoolSpec => []PoolInv
  BY InitPoolInv, NextPoolInv, PTL DEF PoolSpec

\* Every connection that is lent is one call's own, on every way out of
\* WithinTransaction, a panic included.
THEOREM NoConnectionLeaks == PoolSpec => []ConnectionsAreOwned
<1>1. PoolInv => ConnectionsAreOwned
  BY DEF PoolInv
<1> QED
  BY <1>1, PoolInvariant, PTL

\* A call that waits for a connection holds no row lock and waits for none, so
\* a full pool closes no circle of waits.
THEOREM WaitersAreHarmless == PoolSpec => []WaitersHoldNothing
<1>1. PoolInv => WaitersHoldNothing
  BY DEF PoolInv
<1> QED
  BY <1>1, PoolInvariant, PTL

=============================================================================
