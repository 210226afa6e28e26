--------------------------- MODULE DeploymentProofs ---------------------------
(***************************************************************************)
(* Proofs about Migrations and Deployment, for any number of deployments,  *)
(* runners, requests, files and crashes.                                   *)
(*                                                                         *)
(* None of the invariants of Migrations is inductive alone.  What is       *)
(* missing is what a runner's place in its loop says (RunnerInv): the      *)
(* files before the one it is at are noted, and they stay noted since      *)
(* nothing is ever taken back from the ledger; its transaction holds a     *)
(* file and its note only together.  That two runners wait for each        *)
(* other's objects is not needed: the primary key of the ledger keeps them *)
(* apart.                                                                  *)
(*                                                                         *)
(* A process is followed by what each place of its main goroutine says of  *)
(* the listener, the pool and the requests (InstanceInv), and joined to    *)
(* the database by one fact: a process that has been started found the     *)
(* schema complete, and no runner takes an object away.                    *)
(***************************************************************************)
EXTENDS Deployment, TLAPS

\* Every file before the one runner r is at is in the ledger.
Passed(r) == \A w \in Versions : w < at[r] => w \in ledger

RunnerInv(r) ==
    /\ step[r] \in {"table", "creating"} => at[r] = 1
    /\ step[r] \in {"check", "execute", "record", "commit", "done"} => Passed(r)
    /\ step[r] \in {"execute", "record", "commit"} => at[r] \in Versions
    /\ step[r] = "done" => at[r] \notin Versions
    /\ step[r] \notin {"record", "commit"} => executed[r] = {}
    /\ step[r] # "commit" => noted[r] = {}
    /\ step[r] = "record" =>
          executed[r] = {at[r]} \/ (executed[r] = {} /\ at[r] \in ledger)
    /\ step[r] = "commit" => noted[r] = {at[r]} /\ executed[r] = {at[r]}

MigrationsInv ==
    /\ MigrationsTypeOK
    /\ LedgerMatchesSchema
    /\ AppliedInOrder
    /\ \A r \in Runners : RunnerInv(r)

\* A step of r leaves the other runners alone, takes no note back and, if it
\* notes a file, notes it with its objects.
Steps(r) ==
    /\ MigrationsTypeOK'
    /\ RunnerInv(r)'
    /\ LedgerMatchesSchema'
    /\ AppliedInOrder'
    /\ ledger \subseteq ledger'
    /\ \A q \in Runners \ {r} :
          /\ step'[q] = step[q] /\ at'[q] = at[q]
          /\ executed'[q] = executed[q] /\ noted'[q] = noted[q]

-----------------------------------------------------------------------------

\* What a runner relies on does not go away while another one steps.
LEMMA StepsAreEnough ==
    ASSUME MigrationsInv, NEW r \in Runners, Steps(r)
    PROVE  MigrationsInv'
<1>1. ASSUME NEW q \in Runners PROVE RunnerInv(q)'
  <2>1. CASE q = r
    BY <2>1 DEF Steps
  <2>2. CASE q # r
    <3>1. RunnerInv(q)
      BY DEF MigrationsInv
    <3>2. /\ step'[q] = step[q] /\ at'[q] = at[q]
          /\ executed'[q] = executed[q] /\ noted'[q] = noted[q]
          /\ ledger \subseteq ledger'
      BY <2>2 DEF Steps
    <3> QED
      BY <3>1, <3>2 DEF RunnerInv, Passed
  <2> QED
    BY <2>1, <2>2
<1> QED
  BY <1>1 DEF MigrationsInv, Steps

\* An error leaves the tables and the place in the loop alone.
LEMMA FatalSteps ==
    ASSUME MigrationsInv, NEW r \in Runners, Fatal(r), crashes' \in Nat
    PROVE  Steps(r)
<1> USE DEF MigrationsInv, MigrationsTypeOK, Fatal, Goto, DropWork, catalog, Labels
<1>1. MigrationsTypeOK'
  OBVIOUS
<1>2. RunnerInv(r)'
  BY DEF RunnerInv
<1>3. LedgerMatchesSchema' /\ AppliedInOrder'
  BY DEF LedgerMatchesSchema, AppliedInOrder
<1> QED
  BY <1>1, <1>2, <1>3 DEF Steps

\* A step that changes only where r stands, to a place whose part of the
\* invariant holds.
LEMMA MoveSteps ==
    ASSUME MigrationsInv, NEW r \in Runners,
           UNCHANGED <<executed, noted, ledger, objects, crashes>>,
           hasLedger' \in BOOLEAN,
           NEW label \in Labels, Goto(r, label),
           at' = [at EXCEPT ![r] = at'[r]], at'[r] \in 1..(LastVersion + 1),
           RunnerInv(r)'
    PROVE  Steps(r)
<1> USE DEF MigrationsInv, MigrationsTypeOK, Goto
<1>1. MigrationsTypeOK'
  OBVIOUS
<1>2. LedgerMatchesSchema' /\ AppliedInOrder'
  BY DEF LedgerMatchesSchema, AppliedInOrder
<1> QED
  BY <1>1, <1>2 DEF Steps

\* The commit publishes a file and its note together, the first one that was
\* not noted yet.
LEMMA PublishSteps ==
    ASSUME MigrationsInv, NEW r \in Runners, step[r] = "commit", PublishWork(r),
           crashes' \in Nat,
           \/ Goto(r, "check") /\ at' = [at EXCEPT ![r] = @ + 1]
           \/ Goto(r, "failed") /\ UNCHANGED at
    PROVE  Steps(r)
<1> USE MigrationsAssumption DEF MigrationsInv, Versions
<1>1. /\ at[r] \in Versions /\ Passed(r)
      /\ noted[r] = {at[r]} /\ executed[r] = {at[r]}
  BY DEF RunnerInv
<1>2. ledger' = ledger \cup {at[r]} /\ ledger' = objects'
  BY <1>1 DEF PublishWork, LedgerMatchesSchema
<1>3. MigrationsTypeOK'
  <2>1. /\ ledger' \subseteq Versions /\ objects' \subseteq Versions
        /\ hasLedger' \in BOOLEAN
    BY <1>1, <1>2 DEF PublishWork, MigrationsTypeOK
  <2>2. /\ executed' \in [Runners -> SUBSET Versions]
        /\ noted' \in [Runners -> SUBSET Versions]
    BY DEF PublishWork, DropWork, MigrationsTypeOK
  <2>3. step' \in [Runners -> Labels]
    BY DEF Goto, Labels, MigrationsTypeOK
  <2>4. at' \in [Runners -> 1..(LastVersion + 1)]
    BY <1>1 DEF MigrationsTypeOK
  <2> QED
    BY <2>1, <2>2, <2>3, <2>4 DEF MigrationsTypeOK
<1>4. AppliedInOrder'
  BY <1>1, <1>2 DEF AppliedInOrder, Passed, MigrationsTypeOK
<1>5. executed'[r] = {} /\ noted'[r] = {}
  BY DEF PublishWork, DropWork, MigrationsTypeOK
<1>6. RunnerInv(r)'
  <2>1. step'[r] = "failed" \/ (step'[r] = "check" /\ at'[r] = at[r] + 1)
    BY DEF Goto, MigrationsTypeOK
  <2>2. CASE step'[r] = "failed"
    BY <2>2, <1>5 DEF RunnerInv
  <2>3. CASE step'[r] = "check" /\ at'[r] = at[r] + 1
    <3>1. Passed(r)'
      BY <2>3, <1>1, <1>2 DEF Passed, MigrationsTypeOK
    <3> QED
      BY <2>3, <3>1, <1>5 DEF RunnerInv
  <2> QED
    BY <2>1, <2>2, <2>3
<1>7. \A q \in Runners \ {r} :
          /\ step'[q] = step[q] /\ at'[q] = at[q]
          /\ executed'[q] = executed[q] /\ noted'[q] = noted[q]
  BY DEF PublishWork, DropWork, Goto, MigrationsTypeOK
<1> QED
  BY <1>2, <1>3, <1>4, <1>6, <1>7 DEF Steps, LedgerMatchesSchema

-----------------------------------------------------------------------------

\* One step per action.
LEMMA RunnerSteps ==
    ASSUME MigrationsInv, NEW r \in Runners,
           Launch(r) \/ RunnerStep(r) \/ Crash(r)
    PROVE  Steps(r)
<1> USE MigrationsAssumption DEF MigrationsInv
<1>0. /\ RunnerInv(r) /\ step[r] \in Labels /\ at[r] \in 1..(LastVersion + 1)
      /\ at = [at EXCEPT ![r] = at[r]] /\ crashes \in Nat /\ hasLedger \in BOOLEAN
      /\ step \in [Runners -> Labels] /\ at \in [Runners -> 1..(LastVersion + 1)]
      /\ executed \in [Runners -> SUBSET Versions]
      /\ noted \in [Runners -> SUBSET Versions]
      /\ ledger \subseteq Versions /\ ledger = objects
  BY DEF MigrationsTypeOK, LedgerMatchesSchema
<1> HIDE DEF MigrationsInv
<1>1. CASE Launch(r)
  <2>1. RunnerInv(r)'
    BY <1>0, <1>1 DEF Launch, Goto, RunnerInv, KeepWork, catalog
  <2>2. 1 \in 1..(LastVersion + 1) /\ at'[r] = 1 /\ "table" \in Labels
    BY <1>0, <1>1 DEF Launch, Labels
  <2> QED
    BY <1>0, <1>1, <2>1, <2>2, MoveSteps DEF Launch, KeepWork, catalog
<1>2. CASE LookForLedger(r)
  <2>1. PICK label \in {"check", "creating"} : Goto(r, label)
    BY <1>2 DEF LookForLedger
  <2>2. step'[r] = label /\ label \in Labels
    BY <1>0, <2>1 DEF Goto, Labels
  <2>3. RunnerInv(r)'
    BY <1>0, <1>2, <2>2 DEF LookForLedger, RunnerInv, Passed, Versions, KeepWork, catalog
  <2> QED
    BY <1>0, <1>2, <2>1, <2>2, <2>3, MoveSteps DEF LookForLedger, KeepWork, catalog
<1>3. CASE CreateLedger(r)
  <2>1. CASE Fatal(r)
    BY <1>0, <1>3, <2>1, FatalSteps DEF CreateLedger
  <2>2. CASE ~Fatal(r)
    <3>1. /\ step[r] = "creating" /\ hasLedger' = TRUE /\ Goto(r, "check")
          /\ UNCHANGED <<executed, noted, ledger, objects, at, crashes>>
      BY <1>3, <2>2 DEF CreateLedger, KeepWork
    <3>2. step'[r] = "check" /\ "check" \in Labels
      BY <1>0, <3>1 DEF Goto, Labels
    <3>3. RunnerInv(r)'
      BY <1>0, <3>1, <3>2 DEF RunnerInv, Passed, Versions
    <3> QED
      BY <1>0, <3>1, <3>2, <3>3, MoveSteps
  <2> QED
    BY <2>1, <2>2
<1>4. CASE CheckApplied(r)
  <2>1. /\ step[r] = "check" /\ Passed(r)
        /\ UNCHANGED <<executed, noted, catalog, crashes>>
    BY <1>0, <1>4 DEF CheckApplied, KeepWork, RunnerInv
  <2>2. CASE at[r] \notin Versions /\ Goto(r, "done") /\ UNCHANGED at
    <3>1. step'[r] = "done" /\ "done" \in Labels
      BY <1>0, <2>2 DEF Goto, Labels
    <3>2. RunnerInv(r)'
      BY <1>0, <2>1, <2>2, <3>1 DEF RunnerInv, Passed, catalog
    <3> QED
      BY <1>0, <2>1, <2>2, <3>1, <3>2, MoveSteps DEF catalog
  <2>3. CASE at[r] \in ledger /\ at' = [at EXCEPT ![r] = @ + 1] /\ UNCHANGED step
    <3>1. at'[r] = at[r] + 1 /\ at'[r] \in 1..(LastVersion + 1)
      BY <1>0, <2>3 DEF Versions
    <3>2. Passed(r)'
      BY <1>0, <2>1, <2>3, <3>1 DEF Passed, Versions, catalog
    <3>3. Goto(r, "check") /\ "check" \in Labels
      BY <1>0, <2>1, <2>3 DEF Goto, Labels
    <3>4. RunnerInv(r)'
      BY <1>0, <2>1, <2>3, <3>2 DEF RunnerInv, catalog
    <3> QED
      BY <1>0, <2>1, <2>3, <3>1, <3>3, <3>4, MoveSteps DEF catalog
  <2>4. CASE at[r] \in Versions \ ledger /\ Goto(r, "execute") /\ UNCHANGED at
    <3>1. step'[r] = "execute" /\ "execute" \in Labels
      BY <1>0, <2>4 DEF Goto, Labels
    <3>2. RunnerInv(r)'
      BY <1>0, <2>1, <2>4, <3>1 DEF RunnerInv, Passed, catalog
    <3> QED
      BY <1>0, <2>1, <2>4, <3>1, <3>2, MoveSteps DEF catalog
  <2> QED
    BY <1>4, <2>2, <2>3, <2>4 DEF CheckApplied
<1>5. CASE Execute(r)
  <2>1. CASE Fatal(r)
    BY <1>0, <1>5, <2>1, FatalSteps DEF Execute
  <2>2. CASE ~Fatal(r)
    <3>1. /\ step[r] = "execute" /\ Goto(r, "record")
          /\ executed' = [executed EXCEPT ![r] = {at[r]} \ objects]
          /\ UNCHANGED <<noted, hasLedger, ledger, objects, at, crashes>>
      BY <1>5, <2>2 DEF Execute, catalog
    <3>2. /\ step'[r] = "record" /\ executed'[r] = {at[r]} \ ledger
          /\ at[r] \in Versions
      BY <1>0, <3>1 DEF Goto, RunnerInv
    <3>3. RunnerInv(r)'
      BY <1>0, <3>1, <3>2 DEF RunnerInv, Passed
    <3>4. executed' \in [Runners -> SUBSET Versions] /\ step' \in [Runners -> Labels]
      BY <1>0, <3>1, <3>2 DEF Goto, Labels
    <3>5. MigrationsTypeOK' /\ LedgerMatchesSchema' /\ AppliedInOrder'
      BY <1>0, <3>1, <3>4
         DEF MigrationsInv, MigrationsTypeOK, LedgerMatchesSchema, AppliedInOrder
    <3> QED
      BY <1>0, <3>1, <3>3, <3>5 DEF Steps, Goto
  <2> QED
    BY <2>1, <2>2
<1>6. CASE Record(r)
  <2>1. CASE Fatal(r)
    BY <1>0, <1>6, <2>1, FatalSteps DEF Record
  <2>2. CASE ~Fatal(r)
    <3>1. /\ step[r] = "record" /\ Goto(r, "commit") /\ at[r] \notin ledger
          /\ noted' = [noted EXCEPT ![r] = {at[r]}]
          /\ UNCHANGED <<executed, hasLedger, ledger, objects, at, crashes>>
      BY <1>6, <2>2 DEF Record, catalog
    <3>2. /\ step'[r] = "commit" /\ noted'[r] = {at[r]}
          /\ at[r] \in Versions /\ executed[r] = {at[r]}
      BY <1>0, <3>1 DEF Goto, RunnerInv
    <3>3. RunnerInv(r)'
      BY <1>0, <3>1, <3>2 DEF RunnerInv, Passed
    <3>4. noted' \in [Runners -> SUBSET Versions] /\ step' \in [Runners -> Labels]
      BY <1>0, <3>1, <3>2 DEF Goto, Labels
    <3>5. MigrationsTypeOK' /\ LedgerMatchesSchema' /\ AppliedInOrder'
      BY <1>0, <3>1, <3>4
         DEF MigrationsInv, MigrationsTypeOK, LedgerMatchesSchema, AppliedInOrder
    <3> QED
      BY <1>0, <3>1, <3>3, <3>5 DEF Steps, Goto
  <2> QED
    BY <2>1, <2>2
<1>7. CASE CommitMigration(r)
  BY <1>0, <1>7, PublishSteps DEF CommitMigration
<1>8. CASE Crash(r)
  <2>1. crashes' \in Nat
    BY <1>0, <1>8 DEF Crash
  <2> QED
    BY <1>8, <2>1, FatalSteps, PublishSteps DEF Crash
<1> QED
  BY <1>1, <1>2, <1>3, <1>4, <1>5, <1>6, <1>7, <1>8 DEF RunnerStep

\* The invariant holds at the start, of an empty database.
LEMMA InitMigrationsInv == MigrationsInit => MigrationsInv
<1> SUFFICES ASSUME MigrationsInit PROVE MigrationsInv
  OBVIOUS
<1>1. MigrationsTypeOK
  <2>1. LastVersion \in Nat /\ 1 \in 1..(LastVersion + 1)
    BY MigrationsAssumption
  <2>2. at \in [Runners -> 1..(LastVersion + 1)] /\ step \in [Runners -> Labels]
    BY <2>1 DEF MigrationsInit, Labels
  <2> QED
    BY <2>2 DEF MigrationsInit, MigrationsTypeOK
<1> QED
  BY <1>1 DEF MigrationsInit, MigrationsInv, LedgerMatchesSchema, AppliedInOrder, RunnerInv

\* Every step of the runners preserves it, a stuttering step included.
LEMMA NextMigrationsInv == MigrationsInv /\ [MigrationsNext]_migrations => MigrationsInv'
<1> SUFFICES ASSUME MigrationsInv, [MigrationsNext]_migrations PROVE MigrationsInv'
  OBVIOUS
<1>1. CASE MigrationsNext
  BY <1>1, RunnerSteps, StepsAreEnough DEF MigrationsNext
<1>2. CASE UNCHANGED migrations
  <2>1. UNCHANGED <<hasLedger, ledger, objects, executed, noted, step, at, crashes>>
    BY <1>2 DEF migrations, catalog, runner
  <2>2. MigrationsTypeOK' /\ LedgerMatchesSchema' /\ AppliedInOrder'
    BY <2>1 DEF MigrationsInv, MigrationsTypeOK, LedgerMatchesSchema, AppliedInOrder
  <2>3. ASSUME NEW r \in Runners PROVE RunnerInv(r)'
    BY <2>1 DEF MigrationsInv, RunnerInv, Passed
  <2> QED
    BY <2>2, <2>3 DEF MigrationsInv
<1> QED
  BY <1>1, <1>2

\* A runner that is done stands behind the last file.
LEMMA DoneIsComplete == MigrationsInv => DoneMeansComplete
<1> SUFFICES ASSUME MigrationsInv, NEW r \in Runners, step[r] = "done"
             PROVE  objects = Versions
  BY DEF DoneMeansComplete
<1>1. Passed(r) /\ at[r] \notin Versions /\ at[r] \in 1..(LastVersion + 1)
  BY DEF MigrationsInv, RunnerInv, MigrationsTypeOK
<1>2. \A w \in Versions : w \in ledger
  BY <1>1, MigrationsAssumption DEF Passed, Versions
<1> QED
  BY <1>2 DEF MigrationsInv, MigrationsTypeOK, LedgerMatchesSchema

\* The invariant, for any number of runners that race and are killed anywhere,
\* any number of times.
THEOREM MigrationsInvariant == MigrationsSpec => []MigrationsInv
  BY InitMigrationsInv, NextMigrationsInv, PTL DEF MigrationsSpec

\* What schema_migrations says is applied is what exists.
THEOREM LedgerIsTrue == MigrationsSpec => []LedgerMatchesSchema
<1>1. MigrationsInv => LedgerMatchesSchema
  BY DEF MigrationsInv
<1> QED
  BY <1>1, MigrationsInvariant, PTL

\* No file is applied before those with lower numbers.
THEOREM OrderIsKept == MigrationsSpec => []AppliedInOrder
<1>1. MigrationsInv => AppliedInOrder
  BY DEF MigrationsInv
<1> QED
  BY <1>1, MigrationsInvariant, PTL

\* A runner that exits with success leaves the whole schema behind.
THEOREM SuccessIsComplete == MigrationsSpec => []DoneMeansComplete
  BY DoneIsComplete, MigrationsInvariant, PTL

-----------------------------------------------------------------------------

NothingCut(i) == \A q \in Clients : request[i][q] # "cut"
NothingActive(i) == \A q \in Clients : request[i][q] # "active"

\* Requests come in only while main waits for a signal; once Shutdown has been
\* called the listener never listens again.
InstanceInv(i) ==
    /\ main[i] \in {"down", "connect", "spawn", "end"} =>
          listener[i] = "none" /\ NothingActive(i)
    /\ main[i] \in {"spawn", "notify", "select", "shutdown", "drain"} => pool[i]
    /\ main[i] \in {"drain", "close", "abandon"} => listener[i] # "listening"
    /\ main[i] = "close" => NothingActive(i)
    /\ main[i] = "abandon" => expired[i]
    /\ main[i] \notin {"abandon", "end"} => NothingCut(i)
    /\ main[i] # "end" => exited[i] = "none"
    /\ exited[i] = "graceful" => NothingCut(i)

ProcessInv == ProcessTypeOK /\ \A i \in Instances : InstanceInv(i)

\* A step of process i leaves the others alone.
Apart(i) ==
    \A j \in Instances \ {i} :
        /\ main'[j] = main[j] /\ listener'[j] = listener[j]
        /\ pool'[j] = pool[j] /\ expired'[j] = expired[j]
        /\ request'[j] = request[j] /\ exited'[j] = exited[j]

-----------------------------------------------------------------------------

LEMMA ApartIsEnough ==
    ASSUME ProcessInv, NEW i \in Instances, ProcessTypeOK', Apart(i), InstanceInv(i)'
    PROVE  ProcessInv'
<1>1. ASSUME NEW j \in Instances, j # i PROVE InstanceInv(j)'
  BY <1>1 DEF ProcessInv, InstanceInv, Apart, NothingCut, NothingActive
<1> QED
  BY <1>1 DEF ProcessInv

\* However a process ends, its requests end with it; it may only be called
\* graceful when none was cut off.
LEMMA EndKeeps ==
    ASSUME ProcessInv, NEW i \in Instances, NEW outcome \in Outcomes, End(i, outcome),
           outcome = "graceful" => NothingCut(i) /\ NothingActive(i)
    PROVE  ProcessInv'
<1> USE DEF ProcessInv
<1>1. ProcessTypeOK'
  <2>1. request' \in [Instances -> [Clients -> Requests]]
    BY DEF End, ProcessTypeOK, Requests
  <2>2. /\ main' \in [Instances -> MainLabels]
        /\ listener' \in [Instances -> Listening]
        /\ pool' \in [Instances -> BOOLEAN]
        /\ exited' \in [Instances -> Outcomes]
    BY DEF End, MainGoto, ProcessTypeOK, MainLabels, Listening
  <2> QED
    BY <2>1, <2>2 DEF End, ProcessTypeOK
<1>2. Apart(i)
  BY DEF Apart, End, MainGoto, ProcessTypeOK
<1>3. /\ main'[i] = "end" /\ listener'[i] = "none" /\ exited'[i] = outcome
      /\ \A q \in Clients : request'[i][q] =
            IF request[i][q] = "active" THEN "cut" ELSE request[i][q]
  BY DEF End, MainGoto, ProcessTypeOK
<1>4. InstanceInv(i)'
  BY <1>3 DEF InstanceInv, NothingCut, NothingActive
<1> QED
  BY <1>1, <1>2, <1>4, ApartIsEnough

\* A step of main that leaves the listener, the requests and the pool alone.
LEMMA MainMoves ==
    ASSUME ProcessInv, NEW i \in Instances, NEW label \in MainLabels, MainGoto(i, label),
           UNCHANGED <<listener, serverErr, pool, expired, request, exited>>,
           signalled' \in [Instances -> BOOLEAN],
           main[i] # "end", label # "end", InstanceInv(i)'
    PROVE  ProcessInv'
<1> USE DEF ProcessInv
<1>1. ProcessTypeOK'
  BY DEF MainGoto, ProcessTypeOK
<1>2. Apart(i)
  BY DEF Apart, MainGoto, ProcessTypeOK
<1> QED
  BY <1>1, <1>2, ApartIsEnough

\* A step of the goroutine that listens.
LEMMA ListenerMoves ==
    ASSUME ProcessInv, NEW i \in Instances, NEW state \in Listening,
           listener' = [listener EXCEPT ![i] = state],
           listener[i] # "none",
           state = "listening" => ~ShuttingDown(i),
           serverErr' \in [Instances -> Errors \cup {"nothing"}],
           UNCHANGED <<main, signalled, pool, expired, request, exited>>
    PROVE  ProcessInv'
<1> USE DEF ProcessInv
<1>1. ProcessTypeOK'
  BY DEF ProcessTypeOK
<1>2. Apart(i)
  BY DEF Apart, ProcessTypeOK
<1>3. InstanceInv(i)'
  BY DEF InstanceInv, NothingCut, NothingActive, ProcessTypeOK, ShuttingDown
<1> QED
  BY <1>1, <1>2, <1>3, ApartIsEnough

-----------------------------------------------------------------------------

\* The steps of the main goroutine, from its start to its end.
LEMMA MainPreserves ==
    ASSUME ProcessInv, NEW i \in Instances, LaunchApi(i) \/ MainStep(i)
    PROVE  ProcessInv'
<1> USE DEF ProcessInv
<1>0. /\ InstanceInv(i)
      /\ main \in [Instances -> MainLabels] /\ signalled \in [Instances -> BOOLEAN]
      /\ listener \in [Instances -> Listening] /\ pool \in [Instances -> BOOLEAN]
  BY DEF ProcessTypeOK
<1> HIDE DEF ProcessInv
<1> USE DEF MainLabels, InstanceInv, NothingCut, NothingActive
<1>1. CASE LaunchApi(i)
  <2>1. main'[i] = "connect"
    BY <1>0, <1>1 DEF LaunchApi, MainGoto
  <2>2. InstanceInv(i)'
    BY <1>0, <1>1, <2>1 DEF LaunchApi
  <2>3. main[i] # "end" /\ signalled' \in [Instances -> BOOLEAN]
    BY <1>0, <1>1 DEF LaunchApi
  <2> HIDE DEF InstanceInv
  <2> QED
    BY <1>1, <2>2, <2>3, MainMoves DEF LaunchApi
<1>2. CASE Connect(i)
  <2>1. CASE End(i, "fatal")
    BY <2>1, EndKeeps DEF Outcomes
  <2>2. CASE ~End(i, "fatal")
    <3>1. /\ main[i] = "connect" /\ MainGoto(i, "spawn")
          /\ pool' = [pool EXCEPT ![i] = TRUE]
          /\ UNCHANGED <<listener, serverErr, signalled, expired, request, exited>>
      BY <1>2, <2>2 DEF Connect
    <3>2. main'[i] = "spawn" /\ pool'[i]
      BY <1>0, <3>1 DEF MainGoto
    <3>3. InstanceInv(i)'
      BY <1>0, <3>1, <3>2
    <3>4. ProcessTypeOK' /\ Apart(i)
      BY <1>0, <3>1 DEF ProcessInv, ProcessTypeOK, Apart, MainGoto
    <3> QED
      BY <3>3, <3>4, ApartIsEnough
  <2> QED
    BY <2>1, <2>2
<1>3. CASE Spawn(i)
  <2>1. /\ main[i] = "spawn" /\ MainGoto(i, "notify")
        /\ listener' = [listener EXCEPT ![i] = "spawned"]
        /\ UNCHANGED <<serverErr, signalled, pool, expired, request, exited>>
    BY <1>3 DEF Spawn
  <2>2. main'[i] = "notify" /\ listener'[i] = "spawned"
    BY <1>0, <2>1 DEF MainGoto
  <2>3. pool[i]
    BY <1>0, <2>1
  <2>4. InstanceInv(i)'
    BY <1>0, <2>1, <2>2, <2>3
  <2>5. ProcessTypeOK' /\ Apart(i)
    BY <1>0, <2>1 DEF ProcessInv, ProcessTypeOK, Apart, MainGoto, Listening
  <2> QED
    BY <2>4, <2>5, ApartIsEnough
<1>4. CASE Notify(i)
  <2>1. main'[i] = "select"
    BY <1>0, <1>4 DEF Notify, MainGoto
  <2>2. InstanceInv(i)'
    BY <1>0, <1>4, <2>1 DEF Notify
  <2> QED
    BY <1>0, <1>4, <2>2, MainMoves DEF Notify
<1>5. CASE SelectError(i)
  BY <1>5, EndKeeps DEF SelectError, Outcomes
<1>6. CASE SelectSignal(i)
  <2>1. main'[i] = "shutdown" /\ signalled' \in [Instances -> BOOLEAN]
    BY <1>0, <1>6 DEF SelectSignal, MainGoto
  <2>2. InstanceInv(i)'
    BY <1>0, <1>6, <2>1 DEF SelectSignal
  <2> QED
    BY <1>0, <1>6, <2>1, <2>2, MainMoves DEF SelectSignal
<1>7. CASE Shutdown(i)
  <2>1. /\ main[i] = "shutdown" /\ main'[i] = "drain" /\ listener'[i] # "listening"
    BY <1>0, <1>7 DEF Shutdown, MainGoto, Listening
  <2>2. InstanceInv(i)'
    BY <1>0, <1>7, <2>1 DEF Shutdown
  <2>3. ProcessTypeOK' /\ Apart(i)
    BY <1>0, <1>7 DEF Shutdown, ProcessInv, ProcessTypeOK, Apart, MainGoto, Listening
  <2> QED
    BY <2>2, <2>3, ApartIsEnough
<1>8. CASE Drained(i)
  <2>1. CASE InFlight(i) = {} /\ MainGoto(i, "close")
    <3>1. main'[i] = "close"
      BY <1>0, <2>1 DEF MainGoto
    <3>2. NothingActive(i)
      BY <2>1 DEF InFlight
    <3>3. InstanceInv(i)'
      BY <1>0, <1>8, <3>1, <3>2 DEF Drained
    <3> QED
      BY <1>0, <1>8, <2>1, <3>3, MainMoves DEF Drained
  <2>2. CASE expired[i] /\ MainGoto(i, "abandon")
    <3>1. main'[i] = "abandon"
      BY <1>0, <2>2 DEF MainGoto
    <3>2. InstanceInv(i)'
      BY <1>0, <1>8, <2>2, <3>1 DEF Drained
    <3> QED
      BY <1>0, <1>8, <2>2, <3>2, MainMoves DEF Drained
  <2> QED
    BY <1>8, <2>1, <2>2 DEF Drained
<1>9. CASE ClosePool(i)
  <2>1. CASE pool[i]
    <3>1. /\ main[i] \in {"close", "abandon"}
          /\ pool' = [pool EXCEPT ![i] = FALSE]
          /\ UNCHANGED <<main, listener, serverErr, signalled, expired, request, exited>>
      BY <1>9, <2>1 DEF ClosePool
    <3>2. InstanceInv(i)'
      BY <1>0, <3>1
    <3>3. ProcessTypeOK' /\ Apart(i)
      BY <1>0, <3>1 DEF ProcessInv, ProcessTypeOK, Apart
    <3> QED
      BY <3>2, <3>3, ApartIsEnough
  <2>2. CASE ~pool[i]
    <3>1. PICK outcome \in {"graceful", "timeout"} :
            End(i, outcome) /\ (outcome = "graceful" => main[i] = "close")
      BY <1>9, <2>2 DEF ClosePool
    <3>2. outcome = "graceful" => NothingCut(i) /\ NothingActive(i)
      BY <1>0, <3>1
    <3> QED
      BY <3>1, <3>2, EndKeeps DEF Outcomes
  <2> QED
    BY <2>1, <2>2
<1> QED
  BY <1>1, <1>2, <1>3, <1>4, <1>5, <1>6, <1>7, <1>8, <1>9 DEF MainStep

\* The listener, the clock of the shutdown, requests and signals.
LEMMA OthersPreserve ==
    ASSUME ProcessInv, NEW i \in Instances,
           Listen(i) \/ Report(i) \/ Expire(i) \/ ProcessEnvironment(i)
    PROVE  ProcessInv'
<1>0. /\ InstanceInv(i) /\ ProcessTypeOK
      /\ main \in [Instances -> MainLabels] /\ signalled \in [Instances -> BOOLEAN]
      /\ listener \in [Instances -> Listening] /\ expired \in [Instances -> BOOLEAN]
      /\ serverErr \in [Instances -> Errors \cup {"nothing"}]
      /\ request \in [Instances -> [Clients -> Requests]]
  BY DEF ProcessInv, ProcessTypeOK
<1>1. CASE Listen(i)
  <2>1. PICK next \in Listening :
          /\ listener' = [listener EXCEPT ![i] = next]
          /\ next = "listening" => ~ShuttingDown(i)
    BY <1>1 DEF Listen, Listening
  <2> QED
    BY <1>0, <1>1, <2>1, ListenerMoves DEF Listen
<1>2. CASE Report(i)
  <2>1. serverErr' \in [Instances -> Errors \cup {"nothing"}]
    BY <1>0, <1>2 DEF Report, Errors
  <2> QED
    BY <1>0, <1>2, <2>1, ListenerMoves DEF Report, Listening
<1>3. CASE Expire(i)
  <2>1. ProcessTypeOK' /\ Apart(i) /\ expired'[i]
    BY <1>0, <1>3 DEF Expire, ProcessTypeOK, Apart
  <2>2. InstanceInv(i)'
    BY <1>0, <1>3, <2>1 DEF Expire, InstanceInv, NothingCut, NothingActive
  <2> QED
    BY <2>1, <2>2, ApartIsEnough
<1>4. CASE Signal(i)
  <2>1. CASE End(i, "killed")
    BY <2>1, EndKeeps DEF Outcomes
  <2>2. CASE ~End(i, "killed")
    <3>1. ProcessTypeOK' /\ Apart(i)
      BY <1>0, <1>4, <2>2 DEF Signal, ProcessTypeOK, Apart
    <3>2. InstanceInv(i)'
      BY <1>0, <1>4, <2>2 DEF Signal, InstanceInv, NothingCut, NothingActive
    <3> QED
      BY <3>1, <3>2, ApartIsEnough
  <2> QED
    BY <2>1, <2>2
<1>5. ASSUME NEW q \in Clients, Accept(i, q) PROVE ProcessInv'
  <2>1. /\ listener[i] = "listening"
        /\ \A c \in Clients : request'[i][c] =
              IF c = q THEN "active" ELSE request[i][c]
    BY <1>0, <1>5 DEF Accept
  <2>2. ProcessTypeOK' /\ Apart(i)
    BY <1>0, <1>5 DEF Accept, ProcessTypeOK, Apart, Requests
  <2>3. InstanceInv(i)'
    BY <1>0, <1>5, <2>1 DEF Accept, InstanceInv, NothingCut, NothingActive
  <2> QED
    BY <2>2, <2>3, ApartIsEnough
<1>6. ASSUME NEW q \in Clients, Serve(i, q) PROVE ProcessInv'
  <2>1. /\ request[i][q] = "active"
        /\ \A c \in Clients : request'[i][c] =
              IF c # q THEN request[i][c] ELSE IF pool[i] THEN "idle" ELSE "cut"
    BY <1>0, <1>6 DEF Serve
  <2>2. ProcessTypeOK' /\ Apart(i)
    BY <1>0, <1>6 DEF Serve, ProcessTypeOK, Apart, Requests
  <2>3. main[i] \in {"notify", "select", "shutdown", "drain", "abandon"}
    BY <1>0, <2>1 DEF InstanceInv, NothingActive, MainLabels
  <2>4. main[i] # "abandon" => pool[i]
    BY <1>0, <2>3 DEF InstanceInv
  <2>5. InstanceInv(i)'
    BY <1>0, <1>6, <2>1, <2>3, <2>4 DEF Serve, InstanceInv, NothingCut, NothingActive
  <2> QED
    BY <2>2, <2>5, ApartIsEnough
<1> QED
  BY <1>1, <1>2, <1>3, <1>4, <1>5, <1>6 DEF ProcessEnvironment

-----------------------------------------------------------------------------
(* The processes and the runners together.                                 *)

StartedOnSchema == \A i \in Instances : main[i] # "down" => objects = Versions

DeploymentInv == MigrationsInv /\ ProcessInv /\ StartedOnSchema

LEMMA InitDeploymentInv == Init => DeploymentInv
<1> SUFFICES ASSUME Init PROVE DeploymentInv
  OBVIOUS
<1>1. MigrationsInv
  BY InitMigrationsInv DEF Init
<1>2. ProcessTypeOK
  BY DEF Init, ProcessInit, ProcessTypeOK, MainLabels, Listening, Outcomes, Requests
<1>3. ASSUME NEW i \in Instances PROVE InstanceInv(i)
  BY DEF Init, ProcessInit, InstanceInv, NothingCut, NothingActive
<1> QED
  BY <1>1, <1>2, <1>3 DEF Init, ProcessInit, DeploymentInv, ProcessInv, StartedOnSchema

\* A process that runs or has ended was started; only Deploy starts one.
LEMMA OnlyDeployStarts ==
    ASSUME ProcessInv, NEW i \in Instances, ProcessStep(i) \/ ProcessEnvironment(i)
    PROVE  \A j \in Instances : main'[j] # "down" => main[j] # "down"
<1>1. main \in [Instances -> MainLabels] /\ InstanceInv(i)
  BY DEF ProcessInv, ProcessTypeOK
<1>2. main[i] # "down"
  <2>1. CASE main[i] = "down"
    <3>1. listener[i] = "none" /\ NothingActive(i)
      BY <1>1, <2>1 DEF InstanceInv
    <3> QED
      BY <2>1, <3>1 DEF ProcessStep, ProcessEnvironment, MainStep, Connect, Spawn,
         Notify, SelectError, SelectSignal, Shutdown, Drained, ClosePool, Listen,
         Report, Expire, Signal, Accept, Serve, NothingActive
  <2> QED
    BY <2>1
<1>3. \A j \in Instances \ {i} : main'[j] = main[j]
  BY <1>1 DEF ProcessStep, ProcessEnvironment, MainStep, Connect, Spawn, Notify,
     SelectError, SelectSignal, Shutdown, Drained, ClosePool, Listen, Report,
     Expire, Signal, Accept, Serve, End, MainGoto
<1> QED
  BY <1>2, <1>3

LEMMA NextDeploymentInv == DeploymentInv /\ [Next]_vars => DeploymentInv'
<1> SUFFICES ASSUME DeploymentInv, [Next]_vars PROVE DeploymentInv'
  OBVIOUS
<1> USE DEF DeploymentInv
<1>1. CASE MigrationsNext /\ UNCHANGED process
  <2>1. MigrationsInv'
    BY <1>1, NextMigrationsInv
  <2>2. ProcessInv'
    BY <1>1 DEF process, ProcessInv, ProcessTypeOK, InstanceInv, NothingCut, NothingActive
  <2>3. objects \subseteq objects' /\ objects' \subseteq Versions
    <3>1. PICK r \in Runners : Launch(r) \/ RunnerStep(r) \/ Crash(r)
      BY <1>1 DEF MigrationsNext
    <3>2. Steps(r)
      BY <3>1, RunnerSteps
    <3> QED
      BY <3>2 DEF Steps, LedgerMatchesSchema, MigrationsTypeOK, MigrationsInv
  <2>4. StartedOnSchema'
    BY <1>1, <2>3 DEF StartedOnSchema, process
  <2> QED
    BY <2>1, <2>2, <2>4
<1>2. ASSUME UNCHANGED migrations PROVE MigrationsInv' /\ UNCHANGED objects
  <2>1. MigrationsInv'
    BY <1>2, NextMigrationsInv
  <2> QED
    BY <1>2, <2>1 DEF migrations, catalog
<1>3. ASSUME NEW i \in Instances, Deploy(i) PROVE DeploymentInv'
  <2>1. step[i] = "done" /\ LaunchApi(i) /\ UNCHANGED migrations
    BY <1>3 DEF Deploy
  <2>2. objects = Versions
    BY <2>1, DoneIsComplete, EachHasARunner DEF DoneMeansComplete
  <2>3. ProcessInv'
    BY <2>1, MainPreserves
  <2> QED
    BY <2>1, <2>2, <2>3, <1>2 DEF StartedOnSchema
<1>4. ASSUME NEW i \in Instances, ProcessStep(i) \/ ProcessEnvironment(i),
             UNCHANGED migrations
      PROVE  DeploymentInv'
  <2>1. ProcessInv'
    BY <1>4, MainPreserves, OthersPreserve DEF ProcessStep
  <2> QED
    BY <1>2, <1>4, <2>1, OnlyDeployStarts DEF StartedOnSchema
<1>5. CASE UNCHANGED vars
  <2>1. UNCHANGED migrations /\ UNCHANGED process
    BY <1>5 DEF vars
  <2>2. ProcessInv'
    BY <2>1 DEF process, ProcessInv, ProcessTypeOK, InstanceInv, NothingCut, NothingActive
  <2> QED
    BY <1>2, <2>1, <2>2 DEF StartedOnSchema, process
<1> QED
  BY <1>1, <1>3, <1>4, <1>5 DEF Next

THEOREM DeploymentInvariant == Spec => []DeploymentInv
  BY InitDeploymentInv, NextDeploymentInv, PTL DEF Spec

\* No request is accepted before every migration is in place, however many
\* deployments share the database and however often their runners are killed.
THEOREM SchemaIsServedComplete == Spec => []ServesCompleteSchema
<1>1. DeploymentInv => ServesCompleteSchema
  BY DEF DeploymentInv, ProcessInv, InstanceInv, StartedOnSchema, ServesCompleteSchema
<1> QED
  BY <1>1, DeploymentInvariant, PTL

\* A process that says it stopped gracefully has cut off no request.
THEOREM GracefulIsTrue == Spec => []GracefulLosesNothing
<1>1. DeploymentInv => GracefulLosesNothing
  BY DEF DeploymentInv, ProcessInv, InstanceInv, NothingCut, GracefulLosesNothing
<1> QED
  BY <1>1, DeploymentInvariant, PTL

\* While a request is in flight the pool is open, unless the ten seconds of the
\* shutdown have passed.
THEOREM PoolStaysOpen == Spec => []PoolOutlivesRequests
<1>1. DeploymentInv => PoolOutlivesRequests
  <2> SUFFICES ASSUME DeploymentInv, NEW i \in Instances, InFlight(i) # {}, ~pool[i]
               PROVE  expired[i]
    BY DEF PoolOutlivesRequests
  <2>1. ~NothingActive(i)
    BY DEF InFlight, NothingActive
  <2>2. main[i] \in MainLabels /\ InstanceInv(i)
    BY DEF DeploymentInv, ProcessInv, ProcessTypeOK
  <2> QED
    BY <2>1, <2>2 DEF InstanceInv, MainLabels
<1> QED
  BY <1>1, DeploymentInvariant, PTL

=============================================================================
