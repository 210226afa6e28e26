------------------------------ MODULE Deployment ------------------------------
(***************************************************************************)
(* docker-compose.yml: in each deployment the API is started when its      *)
(* migration runner has succeeded.  Several deployments share a database.  *)
(***************************************************************************)
EXTENDS Migrations, ApiProcess

vars == <<migrations, process>>

\* A runner may also be started by hand, for no API.
ASSUME EachHasARunner == Instances \subseteq Runners

Init == MigrationsInit /\ ProcessInit

\* Fault: the API waits for the runner to start, not to succeed.
Deploy_Early(i) == step[i] # "off" /\ LaunchApi(i) /\ UNCHANGED migrations

\* depends_on: migrate: condition: service_completed_successfully
Deploy(i) == step[i] = "done" /\ LaunchApi(i) /\ UNCHANGED migrations

Next ==
    \/ MigrationsNext /\ UNCHANGED process
    \/ \E i \in Instances :
          \/ Deploy(i)
          \/ (ProcessStep(i) \/ ProcessEnvironment(i)) /\ UNCHANGED migrations

Spec == Init /\ [][Next]_vars

FairSpec == Spec /\ MigrationsFairness /\ ProcessFairness

-----------------------------------------------------------------------------

\* "This guarantees that the schema is consistent at each start": no request is
\* accepted before every migration is in place, whichever deployment's runner
\* applied it and however often runners were killed.
ServesCompleteSchema ==
    \A i \in Instances : listener[i] = "listening" => objects = Versions
=============================================================================
