------------------------------ MODULE ApiProcess ------------------------------
(***************************************************************************)
(* cmd/api: the life of one server process: connect, listen in a goroutine *)
(* of its own, wait for a signal, shut down gracefully for at most ten     *)
(* seconds, close the connection pool.  net/http and database/sql are      *)
(* modelled by what main relies on.                                        *)
(***************************************************************************)
EXTENDS Naturals

CONSTANTS
    Instances,      \* processes, each with a deployment of its own
    Clients         \* requests that may be in flight at once in a process

VARIABLES
    main,           \* next statement of the main goroutine
    listener,       \* state of the goroutine that listens
    serverErr,      \* what is in the one slot of the channel
    signalled,      \* a signal is in the channel shutdownSignal
    pool,           \* the connection pool is open
    expired,        \* the ten seconds of Shutdown have passed
    request,        \* what each client's request is
    exited          \* how the process ended

process == <<main, listener, serverErr, signalled, pool, expired, request, exited>>

MainLabels == {"down", "connect", "spawn", "notify", "select", "shutdown",
               "drain", "close", "abandon", "end"}
Listening  == {"none", "spawned", "listening", "failing", "closing", "returned"}
Outcomes   == {"none", "graceful", "timeout", "fatal", "killed"}
Errors     == {"closed", "failed"}     \* http.ErrServerClosed, any other
Requests   == {"idle", "active", "cut"}

ProcessInit ==
    /\ main = [i \in Instances |-> "down"]
    /\ listener = [i \in Instances |-> "none"]
    /\ serverErr = [i \in Instances |-> "nothing"]
    /\ signalled = [i \in Instances |-> FALSE]
    /\ pool = [i \in Instances |-> FALSE]
    /\ expired = [i \in Instances |-> FALSE]
    /\ request = [i \in Instances |-> [q \in Clients |-> "idle"]]
    /\ exited = [i \in Instances |-> "none"]

InFlight(i) == {q \in Clients : request[i][q] = "active"}

MainGoto(i, label) == main' = [main EXCEPT ![i] = label]

\* The process ends, and everything in it: requests in flight are cut off.
End(i, outcome) ==
    /\ MainGoto(i, "end")
    /\ exited' = [exited EXCEPT ![i] = outcome]
    /\ pool' = [pool EXCEPT ![i] = FALSE]
    /\ listener' = [listener EXCEPT ![i] = "none"]
    /\ request' = [request EXCEPT ![i] =
                     [q \in Clients |-> IF @[q] = "active" THEN "cut" ELSE @[q]]]
    /\ UNCHANGED <<serverErr, signalled, expired>>

-----------------------------------------------------------------------------
(* The main goroutine.                                                     *)

LaunchApi(i) ==
    /\ main[i] = "down"
    /\ MainGoto(i, "connect")
    /\ UNCHANGED <<listener, serverErr, signalled, pool, expired, request, exited>>

\* database.NewPostgres pings the database.
Connect(i) ==
    /\ main[i] = "connect"
    /\ \/ End(i, "fatal")
       \/ /\ pool' = [pool EXCEPT ![i] = TRUE]
          /\ MainGoto(i, "spawn")
          /\ UNCHANGED <<listener, serverErr, signalled, expired, request, exited>>

Spawn(i) ==
    /\ main[i] = "spawn"
    /\ listener' = [listener EXCEPT ![i] = "spawned"]
    /\ MainGoto(i, "notify")
    /\ UNCHANGED <<serverErr, signalled, pool, expired, request, exited>>

Notify(i) ==
    /\ main[i] = "notify"
    /\ MainGoto(i, "select")
    /\ UNCHANGED <<listener, serverErr, signalled, pool, expired, request, exited>>

\* Nobody has closed the server yet, so an error here is a failure to listen:
\* log.Fatalf, which runs no deferred call.
SelectError(i) ==
    /\ main[i] = "select" /\ serverErr[i] = "failed"
    /\ End(i, "fatal")

SelectSignal(i) ==
    /\ main[i] = "select" /\ signalled[i]
    /\ signalled' = [signalled EXCEPT ![i] = FALSE]
    /\ MainGoto(i, "shutdown")
    /\ UNCHANGED <<listener, serverErr, pool, expired, request, exited>>

\* Fault: the pool is closed before the requests have drained.
Shutdown_ClosesPool(i) ==
    /\ main[i] = "shutdown"
    /\ MainGoto(i, "drain")
    /\ pool' = [pool EXCEPT ![i] = FALSE]
    /\ listener' = [listener EXCEPT ![i] = IF @ = "listening" THEN "closing" ELSE @]
    /\ UNCHANGED <<serverErr, signalled, expired, request, exited>>

\* server.Shutdown closes the listeners, and waits.
Shutdown(i) ==
    /\ main[i] = "shutdown"
    /\ MainGoto(i, "drain")
    /\ listener' = [listener EXCEPT ![i] = IF @ = "listening" THEN "closing" ELSE @]
    /\ UNCHANGED <<serverErr, signalled, pool, expired, request, exited>>

\* Fault: the context of Shutdown has no deadline.
Expire_Never(i) == FALSE /\ UNCHANGED process

\* The ten seconds of shutdownCtx.
Expire(i) ==
    /\ main[i] = "drain" /\ ~expired[i]
    /\ expired' = [expired EXCEPT ![i] = TRUE]
    /\ UNCHANGED <<main, listener, serverErr, signalled, pool, request, exited>>

\* Fault: the server is closed at once instead of drained.
Drained_AtOnce(i) ==
    /\ main[i] = "drain"
    /\ MainGoto(i, "close")
    /\ UNCHANGED <<listener, serverErr, signalled, pool, expired, request, exited>>

\* Shutdown returns when no request is in flight, or with the context's error.
Drained(i) ==
    /\ main[i] = "drain"
    /\ \/ InFlight(i) = {} /\ MainGoto(i, "close")
       \/ expired[i] /\ MainGoto(i, "abandon")
    /\ UNCHANGED <<listener, serverErr, signalled, pool, expired, request, exited>>

\* The deferred db.Close, and the end of main.
ClosePool(i) ==
    /\ main[i] \in {"close", "abandon"}
    /\ \/ /\ pool[i]
          /\ pool' = [pool EXCEPT ![i] = FALSE]
          /\ UNCHANGED <<main, listener, serverErr, signalled, expired, request, exited>>
       \/ /\ ~pool[i]
          /\ End(i, IF main[i] = "close" THEN "graceful" ELSE "timeout")

MainStep(i) ==
    \/ Connect(i) \/ Spawn(i) \/ Notify(i) \/ SelectError(i) \/ SelectSignal(i)
    \/ Shutdown(i) \/ Drained(i) \/ ClosePool(i)

-----------------------------------------------------------------------------
(* The goroutine that listens, and those that serve.                       *)

ShuttingDown(i) == main[i] \in {"drain", "close", "abandon"}

\* ListenAndServe gives up at once when Shutdown has been called before it.
Listen(i) ==
    /\ listener[i] = "spawned"
    /\ \E next \in IF ShuttingDown(i) THEN {"closing"} ELSE {"listening", "failing"} :
          listener' = [listener EXCEPT ![i] = next]
    /\ UNCHANGED <<main, serverErr, signalled, pool, expired, request, exited>>

\* It sends what ListenAndServe returned; the channel has room for it, whether
\* or not main still receives.
Report(i) ==
    /\ listener[i] \in {"closing", "failing"} /\ serverErr[i] = "nothing"
    /\ serverErr' = [serverErr EXCEPT ![i] =
                       IF listener[i] = "closing" THEN "closed" ELSE "failed"]
    /\ listener' = [listener EXCEPT ![i] = "returned"]
    /\ UNCHANGED <<main, signalled, pool, expired, request, exited>>

Accept(i, q) ==
    /\ listener[i] = "listening" /\ request[i][q] = "idle"
    /\ request' = [request EXCEPT ![i][q] = "active"]
    /\ UNCHANGED <<main, listener, serverErr, signalled, pool, expired, exited>>

\* A handler needs the database for its answer.
Serve(i, q) ==
    /\ request[i][q] = "active"
    /\ request' = [request EXCEPT ![i][q] = IF pool[i] THEN "idle" ELSE "cut"]
    /\ UNCHANGED <<main, listener, serverErr, signalled, pool, expired, exited>>

\* SIGINT or SIGTERM.  Before signal.Notify it kills the process; after, the
\* channel keeps one and drops the others.
Signal(i) ==
    \/ /\ main[i] \in {"connect", "spawn", "notify"}
       /\ End(i, "killed")
    \/ /\ main[i] \notin {"down", "connect", "spawn", "notify", "end"}
       /\ signalled' = [signalled EXCEPT ![i] = TRUE]
       /\ UNCHANGED <<main, listener, serverErr, pool, expired, request, exited>>

ProcessStep(i) == MainStep(i) \/ Listen(i) \/ Report(i) \/ Expire(i)

ProcessEnvironment(i) ==
    Signal(i) \/ \E q \in Clients : Accept(i, q) \/ Serve(i, q)

-----------------------------------------------------------------------------
(* Properties.                                                             *)

ProcessTypeOK ==
    /\ main \in [Instances -> MainLabels]
    /\ listener \in [Instances -> Listening]
    /\ serverErr \in [Instances -> Errors \cup {"nothing"}]
    /\ signalled \in [Instances -> BOOLEAN]
    /\ pool \in [Instances -> BOOLEAN]
    /\ expired \in [Instances -> BOOLEAN]
    /\ request \in [Instances -> [Clients -> Requests]]
    /\ exited \in [Instances -> Outcomes]

\* A request in flight can use the database until it is answered, or has had
\* ten seconds since the shutdown began.
PoolOutlivesRequests ==
    \A i \in Instances : InFlight(i) # {} /\ ~pool[i] => expired[i]

\* "server stopped gracefully" is logged only by a process that answered every
\* request it had accepted.
GracefulLosesNothing ==
    \A i \in Instances :
        exited[i] = "graceful" => \A q \in Clients : request[i][q] # "cut"

\* The goroutines of the process run and time passes; nothing says that a
\* request, which may wait for a row, is ever answered.
ProcessFairness == \A i \in Instances :
    /\ WF_process(MainStep(i)) /\ WF_process(Expire(i))
    /\ WF_process(Listen(i)) /\ WF_process(Report(i))

\* A process that has been told to stop does, also when a request hangs and
\* when the signal comes before it listens.
SignalStops == \A i \in Instances : signalled[i] ~> main[i] = "end"
=============================================================================
