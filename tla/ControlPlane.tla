---------------------------- MODULE ControlPlane ----------------------------
(***************************************************************************)
(* The process (cmd/control-plane/main.go): what run starts, in which      *)
(* order, and how it stops again; its HTTP server, its reconciler and the  *)
(* one database connection (internal/database/db.go) that all of them      *)
(* share.  Clients may stop reading, the process may be told to stop or be *)
(* killed at any point, and the next one is started while it still stops.  *)
(*                                                                         *)
(* A request slot stands for the goroutine of one HTTP request.  What the  *)
(* reconciler and the handlers do with the database is the matter of other *)
(* modules; here they wait for the connection, hold it and give it back.   *)
(***************************************************************************)
EXTENDS Host

CONSTANT Slots   \* requests in progress at the same time

Reconciler == "reconciler"

ASSUME SlotsAssumption ==
    /\ None \notin Slots
    /\ Reconciler \notin Slots \cup {None}

VARIABLES
    main,        \* where run is in each process
    signalled,   \* processes that were told to stop
    timedOut,    \* processes whose Shutdown ran into its timeout
    serveFailed, \* processes whose Serve returned an error
    port,        \* the process that listens
    dbOpen,      \* processes with an open database
    rec,         \* what the reconciler of each process does
    cancelled,   \* processes whose reconciler has been told to return
    conn,        \* who holds the database connection of each process
    stage,       \* how far each request has come
    kind,        \* what it asks for
    at,          \* the process that handles it
    cut          \* requests whose client connection was closed by the server

mainVars == <<main, signalled, timedOut, serveFailed, port, dbOpen>>
recVars == <<rec, cancelled>>
slotVars == <<stage, kind, at, cut>>
vars == <<mainVars, recVars, conn, slotVars, faults>>

Kinds == {"statement", "readyz", "export"}

\* Types, and the holder of a connection knows that it holds it.
TypeOK ==
    /\ main \in [Processes -> {"down", "opened", "serving", "draining", "stopping",
                               "closing"}]
    /\ signalled \in SUBSET Processes
    /\ timedOut \in SUBSET Processes
    /\ serveFailed \in SUBSET Processes
    /\ port \in Processes \cup {None}
    /\ dbOpen \in SUBSET Processes
    /\ rec \in [Processes -> {"off", "idle", "waiting", "holding", "calling"}]
    /\ cancelled \in SUBSET Processes
    /\ conn \in [Processes -> Slots \cup {Reconciler, None}]
    /\ stage \in [Slots -> {"none", "waiting", "holding"}]
    /\ kind \in [Slots -> Kinds]
    /\ at \in [Slots -> Processes]
    /\ cut \in SUBSET Slots
    /\ \A p \in Processes : conn[p] = Reconciler <=> rec[p] = "holding"
    /\ \A p \in Processes, h \in Slots :
        conn[p] = h <=> stage[h] = "holding" /\ at[h] = p
    /\ faults \in 0..MaxFaults

Init ==
    /\ main = [p \in Processes |-> "down"]
    /\ signalled = {} /\ timedOut = {} /\ serveFailed = {}
    /\ port = None
    /\ dbOpen = {}
    /\ rec = [p \in Processes |-> "off"]
    /\ cancelled = {}
    /\ conn = [p \in Processes |-> None]
    /\ stage = [h \in Slots |-> "none"]
    /\ kind \in [Slots -> {"statement"}]
    /\ at \in [Slots -> Processes]
    /\ cut = {}
    /\ faults = 0

Requests(p) == {h \in Slots : stage[h] # "none" /\ at[h] = p}

Goto(p, where) == main' = [main EXCEPT ![p] = where]

\* The requests H are over, and so is what the process remembered of them.
Over(H) ==
    /\ stage' = [h \in Slots |-> IF h \in H THEN "none" ELSE stage[h]]
    /\ kind' = [h \in Slots |-> IF h \in H THEN "statement" ELSE kind[h]]
    /\ cut' = cut \ H
    /\ UNCHANGED at

\* The process is gone.
Gone(p) ==
    /\ Goto(p, "down")
    /\ signalled' = signalled \ {p}
    /\ timedOut' = timedOut \ {p}
    /\ serveFailed' = serveFailed \ {p}
    /\ port' = IF port = p THEN None ELSE port
    /\ dbOpen' = dbOpen \ {p}
    /\ rec' = [rec EXCEPT ![p] = "off"]
    /\ cancelled' = cancelled \ {p}
    /\ conn' = [conn EXCEPT ![p] = None]
    /\ Over(Requests(p))

-----------------------------------------------------------------------------
(***************************************************************************)
(* run, from the start to the listener.                                    *)
(***************************************************************************)
\* Open and Migrate.
Open(p) ==
    /\ main[p] = "down"
    /\ Goto(p, "opened")
    /\ dbOpen' = dbOpen \cup {p}
    /\ UNCHANGED <<signalled, timedOut, serveFailed, port,
                   recVars, conn, slotVars, faults>>

\* Migrate or Validate fails, also on the cancelled context.
InitFails(p) ==
    /\ main[p] = "opened"
    /\ \/ p \in signalled /\ UNCHANGED faults
       \/ Fault
    /\ Gone(p)

\* Listen, and the goroutines of the reconciler and the server.
Listen(p) ==
    /\ main[p] = "opened"
    /\ port = None
    /\ port' = p
    /\ rec' = [rec EXCEPT ![p] = "idle"]
    /\ Goto(p, "serving")
    /\ UNCHANGED <<signalled, timedOut, serveFailed, dbOpen,
                   cancelled, conn, slotVars, faults>>

ListenFails(p) ==
    /\ main[p] = "opened"
    /\ port # None
    /\ Gone(p)
    /\ UNCHANGED faults

-----------------------------------------------------------------------------
(***************************************************************************)
(* run, from the signal to the end.                                        *)
(***************************************************************************)
\* Mutant: the reconciler has a context of its own.
SignalToServer(p) ==
    /\ main[p] # "down" /\ p \notin signalled
    /\ signalled' = signalled \cup {p}
    /\ UNCHANGED <<main, timedOut, serveFailed, port, dbOpen,
                   recVars, conn, slotVars, faults>>

\* SIGTERM cancels ctx, and with it the context of the reconciler.
Signal(p) ==
    /\ main[p] # "down" /\ p \notin signalled
    /\ signalled' = signalled \cup {p}
    /\ cancelled' = cancelled \cup {p}
    /\ UNCHANGED <<main, timedOut, serveFailed, port, dbOpen,
                   rec, conn, slotVars, faults>>

\* Shutdown begins: the listener is closed.
Shutdown(p) ==
    /\ main[p] = "serving" /\ p \in signalled
    /\ Goto(p, "draining")
    /\ port' = IF port = p THEN None ELSE port
    /\ UNCHANGED <<signalled, timedOut, serveFailed, dbOpen,
                   recVars, conn, slotVars, faults>>

\* Mutant: Shutdown has no timeout.
ShutdownWaits(p) ==
    /\ main[p] = "draining"
    /\ Requests(p) = {}
    /\ Goto(p, "stopping")
    /\ UNCHANGED <<signalled, timedOut, serveFailed, port, dbOpen,
                   recVars, conn, slotVars, faults>>

\* Shutdown returns when no request is left, or after ten seconds, and then
\* Close closes the connections of those that are.
ShutdownEnds(p) ==
    /\ main[p] = "draining"
    /\ Goto(p, "stopping")
    /\ \/ Requests(p) = {} /\ UNCHANGED <<timedOut, cut>>
       \/ /\ Requests(p) # {}
          /\ timedOut' = timedOut \cup {p}
          /\ cut' = cut \cup Requests(p)
    /\ UNCHANGED <<signalled, serveFailed, port, dbOpen, recVars,
                   conn, stage, kind, at, faults>>

\* Serve closes the listener and returns an error, which run receives later.
ServeFails(p) ==
    /\ main[p] = "serving" /\ port = p
    /\ port' = None
    /\ serveFailed' = serveFailed \cup {p}
    /\ Fault
    /\ UNCHANGED <<main, signalled, timedOut, dbOpen, recVars, conn, slotVars>>

ServeErr(p) ==
    /\ main[p] = "serving" /\ p \in serveFailed
    /\ Goto(p, "stopping")
    /\ UNCHANGED <<signalled, timedOut, serveFailed, port, dbOpen,
                   recVars, conn, slotVars, faults>>

\* The deferred calls, last one first: stopReconciler and the wait for it,
StopReconciler(p) ==
    /\ main[p] = "stopping" /\ p \notin cancelled
    /\ cancelled' = cancelled \cup {p}
    /\ UNCHANGED <<mainVars, rec, conn, slotVars, faults>>

\* Mutant: run does not wait for the reconciler.
CloseAtOnce(p) ==
    /\ main[p] = "stopping" /\ p \in cancelled
    /\ dbOpen' = dbOpen \ {p}
    /\ Goto(p, "closing")
    /\ UNCHANGED <<signalled, timedOut, serveFailed, port,
                   recVars, conn, slotVars, faults>>

\* then the listener, which is closed already, and the database.  Requests that
\* hold the connection keep it.
CloseDatabase(p) ==
    /\ main[p] = "stopping" /\ p \in cancelled
    /\ rec[p] = "off"
    /\ dbOpen' = dbOpen \ {p}
    /\ Goto(p, "closing")
    /\ UNCHANGED <<signalled, timedOut, serveFailed, port,
                   recVars, conn, slotVars, faults>>

\* os.Exit ends what still runs.
Exit(p) ==
    /\ main[p] = "closing"
    /\ Gone(p)
    /\ UNCHANGED faults

Kill(p) ==
    /\ main[p] # "down"
    /\ Gone(p)
    /\ Fault

-----------------------------------------------------------------------------
(***************************************************************************)
(* Requests.                                                               *)
(***************************************************************************)
\* A request whose handler needs the database.
Accept(p, h, k) ==
    /\ port = p
    /\ stage[h] = "none"
    /\ stage' = [stage EXCEPT ![h] = "waiting"]
    /\ kind' = [kind EXCEPT ![h] = k]
    /\ at' = [at EXCEPT ![h] = p]
    /\ UNCHANGED <<mainVars, recVars, conn, cut, faults>>

Release(h) == conn' = [p \in Processes |-> IF conn[p] = h THEN None ELSE conn[p]]

Acquire(h) ==
    /\ stage[h] = "waiting"
    /\ at[h] \in dbOpen /\ conn[at[h]] = None
    /\ conn' = [conn EXCEPT ![at[h]] = h]
    /\ stage' = [stage EXCEPT ![h] = "holding"]
    /\ UNCHANGED <<mainVars, recVars, kind, at, cut, faults>>

\* A statement or a transaction ends; so does one that holds the connection of
\* a database that is being closed.
StatementEnds(h) ==
    /\ stage[h] = "holding" /\ kind[h] # "export"
    /\ Over({h}) /\ Release(h)
    /\ UNCHANGED <<mainVars, recVars, faults>>

\* "sql: database is closed"
DatabaseIsClosed(h) ==
    /\ stage[h] = "waiting" /\ at[h] \notin dbOpen
    /\ Over({h})
    /\ UNCHANGED <<mainVars, recVars, conn, faults>>

\* readyz gives up after two seconds.
ReadyzTimesOut(h) ==
    /\ stage[h] = "waiting" /\ kind[h] = "readyz"
    /\ Over({h})
    /\ UNCHANGED <<mainVars, recVars, conn, faults>>

\* StreamSessionEvents writes row by row and holds the connection meanwhile: it
\* ends when the client has read everything.
ClientReads(h) ==
    /\ stage[h] = "holding" /\ kind[h] = "export"
    /\ Over({h}) /\ Release(h)
    /\ UNCHANGED <<mainVars, recVars, faults>>

\* Mutant: the rows are not closed when a write fails.
LeaveRowsOpen(h) ==
    /\ stage[h] # "none"
    /\ Over({h})
    /\ UNCHANGED <<mainVars, recVars, conn, faults>>

\* The client goes away: the context is cancelled and writes fail.
ClientLeaves(h) ==
    /\ stage[h] # "none"
    /\ Over({h}) /\ Release(h)
    /\ UNCHANGED <<mainVars, recVars, faults>>

\* The same, after Close.
CutOff(h) ==
    /\ h \in cut
    /\ Over({h}) /\ Release(h)
    /\ UNCHANGED <<mainVars, recVars, faults>>

-----------------------------------------------------------------------------
(***************************************************************************)
(* The reconciler: Run, and what a Step does between its calls.            *)
(***************************************************************************)
RecGoto(p, where) == rec' = [rec EXCEPT ![p] = where]

RunStep(p) ==
    /\ rec[p] = "idle" /\ p \notin cancelled
    /\ RecGoto(p, "waiting")
    /\ UNCHANGED <<mainVars, cancelled, conn, slotVars, faults>>

RecAcquire(p) ==
    /\ rec[p] = "waiting" /\ p \notin cancelled
    /\ p \in dbOpen /\ conn[p] = None
    /\ conn' = [conn EXCEPT ![p] = Reconciler]
    /\ RecGoto(p, "holding")
    /\ UNCHANGED <<mainVars, cancelled, slotVars, faults>>

RecStatementEnds(p) ==
    /\ rec[p] = "holding"
    /\ conn' = [conn EXCEPT ![p] = None]
    /\ \E where \in {"waiting", "calling", "idle"} : RecGoto(p, where)
    /\ UNCHANGED <<mainVars, cancelled, slotVars, faults>>

\* A call to DigitalOcean or Cloudflare has its own timeout.
RecCallEnds(p) ==
    /\ rec[p] = "calling"
    /\ \E where \in {"waiting", "calling", "idle"} : RecGoto(p, where)
    /\ UNCHANGED <<mainVars, cancelled, conn, slotVars, faults>>

\* On the cancelled context every call and wait fails, and Run returns.
RecReturns(p) ==
    /\ rec[p] \in {"idle", "waiting", "calling"} /\ p \in cancelled
    /\ RecGoto(p, "off")
    /\ UNCHANGED <<mainVars, cancelled, conn, slotVars, faults>>

Starts(p) == Open(p) \/ InitFails(p) \/ Listen(p) \/ ListenFails(p)

Stops(p) ==
    \/ Shutdown(p) \/ ShutdownEnds(p) \/ ServeErr(p) \/ StopReconciler(p)
    \/ CloseDatabase(p) \/ Exit(p)

Handles(h) == StatementEnds(h) \/ DatabaseIsClosed(h) \/ CutOff(h)

Client(h) == ClientReads(h) \/ ClientLeaves(h)

Reconciles(p) ==
    RunStep(p) \/ RecStatementEnds(p) \/ RecCallEnds(p) \/ RecReturns(p)

Next ==
    \/ \E p \in Processes :
        \/ Starts(p) \/ Signal(p) \/ Stops(p) \/ ServeFails(p) \/ Kill(p)
        \/ Reconciles(p) \/ RecAcquire(p)
        \/ \E h \in Slots, k \in Kinds : Accept(p, h, k)
    \/ \E h \in Slots : Acquire(h) \/ Handles(h) \/ ReadyzTimesOut(h) \/ Client(h)

Spec == Init /\ [][Next]_vars

\* What runs goes on, a start comes to an end, and the connection goes round
\* among those that wait.  Clients need not do anything.
Fairness ==
    /\ \A p \in Processes :
        /\ WF_vars(Listen(p) \/ ListenFails(p) \/ (InitFails(p) /\ p \in signalled))
        /\ WF_vars(Stops(p))
        /\ WF_vars(Reconciles(p))
        /\ SF_vars(RecAcquire(p))
    /\ \A h \in Slots :
        /\ WF_vars(Handles(h))
        /\ WF_vars(ReadyzTimesOut(h))
        /\ SF_vars(Acquire(h))

FairSpec == Spec /\ Fairness

\* Clients read what they asked for, or go away.
Patience == \A h \in Slots : WF_vars(Client(h))

-----------------------------------------------------------------------------

\* Reconciling(p): the reconciler of p has not been told to return.
Reconciling(p) == rec[p] # "off" /\ p \notin cancelled

\* Only one process at a time reconciles, although the next one may listen as
\* soon as Shutdown begins; a listener that fails is the one exception.
OneReconciler ==
    \A p, q \in Processes : Reconciling(p) /\ Reconciling(q) =>
        p = q \/ {p, q} \cap serveFailed # {}

\* The database is closed under no reconciler, and under requests only if they
\* outlasted the timeout of Shutdown or the server had failed.
ClosedUnderNobody ==
    \A p \in Processes : p \notin dbOpen =>
        /\ rec[p] = "off"
        /\ Requests(p) = {} \/ p \in timedOut \cup serveFailed

\* A process that was told to stop stops, whatever its clients do.
StopsOnSignal == \A p \in Processes : p \in signalled ~> main[p] = "down"

\* If clients have Patience, every request ends, and the reconciler is
\* never kept from the database for good.
NobodyWaitsForEver ==
    /\ \A h \in Slots : stage[h] # "none" ~> stage[h] = "none"
    /\ \A p \in Processes : rec[p] = "waiting" ~> rec[p] # "waiting"
=============================================================================
