------------------------------- MODULE SqliteTx -------------------------------
(***************************************************************************)
(* DatabaseManager.transaction and execute on SQLite: one in-memory        *)
(* database (sql.js) that every request shares, an AsyncMutex between the  *)
(* transactions, the inTransaction flag that keeps execute from writing    *)
(* the file inside one, and the file.                                      *)
(*                                                                         *)
(* Requests started in the same turn of the event loop run as JavaScript   *)
(* runs them: what follows an await is a job at the end of one FIFO queue, *)
(* and a job runs to its next await.  A waiter of the mutex that is woken  *)
(* is such a job too, behind those already queued.                         *)
(***************************************************************************)
EXTENDS Integers, Sequences, FiniteSets

LOCAL INSTANCE SequencesExt

CONSTANTS
    Txs,           \* requests that run a transaction of two statements
    Writers,       \* requests that run one statement outside of any
    MaxHops        \* bound: the awaits a request may go through before that

Procs == Txs \cup Writers
ASSUME SqliteAssumption ==
    Txs \cap Writers = {} /\ IsFiniteSet(Procs) /\ MaxHops \in Nat

VARIABLES
    jobs,          \* the queue of continuations, each of some request
    pc, hops,      \* where a request is, and how many awaits before it starts
    locked, queue, \* AsyncMutex
    inTransaction, \* DatabaseManager.inTransaction
    open,          \* SQLite: whether a transaction is open
    mem, undo,     \* SQLite: what the statements wrote, and a ROLLBACK restores
    disk,          \* what the file holds
    outcome,       \* what the caller was told
    barged         \* history: a transaction took the mutex from a woken waiter

db   == <<open, mem, undo, disk>>
vars == <<jobs, pc, hops, locked, queue, inTransaction, db, outcome, barged>>

Init ==
    /\ jobs \in SetToSeqs(Procs)
    /\ hops \in [Procs -> 0..MaxHops]
    /\ pc = [p \in Procs |-> "hop"]
    /\ locked = FALSE /\ queue = <<>>
    /\ inTransaction = FALSE
    /\ open = FALSE /\ mem = {} /\ undo = {} /\ disk = {}
    /\ outcome = [p \in Procs |-> "none"]
    /\ barged = FALSE

Running(p, l) == jobs # <<>> /\ Head(jobs) = p /\ pc[p] = l
Goto(p, l)    == pc' = [pc EXCEPT ![p] = l]
\* The job of p ends at an await of something that is there already.
Await(p, l)   == Goto(p, l) /\ jobs' = Append(Tail(jobs), p)
Tell(p, o)    == outcome' = [outcome EXCEPT ![p] = o]

Hop(p) ==
    /\ Running(p, "hop")
    /\ IF hops[p] > 0
       THEN hops' = [hops EXCEPT ![p] = @ - 1] /\ Await(p, "hop")
       ELSE /\ Await(p, IF p \in Txs THEN "acquire" ELSE "statement")
            /\ UNCHANGED hops
    /\ UNCHANGED <<locked, queue, inTransaction, db, outcome, barged>>

\* Mutant: nobody waits.
AcquireAtOnce(p) ==
    /\ Running(p, "acquire")
    /\ locked' = TRUE
    /\ Await(p, "begin")
    /\ UNCHANGED <<hops, queue, inTransaction, db, outcome, barged>>

\* A waiter is woken by the release and runs as a job of its own: the mutex is
\* free until then, and another transaction may take it first.
WokenInLine == {p \in Txs : pc[p] = "woken" /\ \E i \in 1..Len(jobs) : jobs[i] = p}

\* AsyncMutex.acquire up to its first await.
Acquire(p) ==
    /\ Running(p, "acquire")
    /\ IF locked
       THEN /\ queue' = Append(queue, p)
            /\ Goto(p, "woken")
            /\ jobs' = Tail(jobs)
            /\ UNCHANGED <<locked, barged>>
       ELSE /\ locked' = TRUE
            /\ Await(p, "begin")
            /\ barged' = (barged \/ WokenInLine # {})
            /\ UNCHANGED queue
    /\ UNCHANGED <<hops, inTransaction, db, outcome>>

\* The rest of acquire does not look at locked again.
Woken(p) ==
    /\ Running(p, "woken")
    /\ locked' = TRUE
    /\ Await(p, "begin")
    /\ UNCHANGED <<hops, queue, inTransaction, db, outcome, barged>>

\* Mutant: the waiter stays in the queue.
ReleaseWakesNobody(p) ==
    /\ inTransaction' = FALSE
    /\ locked' = FALSE
    /\ UNCHANGED queue
    /\ jobs' = Tail(jobs)
    /\ Goto(p, "done")

\* The finally block of transaction: the first waiter becomes a job.
Release(p) ==
    /\ inTransaction' = FALSE
    /\ locked' = FALSE
    /\ queue' = IF queue = <<>> THEN <<>> ELSE Tail(queue)
    /\ jobs' = Tail(jobs) \o SubSeq(queue, 1, IF queue = <<>> THEN 0 ELSE 1)
    /\ Goto(p, "done")

\* SQLite refuses to begin a transaction within a transaction.
Begin(p) ==
    /\ Running(p, "begin")
    /\ IF open
       THEN Release(p) /\ Tell(p, "failed") /\ UNCHANGED db
       ELSE /\ inTransaction' = TRUE
            /\ open' = TRUE /\ undo' = mem
            /\ Await(p, "first")
            /\ UNCHANGED <<locked, queue, mem, disk, outcome>>
    /\ UNCHANGED <<hops, barged>>

\* Mutant: execute writes the file inside a transaction too.
WriteAndPersist(w) ==
    IF open
    THEN mem' = undo /\ disk' = undo /\ open' = FALSE /\ UNCHANGED undo
    ELSE mem' = mem \cup {w} /\ disk' = mem' /\ UNCHANGED <<open, undo>>
\* persistSqlite writes what export() returns; export closes the database,
\* which rolls back the transaction that is open.
Write(w) ==
    IF inTransaction
    THEN mem' = mem \cup {w} /\ UNCHANGED <<open, undo, disk>>
    ELSE IF open
         THEN mem' = undo /\ disk' = undo /\ open' = FALSE /\ UNCHANGED undo
         ELSE mem' = mem \cup {w} /\ disk' = mem' /\ UNCHANGED <<open, undo>>

First(p) ==
    /\ Running(p, "first")
    /\ Write(<<p, 1>>)
    /\ Await(p, "second")
    /\ UNCHANGED <<hops, locked, queue, inTransaction, outcome, barged>>

Second(p) ==
    /\ Running(p, "second")
    /\ Write(<<p, 2>>)
    /\ Await(p, "finish")
    /\ UNCHANGED <<hops, locked, queue, inTransaction, outcome, barged>>

\* Mutant: COMMIT without the write of the file after it.
CommitUnsaved(p) ==
    /\ Running(p, "finish") /\ open
    /\ open' = FALSE
    /\ Release(p) /\ Tell(p, "ok")
    /\ UNCHANGED <<hops, mem, undo, disk, barged>>

Commit(p) ==
    /\ Running(p, "finish") /\ open
    /\ open' = FALSE /\ disk' = mem
    /\ Release(p) /\ Tell(p, "ok")
    /\ UNCHANGED <<hops, mem, undo, barged>>

\* The callback throws, or there is no transaction to commit any more.
Abort(p) ==
    /\ Running(p, "finish")
    /\ mem' = IF open THEN undo ELSE mem
    /\ open' = FALSE
    /\ Release(p) /\ Tell(p, "failed")
    /\ UNCHANGED <<hops, undo, disk, barged>>

Statement(p) ==
    /\ Running(p, "statement")
    /\ Write(<<p, 1>>)
    /\ Goto(p, "done") /\ jobs' = Tail(jobs)
    /\ Tell(p, "ok")
    /\ UNCHANGED <<hops, locked, queue, inTransaction, barged>>

Next ==
    \E p \in Procs :
        \/ Hop(p) \/ Acquire(p) \/ Woken(p) \/ Begin(p) \/ First(p)
        \/ Second(p) \/ Commit(p) \/ Abort(p) \/ Statement(p)

Spec == Init /\ [][Next]_vars

\* The event loop runs the queue until it is empty.
FairSpec == Spec /\ WF_vars(Next)

-----------------------------------------------------------------------------
Written == (Txs \X {1, 2}) \cup (Writers \X {1})

\* Every variable holds a value of its type.
TypeOK ==
    /\ jobs \in Seq(Procs) /\ queue \in Seq(Txs)
    /\ pc \in [Procs -> {"hop", "acquire", "woken", "begin", "first", "second",
                         "finish", "statement", "done"}]
    /\ hops \in [Procs -> 0..MaxHops]
    /\ {locked, inTransaction, open, barged} \subseteq BOOLEAN
    /\ mem \subseteq Written /\ undo \subseteq Written /\ disk \subseteq Written
    /\ outcome \in [Procs -> {"none", "ok", "failed"}]

\* AsyncMutex lets one transaction in at a time.
MutualExclusion ==
    \A p, q \in Txs :
        pc[p] \in {"begin", "first", "second", "finish"}
        /\ pc[q] \in {"begin", "first", "second", "finish"} => p = q

\* The transactions of any number of requests exclude each other until one takes
\* the mutex between its release and the turn of the waiter that was woken.
ExclusiveUntilBarged == barged \/ MutualExclusion

StatementsOf(p) == {p} \X {1, 2}

\* A transaction that reported success is in the file with all it wrote, one
\* that failed left nothing behind.
Atomic ==
    \A p \in Txs :
        /\ outcome[p] = "ok" => StatementsOf(p) \subseteq mem \cap disk
        /\ outcome[p] = "failed" => StatementsOf(p) \cap (mem \cup disk) = {}

\* The file never holds half a transaction, so a crash cannot leave one.
FileNeverTorn ==
    \A p \in Txs : StatementsOf(p) \cap disk \in {{}, StatementsOf(p)}

\* The transactions are all or nothing, to those who read the connection and to
\* who opens the file after a crash, until one took the mutex from a woken waiter.
AllOrNothing == TypeOK /\ (barged \/ (Atomic /\ FileNeverTorn))

\* A statement that was acknowledged and is in no transaction of its own is lost
\* only if the transaction of some request failed, with the mutex barged or not.
LostOnlyWithAFailedTx ==
    \A w \in Writers :
        outcome[w] = "ok" =>
            <<w, 1>> \in mem \/ \E p \in Txs : outcome[p] = "failed"

\* No wake-up is lost: every transaction is let in and ends, also where the mutex
\* let in two.
EveryTxEnds == \A p \in Txs : <>(pc[p] = "done")
==============================================================================
