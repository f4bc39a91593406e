---------------------------- MODULE ConnectionPool ----------------------------
(***************************************************************************)
(* The connections of the API service to Postgres.  Handlers share a pool  *)
(* of two.  A statement outside a transaction borrows a connection and     *)
(* gives it back; a transaction keeps one until it ends, and while it      *)
(* does, publishDataset runs further statements outside it, each of which  *)
(* needs a second connection.  A handler that waits longer than the limit  *)
(* (acquire: 30000) fails.  A statement may also wait for a row that       *)
(* another transaction has written; that wait has no limit.                *)
(*                                                                         *)
(* What handlers read and write is left out: it is the subject of          *)
(* DatasetApi.                                                             *)
(***************************************************************************)
EXTENDS Naturals, Sequences, FiniteSets

CONSTANTS
    Handlers,    \* requests in progress at the same time
    Publishers,  \* those of them that may be publications
    Datasets,
    NoHandler,   \* a value that is no handler: the row is not locked
    PoolSize,    \* pool.max
    Errors       \* the kinds of statements that may fail

ASSUME PublishersAssumption == Publishers \subseteq Handlers /\ NoHandler \notin Handlers
ASSUME PoolAssumption       == PoolSize \in Nat \ {0}

VARIABLES
    op,      \* what the request of a handler is, "none" if the slot is free
    ds,      \* the dataset it is about
    step,    \* the step of its operation that is next
    queue,   \* the handlers that wait for a connection, first come first served
    lent,    \* the handlers that hold a connection for one statement
    txn,     \* the handlers that hold a connection for a transaction
    lock,    \* for each row of a draft, the handler whose transaction has written it
    leaked   \* connections of transactions that nobody will end

pool == <<queue, lent, txn, leaked>>
vars == <<op, ds, step, queue, lent, txn, lock, leaked>>

-----------------------------------------------------------------------------
(* The operations, as sequences of the kinds of their statements:          *)
(*   query     a statement outside a transaction                           *)
(*   write     the same, an UPDATE of the row of the draft                 *)
(*   begin     sequelize.transaction()                                     *)
(*   bare      a statement outside, while the transaction is open, and     *)
(*             before the block that rolls it back on an error             *)
(*   nested    the same within that block                                  *)
(*   dataset, source   statements in the transaction that write the row of *)
(*             the draft in datasets_draft, in datasources_draft           *)
(*   commit                                                                *)
(* Steps that depend on the request are Optional.                          *)

Program(o) ==
    CASE o = "Read"    -> <<"query", "query">>
      [] o = "Update"  -> <<"query", "write">>
      [] o = "Delete"  -> <<"query", "begin", "source", "dataset", "commit">>
      [] o = "Migrate" -> <<"query", "begin", "dataset", "source", "commit", "query">>
      [] o = "Retire"  -> <<"query", "begin", "commit", "query", "query">>
      [] o = "Live"    -> <<"query", "begin", "bare", "dataset", "nested", "source",
                            "nested", "source", "commit", "query">>

Operations == {"Read", "Update", "Delete", "Migrate", "Retire", "Live"}

\* The second datasource is Hudi's; rows of datasources_draft may not be there yet.
Optional == {"nested", "source"}

Busy(h)    == op[h] # "none"
Current(h) == Program(op[h])[step[h]]
At(h, s)   == Busy(h) /\ Current(h) = s
Queued(h)  == \E i \in DOMAIN queue : queue[i] = h

Rows == {"dataset", "source"}

\* The row of the handler's dataset is written by another transaction.
Locked(h, s) == lock[<<ds[h], s>>] \notin {NoHandler, h}

\* The handler's statement waits for a row: in a transaction, or outside.
RowOf(h) == IF At(h, "write") THEN "dataset" ELSE Current(h)
Waits(h) ==
    /\ Busy(h) /\ Current(h) \in Rows \cup {"write"}
    /\ At(h, "write") => h \in lent
    /\ Locked(h, RowOf(h))

-----------------------------------------------------------------------------
(* The end of a step, and of a request. *)

Leave(h) ==
    /\ op' = [op EXCEPT ![h] = "none"]
    /\ step' = [step EXCEPT ![h] = 1]

Advance(h) ==
    IF step[h] = Len(Program(op[h]))
      THEN Leave(h)
      ELSE step' = [step EXCEPT ![h] = @ + 1] /\ UNCHANGED op

Unlock(h) == lock' = [r \in DOMAIN lock |-> IF lock[r] = h THEN NoHandler ELSE lock[r]]

\* Mutant: the error is answered and the transaction is left open.
GiveUp_Open(h) ==
    /\ Leave(h)
    /\ lent' = lent \ {h}
    /\ IF h \in txn
         THEN txn' = txn \ {h} /\ leaked' = leaked + 1 /\ UNCHANGED lock
         ELSE UNCHANGED <<txn, lock, leaked>>

\* A handler fails at its statement: the transaction is rolled back, unless the statement
\* is before the block that does so.
GiveUp(h) ==
    /\ Leave(h)
    /\ lent' = lent \ {h}
    /\ txn' = txn \ {h}
    /\ IF At(h, "bare")
         THEN leaked' = leaked + 1 /\ UNCHANGED lock
         ELSE Unlock(h) /\ UNCHANGED leaked

-----------------------------------------------------------------------------
(* Actions *)

Start(h, o, d) ==
    /\ ~Busy(h)
    /\ o = "Live" => h \in Publishers
    /\ op' = [op EXCEPT ![h] = o]
    /\ ds' = [ds EXCEPT ![h] = d]
    /\ UNCHANGED <<step, pool, lock>>

\* pool.acquire(): the handler is queued.
Ask(h) ==
    /\ Busy(h) /\ Current(h) \in {"query", "write", "begin", "bare", "nested"}
    /\ h \notin lent /\ ~Queued(h)
    /\ queue' = Append(queue, h)
    /\ UNCHANGED <<op, ds, step, lent, txn, lock, leaked>>

Free == PoolSize - (leaked + Cardinality(lent) + Cardinality(txn))

\* Mutant: one connection more than pool.max.
Grant_OneMore ==
    /\ queue # <<>> /\ Free >= 0
    /\ queue' = Tail(queue)
    /\ LET h == Head(queue) IN
         IF At(h, "begin")
           THEN txn' = txn \cup {h} /\ Advance(h) /\ UNCHANGED lent
           ELSE lent' = lent \cup {h} /\ UNCHANGED <<op, step, txn>>
    /\ UNCHANGED <<ds, lock, leaked>>

\* The pool gives a connection to the handler that has waited longest.
Grant ==
    /\ queue # <<>> /\ Free > 0
    /\ queue' = Tail(queue)
    /\ LET h == Head(queue) IN
         IF At(h, "begin")
           THEN txn' = txn \cup {h} /\ Advance(h) /\ UNCHANGED lent
           ELSE lent' = lent \cup {h} /\ UNCHANGED <<op, step, txn>>
    /\ UNCHANGED <<ds, lock, leaked>>

\* The statement a connection was borrowed for; it waits if it updates a locked row.
Query(h) ==
    /\ h \in lent /\ ~Waits(h)
    /\ lent' = lent \ {h}
    /\ Advance(h)
    /\ UNCHANGED <<ds, queue, txn, lock, leaked>>

Write(h, s) ==
    /\ At(h, s) /\ ~Locked(h, s)
    /\ lock' = [lock EXCEPT ![<<ds[h], s>>] = h]
    /\ Advance(h)
    /\ UNCHANGED <<ds, pool>>

Skip(h) ==
    /\ Busy(h) /\ Current(h) \in Optional
    /\ h \notin lent /\ ~Queued(h)
    /\ Advance(h)
    /\ UNCHANGED <<ds, pool, lock>>

\* Mutant: the connection of the transaction is not given back.
Commit_Keeps(h) ==
    /\ At(h, "commit")
    /\ txn' = txn \ {h}
    /\ leaked' = leaked + 1
    /\ Unlock(h)
    /\ Advance(h)
    /\ UNCHANGED <<ds, queue, lent>>

Commit(h) ==
    /\ At(h, "commit")
    /\ txn' = txn \ {h}
    /\ Unlock(h)
    /\ Advance(h)
    /\ UNCHANGED <<ds, queue, lent, leaked>>

\* A statement that runs fails.
Error(h) ==
    /\ Busy(h) /\ Current(h) \in Errors
    /\ h \in lent \/ Current(h) \in Rows
    /\ ~Waits(h)
    /\ GiveUp(h)
    /\ UNCHANGED <<ds, queue>>

\* Two transactions wait for each other's rows.
Deadlocked(h) ==
    Waits(h) /\ LET g == lock[<<ds[h], RowOf(h)>>] IN Waits(g) /\ lock[<<ds[g], RowOf(g)>>] = h

\* Postgres ends one of them.
Deadlock(h) ==
    /\ Deadlocked(h)
    /\ GiveUp(h)
    /\ UNCHANGED <<ds, queue>>

\* Whoever holds a connection waits, for a row or for another connection. Statements are
\* much faster than the limit, so that only then a wait in the pool exceeds it.
Stuck ==
    /\ Free = 0
    /\ \A h \in lent : Waits(h)
    /\ \A h \in txn \ lent : Queued(h) \/ (Waits(h) /\ ~Deadlocked(h))

\* Mutant: a handler waits for as long as it takes.
AcquireTimeout_Never == FALSE /\ UNCHANGED vars

\* The handler that has waited longest gives up.
AcquireTimeout ==
    /\ queue # <<>> /\ Stuck
    /\ GiveUp(Head(queue))
    /\ queue' = Tail(queue)
    /\ UNCHANGED ds

-----------------------------------------------------------------------------

TypeOK ==
    /\ op \in [Handlers -> Operations \cup {"none"}]
    /\ ds \in [Handlers -> Datasets]
    /\ step \in [Handlers -> 1 .. 10]
    /\ queue \in Seq(Handlers)
    /\ lent \subseteq Handlers
    /\ txn \subseteq Handlers
    /\ lock \in [Datasets \X Rows -> Handlers \cup {NoHandler}]
    /\ leaked \in Nat
    /\ leaked + Cardinality(lent) + Cardinality(txn) <= PoolSize

Init ==
    /\ op = [h \in Handlers |-> "none"]
    /\ ds \in [Handlers -> Datasets]
    /\ step = [h \in Handlers |-> 1]
    /\ queue = <<>>
    /\ lent = {} /\ txn = {} /\ leaked = 0
    /\ lock = [r \in Datasets \X Rows |-> NoHandler]

Run(h) ==
    \/ Ask(h) \/ Query(h) \/ Skip(h) \/ Commit(h) \/ Deadlock(h)
    \/ \E s \in Rows : Write(h, s)

Next ==
    \/ \E h \in Handlers, o \in Operations, d \in Datasets : Start(h, o, d)
    \/ \E h \in Handlers : Run(h) \/ Error(h)
    \/ Grant
    \/ AcquireTimeout

\* Statements end and the pool serves. Postgres grants a row in the order of the waiting
\* statements, so that none waits for ever for rows that are given back again and again. No
\* statement has to fail.
Fairness ==
    /\ \A h \in Handlers : SF_vars(Run(h))
    /\ WF_vars(Grant)
    /\ WF_vars(AcquireTimeout)

Spec     == Init /\ [][Next]_vars
FairSpec == Spec /\ Fairness

-----------------------------------------------------------------------------

\* No connection is lost: a publication that fails rolls its transaction back (the catch
\* of publishDataset, and of the other operations with a transaction).
NothingLeaked == leaked = 0

\* A handler fails for want of a connection only while a publication waits for its second
\* one: the others give back what they hold without needing more.
StarvedOnlyByPublication ==
    [][AcquireTimeout =>
          \E h \in txn : op[h] = "Live" /\ Queued(h)]_vars

\* Every request ends, though waits for rows have no limit of their own: whoever holds a
\* row and waits for a connection gives up in time (acquire: 30000).
EveryRequestEnds == \A h \in Handlers : Busy(h) ~> ~Busy(h)

=============================================================================
