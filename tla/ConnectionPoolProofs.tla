------------------------- MODULE ConnectionPoolProofs -------------------------
(***************************************************************************)
(* The connection pool, for every number of handlers, datasets and         *)
(* connections.  The inductive invariant says where in its operation a     *)
(* handler is when it waits in the queue, has borrowed a connection, has a *)
(* transaction or has written a row.  From it follows how a chain of       *)
(* waiting handlers ends, and from that the two properties of the runs.    *)
(***************************************************************************)
EXTENDS ConnectionPool, FiniteSetTheorems, TLAPS

\* The statements that need a connection from the pool.
Wanting == {"query", "write", "begin", "bare", "nested"}

Statements == Wanting \cup Rows \cup {"commit"}

\* The steps at which an operation has a transaction: after its begin, up to its commit.
Open(o) ==
    IF o \in {"Delete", "Migrate"} THEN 3 .. 5
    ELSE IF o = "Retire" THEN 3 .. 3
    ELSE IF o = "Live" THEN 3 .. 9
    ELSE {}

Wants(h) == Busy(h) /\ Current(h) \in Wanting

\* Where a handler is in its operation.
OnCourse(h) == IF Busy(h) THEN step[h] \in 1 .. Len(Program(op[h])) ELSE step[h] = 1

\* What a handler waits for and holds agrees with where it is.
Consistent(h) ==
    /\ op[h] = "Live" => h \in Publishers
    /\ Queued(h) => Wants(h) /\ h \notin lent
    /\ h \in lent => Wants(h) /\ ~At(h, "begin")
    /\ h \in txn <=> Busy(h) /\ step[h] \in Open(op[h])

Written(h, s) == \E i \in 1 .. step[h] - 1 : Program(op[h])[i] = s

\* The transaction of h has written the row s of dataset d.
Owns(h, d, s) == h \in txn /\ ds[h] = d /\ Written(h, s)

LocksOwned == \A d \in Datasets, s \in Rows : lock[<<d, s>>] = NoHandler \/ Owns(lock[<<d, s>>], d, s)

NoTwice(q) == \A i, j \in DOMAIN q : q[i] = q[j] => i = j

PoolInv ==
    /\ TypeOK
    /\ IsFiniteSet(lent) /\ IsFiniteSet(txn)
    /\ \A h \in Handlers : OnCourse(h) /\ Consistent(h)
    /\ NoTwice(queue)
    /\ LocksOwned

-----------------------------------------------------------------------------
(* The operations *)

\* What follows from the programs alone: a transaction is open from the step after begin to
\* commit, and rows are written only in it; a publication alone borrows a second connection,
\* and it has written nothing when it reaches its first bare statement.
LEMMA Programs ==
    ASSUME NEW o \in Operations
    PROVE  /\ Len(Program(o)) \in 2 .. 10
           /\ 1 \notin Open(o)
           /\ \A n \in 1 .. Len(Program(o)) :
                 /\ Program(o)[n] \in Statements
                 /\ n \in Open(o) /\ Program(o)[n] # "commit" => n < Len(Program(o))
                 /\ n < Len(Program(o)) =>
                      (n + 1 \in Open(o)
                          <=> Program(o)[n] = "begin" \/ (n \in Open(o) /\ Program(o)[n] # "commit"))
                 /\ Program(o)[n] = "begin" => n < Len(Program(o)) /\ n \notin Open(o)
                 /\ Program(o)[n] \in Rows \cup {"commit"} => n \in Open(o)
                 /\ n \in Open(o) /\ Program(o)[n] \in Wanting =>
                      o = "Live" /\ Program(o)[n] \in {"bare", "nested"}
                 /\ Program(o)[n] = "bare" =>
                      n \in Open(o) /\ \A i \in 1 .. n - 1 : Program(o)[i] \notin Rows
  <1> USE DEF Operations, Statements, Wanting, Rows, Open
  <1>1. CASE o = "Read"
    <2>1. Program(o) = <<"query", "query">>
      BY <1>1 DEF Program
    <2>2. /\ Len(Program(o)) = 2
          /\ Program(o)[1] = "query" /\ Program(o)[2] = "query"
      BY <2>1
    <2>3. \A n \in 1 .. 2 : n = 1 \/ n = 2
      OBVIOUS
    <2> QED BY <1>1, <2>2, <2>3
  <1>2. CASE o = "Update"
    <2>1. Program(o) = <<"query", "write">>
      BY <1>2 DEF Program
    <2>2. /\ Len(Program(o)) = 2
          /\ Program(o)[1] = "query" /\ Program(o)[2] = "write"
      BY <2>1
    <2>3. \A n \in 1 .. 2 : n = 1 \/ n = 2
      OBVIOUS
    <2> QED BY <1>2, <2>2, <2>3
  <1>3. CASE o = "Delete"
    <2>1. Program(o) = <<"query", "begin", "source", "dataset", "commit">>
      BY <1>3 DEF Program
    <2>2. /\ Len(Program(o)) = 5
          /\ Program(o)[1] = "query" /\ Program(o)[2] = "begin" /\ Program(o)[3] = "source"
          /\ Program(o)[4] = "dataset" /\ Program(o)[5] = "commit"
      BY <2>1
    <2>3. \A n \in 1 .. 5 : n = 1 \/ n = 2 \/ n = 3 \/ n = 4 \/ n = 5
      OBVIOUS
    <2> QED BY <1>3, <2>2, <2>3
  <1>4. CASE o = "Migrate"
    <2>1. Program(o) = <<"query", "begin", "dataset", "source", "commit", "query">>
      BY <1>4 DEF Program
    <2>2. /\ Len(Program(o)) = 6
          /\ Program(o)[1] = "query" /\ Program(o)[2] = "begin" /\ Program(o)[3] = "dataset"
          /\ Program(o)[4] = "source" /\ Program(o)[5] = "commit" /\ Program(o)[6] = "query"
      BY <2>1
    <2>3. \A n \in 1 .. 6 : n = 1 \/ n = 2 \/ n = 3 \/ n = 4 \/ n = 5 \/ n = 6
      OBVIOUS
    <2> QED BY <1>4, <2>2, <2>3
  <1>5. CASE o = "Retire"
    <2>1. Program(o) = <<"query", "begin", "commit", "query", "query">>
      BY <1>5 DEF Program
    <2>2. /\ Len(Program(o)) = 5
          /\ Program(o)[1] = "query" /\ Program(o)[2] = "begin" /\ Program(o)[3] = "commit"
          /\ Program(o)[4] = "query" /\ Program(o)[5] = "query"
      BY <2>1
    <2>3. \A n \in 1 .. 5 : n = 1 \/ n = 2 \/ n = 3 \/ n = 4 \/ n = 5
      OBVIOUS
    <2> QED BY <1>5, <2>2, <2>3
  <1>6. CASE o = "Live"
    <2>1. Program(o) = <<"query", "begin", "bare", "dataset", "nested", "source",
                         "nested", "source", "commit", "query">>
      BY <1>6 DEF Program
    <2>2. /\ Len(Program(o)) = 10
          /\ Program(o)[1] = "query" /\ Program(o)[2] = "begin" /\ Program(o)[3] = "bare"
          /\ Program(o)[4] = "dataset" /\ Program(o)[5] = "nested" /\ Program(o)[6] = "source"
          /\ Program(o)[7] = "nested" /\ Program(o)[8] = "source" /\ Program(o)[9] = "commit"
          /\ Program(o)[10] = "query"
      BY <2>1
    <2>3. \A n \in 1 .. 10 : n = 1 \/ n = 2 \/ n = 3 \/ n = 4 \/ n = 5 \/ n = 6
                          \/ n = 7 \/ n = 8 \/ n = 9 \/ n = 10
      OBVIOUS
    <2> QED BY <1>6, <2>2, <2>3
  <1> QED BY <1>1, <1>2, <1>3, <1>4, <1>5, <1>6

-----------------------------------------------------------------------------
(* The queue *)

InQueue(q, h) == \E i \in DOMAIN q : q[i] = h

\* A handler that is not queued goes to the end.
LEMMA Appended ==
    ASSUME NEW q \in Seq(Handlers), NEW h \in Handlers, NoTwice(q), ~InQueue(q, h)
    PROVE  /\ Append(q, h) \in Seq(Handlers)
           /\ NoTwice(Append(q, h))
           /\ \A g : InQueue(Append(q, h), g) <=> InQueue(q, g) \/ g = h
  BY DEF NoTwice, InQueue

\* The first one leaves.
LEMMA Served ==
    ASSUME NEW q \in Seq(Handlers), q # <<>>, NoTwice(q)
    PROVE  /\ Head(q) \in Handlers
           /\ InQueue(q, Head(q))
           /\ Tail(q) \in Seq(Handlers)
           /\ NoTwice(Tail(q))
           /\ \A g : InQueue(Tail(q), g) <=> InQueue(q, g) /\ g # Head(q)
  <1>1. /\ Len(q) \in Nat \ {0}
        /\ DOMAIN q = 1 .. Len(q)
        /\ Head(q) = q[1]
        /\ q[1] \in Handlers
    OBVIOUS
  <1>2. /\ Tail(q) \in Seq(Handlers)
        /\ DOMAIN Tail(q) = 1 .. Len(q) - 1
        /\ \A i \in 1 .. Len(q) - 1 : Tail(q)[i] = q[i + 1]
    OBVIOUS
  <1>3. NoTwice(Tail(q))
    BY <1>1, <1>2 DEF NoTwice
  <1>4. ASSUME NEW g
        PROVE  InQueue(Tail(q), g) <=> InQueue(q, g) /\ g # Head(q)
    <2>1. ASSUME InQueue(Tail(q), g)
          PROVE  InQueue(q, g) /\ g # Head(q)
      <3>1. PICK i \in 1 .. Len(q) - 1 : q[i + 1] = g
        BY <1>2, <2>1 DEF InQueue
      <3>2. i + 1 \in 1 .. Len(q) /\ i + 1 # 1
        BY <1>1
      <3> QED BY <1>1, <3>1, <3>2 DEF InQueue, NoTwice
    <2>2. ASSUME InQueue(q, g), g # Head(q)
          PROVE  InQueue(Tail(q), g)
      <3>1. PICK i \in 1 .. Len(q) : q[i] = g
        BY <1>1, <2>2 DEF InQueue
      <3>2. i - 1 \in 1 .. Len(q) - 1 /\ (i - 1) + 1 = i
        BY <1>1, <2>2, <3>1
      <3> QED BY <1>2, <3>1, <3>2 DEF InQueue
    <2> QED BY <2>1, <2>2
  <1> QED BY <1>1, <1>2, <1>3, <1>4 DEF InQueue

-----------------------------------------------------------------------------
(* The steps that every operation is made of *)

\* A handler that leaves is where a free slot is.
LEMMA LeaveFacts ==
    ASSUME TypeOK, NEW h \in Handlers, Leave(h)
    PROVE  /\ op' \in [Handlers -> Operations \cup {"none"}]
           /\ step' \in [Handlers -> 1 .. 10]
           /\ \A g \in Handlers \ {h} : op'[g] = op[g] /\ step'[g] = step[g]
           /\ op'[h] = "none" /\ step'[h] = 1
  BY DEF TypeOK, Leave

\* A handler that goes on has a transaction if it has just begun one, or has it still.
LEMMA AdvanceFacts ==
    ASSUME TypeOK, NEW h \in Handlers, OnCourse(h), Busy(h), Advance(h)
    PROVE  /\ op' \in [Handlers -> Operations \cup {"none"}]
           /\ step' \in [Handlers -> 1 .. 10]
           /\ \A g \in Handlers \ {h} : op'[g] = op[g] /\ step'[g] = step[g]
           /\ OnCourse(h)'
           /\ op'[h] \in {op[h], "none"}
           /\ Busy(h)' /\ step'[h] \in Open(op'[h])
                <=> At(h, "begin") \/ (step[h] \in Open(op[h]) /\ ~At(h, "commit"))
           /\ Busy(h)' => \A s : Written(h, s) \/ At(h, s) => Written(h, s)'
  <1> DEFINE o == op[h]
             n == step[h]
  <1>1. o \in Operations /\ n \in 1 .. Len(Program(o)) /\ n \in 1 .. 10
    BY DEF TypeOK, OnCourse, Busy
  <1>2. Len(Program(o)) \in 2 .. 10
    BY <1>1, Programs
  <1>3. CASE n = Len(Program(o))
    <2>1. Leave(h)
      BY <1>3 DEF Advance
    <2>2. ~At(h, "begin") /\ ~(n \in Open(o) /\ ~At(h, "commit"))
      BY <1>1, <1>2, <1>3, Programs DEF At, Current, Busy
    <2> QED BY <2>1, <2>2, LeaveFacts DEF OnCourse, Busy
  <1>4. CASE n # Len(Program(o))
    <2>1. op' = op /\ step' = [step EXCEPT ![h] = n + 1]
      BY <1>4 DEF Advance
    <2>2. n + 1 \in 1 .. Len(Program(o)) /\ n < Len(Program(o)) /\ n + 1 \in 1 .. 10
      <3> DEFINE len == Len(Program(o))
      <3>1. len \in 2 .. 10 /\ n \in 1 .. len /\ n # len
        BY <1>1, <1>2, <1>4
      <3> HIDE DEF len, n
      <3>2. n + 1 \in 1 .. len /\ n < len /\ n + 1 \in 1 .. 10
        BY <3>1
      <3> QED BY <3>2 DEF len
    <2>3. /\ step' \in [Handlers -> 1 .. 10]
          /\ step'[h] = n + 1
          /\ \A g \in Handlers \ {h} : step'[g] = step[g]
      BY <2>1, <2>2 DEF TypeOK
    <2>4. OnCourse(h)'
      BY <2>1, <2>2, <2>3 DEF OnCourse, Busy
    <2>5. n + 1 \in Open(o) <=> At(h, "begin") \/ (n \in Open(o) /\ ~At(h, "commit"))
      BY <1>1, <2>2, Programs DEF At, Current, Busy
    <2>6. ASSUME NEW s, Written(h, s) \/ At(h, s)
          PROVE  Written(h, s)'
      <3>1. PICK i \in 1 .. n : Program(o)[i] = s
        BY <1>1, <2>6 DEF Written, At, Current
      <3> QED BY <1>1, <2>1, <2>3, <3>1 DEF Written
    <2> QED BY <2>1, <2>3, <2>4, <2>5, <2>6 DEF TypeOK, Busy
  <1> QED BY <1>3, <1>4

\* What a handler does concerns no other one.
LEMMA Others ==
    ASSUME NEW g \in Handlers, OnCourse(g), Consistent(g),
           op'[g] = op[g], step'[g] = step[g],
           Queued(g)' <=> Queued(g), g \in lent' <=> g \in lent, g \in txn' <=> g \in txn
    PROVE  OnCourse(g)' /\ Consistent(g)'
  <1>1. /\ Busy(g)' <=> Busy(g)
        /\ Current(g)' = Current(g)
    BY DEF Busy, Current
  <1>2. OnCourse(g)'
    BY <1>1 DEF OnCourse
  <1>3. (Wants(g)' <=> Wants(g)) /\ (At(g, "begin")' <=> At(g, "begin"))
    BY <1>1 DEF Wants, At
  <1> QED BY <1>1, <1>2, <1>3 DEF Consistent

\* Rows stay with their owners.
LEMMA LocksKept ==
    ASSUME LocksOwned, lock' = lock,
           \A g \in txn : /\ g \in txn' /\ ds'[g] = ds[g]
                          /\ \A s : Written(g, s) => Written(g, s)'
    PROVE  LocksOwned'
  BY DEF LocksOwned, Owns

\* A handler that is given one more connection, of what is free, and one that gives one back.
LEMMA Borrowed ==
    ASSUME NEW S, IsFiniteSet(S), NEW h
    PROVE  /\ IsFiniteSet(S \cup {h}) /\ IsFiniteSet(S \ {h})
           /\ Cardinality(S) \in Nat
           /\ Cardinality(S \cup {h}) \in Nat /\ Cardinality(S \cup {h}) <= Cardinality(S) + 1
           /\ Cardinality(S \ {h}) \in Nat /\ Cardinality(S \ {h}) <= Cardinality(S)
           /\ h \in S => Cardinality(S \ {h}) + 1 = Cardinality(S)
  BY FS_CardinalityType, FS_AddElement, FS_RemoveElement

-----------------------------------------------------------------------------
(* Each action preserves the invariant. *)

LEMMA InvInit == Init => PoolInv
  <1> SUFFICES ASSUME Init PROVE PoolInv
    OBVIOUS
  <1>1. IsFiniteSet({}) /\ Cardinality({}) = 0
    BY FS_EmptySet
  <1>2. TypeOK
    BY <1>1, PoolAssumption DEF Init, TypeOK
  <1>3. \A h \in Handlers : OnCourse(h) /\ Consistent(h)
    BY DEF Init, OnCourse, Consistent, Busy, Queued, Wants, At
  <1>4. NoTwice(queue)
    BY DEF Init, NoTwice
  <1>5. LocksOwned
    BY DEF Init, LocksOwned
  <1> QED BY <1>1, <1>2, <1>3, <1>4, <1>5 DEF Init, PoolInv

LEMMA InvStart ==
    ASSUME PoolInv, NEW h \in Handlers, NEW o \in Operations, NEW d \in Datasets, Start(h, o, d)
    PROVE  PoolInv'
  <1>1. /\ ~Busy(h) /\ step[h] = 1 /\ op[h] = "none"
        /\ ~Queued(h) /\ h \notin lent /\ h \notin txn
    BY DEF PoolInv, Start, OnCourse, Consistent, Wants, Busy
  <1>2. /\ op' = [op EXCEPT ![h] = o] /\ ds' = [ds EXCEPT ![h] = d]
        /\ step' = step /\ queue' = queue /\ lent' = lent /\ txn' = txn
        /\ lock' = lock /\ leaked' = leaked
    BY DEF Start, pool
  <1>3. TypeOK'
    BY <1>2 DEF PoolInv, TypeOK
  <1>4. \A g \in Handlers \ {h} : op'[g] = op[g] /\ ds'[g] = ds[g]
    BY <1>2 DEF PoolInv, TypeOK
  <1>5. ASSUME NEW g \in Handlers \ {h}
        PROVE  OnCourse(g)' /\ Consistent(g)'
    BY <1>2, <1>4, Others DEF PoolInv, Queued
  <1>6. op'[h] = o /\ step'[h] = 1 /\ o # "none"
    BY <1>1, <1>2 DEF PoolInv, TypeOK, Operations
  <1>7. OnCourse(h)' /\ Consistent(h)'
    <2>1. Len(Program(o)) \in 2 .. 10 /\ 1 \notin Open(o)
      BY Programs
    <2>2. OnCourse(h)'
      <3>1. 1 \in 1 .. Len(Program(o))
        <4> DEFINE len == Len(Program(o))
        <4>1. len \in 2 .. 10
          BY <2>1
        <4> HIDE DEF len
        <4>2. 1 \in 1 .. len
          BY <4>1
        <4> QED BY <4>2 DEF len
      <3> QED BY <1>6, <3>1 DEF OnCourse, Busy
    <2>3. ~Queued(h)' /\ h \notin lent' /\ h \notin txn'
      BY <1>1, <1>2 DEF Queued
    <2> QED BY <1>6, <2>1, <2>2, <2>3 DEF Consistent, Start
  <1>8. LocksOwned'
    <2>1. \A g \in txn : g \in Handlers \ {h}
      BY <1>1 DEF PoolInv, TypeOK
    <2>2. \A g \in txn : \A s : Written(g, s) => Written(g, s)'
      BY <1>2, <1>4, <2>1 DEF Written
    <2> QED BY <1>2, <1>4, <2>1, <2>2, LocksKept DEF PoolInv
  <1> QED BY <1>2, <1>3, <1>5, <1>7, <1>8 DEF PoolInv

LEMMA InvAsk ==
    ASSUME PoolInv, NEW h \in Handlers, Ask(h)
    PROVE  PoolInv'
  <1>1. /\ Wants(h) /\ h \notin lent /\ ~InQueue(queue, h)
        /\ queue' = Append(queue, h)
        /\ op' = op /\ ds' = ds /\ step' = step /\ lent' = lent /\ txn' = txn
        /\ lock' = lock /\ leaked' = leaked
    BY DEF Ask, Wants, Wanting, Queued, InQueue
  <1>2. /\ queue' \in Seq(Handlers) /\ NoTwice(queue')
        /\ \A g : Queued(g)' <=> Queued(g) \/ g = h
    <2>1. queue \in Seq(Handlers) /\ NoTwice(queue)
      BY DEF PoolInv, TypeOK
    <2>2. /\ Append(queue, h) \in Seq(Handlers)
          /\ NoTwice(Append(queue, h))
          /\ \A g : InQueue(Append(queue, h), g) <=> InQueue(queue, g) \/ g = h
      BY <1>1, <2>1, Appended
    <2>3. \A g : (Queued(g) <=> InQueue(queue, g)) /\ (Queued(g)' <=> InQueue(queue', g))
      BY DEF Queued, InQueue
    <2> QED BY <1>1, <2>2, <2>3
  <1>3. TypeOK'
    BY <1>1, <1>2 DEF PoolInv, TypeOK
  <1>4. \A g \in Handlers \ {h} : OnCourse(g)' /\ Consistent(g)'
    BY <1>1, <1>2, Others DEF PoolInv
  <1>5. OnCourse(h)' /\ Consistent(h)'
    BY <1>1, <1>2 DEF PoolInv, OnCourse, Consistent, Wants, Busy, Current, At
  <1>6. LocksOwned'
    BY <1>1, LocksKept DEF PoolInv, Written
  <1> QED BY <1>1, <1>2, <1>3, <1>4, <1>5, <1>6 DEF PoolInv

\* What the pool accounts for, when a handler gives back what it has ...
LEMMA GivenBack ==
    ASSUME PoolInv, NEW h \in Handlers, NEW S \in {lent, lent \ {h}}, NEW T \in {txn, txn \ {h}}
    PROVE  /\ S \subseteq Handlers /\ IsFiniteSet(S)
           /\ T \subseteq Handlers /\ IsFiniteSet(T)
           /\ leaked + Cardinality(S) + Cardinality(T) <= PoolSize
           /\ h \in txn /\ T = txn \ {h} => (leaked + 1) + Cardinality(S) + Cardinality(T) <= PoolSize
  <1>1. /\ lent \subseteq Handlers /\ IsFiniteSet(lent) /\ txn \subseteq Handlers /\ IsFiniteSet(txn)
        /\ leaked \in Nat /\ PoolSize \in Nat
        /\ leaked + Cardinality(lent) + Cardinality(txn) <= PoolSize
    BY PoolAssumption DEF PoolInv, TypeOK
  <1> DEFINE l == Cardinality(lent)
             t == Cardinality(txn)
             s == Cardinality(S)
             u == Cardinality(T)
  <1>2. IsFiniteSet(S) /\ l \in Nat /\ s \in Nat /\ s <= l
    <2>1. CASE S = lent
      BY <1>1, <2>1, FS_CardinalityType
    <2>2. CASE S = lent \ {h}
      BY <1>1, <2>2, Borrowed
    <2> QED BY <2>1, <2>2
  <1>3. IsFiniteSet(T) /\ t \in Nat /\ u \in Nat /\ u <= t /\ (T = txn \ {h} /\ h \in txn => u + 1 = t)
    <2>1. CASE T = txn
      BY <1>1, <2>1, FS_CardinalityType
    <2>2. CASE T = txn \ {h}
      BY <1>1, <2>2, Borrowed
    <2> QED BY <2>1, <2>2
  <1>4. leaked + l + t <= PoolSize
    BY <1>1
  <1> HIDE DEF l, t, s, u
  <1>5. /\ leaked + s + u <= PoolSize
        /\ h \in txn /\ T = txn \ {h} => (leaked + 1) + s + u <= PoolSize
    BY <1>1, <1>2, <1>3, <1>4
  <1> QED BY <1>1, <1>2, <1>3, <1>5 DEF s, u

\* ... and when it is given a free connection.
LEMMA Given ==
    ASSUME PoolInv, NEW h \in Handlers, leaked + Cardinality(lent) + Cardinality(txn) + 1 <= PoolSize
    PROVE  /\ IsFiniteSet(lent \cup {h}) /\ leaked + Cardinality(lent \cup {h}) + Cardinality(txn) <= PoolSize
           /\ IsFiniteSet(txn \cup {h}) /\ leaked + Cardinality(lent) + Cardinality(txn \cup {h}) <= PoolSize
  <1>1. IsFiniteSet(lent) /\ IsFiniteSet(txn) /\ leaked \in Nat /\ PoolSize \in Nat
    BY PoolAssumption DEF PoolInv, TypeOK
  <1> DEFINE l == Cardinality(lent)
             t == Cardinality(txn)
             s == Cardinality(lent \cup {h})
             u == Cardinality(txn \cup {h})
  <1>2. /\ IsFiniteSet(lent \cup {h}) /\ l \in Nat /\ s \in Nat /\ s <= l + 1
        /\ IsFiniteSet(txn \cup {h}) /\ t \in Nat /\ u \in Nat /\ u <= t + 1
    BY <1>1, Borrowed
  <1>3. leaked + l + t + 1 <= PoolSize
    OBVIOUS
  <1> HIDE DEF l, t, s, u
  <1>4. leaked + s + t <= PoolSize /\ leaked + l + u <= PoolSize
    BY <1>1, <1>2, <1>3
  <1> QED BY <1>2, <1>4 DEF l, t, s, u

\* A connection is free only if fewer than PoolSize are accounted for.
LEMMA FreeFacts ==
    ASSUME PoolInv, Free > 0
    PROVE  leaked + Cardinality(lent) + Cardinality(txn) + 1 <= PoolSize
  <1>1. Cardinality(lent) \in Nat /\ Cardinality(txn) \in Nat /\ leaked \in Nat
    BY FS_CardinalityType DEF PoolInv, TypeOK
  <1> QED BY <1>1, PoolAssumption DEF Free

LEMMA ServedQueue ==
    ASSUME PoolInv, queue # <<>>, queue' = Tail(queue)
    PROVE  /\ Head(queue) \in Handlers /\ Queued(Head(queue))
           /\ queue' \in Seq(Handlers) /\ NoTwice(queue')
           /\ \A g : Queued(g)' <=> Queued(g) /\ g # Head(queue)
  <1>1. queue \in Seq(Handlers) /\ NoTwice(queue)
    BY DEF PoolInv, TypeOK
  <1>2. \A g : (Queued(g) <=> InQueue(queue, g)) /\ (Queued(g)' <=> InQueue(queue', g))
    BY DEF Queued, InQueue
  <1> QED BY <1>1, <1>2, Served

LEMMA InvGrant ==
    ASSUME PoolInv, Grant
    PROVE  PoolInv'
  <1>0. PICK h \in Handlers : h = Head(queue)
    BY Served DEF PoolInv, TypeOK, Grant
  <1>1. /\ Queued(h)
        /\ queue' \in Seq(Handlers) /\ NoTwice(queue')
        /\ \A g : Queued(g)' <=> Queued(g) /\ g # h
    BY <1>0, ServedQueue DEF Grant
  <1>2. /\ Wants(h) /\ h \notin lent /\ OnCourse(h) /\ Busy(h)
        /\ op[h] = "Live" => h \in Publishers
        /\ h \in txn <=> step[h] \in Open(op[h])
    BY <1>1 DEF PoolInv, Consistent, Wants
  <1>3. ds' = ds /\ lock' = lock /\ leaked' = leaked
    BY DEF Grant
  <1>4. leaked + Cardinality(lent) + Cardinality(txn) + 1 <= PoolSize
    BY FreeFacts DEF Grant
  <1>5. CASE At(h, "begin")
    <2>1. txn' = txn \cup {h} /\ Advance(h) /\ lent' = lent
      BY <1>0, <1>5 DEF Grant
    <2>2. /\ op' \in [Handlers -> Operations \cup {"none"}]
          /\ step' \in [Handlers -> 1 .. 10]
          /\ \A g \in Handlers \ {h} : op'[g] = op[g] /\ step'[g] = step[g]
          /\ OnCourse(h)'
          /\ op'[h] \in {op[h], "none"}
          /\ Busy(h)' /\ step'[h] \in Open(op'[h])
      BY <1>1, <1>2, <1>5, <2>1, AdvanceFacts DEF PoolInv
    <2>3. TypeOK' /\ IsFiniteSet(lent)' /\ IsFiniteSet(txn)'
      BY <1>1, <1>3, <1>4, <2>1, <2>2, Given DEF PoolInv, TypeOK
    <2>4. \A g \in Handlers \ {h} : OnCourse(g)' /\ Consistent(g)'
      BY <1>1, <2>1, <2>2, Others DEF PoolInv
    <2>5. Consistent(h)'
      <3>1. ~Queued(h)' /\ h \notin lent' /\ h \in txn'
        BY <1>1, <1>2, <2>1
      <3> QED BY <1>2, <2>2, <3>1 DEF Consistent, Busy
    <2>6. LocksOwned'
      <3>1. h \notin txn
        BY <1>2, <1>5, Programs DEF At, Current, OnCourse, PoolInv, TypeOK, Busy
      <3>2. \A g \in txn : g \in Handlers \ {h}
        BY <3>1 DEF PoolInv, TypeOK
      <3>3. \A g \in txn : \A s : Written(g, s) => Written(g, s)'
        BY <2>2, <3>2 DEF Written
      <3> QED BY <1>3, <2>1, <3>3, LocksKept DEF PoolInv
    <2> QED BY <1>1, <2>2, <2>3, <2>4, <2>5, <2>6 DEF PoolInv
  <1>6. CASE ~At(h, "begin")
    <2>1. lent' = lent \cup {h} /\ op' = op /\ step' = step /\ txn' = txn
      BY <1>0, <1>6 DEF Grant
    <2>2. TypeOK' /\ IsFiniteSet(lent)' /\ IsFiniteSet(txn)'
      BY <1>1, <1>3, <1>4, <2>1, Given DEF PoolInv, TypeOK
    <2>3. \A g \in Handlers \ {h} : OnCourse(g)' /\ Consistent(g)'
      BY <1>1, <2>1, Others DEF PoolInv
    <2>4. OnCourse(h)' /\ Consistent(h)'
      BY <1>1, <1>2, <1>6, <2>1 DEF OnCourse, Consistent, Wants, Busy, Current, At
    <2>5. LocksOwned'
      BY <1>3, <2>1, LocksKept DEF PoolInv, Written
    <2> QED BY <1>1, <2>2, <2>3, <2>4, <2>5 DEF PoolInv
  <1> QED BY <1>5, <1>6

\* A handler goes on, with the same transaction or none, and has given back what it had
\* borrowed.
LEMMA InvGoOn ==
    ASSUME PoolInv, NEW h \in Handlers, Busy(h), ~Queued(h), Advance(h),
           ~At(h, "begin"), ~At(h, "commit"),
           ds' = ds, queue' = queue, lent' = lent \ {h}, txn' = txn, leaked' = leaked,
           \/ lock' = lock
           \/ \E s \in Rows : At(h, s) /\ lock' = [lock EXCEPT ![<<ds[h], s>>] = h]
    PROVE  PoolInv'
  <1>1. /\ op' \in [Handlers -> Operations \cup {"none"}]
        /\ step' \in [Handlers -> 1 .. 10]
        /\ \A g \in Handlers \ {h} : op'[g] = op[g] /\ step'[g] = step[g]
        /\ OnCourse(h)'
        /\ op'[h] \in {op[h], "none"}
        /\ Busy(h)' /\ step'[h] \in Open(op'[h]) <=> step[h] \in Open(op[h])
        /\ Busy(h)' => \A s : Written(h, s) \/ At(h, s) => Written(h, s)'
    BY AdvanceFacts DEF PoolInv
  <1>2. Consistent(h) /\ OnCourse(h)
    BY DEF PoolInv
  <1>3. \A g : Queued(g)' <=> Queued(g)
    BY DEF Queued
  <1>4. TypeOK' /\ IsFiniteSet(lent)' /\ IsFiniteSet(txn)'
    <2>1. leaked + Cardinality(lent') + Cardinality(txn') <= PoolSize /\ IsFiniteSet(lent')
      BY GivenBack
    <2>2. lock' \in [Datasets \X Rows -> Handlers \cup {NoHandler}]
      BY DEF PoolInv, TypeOK
    <2> QED BY <1>1, <2>1, <2>2 DEF PoolInv, TypeOK
  <1>5. \A g \in Handlers \ {h} : OnCourse(g)' /\ Consistent(g)'
    BY <1>1, <1>3, Others DEF PoolInv
  <1>6. Consistent(h)'
    <2>1. ~Queued(h)' /\ h \notin lent'
      BY <1>3
    <2> QED BY <1>1, <1>2, <2>1 DEF Consistent, Busy
  <1>7. ASSUME NEW g \in txn, NEW s, Written(g, s) \/ (g = h /\ At(h, s))
        PROVE  Written(g, s)'
    <2>1. CASE g = h
      BY <1>1, <1>7, <2>1, <1>6 DEF Consistent
    <2>2. CASE g # h
      BY <1>1, <1>7, <2>2 DEF Written, PoolInv, TypeOK
    <2> QED BY <2>1, <2>2
  <1>8. LocksOwned'
    <2>1. CASE lock' = lock
      BY <1>7, <2>1, LocksKept DEF PoolInv
    <2>2. CASE \E s \in Rows : At(h, s) /\ lock' = [lock EXCEPT ![<<ds[h], s>>] = h]
      <3>1. PICK s \in Rows : At(h, s) /\ lock' = [lock EXCEPT ![<<ds[h], s>>] = h]
        BY <2>2
      <3>2. h \in txn
        BY <1>2, <3>1, Programs DEF At, Current, OnCourse, Consistent, PoolInv, TypeOK, Busy
      <3>3. Owns(h, ds[h], s)'
        BY <1>7, <3>1, <3>2 DEF Owns
      <3>4. \A d \in Datasets, t \in Rows :
               \/ <<d, t>> = <<ds[h], s>> /\ lock'[<<d, t>>] = h
               \/ lock'[<<d, t>>] = lock[<<d, t>>]
        BY <3>1 DEF PoolInv, TypeOK
      <3>5. \A g, d, t : Owns(g, d, t) => Owns(g, d, t)'
        BY <1>7 DEF Owns
      <3> QED BY <3>3, <3>4, <3>5 DEF LocksOwned, PoolInv
    <2> QED BY <2>1, <2>2
  <1> QED BY <1>1, <1>2, <1>4, <1>5, <1>6, <1>8 DEF PoolInv

\* Rows stay with their owners, except those of a handler that gives them up.
LEMMA LocksReleased ==
    ASSUME PoolInv, NEW h \in Handlers, ds' = ds, txn' = txn \ {h},
           \A g \in Handlers \ {h} : op'[g] = op[g] /\ step'[g] = step[g],
           \A d \in Datasets, s \in Rows :
              \/ lock'[<<d, s>>] = NoHandler
              \/ lock'[<<d, s>>] = lock[<<d, s>>] /\ lock[<<d, s>>] # h
    PROVE  LocksOwned'
  <1>1. ASSUME NEW g, NEW d, NEW s, Owns(g, d, s), g # h
        PROVE  Owns(g, d, s)'
    <2>1. g \in Handlers \ {h}
      BY <1>1 DEF Owns, PoolInv, TypeOK
    <2> QED BY <1>1, <2>1 DEF Owns, Written
  <1> QED BY <1>1 DEF LocksOwned, PoolInv

LEMMA UnlockFacts ==
    ASSUME TypeOK, NEW h \in Handlers, Unlock(h)
    PROVE  /\ lock' \in [Datasets \X Rows -> Handlers \cup {NoHandler}]
           /\ \A d \in Datasets, s \in Rows :
                 \/ lock'[<<d, s>>] = NoHandler
                 \/ lock'[<<d, s>>] = lock[<<d, s>>] /\ lock[<<d, s>>] # h
  BY DEF TypeOK, Unlock

LEMMA InvCommit ==
    ASSUME PoolInv, NEW h \in Handlers, Commit(h)
    PROVE  PoolInv'
  <1>1. /\ At(h, "commit") /\ Busy(h) /\ OnCourse(h) /\ Consistent(h)
        /\ txn' = txn \ {h} /\ Unlock(h) /\ Advance(h)
        /\ ds' = ds /\ queue' = queue /\ lent' = lent /\ leaked' = leaked
    BY DEF Commit, At, PoolInv
  <1>2. /\ op' \in [Handlers -> Operations \cup {"none"}]
        /\ step' \in [Handlers -> 1 .. 10]
        /\ \A g \in Handlers \ {h} : op'[g] = op[g] /\ step'[g] = step[g]
        /\ OnCourse(h)'
        /\ op'[h] \in {op[h], "none"}
        /\ ~(Busy(h)' /\ step'[h] \in Open(op'[h]))
    BY <1>1, AdvanceFacts DEF PoolInv, At
  <1>3. ~Queued(h) /\ h \notin lent
    BY <1>1 DEF Consistent, Wants, Wanting, At
  <1>4. \A g : Queued(g)' <=> Queued(g)
    BY <1>1 DEF Queued
  <1>5. TypeOK' /\ IsFiniteSet(lent)' /\ IsFiniteSet(txn)'
    <2>1. leaked + Cardinality(lent') + Cardinality(txn') <= PoolSize /\ IsFiniteSet(txn')
      BY <1>1, GivenBack
    <2>2. lock' \in [Datasets \X Rows -> Handlers \cup {NoHandler}]
      BY <1>1, UnlockFacts DEF PoolInv
    <2> QED BY <1>1, <1>2, <2>1, <2>2 DEF PoolInv, TypeOK
  <1>6. \A g \in Handlers \ {h} : OnCourse(g)' /\ Consistent(g)'
    BY <1>1, <1>2, <1>4, Others DEF PoolInv
  <1>7. Consistent(h)'
    <2>1. ~Queued(h)' /\ h \notin lent' /\ h \notin txn'
      BY <1>1, <1>3, <1>4
    <2> QED BY <1>1, <1>2, <2>1 DEF Consistent, Busy
  <1>8. LocksOwned'
    <2>1. \A d \in Datasets, s \in Rows :
             \/ lock'[<<d, s>>] = NoHandler
             \/ lock'[<<d, s>>] = lock[<<d, s>>] /\ lock[<<d, s>>] # h
      BY <1>1, UnlockFacts DEF PoolInv
    <2> QED BY <1>1, <1>2, <2>1, LocksReleased
  <1> QED BY <1>1, <1>2, <1>5, <1>6, <1>7, <1>8 DEF PoolInv

\* A publication that has reached its first bare statement has written no row.
LEMMA BareFacts ==
    ASSUME PoolInv, NEW h \in Handlers, At(h, "bare")
    PROVE  h \in txn /\ \A s \in Rows : ~Written(h, s)
  <1>1. op[h] \in Operations /\ step[h] \in 1 .. Len(Program(op[h])) /\ Program(op[h])[step[h]] = "bare"
    BY DEF PoolInv, TypeOK, OnCourse, At, Busy, Current
  <1>2. step[h] \in Open(op[h]) /\ \A i \in 1 .. step[h] - 1 : Program(op[h])[i] \notin Rows
    BY <1>1, Programs
  <1> QED BY <1>2 DEF PoolInv, Consistent, Written, At

LEMMA InvGiveUp ==
    ASSUME PoolInv, NEW h \in Handlers, GiveUp(h), ds' = ds,
           queue' \in Seq(Handlers), NoTwice(queue'),
           \A g : Queued(g)' <=> Queued(g) /\ g # h
    PROVE  PoolInv'
  <1>1. Leave(h) /\ lent' = lent \ {h} /\ txn' = txn \ {h}
    BY DEF GiveUp
  <1>2. /\ op' \in [Handlers -> Operations \cup {"none"}]
        /\ step' \in [Handlers -> 1 .. 10]
        /\ \A g \in Handlers \ {h} : op'[g] = op[g] /\ step'[g] = step[g]
        /\ op'[h] = "none" /\ step'[h] = 1
    BY <1>1, LeaveFacts DEF PoolInv
  <1>3. /\ lock' \in [Datasets \X Rows -> Handlers \cup {NoHandler}]
        /\ \A d \in Datasets, s \in Rows :
              \/ lock'[<<d, s>>] = NoHandler
              \/ lock'[<<d, s>>] = lock[<<d, s>>] /\ lock[<<d, s>>] # h
    <2>1. CASE At(h, "bare")
      BY <2>1, BareFacts DEF GiveUp, LocksOwned, Owns, PoolInv, TypeOK
    <2>2. CASE ~At(h, "bare")
      BY <2>2, UnlockFacts DEF GiveUp, PoolInv
    <2> QED BY <2>1, <2>2
  <1>4. TypeOK' /\ IsFiniteSet(lent)' /\ IsFiniteSet(txn)'
    <2>1. /\ leaked + Cardinality(lent') + Cardinality(txn') <= PoolSize
          /\ IsFiniteSet(lent') /\ IsFiniteSet(txn')
          /\ h \in txn => (leaked + 1) + Cardinality(lent') + Cardinality(txn') <= PoolSize
      BY <1>1, GivenBack
    <2>2. leaked' + Cardinality(lent') + Cardinality(txn') <= PoolSize /\ leaked' \in Nat
      BY <2>1, BareFacts DEF GiveUp, PoolInv, TypeOK
    <2> QED BY <1>1, <1>2, <1>3, <2>1, <2>2 DEF PoolInv, TypeOK
  <1>5. \A g \in Handlers \ {h} : OnCourse(g)' /\ Consistent(g)'
    BY <1>1, <1>2, Others DEF PoolInv
  <1>6. OnCourse(h)' /\ Consistent(h)'
    BY <1>1, <1>2 DEF OnCourse, Consistent, Busy
  <1>7. LocksOwned'
    BY <1>1, <1>2, <1>3, LocksReleased
  <1> QED BY <1>4, <1>5, <1>6, <1>7 DEF PoolInv

\* The same for a handler that fails at a statement that runs, or in a deadlock.
LEMMA InvFails ==
    ASSUME PoolInv, NEW h \in Handlers, Error(h) \/ Deadlock(h)
    PROVE  PoolInv'
  <1>1. GiveUp(h) /\ ds' = ds /\ queue' = queue
    BY DEF Error, Deadlock
  <1>2. h \in lent \/ Current(h) \in Rows
    BY DEF Error, Deadlock, Deadlocked, Waits, At
  <1>3. ~Queued(h)
    BY <1>2 DEF PoolInv, Consistent, Wants, Wanting, Rows
  <1>4. \A g : Queued(g)' <=> Queued(g) /\ g # h
    BY <1>1, <1>3 DEF Queued
  <1>5. queue' \in Seq(Handlers) /\ NoTwice(queue')
    BY <1>1 DEF PoolInv, TypeOK
  <1> QED BY <1>1, <1>4, <1>5, InvGiveUp

LEMMA InvAcquireTimeout ==
    ASSUME PoolInv, AcquireTimeout
    PROVE  PoolInv'
  <1>1. PICK h \in Handlers : h = Head(queue)
    BY ServedQueue DEF AcquireTimeout
  <1> QED BY <1>1, ServedQueue, InvGiveUp DEF AcquireTimeout

LEMMA InvRun ==
    ASSUME PoolInv, NEW h \in Handlers, Run(h)
    PROVE  PoolInv'
  <1>1. ASSUME Query(h)
        PROVE  PoolInv'
    <2>1. h \in lent /\ Advance(h) /\ lent' = lent \ {h} /\ ds' = ds /\ queue' = queue
          /\ txn' = txn /\ lock' = lock /\ leaked' = leaked
      BY <1>1 DEF Query
    <2>2. Busy(h) /\ ~Queued(h) /\ ~At(h, "begin") /\ ~At(h, "commit")
      BY <2>1 DEF PoolInv, Consistent, Wants, Wanting, At
    <2> QED BY <2>1, <2>2, InvGoOn
  <1>2. ASSUME Skip(h)
        PROVE  PoolInv'
    <2>1. /\ Busy(h) /\ ~Queued(h) /\ ~At(h, "begin") /\ ~At(h, "commit")
          /\ Advance(h) /\ lent' = lent \ {h} /\ ds' = ds /\ queue' = queue
          /\ txn' = txn /\ lock' = lock /\ leaked' = leaked
      BY <1>2 DEF Skip, pool, Optional, At
    <2> QED BY <2>1, InvGoOn
  <1>3. ASSUME NEW s \in Rows, Write(h, s)
        PROVE  PoolInv'
    <2>1. /\ At(h, s) /\ Busy(h) /\ ~At(h, "begin") /\ ~At(h, "commit")
          /\ Advance(h) /\ ds' = ds /\ queue' = queue /\ lent' = lent
          /\ txn' = txn /\ lock' = [lock EXCEPT ![<<ds[h], s>>] = h] /\ leaked' = leaked
      BY <1>3 DEF Write, pool, Rows, At
    <2>2. ~Queued(h) /\ h \notin lent
      BY <2>1 DEF PoolInv, Consistent, Wants, Wanting, Rows, At
    <2>3. lent' = lent \ {h}
      BY <2>1, <2>2
    <2> QED BY <2>1, <2>2, <2>3, InvGoOn
  <1>4. ASSUME Ask(h)
        PROVE  PoolInv'
    BY <1>4, InvAsk
  <1>5. ASSUME Commit(h)
        PROVE  PoolInv'
    BY <1>5, InvCommit
  <1>6. ASSUME Deadlock(h)
        PROVE  PoolInv'
    BY <1>6, InvFails
  <1> QED BY <1>1, <1>2, <1>3, <1>4, <1>5, <1>6 DEF Run

LEMMA InvNext == PoolInv /\ [Next]_vars => PoolInv'
  <1> SUFFICES ASSUME PoolInv, [Next]_vars PROVE PoolInv'
    OBVIOUS
  <1>1. ASSUME NEW h \in Handlers, NEW o \in Operations, NEW d \in Datasets, Start(h, o, d)
        PROVE  PoolInv'
    BY <1>1, InvStart
  <1>2. ASSUME NEW h \in Handlers, Run(h)
        PROVE  PoolInv'
    BY <1>2, InvRun
  <1>3. ASSUME NEW h \in Handlers, Error(h)
        PROVE  PoolInv'
    BY <1>3, InvFails
  <1>4. ASSUME Grant
        PROVE  PoolInv'
    BY <1>4, InvGrant
  <1>5. ASSUME AcquireTimeout
        PROVE  PoolInv'
    BY <1>5, InvAcquireTimeout
  <1>6. ASSUME UNCHANGED vars
        PROVE  PoolInv'
    BY <1>6 DEF vars, PoolInv, TypeOK, OnCourse, Consistent, Busy, Current, Queued, Wants, At,
                LocksOwned, Owns, Written
  <1> QED BY <1>1, <1>2, <1>3, <1>4, <1>5, <1>6 DEF Next

\* The inductive invariant: a handler's place in the queue, its connections and its rows are
\* those of its place in the operation.
THEOREM PoolInvariant == Spec => []PoolInv
  <1> QED BY InvInit, InvNext, PTL DEF Spec

\* Types, and the pool's books: the connections lent, kept by transactions and lost are never
\* more than pool.max.
THEOREM PoolTypeOK == Spec => []TypeOK
  <1>1. PoolInv => TypeOK
    BY DEF PoolInv
  <1> QED BY <1>1, PoolInvariant, PTL

-----------------------------------------------------------------------------
(* How a chain of waiting handlers ends *)

\* A transaction that waits for a connection is a publication's.
LEMMA QueuedTransaction ==
    ASSUME PoolInv, NEW h \in txn, Wants(h)
    PROVE  h \in Handlers /\ op[h] = "Live" /\ h \in Publishers /\ Current(h) \in {"bare", "nested"}
  <1>1. h \in Handlers /\ op[h] \in Operations /\ step[h] \in 1 .. Len(Program(op[h]))
    BY DEF PoolInv, TypeOK, OnCourse, Consistent, Wants, Busy
  <1>2. step[h] \in Open(op[h]) /\ Program(op[h])[step[h]] \in Wanting
    BY <1>1 DEF PoolInv, Consistent, Wants, Current
  <1>3. op[h] = "Live" /\ Current(h) \in {"bare", "nested"}
    BY <1>1, <1>2, Programs DEF Current
  <1> QED BY <1>1, <1>3 DEF PoolInv, Consistent

\* When the pool is stuck, what a handler waits for was written by a transaction that itself
\* has no second connection.
LEMMA WaitsFor ==
    ASSUME PoolInv, Stuck, NEW g \in Handlers, Waits(g)
    PROVE  /\ RowOf(g) \in Rows
           /\ \E h \in txn \ lent : /\ lock[<<ds[g], RowOf(g)>>] = h
                                    /\ h \in Handlers /\ h # g
                                    /\ ds[h] = ds[g]
                                    /\ Written(h, RowOf(g))
  <1>1. RowOf(g) \in Rows /\ lock[<<ds[g], RowOf(g)>>] \notin {NoHandler, g}
    BY DEF Waits, RowOf, At, Rows, Locked
  <1>2. PICK h : h = lock[<<ds[g], RowOf(g)>>]
    OBVIOUS
  <1>3. h \in txn /\ h \in Handlers /\ ds[h] = ds[g] /\ Written(h, RowOf(g)) /\ h # g
    BY <1>1, <1>2 DEF PoolInv, TypeOK, LocksOwned, Owns
  <1>4. h \notin lent
    <2> SUFFICES ASSUME h \in lent PROVE FALSE
      OBVIOUS
    <2>1. Current(h) \in Rows \cup {"write"}
      BY DEF Stuck, Waits
    <2>2. Wants(h)
      BY <1>3 DEF PoolInv, Consistent
    <2>3. Current(h) \in {"bare", "nested"}
      BY <1>3, <2>2, QueuedTransaction
    <2> QED BY <2>1, <2>3 DEF Rows
  <1> QED BY <1>1, <1>2, <1>3, <1>4

\* A dataset has two rows, so that two transactions that wait for each other's are all that a
\* chain can close to, and Postgres ends those: the chain ends with a publication that has
\* written a row and waits in the queue.
LEMMA ChainEnds ==
    ASSUME PoolInv, Stuck, NEW g \in Handlers, Waits(g)
    PROVE  \E p \in txn : Queued(p) /\ \E s \in Rows : Written(p, s)
  <1>1. PICK h \in txn \ lent : /\ lock[<<ds[g], RowOf(g)>>] = h /\ h \in Handlers
                                /\ ds[h] = ds[g] /\ Written(h, RowOf(g)) /\ RowOf(g) \in Rows
    BY WaitsFor
  <1>2. CASE Queued(h)
    BY <1>1, <1>2
  <1>3. CASE ~Queued(h)
    <2>1. Waits(h)
      BY <1>1, <1>3 DEF Stuck
    <2>2. PICK k \in txn \ lent : /\ lock[<<ds[h], RowOf(h)>>] = k /\ k \in Handlers /\ k # h
                                  /\ ds[k] = ds[h] /\ Written(k, RowOf(h)) /\ RowOf(h) \in Rows
      BY <1>1, <2>1, WaitsFor
    <2>3. CASE Queued(k)
      BY <2>2, <2>3
    <2>4. CASE ~Queued(k)
      <3>1. Waits(k) /\ ~Deadlocked(k)
        BY <2>2, <2>4 DEF Stuck
      <3>2. PICK m \in txn \ lent : lock[<<ds[k], RowOf(k)>>] = m /\ m # k /\ RowOf(k) \in Rows
        BY <2>2, <3>1, WaitsFor
      <3>3. RowOf(k) = RowOf(g)
        BY <1>1, <2>2, <3>2 DEF Rows
      <3>4. lock[<<ds[k], RowOf(k)>>] = h
        BY <1>1, <2>2, <3>3
      <3> QED BY <2>1, <2>2, <3>1, <3>4 DEF Deadlocked
    <2> QED BY <2>3, <2>4
  <1> QED BY <1>2, <1>3

\* Whoever holds a connection when the pool is stuck is such a publication, or waits for one.
LEMMA HolderWaits ==
    ASSUME PoolInv, Stuck, NEW g \in lent \cup txn
    PROVE  \/ g \in txn /\ Queued(g)
           \/ \E p \in txn : Queued(p) /\ \E s \in Rows : Written(p, s)
  <1>1. g \in Handlers
    BY DEF PoolInv, TypeOK
  <1>2. Waits(g) \/ (g \in txn /\ Queued(g))
    BY DEF Stuck
  <1> QED BY <1>1, <1>2, ChainEnds

LEMMA AllTaken ==
    ASSUME PoolInv, Stuck, leaked = 0
    PROVE  Cardinality(lent) + Cardinality(txn) = PoolSize
  <1>1. Cardinality(lent) \in Nat /\ Cardinality(txn) \in Nat
    BY FS_CardinalityType DEF PoolInv
  <1> QED BY <1>1, PoolAssumption DEF Stuck, Free

LEMMA StarvedStep ==
    ASSUME PoolInv, leaked = 0, AcquireTimeout
    PROVE  \E h \in txn : op[h] = "Live" /\ Queued(h)
  <1>1. Stuck
    BY DEF AcquireTimeout
  <1>2. lent \cup txn # {}
    BY <1>1, AllTaken, FS_EmptySet, PoolAssumption
  <1>3. \E p \in txn : Queued(p)
    BY <1>1, <1>2, HolderWaits
  <1> QED BY <1>3, QueuedTransaction DEF PoolInv, TypeOK, Consistent

-----------------------------------------------------------------------------
(* With one publication at a time, a second connection, and no statement that fails before *)
(* the try block of the publication, no connection is lost.                                *)

LEMMA LeakStep ==
    ASSUME \A p, q \in Publishers : p = q, PoolSize >= 2, "bare" \notin Errors,
           PoolInv, leaked = 0, [Next]_vars
    PROVE  leaked' = 0
  <1>1. ASSUME NEW h \in Handlers, GiveUp(h), ~At(h, "bare")
        PROVE  leaked' = 0
    BY <1>1 DEF GiveUp
  <1>2. ASSUME NEW h \in Handlers, Error(h) \/ Deadlock(h)
        PROVE  leaked' = 0
    <2>1. GiveUp(h)
      BY <1>2 DEF Error, Deadlock
    <2>2. ~At(h, "bare")
      BY <1>2 DEF Error, Deadlock, Deadlocked, Waits, At, Rows
    <2> QED BY <1>1, <2>1, <2>2
  <1>3. ASSUME AcquireTimeout
        PROVE  leaked' = 0
    <2>1. PICK h \in Handlers : h = Head(queue) /\ GiveUp(h) /\ Queued(h)
      BY <1>3, ServedQueue DEF AcquireTimeout
    <2>2. Stuck
      BY <1>3 DEF AcquireTimeout
    <2>3. ASSUME At(h, "bare")
          PROVE  FALSE
      <3>1. h \in txn /\ h \notin lent /\ \A s \in Rows : ~Written(h, s)
        BY <2>1, <2>3, BareFacts DEF PoolInv, Consistent
      <3>2. \A p \in txn : Queued(p) => p = h
        <4>1. \A p \in txn : Queued(p) => p \in Publishers
          BY QueuedTransaction DEF PoolInv, TypeOK, Consistent
        <4> QED BY <2>1, <3>1, <4>1
      <3>3. PICK g \in lent \cup txn : g # h
        <4>1. Cardinality(lent) + Cardinality(txn) >= 2
          BY <2>2, AllTaken
        <4>2. Cardinality({}) = 0 /\ Cardinality({h}) = 1
          BY FS_EmptySet, FS_Singleton
        <4>3. ~(lent = {} /\ txn = {h})
          BY <4>1, <4>2
        <4> QED BY <3>1, <4>3
      <3> QED BY <2>2, <3>1, <3>2, <3>3, HolderWaits
    <2> QED BY <1>1, <2>1, <2>3
  <1>4. ASSUME NEW h \in Handlers, Run(h)
        PROVE  leaked' = 0
    BY <1>2, <1>4 DEF Run, Ask, Query, Skip, Commit, Write, pool
  <1>5. ASSUME NEW h \in Handlers, NEW o \in Operations, NEW d \in Datasets, Start(h, o, d)
        PROVE  leaked' = 0
    BY <1>5 DEF Start, pool
  <1> QED BY <1>2, <1>3, <1>4, <1>5 DEF Next, Grant, vars

\* No connection is lost, whatever else fails or waits: with one publication at a time the one
\* that waits before its try block is never the last of a chain, so that somebody gives a
\* connection back before it gives up. The run pool_leak shows that two publications at a time
\* are too many.
THEOREM PoolNothingLeaked ==
    ASSUME \A p, q \in Publishers : p = q, PoolSize >= 2, "bare" \notin Errors
    PROVE  Spec => []NothingLeaked
  <1>1. Init => NothingLeaked
    BY DEF Init, NothingLeaked
  <1>2. PoolInv /\ NothingLeaked /\ [Next]_vars => NothingLeaked'
    BY LeakStep DEF NothingLeaked
  <1> QED BY <1>1, <1>2, PoolInvariant, PTL DEF Spec

\* A handler gives up for want of a connection only while a publication waits for its second
\* one, in every pool that has lost none.
THEOREM PoolStarvation ==
    ASSUME \A p, q \in Publishers : p = q, PoolSize >= 2, "bare" \notin Errors
    PROVE  Spec => StarvedOnlyByPublication
  <1>1. PoolInv /\ NothingLeaked /\ [Next]_vars =>
          [AcquireTimeout => \E h \in txn : op[h] = "Live" /\ Queued(h)]_vars
    BY StarvedStep DEF NothingLeaked
  <1> QED BY <1>1, PoolInvariant, PoolNothingLeaked, PTL DEF Spec, StarvedOnlyByPublication

=============================================================================
