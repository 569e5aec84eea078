------------------------------ MODULE SqliteTxProofs ------------------------------
(***************************************************************************)
(* What SqliteTx guarantees for any number of transactions and statements, *)
(* whatever the order and the number of awaits in which they arrive: the   *)
(* mutex excludes, and the connection is all or nothing, until a request   *)
(* takes the mutex before the waiter that was woken for it.                *)
(***************************************************************************)
EXTENDS SqliteTx, SequenceTheorems, FiniteSetTheorems, TLAPS

LOCAL INSTANCE SequencesExt

-----------------------------------------------------------------------------
(* Sequences without repetitions                                           *)

In(x, s)    == \E i \in 1..Len(s) : s[i] = x
Distinct(s) == \A i, j \in 1..Len(s) : s[i] = s[j] => i = j

\* The head leaves the sequence.
LEMMA HeadLeaves ==
    ASSUME NEW S, NEW s \in Seq(S), s # <<>>
    PROVE  /\ Head(s) \in S /\ Tail(s) \in Seq(S) /\ In(Head(s), s)
           /\ Distinct(s) => /\ Distinct(Tail(s))
                             /\ \A x : In(x, Tail(s)) <=> In(x, s) /\ x # Head(s)
<1>1. /\ Len(s) \in Nat /\ Len(s) > 0 /\ Head(s) = s[1] /\ Head(s) \in S
      /\ Tail(s) \in Seq(S) /\ Len(Tail(s)) = Len(s) - 1
      /\ \A i \in 1..Len(s) - 1 : Tail(s)[i] = s[i + 1]
  OBVIOUS
<1>2. In(Head(s), s)
  BY <1>1 DEF In
<1>3. ASSUME Distinct(s) PROVE Distinct(Tail(s))
  BY <1>1, <1>3 DEF Distinct
<1>4. ASSUME Distinct(s), NEW x PROVE In(x, Tail(s)) <=> In(x, s) /\ x # Head(s)
  <2>1. In(x, Tail(s)) => In(x, s) /\ x # Head(s)
    BY <1>1, <1>4 DEF In, Distinct
  <2>2. ASSUME In(x, s), x # Head(s) PROVE In(x, Tail(s))
    <3>1. PICK i \in 1..Len(s) : s[i] = x
      BY <2>2 DEF In
    <3>2. i - 1 \in 1..Len(s) - 1 /\ Tail(s)[i - 1] = x
      BY <1>1, <2>2, <3>1
    <3> QED  BY <1>1, <3>2 DEF In
  <2> QED  BY <2>1, <2>2
<1> QED  BY <1>1, <1>2, <1>3, <1>4

\* Another element comes to its end.
LEMMA LastComes ==
    ASSUME NEW S, NEW s \in Seq(S), NEW y \in S
    PROVE  /\ Append(s, y) \in Seq(S)
           /\ \A x : In(x, Append(s, y)) <=> In(x, s) \/ x = y
           /\ Distinct(s) /\ ~In(y, s) => Distinct(Append(s, y))
<1>1. /\ Append(s, y) \in Seq(S) /\ Len(s) \in Nat /\ Len(Append(s, y)) = Len(s) + 1
      /\ \A i \in 1..Len(s) : Append(s, y)[i] = s[i]
      /\ Append(s, y)[Len(s) + 1] = y
  OBVIOUS
<1>2. ASSUME NEW x PROVE In(x, Append(s, y)) <=> In(x, s) \/ x = y
  <2>1. In(x, Append(s, y)) => In(x, s) \/ x = y
    BY <1>1 DEF In
  <2>2. In(x, s) \/ x = y => In(x, Append(s, y))
    BY <1>1 DEF In
  <2> QED  BY <2>1, <2>2
<1>3. Distinct(s) /\ ~In(y, s) => Distinct(Append(s, y))
  BY <1>1 DEF In, Distinct
<1> QED  BY <1>1, <1>2, <1>3

-----------------------------------------------------------------------------
(* The event loop                                                          *)

\* Every request has one job, or waits for the mutex, or both ended.
Jobs ==
    /\ jobs \in Seq(Procs) /\ queue \in Seq(Txs)
    /\ Distinct(jobs) /\ Distinct(queue)
    /\ \A p \in Procs : ~(In(p, jobs) /\ In(p, queue))
    /\ pc \in [Procs -> {"hop", "acquire", "woken", "begin", "first", "second",
                         "finish", "statement", "done"}]
    /\ \A p \in Procs : /\ In(p, queue) => pc[p] = "woken"
                        /\ pc[p] \in {"acquire", "woken", "begin", "first", "second", "finish"}
                              => p \in Txs
                        /\ pc[p] = "statement" => p \in Writers

\* What a job leaves in the queue: itself, or nothing, or the waiter it wakes.
LEMMA JobAwaits ==
    ASSUME Jobs, NEW p \in Procs, jobs # <<>>, Head(jobs) = p, jobs' = Append(Tail(jobs), p)
    PROVE  /\ jobs' \in Seq(Procs) /\ Distinct(jobs') /\ ~In(p, queue)
           /\ \A x : In(x, jobs') <=> In(x, jobs)
<1> DEFINE t == Tail(jobs)
<1>1. /\ t \in Seq(Procs) /\ Distinct(t) /\ In(p, jobs)
      /\ \A x : In(x, t) <=> In(x, jobs) /\ x # p
  BY HeadLeaves DEF Jobs
<1> HIDE DEF t
<1>2. /\ Append(t, p) \in Seq(Procs) /\ Distinct(Append(t, p))
      /\ \A x : In(x, Append(t, p)) <=> In(x, t) \/ x = p
  BY <1>1, LastComes
<1> QED  BY <1>1, <1>2 DEF Jobs, t

\* The job at the head ends without another.
LEMMA JobEnds ==
    ASSUME Jobs, NEW p \in Procs, jobs # <<>>, Head(jobs) = p, jobs' = Tail(jobs)
    PROVE  /\ jobs' \in Seq(Procs) /\ Distinct(jobs') /\ In(p, jobs) /\ ~In(p, queue)
           /\ \A x : In(x, jobs') <=> In(x, jobs) /\ x # p
BY HeadLeaves DEF Jobs

\* The job at the head ends, and the first waiter of the mutex becomes a job.
LEMMA JobWakes ==
    ASSUME Jobs, NEW p \in Procs, jobs # <<>>, Head(jobs) = p, Release(p)
    PROVE  /\ jobs' \in Seq(Procs) /\ Distinct(jobs') /\ queue' \in Seq(Txs) /\ Distinct(queue')
           /\ ~In(p, queue) /\ In(p, jobs) /\ ~In(p, jobs')
           /\ \A x \in Procs : In(x, queue') => In(x, queue) /\ ~In(x, jobs')
           /\ \A x \in Procs : In(x, jobs') => In(x, jobs) \/ In(x, queue)
           /\ \A x \in Procs : In(x, jobs') /\ In(x, queue) => ~In(x, queue')
<1> DEFINE t == Tail(jobs)
<1>1. /\ t \in Seq(Procs) /\ Distinct(t) /\ In(p, jobs) /\ ~In(p, queue)
      /\ \A x : In(x, t) <=> In(x, jobs) /\ x # p
  BY HeadLeaves DEF Jobs
<1>2. CASE queue = <<>>
  <2>1. queue' = <<>> /\ SubSeq(queue, 1, 0) = <<>>
    BY <1>2 DEF Release
  <2>2. jobs' = t
    BY <1>1, <1>2, <2>1 DEF Release
  <2> QED  BY <1>1, <1>2, <2>1, <2>2 DEF In, Distinct, Jobs
<1>3. CASE queue # <<>>
  <2> DEFINE q == Head(queue)
  <2>1. /\ queue' = Tail(queue) /\ q \in Txs /\ In(q, queue)
        /\ queue' \in Seq(Txs) /\ Distinct(queue')
        /\ \A x : In(x, queue') <=> In(x, queue) /\ x # q
    BY <1>3, HeadLeaves DEF Release, Jobs
  <2>2. SubSeq(queue, 1, 1) = <<q>>
    <3>1. queue \in Seq(Txs) /\ Len(queue) \in Nat /\ Len(queue) >= 1
      BY <1>3 DEF Jobs
    <3> DEFINE h == SubSeq(queue, 1, 1)
    <3>2. h \in Seq(Txs) /\ Len(h) = 1 /\ h[1] = queue[1]
      BY <3>1
    <3> HIDE DEF h
    <3>3. h = <<h[1]>>
      BY <3>2, SeqEqual
    <3> QED  BY <1>3, <3>2, <3>3 DEF h
  <2>3. jobs' = Append(t, q)
    BY <1>1, <1>3, <2>2 DEF Release
  <2>4. q \in Procs /\ ~In(q, t) /\ ~In(q, jobs)
    BY <1>1, <2>1 DEF Jobs, Procs
  <2> HIDE DEF t, q
  <2>5. /\ Append(t, q) \in Seq(Procs) /\ Distinct(Append(t, q))
        /\ \A x : In(x, Append(t, q)) <=> In(x, t) \/ x = q
    BY <1>1, <2>4, LastComes
  <2> QED  BY <1>1, <2>1, <2>3, <2>4, <2>5 DEF Jobs
<1> QED  BY <1>2, <1>3

\* Every step keeps the jobs apart.
LEMMA JobsStep == Jobs /\ [Next]_vars => Jobs'
<1> SUFFICES ASSUME Jobs, [Next]_vars PROVE Jobs'
  OBVIOUS
<1> USE SqliteAssumption DEF Running, Goto, Await, Tell
<1>1. ASSUME NEW p \in Procs, Hop(p) PROVE Jobs'
  <2>1. /\ jobs' \in Seq(Procs) /\ Distinct(jobs') /\ ~In(p, queue)
        /\ \A x : In(x, jobs') <=> In(x, jobs)
    BY <1>1, JobAwaits DEF Hop
  <2> QED  BY <1>1, <2>1 DEF Hop, Jobs, Procs
<1>2. ASSUME NEW p \in Procs, Acquire(p) PROVE Jobs'
  <2>0. p \in Txs /\ pc[p] = "acquire"
    BY <1>2 DEF Acquire, Jobs
  <2>1. CASE locked
    <3>1. /\ jobs' \in Seq(Procs) /\ Distinct(jobs') /\ ~In(p, queue)
          /\ \A x : In(x, jobs') <=> In(x, jobs) /\ x # p
      BY <1>2, <2>1, JobEnds DEF Acquire
    <3>2. /\ queue' \in Seq(Txs) /\ Distinct(queue')
          /\ \A x : In(x, queue') <=> In(x, queue) \/ x = p
      <4>1. queue' = Append(queue, p)
        BY <1>2, <2>1 DEF Acquire
      <4>2. queue \in Seq(Txs) /\ Distinct(queue)
        BY DEF Jobs
      <4> QED  BY <2>0, <3>1, <4>1, <4>2, LastComes
    <3> QED  BY <1>2, <2>0, <2>1, <3>1, <3>2 DEF Acquire, Jobs
  <2>2. CASE ~locked
    <3>1. /\ jobs' \in Seq(Procs) /\ Distinct(jobs') /\ ~In(p, queue)
          /\ \A x : In(x, jobs') <=> In(x, jobs)
      BY <1>2, <2>2, JobAwaits DEF Acquire
    <3> QED  BY <1>2, <2>0, <2>2, <3>1 DEF Acquire, Jobs
  <2> QED  BY <2>1, <2>2
<1>3. ASSUME NEW p \in Procs, Woken(p) PROVE Jobs'
  <2>1. /\ jobs' \in Seq(Procs) /\ Distinct(jobs') /\ ~In(p, queue)
        /\ \A x : In(x, jobs') <=> In(x, jobs)
    BY <1>3, JobAwaits DEF Woken
  <2> QED  BY <1>3, <2>1 DEF Woken, Jobs, Procs
<1>4. ASSUME NEW p \in Procs, Begin(p) PROVE Jobs'
  <2>0. p \in Txs /\ pc[p] = "begin"
    BY <1>4 DEF Begin, Jobs
  <2>1. CASE open
    BY <1>4, <2>0, <2>1, JobWakes DEF Begin, Release, Jobs
  <2>2. CASE ~open
    <3>1. /\ jobs' \in Seq(Procs) /\ Distinct(jobs') /\ ~In(p, queue)
          /\ \A x : In(x, jobs') <=> In(x, jobs)
      BY <1>4, <2>2, JobAwaits DEF Begin
    <3> QED  BY <1>4, <2>0, <2>2, <3>1 DEF Begin, Jobs
  <2> QED  BY <2>1, <2>2
<1>5. ASSUME NEW p \in Procs, First(p) PROVE Jobs'
  <2>1. /\ jobs' \in Seq(Procs) /\ Distinct(jobs') /\ ~In(p, queue)
        /\ \A x : In(x, jobs') <=> In(x, jobs)
    BY <1>5, JobAwaits DEF First
  <2> QED  BY <1>5, <2>1 DEF First, Jobs, Procs
<1>6. ASSUME NEW p \in Procs, Second(p) PROVE Jobs'
  <2>1. /\ jobs' \in Seq(Procs) /\ Distinct(jobs') /\ ~In(p, queue)
        /\ \A x : In(x, jobs') <=> In(x, jobs)
    BY <1>6, JobAwaits DEF Second
  <2> QED  BY <1>6, <2>1 DEF Second, Jobs, Procs
<1>7. ASSUME NEW p \in Procs, Commit(p) PROVE Jobs'
  <2>1. pc' = [pc EXCEPT ![p] = "done"] /\ pc[p] = "finish"
    BY <1>7 DEF Commit, Release
  <2>2. /\ jobs' \in Seq(Procs) /\ Distinct(jobs') /\ queue' \in Seq(Txs) /\ Distinct(queue')
        /\ ~In(p, queue) /\ \A x \in Procs : In(x, queue') => In(x, queue) /\ ~In(x, jobs')
    BY <1>7, JobWakes DEF Commit
  <2> QED  BY <2>1, <2>2 DEF Jobs
<1>8. ASSUME NEW p \in Procs, Abort(p) PROVE Jobs'
  <2>1. pc' = [pc EXCEPT ![p] = "done"] /\ pc[p] = "finish"
    BY <1>8 DEF Abort, Release
  <2>2. /\ jobs' \in Seq(Procs) /\ Distinct(jobs') /\ queue' \in Seq(Txs) /\ Distinct(queue')
        /\ ~In(p, queue) /\ \A x \in Procs : In(x, queue') => In(x, queue) /\ ~In(x, jobs')
    BY <1>8, JobWakes DEF Abort
  <2> QED  BY <2>1, <2>2 DEF Jobs
<1>9. ASSUME NEW p \in Procs, Statement(p) PROVE Jobs'
  <2>1. /\ jobs' \in Seq(Procs) /\ Distinct(jobs') /\ ~In(p, queue)
        /\ \A x : In(x, jobs') <=> In(x, jobs) /\ x # p
    BY <1>9, JobEnds DEF Statement
  <2> QED  BY <1>9, <2>1 DEF Statement, Jobs
<1>10. CASE UNCHANGED vars
  BY <1>10 DEF vars, Jobs, In, Distinct
<1> QED
  BY <1>1, <1>2, <1>3, <1>4, <1>5, <1>6, <1>7, <1>8, <1>9, <1>10 DEF Next

-----------------------------------------------------------------------------
(* The mutex                                                               *)

Inside(p) == pc[p] \in {"begin", "first", "second", "finish"}

\* Who is inside has the lock, and one waiter at most is on its way in, when nobody is.
OneTurn ==
    /\ MutualExclusion
    /\ \A p \in Txs : Inside(p) => locked
    /\ \A p, q \in Txs : p \in WokenInLine => ~Inside(q) /\ (q \in WokenInLine => q = p)

Turns == barged \in BOOLEAN /\ (barged \/ OneTurn)

\* The waiters in line are told by the places in the program and the jobs.
LEMMA InLine == WokenInLine = {p \in Txs : pc[p] = "woken" /\ In(p, jobs)}
BY DEF WokenInLine, In

LEMMA InLineNext == WokenInLine' = {p \in Txs : pc'[p] = "woken" /\ In(p, jobs')}
BY DEF WokenInLine, In

\* Nobody else is inside, so that the waiter that is woken is the only one in line.
LEMMA Released ==
    ASSUME Jobs, OneTurn, NEW p \in Procs, jobs # <<>>, Head(jobs) = p,
           Inside(p), Release(p)
    PROVE  OneTurn'
<1>1. p \in Txs /\ Txs \subseteq Procs
  BY DEF Inside, Jobs, Procs
<1>2. pc'[p] = "done" /\ \A q \in Txs \ {p} : pc'[q] = pc[q]
  BY <1>1 DEF Release, Goto, Jobs
<1>3. \A q \in Txs : ~Inside(q)'
  BY <1>1, <1>2 DEF OneTurn, MutualExclusion, Inside
<1>4. WokenInLine = {}
  BY <1>1, InLine DEF OneTurn
<1>5. \A q, r \in Txs : q \in WokenInLine' /\ r \in WokenInLine' => q = r
  <2> SUFFICES ASSUME NEW q \in Txs, NEW r \in Txs, q \in WokenInLine', r \in WokenInLine'
               PROVE  q = r
    OBVIOUS
  <2>1. pc'[q] = "woken" /\ In(q, jobs') /\ pc'[r] = "woken" /\ In(r, jobs')
    BY InLineNext
  <2>2. ~In(q, jobs) /\ ~In(r, jobs)
    BY <1>1, <1>2, <1>4, <2>1, InLine
  <2>3. PICK i \in 1..Len(jobs'), k \in 1..Len(jobs') : jobs'[i] = q /\ jobs'[k] = r
    BY <2>1 DEF In
  <2> DEFINE t == Tail(jobs)
             w == SubSeq(queue, 1, IF queue = <<>> THEN 0 ELSE 1)
  <2>4. /\ t \in Seq(Procs) /\ Len(t) \in Nat
        /\ \A x \in 1..Len(t) : In(t[x], jobs)
    BY HeadLeaves DEF Jobs, In
  <2>5. w \in Seq(Txs) /\ Len(w) \in Nat /\ Len(w) <= 1
    BY DEF Jobs
  <2>6. jobs' = t \o w
    BY DEF Release
  <2> HIDE DEF t, w
  <2>7. /\ Len(jobs') = Len(t) + Len(w)
        /\ \A x \in 1..Len(t) : jobs'[x] = t[x]
    BY <1>1, <2>4, <2>5, <2>6 DEF Procs
  <2>8. i > Len(t) /\ k > Len(t)
    BY <2>2, <2>3, <2>4, <2>7
  <2>9. i = Len(t) + 1 /\ k = Len(t) + 1
    BY <2>4, <2>5, <2>7, <2>8
  <2> QED  BY <2>3, <2>9
<1> QED  BY <1>3, <1>5 DEF OneTurn, MutualExclusion, Inside

\* Only who finds the mutex free can take it from a waiter.
LEMMA BargedStays ==
    [Next]_vars => barged' = barged \/ barged' = (barged \/ WokenInLine # {})
<1> SUFFICES ASSUME [Next]_vars PROVE barged' = barged \/ barged' = (barged \/ WokenInLine # {})
  OBVIOUS
<1>1. ASSUME NEW p \in Procs, Acquire(p)
      PROVE  barged' = barged \/ barged' = (barged \/ WokenInLine # {})
  BY <1>1 DEF Acquire
<1>2. ASSUME NEW p \in Procs, \/ Hop(p) \/ Woken(p) \/ Begin(p) \/ First(p) \/ Second(p)
                              \/ Commit(p) \/ Abort(p) \/ Statement(p)
      PROVE  barged' = barged
  BY <1>2 DEF Hop, Woken, Begin, First, Second, Commit, Abort, Statement
<1>3. CASE UNCHANGED vars
  BY <1>3 DEF vars
<1> QED  BY <1>1, <1>2, <1>3 DEF Next

\* The mutex lets one in at a time, unless a request comes before the woken waiter.
LEMMA TurnsStep == Jobs /\ Turns /\ [Next]_vars => Turns'
<1> SUFFICES ASSUME Jobs, Turns, [Next]_vars PROVE Turns'
  OBVIOUS
<1> USE SqliteAssumption DEF Running, Goto, Await, Tell
<1>0. /\ pc \in [Procs -> {"hop", "acquire", "woken", "begin", "first", "second",
                          "finish", "statement", "done"}]
      /\ Txs \subseteq Procs
  BY DEF Jobs, Procs
<1>a. barged' \in BOOLEAN /\ (barged => barged')
  BY BargedStays DEF Turns
<1>b. SUFFICES ASSUME ~barged' PROVE OneTurn'
  BY <1>a DEF Turns
<1>c. OneTurn
  BY <1>a, <1>b DEF Turns
<1>1. ASSUME NEW p \in Procs, Hop(p) PROVE OneTurn'
  <2>1. \A x : In(x, jobs') <=> In(x, jobs)
    BY <1>1, JobAwaits DEF Hop
  <2> QED  BY <1>0, <1>1, <1>c, <2>1, InLine, InLineNext
           DEF Hop, OneTurn, MutualExclusion, Inside
<1>2. ASSUME NEW p \in Procs, Acquire(p) PROVE OneTurn'
  <2>0. p \in Txs /\ pc[p] = "acquire"
    BY <1>2 DEF Acquire, Jobs
  <2>1. CASE locked
    <3>1. \A x : In(x, jobs') <=> In(x, jobs) /\ x # p
      BY <1>2, <2>1, JobEnds DEF Acquire
    <3>2. WokenInLine' = WokenInLine
      BY <1>0, <1>2, <2>0, <2>1, <3>1, InLine, InLineNext DEF Acquire
    <3> QED  BY <1>0, <1>2, <1>c, <2>1, <3>2 DEF Acquire, OneTurn, MutualExclusion, Inside
  <2>2. CASE ~locked
    <3>1. \A x : In(x, jobs') <=> In(x, jobs)
      BY <1>2, <2>2, JobAwaits DEF Acquire
    <3>2. WokenInLine = {}
      BY <1>2, <1>b, <2>2 DEF Acquire
    <3>3. pc' = [pc EXCEPT ![p] = "begin"] /\ locked'
      BY <1>2, <2>2 DEF Acquire
    <3>4. WokenInLine' = {}
      BY <1>0, <2>0, <3>1, <3>2, <3>3, InLine, InLineNext
    <3>5. \A q \in Txs : Inside(q)' => q = p
      BY <1>0, <1>c, <2>0, <2>2, <3>3 DEF OneTurn, Inside
    <3> QED  BY <3>3, <3>4, <3>5 DEF OneTurn, MutualExclusion, Inside
  <2> QED  BY <2>1, <2>2
<1>3. ASSUME NEW p \in Procs, Woken(p) PROVE OneTurn'
  <2>1. \A x : In(x, jobs') <=> In(x, jobs)
    BY <1>3, JobAwaits DEF Woken
  <2>2. p \in WokenInLine /\ p \in Txs
    BY <1>3, HeadLeaves, InLine DEF Woken, Jobs
  <2>3. pc' = [pc EXCEPT ![p] = "begin"] /\ locked'
    BY <1>3 DEF Woken
  <2>4. WokenInLine' = {}
    BY <1>0, <1>c, <2>1, <2>2, <2>3, InLine, InLineNext DEF OneTurn
  <2>5. \A q \in Txs : Inside(q)' => q = p
    BY <1>0, <1>c, <2>2, <2>3 DEF OneTurn, Inside
  <2> QED  BY <2>3, <2>4, <2>5 DEF OneTurn, MutualExclusion, Inside
<1>4. ASSUME NEW p \in Procs, Begin(p) PROVE OneTurn'
  <2>1. CASE open
    BY <1>4, <1>c, <2>1, Released DEF Begin, Inside
  <2>2. CASE ~open
    <3>1. \A x : In(x, jobs') <=> In(x, jobs)
      BY <1>4, <2>2, JobAwaits DEF Begin
    <3> QED  BY <1>0, <1>4, <1>c, <2>2, <3>1, InLine, InLineNext
             DEF Begin, OneTurn, MutualExclusion, Inside
  <2> QED  BY <2>1, <2>2
<1>5. ASSUME NEW p \in Procs, First(p) PROVE OneTurn'
  <2>1. \A x : In(x, jobs') <=> In(x, jobs)
    BY <1>5, JobAwaits DEF First
  <2> QED  BY <1>0, <1>5, <1>c, <2>1, InLine, InLineNext
           DEF First, OneTurn, MutualExclusion, Inside
<1>6. ASSUME NEW p \in Procs, Second(p) PROVE OneTurn'
  <2>1. \A x : In(x, jobs') <=> In(x, jobs)
    BY <1>6, JobAwaits DEF Second
  <2> QED  BY <1>0, <1>6, <1>c, <2>1, InLine, InLineNext
           DEF Second, OneTurn, MutualExclusion, Inside
<1>7. ASSUME NEW p \in Procs, Commit(p) PROVE OneTurn'
  BY <1>7, <1>c, Released DEF Commit, Inside
<1>8. ASSUME NEW p \in Procs, Abort(p) PROVE OneTurn'
  BY <1>8, <1>c, Released DEF Abort, Inside
<1>9. ASSUME NEW p \in Procs, Statement(p) PROVE OneTurn'
  <2>1. \A x : In(x, jobs') <=> In(x, jobs) /\ x # p
    BY <1>9, JobEnds DEF Statement
  <2> QED  BY <1>0, <1>9, <1>c, <2>1, InLine, InLineNext
           DEF Statement, OneTurn, MutualExclusion, Inside
<1>10. CASE UNCHANGED vars
  BY <1>10, <1>c DEF vars, OneTurn, MutualExclusion, Inside, WokenInLine
<1> QED
  BY <1>1, <1>2, <1>3, <1>4, <1>5, <1>6, <1>7, <1>8, <1>9, <1>10 DEF Next

-----------------------------------------------------------------------------
(* The connection                                                          *)

InTx(p) == pc[p] \in {"first", "second", "finish"}

\* What of the statements of p is in memory, to be restored, and in the file.
Unwritten(p) == StatementsOf(p) \cap (undo \cup disk) = {}
Absent(p)    == StatementsOf(p) \cap (mem \cup undo \cup disk) = {}
Stored(p)    == StatementsOf(p) \subseteq mem \cap disk /\
  (open => StatementsOf(p) \subseteq undo)

\* How far a transaction has come.
Stage(p) ==
    \/ /\ pc[p] \in {"hop", "acquire", "woken", "begin", "first"}
       /\ outcome[p] = "none" /\ Absent(p)
    \/ pc[p] = "second" /\ outcome[p] = "none" /\ <<p, 1>> \in mem /\ Unwritten(p)
    \/ pc[p] = "finish" /\ outcome[p] = "none" /\ StatementsOf(p) \subseteq mem /\ Unwritten(p)
    \/ pc[p] = "done" /\ outcome[p] = "ok" /\ Stored(p)
    \/ pc[p] = "done" /\ outcome[p] = "failed" /\ Absent(p)

\* The types of what the requests share.
Columns ==
    /\ hops \in [Procs -> 0..MaxHops]
    /\ locked \in BOOLEAN /\ inTransaction \in BOOLEAN /\ open \in BOOLEAN
    /\ mem \subseteq Written /\ undo \subseteq Written /\ disk \subseteq Written
    /\ outcome \in [Procs -> {"none", "ok", "failed"}]

\* The flag tells whether a transaction is open, which is that of a request inside.
Connection ==
    /\ inTransaction = open
    /\ open => \E p \in Txs : InTx(p)
    /\ \A p \in Txs : InTx(p) => open
    /\ \A p \in Txs : Stage(p)

\* The statements of two requests are different.
LEMMA OwnStatements ==
    /\ \A p \in Txs : <<p, 1>> \in Written /\ <<p, 2>> \in Written
                     /\ StatementsOf(p) = {<<p, 1>>, <<p, 2>>}
    /\ \A p, q \in Txs, i, j \in {1, 2} : <<p, i>> = <<q, j>> <=> p = q /\ i = j
    /\ \A w \in Writers : <<w, 1>> \in Written
    /\ \A w \in Writers, p \in Txs, i \in {1, 2} : <<w, 1>> # <<p, i>>
BY SqliteAssumption DEF Written, StatementsOf

\* A transaction is where it was when another request writes, in memory or on file too.
LEMMA OthersWrite ==
    ASSUME NEW q \in Txs, Stage(q), NEW x, x \notin StatementsOf(q), mem' = mem \cup {x},
           UNCHANGED <<undo, open>>, disk' = disk \/ (~InTx(q) /\ disk' = mem'),
           pc'[q] = pc[q], outcome'[q] = outcome[q]
    PROVE  Stage(q)'
<1>1. CASE Absent(q) /\ pc[q] \notin {"second", "finish"}
  <2>1. Absent(q)'
    BY <1>1 DEF Absent, StatementsOf
  <2> QED  BY <1>1, <2>1 DEF Stage, Stored, Absent, StatementsOf
<1>2. CASE InTx(q)
  <2>1. Unwritten(q) => Unwritten(q)'
    BY <1>2 DEF Unwritten, StatementsOf
  <2>2. Absent(q) => Absent(q)'
    BY <1>2 DEF Absent, StatementsOf
  <2> QED  BY <1>2, <2>1, <2>2 DEF Stage, InTx, StatementsOf
<1>3. CASE Stored(q) /\ outcome[q] = "ok" /\ pc[q] = "done"
  <2>1. Stored(q)'
    BY <1>3 DEF Stored, StatementsOf
  <2> QED  BY <1>3, <2>1 DEF Stage
<1> QED  BY <1>1, <1>2, <1>3 DEF Stage, InTx

\* Before BEGIN and after COMMIT a transaction may go on without touching the connection.
LEMMA StagesStay ==
    ASSUME Connection, UNCHANGED <<mem, undo, disk, open, outcome>>, NEW q \in Txs,
           pc'[q] = pc[q] \/ {pc[q], pc'[q]} \subseteq {"hop", "acquire", "woken", "begin"}
    PROVE  Stage(q)' /\ (InTx(q)' <=> InTx(q))
<1>1. /\ Absent(q)' <=> Absent(q)
      /\ Unwritten(q)' <=> Unwritten(q)
      /\ Stored(q)' <=> Stored(q)
  BY DEF Absent, Unwritten, Stored
<1>2. Stage(q)
  BY DEF Connection
<1>3. CASE pc'[q] = pc[q]
  BY <1>1, <1>2, <1>3 DEF Stage, InTx
<1>4. CASE {pc[q], pc'[q]} \subseteq {"hop", "acquire", "woken", "begin"}
  BY <1>1, <1>2, <1>4 DEF Stage, InTx
<1> QED  BY <1>3, <1>4

\* Every step keeps what the connection holds, as long as one transaction is inside.
LEMMA ConnectionStep ==
    Jobs /\ Columns /\ Connection /\ MutualExclusion /\ [Next]_vars => Connection'
<1> SUFFICES ASSUME Jobs, Columns, Connection, MutualExclusion, [Next]_vars PROVE Connection'
  OBVIOUS
<1> USE SqliteAssumption DEF Running, Goto, Await, Tell, db
<1>0. /\ pc \in [Procs -> {"hop", "acquire", "woken", "begin", "first", "second",
                          "finish", "statement", "done"}]
      /\ Txs \subseteq Procs /\ Writers \subseteq Procs
      /\ outcome \in [Procs -> {"none", "ok", "failed"}]
  BY DEF Jobs, Procs, Columns
<1>1. ASSUME NEW p \in Procs, Hop(p) PROVE Connection'
  <2>2. UNCHANGED <<mem, undo, disk, open, inTransaction, outcome>>
    BY <1>1 DEF Hop
  <2>3. \A q \in Txs :
            pc'[q] = pc[q] \/ {pc[q], pc'[q]} \subseteq {"hop", "acquire", "woken", "begin"}
    BY <1>0, <1>1 DEF Hop
  <2>4. \A q \in Txs : Stage(q)' /\ (InTx(q)' <=> InTx(q))
    BY <2>2, <2>3, StagesStay
  <2> QED  BY <2>2, <2>4 DEF Connection
<1>2. ASSUME NEW p \in Procs, Acquire(p) PROVE Connection'
  <2>2. UNCHANGED <<mem, undo, disk, open, inTransaction, outcome>>
    BY <1>2 DEF Acquire
  <2>3. \A q \in Txs :
            pc'[q] = pc[q] \/ {pc[q], pc'[q]} \subseteq {"hop", "acquire", "woken", "begin"}
    BY <1>0, <1>2 DEF Acquire
  <2>4. \A q \in Txs : Stage(q)' /\ (InTx(q)' <=> InTx(q))
    BY <2>2, <2>3, StagesStay
  <2> QED  BY <2>2, <2>4 DEF Connection
<1>3. ASSUME NEW p \in Procs, Woken(p) PROVE Connection'
  <2>2. UNCHANGED <<mem, undo, disk, open, inTransaction, outcome>>
    BY <1>3 DEF Woken
  <2>3. \A q \in Txs :
            pc'[q] = pc[q] \/ {pc[q], pc'[q]} \subseteq {"hop", "acquire", "woken", "begin"}
    BY <1>0, <1>3 DEF Woken
  <2>4. \A q \in Txs : Stage(q)' /\ (InTx(q)' <=> InTx(q))
    BY <2>2, <2>3, StagesStay
  <2> QED  BY <2>2, <2>4 DEF Connection
<1>4. ASSUME NEW p \in Procs, Begin(p) PROVE Connection'
  <2>1. p \in Txs /\ pc[p] = "begin"
    BY <1>4 DEF Begin, Jobs
  <2>2. ~open
    BY <2>1 DEF Connection, InTx, MutualExclusion
  <2>3. /\ open' /\ inTransaction' /\ undo' = mem
        /\ UNCHANGED <<mem, disk, outcome, hops, locked>>
        /\ pc'[p] = "first" /\ \A q \in Txs \ {p} : pc'[q] = pc[q]
    BY <1>0, <1>4, <2>2 DEF Begin
  <2>5. \A q \in Txs : ~InTx(q) /\ (InTx(q)' <=> q = p)
    BY <2>2, <2>3 DEF Connection, InTx
  <2>6. Stage(p)'
    BY <2>1, <2>3 DEF Connection, Stage, Absent
  <2>7. \A q \in Txs \ {p} : Stage(q)'
    BY <2>3, <2>5 DEF Connection, Stage, Absent, Stored, InTx
  <2> QED  BY <2>1, <2>3, <2>5, <2>6, <2>7 DEF Connection
<1>5. ASSUME NEW p \in Procs, First(p) PROVE Connection'
  <2>1. p \in Txs /\ pc[p] = "first"
    BY <1>5 DEF First, Jobs
  <2>2. open /\ inTransaction
    BY <2>1 DEF Connection, InTx
  <2>3. /\ mem' = mem \cup {<<p, 1>>}
        /\ UNCHANGED <<open, inTransaction, undo, disk, outcome, hops, locked>>
        /\ pc'[p] = "second" /\ \A q \in Txs \ {p} : pc'[q] = pc[q]
    BY <1>0, <1>5, <2>2 DEF First, Write
  <2>5. \A q \in Txs : InTx(q)' <=> InTx(q)
    BY <2>1, <2>3 DEF InTx
  <2>6. Stage(p)'
    <3>1. Stage(p) /\ StatementsOf(p) = {<<p, 1>>, <<p, 2>>}
      BY <2>1, OwnStatements DEF Connection
    <3>2. outcome[p] = "none" /\ Unwritten(p)
      BY <2>1, <3>1 DEF Stage, Absent, Unwritten
    <3>3. Unwritten(p)'
      BY <2>3, <3>2 DEF Unwritten, StatementsOf
    <3> QED  BY <2>3, <3>1, <3>2, <3>3 DEF Stage, StatementsOf
  <2>7. \A q \in Txs \ {p} : Stage(q)'
    <3> SUFFICES ASSUME NEW q \in Txs \ {p} PROVE Stage(q)'
      OBVIOUS
    <3>1. <<p, 1>> \notin StatementsOf(q) /\ <<p, 2>> \notin StatementsOf(q)
      <4>1. StatementsOf(q) = {<<q, 1>>, <<q, 2>>} /\ p # q
        BY OwnStatements
      <4> QED  BY <4>1
    <3>2. Stage(q) /\ outcome'[q] = outcome[q] /\ pc'[q] = pc[q]
      BY <2>3 DEF Connection
    <3> QED  BY <2>3, <3>1, <3>2, OthersWrite
  <2> QED  BY <2>3, <2>5, <2>6, <2>7 DEF Connection
<1>6. ASSUME NEW p \in Procs, Second(p) PROVE Connection'
  <2>1. p \in Txs /\ pc[p] = "second"
    BY <1>6 DEF Second, Jobs
  <2>2. open /\ inTransaction
    BY <2>1 DEF Connection, InTx
  <2>3. /\ mem' = mem \cup {<<p, 2>>}
        /\ UNCHANGED <<open, inTransaction, undo, disk, outcome, hops, locked>>
        /\ pc'[p] = "finish" /\ \A q \in Txs \ {p} : pc'[q] = pc[q]
    BY <1>0, <1>6, <2>2 DEF Second, Write
  <2>5. \A q \in Txs : InTx(q)' <=> InTx(q)
    BY <2>1, <2>3 DEF InTx
  <2>6. Stage(p)'
    <3>1. Stage(p) /\ StatementsOf(p) = {<<p, 1>>, <<p, 2>>}
      BY <2>1, OwnStatements DEF Connection
    <3>2. outcome[p] = "none" /\ Unwritten(p) /\ <<p, 1>> \in mem
      BY <2>1, <3>1 DEF Stage, Absent, Unwritten
    <3>3. Unwritten(p)'
      BY <2>3, <3>2 DEF Unwritten, StatementsOf
    <3> QED  BY <2>3, <3>1, <3>2, <3>3 DEF Stage, StatementsOf
  <2>7. \A q \in Txs \ {p} : Stage(q)'
    <3> SUFFICES ASSUME NEW q \in Txs \ {p} PROVE Stage(q)'
      OBVIOUS
    <3>1. <<p, 1>> \notin StatementsOf(q) /\ <<p, 2>> \notin StatementsOf(q)
      <4>1. StatementsOf(q) = {<<q, 1>>, <<q, 2>>} /\ p # q
        BY OwnStatements
      <4> QED  BY <4>1
    <3>2. Stage(q) /\ outcome'[q] = outcome[q] /\ pc'[q] = pc[q]
      BY <2>3 DEF Connection
    <3> QED  BY <2>3, <3>1, <3>2, OthersWrite
  <2> QED  BY <2>3, <2>5, <2>6, <2>7 DEF Connection
<1>7. ASSUME NEW p \in Procs, Commit(p) PROVE Connection'
  <2>1. p \in Txs /\ pc[p] = "finish"
    BY <1>7 DEF Commit, Jobs
  <2>2. open /\ \A q \in Txs \ {p} : ~InTx(q) /\ pc[q] # "begin"
    BY <2>1 DEF Connection, InTx, MutualExclusion
  <2>3. /\ open' = FALSE /\ inTransaction' = FALSE /\ mem' = mem /\ disk' = mem
        /\ UNCHANGED <<undo, hops>> /\ locked' = FALSE
        /\ pc'[p] = "done" /\ \A q \in Txs \ {p} : pc'[q] = pc[q]
    BY <1>0, <1>7, <2>2 DEF Commit, Release
  <2>4. outcome' = [outcome EXCEPT ![p] = "ok"]
    BY <1>7 DEF Commit
  <2>6. \A q \in Txs : ~InTx(q)'
    BY <2>2, <2>3 DEF InTx
  <2>7. Stage(p)'
    BY <1>0, <2>1, <2>3, <2>4 DEF Connection, Stage, Absent, Unwritten, Stored
  <2>8. \A q \in Txs \ {p} : Stage(q)'
    BY <1>0, <2>2, <2>3, <2>4 DEF Connection, Stage, Absent, Stored, InTx
  <2> QED  BY <2>3, <2>6, <2>7, <2>8 DEF Connection
<1>8. ASSUME NEW p \in Procs, Abort(p) PROVE Connection'
  <2>1. p \in Txs /\ pc[p] = "finish"
    BY <1>8 DEF Abort, Jobs
  <2>2. open /\ \A q \in Txs \ {p} : ~InTx(q) /\ pc[q] # "begin"
    BY <2>1 DEF Connection, InTx, MutualExclusion
  <2>3. /\ open' = FALSE /\ inTransaction' = FALSE /\ mem' = undo /\ disk' = disk
        /\ UNCHANGED <<undo, hops>> /\ locked' = FALSE
        /\ pc'[p] = "done" /\ \A q \in Txs \ {p} : pc'[q] = pc[q]
    BY <1>0, <1>8, <2>2 DEF Abort, Release
  <2>4. outcome' = [outcome EXCEPT ![p] = "failed"]
    BY <1>8 DEF Abort
  <2>6. \A q \in Txs : ~InTx(q)'
    BY <2>2, <2>3 DEF InTx
  <2>7. Stage(p)'
    BY <1>0, <2>1, <2>3, <2>4 DEF Connection, Stage, Absent, Unwritten, Stored
  <2>8. \A q \in Txs \ {p} : Stage(q)'
    BY <1>0, <2>2, <2>3, <2>4 DEF Connection, Stage, Absent, Stored, InTx
  <2> QED  BY <2>3, <2>6, <2>7, <2>8 DEF Connection
<1>9. ASSUME NEW p \in Procs, Statement(p) PROVE Connection'
  <2>1. p \in Writers /\ p \notin Txs /\ p \in Procs
    BY <1>9 DEF Statement, Jobs
  <2>2. /\ mem' = mem \cup {<<p, 1>>} /\ UNCHANGED <<open, inTransaction, undo, hops, locked>>
        /\ disk' = IF inTransaction THEN disk ELSE mem'
    BY <1>9 DEF Statement, Write, Connection
  <2>3. \A q \in Txs : pc'[q] = pc[q] /\ outcome'[q] = outcome[q]
    BY <1>0, <1>9, <2>1 DEF Statement
  <2>4. outcome' = [outcome EXCEPT ![p] = "ok"]
    BY <1>9 DEF Statement
  <2>6. \A q \in Txs : InTx(q)' <=> InTx(q)
    BY <2>3 DEF InTx
  <2>7. ASSUME NEW q \in Txs PROVE <<p, 1>> \notin StatementsOf(q)
    <3>1. StatementsOf(q) = {<<q, 1>>, <<q, 2>>}
      BY OwnStatements
    <3>2. <<p, 1>> # <<q, 1>> /\ <<p, 1>> # <<q, 2>>
      BY <2>1, OwnStatements
    <3> QED  BY <3>1, <3>2
  <2>8. \A q \in Txs : Stage(q)'
    <3> SUFFICES ASSUME NEW q \in Txs PROVE Stage(q)'
      OBVIOUS
    <3>1. Stage(q) /\ (InTx(q) => inTransaction)
      BY DEF Connection
    <3>2. disk' = disk \/ (~InTx(q) /\ disk' = mem')
      BY <2>2, <3>1
    <3> QED  BY <2>2, <2>3, <2>7, <3>1, <3>2, OthersWrite
  <2> QED  BY <2>2, <2>6, <2>8 DEF Connection
<1>10. CASE UNCHANGED vars
  BY <1>10 DEF vars, Connection, InTx, Stage, Absent, Unwritten, Stored
<1> QED
  BY <1>1, <1>2, <1>3, <1>4, <1>5, <1>6, <1>7, <1>8, <1>9, <1>10 DEF Next

-----------------------------------------------------------------------------
(* Statements outside of transactions                                      *)

\* The types stay, also where two transactions are open at once.
LEMMA ColumnsStep == Jobs /\ Columns /\ [Next]_vars => Columns'
<1> SUFFICES ASSUME Jobs, Columns, [Next]_vars PROVE Columns'
  OBVIOUS
<1> USE SqliteAssumption DEF Tell, db
<1>1. ASSUME NEW p \in Procs, Hop(p) PROVE Columns'
  BY <1>1 DEF Hop, Columns
<1>2. ASSUME NEW p \in Procs, Acquire(p) PROVE Columns'
  BY <1>2 DEF Acquire, Columns
<1>3. ASSUME NEW p \in Procs, Woken(p) PROVE Columns'
  BY <1>3 DEF Woken, Columns
<1>4. ASSUME NEW p \in Procs, Begin(p) PROVE Columns'
  BY <1>4 DEF Begin, Release, Columns
<1>5. ASSUME NEW p \in Procs, First(p) PROVE Columns'
  <2>1. <<p, 1>> \in Written
    BY <1>5, OwnStatements DEF First, Running, Jobs
  <2> QED  BY <1>5, <2>1 DEF First, Write, Columns
<1>6. ASSUME NEW p \in Procs, Second(p) PROVE Columns'
  <2>1. <<p, 2>> \in Written
    BY <1>6, OwnStatements DEF Second, Running, Jobs
  <2> QED  BY <1>6, <2>1 DEF Second, Write, Columns
<1>7. ASSUME NEW p \in Procs, Commit(p) PROVE Columns'
  BY <1>7 DEF Commit, Release, Columns
<1>8. ASSUME NEW p \in Procs, Abort(p) PROVE Columns'
  BY <1>8 DEF Abort, Release, Columns
<1>9. ASSUME NEW p \in Procs, Statement(p) PROVE Columns'
  <2>1. <<p, 1>> \in Written
    BY <1>9, OwnStatements DEF Statement, Running, Jobs
  <2> QED  BY <1>9, <2>1 DEF Statement, Write, Columns
<1>10. CASE UNCHANGED vars
  BY <1>10 DEF vars, Columns
<1> QED
  BY <1>1, <1>2, <1>3, <1>4, <1>5, <1>6, <1>7, <1>8, <1>9, <1>10 DEF Next

OneFailed == \E p \in Txs : outcome[p] = "failed"

\* The flag is down in an open transaction only after another one failed to begin.
Losses ==
    /\ open /\ ~inTransaction => OneFailed
    /\ \A p \in Txs : outcome[p] = "failed" => pc[p] = "done"
    /\ LostOnlyWithAFailedTx

\* What a statement outside wrote stays in memory as long as none failed.
LEMMA LossesKept ==
    ASSUME Losses, Columns, open' /\ ~inTransaction' => OneFailed \/ OneFailed',
           \A q \in Txs : outcome[q] = "failed" => outcome'[q] = "failed",
           \A q \in Txs : outcome'[q] = "failed" => pc'[q] = "done",
           \A w \in Writers : outcome'[w] = "ok" => outcome[w] = "ok" \/ <<w, 1>> \in mem'
                                                     \/ OneFailed \/ OneFailed',
           mem \subseteq mem' \/ OneFailed \/ OneFailed'
    PROVE  Losses'
<1>1. OneFailed => OneFailed'
  BY DEF OneFailed
<1>2. CASE OneFailed'
  BY <1>2 DEF Losses, LostOnlyWithAFailedTx, OneFailed
<1>3. CASE ~OneFailed'
  BY <1>1, <1>3 DEF Losses, LostOnlyWithAFailedTx, OneFailed
<1> QED  BY <1>2, <1>3

LEMMA LossesStep == Jobs /\ Columns /\ Losses /\ [Next]_vars => Losses'
<1> SUFFICES ASSUME Jobs, Columns, Losses, [Next]_vars PROVE Losses'
  OBVIOUS
<1> USE SqliteAssumption DEF Running, Goto, Await, Tell, db
<1>0. /\ pc \in [Procs -> {"hop", "acquire", "woken", "begin", "first", "second",
                          "finish", "statement", "done"}]
      /\ outcome \in [Procs -> {"none", "ok", "failed"}]
      /\ Txs \subseteq Procs /\ Writers \subseteq Procs
      /\ open /\ ~inTransaction => OneFailed
      /\ \A p \in Txs : outcome[p] = "failed" => pc[p] = "done"
  BY DEF Jobs, Procs, Columns, Losses
<1>1. ASSUME NEW p \in Procs, Hop(p) PROVE Losses'
  <2>1. /\ UNCHANGED <<open, inTransaction, mem, outcome>> /\ pc[p] = "hop"
        /\ \A q \in Procs \ {p} : pc'[q] = pc[q]
    BY <1>0, <1>1 DEF Hop
  <2> QED  BY <1>0, <2>1, LossesKept
<1>2. ASSUME NEW p \in Procs, Acquire(p) PROVE Losses'
  <2>1. /\ UNCHANGED <<open, inTransaction, mem, outcome>> /\ pc[p] = "acquire"
        /\ \A q \in Procs \ {p} : pc'[q] = pc[q]
    BY <1>0, <1>2 DEF Acquire
  <2> QED  BY <1>0, <2>1, LossesKept
<1>3. ASSUME NEW p \in Procs, Woken(p) PROVE Losses'
  <2>1. /\ UNCHANGED <<open, inTransaction, mem, outcome>> /\ pc[p] = "woken"
        /\ \A q \in Procs \ {p} : pc'[q] = pc[q]
    BY <1>0, <1>3 DEF Woken
  <2> QED  BY <1>0, <2>1, LossesKept
<1>4. ASSUME NEW p \in Procs, Begin(p) PROVE Losses'
  <2>0. p \in Txs /\ pc[p] = "begin" /\ mem' = mem
    BY <1>4 DEF Begin, Jobs
  <2>1. CASE open
    <3>1. /\ outcome' = [outcome EXCEPT ![p] = "failed"] /\ pc' = [pc EXCEPT ![p] = "done"]
      BY <1>4, <2>1 DEF Begin, Release
    <3>2. OneFailed'
      BY <1>0, <2>0, <3>1 DEF OneFailed
    <3> QED  BY <1>0, <2>0, <3>1, <3>2, LossesKept
  <2>2. CASE ~open
    <3>1. UNCHANGED outcome /\ inTransaction' /\ pc' = [pc EXCEPT ![p] = "first"]
      BY <1>4, <2>2 DEF Begin
    <3> QED  BY <1>0, <2>0, <3>1, LossesKept
  <2> QED  BY <2>1, <2>2
<1>5. ASSUME NEW p \in Procs, First(p) PROVE Losses'
  <2>1. /\ UNCHANGED <<inTransaction, outcome>> /\ pc[p] = "first"
        /\ \A q \in Procs \ {p} : pc'[q] = pc[q]
        /\ open' => open
        /\ mem \subseteq mem' \/ (open /\ ~inTransaction)
    BY <1>0, <1>5 DEF First, Write
  <2> QED  BY <1>0, <2>1, LossesKept
<1>6. ASSUME NEW p \in Procs, Second(p) PROVE Losses'
  <2>1. /\ UNCHANGED <<inTransaction, outcome>> /\ pc[p] = "second"
        /\ \A q \in Procs \ {p} : pc'[q] = pc[q]
        /\ open' => open
        /\ mem \subseteq mem' \/ (open /\ ~inTransaction)
    BY <1>0, <1>6 DEF Second, Write
  <2> QED  BY <1>0, <2>1, LossesKept
<1>7. ASSUME NEW p \in Procs, Commit(p) PROVE Losses'
  <2>1. /\ p \in Txs /\ pc[p] = "finish" /\ mem' = mem /\ ~open'
        /\ outcome' = [outcome EXCEPT ![p] = "ok"] /\ pc' = [pc EXCEPT ![p] = "done"]
    BY <1>7 DEF Commit, Release, Jobs
  <2> QED  BY <1>0, <2>1, LossesKept
<1>8. ASSUME NEW p \in Procs, Abort(p) PROVE Losses'
  <2>1. /\ p \in Txs /\ pc[p] = "finish" /\ ~open'
        /\ outcome' = [outcome EXCEPT ![p] = "failed"] /\ pc' = [pc EXCEPT ![p] = "done"]
    BY <1>8 DEF Abort, Release, Jobs
  <2>2. OneFailed'
    BY <1>0, <2>1 DEF OneFailed
  <2> QED  BY <1>0, <2>1, <2>2, LossesKept
<1>9. ASSUME NEW p \in Procs, Statement(p) PROVE Losses'
  <2>1. /\ p \in Writers /\ UNCHANGED inTransaction
        /\ outcome' = [outcome EXCEPT ![p] = "ok"] /\ pc' = [pc EXCEPT ![p] = "done"]
    BY <1>9 DEF Statement, Jobs
  <2>2. /\ open' => open
        /\ (mem \subseteq mem' /\ <<p, 1>> \in mem') \/ (open /\ ~inTransaction)
    BY <1>9 DEF Statement, Write
  <2>3. \A q \in Txs : outcome'[q] = outcome[q] /\ pc'[q] = pc[q]
    BY <1>0, <2>1
  <2>4. \A w \in Writers : outcome'[w] = "ok" => outcome[w] = "ok" \/ w = p
    BY <1>0, <2>1
  <2> QED  BY <1>0, <2>1, <2>2, <2>3, <2>4, LossesKept
<1>10. CASE UNCHANGED vars
  BY <1>10 DEF vars, Losses, LostOnlyWithAFailedTx, OneFailed
<1> QED
  BY <1>1, <1>2, <1>3, <1>4, <1>5, <1>6, <1>7, <1>8, <1>9, <1>10 DEF Next

-----------------------------------------------------------------------------
(* The theorems                                                            *)

\* Every request has its job in the queue at first, and nothing is written.
LEMMA InitInv == Init => Jobs /\ Turns /\ Columns /\ Connection /\ Losses
<1> SUFFICES ASSUME Init PROVE Jobs /\ Turns /\ Columns /\ Connection /\ Losses
  OBVIOUS
<1>1. Jobs
  <2> DEFINE n == Cardinality(Procs)
  <2>1. n \in Nat
    BY SqliteAssumption, FS_CardinalityType
  <2>2. jobs \in [1..n -> Procs] /\ \A i, j \in 1..n : i # j => jobs[i] # jobs[j]
    BY DEF Init, SetToSeqs
  <2> HIDE DEF n
  <2>3. jobs \in Seq(Procs) /\ Len(jobs) = n
    BY <2>1, <2>2
  <2>4. Distinct(jobs)
    BY <2>2, <2>3 DEF Distinct
  <2>5. queue = <<>> /\ queue \in Seq(Txs) /\ Distinct(queue) /\ \A x : ~In(x, queue)
    BY DEF Init, Distinct, In
  <2> QED  BY <2>3, <2>4, <2>5 DEF Init, Jobs
<1>2. \A p \in Txs : pc[p] = "hop" /\ p \in Procs
  BY DEF Init, Procs
<1>3. Turns
  BY <1>2 DEF Init, Turns, OneTurn, MutualExclusion, Inside, WokenInLine
<1>4. Columns
  BY SqliteAssumption DEF Init, Columns
<1>5. Connection
  <2>1. \A p \in Txs : Stage(p) /\ ~InTx(p)
    BY <1>2 DEF Init, Stage, Absent, InTx
  <2> QED  BY <2>1 DEF Init, Connection
<1>6. Losses
  BY DEF Init, Losses, LostOnlyWithAFailedTx, Procs
<1> QED  BY <1>1, <1>3, <1>4, <1>5, <1>6

\* What the connection holds is all or nothing of each transaction.
LEMMA ConnectionIsWhole == Connection => Atomic /\ FileNeverTorn
<1> SUFFICES ASSUME Connection PROVE Atomic /\ FileNeverTorn
  OBVIOUS
<1>1. ASSUME NEW p \in Txs
      PROVE  /\ outcome[p] = "ok" => StatementsOf(p) \subseteq mem \cap disk
             /\ outcome[p] = "failed" => StatementsOf(p) \cap (mem \cup disk) = {}
             /\ StatementsOf(p) \cap disk \in {{}, StatementsOf(p)}
  <2>1. Stage(p)
    BY DEF Connection
  <2>2. CASE Absent(p) /\ outcome[p] # "ok"
    BY <2>2 DEF Absent
  <2>3. CASE Unwritten(p) /\ outcome[p] = "none"
    BY <2>3 DEF Unwritten
  <2>4. CASE Stored(p) /\ outcome[p] = "ok"
    BY <2>4 DEF Stored
  <2> QED  BY <2>1, <2>2, <2>3, <2>4 DEF Stage
<1> QED  BY <1>1 DEF Atomic, FileNeverTorn

\* The jobs of the requests, their turns, and what they leave on the connection.
TxInv == Jobs /\ Turns /\ Columns /\ Losses /\ (barged \/ Connection)

LEMMA TxStep == TxInv /\ [Next]_vars => TxInv'
<1> SUFFICES ASSUME TxInv, [Next]_vars PROVE TxInv'
  OBVIOUS
<1>1. Jobs' /\ Turns' /\ Columns' /\ Losses'
  BY JobsStep, TurnsStep, ColumnsStep, LossesStep DEF TxInv
<1>2. barged => barged'
  BY BargedStays DEF TxInv, Turns
<1>3. ASSUME ~barged' PROVE Connection'
  <2>1. Connection /\ MutualExclusion
    BY <1>2, <1>3 DEF TxInv, Turns, OneTurn
  <2> QED  BY <2>1, ConnectionStep DEF TxInv
<1> QED  BY <1>1, <1>3 DEF TxInv, Turns

THEOREM TxCorrect == Spec => []TxInv
<1>1. Init => TxInv
  BY InitInv DEF TxInv
<1> QED  BY <1>1, TxStep, PTL DEF Spec

\* Transactions of any number of requests are never between BEGIN and COMMIT at once, until
\* one takes the mutex in between its release and the turn of the waiter woken for it.
THEOREM OneAtATime == Spec => []ExclusiveUntilBarged
<1>1. TxInv => ExclusiveUntilBarged
  BY DEF TxInv, Turns, OneTurn, ExclusiveUntilBarged
<1> QED  BY <1>1, TxCorrect, PTL

\* Until then each transaction is stored whole or not at all, in memory and on file.
THEOREM StoredWhole == Spec => []AllOrNothing
<1>1. TxInv => AllOrNothing
  <2> SUFFICES ASSUME TxInv PROVE AllOrNothing
    OBVIOUS
  <2>1. TypeOK
    BY DEF TxInv, Jobs, Turns, Columns, TypeOK
  <2> QED  BY <2>1, ConnectionIsWhole DEF TxInv, AllOrNothing
<1> QED  BY <1>1, TxCorrect, PTL

\* A statement outside of any transaction that was acknowledged is lost only if some
\* transaction failed, whether or not two of them were let in at once.
THEOREM LostOnlyByFailure == Spec => []LostOnlyWithAFailedTx
<1>1. TxInv => LostOnlyWithAFailedTx
  BY DEF TxInv, Losses
<1> QED  BY <1>1, TxCorrect, PTL

\* Exclusion is all that atomicity asks of the mutex: whenever the transactions exclude each
\* other, any number of them, each is stored whole or not at all.
THEOREM ExclusionIsEnough == Spec /\ []MutualExclusion => [](Atomic /\ FileNeverTorn)
<1>1. Jobs /\ Columns /\ Connection /\ MutualExclusion /\ [Next]_vars
        => (Jobs /\ Columns /\ Connection)'
  BY JobsStep, ColumnsStep, ConnectionStep
<1> QED  BY <1>1, InitInv, ConnectionIsWhole, PTL DEF Spec
===================================================================================
