--------------------------- MODULE FloorFetcherProofs -----------------------
(***************************************************************************)
(* The fetcher of price floors for any number of URLs, workers and         *)
(* requests and any capacities: a URL has one job at a time, in one place. *)
(***************************************************************************)
EXTENDS MCBackground, FiniteSetTheorems, TLAPS

(* Counting the elements of a sequence that lie in a set.                  *)

Hits(s, P) == {i \in DOMAIN s : s[i] \in P}

\* An element that is appended counts if it lies in the set.
LEMMA HitsAppend ==
  ASSUME NEW S, NEW s \in Seq(S), NEW e \in S, NEW P
  PROVE  /\ IsFiniteSet(Hits(s, P)) /\ Cardinality(Hits(s, P)) \in Nat
         /\ Cardinality(Hits(Append(s, e), P)) =
              Cardinality(Hits(s, P)) + (IF e \in P THEN 1 ELSE 0)
<1>1. /\ Append(s, e) \in Seq(S) /\ Len(Append(s, e)) = Len(s) + 1 /\ Len(s) \in Nat
      /\ \A i \in 1 .. Len(s) : Append(s, e)[i] = s[i]
      /\ Append(s, e)[Len(s) + 1] = e
      /\ DOMAIN s = 1 .. Len(s) /\ DOMAIN Append(s, e) = 1 .. Len(s) + 1
  OBVIOUS
<1>2. IsFiniteSet(Hits(s, P)) /\ Cardinality(Hits(s, P)) \in Nat
  <2>1. IsFiniteSet(1 .. Len(s)) /\ Hits(s, P) \subseteq 1 .. Len(s)
    BY <1>1, FS_Interval DEF Hits
  <2> QED
    BY <2>1, FS_Subset, FS_CardinalityType
<1>3. Len(s) + 1 \notin Hits(s, P)
  BY <1>1 DEF Hits
<1>4. CASE e \in P
  <2>1. Hits(Append(s, e), P) = Hits(s, P) \cup {Len(s) + 1}
    BY <1>1, <1>4 DEF Hits
  <2> QED
    BY Zenon, <1>2, <1>3, <1>4, <2>1, FS_AddElement
<1>5. CASE e \notin P
  <2>1. Hits(Append(s, e), P) = Hits(s, P)
    BY <1>1, <1>5 DEF Hits
  <2> QED
    BY <1>2, <1>5, <2>1
<1> QED
  BY Zenon, <1>2, <1>4, <1>5

\* The head that is taken counts if it lies in the set.
LEMMA HitsTail ==
  ASSUME NEW S, NEW s \in Seq(S), s # << >>, NEW P
  PROVE  /\ Cardinality(Hits(Tail(s), P)) \in Nat
         /\ Cardinality(Hits(s, P)) =
              Cardinality(Hits(Tail(s), P)) + (IF Head(s) \in P THEN 1 ELSE 0)
<1>1. /\ Tail(s) \in Seq(S) /\ Len(Tail(s)) = Len(s) - 1 /\ Len(s) \in Nat \ {0}
      /\ Head(s) = s[1]
      /\ \A i \in 1 .. Len(s) - 1 : Tail(s)[i] = s[i + 1]
      /\ DOMAIN s = 1 .. Len(s) /\ DOMAIN Tail(s) = 1 .. Len(s) - 1
  OBVIOUS
<1> DEFINE T == Hits(Tail(s), P)
           A == Hits(s, P)
           f == [i \in T |-> i + 1]
<1>2. IsFiniteSet(T) /\ Cardinality(T) \in Nat
  <2>1. IsFiniteSet(1 .. Len(s) - 1) /\ T \subseteq 1 .. Len(s) - 1
    BY <1>1, FS_Interval DEF Hits
  <2> QED
    BY <2>1, FS_Subset, FS_CardinalityType
<1>3. IsFiniteSet(A) /\ Cardinality(A) \in Nat
  <2>1. IsFiniteSet(1 .. Len(s)) /\ A \subseteq 1 .. Len(s)
    BY <1>1, FS_Interval DEF Hits
  <2> QED
    BY <2>1, FS_Subset, FS_CardinalityType
<1>4. f \in Bijection(T, A \ {1})
  <2>1. T \subseteq Nat /\ f \in [T -> A \ {1}]
    BY <1>1 DEF Hits
  <2>2. \A i, j \in T : f[i] = f[j] => i = j
    BY <2>1
  <2>3. \A k \in A \ {1} : \E i \in T : f[i] = k
    <3> SUFFICES ASSUME NEW k \in A \ {1} PROVE k - 1 \in T /\ f[k - 1] = k
      BY Zenon
    <3>1. k \in 2 .. Len(s) /\ s[k] \in P
      BY <1>1 DEF Hits
    <3>2. k - 1 \in 1 .. Len(s) - 1 /\ Tail(s)[k - 1] = s[k]
      BY <1>1, <3>1
    <3>3. k - 1 \in T
      BY <1>1, <3>1, <3>2 DEF Hits
    <3> QED
      BY <3>1, <3>3
  <2> HIDE DEF T, A, f
  <2> QED
    BY <2>1, <2>2, <2>3 DEF Bijection, Injection, IsInjective, Surjection
<1>5. Cardinality(A \ {1}) = Cardinality(T)
  BY <1>2, <1>4, FS_Bijection DEF ExistsBijection
<1>6. Cardinality(A \ {1}) = IF 1 \in A THEN Cardinality(A) - 1 ELSE Cardinality(A)
  BY Zenon, <1>3, FS_RemoveElement
<1>7. 1 \in A <=> Head(s) \in P
  BY <1>1 DEF Hits
<1> QED
  BY <1>2, <1>3, <1>5, <1>6, <1>7
-----------------------------------------------------------------------------
(* The fetcher of price floors.                                            *)

Messages == [job : AllJobs, refetch : BOOLEAN]
SentBackOf(u) == {m \in Messages : m.refetch /\ m.job.url = u}
JobsOf(u) == {job \in AllJobs : job.url = u}
WorkersOf(u) == {w \in PoolWorkers : worker[w].job.url = u}

\* The four places of the jobs of a URL.
SentBack(u) == Cardinality(Hits(channel, SentBackOf(u)))
Waiting(u) == Cardinality(Copies(u))
Pooled(u) == Cardinality(Hits(pool, JobsOf(u)))
AtWork(u) == Cardinality(WorkersOf(u))

\* Only configured URLs reach the workers: the zero value of a closed channel may
\* enter the queue, and the pool is stopped before the channel is closed.
OnlyURLs ==
  /\ \A i \in DOMAIN channel : channel[i].job.url \in URLs
  /\ \A i \in DOMAIN pool : pool[i].url \in URLs
  /\ \A w \in PoolWorkers : IF worker[w].pc = "idle" THEN worker[w] = IdleWorker
                                                     ELSE worker[w].job.url \in URLs
  /\ \A job \in InQueue : job.url = NoURL => stop = 3
  /\ \A u \in URLs : IsFiniteSet(Copies(u))

\* The number of jobs of a URL, also of those of a closed fetcher.
Counted ==
  /\ gaveUp \subseteq inProgress
  /\ \A u \in URLs : /\ Jobs(u) <= 1
                     /\ Jobs(u) = 1 => u \in inProgress \ gaveUp
                     /\ stop < 3 /\ u \in inProgress \ gaveUp => Jobs(u) = 1

FetchInv == FetcherTypeOK /\ OnlyURLs /\ Counted

\* The jobs of a URL are those in its four places.
LEMMA JobsSum ==
  ASSUME FetcherTypeOK, OnlyURLs, NEW u \in URLs
  PROVE  /\ SentBack(u) \in Nat /\ Waiting(u) \in Nat /\ Pooled(u) \in Nat /\ AtWork(u) \in Nat
         /\ Jobs(u) = SentBack(u) + Waiting(u) + Pooled(u) + AtWork(u)
<1>1. channel \in Seq(Messages) /\ pool \in Seq(AllJobs)
  BY DEF FetcherTypeOK, Messages
<1>2. /\ \A i \in DOMAIN channel : channel[i] \in Messages
      /\ \A i \in DOMAIN pool : pool[i] \in AllJobs
  BY <1>1
<1>3. {i \in DOMAIN channel : channel[i].refetch /\ channel[i].job.url = u}
        = Hits(channel, SentBackOf(u))
  BY <1>2 DEF Hits, SentBackOf
<1>4. {i \in DOMAIN pool : pool[i].url = u} = Hits(pool, JobsOf(u))
  BY <1>2 DEF Hits, JobsOf
<1>5. /\ IsFiniteSet(Hits(channel, SentBackOf(u))) /\ IsFiniteSet(Hits(pool, JobsOf(u)))
  <2>1. IsFiniteSet(DOMAIN channel) /\ IsFiniteSet(DOMAIN pool)
    BY <1>1, FS_Interval
  <2> QED
    BY <2>1, FS_Subset DEF Hits
<1>6. IsFiniteSet(WorkersOf(u))
  BY FetcherAssumption, FS_Subset DEF WorkersOf
<1>7. /\ SentBack(u) \in Nat /\ Waiting(u) \in Nat /\ Pooled(u) \in Nat /\ AtWork(u) \in Nat
  BY <1>5, <1>6, FS_CardinalityType DEF OnlyURLs, SentBack, Waiting, Pooled, AtWork
<1> QED
  BY Zenon, <1>3, <1>4, <1>7 DEF Jobs, SentBack, Waiting, Pooled, AtWork, WorkersOf

Summed ==
  FetcherTypeOK /\ OnlyURLs =>
    \A u \in URLs :
      /\ SentBack(u) \in Nat /\ Waiting(u) \in Nat /\ Pooled(u) \in Nat /\ AtWork(u) \in Nat
      /\ Jobs(u) = SentBack(u) + Waiting(u) + Pooled(u) + AtWork(u)

\* That holds before and after a step.
LEMMA SummedNext == Summed /\ Summed'
<1>1. Summed
  BY JobsSum DEF Summed
<1> QED
  BY <1>1, PTL

\* A step that moves a job from one place to another keeps the count.
LEMMA CountedIf ==
  ASSUME FetcherTypeOK, OnlyURLs, FetcherTypeOK', OnlyURLs', Counted,
         UNCHANGED <<inProgress, gaveUp>>, stop' < 3 => stop < 3,
         \A u \in URLs :
           SentBack(u)' + Waiting(u)' + Pooled(u)' + AtWork(u)'
             = SentBack(u) + Waiting(u) + Pooled(u) + AtWork(u)
  PROVE  Counted'
<1>1. \A u \in URLs : Jobs(u)' = Jobs(u)
  <2> TAKE u \in URLs
  <2>1. Jobs(u) = SentBack(u) + Waiting(u) + Pooled(u) + AtWork(u)
    BY JobsSum
  <2>2. Jobs(u)' = SentBack(u)' + Waiting(u)' + Pooled(u)' + AtWork(u)'
    BY SummedNext DEF Summed
  <2> QED
    BY <2>1, <2>2
<1> QED
  BY <1>1 DEF Counted

One(b) == IF b THEN 1 ELSE 0

\* The copies of jobs of a URL in a queue.
CopiesOf(q, u) ==
  UNION {{<<job, k>> : k \in 1 .. q[job]} : job \in {j \in AllJobs : j.url = u}}

\* What the copies of the jobs of a URL in the queue q are.
LEMMA CopiesElement ==
  ASSUME NEW q, NEW u, NEW c
  PROVE  c \in CopiesOf(q, u) <=> \E job \in AllJobs :
           job.url = u /\ \E k \in 1 .. q[job] : c = <<job, k>>
BY DEF CopiesOf

\* They depend on the jobs of that URL only.
LEMMA CopiesSame ==
  ASSUME NEW q, NEW r, NEW u, \A j \in AllJobs : j.url = u => q[j] = r[j]
  PROVE  CopiesOf(q, u) = CopiesOf(r, u)
<1>1. \A j \in {i \in AllJobs : i.url = u} :
        {<<j, k>> : k \in 1 .. q[j]} = {<<j, k>> : k \in 1 .. r[j]}
  OBVIOUS
<1> QED
  BY <1>1 DEF CopiesOf

\* A job put into the queue is one copy more, and a job taken from it one less.
LEMMA OneCopyMore ==
  ASSUME NEW q \in [AllJobs -> Nat], NEW r \in [AllJobs -> Nat], NEW job \in AllJobs,
         r[job] = q[job] + 1, \A j \in AllJobs : j # job => r[j] = q[j], NEW u
  PROVE  /\ job.url = u => /\ CopiesOf(r, u) = CopiesOf(q, u) \cup {<<job, r[job]>>}
                           /\ <<job, r[job]>> \notin CopiesOf(q, u)
         /\ job.url # u => CopiesOf(r, u) = CopiesOf(q, u)
<1>1. CASE job.url = u
  <2>1. ASSUME NEW c \in CopiesOf(r, u) PROVE c \in CopiesOf(q, u) \cup {<<job, r[job]>>}
    <3>1. PICK j \in AllJobs : j.url = u /\ \E k \in 1 .. r[j] : c = <<j, k>>
      BY <2>1, CopiesElement
    <3>2. PICK k \in 1 .. r[j] : c = <<j, k>>
      BY <3>1
    <3>3. CASE j = job /\ k = r[job]
      BY <3>2, <3>3
    <3>4. CASE ~(j = job /\ k = r[job])
      <4>1. k \in 1 .. q[j]
        BY <3>2, <3>4
      <4> QED
        BY <3>1, <3>2, <4>1, CopiesElement
    <3> QED
      BY <3>3, <3>4
  <2>2. ASSUME NEW c \in CopiesOf(q, u) PROVE c \in CopiesOf(r, u)
    <3>1. PICK j \in AllJobs : j.url = u /\ \E k \in 1 .. q[j] : c = <<j, k>>
      BY <2>2, CopiesElement
    <3>2. 1 .. q[j] \subseteq 1 .. r[j]
      OBVIOUS
    <3> QED
      BY <3>1, <3>2, CopiesElement
  <2>3. r[job] \in 1 .. r[job] /\ r[job] \notin 1 .. q[job]
    OBVIOUS
  <2>4. <<job, r[job]>> \in CopiesOf(r, u)
    BY <1>1, <2>3, CopiesElement
  <2>5. <<job, r[job]>> \notin CopiesOf(q, u)
    <3> SUFFICES ASSUME <<job, r[job]>> \in CopiesOf(q, u) PROVE FALSE
      OBVIOUS
    <3>1. PICK j \in AllJobs : \E k \in 1 .. q[j] : <<job, r[job]>> = <<j, k>>
      BY CopiesElement
    <3> QED
      BY <2>3, <3>1
  <2> QED
    BY <1>1, <2>1, <2>2, <2>4, <2>5
<1>2. CASE job.url # u
  BY <1>2, CopiesSame
<1> QED
  BY <1>1, <1>2

OneMore(q, r, job) ==
  /\ q \in [AllJobs -> Nat] /\ r \in [AllJobs -> Nat] /\ job \in AllJobs
  /\ r[job] = q[job] + 1 /\ \A j \in AllJobs : j # job => r[j] = q[j]

\* One more job in the queue is one more copy.
LEMMA CopiesCount ==
  ASSUME NEW q, NEW r, NEW job, OneMore(q, r, job)
  PROVE  \A u : IsFiniteSet(CopiesOf(q, u)) \/ IsFiniteSet(CopiesOf(r, u)) =>
           /\ IsFiniteSet(CopiesOf(q, u)) /\ IsFiniteSet(CopiesOf(r, u))
           /\ Cardinality(CopiesOf(q, u)) \in Nat
           /\ Cardinality(CopiesOf(r, u)) = Cardinality(CopiesOf(q, u)) + One(job.url = u)
<1> SUFFICES ASSUME NEW u, IsFiniteSet(CopiesOf(q, u)) \/ IsFiniteSet(CopiesOf(r, u))
             PROVE  /\ IsFiniteSet(CopiesOf(q, u)) /\ IsFiniteSet(CopiesOf(r, u))
                    /\ Cardinality(CopiesOf(q, u)) \in Nat
                    /\ Cardinality(CopiesOf(r, u)) = Cardinality(CopiesOf(q, u)) + One(job.url = u)
  OBVIOUS
<1>1. /\ job.url = u => /\ CopiesOf(r, u) = CopiesOf(q, u) \cup {<<job, r[job]>>}
                        /\ <<job, r[job]>> \notin CopiesOf(q, u)
      /\ job.url # u => CopiesOf(r, u) = CopiesOf(q, u)
  BY OneCopyMore DEF OneMore
<1>2. CopiesOf(q, u) \subseteq CopiesOf(r, u)
  BY <1>1
<1>3. IsFiniteSet(CopiesOf(q, u)) /\ Cardinality(CopiesOf(q, u)) \in Nat
  BY <1>2, FS_Subset, FS_CardinalityType
<1>4. CASE job.url = u
  <2>1. /\ IsFiniteSet(CopiesOf(r, u))
        /\ Cardinality(CopiesOf(r, u)) = Cardinality(CopiesOf(q, u)) + 1
    BY <1>1, <1>3, <1>4, FS_AddElement
  <2> QED
    BY <1>3, <1>4, <2>1 DEF One
<1>5. CASE job.url # u
  BY <1>1, <1>3, <1>5 DEF One
<1> QED
  BY <1>4, <1>5

WorkerStates == [pc : {"idle", "fetch", "send"}, job : AllJobs]

\* The types of the variables.
LEMMA FetchFacts ==
  ASSUME FetcherTypeOK
  PROVE  /\ channel \in Seq(Messages) /\ pool \in Seq(AllJobs)
         /\ worker \in [PoolWorkers -> WorkerStates]
         /\ capacity \in Nat \ {0} /\ Len(channel) \in Nat /\ Len(pool) \in Nat
         /\ stop \in 0 .. 3 /\ queue \in [AllJobs -> Nat]
BY FetcherAssumption DEF FetcherTypeOK, Messages, WorkerStates

\* Which messages and jobs belong to a URL.
LEMMA SentBackIff ==
  ASSUME NEW job \in AllJobs, NEW b \in BOOLEAN, NEW u
  PROVE  /\ Sent(job, b) \in Messages
         /\ Sent(job, b) \in SentBackOf(u) <=> b /\ job.url = u
         /\ job \in JobsOf(u) <=> job.url = u
BY DEF Sent, SentBackOf, Messages, JobsOf

\* What a worker starts or ends changes the number of jobs at work.
LEMMA WorkerChanges ==
  ASSUME FetcherTypeOK, NEW w \in PoolWorkers, NEW b \in WorkerStates,
         worker' = [worker EXCEPT ![w] = b], NEW u \in URLs
  PROVE  /\ AtWork(u) \in Nat /\ AtWork(u)' \in Nat
         /\ AtWork(u)' + One(worker[w].job.url = u) = AtWork(u) + One(b.job.url = u)
<1>1. worker \in [PoolWorkers -> WorkerStates]
  BY FetchFacts
<1>2. /\ IsFiniteSet(WorkersOf(u)) /\ IsFiniteSet(WorkersOf(u)')
      /\ AtWork(u) \in Nat /\ AtWork(u)' \in Nat
  <2>1. WorkersOf(u) \subseteq PoolWorkers /\ WorkersOf(u)' \subseteq PoolWorkers
    BY DEF WorkersOf
  <2> QED
    BY <2>1, FetcherAssumption, FS_Subset, FS_CardinalityType DEF AtWork
<1> DEFINE R == WorkersOf(u) \ {w}
<1>3. /\ IsFiniteSet(R) /\ Cardinality(R) \in Nat
      /\ AtWork(u) = Cardinality(R) + One(worker[w].job.url = u)
  <2>1. w \in WorkersOf(u) <=> worker[w].job.url = u
    BY DEF WorkersOf
  <2>2. /\ IsFiniteSet(R)
        /\ Cardinality(R) = IF w \in WorkersOf(u) THEN AtWork(u) - 1 ELSE AtWork(u)
    BY <1>2, FS_RemoveElement DEF AtWork
  <2>3. Cardinality(R) \in Nat
    BY <2>2, FS_CardinalityType
  <2> QED
    BY <1>2, <2>1, <2>2, <2>3 DEF One
<1>4. WorkersOf(u)' = IF b.job.url = u THEN R \cup {w} ELSE R
  <2>1. \A v \in PoolWorkers : worker'[v] = IF v = w THEN b ELSE worker[v]
    BY <1>1
  <2> QED
    BY <2>1 DEF WorkersOf
<1>5. AtWork(u)' = Cardinality(R) + One(b.job.url = u)
  <2>1. Cardinality(R \cup {w}) = Cardinality(R) + 1
    BY Zenon, <1>3, FS_AddElement
  <2> QED
    BY <1>3, <1>4, <2>1 DEF AtWork, One
<1> HIDE DEF R
<1>6. One(worker[w].job.url = u) \in Nat /\ One(b.job.url = u) \in Nat
  BY DEF One
<1> QED
  BY <1>2, <1>3, <1>5, <1>6

\* A count of one or none is a number.
LEMMA OneNat == \A b \in BOOLEAN : One(b) \in Nat
BY DEF One

\* The states a worker goes to.
LEMMA NewStates ==
  ASSUME NEW job \in AllJobs
  PROVE  /\ Busy("fetch", job) \in WorkerStates /\ Busy("send", job) \in WorkerStates
         /\ Busy("fetch", job).job = job /\ Busy("send", job).job = job
         /\ Busy("fetch", job).pc = "fetch" /\ Busy("send", job).pc = "send"
         /\ IdleWorker \in WorkerStates /\ IdleWorker.pc = "idle" /\ IdleWorker.job.url = NoURL
BY FetcherAssumption DEF Busy, WorkerStates, IdleWorker, NoJob, Job, AllJobs

\* The pool takes a job: a worker starts with it, or it waits in the pool.
LEMMA AcceptChanges ==
  ASSUME FetcherTypeOK, OnlyURLs, NEW job \in AllJobs, job.url \in URLs, Accepts, Accept(job),
         UNCHANGED capacity
  PROVE  /\ pool' \in Seq(AllJobs) /\ Len(pool') <= capacity
         /\ worker' \in [PoolWorkers -> WorkerStates]
         /\ \A i \in DOMAIN pool' : pool'[i].url \in URLs
         /\ \A w \in PoolWorkers : IF worker'[w].pc = "idle" THEN worker'[w] = IdleWorker
                                                             ELSE worker'[w].job.url \in URLs
         /\ \A u \in URLs : Pooled(u)' + AtWork(u)' = Pooled(u) + AtWork(u) + One(job.url = u)
<1>0. /\ \A u \in URLs : Pooled(u) \in Nat /\ AtWork(u) \in Nat /\ One(job.url = u) \in Nat
      /\ pool \in Seq(AllJobs) /\ worker \in [PoolWorkers -> WorkerStates] /\ Len(pool) <= capacity
      /\ capacity \in Nat /\ Len(pool) \in Nat
      /\ \A i \in DOMAIN pool : pool[i].url \in URLs
      /\ \A w \in PoolWorkers : IF worker[w].pc = "idle" THEN worker[w] = IdleWorker
                                                         ELSE worker[w].job.url \in URLs
  BY Zenon, JobsSum, FetchFacts DEF OnlyURLs, FetcherTypeOK, One
<1>1. CASE Handed
  <2> DEFINE v == CHOOSE w \in IdleWorkers : TRUE
  <2>1. v \in PoolWorkers /\ worker[v] = IdleWorker
    BY <1>1 DEF Handed, IdleWorkers
  <2>2. worker' = [worker EXCEPT ![v] = Busy("fetch", job)] /\ pool' = pool
    BY <1>1 DEF Accept
  <2> HIDE DEF v
  <2>3. \A u \in URLs : Pooled(u)' = Pooled(u)
    BY <2>2 DEF Pooled
  <2>4. ASSUME NEW u \in URLs PROVE AtWork(u)' = AtWork(u) + One(job.url = u)
    <3> DEFINE b == Busy("fetch", job)
    <3>b. b \in WorkerStates /\ b.job = job
      BY NewStates
    <3> HIDE DEF b
    <3>a. /\ AtWork(u) \in Nat /\ AtWork(u)' \in Nat
          /\ AtWork(u)' + One(worker[v].job.url = u) = AtWork(u) + One(b.job.url = u)
      BY Zenon, <2>1, <2>2, <3>b, WorkerChanges DEF b
    <3>1. /\ AtWork(u) \in Nat /\ AtWork(u)' \in Nat
          /\ AtWork(u)' + One(worker[v].job.url = u) = AtWork(u) + One(job.url = u)
      BY Zenon, <3>a, <3>b
    <3>2. worker[v].job.url # u
      BY <2>1, NewStates, FetcherAssumption
    <3>3. One(worker[v].job.url = u) = 0
      BY <3>2 DEF One
    <3> QED
      BY <1>0, <3>1, <3>3
  <2>5. /\ \A w \in PoolWorkers : worker'[w] = IF w = v THEN Busy("fetch", job) ELSE worker[w]
        /\ worker' \in [PoolWorkers -> WorkerStates]
    BY Zenon, <1>0, <2>1, <2>2, NewStates
  <2>6. \A w \in PoolWorkers : IF worker'[w].pc = "idle" THEN worker'[w] = IdleWorker
                                                         ELSE worker'[w].job.url \in URLs
    BY <1>0, <2>5, NewStates
  <2>7. \A u \in URLs : Pooled(u)' + AtWork(u)' = Pooled(u) + AtWork(u) + One(job.url = u)
    BY <1>0, <2>3, <2>4
  <2> QED
    BY Zenon, <1>0, <2>2, <2>5, <2>6, <2>7
<1>2. CASE ~Handed
  <2>1. worker' = worker /\ pool' = Append(pool, job) /\ Len(pool) < capacity
    BY <1>2 DEF Accept, Accepts, PoolCapacity
  <2>2. \A u \in URLs : AtWork(u)' = AtWork(u)
    BY <2>1 DEF AtWork, WorkersOf
  <2>3. ASSUME NEW u \in URLs PROVE Pooled(u)' = Pooled(u) + One(job.url = u)
    <3>1. Pooled(u)' = Pooled(u) + (IF job \in JobsOf(u) THEN 1 ELSE 0)
      BY <1>0, <2>1, HitsAppend DEF Pooled
    <3>2. job \in JobsOf(u) <=> job.url = u
      BY DEF JobsOf
    <3> QED
      BY <3>1, <3>2 DEF One
  <2>4. /\ pool' \in Seq(AllJobs) /\ Len(pool') <= capacity
        /\ \A i \in DOMAIN pool' : pool'[i].url \in URLs
    BY <1>0, <2>1
  <2>5. \A u \in URLs : Pooled(u)' + AtWork(u)' = Pooled(u) + AtWork(u) + One(job.url = u)
    BY <1>0, <2>2, <2>3
  <2> QED
    BY Zenon, <1>0, <2>1, <2>4, <2>5
<1> QED
  BY Zenon, <1>1, <1>2

\* A place that a step leaves alone keeps its count.
LEMMA SamePlaces ==
  /\ UNCHANGED channel => \A u : SentBack(u)' = SentBack(u)
  /\ UNCHANGED queue => /\ InQueue' = InQueue
                        /\ \A u : Waiting(u)' = Waiting(u) /\ Copies(u)' = Copies(u)
  /\ UNCHANGED pool => \A u : Pooled(u)' = Pooled(u)
  /\ UNCHANGED worker => \A u : AtWork(u)' = AtWork(u)
BY ZenonT(30) DEF SentBack, InQueue, Waiting, Copies, Pooled, AtWork, WorkersOf

\* A message sent over the channel counts as a job if it is one sent back.
LEMMA ChannelAppend ==
  ASSUME FetcherTypeOK, NEW job \in AllJobs, job.url \in URLs, NEW b \in BOOLEAN,
         \A i \in DOMAIN channel : channel[i].job.url \in URLs,
         Len(channel) < capacity, channel' = Append(channel, Sent(job, b))
  PROVE  /\ channel' \in Seq(Messages) /\ Len(channel') <= capacity
         /\ \A i \in DOMAIN channel' : channel'[i].job.url \in URLs
         /\ \A u \in URLs : SentBack(u)' = SentBack(u) + One(b /\ job.url = u)
<1>1. channel \in Seq(Messages) /\ Sent(job, b) \in Messages /\ Sent(job, b).job = job
  BY Zenon, FetchFacts, SentBackIff DEF Sent
<1>2. Len(channel) \in Nat /\ capacity \in Nat
  BY FetchFacts
<1>3. /\ channel' \in Seq(Messages) /\ Len(channel') <= capacity
      /\ \A i \in DOMAIN channel' : channel'[i].job.url \in URLs
  BY <1>1, <1>2
<1>4. ASSUME NEW u \in URLs PROVE SentBack(u)' = SentBack(u) + One(b /\ job.url = u)
  <2>1. SentBack(u)' = SentBack(u) + (IF Sent(job, b) \in SentBackOf(u) THEN 1 ELSE 0)
    BY <1>1, HitsAppend DEF SentBack
  <2>2. Sent(job, b) \in SentBackOf(u) <=> b /\ job.url = u
    BY SentBackIff
  <2> QED
    BY <2>1, <2>2 DEF One
<1> QED
  BY Zenon, <1>3, <1>4

\* A job put into the queue.
LEMMA QueueAdd ==
  ASSUME FetcherTypeOK, OnlyURLs, NEW job \in AllJobs, queue' = [queue EXCEPT ![job] = @ + 1],
         UNCHANGED stop, job.url = NoURL => stop = 3
  PROVE  /\ queue' \in [AllJobs -> Nat]
         /\ \A j \in InQueue' : j.url = NoURL => stop = 3
         /\ \A u \in URLs : IsFiniteSet(Copies(u)') /\ Waiting(u)' = Waiting(u) + One(job.url = u)
<1>1. queue \in [AllJobs -> Nat]
  BY FetchFacts
<1>2. /\ queue' \in [AllJobs -> Nat] /\ queue'[job] = queue[job] + 1
      /\ \A j \in AllJobs : j # job => queue'[j] = queue[j]
  BY <1>1
<1>3. \A u \in URLs : IsFiniteSet(Copies(u)') /\ Waiting(u)' = Waiting(u) + One(job.url = u)
  <2>1. \A u : Copies(u) = CopiesOf(queue, u) /\ Copies(u)' = CopiesOf(queue', u)
    BY DEF Copies, CopiesOf
  <2>2. \A u : IsFiniteSet(CopiesOf(queue, u)) =>
          /\ IsFiniteSet(CopiesOf(queue', u))
          /\ Cardinality(CopiesOf(queue', u)) = Cardinality(CopiesOf(queue, u)) + One(job.url = u)
    <3>1. OneMore(queue, queue', job)
      BY <1>1, <1>2 DEF OneMore
    <3> QED
      BY <3>1, CopiesCount
  <2> QED
    BY Zenon, <2>1, <2>2 DEF OnlyURLs, Waiting
<1>4. \A j \in InQueue' : j.url = NoURL => stop = 3
  BY <1>2 DEF OnlyURLs, InQueue
<1> QED
  BY <1>2, <1>3, <1>4

\* A job taken from the queue.
LEMMA QueueRemove ==
  ASSUME FetcherTypeOK, OnlyURLs, NEW job \in InQueue,
         queue' = [queue EXCEPT ![job] = @ - 1], UNCHANGED stop
  PROVE  /\ queue' \in [AllJobs -> Nat] /\ InQueue' \subseteq InQueue
         /\ \A u \in URLs : /\ IsFiniteSet(Copies(u)') /\ Waiting(u)' \in Nat
                            /\ Waiting(u) = Waiting(u)' + One(job.url = u)
<1>1. queue \in [AllJobs -> Nat] /\ job \in AllJobs /\ queue[job] > 0
  BY FetchFacts DEF InQueue
<1>2. /\ queue' \in [AllJobs -> Nat] /\ queue[job] = queue'[job] + 1
      /\ \A j \in AllJobs : j # job => queue[j] = queue'[j]
  BY <1>1
<1>3. \A u \in URLs : /\ IsFiniteSet(Copies(u)') /\ Waiting(u)' \in Nat
                      /\ Waiting(u) = Waiting(u)' + One(job.url = u)
  <2>1. \A u : Copies(u) = CopiesOf(queue, u) /\ Copies(u)' = CopiesOf(queue', u)
    BY DEF Copies, CopiesOf
  <2>2. \A u : IsFiniteSet(CopiesOf(queue, u)) =>
          /\ IsFiniteSet(CopiesOf(queue', u)) /\ Cardinality(CopiesOf(queue', u)) \in Nat
          /\ Cardinality(CopiesOf(queue, u)) = Cardinality(CopiesOf(queue', u)) + One(job.url = u)
    <3>1. OneMore(queue', queue, job)
      BY <1>1, <1>2 DEF OneMore
    <3> QED
      BY <3>1, CopiesCount
  <2> QED
    BY Zenon, <2>1, <2>2 DEF OnlyURLs, Waiting
<1>4. InQueue' \subseteq InQueue
  BY <1>1, <1>2 DEF InQueue
<1> QED
  BY <1>2, <1>3, <1>4

\* The fetcher starts with nothing to do (NewPriceFloorFetcher).
LEMMA InitFetch == FetcherInit => FetchInv
<1> SUFFICES ASSUME FetcherInit PROVE FetchInv
  OBVIOUS
<1>1. queue = [job \in AllJobs |-> 0] /\ queue \in [AllJobs -> Nat] /\ InQueue = {}
  BY DEF FetcherInit, InQueue
<1>2. IdleWorker \in WorkerStates /\ IdleWorker.pc = "idle" /\ IdleWorker.job.url = NoURL
  BY FetcherAssumption DEF WorkerStates, IdleWorker, Busy, NoJob, Job, AllJobs
<1>3. worker \in [PoolWorkers -> WorkerStates]
  BY <1>2 DEF FetcherInit
<1>4. FetcherTypeOK
  BY <1>1, <1>3, FetcherAssumption DEF FetcherInit, FetcherTypeOK, WorkerStates
<1>5. \A u : Copies(u) = {}
  BY <1>1 DEF Copies
<1>6. OnlyURLs
  <2>1. \A w \in PoolWorkers : worker[w] = IdleWorker /\ worker[w].pc = "idle"
    BY <1>2 DEF FetcherInit
  <2>2. DOMAIN channel = {} /\ DOMAIN pool = {}
    BY DEF FetcherInit
  <2>3. \A u \in URLs : IsFiniteSet(Copies(u))
    BY <1>5, FS_EmptySet
  <2> QED
    BY <1>1, <2>1, <2>2, <2>3 DEF OnlyURLs
<1>7. \A u \in URLs : Jobs(u) = 0
  <2> TAKE u \in URLs
  <2>1. channel = << >> /\ pool = << >> /\ \A w \in PoolWorkers : worker[w].job.url = NoURL
    BY <1>2 DEF FetcherInit
  <2>2. Hits(channel, SentBackOf(u)) = {} /\ Hits(pool, JobsOf(u)) = {}
    BY <2>1 DEF Hits
  <2>3. WorkersOf(u) = {}
    BY <2>1, FetcherAssumption DEF WorkersOf
  <2>4. Jobs(u) = SentBack(u) + Waiting(u) + Pooled(u) + AtWork(u)
    BY <1>4, <1>6, JobsSum
  <2> QED
    BY <1>5, <2>2, <2>3, <2>4, FS_EmptySet DEF SentBack, Waiting, Pooled, AtWork
<1>8. Counted
  BY <1>7 DEF FetcherInit, Counted
<1> QED
  BY <1>4, <1>6, <1>8 DEF FetchInv

\* Requests change no job.
LEMMA RequestFetch ==
  ASSUME FetchInv, NEW r \in Requests, SendMiss(r) \/ \E u \in URLs : Miss(r, u)
  PROVE  FetchInv'
<1>0. FetcherTypeOK /\ OnlyURLs /\ Counted
  BY DEF FetchInv
<1>1. ASSUME NEW u \in URLs, Miss(r, u) PROVE FetchInv'
  <2>1. FetcherTypeOK'
    BY Zenon, <1>0, <1>1 DEF FetcherTypeOK, Miss
  <2>2. UNCHANGED <<channel, queue, pool, worker, stop, inProgress, gaveUp>>
    BY <1>1 DEF Miss
  <2>3. OnlyURLs'
    BY Zenon, <1>0, <2>2, SamePlaces DEF OnlyURLs
  <2>4. Counted'
    BY Zenon, <1>0, <2>1, <2>2, <2>3, SamePlaces, CountedIf
  <2> QED
    BY <2>1, <2>3, <2>4 DEF FetchInv
<1>2. CASE SendMiss(r)
  <2> DEFINE job == Job(request[r], 0)
  <2>1. UNCHANGED <<capacity, cached, inProgress, queue, loop, due, pool, worker, stop, gaveUp>>
    BY Zenon, <1>2 DEF SendMiss
  <2>2. job \in AllJobs /\ job.url \in URLs
    BY <1>0, <1>2, FetcherAssumption DEF SendMiss, FetcherTypeOK, Job, AllJobs
  <2>3. channel' = channel \/ (Len(channel) < capacity /\ channel' = Append(channel, Sent(job, FALSE)))
    BY Zenon, <1>2 DEF SendMiss
  <2> HIDE DEF job
  <2>4. /\ channel' \in Seq(Messages) /\ Len(channel') <= capacity
        /\ \A i \in DOMAIN channel' : channel'[i].job.url \in URLs
        /\ \A u \in URLs : SentBack(u)' = SentBack(u)
    <3>1. CASE channel' = channel
      BY Zenon, <3>1, <1>0, SamePlaces, FetchFacts DEF OnlyURLs, FetcherTypeOK
    <3>2. CASE Len(channel) < capacity /\ channel' = Append(channel, Sent(job, FALSE))
      <4>1. /\ channel' \in Seq(Messages) /\ Len(channel') <= capacity
            /\ \A i \in DOMAIN channel' : channel'[i].job.url \in URLs
            /\ \A u \in URLs : SentBack(u)' = SentBack(u) + One(FALSE /\ job.url = u)
        BY Zenon, <3>2, <1>0, <2>2, ChannelAppend DEF OnlyURLs
      <4>2. \A u \in URLs : One(FALSE /\ job.url = u) = 0 /\ SentBack(u) \in Nat
        BY <1>0, JobsSum DEF One
      <4> QED
        BY <4>1, <4>2
    <3> QED
      BY Zenon, <2>3, <3>1, <3>2
  <2>5. FetcherTypeOK'
    <3>1. request' \in [Requests -> URLs \cup {NoURL}]
      BY Zenon, <1>0, <1>2 DEF FetcherTypeOK, SendMiss
    <3> QED
      BY Zenon, <1>0, <2>1, <2>4, <3>1 DEF FetcherTypeOK, Messages
  <2>6. OnlyURLs'
    BY Zenon, <1>0, <2>1, <2>4, SamePlaces DEF OnlyURLs
  <2>7. Counted'
    BY Zenon, <1>0, <2>1, <2>4, <2>5, <2>6, SamePlaces, CountedIf
  <2> QED
    BY <2>5, <2>6, <2>7 DEF FetchInv
<1> QED
  BY <1>1, <1>2

\* The ticker, the end of the loop and Stop move no job.
LEMMA ControlFetch ==
  ASSUME FetchInv,
         \/ \E us \in SUBSET Queued : Tick(us)
         \/ TickEnds \/ LoopEnds \/ Stop \/ UNCHANGED fetcherVars
  PROVE  FetchInv'
<1>0. FetcherTypeOK /\ OnlyURLs /\ Counted
  BY DEF FetchInv
<1>1. /\ UNCHANGED <<capacity, cached, request, channel, inProgress, queue, pool, worker, gaveUp>>
      /\ stop' = stop \/ (stop < 3 /\ stop' = stop + 1)
  BY Zenon DEF Tick, TickEnds, LoopEnds, Stop, fetcherVars
<1>2. Queued \subseteq URLs \cup {NoURL}
  BY DEF Queued, InQueue, AllJobs
<1>3. due' \subseteq URLs \cup {NoURL} /\ loop' \in {"select", "tick", "ended"}
  BY Zenon, <1>0, <1>2 DEF Tick, TickEnds, LoopEnds, Stop, fetcherVars, FetcherTypeOK
<1>4. stop' \in 0 .. 3 /\ stop \in 0 .. 3
  BY <1>0, <1>1 DEF FetcherTypeOK
<1>5. FetcherTypeOK'
  BY Zenon, <1>0, <1>1, <1>3, <1>4 DEF FetcherTypeOK
<1>6. OnlyURLs'
  <2>1. stop = 3 => stop' = 3
    BY <1>1, <1>4
  <2>2. InQueue' = InQueue /\ \A u : Copies(u)' = Copies(u)
    BY Zenon, <1>1, SamePlaces
  <2> QED
    BY Zenon, <1>0, <1>1, <2>1, <2>2 DEF OnlyURLs
<1>7. stop' < 3 => stop < 3
  BY <1>1, <1>4
<1>8. Counted'
  BY Zenon, <1>0, <1>1, <1>5, <1>6, <1>7, SamePlaces, CountedIf
<1> QED
  BY <1>5, <1>6, <1>8 DEF FetchInv

\* A worker takes the next job of the pool.
LEMMA TakeFetch ==
  ASSUME FetchInv, NEW w \in PoolWorkers, Take(w)
  PROVE  FetchInv'
<1>0. FetcherTypeOK /\ OnlyURLs /\ Counted
  BY DEF FetchInv
<1>1. /\ UNCHANGED <<capacity, cached, request, channel, inProgress, queue, loop, due, stop, gaveUp>>
      /\ worker[w] = IdleWorker /\ pool # << >>
      /\ worker' = [worker EXCEPT ![w] = Busy("fetch", Head(pool))] /\ pool' = Tail(pool)
  BY Zenon DEF Take
<1>2. /\ pool \in Seq(AllJobs) /\ worker \in [PoolWorkers -> WorkerStates]
      /\ \A i \in DOMAIN pool : pool[i].url \in URLs /\ Len(pool) <= capacity
  BY Zenon, <1>0, FetchFacts DEF OnlyURLs, FetcherTypeOK
<1> DEFINE job == Head(pool)
           b == Busy("fetch", job)
<1>3. job \in AllJobs /\ job.url \in URLs
  BY <1>1, <1>2
<1>4. /\ pool' \in Seq(AllJobs) /\ Len(pool') <= capacity
      /\ \A i \in DOMAIN pool' : pool'[i].url \in URLs
  <2>1. /\ Tail(pool) \in Seq(AllJobs) /\ Len(Tail(pool)) = Len(pool) - 1
        /\ \A i \in 1 .. Len(pool) - 1 : Tail(pool)[i] = pool[i + 1] /\ i + 1 \in DOMAIN pool
        /\ DOMAIN Tail(pool) = 1 .. Len(pool) - 1
    BY <1>1, <1>2
  <2>2. Len(pool) \in Nat /\ capacity \in Nat /\ Len(pool) <= capacity
    BY Zenon, <1>0, FetchFacts DEF FetcherTypeOK
  <2> QED
    BY <1>1, <1>2, <2>1, <2>2
<1> HIDE DEF job
<1>5. b \in WorkerStates /\ b.job = job /\ b.pc = "fetch" /\ IdleWorker.job.url = NoURL
  BY Zenon, <1>3, NewStates
<1> HIDE DEF b
<1>6. /\ worker' \in [PoolWorkers -> WorkerStates]
      /\ \A v \in PoolWorkers : worker'[v] = IF v = w THEN b ELSE worker[v]
  BY Zenon, <1>1, <1>2, <1>5 DEF b, job
<1>7. FetcherTypeOK'
  BY Zenon, <1>0, <1>1, <1>4, <1>6 DEF FetcherTypeOK, WorkerStates
<1>8. OnlyURLs'
  <2>1. \A v \in PoolWorkers : IF worker'[v].pc = "idle" THEN worker'[v] = IdleWorker
                                                         ELSE worker'[v].job.url \in URLs
    BY Zenon, <1>0, <1>3, <1>5, <1>6 DEF OnlyURLs
  <2> QED
    BY Zenon, <1>0, <1>1, <1>4, <2>1, SamePlaces DEF OnlyURLs
<1>9. ASSUME NEW u \in URLs
      PROVE  SentBack(u)' + Waiting(u)' + Pooled(u)' + AtWork(u)'
               = SentBack(u) + Waiting(u) + Pooled(u) + AtWork(u)
  <2>1. /\ AtWork(u) \in Nat /\ AtWork(u)' \in Nat
        /\ AtWork(u)' + One(worker[w].job.url = u) = AtWork(u) + One(b.job.url = u)
    BY Zenon, <1>0, <1>1, <1>5, WorkerChanges DEF b, job
  <2>2. worker[w].job.url # u
    BY Zenon, <1>1, <1>5, FetcherAssumption
  <2>3. One(worker[w].job.url = u) = 0 /\ One(job.url = u) \in Nat
    BY <2>2 DEF One
  <2>4. AtWork(u)' = AtWork(u) + One(job.url = u)
    BY <1>5, <2>1, <2>3
  <2>5. /\ Pooled(u)' \in Nat /\ Pooled(u) = Pooled(u)' + (IF job \in JobsOf(u) THEN 1 ELSE 0)
    BY Zenon, <1>1, <1>2, HitsTail DEF Pooled, job
  <2>6. Pooled(u) = Pooled(u)' + One(job.url = u)
    BY Zenon, <1>3, <2>5, SentBackIff DEF One
  <2>7. SentBack(u) \in Nat /\ Waiting(u) \in Nat
    BY <1>0, JobsSum
  <2>8. SentBack(u)' = SentBack(u) /\ Waiting(u)' = Waiting(u)
    BY Zenon, <1>1, SamePlaces
  <2> QED
    BY <2>1, <2>3, <2>4, <2>5, <2>6, <2>7, <2>8
<1>10. Counted'
  BY Zenon, <1>0, <1>1, <1>7, <1>8, <1>9, CountedIf
<1> QED
  BY <1>7, <1>8, <1>10 DEF FetchInv

\* A fetch ends: the worker keeps its job, or the URL has failed too often.
LEMMA FetchedFetch ==
  ASSUME FetchInv, NEW w \in PoolWorkers, NEW result \in FetchResults, Fetched(w, result)
  PROVE  FetchInv'
<1>0. FetcherTypeOK /\ OnlyURLs /\ Counted
  BY DEF FetchInv
<1> DEFINE job == worker[w].job
           n == Retries(job, result)
           again == n < MaxRetries
           b == IF again THEN Busy("send", Job(job.url, n)) ELSE IdleWorker
<1>1. /\ UNCHANGED <<capacity, request, channel, inProgress, queue, loop, due, pool, stop>>
      /\ worker[w].pc = "fetch"
      /\ cached' = IF result = "cached" THEN cached \cup {job.url} ELSE cached
      /\ worker' = [worker EXCEPT ![w] = b]
      /\ gaveUp' = IF again THEN gaveUp ELSE gaveUp \cup {job.url}
  BY Zenon DEF Fetched
<1>2. job \in AllJobs /\ job.url \in URLs /\ job.retry \in 0 .. MaxRetries
  BY ZenonT(30), <1>0, <1>1, FetchFacts DEF OnlyURLs, WorkerStates, AllJobs
<1>3. n \in Nat /\ (again => Job(job.url, n) \in AllJobs /\ Job(job.url, n).url = job.url)
  BY <1>2, FetcherAssumption DEF Retries, Job, AllJobs
<1>4. /\ b \in WorkerStates
      /\ again => b.job.url = job.url /\ b.pc = "send"
      /\ ~again => b = IdleWorker /\ b.job.url = NoURL /\ b.pc = "idle"
  BY Zenon, <1>2, <1>3, NewStates
<1> HIDE DEF n, b, again, job
<1>5. /\ worker' \in [PoolWorkers -> WorkerStates]
      /\ \A v \in PoolWorkers : worker'[v] = IF v = w THEN b ELSE worker[v]
  BY Zenon, <1>0, <1>1, <1>4, FetchFacts
<1>6. FetcherTypeOK'
  <2>1. cached' \subseteq URLs /\ gaveUp' \subseteq URLs
    BY Zenon, <1>0, <1>1, <1>2 DEF FetcherTypeOK
  <2> QED
    BY Zenon, <1>0, <1>1, <1>5, <2>1 DEF FetcherTypeOK, WorkerStates
<1>7. OnlyURLs'
  <2>1. \A v \in PoolWorkers : IF worker'[v].pc = "idle" THEN worker'[v] = IdleWorker
                                                         ELSE worker'[v].job.url \in URLs
    BY ZenonT(30), <1>0, <1>2, <1>4, <1>5 DEF OnlyURLs
  <2> QED
    BY Zenon, <1>0, <1>1, <2>1, SamePlaces DEF OnlyURLs
<1>8. ASSUME NEW u \in URLs
      PROVE  /\ Jobs(u) \in Nat /\ Jobs(u)' \in Nat
             /\ Jobs(u)' + One(job.url = u) = Jobs(u) + One(b.job.url = u)
  <2>0. /\ AtWork(u) \in Nat /\ AtWork(u)' \in Nat
        /\ AtWork(u)' + One(worker[w].job.url = u) = AtWork(u) + One(b.job.url = u)
    BY ZenonT(30), <1>0, <1>1, <1>4, WorkerChanges
  <2>1. /\ AtWork(u) \in Nat /\ AtWork(u)' \in Nat
        /\ AtWork(u)' + One(job.url = u) = AtWork(u) + One(b.job.url = u)
    BY Zenon, <2>0 DEF job
  <2>2. /\ SentBack(u) \in Nat /\ Waiting(u) \in Nat /\ Pooled(u) \in Nat
        /\ Jobs(u) = SentBack(u) + Waiting(u) + Pooled(u) + AtWork(u)
    BY <1>0, JobsSum
  <2>3. Jobs(u)' = SentBack(u)' + Waiting(u)' + Pooled(u)' + AtWork(u)'
    BY Zenon, <1>6, <1>7, SummedNext DEF Summed
  <2>4. SentBack(u)' = SentBack(u) /\ Waiting(u)' = Waiting(u) /\ Pooled(u)' = Pooled(u)
    BY Zenon, <1>1, SamePlaces
  <2>5. One(job.url = u) \in Nat /\ One(b.job.url = u) \in Nat
    BY DEF One
  <2> QED
    BY <2>1, <2>2, <2>3, <2>4, <2>5
<1>9. Counted'
  <2>0. gaveUp' \subseteq inProgress'
    <3>1. One(job.url = job.url) = 1
      BY DEF One
    <3>2. Jobs(job.url) = 1 \/ again
      <4> SUFFICES ASSUME ~again PROVE Jobs(job.url) = 1
        OBVIOUS
      <4>1. b.job.url # job.url
        BY Zenon, <1>2, <1>4, FetcherAssumption
      <4>2. One(b.job.url = job.url) = 0
        BY <4>1 DEF One
      <4>3. Jobs(job.url) <= 1
        BY <1>0, <1>2 DEF Counted
      <4> QED
        BY <1>2, <1>8, <3>1, <4>2, <4>3
    <3> QED
      BY Zenon, <1>0, <1>1, <1>2, <3>2 DEF Counted
  <2> SUFFICES ASSUME NEW u \in URLs
               PROVE  /\ Jobs(u)' <= 1
                      /\ Jobs(u)' = 1 => u \in inProgress' \ gaveUp'
                      /\ stop' < 3 /\ u \in inProgress' \ gaveUp' => Jobs(u)' = 1
    BY <2>0 DEF Counted
  <2>1. CASE again \/ job.url # u
    <3>1. job.url = u <=> b.job.url = u
      BY Zenon, <2>1, <1>4, FetcherAssumption
    <3>2. One(job.url = u) = One(b.job.url = u) /\ One(job.url = u) \in Nat
      BY Zenon, <3>1 DEF One
    <3>3. Jobs(u)' = Jobs(u)
      BY <1>8, <3>2
    <3>4. u \in inProgress' \ gaveUp' <=> u \in inProgress \ gaveUp
      BY Zenon, <2>1, <1>1
    <3> QED
      BY Zenon, <3>3, <3>4, <1>0, <1>1 DEF Counted
  <2>2. CASE ~again /\ job.url = u
    <3>1. One(job.url = u) = 1 /\ One(b.job.url = u) = 0
      BY <2>2, <1>4, FetcherAssumption DEF One
    <3>2. Jobs(u)' = 0
      BY <3>1, <1>8, <1>0 DEF Counted
    <3>3. u \in gaveUp'
      BY <2>2, <1>1
    <3> QED
      BY <3>2, <3>3
  <2> QED
    BY <2>1, <2>2
<1> QED
  BY <1>6, <1>7, <1>9 DEF FetchInv

\* A worker sends its job back over the channel, or loses it on a closed one.
LEMMA SendBackFetch ==
  ASSUME FetchInv, NEW w \in PoolWorkers, SendBack(w)
  PROVE  FetchInv'
<1>0. FetcherTypeOK /\ OnlyURLs /\ Counted
  BY DEF FetchInv
<1> DEFINE job == worker[w].job
<1>1. /\ UNCHANGED <<capacity, cached, request, inProgress, queue, loop, due, pool, stop, gaveUp>>
      /\ worker[w].pc = "send"
      /\ worker' = [worker EXCEPT ![w] = IdleWorker]
  BY DEF SendBack
<1>2. \/ stop = 3 /\ channel' = channel
      \/ Len(channel) < capacity /\ channel' = Append(channel, Sent(job, TRUE))
  BY Zenon DEF SendBack, Closed
<1>3. job \in AllJobs /\ job.url \in URLs
  BY Zenon, <1>0, <1>1, FetchFacts DEF OnlyURLs, WorkerStates
<1>4. IdleWorker \in WorkerStates /\ IdleWorker.pc = "idle" /\ IdleWorker.job.url = NoURL
  BY Zenon, <1>3, NewStates
<1>5. /\ worker' \in [PoolWorkers -> WorkerStates]
      /\ \A v \in PoolWorkers : worker'[v] = IF v = w THEN IdleWorker ELSE worker[v]
  BY Zenon, <1>0, <1>1, <1>4, FetchFacts
<1>6. ASSUME NEW u \in URLs
      PROVE  AtWork(u) \in Nat /\ AtWork(u)' \in Nat /\ AtWork(u) = AtWork(u)' + One(job.url = u)
  <2>1. /\ AtWork(u) \in Nat /\ AtWork(u)' \in Nat
        /\ AtWork(u)' + One(worker[w].job.url = u) = AtWork(u) + One(IdleWorker.job.url = u)
    BY ZenonT(30), <1>0, <1>1, <1>4, WorkerChanges
  <2>2. IdleWorker.job.url # u
    BY <1>4, FetcherAssumption
  <2>3. One(IdleWorker.job.url = u) = 0
    BY <2>2 DEF One
  <2> QED
    BY <2>1, <2>3
<1> HIDE DEF job
<1>7. /\ channel' \in Seq(Messages) /\ Len(channel') <= capacity
      /\ \A i \in DOMAIN channel' : channel'[i].job.url \in URLs
      /\ \A u \in URLs : IF stop = 3 /\ channel' = channel
                         THEN SentBack(u)' = SentBack(u)
                         ELSE SentBack(u)' = SentBack(u) + One(job.url = u)
  <2>1. CASE stop = 3 /\ channel' = channel
    BY Zenon, <2>1, <1>0, SamePlaces, FetchFacts DEF OnlyURLs, FetcherTypeOK
  <2>2. CASE ~(stop = 3 /\ channel' = channel)
    <3>1. /\ channel' \in Seq(Messages) /\ Len(channel') <= capacity
          /\ \A i \in DOMAIN channel' : channel'[i].job.url \in URLs
          /\ \A u \in URLs : SentBack(u)' = SentBack(u) + One(TRUE /\ job.url = u)
      BY Zenon, <2>2, <1>0, <1>2, <1>3, ChannelAppend DEF OnlyURLs
    <3>2. \A u \in URLs : One(TRUE /\ job.url = u) = One(job.url = u)
      BY DEF One
    <3> QED
      BY Zenon, <2>2, <3>1, <3>2
  <2> QED
    BY Zenon, <2>1, <2>2
<1>8. FetcherTypeOK'
  BY ZenonT(30), <1>0, <1>1, <1>5, <1>7 DEF FetcherTypeOK, WorkerStates, Messages
<1>9. OnlyURLs'
  <2>1. \A v \in PoolWorkers : IF worker'[v].pc = "idle" THEN worker'[v] = IdleWorker
                                                         ELSE worker'[v].job.url \in URLs
    BY Zenon, <1>0, <1>4, <1>5 DEF OnlyURLs
  <2> QED
    BY <1>0, <1>1, <1>7, <2>1, SamePlaces DEF OnlyURLs
<1>10. ASSUME NEW u \in URLs
       PROVE  /\ Jobs(u) \in Nat /\ Jobs(u)' \in Nat /\ Jobs(u)' <= Jobs(u)
              /\ stop < 3 => Jobs(u)' = Jobs(u)
  <2>1. /\ SentBack(u) \in Nat /\ Waiting(u) \in Nat /\ Pooled(u) \in Nat
        /\ Jobs(u) = SentBack(u) + Waiting(u) + Pooled(u) + AtWork(u)
    BY <1>0, JobsSum
  <2>2. Jobs(u)' = SentBack(u)' + Waiting(u)' + Pooled(u)' + AtWork(u)'
    BY Zenon, <1>8, <1>9, SummedNext DEF Summed
  <2>3. Waiting(u)' = Waiting(u) /\ Pooled(u)' = Pooled(u)
    BY Zenon, <1>1, SamePlaces
  <2>4. One(job.url = u) \in Nat
    BY DEF One
  <2>5. CASE stop = 3 /\ channel' = channel
    <3>1. SentBack(u)' = SentBack(u) /\ AtWork(u) \in Nat /\ AtWork(u)' \in Nat
      BY Zenon, <1>6, <1>7, <2>5
    <3>2. AtWork(u) = AtWork(u)' + One(job.url = u)
      BY Zenon, <1>6
    <3> QED
      BY <2>1, <2>2, <2>3, <2>4, <2>5, <3>1, <3>2
  <2>6. CASE ~(stop = 3 /\ channel' = channel)
    <3>1. SentBack(u)' = SentBack(u) + One(job.url = u) /\ AtWork(u) \in Nat /\ AtWork(u)' \in Nat
      BY Zenon, <1>6, <1>7, <2>6
    <3>2. AtWork(u) = AtWork(u)' + One(job.url = u)
      BY Zenon, <1>6
    <3> QED
      BY <2>1, <2>2, <2>3, <2>4, <3>1, <3>2
  <2> QED
    BY Zenon, <2>5, <2>6
<1>11. Counted'
  <2>1. ASSUME NEW u \in URLs
        PROVE  /\ Jobs(u)' <= 1
               /\ Jobs(u)' = 1 => u \in inProgress' \ gaveUp'
               /\ stop' < 3 /\ u \in inProgress' \ gaveUp' => Jobs(u)' = 1
    <3>1. /\ Jobs(u) <= 1
          /\ Jobs(u) = 1 => u \in inProgress \ gaveUp
          /\ stop < 3 /\ u \in inProgress \ gaveUp => Jobs(u) = 1
      BY <1>0 DEF Counted
    <3>2. u \in inProgress' \ gaveUp' <=> u \in inProgress \ gaveUp
      BY <1>1
    <3>3. Jobs(u)' <= 1 /\ (Jobs(u)' = 1 => Jobs(u) = 1)
      BY <1>10, <3>1
    <3> QED
      BY Zenon, <1>1, <1>10, <3>1, <3>2, <3>3
  <2> QED
    BY Zenon, <1>0, <1>1, <2>1 DEF Counted
<1> QED
  BY <1>8, <1>9, <1>11 DEF FetchInv

\* A due job goes from the queue to the pool.
LEMMA PopDueFetch ==
  ASSUME FetchInv, PopDue
  PROVE  FetchInv'
<1>0. FetcherTypeOK /\ OnlyURLs /\ Counted
  BY DEF FetchInv
<1>1. /\ UNCHANGED <<capacity, cached, request, channel, inProgress, loop, stop, gaveUp>>
      /\ Accepts
  BY DEF PopDue
<1>2. PICK job \in InQueue : /\ job.url \in due /\ Accept(job)
                                     /\ queue' = [queue EXCEPT ![job] = @ - 1]
                                     /\ due' = due \ {job.url}
  BY Zenon DEF PopDue
<1>3. job \in AllJobs /\ job.url \in URLs
  <2>1. stop # 3
    BY <1>1, <1>0, FetchFacts DEF Accepts
  <2> QED
    BY Zenon, <1>0, <2>1 DEF OnlyURLs, InQueue, AllJobs
<1>4. /\ pool' \in Seq(AllJobs) /\ Len(pool') <= capacity
      /\ worker' \in [PoolWorkers -> WorkerStates]
      /\ \A i \in DOMAIN pool' : pool'[i].url \in URLs
      /\ \A w \in PoolWorkers : IF worker'[w].pc = "idle" THEN worker'[w] = IdleWorker
                                                          ELSE worker'[w].job.url \in URLs
      /\ \A u \in URLs : Pooled(u)' + AtWork(u)' = Pooled(u) + AtWork(u) + One(job.url = u)
  BY Zenon, <1>0, <1>1, <1>2, <1>3, AcceptChanges
<1>5. /\ queue' \in [AllJobs -> Nat] /\ InQueue' \subseteq InQueue
      /\ \A u \in URLs : /\ IsFiniteSet(Copies(u)') /\ Waiting(u)' \in Nat
                         /\ Waiting(u) = Waiting(u)' + One(job.url = u)
  BY Zenon, <1>0, <1>1, <1>2, QueueRemove
<1>6. FetcherTypeOK'
  BY Zenon, <1>0, <1>1, <1>2, <1>4, <1>5 DEF FetcherTypeOK, WorkerStates
<1>7. OnlyURLs'
  BY Zenon, <1>0, <1>1, <1>4, <1>5 DEF OnlyURLs
<1>8. ASSUME NEW u \in URLs
      PROVE  SentBack(u)' + Waiting(u)' + Pooled(u)' + AtWork(u)'
               = SentBack(u) + Waiting(u) + Pooled(u) + AtWork(u)
  <2>1. /\ SentBack(u) \in Nat /\ Waiting(u) \in Nat /\ Pooled(u) \in Nat /\ AtWork(u) \in Nat
    BY Zenon, <1>0, JobsSum
  <2>2. Pooled(u)' \in Nat /\ AtWork(u)' \in Nat
    BY Zenon, <1>6, <1>7, SummedNext DEF Summed
  <2>3. SentBack(u)' = SentBack(u)
    BY Zenon, <1>1, SamePlaces
  <2>4. One(job.url = u) \in Nat
    BY DEF One
  <2>5. /\ Pooled(u)' + AtWork(u)' = Pooled(u) + AtWork(u) + One(job.url = u)
        /\ Waiting(u)' \in Nat /\ Waiting(u) = Waiting(u)' + One(job.url = u)
    BY Zenon, <1>4, <1>5
  <2> QED
    BY <2>1, <2>2, <2>3, <2>4, <2>5
<1>9. Counted'
  BY Zenon, <1>0, <1>1, <1>6, <1>7, <1>8, CountedIf
<1> QED
  BY <1>6, <1>7, <1>9 DEF FetchInv

\* The loop takes a message from the channel: what is left, and the jobs sent back.
LEMMA ChannelTail ==
  ASSUME FetcherTypeOK, channel # << >>, channel' = Tail(channel),
         \A i \in DOMAIN channel : channel[i].job.url \in URLs
  PROVE  /\ Head(channel) \in Messages /\ Head(channel).job.url \in URLs
         /\ channel' \in Seq(Messages) /\ Len(channel') <= capacity
         /\ \A i \in DOMAIN channel' : channel'[i].job.url \in URLs
         /\ \A u \in URLs : /\ SentBack(u)' \in Nat
                            /\ SentBack(u) = SentBack(u)' +
                                 One(Head(channel).refetch /\ Head(channel).job.url = u)
<1>1. channel \in Seq(Messages) /\ Len(channel) \in Nat /\ capacity \in Nat /\ Len(channel) <= capacity
  BY Zenon, FetchFacts DEF FetcherTypeOK
<1>2. /\ Head(channel) \in Messages /\ Head(channel).job.url \in URLs
  BY <1>1
<1>3. /\ Tail(channel) \in Seq(Messages) /\ Len(Tail(channel)) = Len(channel) - 1
      /\ \A i \in 1 .. Len(channel) - 1 : Tail(channel)[i] = channel[i + 1] /\ i + 1 \in DOMAIN channel
      /\ DOMAIN Tail(channel) = 1 .. Len(channel) - 1
  BY <1>1
<1>4. ASSUME NEW u \in URLs
      PROVE  /\ SentBack(u)' \in Nat
             /\ SentBack(u) = SentBack(u)' + One(Head(channel).refetch /\ Head(channel).job.url = u)
  <2>1. /\ SentBack(u)' \in Nat
        /\ SentBack(u) = SentBack(u)' + (IF Head(channel) \in SentBackOf(u) THEN 1 ELSE 0)
    BY Zenon, <1>1, HitsTail DEF SentBack
  <2>2. Head(channel) \in SentBackOf(u) <=> Head(channel).refetch /\ Head(channel).job.url = u
    BY Zenon, <1>2 DEF SentBackOf
  <2> QED
    BY Zenon, <2>1, <2>2 DEF One
<1> QED
  BY <1>1, <1>2, <1>3, <1>4

\* submit puts the job into the pool or into the queue.
LEMMA SubmitChanges ==
  ASSUME FetcherTypeOK, OnlyURLs, NEW job \in AllJobs, job.url = NoURL => stop = 3,
         Submit(job), UNCHANGED <<capacity, stop>>
  PROVE  /\ queue' \in [AllJobs -> Nat]
         /\ \A j \in InQueue' : j.url = NoURL => stop = 3
         /\ pool' \in Seq(AllJobs) /\ Len(pool') <= capacity
         /\ worker' \in [PoolWorkers -> WorkerStates]
         /\ \A i \in DOMAIN pool' : pool'[i].url \in URLs
         /\ \A w \in PoolWorkers : IF worker'[w].pc = "idle" THEN worker'[w] = IdleWorker
                                                             ELSE worker'[w].job.url \in URLs
         /\ \A u \in URLs : /\ IsFiniteSet(Copies(u)')
                            /\ Waiting(u)' + (Pooled(u)' + AtWork(u)')
                                 = Waiting(u) + (Pooled(u) + AtWork(u)) + One(job.url = u)
<1>0. ASSUME NEW u \in URLs
      PROVE  Waiting(u) \in Nat /\ Pooled(u) \in Nat /\ AtWork(u) \in Nat /\ One(job.url = u) \in Nat
  BY Zenon, JobsSum DEF One
<1>1. CASE Accepts
  <2>1. Accept(job) /\ queue' = queue
    BY <1>1 DEF Submit
  <2>2. job.url \in URLs
    <3>1. stop # 3
      BY <1>1, FetchFacts DEF Accepts
    <3> QED
      BY <3>1 DEF AllJobs
  <2>3. /\ pool' \in Seq(AllJobs) /\ Len(pool') <= capacity
        /\ worker' \in [PoolWorkers -> WorkerStates]
        /\ \A i \in DOMAIN pool' : pool'[i].url \in URLs
        /\ \A w \in PoolWorkers : IF worker'[w].pc = "idle" THEN worker'[w] = IdleWorker
                                                            ELSE worker'[w].job.url \in URLs
        /\ \A u \in URLs : Pooled(u)' + AtWork(u)' = Pooled(u) + AtWork(u) + One(job.url = u)
    BY Zenon, <1>1, <2>1, <2>2, AcceptChanges
  <2>4. /\ queue' \in [AllJobs -> Nat]
        /\ \A j \in InQueue' : j.url = NoURL => stop = 3
    BY Zenon, <2>1, FetchFacts, SamePlaces DEF OnlyURLs
  <2>5. \A u \in URLs : IsFiniteSet(Copies(u)') /\ Waiting(u)' = Waiting(u)
    BY Zenon, <2>1, SamePlaces DEF OnlyURLs
  <2>6. ASSUME NEW u \in URLs
        PROVE  Waiting(u)' + (Pooled(u)' + AtWork(u)')
                 = Waiting(u) + (Pooled(u) + AtWork(u)) + One(job.url = u)
    <3>1. /\ Pooled(u)' + AtWork(u)' = Pooled(u) + AtWork(u) + One(job.url = u)
          /\ Waiting(u)' = Waiting(u)
      BY Zenon, <2>3, <2>5
    <3> QED
      BY <1>0, <3>1
  <2> QED
    BY Zenon, <2>3, <2>4, <2>5, <2>6
<1>2. CASE ~Accepts
  <2>1. queue' = [queue EXCEPT ![job] = @ + 1] /\ UNCHANGED <<pool, worker>>
    BY <1>2 DEF Submit
  <2>2. /\ queue' \in [AllJobs -> Nat]
        /\ \A j \in InQueue' : j.url = NoURL => stop = 3
        /\ \A u \in URLs : IsFiniteSet(Copies(u)') /\ Waiting(u)' = Waiting(u) + One(job.url = u)
    BY Zenon, <2>1, QueueAdd
  <2>3. /\ pool' \in Seq(AllJobs) /\ Len(pool') <= capacity
        /\ worker' \in [PoolWorkers -> WorkerStates]
        /\ \A i \in DOMAIN pool' : pool'[i].url \in URLs
        /\ \A w \in PoolWorkers : IF worker'[w].pc = "idle" THEN worker'[w] = IdleWorker
                                                            ELSE worker'[w].job.url \in URLs
    BY Zenon, <2>1, FetchFacts DEF OnlyURLs, FetcherTypeOK
  <2>4. \A u \in URLs : Pooled(u)' = Pooled(u) /\ AtWork(u)' = AtWork(u)
    BY ZenonT(30), <2>1, SamePlaces
  <2>5. \A u \in URLs : Waiting(u)' + (Pooled(u)' + AtWork(u)')
                          = Waiting(u) + (Pooled(u) + AtWork(u)) + One(job.url = u)
    BY <1>0, <2>2, <2>4
  <2> QED
    BY Zenon, <2>2, <2>3, <2>5
<1> QED
  BY Zenon, <1>1, <1>2

\* The loop receives: a job sent back waits in the queue, a new URL gets its first
\* job, and a URL that has one gets none.
LEMMA ReceiveFetch ==
  ASSUME FetchInv, Receive
  PROVE  FetchInv'
<1>0. FetcherTypeOK /\ OnlyURLs /\ Counted
  BY DEF FetchInv
<1> DEFINE msg == IF channel = << >> THEN Sent(NoJob, FALSE) ELSE Head(channel)
           job == msg.job
           back == msg.refetch
<1>1. /\ UNCHANGED <<capacity, cached, request, loop, due, stop, gaveUp>>
      /\ channel = << >> => stop = 3
      /\ channel' = IF channel = << >> THEN channel ELSE Tail(channel)
  BY Zenon DEF Receive, Closed
<1>2. IF back
      THEN queue' = [queue EXCEPT ![job] = @ + 1] /\ UNCHANGED <<inProgress, pool, worker>>
      ELSE IF IsNew(job.url) THEN inProgress' = inProgress \cup {job.url} /\ Submit(job)
      ELSE UNCHANGED <<inProgress, queue, pool, worker>>
  BY Zenon DEF Receive
<1>3. /\ job \in AllJobs /\ back \in BOOLEAN
      /\ job.url = NoURL => stop = 3
      /\ channel' \in Seq(Messages) /\ Len(channel') <= capacity
      /\ \A i \in DOMAIN channel' : channel'[i].job.url \in URLs
      /\ \A u \in URLs : SentBack(u)' \in Nat /\ SentBack(u) = SentBack(u)' + One(back /\ job.url = u)
  <2>1. CASE channel = << >>
    <3>1. msg = Sent(NoJob, FALSE) /\ stop = 3 /\ channel' = channel
      BY <2>1, <1>1
    <3>2. job = NoJob /\ back = FALSE /\ NoJob \in AllJobs
      BY <3>1, FetcherAssumption DEF Sent, NoJob, Job, AllJobs
    <3>3. \A u \in URLs : One(back /\ job.url = u) = 0 /\ SentBack(u) \in Nat /\ SentBack(u)' = SentBack(u)
      BY Zenon, <3>1, <3>2, <1>0, JobsSum, SamePlaces DEF One
    <3>4. /\ channel' \in Seq(Messages) /\ Len(channel') <= capacity
          /\ \A i \in DOMAIN channel' : channel'[i].job.url \in URLs
      BY Zenon, <3>1, <1>0, FetchFacts DEF OnlyURLs, FetcherTypeOK
    <3> HIDE DEF msg, job, back
    <3>5. back \in BOOLEAN /\ job \in AllJobs
      BY Zenon, <3>2
    <3>6. \A u \in URLs : SentBack(u)' \in Nat /\ SentBack(u) = SentBack(u)' + One(back /\ job.url = u)
      BY <3>3
    <3> QED
      BY Zenon, <3>1, <3>4, <3>5, <3>6
  <2>2. CASE channel # << >>
    <3>1. msg = Head(channel) /\ channel' = Tail(channel)
      BY <2>2, <1>1
    <3>2. /\ Head(channel) \in Messages /\ Head(channel).job.url \in URLs
          /\ channel' \in Seq(Messages) /\ Len(channel') <= capacity
          /\ \A i \in DOMAIN channel' : channel'[i].job.url \in URLs
          /\ \A u \in URLs : /\ SentBack(u)' \in Nat
                             /\ SentBack(u) = SentBack(u)' +
                                  One(Head(channel).refetch /\ Head(channel).job.url = u)
      BY Zenon, <1>0, <2>2, <3>1, ChannelTail DEF OnlyURLs
    <3>3. job \in AllJobs /\ back \in BOOLEAN /\ job.url # NoURL
      BY Zenon, <3>1, <3>2, FetcherAssumption DEF Messages
    <3> QED
      BY Zenon, <2>2, <3>2, <3>3
  <2> QED
    BY Zenon, <2>1, <2>2
<1> HIDE DEF msg, job, back
<1> DEFINE new == ~back /\ IsNew(job.url)
<1>4. inProgress' = IF new THEN inProgress \cup {job.url} ELSE inProgress
  BY <1>2
<1>5. /\ queue' \in [AllJobs -> Nat]
      /\ \A j \in InQueue' : j.url = NoURL => stop = 3
      /\ pool' \in Seq(AllJobs) /\ Len(pool') <= capacity
      /\ worker' \in [PoolWorkers -> WorkerStates]
      /\ \A i \in DOMAIN pool' : pool'[i].url \in URLs
      /\ \A w \in PoolWorkers : IF worker'[w].pc = "idle" THEN worker'[w] = IdleWorker
                                                          ELSE worker'[w].job.url \in URLs
      /\ \A u \in URLs : /\ IsFiniteSet(Copies(u)')
                         /\ Waiting(u)' + (Pooled(u)' + AtWork(u)')
                              = Waiting(u) + (Pooled(u) + AtWork(u))
                                  + (IF back \/ new THEN One(job.url = u) ELSE 0)
  <2>0. /\ pool \in Seq(AllJobs) /\ Len(pool) <= capacity
        /\ worker \in [PoolWorkers -> WorkerStates]
        /\ \A i \in DOMAIN pool : pool[i].url \in URLs
        /\ \A w \in PoolWorkers : IF worker[w].pc = "idle" THEN worker[w] = IdleWorker
                                                           ELSE worker[w].job.url \in URLs
    BY Zenon, <1>0, FetchFacts DEF OnlyURLs, FetcherTypeOK
  <2>a. ASSUME NEW u \in URLs
        PROVE  Waiting(u) \in Nat /\ Pooled(u) \in Nat /\ AtWork(u) \in Nat /\ One(job.url = u) \in Nat
    BY Zenon, <1>0, JobsSum DEF One
  <2>1. CASE back
    <3>1. queue' = [queue EXCEPT ![job] = @ + 1] /\ UNCHANGED <<pool, worker>>
      BY <2>1, <1>2
    <3>2. /\ queue' \in [AllJobs -> Nat]
          /\ \A j \in InQueue' : j.url = NoURL => stop = 3
          /\ \A u \in URLs : IsFiniteSet(Copies(u)') /\ Waiting(u)' = Waiting(u) + One(job.url = u)
      BY Zenon, <1>0, <1>1, <1>3, <3>1, QueueAdd
    <3>3. \A u \in URLs : Pooled(u)' = Pooled(u) /\ AtWork(u)' = AtWork(u)
      BY Zenon, <3>1, SamePlaces
    <3>4. \A u \in URLs : Waiting(u)' + (Pooled(u)' + AtWork(u)')
                            = Waiting(u) + (Pooled(u) + AtWork(u)) + One(job.url = u)
      BY <2>a, <3>2, <3>3
    <3> QED
      BY Zenon, <2>0, <2>1, <3>1, <3>2, <3>4
  <2>2. CASE new
    <3>1. Submit(job) /\ UNCHANGED <<capacity, stop>>
      BY Zenon, <2>2, <1>1, <1>2
    <3> QED
      BY Zenon, <1>0, <1>3, <2>2, <3>1, SubmitChanges
  <2>3. CASE ~back /\ ~new
    <3>1. UNCHANGED <<queue, pool, worker>>
      BY <2>3, <1>2
    <3>2. \A u \in URLs : /\ Waiting(u)' = Waiting(u) /\ Copies(u)' = Copies(u)
                          /\ Pooled(u)' = Pooled(u) /\ AtWork(u)' = AtWork(u)
      BY Zenon, <3>1, SamePlaces
    <3>3. /\ queue' \in [AllJobs -> Nat]
          /\ \A j \in InQueue' : j.url = NoURL => stop = 3
          /\ \A u \in URLs : IsFiniteSet(Copies(u)')
      BY ZenonT(30), <1>0, <3>1, <3>2, FetchFacts, SamePlaces DEF OnlyURLs
    <3>4. \A u \in URLs : Waiting(u)' + (Pooled(u)' + AtWork(u)')
                            = Waiting(u) + (Pooled(u) + AtWork(u)) + 0
      BY <2>a, <3>2
    <3> QED
      BY ZenonT(30), <2>0, <2>3, <3>1, <3>3, <3>4
  <2> QED
    BY Zenon, <2>1, <2>2, <2>3
<1>6. FetcherTypeOK'
  <2>1. inProgress' \subseteq URLs \cup {NoURL}
    BY Zenon, <1>0, <1>3, <1>4 DEF FetcherTypeOK, AllJobs
  <2> QED
    BY Zenon, <1>0, <1>1, <1>3, <1>5, <2>1 DEF FetcherTypeOK, WorkerStates, Messages
<1>7. OnlyURLs'
  BY Zenon, <1>1, <1>3, <1>5 DEF OnlyURLs
<1>8. ASSUME NEW u \in URLs
      PROVE  /\ Jobs(u) \in Nat
             /\ Jobs(u)' = Jobs(u) + (IF new THEN One(job.url = u) ELSE 0)
  <2>1. /\ SentBack(u) \in Nat /\ Waiting(u) \in Nat /\ Pooled(u) \in Nat /\ AtWork(u) \in Nat
        /\ Jobs(u) = SentBack(u) + Waiting(u) + Pooled(u) + AtWork(u)
    BY Zenon, <1>0, JobsSum
  <2>2. /\ SentBack(u)' \in Nat /\ Waiting(u)' \in Nat /\ Pooled(u)' \in Nat /\ AtWork(u)' \in Nat
        /\ Jobs(u)' = SentBack(u)' + Waiting(u)' + Pooled(u)' + AtWork(u)'
    BY Zenon, <1>6, <1>7, SummedNext DEF Summed
  <2>3. One(job.url = u) \in Nat
    BY DEF One
  <2>4. One(back /\ job.url = u) = IF back THEN One(job.url = u) ELSE 0
    BY Zenon, <1>3 DEF One
  <2>5. SentBack(u) = SentBack(u)' + (IF back THEN One(job.url = u) ELSE 0)
    BY Zenon, <1>3, <2>4
  <2>6. Waiting(u)' + (Pooled(u)' + AtWork(u)')
          = Waiting(u) + (Pooled(u) + AtWork(u)) + (IF back \/ new THEN One(job.url = u) ELSE 0)
    BY Zenon, <1>5
  <2>7. CASE back
    BY <2>1, <2>2, <2>3, <2>5, <2>6, <2>7
  <2>8. CASE new
    <3>1. ~back
      BY <2>8
    <3>2. SentBack(u) = SentBack(u)'
      BY <3>1, <2>2, <2>5
    <3> HIDE DEF new
    <3>3. Waiting(u)' + (Pooled(u)' + AtWork(u)') = Waiting(u) + (Pooled(u) + AtWork(u)) + One(job.url = u)
      BY ZenonT(30), <2>6, <2>8
    <3> QED
      BY <2>1, <2>2, <2>3, <2>8, <3>2, <3>3
  <2>9. CASE ~back /\ ~new
    BY <2>1, <2>2, <2>3, <2>5, <2>6, <2>9
  <2> QED
    BY Zenon, <2>7, <2>8, <2>9
<1>9. Counted'
  <2>1. ASSUME NEW u \in URLs
        PROVE  /\ Jobs(u)' <= 1
               /\ Jobs(u)' = 1 => u \in inProgress' \ gaveUp'
               /\ stop' < 3 /\ u \in inProgress' \ gaveUp' => Jobs(u)' = 1
    <3>0. /\ gaveUp \subseteq inProgress /\ Jobs(u) <= 1
          /\ Jobs(u) = 1 => u \in inProgress \ gaveUp
          /\ stop < 3 /\ u \in inProgress \ gaveUp => Jobs(u) = 1
      BY Zenon, <1>0 DEF Counted
    <3>1. CASE new /\ job.url = u
      <4>1. u \notin inProgress /\ u \in inProgress' /\ u \notin gaveUp'
        BY Zenon, <1>1, <1>4, <3>0, <3>1 DEF IsNew
      <4>2. Jobs(u) = 0
        BY <1>8, <3>0, <4>1
      <4>3. One(job.url = u) = 1
        BY <3>1 DEF One
      <4>4. Jobs(u)' = 1
        BY <1>8, <3>1, <4>2, <4>3
      <4> QED
        BY <4>1, <4>4
    <3>2. CASE ~(new /\ job.url = u)
      <4>1. (IF new THEN One(job.url = u) ELSE 0) = 0
        BY <3>2 DEF One
      <4>2. Jobs(u)' = Jobs(u)
        BY <1>8, <4>1
      <4>3. u \in inProgress' \ gaveUp' <=> u \in inProgress \ gaveUp
        BY Zenon, <1>1, <1>4, <3>2
      <4> QED
        BY Zenon, <1>1, <3>0, <4>2, <4>3
    <3> QED
      BY Zenon, <3>1, <3>2
  <2>2. gaveUp' \subseteq inProgress'
    BY Zenon, <1>0, <1>1, <1>4 DEF Counted
  <2> QED
    BY Zenon, <2>1, <2>2 DEF Counted
<1> QED
  BY <1>6, <1>7, <1>9 DEF FetchInv

\* Every step of requests, loop, workers and Stop keeps the invariant.
LEMMA StepFetch == FetchInv /\ [FetcherNext]_fetcherVars => FetchInv'
<1> SUFFICES ASSUME FetchInv, [FetcherNext]_fetcherVars PROVE FetchInv'
  OBVIOUS
<1>1. CASE \E r \in Requests : SendMiss(r) \/ \E u \in URLs : Miss(r, u)
  BY Zenon, <1>1, RequestFetch
<1>2. CASE \/ \E us \in SUBSET Queued : Tick(us)
           \/ TickEnds \/ LoopEnds \/ Stop \/ UNCHANGED fetcherVars
  BY <1>2, ControlFetch
<1>3. CASE \E w \in PoolWorkers : Take(w) \/ SendBack(w) \/ \E result \in FetchResults : Fetched(w, result)
  BY Zenon, <1>3, TakeFetch, SendBackFetch, FetchedFetch
<1>4. CASE Receive
  BY <1>4, ReceiveFetch
<1>5. CASE PopDue
  BY <1>5, PopDueFetch
<1> QED
  BY Zenon, <1>1, <1>2, <1>3, <1>4, <1>5 DEF FetcherNext, Loop

\* Every variable of the fetcher keeps its type, and the channel and the pool
\* their limits (PriceFloorFetcher).
THEOREM FetcherTypeCorrect == FetcherSpec => []FetcherTypeOK
<1>1. FetchInv => FetcherTypeOK
  BY DEF FetchInv
<1> QED
  BY <1>1, InitFetch, StepFetch, PTL DEF FetcherSpec

\* A URL of the price floors has one job at a time, and none is lost: for any
\* number of URLs, requests, workers and retries (Fetcher, submit, worker).
THEOREM OneJobPerURLHolds == FetcherSpec => []OneJobPerURL
<1>1. FetchInv => OneJobPerURL
  BY Zenon DEF FetchInv, Counted, OneJobPerURL
<1> QED
  BY <1>1, InitFetch, StepFetch, PTL DEF FetcherSpec

-----------------------------------------------------------------------------
(* The composition of MCBackground: a step of one service is a stutter of  *)
(* the other.                                                              *)

\* The background services as they are model-checked run the fetcher of price
\* floors and the pubstack events as they are: what is proved of each of them,
\* its type invariant included, holds in the two together.
THEOREM BackgroundRunsParts == BackgroundSpec => FetcherSpec /\ ChannelSpec
<1>1. BackgroundInit => FetcherInit /\ ChannelInit
  BY Zenon DEF BackgroundInit
<1>2. [BackgroundNext]_backgroundVars => [FetcherNext]_fetcherVars /\ [ChannelNext]_channelVars
  BY Zenon DEF BackgroundNext, Fetching, Logging, backgroundVars
<1> QED
  BY <1>1, <1>2, PTL DEF BackgroundSpec, FetcherSpec, ChannelSpec
=============================================================================
