---------------------------- MODULE EvalJobProofs ----------------------------
(***************************************************************************)
(* Proofs about EvalJob for any number of jobs, workers, tasks, deliveries *)
(* and crashes and every set of faults: type correctness, that suites are  *)
(* in the database whole and at most once per delivery, that a result is   *)
(* backed by a committed suite, that a job has one holder and is delivered *)
(* again only when a node died, that a delivery runs out of steps, and     *)
(* that the job implements JobContract.                                    *)
(***************************************************************************)
EXTENDS EvalJob, DataLemmas

-----------------------------------------------------------------------------
(* The tasks of a suite. *)
(* Filtering a sequence keeps the elements in question, in their order. *)
LEMMA FilteredPicksOut ==
    ASSUME NEW V, NEW s \in Seq(V), NEW K
    PROVE  /\ Filtered(s, K) \in Seq(V)
           /\ \E at : PicksOut(at, Filtered(s, K), s, K, Len(s))
<1> DEFINE f == CHOOSE g : Selecting(g, s, K, Len(s))
<1>1. Len(s) \in Nat
  OBVIOUS
<1>2. Selecting(f, s, K, Len(s))
  BY <1>1, SelectingHasSolution
<1>3. Filtered(s, K) = f[Len(s)]
  BY DEF Filtered, Selecting
<1> HIDE DEF f
<1> QED
  BY <1>2, <1>3, SelectingPicksOut

LEMMA FilteredElements ==
    ASSUME NEW V, NEW s \in Seq(V), NEW K
    PROVE  /\ Filtered(s, K) \in Seq(V)
           /\ Range(Filtered(s, K)) = Range(s) \intersect K
           /\ IsInjective(s) => IsInjective(Filtered(s, K))
<1> DEFINE t == Filtered(s, K)
<1>1. t \in Seq(V)
  BY FilteredPicksOut
<1>2. PICK at : PicksOut(at, t, s, K, Len(s))
  BY FilteredPicksOut
<1> HIDE DEF t
<1>3. DOMAIN t = 1..Len(t) /\ DOMAIN s = 1..Len(s) /\ Len(t) \in Nat
  BY <1>1
<1>4. \A k \in DOMAIN t : at[k] \in DOMAIN s /\ s[at[k]] \in K /\ t[k] = s[at[k]]
  BY <1>2, <1>3 DEF PicksOut
<1>5. Range(t) = Range(s) \intersect K
  <2>1. \A i \in DOMAIN s : s[i] \in K => \E k \in DOMAIN t : t[k] = s[i]
    BY <1>2, <1>3 DEF PicksOut
  <2> QED
    BY <2>1, <1>4 DEF Range
<1>6. ASSUME IsInjective(s), NEW i \in DOMAIN t, NEW k \in DOMAIN t, t[i] = t[k]
      PROVE  i = k
  <2>1. at[i] = at[k] /\ at[i] \in Nat
    BY <1>3, <1>4, <1>6 DEF IsInjective
  <2>2. ~(i < k) /\ ~(k < i)
    BY <2>1, <1>2, <1>3 DEF PicksOut
  <2> QED
    BY <2>2, <1>3
<1>7. IsInjective(s) => IsInjective(t)
  BY <1>6 DEF IsInjective
<1> QED
  BY <1>1, <1>5, <1>7 DEF t

LEMMA FileType ==
    ASSUME NEW files \in Seq(Files), NEW i \in DOMAIN files
    PROVE  files[i].task \in TaskIds /\ files[i].task \in Known(files)
<1>1. files[i] \in Files
  OBVIOUS
<1> QED
  BY <1>1 DEF Files, Known

(* The registry has each task of its files once. *)
LEMMA ListsEachTaskOnce ==
    ASSUME NEW files \in Seq(Files)
    PROVE  /\ list_tasks(files) \in Seq(TaskIds)
           /\ Range(list_tasks(files)) = Known(files)
           /\ IsInjective(list_tasks(files))
<1> DEFINE places  == [i \in DOMAIN files |-> i]
           isFirst == {i \in DOMAIN files :
                          \A k \in 1..(i - 1) : files[k].task # files[i].task}
           firsts  == Filtered(places, isFirst)
           tasks   == [n \in DOMAIN firsts |-> files[firsts[n]].task]
<1>1. DOMAIN files = 1..Len(files) /\ Len(files) \in Nat
  OBVIOUS
<1>2. places \in Seq(DOMAIN files) /\ DOMAIN places = DOMAIN files
  BY <1>1
<1>3. IsInjective(places) /\ Range(places) = DOMAIN files
  BY DEF IsInjective, Range
<1> HIDE DEF isFirst, places
<1>4. firsts \in Seq(DOMAIN files) /\ Range(firsts) = isFirst /\ IsInjective(firsts)
  <2>1. Range(places) \intersect isFirst = isFirst
    BY <1>3 DEF isFirst
  <2>2. firsts = Filtered(places, isFirst)
    OBVIOUS
  <2> HIDE DEF firsts
  <2> DEFINE D == DOMAIN files
  <2>3. places \in Seq(D)
    BY <1>2
  <2> HIDE DEF D
  <2>4. firsts \in Seq(D) /\ Range(firsts) = isFirst /\ IsInjective(firsts)
    BY <2>1, <2>2, <2>3, <1>3, FilteredElements
  <2> QED
    BY <2>4 DEF D
<1> HIDE DEF firsts
<1>5. tasks \in Seq(TaskIds)
  <2>1. \A n \in DOMAIN firsts : tasks[n] \in TaskIds
    BY <1>4, FileType
  <2>2. DOMAIN firsts = 1..Len(firsts) /\ Len(firsts) \in Nat
    BY <1>4
  <2> QED
    BY <2>1, <2>2
<1>6. Range(tasks) = Known(files)
  <2>1. \A n \in DOMAIN tasks : tasks[n] \in Known(files)
    BY <1>4, FileType
  <2>2. ASSUME NEW i \in DOMAIN files PROVE \E n \in DOMAIN tasks : tasks[n] = files[i].task
    <3> DEFINE S == {k \in DOMAIN files : files[k].task = files[i].task}
    <3>1. S \in SUBSET Nat /\ S # {}
      BY <1>1
    <3>2. PICK x \in S : \A y \in S : x <= y
      BY <3>1, LeastNatural
    <3>3. x \in isFirst
      BY <3>2, <1>1 DEF isFirst
    <3>4. PICK n \in DOMAIN firsts : firsts[n] = x
      BY <3>3, <1>4 DEF Range
    <3> QED
      BY <3>2, <3>4
  <2> QED
    BY <2>1, <2>2 DEF Known, Range
<1>7. ASSUME NEW i \in DOMAIN tasks, NEW k \in DOMAIN tasks, tasks[i] = tasks[k]
      PROVE  i = k
  <2>1. firsts[i] \in isFirst /\ firsts[k] \in isFirst
    BY <1>4 DEF Range
  <2>2. /\ firsts[i] \in 1..Len(files) /\ firsts[k] \in 1..Len(files)
        /\ ~(firsts[i] < firsts[k]) /\ ~(firsts[k] < firsts[i])
    BY <2>1, <1>1, <1>7 DEF isFirst
  <2>3. firsts[i] = firsts[k]
    BY <2>2, <1>1
  <2> QED
    BY <2>3, <1>4 DEF IsInjective
<1>8. IsInjective(tasks)
  BY <1>7 DEF IsInjective
<1>9. list_tasks(files) = tasks
  BY DEF list_tasks, firsts, places, isFirst
<1> HIDE DEF tasks
<1> QED
  BY <1>5, <1>6, <1>8, <1>9

(* ... by the file of it that counts. *)
LEMMA GetsTheCurrentFile ==
    ASSUME NEW files \in Seq(Files), NEW t \in Known(files)
    PROVE  \E i \in Current(files) :
              /\ files[i].task = t /\ get_task(files, t) = files[i]
              /\ \A k \in Current(files) : files[k].task = t => k = i
<1> DEFINE S == {i \in DOMAIN files : files[i].task = t}
           Last(i) == /\ files[i].task = t
                      /\ \A k \in DOMAIN files : files[k].task = t => k <= i
<1>1. DOMAIN files = 1..Len(files) /\ Len(files) \in Nat
  OBVIOUS
<1>2. S \in SUBSET (1..Len(files)) /\ S # {}
  BY <1>1 DEF Known
<1>3. PICK x \in S : \A y \in S : y <= x
  BY <1>1, <1>2, GreatestNatural
<1>4. x \in DOMAIN files /\ Last(x)
  BY <1>3
<1>5. \A i \in DOMAIN files : Last(i) => i = x
  BY <1>1, <1>4
<1>6. get_task(files, t) = files[x]
  BY <1>4, <1>5 DEF get_task
<1>7. x \in Current(files)
  BY <1>1, <1>4 DEF Current
<1>8. \A k \in Current(files) : files[k].task = t => k = x
  BY <1>1, <1>4, <1>7 DEF Current
<1> QED
  BY <1>4, <1>6, <1>7, <1>8

(* "all" selects each task of the category once, by its current file. *)
LEMMA OfCategoryAnswers ==
    ASSUME NEW files \in Seq(Files), NEW category
    PROVE  /\ OfCategory(files, category) \in Seq(TaskIds)
           /\ AnswersAll(OfCategory(files, category), files, category)
<1> DEFINE K == {t \in Known(files) :
                    category \in {NoCategory, get_task(files, t).category}}
           selected == OfCategory(files, category)
<1>1. /\ list_tasks(files) \in Seq(TaskIds)
      /\ Range(list_tasks(files)) = Known(files) /\ IsInjective(list_tasks(files))
  BY ListsEachTaskOnce
<1>2. selected = Filtered(list_tasks(files), K)
  BY DEF OfCategory
<1> HIDE DEF K, selected
<1>3. /\ selected \in Seq(TaskIds)
      /\ Range(selected) = Known(files) \intersect K
      /\ IsInjective(selected)
  BY <1>1, <1>2, FilteredElements
<1>4. K = {files[i].task : i \in {n \in Current(files) :
                                       category \in {NoCategory, files[n].category}}}
  <2>1. \A i \in Current(files) : i \in DOMAIN files /\ files[i].task \in Known(files)
    BY DEF Current, Known
  <2>2. ASSUME NEW t \in Known(files)
        PROVE  \E i \in Current(files) :
                  /\ files[i].task = t /\ get_task(files, t) = files[i]
                  /\ \A k \in Current(files) : files[k].task = t => k = i
    BY GetsTheCurrentFile
  <2>3. ASSUME NEW i \in Current(files)
        PROVE  get_task(files, files[i].task) = files[i]
    BY <2>1, <2>2
  <2>4. ASSUME NEW t \in K PROVE t \in Known(files) /\ category \in {NoCategory, get_task(files, t).category}
    BY DEF K
  <2>5. ASSUME NEW i \in Current(files), category \in {NoCategory, files[i].category}
        PROVE  files[i].task \in K
    BY <2>1, <2>3, <2>5 DEF K
  <2>6. ASSUME NEW t \in K
        PROVE  \E i \in Current(files) :
                  files[i].task = t /\ category \in {NoCategory, files[i].category}
    BY <2>2, <2>4
  <2> QED
    BY <2>5, <2>6
<1>5. Known(files) \intersect K = K
  BY DEF K
<1>6. AnswersAll(selected, files, category)
  BY <1>3, <1>4, <1>5 DEF AnswersAll, Range, IsInjective
<1> QED
  BY <1>3, <1>6 DEF selected

(* A list of ids selects those that are known. *)
LEMMA ByIdsAnswers ==
    ASSUME NEW files \in Seq(Files), NEW ids \in Seq(TaskIds \union {All})
    PROVE  /\ ByIds(files, ids) \in Seq(TaskIds)
           /\ AnswersIds(ByIds(files, ids), files, ids)
<1> DEFINE t == ByIds(files, ids)
<1>1. t = Filtered(ids, Known(files))
  BY DEF ByIds
<1>2. PICK at : PicksOut(at, t, ids, Known(files), Len(ids))
  BY <1>1, FilteredPicksOut
<1>3. t \in Seq(TaskIds \union {All})
  BY <1>1, FilteredPicksOut
<1> HIDE DEF t
<1>4. /\ DOMAIN t = 1..Len(t) /\ Len(t) \in Nat
      /\ DOMAIN ids = 1..Len(ids)
  BY <1>3
<1>5. Known(files) \subseteq TaskIds
  BY FileType DEF Known
<1>6. \A k \in 1..Len(t) : t[k] \in TaskIds
  BY <1>2, <1>5 DEF PicksOut
<1>7. t \in Seq(TaskIds)
  <2>1. t = [i \in 1..Len(t) |-> t[i]]
    BY <1>3
  <2> QED
    BY <1>4, <1>6, <2>1
<1> DEFINE known == {i \in DOMAIN ids : \E k \in DOMAIN files : files[k].task = ids[i]}
<1>8. known = {i \in 1..Len(ids) : ids[i] \in Known(files)}
  BY <1>4 DEF Known
<1>9. /\ at \in [DOMAIN t -> known]
      /\ \A i, k \in DOMAIN t : i < k => at[i] < at[k]
      /\ {at[i] : i \in DOMAIN t} = known
      /\ \A i \in DOMAIN t : t[i] = ids[at[i]]
  <2> HIDE DEF known
  <2> QED
    BY <1>2, <1>4, <1>8 DEF PicksOut
<1> HIDE DEF known
<1>10. AnswersIds(t, files, ids)
  BY <1>9 DEF AnswersIds, known
<1> QED
  BY <1>7, <1>10 DEF t

(* The tasks of run_suite are what the request means. *)
LEMMA SelectionAnswers ==
    ASSUME NEW files \in Seq(Files), NEW request \in Requests
    PROVE  /\ Selected(files, request) \in Seq(TaskIds)
           /\ Answers(Selected(files, request), files, request)
<1>1. request.ids \in Seq(TaskIds \union {All})
  BY DEF Requests
<1> QED
  BY <1>1, OfCategoryAnswers, ByIdsAnswers DEF Selected, Answers
-----------------------------------------------------------------------------
USE DEF history

Over == {"publish", "succeeded", "failed"}

GradedRows(rows) == \A i \in DOMAIN rows : rows[i].scored => rows[i].status = "PASS"

Taken(j) == msg[j] \notin {"absent", "refused"}

(* The rows so far are those of the first tasks, in order. *)
Follows(rows, tasks) ==
    Len(rows) <= Len(tasks) /\ \A i \in 1..Len(rows) : rows[i].task = tasks[i]

Chosen(tasks, j) ==
    \E chosen \in Libraries : Loads(chosen) /\ tasks = Selected(chosen, asked[j])

(* From its session on an execution runs one selection, and from the judge loop
   on it has run all of it. *)
Coherent(e) ==
    /\ GradedRows(e.rows)
    /\ e.stage \in {"tasks", "judge", "publish"} =>
          Chosen(e.tasks, e.job) /\ Follows(e.rows, e.tasks)
    /\ e.stage \in {"judge", "publish"} => Len(e.rows) = Len(e.tasks)
    /\ e.stage = "open" => e.rows = <<>>

(* An execution belongs to a delivery that happened; from the commit on its
   suite is in the database. *)
GoodExecution(e) ==
    /\ Taken(e.job)
    /\ e.attempt \in 1..deliveries[e.job]
    /\ Coherent(e)
    /\ e.stage = "publish" => Suite(e) \in committed

ExecInv == \A w \in Workers : exec[w] # Idle => GoodExecution(exec[w])

(* No two processes hold the same delivery, although they may hold the same
   job. *)
AttemptInv ==
    \A v, w \in Workers :
        exec[v] # Idle /\ exec[w] # Idle /\ exec[v].job = exec[w].job
           /\ exec[v].attempt = exec[w].attempt => v = w

(* A committed suite is one selection, belongs to a delivery that happened, and
   the execution that committed it, if it still runs, is past its commit. *)
CommittedInv ==
    \A c \in committed :
        /\ Taken(c.job)
        /\ c.attempt \in 1..deliveries[c.job]
        /\ Chosen(TasksOf(c.rows), c.job)
        /\ GradedRows(c.rows)
        /\ \A w \in Workers :
              exec[w] # Idle /\ exec[w].job = c.job /\ exec[w].attempt = c.attempt
                 => exec[w].stage \in Over

Inv == /\ TypeOK
       /\ ExecInv
       /\ AttemptInv
       /\ CommittedInv
       /\ OneSuitePerDelivery
       /\ ResultIsCommitted

(* What is busy holds a typed execution. *)
LEMMA BusyExecution ==
    ASSUME TypeOK, NEW w \in Workers, exec[w] # Idle
    PROVE  exec[w] \in Executions
  BY DEF TypeOK

LEMMA IdleIsNoStage == Idle.stage \notin Stages
  BY DEF Idle, Stages

LEMMA StageIsBusy ==
    ASSUME TypeOK, NEW w \in Workers, exec[w].stage \in Stages
    PROVE  exec[w] # Idle /\ exec[w] \in Executions
  BY BusyExecution, IdleIsNoStage

LEMMA ExecutionIsBusy == ASSUME NEW e \in Executions PROVE e # Idle
  BY IdleIsNoStage DEF Executions

(* The result of a suite has the type of a result, and is one. *)
LEMMA SummaryType == ASSUME NEW rows \in Seq(Rows)
                     PROVE  Summary(rows) \in Results /\ Summary(rows) # NoResult
<1>1. Len(rows) \in Nat /\ DOMAIN rows = 1..Len(rows)
  OBVIOUS
<1>2. IsFiniteSet(1..Len(rows))
  BY <1>1, FS_Interval
<1>3. IsFiniteSet({i \in DOMAIN rows : rows[i].status = "PASS"})
  BY <1>1, <1>2, FS_Subset
<1>4. Passed(rows) \in Nat
  BY <1>3, FS_CardinalityType DEF Passed
<1> QED
  BY <1>1, <1>4 DEF Summary, Results, NoResult

(* What was asked for is a request, also when nobody asked yet. *)
LEMMA RequestType == ASSUME TypeOK, NEW j \in Jobs PROVE asked[j] \in Requests
<1>1. NoRequest \in Requests
  <2>1. <<>> \in Seq(TaskIds \union {All})
    OBVIOUS
  <2> QED
    BY <2>1 DEF NoRequest, Requests
<1> QED
  BY <1>1, ConstantsAssumption DEF TypeOK

(* The forms an execution may take in one step of its worker: types, and what
   they keep. *)
LEMMA AtType ==
    ASSUME NEW e \in Executions, NEW s \in Stages
    PROVE  /\ At(e, s) \in Executions
           /\ At(e, s).job = e.job /\ At(e, s).attempt = e.attempt
           /\ At(e, s).rows = e.rows /\ At(e, s).tasks = e.tasks
           /\ At(e, s).stage = s
  BY DEF Executions, At

LEMMA AbortedType ==
    ASSUME NEW e \in Executions
    PROVE  /\ Aborted(e) \in Executions
           /\ Aborted(e).job = e.job /\ Aborted(e).attempt = e.attempt
           /\ Aborted(e).rows = <<>> /\ Aborted(e).stage = "failed"
<1>1. <<>> \in Seq(Rows) /\ <<>> \in Seq(TaskIds) /\ "failed" \in Stages
  BY DEF Stages
<1> QED
  BY <1>1 DEF Executions, Aborted

LEMMA JudgedType ==
    ASSUME NEW e \in Executions
    PROVE  /\ Judged(e) \in Executions
           /\ Judged(e).job = e.job /\ Judged(e).attempt = e.attempt
           /\ Judged(e).rows = e.rows /\ Judged(e).tasks = e.tasks
           /\ Judged(e).stage = e.stage
  BY DEF Executions, Judged

LEMMA RanTaskType ==
    ASSUME NEW e \in Executions, NEW s \in {"PASS", "ERROR"},
           GradedRows(e.rows), Follows(e.rows, e.tasks), Len(e.rows) < Len(e.tasks)
    PROVE  /\ RanTask(e, s) \in Executions
           /\ RanTask(e, s).job = e.job /\ RanTask(e, s).attempt = e.attempt
           /\ RanTask(e, s).stage = e.stage /\ RanTask(e, s).tasks = e.tasks
           /\ GradedRows(RanTask(e, s).rows)
           /\ Follows(RanTask(e, s).rows, e.tasks)
<1> DEFINE row  == NewRow(e, s)
           rows == Append(e.rows, row)
<1>1. e.rows \in Seq(Rows) /\ e.tasks \in Seq(TaskIds)
  BY DEF Executions
<1>2. /\ Len(e.rows) \in Nat /\ Len(e.tasks) \in Nat
      /\ Len(e.rows) + 1 \in 1..Len(e.tasks)
  BY <1>1
<1>3. row \in Rows /\ ~row.scored /\ row.task = e.tasks[Len(e.rows) + 1]
  BY <1>1, <1>2 DEF NewRow, Rows
<1> HIDE DEF row
<1>4. rows \in Seq(Rows) /\ Len(rows) = Len(e.rows) + 1
  BY <1>1, <1>3
<1>5. /\ rows[Len(e.rows) + 1] = row
      /\ \A i \in 1..Len(e.rows) : rows[i] = e.rows[i]
      /\ DOMAIN rows = 1..(Len(e.rows) + 1) /\ DOMAIN e.rows = 1..Len(e.rows)
  BY <1>1, <1>3, <1>4
<1> HIDE DEF rows
<1>6. GradedRows(rows)
  <2> SUFFICES ASSUME NEW i \in DOMAIN rows, rows[i].scored PROVE rows[i].status = "PASS"
    BY DEF GradedRows
  <2>1. i \in DOMAIN e.rows /\ rows[i] = e.rows[i]
    BY <1>2, <1>3, <1>5
  <2> QED
    BY <2>1 DEF GradedRows
<1>7. Follows(rows, e.tasks)
  <2>1. ASSUME NEW i \in 1..Len(rows) PROVE rows[i].task = e.tasks[i]
    <3>1. i \in 1..Len(e.rows) \/ i = Len(e.rows) + 1
      BY <1>2, <1>4
    <3> QED
      BY <3>1, <1>3, <1>5 DEF Follows
  <2> QED
    BY <2>1, <1>2, <1>4 DEF Follows
<1>8. RanTask(e, s) = [e EXCEPT !.rows = rows]
  BY DEF RanTask, rows, row
<1> QED
  BY <1>4, <1>6, <1>7, <1>8 DEF Executions

LEMMA ScoredType ==
    ASSUME NEW e \in Executions, GradedRows(e.rows), e.judged < Len(e.rows),
           Follows(e.rows, e.tasks), e.rows[e.judged + 1].status = "PASS"
    PROVE  /\ Scored(e) \in Executions
           /\ Scored(e).job = e.job /\ Scored(e).attempt = e.attempt
           /\ Scored(e).stage = e.stage /\ Scored(e).tasks = e.tasks
           /\ GradedRows(Scored(e).rows) /\ Len(Scored(e).rows) = Len(e.rows)
           /\ Follows(Scored(e).rows, e.tasks)
<1> DEFINE k    == e.judged + 1
           row  == [e.rows[k] EXCEPT !.scored = TRUE]
           rows == [e.rows EXCEPT ![k] = row]
<1>1. e.rows \in Seq(Rows) /\ e.judged \in Nat
  BY DEF Executions
<1>2. Len(e.rows) \in Nat /\ DOMAIN e.rows = 1..Len(e.rows)
  BY <1>1
<1>3. k \in DOMAIN e.rows /\ k \in Nat
  BY <1>1, <1>2
<1>4. row \in Rows /\ row.status = e.rows[k].status /\ row.task = e.rows[k].task
  <2>1. e.rows[k] \in Rows
    BY <1>1, <1>3
  <2> QED
    BY <2>1 DEF Rows
<1>5. rows \in Seq(Rows) /\ Len(rows) = Len(e.rows)
  BY <1>1, <1>3, <1>4
<1>6. /\ rows[k] = row /\ DOMAIN rows = DOMAIN e.rows
      /\ \A i \in DOMAIN e.rows : i # k => rows[i] = e.rows[i]
  BY <1>1, <1>3
<1>7. Scored(e) = [e EXCEPT !.judged = k, !.rows = rows]
  BY DEF Scored
<1> HIDE DEF rows, row, k
<1>8. GradedRows(rows)
  BY <1>4, <1>6 DEF GradedRows, k
<1>9. Follows(rows, e.tasks)
  BY <1>2, <1>4, <1>5, <1>6 DEF Follows
<1> QED
  BY <1>3, <1>5, <1>7, <1>8, <1>9 DEF Executions

-----------------------------------------------------------------------------
(* The broker, the API and the executions: type correctness. *)
LEMMA InitInv == Init => Inv
<1> SUFFICES ASSUME Init PROVE Inv
  OBVIOUS
<1> USE ConstantsAssumption DEF Init
<1>1. TypeOK
  <2>1. NoResult \in Results
    BY DEF NoResult, Results
  <2> QED
    BY <2>1 DEF TypeOK, Messages
<1>2. ExecInv /\ AttemptInv /\ CommittedInv
  BY DEF ExecInv, AttemptInv, CommittedInv
<1>3. OneSuitePerDelivery /\ ResultIsCommitted
  BY DEF OneSuitePerDelivery, ResultIsCommitted
<1> QED
  BY <1>1, <1>2, <1>3 DEF Inv

(* A worker's step that leaves the database alone keeps the invariant about
   executions and suites. *)
LEMMA MoveKeeps ==
    ASSUME Inv, NEW w \in Workers, exec[w] \in Executions,
           NEW e \in Executions, e.job = exec[w].job, e.attempt = exec[w].attempt,
           Move(w, e), UNCHANGED <<library, asked, msg, deliveries>>,
           Coherent(e),
           e.stage = "publish" => Suite(e) \in committed,
           exec[w].stage \in Over => e.stage \in Over
    PROVE  /\ exec' \in [Workers -> Executions \union {Idle}]
           /\ ExecInv' /\ AttemptInv' /\ CommittedInv' /\ OneSuitePerDelivery'
<1> USE DEF Inv, Move
<1>1. exec \in [Workers -> Executions \union {Idle}]
  BY DEF TypeOK
<1>2. exec[w] # Idle /\ e # Idle
  BY ExecutionIsBusy
<1>3. exec'[w] = e /\ \A v \in Workers \ {w} : exec'[v] = exec[v]
  BY <1>1
<1>4. exec' \in [Workers -> Executions \union {Idle}]
  BY <1>1
<1>5. GoodExecution(exec[w])
  BY <1>2 DEF ExecInv
<1>6. GoodExecution(e)'
  BY <1>5 DEF GoodExecution, Suite, Taken, Coherent, Chosen
<1>7. ExecInv'
  <2> SUFFICES ASSUME NEW v \in Workers, exec'[v] # Idle PROVE GoodExecution(exec[v])'
    BY DEF ExecInv
  <2>1. CASE v = w
    BY <2>1, <1>3, <1>6 DEF GoodExecution, Suite, Taken, Coherent, Chosen
  <2>2. CASE v # w
    BY <2>2, <1>3 DEF ExecInv, GoodExecution, Suite, Taken, Coherent, Chosen
  <2> QED
    BY <2>1, <2>2
<1>8. AttemptInv'
  BY <1>2, <1>3 DEF AttemptInv
<1>9. CommittedInv'
  <2> SUFFICES ASSUME NEW c \in committed, NEW v \in Workers, exec'[v] # Idle,
                      exec'[v].job = c.job, exec'[v].attempt = c.attempt
               PROVE  exec'[v].stage \in Over
    BY DEF CommittedInv, Taken, Chosen
  <2>1. CASE v = w
    BY <2>1, <1>2, <1>3 DEF CommittedInv
  <2>2. CASE v # w
    BY <2>2, <1>3 DEF CommittedInv
  <2> QED
    BY <2>1, <2>2
<1>10. OneSuitePerDelivery'
  BY DEF OneSuitePerDelivery
<1> QED
  BY <1>4, <1>7, <1>8, <1>9, <1>10

(* What a step must show of executions and suites. *)
Kept == /\ exec' \in [Workers -> Executions \union {Idle}]
        /\ ExecInv' /\ AttemptInv' /\ CommittedInv' /\ OneSuitePerDelivery'

LEMMA AbortKeeps ==
    ASSUME Inv, NEW w \in Workers, exec[w] \in Executions, Abort(w),
           UNCHANGED <<library, asked, msg, deliveries>>
    PROVE  Kept
<1> DEFINE e == Aborted(exec[w])
<1>1. /\ e \in Executions
      /\ e.job = exec[w].job /\ e.attempt = exec[w].attempt
      /\ e.rows = <<>> /\ e.stage = "failed"
  BY AbortedType
<1>2. Coherent(e)
  BY <1>1 DEF GradedRows, Coherent
<1>3. Move(w, e)
  BY DEF Abort
<1> HIDE DEF e
<1> QED
  BY <1>1, <1>2, <1>3, MoveKeeps DEF Kept, Over

LEMMA AtKeeps ==
    ASSUME Inv, NEW w \in Workers, exec[w] \in Executions, NEW s \in Stages,
           Move(w, At(exec[w], s)), UNCHANGED <<library, asked, msg, deliveries>>,
           s = "judge" => /\ exec[w].stage = "tasks"
                          /\ Len(exec[w].rows) = Len(exec[w].tasks),
           s \notin {"open", "tasks", "publish"},
           exec[w].stage \in Over => s \in Over
    PROVE  Kept
<1> DEFINE e == At(exec[w], s)
<1>1. /\ e \in Executions
      /\ e.job = exec[w].job /\ e.attempt = exec[w].attempt
      /\ e.rows = exec[w].rows /\ e.tasks = exec[w].tasks /\ e.stage = s
  BY AtType
<1>2. Coherent(e)
  <2>1. Coherent(exec[w])
    BY ExecutionIsBusy DEF Inv, ExecInv, GoodExecution
  <2> HIDE DEF e
  <2> QED
    BY <1>1, <2>1 DEF Coherent
<1> HIDE DEF e
<1> QED
  BY <1>1, <1>2, MoveKeeps DEF Kept, e

LEMMA JudgedKeeps ==
    ASSUME Inv, NEW w \in Workers, exec[w] \in Executions, Busy(w, "judge"),
           Move(w, Judged(exec[w])), UNCHANGED <<library, asked, msg, deliveries>>
    PROVE  Kept
<1> DEFINE e == Judged(exec[w])
<1>1. /\ e \in Executions
      /\ e.job = exec[w].job /\ e.attempt = exec[w].attempt
      /\ e.rows = exec[w].rows /\ e.tasks = exec[w].tasks /\ e.stage = exec[w].stage
  BY JudgedType
<1>2. Coherent(e)
  <2>1. Coherent(exec[w])
    BY ExecutionIsBusy DEF Inv, ExecInv, GoodExecution
  <2> HIDE DEF e
  <2> QED
    BY <1>1, <2>1 DEF Coherent
<1> HIDE DEF e
<1> QED
  BY <1>1, <1>2, MoveKeeps DEF Kept, Busy, e

LEMMA OpenKeeps ==
    ASSUME Inv, NEW w \in Workers, exec[w] \in Executions, OpenSession(w)
    PROVE  Kept
<1> DEFINE tasks == Selected(library, asked[exec[w].job])
           e     == [At(exec[w], "tasks") EXCEPT !.tasks = tasks]
<1>1. exec[w] # Idle /\ exec[w].job \in Jobs
  BY ExecutionIsBusy DEF Executions
<1>2. GoodExecution(exec[w])
  BY <1>1 DEF Inv, ExecInv
<1>3. /\ exec[w].stage = "open" /\ Loads(library) /\ Move(w, e)
      /\ UNCHANGED <<library, asked, msg, deliveries>>
  BY DEF OpenSession, Busy
<1>4. tasks \in Seq(TaskIds) /\ Chosen(tasks, exec[w].job)
  <2>1. library \in Libraries /\ library \in Seq(Files)
    BY ConstantsAssumption DEF Inv, TypeOK
  <2>2. asked[exec[w].job] \in Requests
    BY <1>1, RequestType DEF Inv
  <2> QED
    BY <2>1, <2>2, <1>3, SelectionAnswers DEF Chosen
<1>5. exec[w].rows = <<>>
  BY <1>2, <1>3 DEF GoodExecution, Coherent
<1>6. /\ e \in Executions
      /\ e.job = exec[w].job /\ e.attempt = exec[w].attempt
      /\ e.rows = <<>> /\ e.tasks = tasks /\ e.stage = "tasks"
  BY <1>4, <1>5 DEF Executions, At, Stages
<1> HIDE DEF e, tasks
<1>7. Coherent(e)
  BY <1>4, <1>6 DEF Coherent, GradedRows, Follows
<1> QED
  BY <1>3, <1>6, <1>7, MoveKeeps DEF Kept, Over

(* The steps of a worker that leave the database alone. *)
LEMMA WorkerKeeps ==
    ASSUME Inv, NEW w \in Workers, WorkerStep(w), ~Commit(w), ~Ack(w)
    PROVE  Kept
<1>0. exec[w] \in Executions
  <2>1. exec[w].stage \in Stages
    BY DEF WorkerStep, OpenSession, ConnectFails, LibraryRaises, RunTask, TaskRaises, TasksDone, JudgeRun, Commit,
       CommitFails, Publish, PublishFails, SuiteJudged, Stages, Busy
  <2> QED
    BY <2>1, StageIsBusy DEF Inv
<1> USE <1>0
<1>1. GoodExecution(exec[w])
  BY ExecutionIsBusy DEF Inv, ExecInv
<1>2. CASE OpenSession(w) \/ ConnectFails(w) \/ LibraryRaises(w)
  BY <1>2, OpenKeeps, AbortKeeps DEF ConnectFails, LibraryRaises
<1>3. CASE RunTask(w)
  <2>1. PICK s \in {"PASS", "ERROR"} : Move(w, RanTask(exec[w], s))
    BY <1>3 DEF RunTask
  <2> DEFINE e == RanTask(exec[w], s)
  <2>2. /\ e \in Executions
        /\ e.job = exec[w].job /\ e.attempt = exec[w].attempt
        /\ e.stage = exec[w].stage /\ e.tasks = exec[w].tasks
        /\ GradedRows(e.rows) /\ Follows(e.rows, e.tasks)
    BY <1>1, <1>3, RanTaskType DEF GoodExecution, Coherent, RunTask, Busy
  <2>3. exec[w].stage = "tasks" /\ UNCHANGED <<library, asked, msg, deliveries>>
    BY <1>3 DEF RunTask, Busy
  <2> HIDE DEF e
  <2>4. Coherent(e)
    BY <1>1, <2>2, <2>3 DEF GoodExecution, Coherent
  <2> QED
    BY <2>1, <2>2, <2>3, <2>4, MoveKeeps DEF Kept, e, Over
<1>4. CASE TaskRaises(w)
  BY <1>4, AbortKeeps DEF TaskRaises
<1>5. CASE TasksDone(w)
  BY <1>5, AtKeeps DEF TasksDone, Busy, Over, Stages
<1>6. CASE JudgeRun(w)
  <2>1. CASE Move(w, Judged(exec[w]))
    BY <1>6, <2>1, JudgedKeeps DEF JudgeRun
  <2>2. CASE Abort(w)
    BY <1>6, <2>2, AbortKeeps DEF JudgeRun
  <2>3. CASE /\ Move(w, Scored(exec[w]))
             /\ exec[w].rows[exec[w].judged + 1].status = "PASS"
    <3> DEFINE e == Scored(exec[w])
    <3>1. /\ exec[w].stage = "judge" /\ exec[w].judged < Len(exec[w].rows)
          /\ UNCHANGED <<library, asked, msg, deliveries>>
      BY <1>6 DEF JudgeRun, Busy
    <3>2. /\ e \in Executions
          /\ e.job = exec[w].job /\ e.attempt = exec[w].attempt
          /\ e.stage = exec[w].stage /\ e.tasks = exec[w].tasks
          /\ GradedRows(e.rows) /\ Follows(e.rows, e.tasks)
          /\ Len(e.rows) = Len(exec[w].rows)
      BY <1>1, <2>3, <3>1, ScoredType DEF GoodExecution, Coherent
    <3> HIDE DEF e
    <3>3. Coherent(e)
      BY <1>1, <3>1, <3>2 DEF GoodExecution, Coherent
    <3> QED
      BY <2>3, <3>1, <3>2, <3>3, MoveKeeps DEF Kept, e, Over
  <2> QED
    BY <1>6, <2>1, <2>2, <2>3 DEF JudgeRun
<1>7. CASE CommitFails(w)
  BY <1>7, AbortKeeps DEF CommitFails
<1>8. CASE Publish(w)
  BY <1>8, AtKeeps DEF Publish, Busy, Over, Stages
<1>9. CASE PublishFails(w)
  BY <1>9, AtKeeps DEF PublishFails, Busy, Over, Stages
<1> QED
  BY <1>2, <1>3, <1>4, <1>5, <1>6, <1>7, <1>8, <1>9 DEF WorkerStep

(* The commit adds a suite that no other execution and no other suite of the
   database shares its delivery with. *)
LEMMA CommitKeeps ==
    ASSUME Inv, NEW w \in Workers, Commit(w)
    PROVE  Kept /\ committed' \in SUBSET Committed
<1> DEFINE e == At(exec[w], "publish")
           c0 == Suite(exec[w])
<1>1. exec[w].stage = "judge" /\ exec[w] # Idle /\ exec[w] \in Executions
  BY StageIsBusy DEF Commit, SuiteJudged, Busy, Stages, Inv
<1>2. /\ committed' = committed \union {c0}
      /\ exec' = [exec EXCEPT ![w] = e]
      /\ UNCHANGED <<library, asked, msg, deliveries>>
  BY DEF Commit
<1>3. /\ e \in Executions /\ e # Idle
      /\ e.job = exec[w].job /\ e.attempt = exec[w].attempt
      /\ e.rows = exec[w].rows /\ e.tasks = exec[w].tasks /\ e.stage = "publish"
  BY <1>1, AtType, ExecutionIsBusy DEF Stages
<1>4. GoodExecution(exec[w])
  BY <1>1 DEF Inv, ExecInv
<1>5. /\ c0.job = exec[w].job /\ c0.attempt = exec[w].attempt
      /\ c0.rows = exec[w].rows /\ c0 \in Committed
  BY <1>1 DEF Suite, Executions, Committed
<1>6. exec \in [Workers -> Executions \union {Idle}] /\ committed \in SUBSET Committed
  BY DEF Inv, TypeOK
<1>7. Suite(e) = c0
  BY <1>3 DEF Suite
<1> HIDE DEF e, c0
<1>14. Chosen(TasksOf(c0.rows), c0.job)
  <2>1. /\ Chosen(exec[w].tasks, exec[w].job) /\ Follows(exec[w].rows, exec[w].tasks)
        /\ Len(exec[w].rows) = Len(exec[w].tasks)
    BY <1>1, <1>4 DEF GoodExecution, Coherent
  <2>2. exec[w].rows \in Seq(Rows) /\ exec[w].tasks \in Seq(TaskIds)
    BY <1>1 DEF Executions
  <2>3. TasksOf(exec[w].rows) = exec[w].tasks
    BY <2>1, <2>2 DEF TasksOf, Follows
  <2> QED
    BY <1>5, <2>1, <2>3
<1>8. exec'[w] = e /\ \A v \in Workers \ {w} : exec'[v] = exec[v]
  BY <1>2, <1>6
<1>9. exec' \in [Workers -> Executions \union {Idle}] /\ committed' \in SUBSET Committed
  BY <1>2, <1>3, <1>5, <1>6
<1>10. ExecInv'
  <2> SUFFICES ASSUME NEW v \in Workers, exec'[v] # Idle PROVE GoodExecution(exec[v])'
    BY DEF ExecInv
  <2>1. CASE v = w
    <3>1. exec'[v] = e /\ Suite(exec[v])' = c0
      BY <2>1, <1>3, <1>5, <1>8 DEF Suite, c0
    <3>2. c0 \in committed'
      BY <1>2
    <3> QED
      BY <3>1, <3>2, <1>1, <1>2, <1>3, <1>4 DEF GoodExecution, Taken, Coherent, Chosen
  <2>2. CASE v # w
    <3>1. exec'[v] = exec[v] /\ GoodExecution(exec[v])
      BY <2>2, <1>8 DEF Inv, ExecInv
    <3> QED
      BY <3>1, <1>2 DEF GoodExecution, Suite, Taken, Coherent, Chosen
  <2> QED
    BY <2>1, <2>2
<1>11. AttemptInv'
  BY <1>1, <1>3, <1>8 DEF Inv, AttemptInv
<1>12. CommittedInv'
  <2> SUFFICES ASSUME NEW c \in committed'
               PROVE  /\ Taken(c.job) /\ c.attempt \in 1..deliveries[c.job]
                      /\ Chosen(TasksOf(c.rows), c.job) /\ GradedRows(c.rows)
                      /\ \A v \in Workers :
                            exec'[v] # Idle /\ exec'[v].job = c.job
                               /\ exec'[v].attempt = c.attempt => exec'[v].stage \in Over
    BY <1>2 DEF CommittedInv, Taken, Chosen
  <2>1. CASE c = c0
    <3>1. /\ Taken(c.job) /\ c.attempt \in 1..deliveries[c.job]
          /\ Chosen(TasksOf(c.rows), c.job) /\ GradedRows(c.rows)
      BY <2>1, <1>1, <1>4, <1>5, <1>14 DEF GoodExecution, Coherent
    <3>2. ASSUME NEW v \in Workers, exec'[v] # Idle, exec'[v].job = c.job,
                 exec'[v].attempt = c.attempt
          PROVE  exec'[v].stage \in Over
      <4>1. CASE v = w
        BY <4>1, <1>3, <1>8 DEF Over
      <4>2. CASE v # w
        BY <4>2, <3>2, <2>1, <1>1, <1>5, <1>8 DEF Inv, AttemptInv
      <4> QED
        BY <4>1, <4>2
    <3> QED
      BY <3>1, <3>2
  <2>2. CASE c \in committed
    <3>1. ASSUME NEW v \in Workers, exec'[v] # Idle, exec'[v].job = c.job,
                 exec'[v].attempt = c.attempt
          PROVE  exec'[v].stage \in Over
      <4>1. CASE v = w
        BY <4>1, <1>3, <1>8 DEF Over
      <4>2. CASE v # w
        BY <4>2, <3>1, <2>2, <1>8 DEF Inv, CommittedInv
      <4> QED
        BY <4>1, <4>2
    <3> QED
      BY <2>2, <3>1 DEF Inv, CommittedInv
  <2> QED
    BY <2>1, <2>2, <1>2
<1>13. OneSuitePerDelivery'
  <2>1. ASSUME NEW c \in committed PROVE ~(c.job = c0.job /\ c.attempt = c0.attempt)
    BY <1>1, <1>5 DEF Inv, CommittedInv, Over
  <2> QED
    BY <2>1, <1>2 DEF Inv, OneSuitePerDelivery
<1> QED
  BY <1>9, <1>10, <1>11, <1>12, <1>13 DEF Kept

(* Executions may be lost at any time, and messages may move on. *)
LEMMA LossKeeps ==
    ASSUME Inv, UNCHANGED <<asked, deliveries, committed>>,
           exec' \in [Workers -> Executions \union {Idle}],
           \A w \in Workers : exec'[w] \in {exec[w], Idle},
           \A j \in Jobs : Taken(j) => Taken(j)'
    PROVE  Kept
<1> USE DEF Inv
<1>1. ExecInv'
  <2> SUFFICES ASSUME NEW v \in Workers, exec'[v] # Idle PROVE GoodExecution(exec[v])'
    BY DEF ExecInv
  <2>1. exec'[v] = exec[v] /\ GoodExecution(exec[v]) /\ exec[v] \in Executions
    BY BusyExecution DEF ExecInv
  <2>2. exec[v].job \in Jobs
    BY <2>1 DEF Executions
  <2> QED
    BY <2>1, <2>2 DEF GoodExecution, Coherent, Chosen, Suite
<1>2. AttemptInv'
  BY DEF AttemptInv
<1>3. CommittedInv'
  <2>1. \A c \in committed : c.job \in Jobs
    BY DEF TypeOK, Committed
  <2> QED
    BY <2>1 DEF CommittedInv, Chosen
<1>4. OneSuitePerDelivery'
  BY DEF OneSuitePerDelivery
<1> QED
  BY <1>1, <1>2, <1>3, <1>4 DEF Kept

(* A delivery starts an execution whose attempt is above every earlier one. *)
LEMMA DeliverKeeps ==
    ASSUME Inv, NEW w \in Workers, NEW j \in Jobs, Deliver(w, j)
    PROVE  Kept /\ deliveries' \in [Jobs -> Nat]
<1> DEFINE n == deliveries[j] + 1
           e == [stage |-> "open", job |-> j, attempt |-> n,
                 tasks |-> <<>>, rows |-> <<>>, judged |-> 0]
<1> USE DEF Inv
<1>1. /\ exec[w] = Idle /\ msg[j] = "ready"
      /\ msg' = [msg EXCEPT ![j] = "unacked"]
      /\ deliveries' = [deliveries EXCEPT ![j] = n]
      /\ exec' = [exec EXCEPT ![w] = e]
      /\ UNCHANGED <<asked, committed>>
  BY DEF Deliver
<1>2. /\ exec \in [Workers -> Executions \union {Idle}]
      /\ msg \in [Jobs -> Messages]
      /\ deliveries \in [Jobs -> Nat] /\ committed \in SUBSET Committed
  BY DEF TypeOK
<1>3. n \in Nat /\ n >= 1 /\ n > deliveries[j]
  BY <1>2
<1>4. e \in Executions /\ e # Idle /\ Coherent(e)
  <2>1. <<>> \in Seq(Rows) /\ <<>> \in Seq(TaskIds) /\ "open" \in Stages
    BY DEF Stages
  <2>2. e \in Executions
    BY <1>3, <2>1 DEF Executions
  <2> QED
    BY <2>2, ExecutionIsBusy DEF GradedRows, Coherent
<1>5. e.stage = "open" /\ e.job = j /\ e.attempt = n
  OBVIOUS
<1> HIDE DEF e, n
<1>6. exec'[w] = e /\ \A v \in Workers \ {w} : exec'[v] = exec[v]
  BY <1>1, <1>2
<1>7. /\ deliveries' \in [Jobs -> Nat] /\ deliveries'[j] = n
      /\ \A i \in Jobs : deliveries[i] <= deliveries'[i]
      /\ \A i \in Jobs : Taken(i) => Taken(i)'
      /\ msg'[j] = "unacked"
  BY <1>1, <1>2, <1>3 DEF Taken
<1>8. exec' \in [Workers -> Executions \union {Idle}]
  BY <1>1, <1>2, <1>4
(* Every other execution, and every suite, is of an earlier delivery. *)
<1>9. ASSUME NEW v \in Workers \ {w}, exec'[v] # Idle
      PROVE  /\ exec'[v] = exec[v] /\ exec[v] \in Executions
             /\ GoodExecution(exec[v])
             /\ exec[v].job \in Jobs /\ exec[v].attempt \in Nat
  BY <1>6, <1>9, BusyExecution DEF ExecInv, Executions
<1>10. ASSUME NEW c \in committed
       PROVE  c.job \in Jobs /\ c.attempt \in Nat /\ c.attempt <= deliveries[c.job]
  BY <1>2 DEF CommittedInv, Committed
<1>11. ExecInv'
  <2> SUFFICES ASSUME NEW v \in Workers, exec'[v] # Idle PROVE GoodExecution(exec[v])'
    BY DEF ExecInv
  <2>1. CASE v = w
    <3>1. exec'[v] = e
      BY <2>1, <1>6
    <3> QED
      BY <3>1, <1>1, <1>3, <1>4, <1>5, <1>7 DEF GoodExecution, Taken, Coherent, Chosen
  <2>2. CASE v # w
    <3>1. /\ exec'[v] = exec[v] /\ GoodExecution(exec[v])
          /\ exec[v].job \in Jobs /\ exec[v].attempt \in Nat
      BY <2>2, <1>9
    <3>2. deliveries[exec[v].job] \in Nat /\ deliveries'[exec[v].job] \in Nat
      BY <3>1, <1>2, <1>7
    <3> QED
      BY <3>1, <3>2, <1>1, <1>7 DEF GoodExecution, Suite, Coherent, Chosen
  <2> QED
    BY <2>1, <2>2
<1>12. AttemptInv'
  <2>1. ASSUME NEW v \in Workers \ {w}, exec'[v] # Idle, exec'[v].job = j
        PROVE  exec'[v].attempt # n
    BY <2>1, <1>2, <1>3, <1>9 DEF GoodExecution
  <2> QED
    BY <2>1, <1>5, <1>6 DEF AttemptInv
<1>13. CommittedInv'
  <2> SUFFICES ASSUME NEW c \in committed
               PROVE  /\ Taken(c.job)' /\ c.attempt \in 1..deliveries'[c.job]
                      /\ Chosen(TasksOf(c.rows), c.job) /\ GradedRows(c.rows)
                      /\ \A v \in Workers :
                            exec'[v] # Idle /\ exec'[v].job = c.job
                               /\ exec'[v].attempt = c.attempt => exec'[v].stage \in Over
    BY <1>1 DEF CommittedInv, Chosen, Taken
  <2>1. /\ Taken(c.job)' /\ c.attempt \in 1..deliveries'[c.job]
        /\ Chosen(TasksOf(c.rows), c.job) /\ GradedRows(c.rows)
    <3>1. deliveries[c.job] \in Nat /\ deliveries'[c.job] \in Nat
      BY <1>2, <1>7, <1>10
    <3> QED
      BY <3>1, <1>7, <1>10 DEF CommittedInv
  <2>2. ASSUME NEW v \in Workers, exec'[v] # Idle, exec'[v].job = c.job,
               exec'[v].attempt = c.attempt
        PROVE  exec'[v].stage \in Over
    <3>1. v # w
      BY <2>2, <1>2, <1>3, <1>5, <1>6, <1>10
    <3> QED
      BY <3>1, <2>2, <1>6 DEF CommittedInv
  <2> QED
    BY <2>1, <2>2
<1>14. OneSuitePerDelivery'
  BY <1>1 DEF OneSuitePerDelivery
<1> QED
  BY <1>7, <1>8, <1>11, <1>12, <1>13, <1>14 DEF Kept

(* A job that is created has neither an execution nor a suite. *)
LEMMA CreateRunKeeps ==
    ASSUME Inv, NEW j \in Jobs, CreateRun(j)
    PROVE  Kept /\ asked' \in [Jobs -> Asked \union {NoRequest}]
<1> USE DEF Inv
<1>1. PICK request \in Asked : asked' = [asked EXCEPT ![j] = request]
  BY DEF CreateRun
<1>2. /\ msg[j] = "absent" /\ msg' = [msg EXCEPT ![j] = "ready"]
      /\ UNCHANGED <<exec, deliveries, committed>>
  BY DEF CreateRun
<1>3. /\ asked \in [Jobs -> Asked \union {NoRequest}]
      /\ msg \in [Jobs -> Messages]
      /\ exec \in [Workers -> Executions \union {Idle}]
      /\ committed \in SUBSET Committed
  BY DEF TypeOK
<1>4. asked' \in [Jobs -> Asked \union {NoRequest}]
  BY <1>1, <1>3
<1>5. \A i \in Jobs : Taken(i) => asked'[i] = asked[i] /\ Taken(i)'
  BY <1>1, <1>2, <1>3 DEF Taken
<1>6. ExecInv'
  <2> SUFFICES ASSUME NEW v \in Workers, exec[v] # Idle PROVE GoodExecution(exec[v])'
    BY <1>2 DEF ExecInv
  <2>1. GoodExecution(exec[v]) /\ exec[v] \in Executions
    BY BusyExecution DEF ExecInv
  <2>2. exec[v].job \in Jobs
    BY <2>1 DEF Executions
  <2> QED
    BY <2>1, <2>2, <1>2, <1>5 DEF GoodExecution, Suite, Coherent, Chosen
<1>7. AttemptInv' /\ OneSuitePerDelivery'
  BY <1>2 DEF AttemptInv, OneSuitePerDelivery
<1>8. CommittedInv'
  <2>1. \A c \in committed : c.job \in Jobs
    BY <1>3 DEF Committed
  <2> QED
    BY <2>1, <1>2, <1>5 DEF CommittedInv, Chosen
<1> QED
  BY <1>2, <1>3, <1>4, <1>6, <1>7, <1>8 DEF Kept

(* A result stays backed: suites are never withdrawn, and a result only
   becomes the summary of a suite in the database, or nothing. *)
LEMMA ResultKeeps ==
    ASSUME ResultIsCommitted, committed \subseteq committed',
           \A j \in Jobs :
              \/ result'[j] \in {result[j], NoResult}
              \/ \E c \in committed : c.job = j /\ result'[j] = Summary(c.rows)
    PROVE  ResultIsCommitted'
<1> SUFFICES ASSUME NEW j \in Jobs, result'[j] # NoResult
             PROVE  \E c \in committed' : c.job = j /\ result'[j] = Summary(c.rows)
  BY DEF ResultIsCommitted
<1>1. \E c \in committed : c.job = j /\ result'[j] = Summary(c.rows)
  BY DEF ResultIsCommitted
<1> QED
  BY <1>1

-----------------------------------------------------------------------------
(* The rest of the variables: types. *)
Typed == /\ library' \in Libraries
         /\ asked' \in [Jobs -> Asked \union {NoRequest}]
         /\ msg' \in [Jobs -> Messages]
         /\ deliveries' \in [Jobs -> Nat]
         /\ pooled' \in SUBSET Workers
         /\ committed' \in SUBSET Committed
         /\ result' \in [Jobs -> Results]
         /\ crashes' \in 0..MaxCrashes /\ nodeDeaths' \in Nat
         /\ overtaken' \in SUBSET Jobs

LEMMA Assemble == ASSUME Kept, Typed, ResultIsCommitted' PROVE Inv'
  BY DEF Kept, Typed, Inv, TypeOK

LEMMA AckedType ==
    ASSUME TypeOK, NEW j \in Jobs
    PROVE  /\ Acked(j) \in [Jobs -> Messages]
           /\ msg' = Acked(j) => \A i \in Jobs : Taken(i) => Taken(i)'
  BY DEF TypeOK, Acked, Taken, Messages

(* A worker's step other than the acknowledgement. *)
LEMMA WorkerInv ==
    ASSUME Inv, NEW w \in Workers, WorkerStep(w), ~Ack(w)
    PROVE  Inv'
<1> USE DEF Inv
<1>1. Kept
  BY WorkerKeeps, CommitKeeps
<1>2. exec[w] \in Executions
  <2>1. exec[w].stage \in Stages
    BY DEF WorkerStep, OpenSession, ConnectFails, LibraryRaises, RunTask, TaskRaises, TasksDone, JudgeRun, Commit,
       CommitFails, Publish, PublishFails, SuiteJudged, Stages, Busy
  <2> QED
    BY <2>1, StageIsBusy
<1>3. exec[w].job \in Jobs /\ exec[w].rows \in Seq(Rows) /\ exec[w] # Idle
  BY <1>2, ExecutionIsBusy DEF Executions
<1>4. /\ UNCHANGED <<library, asked, msg, deliveries, history>>
      /\ pooled' \in SUBSET Workers
  BY <1>3 DEF WorkerStep, OpenSession, ConnectFails, LibraryRaises, RunTask, TaskRaises, TasksDone, JudgeRun, Commit,
     CommitFails, Publish, PublishFails, TypeOK
<1>5. committed' \in SUBSET Committed /\ committed \subseteq committed'
  <2>1. CASE Commit(w)
    BY <2>1, CommitKeeps DEF Commit
  <2>2. CASE ~Commit(w)
    BY <2>2 DEF WorkerStep, OpenSession, ConnectFails, LibraryRaises, RunTask, TaskRaises, TasksDone, JudgeRun,
       CommitFails, Publish, PublishFails, Move, Abort, TypeOK
  <2> QED
    BY <2>1, <2>2
<1>6. CASE Publish(w)
  <2>1. Suite(exec[w]) \in committed
    BY <1>3, <1>6 DEF Publish, Busy, ExecInv, GoodExecution
  <2>2. result' = [result EXCEPT ![exec[w].job] = Summary(exec[w].rows)]
    BY <1>6 DEF Publish
  <2>3. Summary(exec[w].rows) \in Results
    BY <1>3, SummaryType
  <2>4. result' \in [Jobs -> Results]
    BY <2>2, <2>3 DEF TypeOK
  <2>5. /\ result'[exec[w].job] = Summary(exec[w].rows)
        /\ \A i \in Jobs \ {exec[w].job} : result'[i] = result[i]
    BY <1>3, <2>2 DEF TypeOK
  <2>6. Suite(exec[w]).job = exec[w].job /\ Suite(exec[w]).rows = exec[w].rows
    BY DEF Suite
  <2>7. \A j \in Jobs : \/ result'[j] \in {result[j], NoResult}
                        \/ \E c \in committed : c.job = j /\ result'[j] = Summary(c.rows)
    BY <2>1, <2>5, <2>6
  <2>8. ResultIsCommitted'
    BY <1>5, <2>7, ResultKeeps
  <2> QED
    BY <1>1, <1>4, <1>5, <2>4, <2>8, Assemble DEF Typed, TypeOK
<1>7. CASE ~Publish(w)
  <2>1. result' = result
    BY <1>7 DEF WorkerStep, OpenSession, ConnectFails, LibraryRaises, RunTask, TaskRaises, TasksDone, JudgeRun, Commit,
       CommitFails, PublishFails
  <2>2. ResultIsCommitted'
    BY <1>5, <2>1, ResultKeeps
  <2> QED
    BY <1>1, <1>4, <1>5, <2>1, <2>2, Assemble DEF Typed, TypeOK
<1> QED
  BY <1>6, <1>7

LEMMA NextInv == Inv /\ [Next]_vars => Inv'
<1> SUFFICES ASSUME Inv, [Next]_vars PROVE Inv'
  OBVIOUS
<1> USE DEF Inv
<1>1. ASSUME NEW j \in Jobs, CreateRun(j) PROVE Inv'
  <2>1. msg' \in [Jobs -> Messages]
    BY <1>1 DEF CreateRun, TypeOK, Messages
  <2>2. UNCHANGED <<library, deliveries, pooled, committed, result, history>>
    BY <1>1 DEF CreateRun
  <2>3. Typed /\ Kept
    BY <1>1, <2>1, <2>2, CreateRunKeeps DEF Typed, TypeOK
  <2> QED
    BY <2>2, <2>3, ResultKeeps, Assemble
<1>2. ASSUME NEW j \in Jobs, Restore(j) PROVE Inv'
  <2>1. /\ msg' \in [Jobs -> Messages]
        /\ \A i \in Jobs : Taken(i) => Taken(i)'
    BY <1>2 DEF Restore, TypeOK, Taken, Messages
  <2>2. /\ UNCHANGED <<library, asked, deliveries, exec, pooled, committed, result>>
        /\ UNCHANGED <<crashes, nodeDeaths>> /\ overtaken' \in SUBSET Jobs
    BY <1>2 DEF Restore, TypeOK
  <2>3. Kept
    BY <2>1, <2>2, LossKeeps DEF TypeOK
  <2>4. Typed
    BY <2>1, <2>2 DEF Typed, TypeOK
  <2> QED
    BY <2>2, <2>3, <2>4, ResultKeeps, Assemble
<1>11. ASSUME NEW j \in Jobs, CreateRunFails(j) PROVE Inv'
  <2>1. msg' \in [Jobs -> Messages] /\ \A i \in Jobs : Taken(i) => Taken(i)'
    BY <1>11 DEF CreateRunFails, TypeOK, Taken, Messages
  <2>2. UNCHANGED <<library, asked, deliveries, exec, pooled, committed, result, history>>
    BY <1>11 DEF CreateRunFails
  <2>3. Kept
    BY <2>1, <2>2, LossKeeps DEF TypeOK
  <2>4. Typed
    BY <2>1, <2>2 DEF Typed, TypeOK
  <2> QED
    BY <2>2, <2>3, <2>4, ResultKeeps, Assemble
<1>3. ASSUME NEW w \in Workers, NEW j \in Jobs, Deliver(w, j) PROVE Inv'
  <2>1. msg' \in [Jobs -> Messages]
    BY <1>3 DEF Deliver, TypeOK, Messages
  <2>2. UNCHANGED <<library, asked, pooled, committed, result, history>>
    BY <1>3 DEF Deliver
  <2>3. Typed /\ Kept
    BY <1>3, <2>1, <2>2, DeliverKeeps DEF Typed, TypeOK
  <2> QED
    BY <2>2, <2>3, ResultKeeps, Assemble
(* The message is acknowledged and the process becomes idle. *)
<1>4. ASSUME NEW w \in Workers, exec[w] \in Executions, msg' = Acked(exec[w].job),
             exec' = [exec EXCEPT ![w] = Idle], pooled' \in SUBSET Workers,
             crashes' \in 0..MaxCrashes, UNCHANGED <<nodeDeaths, overtaken>>,
             UNCHANGED <<library, asked, deliveries, committed, result>>
      PROVE  Inv'
  <2>1. exec[w].job \in Jobs
    BY <1>4 DEF Executions
  <2>2. /\ msg' \in [Jobs -> Messages]
        /\ \A i \in Jobs : Taken(i) => Taken(i)'
    BY <1>4, <2>1, AckedType
  <2>3. /\ exec' \in [Workers -> Executions \union {Idle}]
        /\ \A v \in Workers : exec'[v] \in {exec[v], Idle}
    BY <1>4 DEF TypeOK
  <2>4. Kept
    BY <1>4, <2>2, <2>3, LossKeeps
  <2>5. Typed
    BY <1>4, <2>2 DEF Typed, TypeOK
  <2> QED
    BY <1>4, <2>4, <2>5, ResultKeeps, Assemble
<1>5. ASSUME NEW w \in Workers, Ack(w) PROVE Inv'
  <2>1. exec[w] \in Executions
    BY <1>5, StageIsBusy DEF Ack, Stages
  <2> QED
    BY <1>4, <1>5, <2>1 DEF Ack, TypeOK
<1>6. ASSUME NEW w \in Workers, ProcessDies(w) PROVE Inv'
  <2>1. exec[w] \in Executions
    BY <1>6, BusyExecution DEF ProcessDies
  <2>2. crashes' \in 0..MaxCrashes /\ pooled' \in SUBSET Workers
    BY <1>6, ConstantsAssumption DEF ProcessDies, TypeOK
  <2> QED
    BY <1>4, <1>6, <2>1, <2>2 DEF ProcessDies
<1>7. CASE NodeDies
  <2>1. /\ exec' = [w \in Workers |-> Idle]
        /\ UNCHANGED <<asked, msg, deliveries, committed, result>>
        /\ pooled' = {} /\ library' \in Libraries
    BY <1>7 DEF NodeDies
  <2>2. /\ exec' \in [Workers -> Executions \union {Idle}]
        /\ \A v \in Workers : exec'[v] \in {exec[v], Idle}
    BY <2>1
  <2>3. crashes' \in 0..MaxCrashes /\ nodeDeaths' \in Nat /\ UNCHANGED overtaken
    BY <1>7, ConstantsAssumption DEF NodeDies, TypeOK
  <2>4. Kept
    BY <2>1, <2>2, LossKeeps DEF Taken
  <2>5. Typed
    BY <2>1, <2>3 DEF Typed, TypeOK
  <2> QED
    BY <2>1, <2>4, <2>5, ResultKeeps, Assemble
<1>8. ASSUME NEW j \in Jobs, ResultExpires(j) PROVE Inv'
  <2>1. /\ result' = [result EXCEPT ![j] = NoResult]
        /\ UNCHANGED <<library, asked, msg, deliveries, exec, pooled, committed, history>>
    BY <1>8 DEF ResultExpires
  <2>2. NoResult \in Results
    BY DEF NoResult, Results
  <2>3. /\ result' \in [Jobs -> Results]
        /\ \A i \in Jobs : result'[i] \in {result[i], NoResult}
    BY <2>1, <2>2 DEF TypeOK
  <2>4. Kept
    BY <2>1, LossKeeps DEF TypeOK, Taken
  <2>5. Typed
    BY <2>1, <2>3 DEF Typed, TypeOK
  <2> QED
    BY <2>1, <2>3, <2>4, <2>5, ResultKeeps, Assemble
<1>9. CASE UNCHANGED vars
  <2>1. UNCHANGED <<library, asked, msg, deliveries, exec, pooled, committed, result, history>>
    BY <1>9 DEF vars
  <2>2. Kept
    BY <2>1, LossKeeps DEF TypeOK, Taken
  <2>3. Typed
    BY <2>1 DEF Typed, TypeOK
  <2> QED
    BY <2>1, <2>2, <2>3, ResultKeeps, Assemble
<1>10. ASSUME NEW w \in Workers, WorkerStep(w) PROVE Inv'
  BY <1>5, <1>10, WorkerInv
<1> QED
  BY <1>1, <1>2, <1>3, <1>6, <1>7, <1>8, <1>9, <1>10, <1>11 DEF Next, Fault, Rest

-----------------------------------------------------------------------------
(* Every execution of the system satisfies the inductive invariant. *)
THEOREM Invariance == Spec => []Inv
<1> QED
  BY InitInv, NextInv, PTL DEF Spec

(* Types hold, for any number of jobs, processes, tasks and faults. *)
THEOREM TypeCorrect == Spec => []TypeOK
<1>1. Inv => TypeOK
  BY DEF Inv
<1> QED
  BY Invariance, <1>1, PTL

(* eval_service.py runs a suite in one transaction: what is in the database is
   whole suites, whatever fails, dies or is redelivered, and only a PASS run is
   scored. *)
THEOREM SuitesAreWhole == Spec => []WholeSuites
<1>1. Inv => WholeSuites
  BY DEF Inv, CommittedInv, WholeSuites, GradedRows, Chosen
<1> QED
  BY Invariance, <1>1, PTL

(* eval_service.py and task_registry.py: the suites in the database hold what
   their clients asked for, whatever libraries the images bore and whatever
   files of them have a task in common. *)
THEOREM SuitesHoldWhatWasAsked == Spec => []SuitesAnswerRequests
<1>1. ASSUME Inv PROVE SuitesAnswerRequests
  <2> SUFFICES ASSUME NEW c \in committed
               PROVE  \E chosen \in Libraries :
                         Loads(chosen) /\ Answers(TasksOf(c.rows), chosen, asked[c.job])
    BY DEF SuitesAnswerRequests
  <2>1. c.job \in Jobs
    BY <1>1 DEF Inv, TypeOK, Committed
  <2>2. PICK chosen \in Libraries :
           Loads(chosen) /\ TasksOf(c.rows) = Selected(chosen, asked[c.job])
    BY <1>1 DEF Inv, CommittedInv, Chosen
  <2>3. chosen \in Seq(Files) /\ asked[c.job] \in Requests
    BY <1>1, <2>1, ConstantsAssumption, RequestType DEF Inv
  <2>4. Answers(TasksOf(c.rows), chosen, asked[c.job])
    BY <2>2, <2>3, SelectionAnswers
  <2> QED
    BY <2>2, <2>4
<1> QED
  BY Invariance, <1>1, PTL

(* A delivery of a message leaves at most one suite in the database: what is
   duplicated, a redelivery duplicated. *)
THEOREM DeliveryCommitsOnce == Spec => []OneSuitePerDelivery
<1>1. Inv => OneSuitePerDelivery
  BY DEF Inv
<1> QED
  BY Invariance, <1>1, PTL

(* The result a client reads summarises a suite that is in the database, also
   when processes raced to write it. *)
THEOREM ResultIsBacked == Spec => []ResultIsCommitted
<1>1. Inv => ResultIsCommitted
  BY DEF Inv
<1> QED
  BY Invariance, <1>1, PTL

-----------------------------------------------------------------------------
(* Who holds a job, and how often it was delivered.  A job that was not
   overtaken has one holder, which has its message; and each delivery but the
   first answers for the death of a node. *)
Holds(w, j) == exec[w] # Idle /\ exec[w].job = j

Held(j) ==
    /\ \A v, w \in Workers : Holds(v, j) /\ Holds(w, j) => v = w
    /\ Running(j) => msg[j] = "unacked"
    /\ ~Taken(j) => deliveries[j] = 0
    /\ msg[j] = "ready" \/ (msg[j] = "unacked" /\ ~Running(j)) => deliveries[j] <= nodeDeaths
    /\ deliveries[j] <= 1 + nodeDeaths

HolderInv == \A j \in Jobs \ overtaken : Held(j)

(* A step that changes no holder, message or count. *)
LEMMA HoldersStay ==
    ASSUME HolderInv, UNCHANGED <<msg, deliveries, nodeDeaths, overtaken>>,
           \A w \in Workers, j \in Jobs : Holds(w, j)' <=> Holds(w, j)
    PROVE  HolderInv'
<1> SUFFICES ASSUME NEW j \in Jobs \ overtaken PROVE Held(j)'
  BY DEF HolderInv
<1>1. Held(j)
  BY DEF HolderInv
<1>2. Running(j)' <=> Running(j)
  BY DEF Running, Holds
<1> QED
  BY <1>1, <1>2 DEF Held, Taken

(* The holder of a job gives it up and acknowledges its message. *)
LEMMA HolderLeaves ==
    ASSUME Inv, HolderInv, NEW w \in Workers, exec[w] # Idle,
           msg' = Acked(exec[w].job), exec' = [exec EXCEPT ![w] = Idle],
           UNCHANGED <<deliveries, nodeDeaths, overtaken>>
    PROVE  HolderInv'
<1> SUFFICES ASSUME NEW j \in Jobs \ overtaken PROVE Held(j)'
  BY DEF HolderInv
<1>1. /\ exec \in [Workers -> Executions \union {Idle}]
      /\ msg \in [Jobs -> Messages] /\ exec[w].job \in Jobs
      /\ deliveries[j] \in Nat /\ nodeDeaths \in Nat
  BY BusyExecution DEF Inv, TypeOK, Executions
<1>2. Held(j)
  BY DEF HolderInv
<1>3. \A v \in Workers : Holds(v, j)' => Holds(v, j) /\ v # w
  BY <1>1 DEF Holds
<1>4. CASE exec[w].job = j
  <2>1. msg[j] = "unacked"
    BY <1>2, <1>4 DEF Held, Running
  <2>2. msg'[j] = "gone"
    BY <1>1, <1>4, <2>1 DEF Acked
  <2>3. ~Running(j)'
    BY <1>2, <1>3, <1>4 DEF Held, Running, Holds
  <2> QED
    BY <1>2, <1>3, <2>2, <2>3 DEF Held, Taken
<1>5. CASE exec[w].job # j
  <2>1. msg'[j] = msg[j]
    BY <1>1, <1>5 DEF Acked
  <2>2. \A v \in Workers : Holds(v, j)' <=> Holds(v, j)
    BY <1>1, <1>5 DEF Holds
  <2>3. Running(j)' <=> Running(j)
    BY <2>2 DEF Running, Holds
  <2> QED
    BY <1>2, <2>1, <2>2, <2>3 DEF Held, Taken
<1> QED
  BY <1>4, <1>5

LEMMA NodeLeaves ==
    ASSUME Inv, HolderInv, NodeDies PROVE HolderInv'
<1> SUFFICES ASSUME NEW j \in Jobs \ overtaken PROVE Held(j)'
  BY DEF HolderInv, NodeDies
<1>1. /\ \A v \in Workers : ~Holds(v, j)'
      /\ UNCHANGED <<msg, deliveries>> /\ nodeDeaths' = nodeDeaths + 1
  BY DEF NodeDies, Holds
<1>2. Held(j) /\ deliveries[j] \in Nat /\ nodeDeaths \in Nat
  BY DEF HolderInv, Inv, TypeOK
<1>3. ~Running(j)'
  BY <1>1 DEF Running, Holds
<1> QED
  BY <1>1, <1>2, <1>3 DEF Held, Taken

LEMMA HolderComes ==
    ASSUME Inv, HolderInv, NEW w \in Workers, NEW i \in Jobs, Deliver(w, i)
    PROVE  HolderInv'
<1> SUFFICES ASSUME NEW j \in Jobs \ overtaken PROVE Held(j)'
  BY DEF HolderInv, Deliver
<1>1. /\ exec[w] = Idle /\ msg[i] = "ready" /\ UNCHANGED <<nodeDeaths, overtaken>>
      /\ msg' = [msg EXCEPT ![i] = "unacked"]
      /\ deliveries' = [deliveries EXCEPT ![i] = deliveries[i] + 1]
  BY DEF Deliver
<1>2. /\ Held(j) /\ deliveries \in [Jobs -> Nat] /\ nodeDeaths \in Nat
      /\ msg \in [Jobs -> Messages] /\ exec \in [Workers -> Executions \union {Idle}]
  BY DEF HolderInv, Inv, TypeOK
<1>3. exec'[w].job = i /\ exec'[w] # Idle /\ \A v \in Workers \ {w} : exec'[v] = exec[v]
  BY <1>2 DEF Deliver, Idle
<1>4. CASE i = j
  <2>1. \A v \in Workers : ~Holds(v, j)
    BY <1>1, <1>2, <1>4 DEF Held, Running, Holds
  <2>2. \A v \in Workers : Holds(v, j)' <=> v = w
    BY <1>3, <1>4, <2>1 DEF Holds
  <2>3. msg'[j] = "unacked" /\ deliveries'[j] = deliveries[j] + 1 /\ Running(j)'
    BY <1>1, <1>2, <1>3, <1>4 DEF Running
  <2>4. deliveries[j] <= nodeDeaths /\ deliveries[j] \in Nat
    BY <1>1, <1>2, <1>4 DEF Held
  <2> QED
    BY <1>1, <1>2, <2>2, <2>3, <2>4 DEF Held, Taken
<1>5. CASE i # j
  <2>1. msg'[j] = msg[j] /\ deliveries'[j] = deliveries[j]
    BY <1>1, <1>2, <1>5
  <2>2. \A v \in Workers : Holds(v, j)' <=> Holds(v, j)
    BY <1>1, <1>3, <1>5 DEF Holds
  <2>3. Running(j)' <=> Running(j)
    BY <2>2 DEF Running, Holds
  <2> QED
    BY <1>1, <1>2, <2>1, <2>2, <2>3 DEF Held, Taken
<1> QED
  BY <1>4, <1>5

(* The visibility timeout: without overtaking, only for a holder that is gone. *)
LEMMA MessageReturns ==
    ASSUME Inv, HolderInv, NEW i \in Jobs, Restore(i) PROVE HolderInv'
<1> SUFFICES ASSUME NEW j \in Jobs \ overtaken' PROVE Held(j)'
  BY DEF HolderInv
<1>1. /\ msg[i] = "unacked" /\ msg' = [msg EXCEPT ![i] = "ready"]
      /\ UNCHANGED <<exec, deliveries, nodeDeaths>>
      /\ Running(i) => overtaken' = overtaken \union {i}
      /\ overtaken \subseteq overtaken'
  BY DEF Restore
<1>2. Held(j) /\ msg \in [Jobs -> Messages]
  BY <1>1 DEF HolderInv, Inv, TypeOK
<1>3. (Running(j)' <=> Running(j)) /\ \A v \in Workers : Holds(v, j)' <=> Holds(v, j)
  BY <1>1 DEF Running, Holds
<1>4. CASE i = j
  <2>1. ~Running(j) /\ msg'[j] = "ready"
    BY <1>1, <1>2, <1>4
  <2> QED
    BY <1>1, <1>2, <1>3, <1>4, <2>1 DEF Held, Taken
<1>5. CASE i # j
  <2>1. msg'[j] = msg[j]
    BY <1>1, <1>2, <1>5
  <2> QED
    BY <1>1, <1>2, <1>3, <2>1 DEF Held, Taken
<1> QED
  BY <1>4, <1>5

LEMMA RequestArrives ==
    ASSUME Inv, HolderInv, NEW i \in Jobs, CreateRun(i) \/ CreateRunFails(i)
    PROVE  HolderInv'
<1> SUFFICES ASSUME NEW j \in Jobs \ overtaken PROVE Held(j)'
  BY DEF HolderInv, CreateRun, CreateRunFails
<1>1. /\ msg[i] = "absent"
      /\ msg' = [msg EXCEPT ![i] = "ready"] \/ msg' = [msg EXCEPT ![i] = "refused"]
      /\ UNCHANGED <<exec, deliveries, nodeDeaths>>
  BY DEF CreateRun, CreateRunFails
<1>2. /\ Held(j) /\ msg \in [Jobs -> Messages]
      /\ deliveries[j] \in Nat /\ nodeDeaths \in Nat
  BY DEF HolderInv, Inv, TypeOK
<1>3. (Running(j)' <=> Running(j)) /\ \A v \in Workers : Holds(v, j)' <=> Holds(v, j)
  BY <1>1 DEF Running, Holds
<1>4. CASE i = j
  <2>1. ~Running(j) /\ deliveries[j] = 0 /\ msg'[j] \in {"ready", "refused"}
    BY <1>1, <1>2, <1>4 DEF Held, Taken
  <2> QED
    BY <1>1, <1>2, <1>3, <2>1 DEF Held, Taken
<1>5. CASE i # j
  <2>1. msg'[j] = msg[j]
    BY <1>1, <1>2, <1>5
  <2> QED
    BY <1>1, <1>2, <1>3, <2>1 DEF Held, Taken
<1> QED
  BY <1>4, <1>5

(* A step of a suite keeps its job and its process. *)
LEMMA SuiteStepHolds ==
    ASSUME Inv, NEW w \in Workers, WorkerStep(w), ~Ack(w)
    PROVE  /\ \A v \in Workers, j \in Jobs : Holds(v, j)' <=> Holds(v, j)
           /\ UNCHANGED <<msg, deliveries, nodeDeaths, overtaken>>
<1>1. exec[w] \in Executions
  <2>1. exec[w].stage \in Stages
    BY DEF WorkerStep, OpenSession, ConnectFails, LibraryRaises, RunTask, TaskRaises,
       TasksDone, JudgeRun, Commit, CommitFails, Publish, PublishFails, SuiteJudged,
       Stages, Busy
  <2> QED
    BY <2>1, StageIsBusy DEF Inv
<1> DEFINE After(e) == /\ exec' = [exec EXCEPT ![w] = e]
                       /\ e.job = exec[w].job /\ e.stage # "idle"
<1>2. \A s \in Stages : At(exec[w], s).job = exec[w].job /\ At(exec[w], s).stage = s
  BY <1>1 DEF At, Executions
<1>3. ASSUME OpenSession(w) PROVE \E e : After(e)
  <2> DEFINE e == [At(exec[w], "tasks") EXCEPT
                       !.tasks = Selected(library, asked[exec[w].job])]
  <2>1. e.job = exec[w].job /\ e.stage = "tasks"
    BY <1>1 DEF At, Executions
  <2>2. exec' = [exec EXCEPT ![w] = e]
    BY <1>3 DEF OpenSession, Move
  <2>3. After(e)
    BY <2>1, <2>2
  <2> QED
    BY <2>3
<1>4. ASSUME Abort(w) PROVE \E e : After(e)
  <2>1. Aborted(exec[w]).job = exec[w].job /\ Aborted(exec[w]).stage = "failed"
    BY <1>1 DEF Aborted, Executions
  <2>2. After(Aborted(exec[w]))
    BY <1>4, <2>1 DEF Abort, Move
  <2> QED
    BY <2>2
<1>5. ASSUME RunTask(w) PROVE \E e : After(e)
  <2>1. PICK s \in {"PASS", "ERROR"} : Move(w, RanTask(exec[w], s))
    BY <1>5 DEF RunTask
  <2>2. RanTask(exec[w], s).job = exec[w].job /\ RanTask(exec[w], s).stage = exec[w].stage
    BY <1>1 DEF RanTask, Executions
  <2>3. After(RanTask(exec[w], s))
    BY <1>1, <2>1, <2>2 DEF Move, Executions, Stages
  <2> QED
    BY <2>3
<1>6. ASSUME Move(w, Judged(exec[w])) \/ Move(w, Scored(exec[w])) PROVE \E e : After(e)
  <2>1. /\ Judged(exec[w]).job = exec[w].job /\ Judged(exec[w]).stage = exec[w].stage
        /\ Scored(exec[w]).job = exec[w].job /\ Scored(exec[w]).stage = exec[w].stage
    BY <1>1 DEF Judged, Scored, Executions
  <2>2. exec[w].stage # "idle"
    BY <1>1 DEF Executions, Stages
  <2>3. After(Judged(exec[w])) \/ After(Scored(exec[w]))
    BY <1>6, <2>1, <2>2 DEF Move
  <2> QED
    BY <2>3
<1>7. ASSUME \E s \in {"judge", "publish", "succeeded", "failed"} :
                 exec' = [exec EXCEPT ![w] = At(exec[w], s)]
      PROVE  \E e : After(e)
  <2>1. PICK s \in Stages : exec' = [exec EXCEPT ![w] = At(exec[w], s)]
    BY <1>7 DEF Stages
  <2>2. After(At(exec[w], s))
    BY <1>2, <2>1 DEF Stages
  <2> QED
    BY <2>2
<1>8. PICK e : After(e)
  <2>1. \/ OpenSession(w) \/ Abort(w) \/ RunTask(w)
        \/ Move(w, Judged(exec[w])) \/ Move(w, Scored(exec[w]))
        \/ \E s \in {"judge", "publish", "succeeded", "failed"} :
               exec' = [exec EXCEPT ![w] = At(exec[w], s)]
    BY DEF WorkerStep, ConnectFails, LibraryRaises, TaskRaises, TasksDone, JudgeRun,
       Commit, CommitFails, Publish, PublishFails, Move
  <2> QED
    BY <2>1, <1>3, <1>4, <1>5, <1>6, <1>7
<1>9. e # Idle /\ exec[w] # Idle
  BY <1>1, <1>8, ExecutionIsBusy DEF Idle
<1>10. exec \in [Workers -> Executions \union {Idle}]
  BY DEF Inv, TypeOK
<1>11. UNCHANGED <<msg, deliveries, nodeDeaths, overtaken>>
  BY DEF WorkerStep, OpenSession, ConnectFails, LibraryRaises, RunTask, TaskRaises,
     TasksDone, JudgeRun, Commit, CommitFails, Publish, PublishFails
<1> QED
  BY <1>8, <1>9, <1>10, <1>11 DEF Holds

LEMMA HolderNext == Inv /\ HolderInv /\ [Next]_vars => HolderInv'
<1> SUFFICES ASSUME Inv, HolderInv, [Next]_vars PROVE HolderInv'
  OBVIOUS
<1>1. ASSUME NEW w \in Workers, WorkerStep(w), ~Ack(w) PROVE HolderInv'
  BY <1>1, SuiteStepHolds, HoldersStay
<1>2. ASSUME NEW w \in Workers, Ack(w) PROVE HolderInv'
  <2>1. exec[w] # Idle
    BY <1>2, StageIsBusy DEF Ack, Stages, Inv
  <2> QED
    BY <1>2, <2>1, HolderLeaves DEF Ack
<1>3. ASSUME NEW w \in Workers, ProcessDies(w) PROVE HolderInv'
  BY <1>3, HolderLeaves DEF ProcessDies
<1>4. ASSUME NEW j \in Jobs, ResultExpires(j) PROVE HolderInv'
  BY <1>4, HoldersStay DEF ResultExpires, Holds
<1>5. CASE UNCHANGED vars
  BY <1>5, HoldersStay DEF vars, Holds
<1> QED
  BY <1>1, <1>2, <1>3, <1>4, <1>5, NodeLeaves, HolderComes, MessageReturns,
     RequestArrives DEF Next, Fault, Rest

LEMMA HolderInit == Init => HolderInv
  BY DEF Init, HolderInv, Held, Holds, Running, Taken

LEMMA HolderInvariance == Spec => []HolderInv
<1> QED
  BY Invariance, HolderInit, HolderNext, PTL DEF Spec

(* celery_app.py: as long as no suite outlasts the visibility timeout, a job is
   in one process at most, which holds its message. *)
THEOREM OneHolder == Spec => []SingleHolder
<1>1. HolderInv => SingleHolder
  BY DEF HolderInv, Held, Holds, SingleHolder
<1> QED
  BY HolderInvariance, <1>1, PTL

(* Suites of one job are told apart by their delivery. *)
LEMMA SuitesAtMostDeliveries ==
    ASSUME Inv, NEW j \in Jobs
    PROVE  /\ Cardinality({c \in committed : c.job = j}) \in Nat
           /\ Cardinality({c \in committed : c.job = j}) <= deliveries[j]
<1> DEFINE S == {c \in committed : c.job = j}
           f == [c \in S |-> c.attempt]
<1>1. deliveries[j] \in Nat
  BY DEF Inv, TypeOK
<1>2. IsFiniteSet(1..deliveries[j]) /\ Cardinality(1..deliveries[j]) = deliveries[j]
  BY <1>1, FS_Interval
<1>3. f \in Injection(S, 1..deliveries[j])
  BY DEF Inv, CommittedInv, OneSuitePerDelivery, Injection, IsInjective
<1>4. IsFiniteSet(S) /\ Cardinality(S) <= Cardinality(1..deliveries[j])
  BY <1>2, <1>3, FS_Injection
<1>5. Cardinality(S) \in Nat
  BY <1>4, FS_CardinalityType
<1> QED
  BY <1>2, <1>4, <1>5

(* tasks.py and celery_app.py: no failure of a suite and no death of a process
   has a job delivered again, only that of the node; and so no more suites of it
   are in the database than nodes died, and one. *)
THEOREM ExtraSuitesAreDeaths == Spec => []SuitesNeedNodeDeaths
<1>1. Inv /\ HolderInv => SuitesNeedNodeDeaths
  <2> SUFFICES ASSUME Inv, HolderInv, NEW j \in Jobs \ overtaken
               PROVE  /\ deliveries[j] <= 1 + nodeDeaths
                      /\ Cardinality({c \in committed : c.job = j}) <= 1 + nodeDeaths
    BY DEF SuitesNeedNodeDeaths
  <2>1. deliveries[j] <= 1 + nodeDeaths /\ deliveries[j] \in Nat /\ nodeDeaths \in Nat
    BY DEF HolderInv, Held, Inv, TypeOK
  <2>2. /\ Cardinality({c \in committed : c.job = j}) \in Nat
        /\ Cardinality({c \in committed : c.job = j}) <= deliveries[j]
    BY SuitesAtMostDeliveries
  <2> QED
    BY <2>1, <2>2
<1> QED
  BY Invariance, HolderInvariance, <1>1, PTL

-----------------------------------------------------------------------------
(* An execution runs out of steps. *)

(* No task is judged before the judge loop, nor twice in it. *)
Counted(e) == /\ e.stage \in {"open", "tasks"} => e.judged = 0
              /\ e.stage = "judge" => e.judged <= Len(e.rows)

JudgedInv == \A w \in Workers : exec[w] # Idle => Counted(exec[w])

(* The steps before execution e, if the session it opens selects n tasks: one per
   task and one per judgement, and five more. *)
StepsOf(e, n) == CASE e.stage = "open"    -> 2 * n + 5
                   [] e.stage = "tasks"   -> (Len(e.tasks) - Len(e.rows)) + Len(e.tasks) + 4
                   [] e.stage = "judge"   -> Len(e.rows) - e.judged + 3
                   [] e.stage = "publish" -> 2
                   [] OTHER               -> 1

TaskCount(e) == Len(Selected(library, asked[e.job]))
Left(w) == IF exec[w] = Idle THEN 0 ELSE StepsOf(exec[w], TaskCount(exec[w]))

(* Each step of a worker brings its execution nearer to its end, whichever way
   the step goes, and no client, worker or death puts the end off.  It is what
   EveryJobSettles rests on, besides fairness. *)
NearerItsEnd ==
    \A w \in Workers : exec[w] # Idle =>
        /\ Left(w) \in Nat \ {0}
        /\ Left(w)' <= Left(w)
        /\ WorkerStep(w) => Left(w)' < Left(w)

(* Numbers: what running one more of t tasks after r of them does to the steps. *)
LEMMA Descent ==
    ASSUME NEW t \in Nat, NEW r \in Nat
    PROVE  /\ (t - (r + 1)) + t + 4 < (t - r) + t + 4
           /\ r <= t => (t - r) + t + 4 > 1
<1>1. PICK d \in Int : d = t - r
  OBVIOUS
<1>2. t - (r + 1) = d - 1
  BY <1>1
<1> QED
  BY <1>1, <1>2

LEMMA StepsByStage ==
    ASSUME NEW e, NEW n
    PROVE  /\ e.stage = "open" => StepsOf(e, n) = 2 * n + 5
           /\ e.stage = "tasks" => StepsOf(e, n) = (Len(e.tasks) - Len(e.rows)) + Len(e.tasks) + 4
           /\ e.stage = "judge" => StepsOf(e, n) = Len(e.rows) - e.judged + 3
           /\ e.stage = "publish" => StepsOf(e, n) = 2
           /\ e.stage \in {"succeeded", "failed"} => StepsOf(e, n) = 1
  BY DEF StepsOf

LEMMA StepsAreNumbers ==
    ASSUME NEW e \in Executions, NEW n \in Nat PROVE StepsOf(e, n) \in Int
<1>1. e.judged \in Nat /\ Len(e.rows) \in Nat /\ Len(e.tasks) \in Nat
  BY DEF Executions
<1> QED
  BY <1>1 DEF StepsOf

LEMMA StepsType ==
    ASSUME Inv, NEW w \in Workers, exec[w] # Idle, Counted(exec[w]), NEW n \in Nat
    PROVE  StepsOf(exec[w], n) \in Nat \ {0}
<1> DEFINE e == exec[w]
<1>1. e \in Executions /\ GoodExecution(e)
  BY BusyExecution DEF Inv, ExecInv
<1>2. /\ e.stage \in Stages /\ e.judged \in Nat
      /\ Len(e.rows) \in Nat /\ Len(e.tasks) \in Nat
  BY <1>1 DEF Executions
<1>3. e.stage = "tasks" => Len(e.rows) <= Len(e.tasks)
  BY <1>1 DEF GoodExecution, Coherent, Follows
<1>4. e.stage = "judge" => e.judged <= Len(e.rows)
  BY DEF Counted
<1> HIDE DEF e
<1>5. StepsOf(e, n) \in Nat \ {0}
  BY <1>2, <1>3, <1>4 DEF StepsOf
<1> QED
  BY <1>5 DEF e

LEMMA TaskCountType ==
    ASSUME Inv, NEW e \in Executions
    PROVE  TaskCount(e) \in Nat
<1>1. library \in Seq(Files) /\ e.job \in Jobs
  BY ConstantsAssumption DEF Inv, TypeOK, Executions
<1>2. asked[e.job] \in Requests
  BY <1>1, RequestType DEF Inv
<1>3. Selected(library, asked[e.job]) \in Seq(TaskIds)
  BY <1>1, <1>2, SelectionAnswers
<1> QED
  BY <1>3 DEF TaskCount

(* What an execution becomes in a step of its worker. *)
Nearer(w, e) == /\ exec' = [exec EXCEPT ![w] = e]
                /\ e # Idle /\ e.job = exec[w].job
                /\ Counted(e)
                /\ StepsOf(e, TaskCount(exec[w])) \in Int
                /\ StepsOf(e, TaskCount(exec[w])) < StepsOf(exec[w], TaskCount(exec[w]))

LEMMA StepIsNearer ==
    ASSUME Inv, JudgedInv, NEW w \in Workers, WorkerStep(w), ~Ack(w)
    PROVE  (\E e : Nearer(w, e)) /\ UNCHANGED <<library, asked>>
<1> DEFINE x == exec[w]
           n == TaskCount(x)
<1>0. x.stage \in Stages
  BY DEF WorkerStep, OpenSession, ConnectFails, LibraryRaises, RunTask, TaskRaises,
     TasksDone, JudgeRun, Commit, CommitFails, Publish, PublishFails, SuiteJudged,
     Stages, Busy
<1>1. x # Idle /\ x \in Executions
  BY <1>0, StageIsBusy DEF Inv
<1>2. Counted(x) /\ GoodExecution(x)
  BY <1>1 DEF JudgedInv, Inv, ExecInv
<1>3. n \in Nat
  BY <1>1, TaskCountType
<1>4. /\ x.judged \in Nat /\ Len(x.rows) \in Nat /\ Len(x.tasks) \in Nat
      /\ x.job \in Jobs
  BY <1>1 DEF Executions
<1>5. UNCHANGED <<library, asked>>
  BY DEF WorkerStep, OpenSession, ConnectFails, LibraryRaises, RunTask, TaskRaises,
     TasksDone, JudgeRun, Commit, CommitFails, Publish, PublishFails
<1> SUFFICES \E e : Nearer(w, e)
  BY <1>5
<1> HIDE DEF n
<1>6. ASSUME NEW e \in Executions, exec' = [exec EXCEPT ![w] = e], e.job = x.job,
             Counted(e), StepsOf(e, n) < StepsOf(x, n)
      PROVE  \E d : Nearer(w, d)
  BY <1>3, <1>6, ExecutionIsBusy, StepsAreNumbers DEF Nearer, n
<1>7. CASE OpenSession(w)
  <2> DEFINE tasks == Selected(library, asked[x.job])
             e == [At(x, "tasks") EXCEPT !.tasks = tasks]
  <2>1. x.stage = "open" /\ exec' = [exec EXCEPT ![w] = e]
    BY <1>7 DEF OpenSession, Busy, Move
  <2>2. library \in Seq(Files) /\ asked[x.job] \in Requests
    BY <1>4, RequestType, ConstantsAssumption DEF Inv, TypeOK
  <2>3. tasks \in Seq(TaskIds) /\ Len(tasks) = n
    BY <2>2, SelectionAnswers DEF n, TaskCount
  <2>4. x.rows = <<>> /\ x.judged = 0
    BY <2>1, <1>2 DEF GoodExecution, Coherent, Counted
  <2> HIDE DEF tasks
  <2>5. /\ e \in Executions /\ e.job = x.job /\ e.stage = "tasks"
        /\ e.tasks = tasks /\ e.rows = <<>> /\ e.judged = 0
    BY <1>1, <2>3, <2>4 DEF Executions, At, Stages
  <2> HIDE DEF e
  <2>6. StepsOf(e, n) < StepsOf(x, n)
    <3>1. StepsOf(x, n) = 2 * n + 5
      BY <2>1, StepsByStage
    <3>2. StepsOf(e, n) = (Len(tasks) - Len(<<>>)) + Len(tasks) + 4
      BY <2>5, StepsByStage
    <3> QED
      BY <1>3, <2>3, <3>1, <3>2
  <2>7. Counted(e)
    BY <2>5 DEF Counted
  <2> QED
    BY <1>6, <2>1, <2>5, <2>6, <2>7
<1>8. ASSUME Abort(w), x.stage \in {"open", "tasks", "judge"} PROVE \E d : Nearer(w, d)
  <2> DEFINE e == Aborted(x)
  <2>1. e \in Executions /\ e.job = x.job /\ e.stage = "failed"
    BY <1>1, AbortedType
  <2>2. exec' = [exec EXCEPT ![w] = e]
    BY <1>8 DEF Abort, Move
  <2> HIDE DEF e
  <2>3. StepsOf(e, n) = 1
    BY <2>1, StepsByStage
  <2>4. StepsOf(x, n) > 1
    <3>1. CASE x.stage = "open"
      <4>1. StepsOf(x, n) = 2 * n + 5
        BY <3>1, StepsByStage
      <4> QED
        BY <1>3, <4>1
    <3>2. CASE x.stage = "tasks"
      <4>1. StepsOf(x, n) = (Len(x.tasks) - Len(x.rows)) + Len(x.tasks) + 4
        BY <3>2, StepsByStage
      <4>2. Len(x.rows) <= Len(x.tasks)
        BY <1>2, <3>2 DEF GoodExecution, Coherent, Follows
      <4> QED
        BY <1>4, <4>1, <4>2, Descent
    <3>3. CASE x.stage = "judge"
      <4>1. StepsOf(x, n) = Len(x.rows) - x.judged + 3
        BY <3>3, StepsByStage
      <4>2. x.judged <= Len(x.rows)
        BY <1>2, <3>3 DEF Counted
      <4> QED
        BY <1>4, <4>1, <4>2
    <3> QED
      BY <1>8, <3>1, <3>2, <3>3
  <2>5. StepsOf(e, n) < StepsOf(x, n)
    BY <1>1, <1>3, <2>3, <2>4, StepsAreNumbers
  <2>6. Counted(e)
    BY <2>1 DEF Counted
  <2> QED
    BY <1>6, <2>1, <2>2, <2>5, <2>6
<1>9. CASE RunTask(w)
  <2>1. PICK s \in {"PASS", "ERROR"} : Move(w, RanTask(x, s))
    BY <1>9 DEF RunTask
  <2> DEFINE e == RanTask(x, s)
  <2>2. x.stage = "tasks" /\ Len(x.rows) < Len(x.tasks) /\ x.judged = 0
    BY <1>2, <1>9 DEF RunTask, Busy, Counted
  <2>3. e \in Executions /\ e.job = x.job /\ e.stage = x.stage /\ e.tasks = x.tasks
    BY <1>1, <1>2, <2>2, RanTaskType DEF GoodExecution, Coherent
  <2>4. e.judged = 0 /\ Len(e.rows) = Len(x.rows) + 1
    BY <1>1, <1>4, <2>2 DEF RanTask, Executions
  <2>5. exec' = [exec EXCEPT ![w] = e]
    BY <2>1 DEF Move
  <2> HIDE DEF e
  <2>6. StepsOf(e, n) < StepsOf(x, n)
    <3>1. StepsOf(x, n) = (Len(x.tasks) - Len(x.rows)) + Len(x.tasks) + 4
      BY <2>2, StepsByStage
    <3>2. StepsOf(e, n) = (Len(x.tasks) - (Len(x.rows) + 1)) + Len(x.tasks) + 4
      BY <2>2, <2>3, <2>4, StepsByStage
    <3> QED
      BY <1>4, <3>1, <3>2, Descent
  <2>7. Counted(e)
    BY <2>2, <2>3, <2>4 DEF Counted
  <2> QED
    BY <1>6, <2>3, <2>5, <2>6, <2>7
<1>10. CASE TasksDone(w)
  <2> DEFINE e == At(x, "judge")
  <2>1. x.stage = "tasks" /\ Len(x.rows) = Len(x.tasks) /\ x.judged = 0
    BY <1>2, <1>10 DEF TasksDone, Busy, Counted
  <2>2. /\ e \in Executions /\ e.job = x.job /\ e.stage = "judge"
        /\ e.rows = x.rows /\ e.judged = x.judged
    BY <1>1 DEF At, Executions, Stages
  <2>3. exec' = [exec EXCEPT ![w] = e]
    BY <1>10 DEF TasksDone, Move
  <2> HIDE DEF e
  <2>4. StepsOf(e, n) < StepsOf(x, n)
    <3>1. StepsOf(x, n) = (Len(x.tasks) - Len(x.rows)) + Len(x.tasks) + 4
      BY <2>1, StepsByStage
    <3>2. StepsOf(e, n) = Len(e.rows) - e.judged + 3
      BY <2>2, StepsByStage
    <3> QED
      BY <1>4, <2>1, <2>2, <3>1, <3>2
  <2>5. Counted(e)
    BY <1>4, <2>1, <2>2 DEF Counted
  <2> QED
    BY <1>6, <2>2, <2>3, <2>4, <2>5
<1>11. CASE JudgeRun(w)
  <2>1. x.stage = "judge" /\ x.judged < Len(x.rows)
    BY <1>11 DEF JudgeRun, Busy
  <2>2. ASSUME NEW e \in Executions, exec' = [exec EXCEPT ![w] = e], e.job = x.job,
               e.stage = "judge", e.judged = x.judged + 1, Len(e.rows) = Len(x.rows)
        PROVE  \E d : Nearer(w, d)
    <3>1. StepsOf(e, n) < StepsOf(x, n)
      <4>1. StepsOf(x, n) = Len(x.rows) - x.judged + 3
        BY <2>1, StepsByStage
      <4>2. StepsOf(e, n) = Len(x.rows) - (x.judged + 1) + 3
        BY <2>2, StepsByStage
      <4> QED
        BY <1>4, <4>1, <4>2
    <3>2. Counted(e)
      BY <1>4, <2>1, <2>2 DEF Counted
    <3> QED
      BY <1>6, <2>2, <3>1, <3>2
  <2>3. CASE Move(w, Judged(x))
    <3> DEFINE e == Judged(x)
    <3>1. e \in Executions /\ e.job = x.job /\ e.rows = x.rows /\ e.stage = x.stage
      BY <1>1, JudgedType
    <3>2. e.judged = x.judged + 1
      BY <1>1 DEF Judged, Executions
    <3>3. exec' = [exec EXCEPT ![w] = e]
      BY <2>3 DEF Move
    <3> HIDE DEF e
    <3> QED
      BY <2>1, <2>2, <3>1, <3>2, <3>3
  <2>4. CASE Move(w, Scored(x)) /\ x.rows[x.judged + 1].status = "PASS"
    <3> DEFINE e == Scored(x)
    <3>1. e \in Executions /\ e.job = x.job /\ e.stage = x.stage /\ Len(e.rows) = Len(x.rows)
      BY <1>1, <1>2, <2>1, <2>4, ScoredType DEF GoodExecution, Coherent
    <3>2. e.judged = x.judged + 1
      BY <1>1 DEF Scored, Executions
    <3>3. exec' = [exec EXCEPT ![w] = e]
      BY <2>4 DEF Move
    <3> HIDE DEF e
    <3> QED
      BY <2>1, <2>2, <3>1, <3>2, <3>3
  <2> QED
    BY <1>8, <1>11, <2>1, <2>3, <2>4 DEF JudgeRun
<1>12. ASSUME NEW s \in {"publish", "succeeded", "failed"},
              exec' = [exec EXCEPT ![w] = At(x, s)],
              \/ x.stage = "judge" /\ s = "publish"
              \/ x.stage = "publish" /\ s # "publish"
       PROVE  \E d : Nearer(w, d)
  <2> DEFINE e == At(x, s)
  <2>1. e \in Executions /\ e.job = x.job /\ e.stage = s
    BY <1>1, <1>12, AtType DEF Stages
  <2>2. exec' = [exec EXCEPT ![w] = e]
    BY <1>12
  <2> HIDE DEF e
  <2>3. StepsOf(e, n) < StepsOf(x, n)
    <3>1. CASE x.stage = "judge" /\ s = "publish"
      <4>1. StepsOf(x, n) = Len(x.rows) - x.judged + 3 /\ StepsOf(e, n) = 2
        BY <2>1, <3>1, StepsByStage
      <4>2. x.judged <= Len(x.rows)
        BY <1>2, <3>1 DEF Counted
      <4> QED
        BY <1>4, <4>1, <4>2
    <3>2. CASE x.stage = "publish" /\ s # "publish"
      <4>1. StepsOf(x, n) = 2
        BY <3>2, StepsByStage
      <4>2. StepsOf(e, n) = 1
        BY <1>12, <2>1, <3>2, StepsByStage
      <4> QED
        BY <4>1, <4>2
    <3> QED
      BY <1>12, <3>1, <3>2
  <2>4. Counted(e)
    BY <1>12, <2>1 DEF Counted
  <2> QED
    BY <1>6, <2>1, <2>2, <2>3, <2>4
<1>13. CASE Commit(w)
  <2>1. x.stage = "judge" /\ exec' = [exec EXCEPT ![w] = At(x, "publish")]
    BY <1>13 DEF Commit, SuiteJudged, Busy
  <2> QED
    BY <2>1, <1>12
<1>14. CASE Publish(w) \/ PublishFails(w)
  <2>1. /\ x.stage = "publish"
        /\ \/ exec' = [exec EXCEPT ![w] = At(x, "succeeded")]
           \/ exec' = [exec EXCEPT ![w] = At(x, "failed")]
    BY <1>14 DEF Publish, PublishFails, Move, Busy
  <2> QED
    BY <2>1, <1>12
<1>15. CASE ConnectFails(w) \/ LibraryRaises(w) \/ TaskRaises(w) \/ CommitFails(w)
  BY <1>8, <1>15 DEF ConnectFails, LibraryRaises, TaskRaises, CommitFails, SuiteJudged, Busy
<1> QED
  BY <1>7, <1>9, <1>10, <1>11, <1>13, <1>14, <1>15 DEF WorkerStep

(* Whatever is not a step of worker w, or a death that takes w along, leaves its
   execution and what it is about to select. *)
LEMMA OthersLeave ==
    ASSUME Inv, NEW w \in Workers, exec[w] # Idle, [Next]_vars, ~WorkerStep(w)
    PROVE  \/ exec'[w] = Idle
           \/ /\ exec'[w] = exec[w]
              /\ UNCHANGED <<library, asked[exec[w].job]>>
<1>1. exec \in [Workers -> Executions \union {Idle}] /\ exec[w] \in Executions
  BY BusyExecution DEF Inv, TypeOK
<1>2. Taken(exec[w].job) /\ exec[w].job \in Jobs
  BY <1>1 DEF Inv, ExecInv, GoodExecution, Executions
<1>3. ASSUME NEW j \in Jobs, CreateRun(j) \/ CreateRunFails(j) \/ Restore(j)
      PROVE  exec' = exec /\ UNCHANGED <<library, asked[exec[w].job]>>
  BY <1>2, <1>3 DEF CreateRun, CreateRunFails, Restore, Taken, Inv, TypeOK
<1>4. ASSUME NEW v \in Workers, NEW j \in Jobs, Deliver(v, j)
      PROVE  exec'[w] = exec[w] /\ UNCHANGED <<library, asked>>
  BY <1>1, <1>4 DEF Deliver
<1>5. ASSUME NEW v \in Workers \ {w}, WorkerStep(v)
      PROVE  exec'[w] = exec[w] /\ UNCHANGED <<library, asked>>
  BY <1>1, <1>5 DEF WorkerStep, OpenSession, ConnectFails, LibraryRaises, RunTask, TaskRaises,
     TasksDone, JudgeRun, Commit, CommitFails, Publish, PublishFails, Ack, Abort, Move
<1>6. ASSUME NEW v \in Workers, ProcessDies(v)
      PROVE  exec'[w] \in {Idle, exec[w]} /\ UNCHANGED <<library, asked>>
  BY <1>1, <1>6 DEF ProcessDies
<1>7. CASE NodeDies
  BY <1>7 DEF NodeDies
<1>8. ASSUME NEW j \in Jobs, ResultExpires(j) PROVE exec' = exec /\ UNCHANGED <<library, asked>>
  BY <1>8 DEF ResultExpires
<1>9. CASE UNCHANGED vars
  BY <1>9 DEF vars
<1> QED
  BY <1>3, <1>4, <1>5, <1>6, <1>7, <1>8, <1>9 DEF Next, Fault, Rest

LEMMA JudgedNext == Inv /\ JudgedInv /\ [Next]_vars => JudgedInv'
<1> SUFFICES ASSUME Inv, JudgedInv, [Next]_vars, NEW w \in Workers, exec'[w] # Idle
             PROVE  Counted(exec'[w])
  BY DEF JudgedInv, Counted
<1>1. exec \in [Workers -> Executions \union {Idle}]
  BY DEF Inv, TypeOK
<1>2. CASE exec[w] = Idle
  <2>1. CASE \E j \in Jobs : Deliver(w, j)
    <3>1. exec'[w].stage = "open" /\ exec'[w].judged = 0
      BY <1>1, <2>1 DEF Deliver
    <3> QED
      BY <3>1 DEF Counted
  <2>2. ASSUME \A j \in Jobs : ~Deliver(w, j) PROVE exec'[w] = exec[w]
    <3>1. ~WorkerStep(w)
      <4>1. exec[w].stage \notin Stages
        BY <1>2, IdleIsNoStage
      <4> QED
        BY <4>1 DEF WorkerStep, OpenSession, ConnectFails, LibraryRaises, RunTask, TaskRaises,
           TasksDone, JudgeRun, Commit, CommitFails, Publish, PublishFails, Ack,
           SuiteJudged, Stages, Busy
    <3>2. ASSUME NEW v \in Workers \ {w}, WorkerStep(v) \/ \E j \in Jobs : Deliver(v, j)
          PROVE  exec'[w] = exec[w]
      BY <1>1, <3>2 DEF Deliver, WorkerStep, OpenSession, ConnectFails, LibraryRaises, RunTask,
         TaskRaises, TasksDone, JudgeRun, Commit, CommitFails, Publish, PublishFails, Ack,
         Abort, Move
    <3>3. CASE Fault \/ UNCHANGED vars \/ Rest
      BY <1>1, <1>2, <3>3 DEF Fault, ProcessDies, NodeDies, ResultExpires, Rest, vars
    <3>4. ASSUME NEW j \in Jobs, CreateRun(j) \/ CreateRunFails(j) \/ Restore(j)
          PROVE  exec' = exec
      BY <3>4 DEF CreateRun, CreateRunFails, Restore
    <3> QED
      BY <2>2, <3>1, <3>2, <3>3, <3>4 DEF Next
  <2> QED
    BY <1>2, <2>1, <2>2
<1>3. CASE exec[w] # Idle /\ WorkerStep(w) /\ ~Ack(w)
  <2>1. PICK e : Nearer(w, e)
    BY <1>3, StepIsNearer
  <2> QED
    BY <1>1, <2>1 DEF Nearer
<1>4. ~Ack(w)
  BY <1>1 DEF Ack
<1>5. CASE exec[w] # Idle /\ ~WorkerStep(w)
  BY <1>5, OthersLeave DEF JudgedInv
<1> QED
  BY <1>2, <1>3, <1>4, <1>5

(* A delivery ends after two steps a task and five more, for any number of tasks,
   jobs and workers, whatever fails, dies or is asked meanwhile. *)
THEOREM SuitesRunOut == Spec => [][NearerItsEnd]_vars
<1>1. Init => JudgedInv
  BY DEF Init, JudgedInv
<1>2. ASSUME Inv, JudgedInv, [Next]_vars, NEW w \in Workers, exec[w] # Idle
      PROVE  /\ Left(w) \in Nat \ {0}
             /\ Left(w)' <= Left(w)
             /\ WorkerStep(w) => Left(w)' < Left(w)
  <2>1. exec[w] \in Executions /\ exec \in [Workers -> Executions \union {Idle}]
    BY <1>2, BusyExecution DEF Inv, TypeOK
  <2>2. Left(w) = StepsOf(exec[w], TaskCount(exec[w])) /\ Left(w) \in Nat \ {0}
    BY <1>2, <2>1, TaskCountType, StepsType DEF Left, JudgedInv
  <2>3. exec'[w] = Idle => Left(w)' = 0
    BY DEF Left
  <2>4. CASE WorkerStep(w) /\ ~Ack(w)
    <3>1. PICK e : Nearer(w, e)
      BY <1>2, <2>4, StepIsNearer
    <3>2. UNCHANGED <<library, asked>>
      BY <1>2, <2>4, StepIsNearer
    <3>3. exec'[w] = e /\ e # Idle /\ e.job = exec[w].job
      BY <2>1, <3>1 DEF Nearer
    <3>4. Left(w)' = StepsOf(e, TaskCount(exec[w]))
      BY <3>2, <3>3 DEF Left, TaskCount, StepsOf
    <3>5. Left(w)' < Left(w)
      BY <2>2, <3>1, <3>4 DEF Nearer
    <3>6. Left(w)' \in Int
      BY <3>1, <3>4 DEF Nearer
    <3> QED
      BY <2>2, <3>5, <3>6
  <2>5. CASE Ack(w)
    <3>1. exec'[w] = Idle
      BY <2>1, <2>5 DEF Ack
    <3> QED
      BY <2>2, <2>3, <3>1
  <2>6. CASE ~WorkerStep(w)
    <3>1. CASE exec'[w] = Idle
      BY <2>2, <2>3, <2>6, <3>1
    <3>2. CASE exec'[w] = exec[w] /\ UNCHANGED <<library, asked[exec[w].job]>>
      <4>1. Left(w)' = Left(w)
        BY <3>2 DEF Left, StepsOf, TaskCount
      <4> QED
        BY <2>2, <2>6, <4>1
    <3> QED
      BY <1>2, <2>6, <3>1, <3>2, OthersLeave
  <2> QED
    BY <2>4, <2>5, <2>6
<1>3. Inv /\ JudgedInv /\ [Next]_vars => [NearerItsEnd]_vars
  BY <1>2 DEF NearerItsEnd
<1> QED
  BY <1>1, <1>3, JudgedNext, Invariance, PTL DEF Spec
-----------------------------------------------------------------------------
(* The job implements its contract.  What the refinement mapping shows of the
   state: *)
Accepted == {j \in Jobs : msg[j] \notin {"absent", "refused"}}
SuitesOf == [j \in Jobs |-> {c.rows : c \in {d \in committed : d.job = j}}]
ResultOf == [j \in Jobs |-> IF result[j] = NoResult THEN {} ELSE {result[j]}]

Seen == <<Accepted, SuitesOf, ResultOf>>

LEMMA ContractStutter == UNCHANGED Seen => [Contract!Next]_(Contract!vars)
  BY DEF Seen, Accepted, SuitesOf, ResultOf, Contract!vars

LEMMA ContractStep ==
    ASSUME NEW j \in Jobs,
           \/ Contract!Accept(j) \/ Contract!CommitSuite(j)
           \/ Contract!Publish(j) \/ Contract!Expire(j)
    PROVE  Contract!Next
  BY Zenon DEF Contract!Next

LEMMA CreateRunAccepts ==
    ASSUME TypeOK, NEW j \in Jobs, CreateRun(j) PROVE Contract!Accept(j)
<1>1. Accepted' = Accepted \union {j} /\ j \notin Accepted
  BY DEF CreateRun, TypeOK, Accepted
<1>2. UNCHANGED <<SuitesOf, ResultOf>>
  BY DEF CreateRun, SuitesOf, ResultOf
<1> QED
  BY <1>1, <1>2 DEF Contract!Accept, Accepted, SuitesOf, ResultOf

LEMMA CommitCommits ==
    ASSUME Inv, NEW w \in Workers, NEW j \in Jobs, exec[w].job = j, Commit(w)
    PROVE  Contract!CommitSuite(j)
<1> DEFINE s == exec[w].rows
<1>1. exec[w] # Idle /\ exec[w] \in Executions
  BY StageIsBusy DEF Commit, SuiteJudged, Busy, Stages, Inv
<1>2. s \in Seq(Rows) /\ j \in Accepted
  BY <1>1 DEF Executions, Inv, ExecInv, GoodExecution, Taken, Accepted
<1>3. /\ committed' = committed \union {Suite(exec[w])}
      /\ Suite(exec[w]).job = j /\ Suite(exec[w]).rows = s
      /\ UNCHANGED <<msg, result>>
  BY DEF Commit, Suite
<1> HIDE DEF s
<1>4. SuitesOf'[j] = SuitesOf[j] \union {s}
  BY <1>2, <1>3 DEF SuitesOf
<1>5. \A i \in Jobs \ {j} : SuitesOf'[i] = SuitesOf[i]
  BY <1>2, <1>3 DEF SuitesOf
<1>6. SuitesOf' = [SuitesOf EXCEPT ![j] = @ \union {s}]
  BY <1>2, <1>4, <1>5 DEF SuitesOf
<1>7. UNCHANGED <<Accepted, ResultOf>>
  BY <1>3 DEF Accepted, ResultOf
<1> QED
  BY <1>2, <1>4, <1>6, <1>7 DEF Contract!CommitSuite, Accepted, SuitesOf, ResultOf

LEMMA PublishPublishes ==
    ASSUME Inv, NEW w \in Workers, NEW j \in Jobs, exec[w].job = j, Publish(w)
    PROVE  Contract!Publish(j)
<1> DEFINE s == exec[w].rows
<1>1. exec[w].stage = "publish" /\ exec[w] # Idle /\ exec[w] \in Executions
  BY StageIsBusy DEF Publish, Busy, Stages, Inv
<1>2. s \in Seq(Rows) /\ Suite(exec[w]) \in committed
  BY <1>1 DEF Executions, Inv, ExecInv, GoodExecution
<1>3. /\ result' = [result EXCEPT ![j] = Summary(s)]
      /\ Suite(exec[w]).job = j /\ Suite(exec[w]).rows = s
      /\ UNCHANGED <<msg, committed>>
  BY DEF Publish, Suite, Move
<1> HIDE DEF s
<1>4. s \in SuitesOf[j]
  BY <1>2, <1>3 DEF SuitesOf
<1>5. result'[j] # NoResult /\ result'[j] = Summary(s)
  BY <1>2, <1>3, SummaryType DEF Inv, TypeOK
<1>6. ResultOf' = [ResultOf EXCEPT ![j] = {Summary(s)}]
  BY <1>2, <1>3, <1>5 DEF ResultOf, Inv, TypeOK
<1>7. UNCHANGED <<Accepted, SuitesOf>>
  BY <1>3 DEF Accepted, SuitesOf
<1> QED
  BY <1>4, <1>6, <1>7 DEF Contract!Publish, Accepted, SuitesOf, ResultOf

LEMMA ExpiryExpires ==
    ASSUME TypeOK, NEW j \in Jobs, ResultExpires(j) PROVE Contract!Expire(j)
<1>1. ResultOf' = [ResultOf EXCEPT ![j] = {}]
  BY DEF ResultExpires, ResultOf, TypeOK
<1>2. UNCHANGED <<Accepted, SuitesOf>>
  BY DEF ResultExpires, Accepted, SuitesOf
<1> QED
  BY <1>1, <1>2 DEF Contract!Expire, Accepted, SuitesOf, ResultOf

(* A message that was accepted stays so. *)
LEMMA AckIsUnseen ==
    ASSUME TypeOK, NEW j \in Jobs, msg' = Acked(j), UNCHANGED <<committed, result>>
    PROVE  UNCHANGED Seen
<1>1. Accepted' = Accepted
  BY DEF TypeOK, Acked, Accepted
<1> QED
  BY <1>1 DEF Seen, SuitesOf, ResultOf

LEMMA StepImplements == Inv /\ [Next]_vars => [Contract!Next]_(Contract!vars)
<1> SUFFICES ASSUME Inv, [Next]_vars PROVE [Contract!Next]_(Contract!vars)
  OBVIOUS
<1> USE DEF Inv
<1>1. ASSUME UNCHANGED <<msg, committed, result>> PROVE UNCHANGED Seen
  BY <1>1 DEF Seen, Accepted, SuitesOf, ResultOf
<1>2. ASSUME NEW j \in Jobs, CreateRun(j) PROVE Contract!Next
  BY <1>2, CreateRunAccepts DEF Contract!Next
<1>13. ASSUME NEW j \in Jobs, CreateRunFails(j) PROVE UNCHANGED Seen
  <2>1. Accepted' = Accepted
    BY <1>13 DEF CreateRunFails, Accepted, TypeOK
  <2> QED
    BY <1>13, <2>1 DEF CreateRunFails, Seen, SuitesOf, ResultOf
<1>3. ASSUME NEW j \in Jobs, Restore(j) PROVE UNCHANGED Seen
  <2>1. Accepted' = Accepted
    BY <1>3 DEF Restore, Accepted, TypeOK
  <2> QED
    BY <1>3, <2>1 DEF Restore, Seen, SuitesOf, ResultOf
<1>4. ASSUME NEW w \in Workers, NEW j \in Jobs, Deliver(w, j) PROVE UNCHANGED Seen
  <2>1. Accepted' = Accepted
    BY <1>4 DEF Deliver, Accepted, TypeOK
  <2> QED
    BY <1>4, <2>1 DEF Deliver, Seen, SuitesOf, ResultOf
<1>5. ASSUME NEW w \in Workers, Commit(w) PROVE Contract!Next
  <2>1. exec[w] \in Executions
    BY <1>5, StageIsBusy DEF Commit, SuiteJudged, Busy, Stages
  <2>2. PICK j \in Jobs : exec[w].job = j
    BY <2>1 DEF Executions
  <2>3. Contract!CommitSuite(j)
    BY <1>5, <2>2, CommitCommits
  <2> QED
    BY <2>3, ContractStep
<1>6. ASSUME NEW w \in Workers, Publish(w) PROVE Contract!Next
  <2>1. exec[w] \in Executions
    BY <1>6, StageIsBusy DEF Publish, SuiteJudged, Busy, Stages
  <2>2. PICK j \in Jobs : exec[w].job = j
    BY <2>1 DEF Executions
  <2>3. Contract!Publish(j)
    BY <1>6, <2>2, PublishPublishes
  <2> QED
    BY <2>3, ContractStep
<1>7. ASSUME NEW w \in Workers, Ack(w) PROVE UNCHANGED Seen
  <2>1. exec[w].job \in Jobs
    BY <1>7, StageIsBusy DEF Ack, Stages, Executions
  <2> QED
    BY <1>7, <2>1, AckIsUnseen DEF Ack
<1>8. ASSUME NEW w \in Workers, WorkerStep(w), ~Commit(w), ~Publish(w), ~Ack(w)
      PROVE  UNCHANGED Seen
  BY <1>1, <1>8 DEF WorkerStep, OpenSession, ConnectFails, LibraryRaises, RunTask, TaskRaises, TasksDone, JudgeRun,
     CommitFails, PublishFails, Move, Abort
<1>9. ASSUME NEW w \in Workers, ProcessDies(w) PROVE UNCHANGED Seen
  <2>1. exec[w].job \in Jobs
    BY <1>9, BusyExecution DEF ProcessDies, Executions
  <2> QED
    BY <1>9, <2>1, AckIsUnseen DEF ProcessDies
<1>10. CASE NodeDies
  BY <1>1, <1>10, ContractStutter DEF NodeDies
<1>11. ASSUME NEW j \in Jobs, ResultExpires(j) PROVE Contract!Next
  BY <1>11, ExpiryExpires DEF Contract!Next
<1>12. CASE UNCHANGED vars
  BY <1>1, <1>12, ContractStutter DEF vars
<1> QED
  BY <1>2, <1>3, <1>4, <1>5, <1>6, <1>7, <1>8, <1>9, <1>10, <1>11, <1>12, <1>13,
     ContractStutter DEF Next, Fault, Rest, WorkerStep

(* An eval job keeps the contract of JobContract: suites appear whole, are never
   withdrawn, and a readable result summarises one of them. *)
THEOREM JobKeepsContract == Spec => ImplementsContract
<1>1. Init => Contract!Init
  <2> SUFFICES ASSUME Init PROVE Contract!Init
    OBVIOUS
  <2>1. Accepted = {} /\ SuitesOf = [j \in Jobs |-> {}] /\ ResultOf = [j \in Jobs |-> {}]
    BY DEF Init, Accepted, SuitesOf, ResultOf
  <2> QED
    BY <2>1 DEF Contract!Init, Accepted, SuitesOf, ResultOf
<1> QED
  BY <1>1, Invariance, StepImplements, PTL DEF Spec, ImplementsContract, Contract!Spec
=============================================================================
