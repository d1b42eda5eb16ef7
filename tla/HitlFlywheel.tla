----------------------------- MODULE HitlFlywheel -----------------------------
(***************************************************************************)
(* Human review: POST /hitl/{run_id}/annotate turns a run into a row of    *)
(* the golden set and a regression test.  The row is flushed, the test is  *)
(* written beside the database (to a temporary file that is then renamed), *)
(* and the session commits when the handler has returned.  The API runs in *)
(* several processes over one directory; the handlers of a process share   *)
(* its event loop, which the writing of a file blocks.                     *)
(***************************************************************************)
EXTENDS Naturals

CONSTANTS
    Runs,      \* run ids
    Tasks,     \* task ids
    Ids,       \* what the first eight digits of a UUID may be
    Servers,   \* the uvicorn workers of the API
    Requests,  \* bound: the annotations posted
    TakesAwareTimes, \* whether the driver stores a time with a zone in a column without one
    MaxDeaths  \* bound: how often a worker dies

ASSUME ConstantsAssumption == TakesAwareTimes \in BOOLEAN /\ MaxDeaths \in Nat

VARIABLES
    runs,    \* the committed run rows
    golden,  \* the committed rows of the golden set
    files,   \* tests/golden_set: the tests by name
    tmp,     \* the temporary files beside them
    req,     \* per request, how far its handler is, and the run and id it is about
    answer,  \* per request, what the client was told
    deaths,  \* history: how often a worker died
    faulted  \* history: requests whose commit failed or whose worker died

vars == <<runs, golden, files, tmp, req, answer, deaths, faulted>>

NoRun    == [status |-> "none"]
RunRows  == [status : {"PASS", "ERROR"}, task : Tasks]
Names    == Tasks \X Ids
NoFile   == [by |-> "nobody"]
Contents == [by : Requests, whole : BOOLEAN, column : Nat]
New      == [stage |-> "new"]
Over     == [stage |-> "over"]
Stages   == {"adding", "flushed", "writing", "written", "generated"}
Handled  == [stage : Stages, at : Servers, run : Runs, name : Names]
Golden   == [id : Ids, name : Names, run : Runs, by : Requests]

TypeOK ==
    /\ runs \in [Runs -> RunRows \union {NoRun}]
    /\ golden \in SUBSET Golden
    /\ files \in [Names -> Contents \union {NoFile}]
    /\ tmp \in [Names -> Contents \union {NoFile}]
    /\ req \in [Requests -> Handled \union {New, Over}]
    /\ answer \in [Requests -> {"none", "annotated", "not_found", "error"}]
    /\ deaths \in 0..MaxDeaths
    /\ faulted \in SUBSET Requests

Init ==
    /\ runs = [r \in Runs |-> NoRun]
    /\ golden = {}
    /\ files = [n \in Names |-> NoFile] /\ tmp = [n \in Names |-> NoFile]
    /\ req = [q \in Requests |-> New]
    /\ answer = [q \in Requests |-> "none"]
    /\ deaths = 0 /\ faulted = {}

-----------------------------------------------------------------------------
(* Mutant: a run is committed before it has ended. *)
M_CommitRun(r) ==
    /\ runs[r] = NoRun
    /\ \E t \in Tasks : runs' = [runs EXCEPT ![r] = [status |-> "RUNNING", task |-> t]]
    /\ UNCHANGED <<golden, files, tmp, req, answer, deaths, faulted>>

(* A suite's transaction makes a run visible, with its trajectory exactly if it
   passed: see RunEvalTask!PassIffTrajectory and EvalJob. *)
CommitRun(r) ==
    /\ runs[r] = NoRun
    /\ \E row \in RunRows : runs' = [runs EXCEPT ![r] = row]
    /\ UNCHANGED <<golden, files, tmp, req, answer, deaths, faulted>>

HasTrajectory(r) == runs[r].status = "PASS"
-----------------------------------------------------------------------------
(* The test that is generated. *)

(* textwrap.dedent takes the common margin off the template, whose lines begin
   at column 12; but the list of checkpoints is already in the text, and ends
   with a bracket at column 0.  (The handler passes no checkpoints.) *)
TemplateColumn == 12
BracketColumn  == 0
Margin         == IF BracketColumn < TemplateColumn THEN BracketColumn ELSE TemplateColumn

Test(q, whole) == [by |-> q, whole |-> whole, column |-> TemplateColumn - Margin]
-----------------------------------------------------------------------------
(* The handler of a request. *)
At(q, s) == req[q].stage = s

(* Somebody writes a file in the event loop of worker w. *)
Blocked(w) == \E p \in Requests :
                 req[p].stage \in {"writing", "written"} /\ req[p].at = w

Move(q, s) == req' = [req EXCEPT ![q].stage = s]

(* The handler raised: the session is rolled back, the client gets a 500. *)
Raised(q) ==
    /\ req' = [req EXCEPT ![q] = Over]
    /\ answer' = [answer EXCEPT ![q] = "error"]

NotFound(q, w, r) ==
    /\ At(q, "new") /\ ~Blocked(w)
    /\ runs[r] = NoRun \/ ~HasTrajectory(r)
    /\ req' = [req EXCEPT ![q] = Over]
    /\ answer' = [answer EXCEPT ![q] = "not_found"]
    /\ UNCHANGED <<runs, golden, files, tmp, deaths, faulted>>

(* Run and trajectory were committed together, and neither changes any more. *)
Annotate(q, w, r) ==
    /\ At(q, "new") /\ ~Blocked(w)
    /\ runs[r] # NoRun /\ HasTrajectory(r)
    /\ \E i \in Ids :
          req' = [req EXCEPT ![q] = [stage |-> "adding", at |-> w, run |-> r,
                                     name |-> <<runs[r].task, i>>]]
    /\ UNCHANGED <<runs, golden, files, tmp, answer, deaths, faulted>>

IdOf(q)    == req[q].name[2]
Pending(q) == req[q].stage \in {"flushed", "writing", "written", "generated"}

(* Mutant: the insert waits for nobody, as if annotation_id were no key. *)
M_Flush(q) ==
    /\ At(q, "adding") /\ ~Blocked(req[q].at)
    /\ \/ TakesAwareTimes /\ Move(q, "flushed") /\ UNCHANGED answer
       \/ Raised(q)
    /\ UNCHANGED <<runs, golden, files, tmp, deaths, faulted>>

(* Mutant: an identifier that is taken is drawn again, for ever. *)
M_Flush_Redraws(q) ==
    /\ At(q, "adding") /\ ~Blocked(req[q].at)
    /\ \A p \in Requests : Pending(p) => IdOf(p) # IdOf(q)
    /\ IF \E g \in golden : g.id = IdOf(q)
       THEN \E i \in Ids : req' = [req EXCEPT ![q].name[2] = i]
       ELSE TakesAwareTimes /\ Move(q, "flushed")
    /\ UNCHANGED <<runs, golden, files, tmp, answer, deaths, faulted>>

(* The row, whose created_at bears a zone, is added to the session and flushed.
   The database holds an insert back while another transaction has inserted its
   key, and refuses it once that key is committed; any statement so far may fail
   as well. *)
Flush(q) ==
    /\ At(q, "adding") /\ ~Blocked(req[q].at)
    /\ \A p \in Requests : Pending(p) => IdOf(p) # IdOf(q)
    /\ \/ /\ TakesAwareTimes
          /\ \A g \in golden : g.id # IdOf(q)
          /\ Move(q, "flushed") /\ UNCHANGED answer
       \/ Raised(q)
    /\ UNCHANGED <<runs, golden, files, tmp, deaths, faulted>>

(* Mutant: the test is opened under its own name. *)
M_OpenTmp(q) ==
    /\ At(q, "flushed") /\ ~Blocked(req[q].at)
    /\ \/ /\ files' = [files EXCEPT ![req[q].name] = Test(q, FALSE)]
          /\ Move(q, "writing") /\ UNCHANGED answer
       \/ Raised(q) /\ UNCHANGED files
    /\ UNCHANGED <<runs, golden, tmp, deaths, faulted>>

(* The file is opened, and its directory made, or not. *)
OpenTmp(q) ==
    /\ At(q, "flushed") /\ ~Blocked(req[q].at)
    /\ \/ /\ tmp' = [tmp EXCEPT ![req[q].name] = Test(q, FALSE)]
          /\ Move(q, "writing") /\ UNCHANGED answer
       \/ Raised(q) /\ UNCHANGED tmp
    /\ UNCHANGED <<runs, golden, files, deaths, faulted>>

WriteTmp(q) ==
    /\ At(q, "writing")
    /\ \/ /\ tmp' = [tmp EXCEPT ![req[q].name] = Test(q, TRUE)]
          /\ Move(q, "written") /\ UNCHANGED answer
       \/ Raised(q) /\ UNCHANGED tmp
    /\ UNCHANGED <<runs, golden, files, deaths, faulted>>

Replace(q) ==
    /\ At(q, "written")
    /\ \/ /\ files' = [files EXCEPT ![req[q].name] = tmp[req[q].name]]
          /\ tmp' = [tmp EXCEPT ![req[q].name] = NoFile]
          /\ Move(q, "generated") /\ UNCHANGED answer
       \/ Raised(q) /\ UNCHANGED <<files, tmp>>
    /\ UNCHANGED <<runs, golden, deaths, faulted>>

(* FastAPI (any version from 0.111 on) sends the answer before it leaves the
   dependency that commits, or after. *)
AnswerFirst(q) ==
    /\ At(q, "generated") /\ ~Blocked(req[q].at) /\ answer[q] = "none"
    /\ answer' = [answer EXCEPT ![q] = "annotated"]
    /\ UNCHANGED <<runs, golden, files, tmp, req, deaths, faulted>>

(* Mutant: the session is closed without a commit. *)
M_Commit(q) ==
    /\ At(q, "generated") /\ ~Blocked(req[q].at)
    /\ req' = [req EXCEPT ![q] = Over]
    /\ answer' = [answer EXCEPT ![q] = "annotated"]
    /\ UNCHANGED <<runs, golden, files, tmp, deaths, faulted>>

Commit(q) ==
    /\ At(q, "generated") /\ ~Blocked(req[q].at)
    /\ golden' = golden \union {[id |-> IdOf(q), name |-> req[q].name, run |-> req[q].run, by |-> q]}
    /\ req' = [req EXCEPT ![q] = Over]
    /\ answer' = [answer EXCEPT ![q] = "annotated"]
    /\ UNCHANGED <<runs, files, tmp, deaths, faulted>>

(* An answer that was sent is not taken back. *)
CommitFails(q) ==
    /\ At(q, "generated") /\ ~Blocked(req[q].at)
    /\ req' = [req EXCEPT ![q] = Over]
    /\ answer' = [answer EXCEPT ![q] = IF @ = "none" THEN "error" ELSE @]
    /\ faulted' = faulted \union {q}
    /\ UNCHANGED <<runs, golden, files, tmp, deaths>>

(* A worker dies with all its handlers; files stay as they are. *)
Open(q)   == ~At(q, "new") /\ ~At(q, "over")
HeldBy(w) == {q \in Requests : Open(q) /\ req[q].at = w}

WorkerDies(w) ==
    /\ deaths < MaxDeaths
    /\ HeldBy(w) # {}
    /\ deaths' = deaths + 1
    /\ req' = [q \in Requests |-> IF q \in HeldBy(w) THEN Over ELSE req[q]]
    /\ faulted' = faulted \union HeldBy(w)
    /\ UNCHANGED <<runs, golden, files, tmp, answer>>
-----------------------------------------------------------------------------
Handle(q) == \/ \E w \in Servers, r \in Runs : NotFound(q, w, r) \/ Annotate(q, w, r)
             \/ Flush(q) \/ OpenTmp(q) \/ WriteTmp(q) \/ Replace(q)
             \/ AnswerFirst(q) \/ Commit(q) \/ CommitFails(q)

(* Where everything is handled. *)
Rest == /\ \A q \in Requests : At(q, "over")
        /\ UNCHANGED vars

Next == \/ \E r \in Runs : CommitRun(r)
        \/ \E q \in Requests : Handle(q)
        \/ \E w \in Servers : WorkerDies(w)
        \/ Rest

(* A handler goes on once it has begun: its awaits are of the database. *)
Fairness == \A q \in Requests : WF_vars(Open(q) /\ Handle(q))

Spec == Init /\ [][Next]_vars /\ Fairness
-----------------------------------------------------------------------------
(* Properties *)

(* A committed row of the golden set has its test: the file that its own
   annotation wrote, whole.  Neither an identifier drawn twice, nor a commit or
   a process that failed between row and file, can leave a row without a test
   or with the test of another annotation. *)
GoldenRowHasItsTest ==
    \A g \in golden : files[g.name] # NoFile /\ files[g.name].by = g.by
                                            /\ files[g.name].whole

(* generator.py: "a partial write never leaves a broken test on disk", also if
   two workers write at once or one dies. *)
TestsAreWhole == \A n \in Names : files[n] # NoFile => files[n].whole

(* A test that no row backs once its request is over is the trace of a commit
   that failed or a worker that died, and so is an answer that was not kept. *)
OrphansNeedFaults ==
    \A q \in Requests :
        /\ At(q, "over") /\ q \notin faulted
        /\ answer[q] = "annotated" \/ \E n \in Names : files[n] # NoFile /\ files[n].by = q
        => \E g \in golden : g.by = q

(* Every annotation that is begun ends, also if the database holds its insert
   back for the sake of another one. *)
EveryRequestEnds == \A q \in Requests : At(q, "adding") ~> At(q, "over")

(* What comments and documents of the repository say. *)

(* generator.py: "executable pytest files": a module's first statement begins
   at column 0. *)
TestsAreExecutable == \A n \in Names : files[n] # NoFile => files[n].column = 0
=============================================================================
