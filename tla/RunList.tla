------------------------------- MODULE RunList -------------------------------
(***************************************************************************)
(* The read endpoints of the run API: the list, newest first and page by   *)
(* page, and the detail and the trace of one run, while suites commit.     *)
(* A page is one statement, so it shows the rows of one moment; the pages  *)
(* of one reading may belong to different ones.  Committed runs have ended *)
(* (RunEvalTask!PassIffTrajectory) and no code changes or deletes them.    *)
(***************************************************************************)
EXTENDS Naturals, FiniteSets

CONSTANTS
    RunIds,     \* the runs that may ever be committed
    Started,    \* per run, its started_at, the time the suite reached it
    Clients,    \* readers of the list
    Limits      \* bound: the page sizes they ask for

(* Two runs may start at one microsecond in two processes; the database then
   orders them as it likes from page to page.  This case is left out. *)
ASSUME RunsAssumption ==
    /\ IsFiniteSet(RunIds)
    /\ Started \in [RunIds -> Nat]
    /\ \A r, s \in RunIds : Started[r] = Started[s] => r = s
    /\ Limits \subseteq Nat \ {0}

VARIABLES
    rows,       \* per run, its committed status, or "absent"
    reading,    \* per client, how far it has read the list
    answer      \* per client, the last detail or trace it got

vars == <<rows, reading, answer>>

NoStatus == "none"
Statuses == {"PASS", "ERROR"}
Filters  == {NoStatus, "PASS", "FAIL", "ERROR"}

Idle     == [stage |-> "idle"]
Readings == [stage : {"more", "over"}, status : Filters, limit : Limits, offset : Nat,
             shown : SUBSET [run : RunIds, status : Statuses],
             got : Nat,                 \* history: rows received
             wanted : SUBSET RunIds]    \* history: runs there were at the first page

NoAnswer == [of |-> "nothing"]
Answers  == [of : {"detail", "trace"}, run : RunIds, found : BOOLEAN,
             status : Statuses \union {"absent"}, trajectory : BOOLEAN]

TypeOK ==
    /\ rows \in [RunIds -> Statuses \union {"absent"}]
    /\ reading \in [Clients -> Readings \union {Idle}]
    /\ answer \in [Clients -> Answers \union {NoAnswer}]

Init ==
    /\ rows = [r \in RunIds |-> "absent"]
    /\ reading = [c \in Clients |-> Idle]
    /\ answer = [c \in Clients |-> NoAnswer]
-----------------------------------------------------------------------------
(* Mutant: a suite that is run again saves its runs under their old ids. *)
M_CommitSuite ==
    /\ \E suite \in SUBSET RunIds \ {{}} : \E status \in [suite -> Statuses] :
          rows' = [r \in RunIds |-> IF r \in suite THEN status[r] ELSE rows[r]]
    /\ UNCHANGED <<reading, answer>>

(* Mutant: each run of a suite is committed for itself, when it starts. *)
M_CommitSuite_Running ==
    /\ \E r \in RunIds : rows[r] = "absent" /\ rows' = [rows EXCEPT ![r] = "RUNNING"]
    /\ UNCHANGED <<reading, answer>>

(* A worker commits a suite.  Two workers' runs may have started in any order,
   so it may hold runs older than some that are listed. *)
CommitSuite ==
    /\ \E suite \in SUBSET {r \in RunIds : rows[r] = "absent"} \ {{}} :
       \E status \in [suite -> Statuses] :
          rows' = [r \in RunIds |-> IF r \in suite THEN status[r] ELSE rows[r]]
    /\ UNCHANGED <<reading, answer>>

(* PostgresRunRepository.list: WHERE, ORDER BY started_at DESC, LIMIT, OFFSET. *)
Listed(status) ==
    {r \in RunIds : rows[r] # "absent" /\ status \in {NoStatus, rows[r]}}

(* How many listed runs come before run r. *)
Rank(r, status) == Cardinality({s \in Listed(status) : Started[s] > Started[r]})

(* Mutant: a page is cut first and filtered afterwards. *)
M_Page(status, limit, offset) ==
    {r \in Listed(status) : Rank(r, NoStatus) \in offset..(offset + limit - 1)}

(* Mutant: a page ends one row late. *)
M_Page_Late(status, limit, offset) ==
    {r \in Listed(status) : Rank(r, status) \in offset..(offset + limit)}

Page(status, limit, offset) ==
    {r \in Listed(status) : Rank(r, status) \in offset..(offset + limit - 1)}

Begin(c) ==
    /\ reading[c] = Idle
    /\ \E status \in Filters, limit \in Limits :
          reading' = [reading EXCEPT ![c] =
              [stage |-> "more", status |-> status, limit |-> limit, offset |-> 0,
               shown |-> {}, got |-> 0, wanted |-> Listed(status)]]
    /\ UNCHANGED <<rows, answer>>

(* list_runs: the next page; one that is not full is the last. *)
ListRuns(c) ==
    /\ reading[c].stage = "more"
    /\ LET e    == reading[c]
           page == Page(e.status, e.limit, e.offset)
       IN  reading' = [reading EXCEPT ![c] = [e EXCEPT
               !.stage  = IF Cardinality(page) < e.limit THEN "over" ELSE "more",
               !.offset = e.offset + e.limit,
               !.shown  = @ \union {[run |-> r, status |-> rows[r]] : r \in page},
               !.got    = e.got + Cardinality(page)]]
    /\ UNCHANGED <<rows, answer>>

(* The reader leaves the list. *)
Leave(c) ==
    /\ reading[c] # Idle
    /\ reading' = [reading EXCEPT ![c] = Idle]
    /\ answer' = [answer EXCEPT ![c] = NoAnswer]
    /\ UNCHANGED rows

(* EvalRunModel.to_domain: the entity's trajectory keeps its default, None. *)
ToDomain(r) == [status |-> rows[r], trajectory |-> FALSE]

Answer(c, r, of, found) ==
    /\ answer' = [answer EXCEPT ![c] =
           [of |-> of, run |-> r, found |-> found,
            status |-> ToDomain(r).status, trajectory |-> ToDomain(r).trajectory]]
    /\ UNCHANGED <<rows, reading>>

Shown(c) == IF reading[c] = Idle THEN {} ELSE {s.run : s \in reading[c].shown}

(* get_run_detail, of a run the list has shown: 404 if there is no such row. *)
GetDetail(c) == \E r \in Shown(c) : Answer(c, r, "detail", rows[r] # "absent")

(* get_run_trace: 404 if the entity has no trajectory either. *)
GetTrace(c) ==
    \E r \in Shown(c) :
        Answer(c, r, "trace", rows[r] # "absent" /\ ToDomain(r).trajectory)

Next == \/ CommitSuite
        \/ \E c \in Clients : Begin(c) \/ ListRuns(c) \/ Leave(c) \/ GetDetail(c) \/ GetTrace(c)

Spec == Init /\ [][Next]_vars
-----------------------------------------------------------------------------
(* Properties *)

(* A client that reads to the last page has seen every run of its filter that
   was committed when it began, however many suites, with newer and with older
   runs, were committed between its pages. *)
NoRunIsMissed ==
    \A c \in Clients :
        reading[c] # Idle /\ reading[c].stage = "over" =>
            \A r \in reading[c].wanted : \E s \in reading[c].shown : s.run = r

(* Rows move down the list when suites are committed, so pages may repeat
   some: at most as many as runs came in since the reading began. *)
RepeatsAreNewRuns ==
    \A c \in Clients : reading[c] # Idle =>
        LET e == reading[c]
        IN  e.got <= Cardinality(e.shown) + Cardinality(Listed(e.status) \ e.wanted)

(* A run the list has shown is there when its detail is asked for, with the
   status that was shown. *)
ListedRunsAreFound ==
    \A c \in Clients : answer[c] # NoAnswer /\ answer[c].of = "detail" =>
        /\ answer[c].found
        /\ [run |-> answer[c].run, status |-> answer[c].status] \in reading[c].shown
=============================================================================
