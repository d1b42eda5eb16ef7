---------------------------- MODULE ProgressStream ----------------------------
(***************************************************************************)
(* GET /runs/{job}/stream: a client is told the outcome of an eval job by  *)
(* a generator that polls two keys of Redis, twice a second for at most    *)
(* five minutes, while the job runs, is run again, fails silently, or sees *)
(* its result expire.  The job is that of JobContract, which EvalJob       *)
(* implements; a suite goes by its summary here.                           *)
(***************************************************************************)
EXTENDS Naturals, Sequences

CONSTANTS
    Jobs,        \* job ids
    Suites,      \* the summaries that suites may have
    Clients,     \* browsers that watch a job
    Ticks,       \* polls of a stream: 600 in the code
    Faults       \* "redis": a read is refused, "network": a connection drops

ASSUME ConstantsAssumption == Ticks \in Nat \ {0} /\ Faults \subseteq {"redis", "network"}

VARIABLES
    accepted, suites, results, \* the jobs, see JobContract
    stream                     \* per client, its connection and the generator behind it

job  == <<accepted, suites, results>>
vars == <<job, stream>>

Summary(s) == s

Job == INSTANCE JobContract

(* A stream polls the progress key, then the result key, then sleeps.  When it
   is over, or broke, the client is still there until it closes. *)
Stages  == {"progress", "result", "sleep", "over", "broken"}
Timeout == [event |-> "error"]
Complete(s) == [event |-> "suite_complete", summary |-> s]
Events  == {Timeout} \union {Complete(s) : s \in Suites}
Closed  == [stage |-> "closed"]
Streams == [stage : Stages, job : Jobs, ticks : 0..(Ticks - 1), sent : Seq(Events)]

TypeOK ==
    /\ accepted \in SUBSET Jobs
    /\ suites \in [Jobs -> SUBSET Suites]
    /\ results \in [Jobs -> SUBSET Suites]
    /\ stream \in [Clients -> Streams \union {Closed}]

Init == Job!Init /\ stream = [c \in Clients |-> Closed]

-----------------------------------------------------------------------------
(* The job, at its own pace. *)
JobStep == /\ \E j \in Jobs :
                 \/ Job!Accept(j) \/ Job!Publish(j) \/ Job!Expire(j)
                 \/ \E s \in Suites : /\ suites' = [suites EXCEPT ![j] = @ \union {s}]
                                      /\ Job!CommitSuite(j)
           /\ UNCHANGED stream
-----------------------------------------------------------------------------
(* event_generator, from one await to the next. *)
At(c, s) == stream[c].stage = s
Open(c)  == stream[c].stage \in {"progress", "result", "sleep"}

Go(c, s)      == stream' = [stream EXCEPT ![c].stage = s] /\ UNCHANGED job
Send(c, s, e) == /\ stream' = [stream EXCEPT ![c].stage = s, ![c].sent = Append(@, e)]
                 /\ UNCHANGED job

(* Mutant: a poll that finds no progress does not look for the result. *)
M_PollProgress(c) == At(c, "progress") /\ Go(c, "sleep")

(* Nobody writes the progress key, see EvalJob!RunTask: no event. *)
PollProgress(c) == At(c, "progress") /\ Go(c, "result")

(* Mutant: the loop is left, but sent_done is not set. *)
M_PollResult(c) ==
    /\ At(c, "result")
    /\ LET found == results[stream[c].job]
       IN  IF found = {} THEN Go(c, "sleep")
           ELSE \E s \in found :
                   /\ stream' = [stream EXCEPT ![c].stage = "over",
                                               ![c].sent = @ \o <<Complete(s), Timeout>>]
                   /\ UNCHANGED job

(* Mutant: the key of the result does not name the job. *)
M_PollResult_AnyJob(c) ==
    /\ At(c, "result")
    /\ LET found == UNION {results[j] : j \in Jobs}
       IN  IF found = {} THEN Go(c, "sleep")
           ELSE \E s \in found : Send(c, "over", Complete(s))

PollResult(c) ==
    /\ At(c, "result")
    /\ LET found == results[stream[c].job]
       IN  IF found = {} THEN Go(c, "sleep")
           ELSE \E s \in found : Send(c, "over", Complete(s))

(* Mutant: the polls are not counted. *)
M_Wake(c) == At(c, "sleep") /\ Go(c, "progress")

(* Mutant: one poll too many. *)
M_Wake_Late(c) ==
    /\ At(c, "sleep")
    /\ IF stream[c].ticks < Ticks
       THEN /\ stream' = [stream EXCEPT ![c].stage = "progress", ![c].ticks = @ + 1]
            /\ UNCHANGED job
       ELSE Send(c, "over", Timeout)

(* Half a second later: the next poll, or, after the last, a timeout. *)
Wake(c) ==
    /\ At(c, "sleep")
    /\ IF stream[c].ticks + 1 < Ticks
       THEN /\ stream' = [stream EXCEPT ![c].stage = "progress", ![c].ticks = @ + 1]
            /\ UNCHANGED job
       ELSE Send(c, "over", Timeout)

(* A read raises, and the response breaks off without an event. *)
RedisFails(c) ==
    /\ "redis" \in Faults
    /\ stream[c].stage \in {"progress", "result"}
    /\ Go(c, "broken")

Serve(c) == PollProgress(c) \/ PollResult(c) \/ Wake(c) \/ RedisFails(c)
-----------------------------------------------------------------------------
(* The client. *)
Fresh(j) == [stage |-> "progress", job |-> j, ticks |-> 0, sent |-> <<>>]

(* The hook mounts.  Any id will do: the endpoint knows of no job. *)
Watch(c, j) ==
    /\ At(c, "closed")
    /\ stream' = [stream EXCEPT ![c] = Fresh(j)]
    /\ UNCHANGED job

(* The connection drops. *)
Drop(c) == "network" \in Faults /\ Open(c) /\ Go(c, "broken")

(* An EventSource comes back after every end of a response. *)
Reconnect(c) ==
    /\ stream[c].stage \in {"over", "broken"}
    /\ stream' = [stream EXCEPT ![c] = Fresh(stream[c].job)]
    /\ UNCHANGED job

(* The hook unmounts. *)
Close(c) ==
    /\ ~At(c, "closed")
    /\ stream' = [stream EXCEPT ![c] = Closed]
    /\ UNCHANGED job

Next == \/ JobStep
        \/ \E c \in Clients : Serve(c) \/ Drop(c) \/ Reconnect(c) \/ Close(c)
        \/ \E c \in Clients, j \in Jobs : Watch(c, j)

(* The event loop resumes a generator, and Redis answers or refuses. *)
Fairness == \A c \in Clients : WF_vars(Serve(c))

Spec == Init /\ [][Next]_vars /\ Fairness
-----------------------------------------------------------------------------
(* Properties *)

(* A stream has one outcome: the result or a timeout, once, and exactly when
   it is over. *)
OneOutcome ==
    \A c \in Clients : ~At(c, "closed") =>
        Len(stream[c].sent) = IF At(c, "over") THEN 1 ELSE 0

(* What a client is told was committed for the job it asked about, also when
   the result changed or expired meanwhile. *)
ToldIsCommitted ==
    \A c \in Clients : ~At(c, "closed") =>
        \A i \in DOMAIN stream[c].sent, s \in Suites :
            stream[c].sent[i] = Complete(s) => s \in suites[stream[c].job]

(* A result that is there while a stream has a poll left reaches the client,
   unless it expires first, or the connection or Redis fails. *)
ResultIsTold ==
    \A c \in Clients, j \in Jobs :
        Open(c) /\ stream[c].job = j /\ stream[c].ticks + 1 < Ticks /\ results[j] # {}
            ~> \/ results[j] = {}
               \/ At(c, "over") /\ \E s \in Suites : stream[c].sent = <<Complete(s)>>
               \/ At(c, "broken") \/ At(c, "closed")

(* Every stream ends, also that of a job that failed and of one nobody ever
   posted: the server holds no connection for ever. *)
EveryStreamEnds == \A c \in Clients : Open(c) ~> ~Open(c)
=============================================================================
