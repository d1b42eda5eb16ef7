---------------------------- MODULE TaskSelection ----------------------------
(***************************************************************************)
(* The task library and the choice of a suite's tasks from it.  A library  *)
(* is the sequence of the JSON files of its directory, in the order        *)
(* os.listdir gives them; the registry reads them into a dict by task id.  *)
(***************************************************************************)
EXTENDS Naturals, Sequences, FiniteSets

CONSTANTS TaskIds, Categories

NoCategory == "none"
All        == "all"     \* in any case: run_suite lowers the first id

(* A file is one JSON object that TaskSchema takes, or the registry raises. *)
Files    == [task : TaskIds, category : Categories, valid : BOOLEAN]
Requests == [ids : Seq(TaskIds \union {All}), category : Categories \union {NoCategory}]

(* The elements of s that are in K, in order: SelectSeq for a set, as a function
   that proofs can expand. *)
Filtered(s, K) ==
    LET upTo[n \in 0..Len(s)] ==
          IF n = 0 THEN <<>>
          ELSE IF s[n] \in K THEN Append(upTo[n - 1], s[n]) ELSE upTo[n - 1]
    IN  upTo[Len(s)]

(* Whether load_all gets through the directory; one bad file is enough. *)
Loads(library) == \A i \in DOMAIN library : library[i].valid

Known(library) == {library[i].task : i \in DOMAIN library}

(* get_task: of several files with one task id, the last one read. *)
get_task(library, t) ==
    library[CHOOSE i \in DOMAIN library :
                /\ library[i].task = t
                /\ \A k \in DOMAIN library : library[k].task = t => k <= i]

(* list_tasks: a dict lists its keys as they first came, also when a later
   file has replaced the value. *)
list_tasks(library) ==
    LET isFirst == {i \in DOMAIN library :
                       \A k \in 1..(i - 1) : library[k].task # library[i].task}
        firsts  == Filtered([i \in DOMAIN library |-> i], isFirst)
    IN  [n \in DOMAIN firsts |-> library[firsts[n]].task]

(* Mutant: the category is looked for in any file of the task. *)
M_OfCategory(library, category) ==
    Filtered(list_tasks(library), {t \in Known(library) :
        category = NoCategory \/ \E i \in DOMAIN library :
            library[i].task = t /\ library[i].category = category})

OfCategory(library, category) ==
    Filtered(list_tasks(library), {t \in Known(library) :
        category \in {NoCategory, get_task(library, t).category}})

(* Mutant: the library is filtered by the ids, which loses their order. *)
M_ByIds(library, ids) ==
    Filtered(list_tasks(library), {ids[i] : i \in DOMAIN ids})

(* Ids nobody knows are passed over; the others keep order and repetitions,
   whatever category was asked for. *)
ByIds(library, ids) == Filtered(ids, Known(library))

AsksForAll(request) == request.ids # <<>> /\ request.ids[1] = All

(* The tasks of run_suite. *)
Selected(library, request) ==
    IF AsksForAll(request) THEN OfCategory(library, request.category)
                           ELSE ByIds(library, request.ids)
-----------------------------------------------------------------------------
(* What a request means, without the order of evaluation. *)

(* The files that count: no later file has their task. *)
Current(library) ==
    {i \in DOMAIN library : \A k \in DOMAIN library : k > i => library[k].task # library[i].task}

(* "all" with a category means each task of that category, once. *)
AnswersAll(tasks, library, category) ==
    /\ \A i, k \in DOMAIN tasks : tasks[i] = tasks[k] => i = k
    /\ {tasks[i] : i \in DOMAIN tasks} =
           {library[i].task : i \in {n \in Current(library) :
                                        category \in {NoCategory, library[n].category}}}

(* A list of ids means its known ids, in order, as often as they occur. *)
AnswersIds(tasks, library, ids) ==
    LET known == {i \in DOMAIN ids : \E k \in DOMAIN library : library[k].task = ids[i]}
    IN  \E at \in [DOMAIN tasks -> known] :
            /\ \A i, k \in DOMAIN tasks : i < k => at[i] < at[k]
            /\ {at[i] : i \in DOMAIN tasks} = known
            /\ \A i \in DOMAIN tasks : tasks[i] = ids[at[i]]

Answers(tasks, library, request) ==
    IF AsksForAll(request) THEN AnswersAll(tasks, library, request.category)
                           ELSE AnswersIds(tasks, library, request.ids)
=============================================================================
