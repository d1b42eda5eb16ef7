-------------------------- MODULE HitlFlywheelProofs --------------------------
(***************************************************************************)
(* Proofs about HitlFlywheel for any runs, identifiers, workers and number *)
(* of requests: types, that a golden row has its own whole test, that only *)
(* faults leave a test or an answer without a row, that an annotation runs *)
(* out of steps, and that none wait for each other in a circle.            *)
(***************************************************************************)
EXTENDS HitlFlywheel, TLAPS

(* An inserted identifier is nobody else's, neither in an open transaction nor
   in a committed one. *)
KeyInv ==
    /\ \A p, q \in Requests : Pending(p) /\ Pending(q) /\ IdOf(p) = IdOf(q) => p = q
    /\ \A q \in Requests : Pending(q) => \A g \in golden : g.id # IdOf(q)
    /\ \A g \in golden : g.id = g.name[2]

(* What a request has written: its temporary file while it writes, then its
   test; no other request's test bears its name. *)
FileInv ==
    \A q \in Requests :
        /\ At(q, "written") => tmp[req[q].name] = Test(q, TRUE)
        /\ At(q, "generated") => files[req[q].name] = Test(q, TRUE)

(* Before its test is in place a request has neither a test nor an answer, and
   after it, unless something failed, it has a row. *)
TraceInv ==
    \A q \in Requests :
        /\ req[q].stage \in {"new", "adding", "flushed", "writing", "written"} =>
              /\ answer[q] = "none"
              /\ \A n \in Names : files[n] # NoFile => files[n].by # q
        /\ At(q, "generated") => answer[q] \in {"none", "annotated"}

Inv == /\ TypeOK /\ KeyInv /\ FileInv /\ TraceInv
       /\ GoldenRowHasItsTest /\ TestsAreWhole /\ OrphansNeedFaults

-----------------------------------------------------------------------------
LEMMA InitInv == Init => Inv
<1> SUFFICES ASSUME Init PROVE Inv
  OBVIOUS
<1>1. \A q \in Requests : req[q].stage = "new" /\ answer[q] = "none"
  BY DEF Init, New
<1>2. \A n \in Names : files[n] = NoFile
  BY DEF Init
<1>3. TypeOK
  BY ConstantsAssumption DEF Init, TypeOK
<1>4. KeyInv
  BY <1>1 DEF Init, KeyInv, Pending
<1>5. FileInv
  BY <1>1 DEF FileInv, At
<1>6. TraceInv
  BY <1>1, <1>2 DEF TraceInv, At
<1>7. GoldenRowHasItsTest /\ TestsAreWhole
  BY <1>2 DEF Init, GoldenRowHasItsTest, TestsAreWhole
<1>8. OrphansNeedFaults
  BY <1>1 DEF OrphansNeedFaults, At
<1> QED
  BY <1>3, <1>4, <1>5, <1>6, <1>7, <1>8 DEF Inv

(* The shapes of what a request is. *)
LEMMA RequestType ==
    ASSUME TypeOK, NEW q \in Requests
    PROVE  /\ req[q].stage \in Stages \union {"new", "over"}
           /\ req[q].stage \in Stages => req[q] \in Handled /\ req[q].name \in Names
                                         /\ IdOf(q) \in Ids /\ IdOf(q) = req[q].name[2]
  BY DEF TypeOK, Handled, New, Over, Stages, IdOf, Names

LEMMA TestType ==
    ASSUME NEW q \in Requests, NEW w \in BOOLEAN
    PROVE  /\ Test(q, w) \in Contents /\ Test(q, w) # NoFile
           /\ Test(q, w).by = q /\ Test(q, w).whole = w
  BY DEF Test, Contents, NoFile, TemplateColumn, BracketColumn, Margin

(* Some requests end, and neither rows nor files change. *)
LEMMA EndKeeps ==
    ASSUME Inv, NEW S \in SUBSET Requests,
           req' = [q \in Requests |-> IF q \in S THEN Over ELSE req[q]],
           UNCHANGED <<runs, golden, files, tmp>>
    PROVE  /\ req' \in [Requests -> Handled \union {New, Over}]
           /\ KeyInv' /\ FileInv' /\ GoldenRowHasItsTest' /\ TestsAreWhole'
<1> USE DEF Inv
<1>1. \A q \in Requests : req'[q] = IF q \in S THEN Over ELSE req[q]
  OBVIOUS
<1>2. req' \in [Requests -> Handled \union {New, Over}]
  BY DEF TypeOK
<1>3. KeyInv'
  BY <1>1 DEF KeyInv, Pending, IdOf, Over
<1>4. FileInv'
  BY <1>1 DEF FileInv, At, Over, Test, Margin
<1>5. GoldenRowHasItsTest' /\ TestsAreWhole'
  BY DEF GoldenRowHasItsTest, TestsAreWhole
<1> QED
  BY <1>2, <1>3, <1>4, <1>5

(* A handler that raises leaves neither row nor test. *)
LEMMA RaisedKeeps ==
    ASSUME Inv, NEW q \in Requests, Raised(q),
           req[q].stage \in {"adding", "flushed", "writing", "written"},
           UNCHANGED <<runs, golden, files, tmp, deaths, faulted>>
    PROVE  Inv'
<1> USE DEF Inv
<1>1. req' = [p \in Requests |-> IF p \in {q} THEN Over ELSE req[p]]
  BY DEF Raised, TypeOK
<1>2. /\ req' \in [Requests -> Handled \union {New, Over}]
      /\ KeyInv' /\ FileInv' /\ GoldenRowHasItsTest' /\ TestsAreWhole'
  BY <1>1, EndKeeps
<1>3. answer' = [answer EXCEPT ![q] = "error"]
  BY DEF Raised
<1>4. TypeOK'
  BY <1>2, <1>3 DEF TypeOK
<1>5. TraceInv'
  BY <1>1, <1>3 DEF TraceInv, At, Over, TypeOK
<1>6. OrphansNeedFaults'
  BY <1>1, <1>3 DEF OrphansNeedFaults, TraceInv, At, Over, TypeOK
<1> QED
  BY <1>2, <1>4, <1>5, <1>6

(* A handler that goes on keeps what it is about. *)
LEMMA MoveType ==
    ASSUME TypeOK, NEW q \in Requests, NEW s \in Stages, req[q].stage \in Stages, Move(q, s)
    PROVE  /\ req' \in [Requests -> Handled \union {New, Over}]
           /\ \A p \in Requests : p # q => req'[p] = req[p]
           /\ req'[q].stage = s /\ req'[q].name = req[q].name
           /\ req'[q].run = req[q].run /\ req'[q].at = req[q].at
<1>1. req[q] \in Handled
  BY RequestType
<1>2. req' = [req EXCEPT ![q] = [req[q] EXCEPT !.stage = s]]
  BY DEF Move
<1>3. /\ [req[q] EXCEPT !.stage = s] \in Handled
      /\ [req[q] EXCEPT !.stage = s].stage = s
      /\ [req[q] EXCEPT !.stage = s].name = req[q].name
      /\ [req[q] EXCEPT !.stage = s].run = req[q].run
      /\ [req[q] EXCEPT !.stage = s].at = req[q].at
  BY <1>1 DEF Handled
<1> QED
  BY <1>2, <1>3 DEF TypeOK

LEMMA NotFoundKeeps ==
    ASSUME Inv, NEW q \in Requests, NEW w \in Servers, NEW r \in Runs, NotFound(q, w, r)
    PROVE  Inv'
<1> USE DEF Inv
<1>1. req' = [p \in Requests |-> IF p \in {q} THEN Over ELSE req[p]]
  BY DEF NotFound, TypeOK
<1>2. /\ req' \in [Requests -> Handled \union {New, Over}]
      /\ KeyInv' /\ FileInv' /\ GoldenRowHasItsTest' /\ TestsAreWhole'
  BY <1>1, EndKeeps DEF NotFound
<1>3. TypeOK'
  BY <1>2 DEF TypeOK, NotFound
<1>4. TraceInv'
  BY <1>1 DEF TraceInv, At, Over, TypeOK, NotFound
<1>5. OrphansNeedFaults'
  BY <1>1 DEF OrphansNeedFaults, TraceInv, At, Over, TypeOK, NotFound
<1> QED
  BY <1>2, <1>3, <1>4, <1>5

LEMMA AnnotateKeeps ==
    ASSUME Inv, NEW q \in Requests, NEW w \in Servers, NEW r \in Runs, Annotate(q, w, r)
    PROVE  Inv'
<1> USE DEF Inv
<1>1. PICK i \in Ids : req' = [req EXCEPT ![q] = [stage |-> "adding", at |-> w, run |-> r,
                                                   name |-> <<runs[r].task, i>>]]
  BY DEF Annotate
<1>2. <<runs[r].task, i>> \in Names
  BY DEF Annotate, TypeOK, RunRows, NoRun, Names
<1>3. /\ \A p \in Requests : p # q => req'[p] = req[p]
      /\ req'[q].stage = "adding"
      /\ req' \in [Requests -> Handled \union {New, Over}]
  BY <1>1, <1>2 DEF TypeOK, Handled, Stages
<1>4. TypeOK'
  BY <1>3 DEF TypeOK, Annotate
<1>5. KeyInv'
  BY <1>3 DEF KeyInv, Pending, IdOf, Annotate
<1>6. FileInv'
  BY <1>3 DEF FileInv, At, Annotate, Test, Margin
<1>7. GoldenRowHasItsTest' /\ TestsAreWhole'
  BY DEF GoldenRowHasItsTest, TestsAreWhole, Annotate
<1>8. TraceInv'
  BY <1>3 DEF TraceInv, At, Annotate
<1>9. OrphansNeedFaults'
  BY <1>3 DEF OrphansNeedFaults, At, Annotate
<1> QED
  BY <1>4, <1>5, <1>6, <1>7, <1>8, <1>9

LEMMA FlushKeeps ==
    ASSUME Inv, NEW q \in Requests, Flush(q)
    PROVE  Inv'
<1> USE DEF Inv
<1>1. CASE Raised(q)
  BY <1>1, RaisedKeeps DEF Flush, At
<1>2. CASE Move(q, "flushed") /\ UNCHANGED answer /\ \A g \in golden : g.id # IdOf(q)
  <2>1. /\ req' \in [Requests -> Handled \union {New, Over}]
        /\ \A p \in Requests : p # q => req'[p] = req[p]
        /\ req'[q].stage = "flushed" /\ req'[q].name = req[q].name
    BY <1>2, MoveType DEF Flush, At, Stages
  <2>2. TypeOK'
    BY <1>2, <2>1 DEF TypeOK, Flush
  <2>3. /\ \A p \in Requests : Pending(p)' => p = q \/ Pending(p)
        /\ \A p \in Requests : IdOf(p)' = IdOf(p)
    BY <2>1 DEF Pending, IdOf
  <2>4. KeyInv'
    BY <1>2, <2>3 DEF KeyInv, Flush
  <2>5. FileInv'
    BY <2>1 DEF FileInv, At, Flush, Test, Margin
  <2>6. GoldenRowHasItsTest' /\ TestsAreWhole'
    BY DEF GoldenRowHasItsTest, TestsAreWhole, Flush
  <2>7. TraceInv'
    BY <1>2, <2>1 DEF TraceInv, At, Flush
  <2>8. OrphansNeedFaults'
    BY <1>2, <2>1 DEF OrphansNeedFaults, At, Flush
  <2> QED
    BY <2>2, <2>4, <2>5, <2>6, <2>7, <2>8
<1> QED
  BY <1>1, <1>2 DEF Flush

(* Opening or writing the temporary file. *)
LEMMA TmpKeeps ==
    ASSUME Inv, NEW q \in Requests, NEW s \in {"writing", "written"},
           req[q].stage \in {"flushed", "writing"}, Move(q, s),
           tmp' = [tmp EXCEPT ![req[q].name] = Test(q, s = "written")],
           UNCHANGED <<runs, golden, files, answer, deaths, faulted>>
    PROVE  Inv'
<1> USE DEF Inv
<1> DEFINE t == Test(q, s = "written")
<1>0. t \in Contents
  BY TestType
<1>1. /\ req' \in [Requests -> Handled \union {New, Over}]
      /\ \A p \in Requests : p # q => req'[p] = req[p]
      /\ req'[q].stage = s /\ req'[q].name = req[q].name
  BY MoveType DEF Stages
<1>2. req[q].name \in Names
  BY RequestType DEF Stages
<1>3. /\ tmp' \in [Names -> Contents \union {NoFile}]
      /\ tmp'[req[q].name] = t
      /\ \A n \in Names : n # req[q].name => tmp'[n] = tmp[n]
  BY <1>0, <1>2 DEF TypeOK
<1>4. TypeOK'
  BY <1>1, <1>3 DEF TypeOK
<1>5. \A p \in Requests : Pending(p)' = Pending(p) /\ IdOf(p)' = IdOf(p)
  BY <1>1 DEF Pending, IdOf
<1>6. KeyInv'
  BY <1>5 DEF KeyInv
<1>7. ASSUME NEW p \in Requests, At(p, "written")'
      PROVE  tmp'[req'[p].name] = Test(p, TRUE)'
  <2>1. CASE p = q
    BY <2>1, <1>1, <1>3, <1>7 DEF At, Test, Margin
  <2>2. CASE p # q
    <3>1. req'[p] = req[p] /\ At(p, "written")
      BY <2>2, <1>1, <1>7 DEF At
    <3>2. req[p].name \in Names /\ IdOf(p) = req[p].name[2] /\ IdOf(q) = req[q].name[2]
      BY <3>1, RequestType DEF At, Stages, IdOf
    <3>3. IdOf(p) # IdOf(q)
      BY <3>1, <2>2 DEF KeyInv, Pending, At
    <3> QED
      BY <3>1, <3>2, <3>3, <1>3 DEF FileInv, Test, Margin
  <2> QED
    BY <2>1, <2>2
<1>8. ASSUME NEW p \in Requests, At(p, "generated")'
      PROVE  files'[req'[p].name] = Test(p, TRUE)'
  BY <1>8, <1>1 DEF FileInv, At, Test, Margin
<1>9. FileInv'
  BY <1>7, <1>8 DEF FileInv
<1>10. GoldenRowHasItsTest' /\ TestsAreWhole'
  BY DEF GoldenRowHasItsTest, TestsAreWhole
<1>11. TraceInv'
  BY <1>1 DEF TraceInv, At
<1>12. OrphansNeedFaults'
  BY <1>1 DEF OrphansNeedFaults, At
<1> QED
  BY <1>4, <1>6, <1>9, <1>10, <1>11, <1>12

LEMMA OpenTmpKeeps ==
    ASSUME Inv, NEW q \in Requests, OpenTmp(q)
    PROVE  Inv'
<1>1. CASE Raised(q) /\ UNCHANGED tmp
  BY <1>1, RaisedKeeps DEF OpenTmp, At
<1>2. CASE /\ tmp' = [tmp EXCEPT ![req[q].name] = Test(q, FALSE)]
           /\ Move(q, "writing") /\ UNCHANGED answer
  <2>1. tmp' = [tmp EXCEPT ![req[q].name] = Test(q, "writing" = "written")]
    BY <1>2
  <2> QED
    BY <1>2, <2>1, TmpKeeps DEF OpenTmp, At
<1> QED
  BY <1>1, <1>2 DEF OpenTmp

LEMMA WriteTmpKeeps ==
    ASSUME Inv, NEW q \in Requests, WriteTmp(q)
    PROVE  Inv'
<1>1. CASE Raised(q) /\ UNCHANGED tmp
  BY <1>1, RaisedKeeps DEF WriteTmp, At
<1>2. CASE /\ tmp' = [tmp EXCEPT ![req[q].name] = Test(q, TRUE)]
           /\ Move(q, "written") /\ UNCHANGED answer
  <2>1. tmp' = [tmp EXCEPT ![req[q].name] = Test(q, "written" = "written")]
    BY <1>2
  <2> QED
    BY <1>2, <2>1, TmpKeeps DEF WriteTmp, At
<1> QED
  BY <1>1, <1>2 DEF WriteTmp

LEMMA ReplaceKeeps ==
    ASSUME Inv, NEW q \in Requests, Replace(q)
    PROVE  Inv'
<1> USE DEF Inv
<1>1. CASE Raised(q) /\ UNCHANGED <<files, tmp>>
  BY <1>1, RaisedKeeps DEF Replace, At
<1>2. CASE /\ files' = [files EXCEPT ![req[q].name] = tmp[req[q].name]]
           /\ tmp' = [tmp EXCEPT ![req[q].name] = NoFile]
           /\ Move(q, "generated") /\ UNCHANGED answer
  <2> DEFINE nm == req[q].name
  <2>1. /\ req' \in [Requests -> Handled \union {New, Over}]
        /\ \A p \in Requests : p # q => req'[p] = req[p]
        /\ req'[q].stage = "generated" /\ req'[q].name = nm
    BY <1>2, MoveType DEF Replace, At, Stages
  <2>2. nm \in Names /\ IdOf(q) = nm[2]
    BY RequestType DEF Replace, At, Stages
  <2>3. tmp[nm] = Test(q, TRUE)
    BY DEF FileInv, Replace
  <2>4. /\ files' \in [Names -> Contents \union {NoFile}]
        /\ files'[nm] = Test(q, TRUE)
        /\ \A n \in Names : n # nm => files'[n] = files[n]
    BY <1>2, <2>2, <2>3, TestType DEF TypeOK
  <2>5. /\ tmp' \in [Names -> Contents \union {NoFile}]
        /\ \A n \in Names : n # nm => tmp'[n] = tmp[n]
    BY <1>2 DEF TypeOK
  <2>6. /\ UNCHANGED <<runs, golden, deaths, faulted, answer>>
        /\ Pending(q) /\ At(q, "written")
    BY <1>2 DEF Replace, At, Pending
  <2>7. TypeOK'
    BY <2>1, <2>4, <2>5, <2>6 DEF TypeOK
  <2>8. KeyInv'
    <3>1. \A p \in Requests : Pending(p)' = Pending(p) /\ IdOf(p)' = IdOf(p)
      BY <2>1, <2>6 DEF Pending, IdOf
    <3> QED
      BY <3>1, <2>6 DEF KeyInv
  <2>9. ASSUME NEW p \in Requests, p # q, Pending(p)
        PROVE  req[p].name \in Names /\ req[p].name # nm
    BY <2>9, <2>2, <2>6, RequestType DEF KeyInv, Pending, Stages
  <2>10. FileInv'
    <3>1. \A p \in Requests : At(p, "written")' => tmp'[req'[p].name] = Test(p, TRUE)'
      BY <2>1, <2>5, <2>9 DEF FileInv, At, Pending, Test, Margin
    <3>2. \A p \in Requests : At(p, "generated")' => files'[req'[p].name] = Test(p, TRUE)'
      BY <2>1, <2>4, <2>9 DEF FileInv, At, Pending, Test, Margin
    <3> QED
      BY <3>1, <3>2 DEF FileInv
  <2>11. \A g \in golden : g.name # nm
    BY <2>2, <2>6 DEF KeyInv
  <2>12. GoldenRowHasItsTest'
    BY <2>4, <2>6, <2>11 DEF GoldenRowHasItsTest, TypeOK, Golden
  <2>13. TestsAreWhole'
    BY <2>4, TestType DEF TestsAreWhole
  <2>14. \A n \in Names, p \in Requests :
            p # q /\ files'[n] # NoFile /\ files'[n].by = p => files[n] # NoFile /\ files[n].by = p
    <3>1. Test(q, TRUE).by = q
      BY TestType
    <3> HIDE DEF nm
    <3> QED
      BY <2>4, <3>1
  <2>15. TraceInv'
    <3>1. ASSUME NEW p \in Requests,
                 req'[p].stage \in {"new", "adding", "flushed", "writing", "written"}
          PROVE  answer'[p] = "none" /\ \A n \in Names : files'[n] # NoFile => files'[n].by # p
      <4>1. p # q /\ req'[p] = req[p]
        BY <3>1, <2>1
      <4> QED
        BY <3>1, <4>1, <2>6, <2>14 DEF TraceInv
    <3>2. ASSUME NEW p \in Requests, At(p, "generated")'
          PROVE  answer'[p] \in {"none", "annotated"}
      BY <3>2, <2>1, <2>6 DEF TraceInv, At
    <3> QED
      BY <3>1, <3>2 DEF TraceInv
  <2>16. OrphansNeedFaults'
    <3> SUFFICES ASSUME NEW p \in Requests, At(p, "over")', p \notin faulted',
                        \/ answer'[p] = "annotated"
                        \/ \E n \in Names : files'[n] # NoFile /\ files'[n].by = p
                 PROVE  \E g \in golden' : g.by = p
      BY DEF OrphansNeedFaults
    <3>1. p # q /\ At(p, "over")
      BY <2>1 DEF At
    <3> QED
      BY <3>1, <2>6, <2>14 DEF OrphansNeedFaults
  <2> QED
    BY <2>7, <2>8, <2>10, <2>12, <2>13, <2>15, <2>16
<1> QED
  BY <1>1, <1>2 DEF Replace

LEMMA AnswerFirstKeeps ==
    ASSUME Inv, NEW q \in Requests, AnswerFirst(q)
    PROVE  Inv'
<1> USE DEF Inv
<1>1. TypeOK'
  BY DEF TypeOK, AnswerFirst
<1>2. KeyInv' /\ FileInv'
  BY DEF KeyInv, Pending, IdOf, FileInv, At, Test, Margin, AnswerFirst
<1>3. GoldenRowHasItsTest' /\ TestsAreWhole'
  BY DEF GoldenRowHasItsTest, TestsAreWhole, AnswerFirst
<1>4. TraceInv' /\ OrphansNeedFaults'
  BY DEF TraceInv, OrphansNeedFaults, At, TypeOK, AnswerFirst
<1> QED
  BY <1>1, <1>2, <1>3, <1>4

LEMMA CommitKeeps ==
    ASSUME Inv, NEW q \in Requests, Commit(q)
    PROVE  Inv'
<1> USE DEF Inv
<1> DEFINE row == [id |-> IdOf(q), name |-> req[q].name, run |-> req[q].run, by |-> q]
<1>1. /\ req' \in [Requests -> Handled \union {New, Over}]
      /\ \A p \in Requests : p # q => req'[p] = req[p]
      /\ req'[q] = Over
  BY DEF Commit, TypeOK
<1>2. golden' = golden \union {row} /\ UNCHANGED <<runs, files, tmp, deaths, faulted>>
  BY DEF Commit
<1>3. answer' = [answer EXCEPT ![q] = "annotated"]
  BY DEF Commit
<1>4. At(q, "generated") /\ Pending(q)
  BY DEF Commit, At, Pending
<1>5. row \in Golden /\ row.id = row.name[2]
  BY <1>4, RequestType DEF At, Stages, Golden, Handled
<1>6. TypeOK'
  BY <1>1, <1>2, <1>3, <1>5 DEF TypeOK
<1>7. KeyInv'
  <2>1. \A p \in Requests : Pending(p)' => p # q /\ Pending(p) /\ IdOf(p)' = IdOf(p)
    BY <1>1 DEF Pending, IdOf, Over
  <2>2. \A p \in Requests : Pending(p) /\ p # q => IdOf(p) # row.id
    BY <1>4 DEF KeyInv
  <2>3. \A p \in Requests : Pending(p) => \A g \in golden : g.id # IdOf(p)
    BY DEF KeyInv
  <2>4. \A p \in Requests : Pending(p)' => \A g \in golden' : g.id # IdOf(p)'
    <3> HIDE DEF row
    <3> QED
      BY <2>1, <2>2, <2>3, <1>2
  <2>5. \A g \in golden' : g.id = g.name[2]
    <3>1. \A g \in golden : g.id = g.name[2]
      BY DEF KeyInv
    <3> HIDE DEF row
    <3> QED
      BY <3>1, <1>2, <1>5
  <2>6. \A o, p \in Requests : Pending(o)' /\ Pending(p)' /\ IdOf(o)' = IdOf(p)' => o = p
    BY <2>1 DEF KeyInv
  <2> QED
    BY <2>4, <2>5, <2>6 DEF KeyInv
<1>8. FileInv'
  BY <1>1, <1>2 DEF FileInv, At, Over, Test, Margin
<1>9. files[row.name] = Test(q, TRUE)
  BY <1>4 DEF FileInv
<1>10. GoldenRowHasItsTest' /\ TestsAreWhole'
  <2>1. /\ files[row.name] # NoFile /\ files[row.name].by = row.by
        /\ files[row.name].whole
    BY <1>9, TestType
  <2> HIDE DEF row
  <2> QED
    BY <2>1, <1>2 DEF GoldenRowHasItsTest, TestsAreWhole
<1>11. TraceInv'
  BY <1>1, <1>2, <1>3 DEF TraceInv, At, Over, TypeOK
<1>12. OrphansNeedFaults'
  <2> SUFFICES ASSUME NEW p \in Requests, At(p, "over")', p \notin faulted',
                      \/ answer'[p] = "annotated"
                      \/ \E n \in Names : files'[n] # NoFile /\ files'[n].by = p
               PROVE  \E g \in golden' : g.by = p
    BY DEF OrphansNeedFaults
  <2>1. CASE p = q
    <3>1. row \in golden' /\ row.by = q
      BY <1>2
    <3> QED
      BY <2>1, <3>1
  <2>2. CASE p # q
    BY <2>2, <1>1, <1>2, <1>3 DEF OrphansNeedFaults, At, TypeOK
  <2> QED
    BY <2>1, <2>2
<1> QED
  BY <1>6, <1>7, <1>8, <1>10, <1>11, <1>12

LEMMA CommitFailsKeeps ==
    ASSUME Inv, NEW q \in Requests, CommitFails(q)
    PROVE  Inv'
<1> USE DEF Inv
<1>1. req' = [p \in Requests |-> IF p \in {q} THEN Over ELSE req[p]]
  BY DEF CommitFails, TypeOK
<1>2. /\ req' \in [Requests -> Handled \union {New, Over}]
      /\ KeyInv' /\ FileInv' /\ GoldenRowHasItsTest' /\ TestsAreWhole'
  BY <1>1, EndKeeps DEF CommitFails
<1>3. TypeOK'
  BY <1>2 DEF TypeOK, CommitFails
<1>4. TraceInv'
  BY <1>1 DEF TraceInv, At, Over, TypeOK, CommitFails
<1>5. OrphansNeedFaults'
  BY <1>1 DEF OrphansNeedFaults, At, Over, TypeOK, CommitFails
<1> QED
  BY <1>2, <1>3, <1>4, <1>5

LEMMA WorkerDiesKeeps ==
    ASSUME Inv, NEW w \in Servers, WorkerDies(w)
    PROVE  Inv'
<1> USE DEF Inv
<1>1. HeldBy(w) \in SUBSET Requests
  BY DEF HeldBy
<1>2. /\ req' = [p \in Requests |-> IF p \in HeldBy(w) THEN Over ELSE req[p]]
      /\ faulted' = faulted \union HeldBy(w)
      /\ UNCHANGED <<runs, golden, files, tmp, answer>>
  BY DEF WorkerDies
<1>3. /\ req' \in [Requests -> Handled \union {New, Over}]
      /\ KeyInv' /\ FileInv' /\ GoldenRowHasItsTest' /\ TestsAreWhole'
  BY <1>1, <1>2, EndKeeps
<1>4. deaths' \in 0..MaxDeaths
  BY ConstantsAssumption DEF TypeOK, WorkerDies
<1>5. TypeOK'
  BY <1>1, <1>2, <1>3, <1>4 DEF TypeOK
<1>6. TraceInv'
  BY <1>2 DEF TraceInv, At, Over
<1>7. OrphansNeedFaults'
  BY <1>2 DEF OrphansNeedFaults, At, Over
<1> QED
  BY <1>3, <1>5, <1>6, <1>7

LEMMA CommitRunKeeps ==
    ASSUME Inv, NEW r \in Runs, CommitRun(r)
    PROVE  Inv'
<1> USE DEF Inv
<1>1. TypeOK'
  BY DEF TypeOK, CommitRun
<1>2. KeyInv' /\ FileInv' /\ TraceInv'
  BY DEF KeyInv, Pending, IdOf, FileInv, TraceInv, At, Test, Margin, CommitRun
<1>3. GoldenRowHasItsTest' /\ TestsAreWhole' /\ OrphansNeedFaults'
  BY DEF GoldenRowHasItsTest, TestsAreWhole, OrphansNeedFaults, At, CommitRun
<1> QED
  BY <1>1, <1>2, <1>3
-----------------------------------------------------------------------------
LEMMA NextInv == Inv /\ [Next]_vars => Inv'
<1> SUFFICES ASSUME Inv, [Next]_vars PROVE Inv'
  OBVIOUS
<1>1. ASSUME NEW r \in Runs, CommitRun(r) PROVE Inv'
  BY <1>1, CommitRunKeeps
<1>2. ASSUME NEW q \in Requests, Handle(q) PROVE Inv'
  BY <1>2, NotFoundKeeps, AnnotateKeeps, FlushKeeps, OpenTmpKeeps, WriteTmpKeeps, ReplaceKeeps,
     AnswerFirstKeeps, CommitKeeps, CommitFailsKeeps DEF Handle
<1>3. ASSUME NEW w \in Servers, WorkerDies(w) PROVE Inv'
  BY <1>3, WorkerDiesKeeps
<1>4. ASSUME UNCHANGED vars PROVE Inv'
  BY <1>4 DEF Inv, TypeOK, KeyInv, Pending, IdOf, FileInv, TraceInv, At, Test, Margin,
              GoldenRowHasItsTest, TestsAreWhole, OrphansNeedFaults, vars
<1> QED
  BY <1>1, <1>2, <1>3, <1>4 DEF Next, Rest

THEOREM Invariance == Spec => []Inv
  BY InitInv, NextInv, PTL DEF Spec

(* Every variable keeps its type. *)
THEOREM TypeCorrect == Spec => []TypeOK
<1>1. Inv => TypeOK
  BY DEF Inv
<1> QED
  BY <1>1, Invariance, PTL

(* hitl.py adds the row before it writes the test and commits it after: for any
   number of annotations, processes and identifiers, a committed row has the
   whole test of its own annotation. *)
THEOREM RowsHaveTests == Spec => []GoldenRowHasItsTest
<1>1. Inv => GoldenRowHasItsTest
  BY DEF Inv
<1> QED
  BY <1>1, Invariance, PTL

(* What _write_file renames is whole, whoever else writes or dies. *)
THEOREM WritesAreAtomic == Spec => []TestsAreWhole
<1>1. Inv => TestsAreWhole
  BY DEF Inv
<1> QED
  BY <1>1, Invariance, PTL

(* Only a failed commit or a dead worker leaves a test, or a client's answer,
   without its row. *)
THEOREM OrphansAreFaults == Spec => []OrphansNeedFaults
<1>1. Inv => OrphansNeedFaults
  BY DEF Inv
<1> QED
  BY <1>1, Invariance, PTL
-----------------------------------------------------------------------------
(* The steps a handler that has begun may still take. *)
Left(q) == CASE At(q, "adding")    -> 6
             [] At(q, "flushed")   -> 5
             [] At(q, "writing")   -> 4
             [] At(q, "written")   -> 3
             [] At(q, "generated") -> IF answer[q] = "none" THEN 2 ELSE 1
             [] OTHER              -> 0

(* Each step of a handler brings it nearer to its end, and no other handler and
   no death puts the end off: an identifier is drawn once and no file is written
   twice.  It is what EveryRequestEnds rests on, besides fairness. *)
NearerItsEnd ==
    \A q \in Requests : Open(q) =>
        /\ Left(q) \in 1..6
        /\ Left(q)' <= Left(q)
        /\ Handle(q) => Left(q)' < Left(q)

LEMMA OpenStage ==
    ASSUME TypeOK, NEW q \in Requests, Open(q)
    PROVE  req[q].stage \in Stages /\ req[q] \in Handled /\ Left(q) \in 1..6
<1>1. req[q].stage \in Stages /\ req[q] \in Handled
  BY RequestType DEF Open, At
<1> QED
  BY <1>1 DEF Stages, Left, At

LEMMA HandleIsNearer ==
    ASSUME TypeOK, NEW q \in Requests, Open(q), Handle(q)
    PROVE  Left(q)' < Left(q)
<1>1. req[q] \in Handled /\ Left(q) \in 1..6
  BY OpenStage
<1>2. req \in [Requests -> Handled \union {New, Over}]
  BY DEF TypeOK
<1>3. ASSUME Raised(q) \/ req' = [req EXCEPT ![q] = Over] PROVE Left(q)' < Left(q)
  <2>1. req'[q].stage = "over"
    BY <1>2, <1>3 DEF Raised, Over
  <2> QED
    BY <2>1, <1>1 DEF Left, At
<1>4. ASSUME NEW s, Move(q, s) PROVE req'[q].stage = s
  BY <1>1, <1>2, <1>4 DEF Move, Handled
<1>5. ASSUME NEW w \in Servers, NEW r \in Runs, NotFound(q, w, r) \/ Annotate(q, w, r)
      PROVE  FALSE
  BY <1>5 DEF Open, NotFound, Annotate
<1>6. CASE Flush(q)
  BY <1>3, <1>4, <1>6 DEF Flush, Left, At
<1>7. CASE OpenTmp(q)
  <2>1. req[q].stage = "flushed"
    BY <1>7 DEF OpenTmp, At
  <2>2. CASE Move(q, "writing")
    <3>1. req'[q].stage = "writing"
      BY <2>2, <1>4
    <3> QED
      BY <2>1, <3>1 DEF Left, At
  <2>3. CASE Raised(q)
    BY <2>3, <1>3
  <2> QED
    BY <2>2, <2>3, <1>7 DEF OpenTmp
<1>8. CASE WriteTmp(q)
  <2>1. req[q].stage = "writing"
    BY <1>8 DEF WriteTmp, At
  <2>2. CASE Move(q, "written")
    <3>1. req'[q].stage = "written"
      BY <2>2, <1>4
    <3> QED
      BY <2>1, <3>1 DEF Left, At
  <2>3. CASE Raised(q)
    BY <2>3, <1>3
  <2> QED
    BY <2>2, <2>3, <1>8 DEF WriteTmp
<1>9. CASE Replace(q)
  BY <1>3, <1>4, <1>9 DEF Replace, Left, At
<1>10. CASE AnswerFirst(q)
  <2>1. answer'[q] = "annotated" /\ req' = req
    BY <1>10 DEF AnswerFirst, TypeOK
  <2> QED
    BY <2>1, <1>10 DEF AnswerFirst, Left, At
<1>11. CASE Commit(q) \/ CommitFails(q)
  BY <1>3, <1>11 DEF Commit, CommitFails
<1> QED
  BY <1>5, <1>6, <1>7, <1>8, <1>9, <1>10, <1>11 DEF Handle

LEMMA NobodyPutsItOff ==
    ASSUME TypeOK, NEW q \in Requests, Open(q), [Next]_vars
    PROVE  Left(q)' <= Left(q)
<1>1. Left(q) \in 1..6
  BY OpenStage
<1>2. ASSUME UNCHANGED <<req[q], answer[q]>> PROVE Left(q)' = Left(q)
  BY <1>2 DEF Left, At
<1>3. CASE Handle(q)
  <2>1. Left(q)' < Left(q)
    BY <1>3, HandleIsNearer
  <2>2. Left(q)' \in 0..6
    BY DEF Left
  <2> QED
    BY <2>1, <2>2, <1>1
<1>4. ASSUME NEW p \in Requests \ {q}, Handle(p) PROVE UNCHANGED <<req[q], answer[q]>>
  BY <1>4 DEF TypeOK, Handle, NotFound, Annotate, Flush, OpenTmp, WriteTmp, Replace, AnswerFirst,
     Commit, CommitFails, Raised, Move
<1>5. ASSUME NEW w \in Servers, WorkerDies(w) PROVE Left(q)' <= Left(q)
  <2>1. CASE q \in HeldBy(w)
    <3>1. req'[q].stage = "over"
      BY <1>5, <2>1 DEF WorkerDies, Over
    <3>2. Left(q)' = 0
      BY <3>1 DEF Left, At
    <3> QED
      BY <3>2, <1>1
  <2>2. CASE q \notin HeldBy(w)
    <3>1. UNCHANGED <<req[q], answer[q]>>
      BY <1>5, <2>2 DEF WorkerDies
    <3> QED
      BY <3>1, <1>1, <1>2
  <2> QED
    BY <2>1, <2>2
<1>6. ASSUME UNCHANGED vars \/ \E r \in Runs : CommitRun(r) PROVE UNCHANGED <<req[q], answer[q]>>
  BY <1>6 DEF vars, CommitRun
<1> QED
  BY <1>1, <1>2, <1>3, <1>4, <1>5, <1>6 DEF Next, Rest

(* An annotation that has begun ends within six steps of its own, for any number
   of annotations, processes and identifiers, and whatever the others do. *)
THEOREM RequestsRunOut == Spec => [][NearerItsEnd]_vars
<1>1. TypeOK /\ [Next]_vars => [NearerItsEnd]_vars
  BY OpenStage, HandleIsNearer, NobodyPutsItOff DEF NearerItsEnd
<1> QED
  BY <1>1, TypeCorrect, PTL DEF Spec
-----------------------------------------------------------------------------
(* Whom a handler waits for: the one whose uncommitted row has its key, and
   those that write a file in the event loop of its own process. *)
WaitsFor(q) ==
    {p \in Requests : \/ At(q, "adding") /\ Pending(p) /\ IdOf(p) = IdOf(q)
                      \/ /\ req[q].stage \in {"adding", "flushed", "generated"}
                         /\ req[p].stage \in {"writing", "written"} /\ req[p].at = req[q].at}

(* Nobody waits in a circle: whoever has a key another one waits for needs no key
   itself, and whoever writes a file waits for nobody.  An annotation waits for
   one holder of its key at most. *)
WaitsAreShort ==
    \A q \in Requests :
        /\ q \notin WaitsFor(q)
        /\ \A p \in WaitsFor(q) : \A r \in WaitsFor(p) : WaitsFor(r) = {}
        /\ \A p, r \in WaitsFor(q) :
              Pending(p) /\ Pending(r) /\ IdOf(p) = IdOf(q) /\ IdOf(r) = IdOf(q) => p = r

(* Annotations cannot hold each other up for ever, in one process or several. *)
THEOREM NoCircularWait == Spec => []WaitsAreShort
<1>1. Inv => WaitsAreShort
  BY DEF Inv, KeyInv, WaitsAreShort, WaitsFor, Pending, At
<1> QED
  BY <1>1, Invariance, PTL
=============================================================================
