------------------------- MODULE ProgressStreamProofs -------------------------
(***************************************************************************)
(* ProgressStream keeps its types, a stream has one outcome and runs out   *)
(* of polls, and a client is told of committed suites only, for any jobs,  *)
(* clients and polls.                                                      *)
(***************************************************************************)
EXTENDS ProgressStream, TLAPS

(* What a stream sent, and that the results there are come from suites. *)
SentInv ==
    \A c \in Clients : ~At(c, "closed") =>
        \/ At(c, "over") /\ \E v \in Events : stream[c].sent = <<v>>
        \/ ~At(c, "over") /\ stream[c].sent = <<>>

ResultInv == \A j \in Jobs : results[j] \subseteq suites[j]

IInv == TypeOK /\ SentInv /\ ResultInv /\ ToldIsCommitted

(* What a job step may do to the three variables of the contract. *)
LEMMA JobStepCases ==
    ASSUME JobStep
    PROVE  \E j \in Jobs :
              \/ /\ accepted' = accepted \union {j}
                 /\ suites' = suites /\ results' = results
              \/ /\ \E s \in Suites : suites' = [suites EXCEPT ![j] = @ \union {s}]
                 /\ accepted' = accepted /\ results' = results
              \/ /\ \E s \in suites[j] : results' = [results EXCEPT ![j] = {s}]
                 /\ accepted' = accepted /\ suites' = suites
              \/ /\ results' = [results EXCEPT ![j] = {}]
                 /\ accepted' = accepted /\ suites' = suites
PROOF
BY DEF JobStep, Job!Accept, Job!Publish, Job!Expire, Job!CommitSuite, Summary

(* The job's steps leave the streams alone, and no suite is withdrawn. *)
LEMMA JobStepInv == ASSUME IInv, JobStep PROVE IInv'
PROOF
<1>1. PICK j \in Jobs :
        \/ /\ accepted' = accepted \union {j}
           /\ suites' = suites /\ results' = results
        \/ /\ \E s \in Suites : suites' = [suites EXCEPT ![j] = @ \union {s}]
           /\ accepted' = accepted /\ results' = results
        \/ /\ \E s \in suites[j] : results' = [results EXCEPT ![j] = {s}]
           /\ accepted' = accepted /\ suites' = suites
        \/ /\ results' = [results EXCEPT ![j] = {}]
           /\ accepted' = accepted /\ suites' = suites
  BY JobStepCases
<1>2. stream' = stream
  BY DEF JobStep
<1>3. TypeOK'
  BY <1>1, <1>2 DEF IInv, TypeOK
<1>4. ResultInv' /\ \A k \in Jobs : suites[k] \subseteq suites'[k]
  BY <1>1 DEF IInv, ResultInv, TypeOK
<1>5. SentInv'
  BY <1>2 DEF IInv, SentInv, At
<1>6. ToldIsCommitted'
  <2>1. SUFFICES ASSUME NEW c \in Clients, ~At(c, "closed"),
                        NEW i \in DOMAIN stream[c].sent, NEW s \in Suites,
                        stream[c].sent[i] = Complete(s)
                 PROVE  s \in suites'[stream[c].job]
    BY <1>2 DEF ToldIsCommitted, At
  <2>2. s \in suites[stream[c].job]
    BY <2>1 DEF IInv, ToldIsCommitted
  <2>3. stream[c].job \in Jobs
    BY <2>1 DEF IInv, TypeOK, Streams, Closed, At
  <2> QED
    BY <2>2, <2>3, <1>4
<1> QED
  BY <1>3, <1>4, <1>5, <1>6 DEF IInv

(* The entry of client c becomes e, which agrees with the invariant. *)
Fits(c, e) ==
    \/ e = Closed
    \/ /\ e \in Streams
       /\ \/ e.stage # "over" /\ e.sent = <<>>
          \/ /\ e.stage = "over"
             /\ \E v \in Events :
                   /\ e.sent = <<v>>
                   /\ \A s \in Suites : v = Complete(s) => s \in suites[e.job]

LEMMA FittingStepInv ==
    ASSUME IInv, NEW c \in Clients, NEW e, Fits(c, e),
           stream' = [stream EXCEPT ![c] = e], UNCHANGED job
    PROVE  IInv'
PROOF
<1>0. accepted' = accepted /\ suites' = suites /\ results' = results
  BY DEF job
<1>1. \A d \in Clients : stream'[d] = IF d = c THEN e ELSE stream[d]
  BY DEF IInv, TypeOK
<1>2. e \in Streams \union {Closed}
  BY DEF Fits
<1>3. TypeOK'
  BY <1>0, <1>2 DEF IInv, TypeOK
<1>4. SentInv'
  BY <1>1 DEF IInv, SentInv, Fits, At, Closed
<1>5. ResultInv'
  BY <1>0 DEF IInv, ResultInv
<1>6. ToldIsCommitted'
  <2>1. SUFFICES ASSUME NEW d \in Clients, stream'[d].stage # "closed",
                        NEW i \in DOMAIN stream'[d].sent, NEW s \in Suites,
                        stream'[d].sent[i] = Complete(s)
                 PROVE  s \in suites[stream'[d].job]
    BY <1>0 DEF ToldIsCommitted, At
  <2>2. CASE d # c
    BY <2>1, <2>2, <1>1 DEF IInv, ToldIsCommitted, At
  <2>3. CASE d = c
    <3>1. stream'[d] = e /\ e # Closed
      BY <2>1, <2>3, <1>1 DEF Closed
    <3>2. CASE e.sent = <<>>
      BY <3>1, <3>2, <2>1
    <3>3. CASE \E v \in Events :
                   /\ e.sent = <<v>>
                   /\ \A t \in Suites : v = Complete(t) => t \in suites[e.job]
      <4>1. PICK v \in Events :
                   /\ e.sent = <<v>>
                   /\ \A t \in Suites : v = Complete(t) => t \in suites[e.job]
        BY <3>3
      <4>2. e.sent[i] = v
        BY <4>1, <3>1, <2>1
      <4> QED
        BY <4>1, <4>2, <3>1, <2>1
    <3> QED
      BY <3>1, <3>2, <3>3 DEF Fits
  <2> QED
    BY <2>2, <2>3
<1> QED
  BY <1>3, <1>4, <1>5, <1>6 DEF IInv

(* Every step of a client or of its generator leaves a fitting entry. *)
LEMMA StreamStepInv ==
    ASSUME IInv, NEW c \in Clients,
           \/ Serve(c) \/ Drop(c) \/ Reconnect(c) \/ Close(c)
           \/ \E j \in Jobs : Watch(c, j)
    PROVE  IInv'
PROOF
<1> USE ConstantsAssumption
<1> DEFINE Moved(s) == [stream[c] EXCEPT !.stage = s]
           Told(s, v) == [stream[c] EXCEPT !.stage = s, !.sent = Append(@, v)]
<1>1. ASSUME Open(c)
      PROVE  stream[c] \in Streams /\ stream[c].sent = <<>>
  BY <1>1 DEF IInv, TypeOK, SentInv, Open, At, Closed
<1>2. ASSUME NEW s \in {"progress", "result", "sleep", "broken"}, Open(c), Go(c, s)
      PROVE  IInv'
  <2>1. Moved(s) \in Streams /\ Moved(s).sent = <<>> /\ Moved(s).stage = s
    BY <1>1, <1>2 DEF Streams, Stages
  <2>2. Fits(c, Moved(s))
    BY <2>1 DEF Fits
  <2>3. stream' = [stream EXCEPT ![c] = Moved(s)] /\ UNCHANGED job
    BY <1>2 DEF Go, IInv, TypeOK
  <2> HIDE DEF Moved
  <2> QED
    BY <2>2, <2>3, FittingStepInv
<1>3. ASSUME NEW v \in Events, Open(c), Send(c, "over", v),
             \A s \in Suites : v = Complete(s) => s \in suites[stream[c].job]
      PROVE  IInv'
  <2>1. /\ Told("over", v) \in Streams /\ Told("over", v).sent = <<v>>
        /\ Told("over", v).stage = "over" /\ Told("over", v).job = stream[c].job
    <3> DEFINE t == [stream[c] EXCEPT !.stage = "over"]
    <3>1. /\ t \in Streams /\ t.sent = <<>>
          /\ t.stage = "over" /\ t.job = stream[c].job
      BY <1>1, <1>3 DEF Streams, Stages
    <3>2. Append(stream[c].sent, v) = <<v>> /\ <<v>> \in Seq(Events)
      <4>1. stream[c].sent = <<>>
        BY <1>1, <1>3
      <4>2. Append(<<>>, v) = <<v>> /\ <<v>> \in Seq(Events)
        OBVIOUS
      <4> QED
        BY <4>1, <4>2
    <3>3. Told("over", v) = [t EXCEPT !.sent = <<v>>]
      BY <3>2
    <3> HIDE DEF t, Told
    <3> QED
      BY <3>1, <3>2, <3>3 DEF Streams
  <2>2. Fits(c, Told("over", v))
    BY <2>1, <1>3 DEF Fits
  <2>3. stream' = [stream EXCEPT ![c] = Told("over", v)] /\ UNCHANGED job
    BY <1>3 DEF Send, IInv, TypeOK
  <2> HIDE DEF Told
  <2> QED
    BY <2>2, <2>3, FittingStepInv
<1>4. ASSUME NEW j \in Jobs, stream' = [stream EXCEPT ![c] = Fresh(j)], UNCHANGED job
      PROVE  IInv'
  <2>1. Fits(c, Fresh(j))
    BY DEF Fits, Fresh, Streams, Stages
  <2> QED
    BY <2>1, <1>4, FittingStepInv
<1>5. CASE PollProgress(c)
  BY <1>5, <1>2 DEF PollProgress, At, Open
<1>6. CASE PollResult(c)
  <2>1. Open(c)
    BY <1>6 DEF PollResult, At, Open
  <2>2. CASE results[stream[c].job] = {}
    BY <2>1, <2>2, <1>6, <1>2 DEF PollResult
  <2>3. CASE results[stream[c].job] # {}
    <3>1. PICK s \in results[stream[c].job] : Send(c, "over", Complete(s))
      BY <2>3, <1>6 DEF PollResult
    <3>2. stream[c].job \in Jobs
      BY <2>1, <1>1 DEF Streams
    <3>3. s \in Suites /\ s \in suites[stream[c].job]
      BY <3>1, <3>2 DEF IInv, TypeOK, ResultInv
    <3>4. /\ Complete(s) \in Events
          /\ \A t \in Suites : Complete(s) = Complete(t) => t = s
      BY <3>3 DEF Events, Complete
    <3> QED
      BY <3>1, <3>3, <3>4, <2>1, <1>3
  <2> QED
    BY <2>2, <2>3
<1>7. CASE Wake(c)
  <2>1. Open(c)
    BY <1>7 DEF Wake, At, Open
  <2>2. CASE stream[c].ticks + 1 < Ticks
    <3> DEFINE e == [stream[c] EXCEPT !.stage = "progress", !.ticks = @ + 1]
    <3>1. e \in Streams /\ e.sent = <<>> /\ e.stage = "progress"
      <4> DEFINE t == [stream[c] EXCEPT !.stage = "progress"]
      <4>1. t \in Streams /\ t.sent = <<>> /\ t.stage = "progress"
        BY <2>1, <1>1 DEF Streams, Stages
      <4>2. stream[c].ticks + 1 \in 0..(Ticks - 1)
        BY <2>1, <2>2, <1>1 DEF Streams
      <4>3. e = [t EXCEPT !.ticks = stream[c].ticks + 1]
        OBVIOUS
      <4> HIDE DEF t, e
      <4> QED
        BY <4>1, <4>2, <4>3 DEF Streams
    <3>2. Fits(c, e)
      BY <3>1 DEF Fits
    <3>3. stream' = [stream EXCEPT ![c] = e] /\ UNCHANGED job
      BY <1>7, <2>2 DEF Wake, IInv, TypeOK
    <3> HIDE DEF e
    <3> QED
      BY <3>2, <3>3, FittingStepInv
  <2>3. CASE ~(stream[c].ticks + 1 < Ticks)
    <3>1. Send(c, "over", Timeout)
      BY <2>3, <1>7 DEF Wake
    <3>2. Timeout \in Events /\ \A s \in Suites : Timeout # Complete(s)
      BY DEF Events, Timeout, Complete
    <3> QED
      BY <3>1, <3>2, <2>1, <1>3
  <2> QED
    BY <2>2, <2>3
<1>8. CASE RedisFails(c)
  BY <1>8, <1>2 DEF RedisFails, Open
<1>9. CASE Drop(c)
  BY <1>9, <1>2 DEF Drop
<1>10. CASE Reconnect(c)
  <2>1. stream[c].job \in Jobs
    BY <1>10 DEF Reconnect, IInv, TypeOK, Streams, Closed
  <2> QED
    BY <2>1, <1>10, <1>4 DEF Reconnect
<1>11. CASE Close(c)
  <2>1. Fits(c, Closed)
    BY DEF Fits
  <2> QED
    BY <2>1, <1>11, FittingStepInv DEF Close
<1>12. CASE \E j \in Jobs : Watch(c, j)
  BY <1>12, <1>4 DEF Watch
<1> QED
  BY <1>5, <1>6, <1>7, <1>8, <1>9, <1>10, <1>11, <1>12 DEF Serve

LEMMA InitInv == Init => IInv
PROOF
BY DEF Init, Job!Init, IInv, TypeOK, SentInv, ResultInv, ToldIsCommitted, At, Closed

LEMMA NextInv == IInv /\ [Next]_vars => IInv'
PROOF
<1> SUFFICES ASSUME IInv, [Next]_vars PROVE IInv'
  OBVIOUS
<1>1. CASE JobStep
  BY <1>1, JobStepInv
<1>2. ASSUME NEW c \in Clients,
             \/ Serve(c) \/ Drop(c) \/ Reconnect(c) \/ Close(c)
             \/ \E j \in Jobs : Watch(c, j)
      PROVE  IInv'
  BY <1>2, StreamStepInv
<1>3. CASE UNCHANGED vars
  BY <1>3 DEF vars, job, IInv, TypeOK, SentInv, ResultInv, ToldIsCommitted, At
<1> QED
  BY <1>1, <1>2, <1>3 DEF Next

LEMMA Invariance == Spec => []IInv
PROOF
BY InitInv, NextInv, PTL DEF Spec

(* Every variable of the streams keeps its type. *)
THEOREM TypeCorrect == Spec => []TypeOK
PROOF
<1>1. IInv => TypeOK
  BY DEF IInv
<1> QED
  BY <1>1, Invariance, PTL

(* A stream tells of one outcome, when it is over and not before. *)
THEOREM StreamsHaveOneOutcome == Spec => []OneOutcome
PROOF
<1>1. IInv => OneOutcome
  <2> SUFFICES ASSUME IInv, NEW c \in Clients, ~At(c, "closed")
               PROVE  Len(stream[c].sent) = IF At(c, "over") THEN 1 ELSE 0
    BY DEF OneOutcome
  <2>1. CASE At(c, "over") /\ \E v \in Events : stream[c].sent = <<v>>
    BY <2>1
  <2>2. CASE ~At(c, "over") /\ stream[c].sent = <<>>
    BY <2>2
  <2> QED
    BY <2>1, <2>2 DEF IInv, SentInv
<1> QED
  BY <1>1, Invariance, PTL

(* Whatever a client is told was committed for the job it watches. *)
THEOREM ClientsHearOfCommittedSuites == Spec => []ToldIsCommitted
PROOF
<1>1. IInv => ToldIsCommitted
  BY DEF IInv
<1> QED
  BY <1>1, Invariance, PTL
-----------------------------------------------------------------------------
(* What is left of a stream: three steps for each poll that it may still make. *)
Left(c) == CASE At(c, "progress") -> 3 * (Ticks - stream[c].ticks)
             [] At(c, "result")   -> 3 * (Ticks - stream[c].ticks) - 1
             [] At(c, "sleep")    -> 3 * (Ticks - stream[c].ticks) - 2
             [] OTHER             -> 0

(* Each step of the generator brings its stream nearer to its end, and nothing
   else, of the job, of other streams or of the client, puts the end off.  It is
   what EveryStreamEnds rests on, besides fairness. *)
NearerItsEnd ==
    \A c \in Clients :
        /\ Left(c) \in 0..(3 * Ticks)
        /\ Open(c) => Left(c)' <= Left(c)
        /\ Serve(c) => Left(c)' < Left(c)

LEMMA LeftType ==
    ASSUME TypeOK, NEW c \in Clients
    PROVE  /\ Left(c) \in 0..(3 * Ticks)
           /\ Open(c) <=> Left(c) > 0
PROOF
<1>1. Ticks \in Nat
  BY ConstantsAssumption
<1>2. Open(c) => stream[c].ticks \in 0..(Ticks - 1)
  BY DEF TypeOK, Streams, Closed, Open
<1> QED
  BY <1>1, <1>2 DEF Left, Open, At

(* Other streams, and the job, are of no account. *)
LEMMA LeftStays ==
    ASSUME NEW c \in Clients, stream'[c] = stream[c] PROVE Left(c)' = Left(c)
PROOF
BY DEF Left, At

LEMMA ServeIsNearer ==
    ASSUME TypeOK, NEW c \in Clients, Serve(c) PROVE Left(c)' < Left(c)
PROOF
<1>1. stream[c].stage \in {"progress", "result", "sleep"}
  BY DEF Serve, PollProgress, PollResult, Wake, RedisFails, At
<1>2. /\ stream[c] \in Streams /\ Ticks \in Nat
      /\ stream \in [Clients -> Streams \union {Closed}]
  BY <1>1, ConstantsAssumption DEF TypeOK, Closed
<1>3. stream[c].ticks \in 0..(Ticks - 1)
  BY <1>2 DEF Streams
<1>4. CASE PollProgress(c)
  <2>1. stream'[c].stage = "result" /\ stream'[c].ticks = stream[c].ticks
    BY <1>2, <1>4 DEF PollProgress, Go, Streams
  <2> QED
    BY <1>2, <1>3, <1>4, <2>1 DEF PollProgress, Left, At
<1>5. ASSUME NEW s, Go(c, s), s \in {"over", "broken"} PROVE Left(c)' = 0
  <2>1. stream'[c].stage = s
    BY <1>2, <1>5 DEF Go, Streams
  <2> QED
    BY <2>1, <1>5 DEF Left, At
<1>6. ASSUME NEW e, Send(c, "over", e) PROVE Left(c)' = 0
  <2>1. stream'[c].stage = "over"
    BY <1>2, <1>6 DEF Send, Streams
  <2> QED
    BY <2>1 DEF Left, At
<1>7. Left(c) > 0
  BY <1>1, LeftType DEF Open
<1>8. CASE PollResult(c)
  <2>1. CASE Go(c, "sleep")
    <3>1. stream'[c].stage = "sleep" /\ stream'[c].ticks = stream[c].ticks
      BY <1>2, <2>1 DEF Go, Streams
    <3> QED
      BY <1>2, <1>3, <1>8, <3>1 DEF PollResult, Left, At
  <2>2. CASE \E s \in results[stream[c].job] : Send(c, "over", Complete(s))
    BY <2>2, <1>6, <1>7
  <2> QED
    BY <1>8, <2>1, <2>2 DEF PollResult
<1>9. CASE Wake(c)
  <2>1. CASE stream' = [stream EXCEPT ![c].stage = "progress", ![c].ticks = @ + 1]
    <3>1. stream'[c].stage = "progress" /\ stream'[c].ticks = stream[c].ticks + 1
      BY <1>2, <2>1 DEF Streams
    <3> QED
      BY <1>2, <1>3, <1>9, <3>1 DEF Wake, Left, At
  <2>2. CASE Send(c, "over", Timeout)
    BY <2>2, <1>6, <1>7
  <2> QED
    BY <1>9, <2>1, <2>2 DEF Wake
<1>10. CASE RedisFails(c)
  BY <1>5, <1>7, <1>10 DEF RedisFails
<1> QED
  BY <1>4, <1>8, <1>9, <1>10 DEF Serve

LEMMA NobodyPutsItOff ==
    ASSUME TypeOK, TypeOK', NEW c \in Clients, Open(c), [Next]_vars
    PROVE  Left(c)' <= Left(c)
PROOF
<1>1. Left(c) \in Nat /\ Left(c)' \in Nat
  <2>1. Left(c)' \in Nat
    <3>1. Ticks \in Nat
      BY ConstantsAssumption
    <3>2. Open(c)' => stream'[c].ticks \in 0..(Ticks - 1)
      BY DEF TypeOK, Streams, Closed, Open
    <3> QED
      BY <3>1, <3>2 DEF Left, Open, At
  <2> QED
    BY <2>1, LeftType, ConstantsAssumption
<1>2. stream \in [Clients -> Streams \union {Closed}]
  BY DEF TypeOK
<1>3. CASE stream'[c] = stream[c]
  BY <1>1, <1>3, LeftStays
<1>4. CASE Serve(c)
  BY <1>1, <1>4, ServeIsNearer
<1>5. CASE Drop(c) \/ Close(c)
  <2>1. stream'[c].stage \in {"broken", "closed"}
    BY <1>2, <1>5 DEF Drop, Close, Go, Closed, Streams, Open
  <2> QED
    BY <2>1, <1>1 DEF Left, At
<1>6. ~Reconnect(c) /\ \A j \in Jobs : ~Watch(c, j)
  BY DEF Reconnect, Watch, Open, At
<1>7. ASSUME NEW d \in Clients \ {c},
             \/ Serve(d) \/ Drop(d) \/ Reconnect(d) \/ Close(d)
             \/ \E j \in Jobs : Watch(d, j)
      PROVE  stream'[c] = stream[c]
  BY <1>2, <1>7 DEF Serve, PollProgress, PollResult, Wake, RedisFails, Drop, Reconnect,
     Close, Watch, Go, Send
<1>8. JobStep \/ UNCHANGED vars => stream'[c] = stream[c]
  BY DEF JobStep, vars
<1> QED
  BY <1>3, <1>4, <1>5, <1>6, <1>7, <1>8 DEF Next

(* A stream ends after three steps a poll at most, for any number of polls,
   clients and jobs, whatever the job and the client do meanwhile. *)
THEOREM PollsRunOut == Spec => [][NearerItsEnd]_vars
PROOF
<1>1. TypeOK /\ TypeOK' /\ [Next]_vars => [NearerItsEnd]_vars
  BY LeftType, ServeIsNearer, NobodyPutsItOff DEF NearerItsEnd
<1> QED
  BY <1>1, TypeCorrect, PTL DEF Spec
=============================================================================
