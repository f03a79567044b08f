-------------------------- MODULE ServerCall_proofs --------------------------
(***************************************************************************)
(* The safety of ServerCall, for any set of kinds of methods, any number   *)
(* of threads and streams of any length.  The invariant says where the     *)
(* handle of the call is at each point of CallMethod: as long as code runs *)
(* that may use it somebody holds it, so that only the last one can find   *)
(* nobody else, and all copies are of one core object.                     *)
(***************************************************************************)
EXTENDS ServerCall, TLAPS

Stage ==
  /\ made \in {0, 1}
  /\ pc = "called" => made = 0
  /\ made = 0 => /\ pc \in {"called", "returned"}
                 /\ first = "none"
                 /\ ~ failed
  /\ pc \in {"deserialize", "handler", "reset", "start", "leave"} => held["entry"] = 1
  /\ pc = "handler" => held["handler"] = 1
  /\ pc = "start" => held["reader"] = 1

\* One core object, closed when the first final answer was given.
OneCore == done = IF first = "none" THEN {} ELSE {1}

Inv ==
  /\ TypeOK
  /\ Stage
  /\ OneCore
  /\ AnsweredOnce
  /\ ClosedByLast
  /\ FailureReported
  /\ AssertsHold

LEMMA HoldersNamed ==
  /\ "entry" \in Holders /\ "handler" \in Holders /\ "reader" \in Holders
  /\ \A t \in Threads : /\ t \in Holders
                        /\ t # "entry" /\ t # "handler" /\ t # "reader"
BY ThreadsAssumption DEF Holders

-----------------------------------------------------------------------------
(***************************************************************************)
(* What the operations on core objects do to the answer.                   *)
(***************************************************************************)
Answers == first \in Finals \cup {"none"} /\ sent \in Seq(Finals \cup {"msg"}) /\ done \subseteq Nat

\* Before the first final answer there are only messages.
LEMMA NoFinalYet ==
  ASSUME Answers, AnsweredOnce, first = "none"
  PROVE  \A i \in 1 .. Len(sent) : sent[i] = "msg"
<1>1. sent \in Seq(Finals \cup {"msg"}) /\ Len(sent) \in Nat
  BY DEF Answers
<1>2. CASE sent = << >>
  BY <1>2
<1>3. CASE sent # << >>
  <2>1. sent[Len(sent)] \in Finals \cup {"msg"} /\ Len(sent) # 0
    BY <1>1, <1>3
  <2>2. sent[Len(sent)] = "msg"
    BY <1>3, <2>1 DEF AnsweredOnce, Finals
  <2> QED BY <1>1, <2>1, <2>2 DEF AnsweredOnce
<1> QED BY <1>2, <1>3

\* The first final answer stays the first; a second one changes nothing.
LEMMA FinishOnce ==
  ASSUME Answers, OneCore, AnsweredOnce, NEW how \in Finals, Finish(1, how)
  PROVE  /\ Answers' /\ OneCore' /\ AnsweredOnce'
         /\ first' = IF first = "none" THEN how ELSE first
<1>1. first' = IF first = "none" THEN how ELSE first
  BY DEF Finish
<1>2. CASE first # "none"
  <2>1. UNCHANGED <<done, sent, first>>
    BY <1>1, <1>2 DEF Finish, OneCore
  <2> QED BY <2>1, <1>1, <1>2 DEF Answers, OneCore, AnsweredOnce
<1>3. CASE first = "none"
  <2>1. done' = {1} /\ sent' = Append(sent, how) /\ first' = how
    BY <1>1, <1>3 DEF Finish, OneCore
  <2>2. how # "none" /\ how # "msg" /\ sent \in Seq(Finals \cup {"msg"})
    BY DEF Finals, Answers
  <2>3. \A i \in 1 .. Len(sent) : sent[i] = "msg"
    BY <1>3, NoFinalYet
  <2>4. /\ sent' \in Seq(Finals \cup {"msg"})
        /\ Len(sent') = Len(sent) + 1 /\ Len(sent) \in Nat
        /\ sent'[Len(sent')] = how
        /\ \A i \in 1 .. Len(sent) : sent'[i] = sent[i]
    BY <2>1, <2>2
  <2>5. AnsweredOnce'
    BY <2>1, <2>2, <2>3, <2>4 DEF AnsweredOnce
  <2> QED BY <2>1, <2>2, <2>4, <2>5, <1>1 DEF Answers, OneCore
<1> QED BY <1>2, <1>3

\* A message goes out only before the final answer.
LEMMA WriteBefore ==
  ASSUME Answers, OneCore, AnsweredOnce, Write(1)
  PROVE  Answers' /\ OneCore' /\ AnsweredOnce' /\ first' = first
<1>1. first' = first /\ done' = done
  BY DEF Write
<1>2. CASE first # "none"
  <2>1. UNCHANGED sent
    BY <1>2 DEF Write, OneCore
  <2> QED BY <2>1, <1>1 DEF Answers, OneCore, AnsweredOnce
<1>3. CASE first = "none"
  <2>1. sent' = Append(sent, "msg") /\ sent \in Seq(Finals \cup {"msg"})
    BY <1>3 DEF Write, OneCore, Answers
  <2>2. \A i \in 1 .. Len(sent) : sent[i] = "msg"
    BY <1>3, NoFinalYet
  <2>3. /\ sent' \in Seq(Finals \cup {"msg"})
        /\ Len(sent') = Len(sent) + 1 /\ Len(sent) \in Nat
        /\ sent'[Len(sent')] = "msg"
        /\ \A i \in 1 .. Len(sent) : sent'[i] = sent[i]
    BY <2>1
  <2>4. AnsweredOnce'
    BY <1>1, <1>3, <2>2, <2>3 DEF AnsweredOnce
  <2> QED BY <1>1, <2>3, <2>4 DEF Answers, OneCore
<1> QED BY <1>2, <1>3

\* Dropping handles gives a final answer only if nobody is left who could.
LEMMA DropLast ==
  ASSUME Inv, made = 1, NEW H \in SUBSET Holders, Drop(H), kind' = kind, made' = made
  PROVE  /\ held' = [h \in Holders |-> IF h \in H THEN 0 ELSE held[h]]
         /\ Answers' /\ OneCore' /\ AnsweredOnce' /\ ClosedByLast'
         /\ first' = first \/ (first = "none" /\ first' = "auto")
<1> DEFINE Last(h) == held[h] # 0 /\ Unheld(held[h])
<1>1. held' = [h \in Holders |-> IF h \in H THEN 0 ELSE held[h]]
  BY DEF Drop
<1>2. held \in [Holders -> 0 .. 1] /\ held' \in [Holders -> 0 .. 1]
  BY <1>1 DEF Inv, TypeOK
<1>3. Answers /\ OneCore /\ AnsweredOnce /\ ClosedByLast
  BY DEF Inv, TypeOK, Answers
<1>4. CASE HasWriter /\ \E h \in H : Last(h)
  <2>1. Finish(held[CHOOSE h \in H : Last(h)], "auto")
    BY <1>4 DEF Drop
  <2>2. (CHOOSE h \in H : Last(h)) \in H /\ Last(CHOOSE h \in H : Last(h))
    BY <1>4
  <2>3. PICK g \in H : Last(g) /\ Finish(held[g], "auto")
    BY <2>1, <2>2
  <2>4. held[g] = 1
    BY <1>2, <2>3
  <2>5. \A h \in Holders : held'[h] = 0
    BY <1>2, <2>3, <2>4 DEF Unheld
  <2>6. /\ Answers' /\ OneCore' /\ AnsweredOnce'
        /\ first' = IF first = "none" THEN "auto" ELSE first
    BY <1>3, <2>3, <2>4, FinishOnce DEF Finals
  <2>7. ClosedByLast'
    BY <2>5, <2>6 DEF ClosedByLast
  <2> QED BY <1>1, <2>6, <2>7
<1>5. CASE ~ (HasWriter /\ \E h \in H : Last(h))
  <2>1. UNCHANGED answer
    BY <1>5 DEF Drop
  <2>2. Answers' /\ OneCore' /\ AnsweredOnce' /\ first' = first
    BY <2>1, <1>3 DEF answer, Answers, OneCore, AnsweredOnce
  <2>3. (\A h \in Holders : held[h] = 0) => \A h \in Holders : held'[h] = 0
    BY <1>1
  <2>4. HasWriter /\ (\A h \in Holders : held'[h] = 0) => first # "none"
    <3> SUFFICES ASSUME HasWriter, \A h \in Holders : held'[h] = 0
                 PROVE  first # "none"
      OBVIOUS
    <3>1. \A h \in H : held[h] = 0
      BY <1>2, <1>5 DEF Unheld
    <3>2. \A h \in Holders : held[h] = 0
      BY <1>1, <3>1
    <3> QED BY <1>3, <3>2 DEF ClosedByLast
  <2>5. ClosedByLast'
    BY <1>3, <2>2, <2>3, <2>4 DEF ClosedByLast, HasWriter
  <2> QED BY <1>1, <2>2, <2>5
<1> QED BY <1>4, <1>5
-----------------------------------------------------------------------------
(***************************************************************************)
(* Every step preserves the invariant.                                     *)
(***************************************************************************)
LEMMA InvInit == Init => Inv
<1> SUFFICES ASSUME Init PROVE Inv
  OBVIOUS
<1>1. held \in [Holders -> 0 .. made]
  BY DEF Init
<1>2. request \in {"null", "bad", "good"}
  BY DEF Init, ClientStreaming
<1>3. sent \in Seq(Finals \cup {"msg"}) /\ inbox \in Seq({"good", "bad"})
  BY DEF Init
<1>4. TypeOK
  BY <1>1, <1>2, <1>3 DEF Init, TypeOK
<1> QED
  BY <1>1, <1>4 DEF Init, Inv, Stage, OneCore, AnsweredOnce, ClosedByLast,
     FailureReported, AssertsHold

\* What is left to show of a step that gives no answer.
LEMMA AnswerKept ==
  ASSUME Inv, UNCHANGED answer
  PROVE  Answers' /\ OneCore' /\ AnsweredOnce' /\ first' = first
BY DEF Inv, TypeOK, Answers, OneCore, AnsweredOnce, answer

LEMMA CallMethodStep ==
  ASSUME Inv, CallMethod
  PROVE  Inv'
<1> USE HoldersNamed DEF Finals
<1>0. Answers /\ TypeOK /\ Stage /\ OneCore /\ AnsweredOnce /\ ClosedByLast
      /\ FailureReported /\ AssertsHold
  BY DEF Inv, TypeOK, Answers
<1>1. CASE NoRequest
  <2>1. OneCore' /\ AnsweredOnce'
    BY <1>1, AnswerKept DEF NoRequest
  <2> QED BY <1>0, <1>1, <2>1 DEF NoRequest, Inv, TypeOK, Stage, ClosedByLast,
            FailureReported, AssertsHold, HasWriter, answer, client
<1>2. CASE MakeHandle
  <2>1. Answers' /\ OneCore' /\ AnsweredOnce' /\ first' = first
    BY <1>2, AnswerKept DEF MakeHandle
  <2>2. made' = 1 /\ held' = [held EXCEPT !["entry"] = 1]
    BY <1>0, <1>2 DEF MakeHandle, Stage
  <2>3. held' \in [Holders -> 0 .. made'] /\ held'["entry"] = 1
    BY <1>0, <2>2 DEF TypeOK, Stage
  <2>4. first = "none"
    BY <1>0, <1>2 DEF MakeHandle, Stage
  <2> QED BY <1>0, <1>2, <2>1, <2>2, <2>3, <2>4 DEF MakeHandle, Inv, TypeOK, Stage,
            ClosedByLast, FailureReported, AssertsHold, Answers, client
<1>3. CASE CallHandler
  <2>1. Answers' /\ OneCore' /\ AnsweredOnce' /\ first' = first
    BY <1>3, AnswerKept DEF CallHandler
  <2>2. held' = [held EXCEPT !["handler"] = 1] /\ made = 1 /\ made' = 1
    BY <1>0, <1>3 DEF CallHandler, Stage
  <2>3. held' \in [Holders -> 0 .. made'] /\ held'["entry"] = 1 /\ held'["handler"] = 1
    BY <1>0, <1>3, <2>2 DEF TypeOK, Stage, CallHandler
  <2>4. first # "auto"
    BY <1>0, <1>3 DEF CallHandler, Stage, ClosedByLast
  <2> QED BY <1>0, <1>3, <2>1, <2>2, <2>3, <2>4 DEF CallHandler, Inv, TypeOK, Stage,
            ClosedByLast, FailureReported, AssertsHold, Answers, client
<1>4. CASE RefuseRequest
  <2>1. made = 1 /\ made' = 1 /\ held["entry"] = 1
    BY <1>0, <1>4 DEF RefuseRequest, Stage
  <2>2. /\ Answers' /\ OneCore' /\ AnsweredOnce'
        /\ first' = IF first = "none" THEN "error" ELSE first
    BY <1>0, <1>4, <2>1, FinishOnce DEF RefuseRequest
  <2>3. held' \in [Holders -> 0 .. made']
    BY <1>0, <1>4, <2>1 DEF TypeOK, RefuseRequest
  <2>4. first' \notin {"none", "auto"}
    BY <1>0, <2>1, <2>2 DEF ClosedByLast
  <2>5. ~ reading
    BY <1>0, <1>4 DEF RefuseRequest, TypeOK
  <2> QED BY <1>0, <1>4, <2>1, <2>2, <2>3, <2>4, <2>5 DEF RefuseRequest, Inv, TypeOK,
            Stage, ClosedByLast, FailureReported, AssertsHold, Answers, client
<1>5. CASE MakeHandleForReader
  <2>1. Answers' /\ OneCore' /\ AnsweredOnce' /\ first' = first
    BY <1>5, AnswerKept DEF MakeHandleForReader
  <2>2. made' = 1 /\ held' = [held EXCEPT !["entry"] = 1, !["handler"] = 1]
    BY <1>0, <1>5 DEF MakeHandleForReader, Stage
  <2>3. held' \in [Holders -> 0 .. made'] /\ held'["entry"] = 1 /\ held'["handler"] = 1
    BY <1>0, <2>2 DEF TypeOK, Stage
  <2>4. first = "none" /\ ~ reading
    BY <1>0, <1>5 DEF MakeHandleForReader, Stage, TypeOK
  <2> QED BY <1>0, <1>5, <2>1, <2>2, <2>3, <2>4 DEF MakeHandleForReader, Inv, TypeOK,
            Stage, ClosedByLast, FailureReported, AssertsHold, Answers, client
<1>6. CASE Unimplemented
  <2>1. made = 1 /\ made' = 1 /\ held["handler"] = 1
    BY <1>0, <1>6 DEF Unimplemented, Stage
  <2>2. /\ Answers' /\ OneCore' /\ AnsweredOnce'
        /\ first' = IF first = "none" THEN "error" ELSE first
    BY <1>0, <1>6, <2>1, FinishOnce DEF Unimplemented
  <2>3. held' \in [Holders -> 0 .. made']
    BY <1>0, <1>6, <2>1 DEF TypeOK, Unimplemented
  <2>4. first' \notin {"none", "auto"}
    BY <1>0, <2>1, <2>2 DEF ClosedByLast
  <2>5. ~ reading
    BY <1>0, <1>6 DEF Unimplemented, TypeOK
  <2> QED BY <1>0, <1>6, <2>1, <2>2, <2>3, <2>4, <2>5 DEF Unimplemented, Inv, TypeOK,
            Stage, ClosedByLast, FailureReported, AssertsHold, Answers, client
<1>7. CASE HandlerReturns
  <2>1. made = 1 /\ made' = 1 /\ kind' = kind
    BY <1>0, <1>7 DEF HandlerReturns, Stage
  <2>2. /\ held' = [h \in Holders |-> IF h \in {"handler", "entry"} THEN 0 ELSE held[h]]
        /\ Answers' /\ OneCore' /\ AnsweredOnce' /\ ClosedByLast'
        /\ first' = first \/ (first = "none" /\ first' = "auto")
    BY <1>7, <2>1, DropLast DEF HandlerReturns
  <2>3. held' \in [Holders -> 0 .. made']
    BY <1>0, <2>1, <2>2 DEF TypeOK
  <2>4. ~ reading
    BY <1>0, <1>7 DEF HandlerReturns, TypeOK
  <2> QED BY <1>0, <1>7, <2>1, <2>2, <2>3, <2>4 DEF HandlerReturns, Inv, TypeOK, Stage,
            FailureReported, AssertsHold, Answers, client
<1>8. CASE HandlerReturnsReader
  <2>1. made = 1 /\ made' = 1 /\ kind' = kind
    BY <1>0, <1>8 DEF HandlerReturnsReader, Stage
  <2>2. /\ held' = [h \in Holders |-> IF h \in {"handler"} THEN 0 ELSE held[h]]
        /\ Answers' /\ OneCore' /\ AnsweredOnce' /\ ClosedByLast'
        /\ first' = first \/ (first = "none" /\ first' = "auto")
    BY <1>8, <2>1, DropLast DEF HandlerReturnsReader
  <2>3. held' \in [Holders -> 0 .. made'] /\ held'["entry"] = 1
    BY <1>0, <1>8, <2>1, <2>2 DEF TypeOK, Stage, HandlerReturnsReader
  <2>4. ~ reading
    BY <1>0, <1>8 DEF HandlerReturnsReader, TypeOK
  <2> QED BY <1>0, <1>8, <2>1, <2>2, <2>3, <2>4 DEF HandlerReturnsReader, Inv, TypeOK,
            Stage, FailureReported, AssertsHold, Answers, client
<1>9. CASE StartResets
  <2>1. Answers' /\ OneCore' /\ AnsweredOnce' /\ first' = first
    BY <1>9, AnswerKept DEF StartResets
  <2>2. held' = [held EXCEPT !["reader"] = 1] /\ made = 1 /\ made' = 1
    BY <1>0, <1>9 DEF StartResets, Stage
  <2>3. held' \in [Holders -> 0 .. made'] /\ held'["entry"] = 1 /\ held'["reader"] = 1
    BY <1>0, <1>9, <2>2 DEF TypeOK, Stage, StartResets
  <2>4. first # "auto"
    BY <1>0, <1>9 DEF StartResets, Stage, ClosedByLast
  <2> QED BY <1>0, <1>9, <2>1, <2>2, <2>3, <2>4 DEF StartResets, Inv, TypeOK, Stage,
            ClosedByLast, FailureReported, AssertsHold, Answers, client
<1>10. CASE StartReads
  <2>1. Answers' /\ OneCore' /\ AnsweredOnce' /\ first' = first
    BY <1>10, AnswerKept DEF StartReads
  <2> QED BY <1>0, <1>10, <2>1 DEF StartReads, Inv, TypeOK, Stage, ClosedByLast,
            FailureReported, AssertsHold, Answers, client, HasWriter
<1>11. CASE EntryReturns
  <2>1. made = 1 /\ made' = 1 /\ kind' = kind
    BY <1>0, <1>11 DEF EntryReturns, Stage
  <2>2. /\ held' = [h \in Holders |-> IF h \in {"entry"} THEN 0 ELSE held[h]]
        /\ Answers' /\ OneCore' /\ AnsweredOnce' /\ ClosedByLast'
        /\ first' = first \/ (first = "none" /\ first' = "auto")
    BY <1>11, <2>1, DropLast DEF EntryReturns
  <2>3. held' \in [Holders -> 0 .. made'] /\ held'["reader"] = held["reader"]
    BY <1>0, <2>1, <2>2 DEF TypeOK
  <2>4. FailureReported'
    BY <1>0, <1>11, <2>2 DEF EntryReturns, FailureReported
  <2> QED BY <1>0, <1>11, <2>1, <2>2, <2>3, <2>4 DEF EntryReturns, Inv, TypeOK, Stage,
            AssertsHold, Answers, client
<1> QED
  BY <1>1, <1>2, <1>3, <1>4, <1>5, <1>6, <1>7, <1>8, <1>9, <1>10, <1>11 DEF CallMethod

LEMMA ReaderStep ==
  ASSUME Inv, Reader
  PROVE  Inv'
<1> USE HoldersNamed DEF Finals
<1>0. Answers /\ TypeOK /\ Stage /\ OneCore /\ AnsweredOnce /\ ClosedByLast
      /\ FailureReported /\ AssertsHold
  BY DEF Inv, TypeOK, Answers
<1>1. reading => held["reader"] = 1 /\ made = 1 /\ first # "auto"
  BY <1>0 DEF TypeOK, Stage, ClosedByLast
\* OnError, whoever called it.
<1>2. ASSUME reading, callback = "idle", OnError,
             UNCHANGED <<kind, request, started, pc, made, stream, overrides>>,
             inbox' \in Seq({"good", "bad"})
      PROVE  Inv'
  <2>1. CASE overrides
    <3>1. UNCHANGED <<answer, held, reading, asserted>> /\ callback' = "OnError"
      BY <1>2, <2>1 DEF OnError
    <3>2. Answers' /\ OneCore' /\ AnsweredOnce' /\ first' = first
      BY <3>1, AnswerKept
    <3>3. failed' = TRUE
      BY <1>2 DEF OnError
    <3>4. TypeOK'
      BY <1>0, <1>2, <3>1, <3>2, <3>3 DEF TypeOK, Answers
    <3>5. Stage' /\ ClosedByLast'
      BY <1>0, <1>1, <1>2, <3>1, <3>2 DEF Stage, ClosedByLast, HasWriter
    <3>6. FailureReported' /\ AssertsHold'
      BY <1>0, <1>2, <2>1, <3>1 DEF FailureReported, AssertsHold
    <3> QED BY <3>2, <3>4, <3>5, <3>6 DEF Inv
  <2>2. CASE ~ overrides
    <3>1. /\ asserted' = (asserted \/ held["reader"] = 0)
          /\ Finish(held["reader"], "error")
          /\ held' = [held EXCEPT !["reader"] = 0]
          /\ reading' = FALSE
          /\ callback' = callback
      BY <1>2, <2>2 DEF OnError, AssertHandle
    <3>2. /\ Answers' /\ OneCore' /\ AnsweredOnce'
          /\ first' = IF first = "none" THEN "error" ELSE first
      BY <1>0, <1>1, <1>2, <3>1, FinishOnce
    <3>3. first' \notin {"none", "auto"}
      BY <1>1, <1>2, <3>2
    <3>4. held' \in [Holders -> 0 .. made']
      BY <1>0, <1>2, <3>1 DEF TypeOK
    <3>5. asserted' = FALSE
      BY <1>0, <1>1, <1>2, <3>1 DEF AssertsHold, TypeOK
    <3>6. pc \in {"leave", "returned"} /\ held'["entry"] = held["entry"]
      BY <1>0, <1>2, <3>1 DEF TypeOK
    <3>7. failed' = TRUE /\ reading' = FALSE /\ callback' = "idle"
      BY <1>2, <3>1 DEF OnError
    <3>8. TypeOK'
      BY <1>0, <1>2, <3>2, <3>4, <3>5, <3>7 DEF TypeOK, Answers, AssertsHold
    <3>9. Stage'
      BY <1>0, <1>1, <1>2, <3>6 DEF Stage
    <3>10. first' # "auto" /\ first' # "none"
      BY <3>3
    <3>11. ClosedByLast' /\ FailureReported' /\ AssertsHold'
      BY <3>5, <3>10 DEF ClosedByLast, FailureReported, AssertsHold
    <3> QED BY <3>2, <3>8, <3>9, <3>11 DEF Inv
  <2> QED BY <2>1, <2>2
<1>3. CASE OnMsgStr
  <2>1. inbox' \in Seq({"good", "bad"})
    BY <1>0, <1>3 DEF OnMsgStr, TypeOK
  <2>2. CASE Head(inbox) = "good"
    <3>1. UNCHANGED <<answer, held, reading, failed, asserted>> /\ callback' = "OnMsg"
      BY <1>3, <2>2 DEF OnMsgStr
    <3>2. Answers' /\ OneCore' /\ AnsweredOnce' /\ first' = first
      BY <3>1, AnswerKept
    <3> QED BY <1>0, <1>3, <2>1, <3>1, <3>2 DEF OnMsgStr, Inv, TypeOK, Stage, ClosedByLast,
              FailureReported, AssertsHold, Answers, HasWriter
  <2>3. CASE Head(inbox) # "good"
    BY <1>2, <1>3, <2>1, <2>3 DEF OnMsgStr
  <2> QED BY <2>2, <2>3
<1>4. CASE OnBroken
  BY <1>0, <1>2, <1>4 DEF OnBroken, TypeOK, client
<1>5. CASE OnEnd
  <2>1. Answers' /\ OneCore' /\ AnsweredOnce' /\ first' = first
    BY <1>5, AnswerKept DEF OnEnd
  <2> QED BY <1>0, <1>5, <2>1 DEF OnEnd, Inv, TypeOK, Stage, ClosedByLast,
            FailureReported, AssertsHold, Answers, client, HasWriter
<1>6. CASE OnMsgReturns
  <2>1. Answers' /\ OneCore' /\ AnsweredOnce' /\ first' = first
    BY <1>6, AnswerKept DEF OnMsgReturns
  <2> QED BY <1>0, <1>6, <2>1 DEF OnMsgReturns, Inv, TypeOK, Stage, ClosedByLast,
            FailureReported, AssertsHold, Answers, client, HasWriter
<1>7. CASE LastCallbackReturns
  <2>1. made = 1 /\ made' = 1 /\ kind' = kind
    BY <1>0, <1>1, <1>7 DEF LastCallbackReturns, TypeOK
  <2>2. /\ held' = [h \in Holders |-> IF h \in {"reader"} THEN 0 ELSE held[h]]
        /\ Answers' /\ OneCore' /\ AnsweredOnce' /\ ClosedByLast'
        /\ first' = first \/ (first = "none" /\ first' = "auto")
    BY <1>7, <2>1, DropLast DEF LastCallbackReturns
  <2>3. held' \in [Holders -> 0 .. made'] /\ held'["entry"] = held["entry"]
    BY <1>0, <2>1, <2>2 DEF TypeOK
  <2>4. pc \in {"leave", "returned"}
    BY <1>0, <1>7 DEF LastCallbackReturns, TypeOK
  <2>5. FailureReported'
    BY <1>0, <1>7, <2>2 DEF LastCallbackReturns, FailureReported
  <2>6. /\ UNCHANGED <<kind, request, started, pc, inbox, stream, overrides, failed, asserted>>
        /\ callback' = "idle" /\ reading' = FALSE
    BY <1>7 DEF LastCallbackReturns, client
  <2>7. TypeOK'
    BY <1>0, <2>1, <2>2, <2>3, <2>6 DEF TypeOK, Answers
  <2>8. Stage' /\ AssertsHold'
    BY <1>0, <2>1, <2>3, <2>4, <2>6 DEF Stage, AssertsHold
  <2> QED BY <2>2, <2>5, <2>7, <2>8 DEF Inv
<1> QED BY <1>3, <1>4, <1>5, <1>6, <1>7 DEF Reader

LEMMA UserStep ==
  ASSUME Inv, User
  PROVE  Inv'
<1> USE HoldersNamed DEF Finals
<1>0. Answers /\ TypeOK /\ Stage /\ OneCore /\ AnsweredOnce /\ ClosedByLast
      /\ FailureReported /\ AssertsHold
  BY DEF Inv, TypeOK, Answers
\* Code that runs with a handle has one.
<1>1. ASSUME NEW h \in Holders, Runs(h)
      PROVE  held[h] = 1 /\ made = 1 /\ first # "auto"
  BY <1>0, <1>1 DEF Runs, TypeOK, Stage, ClosedByLast
<1>2. ASSUME NEW h \in Holders, Runs(h), Uses(h)
      PROVE  asserted' = asserted
  BY <1>0, <1>1, <1>2 DEF Uses, AssertHandle, TypeOK
<1>3. ASSUME NEW h \in Holders, NEW how \in {"ok", "error"}, UserFinishes(h, how)
      PROVE  Inv'
  <2>1. held[h] = 1 /\ made = 1 /\ first # "auto" /\ asserted' = asserted
    BY <1>1, <1>2, <1>3 DEF UserFinishes
  <2>2. /\ Answers' /\ OneCore' /\ AnsweredOnce'
        /\ first' = IF first = "none" THEN how ELSE first
    BY <1>0, <1>3, <2>1, FinishOnce DEF UserFinishes
  <2>3. first' # "none" /\ first' # "auto"
    BY <2>1, <2>2
  <2>4. UNCHANGED <<kind, request, started, pc, made, held, reading, callback, inbox,
                    stream, overrides, failed>>
    BY <1>3 DEF UserFinishes, client
  <2>5. TypeOK'
    BY <1>0, <2>1, <2>2, <2>4 DEF TypeOK, Answers
  <2>6. Stage'
    BY <1>0, <2>1, <2>4 DEF Stage
  <2>7. ClosedByLast' /\ FailureReported' /\ AssertsHold'
    BY <1>0, <2>1, <2>3 DEF ClosedByLast, FailureReported, AssertsHold
  <2> QED BY <2>2, <2>5, <2>6, <2>7 DEF Inv
<1>4. ASSUME NEW h \in Holders, UserWrites(h)
      PROVE  Inv'
  <2>1. held[h] = 1 /\ made = 1 /\ first # "auto" /\ asserted' = asserted
    BY <1>1, <1>2, <1>4 DEF UserWrites
  <2>2. Answers' /\ OneCore' /\ AnsweredOnce' /\ first' = first
    BY <1>0, <1>4, <2>1, WriteBefore DEF UserWrites
  <2> QED BY <1>0, <1>4, <2>1, <2>2 DEF UserWrites, Inv, TypeOK, Stage,
            ClosedByLast, FailureReported, AssertsHold, Answers, client, HasWriter
<1>5. ASSUME NEW h \in Holders, NEW t \in Threads, UserStartsThread(h, t)
      PROVE  Inv'
  <2>1. held[h] = 1 /\ made = 1 /\ first # "auto" /\ asserted' = asserted
    BY <1>1, <1>2, <1>5 DEF UserStartsThread
  <2>2. Answers' /\ OneCore' /\ AnsweredOnce' /\ first' = first
    BY <1>5, AnswerKept DEF UserStartsThread
  <2>3. held' = [held EXCEPT ![t] = 1]
    BY <1>5, <2>1 DEF UserStartsThread
  <2>4. /\ held' \in [Holders -> 0 .. made]
        /\ held'["entry"] = held["entry"]
        /\ held'["handler"] = held["handler"]
        /\ held'["reader"] = held["reader"]
        /\ held'[t] = 1
    BY <1>0, <2>1, <2>3 DEF TypeOK
  <2> QED BY <1>0, <1>5, <2>1, <2>2, <2>4 DEF UserStartsThread, Inv, TypeOK, Stage,
            ClosedByLast, FailureReported, AssertsHold, Answers, client
<1> QED BY <1>3, <1>4, <1>5 DEF User

LEMMA ThreadEndsStep ==
  ASSUME Inv, NEW t \in Threads, ThreadEnds(t)
  PROVE  Inv'
<1> USE HoldersNamed DEF Finals
<1>0. Answers /\ TypeOK /\ Stage /\ OneCore /\ AnsweredOnce /\ ClosedByLast
      /\ FailureReported /\ AssertsHold
  BY DEF Inv, TypeOK, Answers
<1>1. made = 1 /\ made' = 1 /\ kind' = kind
  BY <1>0 DEF ThreadEnds, TypeOK, Stage
<1>2. /\ held' = [h \in Holders |-> IF h \in {t} THEN 0 ELSE held[h]]
      /\ Answers' /\ OneCore' /\ AnsweredOnce' /\ ClosedByLast'
      /\ first' = first \/ (first = "none" /\ first' = "auto")
  BY <1>1, DropLast DEF ThreadEnds
<1>3. /\ held' \in [Holders -> 0 .. made']
      /\ held'["entry"] = held["entry"]
      /\ held'["handler"] = held["handler"]
      /\ held'["reader"] = held["reader"]
  BY <1>0, <1>1, <1>2 DEF TypeOK
<1>4. FailureReported'
  BY <1>0, <1>2 DEF ThreadEnds, FailureReported
<1> QED BY <1>0, <1>1, <1>2, <1>3, <1>4 DEF ThreadEnds, Inv, TypeOK, Stage, AssertsHold,
          Answers, client

LEMMA ClientStep ==
  ASSUME Inv, (\E msg \in {"good", "bad"} : ClientSends(msg)) \/ ClientDone
  PROVE  Inv'
<1>1. Answers' /\ OneCore' /\ AnsweredOnce' /\ first' = first
  BY AnswerKept DEF ClientSends, ClientDone, ClientEnds
<1>2. inbox \in Seq({"good", "bad"}) /\ stream \in {"open", "ended", "broken"}
  BY DEF Inv, TypeOK
<1>3. CASE ClientDone
  <2>1. inbox' = inbox /\ stream' \in {"ended", "broken"}
    BY <1>3 DEF ClientDone, ClientEnds
  <2> QED BY <1>1, <1>2, <1>3, <2>1 DEF ClientDone, ClientEnds, Inv, TypeOK, Stage,
            ClosedByLast, FailureReported, AssertsHold, Answers, HasWriter
<1>4. ASSUME NEW msg \in {"good", "bad"}, ClientSends(msg)
      PROVE  Inv'
  <2>1. inbox' = Append(inbox, msg) /\ stream' = stream
    BY <1>4 DEF ClientSends
  <2>2. inbox' \in Seq({"good", "bad"})
    BY <1>2, <2>1
  <2> QED BY <1>1, <1>2, <1>4, <2>1, <2>2 DEF ClientSends, Inv, TypeOK, Stage,
            ClosedByLast, FailureReported, AssertsHold, Answers, HasWriter
<1> QED BY <1>3, <1>4

LEMMA InvNext == Inv /\ [Next]_vars => Inv'
<1> SUFFICES ASSUME Inv, [Next]_vars PROVE Inv'
  OBVIOUS
<1>1. CASE CallMethod
  BY <1>1, CallMethodStep
<1>2. CASE Reader
  BY <1>2, ReaderStep
<1>3. CASE User
  BY <1>3, UserStep
<1>4. CASE \E t \in Threads : ThreadEnds(t)
  BY <1>4, ThreadEndsStep
<1>5. CASE (\E msg \in {"good", "bad"} : ClientSends(msg)) \/ ClientDone
  BY <1>5, ClientStep
<1>6. CASE UNCHANGED vars
  BY <1>6 DEF vars, answer, client, Inv, TypeOK, Stage, OneCore, AnsweredOnce,
     ClosedByLast, FailureReported, AssertsHold, HasWriter
<1> QED BY <1>1, <1>2, <1>3, <1>4, <1>5, <1>6 DEF Next

LEMMA Invariance == Spec => []Inv
BY InvInit, InvNext, PTL DEF Spec

\* Every variable of ServerCall has its type, and a reader that is called back
\* has its handle.
THEOREM TypeCorrect == Spec => []TypeOK
<1>1. Inv => TypeOK
  BY DEF Inv
<1> QED BY <1>1, Invariance, PTL

\* The client gets one final answer, the first that anyone gave: the copies of a
\* handle that entry, handler, reader and any number of threads use are one.
THEOREM OneAnswer == Spec => []AnsweredOnce
<1>1. Inv => AnsweredOnce
  BY DEF Inv
<1> QED BY <1>1, Invariance, PTL

\* A writer closes by itself exactly when its last copy goes.
THEOREM LastCloses == Spec => []ClosedByLast
<1>1. Inv => ClosedByLast
  BY DEF Inv
<1> QED BY <1>1, Invariance, PTL

\* Neither a request or message that does not parse nor a broken stream ends as a
\* success.
THEOREM FailuresReported == Spec => []FailureReported
<1>1. Inv => FailureReported
  BY DEF Inv
<1> QED BY <1>1, Invariance, PTL

\* No callback finds the reader without its handle, and no assertion on it fails.
THEOREM AssertionsHold == Spec => []AssertsHold
<1>1. Inv => AssertsHold
  BY DEF Inv
<1> QED BY <1>1, Invariance, PTL
=============================================================================
