---------------------------- MODULE InboundProofs ----------------------------
(***************************************************************************)
(* Theorems about what comes in: inbound transactions, and the debits and  *)
(* fees the back office books, for any processes, kinds, requests, debits, *)
(* fees, rounds and dates.  All of them use the booking engine as module   *)
(* Booking specifies it, so that the theorems of BookingProofs hold of it. *)
(***************************************************************************)
EXTENDS InTran, Receipts, Fees, BookingProofs

-----------------------------------------------------------------------------
(* Inbound transactions.                                                    *)

(* The requests of one process, without those an operator addresses to a leg. *)
Handler(p) == \/ Deliver(p) \/ CheckInTrans(p) \/ Resettle(p) \/ InsertTrnjour(p)
              \/ PF10_104(p) \/ FirstBooked(p) \/ MainBooked(p) \/ Reply(p)
              \/ OP_DoFinish(p)
              \/ PF10_157(p) \/ ReverseIn(p) \/ ReversedIn(p)
              \/ PF_0006(p) \/ PF_0006Update(p)
              \/ PF10_123(p) \/ Confirmed(p) \/ SendAnswer(p)
              \/ ReversedByHand(p)

(* Every step of a transaction is a step of the engine, or none. *)
LEMMA InStepBooks == [InNext]_inVars => [Next]_bookVars
<1> SUFFICES ASSUME [InNext]_inVars, ~UNCHANGED bookVars PROVE Next
  OBVIOUS
<1>1. CASE Engine
  BY <1>1 DEF Engine, Next, ProcStep
<1>2. ASSUME NEW p \in Procs, Handler(p) PROVE Next
  <2>1. \E k \in Keys : AccountingStart(p, k) \/ \E flag \in 1..3 : AccountCancelStart(p, k, flag)
    BY <1>2, InTranAssumption
       DEF Handler, Deliver, CheckInTrans, Resettle, InsertTrnjour, PF10_104, FirstBooked,
           MainBooked, Reply, OP_DoFinish, PF10_157, ReverseIn, ReversedIn, PF_0006,
           PF_0006Update, PF10_123, Confirmed, SendAnswer, ReversedByHand
  <2> QED
    BY <2>1 DEF Next
<1>3. ASSUME NEW p \in Procs, NEW k \in Keys, PF10_111(p, k) PROVE Next
  BY <1>3 DEF PF10_111, Next
<1>4. ASSUME NEW p \in Procs, Die(p) PROVE Next
  BY <1>4 DEF Die, Next
<1> QED
  BY <1>1, <1>2, <1>3, <1>4 DEF InNext, inVars, Handler

(* An inbound transaction is a use of the booking engine: every theorem    *)
(* about the engine is one about the transaction.                          *)
THEOREM InUsesBooking == InSpec => Spec
<1>1. InInit => Init
  BY DEF InInit
<1> QED
  BY <1>1, InStepBooks, PTL DEF InSpec, Spec

-----------------------------------------------------------------------------
(* Type correctness. *)
TranTypes == /\ kind \in Kinds
             /\ row \in ClearStates
             /\ stage \in [Procs -> Stages]
             /\ code \in [Procs -> InCodes]
             /\ byHand \subseteq Keys

(* What a process does to the stages and the codes; nobody else's change. *)
LEMMA ToEffect ==
  ASSUME TranTypes, NEW p \in Procs, NEW s \in Stages, To(p, s)
  PROVE  /\ stage' \in [Procs -> Stages]
         /\ stage'[p] = s
         /\ \A q \in Procs \ {p} : stage'[q] = stage[q]
  BY DEF TranTypes, To

LEMMA LeaveEffect ==
  ASSUME TranTypes, NEW p \in Procs, NEW s \in Stages, NEW c \in InCodes, Leave(p, s, c)
  PROVE  /\ stage' \in [Procs -> Stages] /\ code' \in [Procs -> InCodes]
         /\ stage'[p] = s /\ code'[p] = c
         /\ \A q \in Procs \ {p} : stage'[q] = stage[q] /\ code'[q] = code[q]
  BY ToEffect DEF TranTypes, Leave

LEMMA TranTypeStep == TypeOK /\ TranTypes /\ [InNext]_inVars => TranTypes'
<1> SUFFICES ASSUME TypeOK, TranTypes, [InNext]_inVars PROVE TranTypes'
  OBVIOUS
<1> USE DEF TranTypes
<1>0. /\ \A p \in Procs : ret[p] \in InCodes
      /\ {"none", "OK", "FAIL", "DB", "DBSEL", "CZFAIL", "CONV", "CHECK", "NEG", "COMMPH",
          "EXISTSUCC", "EXISTUNKNOW", "CZSUCC", "NORECORD", "R0000", "R8999"} \subseteq InCodes
  BY DEF InCodes, Codes, TypeOK
<1>1. CASE UNCHANGED tranVars
  BY <1>1 DEF tranVars
<1>2. ASSUME NEW p \in Procs, Deliver(p) \/ CheckInTrans(p) PROVE TranTypes'
  BY <1>0, <1>2, ToEffect, LeaveEffect DEF Deliver, CheckInTrans, Exit, Stages
<1>3. ASSUME NEW p \in Procs, Resettle(p) \/ InsertTrnjour(p) PROVE TranTypes'
  BY <1>0, <1>3, ToEffect, LeaveEffect DEF Resettle, InsertTrnjour, Exit, Stages, ClearStates
<1>4. ASSUME NEW p \in Procs, PF10_104(p) PROVE TranTypes'
  BY <1>0, <1>4, ToEffect, LeaveEffect DEF PF10_104, Exit, Stages
<1>5. ASSUME NEW p \in Procs, FirstBooked(p) PROVE TranTypes'
  BY <1>0, <1>5, ToEffect, LeaveEffect DEF FirstBooked, Exit, Stages
<1>6. ASSUME NEW p \in Procs, MainBooked(p) PROVE TranTypes'
  BY <1>0, <1>6, LeaveEffect DEF MainBooked, Exit, Stages
<1>7. ASSUME NEW p \in Procs, Reply(p) PROVE TranTypes'
  BY <1>0, <1>7, ToEffect DEF Reply, Stages
<1>8. ASSUME NEW p \in Procs, OP_DoFinish(p) PROVE TranTypes'
  BY <1>0, <1>8, LeaveEffect DEF OP_DoFinish, Closing, Stages, ClearStates
<1>9. ASSUME NEW p \in Procs, PF10_157(p) \/ ReverseIn(p) \/ ReversedIn(p) PROVE TranTypes'
  BY <1>0, <1>9, ToEffect, LeaveEffect
     DEF PF10_157, ReverseIn, ReversedIn, AnswerWith, Stages, ClearStates
<1>10. ASSUME NEW p \in Procs, PF_0006(p) \/ PF_0006Update(p) PROVE TranTypes'
  BY <1>0, <1>10, ToEffect, LeaveEffect
     DEF PF_0006, PF_0006Update, ResultOf, AnswerWith, Stages, ClearStates
<1>11. ASSUME NEW p \in Procs, PF10_123(p) \/ Confirmed(p) \/ SendAnswer(p) PROVE TranTypes'
  BY <1>0, <1>11, ToEffect, LeaveEffect
     DEF PF10_123, Confirmed, SendAnswer, AnswerWith, Stages
<1>12. ASSUME NEW p \in Procs, NEW k \in Keys, PF10_111(p, k) PROVE TranTypes'
  BY <1>12, ToEffect DEF PF10_111, Stages
<1>13. ASSUME NEW p \in Procs, ReversedByHand(p) \/ Die(p) PROVE TranTypes'
  BY <1>0, <1>13, LeaveEffect DEF ReversedByHand, Die, AnswerWith, Stages
<1> QED
  BY <1>1, <1>2, <1>3, <1>4, <1>5, <1>6, <1>7, <1>8, <1>9, <1>10, <1>11, <1>12, <1>13
     DEF InNext, Engine, inVars

(* Every reachable state of an inbound transaction is well typed. *)
THEOREM InTypeCorrect == InSpec => []InTypeOK
<1>1. InInit => TranTypes
  BY DEF InInit, TranTypes, ClearStates, Stages, InCodes, Codes
<1>2. TypeOK /\ TranTypes => InTypeOK
  BY DEF TranTypes, InTypeOK
<1>3. InSpec => []TypeOK
  BY InUsesBooking, TypeCorrect, PTL
<1> QED
  BY <1>1, <1>2, <1>3, TranTypeStep, PTL DEF InSpec
-----------------------------------------------------------------------------
(* Who books the transaction: the one process whose insert succeeded, one  *)
(* leg after the other; a process that is about to ask for a leg is the    *)
(* first to do so.                                                         *)
Asking(p, k) == pc[p] \in {"query", "insert", "send"} /\ job[p].key = k
Requested(k) == \E c \in calls : c.op = "book" /\ c.key = k
Handling(p)  == stage[p] \in {"handle", "first", "main"}

OneHandler ==
    /\ row = "absent" => /\ ~Requested(First) /\ ~Requested(Main)
                         /\ \A p \in Procs : ~Handling(p)
    /\ \A p, q \in Procs : Handling(p) /\ Handling(q) => p = q

OwnLegs ==
    \A p \in Procs :
        /\ Asking(p, First) => stage[p] = "first" /\ ~Requested(First)
        /\ Asking(p, Main) => stage[p] = "main" /\ ~Requested(Main)
        /\ stage[p] = "handle" => ~Requested(First) /\ ~Requested(Main)
        /\ stage[p] = "first" => ~Requested(Main)

RequestInv == OneHandler /\ OwnLegs /\ RequestedOnce

(* The engine brings no process to ask for a leg; one that asked and has   *)
(* sent its request asks no longer.                                        *)
LEMMA EngineAsks ==
  ASSUME TypeOK, Engine
  PROVE  /\ \A p \in Procs, k \in Keys : Asking(p, k)' => Asking(p, k)
         /\ \/ /\ \A k \in Keys : Requested(k)' <=> Requested(k)
               /\ \A c \in calls' \ calls : c.op # "book"
            \/ \E p \in Procs, c \in Calls :
                  /\ Asking(p, c.key) /\ ~Asking(p, c.key)'
                  /\ calls' = calls \cup {c}
<1> USE DEF Asking
<1>0. \A p \in Procs : job[p] \in Jobs /\ job[p].key \in Keys
  BY DEF TypeOK, Jobs
<1>1. ASSUME NEW p \in Procs,
             AccountingQuery(p) \/ AccountingInsert(p) \/ AccountingReply(p)
             \/ CallLost(p) \/ AccountCancelQuery(p) \/ AccountCancelReply(p)
      PROVE  /\ \A q \in Procs, k \in Keys : Asking(q, k)' => Asking(q, k)
             /\ calls' = calls
  BY <1>0, <1>1, ReturnEffect, GotoEffect, BeginEffect
     DEF AccountingQuery, AccountingInsert, AccountingReply, CallLost, AccountCancelQuery,
         AccountCancelReply
<1>2. ASSUME NEW p \in Procs, AccountCancelSend(p)
      PROVE  /\ \A q \in Procs, k \in Keys : Asking(q, k)' => Asking(q, k)
             /\ \A c \in calls' \ calls : c.op # "book"
             /\ calls \subseteq calls'
  BY <1>0, <1>2, ReturnEffect, GotoEffect DEF AccountCancelSend, Call
<1>3. ASSUME NEW p \in Procs, AccountingSend(p)
      PROVE  /\ \A q \in Procs, k \in Keys : Asking(q, k)' => Asking(q, k)
             /\ \/ calls' = calls
                \/ \E c \in Calls : /\ Asking(p, c.key) /\ ~Asking(p, c.key)'
                                    /\ calls' = calls \cup {c}
  <2>1. CASE Return(p, "CONV") /\ calls' = calls
    BY <2>1, ReturnEffect
  <2>2. CASE /\ Goto(p, "await")
             /\ calls' = calls \cup {[op |-> "book", key |-> job[p].key,
                                     serial |-> job[p].serial, target |-> job[p].target]}
    <3> DEFINE c == [op |-> "book", key |-> job[p].key,
                     serial |-> job[p].serial, target |-> job[p].target]
    <3>1. c \in Calls /\ c.key = job[p].key
      BY <1>0 DEF Calls, Ops, Jobs
    <3>2. Asking(p, c.key) /\ ~Asking(p, c.key)'
      BY <1>3, <2>2, <3>1, GotoEffect DEF AccountingSend
    <3>3. \A q \in Procs, k \in Keys : Asking(q, k)' => Asking(q, k)
      BY <2>2, GotoEffect
    <3> QED
      BY <2>2, <3>1, <3>2, <3>3
  <2> QED
    BY <1>3, <2>1, <2>2 DEF AccountingSend, Call
<1>4. ASSUME NEW c \in calls, BankExecute(c)
      PROVE  calls' = calls /\ pc' = pc /\ job' = job
  BY <1>4 DEF BankExecute
<1>5. ASSUME NEW k \in Keys, NEW r \in Results, ManualAdjust(k, r)
      PROVE  calls' = calls /\ pc' = pc /\ job' = job
  BY <1>5 DEF ManualAdjust
<1> USE DEF Requested
<1>6. CASE \E p \in Procs : AccountingSend(p)
  BY <1>3, <1>6
<1>7. CASE \E p \in Procs : ProcStep(p) /\ ~AccountingSend(p)
  BY <1>1, <1>2, <1>7 DEF ProcStep
<1> QED
  BY <1>4, <1>5, <1>6, <1>7 DEF Engine

(* What a request does to the engine while it is outside: nothing, or it   *)
(* begins to ask for one leg; the process alone is concerned.              *)
LEMMA StartAsks ==
  ASSUME TypeOK, NEW p \in Procs, NEW k \in Keys, AccountingStart(p, k)
  PROVE  /\ calls' = calls
         /\ \A q \in Procs \ {p}, j \in Keys : Asking(q, j)' <=> Asking(q, j)
         /\ \A j \in Keys \ {k} : ~Asking(p, j)'
  BY EndEffect, BeginEffect DEF AccountingStart, Asking, Job

LEMMA CancelAsks ==
  ASSUME TypeOK, NEW p \in Procs, NEW k \in Keys, NEW flag \in 1..3, AccountCancelStart(p, k, flag)
  PROVE  /\ calls' = calls
         /\ \A q \in Procs \ {p}, j \in Keys : Asking(q, j)' <=> Asking(q, j)
         /\ \A j \in Keys : ~Asking(p, j)'
  BY EndEffect, BeginEffect DEF AccountCancelStart, Asking, Job

LEMMA CrashAsks ==
  ASSUME TypeOK, NEW p \in Procs, Crash(p)
  PROVE  /\ calls' = calls
         /\ \A q \in Procs \ {p}, j \in Keys : Asking(q, j)' <=> Asking(q, j)
         /\ \A j \in Keys : ~Asking(p, j)'
  BY ReturnEffect DEF Crash, Asking

(* Whoever ends a request, or does one that is not the delivery, leaves    *)
(* the booking of the transaction as it is.                                *)
LEMMA QuietKeeps ==
  ASSUME RequestInv, NEW p \in Procs, calls' = calls,
         row' = "absent" => row = "absent",
         \A q \in Procs \ {p} : /\ stage'[q] = stage[q]
                                /\ \A k \in Keys : Asking(q, k)' => Asking(q, k),
         ~Handling(p)', ~Asking(p, First)', ~Asking(p, Main)'
  PROVE  RequestInv'
<1>1. First \in Keys /\ Main \in Keys
  BY InTranAssumption
<1>2. RequestedOnce' /\ \A k \in Keys : Requested(k)' <=> Requested(k)
  BY DEF RequestInv, RequestedOnce, Requested
<1>3. OneHandler'
  BY <1>1, <1>2 DEF RequestInv, OneHandler, Handling
<1>4. OwnLegs'
  BY <1>1, <1>2 DEF RequestInv, OwnLegs, Handling
<1> QED
  BY <1>2, <1>3, <1>4 DEF RequestInv

LEMMA RequestStep == TypeOK /\ TranTypes /\ RequestInv /\ [InNext]_inVars => RequestInv'
<1> SUFFICES ASSUME TypeOK, TranTypes, RequestInv, [InNext]_inVars PROVE RequestInv'
  OBVIOUS
<1> USE DEF RequestInv, OneHandler, OwnLegs, Handling
<1>0. First \in Keys /\ Main \in Keys /\ Chk \in Keys
      /\ First # Main /\ First # Chk /\ Main # Chk
  BY InTranAssumption
<1>1. CASE UNCHANGED inVars
  BY <1>1 DEF inVars, tranVars, bookVars, Asking, Requested, RequestedOnce
<1>2. CASE Engine
  <2>1. UNCHANGED <<row, stage>>
    BY <1>2 DEF Engine, tranVars
  <2>2. CASE /\ \A k \in Keys : Requested(k)' <=> Requested(k)
             /\ \A c \in calls' \ calls : c.op # "book"
    BY <1>0, <1>2, <2>1, <2>2, EngineAsks DEF RequestedOnce
  <2>3. CASE \E p \in Procs, c \in Calls :
                /\ Asking(p, c.key) /\ ~Asking(p, c.key)'
                /\ calls' = calls \cup {c}
    <3>1. PICK p \in Procs, c \in Calls :
                /\ Asking(p, c.key) /\ ~Asking(p, c.key)'
                /\ calls' = calls \cup {c}
      BY <2>3
    <3>2. c.key \in Keys
      BY DEF Calls
    <3>3. \A k \in Keys \ {c.key} : Requested(k)' <=> Requested(k)
      BY <3>1 DEF Requested
    <3>4. c.key \in {First, Main} => Handling(p) /\ ~Requested(c.key)
      BY <3>1
    <3>5. RequestedOnce'
      BY <3>1, <3>4 DEF RequestedOnce, Requested
    <3>6. OneHandler'
      BY <1>0, <2>1, <3>3, <3>4
    <3>7. ASSUME NEW q \in Procs, q # p PROVE c.key \in {First, Main} => ~Handling(q)
      BY <3>4, <3>7
    <3>8. OwnLegs'
      BY <1>0, <1>2, <2>1, <3>1, <3>3, <3>4, <3>7, EngineAsks
    <3> QED
      BY <3>5, <3>6, <3>8
  <2> QED
    BY <1>2, <2>2, <2>3, EngineAsks
<1>3. ASSUME calls' = calls PROVE /\ \A k \in Keys : Requested(k)' <=> Requested(k)
                                  /\ RequestedOnce'
  BY <1>3 DEF Requested, RequestedOnce
<1>4. ASSUME UNCHANGED bookVars
      PROVE  calls' = calls /\ \A q \in Procs, k \in Keys : Asking(q, k)' <=> Asking(q, k)
  BY <1>4 DEF bookVars, Asking
<1>5. ASSUME NEW p \in Procs, UNCHANGED bookVars, row' = "absent" => row = "absent",
             stage[p] \notin {"handle", "first", "main"} \/ pc[p] = "idle",
             NEW s \in Stages \ {"handle", "first", "main"}, To(p, s)
      PROVE  RequestInv'
  <2>1. ~Asking(p, First)' /\ ~Asking(p, Main)'
    BY <1>4, <1>5, <1>0 DEF Asking
  <2> QED
    BY <1>4, <1>5, <2>1, ToEffect, QuietKeeps
<1>6. ASSUME NEW p \in Procs, Deliver(p) \/ CheckInTrans(p) \/ Resettle(p) PROVE RequestInv'
  BY <1>5, <1>6 DEF Deliver, CheckInTrans, Resettle, Exit, Leave, Stages
<1>7. ASSUME NEW p \in Procs, InsertTrnjour(p) PROVE RequestInv'
  <2>1. CASE row = "absent" /\ row' = "settled" /\ To(p, "handle")
    <3>1. UNCHANGED bookVars
      BY <1>7 DEF InsertTrnjour
    <3>2. OneHandler' /\ OwnLegs'
      BY <1>0, <1>3, <1>4, <2>1, <3>1, ToEffect DEF Stages
    <3> QED
      BY <1>3, <1>4, <3>1, <3>2
  <2>2. CASE Exit(p, "DB") /\ UNCHANGED row
    BY <1>5, <1>7, <2>2 DEF InsertTrnjour, Exit, Leave, Stages
  <2> QED
    BY <1>7, <2>1, <2>2 DEF InsertTrnjour
<1>8. ASSUME NEW p \in Procs, PF10_104(p) PROVE RequestInv'
  <2>1. CASE kind = "fs" /\ AccountingStart(p, First) /\ To(p, "first")
    BY <1>0, <1>3, <1>8, <2>1, StartAsks, ToEffect DEF PF10_104, Stages
  <2>2. CASE kind \in {"credit", "debit"} /\ AccountingStart(p, Main) /\ To(p, "main")
    BY <1>0, <1>3, <1>8, <2>2, StartAsks, ToEffect DEF PF10_104, Stages
  <2>3. CASE UNCHANGED bookVars /\ \E c \in InCodes : Exit(p, c)
    <3>1. ~Asking(p, First)' /\ ~Asking(p, Main)'
      BY <1>0, <1>4, <1>8, <2>3 DEF PF10_104
    <3>2. calls' = calls /\ UNCHANGED row
      BY <1>4, <1>8, <2>3 DEF PF10_104
    <3>3. PICK c \in InCodes : Leave(p, "reply", c)
      BY <2>3 DEF Exit
    <3>4. ~Handling(p)' /\ \A q \in Procs \ {p} : stage'[q] = stage[q]
      BY <3>3, LeaveEffect DEF Stages
    <3> QED
      BY <1>4, <2>3, <3>1, <3>2, <3>4, QuietKeeps
  <2> QED
    BY <1>8, <2>1, <2>2, <2>3 DEF PF10_104, InCodes, Codes
<1>9. ASSUME NEW p \in Procs, FirstBooked(p) PROVE RequestInv'
  <2>1. CASE AccountingStart(p, Main) /\ To(p, "main")
    BY <1>0, <1>3, <1>9, <2>1, StartAsks, ToEffect DEF FirstBooked, Stages
  <2>2. CASE UNCHANGED bookVars /\ To(p, "reply")
    BY <1>5, <1>9, <2>2 DEF FirstBooked, Returned, Stages
  <2> QED
    BY <1>9, <2>1, <2>2 DEF FirstBooked, Exit, Leave
<1>10. ASSUME NEW p \in Procs, MainBooked(p) PROVE RequestInv'
  BY <1>5, <1>10 DEF MainBooked, Returned, Exit, Leave, Stages
<1>11. ASSUME NEW p \in Procs, Reply(p) \/ OP_DoFinish(p) PROVE RequestInv'
  BY <1>5, <1>11 DEF Reply, OP_DoFinish, Closing, Leave, Stages
<1>12. ASSUME NEW p \in Procs, PF10_157(p) \/ ReversedIn(p) PROVE RequestInv'
  BY <1>5, <1>12 DEF PF10_157, ReversedIn, AnswerWith, Leave, Stages
<1>13. ASSUME NEW p \in Procs, PF_0006(p) \/ PF_0006Update(p) PROVE RequestInv'
  BY <1>5, <1>13 DEF PF_0006, PF_0006Update, AnswerWith, Leave, Stages
<1>14. ASSUME NEW p \in Procs, Confirmed(p) \/ SendAnswer(p) \/ ReversedByHand(p)
       PROVE  RequestInv'
  BY <1>5, <1>14 DEF Confirmed, SendAnswer, ReversedByHand, AnswerWith, Leave, Stages
<1>15. ASSUME NEW p \in Procs, NEW k \in Keys, NEW flag \in 1..3, AccountCancelStart(p, k, flag), UNCHANGED row,
              NEW s \in {"cancel", "manual"}, To(p, s)
       PROVE  RequestInv'
  BY <1>0, <1>15, CancelAsks, ToEffect, QuietKeeps DEF Stages
<1>16. ASSUME NEW p \in Procs, ReverseIn(p) PROVE RequestInv'
  BY <1>5, <1>15, <1>16 DEF ReverseIn, AnswerWith, Leave, Stages
<1>17. ASSUME NEW p \in Procs, NEW k \in Keys, PF10_111(p, k) PROVE RequestInv'
  BY <1>15, <1>17 DEF PF10_111
<1>18. ASSUME NEW p \in Procs, PF10_123(p) PROVE RequestInv'
  <2>1. CASE AccountingStart(p, Chk) /\ To(p, "confirm")
    BY <1>0, <1>18, <2>1, StartAsks, ToEffect, QuietKeeps DEF PF10_123, Stages
  <2>2. CASE UNCHANGED bookVars /\ To(p, "answer")
    BY <1>5, <1>18, <2>2 DEF PF10_123, Stages
  <2> QED
    BY <1>18, <2>1, <2>2 DEF PF10_123, AnswerWith, Leave
<1>19. ASSUME NEW p \in Procs, Die(p) PROVE RequestInv'
  <2>1. CASE Crash(p)
    BY <1>0, <1>19, <2>1, CrashAsks, ToEffect, QuietKeeps DEF Die, Leave, Stages
  <2>2. CASE pc[p] = "idle" /\ UNCHANGED bookVars
    BY <1>5, <1>19, <2>2 DEF Die, Leave, Stages
  <2> QED
    BY <1>19, <2>1, <2>2 DEF Die
<1> QED
  BY <1>1, <1>2, <1>6, <1>7, <1>8, <1>9, <1>10, <1>11, <1>12, <1>13, <1>14, <1>16, <1>17,
     <1>18, <1>19 DEF InNext

LEMMA RequestInductive == InSpec => []RequestInv
<1>1. InInit => RequestInv
  BY InTranAssumption
     DEF InInit, Init, RequestInv, OneHandler, OwnLegs, RequestedOnce, Requested, Handling,
         Asking
<1>2. InSpec => [](TypeOK /\ TranTypes)
  <2>1. InTypeOK => TypeOK /\ TranTypes
    BY DEF InTypeOK, TranTypes
  <2> QED
    BY <2>1, InTypeCorrect, PTL
<1> QED
  BY <1>1, <1>2, RequestStep, PTL DEF InSpec

(* For any number of processes and deliveries, whatever is lost, crashes   *)
(* or is reversed: the core system is asked at most once to book each leg  *)
(* of the transaction.                                                     *)
THEOREM AskedOnce == InSpec => []RequestedOnce
<1>1. RequestInv => RequestedOnce
  BY DEF RequestInv
<1> QED
  BY <1>1, RequestInductive, PTL
-----------------------------------------------------------------------------
(* A step is one of the engine, or one of a request, which changes nothing *)
(* of the stages and codes of the others.                                  *)
LEMMA WhoSteps ==
  ASSUME TypeOK, TranTypes, InNext, ~Engine
  PROVE  \E p \in Procs :
            /\ Handler(p) \/ Die(p) \/ \E k \in Keys : PF10_111(p, k)
            /\ \A q \in Procs \ {p} : stage'[q] = stage[q] /\ code'[q] = code[q]
<1>0. /\ \A p \in Procs : ret[p] \in InCodes
      /\ {"none", "OK", "FAIL", "DB", "DBSEL", "CZFAIL", "CONV", "CHECK", "NEG", "COMMPH",
          "EXISTSUCC", "EXISTUNKNOW", "CZSUCC", "NORECORD", "R0000", "R8999"} \subseteq InCodes
  BY DEF InCodes, Codes, TypeOK
<1> DEFINE Alone(p) == \A q \in Procs \ {p} : stage'[q] = stage[q] /\ code'[q] = code[q]
<1> USE DEF Stages
<1>1. ASSUME NEW p \in Procs, NEW s \in Stages, To(p, s), UNCHANGED code PROVE Alone(p)
  BY <1>1, ToEffect
<1>2. ASSUME NEW p \in Procs, NEW s \in Stages, NEW c \in InCodes, Leave(p, s, c)
      PROVE  Alone(p)
  BY <1>2, LeaveEffect
<1>3. ASSUME NEW p \in Procs,
             Deliver(p) \/ CheckInTrans(p) \/ Resettle(p) \/ InsertTrnjour(p)
      PROVE  Alone(p)
  BY <1>0, <1>1, <1>2, <1>3 DEF Deliver, CheckInTrans, Resettle, InsertTrnjour, Exit
<1>4. ASSUME NEW p \in Procs, PF10_104(p) \/ FirstBooked(p) \/ MainBooked(p) PROVE Alone(p)
  BY <1>0, <1>1, <1>2, <1>4 DEF PF10_104, FirstBooked, MainBooked, Exit
<1>5. ASSUME NEW p \in Procs, Reply(p) PROVE Alone(p)
  BY <1>5, ToEffect DEF Reply, TranTypes
<1>6. ASSUME NEW p \in Procs, OP_DoFinish(p) \/ PF10_157(p) \/ ReversedIn(p) PROVE Alone(p)
  BY <1>0, <1>1, <1>2, <1>6 DEF OP_DoFinish, PF10_157, ReversedIn, AnswerWith
<1>7. ASSUME NEW p \in Procs, ReverseIn(p) \/ PF_0006(p) \/ PF_0006Update(p) PROVE Alone(p)
  BY <1>0, <1>1, <1>2, <1>7 DEF ReverseIn, PF_0006, PF_0006Update, ResultOf, AnswerWith
<1>8. ASSUME NEW p \in Procs, PF10_123(p) \/ Confirmed(p) \/ SendAnswer(p) \/ ReversedByHand(p)
      PROVE  Alone(p)
  BY <1>0, <1>1, <1>2, <1>8 DEF PF10_123, Confirmed, SendAnswer, ReversedByHand, AnswerWith
<1>9. ASSUME NEW p \in Procs, Die(p) \/ \E k \in Keys : PF10_111(p, k) PROVE Alone(p)
  BY <1>0, <1>1, <1>2, <1>9 DEF Die, PF10_111
<1> QED
  BY <1>3, <1>4, <1>5, <1>6, <1>7, <1>8, <1>9 DEF InNext, Handler

-----------------------------------------------------------------------------
(* Only PF_0006 makes a process hold the success it is about to report.    *)
LEMMA SyncOfMover ==
  ASSUME TypeOK, TranTypes, NEW p \in Procs,
         Handler(p) \/ Die(p) \/ \E k \in Keys : PF10_111(p, k), stage'[p] = "sync"
  PROVE  PF_0006(p)
<1>1. /\ \A q \in Procs : ret[q] \in InCodes
      /\ {"none", "OK", "FAIL", "DB", "DBSEL", "CZFAIL", "CONV", "CHECK", "NEG", "COMMPH",
          "EXISTSUCC", "EXISTUNKNOW", "CZSUCC", "NORECORD", "R0000", "R8999"} \subseteq InCodes
  BY DEF InCodes, Codes, TypeOK
<1> USE DEF Stages
<1>2. ASSUME NEW s \in Stages \ {"sync"} PROVE ~To(p, s)
  BY <1>2, ToEffect
<1> QED
  BY <1>1, <1>2
     DEF Handler, Deliver, CheckInTrans, Resettle, InsertTrnjour, PF10_104, FirstBooked,
         MainBooked, Reply, OP_DoFinish, PF10_157, ReverseIn, ReversedIn, PF_0006Update,
         PF10_123, Confirmed, SendAnswer, ReversedByHand, Die, PF10_111, Exit, AnswerWith,
         Leave

LEMMA ResultStep ==
  IInv /\ TranTypes /\ ResultToldTruly /\ [InNext]_inVars => ResultToldTruly'
<1> SUFFICES ASSUME IInv, TranTypes, ResultToldTruly, [InNext]_inVars,
                    NEW p \in Procs, stage'[p] = "sync", code'[p] = "R0000"
             PROVE  \E k \in Keys : Posted(k)' # {} \/ k \in blind'
  BY DEF ResultToldTruly
<1>0. TypeOK
  BY DEF IInv
<1>1. \A k \in Keys : Posted(k) # {} \/ k \in blind => Posted(k)' # {} \/ k \in blind'
  BY InStepBooks, PostedGrows, HistoryGrows
<1>2. CASE stage[p] = "sync" /\ code[p] = "R0000"
  BY <1>1, <1>2 DEF ResultToldTruly
<1>3. CASE PF_0006(p)
  <2>1. "NORECORD" \in InCodes /\ "answer" \in Stages /\ "sync" \in Stages
    BY DEF InCodes, Stages
  <2>2. PICK k \in Keys : Leave(p, "sync", ResultOf(acct[k].res))
    BY <1>3, <2>1, LeaveEffect DEF PF_0006, AnswerWith
  <2>3. ResultOf(acct[k].res) = "R0000"
    BY <2>1, <2>2, LeaveEffect DEF ResultOf, InCodes
  <2>4. acct[k].res \in {"booked", "suspended"}
    BY <2>3 DEF ResultOf
  <2> QED
    BY <1>1, <2>4 DEF IInv, BookedWasPosted
<1>4. CASE Engine \/ UNCHANGED inVars
  BY <1>2, <1>4 DEF Engine, inVars, tranVars
<1>5. CASE InNext /\ ~Engine
  BY <1>0, <1>2, <1>3, <1>5, WhoSteps, SyncOfMover
<1> QED
  BY <1>4, <1>5

(* When the center asks for the result of the transaction and is about to  *)
(* be told "succeeded", the core system posted a leg of it, or its answer  *)
(* was unreadable or an operator wrote the row.                            *)
THEOREM ToldIsPosted == InSpec => []ResultToldTruly
<1>1. InInit => ResultToldTruly
  BY DEF InInit, ResultToldTruly
<1>2. InTypeOK => TranTypes
  BY DEF InTypeOK, TranTypes
<1>3. InSpec => []IInv
  BY InUsesBooking, Inductive, PTL
<1> QED
  BY <1>1, <1>2, <1>3, InTypeCorrect, ResultStep, PTL DEF InSpec
-----------------------------------------------------------------------------
(* A suspended row is the core system's word; and whoever asks for the     *)
(* confirmation of a credit has read such a row.                           *)
Suspended(k)  == \E b \in Posted(k) : Answer(b.serial, "suspended")
SuspendedTrue == \A k \in Keys : acct[k].res = "suspended" => Suspended(k)
ConfirmTrue   == IsCredit /\ (Requested(Chk) \/ \E p \in Procs : Asking(p, Chk))
                     => Suspended(Main)

LEMMA SuspendedGrows ==
  ASSUME [InNext]_inVars, NEW k, Suspended(k)
  PROVE  Suspended(k)'
  BY InStepBooks, PostedGrows, HistoryGrows DEF Suspended, Answer

LEMMA SuspendedStep == IInv /\ SuspendedTrue /\ [InNext]_inVars => SuspendedTrue'
<1> SUFFICES ASSUME IInv, SuspendedTrue, [InNext]_inVars,
                    NEW k \in Keys, acct'[k].res = "suspended", acct[k].res # "suspended"
             PROVE  Suspended(k)'
  BY SuspendedGrows DEF SuspendedTrue
<1>0. TypeOK /\ \A p \in Procs : job[p].key \in Keys
  BY DEF IInv, TypeOK, Jobs
<1>1. ASSUME NEW j \in Keys, NEW r \in Results \ {"suspended"}, SetResult(j, r) PROVE FALSE
  BY <1>0, <1>1, SetResultEffect
<1>2. ASSUME UNCHANGED acct PROVE FALSE
  BY <1>2
<1>3. ASSUME NEW p \in Procs, AccountingInsert(p) PROVE FALSE
  BY <1>0, <1>2, <1>3 DEF AccountingInsert, TypeOK
<1>4. ASSUME NEW p \in Procs, AccountingReply(p) PROVE Suspended(k)'
  <2>1. Answer(job[p].serial, "suspended") /\ SetResult(job[p].key, "suspended")
    BY <1>0, <1>1, <1>2, <1>4 DEF AccountingReply, Results, Journal
  <2>2. job[p].key = k
    BY <1>0, <2>1, SetResultEffect DEF Results
  <2>3. PICK c \in calls : c.op = "book" /\ c.key = k /\ c.serial = job[p].serial
    BY <1>4, <2>2 DEF IInv, JobInv, JobOK, AccountingReply
  <2>4. c \in Posted(k) /\ Answer(c.serial, "suspended")
    BY <2>1, <2>3 DEF Posted, Took
  <2> QED
    BY <2>4, SuspendedGrows DEF Suspended
<1>5. ASSUME NEW p \in Procs, AccountCancelReply(p) PROVE FALSE
  BY <1>0, <1>1, <1>2, <1>5 DEF AccountCancelReply, Results
<1>6. ASSUME NEW j \in Keys, NEW r \in Results, ManualAdjust(j, r) PROVE FALSE
  BY <1>1, <1>6 DEF ManualAdjust
<1>7. [Next]_bookVars
  BY InStepBooks
<1>8. CASE UNCHANGED bookVars
  BY <1>2, <1>8 DEF bookVars
<1> QED
  BY <1>2, <1>3, <1>4, <1>5, <1>6, <1>7, <1>8
     DEF Next, ProcStep, AccountingStart, AccountingQuery, AccountingSend, Call, CallLost,
         AccountCancelStart, AccountCancelQuery, AccountCancelSend, Crash, BankExecute

LEMMA ConfirmStep ==
  TypeOK /\ TranTypes /\ SuspendedTrue /\ ConfirmTrue /\ [InNext]_inVars => ConfirmTrue'
<1> SUFFICES ASSUME TypeOK, TranTypes, SuspendedTrue, ConfirmTrue, [InNext]_inVars,
                    IsCredit', Requested(Chk)' \/ \E p \in Procs : Asking(p, Chk)',
                    ~Suspended(Main)
             PROVE  FALSE
  BY SuspendedGrows DEF ConfirmTrue
<1>0. /\ First \in Keys /\ Main \in Keys /\ Chk \in Keys
      /\ First # Main /\ First # Chk /\ Main # Chk
  BY InTranAssumption
<1>1. ASSUME IsCredit, ~Requested(Chk)',
             \A p \in Procs : Asking(p, Chk)' => Asking(p, Chk)
      PROVE  FALSE
  BY <1>1 DEF ConfirmTrue
<1>2. CASE Engine
  <2>1. IsCredit
    BY <1>2 DEF Engine, tranVars, IsCredit
  <2>2. ~Requested(Chk) /\ \A p \in Procs : ~Asking(p, Chk)
    BY <2>1 DEF ConfirmTrue
  <2>3. Requested(Chk)'
    BY <1>0, <1>2, <2>2, EngineAsks
  <2> QED
    BY <1>0, <1>2, <2>2, <2>3, EngineAsks DEF Requested
<1>3. CASE UNCHANGED inVars
  BY <1>1, <1>3 DEF inVars, tranVars, bookVars, IsCredit, Requested, Asking, ConfirmTrue
<1>4. ASSUME calls' = calls, UNCHANGED kind PROVE \E p \in Procs : Asking(p, Chk)' /\ ~Asking(p, Chk)
  BY <1>4 DEF ConfirmTrue, IsCredit, Requested
<1>5. ASSUME UNCHANGED bookVars, UNCHANGED kind PROVE FALSE
  BY <1>4, <1>5 DEF bookVars, Asking
<1>6. ASSUME NEW p \in Procs, NEW k \in Keys \ {Chk}, AccountingStart(p, k), UNCHANGED kind
      PROVE  FALSE
  BY <1>0, <1>4, <1>6, StartAsks
<1>7. ASSUME NEW p \in Procs, NEW k \in Keys, NEW flag \in 1..3, AccountCancelStart(p, k, flag), UNCHANGED kind
      PROVE  FALSE
  BY <1>0, <1>4, <1>7, CancelAsks
<1>8. ASSUME NEW p \in Procs, PF10_123(p) PROVE FALSE
  <2>1. CASE UNCHANGED bookVars
    BY <1>5, <1>8, <2>1 DEF PF10_123
  <2>2. CASE Confirmable
    <3>1. IsCredit
      BY <1>8 DEF PF10_123, IsCredit
    <3> QED
      BY <1>0, <2>2, <3>1 DEF Confirmable, SuspendedTrue
  <2> QED
    BY <1>8, <2>1, <2>2 DEF PF10_123
<1>9. ASSUME NEW p \in Procs, Die(p) PROVE FALSE
  BY <1>0, <1>4, <1>5, <1>9, CrashAsks DEF Die
<1>10. ASSUME NEW p \in Procs, Handler(p), ~PF10_123(p) PROVE FALSE
  BY <1>0, <1>5, <1>6, <1>7, <1>10
     DEF Handler, Deliver, CheckInTrans, Resettle, InsertTrnjour, PF10_104, FirstBooked,
         MainBooked, Reply, OP_DoFinish, PF10_157, ReverseIn, ReversedIn, PF_0006,
         PF_0006Update, Confirmed, SendAnswer, ReversedByHand
<1>11. ASSUME NEW p \in Procs, NEW k \in Keys, PF10_111(p, k) PROVE FALSE
  BY <1>7, <1>11 DEF PF10_111
<1> QED
  BY <1>2, <1>3, <1>8, <1>9, <1>10, <1>11 DEF InNext, Handler

(* The money of a confirmed credit had been taken and suspended by the     *)
(* core system, whatever happened between the two requests.                *)
THEOREM ConfirmsSuspended == InSpec => []ConfirmedWasSuspended
<1>1. InInit => SuspendedTrue /\ ConfirmTrue
  BY InTranAssumption
     DEF InInit, Init, SuspendedTrue, ConfirmTrue, Requested, Asking, Absent
<1>2. InTypeOK => TypeOK /\ TranTypes
  BY DEF InTypeOK, TranTypes
<1>3. InSpec => []IInv
  BY InUsesBooking, Inductive, PTL
<1>4. ConfirmTrue => ConfirmedWasSuspended
  BY DEF ConfirmTrue, ConfirmedWasSuspended, Posted, Requested, Suspended
<1> QED
  BY <1>1, <1>2, <1>3, <1>4, InTypeCorrect, SuspendedStep, ConfirmStep, PTL DEF InSpec
-----------------------------------------------------------------------------
(* What a process that books, or answers for, a debit knows of its money.  *)
MainRefused == /\ Posted(Main) = {}
               /\ \A c \in calls : c.key = Main /\ c.op = "book" => Answered(c.serial)

Knows(p) ==
    /\ stage[p] = "first" => kind = "fs"
    /\ stage[p] = "main" => job[p].key = Main
    /\ stage[p] = "main" /\ ret[p] = "FAIL" => MainRefused
    /\ stage[p] = "reply" /\ kind = "debit" /\ code[p] = "FAIL" =>
          MainRefused /\ row # "absent" /\ \A q \in Procs : ~Handling(q)
    /\ stage[p] = "reply" /\ kind = "debit" /\ code[p] = "SUCC" /\ Main \notin blind =>
          Posted(Main) # {}

DebitInv == \A p \in Procs : Knows(p)

(* What was refused stays refused while no one else asks. *)
LEMMA RefusedKept ==
  ASSUME IInv, MainRefused, [Next]_bookVars,
         \A c \in calls' \ calls : c.op = "book" => c.key # Main
  PROVE  MainRefused'
<1>1. SerialInv'
  BY StepInv DEF IInv
<1>2. ASSUME NEW c \in calls', c.key = Main, c.op = "book"
      PROVE  Answered(c.serial)' /\ ~Took(c.serial)'
  <2>1. PICK a \in answers : a.serial = c.serial
    BY <1>2 DEF MainRefused, Answered
  <2>2. a.outcome \notin {"ok", "suspended"}
    <3>1. a = [serial |-> a.serial, outcome |-> a.outcome]
      BY DEF IInv, TypeOK, Answers
    <3> QED
      BY <1>2, <2>1, <3>1 DEF MainRefused, Posted, Took, Answer
  <2>3. a \in answers'
    BY HistoryGrows
  <2> QED
    BY <1>1, <2>1, <2>2, <2>3 DEF SerialInv, Answered, Took, Answer
<1> QED
  BY <1>2 DEF MainRefused, Posted

(* A process whose booking call just failed knows that it was refused, or  *)
(* that it was never sent.                                                 *)
LEMMA FailMeansRefused ==
  ASSUME IInv, RequestInv, NEW p \in Procs, ProcStep(p), stage[p] = "main",
         job[p].key = Main, ret'[p] = "FAIL"
  PROVE  MainRefused' /\ calls' = calls
<1>0. TypeOK
  BY DEF IInv
<1>1. ASSUME Asking(p, Main), UNCHANGED <<calls, answers>> PROVE MainRefused'
  <2>1. ~Requested(Main)
    BY <1>1 DEF RequestInv, OwnLegs
  <2> QED
    BY <1>1, <2>1 DEF MainRefused, Requested, Posted
<1>2. CASE AccountingQuery(p) \/ AccountingInsert(p)
  BY <1>1, <1>2 DEF AccountingQuery, AccountingInsert, Asking
<1>3. CASE AccountingReply(p)
  <2>1. Answer(job[p].serial, "refused")
    BY <1>0, <1>3, ReturnEffect DEF AccountingReply
  <2>2. UNCHANGED <<calls, answers>>
    BY <1>3 DEF AccountingReply
  <2>3. PICK c \in calls : c.op = "book" /\ c.key = Main /\ c.serial = job[p].serial
    BY <1>3 DEF IInv, JobInv, JobOK, AccountingReply
  <2>4. \A d \in calls : d.op = "book" /\ d.key = Main => d = c
    BY <2>3 DEF RequestInv, RequestedOnce
  <2>5. Answered(c.serial) /\ ~Took(c.serial)
    BY <2>1, <2>3 DEF IInv, SerialInv, Answered, Took, Answer
  <2>6. Answered(c.serial)' /\ ~Took(c.serial)'
    BY <2>2, <2>5 DEF Answered, Took, Answer
  <2> QED
    BY <2>2, <2>4, <2>6 DEF MainRefused, Posted
<1>4. CASE AccountingSend(p) \/ AccountCancelSend(p) \/ CallLost(p)
  BY <1>0, <1>4, ReturnEffect, GotoEffect DEF AccountingSend, AccountCancelSend, Call, CallLost
<1>5. CASE AccountCancelQuery(p) \/ AccountCancelReply(p)
  BY <1>0, <1>5, ReturnEffect, BeginEffect DEF AccountCancelQuery, AccountCancelReply
<1> QED
  BY <1>2, <1>3, <1>4, <1>5 DEF ProcStep, AccountingQuery, AccountingInsert, AccountingReply

(* A step of the engine keeps what everybody knows. *)
LEMMA KnowsEngine ==
  ASSUME IInv, TranTypes, RequestInv, DebitInv, Engine, NEW p \in Procs
  PROVE  Knows(p)'
<1>0. /\ TypeOK
      /\ UNCHANGED <<kind, row, stage, code>>
      /\ First \in Keys /\ Main \in Keys
  BY InTranAssumption DEF IInv, Engine, tranVars
<1>1. [Next]_bookVars
  BY DEF Engine, Next
<1>2. \A q \in Procs : Handling(q)' <=> Handling(q)
  BY <1>0 DEF Handling
<1>3. Posted(Main) \subseteq Posted(Main)' /\ blind \subseteq blind'
  BY <1>1, PostedGrows, HistoryGrows
<1>4. ASSUME MainRefused, \A q \in Procs : ~Asking(q, Main) PROVE MainRefused'
  BY <1>0, <1>1, <1>4, EngineAsks, RefusedKept DEF Calls
<1>5. ASSUME stage[p] = "main"
      PROVE  job'[p].key = Main
  <2>1. job[p].key = Main
    BY <1>5 DEF DebitInv, Knows
  <2>2. ASSUME NEW q \in Procs, ProcStep(q) PROVE job'[p].key = job[p].key
    BY <1>0, <2>2, ReturnEffect, GotoEffect, BeginEffect
       DEF ProcStep, AccountingQuery, AccountingInsert, AccountingSend, AccountingReply,
           CallLost, AccountCancelQuery, AccountCancelSend, AccountCancelReply, Call, Job
  <2> QED
    BY <2>1, <2>2 DEF Engine, BankExecute, ManualAdjust
<1>6. ASSUME stage[p] = "main", ret'[p] = "FAIL"
      PROVE  MainRefused'
  <2>1. \A r \in Procs \ {p} : ~Asking(r, Main)
    BY <1>6 DEF RequestInv, OneHandler, OwnLegs, Handling
  <2>2. CASE ProcStep(p)
    BY <1>6, <2>2, FailMeansRefused DEF DebitInv, Knows
  <2>3. CASE ~ProcStep(p)
    <3>1. ret'[p] = ret[p] /\ pc'[p] = pc[p]
      <4>1. ASSUME NEW q \in Procs \ {p}, ProcStep(q) PROVE ret'[p] = ret[p] /\ pc'[p] = pc[p]
        BY <1>0, <4>1, ReturnEffect, GotoEffect, BeginEffect
           DEF ProcStep, AccountingQuery, AccountingInsert, AccountingSend, AccountingReply,
               CallLost, AccountCancelQuery, AccountCancelSend, AccountCancelReply, Call
      <4> QED
        BY <2>3, <4>1 DEF Engine, BankExecute, ManualAdjust
    <3>2. MainRefused
      BY <1>6, <3>1 DEF DebitInv, Knows
    <3>3. \A c \in calls' \ calls : c.op = "book" => c.key # Main
      <4>1. ASSUME NEW q \in Procs \ {p}, ProcStep(q)
            PROVE  \A c \in calls' \ calls : c.op = "book" => c.key # Main
        BY <2>1, <4>1
           DEF ProcStep, AccountingQuery, AccountingInsert, AccountingSend, AccountingReply,
               CallLost, AccountCancelQuery, AccountCancelSend, AccountCancelReply, Call,
               Asking
      <4> QED
        BY <2>3, <4>1 DEF Engine, BankExecute, ManualAdjust
    <3> QED
      BY <1>1, <3>2, <3>3, RefusedKept
  <2> QED
    BY <2>2, <2>3
<1>7. ASSUME stage[p] = "reply", kind = "debit", code[p] = "FAIL"
      PROVE  MainRefused'
  <2>1. MainRefused /\ \A q \in Procs : ~Asking(q, Main)
    BY <1>7 DEF DebitInv, Knows, Handling, RequestInv, OwnLegs
  <2> QED
    BY <1>4, <2>1
<1> QED
  BY <1>0, <1>2, <1>3, <1>5, <1>6, <1>7 DEF DebitInv, Knows

(* What a request leaves alone when it acts outside the engine. *)
LEMMA OutsideKeeps ==
  ASSUME TypeOK, NEW p \in Procs, Handler(p) \/ Die(p) \/ \E k \in Keys : PF10_111(p, k)
  PROVE  /\ UNCHANGED <<calls, answers, blind, kind>>
         /\ row # "absent" => row' # "absent"
         /\ \A q \in Procs \ {p} : job'[q] = job[q] /\ ret'[q] = ret[q]
<1> DEFINE Kept == /\ UNCHANGED <<calls, answers, blind>>
                   /\ \A q \in Procs \ {p} : job'[q] = job[q] /\ ret'[q] = ret[q]
<1>1. UNCHANGED bookVars => Kept
  BY DEF bookVars
<1>2. ASSUME NEW k \in Keys, AccountingStart(p, k) \/ \E flag \in 1..3 : AccountCancelStart(p, k, flag) PROVE Kept
  BY <1>2, EndEffect, BeginEffect DEF AccountingStart, AccountCancelStart
<1>3. Crash(p) => Kept
  BY ReturnEffect DEF Crash
<1>4. First \in Keys /\ Main \in Keys /\ Chk \in Keys
  BY InTranAssumption
<1> HIDE DEF Kept
<1>5. Handler(p) => Kept /\ UNCHANGED kind
  BY <1>1, <1>2, <1>4
     DEF Handler, Deliver, CheckInTrans, Resettle, InsertTrnjour, PF10_104, FirstBooked,
         MainBooked, Reply, OP_DoFinish, PF10_157, ReverseIn, ReversedIn, PF_0006,
         PF_0006Update, PF10_123, Confirmed, SendAnswer, ReversedByHand
<1>6. Handler(p) => (row # "absent" => row' # "absent")
  BY DEF Handler, Deliver, CheckInTrans, Resettle, InsertTrnjour, PF10_104, FirstBooked,
         MainBooked, Reply, OP_DoFinish, Closing, PF10_157, ReverseIn, ReversedIn, PF_0006,
         PF_0006Update, PF10_123, Confirmed, SendAnswer, ReversedByHand
<1>7. Die(p) \/ (\E k \in Keys : PF10_111(p, k)) => Kept /\ UNCHANGED <<kind, row>>
  BY <1>1, <1>2, <1>3 DEF Die, PF10_111
<1> QED
  BY <1>5, <1>6, <1>7 DEF Kept

(* To what a request may come: to a leg by starting to book it, to the     *)
(* handler by the insert, to an answer by the code of the way it took.     *)
LEMMA WhereTo ==
  ASSUME TypeOK, TranTypes, NEW p \in Procs,
         Handler(p) \/ Die(p) \/ \E k \in Keys : PF10_111(p, k)
  PROVE  /\ stage'[p] = "handle" => row = "absent"
         /\ stage'[p] = "first" => stage[p] = "handle" /\ kind = "fs"
         /\ stage'[p] = "main" => Handling(p) /\ AccountingStart(p, Main)
         /\ stage'[p] = "reply" /\ code'[p] = "FAIL" =>
               stage[p] \in {"handle", "first"} \/ (MainBooked(p) /\ ret[p] = "FAIL")
         /\ stage'[p] = "reply" /\ code'[p] = "SUCC" =>
               stage[p] = "first" \/ (MainBooked(p) /\ ret[p] = "SUCC")
<1>0. /\ \A q \in Procs : ret[q] \in InCodes
      /\ {"none", "OK", "FAIL", "DB", "DBSEL", "CZFAIL", "CONV", "CHECK", "NEG", "COMMPH",
          "EXISTSUCC", "EXISTUNKNOW", "CZSUCC", "NORECORD", "R0000", "R8999"} \subseteq InCodes
  BY DEF InCodes, Codes, TypeOK
<1> USE DEF Stages
<1>1. ASSUME NEW s \in Stages, To(p, s) PROVE stage'[p] = s
  BY <1>1, ToEffect
<1>2. ASSUME NEW s \in Stages, NEW c \in InCodes, Leave(p, s, c)
      PROVE  stage'[p] = s /\ code'[p] = c
  BY <1>2, LeaveEffect
<1>3. CASE Deliver(p) \/ CheckInTrans(p) \/ Resettle(p) \/ InsertTrnjour(p)
  BY <1>0, <1>1, <1>2, <1>3 DEF Deliver, CheckInTrans, Resettle, InsertTrnjour, Exit
<1>4. CASE PF10_104(p)
  BY <1>0, <1>1, <1>2, <1>4 DEF PF10_104, Exit, Handling
<1>5. CASE FirstBooked(p)
  BY <1>0, <1>1, <1>2, <1>5 DEF FirstBooked, Exit, Handling
<1>6. CASE MainBooked(p)
  BY <1>0, <1>2, <1>6 DEF MainBooked, Exit
<1>7. CASE Reply(p) \/ OP_DoFinish(p) \/ PF10_157(p) \/ ReverseIn(p) \/ ReversedIn(p)
  BY <1>0, <1>1, <1>2, <1>7 DEF Reply, OP_DoFinish, PF10_157, ReverseIn, ReversedIn, AnswerWith
<1>8. CASE PF_0006(p) \/ PF_0006Update(p)
  BY <1>0, <1>1, <1>2, <1>8 DEF PF_0006, PF_0006Update, ResultOf, AnswerWith
<1>9. CASE PF10_123(p) \/ Confirmed(p) \/ SendAnswer(p) \/ ReversedByHand(p)
  BY <1>0, <1>1, <1>2, <1>9 DEF PF10_123, Confirmed, SendAnswer, ReversedByHand, AnswerWith
<1>10. CASE Die(p) \/ \E k \in Keys : PF10_111(p, k)
  BY <1>0, <1>1, <1>2, <1>10 DEF Die, PF10_111
<1> QED
  BY <1>3, <1>4, <1>5, <1>6, <1>7, <1>8, <1>9, <1>10 DEF Handler

(* A step of a request keeps what everybody knows. *)
LEMMA KnowsOutside ==
  ASSUME IInv, TranTypes, RequestInv, DebitInv, InNext, ~Engine, NEW p \in Procs
  PROVE  Knows(p)'
<1>0. TypeOK /\ Main \in Keys
  BY InTranAssumption DEF IInv
<1>1. PICK m \in Procs :
         /\ Handler(m) \/ Die(m) \/ \E k \in Keys : PF10_111(m, k)
         /\ \A q \in Procs \ {m} : stage'[q] = stage[q] /\ code'[q] = code[q]
  BY <1>0, WhoSteps
<1>2. /\ UNCHANGED <<calls, answers, blind, kind>>
      /\ row # "absent" => row' # "absent"
      /\ \A q \in Procs \ {m} : job'[q] = job[q] /\ ret'[q] = ret[q]
  BY <1>0, <1>1, OutsideKeeps
<1>3. /\ MainRefused' <=> MainRefused
      /\ Posted(Main)' = Posted(Main)
  BY <1>2 DEF MainRefused, Posted, Answered, Took, Answer
<1>4. ASSUME row # "absent", \A q \in Procs : ~Handling(q)
      PROVE  \A q \in Procs : ~Handling(q)'
  BY <1>0, <1>1, <1>4, WhereTo DEF Handling
<1>5. CASE p # m
  BY <1>1, <1>2, <1>3, <1>4, <1>5 DEF DebitInv, Knows
<1>6. CASE p = m
  <2>1. stage'[p] = "first" => kind' = "fs"
    BY <1>0, <1>1, <1>2, <1>6, WhereTo
  <2>2. stage'[p] = "main" => job'[p].key = Main /\ ret'[p] # "FAIL"
    BY <1>0, <1>1, <1>6, WhereTo, EndEffect, BeginEffect DEF AccountingStart, Job
  <2>3. ASSUME stage'[p] = "reply", kind = "debit", code'[p] = "FAIL"
        PROVE  MainRefused /\ row # "absent" /\ \A q \in Procs : ~Handling(q)'
    <3>1. Handling(p) /\ MainRefused
      <4>1. CASE stage[p] = "handle"
        <5>1. ~Requested(Main)
          BY <4>1 DEF RequestInv, OwnLegs
        <5> QED
          BY <4>1, <5>1 DEF Handling, MainRefused, Requested, Posted
      <4>2. CASE stage[p] = "first"
        BY <2>3, <4>2 DEF DebitInv, Knows
      <4>3. CASE MainBooked(p) /\ ret[p] = "FAIL"
        BY <4>3 DEF MainBooked, DebitInv, Knows, Handling
      <4> QED
        BY <1>0, <1>1, <1>6, <2>3, <4>1, <4>2, <4>3, WhereTo
    <3>2. row # "absent" /\ \A q \in Procs \ {p} : ~Handling(q)
      BY <3>1 DEF RequestInv, OneHandler
    <3>3. \A q \in Procs \ {p} : ~Handling(q)'
      BY <1>1, <1>6, <3>2 DEF Handling
    <3> QED
      BY <2>3, <3>1, <3>2, <3>3 DEF Handling
  <2>4. ASSUME stage'[p] = "reply", kind = "debit", code'[p] = "SUCC", Main \notin blind
        PROVE  Posted(Main) # {}
    <3>1. CASE stage[p] = "first"
      BY <2>4, <3>1 DEF DebitInv, Knows
    <3>2. CASE MainBooked(p) /\ ret[p] = "SUCC"
      <4>1. job[p].key = Main
        BY <3>2 DEF MainBooked, DebitInv, Knows
      <4> QED
        BY <1>0, <2>4, <3>2, <4>1 DEF IInv, BookedWasPosted
    <3> QED
      BY <1>0, <1>1, <1>6, <2>4, <3>1, <3>2, WhereTo
  <2> QED
    BY <1>2, <1>3, <2>1, <2>2, <2>3, <2>4 DEF Knows
<1> QED
  BY <1>5, <1>6

LEMMA DebitStep ==
  IInv /\ TranTypes /\ RequestInv /\ DebitInv /\ [InNext]_inVars => DebitInv'
<1> SUFFICES ASSUME IInv, TranTypes, RequestInv, DebitInv, [InNext]_inVars,
                    NEW p \in Procs
             PROVE  Knows(p)'
  BY DEF DebitInv
<1>1. CASE UNCHANGED inVars
  BY <1>1
     DEF inVars, tranVars, bookVars, DebitInv, Knows, MainRefused, Posted, Answered, Took,
         Answer, Handling
<1> QED
  BY <1>1, KnowsEngine, KnowsOutside

(* What the center is told of a debit is what happened: "booked" that the  *)
(* core system posted it, where its answer could be read; "booking failed" *)
(* that it posted nothing and has nothing left that it could still post.   *)
THEOREM DebitToldTruly == InSpec => []DebitAnsweredTruly
<1>1. InInit => DebitInv
  BY DEF InInit, DebitInv, Knows
<1>2. InTypeOK => TranTypes
  BY DEF InTypeOK, TranTypes
<1>3. InSpec => []IInv
  BY InUsesBooking, Inductive, PTL
<1>4. DebitInv => DebitAnsweredTruly
  BY DEF DebitInv, Knows, DebitAnsweredTruly, Trusted, MainRefused
<1> QED
  BY <1>1, <1>2, <1>3, <1>4, InTypeCorrect, RequestInductive, DebitStep, PTL DEF InSpec

-----------------------------------------------------------------------------
(* The engine under a caller that books and never reverses.                 *)

AccPoints == {"query", "insert", "send", "await"}

(* A step of the engine or of the core system starts nothing, and a request *)
(* is for the leg, and bears the serial, of who sends it.                   *)
EngineWorks ==
    \/ \E p \in Procs : ProcStep(p)
    \/ \E c \in calls : BankExecute(c)

LEMMA EngineEffect ==
    ASSUME TypeOK, EngineWorks
    PROVE  /\ \A q \in Procs :
                 /\ job'[q].key = job[q].key
                 /\ pc[q] = "idle" => pc'[q] = "idle" /\ ret'[q] = ret[q]
                 /\ pc[q] \in AccPoints => pc'[q] = "idle" \/
                       (pc'[q] \in AccPoints /\ job'[q].serial = job[q].serial)
                 /\ pc[q] \in AccPoints => ret'[q] = ret[q] \/ ret'[q] # "OK"
           /\ \A c \in calls' \ calls : \E q \in Procs :
                 pc[q] # "idle" /\ c.key = job[q].key /\ c.serial = job[q].serial
<1> DEFINE Still(q) == pc'[q] = pc[q] /\ job'[q] = job[q] /\ ret'[q] = ret[q]
           Moves(p) ==
               /\ pc[p] # "idle" /\ job'[p].key = job[p].key
               /\ pc[p] \in AccPoints => pc'[p] = "idle" \/
                     (pc'[p] \in AccPoints /\ job'[p].serial = job[p].serial)
               /\ pc[p] \in AccPoints => ret'[p] # "OK"
               /\ \A c \in calls' \ calls : c.key = job[p].key /\ c.serial = job[p].serial
               /\ \A q \in Procs \ {p} : Still(q)
<1>1. ASSUME NEW p \in Procs, NEW c, Return(p, c)
      PROVE  /\ pc'[p] = "idle" /\ job'[p].key = job[p].key /\ ret'[p] = c
             /\ \A q \in Procs \ {p} : Still(q)
  BY <1>1, ReturnEffect
<1>2. ASSUME NEW p \in Procs, NEW point, Goto(p, point)
      PROVE  /\ pc'[p] = point /\ job'[p] = job[p] /\ ret'[p] = "none"
             /\ \A q \in Procs \ {p} : Still(q)
  BY <1>2, GotoEffect
<1> HIDE DEF Still
<1>3. ASSUME NEW p \in Procs, AccountingQuery(p) PROVE Moves(p)
  BY <1>1, <1>2, <1>3 DEF AccountingQuery, AccPoints
<1>4. ASSUME NEW p \in Procs, AccountingInsert(p) PROVE Moves(p)
  BY <1>1, <1>2, <1>4 DEF AccountingInsert, AccPoints
<1>5. ASSUME NEW p \in Procs, AccountingReply(p) \/ CallLost(p) \/ AccountCancelReply(p)
      PROVE  Moves(p)
  <2>1. /\ calls' = calls /\ pc[p] # "idle"
        /\ \E c \in Codes : Return(p, c) /\ (pc[p] \in AccPoints => c # "OK")
    BY <1>5 DEF AccountingReply, CallLost, AccountCancelReply, Codes, AccPoints
  <2> QED BY <1>1, <2>1
<1>6. ASSUME NEW p \in Procs, AccountingSend(p) \/ AccountCancelSend(p) PROVE Moves(p)
  <2>1. \/ Return(p, "CONV") /\ calls' = calls
        \/ /\ Goto(p, "await") \/ (Goto(p, "cawait") /\ pc[p] = "csend")
           /\ \A c \in calls' \ calls : c.key = job[p].key /\ c.serial = job[p].serial
    BY <1>6 DEF AccountingSend, AccountCancelSend, Call
  <2>2. pc[p] # "idle"
    BY <1>6 DEF AccountingSend, AccountCancelSend
  <2> QED BY <1>1, <1>2, <2>1, <2>2 DEF AccPoints
<1>7. ASSUME NEW p \in Procs, AccountCancelQuery(p) PROVE Moves(p)
  <2>1. pc[p] \in {"cquery", "oquery"} /\ calls' = calls
    BY <1>7 DEF AccountCancelQuery
  <2>2. \/ \E c \in Codes : Return(p, c)
        \/ Begin(p, "csend", Job(job[p].key, serial + 1, Original(p)))
    BY <1>7 DEF AccountCancelQuery, Codes
  <2>3. CASE \E c \in Codes : Return(p, c)
    BY <1>1, <2>1, <2>3 DEF AccPoints
  <2>4. CASE Begin(p, "csend", Job(job[p].key, serial + 1, Original(p)))
    BY <2>1, <2>4, BeginEffect DEF Job, AccPoints, Still
  <2> QED BY <2>2, <2>3, <2>4
<1>8. ASSUME NEW c \in calls, BankExecute(c)
      PROVE  calls' = calls /\ \A q \in Procs : Still(q)
  BY <1>8 DEF BankExecute, Still
<1>9. (\E p \in Procs : Moves(p)) \/ (calls' = calls /\ \A q \in Procs : Still(q))
  BY <1>3, <1>4, <1>5, <1>6, <1>7, <1>8 DEF EngineWorks, ProcStep
<1> QED BY <1>9 DEF Still

(* A call of Accounting, and a crash. *)
LEMMA StartEffect ==
    ASSUME TypeOK, NEW p \in Procs, NEW k \in Keys, AccountingStart(p, k)
    PROVE  /\ pc[p] = "idle" /\ job'[p].key = k /\ calls' = calls /\ answers' = answers
           /\ ret'[p] \in {"OK", "none"}
           /\ pc'[p] = "idle" \/ (pc'[p] = "query" /\ job'[p].serial = serial')
           /\ \A q \in Procs \ {p} : pc'[q] = pc[q] /\ job'[q] = job[q] /\ ret'[q] = ret[q]
<1>1. CASE End(p, k, "OK")
  BY <1>1, EndEffect DEF AccountingStart
<1>2. CASE Begin(p, "query", Job(k, serial + 1, 0)) /\ serial' = serial + 1
  BY <1>2, BeginEffect DEF AccountingStart, Job
<1> QED BY <1>1, <1>2 DEF AccountingStart

LEMMA CrashEffect ==
    ASSUME TypeOK, NEW p \in Procs, Crash(p)
    PROVE  /\ pc'[p] = "idle" /\ job'[p].key = job[p].key /\ calls' = calls
           /\ answers' = answers
           /\ \A q \in Procs \ {p} : pc'[q] = pc[q] /\ job'[q] = job[q] /\ ret'[q] = ret[q]
BY ReturnEffect DEF Crash

LEMMA WorksIsNext == EngineWorks => Next
BY DEF EngineWorks, Next

-----------------------------------------------------------------------------
(* Receipts.                                                                *)

ReceiptsTypeOK ==
    /\ clock \in 1..MaxClock
    /\ tpflag \subseteq Debits /\ late \subseteq Debits
    /\ rstage \in [Procs -> {"idle", "flag", "type", "returning",
                             "select", "receive", "receiving"}]
    /\ todo \in [Procs -> SUBSET Debits]

(* The engine works for a process on a leg of the row it is at. *)
WorksFor ==
    \A p \in Procs : pc[p] # "idle" =>
        \/ rstage[p] = "receiving" /\ \E d \in todo[p] : job[p].key = St(d)
        \/ rstage[p] = "returning" /\ \E d \in todo[p] : job[p].key = Rt(d)

At(d, stages)   == \E p \in Procs : rstage[p] \in stages /\ d \in todo[p]
Asked(k)        == \E c \in calls : c.key = k
ReceiveAsked(d) == At(d, {"receive", "receiving"}) \/ Asked(St(d))
ReturnAsked(d)  == At(d, {"type", "returning"}) \/ Asked(Rt(d))

(* A debit is received when its return is no longer in time; its return is  *)
(* booked when it is flagged or late; with both, it is late.                *)
OneWay ==
    \A d \in Debits :
        /\ HeldBack(d) /\ (At(d, {"select"}) \/ ReceiveAsked(d)) => ~InTime(d)
        /\ ReturnAsked(d) => d \in tpflag \cup late
        /\ HeldBack(d) /\ ReceiveAsked(d) /\ ReturnAsked(d) => d \in late

ReceiptsInv == IInv /\ ReceiptsTypeOK /\ WorksFor /\ OneWay

(* A round whose debits are held back is received when the one after it is  *)
(* over.                                                                    *)
LEMMA ReceivedLate ==
    ASSUME ReceiptsTypeOK, NEW d \in Debits, MayReceiveAt(RoundOf(d), clock), HeldBack(d)
    PROVE  ~InTime(d)
<1>1. clock \in 1..MaxClock /\ MaxClock \in Nat /\ RoundOf(d) \in 1..MaxClock
  BY ReceiptsAssumption DEF ReceiptsTypeOK
<1>2. clock \notin 1..(2 * RoundOf(d) + 1)
  BY DEF HeldBack
<1> QED BY <1>1, <1>2 DEF InTime

(* A step that asks for nothing new. *)
LEMMA NothingNew ==
    ASSUME ReceiptsInv, [Next]_bookVars, ReceiptsTypeOK', WorksFor',
           clock <= clock', tpflag \subseteq tpflag', late \subseteq late',
           \A d \in Debits : /\ At(d, {"select"})' => At(d, {"select"})
                             /\ ReceiveAsked(d)' => ReceiveAsked(d)
                             /\ ReturnAsked(d)' => ReturnAsked(d)
    PROVE  ReceiptsInv'
<1>1. IInv'
  BY StepInv DEF ReceiptsInv
<1>2. \A d \in Debits : InTime(d)' => InTime(d)
  <2>1. \A d \in Debits : RoundOf(d) \in Nat
    BY ReceiptsAssumption
  <2> QED BY <2>1 DEF InTime, ReceiptsInv, ReceiptsTypeOK
<1>3. OneWay'
  BY <1>2 DEF ReceiptsInv, OneWay
<1> QED BY <1>1, <1>3 DEF ReceiptsInv

LEMMA RToEffect ==
    ASSUME ReceiptsTypeOK, NEW p \in Procs, NEW s, NEW rows, RTo(p, s, rows)
    PROVE  /\ rstage'[p] = s /\ todo'[p] = rows
           /\ \A q \in Procs \ {p} : rstage'[q] = rstage[q] /\ todo'[q] = todo[q]
BY DEF RTo, ReceiptsTypeOK

ReceiptStages == {"idle", "flag", "type", "returning", "select", "receive", "receiving"}

LEMMA RToType ==
    ASSUME ReceiptsTypeOK, NEW p \in Procs, NEW s \in ReceiptStages,
           NEW rows \in SUBSET Debits,
           RTo(p, s, rows), clock' \in 1..MaxClock, tpflag' \subseteq Debits,
           late' \subseteq Debits
    PROVE  ReceiptsTypeOK'
BY DEF RTo, ReceiptsTypeOK, ReceiptStages

(* The engine stands still for a process that moves on. *)
LEMMA StillWorks ==
    ASSUME ReceiptsInv, NEW p \in Procs, UNCHANGED bookVars, pc[p] = "idle",
           \A q \in Procs \ {p} : rstage'[q] = rstage[q] /\ todo'[q] = todo[q]
    PROVE  WorksFor' /\ calls' = calls
BY DEF ReceiptsInv, WorksFor, bookVars

(* Where the engine stands still for a process. *)
LEMMA IdleAt ==
    ASSUME ReceiptsInv, NEW p \in Procs, rstage[p] \notin {"receiving", "returning"}
    PROVE  pc[p] = "idle"
BY DEF ReceiptsInv, WorksFor

(* A step by which a process leaves its rows, or goes on with them towards  *)
(* the engine as before.                                                    *)
LEMMA GoesOn ==
    ASSUME ReceiptsInv, NEW p \in Procs, NEW s \in ReceiptStages \ {"select"},
           NEW rows \in SUBSET Debits,
           RTo(p, s, rows), s \notin {"idle", "flag"} => rows \subseteq todo[p],
           s \in {"type", "returning"} => rstage[p] \in {"type", "returning"},
           s \in {"receive", "receiving"} => rstage[p] \in {"receive", "receiving"},
           [Next]_bookVars, calls' = calls, WorksFor',
           clock' = clock, tpflag' = tpflag, late \subseteq late', late' \subseteq Debits
    PROVE  ReceiptsInv'
<1>1. ReceiptsTypeOK'
  BY RToType DEF ReceiptsInv, ReceiptsTypeOK
<1>2. /\ rstage'[p] = s /\ todo'[p] = rows
      /\ \A q \in Procs \ {p} : rstage'[q] = rstage[q] /\ todo'[q] = todo[q]
  BY RToEffect DEF ReceiptsInv
<1>3. \A d \in Debits : At(d, {"select"})' => At(d, {"select"})
  BY <1>2 DEF At
<1>4. \A d \in Debits : At(d, {"receive", "receiving"})' => At(d, {"receive", "receiving"})
  BY <1>2 DEF At
<1>5. \A d \in Debits : At(d, {"type", "returning"})' => At(d, {"type", "returning"})
  BY <1>2 DEF At
<1>6. \A k : Asked(k)' <=> Asked(k)
  BY DEF Asked
<1>7. clock <= clock'
  BY DEF ReceiptsInv, ReceiptsTypeOK
<1> QED BY <1>1, <1>3, <1>4, <1>5, <1>6, <1>7, NothingNew DEF ReceiveAsked, ReturnAsked

(* The steps in which the engine has no part. *)
LEMMA AloneInv ==
    ASSUME ReceiptsInv, NEW p \in Procs, NEW s \in ReceiptStages \ {"select"},
           NEW rows \in SUBSET Debits,
           RTo(p, s, rows), s \notin {"idle", "flag"} => rows \subseteq todo[p],
           s \in {"type", "returning"} => rstage[p] \in {"type", "returning"},
           s \in {"receive", "receiving"} => rstage[p] \in {"receive", "receiving"},
           pc[p] = "idle", UNCHANGED <<bookVars, clock, tpflag, late>>
    PROVE  ReceiptsInv'
<1>1. \A q \in Procs \ {p} : rstage'[q] = rstage[q] /\ todo'[q] = todo[q]
  BY RToEffect DEF ReceiptsInv
<1>2. WorksFor' /\ calls' = calls
  BY <1>1, StillWorks
<1>3. clock' = clock /\ tpflag' = tpflag /\ late' = late /\ late' \subseteq Debits
  BY DEF ReceiptsInv, ReceiptsTypeOK
<1>4. UNCHANGED bookVars
  OBVIOUS
<1> QED BY <1>2, <1>3, <1>4, GoesOn

(* The steps in which a process hands the leg k of a row to the engine. *)
LEMMA HandsInv ==
    ASSUME ReceiptsInv, NEW p \in Procs, NEW d \in todo[p], NEW k \in Keys,
           AccountingStart(p, k),
           \/ rstage[p] = "type" /\ RTo(p, "returning", todo[p]) /\ k = Rt(d)
           \/ rstage[p] = "receive" /\ RTo(p, "receiving", todo[p]) /\ k = St(d),
           UNCHANGED <<clock, tpflag, late>>
    PROVE  ReceiptsInv'
<1>1. todo[p] \in SUBSET Debits /\ late \subseteq Debits
  BY DEF ReceiptsInv, ReceiptsTypeOK
<1>2. /\ job'[p].key = k /\ calls' = calls
      /\ \A q \in Procs \ {p} : pc'[q] = pc[q] /\ job'[q] = job[q]
  BY StartEffect DEF ReceiptsInv, IInv
<1>3. [Next]_bookVars
  BY DEF Next
<1>4. /\ todo'[p] = todo[p] /\ rstage'[p] = (IF rstage[p] = "type" THEN "returning" ELSE "receiving")
      /\ \A q \in Procs \ {p} : rstage'[q] = rstage[q] /\ todo'[q] = todo[q]
  BY RToEffect DEF ReceiptsInv
<1>5. WorksFor'
  BY <1>2, <1>4 DEF ReceiptsInv, WorksFor
<1> QED BY <1>1, <1>2, <1>3, <1>5, GoesOn DEF ReceiptStages

(* The engine asks the core system for the leg of a row it was handed. *)
LEMMA EngineInv == ASSUME ReceiptsInv, ReceiptEngine PROVE ReceiptsInv'
<1> USE ReceiptsAssumption
<1>1. EngineWorks /\ UNCHANGED recVars
  BY DEF ReceiptEngine, EngineWorks
<1>2. [Next]_bookVars
  BY <1>1, WorksIsNext
<1>3. /\ \A q \in Procs : job'[q].key = job[q].key /\ (pc'[q] # "idle" => pc[q] # "idle")
      /\ \A c \in calls' \ calls : \E q \in Procs : pc[q] # "idle" /\ c.key = job[q].key
  BY <1>1, EngineEffect DEF ReceiptsInv, IInv
<1>4. ReceiptsTypeOK' /\ WorksFor' /\ clock <= clock'
  BY <1>1, <1>3 DEF ReceiptsInv, ReceiptsTypeOK, WorksFor, recVars
<1>5. \A d \in Debits : \A s : At(d, s)' <=> At(d, s)
  BY <1>1 DEF At, recVars
<1>6. ASSUME NEW d \in Debits, NEW c \in calls' \ calls, c.key \in {St(d), Rt(d)}
      PROVE  (c.key = St(d) => ReceiveAsked(d)) /\ (c.key = Rt(d) => ReturnAsked(d))
  <2>1. PICK q \in Procs : pc[q] # "idle" /\ c.key = job[q].key
    BY <1>3
  <2>2. todo[q] \subseteq Debits
    BY DEF ReceiptsInv, ReceiptsTypeOK
  <2>3. \/ rstage[q] = "receiving" /\ c.key = St(d) /\ d \in todo[q]
        \/ rstage[q] = "returning" /\ c.key = Rt(d) /\ d \in todo[q]
    BY <1>6, <2>1, <2>2 DEF ReceiptsInv, WorksFor
  <2> QED BY <2>3 DEF ReceiveAsked, ReturnAsked, At
<1>7. \A d \in Debits : (ReceiveAsked(d)' => ReceiveAsked(d)) /\ (ReturnAsked(d)' => ReturnAsked(d))
  BY <1>5, <1>6 DEF ReceiveAsked, ReturnAsked, Asked
<1> QED BY <1>1, <1>2, <1>4, <1>5, <1>7, NothingNew DEF recVars

(* The flag of a return: set in time, nobody has received the debit. *)
LEMMA FlagInv == ASSUME ReceiptsInv, NEW p \in Procs, FlagReturned(p) PROVE ReceiptsInv'
<1>1. /\ rstage[p] = "flag" /\ RTo(p, "type", todo[p]) /\ UNCHANGED bookVars /\ clock' = clock
      /\ tpflag \subseteq tpflag' /\ tpflag' \subseteq tpflag \cup todo[p]
      /\ late \subseteq late' /\ late' \subseteq late \cup todo[p]
      /\ \A d \in todo[p] : d \in late' \/ (d \in tpflag' /\ InTime(d))
  BY DEF FlagReturned
<1>2. todo[p] \subseteq Debits /\ clock \in 1..MaxClock /\ tpflag \subseteq Debits
      /\ late \subseteq Debits
  BY DEF ReceiptsInv, ReceiptsTypeOK
<1>3. ReceiptsTypeOK'
  BY <1>1, <1>2, RToType DEF ReceiptsInv, ReceiptStages
<1>4. /\ rstage'[p] = "type" /\ todo'[p] = todo[p]
      /\ \A q \in Procs \ {p} : rstage'[q] = rstage[q] /\ todo'[q] = todo[q]
  BY <1>1, RToEffect DEF ReceiptsInv
<1>5. WorksFor' /\ calls' = calls
  BY <1>1, <1>4, IdleAt, StillWorks
<1>6. IInv'
  BY <1>1, StepInv DEF ReceiptsInv
<1>7. \A d \in Debits : /\ At(d, {"select"})' => At(d, {"select"})
                        /\ ReceiveAsked(d)' => ReceiveAsked(d)
                        /\ ReturnAsked(d)' => ReturnAsked(d) \/ d \in todo[p]
  BY <1>1, <1>4, <1>5 DEF At, ReceiveAsked, ReturnAsked, Asked
<1>8. \A d \in Debits : InTime(d)' <=> InTime(d)
  BY <1>1 DEF InTime
<1>9. OneWay'
  <2> SUFFICES ASSUME NEW d \in Debits
               PROVE  /\ HeldBack(d) /\ (At(d, {"select"}) \/ ReceiveAsked(d))' => ~InTime(d)'
                      /\ ReturnAsked(d)' => d \in tpflag' \cup late'
                      /\ HeldBack(d) /\ ReceiveAsked(d)' /\ ReturnAsked(d)' => d \in late'
    BY DEF OneWay
  <2> QED BY <1>1, <1>7, <1>8 DEF ReceiptsInv, OneWay
<1> QED BY <1>3, <1>5, <1>6, <1>9 DEF ReceiptsInv

(* A round is taken in hand when its returns are no longer in time. *)
LEMMA RoundInv == ASSUME ReceiptsInv, NEW p \in Procs, NEW r, PF10_122(p, r) PROVE ReceiptsInv'
<1> DEFINE rows == {d \in Debits : RoundOf(d) = r}
<1>1. /\ rstage[p] = "idle" /\ MayReceiveAt(r, clock) /\ RTo(p, "select", rows)
      /\ UNCHANGED <<bookVars, clock, late>>
      /\ tpflag \subseteq tpflag' /\ tpflag' \subseteq tpflag \cup Debits
  BY DEF PF10_122
<1>2. clock \in 1..MaxClock /\ tpflag \subseteq Debits /\ late \subseteq Debits
  BY DEF ReceiptsInv, ReceiptsTypeOK
<1>3. ReceiptsTypeOK'
  BY <1>1, <1>2, RToType DEF ReceiptsInv, ReceiptStages
<1>4. /\ rstage'[p] = "select" /\ todo'[p] = rows
      /\ \A q \in Procs \ {p} : rstage'[q] = rstage[q] /\ todo'[q] = todo[q]
  BY <1>1, RToEffect DEF ReceiptsInv
<1>5. WorksFor' /\ calls' = calls
  BY <1>1, <1>4, IdleAt, StillWorks
<1>6. IInv'
  BY <1>1, StepInv DEF ReceiptsInv
<1>7. \A d \in Debits : /\ At(d, {"select"})' => At(d, {"select"}) \/ d \in rows
                        /\ ReceiveAsked(d)' => ReceiveAsked(d)
                        /\ ReturnAsked(d)' => ReturnAsked(d)
  BY <1>4, <1>5 DEF At, ReceiveAsked, ReturnAsked, Asked
<1>8. \A d \in Debits : InTime(d)' <=> InTime(d)
  BY <1>1 DEF InTime
<1>9. \A d \in rows : HeldBack(d) => ~InTime(d)
  BY <1>1, ReceivedLate DEF ReceiptsInv
<1> HIDE DEF rows
<1>10. OneWay'
  <2> SUFFICES ASSUME NEW d \in Debits
               PROVE  /\ HeldBack(d) /\ (At(d, {"select"}) \/ ReceiveAsked(d))' => ~InTime(d)'
                      /\ ReturnAsked(d)' => d \in tpflag' \cup late'
                      /\ HeldBack(d) /\ ReceiveAsked(d)' /\ ReturnAsked(d)' => d \in late'
    BY DEF OneWay
  <2> QED BY <1>1, <1>7, <1>8, <1>9 DEF ReceiptsInv, OneWay
<1> QED BY <1>3, <1>5, <1>6, <1>10 DEF ReceiptsInv

(* What is selected is not flagged: its return is late if it comes. *)
LEMMA SelectInv == ASSUME ReceiptsInv, NEW p \in Procs, SelectRows(p) PROVE ReceiptsInv'
<1> DEFINE rows == (todo[p] \cap checked) \ (stflag \cup tpflag)
<1>1. /\ rstage[p] = "select" /\ UNCHANGED <<bookVars, clock, tpflag, late>>
      /\ RTo(p, "receive", rows) \/ RTo(p, "idle", {})
  BY DEF SelectRows, Done
<1>2. clock \in 1..MaxClock /\ tpflag \subseteq Debits /\ late \subseteq Debits
      /\ todo[p] \subseteq Debits /\ rows \subseteq Debits
  BY DEF ReceiptsInv, ReceiptsTypeOK
<1>3. CASE RTo(p, "idle", {})
  BY <1>1, <1>3, IdleAt, AloneInv DEF ReceiptStages
<1>4. CASE RTo(p, "receive", rows)
  <2>1. ReceiptsTypeOK'
    BY <1>1, <1>2, <1>4, RToType DEF ReceiptsInv, ReceiptStages
  <2>2. /\ rstage'[p] = "receive" /\ todo'[p] = rows
        /\ \A q \in Procs \ {p} : rstage'[q] = rstage[q] /\ todo'[q] = todo[q]
    BY <1>4, RToEffect DEF ReceiptsInv
  <2>3. WorksFor' /\ calls' = calls
    BY <1>1, <2>2, IdleAt, StillWorks
  <2>4. IInv'
    BY <1>1, StepInv DEF ReceiptsInv
  <2>5. \A d \in Debits : /\ At(d, {"select"})' => At(d, {"select"})
                          /\ ReceiveAsked(d)' => ReceiveAsked(d) \/ d \in rows
                          /\ ReturnAsked(d)' => ReturnAsked(d)
    BY <2>2, <2>3 DEF At, ReceiveAsked, ReturnAsked, Asked
  <2>6. \A d \in rows : At(d, {"select"}) /\ d \notin tpflag
    BY <1>1 DEF At
  <2>7. \A d \in Debits : InTime(d)' <=> InTime(d)
    BY <1>1 DEF InTime
  <2> HIDE DEF rows
  <2>8. OneWay'
    <3> SUFFICES ASSUME NEW d \in Debits
                 PROVE  /\ HeldBack(d) /\ (At(d, {"select"}) \/ ReceiveAsked(d))' => ~InTime(d)'
                        /\ ReturnAsked(d)' => d \in tpflag' \cup late'
                        /\ HeldBack(d) /\ ReceiveAsked(d)' /\ ReturnAsked(d)' => d \in late'
      BY DEF OneWay
    <3> QED BY <1>1, <2>5, <2>6, <2>7 DEF ReceiptsInv, OneWay
  <2> QED BY <2>1, <2>3, <2>4, <2>8 DEF ReceiptsInv
<1> QED BY <1>1, <1>3, <1>4

LEMMA DieInv == ASSUME ReceiptsInv, NEW p \in Procs, ReceiptDie(p) PROVE ReceiptsInv'
<1>1. /\ RTo(p, "idle", {}) /\ clock' = clock /\ tpflag' = tpflag
      /\ late \subseteq late' /\ late' \subseteq late \cup todo[p]
      /\ Crash(p) \/ (pc[p] = "idle" /\ UNCHANGED bookVars)
  BY DEF ReceiptDie, Done
<1>2. late' \subseteq Debits
  BY <1>1 DEF ReceiptsInv, ReceiptsTypeOK
<1>3. \A q \in Procs \ {p} : rstage'[q] = rstage[q] /\ todo'[q] = todo[q]
  BY <1>1, RToEffect DEF ReceiptsInv
<1>4. [Next]_bookVars
  BY <1>1 DEF Next
<1>5. WorksFor' /\ calls' = calls
  <2>1. CASE Crash(p)
    <3>1. /\ pc'[p] = "idle" /\ calls' = calls
          /\ \A q \in Procs \ {p} : pc'[q] = pc[q] /\ job'[q] = job[q]
      BY <2>1, CrashEffect DEF ReceiptsInv, IInv
    <3> QED BY <1>3, <3>1 DEF ReceiptsInv, WorksFor
  <2> QED BY <1>1, <1>3, <2>1, StillWorks
<1> QED BY <1>1, <1>2, <1>4, <1>5, GoesOn DEF ReceiptStages

LEMMA ReceiptsStep == ReceiptsInv /\ [ReceiptsNext]_receiptVars => ReceiptsInv'
<1> SUFFICES ASSUME ReceiptsInv, [ReceiptsNext]_receiptVars PROVE ReceiptsInv'
  OBVIOUS
<1>0. ASSUME UNCHANGED <<bookVars, tpflag, late, rstage, todo>>, clock' \in clock..MaxClock
      PROVE  ReceiptsInv'
  <2>1. ReceiptsTypeOK' /\ WorksFor' /\ clock <= clock'
    BY <1>0 DEF ReceiptsInv, ReceiptsTypeOK, WorksFor, bookVars
  <2>2. \A d \in Debits : \A s : At(d, s)' <=> At(d, s)
    BY <1>0 DEF At
  <2>3. \A k : Asked(k)' <=> Asked(k)
    BY <1>0 DEF Asked, bookVars
  <2> QED BY <1>0, <2>1, <2>2, <2>3, NothingNew DEF ReceiveAsked, ReturnAsked
<1>1. clock \in 1..MaxClock /\ MaxClock \in Nat /\ \A p \in Procs : todo[p] \subseteq Debits
  BY ReceiptsAssumption DEF ReceiptsInv, ReceiptsTypeOK
<1>2. CASE Tick
  BY <1>0, <1>1, <1>2 DEF Tick
<1>3. CASE UNCHANGED receiptVars \/ \E d \in Debits : Reconcile(d)
  BY <1>0, <1>1, <1>3 DEF receiptVars, recVars, Reconcile
<1>4. ASSUME NEW p \in Procs, BookReturn(p) PROVE ReceiptsInv'
  <2>1. CASE Done(p) /\ UNCHANGED bookVars
    BY <1>4, <2>1, IdleAt, AloneInv DEF BookReturn, Done, ReceiptStages
  <2>2. ASSUME NEW d \in todo[p], AccountingStart(p, Rt(d)), RTo(p, "returning", todo[p])
        PROVE  ReceiptsInv'
    <3>1. Rt(d) \in Keys
      BY <1>1, ReceiptsAssumption
    <3> QED BY <1>4, <2>2, <3>1, HandsInv DEF BookReturn
  <2> QED BY <1>4, <2>1, <2>2 DEF BookReturn
<1>5. ASSUME NEW p \in Procs, Receive(p) PROVE ReceiptsInv'
  <2>1. CASE Done(p) /\ UNCHANGED bookVars
    BY <1>5, <2>1, IdleAt, AloneInv DEF Receive, Done, ReceiptStages
  <2>2. ASSUME NEW d \in todo[p], AccountingStart(p, St(d)), RTo(p, "receiving", todo[p])
        PROVE  ReceiptsInv'
    <3>1. St(d) \in Keys
      BY <1>1, ReceiptsAssumption
    <3> QED BY <1>5, <2>2, <3>1, HandsInv DEF Receive
  <2> QED BY <1>5, <2>1, <2>2 DEF Receive
<1>6. ASSUME NEW p \in Procs, ReturnBooked(p) PROVE ReceiptsInv'
  BY <1>6, AloneInv DEF ReturnBooked, EngineReturned, Done, ReceiptStages
<1>7. ASSUME NEW p \in Procs, Received(p) PROVE ReceiptsInv'
  BY <1>1, <1>7, AloneInv DEF Received, EngineReturned, ReceiptStages
<1>8. ASSUME NEW p \in Procs, NEW d \in Debits, ReturnArrives(p, d) PROVE ReceiptsInv'
  BY <1>8, IdleAt, AloneInv DEF ReturnArrives, ReceiptStages
<1> QED
  BY <1>2, <1>3, <1>4, <1>5, <1>6, <1>7, <1>8, EngineInv, FlagInv, RoundInv, SelectInv, DieInv
     DEF ReceiptsNext

(* An outbound debit is credited to the branch or returned, and once, for   *)
(* any number of requests at a time (PF10_122, TP_Process) -- unless its    *)
(* return was flagged late, a leg was booked over a closed row, or the      *)
(* dates let its round be received while its return may come.               *)
THEOREM DebitsEndOnce == ReceiptsSpec => []DebitEndsOnce
<1>1. Init /\ ReceiptsInit => ReceiptsInv
  BY InitInv, ReceiptsAssumption
     DEF Init, ReceiptsInit, ReceiptsInv, ReceiptsTypeOK, WorksFor, OneWay, At, Asked,
         ReceiveAsked, ReturnAsked
<1>2. ReceiptsInv => DebitEndsOnce
  <2> SUFFICES ASSUME ReceiptsInv, NEW d \in Debits, HeldBack(d), d \notin late,
                      St(d) \notin reopened, Rt(d) \notin reopened,
                      NEW a \in Posted(St(d)) \cup Posted(Rt(d)),
                      NEW b \in Posted(St(d)) \cup Posted(Rt(d))
               PROVE  a = b
    BY DEF DebitEndsOnce, EndsOnce
  <2>1. St(d) \in Keys \ reopened /\ Rt(d) \in Keys \ reopened
    BY ReceiptsAssumption
  <2>2. Posted(St(d)) # {} => ReceiveAsked(d)
    BY DEF Posted, ReceiveAsked, Asked
  <2>3. Posted(Rt(d)) # {} => ReturnAsked(d)
    BY DEF Posted, ReturnAsked, Asked
  <2>4. ~(ReceiveAsked(d) /\ ReturnAsked(d))
    BY DEF ReceiptsInv, OneWay
  <2>5. SinglePosting
    BY OnePosting DEF ReceiptsInv
  <2> QED BY <2>1, <2>2, <2>3, <2>4, <2>5 DEF SinglePosting
<1> QED BY <1>1, <1>2, ReceiptsStep, PTL DEF ReceiptsSpec

-----------------------------------------------------------------------------
(* Fees.                                                                    *)

Ways  == {"cash", "zz"}
Tasks == [way : Ways, batch : BOOLEAN, rows : SUBSET Trans, row : SUBSET Trans, date : Nat,
          ok : BOOLEAN, force : BOOLEAN]
FeeStages == {"idle", "rows", "fetch", "insert", "charge", "charging", "mark"}

FeesTypeOK ==
    /\ today \in 1..LastDay /\ lastFee \in Nat
    /\ feelist \in [Trans -> SUBSET {"due", "taken"}]
    /\ feeflag \subseteq Trans
    /\ charged \subseteq [tran : Trans, serial : Nat]
    /\ fstage \in [Procs -> FeeStages]
    /\ task \in [Procs -> Tasks]

Taken(t)     == "taken" \in feelist[t]
Accounted(t) == t \in Free \/ t.day \in skipped \/ Taken(t) \/ NotInCNY(t)
LegOf(k, t)  == \E w \in Ways, d \in 1..LastDay : k = Leg(w, d, t.ref)

(* What a process has in hand: one row at a time; a batch without an error  *)
(* has accounted for what it no longer has; the engine works on the row, and *)
(* returns 0 for a foreign currency only.                                   *)
TaskOK(p) ==
    /\ \A u, v \in task[p].row : u = v
    /\ fstage[p] = "rows" => task[p].batch /\ task[p].row = {}
    /\ fstage[p] = "mark" => \A t \in task[p].row : Taken(t)
    /\ task[p].batch /\ task[p].ok => \A t \in Trans : t.day <= task[p].date =>
          Accounted(t) \/ t \in task[p].rows \cup task[p].row
    /\ fstage[p] = "charging" => \E t \in task[p].row : LegOf(job[p].key, t)
    /\ fstage[p] = "charging" /\ ret[p] = "OK" => job[p].key \in Foreign
    /\ pc[p] # "idle" => /\ fstage[p] = "charging" /\ pc[p] \in AccPoints
                         /\ \E t \in task[p].row : [tran |-> t, serial |-> job[p].serial] \in charged

UpToLast == /\ \A t \in feeflag : Taken(t)
            /\ \A t \in Trans : t.day <= lastFee => Accounted(t)

(* A request charges the transaction its leg is of; what is said to be      *)
(* taken was.                                                               *)
Charges ==
    \A c \in calls : \E t \in Trans : LegOf(c.key, t) /\ [tran |-> t, serial |-> c.serial] \in charged
Shared(t) == \E u \in Trans \ {t} : u.ref = t.ref
TakenTrue == \A t \in Trans : Taken(t) /\ Feeless(t) => Blind(t) \/ Shared(t)

FeesInv == IInv /\ FeesTypeOK /\ (\A p \in Procs : TaskOK(p)) /\ UpToLast /\ Charges /\ TakenTrue

(* What is accounted for, taken, blind or charged stays so. *)
FeesGrow ==
    /\ \A t \in Trans : Taken(t) => Taken(t)'
    /\ skipped \subseteq skipped' /\ charged \subseteq charged'

(* What a process has in hand is kept by the steps of the others. *)
LEMMA TaskKept ==
    ASSUME NEW p \in Procs, TaskOK(p), FeesGrow, task[p].row \subseteq Trans,
           fstage'[p] = fstage[p], task'[p] = task[p], job'[p].key = job[p].key,
           ret'[p] = ret[p] \/ ret'[p] # "OK",
           pc'[p] # "idle" => /\ pc[p] # "idle" /\ pc'[p] \in AccPoints
                              /\ job'[p].serial = job[p].serial
    PROVE  TaskOK(p)'
<1>1. \A t \in Trans : Accounted(t) => Accounted(t)'
  BY DEF Accounted, FeesGrow, NotInCNY
<1>2. \A k, t : LegOf(k, t)' <=> LegOf(k, t)
  BY DEF LegOf
<1>3. /\ fstage'[p] = "charging" => \E t \in task'[p].row : LegOf(job'[p].key, t)
      /\ fstage'[p] = "charging" /\ ret'[p] = "OK" => job'[p].key \in Foreign
  BY DEF TaskOK
<1>4. /\ \A u, v \in task'[p].row : u = v
      /\ fstage'[p] = "rows" => task'[p].batch /\ task'[p].row = {}
      /\ fstage'[p] = "mark" => \A t \in task'[p].row : Taken(t)'
      /\ task'[p].batch /\ task'[p].ok => \A t \in Trans : t.day <= task'[p].date =>
            Accounted(t)' \/ t \in task'[p].rows \cup task'[p].row
  BY <1>1 DEF TaskOK, FeesGrow
<1>5. pc'[p] # "idle" =>
         /\ fstage'[p] = "charging" /\ pc'[p] \in AccPoints
         /\ \E t \in task'[p].row : [tran |-> t, serial |-> job'[p].serial] \in charged'
  BY DEF TaskOK, FeesGrow
<1> QED BY <1>2, <1>3, <1>4, <1>5 DEF TaskOK

(* What the core system took, and what is blind, stays. *)
LEMMA FeelessKept ==
    ASSUME [Next]_bookVars, charged \subseteq charged', NEW t
    PROVE  (Feeless(t)' => Feeless(t)) /\ (Blind(t) => Blind(t)')
BY HistoryGrows DEF Feeless, Took, Answer, Blind

(* A step of one process. *)
LEMMA FeeMoves ==
    ASSUME FeesInv, NEW p \in Procs, [Next]_bookVars, FeesTypeOK', FeesGrow, TaskOK(p)',
           \A q \in Procs \ {p} : /\ fstage'[q] = fstage[q] /\ task'[q] = task[q]
                                  /\ pc'[q] = pc[q] /\ job'[q] = job[q] /\ ret'[q] = ret[q],
           calls' = calls, UpToLast',
           \A t \in Trans : Taken(t)' /\ ~Taken(t) /\ Feeless(t)' => Blind(t)' \/ Shared(t)
    PROVE  FeesInv'
<1>1. IInv'
  BY StepInv DEF FeesInv
<1>2. \A q \in Procs : task[q].row \subseteq Trans
  BY DEF FeesInv, FeesTypeOK, Tasks
<1>3. ASSUME NEW q \in Procs PROVE TaskOK(q)'
  <2>1. CASE q # p
    <3>1. TaskOK(q)
      BY DEF FeesInv
    <3>2. pc[q] # "idle" => pc[q] \in AccPoints
      BY <3>1 DEF TaskOK
    <3> QED BY <1>2, <2>1, <3>1, <3>2, TaskKept
  <2> QED BY <2>1
<1>4. Charges'
  BY DEF FeesInv, Charges, FeesGrow, LegOf
<1>5. TakenTrue'
  <2>1. \A t \in Trans : (Feeless(t)' => Feeless(t)) /\ (Blind(t) => Blind(t)')
    BY FeelessKept DEF FeesGrow
  <2>2. \A t \in Trans : Shared(t)' <=> Shared(t)
    BY DEF Shared
  <2> QED BY <2>1, <2>2 DEF FeesInv, TakenTrue
<1> QED BY <1>1, <1>3, <1>4, <1>5 DEF FeesInv

LEMMA UpToLastKept ==
    ASSUME UpToLast, FeesGrow, lastFee' = lastFee,
           feeflag \subseteq Trans, \A t \in feeflag' : t \in feeflag \/ Taken(t)'
    PROVE  UpToLast'
BY DEF UpToLast, FeesGrow, Accounted, NotInCNY

(* A process goes to another point with another task, the engine at rest.   *)
LEMMA FeeGoes ==
    ASSUME FeesInv, NEW p \in Procs, NEW s \in FeeStages, NEW o \in Tasks,
           fstage' = [fstage EXCEPT ![p] = s], task' = [task EXCEPT ![p] = o],
           UNCHANGED <<bookVars, charged>>, pc[p] = "idle",
           today' = today, FeesGrow, UpToLast',
           lastFee' \in Nat, feeflag' \subseteq Trans,
           feelist' \in [Trans -> SUBSET {"due", "taken"}],
           \A t \in Trans : Taken(t)' /\ ~Taken(t) /\ Feeless(t)' => Blind(t)' \/ Shared(t),
           s # "charging",
           \A u, v \in o.row : u = v,
           s = "rows" => o.batch /\ o.row = {},
           s = "mark" => \A t \in o.row : Taken(t)',
           o.batch /\ o.ok => \A t \in Trans : t.day <= o.date =>
               Accounted(t)' \/ t \in o.rows \cup o.row
    PROVE  FeesInv'
<1>1. FeesTypeOK'
  BY DEF FeesInv, FeesTypeOK
<1>2. /\ fstage'[p] = s /\ task'[p] = o
      /\ \A q \in Procs \ {p} : fstage'[q] = fstage[q] /\ task'[q] = task[q]
  BY DEF FeesInv, FeesTypeOK
<1>3. calls' = calls /\ pc' = pc /\ job' = job /\ ret' = ret /\ [Next]_bookVars
  BY DEF bookVars
<1>4. TaskOK(p)'
  BY <1>2, <1>3 DEF TaskOK
<1> QED BY <1>1, <1>2, <1>3, <1>4, FeeMoves

LEMMA FEndIs ==
    ASSUME FeesInv, NEW p \in Procs, FEnd(p)
    PROVE  /\ fstage' = [fstage EXCEPT ![p] = "idle"] /\ task' = [task EXCEPT ![p] = NoTask]
           /\ NoTask \in Tasks /\ NoTask.row = {} /\ ~NoTask.batch /\ "idle" \in FeeStages
BY DEF FEnd, FTo, FSet, NoTask, Tasks, Ways, FeeStages

(* The end of fetchFee, good or bad. *)
LEMMA FetchedInv ==
    ASSUME FeesInv, NEW p \in Procs, NEW t \in task[p].row, NEW good \in BOOLEAN,
           Fetched(p, good), good => Accounted(t), UNCHANGED <<bookVars, charged, today, lastFee, feelist, skipped>>,
           pc[p] = "idle", feeflag' \subseteq Trans,
           \A u \in feeflag' : u \in feeflag \/ Taken(u)
    PROVE  FeesInv'
<1> DEFINE me == task[p]
           o  == [me EXCEPT !.row = {}, !.ok = me.ok /\ good]
<1>1. FeesGrow /\ (\A u \in Trans : Taken(u)' <=> Taken(u))
  BY DEF FeesGrow, Taken
<1>2. UpToLast'
  BY <1>1, UpToLastKept DEF FeesInv, FeesTypeOK, Taken
<1>3. lastFee' \in Nat /\ feelist' \in [Trans -> SUBSET {"due", "taken"}] /\ me \in Tasks
  BY DEF FeesInv, FeesTypeOK
<1>4. CASE ~me.batch
  <2>1. FEnd(p)
    BY <1>4 DEF Fetched
  <2> QED BY <1>1, <1>2, <1>3, <2>1, FEndIs, FeeGoes
<1>5. CASE me.batch
  <2>1. fstage' = [fstage EXCEPT ![p] = "rows"] /\ task' = [task EXCEPT ![p] = o]
    BY <1>5 DEF Fetched, FTo, FSet
  <2>2. /\ o \in Tasks /\ o.row = {} /\ o.rows = me.rows /\ o.date = me.date
        /\ o.batch = me.batch /\ (o.ok => me.ok /\ good)
    <3> HIDE DEF me
    <3> QED BY <1>3 DEF Tasks
  <2>3. /\ \A u, v \in me.row : u = v
        /\ me.ok => \A u \in Trans : u.day <= me.date => Accounted(u) \/ u \in me.rows \cup me.row
    BY <1>5 DEF FeesInv, TaskOK
  <2>4. \A u \in Trans : Accounted(u)' <=> Accounted(u)
    BY <1>1 DEF Accounted, NotInCNY
  <2> HIDE DEF o
  <2>5. o.ok => \A u \in Trans : u.day <= o.date => Accounted(u)' \/ u \in o.rows \cup o.row
    BY <2>2, <2>3, <2>4 DEF Accounted
  <2>6. "rows" \in FeeStages
    BY DEF FeeStages
  <2> QED BY <1>1, <1>2, <1>3, <1>5, <2>1, <2>2, <2>5, <2>6, FeeGoes
<1> QED BY <1>4, <1>5

(* A request at the counter, and a batch: what it is not to fetch is        *)
(* accounted for.                                                           *)
LEMMA SingleInv ==
    ASSUME FeesInv, NEW p \in Procs, NEW t \in Trans, NEW w \in Ways, PF10_152(p, t, w)
    PROVE  FeesInv'
<1> DEFINE o == [NoTask EXCEPT !.way = w, !.row = {t}]
<1>1. /\ fstage[p] = "idle" /\ UNCHANGED <<bookVars, charged, today, lastFee, feelist, feeflag, skipped>>
      /\ FEnd(p) \/ (FTo(p, "fetch") /\ FSet(p, o))
  BY DEF PF10_152, FRest
<1>2. pc[p] = "idle"
  BY <1>1 DEF FeesInv, TaskOK
<1>3. FeesGrow /\ (\A u \in Trans : Taken(u)' <=> Taken(u))
  BY <1>1 DEF FeesGrow, Taken
<1>4. UpToLast'
  BY <1>1, <1>3, UpToLastKept DEF FeesInv, FeesTypeOK
<1>5. lastFee' \in Nat /\ feelist' \in [Trans -> SUBSET {"due", "taken"}] /\ feeflag' \subseteq Trans
  BY <1>1 DEF FeesInv, FeesTypeOK
<1>6. o \in Tasks /\ o.row = {t} /\ ~o.batch
  BY DEF NoTask, Tasks, Ways
<1> HIDE DEF o
<1>7. CASE FEnd(p)
  BY <1>1, <1>2, <1>3, <1>4, <1>5, <1>7, FEndIs, FeeGoes
<1>8. CASE FTo(p, "fetch") /\ FSet(p, o)
  BY <1>1, <1>2, <1>3, <1>4, <1>5, <1>6, <1>8, FeeGoes DEF FTo, FSet, FeeStages
<1> QED BY <1>1, <1>7, <1>8

LEMMA BatchInv ==
    ASSUME FeesInv, NEW p \in Procs, NEW date \in 1..LastDay, NEW force \in BOOLEAN,
           PF10_153(p, date, force)
    PROVE  FeesInv'
<1> DEFINE due == {t \in Trans : t \notin feeflag /\ t.day \in lastFee..date}
           b == [NoTask EXCEPT !.batch = TRUE, !.date = date, !.force = force]
           o == [b EXCEPT !.rows = due]
<1>1. /\ fstage[p] = "idle" /\ date > lastFee
      /\ UNCHANGED <<bookVars, charged, today, lastFee, feelist, feeflag>>
      /\ fstage' = [fstage EXCEPT ![p] = "rows"]
      /\ \/ task' = [task EXCEPT ![p] = o] /\ skipped' = skipped
         \/ task' = [task EXCEPT ![p] = b] /\ skipped' = skipped \cup 0..date
  BY DEF PF10_153, FRest, FTo, FSet
<1>2. pc[p] = "idle"
  BY <1>1 DEF FeesInv, TaskOK
<1>3. FeesGrow /\ (\A u \in Trans : Taken(u)' <=> Taken(u))
  BY <1>1 DEF FeesGrow, Taken
<1>4. UpToLast'
  BY <1>1, <1>3, UpToLastKept DEF FeesInv, FeesTypeOK
<1>5. /\ lastFee' \in Nat /\ feelist' \in [Trans -> SUBSET {"due", "taken"}] /\ feeflag' \subseteq Trans
      /\ lastFee \in Nat
  BY <1>1 DEF FeesInv, FeesTypeOK
<1>6. /\ b \in Tasks /\ b.row = {} /\ b.rows = {} /\ b.date = date /\ b.batch
      /\ o \in Tasks /\ o.row = {} /\ o.rows = due /\ o.date = date /\ o.batch
  <2>1. due \subseteq Trans /\ date \in Nat
    BY FeesAssumption
  <2> HIDE DEF due
  <2> QED BY <2>1 DEF NoTask, Tasks, Ways
<1>7. CASE skipped' = skipped \cup 0..date /\ task' = [task EXCEPT ![p] = b]
  <2>1. \A t \in Trans : t.day <= date => Accounted(t)'
    BY <1>7, FeesAssumption DEF Accounted
  <2> HIDE DEF b
  <2> QED BY <1>1, <1>2, <1>3, <1>4, <1>5, <1>6, <1>7, <2>1, FeeGoes DEF FeeStages
<1>8. CASE skipped' = skipped /\ task' = [task EXCEPT ![p] = o]
  <2>1. ASSUME NEW t \in Trans, t.day <= date PROVE Accounted(t)' \/ t \in due
    <3>1. CASE t \in feeflag
      BY <1>3, <3>1 DEF FeesInv, UpToLast, Accounted
    <3>2. CASE t \notin feeflag /\ t.day <= lastFee
      BY <1>3, <1>8, <3>2 DEF FeesInv, UpToLast, Accounted
    <3>3. CASE t \notin feeflag /\ ~(t.day <= lastFee)
      BY <1>5, <2>1, <3>3, FeesAssumption
    <3> QED BY <3>1, <3>2, <3>3
  <2> HIDE DEF o, b, due
  <2> QED BY <1>1, <1>2, <1>3, <1>4, <1>5, <1>6, <1>8, <2>1, FeeGoes DEF FeeStages
<1> HIDE DEF o, b, due
<1> QED BY <1>1, <1>7, <1>8

(* The next row of a batch. *)
LEMMA NextRowInv == ASSUME FeesInv, NEW p \in Procs, NEW t \in Trans, NextRow(p, t) PROVE FeesInv'
<1> DEFINE me == task[p]
           r == [me EXCEPT !.rows = me.rows \ {t}]
           o == [r EXCEPT !.row = {t}]
<1>1. /\ fstage[p] = "rows"
      /\ UNCHANGED <<bookVars, charged, today, lastFee, feelist, feeflag, skipped>>
      /\ \/ FEnd(p)
         \/ t \in Free /\ FTo(p, "rows") /\ FSet(p, r)
         \/ FTo(p, "fetch") /\ FSet(p, o)
  BY DEF NextRow, FRest
<1>2. pc[p] = "idle" /\ me.row = {} /\ me \in Tasks /\ me.batch
  BY <1>1 DEF FeesInv, TaskOK, FeesTypeOK
<1>3. FeesGrow /\ (\A u \in Trans : Taken(u)' <=> Taken(u))
  BY <1>1 DEF FeesGrow, Taken
<1>4. UpToLast'
  BY <1>1, <1>3, UpToLastKept DEF FeesInv, FeesTypeOK
<1>5. lastFee' \in Nat /\ feelist' \in [Trans -> SUBSET {"due", "taken"}] /\ feeflag' \subseteq Trans
  BY <1>1 DEF FeesInv, FeesTypeOK
<1>6. /\ r \in Tasks /\ r.row = {} /\ r.rows = me.rows \ {t} /\ r.date = me.date
      /\ r.ok = me.ok /\ r.batch = me.batch
  <2> HIDE DEF me
  <2> QED BY <1>2 DEF Tasks
<1>7. /\ o \in Tasks /\ o.row = {t} /\ o.rows = me.rows \ {t} /\ o.date = me.date
      /\ o.ok = me.ok /\ o.batch = me.batch
  <2> HIDE DEF me, r
  <2> QED BY <1>2, <1>6 DEF Tasks
<1>8. me.batch /\ me.ok => \A u \in Trans : u.day <= me.date => Accounted(u)' \/ u \in me.rows
  BY <1>1, <1>2, <1>3 DEF FeesInv, TaskOK, Accounted
<1> HIDE DEF o, r, me
<1>9. CASE FEnd(p)
  BY <1>1, <1>2, <1>3, <1>4, <1>5, <1>9, FEndIs, FeeGoes
<1>10. CASE t \in Free /\ FTo(p, "rows") /\ FSet(p, r)
  <2>1. Accounted(t)'
    BY <1>10 DEF Accounted
  <2>2. r.batch /\ r.ok => \A u \in Trans : u.day <= r.date => Accounted(u)' \/ u \in r.rows \cup r.row
    BY <1>6, <1>8, <2>1
  <2>3. "rows" \in FeeStages
    BY DEF FeeStages
  <2> QED BY <1>1, <1>2, <1>3, <1>4, <1>5, <1>6, <1>10, <2>2, <2>3, FeeGoes DEF FTo, FSet
<1>11. CASE FTo(p, "fetch") /\ FSet(p, o)
  <2>1. o.batch /\ o.ok => \A u \in Trans : u.day <= o.date => Accounted(u)' \/ u \in o.rows \cup o.row
    BY <1>7, <1>8
  <2>2. "fetch" \in FeeStages
    BY DEF FeeStages
  <2> QED BY <1>1, <1>2, <1>3, <1>4, <1>5, <1>7, <1>11, <2>1, <2>2, FeeGoes DEF FTo, FSet
<1> QED BY <1>1, <1>9, <1>10, <1>11

(* LASTFEEDATE advances over what is accounted for. *)
LEMMA CloseInv == ASSUME FeesInv, NEW p \in Procs, CloseBatch(p) PROVE FeesInv'
<1> DEFINE me == task[p]
<1>1. /\ fstage[p] = "rows" /\ me.rows = {} /\ FEnd(p)
      /\ UNCHANGED <<bookVars, charged, today, feelist, feeflag>>
      /\ \/ UNCHANGED <<lastFee, skipped>>
         \/ /\ me.ok \/ me.force
            /\ lastFee' = me.date
            /\ skipped' = IF me.ok THEN skipped ELSE skipped \cup 0..me.date
  BY DEF CloseBatch, FRest
<1>2. pc[p] = "idle" /\ me.row = {} /\ me.date \in Nat
  BY <1>1 DEF FeesInv, TaskOK, FeesTypeOK, Tasks
<1>3. FeesGrow /\ (\A u \in Trans : Taken(u)' <=> Taken(u))
  BY <1>1 DEF FeesGrow, Taken
<1>4. lastFee' \in Nat /\ feelist' \in [Trans -> SUBSET {"due", "taken"}] /\ feeflag' \subseteq Trans
  BY <1>1, <1>2 DEF FeesInv, FeesTypeOK
<1>5. UpToLast'
  <2> SUFFICES \A t \in Trans : t.day <= lastFee' => Accounted(t)'
    <3>1. \A t \in feeflag : Taken(t)' /\ t \in Trans
      BY <1>3 DEF FeesInv, FeesTypeOK, UpToLast
    <3>2. feeflag' = feeflag
      BY <1>1
    <3> QED BY <3>1, <3>2 DEF UpToLast
  <2>1. CASE lastFee' = lastFee
    BY <1>3, <2>1 DEF FeesInv, UpToLast, FeesGrow, Accounted
  <2>2. CASE me.batch /\ me.ok /\ lastFee' = me.date
    BY <1>1, <1>2, <1>3, <2>2 DEF FeesInv, TaskOK, Accounted, FeesGrow
  <2>3. CASE ~me.ok /\ lastFee' = me.date /\ skipped' = skipped \cup 0..me.date
    BY <2>3, FeesAssumption DEF Accounted
  <2>4. me.batch
    BY <1>1 DEF FeesInv, TaskOK
  <2> QED BY <1>1, <2>1, <2>2, <2>3, <2>4
<1> HIDE DEF me
<1> QED BY <1>1, <1>2, <1>3, <1>4, <1>5, FEndIs, FeeGoes

(* fetchFee.  A step from one of its points to another, before the fee is   *)
(* booked. *)
LEMMA FetchStepInv ==
    ASSUME FeesInv, NEW p \in Procs, NEW t \in task[p].row, NEW s \in {"insert", "charge", "mark"},
           fstage' = [fstage EXCEPT ![p] = s], task' = task, pc[p] = "idle",
           UNCHANGED <<bookVars, charged, today, lastFee, feeflag, skipped>>, FeesGrow,
           feelist' \in [Trans -> SUBSET {"due", "taken"}], s = "mark" => Taken(t)',
           \A u \in Trans : Taken(u)' /\ ~Taken(u) /\ Feeless(u)' => Blind(u)' \/ Shared(u)
    PROVE  FeesInv'
<1>1. task[p] \in Tasks /\ task' = [task EXCEPT ![p] = task[p]] /\ s \in FeeStages
  BY DEF FeesInv, FeesTypeOK, FeeStages
<1>2. UpToLast' /\ lastFee' \in Nat /\ feeflag' \subseteq Trans
  BY UpToLastKept DEF FeesInv, FeesTypeOK, UpToLast, FeesGrow
<1>3. /\ \A u, v \in task[p].row : u = v
      /\ task[p].batch /\ task[p].ok => \A u \in Trans : u.day <= task[p].date =>
            Accounted(u)' \/ u \in task[p].rows \cup task[p].row
  BY DEF FeesInv, TaskOK, Accounted, FeesGrow
<1>4. s = "mark" => \A u \in task[p].row : Taken(u)'
  BY <1>3
<1> QED BY <1>1, <1>2, <1>3, <1>4, FeeGoes

LEMMA QueryInv ==
    ASSUME FeesInv, NEW p \in Procs, NEW t \in Trans, FetchQuery(p, t) \/ FetchInsert(p, t)
    PROVE  FeesInv'
<1>1. /\ t \in task[p].row /\ fstage[p] \in {"fetch", "insert"}
      /\ UNCHANGED <<bookVars, charged, today, lastFee, feeflag, skipped>>
  BY DEF FetchQuery, FetchInsert, Fetching, FRest
<1>2. pc[p] = "idle" /\ feeflag' \subseteq Trans
  BY <1>1 DEF FeesInv, TaskOK, FeesTypeOK
<1>3. CASE Fetched(p, FALSE) /\ feelist' = feelist
  BY <1>1, <1>2, <1>3, FetchedInv
<1>4. CASE feelist' = feelist /\ \E s \in {"insert", "charge"} : FTo(p, s) /\ UNCHANGED task
  <2>1. FeesGrow /\ \A u \in Trans : Taken(u)' <=> Taken(u)
    BY <1>1, <1>4 DEF FeesGrow, Taken
  <2>2. feelist' \in [Trans -> SUBSET {"due", "taken"}]
    BY <1>4 DEF FeesInv, FeesTypeOK
  <2> QED BY <1>1, <1>2, <1>4, <2>1, <2>2, FetchStepInv DEF FTo
<1>5. CASE feelist' = feelist /\ "taken" \in feelist[t] /\ FTo(p, "mark") /\ UNCHANGED task
  <2>1. FeesGrow /\ Taken(t)' /\ \A u \in Trans : Taken(u)' <=> Taken(u)
    BY <1>1, <1>5 DEF FeesGrow, Taken
  <2>2. feelist' \in [Trans -> SUBSET {"due", "taken"}]
    BY <1>5 DEF FeesInv, FeesTypeOK
  <2> QED BY <1>1, <1>2, <1>5, <2>1, <2>2, FetchStepInv DEF FTo
<1>6. CASE /\ feelist' = [feelist EXCEPT ![t] = @ \cup {"due"}]
           /\ FTo(p, "charge") /\ UNCHANGED task
  <2>1. feelist \in [Trans -> SUBSET {"due", "taken"}]
    BY DEF FeesInv, FeesTypeOK
  <2>2. \A u \in Trans : Taken(u)' <=> Taken(u)
    BY <1>6, <2>1 DEF Taken
  <2>3. FeesGrow
    BY <1>1, <2>2 DEF FeesGrow
  <2>4. feelist' \in [Trans -> SUBSET {"due", "taken"}]
    BY <1>6, <2>1
  <2> QED BY <1>1, <1>2, <1>6, <2>2, <2>3, <2>4, FetchStepInv DEF FTo
<1> QED BY <1>3, <1>4, <1>5, <1>6 DEF FetchQuery, FetchInsert

(* The transaction is noted with the serial of the request. *)
LEMMA ChargeInv == ASSUME FeesInv, NEW p \in Procs, NEW t \in Trans, FetchCharge(p, t) PROVE FeesInv'
<1> DEFINE k == Leg(task[p].way, today, t.ref)
           new == {[tran |-> t, serial |-> s] : s \in {serial'} \ {serial}}
<1>1. /\ t \in task[p].row /\ AccountingStart(p, k) /\ charged' = charged \cup new
      /\ fstage' = [fstage EXCEPT ![p] = "charging"]
      /\ UNCHANGED <<today, lastFee, feelist, feeflag, task, skipped>>
  BY DEF FetchCharge, Fetching, FRest, FTo
<1>2. task[p] \in Tasks /\ today \in 1..LastDay /\ LegOf(k, t) /\ k \in Keys
  <2>1. task[p] \in Tasks /\ today \in 1..LastDay
    BY DEF FeesInv, FeesTypeOK
  <2>2. task[p].way \in Ways
    BY <2>1 DEF Tasks
  <2> QED BY <2>1, <2>2, FeesAssumption DEF LegOf, Ways
<1> HIDE DEF k
<1>3. /\ job'[p].key = k /\ calls' = calls
      /\ pc'[p] = "idle" \/ (pc'[p] = "query" /\ job'[p].serial = serial')
      /\ \A q \in Procs \ {p} : pc'[q] = pc[q] /\ job'[q] = job[q] /\ ret'[q] = ret[q]
  BY <1>1, <1>2, StartEffect DEF FeesInv, IInv
<1>4. [Next]_bookVars /\ serial \in Nat /\ serial' \in Nat
  BY <1>1, <1>2 DEF Next, FeesInv, IInv, TypeOK, AccountingStart
<1>5. (pc'[p] # "idle" => serial' # serial) /\ (ret'[p] = "OK" => k \in Foreign)
  <2>1. CASE k \in Foreign /\ End(p, k, "OK")
    BY <1>2, <2>1, EndEffect DEF FeesInv, IInv
  <2>2. CASE serial' = serial + 1 /\ Begin(p, "query", Job(k, serial + 1, 0))
    BY <1>4, <2>2, BeginEffect DEF FeesInv, IInv
  <2> QED BY <1>1, <2>1, <2>2 DEF AccountingStart
<1>6. charged' \subseteq [tran : Trans, serial : Nat]
  BY <1>1, <1>4 DEF FeesInv, FeesTypeOK
<1>7. FeesGrow /\ \A u \in Trans : Taken(u)' <=> Taken(u)
  BY <1>1 DEF FeesGrow, Taken
<1>8. FeesTypeOK'
  BY <1>1, <1>6 DEF FeesInv, FeesTypeOK, FeeStages
<1>9. fstage'[p] = "charging" /\ \A q \in Procs \ {p} : fstage'[q] = fstage[q] /\ task'[q] = task[q]
  BY <1>1 DEF FeesInv, FeesTypeOK
<1>10. TaskOK(p)'
  <2>1. pc'[p] # "idle" => pc'[p] \in AccPoints /\ [tran |-> t, serial |-> job'[p].serial] \in charged'
    BY <1>1, <1>3, <1>5 DEF AccPoints
  <2>2. /\ \A u, v \in task[p].row : u = v
        /\ task[p].batch /\ task[p].ok => \A u \in Trans : u.day <= task[p].date =>
              Accounted(u)' \/ u \in task[p].rows \cup task[p].row
    BY <1>1, <1>7 DEF FeesInv, TaskOK, Accounted, NotInCNY
  <2>3. LegOf(job'[p].key, t) /\ (ret'[p] = "OK" => job'[p].key \in Foreign) /\ \A k2, u : LegOf(k2, u)' <=> LegOf(k2, u)
    BY <1>2, <1>3, <1>5 DEF LegOf
  <2>4. task'[p] = task[p] /\ t \in task[p].row
    BY <1>1
  <2>5. fstage'[p] = "charging" => \E u \in task'[p].row : LegOf(job'[p].key, u)
    BY <2>3, <2>4
  <2>6. pc'[p] # "idle" => \E u \in task'[p].row : [tran |-> u, serial |-> job'[p].serial] \in charged'
    BY <2>1, <2>4
  <2> QED BY <1>9, <2>1, <2>2, <2>3, <2>4, <2>5, <2>6 DEF TaskOK
<1>11. UpToLast'
  BY <1>1, <1>7, UpToLastKept DEF FeesInv, FeesTypeOK
<1> QED BY <1>3, <1>4, <1>7, <1>8, <1>9, <1>10, <1>11, FeeMoves

(* A fee is taken when the engine says so: the core system took it for this *)
(* transaction, or one with the same refid, or the row is blind.            *)
LEMMA ChargedInv == ASSUME FeesInv, NEW p \in Procs, NEW t \in Trans, FetchCharged(p, t) PROVE FeesInv'
<1>1. /\ t \in task[p].row /\ fstage[p] = "charging" /\ pc[p] = "idle"
      /\ UNCHANGED <<bookVars, charged, today, lastFee, feeflag, skipped>>
      /\ \/ \E good \in BOOLEAN :
               Fetched(p, good) /\ (good => ret[p] = "OK") /\ feelist' = feelist
         \/ /\ ret[p] = "SUCC" /\ feelist' = [feelist EXCEPT ![t] = {"taken"}]
            /\ fstage' = [fstage EXCEPT ![p] = "mark"] /\ task' = task
  BY DEF FetchCharged, Fetching, FReturned, FRest, FTo
<1>2. ASSUME NEW good \in BOOLEAN, Fetched(p, good), good => ret[p] = "OK", feelist' = feelist
      PROVE  FeesInv'
  <2>1. feeflag' \subseteq Trans
    BY <1>1 DEF FeesInv, FeesTypeOK
  <2>2. good => Accounted(t)
    <3>1. \A u \in task[p].row : u = t
      BY <1>1 DEF FeesInv, TaskOK
    <3>2. LegOf(job[p].key, t) /\ (ret[p] = "OK" => job[p].key \in Foreign)
      BY <1>1, <3>1 DEF FeesInv, TaskOK
    <3> QED BY <1>2, <3>2 DEF LegOf, NotInCNY, Accounted, Ways
  <2> QED BY <1>1, <1>2, <2>1, <2>2, FetchedInv
<1>3. CASE /\ ret[p] = "SUCC" /\ feelist' = [feelist EXCEPT ![t] = {"taken"}]
           /\ fstage' = [fstage EXCEPT ![p] = "mark"] /\ task' = task
  <2>1. feelist \in [Trans -> SUBSET {"due", "taken"}]
    BY DEF FeesInv, FeesTypeOK
  <2>2. Taken(t)' /\ \A u \in Trans \ {t} : Taken(u)' <=> Taken(u)
    BY <1>3, <2>1 DEF Taken
  <2>3. FeesGrow
    BY <1>1, <2>2 DEF FeesGrow
  <2>4. feelist' \in [Trans -> SUBSET {"due", "taken"}]
    BY <1>3, <2>1
  <2>5. Feeless(t) => Blind(t) \/ Shared(t)
    <3>1. PICK w \in Ways, d \in 1..LastDay : job[p].key = Leg(w, d, t.ref)
      BY <1>1 DEF FeesInv, TaskOK, LegOf
    <3> DEFINE k == job[p].key
    <3>2. k \in Keys
      BY <3>1, FeesAssumption DEF Ways
    <3>3. CASE k \in blind
      BY <3>1, <3>3 DEF Blind, Ways
    <3>4. CASE k \notin blind
      <4>1. PICK c \in Posted(k) : TRUE
        BY <1>3, <3>2, <3>4 DEF FeesInv, IInv, BookedWasPosted
      <4>2. c \in calls /\ c.key = k /\ Took(c.serial)
        BY <4>1 DEF Posted
      <4>3. PICK u \in Trans : LegOf(c.key, u) /\ [tran |-> u, serial |-> c.serial] \in charged
        BY <4>2 DEF FeesInv, Charges
      <4>4. u.ref = t.ref
        BY <3>1, <4>2, <4>3, FeesAssumption DEF LegOf, Ways
      <4>5. u = t => ~Feeless(t)
        BY <4>2, <4>3 DEF Feeless
      <4> QED BY <4>4, <4>5 DEF Shared
    <3> QED BY <3>3, <3>4
  <2>6. (Feeless(t)' => Feeless(t)) /\ (Blind(t) => Blind(t)')
    BY <1>1, FeelessKept
  <2> QED BY <1>1, <1>3, <2>2, <2>3, <2>4, <2>5, <2>6, FetchStepInv
<1> QED BY <1>1, <1>2, <1>3

LEMMA MarkInv == ASSUME FeesInv, NEW p \in Procs, NEW t \in Trans, FetchMark(p, t) PROVE FeesInv'
<1>1. /\ t \in task[p].row /\ fstage[p] = "mark" /\ Fetched(p, TRUE)
      /\ UNCHANGED <<bookVars, charged, today, lastFee, feelist, skipped>>
      /\ feeflag' = feeflag \cup {t} \/ feeflag' = feeflag
  BY DEF FetchMark, Fetching, FRest
<1>2. pc[p] = "idle" /\ Taken(t) /\ Accounted(t) /\ feeflag \subseteq Trans
  BY <1>1 DEF FeesInv, TaskOK, FeesTypeOK, Accounted
<1> QED BY <1>1, <1>2, FetchedInv

(* The engine asks for the fee of the transaction it was handed. *)
LEMMA FeeEngineInv == ASSUME FeesInv, FeeEngine PROVE FeesInv'
<1>1. EngineWorks /\ UNCHANGED feeVars
  BY DEF FeeEngine, EngineWorks
<1>2. [Next]_bookVars /\ IInv'
  BY <1>1, WorksIsNext, StepInv DEF FeesInv
<1>3. /\ \A q \in Procs : /\ job'[q].key = job[q].key
                          /\ pc[q] = "idle" => pc'[q] = "idle"
                          /\ pc[q] \in AccPoints => pc'[q] = "idle" \/
                                (pc'[q] \in AccPoints /\ job'[q].serial = job[q].serial)
                          /\ pc[q] = "idle" \/ pc[q] \in AccPoints =>
                                ret'[q] = ret[q] \/ ret'[q] # "OK"
      /\ \A c \in calls' \ calls : \E q \in Procs :
            pc[q] # "idle" /\ c.key = job[q].key /\ c.serial = job[q].serial
  BY <1>1, EngineEffect DEF FeesInv, IInv
<1>4. FeesTypeOK' /\ UpToLast' /\ FeesGrow
  BY <1>1 DEF feeVars, FeesInv, FeesTypeOK, UpToLast, Accounted, Taken, FeesGrow, NotInCNY
<1>5. ASSUME NEW q \in Procs PROVE TaskOK(q)'
  <2>1. task[q].row \subseteq Trans /\ TaskOK(q)
    BY DEF FeesInv, FeesTypeOK, Tasks
  <2>2. fstage'[q] = fstage[q] /\ task'[q] = task[q]
    BY <1>1 DEF feeVars
  <2>3. pc[q] # "idle" => pc[q] \in AccPoints
    BY <2>1 DEF TaskOK
  <2> QED BY <1>3, <1>4, <2>1, <2>2, <2>3, TaskKept
<1>6. Charges'
  <2> SUFFICES ASSUME NEW c \in calls'
               PROVE  \E t \in Trans : LegOf(c.key, t) /\ [tran |-> t, serial |-> c.serial] \in charged
    BY <1>1 DEF Charges, LegOf, feeVars
  <2>1. CASE c \in calls
    BY <2>1 DEF FeesInv, Charges
  <2>2. CASE c \notin calls
    <3>1. PICK q \in Procs : pc[q] # "idle" /\ c.key = job[q].key /\ c.serial = job[q].serial
      BY <1>3, <2>2
    <3>2. task[q].row \subseteq Trans /\ TaskOK(q)
      BY DEF FeesInv, FeesTypeOK, Tasks
    <3> QED BY <3>1, <3>2 DEF TaskOK
  <2> QED BY <2>1, <2>2
<1>7. TakenTrue'
  <2>1. \A t \in Trans : (Feeless(t)' => Feeless(t)) /\ (Blind(t) => Blind(t)')
    BY <1>2, <1>4, FeelessKept DEF FeesGrow
  <2>2. \A t \in Trans : (Taken(t)' <=> Taken(t)) /\ (Shared(t)' <=> Shared(t))
    BY <1>1 DEF Taken, Shared, feeVars
  <2> QED BY <2>1, <2>2 DEF FeesInv, TakenTrue
<1> QED BY <1>2, <1>4, <1>5, <1>6, <1>7 DEF FeesInv

LEMMA FeeDieInv == ASSUME FeesInv, NEW p \in Procs, FeeDie(p) PROVE FeesInv'
<1>1. /\ FEnd(p)
      /\ Crash(p) \/ (pc[p] = "idle" /\ UNCHANGED bookVars)
      /\ UNCHANGED <<today, lastFee, feelist, feeflag, skipped, charged>>
  BY DEF FeeDie, FRest
<1>2. FeesGrow /\ \A u \in Trans : Taken(u)' <=> Taken(u)
  BY <1>1 DEF FeesGrow, Taken
<1>3. UpToLast' /\ FeesTypeOK'
  BY <1>1, <1>2, UpToLastKept, FEndIs DEF FeesInv, FeesTypeOK
<1>4. /\ fstage'[p] = "idle" /\ task'[p] = NoTask
      /\ \A q \in Procs \ {p} : fstage'[q] = fstage[q] /\ task'[q] = task[q]
  BY <1>1, FEndIs DEF FeesInv, FeesTypeOK
<1>5. /\ pc'[p] = "idle" /\ calls' = calls
      /\ \A q \in Procs \ {p} : pc'[q] = pc[q] /\ job'[q] = job[q] /\ ret'[q] = ret[q]
  BY <1>1, CrashEffect DEF FeesInv, IInv, bookVars
<1>6. TaskOK(p)'
  BY <1>1, <1>4, <1>5, FEndIs DEF TaskOK
<1>7. [Next]_bookVars
  BY <1>1 DEF Next
<1> QED BY <1>2, <1>3, <1>4, <1>5, <1>6, <1>7, FeeMoves

LEMMA FeesStep == FeesInv /\ [FeesNext]_feesVars => FeesInv'
<1> SUFFICES ASSUME FeesInv, [FeesNext]_feesVars PROVE FeesInv'
  OBVIOUS
<1>1. ASSUME UNCHANGED <<bookVars, lastFee, feelist, feeflag, fstage, task, skipped, charged>>,
             today' \in 1..LastDay
      PROVE  FeesInv'
  <2>1. FeesTypeOK' /\ UpToLast' /\ FeesGrow
    BY <1>1 DEF FeesInv, FeesTypeOK, UpToLast, Accounted, Taken, FeesGrow, NotInCNY
  <2>2. [Next]_bookVars /\ calls' = calls /\ pc' = pc /\ job' = job /\ ret' = ret /\ IInv'
    BY <1>1, StepInv DEF bookVars, FeesInv
  <2>3. \A q \in Procs : TaskOK(q)'
    BY <1>1, <2>2 DEF FeesInv, TaskOK, Taken, Accounted, LegOf, NotInCNY
  <2>4. Charges'
    BY <1>1, <2>2 DEF FeesInv, Charges, LegOf
  <2>5. TakenTrue'
    BY <1>1, <2>2, FeelessKept DEF FeesInv, TakenTrue, Taken, Shared
  <2> QED BY <2>1, <2>2, <2>3, <2>4, <2>5 DEF FeesInv
<1>2. CASE NextDay \/ Archive \/ UNCHANGED feesVars
  <2>1. today \in 1..LastDay /\ LastDay \in Nat
    BY FeesAssumption DEF FeesInv, FeesTypeOK
  <2> QED BY <1>1, <1>2, <2>1 DEF NextDay, Archive, feesVars, feeVars
<1> QED
  BY <1>2, FeeEngineInv, CloseInv, FeeDieInv, NextRowInv, QueryInv, ChargeInv, ChargedInv, MarkInv,
     SingleInv, BatchInv
     DEF FeesNext, fetchFee, Ways

(* Up to LASTFEEDATE every transaction that costs something has its fee     *)
(* marked and taken by the core system (PF10_152, PF10_153, fetchFee), for  *)
(* any number of batches and requests at a time, failures and crashes, but  *)
(* for dates passed by force or over a SELECT that failed, and for          *)
(* transactions in a foreign currency, which are passed over.               *)
THEOREM FeesAreComplete == FeesSpec => []FeesComplete
<1>1. Init /\ FeesInit => FeesInv
  <2> SUFFICES ASSUME Init, FeesInit PROVE FeesInv
    OBVIOUS
  <2>1. IInv
    BY InitInv
  <2>2. NoTask \in Tasks /\ NoTask.row = {} /\ ~NoTask.batch
    BY DEF NoTask, Tasks, Ways
  <2>3. FeesTypeOK
    BY <2>2, FeesAssumption DEF FeesInit, FeesTypeOK, FeeStages
  <2>4. \A p \in Procs : TaskOK(p)
    BY <2>2 DEF Init, FeesInit, TaskOK
  <2>5. UpToLast
    <3>1. \A t \in Trans : ~(t.day <= 0)
      BY FeesAssumption
    <3> QED BY <3>1 DEF FeesInit, UpToLast
  <2>6. Charges /\ TakenTrue
    BY DEF Init, FeesInit, Charges, TakenTrue, Taken
  <2> QED BY <2>1, <2>3, <2>4, <2>5, <2>6 DEF FeesInv
<1>2. FeesInv => FeesComplete
  BY DEF FeesInv, UpToLast, Accounted, TakenTrue, Taken, Shared, FeesComplete
<1> QED BY <1>1, <1>2, FeesStep, PTL DEF FeesSpec
=============================================================================
