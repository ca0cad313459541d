---------------------------- MODULE OutTranProofs ----------------------------
(***************************************************************************)
(* Theorems about an outbound transaction and about the return of a        *)
(* ticket, for any processes, kinds and legs.  Both use the booking engine *)
(* as module Booking specifies it, so that the theorems of BookingProofs   *)
(* hold of them.                                                           *)
(***************************************************************************)
EXTENDS Returns, BookingProofs

(* Every step of a transaction is a step of the engine, or none. *)
LEMMA OutStepBooks == [OutNext]_outVars => [Next]_bookVars
<1> SUFFICES ASSUME [OutNext]_outVars, ~UNCHANGED bookVars PROVE Next
  OBVIOUS
<1>1. CASE Engine
  BY <1>1 DEF Engine, Next, ProcStep
<1>2. ASSUME NEW p \in Procs, Request(p) PROVE Next
  <2>1. \E k \in Keys : AccountingStart(p, k) \/ \E flag \in 1..3 : AccountCancelStart(p, k, flag)
    BY <1>2, OutTranAssumption
       DEF Request, Submit, BeforeTransOut, BeforeBooked, TransferToPH, CenterAnswer,
           OPAfterCommToPH, AfterTransOut, Cancelled, SideBooked, MainBooked, Reply,
           OP_DoFinish, BeforeLegs
  <2> QED
    BY <2>1 DEF Next
<1>3. ASSUME NEW p \in Procs, NEW k \in Keys, ManualReverse(p, k) PROVE Next
  BY <1>3 DEF ManualReverse, Next
<1>4. ASSUME NEW p \in Procs, Die(p) PROVE Next
  BY <1>4 DEF Die, Next
<1> QED
  BY <1>1, <1>2, <1>3, <1>4
     DEF OutNext, outVars, CenterDecide, PF_0009, OPT_ADM_DELTRAN, PF_0066Ask, PF_0066Update,
         ManualReversed

(* An outbound transaction is a use of the booking engine: every theorem   *)
(* about the engine is one about the transaction.                          *)
THEOREM UsesBooking == OutSpec => Spec
<1>1. OutInit => Init
  BY DEF OutInit
<1> QED
  BY <1>1, OutStepBooks, PTL DEF OutSpec, Spec

-----------------------------------------------------------------------------
(* Type correctness. *)
TranTypes == /\ kind \in Kinds
             /\ row \in ClearStates
             /\ center \in {"none", "asked", "settled", "rejected"}
             /\ stage \in [Procs -> Stages]
             /\ tc \in [Procs -> Replies]
             /\ code \in [Procs -> OutCodes]
             /\ doubts \subseteq {"unclear", "lost"}
             /\ byHand \subseteq Keys

(* Going to a stage, and leaving with a code, keep the types. *)
LEMMA ToType ==
  ASSUME TranTypes, NEW p \in Procs, NEW s \in Stages, To(p, s)
  PROVE  stage' \in [Procs -> Stages]
  BY DEF TranTypes, To

LEMMA ExitType ==
  ASSUME TranTypes, NEW p \in Procs, NEW c \in OutCodes, Exit(p, c)
  PROVE  stage' \in [Procs -> Stages] /\ code' \in [Procs -> OutCodes]
<1>1. "reply" \in Stages
  BY DEF Stages
<1> QED
  BY <1>1, ToType DEF TranTypes, Exit

LEMMA TranTypeStep == TypeOK /\ TranTypes /\ [OutNext]_outVars => TranTypes'
<1> SUFFICES ASSUME TypeOK, TranTypes, [OutNext]_outVars PROVE TranTypes'
  OBVIOUS
<1> USE DEF TranTypes
<1>0. /\ Codes \subseteq OutCodes
      /\ {"CHECK", "COMM", "COMMPH", "NONEED", "ANDCZ", "NOCZ", "none", "OK", "FAIL",
          "DB", "CONV"} \subseteq OutCodes
      /\ \A p \in Procs : ret[p] \in OutCodes
  BY DEF OutCodes, Codes, TypeOK
<1>1. CASE UNCHANGED tranVars
  BY <1>1 DEF tranVars
<1>2. ASSUME NEW p \in Procs, Submit(p) PROVE TranTypes'
  BY <1>0, <1>2, ToType, ExitType DEF Submit, Stages, ClearStates
<1>3. ASSUME NEW p \in Procs, BeforeTransOut(p) PROVE TranTypes'
  BY <1>0, <1>3, ToType, ExitType DEF BeforeTransOut, Stages
<1>4. ASSUME NEW p \in Procs, BeforeBooked(p) PROVE TranTypes'
  BY <1>0, <1>4, ToType, ExitType DEF BeforeBooked, Stages
<1>5. ASSUME NEW p \in Procs, TransferToPH(p) PROVE TranTypes'
  BY <1>0, <1>5, ToType, ExitType DEF TransferToPH, Stages
<1>6. ASSUME NEW p \in Procs, CenterAnswer(p) PROVE TranTypes'
  BY <1>0, <1>6, ToType, ExitType DEF CenterAnswer, Stages, Replies
<1>7. ASSUME NEW p \in Procs, OPAfterCommToPH(p) PROVE TranTypes'
  BY <1>0, <1>7, ToType, ExitType DEF OPAfterCommToPH, Stages, ClearStates
<1>8. ASSUME NEW p \in Procs, AfterTransOut(p) PROVE TranTypes'
  BY <1>0, <1>8, ToType, ExitType DEF AfterTransOut, Stages
<1>9. ASSUME NEW p \in Procs, Cancelled(p) \/ SideBooked(p) \/ MainBooked(p) PROVE TranTypes'
  BY <1>0, <1>9, ToType, ExitType DEF Cancelled, SideBooked, MainBooked, Stages
<1>10. ASSUME NEW p \in Procs, Reply(p) PROVE TranTypes'
  BY <1>0, <1>10, ToType DEF Reply, Stages
<1>11. ASSUME NEW p \in Procs, OP_DoFinish(p) PROVE TranTypes'
  BY <1>0, <1>11, ToType DEF OP_DoFinish, Stages, Closing, ClearStates, Replies
<1>12. CASE CenterDecide \/ PF_0009 \/ OPT_ADM_DELTRAN
  BY <1>12 DEF CenterDecide, PF_0009, OPT_ADM_DELTRAN, ClearStates
<1>13. ASSUME NEW p \in Procs, PF_0066Ask(p) \/ PF_0066Update(p) PROVE TranTypes'
  BY <1>13, ToType DEF PF_0066Ask, PF_0066Update, Stages, Replies, IsClearState, ClearStates
<1>14. ASSUME NEW p \in Procs, NEW k \in Keys, ManualReverse(p, k) PROVE TranTypes'
  BY <1>14, ToType DEF ManualReverse, Stages
<1>15. ASSUME NEW p \in Procs, ManualReversed(p) \/ Die(p) PROVE TranTypes'
  BY <1>0, <1>15, ToType DEF ManualReversed, Die, Stages, Replies
<1> QED
  BY <1>1, <1>2, <1>3, <1>4, <1>5, <1>6, <1>7, <1>8, <1>9, <1>10, <1>11, <1>12, <1>13,
     <1>14, <1>15 DEF OutNext, Engine, Request, outVars

(* Every reachable state of an outbound transaction is well typed. *)
THEOREM OutTypeCorrect == OutSpec => []OutTypeOK
<1>1. OutInit => TranTypes
  BY DEF OutInit, TranTypes, ClearStates, Stages, Replies, OutCodes, Codes
<1>2. TypeOK /\ TranTypes => OutTypeOK
  BY DEF TranTypes, OutTypeOK
<1>3. OutSpec => []TypeOK
  BY UsesBooking, TypeCorrect, PTL
<1> QED
  BY <1>1, <1>2, <1>3, TranTypeStep, PTL DEF OutSpec
-----------------------------------------------------------------------------
(* Who opens the transaction: the one request whose insert succeeded, and  *)
(* until it has asked the center nobody has.                               *)
Opening(p) == stage[p] \in {"before", "booking", "pack"}
OneOpener ==
    /\ row = "absent" => /\ center = "none"
                         /\ \A p \in Procs : stage[p] \in {"idle", "reply", "finish", "manual"}
    /\ \A p \in Procs : Opening(p) => /\ center = "none"
                                      /\ \A q \in Procs : Opening(q) => q = p

(* What a process does to the stages; nobody else's changes. *)
LEMMA ToEffect ==
  ASSUME TranTypes, NEW p \in Procs, NEW s, To(p, s)
  PROVE  stage'[p] = s /\ \A q \in Procs \ {p} : stage'[q] = stage[q]
  BY DEF TranTypes, To

LEMMA ExitEffect ==
  ASSUME TranTypes, NEW p \in Procs, NEW c, Exit(p, c)
  PROVE  /\ stage'[p] = "reply" /\ code'[p] = c
         /\ \A q \in Procs \ {p} : stage'[q] = stage[q] /\ code'[q] = code[q]
  BY ToEffect DEF TranTypes, Exit

LEMMA OneOpenerStep == TranTypes /\ OneOpener /\ [OutNext]_outVars => OneOpener'
<1> SUFFICES ASSUME TranTypes, OneOpener, [OutNext]_outVars PROVE OneOpener'
  OBVIOUS
<1> USE DEF OneOpener, Opening
<1>1. CASE UNCHANGED tranVars
  BY <1>1 DEF tranVars
<1>2. ASSUME NEW p \in Procs, Submit(p) PROVE OneOpener'
  BY <1>2, ToEffect, ExitEffect DEF Submit
<1>3. ASSUME NEW p \in Procs, BeforeTransOut(p) \/ BeforeBooked(p) PROVE OneOpener'
  BY <1>3, ToEffect, ExitEffect DEF BeforeTransOut, BeforeBooked
<1>4. ASSUME NEW p \in Procs, TransferToPH(p) PROVE OneOpener'
  <2>1. row # "absent"
    BY <1>4 DEF TransferToPH
  <2>2. \A q \in Procs \ {p} : ~Opening(q)
    BY <1>4 DEF TransferToPH
  <2> QED
    BY <1>4, <2>1, <2>2, ToEffect, ExitEffect DEF TransferToPH
<1>5. ASSUME NEW p \in Procs,
             \/ CenterAnswer(p) \/ OPAfterCommToPH(p) \/ AfterTransOut(p) \/ Cancelled(p)
             \/ SideBooked(p) \/ MainBooked(p)
      PROVE  OneOpener'
  <2>1. row # "absent" /\ ~Opening(p) /\ UNCHANGED center
    BY <1>5 DEF CenterAnswer, OPAfterCommToPH, AfterTransOut, Cancelled, SideBooked, MainBooked
  <2>2. row' # "absent"
    BY <1>5, <2>1 DEF CenterAnswer, OPAfterCommToPH, AfterTransOut, Cancelled, SideBooked,
                      MainBooked
  <2>3. \E s \in {"reply", "update", "after", "cancel", "side", "main"} : To(p, s)
    BY <1>5 DEF CenterAnswer, OPAfterCommToPH, AfterTransOut, Cancelled, SideBooked,
                MainBooked, Exit
  <2> QED
    BY <2>1, <2>2, <2>3, ToEffect
<1>6. ASSUME NEW p \in Procs, Reply(p) PROVE OneOpener'
  BY <1>6, ToEffect DEF Reply
<1>7. ASSUME NEW p \in Procs, OP_DoFinish(p) PROVE OneOpener'
  <2>1. row' = "absent" => row = "absent"
    BY <1>7 DEF OP_DoFinish, Closing
  <2> QED
    BY <1>7, <2>1, ToEffect DEF OP_DoFinish
<1>8. CASE CenterDecide \/ PF_0009 \/ OPT_ADM_DELTRAN
  BY <1>8 DEF CenterDecide, PF_0009, OPT_ADM_DELTRAN
<1>9. ASSUME NEW p \in Procs, PF_0066Ask(p) PROVE OneOpener'
  BY <1>9, ToEffect DEF PF_0066Ask
<1>10. ASSUME NEW p \in Procs, PF_0066Update(p) PROVE OneOpener'
  <2>1. row' = "absent" => row = "absent"
    BY <1>10 DEF PF_0066Update, IsClearState
  <2> QED
    BY <1>10, <2>1, ToEffect DEF PF_0066Update
<1>11. ASSUME NEW p \in Procs, NEW k \in Keys, ManualReverse(p, k) PROVE OneOpener'
  BY <1>11, ToEffect DEF ManualReverse
<1>12. ASSUME NEW p \in Procs, ManualReversed(p) \/ Die(p) PROVE OneOpener'
  BY <1>12, ToEffect DEF ManualReversed, Die
<1> QED
  BY <1>1, <1>2, <1>3, <1>4, <1>5, <1>6, <1>7, <1>8, <1>9, <1>10, <1>11, <1>12
     DEF OutNext, Engine, Request, outVars

(* So the center is asked once, and what it decided it does not take back. *)
LEMMA CenterDecidesOnce ==
  ASSUME OneOpener, [OutNext]_outVars
  PROVE  /\ center \in {"settled", "rejected"} => UNCHANGED center
         /\ center # "none" => center' # "none"
<1>1. ASSUME NEW p \in Procs, TransferToPH(p) PROVE center = "none"
  BY <1>1 DEF TransferToPH, OneOpener, Opening
<1>2. CASE CenterDecide
  BY <1>2 DEF CenterDecide
<1>3. UNCHANGED center \/ CenterDecide \/ \E p \in Procs : TransferToPH(p)
  BY DEF OutNext, Engine, Request, outVars, tranVars, Submit, BeforeTransOut, BeforeBooked,
         CenterAnswer, OPAfterCommToPH, AfterTransOut, Cancelled, SideBooked, MainBooked, Reply,
         OP_DoFinish, PF_0009, OPT_ADM_DELTRAN, PF_0066Ask, PF_0066Update, ManualReverse,
         ManualReversed, Die
<1> QED
  BY <1>1, <1>2, <1>3

-----------------------------------------------------------------------------
(* Whoever holds a success, or goes on to the legs that come last, has it  *)
(* from the center; so has the journal row.                                *)
KnowsSettled(p) == \/ tc[p] = "ok"
                   \/ stage[p] \in {"side", "main"}
                   \/ stage[p] \in {"reply", "finish"} /\ Success(code[p])
SuccessIsSettled == /\ SettledIsCleared
                    /\ \A p \in Procs : KnowsSettled(p) => center = "settled"

(* The center's decision stands, so only p, which moves, is looked at. *)
LEMMA SuccessOfMover ==
  ASSUME SuccessIsSettled, center = "settled" => center' = "settled", NEW p \in Procs,
         \A q \in Procs \ {p} : /\ stage'[q] = stage[q] /\ tc'[q] = tc[q]
                                /\ code'[q] = code[q],
         KnowsSettled(p)' => center' = "settled",
         row' # "settled" \/ row' = row \/ center' = "settled"
  PROVE  SuccessIsSettled'
  BY DEF SuccessIsSettled, SettledIsCleared, KnowsSettled

LEMMA SuccessIsSettledStep ==
  TranTypes /\ OneOpener /\ SuccessIsSettled /\ [OutNext]_outVars => SuccessIsSettled'
<1> SUFFICES ASSUME TranTypes, OneOpener, SuccessIsSettled, [OutNext]_outVars
             PROVE  SuccessIsSettled'
  OBVIOUS
<1>0. center = "settled" => center' = "settled"
  BY CenterDecidesOnce
<1>1. CASE UNCHANGED tranVars
  BY <1>1 DEF tranVars, SuccessIsSettled, SettledIsCleared, KnowsSettled
<1>2. ASSUME NEW p \in Procs, UNCHANGED tc, row' \in {row, "unknown"},
             \/ \E s \in {"before", "booking", "pack", "wait", "update", "cancel", "query",
                          "manual"} : To(p, s) /\ UNCHANGED code
             \/ \E c : ~Success(c) /\ Exit(p, c)
      PROVE  SuccessIsSettled'
  BY <1>0, <1>2, ToEffect, ExitEffect, SuccessOfMover DEF KnowsSettled, SuccessIsSettled
<1>3. ASSUME NEW p \in Procs,
             Submit(p) \/ BeforeTransOut(p) \/ BeforeBooked(p) \/ TransferToPH(p) \/ Cancelled(p)
      PROVE  SuccessIsSettled'
  <2>1. \A c \in {"DB", "CHECK", "CONV", "ANDCZ", "NOCZ"} : ~Success(c)
    BY DEF Success
  <2>2. UNCHANGED tc /\ row' \in {row, "unknown"}
    BY <1>3 DEF Submit, BeforeTransOut, BeforeBooked, TransferToPH, Cancelled
  <2>3. CASE \E s \in {"before", "booking", "pack", "wait"} : To(p, s) /\ UNCHANGED code
    BY <1>2, <2>2, <2>3
  <2>4. CASE \E c : ~Success(c) /\ Exit(p, c)
    BY <1>2, <2>2, <2>4
  <2> QED
    BY <1>3, <2>1, <2>3, <2>4
       DEF Submit, BeforeTransOut, BeforeBooked, TransferToPH, Cancelled
<1>4. ASSUME NEW p \in Procs, CenterAnswer(p) PROVE SuccessIsSettled'
  <2>1. CASE UNCHANGED tc
    BY <1>2, <1>4, <2>1 DEF CenterAnswer, Success
  <2>2. ASSUME NEW r, r = "ok" => center = "settled", tc' = [tc EXCEPT ![p] = r],
               To(p, "update"), UNCHANGED <<code, row>>
        PROVE  SuccessIsSettled'
    BY <1>0, <2>2, ToEffect, SuccessOfMover DEF KnowsSettled, SuccessIsSettled, TranTypes
  <2> QED
    BY <1>4, <2>1, <2>2 DEF CenterAnswer
<1>5. ASSUME NEW p \in Procs, OPAfterCommToPH(p) PROVE SuccessIsSettled'
  <2>1. UNCHANGED <<tc, center>> /\ (row' = "settled" => row' = row \/ tc[p] = "ok")
    BY <1>5 DEF OPAfterCommToPH
  <2>2. \/ To(p, "after") /\ UNCHANGED code
        \/ Exit(p, "DB")
    BY <1>5 DEF OPAfterCommToPH
  <2> QED
    BY <1>0, <2>1, <2>2, ToEffect, ExitEffect, SuccessOfMover
       DEF KnowsSettled, SuccessIsSettled, Success
<1>6. ASSUME NEW p \in Procs, AfterTransOut(p) PROVE SuccessIsSettled'
  <2>1. UNCHANGED <<tc, center, row>>
    BY <1>6 DEF AfterTransOut
  <2>2. \/ tc[p] = "ok" /\ \/ \E c : Exit(p, c)
                           \/ \E s \in {"side", "main"} : To(p, s) /\ UNCHANGED code
        \/ \E c \in {"CHECK", "COMM", "FAIL", "NONEED"} : Exit(p, c)
        \/ To(p, "cancel") /\ UNCHANGED code
    BY <1>6 DEF AfterTransOut
  <2> QED
    BY <1>0, <2>1, <2>2, ToEffect, ExitEffect, SuccessOfMover
       DEF KnowsSettled, SuccessIsSettled, Success
<1>7. ASSUME NEW p \in Procs, SideBooked(p) \/ MainBooked(p) PROVE SuccessIsSettled'
  <2>1. UNCHANGED <<tc, center, row>> /\ center = "settled"
    BY <1>7 DEF SideBooked, MainBooked, SuccessIsSettled, KnowsSettled
  <2>2. \/ \E c : Exit(p, c)
        \/ To(p, "main") /\ UNCHANGED code
    BY <1>7 DEF SideBooked, MainBooked
  <2> QED
    BY <2>1, <2>2, ToEffect, ExitEffect, SuccessOfMover
<1>8. ASSUME NEW p \in Procs, Reply(p) PROVE SuccessIsSettled'
  <2>1. stage[p] = "reply" /\ To(p, "finish") /\ UNCHANGED <<tc, center, row>>
    BY <1>8 DEF Reply
  <2>2. UNCHANGED code \/ \E c \in {"CONV", "COMMPH"} : code' = [code EXCEPT ![p] = c]
    BY <1>8 DEF Reply
  <2> QED
    BY <1>0, <2>1, <2>2, ToEffect, SuccessOfMover
       DEF KnowsSettled, SuccessIsSettled, Success, TranTypes
<1>9. ASSUME NEW p \in Procs, OP_DoFinish(p) PROVE SuccessIsSettled'
  <2>1. stage[p] = "finish" /\ To(p, "idle") /\ UNCHANGED center
    BY <1>9 DEF OP_DoFinish
  <2>2. row' = "settled" => row' = row \/ Success(code[p])
    BY <1>9 DEF OP_DoFinish, Closing
  <2>3. tc' = [tc EXCEPT ![p] = "none"] /\ code' = [code EXCEPT ![p] = "none"]
    BY <1>9 DEF OP_DoFinish
  <2> QED
    BY <1>0, <2>1, <2>2, <2>3, ToEffect, SuccessOfMover
       DEF KnowsSettled, SuccessIsSettled, TranTypes
<1>10. CASE CenterDecide \/ PF_0009 \/ OPT_ADM_DELTRAN
  BY <1>0, <1>10
     DEF CenterDecide, PF_0009, OPT_ADM_DELTRAN, KnowsSettled, SuccessIsSettled,
         SettledIsCleared
<1>11. ASSUME NEW p \in Procs, PF_0066Ask(p) PROVE SuccessIsSettled'
  <2>1. To(p, "query") /\ UNCHANGED <<center, row, code>>
    BY <1>11 DEF PF_0066Ask
  <2>2. \E r : tc' = [tc EXCEPT ![p] = r] /\ (r = "ok" => center = "settled")
    BY <1>11 DEF PF_0066Ask, TranTypes
  <2> QED
    BY <1>0, <2>1, <2>2, ToEffect, SuccessOfMover
       DEF KnowsSettled, SuccessIsSettled, TranTypes
<1>12. ASSUME NEW p \in Procs, PF_0066Update(p) PROVE SuccessIsSettled'
  <2>1. To(p, "idle") /\ UNCHANGED <<center, code>> /\ tc' = [tc EXCEPT ![p] = "none"]
    BY <1>12 DEF PF_0066Update
  <2>2. row' = "settled" => row' = row \/ tc[p] = "ok"
    BY <1>12 DEF PF_0066Update, IsClearState
  <2> QED
    BY <1>0, <2>1, <2>2, ToEffect, SuccessOfMover
       DEF KnowsSettled, SuccessIsSettled, TranTypes
<1>13. ASSUME NEW p \in Procs, NEW k \in Keys, ManualReverse(p, k) PROVE SuccessIsSettled'
  BY <1>2, <1>13 DEF ManualReverse
<1>14. ASSUME NEW p \in Procs, ManualReversed(p) PROVE SuccessIsSettled'
  BY <1>0, <1>14, ToEffect, SuccessOfMover
     DEF ManualReversed, KnowsSettled, SuccessIsSettled, TranTypes
<1>15. ASSUME NEW p \in Procs, Die(p) PROVE SuccessIsSettled'
  BY <1>0, <1>15, ToEffect, SuccessOfMover
     DEF Die, KnowsSettled, SuccessIsSettled, TranTypes
<1> QED
  BY <1>1, <1>3, <1>4, <1>5, <1>6, <1>7, <1>8, <1>9, <1>10, <1>11, <1>12, <1>13, <1>14, <1>15
     DEF OutNext, Engine, Request, outVars

(* The facts of this section together, of every transaction. *)
TranInv == TypeOK /\ TranTypes /\ OneOpener /\ SuccessIsSettled

LEMMA TranInductive == OutSpec => []TranInv
<1>1. OutInit => TranTypes /\ OneOpener /\ SuccessIsSettled
  BY DEF OutInit, TranTypes, ClearStates, Stages, Replies, OutCodes, Codes, OneOpener, Opening,
         SuccessIsSettled, SettledIsCleared, KnowsSettled
<1>2. OutSpec => []TypeOK
  BY UsesBooking, TypeCorrect, PTL
<1> QED
  BY <1>1, <1>2, TranTypeStep, OneOpenerStep, SuccessIsSettledStep, PTL DEF OutSpec, TranInv

(* trnjour says "settled" only of what the center settled, through every   *)
(* retry, query, report of the center, manual reversal and crash.          *)
THEOREM RowSettledIsCleared == OutSpec => []SettledIsCleared
  BY TranInductive, PTL DEF TranInv, SuccessIsSettled

-----------------------------------------------------------------------------
(* The legs that come last: they are asked of the core system only when    *)
(* the center has settled, so no money moves for them before.              *)
Asking(p) == pc[p] \in {"query", "insert", "send"}
LastLegsWait ==
    /\ \A p \in Procs : Asking(p) /\ job[p].key \in AfterLegs => center = "settled"
    /\ \A c \in calls : c.op = "book" /\ c.key \in AfterLegs => center = "settled"

(* No leg is booked both before and after the center. *)
LEMMA LegsApart == BeforeLegs \cap AfterLegs = {}
  BY OutTranAssumption DEF BeforeLegs, AfterLegs, HasSide, IsCredit

LEMMA LastLegsWaitStep ==
  TranInv /\ LastLegsWait /\ [OutNext]_outVars => LastLegsWait'
<1> SUFFICES ASSUME TranInv, LastLegsWait, [OutNext]_outVars PROVE LastLegsWait'
  OBVIOUS
<1>0. /\ center = "settled" => center' = "settled"
      /\ AfterLegs' = AfterLegs
      /\ pc \in [Procs -> Points] /\ job \in [Procs -> Jobs]
  <2>1. UNCHANGED kind
    BY DEF OutNext, Engine, Request, outVars, tranVars, Submit, BeforeTransOut, BeforeBooked,
           TransferToPH, CenterDecide,
           CenterAnswer, OPAfterCommToPH, AfterTransOut, Cancelled, SideBooked, MainBooked,
           Reply,
           OP_DoFinish, PF_0009, OPT_ADM_DELTRAN, PF_0066Ask, PF_0066Update, ManualReverse,
           ManualReversed, Die
  <2> QED
    BY <2>1, CenterDecidesOnce DEF TranInv, AfterLegs, HasSide, IsCredit, TypeOK
<1>1. CASE UNCHANGED <<calls, pc, job>>
  BY <1>0, <1>1 DEF LastLegsWait, Asking
<1>2. ASSUME NEW p \in Procs, NEW k, AccountingStart(p, k),
             k \in AfterLegs => center = "settled"
      PROVE  LastLegsWait'
  <2>1. UNCHANGED calls /\ \A q \in Procs \ {p} : pc'[q] = pc[q] /\ job'[q] = job[q]
    BY <1>0, <1>2 DEF AccountingStart, End, Begin
  <2>2. pc'[p] = "idle" \/ job'[p].key = k
    BY <1>0, <1>2 DEF AccountingStart, End, Begin, Job
  <2> QED
    BY <1>0, <1>2, <2>1, <2>2 DEF LastLegsWait, Asking
<1>3. ASSUME NEW p \in Procs, UNCHANGED calls,
             \A q \in Procs \ {p} : pc'[q] = pc[q] /\ job'[q] = job[q],
             Asking(p)' => Asking(p) /\ job'[p].key = job[p].key
      PROVE  LastLegsWait'
  BY <1>0, <1>3 DEF LastLegsWait, Asking
<1>4. ASSUME NEW p \in Procs, NEW k, NEW flag \in 1..3, AccountCancelStart(p, k, flag) PROVE LastLegsWait'
  BY <1>0, <1>3, <1>4 DEF AccountCancelStart, Begin, End, Asking
<1>5. ASSUME NEW p \in Procs, Crash(p) PROVE LastLegsWait'
  BY <1>0, <1>3, <1>5 DEF Crash, Return, End, Asking
<1>6. ASSUME NEW p \in Procs, ProcStep(p) PROVE LastLegsWait'
  <2>1. CASE AccountingSend(p)
    <3>1. \/ UNCHANGED calls
          \/ calls' = calls \cup {[op |-> "book", key |-> job[p].key,
                                   serial |-> job[p].serial, target |-> job[p].target]}
      BY <2>1 DEF AccountingSend, Call
    <3>2. /\ \A q \in Procs \ {p} : pc'[q] = pc[q] /\ job'[q] = job[q]
          /\ pc'[p] \in {"idle", "await"}
      BY <1>0, <2>1 DEF AccountingSend, Call, Return, End, Goto, Begin
    <3> QED
      BY <1>0, <2>1, <3>1, <3>2 DEF LastLegsWait, Asking, AccountingSend
  <2>2. CASE AccountCancelSend(p)
    <3>1. \/ UNCHANGED calls
          \/ calls' = calls \cup {[op |-> "reverse", key |-> job[p].key,
                                   serial |-> job[p].serial, target |-> job[p].target]}
      BY <2>2 DEF AccountCancelSend, Call
    <3>2. /\ \A q \in Procs \ {p} : pc'[q] = pc[q] /\ job'[q] = job[q]
          /\ pc'[p] \in {"idle", "cawait"}
      BY <1>0, <2>2 DEF AccountCancelSend, Call, Return, End, Goto, Begin
    <3> QED
      BY <1>0, <3>1, <3>2 DEF LastLegsWait, Asking
  <2>3. CASE AccountingQuery(p) \/ AccountingInsert(p)
    BY <1>0, <1>3, <2>3
       DEF AccountingQuery, AccountingInsert, Return, End, Goto, Begin, Asking
  <2>4. CASE AccountingReply(p) \/ CallLost(p) \/ AccountCancelReply(p)
    BY <1>0, <1>3, <2>4
       DEF AccountingReply, CallLost, AccountCancelReply, Return, End, Asking
  <2>5. CASE AccountCancelQuery(p)
    BY <1>0, <1>3, <2>5 DEF AccountCancelQuery, Return, End, Begin, Asking
  <2> QED
    BY <1>6, <2>1, <2>2, <2>3, <2>4, <2>5 DEF ProcStep
<1>7. CASE Engine
  BY <1>1, <1>6, <1>7 DEF Engine, BankExecute, ManualAdjust
<1>8. ASSUME NEW p \in Procs, BeforeTransOut(p) PROVE LastLegsWait'
  BY <1>1, <1>2, <1>8, LegsApart DEF BeforeTransOut, bookVars
<1>9. ASSUME NEW p \in Procs, AfterTransOut(p) PROVE LastLegsWait'
  <2>1. CASE tc[p] = "ok"
    BY <1>1, <1>2, <1>9, <2>1
       DEF AfterTransOut, Refusal, bookVars, TranInv, SuccessIsSettled, KnowsSettled
  <2>2. CASE tc[p] # "ok"
    BY <1>1, <1>4, <1>9, <2>2 DEF AfterTransOut, bookVars
  <2> QED
    BY <2>1, <2>2
<1>10. ASSUME NEW p \in Procs, SideBooked(p) PROVE LastLegsWait'
  BY <1>1, <1>2, <1>10
     DEF SideBooked, bookVars, TranInv, SuccessIsSettled, KnowsSettled
<1>11. ASSUME NEW p \in Procs, NEW k \in Keys, ManualReverse(p, k) PROVE LastLegsWait'
  BY <1>4, <1>11 DEF ManualReverse
<1>12. ASSUME NEW p \in Procs, Die(p) PROVE LastLegsWait'
  BY <1>1, <1>5, <1>12 DEF Die, bookVars
<1> QED
  BY <1>1, <1>7, <1>8, <1>9, <1>10, <1>11, <1>12
     DEF OutNext, Request, outVars, bookVars, CenterDecide, PF_0009, OPT_ADM_DELTRAN,
         PF_0066Ask, PF_0066Update,
         ManualReversed, Submit, BeforeBooked, TransferToPH, CenterAnswer, OPAfterCommToPH,
         Cancelled, MainBooked, Reply, OP_DoFinish

(* Of a debit, and of the second leg of a personal transaction, the core   *)
(* system moves money only once the center has settled, whatever is lost,  *)
(* retried, answered late or left behind by a process that died.           *)
THEOREM MoneyAfterSettled == OutSpec => []CreditedAfterSettled
<1>1. OutInit => LastLegsWait
  BY DEF OutInit, Init, LastLegsWait, Asking
<1>2. LastLegsWait => CreditedAfterSettled
  BY DEF LastLegsWait, CreditedAfterSettled, Posted
<1> QED
  BY <1>1, <1>2, TranInductive, LastLegsWaitStep, PTL DEF OutSpec

-----------------------------------------------------------------------------
(* What a transaction is, and what was noted of it, stays. *)
LEMMA KindKept ==
  ASSUME [OutNext]_outVars
  PROVE  /\ UNCHANGED <<kind, BeforeLegs, AfterLegs>>
         /\ (HasSide' <=> HasSide) /\ (IsCredit' <=> IsCredit)
         /\ doubts \subseteq doubts' /\ byHand \subseteq byHand'
<1>1. UNCHANGED kind /\ doubts \subseteq doubts' /\ byHand \subseteq byHand'
  BY DEF OutNext, Engine, Request, outVars, tranVars, Submit, BeforeTransOut, BeforeBooked,
         TransferToPH, CenterDecide, CenterAnswer, OPAfterCommToPH, AfterTransOut, Cancelled,
         SideBooked, MainBooked, Reply, OP_DoFinish, PF_0009, OPT_ADM_DELTRAN, PF_0066Ask,
         PF_0066Update, ManualReverse, ManualReversed, Die
<1> QED
  BY <1>1 DEF BeforeLegs, AfterLegs, HasSide, IsCredit

(* A transaction has at most one leg that comes first. *)
LEMMA OneFirstLeg == \A k, l \in BeforeLegs : k = l
  BY DEF BeforeLegs

(* The calls of the engine a process is in are those of its stage: it books *)
(* the leg the stage is about, or reverses the first one.                   *)
Books(p, K) == /\ job[p].key \in K
               /\ pc[p] \in {"idle", "query", "insert", "send", "await"}
               /\ pc[p] = "idle" /\ ret[p] = "OK" => job[p].key \in Foreign
Cancels(p, K) == job[p].key \in K /\ pc[p] \in {"idle", "cquery", "oquery", "csend", "cawait"}
Calling == {"booking", "side", "main", "cancel", "manual"}
UsesEngine(p) == /\ stage[p] = "booking" => Books(p, BeforeLegs)
                 /\ stage[p] = "side" => Books(p, {Side}) /\ HasSide
                 /\ stage[p] = "main" => Books(p, {Main}) /\ ~IsCredit
                 /\ stage[p] = "cancel" => Cancels(p, BeforeLegs)
                 /\ stage[p] = "manual" => Cancels(p, byHand)
                 /\ stage[p] \notin Calling => pc[p] = "idle"
EngineUse == \A p \in Procs : UsesEngine(p)

(* A step of a process inside the engine goes on with the same leg, toward *)
(* the end of the same call; a call begins with the leg it is for.         *)
LEMMA ProcStepEffect ==
  ASSUME TypeOK, NEW p \in Procs, ProcStep(p)
  PROVE  /\ \A q \in Procs \ {p} : pc'[q] = pc[q] /\ job'[q] = job[q] /\ ret'[q] = ret[q]
         /\ job'[p].key = job[p].key
         /\ pc[p] \in {"query", "insert", "send", "await"} =>
               pc'[p] \in {"idle", "insert", "send", "await"} /\ ret'[p] # "OK"
         /\ pc[p] \in {"cquery", "oquery", "csend", "cawait"} => pc'[p] \in {"idle", "csend", "cawait"}
         /\ pc[p] # "idle"
  BY ReturnEffect, GotoEffect, BeginEffect
     DEF ProcStep, AccountingQuery, AccountingInsert, AccountingSend, AccountingReply,
         CallLost, AccountCancelQuery, AccountCancelSend, AccountCancelReply, Call, Job

LEMMA StartEffect ==
  ASSUME TypeOK, NEW p \in Procs, NEW k \in Keys, AccountingStart(p, k)
  PROVE  /\ \A q \in Procs \ {p} : pc'[q] = pc[q] /\ job'[q] = job[q] /\ ret'[q] = ret[q]
         /\ job'[p].key = k /\ pc'[p] \in {"idle", "query"}
         /\ pc'[p] = "idle" => k \in Foreign /\ ret'[p] = "OK"
  BY EndEffect, BeginEffect DEF AccountingStart, Job

LEMMA CancelStartEffect ==
  ASSUME TypeOK, NEW p \in Procs, NEW k \in Keys, NEW flag \in 1..3, AccountCancelStart(p, k, flag)
  PROVE  /\ \A q \in Procs \ {p} : pc'[q] = pc[q] /\ job'[q] = job[q] /\ ret'[q] = ret[q]
         /\ job'[p].key = k /\ pc'[p] \in {"idle", "cquery", "oquery"}
         /\ pc'[p] = "idle" => ret'[p] \in {"BANK", "CONV"}
  BY EndEffect, BeginEffect DEF AccountCancelStart, Job

LEMMA EngineUseStep ==
  TypeOK /\ TranTypes /\ EngineUse /\ [OutNext]_outVars => EngineUse'
<1> SUFFICES ASSUME TypeOK, TranTypes, EngineUse, [OutNext]_outVars PROVE EngineUse'
  OBVIOUS
<1> USE KindKept DEF EngineUse
<1>k. ASSUME NEW q \in Procs, UNCHANGED <<stage[q], pc[q], job[q], ret[q]>>
      PROVE  UsesEngine(q)'
  BY <1>k DEF UsesEngine, Books, Cancels
<1>m. ASSUME NEW p \in Procs, UsesEngine(p)', UNCHANGED <<pc, job, ret>> \/
             \A q \in Procs \ {p} : pc'[q] = pc[q] /\ job'[q] = job[q] /\ ret'[q] = ret[q],
             UNCHANGED stage \/ \E s \in Stages : To(p, s)
      PROVE  EngineUse'
  <2>1. \A q \in Procs \ {p} : UNCHANGED <<stage[q], pc[q], job[q], ret[q]>>
    BY <1>m, ToEffect
  <2> QED
    BY <1>k, <1>m, <2>1
<1>1. CASE UNCHANGED <<stage, pc, job, ret>>
  BY <1>k, <1>1
<1>2. ASSUME NEW p \in Procs, UNCHANGED <<pc, job, ret>>, pc[p] = "idle",
             \E s \in Stages \ Calling : To(p, s)
      PROVE  EngineUse'
  <2>1. stage'[p] \notin Calling /\ pc'[p] = "idle"
    BY <1>2, ToEffect
  <2> QED
    BY <1>m, <1>2, <2>1 DEF UsesEngine, Calling
<1>3. ASSUME NEW p \in Procs, ProcStep(p), UNCHANGED tranVars PROVE EngineUse'
  <2>1. UsesEngine(p)'
    BY <1>3, ProcStepEffect DEF UsesEngine, Books, Cancels, Calling, tranVars
  <2> QED
    BY <1>m, <1>3, <2>1, ProcStepEffect DEF tranVars
<1>4. ASSUME NEW p \in Procs, NEW k \in Keys, AccountingStart(p, k),
             \/ To(p, "booking") /\ k \in BeforeLegs
             \/ To(p, "side") /\ k = Side /\ HasSide
             \/ To(p, "main") /\ k = Main /\ ~IsCredit
      PROVE  EngineUse'
  <2>1. UsesEngine(p)'
    BY <1>4, ToEffect, StartEffect DEF UsesEngine, Books, Calling
  <2> QED
    BY <1>m, <1>4, <2>1, StartEffect DEF Stages
<1>5. ASSUME NEW p \in Procs, NEW k \in Keys, NEW flag \in 1..3, AccountCancelStart(p, k, flag),
             \/ To(p, "cancel") /\ k \in BeforeLegs
             \/ To(p, "manual") /\ k \in byHand'
      PROVE  EngineUse'
  <2>1. UsesEngine(p)'
    BY <1>5, ToEffect, CancelStartEffect DEF UsesEngine, Cancels, Calling
  <2> QED
    BY <1>m, <1>5, <2>1, CancelStartEffect DEF Stages
<1>6. CASE Engine
  BY <1>1, <1>3, <1>6 DEF Engine, tranVars, BankExecute, ManualAdjust
<1>7. ASSUME NEW p \in Procs, BeforeTransOut(p) PROVE EngineUse'
  <2>1. pc[p] = "idle"
    BY <1>7 DEF BeforeTransOut, UsesEngine, Calling
  <2> QED
    BY <1>2, <1>4, <1>7, <2>1, OutTranAssumption
       DEF BeforeTransOut, Exit, Stages, Calling, bookVars, BeforeLegs
<1>8. ASSUME NEW p \in Procs, AfterTransOut(p) PROVE EngineUse'
  <2>1. pc[p] = "idle"
    BY <1>8 DEF AfterTransOut, UsesEngine, Calling
  <2>2. CASE To(p, "reply") /\ UNCHANGED bookVars
    BY <1>2, <1>8, <2>1, <2>2 DEF Stages, Calling, bookVars
  <2>3. ASSUME NEW k \in BeforeLegs, NEW flag \in 1..3, AccountCancelStart(p, k, flag), To(p, "cancel")
        PROVE  EngineUse'
    BY <1>5, <2>3, OutTranAssumption DEF BeforeLegs
  <2>4. AfterLegs = {Main} => ~IsCredit
    BY OutTranAssumption DEF AfterLegs, HasSide
  <2> QED
    BY <1>4, <1>8, <2>2, <2>3, <2>4, OutTranAssumption DEF AfterTransOut, Exit
<1>9. ASSUME NEW p \in Procs, SideBooked(p) PROVE EngineUse'
  BY <1>2, <1>4, <1>9, OutTranAssumption
     DEF SideBooked, Exit, Stages, Calling, bookVars, Returned
<1>10. ASSUME NEW p \in Procs, NEW k \in Keys, ManualReverse(p, k) PROVE EngineUse'
  BY <1>5, <1>10 DEF ManualReverse
<1>11. ASSUME NEW p \in Procs, Die(p) PROVE EngineUse'
  <2>1. CASE UNCHANGED bookVars /\ pc[p] = "idle"
    BY <1>2, <1>11, <2>1 DEF Die, Stages, Calling, bookVars
  <2>2. CASE Crash(p)
    <3>1. /\ pc'[p] = "idle"
          /\ \A q \in Procs \ {p} : pc'[q] = pc[q] /\ job'[q] = job[q] /\ ret'[q] = ret[q]
      BY <2>2, ReturnEffect DEF Crash
    <3>2. To(p, "idle") /\ stage'[p] = "idle" /\ "idle" \in Stages \ Calling
      BY <1>11, ToEffect DEF Die, Stages, Calling
    <3>3. UsesEngine(p)'
      BY <3>1, <3>2 DEF UsesEngine, Calling
    <3> QED
      BY <1>m, <3>1, <3>2, <3>3
  <2> QED
    BY <1>11, <2>1, <2>2 DEF Die
<1>12. ASSUME NEW p \in Procs,
              \/ Submit(p) \/ BeforeBooked(p) \/ TransferToPH(p) \/ CenterAnswer(p)
              \/ OPAfterCommToPH(p) \/ Cancelled(p) \/ MainBooked(p) \/ Reply(p)
              \/ OP_DoFinish(p) \/ PF_0066Ask(p) \/ PF_0066Update(p) \/ ManualReversed(p)
       PROVE  EngineUse'
  <2>1. UNCHANGED <<pc, job, ret>> /\ pc[p] = "idle"
    BY <1>12 DEF bookVars, Submit, BeforeBooked, TransferToPH, CenterAnswer, OPAfterCommToPH,
                 Cancelled, MainBooked, Reply, OP_DoFinish, PF_0066Ask, PF_0066Update,
                 ManualReversed, Returned, UsesEngine, Calling
  <2>2. \E s \in Stages \ Calling : To(p, s)
    BY <1>12 DEF Stages, Calling, Exit, Submit, BeforeBooked, TransferToPH, CenterAnswer,
                 OPAfterCommToPH, Cancelled, MainBooked, Reply, OP_DoFinish, PF_0066Ask,
                 PF_0066Update, ManualReversed
  <2> QED
    BY <1>2, <2>1, <2>2
<1>13. CASE CenterDecide \/ PF_0009 \/ OPT_ADM_DELTRAN
  BY <1>1, <1>13 DEF CenterDecide, PF_0009, OPT_ADM_DELTRAN, bookVars
<1> QED
  BY <1>1, <1>6, <1>7, <1>8, <1>9, <1>10, <1>11, <1>12, <1>13
     DEF OutNext, Request, outVars, bookVars, tranVars

-----------------------------------------------------------------------------
(* The legs of a transaction are posted in their order: the first one when *)
(* the center hears of it, each of the last ones before the next step is   *)
(* taken, all of them when the request ends with success.                  *)
Booked(k)    == k \notin blind \cup Foreign => Posted(k) # {}
Paid         == \A k \in BeforeLegs : Booked(k)
Succeeded(p) == stage[p] = "reply" /\ Success(code[p])
LegsUpTo(p)  == /\ stage[p] = "pack" => Paid
                /\ stage[p] = "main" /\ HasSide => Booked(Side)
                /\ Succeeded(p) => \A k \in AfterLegs : Booked(k)
LegsPosted   == (center # "none" => Paid) /\ \A p \in Procs : LegsUpTo(p)

(* A posting stays. *)
LEMMA BookedKept ==
  ASSUME [OutNext]_outVars
  PROVE  (\A k : Booked(k) => Booked(k)') /\ (Paid => Paid')
<1>1. \A k : blind \subseteq blind' /\ Posted(k) \subseteq Posted(k)'
  BY OutStepBooks, HistoryGrows, PostedGrows
<1>2. \A k : Booked(k) => Booked(k)'
  BY <1>1 DEF Booked
<1> QED
  BY <1>2, KindKept DEF Paid

(* A call of the engine that ended with success has booked its leg. *)
LEMMA SuccessBooked ==
  ASSUME TypeOK, BookedWasPosted, NEW p \in Procs, NEW K, Books(p, K), pc[p] = "idle",
         Success(ret[p])
  PROVE  Booked(job[p].key) /\ (ret[p] = "OK" => job[p].key \in Foreign)
<1>1. job[p].key \in Keys
  BY DEF TypeOK, Jobs
<1> QED
  BY <1>1 DEF Booked, Books, Success, BookedWasPosted

LEMMA LegsPostedStep ==
  TranInv /\ BookedWasPosted /\ EngineUse /\ LegsPosted /\ [OutNext]_outVars => LegsPosted'
<1> SUFFICES ASSUME TranInv, BookedWasPosted, EngineUse, LegsPosted, [OutNext]_outVars
             PROVE  LegsPosted'
  OBVIOUS
<1>0. /\ TypeOK /\ TranTypes /\ (Paid => Paid')
      /\ \A k : Booked(k) => Booked(k)'
      /\ \A p \in Procs : UsesEngine(p)
      /\ \A c \in {"DB", "CHECK", "CONV", "COMM", "FAIL", "NONEED", "ANDCZ", "NOCZ"} :
            ~Success(c)
  BY BookedKept DEF TranInv, EngineUse, Success
<1>k. ASSUME NEW q \in Procs, UNCHANGED <<stage[q], code[q]>> PROVE LegsUpTo(q)'
  BY <1>0, <1>k, KindKept DEF LegsPosted, LegsUpTo, Succeeded, Success
<1>m. ASSUME NEW p \in Procs, LegsUpTo(p)', center' # "none" => Paid',
             (\E c : Exit(p, c)) \/ (UNCHANGED code /\ \E s : To(p, s))
      PROVE  LegsPosted'
  <2>1. \A q \in Procs \ {p} : UNCHANGED <<stage[q], code[q]>>
    BY <1>0, <1>m, ToEffect, ExitEffect
  <2> QED
    BY <1>k, <1>m, <2>1 DEF LegsPosted
<1>1. CASE UNCHANGED <<stage, code>> /\ (center' # "none" => center # "none")
  BY <1>0, <1>k, <1>1 DEF LegsPosted
<1>2. ASSUME NEW p \in Procs, center' # "none" => center # "none",
             \/ \E c : Exit(p, c) /\ ~Success(c)
             \/ UNCHANGED code /\ \E s \in Stages \ {"pack", "main", "reply"} : To(p, s)
      PROVE  LegsPosted'
  <2>1. LegsUpTo(p)'
    BY <1>0, <1>2, ToEffect, ExitEffect DEF LegsUpTo, Succeeded, Success
  <2> QED
    BY <1>0, <1>m, <1>2, <2>1 DEF LegsPosted
<1>3. ASSUME NEW p \in Procs, BeforeTransOut(p) PROVE LegsPosted'
  <2>1. CASE BeforeLegs = {} /\ To(p, "pack") /\ UNCHANGED code
    <3>1. LegsUpTo(p)'
      BY <1>0, <2>1, ToEffect DEF LegsUpTo, Succeeded, Paid
    <3> QED
      BY <1>0, <1>m, <1>3, <2>1, <3>1 DEF BeforeTransOut, LegsPosted
  <2> QED
    BY <1>0, <1>2, <1>3, <2>1 DEF BeforeTransOut, Stages
<1>4. ASSUME NEW p \in Procs, BeforeBooked(p) PROVE LegsPosted'
  <2>1. CASE Success(ret[p]) /\ To(p, "pack") /\ UNCHANGED code
    <3>1. Books(p, BeforeLegs) /\ pc[p] = "idle"
      BY <1>0, <1>4 DEF BeforeBooked, Returned, UsesEngine
    <3>2. Paid
      BY <1>0, <2>1, <3>1, SuccessBooked, OneFirstLeg DEF Paid, Books
    <3>3. LegsUpTo(p)'
      BY <1>0, <2>1, <3>2, ToEffect DEF LegsUpTo, Succeeded
    <3> QED
      BY <1>0, <1>m, <1>4, <2>1, <3>3 DEF BeforeBooked, LegsPosted
  <2> QED
    BY <1>2, <1>4, <2>1 DEF BeforeBooked
<1>5. ASSUME NEW p \in Procs, TransferToPH(p) PROVE LegsPosted'
  <2>1. Paid
    BY <1>5 DEF TransferToPH, LegsPosted, LegsUpTo
  <2>2. LegsUpTo(p)'
    BY <1>0, <1>5, ToEffect, ExitEffect DEF TransferToPH, LegsUpTo, Succeeded
  <2> QED
    BY <1>0, <1>m, <1>5, <2>1, <2>2 DEF TransferToPH
<1>6. ASSUME NEW p \in Procs, AfterTransOut(p) PROVE LegsPosted'
  <2>1. CASE AfterLegs = {} /\ \E c : Exit(p, c)
    <3>1. LegsUpTo(p)'
      BY <1>0, <2>1, ExitEffect, KindKept DEF LegsUpTo
    <3> QED
      BY <1>0, <1>m, <1>6, <2>1, <3>1 DEF AfterTransOut, LegsPosted
  <2>2. CASE AfterLegs = {Main} /\ To(p, "main") /\ UNCHANGED code
    <3>1. ~HasSide'
      BY <2>2, KindKept, OutTranAssumption DEF AfterLegs
    <3>2. LegsUpTo(p)'
      BY <1>0, <2>2, <3>1, ToEffect DEF LegsUpTo, Succeeded
    <3> QED
      BY <1>0, <1>m, <1>6, <2>2, <3>2 DEF AfterTransOut, LegsPosted
  <2> QED
    BY <1>0, <1>2, <1>6, <2>1, <2>2 DEF AfterTransOut, Stages
<1>7. ASSUME NEW p \in Procs, SideBooked(p) PROVE LegsPosted'
  <2>0. Books(p, {Side}) /\ HasSide /\ pc[p] = "idle" /\ job[p].key = Side
    BY <1>0, <1>7 DEF SideBooked, Returned, UsesEngine, Books
  <2>1. ASSUME Exit(p, ret[p]), Success(ret[p]), ret[p] = "OK" \/ IsCredit
        PROVE  LegsPosted'
    <3>1. Booked(Side) /\ (ret[p] = "OK" => Side \in Foreign)
      BY <1>0, <2>0, <2>1, SuccessBooked
    <3>2. Booked(Main) \/ Main \notin AfterLegs
      BY <1>0, <2>0, <2>1, <3>1, OutTranAssumption
         DEF AfterLegs, IsCredit, HasSide, Booked, TranTypes
    <3>3. \A k \in AfterLegs : Booked(k)
      BY <3>1, <3>2 DEF AfterLegs
    <3>4. LegsUpTo(p)'
      BY <1>0, <2>1, <3>3, ExitEffect, KindKept DEF LegsUpTo
    <3> QED
      BY <1>0, <1>m, <1>7, <2>1, <3>4 DEF SideBooked, LegsPosted
  <2>2. ASSUME ret[p] = "SUCC", To(p, "main"), UNCHANGED code
        PROVE  LegsPosted'
    <3>1. Booked(Side)
      BY <1>0, <2>0, <2>2, SuccessBooked DEF Success
    <3>2. LegsUpTo(p)'
      BY <1>0, <2>2, <3>1, ToEffect DEF LegsUpTo, Succeeded
    <3> QED
      BY <1>0, <1>m, <1>7, <2>2, <3>2 DEF SideBooked, LegsPosted
  <2> QED
    BY <1>2, <1>7, <2>1, <2>2 DEF SideBooked, Success
<1>8. ASSUME NEW p \in Procs, MainBooked(p) PROVE LegsPosted'
  <2>0. Books(p, {Main}) /\ pc[p] = "idle" /\ job[p].key = Main /\ Exit(p, ret[p])
    BY <1>0, <1>8 DEF MainBooked, Returned, UsesEngine, Books
  <2>1. ASSUME Success(ret[p]) PROVE LegsPosted'
    <3>1. Booked(Main) /\ (HasSide => Booked(Side))
      BY <1>0, <1>8, <2>0, <2>1, SuccessBooked DEF MainBooked, LegsPosted, LegsUpTo
    <3>2. \A k \in AfterLegs : Booked(k)
      BY <3>1 DEF AfterLegs
    <3>3. LegsUpTo(p)'
      BY <1>0, <2>0, <3>2, ExitEffect, KindKept DEF LegsUpTo
    <3> QED
      BY <1>0, <1>m, <1>8, <2>0, <3>3 DEF MainBooked, LegsPosted
  <2> QED
    BY <1>2, <1>8, <2>0, <2>1 DEF MainBooked
<1>9. ASSUME NEW p \in Procs, Reply(p) \/ OP_DoFinish(p) \/ Die(p) PROVE LegsPosted'
  <2>1. \E s \in {"finish", "idle"} : To(p, s)
    BY <1>9 DEF Reply, OP_DoFinish, Die
  <2>2. \A q \in Procs \ {p} : UNCHANGED <<stage[q], code[q]>>
    BY <1>0, <1>9, <2>1, ToEffect DEF Reply, OP_DoFinish, Die, TranTypes
  <2>3. LegsUpTo(p)'
    BY <1>0, <2>1, ToEffect DEF LegsUpTo, Succeeded
  <2> QED
    BY <1>0, <1>k, <1>9, <2>2, <2>3 DEF LegsPosted, Reply, OP_DoFinish, Die
<1>10. ASSUME NEW p \in Procs, NEW k \in Keys, ManualReverse(p, k) PROVE LegsPosted'
  BY <1>2, <1>10 DEF ManualReverse, Stages
<1>11. ASSUME NEW p \in Procs,
              \/ Submit(p) \/ CenterAnswer(p) \/ OPAfterCommToPH(p) \/ Cancelled(p)
              \/ PF_0066Ask(p) \/ PF_0066Update(p) \/ ManualReversed(p)
       PROVE  LegsPosted'
  BY <1>0, <1>2, <1>11
     DEF Submit, CenterAnswer, OPAfterCommToPH, Cancelled, PF_0066Ask, PF_0066Update,
         ManualReversed, Stages
<1>12. CASE Engine \/ CenterDecide \/ PF_0009 \/ OPT_ADM_DELTRAN
  BY <1>1, <1>12 DEF Engine, CenterDecide, PF_0009, OPT_ADM_DELTRAN, tranVars
<1> QED
  BY <1>1, <1>3, <1>4, <1>5, <1>6, <1>7, <1>8, <1>9, <1>10, <1>11, <1>12
     DEF OutNext, Request, outVars, tranVars

(* What a transaction does with the engine, and what it has booked. *)
LegInv == TranInv /\ IInv /\ EngineUse /\ LegsPosted

LEMMA LegInductive == OutSpec => []LegInv
<1>1. OutInit => EngineUse /\ LegsPosted
  BY DEF OutInit, Init, EngineUse, UsesEngine, Calling, LegsPosted, LegsUpTo, Succeeded
<1>2. OutSpec => []IInv
  BY UsesBooking, Inductive, PTL
<1>3. IInv => TypeOK /\ BookedWasPosted
  BY DEF IInv
<1>4. TranInv => TypeOK /\ TranTypes
  BY DEF TranInv
<1> QED
  BY <1>1, <1>2, <1>3, <1>4, TranInductive, EngineUseStep, LegsPostedStep, PTL
     DEF OutSpec, LegInv

(* The center hears of a booked credit only when the core system debited   *)
(* the customer -- a duplicate submission, a crash or a journal row that   *)
(* cannot be read never sends an unpaid credit.                            *)
THEOREM PaidBeforeAsked == OutSpec => []DebitedBeforeAsked
<1>1. LegInv => DebitedBeforeAsked
  BY DEF LegInv, LegsPosted, Paid, Booked, DebitedBeforeAsked
<1> QED
  BY <1>1, LegInductive, PTL
-----------------------------------------------------------------------------
(* Who reverses the customer's leg holds a refusal of the center or lost   *)
(* its answer, from the moment the reversal is begun.                      *)
Reversing(p) == pc[p] \in {"cquery", "oquery", "csend"}
Doubted      == center = "rejected" \/ "lost" \in doubts
Reason(k)    == k = Main => Main \in byHand \/ Doubted
ReversesWithReason ==
    /\ \A p \in Procs : tc[p] = "rejected" => center = "rejected"
    /\ \A p \in Procs : tc[p] = "lost" => "lost" \in doubts
    /\ \A p \in Procs : Reversing(p) => Reason(job[p].key)
    /\ \A c \in calls : c.op = "reverse" => Reason(c.key)

(* A reason stays. *)
LEMMA ReasonKept ==
  ASSUME OneOpener, [OutNext]_outVars, NEW k, Reason(k)
  PROVE  Reason(k)'
<1>1. doubts \subseteq doubts' /\ byHand \subseteq byHand'
  BY DEF OutNext, Engine, Request, outVars, tranVars, Submit, BeforeTransOut, BeforeBooked,
         TransferToPH, CenterDecide, CenterAnswer, OPAfterCommToPH, AfterTransOut, Cancelled,
         SideBooked, MainBooked, Reply, OP_DoFinish, PF_0009, OPT_ADM_DELTRAN, PF_0066Ask,
         PF_0066Update,
         ManualReverse, ManualReversed, Die
<1> QED
  BY <1>1, CenterDecidesOnce DEF Reason, Doubted

(* The engine begins no reversal of its own, and sends those begun. *)
LEMMA EngineReverses ==
  ASSUME TypeOK, Engine
  PROVE  /\ \A p \in Procs : Reversing(p)' => Reversing(p) /\ job'[p].key = job[p].key
         /\ \A c \in calls' \ calls : c.op = "reverse" =>
               \E p \in Procs : Reversing(p) /\ c.key = job[p].key
<1> USE DEF Reversing
<1>1. ASSUME NEW p \in Procs, AccountingSend(p) \/ AccountCancelSend(p)
      PROVE  /\ \A q \in Procs : Reversing(q)' => Reversing(q) /\ job'[q].key = job[q].key
             /\ \A c \in calls' \ calls : c.op = "reverse" =>
                   Reversing(p) /\ c.key = job[p].key
  BY <1>1, ReturnEffect, GotoEffect DEF AccountingSend, AccountCancelSend, Call
<1>2. ASSUME NEW p \in Procs, ProcStep(p), ~AccountingSend(p), ~AccountCancelSend(p)
      PROVE  /\ \A q \in Procs : Reversing(q)' => Reversing(q) /\ job'[q].key = job[q].key
             /\ calls' = calls
  BY <1>2, ReturnEffect, GotoEffect, BeginEffect
     DEF ProcStep, AccountingQuery, AccountingInsert, AccountingReply, CallLost,
         AccountCancelQuery, AccountCancelReply, Job
<1>3. CASE UNCHANGED <<calls, pc, job>>
  BY <1>3
<1> QED
  BY <1>1, <1>2, <1>3 DEF Engine, BankExecute, ManualAdjust

LEMMA ReversesStep ==
  TranInv /\ ReversesWithReason /\ [OutNext]_outVars => ReversesWithReason'
<1> SUFFICES ASSUME TranInv, ReversesWithReason, [OutNext]_outVars PROVE ReversesWithReason'
  OBVIOUS
<1>0. /\ TypeOK /\ TranTypes /\ OneOpener
      /\ center = "rejected" => center' = "rejected"
      /\ \A k \in Keys : Reason(k) => Reason(k)'
      /\ \A p \in Procs : job[p].key \in Keys
      /\ \A c \in calls : c.key \in Keys
  BY CenterDecidesOnce, ReasonKept DEF TranInv, TypeOK, Jobs, Calls
<1> DEFINE Replied  == /\ \A p \in Procs : tc'[p] = "rejected" => center' = "rejected"
                       /\ \A p \in Procs : tc'[p] = "lost" => "lost" \in doubts'
           Reversed == /\ \A p \in Procs : Reversing(p)' => Reason(job[p].key)'
                       /\ \A c \in calls' : c.op = "reverse" => Reason(c.key)'
<1>1. Replied
  <2>1. CASE UNCHANGED <<tc, doubts>>
    BY <1>0, <2>1 DEF ReversesWithReason
  <2>2. ASSUME NEW p \in Procs, CenterAnswer(p) PROVE Replied
    BY <1>0, <2>2 DEF CenterAnswer, ReversesWithReason, TranTypes
  <2>3. ASSUME NEW p \in Procs, PF_0066Ask(p) PROVE Replied
    BY <1>0, <2>3 DEF PF_0066Ask, ReversesWithReason, TranTypes
  <2>4. ASSUME NEW p \in Procs, OP_DoFinish(p) \/ PF_0066Update(p) \/ Die(p) PROVE Replied
    BY <1>0, <2>4 DEF OP_DoFinish, PF_0066Update, Die, ReversesWithReason, TranTypes
  <2> QED
    BY <2>1, <2>2, <2>3, <2>4
       DEF OutNext, Engine, Request, outVars, tranVars, Submit, BeforeTransOut, BeforeBooked,
           TransferToPH, CenterDecide, OPAfterCommToPH, AfterTransOut, Cancelled, SideBooked,
           MainBooked, Reply, PF_0009, OPT_ADM_DELTRAN, ManualReverse, ManualReversed
<1>2. Reversed
  <2>1. CASE UNCHANGED bookVars
    BY <1>0, <2>1 DEF bookVars, ReversesWithReason, Reversing
  <2>2. CASE Engine
    BY <1>0, <2>2, EngineReverses DEF ReversesWithReason
  <2>3. ASSUME NEW p \in Procs, NEW k \in Keys, NEW flag \in 1..3, AccountCancelStart(p, k, flag), Reason(k)'
        PROVE  Reversed
    <3>1. /\ \A q \in Procs \ {p} : pc'[q] = pc[q] /\ job'[q] = job[q]
          /\ job'[p].key = k /\ calls' = calls
      BY <1>0, <2>3, EndEffect, BeginEffect DEF AccountCancelStart, Job
    <3> QED
      BY <1>0, <2>3, <3>1 DEF ReversesWithReason, Reversing
  <2>4. ASSUME NEW p \in Procs, NEW k \in Keys, AccountingStart(p, k) PROVE Reversed
    <3>1. /\ \A q \in Procs \ {p} : pc'[q] = pc[q] /\ job'[q] = job[q]
          /\ pc'[p] \in {"idle", "query"} /\ calls' = calls
      BY <1>0, <2>4, EndEffect, BeginEffect DEF AccountingStart
    <3> QED
      BY <1>0, <2>4, <3>1 DEF ReversesWithReason, Reversing
  <2>5. ASSUME NEW p \in Procs, Crash(p) PROVE Reversed
    <3>1. /\ \A q \in Procs \ {p} : pc'[q] = pc[q] /\ job'[q] = job[q]
          /\ pc'[p] = "idle" /\ calls' = calls
      BY <1>0, <2>5, ReturnEffect DEF Crash
    <3> QED
      BY <1>0, <2>5, <3>1 DEF ReversesWithReason, Reversing
  <2>6. ASSUME NEW p \in Procs, AfterTransOut(p), NEW k \in BeforeLegs, Refusal(p)
        PROVE  k \in Keys /\ Reason(k)
    BY <2>6, OutTranAssumption
       DEF Refusal, BeforeLegs, IsCredit, Reason, Doubted, ReversesWithReason
  <2>7. ASSUME NEW p \in Procs, Request(p) PROVE Reversed
    BY <1>0, <2>1, <2>3, <2>4, <2>6, <2>7, OutTranAssumption
       DEF Request, Submit, BeforeTransOut, BeforeBooked, TransferToPH, CenterAnswer,
           OPAfterCommToPH, AfterTransOut, Cancelled, SideBooked, MainBooked, Reply,
           OP_DoFinish, BeforeLegs
  <2>8. ASSUME NEW p \in Procs, NEW k \in Keys, ManualReverse(p, k) PROVE Reversed
    BY <2>3, <2>8 DEF ManualReverse, Reason
  <2>9. ASSUME NEW p \in Procs, Die(p) PROVE Reversed
    BY <2>1, <2>5, <2>9 DEF Die
  <2> QED
    BY <2>1, <2>2, <2>7, <2>8, <2>9
       DEF OutNext, outVars, CenterDecide, PF_0009, OPT_ADM_DELTRAN, PF_0066Ask,
           PF_0066Update, ManualReversed
<1> QED
  BY <1>1, <1>2 DEF ReversesWithReason

(* The customer's leg is reversed only when the center refused or its      *)
(* answer was lost (or by an operator): no retry, no unclear answer and no *)
(* other leg's reversal ends in one.                                       *)
THEOREM ReversedWithReason == OutSpec => []ReversalJustified
<1>1. OutInit => ReversesWithReason
  BY DEF OutInit, Init, ReversesWithReason, Reversing
<1>2. ReversesWithReason => ReversalJustified
  BY DEF ReversesWithReason, ReversalJustified, Reason, Doubted
<1> QED
  BY <1>1, <1>2, TranInductive, ReversesStep, PTL DEF OutSpec
-----------------------------------------------------------------------------
(* One process at a time is at work on the transaction; once it has left   *)
(* with an outcome nobody takes the transaction up again.                  *)
Handling(p) == stage[p] \in {"before", "booking", "pack", "wait", "update", "after", "cancel",
                             "side", "main"}
Served(p)   == stage[p] = "reply" /\ code[p] \in {"OK", "SUCC", "FAIL", "ANDCZ"}
OneHandler  ==
    /\ row = "absent" => \A p \in Procs : ~Handling(p) /\ ~Served(p)
    /\ \A p, q \in Procs : Handling(p) /\ (Handling(q) \/ Served(q)) => p = q

LEMMA OneHandlerStep == TranTypes /\ OneHandler /\ [OutNext]_outVars => OneHandler'
<1> SUFFICES ASSUME TranTypes, OneHandler, [OutNext]_outVars PROVE OneHandler'
  OBVIOUS
<1> USE DEF OneHandler, Handling, Served
<1>1. CASE UNCHANGED <<stage, code>> /\ (row' = "absent" => row = "absent")
  BY <1>1
<1>2. ASSUME NEW p \in Procs, Handling(p), row' # "absent",
             (\E c : Exit(p, c)) \/ (UNCHANGED code /\ \E s : To(p, s))
      PROVE  OneHandler'
  <2>1. \A q \in Procs \ {p} : UNCHANGED <<stage[q], code[q]>>
    BY <1>2, ToEffect, ExitEffect
  <2>2. \A q \in Procs \ {p} : ~Handling(q) /\ ~Served(q)
    BY <1>2
  <2> QED
    BY <1>2, <2>1, <2>2
<1>3. ASSUME NEW p \in Procs, \A q \in Procs \ {p} : UNCHANGED <<stage[q], code[q]>>,
             ~Handling(p)', ~Served(p)', row' = "absent" => row = "absent"
      PROVE  OneHandler'
  BY <1>3
<1>4. ASSUME NEW p \in Procs, Submit(p) PROVE OneHandler'
  <2>1. CASE row = "absent" /\ row' = "unknown" /\ To(p, "before") /\ UNCHANGED code
    BY <2>1, ToEffect
  <2>2. CASE Exit(p, "DB") /\ UNCHANGED row
    BY <1>3, <2>2, ExitEffect
  <2> QED
    BY <1>4, <2>1, <2>2 DEF Submit
<1>5. ASSUME NEW p \in Procs,
             \/ BeforeTransOut(p) \/ BeforeBooked(p) \/ TransferToPH(p) \/ CenterAnswer(p)
             \/ OPAfterCommToPH(p) \/ AfterTransOut(p) \/ Cancelled(p) \/ SideBooked(p)
             \/ MainBooked(p)
      PROVE  OneHandler'
  <2>1. Handling(p)
    BY <1>5 DEF BeforeTransOut, BeforeBooked, TransferToPH, CenterAnswer, OPAfterCommToPH,
                AfterTransOut, Cancelled, SideBooked, MainBooked
  <2>2. row' # "absent"
    BY <1>5, <2>1 DEF BeforeTransOut, BeforeBooked, TransferToPH, CenterAnswer,
                      OPAfterCommToPH, AfterTransOut, Cancelled, SideBooked, MainBooked
  <2>3. (\E c : Exit(p, c)) \/ (UNCHANGED code /\ \E s : To(p, s))
    BY <1>5 DEF BeforeTransOut, BeforeBooked, TransferToPH, CenterAnswer, OPAfterCommToPH,
                AfterTransOut, Cancelled, SideBooked, MainBooked
  <2> QED
    BY <1>2, <2>1, <2>2, <2>3
<1>6. ASSUME NEW p \in Procs,
             \/ Reply(p) \/ OP_DoFinish(p) \/ PF_0066Ask(p) \/ PF_0066Update(p)
             \/ ManualReversed(p) \/ Die(p) \/ \E k \in Keys : ManualReverse(p, k)
      PROVE  OneHandler'
  <2>1. \E s \in {"finish", "idle", "query", "manual"} : To(p, s)
    BY <1>6 DEF Reply, OP_DoFinish, PF_0066Ask, PF_0066Update, ManualReversed, Die,
                ManualReverse
  <2>2. \A q \in Procs \ {p} : code'[q] = code[q]
    BY <1>6 DEF Reply, OP_DoFinish, PF_0066Ask, PF_0066Update, ManualReversed, Die,
                ManualReverse, TranTypes
  <2>3. row' = "absent" => row = "absent"
    BY <1>6 DEF Reply, OP_DoFinish, PF_0066Ask, PF_0066Update, ManualReversed, Die,
                ManualReverse, Closing, IsClearState
  <2> QED
    BY <1>3, <2>1, <2>2, <2>3, ToEffect
<1>7. CASE CenterDecide \/ PF_0009 \/ OPT_ADM_DELTRAN
  BY <1>1, <1>7 DEF CenterDecide, PF_0009, OPT_ADM_DELTRAN
<1> QED
  BY <1>1, <1>4, <1>5, <1>6, <1>7 DEF OutNext, Request, Engine, outVars, tranVars

-----------------------------------------------------------------------------
(* As long as the platform has not begun to reverse, and for ever after it *)
(* ended with success, only legs an operator named are being reversed.     *)
Unreversed == /\ \A c \in calls : c.op = "reverse" => c.key \in byHand
              /\ \A p \in Procs : Reversing(p) => job[p].key \in byHand
Holding(p) == Succeeded(p) \/ (Handling(p) /\ stage[p] # "cancel")
LegsStand  == row = "absent" \/ (\E p \in Procs : Holding(p)) => Unreversed

LEMMA LegsStandStep ==
  TypeOK /\ TranTypes /\ OneHandler /\ LegsStand /\ [OutNext]_outVars => LegsStand'
<1> SUFFICES ASSUME TypeOK, TranTypes, OneHandler, LegsStand, [OutNext]_outVars
             PROVE  LegsStand'
  OBVIOUS
<1>1. ASSUME NEW p \in Procs, AfterTransOut(p), To(p, "cancel") PROVE LegsStand'
  <2>1. Handling(p) /\ row' # "absent" /\ UNCHANGED code
    BY <1>1, ToEffect, ExitEffect DEF AfterTransOut, Handling, OneHandler
  <2>2. \A q \in Procs : ~Holding(q)'
    BY <1>1, <2>1, ToEffect
       DEF Holding, Succeeded, Success, OneHandler, Handling, Served
  <2> QED
    BY <2>1, <2>2 DEF LegsStand
<1>2. ASSUME Unreversed, ~\E p \in Procs : AfterTransOut(p) /\ To(p, "cancel")
      PROVE  Unreversed'
  <2>0. byHand \subseteq byHand'
    BY KindKept
  <2>1. CASE UNCHANGED <<calls, pc, job>>
    BY <1>2, <2>0, <2>1 DEF Unreversed, Reversing
  <2>2. CASE Engine
    BY <1>2, <2>0, <2>2, EngineReverses DEF Unreversed
  <2>3. ASSUME NEW p \in Procs, UNCHANGED calls,
               \A q \in Procs \ {p} : pc'[q] = pc[q] /\ job'[q] = job[q],
               Reversing(p)' => job'[p].key \in byHand'
        PROVE  Unreversed'
    BY <1>2, <2>0, <2>3 DEF Unreversed, Reversing
  <2>4. ASSUME NEW p \in Procs, NEW k \in Keys, AccountingStart(p, k) PROVE Unreversed'
    BY <2>3, <2>4, StartEffect DEF AccountingStart, Reversing
  <2>5. ASSUME NEW p \in Procs, NEW k \in Keys, ManualReverse(p, k) PROVE Unreversed'
    <3>1. AccountCancelStart(p, k, 1) /\ k \in byHand' /\ UNCHANGED calls
      BY <2>5 DEF ManualReverse, AccountCancelStart
    <3> QED
      BY <2>3, <3>1, CancelStartEffect
  <2>6. ASSUME NEW p \in Procs, Die(p) PROVE Unreversed'
    BY <2>1, <2>3, <2>6, ReturnEffect DEF Die, Crash, bookVars, Reversing
  <2>7. ASSUME NEW p \in Procs, BeforeTransOut(p) \/ AfterTransOut(p) \/ SideBooked(p)
        PROVE  Unreversed'
    BY <1>2, <2>1, <2>4, <2>7, OutTranAssumption
       DEF BeforeTransOut, AfterTransOut, SideBooked, BeforeLegs, bookVars
  <2> QED
    BY <2>1, <2>2, <2>5, <2>6, <2>7
       DEF OutNext, Request, outVars, bookVars, Submit, BeforeBooked, TransferToPH,
           CenterAnswer, OPAfterCommToPH, Cancelled, MainBooked, Reply, OP_DoFinish,
           CenterDecide, PF_0009, OPT_ADM_DELTRAN, PF_0066Ask, PF_0066Update, ManualReversed
<1>3. row' = "absent" => row = "absent"
  BY DEF OutNext, Engine, Request, outVars, tranVars, Submit, BeforeTransOut, BeforeBooked,
         TransferToPH, CenterDecide, CenterAnswer, OPAfterCommToPH, AfterTransOut, Cancelled,
         SideBooked, MainBooked, Reply, OP_DoFinish, PF_0009, OPT_ADM_DELTRAN, PF_0066Ask,
         PF_0066Update, ManualReverse, ManualReversed, Die, Closing, IsClearState
<1>4. ASSUME NEW p \in Procs, Holding(p)' PROVE Holding(p) \/ row = "absent"
  <2>1. CASE UNCHANGED <<stage[p], code[p]>>
    BY <1>4, <2>1 DEF Holding, Succeeded, Success, Handling
  <2>2. CASE Submit(p)
    BY <1>4, <2>2, ExitEffect DEF Submit, Holding, Succeeded, Success, Handling
  <2>3. CASE Handling(p) /\ stage[p] # "cancel"
    BY <2>3 DEF Holding
  <2>4. CASE Cancelled(p)
    BY <1>4, <2>4, ExitEffect DEF Cancelled, Holding, Succeeded, Success, Handling
  <2>5. CASE \E s \in {"finish", "idle", "query", "manual"} : To(p, s)
    BY <1>4, <2>5, ToEffect DEF Holding, Succeeded, Handling
  <2>6. CASE stage[p] = "cancel" /\ ~Cancelled(p)
    <3>1. UNCHANGED <<stage[p], code[p]>> \/ stage'[p] = "idle"
      BY <2>6, ToEffect, ExitEffect
         DEF OutNext, Engine, Request, outVars, tranVars, Submit, BeforeTransOut, BeforeBooked,
             TransferToPH, CenterDecide, CenterAnswer, OPAfterCommToPH, AfterTransOut,
             Cancelled, SideBooked, MainBooked, Reply, OP_DoFinish, PF_0009, OPT_ADM_DELTRAN,
             PF_0066Ask, PF_0066Update, ManualReverse, ManualReversed, Die, TranTypes
    <3> QED
      BY <1>4, <2>1, <3>1 DEF Holding, Succeeded, Handling
  <2>7. CASE ~Handling(p)
    <3>1. \/ UNCHANGED <<stage[p], code[p]>> \/ Submit(p)
          \/ \E s \in {"finish", "idle", "query", "manual"} : To(p, s)
      BY <2>7, ToEffect, ExitEffect
         DEF OutNext, Engine, Request, outVars, tranVars, BeforeTransOut, BeforeBooked, Submit,
             TransferToPH, CenterDecide, CenterAnswer, OPAfterCommToPH, AfterTransOut,
             Cancelled, SideBooked, MainBooked, Reply, OP_DoFinish, PF_0009, OPT_ADM_DELTRAN,
             PF_0066Ask, PF_0066Update, ManualReverse, ManualReversed, Die, TranTypes, Handling
    <3> QED
      BY <2>1, <2>2, <2>5, <3>1
  <2> QED
    BY <2>3, <2>4, <2>6, <2>7
<1> QED
  BY <1>1, <1>2, <1>3, <1>4 DEF LegsStand

(* A posting nobody asked to reverse stands: the core system reverses what *)
(* it is asked to, and a serial names one posting.                         *)
LEMMA UnreversedStands ==
  ASSUME IInv, UndoInv, Unreversed, NEW k, k \notin byHand, Posted(k) # {}
  PROVE  Stands(k)
<1> SUFFICES ASSUME NEW b \in Posted(k), Undone(b.serial) PROVE FALSE
  BY DEF Stands
<1>1. PICK c \in calls : c.op = "reverse" /\ c.target = b.serial /\ Answer(c.serial, "ok")
  BY DEF Undone
<1>2. PICK d \in Posted(c.key) : d.serial = b.serial
  BY <1>1 DEF UndoInv
<1>3. c.key = k
  BY <1>2 DEF Posted, IInv, SerialInv
<1> QED
  BY <1>1, <1>3 DEF Unreversed
-----------------------------------------------------------------------------
(* The first leg is booked in the journal from its success until the       *)
(* reversal looks it up; a reversal that ended with 0 has undone it.       *)
Reversed(k)        == \E b \in Posted(k) : Undone(b.serial)
FirstLegBooked(p)  == \/ stage[p] = "booking" /\ pc[p] = "idle" /\ ret[p] = "SUCC"
                      \/ stage[p] \in {"pack", "wait", "update", "after"}
                      \/ stage[p] = "cancel" /\ pc[p] \in {"cquery", "oquery"}
FirstLegUndone(p)  == \/ stage[p] = "cancel" /\ pc[p] = "idle" /\ ret[p] = "OK"
                      \/ stage[p] = "reply" /\ code[p] = "ANDCZ"
CancelTrue(p, k)   == /\ FirstLegBooked(p) => acct[k].res = "booked"
                      /\ FirstLegUndone(p) => Reversed(k)
CancelExact        == \A p \in Procs, k \in BeforeLegs : Trusted(k) => CancelTrue(p, k)

(* Nobody but the process at work on the transaction writes the row of a   *)
(* leg that can be trusted, and it does so only inside a call.             *)
LEMMA FirstRowKept ==
  ASSUME TypeOK, EngineUse, OneHandler, [OutNext]_outVars,
         NEW p \in Procs, NEW k \in BeforeLegs, Trusted(k)', FirstLegBooked(p),
         acct[k].res = "booked"
  PROVE  acct'[k].res = "booked"
<1>0. k \in Keys /\ k \notin blind' /\ k \notin byHand
  BY KindKept, OutTranAssumption DEF Trusted, BeforeLegs
<1>1. CASE RowKept(k)
  BY <1>1 DEF RowKept
<1>2. ASSUME NEW q \in Procs, job[q].key = k, AccountingInsert(q), ~RowKept(k) PROVE FALSE
  BY <1>2 DEF AccountingInsert, RowKept, Absent
<1>3. ASSUME NEW q \in Procs, job[q].key = k, AccountingReply(q) \/ AccountCancelReply(q)
      PROVE  FALSE
  <2>1. pc[q] \in {"await", "cawait"} /\ stage[q] # "manual"
    BY <1>0, <1>3 DEF AccountingReply, AccountCancelReply, EngineUse, UsesEngine, Cancels
  <2>2. Handling(q)
    BY <2>1 DEF EngineUse, UsesEngine, Calling, Handling
  <2>3. p = q
    BY <2>2 DEF OneHandler, FirstLegBooked, Handling
  <2> QED
    BY <2>1, <2>3 DEF FirstLegBooked, EngineUse, UsesEngine, Calling
<1> QED
  BY <1>0, <1>1, <1>2, <1>3, RowWriter, OutStepBooks

LEMMA ReversedKept ==
  ASSUME [OutNext]_outVars, NEW k, Reversed(k)
  PROVE  Reversed(k)'
<1>1. Posted(k) \subseteq Posted(k)' /\ \A s : Undone(s) => Undone(s)'
  BY OutStepBooks, PostedGrows, KnownStays
<1> QED
  BY <1>1 DEF Reversed

(* What one process does leaves the others where they are. *)
LEMMA OtherKept ==
  ASSUME TypeOK, TranTypes, EngineUse, [OutNext]_outVars, NEW p \in Procs
  PROVE  \/ UNCHANGED <<stage[p], pc[p], job[p], ret[p], code[p]>>
         \/ (ProcStep(p) /\ UNCHANGED tranVars)
         \/ Request(p) \/ PF_0066Ask(p) \/ PF_0066Update(p) \/ ManualReversed(p) \/ Die(p)
         \/ \E l \in Keys : ManualReverse(p, l)
<1> DEFINE Unmoved(q) == UNCHANGED <<stage[q], pc[q], job[q], ret[q], code[q]>>
<1>1. ASSUME NEW q \in Procs, q # p, ProcStep(q), UNCHANGED tranVars PROVE Unmoved(p)
  BY <1>1, ProcStepEffect DEF tranVars
<1>2. ASSUME NEW q \in Procs, q # p, Request(q) PROVE Unmoved(p)
  <2>1. UNCHANGED <<stage[p], code[p]>>
    BY <1>2, ToEffect, ExitEffect
       DEF Request, Submit, BeforeTransOut, BeforeBooked, TransferToPH, CenterAnswer,
           OPAfterCommToPH, AfterTransOut, Cancelled, SideBooked, MainBooked, Reply,
           OP_DoFinish, TranTypes
  <2>2. UNCHANGED <<pc[p], job[p], ret[p]>>
    BY <1>2, StartEffect, CancelStartEffect, OutTranAssumption
       DEF Request, Submit, BeforeTransOut, BeforeBooked, TransferToPH, CenterAnswer,
           OPAfterCommToPH, AfterTransOut, Cancelled, SideBooked, MainBooked, Reply,
           OP_DoFinish, bookVars, BeforeLegs
  <2> QED
    BY <2>1, <2>2
<1>3. ASSUME NEW q \in Procs, q # p,
             PF_0066Ask(q) \/ PF_0066Update(q) \/ ManualReversed(q) \/ Die(q)
             \/ \E l \in Keys : ManualReverse(q, l)
      PROVE  Unmoved(p)
  BY <1>3, ToEffect, CancelStartEffect, ReturnEffect
     DEF PF_0066Ask, PF_0066Update, ManualReversed, Die, ManualReverse, Crash, bookVars,
         TranTypes
<1> QED
  BY <1>1, <1>2, <1>3
     DEF OutNext, Engine, outVars, bookVars, tranVars, BankExecute, ManualAdjust,
         CenterDecide, PF_0009, OPT_ADM_DELTRAN

LEMMA CancelExactStep ==
  LegInv /\ UndoInv /\ SuspendInv /\ OneHandler /\ CancelExact /\ [OutNext]_outVars
      => CancelExact'
<1> SUFFICES ASSUME LegInv, UndoInv, SuspendInv, OneHandler, CancelExact, [OutNext]_outVars,
                    NEW p \in Procs, NEW k \in BeforeLegs, Trusted(k)'
             PROVE  CancelTrue(p, k)'
  BY KindKept DEF CancelExact
<1>0. /\ TypeOK /\ TranTypes /\ IInv /\ UsesEngine(p) /\ k \in Keys
      /\ Trusted(k) /\ CancelTrue(p, k)
      /\ FirstLegBooked(p) => acct'[k].res = "booked"
      /\ FirstLegUndone(p) => Reversed(k)'
  <2>1. blind \subseteq blind' /\ byHand \subseteq byHand'
    BY KindKept, OutStepBooks, HistoryGrows
  <2>2. TypeOK /\ TranTypes /\ IInv /\ EngineUse /\ k \in Keys
    BY OutTranAssumption DEF LegInv, TranInv, BeforeLegs
  <2>3. Trusted(k)
    BY <2>1 DEF Trusted
  <2>4. CancelTrue(p, k)
    BY <2>3 DEF CancelExact
  <2> QED
    BY <2>2, <2>3, <2>4, FirstRowKept, ReversedKept DEF CancelTrue, EngineUse
<1> USE DEF CancelTrue
<1>1. CASE UNCHANGED <<stage[p], pc[p], ret[p], code[p]>>
  BY <1>0, <1>1 DEF FirstLegBooked, FirstLegUndone
<1>2. CASE \/ stage'[p] \in {"idle", "before", "side", "main", "finish", "query", "manual"}
           \/ stage'[p] = "reply" /\ code'[p] # "ANDCZ"
  BY <1>2 DEF FirstLegBooked, FirstLegUndone
<1>3. CASE ProcStep(p) /\ UNCHANGED tranVars
  <2>1. CASE stage[p] \notin {"booking", "cancel"}
    BY <1>0, <1>2, <1>3, <2>1 DEF UsesEngine, Calling, tranVars, Stages, TranTypes, ProcStep,
       AccountingQuery, AccountingInsert, AccountingSend, AccountingReply, CallLost,
       AccountCancelQuery, AccountCancelSend, AccountCancelReply
  <2>2. CASE stage[p] = "booking"
    <3>1. job[p].key = k /\ pc[p] \notin {"cquery", "oquery", "csend", "cawait"}
      BY <1>0, <2>2, OneFirstLeg DEF UsesEngine, Books
    <3>2. SUFFICES ASSUME pc'[p] = "idle", ret'[p] = "SUCC"
                   PROVE  acct'[k].res = "booked"
      BY <1>3, <2>2 DEF FirstLegBooked, FirstLegUndone, tranVars
    <3>3. CASE AccountingQuery(p)
      BY <1>0, <3>1, <3>2, <3>3, ReturnEffect, GotoEffect DEF AccountingQuery
    <3>4. CASE AccountingReply(p)
      <4>1. ~Answer(job[p].serial, "suspended")
        <5>1. PICK c \in calls : c.op = "book" /\ c.key = k /\ c.serial = job[p].serial
          BY <1>0, <3>1, <3>4 DEF AccountingReply, IInv, JobInv, JobOK
        <5>2. k \notin InCredit
          BY OutTranAssumption DEF BeforeLegs
        <5> QED
          BY <5>1, <5>2 DEF SuspendInv
      <4>2. SetResult(k, "booked")
        BY <1>0, <3>1, <3>2, <3>4, <4>1, ReturnEffect DEF AccountingReply, Trusted, Journal
      <4> QED
        BY <1>0, <4>2, SetResultEffect DEF Results
    <3> QED
      BY <1>0, <1>3, <3>1, <3>2, <3>3, <3>4, ReturnEffect, GotoEffect
         DEF ProcStep, AccountingInsert, AccountingSend, CallLost, Call, AccountCancelQuery,
             AccountCancelSend, AccountCancelReply
  <2>3. CASE stage[p] = "cancel"
    <3>1. job[p].key = k /\ pc[p] \in {"cquery", "oquery", "csend", "cawait"}
      BY <1>0, <1>3, <2>3, OneFirstLeg, ProcStepEffect DEF UsesEngine, Cancels
    <3>2. SUFFICES ASSUME pc'[p] = "idle", ret'[p] = "OK"
                   PROVE  Reversed(k)'
      BY <1>0, <1>3, <2>3, <3>1, ProcStepEffect DEF FirstLegBooked, FirstLegUndone, tranVars
    <3>3. CASE AccountCancelQuery(p)
      BY <1>0, <2>3, <3>1, <3>2, <3>3, ReturnEffect, BeginEffect
         DEF AccountCancelQuery, FirstLegBooked
    <3>4. CASE AccountCancelReply(p)
      <4>1. Answer(job[p].serial, "ok")
        BY <1>0, <3>1, <3>2, <3>4, ReturnEffect DEF AccountCancelReply, Trusted
      <4>2. PICK c \in calls : /\ c.op = "reverse" /\ c.key = k
                               /\ c.serial = job[p].serial /\ c.target = job[p].target
        BY <1>0, <3>1, <3>4 DEF AccountCancelReply, IInv, JobInv, JobOK
      <4>3. PICK b \in Posted(k) : b.serial = c.target
        BY <4>1, <4>2 DEF UndoInv
      <4>4. Reversed(k)
        BY <4>1, <4>2, <4>3 DEF Reversed, Undone
      <4> QED
        BY <4>4, ReversedKept
    <3> QED
      BY <1>0, <1>3, <3>1, <3>2, <3>3, <3>4, ReturnEffect, GotoEffect
         DEF ProcStep, AccountCancelSend, CallLost, Call, AccountingQuery, AccountingInsert,
             AccountingSend, AccountingReply
  <2> QED
    BY <2>1, <2>2, <2>3
<1>4. CASE BeforeTransOut(p)
  <2>1. CASE To(p, "pack")
    BY <1>0, <1>4, <2>1, ToEffect DEF BeforeTransOut, Exit
  <2>2. ASSUME NEW l \in BeforeLegs, AccountingStart(p, l), To(p, "booking")
        PROVE  CancelTrue(p, k)'
    BY <1>0, <2>2, ToEffect, StartEffect, OneFirstLeg DEF FirstLegBooked, FirstLegUndone
  <2>3. CASE Exit(p, "CHECK")
    BY <1>0, <1>2, <2>3, ExitEffect
  <2> QED
    BY <1>4, <2>1, <2>2, <2>3 DEF BeforeTransOut
<1>5. CASE BeforeBooked(p)
  <2>0. UNCHANGED pc /\ pc[p] = "idle"
    BY <1>5 DEF BeforeBooked, bookVars, Returned
  <2>1. CASE Success(ret[p]) /\ To(p, "pack")
    <3>1. job[p].key = k /\ (ret[p] = "OK" => k \in Foreign)
      BY <1>0, <1>5, <2>0, OneFirstLeg DEF BeforeBooked, UsesEngine, Books
    <3>2. FirstLegBooked(p)
      BY <1>0, <1>5, <2>0, <2>1, <3>1 DEF BeforeBooked, Success, FirstLegBooked, Trusted
    <3> QED
      BY <1>0, <2>1, <3>2, ToEffect DEF FirstLegUndone
  <2>2. CASE Exit(p, ret[p])
    <3>1. ret[p] # "ANDCZ"
      BY <1>0 DEF TypeOK, Codes
    <3> QED
      BY <1>0, <1>2, <2>2, <3>1, ExitEffect
  <2> QED
    BY <1>5, <2>1, <2>2 DEF BeforeBooked
<1>6. CASE TransferToPH(p) \/ CenterAnswer(p) \/ OPAfterCommToPH(p)
  <2>1. FirstLegBooked(p)
    BY <1>6 DEF TransferToPH, CenterAnswer, OPAfterCommToPH, FirstLegBooked
  <2>2. \/ \E s \in {"wait", "update", "after"} : To(p, s)
        \/ \E c \in {"CONV", "DB"} : Exit(p, c)
    BY <1>6 DEF TransferToPH, CenterAnswer, OPAfterCommToPH
  <2> QED
    BY <1>0, <2>1, <2>2, ToEffect, ExitEffect DEF FirstLegUndone
<1>7. CASE AfterTransOut(p)
  <2>1. ASSUME NEW l \in BeforeLegs, NEW flag \in 1..3, AccountCancelStart(p, l, flag), To(p, "cancel")
        PROVE  CancelTrue(p, k)'
    <3>1. FirstLegBooked(p) /\ l = k
      BY <1>7, OneFirstLeg DEF AfterTransOut, FirstLegBooked
    <3> QED
      BY <1>0, <2>1, <3>1, ToEffect, CancelStartEffect DEF FirstLegUndone
  <2>2. ASSUME NEW c, c # "ANDCZ", Exit(p, c) PROVE CancelTrue(p, k)'
    BY <1>0, <1>2, <2>2, ExitEffect
  <2>3. CASE To(p, "side") \/ To(p, "main")
    BY <1>0, <1>2, <2>3, ToEffect
  <2> QED
    BY <1>7, <2>1, <2>2, <2>3 DEF AfterTransOut
<1>8. CASE Cancelled(p)
  <2>1. ret[p] = "OK" => FirstLegUndone(p)
    BY <1>8 DEF Cancelled, Returned, FirstLegUndone
  <2> QED
    BY <1>0, <1>8, <2>1, ExitEffect DEF Cancelled, FirstLegBooked, FirstLegUndone
<1>9. CASE SideBooked(p) \/ MainBooked(p)
  <2>1. ret[p] # "ANDCZ"
    BY <1>0 DEF TypeOK, Codes
  <2>2. Exit(p, ret[p]) \/ To(p, "main")
    BY <1>9 DEF SideBooked, MainBooked
  <2> QED
    BY <1>0, <1>2, <2>1, <2>2, ToEffect, ExitEffect
<1>10. CASE \/ Submit(p) \/ Reply(p) \/ OP_DoFinish(p) \/ PF_0066Ask(p) \/ PF_0066Update(p)
            \/ ManualReversed(p) \/ Die(p) \/ \E l \in Keys : ManualReverse(p, l)
  <2>1. \/ \E s \in {"before", "finish", "idle", "query", "manual"} : To(p, s)
        \/ Exit(p, "DB")
    BY <1>10 DEF Submit, Reply, OP_DoFinish, PF_0066Ask, PF_0066Update, ManualReversed, Die,
                 ManualReverse
  <2> QED
    BY <1>0, <1>2, <2>1, ToEffect, ExitEffect
<1>11. \/ UNCHANGED <<stage[p], pc[p], ret[p], code[p]>>
       \/ (ProcStep(p) /\ UNCHANGED tranVars)
       \/ Request(p) \/ PF_0066Ask(p) \/ PF_0066Update(p) \/ ManualReversed(p) \/ Die(p)
       \/ \E l \in Keys : ManualReverse(p, l)
  BY <1>0, OtherKept DEF LegInv
<1> QED
  BY <1>1, <1>3, <1>4, <1>5, <1>6, <1>7, <1>8, <1>9, <1>10, <1>11 DEF Request

-----------------------------------------------------------------------------
(* Until its call went out nobody has asked the core system for the first  *)
(* leg, and a call that failed was refused or never made.                  *)
Fresh(k)      == \A c \in calls : c.op = "book" => c.key # k
AllRefused(k) == \A c \in calls : c.op = "book" /\ c.key = k => Answer(c.serial, "refused")
OnlyOwn(p, k) == \A c \in calls : c.op = "book" /\ c.key = k => c.serial = job[p].serial
FirstFails(p, k) ==
    /\ stage[p] = "before" => Fresh(k)
    /\ stage[p] = "booking" => /\ pc[p] \in {"query", "insert", "send"} => Fresh(k)
                               /\ pc[p] = "await" => OnlyOwn(p, k)
                               /\ pc[p] = "idle" /\ ret[p] = "FAIL" => AllRefused(k)
    /\ stage[p] = "reply" /\ code[p] = "FAIL" /\ kind = "credit" =>
          center = "none" /\ AllRefused(k)
FailExact == /\ row = "absent" => \A k \in BeforeLegs : Fresh(k)
             /\ \A p \in Procs, k \in BeforeLegs : FirstFails(p, k)

(* A leg is asked for by the process at work on the transaction. *)
LEMMA NewBooking ==
  ASSUME TypeOK, EngineUse, [OutNext]_outVars, NEW c \in calls' \ calls, c.op = "book"
  PROVE  \E r \in Procs : /\ AccountingSend(r) /\ Handling(r) /\ UNCHANGED tranVars
                          /\ c.key = job[r].key /\ c.serial = job[r].serial
<1>1. ASSUME NEW r \in Procs, ProcStep(r), UNCHANGED tranVars
      PROVE  AccountingSend(r) /\ c.key = job[r].key /\ c.serial = job[r].serial
  BY <1>1
     DEF ProcStep, AccountingQuery, AccountingInsert, AccountingSend, AccountingReply,
         CallLost, AccountCancelQuery, AccountCancelSend, AccountCancelReply, Call
<1>2. \E r \in Procs : ProcStep(r) /\ UNCHANGED tranVars
  BY DEF OutNext, Engine, Request, outVars, bookVars, BankExecute, ManualAdjust, Submit,
         BeforeTransOut, BeforeBooked, TransferToPH, CenterDecide, CenterAnswer,
         OPAfterCommToPH, AfterTransOut, Cancelled, SideBooked, MainBooked, Reply, OP_DoFinish,
         PF_0009, OPT_ADM_DELTRAN, PF_0066Ask, PF_0066Update, ManualReverse, ManualReversed,
         Die, Crash, AccountingStart, AccountCancelStart
<1>3. ASSUME NEW r \in Procs, AccountingSend(r) PROVE Handling(r)
  BY <1>3 DEF AccountingSend, EngineUse, UsesEngine, Cancels, Calling, Handling
<1> QED
  BY <1>1, <1>2, <1>3

LEMMA FailExactStep ==
  LegInv /\ OneHandler /\ FailExact /\ [OutNext]_outVars => FailExact'
<1> SUFFICES ASSUME LegInv, OneHandler, FailExact, [OutNext]_outVars PROVE FailExact'
  OBVIOUS
<1>0. /\ TypeOK /\ TranTypes /\ OneOpener /\ EngineUse
      /\ calls \subseteq calls' /\ answers \subseteq answers'
  BY OutStepBooks, HistoryGrows DEF LegInv, TranInv
<1>1. row' = "absent" => row = "absent"
  BY DEF OutNext, Engine, Request, outVars, tranVars, Submit, BeforeTransOut, BeforeBooked,
         TransferToPH, CenterDecide, CenterAnswer, OPAfterCommToPH, AfterTransOut, Cancelled,
         SideBooked, MainBooked, Reply, OP_DoFinish, PF_0009, OPT_ADM_DELTRAN, PF_0066Ask,
         PF_0066Update, ManualReverse, ManualReversed, Die, Closing, IsClearState
<1>2. ASSUME NEW k \in BeforeLegs, row' = "absent" PROVE Fresh(k)'
  BY <1>0, <1>1, <1>2, NewBooking DEF FailExact, Fresh, OneHandler
<1>3. ASSUME NEW p \in Procs, NEW k \in BeforeLegs PROVE FirstFails(p, k)'
  <2>0. UsesEngine(p) /\ FirstFails(p, k)
    BY <1>0 DEF FailExact, EngineUse
  <2> DEFINE Quiet == \A c \in calls' \ calls : c.op # "book"
  <2>q. ASSUME Quiet
        PROVE  /\ Fresh(k) => Fresh(k)'
               /\ AllRefused(k) => AllRefused(k)'
    BY <1>0, <2>q DEF Fresh, AllRefused, Answer
  <2>h. ASSUME Handling(p) \/ Served(p), ~AccountingSend(p) PROVE Quiet
    BY <1>0, <2>h, NewBooking DEF OneHandler
  <2>1. CASE UNCHANGED <<stage[p], pc[p], job[p], ret[p], code[p]>>
    <3>1. ~AccountingSend(p)
      BY <1>0, <2>1, ReturnEffect, GotoEffect DEF AccountingSend, Call
    <3>2. ASSUME stage[p] = "reply", code[p] = "FAIL", center = "none"
          PROVE  center' = "none"
      <4>1. \A q \in Procs : ~TransferToPH(q)
        BY <3>2 DEF OneHandler, Handling, Served, TransferToPH
      <4> QED
        BY <3>2, <4>1
           DEF OutNext, Engine, Request, outVars, tranVars, Submit, BeforeTransOut,
               BeforeBooked, CenterDecide, CenterAnswer, OPAfterCommToPH, AfterTransOut,
               Cancelled, SideBooked, MainBooked, Reply, OP_DoFinish, PF_0009,
               OPT_ADM_DELTRAN, PF_0066Ask, PF_0066Update, ManualReverse, ManualReversed, Die
    <3>3. CASE Handling(p) \/ Served(p)
      BY <2>0, <2>1, <2>h, <2>q, <3>1, <3>2, <3>3, KindKept
         DEF FirstFails, OnlyOwn, OutNext
    <3>4. CASE ~Handling(p) /\ ~Served(p)
      BY <2>1, <3>4 DEF FirstFails, Handling, Served
    <3> QED
      BY <3>3, <3>4
  <2>2. CASE \/ stage'[p] \notin {"before", "booking", "reply"}
             \/ stage'[p] = "reply" /\ (code'[p] # "FAIL" \/ kind' # "credit")
    BY <2>2 DEF FirstFails
  <2>3. CASE ProcStep(p) /\ UNCHANGED tranVars
    <3>1. CASE stage[p] = "booking"
      <4>1. job[p].key = k /\ pc[p] \in {"query", "insert", "send", "await"}
        BY <2>0, <2>3, <3>1, OneFirstLeg, ProcStepEffect, <1>0 DEF UsesEngine, Books
      <4>2. SUFFICES /\ pc'[p] \in {"query", "insert", "send"} => Fresh(k)'
                     /\ pc'[p] = "await" => OnlyOwn(p, k)'
                     /\ pc'[p] = "idle" /\ ret'[p] = "FAIL" => AllRefused(k)'
        BY <2>3, <3>1 DEF FirstFails, tranVars
      <4>3. Fresh(k) => AllRefused(k)
        BY DEF Fresh, AllRefused
      <4>4. CASE AccountingQuery(p) \/ AccountingInsert(p)
        <5>1. Quiet /\ Fresh(k)
          BY <2>0, <3>1, <4>4 DEF AccountingQuery, AccountingInsert, FirstFails
        <5> QED
          BY <1>0, <2>q, <4>3, <4>4, <5>1, ReturnEffect, GotoEffect
             DEF AccountingQuery, AccountingInsert
      <4>5. CASE AccountingSend(p)
        <5>1. Fresh(k)
          BY <2>0, <3>1, <4>5 DEF AccountingSend, FirstFails
        <5>2. CASE Return(p, "CONV") /\ UNCHANGED calls
          BY <1>0, <5>2, ReturnEffect
        <5>3. CASE Goto(p, "await") /\ calls' = calls \cup
                      {[op |-> "book", key |-> job[p].key, serial |-> job[p].serial,
                        target |-> job[p].target]}
          BY <1>0, <5>1, <5>3, GotoEffect DEF Fresh, OnlyOwn
        <5> QED
          BY <4>5, <5>2, <5>3 DEF AccountingSend, Call
      <4>6. CASE AccountingReply(p)
        <5>1. OnlyOwn(p, k) /\ Quiet
          BY <2>0, <3>1, <4>6 DEF AccountingReply, FirstFails
        <5>2. pc'[p] = "idle"
          BY <1>0, <4>6, ReturnEffect DEF AccountingReply
        <5>3. ret'[p] = "FAIL" => Answer(job[p].serial, "refused")
          BY <1>0, <4>6, ReturnEffect DEF AccountingReply
        <5>4. ret'[p] = "FAIL" => AllRefused(k)
          BY <5>1, <5>3 DEF OnlyOwn, AllRefused
        <5> QED
          BY <2>q, <5>1, <5>2, <5>4
      <4>7. CASE CallLost(p)
        BY <1>0, <4>7, ReturnEffect DEF CallLost
      <4> QED
        BY <2>3, <4>1, <4>4, <4>5, <4>6, <4>7
           DEF ProcStep, AccountCancelQuery, AccountCancelSend, AccountCancelReply
    <3>2. CASE stage[p] # "booking"
      BY <1>0, <2>0, <2>2, <2>3, <3>2, ProcStepEffect DEF UsesEngine, Calling, tranVars
    <3> QED
      BY <3>1, <3>2
  <2>4. CASE Submit(p)
    <3>1. CASE row = "absent" /\ To(p, "before") /\ UNCHANGED bookVars
      <4>1. Fresh(k)'
        BY <3>1 DEF FailExact, Fresh, bookVars
      <4> QED
        BY <1>0, <3>1, <4>1, ToEffect DEF FirstFails
    <3>2. CASE Exit(p, "DB")
      BY <1>0, <2>2, <3>2, ExitEffect
    <3> QED
      BY <2>4, <3>1, <3>2 DEF Submit
  <2>5. CASE BeforeTransOut(p)
    <3>1. ASSUME NEW l \in Keys, AccountingStart(p, l), To(p, "booking")
          PROVE  FirstFails(p, k)'
      <4>1. Fresh(k)'
        BY <2>0, <2>5, <3>1 DEF BeforeTransOut, FirstFails, AccountingStart, Fresh
      <4>2. pc'[p] = "query" \/ (pc'[p] = "idle" /\ ret'[p] = "OK")
        BY <1>0, <3>1, StartEffect
      <4> QED
        BY <1>0, <3>1, <4>1, <4>2, ToEffect DEF FirstFails
    <3>2. CASE Exit(p, "CHECK") \/ To(p, "pack")
      BY <1>0, <2>2, <3>2, ToEffect, ExitEffect
    <3> QED
      BY <2>5, <3>1, <3>2, OutTranAssumption DEF BeforeTransOut, BeforeLegs
  <2>6. CASE BeforeBooked(p)
    <3>1. CASE ret[p] = "FAIL" /\ Exit(p, ret[p])
      <4>1. pc[p] = "idle" /\ center = "none" /\ UNCHANGED <<bookVars, center>>
        BY <1>0, <2>6 DEF BeforeBooked, Returned, OneOpener, Opening
      <4>2. AllRefused(k)
        BY <2>0, <2>6, <3>1, <4>1 DEF BeforeBooked, FirstFails
      <4>3. AllRefused(k)'
        BY <4>1, <4>2 DEF AllRefused, Answer, bookVars
      <4> QED
        BY <1>0, <3>1, <4>1, <4>3, ExitEffect DEF FirstFails
    <3>2. CASE ret[p] # "FAIL" \/ To(p, "pack")
      BY <1>0, <2>2, <2>6, <3>2, ToEffect, ExitEffect DEF BeforeBooked
    <3> QED
      BY <2>6, <3>1, <3>2 DEF BeforeBooked
  <2>7. CASE AfterTransOut(p)
    <3>1. ASSUME NEW c, c # "FAIL", Exit(p, c) PROVE FirstFails(p, k)'
      BY <1>0, <2>2, <3>1, ExitEffect
    <3>2. CASE \E s \in {"cancel", "side", "main"} : To(p, s)
      BY <1>0, <2>2, <3>2, ToEffect
    <3> QED
      BY <2>7, <3>1, <3>2 DEF AfterTransOut
  <2>8. CASE SideBooked(p) \/ MainBooked(p)
    <3>1. kind' # "credit"
      BY <2>0, <2>8, KindKept DEF SideBooked, MainBooked, UsesEngine, HasSide, IsCredit
    <3>2. stage'[p] \in {"main", "reply"}
      BY <1>0, <2>8, ToEffect, ExitEffect DEF SideBooked, MainBooked
    <3> QED
      BY <2>2, <3>1, <3>2
  <2>9. CASE \/ TransferToPH(p) \/ CenterAnswer(p) \/ OPAfterCommToPH(p) \/ Cancelled(p)
             \/ Reply(p) \/ OP_DoFinish(p) \/ PF_0066Ask(p) \/ PF_0066Update(p)
             \/ ManualReversed(p) \/ Die(p) \/ \E l \in Keys : ManualReverse(p, l)
    <3>1. \/ \E s \in {"wait", "update", "after", "finish", "idle", "query", "manual"} : To(p, s)
          \/ \E c \in {"CONV", "DB", "ANDCZ", "NOCZ"} : Exit(p, c)
      BY <2>9 DEF TransferToPH, CenterAnswer, OPAfterCommToPH, Cancelled, Reply, OP_DoFinish,
                  PF_0066Ask, PF_0066Update, ManualReversed, Die, ManualReverse
    <3> QED
      BY <1>0, <2>2, <3>1, ToEffect, ExitEffect
  <2>10. \/ UNCHANGED <<stage[p], pc[p], job[p], ret[p], code[p]>>
         \/ (ProcStep(p) /\ UNCHANGED tranVars)
         \/ Request(p) \/ PF_0066Ask(p) \/ PF_0066Update(p) \/ ManualReversed(p) \/ Die(p)
         \/ \E l \in Keys : ManualReverse(p, l)
    BY <1>0, OtherKept
  <2> QED
    BY <2>1, <2>3, <2>4, <2>5, <2>6, <2>7, <2>8, <2>9, <2>10 DEF Request
<1> QED
  BY <1>2, <1>3, KindKept DEF FailExact

(* A transaction that could be booked and was answered knows its outcome. *)
AnswerInv == UndoInv /\ SuspendInv /\ OneHandler /\ LegsStand /\ CancelExact /\ FailExact

LEMMA AnswerInductive == OutSpec => [](LegInv /\ AnswerInv)
<1>1. OutInit => OneHandler /\ LegsStand /\ CancelExact /\ FailExact
  BY DEF OutInit, Init, OneHandler, Handling, Served, LegsStand, Unreversed, Reversing,
         CancelExact, CancelTrue, FirstLegBooked, FirstLegUndone, FailExact, FirstFails, Fresh
<1>2. OutSpec => [](UndoInv /\ SuspendInv)
  BY UsesBooking, AnswersTrue, PTL
<1>3. LegInv => TypeOK /\ TranTypes
  BY DEF LegInv, TranInv
<1> QED
  BY <1>1, <1>2, <1>3, LegInductive, OneHandlerStep, LegsStandStep, CancelExactStep,
     FailExactStep, PTL DEF OutSpec, AnswerInv

(* The code a request ends with says what happened, whatever other         *)
(* requests, retries, operators, crashes and lost answers do meanwhile:    *)
(* success, that the center settled and every leg is posted and stands;    *)
(* "booked and reversed", that the reversal was executed; "failed" of a    *)
(* credit, that the center was not asked and nothing was posted.           *)
THEOREM AnswerIsTrue == OutSpec => []AnswerTellsOutcome
<1>1. LegInv /\ AnswerInv => AnswerTellsOutcome
  <2> SUFFICES ASSUME LegInv, AnswerInv, NEW p \in Procs, stage[p] = "reply"
               PROVE  /\ Success(code[p]) =>
                            /\ center = "settled"
                            /\ \A k \in BeforeLegs \cup AfterLegs : Trusted(k) => Stands(k)
                      /\ code[p] = "ANDCZ" =>
                            \A k \in BeforeLegs : Trusted(k) =>
                               \E b \in Posted(k) : Undone(b.serial)
                      /\ code[p] = "FAIL" /\ IsCredit /\ ~HasSide /\ kind # "old" =>
                            center = "none" /\ Posted(Main) = {}
    BY DEF AnswerTellsOutcome
  <2>1. CASE Success(code[p])
    <3>1. Unreversed /\ center = "settled"
      BY <2>1 DEF AnswerInv, LegsStand, Holding, Succeeded, LegInv, TranInv, SuccessIsSettled,
                  KnowsSettled
    <3>2. \A k \in BeforeLegs \cup AfterLegs : Booked(k)
      BY <2>1, <3>1 DEF LegInv, LegsPosted, LegsUpTo, Succeeded, Paid
    <3>3. \A k \in BeforeLegs \cup AfterLegs : Trusted(k) => Stands(k)
      BY <3>1, <3>2, UnreversedStands DEF Trusted, Booked, LegInv, AnswerInv
    <3> QED
      BY <2>1, <3>1, <3>3 DEF Success
  <2>2. CASE code[p] = "ANDCZ"
    BY <2>2 DEF AnswerInv, CancelExact, CancelTrue, FirstLegUndone, Reversed, Success
  <2>3. CASE code[p] = "FAIL" /\ IsCredit /\ ~HasSide /\ kind # "old"
    <3>1. kind = "credit" /\ Main \in BeforeLegs
      BY <2>3 DEF IsCredit, HasSide, BeforeLegs
    <3>2. center = "none" /\ AllRefused(Main)
      BY <2>3, <3>1 DEF AnswerInv, FailExact, FirstFails
    <3>3. \A s : Answer(s, "refused") => ~Took(s)
      BY DEF LegInv, IInv, SerialInv, Answer, Took
    <3>4. Posted(Main) = {}
      BY <3>2, <3>3 DEF AllRefused, Posted
    <3> QED
      BY <2>3, <3>2, <3>4 DEF Success
  <2> QED
    BY <2>1, <2>2, <2>3
<1> QED
  BY <1>1, AnswerInductive, PTL
-----------------------------------------------------------------------------
(* Returns: a return is an outbound transaction whose legs are booked and   *)
(* reversed by TP_Process.                                                  *)

LEMMA SkeletonSteps == Skeleton => OutNext
  BY OutTranAssumption DEF Skeleton, OutNext, Request, TPA, TPB

LEMMA ReturnLegs == TPA \in Keys \ InCredit /\ TPB \in Keys \ InCredit /\ TPA # TPB
  BY OutTranAssumption DEF TPA, TPB

LEMMA ReturnStepBooks == [ReturnNext]_retVars => [Next]_bookVars
<1> SUFFICES ASSUME [ReturnNext]_retVars, ~UNCHANGED bookVars PROVE Next
  OBVIOUS
<1>1. CASE Skeleton
  BY <1>1, SkeletonSteps, OutStepBooks
<1>2. ASSUME NEW p \in Procs, TP_Process(p) PROVE Next
  <2>1. \E k \in Keys : AccountingStart(p, k) \/ \E flag \in 1..3 : AccountCancelStart(p, k, flag)
    BY <1>2, ReturnLegs
       DEF TP_Process, FirstLeg, SecondLeg, SecondBooked, FirstUndone, AfterCenter,
           CancelFirst, FirstCancelled, Leave, ToCenter
  <2> QED BY <2>1 DEF Next
<1> QED BY <1>1, <1>2 DEF ReturnNext, retVars, outVars

(* A return is a use of the booking engine, too. *)
THEOREM ReturnsUseBooking == ReturnSpec => Spec
<1>1. ReturnInit => Init
  BY DEF ReturnInit, OutInit
<1> QED BY <1>1, ReturnStepBooks, PTL DEF ReturnSpec, Spec

ReturnTypes == TranTypes /\ leg \in [Procs -> Legs] /\ flagged \in BOOLEAN

(* What TP_Process does to the stage and the leg of its process; it leaves  *)
(* the others alone.                                                        *)
LEMMA LegEffect ==
    ASSUME ReturnTypes, NEW p \in Procs, NEW l, leg' = [leg EXCEPT ![p] = l]
    PROVE  leg'[p] = l /\ \A q \in Procs \ {p} : leg'[q] = leg[q]
  BY DEF ReturnTypes

LEMMA EnterEffect ==
    ASSUME ReturnTypes, NEW p \in Procs, NEW l \in Legs, Enter(p, l), Keep(p)
    PROVE  /\ stage'[p] = "booking" /\ leg'[p] = l /\ code' = code
           /\ \A q \in Procs \ {p} : stage'[q] = stage[q] /\ leg'[q] = leg[q]
           /\ TranTypes' /\ leg' \in [Procs -> Legs]
<1>1. "booking" \in Stages
  BY DEF Stages
<1>2. stage' \in [Procs -> Stages]
  BY <1>1, ToType DEF Enter, ReturnTypes
<1>3. leg' \in [Procs -> Legs] /\ UNCHANGED <<kind, row, center, tc, doubts, byHand, code>>
  BY DEF Enter, Keep, ReturnTypes
<1> QED BY <1>2, <1>3, ToEffect, LegEffect DEF Enter, ReturnTypes, TranTypes

LEMMA LeaveEffect ==
    ASSUME ReturnTypes, NEW p \in Procs, NEW c \in OutCodes, Leave(p, c), Keep(p)
    PROVE  /\ stage'[p] = "reply" /\ leg'[p] = "none" /\ code'[p] = c /\ UNCHANGED bookVars
           /\ \A q \in Procs \ {p} : stage'[q] = stage[q] /\ leg'[q] = leg[q] /\ code'[q] = code[q]
           /\ TranTypes' /\ leg' \in [Procs -> Legs]
<1>1. stage' \in [Procs -> Stages] /\ code' \in [Procs -> OutCodes]
  BY ExitType DEF Leave, ReturnTypes
<1>2. leg' \in [Procs -> Legs] /\ UNCHANGED <<kind, row, center, tc, doubts, byHand, bookVars>>
  BY DEF Leave, Keep, ReturnTypes, Legs
<1> QED BY <1>1, <1>2, ExitEffect, LegEffect DEF Leave, ReturnTypes, TranTypes

LEMMA ToCenterEffect ==
    ASSUME ReturnTypes, NEW p \in Procs, ToCenter(p), Keep(p)
    PROVE  /\ stage'[p] = "pack" /\ leg'[p] = "none" /\ code' = code /\ UNCHANGED bookVars
           /\ \A q \in Procs \ {p} : stage'[q] = stage[q] /\ leg'[q] = leg[q]
           /\ TranTypes' /\ leg' \in [Procs -> Legs]
<1>1. "pack" \in Stages
  BY DEF Stages
<1>2. stage' \in [Procs -> Stages]
  BY <1>1, ToType DEF ToCenter, ReturnTypes
<1>3. leg' \in [Procs -> Legs] /\ UNCHANGED <<kind, row, center, tc, doubts, byHand, code, bookVars>>
  BY DEF ToCenter, Keep, ReturnTypes, Legs
<1> QED BY <1>2, <1>3, ToEffect, LegEffect DEF ToCenter, ReturnTypes, TranTypes

(* What is known of a leg of the return.  Unasked: nobody has begun it.     *)
(* Pending: its row is in doubt, or someone wrote it without an answer.     *)
(* Made: it is booked and nobody but an operator reverses it.  Gone: it     *)
(* does not stand in the core system, or the journal does not know.         *)
Unasked(k)    == acct[k] = Absent /\ k \notin byHand /\ \A c \in calls : c.key # k
Pending(k)    == acct[k].res = "unknown" \/ k \in blind \cup byHand
InTable(k)    == acct[k].res = "booked" \/ k \in blind \cup byHand \cup Foreign
NoReversal(k) == \A c \in calls : c.op = "reverse" /\ c.key = k => k \in byHand
Made(k)       == Booked(k) /\ InTable(k) /\ NoReversal(k)
Gone(k)       == Pending(k) \/ k \in Foreign \/ AllRefused(k) \/ Reversed(k)

(* A step that does not work on leg k, or does so by order of an operator,  *)
(* keeps what is known of it.                                               *)
Aside(k) ==
    /\ \/ acct'[k] = acct[k]
       \/ k \in byHand
       \/ k \in blind' /\ acct[k] # Absent
    /\ \A c \in calls' \ calls : c.key = k => c.op = "reverse" /\ k \in byHand
    /\ byHand \subseteq byHand'
    /\ k \in byHand' \ byHand => acct[k] # Absent

Stays(k) ==
    /\ Unasked(k) => Unasked(k)'
    /\ Pending(k) => Pending(k)'
    /\ NoReversal(k) => NoReversal(k)'
    /\ Made(k) => Made(k)'
    /\ InTable(k) => InTable(k)'
    /\ Gone(k) => Gone(k)'

LEMMA AsideStays ==
    ASSUME [Next]_bookVars, NEW k, Aside(k)
    PROVE  Stays(k)
<1>1. /\ calls \subseteq calls' /\ blind \subseteq blind'
      /\ Posted(k) \subseteq Posted(k)' /\ \A s : Undone(s) => Undone(s)'
      /\ \A s, o : Answer(s, o) => Answer(s, o)'
  BY HistoryGrows, PostedGrows, KnownStays
<1>2. Unasked(k) => Unasked(k)'
  BY DEF Unasked, Aside
<1>3. Pending(k) => Pending(k)'
  BY <1>1 DEF Pending, Aside
<1>4. InTable(k) => InTable(k)'
  BY <1>1 DEF InTable, Aside
<1>5. NoReversal(k) => NoReversal(k)'
  BY DEF NoReversal, Aside
<1>6. Booked(k) => Booked(k)'
  BY <1>1 DEF Booked
<1>7. AllRefused(k) => AllRefused(k)'
  BY <1>1 DEF AllRefused, Aside
<1>8. Reversed(k) => Reversed(k)'
  BY <1>1 DEF Reversed
<1> QED BY <1>2, <1>3, <1>4, <1>5, <1>6, <1>7, <1>8 DEF Stays, Made, Gone

LEMMA StillAside ==
    ASSUME NEW k, UNCHANGED <<acct, calls, byHand>>
    PROVE  Aside(k)
  BY DEF Aside

(* The engine works on the leg of the call. *)
LEMMA EngineAside ==
    ASSUME TypeOK, NEW p \in Procs, ProcStep(p), UNCHANGED byHand, NEW k \in Keys,
           job[p].key # k \/ (k \in byHand /\ pc[p] \in {"cquery", "oquery", "csend", "cawait"})
    PROVE  Aside(k)
<1>1. [Next]_bookVars
  BY DEF Next, ProcStep
<1>2. acct'[k] = acct[k] \/ k \in byHand \/ (k \in blind' /\ acct[k] # Absent)
  <2> SUFFICES ASSUME ~RowKept(k), k \notin byHand PROVE k \in blind' /\ acct[k] # Absent
    BY DEF RowKept
  <2>1. job[p].key # k /\ job[p].key \in Keys
    BY DEF TypeOK, Jobs
  <2>2. ASSUME NEW r, SetResult(job[p].key, r) PROVE FALSE
    BY <2>1, <2>2 DEF SetResult, TypeOK, RowKept
  <2> QED
    BY <2>1, <2>2 DEF RowKept, ProcStep, AccountingQuery, AccountingInsert, AccountingSend,
       AccountingReply, Journal, Call, CallLost, AccountCancelQuery, AccountCancelSend,
       AccountCancelReply, TypeOK
<1>3. \A c \in calls' \ calls : c.key = job[p].key /\
         (c.op = "reverse" \/ pc[p] \notin {"cquery", "oquery", "csend", "cawait"})
  BY DEF ProcStep, AccountingQuery, AccountingInsert, AccountingSend, AccountingReply, Call,
         CallLost, AccountCancelQuery, AccountCancelSend, AccountCancelReply
<1> QED BY <1>2, <1>3 DEF Aside

LEMMA WorldAside ==
    ASSUME TypeOK, NEW k \in Keys, UNCHANGED byHand,
           (\E c \in calls : BankExecute(c)) \/ (\E j \in Keys, r \in Results : ManualAdjust(j, r))
    PROVE  Aside(k)
<1>1. CASE \E c \in calls : BankExecute(c)
  BY <1>1 DEF BankExecute, Aside
<1>2. ASSUME NEW j \in Keys, NEW r \in Results, ManualAdjust(j, r) PROVE Aside(k)
  <2>1. acct'[k] = acct[k] \/ k = j
    BY <1>2 DEF ManualAdjust, SetResult, TypeOK
  <2> QED BY <1>2, <2>1 DEF ManualAdjust, Aside
<1> QED BY <1>1, <1>2

(* How far process p is in booking leg k, and in reversing it. *)
BookingOf(p, k) ==
    /\ NoReversal(k)
    /\ pc[p] \in {"query", "insert"} => Unasked(k)
    /\ pc[p] \in {"send", "await"} => Pending(k)
    /\ pc[p] = "send" => Fresh(k)
    /\ pc[p] = "await" => OnlyOwn(p, k)
    /\ pc[p] = "idle" /\ ret[p] = "SUCC" => Made(k)
    /\ pc[p] = "idle" /\ ret[p] \notin {"SUCC", "none"} => Gone(k)
CancelOf(p, k) ==
    /\ pc[p] \in {"cquery", "oquery"} => InTable(k)
    /\ pc[p] = "idle" /\ ret[p] = "OK" => Gone(k)

LEMMA CallsStay ==
    ASSUME [Next]_bookVars, NEW k, Aside(k), NEW p \in Procs, UNCHANGED <<pc[p], job[p], ret[p]>>
    PROVE  /\ BookingOf(p, k) => BookingOf(p, k)'
           /\ CancelOf(p, k) => CancelOf(p, k)'
<1>1. Fresh(k) => Fresh(k)'
  BY DEF Fresh, Aside
<1>2. OnlyOwn(p, k) => OnlyOwn(p, k)'
  BY DEF OnlyOwn, Aside
<1> QED BY <1>1, <1>2, AsideStays DEF Stays, BookingOf, CancelOf

(* The booking of a leg that nobody has begun: success says it is booked,   *)
(* everything else that it is not or in doubt.                              *)
LEMMA BookingGoesOn ==
    ASSUME IInv, SuspendInv, NEW p \in Procs, ProcStep(p), UNCHANGED byHand,
           pc[p] \in {"query", "insert", "send", "await"},
           NEW k \in Keys \ InCredit, job[p].key = k, BookingOf(p, k)
    PROVE  BookingOf(p, k)'
<1>0. TypeOK /\ [Next]_bookVars /\ blind \subseteq blind' /\ answers \subseteq answers'
  BY HistoryGrows DEF IInv, Next, ProcStep
<1>b. BookedWasPosted'
  BY <1>0, StepInv DEF IInv
<1>s. ASSUME pc'[p] = "idle", ret'[p] = "SUCC" PROVE Booked(k)'
  <2>1. job'[p].key = k
    BY <1>0, ProcStepEffect
  <2> QED BY <1>b, <1>s, <2>1 DEF BookedWasPosted, Booked
<1>1. CASE AccountingQuery(p)
  <2>1. Unasked(k) /\ UNCHANGED <<acct, calls, byHand>>
    BY <1>1 DEF AccountingQuery, BookingOf
  <2>2. Unasked(k)' /\ NoReversal(k)' /\ AllRefused(k)'
    BY <2>1 DEF Unasked, NoReversal, AllRefused
  <2>3. acct[k].res = "absent"
    BY <2>1 DEF Unasked, Absent
  <2>4. Goto(p, "insert") \/ Return(p, "FAIL")
    BY <1>1, <2>3 DEF AccountingQuery, Closed
  <2> QED BY <1>0, <2>2, <2>4, GotoEffect, ReturnEffect DEF BookingOf, Gone
<1>2. CASE AccountingInsert(p)
  <2>1. Unasked(k) /\ UNCHANGED <<calls, byHand>>
    BY <1>2 DEF AccountingInsert, BookingOf
  <2>2. NoReversal(k)' /\ Fresh(k)' /\ AllRefused(k)'
    BY <2>1 DEF Unasked, NoReversal, Fresh, AllRefused
  <2>3. CASE Goto(p, "send") /\ acct' = [acct EXCEPT ![k] = [res |-> "unknown", ref |-> job[p].serial]]
    <3>1. Pending(k)'
      BY <1>0, <2>3 DEF Pending, TypeOK
    <3> QED BY <1>0, <2>2, <2>3, <3>1, GotoEffect DEF BookingOf
  <2>4. CASE Return(p, "FAIL")
    BY <1>0, <2>2, <2>4, ReturnEffect DEF BookingOf, Gone
  <2> QED BY <1>2, <2>3, <2>4 DEF AccountingInsert
<1>3. CASE AccountingSend(p)
  <2>1. Pending(k) /\ Fresh(k) /\ NoReversal(k) /\ UNCHANGED <<acct, byHand, blind>>
    BY <1>3 DEF AccountingSend, Call, BookingOf
  <2>2. Pending(k)'
    BY <2>1 DEF Pending
  <2>3. CASE Return(p, "CONV") /\ UNCHANGED calls
    BY <1>0, <2>1, <2>2, <2>3, ReturnEffect DEF BookingOf, NoReversal, Gone
  <2>4. CASE /\ Goto(p, "await")
             /\ calls' = calls \cup {[op |-> "book", key |-> job[p].key, serial |-> job[p].serial,
                                      target |-> job[p].target]}
    <3>1. NoReversal(k)'
      BY <2>1, <2>4 DEF NoReversal
    <3>2. pc'[p] = "await" /\ job' = job
      BY <1>0, <2>4, GotoEffect
    <3>3. OnlyOwn(p, k)'
      BY <2>1, <2>4, <3>2 DEF Fresh, OnlyOwn
    <3> QED BY <2>2, <3>1, <3>2, <3>3 DEF BookingOf
  <2> QED BY <1>3, <2>3, <2>4 DEF AccountingSend, Call
<1>4. CASE AccountingReply(p)
  <2>1. Pending(k) /\ OnlyOwn(p, k) /\ NoReversal(k) /\ UNCHANGED <<calls, byHand>>
    BY <1>4 DEF AccountingReply, BookingOf
  <2>2. NoReversal(k)'
    BY <2>1 DEF NoReversal
  <2>3. pc'[p] = "idle"
    BY <1>0, <1>4, ReturnEffect DEF AccountingReply
  <2>4. ASSUME ret'[p] = "SUCC" PROVE Made(k)'
    <3>1. ~Answer(job[p].serial, "suspended")
      <4>1. PICK c \in calls : c.op = "book" /\ c.key = k /\ c.serial = job[p].serial
        BY <1>4 DEF AccountingReply, IInv, JobInv, JobOK
      <4> QED BY <4>1 DEF SuspendInv
    <3>2. SetResult(k, "booked")
      BY <1>0, <1>4, <2>4, <3>1, ReturnEffect DEF AccountingReply, Journal
    <3>3. InTable(k)'
      BY <1>0, <3>2, SetResultEffect DEF InTable, Results
    <3> QED BY <1>s, <2>2, <2>3, <2>4, <3>3 DEF Made
  <2>5. ASSUME ret'[p] # "SUCC" PROVE Gone(k)'
    <3>1. CASE Answer(job[p].serial, "refused") /\ UNCHANGED answers
      <4>1. AllRefused(k)'
        BY <2>1, <3>1 DEF OnlyOwn, AllRefused, Answer
      <4> QED BY <4>1 DEF Gone
    <3>2. CASE UNCHANGED acct
      BY <1>0, <2>1, <3>2 DEF Pending, Gone
    <3> QED BY <1>0, <1>4, <2>5, <3>1, <3>2, ReturnEffect DEF AccountingReply
  <2> QED BY <2>2, <2>3, <2>4, <2>5 DEF BookingOf
<1>5. CASE CallLost(p)
  <2>1. Pending(k) /\ NoReversal(k) /\ UNCHANGED <<acct, calls, blind, byHand>>
    BY <1>5 DEF CallLost, BookingOf
  <2>2. Pending(k)' /\ NoReversal(k)'
    BY <2>1 DEF Pending, NoReversal
  <2> QED BY <1>0, <1>5, <2>2, ReturnEffect DEF BookingOf, Gone, CallLost
<1> QED
  BY <1>1, <1>2, <1>3, <1>4, <1>5
     DEF ProcStep, AccountCancelQuery, AccountCancelSend, AccountCancelReply

(* The reversal of a leg: 0 says that the leg does not stand. *)
LEMMA CancelGoesOn ==
    ASSUME IInv, UndoInv, NEW p \in Procs, ProcStep(p), UNCHANGED byHand,
           pc[p] \in {"cquery", "oquery", "csend", "cawait"},
           NEW k \in Keys, job[p].key = k, CancelOf(p, k)
    PROVE  CancelOf(p, k)'
<1>0. TypeOK /\ [Next]_bookVars /\ blind \subseteq blind'
  BY HistoryGrows DEF IInv, Next, ProcStep
<1>1. CASE AccountCancelQuery(p)
  <2>1. InTable(k) /\ UNCHANGED <<acct, calls, blind, byHand>>
    BY <1>1 DEF AccountCancelQuery, CancelOf
  <2>2. CASE acct[k].res \in Results \ {"booked"}
    <3>1. Gone(k)'
      BY <2>1, <2>2 DEF InTable, Gone, Pending
    <3> QED BY <1>0, <1>1, <2>2, <3>1, ReturnEffect, BeginEffect DEF AccountCancelQuery, CancelOf
  <2>3. CASE acct[k].res \notin Results \ {"booked"}
    BY <1>0, <1>1, <2>3, ReturnEffect, BeginEffect DEF AccountCancelQuery, CancelOf
  <2> QED BY <2>2, <2>3
<1>2. CASE AccountCancelReply(p)
  <2>1. ASSUME ret'[p] = "OK" PROVE Gone(k)'
    <3>1. CASE k \in blind'
      BY <3>1 DEF Gone, Pending
    <3>2. CASE k \notin blind'
      <4>1. Answer(job[p].serial, "ok")
        BY <1>0, <1>2, <2>1, <3>2, ReturnEffect DEF AccountCancelReply
      <4>2. PICK c \in calls : /\ c.op = "reverse" /\ c.key = k
                               /\ c.serial = job[p].serial /\ c.target = job[p].target
        BY <1>2 DEF AccountCancelReply, IInv, JobInv, JobOK
      <4>3. PICK b \in Posted(k) : b.serial = c.target
        BY <4>1, <4>2 DEF UndoInv
      <4>4. Reversed(k)
        BY <4>1, <4>2, <4>3 DEF Reversed, Undone
      <4>5. Posted(k) \subseteq Posted(k)' /\ \A s : Undone(s) => Undone(s)'
        BY <1>0, PostedGrows, KnownStays
      <4>6. Reversed(k)'
        BY <4>4, <4>5 DEF Reversed
      <4> QED BY <4>6 DEF Gone
    <3> QED BY <3>1, <3>2
  <2>2. pc'[p] = "idle"
    BY <1>0, <1>2, ReturnEffect DEF AccountCancelReply
  <2> QED BY <2>1, <2>2 DEF CancelOf
<1>3. CASE AccountCancelSend(p) \/ CallLost(p)
  BY <1>0, <1>3, ReturnEffect, GotoEffect DEF AccountCancelSend, CallLost, Call, CancelOf
<1> QED
  BY <1>1, <1>2, <1>3
     DEF ProcStep, AccountingQuery, AccountingInsert, AccountingSend, AccountingReply

(* Which call of the engine a process is in, by its place in TP_Process. *)
LegUse(p) ==
    /\ stage[p] \notin {"side", "main", "cancel"}
    /\ stage[p] = "booking" <=> leg[p] # "none"
    /\ leg[p] = "first" => Books(p, {TPA})
    /\ leg[p] = "second" => Books(p, {TPB})
    /\ leg[p] = "cancelSecond" => Cancels(p, {TPB})
    /\ leg[p] \in {"undo", "cancelFirst"} => Cancels(p, {TPA})
    /\ stage[p] = "manual" => Cancels(p, byHand)
    /\ stage[p] \notin {"booking", "manual"} => pc[p] = "idle"

(* What a process knows of both legs, by its place in the request. *)
Legal(p) ==
    /\ stage[p] = "before" => Unasked(TPA) /\ Unasked(TPB)
    /\ leg[p] = "first" => BookingOf(p, TPA) /\ Unasked(TPB)
    /\ leg[p] = "second" => Made(TPA) /\ BookingOf(p, TPB)
    /\ stage[p] \in {"pack", "wait", "update", "after"} => Made(TPA) /\ Made(TPB)
    /\ leg[p] = "cancelSecond" => Made(TPA) /\ CancelOf(p, TPB)
    /\ leg[p] \in {"undo", "cancelFirst"} => CancelOf(p, TPA) /\ Gone(TPB)
    /\ stage[p] = "reply" /\ code[p] = "OK" => Made(TPA) /\ Made(TPB)
    /\ stage[p] = "reply" /\ code[p] = "ANDCZ" => Gone(TPA) /\ Gone(TPB)
    /\ stage[p] \in {"update", "after"} /\ tc[p] = "ok" => center = "settled"

(* What stays when no process is at work on the return. *)
Past == /\ row = "absent" => Unasked(TPA) /\ Unasked(TPB)
        /\ NoReversal(TPA) \/ Gone(TPB)
        /\ flagged => /\ center = "settled" /\ Made(TPA) /\ Made(TPB)
                      /\ row # "absent" /\ \A p \in Procs : ~Handling(p)

ReturnInv == ReturnTypes /\ OneHandler /\ (\A p \in Procs : LegUse(p) /\ Legal(p)) /\ Past
EngineInv == IInv /\ UndoInv /\ SuspendInv

Rests(p) == UNCHANGED <<stage[p], leg[p], pc[p], job[p], ret[p], code[p], tc[p]>>

(* A process that does not work on the return knows nothing of its legs. *)
Outside(p) == \/ stage[p] \in {"idle", "finish", "query", "manual"}
              \/ stage[p] = "reply" /\ code[p] \notin {"OK", "SUCC", "FAIL", "ANDCZ"}
LEMMA OutsideLegal ==
    ASSUME NEW p \in Procs, LegUse(p)', Outside(p)'
    PROVE  Legal(p)' /\ ~Handling(p)'
  BY DEF LegUse, Outside, Legal, Handling

(* A step that works on neither leg. *)
LEMMA OutsideStep ==
    ASSUME ReturnInv, [Next]_bookVars, ReturnTypes', OneHandler', flagged' = flagged,
           center = "settled" => center' = "settled", row' = "absent" => row = "absent",
           Aside(TPA), Aside(TPB),
           \A q \in Procs : Rests(q) \/
              (LegUse(q)' /\ Legal(q)' /\ (flagged => ~Handling(q)'))
    PROVE  ReturnInv'
<1>1. Stays(TPA) /\ Stays(TPB)
  BY AsideStays
<1>2. Past'
  <2>1. flagged' => \A q \in Procs : ~Handling(q)'
    BY DEF ReturnInv, Past, Rests, Handling
  <2> QED BY <1>1, <2>1 DEF ReturnInv, Past, Stays
<1>3. ASSUME NEW q \in Procs, Rests(q) PROVE LegUse(q)' /\ Legal(q)'
  <2>1. LegUse(q) /\ Legal(q)
    BY DEF ReturnInv
  <2>2. LegUse(q)'
    BY <1>3, <2>1 DEF Rests, LegUse, Books, Cancels, Aside
  <2>3. /\ BookingOf(q, TPA) => BookingOf(q, TPA)'
        /\ BookingOf(q, TPB) => BookingOf(q, TPB)'
        /\ CancelOf(q, TPA) => CancelOf(q, TPA)'
        /\ CancelOf(q, TPB) => CancelOf(q, TPB)'
    BY <1>3, CallsStay DEF Rests
  <2>4. Legal(q)'
    BY <1>1, <1>3, <2>1, <2>3 DEF Rests, Legal, Stays
  <2> QED BY <2>2, <2>4
<1> QED BY <1>2, <1>3 DEF ReturnInv

(* A step of the process that works on the return. *)
LEMMA HandlerStep ==
    ASSUME ReturnInv, ReturnTypes', NEW p \in Procs, Handling(p),
           \A q \in Procs \ {p} : Rests(q),
           row' # "absent", byHand' = byHand, LegUse(p)', Legal(p)',
           NoReversal(TPA)' \/ Gone(TPB)',
           flagged' => center' = "settled" /\ Made(TPA)' /\ Made(TPB)' /\ ~Handling(p)'
    PROVE  ReturnInv'
<1>1. \A q \in Procs \ {p} : ~Handling(q) /\ ~Served(q)
  BY DEF ReturnInv, OneHandler
<1>2. \A q \in Procs \ {p} : ~Handling(q)' /\ ~Served(q)'
  BY <1>1 DEF Rests, Handling, Served
<1>3. OneHandler'
  BY <1>2 DEF OneHandler
<1>4. ASSUME NEW q \in Procs \ {p} PROVE LegUse(q)' /\ Legal(q)'
  <2>1. LegUse(q)'
    BY <1>4 DEF ReturnInv, Rests, LegUse, Books, Cancels
  <2>2. Legal(q)'
    BY <1>2, <2>1 DEF Handling, Served, Legal, LegUse
  <2> QED BY <2>1, <2>2
<1>5. Past'
  BY <1>2 DEF Past
<1> QED BY <1>3, <1>4, <1>5 DEF ReturnInv

(* A step of that process that neither writes the journal nor sends. *)
LEMMA HandlerGoes ==
    ASSUME ReturnInv, [Next]_bookVars, ReturnTypes', NEW p \in Procs, Handling(p),
           \A q \in Procs \ {p} : Rests(q), UNCHANGED <<acct, calls, byHand>>,
           row' # "absent", LegUse(p)',
           Stays(TPA) /\ Stays(TPB) => Legal(p)' /\
              (flagged' => center' = "settled" /\ Made(TPA)' /\ Made(TPB)' /\ ~Handling(p)')
    PROVE  ReturnInv'
<1>1. Stays(TPA) /\ Stays(TPB)
  BY StillAside, AsideStays
<1>2. NoReversal(TPA)' \/ Gone(TPB)'
  BY <1>1 DEF ReturnInv, Past, Stays
<1> QED BY <1>1, <1>2, HandlerStep

(* Who works on the return has inserted its row, and has not flagged it. *)
LEMMA HandlerRow ==
    ASSUME ReturnInv, NEW p \in Procs, Handling(p)
    PROVE  row # "absent" /\ ~flagged /\ LegUse(p) /\ Legal(p)
  BY DEF ReturnInv, OneHandler, Past

LEMMA ReturnEngineStep ==
    ASSUME EngineInv, ReturnInv, Engine, UNCHANGED <<flagged, leg>>
    PROVE  ReturnInv'
<1>0. /\ TypeOK /\ ReturnTypes /\ ReturnTypes' /\ OneHandler' /\ [Next]_bookVars
      /\ UNCHANGED <<kind, row, center, stage, tc, code, doubts, byHand>>
  BY DEF Engine, tranVars, EngineInv, IInv, ReturnInv, ReturnTypes, TranTypes, OneHandler,
         Handling, Served, Next
<1>1. CASE (\E c \in calls : BankExecute(c)) \/ (\E k \in Keys, r \in Results : ManualAdjust(k, r))
  <2>1. Aside(TPA) /\ Aside(TPB)
    BY <1>0, <1>1, WorldAside, ReturnLegs
  <2>2. \A q \in Procs : Rests(q)
    BY <1>0, <1>1 DEF Rests, BankExecute, ManualAdjust
  <2> QED BY <1>0, <2>1, <2>2, OutsideStep
<1>2. ASSUME NEW p \in Procs, ProcStep(p) PROVE ReturnInv'
  <2>0. LegUse(p) /\ Legal(p) /\ LegUse(p)' /\ pc[p] # "idle"
    <3>1. LegUse(p) /\ Legal(p) /\ pc[p] # "idle"
      BY <1>0, <1>2, ProcStepEffect DEF ReturnInv
    <3> QED BY <1>0, <1>2, <3>1, ProcStepEffect DEF LegUse, Books, Cancels
  <2>1. stage[p] \in {"booking", "manual"}
    BY <2>0 DEF LegUse
  <2>2. \A q \in Procs \ {p} : Rests(q)
    BY <1>0, <1>2, ProcStepEffect DEF Rests
  <2>3. \A k \in {TPA, TPB} : job[p].key # k => Aside(k)
    BY <1>0, <1>2, EngineAside, ReturnLegs
  <2>4. CASE stage[p] = "manual"
    <3>1. \A k \in {TPA, TPB} : k \in byHand => Aside(k)
      BY <1>0, <1>2, <2>0, <2>4, EngineAside, ReturnLegs DEF LegUse, Cancels
    <3>2. Aside(TPA) /\ Aside(TPB)
      BY <2>0, <2>3, <2>4, <3>1 DEF LegUse, Cancels
    <3>3. Outside(p)'
      BY <1>0, <2>4 DEF Outside
    <3> QED BY <1>0, <2>0, <2>2, <3>2, <3>3, OutsideLegal, OutsideStep
  <2>5. CASE stage[p] = "booking"
    <3>1. Handling(p) /\ row # "absent" /\ ~flagged
      BY <2>5, HandlerRow DEF Handling
    <3>2. ASSUME Legal(p)', NoReversal(TPA)' \/ Gone(TPB)' PROVE ReturnInv'
      BY <1>0, <2>0, <2>2, <3>1, <3>2, HandlerStep
    <3>3. leg[p] \in {"first", "second", "undo", "cancelSecond", "cancelFirst"}
      BY <1>0, <2>0, <2>5 DEF LegUse, ReturnTypes, Legs
    <3>4. stage'[p] = "booking" /\ leg'[p] = leg[p]
      BY <1>0, <2>5
    <3>5. \A k \in {TPA, TPB} : job[p].key # k => Stays(k)
      BY <1>0, <2>3, AsideStays
    <3>6. CASE leg[p] = "first"
      <4>1. Books(p, {TPA}) /\ BookingOf(p, TPA) /\ Unasked(TPB)
        BY <2>0, <3>6 DEF LegUse, Legal
      <4>2. BookingOf(p, TPA)'
        BY <1>0, <1>2, <2>0, <4>1, BookingGoesOn, ReturnLegs DEF Books, EngineInv
      <4>3. Unasked(TPB)'
        BY <3>5, <4>1, ReturnLegs DEF Books, Stays
      <4> QED BY <3>2, <3>4, <3>6, <4>2, <4>3 DEF Legal, BookingOf
    <3>7. CASE leg[p] = "second"
      <4>1. Books(p, {TPB}) /\ BookingOf(p, TPB) /\ Made(TPA)
        BY <2>0, <3>7 DEF LegUse, Legal
      <4>2. BookingOf(p, TPB)'
        BY <1>0, <1>2, <2>0, <4>1, BookingGoesOn, ReturnLegs DEF Books, EngineInv
      <4>3. Made(TPA)'
        BY <3>5, <4>1, ReturnLegs DEF Books, Stays
      <4> QED BY <3>2, <3>4, <3>7, <4>2, <4>3 DEF Legal, Made
    <3>8. CASE leg[p] = "cancelSecond"
      <4>1. Cancels(p, {TPB}) /\ CancelOf(p, TPB) /\ Made(TPA)
        BY <2>0, <3>8 DEF LegUse, Legal
      <4>2. CancelOf(p, TPB)'
        BY <1>0, <1>2, <2>0, <4>1, CancelGoesOn, ReturnLegs DEF Cancels, EngineInv
      <4>3. Made(TPA)'
        BY <3>5, <4>1, ReturnLegs DEF Cancels, Stays
      <4> QED BY <3>2, <3>4, <3>8, <4>2, <4>3 DEF Legal, Made
    <3>9. CASE leg[p] \in {"undo", "cancelFirst"}
      <4>1. Cancels(p, {TPA}) /\ CancelOf(p, TPA) /\ Gone(TPB)
        BY <2>0, <3>9 DEF LegUse, Legal
      <4>2. CancelOf(p, TPA)'
        BY <1>0, <1>2, <2>0, <4>1, CancelGoesOn, ReturnLegs DEF Cancels, EngineInv
      <4>3. Gone(TPB)'
        BY <3>5, <4>1, ReturnLegs DEF Cancels, Stays
      <4> QED BY <3>2, <3>4, <3>9, <4>2, <4>3 DEF Legal
    <3> QED BY <3>3, <3>6, <3>7, <3>8, <3>9
  <2> QED BY <2>1, <2>4, <2>5
<1> QED BY <1>1, <1>2 DEF Engine

(* What a step of the request keeps, TP_Process apart. *)
LEMMA SkeletonKeeps ==
    ASSUME TypeOK, ReturnTypes, OneHandler, Skeleton, leg' \in [Procs -> Legs]
    PROVE  [Next]_bookVars /\ ReturnTypes' /\ OneHandler' /\ flagged' = flagged
<1>1. [OutNext]_outVars /\ flagged' = flagged
  BY SkeletonSteps DEF Skeleton
<1> QED BY <1>1, OutStepBooks, TranTypeStep, OneHandlerStep DEF ReturnTypes

(* The operators' work and the end of a request, which know nothing of its  *)
(* legs.                                                                    *)
LEMMA OutsideSteps ==
    ASSUME EngineInv, ReturnInv, Skeleton, UNCHANGED leg, NEW p \in Procs,
           \/ Reply(p) \/ OP_DoFinish(p) \/ PF_0066Ask(p) \/ PF_0066Update(p)
           \/ ManualReversed(p)
    PROVE  ReturnInv'
<1>0. TypeOK /\ ReturnTypes /\ OneHandler /\ LegUse(p) /\ leg' \in [Procs -> Legs]
  BY DEF EngineInv, IInv, ReturnInv, ReturnTypes
<1>1. [Next]_bookVars /\ ReturnTypes' /\ OneHandler' /\ flagged' = flagged
  BY <1>0, SkeletonKeeps
<1>2. PICK s \in {"finish", "idle", "query"} : To(p, s)
  BY DEF Reply, OP_DoFinish, PF_0066Ask, PF_0066Update, ManualReversed
<1>3. stage'[p] = s /\ \A q \in Procs \ {p} : stage'[q] = stage[q]
  BY <1>0, <1>2, ToEffect DEF ReturnTypes
<1>4. /\ UNCHANGED <<bookVars, center, byHand>>
      /\ row' = "absent" => row = "absent"
  BY DEF Reply, OP_DoFinish, PF_0066Ask, PF_0066Update, ManualReversed, Closing, IsClearState
<1>5. \A q \in Procs \ {p} : tc'[q] = tc[q] /\ code'[q] = code[q]
  BY <1>0 DEF Reply, OP_DoFinish, PF_0066Ask, PF_0066Update, ManualReversed, ReturnTypes,
              TranTypes
<1>6. \A q \in Procs \ {p} : Rests(q)
  BY <1>3, <1>4, <1>5 DEF Rests, bookVars
<1>7. pc[p] = "idle" /\ leg[p] = "none"
  BY <1>0 DEF LegUse, Reply, OP_DoFinish, PF_0066Ask, PF_0066Update, ManualReversed, Returned
<1>8. LegUse(p)' /\ Outside(p)'
  BY <1>3, <1>4, <1>7 DEF LegUse, Outside, bookVars
<1>9. Aside(TPA) /\ Aside(TPB)
  BY <1>4, StillAside DEF bookVars
<1> QED BY <1>1, <1>4, <1>6, <1>8, <1>9, OutsideLegal, OutsideStep

LEMMA CenterSteps ==
    ASSUME EngineInv, ReturnInv, Skeleton, UNCHANGED leg,
           CenterDecide \/ PF_0009 \/ OPT_ADM_DELTRAN
    PROVE  ReturnInv'
<1>0. TypeOK /\ ReturnTypes /\ OneHandler /\ leg' \in [Procs -> Legs]
  BY DEF EngineInv, IInv, ReturnInv, ReturnTypes
<1>1. [Next]_bookVars /\ ReturnTypes' /\ OneHandler' /\ flagged' = flagged
  BY <1>0, SkeletonKeeps
<1>2. /\ UNCHANGED <<bookVars, stage, tc, code, byHand>>
      /\ center = "settled" => center' = "settled"
      /\ row' = "absent" => row = "absent"
  BY DEF CenterDecide, PF_0009, OPT_ADM_DELTRAN
<1>3. \A q \in Procs : Rests(q)
  BY <1>2 DEF Rests, bookVars
<1>4. Aside(TPA) /\ Aside(TPB)
  BY <1>2, StillAside DEF bookVars
<1> QED BY <1>1, <1>2, <1>3, <1>4, OutsideStep

LEMMA DieStep ==
    ASSUME EngineInv, ReturnInv, Skeleton, NEW p \in Procs, Die(p),
           leg' = [leg EXCEPT ![p] = "none"]
    PROVE  ReturnInv'
<1>0. TypeOK /\ ReturnTypes /\ OneHandler /\ leg' \in [Procs -> Legs]
  BY DEF EngineInv, IInv, ReturnInv, ReturnTypes, Legs
<1>1. [Next]_bookVars /\ ReturnTypes' /\ OneHandler' /\ flagged' = flagged
  BY <1>0, SkeletonKeeps
<1>2. stage'[p] = "idle" /\ \A q \in Procs \ {p} : stage'[q] = stage[q]
  BY <1>0, ToEffect DEF Die, ReturnTypes
<1>3. \A q \in Procs \ {p} : tc'[q] = tc[q] /\ code'[q] = code[q]
  BY <1>0 DEF Die, ReturnTypes, TranTypes
<1>4. leg'[p] = "none" /\ \A q \in Procs \ {p} : leg'[q] = leg[q]
  BY <1>0, LegEffect
<1>5. UNCHANGED <<acct, calls, center, row, byHand>>
  BY DEF Die, Crash, bookVars
<1>6. /\ pc'[p] = "idle"
      /\ \A q \in Procs \ {p} : pc'[q] = pc[q] /\ job'[q] = job[q] /\ ret'[q] = ret[q]
  BY <1>0, ReturnEffect DEF Die, Crash, bookVars
<1>7. \A q \in Procs \ {p} : Rests(q)
  BY <1>2, <1>3, <1>4, <1>6 DEF Rests
<1>8. LegUse(p)' /\ Outside(p)'
  BY <1>2, <1>4, <1>6 DEF LegUse, Outside
<1>9. Aside(TPA) /\ Aside(TPB)
  BY <1>5, StillAside
<1> QED BY <1>1, <1>5, <1>7, <1>8, <1>9, OutsideLegal, OutsideStep

(* An operator has only legs reversed whose row is decided. *)
LEMMA ManualReverseStep ==
    ASSUME EngineInv, ReturnInv, Skeleton, UNCHANGED leg,
           NEW p \in Procs, NEW k \in {TPA, TPB}, ManualReverse(p, k)
    PROVE  ReturnInv'
<1>0. TypeOK /\ ReturnTypes /\ OneHandler /\ LegUse(p) /\ leg' \in [Procs -> Legs]
      /\ k \in Keys
  BY ReturnLegs DEF EngineInv, IInv, ReturnInv, ReturnTypes
<1>1. [Next]_bookVars /\ ReturnTypes' /\ OneHandler' /\ flagged' = flagged
  BY <1>0, SkeletonKeeps
<1>2. stage'[p] = "manual" /\ \A q \in Procs \ {p} : stage'[q] = stage[q]
  BY <1>0, ToEffect DEF ManualReverse, ReturnTypes
<1>3. /\ UNCHANGED <<acct, calls, center, row, tc, code>>
      /\ byHand' = byHand \cup {k} /\ acct[k] # Absent
  BY DEF ManualReverse, AccountCancelStart, Closed, Absent
<1>4. /\ job'[p].key = k /\ pc'[p] \in {"idle", "cquery", "oquery"}
      /\ \A q \in Procs \ {p} : pc'[q] = pc[q] /\ job'[q] = job[q] /\ ret'[q] = ret[q]
  BY <1>0, CancelStartEffect DEF ManualReverse
<1>5. \A q \in Procs \ {p} : Rests(q)
  BY <1>2, <1>3, <1>4 DEF Rests
<1>6. leg[p] = "none"
  BY <1>0 DEF ManualReverse, LegUse
<1>7. LegUse(p)' /\ Outside(p)'
  BY <1>2, <1>3, <1>4, <1>6 DEF LegUse, Outside, Cancels
<1>8. Aside(TPA) /\ Aside(TPB)
  BY <1>3 DEF Aside
<1> QED BY <1>1, <1>3, <1>5, <1>7, <1>8, OutsideLegal, OutsideStep

(* Only the first submission inserts the row, and goes on. *)
LEMMA SubmitStep ==
    ASSUME EngineInv, ReturnInv, Skeleton, UNCHANGED leg, NEW p \in Procs, Submit(p)
    PROVE  ReturnInv'
<1>0. TypeOK /\ ReturnTypes /\ OneHandler /\ LegUse(p) /\ leg' \in [Procs -> Legs]
  BY DEF EngineInv, IInv, ReturnInv, ReturnTypes
<1>1. [Next]_bookVars /\ ReturnTypes' /\ OneHandler' /\ flagged' = flagged
  BY <1>0, SkeletonKeeps
<1>2. UNCHANGED <<bookVars, center, tc, byHand>> /\ stage[p] = "idle"
  BY DEF Submit
<1>3. pc[p] = "idle" /\ leg[p] = "none"
  BY <1>0, <1>2 DEF LegUse
<1>4. Aside(TPA) /\ Aside(TPB)
  BY <1>2, StillAside DEF bookVars
<1>5. CASE row = "absent" /\ row' = "unknown" /\ To(p, "before") /\ UNCHANGED code
  <2>1. stage'[p] = "before" /\ \A q \in Procs \ {p} : stage'[q] = stage[q]
    BY <1>0, <1>5, ToEffect DEF ReturnTypes
  <2>2. \A q \in Procs \ {p} : Rests(q)
    BY <1>2, <1>5, <2>1 DEF Rests, bookVars
  <2>3. LegUse(p)'
    BY <1>2, <1>3, <2>1 DEF LegUse, bookVars
  <2>4. Unasked(TPA) /\ Unasked(TPB) /\ ~flagged
    BY <1>5 DEF ReturnInv, Past
  <2>5. Legal(p)'
    BY <1>1, <1>3, <1>4, <2>1, <2>4, AsideStays DEF Legal, Stays
  <2> QED BY <1>1, <1>2, <1>4, <1>5, <2>2, <2>3, <2>4, <2>5, OutsideStep
<1>6. CASE Exit(p, "DB") /\ UNCHANGED row
  <2>1. /\ stage'[p] = "reply" /\ code'[p] = "DB"
        /\ \A q \in Procs \ {p} : stage'[q] = stage[q] /\ code'[q] = code[q]
    BY <1>0, <1>6, ExitEffect DEF ReturnTypes
  <2>2. \A q \in Procs \ {p} : Rests(q)
    BY <1>2, <2>1 DEF Rests, bookVars
  <2>3. LegUse(p)' /\ Outside(p)'
    BY <1>2, <1>3, <2>1 DEF LegUse, Outside, bookVars
  <2> QED BY <1>1, <1>2, <1>4, <1>6, <2>2, <2>3, OutsideLegal, OutsideStep
<1> QED BY <1>5, <1>6 DEF Submit

(* Between the legs and what follows of the center's answer. *)
LEMMA AskSteps ==
    ASSUME EngineInv, ReturnInv, Skeleton, UNCHANGED leg, NEW p \in Procs,
           TransferToPH(p) \/ CenterAnswer(p) \/ OPAfterCommToPH(p)
    PROVE  ReturnInv'
<1>0. TypeOK /\ ReturnTypes /\ OneHandler /\ leg' \in [Procs -> Legs] /\ Handling(p)
  BY DEF EngineInv, IInv, ReturnInv, ReturnTypes, TransferToPH, CenterAnswer,
         OPAfterCommToPH, Handling
<1>1. [Next]_bookVars /\ ReturnTypes' /\ OneHandler' /\ flagged' = flagged
  BY <1>0, SkeletonKeeps
<1>2. row # "absent" /\ ~flagged /\ LegUse(p) /\ Legal(p)
  BY <1>0, HandlerRow
<1>3. /\ UNCHANGED <<bookVars, byHand>> /\ row' # "absent"
      /\ stage[p] \in {"pack", "wait", "update"}
      /\ \A q \in Procs \ {p} : tc'[q] = tc[q]
  BY <1>0, <1>2 DEF TransferToPH, CenterAnswer, OPAfterCommToPH, ReturnTypes, TranTypes
<1>4. pc[p] = "idle" /\ leg[p] = "none" /\ Made(TPA) /\ Made(TPB)
  BY <1>2, <1>3 DEF LegUse, Legal
<1>5. CASE \E c \in {"CONV", "DB"} : Exit(p, c)
  <2>1. /\ stage'[p] = "reply" /\ code'[p] \in {"CONV", "DB"}
        /\ \A q \in Procs \ {p} : stage'[q] = stage[q] /\ code'[q] = code[q]
    BY <1>0, <1>5, ExitEffect DEF ReturnTypes
  <2>2. \A q \in Procs \ {p} : Rests(q)
    BY <1>3, <2>1 DEF Rests, bookVars
  <2>3. LegUse(p)' /\ Outside(p)'
    BY <1>3, <1>4, <2>1 DEF LegUse, Outside, bookVars
  <2> QED BY <1>0, <1>1, <1>2, <1>3, <2>2, <2>3, OutsideLegal, HandlerGoes DEF bookVars
<1>6. CASE UNCHANGED code /\ \E s \in {"wait", "update", "after"} : To(p, s)
  <2>1. /\ stage'[p] \in {"wait", "update", "after"}
        /\ \A q \in Procs \ {p} : stage'[q] = stage[q]
    BY <1>0, <1>6, ToEffect DEF ReturnTypes
  <2>2. \A q \in Procs \ {p} : Rests(q)
    BY <1>3, <1>6, <2>1 DEF Rests, bookVars
  <2>3. LegUse(p)'
    BY <1>3, <1>4, <2>1 DEF LegUse, bookVars
  <2>4. stage'[p] \in {"update", "after"} /\ tc'[p] = "ok" => center' = "settled"
    <3>1. CASE TransferToPH(p)
      <4>1. stage'[p] # "update" /\ stage'[p] # "after"
        BY <1>0, <3>1, ToEffect, ExitEffect DEF TransferToPH, ReturnTypes
      <4> QED BY <4>1
    <3>2. CASE CenterAnswer(p)
      BY <1>0, <1>6, <2>1, <3>2, ExitEffect DEF CenterAnswer, ReturnTypes, TranTypes
    <3>3. CASE OPAfterCommToPH(p)
      BY <1>2, <3>3 DEF OPAfterCommToPH, Legal
    <3> QED BY <3>1, <3>2, <3>3
  <2>5. Stays(TPA) /\ Stays(TPB) => Legal(p)'
    BY <1>1, <1>2, <1>4, <2>1, <2>4 DEF Legal, Stays
  <2> QED BY <1>0, <1>1, <1>2, <1>3, <2>2, <2>3, <2>5, HandlerGoes DEF bookVars
<1> QED BY <1>5, <1>6 DEF TransferToPH, CenterAnswer, OPAfterCommToPH

(* What a step of TP_Process comes to: it begins a booking or a reversal,   *)
(* goes on to the center, or ends the request.                              *)
LEMMA BeginsBooking ==
    ASSUME EngineInv, ReturnInv, NEW p \in Procs, Handling(p), Keep(p), UNCHANGED flagged,
           NEW k \in {TPA, TPB}, NEW l, AccountingStart(p, k), Enter(p, l), Unasked(k),
           \/ l = "first" /\ k = TPA /\ Unasked(TPB)
           \/ l = "second" /\ k = TPB /\ Made(TPA)
    PROVE  ReturnInv'
<1>0. TypeOK /\ ReturnTypes /\ k \in Keys /\ l \in Legs
  BY ReturnLegs DEF EngineInv, IInv, ReturnInv, Legs
<1>1. /\ \A q \in Procs \ {p} : pc'[q] = pc[q] /\ job'[q] = job[q] /\ ret'[q] = ret[q]
      /\ job'[p].key = k /\ pc'[p] \in {"idle", "query"}
      /\ pc'[p] = "idle" => k \in Foreign /\ ret'[p] = "OK"
  BY <1>0, StartEffect
<1>2. /\ stage'[p] = "booking" /\ leg'[p] = l /\ code' = code
      /\ \A q \in Procs \ {p} : stage'[q] = stage[q] /\ leg'[q] = leg[q]
      /\ ReturnTypes'
  BY <1>0, EnterEffect DEF ReturnTypes
<1>3. \A q \in Procs \ {p} : Rests(q)
  BY <1>1, <1>2 DEF Rests, Keep
<1>4. row' # "absent" /\ byHand' = byHand /\ ~flagged'
  BY HandlerRow DEF Keep
<1>5. LegUse(p)'
  BY <1>1, <1>2 DEF LegUse, Books
<1>6. [Next]_bookVars /\ UNCHANGED <<acct, calls>>
  BY <1>0 DEF Next, AccountingStart
<1>7. Stays(TPA) /\ Stays(TPB) => Legal(p)'
  <2> SUFFICES ASSUME Stays(TPA), Stays(TPB) PROVE Legal(p)'
    OBVIOUS
  <2>1. Unasked(k)'
    BY DEF Stays
  <2>2. BookingOf(p, k)'
    BY <1>1, <2>1 DEF BookingOf, Unasked, NoReversal, Gone
  <2>3. /\ l = "first" => Unasked(TPB)'
        /\ l = "second" => Made(TPA)'
    BY DEF Stays
  <2> QED BY <1>2, <2>2, <2>3 DEF Legal
<1> QED BY <1>2, <1>3, <1>4, <1>5, <1>6, <1>7, HandlerGoes

LEMMA BeginsReversal ==
    ASSUME EngineInv, ReturnInv, NEW p \in Procs, Handling(p), Keep(p), UNCHANGED flagged,
           NEW k \in {TPA, TPB}, NEW l, NEW flag \in 1..3, AccountCancelStart(p, k, flag), Enter(p, l), InTable(k),
           \/ l \in {"undo", "cancelFirst"} /\ k = TPA /\ Gone(TPB)
           \/ l = "cancelSecond" /\ k = TPB /\ Made(TPA)
    PROVE  ReturnInv'
<1>0. TypeOK /\ ReturnTypes /\ k \in Keys /\ l \in Legs
  BY ReturnLegs DEF EngineInv, IInv, ReturnInv, Legs
<1>1. /\ \A q \in Procs \ {p} : pc'[q] = pc[q] /\ job'[q] = job[q] /\ ret'[q] = ret[q]
      /\ job'[p].key = k /\ pc'[p] \in {"idle", "cquery", "oquery"}
      /\ pc'[p] = "idle" => ret'[p] \in {"BANK", "CONV"}
  BY <1>0, CancelStartEffect
<1>2. /\ stage'[p] = "booking" /\ leg'[p] = l /\ code' = code
      /\ \A q \in Procs \ {p} : stage'[q] = stage[q] /\ leg'[q] = leg[q]
      /\ ReturnTypes'
  BY <1>0, EnterEffect DEF ReturnTypes
<1>3. \A q \in Procs \ {p} : Rests(q)
  BY <1>1, <1>2 DEF Rests, Keep
<1>4. row' # "absent" /\ byHand' = byHand /\ ~flagged'
  BY HandlerRow DEF Keep
<1>5. LegUse(p)'
  BY <1>1, <1>2 DEF LegUse, Cancels
<1>6. [Next]_bookVars /\ UNCHANGED <<acct, calls>>
  BY <1>0 DEF Next, AccountCancelStart
<1>7. Stays(TPA) /\ Stays(TPB) => Legal(p)'
  <2> SUFFICES ASSUME Stays(TPA), Stays(TPB) PROVE Legal(p)'
    OBVIOUS
  <2>1. CancelOf(p, k)'
    BY <1>1 DEF CancelOf, Stays
  <2>2. /\ l = "cancelSecond" => Made(TPA)'
        /\ l # "cancelSecond" => Gone(TPB)'
    BY DEF Stays
  <2> QED BY <1>2, <2>1, <2>2 DEF Legal
<1> QED BY <1>2, <1>3, <1>4, <1>5, <1>6, <1>7, HandlerGoes

LEMMA GoesToCenter ==
    ASSUME EngineInv, ReturnInv, NEW p \in Procs, Handling(p), Keep(p), UNCHANGED flagged,
           ToCenter(p), pc[p] = "idle", Made(TPA), Made(TPB)
    PROVE  ReturnInv'
<1>1. /\ stage'[p] = "pack" /\ leg'[p] = "none" /\ code' = code /\ UNCHANGED bookVars
      /\ \A q \in Procs \ {p} : stage'[q] = stage[q] /\ leg'[q] = leg[q]
      /\ ReturnTypes'
  BY ToCenterEffect DEF ReturnInv, ReturnTypes
<1>2. \A q \in Procs \ {p} : Rests(q)
  BY <1>1 DEF Rests, Keep, bookVars
<1>3. row' # "absent" /\ byHand' = byHand /\ ~flagged'
  BY HandlerRow DEF Keep
<1>4. LegUse(p)'
  BY <1>1 DEF LegUse, bookVars
<1>5. Stays(TPA) /\ Stays(TPB) => Legal(p)'
  BY <1>1 DEF Stays, Legal
<1> QED BY <1>1, <1>2, <1>3, <1>4, <1>5, HandlerGoes DEF bookVars

LEMMA EndsRequest ==
    ASSUME EngineInv, ReturnInv, NEW p \in Procs, Handling(p), Keep(p), NEW c \in OutCodes,
           Leave(p, c), pc[p] = "idle",
           c = "OK" => Made(TPA) /\ Made(TPB),
           c = "ANDCZ" => Gone(TPA) /\ Gone(TPB),
           flagged' = flagged \/ (flagged' = TRUE /\ c = "OK" /\ center = "settled")
    PROVE  ReturnInv'
<1>1. /\ stage'[p] = "reply" /\ leg'[p] = "none" /\ code'[p] = c /\ UNCHANGED bookVars
      /\ \A q \in Procs \ {p} : stage'[q] = stage[q] /\ leg'[q] = leg[q] /\ code'[q] = code[q]
      /\ ReturnTypes'
  BY LeaveEffect DEF ReturnInv, ReturnTypes
<1>2. \A q \in Procs \ {p} : Rests(q)
  BY <1>1 DEF Rests, Keep, bookVars
<1>3. row' # "absent" /\ byHand' = byHand /\ center' = center /\ ~flagged
  BY HandlerRow DEF Keep
<1>4. LegUse(p)' /\ ~Handling(p)'
  BY <1>1 DEF LegUse, Handling, bookVars
<1>5. Stays(TPA) /\ Stays(TPB) => Legal(p)'
  BY <1>1 DEF Stays, Legal
<1>6. Stays(TPA) /\ Stays(TPB) => (flagged' => center' = "settled" /\ Made(TPA)' /\ Made(TPB)')
  BY <1>3 DEF Stays
<1> QED BY <1>1, <1>2, <1>3, <1>4, <1>5, <1>6, HandlerGoes DEF bookVars

LEMMA TPStep ==
    ASSUME EngineInv, ReturnInv, NEW p \in Procs, TP_Process(p)
    PROVE  ReturnInv'
<1>0. TypeOK /\ ReturnTypes /\ Keep(p)
  BY DEF EngineInv, IInv, ReturnInv, TP_Process, FirstLeg, SecondLeg, SecondBooked,
         FirstUndone, AfterCenter, CancelFirst, FirstCancelled
<1>1. stage[p] \in {"before", "booking", "after"}
  BY DEF TP_Process, FirstLeg, SecondLeg, SecondBooked, FirstUndone, AfterCenter,
         CancelFirst, FirstCancelled, At
<1>2. Handling(p) /\ LegUse(p) /\ Legal(p) /\ ~flagged
  BY <1>1, HandlerRow DEF Handling
<1>3. ret[p] \in OutCodes \ {"ANDCZ"} /\ CancelCode(p) \in OutCodes \ {"OK"}
  BY <1>0 DEF TypeOK, Codes, OutCodes, CancelCode
<1>4. {"CHECK", "OK", "DB", "NOCZ", "ANDCZ"} \subseteq OutCodes
  BY DEF OutCodes, Codes
<1>5. CASE FirstLeg(p)
  <2>1. Unasked(TPA) /\ Unasked(TPB) /\ pc[p] = "idle"
    BY <1>2, <1>5 DEF FirstLeg, Legal, LegUse
  <2>2. CASE Leave(p, "CHECK")
    BY <1>0, <1>2, <1>4, <1>5, <2>1, <2>2, EndsRequest DEF FirstLeg
  <2>3. CASE AccountingStart(p, TPA) /\ Enter(p, "first")
    BY <1>0, <1>2, <1>5, <2>1, <2>3, BeginsBooking DEF FirstLeg
  <2> QED BY <1>5, <2>2, <2>3 DEF FirstLeg
<1>6. CASE SecondLeg(p)
  <2>1. /\ BookingOf(p, TPA) /\ Unasked(TPB) /\ Books(p, {TPA})
        /\ pc[p] = "idle" /\ ret[p] # "none" /\ UNCHANGED flagged
    BY <1>2, <1>6 DEF SecondLeg, At, Returned, Legal, LegUse
  <2>2. CASE ret[p] = "SUCC" /\ AccountingStart(p, TPB) /\ Enter(p, "second")
    BY <1>0, <1>2, <2>1, <2>2, BeginsBooking DEF BookingOf
  <2>3. CASE ret[p] = "OK" /\ ToCenter(p)
    <3>1. TPA \in Foreign /\ TPB \in Foreign
      BY <2>1, <2>3, ReturnsAssumption DEF Books, TPA, TPB
    <3>2. Made(TPA) /\ Made(TPB)
      BY <2>1, <3>1 DEF Made, Booked, InTable, NoReversal, BookingOf, Unasked
    <3> QED BY <1>0, <1>2, <2>1, <2>3, <3>2, GoesToCenter
  <2>4. CASE ret[p] \notin {"SUCC", "OK"} /\ Leave(p, ret[p])
    BY <1>0, <1>2, <1>3, <2>1, <2>4, EndsRequest
  <2> QED BY <1>6, <2>2, <2>3, <2>4 DEF SecondLeg
<1>7. CASE SecondBooked(p)
  <2>1. /\ Made(TPA) /\ BookingOf(p, TPB)
        /\ pc[p] = "idle" /\ ret[p] # "none" /\ UNCHANGED flagged
    BY <1>2, <1>7 DEF SecondBooked, At, Returned, Legal
  <2>2. CASE ret[p] = "SUCC" /\ ToCenter(p)
    BY <1>0, <1>2, <2>1, <2>2, GoesToCenter DEF BookingOf
  <2>3. CASE ret[p] # "SUCC" /\ AccountCancelStart(p, TPA, 2) /\ Enter(p, "undo")
    BY <1>0, <1>2, <2>1, <2>3, BeginsReversal DEF BookingOf, Made
  <2> QED BY <1>7, <2>2, <2>3 DEF SecondBooked
<1>8. CASE FirstUndone(p) \/ FirstCancelled(p)
  <2>1. /\ CancelOf(p, TPA) /\ Gone(TPB) /\ pc[p] = "idle"
        /\ Leave(p, CancelCode(p)) /\ UNCHANGED flagged
    BY <1>2, <1>8 DEF FirstUndone, FirstCancelled, At, Returned, Legal
  <2>2. CancelCode(p) = "ANDCZ" => Gone(TPA)
    BY <2>1 DEF CancelCode, CancelOf
  <2> QED BY <1>0, <1>2, <1>3, <2>1, <2>2, EndsRequest
<1>9. CASE AfterCenter(p)
  <2>1. /\ Made(TPA) /\ Made(TPB) /\ pc[p] = "idle"
        /\ tc[p] = "ok" => center = "settled"
    BY <1>2, <1>9 DEF AfterCenter, Legal, LegUse
  <2>2. ASSUME tc[p] = "ok", NEW c \in {"OK", "DB"}, Leave(p, c),
               UNCHANGED flagged \/ (flagged' = TRUE /\ c = "OK")
        PROVE  ReturnInv'
    BY <1>0, <1>2, <1>4, <2>1, <2>2, EndsRequest
  <2>3. CASE AccountCancelStart(p, TPB, 3) /\ Enter(p, "cancelSecond") /\ UNCHANGED flagged
    BY <1>0, <1>2, <2>1, <2>3, BeginsReversal DEF Made
  <2> QED BY <1>9, <2>2, <2>3 DEF AfterCenter
<1>10. CASE CancelFirst(p)
  <2>1. Made(TPA) /\ CancelOf(p, TPB) /\ pc[p] = "idle" /\ UNCHANGED flagged
    BY <1>2, <1>10 DEF CancelFirst, At, Returned, Legal
  <2>2. CASE ret[p] = "OK" /\ AccountCancelStart(p, TPA, 3) /\ Enter(p, "cancelFirst")
    BY <1>0, <1>2, <2>1, <2>2, BeginsReversal DEF CancelOf, Made
  <2>3. CASE ret[p] # "OK" /\ Leave(p, "NOCZ")
    BY <1>0, <1>2, <1>4, <2>1, <2>3, EndsRequest
  <2> QED BY <1>10, <2>2, <2>3 DEF CancelFirst
<1> QED BY <1>5, <1>6, <1>7, <1>8, <1>9, <1>10 DEF TP_Process

LEMMA ReturnInvStep == EngineInv /\ ReturnInv /\ [ReturnNext]_retVars => ReturnInv'
<1> SUFFICES ASSUME EngineInv, ReturnInv, [ReturnNext]_retVars PROVE ReturnInv'
  OBVIOUS
<1>1. CASE UNCHANGED retVars
  <2>1. \A q \in Procs : Rests(q)
    BY <1>1 DEF Rests, retVars, outVars, tranVars, bookVars
  <2>2. ReturnTypes' /\ OneHandler'
    BY <1>1 DEF retVars, outVars, tranVars, ReturnInv, ReturnTypes, TranTypes, OneHandler,
                Handling, Served
  <2>3. Aside(TPA) /\ Aside(TPB)
    BY <1>1, StillAside DEF retVars, outVars, tranVars, bookVars
  <2>4. [Next]_bookVars
    BY ReturnStepBooks
  <2> QED BY <1>1, <2>1, <2>2, <2>3, <2>4, OutsideStep DEF retVars, outVars, tranVars
<1>2. CASE Skeleton
  BY <1>2, ReturnEngineStep, CenterSteps, OutsideSteps, SubmitStep, AskSteps, DieStep,
     ManualReverseStep DEF Skeleton
<1> QED BY <1>1, <1>2, TPStep DEF ReturnNext

LEMMA ReturnInvInit == ReturnInit => ReturnInv
<1> SUFFICES ASSUME ReturnInit PROVE ReturnInv
  OBVIOUS
<1>1. ReturnTypes
  BY OutTranAssumption DEF ReturnInit, OutInit, ReturnTypes, TranTypes, ClearStates, Stages,
     Replies, OutCodes, Codes, Legs
<1>2. /\ row = "absent" /\ flagged = FALSE /\ byHand = {} /\ calls = {}
      /\ \A p \in Procs : stage[p] = "idle" /\ leg[p] = "none" /\ pc[p] = "idle"
      /\ \A k \in Keys : acct[k] = Absent
  BY DEF ReturnInit, OutInit, Init
<1>3. Unasked(TPA) /\ Unasked(TPB)
  BY <1>2, ReturnLegs DEF Unasked
<1>4. OneHandler /\ Past
  BY <1>2, <1>3 DEF OneHandler, Handling, Served, Past, NoReversal
<1>5. \A p \in Procs : LegUse(p) /\ Legal(p)
  BY <1>2 DEF LegUse, Legal
<1> QED BY <1>1, <1>4, <1>5 DEF ReturnInv

LEMMA ReturnInductive == ReturnSpec => [](EngineInv /\ ReturnInv)
<1>1. ReturnSpec => []IInv
  BY ReturnsUseBooking, Inductive, PTL
<1>2. ReturnSpec => [](UndoInv /\ SuspendInv)
  BY ReturnsUseBooking, AnswersTrue, PTL
<1>3. IInv /\ UndoInv /\ SuspendInv => EngineInv
  BY DEF EngineInv
<1> QED BY <1>1, <1>2, <1>3, ReturnInvInit, ReturnInvStep, PTL DEF ReturnSpec

LEMMA MadeStands ==
    ASSUME EngineInv, NEW k, Made(k), Trusted(k)
    PROVE  Stands(k)
<1>1. Posted(k) # {}
  BY DEF Made, Booked, Trusted
<1>2. ASSUME NEW b \in Posted(k), Undone(b.serial) PROVE FALSE
  <2>1. PICK c \in calls : c.op = "reverse" /\ c.target = b.serial /\ Answer(c.serial, "ok")
    BY <1>2 DEF Undone
  <2>2. PICK d \in Posted(c.key) : d.serial = b.serial
    BY <2>1 DEF EngineInv, UndoInv
  <2>3. c.key = k
    BY <2>2 DEF Posted, EngineInv, IInv, SerialInv
  <2> QED BY <2>1, <2>3 DEF Made, NoReversal, Trusted
<1> QED BY <1>1, <1>2 DEF Stands

LEMMA GoneFalls ==
    ASSUME EngineInv, NEW k, Gone(k), Known(k)
    PROVE  ~Stands(k)
<1>1. AllRefused(k) \/ Reversed(k)
  BY DEF Gone, Pending, Known, Trusted
<1>2. AllRefused(k) => Posted(k) = {}
  <2> SUFFICES ASSUME AllRefused(k), NEW b \in Posted(k) PROVE FALSE
    OBVIOUS
  <2>1. b \in calls /\ Took(b.serial) /\ Answer(b.serial, "refused")
    BY DEF AllRefused, Posted
  <2>2. \A a1, a2 \in answers : a1.serial = a2.serial => a1 = a2
    BY DEF EngineInv, IInv, SerialInv
  <2> QED BY <2>1, <2>2 DEF Took, Answer
<1> QED BY <1>1, <1>2 DEF Stands, Reversed

(* The legs of a return are reversed in the opposite order: when TP_Process *)
(* has asked the core system to reverse the first leg, the second does not  *)
(* stand there, unless the journal has it in doubt.                         *)
THEOREM ReversedInOrder == ReturnSpec => []FirstUndoneLast
<1>1. EngineInv /\ ReturnInv => FirstUndoneLast
  <2> SUFFICES ASSUME EngineInv, ReturnInv, NEW c \in calls, c.op = "reverse", c.key = TPA,
                      TPA \notin byHand, Known(TPB)
               PROVE  ~Stands(TPB)
    BY DEF FirstUndoneLast
  <2>1. Gone(TPB)
    BY DEF ReturnInv, Past, NoReversal
  <2> QED BY <2>1, GoneFalls
<1> QED BY <1>1, ReturnInductive, PTL

(* The code a return is answered with tells what stands in the core system: *)
(* E_APP_ACCOUNTANDCZ that neither leg does, 0 that both do, of the legs    *)
(* whose outcome the journal knows.                                         *)
THEOREM ReturnAnswerIsTrue == ReturnSpec => []ReturnAnswer
<1>1. EngineInv /\ ReturnInv => ReturnAnswer
  <2> SUFFICES ASSUME EngineInv, ReturnInv, NEW p \in Procs, stage[p] = "reply",
                      NEW k \in {TPA, TPB}
               PROVE  /\ code[p] = "ANDCZ" /\ Known(k) => ~Stands(k)
                      /\ code[p] = "OK" /\ Trusted(k) => Stands(k)
    BY DEF ReturnAnswer
  <2>1. Legal(p)
    BY DEF ReturnInv
  <2>2. code[p] = "ANDCZ" /\ Known(k) => ~Stands(k)
    BY <2>1, GoneFalls DEF Legal
  <2>3. code[p] = "OK" /\ Trusted(k) => Stands(k)
    BY <2>1, MadeStands DEF Legal
  <2> QED BY <2>2, <2>3
<1> QED BY <1>1, ReturnInductive, PTL

(* The original ticket gets its tpflag only of a return that the center has *)
(* settled and whose legs both stand in the core system, and keeps it only  *)
(* so: nothing the platform does later reverses them.                       *)
THEOREM FlagIsTrue == ReturnSpec => []FlaggedWasReturned
<1>1. EngineInv /\ ReturnInv => FlaggedWasReturned
  <2> SUFFICES ASSUME EngineInv, ReturnInv, flagged
               PROVE  center = "settled" /\ \A k \in {TPA, TPB} : Trusted(k) => Stands(k)
    BY DEF FlaggedWasReturned
  <2>1. center = "settled" /\ Made(TPA) /\ Made(TPB)
    BY DEF ReturnInv, Past
  <2> QED BY <2>1, MadeStands
<1> QED BY <1>1, ReturnInductive, PTL
=============================================================================
