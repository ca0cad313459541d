--------------------------- MODULE BookingProofs ---------------------------
(***************************************************************************)
(* Theorems about the booking engine, for any set of processes and legs    *)
(* and any number of calls: what it keeps of the core system, and that it  *)
(* implements BookOnce.                                                    *)
(***************************************************************************)
EXTENDS Booking, TLAPS

(* A platform serial is spent on one request, and answered once. *)
SerialInv ==
    /\ \A c \in calls : c.serial # 0 /\ c.serial <= serial
    /\ \A c1, c2 \in calls : c1.serial = c2.serial => c1 = c2
    /\ \A a \in answers : \E c \in calls : c.serial = a.serial
    /\ \A a1, a2 \in answers : a1.serial = a2.serial => a1 = a2

(* What a process holds at each control point: a serial of its own, not yet *)
(* spent before the request leaves, spent on its request afterwards.       *)
JobOK(p) ==
    /\ job[p].serial <= serial
    /\ pc[p] \in {"idle", "cquery", "oquery"} <=> job[p].serial = 0
    /\ pc[p] \in {"query", "insert", "send", "csend"} =>
          \A c \in calls : c.serial # job[p].serial
    /\ pc[p] = "await" =>
          \E c \in calls : /\ c.op = "book" /\ c.key = job[p].key
                           /\ c.serial = job[p].serial
    /\ pc[p] = "cawait" =>
          \E c \in calls : /\ c.op = "reverse" /\ c.key = job[p].key
                           /\ c.serial = job[p].serial
                           /\ c.target = job[p].target

JobInv ==
    /\ \A p \in Procs : JobOK(p)
    /\ \A p, q \in Procs : job[p].serial = job[q].serial /\ job[p].serial # 0 => p = q

(* A leg that was never reopened has one claimant: the process whose serial *)
(* the journal row holds, before, while and after it asks for the booking.  *)
ClaimInv ==
    /\ \A p \in Procs : pc[p] \in {"send", "await"} =>
          /\ acct[job[p].key].res # "absent"
          /\ job[p].key \in reopened \/ job[p].serial = acct[job[p].key].ref
    /\ \A c \in calls : c.op = "book" =>
          /\ acct[c.key].res # "absent"
          /\ c.key \in reopened \/ c.serial = acct[c.key].ref

(* Reopening and reversing happen to rows that are decided. *)
DecidedInv ==
    /\ \A k \in reopened : acct[k].res \notin {"absent", "unknown"}
    /\ \A p \in Procs : pc[p] \in {"csend", "cawait"} =>
          acct[job[p].key].res \notin {"absent", "unknown"}

(* The target of a reversal is a posting from the moment it is chosen. *)
TargetInv ==
    \A p \in Procs : pc[p] = "csend" /\ job[p].key \notin reopened \cup blind =>
        \E b \in Posted(job[p].key) : b.serial = job[p].target

IInv == /\ TypeOK /\ SerialInv /\ JobInv /\ ClaimInv /\ DecidedInv
        /\ BookedWasPosted /\ TargetInv /\ ReversalHasTarget

-----------------------------------------------------------------------------
(* The steps of the system, one case each: used by every step lemma below. *)
LEMMA NextCases ==
  ASSUME NEW P, Next,
         \A p \in Procs, k \in Keys : AccountingStart(p, k) => P,
         \A p \in Procs : AccountingQuery(p) => P,
         \A p \in Procs : AccountingInsert(p) => P,
         \A p \in Procs : AccountingSend(p) => P,
         \A p \in Procs : AccountingReply(p) => P,
         \A p \in Procs : CallLost(p) => P,
         \A p \in Procs, k \in Keys, flag \in 1..3 : AccountCancelStart(p, k, flag) => P,
         \A p \in Procs : AccountCancelQuery(p) => P,
         \A p \in Procs : AccountCancelSend(p) => P,
         \A p \in Procs : AccountCancelReply(p) => P,
         \A p \in Procs : Crash(p) => P,
         \A c \in calls : BankExecute(c) => P,
         \A k \in Keys, r \in Results : ManualAdjust(k, r) => P
  PROVE  P
  BY DEF Next, ProcStep

(* The state stays within its types. *)
LEMMA TypeInit == Init => TypeOK
  BY DEF Init, TypeOK, Absent, Rows, Job, Jobs, Points, Codes

(* The control points, parameters and codes written by End and Begin. *)
ControlOK == /\ pc \in [Procs -> Points]
             /\ job \in [Procs -> Jobs]
             /\ ret \in [Procs -> Codes]

LEMMA EndType ==
  ASSUME TypeOK, NEW p \in Procs, NEW k \in Keys, NEW c \in Codes, End(p, k, c)
  PROVE  ControlOK'
  BY DEF TypeOK, ControlOK, End, Job, Jobs, Points

LEMMA BeginType ==
  ASSUME TypeOK, NEW p \in Procs, NEW point \in Points, NEW j \in Jobs, Begin(p, point, j)
  PROVE  ControlOK'
  BY DEF TypeOK, ControlOK, Begin, Codes

LEMMA ReturnType ==
  ASSUME TypeOK, NEW p \in Procs, NEW c \in Codes, Return(p, c)
  PROVE  ControlOK'
<1>1. job[p].key \in Keys
  BY DEF TypeOK, Jobs
<1> QED
  BY <1>1, EndType DEF Return

LEMMA GotoType ==
  ASSUME TypeOK, NEW p \in Procs, NEW point \in Points, Goto(p, point)
  PROVE  ControlOK'
<1>1. job[p] \in Jobs
  BY DEF TypeOK
<1> QED
  BY <1>1, BeginType DEF Goto

LEMMA SetResultType ==
  ASSUME TypeOK, NEW k \in Keys, NEW r \in Results, SetResult(k, r)
  PROVE  acct' \in [Keys -> Rows]
  BY DEF TypeOK, SetResult, Rows, Absent

LEMMA TypeStep == TypeOK /\ [Next]_bookVars => TypeOK'
<1> SUFFICES ASSUME TypeOK, [Next]_bookVars PROVE TypeOK'
  OBVIOUS
<1>0. \A p \in Procs : job[p] \in Jobs /\ job[p].key \in Keys /\ job[p].serial \in Nat
                                        /\ job[p].target \in Nat
  BY DEF TypeOK, Jobs
<1>1. ASSUME NEW p \in Procs, NEW k \in Keys, AccountingStart(p, k) PROVE TypeOK'
  <2>1. serial + 1 \in Nat /\ Job(k, serial + 1, 0) \in Jobs
    BY DEF TypeOK, Job, Jobs
  <2>2. ControlOK'
    BY <1>1, <2>1, EndType, BeginType DEF AccountingStart, Points, Codes
  <2> QED
    BY <1>1, <2>1, <2>2 DEF AccountingStart, TypeOK, ControlOK
<1>2. ASSUME NEW p \in Procs, AccountingQuery(p) PROVE TypeOK'
  <2>1. ControlOK'
    BY <1>2, ReturnType, GotoType DEF AccountingQuery, Points, Codes
  <2> QED
    BY <1>0, <1>2, <2>1 DEF AccountingQuery, TypeOK, ControlOK
<1>3. ASSUME NEW p \in Procs, AccountingInsert(p) PROVE TypeOK'
  <2>1. ControlOK'
    BY <1>3, ReturnType, GotoType DEF AccountingInsert, Points, Codes
  <2>2. acct' \in [Keys -> Rows]
    BY <1>0, <1>3 DEF AccountingInsert, TypeOK, Rows, Results
  <2> QED
    BY <1>3, <2>1, <2>2 DEF AccountingInsert, TypeOK, ControlOK
<1>4. ASSUME NEW p \in Procs, NEW op \in Ops, NEW next \in Points, Call(p, op, next)
      PROVE  TypeOK'
  <2>1. ControlOK'
    BY <1>4, ReturnType, GotoType DEF Call, Codes
  <2>2. [op |-> op, key |-> job[p].key, serial |-> job[p].serial,
         target |-> job[p].target] \in Calls
    BY <1>0 DEF Calls
  <2> QED
    BY <1>4, <2>1, <2>2 DEF Call, TypeOK, ControlOK
<1>5. ASSUME NEW p \in Procs, AccountingReply(p) PROVE TypeOK'
  <2>1. ControlOK'
    BY <1>5, ReturnType DEF AccountingReply, Codes
  <2>2. acct' \in [Keys -> Rows] /\ host' \in [Keys -> Nat]
    BY <1>0, <1>5, SetResultType DEF AccountingReply, TypeOK, Results, Journal
  <2>3. blind' \subseteq Keys
    BY <1>0, <1>5 DEF AccountingReply, TypeOK
  <2> QED
    BY <1>5, <2>1, <2>2, <2>3 DEF AccountingReply, TypeOK, ControlOK
<1>6. ASSUME NEW p \in Procs, CallLost(p) \/ Crash(p) PROVE TypeOK'
  <2>1. ControlOK'
    BY <1>6, ReturnType DEF CallLost, Crash, Codes
  <2> QED
    BY <1>6, <2>1 DEF CallLost, Crash, TypeOK, ControlOK
<1>7. ASSUME NEW p \in Procs, NEW k \in Keys, NEW flag \in 1..3, AccountCancelStart(p, k, flag) PROVE TypeOK'
  <2>1. Job(k, 0, 0) \in Jobs
    BY DEF Job, Jobs
  <2>2. ControlOK'
    BY <1>7, <2>1, EndType, BeginType DEF AccountCancelStart, Points, Codes
  <2> QED
    BY <1>7, <2>2 DEF AccountCancelStart, TypeOK, ControlOK
<1>8. ASSUME NEW p \in Procs, AccountCancelQuery(p) PROVE TypeOK'
  <2>1. serial + 1 \in Nat /\ Job(job[p].key, serial + 1, Original(p)) \in Jobs
    BY <1>0 DEF TypeOK, Job, Jobs, Rows, Absent, Original
  <2>2. ControlOK'
    BY <1>8, <2>1, ReturnType, BeginType DEF AccountCancelQuery, Points, Codes
  <2> QED
    BY <1>8, <2>1, <2>2 DEF AccountCancelQuery, TypeOK, ControlOK
<1>9. ASSUME NEW p \in Procs, AccountCancelReply(p) PROVE TypeOK'
  <2>1. ControlOK'
    BY <1>9, ReturnType DEF AccountCancelReply, Codes
  <2>2. acct' \in [Keys -> Rows]
    BY <1>0, <1>9, SetResultType DEF AccountCancelReply, TypeOK, Results
  <2>3. blind' \subseteq Keys
    BY <1>0, <1>9 DEF AccountCancelReply, TypeOK
  <2> QED
    BY <1>9, <2>1, <2>2, <2>3 DEF AccountCancelReply, TypeOK, ControlOK
<1>10. ASSUME NEW c \in calls, BankExecute(c) PROVE TypeOK'
  BY <1>10 DEF BankExecute, TypeOK, Calls, Answers
<1>11. ASSUME NEW k \in Keys, NEW r \in Results, ManualAdjust(k, r) PROVE TypeOK'
  BY <1>11, SetResultType DEF ManualAdjust, TypeOK
<1>12. CASE UNCHANGED bookVars
  BY <1>12 DEF bookVars, TypeOK
<1>13. ASSUME NEW p \in Procs, AccountingSend(p) \/ AccountCancelSend(p) PROVE TypeOK'
  BY <1>4, <1>13 DEF AccountingSend, AccountCancelSend, Ops, Points
<1> QED
  BY <1>1, <1>2, <1>3, <1>5, <1>6, <1>7, <1>8, <1>9, <1>10, <1>11, <1>12, <1>13, NextCases
-----------------------------------------------------------------------------
(* What End and Begin do to the process that takes the step and leave alone *)
(* of the others.                                                          *)
LEMMA EndEffect ==
  ASSUME TypeOK, NEW p \in Procs, NEW k \in Keys, NEW c, End(p, k, c)
  PROVE  /\ pc'[p] = "idle" /\ ret'[p] = c /\ job'[p].key = k /\ job'[p].serial = 0
         /\ \A q \in Procs \ {p} : pc'[q] = pc[q] /\ job'[q] = job[q] /\ ret'[q] = ret[q]
  BY DEF TypeOK, End, Job

LEMMA ReturnEffect ==
  ASSUME TypeOK, NEW p \in Procs, NEW c, Return(p, c)
  PROVE  /\ pc'[p] = "idle" /\ ret'[p] = c
         /\ job'[p].key = job[p].key /\ job'[p].serial = 0
         /\ \A q \in Procs \ {p} : pc'[q] = pc[q] /\ job'[q] = job[q] /\ ret'[q] = ret[q]
<1>1. job[p].key \in Keys
  BY DEF TypeOK, Jobs
<1> QED
  BY <1>1, EndEffect DEF Return

LEMMA BeginEffect ==
  ASSUME TypeOK, NEW p \in Procs, NEW point, NEW j, Begin(p, point, j)
  PROVE  /\ pc'[p] = point /\ ret'[p] = "none" /\ job'[p] = j
         /\ \A q \in Procs \ {p} : pc'[q] = pc[q] /\ job'[q] = job[q] /\ ret'[q] = ret[q]
  BY DEF TypeOK, Begin

LEMMA GotoEffect ==
  ASSUME TypeOK, NEW p \in Procs, NEW point, Goto(p, point)
  PROVE  /\ pc'[p] = point /\ ret'[p] = "none" /\ job' = job
         /\ \A q \in Procs \ {p} : pc'[q] = pc[q] /\ ret'[q] = ret[q]
  BY DEF TypeOK, Goto, Begin

LEMMA SetResultEffect ==
  ASSUME TypeOK, NEW j \in Keys, NEW r \in Results, SetResult(j, r), NEW k \in Keys
  PROVE  /\ acct'[k].res = (IF k = j THEN r ELSE acct[k].res)
         /\ acct'[k].ref = acct[k].ref
  BY DEF SetResult, TypeOK, Rows, Absent, Results

(* Serials stay unique: a request spends the unspent serial of its sender, *)
(* and the core system answers only what is not answered.                  *)
LEMMA SerialStep == IInv /\ [Next]_bookVars => SerialInv'
<1> SUFFICES ASSUME IInv, [Next]_bookVars PROVE SerialInv'
  OBVIOUS
<1> USE DEF IInv
<1>1. ASSUME UNCHANGED <<calls, answers>>, serial' = serial \/ serial' = serial + 1
      PROVE  SerialInv'
  BY <1>1 DEF SerialInv, TypeOK, Calls
<1>2. ASSUME NEW p \in Procs, NEW op, NEW next, Call(p, op, next), job[p].serial # 0,
             \A c \in calls : c.serial # job[p].serial
      PROVE  SerialInv'
  <2>1. job[p].serial <= serial
    BY DEF JobInv, JobOK
  <2> QED
    BY <1>2, <2>1 DEF Call, SerialInv, TypeOK
<1>3. ASSUME NEW p \in Procs, AccountingSend(p) \/ AccountCancelSend(p) PROVE SerialInv'
  BY <1>2, <1>3 DEF AccountingSend, AccountCancelSend, JobInv, JobOK
<1>4. ASSUME NEW c \in calls, BankExecute(c) PROVE SerialInv'
  BY <1>4 DEF BankExecute, SerialInv, Answered
<1>5. CASE UNCHANGED bookVars
  BY <1>1, <1>5 DEF bookVars
<1>6. CASE Next
  <2>1. ASSUME NEW p \in Procs, NEW k \in Keys,
               AccountingStart(p, k) \/ \E flag \in 1..3 : AccountCancelStart(p, k, flag)
        PROVE  SerialInv'
    BY <1>1, <2>1 DEF AccountingStart, AccountCancelStart
  <2>2. ASSUME NEW p \in Procs,
               \/ AccountingQuery(p) \/ AccountingInsert(p) \/ AccountingReply(p)
               \/ CallLost(p) \/ AccountCancelQuery(p) \/ AccountCancelReply(p) \/ Crash(p)
        PROVE  SerialInv'
    BY <1>1, <2>2 DEF AccountingQuery, AccountingInsert, AccountingReply, CallLost,
                      AccountCancelQuery, AccountCancelReply, Crash
  <2>3. ASSUME NEW k \in Keys, NEW r \in Results, ManualAdjust(k, r) PROVE SerialInv'
    BY <1>1, <2>3 DEF ManualAdjust
  <2> QED
    BY <1>3, <1>4, <1>6, <2>1, <2>2, <2>3, NextCases
<1> QED
  BY <1>5, <1>6

(* Jobs stay sound. *)
LEMMA JobStep == IInv /\ [Next]_bookVars => JobInv'
<1> SUFFICES ASSUME IInv, [Next]_bookVars PROVE JobInv'
  OBVIOUS
<1> USE DEF IInv
<1>0. \A p \in Procs : job[p] \in Jobs /\ job[p].serial \in Nat /\ JobOK(p)
  BY DEF TypeOK, Jobs, JobInv
<1>1. ASSUME NEW p \in Procs, UNCHANGED <<calls, serial>>,
             pc'[p] \in {"idle", "cquery", "oquery"}, job'[p].serial = 0,
             \A q \in Procs \ {p} : pc'[q] = pc[q] /\ job'[q] = job[q]
      PROVE  JobInv'
  BY <1>0, <1>1 DEF JobInv, JobOK, TypeOK
<1>2. ASSUME NEW p \in Procs, UNCHANGED calls, serial' = serial + 1,
             pc'[p] \in {"query", "csend"}, job'[p].serial = serial + 1,
             \A q \in Procs \ {p} : pc'[q] = pc[q] /\ job'[q] = job[q]
      PROVE  JobInv'
  BY <1>0, <1>2 DEF JobInv, JobOK, SerialInv, TypeOK, Calls
<1>3. ASSUME NEW p \in Procs, UNCHANGED <<calls, serial, job>>, pc[p] \in {"query", "insert"},
             pc'[p] \in {"insert", "send"},
             \A q \in Procs \ {p} : pc'[q] = pc[q]
      PROVE  JobInv'
  BY <1>0, <1>3 DEF JobInv, JobOK
<1>4. ASSUME NEW p \in Procs, AccountingSend(p) \/ AccountCancelSend(p) PROVE JobInv'
  <2>1. CASE Return(p, "CONV") /\ UNCHANGED <<calls, serial>>
    BY <1>1, <2>1, ReturnEffect
  <2>2. CASE ~(Return(p, "CONV") /\ UNCHANGED <<calls, serial>>)
    <3>1. PICK c : /\ calls' = calls \cup {c} /\ c.serial = job[p].serial
                   /\ c.key = job[p].key /\ c.target = job[p].target
                   /\ \/ pc[p] = "send" /\ pc'[p] = "await" /\ c.op = "book"
                      \/ pc[p] = "csend" /\ pc'[p] = "cawait" /\ c.op = "reverse"
                   /\ UNCHANGED <<serial, job>>
                   /\ \A q \in Procs \ {p} : pc'[q] = pc[q]
      BY <1>4, <2>2, GotoEffect DEF AccountingSend, AccountCancelSend, Call
    <3>2. ASSUME NEW q \in Procs \ {p} PROVE JobOK(q)'
      <4>1. job[q].serial # job[p].serial
        BY <1>0, <3>1 DEF JobInv, JobOK
      <4> QED
        BY <1>0, <3>1, <4>1 DEF JobOK
    <3>3. JobOK(p)'
      BY <1>0, <3>1 DEF JobOK
    <3> QED
      BY <3>1, <3>2, <3>3 DEF JobInv
  <2> QED
    BY <2>1, <2>2
<1>5. ASSUME NEW p \in Procs, NEW k \in Keys, AccountingStart(p, k) PROVE JobInv'
  <2>1. CASE End(p, k, "OK") /\ UNCHANGED serial
    BY <1>1, <1>5, <2>1, EndEffect DEF AccountingStart
  <2>2. CASE Begin(p, "query", Job(k, serial + 1, 0)) /\ serial' = serial + 1
    BY <1>2, <1>5, <2>2, BeginEffect DEF AccountingStart, Job
  <2> QED
    BY <1>5, <2>1, <2>2 DEF AccountingStart
<1>6. ASSUME NEW p \in Procs, NEW k \in Keys, NEW flag \in 1..3, AccountCancelStart(p, k, flag) PROVE JobInv'
  BY <1>1, <1>6, EndEffect, BeginEffect DEF AccountCancelStart, Job
<1>7. ASSUME NEW p \in Procs, AccountingQuery(p) \/ AccountingInsert(p) PROVE JobInv'
  BY <1>1, <1>3, <1>7, ReturnEffect, GotoEffect DEF AccountingQuery, AccountingInsert
<1>8. ASSUME NEW p \in Procs,
             AccountingReply(p) \/ CallLost(p) \/ AccountCancelReply(p) \/ Crash(p)
      PROVE  JobInv'
  BY <1>1, <1>8, ReturnEffect
     DEF AccountingReply, CallLost, AccountCancelReply, Crash
<1>9. ASSUME NEW p \in Procs, AccountCancelQuery(p) PROVE JobInv'
  BY <1>1, <1>2, <1>9, ReturnEffect, BeginEffect DEF AccountCancelQuery, Job
<1>10. ASSUME UNCHANGED <<calls, serial, pc, job>> PROVE JobInv'
  BY <1>10 DEF JobInv, JobOK
<1>11. ASSUME NEW c \in calls, BankExecute(c) PROVE JobInv'
  BY <1>10, <1>11 DEF BankExecute
<1>12. ASSUME NEW k \in Keys, NEW r \in Results, ManualAdjust(k, r) PROVE JobInv'
  BY <1>10, <1>12 DEF ManualAdjust
<1>13. CASE UNCHANGED bookVars
  BY <1>10, <1>13 DEF bookVars
<1> QED
  BY <1>4, <1>5, <1>6, <1>7, <1>8, <1>9, <1>11, <1>12, <1>13, NextCases
(* What a step does to one journal row, by the action that takes it: only   *)
(* an insert and the two replies write rows, and only a row that is there   *)
(* and decided is reopened.                                                 *)
LEMMA RowsKept ==
  ASSUME TypeOK, [Next]_bookVars, NEW k \in Keys, acct[k].res # "absent"
  PROVE  acct'[k].res # "absent" /\ acct'[k].ref = acct[k].ref
<1>0. \A q \in Procs : job[q].key \in Keys
  BY DEF TypeOK, Jobs
<1>1. ASSUME NEW j \in Keys, NEW r \in Results, SetResult(j, r)
      PROVE  acct'[k].res # "absent" /\ acct'[k].ref = acct[k].ref
  BY <1>1 DEF SetResult, TypeOK, Rows, Absent, Results
<1>2. CASE UNCHANGED acct
  BY <1>2
<1>3. ASSUME NEW p \in Procs, AccountingInsert(p)
      PROVE  acct'[k].res # "absent" /\ acct'[k].ref = acct[k].ref
  BY <1>0, <1>3 DEF AccountingInsert, TypeOK, Absent
<1>4. ASSUME NEW p \in Procs, AccountingReply(p) \/ AccountCancelReply(p)
      PROVE  acct'[k].res # "absent" /\ acct'[k].ref = acct[k].ref
  BY <1>0, <1>1, <1>2, <1>4 DEF AccountingReply, AccountCancelReply, Results, Journal
<1>5. ASSUME NEW j \in Keys, NEW r \in Results, ManualAdjust(j, r)
      PROVE  acct'[k].res # "absent" /\ acct'[k].ref = acct[k].ref
  BY <1>1, <1>5 DEF ManualAdjust
<1>6. CASE UNCHANGED bookVars
  BY <1>2, <1>6 DEF bookVars
<1> QED
  BY <1>2, <1>3, <1>4, <1>5, <1>6
     DEF Next, ProcStep, AccountingStart, AccountingQuery, AccountingSend, Call, CallLost,
         AccountCancelStart, AccountCancelQuery, AccountCancelSend, Crash, BankExecute

LEMMA HistoryGrows ==
  ASSUME [Next]_bookVars
  PROVE  /\ calls \subseteq calls' /\ answers \subseteq answers'
         /\ reopened \subseteq reopened' /\ blind \subseteq blind'
<1>1. CASE UNCHANGED bookVars
  BY <1>1 DEF bookVars
<1> QED
  BY <1>1
     DEF Next, ProcStep, AccountingStart, AccountingQuery, AccountingInsert, AccountingSend,
         AccountingReply, Call, CallLost, AccountCancelStart, AccountCancelQuery,
         AccountCancelSend, AccountCancelReply, Crash, BankExecute, ManualAdjust

LEMMA PostedGrows ==
  ASSUME [Next]_bookVars, NEW k
  PROVE  Posted(k) \subseteq Posted(k)'
  BY HistoryGrows DEF Posted, Took, Answer

(* The process whose serial the row holds stays the only claimant. *)
LEMMA ClaimStep == IInv /\ [Next]_bookVars => ClaimInv'
<1> SUFFICES ASSUME IInv, [Next]_bookVars PROVE ClaimInv'
  OBVIOUS
<1> USE DEF IInv
<1>0. \A q \in Procs : job[q].key \in Keys /\ job[q].serial \in Nat
  BY DEF TypeOK, Jobs
<1>k. \A c \in calls : c.key \in Keys
  BY DEF TypeOK, Calls
<1>r. reopened \subseteq reopened'
  BY HistoryGrows
<1>1. ASSUME UNCHANGED calls,
             \A q \in Procs : pc'[q] \in {"send", "await"} =>
                 pc[q] \in {"send", "await"} /\ job'[q] = job[q]
      PROVE  ClaimInv'
  BY <1>0, <1>k, <1>r, <1>1, RowsKept DEF ClaimInv
<1>2. ASSUME NEW p \in Procs, AccountingInsert(p) PROVE ClaimInv'
  <2>1. CASE Return(p, "FAIL") /\ UNCHANGED acct
    BY <1>1, <1>2, <2>1, ReturnEffect DEF AccountingInsert
  <2>2. CASE /\ acct[job[p].key] = Absent
             /\ acct' = [acct EXCEPT ![job[p].key] =
                                      [res |-> "unknown", ref |-> job[p].serial]]
             /\ Goto(p, "send")
    <3>1. acct'[job[p].key] = [res |-> "unknown", ref |-> job[p].serial]
      BY <1>0, <2>2 DEF TypeOK
    <3>2. /\ \A c \in calls : c.op = "book" => c.key # job[p].key
          /\ \A q \in Procs : pc[q] \in {"send", "await"} => job[q].key # job[p].key
      BY <2>2 DEF ClaimInv, Absent
    <3>3. \A k \in Keys \ {job[p].key} : acct'[k] = acct[k]
      BY <2>2 DEF TypeOK
    <3> QED
      BY <1>0, <1>k, <1>2, <2>2, <3>1, <3>2, <3>3, GotoEffect DEF ClaimInv, AccountingInsert
  <2> QED
    BY <1>2, <2>1, <2>2 DEF AccountingInsert
<1>3. ASSUME NEW p \in Procs, AccountingQuery(p) PROVE ClaimInv'
  <2>1. CASE \E c \in Codes : Return(p, c)
    BY <1>1, <1>3, <2>1, ReturnEffect DEF AccountingQuery
  <2>2. CASE Goto(p, "insert")
    BY <1>1, <1>3, <2>2, GotoEffect DEF AccountingQuery
  <2>3. CASE /\ acct[job[p].key].res \in Closed
             /\ Goto(p, "send")
             /\ reopened' = reopened \cup {job[p].key}
    BY <1>0, <1>k, <1>3, <2>3, GotoEffect DEF AccountingQuery, ClaimInv, Closed
  <2> QED
    BY <1>3, <2>1, <2>2, <2>3 DEF AccountingQuery, Codes
<1>4. ASSUME NEW p \in Procs, AccountingSend(p) PROVE ClaimInv'
  <2>1. CASE Return(p, "CONV") /\ UNCHANGED calls
    BY <1>1, <1>4, <2>1, ReturnEffect DEF AccountingSend
  <2>2. CASE ~(Return(p, "CONV") /\ UNCHANGED calls)
    BY <1>0, <1>k, <1>4, <2>2, GotoEffect DEF AccountingSend, Call, ClaimInv
  <2> QED
    BY <2>1, <2>2
<1>5. ASSUME NEW p \in Procs, AccountCancelSend(p) PROVE ClaimInv'
  <2>1. CASE Return(p, "CONV") /\ UNCHANGED calls
    BY <1>1, <1>5, <2>1, ReturnEffect DEF AccountCancelSend
  <2>2. CASE ~(Return(p, "CONV") /\ UNCHANGED calls)
    BY <1>0, <1>k, <1>5, <2>2, GotoEffect DEF AccountCancelSend, Call, ClaimInv
  <2> QED
    BY <2>1, <2>2
<1>6. ASSUME NEW p \in Procs, NEW k \in Keys,
             AccountingStart(p, k) \/ \E flag \in 1..3 : AccountCancelStart(p, k, flag)
      PROVE  ClaimInv'
  BY <1>1, <1>6, EndEffect, BeginEffect DEF AccountingStart, AccountCancelStart
<1>7. ASSUME NEW p \in Procs,
             \/ AccountingReply(p) \/ CallLost(p) \/ AccountCancelReply(p) \/ Crash(p)
      PROVE  ClaimInv'
  BY <1>1, <1>7, ReturnEffect DEF AccountingReply, CallLost, AccountCancelReply, Crash
<1>8. ASSUME NEW p \in Procs, AccountCancelQuery(p) PROVE ClaimInv'
  BY <1>1, <1>8, ReturnEffect, BeginEffect DEF AccountCancelQuery
<1>9. ASSUME NEW c \in calls, BankExecute(c) PROVE ClaimInv'
  BY <1>1, <1>9 DEF BankExecute
<1>10. ASSUME NEW k \in Keys, NEW r \in Results, ManualAdjust(k, r) PROVE ClaimInv'
  BY <1>1, <1>10 DEF ManualAdjust
<1>11. CASE UNCHANGED bookVars
  BY <1>1, <1>11 DEF bookVars
<1> QED
  BY <1>2, <1>3, <1>4, <1>5, <1>6, <1>7, <1>8, <1>9, <1>10, <1>11, NextCases
(* A decided row stays decided. *)
LEMMA DecidedKept ==
  ASSUME TypeOK, [Next]_bookVars, NEW k \in Keys, acct[k].res \notin {"absent", "unknown"}
  PROVE  acct'[k].res \notin {"absent", "unknown"}
<1>0. \A q \in Procs : job[q].key \in Keys
  BY DEF TypeOK, Jobs
<1>1. ASSUME NEW j \in Keys, NEW r \in Results \ {"unknown"}, SetResult(j, r)
      PROVE  acct'[k].res \notin {"absent", "unknown"}
  BY <1>1 DEF SetResult, TypeOK, Rows, Absent, Results
<1>2. CASE UNCHANGED acct
  BY <1>2
<1>3. ASSUME NEW p \in Procs, AccountingInsert(p)
      PROVE  acct'[k].res \notin {"absent", "unknown"}
  BY <1>0, <1>3 DEF AccountingInsert, TypeOK, Absent
<1>4. ASSUME NEW p \in Procs, AccountingReply(p) \/ AccountCancelReply(p)
      PROVE  acct'[k].res \notin {"absent", "unknown"}
  BY <1>0, <1>1, <1>2, <1>4 DEF AccountingReply, AccountCancelReply, Results, Journal
<1>5. ASSUME NEW j \in Keys, NEW r \in Results, ManualAdjust(j, r)
      PROVE  acct'[k].res \notin {"absent", "unknown"}
  BY <1>1, <1>5 DEF ManualAdjust
<1>6. CASE UNCHANGED bookVars
  BY <1>2, <1>6 DEF bookVars
<1> QED
  BY <1>2, <1>3, <1>4, <1>5, <1>6
     DEF Next, ProcStep, AccountingStart, AccountingQuery, AccountingSend, Call, CallLost,
         AccountCancelStart, AccountCancelQuery, AccountCancelSend, Crash, BankExecute

LEMMA DecidedStep == IInv /\ [Next]_bookVars => DecidedInv'
<1> SUFFICES ASSUME IInv, [Next]_bookVars PROVE DecidedInv'
  OBVIOUS
<1> USE DEF IInv
<1>0. \A q \in Procs : job[q].key \in Keys
  BY DEF TypeOK, Jobs
<1>1. ASSUME UNCHANGED reopened,
             \A q \in Procs : pc'[q] \in {"csend", "cawait"} =>
                 pc[q] \in {"csend", "cawait"} /\ job'[q] = job[q]
      PROVE  DecidedInv'
  BY <1>0, <1>1, DecidedKept DEF DecidedInv, TypeOK
<1>2. ASSUME NEW p \in Procs, AccountingQuery(p) PROVE DecidedInv'
  <2>1. CASE UNCHANGED reopened
    BY <1>1, <1>2, <2>1, ReturnEffect, GotoEffect DEF AccountingQuery
  <2>2. CASE /\ acct[job[p].key].res \in Closed
             /\ Goto(p, "send")
             /\ reopened' = reopened \cup {job[p].key}
    BY <1>0, <1>2, <2>2, GotoEffect DEF AccountingQuery, DecidedInv, Closed
  <2> QED
    BY <1>2, <2>1, <2>2 DEF AccountingQuery
<1>3. ASSUME NEW p \in Procs, AccountCancelQuery(p) PROVE DecidedInv'
  <2>1. CASE \E c \in Codes : Return(p, c)
    BY <1>1, <1>3, <2>1, ReturnEffect DEF AccountCancelQuery
  <2>2. CASE /\ acct[job[p].key].res = "booked"
             /\ Begin(p, "csend", Job(job[p].key, serial + 1, Original(p)))
    BY <1>0, <1>3, <2>2, BeginEffect DEF AccountCancelQuery, DecidedInv, Job
  <2> QED
    BY <1>3, <2>1, <2>2 DEF AccountCancelQuery, Codes
<1>4. ASSUME NEW p \in Procs, AccountCancelSend(p) PROVE DecidedInv'
  BY <1>1, <1>4, ReturnEffect, GotoEffect DEF AccountCancelSend, Call
<1>5. ASSUME NEW p \in Procs, AccountingSend(p) PROVE DecidedInv'
  BY <1>1, <1>5, ReturnEffect, GotoEffect DEF AccountingSend, Call
<1>6. ASSUME NEW p \in Procs, NEW k \in Keys,
             AccountingStart(p, k) \/ \E flag \in 1..3 : AccountCancelStart(p, k, flag)
      PROVE  DecidedInv'
  BY <1>1, <1>6, EndEffect, BeginEffect DEF AccountingStart, AccountCancelStart
<1>7. ASSUME NEW p \in Procs,
             \/ AccountingReply(p) \/ CallLost(p) \/ AccountCancelReply(p) \/ Crash(p)
             \/ AccountingInsert(p)
      PROVE  DecidedInv'
  BY <1>1, <1>7, ReturnEffect, GotoEffect
     DEF AccountingReply, CallLost, AccountCancelReply, Crash, AccountingInsert
<1>8. ASSUME NEW c \in calls, BankExecute(c) PROVE DecidedInv'
  BY <1>1, <1>8 DEF BankExecute
<1>9. ASSUME NEW k \in Keys, NEW r \in Results, ManualAdjust(k, r) PROVE DecidedInv'
  BY <1>1, <1>9 DEF ManualAdjust
<1>10. CASE UNCHANGED bookVars
  BY <1>1, <1>10 DEF bookVars
<1> QED
  BY <1>2, <1>3, <1>4, <1>5, <1>6, <1>7, <1>8, <1>9, <1>10, NextCases

(* An answered "ok" or "suspended" to the request of a waiting process is a *)
(* posting of its leg.                                                     *)
LEMMA AwaitPosted ==
  ASSUME IInv, NEW p \in Procs, pc[p] = "await", Took(job[p].serial)
  PROVE  \E b \in Posted(job[p].key) : b.serial = job[p].serial
  BY DEF IInv, JobInv, JobOK, Posted

Stood(k) == acct[k].res \in {"booked", "suspended"}

(* Booked rows keep standing for postings. *)
LEMMA BookedStep == IInv /\ [Next]_bookVars => BookedWasPosted'
<1> SUFFICES ASSUME IInv, [Next]_bookVars PROVE BookedWasPosted'
  OBVIOUS
<1> USE DEF IInv
<1>0. \A q \in Procs : job[q].key \in Keys
  BY DEF TypeOK, Jobs
<1>g. blind \subseteq blind' /\ \A k \in Keys : Posted(k) \subseteq Posted(k)'
  BY HistoryGrows, PostedGrows
<1>1. ASSUME \A k \in Keys : Stood(k)' =>
                 \/ Stood(k) /\ host'[k] = host[k]
                 \/ k \in blind' \/ \E b \in Posted(k) : b.serial = host'[k],
             \A q \in Procs : ret'[q] = "SUCC" =>
                 \/ ret[q] = "SUCC" /\ job'[q].key = job[q].key
                 \/ job'[q].key \in blind' \/ Posted(job'[q].key) # {}
      PROVE  BookedWasPosted'
  BY <1>0, <1>g, <1>1 DEF BookedWasPosted, Stood
<1>2. ASSUME UNCHANGED <<acct, host>>, NEW p \in Procs, ret'[p] # "SUCC",
             \A q \in Procs \ {p} : job'[q] = job[q] /\ ret'[q] = ret[q]
      PROVE  BookedWasPosted'
  BY <1>1, <1>2 DEF Stood
<1>3. ASSUME NEW p \in Procs, AccountingQuery(p) PROVE BookedWasPosted'
  <2>1. CASE ret'[p] # "SUCC"
    BY <1>2, <1>3, <2>1, ReturnEffect, GotoEffect DEF AccountingQuery
  <2>2. CASE acct[job[p].key].res = "booked" /\ Return(p, "SUCC")
    BY <1>0, <1>1, <1>3, <2>2, ReturnEffect DEF AccountingQuery, BookedWasPosted, Stood
  <2> QED
    BY <1>3, <2>1, <2>2, ReturnEffect, GotoEffect DEF AccountingQuery
<1>4. ASSUME NEW p \in Procs, AccountingInsert(p) PROVE BookedWasPosted'
  <2>1. \A k \in Keys : Stood(k)' => Stood(k) /\ host'[k] = host[k]
    BY <1>4 DEF AccountingInsert, TypeOK, Stood
  <2>2. /\ ret'[p] # "SUCC"
        /\ \A q \in Procs \ {p} : job'[q] = job[q] /\ ret'[q] = ret[q]
    BY <1>4, ReturnEffect, GotoEffect DEF AccountingInsert
  <2> QED
    BY <1>1, <2>1, <2>2
<1>5. ASSUME NEW p \in Procs, AccountingReply(p) PROVE BookedWasPosted'
  <2> DEFINE j == job[p].key  s == job[p].serial
  <2>0. Took(s) => \E b \in Posted(j) : b.serial = s
    BY <1>5, AwaitPosted DEF AccountingReply
  <2>1. \A k \in Keys : Stood(k)' =>
           \/ Stood(k) /\ host'[k] = host[k]
           \/ k \in blind' \/ \E b \in Posted(k) : b.serial = host'[k]
    <3>1. \/ UNCHANGED <<acct, host>>
          \/ Journal(j, "failed", s)
          \/ Took(s) /\ \E r \in Results : Journal(j, r, s)
          \/ j \in blind' /\ \E h : Journal(j, "booked", h)
      BY <1>5 DEF AccountingReply, Took, Results
    <3>2. ASSUME NEW r \in Results, NEW h, Journal(j, r, h), NEW k \in Keys
          PROVE  /\ k # j => (Stood(k)' <=> Stood(k)) /\ host'[k] = host[k]
                 /\ k = j => acct'[k].res = r /\ host'[k] = h
      BY <1>0, <3>2, SetResultEffect DEF Journal, TypeOK, Stood
    <3>3. CASE UNCHANGED <<acct, host>>
      BY <3>3 DEF Stood
    <3>4. CASE Journal(j, "failed", s)
      BY <3>2, <3>4 DEF Stood, Results
    <3>5. ASSUME Took(s), NEW r \in Results, Journal(j, r, s)
          PROVE  \A k \in Keys : Stood(k)' =>
                    \/ Stood(k) /\ host'[k] = host[k]
                    \/ \E b \in Posted(k) : b.serial = host'[k]
      BY <2>0, <3>2, <3>5
    <3>6. ASSUME j \in blind', NEW h, Journal(j, "booked", h)
          PROVE  \A k \in Keys : Stood(k)' => (Stood(k) /\ host'[k] = host[k]) \/ k \in blind'
      BY <3>2, <3>6 DEF Results
    <3> QED BY <3>1, <3>3, <3>4, <3>5, <3>6
  <2>2. \A q \in Procs \ {p} : job'[q] = job[q] /\ ret'[q] = ret[q]
    BY <1>5, ReturnEffect DEF AccountingReply
  <2>3. ret'[p] = "SUCC" => job'[p].key \in blind' \/ Posted(job'[p].key) # {}
    BY <1>5, <2>0, ReturnEffect DEF AccountingReply, Took
  <2> QED
    BY <1>1, <2>1, <2>2, <2>3
<1>6. ASSUME NEW p \in Procs, AccountCancelReply(p) PROVE BookedWasPosted'
  <2>1. \A k \in Keys : Stood(k)' => Stood(k) /\ host'[k] = host[k]
    BY <1>0, <1>6, SetResultEffect DEF AccountCancelReply, Results, Stood
  <2>2. /\ ret'[p] # "SUCC"
        /\ \A q \in Procs \ {p} : job'[q] = job[q] /\ ret'[q] = ret[q]
    BY <1>6, ReturnEffect DEF AccountCancelReply
  <2> QED
    BY <1>1, <2>1, <2>2
<1>7. ASSUME NEW p \in Procs,
             \/ AccountingSend(p) \/ CallLost(p) \/ Crash(p)
             \/ AccountCancelQuery(p) \/ AccountCancelSend(p)
      PROVE  BookedWasPosted'
  BY <1>2, <1>7, ReturnEffect, GotoEffect, BeginEffect
     DEF AccountingSend, CallLost, Crash, AccountCancelQuery, AccountCancelSend, Call
<1>8. ASSUME NEW p \in Procs, NEW k \in Keys,
             AccountingStart(p, k) \/ \E flag \in 1..3 : AccountCancelStart(p, k, flag)
      PROVE  BookedWasPosted'
  BY <1>2, <1>8, EndEffect, BeginEffect DEF AccountingStart, AccountCancelStart
<1>9. ASSUME UNCHANGED <<acct, host, job, ret>> PROVE BookedWasPosted'
  BY <1>1, <1>9 DEF Stood
<1>10. ASSUME NEW c \in calls, BankExecute(c) PROVE BookedWasPosted'
  BY <1>9, <1>10 DEF BankExecute
<1>11. ASSUME NEW k \in Keys, NEW r \in Results, ManualAdjust(k, r) PROVE BookedWasPosted'
  BY <1>1, <1>11, SetResultEffect DEF ManualAdjust, Stood
<1>12. CASE UNCHANGED bookVars
  BY <1>9, <1>12 DEF bookVars
<1> QED
  BY <1>3, <1>4, <1>5, <1>6, <1>7, <1>8, <1>10, <1>11, <1>12, NextCases

(* Either serial of a booked row names its posting.                         *)
LEMMA OriginalPosted ==
  ASSUME IInv, NEW p \in Procs, acct[job[p].key].res = "booked",
         job[p].key \notin reopened \cup blind
  PROVE  /\ Original(p) = acct[job[p].key].ref
         /\ \E b \in Posted(job[p].key) : b.serial = Original(p)
<1>1. job[p].key \in Keys
  BY DEF IInv, TypeOK, Jobs
<1>2. PICK b \in Posted(job[p].key) : b.serial = host[job[p].key]
  BY <1>1 DEF IInv, BookedWasPosted
<1>3. b.serial = acct[job[p].key].ref
  BY DEF IInv, ClaimInv, Posted
<1> QED BY <1>2, <1>3 DEF Original

(* A reversal is sent after the row named a posting; postings stay.        *)
LEMMA TargetStep == IInv /\ [Next]_bookVars => TargetInv' /\ ReversalHasTarget'
<1> SUFFICES ASSUME IInv, [Next]_bookVars PROVE TargetInv' /\ ReversalHasTarget'
  OBVIOUS
<1> USE DEF IInv
<1>0. \A q \in Procs : job[q].key \in Keys
  BY DEF TypeOK, Jobs
<1>g. /\ reopened \subseteq reopened' /\ blind \subseteq blind'
      /\ \A k \in Keys : Posted(k) \subseteq Posted(k)'
  BY HistoryGrows, PostedGrows
<1>c. \A c \in calls : c.key \in Keys
  BY DEF TypeOK, Calls
<1>1. ASSUME \A c \in calls' \ calls : c.op # "reverse",
             \A q \in Procs : pc'[q] = "csend" => pc[q] = "csend" /\ job'[q] = job[q]
      PROVE  TargetInv' /\ ReversalHasTarget'
  BY <1>0, <1>g, <1>c, <1>1 DEF TargetInv, ReversalHasTarget
<1>2. ASSUME NEW p \in Procs, AccountCancelQuery(p)
      PROVE  TargetInv' /\ ReversalHasTarget'
  <2>1. CASE \E c \in Codes : Return(p, c)
    BY <1>1, <1>2, <2>1, ReturnEffect DEF AccountCancelQuery
  <2>2. CASE /\ acct[job[p].key].res = "booked"
             /\ Begin(p, "csend", Job(job[p].key, serial + 1, Original(p)))
    <3>1. job[p].key \notin reopened \cup blind =>
             \E b \in Posted(job[p].key) : b.serial = Original(p)
      BY <2>2, OriginalPosted
    <3>2. job'[p].key = job[p].key /\ job'[p].target = Original(p)
      BY <2>2, BeginEffect DEF Job
    <3>3. /\ UNCHANGED calls
          /\ \A q \in Procs \ {p} : pc'[q] = pc[q] /\ job'[q] = job[q]
      BY <1>2, <2>2, BeginEffect DEF AccountCancelQuery
    <3> QED
      BY <1>0, <1>g, <1>c, <3>1, <3>2, <3>3 DEF TargetInv, ReversalHasTarget
  <2> QED
    BY <1>2, <2>1, <2>2 DEF AccountCancelQuery, Codes
<1>3. ASSUME NEW p \in Procs, AccountCancelSend(p)
      PROVE  TargetInv' /\ ReversalHasTarget'
  <2>1. \A q \in Procs : pc'[q] = "csend" => pc[q] = "csend" /\ job'[q] = job[q]
    BY <1>3, ReturnEffect, GotoEffect DEF AccountCancelSend, Call
  <2>2. \A c \in calls' \ calls :
           c.key = job[p].key /\ c.target = job[p].target /\ pc[p] = "csend"
    BY <1>3 DEF AccountCancelSend, Call
  <2> QED
    BY <1>0, <1>g, <1>c, <2>1, <2>2 DEF TargetInv, ReversalHasTarget
<1>4. ASSUME NEW p \in Procs, AccountingSend(p)
      PROVE  TargetInv' /\ ReversalHasTarget'
  BY <1>1, <1>4, ReturnEffect, GotoEffect DEF AccountingSend, Call
<1>5. ASSUME NEW p \in Procs, NEW k \in Keys,
             AccountingStart(p, k) \/ \E flag \in 1..3 : AccountCancelStart(p, k, flag)
      PROVE  TargetInv' /\ ReversalHasTarget'
  BY <1>1, <1>5, EndEffect, BeginEffect DEF AccountingStart, AccountCancelStart
<1>6. ASSUME NEW p \in Procs,
             \/ AccountingQuery(p) \/ AccountingInsert(p) \/ AccountingReply(p)
             \/ CallLost(p) \/ AccountCancelReply(p) \/ Crash(p)
      PROVE  TargetInv' /\ ReversalHasTarget'
  BY <1>1, <1>6, ReturnEffect, GotoEffect
     DEF AccountingQuery, AccountingInsert, AccountingReply, CallLost,
         AccountCancelReply, Crash
<1>7. ASSUME NEW c \in calls, BankExecute(c)
      PROVE  TargetInv' /\ ReversalHasTarget'
  BY <1>1, <1>7 DEF BankExecute
<1>8. ASSUME NEW k \in Keys, NEW r \in Results, ManualAdjust(k, r)
      PROVE  TargetInv' /\ ReversalHasTarget'
  BY <1>1, <1>8 DEF ManualAdjust
<1>9. CASE UNCHANGED bookVars
  BY <1>1, <1>9 DEF bookVars
<1> QED
  BY <1>2, <1>3, <1>4, <1>5, <1>6, <1>7, <1>8, <1>9, NextCases

-----------------------------------------------------------------------------
LEMMA InitInv == Init => IInv
<1> SUFFICES ASSUME Init PROVE IInv
  OBVIOUS
<1>1. TypeOK
  BY TypeInit
<1>2. SerialInv /\ JobInv /\ ClaimInv /\ DecidedInv /\ TargetInv /\ ReversalHasTarget
  BY DEF Init, SerialInv, JobInv, JobOK, ClaimInv, DecidedInv, TargetInv,
         ReversalHasTarget, Job
<1>3. BookedWasPosted
  BY DEF Init, BookedWasPosted, Absent
<1> QED
  BY <1>1, <1>2, <1>3 DEF IInv

LEMMA StepInv == IInv /\ [Next]_bookVars => IInv'
<1> SUFFICES ASSUME IInv, [Next]_bookVars PROVE IInv'
  OBVIOUS
<1>1. TypeOK'
  BY TypeStep DEF IInv
<1> QED
  BY <1>1, SerialStep, JobStep, ClaimStep, DecidedStep, BookedStep, TargetStep DEF IInv

(* The inductive invariant holds throughout. *)
THEOREM Inductive == Spec => []IInv
  BY InitInv, StepInv, PTL DEF Spec

(* Type correctness of the booking engine. *)
THEOREM TypeCorrect == Spec => []TypeOK
<1>1. IInv => TypeOK
  BY DEF IInv
<1> QED
  BY <1>1, Inductive, PTL

LEMMA OnePosting == IInv => SinglePosting
<1> SUFFICES ASSUME IInv, NEW k \in Keys \ reopened,
                    NEW b1 \in Posted(k), NEW b2 \in Posted(k)
             PROVE  b1 = b2
  BY DEF SinglePosting
<1>1. b1 \in calls /\ b2 \in calls /\ b1.serial = acct[k].ref /\ b2.serial = acct[k].ref
  BY DEF IInv, ClaimInv, Posted
<1> QED
  BY <1>1 DEF IInv, SerialInv

(* For any number of processes and calls: the core system posts a leg at   *)
(* most once unless it was booked again over a closed row.  All postings   *)
(* of such a leg bear the serial of its row, and a serial names one call.  *)
THEOREM PostsOnce == Spec => []SinglePosting
  BY OnePosting, Inductive, PTL

(* A booked row, and a success returned to the caller, stand for a posting *)
(* in the core system wherever every answer could be read.                 *)
THEOREM BookedIsPosted == Spec => []BookedWasPosted
<1>1. IInv => BookedWasPosted
  BY DEF IInv
<1> QED
  BY <1>1, Inductive, PTL

(* A reversal names a posting that was made, unless the leg was booked     *)
(* again or its row written without a readable answer.                     *)
THEOREM ReversesPosting == Spec => []ReversalHasTarget
<1>1. IInv => ReversalHasTarget
  BY DEF IInv
<1> QED
  BY <1>1, Inductive, PTL

(* Only the core system's answer to the request of the row, or an operator, *)
(* takes a row out of doubt.                                               *)
THEOREM DoubtIsAnswered == Spec => DoubtNeedsAnswer
<1> DEFINE Kept(k) == acct[k].res = "unknown" /\ acct'[k] # acct[k] =>
                          k \in blind' \/ Answered(acct[k].ref)
<1>1. ASSUME IInv, [Next]_bookVars, NEW k \in Keys PROVE Kept(k)
  <2> USE <1>1 DEF IInv
  <2>0. \A q \in Procs : job[q].key \in Keys
    BY DEF TypeOK, Jobs
  <2>1. CASE UNCHANGED acct
    BY <2>1
  <2>2. ASSUME NEW p \in Procs, AccountingInsert(p) PROVE Kept(k)
    BY <2>2 DEF AccountingInsert, TypeOK, Absent
  <2>3. ASSUME NEW j \in Keys, NEW r \in Results, SetResult(j, r), acct'[k] # acct[k]
        PROVE  k = j
    BY <2>3 DEF SetResult, TypeOK
  <2>4. ASSUME NEW p \in Procs, AccountingReply(p) PROVE Kept(k)
    <3>1. /\ \/ UNCHANGED acct
             \/ \E r \in Results : SetResult(job[p].key, r)
          /\ Answered(job[p].serial)
      BY <2>4 DEF AccountingReply, Answered, Answer, Results, Journal
    <3>2. acct[job[p].key].res = "unknown" => job[p].serial = acct[job[p].key].ref
      BY <2>4 DEF AccountingReply, ClaimInv, DecidedInv
    <3>3. acct'[k] # acct[k] => k = job[p].key
      BY <2>0, <2>3, <3>1
    <3> QED
      BY <3>1, <3>2, <3>3
  <2>5. ASSUME NEW p \in Procs, AccountCancelReply(p) PROVE Kept(k)
    <3>1. \/ UNCHANGED acct
          \/ \E r \in Results : SetResult(job[p].key, r)
      BY <2>5 DEF AccountCancelReply, Results
    <3>2. acct[job[p].key].res # "unknown"
      BY <2>5 DEF AccountCancelReply, DecidedInv
    <3>3. acct'[k] # acct[k] => k = job[p].key
      BY <2>0, <2>3, <3>1
    <3> QED
      BY <3>2, <3>3
  <2>6. ASSUME NEW j \in Keys, NEW r \in Results, ManualAdjust(j, r) PROVE Kept(k)
    BY <2>3, <2>6 DEF ManualAdjust
  <2>7. CASE UNCHANGED bookVars
    BY <2>7 DEF bookVars
  <2> QED
    BY <1>1, <2>1, <2>2, <2>4, <2>5, <2>6, <2>7
       DEF Next, ProcStep, AccountingStart, AccountingQuery, AccountingSend, Call, CallLost,
           AccountCancelStart, AccountCancelQuery, AccountCancelSend, Crash, BankExecute
<1>2. IInv /\ [Next]_bookVars =>
         [\A k \in Keys : acct[k].res = "unknown" /\ acct'[k] # acct[k] =>
              k \in blind' \/ Answered(acct[k].ref)]_bookVars
  BY <1>1
<1> QED
  BY <1>2, Inductive, PTL DEF Spec, DoubtNeedsAnswer
-----------------------------------------------------------------------------
(* The engine implements BookOnce.                                         *)

(* Of a leg that is still promised, the result in its row is what the core *)
(* system answered to the one request for it; ...                          *)
RowTrue(k) ==
    LET ref == acct[k].ref IN
    /\ acct[k].res \in {"booked", "reversed"} => Answer(ref, "ok")
    /\ acct[k].res = "suspended" => Answer(ref, "suspended")
    /\ acct[k].res = "failed" => Answer(ref, "refused")
    /\ acct[k].res = "reversed" => Undone(ref)

(* ... it is in doubt as long as the claimant works on it; ... *)
ClaimOpen(k) == \A p \in Procs : pc[p] \in {"send", "await"} /\ job[p].key = k =>
                    acct[k].res = "unknown"

(* ... and it is reversed only once booked, by its own reference. *)
Reversible(k, target) == target = acct[k].ref /\ acct[k].res \in {"booked", "reversed"}
ReverseOpen(k) ==
    /\ \A c \in calls : c.op = "reverse" /\ c.key = k => Reversible(k, c.target)
    /\ \A p \in Procs : pc[p] \in {"csend", "cawait"} /\ job[p].key = k =>
          Reversible(k, job[p].target)

(* What was reversed had been posted. *)
UndoInv == \A c \in calls : c.op = "reverse" /\ Answer(c.serial, "ok") =>
              \E b \in Posted(c.key) : b.serial = c.target

PromiseInv == /\ \A k \in Keys \ Released : RowTrue(k) /\ ClaimOpen(k) /\ ReverseOpen(k)
              /\ UndoInv

-----------------------------------------------------------------------------
(* What is known stays known. *)
LEMMA KnownStays ==
  ASSUME [Next]_bookVars
  PROVE  /\ Released \subseteq Released'
         /\ \A s, o : Answer(s, o) => Answer(s, o)'
         /\ \A s : Undone(s) => Undone(s)'
<1>1. /\ calls \subseteq calls' /\ answers \subseteq answers'
      /\ Released \subseteq Released'
  BY HistoryGrows DEF Released
<1>2. \A s, o : Answer(s, o) => Answer(s, o)'
  BY <1>1 DEF Answer
<1> QED
  BY <1>1, <1>2 DEF Undone

(* A row changes by an insert, an answer, or an operator; only the row of  *)
(* the leg that the step is about.                                         *)
RowKept(k) == acct'[k] = acct[k]
LEMMA RowWriter ==
  ASSUME TypeOK, [Next]_bookVars, NEW k \in Keys, ~RowKept(k), k \notin blind'
  PROVE  \E p \in Procs :
            /\ job[p].key = k
            /\ AccountingInsert(p) \/ AccountingReply(p) \/ AccountCancelReply(p)
<1>0. \A p \in Procs : job[p].key \in Keys
  BY DEF TypeOK, Jobs
<1>1. ASSUME NEW j, NEW r, SetResult(j, r) PROVE k = j
  BY <1>0, <1>1 DEF RowKept, SetResult, TypeOK
<1>2. ASSUME NEW p \in Procs, AccountingInsert(p) PROVE job[p].key = k
  BY <1>0, <1>2 DEF RowKept, AccountingInsert, TypeOK
<1>3. ASSUME NEW p \in Procs, AccountingReply(p) PROVE job[p].key = k
  BY <1>0, <1>1, <1>3 DEF RowKept, AccountingReply, Journal
<1>4. ASSUME NEW p \in Procs, AccountCancelReply(p) PROVE job[p].key = k
  BY <1>0, <1>1, <1>4 DEF RowKept, AccountCancelReply
<1>5. ASSUME NEW j \in Keys, NEW r \in Results, ManualAdjust(j, r) PROVE FALSE
  BY <1>1, <1>5 DEF ManualAdjust
<1> QED
  BY <1>2, <1>3, <1>4, <1>5
     DEF RowKept, Next, ProcStep, AccountingStart, AccountingQuery, AccountingSend, Call,
         CallLost, AccountCancelStart, AccountCancelQuery, AccountCancelSend, Crash,
         BankExecute, bookVars

LEMMA RowChange ==
  ASSUME IInv, [Next]_bookVars, NEW k \in Keys, ~RowKept(k), k \notin Released'
  PROVE  \E p \in Procs :
            /\ job[p].key = k
            /\ AccountingInsert(p) \/ AccountingReply(p) \/ AccountCancelReply(p)
  BY RowWriter DEF IInv, Released

(* The claimant of a promised leg is the one process with its reference,   *)
(* and its request is the only one.                                        *)
LEMMA Claimant ==
  ASSUME IInv, NEW k \in Keys \ Released, NEW p \in Procs, pc[p] = "await", job[p].key = k
  PROVE  /\ job[p].serial = acct[k].ref
         /\ \A q \in Procs : pc[q] \in {"send", "await"} /\ job[q].key = k => q = p
         /\ \E c \in calls : c.op = "book" /\ c.key = k /\ c.serial = acct[k].ref
<1>1. /\ job[p].serial = acct[k].ref
      /\ \A q \in Procs : pc[q] \in {"send", "await"} /\ job[q].key = k =>
            job[q].serial = acct[k].ref
  BY DEF IInv, ClaimInv, Released
<1>2. job[p].serial # 0
  BY DEF IInv, JobInv, JobOK
<1>3. \E c \in calls : c.op = "book" /\ c.key = k /\ c.serial = job[p].serial
  BY DEF IInv, JobInv, JobOK
<1> QED
  BY <1>1, <1>2, <1>3 DEF IInv, JobInv

LEMMA RowTrueStep ==
  ASSUME IInv, PromiseInv, [Next]_bookVars, NEW k \in Keys, k \notin Released'
  PROVE  RowTrue(k)'
<1>0. k \in Keys \ Released /\ RowTrue(k) /\ ClaimOpen(k) /\ ReverseOpen(k) /\ TypeOK
  BY KnownStays DEF PromiseInv, IInv
<1>1. CASE RowKept(k)
  BY <1>0, <1>1, KnownStays DEF RowTrue, RowKept
<1>2. ASSUME NEW p \in Procs, job[p].key = k, AccountingInsert(p), ~RowKept(k)
      PROVE  RowTrue(k)'
  BY <1>0, <1>2 DEF AccountingInsert, RowTrue, RowKept, TypeOK
<1>3. ASSUME NEW p \in Procs, job[p].key = k, AccountingReply(p), ~RowKept(k)
      PROVE  RowTrue(k)'
  <2>1. pc[p] = "await" /\ job[p].serial = acct[k].ref
    BY <1>0, <1>3, Claimant DEF AccountingReply
  <2>2. \/ Answer(acct[k].ref, "refused") /\ SetResult(k, "failed")
        \/ Answer(acct[k].ref, "ok") /\ SetResult(k, "booked")
        \/ Answer(acct[k].ref, "suspended") /\ SetResult(k, "suspended")
    BY <1>0, <1>3, <2>1 DEF AccountingReply, RowKept, Released, Journal
  <2> QED
    BY <1>0, <2>2, KnownStays, SetResultEffect DEF RowTrue, Results
<1>4. ASSUME NEW p \in Procs, job[p].key = k, AccountCancelReply(p), ~RowKept(k)
      PROVE  RowTrue(k)'
  <2>1. pc[p] = "cawait" /\ Answer(job[p].serial, "ok") /\ SetResult(k, "reversed")
    BY <1>0, <1>4 DEF AccountCancelReply, RowKept, Released
  <2>2. job[p].target = acct[k].ref /\ Answer(acct[k].ref, "ok")
    BY <1>0, <1>4, <2>1 DEF ReverseOpen, Reversible, RowTrue
  <2>3. Undone(acct[k].ref)
    BY <2>1, <2>2 DEF IInv, JobInv, JobOK, Undone
  <2> QED
    BY <1>0, <2>1, <2>2, <2>3, KnownStays, SetResultEffect DEF RowTrue, Results
<1> QED
  BY <1>1, <1>2, <1>3, <1>4, RowChange

LEMMA ClaimOpenStep ==
  ASSUME IInv, PromiseInv, [Next]_bookVars, NEW k \in Keys, k \notin Released'
  PROVE  ClaimOpen(k)'
<1>0. k \in Keys \ Released /\ ClaimOpen(k) /\ ReverseOpen(k) /\ TypeOK
  BY KnownStays DEF PromiseInv, IInv
<1> SUFFICES ASSUME NEW p \in Procs, pc'[p] \in {"send", "await"}, job'[p].key = k
             PROVE  acct'[k].res = "unknown"
  BY DEF ClaimOpen
<1>1. CASE pc[p] \in {"send", "await"} /\ job[p].key = k
  <2>1. acct[k].res = "unknown"
    BY <1>0, <1>1 DEF ClaimOpen
  <2>2. ASSUME NEW q \in Procs, job[q].key = k, AccountingReply(q), ~RowKept(k)
        PROVE  FALSE
    <3>1. q = p
      BY <1>0, <1>1, <2>2, Claimant DEF AccountingReply
    <3>2. pc'[p] = "idle"
      BY <1>0, <2>2, <3>1, ReturnEffect DEF AccountingReply
    <3> QED
      BY <3>2
  <2>3. ASSUME NEW q \in Procs, job[q].key = k, AccountCancelReply(q)
        PROVE  FALSE
    BY <1>0, <2>1, <2>3 DEF AccountCancelReply, ReverseOpen, Reversible
  <2>4. ASSUME NEW q \in Procs, job[q].key = k, AccountingInsert(q), ~RowKept(k)
        PROVE  FALSE
    BY <2>1, <2>4 DEF AccountingInsert, RowKept, Absent
  <2> QED
    BY <2>1, <2>2, <2>3, <2>4, RowChange DEF RowKept
<1>2. CASE ~(pc[p] \in {"send", "await"} /\ job[p].key = k)
  <2>1. AccountingQuery(p) \/ AccountingInsert(p)
    <3>1. CASE \E q \in Procs : \E j \in Keys : AccountingStart(q, j) \/ \E flag \in 1..3 : AccountCancelStart(q, j, flag)
      BY <1>0, <1>2, <3>1, EndEffect, BeginEffect DEF AccountingStart, AccountCancelStart
    <3>2. ASSUME NEW q \in Procs, ProcStep(q) \/ Crash(q)
          PROVE  AccountingQuery(p) \/ AccountingInsert(p)
      BY <1>0, <1>2, <3>2, ReturnEffect, GotoEffect, BeginEffect
         DEF ProcStep, AccountingQuery, AccountingInsert, AccountingSend, AccountingReply,
             CallLost, AccountCancelQuery, AccountCancelSend, AccountCancelReply, Call, Crash
    <3> QED
      BY <1>2, <3>1, <3>2 DEF Next, BankExecute, ManualAdjust, bookVars
  <2>2. CASE AccountingQuery(p)
    BY <1>0, <2>2, ReturnEffect, GotoEffect DEF AccountingQuery, Released
  <2>3. CASE AccountingInsert(p)
    <3>1. job[p].key = k /\ acct' = [acct EXCEPT ![k] = [res |-> "unknown", ref |-> job[p].serial]]
      BY <1>0, <2>3, ReturnEffect, GotoEffect DEF AccountingInsert
    <3> QED
      BY <1>0, <3>1 DEF TypeOK
  <2> QED
    BY <2>1, <2>2, <2>3
<1> QED
  BY <1>1, <1>2

LEMMA ReverseOpenStep ==
  ASSUME IInv, PromiseInv, [Next]_bookVars, NEW k \in Keys, k \notin Released'
  PROVE  ReverseOpen(k)'
<1>0. k \in Keys \ Released /\ ClaimOpen(k) /\ ReverseOpen(k) /\ TypeOK
  BY KnownStays DEF PromiseInv, IInv
<1>1. ASSUME NEW t, Reversible(k, t) PROVE Reversible(k, t)'
  <2>1. CASE RowKept(k)
    BY <1>1, <2>1 DEF Reversible, RowKept
  <2>2. ASSUME NEW q \in Procs, job[q].key = k, AccountingInsert(q), ~RowKept(k) PROVE FALSE
    BY <1>1, <2>2 DEF AccountingInsert, RowKept, Absent, Reversible
  <2>3. ASSUME NEW q \in Procs, job[q].key = k, AccountingReply(q) PROVE FALSE
    BY <1>0, <1>1, <2>3 DEF AccountingReply, ClaimOpen, Reversible
  <2>4. ASSUME NEW q \in Procs, job[q].key = k, AccountCancelReply(q), ~RowKept(k)
        PROVE  Reversible(k, t)'
    <3>1. SetResult(k, "reversed")
      BY <2>4 DEF AccountCancelReply, RowKept
    <3> QED
      BY <1>0, <1>1, <3>1, SetResultEffect DEF Reversible, Results
  <2> QED
    BY <2>1, <2>2, <2>3, <2>4, RowChange
<1>2. ASSUME NEW c \in calls', c.op = "reverse", c.key = k PROVE Reversible(k, c.target)
  <2>1. CASE c \in calls
    BY <1>0, <1>2, <2>1 DEF ReverseOpen
  <2>2. CASE c \notin calls
    <3>1. PICK p \in Procs : AccountingSend(p) \/ AccountCancelSend(p)
      BY <1>2, <2>2
         DEF Next, ProcStep, AccountingStart, AccountingQuery, AccountingInsert,
             AccountingReply, CallLost, AccountCancelStart, AccountCancelQuery,
             AccountCancelReply, Crash, BankExecute, ManualAdjust, bookVars
    <3>2. AccountCancelSend(p) /\ c.key = job[p].key /\ c.target = job[p].target
      BY <1>2, <2>2, <3>1 DEF AccountingSend, AccountCancelSend, Call
    <3> QED
      BY <1>0, <1>2, <3>2 DEF AccountCancelSend, ReverseOpen
  <2> QED
    BY <2>1, <2>2
<1>3. ASSUME NEW p \in Procs, pc'[p] \in {"csend", "cawait"}, job'[p].key = k
      PROVE  Reversible(k, job'[p].target)
  <2>1. CASE pc[p] \in {"csend", "cawait"} /\ job[p] = job'[p]
    BY <1>0, <1>3, <2>1 DEF ReverseOpen
  <2>2. CASE ~(pc[p] \in {"csend", "cawait"} /\ job[p] = job'[p])
    <3>1. AccountCancelQuery(p)
      <4>1. CASE \E q \in Procs : \E j \in Keys :
                    AccountingStart(q, j) \/ \E flag \in 1..3 : AccountCancelStart(q, j, flag)
        BY <1>0, <1>3, <2>2, <4>1, EndEffect, BeginEffect
           DEF AccountingStart, AccountCancelStart
      <4>2. ASSUME NEW q \in Procs, ProcStep(q) \/ Crash(q)
            PROVE  AccountCancelQuery(p)
        BY <1>0, <1>3, <2>2, <4>2, ReturnEffect, GotoEffect, BeginEffect
           DEF ProcStep, AccountingQuery, AccountingInsert, AccountingSend, AccountingReply,
               CallLost, AccountCancelQuery, AccountCancelSend, AccountCancelReply, Call, Crash
      <4> QED
        BY <1>3, <2>2, <4>1, <4>2 DEF Next, BankExecute, ManualAdjust, bookVars
    <3>2. /\ job[p].key = k /\ acct[k].res = "booked"
          /\ job'[p].target = Original(p)
      BY <1>0, <1>3, <3>1, ReturnEffect, BeginEffect DEF AccountCancelQuery, Job
    <3>3. Original(p) = acct[k].ref
      BY <1>0, <3>2, OriginalPosted DEF Released
    <3> QED
      BY <3>2, <3>3 DEF Reversible
  <2> QED
    BY <2>1, <2>2
<1> QED
  BY <1>1, <1>2, <1>3 DEF ReverseOpen

LEMMA UndoStep == IInv /\ UndoInv /\ [Next]_bookVars => UndoInv'
<1> SUFFICES ASSUME IInv, UndoInv, [Next]_bookVars,
                    NEW c \in calls', c.op = "reverse", Answer(c.serial, "ok")'
             PROVE  \E b \in Posted(c.key)' : b.serial = c.target
  BY DEF UndoInv
<1>1. Posted(c.key) \subseteq Posted(c.key)'
  BY PostedGrows
<1>2. CASE c \in calls /\ Answer(c.serial, "ok")
  BY <1>1, <1>2 DEF UndoInv
<1>3. CASE c \notin calls
  <2>1. PICK p \in Procs : AccountingSend(p) \/ AccountCancelSend(p)
    BY <1>3 DEF Next, ProcStep, AccountingStart, AccountingQuery, AccountingInsert,
                AccountingReply, CallLost, AccountCancelStart, AccountCancelQuery,
                AccountCancelReply, Crash, BankExecute, ManualAdjust, bookVars
  <2>2. c.serial = job[p].serial /\ UNCHANGED answers
    BY <1>3, <2>1 DEF AccountingSend, AccountCancelSend, Call
  <2>3. \A d \in calls : d.serial # job[p].serial
    BY <2>1 DEF AccountingSend, AccountCancelSend, IInv, JobInv, JobOK
  <2> QED
    BY <2>2, <2>3 DEF IInv, SerialInv, Answer
<1>4. CASE c \in calls /\ ~Answer(c.serial, "ok")
  <2>1. PICK d \in calls : BankExecute(d)
    BY <1>4 DEF Next, ProcStep, AccountingStart, AccountingQuery, AccountingInsert,
                AccountingReply, CallLost, AccountCancelStart, AccountCancelQuery,
                AccountCancelReply, Crash, AccountingSend, AccountCancelSend, Call,
                ManualAdjust, bookVars, Answer
  <2>2. PICK o \in Outcomes :
           /\ d.op = "reverse" /\ o = "ok" => \E b \in Posted(d.key) : b.serial = d.target
           /\ answers' = answers \cup {[serial |-> d.serial, outcome |-> o]}
    BY <2>1 DEF BankExecute
  <2>3. d.serial = c.serial /\ o = "ok"
    BY <1>4, <2>2 DEF Answer
  <2>4. d = c
    BY <1>4, <2>3 DEF IInv, SerialInv
  <2> QED
    BY <1>1, <2>2, <2>3, <2>4
<1> QED
  BY <1>2, <1>3, <1>4

(* Only an inbound credit is suspended, and only when it is booked. *)
SuspendInv == \A c \in calls : Answer(c.serial, "suspended") =>
                  c.op = "book" /\ c.key \in InCredit

(* An answer that is new is the core system's, to a request made before. *)
LEMMA NewAnswer ==
  ASSUME IInv, [Next]_bookVars, NEW c \in calls', NEW o, Answer(c.serial, o)', ~Answer(c.serial, o)
  PROVE  /\ c \in calls /\ BankExecute(c)
         /\ answers' \ answers = {[serial |-> c.serial, outcome |-> o]}
<1>1. PICK d \in calls : BankExecute(d)
  BY DEF Next, ProcStep, AccountingStart, AccountingQuery, AccountingInsert, AccountingReply,
         CallLost, AccountCancelStart, AccountCancelQuery, AccountCancelReply, Crash,
         AccountingSend, AccountCancelSend, Call, ManualAdjust, bookVars, Answer
<1>2. UNCHANGED calls
  BY <1>1 DEF BankExecute
<1>3. PICK r \in Outcomes : answers' = answers \cup {[serial |-> d.serial, outcome |-> r]}
  BY <1>1 DEF BankExecute
<1>4. d.serial = c.serial /\ r = o
  BY <1>3 DEF Answer
<1>5. d = c
  BY <1>2, <1>4 DEF IInv, SerialInv
<1> QED
  BY <1>1, <1>2, <1>3, <1>4, <1>5 DEF Answer

LEMMA SuspendStep == IInv /\ SuspendInv /\ [Next]_bookVars => SuspendInv'
<1> SUFFICES ASSUME IInv, SuspendInv, [Next]_bookVars,
                    NEW c \in calls', Answer(c.serial, "suspended")'
             PROVE  c.op = "book" /\ c.key \in InCredit
  BY DEF SuspendInv
<1>1. CASE ~Answer(c.serial, "suspended")
  <2>1. /\ BankExecute(c)
        /\ answers' \ answers = {[serial |-> c.serial, outcome |-> "suspended"]}
    BY <1>1, NewAnswer
  <2>2. PICK o \in Outcomes :
           /\ o = "suspended" => c.op = "book" /\ c.key \in InCredit
           /\ answers' = answers \cup {[serial |-> c.serial, outcome |-> o]}
    BY <2>1 DEF BankExecute
  <2>3. o = "suspended"
    BY <1>1, <2>2 DEF Answer
  <2> QED
    BY <2>2, <2>3
<1>2. CASE Answer(c.serial, "suspended") /\ c \in calls
  BY <1>2 DEF SuspendInv
<1>3. CASE Answer(c.serial, "suspended") /\ c \notin calls
  <2>1. PICK p \in Procs : AccountingSend(p) \/ AccountCancelSend(p)
    BY <1>3 DEF Next, ProcStep, AccountingStart, AccountingQuery, AccountingInsert,
                AccountingReply, CallLost, AccountCancelStart, AccountCancelQuery,
                AccountCancelReply, Crash, BankExecute, ManualAdjust, bookVars
  <2>2. c.serial = job[p].serial
    BY <1>3, <2>1 DEF AccountingSend, AccountCancelSend, Call
  <2>3. \A d \in calls : d.serial # job[p].serial
    BY <2>1 DEF AccountingSend, AccountCancelSend, IInv, JobInv, JobOK
  <2> QED
    BY <1>3, <2>2, <2>3 DEF IInv, SerialInv, Answer
<1> QED
  BY <1>1, <1>2, <1>3

(* What the core system refuses to do it never answers "ok" to: an executed *)
(* reversal has undone a posting of its own leg, and only inbound credits   *)
(* are suspended.                                                           *)
LEMMA AnswersTrue == Spec => [](UndoInv /\ SuspendInv)
<1>1. Init => UndoInv /\ SuspendInv
  BY DEF Init, UndoInv, SuspendInv
<1> QED
  BY <1>1, Inductive, UndoStep, SuspendStep, PTL DEF Spec

LEMMA PromiseInvStep == IInv /\ PromiseInv /\ [Next]_bookVars => PromiseInv'
  BY RowTrueStep, ClaimOpenStep, ReverseOpenStep, UndoStep DEF PromiseInv

-----------------------------------------------------------------------------
(* The abstract state: what the mapping of Promise says of one leg. *)
Shown(k) == IF k \in Released THEN "released" ELSE acct[k].res

(* The steps BookOnce allows of one leg, Recorded written out. *)
Allowed(k) ==
    \/ Shown(k) = "absent" /\ Shown(k)' = "unknown" /\ Money(k)' = Money(k)
    \/ /\ Shown(k) = "unknown" /\ Money(k) = "none" /\ Shown(k)' = Shown(k)
       /\ \/ Money(k)' \in {"posted", "refused"}
          \/ k \in InCredit /\ Money(k)' = "held"
    \/ /\ Shown(k) = "unknown" /\ Money(k)' = Money(k)
       /\ \/ Money(k) = "posted" /\ Shown(k)' = "booked"
          \/ Money(k) = "held" /\ Shown(k)' = "suspended"
          \/ Money(k) = "refused" /\ Shown(k)' = "failed"
    \/ /\ Shown(k) = "booked" /\ Money(k) = "posted"
       /\ Shown(k)' = Shown(k) /\ Money(k)' = "undone"
    \/ /\ Shown(k) = "booked" /\ Money(k) = "undone"
       /\ Shown(k)' = "reversed" /\ Money(k)' = Money(k)
    \/ /\ Shown(k) \notin {"absent", "released"}
       /\ Shown(k)' = "released" /\ Money(k)' = "released"

Same(k) == Shown(k)' = Shown(k) /\ Money(k)' = Money(k)

(* A step that is allowed of one leg and changes no other is BookOnce's. *)
LEMMA AllowedIsPromised ==
  ASSUME NEW k \in Keys, Allowed(k), \A j \in Keys \ {k} : Same(j)
  PROVE  Promise!Next
<1> DEFINE R == [j \in Keys |-> IF j \in Released THEN "released" ELSE acct[j].res]
           M == [j \in Keys |-> Money(j)]
<1>1. /\ R[k] = Shown(k) /\ M[k] = Money(k)
      /\ R' = [R EXCEPT ![k] = Shown(k)'] /\ M' = [M EXCEPT ![k] = Money(k)']
      /\ Shown(k)' = Shown(k) => R' = R
      /\ Money(k)' = Money(k) => M' = M
  BY DEF Shown, Same
<1>2. Promise!Claim(k) \/ Promise!Move(k) \/ Promise!Record(k) \/ Promise!Undo(k)
      \/ Promise!RecordUndo(k) \/ Promise!Release(k)
  BY <1>1 DEF Allowed, Promise!Claim, Promise!Move, Promise!Record, Promise!Undo,
              Promise!RecordUndo, Promise!Release, Promise!Recorded
<1> QED
  BY <1>2 DEF Promise!Next

-----------------------------------------------------------------------------
(* Where the money of a leg is depends on these only. *)
BasisKept(j) == /\ Posted(j)' = Posted(j)
                /\ Refused(j)' <=> Refused(j)
                /\ \A b \in Posted(j) : /\ Undone(b.serial)' <=> Undone(b.serial)
                                        /\ Answer(b.serial, "ok")' <=> Answer(b.serial, "ok")

LEMMA MoneyKept ==
  ASSUME NEW j, BasisKept(j), j \in Released' <=> j \in Released
  PROVE  Money(j)' = Money(j)
<1>1. /\ (\E b \in Posted(j) : Undone(b.serial))' <=> \E b \in Posted(j) : Undone(b.serial)
      /\ (\E b \in Posted(j) : Answer(b.serial, "ok"))' <=>
            \E b \in Posted(j) : Answer(b.serial, "ok")
  BY DEF BasisKept
<1> QED
  BY <1>1 DEF Money, BasisKept

(* New requests move nothing before they are answered. *)
LEMMA RequestsMoveNothing ==
  ASSUME NEW j, UNCHANGED answers, calls \subseteq calls',
         \A c \in calls' \ calls : ~Answered(c.serial)
  PROVE  BasisKept(j)
<1>1. \A t, o : Answer(t, o)' <=> Answer(t, o)
  BY DEF Answer
<1>2. \A c \in calls' \ calls, o \in Outcomes : ~Answer(c.serial, o)
  BY DEF Answer, Answered
<1>3. Posted(j)' = Posted(j) /\ (Refused(j)' <=> Refused(j))
  BY <1>1, <1>2 DEF Posted, Took, Refused, Outcomes
<1>4. \A t : Undone(t)' <=> Undone(t)
  BY <1>1, <1>2 DEF Undone, Outcomes
<1> QED
  BY <1>1, <1>3, <1>4 DEF BasisKept

(* The money of a promised leg, from the answer to its one request. *)
LEMMA MoneyIs ==
  ASSUME IInv, PromiseInv, NEW k \in Keys \ Released,
         NEW c \in calls, c.op = "book", c.key = k
  PROVE  /\ c.serial = acct[k].ref
         /\ Posted(k) \subseteq {c}
         /\ ~Answered(c.serial) => Money(k) = "none" /\ ~Undone(c.serial)
         /\ Answer(c.serial, "refused") => Money(k) = "refused"
         /\ Answer(c.serial, "suspended") /\ acct[k].res = "unknown" => Money(k) = "held"
         /\ Answer(c.serial, "ok") =>
               Money(k) = IF Undone(c.serial) THEN "undone" ELSE "posted"
         /\ acct[k].res = "unknown" => ~Undone(c.serial)
<1>1. \A d \in calls : d.op = "book" /\ d.key = k => d = c
  BY DEF IInv, ClaimInv, SerialInv, Released
<1>2. c.serial = acct[k].ref
  BY DEF IInv, ClaimInv, Released
<1>3. \A o1, o2 : Answer(c.serial, o1) /\ Answer(c.serial, o2) => o1 = o2
  BY DEF IInv, SerialInv, Answer
<1>4. Posted(k) \subseteq {c} /\ (Took(c.serial) => Posted(k) = {c})
  BY <1>1 DEF Posted
<1>5. (Took(c.serial) <=> Posted(k) = {c}) /\ (Refused(k) <=> Answer(c.serial, "refused"))
  BY <1>1, <1>4 DEF Posted, Refused
<1>6. Undone(c.serial) => /\ Took(c.serial)
                          /\ \E d \in calls : d.op = "reverse" /\ d.key = k
  <2>1. SUFFICES ASSUME Undone(c.serial)
                 PROVE  Took(c.serial) /\ \E d \in calls : d.op = "reverse" /\ d.key = k
    OBVIOUS
  <2>2. PICK d \in calls : d.op = "reverse" /\ d.target = c.serial /\ Answer(d.serial, "ok")
    BY <2>1 DEF Undone
  <2>3. PICK b \in Posted(d.key) : b.serial = c.serial
    BY <2>2 DEF PromiseInv, UndoInv
  <2>4. b = c
    BY <2>3 DEF Posted, IInv, SerialInv
  <2> QED
    BY <2>2, <2>3, <2>4 DEF Posted
<1>7. acct[k].res = "unknown" => ~Undone(c.serial)
  BY <1>6 DEF PromiseInv, ReverseOpen, Reversible
<1>8. ~Answered(c.serial) => \A o : ~Answer(c.serial, o)
  BY DEF Answered, Answer
<1> QED
  BY <1>2, <1>3, <1>4, <1>5, <1>6, <1>7, <1>8 DEF Money, Took

-----------------------------------------------------------------------------
(* Each step, leg by leg. *)
LEMMA SameWhen ==
  ASSUME NEW j, BasisKept(j), RowKept(j), j \in Released' <=> j \in Released
  PROVE  Same(j)
  BY MoneyKept DEF Same, Shown, RowKept

(* No step but of the core system moves money. *)
LEMMA OnlyBankMoves ==
  ASSUME IInv, [Next]_bookVars, \A c \in calls : ~BankExecute(c)
  PROVE  \A j : BasisKept(j)
<1>1. calls \subseteq calls'
  BY HistoryGrows
<1>2. UNCHANGED answers
  BY DEF Next, ProcStep, AccountingStart, AccountingQuery, AccountingInsert, AccountingSend,
         AccountingReply, Call, CallLost, AccountCancelStart, AccountCancelQuery,
         AccountCancelSend, AccountCancelReply, Crash, ManualAdjust, bookVars
<1>3. ASSUME NEW c \in calls' \ calls PROVE ~Answered(c.serial)
  <2>1. PICK p \in Procs : AccountingSend(p) \/ AccountCancelSend(p)
    BY <1>3 DEF Next, ProcStep, AccountingStart, AccountingQuery, AccountingInsert,
                AccountingReply, CallLost, AccountCancelStart, AccountCancelQuery,
                AccountCancelReply, Crash, BankExecute, ManualAdjust, bookVars
  <2>2. c.serial = job[p].serial /\ \A d \in calls : d.serial # job[p].serial
    BY <1>3, <2>1 DEF AccountingSend, AccountCancelSend, Call, IInv, JobInv, JobOK
  <2> QED
    BY <2>2 DEF IInv, SerialInv, Answered
<1> QED
  BY <1>1, <1>2, <1>3, RequestsMoveNothing

(* A leg leaves the promise, or has left it. *)
LEMMA Leaves ==
  ASSUME NEW k \in Keys, acct[k].res # "absent", acct[k].res # "released", k \in Released'
  PROVE  Same(k) \/ Allowed(k)
<1>1. CASE k \in Released
  BY <1>1 DEF Same, Shown, Money
<1>2. CASE k \notin Released
  BY <1>2 DEF Allowed, Shown, Money
<1> QED
  BY <1>1, <1>2

(* One process, one row: the steps that write a row or release a leg.      *)
Writes(k) == /\ \A j \in Keys \ {k} : RowKept(j) /\ (j \in Released' <=> j \in Released)
             /\ Same(k) \/ Allowed(k)

LEMMA WriterStep ==
  ASSUME IInv, PromiseInv, [Next]_bookVars, NEW p \in Procs, NEW k \in Keys, k = job[p].key,
         \A j : BasisKept(j),
         AccountingQuery(p) \/ AccountingInsert(p) \/ AccountingReply(p) \/ AccountCancelReply(p)
  PROVE  Writes(k)
<1>0. /\ TypeOK
      /\ \A r : \A j \in Keys : SetResult(k, r) /\ j # k => RowKept(j)
      /\ acct[k].res # "released"
  <2>1. TypeOK
    BY DEF IInv
  <2>2. \A r : \A j \in Keys : SetResult(k, r) /\ j # k => RowKept(j)
    BY <2>1 DEF TypeOK, SetResult, RowKept
  <2>3. acct[k].res # "released"
    BY <2>1 DEF TypeOK, Rows, Absent, Results
  <2> QED
    BY <2>1, <2>2, <2>3
<1>1. Money(k)' = Money(k) \/ ~(k \in Released' <=> k \in Released)
  BY MoneyKept
<1>2. CASE AccountingQuery(p)
  <2>1. UNCHANGED <<acct, blind>> /\ reopened' \in {reopened, reopened \cup {k}}
    BY <1>2 DEF AccountingQuery
  <2>2. reopened' # reopened => acct[k].res # "absent"
    BY <1>2 DEF AccountingQuery, Closed
  <2>3. \A j \in Keys \ {k} : RowKept(j) /\ (j \in Released' <=> j \in Released)
    BY <2>1 DEF RowKept, Released
  <2>4. CASE reopened' = reopened
    BY <2>1, <2>3, <2>4, SameWhen DEF Writes, RowKept, Released
  <2>5. CASE reopened' # reopened
    <3>1. k \in Released'
      BY <2>1, <2>5 DEF Released
    <3> QED
      BY <1>0, <2>2, <2>3, <2>5, <3>1, Leaves DEF Writes
  <2> QED
    BY <2>4, <2>5
<1>3. CASE AccountingInsert(p)
  <2>1. UNCHANGED Released
    BY <1>3 DEF AccountingInsert, Released
  <2>2. \A j \in Keys \ {k} : RowKept(j)
    BY <1>0, <1>3 DEF AccountingInsert, RowKept, TypeOK
  <2>3. UNCHANGED acct \/ (acct[k].res = "absent" /\ acct'[k].res = "unknown")
    BY <1>0, <1>3 DEF AccountingInsert, TypeOK, Absent
  <2> QED
    BY <1>1, <2>1, <2>2, <2>3 DEF Writes, Allowed, Same, Shown
<1>4. CASE AccountingReply(p)
  <2>1. /\ pc[p] = "await" /\ acct[k].res # "absent"
        /\ UNCHANGED acct \/ \E r \in Results : SetResult(k, r)
        /\ blind' \in {blind, blind \cup {k}} /\ UNCHANGED reopened
    BY <1>4 DEF AccountingReply, IInv, ClaimInv, Results, Journal
  <2>2. \A j \in Keys \ {k} : RowKept(j) /\ (j \in Released' <=> j \in Released)
    BY <1>0, <2>1 DEF Released, RowKept
  <2>3. CASE k \in Released'
    BY <1>0, <2>1, <2>2, <2>3, Leaves DEF Writes
  <2>4. CASE k \notin Released'
    <3>1. k \in Keys \ Released
      BY <1>0, <2>4, KnownStays
    <3>2. PICK c \in calls : c.op = "book" /\ c.key = k /\ c.serial = acct[k].ref
      BY <2>1, <3>1, Claimant
    <3>3. job[p].serial = c.serial /\ acct[k].res = "unknown"
      BY <2>1, <3>1, <3>2, Claimant DEF PromiseInv, ClaimOpen
    <3>4. \/ UNCHANGED acct
          \/ Answer(c.serial, "refused") /\ SetResult(k, "failed")
          \/ Answer(c.serial, "ok") /\ SetResult(k, "booked")
          \/ Answer(c.serial, "suspended") /\ SetResult(k, "suspended")
      BY <1>4, <2>4, <3>3 DEF AccountingReply, Released, Journal
    <3>5. \/ UNCHANGED acct
          \/ Money(k) = "refused" /\ SetResult(k, "failed")
          \/ Money(k) = "posted" /\ SetResult(k, "booked")
          \/ Money(k) = "held" /\ SetResult(k, "suspended")
      BY <3>1, <3>2, <3>3, <3>4, MoneyIs
    <3>6. \/ Shown(k)' = Shown(k)
          \/ Money(k) = "refused" /\ Shown(k)' = "failed"
          \/ Money(k) = "posted" /\ Shown(k)' = "booked"
          \/ Money(k) = "held" /\ Shown(k)' = "suspended"
      BY <1>0, <2>4, <3>1, <3>5, SetResultEffect DEF Shown, Results
    <3> QED
      BY <1>1, <2>2, <2>4, <3>1, <3>3, <3>6 DEF Writes, Allowed, Same, Shown
  <2> QED
    BY <2>3, <2>4
<1>5. CASE AccountCancelReply(p)
  <2>1. /\ pc[p] = "cawait" /\ acct[k].res # "absent"
        /\ UNCHANGED acct \/ SetResult(k, "reversed")
        /\ blind' \in {blind, blind \cup {k}} /\ UNCHANGED reopened
    BY <1>5 DEF AccountCancelReply, IInv, DecidedInv
  <2>2. \A j \in Keys \ {k} : RowKept(j) /\ (j \in Released' <=> j \in Released)
    BY <1>0, <2>1 DEF Released, RowKept
  <2>3. CASE k \in Released'
    BY <1>0, <2>1, <2>2, <2>3, Leaves DEF Writes
  <2>4. CASE k \notin Released'
    <3>1. k \in Keys \ Released
      BY <1>0, <2>4, KnownStays
    <3>2. CASE UNCHANGED acct
      BY <1>1, <2>2, <2>4, <3>1, <3>2 DEF Writes, Same, Shown
    <3>3. CASE SetResult(k, "reversed") /\ Answer(job[p].serial, "ok")
      <4>1. PICK c \in calls : /\ c.op = "reverse" /\ c.key = k
                               /\ c.serial = job[p].serial /\ c.target = job[p].target
        BY <2>1 DEF IInv, JobInv, JobOK
      <4>2. Undone(acct[k].ref) /\ acct[k].res \in {"booked", "reversed"}
        BY <3>1, <3>3, <4>1 DEF PromiseInv, ReverseOpen, Reversible, Undone
      <4>3. PICK b \in Posted(k) : b.serial = c.target
        BY <3>3, <4>1 DEF PromiseInv, UndoInv
      <4>4. b \in calls /\ b.op = "book" /\ b.key = k /\ Answer(b.serial, "ok")
        BY <3>1, <4>1, <4>2, <4>3 DEF Posted, PromiseInv, RowTrue, ReverseOpen, Reversible
      <4>5. Money(k) = "undone"
        BY <3>1, <4>2, <4>4, MoneyIs
      <4>6. Shown(k)' = "reversed"
        BY <1>0, <2>4, <3>3, SetResultEffect DEF Shown, Results
      <4> QED
        BY <1>1, <2>2, <2>4, <3>1, <4>2, <4>5, <4>6 DEF Writes, Allowed, Same, Shown
    <3> QED
      BY <1>5, <2>4, <3>2, <3>3 DEF AccountCancelReply, Released
  <2> QED
    BY <2>3, <2>4
<1> QED
  BY <1>2, <1>3, <1>4, <1>5

(* The core system executes a request: the money of its leg moves. *)
LEMMA BankStep ==
  ASSUME IInv, PromiseInv, NEW c \in calls, BankExecute(c)
  PROVE  /\ \A j \in Keys \ {c.key} : Same(j)
         /\ Same(c.key) \/ Allowed(c.key)
<1>0. /\ UNCHANGED <<acct, calls, reopened, blind>> /\ ~Answered(c.serial)
      /\ \A j : RowKept(j) /\ (j \in Released' <=> j \in Released) /\ Shown(j)' = Shown(j)
      /\ c.op \in Ops /\ c.key \in Keys
  BY DEF BankExecute, RowKept, Released, Shown, IInv, TypeOK, Calls
<1>1. PICK o \in Outcomes :
         /\ o = "suspended" => c.op = "book" /\ c.key \in InCredit
         /\ c.op = "reverse" /\ o = "ok" =>
               (\E b \in Posted(c.key) : b.serial = c.target) /\ ~Undone(c.target)
         /\ answers' = answers \cup {[serial |-> c.serial, outcome |-> o]}
  BY DEF BankExecute
<1>2. /\ \A s, r : Answer(s, r)' <=> Answer(s, r) \/ (s = c.serial /\ r = o)
      /\ \A r : ~Answer(c.serial, r)
      /\ \A d \in calls : d.serial = c.serial => d = c
  BY <1>0, <1>1 DEF Answer, Answered, IInv, SerialInv
<1>3. \A j : Posted(j)' = Posted(j) \cup
                (IF c.op = "book" /\ c.key = j /\ o # "refused" THEN {c} ELSE {})
  BY <1>0, <1>1, <1>2 DEF Posted, Took, Outcomes
<1>4. \A j : Refused(j)' <=> \/ Refused(j)
                             \/ c.op = "book" /\ c.key = j /\ o = "refused"
  BY <1>0, <1>2 DEF Refused
<1>5. \A s : Undone(s)' <=> \/ Undone(s)
                            \/ c.op = "reverse" /\ o = "ok" /\ s = c.target
  BY <1>0, <1>2 DEF Undone
<1>6. \A b \in calls : ~Took(c.serial) /\ (Took(b.serial) => b # c)
  BY <1>2 DEF Took
<1>7. ASSUME NEW j \in Keys \ {c.key} PROVE Same(j)
  <2>1. \A b \in Posted(j) : ~(c.op = "reverse" /\ o = "ok" /\ b.serial = c.target)
    BY <1>1, <1>7 DEF Posted, IInv, SerialInv
  <2>2. \A b \in Posted(j) : b.serial # c.serial
    BY <1>2, <1>6 DEF Posted
  <2>3. BasisKept(j)
    BY <1>2, <1>3, <1>4, <1>5, <1>7, <2>1, <2>2 DEF BasisKept
  <2> QED
    BY <1>0, <2>3, SameWhen
<1>8. ASSUME c.key \in Released
      PROVE  Same(c.key) \/ Allowed(c.key)
  BY <1>0, <1>8 DEF Same, Money
<1>9. ASSUME c.key \in Keys \ Released, c.op = "book"
      PROVE  Same(c.key) \/ Allowed(c.key)
  <2>1. Money(c.key) = "none" /\ ~Undone(c.serial) /\ Posted(c.key) = {} /\ c.serial = acct[c.key].ref
    BY <1>0, <1>6, <1>9, MoneyIs DEF Posted
  <2>2. Shown(c.key) = "unknown"
    <3>1. acct[c.key].res \in Results \cup {"absent"}
      BY <1>0 DEF IInv, TypeOK, Rows, Absent
    <3>2. acct[c.key].res # "absent"
      BY <1>9 DEF IInv, ClaimInv
    <3> QED
      BY <1>2, <1>9, <2>1, <3>1, <3>2 DEF PromiseInv, RowTrue, Results, Shown
  <2>3. CASE o = "ok"
    <3>1. Posted(c.key)' = {c} /\ ~Undone(c.serial)' /\ Answer(c.serial, "ok")'
      BY <1>2, <1>3, <1>5, <1>9, <2>1, <2>3
    <3>2. Money(c.key)' = "posted"
      BY <1>0, <1>9, <3>1 DEF Money
    <3> QED
      BY <1>0, <2>1, <2>2, <3>2 DEF Allowed
  <2>4. CASE o = "suspended"
    <3>1. Posted(c.key)' = {c} /\ ~Undone(c.serial)' /\ ~Answer(c.serial, "ok")'
      BY <1>2, <1>3, <1>5, <1>9, <2>1, <2>4
    <3>2. Money(c.key)' = "held"
      BY <1>0, <1>9, <3>1 DEF Money
    <3> QED
      BY <1>0, <1>1, <2>1, <2>2, <2>4, <3>2 DEF Allowed
  <2>5. CASE o = "refused"
    <3>1. Posted(c.key)' = {} /\ Refused(c.key)'
      BY <1>3, <1>4, <1>9, <2>1, <2>5
    <3>2. Money(c.key)' = "refused"
      BY <1>0, <1>9, <3>1 DEF Money
    <3> QED
      BY <1>0, <2>1, <2>2, <3>2 DEF Allowed
  <2> QED
    BY <1>1, <2>3, <2>4, <2>5 DEF Outcomes
<1>10. ASSUME c.key \in Keys \ Released, c.op = "reverse", o # "ok"
       PROVE  Same(c.key) \/ Allowed(c.key)
  <2>1. \A b \in Posted(c.key) : b.serial # c.serial
    BY <1>2, <1>6 DEF Posted
  <2>2. BasisKept(c.key)
    BY <1>2, <1>3, <1>4, <1>5, <1>10, <2>1 DEF BasisKept
  <2> QED
    BY <1>0, <2>2, SameWhen
<1>11. ASSUME c.key \in Keys \ Released, c.op = "reverse", o = "ok"
       PROVE  Same(c.key) \/ Allowed(c.key)
  <2>1. PICK b \in Posted(c.key) : b.serial = c.target
    BY <1>1, <1>11
  <2>2. b \in calls /\ b.op = "book" /\ b.key = c.key /\ c.target = acct[c.key].ref
    BY <1>11, <2>1 DEF Posted, PromiseInv, ReverseOpen, Reversible
  <2>3. acct[c.key].res = "booked" /\ Answer(b.serial, "ok") /\ ~Undone(b.serial)
    BY <1>1, <1>11, <2>1, <2>2 DEF PromiseInv, ReverseOpen, Reversible, RowTrue
  <2>4. Shown(c.key) = "booked" /\ Money(c.key) = "posted"
    BY <1>11, <2>2, <2>3, MoneyIs DEF Shown
  <2>5. Money(c.key)' = "undone"
    BY <1>0, <1>3, <1>5, <1>11, <2>1 DEF Money
  <2> QED
    BY <1>0, <2>4, <2>5 DEF Allowed
<1> QED
  BY <1>0, <1>7, <1>8, <1>9, <1>10, <1>11 DEF Ops

LEMMA PromiseStep ==
  IInv /\ PromiseInv /\ [Next]_bookVars => [Promise!Next]_(Promise!vars)
<1> SUFFICES ASSUME IInv, PromiseInv, [Next]_bookVars
             PROVE  Promise!Next \/ UNCHANGED Promise!vars
  OBVIOUS
<1>1. ASSUME \A j \in Keys : Same(j) PROVE UNCHANGED Promise!vars
  BY <1>1 DEF Same, Shown, Promise!vars
<1>2. ASSUME NEW k \in Keys, \A j \in Keys \ {k} : Same(j), Same(k) \/ Allowed(k)
      PROVE  Promise!Next \/ UNCHANGED Promise!vars
  BY <1>1, <1>2, AllowedIsPromised
<1>3. CASE \E c \in calls : BankExecute(c)
  <2>1. \A c \in calls : c.key \in Keys
    BY DEF IInv, TypeOK, Calls
  <2> QED
    BY <1>2, <1>3, <2>1, BankStep
<1>4. CASE ~\E c \in calls : BankExecute(c)
  <2>0. /\ \A j : BasisKept(j)
        /\ \A p \in Procs : job[p].key \in Keys
    BY <1>4, OnlyBankMoves DEF IInv, TypeOK, Jobs
  <2>1. ASSUME NEW k \in Keys, Writes(k) PROVE Promise!Next \/ UNCHANGED Promise!vars
    BY <1>2, <2>0, <2>1, SameWhen DEF Writes
  <2>2. ASSUME NEW p \in Procs,
               \/ AccountingQuery(p) \/ AccountingInsert(p) \/ AccountingReply(p)
               \/ AccountCancelReply(p)
        PROVE  Promise!Next \/ UNCHANGED Promise!vars
    BY <2>0, <2>1, <2>2, WriterStep
  <2>3. ASSUME NEW k \in Keys, NEW r \in Results, ManualAdjust(k, r)
        PROVE  Promise!Next \/ UNCHANGED Promise!vars
    <3>1. \A j \in Keys \ {k} : RowKept(j) /\ (j \in Released' <=> j \in Released)
      BY <2>3 DEF ManualAdjust, SetResult, RowKept, Released, IInv, TypeOK
    <3>2. k \in Released' /\ acct[k].res # "absent" /\ acct[k].res # "released"
      BY <2>3 DEF ManualAdjust, Released, IInv, TypeOK, Rows, Absent, Results
    <3> QED
      BY <2>1, <3>1, <3>2, Leaves DEF Writes
  <2>4. CASE UNCHANGED <<acct, reopened, blind>>
    BY <1>1, <2>0, <2>4, SameWhen DEF RowKept, Released
  <2> QED
    BY <1>4, <2>2, <2>3, <2>4
       DEF Next, ProcStep, AccountingStart, AccountingSend, Call, CallLost,
           AccountCancelStart, AccountCancelQuery, AccountCancelSend, Crash, bookVars
<1> QED
  BY <1>3, <1>4

(* The booking engine implements BookOnce: for any number of processes,    *)
(* retries, lost answers and crashes, a leg that is neither booked again   *)
(* over a closed row nor written without a readable answer is claimed,     *)
(* moved, recorded, undone and recorded so, each at most once.             *)
THEOREM BooksOnce == Spec => ImplementsBookOnce
<1>1. Init => PromiseInv
  BY DEF Init, PromiseInv, RowTrue, ClaimOpen, ReverseOpen, UndoInv, Absent
<1>2. Init => Promise!Init
  BY DEF Init, Promise!Init, Released, Money, Posted, Refused, Absent
<1> QED
  BY <1>1, <1>2, Inductive, PromiseInvStep, PromiseStep, PTL
     DEF Spec, ImplementsBookOnce, Promise!Spec
=============================================================================
