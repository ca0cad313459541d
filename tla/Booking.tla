------------------------------- MODULE Booking -------------------------------
(***************************************************************************)
(* The booking engine of process/PF/process10.c: Accounting() books one    *)
(* leg of a clearing transaction in the bank's core system and journals it *)
(* in table acctjour; AccountCancel() reverses a booked leg.  One process  *)
(* serves one request, so several processes may work on the same journal   *)
(* key (nodeid, workdate, refid, inoutflag, originator, trncode) at once.  *)
(* Every SQL statement commits on its own, and a call of the core system   *)
(* may be lost, answered late, or answered to a caller that has given up.  *)
(*                                                                         *)
(* The core system is external: it is the answers it gives to the requests *)
(* the platform sent, each request being executed at most once.            *)
(***************************************************************************)
EXTENDS Naturals

CONSTANTS Procs,      \* request processes
          Keys,       \* acctjour keys
          InCredit,   \* keys of trncode ACCOUNT_INCREDIT: may be suspended
          Foreign,    \* keys of a non-CNY transaction whose trncode is not
                      \* ACCOUNT_OUTCREDIT: never booked
          MaxSerial   \* bound on the serials GenAccountSerial hands out

ASSUME BookingAssumption == InCredit \subseteq Keys /\ Foreign \subseteq Keys

VARIABLES acct,      \* table acctjour: key -> result and reserved1
          host,      \* its acctserial: the request whose answer wrote the row
                     \* last (its teller serial), 0 for none
          calls,     \* requests sent to the core system
          answers,   \* what the core system did with them
          serial,    \* last platform serial generated
          pc, job,   \* control point and parameters of each process
          ret,       \* outcome of the last call of each process
          reopened,  \* history: keys booked again over a closed row
          blind      \* history: keys whose row was written without a
                     \* readable answer (garbled reply, manual adjustment)

bookVars == <<acct, host, calls, answers, serial, pc, job, ret, reopened, blind>>

(* acctjour.result: 0, 1, 2, 5, 9 of the comment above the test in Accounting. *)
Results == {"unknown", "booked", "reversed", "suspended", "failed"}
Closed  == {"reversed", "suspended", "failed"}
Absent  == [res |-> "absent", ref |-> 0]
Rows    == {Absent} \cup [res : Results, ref : Nat]

Ops      == {"book", "reverse"}
Calls    == [op : Ops, key : Keys, serial : Nat, target : Nat]
Outcomes == {"ok", "suspended", "refused"}
Answers  == [serial : Nat, outcome : Outcomes]

Points == {"idle", "query", "insert", "send", "await",
           "cquery", "oquery", "csend", "cawait"}
Jobs   == [key : Keys, serial : Nat, target : Nat]
Job(k, s, t) == [key |-> k, serial |-> s, target |-> t]

(* 0, E_APP_ACCOUNTSUCC, E_APP_ACCOUNTFAIL, E_APP_CZFAIL, E_SYS_COMM_BANK, *)
(* E_PACK_CONVERT, E_DB, E_DB_SELECT; "none" before and during a call.     *)
Codes == {"none", "OK", "SUCC", "FAIL", "CZFAIL", "BANK", "CONV", "DB", "DBSEL"}

(* What a request sent by the platform led to in the core system. *)
Answered(s)   == \E a \in answers : a.serial = s
Answer(s, o)  == [serial |-> s, outcome |-> o] \in answers
Took(s)       == Answer(s, "ok") \/ Answer(s, "suspended")
Posted(k)     == {c \in calls : c.op = "book" /\ c.key = k /\ Took(c.serial)}
Undone(s)     == \E c \in calls : c.op = "reverse" /\ c.target = s
                                                   /\ Answer(c.serial, "ok")

Init == /\ acct = [k \in Keys |-> Absent]
        /\ host = [k \in Keys |-> 0]
        /\ calls = {} /\ answers = {} /\ serial = 0
        /\ pc = [p \in Procs |-> "idle"]
        /\ \E k \in Keys : job = [p \in Procs |-> Job(k, 0, 0)]
        /\ ret = [p \in Procs |-> "none"]
        /\ reopened = {} /\ blind = {}

(* The call made by p for key k ends with code c. *)
End(p, k, c) == /\ pc' = [pc EXCEPT ![p] = "idle"]
                /\ ret' = [ret EXCEPT ![p] = c]
                /\ job' = [job EXCEPT ![p] = Job(k, 0, 0)]

Return(p, c) == End(p, job[p].key, c)

(* It goes on: at another point, with new parameters. *)
Begin(p, point, j) == /\ pc' = [pc EXCEPT ![p] = point]
                      /\ job' = [job EXCEPT ![p] = j]
                      /\ ret' = [ret EXCEPT ![p] = "none"]

Goto(p, point) == Begin(p, point, job[p])

SetResult(k, r) == acct' = [acct EXCEPT ![k].res = r]

(* The UPDATE of the row by what the core system answered to request s. *)
Journal(k, r, s) == SetResult(k, r) /\ host' = [host EXCEPT ![k] = s]

-----------------------------------------------------------------------------
(* Accounting(bktcode, doc). *)

(* Entry: a foreign currency is not booked; else a serial is generated. *)
AccountingStart(p, k) ==
    /\ pc[p] = "idle"
    /\ UNCHANGED <<acct, host, calls, answers, reopened, blind>>
    /\ \/ k \in Foreign /\ End(p, k, "OK") /\ UNCHANGED serial
       \/ /\ k \notin Foreign
          /\ serial < MaxSerial
          /\ serial' = serial + 1
          /\ Begin(p, "query", Job(k, serial + 1, 0))

(* SELECT result FROM acctjour, and the decision taken on what it returned. *)
AccountingQuery(p) ==
    LET k == job[p].key IN
    /\ pc[p] = "query"
    /\ UNCHANGED <<acct, host, calls, answers, serial, blind>>
    /\ \/ Return(p, "FAIL") /\ UNCHANGED reopened              \* SQL error
       \/ acct[k] = Absent /\ Goto(p, "insert") /\ UNCHANGED reopened
       \/ acct[k].res = "booked" /\ Return(p, "SUCC") /\ UNCHANGED reopened
       \/ acct[k].res = "unknown" /\ Return(p, "BANK") /\ UNCHANGED reopened
       \/ /\ acct[k].res \in Closed
          /\ Goto(p, "send")
          /\ reopened' = reopened \cup {k}

\* Mutant: no unique index on acctjour.
AccountingInsertNoIndex(p) ==
    /\ pc[p] = "insert"
    /\ UNCHANGED <<host, calls, answers, serial, reopened, blind>>
    /\ acct' = [acct EXCEPT ![job[p].key] = [res |-> "unknown", ref |-> job[p].serial]]
    /\ Goto(p, "send")

\* Mutant: the insert writes result 1, as the db.xml of bank 1012 does.
AccountingInsertBooked(p) ==
    /\ pc[p] = "insert"
    /\ UNCHANGED <<host, calls, answers, serial, reopened, blind>>
    /\ \/ /\ acct[job[p].key] = Absent
          /\ acct' = [acct EXCEPT ![job[p].key] = [res |-> "booked", ref |-> job[p].serial]]
          /\ Goto(p, "send")
       \/ Return(p, "FAIL") /\ UNCHANGED acct

(* InsertAcctjour: result 0 and the serial; the unique index of acctjour   *)
(* makes the insert fail when another process was first.                   *)
AccountingInsert(p) ==
    LET k == job[p].key IN
    /\ pc[p] = "insert"
    /\ UNCHANGED <<host, calls, answers, serial, reopened, blind>>
    /\ \/ /\ acct[k] = Absent
          /\ acct' = [acct EXCEPT ![k] = [res |-> "unknown", ref |-> job[p].serial]]
          /\ Goto(p, "send")
       \/ Return(p, "FAIL") /\ UNCHANGED acct

(* callInterface: the request cannot be formatted, or it leaves. *)
Call(p, op, next) ==
    /\ UNCHANGED <<acct, host, answers, serial, reopened, blind>>
    /\ \/ Return(p, "CONV") /\ UNCHANGED calls
       \/ /\ calls' = calls \cup {[op |-> op, key |-> job[p].key,
                                   serial |-> job[p].serial, target |-> job[p].target]}
          /\ Goto(p, next)

AccountingSend(p) == pc[p] = "send" /\ Call(p, "book", "await")

\* Mutant: a lost call counts as a refusal.
CallLostFails(p) ==
    /\ pc[p] \in {"await", "cawait"}
    /\ SetResult(job[p].key, "failed")
    /\ Return(p, "BANK")
    /\ UNCHANGED <<host, calls, answers, serial, reopened, blind>>

(* CommProtocol fails: the request or its answer was lost, or came late. *)
CallLost(p) == /\ pc[p] \in {"await", "cawait"}
               /\ Return(p, "BANK")
               /\ UNCHANGED <<acct, host, calls, answers, serial, reopened, blind>>

(* The answer is in: the journal row gets its result.  The update of a     *)
(* refused booking is not checked; the other one decides the return code.  *)
AccountingReply(p) ==
    LET k == job[p].key  s == job[p].serial IN
    /\ pc[p] = "await"
    /\ UNCHANGED <<calls, answers, serial, reopened>>
    /\ \/ /\ Answer(s, "refused")
          /\ Return(p, "FAIL")
          /\ Journal(k, "failed", s) \/ UNCHANGED <<acct, host>>
          /\ UNCHANGED blind
       \/ /\ Answer(s, "ok")
          /\ \/ Journal(k, "booked", s) /\ Return(p, "SUCC")
             \/ UNCHANGED <<acct, host>> /\ Return(p, "DB")
          /\ UNCHANGED blind
       \/ /\ Answer(s, "suspended")
          /\ \/ Journal(k, "suspended", s) /\ Return(p, "SUCC")
             \/ UNCHANGED <<acct, host>> /\ Return(p, "DB")
          /\ UNCHANGED blind
       \/ /\ Answered(s)         \* unreadable answer, "taken as success"
          /\ blind' = blind \cup {k}
          /\ \/ \E h \in {0, s} : Journal(k, "booked", h) /\ Return(p, "SUCC")
             \/ UNCHANGED <<acct, host>> /\ Return(p, "DB")

-----------------------------------------------------------------------------
(* AccountCancel(bktcode, flag, doc). *)

(* Entry: with no terminal in the request its number is asked of the core  *)
(* system first, and when that call fails so does the reversal.  Flag 3 is *)
(* the reversal of a return the center refused; the others do not differ.  *)
AccountCancelStart(p, k, flag) ==
    /\ pc[p] = "idle"
    /\ UNCHANGED <<acct, host, calls, answers, serial, reopened, blind>>
    /\ \/ Begin(p, IF flag = 3 THEN "oquery" ELSE "cquery", Job(k, 0, 0))
       \/ \E c \in {"BANK", "CONV"} : End(p, k, c)

\* Flag 3 names the teller's serial, the others the platform's.
Original(p) == IF pc[p] = "oquery" THEN host[job[p].key] ELSE acct[job[p].key].ref

\* Mutant: the result of the row is not looked at.
AccountCancelQueryAny(p) ==
    LET k == job[p].key IN
    /\ pc[p] \in {"cquery", "oquery"}
    /\ UNCHANGED <<acct, host, calls, answers, reopened, blind>>
    /\ \/ Return(p, "DBSEL") /\ UNCHANGED serial
       \/ /\ acct[k] # Absent
          /\ serial < MaxSerial
          /\ serial' = serial + 1
          /\ Begin(p, "csend", Job(k, serial + 1, Original(p)))

(* SELECT acctserial, result, reserved1: only a booked row is reversed, by *)
(* the serial its row was inserted with or, with flag 3, by the one the    *)
(* core system gave the booking.                                           *)
AccountCancelQuery(p) ==
    LET k == job[p].key IN
    /\ pc[p] \in {"cquery", "oquery"}
    /\ UNCHANGED <<acct, host, calls, answers, reopened, blind>>
    /\ \/ Return(p, "DBSEL") /\ UNCHANGED serial      \* error or no row
       \/ /\ acct[k].res \in Results \ {"booked"}
          /\ Return(p, "OK")
          /\ UNCHANGED serial
       \/ /\ acct[k].res = "booked"
          /\ serial < MaxSerial
          /\ serial' = serial + 1
          /\ Begin(p, "csend", Job(k, serial + 1, Original(p)))

AccountCancelSend(p) == pc[p] = "csend" /\ Call(p, "reverse", "cawait")

\* Mutant: a refused reversal is journalled like an executed one.
AccountCancelReplyAny(p) ==
    /\ pc[p] = "cawait" /\ Answered(job[p].serial)
    /\ SetResult(job[p].key, "reversed")
    /\ Return(p, "OK")
    /\ UNCHANGED <<host, calls, answers, serial, reopened, blind>>

(* The UPDATE to result 2 is not checked: 0 is returned whatever it did.   *)
AccountCancelReply(p) ==
    LET k == job[p].key  s == job[p].serial IN
    /\ pc[p] = "cawait"
    /\ UNCHANGED <<host, calls, answers, serial, reopened>>
    /\ \/ Answer(s, "refused") /\ Return(p, "CZFAIL") /\ UNCHANGED <<acct, blind>>
       \/ /\ Answer(s, "ok")
          /\ SetResult(k, "reversed") \/ UNCHANGED acct
          /\ Return(p, "OK")
          /\ UNCHANGED blind
       \/ /\ Answered(s)         \* unreadable answer, "taken as success"
          /\ SetResult(k, "reversed") \/ UNCHANGED acct
          /\ Return(p, "OK")
          /\ blind' = blind \cup {k}

-----------------------------------------------------------------------------
(* The core system and the rest of the world. *)

(* The core system executes a request once, whenever it gets to it.  It    *)
(* reverses only a posting that exists and was not reversed before.        *)
BankExecute(c) ==
    /\ c \in calls /\ ~Answered(c.serial)
    /\ UNCHANGED <<acct, host, calls, serial, pc, job, ret, reopened, blind>>
    /\ \E o \in Outcomes :
        /\ o = "suspended" => c.op = "book" /\ c.key \in InCredit
        /\ c.op = "reverse" /\ o = "ok" =>
              /\ \E b \in Posted(c.key) : b.serial = c.target
              /\ ~Undone(c.target)
        /\ answers' = answers \cup {[serial |-> c.serial, outcome |-> o]}

(* The process dies between two steps. *)
Crash(p) == /\ pc[p] # "idle"
            /\ Return(p, "none")
            /\ UNCHANGED <<acct, host, calls, answers, serial, reopened, blind>>

(* PF_1609: an operator who booked or reversed at the counter sets the row. *)
ManualAdjust(k, r) ==
    /\ r \in {"booked", "reversed"}
    /\ acct[k] # Absent /\ acct[k].res # r
    /\ SetResult(k, r)
    /\ blind' = blind \cup {k}
    /\ UNCHANGED <<host, calls, answers, serial, pc, job, ret, reopened>>

ProcStep(p) ==
    \/ AccountingQuery(p) \/ AccountingInsert(p) \/ AccountingSend(p)
    \/ AccountingReply(p) \/ CallLost(p)
    \/ AccountCancelQuery(p) \/ AccountCancelSend(p) \/ AccountCancelReply(p)

Next == \/ \E p \in Procs : ProcStep(p) \/ Crash(p)
        \/ \E p \in Procs, k \in Keys : AccountingStart(p, k)
        \/ \E p \in Procs, k \in Keys, flag \in 1..3 : AccountCancelStart(p, k, flag)
        \/ \E c \in calls : BankExecute(c)
        \/ \E k \in Keys, r \in Results : ManualAdjust(k, r)

Spec == Init /\ [][Next]_bookVars

-----------------------------------------------------------------------------
(* The variables have their types: every row has a result of acctjour, and *)
(* every process is at a point of the code.                                *)
TypeOK == /\ acct \in [Keys -> Rows]
          /\ host \in [Keys -> Nat]
          /\ calls \subseteq Calls
          /\ answers \subseteq Answers
          /\ serial \in Nat
          /\ pc \in [Procs -> Points]
          /\ job \in [Procs -> Jobs]
          /\ ret \in [Procs -> Codes]
          /\ reopened \subseteq Keys
          /\ blind \subseteq Keys

(* However many processes serve the key, and whatever they lose, time out  *)
(* on or leave behind by dying, the core system posts a leg at most once   *)
(* -- unless the leg was booked again over a closed row (2, 5 or 9).       *)
SinglePosting ==
    \A k \in Keys \ reopened : \A b1, b2 \in Posted(k) : b1 = b2

(* Where every answer was readable, a booked or suspended row stands for a *)
(* posting in the core system, the one whose serial it carries, and a      *)
(* returned E_APP_ACCOUNTSUCC for a posting.                               *)
BookedWasPosted ==
    \A k \in Keys \ blind :
        /\ acct[k].res \in {"booked", "suspended"} => \E b \in Posted(k) : b.serial = host[k]
        /\ \A p \in Procs : ret[p] = "SUCC" /\ job[p].key = k => Posted(k) # {}

(* A reversal names a posting the core system really made: the serial the  *)
(* journal row was inserted with is the serial the leg was booked with.    *)
ReversalHasTarget ==
    \A c \in calls : c.op = "reverse" /\ c.key \notin reopened \cup blind =>
        \E b \in Posted(c.key) : b.serial = c.target

(* A row in doubt leaves that state only with the answer of the core       *)
(* system to the request it was inserted for, or by an operator: no retry, *)
(* no second process and no reversal decides it.                           *)
DoubtNeedsAnswer ==
    [][\A k \in Keys : acct[k].res = "unknown" /\ acct'[k] # acct[k] =>
          k \in blind' \/ Answered(acct[k].ref)]_bookVars

(* AccountCancel calls reserved1 "the original system reference number"    *)
(* of the booking it reverses: a reversal of a row that was written from a *)
(* readable answer names a posting of that leg.                            *)
ReversalNamesOriginal ==
    \A c \in calls : c.op = "reverse" /\ c.key \notin blind =>
        \E b \in Posted(c.key) : b.serial = c.target

-----------------------------------------------------------------------------
(* The engine implements BookOnce: the journal row and the requests the    *)
(* core system executed, except for the legs that left the promise.        *)
Released == reopened \cup blind
Refused(k) == \E c \in calls : c.op = "book" /\ c.key = k /\ Answer(c.serial, "refused")
Money(k) == IF k \in Released THEN "released"
            ELSE IF \E b \in Posted(k) : Undone(b.serial) THEN "undone"
            ELSE IF \E b \in Posted(k) : Answer(b.serial, "ok") THEN "posted"
            ELSE IF Posted(k) # {} THEN "held"
            ELSE IF Refused(k) THEN "refused"
            ELSE "none"

Promise == INSTANCE BookOnce WITH
              row   <- [k \in Keys |-> IF k \in Released THEN "released" ELSE acct[k].res],
              money <- [k \in Keys |-> Money(k)]

(* Every step of the engine is a step of BookOnce or changes nothing of it. *)
ImplementsBookOnce == Promise!Spec
=============================================================================
