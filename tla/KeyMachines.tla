----------------------------- MODULE KeyMachines -----------------------------
(***************************************************************************)
(* The pool of key machines (SZMY_API.c) that the digests of messages and  *)
(* the PIN blocks are made by.  The machines, the state each is marked     *)
(* with and the one last used are in shared memory, without a lock; the    *)
(* first caller that finds no segment creates it.  A caller takes the next *)
(* machine after the one last used that is marked normal, marks it failed  *)
(* when it cannot connect, and tries three times.  When half of the        *)
(* machines are marked a child is forked that tests all of them, at most   *)
(* once per reading of the clock.                                          *)
(*                                                                         *)
(* Each access to the shared memory is a step of its own, and so is each   *)
(* connection.  What is sent to a machine is left out.                     *)
(***************************************************************************)
EXTENDS Integers, FiniteSets

CONSTANTS Callers,   \* processes that need a key machine
          Testers,   \* children that can be forked at a time
          SVR_MAX,   \* the places of the table
          Count,     \* the machines server.ini names
          FirstId,   \* the number of the first of them
          Tries      \* how often a caller tries, 3 in the code

\* The numbers ascend, so that so many are left from the first one on.
ASSUME SizeAssumption == /\ SVR_MAX \in Nat \ {0} /\ FirstId \in 0 .. SVR_MAX - 1
                         /\ Count \in 1 .. SVR_MAX - FirstId /\ Tries \in Nat \ {0}

VARIABLES exists,    \* is there a segment?
          curid,     \* the machine last used
          sumcnt,    \* the number of machines
          state,     \* of each place: "0" normal, "9" failed, "none" empty
          fresh,     \* has the clock moved since testtime was written?
          up,        \* the machines that take connections
          call,      \* each caller
          test       \* each child

shm == <<exists, curid, sumcnt, state, fresh>>
keyVars == <<shm, up, call, test>>

Places == 0 .. SVR_MAX - 1
Machines == 0 .. Count - 1
Resting == [at |-> "idle", refused |-> FALSE, tries |-> 0, i |-> 0, j |-> 0,
            failed |-> FALSE, total |-> 0, normal |-> {}]

KeysInit == /\ exists = FALSE /\ curid = 0 /\ sumcnt = 0
            /\ state = [i \in Places |-> "none"] /\ fresh = TRUE
            /\ up = Machines
            /\ call = [p \in Callers |-> Resting]
            /\ test = [t \in Testers |-> [at |-> "idle", i |-> 0, found |-> "none"]]

(* Every step keeps account of the machines that stayed normal since a     *)
(* caller began to look for one, as long as nobody is filling the table.   *)
Filling(c) == \E o \in Callers : c[o].at \in {"create", "wipe", "fill"}
Normal(c, s) == IF Filling(c) THEN {} ELSE {i \in Places : s[i] = "0"}
Seeing(c) == [o \in Callers |-> [c[o] EXCEPT !.normal = @ \cap Normal(c, state')]]
Set(p, c) == call' = Seeing([call EXCEPT ![p] = c])
Others == call' = Seeing(call)
At(p, where) == call[p].at = where

-----------------------------------------------------------------------------
(* Get_MYJ_Info: find the segment, or create and fill it.                  *)

Tried(p) == IF At(p, "idle") THEN 1 ELSE call[p].tries
Get_MYJ_Info(p) ==
    /\ At(p, "idle") \/ At(p, "get")
    /\ UNCHANGED <<shm, up, test>>
    /\ Set(p, [Resting EXCEPT
                 !.at = IF exists THEN "scan" ELSE "create", !.tries = Tried(p),
                 !.i = IF exists THEN curid + 1 ELSE 0, !.total = sumcnt,
                 !.normal = IF exists THEN Places ELSE {}])

CreateShm(p) ==
    /\ At(p, "create")
    /\ UNCHANGED <<curid, sumcnt, state, fresh, up, test>>
    /\ exists' = TRUE
    /\ Set(p, [call[p] EXCEPT !.at = "wipe"])

Wipe(p) ==
    /\ At(p, "wipe")
    /\ UNCHANGED <<exists, curid, sumcnt, fresh, up, test>>
    /\ state' = [i \in Places |-> "none"]
    /\ Set(p, [call[p] EXCEPT !.at = "fill", !.i = 0])

Fill(p) ==
    /\ At(p, "fill")
    /\ UNCHANGED <<exists, fresh, up, test>>
    /\ IF call[p].i < Count
       THEN /\ state' = [state EXCEPT ![call[p].i] = "0"]
            /\ Set(p, [call[p] EXCEPT !.i = @ + 1])
            /\ UNCHANGED <<curid, sumcnt>>
       ELSE /\ sumcnt' = Count /\ curid' = FirstId
            /\ UNCHANGED state
            /\ Set(p, [call[p] EXCEPT !.at = "get"])

(* One turn of the loop: the place after the last used one, and on.  The   *)
(* loop is over at once when the last used one is taken for the last place. *)
FewerTurns == SVR_MAX - 1
Turns == SVR_MAX
Scan(p) ==
    LET c == call[p]
        next == [c EXCEPT !.j = @ + 1]
        over == c.i = SVR_MAX \/ c.j = Turns
    IN  /\ At(p, "scan") /\ UNCHANGED <<exists, sumcnt, state, fresh, up, test>>
        /\ \/ /\ over \/ (c.i = 0 /\ state[c.i] = "none")
              /\ Set(p, [c EXCEPT !.at = "count", !.refused = TRUE, !.j = 0])
              /\ UNCHANGED curid
           \/ /\ ~over
              /\ c.i = SVR_MAX - 1 \/ (state[c.i] = "none" /\ c.i # 0)
              /\ Set(p, [next EXCEPT !.i = 0])
              /\ UNCHANGED curid
           \/ /\ ~over /\ c.i # SVR_MAX - 1 /\ state[c.i] = "0"
              /\ curid' = c.i
              /\ Set(p, [c EXCEPT !.at = "count", !.normal = {}, !.j = 0])
           \/ /\ ~over /\ c.i # SVR_MAX - 1 /\ state[c.i] = "9"
              /\ Set(p, [next EXCEPT !.i = @ + 1, !.failed = TRUE])
              /\ UNCHANGED curid

(* With a failed one on the way they are counted, and perhaps tested;      *)
(* then the machine found is connected to.  What comes of the exchange, a  *)
(* connection that breaks included, is not held against the machine.       *)
MostFailed(n, total) == n > total \div 2
ManyFailed(n, total) == n >= total \div 2
Failed(total) == Cardinality({i \in Places : i < total /\ state[i] # "0"})
CountFailed(p) ==
    LET c == call[p]
        due == c.failed /\ ManyFailed(Failed(c.total), c.total) /\ fresh
    IN  /\ At(p, "count") /\ UNCHANGED <<shm, up>>
        /\ \/ /\ due
              /\ \E t \in Testers :
                    /\ test[t].at = "idle"
                    /\ test' = [test EXCEPT ![t].at = "begin"]
           \/ ~(due /\ \E t \in Testers : test[t].at = "idle") /\ UNCHANGED test
        /\ Set(p, IF c.refused \/ c.i \in up THEN Resting
                  ELSE [Resting EXCEPT !.at = "mark", !.i = c.i, !.tries = c.tries])

-----------------------------------------------------------------------------
(* Set_MYJ_Info: the machine is marked, and another one tried.             *)

Set_MYJ_Info(p) ==
    /\ At(p, "mark")
    /\ UNCHANGED <<exists, curid, sumcnt, fresh, up, test>>
    /\ state' = [state EXCEPT ![call[p].i] = "9"]
    /\ Set(p, IF call[p].tries < Tries
              THEN [Resting EXCEPT !.at = "get", !.tries = call[p].tries + 1]
              ELSE Resting)

(* TestState, in the child.                                                *)
TestBegin(t) ==
    /\ test[t].at = "begin"
    /\ fresh' = FALSE
    /\ test' = [test EXCEPT ![t] = [at |-> "probe", i |-> 0, found |-> "none"]]
    /\ UNCHANGED <<exists, curid, sumcnt, state, up>> /\ Others

TestProbe(t) ==
    LET i == test[t].i
    IN  /\ test[t].at = "probe"
        /\ test' = [test EXCEPT ![t] =
             IF i = SVR_MAX THEN [at |-> "idle", i |-> 0, found |-> "none"]
             ELSE IF state[i] = "none" THEN [at |-> "idle", i |-> 0, found |-> "none"]
             ELSE [at |-> "write", i |-> i, found |-> IF i \in up THEN "0" ELSE "9"]]
        /\ UNCHANGED <<shm, up>> /\ Others

TestWrite(t) ==
    /\ test[t].at = "write"
    /\ state' = [state EXCEPT ![test[t].i] = test[t].found]
    /\ test' = [test EXCEPT ![t] = [at |-> "probe", i |-> @.i + 1, found |-> "none"]]
    /\ UNCHANGED <<exists, curid, sumcnt, fresh, up>> /\ Others

(* The clock, and machines that fail and come back.                        *)
Tick == ~fresh /\ fresh' = TRUE
        /\ UNCHANGED <<exists, curid, sumcnt, state, up, test>> /\ Others
Fails(i) == i \in up /\ up' = up \ {i} /\ UNCHANGED <<shm, test>> /\ Others
ComesBack(i) == i \notin up /\ up' = up \cup {i} /\ UNCHANGED <<shm, test>> /\ Others

CallerStep(p) ==
    \/ Get_MYJ_Info(p) \/ CreateShm(p) \/ Wipe(p) \/ Fill(p) \/ Scan(p)
    \/ CountFailed(p) \/ Set_MYJ_Info(p)
TesterStep(t) == TestBegin(t) \/ TestProbe(t) \/ TestWrite(t)

KeysNext == \/ \E p \in Callers : CallerStep(p)
            \/ \E t \in Testers : TesterStep(t)
            \/ \E i \in Machines : Fails(i) \/ ComesBack(i)
            \/ Tick

(* Requests keep coming, whoever is running goes on, and time passes.      *)
KeysFairness == /\ \A p \in Callers : WF_keyVars(CallerStep(p))
                /\ \A t \in Testers : WF_keyVars(TesterStep(t))
                /\ WF_keyVars(Tick)
KeysSpec == KeysInit /\ [][KeysNext]_keyVars /\ KeysFairness

-----------------------------------------------------------------------------

(* The index of the machine last used is at first the number server.ini    *)
(* gives the first one: when that is the last number there is (no other    *)
(* machine is named then), no caller's loop makes a single turn, and each  *)
(* is refused whatever the machine is marked.                              *)
OnlyLast == FirstId = SVR_MAX - 1

(* A caller is told that no machine works only when none stayed marked     *)
(* normal while it looked: wherever it began and whatever others marked,   *)
(* the loop passes every place - but the last of the table, where it       *)
(* always turns back.  Excepted are callers that look at a table another   *)
(* one is filling, and the configuration with the last number only.        *)
RefusedNoneNormal ==
    ~OnlyLast => \A p \in Callers :
        call[p].refused => call[p].normal \subseteq {SVR_MAX - 1}

Marked == {i \in Machines : state[i] = "9"}
Recovered == Marked = {} \/ Cardinality(Marked) < Count \div 2

(* Machines that work again are used again: when all of them work from     *)
(* some time on, in the end fewer than half are marked failed (a smaller   *)
(* part is never tested), or none.                                         *)
WorkingComeBack == <>[](up = Machines) => <>[]Recovered
=============================================================================
