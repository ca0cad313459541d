------------------------------- MODULE Gateway -------------------------------
(***************************************************************************)
(* spdbsvr: the gateway in front of the platform (spdbsvr.c, ipc_utils.c). *)
(* It forks a child for every connection; the children count themselves in *)
(* shared memory, under a semaphore, so that at most gimaxProcNums serve.  *)
(*                                                                         *)
(* UpdateProcNum waits until the semaphore is zero and only then reads the *)
(* number; it raises the semaphore around the writing alone.  Another      *)
(* child that has read before the write overwrites it.  `stray' (history)  *)
(* is what makes the number differ from the children: an overwritten       *)
(* update, a child that ends without counting itself out, a failed shmat.  *)
(***************************************************************************)
EXTENDS Integers, FiniteSets

CONSTANTS Children,      \* process identifiers of children
          gimaxProcNums, \* the most children that are to serve at once
          MaxConns,      \* bound on the connections
          MaxKills       \* bound on the children that die by themselves

ASSUME GateAssumption ==
    IsFiniteSet(Children) /\ gimaxProcNums \in Nat /\ MaxConns \in Nat /\ MaxKills \in Nat

VARIABLES num,    \* the number in shared memory
          sem,    \* the semaphore
          gate,   \* whether the parent accepts connections
          at,     \* where each child is
          step,   \* UpdateProcNum's parameter: 1 or -1
          val,    \* its local procnum
          conns, kills,
          stray,  \* history: the number may differ from the children counted
          held    \* history: a child died with the semaphore raised

gateVars == <<num, sem, gate, at, step, val, conns, kills, stray, held>>

Updating == {"attach", "wait", "read", "raise", "write", "lower"}
Serving  == {"recv", "serve"}

GateInit == /\ num = 0 /\ sem = 0 /\ gate = "up"
            /\ at = [c \in Children |-> "idle"]
            /\ step = [c \in Children |-> 1] /\ val = [c \in Children |-> 0]
            /\ conns = 0 /\ kills = 0 /\ stray = FALSE /\ held = FALSE

Move(c, point) == at' = [at EXCEPT ![c] = point]
Only(c, from, to) == /\ at[c] = from /\ Move(c, to)
                     /\ UNCHANGED <<gate, step, conns, kills, held>>

(* Children between their first update and their last: those the number is *)
(* to count.                                                               *)
Counted(c) == \/ at[c] \in Serving
              \/ step[c] = 1 /\ at[c] = "lower"
              \/ step[c] = -1 /\ at[c] \in Updating \ {"lower"}

(* The parent accepts a connection and forks; the child's first call is    *)
(* UpdateProcNum(1).  (A connection whose fork fails is closed.)           *)
Accept(c) ==
    /\ gate = "up" /\ at[c] = "idle" /\ conns < MaxConns
    /\ conns' = conns + 1
    /\ Move(c, "attach") /\ step' = [step EXCEPT ![c] = 1]
    /\ UNCHANGED <<num, sem, gate, val, kills, stray, held>>

(* UpdateProcNum(-1), and the child exits. *)
CountOut(c) == Move(c, "attach") /\ step' = [step EXCEPT ![c] = -1]

(* The child exits: nothing is left of its local variables. *)
Exit(c) == /\ Move(c, "idle")
           /\ step' = [step EXCEPT ![c] = 1] /\ val' = [val EXCEPT ![c] = 0]

(* UpdateProcNum has returned n: the child serves, or is one too many (or  *)
(* the number is negative) and counts itself out; or it is out.            *)
Result(c, n) ==
    /\ val' = [val EXCEPT ![c] = 0]
    /\ \/ step[c] = 1 /\ n \in 0..gimaxProcNums /\ Move(c, "recv") /\ UNCHANGED step
       \/ step[c] = 1 /\ n \notin 0..gimaxProcNums /\ CountOut(c)
       \/ step[c] = -1 /\ Exit(c)

(* shmat; when it fails nothing is counted and -1 returned. *)
Shmat(c) ==
    \/ Only(c, "attach", "wait") /\ UNCHANGED <<num, sem, val, stray>>
    \/ /\ at[c] = "attach"
       /\ Result(c, -1)
       /\ stray' = TRUE
       /\ UNCHANGED <<num, sem, gate, conns, kills, held>>

(* waitv: go on when the semaphore is zero, without taking it. *)
Waitv(c) == /\ Only(c, "wait", "read") /\ sem = 0
            /\ UNCHANGED <<num, sem, val, stray>>

ReadNum(c) == /\ Only(c, "read", "raise")
              /\ val' = [val EXCEPT ![c] = num + step[c]]
              /\ UNCHANGED <<num, sem, stray>>

(* set_p: one up, which never waits. *)
SetP(c) == /\ Only(c, "raise", "write")
           /\ sem' = sem + 1
           /\ UNCHANGED <<num, val, stray>>

WriteNum(c) == /\ Only(c, "write", "lower")
               /\ num' = val[c]
               /\ stray' = (stray \/ num # val[c] - step[c])
               /\ UNCHANGED <<sem, val>>

\* Mutant: the semaphore is left raised.
SetVNot(c) == /\ at[c] = "lower"
              /\ Result(c, val[c])
              /\ UNCHANGED <<num, sem, gate, conns, kills, stray, held>>

(* set_v: one down, and UpdateProcNum returns. *)
SetV(c) == /\ at[c] = "lower"
           /\ sem' = sem - 1
           /\ Result(c, val[c])
           /\ UNCHANGED <<num, gate, conns, kills, stray, held>>

UpdateProcNum(c) == ReadNum(c) \/ SetP(c) \/ WriteNum(c) \/ SetV(c)

\* Mutant: a child that receives nothing exits at once.
RecvReqDataExit(c) ==
    /\ at[c] = "recv"
    /\ \/ Move(c, "serve") /\ UNCHANGED <<step, val>>
       \/ Exit(c)
    /\ UNCHANGED <<num, sem, gate, conns, kills, stray, held>>

(* The request arrives, or the connection breaks.  A client that sends     *)
(* nothing is waited for: the alarm only interrupts a read that is begun   *)
(* again (my_readn).                                                       *)
RecvReqData(c) ==
    /\ at[c] = "recv"
    /\ \/ Move(c, "serve") /\ UNCHANGED step
       \/ CountOut(c)
    /\ UNCHANGED <<num, sem, gate, val, conns, kills, stray, held>>

(* Convert, process, answer, count out.  A request that cannot be          *)
(* converted, and a database that cannot be opened (appsMain exits), end   *)
(* the child without counting it out.                                      *)
DoProcess(c) ==
    /\ at[c] = "serve"
    /\ \/ CountOut(c) /\ UNCHANGED <<val, stray>>
       \/ Exit(c) /\ stray' = TRUE
    /\ UNCHANGED <<num, sem, gate, conns, kills, held>>

(* A child dies wherever it is. *)
Dies(c) ==
    /\ at[c] # "idle" /\ kills < MaxKills
    /\ kills' = kills + 1
    /\ stray' = (stray \/ Counted(c))
    /\ held' = (held \/ at[c] \in {"write", "lower"})
    /\ Exit(c)
    /\ UNCHANGED <<num, sem, gate, conns>>

(* The parent is stopped; its children go on. *)
StopRun == /\ gate = "up" /\ gate' = "down"
           /\ UNCHANGED <<num, sem, at, step, val, conns, kills, stray, held>>

(* bin/Kill: the parent and every child. *)
KillAll == /\ gate' = "down" /\ at' = [c \in Children |-> "idle"]
           /\ step' = [c \in Children |-> 1] /\ val' = [c \in Children |-> 0]
           /\ stray' = TRUE
           /\ held' = (held \/ \E c \in Children : at[c] \in {"write", "lower"})
           /\ UNCHANGED <<num, sem, conns, kills>>

(* bin/start.sh starts spdbsvr when no process of that name is left;       *)
(* InitProcManage sets semaphore and number to zero.                       *)
InitProcManage ==
    /\ gate = "down" /\ \A c \in Children : at[c] = "idle"
    /\ gate' = "up" /\ num' = 0 /\ sem' = 0
    /\ stray' = FALSE /\ held' = FALSE
    /\ UNCHANGED <<at, step, val, conns, kills>>

ChildStep(c) == Shmat(c) \/ Waitv(c) \/ UpdateProcNum(c)

GateNext == \/ \E c \in Children : \/ Accept(c) \/ ChildStep(c) \/ RecvReqData(c)
                                   \/ DoProcess(c) \/ Dies(c)
            \/ StopRun \/ KillAll \/ InitProcManage

(* A child inside UpdateProcNum is scheduled, and when the semaphore       *)
(* becomes zero the kernel completes every semop that waits for that.      *)
(* Clients and the platform promise nothing.                               *)
GateSpec == /\ GateInit /\ [][GateNext]_gateVars
            /\ \A c \in Children : /\ WF_gateVars(Shmat(c)) /\ SF_gateVars(Waitv(c))
                                   /\ WF_gateVars(UpdateProcNum(c))
-----------------------------------------------------------------------------
NumCounts == num = Cardinality({c \in Children : Counted(c)})
AtMostMax == Cardinality({c \in Children : at[c] \in Serving}) <= gimaxProcNums

(* Unless an update was overwritten, a child ended without counting itself *)
(* out, or shmat failed, since the gateway was started, the number is that *)
(* of the children that serve, or are about to leave - a refused client, a *)
(* broken connection and a full gateway all give their place back - and no *)
(* more than gimaxProcNums serve, "the greatest number of concurrent       *)
(* processes" (spdbsvr.c:32).                                              *)
CountTells == ~stray => NumCounts /\ AtMostMax

(* A child that updates the number gets through, whoever else is updating  *)
(* it, unless one died with the semaphore raised.                          *)
UpdatesEnd == \A c \in Children : at[c] \in Updating ~> (at[c] \notin Updating \/ held)
=============================================================================
