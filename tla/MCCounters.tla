------------------------------ MODULE MCCounters ------------------------------
(* The two counters that processes share outside the database, for TLC: the *)
(* serial number's file and the gateway's number of children.  Init chooses *)
(* one; the other stands still.  Liveness is checked: no symmetry.          *)
EXTENDS Serial, Gateway, TLC

VARIABLE counter
all == <<vars, gateVars, counter>>

CountersInit == Init /\ GateInit /\ counter \in {"serial", "gateway"}
OfSerial(A)  == counter = "serial" /\ A /\ UNCHANGED <<gateVars, counter>>
OfGateway(A) == counter = "gateway" /\ A /\ UNCHANGED <<vars, counter>>

CountersNext == OfSerial(Next) \/ OfGateway(GateNext)

(* The fairness of both specifications. *)
CountersSpec ==
    /\ CountersInit /\ [][CountersNext]_all
    /\ \A p \in Procs : WF_all(OfSerial(GenSerial(p)))
    /\ \A c \in Children : /\ WF_all(OfGateway(Shmat(c))) /\ SF_all(OfGateway(Waitv(c)))
                           /\ WF_all(OfGateway(UpdateProcNum(c)))
=============================================================================
